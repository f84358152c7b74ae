---------------------------- MODULE MCRestUpdates ----------------------------
(* RestUpdates on one or two wallets, with one request and one settlement. *)
EXTENDS RestUpdates, TLC

CONSTANTS w1, w2, t1, t2, t3, r1, s1

MCTxId == {t1, t2, t3}
MCSymmetry == Permutations(MCTxId)
=============================================================================
