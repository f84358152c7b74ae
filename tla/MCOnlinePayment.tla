--------------------------- MODULE MCOnlinePayment ---------------------------
(* OnlinePayment with one wallet, three rows and two concurrent callbacks. *)
EXTENDS OnlinePayment, TLC

CONSTANTS w1, t1, t2, t3, h1, h2

MCTxId == {t1, t2, t3}
MCHandler == {h1, h2}
MCSymmetry == Permutations(MCTxId) \cup Permutations(MCHandler)
=============================================================================
