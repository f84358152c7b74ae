--------------------------- MODULE MCWalletLocking ---------------------------
(* WalletLocking on two wallets, three rows and two concurrent calls.      *)
EXTENDS WalletLocking, TLC

CONSTANTS w1, w2, t1, t2, t3, p1, p2

MCTxId == {t1, t2, t3}
MCProc == {p1, p2}
MCWallet == {w1, w2}
MCSymmetry == Permutations(MCWallet) \cup Permutations(MCTxId)
                \cup Permutations(MCProc)
=============================================================================
