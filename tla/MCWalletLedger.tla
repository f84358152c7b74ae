--------------------------- MODULE MCWalletLedger ---------------------------
(* WalletLedger on two wallets and four rows.                              *)
EXTENDS WalletLedger, TLC

CONSTANTS w1, w2, t1, t2, t3, t4

MCWallet == {w1, w2}
MCTxId == {t1, t2, t3, t4}

(* Wallets and primary keys are interchangeable.                           *)
MCSymmetry == Permutations(MCWallet) \cup Permutations(MCTxId)
=============================================================================
