----------------------------- MODULE MCPayouts -----------------------------
(* Payouts on one wallet, two withdrawal requests and one settlement: a    *)
(* deposit of 2 is enough to pay a request of 1 twice.                     *)
EXTENDS Payouts, TLC

CONSTANTS w1, t1, t2, t3, r1, r2, s1

MCTxId == {t1, t2, t3}
MCRequest == {r1, r2}
MCSettlement == {s1}

(* A settlement's amount has no sign check (negative numbers need a        *)
(* definition: a cfg cannot write them).                                   *)
MCSettlementAmount == {-1, 1}

MCSymmetry == Permutations(MCTxId) \cup Permutations(MCRequest)
=============================================================================
