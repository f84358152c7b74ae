SPECIFICATION Spec
CONSTANTS
  w1 = w1
  t1 = t1
  t2 = t2
  t3 = t3
  r1 = r1
  r2 = r2
  s1 = s1
  NoTx = NoTx
  Wallet = {w1}
  TxId <- MCTxId
  Amount = {1, 2}
  Resident = {w1}
  Request <- MCRequest
  Settlement <- MCSettlement
  SettlementAmount <- MCSettlementAmount
SYMMETRY MCSymmetry
INVARIANTS
  PaidOnce
PROPERTIES
  ImplementsAccountBook
CHECK_DEADLOCK FALSE
