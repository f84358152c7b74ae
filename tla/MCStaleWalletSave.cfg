SPECIFICATION RestSpec
CONSTANTS
  w1 = w1
  w2 = w2
  t1 = t1
  t2 = t2
  t3 = t3
  r1 = r1
  s1 = s1
  NoTx = NoTx
  Wallet = {w1}
  TxId <- MCTxId
  Amount = {2}
  Resident = {w1}
  Request = {r1}
  Settlement = {s1}
  SettlementAmount = {1}
SYMMETRY MCSymmetry
PROPERTY EveryChangeBooked
CHECK_DEADLOCK FALSE
