SPECIFICATION OnlineSpec
CONSTANTS
  w1 = w1
  t1 = t1
  t2 = t2
  t3 = t3
  h1 = h1
  h2 = h2
  NoTx = NoTx
  Wallet = {w1}
  TxId <- MCTxId
  Amount = {3}
  Unit = 2
  Handler <- MCHandler
  MaxCallbacks = 2
SYMMETRY MCSymmetry
INVARIANT CapturedIsCredited
CHECK_DEADLOCK FALSE
