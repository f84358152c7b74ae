SPECIFICATION LedgerSpec
CONSTANTS
  w1 = w1
  w2 = w2
  t1 = t1
  t2 = t2
  t3 = t3
  t4 = t4
  NoTx = NoTx
  Wallet <- MCWallet
  TxId <- MCTxId
  Amount = {1, 2}
SYMMETRY MCSymmetry
INVARIANTS
  TypeOK
  LedgerChain
  AppliedOnce
  TransfersPaired
PROPERTIES
  RowLifecycle
  ImplementsAccountBook
CHECK_DEADLOCK FALSE
