SPECIFICATION FairLockSpec
CONSTANTS
  w1 = w1
  w2 = w2
  t1 = t1
  t2 = t2
  t3 = t3
  p1 = p1
  p2 = p2
  NoTx = NoTx
  Nobody = Nobody
  Opened = {"DEPOSIT", "WITHDRAW"}
  Ended = {"EXPIRED"}
  Wallet <- MCWallet
  TxId = {t1, t2}
  Amount = {1}
  Proc <- MCProc
INVARIANTS
  LockedReadsCurrent
  OnlyTransfersDeadlock
PROPERTIES
  Serializable
  CallsEnd
CHECK_DEADLOCK FALSE
