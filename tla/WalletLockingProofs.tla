------------------------- MODULE WalletLockingProofs -------------------------
(***************************************************************************)
(* The services as transactions that take row locks, for any number of     *)
(* processes, wallets and rows: what a process read of the rows it holds   *)
(* is current, so every commit is one step of WalletLedger, and the only   *)
(* calls that can wait for each other in a circle are transfers.           *)
(*                                                                         *)
(* Both rest on where a call is in its lock order: the rows it has read    *)
(* are the first of one of its LockOrders, the rest is still in its plan.  *)
(* For settle_pending_transaction the second row is the wallet its locked  *)
(* row names, which no other call rewrites.                                *)
(***************************************************************************)
EXTENDS WalletLocking, WalletLedgerProofs

(* Process p has locked the rows of order before those of its plan.        *)
Along(p, order) ==
  \/ plan[p] = order /\ DOMAIN read[p] = {}
  \/ /\ Len(order) = 2
     /\ plan[p] = <<order[2]>> /\ DOMAIN read[p] = {order[1]}
  \/ /\ plan[p] = << >>
     /\ DOMAIN read[p] = {order[i] : i \in 1..Len(order)}

RowCall == {"settle", "fail", "refund"}

CallOK(p) ==
  IF call[p] = Idle
  THEN plan[p] = << >> /\ DOMAIN read[p] = {}
  ELSE /\ call[p] \in Call
       /\ call[p].op \in RowCall => ~Fresh(call[p].t)
       /\ \E order \in LockOrders(call[p]) : Along(p, order)

Holds(p) == \A r \in LockRow : owner[r] = p <=> r \in DOMAIN read[p]
Current(p) == \A r \in DOMAIN read[p] : read[p][r] = Contents(r)

LockInv ==
  /\ IInv
  /\ read = [p \in Proc |-> read[p]]
  /\ call = [p \in Proc |-> call[p]]
  /\ plan = [p \in Proc |-> plan[p]]
  /\ owner = [r \in LockRow |-> owner[r]]
  /\ \A p \in Proc : CallOK(p) /\ Holds(p) /\ Current(p)

-----------------------------------------------------------------------------
(* Calls and their lock orders                                             *)

LEMMA CallKinds ==
  ASSUME NEW c \in Call
  PROVE  /\ c # Idle
         /\ c.op \in {"deposit", "withdraw", "transfer", "settle", "fail", "refund"}
         /\ c.op \in {"deposit", "withdraw", "refund"} => c.w \in Wallet /\ c.a \in Amount
         /\ c.op = "transfer" => c.s \in Wallet /\ c.d \in Wallet /\ c.s # c.d /\ c.a \in Amount
         /\ c.op \in RowCall => c.t \in TxId
         /\ c.op = "fail" => c.to \in Failure
BY EndedAssumption DEF Call, Idle, RowCall

(* What every call locks: at most two rows, the second one a wallet.       *)
LEMMA OrdersOK ==
  ASSUME TypeOK, NEW c \in Call, c.op \in RowCall => ~Fresh(c.t),
         NEW order \in LockOrders(c)
  PROVE  /\ \/ \E r \in LockRow : order = <<r>>
            \/ \E r \in LockRow, w \in Wallet : order = <<r, w>> /\ r # w
         /\ c.op \in RowCall => order[1] = c.t
         /\ c.op \notin RowCall => order[1] \in Wallet
         /\ c.op # "transfer" /\ c.op \notin RowCall => order = <<c.w>>
         /\ c.op = "refund" => order = <<c.t, c.w>>
         /\ c.op = "settle" => order = <<c.t, tx[c.t].wallet>>
         /\ c.op = "fail" => order = <<c.t>>
         /\ c.op = "transfer" => order = <<c.s, c.d>> \/ order = <<c.d, c.s>>
<1>1. c.op \in {"deposit", "withdraw"} => order = <<c.w>> /\ c.w \in Wallet
  BY CallKinds DEF LockOrders
<1>2. c.op = "transfer" => /\ order = <<c.s, c.d>> \/ order = <<c.d, c.s>>
                           /\ c.s \in Wallet /\ c.d \in Wallet /\ c.s # c.d
  BY CallKinds DEF LockOrders
<1>3. c.op = "settle" => /\ order = <<c.t, tx[c.t].wallet>>
                         /\ c.t \in TxId /\ tx[c.t].wallet \in Wallet
  BY CallKinds, RowTyped DEF LockOrders, RowCall
<1>4. c.op = "fail" => order = <<c.t>> /\ c.t \in TxId
  BY CallKinds DEF LockOrders, RowCall
<1>5. c.op = "refund" => order = <<c.t, c.w>> /\ c.t \in TxId /\ c.w \in Wallet
  BY CallKinds DEF LockOrders, RowCall
<1>6. \A t \in TxId, w \in Wallet : t # w
  BY RowAssumption
<1> QED
  BY <1>1, <1>2, <1>3, <1>4, <1>5, <1>6, CallKinds DEF LockRow, RowCall

(* The rows a process has read are rows it may lock.                       *)
LEMMA ReadRows ==
  ASSUME LockInv, NEW p \in Proc
  PROVE  /\ DOMAIN read[p] \subseteq LockRow
         /\ \A t \in TxId \cap DOMAIN read[p] : ~Fresh(t)
<1>1. TypeOK /\ CallOK(p)
  BY DEF LockInv, IInv
<1>2. CASE call[p] = Idle
  BY <1>1, <1>2 DEF CallOK
<1>3. CASE call[p] # Idle
  <2>1. PICK order \in LockOrders(call[p]) : Along(p, order)
    BY <1>1, <1>3 DEF CallOK
  <2>2. call[p] \in Call /\ (call[p].op \in RowCall => ~Fresh(call[p].t))
    BY <1>1, <1>3 DEF CallOK
  <2>3. /\ \/ \E r \in LockRow : order = <<r>>
           \/ \E r \in LockRow, w \in Wallet : order = <<r, w>> /\ r # w
        /\ call[p].op \in RowCall => order[1] = call[p].t
        /\ call[p].op \notin RowCall => order[1] \in Wallet
    BY <1>1, <2>1, <2>2, OrdersOK
  <2>4. DOMAIN read[p] \subseteq {order[i] : i \in 1..Len(order)}
    BY <2>1, <2>3 DEF Along
  <2>5. \A r \in DOMAIN read[p] : r = order[1] \/ r \in Wallet
    BY <2>3, <2>4
  <2>6. order[1] \in LockRow
    BY <2>3
  <2>7. \A t \in TxId : t \notin Wallet
    BY RowAssumption
  <2> QED
    BY <2>2, <2>3, <2>5, <2>6, <2>7 DEF LockRow
<1> QED
  BY <1>2, <1>3

-----------------------------------------------------------------------------
(* What the other processes know survives a step                           *)

(* Rows stay rows of their wallet, whatever call commits.                  *)
LEMMA LedgerFrame ==
  ASSUME IInv, LedgerNext \/ UNCHANGED ledgerVars
  PROVE  /\ IInv'
         /\ \A t \in TxId : ~Fresh(t) => ~Fresh(t)' /\ tx'[t].wallet = tx[t].wallet
<1>1. IInv' /\ \A t \in TxId : RowStep(t)
  BY NextInvariant, StutterInvariant
<1>2. \A t \in TxId : ~Fresh(t) => ~Fresh(t)' /\ tx'[t].wallet = tx[t].wallet
  BY <1>1 DEF RowStep, Fresh, AllowedTransitions
<1> QED
  BY <1>1, <1>2

LEMMA OtherKept ==
  ASSUME LockInv, NEW q \in Proc,
         call'[q] = call[q], plan'[q] = plan[q], read'[q] = read[q],
         \A r \in LockRow : owner'[r] = q <=> owner[r] = q,
         \A r \in DOMAIN read[q] : Contents(r)' = Contents(r),
         \A t \in TxId : ~Fresh(t) => ~Fresh(t)' /\ tx'[t].wallet = tx[t].wallet
  PROVE  (CallOK(q) /\ Holds(q) /\ Current(q))'
<1>1. CallOK(q) /\ Holds(q) /\ Current(q)
  BY DEF LockInv
<1>2. Holds(q)' /\ Current(q)'
  BY <1>1 DEF Holds, Current
<1>3. CASE call[q] = Idle
  BY <1>1, <1>2, <1>3 DEF CallOK
<1>4. CASE call[q] # Idle
  <2>1. PICK order \in LockOrders(call[q]) : Along(q, order)
    BY <1>1, <1>4 DEF CallOK
  <2>2. call[q] \in Call /\ (call[q].op \in RowCall => ~Fresh(call[q].t))
    BY <1>1, <1>4 DEF CallOK
  <2>3. call[q].op \in RowCall => call[q].t \in TxId
    BY <2>2, CallKinds
  <2>4. call'[q].op \in RowCall => ~Fresh(call[q].t)' /\ tx'[call[q].t].wallet = tx[call[q].t].wallet
    BY <2>2, <2>3
  <2>5. Along(q, order)'
    BY <2>1 DEF Along
  <2>6. LockOrders(call[q])' = LockOrders(call[q])
    BY <2>4 DEF LockOrders, RowCall
  <2>7. call'[q].op \in RowCall => ~Fresh(call[q].t)'
    BY <2>4
  <2> QED
    BY <1>2, <1>4, <2>1, <2>2, <2>5, <2>6, <2>7 DEF CallOK
<1> QED
  BY <1>3, <1>4

(* No two processes hold a row.                                            *)
LEMMA Exclusive ==
  ASSUME LockInv, NEW p \in Proc, NEW q \in Proc \ {p}
  PROVE  DOMAIN read[p] \cap DOMAIN read[q] = {}
BY ReadRows DEF LockInv, Holds

-----------------------------------------------------------------------------
(* The steps                                                               *)

LEMMA StartInv ==
  ASSUME LockInv, NEW p \in Proc, NEW c \in Call, Start(p, c)
  PROVE  LockInv'
<1>1. /\ call[p] = Idle /\ (c.op \in RowCall => ~Fresh(c.t))
      /\ call' = [call EXCEPT ![p] = c] /\ UNCHANGED <<balance, tx, history, read, owner>>
  BY DEF Start, ledgerVars, RowCall
<1>2. PICK order \in LockOrders(c) : plan' = [plan EXCEPT ![p] = order]
  BY DEF Start
<1>3. IInv'
  BY <1>1, StutterInvariant DEF LockInv, ledgerVars
<1>4. /\ read' = [q \in Proc |-> read'[q]] /\ call' = [q \in Proc |-> call'[q]]
      /\ plan' = [q \in Proc |-> plan'[q]] /\ owner' = [r \in LockRow |-> owner'[r]]
      /\ call'[p] = c /\ plan'[p] = order
      /\ \A q \in Proc \ {p} : call'[q] = call[q] /\ plan'[q] = plan[q]
  BY <1>1, <1>2 DEF LockInv
<1>5. ASSUME NEW q \in Proc \ {p} PROVE (CallOK(q) /\ Holds(q) /\ Current(q))'
  <2>1. \A r : Contents(r)' = Contents(r)
    BY <1>1 DEF Contents
  <2>2. \A t \in TxId : ~Fresh(t) => ~Fresh(t)' /\ tx'[t].wallet = tx[t].wallet
    BY <1>1 DEF Fresh
  <2> QED
    BY <1>1, <1>4, <2>1, <2>2, OtherKept
<1>6. CallOK(p)'
  <2>1. Along(p, order)'
    BY <1>1, <1>4 DEF LockInv, CallOK, Along
  <2>2. LockOrders(c)' = LockOrders(c) /\ (Fresh(c.t)' <=> Fresh(c.t))
    BY <1>1 DEF LockOrders, Fresh
  <2>3. c # Idle
    BY CallKinds
  <2> QED
    BY <1>1, <1>4, <2>1, <2>2, <2>3 DEF CallOK
<1>7. Holds(p)' /\ Current(p)'
  BY <1>1 DEF LockInv, Holds, Current, Contents
<1> QED
  BY <1>3, <1>4, <1>5, <1>6, <1>7 DEF LockInv

LEMMA AcquireInv ==
  ASSUME LockInv, NEW p \in Proc, Acquire(p)
  PROVE  LockInv'
<1> DEFINE r == Head(plan[p])
<1>1. /\ plan[p] # << >> /\ owner[r] = Nobody
      /\ owner' = [owner EXCEPT ![r] = p] /\ Reads(p, r)
      /\ plan' = [plan EXCEPT ![p] = Tail(@)]
      /\ UNCHANGED <<balance, tx, history, call>>
  BY DEF Acquire, ledgerVars
<1>2. IInv'
  BY <1>1, StutterInvariant DEF LockInv, ledgerVars
<1>3. call[p] # Idle /\ CallOK(p) /\ Holds(p) /\ Current(p)
  BY <1>1 DEF LockInv, CallOK
<1>4. PICK order \in LockOrders(call[p]) : Along(p, order)
  BY <1>3 DEF CallOK
<1>5. \/ \E x \in LockRow : order = <<x>>
      \/ \E x \in LockRow, w \in Wallet : order = <<x, w>> /\ x # w
  BY <1>3, <1>4, OrdersOK DEF CallOK, LockInv, IInv
<1>6. \/ /\ plan[p] = order /\ DOMAIN read[p] = {}
      \/ /\ Len(order) = 2 /\ plan[p] = <<order[2]>> /\ DOMAIN read[p] = {order[1]}
  BY <1>1, <1>4 DEF Along
<1>7. r \in LockRow /\ r \notin DOMAIN read[p]
  BY <1>5, <1>6 DEF LockRow
<1>8. \/ /\ Len(order) = 1 /\ Tail(plan[p]) = << >>
         /\ DOMAIN read[p] \cup {r} = {order[i] : i \in 1..Len(order)}
      \/ /\ Len(order) = 2 /\ Tail(plan[p]) = <<order[2]>>
         /\ DOMAIN read[p] \cup {r} = {order[1]}
      \/ /\ Len(order) = 2 /\ Tail(plan[p]) = << >>
         /\ DOMAIN read[p] \cup {r} = {order[i] : i \in 1..Len(order)}
  <2>1. CASE plan[p] = order /\ DOMAIN read[p] = {} /\ \E x \in LockRow : order = <<x>>
    <3>1. PICK x \in LockRow : order = <<x>>
      BY <2>1
    <3>2. Len(order) = 1 /\ r = x /\ Tail(plan[p]) = << >>
      BY <2>1, <3>1
    <3>3. {order[i] : i \in 1..Len(order)} = {x}
      BY <3>1
    <3> QED
      BY <2>1, <3>2, <3>3
  <2>2. CASE /\ plan[p] = order /\ DOMAIN read[p] = {}
             /\ \E x \in LockRow, w \in Wallet : order = <<x, w>> /\ x # w
    BY <2>2
  <2>3. CASE Len(order) = 2 /\ plan[p] = <<order[2]>> /\ DOMAIN read[p] = {order[1]}
    <3>1. r = order[2] /\ Tail(plan[p]) = << >>
      BY <2>3
    <3>2. {order[i] : i \in 1..Len(order)} = {order[1], order[2]}
      BY <2>3
    <3> QED
      BY <2>3, <3>1, <3>2
  <2> QED
    BY <1>5, <1>6, <2>1, <2>2, <2>3
<1> HIDE DEF r
<1>9. /\ read' = [q \in Proc |-> read'[q]] /\ call' = [q \in Proc |-> call'[q]]
      /\ plan' = [q \in Proc |-> plan'[q]] /\ owner' = [x \in LockRow |-> owner'[x]]
      /\ plan'[p] = Tail(plan[p]) /\ call' = call
      /\ read'[p] = [x \in DOMAIN read[p] \cup {r} |-> IF x = r THEN Contents(r) ELSE read[p][x]]
      /\ \A q \in Proc \ {p} : plan'[q] = plan[q] /\ read'[q] = read[q]
      /\ owner'[r] = p /\ \A x \in LockRow \ {r} : owner'[x] = owner[x]
  BY <1>1, <1>7 DEF LockInv, Reads
<1>10. DOMAIN read'[p] = DOMAIN read[p] \cup {r}
  BY <1>9
<1>11. \A x : Contents(x)' = Contents(x)
  BY <1>1 DEF Contents
<1>12. ASSUME NEW q \in Proc \ {p} PROVE (CallOK(q) /\ Holds(q) /\ Current(q))'
  <2>1. \A t \in TxId : ~Fresh(t) => ~Fresh(t)' /\ tx'[t].wallet = tx[t].wallet
    BY <1>1 DEF Fresh
  <2>2. owner[r] # q /\ owner'[r] # q
    <3>1. owner[r] = Nobody /\ owner'[r] = p
      BY <1>1, <1>9
    <3> QED
      BY <3>1, RowAssumption
  <2> QED
    BY <1>9, <1>11, <2>1, <2>2, OtherKept
<1>13. CallOK(p)'
  <2>1. Along(p, order)'
    BY <1>8, <1>9, <1>10 DEF Along
  <2>2. LockOrders(call[p])' = LockOrders(call[p]) /\ (Fresh(call[p].t)' <=> Fresh(call[p].t))
    BY <1>1 DEF LockOrders, Fresh
  <2> QED
    BY <1>3, <1>4, <1>9, <2>1, <2>2 DEF CallOK
<1>14. Holds(p)'
  BY <1>3, <1>7, <1>9, <1>10 DEF Holds
<1>15. Current(p)'
  BY <1>3, <1>9, <1>10, <1>11 DEF Current
<1> QED
  BY <1>2, <1>9, <1>12, <1>13, <1>14, <1>15 DEF LockInv

LEMMA InsertPendingInv ==
  ASSUME LockInv, NEW w \in Wallet, NEW t \in TxId, NEW k \in Opened, NEW a \in Amount,
         InsertPending(w, t, k, a)
  PROVE  LockInv' /\ LedgerNext
<1>1. LedgerNext
  BY OpenedAssumption DEF InsertPending, LedgerNext
<1>2. IInv' /\ \A u \in TxId : ~Fresh(u) => ~Fresh(u)' /\ tx'[u].wallet = tx[u].wallet
  BY <1>1, LedgerFrame DEF LockInv
<1>3. /\ Fresh(t) /\ balance' = balance /\ \A u \in TxId \ {t} : tx'[u] = tx[u]
      /\ UNCHANGED <<call, plan, read, owner>>
  BY DEF InsertPending, CreatePending, procVars, LockInv, IInv, TypeOK
<1>4. ASSUME NEW q \in Proc PROVE (CallOK(q) /\ Holds(q) /\ Current(q))'
  <2>1. \A r \in DOMAIN read[q] : Contents(r)' = Contents(r)
    BY <1>3, ReadRows DEF Contents, LockRow
  <2> QED
    BY <1>2, <1>3, <2>1, OtherKept
<1> QED
  BY <1>1, <1>2, <1>3, <1>4 DEF LockInv

(* A transaction ends: what it wrote were rows it had locked, or new ones. *)
LEMMA ReleaseInv ==
  ASSUME LockInv, NEW p \in Proc, Release(p), LedgerNext \/ UNCHANGED ledgerVars,
         \A r \in LockRow \ DOMAIN read[p] : Contents(r)' = Contents(r) \/ (r \in TxId /\ Fresh(r))
  PROVE  LockInv'
<1>1. IInv' /\ \A u \in TxId : ~Fresh(u) => ~Fresh(u)' /\ tx'[u].wallet = tx[u].wallet
  BY LedgerFrame DEF LockInv
<1>2. /\ read' = [q \in Proc |-> read'[q]] /\ call' = [q \in Proc |-> call'[q]]
      /\ plan' = [q \in Proc |-> plan'[q]] /\ owner' = [x \in LockRow |-> owner'[x]]
      /\ call'[p] = Idle /\ plan'[p] = << >> /\ read'[p] = << >>
      /\ \A q \in Proc \ {p} : call'[q] = call[q] /\ plan'[q] = plan[q] /\ read'[q] = read[q]
      /\ \A x \in LockRow : owner'[x] = IF owner[x] = p THEN Nobody ELSE owner[x]
  BY DEF Release, LockInv
<1>3. ASSUME NEW q \in Proc \ {p} PROVE (CallOK(q) /\ Holds(q) /\ Current(q))'
  <2>1. \A r \in LockRow : owner'[r] = q <=> owner[r] = q
    BY <1>2, RowAssumption
  <2>2. \A r \in DOMAIN read[q] : Contents(r)' = Contents(r)
    BY ReadRows, Exclusive
  <2> QED
    BY <1>1, <1>2, <2>1, <2>2, OtherKept
<1>4. DOMAIN read'[p] = {}
  BY <1>2
<1>5. CallOK(p)' /\ Current(p)'
  BY <1>2, <1>4 DEF CallOK, Current
<1>6. Holds(p)'
  BY <1>2, <1>4, RowAssumption DEF Holds
<1> QED
  BY <1>1, <1>2, <1>3, <1>5, <1>6 DEF LockInv

LEMMA EndInv ==
  ASSUME LockInv, NEW p \in Proc, Release(p), UNCHANGED ledgerVars
  PROVE  LockInv'
<1>1. \A r : Contents(r)' = Contents(r)
  BY DEF Contents, ledgerVars
<1> QED
  BY <1>1, ReleaseInv

(* With its plan done, a call holds its rows and what it read is current.  *)
LEMMA AllLocked ==
  ASSUME LockInv, NEW p \in Proc, NEW c, c = call[p], c # Idle, plan[p] = << >>
  PROVE  /\ c \in Call
         /\ c.op \in {"deposit", "withdraw", "refund"} =>
               c.w \in DOMAIN read[p] /\ read[p][c.w] = balance[c.w]
         /\ c.op = "transfer" =>
               /\ c.s \in DOMAIN read[p] /\ read[p][c.s] = balance[c.s]
               /\ c.d \in DOMAIN read[p] /\ read[p][c.d] = balance[c.d]
         /\ c.op \in RowCall =>
               /\ c.t \in DOMAIN read[p] /\ read[p][c.t] = tx[c.t]
               /\ ~Fresh(c.t)
         /\ c.op = "settle" =>
               /\ tx[c.t].wallet \in DOMAIN read[p]
               /\ read[p][tx[c.t].wallet] = balance[tx[c.t].wallet]
<1>1. /\ c \in Call /\ (c.op \in RowCall => ~Fresh(c.t)) /\ TypeOK
      /\ Current(p) /\ DOMAIN read[p] \subseteq LockRow
  BY ReadRows DEF LockInv, CallOK, IInv
<1>2. PICK order \in LockOrders(c) : Along(p, order)
  BY DEF LockInv, CallOK
<1>3. /\ \/ \E r \in LockRow : order = <<r>>
         \/ \E r \in LockRow, w \in Wallet : order = <<r, w>> /\ r # w
      /\ c.op # "transfer" /\ c.op \notin RowCall => order = <<c.w>>
      /\ c.op = "refund" => order = <<c.t, c.w>>
      /\ c.op = "settle" => order = <<c.t, tx[c.t].wallet>>
      /\ c.op = "fail" => order = <<c.t>>
      /\ c.op = "transfer" => order = <<c.s, c.d>> \/ order = <<c.d, c.s>>
  BY <1>1, <1>2, OrdersOK
<1>4. DOMAIN read[p] = {order[i] : i \in 1..Len(order)}
  BY <1>2, <1>3 DEF Along
<1>5. \A r, s : order = <<r, s>> => r \in DOMAIN read[p] /\ s \in DOMAIN read[p]
  BY <1>4
<1>6. \A r : order = <<r>> => r \in DOMAIN read[p]
  BY <1>4
<1>7. \A w \in Wallet \cap DOMAIN read[p] : read[p][w] = balance[w]
  BY <1>1 DEF Current, Contents
<1>8. \A t \in TxId \cap DOMAIN read[p] : read[p][t] = tx[t]
  BY <1>1, RowAssumption DEF Current, Contents
<1>9. c.op \in RowCall => c.t \in TxId /\ tx[c.t].wallet \in Wallet
  BY <1>1, CallKinds, RowTyped
<1>10. c.op \in {"deposit", "withdraw", "refund"} =>
          c.w \in DOMAIN read[p] /\ c.w \in Wallet
  BY <1>1, <1>3, <1>5, <1>6, CallKinds DEF RowCall
<1>11. c.op = "transfer" =>
          /\ c.s \in DOMAIN read[p] /\ c.s \in Wallet
          /\ c.d \in DOMAIN read[p] /\ c.d \in Wallet
  BY <1>1, <1>3, <1>5, CallKinds
<1>12. c.op \in RowCall => c.t \in DOMAIN read[p]
  BY <1>3, <1>5, <1>6 DEF RowCall
<1>13. c.op = "settle" => tx[c.t].wallet \in DOMAIN read[p]
  BY <1>3, <1>5
<1> QED
  BY <1>1, <1>7, <1>8, <1>9, <1>10, <1>11, <1>12, <1>13 DEF RowCall

-----------------------------------------------------------------------------
(* A commit is one call of the ledger                                      *)

(* What a commit of p may write.                                           *)
OwnRows(p) ==
  \A r \in LockRow \ DOMAIN read[p] :
     Contents(r)' = Contents(r) \/ (r \in TxId /\ Fresh(r))

LEMMA OwnRowsParts ==
  ASSUME LockInv, NEW p \in Proc,
         \A w \in Wallet \ DOMAIN read[p] : balance'[w] = balance[w],
         \A t \in TxId \ DOMAIN read[p] : tx'[t] = tx[t] \/ Fresh(t)
  PROVE  OwnRows(p)
BY DEF OwnRows, Contents, LockRow

LEMMA BookedCommit ==
  ASSUME LockInv, NEW p \in Proc, NEW w \in Wallet, NEW t \in TxId, NEW k, NEW a \in Amount,
         NEW after, w \in DOMAIN read[p], read[p][w] = balance[w],
         WriteBooked(p, w, t, k, a, after)
  PROVE  Book(w, t, k, a, after) /\ OwnRows(p)
<1>1. Book(w, t, k, a, after)
  BY DEF WriteBooked, Book
<1>2. /\ \A v \in Wallet \ DOMAIN read[p] : balance'[v] = balance[v]
      /\ \A u \in TxId \ DOMAIN read[p] : tx'[u] = tx[u] \/ Fresh(u)
  BY <1>1 DEF Book, LockInv, IInv, TypeOK
<1> QED
  BY <1>1, <1>2, OwnRowsParts

LEMMA TransferCommit ==
  ASSUME LockInv, NEW p \in Proc, NEW c \in Call, c.op = "transfer",
         NEW out \in TxId, NEW in \in TxId,
         c.s \in DOMAIN read[p], read[p][c.s] = balance[c.s],
         c.d \in DOMAIN read[p], read[p][c.d] = balance[c.d],
         WriteTransfer(p, c, out, in)
  PROVE  LedgerNext /\ OwnRows(p)
<1>1. c.s \in Wallet /\ c.d \in Wallet /\ c.s # c.d /\ c.a \in Amount
  BY CallKinds
<1>2. Transfer(c.s, c.d, out, in, c.a)
  <2>1. /\ Fresh(out) /\ Fresh(in) /\ out # in /\ balance[c.s] >= c.a
        /\ balance' = [balance EXCEPT ![c.s] = balance[c.s] - c.a, ![c.d] = balance[c.d] + c.a]
        /\ tx' = [tx EXCEPT
             ![out] = NewRow(c.s, "TRANSFER_OUT", c.a, balance[c.s], balance[c.s] - c.a, "SUCCESS", in),
             ![in] = NewRow(c.d, "TRANSFER_IN", c.a, balance[c.d], balance[c.d] + c.a, "SUCCESS", out)]
        /\ history' = [history EXCEPT ![c.s] = Append(@, out), ![c.d] = Append(@, in)]
    BY DEF WriteTransfer
  <2>2. [balance EXCEPT ![c.s] = balance[c.s] - c.a, ![c.d] = balance[c.d] + c.a]
          = [balance EXCEPT ![c.s] = @ - c.a, ![c.d] = @ + c.a]
    BY <1>1
  <2> QED
    BY <1>1, <2>1, <2>2 DEF Transfer
<1>3. /\ \A v \in Wallet \ DOMAIN read[p] : balance'[v] = balance[v]
      /\ \A u \in TxId \ DOMAIN read[p] : tx'[u] = tx[u] \/ Fresh(u)
  BY <1>2 DEF Transfer, LockInv, IInv, TypeOK
<1> QED
  BY <1>1, <1>2, <1>3, OwnRowsParts DEF LedgerNext

LEMMA SettleCommit ==
  ASSUME LockInv, NEW p \in Proc, NEW t \in TxId, ~Fresh(t),
         t \in DOMAIN read[p], read[p][t] = tx[t],
         NEW w \in Wallet, w = tx[t].wallet,
         w \in DOMAIN read[p], read[p][w] = balance[w],
         WriteSettled(p, t)
  PROVE  LedgerNext /\ OwnRows(p)
<1> DEFINE after == balance[w] + Effect(tx[t])
<1>1. /\ tx[t].status = "PENDING" /\ after >= 0
      /\ balance' = [balance EXCEPT ![w] = after]
      /\ tx' = [tx EXCEPT ![t] = [tx[t] EXCEPT !.before = balance[w], !.after = after,
                                               !.status = "SUCCESS"]]
      /\ history' = [history EXCEPT ![w] = Append(@, t)]
  BY DEF WriteSettled
<1>2. tx[t].kind \in PendingKind /\ tx[t] \in Row
  BY <1>1, RowTyped DEF LockInv, IInv, PendingKinds
<1>3. SettledBalance(t) = after
  BY <1>2, RowTyped DEF SettledBalance, Effect, PendingKind, LockInv, IInv, TypeOK
<1> HIDE DEF after
<1>4. SettlePending(t)
  BY <1>1, <1>2, <1>3 DEF SettlePending, SettleRow, Row, LockInv, IInv, TypeOK
<1>5. /\ \A v \in Wallet \ DOMAIN read[p] : balance'[v] = balance[v]
      /\ \A u \in TxId \ DOMAIN read[p] : tx'[u] = tx[u] \/ Fresh(u)
  BY <1>1 DEF LockInv, IInv, TypeOK
<1> QED
  BY <1>4, <1>5, OwnRowsParts DEF LedgerNext

LEMMA FailCommit ==
  ASSUME LockInv, NEW p \in Proc, NEW t \in TxId, NEW to \in Failure, ~Fresh(t),
         t \in DOMAIN read[p], read[p][t] = tx[t],
         WriteFailed(p, t, to)
  PROVE  LedgerNext /\ OwnRows(p)
<1>1. /\ tx[t].status = "PENDING"
      /\ tx' = [tx EXCEPT ![t] = [tx[t] EXCEPT !.status = to]]
      /\ UNCHANGED <<balance, history>>
  BY DEF WriteFailed
<1>2. FailPending(t, to)
  BY <1>1 DEF FailPending
<1>3. \A u \in TxId \ DOMAIN read[p] : tx'[u] = tx[u] \/ Fresh(u)
  BY <1>1 DEF LockInv, IInv, TypeOK
<1> QED
  BY <1>1, <1>2, <1>3, OwnRowsParts DEF LedgerNext

LEMMA RefundCommit ==
  ASSUME LockInv, NEW p \in Proc, NEW c \in Call, c.op = "refund", NEW t \in TxId,
         ~Fresh(c.t), c.t \in DOMAIN read[p], read[p][c.t] = tx[c.t],
         c.w \in DOMAIN read[p], read[p][c.w] = balance[c.w],
         WriteRefund(p, c, t)
  PROVE  LedgerNext /\ OwnRows(p)
<1>1. c.w \in Wallet /\ c.t \in TxId /\ c.a \in Amount
  BY CallKinds DEF RowCall
<1>2. /\ Fresh(t) /\ tx[c.t].status = "SUCCESS" /\ t # c.t
      /\ balance' = [balance EXCEPT ![c.w] = balance[c.w] + c.a]
      /\ tx' = [tx EXCEPT
           ![t] = NewRow(c.w, "REFUND", c.a, balance[c.w], balance[c.w] + c.a, "SUCCESS", NoTx),
           ![c.t] = [tx[c.t] EXCEPT !.status = "REFUNDED"]]
      /\ history' = [history EXCEPT ![c.w] = Append(@, t)]
  BY DEF WriteRefund
<1>3. RefundSource(c.t, c.w, t, c.a)
  BY <1>1, <1>2 DEF RefundSource
<1>4. /\ \A v \in Wallet \ DOMAIN read[p] : balance'[v] = balance[v]
      /\ \A u \in TxId \ DOMAIN read[p] : tx'[u] = tx[u] \/ Fresh(u)
  BY <1>1, <1>2 DEF LockInv, IInv, TypeOK
<1> QED
  BY <1>1, <1>3, <1>4, OwnRowsParts DEF LedgerNext

LEMMA CommitIsCall ==
  ASSUME LockInv, NEW p \in Proc, NEW c, c = call[p], Commit(p)
  PROVE  LedgerNext /\ OwnRows(p) /\ Release(p)
<1>1. c # Idle /\ plan[p] = << >> /\ Release(p)
  BY DEF Commit
<1>2. c \in Call
  BY <1>1, AllLocked
<1>3. CASE c.op \in {"deposit", "withdraw"}
  <2>1. c.w \in Wallet /\ c.a \in Amount /\ c.w \in DOMAIN read[p] /\ read[p][c.w] = balance[c.w]
    BY <1>1, <1>2, <1>3, AllLocked, CallKinds
  <2>2. PICK t \in TxId :
          \/ /\ c.op = "deposit"
             /\ WriteBooked(p, c.w, t, "DEPOSIT", c.a, balance[c.w] + c.a)
          \/ /\ c.op = "withdraw"
             /\ WriteBooked(p, c.w, t, "WITHDRAW", c.a, balance[c.w] - c.a)
    BY <1>3, <2>1 DEF Commit
  <2>3. CASE WriteBooked(p, c.w, t, "DEPOSIT", c.a, balance[c.w] + c.a)
    <3>1. Deposit(c.w, t, c.a) /\ OwnRows(p)
      BY <2>1, <2>3, BookedCommit DEF Deposit, Credit
    <3> QED
      BY <1>1, <2>1, <3>1 DEF LedgerNext
  <2>4. CASE WriteBooked(p, c.w, t, "WITHDRAW", c.a, balance[c.w] - c.a)
    <3>1. Book(c.w, t, "WITHDRAW", c.a, balance[c.w] - c.a) /\ OwnRows(p)
      BY <2>1, <2>4, BookedCommit
    <3>2. balance[c.w] >= c.a
      BY <2>1, <3>1, AmountAssumption DEF Book, LockInv, IInv, TypeOK
    <3>3. Withdraw(c.w, t, c.a)
      BY <3>1, <3>2 DEF Withdraw, Debit
    <3> QED
      BY <1>1, <2>1, <3>1, <3>3 DEF LedgerNext
  <2> QED
    BY <2>2, <2>3, <2>4
<1>4. CASE c.op = "transfer"
  <2>1. PICK out \in TxId, in \in TxId : WriteTransfer(p, c, out, in)
    BY <1>4 DEF Commit
  <2> QED
    BY <1>1, <1>2, <1>4, <2>1, AllLocked, TransferCommit
<1>5. CASE c.op = "settle"
  <2>1. WriteSettled(p, c.t)
    BY <1>5 DEF Commit
  <2>2. /\ c.t \in TxId /\ ~Fresh(c.t) /\ c.t \in DOMAIN read[p] /\ read[p][c.t] = tx[c.t]
        /\ tx[c.t].wallet \in DOMAIN read[p]
        /\ read[p][tx[c.t].wallet] = balance[tx[c.t].wallet]
    BY <1>1, <1>2, <1>5, AllLocked, CallKinds DEF RowCall
  <2>3. tx[c.t].wallet \in Wallet
    BY <2>2, RowTyped DEF LockInv, IInv
  <2> QED
    BY <1>1, <2>1, <2>2, <2>3, SettleCommit
<1>6. CASE c.op = "fail"
  <2>1. WriteFailed(p, c.t, c.to)
    BY <1>6 DEF Commit
  <2>2. /\ c.t \in TxId /\ ~Fresh(c.t) /\ c.t \in DOMAIN read[p] /\ read[p][c.t] = tx[c.t]
        /\ c.to \in Failure
    BY <1>1, <1>2, <1>6, AllLocked, CallKinds DEF RowCall
  <2> QED
    BY <1>1, <2>1, <2>2, FailCommit
<1>7. CASE c.op = "refund"
  <2>1. PICK t \in TxId : WriteRefund(p, c, t)
    BY <1>7 DEF Commit
  <2>2. /\ ~Fresh(c.t) /\ c.t \in DOMAIN read[p] /\ read[p][c.t] = tx[c.t]
        /\ c.w \in DOMAIN read[p] /\ read[p][c.w] = balance[c.w]
    BY <1>1, <1>2, <1>7, AllLocked DEF RowCall
  <2> QED
    BY <1>1, <1>2, <1>7, <2>1, <2>2, RefundCommit
<1> QED
  BY <1>2, <1>3, <1>4, <1>5, <1>6, <1>7, CallKinds

(* Every step is a call of the ledger, or none of it.                      *)
LEMMA LockStep ==
  ASSUME LockInv, LockNext
  PROVE  LockInv' /\ (LedgerNext \/ UNCHANGED ledgerVars)
<1>1. ASSUME NEW p \in Proc, NEW c \in Call, Start(p, c)
      PROVE  LockInv' /\ UNCHANGED ledgerVars
  BY <1>1, StartInv DEF Start
<1>2. ASSUME NEW p \in Proc, Acquire(p)
      PROVE  LockInv' /\ UNCHANGED ledgerVars
  BY <1>2, AcquireInv DEF Acquire
<1>3. ASSUME NEW p \in Proc, Commit(p)
      PROVE  LockInv' /\ LedgerNext
  <2>1. LedgerNext /\ OwnRows(p) /\ Release(p)
    BY <1>3, CommitIsCall
  <2> QED
    BY <2>1, ReleaseInv DEF OwnRows
<1>4. ASSUME NEW p \in Proc, Rollback(p) \/ AbortVictim(p)
      PROVE  LockInv' /\ UNCHANGED ledgerVars
  BY <1>4, EndInv DEF Rollback, AbortVictim
<1>5. ASSUME NEW w \in Wallet, NEW t \in TxId, NEW k \in Opened, NEW a \in Amount,
             InsertPending(w, t, k, a)
      PROVE  LockInv' /\ LedgerNext
  BY <1>5, InsertPendingInv
<1> QED
  BY <1>1, <1>2, <1>3, <1>4, <1>5 DEF LockNext

LEMMA LockStutter ==
  ASSUME LockInv, UNCHANGED lockVars
  PROVE  LockInv' /\ UNCHANGED ledgerVars
<1>1. UNCHANGED <<balance, tx, history, call, plan, read, owner>>
  BY DEF lockVars, procVars, ledgerVars
<1>2. IInv' /\ UNCHANGED ledgerVars
  BY <1>1, StutterInvariant DEF LockInv, ledgerVars
<1>3. ASSUME NEW q \in Proc PROVE (CallOK(q) /\ Holds(q) /\ Current(q))'
  <2>1. \A r : Contents(r)' = Contents(r)
    BY <1>1 DEF Contents
  <2>2. \A t \in TxId : ~Fresh(t) => ~Fresh(t)' /\ tx'[t].wallet = tx[t].wallet
    BY <1>1 DEF Fresh
  <2> QED
    BY <1>1, <2>1, <2>2, OtherKept
<1> QED
  BY <1>1, <1>2, <1>3 DEF LockInv

LEMMA LockInitInv == LockInit => LockInv /\ Init
<1> SUFFICES ASSUME LockInit PROVE LockInv /\ Init
  OBVIOUS
<1>1. /\ \A p \in Proc : call[p] = Idle /\ plan[p] = << >> /\ read[p] = << >> /\ DOMAIN read[p] = {}
      /\ read = [p \in Proc |-> read[p]] /\ call = [p \in Proc |-> call[p]]
      /\ plan = [p \in Proc |-> plan[p]] /\ owner = [r \in LockRow |-> owner[r]]
      /\ \A r \in LockRow : owner[r] = Nobody
  BY DEF LockInit
<1>2. \A p \in Proc : CallOK(p) /\ Holds(p) /\ Current(p)
  BY <1>1, RowAssumption DEF CallOK, Holds, Current
<1>3. Init /\ IInv
  BY InitInvariant DEF LockInit
<1> QED
  BY <1>1, <1>2, <1>3 DEF LockInv

(* Where every call is in its lock order, for every reachable state.       *)
THEOREM LockInvariant == LockSpec => []LockInv
<1>1. LockInit => LockInv
  BY LockInitInv
<1>2. LockInv /\ [LockNext]_lockVars => LockInv'
  BY LockStep, LockStutter
<1> QED
  BY <1>1, <1>2, PTL DEF LockSpec

-----------------------------------------------------------------------------
(* The properties                                                          *)

(* However the calls of the services interleave, are rolled back, lose     *)
(* their connection or fall to the deadlock detector, what they commit is  *)
(* a run of WalletLedger, one whole call after another: the row locks of   *)
(* wallet_service.py make concurrent calls "serialize instead of racing".  *)
THEOREM LockingSerializable == LockSpec => Serializable
<1>1. LockInit => Init
  BY LockInitInv
<1>2. LockInv /\ [LockNext]_lockVars => [LedgerNext]_ledgerVars
  BY LockStep, LockStutter
<1> QED
  BY <1>1, <1>2, LockInvariant, PTL DEF LockSpec, Serializable, LedgerSpec

(* No row is locked for a call that has ended, and what a call read of a   *)
(* row it locked (select_for_update) is still what the row contains.       *)
THEOREM LockedReads == LockSpec => []LockedReadsCurrent
<1>1. LockInv => LockedReadsCurrent
  <2> SUFFICES ASSUME LockInv, NEW p \in Proc, NEW r \in DOMAIN read[p]
               PROVE  call[p] # Idle /\ owner[r] = p /\ read[p][r] = Contents(r)
    BY DEF LockedReadsCurrent
  <2>1. CallOK(p) /\ Holds(p) /\ Current(p) /\ r \in LockRow
    BY ReadRows DEF LockInv
  <2> QED
    BY <2>1 DEF CallOK, Holds, Current
<1> QED
  BY <1>1, LockInvariant, PTL

(* A process that holds a row and waits has locked the first of two rows,  *)
(* and waits for a wallet; if it waits holding a wallet, it is a transfer. *)
LEMMA WaitingHolder ==
  ASSUME LockInv, NEW p \in Proc, plan[p] # << >>, NEW r \in DOMAIN read[p]
  PROVE  /\ Head(plan[p]) \in Wallet /\ Head(plan[p]) \notin DOMAIN read[p]
         /\ r \in Wallet => call[p].op = "transfer"
<1>1. CallOK(p) /\ call[p] # Idle
  BY DEF LockInv, CallOK
<1>2. PICK order \in LockOrders(call[p]) : Along(p, order)
  BY <1>1 DEF CallOK
<1>3. Len(order) = 2 /\ plan[p] = <<order[2]>> /\ DOMAIN read[p] = {order[1]}
  BY <1>2 DEF Along
<1>4. /\ call[p] \in Call /\ (call[p].op \in RowCall => ~Fresh(call[p].t)) /\ TypeOK
  BY <1>1 DEF CallOK, LockInv, IInv
<1>5. /\ \/ \E x \in LockRow : order = <<x>>
         \/ \E x \in LockRow, w \in Wallet : order = <<x, w>> /\ x # w
      /\ call[p].op \in RowCall => order[1] = call[p].t
      /\ call[p].op # "transfer" /\ call[p].op \notin RowCall => order = <<call[p].w>>
  BY <1>2, <1>4, OrdersOK
<1>6. order[2] \in Wallet /\ order[1] # order[2]
  BY <1>3, <1>5
<1>7. call[p].op \in RowCall => order[1] \in TxId
  BY <1>4, <1>5, CallKinds
<1>8. call[p].op = "transfer" \/ call[p].op \in RowCall
  BY <1>3, <1>5
<1> QED
  BY <1>3, <1>6, <1>7, <1>8, RowAssumption

(* Services that lock a transaction row lock it before any wallet, so a    *)
(* circle of waiting calls has two transfers in it, whatever else it has   *)
(* (settle_pending_transaction, _refund_core).                             *)
THEOREM DeadlocksAreTransfers == LockSpec => []OnlyTransfersDeadlock
<1>1. LockInv => OnlyTransfersDeadlock
  <2> SUFFICES ASSUME LockInv, NEW S \in SUBSET Proc, Deadlocked(S)
               PROVE  \E p, q \in S : p # q /\ call[p].op = "transfer" /\ call[q].op = "transfer"
    BY DEF OnlyTransfersDeadlock
  <2>1. \A p \in S : \E q \in S : WaitsFor(p, q)
    BY DEF Deadlocked
  <2>2. PICK o \in S, p \in S, q \in S, n \in S : WaitsFor(o, p) /\ WaitsFor(p, q) /\ WaitsFor(q, n)
    BY <2>1 DEF Deadlocked
  <2>3. \A u, v \in S : WaitsFor(u, v) /\ Head(plan[u]) \in LockRow => Head(plan[u]) \in DOMAIN read[v]
    BY DEF LockInv, Holds, WaitsFor
  <2>4. PICK m \in S : WaitsFor(n, m)
    BY <2>1
  <2>5. \A u \in S : plan[u] # << >> => Head(plan[u]) \in LockRow
    <3> SUFFICES ASSUME NEW u \in S, plan[u] # << >> PROVE Head(plan[u]) \in LockRow
      OBVIOUS
    <3>1. CallOK(u) /\ call[u] # Idle /\ TypeOK
      BY DEF LockInv, CallOK, IInv
    <3>2. PICK order \in LockOrders(call[u]) : Along(u, order)
      BY <3>1 DEF CallOK
    <3>3. \/ \E x \in LockRow : order = <<x>>
          \/ \E x \in LockRow, w \in Wallet : order = <<x, w>> /\ x # w
      BY <3>1, <3>2, OrdersOK DEF CallOK
    <3>4. plan[u] = order \/ (Len(order) = 2 /\ plan[u] = <<order[2]>>)
      BY <3>2 DEF Along
    <3> QED
      BY <3>3, <3>4 DEF LockRow
  <2>6. \A u \in S : plan[u] # << >>
    BY <2>1 DEF WaitsFor
  <2>7. /\ Head(plan[o]) \in DOMAIN read[p] /\ Head(plan[p]) \in DOMAIN read[q]
        /\ Head(plan[q]) \in DOMAIN read[n]
    BY <2>2, <2>3, <2>5, <2>6
  <2>8. Head(plan[p]) \in Wallet
    BY <2>6, <2>7, WaitingHolder
  <2>9. /\ call[q].op = "transfer" /\ Head(plan[q]) \in Wallet
        /\ Head(plan[q]) \notin DOMAIN read[q]
    BY <2>6, <2>7, <2>8, WaitingHolder
  <2>10. call[n].op = "transfer" /\ q # n
    BY <2>6, <2>7, <2>9, WaitingHolder
  <2> QED
    BY <2>9, <2>10
<1> QED
  BY <1>1, LockInvariant, PTL

=============================================================================
