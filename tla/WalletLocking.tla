---------------------------- MODULE WalletLocking ----------------------------
(***************************************************************************)
(* The ledger's services as concurrent database transactions.  A call      *)
(* takes the row locks of its select_for_update() queries one by one,      *)
(* keeps what it read of each row when it got the lock, and computes what  *)
(* it writes from that copy; commit publishes the writes and frees the     *)
(* locks, an exception or a lost connection frees them and writes nothing. *)
(* The database is PostgreSQL at READ COMMITTED: it wakes a waiter with    *)
(* the committed version of the row, and breaks a cycle of waiters by      *)
(* aborting one of them.                                                   *)
(***************************************************************************)
EXTENDS WalletLedger

CONSTANTS Proc,      \* request handlers and task workers
          Nobody,    \* the owner of a free row
          Opened,    \* kinds of pending rows callers open
          Ended      \* statuses callers fail them with

ASSUME OpenedAssumption == Opened \subseteq PendingKind
ASSUME EndedAssumption == Ended \subseteq Failure
ASSUME RowAssumption == Wallet \cap TxId = {} /\ Nobody \notin Proc

VARIABLES call,      \* per process, the service call it is executing
          plan,      \* per process, the rows it has still to lock, in order
          read,      \* per process, what it read of each row it locked
          owner      \* per row, the process holding its lock

procVars == <<call, plan, read, owner>>
lockVars == <<ledgerVars, procVars>>

LockRow == Wallet \cup TxId

Idle == [op |-> "idle"]

(* The calls and their arguments; t is the existing row a call works on.   *)
Call ==
  [op : {"deposit", "withdraw"}, w : Wallet, a : Amount]
    \cup {c \in [op : {"transfer"}, s : Wallet, d : Wallet, a : Amount] :
            c.s # c.d}
    \cup [op : {"settle"}, t : TxId]
    \cup [op : {"fail"}, t : TxId, to : Ended]
    \cup [op : {"refund"}, t : TxId, w : Wallet, a : Amount]

(* Mutant of LockOrders: a refund locks its wallet before its source row.  *)
WalletFirst(c) ==
  CASE c.op \in {"deposit", "withdraw"} -> {<<c.w>>}
    [] c.op = "transfer" -> {<<c.s, c.d>>, <<c.d, c.s>>}
    [] c.op = "settle" -> {<<c.t, tx[c.t].wallet>>}
    [] c.op = "fail" -> {<<c.t>>}
    [] c.op = "refund" -> {<<c.w, c.t>>}

(* The orders in which a call may lock its rows.  TransferService selects  *)
(* both wallets with filter(pk__in=...): the ids it sorted say nothing of  *)
(* the order in which an unordered query visits, and locks, the rows.      *)
LockOrders(c) ==
  CASE c.op \in {"deposit", "withdraw"} -> {<<c.w>>}
    [] c.op = "transfer" -> {<<c.s, c.d>>, <<c.d, c.s>>}
    [] c.op = "settle" -> {<<c.t, tx[c.t].wallet>>}
    [] c.op = "fail" -> {<<c.t>>}
    [] c.op = "refund" -> {<<c.t, c.w>>}

LockTypeOK ==
  /\ TypeOK
  /\ call \in [Proc -> Call \cup {Idle}]
  /\ plan \in [Proc -> Seq(LockRow)]
  /\ \A p \in Proc : DOMAIN read[p] \subseteq LockRow
  /\ owner \in [LockRow -> Proc \cup {Nobody}]

LockInit ==
  /\ Init
  /\ call = [p \in Proc |-> Idle]
  /\ plan = [p \in Proc |-> << >>]
  /\ read = [p \in Proc |-> << >>]
  /\ owner = [r \in LockRow |-> Nobody]

-----------------------------------------------------------------------------
(* Steps of one process *)

Start(p, c) ==
  /\ call[p] = Idle
  /\ c.op \in {"settle", "fail", "refund"} => ~Fresh(c.t)
  /\ \E order \in LockOrders(c) : plan' = [plan EXCEPT ![p] = order]
  /\ call' = [call EXCEPT ![p] = c]
  /\ UNCHANGED <<ledgerVars, read, owner>>

(* create_pending_transaction locks nothing.                               *)
InsertPending(w, t, k, a) ==
  /\ CreatePending(w, t, k, a)
  /\ UNCHANGED procVars

(* What the committed version of a row holds.                              *)
Contents(r) == IF r \in Wallet THEN balance[r] ELSE tx[r]

(* Row r, as it is now, joins the instances p works on.                    *)
Reads(p, r) ==
  read' = [read EXCEPT ![p] =
    [x \in DOMAIN @ \cup {r} |-> IF x = r THEN Contents(r) ELSE read[p][x]]]

(* Mutant of Acquire: a plain read where select_for_update() was meant.    *)
ReadUnlocked(p) ==
  /\ plan[p] # << >>
  /\ Reads(p, Head(plan[p]))
  /\ plan' = [plan EXCEPT ![p] = Tail(@)]
  /\ UNCHANGED <<ledgerVars, call, owner>>

(* Mutant of Acquire: the lock is taken without waiting for its holder.    *)
TakeHeld(p) ==
  /\ plan[p] # << >>
  /\ LET r == Head(plan[p]) IN
     /\ owner' = [owner EXCEPT ![r] = p]
     /\ Reads(p, r)
  /\ plan' = [plan EXCEPT ![p] = Tail(@)]
  /\ UNCHANGED <<ledgerVars, call>>

(* The next select_for_update(): wait for the row, then read it.           *)
Acquire(p) ==
  /\ plan[p] # << >>
  /\ LET r == Head(plan[p]) IN
     /\ owner[r] = Nobody
     /\ owner' = [owner EXCEPT ![r] = p]
     /\ Reads(p, r)
  /\ plan' = [plan EXCEPT ![p] = Tail(@)]
  /\ UNCHANGED <<ledgerVars, call>>

(* Mutant of Release: the row locks outlive the transaction.               *)
LeakLocks(p) ==
  /\ call' = [call EXCEPT ![p] = Idle]
  /\ plan' = [plan EXCEPT ![p] = << >>]
  /\ read' = [read EXCEPT ![p] = << >>]
  /\ UNCHANGED owner

(* The end of a transaction: locks and instances are gone.                 *)
Release(p) ==
  /\ call' = [call EXCEPT ![p] = Idle]
  /\ plan' = [plan EXCEPT ![p] = << >>]
  /\ read' = [read EXCEPT ![p] = << >>]
  /\ owner' = [r \in LockRow |-> IF owner[r] = p THEN Nobody ELSE owner[r]]

(* A new row t for wallet w, moved from the balance p read to after.       *)
WriteBooked(p, w, t, k, a, after) ==
  /\ Fresh(t)
  /\ after >= 0
  /\ balance' = [balance EXCEPT ![w] = after]
  /\ tx' = [tx EXCEPT ![t] = NewRow(w, k, a, read[p][w], after, "SUCCESS", NoTx)]
  /\ history' = [history EXCEPT ![w] = Append(@, t)]

WriteTransfer(p, c, out, in) ==
  LET s == read[p][c.s]
      d == read[p][c.d]
  IN  /\ Fresh(out) /\ Fresh(in) /\ out # in
      /\ s >= c.a
      /\ balance' = [balance EXCEPT ![c.s] = s - c.a, ![c.d] = d + c.a]
      /\ tx' = [tx EXCEPT
           ![out] = NewRow(c.s, "TRANSFER_OUT", c.a, s, s - c.a, "SUCCESS", in),
           ![in] = NewRow(c.d, "TRANSFER_IN", c.a, d, d + c.a, "SUCCESS", out)]
      /\ history' = [history EXCEPT ![c.s] = Append(@, out),
                                    ![c.d] = Append(@, in)]

(* settle_pending_transaction saves the whole row it locked.               *)
WriteSettled(p, t) ==
  LET row == read[p][t]
      before == read[p][row.wallet]
      after == before + Effect(row)
  IN  /\ row.status = "PENDING"
      /\ after >= 0
      /\ balance' = [balance EXCEPT ![row.wallet] = after]
      /\ tx' = [tx EXCEPT ![t] = [row EXCEPT !.before = before,
                                             !.after = after,
                                             !.status = "SUCCESS"]]
      /\ history' = [history EXCEPT ![row.wallet] = Append(@, t)]

WriteFailed(p, t, s) ==
  /\ read[p][t].status = "PENDING"
  /\ tx' = [tx EXCEPT ![t] = [read[p][t] EXCEPT !.status = s]]
  /\ UNCHANGED <<balance, history>>

WriteRefund(p, c, t) ==
  LET before == read[p][c.w] IN
  /\ Fresh(t)
  /\ read[p][c.t].status = "SUCCESS"
  /\ balance' = [balance EXCEPT ![c.w] = before + c.a]
  /\ tx' = [tx EXCEPT
       ![t] = NewRow(c.w, "REFUND", c.a, before, before + c.a, "SUCCESS", NoTx),
       ![c.t] = [read[p][c.t] EXCEPT !.status = "REFUNDED"]]
  /\ history' = [history EXCEPT ![c.w] = Append(@, t)]

(* All locks held: check what was read, write and commit.                  *)
Commit(p) ==
  LET c == call[p] IN
  /\ c # Idle
  /\ plan[p] = << >>
  /\ \/ \E t \in TxId :
          \/ /\ c.op = "deposit"
             /\ WriteBooked(p, c.w, t, "DEPOSIT", c.a, read[p][c.w] + c.a)
          \/ /\ c.op = "withdraw"
             /\ WriteBooked(p, c.w, t, "WITHDRAW", c.a, read[p][c.w] - c.a)
          \/ /\ c.op = "refund"
             /\ WriteRefund(p, c, t)
          \/ /\ c.op = "transfer"
             /\ \E in \in TxId : WriteTransfer(p, c, t, in)
     \/ c.op = "settle" /\ WriteSettled(p, c.t)
     \/ c.op = "fail" /\ WriteFailed(p, c.t, c.to)
  /\ Release(p)

(* An early return, an exception, a lost connection or a killed worker.    *)
Rollback(p) ==
  /\ call[p] # Idle
  /\ Release(p)
  /\ UNCHANGED ledgerVars

-----------------------------------------------------------------------------
(* Waiting *)

WaitsFor(p, q) ==
  /\ plan[p] # << >>
  /\ owner[Head(plan[p])] = q

(* Every member waits for another one.                                     *)
Deadlocked(S) == S # {} /\ \A p \in S : \E q \in S : WaitsFor(p, q)

(* The deadlock detector aborts a member of a cycle.                       *)
AbortVictim(p) ==
  /\ \E S \in SUBSET Proc : p \in S /\ Deadlocked(S)
  /\ Release(p)
  /\ UNCHANGED ledgerVars

LockNext ==
  \/ \E p \in Proc :
       \/ \E c \in Call : Start(p, c)
       \/ Acquire(p) \/ Commit(p) \/ Rollback(p) \/ AbortVictim(p)
  \/ \E w \in Wallet, t \in TxId, k \in Opened, a \in Amount :
       InsertPending(w, t, k, a)

LockSpec == LockInit /\ [][LockNext]_lockVars

(* A running handler keeps running: with its locks held it either commits  *)
(* or ends without a write.  PostgreSQL queues the waiters of a row, so    *)
(* one that waits again and again is served (strong fairness), and its     *)
(* deadlock detector runs.                                                 *)
LockFairness ==
  \A p \in Proc :
    /\ SF_lockVars(Acquire(p))
    /\ WF_lockVars(plan[p] = << >> /\ (Commit(p) \/ Rollback(p)))
    /\ WF_lockVars(AbortVictim(p))

FairLockSpec == LockSpec /\ LockFairness

-----------------------------------------------------------------------------
(* Properties *)

(* However the calls interleave, what they commit is a run of the ledger,  *)
(* one whole call after another: the row locks of wallet_service.py make   *)
(* concurrent calls "serialize instead of racing".                         *)
Serializable == LedgerSpec

(* No wallet or transaction row is locked for a call that has ended, and   *)
(* what a call read of a row it holds is still what the row contains.      *)
LockedReadsCurrent ==
  \A p \in Proc : \A r \in DOMAIN read[p] :
    /\ call[p] # Idle /\ owner[r] = p
    /\ read[p][r] = Contents(r)

(* Services that lock a transaction row lock it before any wallet, so a    *)
(* cycle of waiters needs at least two transfers.                          *)
OnlyTransfersDeadlock ==
  \A S \in SUBSET Proc : Deadlocked(S) =>
    \E p, q \in S : p # q /\ call[p].op = "transfer" /\ call[q].op = "transfer"

(* Every call ends, committed or not.                                      *)
CallsEnd == \A p \in Proc : call[p] # Idle ~> call[p] = Idle
=============================================================================
