------------------------- MODULE OnlinePaymentProofs -------------------------
(***************************************************************************)
(* Top-ups through the payment gateway, for any number of rows, handlers   *)
(* and repeated redirects: what is credited was captured, the session and  *)
(* the row agree, and what the gateway says never writes off money it took.*)
(*                                                                         *)
(* The gateway captures only when asked, and a handler asks holding the    *)
(* lock of a session that has no answer yet.  So what it learned (accepted:*)
(* captured; refused: not captured) still holds when it commits, however   *)
(* long that takes and whatever the payer, other handlers and the clean-up *)
(* do; and once a session is answered its payment is never captured.       *)
(***************************************************************************)
EXTENDS OnlinePayment, WalletLedgerProofs

GatewayState == {"none", "open", "paid", "declined", "captured", "reversed"}

OnlineTypes ==
  /\ session \in [TxId -> Flags]
  /\ gateway \in [TxId -> GatewayState]
  /\ captured \in [TxId -> Nat]
  /\ handler \in [Handler -> Running \cup {Idle}]
  /\ answered \in [TxId -> 0..MaxCallbacks]
  /\ audit \in [TxId -> 0..MaxCallbacks]
  /\ \A t \in TxId : audit[t] <= answered[t]

Credited(t) == tx[t].status \in Applied /\ tx[t].kind = "DEPOSIT"

(* What the row, its session and the gateway say of one payment.           *)
PaymentOK(t) ==
  /\ tx[t].status = "PENDING" => tx[t].kind = "DEPOSIT"
  /\ gateway[t] # "none" => /\ ~Fresh(t) /\ tx[t].kind = "DEPOSIT"
                            /\ Charged(t) > 0
  /\ gateway[t] = "captured" => captured[t] = Charged(t)
  /\ Credited(t) => gateway[t] = "captured"
  /\ tx[t].status \in {"FAILED", "CANCELLED"} => session[t].verified
  /\ tx[t].status = "FAILED" => gateway[t] # "captured"
  /\ session[t].verified => gateway[t] # "none" /\ tx[t].status # "PENDING"
  /\ session[t].walletUpdated <=> session[t].success
  /\ session[t].walletUpdated <=> Credited(t)
  /\ session[t].walletUpdated => session[t].verified

(* What a handler knows of the payment it works on.                        *)
HandlerOK(h) ==
  handler[h] # Idle =>
    LET state == gateway[handler[h].row] IN
    /\ state # "none"
    /\ handler[h].answer = "accepted" => state = "captured"
    /\ handler[h].answer = "refused" => state # "captured"
    /\ answered[handler[h].row] < MaxCallbacks

(* The session's row lock: one handler per session.                        *)
Together(h, k) ==
  handler[h] # Idle /\ handler[k] # Idle /\ handler[h].row = handler[k].row
OneHandler == \A h, k \in Handler : Together(h, k) => h = k

OnlineInv ==
  /\ IInv
  /\ OnlineTypes
  /\ \A t \in TxId : PaymentOK(t)
  /\ \A h \in Handler : HandlerOK(h)
  /\ OneHandler

-----------------------------------------------------------------------------
(* Frames                                                                  *)

(* A payment stays known to the gateway, and nobody asks it to capture.    *)
Forward(t) ==
  /\ gateway[t] # "none" => gateway'[t] # "none"
  /\ gateway'[t] = "captured" <=> gateway[t] = "captured"

LEMMA HandlerKept ==
  ASSUME NEW h \in Handler, HandlerOK(h), handler'[h] = handler[h],
         handler[h] # Idle => /\ Forward(handler[h].row)
                              /\ answered'[handler[h].row] = answered[handler[h].row]
  PROVE  HandlerOK(h)'
BY DEF HandlerOK, Forward

(* A handler that runs has a row, an answer and the redirect's status.     *)
LEMMA RunningTyped ==
  ASSUME OnlineTypes, NEW h \in Handler, handler[h] # Idle
  PROVE  /\ handler[h] \in Running /\ handler[h].row \in TxId
         /\ handler[h].param \in {"OK", "NOK"}
         /\ handler[h].phase \in {"locked", "asked"}
         /\ handler[h].answer \in {"none", "accepted", "refused", "error"}
BY DEF OnlineTypes, Running, Idle

LEMMA PhaseRuns ==
  ASSUME NEW h, handler[h].phase \in {"locked", "asked"}
  PROVE  handler[h] # Idle
BY DEF Idle

(* What the calls do to one row.                                           *)
Opened(t) == Fresh(t) /\ tx'[t].status = "PENDING" /\ tx'[t].kind = "DEPOSIT"
Spent(t) == Fresh(t) /\ tx'[t].status = "SUCCESS" /\ tx'[t].kind \in {"WITHDRAW", "REFUND"}
Moved(t, from, to) ==
  /\ tx[t].status = from /\ tx'[t].status = to
  /\ tx'[t].kind = tx[t].kind /\ tx'[t].amount = tx[t].amount

(* The wallet's other uses and the clean-up leave every payment in order.  *)
LEMMA UsesKeep ==
  ASSUME NEW t \in TxId, PaymentOK(t),
         UNCHANGED <<session, gateway, captured>>,
         \/ tx'[t] = tx[t]
         \/ Opened(t) \/ Spent(t)
         \/ Moved(t, "PENDING", "EXPIRED") \/ Moved(t, "SUCCESS", "REFUNDED")
  PROVE  PaymentOK(t)'
<1> USE DEF PaymentOK, Credited, Fresh, Applied, Charged
<1>1. CASE tx'[t] = tx[t]
  BY <1>1
<1>2. CASE Opened(t)
  BY <1>2 DEF Opened
<1>3. CASE Spent(t)
  BY <1>3 DEF Spent
<1>4. CASE Moved(t, "PENDING", "EXPIRED")
  BY <1>4 DEF Moved
<1>5. CASE Moved(t, "SUCCESS", "REFUNDED")
  BY <1>5 DEF Moved
<1> QED
  BY <1>1, <1>2, <1>3, <1>4, <1>5

LEMMA LedgerOnly ==
  ASSUME OnlineInv, LedgerNext, UNCHANGED onlineVars,
         \A t \in TxId :
           \/ tx'[t] = tx[t]
           \/ Opened(t) \/ Spent(t)
           \/ Moved(t, "PENDING", "EXPIRED") \/ Moved(t, "SUCCESS", "REFUNDED")
  PROVE  OnlineInv'
<1>1. IInv'
  BY NextInvariant DEF OnlineInv
<1>2. UNCHANGED <<session, gateway, captured, handler, answered, audit>>
  BY DEF onlineVars
<1>3. OnlineTypes'
  BY <1>2 DEF OnlineInv, OnlineTypes
<1>4. \A t \in TxId : PaymentOK(t)'
  BY <1>2, UsesKeep DEF OnlineInv
<1>5. \A h \in Handler : HandlerOK(h)'
  BY <1>2 DEF OnlineInv, HandlerOK
<1>6. OneHandler'
  BY <1>2 DEF OnlineInv, OneHandler, Together
<1> QED
  BY <1>1, <1>3, <1>4, <1>5, <1>6 DEF OnlineInv

-----------------------------------------------------------------------------
(* Uses of the wallet, and the clean-up                                    *)

LEMMA OnlineDepositInv ==
  ASSUME OnlineInv, NEW w \in Wallet, NEW t \in TxId, NEW a \in Amount, OnlineDeposit(w, t, a)
  PROVE  OnlineInv'
<1>1. CreatePending(w, t, "DEPOSIT", a) /\ UNCHANGED onlineVars
  BY DEF OnlineDeposit
<1>2. LedgerNext
  BY <1>1 DEF LedgerNext, PendingKind
<1>3. PICK b : tx' = [tx EXCEPT ![t] = NewRow(w, "DEPOSIT", a, b, b, "PENDING", NoTx)]
  BY <1>1 DEF CreatePending
<1>4. Opened(t) /\ \A u \in TxId \ {t} : tx'[u] = tx[u]
  BY <1>1, <1>3 DEF Opened, CreatePending, NewRow, OnlineInv, IInv, TypeOK
<1> QED
  BY <1>1, <1>2, <1>4, LedgerOnly

LEMMA ExpireInv ==
  ASSUME OnlineInv, NEW t \in TxId, Expire(t)
  PROVE  OnlineInv'
<1>1. FailPending(t, "EXPIRED") /\ UNCHANGED onlineVars
  BY DEF Expire
<1>2. LedgerNext
  BY <1>1 DEF LedgerNext, Failure
<1>3. tx[t] \in Row /\ tx[t].status = "PENDING"
  BY <1>1, RowTyped DEF FailPending, Fresh, OnlineInv, IInv
<1>4. Moved(t, "PENDING", "EXPIRED") /\ \A u \in TxId \ {t} : tx'[u] = tx[u]
  BY <1>1, <1>3 DEF Moved, FailPending, Row, OnlineInv, IInv, TypeOK
<1> QED
  BY <1>1, <1>2, <1>4, LedgerOnly

LEMMA UseWalletInv ==
  ASSUME OnlineInv, UseWallet
  PROVE  OnlineInv'
<1>1. PICK w \in Wallet, t \in TxId, a \in Amount :
         Withdraw(w, t, a) \/ \E src \in TxId : RefundSource(src, w, t, a)
  BY DEF UseWallet
<1>2. UNCHANGED onlineVars /\ LedgerNext
  BY <1>1 DEF UseWallet, LedgerNext
<1>3. CASE Withdraw(w, t, a)
  <2>1. Spent(t) /\ \A u \in TxId \ {t} : tx'[u] = tx[u]
    BY <1>3 DEF Withdraw, Debit, Book, NewRow, Spent, OnlineInv, IInv, TypeOK
  <2> QED
    BY <1>2, <2>1, LedgerOnly
<1>4. ASSUME NEW src \in TxId, RefundSource(src, w, t, a) PROVE OnlineInv'
  <2>1. src # t /\ tx[src].status = "SUCCESS" /\ tx[src] \in Row
    BY <1>4, RowTyped DEF RefundSource, Fresh, OnlineInv, IInv
  <2>2. Spent(t) /\ Moved(src, "SUCCESS", "REFUNDED") /\ \A u \in TxId \ {t, src} : tx'[u] = tx[u]
    BY <1>4, <2>1 DEF RefundSource, NewRow, Row, Spent, Moved, OnlineInv, IInv, TypeOK
  <2> QED
    BY <1>2, <2>2, LedgerOnly
<1> QED
  BY <1>1, <1>3, <1>4
-----------------------------------------------------------------------------
(* The gateway                                                             *)

(* A step of the gateway on one payment; the ledger rests.                 *)
LEMMA GatewayMoves ==
  ASSUME OnlineInv, NEW t \in TxId, NEW to \in GatewayState \ {"none"},
         gateway' = [gateway EXCEPT ![t] = to],
         UNCHANGED <<ledgerVars, session, captured, handler, answered, audit>>,
         to = "captured" <=> gateway[t] = "captured",
         gateway[t] = "none" => /\ ~Fresh(t) /\ tx[t].status = "PENDING"
                                /\ Charged(t) > 0
  PROVE  OnlineInv'
<1>1. gateway' \in [TxId -> GatewayState] /\ gateway'[t] = to
      /\ \A u \in TxId \ {t} : gateway'[u] = gateway[u]
  BY DEF OnlineInv, OnlineTypes
<1>2. IInv'
  BY StutterInvariant DEF OnlineInv
<1>3. OnlineTypes'
  BY <1>1 DEF OnlineInv, OnlineTypes
<1>4. UNCHANGED <<balance, tx, history>>
  BY DEF ledgerVars
<1>5. ASSUME NEW u \in TxId \ {t} PROVE PaymentOK(u)'
  BY <1>1, <1>4, <1>5 DEF OnlineInv, PaymentOK, Credited, Fresh, Charged
<1>6. PaymentOK(t)'
  <2>1. PaymentOK(t)
    BY DEF OnlineInv
  <2>2. /\ tx'[t] = tx[t] /\ session'[t] = session[t] /\ captured'[t] = captured[t]
        /\ Charged(t)' = Charged(t)
    BY <1>4 DEF Charged
  <2>3. to # "none" => ~Fresh(t) /\ tx[t].kind = "DEPOSIT" /\ Charged(t) > 0
    BY <2>1 DEF PaymentOK
  <2>4. tx[t].status = "FAILED" => to # "captured"
    BY <2>1 DEF PaymentOK
  <2>5. session[t].verified => to # "none" /\ tx[t].status # "PENDING"
    BY <2>1 DEF PaymentOK
  <2> QED
    BY <1>1, <2>1, <2>2, <2>3, <2>4, <2>5 DEF PaymentOK, Credited, Fresh
<1>7. \A u \in TxId : Forward(u)
  BY <1>1 DEF Forward
<1>8. \A h \in Handler : HandlerOK(h)'
  BY <1>7, HandlerKept, RunningTyped DEF OnlineInv
<1>9. OneHandler'
  BY DEF OnlineInv, OneHandler, Together
<1> QED
  BY <1>2, <1>3, <1>5, <1>6, <1>8, <1>9 DEF OnlineInv

LEMMA OpenSessionInv ==
  ASSUME OnlineInv, NEW t \in TxId, OpenSession(t)
  PROVE  OnlineInv'
<1>1. /\ tx[t].status = "PENDING" /\ gateway[t] = "none" /\ Charged(t) > 0
      /\ gateway' = [gateway EXCEPT ![t] = "open"]
      /\ UNCHANGED <<ledgerVars, session, captured, handler, answered, audit>>
  BY DEF OpenSession
<1> QED
  BY <1>1, GatewayMoves DEF GatewayState, Fresh

LEMMA GatewayStepInv ==
  ASSUME OnlineInv, NEW t \in TxId, Pay(t) \/ Decline(t) \/ Reverse(t)
  PROVE  OnlineInv'
<1>1. PICK to \in {"paid", "declined", "reversed"} :
         /\ gateway[t] = "open" \/ (gateway[t] = "paid" /\ to = "reversed")
         /\ gateway' = [gateway EXCEPT ![t] = to]
         /\ UNCHANGED <<ledgerVars, session, captured, handler, answered, audit>>
  BY DEF Pay, Decline, Reverse, GatewayStep
<1>2. to \in GatewayState \ {"none"} /\ to # "captured" /\ gateway[t] \notin {"captured", "none"}
  BY <1>1 DEF GatewayState
<1> QED
  BY <1>1, <1>2, GatewayMoves

-----------------------------------------------------------------------------
(* The handler                                                             *)

(* A handler comes, goes or learns something; no other handler does.       *)
Alone(h) ==
  /\ handler' \in [Handler -> Running \cup {Idle}]
  /\ \A k \in Handler \ {h} : handler'[k] = handler[k]
  /\ \/ handler'[h] = Idle
     \/ handler[h] # Idle /\ handler'[h].row = handler[h].row
     \/ handler[h] = Idle /\ InProgress(handler'[h].row) = {}

LEMMA AloneKeeps ==
  ASSUME OnlineInv, NEW h \in Handler, Alone(h), HandlerOK(h)',
         \A t \in TxId : Forward(t) \/ (handler[h] # Idle /\ t = handler[h].row),
         \A t \in TxId : answered'[t] = answered[t] \/ (handler[h] # Idle /\ t = handler[h].row)
  PROVE  (\A k \in Handler : HandlerOK(k)') /\ OneHandler'
<1>1. ASSUME NEW k \in Handler \ {h}, handler[k] # Idle
      PROVE  Forward(handler[k].row) /\ answered'[handler[k].row] = answered[handler[k].row]
  <2>1. handler[k].row \in TxId
    BY <1>1, RunningTyped DEF OnlineInv
  <2>2. ~Together(h, k)
    BY DEF OnlineInv, OneHandler
  <2> QED
    BY <1>1, <2>1, <2>2 DEF Together
<1>2. \A k \in Handler \ {h} : HandlerOK(k)'
  BY <1>1, HandlerKept DEF OnlineInv, Alone
<1>3. \A k \in Handler \ {h} : ~Together(h, k)' /\ ~Together(k, h)'
  <2> SUFFICES ASSUME NEW k \in Handler \ {h}, Together(h, k)' \/ Together(k, h)' PROVE FALSE
    OBVIOUS
  <2>1. /\ handler'[h] # Idle /\ handler'[k] = handler[k] /\ handler[k] # Idle
        /\ handler[k].row = handler'[h].row
    BY DEF Together, Alone
  <2>2. k \in InProgress(handler'[h].row)
    BY <2>1 DEF InProgress
  <2>3. handler[h] # Idle /\ handler'[h].row = handler[h].row
    BY <2>1, <2>2 DEF Alone
  <2> QED
    BY <2>1, <2>3 DEF OnlineInv, OneHandler, Together
<1>4. \A i, k \in Handler \ {h} : Together(i, k)' => i = k
  BY DEF Alone, OnlineInv, OneHandler, Together
<1>5. OneHandler'
  BY <1>3, <1>4 DEF OneHandler
<1> QED
  BY <1>2, <1>5

(* Only the handler moves.                                                 *)
LEMMA HandlerMoves ==
  ASSUME OnlineInv, NEW h \in Handler, Alone(h), HandlerOK(h)',
         UNCHANGED <<ledgerVars, session, gateway, captured>>,
         answered' \in [TxId -> 0..MaxCallbacks], audit' \in [TxId -> 0..MaxCallbacks],
         \A t \in TxId : audit'[t] <= answered'[t],
         \A t \in TxId : answered'[t] = answered[t] \/ (handler[h] # Idle /\ t = handler[h].row)
  PROVE  OnlineInv'
<1>1. IInv'
  BY StutterInvariant DEF OnlineInv
<1>2. OnlineTypes'
  BY DEF OnlineInv, OnlineTypes, Alone
<1>3. \A t \in TxId : PaymentOK(t)'
  BY DEF OnlineInv, PaymentOK, Credited, Fresh, Charged, ledgerVars
<1>4. \A t \in TxId : Forward(t)
  BY DEF OnlineInv, OnlineTypes, GatewayState, Forward
<1>5. (\A k \in Handler : HandlerOK(k)') /\ OneHandler'
  BY <1>4, AloneKeeps
<1> QED
  BY <1>1, <1>2, <1>3, <1>5 DEF OnlineInv

LEMMA ReceiveInv ==
  ASSUME OnlineInv, NEW h \in Handler, NEW t \in TxId, Receive(h, t)
  PROVE  OnlineInv'
<1> PICK status \in {"OK", "NOK"} :
         handler' = [handler EXCEPT
           ![h] = [phase |-> "locked", row |-> t, param |-> status, answer |-> "none"]]
  BY DEF Receive
<1> DEFINE new == [phase |-> "locked", row |-> t, param |-> status, answer |-> "none"]
<1>1. /\ gateway[t] # "none"
      /\ handler[h] = Idle /\ InProgress(t) = {} /\ answered[t] < MaxCallbacks
      /\ handler' = [handler EXCEPT ![h] = new]
      /\ UNCHANGED <<ledgerVars, session, gateway, captured, answered, audit>>
  BY DEF Receive
<1>2. new \in Running /\ new.row = t /\ new.answer = "none"
  BY DEF Running
<1> HIDE DEF new
<1>3. /\ handler' \in [Handler -> Running \cup {Idle}] /\ handler'[h] = new
      /\ \A k \in Handler \ {h} : handler'[k] = handler[k]
  BY <1>1, <1>2 DEF OnlineInv, OnlineTypes
<1>4. HandlerOK(h)'
  BY <1>1, <1>2, <1>3 DEF HandlerOK
<1>5. Alone(h)
  BY <1>1, <1>2, <1>3 DEF Alone
<1> QED
  BY <1>1, <1>4, <1>5, HandlerMoves DEF OnlineInv, OnlineTypes

LEMMA CrashInv ==
  ASSUME OnlineInv, NEW h \in Handler, Crash(h)
  PROVE  OnlineInv'
<1>1. /\ handler' = [handler EXCEPT ![h] = Idle]
      /\ UNCHANGED <<ledgerVars, session, gateway, captured, answered, audit>>
  BY DEF Crash
<1>2. /\ handler' \in [Handler -> Running \cup {Idle}] /\ handler'[h] = Idle
      /\ \A k \in Handler \ {h} : handler'[k] = handler[k]
  BY <1>1 DEF OnlineInv, OnlineTypes
<1>3. HandlerOK(h)' /\ Alone(h)
  BY <1>2 DEF HandlerOK, Alone
<1> QED
  BY <1>1, <1>3, HandlerMoves DEF OnlineInv, OnlineTypes

(* A handler answers: it leaves, its session counts one response more.     *)
LEMMA EndAlone ==
  ASSUME OnlineInv, NEW h \in Handler, handler[h] # Idle, NEW t \in TxId, t = handler[h].row,
         End(h), \/ audit' = audit
                 \/ audit' = [audit EXCEPT ![t] = @ + 1]
  PROVE  /\ Alone(h) /\ HandlerOK(h)'
         /\ answered' \in [TxId -> 0..MaxCallbacks] /\ audit' \in [TxId -> 0..MaxCallbacks]
         /\ \A u \in TxId : audit'[u] <= answered'[u]
         /\ \A u \in TxId \ {t} : answered'[u] = answered[u]
<1>1. handler' = [handler EXCEPT ![h] = Idle] /\ answered' = [answered EXCEPT ![t] = @ + 1]
  BY DEF End
<1>2. answered[t] < MaxCallbacks
  BY DEF OnlineInv, HandlerOK
<1>3. /\ handler' \in [Handler -> Running \cup {Idle}] /\ handler'[h] = Idle
      /\ \A k \in Handler \ {h} : handler'[k] = handler[k]
  BY <1>1 DEF OnlineInv, OnlineTypes
<1>4. HandlerOK(h)' /\ Alone(h)
  BY <1>3 DEF HandlerOK, Alone
<1>5. /\ answered \in [TxId -> 0..MaxCallbacks] /\ audit \in [TxId -> 0..MaxCallbacks]
      /\ \A u \in TxId : audit[u] <= answered[u]
  BY DEF OnlineInv, OnlineTypes
<1>6. /\ answered' \in [TxId -> 0..MaxCallbacks] /\ answered'[t] = answered[t] + 1
      /\ \A u \in TxId \ {t} : answered'[u] = answered[u]
  BY <1>1, <1>2, <1>5, MaxCallbacksAssumption
<1>7. audit[t] + 1 \in 0..MaxCallbacks
  BY <1>2, <1>5, MaxCallbacksAssumption
<1>8. audit' \in [TxId -> 0..MaxCallbacks] /\ audit'[t] \in {audit[t], audit[t] + 1}
      /\ \A u \in TxId \ {t} : audit'[u] = audit[u]
  BY <1>5, <1>7
<1>9. \A u \in TxId : audit'[u] <= answered'[u]
  BY <1>5, <1>6, <1>8
<1> QED
  BY <1>4, <1>6, <1>8, <1>9

LEMMA RaiseInv ==
  ASSUME OnlineInv, NEW h \in Handler, Raise(h)
  PROVE  OnlineInv'
<1>1. handler[h] # Idle /\ End(h) /\ UNCHANGED <<ledgerVars, session, gateway, captured, audit>>
  BY PhaseRuns DEF Raise
<1>2. PICK t \in TxId : t = handler[h].row
  BY <1>1, RunningTyped DEF OnlineInv
<1>3. /\ Alone(h) /\ HandlerOK(h)'
      /\ answered' \in [TxId -> 0..MaxCallbacks] /\ audit' \in [TxId -> 0..MaxCallbacks]
      /\ \A u \in TxId : audit'[u] <= answered'[u]
      /\ \A u \in TxId \ {t} : answered'[u] = answered[u]
  BY <1>1, <1>2, EndAlone
<1> QED
  BY <1>1, <1>2, <1>3, HandlerMoves

(* A handler commits: its row and its session change, no other does.       *)
LEMMA CommitInv ==
  ASSUME OnlineInv, NEW h \in Handler, handler[h] # Idle, NEW t \in TxId, t = handler[h].row,
         Commit(h), LedgerNext \/ UNCHANGED ledgerVars,
         session' \in [TxId -> Flags],
         \A u \in TxId \ {t} : session'[u] = session[u] /\ tx'[u] = tx[u],
         PaymentOK(t)'
  PROVE  OnlineInv'
<1>1. /\ End(h) /\ audit' = [audit EXCEPT ![t] = @ + 1] /\ UNCHANGED <<gateway, captured>>
  BY DEF Commit
<1>2. /\ Alone(h) /\ HandlerOK(h)'
      /\ answered' \in [TxId -> 0..MaxCallbacks] /\ audit' \in [TxId -> 0..MaxCallbacks]
      /\ \A u \in TxId : audit'[u] <= answered'[u]
      /\ \A u \in TxId \ {t} : answered'[u] = answered[u]
  BY <1>1, EndAlone
<1>3. IInv'
  BY NextInvariant, StutterInvariant DEF OnlineInv
<1>4. OnlineTypes'
  BY <1>1, <1>2 DEF OnlineInv, OnlineTypes, Alone
<1>5. ASSUME NEW u \in TxId \ {t} PROVE PaymentOK(u)'
  BY <1>1, <1>5 DEF OnlineInv, PaymentOK, Credited, Fresh, Charged
<1>6. \A u \in TxId : Forward(u)
  BY <1>1 DEF OnlineInv, OnlineTypes, GatewayState, Forward
<1>7. (\A k \in Handler : HandlerOK(k)') /\ OneHandler'
  BY <1>2, <1>6, AloneKeeps
<1> QED
  BY <1>3, <1>4, <1>5, <1>7 DEF OnlineInv

LEMMA ReplayInv ==
  ASSUME OnlineInv, NEW h \in Handler, Replay(h)
  PROVE  OnlineInv'
<1>1. handler[h] # Idle /\ Commit(h) /\ UNCHANGED <<ledgerVars, session>>
  BY PhaseRuns DEF Replay
<1>2. PICK t \in TxId : t = handler[h].row
  BY <1>1, RunningTyped DEF OnlineInv
<1>3. UNCHANGED <<balance, tx, history, gateway, captured>>
  BY <1>1 DEF ledgerVars, Commit
<1>4. PaymentOK(t)'
  BY <1>1, <1>3 DEF OnlineInv, PaymentOK, Credited, Fresh, Charged
<1> QED
  BY <1>1, <1>2, <1>3, <1>4, CommitInv DEF OnlineInv, OnlineTypes

(* Failing a row is a ledger step on a PENDING row and nothing on another. *)
LEMMA FailedStep ==
  ASSUME OnlineInv, NEW t \in TxId, NEW s \in Failure, Failed(t, s)
  PROVE  /\ LedgerNext \/ UNCHANGED ledgerVars
         /\ \A u \in TxId \ {t} : tx'[u] = tx[u]
         /\ Moved(t, "PENDING", s) \/ (tx[t].status # "PENDING" /\ tx'[t] = tx[t])
<1>1. CASE tx[t].status = "PENDING"
  <2>1. FailPending(t, s) /\ LedgerNext
    BY <1>1 DEF Failed, LedgerNext
  <2>2. tx[t] \in Row
    BY <1>1, RowTyped DEF Fresh, OnlineInv, IInv
  <2> QED
    BY <2>1, <2>2 DEF FailPending, Moved, Row, OnlineInv, IInv, TypeOK
<1>2. CASE tx[t].status # "PENDING"
  BY <1>2 DEF Failed, ledgerVars
<1> QED
  BY <1>1, <1>2

(* What an unsuccessful answer leaves in the session.                      *)
LEMMA Unsuccessful ==
  ASSUME NEW r, r = [verified |-> TRUE, success |-> FALSE, walletUpdated |-> FALSE]
  PROVE  ~r.walletUpdated /\ ~r.success
OBVIOUS

(* An answered session without success: CancelledByPayer and Refused.      *)
LEMMA FailedInv ==
  ASSUME OnlineInv, NEW h \in Handler, handler[h] # Idle, NEW t \in TxId, t = handler[h].row,
         NEW s \in {"FAILED", "CANCELLED"}, Failed(t, s), Commit(h),
         gateway[t] # "none", s = "FAILED" => gateway[t] # "captured",
         ~Credited(t),
         session' = [session EXCEPT ![t].verified = TRUE, ![t].success = FALSE]
  PROVE  OnlineInv'
<1>1. s \in Failure /\ gateway' = gateway /\ captured' = captured
  BY DEF Failure, Commit
<1>2. /\ LedgerNext \/ UNCHANGED ledgerVars
      /\ \A u \in TxId \ {t} : tx'[u] = tx[u]
      /\ Moved(t, "PENDING", s) \/ (tx[t].status # "PENDING" /\ tx'[t] = tx[t])
  BY <1>1, FailedStep
<1>3. session[t] \in Flags /\ PaymentOK(t)
  BY DEF OnlineInv, OnlineTypes
<1>4. session[t].walletUpdated = FALSE
  BY <1>3 DEF PaymentOK, Flags
<1>5. /\ session' \in [TxId -> Flags]
      /\ session'[t] = [verified |-> TRUE, success |-> FALSE, walletUpdated |-> FALSE]
      /\ \A u \in TxId \ {t} : session'[u] = session[u]
  BY <1>3, <1>4 DEF OnlineInv, OnlineTypes, Flags
<1>6. PaymentOK(t)'
  <2>1. /\ tx'[t].kind = tx[t].kind /\ tx'[t].amount = tx[t].amount
        /\ tx'[t].status = tx[t].status \/ tx'[t].status = s
        /\ tx'[t].status # "PENDING"
    BY <1>2 DEF Moved
  <2>2. ~Credited(t) /\ ~Fresh(t) /\ tx[t].kind = "DEPOSIT" /\ Charged(t) > 0
    BY <1>3 DEF PaymentOK
  <2>3. ~Credited(t)' /\ ~Fresh(t)' /\ Charged(t)' = Charged(t)
    BY <2>1, <2>2 DEF Credited, Fresh, Applied, Charged
  <2>4. ~session'[t].walletUpdated /\ ~session'[t].success
    BY <1>5, Unsuccessful
  <2>5. gateway'[t] # "none" /\ (tx'[t].status = "FAILED" => gateway'[t] # "captured")
    BY <1>1, <1>3, <2>1 DEF PaymentOK
  <2>6. gateway'[t] = "captured" => captured'[t] = Charged(t)
    BY <1>1, <1>3 DEF PaymentOK
  <2> QED
    BY <1>5, <2>1, <2>2, <2>3, <2>4, <2>5, <2>6 DEF PaymentOK
<1> QED
  BY <1>2, <1>5, <1>6, CommitInv

LEMMA CancelledInv ==
  ASSUME OnlineInv, NEW h \in Handler, CancelledByPayer(h)
  PROVE  OnlineInv'
<1>1. handler[h] # Idle
  BY PhaseRuns DEF CancelledByPayer
<1>2. PICK t \in TxId : t = handler[h].row
  BY <1>1, RunningTyped DEF OnlineInv
<1>3. gateway[t] # "none" /\ ~Credited(t)
  BY <1>1, <1>2 DEF OnlineInv, HandlerOK, PaymentOK, CancelledByPayer
<1> QED
  BY <1>1, <1>2, <1>3, FailedInv DEF CancelledByPayer

LEMMA RefusedInv ==
  ASSUME OnlineInv, NEW h \in Handler, Refused(h)
  PROVE  OnlineInv'
<1>1. handler[h] # Idle
  BY PhaseRuns DEF Refused
<1>2. PICK t \in TxId : t = handler[h].row
  BY <1>1, RunningTyped DEF OnlineInv
<1>3. gateway[t] \notin {"none", "captured"} /\ ~Credited(t)
  BY <1>1, <1>2 DEF OnlineInv, HandlerOK, PaymentOK, Refused
<1> QED
  BY <1>1, <1>2, <1>3, FailedInv DEF Refused

LEMMA AcceptedInv ==
  ASSUME OnlineInv, NEW h \in Handler, Accepted(h)
  PROVE  OnlineInv'
<1>1. handler[h] # Idle /\ Commit(h)
  BY PhaseRuns DEF Accepted
<1>2. PICK t \in TxId : t = handler[h].row
  BY <1>1, RunningTyped DEF OnlineInv
<1>3. /\ gateway[t] = "captured" /\ PaymentOK(t)
      /\ gateway' = gateway /\ captured' = captured
  BY <1>1, <1>2 DEF OnlineInv, HandlerOK, Accepted, Commit
<1>4. /\ LedgerNext \/ UNCHANGED ledgerVars
      /\ \A u \in TxId \ {t} : tx'[u] = tx[u]
      /\ tx'[t].status = "SUCCESS"
      /\ tx'[t].kind = tx[t].kind /\ tx'[t].amount = tx[t].amount
  <2>1. CASE tx[t].status = "SUCCESS"
    BY <1>2, <2>1 DEF Accepted, Settled, ledgerVars
  <2>2. CASE tx[t].status # "SUCCESS"
    <3>1. SettlePending(t)
      BY <1>2, <2>2 DEF Accepted, Settled
    <3>2. tx[t] \in Row
      BY <3>1, RowTyped DEF SettlePending, Fresh, OnlineInv, IInv
    <3> QED
      BY <3>1, <3>2 DEF SettlePending, SettleRow, Row, LedgerNext, OnlineInv, IInv, TypeOK
  <2> QED
    BY <2>1, <2>2
<1>5. /\ session' \in [TxId -> Flags]
      /\ session'[t] = [verified |-> TRUE, success |-> TRUE, walletUpdated |-> TRUE]
      /\ \A u \in TxId \ {t} : session'[u] = session[u]
  BY <1>2 DEF Accepted, OnlineInv, OnlineTypes, Flags
<1>6. PaymentOK(t)'
  <2>1. tx[t].kind = "DEPOSIT" /\ Charged(t) > 0 /\ captured[t] = Charged(t)
    BY <1>3 DEF PaymentOK
  <2>2. Credited(t)' /\ ~Fresh(t)' /\ Charged(t)' = Charged(t)
    BY <1>4, <2>1 DEF Credited, Fresh, Applied, Charged
  <2> QED
    BY <1>3, <1>4, <1>5, <2>1, <2>2 DEF PaymentOK
<1> QED
  BY <1>1, <1>2, <1>4, <1>5, <1>6, CommitInv

(* What the handler learns by asking is what the gateway now holds.        *)
LEMMA AskInv ==
  ASSUME OnlineInv, NEW h \in Handler, Ask(h)
  PROVE  OnlineInv'
<1>1. handler[h] # Idle
  BY PhaseRuns DEF Ask
<1>2. PICK t \in TxId : t = handler[h].row
  BY <1>1, RunningTyped DEF OnlineInv
<1> DEFINE accepts == gateway[t] \in {"paid", "captured"}
<1>3. gateway[t] # "none" /\ ~session[t].verified /\ answered[t] < MaxCallbacks
  BY <1>1, <1>2 DEF OnlineInv, HandlerOK, Ask
<1>4. /\ handler[h].param = "OK"
      /\ UNCHANGED <<ledgerVars, session, answered, audit>>
      /\ accepts => /\ gateway' = [gateway EXCEPT ![t] = "captured"]
                    /\ captured' = [captured EXCEPT ![t] = Charged(t)]
      /\ ~accepts => gateway' = gateway /\ captured' = captured
  BY <1>2 DEF Ask
<1>5. PICK answer \in {IF accepts THEN "accepted" ELSE "refused", "error"} :
        handler' = [handler EXCEPT ![h].phase = "asked", ![h].answer = answer]
  BY <1>2 DEF Ask
<1>6. /\ handler' \in [Handler -> Running \cup {Idle}]
      /\ handler'[h] = [phase |-> "asked", row |-> t, param |-> "OK", answer |-> answer]
      /\ \A k \in Handler \ {h} : handler'[k] = handler[k]
  <2>1. handler[h] \in Running
    BY <1>1, RunningTyped DEF OnlineInv
  <2>2. handler'[h] = [phase |-> "asked", row |-> t, param |-> "OK", answer |-> answer]
    BY <1>2, <1>4, <1>5, <2>1 DEF Running, OnlineInv, OnlineTypes
  <2> answer \in {"accepted", "refused", "error"}
    BY <1>5
  <2>3. handler'[h] \in Running
    BY <2>2 DEF Running
  <2> QED
    BY <1>5, <2>2, <2>3 DEF OnlineInv, OnlineTypes
<1>7. PaymentOK(t) /\ Charged(t) \in Nat
  <2>1. PaymentOK(t) /\ ~Fresh(t) /\ Charged(t) > 0
    BY <1>3 DEF OnlineInv, PaymentOK
  <2>2. tx[t].amount \in Int
    BY <2>1, RowTyped DEF OnlineInv, IInv
  <2>3. Charged(t) \in Int
    BY <2>2, UnitAssumption DEF Charged
  <2> QED
    BY <2>1, <2>3
<1>8. /\ gateway' \in [TxId -> GatewayState] /\ captured' \in [TxId -> Nat]
      /\ gateway'[t] = IF accepts THEN "captured" ELSE gateway[t]
      /\ captured'[t] = IF accepts THEN Charged(t) ELSE captured[t]
      /\ \A u \in TxId \ {t} : gateway'[u] = gateway[u] /\ captured'[u] = captured[u]
  BY <1>4, <1>7 DEF OnlineInv, OnlineTypes, GatewayState
<1>9. \A u \in TxId \ {t} : Forward(u)
  BY <1>8 DEF Forward
<1>10. HandlerOK(h)'
  BY <1>3, <1>4, <1>6, <1>8 DEF HandlerOK
<1>11. Alone(h)
  BY <1>1, <1>2, <1>6 DEF Alone
<1>12. (\A k \in Handler : HandlerOK(k)') /\ OneHandler'
  BY <1>1, <1>2, <1>4, <1>9, <1>10, <1>11, AloneKeeps
<1>13. IInv' /\ OnlineTypes' /\ UNCHANGED <<balance, tx, history>>
  BY <1>4, <1>6, <1>8, StutterInvariant DEF OnlineInv, OnlineTypes, ledgerVars
<1>14. ASSUME NEW u \in TxId \ {t} PROVE PaymentOK(u)'
  BY <1>4, <1>8, <1>13, <1>14 DEF OnlineInv, PaymentOK, Credited, Fresh, Charged
<1>15. PaymentOK(t)'
  <2>1. /\ tx'[t] = tx[t] /\ session'[t] = session[t] /\ Charged(t)' = Charged(t)
    BY <1>4, <1>13 DEF Charged
  <2>2. CASE accepts
    <3>1. tx[t].status \notin {"FAILED", "CANCELLED"}
      BY <1>3, <1>7 DEF PaymentOK
    <3> QED
      BY <1>7, <1>8, <2>1, <2>2, <3>1 DEF PaymentOK, Credited, Fresh
  <2>3. CASE ~accepts
    BY <1>7, <1>8, <2>1, <2>3 DEF PaymentOK, Credited, Fresh
  <2> QED
    BY <2>2, <2>3
<1> QED
  BY <1>12, <1>13, <1>14, <1>15 DEF OnlineInv

-----------------------------------------------------------------------------
(* The theorems                                                            *)

LEMMA OnlineInitInv == OnlineInit => OnlineInv
<1> SUFFICES ASSUME OnlineInit PROVE OnlineInv
  OBVIOUS
<1>1. IInv
  BY InitInvariant DEF OnlineInit
<1>2. OnlineTypes
  BY MaxCallbacksAssumption
     DEF OnlineInit, OnlineTypes, Flags, NewSession, GatewayState
<1>3. \A t \in TxId : tx[t].status = "ABSENT" /\ session[t] = NewSession /\ gateway[t] = "none"
  BY DEF OnlineInit, Init, NoRow
<1>4. \A t \in TxId : PaymentOK(t)
  BY <1>3 DEF PaymentOK, Credited, Applied, NewSession
<1>5. \A h \in Handler : handler[h] = Idle
  BY DEF OnlineInit
<1> QED
  BY <1>1, <1>2, <1>4, <1>5 DEF OnlineInv, HandlerOK, OneHandler, Together

LEMMA OnlineStepInv ==
  ASSUME OnlineInv, [OnlineNext]_vars
  PROVE  OnlineInv'
<1>1. ASSUME NEW t \in TxId,
             \/ \E w \in Wallet, a \in Amount : OnlineDeposit(w, t, a)
             \/ OpenSession(t) \/ Pay(t) \/ Decline(t) \/ Reverse(t) \/ Expire(t)
      PROVE  OnlineInv'
  BY <1>1, OnlineDepositInv, OpenSessionInv, GatewayStepInv, ExpireInv
<1>2. ASSUME NEW h \in Handler,
             \/ \E t \in TxId : Receive(h, t)
             \/ Replay(h) \/ CancelledByPayer(h) \/ Ask(h)
             \/ Accepted(h) \/ Refused(h) \/ Raise(h) \/ Crash(h)
      PROVE  OnlineInv'
  BY <1>2, ReceiveInv, ReplayInv, CancelledInv, AskInv, AcceptedInv, RefusedInv, RaiseInv, CrashInv
<1>3. CASE UNCHANGED vars
  <2>1. /\ UNCHANGED ledgerVars /\ UNCHANGED <<balance, tx, history>>
        /\ UNCHANGED <<session, gateway, captured, handler, answered, audit>>
    BY <1>3 DEF vars, ledgerVars, onlineVars
  <2>2. IInv'
    BY <2>1, StutterInvariant DEF OnlineInv
  <2> QED
    BY <2>1, <2>2 DEF OnlineInv, OnlineTypes, PaymentOK, Credited, Fresh, Charged, HandlerOK,
                      OneHandler, Together
<1> QED
  BY <1>1, <1>2, <1>3, UseWalletInv DEF OnlineNext

(* How a PENDING row whose money the gateway has may change in one step:   *)
(* a refusal of the gateway does not touch it.                             *)
LEMMA RowSpared ==
  ASSUME OnlineInv, [OnlineNext]_vars, NEW t \in TxId,
         gateway[t] = "captured", tx[t].status = "PENDING"
  PROVE  \/ tx'[t].status \in {"PENDING", "SUCCESS", "EXPIRED"}
         \/ \E h \in Handler : CancelledByPayer(h) /\ handler[h].row = t
<1> DEFINE Spared == tx'[t].status \in {"PENDING", "SUCCESS", "EXPIRED"}
           Claimed == \E h \in Handler : CancelledByPayer(h) /\ handler[h].row = t
<1>1. tx[t] \in Row
  BY RowTyped DEF Fresh, OnlineInv, IInv
<1>2. ASSUME UNCHANGED ledgerVars PROVE Spared
  BY <1>2 DEF ledgerVars
<1>3. ASSUME NEW w \in Wallet, NEW u \in TxId, NEW a \in Amount,
             OnlineDeposit(w, u, a) \/ Withdraw(w, u, a)
      PROVE  Spared
  <2>1. Fresh(u) /\ u # t
    BY <1>3 DEF OnlineDeposit, CreatePending, Withdraw, Debit, Book, Fresh
  <2> QED
    BY <1>3, <2>1 DEF OnlineDeposit, CreatePending, Withdraw, Debit, Book, OnlineInv, IInv, TypeOK
<1>4. ASSUME NEW src \in TxId, NEW w \in Wallet, NEW u \in TxId, NEW a \in Amount,
             RefundSource(src, w, u, a)
      PROVE  Spared
  <2>1. u # t /\ src # t
    BY <1>4 DEF RefundSource, Fresh
  <2> QED
    BY <1>4, <2>1 DEF RefundSource, OnlineInv, IInv, TypeOK
<1>5. ASSUME NEW u \in TxId, Expire(u) PROVE Spared
  BY <1>1, <1>5 DEF Expire, FailPending, Row, OnlineInv, IInv, TypeOK
<1>6. ASSUME NEW h \in Handler, Accepted(h) PROVE Spared
  <2>1. PICK u \in TxId : u = handler[h].row
    BY <1>6, PhaseRuns, RunningTyped DEF OnlineInv, Accepted
  <2>2. UNCHANGED ledgerVars \/ SettlePending(u)
    BY <1>6, <2>1 DEF Accepted, Settled
  <2>3. ASSUME SettlePending(u), u # t PROVE tx'[t] = tx[t]
    BY <2>3 DEF SettlePending, SettleRow, OnlineInv, IInv, TypeOK
  <2>4. ASSUME SettlePending(t) PROVE tx'[t].status = "SUCCESS"
    BY <1>1, <2>4 DEF SettlePending, SettleRow, Row, OnlineInv, IInv, TypeOK
  <2> QED
    BY <1>2, <2>2, <2>3, <2>4
<1>7. ASSUME NEW h \in Handler, Refused(h) PROVE Spared
  <2>1. PICK u \in TxId : u = handler[h].row
    BY <1>7, PhaseRuns, RunningTyped DEF OnlineInv, Refused
  <2>2. u # t
    BY <1>7, <2>1, PhaseRuns DEF OnlineInv, HandlerOK, Refused
  <2>3. Failed(u, "FAILED")
    BY <1>7, <2>1 DEF Refused
  <2>4. tx'[t] = tx[t]
    BY <2>2, <2>3, FailedStep DEF Failure
  <2> QED
    BY <2>4
<1>8. ASSUME NEW h \in Handler, CancelledByPayer(h), handler[h].row # t PROVE Spared
  <2>1. PICK u \in TxId : u = handler[h].row
    BY <1>8, PhaseRuns, RunningTyped DEF OnlineInv, CancelledByPayer
  <2>2. tx'[t] = tx[t]
    BY <1>8, <2>1, FailedStep DEF CancelledByPayer, Failure
  <2> QED
    BY <2>2
<1>9. ASSUME UNCHANGED vars PROVE Spared
  BY <1>2, <1>9 DEF vars
<1>10. ASSUME NEW u \in TxId,
              \/ \E w \in Wallet, a \in Amount : OnlineDeposit(w, u, a)
              \/ OpenSession(u) \/ Pay(u) \/ Decline(u) \/ Reverse(u) \/ Expire(u)
       PROVE  Spared
  BY <1>2, <1>3, <1>5, <1>10 DEF OpenSession, Pay, Decline, Reverse, GatewayStep
<1>11. ASSUME NEW h \in Handler,
              \/ \E u \in TxId : Receive(h, u)
              \/ Replay(h) \/ CancelledByPayer(h) \/ Ask(h)
              \/ Accepted(h) \/ Refused(h) \/ Raise(h) \/ Crash(h)
       PROVE  Spared \/ Claimed
  BY <1>2, <1>6, <1>7, <1>8, <1>11 DEF Receive, Replay, Ask, Raise, Crash
<1>12. UseWallet => Spared
  BY <1>3, <1>4 DEF UseWallet
<1> HIDE DEF Spared, Claimed
<1>13. Spared \/ Claimed
  BY <1>9, <1>10, <1>11, <1>12 DEF OnlineNext
<1> QED
  BY <1>13 DEF Spared, Claimed

(* Whatever the payer, the gateway, the clean-up and the workers do, the   *)
(* ledger is in order and so is every payment and every handler.           *)
THEOREM OnlineInvariant == OnlineSpec => []OnlineInv
<1>1. OnlineInit => OnlineInv
  BY OnlineInitInv
<1>2. OnlineInv /\ [OnlineNext]_vars => OnlineInv'
  BY OnlineStepInv
<1> QED
  BY <1>1, <1>2, PTL DEF OnlineSpec

(* Every table and every handler keeps its type; the number of audit rows  *)
(* of a session stays within the bound on its redirects.                   *)
THEOREM OnlineTypeCorrect == OnlineSpec => []OnlineTypeOK
<1>1. OnlineInv => OnlineTypeOK
  BY DEF OnlineInv, IInv, OnlineTypes, GatewayState, OnlineTypeOK
<1> QED
  BY <1>1, OnlineInvariant, PTL

(* A top-up in the wallet is money the gateway captured, to less than one  *)
(* unit of the gateway's currency: int(amount).                            *)
THEOREM CreditsAreCaptured == OnlineSpec => []CreditNeedsCapture
<1>1. OnlineInv => CreditNeedsCapture
  <2> SUFFICES ASSUME OnlineInv, NEW t \in TxId, tx[t].status \in Applied, tx[t].kind = "DEPOSIT"
               PROVE  gateway[t] = "captured" /\ tx[t].amount - captured[t] \in 0..(Unit - 1)
    BY DEF CreditNeedsCapture
  <2>1. gateway[t] = "captured" /\ captured[t] = Charged(t)
    BY DEF OnlineInv, PaymentOK, Credited
  <2>2. tx[t].amount \in Int
    BY RowTyped DEF OnlineInv, IInv, Fresh, Applied
  <2>3. ASSUME NEW a \in Int PROVE a - (a \div Unit) * Unit \in 0..(Unit - 1)
    BY UnitAssumption
  <2> QED
    BY <2>1, <2>2, <2>3 DEF Charged
<1> QED
  BY <1>1, OnlineInvariant, PTL

(* The session's flags and the ledger row tell the same story, however     *)
(* callbacks, crashes and the clean-up interleave.                         *)
THEOREM SessionsAgree == OnlineSpec => []SessionAgrees
<1>1. OnlineInv => SessionAgrees
  BY DEF OnlineInv, PaymentOK, Credited, SessionAgrees
<1> QED
  BY <1>1, OnlineInvariant, PTL

(* A PENDING row whose money the gateway has is credited, expires or       *)
(* waits; only a callback that claims the payer cancelled, which is        *)
(* believed without asking the gateway, writes it off.                     *)
THEOREM CapturesNotRefused == OnlineSpec => CaptureNotRefused
<1> DEFINE Spared(t) ==
      gateway[t] = "captured" /\ tx[t].status = "PENDING" =>
        \/ tx'[t].status \in {"PENDING", "SUCCESS", "EXPIRED"}
        \/ \E h \in Handler : CancelledByPayer(h) /\ handler[h].row = t
<1>1. ASSUME OnlineInv, [OnlineNext]_vars, NEW t \in TxId PROVE Spared(t)
  BY <1>1, RowSpared
<1> HIDE DEF Spared
<1>2. OnlineInv /\ [OnlineNext]_vars => [\A t \in TxId : Spared(t)]_vars
  BY <1>1
<1>3. OnlineSpec => [][\A t \in TxId : Spared(t)]_vars
  BY <1>2, OnlineInvariant, PTL DEF OnlineSpec
<1> QED
  BY <1>3 DEF CaptureNotRefused, Spared
=============================================================================
