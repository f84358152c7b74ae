---------------------------- MODULE OnlinePayment ----------------------------
(***************************************************************************)
(* PaymentGatewayService: topping a wallet up through the payment gateway. *)
(* A PENDING ledger row is opened, the payer is sent to the gateway, and   *)
(* a callback, which may arrive early, late, twice, at two workers at once,*)
(* with any Status, or not at all, makes handle_callback ask the gateway   *)
(* and settle or fail the row, or cancel it without asking.                *)
(*                                                                         *)
(* The gateway is outside the database: what it captured stays captured    *)
(* when the handler's transaction rolls back.  A handler therefore takes   *)
(* three steps (lock the session, ask the gateway, commit); its writes all *)
(* happen in the last.  A row has at most one session, so a session is     *)
(* named by the primary key of its row.                                    *)
(***************************************************************************)
EXTENDS WalletLedger

CONSTANTS Handler,       \* requests executing handle_callback
          Unit,          \* hundredths in what int(amount) counts
          MaxCallbacks   \* bound on the redirects one session answers

ASSUME UnitAssumption == Unit \in Nat \ {0}
ASSUME MaxCallbacksAssumption == MaxCallbacks \in Nat

VARIABLES session,    \* GatewayTransaction, by its wallet transaction
          gateway,    \* the gateway's own view of the payment
          captured,   \* what the gateway took from the payer
          handler,    \* callbacks in progress
          answered,   \* per session, the callbacks that got a response
          audit       \* per session, its GatewayCallback rows

onlineVars == <<session, gateway, captured, handler, answered, audit>>
vars == <<ledgerVars, onlineVars>>

Flags == [verified : BOOLEAN, success : BOOLEAN, walletUpdated : BOOLEAN]

NewSession == [verified |-> FALSE, success |-> FALSE, walletUpdated |-> FALSE]

Idle == [phase |-> "idle"]

(* param is the Status of the redirect, answer what verify_payment said.   *)
Running ==
  [phase : {"locked", "asked"}, row : TxId, param : {"OK", "NOK"},
   answer : {"none", "accepted", "refused", "error"}]

OnlineTypeOK ==
  /\ TypeOK
  /\ session \in [TxId -> Flags]
  /\ gateway \in [TxId -> {"none", "open", "paid", "declined", "captured",
                           "reversed"}]
  /\ captured \in [TxId -> Nat]
  /\ handler \in [Handler -> Running \cup {Idle}]
  /\ answered \in [TxId -> 0..MaxCallbacks]
  /\ audit \in [TxId -> 0..MaxCallbacks]

OnlineInit ==
  /\ Init
  /\ session = [t \in TxId |-> NewSession]
  /\ gateway = [t \in TxId |-> "none"]
  /\ captured = [t \in TxId |-> 0]
  /\ handler = [h \in Handler |-> Idle]
  /\ answered = [t \in TxId |-> 0]
  /\ audit = [t \in TxId |-> 0]

-----------------------------------------------------------------------------
(* The gateway and the payer *)

(* The adapter sends int(amount).                                          *)
Charged(t) == (tx[t].amount \div Unit) * Unit

GatewayStep(t, from, to) ==
  /\ gateway[t] = from
  /\ gateway' = [gateway EXCEPT ![t] = to]
  /\ UNCHANGED <<ledgerVars, session, captured, handler, answered, audit>>

Pay(t) == GatewayStep(t, "open", "paid")

Decline(t) == GatewayStep(t, "open", "declined")

(* A payment nobody verifies in time goes back to the payer.               *)
Reverse(t) == GatewayStep(t, "paid", "reversed")

-----------------------------------------------------------------------------
(* Opening a payment *)

(* WalletViewSet.online_deposit, first half; the second is a transaction   *)
(* of its own and may not follow.                                          *)
OnlineDeposit(w, t, a) ==
  /\ CreatePending(w, t, "DEPOSIT", a)
  /\ UNCHANGED onlineVars

(* create_payment; an amount the gateway would count as nothing yields no  *)
(* authority and raises.                                                   *)
OpenSession(t) ==
  /\ tx[t].status = "PENDING"
  /\ gateway[t] = "none"
  /\ Charged(t) > 0
  /\ gateway' = [gateway EXCEPT ![t] = "open"]
  /\ UNCHANGED <<ledgerVars, session, captured, handler, answered, audit>>

-----------------------------------------------------------------------------
(* handle_callback *)

InProgress(t) == {h \in Handler : handler[h] # Idle /\ handler[h].row = t}

(* A request of PaymentCallbackView reaches a worker, which waits for the  *)
(* session's row lock.  The view asks for no authentication and passes the *)
(* Status it is given: any one may come with a known authority, any number *)
(* of times and whatever the payer has done so far.                        *)
Receive(h, t) ==
  /\ handler[h] = Idle
  /\ gateway[t] # "none"
  /\ InProgress(t) = {}
  /\ answered[t] < MaxCallbacks
  /\ \E status \in {"OK", "NOK"} :
       handler' = [handler EXCEPT
         ![h] = [phase |-> "locked", row |-> t, param |-> status, answer |-> "none"]]
  /\ UNCHANGED <<ledgerVars, session, gateway, captured, answered, audit>>

End(h) ==
  /\ handler' = [handler EXCEPT ![h] = Idle]
  /\ answered' = [answered EXCEPT ![handler[h].row] = @ + 1]

(* Committing keeps the GatewayCallback row written at the start.          *)
Commit(h) ==
  /\ End(h)
  /\ audit' = [audit EXCEPT ![handler[h].row] = @ + 1]
  /\ UNCHANGED <<gateway, captured>>

(* settle_pending_transaction returns a row already SUCCESS and raises for *)
(* another terminal one (SettlePending is not enabled: see Raise).         *)
Settled(t) ==
  IF tx[t].status = "SUCCESS" THEN UNCHANGED ledgerVars ELSE SettlePending(t)

(* fail_pending_transaction returns a terminal row unchanged.              *)
Failed(t, s) ==
  IF tx[t].status = "PENDING" THEN FailPending(t, s) ELSE UNCHANGED ledgerVars

(* A duplicate: the session has its answer already.                        *)
Replay(h) ==
  /\ handler[h].phase = "locked"
  /\ session[handler[h].row].verified
  /\ Commit(h)
  /\ UNCHANGED <<ledgerVars, session>>

CancelledByPayer(h) ==
  LET t == handler[h].row IN
  /\ handler[h].phase = "locked"
  /\ ~session[t].verified
  /\ handler[h].param # "OK"
  /\ session' = [session EXCEPT ![t].verified = TRUE, ![t].success = FALSE]
  /\ Failed(t, "CANCELLED")
  /\ Commit(h)

(* verify_payment's HTTP call.  The gateway captures a paid payment, says  *)
(* so again when asked again (code 101) and refuses one that is not paid,  *)
(* declined or reversed; either answer may be lost.                        *)
Ask(h) ==
  LET t == handler[h].row
      accepts == gateway[t] \in {"paid", "captured"}
  IN  /\ handler[h].phase = "locked"
      /\ ~session[t].verified
      /\ handler[h].param = "OK"
      /\ IF accepts
         THEN /\ gateway' = [gateway EXCEPT ![t] = "captured"]
              /\ captured' = [captured EXCEPT ![t] = Charged(t)]
         ELSE UNCHANGED <<gateway, captured>>
      /\ \E answer \in {IF accepts THEN "accepted" ELSE "refused", "error"} :
           handler' = [handler EXCEPT ![h].phase = "asked",
                                      ![h].answer = answer]
      /\ UNCHANGED <<ledgerVars, session, answered, audit>>

(* Mutant of Accepted: the wallet is settled outside the transaction that  *)
(* marks the session.                                                      *)
AcceptedUnmarked(h) ==
  LET t == handler[h].row IN
  /\ handler[h].phase = "asked" /\ handler[h].answer = "accepted"
  /\ Settled(t)
  /\ UNCHANGED session
  /\ Commit(h)

Accepted(h) ==
  LET t == handler[h].row IN
  /\ handler[h].phase = "asked" /\ handler[h].answer = "accepted"
  /\ Settled(t)
  /\ session' = [session EXCEPT
       ![t] = [verified |-> TRUE, success |-> TRUE, walletUpdated |-> TRUE]]
  /\ Commit(h)

(* Mutants of Refused: every answer of the gateway, or none, is taken for  *)
(* a success, and for a definitive refusal.                                *)
RefusedSettles(h) ==
  LET t == handler[h].row IN
  /\ handler[h].phase = "asked" /\ handler[h].answer # "accepted"
  /\ Settled(t)
  /\ session' = [session EXCEPT ![t].verified = TRUE]
  /\ Commit(h)

ErrorRefuses(h) ==
  LET t == handler[h].row IN
  /\ handler[h].phase = "asked" /\ handler[h].answer \in {"refused", "error"}
  /\ session' = [session EXCEPT ![t].verified = TRUE, ![t].success = FALSE]
  /\ Failed(t, "FAILED")
  /\ Commit(h)

Refused(h) ==
  LET t == handler[h].row IN
  /\ handler[h].phase = "asked" /\ handler[h].answer = "refused"
  /\ session' = [session EXCEPT ![t].verified = TRUE, ![t].success = FALSE]
  /\ Failed(t, "FAILED")
  /\ Commit(h)

(* An exception rolls everything back and the caller gets an error: 502    *)
(* when the gateway could not be asked, 500 when settle_pending_transaction*)
(* finds the row in another terminal status.                               *)
Raise(h) ==
  /\ handler[h].phase = "asked"
  /\ \/ handler[h].answer = "error"
     \/ /\ handler[h].answer = "accepted"
        /\ tx[handler[h].row].status \notin {"PENDING", "SUCCESS"}
  /\ End(h)
  /\ UNCHANGED <<ledgerVars, session, gateway, captured, audit>>

(* A killed worker: no trace in the database and no answer.                *)
Crash(h) ==
  /\ handler[h] # Idle
  /\ handler' = [handler EXCEPT ![h] = Idle]
  /\ UNCHANGED <<ledgerVars, session, gateway, captured, answered, audit>>

-----------------------------------------------------------------------------
(* CleanupService.expire_stale_pending_transactions, on one row older than *)
(* the timeout; it does not look at the session.                           *)
Expire(t) ==
  /\ FailPending(t, "EXPIRED")
  /\ UNCHANGED onlineVars

(* The calls that use a wallet meanwhile.                                  *)
UseWallet ==
  /\ \E w \in Wallet, t \in TxId, a \in Amount :
       \/ Withdraw(w, t, a)
       \/ \E src \in TxId : RefundSource(src, w, t, a)
  /\ UNCHANGED onlineVars

OnlineNext ==
  \/ \E t \in TxId :
       \/ \E w \in Wallet, a \in Amount : OnlineDeposit(w, t, a)
       \/ OpenSession(t)
       \/ Pay(t) \/ Decline(t) \/ Reverse(t)
       \/ Expire(t)
  \/ \E h \in Handler :
       \/ \E t \in TxId : Receive(h, t)
       \/ Replay(h) \/ CancelledByPayer(h) \/ Ask(h)
       \/ Accepted(h) \/ Refused(h) \/ Raise(h) \/ Crash(h)
  \/ UseWallet

OnlineSpec == OnlineInit /\ [][OnlineNext]_vars

-----------------------------------------------------------------------------
(* Safety *)

(* A top-up is credited only for money the gateway holds, whatever         *)
(* answers were lost and whoever replayed the redirect; int(amount) makes  *)
(* the gateway charge less than is credited, by less than one unit.        *)
CreditNeedsCapture ==
  \A t \in TxId :
    tx[t].status \in Applied /\ tx[t].kind = "DEPOSIT" =>
      /\ gateway[t] = "captured"
      /\ tx[t].amount - captured[t] \in 0..(Unit - 1)

(* The two tables agree: a row is applied exactly if its session says the  *)
(* wallet was updated, which it says exactly of successes, and a session   *)
(* answered without success has left no row PENDING.                       *)
SessionAgrees ==
  \A t \in TxId :
    /\ session[t].walletUpdated <=> session[t].success
    /\ session[t].walletUpdated
         <=> tx[t].status \in Applied /\ tx[t].kind = "DEPOSIT"
    /\ session[t].verified => tx[t].status # "PENDING"

(* What the gateway says never writes off money it took: a lost answer, a  *)
(* crash after the capture, or another callback that asks again leave the  *)
(* row PENDING or credit it.  A callback whose Status is not OK is         *)
(* believed without asking, so it alone cancels a captured payment.        *)
CaptureNotRefused ==
  [][\A t \in TxId :
       gateway[t] = "captured" /\ tx[t].status = "PENDING" =>
         \/ tx'[t].status \in {"PENDING", "SUCCESS", "EXPIRED"}
         \/ \E h \in Handler : CancelledByPayer(h) /\ handler[h].row = t]_vars

(* test_callback_view.py: "successful payment credits wallet".  Once its   *)
(* row is no longer PENDING, a captured payment is in the wallet.          *)
CapturedIsCredited ==
  \A t \in TxId :
    gateway[t] = "captured" => tx[t].status \in Applied \cup {"PENDING"}
=============================================================================
