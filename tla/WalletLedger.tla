---------------------------- MODULE WalletLedger ----------------------------
(***************************************************************************)
(* wallets/models.py (Wallet, WalletTransaction) and the services that     *)
(* write them: WalletService, TransferService, RefundService and           *)
(* CleanupService.  An action is one committed transaction.atomic() call;  *)
(* a call that raises rolls back and is no step.  Why a call may be taken  *)
(* as one step although it takes its row locks one after the other is      *)
(* WalletLocking's subject.                                                *)
(***************************************************************************)
EXTENDS Integers, Sequences

CONSTANTS Wallet,    \* wallets
          TxId,      \* primary keys WalletTransaction rows can get
          Amount,    \* amounts callers pass, in hundredths
          NoTx       \* the null value of a reference to a row

ASSUME AmountAssumption == Amount \subseteq Nat \ {0}
ASSUME NoTxAssumption == NoTx \notin TxId

VARIABLES balance,   \* Wallet.balance
          tx,        \* WalletTransaction, by primary key
          history    \* ghost: per wallet, its applied rows in commit order

ledgerVars == <<balance, tx, history>>

-----------------------------------------------------------------------------
(* Types *)

Kind == {"DEPOSIT", "WITHDRAW", "TRANSFER_IN", "TRANSFER_OUT", "PAYMENT",
         "REFUND", "SETTLEMENT"}

TransferKind == {"TRANSFER_IN", "TRANSFER_OUT"}

(* The kinds settle_pending_transaction tells apart.                       *)
PendingKind == {"DEPOSIT", "WITHDRAW", "PAYMENT"}

(* TransactionStatus.                                                      *)
Status == {"PENDING", "SUCCESS", "FAILED", "CANCELLED", "EXPIRED", "REFUNDED"}

Failure == {"FAILED", "CANCELLED", "EXPIRED"}

(* Rows whose effect on the balance has been booked.                       *)
Applied == {"SUCCESS", "REFUNDED"}

(* A settlement's amount carries no validator, so a row may hold any       *)
(* integer; ref is the reference column, the twin row of a transfer.       *)
Row == [wallet : Wallet, kind : Kind, amount : Int, before : Nat,
        after : Nat, status : Status, ref : TxId \cup {NoTx}]

(* A primary key not inserted yet.                                         *)
NoRow == [status |-> "ABSENT"]

AllowedTransitions ==
  {<<"PENDING", "SUCCESS">>, <<"PENDING", "FAILED">>,
   <<"PENDING", "CANCELLED">>, <<"PENDING", "EXPIRED">>,
   <<"SUCCESS", "REFUNDED">>}

TypeOK ==
  /\ balance \in [Wallet -> Nat]
  /\ tx \in [TxId -> Row \cup {NoRow}]
  /\ history \in [Wallet -> Seq(TxId)]

-----------------------------------------------------------------------------
(* Building blocks shared by the services *)

Fresh(t) == tx[t].status = "ABSENT"

NewRow(w, k, a, before, after, s, r) ==
  [wallet |-> w, kind |-> k, amount |-> a, before |-> before,
   after |-> after, status |-> s, ref |-> r]

(* Every balance the wallet has had: what the balance attribute of an      *)
(* instance some caller loaded earlier can hold.                           *)
SeenBalances(w) ==
  {0, balance[w]}
    \cup {tx[history[w][i]].after : i \in 1..Len(history[w])}

(* An instant operation: wallet w moves to after, booked by a new SUCCESS  *)
(* row.  The body of deposit, withdraw and SettlementService.pay.          *)
Book(w, t, k, a, after) ==
  /\ Fresh(t)
  /\ after >= 0
  /\ balance' = [balance EXCEPT ![w] = after]
  /\ tx' = [tx EXCEPT ![t] =
              NewRow(w, k, a, balance[w], after, "SUCCESS", NoTx)]
  /\ history' = [history EXCEPT ![w] = Append(@, t)]

Credit(w, t, k, a) == Book(w, t, k, a, balance[w] + a)

Debit(w, t, k, a) ==
  /\ balance[w] >= a
  /\ Book(w, t, k, a, balance[w] - a)

-----------------------------------------------------------------------------
(* Operations *)

Init ==
  /\ balance = [w \in Wallet |-> 0]
  /\ tx = [t \in TxId |-> NoRow]
  /\ history = [w \in Wallet |-> << >>]

(* WalletService.deposit, as called by the deposit view.                   *)
Deposit(w, t, a) == Credit(w, t, "DEPOSIT", a)

(* WalletService.withdraw; InsufficientBalanceError below the amount.      *)
Withdraw(w, t, a) == Debit(w, t, "WITHDRAW", a)

(* Mutant of Transfer: the source and destination check is gone.           *)
SelfTransfer(s, d, out, in, a) ==
  /\ out # in
  /\ Fresh(out) /\ Fresh(in)
  /\ balance[s] >= a
  /\ balance' = [balance EXCEPT ![s] = @ - a, ![d] = @ + a]
  /\ tx' = [tx EXCEPT
       ![out] = NewRow(s, "TRANSFER_OUT", a, balance[s], balance[s] - a,
                       "SUCCESS", in),
       ![in] = NewRow(d, "TRANSFER_IN", a, balance[d], balance[d] + a,
                      "SUCCESS", out)]
  /\ history' = [history EXCEPT ![s] = Append(@, out), ![d] = Append(@, in)]

(* Mutant of Transfer: the destination's new balance is never saved.       *)
LossyTransfer(s, d, out, in, a) ==
  /\ s # d /\ out # in
  /\ Fresh(out) /\ Fresh(in)
  /\ balance[s] >= a
  /\ balance' = [balance EXCEPT ![s] = @ - a]
  /\ tx' = [tx EXCEPT
       ![out] = NewRow(s, "TRANSFER_OUT", a, balance[s], balance[s] - a,
                       "SUCCESS", in),
       ![in] = NewRow(d, "TRANSFER_IN", a, balance[d], balance[d] + a,
                      "SUCCESS", out)]
  /\ history' = [history EXCEPT ![s] = Append(@, out), ![d] = Append(@, in)]

(* TransferService.transfer: both legs in one transaction, each row naming *)
(* the other as its reference.                                             *)
Transfer(s, d, out, in, a) ==
  /\ s # d
  /\ out # in
  /\ Fresh(out) /\ Fresh(in)
  /\ balance[s] >= a
  /\ balance' = [balance EXCEPT ![s] = @ - a, ![d] = @ + a]
  /\ tx' = [tx EXCEPT
       ![out] = NewRow(s, "TRANSFER_OUT", a, balance[s], balance[s] - a,
                       "SUCCESS", in),
       ![in] = NewRow(d, "TRANSFER_IN", a, balance[d], balance[d] + a,
                      "SUCCESS", out)]
  /\ history' = [history EXCEPT ![s] = Append(@, out), ![d] = Append(@, in)]

(* WalletService.create_pending_transaction takes no lock and copies the   *)
(* balance of the wallet instance it is handed, which may be out of date.  *)
CreatePending(w, t, k, a) ==
  /\ Fresh(t)
  /\ \E b \in SeenBalances(w) :
       tx' = [tx EXCEPT ![t] = NewRow(w, k, a, b, b, "PENDING", NoTx)]
  /\ UNCHANGED <<balance, history>>

(* The balance settle_pending_transaction leaves: PAYMENT rows were paid   *)
(* straight to an invoice and move nothing.                                *)
SettledBalance(t) ==
  LET before == balance[tx[t].wallet]
  IN  CASE tx[t].kind = "PAYMENT" -> before
        [] tx[t].kind \in {"WITHDRAW", "TRANSFER_OUT"} -> before - tx[t].amount
        [] OTHER -> before + tx[t].amount

(* Apply row t to its wallet, recording before as where it started.        *)
SettleRow(t, before) ==
  /\ balance' = [balance EXCEPT ![tx[t].wallet] = SettledBalance(t)]
  /\ tx' = [tx EXCEPT ![t].before = before,
                      ![t].after = SettledBalance(t),
                      ![t].status = "SUCCESS"]
  /\ history' = [history EXCEPT ![tx[t].wallet] = Append(@, t)]

(* Mutants of SettlePending: without the non-negative balance constraint,  *)
(* keeping the balance copied when the row was opened, and settling a row  *)
(* that is SUCCESS already.                                                *)
SettleUnchecked(t) ==
  tx[t].status = "PENDING" /\ SettleRow(t, balance[tx[t].wallet])

SettleStale(t) ==
  /\ tx[t].status = "PENDING" /\ SettledBalance(t) >= 0
  /\ SettleRow(t, tx[t].before)

SettleAgain(t) ==
  /\ tx[t].status \in {"PENDING", "SUCCESS"} /\ SettledBalance(t) >= 0
  /\ SettleRow(t, balance[tx[t].wallet])

(* WalletService.settle_pending_transaction.  A row already SUCCESS is     *)
(* returned as it is and any other terminal row raises: no step.           *)
SettlePending(t) ==
  /\ tx[t].status = "PENDING"
  /\ SettledBalance(t) >= 0
  /\ SettleRow(t, balance[tx[t].wallet])

(* Mutant of FailPending: no check for a terminal status.                  *)
FailTerminal(t, s) ==
  /\ ~Fresh(t)
  /\ tx' = [tx EXCEPT ![t].status = s]
  /\ UNCHANGED <<balance, history>>

(* WalletService.fail_pending_transaction, from a failed or cancelled      *)
(* gateway payment or (EXPIRED) from the clean-up task; a row already in a *)
(* terminal status is returned unchanged.                                  *)
FailPending(t, s) ==
  /\ tx[t].status = "PENDING"
  /\ tx' = [tx EXCEPT ![t].status = s]
  /\ UNCHANGED <<balance, history>>

(* RefundService._refund_core with a source row: credit any wallet any     *)
(* amount and retire the source.                                           *)
RefundSource(src, w, t, a) ==
  /\ tx[src].status = "SUCCESS"
  /\ Fresh(t)
  /\ balance' = [balance EXCEPT ![w] = @ + a]
  /\ tx' = [tx EXCEPT
       ![t] = NewRow(w, "REFUND", a, balance[w], balance[w] + a, "SUCCESS",
                     NoTx),
       ![src].status = "REFUNDED"]
  /\ history' = [history EXCEPT ![w] = Append(@, t)]

(* RefundService.refund_manual: no source row.                             *)
RefundManual(w, t, a) == Credit(w, t, "REFUND", a)

LedgerNext ==
  \/ \E w \in Wallet, t \in TxId, a \in Amount :
       \/ Deposit(w, t, a)
       \/ Withdraw(w, t, a)
       \/ RefundManual(w, t, a)
       \/ \E k \in PendingKind : CreatePending(w, t, k, a)
       \/ \E src \in TxId : RefundSource(src, w, t, a)
  \/ \E s, d \in Wallet, out, in \in TxId, a \in Amount :
       Transfer(s, d, out, in, a)
  \/ \E t \in TxId : SettlePending(t)
  \/ \E t \in TxId, s \in Failure : FailPending(t, s)

LedgerSpec == Init /\ [][LedgerNext]_ledgerVars

-----------------------------------------------------------------------------
(* Safety *)

(* A wallet's applied rows form an unbroken chain: the first starts from   *)
(* the wallet's zero balance, every later one from where its predecessor   *)
(* stopped, and the balance column is where the last one stopped.  Two     *)
(* calls interleaved on one wallet, or a pending row's stale copy of the   *)
(* balance surviving its settlement, would break it.                       *)
LedgerChain ==
  \A w \in Wallet :
    LET h == history[w] IN
    /\ h = << >> => balance[w] = 0
    /\ h # << >> => /\ tx[h[1]].before = 0
                    /\ tx[h[Len(h)]].after = balance[w]
    /\ \A i \in 1..(Len(h) - 1) : tx[h[i + 1]].before = tx[h[i]].after

(* Each row counts once: a row is SUCCESS or REFUNDED exactly if it moved  *)
(* its own wallet, and it did so at one place of the order.  A duplicate   *)
(* callback that settled twice, or a refund of a row that never moved      *)
(* money, would break it.                                                  *)
AppliedOnce ==
  /\ \A w \in Wallet : \A i \in 1..Len(history[w]) :
       /\ tx[history[w][i]].wallet = w
       /\ tx[history[w][i]].status \in Applied
       /\ \A j \in 1..Len(history[w]) :
            history[w][i] = history[w][j] => i = j
  /\ \A t \in TxId : tx[t].status \in Applied =>
       \E i \in 1..Len(history[tx[t].wallet]) : history[tx[t].wallet][i] = t

(* The two columns of an applied row differ by its amount, in the          *)
(* direction of its kind: "the new balance is always balance_before        *)
(* plus or minus amount" (wallet_service.py).                              *)
Effect(r) ==
  CASE r.kind = "PAYMENT" -> 0
    [] r.kind \in {"WITHDRAW", "TRANSFER_OUT", "SETTLEMENT"} -> -r.amount
    [] OTHER -> r.amount

RowArithmetic ==
  \A t \in TxId : tx[t].status \in Applied =>
    tx[t].after = tx[t].before + Effect(tx[t])

(* An applied leg of a transfer has a twin on another wallet, for the same *)
(* amount and the other direction, and each names the other.               *)
Paired(t) ==
  tx[t].status \in Applied /\ tx[t].kind \in TransferKind =>
    /\ tx[t].ref \in TxId
    /\ LET twin == tx[tx[t].ref] IN
       /\ twin.status \in Applied
       /\ twin.ref = t
       /\ twin.wallet # tx[t].wallet
       /\ twin.amount = tx[t].amount
       /\ twin.kind \in TransferKind \ {tx[t].kind}

(* A transfer leg never exists without its twin (TransferService.transfer  *)
(* writes both or none), also after one of them was refunded.              *)
TransfersPaired == \A t \in TxId : Paired(t)

(* A row's life follows ALLOWED_TRANSITIONS whichever services race on it, *)
(* and what was booked is never rewritten: wallet, kind and amount are     *)
(* fixed at insertion, before and after from the moment it is applied.     *)
RowStep(t) ==
  LET r == tx[t]
      n == tx'[t]
  IN  /\ r.status # "ABSENT" =>
           /\ n.status # r.status =>
                <<r.status, n.status>> \in AllowedTransitions
           /\ <<n.wallet, n.kind, n.amount, n.ref>>
                = <<r.wallet, r.kind, r.amount, r.ref>>
      /\ r.status \in Applied => n.before = r.before /\ n.after = r.after

RowLifecycle == [][\A t \in TxId : RowStep(t)]_ledgerVars

-----------------------------------------------------------------------------
(* The promise kept *)

(* The book a reader of the columns before and after sees.                 *)
BookOf ==
  [w \in Wallet |-> [i \in 1..Len(history[w]) |->
     [before |-> tx[history[w][i]].before,
      after |-> tx[history[w][i]].after]]]

Promise == INSTANCE AccountBook WITH book <- BookOf

(* Every committed call is one entry in one wallet's book, two entries     *)
(* that create and lose nothing, or no entry at all: WalletTransaction is  *)
(* "the single source of truth for every balance change".                  *)
ImplementsAccountBook == Promise!Spec
=============================================================================
