# VillaHub: formal models of the backend

VillaHub is a Django REST backend for gated communities: residents' wallets and
online payments, reservations of shared facilities, invoices, visitors and gate
control, chat and SMS.  This directory holds TLA+ models of the parts whose
correctness depends on the order in which things happen, the TLC configurations
that check them on small instances, and TLAPS proofs that hold for every value of
the constants.

    tlc -config MCWalletLedger.cfg MCWalletLedger.tla     # check a model
    tlapm WalletLedgerProofs.tla                          # check its proofs

Throughout, the database is PostgreSQL at READ COMMITTED (`config/settings.py:87`),
`ATOMIC_REQUESTS` is off, so every `transaction.atomic()` service call is a
transaction of its own and a view that makes two calls makes two transactions.

## 1. The system

| Part | State it keeps | Operations | What is hard |
|---|---|---|---|
| **Wallet ledger** (`wallets/services/wallet_service.py`, `transfer_service.py`, `refund_service.py`, `cleanup_service.py`) | `Wallet.balance`, `WalletTransaction` rows with balance before/after and a status | deposit, withdraw, transfer, open/settle/fail a pending row, refund, expire | concurrent calls on one wallet, stale copies of the balance, retried settlements, two-wallet atomicity, lock order |
| **Payouts** (`withdrawal_service.py`, `settlement_service.py`) | `WithdrawalRequest`, `Settlement` | create, approve, reject, pay | paying twice, several approvals for one balance |
| **REST updates** (`wallets/views.py`, `serializers.py`) | the same rows | PUT/PATCH | whole-row saves from instances loaded without a lock |
| **Online payment** (`payment_service.py`, `payment_gateways/`) | `GatewayTransaction`, `GatewayCallback`; the gateway's own state | open a session, callback, verify, clean up | lost/duplicate/late/forged callbacks, lost answers, crashes after capture, expiry racing a payment |
| **Reservations** (`reservations/`) | `Reservation`, `ReservationPayment`, `ReservationLog` | create, approve, reject, cancel, check in/out, pay, refund, two jobs | capacity under overlapping intervals, calls that work on stale instances |
| **Billing** (`billing/`) | invoices, items, discounts, penalties, payments, receipts, cycles | create, issue, cancel, pay, refund, charge, PUT, flag overdue, generate | totals read before the lock they are written under, a due date that moves the penalty, receipt and invoice numbers, a cycle run that breaks off |
| **Access control** (`access_control/`) | access passes and their audit trail | create, approve, reject, cancel, scan, check in/out, override, expire; PATCH; deletion of a gate | a PATCH that loaded the pass before it was used, expiry racing entry, refusals rolled back with their audit row |
| **Visitors, access logs, gates** (`visitors/`, `access_logs/`, `gates/`) | visitors, their history and vehicles, passage records, `Gate.is_active` | create, approve, reject, cancel, check in/out, record a passage, expire, open and close gates | every operation decides on and saves a loaded instance |
| **Guards** (`guards/`) | guards, shifts, postings, log | start/end shift, (de)activate, assign, PATCH | two shift starts at once, a deactivation next to a start |
| **Chat** (`chat/`) | messages, readers, the conversation, `is_online` | send, edit, mark, delete, archive, mute, connect, disconnect | whole-row saves, several sockets of one user, consumers and servers that die |
| **SMS** (`sms/`) | one-time codes, messages | generate, verify, send | two verifications of one code, a provider called inside the transaction |
| **Accounts** (`accounts/`) | invitations, users, memberships | invite, accept, choose the active township | acceptance in four writes without a transaction |
| **Maintenance** (`maintenance/`) | a request, its milestones, its history | create, assign, change status, PUT, DELETE | one operation in several commits, a deleted row saved again |
| **Villa residences** (`villas/`) | who lives in a villa and when | create, edit, delete | overlap checked before, and apart from, the save, on other dates than those saved |
| **Commissions, notifications, facilities, townships, dashboard** | their tables | CRUD | - |

How they interact: views call services synchronously; services share the database
and nothing else.  Wallets receive money from the gateway (callbacks handled by
`PaymentCallbackView`), refunds name invoices or reservations, an invoice can be
paid from a wallet; reservations read facilities' policies.  There are no queues:
the clean-up functions are plain functions with no schedule in the repository.

What makes each part correct:

* ledger: every balance is explained by an unbroken chain of rows; each row counts
  once; transfers are paired; statuses only move along `ALLOWED_TRANSITIONS`;
  concurrent calls are serializable and end;
* payouts: one ledger row per paid request or settlement, after an approval;
* online payment: credit only captured money, never lose track of captured money,
  session and row agree;
* reservations: the facility's policy holds at every moment, statuses and stays go
  forward, the payment columns agree with each other and cover the payments;
* billing: columns balance, totals equal what the rows say, receipts are numbered
  without gaps, a cancelled invoice stays cancelled, no residence is skipped by a
  cycle and none billed twice by a run that went well;
* access control: a pass admits one entry per approval, within its window and at its
  gate, and the trail explains the row; visitors: the row is what the last history
  entry left, and an undisturbed visit goes in order; guards: one open shift each,
  and the log counts the shifts;
* chat: marks stay, a user is online iff a socket is open; SMS: a code is accepted
  once; accounts: a used invitation is a complete account; maintenance: milestones
  and statuses are in the history; residences: one open-ended owner, no two tenants
  on a day.

Where the code does not keep such a property in every interleaving, the property
says in which ones it does, with a history variable that names the others
(`drifted`, `troubled`, `raced`, `staleDuty`, `shared`, `twice`, `hasty`, `behind`,
`lost`, `quitOne`, `unrecorded`, `edited`, `cascaded`): what is checked is that
nothing *else* breaks it.  The outcome named is then not ruled out by any property;
the `note` of a hazard in `PROJECT.json` says so where that is the case.

## 2. Modules

| Module | Models | Refines / uses |
|---|---|---|
| `AccountBook` | abstract: balances and per-wallet books | - |
| `WalletLedger` | the ledger's tables and services, one step per committed call | implements `AccountBook` |
| `WalletLedgerProofs` | its invariant and theorems | |
| `Payouts` | withdrawal requests and settlements | extends `WalletLedger`, implements `AccountBook` |
| `PayoutsProofs` | its invariant and theorems | extends `WalletLedgerProofs` |
| `RestUpdates` | PUT/PATCH next to the services | extends `Payouts` |
| `WalletLocking` | the services as transactions taking row locks | implements `WalletLedger` |
| `WalletLockingProofs` | its invariant and theorems | extends `WalletLedgerProofs` |
| `OnlinePayment` | the gateway, callbacks, handlers, clean-up | extends `WalletLedger` |
| `OnlinePaymentProofs` | its invariant and theorems | extends `WalletLedgerProofs` |
| `Sums` | the sum of a function's values, without recursion | - |
| `Reservation` | one facility's bookings, calls working on loaded instances | uses `Sums` |
| `ReservationProofs` | its invariant and theorems | |
| `AccessPass` | passes, their trail, PATCH, deletion of gates | - |
| `Visits` | visitors, passages, `is_active` of gates | - |
| `GuardDuty` | guards, shifts, postings | - |
| `GateHouse` | the three side by side | implements `AccessPass`, `Visits`, `GuardDuty` |
| `GateHouseProofs` | invariants and theorems of the three and of the whole | |
| `Billing` | one invoice with its charges, payments, receipts | uses `Sums` |
| `BillingRun` | the task that bills the residences of a cycle | - |
| `Invoicing` | the two side by side | implements `Billing`, `BillingRun` |
| `BillingProofs` | invariants and theorems of the two and of the whole | |
| `Chat` | one conversation and its messages | - |
| `Presence` | the sockets of one user and the online flag | - |
| `OneTimeCode` | codes, verifications, one text message | - |
| `Onboarding` | invitations and the accounts they become | - |
| `Maintenance` | one request with its milestones and history | - |
| `Residency` | the residences of one villa | - |
| `Community` | the six from `Chat` to `Residency` side by side | implements each |
| `CommunityProofs` | invariants and theorems of the six and of the whole | |

`GateHouse`, `Invoicing` and `Community` let components that share no variable move
in any order.  `MCGateHouse`, `MCBilling` and `MCCommunity` check them one component
at a time: their `FocusSpec` picks one in the initial state (`focus`) and lets only
that one move, so a run explores the sum of the state spaces and not the product.
Nothing is lost by it: each property of these runs speaks of one component, and each
of the compositions is proved to implement the specification of every component
(`HouseImplements`, `InvoicingImplements`, `CommunityImplements`).

`MC*.tla` give the constants values for TLC.  Operators commented "Mutant of ..."
are faulty variants of the definition that follows them, kept to show that a
property notices the fault; no specification uses them.

### How state and actions correspond to the code

`WalletLedger`: `balance[w]` is `Wallet.balance`; `tx[t]` a `WalletTransaction` by
primary key (columns wallet, type, amount, balance_before, balance_after, status,
and the reference of a transfer leg to its twin; a key not inserted yet is
`NoRow`).  `history` is a ghost: the rows that moved a wallet, in commit order,
which the code keeps implicitly in its timestamps.  Each action is a service method
run to its commit: `Deposit`, `Withdraw`, `Transfer`, `CreatePending`,
`SettlePending`, `FailPending`, `RefundSource`, `RefundManual`.  A call that raises
rolls back and is no step.  Amounts are integers (hundredths); every caller
serializer requires a positive amount.  `CreatePending` takes no lock and copies
the balance from an instance that may be old, so the model lets it copy any balance
the wallet has had.

`Payouts` adds the two tables; `paidRows[p]` is the set of rows whose description
names the payable.  `CreateRequest` compares with a balance but reserves nothing,
as in the code.  A settlement's amount has no sign check, so the instance includes
a negative one.

`RestUpdates` adds a load step and a save step for PUT/PATCH; the save writes the
columns a serializer may not edit as they were loaded, because `serializer.save()`
calls `save()` without `update_fields`.

`WalletLocking` replaces the one-step services by `Start`, `Acquire` (one row
lock each), `Commit` or `Rollback`, `AbortVictim`; `read[p]` is what the process
read under its locks and the only thing its writes are computed from.  The order of
a transfer's two locks is free, since its query has no `ORDER BY`.

`OnlinePayment` adds per row the session's three flags, the gateway's state and what
it captured, handlers in progress, and counts of answered callbacks and audit rows.
A handler locks the session (`Receive`), asks the gateway (`Ask`: the external
effect happens here and survives a rollback) and ends in `Accepted`, `Refused`,
`Raise`, `Replay`, `CancelledByPayer` or `Crash`.  `PaymentCallbackView` asks for no
authentication and passes on the `Status` it is sent, so `Receive` takes either
Status for any authority the gateway has given out, before the payer has paid as well
as after the capture; one that is not OK makes `CancelledByPayer` cancel the row, and
the gateway is not asked.

`Reservation`: `Create` is one step, as it runs under the facility's row lock.  All
other calls are `Load` (the view's `get_object()`, or a job's query, with the
method's check, which reads the loaded instance only) and a save.  `Approve`,
`Reject`, `Cancel` write every column as loaded except the status; `CheckIn`,
`CheckOut`, the jobs and `RegisterPayment` write the columns in their
`update_fields` only.  Time is a set of periods; what a job finds old enough is left
open; prices are any value of `Price`.  A payment's amount may have either sign, as
`register_payment` does not look at it; a refund's is positive.

`AccessPass`: every service method locks the row first, so each is one step on
`pass[p]`; `accessLog` is the audit trail.  A refusal raises inside the transaction
that wrote the DENIED row, so it leaves nothing and is no action.  The serializer's
PATCH is two steps, `LoadForUpdate` (the view's `get_object` and the check that the
pass is PENDING) and `SaveUpdate` (a `save()` of every column, with the gate and
window of the request).  `DeleteGate` is the `SET_NULL` of the pass's gate under the
`PROTECT` of the trail's.  `approvals` and `issuedFor` are history.

`Visits`: a request loads a visitor, or a gate, and later saves; the service between
is one transaction whose first write takes the row lock.  `record_passage` is the
entry and exit actions of the gates and the plain POST, with
`_sync_visitor_status`, which swallows a refusal.  Activating a gate writes one
column, renaming it writes all of them.  `GuardDuty` has the same shape for guards;
its `start_shift` can fail on the unique constraint, and `deactivate` keeps the
guard's row locked from its first write to its commit (`RowLocked`).

`Billing`: a job is a request or a task that has loaded the invoice.  `Read...`
steps run `recalculate_totals` on the rows as they are and on the *status and due date
as they were loaded*; `Write...` steps save the outcome.  Charges commit their row
before they read, payments and receipts appear with the write.  What a transaction
has written it holds until it ends (`pc = "saving"`; `RowFree` for the invoice,
`PaymentFree` for a payment).  A payment therefore sums the rows, waits for the
invoice's row (`SaveTotals`: `invoice.save`, then `next_receipt_number`) and commits:
two payments of one invoice get successive numbers, and the second commits sums
without the first.  Payments of other invoices take numbers of the same sequence
(`OtherReceipt`); `WritePayment` fails on a number already taken (the column is
unique).  `behind` says what another job has changed since (`"status"`: the sums were
read afterwards; `"sums"`: they were not).  `date` and `due` are days; items and
discounts are worth `Price`, penalties grow by 1 a day after `due`.  `PutInvoice` may
move `due_date` and recalculates nothing.

`BillingRun`: a run loads the due cycle, takes the residences in any order, reads
the next number and creates the invoice in two steps, and moves `next_run_date` on
when none is left.  A charge that raises (`uncomputable`, fixed in a behaviour), a
number another run took, or the death of the process breaks a run off, which leaves
the invoices and the date.  Number and period stand for the strings built of them.

`Chat`: every change of a message or of the conversation is a load and a save of the
whole row; `save()` of a row removed meanwhile inserts it, except that a message
whose conversation is gone violates its foreign key.  `is_starred` is no column, so
`star` saves the row unchanged.  `Presence`: a consumer joins the room and then sets
the flag, leaves it and then clears the flag.  An exception (`receive` catches none: a
text that is no JSON, a key or a row that is missing, an error of the database) ends
one consumer without its `disconnect` (`ConsumerDies`); its channel stays in the group
until the in-memory layer finds it expired (`ChannelExpires`).  `ServerDies` ends them
all, and the layer with them.  `send_message` takes the flags and readers of a new
message from the client, since its serializer leaves them writable.

`OneTimeCode`: `verify_otp` reads without a lock and writes in a second step;
`send_sms` is the provider's answer inside the open transaction and its commit or
end.  `Onboarding`: `AcceptOrder` is the order of the four writes, each its own
commit.  `Maintenance`: `change_status` is the service's two writes, then the view's
own two; `pc` says how far a clerk is.  POST and PUT take the status and the milestones
from the client (`Edits`), as the serializer leaves them writable; `change_status` takes
any text, so `Asked` has one that is no choice.  `DeleteTicket` takes the history rows
along, and a whole-row save after it inserts the row again (`SaveRow`), which runs the
signal of a creation.  `Residency`: `Validated` is the serializer's check,
`SaveResidence` the save; a PUT or PATCH without `end_date` is checked as open-ended
and keeps the end it had (`omitted`), so a row may end before it starts.

## 3. Runs

| Run | Bounds | Shows |
|---|---|---|
| `WalletLedger` | 2 wallets, 4 rows, amounts 1-2 | types, chain, applied once, arithmetic, pairs, row life cycle, implements `AccountBook` |
| `Payouts` | 1 wallet, 3 rows, amounts 1-2, 2 requests, 1 settlement of 1 or -1 | paid once, implements `AccountBook` |
| `WalletLocking` | 2 wallets, 2 rows, 2 processes | what is read under lock stays current, serializable, only transfers deadlock, every call ends |
| `OnlinePayment` | 1 wallet, 3 rows, amount 3 in units of 2, 2 handlers, 2 callbacks per session with any Status | credit needs capture, session agrees with row, captured money written off only by a callback that claims a cancellation |
| `Reservation` | 2 reservations, 2 periods, 2 villas, guests 1-2 of capacity 3, 2 payments of 2 on prices of 1, one handler | policy at every period, stay order, payments covered |
| `ReservationRaces` | 1 reservation, 2 handlers, 3 payments of -1 or 2, prices 0 and 2 | payment columns agree; checked out means COMPLETED |
| `GateHouse` | 1 pass, 2 gates, 1 PATCH, 3 instants, 2 trail rows, 2 approvals; 1 visitor, 2 requests, 4 history rows, 1 passage; 1 guard, 2 calls, 2 shifts | one entry per approval, the trail explains the pass, no mixed visitor row, visits in order, shifts agree with the log |
| `Billing` | 2 payments of 1, 2 jobs at once and 3 in all, 1 charge of a kind worth 2, 2 dates, 1 receipt of another invoice; 2 residences, 2 runs, 2 periods, 6 numbers | columns balance, totals drift only where named, receipts gapless, no period skipped, cancelled stays |
| `Community` | 2 messages, 2 jobs; 3 sockets, 4 connections; 2 codes of 2 values, 2 verifications; 2 clerks, 3 changes, 1 choice and 1 text that is none, 1 milestone sent; 2 invitations, mobiles and townships, 2 requests; 2 homes, 2 movers, 2 days | marks stay, presence follows sockets, codes once, history of tickets, accounts complete, residents apart |
| `StaleWalletSave` (violation) | 1 wallet | a PATCH undoes a deposit |
| `CapturedIsCredited` (violation) | as `OnlinePayment` | captured money without credit after the clean-up task |
| `DoubleBooking` (violation) | 2 reservations, 2 handlers | a stale approval double-books |

Why the bounds are enough: two wallets let a transfer, a refund to another wallet
and an innocent bystander occur; four rows hold a transfer and its refund, or a
pending row among others.  In `Payouts` a deposit of 2 leaves enough to pay a request
of 1 twice, and two requests and a settlement compete for one balance.  `WalletLocking` needs two processes for every cycle or
stale read between two calls, and two rows because no call writes more than two.  In
`OnlinePayment` amount 3 in units of 2 is the truncation case, two handlers and two
callbacks the duplicate, the race, and the false cancellation after a lost capture.  In `Reservation` bookings of one and of both
periods overlap partly; rows only meet in `Create`, so two rows and one handler
show what a third would repeat; overlapping calls interfere on one row.  In `GateHouse`
no action of `AccessPass` looks at two passes except `expire_passes`, which treats
them alike; two trail rows hold an entry and an exit, or an entry and a second one
after a stale PATCH and a second approval; three instants are before, in and after a
window.  Four history rows take a visitor from creation to exit, or off that path.
In `Billing` two jobs make every race of a pair, and a third shows what the row
they leave does next; two payments of 1 on an invoice of 2, whose item may go and
whose penalty may come, overpay, pay exactly or pay in part; two dates are a due date
that passes, or that a PUT moves over the date, and one foreign receipt takes a number
a payment has read; two residences and two periods let a run break off
between two invoices, be repeated, and be followed by the next period.  In
`Community` three sockets are one that closes, one that stays and one that opens in
between; two requests at once are enough for every race named by a property, and two
chat jobs in all are one that loads and one that overtakes it.
The bounds in the guards are `MaxCallbacks`, `MaxReservations`, `MaxPayments`,
`MaxTime`, `MaxRows`, `MaxApprovals`, `MaxHistory`, `MaxRecords`, `MaxShifts`,
`MaxEvents`, `MaxJobs`, `MaxCharges`, `MaxOthers`, `LastDate`, `MaxDay`, `MaxInvoices`, `MaxLoads`,
`MaxConnects`, `MaxCodes`, `MaxClock`, `MaxChanges` (and one vehicle per visitor, one
log row of each kind that is not about shifts); the other tables are bounded by
their sets of keys.  Symmetry is used for keys no module tells apart, and not in the
run that checks liveness.  Deadlock is not checked because the bounded tables fill
up.

Fairness (`WalletLocking` only): a handler that holds all its locks commits or ends
(weak fairness on that step: the code has no unbounded loop there), a waiter on a
row is served if the row becomes free again and again (strong fairness: PostgreSQL
queues waiters), and the deadlock detector runs (weak).  No fairness is assumed of
clients: no call must ever be made.  Nothing else gets a liveness property.  The
repository has no schedule for its periodic tasks, so no fairness is justified for
them; and two billing runs at once may keep breaking each other off over the same
invoice number, or meet the same residence whose charge raises, for ever, so that
"every due period is billed in the end" is not a promise of this code.

### What the violations show

* **`EveryChangeBooked`** - `WalletViewSet` routes PUT/PATCH: an update that loaded
  the wallet before a deposit and saves after it restores the old balance.
* **`CapturedIsCredited`** - clean-up expires a row without asking the gateway; the
  later redirect captures the money, then raises on the EXPIRED row and rolls back.
* **`WithinPolicy` with two handlers** - an approval decided on an instance loaded
  before a rejection revives the reservation after its time was given to another.

Seen while modelling, and not runs of their own: the same stale PATCH on a request or
settlement loaded as APPROVED lets it be paid a second time (`wallets/views.py:224`);
opposite transfers can wait for each other, because `transfer_service.py` sorts the
ids and the locking query has no `ORDER BY` (the database aborts a victim:
`OnlyTransfersDeadlock`, `CallsEnd`); the audit row of a callback is rolled back with
the exception that reports an unreachable gateway (`payment_service.py:180`);
`refund_automatic` credits a row that was itself a credit (`refund_service.py:158`);
two references made at once carry the same daily number (`reference.py:35`);
approving a withdrawal reserves nothing (`withdrawal_service.py:111`).

## 4. Proofs

`WalletLedgerProofs` proves `LedgerInvariant`: `LedgerSpec => []IInv`, by one step
lemma per kind of action.  None of the ledger's invariants is inductive alone:
that `before`/`after` chain up in `history` needs that each row appears once in one
history, that it is applied exactly then, and that types keep balances natural.
`IInv` is the conjunction of `TypeOK`, `PendingKinds` (only deposits, withdrawals and
payments are ever pending), `LedgerChain`, `AppliedOnce`, `RowArithmetic` and
`TransfersPaired`.  Most actions have the shape of
`Book` (append one new applied row, move one balance) or change no history at all,
so lemmas about those two shapes (`BookStep`, `QuietStep`) carry most cases;
`TransferStep`, `SettlePendingStep` and `RefundSourceStep` are separate.  From `IInv`
follow the invariants, the action property `RowLifecycle`, and the refinement: the
initial state maps to `AccountBook`'s, and each step is `Post`, `Move` or a stutter
of the book read off the columns.

`PayoutsProofs` reuses those lemmas for the ledger half of each step and adds
`PayoutInv`: `IInv`, the payout types and `PaidOnce`, the uniqueness part of which
needs that a fresh row is in no `paidRows` (applied rows only).

`WalletLockingProofs` proves, for any number of processes, wallets and rows, that
`WalletLocking` implements `WalletLedger` (`LockingSerializable`).  `LockInv` says how
far each call is along one of its lock orders (`CallOK`: the rows it has read are the
first of the order, the rest is its plan), that it owns exactly the rows it has read
(`Holds`), and that what it read is what the rows contain (`Current`).  The last part
is inductive because a commit writes rows its process owns, and no two own one row;
the exception is a new row of the ledger, which nobody has read, since calls name
rows that exist.  Then a commit computes from current values, and is one step of
`WalletLedger` (one lemma per kind of call).  For `settle_pending_transaction` the
second lock is on the wallet its first row names, so the proof needs that no call
ever rewrites a row's wallet.  `DeadlocksAreTransfers`: a call
that is waited for and waits itself has locked the first of two rows and waits for a
wallet (`WaitingHolder`); the call that holds this wallet, and waits too, is a transfer,
since no other call locks a wallet before something else; it waits for a wallet in its
turn, and whoever holds that one is a second transfer.

`OnlinePaymentProofs` proves the three invariants of `OnlinePayment` for any number
of rows, handlers and callbacks and for any unit of the gateway's currency.  The
gateway's view of a payment only moves forward (`Forward`), so what a handler learned
when it asked still holds when it commits (`HandlerOK`).
`PaymentOK` relates, for one payment, the row, the session's flags and the gateway;
`OneHandler` says that the lock of the session leaves it one handler.  The ledger's
half of each step reuses `IInv`.  The clean-up expires rows and asks nobody, which
`PaymentOK` allows: it is the case `CapturedIsCredited` fails for.

`ReservationProofs` proves that the payment columns of a row agree, for any number
of overlapping calls: the invariant adds that the columns of every *loaded instance*
agree too and have the row's total, since full saves write them back and payments
compute from them (`ColumnsInv`).  With no expiry job among the operations, a
checked-out reservation is COMPLETED (`CompletedInv`): the calls that write a whole
instance back hold one that nobody had left, because they refuse a COMPLETED one.
The policy, the order of a stay, the cover of the payments and the life cycle of the
status are broken by overlapping calls (the run `DoubleBooking` shows it for the
first), so they are theorems about calls handled one at a time: `\A g, h \in Handler :
g = h`, for any number of reservations, periods, villas and amounts.  `SerialInv`
adds that the instance a call holds is the row as it is, and was accepted
(`RowsInHand`), so a save changes a row along one of the ways of `MovesOn`, none of
which takes room (`TakesNoMore`).  That a booking which fitted still fits then rests
on the sums of the guests not growing, and `PaidCoversRows` on the sum of the rows
growing by what one payment moves: `Sums` counts units, so that both are facts
about cardinalities and not inductions.

What overlapping calls can do to the policy is proved as well: the only step that
takes a facility beyond it is an approval of an instance loaded before its row was
turned down (`OverbookedByApproval`), so without approvals the policy holds for any
number of overlapping calls (`NoApprovalNoOverbooking`).  The invariant is
`CopiesInv`: a booking's villa, periods and guests are fixed when it is made, so a
loaded instance agrees with its row on them; every save but an approval leaves an
active row's room as it was or gives it back, and a creation counts under the lock.

`GateHouseProofs`, access passes.  `EntryNeedsApproval` is not inductive: a PATCH
might write an APPROVED status back.  The missing part is `EditsPending`: what a
PATCH has loaded is a PENDING row, so a save can only take the approval away, and the
count of entries plus the one the pass is good for stays within the approvals.
`LogExplainsPass` needs in addition that such a row shows no entry (`EditsFresh`),
unless a manager overrode the pass, and that the gate a pass was issued for and has
lost is a deleted one (`Told`).

`GateHouseProofs`, visits.  A save writes a whole row that some request loaded, so
what holds of the columns of a row must hold of every row under way (`LoadedFit`).
`StatusHasHistory` says that the last entry of the history that moved the visitor
left the status (`Explained`), which every save keeps because it writes its entry in
the same transaction.  `UnracedVisitInOrder` needs to know how far the history has
got: `Course` says that steps 1 to n are there exactly when the status is the n-th.
It is only said of visitors never `raced`, for whom the row saved over is the row
that was loaded.

`GateHouseProofs`, guards.  A shift call writes what it read before: the shift may
have been closed since, or be no longer the latest.  `DutyInv` adds `ReadShiftExists`
(what was read is still one of the guard's rows, since none is deleted; a call that
starts one had found the guard active), and keeps for every guard that one shift is
open at most, by the database's constraint.  With one open shift, `current_shift` is
that shift, so a call that is not stale closes exactly it, and each closed shift has
its LOGOUT row; a stale one can only log too many.

`BillingProofs`, the invoice.  `BillInv` says what each job has in hand, by how far
the job is `behind`: a row that was read is balanced (`Balance`), is the sum of the
rows as they are unless the sums have moved (`JobCurrent`), counting the payment the
job itself is about to settle (`Seen`), and has a status that follows from its columns
(`Decided`).  `Receipts` adds that a payment about to be settled has a receipt or a
number no greater than the next one; the column is unique, so a write that succeeds
uses the next number, and no gap can open.  `TotalsMatchRows` is then inductive, and
`CancelledStays` follows from what a job knows of a cancelled invoice.

`BillingProofs`, the cycle.  A run moves `next_run_date` on from the date it *loaded*,
so a slow run may set it back behind periods a faster one has billed; what is needed
is therefore said of every run and not only of the cycle.  `RunInv` adds to the types
that every period before the cycle's date and before a run's own is billed, and so is
what a run has taken off its `todo` (`BehindBilled`); that what lies ahead of the
cycle and of every run is not billed yet (`AheadUnbilled`); and that a period that is
not `troubled` has one run, which has not billed what is still in its `todo`
(`OneRun`), whence no residence has two invoices of it (`BilledOnce`).

`CommunityProofs`, accounts.  The four writes of an acceptance have one guard, the
unique mobile of the first.  `Progress` says of every request what exists at its
stage; `OnePerMobile`, that one request gets past the first write of a mobile, so the
township it joins is the mobile's only one; and a mobile with a user is never accepted
again.  `InviteInv` says that an invitation in the making has no open rival and is the
only one being made, unless two were checked at once.

`CommunityProofs`, chat.  `MarksStay` is a property of steps.  It needs that a job
which is not behind holds the row as it is (`UpToDate`): then what it saves has every
mark the row had, and only a job that had been overtaken can undo one.  That every
save and removal marks the others that hold the row (`Overtaken`) keeps `UpToDate`.

`CommunityProofs`, the others.  `PresenceHasSocket` is inductive with its types.
`CodeAcceptedOnce` needs that a code never shared has one holder at most, and is not
accepted while it is held (`UnsharedHeldByOne`).  `TicketTrail` needs that what a
clerk has *loaded* obeys the rule for milestones too, since whole rows are saved back,
also after a DELETE (`ClerksSound`).  `OneResidentAtATime` needs that the row the only mover is about
to save fits the villa (`OneMoverFits`; with the end it had, it takes no more days than
the open-ended one that was checked): between its check and its save only a
deletion can happen, which makes room, or else two movers overlap.

The three compositions.  A step of a composition is a step of one component and
leaves the others' variables alone, so it is a step or a stutter of each
(`HouseMoves` and its like); the specification of each component follows, and with it
every theorem about the component.  `GateHouseTypeOK`, `BillingTypeOK` and
`CommunityTypeOK` are proved of the compositions from the invariants of the parts.
Some bounds are not inductive by themselves: that a run's number stays in its range
needs that there are no more invoices than numbers (`RunShape`).

Assumptions: the named ASSUMEs of the modules (positive amounts, null values outside
the sets of keys, disjoint key sets, bounds that are numbers, a finite set of keys for
the payments of an invoice, a process name that owns no row, operations and statuses
that exist), which TLC evaluates for the instances it checks; nothing about sizes.
One hypothesis stands in theorems and not in a module: calls handled one at a time, in
the theorems of `ReservationProofs` named above that say so.  It is the hypothesis of the run
`Reservation`, which has one handler; `DoubleBooking` is what happens without it.

Every invariant and every action property of a passing run is a theorem.  Only
model-checked: `CallsEnd` (liveness is out of the prover's reach), that `SumOf` is
what a fold computes (`SumsAreFolds` of `MCBilling`, over small functions: for all
functions it is an induction over data), and what the violation runs show, where
`RestUpdates` has no other run.

## 5. Not modelled

* `CommissionService`, the gateway stubs other than ZarinPal, the reference
  generator's text, the Django admin, permissions and serializers' formatting.
* `handle_callback`'s invoice branch: no caller opens a pending row with an
  invoice.  `retry_failed_gateway_transactions` and `auto_settle_wallets` are stubs.
* DELETE of wallet rows through the REST viewsets.
* DELETE of an invoice, and PUT, PATCH and DELETE of a billing cycle or a charge rule:
  a PATCH of `next_run_date` (`billing/views.py:71`) moves the cycle as the client
  likes, past residences not billed too, so `EveryPeriodBilled` is about the task alone.
* Of reservations: the price formula, working hours, slots, durations, late
  charges and penalties (pure computations on the request), the log table, and
  edits of a facility's policy while it has reservations.
* Of billing: rates, formulas, rounding, number prefixes, reports; a wallet payment
  is modelled on the invoice's side, and its debit is `WalletLedger`'s `Withdraw`.
* Of access control: QR images and reports.  Of visitors: DELETE (a save of an
  instance loaded before it inserts the row again, as in `Chat`) and edits of names
  and times.  Guards and gates are given, not created.
* Of chat: the socket's broadcasts, on which no state depends (the sends for the
  `message` and `delete` actions stand after the `return` of the `forward` branch in
  `consumers.py:162`, so these two are saved and never broadcast), typing, search,
  and changes of members.
* Of SMS: the provider's codes.  The variables of one text message (`sms`,
  `provider`) carry no property: that a call made inside a transaction that is then
  rolled back sends a text without a row is in the model (`SendDies`), and nothing in
  the code promises otherwise.
* Of accounts: login, tokens, roles.  Of maintenance: comments, attachments,
  ratings (inserts).  Of villas: everything but residences.
* Notifications (inserts and read marks; the tasks that would send them have no
  caller), facilities, townships, the dashboard, settings: CRUD and summaries.

## 6. Plan

1. Proofs about overlapping calls of `Reservation`, as `OverbookedByApproval` does it
   for the policy: which step alone breaks `StayInOrder`, and which `PaidCoversRows`.
2. What `RestUpdates` keeps although a PATCH may break `EveryChangeBooked`: the rows of
   the ledger.
3. Compose `Billing`'s `pay_from_wallet` with `WalletLedger`: one debit for every
   wallet payment of an invoice.
4. `Visits` with DELETE; `AccessPass` with two passes in the trail.
