------------------------------- MODULE Billing -------------------------------
(***************************************************************************)
(* One invoice (billing/): its items, discounts, penalties and payments,   *)
(* the totals and status kept on its row, and the receipts.                *)
(*                                                                         *)
(* A job is a request or a task.  It loads the instance, and its service   *)
(* works on that instance: recalculate_totals sums the rows, keeps or      *)
(* replaces the status it has loaded, and writes both.  Nothing is locked  *)
(* before it is written, so read and write are two steps.  record_payment, *)
(* mark_success, refund and issue are transactions: their own rows appear  *)
(* when they commit, and from its first write a row is theirs alone.  The  *)
(* charges are not: their row is there before the totals are.              *)
(*                                                                         *)
(* Receipt numbers are shared with the payments of the other invoices,     *)
(* which are no more here than the numbers they take.                      *)
(***************************************************************************)
EXTENDS Naturals, FiniteSets, FiniteSetsExt, Sums

CONSTANTS Payments,      \* payments that may be recorded
          NoPayment,     \* a job about no payment
          Jobs,          \* requests and tasks that may be under way at once
          Price,         \* the amount of an item
          Amounts,       \* amounts of a payment
          MaxJobs,       \* bound on the jobs of a behaviour
          MaxCharges,    \* bound on the rows of each kind of charge
          MaxOthers,     \* bound on the receipts of the other invoices
          LastDate       \* bound on the dates, counted in days

ASSUME BillingAssumption == /\ IsFiniteSet(Payments)
                            /\ NoPayment \notin Payments
                            /\ Price \in Nat \ {0}
                            /\ Amounts \subseteq Nat \ {0}
                            /\ MaxJobs \in Nat
                            /\ MaxCharges \in Nat
                            /\ MaxOthers \in Nat
                            /\ LastDate \in Nat

VARIABLES invoice,       \* the invoice row, or NoInvoice
          charge,        \* how many items, discounts and penalties it has
          payment,       \* each payment: [status, amount], or NoRow
          receipt,       \* the receipt number of each payment, 0 for none
          others,        \* the receipt numbers of the other invoices' payments
          date,          \* the local date
          job,           \* what each job under way has read
          started,       \* how many jobs have begun
          drifted        \* history: the row was last written by a job that another had
                         \* overtaken, or something the totals sum changed without them

billVars == <<invoice, charge, payment, receipt, others, date, job, started, drifted>>

InvoiceStatus == {"draft", "issued", "partially_paid", "paid", "overdue", "cancelled"}
PaymentStatus == {"pending", "success", "failed", "refunded"}
Dates == 0 .. LastDate
Columns == [subtotal : Nat, discount : Nat, penalty : Nat, total : Nat, paid : Nat, remaining : Nat]
Unread == [subtotal |-> 0, discount |-> 0, penalty |-> 0, total |-> 0, paid |-> 0, remaining |-> 0]
InvoiceRow == [status : InvoiceStatus, due : Nat, col : Columns]
NoInvoice == [status |-> "none"]
NoRow == [status |-> "none"]
ChargeKind == {"item", "discount", "penalty"}

ChargeOp == {"add_item", "remove_item", "apply_discount", "apply_penalty"}
PaymentOp == {"mark_success", "mark_failed", "refund"}
InvoiceOp == {"issue", "cancel", "flag_overdue", "pay_from_wallet", "put", "record_payment"}
Idle == [op |-> "none"]

BillInit == /\ invoice = NoInvoice
            /\ charge = [k \in ChargeKind |-> 0]
            /\ payment = [m \in Payments |-> NoRow]
            /\ receipt = [m \in Payments |-> 0]
            /\ others = {}
            /\ date = 0
            /\ job = [j \in Jobs |-> Idle]
            /\ started = 0
            /\ drifted = FALSE

-----------------------------------------------------------------------------
\* Mutant of _calculate_discount_total: the discount is not capped.
UncappedDiscount(c) == c["discount"] * Price
\* Every discount is worth one item.
_calculate_discount_total(c) ==
    LET given == c["discount"] * Price
        subtotal == c["item"] * Price
    IN  IF given < subtotal THEN given ELSE subtotal

DaysLate(due) == IF due < date THEN date - due ELSE 0

\* Every penalty is a daily one of 1, as the automatic ones are.
_calculate_penalty_total(c, late) == c["penalty"] * late

Paid(pm) == SumOf([m \in {m \in Payments : pm[m].status = "success"} |-> pm[m].amount])

\* Mutant of Remaining: an overpayment is owed back.
Owed(total, paid) == total - paid
Remaining(total, paid) == IF paid < total THEN total - paid ELSE 0

Totals(c, pm, late) ==
    LET discount == _calculate_discount_total(c)
        penalty == _calculate_penalty_total(c, late)
        total == (c["item"] * Price - discount) + penalty
    IN  [subtotal |-> c["item"] * Price, discount |-> discount, penalty |-> penalty,
         total |-> total, paid |-> Paid(pm),
         remaining |-> Remaining(total, Paid(pm))]

is_overdue(status, late) == status \in {"issued", "partially_paid"} /\ late > 0

\* Mutant of NewStatus: a cancelled invoice gets a status from its payments.
StatusFromMoney(status, col, late) ==
    IF status = "draft" THEN status
    ELSE IF col.remaining = 0 THEN "paid"
    ELSE IF col.paid > 0 THEN "partially_paid"
    ELSE IF is_overdue(status, late) THEN "overdue" ELSE "issued"
\* Mutant of NewStatus: a paid invoice is as final as a cancelled one.
PaidIsFinal(status, col, late) ==
    IF status \in {"draft", "cancelled", "paid"} THEN status
    ELSE IF col.remaining = 0 THEN "paid"
    ELSE IF col.paid > 0 THEN "partially_paid"
    ELSE IF is_overdue(status, late) THEN "overdue" ELSE "issued"
NewStatus(status, col, late) ==
    IF status \in {"draft", "cancelled"} THEN status
    ELSE IF col.remaining = 0 THEN "paid"
    ELSE IF col.paid > 0 THEN "partially_paid"
    ELSE IF is_overdue(status, late) THEN "overdue" ELSE "issued"

\* What recalculate_totals makes of an instance loaded with this status and due_date.
recalculate_totals(status, due, c, pm) ==
    LET col == Totals(c, pm, DaysLate(due))
    IN  [status |-> NewStatus(status, col, DaysLate(due)), due |-> due, col |-> col]

\* Another job has written: what the jobs under way have read is no longer current.
Overtake(j) == [i \in Jobs |-> IF i # j /\ job[i] # Idle THEN [job[i] EXCEPT !.behind = "sums"]
                               ELSE IF i = j THEN Idle ELSE job[i]]

\* The sums job b has just read are current, if its due_date is; the status may not be.
AfterRead(b) == IF b.behind = "nothing" THEN "nothing"
                ELSE IF b.row.due # invoice.due THEN "sums" ELSE "status"

\* The row of the invoice and that of a payment are not held by another transaction.
RowFree(j) == \A i \in Jobs \ {j} : job[i] # Idle => job[i].pc # "saving"
PaymentFree(j) ==
    \A i \in Jobs \ {j} :
       job[i].op \in {"mark_success", "refund"} /\ job[i].pc # "loaded" => job[i].pay # job[j].pay

\* create_invoice: the invoice, and an item if there is one; one transaction.
create_invoice ==
    /\ invoice = NoInvoice
    /\ \E due \in Dates, items \in {0, 1} :
          /\ charge' = [charge EXCEPT !["item"] = items]
          /\ invoice' = recalculate_totals("draft", due, charge', payment)
    /\ UNCHANGED <<payment, receipt, others, date, job, started, drifted>>

-----------------------------------------------------------------------------
(* A job loads the invoice, and the payment it is about.  The checks on what it loads are *)
(* made here: it does not change any more.  The columns are kept by the jobs that use them. *)
Loaded(op, m) ==
    [op |-> op, pc |-> "loaded", pay |-> m, behind |-> "nothing", number |-> 0,
     amount |-> IF m = NoPayment THEN 0 ELSE payment[m].amount,
     row |-> [status |-> invoice.status, due |-> invoice.due,
              col |-> IF op \in {"record_payment", "pay_from_wallet", "put"} THEN invoice.col
                      ELSE Unread]]

Begins(j) == job[j] = Idle /\ started < MaxJobs /\ started' = started + 1

LoadInvoice(j, op) ==
    /\ Begins(j)
    /\ invoice # NoInvoice
    /\ op = "issue" => invoice.status = "draft"
    /\ op = "cancel" => invoice.status # "paid"
    /\ op = "flag_overdue" => invoice.status \in {"issued", "partially_paid"}
    /\ op = "pay_from_wallet" => invoice.col.remaining > 0
    /\ job' = [job EXCEPT ![j] = Loaded(op, NoPayment)]
    /\ UNCHANGED <<invoice, charge, payment, receipt, others, date, drifted>>

\* mark_success takes a payment in any other status, refund a successful one, mark_failed any.
LoadPayment(j, m, op) ==
    /\ Begins(j)
    /\ payment[m] # NoRow
    /\ op = "mark_success" => payment[m].status # "success"
    /\ op = "refund" => payment[m].status = "success"
    /\ job' = [job EXCEPT ![j] = Loaded(op, m)]
    /\ UNCHANGED <<invoice, charge, payment, receipt, others, date, drifted>>

At(j, ops, pc) == job[j].op \in ops /\ job[j].pc = pc

Charged(op) == CASE op = "add_item" -> [charge EXCEPT !["item"] = @ + 1]
                 [] op = "remove_item" -> [charge EXCEPT !["item"] = @ - 1]
                 [] op = "apply_discount" -> [charge EXCEPT !["discount"] = @ + 1]
                 [] op = "apply_penalty" -> [charge EXCEPT !["penalty"] = @ + 1]

\* The charge's row is written and the rows are summed.
ReadCharge(j) ==
    /\ At(j, ChargeOp, "loaded")
    /\ job[j].op = "remove_item" => charge["item"] > 0
    /\ charge' = Charged(job[j].op)
    /\ \A k \in ChargeKind : charge'[k] <= MaxCharges
    /\ job' = [Overtake(j) EXCEPT ![j] =
          [job[j] EXCEPT !.pc = "read", !.behind = AfterRead(job[j]),
                         !.row = recalculate_totals(@.status, @.due, charge', payment)]]
    /\ drifted' = TRUE
    /\ UNCHANGED <<invoice, payment, receipt, others, date, started>>

\* The status is written first, and the row held while the sums are read.
ReadIssue(j) ==
    /\ At(j, {"issue"}, "loaded")
    /\ RowFree(j)
    /\ job' = [job EXCEPT ![j].pc = "saving", ![j].behind = AfterRead(job[j]),
                          ![j].row = recalculate_totals("issued", @.due, charge, payment)]
    /\ UNCHANGED <<invoice, charge, payment, receipt, others, date, drifted, started>>

\* PaymentService.record_payment refuses an amount that is not positive or exceeds what remains.
WithinRemaining(amount, remaining) == amount > 0 /\ amount <= remaining

\* The payments as the transaction sees them after its own change.
SettledPayments(j, m, amount) ==
    [payment EXCEPT ![m] = [status |-> IF job[j].op = "refund" THEN "refunded" ELSE "success",
                            amount |-> amount]]

ReadPayment(j, m, amount) ==
    /\ job' = [job EXCEPT
          ![j].pc = "read", ![j].behind = AfterRead(job[j]), ![j].pay = m, ![j].amount = amount,
          ![j].row = recalculate_totals(@.status, @.due, charge, SettledPayments(j, m, amount))]
    /\ UNCHANGED <<invoice, charge, payment, receipt, others, date, drifted, started>>

\* record_payment of a successful payment, within the remaining amount as loaded.
ReadNewPayment(j) ==
    /\ At(j, {"record_payment"}, "loaded")
    /\ \E m \in Payments, amount \in Amounts :
          /\ payment[m] = NoRow
          /\ \A i \in Jobs : job[i].op = "record_payment" => job[i].pay # m   \* a fresh row
          /\ WithinRemaining(amount, job[j].row.col.remaining)
          /\ ReadPayment(j, m, amount)

\* The payment's status is written first, and its row held from then on.
ReadOldPayment(j) ==
    /\ At(j, {"mark_success", "refund"}, "loaded")
    /\ PaymentFree(j)
    /\ ReadPayment(j, job[j].pay, job[j].amount)

\* next_receipt_number: one more than the last receipt there is.
next_receipt_number == Max({0} \cup others \cup {receipt[m] : m \in Payments}) + 1

\* The write of the totals waits for the invoice's row and holds it; only then is the number
\* of the receipt read, which a refund does not need and a payment may have.
SaveTotals(j) ==
    /\ At(j, {"record_payment", "mark_success", "refund"}, "read")
    /\ RowFree(j)
    /\ job' = [job EXCEPT
          ![j].pc = "saving",
          ![j].number = IF job[j].op = "refund" \/ receipt[job[j].pay] # 0 THEN 0
                        ELSE next_receipt_number]
    /\ UNCHANGED <<invoice, charge, payment, receipt, others, date, drifted, started>>

\* A payment of another invoice gets its receipt.
OtherReceipt ==
    /\ Cardinality(others) < MaxOthers
    /\ others' = others \cup {next_receipt_number}
    /\ UNCHANGED <<invoice, charge, payment, receipt, date, job, drifted, started>>

\* What is written of the row a job has in hand: all but its due_date.
Written(j) == [job[j].row EXCEPT !.due = invoice.due]

\* The totals and the status are written and committed.
WriteTotals(j) ==
    /\ \/ At(j, ChargeOp, "read") /\ RowFree(j)
       \/ At(j, {"issue"}, "saving")
    /\ invoice' = Written(j)
    /\ drifted' = (job[j].behind = "sums")
    /\ job' = Overtake(j)
    /\ UNCHANGED <<charge, payment, receipt, others, date, started>>

\* Mutant of Receipted: a refunded payment loses its receipt.
Withdrawn(j) == [receipt EXCEPT ![job[j].pay] = IF job[j].op = "refund" THEN 0
                                                ELSE IF @ = 0 THEN job[j].number ELSE @]
\* get_or_create: the receipt the payment has, were it made meanwhile, or a new one.
Receipted(j) == [receipt EXCEPT ![job[j].pay] = IF @ = 0 THEN job[j].number ELSE @]

Collides(j) == /\ job[j].number # 0
               /\ receipt[job[j].pay] = 0
               /\ job[j].number \in others \cup {receipt[m] : m \in Payments}

\* The totals, the payment and its receipt are committed.
WritePayment(j) ==
    /\ At(j, {"record_payment", "mark_success", "refund"}, "saving")
    /\ ~Collides(j)
    /\ invoice' = Written(j)
    /\ payment' = SettledPayments(j, job[j].pay, job[j].amount)
    /\ receipt' = Receipted(j)
    /\ drifted' = (job[j].behind = "sums")
    /\ job' = Overtake(j)
    /\ UNCHANGED <<charge, others, date, started>>

\* A payment recorded as pending sums to nothing.
RecordPending ==
    /\ invoice # NoInvoice
    /\ \E m \in Payments, amount \in Amounts :
          /\ payment[m] = NoRow
          /\ \A i \in Jobs : job[i].op = "record_payment" => job[i].pay # m
          /\ payment' = [payment EXCEPT ![m] = [status |-> "pending", amount |-> amount]]
    /\ UNCHANGED <<invoice, charge, receipt, others, date, job, drifted, started>>

\* No status is looked at and nothing is recalculated: a successful payment may fail.
mark_failed(j) ==
    /\ At(j, {"mark_failed"}, "loaded")
    /\ PaymentFree(j)
    /\ payment' = [payment EXCEPT ![job[j].pay].status = "failed"]
    /\ drifted' = (drifted \/ payment[job[j].pay].status = "success")
    /\ job' = Overtake(j)
    /\ UNCHANGED <<invoice, charge, receipt, others, date, started>>

\* cancel and mark_overdue_if_needed write the status alone.
cancel(j) ==
    /\ At(j, {"cancel"}, "loaded")
    /\ RowFree(j)
    /\ invoice' = [invoice EXCEPT !.status = "cancelled"]
    /\ job' = Overtake(j)
    /\ UNCHANGED <<charge, payment, receipt, others, date, drifted, started>>

mark_overdue_if_needed(j) ==
    /\ At(j, {"flag_overdue"}, "loaded")
    /\ RowFree(j)
    /\ is_overdue(job[j].row.status, DaysLate(job[j].row.due))
    /\ invoice' = [invoice EXCEPT !.status = "overdue"]
    /\ drifted' = (drifted \/ job[j].behind = "sums")
    /\ job' = Overtake(j)
    /\ UNCHANGED <<charge, payment, receipt, others, date, started>>

\* The remaining amount as loaded leaves the wallet; no payment row records it.
pay_from_wallet(j) ==
    /\ At(j, {"pay_from_wallet"}, "loaded")
    /\ RowFree(j)
    /\ LET col == job[j].row.col
       IN  invoice' = [status |-> "paid", due |-> job[j].row.due,
                       col |-> [col EXCEPT !.paid = @ + col.remaining, !.remaining = 0]]
    /\ drifted' = TRUE
    /\ job' = Overtake(j)
    /\ UNCHANGED <<charge, payment, receipt, others, date, started>>

\* PUT or PATCH of the invoice: the client may set due_date, nothing is recalculated, and
\* the serializer saves every other column as it was loaded.
PutInvoice(j) ==
    /\ At(j, {"put"}, "loaded")
    /\ RowFree(j)
    /\ \E due \in Dates :
          /\ invoice' = [job[j].row EXCEPT !.due = due]
          /\ drifted' = (\/ drifted \/ job[j].behind = "sums"
                         \/ charge["penalty"] > 0 /\ DaysLate(due) # DaysLate(invoice.due))
    /\ job' = Overtake(j)
    /\ UNCHANGED <<charge, payment, receipt, others, date, started>>

\* A refusal, a receipt number another transaction took, or the death of the process: the
\* transaction is undone; the row of a charge stays without its totals.
Abandon(j) ==
    /\ job[j] # Idle
    /\ job' = [job EXCEPT ![j] = Idle]
    /\ UNCHANGED <<invoice, charge, payment, receipt, others, date, drifted, started>>

\* From the due date on, a daily penalty grows with the day that passes.
Grows(due) == charge["penalty"] > 0 /\ due <= date

\* A day passes: the penalty grows, and what was summed before does not.
DayPasses ==
    /\ invoice # NoInvoice
    /\ date < LastDate
    /\ date' = date + 1
    /\ drifted' = (drifted \/ Grows(invoice.due))
    /\ job' = [j \in Jobs |->
                 IF job[j] # Idle /\ job[j].pc # "loaded" /\ Grows(job[j].row.due)
                 THEN [job[j] EXCEPT !.behind = "sums"] ELSE job[j]]
    /\ UNCHANGED <<invoice, charge, payment, receipt, others, started>>

BillNext ==
    \/ create_invoice
    \/ \E j \in Jobs :
          \/ \E op \in InvoiceOp \cup ChargeOp : LoadInvoice(j, op)
          \/ \E m \in Payments, op \in PaymentOp : LoadPayment(j, m, op)
          \/ ReadCharge(j)
          \/ ReadIssue(j)
          \/ ReadNewPayment(j)
          \/ ReadOldPayment(j)
          \/ WriteTotals(j)
          \/ SaveTotals(j)
          \/ WritePayment(j)
          \/ mark_failed(j)
          \/ cancel(j)
          \/ mark_overdue_if_needed(j)
          \/ pay_from_wallet(j)
          \/ PutInvoice(j)
          \/ Abandon(j)
    \/ RecordPending
    \/ OtherReceipt
    \/ DayPasses

BillSpec == BillInit /\ [][BillNext]_billVars

-----------------------------------------------------------------------------
\* The shape of the tables and of the jobs under way.
BillTypeOK ==
    /\ invoice \in InvoiceRow \cup {NoInvoice}
    /\ charge \in [ChargeKind -> Nat]
    /\ payment \in [Payments -> [status : PaymentStatus, amount : Amounts] \cup {NoRow}]
    /\ receipt \in [Payments -> Nat]
    /\ others \in SUBSET (Nat \ {0}) /\ IsFiniteSet(others)
    /\ date \in Nat
    /\ job \in [Jobs -> [op : InvoiceOp \cup ChargeOp \cup PaymentOp,
                         pc : {"loaded", "read", "saving"}, row : InvoiceRow, pay : Payments \cup {NoPayment},
                         amount : Amounts \cup {0},
                         number : Nat, behind : {"nothing", "status", "sums"}] \cup {Idle}]
    /\ started \in Nat
    /\ drifted \in BOOLEAN

(***************************************************************************)
(* However jobs race, die or save old instances, the columns of the        *)
(* invoice agree with one another and with a status that claims payment.   *)
(***************************************************************************)
ColumnsBalance ==
    invoice # NoInvoice =>
       LET col == invoice.col
       IN  /\ col.discount <= col.subtotal
           /\ col.total = (col.subtotal - col.discount) + col.penalty
           /\ col.remaining = IF col.paid < col.total THEN col.total - col.paid ELSE 0
           /\ invoice.status = "paid" => col.remaining = 0
           /\ invoice.status = "partially_paid" => col.paid > 0 /\ col.remaining > 0

(***************************************************************************)
(* The columns are the sums of the rows, and the status follows from them, *)
(* unless a race, a wallet payment, a payment failed after success, a      *)
(* change of the days in a penalty or a charge half done has made them     *)
(* drift.                                                                  *)
(***************************************************************************)
TotalsMatchRows ==
    invoice # NoInvoice /\ ~drifted =>
       /\ invoice.col = Totals(charge, payment, DaysLate(invoice.due))
       /\ invoice.status \notin {"draft", "cancelled"} =>
             (invoice.status = "paid" <=> invoice.col.remaining = 0)

(***************************************************************************)
(* A payment that succeeded has a receipt, and keeps it when it is         *)
(* refunded; one that is unrecorded or pending has none (a failed one has  *)
(* one if it succeeded before).  The numbers of all receipts, those of the *)
(* other invoices included, are 1, 2, 3, ... with no gap and none used     *)
(* twice, whatever payments race for them.                                 *)
(***************************************************************************)
ReceiptsFollowPayments ==
    LET used == {m \in Payments : receipt[m] # 0}
    IN  /\ \A m \in Payments :
              /\ payment[m].status \in {"success", "refunded"} => m \in used
              /\ payment[m].status \in {"none", "pending"} => m \notin used
        /\ others \cup {receipt[m] : m \in used} = 1 .. Cardinality(others) + Cardinality(used)

(***************************************************************************)
(* A cancelled invoice stays cancelled, unless it is paid from a wallet    *)
(* (which looks at no status) or written by a job that another has         *)
(* overtaken since it loaded the invoice.                                  *)
(***************************************************************************)
CancelledStays ==
    [][(invoice.status = "cancelled" /\ invoice'.status # "cancelled") =>
          \E j \in Jobs : /\ job[j] # Idle /\ job'[j] = Idle
                         /\ \/ job[j].op = "pay_from_wallet"
                            \/ job[j].behind # "nothing"]_billVars

=============================================================================
