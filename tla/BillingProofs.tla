--------------------------- MODULE BillingProofs ----------------------------
(***************************************************************************)
(* Proofs about an invoice, for any payments, amounts and jobs.            *)
(*                                                                         *)
(* What a job carries between its read and its write is what can spoil     *)
(* the invoice, so each part of the invariant speaks of the row and of     *)
(* every instance under way: the instances are balanced too, they are      *)
(* current unless the job knows it is behind, and the receipt number a     *)
(* payment is about to get is at most one more than the last.  The locks   *)
(* are not needed for that: a number taken meanwhile is refused.           *)
(***************************************************************************)
EXTENDS Invoicing, SequenceTheorems, FiniteSetTheorems, TLAPS

JobRow == [op : InvoiceOp \cup ChargeOp \cup PaymentOp, pc : {"loaded", "read", "saving"},
           row : InvoiceRow, pay : Payments \cup {NoPayment}, amount : Amounts \cup {0},
           number : Nat, behind : {"nothing", "status", "sums"}]
PaymentRow == [status : PaymentStatus, amount : Amounts]

Settling == {"record_payment", "mark_success", "refund"}
Carrying == {"record_payment", "pay_from_wallet", "put"}

\* A payment as the job that settles it writes it, and the payments as the job sees them.
Settled(b) == [status |-> IF b.op = "refund" THEN "refunded" ELSE "success", amount |-> b.amount]
Seen(b, pm) == IF b.op \in Settling THEN [pm EXCEPT ![b.pay] = Settled(b)] ELSE pm

\* A job about a payment has one: there is an invoice, and the payment's row stays.
JobFits(b, pm) ==
    /\ b.op \in PaymentOp => b.pay \in Payments /\ b.amount \in Amounts /\ pm[b.pay] # NoRow
    /\ b.op \in Settling /\ b.pc # "loaded" => b.pay \in Payments /\ b.amount \in Amounts
    /\ b.pc # "loaded" => b.op \in ChargeOp \cup {"issue"} \cup Settling
    /\ b.pc = "loaded" => b.behind # "status"

Fits ==
    /\ invoice = NoInvoice => \A m \in Payments : payment[m] = NoRow
    /\ \A j \in Jobs : job[j] # Idle => invoice # NoInvoice /\ JobFits(job[j], payment)

\* The columns of a row agree, and its status claims no more than they say.
Balanced(row) ==
    LET col == row.col
    IN  /\ col.discount <= col.subtotal
        /\ col.total = (col.subtotal - col.discount) + col.penalty
        /\ col.remaining = IF col.paid < col.total THEN col.total - col.paid ELSE 0
        /\ row.status = "paid" => col.remaining = 0
        /\ row.status = "partially_paid" => col.paid > 0 /\ col.remaining > 0

Balance ==
    /\ invoice # NoInvoice => Balanced(invoice)
    /\ \A j \in Jobs : job[j] # Idle /\ (job[j].pc # "loaded" \/ job[j].op \in Carrying)
                          => Balanced(job[j].row)

\* A status that follows from the columns.
Decided(row) ==
    row.status \notin {"draft", "cancelled"} => (row.status = "paid" <=> row.col.remaining = 0)

\* DaysLate, of a given day.
Late(due, day) == IF due < day THEN day - due ELSE 0

\* What a job has in hand is current, as far as it is not behind.
JobCurrent(b, inv, c, pm, day) ==
    /\ b.pc = "loaded" /\ b.behind = "nothing" =>
          /\ b.row.status = inv.status
          /\ b.row.due = inv.due
          /\ b.op \in Carrying => b.row.col = inv.col
    /\ b.op = "issue" /\ b.behind = "nothing" => inv.status = "draft"
    /\ b.pc # "loaded" =>
          /\ Decided(b.row)
          /\ b.behind # "sums" => /\ b.row.due = inv.due
                                  /\ b.row.col = Totals(c, Seen(b, pm), Late(b.row.due, day))
          /\ b.behind = "nothing" /\ inv.status = "cancelled" => b.row.status = "cancelled"

Current ==
    /\ TotalsMatchRows
    /\ \A j \in Jobs : job[j] # Idle => JobCurrent(job[j], invoice, charge, payment, date)

\* A payment about to be settled has a receipt or a number for one, a refunded one has it.
Numbered(b, r, o) ==
    /\ b.op = "refund" => r[b.pay] # 0
    /\ b.op \in Settling /\ b.pc = "saving" =>
          /\ b.number = 0 => r[b.pay] # 0
          /\ b.number <= Cardinality(o) + Cardinality({m \in Payments : r[m] # 0}) + 1

Receipts ==
    /\ ReceiptsFollowPayments
    /\ \A j \in Jobs : job[j] # Idle => Numbered(job[j], receipt, others)

BillInv == BillTypeOK /\ Fits /\ Balance /\ Current /\ Receipts

-----------------------------------------------------------------------------
\* The sums.

PaymentTable == [Payments -> PaymentRow \cup {NoRow}]
ChargeTable == [ChargeKind -> Nat]

LEMMA SumNat ==
  ASSUME NEW S, IsFiniteSet(S), NEW f \in [S -> Nat]
  PROVE  SumOf(f) \in Nat
<1> DEFINE units == [x \in S |-> {x} \X (1 .. f[x])]
           all == {{x} \X (1 .. f[x]) : x \in S}
<1>1. units \in Surjection(S, all)
  BY DEF Surjection
<1>2. IsFiniteSet(all)
  BY <1>1, FS_Surjection
<1>3. ASSUME NEW T \in all PROVE IsFiniteSet(T)
  <2>1. PICK x \in S : T = {x} \X (1 .. f[x])
    OBVIOUS
  <2>2. IsFiniteSet(1 .. f[x])
    BY FS_Interval
  <2>3. IsFiniteSet({x})
    BY FS_Singleton
  <2> QED
    BY <2>1, <2>2, <2>3, FS_Product
<1>4. IsFiniteSet(UNION all)
  BY <1>2, <1>3, FS_UNION
<1> QED
  BY <1>4, FS_CardinalityType DEF SumOf

LEMMA PaidNat ==
  ASSUME NEW pm \in PaymentTable
  PROVE  Paid(pm) \in Nat
<1> DEFINE paying == {m \in Payments : pm[m].status = "success"}
<1>1. IsFiniteSet(paying)
  BY FS_Subset, BillingAssumption
<1>2. ASSUME NEW m \in paying PROVE pm[m].amount \in Nat
  <2>1. pm[m].status = "success" /\ pm[m] \in PaymentRow \cup {NoRow}
    BY DEF PaymentTable
  <2>2. pm[m] \in PaymentRow
    BY <2>1 DEF NoRow
  <2> QED
    BY <2>2, BillingAssumption DEF PaymentRow
<1>3. [m \in paying |-> pm[m].amount] \in [paying -> Nat]
  BY <1>2
<1> QED
  BY <1>1, <1>3, SumNat DEF Paid

LEMMA PaidSame ==
  ASSUME NEW pm, NEW qm,
         \A m \in Payments : /\ pm[m].status = "success" <=> qm[m].status = "success"
                             /\ pm[m].status = "success" => pm[m].amount = qm[m].amount
  PROVE  Paid(pm) = Paid(qm)
<1>1. [m \in {m \in Payments : pm[m].status = "success"} |-> pm[m].amount]
         = [m \in {m \in Payments : qm[m].status = "success"} |-> qm[m].amount]
  OBVIOUS
<1> QED
  BY <1>1 DEF Paid

LEMMA TotalsSame ==
  ASSUME NEW c, NEW pm, NEW qm, Paid(pm) = Paid(qm), NEW late
  PROVE  Totals(c, pm, late) = Totals(c, qm, late)
BY DEF Totals

\* What recalculate_totals writes is balanced, decided, and as final as what it has loaded.
LEMMA Recalculated ==
  ASSUME date \in Nat, NEW c \in ChargeTable, NEW pm \in PaymentTable,
         NEW status \in InvoiceStatus, NEW due \in Nat
  PROVE  LET row == recalculate_totals(status, due, c, pm)
         IN  /\ row \in InvoiceRow
             /\ row.due = due
             /\ row.col = Totals(c, pm, DaysLate(due))
             /\ Balanced(row)
             /\ Decided(row)
             /\ status = "cancelled" => row.status = "cancelled"
<1> DEFINE subtotal == c["item"] * Price
           discount == _calculate_discount_total(c)
           penalty == _calculate_penalty_total(c, DaysLate(due))
           total == (subtotal - discount) + penalty
           paid == Paid(pm)
           col == [subtotal |-> subtotal, discount |-> discount, penalty |-> penalty,
                   total |-> total, paid |-> paid, remaining |-> Remaining(total, paid)]
           row == [status |-> NewStatus(status, col, DaysLate(due)), due |-> due, col |-> col]
<1>1. paid \in Nat
  BY PaidNat
<1>2. /\ c["item"] \in Nat /\ c["discount"] \in Nat /\ c["penalty"] \in Nat
      /\ Price \in Nat
  BY BillingAssumption DEF ChargeTable, ChargeKind
<1>3. subtotal \in Nat /\ c["discount"] * Price \in Nat /\ penalty \in Nat
  <2>1. DaysLate(due) \in Nat
    BY DEF DaysLate
  <2> QED
    BY <1>2, <2>1 DEF _calculate_penalty_total
<1>4. discount \in Nat /\ discount <= subtotal
  BY <1>3 DEF _calculate_discount_total
<1> HIDE DEF subtotal, discount, penalty, paid
<1>5. total \in Nat
  BY <1>3, <1>4
<1> HIDE DEF total
<1>6. /\ Remaining(total, paid) \in Nat
      /\ Remaining(total, paid) = IF paid < total THEN total - paid ELSE 0
  BY <1>1, <1>5 DEF Remaining
<1>7. col \in Columns
  BY <1>1, <1>3, <1>4, <1>5, <1>6 DEF Columns
<1>8. NewStatus(status, col, DaysLate(due)) \in InvoiceStatus
  BY DEF NewStatus, InvoiceStatus
<1>9. row \in InvoiceRow /\ row.col = col /\ row.due = due
  BY <1>7, <1>8 DEF InvoiceRow
<1>10. Balanced(row)
  BY <1>1, <1>4, <1>5, <1>6 DEF Balanced, NewStatus, total
<1>11. Decided(row) /\ (status = "cancelled" => row.status = "cancelled")
  BY DEF Decided, NewStatus, InvoiceStatus
<1>12. /\ Totals(c, pm, DaysLate(due)) = col
       /\ recalculate_totals(status, due, c, pm) = row
  BY DEF Totals, recalculate_totals, subtotal, discount, penalty, total, paid
<1> QED
  BY <1>9, <1>10, <1>11, <1>12

-----------------------------------------------------------------------------
\* What a step does to the jobs.

Used(r) == {m \in Payments : r[m] # 0}

\* The receipts are 1 .. n, so the next number is n + 1.
LEMMA NextNumber ==
  ASSUME BillTypeOK, ReceiptsFollowPayments
  PROVE  /\ Cardinality(Used(receipt)) \in Nat /\ Cardinality(others) \in Nat
         /\ next_receipt_number = Cardinality(others) + Cardinality(Used(receipt)) + 1
<1> DEFINE n == Cardinality(others) + Cardinality(Used(receipt))
           S == {0} \cup others \cup {receipt[m] : m \in Payments}
<1>1. n \in Nat /\ Cardinality(Used(receipt)) \in Nat /\ Cardinality(others) \in Nat
  BY FS_Subset, FS_CardinalityType, BillingAssumption DEF Used, BillTypeOK
<1>2. others \cup {receipt[m] : m \in Used(receipt)} = 1 .. n
  BY DEF ReceiptsFollowPayments, Used
<1> HIDE DEF n
<1>3. S = 0 .. n
  <2>1. S = {0} \cup others \cup {receipt[m] : m \in Used(receipt)}
    BY DEF Used
  <2> QED
    BY <1>1, <1>2, <2>1
<1>4. \A x \in S : (\A y \in S : x >= y) <=> x = n
  BY <1>1, <1>3
<1>5. Max(S) = n
  BY <1>1, <1>3, <1>4 DEF Max
<1> QED
  BY <1>1, <1>5 DEF next_receipt_number, n

LEMMA Overtaken ==
  ASSUME BillTypeOK, NEW j \in Jobs, job' = Overtake(j)
  PROVE  /\ job' \in [Jobs -> JobRow \cup {Idle}]
         /\ job'[j] = Idle
         /\ \A i \in Jobs \ {j} : job[i] = Idle => job'[i] = Idle
         /\ \A i \in Jobs \ {j} : job[i] # Idle => job'[i] = [job[i] EXCEPT !.behind = "sums"]
<1>1. job \in [Jobs -> JobRow \cup {Idle}]
  BY DEF BillTypeOK, JobRow
<1>2. \A b \in JobRow : [b EXCEPT !.behind = "sums"] \in JobRow
  BY DEF JobRow
<1> QED
  BY <1>1, <1>2 DEF Overtake

LEMMA LoadedRow ==
  ASSUME BillTypeOK, invoice # NoInvoice,
         NEW op \in InvoiceOp \cup ChargeOp \cup PaymentOp, NEW m \in Payments \cup {NoPayment},
         m # NoPayment => payment[m] # NoRow
  PROVE  /\ Loaded(op, m) \in JobRow
         /\ Loaded(op, m) # Idle
<1>1. invoice \in InvoiceRow
  BY DEF BillTypeOK
<1>2. (IF m = NoPayment THEN 0 ELSE payment[m].amount) \in Amounts \cup {0}
  BY BillingAssumption DEF BillTypeOK, NoRow
<1>3. Unread \in Columns
  BY DEF Unread, Columns
<1>4. [status |-> invoice.status, due |-> invoice.due,
       col |-> IF op \in {"record_payment", "pay_from_wallet", "put"} THEN invoice.col
               ELSE Unread] \in InvoiceRow
  BY <1>1, <1>3 DEF InvoiceRow
<1>5. Loaded(op, m) \in JobRow
  BY <1>2, <1>4 DEF Loaded, JobRow
<1>6. Loaded(op, m).op # "none"
  BY DEF Loaded, InvoiceOp, ChargeOp, PaymentOp
<1> QED
  BY <1>5, <1>6 DEF Idle

\* The record a job has after it has read, and that the other jobs are as they were.
LEMMA PaymentRead ==
  ASSUME BillTypeOK, NEW j \in Jobs, job[j] # Idle,
         NEW m \in Payments, NEW amount \in Amounts, ReadPayment(j, m, amount),
         job[j].op \in Settling
  PROVE  LET b == job'[j]
         IN  /\ job' \in [Jobs -> JobRow \cup {Idle}]
             /\ b \in JobRow /\ b # Idle
             /\ b.op = job[j].op /\ b.pc = "read" /\ b.pay = m /\ b.amount = amount
             /\ b.behind = AfterRead(job[j])
             /\ Seen(b, payment) \in PaymentTable
             /\ b.row = recalculate_totals(job[j].row.status, job[j].row.due, charge,
                                           Seen(b, payment))
             /\ \A i \in Jobs \ {j} : job'[i] = job[i]
<1>1. job \in [Jobs -> JobRow \cup {Idle}] /\ job[j] \in JobRow
  BY DEF BillTypeOK, JobRow
<1>2. PICK seen : seen = SettledPayments(j, m, amount)
  OBVIOUS
<1>3. seen \in PaymentTable
  BY <1>2 DEF SettledPayments, BillTypeOK, PaymentTable, PaymentRow, PaymentStatus
<1>5. PICK row \in InvoiceRow :
         row = recalculate_totals(job[j].row.status, job[j].row.due, charge, seen)
  <2>1. job[j].row.status \in InvoiceStatus /\ job[j].row.due \in Nat
    BY <1>1 DEF JobRow, InvoiceRow
  <2>2. charge \in ChargeTable /\ date \in Nat
    BY DEF BillTypeOK, ChargeTable
  <2> QED
    BY <1>3, <2>1, <2>2, Recalculated
<1>6. AfterRead(job[j]) \in {"nothing", "status", "sums"}
  BY DEF AfterRead
<1>7. job' = [job EXCEPT ![j] = [job[j] EXCEPT !.pc = "read", !.behind = AfterRead(job[j]),
                !.pay = m, !.amount = amount, !.row = row]]
  BY <1>2, <1>5 DEF ReadPayment
<1>8. job'[j] = [job[j] EXCEPT !.pc = "read", !.behind = AfterRead(job[j]),
                !.pay = m, !.amount = amount, !.row = row]
  BY <1>1, <1>7
<1>9. /\ job'[j].op = job[j].op /\ job'[j].pc = "read"
      /\ job'[j].pay = m /\ job'[j].amount = amount
      /\ job'[j].behind = AfterRead(job[j])
      /\ job'[j].row = row
      /\ job'[j] \in JobRow
  BY <1>1, <1>6, <1>8 DEF JobRow
<1>10. Seen(job'[j], payment) = seen
  BY <1>2, <1>9 DEF Seen, SettledPayments, Settled
<1>11. job'[j] # Idle
  BY <1>1, <1>9 DEF JobRow, Idle, InvoiceOp, ChargeOp, PaymentOp
<1> QED
  BY <1>1, <1>3, <1>5, <1>7, <1>9, <1>10, <1>11

LEMMA IssueRead ==
  ASSUME BillTypeOK, NEW j \in Jobs, job[j] # Idle, ReadIssue(j)
  PROVE  LET b == job'[j]
         IN  /\ job' \in [Jobs -> JobRow \cup {Idle}]
             /\ b \in JobRow /\ b # Idle
             /\ b.op = job[j].op /\ b.pc = "saving" /\ b.behind = AfterRead(job[j])
             /\ b.row = recalculate_totals("issued", job[j].row.due, charge, payment)
             /\ \A i \in Jobs \ {j} : job'[i] = job[i]
<1>1. job \in [Jobs -> JobRow \cup {Idle}] /\ job[j] \in JobRow
  BY DEF BillTypeOK, JobRow
<1>2. PICK row \in InvoiceRow :
         row = recalculate_totals("issued", job[j].row.due, charge, payment)
  <2>1. charge \in ChargeTable /\ payment \in PaymentTable /\ date \in Nat
    BY DEF BillTypeOK, ChargeTable, PaymentTable, PaymentRow
  <2>2. "issued" \in InvoiceStatus /\ job[j].row.due \in Nat
    BY <1>1 DEF InvoiceStatus, JobRow, InvoiceRow
  <2> QED
    BY <2>1, <2>2, Recalculated
<1>3. AfterRead(job[j]) \in {"nothing", "status", "sums"}
  BY DEF AfterRead
<1>4. job' = [job EXCEPT ![j] = [job[j] EXCEPT !.pc = "saving", !.behind = AfterRead(job[j]), !.row = row]]
  BY <1>2 DEF ReadIssue
<1>5. job'[j] = [job[j] EXCEPT !.pc = "saving", !.behind = AfterRead(job[j]), !.row = row]
  BY <1>1, <1>4
<1>6. /\ job'[j].op = job[j].op /\ job'[j].pc = "saving" /\ job'[j].row = row
      /\ job'[j].behind = AfterRead(job[j])
      /\ job'[j] \in JobRow
  BY <1>1, <1>3, <1>5 DEF JobRow
<1>7. job'[j] # Idle
  BY <1>1, <1>6 DEF JobRow, Idle, InvoiceOp, ChargeOp, PaymentOp
<1> QED
  BY <1>1, <1>2, <1>4, <1>6, <1>7

LEMMA ChargeRead ==
  ASSUME BillTypeOK, NEW j \in Jobs, job[j] # Idle, ReadCharge(j)
  PROVE  LET b == job'[j]
         IN  /\ charge' \in ChargeTable
             /\ job' \in [Jobs -> JobRow \cup {Idle}]
             /\ b \in JobRow /\ b # Idle
             /\ b.op = job[j].op /\ b.pc = "read" /\ b.behind = AfterRead(job[j])
             /\ b.row = recalculate_totals(job[j].row.status, job[j].row.due, charge', payment)
             /\ \A i \in Jobs \ {j} : job[i] = Idle => job'[i] = Idle
             /\ \A i \in Jobs \ {j} : job[i] # Idle => job'[i] = [job[i] EXCEPT !.behind = "sums"]
<1>1. job \in [Jobs -> JobRow \cup {Idle}] /\ job[j] \in JobRow
  BY DEF BillTypeOK, JobRow
<1>2. PICK c : c = charge'
  OBVIOUS
<1>3. c \in ChargeTable
  <2>1. charge \in ChargeTable
    BY DEF BillTypeOK, ChargeTable
  <2>2. /\ c = Charged(job[j].op)
        /\ job[j].op = "remove_item" => charge["item"] > 0
        /\ job[j].op \in ChargeOp
    BY <1>2 DEF ReadCharge, At
  <2> QED
    BY <2>1, <2>2 DEF Charged, ChargeOp, ChargeTable, ChargeKind
<1>4. PICK row \in InvoiceRow :
         row = recalculate_totals(job[j].row.status, job[j].row.due, c, payment)
  <2>1. payment \in PaymentTable /\ date \in Nat
    BY DEF BillTypeOK, PaymentTable, PaymentRow
  <2>2. job[j].row.status \in InvoiceStatus /\ job[j].row.due \in Nat
    BY <1>1 DEF JobRow, InvoiceRow
  <2> QED
    BY <1>3, <2>1, <2>2, Recalculated
<1>5. AfterRead(job[j]) \in {"nothing", "status", "sums"}
  BY DEF AfterRead
<1>6. PICK rest : rest = Overtake(j)
  OBVIOUS
<1>7. /\ rest \in [Jobs -> JobRow \cup {Idle}]
      /\ \A i \in Jobs \ {j} : job[i] = Idle => rest[i] = Idle
      /\ \A i \in Jobs \ {j} : job[i] # Idle => rest[i] = [job[i] EXCEPT !.behind = "sums"]
  <2>1. \A b \in JobRow : [b EXCEPT !.behind = "sums"] \in JobRow
    BY DEF JobRow
  <2> QED
    BY <1>1, <1>6, <2>1 DEF Overtake
<1>8. job' = [rest EXCEPT ![j] =
                [job[j] EXCEPT !.pc = "read", !.behind = AfterRead(job[j]), !.row = row]]
  BY <1>2, <1>4, <1>6 DEF ReadCharge
<1>9. job'[j] = [job[j] EXCEPT !.pc = "read", !.behind = AfterRead(job[j]), !.row = row]
  BY <1>7, <1>8
<1>10. /\ job'[j].op = job[j].op /\ job'[j].pc = "read" /\ job'[j].row = row
       /\ job'[j].behind = AfterRead(job[j])
       /\ job'[j] \in JobRow
  BY <1>1, <1>5, <1>9 DEF JobRow
<1>11. job'[j] # Idle
  BY <1>1, <1>10 DEF JobRow, Idle, InvoiceOp, ChargeOp, PaymentOp
<1>12. /\ job' \in [Jobs -> JobRow \cup {Idle}]
       /\ \A i \in Jobs \ {j} : job'[i] = rest[i]
  BY <1>7, <1>8, <1>10
<1> QED
  BY <1>2, <1>3, <1>4, <1>7, <1>10, <1>11, <1>12

-----------------------------------------------------------------------------
\* The invariant, kind of step by kind of step.

LEMMA BillInvInit == BillInit => BillInv
<1> SUFFICES ASSUME BillInit PROVE BillInv
  OBVIOUS
<1> USE DEF BillInit
<1>1. BillTypeOK
  BY FS_EmptySet DEF BillTypeOK, ChargeKind
<1>2. Fits /\ Balance /\ Current
  BY DEF Fits, Balance, Current, TotalsMatchRows
<1>3. {m \in Payments : receipt[m] # 0} = {} /\ {receipt[m] : m \in {}} = {}
  OBVIOUS
<1>4. Cardinality({}) = 0 /\ 1 .. 0 = {}
  BY FS_EmptySet
<1>5. \A m \in Payments : payment[m].status = "none"
  BY DEF NoRow
<1>6. ReceiptsFollowPayments
  BY <1>3, <1>4, <1>5 DEF ReceiptsFollowPayments
<1> QED
  BY <1>1, <1>2, <1>6 DEF BillInv, Receipts

\* A load takes the current row, and whatever it is about.
LEMMA LoadKeeps ==
  ASSUME BillInv, NEW j \in Jobs, invoice # NoInvoice,
         NEW op \in InvoiceOp \cup ChargeOp \cup PaymentOp, NEW m \in Payments \cup {NoPayment},
         op \in PaymentOp => m # NoPayment, m # NoPayment => payment[m] # NoRow,
         op = "issue" => invoice.status = "draft",
         op = "refund" => payment[m].status = "success",
         job' = [job EXCEPT ![j] = Loaded(op, m)], started' \in Nat,
         UNCHANGED <<invoice, charge, payment, receipt, others, date, drifted>>
  PROVE  BillInv'
<1>1. job \in [Jobs -> JobRow \cup {Idle}] /\ BillTypeOK
  BY DEF BillInv, BillTypeOK, JobRow
<1>2. PICK b \in JobRow : b = Loaded(op, m) /\ b # Idle
  BY <1>1, LoadedRow
<1>3. /\ job' \in [Jobs -> JobRow \cup {Idle}]
      /\ job'[j] = b
      /\ \A i \in Jobs \ {j} : job'[i] = job[i]
  BY <1>1, <1>2
<1>4. BillTypeOK'
  BY <1>1, <1>3 DEF BillTypeOK, JobRow
<1>5. /\ b.op = op /\ b.pc = "loaded" /\ b.pay = m /\ b.behind = "nothing"
      /\ b.amount = IF m = NoPayment THEN 0 ELSE payment[m].amount
      /\ b.row.status = invoice.status /\ b.row.due = invoice.due
      /\ op \in Carrying => b.row.col = invoice.col
  BY <1>2 DEF Loaded, Carrying
<1>6. Fits'
  <2>1. JobFits(b, payment)
    <3>1. op \in PaymentOp => payment[m].amount \in Amounts
      BY <1>1, BillingAssumption DEF BillTypeOK, NoRow
    <3> QED
      BY <1>5, <3>1 DEF JobFits
  <2> QED
    BY <1>3, <2>1 DEF Fits, BillInv
<1>7. Balance'
  <2>1. op \in Carrying => Balanced(b.row)
    <3>1. Balanced(invoice)
      BY DEF Balance, BillInv
    <3> QED
      BY <1>5, <3>1 DEF Balanced
  <2> QED
    BY <1>3, <1>5, <2>1 DEF Balance, BillInv
<1>8. Current'
  <2>1. JobCurrent(b, invoice, charge, payment, date)
    BY <1>5 DEF JobCurrent
  <2>2. \A i \in Jobs : job'[i] # Idle => JobCurrent(job'[i], invoice, charge, payment, date)
    BY <1>3, <2>1 DEF Current, BillInv
  <2> QED
    BY <2>2 DEF Current, BillInv, TotalsMatchRows, DaysLate
<1>9. Receipts'
  <2>1. Numbered(b, receipt, others)
    BY <1>5 DEF Numbered, BillInv, Receipts, ReceiptsFollowPayments, PaymentOp
  <2> QED
    BY <1>3, <2>1 DEF Receipts, BillInv, ReceiptsFollowPayments
<1> QED
  BY <1>4, <1>6, <1>7, <1>8, <1>9 DEF BillInv

\* A write of balanced columns leaves every other job behind, and what they carry as it was.
LEMMA WriteKeeps ==
  ASSUME BillInv, NEW j \in Jobs, job[j] # Idle, job' = Overtake(j),
         invoice' \in InvoiceRow, Balanced(invoice)', TotalsMatchRows',
         payment' \in PaymentTable, \A m \in Payments : payment[m] # NoRow => payment'[m] # NoRow,
         receipt' \in [Payments -> Nat], \A m \in Payments : receipt[m] # 0 => receipt'[m] # 0,
         ReceiptsFollowPayments', drifted' \in BOOLEAN,
         UNCHANGED <<charge, others, date, started>>
  PROVE  BillInv'
<1>1. BillTypeOK
  BY DEF BillInv
<1>2. /\ job' \in [Jobs -> JobRow \cup {Idle}]
      /\ job'[j] = Idle
      /\ \A i \in Jobs \ {j} : job[i] = Idle => job'[i] = Idle
      /\ \A i \in Jobs \ {j} : job[i] # Idle => job'[i] = [job[i] EXCEPT !.behind = "sums"]
  BY <1>1, Overtaken
<1>3. job \in [Jobs -> JobRow \cup {Idle}]
  BY <1>1 DEF BillTypeOK, JobRow
<1>4. BillTypeOK'
  BY <1>1, <1>2 DEF BillTypeOK, JobRow, PaymentTable, PaymentRow
<1>5. invoice # NoInvoice /\ invoice' # NoInvoice
  BY DEF BillInv, Fits, InvoiceRow, InvoiceStatus, NoInvoice
<1>6. ASSUME NEW i \in Jobs, job'[i] # Idle
      PROVE  /\ job[i] # Idle /\ job[i] \in JobRow
             /\ job'[i].op = job[i].op /\ job'[i].pc = job[i].pc /\ job'[i].row = job[i].row
             /\ job'[i].pay = job[i].pay /\ job'[i].amount = job[i].amount
             /\ job'[i].number = job[i].number /\ job'[i].behind = "sums"
  BY <1>2, <1>3, <1>6 DEF JobRow
<1>7. Fits'
  <2>1. ASSUME NEW i \in Jobs, job'[i] # Idle PROVE JobFits(job'[i], payment')
    <3>1. JobFits(job[i], payment)
      BY <1>6, <2>1 DEF BillInv, Fits
    <3> QED
      BY <1>6, <2>1, <3>1 DEF JobFits
  <2> QED
    BY <1>5, <2>1 DEF Fits
<1>8. Balance'
  <2>1. ASSUME NEW i \in Jobs, job'[i] # Idle, job'[i].pc # "loaded" \/ job'[i].op \in Carrying
        PROVE  Balanced(job'[i].row)
    BY <1>6, <2>1 DEF BillInv, Balance
  <2> QED
    BY <2>1 DEF Balance
<1>9. Current'
  <2>1. ASSUME NEW i \in Jobs, job'[i] # Idle
        PROVE  JobCurrent(job[i], invoice, charge, payment, date) /\ job'[i].behind = "sums"
    BY <1>6, <2>1 DEF BillInv, Current
  <2> QED
    BY <1>6, <2>1 DEF Current, JobCurrent
<1>10. Receipts'
  <2>1. /\ Cardinality(Used(receipt)) \in Nat /\ Cardinality(Used(receipt')) \in Nat
        /\ Cardinality(others) \in Nat
    BY <1>1, FS_Subset, FS_CardinalityType, BillingAssumption DEF Used, BillTypeOK
  <2>2. Cardinality(Used(receipt)) <= Cardinality(Used(receipt'))
    <3>1. IsFiniteSet(Used(receipt')) /\ Used(receipt) \subseteq Used(receipt')
      BY FS_Subset, BillingAssumption DEF Used
    <3> QED
      BY <3>1, FS_Subset
  <2>3. ASSUME NEW i \in Jobs, job'[i] # Idle PROVE Numbered(job'[i], receipt', others)
    <3>1. Numbered(job[i], receipt, others) /\ JobFits(job[i], payment)
      BY <1>6, <2>3 DEF BillInv, Receipts, Fits
    <3>2. job[i].number \in Nat
      BY <1>6, <2>3 DEF JobRow
    <3> QED
      BY <1>6, <2>1, <2>2, <2>3, <3>1, <3>2 DEF Numbered, Used, JobFits, PaymentOp
  <2> QED
    BY <2>3 DEF Receipts
<1> QED
  BY <1>4, <1>7, <1>8, <1>9, <1>10 DEF BillInv

\* The jobs' instances alone change: one job ends, or reads what it is about to write.
LEMMA AbandonKeeps ==
  ASSUME BillInv, NEW j \in Jobs, Abandon(j)
  PROVE  BillInv'
<1>1. job \in [Jobs -> JobRow \cup {Idle}] /\ BillTypeOK
  BY DEF BillInv, BillTypeOK, JobRow
<1>2. /\ job' \in [Jobs -> JobRow \cup {Idle}]
      /\ job'[j] = Idle
      /\ \A i \in Jobs \ {j} : job'[i] = job[i]
  BY <1>1 DEF Abandon
<1> USE DEF Abandon
<1>3. BillTypeOK'
  BY <1>1, <1>2 DEF BillTypeOK, JobRow
<1>4. Fits' /\ Balance'
  BY <1>2 DEF BillInv, Fits, Balance
<1>5. Current'
  <2>1. \A i \in Jobs : job'[i] # Idle => JobCurrent(job'[i], invoice, charge, payment, date)
    BY <1>2 DEF Current, BillInv
  <2> QED
    BY <2>1 DEF Current, BillInv, TotalsMatchRows, DaysLate
<1>6. Receipts'
  BY <1>2 DEF BillInv, Receipts, ReceiptsFollowPayments
<1> QED
  BY <1>3, <1>4, <1>5, <1>6 DEF BillInv

LEMMA ReadKeeps ==
  ASSUME BillInv, NEW j \in Jobs, NEW b \in JobRow, b # Idle, job[j] # Idle,
         job' \in [Jobs -> JobRow \cup {Idle}], job'[j] = b,
         \A i \in Jobs \ {j} : job'[i] = job[i],
         JobFits(b, payment), Balanced(b.row),
         JobCurrent(b, invoice, charge, payment, date), Numbered(b, receipt, others),
         UNCHANGED <<invoice, charge, payment, receipt, others, date, drifted, started>>
  PROVE  BillInv'
<1>1. BillTypeOK'
  BY DEF BillInv, BillTypeOK, JobRow
<1>2. Fits' /\ Balance'
  BY DEF BillInv, Fits, Balance
<1>3. Current'
  <2>1. \A i \in Jobs : job'[i] # Idle => JobCurrent(job'[i], invoice, charge, payment, date)
    BY DEF Current, BillInv
  <2> QED
    BY <2>1 DEF Current, BillInv, TotalsMatchRows, DaysLate
<1>4. Receipts'
  BY DEF BillInv, Receipts, ReceiptsFollowPayments
<1> QED
  BY <1>1, <1>2, <1>3, <1>4 DEF BillInv

-----------------------------------------------------------------------------
\* The invariant, action by action.

LEMMA UnderWay ==
  ASSUME BillInv, NEW j \in Jobs, job[j].op # "none"
  PROVE  /\ job[j] # Idle /\ job[j] \in JobRow
         /\ invoice # NoInvoice /\ invoice \in InvoiceRow /\ Balanced(invoice)
         /\ JobFits(job[j], payment)
         /\ JobCurrent(job[j], invoice, charge, payment, date)
         /\ Numbered(job[j], receipt, others)
         /\ job[j].pc # "loaded" \/ job[j].op \in Carrying => Balanced(job[j].row)
<1>1. job[j] # Idle
  BY DEF Idle
<1>2. job[j] \in JobRow
  BY <1>1 DEF BillInv, BillTypeOK, JobRow
<1>3. invoice # NoInvoice /\ invoice \in InvoiceRow
  BY <1>1 DEF BillInv, BillTypeOK, Fits
<1> QED
  BY <1>1, <1>2, <1>3 DEF BillInv, Fits, Balance, Current, Receipts

LEMMA Tables ==
  ASSUME BillInv
  PROVE  /\ charge \in ChargeTable /\ payment \in PaymentTable
         /\ receipt \in [Payments -> Nat] /\ date \in Nat
         /\ others \in SUBSET (Nat \ {0}) /\ IsFiniteSet(others)
         /\ job \in [Jobs -> JobRow \cup {Idle}]
BY DEF BillInv, BillTypeOK, ChargeTable, PaymentTable, PaymentRow, JobRow

LEMMA IssueStep ==
  ASSUME BillInv, NEW j \in Jobs, ReadIssue(j)
  PROVE  BillInv'
<1>1. job[j].op = "issue" /\ job[j].pc = "loaded"
  BY DEF ReadIssue, At
<1>2. /\ job[j] # Idle /\ job[j] \in JobRow /\ JobFits(job[j], payment)
      /\ JobCurrent(job[j], invoice, charge, payment, date)
  BY <1>1, UnderWay
<1> PICK due \in Nat : due = job[j].row.due
  BY <1>2 DEF JobRow, InvoiceRow
<1>3. PICK b : b = job'[j]
  OBVIOUS
<1>4. /\ job' \in [Jobs -> JobRow \cup {Idle}]
      /\ b \in JobRow /\ b # Idle
      /\ b.op = "issue" /\ b.pc = "saving" /\ b.behind = AfterRead(job[j])
      /\ b.row = recalculate_totals("issued", due, charge, payment)
      /\ \A i \in Jobs \ {j} : job'[i] = job[i]
  BY <1>1, <1>2, <1>3, IssueRead DEF BillInv
<1>5. /\ b.row.col = Totals(charge, payment, DaysLate(due)) /\ b.row.due = due
      /\ Balanced(b.row) /\ Decided(b.row)
  BY <1>4, Tables, Recalculated DEF InvoiceStatus
<1>6. JobFits(b, payment)
  BY <1>4 DEF JobFits, PaymentOp, Settling
<1>7. JobCurrent(b, invoice, charge, payment, date)
  <2>1. b.behind = "nothing" => invoice.status = "draft"
    BY <1>1, <1>2, <1>4 DEF JobCurrent, AfterRead
  <2>2. Seen(b, payment) = payment
    BY <1>4 DEF Seen, Settling
  <2>3. b.behind # "sums" => due = invoice.due
    BY <1>1, <1>2, <1>3, <1>4 DEF JobCurrent, AfterRead
  <2> QED
    BY <1>4, <1>5, <2>1, <2>2, <2>3 DEF JobCurrent, DaysLate, Late
<1>8. Numbered(b, receipt, others)
  BY <1>4 DEF Numbered, Settling
<1> QED
  BY <1>2, <1>3, <1>4, <1>5, <1>6, <1>7, <1>8, ReadKeeps DEF ReadIssue

LEMMA SettleStep ==
  ASSUME BillInv, NEW j \in Jobs, job[j].op \in Settling, job[j].pc = "loaded",
         NEW m \in Payments, NEW amount \in Amounts,
         job[j].op \in PaymentOp => m = job[j].pay, ReadPayment(j, m, amount)
  PROVE  BillInv'
<1>1. /\ job[j] # Idle /\ job[j] \in JobRow /\ JobFits(job[j], payment)
      /\ JobCurrent(job[j], invoice, charge, payment, date) /\ Numbered(job[j], receipt, others)
  BY UnderWay DEF Settling
<1> PICK due \in Nat : due = job[j].row.due
  BY <1>1 DEF JobRow, InvoiceRow
<1>2. PICK b : b = job'[j]
  OBVIOUS
<1>3. PICK seen : seen = Seen(b, payment)
  OBVIOUS
<1>4. /\ job' \in [Jobs -> JobRow \cup {Idle}]
      /\ b \in JobRow /\ b # Idle
      /\ b.op = job[j].op /\ b.pc = "read" /\ b.pay = m /\ b.amount = amount
      /\ b.behind = AfterRead(job[j])
      /\ seen \in PaymentTable
      /\ b.row = recalculate_totals(job[j].row.status, due, charge, seen)
      /\ \A i \in Jobs \ {j} : job'[i] = job[i]
  BY <1>1, <1>2, <1>3, PaymentRead DEF BillInv
<1>5. job[j].row.status \in InvoiceStatus
  BY <1>1 DEF JobRow, InvoiceRow
<1>6. /\ b.row.col = Totals(charge, seen, DaysLate(due)) /\ b.row.due = due
      /\ Balanced(b.row) /\ Decided(b.row)
      /\ job[j].row.status = "cancelled" => b.row.status = "cancelled"
  BY <1>4, <1>5, Tables, Recalculated
<1>7. JobFits(b, payment)
  BY <1>1, <1>4 DEF JobFits
<1>8. JobCurrent(b, invoice, charge, payment, date)
  <2>1. b.behind = "nothing" => job[j].row.status = invoice.status
    BY <1>1, <1>4 DEF JobCurrent, AfterRead
  <2>2. b.behind # "sums" => due = invoice.due
    BY <1>1, <1>2, <1>4 DEF JobCurrent, AfterRead
  <2> QED
    BY <1>3, <1>4, <1>6, <2>1, <2>2 DEF JobCurrent, Settling, DaysLate, Late
<1>9. Numbered(b, receipt, others)
  <2>1. job[j].op = "refund" => receipt[m] # 0
    BY <1>1 DEF Numbered, PaymentOp
  <2> QED
    BY <1>4, <2>1 DEF Numbered
<1> QED
  BY <1>1, <1>2, <1>4, <1>6, <1>7, <1>8, <1>9, ReadKeeps DEF ReadPayment

LEMMA NewPaymentStep ==
  ASSUME BillInv, NEW j \in Jobs, ReadNewPayment(j)
  PROVE  BillInv'
<1>1. job[j].op = "record_payment" /\ job[j].pc = "loaded"
  BY DEF ReadNewPayment, At
<1>2. PICK m \in Payments, amount \in Amounts : ReadPayment(j, m, amount)
  BY DEF ReadNewPayment
<1> QED
  BY <1>1, <1>2, SettleStep DEF Settling, PaymentOp

LEMMA OldPaymentStep ==
  ASSUME BillInv, NEW j \in Jobs, ReadOldPayment(j)
  PROVE  BillInv'
<1>1. job[j].op \in {"mark_success", "refund"} /\ job[j].pc = "loaded"
  BY DEF ReadOldPayment, At
<1>2. job[j].pay \in Payments /\ job[j].amount \in Amounts
  BY <1>1, UnderWay DEF JobFits, PaymentOp
<1> QED
  BY <1>1, <1>2, SettleStep DEF ReadOldPayment, Settling

\* The number is read with the invoice's row in hand; what was summed stays as it was.
LEMMA SaveStep ==
  ASSUME BillInv, NEW j \in Jobs, SaveTotals(j)
  PROVE  BillInv'
<1>1. job[j].op \in Settling /\ job[j].pc = "read" /\ job[j].op # "none"
  BY DEF SaveTotals, At, Settling
<1>2. /\ job[j] # Idle /\ job[j] \in JobRow /\ Balanced(job[j].row)
      /\ JobFits(job[j], payment) /\ Numbered(job[j], receipt, others)
      /\ JobCurrent(job[j], invoice, charge, payment, date)
  BY <1>1, UnderWay
<1>3. PICK p \in Payments : p = job[j].pay
  BY <1>1, <1>2 DEF JobFits
<1>4. /\ Cardinality(Used(receipt)) \in Nat /\ Cardinality(others) \in Nat
      /\ next_receipt_number = Cardinality(others) + Cardinality(Used(receipt)) + 1
  BY NextNumber DEF BillInv, Receipts
<1>5. PICK n \in Nat :
         n = IF job[j].op = "refund" \/ receipt[p] # 0 THEN 0 ELSE next_receipt_number
  BY <1>4
<1>6. PICK b : b = [job[j] EXCEPT !.pc = "saving", !.number = n]
  OBVIOUS
<1>7. /\ b \in JobRow /\ b # Idle
      /\ b.op = job[j].op /\ b.pc = "saving" /\ b.number = n /\ b.row = job[j].row
      /\ b.pay = p /\ b.amount = job[j].amount /\ b.behind = job[j].behind
  BY <1>2, <1>3, <1>6 DEF JobRow, Idle, InvoiceOp, ChargeOp, PaymentOp
<1>8. /\ job' \in [Jobs -> JobRow \cup {Idle}] /\ job'[j] = b
      /\ \A i \in Jobs \ {j} : job'[i] = job[i]
  <2>1. job' = [job EXCEPT ![j] = b]
    BY <1>3, <1>5, <1>6 DEF SaveTotals
  <2> QED
    BY <1>7, <2>1, Tables
<1>9. JobFits(b, payment)
  BY <1>1, <1>2, <1>3, <1>7 DEF JobFits
<1>10. JobCurrent(b, invoice, charge, payment, date)
  <2>1. Seen(b, payment) = Seen(job[j], payment)
    BY <1>3, <1>7 DEF Seen, Settled
  <2> QED
    BY <1>1, <1>2, <1>7, <2>1 DEF JobCurrent
<1>11. Numbered(b, receipt, others)
  BY <1>1, <1>2, <1>3, <1>4, <1>5, <1>7 DEF Numbered, Used
<1> QED
  BY <1>2, <1>7, <1>8, <1>9, <1>10, <1>11, ReadKeeps DEF SaveTotals

LEMMA ChargeStep ==
  ASSUME BillInv, NEW j \in Jobs, ReadCharge(j)
  PROVE  BillInv'
<1>1. job[j].op \in ChargeOp /\ job[j].pc = "loaded" /\ job[j].op # "none"
  BY DEF ReadCharge, At, ChargeOp
<1>2. /\ job[j] # Idle /\ job[j] \in JobRow /\ JobFits(job[j], payment)
      /\ JobCurrent(job[j], invoice, charge, payment, date) /\ invoice # NoInvoice
  BY <1>1, UnderWay
<1> PICK due \in Nat : due = job[j].row.due
  BY <1>2 DEF JobRow, InvoiceRow
<1>3. PICK b, c : b = job'[j] /\ c = charge'
  OBVIOUS
<1>4. /\ c \in ChargeTable
      /\ job' \in [Jobs -> JobRow \cup {Idle}]
      /\ b \in JobRow /\ b # Idle
      /\ b.op = job[j].op /\ b.pc = "read" /\ b.behind = AfterRead(job[j])
      /\ b.row = recalculate_totals(job[j].row.status, due, c, payment)
      /\ \A i \in Jobs \ {j} : job[i] = Idle => job'[i] = Idle
      /\ \A i \in Jobs \ {j} : job[i] # Idle => job'[i] = [job[i] EXCEPT !.behind = "sums"]
  BY <1>2, <1>3, ChargeRead DEF BillInv
<1>5. job[j].row.status \in InvoiceStatus
  BY <1>2 DEF JobRow, InvoiceRow
<1>6. /\ b.row.col = Totals(c, payment, DaysLate(due)) /\ b.row.due = due
      /\ Balanced(b.row) /\ Decided(b.row)
      /\ job[j].row.status = "cancelled" => b.row.status = "cancelled"
  BY <1>4, <1>5, Tables, Recalculated
<1>7. UNCHANGED <<invoice, payment, receipt, others, date, started>> /\ drifted' = TRUE
  BY DEF ReadCharge
<1>8. ASSUME NEW i \in Jobs, job'[i] # Idle, i # j
      PROVE  /\ job[i] # Idle
             /\ job'[i].op = job[i].op /\ job'[i].pc = job[i].pc /\ job'[i].row = job[i].row
             /\ job'[i].pay = job[i].pay /\ job'[i].amount = job[i].amount
             /\ job'[i].number = job[i].number /\ job'[i].behind = "sums"
  BY <1>4, <1>8, Tables DEF JobRow
<1>9. BillTypeOK'
  BY <1>3, <1>4, <1>7 DEF BillInv, BillTypeOK, JobRow, ChargeTable
<1>10. Fits'
  <2>1. JobFits(b, payment)
    BY <1>1, <1>4 DEF JobFits, ChargeOp, PaymentOp, Settling
  <2>2. ASSUME NEW i \in Jobs, job'[i] # Idle PROVE JobFits(job'[i], payment')
    <3>1. CASE i = j
      BY <1>3, <1>7, <2>1, <3>1
    <3>2. CASE i # j
      <4>1. JobFits(job[i], payment)
        BY <1>8, <2>2, <3>2 DEF BillInv, Fits
      <4> QED
        BY <1>7, <1>8, <2>2, <3>2, <4>1 DEF JobFits
    <3> QED
      BY <3>1, <3>2
  <2> QED
    BY <1>2, <1>7, <2>2 DEF Fits
<1>11. Balance'
  <2>1. ASSUME NEW i \in Jobs, job'[i] # Idle, job'[i].pc # "loaded" \/ job'[i].op \in Carrying
        PROVE  Balanced(job'[i].row)
    BY <1>3, <1>6, <1>8, <2>1 DEF BillInv, Balance
  <2> QED
    BY <1>7, <2>1 DEF Balance, BillInv
<1>12. Current'
  <2>1. JobCurrent(b, invoice, c, payment, date)
    <3>1. b.behind = "nothing" => job[j].row.status = invoice.status
      BY <1>1, <1>2, <1>4 DEF JobCurrent, AfterRead
    <3>2. Seen(b, payment) = payment
      BY <1>1, <1>4 DEF Seen, Settling, ChargeOp
    <3>3. b.behind # "sums" => due = invoice.due
      BY <1>1, <1>2, <1>3, <1>4 DEF JobCurrent, AfterRead
    <3> QED
      BY <1>1, <1>4, <1>6, <3>1, <3>2, <3>3 DEF JobCurrent, ChargeOp, DaysLate, Late
  <2>2. ASSUME NEW i \in Jobs, job'[i] # Idle PROVE JobCurrent(job'[i], invoice, c, payment, date)
    <3>1. CASE i = j
      BY <1>3, <2>1, <3>1
    <3>2. CASE i # j
      <4>1. JobCurrent(job[i], invoice, charge, payment, date)
        BY <1>8, <2>2, <3>2 DEF BillInv, Current
      <4> QED
        BY <1>8, <2>2, <3>2, <4>1 DEF JobCurrent
    <3> QED
      BY <3>1, <3>2
  <2> QED
    BY <1>3, <1>7, <2>2 DEF Current, TotalsMatchRows
<1>13. Receipts'
  <2>1. Numbered(b, receipt, others)
    BY <1>1, <1>4 DEF Numbered, ChargeOp, Settling
  <2>2. ASSUME NEW i \in Jobs, job'[i] # Idle PROVE Numbered(job'[i], receipt, others)
    <3>1. CASE i = j
      BY <1>3, <2>1, <3>1
    <3>2. CASE i # j
      <4>1. Numbered(job[i], receipt, others)
        BY <1>8, <2>2, <3>2 DEF BillInv, Receipts
      <4> QED
        BY <1>8, <2>2, <3>2, <4>1 DEF Numbered
    <3> QED
      BY <3>1, <3>2
  <2> QED
    BY <1>7, <2>2 DEF BillInv, Receipts, ReceiptsFollowPayments
<1> QED
  BY <1>9, <1>10, <1>11, <1>12, <1>13 DEF BillInv

\* What a job writes of the row it has in hand.
LEMMA WrittenRow ==
  ASSUME BillInv, NEW j \in Jobs, job[j].op # "none", job[j].pc # "loaded", invoice' = Written(j)
  PROVE  /\ invoice' \in InvoiceRow /\ Balanced(invoice)'
         /\ invoice'.status = job[j].row.status /\ invoice'.due = invoice.due
         /\ invoice'.col = job[j].row.col
<1>1. /\ job[j].row \in InvoiceRow /\ invoice \in InvoiceRow /\ Balanced(job[j].row)
  BY UnderWay DEF JobRow
<1>2. /\ invoice' \in InvoiceRow
      /\ invoice'.status = job[j].row.status /\ invoice'.due = invoice.due
      /\ invoice'.col = job[j].row.col
  BY <1>1 DEF Written, InvoiceRow
<1> QED
  BY <1>1, <1>2 DEF Balanced

LEMMA WriteTotalsStep ==
  ASSUME BillInv, NEW j \in Jobs, WriteTotals(j)
  PROVE  BillInv'
<1> USE DEF WriteTotals
<1>1. job[j].op \in ChargeOp \cup {"issue"} /\ job[j].pc # "loaded" /\ job[j].op # "none"
  BY DEF At, ChargeOp
<1>2. /\ job[j] # Idle /\ job[j] \in JobRow /\ Balanced(job[j].row)
      /\ JobCurrent(job[j], invoice, charge, payment, date)
  BY <1>1, UnderWay
<1>3. /\ invoice' \in InvoiceRow /\ Balanced(invoice)'
      /\ invoice'.status = job[j].row.status /\ invoice'.due = invoice.due
      /\ invoice'.col = job[j].row.col
  BY <1>1, <1>2, WrittenRow
<1>4. TotalsMatchRows'
  <2>1. Seen(job[j], payment) = payment
    BY <1>1 DEF Seen, Settling, ChargeOp
  <2>2. /\ ~drifted' => invoice'.col = Totals(charge, payment, Late(invoice.due, date))
        /\ Decided(job[j].row)
    BY <1>1, <1>2, <1>3, <2>1 DEF JobCurrent
  <2> QED
    BY <1>3, <2>2 DEF TotalsMatchRows, Decided, DaysLate, Late
<1>5. ReceiptsFollowPayments' /\ drifted' \in BOOLEAN
  BY DEF BillInv, Receipts, ReceiptsFollowPayments
<1> QED
  BY <1>2, <1>3, <1>4, <1>5, Tables, WriteKeeps

LEMMA WritePaymentStep ==
  ASSUME BillInv, NEW j \in Jobs, WritePayment(j)
  PROVE  BillInv'
<1> USE DEF WritePayment
<1>1. job[j].op \in Settling /\ job[j].pc = "saving" /\ job[j].op # "none"
  BY DEF At, Settling
<1>2. /\ job[j] # Idle /\ job[j] \in JobRow /\ Balanced(job[j].row)
      /\ JobFits(job[j], payment) /\ Numbered(job[j], receipt, others)
      /\ JobCurrent(job[j], invoice, charge, payment, date)
  BY <1>1, UnderWay
<1>3. PICK p \in Payments, n \in Nat : p = job[j].pay /\ n = job[j].number
  BY <1>1, <1>2 DEF JobFits, JobRow
<1>4. /\ invoice' \in InvoiceRow /\ Balanced(invoice)'
      /\ invoice'.status = job[j].row.status /\ invoice'.due = invoice.due
      /\ invoice'.col = job[j].row.col
  BY <1>1, WrittenRow
<1>5. /\ payment' = [payment EXCEPT ![p] = Settled(job[j])]
      /\ payment' = Seen(job[j], payment)
  BY <1>1, <1>3 DEF SettledPayments, Seen, Settled
<1>6. Settled(job[j]) \in PaymentRow /\ Settled(job[j]).status \in {"success", "refunded"}
  BY <1>1, <1>2 DEF Settled, JobFits, PaymentRow, PaymentStatus
<1>7. /\ payment' \in PaymentTable
      /\ \A m \in Payments : payment[m] # NoRow => payment'[m] # NoRow
  BY <1>5, <1>6, Tables DEF PaymentTable, NoRow
<1>8. TotalsMatchRows'
  <2>1. PICK pm : pm = payment'
    OBVIOUS
  <2>2. /\ ~drifted' => invoice'.col = Totals(charge, pm, Late(invoice.due, date))
        /\ Decided(job[j].row)
    BY <1>1, <1>2, <1>4, <1>5, <2>1 DEF JobCurrent
  <2> QED
    BY <1>4, <2>1, <2>2 DEF TotalsMatchRows, Decided, DaysLate, Late
<1>9. receipt' = [receipt EXCEPT ![p] = IF receipt[p] = 0 THEN n ELSE receipt[p]]
  BY <1>3 DEF Receipted
<1>10. /\ receipt' \in [Payments -> Nat]
       /\ \A m \in Payments : receipt[m] # 0 => receipt'[m] # 0
  BY <1>9, Tables
<1>11. ReceiptsFollowPayments'
  <2> DEFINE N == Cardinality(others) + Cardinality(Used(receipt))
  <2>1. /\ N \in Nat /\ IsFiniteSet(Used(receipt))
        /\ Cardinality(others) \in Nat /\ Cardinality(Used(receipt)) \in Nat
    BY Tables, FS_Subset, FS_CardinalityType, BillingAssumption DEF Used
  <2>2. /\ others \cup {receipt[m] : m \in Used(receipt)} = 1 .. N
        /\ \A m \in Payments :
              /\ payment[m].status \in {"success", "refunded"} => m \in Used(receipt)
              /\ payment[m].status \in {"none", "pending"} => m \notin Used(receipt)
    BY DEF BillInv, Receipts, ReceiptsFollowPayments, Used
  <2>3. /\ n = 0 => receipt[p] # 0
        /\ n <= N + 1
    BY <1>1, <1>2, <1>3 DEF Numbered, Used
  <2> HIDE DEF N
  <2>4. CASE receipt[p] # 0
    <3>1. receipt' = receipt
      BY <1>9, <2>4, Tables
    <3>2. \A m \in Payments :
              /\ payment'[m].status \in {"success", "refunded"} => m \in Used(receipt)
              /\ payment'[m].status \in {"none", "pending"} => m \notin Used(receipt)
      BY <1>5, <1>6, <2>2, <2>4, Tables DEF Used, PaymentTable
    <3> QED
      BY <3>1, <3>2, <2>2 DEF ReceiptsFollowPayments, Used, N
  <2>5. CASE receipt[p] = 0
    <3>1. n \notin others /\ \A m \in Payments : receipt[m] # n
      BY <1>3, <2>3, <2>5 DEF Collides
    <3>2. n = N + 1
      <4>1. n \notin 1 .. N
        BY <2>2, <3>1 DEF Used
      <4> QED
        BY <2>1, <2>3, <2>5, <4>1
    <3>3. /\ receipt'[p] = N + 1
          /\ \A m \in Payments \ {p} : receipt'[m] = receipt[m]
      BY <1>9, <2>5, <3>2, Tables
    <3>4. Used(receipt') = Used(receipt) \cup {p} /\ p \notin Used(receipt)
      BY <2>1, <2>5, <3>3 DEF Used
    <3>5. Cardinality(others) + Cardinality(Used(receipt')) = N + 1
      <4>1. Cardinality(Used(receipt')) = Cardinality(Used(receipt)) + 1
        BY <2>1, <3>4, FS_AddElement
      <4> QED
        BY <2>1, <4>1 DEF N
    <3>6. others \cup {receipt'[m] : m \in Used(receipt')} = 1 .. N + 1
      <4>1. {receipt'[m] : m \in Used(receipt')}
               = {receipt[m] : m \in Used(receipt)} \cup {N + 1}
        BY <3>3, <3>4 DEF Used
      <4> QED
        BY <2>1, <2>2, <4>1
    <3>7. \A m \in Payments :
              /\ payment'[m].status \in {"success", "refunded"} => m \in Used(receipt')
              /\ payment'[m].status \in {"none", "pending"} => m \notin Used(receipt')
      BY <1>5, <1>6, <2>2, <3>4, Tables DEF PaymentTable
    <3> QED
      BY <3>5, <3>6, <3>7 DEF ReceiptsFollowPayments, Used
  <2> QED
    BY <2>4, <2>5
<1>12. drifted' \in BOOLEAN
  OBVIOUS
<1> QED
  BY <1>2, <1>4, <1>7, <1>8, <1>10, <1>11, <1>12, WriteKeeps

LEMMA FailedStep ==
  ASSUME BillInv, NEW j \in Jobs, mark_failed(j)
  PROVE  BillInv'
<1> USE DEF mark_failed
<1>1. job[j].op = "mark_failed"
  BY DEF At
<1>2. /\ job[j] # Idle /\ JobFits(job[j], payment)
      /\ invoice # NoInvoice /\ invoice \in InvoiceRow /\ Balanced(invoice)
  BY <1>1, UnderWay
<1>3. PICK p \in Payments : p = job[j].pay /\ payment[p] # NoRow
  BY <1>1, <1>2 DEF JobFits, PaymentOp
<1>4. payment[p] \in PaymentRow
  BY <1>3, Tables DEF PaymentTable
<1>5. /\ payment' \in PaymentTable
      /\ payment'[p] = [payment[p] EXCEPT !.status = "failed"]
      /\ \A m \in Payments \ {p} : payment'[m] = payment[m]
  BY <1>3, <1>4, Tables DEF PaymentTable, PaymentRow, PaymentStatus
<1>6. payment'[p] # NoRow /\ payment'[p].status = "failed"
  BY <1>4, <1>5 DEF PaymentRow, NoRow
<1>7. TotalsMatchRows'
  <2>1. PICK pm : pm = payment'
    OBVIOUS
  <2>2. ~drifted' => Paid(pm) = Paid(payment)
    <3>1. SUFFICES ASSUME ~drifted' PROVE Paid(pm) = Paid(payment)
      OBVIOUS
    <3>2. payment[p].status # "success"
      BY <1>3, <3>1
    <3>3. \A m \in Payments : /\ pm[m].status = "success" <=> payment[m].status = "success"
                              /\ pm[m].status = "success" => pm[m].amount = payment[m].amount
      BY <1>5, <1>6, <2>1, <3>2
    <3> QED
      BY <3>3, PaidSame
  <2>3. ~drifted' => Totals(charge, pm, DaysLate(invoice.due))
                       = Totals(charge, payment, DaysLate(invoice.due))
    BY <2>2, TotalsSame
  <2>4. TotalsMatchRows
    BY DEF BillInv, Current
  <2> QED
    BY <2>1, <2>3, <2>4 DEF TotalsMatchRows, DaysLate
<1>8. ReceiptsFollowPayments'
  BY <1>5, <1>6 DEF BillInv, Receipts, ReceiptsFollowPayments
<1>9. Balanced(invoice)' /\ invoice' \in InvoiceRow /\ drifted' \in BOOLEAN
  BY <1>2 DEF Balanced, BillInv, BillTypeOK
<1>10. \A m \in Payments : payment[m] # NoRow => payment'[m] # NoRow
  BY <1>5, <1>6
<1> QED
  BY <1>2, <1>5, <1>7, <1>8, <1>9, <1>10, Tables, WriteKeeps

LEMMA CancelStep ==
  ASSUME BillInv, NEW j \in Jobs, cancel(j)
  PROVE  BillInv'
<1> USE DEF cancel
<1>1. job[j] # Idle /\ invoice # NoInvoice /\ invoice \in InvoiceRow /\ Balanced(invoice)
  BY UnderWay DEF At
<1>2. /\ invoice' \in InvoiceRow /\ invoice'.status = "cancelled"
      /\ invoice'.col = invoice.col /\ invoice'.due = invoice.due
  BY <1>1 DEF InvoiceRow, InvoiceStatus
<1>3. Balanced(invoice)'
  BY <1>1, <1>2 DEF Balanced
<1>4. TotalsMatchRows'
  BY <1>1, <1>2 DEF BillInv, Current, TotalsMatchRows, DaysLate
<1>5. ReceiptsFollowPayments' /\ drifted' \in BOOLEAN
  BY DEF BillInv, BillTypeOK, Receipts, ReceiptsFollowPayments
<1> QED
  BY <1>1, <1>2, <1>3, <1>4, <1>5, Tables, WriteKeeps

LEMMA OverdueStep ==
  ASSUME BillInv, NEW j \in Jobs, mark_overdue_if_needed(j)
  PROVE  BillInv'
<1> USE DEF mark_overdue_if_needed
<1>1. job[j].op = "flag_overdue" /\ job[j].pc = "loaded"
  BY DEF At
<1>2. /\ job[j] # Idle /\ job[j] \in JobRow /\ JobFits(job[j], payment)
      /\ JobCurrent(job[j], invoice, charge, payment, date)
      /\ invoice # NoInvoice /\ invoice \in InvoiceRow /\ Balanced(invoice)
  BY <1>1, UnderWay
<1>3. /\ invoice' \in InvoiceRow /\ invoice'.status = "overdue"
      /\ invoice'.col = invoice.col /\ invoice'.due = invoice.due
  BY <1>2 DEF InvoiceRow, InvoiceStatus
<1>4. Balanced(invoice)'
  BY <1>2, <1>3 DEF Balanced
<1>5. ~drifted' => invoice.status \in {"issued", "partially_paid"} /\ ~drifted
  <2>1. SUFFICES ASSUME ~drifted' PROVE invoice.status \in {"issued", "partially_paid"} /\ ~drifted
    OBVIOUS
  <2>2. job[j].behind = "nothing"
    BY <1>1, <1>2, <2>1 DEF JobFits, JobRow
  <2> QED
    BY <1>1, <1>2, <2>1, <2>2 DEF JobCurrent, is_overdue
<1>6. TotalsMatchRows'
  BY <1>2, <1>3, <1>5 DEF BillInv, Current, TotalsMatchRows, DaysLate
<1>7. ReceiptsFollowPayments' /\ drifted' \in BOOLEAN
  BY DEF BillInv, BillTypeOK, Receipts, ReceiptsFollowPayments
<1> QED
  BY <1>2, <1>3, <1>4, <1>6, <1>7, Tables, WriteKeeps

LEMMA WalletStep ==
  ASSUME BillInv, NEW j \in Jobs, pay_from_wallet(j)
  PROVE  BillInv'
<1> USE DEF pay_from_wallet
<1>1. job[j].op = "pay_from_wallet"
  BY DEF At
<1>2. job[j] # Idle /\ job[j] \in JobRow /\ Balanced(job[j].row)
  BY <1>1, UnderWay DEF Carrying
<1>3. PICK col \in Columns : col = job[j].row.col
  BY <1>2 DEF JobRow, InvoiceRow
<1>4. PICK new : new = [col EXCEPT !.paid = @ + col.remaining, !.remaining = 0]
  OBVIOUS
<1>5. /\ new \in Columns
      /\ new.discount = col.discount /\ new.subtotal = col.subtotal /\ new.penalty = col.penalty
      /\ new.total = col.total /\ new.paid = col.paid + col.remaining /\ new.remaining = 0
  <2>1. col.paid \in Nat /\ col.remaining \in Nat
    BY DEF Columns
  <2>2. col.paid + col.remaining \in Nat
    BY <2>1
  <2>3. new = [subtotal |-> col.subtotal, discount |-> col.discount, penalty |-> col.penalty,
               total |-> col.total, paid |-> col.paid + col.remaining, remaining |-> 0]
    BY <1>4 DEF Columns
  <2> QED
    BY <2>2, <2>3 DEF Columns
<1>6. invoice' = [status |-> "paid", due |-> job[j].row.due, col |-> new]
  BY <1>3, <1>4
<1>7. invoice' \in InvoiceRow
  BY <1>2, <1>5, <1>6 DEF JobRow, InvoiceRow, InvoiceStatus
<1>8. Balanced(invoice)'
  <2>1. /\ col.discount <= col.subtotal
        /\ col.total = (col.subtotal - col.discount) + col.penalty
        /\ col.remaining = IF col.paid < col.total THEN col.total - col.paid ELSE 0
    BY <1>2, <1>3 DEF Balanced
  <2>2. col.total \in Nat /\ col.paid \in Nat
    BY DEF Columns
  <2>3. ~(new.paid < new.total)
    BY <1>5, <2>1, <2>2
  <2>4. invoice'.col = new /\ invoice'.status = "paid"
    BY <1>6
  <2>5. /\ new.discount <= new.subtotal
        /\ new.total = (new.subtotal - new.discount) + new.penalty
        /\ new.remaining = IF new.paid < new.total THEN new.total - new.paid ELSE 0
    BY <1>5, <2>1, <2>3
  <2> QED
    BY <1>5, <2>4, <2>5 DEF Balanced
<1>9. TotalsMatchRows' /\ ReceiptsFollowPayments' /\ drifted' \in BOOLEAN
  BY DEF BillInv, Receipts, ReceiptsFollowPayments, TotalsMatchRows
<1> QED
  BY <1>2, <1>7, <1>8, <1>9, Tables, WriteKeeps

LEMMA PutStep ==
  ASSUME BillInv, NEW j \in Jobs, PutInvoice(j)
  PROVE  BillInv'
<1> USE DEF PutInvoice
<1>1. job[j].op = "put" /\ job[j].pc = "loaded"
  BY DEF At
<1>2. /\ job[j] # Idle /\ job[j] \in JobRow /\ Balanced(job[j].row)
      /\ JobFits(job[j], payment) /\ JobCurrent(job[j], invoice, charge, payment, date)
      /\ invoice # NoInvoice
  BY <1>1, UnderWay DEF Carrying
<1> PICK due \in Nat :
         /\ invoice' = [job[j].row EXCEPT !.due = due]
         /\ drifted' = (\/ drifted \/ job[j].behind = "sums"
                        \/ charge["penalty"] > 0 /\ DaysLate(due) # DaysLate(invoice.due))
  BY DEF Dates
<1>3. /\ invoice' \in InvoiceRow /\ Balanced(invoice)' /\ invoice'.due = due
      /\ invoice'.status = job[j].row.status /\ invoice'.col = job[j].row.col
  BY <1>2 DEF JobRow, InvoiceRow, Balanced
<1>4. ~drifted' => /\ invoice'.status = invoice.status
                   /\ invoice'.col = invoice.col /\ ~drifted
  <2>1. SUFFICES ASSUME ~drifted' PROVE /\ job[j].row.status = invoice.status
                                        /\ job[j].row.col = invoice.col /\ ~drifted
    BY <1>3
  <2>2. job[j].behind = "nothing"
    BY <1>1, <1>2, <2>1 DEF JobFits, JobRow
  <2> QED
    BY <1>1, <1>2, <2>1, <2>2 DEF JobCurrent, Carrying
<1>5. TotalsMatchRows'
  <2>1. ~drifted' => Totals(charge, payment, DaysLate(due))
                       = Totals(charge, payment, DaysLate(invoice.due))
    <3>1. SUFFICES ASSUME ~drifted', DaysLate(due) # DaysLate(invoice.due)
                   PROVE  charge["penalty"] * DaysLate(due)
                            = charge["penalty"] * DaysLate(invoice.due)
      BY DEF Totals, _calculate_penalty_total
    <3>2. charge["penalty"] = 0
      <4>1. ~(charge["penalty"] > 0)
        BY <3>1, Zenon
      <4>2. charge["penalty"] \in Nat
        BY Tables DEF ChargeTable, ChargeKind
      <4> QED
        BY <4>1, <4>2
    <3>3. DaysLate(due) \in Nat /\ DaysLate(invoice.due) \in Nat
      BY <1>2, Tables DEF DaysLate, InvoiceRow, BillInv, BillTypeOK
    <3> QED
      BY <3>2, <3>3
  <2>2. DaysLate(invoice.due)' = DaysLate(due)
    BY <1>3 DEF DaysLate
  <2> QED
    BY <1>2, <1>4, <2>1, <2>2 DEF BillInv, Current, TotalsMatchRows
<1>6. ReceiptsFollowPayments' /\ drifted' \in BOOLEAN
  BY DEF BillInv, BillTypeOK, Receipts, ReceiptsFollowPayments
<1> QED
  BY <1>2, <1>3, <1>5, <1>6, Tables, WriteKeeps

LEMMA PendingStep ==
  ASSUME BillInv, RecordPending
  PROVE  BillInv'
<1> USE DEF RecordPending
<1>1. PICK p \in Payments, amount \in Amounts :
         /\ payment[p] = NoRow
         /\ payment' = [payment EXCEPT ![p] = [status |-> "pending", amount |-> amount]]
  OBVIOUS
<1>2. PICK qm : qm = payment'
  OBVIOUS
<1>3. /\ qm \in PaymentTable
      /\ qm[p].status = "pending" /\ qm[p] # NoRow /\ payment[p].status = "none"
      /\ \A m \in Payments \ {p} : qm[m] = payment[m]
  BY <1>1, <1>2, Tables DEF PaymentTable, PaymentRow, PaymentStatus, NoRow
<1>4. BillTypeOK'
  BY <1>2, <1>3 DEF BillInv, BillTypeOK, PaymentTable, PaymentRow
<1>5. ASSUME NEW i \in Jobs, job[i] # Idle
      PROVE  job[i] \in JobRow /\ JobFits(job[i], payment) /\ JobCurrent(job[i], invoice, charge, payment, date)
  BY <1>5, Tables DEF BillInv, Fits, Current
<1>6. Fits'
  <2>1. ASSUME NEW i \in Jobs, job[i] # Idle PROVE JobFits(job[i], qm)
    BY <1>3, <1>5, <2>1 DEF JobFits
  <2> QED
    BY <1>2, <2>1 DEF BillInv, Fits
<1>7. Balance'
  BY DEF BillInv, Balance
<1>8. Current'
  <2>1. \A n : Totals(charge, qm, n) = Totals(charge, payment, n)
    <3>1. \A m \in Payments : /\ qm[m].status = "success" <=> payment[m].status = "success"
                              /\ qm[m].status = "success" => qm[m].amount = payment[m].amount
      BY <1>3
    <3> QED
      BY <3>1, PaidSame, TotalsSame
  <2>2. ASSUME NEW b \in JobRow
        PROVE  \A n : Totals(charge, Seen(b, qm), n) = Totals(charge, Seen(b, payment), n)
    <3>1. CASE b.op \notin Settling
      BY <2>1, <3>1 DEF Seen
    <3>2. CASE b.op \in Settling
      <4>1. PICK s, t : s = Seen(b, qm) /\ t = Seen(b, payment)
        OBVIOUS
      <4>2. \A m \in Payments : s[m] = t[m] \/ (m = p /\ s[m] = qm[m] /\ t[m] = payment[m])
        BY <1>3, <3>2, <4>1, Tables DEF Seen, PaymentTable
      <4>3. \A m \in Payments : /\ s[m].status = "success" <=> t[m].status = "success"
                                /\ s[m].status = "success" => s[m].amount = t[m].amount
        BY <1>3, <4>2
      <4> QED
        BY <4>1, <4>3, PaidSame, TotalsSame
    <3> QED
      BY <3>1, <3>2
  <2>3. ASSUME NEW i \in Jobs, job[i] # Idle PROVE JobCurrent(job[i], invoice, charge, qm, date)
    BY <1>5, <2>2, <2>3 DEF JobCurrent
  <2>4. TotalsMatchRows
    BY DEF BillInv, Current
  <2> QED
    BY <1>2, <2>1, <2>3, <2>4 DEF Current, TotalsMatchRows, DaysLate
<1>9. Receipts'
  <2>1. ReceiptsFollowPayments
    BY DEF BillInv, Receipts
  <2>2. ReceiptsFollowPayments'
    BY <1>2, <1>3, <2>1 DEF ReceiptsFollowPayments
  <2> QED
    BY <2>2 DEF BillInv, Receipts
<1> QED
  BY <1>4, <1>6, <1>7, <1>8, <1>9 DEF BillInv

\* The receipt of another invoice takes the next number.
LEMMA OtherStep ==
  ASSUME BillInv, OtherReceipt
  PROVE  BillInv'
<1> USE DEF OtherReceipt
<1> DEFINE U == Cardinality(Used(receipt))
           N == Cardinality(others) + U
<1>1. U \in Nat /\ Cardinality(others) \in Nat /\ next_receipt_number = N + 1
  BY NextNumber DEF BillInv, Receipts
<1>2. others \cup {receipt[m] : m \in Used(receipt)} = 1 .. N
  BY DEF BillInv, Receipts, ReceiptsFollowPayments, Used
<1> HIDE DEF U
<1>3. /\ N + 1 \notin others /\ IsFiniteSet(others) /\ others \in SUBSET (Nat \ {0})
      /\ others' = others \cup {N + 1}
  BY <1>1, <1>2, Tables
<1>4. /\ IsFiniteSet(others') /\ others' \in SUBSET (Nat \ {0})
      /\ Cardinality(others') = Cardinality(others) + 1
  <2>1. N + 1 \in Nat \ {0}
    BY <1>1
  <2> HIDE DEF N
  <2>2. IsFiniteSet(others') /\ Cardinality(others') = Cardinality(others) + 1
    BY <1>3, FS_AddElement
  <2> QED
    BY <1>3, <2>1, <2>2
<1>5. BillTypeOK'
  BY <1>4 DEF BillInv, BillTypeOK
<1>6. Fits' /\ Balance'
  BY DEF BillInv, Fits, Balance
<1>7. Current'
  BY DEF BillInv, Current, TotalsMatchRows, DaysLate
<1>8. Receipts'
  <2>1. others' \cup {receipt[m] : m \in Used(receipt)} = 1 .. Cardinality(others') + U
    BY <1>1, <1>2, <1>3, <1>4
  <2>2. ReceiptsFollowPayments'
    BY <2>1 DEF BillInv, Receipts, ReceiptsFollowPayments, Used, U
  <2>3. ASSUME NEW i \in Jobs, job[i] # Idle PROVE Numbered(job[i], receipt, others')
    <3>1. Numbered(job[i], receipt, others) /\ job[i].number \in Nat
      BY <2>3, Tables DEF BillInv, Receipts, JobRow
    <3> QED
      BY <1>1, <1>4, <3>1 DEF Numbered, Used, U
  <2> QED
    BY <2>2, <2>3 DEF Receipts
<1> QED
  BY <1>5, <1>6, <1>7, <1>8 DEF BillInv

\* A day adds nothing to a penalty there is none of, or that is not late yet.
LEMMA DayAdds ==
  ASSUME NEW c \in ChargeTable, NEW pm, NEW due \in Nat, NEW day \in Nat,
         ~(c["penalty"] > 0 /\ due <= day)
  PROVE  Totals(c, pm, Late(due, day + 1)) = Totals(c, pm, Late(due, day))
<1>1. c["penalty"] \in Nat
  BY DEF ChargeTable, ChargeKind
<1>2. Late(due, day) \in Nat /\ Late(due, day + 1) \in Nat
  BY DEF Late
<1>3. c["penalty"] * Late(due, day + 1) = c["penalty"] * Late(due, day)
  <2>1. CASE c["penalty"] = 0
    BY <1>2, <2>1
  <2>2. CASE c["penalty"] # 0
    <3>1. ~(due <= day)
      BY <1>1, <2>2
    <3>2. Late(due, day + 1) = 0 /\ Late(due, day) = 0
      BY <3>1 DEF Late
    <3> QED
      BY <3>2
  <2> QED
    BY <2>1, <2>2
<1> QED
  BY <1>3 DEF Totals, _calculate_penalty_total

LEMMA DayStep ==
  ASSUME BillInv, DayPasses
  PROVE  BillInv'
<1> USE DEF DayPasses
<1>1. date' = date + 1 /\ date' \in Nat /\ date \in Nat /\ charge \in ChargeTable
  BY Tables
<1>2. \A b \in JobRow : [b EXCEPT !.behind = "sums"] \in JobRow
  BY DEF JobRow
<1>3. /\ job' \in [Jobs -> JobRow \cup {Idle}]
      /\ \A i \in Jobs : job'[i] = job[i] \/ (job[i] # Idle /\ job'[i] = [job[i] EXCEPT !.behind = "sums"])
  BY <1>2, Tables
<1>4. BillTypeOK'
  BY <1>1, <1>3 DEF BillInv, BillTypeOK, JobRow
<1>5. ASSUME NEW i \in Jobs, job'[i] # Idle
      PROVE  /\ job[i] # Idle /\ job[i] \in JobRow
             /\ job'[i].op = job[i].op /\ job'[i].pc = job[i].pc /\ job'[i].row = job[i].row
             /\ job'[i].pay = job[i].pay /\ job'[i].amount = job[i].amount
             /\ job'[i].number = job[i].number
  BY <1>3, <1>5, Tables DEF JobRow
<1>6. ASSUME NEW i \in Jobs, job'[i] # Idle
      PROVE  \/ job'[i].behind = "sums" /\ job[i].pc # "loaded"
             \/ /\ job'[i].behind = job[i].behind
                /\ job[i].pc # "loaded" => ~Grows(job[i].row.due)
  BY <1>5, <1>6, Tables DEF JobRow
<1>7. Fits'
  <2>1. ASSUME NEW i \in Jobs, job'[i] # Idle PROVE JobFits(job'[i], payment)
    <3>1. JobFits(job[i], payment)
      BY <1>5, <2>1 DEF BillInv, Fits
    <3> QED
      BY <1>5, <1>6, <2>1, <3>1 DEF JobFits
  <2> QED
    BY <1>5, <2>1 DEF BillInv, Fits
<1>8. Balance'
  <2>1. ASSUME NEW i \in Jobs, job'[i] # Idle, job'[i].pc # "loaded" \/ job'[i].op \in Carrying
        PROVE  Balanced(job'[i].row)
    BY <1>5, <2>1 DEF BillInv, Balance
  <2> QED
    BY <2>1 DEF Balance, BillInv
<1>9. TotalsMatchRows'
  <2>1. SUFFICES ASSUME invoice # NoInvoice, ~drifted'
                 PROVE  /\ ~drifted
                        /\ Totals(charge, payment, DaysLate(invoice.due)')
                             = Totals(charge, payment, DaysLate(invoice.due))
    BY DEF BillInv, Current, TotalsMatchRows
  <2>2. ~drifted /\ ~Grows(invoice.due)
    BY <2>1, Zenon
  <2>3. invoice.due \in Nat
    BY <2>1 DEF BillInv, BillTypeOK, InvoiceRow
  <2> QED
    BY <1>1, <2>2, <2>3, DayAdds DEF Grows, DaysLate, Late
<1>10. Current'
  <2>1. ASSUME NEW i \in Jobs, job'[i] # Idle
        PROVE  JobCurrent(job'[i], invoice, charge, payment, date + 1)
    <3> DEFINE b == job[i]
               c == job'[i]
    <3>1. JobCurrent(b, invoice, charge, payment, date) /\ b.row.due \in Nat
      BY <1>5, <2>1 DEF BillInv, Current, JobRow, InvoiceRow
    <3>2. CASE c.behind = "sums" /\ b.pc # "loaded"
      BY <1>5, <2>1, <3>1, <3>2 DEF JobCurrent
    <3>3. CASE c.behind = b.behind /\ b.pc = "loaded"
      BY <1>5, <2>1, <3>1, <3>3 DEF JobCurrent
    <3>4. CASE c.behind = b.behind /\ ~Grows(b.row.due)
      <4>1. /\ c.op = b.op /\ c.pc = b.pc /\ c.row = b.row /\ c.pay = b.pay
            /\ c.amount = b.amount /\ c.behind = b.behind
        BY <1>5, <2>1, <3>4
      <4>2. Seen(c, payment) = Seen(b, payment)
        BY <4>1 DEF Seen, Settled
      <4>3. Totals(charge, Seen(b, payment), Late(b.row.due, date + 1))
              = Totals(charge, Seen(b, payment), Late(b.row.due, date))
        BY <1>1, <3>1, <3>4, DayAdds DEF Grows
      <4>4. PICK x, y : x = b /\ y = c
        OBVIOUS
      <4> HIDE DEF b, c
      <4>5. JobCurrent(y, invoice, charge, payment, date + 1)
        BY <3>1, <4>1, <4>2, <4>3, <4>4 DEF JobCurrent
      <4> QED
        BY <4>4, <4>5 DEF c
    <3> QED
      BY <1>6, <2>1, <3>2, <3>3, <3>4
  <2> QED
    BY <1>1, <1>9, <2>1 DEF Current
<1>11. Receipts'
  <2>1. ASSUME NEW i \in Jobs, job'[i] # Idle PROVE Numbered(job'[i], receipt, others)
    <3>1. Numbered(job[i], receipt, others)
      BY <1>5, <2>1 DEF BillInv, Receipts
    <3> QED
      BY <1>5, <2>1, <3>1 DEF Numbered
  <2> QED
    BY <2>1 DEF BillInv, Receipts, ReceiptsFollowPayments
<1> QED
  BY <1>4, <1>7, <1>8, <1>10, <1>11 DEF BillInv

LEMMA CreateStep ==
  ASSUME BillInv, create_invoice
  PROVE  BillInv'
<1> USE DEF create_invoice
<1>1. \A i \in Jobs : job[i] = Idle
  BY DEF BillInv, Fits
<1> PICK due \in Dates, items \in {0, 1} :
         /\ charge' = [charge EXCEPT !["item"] = items]
         /\ invoice' = recalculate_totals("draft", due, charge', payment)
  OBVIOUS
<1> due \in Nat
  BY DEF Dates
<1>2. PICK c : c = charge'
  OBVIOUS
<1>3. c \in ChargeTable
  BY <1>2, Tables DEF ChargeTable, ChargeKind
<1>4. PICK row : row = invoice'
  OBVIOUS
<1>5. row = recalculate_totals("draft", due, c, payment)
  BY <1>2, <1>4
<1>6. /\ row \in InvoiceRow /\ row.col = Totals(c, payment, DaysLate(due)) /\ row.due = due
      /\ Balanced(row) /\ Decided(row)
  BY <1>3, <1>5, Tables, Recalculated DEF InvoiceStatus
<1>7. row # NoInvoice
  BY <1>6 DEF InvoiceRow, InvoiceStatus, NoInvoice
<1>8. BillTypeOK'
  BY <1>2, <1>3, <1>4, <1>6 DEF BillInv, BillTypeOK, ChargeTable
<1>9. Fits' /\ Balance'
  BY <1>1, <1>4, <1>6, <1>7 DEF Fits, Balance
<1>10. Current'
  BY <1>1, <1>2, <1>4, <1>6 DEF Current, TotalsMatchRows, Decided, DaysLate
<1>11. Receipts'
  BY <1>1 DEF BillInv, Receipts, ReceiptsFollowPayments
<1> QED
  BY <1>8, <1>9, <1>10, <1>11 DEF BillInv

LEMMA BillInvStep == BillInv /\ [BillNext]_billVars => BillInv'
<1> SUFFICES ASSUME BillInv, [BillNext]_billVars PROVE BillInv'
  OBVIOUS
<1>1. CASE UNCHANGED billVars
  <2>1. BillTypeOK' /\ Fits' /\ Balance' /\ Receipts'
    BY <1>1 DEF billVars, BillInv, BillTypeOK, Fits, Balance, Receipts, ReceiptsFollowPayments
  <2>2. Current'
    BY <1>1 DEF billVars, BillInv, Current, TotalsMatchRows, DaysLate
  <2> QED
    BY <2>1, <2>2 DEF BillInv
<1>2. CASE create_invoice \/ RecordPending \/ OtherReceipt \/ DayPasses
  BY <1>2, CreateStep, PendingStep, OtherStep, DayStep
<1>3. ASSUME NEW j \in Jobs, NEW op \in InvoiceOp \cup ChargeOp, LoadInvoice(j, op)
      PROVE  BillInv'
  <2>1. /\ op \notin PaymentOp /\ op # "refund" /\ started' \in Nat
        /\ NoPayment \notin Payments
    BY <1>3, BillingAssumption
       DEF LoadInvoice, Begins, InvoiceOp, ChargeOp, PaymentOp, BillInv, BillTypeOK
  <2> QED
    BY <1>3, <2>1, LoadKeeps DEF LoadInvoice
<1>4. ASSUME NEW j \in Jobs, NEW m \in Payments, NEW op \in PaymentOp, LoadPayment(j, m, op)
      PROVE  BillInv'
  <2>1. /\ m # NoPayment /\ op # "issue" /\ started' \in Nat
        /\ invoice # NoInvoice
    BY <1>4, BillingAssumption
       DEF LoadPayment, Begins, PaymentOp, BillInv, BillTypeOK, Fits
  <2> QED
    BY <1>4, <2>1, LoadKeeps DEF LoadPayment
<1>5. ASSUME NEW j \in Jobs,
             \/ ReadCharge(j) \/ ReadIssue(j) \/ ReadNewPayment(j) \/ ReadOldPayment(j)
             \/ SaveTotals(j)
      PROVE  BillInv'
  BY <1>5, ChargeStep, IssueStep, NewPaymentStep, OldPaymentStep, SaveStep
<1>6. ASSUME NEW j \in Jobs,
             \/ WriteTotals(j) \/ WritePayment(j) \/ mark_failed(j) \/ cancel(j)
             \/ mark_overdue_if_needed(j) \/ pay_from_wallet(j) \/ PutInvoice(j) \/ Abandon(j)
      PROVE  BillInv'
  BY <1>6, WriteTotalsStep, WritePaymentStep, FailedStep, CancelStep, OverdueStep, WalletStep,
     PutStep, AbandonKeeps
<1> QED
  BY <1>1, <1>2, <1>3, <1>4, <1>5, <1>6 DEF BillNext

-----------------------------------------------------------------------------
(***************************************************************************)
(* The invariant holds of every behaviour, whatever jobs race or die.      *)
(***************************************************************************)
THEOREM BillInvariant == BillSpec => []BillInv
BY BillInvInit, BillInvStep, PTL DEF BillSpec

(***************************************************************************)
(* The columns of an invoice agree with one another and with a status that *)
(* claims payment, whatever races, dies or saves an old instance.          *)
(***************************************************************************)
THEOREM ColumnsAlwaysBalance == BillSpec => []ColumnsBalance
<1>1. BillInv => ColumnsBalance
  BY DEF BillInv, Balance, Balanced, ColumnsBalance
<1> QED
  BY <1>1, BillInvariant, PTL

(***************************************************************************)
(* The columns are the sums of the rows and decide the status, until a     *)
(* race, a wallet payment, a failed success, a change of the days in a     *)
(* penalty or a charge half done makes them drift.                         *)
(***************************************************************************)
THEOREM TotalsFollowRows == BillSpec => []TotalsMatchRows
<1>1. BillInv => TotalsMatchRows
  BY DEF BillInv, Current
<1> QED
  BY <1>1, BillInvariant, PTL

(***************************************************************************)
(* A payment that succeeded, refunded since or not, has a receipt, one     *)
(* that is unrecorded or pending has none, and the numbers of all receipts *)
(* are 1, 2, 3, ... with no gap and no number twice.                       *)
(***************************************************************************)
THEOREM ReceiptsInOrder == BillSpec => []ReceiptsFollowPayments
<1>1. BillInv => ReceiptsFollowPayments
  BY DEF BillInv, Receipts
<1> QED
  BY <1>1, BillInvariant, PTL

(***************************************************************************)
(* A cancelled invoice leaves that status only by a wallet payment or by   *)
(* the write of a job that another has overtaken.                          *)
(***************************************************************************)
THEOREM CancelledIsFinal == BillSpec => CancelledStays
<1> DEFINE Revives == (invoice.status = "cancelled" /\ invoice'.status # "cancelled") =>
                        \E j \in Jobs : /\ job[j] # Idle /\ job'[j] = Idle
                                       /\ \/ job[j].op = "pay_from_wallet"
                                          \/ job[j].behind # "nothing"
<1>1. BillInv /\ [BillNext]_billVars => [Revives]_billVars
  <2> SUFFICES ASSUME BillInv, [BillNext]_billVars,
                      invoice.status = "cancelled", invoice'.status # "cancelled"
               PROVE  \E j \in Jobs : /\ job[j] # Idle /\ job'[j] = Idle
                                     /\ \/ job[j].op = "pay_from_wallet"
                                        \/ job[j].behind # "nothing"
    OBVIOUS
  <2>1. invoice # NoInvoice /\ invoice' # invoice
    BY DEF NoInvoice
  <2>2. PICK j \in Jobs : \/ WriteTotals(j) \/ WritePayment(j) \/ cancel(j)
                          \/ mark_overdue_if_needed(j) \/ pay_from_wallet(j) \/ PutInvoice(j)
    <3>1. ~create_invoice /\ ~RecordPending /\ ~OtherReceipt /\ ~DayPasses /\ BillNext
      BY <2>1 DEF create_invoice, RecordPending, OtherReceipt, DayPasses, billVars
    <3>2. ASSUME NEW j \in Jobs
          PROVE  /\ \A op \in InvoiceOp \cup ChargeOp : ~LoadInvoice(j, op)
                 /\ \A m \in Payments, op \in PaymentOp : ~LoadPayment(j, m, op)
                 /\ ~ReadCharge(j) /\ ~ReadIssue(j) /\ ~ReadOldPayment(j) /\ ~ReadNewPayment(j)
                 /\ ~SaveTotals(j) /\ ~mark_failed(j) /\ ~Abandon(j)
      BY <2>1 DEF LoadInvoice, LoadPayment, ReadCharge, ReadIssue, ReadNewPayment, ReadOldPayment,
                  ReadPayment, SaveTotals, mark_failed, Abandon
    <3> QED
      BY <3>1, <3>2, Zenon DEF BillNext
  <2>3. job[j].op # "none" /\ job' = Overtake(j)
    BY <2>2 DEF WriteTotals, WritePayment, cancel, mark_overdue_if_needed, pay_from_wallet,
                PutInvoice, At, ChargeOp
  <2>4. job[j] # Idle /\ job'[j] = Idle /\ JobCurrent(job[j], invoice, charge, payment, date)
    BY <2>3, UnderWay, Overtaken DEF BillInv
  <2>5. job[j].behind = "nothing" => job[j].op = "pay_from_wallet"
    <3>1. SUFFICES ASSUME job[j].behind = "nothing", ~pay_from_wallet(j) PROVE FALSE
      BY DEF pay_from_wallet, At
    <3>2. CASE WriteTotals(j) \/ WritePayment(j)
      <4>1. job[j].pc # "loaded" /\ invoice'.status = job[j].row.status
        BY <2>3, <3>2, WrittenRow DEF WriteTotals, WritePayment, At
      <4> QED
        BY <2>4, <3>1, <3>2, <4>1 DEF JobCurrent
    <3>3. CASE cancel(j)
      BY <2>1, <3>3 DEF cancel, BillInv, BillTypeOK, InvoiceRow
    <3>4. CASE mark_overdue_if_needed(j)
      BY <2>4, <3>1, <3>4 DEF mark_overdue_if_needed, At, JobCurrent, is_overdue
    <3>5. CASE PutInvoice(j)
      BY <2>4, <3>1, <3>5 DEF PutInvoice, At, JobCurrent
    <3> QED
      BY <2>2, <3>1, <3>2, <3>3, <3>4, <3>5
  <2> QED
    BY <2>4, <2>5
<1> QED
  BY <1>1, BillInvariant, PTL DEF BillSpec, CancelledStays

-----------------------------------------------------------------------------
(***************************************************************************)
(* Proof that a billing cycle bills every residence of every period it     *)
(* moves past, for any residences, runs and bounds.                        *)
(*                                                                         *)
(* A slow run may set next_run_date back behind periods a faster one has   *)
(* billed meanwhile.  The invariant therefore speaks of the periods a run  *)
(* has behind it and ahead of it, and not only of those of the cycle.      *)
(***************************************************************************)

Invoice == [residence : Residences, period : Days]

RunType ==
    /\ today \in Days
    /\ nextRun \in Nat
    /\ issued \in Seq(Invoice)
    /\ run \in [Runs -> [pc : {"loop", "numbered"}, period : Days, todo : SUBSET Residences,
                         for : Residences \cup {Nobody}, number : Nat] \cup {AtRest}]

Bills(n, r, k) == issued[n].residence = r /\ issued[n].period = k
Billed(r, k) == \E n \in 1 .. Len(issued) : Bills(n, r, k)
RunOf(w, k) == Working(w) /\ run[w].period = k

\* What lies behind: the periods before the cycle's date and before a run's period are
\* billed, and so is what a run has done of its own.
BehindBilled ==
    /\ \A r \in Residences, k \in Days : k < nextRun => Billed(r, k)
    /\ \A w \in Runs : Working(w) =>
          /\ \A r \in Residences, k \in Days : k < run[w].period => Billed(r, k)
          /\ \A r \in Residences \ run[w].todo : Billed(r, run[w].period)
          /\ run[w].pc = "numbered" => run[w].for \in run[w].todo

\* What lies ahead of the cycle and of every run is not billed yet.
AheadUnbilled ==
    \A k \in Days \ troubled :
       /\ k > nextRun => \A w \in Runs : ~RunOf(w, k)
       /\ k >= nextRun /\ (\A w \in Runs : ~RunOf(w, k)) => \A r \in Residences : ~Billed(r, k)
       /\ \A w \in Runs : Working(w) /\ run[w].period < k =>
             /\ \A v \in Runs : ~RunOf(v, k)
             /\ \A r \in Residences : ~Billed(r, k)

\* A period without trouble has one run, which has not billed what it has yet to do.
OneRun ==
    \A k \in Days \ troubled, w \in Runs : RunOf(w, k) =>
       /\ \A v \in Runs : RunOf(v, k) => v = w
       /\ \A r \in run[w].todo : ~Billed(r, k)

BilledOnce ==
    \A k \in Days \ troubled, r \in Residences, n, m \in 1 .. Len(issued) :
       Bills(n, r, k) /\ Bills(m, r, k) => n = m

RunInv == RunType /\ BehindBilled /\ AheadUnbilled /\ OneRun /\ BilledOnce

LEMMA RunInvInit == RunInit => RunInv
<1> SUFFICES ASSUME RunInit PROVE RunInv
  OBVIOUS
<1> USE DEF RunInit, Working
<1>1. RunType
  BY RunAssumption DEF RunType, Days
<1>2. BehindBilled /\ OneRun
  BY DEF BehindBilled, OneRun, RunOf, Days
<1>3. AheadUnbilled /\ BilledOnce
  BY DEF AheadUnbilled, BilledOnce, RunOf, Billed
<1>4. QED
  BY <1>1, <1>2, <1>3 DEF RunInv

-----------------------------------------------------------------------------
(* The steps.                                                              *)

LEMMA run_due_cyclesInv ==
  ASSUME RunInv, NEW w \in Runs, run_due_cycles(w) PROVE RunInv'
<1> DEFINE new == [pc |-> "loop", period |-> nextRun, todo |-> Residences,
                   for |-> Nobody, number |-> 0]
<1>1. /\ run[w] = AtRest
      /\ nextRun \in Days
      /\ run' = [run EXCEPT ![w] = new]
      /\ UNCHANGED <<today, nextRun, issued>>
  BY RunAssumption DEF run_due_cycles, Working, due_for_generation, RunInv, RunType, Days
<1>2. /\ troubled \subseteq troubled'
      /\ \A v \in Runs \ {w} : Working(v) => run[v].period \in troubled' /\ nextRun \in troubled'
  BY DEF run_due_cycles, Beside
<1>3. /\ new.period = nextRun /\ new.todo = Residences /\ new.pc = "loop" /\ new # AtRest
      /\ new \in [pc : {"loop", "numbered"}, period : Days, todo : SUBSET Residences,
                  for : Residences \cup {Nobody}, number : Nat]
  BY <1>1 DEF AtRest
<1> HIDE DEF new
<1>4. run'[w] = new /\ \A v \in Runs \ {w} : run'[v] = run[v]
  BY <1>1 DEF RunInv, RunType
<1>5. RunType'
  BY <1>1, <1>3 DEF RunInv, RunType
<1>6. \A r, k : Billed(r, k)' <=> Billed(r, k)
  BY <1>1 DEF Billed, Bills
<1>7. \A v \in Runs : \A k : RunOf(v, k)' <=> RunOf(v, k) \/ (v = w /\ k = nextRun)
  BY <1>1, <1>3, <1>4 DEF RunOf, Working
<1>8. BehindBilled'
  BY <1>1, <1>3, <1>4, <1>6 DEF RunInv, BehindBilled, Working
<1>9. AheadUnbilled'
  <2> SUFFICES ASSUME NEW k \in Days \ troubled'
               PROVE  /\ k > nextRun => \A v \in Runs : ~RunOf(v, k)'
                      /\ k >= nextRun /\ (\A v \in Runs : ~RunOf(v, k)') =>
                            \A r \in Residences : ~Billed(r, k)
                      /\ \A v \in Runs : Working(v)' /\ run'[v].period < k =>
                            /\ \A x \in Runs : ~RunOf(x, k)'
                            /\ \A r \in Residences : ~Billed(r, k)
    BY <1>1, <1>6 DEF AheadUnbilled
  <2>1. k \in Nat /\ nextRun \in Nat /\ k \notin troubled
    BY <1>2 DEF Days, RunInv, RunType
  <2>2. k > nextRun => \A v \in Runs : ~RunOf(v, k)'
    BY <1>7, <2>1 DEF RunInv, AheadUnbilled
  <2>3. k >= nextRun /\ (\A v \in Runs : ~RunOf(v, k)') => \A r \in Residences : ~Billed(r, k)
    BY <1>7, <2>1 DEF RunInv, AheadUnbilled
  <2>4. ASSUME NEW v \in Runs, Working(v)', run'[v].period < k
        PROVE  /\ \A x \in Runs : ~RunOf(x, k)'
               /\ \A r \in Residences : ~Billed(r, k)
    <3>1. CASE v = w
      <4>1. k > nextRun
        BY <1>3, <1>4, <2>1, <2>4, <3>1
      <4>2. \A x \in Runs : ~RunOf(x, k)
        BY <2>1, <4>1 DEF RunInv, AheadUnbilled
      <4>3. QED
        BY <1>7, <2>1, <4>1, <4>2 DEF RunInv, AheadUnbilled
    <3>2. CASE v # w
      <4>1. Working(v) /\ run[v].period < k
        BY <1>4, <2>4, <3>2 DEF Working
      <4>2. k # nextRun
        BY <1>2, <3>2, <4>1
      <4>3. QED
        BY <1>7, <2>1, <4>1, <4>2 DEF RunInv, AheadUnbilled
    <3>3. QED
      BY <3>1, <3>2
  <2>5. QED
    BY <2>2, <2>3, <2>4
<1>10. OneRun'
  <2> SUFFICES ASSUME NEW k \in Days \ troubled', NEW v \in Runs, RunOf(v, k)'
               PROVE  /\ \A x \in Runs : RunOf(x, k)' => x = v
                      /\ \A r \in run'[v].todo : ~Billed(r, k)
    BY <1>6 DEF OneRun
  <2>1. k \notin troubled /\ nextRun \in Nat /\ k \in Nat
    BY <1>2 DEF RunInv, RunType, Days
  <2>2. CASE v = w
    <3>1. k = nextRun
      BY <1>3, <1>4, <2>2 DEF RunOf
    <3>2. \A x \in Runs : ~RunOf(x, k)
      BY <1>1, <1>2, <3>1 DEF RunOf, Working
    <3>3. \A r \in Residences : ~Billed(r, k)
      BY <2>1, <3>1, <3>2 DEF RunInv, AheadUnbilled
    <3>4. QED
      BY <1>3, <1>4, <1>7, <2>2, <3>2, <3>3
  <2>3. CASE v # w
    <3>1. Working(v) /\ run[v].period = k /\ k \in troubled'
      BY <1>2, <1>4, <2>3 DEF RunOf, Working
    <3>2. QED
      BY <3>1
  <2>4. QED
    BY <2>2, <2>3
<1>11. BilledOnce'
  BY <1>1, <1>2 DEF RunInv, BilledOnce, Bills
<1>12. QED
  BY <1>5, <1>8, <1>9, <1>10, <1>11 DEF RunInv

\* A step of one run within its loop leaves its period, and what others do, alone.
LEMMA LoopStep ==
  ASSUME RunInv, NEW w \in Runs, Working(w),
         NEW row \in [pc : {"loop", "numbered"}, period : Days, todo : SUBSET Residences,
                      for : Residences \cup {Nobody}, number : Nat],
         run' = [run EXCEPT ![w] = row], row.period = run[w].period
  PROVE  /\ run'[w] = row /\ \A v \in Runs \ {w} : run'[v] = run[v]
         /\ \A v \in Runs : Working(v)' <=> Working(v)
         /\ \A v \in Runs : Working(v) => run'[v].period = run[v].period
         /\ \A v \in Runs : \A k : RunOf(v, k)' <=> RunOf(v, k)
<1>1. run'[w] = row /\ \A v \in Runs \ {w} : run'[v] = run[v]
  BY DEF RunInv, RunType
<1>2. row # AtRest
  BY DEF AtRest
<1>3. \A v \in Runs : Working(v)' <=> Working(v)
  BY <1>1, <1>2 DEF Working
<1>4. QED
  BY <1>1, <1>3 DEF RunOf

LEMMA next_invoice_numberInv ==
  ASSUME RunInv, NEW w \in Runs, next_invoice_number(w) PROVE RunInv'
<1>1. PICK r \in run[w].todo \ uncomputable :
         run' = [run EXCEPT ![w].pc = "numbered", ![w].for = r, ![w].number = Len(issued) + 1]
  BY DEF next_invoice_number
<1>2. run[w].pc = "loop" /\ UNCHANGED <<today, nextRun, issued, troubled>>
  BY DEF next_invoice_number
<1>3. Working(w) /\ run[w] \in [pc : {"loop", "numbered"}, period : Days, todo : SUBSET Residences,
                                for : Residences \cup {Nobody}, number : Nat]
  BY <1>2 DEF Working, AtRest, RunInv, RunType
<1> DEFINE row == [run[w] EXCEPT !.pc = "numbered", !.for = r, !.number = Len(issued) + 1]
<1>4. /\ row \in [pc : {"loop", "numbered"}, period : Days, todo : SUBSET Residences,
                  for : Residences \cup {Nobody}, number : Nat]
      /\ row.period = run[w].period /\ row.todo = run[w].todo /\ row.for \in row.todo
  <2>1. Len(issued) + 1 \in Nat
    BY DEF RunInv, RunType
  <2>2. r \in run[w].todo /\ r \in Residences
    BY <1>3
  <2>3. QED
    BY <1>3, <2>1, <2>2
<1>5. run' = [run EXCEPT ![w] = row]
  BY <1>1
<1> HIDE DEF row
<1>6. RunType'
  BY <1>2, <1>4, <1>5 DEF RunInv, RunType
<1>7. /\ run'[w] = row /\ \A v \in Runs \ {w} : run'[v] = run[v]
      /\ \A v \in Runs : Working(v)' <=> Working(v)
      /\ \A v \in Runs : Working(v) => run'[v].period = run[v].period
      /\ \A v \in Runs : \A k : RunOf(v, k)' <=> RunOf(v, k)
  BY <1>3, <1>4, <1>5, LoopStep
<1>8. \A x, k : Billed(x, k)' <=> Billed(x, k)
  BY <1>2 DEF Billed, Bills
<1>9. \A v \in Runs : Working(v) => run'[v].todo = run[v].todo
  BY <1>4, <1>7
<1>10. BehindBilled'
  BY <1>2, <1>4, <1>7, <1>8, <1>9 DEF RunInv, BehindBilled
<1>11. AheadUnbilled'
  BY <1>2, <1>7, <1>8 DEF RunInv, AheadUnbilled
<1>12. OneRun' /\ BilledOnce'
  BY <1>2, <1>7, <1>8, <1>9 DEF RunInv, OneRun, BilledOnce, RunOf, Bills
<1>13. QED
  BY <1>6, <1>10, <1>11, <1>12 DEF RunInv

LEMMA generateInv ==
  ASSUME RunInv, NEW w \in Runs, generate_invoice_for_residence(w) PROVE RunInv'
<1> DEFINE p == run[w].period
           r == run[w].for
           row == [run[w] EXCEPT !.pc = "loop", !.for = Nobody, !.number = 0, !.todo = @ \ {r}]
<1>0. PICK n \in Nat : n = Len(issued) + 1
  BY DEF RunInv, RunType
<1>1. /\ run[w].pc = "numbered"
      /\ issued' = Append(issued, [residence |-> r, period |-> p])
      /\ run' = [run EXCEPT ![w] = row]
      /\ UNCHANGED <<today, nextRun, troubled>>
  BY DEF generate_invoice_for_residence
<1>2. Working(w) /\ run[w] \in [pc : {"loop", "numbered"}, period : Days, todo : SUBSET Residences,
                                for : Residences \cup {Nobody}, number : Nat]
  BY <1>1 DEF Working, AtRest, RunInv, RunType
<1>3. r \in run[w].todo /\ r \in Residences /\ p \in Days
  BY <1>1, <1>2 DEF RunInv, BehindBilled
<1>4. /\ row \in [pc : {"loop", "numbered"}, period : Days, todo : SUBSET Residences,
                  for : Residences \cup {Nobody}, number : Nat]
      /\ row.period = p /\ row.todo = run[w].todo \ {r} /\ row.pc = "loop"
  BY <1>2
<1> HIDE DEF row
<1>5. /\ run'[w] = row /\ \A v \in Runs \ {w} : run'[v] = run[v]
      /\ \A v \in Runs : Working(v)' <=> Working(v)
      /\ \A v \in Runs : Working(v) => run'[v].period = run[v].period
      /\ \A v \in Runs : \A k : RunOf(v, k)' <=> RunOf(v, k)
  BY <1>1, <1>2, <1>4, LoopStep
<1>6. /\ issued' \in Seq(Invoice)
      /\ Len(issued') = n
      /\ issued'[n] = [residence |-> r, period |-> p]
      /\ \A m \in 1 .. Len(issued) : issued'[m] = issued[m]
      /\ Len(issued) \in Nat
  <2>1. [residence |-> r, period |-> p] \in Invoice /\ issued \in Seq(Invoice)
    BY <1>3 DEF Invoice, RunInv, RunType
  <2> HIDE DEF r, p
  <2>2. QED
    BY <1>0, <1>1, <2>1
<1> HIDE DEF r, p
<1>7. RunType'
  BY <1>1, <1>4, <1>6 DEF RunInv, RunType
<1>8. \A x, k : Billed(x, k)' <=> Billed(x, k) \/ (x = r /\ k = p)
  BY <1>0, <1>6 DEF Billed, Bills
<1>9. BehindBilled'
  BY <1>1, <1>4, <1>5, <1>8 DEF RunInv, BehindBilled, p
<1>10. RunOf(w, p)
  BY <1>2 DEF RunOf, p
<1>11. AheadUnbilled'
  BY <1>1, <1>5, <1>8, <1>10 DEF RunInv, AheadUnbilled
<1>12. OneRun'
  <2> SUFFICES ASSUME NEW k \in Days \ troubled, NEW v \in Runs, RunOf(v, k)
               PROVE  /\ \A x \in Runs : RunOf(x, k) => x = v
                      /\ \A x \in run'[v].todo : ~Billed(x, k)'
    BY <1>1, <1>5 DEF OneRun
  <2>1. \A x \in Runs : RunOf(x, k) => x = v
    BY DEF RunInv, OneRun
  <2>2. \A x \in run[v].todo : ~Billed(x, k)
    BY DEF RunInv, OneRun
  <2>3. CASE v = w
    BY <1>4, <1>5, <1>8, <2>1, <2>2, <2>3
  <2>4. CASE v # w
    <3>1. k # p
      BY <1>10, <2>1, <2>4
    <3>2. QED
      BY <1>5, <1>8, <2>1, <2>2, <2>4, <3>1
  <2>5. QED
    BY <2>3, <2>4
<1>13. BilledOnce'
  <2> SUFFICES ASSUME NEW k \in Days \ troubled, NEW x \in Residences,
                      NEW i \in 1 .. n, NEW j \in 1 .. n, Bills(i, x, k)', Bills(j, x, k)'
               PROVE  i = j
    BY <1>1, <1>6 DEF BilledOnce
  <2>1. \A m \in 1 .. Len(issued) : \A y, l : Bills(m, y, l)' <=> Bills(m, y, l)
    BY <1>6 DEF Bills
  <2>2. Bills(n, x, k)' => x = r /\ k = p
    BY <1>6 DEF Bills
  <2>3. k = p => ~Billed(r, k)
    BY <1>3, <1>10 DEF RunInv, OneRun, r
  <2>4. \A m \in 1 .. Len(issued) : Bills(m, x, k) => Billed(x, k)
    BY DEF Billed
  <2>5. i \in 1 .. Len(issued) \/ i = n
    BY <1>0, <1>6
  <2>6. j \in 1 .. Len(issued) \/ j = n
    BY <1>0, <1>6
  <2>7. CASE i = n \/ j = n
    BY <2>1, <2>2, <2>3, <2>4, <2>5, <2>6, <2>7
  <2>8. CASE i # n /\ j # n
    BY <2>1, <2>5, <2>6, <2>8 DEF RunInv, BilledOnce
  <2>9. QED
    BY <2>7, <2>8
<1>14. QED
  BY <1>7, <1>9, <1>11, <1>12, <1>13 DEF RunInv

\* A run that ends without moving the cycle leaves its period troubled.
LEMMA BreaksOffInv ==
  ASSUME RunInv, NEW w \in Runs, Working(w), BreaksOff(w), UNCHANGED <<today, nextRun, issued>>
  PROVE  RunInv'
<1>1. run' = [run EXCEPT ![w] = AtRest] /\ troubled' = troubled \cup {run[w].period}
  BY DEF BreaksOff
<1>2. run'[w] = AtRest /\ \A v \in Runs \ {w} : run'[v] = run[v]
  BY <1>1 DEF RunInv, RunType
<1>3. RunType'
  BY <1>1 DEF RunInv, RunType
<1>4. \A r, k : Billed(r, k)' <=> Billed(r, k)
  BY DEF Billed, Bills
<1>5. \A v \in Runs : Working(v)' => Working(v) /\ run'[v] = run[v]
  BY <1>2 DEF Working
<1>6. \A v \in Runs, k \in Days \ troubled' : RunOf(v, k)' <=> RunOf(v, k)
  BY <1>1, <1>2 DEF RunOf, Working
<1>7. BehindBilled'
  BY <1>4, <1>5 DEF RunInv, BehindBilled
<1>8. AheadUnbilled'
  BY <1>1, <1>4, <1>5, <1>6 DEF RunInv, AheadUnbilled
<1>9. OneRun' /\ BilledOnce'
  BY <1>1, <1>4, <1>5, <1>6 DEF RunInv, OneRun, BilledOnce, RunOf, Bills
<1>10. QED
  BY <1>3, <1>7, <1>8, <1>9 DEF RunInv

LEMMA advance_next_run_dateInv ==
  ASSUME RunInv, NEW w \in Runs, advance_next_run_date(w) PROVE RunInv'
<1>1. PICK p \in Days : p = run[w].period
  BY DEF advance_next_run_date, AtRest, RunInv, RunType
<1>2. /\ run[w].pc = "loop" /\ run[w].todo = {}
      /\ nextRun' = p + 1
      /\ run' = [run EXCEPT ![w] = AtRest]
      /\ UNCHANGED <<today, issued, troubled>>
  BY <1>1 DEF advance_next_run_date
<1>3. Working(w) /\ RunOf(w, p)
  BY <1>1, <1>2 DEF Working, AtRest, RunOf
<1>4. run'[w] = AtRest /\ \A v \in Runs \ {w} : run'[v] = run[v]
  BY <1>2 DEF RunInv, RunType
<1>5. p \in Nat /\ \A k \in Days : k \in Nat
  BY <1>1 DEF Days
<1>6. RunType'
  BY <1>2, <1>5 DEF RunInv, RunType
<1>7. \A r, k : Billed(r, k)' <=> Billed(r, k)
  BY <1>2 DEF Billed, Bills
<1>8. \A v \in Runs : Working(v)' => Working(v) /\ run'[v] = run[v]
  BY <1>4 DEF Working
<1>9. \A v \in Runs : \A k : RunOf(v, k)' => RunOf(v, k)
  BY <1>8 DEF RunOf
<1>10. BehindBilled'
  <2>1. ASSUME NEW r \in Residences, NEW k \in Days, k < p + 1 PROVE Billed(r, k)
    <3>1. CASE k < p
      BY <1>1, <1>3, <3>1 DEF RunInv, BehindBilled
    <3>2. CASE k = p
      BY <1>1, <1>2, <1>3, <3>2 DEF RunInv, BehindBilled
    <3>3. QED
      BY <1>5, <2>1, <3>1, <3>2
  <2>2. QED
    BY <1>2, <1>7, <1>8, <2>1 DEF RunInv, BehindBilled
<1>11. ASSUME NEW k \in Days \ troubled, k > p
       PROVE  (\A v \in Runs : ~RunOf(v, k)) /\ (\A r \in Residences : ~Billed(r, k))
  BY <1>1, <1>3, <1>11, <1>5 DEF RunInv, AheadUnbilled
<1>12. AheadUnbilled'
  <2> SUFFICES ASSUME NEW k \in Days \ troubled
               PROVE  /\ k > p + 1 => \A v \in Runs : ~RunOf(v, k)'
                      /\ k >= p + 1 /\ (\A v \in Runs : ~RunOf(v, k)') =>
                            \A r \in Residences : ~Billed(r, k)
                      /\ \A v \in Runs : Working(v) /\ run[v].period < k =>
                            /\ \A x \in Runs : ~RunOf(x, k)'
                            /\ \A r \in Residences : ~Billed(r, k)
    BY <1>2, <1>7, <1>8 DEF AheadUnbilled
  <2>1. k > p + 1 => \A v \in Runs : ~RunOf(v, k)'
    BY <1>5, <1>9, <1>11
  <2>2. k >= p + 1 => \A r \in Residences : ~Billed(r, k)
    BY <1>5, <1>11
  <2>3. ASSUME NEW v \in Runs, Working(v), run[v].period < k
        PROVE  (\A x \in Runs : ~RunOf(x, k)') /\ (\A r \in Residences : ~Billed(r, k))
    BY <1>9, <2>3 DEF RunInv, AheadUnbilled
  <2>4. QED
    BY <2>1, <2>2, <2>3
<1>13. OneRun' /\ BilledOnce'
  BY <1>2, <1>7, <1>8, <1>9 DEF RunInv, OneRun, BilledOnce, RunOf, Bills
<1>14. QED
  BY <1>6, <1>10, <1>12, <1>13 DEF RunInv

LEMMA RunInvStep == RunInv /\ [RunNext]_runVars => RunInv'
<1> SUFFICES ASSUME RunInv, [RunNext]_runVars PROVE RunInv'
  OBVIOUS
<1>1. ASSUME UNCHANGED <<nextRun, issued, run, troubled>>, today' \in Days PROVE RunInv'
  BY <1>1 DEF RunInv, RunType, BehindBilled, AheadUnbilled, OneRun, BilledOnce, RunOf, Working,
              Billed, Bills
<1>2. CASE UNCHANGED runVars
  BY <1>1, <1>2 DEF runVars, RunInv, RunType
<1>3. CASE NewPeriod
  BY <1>1, <1>3, RunAssumption DEF NewPeriod, RunInv, RunType, Days
<1>4. ASSUME NEW w \in Runs, NumberTaken(w) \/ ChargeFails(w) \/ RunDies(w) PROVE RunInv'
  <2>1. Working(w)
    BY <1>4 DEF NumberTaken, ChargeFails, RunDies, Working, AtRest
  <2>2. QED
    BY <1>4, <2>1, BreaksOffInv DEF NumberTaken, ChargeFails, RunDies
<1>5. QED
  BY <1>2, <1>3, <1>4, run_due_cyclesInv, next_invoice_numberInv, generateInv,
     advance_next_run_dateInv DEF RunNext

\* A set of which any two elements are one has at most one.
LEMMA AtMostOne ==
  ASSUME NEW S, \A x, y \in S : x = y PROVE Cardinality(S) <= 1
<1>1. CASE S = {}
  BY <1>1, FS_EmptySet
<1>2. CASE S # {}
  <2>1. PICK x \in S : TRUE
    BY <1>2
  <2>2. S = {x}
    BY <2>1
  <2>3. QED
    BY <2>2, FS_Singleton
<1>3. QED
  BY <1>1, <1>2

(***************************************************************************)
(* Whatever runs die or overlap, the cycle moves past a period only when   *)
(* every residence is billed for it, and a residence is billed once for a  *)
(* period whose run neither broke off nor ran beside another.              *)
(***************************************************************************)
THEOREM PeriodsBilled == RunSpec => []EveryPeriodBilled
<1>1. RunInv => EveryPeriodBilled
  <2> SUFFICES ASSUME RunInv, NEW r \in Residences, NEW k \in Days
               PROVE  /\ k < nextRun => InvoicesOf(r, k) # {}
                      /\ k \notin troubled => Cardinality(InvoicesOf(r, k)) <= 1
    BY DEF EveryPeriodBilled
  <2>1. k < nextRun => InvoicesOf(r, k) # {}
    BY DEF RunInv, BehindBilled, Billed, Bills, InvoicesOf
  <2>2. ASSUME k \notin troubled PROVE Cardinality(InvoicesOf(r, k)) <= 1
    <3>1. \A n, m \in InvoicesOf(r, k) : n = m
      BY <2>2 DEF RunInv, BilledOnce, Bills, InvoicesOf
    <3>2. QED
      BY <3>1, AtMostOne
  <2>3. QED
    BY <2>1, <2>2
<1>2. QED
  BY RunInvInit, RunInvStep, <1>1, PTL DEF RunSpec

-----------------------------------------------------------------------------
(* The bounds of a cycle: no run's number is past the last one by more than*)
(* one, as long as there are no more invoices than numbers.                *)

RunShape == RunTypeOK /\ Len(issued) <= MaxInvoices

RunRow == [pc : {"loop", "numbered"}, period : Days, todo : SUBSET Residences,
           for : Residences \cup {Nobody}, number : 0 .. MaxInvoices + 1]

LEMMA RunShapeInit == RunInit => RunShape
<1> SUFFICES ASSUME RunInit PROVE RunShape
  OBVIOUS
<1>1. issued = << >> /\ issued \in Seq([residence : Residences, period : Days])
  BY EmptySeq DEF RunInit
<1>2. QED
  BY <1>1, RunAssumption DEF RunInit, RunShape, RunTypeOK, Days

\* A run that is at work has a row of its own.
LEMMA WorkingRow ==
  ASSUME RunShape, NEW w \in Runs, run[w].pc \in {"loop", "numbered"} \/ Working(w)
  PROVE  run[w] \in RunRow
BY DEF RunShape, RunTypeOK, RunRow, AtRest, Working

LEMMA OneRunWrites ==
  ASSUME RunShape, NEW w \in Runs, NEW row \in RunRow \cup {AtRest},
         run' = [run EXCEPT ![w] = row], uncomputable' = uncomputable, today' = today,
         nextRun' \in 0 .. MaxDay + 1, troubled' \subseteq Days,
         issued' \in Seq([residence : Residences, period : Days]),
         Len(issued') <= MaxInvoices
  PROVE  RunShape'
<1>1. run' \in [Runs -> RunRow \cup {AtRest}]
  BY DEF RunShape, RunTypeOK, RunRow
<1>2. QED
  BY <1>1 DEF RunShape, RunTypeOK, RunRow

LEMMA RunShapeStep == RunInv /\ RunShape /\ [RunNext]_runVars => RunShape'
<1> SUFFICES ASSUME RunInv, RunShape, [RunNext]_runVars PROVE RunShape'
  OBVIOUS
<1>1. /\ today \in Days /\ nextRun \in 0 .. MaxDay + 1 /\ troubled \subseteq Days
      /\ issued \in Seq([residence : Residences, period : Days])
      /\ Len(issued) \in Nat /\ Len(issued) <= MaxInvoices
  BY LenProperties DEF RunShape, RunTypeOK
<1>2. CASE UNCHANGED runVars
  BY <1>2 DEF runVars, RunShape, RunTypeOK
<1>3. CASE NewPeriod
  BY <1>3, RunAssumption DEF NewPeriod, RunShape, RunTypeOK, Days
<1>4. ASSUME NEW w \in Runs, run_due_cycles(w) PROVE RunShape'
  <2> DEFINE row == [pc |-> "loop", period |-> nextRun, todo |-> Residences,
                     for |-> Nobody, number |-> 0]
  <2>1. nextRun \in Days
    BY <1>1, <1>4, RunAssumption DEF run_due_cycles, due_for_generation, Days
  <2>2. row \in RunRow
    BY <2>1, RunAssumption DEF RunRow
  <2>3. \A v \in Beside(w) : run[v].period \in Days
    BY WorkingRow DEF Beside, RunRow
  <2>4. troubled' \subseteq Days
    BY <1>1, <1>4, <2>1, <2>3 DEF run_due_cycles
  <2> HIDE DEF row
  <2>5. QED
    BY <1>1, <1>4, <2>2, <2>4, OneRunWrites DEF run_due_cycles, row
<1>5. ASSUME NEW w \in Runs, next_invoice_number(w) PROVE RunShape'
  <2>1. PICK r \in run[w].todo \ uncomputable :
          run' = [run EXCEPT ![w].pc = "numbered", ![w].for = r, ![w].number = Len(issued) + 1]
    BY <1>5 DEF next_invoice_number
  <2>2. run[w] \in RunRow
    BY <1>5, WorkingRow DEF next_invoice_number
  <2> DEFINE row == [run[w] EXCEPT !.pc = "numbered", !.for = r, !.number = Len(issued) + 1]
  <2>3. row \in RunRow
    <3>1. Len(issued) + 1 \in 0 .. MaxInvoices + 1
      BY <1>1, RunAssumption
    <3>2. r \in Residences
      BY <2>2 DEF RunRow
    <3>3. QED
      BY <2>2, <3>1, <3>2 DEF RunRow
  <2>4. run' = [run EXCEPT ![w] = row]
    BY <2>1 DEF RunShape, RunTypeOK
  <2> HIDE DEF row
  <2>5. QED
    BY <1>1, <1>5, <2>3, <2>4, OneRunWrites DEF next_invoice_number
<1>6. ASSUME NEW w \in Runs, generate_invoice_for_residence(w) PROVE RunShape'
  <2>1. /\ run[w].pc = "numbered" /\ Len(issued) < MaxInvoices
        /\ issued' = Append(issued, [residence |-> run[w].for, period |-> run[w].period])
        /\ run' = [run EXCEPT ![w].pc = "loop", ![w].for = Nobody, ![w].number = 0,
                              ![w].todo = @ \ {run[w].for}]
        /\ UNCHANGED <<today, nextRun, troubled, uncomputable>>
    BY <1>6 DEF generate_invoice_for_residence
  <2>2. run[w] \in RunRow
    BY <2>1, WorkingRow
  <2> DEFINE row == [run[w] EXCEPT !.pc = "loop", !.for = Nobody, !.number = 0,
                                   !.todo = @ \ {run[w].for}]
  <2>3. row \in RunRow
    <3>1. 0 \in 0 .. MaxInvoices + 1
      BY RunAssumption
    <3>2. run[w].todo \ {run[w].for} \in SUBSET Residences
      BY <2>2 DEF RunRow
    <3>3. QED
      BY <2>2, <3>1, <3>2 DEF RunRow
  <2>4. run' = [run EXCEPT ![w] = row]
    BY <2>1 DEF RunShape, RunTypeOK
  <2> HIDE DEF row
  <2>5. run[w].for \in Residences
    <3>1. run[w].for \in run[w].todo
      BY <2>1, <2>2 DEF RunInv, BehindBilled, Working, AtRest
    <3>2. QED
      BY <2>2, <3>1 DEF RunRow
  <2>6. issued' \in Seq([residence : Residences, period : Days]) /\ Len(issued') <= MaxInvoices
    BY <1>1, <2>1, <2>2, <2>5, AppendProperties, RunAssumption DEF RunRow
  <2>7. QED
    BY <1>1, <2>1, <2>3, <2>4, <2>6, OneRunWrites
<1>7. ASSUME NEW w \in Runs, NumberTaken(w) \/ ChargeFails(w) \/ RunDies(w) PROVE RunShape'
  <2>1. run[w] \in RunRow
    BY <1>7, WorkingRow DEF NumberTaken, ChargeFails, RunDies
  <2>2. BreaksOff(w) /\ UNCHANGED <<today, nextRun, issued, uncomputable>>
    BY <1>7 DEF NumberTaken, ChargeFails, RunDies
  <2>3. troubled' \subseteq Days
    BY <1>1, <2>1, <2>2 DEF BreaksOff, RunRow
  <2>4. QED
    BY <1>1, <2>2, <2>3, OneRunWrites DEF BreaksOff
<1>8. ASSUME NEW w \in Runs, advance_next_run_date(w) PROVE RunShape'
  <2>1. run[w].period \in Days
    BY <1>8, WorkingRow DEF advance_next_run_date, RunRow
  <2>2. nextRun' \in 0 .. MaxDay + 1
    BY <1>8, <2>1, RunAssumption DEF advance_next_run_date, Days
  <2>3. QED
    BY <1>1, <1>8, <2>2, OneRunWrites DEF advance_next_run_date
<1>9. QED
  BY <1>2, <1>3, <1>4, <1>5, <1>6, <1>7, <1>8 DEF RunNext

-----------------------------------------------------------------------------
(* Billing as a whole: its behaviours are behaviours of both parts.        *)

LEMMA InvoicingStep ==
  [InvoicingNext]_invoicingVars => [BillNext]_billVars /\ [RunNext]_runVars
<1> SUFFICES ASSUME [InvoicingNext]_invoicingVars
             PROVE  [BillNext]_billVars /\ [RunNext]_runVars
  OBVIOUS
<1>1. CASE InvoiceMoves
  BY <1>1 DEF InvoiceMoves
<1>2. CASE CycleMoves
  BY <1>2 DEF CycleMoves
<1>3. CASE UNCHANGED invoicingVars
  BY <1>3 DEF invoicingVars
<1>4. QED
  BY <1>1, <1>2, <1>3 DEF InvoicingNext

(***************************************************************************)
(* Billing implements the specification of the invoice and of the cycle.   *)
(***************************************************************************)
THEOREM InvoicingImplements == InvoicingSpec => BillSpec /\ RunSpec
<1>1. InvoicingInit => BillInit /\ RunInit
  BY DEF InvoicingInit
<1>2. QED
  BY <1>1, InvoicingStep, PTL DEF InvoicingSpec, BillSpec, RunSpec

(***************************************************************************)
(* Every column of the invoice, its payments and the cycle has its type,   *)
(* and no invoice number is given out of the range of the numbers.         *)
(***************************************************************************)
THEOREM InvoicingTypes == InvoicingSpec => []BillingTypeOK
<1>1. BillInv /\ RunShape => BillingTypeOK
  BY DEF BillInv, RunShape, BillingTypeOK
<1>2. QED
  BY <1>1, InvoicingImplements, BillInvInit, BillInvStep, RunInvInit, RunInvStep,
     RunShapeInit, RunShapeStep, PTL DEF BillSpec, RunSpec

=============================================================================
