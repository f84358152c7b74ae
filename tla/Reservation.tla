----------------------------- MODULE Reservation -----------------------------
(***************************************************************************)
(* reservations/: the booking of one facility.  Creation locks the         *)
(* facility row and is one step.  Every other call works on the Reservation*)
(* instance its caller loaded with no lock: it is two steps, Load (the view*)
(* or the job's query) and Save, and what other calls commit in between is *)
(* not seen.  With one element, Handler serves such calls one at a time.   *)
(***************************************************************************)
EXTENDS Integers, Sequences, FiniteSets, Sums

CONSTANTS Handler,          \* requests and jobs running at a time
          Villa,
          Period,           \* the times that bookings can cover
          Booking,          \* intervals asked for, as sets of periods
          Guests,           \* values of guest_count
          Price,            \* values calculate_price returns
          Payment,          \* amounts in the requests, of either sign
          Capacity,         \* Facility.capacity
          Operation,        \* the operations served besides creation
          MaxReservations,  \* bound: rows of the table
          MaxPayments       \* bound: rows of the table of payments

AllOperations == {"approve", "reject", "cancel", "checkin", "checkout",
                  "payment", "refund", "expire", "auto_complete"}

ASSUME OperationAssumption == Operation \subseteq AllOperations
ASSUME BookingAssumption ==
  /\ Booking \subseteq (SUBSET Period) \ {{}}
  /\ Guests \subseteq Nat \ {0}
  /\ Payment \subseteq Int
  /\ Price \cup {Capacity, MaxReservations, MaxPayments} \subseteq Nat

VARIABLES facility,       \* the Facility row's policy and requires_approval
          reservations,   \* Reservation, in primary-key order
          payments,       \* ReservationPayment, in primary-key order
          handler         \* what each handler is doing, on which instances

vars == <<facility, reservations, payments, handler>>

Policy == {"EXCLUSIVE", "PER_VILLA", "CAPACITY"}

ReservationStatus ==
  {"REQUESTED", "APPROVED", "REJECTED", "CANCELLED", "COMPLETED"}

(* The statuses overlapping_reservations counts.                           *)
Active == {"REQUESTED", "APPROVED"}

Id == 1..Len(reservations)

(* checkedIn and checkedOut: whether the time columns are set.             *)
Row == [villa : Villa, when : Booking, guests : Guests, total : Price,
        status : ReservationStatus, checkedIn : BOOLEAN, checkedOut : BOOLEAN,
        paid : Int, remaining : Nat,
        paymentStatus : {"UNPAID", "PARTIAL", "PAID"}]

PaymentType == {"PAYMENT", "REFUND"}

Idle == [op |-> "idle"]

ReservationTypeOK ==
  /\ facility \in [policy : Policy, approval : BOOLEAN]
  /\ reservations \in Seq(Row)
  /\ payments \in Seq([reservation : Id, type : PaymentType, amount : Payment])
  /\ DOMAIN handler = Handler
  /\ \A h \in Handler :
       \/ handler[h] = Idle
       \/ /\ handler[h].op \in Operation
          /\ DOMAIN handler[h].copy \subseteq Id
          /\ \A i \in DOMAIN handler[h].copy : handler[h].copy[i] \in Row

-----------------------------------------------------------------------------
(* Creation: create_reservation under the facility's row lock *)

Overlapping(when) ==
  {i \in Id : /\ reservations[i].status \in Active
              /\ reservations[i].when \cap when # {}}

GuestsOf(ids) == SumOf([i \in ids |-> reservations[i].guests])

(* Mutant of PolicyAllows: only approved bookings take room.               *)
ApprovedOnlyAllows(villa, when, guests) ==
  LET others == {i \in Overlapping(when) : reservations[i].status = "APPROVED"}
  IN CASE facility.policy = "EXCLUSIVE" -> others = {}
       [] facility.policy = "PER_VILLA" ->
            \A i \in others : reservations[i].villa # villa
       [] facility.policy = "CAPACITY" -> GuestsOf(others) + guests <= Capacity

(* validate_reservation_policy.  available_capacity never goes below 0, and*)
(* guests are positive, so the comparison needs no truncation.             *)
PolicyAllows(villa, when, guests) ==
  LET others == Overlapping(when)
  IN CASE facility.policy = "EXCLUSIVE" -> others = {}
       [] facility.policy = "PER_VILLA" ->
            \A i \in others : reservations[i].villa # villa
       [] facility.policy = "CAPACITY" -> GuestsOf(others) + guests <= Capacity

Create(villa, when, guests, price) ==
  /\ Len(reservations) < MaxReservations
  /\ PolicyAllows(villa, when, guests)
  /\ reservations' = Append(reservations,
       [villa |-> villa, when |-> when, guests |-> guests, total |-> price,
        status |-> IF facility.approval THEN "REQUESTED" ELSE "APPROVED",
        checkedIn |-> FALSE, checkedOut |-> FALSE,
        paid |-> 0, remaining |-> price, paymentStatus |-> "UNPAID"])
  /\ UNCHANGED <<facility, payments, handler>>

-----------------------------------------------------------------------------
(* What a service method requires of the instance it is given *)

MayCancel(r) == r.status \notin {"CANCELLED", "COMPLETED"}

MayCheckIn(r) == r.status = "APPROVED" /\ ~r.checkedIn

(* Mutant of MayCheckOut: no check-in is asked for.                        *)
MayLeaveUnentered(r) == ~r.checkedOut

MayCheckOut(r) == r.checkedIn /\ ~r.checkedOut

(* The first statements of each method; for the jobs, their query's filter.*)
(* They read the instance, so they come out the same at any time after the *)
(* load.  A refund's amount is compared with paid in Refund.               *)
Accepts(op, r) ==
  CASE op \in {"approve", "reject", "expire"} -> r.status = "REQUESTED"
    [] op = "cancel" -> MayCancel(r)
    [] op = "checkin" -> MayCheckIn(r)
    [] op = "checkout" -> MayCheckOut(r)
    [] op = "payment" -> TRUE
    [] op = "refund" -> r.paid > 0
    [] op = "auto_complete" -> r.status = "APPROVED"

Load(h, op, ids) ==
  /\ handler[h] = Idle
  /\ \A i \in ids : Accepts(op, reservations[i])
  /\ handler' = [handler EXCEPT
       ![h] = [op |-> op, copy |-> [i \in ids |-> reservations[i]]]]
  /\ UNCHANGED <<facility, reservations, payments>>

(* get_object() of a view's action.                                        *)
ViewLoads(h, op, i) ==
  /\ op \notin {"expire", "auto_complete"}
  /\ Load(h, op, {i})

(* The query of expire_pending_reservations or auto_complete: among the    *)
(* rows in the status, those that are old enough, whichever they are.      *)
JobLoads(h, op, ids) ==
  /\ op \in {"expire", "auto_complete"}
  /\ ids # {}
  /\ Load(h, op, ids)

-----------------------------------------------------------------------------
(* What a service method saves *)

Ends(h) == handler' = [handler EXCEPT ![h] = Idle]

(* save() with no update_fields: approve, reject and cancel write every    *)
(* column, all but the status as loaded.                                   *)
SaveAll(h, op, status) ==
  /\ handler[h].op = op
  /\ reservations' = [i \in Id |->
       IF i \in DOMAIN handler[h].copy
       THEN [handler[h].copy[i] EXCEPT !.status = status]
       ELSE reservations[i]]
  /\ Ends(h)
  /\ UNCHANGED <<facility, payments>>

Approve(h) == SaveAll(h, "approve", "APPROVED")
Reject(h) == SaveAll(h, "reject", "REJECTED")
Cancel(h) == SaveAll(h, "cancel", "CANCELLED")

CheckIn(h) ==
  /\ handler[h].op = "checkin"
  /\ reservations' = [i \in Id |->
       [reservations[i] EXCEPT !.checkedIn = @ \/ i \in DOMAIN handler[h].copy]]
  /\ Ends(h)
  /\ UNCHANGED <<facility, payments>>

(* Mutant of CheckOut: save(update_fields) forgets reservation_status.     *)
CheckOutTimeOnly(h) ==
  /\ handler[h].op = "checkout"
  /\ reservations' = [i \in Id |-> [reservations[i] EXCEPT
       !.checkedOut = @ \/ i \in DOMAIN handler[h].copy]]
  /\ Ends(h)
  /\ UNCHANGED <<facility, payments>>

CheckOut(h) ==
  /\ handler[h].op = "checkout"
  /\ reservations' = [i \in Id |->
       IF i \in DOMAIN handler[h].copy
       THEN [reservations[i] EXCEPT !.checkedOut = TRUE, !.status = "COMPLETED"]
       ELSE reservations[i]]
  /\ Ends(h)
  /\ UNCHANGED <<facility, payments>>

(* expire_pending_reservations and auto_complete write the status alone.   *)
SaveStatus(h, op, status) ==
  /\ handler[h].op = op
  /\ reservations' = [i \in Id |->
       IF i \in DOMAIN handler[h].copy
       THEN [reservations[i] EXCEPT !.status = status]
       ELSE reservations[i]]
  /\ Ends(h)
  /\ UNCHANGED <<facility, payments>>

Expire(h) == SaveStatus(h, "expire", "REJECTED")
AutoComplete(h) == SaveStatus(h, "auto_complete", "COMPLETED")

-----------------------------------------------------------------------------
(* Payments *)

Floor0(n) == IF n < 0 THEN 0 ELSE n

(* Mutant of PaymentStatus: a free reservation counts as paid.             *)
FreeIsPaid(paid, remaining) ==
  CASE remaining = 0 -> "PAID"
    [] remaining # 0 /\ paid = 0 -> "UNPAID"
    [] OTHER -> "PARTIAL"

PaymentStatus(paid, remaining) ==
  CASE paid = 0 -> "UNPAID"
    [] paid # 0 /\ remaining = 0 -> "PAID"
    [] OTHER -> "PARTIAL"

(* Mutant of NewPaid: an overpayment is cut down to the price.             *)
CappedPaid(loaded, type, a) ==
  CASE type = "REFUND" -> Floor0(loaded.paid - a)
    [] loaded.paid + a > loaded.total -> loaded.total
    [] OTHER -> loaded.paid + a

NewPaid(loaded, type, a) ==
  IF type = "REFUND" THEN Floor0(loaded.paid - a) ELSE loaded.paid + a

(* Mutant of WithPaid: max(..., 0) is gone.                                *)
WithPaidNegative(now, loaded, paid) ==
  LET remaining == loaded.total - paid
  IN [now EXCEPT !.paid = paid, !.remaining = remaining,
                 !.paymentStatus = PaymentStatus(paid, remaining)]

(* The three columns register_payment saves: computed from the instance,   *)
(* written over whatever the row holds now.                                *)
WithPaid(now, loaded, paid) ==
  LET remaining == Floor0(loaded.total - paid)
  IN [now EXCEPT !.paid = paid, !.remaining = remaining,
                 !.paymentStatus = PaymentStatus(paid, remaining)]

(* register_payment: the ReservationPayment row, then the three columns.   *)
RegisterPayment(h, type, a) ==
  /\ Len(payments) < MaxPayments
  /\ \E i \in DOMAIN handler[h].copy :
       LET loaded == handler[h].copy[i]
       IN /\ payments' = Append(payments,
               [reservation |-> i, type |-> type, amount |-> a])
          /\ reservations' = [reservations EXCEPT
               ![i] = WithPaid(@, loaded, NewPaid(loaded, type, a))]
  /\ Ends(h)
  /\ UNCHANGED facility

(* The payment action passes the payment_type of the request on, and its   *)
(* amount, whose sign nothing looks at.                                    *)
Pay(h, type, a) ==
  /\ handler[h].op = "payment"
  /\ RegisterPayment(h, type, a)

Refund(h, a) ==
  /\ handler[h].op = "refund"
  /\ a > 0
  /\ \A i \in DOMAIN handler[h].copy : a <= handler[h].copy[i].paid
  /\ RegisterPayment(h, "REFUND", a)

(* A payment or refund that is refused or not made saves nothing.          *)
GiveUp(h) ==
  /\ handler[h].op \in {"payment", "refund"}
  /\ Ends(h)
  /\ UNCHANGED <<facility, reservations, payments>>

-----------------------------------------------------------------------------
ReservationInit ==
  /\ facility \in [policy : Policy, approval : BOOLEAN]
  /\ reservations = << >>
  /\ payments = << >>
  /\ handler = [h \in Handler |-> Idle]

Handle(h) ==
  \/ \E op \in Operation, i \in Id : ViewLoads(h, op, i)
  \/ \E op \in Operation, ids \in SUBSET Id : JobLoads(h, op, ids)
  \/ Approve(h) \/ Reject(h) \/ Cancel(h)
  \/ CheckIn(h) \/ CheckOut(h)
  \/ Expire(h) \/ AutoComplete(h)
  \/ \E a \in Payment, type \in PaymentType : Pay(h, type, a)
  \/ \E a \in Payment : Refund(h, a)
  \/ GiveUp(h)

ReservationNext ==
  \/ \E villa \in Villa, when \in Booking, guests \in Guests, price \in Price :
       Create(villa, when, guests, price)
  \/ \E h \in Handler : Handle(h)

ReservationSpec == ReservationInit /\ [][ReservationNext]_vars

-----------------------------------------------------------------------------
(* The policy, and properties of calls handled one at a time *)

(* validate_reservation_policy: at no moment does the facility hold more   *)
(* than its policy allows, whichever way the bookings overlap and whatever *)
(* has been approved, cancelled or completed since they were made.         *)
WithinPolicy ==
  \A p \in Period :
    LET there == {i \in Id : /\ reservations[i].status \in Active
                             /\ p \in reservations[i].when}
    IN CASE facility.policy = "EXCLUSIVE" -> \A i, j \in there : i = j
         [] facility.policy = "PER_VILLA" ->
              \A i, j \in there :
                reservations[i].villa = reservations[j].villa => i = j
         [] facility.policy = "CAPACITY" -> GuestsOf(there) <= Capacity

(* An approval of an instance loaded before its row was turned down.       *)
StaleApproval ==
  \E h \in Handler :
    Approve(h) /\ \E i \in DOMAIN handler[h].copy : reservations[i].status \notin Active

(* However many calls overlap, nothing else overbooks the facility: a step *)
(* that breaks the policy is such an approval.                             *)
OnlyStaleApprovalOverbooks ==
  [][WithinPolicy /\ ~StaleApproval => WithinPolicy']_vars

(* A stay is entered before it is left, only an approved reservation is    *)
(* entered, and one that has been entered is never turned down.            *)
StayInOrder ==
  \A i \in Id :
    LET r == reservations[i]
    IN /\ r.checkedOut => r.checkedIn
       /\ r.checkedIn => r.status \in {"APPROVED", "CANCELLED", "COMPLETED"}

(* The statuses move forward: only a request is approved, nothing leaves   *)
(* COMPLETED, and a cancelled reservation is completed only by checking out*)
(* of a stay that had begun.                                               *)
ReservationLifecycle ==
  [][\A i \in Id :
       LET was == reservations[i].status
           now == reservations'[i].status
       IN \/ now = was
          \/ was = "REQUESTED" /\ now \in {"APPROVED", "REJECTED", "CANCELLED"}
          \/ was = "APPROVED" /\ now \in {"CANCELLED", "COMPLETED"}
          \/ was = "REJECTED" /\ now = "CANCELLED"
          \/ /\ was = "CANCELLED" /\ now = "COMPLETED"
             /\ reservations[i].checkedIn]_vars

(* What a row of payments moves, and the sum of the rows about a           *)
(* reservation: what moves in less what moves out.                         *)
Moved(row) == IF row.type = "REFUND" THEN -row.amount ELSE row.amount
NetReceived(i) ==
  LET about == {k \in DOMAIN payments : payments[k].reservation = i}
  IN SumOf([k \in about |-> Floor0(Moved(payments[k]))])
       - SumOf([k \in about |-> Floor0(-Moved(payments[k]))])

(* paid_amount never falls short of what the ReservationPayment rows say   *)
(* was received and not given back.                                        *)
PaidCoversRows ==
  \A i \in Id : reservations[i].paid >= NetReceived(i)

-----------------------------------------------------------------------------
(* Properties that hold however the calls overlap *)

(* remaining_amount and payment_status are what paid_amount and total_price*)
(* make them: no mix of full and partial saves leaves the columns of two   *)
(* different payments in one row.                                          *)
PaymentColumnsAgree ==
  \A i \in Id :
    LET r == reservations[i]
    IN /\ r.remaining = Floor0(r.total - r.paid)
       /\ (r.paymentStatus = "UNPAID") <=> (r.paid = 0)
       /\ (r.paymentStatus = "PAID") <=> (r.paid > 0 /\ r.paid >= r.total)

(* A reservation with a check-out time is COMPLETED.                       *)
CheckedOutIsCompleted ==
  \A i \in Id : reservations[i].checkedOut => reservations[i].status = "COMPLETED"
=============================================================================
