-------------------------- MODULE ReservationProofs --------------------------
(***************************************************************************)
(* Theorems about Reservation, for any number of overlapping calls.        *)
(*                                                                         *)
(* A full save writes a loaded instance back and a payment is computed from*)
(* one, so what is to hold of every row has to hold of every instance in   *)
(* some handler's hands as well.  With calls handled one at a time, those  *)
(* instances are the rows as they are, and more can be said.               *)
(***************************************************************************)
EXTENDS Reservation, SequenceTheorems, FiniteSetTheorems, TLAPS

Busy(h) == handler[h] # Idle

(* One row of PaymentColumnsAgree.                                         *)
ColumnsAgree(r) ==
  /\ r.remaining = Floor0(r.total - r.paid)
  /\ (r.paymentStatus = "UNPAID") <=> (r.paid = 0)
  /\ (r.paymentStatus = "PAID") <=> (r.paid > 0 /\ r.paid >= r.total)

(* A payment writes what it computes from the total of its instance into a *)
(* row: the totals have to be the same.                                    *)
ColumnsInv ==
  /\ ReservationTypeOK
  /\ \A i \in Id : ColumnsAgree(reservations[i])
  /\ \A h \in Handler : Busy(h) =>
       \A i \in DOMAIN handler[h].copy :
         /\ ColumnsAgree(handler[h].copy[i])
         /\ handler[h].copy[i].total = reservations[i].total

(* One row of CheckedOutIsCompleted.                                       *)
LeftIsCompleted(r) == r.checkedOut => r.status = "COMPLETED"

(* approve, reject and cancel, the calls that write back the check-out time*)
(* of their instance, were given one that nobody had left.                 *)
NotLeft(h) ==
  handler[h].op \in {"approve", "reject", "cancel"} =>
    \A i \in DOMAIN handler[h].copy : ~handler[h].copy[i].checkedOut

CompletedInv ==
  /\ ReservationTypeOK
  /\ CheckedOutIsCompleted
  /\ \A h \in Handler : Busy(h) => NotLeft(h)

-----------------------------------------------------------------------------
(* Types *)

(* A table of the same length is still a sequence of rows.                 *)
LEMMA SameRows ==
  ASSUME ReservationTypeOK, NEW f \in [Id -> Row]
  PROVE  f \in Seq(Row) /\ Len(f) = Len(reservations)
<1>1. Len(reservations) \in Nat
  BY LenProperties DEF ReservationTypeOK
<1>2. f \in Seq(Row)
  BY <1>1, SeqDef DEF Id
<1>3. QED
  BY <1>1, <1>2, LenProperties DEF Id

(* The last step of a call: rows and payments typed, the handler idle.     *)
LEMMA EndTyped ==
  ASSUME ReservationTypeOK, NEW h \in Handler, Ends(h),
         facility' = facility, reservations' \in [Id -> Row],
         payments' \in Seq([reservation : Id, type : PaymentType, amount : Payment])
  PROVE  ReservationTypeOK'
<1>1. reservations' \in Seq(Row) /\ Len(reservations') = Len(reservations)
  BY SameRows
<1>2. Id' = Id
  BY <1>1 DEF Id
<1>3. DOMAIN handler' = Handler
  BY DEF Ends, ReservationTypeOK
<1>4. \A g \in Handler : handler'[g] = IF g = h THEN Idle ELSE handler[g]
  BY DEF Ends, ReservationTypeOK
<1>5. facility' \in [policy : Policy, approval : BOOLEAN]
  BY DEF ReservationTypeOK
<1>6. QED
  BY <1>1, <1>2, <1>3, <1>4, <1>5 DEF ReservationTypeOK

(* A new row: the rows that calls hold are still there.                    *)
LEMMA CreateTyped ==
  ASSUME ReservationTypeOK, NEW villa \in Villa, NEW when \in Booking,
         NEW guests \in Guests, NEW price \in Price,
         Create(villa, when, guests, price)
  PROVE  ReservationTypeOK'
<1> DEFINE row == [villa |-> villa, when |-> when, guests |-> guests,
        total |-> price,
        status |-> IF facility.approval THEN "REQUESTED" ELSE "APPROVED",
        checkedIn |-> FALSE, checkedOut |-> FALSE,
        paid |-> 0, remaining |-> price, paymentStatus |-> "UNPAID"]
<1>1. row \in Row
  BY BookingAssumption DEF Row, ReservationStatus
<1>2. reservations' = Append(reservations, row)
  BY DEF Create
<1>3. reservations' \in Seq(Row) /\ Len(reservations') = Len(reservations) + 1
  BY <1>1, <1>2, AppendProperties DEF ReservationTypeOK
<1>4. Id \subseteq Id'
  BY <1>3, LenProperties DEF Id, ReservationTypeOK
<1>5. payments' \in Seq([reservation : Id', type : PaymentType, amount : Payment])
  <2>1. [reservation : Id, type : PaymentType, amount : Payment]
          \subseteq [reservation : Id', type : PaymentType, amount : Payment]
    BY <1>4
  <2>2. payments \in Seq([reservation : Id, type : PaymentType, amount : Payment])
    BY DEF ReservationTypeOK
  <2>3. payments' = payments
    BY DEF Create
  <2>4. QED
    BY <2>1, <2>2, <2>3, SeqMonotonic
<1>6. QED
  BY <1>3, <1>4, <1>5 DEF Create, ReservationTypeOK

(* A load gives the handler rows of the table.                             *)
LEMMA LoadTyped ==
  ASSUME ReservationTypeOK, NEW h \in Handler, NEW op \in Operation,
         NEW ids \in SUBSET Id, Load(h, op, ids)
  PROVE  ReservationTypeOK'
<1>1. Id' = Id
  BY DEF Load, Id
<1>2. \A i \in ids : reservations[i] \in Row
  BY ElementOfSeq DEF ReservationTypeOK, Id
<1>3. DOMAIN handler' = Handler
  BY DEF Load, ReservationTypeOK
<1>4. \A g \in Handler :
        handler'[g] = IF g = h
                      THEN [op |-> op, copy |-> [i \in ids |-> reservations[i]]]
                      ELSE handler[g]
  BY DEF Load, ReservationTypeOK
<1>5. QED
  BY <1>1, <1>2, <1>3, <1>4 DEF Load, ReservationTypeOK

LEMMA WorkingIsBusy ==
  ASSUME NEW h, handler[h].op \in AllOperations
  PROVE  Busy(h)
<1>1. Idle.op = "idle" /\ "idle" \notin AllOperations
  BY DEF Idle, AllOperations
<1>2. QED
  BY <1>1 DEF Busy

(* Saves of columns that a call decides itself.                            *)
LEMMA SaveTyped ==
  ASSUME ReservationTypeOK, NEW h \in Handler,
         \/ Approve(h) \/ Reject(h) \/ Cancel(h) \/ CheckIn(h) \/ CheckOut(h)
         \/ Expire(h) \/ AutoComplete(h)
  PROVE  ReservationTypeOK'
<1>1. Busy(h)
  <2>1. handler[h].op \in AllOperations
    BY DEF Approve, Reject, Cancel, CheckIn, CheckOut, Expire, AutoComplete,
           SaveAll, SaveStatus, AllOperations
  <2>2. QED
    BY <2>1, WorkingIsBusy
<1>2. /\ handler[h].op \in Operation
      /\ \A i \in DOMAIN handler[h].copy : handler[h].copy[i] \in Row
  BY <1>1 DEF Busy, ReservationTypeOK
<1>3. \A i \in Id : reservations[i] \in Row
  BY ElementOfSeq DEF ReservationTypeOK, Id
<1>4. reservations' \in [Id -> Row]
  <2>1. CASE \E op, status : /\ status \in {"APPROVED", "REJECTED", "CANCELLED"}
                             /\ SaveAll(h, op, status)
    BY <1>2, <1>3, <2>1 DEF SaveAll, Row, ReservationStatus
  <2>2. CASE CheckIn(h)
    BY <1>3, <2>2 DEF CheckIn, Row
  <2>3. CASE CheckOut(h)
    BY <1>3, <2>3 DEF CheckOut, Row, ReservationStatus
  <2>4. CASE \E op, status : /\ status \in {"REJECTED", "COMPLETED"}
                             /\ SaveStatus(h, op, status)
    BY <1>3, <2>4 DEF SaveStatus, Row, ReservationStatus
  <2>5. QED
    BY <2>1, <2>2, <2>3, <2>4
       DEF Approve, Reject, Cancel, Expire, AutoComplete
<1>5. Ends(h) /\ UNCHANGED <<facility, payments>>
  BY DEF Approve, Reject, Cancel, CheckIn, CheckOut, Expire, AutoComplete,
         SaveAll, SaveStatus
<1>6. QED
  BY <1>4, <1>5, EndTyped DEF ReservationTypeOK

(* Whatever the loaded instance was, the three columns come out well typed.*)
LEMMA PaidTyped ==
  ASSUME NEW now \in Row, NEW loaded \in Row, NEW a \in Payment,
         NEW type \in PaymentType
  PROVE  /\ NewPaid(loaded, type, a) \in Int
         /\ WithPaid(now, loaded, NewPaid(loaded, type, a)) \in Row
<1>1. /\ loaded.paid \in Int /\ loaded.total \in Nat /\ a \in Int
  BY BookingAssumption DEF Row
<1>2. NewPaid(loaded, type, a) \in Int
  BY <1>1 DEF NewPaid, Floor0
<1> DEFINE paid == NewPaid(loaded, type, a)
           remaining == Floor0(loaded.total - paid)
<1> HIDE DEF paid
<1>3. paid \in Int
  BY <1>2 DEF paid
<1>4. remaining \in Nat
  BY <1>1, <1>3 DEF Floor0
<1> HIDE DEF remaining
<1>5. PaymentStatus(paid, remaining) \in {"UNPAID", "PARTIAL", "PAID"}
  BY DEF PaymentStatus
<1>6. WithPaid(now, loaded, paid)
        = [now EXCEPT !.paid = paid, !.remaining = remaining,
                      !.paymentStatus = PaymentStatus(paid, remaining)]
  BY DEF WithPaid, remaining
<1>7. WithPaid(now, loaded, paid) \in Row
  BY <1>3, <1>4, <1>5, <1>6 DEF Row
<1>8. QED
  BY <1>2, <1>7 DEF paid

LEMMA RegisterPaymentTyped ==
  ASSUME ReservationTypeOK, NEW h \in Handler, Busy(h), NEW a \in Payment,
         NEW type \in PaymentType, RegisterPayment(h, type, a)
  PROVE  ReservationTypeOK'
<1>1. PICK i \in DOMAIN handler[h].copy :
        /\ payments' = Append(payments,
             [reservation |-> i, type |-> type, amount |-> a])
        /\ reservations' = [reservations EXCEPT
             ![i] = WithPaid(@, handler[h].copy[i],
                             NewPaid(handler[h].copy[i], type, a))]
  BY DEF RegisterPayment
<1>2. i \in Id /\ handler[h].copy[i] \in Row
  BY DEF Busy, ReservationTypeOK
<1>3. reservations[i] \in Row /\ reservations \in [Id -> Row]
  BY <1>2, ElementOfSeq, LenProperties DEF ReservationTypeOK, Id
<1>4. reservations' \in [Id -> Row]
  BY <1>1, <1>2, <1>3, PaidTyped
<1>5. payments' \in Seq([reservation : Id, type : PaymentType, amount : Payment])
  BY <1>1, <1>2, AppendProperties DEF ReservationTypeOK
<1>6. QED
  BY <1>4, <1>5, EndTyped DEF RegisterPayment

(* The steps of a handler, one by one.                                     *)
Saves(h) ==
  \/ Approve(h) \/ Reject(h) \/ Cancel(h) \/ CheckIn(h) \/ CheckOut(h)
  \/ Expire(h) \/ AutoComplete(h)

Registers(h) ==
  /\ Busy(h)
  /\ \E a \in Payment, type \in PaymentType : RegisterPayment(h, type, a)

LEMMA HandleCases ==
  ASSUME ReservationTypeOK, NEW h \in Handler, Handle(h)
  PROVE  \/ \E op \in Operation, ids \in SUBSET Id : Load(h, op, ids)
         \/ Saves(h) \/ Registers(h) \/ GiveUp(h)
<1>1. CASE \E op \in Operation, i \in Id : ViewLoads(h, op, i)
  BY <1>1 DEF ViewLoads
<1>2. CASE \E op \in Operation, ids \in SUBSET Id : JobLoads(h, op, ids)
  BY <1>2 DEF JobLoads
<1>3. CASE Saves(h)
  BY <1>3
<1>4. CASE \E a \in Payment, type \in PaymentType : Pay(h, type, a)
  BY <1>4, WorkingIsBusy DEF Pay, AllOperations, Registers
<1>5. CASE \E a \in Payment : Refund(h, a)
  BY <1>5, WorkingIsBusy DEF Refund, AllOperations, Registers, PaymentType
<1>6. CASE GiveUp(h)
  BY <1>6
<1>7. QED
  BY <1>1, <1>2, <1>3, <1>4, <1>5, <1>6 DEF Handle, Saves

LEMMA TypeInit == ReservationInit => ReservationTypeOK
<1> SUFFICES ASSUME ReservationInit PROVE ReservationTypeOK
  OBVIOUS
<1>1. reservations \in Seq(Row) /\ payments \in
        Seq([reservation : Id, type : PaymentType, amount : Payment])
  BY EmptySeq DEF ReservationInit
<1>2. QED
  BY <1>1 DEF ReservationInit, ReservationTypeOK

LEMMA TypeStep == ReservationTypeOK /\ [ReservationNext]_vars => ReservationTypeOK'
<1> SUFFICES ASSUME ReservationTypeOK, [ReservationNext]_vars
             PROVE  ReservationTypeOK'
  OBVIOUS
<1>1. CASE UNCHANGED vars
  BY <1>1 DEF vars, ReservationTypeOK, Id
<1>2. CASE \E villa \in Villa, when \in Booking, guests \in Guests,
              price \in Price : Create(villa, when, guests, price)
  BY <1>2, CreateTyped
<1>3. ASSUME NEW h \in Handler, Handle(h)
      PROVE  ReservationTypeOK'
  <2>1. CASE \E op \in Operation, ids \in SUBSET Id : Load(h, op, ids)
    BY <2>1, LoadTyped
  <2>2. CASE Saves(h)
    BY <2>2, SaveTyped DEF Saves
  <2>3. CASE Registers(h)
    BY <2>3, RegisterPaymentTyped DEF Registers
  <2>4. CASE GiveUp(h)
    <3>1. reservations \in [Id -> Row]
      BY LenProperties DEF ReservationTypeOK, Id
    <3>2. QED
      BY <2>4, <3>1, EndTyped DEF GiveUp, ReservationTypeOK
  <2>5. QED
    BY <1>3, <2>1, <2>2, <2>3, <2>4, HandleCases
<1>4. QED
  BY <1>1, <1>2, <1>3 DEF ReservationNext

(* Every value of the tables, and of every instance a call works on, has   *)
(* its type.                                                               *)
THEOREM ReservationTypes == ReservationSpec => []ReservationTypeOK
<1>1. QED
  BY TypeInit, TypeStep, PTL DEF ReservationSpec

-----------------------------------------------------------------------------
(* Payment columns *)

(* Instances are dropped when a call ends, never changed.                  *)
LEMMA EndHolds ==
  ASSUME ReservationTypeOK, NEW h \in Handler, Ends(h), NEW g \in Handler, Busy(g)'
  PROVE  Busy(g) /\ handler'[g] = handler[g]
BY DEF Ends, Busy, ReservationTypeOK

LEMMA NewColumnsAgree ==
  ASSUME NEW now \in Row, NEW loaded \in Row, NEW paid \in Int,
         loaded.total = now.total
  PROVE  /\ ColumnsAgree(WithPaid(now, loaded, paid))
         /\ WithPaid(now, loaded, paid).total = now.total
<1> DEFINE remaining == Floor0(loaded.total - paid)
           row == WithPaid(now, loaded, paid)
<1>1. loaded.total \in Nat
  BY BookingAssumption DEF Row
<1>2. /\ row.paid = paid /\ row.remaining = remaining
      /\ row.paymentStatus = PaymentStatus(paid, remaining)
      /\ row.total = loaded.total
  BY DEF WithPaid, Row
<1>3. remaining = 0 <=> paid >= loaded.total
  BY <1>1 DEF Floor0
<1>4. /\ PaymentStatus(paid, remaining) = "UNPAID" <=> paid = 0
      /\ PaymentStatus(paid, remaining) = "PAID" <=> paid # 0 /\ remaining = 0
  BY DEF PaymentStatus
<1>5. QED
  BY <1>1, <1>2, <1>3, <1>4 DEF ColumnsAgree

LEMMA ColumnsCreate ==
  ASSUME ColumnsInv, ReservationTypeOK', NEW villa \in Villa, NEW when \in Booking,
         NEW guests \in Guests, NEW price \in Price,
         Create(villa, when, guests, price)
  PROVE  ColumnsInv'
<1> DEFINE n == Len(reservations)
<1>1. price \in Nat
  BY BookingAssumption
<1>2. /\ n \in Nat /\ Len(reservations') = n + 1
      /\ \A i \in 1..n : reservations'[i] = reservations[i]
  BY AppendProperties, LenProperties DEF Create, ColumnsInv, ReservationTypeOK
<1>3. /\ reservations'[n + 1].total = price
      /\ reservations'[n + 1].paid = 0
      /\ reservations'[n + 1].remaining = price
      /\ reservations'[n + 1].paymentStatus = "UNPAID"
  BY AppendProperties DEF Create, ColumnsInv, ReservationTypeOK
<1>4. ColumnsAgree(reservations'[n + 1])
  BY <1>1, <1>3 DEF ColumnsAgree, Floor0
<1>5. \A i \in Id' : ColumnsAgree(reservations[i])'
  BY <1>2, <1>4 DEF ColumnsInv, Id, ColumnsAgree
<1>6. handler' = handler
  BY DEF Create
<1>7. \A h \in Handler : Busy(h) => DOMAIN handler[h].copy \subseteq 1..n
  BY DEF ColumnsInv, ReservationTypeOK, Busy, Id
<1>8. QED
  BY <1>2, <1>5, <1>6, <1>7 DEF ColumnsInv, ColumnsAgree, Busy

LEMMA ColumnsLoad ==
  ASSUME ColumnsInv, ReservationTypeOK', NEW h \in Handler, NEW op \in Operation,
         NEW ids \in SUBSET Id, Load(h, op, ids)
  PROVE  ColumnsInv'
<1>1. reservations' = reservations /\ Id' = Id
  BY DEF Load, Id
<1> DEFINE copy == [j \in ids |-> reservations[j]]
<1>2. \A g \in Handler :
        handler'[g] = IF g = h THEN [op |-> op, copy |-> copy] ELSE handler[g]
  BY DEF Load, ColumnsInv, ReservationTypeOK
<1>3. ASSUME NEW g \in Handler, Busy(g)', NEW i \in DOMAIN handler'[g].copy
      PROVE  /\ ColumnsAgree(handler'[g].copy[i])
             /\ handler'[g].copy[i].total = reservations'[i].total
  <2>1. CASE g = h
    <3>1. handler'[g].copy = copy
      <4> HIDE DEF copy
      <4>1. QED
        BY <1>2, <2>1
    <3>2. i \in ids /\ handler'[g].copy[i] = reservations[i]
      BY <1>3, <3>1
    <3>3. QED
      BY <1>1, <3>2 DEF ColumnsInv
  <2>2. CASE g # h
    <3>1. handler'[g] = handler[g]
      BY <1>2, <2>2
    <3>2. Busy(g)
      BY <1>3, <3>1 DEF Busy
    <3>3. QED
      BY <1>1, <1>3, <3>1, <3>2 DEF ColumnsInv
  <2>3. QED
    BY <2>1, <2>2
<1>4. \A i \in Id' : ColumnsAgree(reservations'[i])
  BY <1>1 DEF ColumnsInv
<1>5. QED
  BY <1>3, <1>4 DEF ColumnsInv, ColumnsAgree

(* Rows that agree, with the totals they had: the other calls do not mind. *)
LEMMA ColumnsEnd ==
  ASSUME ColumnsInv, ReservationTypeOK', NEW h \in Handler, Ends(h), Id' = Id,
         \A i \in Id : /\ ColumnsAgree(reservations'[i])
                       /\ reservations'[i].total = reservations[i].total
  PROVE  ColumnsInv'
<1>1. ASSUME NEW g \in Handler, Busy(g)', NEW i \in DOMAIN handler'[g].copy
      PROVE  /\ ColumnsAgree(handler'[g].copy[i])
             /\ handler'[g].copy[i].total = reservations'[i].total
  <2>1. Busy(g) /\ handler'[g] = handler[g]
    BY <1>1, EndHolds DEF ColumnsInv
  <2>2. i \in Id
    BY <1>1, <2>1 DEF ColumnsInv, ReservationTypeOK, Busy
  <2>3. QED
    BY <1>1, <2>1, <2>2 DEF ColumnsInv
<1>2. QED
  BY <1>1 DEF ColumnsInv, ColumnsAgree

(* Full saves write agreeing columns back; the others leave them alone.    *)
LEMMA ColumnsSave ==
  ASSUME ColumnsInv, ReservationTypeOK', NEW h \in Handler, Saves(h)
  PROVE  ColumnsInv'
<1>1. handler[h].op \in AllOperations
  BY DEF Saves, Approve, Reject, Cancel, CheckIn, CheckOut, Expire,
         AutoComplete, SaveAll, SaveStatus, AllOperations
<1>2. /\ \A i \in DOMAIN handler[h].copy :
           /\ handler[h].copy[i] \in Row
           /\ ColumnsAgree(handler[h].copy[i])
           /\ handler[h].copy[i].total = reservations[i].total
      /\ \A i \in Id : ColumnsAgree(reservations[i])
  BY <1>1, WorkingIsBusy DEF ColumnsInv, ReservationTypeOK, Busy
<1>3. \A i \in Id : reservations[i] \in Row
  BY ElementOfSeq DEF ColumnsInv, ReservationTypeOK, Id
<1>4. /\ \A i \in Id : /\ ColumnsAgree(reservations'[i])
                       /\ reservations'[i].total = reservations[i].total
      /\ DOMAIN reservations' = Id
  <2>1. CASE \E op, status : SaveAll(h, op, status)
    BY <1>2, <1>3, <2>1 DEF SaveAll, ColumnsAgree, Row
  <2>2. CASE CheckIn(h)
    BY <1>2, <1>3, <2>2 DEF CheckIn, ColumnsAgree, Row
  <2>3. CASE CheckOut(h)
    BY <1>2, <1>3, <2>3 DEF CheckOut, ColumnsAgree, Row
  <2>4. CASE \E op, status : SaveStatus(h, op, status)
    BY <1>2, <1>3, <2>4 DEF SaveStatus, ColumnsAgree, Row
  <2>5. QED
    BY <2>1, <2>2, <2>3, <2>4
       DEF Saves, Approve, Reject, Cancel, Expire, AutoComplete
<1>5. Id' = Id
  BY <1>4, LenProperties DEF ReservationTypeOK, Id
<1>6. Ends(h)
  BY DEF Saves, Approve, Reject, Cancel, CheckIn, CheckOut, Expire,
         AutoComplete, SaveAll, SaveStatus
<1>7. QED
  BY <1>4, <1>5, <1>6, ColumnsEnd

LEMMA ColumnsRegister ==
  ASSUME ColumnsInv, ReservationTypeOK', NEW h \in Handler, Registers(h)
  PROVE  ColumnsInv'
<1>1. PICK a \in Payment, type \in PaymentType : RegisterPayment(h, type, a)
  BY DEF Registers
<1>2. PICK i \in DOMAIN handler[h].copy :
        reservations' = [reservations EXCEPT
          ![i] = WithPaid(@, handler[h].copy[i],
                          NewPaid(handler[h].copy[i], type, a))]
  BY <1>1 DEF RegisterPayment
<1>3. /\ i \in Id /\ handler[h].copy[i] \in Row
      /\ handler[h].copy[i].total = reservations[i].total
  BY DEF Registers, Busy, ColumnsInv, ReservationTypeOK
<1>4. reservations[i] \in Row /\ DOMAIN reservations = Id
  BY <1>3, ElementOfSeq, LenProperties DEF ColumnsInv, ReservationTypeOK, Id
<1>5. /\ ColumnsAgree(reservations'[i])
      /\ reservations'[i].total = reservations[i].total
  BY <1>2, <1>3, <1>4, PaidTyped, NewColumnsAgree
<1>6. \A j \in Id \ {i} : reservations'[j] = reservations[j]
  BY <1>2, <1>4
<1>7. DOMAIN reservations' = Id
  BY <1>2, <1>4
<1>8. Id' = Id
  BY <1>7, LenProperties DEF ReservationTypeOK, Id
<1>9. \A j \in Id : /\ ColumnsAgree(reservations'[j])
                    /\ reservations'[j].total = reservations[j].total
  BY <1>5, <1>6 DEF ColumnsInv
<1>10. QED
  BY <1>1, <1>8, <1>9, ColumnsEnd DEF RegisterPayment

LEMMA ColumnsStep == ColumnsInv /\ [ReservationNext]_vars => ColumnsInv'
<1> SUFFICES ASSUME ColumnsInv, [ReservationNext]_vars
             PROVE  ColumnsInv'
  OBVIOUS
<1>1. ReservationTypeOK'
  BY TypeStep DEF ColumnsInv
<1>2. CASE UNCHANGED vars
  BY <1>1, <1>2 DEF vars, ColumnsInv, ColumnsAgree, Id, Busy
<1>3. CASE \E villa \in Villa, when \in Booking, guests \in Guests,
              price \in Price : Create(villa, when, guests, price)
  BY <1>1, <1>3, ColumnsCreate
<1>4. ASSUME NEW h \in Handler, Handle(h)
      PROVE  ColumnsInv'
  <2>1. CASE \E op \in Operation, ids \in SUBSET Id : Load(h, op, ids)
    BY <1>1, <2>1, ColumnsLoad
  <2>2. CASE Saves(h)
    BY <1>1, <2>2, ColumnsSave
  <2>3. CASE Registers(h)
    BY <1>1, <2>3, ColumnsRegister
  <2>4. CASE GiveUp(h)
    BY <1>1, <2>4, ColumnsEnd DEF GiveUp, ColumnsInv, Id
  <2>5. QED
    BY <1>4, <2>1, <2>2, <2>3, <2>4, HandleCases DEF ColumnsInv
<1>5. QED
  BY <1>2, <1>3, <1>4 DEF ReservationNext

(* register_payment and the full saves of approve, reject and cancel, in   *)
(* any number and however they overlap, never leave the columns of two     *)
(* different payments in one row.                                          *)
THEOREM PaymentColumnsConsistent == ReservationSpec => []PaymentColumnsAgree
<1>1. ReservationInit => ColumnsInv
  BY TypeInit DEF ReservationInit, ColumnsInv, Id, Busy
<1>2. ColumnsInv => PaymentColumnsAgree
  BY DEF ColumnsInv, ColumnsAgree, PaymentColumnsAgree
<1>3. QED
  BY <1>1, <1>2, ColumnsStep, PTL DEF ReservationSpec

-----------------------------------------------------------------------------
(* Check-out *)

(* The rows a save writes, when the instances are as NotLeft says.         *)
LEMMA CompletedSave ==
  ASSUME CompletedInv, "expire" \notin Operation, NEW h \in Handler, Saves(h)
  PROVE  /\ \A i \in Id : LeftIsCompleted(reservations'[i])
         /\ DOMAIN reservations' = Id
<1>1. handler[h].op \in AllOperations
  BY DEF Saves, Approve, Reject, Cancel, CheckIn, CheckOut, Expire,
         AutoComplete, SaveAll, SaveStatus, AllOperations
<1>2. /\ NotLeft(h) /\ handler[h].op \in Operation
      /\ \A i \in DOMAIN handler[h].copy : handler[h].copy[i] \in Row
  BY <1>1, WorkingIsBusy DEF CompletedInv, ReservationTypeOK, Busy
<1>3. \A i \in Id : reservations[i] \in Row /\ LeftIsCompleted(reservations[i])
  BY ElementOfSeq
     DEF CompletedInv, CheckedOutIsCompleted, LeftIsCompleted, ReservationTypeOK, Id
<1>4. CASE \E op \in {"approve", "reject", "cancel"},
              status \in ReservationStatus : SaveAll(h, op, status)
  <2>1. \A i \in DOMAIN handler[h].copy : ~handler[h].copy[i].checkedOut
    BY <1>2, <1>4 DEF SaveAll, NotLeft
  <2>2. QED
    BY <1>2, <1>3, <1>4, <2>1 DEF SaveAll, LeftIsCompleted, Row
<1>5. CASE CheckIn(h)
  BY <1>3, <1>5 DEF CheckIn, LeftIsCompleted, Row
<1>6. CASE CheckOut(h)
  BY <1>3, <1>6 DEF CheckOut, LeftIsCompleted, Row
<1>7. CASE Expire(h)
  BY <1>2, <1>7 DEF Expire, SaveStatus
<1>8. CASE AutoComplete(h)
  BY <1>3, <1>8 DEF AutoComplete, SaveStatus, LeftIsCompleted, Row
<1>9. QED
  BY <1>4, <1>5, <1>6, <1>7, <1>8
     DEF Saves, Approve, Reject, Cancel, ReservationStatus

LEMMA CompletedRegister ==
  ASSUME CompletedInv, NEW h \in Handler, Registers(h)
  PROVE  /\ \A i \in Id : LeftIsCompleted(reservations'[i])
         /\ DOMAIN reservations' = Id
<1>1. PICK a \in Payment, type \in PaymentType, i \in DOMAIN handler[h].copy :
        reservations' = [reservations EXCEPT
          ![i] = WithPaid(@, handler[h].copy[i],
                          NewPaid(handler[h].copy[i], type, a))]
  BY DEF Registers, RegisterPayment
<1>2. /\ DOMAIN reservations = Id
      /\ \A j \in Id : reservations[j] \in Row /\ LeftIsCompleted(reservations[j])
  BY ElementOfSeq, LenProperties
     DEF CompletedInv, CheckedOutIsCompleted, LeftIsCompleted, ReservationTypeOK, Id
<1>3. \A now \in Row : \A loaded, paid :
        /\ WithPaid(now, loaded, paid).checkedOut = now.checkedOut
        /\ WithPaid(now, loaded, paid).status = now.status
  BY DEF WithPaid, Row
<1>4. QED
  BY <1>1, <1>2, <1>3 DEF LeftIsCompleted

(* A load is accepted before a stay is left, by LeftIsCompleted of the row.*)
LEMMA CompletedLoad ==
  ASSUME CompletedInv, NEW h \in Handler, NEW op \in Operation,
         NEW ids \in SUBSET Id, Load(h, op, ids)
  PROVE  \A g \in Handler : Busy(g)' => NotLeft(g)'
<1> DEFINE copy == [j \in ids |-> reservations[j]]
<1>1. \A g \in Handler :
        handler'[g] = IF g = h THEN [op |-> op, copy |-> copy] ELSE handler[g]
  BY DEF Load, CompletedInv, ReservationTypeOK
<1>2. op \in {"approve", "reject", "cancel"} =>
        \A i \in ids : ~reservations[i].checkedOut
  <2>1. \A i \in ids : Accepts(op, reservations[i])
    BY DEF Load
  <2>2. \A i \in ids : LeftIsCompleted(reservations[i])
    BY DEF CompletedInv, CheckedOutIsCompleted, LeftIsCompleted
  <2>3. QED
    BY <2>1, <2>2 DEF Accepts, MayCancel, LeftIsCompleted
<1>3. ASSUME NEW g \in Handler, Busy(g)'
      PROVE  NotLeft(g)'
  <2>1. CASE g = h
    <3>1. handler'[g].op = op /\ handler'[g].copy = copy
      <4> HIDE DEF copy
      <4>1. QED
        BY <1>1, <2>1
    <3>2. QED
      BY <1>2, <3>1 DEF NotLeft
  <2>2. CASE g # h
    <3>1. handler'[g] = handler[g]
      BY <1>1, <2>2
    <3>2. QED
      BY <1>3, <3>1 DEF Busy, NotLeft, CompletedInv
  <2>3. QED
    BY <2>1, <2>2
<1>4. QED
  BY <1>3

LEMMA CompletedEnd ==
  ASSUME CompletedInv, ReservationTypeOK', NEW h \in Handler, Ends(h),
         DOMAIN reservations' = Id,
         \A i \in Id : LeftIsCompleted(reservations'[i])
  PROVE  CompletedInv'
<1>1. Id' = Id
  BY LenProperties DEF ReservationTypeOK, Id
<1>2. CheckedOutIsCompleted'
  BY <1>1 DEF CheckedOutIsCompleted, LeftIsCompleted
<1>3. \A g \in Handler : Busy(g)' => Busy(g) /\ handler'[g] = handler[g]
  BY EndHolds DEF CompletedInv
<1>4. \A g \in Handler : Busy(g)' => NotLeft(g)'
  BY <1>3 DEF CompletedInv, NotLeft
<1>5. QED
  BY <1>2, <1>4 DEF CompletedInv

LEMMA CompletedStep ==
  ASSUME "expire" \notin Operation
  PROVE  CompletedInv /\ [ReservationNext]_vars => CompletedInv'
<1> SUFFICES ASSUME CompletedInv, [ReservationNext]_vars
             PROVE  CompletedInv'
  OBVIOUS
<1>1. ReservationTypeOK'
  BY TypeStep DEF CompletedInv
<1>2. CASE UNCHANGED vars
  BY <1>1, <1>2 DEF vars, CompletedInv, CheckedOutIsCompleted, Id, Busy, NotLeft
<1>3. ASSUME NEW villa \in Villa, NEW when \in Booking, NEW guests \in Guests,
             NEW price \in Price, Create(villa, when, guests, price)
      PROVE  CompletedInv'
  <2> DEFINE n == Len(reservations)
  <2>1. /\ n \in Nat /\ Len(reservations') = n + 1
        /\ \A i \in 1..n : reservations'[i] = reservations[i]
        /\ ~reservations'[n + 1].checkedOut
    BY <1>3, AppendProperties, LenProperties
       DEF Create, CompletedInv, ReservationTypeOK
  <2>2. CheckedOutIsCompleted'
    BY <2>1 DEF CompletedInv, CheckedOutIsCompleted, Id
  <2>3. QED
    BY <1>1, <1>3, <2>2 DEF Create, CompletedInv, Busy, NotLeft
<1>4. ASSUME NEW h \in Handler, Handle(h)
      PROVE  CompletedInv'
  <2>1. ASSUME NEW op \in Operation, NEW ids \in SUBSET Id, Load(h, op, ids)
        PROVE  CompletedInv'
    <3>1. CheckedOutIsCompleted'
      BY <2>1 DEF Load, CompletedInv, CheckedOutIsCompleted, Id
    <3>2. QED
      BY <1>1, <2>1, <3>1, CompletedLoad DEF CompletedInv
  <2>2. CASE Saves(h)
    <3>1. Ends(h)
      BY <2>2 DEF Saves, Approve, Reject, Cancel, CheckIn, CheckOut, Expire,
             AutoComplete, SaveAll, SaveStatus
    <3>2. QED
      BY <1>1, <2>2, <3>1, CompletedSave, CompletedEnd
  <2>3. CASE Registers(h)
    <3>1. Ends(h)
      BY <2>3 DEF Registers, RegisterPayment
    <3>2. QED
      BY <1>1, <2>3, <3>1, CompletedRegister, CompletedEnd
  <2>4. CASE GiveUp(h)
    <3>1. /\ DOMAIN reservations = Id
          /\ \A i \in Id : LeftIsCompleted(reservations[i])
      BY LenProperties
         DEF CompletedInv, CheckedOutIsCompleted, LeftIsCompleted,
             ReservationTypeOK, Id
    <3>2. QED
      BY <1>1, <2>4, <3>1, CompletedEnd DEF GiveUp
  <2>5. QED
    BY <1>4, <2>1, <2>2, <2>3, <2>4, HandleCases DEF CompletedInv
<1>5. QED
  BY <1>2, <1>3, <1>4 DEF ReservationNext

(* As long as no job expires requests (nothing in the repository runs one),*)
(* no late approval, rejection, cancellation, payment or completion takes  *)
(* COMPLETED from a reservation that has been checked out.                 *)
THEOREM CheckedOutCompleted ==
  ASSUME "expire" \notin Operation
  PROVE  ReservationSpec => []CheckedOutIsCompleted
<1>1. ReservationInit => CompletedInv
  BY TypeInit DEF ReservationInit, CompletedInv, CheckedOutIsCompleted, Id, Busy
<1>2. CompletedInv => CheckedOutIsCompleted
  BY DEF CompletedInv
<1>3. CompletedInv /\ [ReservationNext]_vars => CompletedInv'
  BY CompletedStep
<1>4. QED
  BY <1>1, <1>2, <1>3, PTL DEF ReservationSpec

-----------------------------------------------------------------------------
(* Sums *)

Units(f) == UNION {{x} \X (1 .. f[x]) : x \in DOMAIN f}

LEMMA UnitsFinite ==
  ASSUME NEW S, IsFiniteSet(S), NEW f \in [S -> Nat]
  PROVE  IsFiniteSet(Units(f))
<1> DEFINE units == [x \in S |-> {x} \X (1 .. f[x])]
           all == {{x} \X (1 .. f[x]) : x \in S}
<1>1. units \in Surjection(S, all)
  BY DEF Surjection
<1>2. IsFiniteSet(all)
  BY <1>1, FS_Surjection
<1>3. ASSUME NEW T \in all PROVE IsFiniteSet(T)
  <2>1. PICK x \in S : T = {x} \X (1 .. f[x])
    OBVIOUS
  <2>2. IsFiniteSet(1 .. f[x])
    BY FS_Interval
  <2>3. IsFiniteSet({x})
    BY FS_Singleton
  <2>4. QED
    BY <2>1, <2>2, <2>3, FS_Product
<1>4. QED
  BY <1>2, <1>3, FS_UNION DEF Units

LEMMA SumIsNat ==
  ASSUME NEW S, IsFiniteSet(S), NEW f \in [S -> Nat]
  PROVE  SumOf(f) \in Nat
BY UnitsFinite, FS_CardinalityType DEF SumOf, Units

LEMMA SumOfEmpty ==
  ASSUME NEW f, DOMAIN f = {}
  PROVE  SumOf(f) = 0
<1>1. Units(f) = {}
  BY DEF Units
<1>2. QED
  BY <1>1, FS_EmptySet DEF SumOf, Units

(* A part of the terms sums to no more.                                    *)
LEMMA SumOfPart ==
  ASSUME NEW S, IsFiniteSet(S), NEW f \in [S -> Nat], NEW T \in SUBSET S,
         NEW g \in [T -> Nat], \A x \in T : g[x] = f[x]
  PROVE  SumOf(g) <= SumOf(f)
<1>1. Units(g) \subseteq Units(f)
  BY DEF Units
<1>2. IsFiniteSet(Units(f))
  BY UnitsFinite
<1>3. Cardinality(Units(g)) <= Cardinality(Units(f))
  BY <1>1, <1>2, FS_Subset
<1>4. QED
  BY <1>3 DEF SumOf, Units

(* One more term adds its value.                                           *)
LEMMA SumOfMore ==
  ASSUME NEW S, IsFiniteSet(S)
  PROVE  \A f \in [S -> Nat] : \A x : x \notin S =>
           \A g \in [S \cup {x} -> Nat] :
             (\A y \in S : g[y] = f[y]) => SumOf(g) = SumOf(f) + g[x]
<1> SUFFICES ASSUME NEW f \in [S -> Nat], NEW x, x \notin S,
                    NEW g \in [S \cup {x} -> Nat], \A y \in S : g[y] = f[y]
             PROVE  SumOf(g) = SumOf(f) + g[x]
  OBVIOUS
<1> DEFINE n == g[x]
           new == {x} \X (1 .. n)
<1>1. n \in Nat
  OBVIOUS
<1>2. Units(g) = Units(f) \cup new
  BY DEF Units
<1>3. Units(f) \cap new = {}
  BY DEF Units
<1> HIDE DEF n
<1>4. IsFiniteSet(new) /\ Cardinality(new) = n
  <2>1. IsFiniteSet(1 .. n) /\ Cardinality(1 .. n) = n
    BY <1>1, FS_Interval
  <2>2. IsFiniteSet({x}) /\ Cardinality({x}) = 1
    BY FS_Singleton
  <2>3. /\ IsFiniteSet(new)
        /\ Cardinality(new) = Cardinality({x}) * Cardinality(1 .. n)
    BY <2>1, <2>2, FS_Product DEF new
  <2>4. QED
    BY <1>1, <2>1, <2>2, <2>3
<1> HIDE DEF new
<1>5. IsFiniteSet(Units(f)) /\ Cardinality(Units(f)) \in Nat
  BY UnitsFinite, FS_CardinalityType
<1>6. Cardinality(Units(g)) = Cardinality(Units(f)) + n - Cardinality({})
  BY <1>2, <1>3, <1>4, <1>5, FS_Union
<1>7. Cardinality(Units(g)) = Cardinality(Units(f)) + n
  BY <1>1, <1>5, <1>6, FS_EmptySet
<1>8. QED
  BY <1>7 DEF SumOf, Units, n

-----------------------------------------------------------------------------
(* Calls handled one at a time *)

(* What a call has loaded is the row as it is, and it was accepted.        *)
RowsInHand ==
  \A h \in Handler : Busy(h) =>
    \A i \in DOMAIN handler[h].copy :
      /\ handler[h].copy[i] = reservations[i]
      /\ Accepts(handler[h].op, reservations[i])

(* How the row of a reservation may then change, payments apart.           *)
MovesOn(was, now) ==
  \/ now = was
  \/ /\ was.status = "REQUESTED"
     /\ \E s \in {"APPROVED", "REJECTED"} : now = [was EXCEPT !.status = s]
  \/ MayCancel(was) /\ now = [was EXCEPT !.status = "CANCELLED"]
  \/ MayCheckIn(was) /\ now = [was EXCEPT !.checkedIn = TRUE]
  \/ MayCheckOut(was) /\ now = [was EXCEPT !.checkedOut = TRUE, !.status = "COMPLETED"]
  \/ was.status = "APPROVED" /\ now = [was EXCEPT !.status = "COMPLETED"]

(* One row of StayInOrder.                                                 *)
StayFits(r) ==
  /\ r.checkedOut => r.checkedIn
  /\ r.checkedIn => r.status \in {"APPROVED", "CANCELLED", "COMPLETED"}

(* A row that takes no more room than it did.                              *)
TakesNoMore(was, now) ==
  /\ now.villa = was.villa /\ now.when = was.when /\ now.guests = was.guests
  /\ now.status \in Active => was.status \in Active

SerialInv ==
  ReservationTypeOK /\ RowsInHand /\ StayInOrder /\ WithinPolicy /\ PaidCoversRows

LEMMA Rows ==
  ASSUME ReservationTypeOK
  PROVE  /\ Len(reservations) \in Nat /\ DOMAIN reservations = Id
         /\ reservations \in [Id -> Row] /\ IsFiniteSet(Id)
<1>1. Len(reservations) \in Nat /\ DOMAIN reservations = Id
  BY LenProperties DEF ReservationTypeOK, Id
<1>2. \A i \in Id : reservations[i] \in Row
  BY ElementOfSeq DEF ReservationTypeOK, Id
<1>3. IsFiniteSet(Id)
  BY <1>1, FS_Interval DEF Id
<1>4. reservations = [i \in Id |-> reservations[i]]
  BY <1>1, LenProperties DEF ReservationTypeOK, Id
<1>5. QED
  BY <1>1, <1>2, <1>3, <1>4

LEMMA SavedRows ==
  ASSUME ReservationTypeOK, RowsInHand, NEW h \in Handler, Saves(h)
  PROVE  /\ DOMAIN reservations' = Id
         /\ \A i \in Id : MovesOn(reservations[i], reservations'[i])
         /\ Ends(h) /\ UNCHANGED <<facility, payments>>
<1>1. handler[h].op \in AllOperations
  BY DEF Saves, Approve, Reject, Cancel, CheckIn, CheckOut, Expire,
         AutoComplete, SaveAll, SaveStatus, AllOperations
<1>2. \A i \in DOMAIN handler[h].copy :
        handler[h].copy[i] = reservations[i] /\ Accepts(handler[h].op, reservations[i])
  BY <1>1, WorkingIsBusy DEF RowsInHand
<1>3. \A i \in Id : reservations[i] \in Row
  BY Rows
<1>4. ASSUME NEW op, NEW status,
             SaveAll(h, op, status) \/ SaveStatus(h, op, status)
      PROVE  /\ DOMAIN reservations' = Id /\ handler[h].op = op
             /\ \A i \in Id : \/ reservations'[i] = reservations[i]
                              \/ /\ Accepts(op, reservations[i])
                                 /\ reservations'[i] = [reservations[i] EXCEPT !.status = status]
  BY <1>2, <1>4 DEF SaveAll, SaveStatus
<1>5. Ends(h) /\ UNCHANGED <<facility, payments>>
  BY DEF Saves, Approve, Reject, Cancel, CheckIn, CheckOut, Expire, AutoComplete,
         SaveAll, SaveStatus
<1>6. CASE Approve(h)
  <2>1. SaveAll(h, "approve", "APPROVED")
    BY <1>6 DEF Approve
  <2>2. /\ DOMAIN reservations' = Id
        /\ \A i \in Id : \/ reservations'[i] = reservations[i]
                         \/ /\ Accepts("approve", reservations[i])
                            /\ reservations'[i] = [reservations[i] EXCEPT !.status = "APPROVED"]
    BY <2>1, <1>4
  <2>3. QED
    BY <2>2, <1>5 DEF Accepts, MovesOn
<1>7. CASE Cancel(h)
  <2>1. SaveAll(h, "cancel", "CANCELLED")
    BY <1>7 DEF Cancel
  <2>2. /\ DOMAIN reservations' = Id
        /\ \A i \in Id : \/ reservations'[i] = reservations[i]
                         \/ /\ Accepts("cancel", reservations[i])
                            /\ reservations'[i] = [reservations[i] EXCEPT !.status = "CANCELLED"]
    BY <2>1, <1>4
  <2>3. QED
    BY <2>2, <1>5 DEF Accepts, MovesOn
<1>8. CASE Expire(h)
  <2>1. SaveStatus(h, "expire", "REJECTED")
    BY <1>8 DEF Expire
  <2>2. /\ DOMAIN reservations' = Id
        /\ \A i \in Id : \/ reservations'[i] = reservations[i]
                         \/ /\ Accepts("expire", reservations[i])
                            /\ reservations'[i] = [reservations[i] EXCEPT !.status = "REJECTED"]
    BY <2>1, <1>4
  <2>3. QED
    BY <2>2, <1>5 DEF Accepts, MovesOn
<1>9. CASE AutoComplete(h)
  <2>1. SaveStatus(h, "auto_complete", "COMPLETED")
    BY <1>9 DEF AutoComplete
  <2>2. /\ DOMAIN reservations' = Id
        /\ \A i \in Id : \/ reservations'[i] = reservations[i]
                         \/ /\ Accepts("auto_complete", reservations[i])
                            /\ reservations'[i] = [reservations[i] EXCEPT !.status = "COMPLETED"]
    BY <2>1, <1>4
  <2>3. QED
    BY <2>2, <1>5 DEF Accepts, MovesOn
<1>10. CASE Reject(h)
  <2>1. SaveAll(h, "reject", "REJECTED")
    BY <1>10 DEF Reject
  <2>2. /\ DOMAIN reservations' = Id
        /\ \A i \in Id : \/ reservations'[i] = reservations[i]
                         \/ /\ Accepts("reject", reservations[i])
                            /\ reservations'[i] = [reservations[i] EXCEPT !.status = "REJECTED"]
    BY <2>1, <1>4
  <2>3. QED
    BY <2>2, <1>5 DEF Accepts, MovesOn
<1>11. CASE CheckIn(h)
  <2>1. ASSUME NEW i \in Id PROVE MovesOn(reservations[i], reservations'[i])
    <3>1. reservations'[i] = [reservations[i] EXCEPT !.checkedIn = @ \/ i \in DOMAIN handler[h].copy]
      BY <1>11 DEF CheckIn
    <3>2. CASE i \in DOMAIN handler[h].copy
      BY <1>2, <1>11, <3>1, <3>2 DEF CheckIn, Accepts, MovesOn
    <3>3. CASE i \notin DOMAIN handler[h].copy
      <4>1. reservations'[i] = reservations[i]
        BY <1>3, <3>1, <3>3 DEF Row
      <4>2. QED
        BY <4>1 DEF MovesOn
    <3>4. QED
      BY <3>2, <3>3
  <2>2. QED
    BY <1>11, <1>5, <2>1 DEF CheckIn
<1>12. CASE CheckOut(h)
  BY <1>2, <1>12, <1>5 DEF CheckOut, Accepts, MovesOn
<1>13. QED
  BY <1>6, <1>7, <1>8, <1>9, <1>11, <1>12, <1>5, <1>10 DEF Saves

LEMMA RowMoved ==
  ASSUME NEW was \in Row, NEW now, MovesOn(was, now)
  PROVE  /\ now.paid = was.paid
         /\ TakesNoMore(was, now)
         /\ StayFits(was) => StayFits(now)
BY DEF MovesOn, TakesNoMore, StayFits, Row, Active, MayCancel, MayCheckIn, MayCheckOut

LEMMA RowPaid ==
  ASSUME NEW was \in Row, NEW a \in Payment, NEW type \in PaymentType,
         NEW now, now = WithPaid(was, was, NewPaid(was, type, a))
  PROVE  /\ now \in Row /\ now.paid = NewPaid(was, type, a)
         /\ now.paid \in Int
         /\ now.paid >= was.paid + (IF type = "REFUND" THEN -a ELSE a)
         /\ TakesNoMore(was, now)
         /\ StayFits(was) => StayFits(now)
<1>1. now \in Row /\ NewPaid(was, type, a) \in Int
  BY PaidTyped
<1>2. now = [was EXCEPT !.paid = NewPaid(was, type, a), !.remaining = now.remaining,
                        !.paymentStatus = now.paymentStatus]
  BY DEF WithPaid, Row
<1>3. now.paid = NewPaid(was, type, a)
  BY <1>2 DEF Row
<1>4. NewPaid(was, type, a) >= was.paid + (IF type = "REFUND" THEN -a ELSE a)
  <2>1. was.paid \in Int /\ a \in Int
    BY BookingAssumption DEF Row
  <2>2. QED
    BY <2>1 DEF NewPaid, Floor0
<1>5. TakesNoMore(was, now) /\ (StayFits(was) => StayFits(now))
  BY <1>2 DEF TakesNoMore, StayFits, Row
<1>6. QED
  BY <1>1, <1>3, <1>4, <1>5

(* The policy, as a statement about a table of reservations.               *)
There(rows, t) == {i \in DOMAIN rows : rows[i].status \in Active /\ t \in rows[i].when}
Meeting(rows, when) ==
  {i \in DOMAIN rows : rows[i].status \in Active /\ rows[i].when \cap when # {}}
GuestSum(rows, ids) == SumOf([i \in ids |-> rows[i].guests])

Room(policy, rows) ==
  \A t \in Period :
    /\ policy = "EXCLUSIVE" => \A i, j \in There(rows, t) : i = j
    /\ policy = "PER_VILLA" =>
         \A i, j \in There(rows, t) : rows[i].villa = rows[j].villa => i = j
    /\ policy = "CAPACITY" => GuestSum(rows, There(rows, t)) <= Capacity

RoomFor(policy, rows, row) ==
  /\ policy = "EXCLUSIVE" => Meeting(rows, row.when) = {}
  /\ policy = "PER_VILLA" => \A i \in Meeting(rows, row.when) : rows[i].villa # row.villa
  /\ policy = "CAPACITY" => GuestSum(rows, Meeting(rows, row.when)) + row.guests <= Capacity

LEMMA GuestsNat ==
  ASSUME NEW r \in Row
  PROVE  r.guests \in Nat
<1>1. r.guests \in Guests
  BY DEF Row
<1>2. QED
  BY <1>1, BookingAssumption

(* Rows that take no more room than they did leave the policy kept.        *)
LEMMA RoomKept ==
  ASSUME NEW S, IsFiniteSet(S), NEW rows \in [S -> Row], NEW new \in [S -> Row],
         NEW policy, Room(policy, rows), \A i \in S : TakesNoMore(rows[i], new[i])
  PROVE  Room(policy, new)
<1> SUFFICES ASSUME NEW t \in Period
             PROVE  /\ policy = "EXCLUSIVE" => \A i, j \in There(new, t) : i = j
                    /\ policy = "PER_VILLA" =>
                         \A i, j \in There(new, t) : new[i].villa = new[j].villa => i = j
                    /\ policy = "CAPACITY" => GuestSum(new, There(new, t)) <= Capacity
  BY DEF Room
<1>1. There(new, t) \subseteq There(rows, t) /\ There(rows, t) \subseteq S
  BY DEF There, TakesNoMore
<1>2. policy = "EXCLUSIVE" => \A i, j \in There(new, t) : i = j
  BY <1>1 DEF Room
<1>3. policy = "PER_VILLA" =>
        \A i, j \in There(new, t) : new[i].villa = new[j].villa => i = j
  BY <1>1 DEF Room, TakesNoMore
<1>4. policy = "CAPACITY" => GuestSum(new, There(new, t)) <= Capacity
  <2>1. IsFiniteSet(There(rows, t))
    BY <1>1, FS_Subset
  <2>2. /\ [i \in There(rows, t) |-> rows[i].guests] \in [There(rows, t) -> Nat]
        /\ [i \in There(new, t) |-> new[i].guests] \in [There(new, t) -> Nat]
    BY <1>1, GuestsNat
  <2>3. \A i \in There(new, t) : new[i].guests = rows[i].guests
    BY <1>1 DEF TakesNoMore
  <2>4. GuestSum(new, There(new, t)) <= GuestSum(rows, There(rows, t))
    <3> DEFINE f == [i \in There(rows, t) |-> rows[i].guests]
               g == [i \in There(new, t) |-> new[i].guests]
    <3>1. \A i \in There(new, t) : g[i] = f[i]
      BY <1>1, <2>3
    <3> HIDE DEF f, g
    <3>2. SumOf(g) <= SumOf(f)
      BY <1>1, <2>1, <2>2, <3>1, SumOfPart DEF f, g
    <3>3. QED
      BY <3>2 DEF GuestSum, f, g
  <2>5. GuestSum(new, There(new, t)) \in Nat /\ GuestSum(rows, There(rows, t)) \in Nat
    <3>1. IsFiniteSet(There(new, t))
      BY <1>1, <2>1, FS_Subset
    <3>2. QED
      BY <2>1, <2>2, <3>1, SumIsNat DEF GuestSum
  <2>6. policy = "CAPACITY" => GuestSum(rows, There(rows, t)) <= Capacity
    BY DEF Room
  <2>7. Capacity \in Nat
    BY BookingAssumption
  <2>8. QED
    BY <2>4, <2>5, <2>6, <2>7
<1>5. QED
  BY <1>2, <1>3, <1>4

(* So does a row for which there is room.                                  *)
LEMMA RoomTaken ==
  ASSUME NEW n \in Nat, NEW rows \in [1 .. n -> Row], NEW new \in [1 .. n + 1 -> Row],
         \A i \in 1 .. n : new[i] = rows[i],
         NEW policy, Room(policy, rows), RoomFor(policy, rows, new[n + 1])
  PROVE  Room(policy, new)
<1> SUFFICES ASSUME NEW t \in Period
             PROVE  /\ policy = "EXCLUSIVE" => \A i, j \in There(new, t) : i = j
                    /\ policy = "PER_VILLA" =>
                         \A i, j \in There(new, t) : new[i].villa = new[j].villa => i = j
                    /\ policy = "CAPACITY" => GuestSum(new, There(new, t)) <= Capacity
  BY DEF Room
<1> DEFINE was == There(rows, t)
           row == new[n + 1]
<1>1. /\ was \subseteq 1 .. n /\ n + 1 \notin 1 .. n
      /\ There(new, t) \subseteq was \cup {n + 1}
      /\ n + 1 \in There(new, t) => was \subseteq Meeting(rows, row.when)
      /\ n + 1 \notin There(new, t) => There(new, t) = was
      /\ n + 1 \in There(new, t) => There(new, t) = was \cup {n + 1}
  BY DEF There, Meeting
<1>2. policy = "EXCLUSIVE" => \A i, j \in There(new, t) : i = j
  BY <1>1 DEF Room, RoomFor
<1>3. policy = "PER_VILLA" =>
        \A i, j \in There(new, t) : new[i].villa = new[j].villa => i = j
  BY <1>1 DEF Room, RoomFor
<1>4. policy = "CAPACITY" => GuestSum(new, There(new, t)) <= Capacity
  <2>1. IsFiniteSet(1 .. n)
    BY FS_Interval
  <2>2. IsFiniteSet(was) /\ IsFiniteSet(Meeting(rows, row.when))
    BY <1>1, <2>1, FS_Subset DEF Meeting
  <2>3. /\ [i \in was |-> rows[i].guests] \in [was -> Nat]
        /\ [i \in Meeting(rows, row.when) |-> rows[i].guests] \in [Meeting(rows, row.when) -> Nat]
    BY <1>1, GuestsNat DEF Meeting
  <2>4. CASE n + 1 \notin There(new, t)
    <3>1. GuestSum(new, There(new, t)) = GuestSum(rows, was)
      <4>1. [i \in There(new, t) |-> new[i].guests] = [i \in was |-> rows[i].guests]
        BY <1>1, <2>4
      <4>2. QED
        BY <4>1 DEF GuestSum
    <3>2. policy = "CAPACITY" => GuestSum(rows, was) <= Capacity
      BY DEF Room
    <3>3. QED
      BY <3>1, <3>2
  <2>5. CASE n + 1 \in There(new, t)
    <3> DEFINE f == [i \in was |-> rows[i].guests]
               g == [i \in was \cup {n + 1} |-> new[i].guests]
               all == [i \in Meeting(rows, row.when) |-> rows[i].guests]
    <3>1. /\ g \in [was \cup {n + 1} -> Nat] /\ g[n + 1] = row.guests
          /\ \A i \in was : g[i] = f[i]
      BY <1>1, GuestsNat
    <3>2. /\ f \in [was -> Nat] /\ \A i \in was : f[i] = all[i]
          /\ all \in [Meeting(rows, row.when) -> Nat]
          /\ was \subseteq Meeting(rows, row.when)
      BY <1>1, <2>3, <2>5
    <3> HIDE DEF f, g, all
    <3>3. SumOf(g) = SumOf(f) + g[n + 1]
      <4>1. n + 1 \notin was
        BY <1>1
      <4>2. \A F \in [was -> Nat] : \A x : x \notin was =>
              \A G \in [was \cup {x} -> Nat] :
                (\A y \in was : G[y] = F[y]) => SumOf(G) = SumOf(F) + G[x]
        BY <2>2, SumOfMore
      <4>3. \A G \in [was \cup {n + 1} -> Nat] :
              (\A y \in was : G[y] = f[y]) => SumOf(G) = SumOf(f) + G[n + 1]
        BY <3>2, <4>1, <4>2
      <4>4. QED
        BY <3>1, <4>3
    <3>4. SumOf(f) <= SumOf(all)
      BY <2>2, <3>2, SumOfPart
    <3>5. SumOf(f) \in Nat /\ SumOf(all) \in Nat
      BY <2>2, <3>2, SumIsNat
    <3>6. policy = "CAPACITY" => SumOf(all) + row.guests <= Capacity
      BY DEF RoomFor, GuestSum, all
    <3>7. GuestSum(new, There(new, t)) = SumOf(g)
      BY <1>1, <2>5 DEF GuestSum, g
    <3>8. row.guests \in Nat /\ Capacity \in Nat
      BY GuestsNat, BookingAssumption
    <3>9. QED
      BY <3>1, <3>3, <3>4, <3>5, <3>6, <3>7, <3>8
  <2>6. QED
    BY <2>4, <2>5
<1>5. QED
  BY <1>2, <1>3, <1>4

(* The payments, as a statement about their table.                         *)
PaymentRow == [reservation : Nat, type : PaymentType, amount : Payment]
About(ps, i) == {k \in DOMAIN ps : ps[k].reservation = i}
Weighed(ps, i, w) == SumOf([k \in About(ps, i) |-> w[ps[k]]])

LEMMA AboutFinite ==
  ASSUME NEW S, NEW ps \in Seq(S), NEW i
  PROVE  IsFiniteSet(About(ps, i))
<1>1. DOMAIN ps = 1 .. Len(ps) /\ Len(ps) \in Nat
  BY LenProperties
<1>2. IsFiniteSet(DOMAIN ps)
  BY <1>1, FS_Interval
<1>3. QED
  BY <1>2, FS_Subset DEF About

(* One more row adds its weight to the reservation it is about.            *)
LEMMA WeighedMore ==
  ASSUME NEW S, NEW w \in [S -> Nat], NEW ps \in Seq(S), NEW row \in S, NEW i
  PROVE  /\ Weighed(ps, i, w) \in Nat
         /\ Weighed(Append(ps, row), i, w)
              = Weighed(ps, i, w) + (IF row.reservation = i THEN w[row] ELSE 0)
<1> DEFINE n == Len(ps)
           new == Append(ps, row)
           f == [k \in About(ps, i) |-> w[ps[k]]]
           g == [k \in About(new, i) |-> w[new[k]]]
<1>1. /\ n \in Nat /\ DOMAIN ps = 1 .. n /\ \A k \in 1 .. n : ps[k] \in S
      /\ new \in Seq(S) /\ DOMAIN new = 1 .. n + 1 /\ new[n + 1] = row
      /\ \A k \in 1 .. n : new[k] = ps[k]
  BY LenProperties, AppendProperties, ElementOfSeq
<1>2. IsFiniteSet(About(ps, i))
  BY AboutFinite
<1>3. f \in [About(ps, i) -> Nat]
  BY <1>1 DEF About
<1>4. SumOf(f) \in Nat
  BY <1>2, <1>3, SumIsNat
<1> HIDE DEF new, n
<1>5. CASE row.reservation = i
  <2>1. About(new, i) = About(ps, i) \cup {n + 1} /\ n + 1 \notin About(ps, i)
    BY <1>1, <1>5 DEF About
  <2>2. /\ g \in [About(ps, i) \cup {n + 1} -> Nat] /\ g[n + 1] = w[row]
        /\ \A k \in About(ps, i) : g[k] = f[k]
    BY <1>1, <2>1 DEF About
  <2> HIDE DEF f, g
  <2>3. \A F \in [About(ps, i) -> Nat] : \A x : x \notin About(ps, i) =>
          \A G \in [About(ps, i) \cup {x} -> Nat] :
            (\A y \in About(ps, i) : G[y] = F[y]) => SumOf(G) = SumOf(F) + G[x]
    BY <1>2, SumOfMore
  <2>4. \A G \in [About(ps, i) \cup {n + 1} -> Nat] :
          (\A y \in About(ps, i) : G[y] = f[y]) => SumOf(G) = SumOf(f) + G[n + 1]
    BY <1>3, <2>1, <2>3
  <2>5. SumOf(g) = SumOf(f) + w[row]
    BY <2>2, <2>4
  <2>6. QED
    BY <1>4, <1>5, <2>5 DEF Weighed, f, g, new
<1>6. CASE row.reservation # i
  <2>1. About(new, i) = About(ps, i)
    BY <1>1, <1>6 DEF About
  <2>2. g = f
    BY <1>1, <2>1 DEF About
  <2> HIDE DEF f, g
  <2>3. SumOf(g) = SumOf(f)
    BY <2>2
  <2>4. Weighed(Append(ps, row), i, w) = SumOf(g) /\ Weighed(ps, i, w) = SumOf(f)
    BY DEF Weighed, f, g, new
  <2>5. QED
    BY <1>4, <1>6, <2>3, <2>4
<1>7. QED
  BY <1>5, <1>6

In == [r \in PaymentRow |-> Floor0(Moved(r))]
Out == [r \in PaymentRow |-> Floor0(-Moved(r))]
Net(ps, i) == Weighed(ps, i, In) - Weighed(ps, i, Out)

LEMMA MovedTyped ==
  ASSUME NEW r \in PaymentRow
  PROVE  /\ Moved(r) \in Int /\ In[r] \in Nat /\ Out[r] \in Nat
         /\ In[r] - Out[r] = Moved(r)
<1>1. r.amount \in Int
  BY BookingAssumption DEF PaymentRow
<1>2. Moved(r) \in Int
  BY <1>1 DEF Moved
<1> DEFINE m == Moved(r)
<1>3. In[r] = Floor0(m) /\ Out[r] = Floor0(-m)
  BY DEF In, Out
<1> HIDE DEF m
<1>4. m \in Int
  BY <1>2 DEF m
<1>5. Floor0(m) \in Nat /\ Floor0(-m) \in Nat /\ Floor0(m) - Floor0(-m) = m
  BY <1>4 DEF Floor0
<1>6. QED
  BY <1>2, <1>3, <1>5 DEF m

LEMMA InAndOut == In \in [PaymentRow -> Nat] /\ Out \in [PaymentRow -> Nat]
<1>1. \A r \in PaymentRow : In[r] \in Nat /\ Out[r] \in Nat
  BY MovedTyped
<1>2. In = [r \in PaymentRow |-> In[r]] /\ Out = [r \in PaymentRow |-> Out[r]]
  BY DEF In, Out
<1>3. QED
  BY <1>1, <1>2

(* One more row moves the balance of its reservation by what it moves.     *)
LEMMA NetMore ==
  ASSUME NEW ps \in Seq(PaymentRow), NEW row \in PaymentRow, NEW i
  PROVE  /\ Net(ps, i) \in Int
         /\ Net(Append(ps, row), i)
              = Net(ps, i) + (IF row.reservation = i THEN Moved(row) ELSE 0)
<1>1. /\ Weighed(ps, i, In) \in Nat
      /\ Weighed(Append(ps, row), i, In)
           = Weighed(ps, i, In) + (IF row.reservation = i THEN In[row] ELSE 0)
  BY InAndOut, WeighedMore
<1>2. /\ Weighed(ps, i, Out) \in Nat
      /\ Weighed(Append(ps, row), i, Out)
           = Weighed(ps, i, Out) + (IF row.reservation = i THEN Out[row] ELSE 0)
  BY InAndOut, WeighedMore
<1>3. In[row] \in Nat /\ Out[row] \in Nat /\ In[row] - Out[row] = Moved(row)
  BY MovedTyped
<1>4. QED
  BY <1>1, <1>2, <1>3 DEF Net

LEMMA NetOfNone ==
  ASSUME NEW ps, NEW i, About(ps, i) = {}
  PROVE  Net(ps, i) = 0
<1>1. Weighed(ps, i, In) = 0 /\ Weighed(ps, i, Out) = 0
  BY SumOfEmpty DEF Weighed
<1>2. QED
  BY <1>1 DEF Net

(* NetReceived is the balance of the table.                                *)
LEMMA NetIs ==
  ASSUME NEW ps \in Seq(PaymentRow), NEW i
  PROVE  Net(ps, i) = SumOf([k \in About(ps, i) |-> Floor0(Moved(ps[k]))])
                        - SumOf([k \in About(ps, i) |-> Floor0(-Moved(ps[k]))])
<1>1. \A k \in About(ps, i) : ps[k] \in PaymentRow
  BY ElementOfSeq, LenProperties DEF About
<1>2. /\ [k \in About(ps, i) |-> In[ps[k]]] = [k \in About(ps, i) |-> Floor0(Moved(ps[k]))]
      /\ [k \in About(ps, i) |-> Out[ps[k]]] = [k \in About(ps, i) |-> Floor0(-Moved(ps[k]))]
  BY <1>1 DEF In, Out
<1>3. QED
  BY <1>2 DEF Net, Weighed

LEMMA PaymentRows ==
  ASSUME ReservationTypeOK
  PROVE  /\ payments \in Seq(PaymentRow)
         /\ \A i : i \notin Id => About(payments, i) = {}
<1>1. payments \in Seq([reservation : Id, type : PaymentType, amount : Payment])
  BY DEF ReservationTypeOK
<1>2. [reservation : Id, type : PaymentType, amount : Payment] \subseteq PaymentRow
  BY DEF PaymentRow, Id
<1>3. payments \in Seq(PaymentRow)
  BY <1>1, <1>2, SeqMonotonic
<1>4. \A k \in DOMAIN payments :
        payments[k] \in [reservation : Id, type : PaymentType, amount : Payment]
  BY <1>1, ElementOfSeq, LenProperties
<1>5. QED
  BY <1>3, <1>4 DEF About

-----------------------------------------------------------------------------
(* The three properties, as statements about the tables *)

Covered(rows, ps) == \A i \in DOMAIN rows : rows[i].paid >= Net(ps, i)

LEMMA Restated ==
  ASSUME ReservationTypeOK
  PROVE  /\ WithinPolicy <=> Room(facility.policy, reservations)
         /\ StayInOrder <=> \A i \in Id : StayFits(reservations[i])
         /\ PaidCoversRows <=> Covered(reservations, payments)
<1>1. DOMAIN reservations = Id /\ facility.policy \in Policy
  BY Rows DEF ReservationTypeOK
<1>2. WithinPolicy <=> Room(facility.policy, reservations)
  BY <1>1 DEF WithinPolicy, Room, There, GuestSum, GuestsOf, Policy
<1>3. StayInOrder <=> \A i \in Id : StayFits(reservations[i])
  BY DEF StayInOrder, StayFits
<1>4. PaidCoversRows <=> Covered(reservations, payments)
  <2>1. \A i : NetReceived(i) = Net(payments, i)
    BY PaymentRows, NetIs DEF NetReceived, About
  <2>2. QED
    BY <1>1, <2>1 DEF PaidCoversRows, Covered
<1>5. QED
  BY <1>2, <1>3, <1>4

LEMMA RestatedNext ==
  ASSUME ReservationTypeOK'
  PROVE  /\ WithinPolicy' <=> Room(facility'.policy, reservations')
         /\ StayInOrder' <=> \A i \in Id' : StayFits(reservations'[i])
         /\ PaidCoversRows' <=> Covered(reservations', payments')
<1>1. DOMAIN reservations' = Id' /\ facility'.policy \in Policy
  BY LenProperties DEF ReservationTypeOK, Id
<1>2. WithinPolicy' <=> Room(facility'.policy, reservations')
  BY <1>1 DEF WithinPolicy, Room, There, GuestSum, GuestsOf, Policy
<1>3. StayInOrder' <=> \A i \in Id' : StayFits(reservations'[i])
  BY DEF StayInOrder, StayFits
<1>4. PaidCoversRows' <=> Covered(reservations', payments')
  <2>1. payments' \in Seq([reservation : Id', type : PaymentType, amount : Payment])
    BY DEF ReservationTypeOK
  <2>2. [reservation : Id', type : PaymentType, amount : Payment] \subseteq PaymentRow
    BY DEF PaymentRow, Id
  <2>3. payments' \in Seq(PaymentRow)
    BY <2>1, <2>2, SeqMonotonic
  <2>4. \A i : NetReceived(i)' = Net(payments', i)
    BY <2>3, NetIs DEF NetReceived, About
  <2>5. QED
    BY <1>1, <2>4 DEF PaidCoversRows, Covered
<1>5. QED
  BY <1>2, <1>3, <1>4

LEMMA Parts ==
  ASSUME SerialInv
  PROVE  /\ ReservationTypeOK /\ RowsInHand
         /\ Room(facility.policy, reservations)
         /\ \A i \in Id : StayFits(reservations[i])
         /\ Covered(reservations, payments)
BY Restated DEF SerialInv

LEMMA FromParts ==
  ASSUME ReservationTypeOK', RowsInHand',
         Room(facility'.policy, reservations'),
         \A i \in Id' : StayFits(reservations'[i]),
         Covered(reservations', payments')
  PROVE  SerialInv'
BY RestatedNext DEF SerialInv

-----------------------------------------------------------------------------
(* One call at a time: each kind of step *)

LEMMA SerialCreate ==
  ASSUME SerialInv, ReservationTypeOK', NEW villa \in Villa, NEW when \in Booking,
         NEW guests \in Guests, NEW price \in Price,
         Create(villa, when, guests, price)
  PROVE  SerialInv'
<1> DEFINE n == Len(reservations)
           row == [villa |-> villa, when |-> when, guests |-> guests, total |-> price,
        status |-> IF facility.approval THEN "REQUESTED" ELSE "APPROVED",
        checkedIn |-> FALSE, checkedOut |-> FALSE,
        paid |-> 0, remaining |-> price, paymentStatus |-> "UNPAID"]
<1>1. /\ ReservationTypeOK /\ RowsInHand
      /\ Room(facility.policy, reservations)
      /\ \A i \in Id : StayFits(reservations[i])
      /\ Covered(reservations, payments)
  BY Parts
<1>2. /\ n \in Nat /\ Id = 1 .. n /\ DOMAIN reservations = Id
      /\ reservations \in [Id -> Row]
  BY <1>1, Rows DEF Id
<1>3. reservations' = Append(reservations, row) /\ UNCHANGED <<facility, payments, handler>>
  BY DEF Create
<1>4. /\ Len(reservations') = n + 1 /\ reservations'[n + 1] = row
      /\ \A i \in 1 .. n : reservations'[i] = reservations[i]
      /\ Id' = 1 .. n + 1
  BY <1>1, <1>3, AppendProperties DEF ReservationTypeOK, Id
<1>5. reservations' \in [1 .. n + 1 -> Row] /\ DOMAIN reservations' = 1 .. n + 1
  <2>1. /\ DOMAIN reservations' = Id'
        /\ \A i \in Id' : reservations'[i] \in Row
        /\ reservations' = [i \in Id' |-> reservations'[i]]
    BY ElementOfSeq, LenProperties DEF ReservationTypeOK, Id
  <2>2. QED
    BY <1>4, <2>1
<1> HIDE DEF row, n
<1>6. row.villa = villa /\ row.when = when /\ row.guests = guests
      /\ row.paid = 0 /\ ~row.checkedIn /\ ~row.checkedOut
  BY DEF row
<1>7. RowsInHand'
  <2>1. \A h \in Handler : Busy(h) => DOMAIN handler[h].copy \subseteq Id
    BY <1>1 DEF ReservationTypeOK, Busy
  <2>2. QED
    BY <1>1, <1>2, <1>3, <1>4, <2>1 DEF RowsInHand, Busy
<1>8. Room(facility'.policy, reservations')
  <2>1. facility.policy \in Policy
    BY <1>1 DEF ReservationTypeOK
  <2>2. RoomFor(facility.policy, reservations, row)
    BY <1>2, <1>6, <2>1
       DEF Create, PolicyAllows, RoomFor, Overlapping, Meeting, GuestsOf, GuestSum, Policy
  <2>3. Room(facility.policy, reservations')
    BY <1>1, <1>2, <1>4, <1>5, <2>2, RoomTaken
  <2>4. QED
    BY <1>3, <2>3
<1>9. \A i \in Id' : StayFits(reservations'[i])
  BY <1>1, <1>2, <1>4, <1>6 DEF StayFits
<1>10. Covered(reservations', payments')
  <2>1. Net(payments, n + 1) = 0
    <3>1. n + 1 \notin Id
      BY <1>2
    <3>2. QED
      BY <1>1, <3>1, PaymentRows, NetOfNone
  <2>2. \A i \in 1 .. n + 1 : reservations'[i].paid >= Net(payments, i)
    BY <1>1, <1>2, <1>4, <1>6, <2>1 DEF Covered
  <2>3. QED
    BY <1>3, <1>5, <2>2 DEF Covered
<1>11. QED
  BY <1>7, <1>8, <1>9, <1>10, FromParts

LEMMA SerialLoad ==
  ASSUME SerialInv, ReservationTypeOK', \A g, k \in Handler : g = k,
         NEW h \in Handler, NEW op \in Operation, NEW ids \in SUBSET Id, Load(h, op, ids)
  PROVE  SerialInv'
<1>1. /\ ReservationTypeOK
      /\ Room(facility.policy, reservations)
      /\ \A i \in Id : StayFits(reservations[i])
      /\ Covered(reservations, payments)
  BY Parts
<1>2. handler'[h] = [op |-> op, copy |-> [i \in ids |-> reservations[i]]]
  BY <1>1 DEF Load, ReservationTypeOK
<1>3. UNCHANGED <<facility, reservations, payments>> /\ Id' = Id
  BY DEF Load, Id
<1>4. RowsInHand'
  <2>1. \A i \in ids : Accepts(op, reservations[i])
    BY DEF Load
  <2> SUFFICES ASSUME NEW g \in Handler, NEW i \in DOMAIN handler'[g].copy
               PROVE  /\ handler'[g].copy[i] = reservations'[i]
                      /\ Accepts(handler'[g].op, reservations'[i])
    BY DEF RowsInHand
  <2>2. g = h
    OBVIOUS
  <2>3. i \in ids /\ handler'[g].copy[i] = reservations[i] /\ handler'[g].op = op
    BY <1>2, <2>2
  <2>4. QED
    BY <1>3, <2>1, <2>3
<1>5. QED
  BY <1>1, <1>3, <1>4, FromParts

(* The last step of the one call there is leaves nothing in hand.          *)
LEMMA NothingInHand ==
  ASSUME ReservationTypeOK, \A g, k \in Handler : g = k, NEW h \in Handler, Ends(h)
  PROVE  RowsInHand'
<1>1. \A g \in Handler : handler'[g] = Idle
  BY DEF Ends, ReservationTypeOK
<1>2. QED
  BY <1>1 DEF RowsInHand, Busy

LEMMA SerialSave ==
  ASSUME SerialInv, ReservationTypeOK', \A g, k \in Handler : g = k,
         NEW h \in Handler, Saves(h)
  PROVE  SerialInv'
<1>1. /\ ReservationTypeOK /\ RowsInHand
      /\ Room(facility.policy, reservations)
      /\ \A i \in Id : StayFits(reservations[i])
      /\ Covered(reservations, payments)
  BY Parts
<1>2. /\ DOMAIN reservations' = Id
      /\ \A i \in Id : MovesOn(reservations[i], reservations'[i])
      /\ Ends(h) /\ UNCHANGED <<facility, payments>>
  BY <1>1, SavedRows
<1>3. reservations \in [Id -> Row] /\ DOMAIN reservations = Id /\ IsFiniteSet(Id)
  BY <1>1, Rows
<1>4. \A i \in Id : /\ reservations'[i].paid = reservations[i].paid
                    /\ TakesNoMore(reservations[i], reservations'[i])
                    /\ StayFits(reservations[i]) => StayFits(reservations'[i])
  BY <1>2, <1>3, RowMoved
<1>5. reservations' \in [Id -> Row] /\ Id' = Id
  <2>1. /\ DOMAIN reservations' = Id'
        /\ \A i \in Id' : reservations'[i] \in Row
        /\ reservations' = [i \in Id' |-> reservations'[i]]
    BY ElementOfSeq, LenProperties DEF ReservationTypeOK, Id
  <2>2. QED
    BY <1>2, <2>1
<1>6. RowsInHand'
  BY <1>1, <1>2, NothingInHand
<1>7. Room(facility'.policy, reservations')
  <2>1. Room(facility.policy, reservations')
    BY <1>1, <1>3, <1>4, <1>5, RoomKept
  <2>2. QED
    BY <1>2, <2>1
<1>8. \A i \in Id' : StayFits(reservations'[i])
  BY <1>1, <1>4, <1>5
<1>9. Covered(reservations', payments')
  BY <1>1, <1>2, <1>3, <1>4 DEF Covered
<1>10. QED
  BY <1>6, <1>7, <1>8, <1>9, FromParts

LEMMA SerialRegister ==
  ASSUME SerialInv, ReservationTypeOK', \A g, k \in Handler : g = k,
         NEW h \in Handler, Registers(h)
  PROVE  SerialInv'
<1>1. /\ ReservationTypeOK /\ RowsInHand
      /\ Room(facility.policy, reservations)
      /\ \A i \in Id : StayFits(reservations[i])
      /\ Covered(reservations, payments)
  BY Parts
<1>2. reservations \in [Id -> Row] /\ DOMAIN reservations = Id /\ IsFiniteSet(Id)
      /\ Len(reservations) \in Nat /\ payments \in Seq(PaymentRow)
  BY <1>1, Rows, PaymentRows
<1>3. PICK a \in Payment, type \in PaymentType : RegisterPayment(h, type, a)
  BY DEF Registers
<1>4. PICK i \in DOMAIN handler[h].copy :
        /\ payments' = Append(payments,
             [reservation |-> i, type |-> type, amount |-> a])
        /\ reservations' = [reservations EXCEPT
             ![i] = WithPaid(@, handler[h].copy[i],
                             NewPaid(handler[h].copy[i], type, a))]
  BY <1>3 DEF RegisterPayment
<1>5. i \in Id /\ handler[h].copy[i] = reservations[i]
  BY <1>1 DEF Registers, RowsInHand, Busy, ReservationTypeOK
<1> DEFINE was == reservations[i]
           now == WithPaid(was, was, NewPaid(was, type, a))
           entry == [reservation |-> i, type |-> type, amount |-> a]
<1>6. reservations' = [reservations EXCEPT ![i] = now]
  BY <1>4, <1>5
<1>7. was \in Row
  BY <1>2, <1>5
<1> HIDE DEF was, now, entry
<1>8. /\ now \in Row /\ now.paid \in Int
      /\ now.paid >= was.paid + (IF type = "REFUND" THEN -a ELSE a)
      /\ TakesNoMore(was, now)
      /\ StayFits(was) => StayFits(now)
  <2>1. now = WithPaid(was, was, NewPaid(was, type, a))
    BY DEF now
  <2>2. QED
    BY <1>7, <2>1, RowPaid
<1>9. /\ DOMAIN reservations' = Id /\ reservations' \in [Id -> Row] /\ reservations'[i] = now
      /\ \A j \in Id : j # i => reservations'[j] = reservations[j]
  BY <1>2, <1>5, <1>6, <1>8
<1>10. Id' = Id
  <2>1. DOMAIN reservations' = Id'
    BY LenProperties DEF ReservationTypeOK, Id
  <2>2. QED
    BY <1>9, <2>1
<1>11. \A j \in Id : /\ TakesNoMore(reservations[j], reservations'[j])
                     /\ StayFits(reservations[j]) => StayFits(reservations'[j])
  <2>1. \A j \in Id : TakesNoMore(reservations[j], reservations[j])
    BY DEF TakesNoMore
  <2>2. QED
    BY <1>8, <1>9, <2>1 DEF was
<1>12. facility' = facility /\ Ends(h)
  BY <1>3 DEF RegisterPayment
<1>13. Room(facility'.policy, reservations')
  <2>1. Room(facility.policy, reservations')
    BY <1>1, <1>2, <1>9, <1>11, RoomKept
  <2>2. QED
    BY <1>12, <2>1
<1>14. Covered(reservations', payments')
  <2>1. entry \in PaymentRow /\ payments' = Append(payments, entry)
    BY <1>2, <1>4, <1>5 DEF PaymentRow, Id, entry
  <2>2. entry.reservation = i /\ Moved(entry) = IF type = "REFUND" THEN -a ELSE a
    BY DEF Moved, entry
  <2>3. \A j \in Id :
          /\ Net(payments, j) \in Int
          /\ Net(payments', j) = Net(payments, j) + (IF entry.reservation = j THEN Moved(entry) ELSE 0)
    BY <1>2, <2>1, NetMore
  <2>4. \A j \in Id : reservations[j].paid >= Net(payments, j) /\ reservations[j].paid \in Int
    BY <1>1, <1>2 DEF Covered, Row
  <2>5. Net(payments', i) = Net(payments, i) + (IF type = "REFUND" THEN -a ELSE a)
    BY <1>5, <2>2, <2>3
  <2>6. \A j \in Id : j # i => Net(payments', j) = Net(payments, j)
    BY <2>2, <2>3
  <2>7. reservations'[i].paid >= Net(payments', i)
    <3>1. a \in Int
      BY BookingAssumption
    <3>2. was.paid >= Net(payments, i) /\ was.paid \in Int /\ Net(payments, i) \in Int
      BY <1>5, <2>3, <2>4 DEF was
    <3>3. QED
      BY <1>8, <1>9, <2>5, <3>1, <3>2
  <2>8. \A j \in Id : reservations'[j].paid >= Net(payments', j)
    BY <1>9, <2>4, <2>6, <2>7
  <2>9. QED
    BY <1>9, <2>8 DEF Covered
<1>15. RowsInHand'
  BY <1>1, <1>12, NothingInHand
<1>16. \A j \in Id' : StayFits(reservations'[j])
  BY <1>1, <1>10, <1>11
<1>17. QED
  BY <1>13, <1>14, <1>15, <1>16, FromParts

LEMMA SerialInit == ReservationInit => SerialInv
<1> SUFFICES ASSUME ReservationInit PROVE SerialInv
  OBVIOUS
<1>1. ReservationTypeOK /\ Id = {} /\ facility.policy \in Policy
  BY TypeInit DEF ReservationInit, Id
<1>2. RowsInHand
  BY DEF ReservationInit, RowsInHand, Busy
<1>3. StayInOrder /\ PaidCoversRows
  BY <1>1 DEF StayInOrder, PaidCoversRows
<1>4. WithinPolicy
  <2>1. Room(facility.policy, reservations)
    <3>1. \A t : There(reservations, t) = {}
      BY DEF ReservationInit, There
    <3>2. GuestSum(reservations, {}) = 0
      BY SumOfEmpty DEF GuestSum
    <3>3. 0 <= Capacity
      BY BookingAssumption
    <3>4. QED
      BY <3>1, <3>2, <3>3 DEF Room
  <2>2. QED
    BY <1>1, <2>1, Restated
<1>5. QED
  BY <1>1, <1>2, <1>3, <1>4 DEF SerialInv

LEMMA SerialStep ==
  ASSUME \A g, h \in Handler : g = h
  PROVE  SerialInv /\ [ReservationNext]_vars => SerialInv'
<1> SUFFICES ASSUME SerialInv, [ReservationNext]_vars
             PROVE  SerialInv'
  OBVIOUS
<1>1. ReservationTypeOK /\ ReservationTypeOK'
  BY TypeStep DEF SerialInv
<1>2. CASE UNCHANGED vars
  <2>1. /\ RowsInHand' /\ Id' = Id
        /\ UNCHANGED <<facility, reservations, payments>>
    BY <1>2 DEF SerialInv, vars, RowsInHand, Busy, Id
  <2>2. QED
    BY <1>1, <2>1, Parts, FromParts
<1>3. ASSUME NEW villa \in Villa, NEW when \in Booking, NEW guests \in Guests,
             NEW price \in Price, Create(villa, when, guests, price)
      PROVE  SerialInv'
  BY <1>1, <1>3, SerialCreate
<1>4. ASSUME NEW h \in Handler, Handle(h)
      PROVE  SerialInv'
  <2>1. ASSUME NEW op \in Operation, NEW ids \in SUBSET Id, Load(h, op, ids)
        PROVE  SerialInv'
    BY <1>1, <2>1, SerialLoad
  <2>2. CASE Saves(h)
    BY <1>1, <2>2, SerialSave
  <2>3. CASE Registers(h)
    BY <1>1, <2>3, SerialRegister
  <2>4. CASE GiveUp(h)
    <3>1. /\ RowsInHand' /\ Id' = Id
          /\ UNCHANGED <<facility, reservations, payments>>
      BY <1>1, <2>4, NothingInHand DEF GiveUp, Id
    <3>2. QED
      BY <1>1, <3>1, Parts, FromParts
  <2>5. QED
    BY <1>1, <1>4, <2>1, <2>2, <2>3, <2>4, HandleCases
<1>5. QED
  BY <1>2, <1>3, <1>4 DEF ReservationNext

(* With calls handled one at a time, every booking kept within the policy, *)
(* every stay in order and every payment counted, together with what makes *)
(* them so: the instance a call holds is the row.                          *)
THEOREM SerialInvariant ==
  ASSUME \A g, h \in Handler : g = h
  PROVE  ReservationSpec => []SerialInv
<1>1. SerialInv /\ [ReservationNext]_vars => SerialInv'
  BY SerialStep
<1>2. QED
  BY <1>1, SerialInit, PTL DEF ReservationSpec

(* create_reservation's check under the facility's lock is enough: whatever*)
(* calls follow it, one at a time, no period ever holds more than the      *)
(* facility's policy allows.                                               *)
THEOREM PolicyKept ==
  ASSUME \A g, h \in Handler : g = h
  PROVE  ReservationSpec => []WithinPolicy
<1>1. ReservationSpec => []SerialInv
  BY SerialInvariant
<1>2. SerialInv => WithinPolicy
  BY DEF SerialInv
<1>3. QED
  BY <1>1, <1>2, PTL

(* One at a time, checkin and checkout come in order, and nothing turns a  *)
(* reservation down once its guests have entered.                          *)
THEOREM StaysInOrder ==
  ASSUME \A g, h \in Handler : g = h
  PROVE  ReservationSpec => []StayInOrder
<1>1. ReservationSpec => []SerialInv
  BY SerialInvariant
<1>2. SerialInv => StayInOrder
  BY DEF SerialInv
<1>3. QED
  BY <1>1, <1>2, PTL

(* One at a time, register_payment's columns never fall behind the payment *)
(* rows: paid_amount covers what was received and not given back.          *)
THEOREM PaymentsCovered ==
  ASSUME \A g, h \in Handler : g = h
  PROVE  ReservationSpec => []PaidCoversRows
<1>1. ReservationSpec => []SerialInv
  BY SerialInvariant
<1>2. SerialInv => PaidCoversRows
  BY DEF SerialInv
<1>3. QED
  BY <1>1, <1>2, PTL

(* One row of ReservationLifecycle.                                        *)
Forward(was, now) ==
  \/ now.status = was.status
  \/ was.status = "REQUESTED" /\ now.status \in {"APPROVED", "REJECTED", "CANCELLED"}
  \/ was.status = "APPROVED" /\ now.status \in {"CANCELLED", "COMPLETED"}
  \/ was.status = "REJECTED" /\ now.status = "CANCELLED"
  \/ was.status = "CANCELLED" /\ now.status = "COMPLETED" /\ was.checkedIn

LEMMA SavedForward ==
  ASSUME NEW was \in Row, NEW now, MovesOn(was, now), StayFits(was)
  PROVE  Forward(was, now)
BY DEF MovesOn, Forward, StayFits, Row, MayCancel, MayCheckIn, MayCheckOut,
       ReservationStatus

LEMMA ForwardStep ==
  ASSUME SerialInv, [ReservationNext]_vars, NEW i \in Id
  PROVE  Forward(reservations[i], reservations'[i])
<1>1. /\ ReservationTypeOK /\ RowsInHand /\ \A j \in Id : StayFits(reservations[j])
  BY Parts
<1>2. reservations \in [Id -> Row] /\ Id = 1 .. Len(reservations)
  BY <1>1, Rows DEF Id
<1>3. Forward(reservations[i], reservations[i])
  BY DEF Forward
<1>4. CASE UNCHANGED vars
  BY <1>3, <1>4 DEF vars
<1>5. ASSUME NEW villa \in Villa, NEW when \in Booking, NEW guests \in Guests,
             NEW price \in Price, Create(villa, when, guests, price)
      PROVE  Forward(reservations[i], reservations'[i])
  <2>1. PICK row : reservations' = Append(reservations, row)
    BY <1>5 DEF Create
  <2>2. reservations'[i] = reservations[i]
    BY <1>1, <1>2, <2>1, AppendProperties DEF ReservationTypeOK, Id
  <2>3. QED
    BY <1>3, <2>2
<1>6. ASSUME NEW h \in Handler, Handle(h)
      PROVE  Forward(reservations[i], reservations'[i])
  <2>1. CASE Saves(h)
    BY <1>1, <1>2, <2>1, SavedRows, SavedForward
  <2>2. CASE Registers(h)
    <3>1. PICK a \in Payment, type \in PaymentType, j \in DOMAIN handler[h].copy :
            reservations' = [reservations EXCEPT
              ![j] = WithPaid(@, handler[h].copy[j],
                              NewPaid(handler[h].copy[j], type, a))]
      BY <2>2 DEF Registers, RegisterPayment
    <3> DEFINE now == WithPaid(reservations[i], handler[h].copy[j],
                               NewPaid(handler[h].copy[j], type, a))
    <3>2. reservations'[i] = IF i = j THEN now ELSE reservations[i]
      BY <1>2, <3>1
    <3>3. now.status = reservations[i].status
      BY <1>2 DEF WithPaid, Row
    <3>4. QED
      BY <1>3, <3>2, <3>3 DEF Forward
  <2>3. CASE (\E op \in Operation, ids \in SUBSET Id : Load(h, op, ids)) \/ GiveUp(h)
    BY <1>3, <2>3 DEF Load, GiveUp
  <2>4. QED
    BY <1>1, <1>6, <2>1, <2>2, <2>3, HandleCases
<1>7. QED
  BY <1>4, <1>5, <1>6 DEF ReservationNext

(* One at a time, the statuses move forward: only a request is approved,   *)
(* nothing leaves COMPLETED, and only checkout of a stay that had begun    *)
(* completes a cancelled reservation.                                      *)
THEOREM StatusesMoveForward ==
  ASSUME \A g, h \in Handler : g = h
  PROVE  ReservationSpec => ReservationLifecycle
<1>1. ReservationSpec => []SerialInv
  BY SerialInvariant
<1>2. ASSUME SerialInv, [ReservationNext]_vars
      PROVE  [\A i \in Id :
                LET was == reservations[i].status
                    now == reservations'[i].status
                IN \/ now = was
                   \/ was = "REQUESTED" /\ now \in {"APPROVED", "REJECTED", "CANCELLED"}
                   \/ was = "APPROVED" /\ now \in {"CANCELLED", "COMPLETED"}
                   \/ was = "REJECTED" /\ now = "CANCELLED"
                   \/ /\ was = "CANCELLED" /\ now = "COMPLETED"
                      /\ reservations[i].checkedIn]_vars
  BY <1>2, ForwardStep DEF Forward
<1>3. QED
  BY <1>1, <1>2, PTL DEF ReservationSpec, ReservationLifecycle

-----------------------------------------------------------------------------
(* Any number of calls at a time: who overbooks the facility               *)

(* A booking is fixed when it is made: villa, periods and guests.          *)
SameBooking(a, b) == a.villa = b.villa /\ a.when = b.when /\ a.guests = b.guests

CopiesInv ==
  /\ ReservationTypeOK
  /\ \A h \in Handler : Busy(h) =>
       \A i \in DOMAIN handler[h].copy : SameBooking(handler[h].copy[i], reservations[i])

LEMMA SavedBookings ==
  ASSUME CopiesInv, NEW h \in Handler, Saves(h)
  PROVE  /\ DOMAIN reservations' = Id /\ Ends(h) /\ UNCHANGED <<facility, payments>>
         /\ \A i \in Id : SameBooking(reservations[i], reservations'[i])
         /\ ~StaleApproval => \A i \in Id : TakesNoMore(reservations[i], reservations'[i])
<1>1. handler[h].op \in AllOperations
  BY DEF Saves, Approve, Reject, Cancel, CheckIn, CheckOut, Expire,
         AutoComplete, SaveAll, SaveStatus, AllOperations
<1>2. \A i \in DOMAIN handler[h].copy :
        /\ i \in Id /\ handler[h].copy[i] \in Row
        /\ SameBooking(handler[h].copy[i], reservations[i])
  BY <1>1, WorkingIsBusy DEF CopiesInv, ReservationTypeOK, Busy
<1>3. \A i \in Id : reservations[i] \in Row
  BY Rows DEF CopiesInv
<1>4. Ends(h) /\ UNCHANGED <<facility, payments>> /\ DOMAIN reservations' = Id
  BY DEF Saves, Approve, Reject, Cancel, CheckIn, CheckOut, Expire, AutoComplete,
         SaveAll, SaveStatus
<1>5. ASSUME NEW op, NEW status, SaveAll(h, op, status)
      PROVE  \A i \in Id :
               /\ SameBooking(reservations[i], reservations'[i])
               /\ \/ reservations'[i] = reservations[i]
                  \/ i \in DOMAIN handler[h].copy /\ reservations'[i].status = status
  BY <1>2, <1>5 DEF SaveAll, SameBooking, Row
<1>6. ASSUME NEW op, NEW status, SaveStatus(h, op, status)
      PROVE  \A i \in Id :
               /\ SameBooking(reservations[i], reservations'[i])
               /\ reservations'[i] = reservations[i] \/ reservations'[i].status = status
  BY <1>3, <1>6 DEF SaveStatus, SameBooking, Row
<1>7. CASE Approve(h)
  <2>1. \A i \in Id :
          /\ SameBooking(reservations[i], reservations'[i])
          /\ reservations'[i] = reservations[i] \/ i \in DOMAIN handler[h].copy
    BY <1>5, <1>7 DEF Approve
  <2>2. ~StaleApproval => \A i \in DOMAIN handler[h].copy : reservations[i].status \in Active
    BY <1>7 DEF StaleApproval
  <2>3. QED
    BY <1>4, <2>1, <2>2 DEF TakesNoMore, SameBooking
<1>8. CASE Reject(h) \/ Cancel(h)
  <2>1. \A i \in Id :
          /\ SameBooking(reservations[i], reservations'[i])
          /\ \/ reservations'[i] = reservations[i]
             \/ reservations'[i].status \in {"REJECTED", "CANCELLED"}
    BY <1>5, <1>8 DEF Reject, Cancel
  <2>2. QED
    BY <1>4, <2>1 DEF TakesNoMore, SameBooking, Active
<1>9. CASE Expire(h) \/ AutoComplete(h)
  <2>1. \A i \in Id :
          /\ SameBooking(reservations[i], reservations'[i])
          /\ \/ reservations'[i] = reservations[i]
             \/ reservations'[i].status \in {"REJECTED", "COMPLETED"}
    BY <1>6, <1>9 DEF Expire, AutoComplete
  <2>2. QED
    BY <1>4, <2>1 DEF TakesNoMore, SameBooking, Active
<1>10. CASE CheckIn(h)
  BY <1>3, <1>4, <1>10 DEF CheckIn, TakesNoMore, SameBooking, Row
<1>11. CASE CheckOut(h)
  <2> DEFINE Left(was) == [was EXCEPT !.checkedOut = TRUE, !.status = "COMPLETED"]
  <2>1. \A i \in Id :
          \/ reservations'[i] = reservations[i]
          \/ reservations'[i] = Left(reservations[i])
    BY <1>11 DEF CheckOut
  <2>2. \A was \in Row :
          SameBooking(was, Left(was)) /\ Left(was).status = "COMPLETED"
    BY DEF SameBooking, Row
  <2> HIDE DEF Left
  <2>3. \A i \in Id :
          /\ SameBooking(reservations[i], reservations'[i])
          /\ \/ reservations'[i] = reservations[i]
             \/ reservations'[i].status = "COMPLETED"
    BY <1>3, <2>1, <2>2 DEF SameBooking
  <2>4. QED
    BY <1>4, <2>3 DEF TakesNoMore, SameBooking, Active
<1>12. QED
  BY <1>7, <1>8, <1>9, <1>10, <1>11 DEF Saves

LEMMA RegisteredBookings ==
  ASSUME CopiesInv, NEW h \in Handler, Registers(h)
  PROVE  /\ DOMAIN reservations' = Id /\ Ends(h) /\ UNCHANGED facility
         /\ \A i \in Id : /\ SameBooking(reservations[i], reservations'[i])
                          /\ TakesNoMore(reservations[i], reservations'[i])
<1>1. PICK a \in Payment, type \in PaymentType, i \in DOMAIN handler[h].copy :
        reservations' = [reservations EXCEPT
          ![i] = WithPaid(@, handler[h].copy[i], NewPaid(handler[h].copy[i], type, a))]
  BY DEF Registers, RegisterPayment
<1>2. DOMAIN reservations = Id /\ \A j \in Id : reservations[j] \in Row
  BY Rows DEF CopiesInv
<1>3. Ends(h) /\ UNCHANGED facility
  BY DEF Registers, RegisterPayment
<1>4. \A was \in Row : \A loaded, paid :
        /\ WithPaid(was, loaded, paid).status = was.status
        /\ SameBooking(was, WithPaid(was, loaded, paid))
  BY DEF WithPaid, Row, SameBooking
<1>5. QED
  BY <1>1, <1>2, <1>3, <1>4 DEF TakesNoMore, SameBooking

LEMMA CopiesKept ==
  ASSUME CopiesInv, ReservationTypeOK', NEW h \in Handler, Ends(h),
         \A i \in Id : SameBooking(reservations[i], reservations'[i])
  PROVE  CopiesInv'
<1>1. ASSUME NEW g \in Handler, Busy(g)', NEW i \in DOMAIN handler'[g].copy
      PROVE  SameBooking(handler'[g].copy[i], reservations'[i])
  <2>1. Busy(g) /\ handler'[g] = handler[g]
    BY <1>1, EndHolds DEF CopiesInv
  <2>2. i \in Id
    BY <1>1, <2>1 DEF CopiesInv, ReservationTypeOK, Busy
  <2>3. QED
    BY <1>1, <2>1, <2>2 DEF CopiesInv, SameBooking
<1>2. QED
  BY <1>1 DEF CopiesInv, SameBooking

LEMMA CopiesLoad ==
  ASSUME CopiesInv, ReservationTypeOK', NEW h \in Handler, NEW op \in Operation,
         NEW ids \in SUBSET Id, Load(h, op, ids)
  PROVE  CopiesInv'
<1>1. reservations' = reservations
  BY DEF Load
<1> DEFINE copy == [j \in ids |-> reservations[j]]
<1>2. \A g \in Handler :
        handler'[g] = IF g = h THEN [op |-> op, copy |-> copy] ELSE handler[g]
  BY DEF Load, CopiesInv, ReservationTypeOK
<1>3. DOMAIN copy = ids /\ \A i \in ids : copy[i] = reservations[i]
  OBVIOUS
<1> HIDE DEF copy
<1>4. ASSUME NEW g \in Handler, Busy(g)', NEW i \in DOMAIN handler'[g].copy
      PROVE  SameBooking(handler'[g].copy[i], reservations'[i])
  <2>1. CASE g = h
    <3>1. handler'[g].copy = copy
      BY <1>2, <2>1
    <3>2. QED
      BY <1>1, <1>3, <1>4, <3>1 DEF SameBooking
  <2>2. CASE g # h
    <3>1. handler'[g] = handler[g]
      BY <1>2, <2>2
    <3>2. QED
      BY <1>1, <1>4, <3>1 DEF CopiesInv, Busy
  <2>3. QED
    BY <2>1, <2>2
<1>5. QED
  BY <1>4 DEF CopiesInv, SameBooking

(* A new row for which validate_reservation_policy found room.             *)
LEMMA CreatedBookings ==
  ASSUME CopiesInv, ReservationTypeOK', NEW villa \in Villa, NEW when \in Booking,
         NEW guests \in Guests, NEW price \in Price, Create(villa, when, guests, price)
  PROVE  CopiesInv' /\ (WithinPolicy => WithinPolicy')
<1> DEFINE n == Len(reservations)
           row == [villa |-> villa, when |-> when, guests |-> guests, total |-> price,
        status |-> IF facility.approval THEN "REQUESTED" ELSE "APPROVED",
        checkedIn |-> FALSE, checkedOut |-> FALSE,
        paid |-> 0, remaining |-> price, paymentStatus |-> "UNPAID"]
<1>1. /\ n \in Nat /\ Id = 1 .. n /\ DOMAIN reservations = Id
      /\ reservations \in [Id -> Row] /\ facility.policy \in Policy
  BY Rows DEF Id, CopiesInv, ReservationTypeOK
<1>2. reservations' = Append(reservations, row) /\ UNCHANGED <<facility, payments, handler>>
  BY DEF Create
<1>3. /\ Len(reservations') = n + 1 /\ reservations'[n + 1] = row
      /\ \A i \in 1 .. n : reservations'[i] = reservations[i]
      /\ Id' = 1 .. n + 1
  BY <1>2, AppendProperties DEF CopiesInv, ReservationTypeOK, Id
<1>4. reservations' \in [1 .. n + 1 -> Row]
  <2>1. /\ DOMAIN reservations' = Id'
        /\ \A i \in Id' : reservations'[i] \in Row
        /\ reservations' = [i \in Id' |-> reservations'[i]]
    BY ElementOfSeq, LenProperties DEF ReservationTypeOK, Id
  <2>2. QED
    BY <1>3, <2>1
<1>5. row.villa = villa /\ row.when = when /\ row.guests = guests
  OBVIOUS
<1> HIDE DEF row, n
<1>6. CopiesInv'
  <2>1. \A h \in Handler : Busy(h) => DOMAIN handler[h].copy \subseteq Id
    BY DEF CopiesInv, ReservationTypeOK, Busy
  <2>2. QED
    BY <1>1, <1>2, <1>3, <2>1 DEF CopiesInv, Busy, SameBooking
<1>7. RoomFor(facility.policy, reservations, row)
  BY <1>1, <1>5
     DEF Create, PolicyAllows, RoomFor, Overlapping, Meeting, GuestsOf, GuestSum, Policy
<1>8. WithinPolicy => Room(facility.policy, reservations')
  <2>1. ReservationTypeOK
    BY DEF CopiesInv
  <2>2. WithinPolicy => Room(facility.policy, reservations)
    BY <2>1, Restated
  <2>3. QED
    BY <1>1, <1>3, <1>4, <1>7, <2>2, RoomTaken
<1>9. QED
  BY <1>2, <1>6, <1>8, RestatedNext

LEMMA NoMoreTaken ==
  ASSUME CopiesInv, ReservationTypeOK', WithinPolicy, DOMAIN reservations' = Id,
         UNCHANGED facility, \A i \in Id : TakesNoMore(reservations[i], reservations'[i])
  PROVE  WithinPolicy'
<1>1. ReservationTypeOK
  BY DEF CopiesInv
<1>2. reservations \in [Id -> Row] /\ IsFiniteSet(Id) /\ Room(facility.policy, reservations)
  BY <1>1, Rows, Restated
<1>3. reservations' \in [Id -> Row]
  <2>1. /\ DOMAIN reservations' = Id'
        /\ \A i \in Id' : reservations'[i] \in Row
        /\ reservations' = [i \in Id' |-> reservations'[i]]
    BY ElementOfSeq, LenProperties DEF ReservationTypeOK, Id
  <2>2. QED
    BY <2>1
<1>4. Room(facility.policy, reservations')
  BY <1>2, <1>3, RoomKept
<1>5. QED
  BY <1>4, RestatedNext

LEMMA BookingsStep ==
  CopiesInv /\ [ReservationNext]_vars =>
    CopiesInv' /\ (WithinPolicy /\ ~StaleApproval => WithinPolicy')
<1> SUFFICES ASSUME CopiesInv, [ReservationNext]_vars
             PROVE  CopiesInv' /\ (WithinPolicy /\ ~StaleApproval => WithinPolicy')
  OBVIOUS
<1>1. ReservationTypeOK /\ ReservationTypeOK'
  BY TypeStep DEF CopiesInv
<1>2. DOMAIN reservations = Id
  BY <1>1, Rows
<1>3. ASSUME UNCHANGED <<facility, reservations>>
      PROVE  WithinPolicy => WithinPolicy'
  BY <1>3 DEF WithinPolicy, Id, GuestsOf
<1>4. CASE UNCHANGED vars
  <2>1. CopiesInv'
    BY <1>1, <1>4 DEF vars, CopiesInv, Busy, SameBooking
  <2>2. QED
    BY <1>3, <1>4, <2>1 DEF vars
<1>5. ASSUME NEW villa \in Villa, NEW when \in Booking, NEW guests \in Guests,
             NEW price \in Price, Create(villa, when, guests, price)
      PROVE  CopiesInv' /\ (WithinPolicy => WithinPolicy')
  BY <1>1, <1>5, CreatedBookings
<1>6. ASSUME NEW h \in Handler, Handle(h)
      PROVE  CopiesInv' /\ (WithinPolicy /\ ~StaleApproval => WithinPolicy')
  <2>1. ASSUME NEW op \in Operation, NEW ids \in SUBSET Id, Load(h, op, ids)
        PROVE  CopiesInv' /\ (WithinPolicy => WithinPolicy')
    <3>1. UNCHANGED <<facility, reservations>>
      BY <2>1 DEF Load
    <3>2. QED
      BY <1>1, <1>3, <2>1, <3>1, CopiesLoad
  <2>2. CASE Saves(h)
    BY <1>1, <2>2, SavedBookings, CopiesKept, NoMoreTaken
  <2>3. CASE Registers(h)
    BY <1>1, <2>3, RegisteredBookings, CopiesKept, NoMoreTaken
  <2>4. CASE GiveUp(h)
    <3>1. UNCHANGED <<facility, reservations>> /\ Ends(h)
      BY <2>4 DEF GiveUp
    <3>2. \A i \in Id : SameBooking(reservations[i], reservations'[i])
      BY <3>1 DEF SameBooking
    <3>3. QED
      BY <1>1, <1>3, <3>1, <3>2, CopiesKept
  <2>5. QED
    BY <1>1, <1>6, <2>1, <2>2, <2>3, <2>4, HandleCases
<1>7. QED
  BY <1>4, <1>5, <1>6 DEF ReservationNext

(* However many calls overlap, the only step that takes the facility beyond*)
(* its policy is approve_reservation with an instance loaded before its row*)
(* was turned down: no creation, payment, stay, rejection or cancellation  *)
(* does, however old the instance it saves.                                *)
THEOREM OverbookedByApproval == ReservationSpec => OnlyStaleApprovalOverbooks
<1>1. ReservationInit => CopiesInv
  BY TypeInit DEF ReservationInit, CopiesInv, Busy
<1>2. CopiesInv /\ [ReservationNext]_vars => CopiesInv'
  BY BookingsStep
<1>3. CopiesInv /\ [ReservationNext]_vars =>
        [WithinPolicy /\ ~StaleApproval => WithinPolicy']_vars
  BY BookingsStep
<1>4. QED
  BY <1>1, <1>2, <1>3, PTL DEF ReservationSpec, OnlyStaleApprovalOverbooks

(* So a facility whose clerks never approve (requires_approval is off, and *)
(* bookings are approved when they are made) is never overbooked, however  *)
(* many calls overlap.                                                     *)
THEOREM NoApprovalNoOverbooking ==
  ASSUME "approve" \notin Operation
  PROVE  ReservationSpec => []WithinPolicy
<1>1. ReservationInit => CopiesInv /\ WithinPolicy
  BY TypeInit, SerialInit DEF ReservationInit, CopiesInv, Busy, SerialInv
<1>2. CopiesInv => ~StaleApproval
  <2> SUFFICES ASSUME CopiesInv, NEW h \in Handler, Approve(h) PROVE FALSE
    BY DEF StaleApproval
  <2>1. handler[h].op = "approve"
    BY DEF Approve, SaveAll
  <2>2. Busy(h)
    BY <2>1, WorkingIsBusy DEF AllOperations
  <2>3. QED
    BY <2>1, <2>2 DEF CopiesInv, ReservationTypeOK, Busy
<1>3. CopiesInv /\ WithinPolicy /\ [ReservationNext]_vars => CopiesInv' /\ WithinPolicy'
  BY <1>2, BookingsStep
<1>4. QED
  BY <1>1, <1>3, PTL DEF ReservationSpec
=============================================================================
