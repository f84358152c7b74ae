------------------------------- MODULE Visits -------------------------------
(***************************************************************************)
(* Visitors (visitors/), the entry and exit records of the gates           *)
(* (access_logs/) and the gates' is_active flag (gates/).                  *)
(*                                                                         *)
(* A request first loads rows (get_object, get_object_or_404) and then     *)
(* calls a service that decides on the loaded instance, locks nothing and  *)
(* ends in a visitor.save() of every column.  The two steps of a request   *)
(* interleave with other requests; the service itself is one transaction   *)
(* whose first write locks the row, so its writes are one step.            *)
(***************************************************************************)
EXTENDS Naturals, Sequences

CONSTANTS Visitors,      \* visitors that may be registered
          EntryGates,    \* gates
          NoVisitor,     \* the subject of a record that names no visitor
          Requests,      \* requests that may be under way at once
          MaxHistory,    \* bound on the VisitorLog rows of one visitor
          MaxRecords     \* bound on the rows of access_logs

ASSUME VisitAssumption == /\ NoVisitor \notin Visitors
                          /\ MaxHistory \in Nat
                          /\ MaxRecords \in Nat

VARIABLES visitor,       \* the visitors table: a row, or Unregistered
          history,       \* the actions of each visitor's VisitorLog rows, oldest first
          vehicles,      \* how many VisitorVehicle rows each visitor has
          windowOver,    \* the visitors whose valid_until has passed
          gateActive,    \* Gate.is_active
          record,        \* the rows of access_logs, oldest first
          request,       \* what each request under way has loaded
          raced          \* history: visitors saved from an instance no longer current

visitVars == <<visitor, history, vehicles, windowOver, gateActive, record, request, raced>>

VisitorStatus == {"REQUESTED", "APPROVED", "REJECTED", "CANCELLED",
                  "CHECKED_IN", "CHECKED_OUT", "EXPIRED"}
\* approvedAt, inAt, outAt: whether approved_at, checked_in_at, checked_out_at is set.
VisitorRow == [status : VisitorStatus, approvedAt : BOOLEAN, inAt : BOOLEAN, outAt : BOOLEAN]
Unregistered == [status |-> "NONE"]
HistoryAction == {"CREATED", "APPROVED", "REJECTED", "CANCELLED", "CHECK_IN", "CHECK_OUT", "EDITED"}
Direction == {"IN", "OUT"}
RecordRow == [gate : EntryGates, visitor : Visitors \cup {NoVisitor}, direction : Direction]

VisitorOp == {"approve", "reject", "cancel", "check_in", "check_out"}
GateOp == {"activate", "deactivate", "update"}
NoRequest == [op |-> "none"]

VisitInit == /\ visitor = [v \in Visitors |-> Unregistered]
             /\ history = [v \in Visitors |-> << >>]
             /\ vehicles = [v \in Visitors |-> 0]
             /\ windowOver = {}
             /\ gateActive = [g \in EntryGates |-> TRUE]
             /\ record = << >>
             /\ request = [r \in Requests |-> NoRequest]
             /\ raced = {}

-----------------------------------------------------------------------------
\* visitor.save() and VisitorLog.objects.create() of one transaction.
SaveVisitor(v, loaded, row, act) ==
    /\ Len(history[v]) < MaxHistory
    /\ visitor' = [visitor EXCEPT ![v] = row]
    /\ history' = [history EXCEPT ![v] = Append(@, act)]
    /\ raced' = IF visitor[v] = loaded THEN raced ELSE raced \cup {v}

create(v) ==
    /\ visitor[v] = Unregistered
    /\ SaveVisitor(v, Unregistered,
                   [status |-> "REQUESTED", approvedAt |-> FALSE, inAt |-> FALSE, outAt |-> FALSE],
                   "CREATED")
    /\ UNCHANGED <<vehicles, windowOver, gateActive, record, request>>

Approved(row) == [row EXCEPT !.status = "APPROVED", !.approvedAt = TRUE]
Rejected(row) == [row EXCEPT !.status = "REJECTED"]
Cancelled(row) == [row EXCEPT !.status = "CANCELLED"]
CheckedIn(row) == [row EXCEPT !.status = "CHECKED_IN", !.inAt = TRUE]
CheckedOut(row) == [row EXCEPT !.status = "CHECKED_OUT", !.outAt = TRUE]

\* Mutant of MayCheckIn: a rejected visitor is let in.
MayEnter(row) == row.status \in {"APPROVED", "REJECTED"}
MayCheckIn(row) == row.status = "APPROVED"
MayCheckOut(row) == row.status = "CHECKED_IN"

\* get_object of the visitor's view.
LoadVisitor(r, v, op) ==
    /\ request[r] = NoRequest
    /\ visitor[v] # Unregistered
    /\ request' = [request EXCEPT ![r] = [op |-> op, visitor |-> v, row |-> visitor[v]]]
    /\ UNCHANGED <<visitor, history, vehicles, windowOver, gateActive, record, raced>>

Ends(r) == request' = [request EXCEPT ![r] = NoRequest]
Serve(r, ops) == request[r].op \in ops /\ Ends(r)

approve_visitor(r) ==
    /\ Serve(r, {"approve"})
    /\ LET q == request[r]
       IN  /\ q.row.status = "REQUESTED"
           /\ SaveVisitor(q.visitor, q.row, Approved(q.row), "APPROVED")
    /\ UNCHANGED <<vehicles, windowOver, gateActive, record>>

\* No status is looked at: a visitor who is inside, or gone, can be turned back.
reject_visitor(r) ==
    /\ Serve(r, {"reject"})
    /\ SaveVisitor(request[r].visitor, request[r].row, Rejected(request[r].row), "REJECTED")
    /\ UNCHANGED <<vehicles, windowOver, gateActive, record>>

cancel_visitor(r) ==
    /\ Serve(r, {"cancel"})
    /\ SaveVisitor(request[r].visitor, request[r].row, Cancelled(request[r].row), "CANCELLED")
    /\ UNCHANGED <<vehicles, windowOver, gateActive, record>>

\* VisitorService.check_in and check_out on the row a request has loaded.
check_in_visitor(v, row) == MayCheckIn(row) /\ SaveVisitor(v, row, CheckedIn(row), "CHECK_IN")
check_out_visitor(v, row) == MayCheckOut(row) /\ SaveVisitor(v, row, CheckedOut(row), "CHECK_OUT")

checkin(r) ==
    /\ Serve(r, {"check_in"})
    /\ check_in_visitor(request[r].visitor, request[r].row)
    /\ UNCHANGED <<vehicles, windowOver, gateActive, record>>

checkout(r) ==
    /\ Serve(r, {"check_out"})
    /\ check_out_visitor(request[r].visitor, request[r].row)
    /\ UNCHANGED <<vehicles, windowOver, gateActive, record>>

add_vehicle(v) ==
    /\ visitor[v] # Unregistered
    /\ vehicles[v] = 0               \* bound: one vehicle
    /\ Len(history[v]) < MaxHistory
    /\ vehicles' = [vehicles EXCEPT ![v] = @ + 1]
    /\ history' = [history EXCEPT ![v] = Append(@, "EDITED")]
    /\ UNCHANGED <<visitor, windowOver, gateActive, record, request, raced>>

\* Mutant of expire: visitors who are inside expire too.
ExpireAll ==
    LET due == {v \in windowOver : visitor[v].status \in {"APPROVED", "CHECKED_IN"}}
    IN  /\ due # {}
        /\ visitor' = [v \in Visitors |->
                         IF v \in due THEN [visitor[v] EXCEPT !.status = "EXPIRED"] ELSE visitor[v]]
        /\ UNCHANGED <<history, vehicles, windowOver, gateActive, record, request, raced>>
\* One UPDATE of every approved visitor whose window is over; it writes no VisitorLog row.
expire ==
    LET due == {v \in windowOver : visitor[v].status = "APPROVED"}
    IN  /\ due # {}
        /\ visitor' = [v \in Visitors |->
                         IF v \in due THEN [visitor[v] EXCEPT !.status = "EXPIRED"] ELSE visitor[v]]
        /\ UNCHANGED <<history, vehicles, windowOver, gateActive, record, request, raced>>

WindowEnds(v) ==
    /\ visitor[v] # Unregistered
    /\ v \notin windowOver
    /\ windowOver' = windowOver \cup {v}
    /\ UNCHANGED <<visitor, history, vehicles, gateActive, record, request, raced>>

-----------------------------------------------------------------------------
(* access_logs: the entry and exit actions of the gate and the plain POST. *)

\* The gate and, when one is named, the visitor.
_resolve_related(r, g, v, dir) ==
    /\ request[r] = NoRequest
    /\ v # NoVisitor => visitor[v] # Unregistered
    /\ request' = [request EXCEPT ![r] =
          [op |-> "record", gate |-> g, open |-> gateActive[g], visitor |-> v, direction |-> dir,
           row |-> IF v = NoVisitor THEN Unregistered ELSE visitor[v]]]
    /\ UNCHANGED <<visitor, history, vehicles, windowOver, gateActive, record, raced>>

\* The passage changes the visitor's status when the loaded status allows it; a refusal is
\* swallowed and the record stays.
_sync_visitor_status(q) ==
    IF q.visitor = NoVisitor
    THEN UNCHANGED <<visitor, history, raced>>
    ELSE \/ q.direction = "IN" /\ check_in_visitor(q.visitor, q.row)
         \/ q.direction = "OUT" /\ check_out_visitor(q.visitor, q.row)
         \/ /\ ~ IF q.direction = "IN" THEN MayCheckIn(q.row) ELSE MayCheckOut(q.row)
            /\ UNCHANGED <<visitor, history, raced>>

record_passage(r) ==
    /\ Serve(r, {"record"})
    /\ LET q == request[r]
       IN  /\ q.open
           /\ Len(record) < MaxRecords
           /\ record' = Append(record, [gate |-> q.gate, visitor |-> q.visitor, direction |-> q.direction])
           /\ _sync_visitor_status(q)
    /\ UNCHANGED <<vehicles, windowOver, gateActive>>

-----------------------------------------------------------------------------
(* gates: activate and deactivate write is_active alone, update every column. *)
LoadGate(r, g, op) ==
    /\ request[r] = NoRequest
    /\ request' = [request EXCEPT ![r] = [op |-> op, gate |-> g, open |-> gateActive[g]]]
    /\ UNCHANGED <<visitor, history, vehicles, windowOver, gateActive, record, raced>>

activate(r) ==
    /\ Serve(r, {"activate"})
    /\ ~request[r].open
    /\ gateActive' = [gateActive EXCEPT ![request[r].gate] = TRUE]
    /\ UNCHANGED <<visitor, history, vehicles, windowOver, record, raced>>

deactivate(r) ==
    /\ Serve(r, {"deactivate"})
    /\ request[r].open
    /\ gateActive' = [gateActive EXCEPT ![request[r].gate] = FALSE]
    /\ UNCHANGED <<visitor, history, vehicles, windowOver, record, raced>>

\* A change of name or code writes is_active back as it was loaded.
update(r) ==
    /\ Serve(r, {"update"})
    /\ gateActive' = [gateActive EXCEPT ![request[r].gate] = request[r].open]
    /\ UNCHANGED <<visitor, history, vehicles, windowOver, record, raced>>

deactivate_all_for_township ==
    /\ \E g \in EntryGates : gateActive[g]
    /\ gateActive' = [g \in EntryGates |-> FALSE]
    /\ UNCHANGED <<visitor, history, vehicles, windowOver, record, request, raced>>

\* The ValidationError of a service: the transaction changes nothing.
RefuseRequest(r) ==
    /\ \/ request[r].op = "approve" /\ request[r].row.status # "REQUESTED"
       \/ request[r].op = "check_in" /\ ~MayCheckIn(request[r].row)
       \/ request[r].op = "check_out" /\ ~MayCheckOut(request[r].row)
       \/ request[r].op \in {"record", "deactivate"} /\ ~request[r].open
       \/ request[r].op = "activate" /\ request[r].open
    /\ Ends(r)
    /\ UNCHANGED <<visitor, history, vehicles, windowOver, gateActive, record, raced>>

VisitNext ==
    \/ \E v \in Visitors : create(v) \/ add_vehicle(v) \/ WindowEnds(v)
    \/ expire
    \/ \E r \in Requests :
          \/ \E v \in Visitors, op \in VisitorOp : LoadVisitor(r, v, op)
          \/ \E g \in EntryGates, v \in Visitors \cup {NoVisitor}, dir \in Direction :
                _resolve_related(r, g, v, dir)
          \/ \E g \in EntryGates, op \in GateOp : LoadGate(r, g, op)
          \/ approve_visitor(r)
          \/ reject_visitor(r)
          \/ cancel_visitor(r)
          \/ checkin(r)
          \/ checkout(r)
          \/ record_passage(r)
          \/ activate(r)
          \/ deactivate(r)
          \/ update(r)
          \/ RefuseRequest(r)
    \/ deactivate_all_for_township

VisitSpec == VisitInit /\ [][VisitNext]_visitVars

-----------------------------------------------------------------------------
\* The shape of the tables and of the requests under way.
VisitTypeOK ==
    /\ visitor \in [Visitors -> VisitorRow \cup {Unregistered}]
    /\ history \in [Visitors -> Seq(HistoryAction)]
    /\ vehicles \in [Visitors -> Nat]
    /\ windowOver \subseteq Visitors
    /\ gateActive \in [EntryGates -> BOOLEAN]
    /\ record \in Seq(RecordRow)
    /\ request \in [Requests ->
          {NoRequest}
          \cup [op : VisitorOp, visitor : Visitors, row : VisitorRow]
          \cup [op : GateOp, gate : EntryGates, open : BOOLEAN]
          \cup [op : {"record"}, gate : EntryGates, open : BOOLEAN, direction : Direction,
                visitor : Visitors \cup {NoVisitor}, row : VisitorRow \cup {Unregistered}]]
    /\ raced \subseteq Visitors

\* The status each action of the history leaves.
Leaves(act) == CASE act = "CREATED" -> "REQUESTED"
                 [] act = "APPROVED" -> "APPROVED"
                 [] act = "REJECTED" -> "REJECTED"
                 [] act = "CANCELLED" -> "CANCELLED"
                 [] act = "CHECK_IN" -> "CHECKED_IN"
                 [] act = "CHECK_OUT" -> "CHECKED_OUT"

\* The rows of v's history with one of the actions; an EDITED row is no move.
Moves(v, acts) == {i \in 1 .. Len(history[v]) : history[v][i] \in acts}
MoveAction == HistoryAction \ {"EDITED"}
IsLastMove(v, i) == i \in Moves(v, MoveAction) /\ \A j \in Moves(v, MoveAction) : j <= i

\* The steps of a visit in their order.
Place(act) == CASE act = "CREATED" -> 1
                [] act = "APPROVED" -> 2
                [] act = "CHECK_IN" -> 3
                [] act = "CHECK_OUT" -> 4
StepAction == {"CREATED", "APPROVED", "CHECK_IN", "CHECK_OUT"}
TurnedBack == {"REJECTED", "CANCELLED"}

\* What the columns of a row with this status hold.
ColumnsFit(row) ==
    /\ row.status = "REQUESTED" => ~row.approvedAt
    /\ row.status \in {"APPROVED", "EXPIRED"} => row.approvedAt /\ ~row.inAt
    /\ row.status = "CHECKED_IN" => row.approvedAt /\ row.inAt /\ ~row.outAt
    /\ row.outAt => row.approvedAt /\ row.inAt

(***************************************************************************)
(* However requests race, a visitor's status is the one its last VisitorLog*)
(* row left (or EXPIRED after an approval), and the time columns are those *)
(* of that status: no interleaving leaves a row that is half one request's *)
(* and half another's.                                                     *)
(***************************************************************************)
StatusHasHistory ==
    \A v \in Visitors : visitor[v] # Unregistered =>
       /\ \E i \in Moves(v, MoveAction) :
             /\ IsLastMove(v, i)
             /\ \/ visitor[v].status = Leaves(history[v][i])
                \/ /\ visitor[v].status = "EXPIRED"
                   /\ history[v][i] = "APPROVED" /\ v \in windowOver
       /\ ColumnsFit(visitor[v])

(***************************************************************************)
(* A visitor none of whose saves raced another was approved, came in and   *)
(* left at most once and in that order, never after having been turned     *)
(* back, and its row remembers the entry.                                  *)
(***************************************************************************)
UnracedVisitInOrder ==
    \A v \in Visitors \ raced :
       LET place(i) == Place(history[v][i])
           steps == Moves(v, StepAction)
       IN  /\ \A i, j \in steps : i < j => place(i) < place(j)
           /\ \A i \in steps : place(i) > 1 => \E j \in steps : place(j) = place(i) - 1
           /\ \A i \in Moves(v, TurnedBack), j \in steps : j < i
           /\ Moves(v, {"CHECK_IN"}) # {} => visitor[v].inAt

=============================================================================
