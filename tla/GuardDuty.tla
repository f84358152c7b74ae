----------------------------- MODULE GuardDuty -----------------------------
(***************************************************************************)
(* Guards (guards/): clocking in and out, activation, postings to gates.   *)
(*                                                                         *)
(* A call loads the guard (get_object), then its service checks the loaded *)
(* is_active, reads the guard's open shift or postings, and writes.  No    *)
(* row is locked for reading; deactivate writes the guard row before it    *)
(* reads the shift, so that row stays locked until it commits.  The unique *)
(* constraint on the open shift is the database's.                         *)
(***************************************************************************)
EXTENDS Naturals, Sequences, FiniteSets

CONSTANTS Guards,        \* guards
          Posts,         \* gates a guard can be assigned to
          Calls,         \* calls that may be under way at once
          MaxShifts,     \* bound on the shifts of a guard
          MaxEvents      \* bound on a guard's log: rows of each action about shifts and
                         \* activity (of each other action: one)

ASSUME DutyAssumption == MaxShifts \in Nat /\ MaxEvents \in Nat

VARIABLES guardActive,   \* Guard.is_active
          posted,        \* Guard.gates
          shift,         \* each guard's GuardShift rows, "open" or "closed", oldest first
          guardLog,      \* how many GuardLog rows each guard has of each action
          call,          \* what each call under way has read
          staleDuty      \* history: guards written by a call that had read something older

dutyVars == <<guardActive, posted, shift, guardLog, call, staleDuty>>

GuardAction == {"LOGIN", "LOGOUT", "ACTIVATED", "DEACTIVATED", "GATE_ASSIGNED", "GATE_REMOVED", "MANUAL"}
ShiftOp == {"start_shift", "end_shift", "deactivate"}
PostOp == {"assign_gate", "remove_gate"}
RowOp == {"activate", "patch"}
NoCall == [op |-> "none"]

DutyInit == /\ guardActive = [g \in Guards |-> TRUE]
            /\ posted = [g \in Guards |-> {}]
            /\ shift = [g \in Guards |-> << >>]
            /\ guardLog = [g \in Guards |-> [a \in GuardAction |-> 0]]
            /\ call = [c \in Calls |-> NoCall]
            /\ staleDuty = {}

-----------------------------------------------------------------------------
OpenShifts(g) == {i \in 1 .. Len(shift[g]) : shift[g][i] = "open"}
\* current_shift: the latest open row, or none.
current_shift(g) ==
    IF OpenShifts(g) = {} THEN 0
    ELSE CHOOSE i \in OpenShifts(g) : \A j \in OpenShifts(g) : j <= i

\* deactivate has updated the guard row and not committed.
RowLocked(g) == \E c \in Calls : /\ call[c].op = "deactivate"
                                 /\ call[c].guard = g
                                 /\ call[c].pc = "read"

\* GuardLog rows, one of each action in acts.
DutyAction == {"LOGIN", "LOGOUT", "ACTIVATED", "DEACTIVATED"}
Logs(g, acts) ==
    /\ \A a \in acts : guardLog[g][a] < IF a \in DutyAction THEN MaxEvents ELSE 1
    /\ guardLog' = [guardLog EXCEPT ![g] = [a \in GuardAction |-> @[a] + IF a \in acts THEN 1 ELSE 0]]
Returns(c) == call' = [call EXCEPT ![c] = NoCall]
NotesStale(c) ==
    staleDuty' = IF \/ call[c].active # guardActive[call[c].guard]
                    \/ call[c].shift # current_shift(call[c].guard)
                 THEN staleDuty \cup {call[c].guard} ELSE staleDuty

\* get_object, or the queryset of a periodic task.
LoadGuard(c, g, op) ==
    /\ call[c] = NoCall
    /\ call' = [call EXCEPT ![c] = [op |-> op, guard |-> g, pc |-> "loaded",
                                    active |-> guardActive[g], shift |-> current_shift(g)]]
    /\ UNCHANGED <<guardActive, posted, shift, guardLog, staleDuty>>

\* The service's checks, and its query for the open shift.
ReadShift(c) ==
    LET g == call[c].guard
    IN  /\ call[c].op \in ShiftOp
        /\ call[c].pc = "loaded"
        /\ call[c].op \in {"start_shift", "deactivate"} => call[c].active
        /\ call[c].op = "start_shift" => current_shift(g) = 0
        /\ call[c].op = "end_shift" => current_shift(g) # 0
        /\ call[c].op = "deactivate" => ~RowLocked(g)
        /\ call' = [call EXCEPT ![c].pc = "read", ![c].shift = current_shift(g)]
        /\ UNCHANGED <<guardActive, posted, shift, guardLog, staleDuty>>

Ready(c, op) == call[c].op = op /\ call[c].pc = "read"

\* Mutant of start_shift: no unique constraint on the open shift.
StartSecondShift(c) ==
    LET g == call[c].guard
    IN  /\ Ready(c, "start_shift")
        /\ Len(shift[g]) < MaxShifts
        /\ shift' = [shift EXCEPT ![g] = Append(@, "open")]
        /\ Logs(g, {"LOGIN"})
        /\ NotesStale(c)
        /\ Returns(c)
        /\ UNCHANGED <<guardActive, posted>>
start_shift(c) ==
    LET g == call[c].guard
    IN  /\ Ready(c, "start_shift")
        /\ OpenShifts(g) = {}                    \* unique_open_shift_per_guard
        /\ Len(shift[g]) < MaxShifts
        /\ shift' = [shift EXCEPT ![g] = Append(@, "open")]
        /\ Logs(g, {"LOGIN"})
        /\ NotesStale(c)
        /\ Returns(c)
        /\ UNCHANGED <<guardActive, posted>>

\* The shift read is closed, whether or not another call has closed it since.
end_shift(c) ==
    LET g == call[c].guard
    IN  /\ Ready(c, "end_shift")
        /\ shift' = [shift EXCEPT ![g][call[c].shift] = "closed"]
        /\ Logs(g, {"LOGOUT"})
        /\ NotesStale(c)
        /\ Returns(c)
        /\ UNCHANGED <<guardActive, posted>>

deactivate_guard(c) ==
    LET g == call[c].guard
        open == call[c].shift
    IN  /\ Ready(c, "deactivate")
        /\ guardActive' = [guardActive EXCEPT ![g] = FALSE]
        /\ IF open = 0
           THEN Logs(g, {"DEACTIVATED"}) /\ UNCHANGED shift
           ELSE /\ Logs(g, {"DEACTIVATED", "LOGOUT"})
                /\ shift' = [shift EXCEPT ![g][open] = "closed"]
        /\ NotesStale(c)
        /\ Returns(c)
        /\ UNCHANGED posted

activate_guard(c) ==
    LET g == call[c].guard
    IN  /\ call[c].op = "activate"
        /\ ~call[c].active
        /\ ~RowLocked(g)
        /\ guardActive' = [guardActive EXCEPT ![g] = TRUE]
        /\ Logs(g, {"ACTIVATED"})
        /\ NotesStale(c)
        /\ Returns(c)
        /\ UNCHANGED <<posted, shift>>

\* PATCH of a guard: the serializer's instance.save() writes is_active back as loaded and
\* instance.gates.set() replaces the postings; neither is logged.
patch_guard(c) ==
    LET g == call[c].guard
    IN  /\ call[c].op = "patch"
        /\ ~RowLocked(g)
        /\ guardActive' = [guardActive EXCEPT ![g] = call[c].active]
        /\ \E gates \in SUBSET Posts : posted' = [posted EXCEPT ![g] = gates]
        /\ NotesStale(c)
        /\ Returns(c)
        /\ UNCHANGED <<shift, guardLog>>

\* assign_gate and remove_gate look at the postings, then write them: a second assignment
\* that looked before the first wrote adds nothing, and is logged.
CheckPosting(c, g, p, op) ==
    /\ call[c] = NoCall
    /\ (p \in posted[g]) <=> (op = "remove_gate")
    /\ call' = [call EXCEPT ![c] = [op |-> op, guard |-> g, post |-> p]]
    /\ UNCHANGED <<guardActive, posted, shift, guardLog, staleDuty>>

assign_gate(c) ==
    /\ call[c].op = "assign_gate"
    /\ posted' = [posted EXCEPT ![call[c].guard] = @ \cup {call[c].post}]
    /\ Logs(call[c].guard, {"GATE_ASSIGNED"})
    /\ Returns(c)
    /\ UNCHANGED <<guardActive, shift, staleDuty>>

remove_gate(c) ==
    /\ call[c].op = "remove_gate"
    /\ posted' = [posted EXCEPT ![call[c].guard] = @ \ {call[c].post}]
    /\ Logs(call[c].guard, {"GATE_REMOVED"})
    /\ Returns(c)
    /\ UNCHANGED <<guardActive, shift, staleDuty>>

log_manual_event(g) ==
    /\ Logs(g, {"MANUAL"})
    /\ UNCHANGED <<guardActive, posted, shift, call, staleDuty>>

\* A failed check, or the IntegrityError of the constraint: nothing is written.
FailCall(c) ==
    LET g == call[c].guard
    IN  /\ call[c] # NoCall
        /\ \/ /\ call[c].op \in ShiftOp
              /\ call[c].pc = "loaded"
              /\ \/ call[c].op \in {"start_shift", "deactivate"} /\ ~call[c].active
                 \/ call[c].op = "start_shift" /\ current_shift(g) # 0
                 \/ call[c].op = "end_shift" /\ current_shift(g) = 0
           \/ Ready(c, "start_shift") /\ OpenShifts(g) # {}
           \/ call[c].op = "activate" /\ call[c].active
        /\ Returns(c)
        /\ UNCHANGED <<guardActive, posted, shift, guardLog, staleDuty>>

DutyNext ==
    \/ \E c \in Calls :
          \/ \E g \in Guards, op \in ShiftOp \cup RowOp : LoadGuard(c, g, op)
          \/ \E g \in Guards, p \in Posts, op \in PostOp : CheckPosting(c, g, p, op)
          \/ ReadShift(c)
          \/ start_shift(c)
          \/ end_shift(c)
          \/ deactivate_guard(c)
          \/ activate_guard(c)
          \/ patch_guard(c)
          \/ assign_gate(c)
          \/ remove_gate(c)
          \/ FailCall(c)
    \/ \E g \in Guards : log_manual_event(g)

DutySpec == DutyInit /\ [][DutyNext]_dutyVars

-----------------------------------------------------------------------------
\* The shape of the tables and of the calls under way.
DutyTypeOK ==
    /\ guardActive \in [Guards -> BOOLEAN]
    /\ posted \in [Guards -> SUBSET Posts]
    /\ shift \in [Guards -> Seq({"open", "closed"})]
    /\ guardLog \in [Guards -> [GuardAction -> Nat]]
    /\ call \in [Calls ->
          {NoCall}
          \cup [op : ShiftOp \cup RowOp, guard : Guards, pc : {"loaded", "read"},
                active : BOOLEAN, shift : Nat]
          \cup [op : PostOp, guard : Guards, post : Posts]]
    /\ staleDuty \subseteq Guards

ClosedShifts(g) == {i \in 1 .. Len(shift[g]) : shift[g][i] = "closed"}

(***************************************************************************)
(* However calls race, a guard has at most one open shift, every shift has *)
(* its LOGIN row and every closed one a LOGOUT row.  As long as no call has*)
(* written from something older than it read, the LOGOUT rows are exactly  *)
(* the closed shifts and a deactivated guard is off duty.                  *)
(***************************************************************************)
ShiftsAgreeWithLog ==
    \A g \in Guards :
       /\ Cardinality(OpenShifts(g)) <= 1
       /\ guardLog[g]["LOGIN"] = Len(shift[g])
       /\ guardLog[g]["LOGOUT"] >= Cardinality(ClosedShifts(g))
       /\ g \notin staleDuty =>
             /\ guardLog[g]["LOGOUT"] = Cardinality(ClosedShifts(g))
             /\ ~guardActive[g] => OpenShifts(g) = {}

=============================================================================
