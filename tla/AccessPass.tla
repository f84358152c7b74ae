---------------------------- MODULE AccessPass ----------------------------
(***************************************************************************)
(* Access passes (access_control/): a pass is issued for a visitor,        *)
(* approved, shown at a gate, used once to enter and once to leave.  Every *)
(* method of AccessControlService locks the row and works on what it reads *)
(* under the lock, so each is one step.  The PATCH of the REST serializer  *)
(* is not: it checks and later writes back, every column, the instance the *)
(* view loaded.                                                            *)
(*                                                                         *)
(* accessLog is the audit trail.  A refused scan, entry or exit writes a   *)
(* DENIED row and raises inside the same transaction: nothing remains, so  *)
(* a refusal is a step that changes nothing and is no action here.         *)
(***************************************************************************)
EXTENDS Naturals, Sequences, FiniteSets

CONSTANTS Passes,        \* rows of access_passes that may be issued
          Gates,         \* gates of the township
          AnyGate,       \* a NULL gate: the pass opens every gate
          Editors,       \* PATCH requests that may be under way at once
          MaxTime,       \* bound: the clock runs from 1 to MaxTime
          MaxRows,       \* bound on the rows of the audit trail
          MaxApprovals   \* bound on the approvals of one pass

ASSUME PassAssumption == /\ AnyGate \notin Gates
                         /\ MaxTime \in Nat \ {0}
                         /\ MaxRows \in Nat
                         /\ MaxApprovals \in Nat

VARIABLES now,           \* timezone.now()
          pass,          \* the table: a row for each pass, or Unissued
          accessLog,     \* the rows of access_control_logs, oldest first
          edit,          \* the instance each PATCH under way has loaded
          deletedGates,  \* gates that are no more
          approvals,     \* history: how often each pass has been approved
          issuedFor      \* history: the gate each pass was last given

passVars == <<now, pass, accessLog, edit, deletedGates, approvals, issuedFor>>

Never == 0                                   \* a NULL timestamp
Instants == Never .. MaxTime

PassStatus == {"PENDING", "APPROVED", "REJECTED", "CANCELLED",
               "CHECKED_IN", "CHECKED_OUT", "EXPIRED"}
PassRow == {row \in [status : PassStatus, gate : Gates \cup {AnyGate}, from : Instants,
                    until : Instants, inAt : Instants, outAt : Instants] : row.from < row.until}
Unissued == [status |-> "NONE"]
NoEdit == [pass |-> "none"]

LogAction == {"CHECK_IN", "CHECK_OUT", "QR_SCAN", "MANAGER"}
LogRow == [pass : Passes, gate : Gates, action : LogAction, at : Instants]

PassInit == /\ now = 1
            /\ pass = [p \in Passes |-> Unissued]
            /\ accessLog = << >>
            /\ edit = [e \in Editors |-> NoEdit]
            /\ deletedGates = {}
            /\ approvals = [p \in Passes |-> 0]
            /\ issuedFor = [p \in Passes |-> AnyGate]

-----------------------------------------------------------------------------
is_expired(p) == now > pass[p].until

is_valid(p) == /\ pass[p].status = "APPROVED"
               /\ pass[p].from <= now
               /\ now <= pass[p].until

OpenGates == Gates \ deletedGates

\* Mutant of FitsGate: the gate of the pass is not looked at.
EveryGate(p, g) == p \in Passes /\ g \in Gates
FitsGate(p, g) == pass[p].gate \in {AnyGate, g}

create_access_log(p, g, act) ==
    /\ Len(accessLog) < MaxRows
    /\ accessLog' = Append(accessLog, [pass |-> p, gate |-> g, action |-> act, at |-> now])

\* Mutant of ValidWindow: a window may be empty.
EmptyWindow(from, until) == from <= until
ValidWindow(from, until) == from < until

create_access_pass(p) ==
    /\ pass[p] = Unissued
    /\ \E g \in OpenGates \cup {AnyGate}, from, until \in 1 .. MaxTime :
          /\ ValidWindow(from, until)
          /\ pass' = [pass EXCEPT ![p] =
                        [status |-> "PENDING", gate |-> g, from |-> from, until |-> until,
                         inAt |-> Never, outAt |-> Never]]
          /\ issuedFor' = [issuedFor EXCEPT ![p] = g]
    /\ UNCHANGED <<now, accessLog, edit, deletedGates, approvals>>

approve(p) ==
    /\ pass[p].status = "PENDING"
    /\ ~is_expired(p)
    /\ approvals[p] < MaxApprovals
    /\ pass' = [pass EXCEPT ![p].status = "APPROVED"]
    /\ approvals' = [approvals EXCEPT ![p] = @ + 1]
    /\ UNCHANGED <<now, accessLog, edit, deletedGates, issuedFor>>

reject(p) ==
    /\ pass[p].status = "PENDING"
    /\ pass' = [pass EXCEPT ![p].status = "REJECTED"]
    /\ UNCHANGED <<now, accessLog, edit, deletedGates, approvals, issuedFor>>

\* A pass whose holder is inside can be cancelled too.
cancel(p) ==
    /\ pass[p].status \in {"PENDING", "APPROVED", "CHECKED_IN"}
    /\ pass' = [pass EXCEPT ![p].status = "CANCELLED"]
    /\ UNCHANGED <<now, accessLog, edit, deletedGates, approvals, issuedFor>>

validate_qr(p, g) ==
    /\ pass[p] # Unissued
    /\ is_valid(p)
    /\ FitsGate(p, g)
    /\ create_access_log(p, g, "QR_SCAN")
    /\ UNCHANGED <<now, pass, edit, deletedGates, approvals, issuedFor>>

check_in(p, g) ==
    /\ pass[p] # Unissued
    /\ is_valid(p)
    /\ FitsGate(p, g)
    /\ pass' = [pass EXCEPT ![p].status = "CHECKED_IN", ![p].gate = g, ![p].inAt = now]
    /\ create_access_log(p, g, "CHECK_IN")
    /\ UNCHANGED <<now, edit, deletedGates, approvals, issuedFor>>

check_out(p, g) ==
    /\ pass[p].status = "CHECKED_IN"
    /\ pass' = [pass EXCEPT ![p].status = "CHECKED_OUT", ![p].outAt = now]
    /\ create_access_log(p, g, "CHECK_OUT")
    /\ UNCHANGED <<now, edit, deletedGates, approvals, issuedFor>>

\* Any issued pass, whatever its status or window, goes where the manager says.
manager_override(p, g) ==
    /\ pass[p] # Unissued
    /\ \/ pass' = [pass EXCEPT ![p].status = "CHECKED_IN", ![p].gate = g, ![p].inAt = now]
       \/ pass' = [pass EXCEPT ![p].status = "CHECKED_OUT", ![p].gate = g, ![p].outAt = now]
    /\ create_access_log(p, g, "MANAGER")
    /\ UNCHANGED <<now, edit, deletedGates, approvals, issuedFor>>

Expirable(p) == pass[p].status \in {"PENDING", "APPROVED"}

\* The periodic task: one UPDATE of every pass whose window is over.
expire_passes ==
    LET due == {p \in Passes : Expirable(p) /\ is_expired(p)}
    IN  /\ due # {}
        /\ pass' = [p \in Passes |->
                      IF p \in due THEN [pass[p] EXCEPT !.status = "EXPIRED"] ELSE pass[p]]
        /\ UNCHANGED <<now, accessLog, edit, deletedGates, approvals, issuedFor>>

bulk_expire_by_ids(p) ==
    /\ Expirable(p)
    /\ pass' = [pass EXCEPT ![p].status = "EXPIRED"]
    /\ UNCHANGED <<now, accessLog, edit, deletedGates, approvals, issuedFor>>

\* Mutant of LoadForUpdate: the serializer edits a pass in any status.
LoadAnyStatus(e, p) ==
    /\ edit[e] = NoEdit
    /\ pass[p] # Unissued
    /\ edit' = [edit EXCEPT ![e] = [pass |-> p, row |-> pass[p]]]
    /\ UNCHANGED <<now, pass, accessLog, deletedGates, approvals, issuedFor>>
\* PATCH: the view loads the instance and the serializer accepts it as PENDING ...
LoadForUpdate(e, p) ==
    /\ edit[e] = NoEdit
    /\ pass[p].status = "PENDING"
    /\ edit' = [edit EXCEPT ![e] = [pass |-> p, row |-> pass[p]]]
    /\ UNCHANGED <<now, pass, accessLog, deletedGates, approvals, issuedFor>>

\* ... and instance.save() writes all its columns, the status as loaded among them.
SaveUpdate(e) ==
    /\ edit[e] # NoEdit
    /\ \E g \in OpenGates \cup {AnyGate}, from, until \in 1 .. MaxTime :
          /\ ValidWindow(from, until)
          /\ pass' = [pass EXCEPT ![edit[e].pass] =
                        [edit[e].row EXCEPT !.gate = g, !.from = from, !.until = until]]
          /\ issuedFor' = [issuedFor EXCEPT ![edit[e].pass] = g]
    /\ edit' = [edit EXCEPT ![e] = NoEdit]
    /\ UNCHANGED <<now, accessLog, deletedGates, approvals>>

\* DELETE of a gate no record names (PROTECT): a pass for it becomes a pass for every gate
\* (SET_NULL).
DeleteGate(g) ==
    /\ \A i \in 1 .. Len(accessLog) : accessLog[i].gate # g
    /\ deletedGates' = deletedGates \cup {g}
    /\ pass' = [p \in Passes |-> IF pass[p] # Unissued /\ pass[p].gate = g
                                THEN [pass[p] EXCEPT !.gate = AnyGate] ELSE pass[p]]
    /\ UNCHANGED <<now, accessLog, edit, approvals, issuedFor>>

\* Time passes.
PassTick == /\ now < MaxTime
            /\ now' = now + 1
            /\ UNCHANGED <<pass, accessLog, edit, deletedGates, approvals, issuedFor>>

PassNext ==
    \/ \E p \in Passes : \/ create_access_pass(p)
                         \/ approve(p)
                         \/ reject(p)
                         \/ cancel(p)
                         \/ bulk_expire_by_ids(p)
    \/ \E p \in Passes, g \in OpenGates : \/ validate_qr(p, g)
                                          \/ check_in(p, g)
                                          \/ check_out(p, g)
                                          \/ manager_override(p, g)
    \/ \E g \in OpenGates : DeleteGate(g)
    \/ \E e \in Editors, p \in Passes : LoadForUpdate(e, p)
    \/ \E e \in Editors : SaveUpdate(e)
    \/ expire_passes
    \/ PassTick

PassSpec == PassInit /\ [][PassNext]_passVars

-----------------------------------------------------------------------------
\* The shape of the table, the trail and the requests under way.
PassTypeOK ==
    /\ now \in Instants
    /\ pass \in [Passes -> PassRow \cup {Unissued}]
    /\ accessLog \in Seq(LogRow)
    /\ edit \in [Editors -> [pass : Passes, row : PassRow] \cup {NoEdit}]
    /\ deletedGates \subseteq Gates
    /\ approvals \in [Passes -> Nat]
    /\ issuedFor \in [Passes -> Gates \cup {AnyGate}]

RowsOf(p, acts) == {i \in 1 .. Len(accessLog) : accessLog[i].pass = p /\ accessLog[i].action \in acts}
Overridden(p) == RowsOf(p, {"MANAGER"}) # {}
IsLast(i, S) == i \in S /\ \A j \in S : j <= i

(***************************************************************************)
(* A pass lets its holder in once per approval (check_in demands APPROVED  *)
(* and consumes it): an edit written over an entry cannot make the pass    *)
(* usable again without a new approval.                                    *)
(***************************************************************************)
EntryNeedsApproval ==
    \A p \in Passes :
       Cardinality(RowsOf(p, {"CHECK_IN"})) + (IF pass[p].status = "APPROVED" THEN 1 ELSE 0)
          <= approvals[p]

(***************************************************************************)
(* What the trail says of a pass no manager has overridden is what its row *)
(* says: after an entry the row holds its time and gate and the pass is    *)
(* inside or cancelled; after an exit it holds both times; and the entry   *)
(* lies in the window.  The exception is a row whose entry was wiped by a  *)
(* PATCH that had loaded it before: then it shows no entry at all.  And a  *)
(* pass for one gate opens no other one, unless its gate was deleted.      *)
(***************************************************************************)
LogExplainsPass ==
    \A p \in Passes : pass[p] # Unissued /\ ~Overridden(p) =>
       LET row == pass[p]
           moves == RowsOf(p, {"CHECK_IN", "CHECK_OUT"})
       IN  /\ issuedFor[p] \in {AnyGate, row.gate} \cup deletedGates
           /\ row.gate \notin deletedGates
           /\ row.inAt = Never => row.outAt = Never
           /\ row.inAt # Never =>
                /\ row.from <= row.inAt /\ row.inAt <= row.until
                /\ \E i \in moves : accessLog[i].action = "CHECK_IN" /\ accessLog[i].at = row.inAt
           /\ \A i \in moves : IsLast(i, moves) /\ row.inAt # Never =>
                IF accessLog[i].action = "CHECK_IN"
                THEN /\ row.inAt = accessLog[i].at /\ row.gate = accessLog[i].gate
                     /\ row.outAt = Never /\ row.status \in {"CHECKED_IN", "CANCELLED"}
                ELSE /\ row.outAt = accessLog[i].at /\ row.inAt <= row.outAt
                     /\ row.status = "CHECKED_OUT"

=============================================================================
