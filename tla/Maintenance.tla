----------------------------- MODULE Maintenance -----------------------------
(***************************************************************************)
(* One maintenance request, its history and the notice of its creation     *)
(* (maintenance/views.py, services.py, signals.py).                        *)
(*                                                                         *)
(* No operation is a transaction: every row is committed as it is written, *)
(* in the order of the code.  change_status writes the status column, a    *)
(* history row, the whole row with the milestones and a second history     *)
(* row; assign and PUT save the whole row as they had loaded it.  A DELETE *)
(* takes the history along; the save of a whole row that was deleted       *)
(* inserts it again.                                                       *)
(***************************************************************************)
EXTENDS Naturals, FiniteSets

CONSTANTS Clerks,        \* requests under way at once
          Asked,         \* statuses clients ask for
          Edits,         \* the milestones clients send in a POST or a PUT
          MaxChanges     \* bound on the requests of a behaviour

VARIABLES ticket,        \* the request's row, NoTicket or, once deleted, Gone
          trail,         \* statuses with a history row
          notified,      \* whether the creator's notification exists
          clerk,         \* what each request under way has loaded, and how far it is
          changes,       \* requests begun
          unrecorded,    \* history: statuses written by a PUT, or by a job that then died
          edited,        \* history: milestones set by a POST or a PUT
          cascaded       \* history: statuses whose history row was deleted

ticketVars == <<ticket, trail, notified, clerk, changes, unrecorded, edited, cascaded>>

Status == {"OPEN", "REVIEW", "ASSIGNED", "IN_PROGRESS", "WAITING_PARTS", "DONE",
           "CLOSED", "REJECTED", "CANCELLED"}
Milestones == {"IN_PROGRESS", "DONE", "CLOSED"}      \* started_at, completed_at, closed_at
Unlisted == "unlisted"                               \* a text that is none of the choices
TicketRow == [status : Status \cup {Unlisted}, reached : SUBSET Milestones]
ASSUME TicketAssumption == /\ Asked \subseteq Status \cup {Unlisted}
                           /\ Edits \subseteq SUBSET Milestones
                           /\ MaxChanges \in Nat

NoTicket == [status |-> "none"]
Gone == [status |-> "deleted"]
NoClerk == [pc |-> "away"]

TicketInit == /\ ticket = NoTicket
              /\ trail = {}
              /\ notified = FALSE
              /\ clerk = [k \in Clerks |-> NoClerk]
              /\ changes = 0
              /\ unrecorded = {}
              /\ edited = {}
              /\ cascaded = {}

-----------------------------------------------------------------------------
\* perform_create: the row, the notification of the post_save signal, the history row.
\* The serializer takes the status, of the choices, and the milestones from the client.
InsertTicket(k) ==
    /\ ticket = NoTicket
    /\ \E status \in (Asked \cap Status) \cup {"OPEN"}, reached \in Edits \cup {{}} :
          /\ ticket' = [status |-> status, reached |-> reached]
          /\ clerk' = [clerk EXCEPT ![k] = [pc |-> "inserted", row |-> ticket', new |-> status]]
          /\ edited' = edited \cup reached
    /\ UNCHANGED <<trail, notified, changes, unrecorded, cascaded>>

\* post_save of a row that was created, or inserted again; a PUT then ends.
maintenance_created(k) ==
    /\ clerk[k].pc \in {"inserted", "put_inserted"}
    /\ notified' = TRUE
    /\ clerk' = [clerk EXCEPT ![k] = IF @.pc = "inserted" THEN [@ EXCEPT !.pc = "saved"]
                                     ELSE NoClerk]
    /\ UNCHANGED <<ticket, trail, changes, unrecorded, edited, cascaded>>

LoadTicket(k, op, new) ==
    /\ clerk[k] = NoClerk
    /\ ticket \notin {NoTicket, Gone}
    /\ changes < MaxChanges
    /\ changes' = changes + 1
    /\ clerk' = [clerk EXCEPT ![k] = [pc |-> op, row |-> ticket, new |-> new]]
    /\ UNCHANGED <<ticket, trail, notified, unrecorded, edited, cascaded>>

\* Mutant of HistoryCreated: no row is created for a change from a status to itself.
RealChangesOnly(k) == IF clerk[k].row.status = clerk[k].new THEN trail ELSE trail \cup {clerk[k].new}
\* The history row: MaintenanceHistory.objects.create with the new status.
HistoryCreated(k) == trail \cup {clerk[k].new}

\* The whole row is saved, and inserted if it is gone.
SaveRow(k, row) ==
    /\ ticket' = row
    /\ clerk' = [clerk EXCEPT ![k].pc = IF ticket = Gone THEN "inserted" ELSE "saved"]
    /\ UNCHANGED <<trail, notified, changes, unrecorded, edited, cascaded>>

\* assign saves the whole row as loaded, with its own status.
assign(k) ==
    /\ clerk[k].pc = "assign"
    /\ SaveRow(k, [clerk[k].row EXCEPT !.status = "ASSIGNED"])

\* MaintenanceService.change_status: the status column alone, then the history row; neither
\* can be written once the ticket is gone.
ServiceStatus(k) ==
    /\ clerk[k].pc = "change_status"
    /\ ticket # Gone
    /\ ticket' = [ticket EXCEPT !.status = clerk[k].new]
    /\ clerk' = [clerk EXCEPT ![k].pc = "written"]
    /\ UNCHANGED <<trail, notified, changes, unrecorded, edited, cascaded>>

ServiceHistory(k) ==
    /\ clerk[k].pc = "written"
    /\ ticket # Gone
    /\ trail' = HistoryCreated(k)
    /\ clerk' = [clerk EXCEPT ![k].pc = "recorded"]
    /\ UNCHANGED <<ticket, notified, changes, unrecorded, edited, cascaded>>

\* The milestone of the new status, and the whole row as loaded.
change_status(k) ==
    /\ clerk[k].pc = "recorded"
    /\ SaveRow(k, [status |-> clerk[k].new,
                   reached |-> clerk[k].row.reached \cup ({clerk[k].new} \cap Milestones)])

\* The view's own history row ends every operation but PUT.
ViewHistory(k) ==
    /\ clerk[k].pc = "saved"
    /\ ticket # Gone
    /\ trail' = HistoryCreated(k)
    /\ clerk' = [clerk EXCEPT ![k] = NoClerk]
    /\ UNCHANGED <<ticket, notified, changes, unrecorded, edited, cascaded>>

\* PUT or PATCH: the client may set the status and the milestones, and what it leaves out is
\* saved as it was loaded; there is no history row.
put(k) ==
    /\ clerk[k].pc = "put"
    /\ \E status \in {clerk[k].row.status, clerk[k].new}, reached \in Edits \cup {clerk[k].row.reached} :
          /\ ticket' = [status |-> status, reached |-> reached]
          /\ unrecorded' = unrecorded \cup ({status} \ {clerk[k].row.status})
          /\ edited' = edited \cup (reached \ clerk[k].row.reached)
    /\ clerk' = [clerk EXCEPT ![k] = IF ticket = Gone THEN [@ EXCEPT !.pc = "put_inserted"]
                                     ELSE NoClerk]
    /\ UNCHANGED <<trail, notified, changes, cascaded>>

\* DELETE: the row goes, and its history with it.
DeleteTicket ==
    /\ ticket \notin {NoTicket, Gone}
    /\ ticket' = Gone
    /\ trail' = {}
    /\ cascaded' = cascaded \cup trail
    /\ UNCHANGED <<notified, clerk, changes, unrecorded, edited>>

\* The statuses these have written are not in the history yet.
Recording == {"inserted", "written", "saved"}

\* The process dies, the column refuses the client's new status, or the row is gone.
ClerkDies(k) ==
    /\ clerk[k] # NoClerk
    /\ unrecorded' = IF clerk[k].pc \in Recording THEN unrecorded \cup {clerk[k].new} ELSE unrecorded
    /\ clerk' = [clerk EXCEPT ![k] = NoClerk]
    /\ UNCHANGED <<ticket, trail, notified, changes, edited, cascaded>>

TicketNext ==
    \/ \E k \in Clerks :
          \/ InsertTicket(k) \/ maintenance_created(k)
          \/ LoadTicket(k, "assign", "ASSIGNED")
          \/ \E new \in Asked : LoadTicket(k, "change_status", new)
          \/ \E new \in Asked \cap Status : LoadTicket(k, "put", new)
          \/ assign(k) \/ ServiceStatus(k) \/ ServiceHistory(k) \/ change_status(k)
          \/ ViewHistory(k) \/ put(k) \/ ClerkDies(k)
    \/ DeleteTicket

TicketSpec == TicketInit /\ [][TicketNext]_ticketVars

-----------------------------------------------------------------------------
\* The shape of the ticket, its history and the requests.
TicketTypeOK ==
    /\ ticket \in TicketRow \cup {NoTicket, Gone}
    /\ trail \subseteq Status \cup {Unlisted}
    /\ notified \in BOOLEAN
    /\ clerk \in [Clerks -> [pc : {"inserted", "put_inserted", "assign", "change_status", "written",
                                  "recorded", "saved", "put"},
                             row : TicketRow, new : Status \cup {Unlisted}] \cup {NoClerk}]
    /\ changes \in 0 .. MaxChanges
    /\ unrecorded \subseteq Status \cup {Unlisted}
    /\ edited \subseteq Milestones
    /\ cascaded \subseteq Status \cup {Unlisted}

(***************************************************************************)
(* However requests race, die or come back after a DELETE: started_at,     *)
(* completed_at and closed_at are set only after a history row of that     *)
(* status, unless a POST or a PUT set them; the status of the ticket is in *)
(* its history, or was written by a request that is about to record it, by *)
(* one that died, or by a PUT.  Only a DELETE takes history rows away.     *)
(***************************************************************************)
TicketTrail ==
    ticket \notin {NoTicket, Gone} =>
       /\ ticket.reached \subseteq trail \cup edited \cup cascaded
       /\ \/ ticket.status \in trail \cup unrecorded \cup cascaded
          \/ \E k \in Clerks : clerk[k].pc \in Recording /\ clerk[k].new = ticket.status

=============================================================================
