-------------------------------- MODULE Chat --------------------------------
(***************************************************************************)
(* One conversation and its messages (chat/views.py, chat/consumers.py).   *)
(*                                                                         *)
(* Every change of a message or of the conversation loads the row, alters  *)
(* it in memory and saves the whole row: two steps, with no lock.  A save  *)
(* of a row that was removed meanwhile inserts it again.  seen_by is a     *)
(* table of its own.                                                       *)
(***************************************************************************)
EXTENDS Naturals, FiniteSets

CONSTANTS Messages,      \* rows that may be created
          ChatJobs,      \* requests and socket events under way at once
          MaxLoads       \* bound on the jobs of a behaviour

ASSUME ChatAssumption == MaxLoads \in Nat

VARIABLES message,       \* each row, or Removed
          created,       \* messages that were ever sent
          seenBy,        \* messages some reader is recorded for
          conversation,  \* the conversation's row, or Removed
          members,       \* whether the conversation has its members
          chatJob,       \* what each job under way has loaded
          loads          \* jobs begun

chatVars == <<message, created, seenBy, conversation, members, chatJob, loads>>

Removed == [text |-> "none"]
Placeholder == "placeholder"
MessageRow == [text : {"typed", "edited", Placeholder}, edited : BOOLEAN,
               deleted : BOOLEAN, seen : BOOLEAN]
ConversationRow == [archived : BOOLEAN, muted : BOOLEAN]
TheConversation == "conversation"
FreeJob == [op |-> "none"]

MessageOp == {"edit_message", "seen", "star", "mark_seen", "delete_message"}
ConversationOp == {"archive", "mute", "put"}

ChatInit == /\ message = [m \in Messages |-> Removed]
            /\ created = {}
            /\ seenBy = {}
            /\ conversation = [archived |-> FALSE, muted |-> FALSE]
            /\ members = TRUE
            /\ chatJob = [j \in ChatJobs |-> FreeJob]
            /\ loads = 0

-----------------------------------------------------------------------------
\* The row a new message has; a forwarded one has the text of the old.
NewMessage(text) == [text |-> text, edited |-> FALSE, deleted |-> FALSE, seen |-> FALSE]

AddMessage(m, row, readers) ==
    /\ m \notin created
    /\ conversation # Removed
    /\ created' = created \cup {m}
    /\ message' = [message EXCEPT ![m] = row]
    /\ seenBy' = seenBy \cup readers
    /\ UNCHANGED <<conversation, members, chatJob, loads>>

\* The views post to a conversation of the sender's, the socket to any room there is.  The
\* serializer of send_message takes the flags and the readers from the client as well.
send_message(m) ==
    /\ members
    /\ \E row \in MessageRow, readers \in SUBSET {m} :
          row.text = "typed" /\ AddMessage(m, row, readers)
upload(m) == members /\ AddMessage(m, NewMessage("typed"), {})
save_message(m) == AddMessage(m, NewMessage("typed"), {})
forward_message(m) == \E old \in Messages : /\ message[old] # Removed
                                            /\ AddMessage(m, NewMessage(message[old].text), {})

-----------------------------------------------------------------------------
Begins(j) == chatJob[j] = FreeJob /\ loads < MaxLoads /\ loads' = loads + 1

LoadMessage(j, op, m) ==
    /\ Begins(j)
    /\ message[m] # Removed
    /\ chatJob' = [chatJob EXCEPT ![j] = [op |-> op, about |-> m, row |-> message[m],
                                          behind |-> FALSE, added |-> FALSE]]
    /\ UNCHANGED <<message, created, seenBy, conversation, members>>

LoadConversation(j, op) ==
    /\ Begins(j)
    /\ conversation # Removed
    /\ members
    /\ chatJob' = [chatJob EXCEPT ![j] = [op |-> op, about |-> TheConversation,
                                          row |-> conversation, behind |-> FALSE, added |-> FALSE]]
    /\ UNCHANGED <<message, created, seenBy, conversation, members>>

\* The jobs that have loaded one of these rows are now behind.
Overtaken(things) ==
    [i \in ChatJobs |-> IF chatJob[i] # FreeJob /\ chatJob[i].about \in things
                        THEN [chatJob[i] EXCEPT !.behind = TRUE] ELSE chatJob[i]]

\* mark_seen on the socket: the reader first, the row after.
AddReader(j) ==
    /\ chatJob[j].op = "mark_seen"
    /\ ~chatJob[j].added
    /\ message[chatJob[j].about] # Removed
    /\ seenBy' = seenBy \cup {chatJob[j].about}
    /\ chatJob' = [chatJob EXCEPT ![j].added = TRUE]
    /\ UNCHANGED <<message, created, conversation, members, loads>>

\* Mutant of Altered: an edit makes the message visible again.
EditUndeletes(op, row) ==
    CASE op = "edit_message" -> [row EXCEPT !.text = "edited", !.edited = TRUE, !.deleted = FALSE]
      [] op \in {"seen", "mark_seen"} -> [row EXCEPT !.seen = TRUE]
      [] op = "star" -> row
      [] op = "delete_message" -> [row EXCEPT !.deleted = TRUE, !.text = Placeholder]
\* What each operation does to the row in memory.  is_starred is no column: star saves the
\* row as it was.
Altered(op, row) ==
    CASE op = "edit_message" -> [row EXCEPT !.text = "edited", !.edited = TRUE]
      [] op \in {"seen", "mark_seen"} -> [row EXCEPT !.seen = TRUE]
      [] op = "star" -> row
      [] op = "delete_message" -> [row EXCEPT !.deleted = TRUE, !.text = Placeholder]

SaveMessage(j) ==
    /\ chatJob[j].op \in MessageOp
    /\ chatJob[j].op = "mark_seen" => chatJob[j].added
    /\ conversation # Removed
    /\ LET m == chatJob[j].about
       IN  /\ message' = [message EXCEPT ![m] = Altered(chatJob[j].op, chatJob[j].row)]
           /\ chatJob' = [Overtaken({m}) EXCEPT ![j] = FreeJob]
    /\ UNCHANGED <<created, seenBy, conversation, members, loads>>

SaveConversation(j) ==
    /\ chatJob[j].op \in ConversationOp
    /\ conversation' \in CASE chatJob[j].op = "archive" -> {[chatJob[j].row EXCEPT !.archived = TRUE]}
                           [] chatJob[j].op = "mute" -> {[chatJob[j].row EXCEPT !.muted = TRUE]}
                           [] chatJob[j].op = "put" -> ConversationRow
    /\ chatJob' = [Overtaken({TheConversation}) EXCEPT ![j] = FreeJob]
    /\ UNCHANGED <<message, created, seenBy, members, loads>>

\* A row not found, one whose conversation is gone, or the death of the process.
DropJob(j) ==
    /\ chatJob[j] # FreeJob
    /\ chatJob' = [chatJob EXCEPT ![j] = FreeJob]
    /\ UNCHANGED <<message, created, seenBy, conversation, members, loads>>

-----------------------------------------------------------------------------
\* Mutant of RemoveMessage: the readers' rows stay behind.
KeepReaders(m) ==
    /\ message[m] # Removed
    /\ message' = [message EXCEPT ![m] = Removed]
    /\ chatJob' = Overtaken({m})
    /\ UNCHANGED <<created, seenBy, conversation, members, loads>>
\* DELETE by the sender: the row goes, with its readers.
RemoveMessage(m) ==
    /\ message[m] # Removed
    /\ message' = [message EXCEPT ![m] = Removed]
    /\ seenBy' = seenBy \ {m}
    /\ chatJob' = Overtaken({m})
    /\ UNCHANGED <<created, conversation, members, loads>>

\* DELETE of the conversation takes its messages and its list of members along.
destroy ==
    /\ conversation # Removed
    /\ members
    /\ conversation' = Removed
    /\ members' = FALSE
    /\ message' = [m \in Messages |-> Removed]
    /\ seenBy' = {}
    /\ chatJob' = Overtaken(Messages \cup {TheConversation})
    /\ UNCHANGED <<created, loads>>

ChatNext == \/ \E m \in Messages : \/ send_message(m) \/ upload(m) \/ save_message(m)
                                   \/ forward_message(m) \/ RemoveMessage(m)
            \/ \E j \in ChatJobs : \/ \E m \in Messages, op \in MessageOp : LoadMessage(j, op, m)
                                   \/ \E op \in ConversationOp : LoadConversation(j, op)
                                   \/ AddReader(j) \/ SaveMessage(j) \/ SaveConversation(j)
                                   \/ DropJob(j)
            \/ destroy

ChatSpec == ChatInit /\ [][ChatNext]_chatVars

-----------------------------------------------------------------------------
\* The shape of the rows and of the jobs.
ChatTypeOK ==
    /\ message \in [Messages -> MessageRow \cup {Removed}]
    /\ created \subseteq Messages
    /\ seenBy \subseteq {m \in created : message[m] # Removed}
    /\ conversation \in ConversationRow \cup {Removed}
    /\ members \in BOOLEAN
    /\ loads \in 0 .. MaxLoads
    /\ chatJob \in [ChatJobs -> [op : MessageOp \cup ConversationOp,
                                 about : Messages \cup {TheConversation},
                                 row : MessageRow \cup ConversationRow,
                                 behind : BOOLEAN, added : BOOLEAN] \cup {FreeJob}]

\* What a step takes back: a mark, or the removal, of a message or of the conversation.
Undone(m) ==
    \/ message[m] = Removed /\ m \in created /\ message'[m] # Removed
    \/ /\ message[m] # Removed /\ message'[m] # Removed
       /\ \/ message[m].deleted /\ ~message'[m].deleted
          \/ message[m].seen /\ ~message'[m].seen
          \/ message[m].edited /\ ~message'[m].edited

ConversationUndone ==
    \/ conversation = Removed /\ conversation' # Removed
    \/ /\ conversation # Removed /\ conversation' # Removed
       /\ \/ conversation.archived /\ ~conversation'.archived
          \/ conversation.muted /\ ~conversation'.muted

FinishedLate(thing) ==
    \E j \in ChatJobs : /\ chatJob[j] # FreeJob /\ chatJob'[j] = FreeJob
                        /\ chatJob[j].about = thing /\ chatJob[j].behind

(***************************************************************************)
(* Deleted, seen, edited, archived and muted are marks that stay, and what *)
(* is removed stays away: only the save of a job that another had          *)
(* overtaken takes one back (or a PUT, which sets the conversation's       *)
(* flags as the client asks).                                              *)
(***************************************************************************)
MarksStay ==
    [][/\ \A m \in Messages : Undone(m) => FinishedLate(m)
       /\ ConversationUndone => \/ FinishedLate(TheConversation)
                                \/ \E j \in ChatJobs : chatJob[j].op = "put"]_chatVars

=============================================================================
