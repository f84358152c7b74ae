-------------------------- MODULE CommunityProofs ---------------------------
(***************************************************************************)
(* Proofs about presence, one-time codes, maintenance, residences,         *)
(* onboarding and chat, and about the community they make up, for any      *)
(* number of sockets, codes, requests, clerks, rows and jobs.              *)
(***************************************************************************)
EXTENDS Community, SequenceTheorems, FiniteSetTheorems, TLAPS

-----------------------------------------------------------------------------
(* Presence.  What the code keeps is inductive once the sockets have their *)
(* type.                                                                   *)

SocketType == socket \in [Sockets -> {"closed", "joined", "open", "left", "dead"}]
PresenceInv == SocketType /\ PresenceHasSocket

LEMMA PresenceInvInit == PresenceInit => PresenceInv
  BY DEF PresenceInit, PresenceInv, SocketType, PresenceHasSocket

LEMMA PresenceInvStep == PresenceInv /\ [PresenceNext]_presenceVars => PresenceInv'
<1> SUFFICES ASSUME PresenceInv, [PresenceNext]_presenceVars PROVE PresenceInv'
  OBVIOUS
<1> USE DEF PresenceInv, SocketType, PresenceHasSocket
<1>1. CASE UNCHANGED presenceVars
  BY <1>1 DEF presenceVars
<1>2. ASSUME NEW s \in Sockets, connect(s) PROVE PresenceInv'
  BY <1>2 DEF connect
<1>3. ASSUME NEW s \in Sockets, user_connected(s) PROVE PresenceInv'
  BY <1>3 DEF user_connected
<1>4. ASSUME NEW s \in Sockets, disconnect(s) PROVE PresenceInv'
  BY <1>4 DEF disconnect
<1>5. ASSUME NEW s \in Sockets, user_disconnected(s) PROVE PresenceInv'
  BY <1>5 DEF user_disconnected
<1>6. ASSUME NEW s \in Sockets, ConsumerDies(s) PROVE PresenceInv'
  BY <1>6 DEF ConsumerDies
<1>7. ASSUME NEW s \in Sockets, ChannelExpires(s) PROVE PresenceInv'
  BY <1>7 DEF ChannelExpires
<1>8. CASE ServerDies
  BY <1>8 DEF ServerDies
<1>9. QED
  BY <1>1, <1>2, <1>3, <1>4, <1>5, <1>6, <1>7, <1>8 DEF PresenceNext

(***************************************************************************)
(* A user shown online has a socket that has yet to clear the flag, unless *)
(* a consumer or the server has died since the flag was written; one shown *)
(* offline with an open socket has closed another; and the room holds the  *)
(* sockets being served and the dead ones, however many sockets there are. *)
(***************************************************************************)
THEOREM PresenceFollowsSockets == PresenceSpec => []PresenceHasSocket
<1>1. PresenceInv => PresenceHasSocket
  BY DEF PresenceInv
<1>2. QED
  BY PresenceInvInit, PresenceInvStep, <1>1, PTL DEF PresenceSpec

-----------------------------------------------------------------------------
(* One-time codes.  A code that no two verifications share has at most one *)
(* holder, and no acceptance while it is held.                             *)

CodeRow == [value : CodeValues, is_used : BOOLEAN, expires : Nat]

CodeType ==
    /\ clock \in Nat
    /\ otp \in Seq(CodeRow)
    /\ Len(otp) <= MaxCodes
    /\ verifier \in [Verifiers -> [code : Nat \ {0}, at : Nat] \cup {Off}]
    /\ accepted \in [1 .. MaxCodes -> Nat]

Holds(v, c) == verifier[v].code = c
HoldersRead ==
    \A v \in Verifiers : verifier[v] # Off =>
       /\ verifier[v].code \in 1 .. Len(otp)
       /\ verifier[v].at <= otp[verifier[v].code].expires
AcceptedIsUsed ==
    /\ \A c \in 1 .. Len(otp) : accepted[c] > 0 <=> otp[c].is_used
    /\ \A c \in 1 .. MaxCodes : c > Len(otp) => accepted[c] = 0
UnsharedHeldByOne ==
    \A c \in 1 .. Len(otp) : c \notin shared =>
       /\ accepted[c] <= 1
       /\ \A v \in Verifiers : Holds(v, c) => /\ accepted[c] = 0
                                             /\ \A w \in Verifiers : Holds(w, c) => w = v

CodeInv == CodeType /\ HoldersRead /\ AcceptedIsUsed /\ UnsharedHeldByOne

LEMMA CodeInvInit == CodeInit => CodeInv
<1> SUFFICES ASSUME CodeInit PROVE CodeInv
  OBVIOUS
<1>1. CodeType
  BY CodeAssumption DEF CodeInit, CodeType
<1>2. HoldersRead /\ AcceptedIsUsed /\ UnsharedHeldByOne
  BY CodeAssumption DEF CodeInit, HoldersRead, AcceptedIsUsed, UnsharedHeldByOne, Holds, Off
<1>3. QED
  BY <1>1, <1>2 DEF CodeInv

LEMMA CodeInvGenerate == ASSUME CodeInv, generate_otp PROVE CodeInv'
<1> USE CodeAssumption DEF CodeInv, CodeType
<1>1. PICK x \in CodeValues :
         otp' = Append(otp, [value |-> x, is_used |-> FALSE, expires |-> clock + Lifetime])
  BY DEF generate_otp
<1>2. /\ Len(otp') = Len(otp) + 1
      /\ \A c \in 1 .. Len(otp) : otp'[c] = otp[c]
      /\ otp'[Len(otp) + 1].is_used = FALSE
  BY <1>1
<1>3. CodeType'
  <2>1. [value |-> x, is_used |-> FALSE, expires |-> clock + Lifetime] \in CodeRow
    BY DEF CodeRow
  <2>2. otp' \in Seq(CodeRow)
    BY <1>1, <2>1
  <2>3. QED
    BY <1>2, <2>2 DEF generate_otp
<1>4. HoldersRead'
  BY <1>2 DEF HoldersRead, generate_otp
<1>5. AcceptedIsUsed'
  <2>1. UNCHANGED accepted /\ Len(otp') \in 1 .. MaxCodes
    BY <1>2 DEF generate_otp
  <2>2. \A c \in 1 .. Len(otp') : accepted[c] > 0 <=> otp'[c].is_used
    <3>1. TAKE c \in 1 .. Len(otp')
    <3>2. CASE c \in 1 .. Len(otp)
      <4>1. otp'[c] = otp[c]
        BY <1>2, <3>2
      <4>2. accepted[c] > 0 <=> otp[c].is_used
        BY <3>2 DEF AcceptedIsUsed
      <4>3. QED
        BY <4>1, <4>2, Zenon
    <3>3. CASE c = Len(otp')
      <4>1. accepted[c] = 0
        BY <1>2, <2>1, <3>3 DEF AcceptedIsUsed
      <4>2. ~(accepted[c] > 0)
        BY <4>1
      <4>3. QED
        BY <1>2, <3>3, <4>2, Zenon
    <3>4. QED
      BY <1>2, <3>2, <3>3
  <2>3. \A c \in 1 .. MaxCodes : c > Len(otp') => accepted[c] = 0
    BY <1>2 DEF AcceptedIsUsed
  <2>4. QED
    BY <2>1, <2>2, <2>3, Zenon DEF AcceptedIsUsed
<1>6. UnsharedHeldByOne'
  <2> SUFFICES ASSUME NEW c \in 1 .. Len(otp) + 1, c \notin shared
               PROVE  /\ accepted[c] <= 1
                      /\ \A v \in Verifiers : Holds(v, c) =>
                            /\ accepted[c] = 0
                            /\ \A w \in Verifiers : Holds(w, c) => w = v
    BY <1>2 DEF UnsharedHeldByOne, generate_otp, Holds
  <2>1. CASE c \in 1 .. Len(otp)
    BY <2>1 DEF UnsharedHeldByOne
  <2>2. CASE c = Len(otp) + 1
    <3>1. accepted[c] = 0
      BY <2>2 DEF AcceptedIsUsed, generate_otp
    <3>2. \A v \in Verifiers : ~Holds(v, c)
      BY <2>2 DEF HoldersRead, Holds, Off
    <3>3. QED
      BY <3>1, <3>2
  <2>3. QED
    BY <2>1, <2>2
<1>7. QED
  BY <1>3, <1>4, <1>5, <1>6

LEMMA CodeInvRead == ASSUME CodeInv, NEW v \in Verifiers, ReadCode(v) PROVE CodeInv'
<1> USE CodeAssumption DEF CodeInv, CodeType
<1>1. PICK c \in 1 .. Len(otp) :
         /\ ~otp[c].is_used
         /\ otp[c].expires >= clock
         /\ verifier' = [verifier EXCEPT ![v] = [code |-> c, at |-> clock]]
         /\ shared' = IF \E w \in Verifiers : verifier[w].code = c
                      THEN shared \cup {c} ELSE shared
  BY DEF ReadCode, Matching
<1>2. verifier[v] = Off /\ UNCHANGED <<clock, otp, accepted>>
  BY DEF ReadCode
<1>3. CodeType'
  BY <1>1, <1>2
<1>4. HoldersRead'
  BY <1>1, <1>2 DEF HoldersRead, Off
<1>5. AcceptedIsUsed'
  BY <1>2 DEF AcceptedIsUsed
<1>6. accepted[c] = 0
  BY <1>1 DEF AcceptedIsUsed
<1>7. UnsharedHeldByOne'
  <2> SUFFICES ASSUME NEW d \in 1 .. Len(otp), d \notin shared'
               PROVE  /\ accepted[d] <= 1
                      /\ \A x \in Verifiers : Holds(x, d)' =>
                            /\ accepted[d] = 0
                            /\ \A w \in Verifiers : Holds(w, d)' => w = x
    BY <1>2 DEF UnsharedHeldByOne
  <2>1. d \notin shared
    BY <1>1
  <2>2. CASE d = c
    <3>1. \A w \in Verifiers : ~Holds(w, c)
      BY <1>1, <2>2 DEF Holds
    <3>2. \A w \in Verifiers : Holds(w, c)' => w = v
      BY <1>1, <3>1 DEF Holds
    <3>3. QED
      BY <2>2, <1>6, <3>2
  <2>3. CASE d # c
    <3>1. \A w \in Verifiers : Holds(w, d)' => Holds(w, d)
      BY <1>1, <2>3 DEF Holds
    <3>2. QED
      BY <3>1, <2>1 DEF UnsharedHeldByOne
  <2>4. QED
    BY <2>2, <2>3
<1>8. QED
  BY <1>3, <1>4, <1>5, <1>7

LEMMA CodeInvVerify == ASSUME CodeInv, NEW v \in Verifiers, verify_otp(v) PROVE CodeInv'
<1> USE CodeAssumption DEF CodeInv, CodeType
<1> DEFINE c == verifier[v].code
<1>1. c \in 1 .. Len(otp)
  BY DEF verify_otp, HoldersRead
<1>2. /\ otp' = [otp EXCEPT ![c].is_used = TRUE]
      /\ accepted' = [accepted EXCEPT ![c] = @ + 1]
      /\ verifier' = [verifier EXCEPT ![v] = Off]
      /\ UNCHANGED <<clock, shared>>
  BY DEF verify_otp
<1> HIDE DEF c
<1>3. CodeType' /\ Len(otp') = Len(otp)
  <2>1. [otp[c] EXCEPT !.is_used = TRUE] \in CodeRow
    <3>1. otp[c] \in CodeRow
      BY <1>1
    <3>2. QED
      BY <3>1, Zenon DEF CodeRow
  <2>2. otp' \in Seq(CodeRow) /\ Len(otp') = Len(otp)
    BY <1>1, <1>2, <2>1
  <2>3. accepted' \in [1 .. MaxCodes -> Nat]
    BY <1>1, <1>2
  <2>4. verifier' \in [Verifiers -> [code : Nat \ {0}, at : Nat] \cup {Off}]
    BY <1>2
  <2>5. QED
    BY <1>2, <2>2, <2>3, <2>4
<1>4. HoldersRead'
  BY <1>1, <1>2, <1>3 DEF HoldersRead
<1>5. AcceptedIsUsed'
  BY <1>1, <1>2, <1>3 DEF AcceptedIsUsed
<1>6. UnsharedHeldByOne'
  <2> SUFFICES ASSUME NEW d \in 1 .. Len(otp), d \notin shared
               PROVE  /\ accepted'[d] <= 1
                      /\ \A x \in Verifiers : Holds(x, d)' =>
                            /\ accepted'[d] = 0
                            /\ \A w \in Verifiers : Holds(w, d)' => w = x
    BY <1>2, <1>3 DEF UnsharedHeldByOne
  <2>1. \A w \in Verifiers : Holds(w, d)' => w # v /\ Holds(w, d)
    BY <1>2 DEF Holds, Off
  <2>2. CASE d = c
    <3>1. Holds(v, c)
      BY DEF c, Holds
    <3>2. accepted[c] = 0 /\ \A w \in Verifiers : Holds(w, c) => w = v
      BY <1>1, <2>2, <3>1 DEF UnsharedHeldByOne
    <3>3. QED
      BY <1>1, <1>2, <2>1, <2>2, <3>2
  <2>3. CASE d # c
    BY <1>1, <1>2, <2>1, <2>3 DEF UnsharedHeldByOne
  <2>4. QED
    BY <2>2, <2>3
<1>7. QED
  BY <1>3, <1>4, <1>5, <1>6

LEMMA CodeInvStep == CodeInv /\ [CodeNext]_codeVars => CodeInv'
<1> SUFFICES ASSUME CodeInv, [CodeNext]_codeVars PROVE CodeInv'
  OBVIOUS
<1>1. CASE UNCHANGED <<clock, otp, verifier, accepted, shared>>
  BY <1>1 DEF CodeInv, CodeType, HoldersRead, AcceptedIsUsed, UnsharedHeldByOne, Holds
<1>2. CASE generate_otp
  BY <1>2, CodeInvGenerate
<1>3. ASSUME NEW v \in Verifiers, ReadCode(v) PROVE CodeInv'
  BY <1>3, CodeInvRead
<1>4. ASSUME NEW v \in Verifiers, verify_otp(v) PROVE CodeInv'
  BY <1>4, CodeInvVerify
<1>5. ASSUME NEW v \in Verifiers, VerifyDies(v) PROVE CodeInv'
  BY <1>5 DEF VerifyDies, CodeInv, CodeType, HoldersRead, AcceptedIsUsed, UnsharedHeldByOne,
              Holds, Off
<1>6. CASE ClockTick
  BY <1>6 DEF ClockTick, CodeInv, CodeType, HoldersRead, AcceptedIsUsed, UnsharedHeldByOne, Holds
<1>7. QED
  BY <1>1, <1>2, <1>3, <1>4, <1>5, <1>6
     DEF CodeNext, codeVars, send_sms, mark_sent, mark_failed, SendDies

(***************************************************************************)
(* However many verifications run, a code that no two of them held at the  *)
(* same moment is accepted at most once, and only while it is alive.       *)
(***************************************************************************)
THEOREM CodesAcceptedOnce == CodeSpec => []CodeAcceptedOnce
<1>1. CodeInv => CodeAcceptedOnce
  BY DEF CodeInv, CodeType, HoldersRead, AcceptedIsUsed, UnsharedHeldByOne, CodeAcceptedOnce
<1>2. QED
  BY CodeInvInit, CodeInvStep, <1>1, PTL DEF CodeSpec

-----------------------------------------------------------------------------
(* Maintenance.  The instance a request works on knows no milestone that   *)
(* was not in the history or edited in, and no status that is not          *)
(* accounted for: one not in the history yet belongs to a request that has *)
(* written it and goes on to record it.  A deleted row may come back with  *)
(* any of these instances, so they are held to what the row is held to.    *)

ClerkRow == [pc : {"inserted", "put_inserted", "assign", "change_status", "written", "recorded",
                   "saved", "put"}, row : TicketRow, new : Status \cup {Unlisted}]
TicketType ==
    /\ ticket \in TicketRow \cup {NoTicket, Gone}
    /\ clerk \in [Clerks -> ClerkRow \cup {NoClerk}]

Known == trail \cup unrecorded \cup cascaded
Earned == trail \cup edited \cup cascaded
Accounted(status) ==
    status \in Known \/ \E k \in Clerks : clerk[k].pc \in Recording /\ clerk[k].new = status

ClerksSound ==
    \A k \in Clerks : clerk[k] # NoClerk =>
       /\ ticket # NoTicket
       /\ clerk[k].row.reached \subseteq Earned
       /\ Accounted(clerk[k].row.status)
       /\ clerk[k].pc = "assign" => clerk[k].new = "ASSIGNED"
       /\ clerk[k].pc = "recorded" => clerk[k].new \in trail \cup cascaded
TicketSound ==
    ticket \notin {NoTicket, Gone} => ticket.reached \subseteq Earned /\ Accounted(ticket.status)

TicketInv == TicketType /\ ClerksSound /\ TicketSound

LEMMA TicketInvInit == TicketInit => TicketInv
  BY DEF TicketInit, TicketInv, TicketType, ClerksSound, TicketSound

LEMMA TicketRows ==
  /\ NoTicket \notin TicketRow /\ Gone \notin TicketRow /\ NoTicket # Gone
  /\ NoClerk \notin ClerkRow /\ NoClerk.pc = "away"
<1>1. "none" \notin Status \cup {Unlisted} /\ "deleted" \notin Status \cup {Unlisted}
  BY DEF Status, Unlisted
<1>2. \A row \in TicketRow : row.status \in Status \cup {Unlisted}
  BY DEF TicketRow
<1>3. NoTicket.status = "none" /\ Gone.status = "deleted" /\ NoClerk.pc = "away"
  BY DEF NoTicket, Gone, NoClerk
<1>4. \A c \in ClerkRow : c.pc # "away"
  BY DEF ClerkRow
<1> QED
  BY <1>1, <1>2, <1>3, <1>4

\* A step of clerk k, which leaves it with c: nothing accounted for is forgotten.
LEMMA ClerkMoves ==
  ASSUME TicketInv, NEW k \in Clerks, NEW c \in ClerkRow \cup {NoClerk},
         clerk' = [clerk EXCEPT ![k] = c],
         Known \subseteq Known', Earned \subseteq Earned', cascaded' = cascaded,
         trail \subseteq trail',
         clerk[k].pc \in Recording => \/ clerk[k].new \in Known'
                                      \/ c.pc \in Recording /\ c.new = clerk[k].new,
         ticket' \in TicketRow \cup {Gone},
         c # NoClerk => /\ c.row.reached \subseteq Earned'
                        /\ \/ Accounted(c.row.status)
                           \/ c.pc \in Recording /\ c.new = c.row.status
                        /\ c.pc = "assign" => c.new = "ASSIGNED"
                        /\ c.pc = "recorded" => c.new \in trail' \cup cascaded,
         ticket' # Gone => /\ ticket'.reached \subseteq Earned'
                           /\ \/ Accounted(ticket'.status)
                              \/ ticket'.status \in Known'
                              \/ c.pc \in Recording /\ c.new = ticket'.status
  PROVE  TicketInv'
<1>1. /\ clerk'[k] = c /\ \A l \in Clerks \ {k} : clerk'[l] = clerk[l]
      /\ clerk' \in [Clerks -> ClerkRow \cup {NoClerk}]
  BY DEF TicketInv, TicketType
<1>2. \A status : Accounted(status) \/ status \in Known' \/ (c.pc \in Recording /\ c.new = status)
                     => Accounted(status)'
  <2> SUFFICES ASSUME NEW status,
                      \/ Accounted(status) \/ status \in Known'
                      \/ c.pc \in Recording /\ c.new = status
               PROVE  Accounted(status)'
    OBVIOUS
  <2>1. CASE status \in Known \/ status \in Known'
    BY <2>1 DEF Accounted
  <2>2. CASE c.pc \in Recording /\ c.new = status
    BY <1>1, <2>2 DEF Accounted
  <2>3. ASSUME NEW l \in Clerks, clerk[l].pc \in Recording, clerk[l].new = status
        PROVE  Accounted(status)'
    <3>1. CASE l = k
      BY <1>1, <2>3, <3>1 DEF Accounted
    <3>2. CASE l # k
      BY <1>1, <2>3, <3>2 DEF Accounted
    <3> QED
      BY <3>1, <3>2
  <2> QED
    BY <2>1, <2>2, <2>3 DEF Accounted
<1>3. ticket' # NoTicket
  BY TicketRows
<1>4. ClerksSound'
  <2>1. ASSUME NEW l \in Clerks, clerk'[l] # NoClerk
        PROVE  /\ clerk'[l].row.reached \subseteq Earned'
               /\ Accounted(clerk[l].row.status)'
               /\ clerk'[l].pc = "assign" => clerk'[l].new = "ASSIGNED"
               /\ clerk'[l].pc = "recorded" => clerk'[l].new \in trail' \cup cascaded'
    <3> PICK status : status = clerk'[l].row.status
      OBVIOUS
    <3>3. Accounted(status)' => Accounted(clerk[l].row.status)'
      BY DEF Accounted
    <3>1. CASE l = k
      <4>1. Accounted(status)'
        BY <1>1, <1>2, <2>1, <3>1
      <4> QED
        BY <1>1, <2>1, <3>1, <3>3, <4>1
    <3>2. CASE l # k
      <4>1. clerk'[l] = clerk[l] /\ clerk[l] # NoClerk
        BY <1>1, <2>1, <3>2
      <4>2. /\ clerk[l].row.reached \subseteq Earned /\ Accounted(clerk[l].row.status)
            /\ clerk[l].pc = "assign" => clerk[l].new = "ASSIGNED"
            /\ clerk[l].pc = "recorded" => clerk[l].new \in trail \cup cascaded
        BY <4>1 DEF TicketInv, ClerksSound
      <4>3. Accounted(status)'
        BY <1>2, <4>1, <4>2
      <4> QED
        BY <3>3, <4>1, <4>2, <4>3
    <3> QED
      BY <3>1, <3>2
  <2> QED
    BY <1>3, <2>1 DEF ClerksSound
<1>5. TicketSound'
  <2> SUFFICES ASSUME ticket' # Gone
               PROVE  ticket'.reached \subseteq Earned' /\ Accounted(ticket.status)'
    BY DEF TicketSound
  <2> PICK status : status = ticket'.status
    OBVIOUS
  <2>1. Accounted(status)'
    BY <1>2
  <2> QED
    BY <2>1 DEF Accounted
<1>6. TicketType'
  BY <1>1 DEF TicketType
<1> QED
  BY <1>4, <1>5, <1>6 DEF TicketInv

\* What is known of a request under way, and of the ticket.
LEMMA ClerkKnown ==
  ASSUME TicketInv, NEW k \in Clerks, clerk[k].pc # "away"
  PROVE  /\ clerk[k] # NoClerk /\ clerk[k] \in ClerkRow
         /\ ticket \in TicketRow \cup {Gone}
         /\ clerk[k].row \in TicketRow /\ clerk[k].new \in Status \cup {Unlisted}
         /\ clerk[k].row.reached \subseteq Earned
         /\ Accounted(clerk[k].row.status)
         /\ clerk[k].pc = "assign" => clerk[k].new = "ASSIGNED"
         /\ clerk[k].pc = "recorded" => clerk[k].new \in trail \cup cascaded
         /\ ticket # Gone => ticket.reached \subseteq Earned /\ Accounted(ticket.status)
<1>1. clerk[k] # NoClerk /\ clerk[k] \in ClerkRow
  BY TicketRows DEF TicketInv, TicketType
<1>2. clerk[k].row \in TicketRow /\ clerk[k].new \in Status \cup {Unlisted}
  BY <1>1 DEF ClerkRow
<1> QED
  BY <1>1, <1>2, TicketRows DEF TicketInv, TicketType, ClerksSound, TicketSound

LEMMA TicketInvInsert ==
  ASSUME TicketInv, NEW k \in Clerks, InsertTicket(k) PROVE TicketInv'
<1>1. PICK status \in Status \cup {"OPEN"}, reached \in SUBSET Milestones :
         /\ ticket' = [status |-> status, reached |-> reached]
         /\ clerk' = [clerk EXCEPT ![k] = [pc |-> "inserted", row |-> ticket', new |-> status]]
         /\ edited' = edited \cup reached
  BY TicketAssumption DEF InsertTicket
<1>2. PICK c : c = [pc |-> "inserted", row |-> ticket', new |-> status]
  OBVIOUS
<1>3. ticket' \in TicketRow /\ ticket'.reached = reached /\ ticket'.status = status
  BY <1>1 DEF TicketRow, Status
<1>4. /\ c \in ClerkRow /\ c.row = ticket' /\ c.pc = "inserted" /\ c.new = status
      /\ c.pc \in Recording /\ clerk' = [clerk EXCEPT ![k] = c]
  BY <1>1, <1>2, <1>3 DEF ClerkRow, Recording, Status
<1>5. UNCHANGED <<trail, unrecorded, cascaded>>
  BY DEF InsertTicket
<1>6. clerk[k].pc \notin Recording
  <2>1. clerk[k] = NoClerk
    BY DEF InsertTicket, TicketInv, ClerksSound
  <2> QED
    BY <2>1, TicketRows DEF Recording
<1>7. Known \subseteq Known' /\ Earned \subseteq Earned' /\ reached \subseteq Earned'
  BY <1>1, <1>5 DEF Known, Earned
<1> QED
  BY <1>3, <1>4, <1>5, <1>6, <1>7, ClerkMoves

LEMMA TicketInvLoad ==
  ASSUME TicketInv, NEW k \in Clerks, NEW op \in {"assign", "change_status", "put"},
         NEW new \in Status \cup {Unlisted}, op = "assign" => new = "ASSIGNED",
         LoadTicket(k, op, new)
  PROVE  TicketInv'
<1>1. /\ clerk[k] = NoClerk /\ ticket \notin {NoTicket, Gone}
      /\ clerk' = [clerk EXCEPT ![k] = [pc |-> op, row |-> ticket, new |-> new]]
      /\ UNCHANGED <<ticket, trail, unrecorded, edited, cascaded>>
  BY DEF LoadTicket
<1>2. PICK c : c = [pc |-> op, row |-> ticket, new |-> new]
  OBVIOUS
<1>3. ticket \in TicketRow /\ ticket.reached \subseteq Earned /\ Accounted(ticket.status)
  BY <1>1 DEF TicketInv, TicketType, TicketSound
<1>4. /\ c \in ClerkRow /\ c.row = ticket /\ c.pc = op /\ c.new = new
      /\ clerk' = [clerk EXCEPT ![k] = c]
  BY <1>1, <1>2, <1>3 DEF ClerkRow
<1>5. clerk[k].pc \notin Recording
  BY <1>1, TicketRows DEF Recording
<1>6. Known' = Known /\ Earned' = Earned
  BY <1>1 DEF Known, Earned
<1> QED
  BY <1>1, <1>3, <1>4, <1>5, <1>6, ClerkMoves

\* The whole row is saved, with a status that the clerk records next or that is recorded.
LEMMA TicketInvSave ==
  ASSUME TicketInv, NEW k \in Clerks, clerk[k].pc \in {"assign", "recorded"},
         NEW row \in TicketRow, row.status = clerk[k].new, row.reached \subseteq Earned,
         SaveRow(k, row)
  PROVE  TicketInv'
<1>1. /\ clerk[k] \in ClerkRow /\ clerk[k].row.reached \subseteq Earned
      /\ Accounted(clerk[k].row.status)
  BY ClerkKnown
<1>2. PICK pc \in {"inserted", "saved"} : clerk' = [clerk EXCEPT ![k].pc = pc]
  BY DEF SaveRow
<1>3. PICK c : c = [clerk[k] EXCEPT !.pc = pc]
  OBVIOUS
<1>4. /\ c \in ClerkRow /\ c.row = clerk[k].row /\ c.pc = pc /\ c.new = clerk[k].new
      /\ c.pc \in Recording /\ clerk' = [clerk EXCEPT ![k] = c]
  BY <1>1, <1>2, <1>3 DEF ClerkRow, Recording
<1>5. UNCHANGED <<trail, unrecorded, edited, cascaded>> /\ ticket' = row
  BY DEF SaveRow
<1>6. Known' = Known /\ Earned' = Earned
  BY <1>5 DEF Known, Earned
<1>7. clerk[k].pc \notin Recording
  BY DEF Recording
<1> QED
  BY <1>1, <1>4, <1>5, <1>6, <1>7, ClerkMoves

LEMMA TicketInvStep == TicketInv /\ [TicketNext]_ticketVars => TicketInv'
<1> SUFFICES ASSUME TicketInv, [TicketNext]_ticketVars PROVE TicketInv'
  OBVIOUS
<1>1. CASE UNCHANGED ticketVars
  BY <1>1 DEF ticketVars, TicketInv, TicketType, ClerksSound, TicketSound, Known, Earned, Accounted
<1>2. ASSUME NEW k \in Clerks, maintenance_created(k) PROVE TicketInv'
  <2>1. clerk[k].pc \in {"inserted", "put_inserted"}
    BY <1>2 DEF maintenance_created
  <2>2. PICK c : c = IF clerk[k].pc = "inserted" THEN [clerk[k] EXCEPT !.pc = "saved"] ELSE NoClerk
    OBVIOUS
  <2>3. clerk' = [clerk EXCEPT ![k] = c] /\ UNCHANGED <<ticket, trail, unrecorded, edited, cascaded>>
    BY <1>2, <2>2 DEF maintenance_created
  <2>4. /\ clerk[k] \in ClerkRow /\ clerk[k].row.reached \subseteq Earned
        /\ Accounted(clerk[k].row.status) /\ ticket \in TicketRow \cup {Gone}
        /\ ticket # Gone => ticket.reached \subseteq Earned /\ Accounted(ticket.status)
    BY <2>1, ClerkKnown
  <2>5. CASE clerk[k].pc = "inserted"
    <3>1. /\ c \in ClerkRow /\ c.row = clerk[k].row /\ c.pc = "saved" /\ c.new = clerk[k].new
      BY <2>2, <2>4, <2>5 DEF ClerkRow
    <3> QED
      BY <2>3, <2>4, <3>1, ClerkMoves DEF Known, Earned, Recording
  <2>6. CASE clerk[k].pc = "put_inserted"
    <3>1. c = NoClerk /\ clerk[k].pc \notin Recording
      BY <2>2, <2>6 DEF Recording
    <3> QED
      BY <2>3, <2>4, <3>1, ClerkMoves DEF Known, Earned
  <2> QED
    BY <2>1, <2>5, <2>6
<1>3. ASSUME NEW k \in Clerks, assign(k) PROVE TicketInv'
  <2>1. clerk[k].pc = "assign" /\ SaveRow(k, [clerk[k].row EXCEPT !.status = "ASSIGNED"])
    BY <1>3 DEF assign
  <2>2. PICK row : row = [clerk[k].row EXCEPT !.status = "ASSIGNED"]
    OBVIOUS
  <2>3. row \in TicketRow /\ row.status = clerk[k].new /\ row.reached \subseteq Earned
    BY <2>1, <2>2, ClerkKnown DEF TicketRow, Status
  <2> QED
    BY <2>1, <2>2, <2>3, TicketInvSave
<1>4. ASSUME NEW k \in Clerks, ServiceStatus(k) PROVE TicketInv'
  <2>1. /\ clerk[k].pc = "change_status" /\ ticket # Gone
        /\ ticket' = [ticket EXCEPT !.status = clerk[k].new]
        /\ clerk' = [clerk EXCEPT ![k].pc = "written"]
        /\ UNCHANGED <<trail, unrecorded, edited, cascaded>>
    BY <1>4 DEF ServiceStatus
  <2>2. /\ clerk[k] \in ClerkRow /\ clerk[k].row.reached \subseteq Earned
        /\ Accounted(clerk[k].row.status) /\ ticket \in TicketRow
        /\ ticket.reached \subseteq Earned /\ clerk[k].new \in Status \cup {Unlisted}
    BY <2>1, ClerkKnown
  <2>3. PICK c : c = [clerk[k] EXCEPT !.pc = "written"]
    OBVIOUS
  <2>4. /\ c \in ClerkRow /\ c.row = clerk[k].row /\ c.pc = "written" /\ c.new = clerk[k].new
        /\ clerk' = [clerk EXCEPT ![k] = c]
    BY <2>1, <2>2, <2>3 DEF ClerkRow
  <2>5. ticket' \in TicketRow /\ ticket'.status = c.new /\ ticket'.reached = ticket.reached
    BY <2>1, <2>2, <2>4 DEF TicketRow
  <2>6. Known' = Known /\ Earned' = Earned /\ c.pc \in Recording /\ clerk[k].pc \notin Recording
    BY <2>1, <2>4 DEF Known, Earned, Recording
  <2> QED
    BY <2>1, <2>2, <2>4, <2>5, <2>6, ClerkMoves
<1>5. ASSUME NEW k \in Clerks, ServiceHistory(k) PROVE TicketInv'
  <2>1. /\ clerk[k].pc = "written" /\ trail' = trail \cup {clerk[k].new}
        /\ clerk' = [clerk EXCEPT ![k].pc = "recorded"]
        /\ UNCHANGED <<ticket, unrecorded, edited, cascaded>>
    BY <1>5 DEF ServiceHistory, HistoryCreated
  <2>2. /\ clerk[k] \in ClerkRow /\ clerk[k].row.reached \subseteq Earned
        /\ Accounted(clerk[k].row.status) /\ ticket \in TicketRow \cup {Gone}
        /\ ticket # Gone => ticket.reached \subseteq Earned /\ Accounted(ticket.status)
    BY <2>1, ClerkKnown
  <2>3. PICK c : c = [clerk[k] EXCEPT !.pc = "recorded"]
    OBVIOUS
  <2>4. /\ c \in ClerkRow /\ c.row = clerk[k].row /\ c.pc = "recorded" /\ c.new = clerk[k].new
        /\ clerk' = [clerk EXCEPT ![k] = c]
    BY <2>1, <2>2, <2>3 DEF ClerkRow
  <2>5. /\ Known \subseteq Known' /\ Earned \subseteq Earned' /\ trail \subseteq trail'
        /\ clerk[k].new \in Known' /\ c.new \in trail' \cup cascaded
    BY <2>1, <2>4 DEF Known, Earned
  <2> QED
    BY <2>1, <2>2, <2>4, <2>5, ClerkMoves
<1>6. ASSUME NEW k \in Clerks, change_status(k) PROVE TicketInv'
  <2>1. PICK row : row = [status |-> clerk[k].new,
                          reached |-> clerk[k].row.reached \cup ({clerk[k].new} \cap Milestones)]
    OBVIOUS
  <2>2. clerk[k].pc = "recorded" /\ SaveRow(k, row)
    BY <1>6, <2>1 DEF change_status
  <2>3. /\ clerk[k].row \in TicketRow /\ clerk[k].new \in Status \cup {Unlisted}
        /\ clerk[k].row.reached \subseteq Earned /\ clerk[k].new \in Earned
    BY <2>2, ClerkKnown DEF Earned
  <2>4. row \in TicketRow /\ row.status = clerk[k].new /\ row.reached \subseteq Earned
    BY <2>1, <2>3 DEF TicketRow
  <2> QED
    BY <2>2, <2>4, TicketInvSave
<1>7. ASSUME NEW k \in Clerks, ViewHistory(k) PROVE TicketInv'
  <2>1. /\ clerk[k].pc = "saved" /\ trail' = trail \cup {clerk[k].new}
        /\ clerk' = [clerk EXCEPT ![k] = NoClerk]
        /\ UNCHANGED <<ticket, unrecorded, edited, cascaded>>
    BY <1>7 DEF ViewHistory, HistoryCreated
  <2>2. /\ ticket \in TicketRow \cup {Gone}
        /\ ticket # Gone => ticket.reached \subseteq Earned /\ Accounted(ticket.status)
    BY <2>1, ClerkKnown
  <2>3. /\ Known \subseteq Known' /\ Earned \subseteq Earned' /\ trail \subseteq trail'
        /\ clerk[k].new \in Known'
    BY <2>1 DEF Known, Earned
  <2> QED
    BY <2>1, <2>2, <2>3, ClerkMoves
<1>8. ASSUME NEW k \in Clerks, put(k) PROVE TicketInv'
  <2>1. clerk[k].pc = "put" /\ UNCHANGED <<trail, cascaded>>
    BY <1>8 DEF put
  <2>2. /\ clerk[k] \in ClerkRow /\ clerk[k].row.reached \subseteq Earned
        /\ clerk[k].row \in TicketRow /\ clerk[k].new \in Status \cup {Unlisted}
        /\ Accounted(clerk[k].row.status) /\ ticket \in TicketRow \cup {Gone}
    BY <2>1, ClerkKnown
  <2>3. PICK status \in {clerk[k].row.status, clerk[k].new},
             reached \in Edits \cup {clerk[k].row.reached} :
           /\ ticket' = [status |-> status, reached |-> reached]
           /\ unrecorded' = unrecorded \cup ({status} \ {clerk[k].row.status})
           /\ edited' = edited \cup (reached \ clerk[k].row.reached)
    BY <1>8 DEF put
  <2>4. /\ ticket' \in TicketRow /\ ticket'.status = status /\ ticket'.reached = reached
    BY <2>2, <2>3, TicketAssumption DEF TicketRow
  <2>5. /\ Known \subseteq Known' /\ Earned \subseteq Earned'
        /\ reached \subseteq Earned' /\ (Accounted(status) \/ status \in Known')
    BY <2>1, <2>2, <2>3 DEF Known, Earned
  <2>6. PICK c : c = IF ticket = Gone THEN [clerk[k] EXCEPT !.pc = "put_inserted"] ELSE NoClerk
    OBVIOUS
  <2>7. clerk' = [clerk EXCEPT ![k] = c]
    BY <1>8, <2>6 DEF put
  <2>8. /\ c \in ClerkRow \cup {NoClerk}
        /\ c # NoClerk => c.row = clerk[k].row /\ c.pc = "put_inserted"
    BY <2>2, <2>6 DEF ClerkRow
  <2>9. clerk[k].pc \notin Recording
    BY <2>1 DEF Recording
  <2>10. ticket' \in TicketRow \cup {Gone} /\ (c # NoClerk => c.row.reached \subseteq Earned')
    BY <2>2, <2>4, <2>5, <2>8
  <2> QED
    BY <2>1, <2>2, <2>4, <2>5, <2>7, <2>8, <2>9, <2>10, ClerkMoves
<1>9. ASSUME NEW k \in Clerks, ClerkDies(k) PROVE TicketInv'
  <2>1. /\ clerk[k] # NoClerk /\ clerk' = [clerk EXCEPT ![k] = NoClerk]
        /\ UNCHANGED <<ticket, trail, edited, cascaded>>
        /\ unrecorded' = IF clerk[k].pc \in Recording THEN unrecorded \cup {clerk[k].new}
                         ELSE unrecorded
    BY <1>9 DEF ClerkDies
  <2>2. clerk[k].pc # "away"
    BY <2>1 DEF TicketInv, TicketType, ClerkRow
  <2>3. /\ ticket \in TicketRow \cup {Gone}
        /\ ticket # Gone => ticket.reached \subseteq Earned /\ Accounted(ticket.status)
    BY <2>2, ClerkKnown
  <2>4. /\ Known \subseteq Known' /\ Earned \subseteq Earned'
        /\ clerk[k].pc \in Recording => clerk[k].new \in Known'
    BY <2>1 DEF Known, Earned
  <2> QED
    BY <2>1, <2>3, <2>4, ClerkMoves
<1>10. CASE DeleteTicket
  <2>1. /\ ticket' = Gone /\ trail' = {} /\ cascaded' = cascaded \cup trail
        /\ UNCHANGED <<clerk, unrecorded, edited>>
    BY <1>10 DEF DeleteTicket
  <2>2. Known' = Known /\ Earned' = Earned /\ trail' \cup cascaded' = trail \cup cascaded
    BY <2>1 DEF Known, Earned
  <2>3. \A status : Accounted(status)' <=> Accounted(status)
    BY <2>1, <2>2 DEF Accounted
  <2>4. ClerksSound'
    BY <2>1, <2>2, <2>3, TicketRows DEF TicketInv, ClerksSound
  <2> QED
    BY <2>1, <2>4 DEF TicketInv, TicketType, TicketSound
<1>11. ASSUME NEW k \in Clerks, LoadTicket(k, "assign", "ASSIGNED") PROVE TicketInv'
  BY <1>11, TicketInvLoad DEF Status
<1>12. ASSUME NEW k \in Clerks, NEW new \in Asked, LoadTicket(k, "change_status", new)
       PROVE  TicketInv'
  BY <1>12, TicketInvLoad, TicketAssumption
<1>13. ASSUME NEW k \in Clerks, NEW new \in Asked \cap Status, LoadTicket(k, "put", new)
       PROVE  TicketInv'
  BY <1>13, TicketInvLoad, TicketAssumption
<1> QED
  BY <1>1, <1>2, <1>3, <1>4, <1>5, <1>6, <1>7, <1>8, <1>9, <1>10, <1>11, <1>12, <1>13,
     TicketInvInsert DEF TicketNext

(***************************************************************************)
(* The milestones of a ticket have or had their history rows or were sent  *)
(* by a client, and its status is recorded or about to be, whatever        *)
(* requests race, die, or bring a deleted ticket back.                     *)
(***************************************************************************)
THEOREM TicketsTrailed == TicketSpec => []TicketTrail
<1>1. TicketInv => TicketTrail
  BY DEF TicketInv, TicketSound, TicketTrail, Known, Earned, Accounted
<1>2. QED
  BY TicketInvInit, TicketInvStep, <1>1, PTL DEF TicketSpec

-----------------------------------------------------------------------------
(* Residences.  As long as no two requests held validated rows at once,    *)
(* the active rows of the villa are pairwise apart, and the one row that   *)
(* waits to be saved fits beside the others.                               *)

ResidenceType ==
    /\ residence \in [Homes -> ResidenceRow \cup {Vacant}]
    /\ mover \in [Movers -> [home : Homes, row : ResidenceRow] \cup {Still}]

Current(a) == a # Vacant /\ a.is_active
\* An open-ended owner, and a tenant whose days meet those of another.
OwnsOn(a) == a.kind = "OWNER" /\ a.end = OpenEnd
Rivals(a, b) == a.kind = "TENANT" /\ b.kind = "TENANT" /\ has_date_overlap(a, b)

Fits(h, row) ==
    \A g \in Homes \ {h} : Current(residence[g]) =>
       /\ row.kind = "OWNER" => ~OwnsOn(residence[g])
       /\ ~Rivals(residence[g], row)

Apart(a, b) == Current(a) /\ Current(b) => ~(OwnsOn(a) /\ OwnsOn(b)) /\ ~Rivals(a, b)

AllApart == \A g, h \in Homes : g # h => Apart(residence[g], residence[h])
OneMoverFits ==
    \A k \in Movers : mover[k] # Still =>
       /\ Fits(mover[k].home, mover[k].row)
       /\ \A l \in Movers : mover[l] # Still => l = k

ResidencyInv == ResidenceType /\ (hasty \/ (AllApart /\ OneMoverFits))

\* What validate demands, row by row.
LEMMA ValidateFits ==
  ASSUME NEW h \in Homes, NEW row, validate(h, row) PROVE Fits(h, row)
  BY DEF validate, Fits, Current, OwnsOn, Rivals

\* A row that ends sooner than an open-ended one meets none of the rows that one does not.
LEMMA NoLongerMeets ==
  ASSUME ResidencyInv, NEW h \in Homes, NEW asked \in ResidenceRow, NEW row \in ResidenceRow,
         row.kind = asked.kind, row.start = asked.start,
         row.end = asked.end \/ asked.end = OpenEnd, Fits(h, asked)
  PROVE  Fits(h, row)
<1> SUFFICES ASSUME NEW g \in Homes \ {h}, Current(residence[g])
             PROVE  /\ row.kind = "OWNER" => ~OwnsOn(residence[g])
                    /\ ~Rivals(residence[g], row)
  BY DEF Fits
<1>1. /\ row.kind = "OWNER" => ~OwnsOn(residence[g])
      /\ ~Rivals(residence[g], asked)
  BY DEF Fits
<1>2. residence[g].start <= OpenEnd
  <2>1. residence[g] \in ResidenceRow
    BY DEF Current, ResidencyInv, ResidenceType
  <2> QED
    BY <2>1, ResidencyAssumption DEF ResidenceRow, OpenEnd
<1>3. ~Rivals(residence[g], row)
  BY <1>1, <1>2 DEF Rivals, has_date_overlap
<1> QED
  BY <1>1, <1>3

LEMMA OverlapSymmetric ==
  ASSUME NEW a \in ResidenceRow, NEW b \in ResidenceRow, Apart(a, b) PROVE Apart(b, a)
  BY DEF Apart, Rivals, has_date_overlap

LEMMA ResidencyInvInit == ResidencyInit => ResidencyInv
  BY DEF ResidencyInit, ResidencyInv, ResidenceType, AllApart, OneMoverFits, Apart, Current

LEMMA ResidencyInvValidated ==
  ASSUME ResidencyInv, NEW k \in Movers, NEW h \in Homes, Validated(k, h)
  PROVE  ResidencyInv'
<1>1. PICK asked \in ResidenceRow, omitted \in BOOLEAN :
         /\ omitted => residence[h] # Vacant /\ asked.end = OpenEnd
         /\ validate(h, asked)
         /\ mover' = [mover EXCEPT ![k] =
               [home |-> h,
                row |-> IF omitted THEN [asked EXCEPT !.end = residence[h].end] ELSE asked]]
  BY DEF Validated
<1>2. mover[k] = Still /\ UNCHANGED residence
  BY DEF Validated
<1> PICK row : row = IF omitted THEN [asked EXCEPT !.end = residence[h].end] ELSE asked
  OBVIOUS
<1>7. /\ row \in ResidenceRow /\ row.kind = asked.kind /\ row.start = asked.start
      /\ row.end = asked.end \/ asked.end = OpenEnd
      /\ mover' = [mover EXCEPT ![k] = [home |-> h, row |-> row]]
  BY <1>1 DEF ResidencyInv, ResidenceType, ResidenceRow
<1>3. ResidenceType'
  BY <1>2, <1>7 DEF ResidencyInv, ResidenceType
<1>4. CASE hasty'
  BY <1>3, <1>4 DEF ResidencyInv
<1>5. CASE ~hasty'
  <2>1. ~hasty /\ \A l \in Movers : mover[l] = Still
    BY <1>5, Zenon DEF Validated
  <2>2. AllApart'
    BY <1>2, <2>1 DEF ResidencyInv, AllApart, Apart, Current, OwnsOn, Rivals
  <2>3. Fits(h, row)'
    <3>1. Fits(h, row)
      BY <1>1, <1>7, ValidateFits, NoLongerMeets
    <3> QED
      BY <1>2, <3>1 DEF Fits, Current, OwnsOn, Rivals
  <2>4. mover'[k] = [home |-> h, row |-> row] /\ \A l \in Movers : mover'[l] # Still => l = k
    BY <1>7, <2>1 DEF ResidencyInv, ResidenceType
  <2>5. OneMoverFits'
    <3>1. SUFFICES ASSUME NEW l \in Movers, mover'[l] # Still
                   PROVE  Fits(mover[l].home, mover[l].row)'
      BY <2>4 DEF OneMoverFits
    <3>2. mover'[l].home = h /\ mover'[l].row = row
      BY <3>1, <2>4
    <3>3. QED
      BY <2>3, <3>2 DEF Fits, Current, OwnsOn, Rivals
  <2>6. QED
    BY <1>3, <2>2, <2>5 DEF ResidencyInv
<1>6. QED
  BY <1>4, <1>5

LEMMA ResidencyInvSave ==
  ASSUME ResidencyInv, NEW k \in Movers, SaveResidence(k) PROVE ResidencyInv'
<1> DEFINE h == mover[k].home
           row == mover[k].row
<1>1. /\ mover[k] # Still
      /\ residence' = [residence EXCEPT ![h] = row]
      /\ mover' = [mover EXCEPT ![k] = Still]
      /\ hasty' = hasty
  BY DEF SaveResidence
<1>2. h \in Homes /\ row \in ResidenceRow
  BY <1>1 DEF ResidencyInv, ResidenceType
<1> HIDE DEF h, row
<1>3. ResidenceType'
  BY <1>1, <1>2 DEF ResidencyInv, ResidenceType
<1>4. CASE hasty
  BY <1>1, <1>3, <1>4 DEF ResidencyInv
<1>5. CASE ~hasty
  <2>1. AllApart /\ OneMoverFits
    BY <1>5 DEF ResidencyInv
  <2>2. Fits(h, row)
    BY <1>1, <2>1 DEF OneMoverFits, h, row
  <2>3. \A l \in Movers : mover'[l] = Still
    BY <1>1, <2>1 DEF OneMoverFits, ResidencyInv, ResidenceType
  <2>4. \A g \in Homes \ {h} : Apart(residence[g], row)
    BY <2>2 DEF Fits, Apart, OwnsOn
  <2>5. ASSUME NEW g \in Homes \ {h} PROVE Apart(row, residence[g])
    <3>1. CASE residence[g] \in ResidenceRow
      BY <1>2, <2>4, <3>1, OverlapSymmetric
    <3>2. CASE residence[g] = Vacant
      BY <3>2 DEF Apart, Current
    <3>3. QED
      BY <3>1, <3>2 DEF ResidencyInv, ResidenceType
  <2>6. residence'[h] = row /\ \A g \in Homes \ {h} : residence'[g] = residence[g]
    BY <1>1, <1>2 DEF ResidencyInv, ResidenceType
  <2>7. \A f, g \in Homes : f # g => Apart(residence'[f], residence'[g])
    BY <2>1, <2>4, <2>5, <2>6 DEF AllApart
  <2>8. AllApart' /\ OneMoverFits'
    BY <2>3, <2>7 DEF AllApart, OneMoverFits, Apart, Current, OwnsOn, Rivals
  <2>9. QED
    BY <1>3, <2>8 DEF ResidencyInv
<1>6. QED
  BY <1>4, <1>5

LEMMA ResidencyInvStep == ResidencyInv /\ [ResidencyNext]_residencyVars => ResidencyInv'
<1> SUFFICES ASSUME ResidencyInv, [ResidencyNext]_residencyVars PROVE ResidencyInv'
  OBVIOUS
<1>1. CASE UNCHANGED residencyVars
  BY <1>1 DEF residencyVars, ResidencyInv, ResidenceType, AllApart, OneMoverFits, Fits, Apart,
              Current, OwnsOn, Rivals
<1>2. ASSUME NEW k \in Movers, NEW h \in Homes, Validated(k, h) PROVE ResidencyInv'
  BY <1>2, ResidencyInvValidated
<1>3. ASSUME NEW k \in Movers, SaveResidence(k) PROVE ResidencyInv'
  BY <1>3, ResidencyInvSave
<1>4. ASSUME NEW k \in Movers, MoverLeaves(k) PROVE ResidencyInv'
  BY <1>4 DEF MoverLeaves, ResidencyInv, ResidenceType, AllApart, OneMoverFits, Fits, Apart,
              Current, OwnsOn, Rivals
<1>5. ASSUME NEW h \in Homes, DeleteResidence(h) PROVE ResidencyInv'
  <2>1. residence' = [residence EXCEPT ![h] = Vacant] /\ UNCHANGED <<mover, hasty>>
    BY <1>5 DEF DeleteResidence
  <2>2. ResidenceType'
    BY <2>1 DEF ResidencyInv, ResidenceType
  <2>3. \A g \in Homes : residence'[g] = residence[g] \/ residence'[g] = Vacant
    BY <2>1 DEF ResidencyInv, ResidenceType
  <2>4. AllApart => AllApart'
    BY <2>3 DEF AllApart, Apart, Current, OwnsOn, Rivals
  <2>5. OneMoverFits => OneMoverFits'
    BY <2>1, <2>3 DEF OneMoverFits, Fits, Current, OwnsOn, Rivals
  <2>6. QED
    BY <2>1, <2>2, <2>4, <2>5 DEF ResidencyInv
<1>6. QED
  BY <1>1, <1>2, <1>3, <1>4, <1>5 DEF ResidencyNext

\* A set of which any two elements are one has at most one.
LEMMA AtMostOne ==
  ASSUME NEW S, \A x, y \in S : x = y PROVE Cardinality(S) <= 1
<1>1. CASE S = {}
  BY <1>1, FS_EmptySet
<1>2. CASE S # {}
  <2>1. PICK x \in S : TRUE
    BY <1>2
  <2>2. S = {x}
    BY <2>1
  <2>3. QED
    BY <2>2, FS_Singleton
<1>3. QED
  BY <1>1, <1>2

(***************************************************************************)
(* Creations, edits, reactivations and deletions of any number of rows     *)
(* leave a villa with one open-ended active owner at most, and with no two *)
(* active tenants on a day, unless two requests validated at once.         *)
(***************************************************************************)
THEOREM ResidentsApart == ResidencySpec => []OneResidentAtATime
<1>1. ResidencyInv => OneResidentAtATime
  <2> SUFFICES ASSUME ResidencyInv, ~hasty PROVE OneResidentAtATime
    BY DEF OneResidentAtATime
  <2> DEFINE Owners == {h \in ActiveOf("OWNER") : residence[h].end = OpenEnd}
  <2>1. AllApart
    BY DEF ResidencyInv
  <2>2. ASSUME NEW kind \in {"OWNER", "TENANT"}, NEW h \in ActiveOf(kind)
        PROVE  h \in Homes /\ residence[h].kind = kind /\ Current(residence[h])
    <3>1. h \in Homes /\ residence[h].kind = kind
      BY DEF ActiveOf
    <3>2. residence[h] # Vacant
      BY <3>1 DEF Vacant
    <3>3. residence[h].is_active
      BY Zenon DEF ActiveOf
    <3>4. QED
      BY <3>1, <3>2, <3>3, Zenon DEF Current
  <2>3. \A g, h \in Owners : g = h
    BY <2>1, <2>2 DEF AllApart, Apart, OwnsOn
  <2>4. Cardinality(Owners) <= 1
    BY <2>3, AtMostOne
  <2>5. ASSUME NEW g \in ActiveOf("TENANT"), NEW h \in ActiveOf("TENANT"), g # h
        PROVE  residence[g].end < residence[h].start \/ residence[h].end < residence[g].start
    <3>1. ~has_date_overlap(residence[g], residence[h])
      BY <2>1, <2>2, <2>5 DEF AllApart, Apart, Rivals
    <3>2. residence[g] \in ResidenceRow /\ residence[h] \in ResidenceRow
      BY <2>2 DEF ResidencyInv, ResidenceType, Current
    <3>3. QED
      BY <3>1, <3>2, ResidencyAssumption DEF has_date_overlap, ResidenceRow, OpenEnd
  <2>6. QED
    BY <2>4, <2>5 DEF OneResidentAtATime
<1>2. QED
  BY ResidencyInvInit, ResidencyInvStep, <1>1, PTL DEF ResidencySpec

-----------------------------------------------------------------------------
(***************************************************************************)
(* Proof that invitations complete, for any number of mobiles, townships,  *)
(* invitations and requests.                                               *)
(*                                                                         *)
(* The four writes of an acceptance are guarded by the first alone: the    *)
(* mobile of a user is unique, so one request gets past it, and how far it *)
(* is says what exists.                                                    *)
(***************************************************************************)

InviteRow == [mobile : Mobiles, township : Townships, is_used : BOOLEAN]
UserRow == [active : Townships \cup {NoTownship}]
InviteGuest == [op : {"invite"}, mobile : Mobiles, township : Townships]
AcceptGuest == [op : {"accept"}, mobile : Mobiles, township : Townships,
                invite : Invites, done : 0 .. 3]

\* How far an acceptance is, and what exists then.
Progress(g) ==
    guest[g].op = "accept" =>
       LET m == guest[g].mobile
           t == guest[g].township
           i == guest[g].invite
       IN  /\ invitation[i] # NoInvite
           /\ invitation[i].mobile = m /\ invitation[i].township = t
           /\ guest[g].done >= 1 => user[m] # NoUser
           /\ guest[g].done = 1 => \A s \in Townships : <<m, s>> \notin membership
           /\ guest[g].done >= 2 => <<m, t>> \in membership
           /\ guest[g].done = 3 => user[m].active \in Townships

Past(g, m) == guest[g].op = "accept" /\ guest[g].mobile = m /\ guest[g].done >= 1
OnePerMobile == \A m \in Mobiles, g, h \in Guests : Past(g, m) /\ Past(h, m) => g = h

Complete ==
    \A i \in Invites : invitation[i] # NoInvite /\ invitation[i].is_used =>
       /\ <<invitation[i].mobile, invitation[i].township>> \in membership
       /\ user[invitation[i].mobile].active \in Townships
Members ==
    \A m \in Mobiles, t \in Townships : <<m, t>> \in membership =>
       /\ user[m] # NoUser
       /\ \A s \in Townships : <<m, s>> \in membership => s = t
       /\ \E i \in Invites : /\ invitation[i] # NoInvite
                             /\ invitation[i].mobile = m /\ invitation[i].township = t
Actives ==
    \A m \in Mobiles : user[m] # NoUser => \/ user[m].active = NoTownship
                                           \/ <<m, user[m].active>> \in membership
AcceptInv == (\A g \in Guests : Progress(g)) /\ OnePerMobile /\ Complete /\ Members /\ Actives

\* Invitations of one mobile and township: one, or one in the making, unless they raced.
Inviting(g, m, t) == guest[g] = [op |-> "invite", mobile |-> m, township |-> t]
InviteInv ==
    \A m \in Mobiles, t \in Townships : <<m, t>> \notin twice =>
       /\ \A i, j \in OpenFor(m, t) : i = j
       /\ \A g \in Guests : Inviting(g, m, t) =>
             /\ OpenFor(m, t) = {}
             /\ \A h \in Guests : Inviting(h, m, t) => h = g

GuestInv == OnboardingTypeOK /\ AcceptInv /\ InviteInv

-----------------------------------------------------------------------------
(* The rows and the requests.                                              *)

LEMMA Rows ==
  ASSUME OnboardingTypeOK
  PROVE  /\ invitation \in [Invites -> InviteRow \cup {NoInvite}]
         /\ user \in [Mobiles -> UserRow \cup {NoUser}]
         /\ guest \in [Guests -> InviteGuest \cup AcceptGuest \cup {NoGuest}]
         /\ \A g \in Guests : guest[g].op = "accept" => guest[g] \in AcceptGuest
         /\ \A g \in Guests : guest[g].op = "invite" => guest[g] \in InviteGuest
  BY DEF OnboardingTypeOK, InviteRow, UserRow, InviteGuest, AcceptGuest, NoGuest

LEMMA RowsType ==
  ASSUME invitation' \in [Invites -> InviteRow \cup {NoInvite}],
         user' \in [Mobiles -> UserRow \cup {NoUser}],
         guest' \in [Guests -> InviteGuest \cup AcceptGuest \cup {NoGuest}],
         membership' \subseteq Mobiles \X Townships, twice' \subseteq Mobiles \X Townships
  PROVE  OnboardingTypeOK'
  BY DEF OnboardingTypeOK, InviteRow, UserRow, InviteGuest, AcceptGuest

\* A user with an active township is one.
LEMMA ActiveIsUser ==
  ASSUME NEW u, u = NoUser PROVE u.active \notin Townships
  BY OnboardingAssumption DEF NoUser

\* One of the four writes: the request is at its stage and moves on.
LEMMA Stage ==
  ASSUME OnboardingTypeOK, NEW g \in Guests, NEW step, Does(g, step)
  PROVE  /\ guest[g] \in AcceptGuest
         /\ step = "create_user" => guest[g].done = 0
         /\ step = "join" => guest[g].done = 1
         /\ step = "activate" => guest[g].done = 2
         /\ step = "use" => guest[g].done = 3
         /\ guest' \in [Guests -> InviteGuest \cup AcceptGuest \cup {NoGuest}]
         /\ \A h \in Guests \ {g} : guest'[h] = guest[h]
         /\ guest[g].done = 3 => guest'[g] = NoGuest
         /\ guest[g].done # 3 =>
               /\ guest'[g] \in AcceptGuest
               /\ guest'[g].mobile = guest[g].mobile /\ guest'[g].township = guest[g].township
               /\ guest'[g].invite = guest[g].invite /\ guest'[g].done = guest[g].done + 1
<1> DEFINE next == [guest[g] EXCEPT !.done = @ + 1]
<1>1. guest[g] \in AcceptGuest /\ guest \in [Guests -> InviteGuest \cup AcceptGuest \cup {NoGuest}]
  BY Rows DEF Does
<1>2. guest[g].done \in 0 .. 3
  BY <1>1 DEF AcceptGuest
<1>3. /\ AcceptOrder[guest[g].done + 1] = step
      /\ guest' = [guest EXCEPT ![g] = IF guest[g].done = 3 THEN NoGuest ELSE next]
  <2>1. Len(AcceptOrder) = 4
    BY DEF AcceptOrder
  <2>2. guest[g].done + 1 = 4 <=> guest[g].done = 3
    BY <1>2
  <2>3. QED
    BY <2>1, <2>2 DEF Does
<1>4. /\ step = "create_user" => guest[g].done = 0
      /\ step = "join" => guest[g].done = 1
      /\ step = "activate" => guest[g].done = 2
      /\ step = "use" => guest[g].done = 3
  BY <1>2, <1>3 DEF AcceptOrder
<1>5. guest[g].done # 3 =>
         /\ next \in AcceptGuest /\ next.mobile = guest[g].mobile /\ next.township = guest[g].township
         /\ next.invite = guest[g].invite /\ next.done = guest[g].done + 1
  BY <1>1, <1>2 DEF AcceptGuest
<1> HIDE DEF next
<1>6. QED
  BY <1>1, <1>3, <1>4, <1>5

\* Steps that open no invitation and begin none.
LEMMA InviteKept ==
  ASSUME InviteInv, twice' = twice,
         \A m \in Mobiles, t \in Townships : OpenFor(m, t)' \subseteq OpenFor(m, t),
         \A g \in Guests : guest'[g] = guest[g] \/ guest'[g].op # "invite"
  PROVE  InviteInv'
<1>1. \A g \in Guests : \A m, t : Inviting(g, m, t)' => Inviting(g, m, t)
  BY DEF Inviting
<1>2. QED
  BY <1>1 DEF InviteInv

LEMMA OpenForKept ==
  ASSUME invitation' = invitation
  PROVE  \A m, t : OpenFor(m, t)' = OpenFor(m, t)
  BY DEF OpenFor

-----------------------------------------------------------------------------
(* The steps.                                                              *)

LEMMA create_userInv ==
  ASSUME GuestInv, NEW g \in Guests, NEW m \in Mobiles, m = guest[g].mobile, create_user(g)
  PROVE  GuestInv'
<1>0. OnboardingTypeOK /\ AcceptInv /\ InviteInv
  BY DEF GuestInv
<1>1. /\ Does(g, "create_user") /\ user[m] = NoUser
      /\ user' = [user EXCEPT ![m] = [active |-> NoTownship]]
      /\ UNCHANGED <<invitation, membership, twice>>
  BY DEF create_user
<1>2. /\ guest[g] \in AcceptGuest /\ guest[g].done = 0
      /\ guest' \in [Guests -> InviteGuest \cup AcceptGuest \cup {NoGuest}]
      /\ \A h \in Guests \ {g} : guest'[h] = guest[h]
      /\ guest'[g] \in AcceptGuest
      /\ guest'[g].mobile = m /\ guest'[g].township = guest[g].township
      /\ guest'[g].invite = guest[g].invite /\ guest'[g].done = 1
  BY <1>0, <1>1, Stage
<1>3. user' \in [Mobiles -> UserRow \cup {NoUser}]
  BY <1>0, <1>1, Rows DEF UserRow
<1>4. /\ user'[m].active = NoTownship /\ user'[m] # NoUser
      /\ \A n \in Mobiles \ {m} : user'[n] = user[n]
  <2>1. user'[m] = [active |-> NoTownship] /\ \A n \in Mobiles \ {m} : user'[n] = user[n]
    BY <1>0, <1>1, Rows
  <2>2. QED
    BY <2>1, OnboardingAssumption DEF NoUser
<1>5. OnboardingTypeOK'
  <2>1. membership' \subseteq Mobiles \X Townships /\ twice' \subseteq Mobiles \X Townships
    BY <1>0, <1>1 DEF OnboardingTypeOK
  <2>2. QED
    BY <1>0, <1>1, <1>2, <1>3, <2>1, Rows, RowsType
<1>6. \A t \in Townships : <<m, t>> \notin membership
  BY <1>0, <1>1 DEF AcceptInv, Members
<1>7. \A h \in Guests : ~Past(h, m)
  BY <1>0, <1>1 DEF AcceptInv, Progress, Past
<1>8. ASSUME NEW h \in Guests PROVE Progress(h)'
  <2>1. CASE h = g
    BY <1>0, <1>1, <1>2, <1>4, <1>6, <2>1 DEF AcceptInv, Progress, AcceptGuest
  <2>2. CASE h # g /\ guest[h].op = "accept"
    <3>1. guest[h] \in AcceptGuest /\ guest[h].mobile \in Mobiles /\ guest[h].done \in 0 .. 3
      BY <1>0, <2>2, Rows DEF AcceptGuest
    <3>2. CASE guest[h].mobile = m
      <4>1. guest[h].done = 0
        BY <1>7, <2>2, <3>1, <3>2 DEF Past
      <4>2. QED
        BY <1>0, <1>1, <1>2, <2>2, <4>1 DEF AcceptInv, Progress
    <3>3. CASE guest[h].mobile # m
      BY <1>0, <1>1, <1>2, <1>4, <2>2, <3>1, <3>3 DEF AcceptInv, Progress
    <3>4. QED
      BY <3>2, <3>3
  <2>3. CASE h # g /\ guest[h].op # "accept"
    BY <1>2, <2>3 DEF Progress
  <2>4. QED
    BY <2>1, <2>2, <2>3
<1>9. OnePerMobile'
  <2> SUFFICES ASSUME NEW n \in Mobiles, NEW h \in Guests, NEW k \in Guests, Past(h, n)', Past(k, n)'
               PROVE  h = k
    BY DEF OnePerMobile
  <2>1. n # m => Past(h, n) /\ Past(k, n)
    BY <1>2 DEF Past
  <2>2. n = m => h = g /\ k = g
    BY <1>2, <1>7 DEF Past
  <2>3. QED
    BY <1>0, <2>1, <2>2 DEF AcceptInv, OnePerMobile
<1>10. Complete'
  <2>1. user[m].active \notin Townships
    BY <1>1, ActiveIsUser
  <2>2. \A i \in Invites : invitation[i] # NoInvite => invitation[i].mobile \in Mobiles
    BY <1>0, Rows DEF InviteRow
  <2>3. QED
    BY <1>0, <1>1, <1>4, <2>1, <2>2 DEF AcceptInv, Complete
<1>11. Members'
  BY <1>0, <1>1, <1>4 DEF AcceptInv, Members
<1>12. Actives'
  BY <1>0, <1>1, <1>4 DEF AcceptInv, Actives
<1>13. InviteInv'
  BY <1>0, <1>1, <1>2, InviteKept, OpenForKept DEF AcceptGuest
<1>14. QED
  BY <1>5, <1>8, <1>9, <1>10, <1>11, <1>12, <1>13 DEF GuestInv, AcceptInv

\* The last three writes are past the first: no other request of the mobile is.
LEMMA PastAlone ==
  ASSUME GuestInv, NEW g \in Guests, guest[g] \in AcceptGuest, guest[g].done >= 1,
         NEW m \in Mobiles, m = guest[g].mobile, NEW h \in Guests \ {g}
  PROVE  ~Past(h, m)
  BY DEF GuestInv, AcceptInv, OnePerMobile, Past, AcceptGuest

LEMMA PastKept ==
  ASSUME GuestInv, NEW g \in Guests,
         \A h \in Guests \ {g} : guest'[h] = guest[h],
         \A m \in Mobiles : Past(g, m)' => Past(g, m)
  PROVE  OnePerMobile'
<1>1. \A h \in Guests, m \in Mobiles : Past(h, m)' => Past(h, m)
  BY DEF Past
<1>2. QED
  BY <1>1 DEF GuestInv, AcceptInv, OnePerMobile

LEMMA JoinTownshipInv ==
  ASSUME GuestInv, NEW g \in Guests, NEW m \in Mobiles, m = guest[g].mobile,
         NEW t \in Townships, t = guest[g].township, JoinTownship(g)
  PROVE  GuestInv'
<1>0. OnboardingTypeOK /\ AcceptInv /\ InviteInv
  BY DEF GuestInv
<1>1. /\ Does(g, "join") /\ membership' = membership \cup {<<m, t>>}
      /\ UNCHANGED <<invitation, user, twice>>
  BY DEF JoinTownship
<1>2. /\ guest[g] \in AcceptGuest /\ guest[g].done = 1
      /\ guest' \in [Guests -> InviteGuest \cup AcceptGuest \cup {NoGuest}]
      /\ \A h \in Guests \ {g} : guest'[h] = guest[h]
      /\ guest'[g] \in AcceptGuest
      /\ guest'[g].mobile = m /\ guest'[g].township = t
      /\ guest'[g].invite = guest[g].invite /\ guest'[g].done = 2
  BY <1>0, <1>1, Stage
<1>3. guest[g].op = "accept" /\ guest'[g].op = "accept" /\ guest[g].invite \in Invites
  BY <1>2 DEF AcceptGuest
<1>4. /\ user[m] # NoUser /\ \A s \in Townships : <<m, s>> \notin membership
      /\ invitation[guest[g].invite] # NoInvite
      /\ invitation[guest[g].invite].mobile = m /\ invitation[guest[g].invite].township = t
  <2>1. Progress(g)
    BY <1>0 DEF AcceptInv
  <2>2. guest[g].done = 1
    BY <1>2
  <2>3. QED
    BY <1>3, <2>1, <2>2 DEF Progress
<1>5. OnboardingTypeOK'
  <2>1. membership' \subseteq Mobiles \X Townships /\ twice' \subseteq Mobiles \X Townships
    BY <1>0, <1>1 DEF OnboardingTypeOK
  <2>2. QED
    BY <1>0, <1>1, <1>2, <2>1, Rows, RowsType
<1>6. ASSUME NEW h \in Guests PROVE Progress(h)'
  <2>1. CASE h = g
    BY <1>1, <1>2, <1>4, <2>1 DEF Progress
  <2>2. CASE h # g /\ guest[h].op = "accept"
    <3>1. guest[h] \in AcceptGuest /\ guest[h].mobile \in Mobiles /\ guest[h].done \in 0 .. 3
      BY <1>0, <2>2, Rows DEF AcceptGuest
    <3>2. guest[h].done = 1 => guest[h].mobile # m
      BY <1>2, <2>2, <3>1, PastAlone DEF Past
    <3>3. QED
      BY <1>0, <1>1, <1>2, <2>2, <3>1, <3>2 DEF AcceptInv, Progress
  <2>3. CASE h # g /\ guest[h].op # "accept"
    BY <1>2, <2>3 DEF Progress
  <2>4. QED
    BY <2>1, <2>2, <2>3
<1>7. OnePerMobile'
  BY <1>2, <1>3, PastKept DEF Past
<1>8. Complete'
  BY <1>0, <1>1 DEF AcceptInv, Complete
<1>9. Members'
  <2> SUFFICES ASSUME NEW n \in Mobiles, NEW s \in Townships, <<n, s>> \in membership'
               PROVE  /\ user'[n] # NoUser
                      /\ \A r \in Townships : <<n, r>> \in membership' => r = s
                      /\ \E i \in Invites : /\ invitation'[i] # NoInvite
                                            /\ invitation'[i].mobile = n /\ invitation'[i].township = s
    BY DEF Members
  <2>1. CASE n = m
    <3>1. s = t /\ \A r \in Townships : <<n, r>> \in membership' => r = t
      BY <1>1, <1>4, <2>1
    <3>2. QED
      BY <1>1, <1>3, <1>4, <2>1, <3>1
  <2>2. CASE n # m
    <3>1. \A r \in Townships : <<n, r>> \in membership' <=> <<n, r>> \in membership
      BY <1>1, <2>2
    <3>2. QED
      BY <1>0, <1>1, <3>1 DEF AcceptInv, Members
  <2>3. QED
    BY <2>1, <2>2
<1>10. Actives'
  BY <1>0, <1>1 DEF AcceptInv, Actives
<1>11. InviteInv'
  BY <1>0, <1>1, <1>2, <1>3, InviteKept, OpenForKept
<1>12. QED
  BY <1>5, <1>6, <1>7, <1>8, <1>9, <1>10, <1>11 DEF GuestInv, AcceptInv

\* A user's active township becomes one the user is a member of, by Activate or by choice.
LEMMA ActiveChanged ==
  ASSUME GuestInv, NEW m \in Mobiles, NEW t \in Townships, <<m, t>> \in membership,
         user' = [user EXCEPT ![m].active = t], UNCHANGED <<invitation, membership, twice>>
  PROVE  /\ user' \in [Mobiles -> UserRow \cup {NoUser}]
         /\ user'[m].active \in Townships
         /\ \A n \in Mobiles : user[n] # NoUser => user'[n] # NoUser
         /\ \A n \in Mobiles : user[n].active \in Townships => user'[n].active \in Townships
         /\ Complete' /\ Members' /\ Actives'
<1>0. OnboardingTypeOK /\ AcceptInv
  BY DEF GuestInv
<1>1. user[m] \in UserRow
  BY <1>0, Rows DEF AcceptInv, Members
<1>2. user'[m] = [active |-> t] /\ \A n \in Mobiles \ {m} : user'[n] = user[n]
  BY <1>0, <1>1, Rows DEF UserRow
<1>3. user'[m].active = t /\ user'[m] # NoUser
  BY <1>2, OnboardingAssumption DEF NoUser
<1>4. user' \in [Mobiles -> UserRow \cup {NoUser}]
  <2>1. [active |-> t] \in UserRow
    BY DEF UserRow
  <2>2. user' = [user EXCEPT ![m] = [user[m] EXCEPT !.active = t]]
    OBVIOUS
  <2>3. QED
    BY <1>0, <1>2, <2>1, <2>2, Rows
<1>5. /\ \A n \in Mobiles : user[n] # NoUser => user'[n] # NoUser
      /\ \A n \in Mobiles : user[n].active \in Townships => user'[n].active \in Townships
  BY <1>2, <1>3
<1>6. Complete'
  <2>1. \A i \in Invites : invitation[i] # NoInvite => invitation[i].mobile \in Mobiles
    BY <1>0, Rows DEF InviteRow
  <2>2. QED
    BY <1>0, <1>5, <2>1 DEF AcceptInv, Complete
<1>7. Members'
  BY <1>0, <1>5 DEF AcceptInv, Members
<1>8. Actives'
  BY <1>0, <1>2, <1>3 DEF AcceptInv, Actives
<1>9. QED
  BY <1>3, <1>4, <1>5, <1>6, <1>7, <1>8

LEMMA ActivateInv ==
  ASSUME GuestInv, NEW g \in Guests, NEW m \in Mobiles, m = guest[g].mobile,
         NEW t \in Townships, t = guest[g].township, Activate(g)
  PROVE  GuestInv'
<1>0. OnboardingTypeOK /\ AcceptInv /\ InviteInv
  BY DEF GuestInv
<1>1. /\ Does(g, "activate") /\ user' = [user EXCEPT ![m].active = t]
      /\ UNCHANGED <<invitation, membership, twice>>
  BY DEF Activate
<1>2. /\ guest[g] \in AcceptGuest /\ guest[g].done = 2
      /\ guest' \in [Guests -> InviteGuest \cup AcceptGuest \cup {NoGuest}]
      /\ \A h \in Guests \ {g} : guest'[h] = guest[h]
      /\ guest'[g] \in AcceptGuest
      /\ guest'[g].mobile = m /\ guest'[g].township = t
      /\ guest'[g].invite = guest[g].invite /\ guest'[g].done = 3
  BY <1>0, <1>1, Stage
<1>3. guest[g].op = "accept" /\ guest'[g].op = "accept"
  BY <1>2 DEF AcceptGuest
<1>4. /\ user[m] # NoUser /\ <<m, t>> \in membership
      /\ invitation[guest[g].invite] # NoInvite
      /\ invitation[guest[g].invite].mobile = m /\ invitation[guest[g].invite].township = t
  BY <1>0, <1>2, <1>3 DEF AcceptInv, Progress
<1>5. /\ user' \in [Mobiles -> UserRow \cup {NoUser}] /\ user'[m].active \in Townships
      /\ \A n \in Mobiles : user[n] # NoUser => user'[n] # NoUser
      /\ \A n \in Mobiles : user[n].active \in Townships => user'[n].active \in Townships
      /\ Complete' /\ Members' /\ Actives'
  BY <1>1, <1>4, ActiveChanged
<1>6. OnboardingTypeOK'
  <2>1. membership' \subseteq Mobiles \X Townships /\ twice' \subseteq Mobiles \X Townships
    BY <1>0, <1>1 DEF OnboardingTypeOK
  <2>2. QED
    BY <1>0, <1>1, <1>2, <1>5, <2>1, Rows, RowsType
<1>7. ASSUME NEW h \in Guests PROVE Progress(h)'
  <2>1. CASE h = g
    BY <1>1, <1>2, <1>4, <1>5, <2>1 DEF Progress
  <2>2. CASE h # g /\ guest[h].op = "accept"
    <3>1. guest[h].mobile \in Mobiles
      BY <1>0, <2>2, Rows DEF AcceptGuest
    <3>2. QED
      BY <1>0, <1>1, <1>2, <1>5, <2>2, <3>1 DEF AcceptInv, Progress
  <2>3. CASE h # g /\ guest[h].op # "accept"
    BY <1>2, <2>3 DEF Progress
  <2>4. QED
    BY <2>1, <2>2, <2>3
<1>8. OnePerMobile'
  BY <1>2, <1>3, PastKept DEF Past
<1>9. InviteInv'
  BY <1>0, <1>1, <1>2, <1>3, InviteKept, OpenForKept
<1>10. QED
  BY <1>5, <1>6, <1>7, <1>8, <1>9 DEF GuestInv, AcceptInv

LEMMA SetActiveTownshipInv ==
  ASSUME GuestInv, NEW m \in Mobiles, NEW t \in Townships, SetActiveTownship(m, t)
  PROVE  GuestInv'
<1>0. OnboardingTypeOK /\ AcceptInv /\ InviteInv
  BY DEF GuestInv
<1>1. /\ <<m, t>> \in membership /\ user' = [user EXCEPT ![m].active = t]
      /\ UNCHANGED <<invitation, membership, guest, twice>>
  BY DEF SetActiveTownship
<1>2. /\ user' \in [Mobiles -> UserRow \cup {NoUser}]
      /\ \A n \in Mobiles : user[n] # NoUser => user'[n] # NoUser
      /\ \A n \in Mobiles : user[n].active \in Townships => user'[n].active \in Townships
      /\ Complete' /\ Members' /\ Actives'
  BY <1>1, ActiveChanged
<1>3. OnboardingTypeOK'
  <2>1. membership' \subseteq Mobiles \X Townships /\ twice' \subseteq Mobiles \X Townships
    BY <1>0, <1>1 DEF OnboardingTypeOK
  <2>2. QED
    BY <1>0, <1>1, <1>2, <2>1, Rows, RowsType
<1>4. ASSUME NEW h \in Guests PROVE Progress(h)'
  <2>1. CASE guest[h].op = "accept"
    <3>1. guest[h].mobile \in Mobiles
      BY <1>0, <2>1, Rows DEF AcceptGuest
    <3>2. QED
      BY <1>0, <1>1, <1>2, <2>1, <3>1 DEF AcceptInv, Progress
  <2>2. CASE guest[h].op # "accept"
    BY <1>1, <2>2 DEF Progress
  <2>3. QED
    BY <2>1, <2>2
<1>5. OnePerMobile'
  BY <1>0, <1>1 DEF AcceptInv, OnePerMobile, Past
<1>6. InviteInv'
  BY <1>0, <1>1, InviteKept, OpenForKept
<1>7. QED
  BY <1>2, <1>3, <1>4, <1>5, <1>6 DEF GuestInv, AcceptInv

LEMMA UseInvitationInv ==
  ASSUME GuestInv, NEW g \in Guests, NEW i \in Invites, i = guest[g].invite, UseInvitation(g)
  PROVE  GuestInv'
<1>0. OnboardingTypeOK /\ AcceptInv /\ InviteInv
  BY DEF GuestInv
<1>1. /\ Does(g, "use") /\ invitation' = [invitation EXCEPT ![i].is_used = TRUE]
      /\ UNCHANGED <<user, membership, twice>>
  BY DEF UseInvitation
<1>2. /\ guest[g] \in AcceptGuest /\ guest[g].done = 3
      /\ guest' \in [Guests -> InviteGuest \cup AcceptGuest \cup {NoGuest}]
      /\ \A h \in Guests \ {g} : guest'[h] = guest[h]
      /\ guest'[g] = NoGuest
  BY <1>0, <1>1, Stage
<1>3. guest[g].op = "accept" /\ guest'[g].op = "none"
  BY <1>2 DEF AcceptGuest, NoGuest
<1>4. /\ invitation[i] # NoInvite
      /\ <<invitation[i].mobile, invitation[i].township>> \in membership
      /\ user[invitation[i].mobile].active \in Townships
  <2>1. Progress(g)
    BY <1>0 DEF AcceptInv
  <2>2. guest[g].done = 3 /\ guest[g].done >= 2
    BY <1>2
  <2>3. QED
    BY <1>3, <2>1, <2>2 DEF Progress
<1>5. invitation[i] \in InviteRow
  BY <1>0, <1>4, Rows
<1>6. /\ invitation'[i] \in InviteRow /\ invitation'[i].is_used
      /\ invitation'[i].mobile = invitation[i].mobile
      /\ invitation'[i].township = invitation[i].township
      /\ \A j \in Invites \ {i} : invitation'[j] = invitation[j]
      /\ invitation' \in [Invites -> InviteRow \cup {NoInvite}]
  <2> DEFINE row == [invitation[i] EXCEPT !.is_used = TRUE]
  <2>1. /\ row \in InviteRow /\ row.is_used /\ row.mobile = invitation[i].mobile
        /\ row.township = invitation[i].township
    BY <1>5 DEF InviteRow
  <2>2. invitation' = [invitation EXCEPT ![i] = row]
    BY <1>1
  <2> HIDE DEF row
  <2>3. QED
    BY <1>0, <2>1, <2>2, Rows
<1>7. \A j \in Invites : invitation[j] # NoInvite =>
         /\ invitation'[j] # NoInvite
         /\ invitation'[j].mobile = invitation[j].mobile
         /\ invitation'[j].township = invitation[j].township
  <2>1. NoInvite \notin InviteRow
    BY DEF NoInvite, InviteRow
  <2>2. QED
    BY <1>6, <2>1
<1>8. OnboardingTypeOK'
  <2>1. membership' \subseteq Mobiles \X Townships /\ twice' \subseteq Mobiles \X Townships
    BY <1>0, <1>1 DEF OnboardingTypeOK
  <2>2. QED
    BY <1>0, <1>1, <1>2, <1>6, <2>1, Rows, RowsType
<1>9. ASSUME NEW h \in Guests PROVE Progress(h)'
  <2>1. CASE h # g /\ guest[h].op = "accept"
    <3>1. guest[h].invite \in Invites
      BY <1>0, <2>1, Rows DEF AcceptGuest
    <3>2. QED
      BY <1>0, <1>1, <1>2, <1>7, <2>1, <3>1 DEF AcceptInv, Progress
  <2>2. CASE h # g /\ guest[h].op # "accept"
    BY <1>2, <2>2 DEF Progress
  <2>3. CASE h = g
    BY <1>3, <2>3 DEF Progress
  <2>4. QED
    BY <2>1, <2>2, <2>3
<1>10. OnePerMobile'
  BY <1>2, <1>3, PastKept DEF Past
<1>11. Complete'
  BY <1>0, <1>1, <1>4, <1>6 DEF AcceptInv, Complete
<1>12. Members'
  BY <1>0, <1>1, <1>7 DEF AcceptInv, Members
<1>13. Actives'
  BY <1>0, <1>1 DEF AcceptInv, Actives
<1>14. InviteInv'
  <2>1. \A n \in Mobiles, t \in Townships : OpenFor(n, t)' \subseteq OpenFor(n, t)
    BY <1>6 DEF OpenFor
  <2>2. \A h \in Guests : guest'[h] = guest[h] \/ guest'[h].op # "invite"
    BY <1>2, <1>3
  <2>3. QED
    BY <1>0, <1>1, <2>1, <2>2, InviteKept
<1>15. QED
  BY <1>8, <1>9, <1>10, <1>11, <1>12, <1>13, <1>14 DEF GuestInv, AcceptInv

\* A request begins or ends, and writes nothing about users.
LEMMA RequestChanged ==
  ASSUME GuestInv, NEW g \in Guests, UNCHANGED <<invitation, user, membership>>,
         \A h \in Guests \ {g} : guest'[h] = guest[h],
         guest'[g].op = "accept" => guest'[g].done = 0, Progress(g)'
  PROVE  AcceptInv'
<1>0. AcceptInv
  BY DEF GuestInv
<1>1. ASSUME NEW h \in Guests PROVE Progress(h)'
  <2>1. h # g => Progress(h) /\ guest'[h] = guest[h]
    BY <1>0 DEF AcceptInv
  <2>2. QED
    BY <2>1 DEF Progress
<1>2. OnePerMobile'
  BY PastKept DEF Past
<1>3. Complete' /\ Members' /\ Actives'
  BY <1>0 DEF AcceptInv, Complete, Members, Actives
<1>4. QED
  BY <1>1, <1>2, <1>3 DEF AcceptInv

LEMMA GuestLeavesInv ==
  ASSUME GuestInv, NEW g \in Guests, GuestLeaves(g)
  PROVE  GuestInv'
<1>0. OnboardingTypeOK /\ InviteInv
  BY DEF GuestInv
<1>1. /\ guest' = [guest EXCEPT ![g] = NoGuest]
      /\ UNCHANGED <<invitation, user, membership, twice>>
  BY DEF GuestLeaves
<1>2. /\ guest' \in [Guests -> InviteGuest \cup AcceptGuest \cup {NoGuest}]
      /\ guest'[g].op = "none" /\ \A h \in Guests \ {g} : guest'[h] = guest[h]
  <2>1. guest'[g] = NoGuest
    BY <1>0, <1>1, Rows
  <2>2. QED
    BY <1>0, <1>1, <2>1, Rows DEF NoGuest
<1>3. OnboardingTypeOK'
  <2>1. membership' \subseteq Mobiles \X Townships /\ twice' \subseteq Mobiles \X Townships
    BY <1>0, <1>1 DEF OnboardingTypeOK
  <2>2. QED
    BY <1>0, <1>1, <1>2, <2>1, Rows, RowsType
<1>4. Progress(g)'
  BY <1>2 DEF Progress
<1>5. AcceptInv'
  BY <1>1, <1>2, <1>4, RequestChanged
<1>6. InviteInv'
  BY <1>0, <1>1, <1>2, InviteKept, OpenForKept
<1>7. QED
  BY <1>3, <1>5, <1>6 DEF GuestInv

LEMMA CheckInviteInv ==
  ASSUME GuestInv, NEW g \in Guests, CheckInvite(g)
  PROVE  GuestInv'
<1>0. OnboardingTypeOK /\ InviteInv
  BY DEF GuestInv
<1>1. PICK i \in Invites :
         /\ ~invitation[i].is_used
         /\ guest' = [guest EXCEPT ![g] = [op |-> "accept", invite |-> i, done |-> 0,
                            mobile |-> invitation[i].mobile, township |-> invitation[i].township]]
  BY DEF CheckInvite
<1>2. UNCHANGED <<invitation, user, membership, twice>>
  BY DEF CheckInvite
<1>3. invitation[i] # NoInvite /\ invitation[i] \in InviteRow
  BY <1>0, <1>1, Rows DEF NoInvite
<1> DEFINE new == [op |-> "accept", invite |-> i, done |-> 0,
                   mobile |-> invitation[i].mobile, township |-> invitation[i].township]
<1>4. /\ new \in AcceptGuest /\ new.op = "accept" /\ new.done = 0 /\ new.invite = i
      /\ new.mobile = invitation[i].mobile /\ new.township = invitation[i].township
  BY <1>3 DEF AcceptGuest, InviteRow
<1>5. guest' = [guest EXCEPT ![g] = new]
  BY <1>1
<1> HIDE DEF new
<1>6. /\ guest' \in [Guests -> InviteGuest \cup AcceptGuest \cup {NoGuest}]
      /\ guest'[g] = new /\ \A h \in Guests \ {g} : guest'[h] = guest[h]
  BY <1>0, <1>4, <1>5, Rows
<1>7. OnboardingTypeOK'
  <2>1. membership' \subseteq Mobiles \X Townships /\ twice' \subseteq Mobiles \X Townships
    BY <1>0, <1>2 DEF OnboardingTypeOK
  <2>2. QED
    BY <1>0, <1>2, <1>6, <2>1, Rows, RowsType
<1>8. Progress(g)'
  BY <1>2, <1>3, <1>4, <1>6 DEF Progress
<1>9. AcceptInv'
  BY <1>2, <1>4, <1>6, <1>8, RequestChanged
<1>10. InviteInv'
  <2>1. \A h \in Guests : guest'[h] = guest[h] \/ guest'[h].op # "invite"
    BY <1>4, <1>6
  <2>2. QED
    BY <1>0, <1>2, <2>1, InviteKept, OpenForKept
<1>11. QED
  BY <1>7, <1>9, <1>10 DEF GuestInv

LEMMA ValidateInvitationInv ==
  ASSUME GuestInv, NEW g \in Guests, ValidateInvitation(g)
  PROVE  GuestInv'
<1>0. OnboardingTypeOK /\ InviteInv
  BY DEF GuestInv
<1>1. PICK m \in Mobiles, t \in Townships :
         /\ OpenFor(m, t) = {}
         /\ guest' = [guest EXCEPT ![g] = [op |-> "invite", mobile |-> m, township |-> t]]
         /\ twice' = IF \E h \in Guests : guest[h] = guest'[g] THEN twice \cup {<<m, t>>} ELSE twice
  BY DEF ValidateInvitation
<1>2. guest[g] = NoGuest /\ UNCHANGED <<invitation, user, membership>>
  BY DEF ValidateInvitation
<1> DEFINE new == [op |-> "invite", mobile |-> m, township |-> t]
<1>3. new \in InviteGuest /\ new.op = "invite"
  BY DEF InviteGuest
<1>4. \A n, s : new = [op |-> "invite", mobile |-> n, township |-> s] => n = m /\ s = t
  OBVIOUS
<1>5. guest' = [guest EXCEPT ![g] = new] /\ (Inviting(g, m, t) <=> guest[g] = new)
  BY <1>1 DEF Inviting
<1>6. \A h : Inviting(h, m, t) <=> guest[h] = new
  BY DEF Inviting
<1>7. \A h \in Guests : \A n, s : guest'[h] = new /\ Inviting(h, n, s)' => n = m /\ s = t
  BY <1>4 DEF Inviting
<1> HIDE DEF new
<1>8. /\ guest' \in [Guests -> InviteGuest \cup AcceptGuest \cup {NoGuest}]
      /\ guest'[g] = new /\ \A h \in Guests \ {g} : guest'[h] = guest[h]
  BY <1>0, <1>3, <1>5, Rows
<1>9. /\ twice' \subseteq Mobiles \X Townships /\ twice \subseteq twice'
      /\ <<m, t>> \notin twice' => \A h \in Guests : guest[h] # new
  BY <1>0, <1>1, <1>8 DEF OnboardingTypeOK
<1>10. OnboardingTypeOK'
  <2>1. membership' \subseteq Mobiles \X Townships
    BY <1>0, <1>2 DEF OnboardingTypeOK
  <2>2. QED
    BY <1>0, <1>2, <1>8, <1>9, <2>1, Rows, RowsType
<1>11. Progress(g)'
  BY <1>3, <1>8 DEF Progress
<1>12. AcceptInv'
  BY <1>2, <1>3, <1>8, <1>11, RequestChanged
<1>13. InviteInv'
  <2> SUFFICES ASSUME NEW n \in Mobiles, NEW s \in Townships, <<n, s>> \notin twice'
               PROVE  /\ \A i, j \in OpenFor(n, s)' : i = j
                      /\ \A h \in Guests : Inviting(h, n, s)' =>
                            /\ OpenFor(n, s)' = {}
                            /\ \A k \in Guests : Inviting(k, n, s)' => k = h
    BY DEF InviteInv
  <2>1. OpenFor(n, s)' = OpenFor(n, s) /\ <<n, s>> \notin twice
    BY <1>2, <1>9, OpenForKept
  <2>2. \A h \in Guests \ {g} : Inviting(h, n, s)' <=> Inviting(h, n, s)
    BY <1>8 DEF Inviting
  <2>3. CASE n = m /\ s = t
    <3>1. \A h \in Guests : ~Inviting(h, n, s)
      BY <1>6, <1>9, <2>3
    <3>2. QED
      BY <1>1, <2>1, <2>2, <2>3, <3>1
  <2>4. CASE ~(n = m /\ s = t)
    <3>1. ~Inviting(g, n, s)'
      BY <1>7, <1>8, <2>4
    <3>2. QED
      BY <1>0, <2>1, <2>2, <3>1 DEF InviteInv
  <2>5. QED
    BY <2>3, <2>4
<1>14. QED
  BY <1>10, <1>12, <1>13 DEF GuestInv

LEMMA CreateInvitationInv ==
  ASSUME GuestInv, NEW g \in Guests, CreateInvitation(g)
  PROVE  GuestInv'
<1>0. OnboardingTypeOK /\ AcceptInv /\ InviteInv
  BY DEF GuestInv
<1> DEFINE m == guest[g].mobile
           t == guest[g].township
           row == [mobile |-> m, township |-> t, is_used |-> FALSE]
<1>1. PICK i \in Invites : invitation[i] = NoInvite /\ invitation' = [invitation EXCEPT ![i] = row]
  BY DEF CreateInvitation
<1>2. /\ guest[g].op = "invite" /\ guest' = [guest EXCEPT ![g] = NoGuest]
      /\ UNCHANGED <<user, membership, twice>>
  BY DEF CreateInvitation
<1>3. guest[g] \in InviteGuest
  BY <1>0, <1>2, Rows
<1>4. m \in Mobiles /\ t \in Townships /\ Inviting(g, m, t)
  BY <1>3 DEF InviteGuest, Inviting
<1>5. /\ row \in InviteRow /\ row.mobile = m /\ row.township = t /\ ~row.is_used
      /\ NoInvite \notin InviteRow /\ NoInvite.is_used
  BY <1>4 DEF InviteRow, NoInvite
<1>6. /\ invitation' \in [Invites -> InviteRow \cup {NoInvite}]
      /\ invitation'[i] = row /\ \A j \in Invites \ {i} : invitation'[j] = invitation[j]
  <2> HIDE DEF row
  <2>1. QED
    BY <1>0, <1>1, <1>5, Rows
<1>7. /\ guest' \in [Guests -> InviteGuest \cup AcceptGuest \cup {NoGuest}]
      /\ guest'[g].op = "none" /\ \A h \in Guests \ {g} : guest'[h] = guest[h]
  <2>1. guest'[g] = NoGuest
    BY <1>0, <1>2, Rows
  <2>2. QED
    BY <1>0, <1>2, <2>1, Rows DEF NoGuest
<1>8. OnboardingTypeOK'
  <2>1. membership' \subseteq Mobiles \X Townships /\ twice' \subseteq Mobiles \X Townships
    BY <1>0, <1>2 DEF OnboardingTypeOK
  <2>2. QED
    BY <1>0, <1>2, <1>6, <1>7, <2>1, Rows, RowsType
<1>9. \A j \in Invites : invitation[j] # NoInvite => j # i /\ invitation'[j] = invitation[j]
  BY <1>1, <1>6
<1>10. ASSUME NEW h \in Guests PROVE Progress(h)'
  <2>1. CASE h # g /\ guest[h].op = "accept"
    <3>1. guest[h].invite \in Invites
      BY <1>0, <2>1, Rows DEF AcceptGuest
    <3>2. Progress(h)
      BY <1>0 DEF AcceptInv
    <3>3. invitation'[guest[h].invite] = invitation[guest[h].invite] /\ guest'[h] = guest[h]
      BY <1>7, <1>9, <2>1, <3>1, <3>2 DEF Progress
    <3>4. QED
      BY <1>2, <2>1, <3>2, <3>3 DEF Progress
  <2>2. CASE h # g /\ guest[h].op # "accept"
    BY <1>7, <2>2 DEF Progress
  <2>3. CASE h = g
    BY <1>7, <2>3 DEF Progress
  <2>4. QED
    BY <2>1, <2>2, <2>3
<1>11. OnePerMobile'
  BY <1>7, PastKept DEF Past
<1>12. Complete'
  BY <1>0, <1>2, <1>5, <1>6 DEF AcceptInv, Complete
<1>13. Members'
  BY <1>0, <1>2, <1>9 DEF AcceptInv, Members
<1>14. Actives'
  BY <1>0, <1>2 DEF AcceptInv, Actives
<1>15. InviteInv'
  <2> SUFFICES ASSUME NEW n \in Mobiles, NEW s \in Townships, <<n, s>> \notin twice
               PROVE  /\ \A j, k \in OpenFor(n, s)' : j = k
                      /\ \A h \in Guests : Inviting(h, n, s)' =>
                            /\ OpenFor(n, s)' = {}
                            /\ \A k \in Guests : Inviting(k, n, s)' => k = h
    BY <1>2 DEF InviteInv
  <2>1. \A h \in Guests : Inviting(h, n, s)' => h # g /\ Inviting(h, n, s)
    BY <1>7 DEF Inviting
  <2>2. CASE n = m /\ s = t
    <3>1. OpenFor(n, s) = {} /\ \A h \in Guests : Inviting(h, n, s) => h = g
      BY <1>0, <1>4, <2>2 DEF InviteInv
    <3>2. OpenFor(n, s)' \subseteq {i}
      BY <1>6, <3>1 DEF OpenFor
    <3>3. QED
      BY <2>1, <3>1, <3>2
  <2>3. CASE ~(n = m /\ s = t)
    <3>1. i \notin OpenFor(n, s)'
      BY <1>5, <1>6, <2>3 DEF OpenFor
    <3>2. OpenFor(n, s)' \subseteq OpenFor(n, s)
      BY <1>6, <3>1 DEF OpenFor
    <3>3. QED
      BY <1>0, <2>1, <3>2 DEF InviteInv
  <2>4. QED
    BY <2>2, <2>3
<1>16. QED
  BY <1>8, <1>10, <1>11, <1>12, <1>13, <1>14, <1>15 DEF GuestInv, AcceptInv

-----------------------------------------------------------------------------
(* The invariant.                                                          *)

LEMMA GuestInit == OnboardingInit => GuestInv
<1> SUFFICES ASSUME OnboardingInit PROVE GuestInv
  OBVIOUS
<1>1. /\ \A i \in Invites : invitation[i] = NoInvite
      /\ \A m \in Mobiles : user[m] = NoUser
      /\ \A g \in Guests : guest[g] = NoGuest /\ guest[g].op = "none"
      /\ membership = {} /\ twice = {}
  BY DEF OnboardingInit, NoGuest
<1>2. OnboardingTypeOK
  BY DEF OnboardingInit, OnboardingTypeOK
<1>3. AcceptInv
  BY <1>1 DEF AcceptInv, Progress, OnePerMobile, Past, Complete, Members, Actives
<1>4. InviteInv
  <2>1. \A m, t : OpenFor(m, t) = {}
    BY <1>1 DEF OpenFor
  <2>2. \A g \in Guests : \A m, t : ~Inviting(g, m, t)
    BY <1>1 DEF Inviting
  <2>3. QED
    BY <2>1, <2>2 DEF InviteInv
<1>5. QED
  BY <1>2, <1>3, <1>4 DEF GuestInv

LEMMA GuestStep == GuestInv /\ [OnboardingNext]_guestVars => GuestInv'
<1> SUFFICES ASSUME GuestInv, [OnboardingNext]_guestVars PROVE GuestInv'
  OBVIOUS
<1>0. OnboardingTypeOK
  BY DEF GuestInv
<1>1. ASSUME NEW g \in Guests, guest[g].op = "accept"
      PROVE  guest[g].mobile \in Mobiles /\ guest[g].township \in Townships /\ guest[g].invite \in Invites
  BY <1>0, <1>1, Rows DEF AcceptGuest
<1>2. ASSUME NEW g \in Guests, ValidateInvitation(g) PROVE GuestInv'
  BY <1>2, ValidateInvitationInv
<1>3. ASSUME NEW g \in Guests, CreateInvitation(g) PROVE GuestInv'
  BY <1>3, CreateInvitationInv
<1>4. ASSUME NEW g \in Guests, CheckInvite(g) PROVE GuestInv'
  BY <1>4, CheckInviteInv
<1>5. ASSUME NEW g \in Guests, create_user(g) PROVE GuestInv'
  <2>1. guest[g].op = "accept"
    BY <1>5 DEF create_user, Does
  <2>2. QED
    BY <1>1, <1>5, <2>1, create_userInv
<1>6. ASSUME NEW g \in Guests, JoinTownship(g) PROVE GuestInv'
  <2>1. guest[g].op = "accept"
    BY <1>6 DEF JoinTownship, Does
  <2>2. QED
    BY <1>1, <1>6, <2>1, JoinTownshipInv
<1>7. ASSUME NEW g \in Guests, Activate(g) PROVE GuestInv'
  <2>1. guest[g].op = "accept"
    BY <1>7 DEF Activate, Does
  <2>2. QED
    BY <1>1, <1>7, <2>1, ActivateInv
<1>8. ASSUME NEW g \in Guests, UseInvitation(g) PROVE GuestInv'
  <2>1. guest[g].op = "accept"
    BY <1>8 DEF UseInvitation, Does
  <2>2. QED
    BY <1>1, <1>8, <2>1, UseInvitationInv
<1>9. ASSUME NEW g \in Guests, GuestLeaves(g) PROVE GuestInv'
  BY <1>9, GuestLeavesInv
<1>10. ASSUME NEW m \in Mobiles, NEW t \in Townships, SetActiveTownship(m, t) PROVE GuestInv'
  BY <1>10, SetActiveTownshipInv
<1>11. CASE UNCHANGED guestVars
  BY <1>11 DEF guestVars, GuestInv, OnboardingTypeOK, AcceptInv, Progress, OnePerMobile, Past,
               Complete, Members, Actives, InviteInv, Inviting, OpenFor
<1>12. QED
  BY <1>2, <1>3, <1>4, <1>5, <1>6, <1>7, <1>8, <1>9, <1>10, <1>11 DEF OnboardingNext

LEMMA GuestInvImplies == GuestInv => InvitationCompletes
<1> SUFFICES ASSUME GuestInv PROVE InvitationCompletes
  OBVIOUS
<1>0. OnboardingTypeOK /\ Complete /\ Members /\ Actives /\ InviteInv
  BY DEF GuestInv, AcceptInv
<1>1. \A m \in Mobiles : Cardinality({t \in Townships : <<m, t>> \in membership}) <= 1
  <2> TAKE m \in Mobiles
  <2> DEFINE S == {t \in Townships : <<m, t>> \in membership}
  <2>1. \A s, t \in S : s = t
    BY <1>0 DEF Members
  <2> HIDE DEF S
  <2>2. Cardinality(S) <= 1
    BY <2>1, AtMostOne
  <2>3. QED
    BY <2>2 DEF S
<1>2. \A m \in Mobiles, t \in Townships : <<m, t>> \notin twice => Cardinality(OpenFor(m, t)) <= 1
  BY <1>0, AtMostOne DEF InviteInv
<1>3. \A mt \in membership : \E i \in Invites :
         invitation[i] # NoInvite /\ <<invitation[i].mobile, invitation[i].township>> = mt
  <2> TAKE mt \in membership
  <2>1. PICK m \in Mobiles, t \in Townships : mt = <<m, t>>
    BY <1>0 DEF OnboardingTypeOK
  <2>2. QED
    BY <1>0, <2>1 DEF Members
<1>4. QED
  BY <1>0, <1>1, <1>2, <1>3 DEF InvitationCompletes, Complete, Actives

(***************************************************************************)
(* Whatever acceptance dies after whichever of its writes, and whatever    *)
(* races it: a used invitation has become a member with an active          *)
(* township, nobody is a member of two townships or of one without an      *)
(* invitation, and two open invitations of one mobile to one township were *)
(* made at the same moment (AcceptInviteView, InvitationSerializer).       *)
(***************************************************************************)
THEOREM InvitationsComplete == OnboardingSpec => []InvitationCompletes
<1>1. OnboardingSpec => []GuestInv
  BY GuestInit, GuestStep, PTL DEF OnboardingSpec
<1>2. QED
  BY <1>1, GuestInvImplies, PTL

-----------------------------------------------------------------------------
(* Chat.  A job that nothing has overtaken holds the row as it is, and     *)
(* every job about a message is about one that was sent: its identifier is *)
(* not used again.                                                         *)

AnyMessageJob == [op : MessageOp, about : Messages, row : MessageRow,
                  behind : BOOLEAN, added : BOOLEAN]
AnyConversationJob == [op : ConversationOp, about : {TheConversation}, row : ConversationRow,
                       behind : BOOLEAN, added : BOOLEAN]
JobShape == chatJob \in [ChatJobs -> AnyMessageJob \cup AnyConversationJob \cup {FreeJob}]

Sent == \A m \in Messages : message[m] # Removed => m \in created
UpToDate ==
    \A j \in ChatJobs : chatJob[j] # FreeJob =>
       /\ chatJob[j].op \in MessageOp =>
             /\ chatJob[j].about \in created
             /\ ~chatJob[j].behind => message[chatJob[j].about] = chatJob[j].row
       /\ chatJob[j].op \in ConversationOp /\ ~chatJob[j].behind => conversation = chatJob[j].row

ChatInv == ChatTypeOK /\ JobShape /\ Sent /\ UpToDate

\* What a save does to a message and to the conversation, as to the marks.
Keeps(was, now) == /\ was.deleted => now.deleted
                   /\ was.seen => now.seen
                   /\ was.edited => now.edited

LEMMA NoRow == Removed \notin MessageRow /\ Removed \notin ConversationRow
  BY DEF Removed, MessageRow, ConversationRow

LEMMA AlteredKeeps ==
  ASSUME NEW op \in MessageOp, NEW row \in MessageRow
  PROVE  Altered(op, row) \in MessageRow /\ Keeps(row, Altered(op, row))
BY DEF Altered, MessageOp, MessageRow, Keeps, Placeholder

\* The two kinds of jobs, told apart.
LEMMA JobKinds ==
  ASSUME JobShape, NEW j \in ChatJobs
  PROVE  /\ chatJob[j] = FreeJob =>
              chatJob[j].op \notin MessageOp /\ chatJob[j].op \notin ConversationOp
         /\ chatJob[j].op \in MessageOp => chatJob[j] \in AnyMessageJob
         /\ chatJob[j].op \in ConversationOp => chatJob[j] \in AnyConversationJob
         /\ chatJob[j] # FreeJob =>
              chatJob[j] \in AnyMessageJob \/ chatJob[j] \in AnyConversationJob
         /\ ~(chatJob[j].op \in MessageOp /\ chatJob[j].op \in ConversationOp)
<1>1. chatJob[j] \in AnyMessageJob \cup AnyConversationJob \cup {FreeJob}
  BY DEF JobShape
<1>2. \A b \in AnyMessageJob : b.op \in MessageOp
  BY DEF AnyMessageJob
<1>3. \A b \in AnyConversationJob : b.op \in ConversationOp
  BY DEF AnyConversationJob
<1>4. FreeJob.op = "none"
  BY DEF FreeJob
<1>5. QED
  BY <1>1, <1>2, <1>3, <1>4 DEF MessageOp, ConversationOp

\* Overtaking changes nothing of a job but that it is behind.
LEMMA OvertakenJobs ==
  ASSUME JobShape, NEW things
  PROVE  /\ Overtaken(things)
              \in [ChatJobs -> AnyMessageJob \cup AnyConversationJob \cup {FreeJob}]
         /\ \A j \in ChatJobs :
              /\ Overtaken(things)[j] = FreeJob <=> chatJob[j] = FreeJob
              /\ chatJob[j] # FreeJob =>
                   /\ Overtaken(things)[j].op = chatJob[j].op
                   /\ Overtaken(things)[j].about = chatJob[j].about
                   /\ Overtaken(things)[j].row = chatJob[j].row
                   /\ Overtaken(things)[j].behind
                        = (chatJob[j].behind \/ chatJob[j].about \in things)
<1>1. ASSUME NEW j \in ChatJobs
      PROVE  /\ Overtaken(things)[j] \in AnyMessageJob \cup AnyConversationJob \cup {FreeJob}
             /\ Overtaken(things)[j] = FreeJob <=> chatJob[j] = FreeJob
             /\ chatJob[j] # FreeJob =>
                   /\ Overtaken(things)[j].op = chatJob[j].op
                   /\ Overtaken(things)[j].about = chatJob[j].about
                   /\ Overtaken(things)[j].row = chatJob[j].row
                   /\ Overtaken(things)[j].behind
                        = (chatJob[j].behind \/ chatJob[j].about \in things)
  <2> DEFINE b == chatJob[j]
             c == Overtaken(things)[j]
  <2>1. c = IF b # FreeJob /\ b.about \in things THEN [b EXCEPT !.behind = TRUE] ELSE b
    BY DEF Overtaken
  <2>2. b \in AnyMessageJob \/ b \in AnyConversationJob \/ b = FreeJob
    BY DEF JobShape
  <2> HIDE DEF b, c
  <2>3. CASE b = FreeJob
    BY <2>1, <2>3 DEF b, c
  <2>4. CASE b # FreeJob
    <3>1. /\ b.behind \in BOOLEAN /\ DOMAIN b = {"op", "about", "row", "behind", "added"}
          /\ b.op \in MessageOp \cup ConversationOp
      BY <2>2, <2>4 DEF AnyMessageJob, AnyConversationJob
    <3>2. CASE b.about \in things
      <4>1. c = [b EXCEPT !.behind = TRUE]
        BY <2>1, <2>4, <3>2
      <4>2. c.op = b.op /\ c.about = b.about /\ c.row = b.row /\ c.behind = TRUE
        BY <3>1, <4>1
      <4>3. c \in AnyMessageJob \/ c \in AnyConversationJob
        BY <2>2, <2>4, <4>1 DEF AnyMessageJob, AnyConversationJob
      <4>4. c # FreeJob
        BY <3>1, <4>2 DEF FreeJob, MessageOp, ConversationOp
      <4>5. c.behind = (b.behind \/ b.about \in things)
        BY <3>2, <4>2, Zenon
      <4>6. QED
        BY <2>4, <4>2, <4>3, <4>4, <4>5 DEF b, c
    <3>3. CASE b.about \notin things
      <4>1. c = b
        BY <2>1, <3>3
      <4>2. b.behind = (b.behind \/ b.about \in things)
        BY <3>1, <3>3
      <4>3. QED
        BY <2>2, <2>4, <4>1, <4>2 DEF b, c
    <3>4. QED
      BY <3>2, <3>3
  <2>5. QED
    BY <2>3, <2>4
<1>2. Overtaken(things) = [j \in ChatJobs |-> Overtaken(things)[j]]
  BY DEF Overtaken
<1>3. QED
  BY <1>1, <1>2

LEMMA ChatInvInit == ChatInit => ChatInv
<1> SUFFICES ASSUME ChatInit PROVE ChatInv
  OBVIOUS
<1>1. ChatTypeOK /\ JobShape
  BY ChatAssumption DEF ChatInit, ChatTypeOK, JobShape, ConversationRow
<1>2. Sent /\ UpToDate
  BY DEF ChatInit, Sent, UpToDate
<1>3. QED
  BY <1>1, <1>2 DEF ChatInv

\* What MarksStay says of a step.
StepKeepsMarks ==
    /\ \A m \in Messages : Undone(m) => FinishedLate(m)
    /\ ConversationUndone => \/ FinishedLate(TheConversation)
                             \/ \E j \in ChatJobs : chatJob[j].op = "put"

LEMMA NothingUndone ==
  ASSUME \A m \in Messages : \/ message'[m] = message[m]
                             \/ message'[m] = Removed
                             \/ m \notin created /\ message[m] = Removed,
         conversation' = conversation \/ conversation' = Removed
  PROVE  StepKeepsMarks
BY DEF StepKeepsMarks, Undone, ConversationUndone

\* A step that changes no row: jobs that began, went on or ended.
LEMMA ChatJobStep ==
  ASSUME ChatInv, NEW j \in ChatJobs,
         NEW b \in AnyMessageJob \cup AnyConversationJob \cup {FreeJob},
         chatJob' = [chatJob EXCEPT ![j] = b],
         UNCHANGED <<message, created, conversation, members>>,
         loads' \in 0 .. MaxLoads,
         seenBy' \subseteq {m \in created : message[m] # Removed},
         b # FreeJob =>
            /\ b.op \in MessageOp => /\ b.about \in created
                                     /\ ~b.behind => message[b.about] = b.row
            /\ b.op \in ConversationOp /\ ~b.behind => conversation = b.row
  PROVE  ChatInv' /\ StepKeepsMarks
<1>1. chatJob'[j] = b /\ \A i \in ChatJobs \ {j} : chatJob'[i] = chatJob[i]
  BY DEF ChatInv, JobShape
<1>2. JobShape'
  BY DEF ChatInv, JobShape
<1>3. Sent'
  BY DEF ChatInv, Sent
<1>4. UpToDate'
  BY <1>1 DEF ChatInv, UpToDate
<1>5. ChatTypeOK'
  <2>1. chatJob' \in [ChatJobs -> [op : MessageOp \cup ConversationOp,
                                   about : Messages \cup {TheConversation},
                                   row : MessageRow \cup ConversationRow,
                                   behind : BOOLEAN, added : BOOLEAN] \cup {FreeJob}]
    BY <1>2 DEF JobShape, AnyMessageJob, AnyConversationJob
  <2>2. QED
    BY <2>1 DEF ChatInv, ChatTypeOK
<1>6. QED
  BY <1>2, <1>3, <1>4, <1>5, NothingUndone DEF ChatInv

LEMMA ChatAdd ==
  ASSUME ChatInv, NEW m \in Messages, NEW row \in MessageRow, NEW readers \in SUBSET {m},
         AddMessage(m, row, readers)
  PROVE  ChatInv' /\ StepKeepsMarks
<1>1. /\ m \notin created /\ created' = created \cup {m}
      /\ message' = [message EXCEPT ![m] = row]
      /\ seenBy' = seenBy \cup readers
      /\ UNCHANGED <<conversation, members, chatJob, loads>>
  BY DEF AddMessage
<1>2. row \in MessageRow
  OBVIOUS
<1>3. message'[m] # Removed /\ \A n \in Messages \ {m} : message'[n] = message[n]
  BY <1>1, <1>2, NoRow DEF ChatInv, ChatTypeOK
<1>4. JobShape'
  BY <1>1 DEF ChatInv, JobShape
<1>5. ChatTypeOK'
  BY <1>1, <1>2, <1>3 DEF ChatInv, ChatTypeOK
<1>6. Sent'
  BY <1>1, <1>3 DEF ChatInv, Sent
<1>7. UpToDate'
  <2>1. \A j \in ChatJobs : chatJob[j].op \in MessageOp => chatJob[j].about \in Messages
    BY JobKinds DEF ChatInv, AnyMessageJob
  <2>2. QED
    BY <1>1, <1>3, <2>1 DEF ChatInv, UpToDate
<1>8. message[m] = Removed
  BY <1>1 DEF ChatInv, Sent
<1>9. StepKeepsMarks
  BY <1>1, <1>3, <1>8, NothingUndone
<1>10. QED
  BY <1>4, <1>5, <1>6, <1>7, <1>9 DEF ChatInv

\* Rows of things are written, or removed, and the jobs about them are behind but for
\* those that end.
LEMMA ChatWrites ==
  ASSUME ChatInv, NEW things \in SUBSET (Messages \cup {TheConversation}),
         NEW ended \in SUBSET ChatJobs,
         chatJob' = [i \in ChatJobs |-> IF i \in ended THEN FreeJob ELSE Overtaken(things)[i]],
         created' = created,
         \A m \in Messages : message'[m] = message[m] \/ m \in things,
         \A m \in Messages : message'[m] # Removed => m \in created,
         conversation' = conversation \/ TheConversation \in things
  PROVE  JobShape' /\ Sent' /\ UpToDate'
<1>1. JobShape
  BY DEF ChatInv
<1>2. JobShape'
  BY <1>1, OvertakenJobs DEF JobShape
<1>3. Sent'
  BY DEF Sent
<1>4. UpToDate'
  <2> SUFFICES ASSUME NEW i \in ChatJobs, chatJob'[i] # FreeJob
               PROVE  /\ chatJob'[i].op \in MessageOp =>
                            /\ chatJob'[i].about \in created
                            /\ ~chatJob'[i].behind => message'[chatJob'[i].about] = chatJob'[i].row
                      /\ chatJob'[i].op \in ConversationOp /\ ~chatJob'[i].behind
                            => conversation' = chatJob'[i].row
    BY DEF UpToDate
  <2>1. i \notin ended /\ chatJob'[i] = Overtaken(things)[i]
    OBVIOUS
  <2>2. /\ chatJob[i] # FreeJob
        /\ chatJob'[i].op = chatJob[i].op /\ chatJob'[i].about = chatJob[i].about
        /\ chatJob'[i].row = chatJob[i].row
        /\ chatJob'[i].behind = (chatJob[i].behind \/ chatJob[i].about \in things)
    BY <1>1, <2>1, OvertakenJobs
  <2>3. ASSUME chatJob[i].op \in MessageOp
        PROVE  /\ chatJob[i].about \in created
               /\ ~chatJob'[i].behind => message'[chatJob[i].about] = chatJob[i].row
    <3>1. chatJob[i].about \in Messages
      BY <1>1, <2>3, JobKinds DEF AnyMessageJob
    <3>2. chatJob[i].about \in created
          /\ (~chatJob[i].behind => message[chatJob[i].about] = chatJob[i].row)
      BY <2>2, <2>3 DEF ChatInv, UpToDate
    <3>3. ~chatJob'[i].behind => ~chatJob[i].behind /\ chatJob[i].about \notin things
      BY <2>2, Zenon
    <3>4. QED
      BY <3>1, <3>2, <3>3
  <2>4. ASSUME chatJob[i].op \in ConversationOp, ~chatJob'[i].behind
        PROVE  conversation' = chatJob[i].row
    <3>1. chatJob[i].about = TheConversation
      BY <1>1, <2>4, JobKinds DEF AnyConversationJob
    <3>2. ~chatJob[i].behind /\ chatJob[i].about \notin things
      BY <2>2, <2>4, Zenon
    <3>3. QED
      BY <2>2, <2>4, <3>1, <3>2 DEF ChatInv, UpToDate
  <2>5. QED
    BY <2>2, <2>3, <2>4
<1>5. QED
  BY <1>2, <1>3, <1>4

LEMMA ChatSave ==
  ASSUME ChatInv, NEW j \in ChatJobs, SaveMessage(j)
  PROVE  ChatInv' /\ StepKeepsMarks
<1> DEFINE b == chatJob[j]
           m == b.about
           row == Altered(b.op, b.row)
<1>1. /\ b.op \in MessageOp
      /\ message' = [message EXCEPT ![m] = row]
      /\ chatJob' = [Overtaken({m}) EXCEPT ![j] = FreeJob]
      /\ UNCHANGED <<created, seenBy, conversation, members, loads>>
  BY DEF SaveMessage
<1>2. b \in AnyMessageJob /\ b # FreeJob
  BY <1>1, JobKinds DEF ChatInv
<1>3. m \in Messages /\ b.row \in MessageRow
  BY <1>2 DEF AnyMessageJob
<1>4. m \in created /\ (~b.behind => message[m] = b.row)
  BY <1>1, <1>2 DEF ChatInv, UpToDate
<1>5. row \in MessageRow /\ Keeps(b.row, row)
  BY <1>1, <1>3, AlteredKeeps
<1> HIDE DEF row, m
<1>6. message'[m] = row /\ \A n \in Messages \ {m} : message'[n] = message[n]
  BY <1>1, <1>3 DEF ChatInv, ChatTypeOK
<1>7. chatJob' = [i \in ChatJobs |-> IF i \in {j} THEN FreeJob ELSE Overtaken({m})[i]]
  BY <1>1 DEF Overtaken
<1>8. \A n \in Messages : message'[n] # Removed => n \in created
  BY <1>4, <1>6 DEF ChatInv, Sent
<1>9. JobShape' /\ Sent' /\ UpToDate'
  <2>1. {m} \in SUBSET (Messages \cup {TheConversation}) /\ {j} \in SUBSET ChatJobs
    BY <1>3
  <2>2. \A n \in Messages : message'[n] = message[n] \/ n \in {m}
    BY <1>6
  <2>3. QED
    BY <1>1, <1>7, <1>8, <2>1, <2>2, ChatWrites
<1>10. ChatTypeOK'
  <2>1. message' \in [Messages -> MessageRow \cup {Removed}]
    BY <1>1, <1>3, <1>5 DEF ChatInv, ChatTypeOK
  <2>2. \A n \in Messages : message[n] # Removed => message'[n] # Removed
    BY <1>5, <1>6, NoRow
  <2>3. chatJob' \in [ChatJobs -> [op : MessageOp \cup ConversationOp,
                                   about : Messages \cup {TheConversation},
                                   row : MessageRow \cup ConversationRow,
                                   behind : BOOLEAN, added : BOOLEAN] \cup {FreeJob}]
    BY <1>9 DEF JobShape, AnyMessageJob, AnyConversationJob
  <2>4. QED
    BY <1>1, <2>1, <2>2, <2>3 DEF ChatInv, ChatTypeOK
<1>11. StepKeepsMarks
  <2>1. conversation' = conversation
    BY <1>1
  <2>2. ~ConversationUndone
    BY <2>1 DEF ConversationUndone
  <2>3. ASSUME NEW n \in Messages, Undone(n) PROVE FinishedLate(n)
    <3>1. n = m
      BY <1>6, <2>3 DEF Undone
    <3>2. CASE b.behind
      <4>1. chatJob'[j] = FreeJob
        BY <1>7
      <4>2. QED
        BY <1>2, <3>1, <3>2, <4>1 DEF FinishedLate, m
    <3>3. CASE ~b.behind
      <4>1. message[m] # Removed /\ Keeps(message[m], message'[m])
        BY <1>3, <1>4, <1>5, <1>6, <3>3, NoRow
      <4>2. ~Undone(m)
        BY <4>1 DEF Undone, Keeps
      <4>3. QED
        BY <2>3, <3>1, <4>2
    <3>4. QED
      BY <3>2, <3>3
  <2>4. QED
    BY <2>2, <2>3 DEF StepKeepsMarks
<1>12. QED
  BY <1>9, <1>10, <1>11 DEF ChatInv

LEMMA ChatSaveConversation ==
  ASSUME ChatInv, NEW j \in ChatJobs, SaveConversation(j)
  PROVE  ChatInv' /\ StepKeepsMarks
<1> DEFINE b == chatJob[j]
<1>1. /\ b.op \in ConversationOp
      /\ chatJob' = [Overtaken({TheConversation}) EXCEPT ![j] = FreeJob]
      /\ UNCHANGED <<message, created, seenBy, members, loads>>
  BY DEF SaveConversation
<1>2. b \in AnyConversationJob /\ b # FreeJob
  BY <1>1, JobKinds DEF ChatInv
<1>3. b.about = TheConversation /\ b.row \in ConversationRow
  BY <1>2 DEF AnyConversationJob
<1>4. ~b.behind => conversation = b.row
  BY <1>1, <1>2 DEF ChatInv, UpToDate
<1>5. /\ conversation' \in ConversationRow
      /\ b.op # "put" => /\ b.row.archived => conversation'.archived
                         /\ b.row.muted => conversation'.muted
  BY <1>1, <1>3 DEF SaveConversation, ConversationOp, ConversationRow
<1>6. chatJob' = [i \in ChatJobs |-> IF i \in {j} THEN FreeJob
                                    ELSE Overtaken({TheConversation})[i]]
  BY <1>1 DEF Overtaken
<1>7. JobShape' /\ Sent' /\ UpToDate'
  <2>1. \A n \in Messages : message'[n] # Removed => n \in created
    BY <1>1 DEF ChatInv, Sent
  <2>2. {TheConversation} \in SUBSET (Messages \cup {TheConversation}) /\ {j} \in SUBSET ChatJobs
    OBVIOUS
  <2>3. TheConversation \in {TheConversation}
    OBVIOUS
  <2>4. QED
    BY <1>1, <1>6, <2>1, <2>2, <2>3, ChatWrites
<1>8. ChatTypeOK'
  <2>1. chatJob' \in [ChatJobs -> [op : MessageOp \cup ConversationOp,
                                   about : Messages \cup {TheConversation},
                                   row : MessageRow \cup ConversationRow,
                                   behind : BOOLEAN, added : BOOLEAN] \cup {FreeJob}]
    BY <1>7 DEF JobShape, AnyMessageJob, AnyConversationJob
  <2>2. QED
    BY <1>1, <1>5, <2>1 DEF ChatInv, ChatTypeOK
<1>9. StepKeepsMarks
  <2>1. \A m \in Messages : ~Undone(m)
    BY <1>1 DEF Undone
  <2>2. CASE b.behind
    <3>1. chatJob'[j] = FreeJob
      BY <1>6
    <3>2. FinishedLate(TheConversation)
      BY <1>2, <1>3, <2>2, <3>1 DEF FinishedLate
    <3>3. QED
      BY <2>1, <3>2 DEF StepKeepsMarks
  <2>3. CASE b.op = "put"
    BY <2>1, <2>3 DEF StepKeepsMarks
  <2>4. CASE ~b.behind /\ b.op # "put"
    <3>1. conversation # Removed
      BY <1>3, <1>4, <2>4, NoRow
    <3>2. ~ConversationUndone
      BY <1>4, <1>5, <2>4, <3>1 DEF ConversationUndone
    <3>3. QED
      BY <2>1, <3>2 DEF StepKeepsMarks
  <2>5. QED
    BY <2>2, <2>3, <2>4
<1>10. QED
  BY <1>7, <1>8, <1>9 DEF ChatInv

LEMMA ChatRemove ==
  ASSUME ChatInv, NEW m \in Messages, RemoveMessage(m)
  PROVE  ChatInv' /\ StepKeepsMarks
<1>1. /\ message' = [message EXCEPT ![m] = Removed]
      /\ seenBy' = seenBy \ {m}
      /\ chatJob' = Overtaken({m})
      /\ UNCHANGED <<created, conversation, members, loads>>
  BY DEF RemoveMessage
<1>2. message'[m] = Removed /\ \A n \in Messages \ {m} : message'[n] = message[n]
  BY <1>1 DEF ChatInv, ChatTypeOK
<1>3. chatJob' = [i \in ChatJobs |-> IF i \in {} THEN FreeJob ELSE Overtaken({m})[i]]
  BY <1>1 DEF Overtaken
<1>4. JobShape' /\ Sent' /\ UpToDate'
  <2>1. \A n \in Messages : message'[n] # Removed => n \in created
    BY <1>2 DEF ChatInv, Sent
  <2>2. {m} \in SUBSET (Messages \cup {TheConversation}) /\ {} \in SUBSET ChatJobs
    OBVIOUS
  <2>3. \A n \in Messages : message'[n] = message[n] \/ n \in {m}
    BY <1>2
  <2>4. QED
    BY <1>1, <1>3, <2>1, <2>2, <2>3, ChatWrites
<1>5. ChatTypeOK'
  <2>1. chatJob' \in [ChatJobs -> [op : MessageOp \cup ConversationOp,
                                   about : Messages \cup {TheConversation},
                                   row : MessageRow \cup ConversationRow,
                                   behind : BOOLEAN, added : BOOLEAN] \cup {FreeJob}]
    BY <1>4 DEF JobShape, AnyMessageJob, AnyConversationJob
  <2>2. message' \in [Messages -> MessageRow \cup {Removed}]
    BY <1>1 DEF ChatInv, ChatTypeOK
  <2>3. seenBy' \subseteq {n \in created : message'[n] # Removed}
    BY <1>1, <1>2 DEF ChatInv, ChatTypeOK
  <2>4. QED
    BY <1>1, <2>1, <2>2, <2>3 DEF ChatInv, ChatTypeOK
<1>6. StepKeepsMarks
  BY <1>1, <1>2, NothingUndone
<1>7. QED
  BY <1>4, <1>5, <1>6 DEF ChatInv

LEMMA ChatDestroy ==
  ASSUME ChatInv, destroy
  PROVE  ChatInv' /\ StepKeepsMarks
<1> DEFINE all == Messages \cup {TheConversation}
<1>1. /\ conversation' = Removed /\ members' = FALSE
      /\ message' = [m \in Messages |-> Removed]
      /\ seenBy' = {}
      /\ chatJob' = Overtaken(all)
      /\ UNCHANGED <<created, loads>>
  BY DEF destroy
<1>2. chatJob' = [i \in ChatJobs |-> IF i \in {} THEN FreeJob ELSE Overtaken(all)[i]]
  BY <1>1 DEF Overtaken
<1>3. JobShape' /\ Sent' /\ UpToDate'
  <2>1. \A n \in Messages : message'[n] # Removed => n \in created
    BY <1>1
  <2>2. all \in SUBSET (Messages \cup {TheConversation}) /\ {} \in SUBSET ChatJobs
    OBVIOUS
  <2>3. (\A n \in Messages : message'[n] = message[n] \/ n \in all) /\ TheConversation \in all
    OBVIOUS
  <2> HIDE DEF all
  <2>4. QED
    BY <1>1, <1>2, <2>1, <2>2, <2>3, ChatWrites
<1>4. ChatTypeOK'
  <2>1. chatJob' \in [ChatJobs -> [op : MessageOp \cup ConversationOp,
                                   about : Messages \cup {TheConversation},
                                   row : MessageRow \cup ConversationRow,
                                   behind : BOOLEAN, added : BOOLEAN] \cup {FreeJob}]
    BY <1>3 DEF JobShape, AnyMessageJob, AnyConversationJob
  <2>2. QED
    BY <1>1, <2>1 DEF ChatInv, ChatTypeOK
<1>5. StepKeepsMarks
  BY <1>1, NothingUndone
<1>6. QED
  BY <1>3, <1>4, <1>5 DEF ChatInv

LEMMA ChatLoad ==
  ASSUME ChatInv, NEW j \in ChatJobs,
         \/ \E m \in Messages, op \in MessageOp : LoadMessage(j, op, m)
         \/ \E op \in ConversationOp : LoadConversation(j, op)
  PROVE  ChatInv' /\ StepKeepsMarks
<1>1. loads' \in 0 .. MaxLoads /\ UNCHANGED <<message, created, seenBy, conversation, members>>
  BY ChatAssumption DEF LoadMessage, LoadConversation, Begins, ChatInv, ChatTypeOK
<1>2. seenBy' \subseteq {m \in created : message[m] # Removed}
  BY <1>1 DEF ChatInv, ChatTypeOK
<1>3. ASSUME NEW m \in Messages, NEW op \in MessageOp, LoadMessage(j, op, m)
      PROVE  ChatInv' /\ StepKeepsMarks
  <2> DEFINE b == [op |-> op, about |-> m, row |-> message[m], behind |-> FALSE, added |-> FALSE]
  <2>1. chatJob' = [chatJob EXCEPT ![j] = b] /\ message[m] # Removed
    BY <1>3 DEF LoadMessage
  <2>2. b \in AnyMessageJob /\ m \in created /\ op \notin ConversationOp
    BY <2>1 DEF AnyMessageJob, ChatInv, ChatTypeOK, Sent, MessageOp, ConversationOp
  <2>3. b.op = op /\ b.about = m /\ message[b.about] = b.row
    OBVIOUS
  <2> HIDE DEF b
  <2>4. QED
    BY <1>1, <1>2, <2>1, <2>2, <2>3, ChatJobStep
<1>4. ASSUME NEW op \in ConversationOp, LoadConversation(j, op)
      PROVE  ChatInv' /\ StepKeepsMarks
  <2> DEFINE b == [op |-> op, about |-> TheConversation, row |-> conversation,
                   behind |-> FALSE, added |-> FALSE]
  <2>1. chatJob' = [chatJob EXCEPT ![j] = b] /\ conversation # Removed
    BY <1>4 DEF LoadConversation
  <2>2. b \in AnyConversationJob /\ op \notin MessageOp
    BY <2>1 DEF AnyConversationJob, ChatInv, ChatTypeOK, MessageOp, ConversationOp
  <2>3. b.op = op /\ conversation = b.row
    OBVIOUS
  <2> HIDE DEF b
  <2>4. QED
    BY <1>1, <1>2, <2>1, <2>2, <2>3, ChatJobStep
<1>5. QED
  BY <1>3, <1>4

LEMMA ChatReader ==
  ASSUME ChatInv, NEW j \in ChatJobs, AddReader(j)
  PROVE  ChatInv' /\ StepKeepsMarks
<1> DEFINE b == chatJob[j]
           c == [b EXCEPT !.added = TRUE]
<1>1. /\ b.op = "mark_seen" /\ message[b.about] # Removed
      /\ seenBy' = seenBy \cup {b.about}
      /\ chatJob' = [chatJob EXCEPT ![j].added = TRUE]
      /\ UNCHANGED <<message, created, conversation, members, loads>>
  BY DEF AddReader
<1>2. b \in AnyMessageJob /\ b.op \in MessageOp /\ b.op \notin ConversationOp /\ b # FreeJob
  <2>1. b.op \in MessageOp
    BY <1>1 DEF MessageOp
  <2>2. QED
    BY <2>1, JobKinds DEF ChatInv
<1>3. c \in AnyMessageJob /\ c.op = b.op /\ c.about = b.about /\ c.row = b.row /\ c.behind = b.behind
  BY <1>2 DEF AnyMessageJob
<1>4. b.about \in created /\ (~b.behind => message[b.about] = b.row)
  BY <1>2 DEF ChatInv, UpToDate
<1>5. chatJob' = [chatJob EXCEPT ![j] = c]
  BY <1>1 DEF ChatInv, JobShape
<1>6. seenBy' \subseteq {m \in created : message[m] # Removed}
  BY <1>1, <1>4 DEF ChatInv, ChatTypeOK
<1>7. loads' \in 0 .. MaxLoads
  BY <1>1 DEF ChatInv, ChatTypeOK
<1>8. UNCHANGED <<message, created, conversation, members>>
  BY <1>1
<1> HIDE DEF b, c
<1>9. c \in AnyMessageJob \cup AnyConversationJob \cup {FreeJob}
  BY <1>3
<1>10. c # FreeJob =>
         /\ c.op \in MessageOp => /\ c.about \in created
                                  /\ ~c.behind => message[c.about] = c.row
         /\ c.op \in ConversationOp /\ ~c.behind => conversation = c.row
  BY <1>2, <1>3, <1>4
<1>11. QED
  BY <1>5, <1>6, <1>7, <1>8, <1>9, <1>10, ChatJobStep

LEMMA ChatInvStep ==
  ChatInv /\ [ChatNext]_chatVars => ChatInv' /\ (StepKeepsMarks \/ UNCHANGED chatVars)
<1> SUFFICES ASSUME ChatInv, [ChatNext]_chatVars
             PROVE  ChatInv' /\ (StepKeepsMarks \/ UNCHANGED chatVars)
  OBVIOUS
<1>1. CASE UNCHANGED chatVars
  BY <1>1 DEF chatVars, ChatInv, ChatTypeOK, JobShape, Sent, UpToDate
<1>2. ASSUME NEW m \in Messages, send_message(m) \/ upload(m) \/ save_message(m)
      PROVE  ChatInv' /\ StepKeepsMarks
  <2>1. NewMessage("typed") \in MessageRow
    BY DEF NewMessage, MessageRow
  <2> QED
    BY <1>2, <2>1, ChatAdd DEF send_message, upload, save_message
<1>3. ASSUME NEW m \in Messages, forward_message(m) PROVE ChatInv' /\ StepKeepsMarks
  <2>1. PICK old \in Messages : /\ message[old] # Removed
                               /\ AddMessage(m, NewMessage(message[old].text), {})
    BY <1>3 DEF forward_message
  <2>2. NewMessage(message[old].text) \in MessageRow
    BY <2>1 DEF ChatInv, ChatTypeOK, MessageRow, NewMessage
  <2>3. QED
    BY <2>1, <2>2, ChatAdd
<1>4. ASSUME NEW m \in Messages, RemoveMessage(m) PROVE ChatInv' /\ StepKeepsMarks
  BY <1>4, ChatRemove
<1>5. ASSUME NEW j \in ChatJobs, DropJob(j) PROVE ChatInv' /\ StepKeepsMarks
  <2>1. /\ chatJob' = [chatJob EXCEPT ![j] = FreeJob]
        /\ UNCHANGED <<message, created, seenBy, conversation, members, loads>>
    BY <1>5 DEF DropJob
  <2>2. loads' \in 0 .. MaxLoads /\ seenBy' \subseteq {m \in created : message[m] # Removed}
    BY <2>1 DEF ChatInv, ChatTypeOK
  <2>3. QED
    BY <2>1, <2>2, ChatJobStep
<1>6. CASE destroy
  BY <1>6, ChatDestroy
<1>7. QED
  BY <1>1, <1>2, <1>3, <1>4, <1>5, <1>6, ChatSave, ChatSaveConversation, ChatLoad, ChatReader
     DEF ChatNext

(***************************************************************************)
(* However many jobs load, save and remove rows at once, a mark is taken   *)
(* back, or a removed row brought back, only by the save of a job that     *)
(* another had overtaken, or by a PUT of the conversation.                 *)
(***************************************************************************)
THEOREM MarksStayed == ChatSpec => MarksStay
<1>1. ChatInv /\ [ChatNext]_chatVars => ChatInv'
  BY ChatInvStep
<1>2. ASSUME ChatInv, [ChatNext]_chatVars
      PROVE  [/\ \A m \in Messages : Undone(m) => FinishedLate(m)
              /\ ConversationUndone => \/ FinishedLate(TheConversation)
                                       \/ \E j \in ChatJobs : chatJob[j].op = "put"]_chatVars
  BY <1>2, ChatInvStep DEF StepKeepsMarks
<1>3. QED
  BY <1>1, <1>2, ChatInvInit, PTL DEF ChatSpec, MarksStay

-----------------------------------------------------------------------------
(* The community: the types of its components, and its behaviours as       *)
(* theirs.                                                                 *)

\* The sockets and the room are as PresenceInv has them; the rest is plain.
Connections == connects \in 0 .. MaxConnects
Flags == is_online \in BOOLEAN /\ lost \in BOOLEAN /\ quitOne \in BOOLEAN

LEMMA PresenceTypeInit == PresenceInit => Connections /\ Flags
<1>1. PresenceInit => Connections
  BY PresenceAssumption DEF PresenceInit, Connections
<1>2. PresenceInit => Flags
  BY DEF PresenceInit, Flags
<1>3. QED
  BY <1>1, <1>2

LEMMA PresenceTypeStep ==
  Connections /\ Flags /\ [PresenceNext]_presenceVars => Connections' /\ Flags'
<1> SUFFICES ASSUME Connections, Flags, [PresenceNext]_presenceVars
             PROVE  Connections' /\ Flags'
  OBVIOUS
<1>1. CASE UNCHANGED presenceVars
  BY <1>1 DEF presenceVars, Connections, Flags
<1>2. ASSUME NEW s \in Sockets, connect(s) PROVE Connections' /\ Flags'
  <2>1. Connections'
    BY <1>2, PresenceAssumption DEF connect, Connections
  <2>2. Flags'
    BY <1>2 DEF connect, Flags
  <2>3. QED
    BY <2>1, <2>2
<1>3. ASSUME NEW s \in Sockets, \/ user_connected(s) \/ disconnect(s)
                              \/ user_disconnected(s) \/ ConsumerDies(s) \/ ChannelExpires(s)
      PROVE  Connections' /\ Flags'
  <2>1. connects' = connects
    BY <1>3 DEF user_connected, disconnect, user_disconnected, ConsumerDies, ChannelExpires
  <2>2. Flags'
    BY <1>3
       DEF user_connected, disconnect, user_disconnected, ConsumerDies, ChannelExpires, Flags
  <2>3. QED
    BY <2>1, <2>2 DEF Connections
<1>4. CASE ServerDies
  BY <1>4 DEF ServerDies, Connections, Flags
<1>5. QED
  BY <1>1, <1>2, <1>3, <1>4 DEF PresenceNext

LEMMA PresenceShape == PresenceInv /\ Connections /\ Flags => PresenceTypeOK
  BY DEF PresenceInv, SocketType, PresenceHasSocket, Connections, Flags, PresenceTypeOK

LEMMA CodeTypeInit == CodeInit => CodeTypeOK
<1> SUFFICES ASSUME CodeInit PROVE CodeTypeOK
  OBVIOUS
<1>1. otp \in Seq([value : CodeValues, is_used : BOOLEAN, expires : Nat])
  BY EmptySeq DEF CodeInit
<1>2. QED
  BY <1>1, CodeAssumption DEF CodeInit, CodeTypeOK

\* That there is no more codes than the bound allows comes from CodeInv.
LEMMA CodeTypeStep ==
  CodeInv /\ CodeInv' /\ CodeTypeOK /\ [CodeNext]_codeVars => CodeTypeOK'
<1> SUFFICES ASSUME CodeInv, CodeInv', CodeTypeOK, [CodeNext]_codeVars PROVE CodeTypeOK'
  OBVIOUS
<1>1. otp' \in Seq([value : CodeValues, is_used : BOOLEAN, expires : Nat])
      /\ accepted' \in [1 .. MaxCodes -> Nat]
  BY DEF CodeInv, CodeType, CodeRow
<1>2. Len(otp) \in Nat /\ Len(otp) <= MaxCodes /\ MaxCodes \in Nat
  BY LenProperties, CodeAssumption DEF CodeInv, CodeType
<1>3. CASE \E v \in Verifiers : ReadCode(v)
  <2>1. PICK v \in Verifiers, c \in 1 .. Len(otp) :
           /\ verifier' = [verifier EXCEPT ![v] = [code |-> c, at |-> clock]]
           /\ shared' \in {shared, shared \cup {c}}
           /\ UNCHANGED <<clock, sms, provider>>
    BY <1>3 DEF ReadCode, Matching
  <2>2. c \in 1 .. MaxCodes
    BY <1>2
  <2>3. QED
    BY <1>1, <2>1, <2>2 DEF CodeTypeOK
<1>4. CASE (\E v \in Verifiers : verify_otp(v) \/ VerifyDies(v)) \/ generate_otp
  <2>1. UNCHANGED <<clock, shared, sms, provider>>
        /\ (verifier' = verifier \/ \E v \in Verifiers : verifier' = [verifier EXCEPT ![v] = Off])
    BY <1>4 DEF verify_otp, VerifyDies, generate_otp
  <2>2. QED
    BY <1>1, <2>1 DEF CodeTypeOK
<1>5. CASE send_sms \/ mark_sent \/ mark_failed \/ SendDies
  BY <1>1, <1>5 DEF send_sms, mark_sent, mark_failed, SendDies, CodeTypeOK
<1>6. CASE ClockTick
  BY <1>1, <1>6, CodeAssumption DEF ClockTick, CodeTypeOK
<1>7. CASE UNCHANGED codeVars
  BY <1>7 DEF codeVars, CodeTypeOK
<1>8. QED
  BY <1>3, <1>4, <1>5, <1>6, <1>7 DEF CodeNext

\* What TicketInv does not say of the types.
Records == /\ trail \subseteq Status \cup {Unlisted} /\ unrecorded \subseteq Status \cup {Unlisted}
           /\ cascaded \subseteq Status \cup {Unlisted} /\ edited \subseteq Milestones
Changes == notified \in BOOLEAN /\ changes \in 0 .. MaxChanges

LEMMA TicketTypeInit == TicketInit => Records /\ Changes
<1>1. TicketInit => Records
  BY DEF TicketInit, Records
<1>2. TicketInit => Changes
  <2>1. TicketInit => notified \in BOOLEAN
    BY DEF TicketInit
  <2>2. TicketInit => changes \in 0 .. MaxChanges
    BY TicketAssumption DEF TicketInit
  <2>3. QED
    BY <2>1, <2>2 DEF Changes
<1>3. QED
  BY <1>1, <1>2

LEMMA TicketTypeStep ==
  TicketInv /\ Records /\ Changes /\ [TicketNext]_ticketVars => Records' /\ Changes'
<1> SUFFICES ASSUME TicketInv, Records, Changes, [TicketNext]_ticketVars
             PROVE  Records' /\ Changes'
  OBVIOUS
<1>1. CASE UNCHANGED ticketVars
  BY <1>1 DEF ticketVars, Records, Changes
<1>2. ASSUME NEW k \in Clerks, clerk[k].pc # "away"
      PROVE  /\ clerk[k].new \in Status \cup {Unlisted}
             /\ clerk[k].row.status \in Status \cup {Unlisted}
             /\ clerk[k].row.reached \subseteq Milestones
  BY <1>2, ClerkKnown DEF TicketRow
<1>3. ASSUME NEW k \in Clerks,
             maintenance_created(k) \/ assign(k) \/ ServiceStatus(k) \/ change_status(k)
      PROVE  Records' /\ Changes'
  <2>1. UNCHANGED <<trail, unrecorded, edited, cascaded, changes>>
    BY <1>3 DEF maintenance_created, assign, ServiceStatus, change_status, SaveRow
  <2>2. notified' \in BOOLEAN
    BY <1>3 DEF maintenance_created, assign, ServiceStatus, change_status, SaveRow, Changes
  <2> QED
    BY <2>1, <2>2 DEF Records, Changes
<1>4. ASSUME NEW k \in Clerks, NEW op, NEW new, LoadTicket(k, op, new)
      PROVE  Records' /\ Changes'
  <2>1. Records'
    BY <1>4 DEF LoadTicket, Records
  <2>2. Changes'
    BY <1>4, TicketAssumption DEF LoadTicket, Changes
  <2>3. QED
    BY <2>1, <2>2
<1>5. ASSUME NEW k \in Clerks, InsertTicket(k) PROVE Records' /\ Changes'
  BY <1>5, TicketAssumption DEF InsertTicket, Records, Changes
<1>6. ASSUME NEW k \in Clerks, ServiceHistory(k) \/ ViewHistory(k)
      PROVE  Records' /\ Changes'
  <2>1. clerk[k].pc # "away"
    BY <1>6 DEF ServiceHistory, ViewHistory
  <2>2. /\ trail' = trail \cup {clerk[k].new}
        /\ UNCHANGED <<notified, changes, unrecorded, edited, cascaded>>
    BY <1>6 DEF ServiceHistory, ViewHistory, HistoryCreated
  <2>3. QED
    BY <1>2, <2>1, <2>2 DEF Records, Changes
<1>7. ASSUME NEW k \in Clerks, put(k) PROVE Records' /\ Changes'
  <2>1. clerk[k].pc # "away"
    BY <1>7 DEF put
  <2>2. PICK status \in {clerk[k].row.status, clerk[k].new},
             reached \in Edits \cup {clerk[k].row.reached} :
           /\ unrecorded' = unrecorded \cup ({status} \ {clerk[k].row.status})
           /\ edited' = edited \cup (reached \ clerk[k].row.reached)
    BY <1>7 DEF put
  <2>3. UNCHANGED <<trail, notified, changes, cascaded>>
    BY <1>7 DEF put
  <2>4. QED
    BY <1>2, <2>1, <2>2, <2>3, TicketAssumption DEF Records, Changes
<1>8. ASSUME NEW k \in Clerks, ClerkDies(k) PROVE Records' /\ Changes'
  <2>1. clerk[k].pc # "away" /\ UNCHANGED <<trail, notified, changes, edited, cascaded>>
    BY <1>8, TicketRows DEF ClerkDies, TicketInv, TicketType, ClerkRow
  <2>2. unrecorded' \subseteq unrecorded \cup {clerk[k].new}
    BY <1>8 DEF ClerkDies
  <2>3. QED
    BY <1>2, <2>1, <2>2 DEF Records, Changes
<1>9. CASE DeleteTicket
  BY <1>9 DEF DeleteTicket, Records, Changes
<1>10. QED
  BY <1>1, <1>3, <1>4, <1>5, <1>6, <1>7, <1>8, <1>9 DEF TicketNext

LEMMA TicketShape == TicketInv /\ Records /\ Changes => TicketTypeOK
  BY DEF TicketInv, TicketType, ClerkRow, Records, Changes, TicketTypeOK

Hasty == hasty \in BOOLEAN

LEMMA HastyInit == ResidencyInit => Hasty
  BY DEF ResidencyInit, Hasty

LEMMA HastyStep == Hasty /\ [ResidencyNext]_residencyVars => Hasty'
  BY Zenon DEF Hasty, residencyVars, ResidencyNext, Validated, SaveResidence, MoverLeaves,
               DeleteResidence

LEMMA ResidencyShape == ResidencyInv /\ Hasty => ResidencyTypeOK
  BY DEF ResidencyInv, ResidenceType, Hasty, ResidencyTypeOK

LEMMA CommunityMoveOfOne ==
  [CommunityNext]_communityVars =>
     /\ [ChatNext]_chatVars /\ [PresenceNext]_presenceVars /\ [CodeNext]_codeVars
     /\ [TicketNext]_ticketVars /\ [OnboardingNext]_guestVars /\ [ResidencyNext]_residencyVars
<1> SUFFICES ASSUME [CommunityNext]_communityVars
             PROVE  /\ [ChatNext]_chatVars /\ [PresenceNext]_presenceVars /\ [CodeNext]_codeVars
                    /\ [TicketNext]_ticketVars /\ [OnboardingNext]_guestVars
                    /\ [ResidencyNext]_residencyVars
  OBVIOUS
<1>1. CASE ChatMoves
  BY <1>1 DEF ChatMoves
<1>2. CASE PresenceMoves
  BY <1>2 DEF PresenceMoves
<1>3. CASE CodeMoves
  BY <1>3 DEF CodeMoves
<1>4. CASE TicketMoves
  BY <1>4 DEF TicketMoves
<1>5. CASE OnboardingMoves
  BY <1>5 DEF OnboardingMoves
<1>6. CASE ResidencyMoves
  BY <1>6 DEF ResidencyMoves
<1>7. CASE UNCHANGED communityVars
  BY <1>7 DEF communityVars
<1>8. QED
  BY <1>1, <1>2, <1>3, <1>4, <1>5, <1>6, <1>7 DEF CommunityNext

(***************************************************************************)
(* The community implements the specification of each of its components:   *)
(* what is proved of one holds in the community.                           *)
(***************************************************************************)
THEOREM CommunityImplements ==
  CommunitySpec => /\ ChatSpec /\ PresenceSpec /\ CodeSpec
                   /\ TicketSpec /\ OnboardingSpec /\ ResidencySpec
<1>1. CommunityInit => /\ ChatInit /\ PresenceInit /\ CodeInit
                       /\ TicketInit /\ OnboardingInit /\ ResidencyInit
  BY DEF CommunityInit
<1>2. QED
  BY <1>1, CommunityMoveOfOne, PTL
     DEF CommunitySpec, ChatSpec, PresenceSpec, CodeSpec, TicketSpec, OnboardingSpec, ResidencySpec

(***************************************************************************)
(* Every value the six components keep has its type, however their         *)
(* requests interleave.                                                    *)
(***************************************************************************)
THEOREM CommunityTypes == CommunitySpec => []CommunityTypeOK
<1>1. ChatSpec => []ChatInv
  <2>1. ChatInv /\ [ChatNext]_chatVars => ChatInv'
    BY ChatInvStep
  <2>2. QED
    BY <2>1, ChatInvInit, PTL DEF ChatSpec
<1>2. PresenceSpec => [](PresenceInv /\ Connections /\ Flags)
  BY PresenceInvInit, PresenceInvStep, PresenceTypeInit, PresenceTypeStep, PTL DEF PresenceSpec
<1>3. CodeSpec => []CodeTypeOK
  BY CodeInvInit, CodeInvStep, CodeTypeInit, CodeTypeStep, PTL DEF CodeSpec
<1>4. TicketSpec => [](TicketInv /\ Records /\ Changes)
  BY TicketInvInit, TicketInvStep, TicketTypeInit, TicketTypeStep, PTL DEF TicketSpec
<1>5. OnboardingSpec => []GuestInv
  BY GuestInit, GuestStep, PTL DEF OnboardingSpec
<1>6. ResidencySpec => [](ResidencyInv /\ Hasty)
  BY ResidencyInvInit, ResidencyInvStep, HastyInit, HastyStep, PTL DEF ResidencySpec
<1>7. ChatInv /\ (PresenceInv /\ Connections /\ Flags) /\ CodeTypeOK
      /\ (TicketInv /\ Records /\ Changes) /\ GuestInv /\ (ResidencyInv /\ Hasty)
      => CommunityTypeOK
  BY PresenceShape, TicketShape, ResidencyShape DEF ChatInv, GuestInv, CommunityTypeOK
<1>8. QED
  BY <1>1, <1>2, <1>3, <1>4, <1>5, <1>6, <1>7, CommunityImplements, PTL

=============================================================================
