------------------------------ MODULE Presence ------------------------------
(***************************************************************************)
(* The is_online flag of one user and the user's chat sockets              *)
(* (ChatConsumer.connect and disconnect).                                  *)
(*                                                                         *)
(* Each socket is a consumer of its own; it joins the room, accepts, then  *)
(* writes the flag, and it leaves the room before it clears the flag.  The *)
(* consumers of one user interleave, and none asks about the others.  An   *)
(* exception ends one consumer and its socket, and no disconnect is run.   *)
(***************************************************************************)
EXTENDS Naturals, FiniteSets

CONSTANTS Sockets,       \* the user's sockets
          MaxConnects    \* bound on the connections of a behaviour

ASSUME PresenceAssumption == MaxConnects \in Nat

VARIABLES socket,        \* where each consumer is
          is_online,     \* the user's flag
          room,          \* the channels in the room's group
          connects,      \* connections begun so far
          lost,          \* history: a consumer has ended without disconnect since the
                         \* flag was last written
          quitOne        \* history: a socket has gone since the flag was last set

presenceVars == <<socket, is_online, room, connects, lost, quitOne>>

PresenceInit == /\ socket = [s \in Sockets |-> "closed"]
                /\ is_online = FALSE
                /\ room = {}
                /\ connects = 0
                /\ lost = FALSE
                /\ quitOne = FALSE

connect(s) ==
    /\ socket[s] = "closed"
    /\ connects < MaxConnects
    /\ connects' = connects + 1
    /\ socket' = [socket EXCEPT ![s] = "joined"]
    /\ room' = room \cup {s}
    /\ UNCHANGED <<is_online, lost, quitOne>>

user_connected(s) ==
    /\ socket[s] = "joined"
    /\ socket' = [socket EXCEPT ![s] = "open"]
    /\ is_online' = TRUE
    /\ quitOne' = FALSE
    /\ lost' = FALSE
    /\ UNCHANGED <<room, connects>>

disconnect(s) ==
    /\ socket[s] = "open"
    /\ socket' = [socket EXCEPT ![s] = "left"]
    /\ room' = room \ {s}
    /\ UNCHANGED <<is_online, connects, lost, quitOne>>

\* Mutant of user_disconnected: only a socket that sees no other one clears the flag.
LastOneClears(s) ==
    /\ socket[s] = "left"
    /\ socket' = [socket EXCEPT ![s] = "closed"]
    /\ is_online' = (is_online /\ \E t \in Sockets \ {s} : socket[t] # "closed")
    /\ quitOne' = TRUE
    /\ lost' = FALSE
    /\ UNCHANGED <<room, connects>>
\* The flag is cleared, whatever other sockets the user has.
user_disconnected(s) ==
    /\ socket[s] = "left"
    /\ socket' = [socket EXCEPT ![s] = "closed"]
    /\ is_online' = FALSE
    /\ quitOne' = TRUE
    /\ lost' = FALSE
    /\ UNCHANGED <<room, connects>>

\* receive raises for a text that is no JSON and for a key or a row that is not there, and
\* every method for an error of the database: the consumer and its socket end, and its
\* channel stays in the group unless it had left.
ConsumerDies(s) ==
    /\ socket[s] \in {"joined", "open", "left"}
    /\ socket' = [socket EXCEPT ![s] = IF @ = "left" THEN "closed" ELSE "dead"]
    /\ lost' = TRUE
    /\ UNCHANGED <<is_online, room, connects, quitOne>>

\* The layer drops the channel when what was sent to it expires.
ChannelExpires(s) ==
    /\ socket[s] = "dead"
    /\ socket' = [socket EXCEPT ![s] = "closed"]
    /\ room' = room \ {s}
    /\ UNCHANGED <<is_online, connects, lost, quitOne>>

\* The server dies: no consumer runs its disconnect, and the groups, which are in its
\* memory, are gone.
ServerDies ==
    /\ \E s \in Sockets : socket[s] # "closed"
    /\ socket' = [s \in Sockets |-> "closed"]
    /\ room' = {}
    /\ lost' = TRUE
    /\ UNCHANGED <<is_online, connects, quitOne>>

PresenceNext == \/ \E s \in Sockets : \/ connect(s) \/ user_connected(s)
                                      \/ disconnect(s) \/ user_disconnected(s)
                                      \/ ConsumerDies(s) \/ ChannelExpires(s)
                \/ ServerDies

PresenceSpec == PresenceInit /\ [][PresenceNext]_presenceVars

-----------------------------------------------------------------------------
\* The shape of the sockets and the flag.
PresenceTypeOK ==
    /\ socket \in [Sockets -> {"closed", "joined", "open", "left", "dead"}]
    /\ is_online \in BOOLEAN
    /\ room \subseteq Sockets
    /\ connects \in 0 .. MaxConnects
    /\ lost \in BOOLEAN
    /\ quitOne \in BOOLEAN

(***************************************************************************)
(* A user shown online has a socket that has yet to clear the flag, unless *)
(* a consumer has ended without disconnect since the flag was written; one *)
(* shown offline while a socket is open has closed another since.  And the *)
(* room holds the sockets being served, and the dead ones not yet dropped. *)
(***************************************************************************)
PresenceHasSocket ==
    /\ is_online /\ ~lost => \E s \in Sockets : socket[s] \in {"open", "left"}
    /\ ~is_online /\ ~quitOne => \A s \in Sockets : socket[s] # "open"
    /\ room = {s \in Sockets : socket[s] \in {"joined", "open", "dead"}}

=============================================================================
