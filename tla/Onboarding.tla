----------------------------- MODULE Onboarding -----------------------------
(***************************************************************************)
(* Invitations and the accounts they become (accounts/views.py and         *)
(* serializers.py).                                                        *)
(*                                                                         *)
(* AcceptInviteView checks the invitation and the mobile and then writes   *)
(* the user, the membership, the active township and the used mark, one by *)
(* one with no transaction around them.  Two requests may hold the same    *)
(* invitation; the mobile number of a user is unique.                      *)
(***************************************************************************)
EXTENDS Naturals, Sequences, FiniteSets

CONSTANTS Mobiles, Townships,
          Invites,       \* invitation rows that may be created
          Guests,        \* requests under way at once
          NoTownship

ASSUME OnboardingAssumption == /\ NoTownship \notin Townships
                               /\ "nobody" \notin Townships \cup {NoTownship}

VARIABLES invitation,    \* each row: [mobile, township, is_used], or NoInvite
          user,          \* for each mobile: [active], or NoUser
          membership,    \* pairs of a mobile and a township
          guest,         \* what each request under way has read
          twice          \* history: mobile and township pairs whose invitations raced

guestVars == <<invitation, user, membership, guest, twice>>

NoInvite == [is_used |-> TRUE]
NoUser == [active |-> "nobody"]
NoGuest == [op |-> "none"]

OnboardingInit == /\ invitation = [i \in Invites |-> NoInvite]
                  /\ user = [m \in Mobiles |-> NoUser]
                  /\ membership = {}
                  /\ guest = [g \in Guests |-> NoGuest]
                  /\ twice = {}

-----------------------------------------------------------------------------
OpenFor(m, t) == {i \in Invites : invitation[i] # NoInvite /\ invitation[i].mobile = m
                                  /\ invitation[i].township = t /\ ~invitation[i].is_used}

\* InvitationSerializer.validate: no open invitation of the same mobile and township.
ValidateInvitation(g) ==
    /\ guest[g] = NoGuest
    /\ \E m \in Mobiles, t \in Townships :
          /\ OpenFor(m, t) = {}
          /\ guest' = [guest EXCEPT ![g] = [op |-> "invite", mobile |-> m, township |-> t]]
          /\ twice' = IF \E h \in Guests : guest[h] = guest'[g] THEN twice \cup {<<m, t>>} ELSE twice
    /\ UNCHANGED <<invitation, user, membership>>

CreateInvitation(g) ==
    /\ guest[g].op = "invite"
    /\ \E i \in Invites :
          /\ invitation[i] = NoInvite
          /\ invitation' = [invitation EXCEPT ![i] = [mobile |-> guest[g].mobile,
                                township |-> guest[g].township, is_used |-> FALSE]]
    /\ guest' = [guest EXCEPT ![g] = NoGuest]
    /\ UNCHANGED <<user, membership, twice>>

\* AcceptInviteView: an unused invitation, and a mobile without an account.
CheckInvite(g) ==
    /\ guest[g] = NoGuest
    /\ \E i \in Invites :
          /\ ~invitation[i].is_used
          /\ user[invitation[i].mobile] = NoUser
          /\ guest' = [guest EXCEPT ![g] = [op |-> "accept", invite |-> i, done |-> 0,
                             mobile |-> invitation[i].mobile, township |-> invitation[i].township]]
    /\ UNCHANGED <<invitation, user, membership, twice>>

\* Mutant of AcceptOrder: the invitation is used up before the account is complete.
UseFirst == <<"create_user", "use", "join", "activate">>
AcceptOrder == <<"create_user", "join", "activate", "use">>

Does(g, step) == /\ guest[g].op = "accept"
                 /\ AcceptOrder[guest[g].done + 1] = step
                 /\ guest' = [guest EXCEPT ![g] = IF guest[g].done + 1 = Len(AcceptOrder) THEN NoGuest
                                                  ELSE [guest[g] EXCEPT !.done = @ + 1]]

\* The mobile is unique: the second of two requests fails here.
create_user(g) ==
    /\ Does(g, "create_user")
    /\ user[guest[g].mobile] = NoUser
    /\ user' = [user EXCEPT ![guest[g].mobile] = [active |-> NoTownship]]
    /\ UNCHANGED <<invitation, membership, twice>>

JoinTownship(g) ==
    /\ Does(g, "join")
    /\ membership' = membership \cup {<<guest[g].mobile, guest[g].township>>}
    /\ UNCHANGED <<invitation, user, twice>>

Activate(g) ==
    /\ Does(g, "activate")
    /\ user' = [user EXCEPT ![guest[g].mobile].active = guest[g].township]
    /\ UNCHANGED <<invitation, membership, twice>>

UseInvitation(g) ==
    /\ Does(g, "use")
    /\ invitation' = [invitation EXCEPT ![guest[g].invite].is_used = TRUE]
    /\ UNCHANGED <<user, membership, twice>>

\* SetActiveTownshipView: any township the user is a member of.
SetActiveTownship(m, t) ==
    /\ <<m, t>> \in membership
    /\ user' = [user EXCEPT ![m].active = t]
    /\ UNCHANGED <<invitation, membership, guest, twice>>

\* A refusal, a violated constraint or the death of the process: what is written stays.
GuestLeaves(g) ==
    /\ guest[g] # NoGuest
    /\ guest' = [guest EXCEPT ![g] = NoGuest]
    /\ UNCHANGED <<invitation, user, membership, twice>>

OnboardingNext == \/ \E g \in Guests : \/ ValidateInvitation(g) \/ CreateInvitation(g) \/ CheckInvite(g)
                                       \/ create_user(g) \/ JoinTownship(g) \/ Activate(g)
                                       \/ UseInvitation(g) \/ GuestLeaves(g)
                  \/ \E m \in Mobiles, t \in Townships : SetActiveTownship(m, t)

OnboardingSpec == OnboardingInit /\ [][OnboardingNext]_guestVars

-----------------------------------------------------------------------------
\* The shape of the invitations, users and requests.
OnboardingTypeOK ==
    /\ invitation \in [Invites -> [mobile : Mobiles, township : Townships, is_used : BOOLEAN]
                                  \cup {NoInvite}]
    /\ user \in [Mobiles -> [active : Townships \cup {NoTownship}] \cup {NoUser}]
    /\ membership \subseteq Mobiles \X Townships
    /\ guest \in [Guests -> [op : {"invite"}, mobile : Mobiles, township : Townships]
                            \cup [op : {"accept"}, mobile : Mobiles, township : Townships,
                                  invite : Invites, done : 0 .. 3]
                            \cup {NoGuest}]
    /\ twice \subseteq Mobiles \X Townships

(***************************************************************************)
(* Whatever dies or races: a used invitation has become a user, a member   *)
(* of its township with an active one; nobody is a member without an       *)
(* invitation or of two townships; the active township is one the user is  *)
(* a member of; and one mobile has two open invitations to a township only *)
(* when they were made at the same moment.                                 *)
(***************************************************************************)
InvitationCompletes ==
    /\ \A i \in Invites : invitation[i] # NoInvite /\ invitation[i].is_used =>
          LET m == invitation[i].mobile
          IN  <<m, invitation[i].township>> \in membership /\ user[m].active \in Townships
    /\ \A m \in Mobiles : /\ Cardinality({t \in Townships : <<m, t>> \in membership}) <= 1
                          /\ user[m] # NoUser => \/ user[m].active = NoTownship
                                                 \/ <<m, user[m].active>> \in membership
    /\ \A mt \in membership : \E i \in Invites :
          invitation[i] # NoInvite /\ <<invitation[i].mobile, invitation[i].township>> = mt
    /\ \A m \in Mobiles, t \in Townships : <<m, t>> \notin twice => Cardinality(OpenFor(m, t)) <= 1

=============================================================================
