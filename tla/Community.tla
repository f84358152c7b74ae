------------------------------ MODULE Community ------------------------------
(***************************************************************************)
(* What the members of a township do, side by side: chat, presence,        *)
(* one-time codes, maintenance, onboarding and residences.  Each has its   *)
(* tables, so a step of the community is a step of one of them and leaves  *)
(* the others' tables alone.                                               *)
(***************************************************************************)
EXTENDS Chat, Presence, OneTimeCode, Maintenance, Onboarding, Residency

communityVars == <<chatVars, presenceVars, codeVars, ticketVars, guestVars, residencyVars>>

CommunityInit == /\ ChatInit /\ PresenceInit /\ CodeInit
                 /\ TicketInit /\ OnboardingInit /\ ResidencyInit

ChatMoves ==
    ChatNext /\ UNCHANGED <<presenceVars, codeVars, ticketVars, guestVars, residencyVars>>
PresenceMoves ==
    PresenceNext /\ UNCHANGED <<chatVars, codeVars, ticketVars, guestVars, residencyVars>>
CodeMoves ==
    CodeNext /\ UNCHANGED <<chatVars, presenceVars, ticketVars, guestVars, residencyVars>>
TicketMoves ==
    TicketNext /\ UNCHANGED <<chatVars, presenceVars, codeVars, guestVars, residencyVars>>
OnboardingMoves ==
    OnboardingNext /\ UNCHANGED <<chatVars, presenceVars, codeVars, ticketVars, residencyVars>>
ResidencyMoves ==
    ResidencyNext /\ UNCHANGED <<chatVars, presenceVars, codeVars, ticketVars, guestVars>>

CommunityNext == \/ ChatMoves \/ PresenceMoves \/ CodeMoves
                 \/ TicketMoves \/ OnboardingMoves \/ ResidencyMoves

CommunitySpec == CommunityInit /\ [][CommunityNext]_communityVars

\* The type invariants of the six modules.
CommunityTypeOK == /\ ChatTypeOK /\ PresenceTypeOK /\ CodeTypeOK
                   /\ TicketTypeOK /\ OnboardingTypeOK /\ ResidencyTypeOK

=============================================================================
