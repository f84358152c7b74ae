----------------------------- MODULE MCCommunity -----------------------------
(***************************************************************************)
(* TLC instance of the community.  Its components share no variable and    *)
(* every property is about one of them, so focus picks the one that runs,  *)
(* and the run explores the sum of the state spaces.                       *)
(***************************************************************************)
EXTENDS Community, TLC

VARIABLE focus          \* the component that runs

FocusInit ==
    /\ CommunityInit
    /\ focus \in {"chat", "presence", "codes", "maintenance", "onboarding", "residency"}

FocusNext ==
    \/ focus = "chat" /\ ChatMoves /\ UNCHANGED focus
    \/ focus = "presence" /\ PresenceMoves /\ UNCHANGED focus
    \/ focus = "codes" /\ CodeMoves /\ UNCHANGED focus
    \/ focus = "maintenance" /\ TicketMoves /\ UNCHANGED focus
    \/ focus = "onboarding" /\ OnboardingMoves /\ UNCHANGED focus
    \/ focus = "residency" /\ ResidencyMoves /\ UNCHANGED focus

FocusSpec == FocusInit /\ [][FocusNext]_<<communityVars, focus>>

Alike == Permutations(Homes) \cup Permutations(Movers) \cup Permutations(Clerks)

=============================================================================
