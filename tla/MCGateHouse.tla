----------------------------- MODULE MCGateHouse -----------------------------
(***************************************************************************)
(* TLC instance of the gate house.  Its components share no variable and   *)
(* every property is about one of them, so it is enough to run each with   *)
(* the others at rest: focus picks one at the start, and the run explores  *)
(* the sum of the state spaces and not their product.                      *)
(***************************************************************************)
EXTENDS GateHouse, TLC

VARIABLE focus          \* the component that runs

FocusInit == HouseInit /\ focus \in {"passes", "visits", "guards"}

FocusNext ==
    \/ focus = "passes" /\ PassMoves /\ UNCHANGED focus
    \/ focus = "visits" /\ VisitMoves /\ UNCHANGED focus
    \/ focus = "guards" /\ DutyMoves /\ UNCHANGED focus

FocusSpec == FocusInit /\ [][FocusNext]_<<houseVars, focus>>

Interchangeable == Permutations(Requests) \cup Permutations(Calls)

=============================================================================
