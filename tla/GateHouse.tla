------------------------------ MODULE GateHouse ------------------------------
(***************************************************************************)
(* The gate house: access passes, visits and guards side by side.  The     *)
(* three keep tables of their own, so a step of the house is a step of one *)
(* of them and leaves the others' tables alone, in any order.              *)
(***************************************************************************)
EXTENDS AccessPass, Visits, GuardDuty

houseVars == <<passVars, visitVars, dutyVars>>

HouseInit == PassInit /\ VisitInit /\ DutyInit

PassMoves == PassNext /\ UNCHANGED <<visitVars, dutyVars>>
VisitMoves == VisitNext /\ UNCHANGED <<passVars, dutyVars>>
DutyMoves == DutyNext /\ UNCHANGED <<passVars, visitVars>>

HouseNext == PassMoves \/ VisitMoves \/ DutyMoves

HouseSpec == HouseInit /\ [][HouseNext]_houseVars

\* The type invariants of the three modules.
GateHouseTypeOK == PassTypeOK /\ VisitTypeOK /\ DutyTypeOK

=============================================================================
