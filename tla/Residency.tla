------------------------------ MODULE Residency ------------------------------
(***************************************************************************)
(* The residences of one villa (villas/serializers.py).                    *)
(*                                                                         *)
(* ResidenceSerializer.validate reads the villa's other rows; the view     *)
(* saves afterwards, with nothing between the two that would hold others   *)
(* back.                                                                   *)
(***************************************************************************)
EXTENDS Naturals, FiniteSets

CONSTANTS Homes,         \* residence rows that may be created
          Movers,        \* requests under way at once
          Kinds,         \* the types of resident that move
          LastDay        \* the days are 0 .. LastDay

ResidentType == {"OWNER", "TENANT", "FAMILY"}

ASSUME ResidencyAssumption == LastDay \in Nat /\ Kinds \subseteq ResidentType

VARIABLES residence,     \* each row, or Vacant
          mover,         \* the row each request has validated and is to save
          hasty          \* history: two requests held validated rows at once

residencyVars == <<residence, mover, hasty>>

OpenEnd == LastDay + 1                  \* end_date is null
ResidenceRow == [kind : Kinds, start : 0 .. LastDay, end : 0 .. OpenEnd, is_active : BOOLEAN]
Vacant == [kind |-> "none"]
Still == [home |-> "none"]

ResidencyInit == /\ residence = [h \in Homes |-> Vacant]
                 /\ mover = [k \in Movers |-> Still]
                 /\ hasty = FALSE

-----------------------------------------------------------------------------
\* Mutant of has_date_overlap: two tenants may share a day.
MayShareADay(a, b) == a.start < b.end /\ b.start < a.end
has_date_overlap(a, b) == a.start <= b.end /\ b.start <= a.end

\* validate: the dates are in order, and the other active rows of the villa leave room; a row
\* is not compared with itself.
validate(h, row) ==
    LET others == {residence[g] : g \in {x \in Homes \ {h} : residence[x] # Vacant /\ residence[x].is_active}}
    IN  /\ row.start <= row.end
        /\ row.kind = "OWNER" => ~\E o \in others : o.kind = "OWNER" /\ o.end = OpenEnd
        /\ row.kind = "TENANT" => ~\E o \in others : o.kind = "TENANT" /\ has_date_overlap(o, row)

\* POST of a new row, or PUT or PATCH of one there is.  One that omits end_date is validated as
\* if it had none, and saved with the one it has.
Validated(k, h) ==
    /\ mover[k] = Still
    /\ \E row \in ResidenceRow, omitted \in BOOLEAN :
          /\ omitted => residence[h] # Vacant /\ row.end = OpenEnd
          /\ validate(h, row)
          /\ mover' = [mover EXCEPT ![k] =
                [home |-> h,
                 row |-> IF omitted THEN [row EXCEPT !.end = residence[h].end] ELSE row]]
    /\ hasty' = (hasty \/ \E l \in Movers : mover[l] # Still)
    /\ UNCHANGED residence

SaveResidence(k) ==
    /\ mover[k] # Still
    /\ residence' = [residence EXCEPT ![mover[k].home] = mover[k].row]
    /\ mover' = [mover EXCEPT ![k] = Still]
    /\ UNCHANGED hasty

DeleteResidence(h) ==
    /\ residence[h] # Vacant
    /\ residence' = [residence EXCEPT ![h] = Vacant]
    /\ UNCHANGED <<mover, hasty>>

\* A constraint is violated or the process dies before the save.
MoverLeaves(k) ==
    /\ mover[k] # Still
    /\ mover' = [mover EXCEPT ![k] = Still]
    /\ UNCHANGED <<residence, hasty>>

ResidencyNext == \/ \E k \in Movers : \/ \E h \in Homes : Validated(k, h)
                                      \/ SaveResidence(k) \/ MoverLeaves(k)
                 \/ \E h \in Homes : DeleteResidence(h)

ResidencySpec == ResidencyInit /\ [][ResidencyNext]_residencyVars

-----------------------------------------------------------------------------
\* The shape of the rows.
ResidencyTypeOK ==
    /\ residence \in [Homes -> ResidenceRow \cup {Vacant}]
    /\ mover \in [Movers -> [home : Homes, row : ResidenceRow] \cup {Still}]
    /\ hasty \in BOOLEAN

ActiveOf(kind) == {h \in Homes : residence[h].kind = kind /\ residence[h].is_active}

(***************************************************************************)
(* A villa has one active owner without an end date, and no two active     *)
(* tenants on the same day, along any sequence of creations, edits and     *)
(* reactivations, those that leave a row ending before it starts included; *)
(* only two requests at the same moment can break this.                    *)
(***************************************************************************)
OneResidentAtATime ==
    hasty \/ /\ Cardinality({h \in ActiveOf("OWNER") : residence[h].end = OpenEnd}) <= 1
             /\ \A g, h \in ActiveOf("TENANT") :
                   g # h => residence[g].end < residence[h].start \/ residence[h].end < residence[g].start

=============================================================================
