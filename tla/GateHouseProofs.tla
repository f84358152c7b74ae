-------------------------- MODULE GateHouseProofs ---------------------------
(***************************************************************************)
(* Proofs about the gate house: access passes, visits and guards, for any  *)
(* passes, visitors, gates, guards, requests and bounds, each on its own and*)
(* side by side.                                                           *)
(***************************************************************************)
EXTENDS GateHouse, FiniteSetTheorems, TLAPS

-----------------------------------------------------------------------------
(***************************************************************************)
(* Proofs about access passes, for any passes, gates, PATCH requests and   *)
(* bounds.                                                                 *)
(*                                                                         *)
(* EntryNeedsApproval is not inductive alone: a PATCH that had loaded an   *)
(* APPROVED row could save it after the entry.  EditsPending says that no  *)
(* PATCH holds one.                                                        *)
(***************************************************************************)

EditsPending == \A e \in Editors : edit[e] # NoEdit => edit[e].row.status = "PENDING"
PassInv == PassTypeOK /\ EditsPending /\ EntryNeedsApproval

Entries(p) == Cardinality(RowsOf(p, {"CHECK_IN"}))
Usable(p) == IF pass[p].status = "APPROVED" THEN 1 ELSE 0

\* Rows and the placeholders are told apart.
LEMMA Distinct == Unissued \notin PassRow /\ \A row \in PassRow : row.status \in PassStatus
  BY DEF Unissued, PassRow, PassStatus

-----------------------------------------------------------------------------
(* The trail grows at its end, and only a CHECK_IN row adds an entry.      *)

LEMMA RowsFinite ==
  ASSUME NEW p, NEW acts, accessLog \in Seq(LogRow)
  PROVE  IsFiniteSet(RowsOf(p, acts)) /\ Cardinality(RowsOf(p, acts)) \in Nat
<1>1. RowsOf(p, acts) \in SUBSET (1 .. Len(accessLog))
  BY DEF RowsOf
<1>2. IsFiniteSet(1 .. Len(accessLog))
  BY FS_Interval
<1>3. QED
  BY <1>1, <1>2, FS_Subset, FS_CardinalityType

LEMMA EntriesNat ==
  ASSUME PassTypeOK, NEW p \in Passes PROVE Entries(p) \in Nat
  BY RowsFinite DEF PassTypeOK, Entries

LEMMA LogGrows ==
  ASSUME PassTypeOK, NEW q \in Passes, NEW g \in Gates, NEW act \in LogAction,
         create_access_log(q, g, act)
  PROVE  /\ accessLog' \in Seq(LogRow)
         /\ \A p \in Passes : Entries(p)' = IF p = q /\ act = "CHECK_IN"
                                           THEN Entries(p) + 1 ELSE Entries(p)
<1> DEFINE new == [pass |-> q, gate |-> g, action |-> act, at |-> now]
           n == Len(accessLog) + 1
<1>1. new \in LogRow /\ accessLog \in Seq(LogRow)
  BY DEF PassTypeOK, LogRow
<1>2. accessLog' = Append(accessLog, new)
  BY DEF create_access_log
<1>3. new.pass = q /\ new.action = act
  OBVIOUS
<1> HIDE DEF new
<1>4. /\ accessLog' \in Seq(LogRow)
      /\ Len(accessLog') = n
      /\ accessLog'[n] = new
      /\ \A i \in 1 .. Len(accessLog) : accessLog'[i] = accessLog[i]
  BY <1>1, <1>2
<1>5. ASSUME NEW p \in Passes
      PROVE  Entries(p)' = IF p = q /\ act = "CHECK_IN" THEN Entries(p) + 1 ELSE Entries(p)
  <2> DEFINE rows == RowsOf(p, {"CHECK_IN"})
  <2>1. IsFiniteSet(rows) /\ n \notin rows
    <3>1. rows \subseteq 1 .. Len(accessLog)
      BY DEF RowsOf
    <3>2. n \notin 1 .. Len(accessLog)
      BY <1>1
    <3>3. QED
      BY <1>1, <3>1, <3>2, RowsFinite
  <2>2. CASE p = q /\ act = "CHECK_IN"
    <3>1. rows' = rows \cup {n}
      BY <1>1, <1>3, <1>4, <2>2 DEF RowsOf
    <3>2. QED
      BY <2>1, <2>2, <3>1, FS_AddElement DEF Entries
  <2>3. CASE ~(p = q /\ act = "CHECK_IN")
    <3>1. rows' = rows
      BY <1>1, <1>3, <1>4, <2>3 DEF RowsOf
    <3>2. QED
      BY <2>3, <3>1 DEF Entries
  <2>4. QED
    BY <2>2, <2>3
<1>6. QED
  BY <1>4, <1>5

-----------------------------------------------------------------------------
(* Steps that write no entry and approve nothing.                          *)

Unused(p) == pass'[p].status = "APPROVED" => pass[p].status = "APPROVED"

LEMMA NoNewEntry ==
  ASSUME PassTypeOK, EntryNeedsApproval, approvals' = approvals,
         \A p \in Passes : Unused(p) /\ Entries(p)' = Entries(p)
  PROVE  EntryNeedsApproval'
<1> SUFFICES ASSUME NEW p \in Passes PROVE Entries(p)' + Usable(p)' <= approvals[p]
  BY DEF EntryNeedsApproval, Entries, Usable
<1>1. Entries(p) \in Nat /\ approvals[p] \in Nat
  BY EntriesNat DEF PassTypeOK
<1>2. Entries(p) + Usable(p) <= approvals[p]
  BY DEF EntryNeedsApproval, Entries, Usable
<1>3. Usable(p)' <= Usable(p) /\ Usable(p)' \in {0, 1} /\ Usable(p) \in {0, 1}
  BY DEF Unused, Usable
<1>4. Entries(p)' = Entries(p)
  OBVIOUS
<1>5. QED
  BY <1>1, <1>2, <1>3, <1>4

\* The trail as it was.
LEMMA SameTrail ==
  ASSUME accessLog' = accessLog PROVE \A p \in Passes : Entries(p)' = Entries(p)
  BY DEF Entries, RowsOf

\* One row gets another status, and times among those of the clock.
LEMMA RowReplaced ==
  ASSUME PassTypeOK, NEW p \in Passes, NEW row \in PassRow, pass' = [pass EXCEPT ![p] = row]
  PROVE  /\ pass' \in [Passes -> PassRow \cup {Unissued}]
         /\ pass'[p] = row
         /\ \A q \in Passes \ {p} : pass'[q] = pass[q]
  BY DEF PassTypeOK

LEMMA RowKept ==
  ASSUME NEW row \in PassRow, NEW st \in PassStatus, NEW g \in Gates \cup {AnyGate},
         NEW in \in Instants, NEW out \in Instants
  PROVE  /\ [row EXCEPT !.status = st] \in PassRow
         /\ [row EXCEPT !.status = st, !.outAt = out] \in PassRow
         /\ [row EXCEPT !.status = st, !.gate = g, !.inAt = in] \in PassRow
         /\ [row EXCEPT !.status = st, !.gate = g, !.outAt = out] \in PassRow
         /\ [row EXCEPT !.gate = g] \in PassRow
  BY DEF PassRow

LEMMA Issued ==
  ASSUME PassTypeOK, NEW p \in Passes, pass[p].status \in PassStatus PROVE pass[p] \in PassRow
  BY DEF PassTypeOK, Unissued, PassStatus

LEMMA PassInvInit == PassInit => PassInv
<1> SUFFICES ASSUME PassInit PROVE PassInv
  OBVIOUS
<1>1. PassTypeOK
  BY PassAssumption DEF PassInit, PassTypeOK, Instants, Never
<1>2. EditsPending
  BY DEF PassInit, EditsPending
<1>3. ASSUME NEW p \in Passes PROVE Entries(p) + Usable(p) <= approvals[p]
  <2>1. RowsOf(p, {"CHECK_IN"}) = {}
    BY DEF PassInit, RowsOf
  <2>2. Entries(p) = 0
    BY <2>1, FS_EmptySet DEF Entries
  <2>3. QED
    BY <2>2 DEF PassInit, Usable, Unissued
<1>4. QED
  BY <1>1, <1>2, <1>3 DEF PassInv, EntryNeedsApproval, Entries, Usable

-----------------------------------------------------------------------------
(* The steps.                                                              *)

\* A row gets a status that is not APPROVED.
LEMMA StatusStep ==
  ASSUME PassInv, NEW p \in Passes, NEW row \in PassRow, row.status # "APPROVED",
         pass' = [pass EXCEPT ![p] = row],
         issuedFor' \in [Passes -> Gates \cup {AnyGate}],
         UNCHANGED <<now, accessLog, edit, deletedGates, approvals>>
  PROVE  PassInv'
<1> USE DEF PassInv
<1>1. \A q \in Passes : Unused(q)
  BY RowReplaced DEF Unused
<1>2. PassTypeOK'
  BY RowReplaced DEF PassTypeOK
<1>3. EditsPending'
  BY DEF EditsPending
<1>4. EntryNeedsApproval'
  BY <1>1, SameTrail, NoNewEntry
<1>5. QED
  BY <1>2, <1>3, <1>4

LEMMA create_access_passInv ==
  ASSUME PassInv, NEW p \in Passes, create_access_pass(p) PROVE PassInv'
<1>1. PICK g \in OpenGates \cup {AnyGate}, from \in 1 .. MaxTime, until \in 1 .. MaxTime :
         /\ ValidWindow(from, until)
         /\ pass' = [pass EXCEPT ![p] =
                       [status |-> "PENDING", gate |-> g, from |-> from, until |-> until,
                        inAt |-> Never, outAt |-> Never]]
         /\ issuedFor' = [issuedFor EXCEPT ![p] = g]
  BY DEF create_access_pass
<1> DEFINE row == [status |-> "PENDING", gate |-> g, from |-> from, until |-> until,
                   inAt |-> Never, outAt |-> Never]
<1>2. row \in PassRow /\ row.status # "APPROVED"
  BY <1>1, PassAssumption DEF PassRow, PassStatus, ValidWindow, OpenGates, Instants, Never
<1>3. issuedFor' \in [Passes -> Gates \cup {AnyGate}]
  BY <1>1 DEF PassInv, PassTypeOK, OpenGates
<1>4. UNCHANGED <<now, accessLog, edit, deletedGates, approvals>>
  BY DEF create_access_pass
<1> HIDE DEF row
<1>5. pass' = [pass EXCEPT ![p] = row]
  BY <1>1 DEF row
<1>6. QED
  BY <1>2, <1>3, <1>4, <1>5, StatusStep

\* reject, cancel and the expiry of one pass.
LEMMA DecidedInv ==
  ASSUME PassInv, NEW p \in Passes, reject(p) \/ cancel(p) \/ bulk_expire_by_ids(p) PROVE PassInv'
<1>1. PICK st \in {"REJECTED", "CANCELLED", "EXPIRED"} : pass' = [pass EXCEPT ![p].status = st]
  BY DEF reject, cancel, bulk_expire_by_ids
<1>2. pass[p] \in PassRow
  BY Issued DEF PassInv, PassStatus, reject, cancel, bulk_expire_by_ids, Expirable
<1> DEFINE row == [pass[p] EXCEPT !.status = st]
<1>3. row \in PassRow /\ row.status # "APPROVED"
  BY <1>2 DEF PassRow, PassStatus
<1>4. pass' = [pass EXCEPT ![p] = row]
  BY <1>1
<1>5. /\ UNCHANGED <<now, accessLog, edit, deletedGates, approvals>>
      /\ issuedFor' \in [Passes -> Gates \cup {AnyGate}]
  BY DEF reject, cancel, bulk_expire_by_ids, PassInv, PassTypeOK
<1> HIDE DEF row
<1>6. QED
  BY <1>3, <1>4, <1>5, StatusStep

LEMMA approveInv == ASSUME PassInv, NEW p \in Passes, approve(p) PROVE PassInv'
<1> USE DEF PassInv
<1> DEFINE row == [pass[p] EXCEPT !.status = "APPROVED"]
<1>1. pass[p] \in PassRow
  BY Issued DEF PassStatus, approve
<1>2. row \in PassRow /\ pass' = [pass EXCEPT ![p] = row]
  BY <1>1 DEF PassRow, PassStatus, approve
<1>3. approvals' = [approvals EXCEPT ![p] = @ + 1]
  BY DEF approve
<1> HIDE DEF row
<1>4. PassTypeOK'
  <2>1. approvals' \in [Passes -> Nat]
    BY <1>3 DEF PassTypeOK
  <2>2. pass' \in [Passes -> PassRow \cup {Unissued}]
    BY <1>2, RowReplaced
  <2>3. QED
    BY <2>1, <2>2 DEF PassTypeOK, approve
<1>5. EditsPending'
  BY DEF EditsPending, approve
<1>6. ASSUME NEW q \in Passes PROVE Entries(q)' + Usable(q)' <= approvals'[q]
  <2>1. Entries(q)' = Entries(q) /\ Entries(q) \in Nat /\ approvals \in [Passes -> Nat]
    BY SameTrail, EntriesNat DEF approve, PassTypeOK
  <2>2. Entries(q) + Usable(q) <= approvals[q]
    BY DEF EntryNeedsApproval, Entries, Usable
  <2>3. CASE q = p
    <3>1. Usable(p) = 0
      BY DEF Usable, approve
    <3>2. Usable(p)' \in {0, 1}
      BY DEF Usable
    <3>3. QED
      BY <1>3, <2>1, <2>2, <2>3, <3>1, <3>2
  <2>4. CASE q # p
    <3>1. Usable(q)' = Usable(q)
      BY <1>2, <2>4, RowReplaced DEF Usable
    <3>2. QED
      BY <1>3, <2>1, <2>2, <2>4, <3>1
  <2>5. QED
    BY <2>3, <2>4
<1>7. QED
  BY <1>4, <1>5, <1>6 DEF EntryNeedsApproval, Entries, Usable

\* A gate opens: the row may change and the trail gets a row that is no entry.
LEMMA LoggedStep ==
  ASSUME PassInv, NEW p \in Passes, NEW g \in Gates, NEW act \in LogAction, act # "CHECK_IN",
         create_access_log(p, g, act),
         pass' \in [Passes -> PassRow \cup {Unissued}], \A q \in Passes : Unused(q),
         UNCHANGED <<now, edit, deletedGates, approvals, issuedFor>>
  PROVE  PassInv'
<1> USE DEF PassInv
<1>1. accessLog' \in Seq(LogRow) /\ \A q \in Passes : Entries(q)' = Entries(q)
  BY LogGrows
<1>2. PassTypeOK'
  BY <1>1 DEF PassTypeOK
<1>3. EditsPending'
  BY DEF EditsPending
<1>4. QED
  BY <1>1, <1>2, <1>3, NoNewEntry

LEMMA validate_qrInv ==
  ASSUME PassInv, NEW p \in Passes, NEW g \in Gates, validate_qr(p, g) PROVE PassInv'
<1>1. /\ create_access_log(p, g, "QR_SCAN") /\ "QR_SCAN" \in LogAction
      /\ pass' = pass
      /\ UNCHANGED <<now, edit, deletedGates, approvals, issuedFor>>
  BY DEF validate_qr, LogAction
<1>2. pass' \in [Passes -> PassRow \cup {Unissued}] /\ \A q \in Passes : Unused(q)
  BY <1>1 DEF PassInv, PassTypeOK, Unused
<1>3. QED
  BY <1>1, <1>2, LoggedStep

LEMMA check_outInv ==
  ASSUME PassInv, NEW p \in Passes, NEW g \in Gates, check_out(p, g) PROVE PassInv'
<1> DEFINE row == [pass[p] EXCEPT !.status = "CHECKED_OUT", !.outAt = now]
<1>1. pass[p] \in PassRow
  BY Issued DEF PassInv, PassStatus, check_out
<1>2. row \in PassRow /\ row.status = "CHECKED_OUT" /\ pass' = [pass EXCEPT ![p] = row]
  BY <1>1 DEF PassRow, PassStatus, check_out, PassInv, PassTypeOK
<1> HIDE DEF row
<1>3. pass' \in [Passes -> PassRow \cup {Unissued}] /\ \A q \in Passes : Unused(q)
  BY <1>2, RowReplaced DEF PassInv, Unused
<1>4. /\ create_access_log(p, g, "CHECK_OUT") /\ "CHECK_OUT" \in LogAction
      /\ UNCHANGED <<now, edit, deletedGates, approvals, issuedFor>>
  BY DEF check_out, LogAction
<1>5. QED
  BY <1>3, <1>4, LoggedStep

LEMMA manager_overrideInv ==
  ASSUME PassInv, NEW p \in Passes, NEW g \in Gates, manager_override(p, g) PROVE PassInv'
<1> DEFINE in == [pass[p] EXCEPT !.status = "CHECKED_IN", !.gate = g, !.inAt = now]
           out == [pass[p] EXCEPT !.status = "CHECKED_OUT", !.gate = g, !.outAt = now]
<1>1. pass[p] \in PassRow
  BY DEF manager_override, PassInv, PassTypeOK
<1>2. /\ in \in PassRow /\ in.status = "CHECKED_IN"
      /\ out \in PassRow /\ out.status = "CHECKED_OUT"
  BY <1>1 DEF PassRow, PassStatus, PassInv, PassTypeOK
<1>3. pass' = [pass EXCEPT ![p] = in] \/ pass' = [pass EXCEPT ![p] = out]
  BY DEF manager_override
<1> HIDE DEF in, out
<1>4. pass' \in [Passes -> PassRow \cup {Unissued}] /\ \A q \in Passes : Unused(q)
  BY <1>2, <1>3, RowReplaced DEF PassInv, Unused
<1>5. /\ create_access_log(p, g, "MANAGER") /\ "MANAGER" \in LogAction
      /\ UNCHANGED <<now, edit, deletedGates, approvals, issuedFor>>
  BY DEF manager_override, LogAction
<1>6. QED
  BY <1>4, <1>5, LoggedStep

\* The entry uses the approval up.
LEMMA check_inInv ==
  ASSUME PassInv, NEW p \in Passes, NEW g \in Gates, check_in(p, g) PROVE PassInv'
<1> USE DEF PassInv
<1> DEFINE row == [pass[p] EXCEPT !.status = "CHECKED_IN", !.gate = g, !.inAt = now]
<1>1. pass[p] \in PassRow
  BY DEF check_in, PassTypeOK
<1>2. row \in PassRow /\ row.status = "CHECKED_IN" /\ pass' = [pass EXCEPT ![p] = row]
  BY <1>1 DEF PassRow, PassStatus, check_in, PassTypeOK
<1> HIDE DEF row
<1>3. /\ accessLog' \in Seq(LogRow)
      /\ \A q \in Passes : Entries(q)' = IF q = p THEN Entries(q) + 1 ELSE Entries(q)
  BY LogGrows DEF check_in, LogAction
<1>4. PassTypeOK'
  BY <1>2, <1>3, RowReplaced DEF PassTypeOK, check_in
<1>5. EditsPending'
  BY DEF EditsPending, check_in
<1>6. ASSUME NEW q \in Passes PROVE Entries(q)' + Usable(q)' <= approvals'[q]
  <2>1. Entries(q) \in Nat /\ approvals[q] \in Nat /\ approvals' = approvals
    BY EntriesNat DEF PassTypeOK, check_in
  <2>2. Entries(q) + Usable(q) <= approvals[q]
    BY DEF EntryNeedsApproval, Entries, Usable
  <2>3. CASE q = p
    <3>1. Usable(p) = 1
      BY DEF Usable, check_in, is_valid
    <3>2. Usable(p)' = 0
      BY <1>2, RowReplaced DEF Usable
    <3>3. QED
      BY <1>3, <2>1, <2>2, <2>3, <3>1, <3>2
  <2>4. CASE q # p
    <3>1. Usable(q)' = Usable(q)
      BY <1>2, <2>4, RowReplaced DEF Usable
    <3>2. QED
      BY <1>3, <2>1, <2>2, <2>4, <3>1
  <2>5. QED
    BY <2>3, <2>4
<1>7. QED
  BY <1>4, <1>5, <1>6 DEF EntryNeedsApproval, Entries, Usable

\* One UPDATE of many rows: none becomes usable and the trail stays.
LEMMA UpdateStep ==
  ASSUME PassInv, pass' \in [Passes -> PassRow \cup {Unissued}],
         \A q \in Passes : Unused(q), deletedGates' \subseteq Gates,
         UNCHANGED <<now, accessLog, edit, approvals, issuedFor>>
  PROVE  PassInv'
<1> USE DEF PassInv
<1>1. PassTypeOK'
  BY DEF PassTypeOK
<1>2. EditsPending'
  BY DEF EditsPending
<1>3. QED
  BY <1>1, <1>2, SameTrail, NoNewEntry

LEMMA expire_passesInv == ASSUME PassInv, expire_passes PROVE PassInv'
<1> DEFINE due == {p \in Passes : Expirable(p) /\ is_expired(p)}
<1>1. /\ pass' = [p \in Passes |->
                    IF p \in due THEN [pass[p] EXCEPT !.status = "EXPIRED"] ELSE pass[p]]
      /\ UNCHANGED <<now, accessLog, edit, deletedGates, approvals, issuedFor>>
  BY DEF expire_passes
<1>2. \A p \in due : pass[p] \in PassRow
  BY Issued DEF Expirable, PassInv, PassStatus
<1> HIDE DEF due
<1>3. ASSUME NEW p \in Passes PROVE pass'[p] \in PassRow \cup {Unissued} /\ Unused(p)
  <2>1. CASE p \in due
    <3>1. pass'[p] = [pass[p] EXCEPT !.status = "EXPIRED"] /\ "EXPIRED" \in PassStatus
      BY <1>1, <2>1 DEF PassStatus
    <3>2. pass'[p] \in PassRow /\ pass'[p].status = "EXPIRED"
      BY <1>2, <2>1, <3>1 DEF PassRow
    <3>3. QED
      BY <3>2 DEF Unused
  <2>2. CASE p \notin due
    BY <1>1, <2>2 DEF PassInv, PassTypeOK, Unused
  <2>3. QED
    BY <2>1, <2>2
<1>4. pass' \in [Passes -> PassRow \cup {Unissued}] /\ deletedGates' \subseteq Gates
  BY <1>1, <1>3 DEF PassInv, PassTypeOK
<1>5. QED
  BY <1>1, <1>3, <1>4, UpdateStep

LEMMA DeleteGateInv == ASSUME PassInv, NEW g \in Gates, DeleteGate(g) PROVE PassInv'
<1>1. /\ pass' = [p \in Passes |-> IF pass[p] # Unissued /\ pass[p].gate = g
                                  THEN [pass[p] EXCEPT !.gate = AnyGate] ELSE pass[p]]
      /\ deletedGates' = deletedGates \cup {g}
      /\ UNCHANGED <<now, accessLog, edit, approvals, issuedFor>>
  BY DEF DeleteGate
<1>2. ASSUME NEW p \in Passes PROVE pass'[p] \in PassRow \cup {Unissued} /\ Unused(p)
  <2>1. CASE pass[p] # Unissued /\ pass[p].gate = g
    <3>1. pass[p] \in PassRow /\ pass'[p] = [pass[p] EXCEPT !.gate = AnyGate]
      BY <1>1, <2>1 DEF PassInv, PassTypeOK
    <3>2. pass'[p] \in PassRow /\ pass'[p].status = pass[p].status
      BY <3>1 DEF PassRow
    <3>3. QED
      BY <3>2 DEF Unused
  <2>2. CASE ~(pass[p] # Unissued /\ pass[p].gate = g)
    BY <1>1, <2>2 DEF PassInv, PassTypeOK, Unused
  <2>3. QED
    BY <2>1, <2>2
<1>3. pass' \in [Passes -> PassRow \cup {Unissued}] /\ deletedGates' \subseteq Gates
  BY <1>1, <1>2 DEF PassInv, PassTypeOK
<1>4. QED
  BY <1>1, <1>2, <1>3, UpdateStep

LEMMA LoadForUpdateInv ==
  ASSUME PassInv, NEW e \in Editors, NEW p \in Passes, LoadForUpdate(e, p) PROVE PassInv'
<1> USE DEF PassInv
<1>1. pass[p] \in PassRow /\ pass[p].status = "PENDING"
  BY Issued DEF LoadForUpdate, PassStatus
<1>2. /\ edit' = [edit EXCEPT ![e] = [pass |-> p, row |-> pass[p]]]
      /\ UNCHANGED <<now, pass, accessLog, deletedGates, approvals, issuedFor>>
  BY DEF LoadForUpdate
<1>3. PassTypeOK'
  BY <1>1, <1>2 DEF PassTypeOK
<1>4. EditsPending'
  BY <1>1, <1>2 DEF EditsPending, PassTypeOK
<1>5. EntryNeedsApproval'
  BY <1>2 DEF EntryNeedsApproval, RowsOf
<1>6. QED
  BY <1>3, <1>4, <1>5

\* The row saved is PENDING, as it was loaded.
LEMMA SaveUpdateInv == ASSUME PassInv, NEW e \in Editors, SaveUpdate(e) PROVE PassInv'
<1> USE DEF PassInv
<1> DEFINE p == edit[e].pass
<1>1. PICK g \in OpenGates \cup {AnyGate}, from \in 1 .. MaxTime, until \in 1 .. MaxTime :
         /\ ValidWindow(from, until)
         /\ pass' = [pass EXCEPT ![p] = [edit[e].row EXCEPT !.gate = g, !.from = from, !.until = until]]
         /\ issuedFor' = [issuedFor EXCEPT ![p] = g]
  BY DEF SaveUpdate
<1>2. /\ edit[e] # NoEdit
      /\ edit' = [edit EXCEPT ![e] = NoEdit]
      /\ UNCHANGED <<now, accessLog, deletedGates, approvals>>
  BY DEF SaveUpdate
<1>3. p \in Passes /\ edit[e].row \in PassRow /\ edit[e].row.status = "PENDING"
  BY <1>2 DEF PassTypeOK, EditsPending
<1> DEFINE row == [edit[e].row EXCEPT !.gate = g, !.from = from, !.until = until]
<1>4. row \in PassRow /\ row.status = "PENDING"
  <2>1. g \in Gates \cup {AnyGate} /\ from \in Instants /\ until \in Instants /\ from < until
    BY <1>1, PassAssumption DEF ValidWindow, OpenGates, Instants, Never
  <2>2. QED
    BY <1>3, <2>1 DEF PassRow
<1>5. pass' = [pass EXCEPT ![p] = row] /\ issuedFor' = [issuedFor EXCEPT ![p] = g]
  BY <1>1
<1> HIDE DEF row, p
<1>6. \A q \in Passes : Unused(q)
  BY <1>3, <1>4, <1>5, RowReplaced DEF Unused
<1>7. PassTypeOK'
  <2>1. pass' \in [Passes -> PassRow \cup {Unissued}]
    BY <1>3, <1>4, <1>5, RowReplaced
  <2>2. issuedFor' \in [Passes -> Gates \cup {AnyGate}]
    BY <1>5 DEF PassTypeOK, OpenGates
  <2>3. edit' \in [Editors -> [pass : Passes, row : PassRow] \cup {NoEdit}]
    BY <1>2 DEF PassTypeOK
  <2>4. QED
    BY <1>2, <2>1, <2>2, <2>3 DEF PassTypeOK
<1>8. EditsPending'
  BY <1>2 DEF EditsPending, PassTypeOK
<1>9. EntryNeedsApproval'
  BY <1>2, <1>6, SameTrail, NoNewEntry
<1>10. QED
  BY <1>7, <1>8, <1>9

LEMMA PassInvStep == PassInv /\ [PassNext]_passVars => PassInv'
<1> SUFFICES ASSUME PassInv, [PassNext]_passVars PROVE PassInv'
  OBVIOUS
<1>1. CASE UNCHANGED passVars
  BY <1>1 DEF passVars, PassInv, PassTypeOK, EditsPending, EntryNeedsApproval, RowsOf
<1>2. CASE PassTick
  BY <1>2, PassAssumption
     DEF PassTick, PassInv, PassTypeOK, Instants, Never, EditsPending, EntryNeedsApproval, RowsOf
<1>3. CASE \E p \in Passes : create_access_pass(p) \/ approve(p) \/ reject(p) \/ cancel(p)
                             \/ bulk_expire_by_ids(p)
  BY <1>3, create_access_passInv, approveInv, DecidedInv
<1>4. CASE \E p \in Passes, g \in OpenGates : validate_qr(p, g) \/ check_in(p, g)
                                             \/ check_out(p, g) \/ manager_override(p, g)
  BY <1>4, validate_qrInv, check_inInv, check_outInv, manager_overrideInv DEF OpenGates
<1>5. CASE \E g \in OpenGates : DeleteGate(g)
  BY <1>5, DeleteGateInv DEF OpenGates
<1>6. CASE \E e \in Editors, p \in Passes : LoadForUpdate(e, p)
  BY <1>6, LoadForUpdateInv
<1>7. CASE \E e \in Editors : SaveUpdate(e)
  BY <1>7, SaveUpdateInv
<1>8. CASE expire_passes
  BY <1>8, expire_passesInv
<1>9. QED
  BY <1>1, <1>2, <1>3, <1>4, <1>5, <1>6, <1>7, <1>8 DEF PassNext

(***************************************************************************)
(* However many PATCH requests save what they had loaded, a pass lets its  *)
(* holder in at most once per approval.                                    *)
(***************************************************************************)
THEOREM EntriesApproved == PassSpec => []EntryNeedsApproval
<1>1. PassInv => EntryNeedsApproval
  BY DEF PassInv
<1>2. QED
  BY PassInvInit, PassInvStep, <1>1, PTL DEF PassSpec

-----------------------------------------------------------------------------
(***************************************************************************)
(* The trail of a pass explains its row.  The row of a pass shows the last *)
(* passage of its trail; a PATCH that is to be saved shows none.           *)
(***************************************************************************)

Passages(p) == RowsOf(p, {"CHECK_IN", "CHECK_OUT"})

\* The last passage of the trail is the one the row shows.
LastTold(p, row) ==
    \A i \in Passages(p) : IsLast(i, Passages(p)) =>
       IF accessLog[i].action = "CHECK_IN"
       THEN /\ row.inAt = accessLog[i].at /\ row.gate = accessLog[i].gate
            /\ row.outAt = Never /\ row.status \in {"CHECKED_IN", "CANCELLED"}
       ELSE /\ row.outAt = accessLog[i].at /\ row.inAt <= row.outAt
            /\ row.status = "CHECKED_OUT"

\* LogExplainsPass for one pass, and which statuses go with an entry.
Told(p, row) ==
    /\ issuedFor[p] \in {AnyGate, row.gate} \cup deletedGates
    /\ row.gate \notin deletedGates
    /\ row.inAt = Never => row.outAt = Never /\ row.status \notin {"CHECKED_IN", "CHECKED_OUT"}
    /\ row.inAt # Never =>
          /\ row.from <= row.inAt /\ row.inAt <= row.until /\ row.inAt <= now
          /\ row.status \in {"CHECKED_IN", "CANCELLED", "CHECKED_OUT"}
          /\ \E i \in Passages(p) : accessLog[i].action = "CHECK_IN" /\ accessLog[i].at = row.inAt
          /\ LastTold(p, row)

\* A PATCH under way will save a row that shows no entry.
EditsFresh == \A e \in Editors : edit[e] # NoEdit /\ ~Overridden(edit[e].pass) =>
                 edit[e].row.inAt = Never /\ edit[e].row.outAt = Never

Explains(p) == pass[p] # Unissued /\ ~Overridden(p) => Told(p, pass[p])

TrailInv == /\ PassInv /\ now # Never /\ EditsFresh
            /\ \A p \in Passes : Explains(p)

-----------------------------------------------------------------------------
LEMMA TrailGrows ==
  ASSUME PassTypeOK, NEW q \in Passes, NEW g \in Gates, NEW act \in LogAction,
         create_access_log(q, g, act)
  PROVE  /\ Len(accessLog) \in Nat
         /\ accessLog'[Len(accessLog) + 1] = [pass |-> q, gate |-> g, action |-> act, at |-> now]
         /\ \A i \in 1 .. Len(accessLog) : accessLog'[i] = accessLog[i]
         /\ \A p, acts : RowsOf(p, acts)' = RowsOf(p, acts)
              \cup (IF p = q /\ act \in acts THEN {Len(accessLog) + 1} ELSE {})
<1> DEFINE new == [pass |-> q, gate |-> g, action |-> act, at |-> now]
           n == Len(accessLog)
<1>1. new \in LogRow /\ accessLog \in Seq(LogRow) /\ accessLog' = Append(accessLog, new)
      /\ new.pass = q /\ new.action = act
  BY DEF PassTypeOK, LogRow, create_access_log
<1> HIDE DEF new
<1>2. /\ n \in Nat /\ Len(accessLog') = n + 1 /\ accessLog'[n + 1] = new
      /\ \A i \in 1 .. n : accessLog'[i] = accessLog[i]
  BY <1>1
<1>3. ASSUME NEW p, NEW acts
      PROVE  RowsOf(p, acts)' = RowsOf(p, acts) \cup (IF p = q /\ act \in acts THEN {n + 1} ELSE {})
  <2>1. RowsOf(p, acts)' = {i \in 1 .. (n + 1) : accessLog'[i].pass = p /\ accessLog'[i].action \in acts}
    BY <1>2 DEF RowsOf
  <2>2. RowsOf(p, acts) = {i \in 1 .. n : accessLog[i].pass = p /\ accessLog[i].action \in acts}
    BY DEF RowsOf
  <2> HIDE DEF n
  <2>3. 1 .. (n + 1) = (1 .. n) \cup {n + 1}
    BY <1>2
  <2>4. QED
    BY <1>1, <1>2, <2>1, <2>2, <2>3
<1>4. QED
  BY <1>2, <1>3 DEF new

\* The rows of the pass the step is about.
LEMMA OwnRows ==
  ASSUME PassTypeOK, NEW p \in Passes, NEW g \in Gates, NEW act \in LogAction,
         create_access_log(p, g, act), NEW acts
  PROVE  RowsOf(p, acts)' = RowsOf(p, acts) \cup (IF act \in acts THEN {Len(accessLog) + 1} ELSE {})
<1>1. \A q, set : RowsOf(q, set)' = RowsOf(q, set)
         \cup (IF q = p /\ act \in set THEN {Len(accessLog) + 1} ELSE {})
  BY TrailGrows
<1>2. QED
  BY <1>1

LEMMA SameRows ==
  ASSUME accessLog' = accessLog PROVE \A p, acts : RowsOf(p, acts)' = RowsOf(p, acts)
  BY DEF RowsOf

\* A pass nothing happened to: its row, its gate and its passages as they were.
LEMMA ToldStays ==
  ASSUME PassTypeOK, NEW p \in Passes, Explains(p),
         pass'[p] = pass[p], issuedFor'[p] = issuedFor[p], deletedGates' = deletedGates,
         now' \in Nat, now <= now', Passages(p)' = Passages(p),
         \A i \in Passages(p) : accessLog'[i] = accessLog[i],
         Overridden(p) => Overridden(p)'
  PROVE  Explains(p)'
<1> SUFFICES ASSUME pass'[p] # Unissued, ~Overridden(p)' PROVE Told(p, pass[p])'
  BY DEF Explains
<1>1. Told(p, pass[p])
  BY DEF Explains
<1>2. pass[p] \in PassRow
  BY DEF PassTypeOK
<1>3. pass[p].inAt \in Nat /\ now \in Nat
  BY <1>2, PassAssumption DEF PassRow, PassTypeOK, Instants, Never
<1>4. QED
  BY <1>1, <1>3 DEF Told, LastTold

\* A step on one pass that leaves the trail alone.
LEMMA OneRow ==
  ASSUME TrailInv, PassNext, NEW p \in Passes, Explains(p)',
         \A q \in Passes \ {p} : pass'[q] = pass[q] /\ issuedFor'[q] = issuedFor[q],
         UNCHANGED <<now, accessLog, edit, deletedGates>>
  PROVE  TrailInv'
<1>1. PassInv'
  BY PassInvStep DEF TrailInv
<1>2. \A q, acts : RowsOf(q, acts)' = RowsOf(q, acts)
  BY SameRows
<1>3. ASSUME NEW q \in Passes \ {p} PROVE Explains(q)'
  <2>1. now \in Nat /\ now <= now
    BY PassAssumption DEF TrailInv, PassInv, PassTypeOK, Instants, Never
  <2>2. QED
    BY <1>2, <2>1, ToldStays DEF TrailInv, PassInv, Passages, Overridden
<1>4. EditsFresh'
  BY <1>2 DEF TrailInv, EditsFresh, Overridden
<1>5. QED
  BY <1>1, <1>3, <1>4 DEF TrailInv

\* A step on one pass that writes to the trail.
LEMMA OneLogged ==
  ASSUME TrailInv, PassNext, NEW p \in Passes, NEW g \in Gates, NEW act \in LogAction,
         create_access_log(p, g, act), Explains(p)',
         \A q \in Passes \ {p} : pass'[q] = pass[q],
         UNCHANGED <<now, edit, deletedGates, issuedFor>>
  PROVE  TrailInv'
<1>1. PassInv' /\ PassTypeOK
  BY PassInvStep DEF TrailInv, PassInv
<1>2. /\ Len(accessLog) \in Nat
      /\ \A i \in 1 .. Len(accessLog) : accessLog'[i] = accessLog[i]
      /\ \A q, acts : RowsOf(q, acts)' = RowsOf(q, acts)
              \cup (IF q = p /\ act \in acts THEN {Len(accessLog) + 1} ELSE {})
  BY <1>1, TrailGrows
<1>3. ASSUME NEW q \in Passes \ {p} PROVE Explains(q)'
  <2>1. now \in Nat /\ now <= now
    BY <1>1, PassAssumption DEF PassTypeOK, Instants, Never
  <2>2. Passages(q)' = Passages(q)
    BY <1>2 DEF Passages
  <2>3. Overridden(q) => Overridden(q)'
    BY <1>2 DEF Overridden
  <2>4. \A i \in Passages(q) : accessLog'[i] = accessLog[i]
    BY <1>2 DEF Passages, RowsOf
  <2>5. QED
    BY <1>1, <2>1, <2>2, <2>3, <2>4, ToldStays DEF TrailInv
<1>4. \A q : Overridden(q) => Overridden(q)'
  BY <1>2 DEF Overridden
<1>5. EditsFresh'
  BY <1>4 DEF TrailInv, EditsFresh
<1>6. QED
  BY <1>1, <1>3, <1>5 DEF TrailInv

\* A row that shows no entry.
LEMMA FreshTold ==
  ASSUME NEW p \in Passes, NEW row, pass'[p] = row, row.inAt = Never, row.outAt = Never,
         row.status \notin {"CHECKED_IN", "CHECKED_OUT"},
         issuedFor'[p] = row.gate, row.gate \notin deletedGates'
  PROVE  Explains(p)'
  BY DEF Explains, Told

LEMMA create_access_passTrail ==
  ASSUME TrailInv, PassNext, NEW p \in Passes, create_access_pass(p) PROVE TrailInv'
<1>1. PICK g \in OpenGates \cup {AnyGate}, from \in 1 .. MaxTime, until \in 1 .. MaxTime :
         /\ pass' = [pass EXCEPT ![p] =
                       [status |-> "PENDING", gate |-> g, from |-> from, until |-> until,
                        inAt |-> Never, outAt |-> Never]]
         /\ issuedFor' = [issuedFor EXCEPT ![p] = g]
  BY DEF create_access_pass
<1>2. UNCHANGED <<now, accessLog, edit, deletedGates>> /\ PassTypeOK
  BY DEF create_access_pass, TrailInv, PassInv
<1>3. \A q \in Passes \ {p} : pass'[q] = pass[q] /\ issuedFor'[q] = issuedFor[q]
  BY <1>1, <1>2 DEF PassTypeOK
<1>4. /\ pass'[p] = [status |-> "PENDING", gate |-> g, from |-> from, until |-> until,
                     inAt |-> Never, outAt |-> Never]
      /\ issuedFor'[p] = g /\ g \notin deletedGates'
  BY <1>1, <1>2, PassAssumption DEF PassTypeOK, OpenGates
<1>5. Explains(p)'
  BY <1>4, FreshTold
<1>6. QED
  BY <1>2, <1>3, <1>5, OneRow

\* Approvals, rejections, cancellations and expiry: the status changes, an entry stays shown.
LEMMA StatusTold ==
  ASSUME PassTypeOK, NEW p \in Passes, Explains(p), pass[p] \in PassRow,
         NEW st \in PassStatus \ {"CHECKED_IN", "CHECKED_OUT"},
         pass'[p] = [pass[p] EXCEPT !.status = st],
         st = "CANCELLED" \/ pass[p].status \in {"PENDING", "APPROVED"},
         pass[p].status # "CHECKED_OUT",
         UNCHANGED <<now, accessLog, issuedFor, deletedGates>>
  PROVE  Explains(p)'
<1>1. /\ pass'[p].status = st /\ pass'[p].gate = pass[p].gate
      /\ pass'[p].from = pass[p].from /\ pass'[p].until = pass[p].until
      /\ pass'[p].inAt = pass[p].inAt /\ pass'[p].outAt = pass[p].outAt
  BY DEF PassRow
<1>2. Passages(p)' = Passages(p) /\ Overridden(p)' = Overridden(p)
  BY SameRows DEF Passages, Overridden
<1> SUFFICES ASSUME ~Overridden(p) PROVE Told(p, pass[p])'
  BY <1>2 DEF Explains
<1>3. Told(p, pass[p])
  BY DEF Explains, PassRow, Unissued
<1>4. CASE pass[p].inAt = Never
  BY <1>1, <1>3, <1>4 DEF Told
<1>5. CASE pass[p].inAt # Never
  <2>1. st = "CANCELLED" /\ pass[p].status \in {"CHECKED_IN", "CANCELLED"}
    BY <1>3, <1>5 DEF Told
  <2>2. LastTold(p, pass[p])'
    BY <1>1, <1>2, <1>3, <1>5, <2>1 DEF Told, LastTold
  <2>3. QED
    BY <1>1, <1>2, <1>3, <1>5, <2>1, <2>2 DEF Told
<1>6. QED
  BY <1>4, <1>5

LEMMA DecidedTrail ==
  ASSUME TrailInv, PassNext, NEW p \in Passes,
         approve(p) \/ reject(p) \/ cancel(p) \/ bulk_expire_by_ids(p)
  PROVE  TrailInv'
<1>1. PICK st \in {"APPROVED", "REJECTED", "CANCELLED", "EXPIRED"} :
        /\ pass' = [pass EXCEPT ![p].status = st]
        /\ st = "CANCELLED" \/ pass[p].status \in {"PENDING", "APPROVED"}
  BY DEF approve, reject, cancel, bulk_expire_by_ids, Expirable
<1>2. /\ pass[p].status \in {"PENDING", "APPROVED", "CHECKED_IN"}
      /\ UNCHANGED <<now, accessLog, edit, deletedGates, issuedFor>>
  BY DEF approve, reject, cancel, bulk_expire_by_ids, Expirable
<1>3. PassTypeOK /\ pass[p] \in PassRow
  BY <1>2, Issued DEF TrailInv, PassInv, PassStatus
<1>4. pass'[p] = [pass[p] EXCEPT !.status = st] /\ \A q \in Passes \ {p} : pass'[q] = pass[q]
  BY <1>1, <1>3 DEF PassTypeOK
<1>5. st \in PassStatus \ {"CHECKED_IN", "CHECKED_OUT"}
  BY DEF PassStatus
<1>6. Explains(p)'
  BY <1>1, <1>2, <1>3, <1>4, <1>5, StatusTold DEF TrailInv
<1>7. QED
  BY <1>2, <1>4, <1>6, OneRow

LEMMA check_inTrail ==
  ASSUME TrailInv, PassNext, NEW p \in Passes, NEW g \in OpenGates, check_in(p, g) PROVE TrailInv'
<1>1. /\ PassTypeOK /\ pass[p] \in PassRow /\ pass[p].status = "APPROVED"
      /\ pass[p].from <= now /\ now <= pass[p].until /\ pass[p].gate \in {AnyGate, g}
      /\ pass' = [pass EXCEPT ![p].status = "CHECKED_IN", ![p].gate = g, ![p].inAt = now]
      /\ create_access_log(p, g, "CHECK_IN") /\ "CHECK_IN" \in LogAction /\ g \in Gates
      /\ UNCHANGED <<now, edit, deletedGates, issuedFor>>
  BY DEF check_in, is_valid, FitsGate, TrailInv, PassInv, PassTypeOK, LogAction, OpenGates
<1>2. \A q \in Passes \ {p} : pass'[q] = pass[q]
  BY <1>1 DEF PassTypeOK
<1>3. /\ pass'[p].status = "CHECKED_IN" /\ pass'[p].gate = g /\ pass'[p].inAt = now
      /\ pass'[p].from = pass[p].from /\ pass'[p].until = pass[p].until
      /\ pass'[p].outAt = pass[p].outAt
  BY <1>1 DEF PassTypeOK, PassRow
<1>4. PICK n \in Nat : n = Len(accessLog) + 1
  BY <1>1, TrailGrows
<1>5. /\ accessLog'[n].action = "CHECK_IN" /\ accessLog'[n].at = now /\ accessLog'[n].gate = g
      /\ Passages(p)' = Passages(p) \cup {n} /\ (Overridden(p) => Overridden(p)')
      /\ Len(accessLog) \in Nat
  <2>1. accessLog'[n] = [pass |-> p, gate |-> g, action |-> "CHECK_IN", at |-> now]
        /\ Len(accessLog) \in Nat
    BY <1>1, <1>4, TrailGrows
  <2>2. \A acts : RowsOf(p, acts)' = RowsOf(p, acts) \cup (IF "CHECK_IN" \in acts THEN {n} ELSE {})
    BY <1>1, <1>4, OwnRows
  <2>3. QED
    BY <2>1, <2>2 DEF Passages, Overridden
<1>6. Explains(p)'
  <2> SUFFICES ASSUME ~Overridden(p) PROVE Told(p, pass[p])'
    BY <1>5 DEF Explains
  <2>1. Told(p, pass[p]) /\ now \in Nat /\ now # Never
    BY <1>1, PassAssumption DEF TrailInv, Explains, PassRow, Unissued, PassTypeOK, Instants, Never
  <2>2. pass[p].outAt = Never
    BY <1>1, <2>1 DEF Told
  <2>3. Passages(p) \subseteq 1 .. Len(accessLog)
    BY DEF Passages, RowsOf
  <2>4. ASSUME NEW i \in Passages(p)', IsLast(i, Passages(p)') PROVE i = n
    <3>1. n \in Passages(p)' /\ (i \in Passages(p) \/ i = n)
      BY <1>5
    <3>2. n <= i
      BY <2>4, <3>1 DEF IsLast
    <3>3. i \in Passages(p) => i \in Nat /\ i < n
      BY <1>4, <1>5, <2>3
    <3>4. QED
      BY <3>1, <3>2, <3>3
  <2>5. LastTold(p, pass[p])'
    BY <1>3, <1>5, <2>2, <2>4 DEF LastTold
  <2>6. issuedFor'[p] \in {AnyGate, g} \cup deletedGates'
    BY <1>1, <2>1 DEF Told
  <2>7. g \notin deletedGates'
    BY <1>1 DEF OpenGates
  <2>8. now' = now /\ n \in Passages(p)'
    BY <1>1, <1>5
  <2>9. \E i \in Passages(p)' : accessLog'[i].action = "CHECK_IN" /\ accessLog'[i].at = now
    BY <1>5, <2>8
  <2>10. /\ pass'[p].from <= pass'[p].inAt /\ pass'[p].inAt <= pass'[p].until
         /\ pass'[p].inAt <= now' /\ pass'[p].inAt # Never
    BY <1>1, <1>3, <2>1, <2>8
  <2>11. QED
    BY <1>3, <2>5, <2>6, <2>7, <2>9, <2>10 DEF Told
<1>7. QED
  BY <1>1, <1>2, <1>6, OneLogged

LEMMA check_outTrail ==
  ASSUME TrailInv, PassNext, NEW p \in Passes, NEW g \in OpenGates, check_out(p, g) PROVE TrailInv'
<1>1. /\ PassTypeOK /\ pass[p].status = "CHECKED_IN"
      /\ pass' = [pass EXCEPT ![p].status = "CHECKED_OUT", ![p].outAt = now]
      /\ create_access_log(p, g, "CHECK_OUT") /\ "CHECK_OUT" \in LogAction /\ g \in Gates
      /\ UNCHANGED <<now, edit, deletedGates, issuedFor>>
  BY DEF check_out, TrailInv, PassInv, LogAction, OpenGates
<1>2. pass[p] \in PassRow /\ \A q \in Passes \ {p} : pass'[q] = pass[q]
  BY <1>1, Issued DEF PassTypeOK, PassStatus
<1>3. /\ pass'[p].status = "CHECKED_OUT" /\ pass'[p].gate = pass[p].gate
      /\ pass'[p].inAt = pass[p].inAt /\ pass'[p].outAt = now
      /\ pass'[p].from = pass[p].from /\ pass'[p].until = pass[p].until
  BY <1>1, <1>2 DEF PassTypeOK, PassRow
<1>4. PICK n \in Nat : n = Len(accessLog) + 1
  BY <1>1, TrailGrows
<1>5. /\ accessLog'[n].action = "CHECK_OUT" /\ accessLog'[n].at = now
      /\ Passages(p)' = Passages(p) \cup {n} /\ (Overridden(p) => Overridden(p)')
      /\ Len(accessLog) \in Nat
      /\ \A i \in Passages(p) : accessLog'[i] = accessLog[i]
  <2>1. /\ accessLog'[n] = [pass |-> p, gate |-> g, action |-> "CHECK_OUT", at |-> now]
        /\ Len(accessLog) \in Nat /\ \A i \in 1 .. Len(accessLog) : accessLog'[i] = accessLog[i]
    BY <1>1, <1>4, TrailGrows
  <2>2. \A acts : RowsOf(p, acts)' = RowsOf(p, acts) \cup (IF "CHECK_OUT" \in acts THEN {n} ELSE {})
    BY <1>1, <1>4, OwnRows
  <2>3. \A i \in Passages(p) : accessLog'[i] = accessLog[i]
    BY <2>1 DEF Passages, RowsOf
  <2>4. QED
    BY <2>1, <2>2, <2>3 DEF Passages, Overridden
<1>6. Explains(p)'
  <2> SUFFICES ASSUME ~Overridden(p) PROVE Told(p, pass[p])'
    BY <1>5 DEF Explains
  <2>1. Told(p, pass[p]) /\ now \in Nat /\ now # Never
    BY <1>1, <1>2, PassAssumption DEF TrailInv, Explains, PassRow, Unissued, PassTypeOK, Instants, Never
  <2>2. /\ pass[p].inAt # Never /\ pass[p].inAt <= now
        /\ pass[p].from <= pass[p].inAt /\ pass[p].inAt <= pass[p].until
        /\ \E i \in Passages(p) : accessLog[i].action = "CHECK_IN" /\ accessLog[i].at = pass[p].inAt
    BY <1>1, <2>1 DEF Told
  <2>3. Passages(p) \subseteq 1 .. Len(accessLog)
    BY DEF Passages, RowsOf
  <2>4. ASSUME NEW i \in Passages(p)', IsLast(i, Passages(p)') PROVE i = n
    <3>1. n \in Passages(p)' /\ (i \in Passages(p) \/ i = n)
      BY <1>5
    <3>2. n <= i
      BY <2>4, <3>1 DEF IsLast
    <3>3. i \in Passages(p) => i \in Nat /\ i < n
      BY <1>4, <1>5, <2>3
    <3>4. QED
      BY <3>1, <3>2, <3>3
  <2>5. LastTold(p, pass[p])'
    BY <1>3, <1>5, <2>2, <2>4 DEF LastTold
  <2>6. \E i \in Passages(p)' : accessLog'[i].action = "CHECK_IN" /\ accessLog'[i].at = pass'[p].inAt
    BY <1>3, <1>5, <2>2
  <2>7. now' = now /\ deletedGates' = deletedGates /\ issuedFor' = issuedFor
    BY <1>1
  <2>8. QED
    BY <1>3, <2>1, <2>2, <2>5, <2>6, <2>7 DEF Told
<1>7. QED
  BY <1>1, <1>2, <1>6, OneLogged

\* A scan changes nothing but the trail, which it does not use.
LEMMA validate_qrTrail ==
  ASSUME TrailInv, PassNext, NEW p \in Passes, NEW g \in OpenGates, validate_qr(p, g) PROVE TrailInv'
<1>1. /\ PassTypeOK /\ create_access_log(p, g, "QR_SCAN") /\ "QR_SCAN" \in LogAction /\ g \in Gates
      /\ UNCHANGED <<now, pass, edit, deletedGates, issuedFor>>
  BY DEF validate_qr, TrailInv, PassInv, LogAction, OpenGates
<1>2. /\ \A i \in 1 .. Len(accessLog) : accessLog'[i] = accessLog[i]
      /\ \A acts : RowsOf(p, acts)' = RowsOf(p, acts)
              \cup (IF "QR_SCAN" \in acts THEN {Len(accessLog) + 1} ELSE {})
  BY <1>1, TrailGrows, OwnRows
<1>3. /\ Passages(p)' = Passages(p) /\ (Overridden(p) => Overridden(p)')
      /\ \A i \in Passages(p) : accessLog'[i] = accessLog[i]
  BY <1>2 DEF Passages, Overridden, RowsOf
<1>4. now \in Nat /\ now <= now
  BY <1>1, PassAssumption DEF PassTypeOK, Instants, Never
<1>5. Explains(p)'
  BY <1>1, <1>3, <1>4, ToldStays DEF TrailInv
<1>6. QED
  BY <1>1, <1>5, OneLogged

LEMMA manager_overrideTrail ==
  ASSUME TrailInv, PassNext, NEW p \in Passes, NEW g \in OpenGates, manager_override(p, g)
  PROVE  TrailInv'
<1>1. /\ PassTypeOK /\ create_access_log(p, g, "MANAGER") /\ "MANAGER" \in LogAction /\ g \in Gates
      /\ UNCHANGED <<now, edit, deletedGates, issuedFor>>
      /\ \A q \in Passes \ {p} : pass'[q] = pass[q]
  BY DEF manager_override, TrailInv, PassInv, PassTypeOK, LogAction, OpenGates
<1>2. \A acts : RowsOf(p, acts)' = RowsOf(p, acts)
              \cup (IF "MANAGER" \in acts THEN {Len(accessLog) + 1} ELSE {})
  BY <1>1, OwnRows
<1>3. Overridden(p)'
  BY <1>2 DEF Overridden
<1>4. Explains(p)'
  BY <1>3 DEF Explains
<1>5. QED
  BY <1>1, <1>4, OneLogged

LEMMA expire_passesTrail == ASSUME TrailInv, PassNext, expire_passes PROVE TrailInv'
<1> DEFINE due == {p \in Passes : Expirable(p) /\ is_expired(p)}
<1>1. /\ pass' = [p \in Passes |->
                    IF p \in due THEN [pass[p] EXCEPT !.status = "EXPIRED"] ELSE pass[p]]
      /\ UNCHANGED <<now, accessLog, edit, deletedGates, issuedFor>>
  BY DEF expire_passes
<1>2. \A p \in due : pass[p].status \in {"PENDING", "APPROVED"}
  BY DEF Expirable
<1> HIDE DEF due
<1>3. PassTypeOK /\ PassInv' /\ "EXPIRED" \in PassStatus \ {"CHECKED_IN", "CHECKED_OUT"}
  BY PassInvStep DEF TrailInv, PassInv, PassStatus
<1>4. \A p, acts : RowsOf(p, acts)' = RowsOf(p, acts)
  BY <1>1, SameRows
<1>5. ASSUME NEW p \in Passes PROVE Explains(p)'
  <2>1. CASE p \in due
    <3>1. pass[p] \in PassRow /\ pass'[p] = [pass[p] EXCEPT !.status = "EXPIRED"]
      BY <1>1, <1>2, <1>3, <2>1, Issued DEF PassStatus
    <3>2. QED
      BY <1>1, <1>2, <1>3, <2>1, <3>1, StatusTold DEF TrailInv
  <2>2. CASE p \notin due
    <3>1. pass'[p] = pass[p] /\ issuedFor'[p] = issuedFor[p] /\ deletedGates' = deletedGates
      BY <1>1, <2>2
    <3>2. now' \in Nat /\ now <= now'
      BY <1>1, <1>3, PassAssumption DEF PassTypeOK, Instants, Never
    <3>3. QED
      BY <1>1, <1>3, <1>4, <3>1, <3>2, ToldStays DEF TrailInv, Passages, Overridden
  <2>3. QED
    BY <2>1, <2>2
<1>6. EditsFresh'
  BY <1>1, <1>4 DEF TrailInv, EditsFresh, Overridden
<1>7. QED
  BY <1>1, <1>3, <1>5, <1>6 DEF TrailInv

\* No record names the gate that goes, so no row that shows an entry loses its gate.
LEMMA DeleteGateTrail ==
  ASSUME TrailInv, PassNext, NEW g \in OpenGates, DeleteGate(g) PROVE TrailInv'
<1>1. /\ pass' = [p \in Passes |-> IF pass[p] # Unissued /\ pass[p].gate = g
                                  THEN [pass[p] EXCEPT !.gate = AnyGate] ELSE pass[p]]
      /\ \A i \in 1 .. Len(accessLog) : accessLog[i].gate # g
      /\ deletedGates' = deletedGates \cup {g} /\ g \in Gates
      /\ UNCHANGED <<now, accessLog, edit, issuedFor>>
  BY DEF DeleteGate, OpenGates
<1>2. PassTypeOK /\ PassInv' /\ AnyGate \notin deletedGates'
  BY <1>1, PassInvStep, PassAssumption DEF TrailInv, PassInv, PassTypeOK
<1>3. \A p, acts : RowsOf(p, acts)' = RowsOf(p, acts)
  BY <1>1, SameRows
<1>4. ASSUME NEW p \in Passes, pass'[p] # Unissued, ~Overridden(p)' PROVE Told(p, pass[p])'
  <2>1. pass[p] # Unissued /\ pass[p] \in PassRow
    BY <1>1, <1>2, <1>4 DEF PassTypeOK
  <2>2. Told(p, pass[p])
    BY <1>3, <1>4, <2>1 DEF TrailInv, Explains, Overridden
  <2>3. /\ pass'[p].gate = IF pass[p].gate = g THEN AnyGate ELSE pass[p].gate
        /\ pass'[p].from = pass[p].from /\ pass'[p].until = pass[p].until
        /\ pass'[p].inAt = pass[p].inAt /\ pass'[p].outAt = pass[p].outAt
        /\ pass'[p].status = pass[p].status
    BY <1>1, <2>1 DEF PassRow
  <2>4. Passages(p)' = Passages(p)
    BY <1>3 DEF Passages
  <2>5. pass[p].inAt # Never => LastTold(p, pass[p])'
    <3> SUFFICES ASSUME pass[p].inAt # Never, NEW i \in Passages(p), IsLast(i, Passages(p))
                 PROVE  IF accessLog[i].action = "CHECK_IN"
                        THEN /\ pass'[p].inAt = accessLog[i].at /\ pass'[p].gate = accessLog[i].gate
                             /\ pass'[p].outAt = Never /\ pass'[p].status \in {"CHECKED_IN", "CANCELLED"}
                        ELSE /\ pass'[p].outAt = accessLog[i].at /\ pass'[p].inAt <= pass'[p].outAt
                             /\ pass'[p].status = "CHECKED_OUT"
      BY <1>1, <2>4 DEF LastTold
    <3>1. LastTold(p, pass[p]) /\ accessLog[i].gate # g
      BY <1>1, <2>2 DEF Told, Passages, RowsOf
    <3>2. QED
      BY <2>3, <3>1 DEF LastTold
  <2>6. /\ issuedFor'[p] \in {AnyGate, pass'[p].gate} \cup deletedGates'
        /\ pass'[p].gate \notin deletedGates'
    BY <1>1, <1>2, <2>2, <2>3 DEF Told
  <2>7. QED
    BY <1>1, <2>2, <2>3, <2>4, <2>5, <2>6 DEF Told
<1>5. EditsFresh'
  BY <1>1, <1>3 DEF TrailInv, EditsFresh, Overridden
<1>6. QED
  BY <1>1, <1>2, <1>4, <1>5 DEF TrailInv, Explains

\* Time and the start of a PATCH: rows, gates and trail rest.
LEMMA ClockAndLoadTrail ==
  ASSUME TrailInv, PassNext,
         UNCHANGED <<pass, accessLog, deletedGates, issuedFor>>, now' \in Nat, now <= now', EditsFresh'
  PROVE  TrailInv'
<1>1. PassInv' /\ PassTypeOK
  BY PassInvStep DEF TrailInv, PassInv
<1>2. \A p, acts : RowsOf(p, acts)' = RowsOf(p, acts)
  BY SameRows
<1>3. \A p \in Passes : Explains(p)'
  BY <1>1, <1>2, ToldStays DEF TrailInv, Passages, Overridden
<1>4. now' # Never
  BY <1>1, PassAssumption DEF TrailInv, Never, PassTypeOK, Instants
<1>5. QED
  BY <1>1, <1>3, <1>4 DEF TrailInv

LEMMA PassTickTrail == ASSUME TrailInv, PassNext, PassTick PROVE TrailInv'
<1>1. now' = now + 1 /\ UNCHANGED <<pass, accessLog, edit, deletedGates, issuedFor>>
  BY DEF PassTick
<1>2. now' \in Nat /\ now <= now'
  BY <1>1, PassAssumption DEF TrailInv, PassInv, PassTypeOK, Instants, Never
<1>3. EditsFresh'
  BY <1>1, SameRows DEF TrailInv, EditsFresh, Overridden
<1>4. QED
  BY <1>1, <1>2, <1>3, ClockAndLoadTrail

LEMMA LoadForUpdateTrail ==
  ASSUME TrailInv, PassNext, NEW e \in Editors, NEW p \in Passes, LoadForUpdate(e, p)
  PROVE  TrailInv'
<1>1. /\ pass[p].status = "PENDING" /\ PassTypeOK
      /\ edit' = [edit EXCEPT ![e] = [pass |-> p, row |-> pass[p]]]
      /\ UNCHANGED <<now, pass, accessLog, deletedGates, issuedFor>>
  BY DEF LoadForUpdate, TrailInv, PassInv
<1>2. pass[p] # Unissued
  BY <1>1 DEF Unissued
<1>3. ~Overridden(p) => pass[p].inAt = Never /\ pass[p].outAt = Never
  BY <1>1, <1>2 DEF TrailInv, Explains, Told
<1>4. /\ edit'[e].pass = p /\ edit'[e].row = pass[p]
      /\ \A k \in Editors \ {e} : edit'[k] = edit[k]
  BY <1>1 DEF PassTypeOK
<1>5. \A q : Overridden(q)' = Overridden(q)
  BY <1>1, SameRows DEF Overridden
<1>6. EditsFresh'
  BY <1>3, <1>4, <1>5 DEF TrailInv, EditsFresh
<1>7. now' \in Nat /\ now <= now'
  BY <1>1, PassAssumption DEF PassTypeOK, Instants, Never
<1>8. QED
  BY <1>1, <1>6, <1>7, ClockAndLoadTrail

\* The exception of LogExplainsPass: what is saved shows no entry.
LEMMA SaveUpdateTrail ==
  ASSUME TrailInv, PassNext, NEW e \in Editors, SaveUpdate(e) PROVE TrailInv'
<1>1. PassTypeOK /\ edit[e] # NoEdit /\ EditsPending
  BY DEF SaveUpdate, TrailInv, PassInv
<1>2. PICK p \in Passes, row \in PassRow : edit[e].pass = p /\ edit[e].row = row
  BY <1>1 DEF PassTypeOK
<1>3. PICK g \in OpenGates \cup {AnyGate}, from \in 1 .. MaxTime, until \in 1 .. MaxTime :
         /\ pass' = [pass EXCEPT ![p] = [row EXCEPT !.gate = g, !.from = from, !.until = until]]
         /\ issuedFor' = [issuedFor EXCEPT ![p] = g]
  BY <1>2 DEF SaveUpdate
<1>4. edit' = [edit EXCEPT ![e] = NoEdit] /\ UNCHANGED <<now, accessLog, deletedGates>>
  BY DEF SaveUpdate
<1>5. /\ \A q \in Passes \ {p} : pass'[q] = pass[q] /\ issuedFor'[q] = issuedFor[q]
      /\ pass'[p] = [row EXCEPT !.gate = g, !.from = from, !.until = until]
      /\ issuedFor'[p] = g /\ g \notin deletedGates'
  BY <1>1, <1>3, <1>4, PassAssumption DEF PassTypeOK, OpenGates
<1>6. /\ pass'[p].gate = g /\ pass'[p].status = "PENDING"
      /\ pass'[p].inAt = row.inAt /\ pass'[p].outAt = row.outAt
  BY <1>1, <1>2, <1>5 DEF PassRow, EditsPending
<1>7. \A q, acts : RowsOf(q, acts)' = RowsOf(q, acts)
  BY <1>4, SameRows
<1>8. Explains(p)'
  <2>1. CASE Overridden(p)
    BY <1>7, <2>1 DEF Explains, Overridden
  <2>2. CASE ~Overridden(p)
    <3>1. row.inAt = Never /\ row.outAt = Never
      BY <1>1, <1>2, <2>2 DEF TrailInv, EditsFresh
    <3>2. QED
      BY <1>5, <1>6, <3>1, FreshTold
  <2>3. QED
    BY <2>1, <2>2
<1>9. now \in Nat /\ now <= now
  BY <1>1, PassAssumption DEF PassTypeOK, Instants, Never
<1>10. ASSUME NEW q \in Passes \ {p} PROVE Explains(q)'
  BY <1>1, <1>4, <1>5, <1>7, <1>9, ToldStays DEF TrailInv, Passages, Overridden
<1>11. EditsFresh'
  BY <1>1, <1>4, <1>7 DEF TrailInv, EditsFresh, Overridden, PassTypeOK
<1>12. PassInv' /\ now' # Never
  BY <1>4, PassInvStep DEF TrailInv
<1>13. QED
  BY <1>8, <1>10, <1>11, <1>12 DEF TrailInv

-----------------------------------------------------------------------------
LEMMA TrailInvInit == PassInit => TrailInv
  BY PassInvInit DEF PassInit, TrailInv, Never, EditsFresh, Explains

LEMMA TrailInvStep == TrailInv /\ [PassNext]_passVars => TrailInv'
<1> SUFFICES ASSUME TrailInv, [PassNext]_passVars PROVE TrailInv'
  OBVIOUS
<1>1. CASE UNCHANGED passVars
  <2>1. UNCHANGED <<now, pass, accessLog, edit, deletedGates, approvals, issuedFor>>
    BY <1>1 DEF passVars
  <2>2. PassInv'
    BY PassInvStep DEF TrailInv
  <2>3. \A p, acts : RowsOf(p, acts)' = RowsOf(p, acts)
    BY <2>1, SameRows
  <2>4. EditsFresh'
    BY <2>1, <2>3 DEF TrailInv, EditsFresh, Overridden
  <2>5. now \in Nat /\ now <= now /\ PassTypeOK
    BY PassAssumption DEF TrailInv, PassInv, PassTypeOK, Instants, Never
  <2>6. \A p \in Passes : Explains(p)'
    BY <2>1, <2>3, <2>5, ToldStays DEF TrailInv, Passages, Overridden
  <2>7. QED
    BY <2>1, <2>2, <2>4, <2>6 DEF TrailInv
<1>2. ASSUME PassNext PROVE TrailInv'
  <2>1. ASSUME NEW p \in Passes, create_access_pass(p) \/ approve(p) \/ reject(p) \/ cancel(p)
                                 \/ bulk_expire_by_ids(p)
        PROVE  TrailInv'
    BY <1>2, <2>1, create_access_passTrail, DecidedTrail
  <2>2. ASSUME NEW p \in Passes, NEW g \in OpenGates,
               validate_qr(p, g) \/ check_in(p, g) \/ check_out(p, g) \/ manager_override(p, g)
        PROVE  TrailInv'
    BY <1>2, <2>2, validate_qrTrail, check_inTrail, check_outTrail, manager_overrideTrail
  <2>3. ASSUME NEW e \in Editors, SaveUpdate(e) \/ \E p \in Passes : LoadForUpdate(e, p)
        PROVE  TrailInv'
    BY <1>2, <2>3, SaveUpdateTrail, LoadForUpdateTrail
  <2>4. ASSUME NEW g \in OpenGates, DeleteGate(g) PROVE TrailInv'
    BY <1>2, <2>4, DeleteGateTrail
  <2>5. QED
    BY <1>2, <2>1, <2>2, <2>3, <2>4, expire_passesTrail, PassTickTrail DEF PassNext
<1>3. QED
  BY <1>1, <1>2

(***************************************************************************)
(* What the trail says of a pass no manager has overridden is what its row *)
(* says, or a PATCH wiped the entry and the row shows none.                *)
(***************************************************************************)
THEOREM TrailExplainsPass == PassSpec => []LogExplainsPass
<1>1. TrailInv => LogExplainsPass
  BY DEF TrailInv, Explains, Told, LastTold, Passages, LogExplainsPass
<1>2. QED
  BY TrailInvInit, TrailInvStep, <1>1, PTL DEF PassSpec

-----------------------------------------------------------------------------
(***************************************************************************)
(* Proofs about visits, for any visitors, gates, requests and bounds.      *)
(*                                                                         *)
(* A save writes a whole row that some request loaded, so what is true of  *)
(* the columns of one row must be true of the rows under way too           *)
(* (LoadedFit).  Where no save raced another, the row saved over is the    *)
(* row loaded, and the history has got as far as its status says (Course). *)
(***************************************************************************)

VisitorRequest == [op : VisitorOp, visitor : Visitors, row : VisitorRow]
GateRequest == [op : GateOp, gate : EntryGates, open : BOOLEAN]
RecordRequest == [op : {"record"}, gate : EntryGates, open : BOOLEAN, direction : Direction,
                  visitor : Visitors \cup {NoVisitor}, row : VisitorRow \cup {Unregistered}]

\* ColumnsFit, and what it needs to stay true when the row is saved again.
RowFits(row) == ColumnsFit(row) /\ (row.inAt => row.approvedAt)
TableFits == \A v \in Visitors : visitor[v] # Unregistered => RowFits(visitor[v])
LoadedFit == \A r \in Requests :
    request[r].op \in VisitorOp \cup {"record"} /\ request[r].row # Unregistered
       => RowFits(request[r].row)

\* The last move of v's history left v's status.
Explained(v) ==
    \E i \in Moves(v, MoveAction) :
       /\ IsLastMove(v, i)
       /\ \/ visitor[v].status = Leaves(history[v][i])
          \/ visitor[v].status = "EXPIRED" /\ history[v][i] = "APPROVED" /\ v \in windowOver

HasStep(v, n) == \E i \in Moves(v, StepAction) : Place(history[v][i]) = n
Reached(status) == CASE status = "NONE" -> 0
                     [] status = "REQUESTED" -> 1
                     [] status \in {"APPROVED", "EXPIRED"} -> 2
                     [] status = "CHECKED_IN" -> 3
                     [] status = "CHECKED_OUT" -> 4
\* The steps of v's history come in order and end when v is turned back.
Ordered(v) ==
    /\ \A i, j \in Moves(v, StepAction) : i < j => Place(history[v][i]) < Place(history[v][j])
    /\ \A i \in Moves(v, TurnedBack), j \in Moves(v, StepAction) : j < i
    /\ \A n \in 2 .. 4 : HasStep(v, n) => HasStep(v, n - 1)
    /\ HasStep(v, 3) => visitor[v].inAt
\* And they have got as far as the status says.
Course(v) ==
    /\ Ordered(v)
    /\ visitor[v].status \notin {"REJECTED", "CANCELLED"} =>
          /\ Moves(v, TurnedBack) = {}
          /\ \A n \in 1 .. 4 : HasStep(v, n) <=> n <= Reached(visitor[v].status)

VisitInv ==
    /\ VisitTypeOK /\ TableFits /\ LoadedFit
    /\ \A v \in Visitors : visitor[v] # Unregistered => Explained(v)
    /\ \A v \in Visitors \ raced : Course(v)

-----------------------------------------------------------------------------
(* Rows, requests and histories.                                           *)

LEMMA VisitorTyped ==
  ASSUME VisitTypeOK, NEW v \in Visitors
  PROVE  /\ visitor[v].status = "NONE" <=> visitor[v] = Unregistered
         /\ visitor[v] # Unregistered => visitor[v] \in VisitorRow
         /\ history[v] \in Seq(HistoryAction)
<1>1. visitor[v] \in VisitorRow \cup {Unregistered}
  BY DEF VisitTypeOK
<1>2. \A row \in VisitorRow : row.status # "NONE"
  BY DEF VisitorRow, VisitorStatus
<1>3. QED
  BY <1>1, <1>2 DEF Unregistered, VisitTypeOK

LEMMA RequestTyped ==
  ASSUME VisitTypeOK, NEW r \in Requests
  PROVE  /\ request[r].op \in VisitorOp => request[r] \in VisitorRequest
         /\ request[r].op \in GateOp => request[r] \in GateRequest
         /\ request[r].op = "record" => request[r] \in RecordRequest
<1>1. request[r] \in {NoRequest} \cup VisitorRequest \cup GateRequest \cup RecordRequest
  BY DEF VisitTypeOK, VisitorRequest, GateRequest, RecordRequest
<1>2. /\ \A q \in VisitorRequest : q.op \in VisitorOp
      /\ \A q \in GateRequest : q.op \in GateOp
      /\ \A q \in RecordRequest : q.op = "record"
      /\ NoRequest.op = "none"
  BY DEF VisitorRequest, GateRequest, RecordRequest, NoRequest
<1>3. QED
  BY <1>1, <1>2 DEF VisitorOp, GateOp

\* A new row of the history is a new move and changes no old one.
LEMMA HistoryGrows ==
  ASSUME VisitTypeOK, NEW v \in Visitors, NEW act \in HistoryAction,
         history' = [history EXCEPT ![v] = Append(@, act)]
  PROVE  /\ history' \in [Visitors -> Seq(HistoryAction)]
         /\ \A u \in Visitors \ {v} : history'[u] = history[u]
         /\ Len(history[v]) \in Nat
         /\ history'[v][Len(history[v]) + 1] = act
         /\ \A i \in 1 .. Len(history[v]) : history'[v][i] = history[v][i]
         /\ Len(history'[v]) = Len(history[v]) + 1
<1>1. history \in [Visitors -> Seq(HistoryAction)]
  BY DEF VisitTypeOK
<1>2. history[v] \in Seq(HistoryAction) /\ history'[v] = Append(history[v], act)
  BY <1>1
<1>3. QED
  BY <1>1, <1>2

LEMMA MovesGrow ==
  ASSUME VisitTypeOK, NEW v \in Visitors, NEW act \in HistoryAction,
         history' = [history EXCEPT ![v] = Append(@, act)], NEW acts
  PROVE  Moves(v, acts)' = Moves(v, acts)
                           \cup (IF act \in acts THEN {Len(history[v]) + 1} ELSE {})
<1> DEFINE n == Len(history[v])
<1>1. /\ n \in Nat /\ Len(history'[v]) = n + 1 /\ history'[v][n + 1] = act
      /\ \A i \in 1 .. n : history'[v][i] = history[v][i]
  BY HistoryGrows
<1>2. Moves(v, acts)' = {i \in 1 .. (n + 1) : history'[v][i] \in acts}
  BY <1>1 DEF Moves
<1>3. Moves(v, acts) = {i \in 1 .. n : history[v][i] \in acts}
  BY DEF Moves
<1> HIDE DEF n
<1>4. 1 .. (n + 1) = (1 .. n) \cup {n + 1}
  BY <1>1
<1>5. QED
  BY <1>1, <1>2, <1>3, <1>4 DEF n

\* Another visitor's history and row, and a row of one's own that is no move.
LEMMA OthersKeep ==
  ASSUME NEW u \in Visitors, history'[u] = history[u], visitor'[u] = visitor[u],
         windowOver \subseteq windowOver'
  PROVE  /\ Explained(u) => Explained(u)'
         /\ Course(u) => Course(u)'
  BY DEF Explained, IsLastMove, Course, Ordered, HasStep, Moves

-----------------------------------------------------------------------------
(* A save                                                                  *)

LEMMA SaveTables ==
  ASSUME VisitTypeOK, NEW v \in Visitors, NEW loaded, NEW row \in VisitorRow, NEW act \in MoveAction,
         SaveVisitor(v, loaded, row, act)
  PROVE  /\ visitor' \in [Visitors -> VisitorRow \cup {Unregistered}]
         /\ visitor'[v] = row /\ \A u \in Visitors \ {v} : visitor'[u] = visitor[u]
         /\ history' = [history EXCEPT ![v] = Append(@, act)] /\ act \in HistoryAction
         /\ raced \subseteq raced' /\ raced' \subseteq Visitors
         /\ v \notin raced' => visitor[v] = loaded
  BY DEF VisitTypeOK, SaveVisitor, MoveAction

LEMMA SaveExplains ==
  ASSUME VisitTypeOK, NEW v \in Visitors, NEW loaded, NEW row \in VisitorRow, NEW act \in MoveAction,
         SaveVisitor(v, loaded, row, act), row.status = Leaves(act)
  PROVE  Explained(v)'
<1>1. history' = [history EXCEPT ![v] = Append(@, act)] /\ act \in HistoryAction /\ visitor'[v] = row
  BY SaveTables
<1>2. PICK n \in Nat : n = Len(history[v]) + 1
  BY <1>1, HistoryGrows
<1>3. history'[v][n] = act /\ Len(history[v]) \in Nat
  BY <1>1, <1>2, HistoryGrows
<1>4. Moves(v, MoveAction)' = Moves(v, MoveAction) \cup {n}
  BY <1>1, <1>2, MovesGrow
<1>5. Moves(v, MoveAction) \subseteq 1 .. Len(history[v])
  BY DEF Moves
<1>6. IsLastMove(v, n)'
  BY <1>2, <1>3, <1>4, <1>5 DEF IsLastMove
<1>7. QED
  BY <1>1, <1>3, <1>4, <1>6 DEF Explained

\* The status a step is taken from.
Before(act) == CASE act = "CREATED" -> "NONE"
                 [] act = "APPROVED" -> "REQUESTED"
                 [] act = "CHECK_IN" -> "APPROVED"
                 [] act = "CHECK_OUT" -> "CHECKED_IN"

LEMMA SaveTurns ==
  ASSUME VisitTypeOK, NEW v \in Visitors, NEW loaded, NEW row \in VisitorRow, NEW act \in TurnedBack,
         SaveVisitor(v, loaded, row, act), row.status = Leaves(act), row.inAt = visitor[v].inAt,
         Course(v)
  PROVE  Course(v)'
<1> DEFINE n == Len(history[v])
<1>1. act \in MoveAction /\ act \notin StepAction
  BY DEF TurnedBack, MoveAction, HistoryAction, StepAction
<1>0. history' = [history EXCEPT ![v] = Append(@, act)] /\ act \in HistoryAction /\ visitor'[v] = row
  BY <1>1, SaveTables
<1>2. /\ n \in Nat /\ history'[v][n + 1] = act /\ visitor'[v] = row
      /\ \A i \in 1 .. n : history'[v][i] = history[v][i]
  BY <1>0, HistoryGrows
<1>3. /\ Moves(v, StepAction)' = Moves(v, StepAction)
      /\ Moves(v, TurnedBack)' = Moves(v, TurnedBack) \cup {n + 1}
  <2>1. Moves(v, StepAction)' = Moves(v, StepAction) \cup {}
    BY <1>0, <1>1, MovesGrow
  <2>2. Moves(v, TurnedBack)' = Moves(v, TurnedBack) \cup {n + 1}
    BY <1>0, <1>1, MovesGrow
  <2>3. QED
    BY <2>1, <2>2
<1>4. Moves(v, StepAction) \subseteq 1 .. n /\ Moves(v, TurnedBack) \subseteq 1 .. n
  BY DEF Moves
<1> HIDE DEF n
<1>5. \A i \in Moves(v, StepAction) : history'[v][i] = history[v][i]
  BY <1>2, <1>4
<1>6. \A k : HasStep(v, k)' <=> HasStep(v, k)
  BY <1>3, <1>5 DEF HasStep
<1>7. Ordered(v)'
  <2>1. \A i, j \in Moves(v, StepAction)' : i < j => Place(history'[v][i]) < Place(history'[v][j])
    BY <1>3, <1>5 DEF Course, Ordered
  <2>2. \A i \in Moves(v, TurnedBack)', j \in Moves(v, StepAction)' : j < i
    BY <1>2, <1>3, <1>4 DEF Course, Ordered
  <2>3. (\A k \in 2 .. 4 : HasStep(v, k)' => HasStep(v, k - 1)') /\ (HasStep(v, 3)' => visitor'[v].inAt)
    BY <1>2, <1>6 DEF Course, Ordered
  <2>4. QED
    BY <2>1, <2>2, <2>3 DEF Ordered
<1>8. visitor'[v].status \in {"REJECTED", "CANCELLED"}
  BY <1>2 DEF TurnedBack, Leaves
<1>9. QED
  BY <1>7, <1>8 DEF Course

LEMMA SaveSteps ==
  ASSUME VisitTypeOK, NEW v \in Visitors, NEW loaded, NEW row \in VisitorRow, NEW act \in StepAction,
         SaveVisitor(v, loaded, row, act), row.status = Leaves(act), visitor[v].status = Before(act),
         Place(act) >= 3 => row.inAt,
         Course(v)
  PROVE  Course(v)'
<1> DEFINE n == Len(history[v])
           k == Place(act)
<1>1. act \in MoveAction /\ act \notin TurnedBack
  BY DEF TurnedBack, MoveAction, HistoryAction, StepAction
<1>0. history' = [history EXCEPT ![v] = Append(@, act)] /\ act \in HistoryAction /\ visitor'[v] = row
  BY <1>1, SaveTables
<1>2. /\ n \in Nat /\ history'[v][n + 1] = act /\ visitor'[v] = row
      /\ \A i \in 1 .. n : history'[v][i] = history[v][i]
  BY <1>0, HistoryGrows
<1>3. /\ Moves(v, StepAction)' = Moves(v, StepAction) \cup {n + 1}
      /\ Moves(v, TurnedBack)' = Moves(v, TurnedBack)
  <2>1. Moves(v, StepAction)' = Moves(v, StepAction) \cup {n + 1}
    BY <1>0, <1>1, MovesGrow
  <2>2. Moves(v, TurnedBack)' = Moves(v, TurnedBack) \cup {}
    BY <1>0, <1>1, MovesGrow
  <2>3. QED
    BY <2>1, <2>2
<1>4. Moves(v, StepAction) \subseteq 1 .. n
  BY DEF Moves
<1>5. /\ k \in 1 .. 4 /\ Reached(visitor[v].status) = k - 1 /\ Reached(row.status) = k
      /\ visitor[v].status \notin {"REJECTED", "CANCELLED"}
      /\ row.status \notin {"REJECTED", "CANCELLED"}
  BY DEF StepAction, Place, Before, Leaves, Reached
<1>6. /\ Moves(v, TurnedBack) = {}
      /\ \A m \in 1 .. 4 : HasStep(v, m) <=> m <= k - 1
  BY <1>5 DEF Course
<1>7. \A i \in Moves(v, StepAction) : Place(history[v][i]) \in 1 .. 4
  BY DEF Moves, StepAction, Place
<1>8. \A i \in Moves(v, StepAction) : Place(history[v][i]) < k
  BY <1>5, <1>6, <1>7 DEF HasStep
<1> HIDE DEF n, k
<1>9. \A i \in Moves(v, StepAction) : history'[v][i] = history[v][i]
  BY <1>2, <1>4
<1>10. Place(history'[v][n + 1]) = k
  BY <1>2 DEF k
<1>11. \A m \in 1 .. 4 : HasStep(v, m)' <=> m <= k
  <2>1. ASSUME NEW m \in 1 .. 4 PROVE HasStep(v, m)' <=> HasStep(v, m) \/ m = k
    BY <1>3, <1>9, <1>10 DEF HasStep
  <2>2. QED
    BY <1>5, <1>6, <2>1
<1>12. Ordered(v)'
  <2>1. \A i, j \in Moves(v, StepAction)' : i < j => Place(history'[v][i]) < Place(history'[v][j])
    <3> SUFFICES ASSUME NEW i \in Moves(v, StepAction)', NEW j \in Moves(v, StepAction)', i < j
                 PROVE  Place(history'[v][i]) < Place(history'[v][j])
      OBVIOUS
    <3>1. i \in Moves(v, StepAction)
      BY <1>2, <1>3, <1>4
    <3>2. CASE j = n + 1
      BY <1>8, <1>9, <1>10, <3>1, <3>2
    <3>3. CASE j \in Moves(v, StepAction)
      BY <1>9, <3>1, <3>3 DEF Course, Ordered
    <3>4. QED
      BY <1>3, <3>2, <3>3
  <2>2. \A i \in Moves(v, TurnedBack)', j \in Moves(v, StepAction)' : j < i
    BY <1>3, <1>6
  <2>3. \A m \in 2 .. 4 : HasStep(v, m)' => HasStep(v, m - 1)'
    <3> SUFFICES ASSUME NEW m \in 2 .. 4, HasStep(v, m)' PROVE HasStep(v, m - 1)'
      OBVIOUS
    <3>1. m \in 1 .. 4 /\ m - 1 \in 1 .. 4 /\ m <= k
      BY <1>11
    <3>2. QED
      BY <1>5, <1>11, <3>1
  <2>4. HasStep(v, 3)' => visitor'[v].inAt
    <3>1. HasStep(v, 3)' => 3 <= k
      BY <1>11
    <3>2. QED
      BY <1>2, <1>5, <3>1 DEF k
  <2>5. QED
    BY <2>1, <2>2, <2>3, <2>4 DEF Ordered
<1>13. QED
  BY <1>2, <1>3, <1>5, <1>6, <1>11, <1>12 DEF Course

-----------------------------------------------------------------------------
(* The steps                                                               *)

RequestSet == {NoRequest} \cup VisitorRequest \cup GateRequest \cup RecordRequest

\* A save by the rules: what it writes fits, and unraced it is the next move.
LEMMA SaveStep ==
  ASSUME VisitInv, NEW v \in Visitors, NEW loaded, NEW row \in VisitorRow, NEW act \in MoveAction,
         SaveVisitor(v, loaded, row, act), row.status = Leaves(act), RowFits(row),
         visitor[v] = loaded =>
            \/ act \in TurnedBack /\ row.inAt = visitor[v].inAt
            \/ /\ act \in StepAction /\ visitor[v].status = Before(act)
               /\ Place(act) >= 3 => row.inAt,
         UNCHANGED <<vehicles, windowOver, gateActive>>, record' \in Seq(RecordRow),
         request' \in [Requests -> RequestSet], LoadedFit'
  PROVE  VisitInv'
<1>1. /\ visitor' \in [Visitors -> VisitorRow \cup {Unregistered}]
      /\ visitor'[v] = row /\ \A u \in Visitors \ {v} : visitor'[u] = visitor[u]
      /\ history' = [history EXCEPT ![v] = Append(@, act)] /\ act \in HistoryAction
      /\ raced \subseteq raced' /\ raced' \subseteq Visitors
      /\ v \notin raced' => visitor[v] = loaded
  BY SaveTables DEF VisitInv
<1>2. history' \in [Visitors -> Seq(HistoryAction)] /\ \A u \in Visitors \ {v} : history'[u] = history[u]
  BY <1>1, HistoryGrows DEF VisitInv
<1>3. VisitTypeOK'
  BY <1>1, <1>2 DEF VisitInv, VisitTypeOK, RequestSet, VisitorRequest, GateRequest, RecordRequest
<1>4. TableFits'
  BY <1>1 DEF VisitInv, TableFits
<1>5. ASSUME NEW u \in Visitors, visitor'[u] # Unregistered PROVE Explained(u)'
  <2>1. CASE u = v
    BY <2>1, SaveExplains DEF VisitInv
  <2>2. CASE u # v
    BY <1>1, <1>2, <1>5, <2>2, OthersKeep DEF VisitInv
  <2>3. QED
    BY <2>1, <2>2
<1>6. ASSUME NEW u \in Visitors \ raced' PROVE Course(u)'
  <2>1. CASE u = v
    <3>1. Course(v) /\ visitor[v] = loaded
      BY <1>1, <1>6, <2>1 DEF VisitInv
    <3>2. QED
      BY <2>1, <3>1, SaveTurns, SaveSteps DEF VisitInv
  <2>2. CASE u # v
    BY <1>1, <1>2, <1>6, <2>2, OthersKeep DEF VisitInv
  <2>3. QED
    BY <2>1, <2>2
<1>7. QED
  BY <1>3, <1>4, <1>5, <1>6 DEF VisitInv

\* A step that saves no visitor.
LEMMA QuietStep ==
  ASSUME VisitInv, UNCHANGED <<visitor, history, raced>>,
         windowOver \subseteq windowOver', windowOver' \subseteq Visitors,
         vehicles' \in [Visitors -> Nat], gateActive' \in [EntryGates -> BOOLEAN],
         record' \in Seq(RecordRow), request' \in [Requests -> RequestSet], LoadedFit'
  PROVE  VisitInv'
<1>1. VisitTypeOK'
  BY DEF VisitInv, VisitTypeOK, RequestSet, VisitorRequest, GateRequest, RecordRequest
<1>2. TableFits'
  BY DEF VisitInv, TableFits
<1>3. \A u \in Visitors : (Explained(u) => Explained(u)') /\ (Course(u) => Course(u)')
  BY OthersKeep
<1>4. QED
  BY <1>1, <1>2, <1>3 DEF VisitInv

LEMMA Requested == VisitTypeOK => request \in [Requests -> RequestSet]
  BY DEF VisitTypeOK, RequestSet, VisitorRequest, GateRequest, RecordRequest

\* A request loads what it will work on, or ends.
LEMMA RequestMoves ==
  ASSUME VisitInv, NEW r \in Requests, NEW q \in RequestSet,
         request' = [request EXCEPT ![r] = q],
         q.op \in VisitorOp \cup {"record"} /\ q.row # Unregistered => RowFits(q.row)
  PROVE  request' \in [Requests -> RequestSet] /\ LoadedFit'
<1>1. request \in [Requests -> RequestSet]
  BY Requested DEF VisitInv
<1>2. request'[r] = q /\ \A k \in Requests \ {r} : request'[k] = request[k]
  BY <1>1
<1>3. QED
  BY <1>1, <1>2 DEF VisitInv, LoadedFit

LEMMA RequestEnds ==
  ASSUME VisitInv, NEW r \in Requests, Ends(r)
  PROVE  request' \in [Requests -> RequestSet] /\ LoadedFit'
  BY RequestMoves DEF Ends, RequestSet, NoRequest, VisitorOp

LEMMA LoadVisitorInv ==
  ASSUME VisitInv, NEW r \in Requests, NEW v \in Visitors, NEW op \in VisitorOp, LoadVisitor(r, v, op)
  PROVE  VisitInv'
<1> DEFINE q == [op |-> op, visitor |-> v, row |-> visitor[v]]
<1>1. visitor[v] \in VisitorRow /\ RowFits(visitor[v])
  BY VisitorTyped DEF LoadVisitor, VisitInv, TableFits
<1>2. q \in RequestSet /\ q.row = visitor[v]
  BY <1>1 DEF RequestSet, VisitorRequest
<1>3. /\ request' = [request EXCEPT ![r] = q]
      /\ UNCHANGED <<visitor, history, vehicles, windowOver, gateActive, record, raced>>
  BY DEF LoadVisitor
<1> HIDE DEF q
<1>4. request' \in [Requests -> RequestSet] /\ LoadedFit'
  BY <1>1, <1>2, <1>3, RequestMoves
<1>5. QED
  BY <1>3, <1>4, QuietStep DEF VisitInv, VisitTypeOK

LEMMA LoadPassageInv ==
  ASSUME VisitInv, NEW r \in Requests, NEW g \in EntryGates, NEW v \in Visitors \cup {NoVisitor},
         NEW dir \in Direction, _resolve_related(r, g, v, dir)
  PROVE  VisitInv'
<1> DEFINE row == IF v = NoVisitor THEN Unregistered ELSE visitor[v]
           q == [op |-> "record", gate |-> g, open |-> gateActive[g], visitor |-> v,
                 direction |-> dir, row |-> row]
<1>1. row \in VisitorRow \cup {Unregistered} /\ (row # Unregistered => RowFits(row))
  BY VisitorTyped DEF _resolve_related, VisitInv, TableFits
<1>2. gateActive[g] \in BOOLEAN
  BY DEF VisitInv, VisitTypeOK
<1>3. /\ request' = [request EXCEPT ![r] = q]
      /\ UNCHANGED <<visitor, history, vehicles, windowOver, gateActive, record, raced>>
  BY DEF _resolve_related
<1> HIDE DEF row
<1>4. q \in RequestSet /\ q.row = row
  BY <1>1, <1>2 DEF RequestSet, RecordRequest
<1> HIDE DEF q
<1>5. request' \in [Requests -> RequestSet] /\ LoadedFit'
  BY <1>1, <1>3, <1>4, RequestMoves
<1>6. QED
  BY <1>3, <1>5, QuietStep DEF VisitInv, VisitTypeOK

LEMMA LoadGateInv ==
  ASSUME VisitInv, NEW r \in Requests, NEW g \in EntryGates, NEW op \in GateOp, LoadGate(r, g, op)
  PROVE  VisitInv'
<1> DEFINE q == [op |-> op, gate |-> g, open |-> gateActive[g]]
<1>1. gateActive[g] \in BOOLEAN
  BY DEF VisitInv, VisitTypeOK
<1>2. q \in RequestSet /\ q.op \notin VisitorOp \cup {"record"}
  BY <1>1 DEF RequestSet, GateRequest, GateOp, VisitorOp
<1>3. /\ request' = [request EXCEPT ![r] = q]
      /\ UNCHANGED <<visitor, history, vehicles, windowOver, gateActive, record, raced>>
  BY DEF LoadGate
<1> HIDE DEF q
<1>4. request' \in [Requests -> RequestSet] /\ LoadedFit'
  BY <1>2, <1>3, RequestMoves
<1>5. QED
  BY <1>3, <1>4, QuietStep DEF VisitInv, VisitTypeOK

\* The rows the services write.
LEMMA ChangesFit ==
  ASSUME NEW row \in VisitorRow, RowFits(row)
  PROVE  /\ row.status = "REQUESTED" =>
               /\ Approved(row) \in VisitorRow /\ RowFits(Approved(row))
               /\ Approved(row).status = Leaves("APPROVED")
         /\ /\ Rejected(row) \in VisitorRow /\ RowFits(Rejected(row))
            /\ Rejected(row).status = Leaves("REJECTED") /\ Rejected(row).inAt = row.inAt
         /\ /\ Cancelled(row) \in VisitorRow /\ RowFits(Cancelled(row))
            /\ Cancelled(row).status = Leaves("CANCELLED") /\ Cancelled(row).inAt = row.inAt
         /\ MayCheckIn(row) =>
               /\ CheckedIn(row) \in VisitorRow /\ RowFits(CheckedIn(row))
               /\ CheckedIn(row).status = Leaves("CHECK_IN") /\ CheckedIn(row).inAt
         /\ MayCheckOut(row) =>
               /\ CheckedOut(row) \in VisitorRow /\ RowFits(CheckedOut(row))
               /\ CheckedOut(row).status = Leaves("CHECK_OUT") /\ CheckedOut(row).inAt
<1> USE DEF VisitorRow, VisitorStatus, RowFits, ColumnsFit
<1>1. ASSUME row.status = "REQUESTED"
      PROVE  /\ Approved(row) \in VisitorRow /\ RowFits(Approved(row))
             /\ Approved(row).status = Leaves("APPROVED")
  <2>1. /\ Approved(row) \in VisitorRow /\ Approved(row).status = "APPROVED"
        /\ Approved(row).approvedAt /\ Approved(row).inAt = row.inAt
        /\ Approved(row).outAt = row.outAt
    BY DEF Approved
  <2>2. ~row.inAt /\ ~row.outAt
    BY <1>1
  <2>3. QED
    BY <2>1, <2>2 DEF Leaves
<1>2. /\ Rejected(row) \in VisitorRow /\ RowFits(Rejected(row))
      /\ Rejected(row).status = Leaves("REJECTED") /\ Rejected(row).inAt = row.inAt
  BY DEF Rejected, Leaves
<1>3. /\ Cancelled(row) \in VisitorRow /\ RowFits(Cancelled(row))
      /\ Cancelled(row).status = Leaves("CANCELLED") /\ Cancelled(row).inAt = row.inAt
  BY DEF Cancelled, Leaves
<1>4. ASSUME MayCheckIn(row)
      PROVE  /\ CheckedIn(row) \in VisitorRow /\ RowFits(CheckedIn(row))
             /\ CheckedIn(row).status = Leaves("CHECK_IN") /\ CheckedIn(row).inAt
  BY <1>4 DEF MayCheckIn, CheckedIn, Leaves
<1>5. ASSUME MayCheckOut(row)
      PROVE  /\ CheckedOut(row) \in VisitorRow /\ RowFits(CheckedOut(row))
             /\ CheckedOut(row).status = Leaves("CHECK_OUT") /\ CheckedOut(row).inAt
  BY <1>5 DEF MayCheckOut, CheckedOut, Leaves
<1>6. QED
  BY <1>1, <1>2, <1>3, <1>4, <1>5

LEMMA createInv == ASSUME VisitInv, NEW v \in Visitors, create(v) PROVE VisitInv'
<1> DEFINE row == [status |-> "REQUESTED", approvedAt |-> FALSE, inAt |-> FALSE, outAt |-> FALSE]
<1>1. row \in VisitorRow /\ RowFits(row) /\ row.status = Leaves("CREATED")
  BY DEF VisitorRow, VisitorStatus, RowFits, ColumnsFit, Leaves
<1>2. /\ visitor[v] = Unregistered /\ SaveVisitor(v, Unregistered, row, "CREATED")
      /\ UNCHANGED <<vehicles, windowOver, gateActive, record, request>>
  BY DEF create
<1> HIDE DEF row
<1>3. /\ "CREATED" \in MoveAction /\ "CREATED" \in StepAction
      /\ visitor[v].status = Before("CREATED") /\ Place("CREATED") = 1
  BY <1>2 DEF MoveAction, HistoryAction, StepAction, Before, Place, Unregistered
<1>4. record' \in Seq(RecordRow) /\ request' \in [Requests -> RequestSet] /\ LoadedFit'
  BY <1>2, Requested DEF VisitInv, VisitTypeOK, LoadedFit
<1>5. QED
  BY <1>1, <1>2, <1>3, <1>4, SaveStep

\* The row a request has loaded is a visitor's, and fits.
LEMMA Loaded ==
  ASSUME VisitInv, NEW r \in Requests, request[r].op \in VisitorOp
  PROVE  request[r].visitor \in Visitors /\ request[r].row \in VisitorRow /\ RowFits(request[r].row)
<1>1. request[r] \in VisitorRequest
  BY RequestTyped DEF VisitInv
<1>2. request[r].row # Unregistered
  BY <1>1 DEF VisitorRequest, VisitorRow, VisitorStatus, Unregistered
<1>3. QED
  BY <1>1, <1>2 DEF VisitorRequest, VisitInv, LoadedFit

LEMMA ServedInv ==
  ASSUME VisitInv, NEW r \in Requests,
         approve_visitor(r) \/ reject_visitor(r) \/ cancel_visitor(r)
  PROVE  VisitInv'
<1>1. request[r].op \in VisitorOp
  BY DEF approve_visitor, reject_visitor, cancel_visitor, Serve, VisitorOp
<1>2. PICK v \in Visitors, old \in VisitorRow : v = request[r].visitor /\ old = request[r].row /\ RowFits(old)
  BY <1>1, Loaded
<1>3. Ends(r) /\ UNCHANGED <<vehicles, windowOver, gateActive, record>>
  BY DEF approve_visitor, reject_visitor, cancel_visitor, Serve
<1>4. record' \in Seq(RecordRow) /\ request' \in [Requests -> RequestSet] /\ LoadedFit'
  BY <1>3, RequestEnds DEF VisitInv, VisitTypeOK
<1>5. CASE approve_visitor(r)
  <2>1. old.status = "REQUESTED" /\ SaveVisitor(v, old, Approved(old), "APPROVED")
    BY <1>2, <1>5 DEF approve_visitor
  <2>2. "APPROVED" \in MoveAction /\ "APPROVED" \in StepAction /\ Place("APPROVED") = 2
        /\ Before("APPROVED") = "REQUESTED"
    BY DEF MoveAction, HistoryAction, StepAction, Before, Place
  <2>3. QED
    BY <1>2, <1>3, <1>4, <2>1, <2>2, ChangesFit, SaveStep
<1>6. CASE reject_visitor(r)
  <2>1. SaveVisitor(v, old, Rejected(old), "REJECTED")
    BY <1>2, <1>6 DEF reject_visitor
  <2>2. "REJECTED" \in MoveAction /\ "REJECTED" \in TurnedBack
    BY DEF MoveAction, HistoryAction, TurnedBack
  <2>3. QED
    BY <1>2, <1>3, <1>4, <2>1, <2>2, ChangesFit, SaveStep
<1>7. CASE cancel_visitor(r)
  <2>1. SaveVisitor(v, old, Cancelled(old), "CANCELLED")
    BY <1>2, <1>7 DEF cancel_visitor
  <2>2. "CANCELLED" \in MoveAction /\ "CANCELLED" \in TurnedBack
    BY DEF MoveAction, HistoryAction, TurnedBack
  <2>3. QED
    BY <1>2, <1>3, <1>4, <2>1, <2>2, ChangesFit, SaveStep
<1>8. QED
  BY <1>5, <1>6, <1>7

\* Entries and exits, by the visitor's actions or at the gate.
LEMMA PassageStep ==
  ASSUME VisitInv, NEW v \in Visitors, NEW row \in VisitorRow, RowFits(row),
         check_in_visitor(v, row) \/ check_out_visitor(v, row),
         UNCHANGED <<vehicles, windowOver, gateActive>>, record' \in Seq(RecordRow),
         request' \in [Requests -> RequestSet], LoadedFit'
  PROVE  VisitInv'
<1>1. CASE check_in_visitor(v, row)
  <2>1. MayCheckIn(row) /\ SaveVisitor(v, row, CheckedIn(row), "CHECK_IN") /\ row.status = "APPROVED"
    BY <1>1 DEF check_in_visitor, MayCheckIn
  <2>2. "CHECK_IN" \in MoveAction /\ "CHECK_IN" \in StepAction /\ Before("CHECK_IN") = "APPROVED"
    BY DEF MoveAction, HistoryAction, StepAction, Before
  <2>3. QED
    BY <2>1, <2>2, ChangesFit, SaveStep
<1>2. CASE check_out_visitor(v, row)
  <2>1. MayCheckOut(row) /\ SaveVisitor(v, row, CheckedOut(row), "CHECK_OUT") /\ row.status = "CHECKED_IN"
    BY <1>2 DEF check_out_visitor, MayCheckOut
  <2>2. "CHECK_OUT" \in MoveAction /\ "CHECK_OUT" \in StepAction /\ Before("CHECK_OUT") = "CHECKED_IN"
    BY DEF MoveAction, HistoryAction, StepAction, Before
  <2>3. QED
    BY <2>1, <2>2, ChangesFit, SaveStep
<1>3. QED
  BY <1>1, <1>2

LEMMA CheckedInv ==
  ASSUME VisitInv, NEW r \in Requests, checkin(r) \/ checkout(r) PROVE VisitInv'
<1>1. request[r].op \in VisitorOp /\ Ends(r) /\ UNCHANGED <<vehicles, windowOver, gateActive, record>>
  BY DEF checkin, checkout, Serve, VisitorOp
<1>2. PICK v \in Visitors, old \in VisitorRow : v = request[r].visitor /\ old = request[r].row /\ RowFits(old)
  BY <1>1, Loaded
<1>3. check_in_visitor(v, old) \/ check_out_visitor(v, old)
  BY <1>2 DEF checkin, checkout
<1>4. record' \in Seq(RecordRow) /\ request' \in [Requests -> RequestSet] /\ LoadedFit'
  BY <1>1, RequestEnds DEF VisitInv, VisitTypeOK
<1>5. QED
  BY <1>1, <1>2, <1>3, <1>4, PassageStep

LEMMA record_passageInv ==
  ASSUME VisitInv, NEW r \in Requests, record_passage(r) PROVE VisitInv'
<1>1. request[r].op = "record" /\ Ends(r) /\ UNCHANGED <<vehicles, windowOver, gateActive>>
  BY DEF record_passage, Serve
<1>2. PICK q \in RecordRequest : q = request[r]
  BY <1>1, RequestTyped DEF VisitInv
<1>3. /\ record' = Append(record, [gate |-> q.gate, visitor |-> q.visitor, direction |-> q.direction])
      /\ _sync_visitor_status(q)
  BY <1>2 DEF record_passage
<1>4. [gate |-> q.gate, visitor |-> q.visitor, direction |-> q.direction] \in RecordRow
  BY DEF RecordRequest, RecordRow
<1>5. record' \in Seq(RecordRow)
  BY <1>3, <1>4 DEF VisitInv, VisitTypeOK
<1>6. request' \in [Requests -> RequestSet] /\ LoadedFit'
  BY <1>1, RequestEnds
<1>7. CASE UNCHANGED <<visitor, history, raced>>
  BY <1>1, <1>5, <1>6, <1>7, QuietStep DEF VisitInv, VisitTypeOK
<1>8. CASE q.visitor # NoVisitor /\ (check_in_visitor(q.visitor, q.row) \/ check_out_visitor(q.visitor, q.row))
  <2>1. q.visitor \in Visitors /\ q.row \in VisitorRow \cup {Unregistered}
    BY <1>8 DEF RecordRequest
  <2>2. q.row # Unregistered
    BY <1>8 DEF check_in_visitor, check_out_visitor, MayCheckIn, MayCheckOut, Unregistered
  <2>3. RowFits(q.row)
    BY <1>1, <1>2, <2>2 DEF VisitInv, LoadedFit
  <2>4. QED
    BY <1>1, <1>5, <1>6, <1>8, <2>1, <2>2, <2>3, PassageStep
<1>9. QED
  BY <1>3, <1>7, <1>8 DEF _sync_visitor_status

LEMMA add_vehicleInv == ASSUME VisitInv, NEW v \in Visitors, add_vehicle(v) PROVE VisitInv'
<1>1. /\ vehicles' = [vehicles EXCEPT ![v] = @ + 1]
      /\ history' = [history EXCEPT ![v] = Append(@, "EDITED")]
      /\ UNCHANGED <<visitor, windowOver, gateActive, record, request, raced>>
      /\ VisitTypeOK /\ "EDITED" \in HistoryAction
  BY DEF add_vehicle, VisitInv, HistoryAction
<1>2. /\ history' \in [Visitors -> Seq(HistoryAction)]
      /\ \A u \in Visitors \ {v} : history'[u] = history[u]
      /\ \A i \in 1 .. Len(history[v]) : history'[v][i] = history[v][i]
  BY <1>1, HistoryGrows
<1>3. /\ Moves(v, MoveAction)' = Moves(v, MoveAction)
      /\ Moves(v, StepAction)' = Moves(v, StepAction)
      /\ Moves(v, TurnedBack)' = Moves(v, TurnedBack)
  <2>1. Moves(v, MoveAction)' = Moves(v, MoveAction) \cup {}
    BY <1>1, MovesGrow DEF MoveAction
  <2>2. Moves(v, StepAction)' = Moves(v, StepAction) \cup {}
    BY <1>1, MovesGrow DEF StepAction
  <2>3. Moves(v, TurnedBack)' = Moves(v, TurnedBack) \cup {}
    BY <1>1, MovesGrow DEF TurnedBack
  <2>4. QED
    BY <2>1, <2>2, <2>3
<1>4. \A i \in Moves(v, MoveAction) \cup Moves(v, StepAction) : history'[v][i] = history[v][i]
  BY <1>2 DEF Moves
<1>5. Explained(v) => Explained(v)'
  BY <1>1, <1>3, <1>4 DEF Explained, IsLastMove
<1>6. \A n : HasStep(v, n)' <=> HasStep(v, n)
  BY <1>3, <1>4 DEF HasStep
<1>7. Course(v) => Course(v)'
  BY <1>1, <1>3, <1>4, <1>6 DEF Course, Ordered
<1>8. \A u \in Visitors : (Explained(u) => Explained(u)') /\ (Course(u) => Course(u)')
  BY <1>1, <1>2, <1>5, <1>7, OthersKeep
<1>9. VisitTypeOK' /\ TableFits' /\ LoadedFit'
  BY <1>1, <1>2 DEF VisitInv, VisitTypeOK, TableFits, LoadedFit
<1>10. QED
  BY <1>1, <1>8, <1>9 DEF VisitInv

\* The clean-up takes approved visitors only, whose history ends in APPROVED.
LEMMA expireInv == ASSUME VisitInv, expire PROVE VisitInv'
<1> DEFINE due == {v \in windowOver : visitor[v].status = "APPROVED"}
<1>1. /\ visitor' = [v \in Visitors |->
                       IF v \in due THEN [visitor[v] EXCEPT !.status = "EXPIRED"] ELSE visitor[v]]
      /\ UNCHANGED <<history, vehicles, windowOver, gateActive, record, request, raced>>
  BY DEF expire
<1>2. ASSUME NEW v \in Visitors
      PROVE  /\ visitor'[v] \in VisitorRow \cup {Unregistered}
             /\ visitor'[v] # Unregistered => RowFits(visitor'[v])
             /\ visitor'[v] # Unregistered => Explained(v)'
             /\ v \notin raced => Course(v)'
  <2>1. CASE v \in due
    <3>1. /\ visitor[v].status = "APPROVED" /\ visitor[v] \in VisitorRow /\ RowFits(visitor[v])
          /\ Explained(v) /\ v \in windowOver /\ visitor'[v] = [visitor[v] EXCEPT !.status = "EXPIRED"]
      BY <1>1, <2>1, VisitorTyped DEF VisitInv, TableFits
    <3>2. /\ visitor'[v] \in VisitorRow /\ visitor'[v].status = "EXPIRED"
          /\ visitor'[v].approvedAt = visitor[v].approvedAt /\ visitor'[v].inAt = visitor[v].inAt
          /\ visitor'[v].outAt = visitor[v].outAt
      BY <3>1 DEF VisitorRow, VisitorStatus
    <3>3. RowFits(visitor'[v])
      BY <3>1, <3>2 DEF RowFits, ColumnsFit
    <3>4. Explained(v)'
      <4>1. PICK i \in Moves(v, MoveAction) :
               IsLastMove(v, i) /\ visitor[v].status = Leaves(history[v][i])
        BY <3>1 DEF Explained
      <4>2. history[v][i] \in MoveAction
        BY DEF Moves
      <4>3. history[v][i] = "APPROVED"
        BY <3>1, <4>1, <4>2 DEF Leaves, MoveAction, HistoryAction
      <4>4. QED
        BY <1>1, <3>1, <3>2, <4>1, <4>3 DEF Explained, IsLastMove, Moves
    <3>5. Course(v) => Course(v)'
      <4>1. Moves(v, StepAction)' = Moves(v, StepAction) /\ Moves(v, TurnedBack)' = Moves(v, TurnedBack)
        BY <1>1 DEF Moves
      <4>2. \A n : HasStep(v, n)' <=> HasStep(v, n)
        BY <1>1, <4>1 DEF HasStep
      <4>3. Ordered(v) => Ordered(v)'
        BY <1>1, <3>2, <4>1, <4>2 DEF Ordered
      <4>4. Reached(visitor'[v].status) = Reached(visitor[v].status)
        BY <3>1, <3>2 DEF Reached
      <4>5. QED
        BY <3>1, <4>1, <4>2, <4>3, <4>4 DEF Course
    <3>6. QED
      BY <3>2, <3>3, <3>4, <3>5 DEF VisitInv
  <2>2. CASE v \notin due
    <3>1. visitor'[v] = visitor[v] /\ history'[v] = history[v] /\ windowOver \subseteq windowOver'
      BY <1>1, <2>2
    <3>2. QED
      BY <3>1, OthersKeep DEF VisitInv, VisitTypeOK, TableFits
  <2>3. QED
    BY <2>1, <2>2
<1> HIDE DEF due
<1>3. VisitTypeOK' /\ TableFits' /\ LoadedFit'
  BY <1>1, <1>2 DEF VisitInv, VisitTypeOK, TableFits, LoadedFit
<1>4. QED
  BY <1>1, <1>2, <1>3 DEF VisitInv

\* Time, the gates' flag and refusals.
LEMMA OtherStepsInv ==
  ASSUME VisitInv,
         \/ \E v \in Visitors : WindowEnds(v)
         \/ deactivate_all_for_township
         \/ \E r \in Requests : activate(r) \/ deactivate(r) \/ update(r) \/ RefuseRequest(r)
  PROVE  VisitInv'
<1>1. request \in [Requests -> RequestSet] /\ VisitTypeOK
  BY Requested DEF VisitInv
<1>2. CASE \E v \in Visitors : WindowEnds(v)
  <2>1. /\ windowOver \subseteq windowOver' /\ windowOver' \subseteq Visitors
        /\ UNCHANGED <<visitor, history, vehicles, gateActive, record, request, raced>>
    BY <1>1, <1>2 DEF WindowEnds, VisitTypeOK
  <2>2. LoadedFit'
    BY <2>1 DEF VisitInv, LoadedFit
  <2>3. QED
    BY <1>1, <2>1, <2>2, QuietStep DEF VisitTypeOK
<1>3. CASE deactivate_all_for_township
  <2>1. /\ gateActive' \in [EntryGates -> BOOLEAN]
        /\ UNCHANGED <<visitor, history, vehicles, windowOver, record, request, raced>>
    BY <1>3 DEF deactivate_all_for_township
  <2>2. LoadedFit'
    BY <2>1 DEF VisitInv, LoadedFit
  <2>3. QED
    BY <1>1, <2>1, <2>2, QuietStep DEF VisitTypeOK
<1>4. ASSUME NEW r \in Requests, activate(r) \/ deactivate(r) \/ update(r) \/ RefuseRequest(r)
      PROVE  VisitInv'
  <2>1. Ends(r) /\ UNCHANGED <<visitor, history, vehicles, windowOver, record, raced>>
    BY <1>4 DEF activate, deactivate, update, RefuseRequest, Serve
  <2>2. gateActive' \in [EntryGates -> BOOLEAN]
    <3>1. CASE activate(r) \/ deactivate(r) \/ RefuseRequest(r)
      BY <1>1, <3>1 DEF activate, deactivate, RefuseRequest, VisitTypeOK
    <3>2. CASE update(r)
      <4>1. request[r].op \in GateOp
        BY <3>2 DEF update, Serve, GateOp
      <4>2. request[r].open \in BOOLEAN
        BY <1>1, <4>1, RequestTyped DEF GateRequest
      <4>3. QED
        BY <1>1, <3>2, <4>2 DEF update, VisitTypeOK
    <3>3. QED
      BY <1>4, <3>1, <3>2
  <2>3. request' \in [Requests -> RequestSet] /\ LoadedFit'
    BY <2>1, RequestEnds
  <2>4. QED
    BY <1>1, <2>1, <2>2, <2>3, QuietStep DEF VisitTypeOK
<1>5. QED
  BY <1>2, <1>3, <1>4

-----------------------------------------------------------------------------
(* The theorems                                                            *)

LEMMA VisitInvInit == VisitInit => VisitInv
<1> SUFFICES ASSUME VisitInit PROVE VisitInv
  OBVIOUS
<1>1. /\ visitor = [v \in Visitors |-> Unregistered] /\ history = [v \in Visitors |-> << >>]
      /\ vehicles = [v \in Visitors |-> 0] /\ windowOver = {} /\ raced = {} /\ record = << >>
      /\ gateActive = [g \in EntryGates |-> TRUE] /\ request = [r \in Requests |-> NoRequest]
  BY DEF VisitInit
<1>2. VisitTypeOK
  <2>1. << >> \in Seq(HistoryAction) /\ << >> \in Seq(RecordRow)
    OBVIOUS
  <2>2. QED
    BY <1>1, <2>1 DEF VisitTypeOK
<1>3. TableFits /\ LoadedFit
  BY <1>1 DEF TableFits, LoadedFit, NoRequest, VisitorOp
<1>4. \A v \in Visitors : \A acts : Moves(v, acts) = {}
  BY <1>1 DEF Moves
<1>5. \A v \in Visitors : Course(v)
  <2>1. \A v \in Visitors : \A n : ~HasStep(v, n)
    BY <1>4 DEF HasStep
  <2>2. \A v \in Visitors : Ordered(v)
    BY <1>4, <2>1 DEF Ordered
  <2>3. \A v \in Visitors : \A n \in 1 .. 4 : ~(n <= Reached(visitor[v].status))
    <3>1. \A v \in Visitors : Reached(visitor[v].status) = 0
      BY <1>1 DEF Reached, Unregistered
    <3>2. QED
      BY <3>1
  <2>4. QED
    BY <1>4, <2>1, <2>2, <2>3 DEF Course
<1>6. QED
  BY <1>1, <1>2, <1>3, <1>5 DEF VisitInv

LEMMA VisitInvStep == VisitInv /\ [VisitNext]_visitVars => VisitInv'
<1> SUFFICES ASSUME VisitInv, [VisitNext]_visitVars PROVE VisitInv'
  OBVIOUS
<1>1. CASE UNCHANGED visitVars
  <2>1. UNCHANGED <<visitor, history, vehicles, windowOver, gateActive, record, request, raced>>
    BY <1>1 DEF visitVars
  <2>2. LoadedFit' /\ request \in [Requests -> RequestSet]
    BY <2>1, Requested DEF VisitInv, LoadedFit
  <2>3. QED
    BY <2>1, <2>2, QuietStep DEF VisitInv, VisitTypeOK
<1>2. ASSUME NEW v \in Visitors, create(v) \/ add_vehicle(v) \/ WindowEnds(v) PROVE VisitInv'
  BY <1>2, createInv, add_vehicleInv, OtherStepsInv
<1>3. CASE expire \/ deactivate_all_for_township
  BY <1>3, expireInv, OtherStepsInv
<1>4. ASSUME NEW r \in Requests,
             \/ \E v \in Visitors, op \in VisitorOp : LoadVisitor(r, v, op)
             \/ \E g \in EntryGates, v \in Visitors \cup {NoVisitor}, dir \in Direction :
                   _resolve_related(r, g, v, dir)
             \/ \E g \in EntryGates, op \in GateOp : LoadGate(r, g, op)
      PROVE  VisitInv'
  BY <1>4, LoadVisitorInv, LoadPassageInv, LoadGateInv
<1>5. ASSUME NEW r \in Requests,
             \/ approve_visitor(r) \/ reject_visitor(r) \/ cancel_visitor(r)
             \/ checkin(r) \/ checkout(r) \/ record_passage(r)
      PROVE  VisitInv'
  BY <1>5, ServedInv, CheckedInv, record_passageInv
<1>6. ASSUME NEW r \in Requests, activate(r) \/ deactivate(r) \/ update(r) \/ RefuseRequest(r)
      PROVE  VisitInv'
  BY <1>6, OtherStepsInv
<1>7. QED
  BY <1>1, <1>2, <1>3, <1>4, <1>5, <1>6 DEF VisitNext

(***************************************************************************)
(* However requests race, a visitor's row is what the last move of its     *)
(* history left, and no row mixes the columns of two requests.             *)
(***************************************************************************)
THEOREM HistoryExplainsStatus == VisitSpec => []StatusHasHistory
<1>1. VisitInv => StatusHasHistory
  BY DEF VisitInv, Explained, TableFits, RowFits, StatusHasHistory
<1>2. QED
  BY VisitInvInit, VisitInvStep, <1>1, PTL DEF VisitSpec

(***************************************************************************)
(* Where no save raced another, a visit runs in order and at most once.    *)
(***************************************************************************)
THEOREM VisitsInOrder == VisitSpec => []UnracedVisitInOrder
<1>1. VisitInv => UnracedVisitInOrder
  <2> SUFFICES ASSUME VisitInv, NEW v \in Visitors \ raced
               PROVE  LET place(i) == Place(history[v][i])
                          steps == Moves(v, StepAction)
                      IN  /\ \A i, j \in steps : i < j => place(i) < place(j)
                          /\ \A i \in steps : place(i) > 1 => \E j \in steps : place(j) = place(i) - 1
                          /\ \A i \in Moves(v, TurnedBack), j \in steps : j < i
                          /\ Moves(v, {"CHECK_IN"}) # {} => visitor[v].inAt
    BY DEF UnracedVisitInOrder
  <2>1. Ordered(v)
    BY DEF VisitInv, Course
  <2>2. \A i \in Moves(v, StepAction) : Place(history[v][i]) \in 1 .. 4
    BY DEF Moves, StepAction, Place
  <2>3. ASSUME NEW i \in Moves(v, StepAction), Place(history[v][i]) > 1
        PROVE  \E j \in Moves(v, StepAction) : Place(history[v][j]) = Place(history[v][i]) - 1
    BY <2>1, <2>2, <2>3 DEF Ordered, HasStep
  <2>4. Moves(v, {"CHECK_IN"}) # {} => HasStep(v, 3)
    BY DEF Moves, HasStep, StepAction, Place
  <2>5. QED
    BY <2>1, <2>3, <2>4 DEF Ordered
<1>2. QED
  BY VisitInvInit, VisitInvStep, <1>1, PTL DEF VisitSpec

-----------------------------------------------------------------------------
(***************************************************************************)
(* Proof that the shifts of every guard agree with the guards' log, for    *)
(* any number of guards and calls.                                         *)
(*                                                                         *)
(* A shift call works with the shift it has read, which may be closed, or  *)
(* no longer the latest, when it writes.  What it read is still one of the *)
(* guard's shifts, since none is ever deleted.                             *)
(***************************************************************************)

ReadShiftExists ==
    \A c \in Calls : call[c].op \in ShiftOp /\ call[c].pc = "read" =>
       /\ call[c].shift \in 0 .. Len(shift[call[c].guard])
       /\ call[c].op = "end_shift" => call[c].shift # 0
       /\ call[c].op = "start_shift" => call[c].active

OneOpen(g) == \A i, j \in OpenShifts(g) : i = j
LogCovers(g) ==
    /\ guardLog[g]["LOGIN"] = Len(shift[g])
    /\ guardLog[g]["LOGOUT"] >= Cardinality(ClosedShifts(g))
LogExact(g) ==
    g \notin staleDuty =>
       /\ guardLog[g]["LOGOUT"] = Cardinality(ClosedShifts(g))
       /\ ~guardActive[g] => OpenShifts(g) = {}
Agrees(g) == OneOpen(g) /\ LogCovers(g) /\ LogExact(g)

DutyInv == DutyTypeOK /\ ReadShiftExists /\ \A g \in Guards : Agrees(g)

ActiveCall == [op : ShiftOp \cup RowOp, guard : Guards, pc : {"loaded", "read"},
               active : BOOLEAN, shift : Nat]
PostCall == [op : PostOp, guard : Guards, post : Posts]

-----------------------------------------------------------------------------
(* The tables.                                                             *)

\* A call with a shift or row operation has read a guard; one about a posting, a gate.
LEMMA CallKinds ==
  ASSUME DutyTypeOK, NEW c \in Calls
  PROVE  /\ call[c].op \in ShiftOp \cup RowOp => call[c] \in ActiveCall
         /\ call[c].op \in PostOp => call[c] \in PostCall
  BY DEF DutyTypeOK, ActiveCall, PostCall, NoCall, ShiftOp, RowOp, PostOp

\* While a guard has one open shift at most, current_shift finds it.
LEMMA CurrentShiftFound ==
  ASSUME DutyTypeOK, NEW g \in Guards, OneOpen(g)
  PROVE  /\ current_shift(g) \in 0 .. Len(shift[g])
         /\ current_shift(g) = 0 <=> OpenShifts(g) = {}
         /\ \A i \in OpenShifts(g) : current_shift(g) = i
<1>1. OpenShifts(g) \subseteq 1 .. Len(shift[g]) /\ Len(shift[g]) \in Nat
  BY DEF OpenShifts, DutyTypeOK
<1>2. CASE OpenShifts(g) = {}
  BY <1>1, <1>2 DEF current_shift
<1>3. CASE OpenShifts(g) # {}
  <2>1. PICK i \in OpenShifts(g) : \A j \in OpenShifts(g) : j <= i
    BY <1>1, <1>3 DEF OneOpen
  <2>2. current_shift(g) \in OpenShifts(g)
    BY <1>3, <2>1 DEF current_shift
  <2>3. QED
    BY <1>1, <1>3, <2>2 DEF OneOpen
<1>4. QED
  BY <1>2, <1>3

LEMMA ClosedFinite ==
  ASSUME DutyTypeOK, NEW g \in Guards
  PROVE  IsFiniteSet(ClosedShifts(g)) /\ Cardinality(ClosedShifts(g)) \in Nat
<1>1. Len(shift[g]) \in Nat
  BY DEF DutyTypeOK
<1>2. IsFiniteSet(1 .. Len(shift[g]))
  BY <1>1, FS_Interval
<1>3. ClosedShifts(g) \subseteq 1 .. Len(shift[g])
  BY DEF ClosedShifts
<1>4. QED
  BY <1>2, <1>3, FS_Subset, FS_CardinalityType

\* A step that leaves a guard's shifts and their log rows alone, and changes is_active only
\* to TRUE or by a stale call.
LEMMA KeptAgrees ==
  ASSUME NEW g \in Guards, Agrees(g),
         shift'[g] = shift[g],
         guardLog'[g]["LOGIN"] = guardLog[g]["LOGIN"],
         guardLog'[g]["LOGOUT"] = guardLog[g]["LOGOUT"],
         g \notin staleDuty' => g \notin staleDuty /\ (guardActive'[g] = guardActive[g] \/ guardActive'[g])
  PROVE  Agrees(g)'
<1>1. OpenShifts(g)' = OpenShifts(g) /\ ClosedShifts(g)' = ClosedShifts(g)
  BY DEF OpenShifts, ClosedShifts
<1>2. QED
  BY <1>1 DEF Agrees, OneOpen, LogCovers, LogExact

\* The rows of shift calls refer to shifts that remain.
LEMMA KeptRead ==
  ASSUME ReadShiftExists, DutyTypeOK,
         \A g \in Guards : Len(shift'[g]) \in Nat /\ Len(shift'[g]) >= Len(shift[g]),
         NEW c \in Calls, \A d \in Calls \ {c} : call'[d] = call[d],
         ~(call'[c].op \in ShiftOp /\ call'[c].pc = "read")
  PROVE  ReadShiftExists'
<1> SUFFICES ASSUME NEW d \in Calls, (call[d].op \in ShiftOp)', (call[d].pc = "read")'
             PROVE  /\ call'[d].shift \in 0 .. Len(shift'[call'[d].guard])
                    /\ call'[d].op = "end_shift" => call'[d].shift # 0
                    /\ call'[d].op = "start_shift" => call'[d].active
  BY DEF ReadShiftExists
<1>1. call'[d] = call[d]
  OBVIOUS
<1>2. call[d] \in ActiveCall
  BY <1>1, CallKinds
<1>3. /\ call[d].shift \in 0 .. Len(shift[call[d].guard])
      /\ call[d].op = "end_shift" => call[d].shift # 0
      /\ call[d].op = "start_shift" => call[d].active
  BY <1>1 DEF ReadShiftExists
<1>4. call[d].guard \in Guards /\ shift[call[d].guard] \in Seq({"open", "closed"})
  BY <1>2 DEF ActiveCall, DutyTypeOK
<1>5. QED
  BY <1>1, <1>3, <1>4

\* Log rows of some actions.
LEMMA LogsRows ==
  ASSUME DutyTypeOK, NEW g \in Guards, NEW acts \in SUBSET GuardAction, Logs(g, acts)
  PROVE  /\ guardLog' \in [Guards -> [GuardAction -> Nat]]
         /\ \A h \in Guards \ {g} : guardLog'[h] = guardLog[h]
         /\ \A a \in GuardAction : guardLog'[g][a] = guardLog[g][a] + IF a \in acts THEN 1 ELSE 0
<1>1. guardLog' = [guardLog EXCEPT ![g] =
          [a \in GuardAction |-> guardLog[g][a] + IF a \in acts THEN 1 ELSE 0]]
  BY DEF Logs
<1>2. \A a \in GuardAction : guardLog[g][a] \in Nat
  BY DEF DutyTypeOK
<1>3. [a \in GuardAction |-> guardLog[g][a] + IF a \in acts THEN 1 ELSE 0] \in [GuardAction -> Nat]
  BY <1>2
<1>4. QED
  BY <1>1, <1>3 DEF DutyTypeOK


\* A shift that is closed.
LEMMA ClosedOne ==
  ASSUME DutyTypeOK, NEW g \in Guards, NEW i \in 1 .. Len(shift[g]),
         shift' = [shift EXCEPT ![g][i] = "closed"]
  PROVE  /\ shift' \in [Guards -> Seq({"open", "closed"})]
         /\ \A h \in Guards \ {g} : shift'[h] = shift[h]
         /\ Len(shift'[g]) = Len(shift[g])
         /\ OpenShifts(g)' = OpenShifts(g) \ {i}
         /\ ClosedShifts(g)' = ClosedShifts(g) \cup {i}
         /\ Cardinality(ClosedShifts(g)') =
              Cardinality(ClosedShifts(g)) + IF i \in OpenShifts(g) THEN 1 ELSE 0
<1>1. shift[g] \in Seq({"open", "closed"})
  BY DEF DutyTypeOK
<1>2. shift'[g] = [shift[g] EXCEPT ![i] = "closed"]
  BY DEF DutyTypeOK
<1>3. shift'[g] \in Seq({"open", "closed"}) /\ Len(shift'[g]) = Len(shift[g])
  BY <1>1, <1>2
<1>4. \A j \in 1 .. Len(shift[g]) : shift'[g][j] = IF j = i THEN "closed" ELSE shift[g][j]
  BY <1>1, <1>2
<1>5. OpenShifts(g)' = OpenShifts(g) \ {i} /\ ClosedShifts(g)' = ClosedShifts(g) \cup {i}
  BY <1>3, <1>4 DEF OpenShifts, ClosedShifts
<1>6. i \in OpenShifts(g) <=> i \notin ClosedShifts(g)
  <2>1. shift[g][i] \in {"open", "closed"}
    BY <1>1
  <2>2. QED
    BY <2>1 DEF OpenShifts, ClosedShifts
<1>7. Cardinality(ClosedShifts(g)') =
        Cardinality(ClosedShifts(g)) + IF i \in OpenShifts(g) THEN 1 ELSE 0
  <2>1. Cardinality(ClosedShifts(g) \cup {i}) =
          IF i \in ClosedShifts(g) THEN Cardinality(ClosedShifts(g))
          ELSE Cardinality(ClosedShifts(g)) + 1
    BY ClosedFinite, FS_AddElement
  <2>2. Cardinality(ClosedShifts(g)) \in Nat
    BY ClosedFinite
  <2>3. QED
    BY <1>5, <1>6, <2>1, <2>2
<1>8. QED
  BY <1>3, <1>5, <1>7 DEF DutyTypeOK

\* A shift that is opened.
LEMMA OpenedOne ==
  ASSUME DutyTypeOK, NEW g \in Guards, shift' = [shift EXCEPT ![g] = Append(@, "open")]
  PROVE  /\ shift' \in [Guards -> Seq({"open", "closed"})]
         /\ \A h \in Guards \ {g} : shift'[h] = shift[h]
         /\ Len(shift'[g]) = Len(shift[g]) + 1
         /\ OpenShifts(g)' = OpenShifts(g) \cup {Len(shift[g]) + 1}
         /\ ClosedShifts(g)' = ClosedShifts(g)
<1>1. shift[g] \in Seq({"open", "closed"})
  BY DEF DutyTypeOK
<1>2. shift'[g] = Append(shift[g], "open")
  BY DEF DutyTypeOK
<1>3. /\ shift'[g] \in Seq({"open", "closed"})
      /\ Len(shift'[g]) = Len(shift[g]) + 1
      /\ Len(shift[g]) \in Nat
  BY <1>1, <1>2
<1>4. \A j \in 1 .. Len(shift[g]) + 1 :
         shift'[g][j] = IF j = Len(shift[g]) + 1 THEN "open" ELSE shift[g][j]
  BY <1>1, <1>2
<1>5. OpenShifts(g)' = OpenShifts(g) \cup {Len(shift[g]) + 1} /\ ClosedShifts(g)' = ClosedShifts(g)
  BY <1>3, <1>4 DEF OpenShifts, ClosedShifts
<1>6. QED
  BY <1>3, <1>5 DEF DutyTypeOK

-----------------------------------------------------------------------------
(* The steps.                                                              *)

\* A call that ends leaves the others as they were, and has read nothing stale unless noted.
LEMMA CallEnds ==
  ASSUME DutyTypeOK, NEW c \in Calls, call[c] \in ActiveCall, Returns(c), NotesStale(c)
  PROVE  /\ call' \in [Calls -> {NoCall} \cup ActiveCall \cup PostCall]
         /\ call'[c] = NoCall /\ \A d \in Calls \ {c} : call'[d] = call[d]
         /\ staleDuty \subseteq staleDuty' /\ staleDuty' \subseteq Guards
         /\ call[c].guard \notin staleDuty' =>
              /\ call[c].active = guardActive[call[c].guard]
              /\ call[c].shift = current_shift(call[c].guard)
<1>1. call' = [call EXCEPT ![c] = NoCall] /\ call \in [Calls -> {NoCall} \cup ActiveCall \cup PostCall]
  BY DEF Returns, DutyTypeOK, ActiveCall, PostCall
<1>2. /\ staleDuty \subseteq staleDuty'
      /\ staleDuty' \subseteq staleDuty \cup {call[c].guard}
      /\ call[c].guard \notin staleDuty' =>
            /\ call[c].active = guardActive[call[c].guard]
            /\ call[c].shift = current_shift(call[c].guard)
  BY DEF NotesStale
<1>3. staleDuty \subseteq Guards /\ call[c].guard \in Guards
  BY DEF DutyTypeOK, ActiveCall
<1>4. QED
  BY <1>1, <1>2, <1>3

LEMMA start_shiftInv ==
  ASSUME DutyInv, NEW c \in Calls, NEW g \in Guards, g = call[c].guard, start_shift(c)
  PROVE  DutyInv'
<1>0. DutyTypeOK /\ ReadShiftExists /\ \A h \in Guards : Agrees(h)
  BY DEF DutyInv
<1>1. /\ call[c].op = "start_shift" /\ call[c].pc = "read" /\ OpenShifts(g) = {}
      /\ shift' = [shift EXCEPT ![g] = Append(@, "open")]
      /\ Logs(g, {"LOGIN"}) /\ NotesStale(c) /\ Returns(c)
      /\ UNCHANGED <<guardActive, posted>>
  BY DEF start_shift, Ready
<1>2. call[c] \in ActiveCall /\ call[c].active
  BY <1>0, <1>1, CallKinds DEF ShiftOp, ActiveCall, ReadShiftExists
<1>3. {"LOGIN"} \in SUBSET GuardAction /\ "LOGOUT" \in GuardAction
  BY DEF GuardAction
<1>4. /\ shift' \in [Guards -> Seq({"open", "closed"})]
      /\ \A h \in Guards \ {g} : shift'[h] = shift[h]
      /\ Len(shift'[g]) = Len(shift[g]) + 1
      /\ OpenShifts(g)' = OpenShifts(g) \cup {Len(shift[g]) + 1}
      /\ ClosedShifts(g)' = ClosedShifts(g)
  BY <1>0, <1>1, <1>2, OpenedOne
<1>5. /\ guardLog' \in [Guards -> [GuardAction -> Nat]]
      /\ \A h \in Guards \ {g} : guardLog'[h] = guardLog[h]
      /\ guardLog'[g]["LOGIN"] = guardLog[g]["LOGIN"] + 1
      /\ guardLog'[g]["LOGOUT"] = guardLog[g]["LOGOUT"] + 0
  BY <1>1, <1>2, <1>0, <1>3, LogsRows
<1>6. /\ call' \in [Calls -> {NoCall} \cup ActiveCall \cup PostCall]
      /\ call'[c] = NoCall /\ \A d \in Calls \ {c} : call'[d] = call[d]
      /\ staleDuty \subseteq staleDuty' /\ staleDuty' \subseteq Guards
      /\ g \notin staleDuty' => call[c].active = guardActive[g]
  BY <1>1, <1>0, <1>2, CallEnds
<1>7. DutyTypeOK'
  BY <1>1, <1>4, <1>5, <1>6, <1>0 DEF DutyTypeOK, ActiveCall, PostCall
<1>8. ReadShiftExists'
  <2>1. \A h \in Guards : Len(shift'[h]) \in Nat /\ Len(shift'[h]) >= Len(shift[h])
    <3>1. \A h \in Guards : Len(shift[h]) \in Nat
      BY <1>0 DEF DutyTypeOK
    <3>2. QED
      BY <1>4, <3>1
  <2>2. ~(call'[c].op \in ShiftOp /\ call'[c].pc = "read")
    BY <1>6 DEF NoCall, ShiftOp
  <2>3. QED
    BY <1>6, <2>1, <2>2, <1>0, KeptRead
<1>9. Agrees(g)'
  <2>1. guardLog[g]["LOGOUT"] \in Nat
    BY <1>2, <1>3, <1>0 DEF DutyTypeOK
  <2>2. OneOpen(g)'
    BY <1>1, <1>4 DEF OneOpen
  <2>3. LogCovers(g)'
    BY <1>2, <1>4, <1>5, <2>1, <1>0 DEF LogCovers, Agrees
  <2>4. LogExact(g)'
    <3>1. g \notin staleDuty' => guardActive'[g]
      BY <1>1, <1>2, <1>6
    <3>2. g \notin staleDuty' => guardLog[g]["LOGOUT"] = Cardinality(ClosedShifts(g))
      BY <1>0, <1>6 DEF LogExact, Agrees
    <3>3. QED
      BY <1>4, <1>5, <2>1, <3>1, <3>2 DEF LogExact
  <2>5. QED
    BY <2>2, <2>3, <2>4 DEF Agrees
<1>10. \A h \in Guards \ {g} : Agrees(h)'
  BY <1>1, <1>4, <1>5, <1>6, <1>0, KeptAgrees
<1>11. QED
  BY <1>7, <1>8, <1>9, <1>10 DEF DutyInv

\* A call that closes a shift it has read and logs the exit.
LEMMA ClosingAgrees ==
  ASSUME DutyTypeOK, NEW g \in Guards, Agrees(g), NEW i \in 1 .. Len(shift[g]),
         shift' = [shift EXCEPT ![g][i] = "closed"],
         guardLog'[g]["LOGIN"] = guardLog[g]["LOGIN"],
         guardLog'[g]["LOGOUT"] = guardLog[g]["LOGOUT"] + 1,
         g \notin staleDuty' => g \notin staleDuty /\ i = current_shift(g)
  PROVE  Agrees(g)'
<1>1. /\ Len(shift'[g]) = Len(shift[g])
      /\ OpenShifts(g)' = OpenShifts(g) \ {i}
      /\ Cardinality(ClosedShifts(g)') =
           Cardinality(ClosedShifts(g)) + IF i \in OpenShifts(g) THEN 1 ELSE 0
  BY ClosedOne
<1>2. Cardinality(ClosedShifts(g)) \in Nat /\ guardLog[g]["LOGOUT"] \in Nat
  BY ClosedFinite DEF DutyTypeOK, GuardAction
<1>3. OneOpen(g)'
  BY <1>1 DEF OneOpen, Agrees
<1>4. LogCovers(g)'
  BY <1>1, <1>2 DEF LogCovers, Agrees
<1>5. i = current_shift(g) => OpenShifts(g) = {i}
  <2> SUFFICES ASSUME i = current_shift(g) PROVE OpenShifts(g) = {i}
    OBVIOUS
  <2>1. i # 0
    OBVIOUS
  <2>2. QED
    BY <2>1, CurrentShiftFound DEF Agrees
<1>6. LogExact(g)'
  BY <1>1, <1>2, <1>5 DEF LogExact, Agrees
<1>7. QED
  BY <1>3, <1>4, <1>6 DEF Agrees

LEMMA end_shiftInv ==
  ASSUME DutyInv, NEW c \in Calls, NEW g \in Guards, g = call[c].guard, end_shift(c)
  PROVE  DutyInv'
<1> DEFINE i == call[c].shift
<1>0. DutyTypeOK /\ ReadShiftExists /\ \A h \in Guards : Agrees(h)
  BY DEF DutyInv
<1>1. /\ call[c].op = "end_shift" /\ call[c].pc = "read"
      /\ shift' = [shift EXCEPT ![g][i] = "closed"]
      /\ Logs(g, {"LOGOUT"}) /\ NotesStale(c) /\ Returns(c)
      /\ UNCHANGED <<guardActive, posted>>
  BY DEF end_shift, Ready
<1>2. call[c] \in ActiveCall /\ i \in 1 .. Len(shift[g])
  <2>1. i \in 0 .. Len(shift[g]) /\ i # 0
    BY <1>0, <1>1 DEF ShiftOp, ReadShiftExists
  <2>2. Len(shift[g]) \in Nat
    BY <1>0 DEF DutyTypeOK
  <2>3. QED
    BY <1>0, <1>1, <2>1, <2>2, CallKinds DEF ShiftOp
<1>3. {"LOGOUT"} \in SUBSET GuardAction /\ "LOGIN" \in GuardAction /\ "LOGOUT" \in GuardAction
  BY DEF GuardAction
<1>4. PICK k \in 1 .. Len(shift[g]) : k = i
  BY <1>2
<1> HIDE DEF i
<1>5. /\ shift' \in [Guards -> Seq({"open", "closed"})]
      /\ \A h \in Guards \ {g} : shift'[h] = shift[h]
      /\ Len(shift'[g]) = Len(shift[g])
  BY <1>0, <1>1, <1>4, ClosedOne
<1>6. /\ guardLog' \in [Guards -> [GuardAction -> Nat]]
      /\ \A h \in Guards \ {g} : guardLog'[h] = guardLog[h]
      /\ guardLog'[g]["LOGIN"] = guardLog[g]["LOGIN"] + 0
      /\ guardLog'[g]["LOGOUT"] = guardLog[g]["LOGOUT"] + 1
  <2>1. /\ guardLog' \in [Guards -> [GuardAction -> Nat]]
        /\ \A h \in Guards \ {g} : guardLog'[h] = guardLog[h]
        /\ \A a \in GuardAction :
              guardLog'[g][a] = guardLog[g][a] + IF a \in {"LOGOUT"} THEN 1 ELSE 0
    BY <1>0, <1>1, <1>3, LogsRows
  <2>2. QED
    BY <1>0, <1>1, <1>3, <2>1
<1>7. /\ call' \in [Calls -> {NoCall} \cup ActiveCall \cup PostCall]
      /\ call'[c] = NoCall /\ \A d \in Calls \ {c} : call'[d] = call[d]
      /\ staleDuty \subseteq staleDuty' /\ staleDuty' \subseteq Guards
      /\ g \notin staleDuty' => i = current_shift(g)
  BY <1>0, <1>1, <1>2, CallEnds DEF i
<1>8. DutyTypeOK'
  BY <1>0, <1>1, <1>5, <1>6, <1>7 DEF DutyTypeOK, ActiveCall, PostCall
<1>9. ReadShiftExists'
  <2>1. \A h \in Guards : Len(shift[h]) \in Nat
    BY <1>0 DEF DutyTypeOK
  <2>2. \A h \in Guards : Len(shift'[h]) \in Nat /\ Len(shift'[h]) >= Len(shift[h])
    BY <1>5, <2>1
  <2>3. ~(call'[c].op \in ShiftOp /\ call'[c].pc = "read")
    BY <1>7 DEF NoCall, ShiftOp
  <2>4. QED
    BY <1>0, <1>7, <2>2, <2>3, KeptRead
<1>10. Agrees(g)'
  <2>1. guardLog[g]["LOGIN"] \in Nat
    BY <1>0, <1>3 DEF DutyTypeOK
  <2>2. guardLog'[g]["LOGIN"] = guardLog[g]["LOGIN"]
    BY <1>6, <2>1
  <2>3. QED
    BY <1>0, <1>1, <1>4, <1>6, <1>7, <2>2, ClosingAgrees
<1>11. \A h \in Guards \ {g} : Agrees(h)'
  BY <1>0, <1>1, <1>5, <1>6, <1>7, KeptAgrees
<1>12. QED
  BY <1>8, <1>9, <1>10, <1>11 DEF DutyInv

LEMMA deactivateInv ==
  ASSUME DutyInv, NEW c \in Calls, NEW g \in Guards, g = call[c].guard, deactivate_guard(c)
  PROVE  DutyInv'
<1> DEFINE i == call[c].shift
<1>0. DutyTypeOK /\ ReadShiftExists /\ \A h \in Guards : Agrees(h)
  BY DEF DutyInv
<1>1. /\ call[c].op = "deactivate" /\ call[c].pc = "read"
      /\ guardActive' = [guardActive EXCEPT ![g] = FALSE]
      /\ IF i = 0 THEN Logs(g, {"DEACTIVATED"}) /\ UNCHANGED shift
         ELSE /\ Logs(g, {"DEACTIVATED", "LOGOUT"})
              /\ shift' = [shift EXCEPT ![g][i] = "closed"]
      /\ NotesStale(c) /\ Returns(c) /\ UNCHANGED posted
  BY DEF deactivate_guard, Ready
<1>2. call[c] \in ActiveCall /\ i \in 0 .. Len(shift[g])
  BY <1>0, <1>1, CallKinds DEF ShiftOp, ReadShiftExists
<1>3. {"DEACTIVATED"} \in SUBSET GuardAction /\ {"DEACTIVATED", "LOGOUT"} \in SUBSET GuardAction
      /\ "LOGIN" \in GuardAction /\ "LOGOUT" \in GuardAction
  BY DEF GuardAction
<1>4. \A h \in Guards : Len(shift[h]) \in Nat
  BY <1>0 DEF DutyTypeOK
<1>5. PICK k \in 0 .. Len(shift[g]) : k = i
  BY <1>2
<1> HIDE DEF i
<1>6. /\ shift' \in [Guards -> Seq({"open", "closed"})]
      /\ \A h \in Guards \ {g} : shift'[h] = shift[h]
      /\ Len(shift'[g]) = Len(shift[g])
  <2>1. CASE i = 0
    BY <1>0, <1>1, <2>1 DEF DutyTypeOK
  <2>2. CASE i # 0
    <3>1. k \in 1 .. Len(shift[g]) /\ shift' = [shift EXCEPT ![g][k] = "closed"]
      BY <1>1, <1>4, <1>5, <2>2
    <3>2. QED
      BY <1>0, <3>1, ClosedOne
  <2>3. QED
    BY <2>1, <2>2
<1>7. /\ guardLog' \in [Guards -> [GuardAction -> Nat]]
      /\ \A h \in Guards \ {g} : guardLog'[h] = guardLog[h]
      /\ guardLog'[g]["LOGIN"] = guardLog[g]["LOGIN"] + 0
      /\ guardLog'[g]["LOGOUT"] = guardLog[g]["LOGOUT"] + IF i = 0 THEN 0 ELSE 1
  <2>1. CASE i = 0
    <3>1. /\ guardLog' \in [Guards -> [GuardAction -> Nat]]
          /\ \A h \in Guards \ {g} : guardLog'[h] = guardLog[h]
          /\ \A a \in GuardAction :
                guardLog'[g][a] = guardLog[g][a] + IF a \in {"DEACTIVATED"} THEN 1 ELSE 0
      BY <1>0, <1>1, <1>3, <2>1, LogsRows
    <3>2. QED
      BY <1>0, <1>1, <1>3, <2>1, <3>1
  <2>2. CASE i # 0
    <3>1. /\ guardLog' \in [Guards -> [GuardAction -> Nat]]
          /\ \A h \in Guards \ {g} : guardLog'[h] = guardLog[h]
          /\ \A a \in GuardAction :
                guardLog'[g][a] = guardLog[g][a] + IF a \in {"DEACTIVATED", "LOGOUT"} THEN 1 ELSE 0
      BY <1>0, <1>1, <1>3, <2>2, LogsRows
    <3>2. QED
      BY <1>0, <1>1, <1>3, <2>2, <3>1
  <2>3. QED
    BY <2>1, <2>2
<1>8. /\ call' \in [Calls -> {NoCall} \cup ActiveCall \cup PostCall]
      /\ call'[c] = NoCall /\ \A d \in Calls \ {c} : call'[d] = call[d]
      /\ staleDuty \subseteq staleDuty' /\ staleDuty' \subseteq Guards
      /\ g \notin staleDuty' => i = current_shift(g)
  BY <1>0, <1>1, <1>2, CallEnds DEF i
<1>9. DutyTypeOK'
  <2>1. guardActive' \in [Guards -> BOOLEAN]
    BY <1>0, <1>1 DEF DutyTypeOK
  <2>2. QED
    BY <1>0, <1>1, <1>6, <1>7, <1>8, <2>1 DEF DutyTypeOK, ActiveCall, PostCall
<1>10. ReadShiftExists'
  <2>1. \A h \in Guards : Len(shift'[h]) \in Nat /\ Len(shift'[h]) >= Len(shift[h])
    BY <1>4, <1>6
  <2>2. ~(call'[c].op \in ShiftOp /\ call'[c].pc = "read")
    BY <1>8 DEF NoCall, ShiftOp
  <2>3. QED
    BY <1>0, <1>8, <2>1, <2>2, KeptRead
<1>11. Agrees(g)'
  <2>1. guardLog[g]["LOGIN"] \in Nat /\ guardLog[g]["LOGOUT"] \in Nat
    BY <1>0, <1>3 DEF DutyTypeOK
  <2>2. guardLog'[g]["LOGIN"] = guardLog[g]["LOGIN"]
    BY <1>7, <2>1
  <2>3. CASE i = 0
    <3>1. shift' = shift /\ guardLog'[g]["LOGOUT"] = guardLog[g]["LOGOUT"]
      BY <1>1, <1>7, <2>1, <2>3
    <3>2. OpenShifts(g)' = OpenShifts(g) /\ ClosedShifts(g)' = ClosedShifts(g)
      BY <3>1 DEF OpenShifts, ClosedShifts
    <3>3. Agrees(g)
      BY <1>0
    <3>4. g \notin staleDuty' => OpenShifts(g) = {} /\ g \notin staleDuty
      BY <1>0, <1>8, <2>3, <3>3, CurrentShiftFound DEF Agrees
    <3>5. QED
      BY <2>2, <3>1, <3>2, <3>3, <3>4 DEF Agrees, OneOpen, LogCovers, LogExact
  <2>4. CASE i # 0
    <3>1. k \in 1 .. Len(shift[g]) /\ shift' = [shift EXCEPT ![g][k] = "closed"]
      BY <1>1, <1>4, <1>5, <2>4
    <3>2. guardLog'[g]["LOGOUT"] = guardLog[g]["LOGOUT"] + 1
      BY <1>7, <2>4
    <3>3. QED
      BY <1>0, <1>5, <1>8, <2>2, <3>1, <3>2, ClosingAgrees
  <2>5. QED
    BY <2>3, <2>4
<1>12. \A h \in Guards \ {g} : Agrees(h)'
  <2>1. \A h \in Guards \ {g} : guardActive'[h] = guardActive[h]
    BY <1>0, <1>1 DEF DutyTypeOK
  <2>2. QED
    BY <1>0, <1>6, <1>7, <1>8, <2>1, KeptAgrees
<1>13. QED
  BY <1>9, <1>10, <1>11, <1>12 DEF DutyInv

\* The calls that write neither shifts nor their log rows, and the reads of all calls.
LEMMA QuietInv ==
  ASSUME DutyInv, DutyTypeOK', ReadShiftExists', shift' = shift,
         \A g \in Guards : /\ guardLog'[g]["LOGIN"] = guardLog[g]["LOGIN"]
                           /\ guardLog'[g]["LOGOUT"] = guardLog[g]["LOGOUT"],
         staleDuty \subseteq staleDuty',
         \A g \in Guards : g \notin staleDuty' => guardActive'[g] = guardActive[g] \/ guardActive'[g]
  PROVE  DutyInv'
<1>1. \A g \in Guards : Agrees(g)'
  BY KeptAgrees DEF DutyInv
<1>2. QED
  BY <1>1 DEF DutyInv

LEMMA QuietRead ==
  ASSUME DutyInv, shift' = shift, NEW c \in Calls, \A d \in Calls \ {c} : call'[d] = call[d],
         ~(call'[c].op \in ShiftOp /\ call'[c].pc = "read")
  PROVE  ReadShiftExists'
<1>1. \A g \in Guards : Len(shift[g]) \in Nat
  BY DEF DutyInv, DutyTypeOK
<1>2. QED
  BY <1>1, KeptRead DEF DutyInv

LEMMA LoadGuardInv ==
  ASSUME DutyInv, NEW c \in Calls, NEW g \in Guards, NEW op \in ShiftOp \cup RowOp,
         LoadGuard(c, g, op)
  PROVE  DutyInv'
<1> DEFINE new == [op |-> op, guard |-> g, pc |-> "loaded",
                   active |-> guardActive[g], shift |-> current_shift(g)]
<1>0. DutyTypeOK /\ Agrees(g)
  BY DEF DutyInv
<1>1. call' = [call EXCEPT ![c] = new] /\ UNCHANGED <<guardActive, posted, shift, guardLog, staleDuty>>
  BY DEF LoadGuard
<1>2. new \in ActiveCall
  <2>1. current_shift(g) \in Nat
    <3>1. Len(shift[g]) \in Nat
      BY <1>0 DEF DutyTypeOK
    <3>2. QED
      BY <1>0, <3>1, CurrentShiftFound DEF Agrees
  <2>2. guardActive[g] \in BOOLEAN
    BY <1>0 DEF DutyTypeOK
  <2>3. QED
    BY <2>1, <2>2 DEF ActiveCall
<1> HIDE DEF new
<1>3. call'[c] = new /\ \A d \in Calls \ {c} : call'[d] = call[d]
  BY <1>0, <1>1 DEF DutyTypeOK
<1>4. DutyTypeOK'
  BY <1>0, <1>1, <1>2 DEF DutyTypeOK, ActiveCall
<1>5. new.pc = "loaded"
  BY DEF new
<1>6. QED
  BY <1>1, <1>3, <1>4, <1>5, QuietRead, QuietInv

LEMMA ReadShiftInv ==
  ASSUME DutyInv, NEW c \in Calls, NEW g \in Guards, g = call[c].guard, ReadShift(c)
  PROVE  DutyInv'
<1> DEFINE new == [call[c] EXCEPT !.pc = "read", !.shift = current_shift(g)]
<1>0. DutyTypeOK /\ Agrees(g)
  BY DEF DutyInv
<1>1. /\ call[c].op \in ShiftOp
      /\ call[c].op \in {"start_shift", "deactivate"} => call[c].active
      /\ call[c].op = "end_shift" => current_shift(g) # 0
      /\ call' = [call EXCEPT ![c].pc = "read", ![c].shift = current_shift(g)]
      /\ UNCHANGED <<guardActive, posted, shift, guardLog, staleDuty>>
  BY DEF ReadShift
<1>2. current_shift(g) \in 0 .. Len(shift[g]) /\ Len(shift[g]) \in Nat
  BY <1>0, CurrentShiftFound DEF Agrees, DutyTypeOK
<1>3. call[c] \in ActiveCall
  BY <1>0, <1>1, CallKinds
<1>4. /\ new \in ActiveCall /\ new.guard = g /\ new.op = call[c].op
      /\ new.active = call[c].active /\ new.shift = current_shift(g)
  <2>1. current_shift(g) \in Nat
    BY <1>2
  <2>2. new \in ActiveCall
    BY <1>3, <2>1 DEF ActiveCall
  <2>3. QED
    BY <1>3, <2>1, <2>2 DEF ActiveCall
<1>5. call' = [call EXCEPT ![c] = new]
  BY <1>0, <1>1, <1>3 DEF DutyTypeOK, ActiveCall
<1> HIDE DEF new
<1>6. call'[c] = new /\ \A d \in Calls \ {c} : call'[d] = call[d]
  BY <1>0, <1>5 DEF DutyTypeOK
<1>7. DutyTypeOK'
  BY <1>0, <1>1, <1>4, <1>5 DEF DutyTypeOK, ActiveCall
<1>8. ReadShiftExists'
  <2> SUFFICES ASSUME NEW d \in Calls, (call[d].op \in ShiftOp)', (call[d].pc = "read")'
               PROVE  /\ call'[d].shift \in 0 .. Len(shift'[call'[d].guard])
                      /\ call'[d].op = "end_shift" => call'[d].shift # 0
                      /\ call'[d].op = "start_shift" => call'[d].active
    BY DEF ReadShiftExists
  <2>1. CASE d = c
    BY <1>1, <1>2, <1>4, <1>6, <2>1
  <2>2. CASE d # c
    BY <1>1, <1>6, <2>2 DEF DutyInv, ReadShiftExists
  <2>3. QED
    BY <2>1, <2>2
<1>9. QED
  BY <1>1, <1>7, <1>8, QuietInv

\* The calls that end without touching a shift, one by one.
LEMMA activateInv ==
  ASSUME DutyInv, NEW c \in Calls, NEW g \in Guards, g = call[c].guard, activate_guard(c)
  PROVE  DutyInv'
<1>0. DutyTypeOK
  BY DEF DutyInv
<1>1. /\ call[c].op = "activate" /\ guardActive' = [guardActive EXCEPT ![g] = TRUE]
      /\ Logs(g, {"ACTIVATED"}) /\ NotesStale(c) /\ Returns(c) /\ UNCHANGED <<posted, shift>>
  BY DEF activate_guard
<1>2. call[c] \in ActiveCall
  BY <1>0, <1>1, CallKinds DEF RowOp
<1>3. {"ACTIVATED"} \in SUBSET GuardAction /\ "LOGIN" \in GuardAction /\ "LOGOUT" \in GuardAction
  BY DEF GuardAction
<1>4. /\ guardLog' \in [Guards -> [GuardAction -> Nat]]
      /\ \A h \in Guards \ {g} : guardLog'[h] = guardLog[h]
      /\ \A a \in GuardAction : guardLog'[g][a] = guardLog[g][a] + IF a \in {"ACTIVATED"} THEN 1 ELSE 0
  BY <1>0, <1>1, <1>3, LogsRows
<1>5. \A h \in Guards : /\ guardLog'[h]["LOGIN"] = guardLog[h]["LOGIN"]
                        /\ guardLog'[h]["LOGOUT"] = guardLog[h]["LOGOUT"]
  <2>1. guardLog[g]["LOGIN"] \in Nat /\ guardLog[g]["LOGOUT"] \in Nat
    BY <1>0, <1>3 DEF DutyTypeOK
  <2>2. QED
    BY <1>3, <1>4, <2>1
<1>6. /\ call' \in [Calls -> {NoCall} \cup ActiveCall \cup PostCall]
      /\ call'[c] = NoCall /\ \A d \in Calls \ {c} : call'[d] = call[d]
      /\ staleDuty \subseteq staleDuty' /\ staleDuty' \subseteq Guards
  BY <1>0, <1>1, <1>2, CallEnds
<1>7. guardActive' \in [Guards -> BOOLEAN]
      /\ \A h \in Guards : guardActive'[h] = guardActive[h] \/ guardActive'[h]
  BY <1>0, <1>1 DEF DutyTypeOK
<1>8. DutyTypeOK'
  BY <1>0, <1>1, <1>4, <1>6, <1>7 DEF DutyTypeOK, ActiveCall, PostCall
<1>9. ~(call'[c].op \in ShiftOp /\ call'[c].pc = "read")
  BY <1>6 DEF NoCall, ShiftOp
<1>10. QED
  BY <1>1, <1>5, <1>6, <1>7, <1>8, <1>9, QuietRead, QuietInv

LEMMA patchInv ==
  ASSUME DutyInv, NEW c \in Calls, NEW g \in Guards, g = call[c].guard, patch_guard(c)
  PROVE  DutyInv'
<1>0. DutyTypeOK
  BY DEF DutyInv
<1>1. /\ call[c].op = "patch" /\ guardActive' = [guardActive EXCEPT ![g] = call[c].active]
      /\ \E gates \in SUBSET Posts : posted' = [posted EXCEPT ![g] = gates]
      /\ NotesStale(c) /\ Returns(c) /\ UNCHANGED <<shift, guardLog>>
  BY DEF patch_guard
<1>2. call[c] \in ActiveCall /\ call[c].active \in BOOLEAN
  BY <1>0, <1>1, CallKinds DEF RowOp, ActiveCall
<1>3. /\ call' \in [Calls -> {NoCall} \cup ActiveCall \cup PostCall]
      /\ call'[c] = NoCall /\ \A d \in Calls \ {c} : call'[d] = call[d]
      /\ staleDuty \subseteq staleDuty' /\ staleDuty' \subseteq Guards
      /\ g \notin staleDuty' => call[c].active = guardActive[g]
  BY <1>0, <1>1, <1>2, CallEnds
<1>4. guardActive' \in [Guards -> BOOLEAN] /\ posted' \in [Guards -> SUBSET Posts]
  BY <1>0, <1>1, <1>2 DEF DutyTypeOK
<1>5. \A h \in Guards : h \notin staleDuty' => guardActive'[h] = guardActive[h]
  BY <1>0, <1>1, <1>3 DEF DutyTypeOK
<1>6. DutyTypeOK'
  BY <1>0, <1>1, <1>3, <1>4 DEF DutyTypeOK, ActiveCall, PostCall
<1>7. ~(call'[c].op \in ShiftOp /\ call'[c].pc = "read")
  BY <1>3 DEF NoCall, ShiftOp
<1>8. QED
  BY <1>1, <1>3, <1>5, <1>6, <1>7, QuietRead, QuietInv

\* Log rows about neither entry nor exit.
LEMMA OtherRowInv ==
  ASSUME DutyInv, NEW g \in Guards, NEW act \in GuardAction \ {"LOGIN", "LOGOUT"},
         Logs(g, {act}), UNCHANGED <<guardActive, shift, staleDuty>>,
         posted' \in [Guards -> SUBSET Posts],
         call' \in [Calls -> {NoCall} \cup ActiveCall \cup PostCall], ReadShiftExists'
  PROVE  DutyInv'
<1>0. DutyTypeOK
  BY DEF DutyInv
<1>1. {act} \in SUBSET GuardAction /\ "LOGIN" \in GuardAction /\ "LOGOUT" \in GuardAction
  BY DEF GuardAction
<1>2. /\ guardLog' \in [Guards -> [GuardAction -> Nat]]
      /\ \A h \in Guards \ {g} : guardLog'[h] = guardLog[h]
      /\ \A a \in GuardAction : guardLog'[g][a] = guardLog[g][a] + IF a \in {act} THEN 1 ELSE 0
  BY <1>0, <1>1, LogsRows
<1>3. \A h \in Guards : /\ guardLog'[h]["LOGIN"] = guardLog[h]["LOGIN"]
                        /\ guardLog'[h]["LOGOUT"] = guardLog[h]["LOGOUT"]
  <2>1. guardLog[g]["LOGIN"] \in Nat /\ guardLog[g]["LOGOUT"] \in Nat
    BY <1>0, <1>1 DEF DutyTypeOK
  <2>2. QED
    BY <1>1, <1>2, <2>1
<1>4. DutyTypeOK'
  BY <1>0, <1>2 DEF DutyTypeOK, ActiveCall, PostCall
<1>5. QED
  BY <1>3, <1>4, QuietInv

LEMMA postingInv ==
  ASSUME DutyInv, NEW c \in Calls, assign_gate(c) \/ remove_gate(c)
  PROVE  DutyInv'
<1>0. DutyTypeOK
  BY DEF DutyInv
<1>1. call[c] \in PostCall
  BY <1>0, CallKinds DEF assign_gate, remove_gate, PostOp
<1>2. PICK g \in Guards, p \in Posts : g = call[c].guard /\ p = call[c].post
  BY <1>1 DEF PostCall
<1>3. /\ Returns(c) /\ UNCHANGED <<guardActive, shift, staleDuty>>
      /\ \E act \in {"GATE_ASSIGNED", "GATE_REMOVED"} : Logs(g, {act})
      /\ \E gates \in {posted[g] \cup {p}, posted[g] \ {p}} : posted' = [posted EXCEPT ![g] = gates]
  BY <1>2 DEF assign_gate, remove_gate
<1>4. /\ call' \in [Calls -> {NoCall} \cup ActiveCall \cup PostCall]
      /\ call'[c] = NoCall /\ \A d \in Calls \ {c} : call'[d] = call[d]
  BY <1>0, <1>3 DEF Returns, DutyTypeOK, ActiveCall, PostCall
<1>5. ReadShiftExists'
  <2>1. ~(call'[c].op \in ShiftOp /\ call'[c].pc = "read")
    BY <1>4 DEF NoCall, ShiftOp
  <2>2. QED
    BY <1>3, <1>4, <2>1, QuietRead
<1>6. posted' \in [Guards -> SUBSET Posts]
  BY <1>0, <1>3 DEF DutyTypeOK
<1>7. {"GATE_ASSIGNED", "GATE_REMOVED"} \subseteq GuardAction \ {"LOGIN", "LOGOUT"}
  BY DEF GuardAction
<1>8. QED
  BY <1>3, <1>4, <1>5, <1>6, <1>7, OtherRowInv

LEMMA log_manual_eventInv ==
  ASSUME DutyInv, NEW g \in Guards, log_manual_event(g) PROVE DutyInv'
<1>1. /\ Logs(g, {"MANUAL"}) /\ UNCHANGED <<guardActive, posted, shift, call, staleDuty>>
  BY DEF log_manual_event
<1>2. /\ "MANUAL" \in GuardAction \ {"LOGIN", "LOGOUT"} /\ posted' \in [Guards -> SUBSET Posts]
      /\ call' \in [Calls -> {NoCall} \cup ActiveCall \cup PostCall]
  BY <1>1 DEF GuardAction, DutyInv, DutyTypeOK, ActiveCall, PostCall
<1>3. ReadShiftExists'
  BY <1>1 DEF DutyInv, ReadShiftExists
<1>4. QED
  BY <1>1, <1>2, <1>3, OtherRowInv

LEMMA FailCallInv == ASSUME DutyInv, NEW c \in Calls, FailCall(c) PROVE DutyInv'
<1>0. DutyTypeOK
  BY DEF DutyInv
<1>1. call' = [call EXCEPT ![c] = NoCall] /\ UNCHANGED <<guardActive, posted, shift, guardLog, staleDuty>>
  BY DEF FailCall, Returns
<1>2. call'[c] = NoCall /\ \A d \in Calls \ {c} : call'[d] = call[d]
  BY <1>0, <1>1 DEF DutyTypeOK
<1>3. DutyTypeOK'
  BY <1>0, <1>1 DEF DutyTypeOK
<1>4. ~(call'[c].op \in ShiftOp /\ call'[c].pc = "read")
  BY <1>2 DEF NoCall, ShiftOp
<1>5. QED
  BY <1>1, <1>2, <1>3, <1>4, QuietRead, QuietInv

LEMMA CheckPostingInv ==
  ASSUME DutyInv, NEW c \in Calls, NEW g \in Guards, NEW p \in Posts, NEW op \in PostOp,
         CheckPosting(c, g, p, op)
  PROVE  DutyInv'
<1> DEFINE new == [op |-> op, guard |-> g, post |-> p]
<1>0. DutyTypeOK
  BY DEF DutyInv
<1>1. call' = [call EXCEPT ![c] = new] /\ UNCHANGED <<guardActive, posted, shift, guardLog, staleDuty>>
  BY DEF CheckPosting
<1>2. new \in PostCall /\ new.op \notin ShiftOp
  BY DEF PostCall, PostOp, ShiftOp
<1> HIDE DEF new
<1>3. call'[c] = new /\ \A d \in Calls \ {c} : call'[d] = call[d]
  BY <1>0, <1>1 DEF DutyTypeOK
<1>4. DutyTypeOK'
  BY <1>0, <1>1, <1>2 DEF DutyTypeOK, PostCall
<1>5. QED
  BY <1>1, <1>2, <1>3, <1>4, QuietRead, QuietInv

-----------------------------------------------------------------------------
(* The theorem.                                                            *)

LEMMA DutyInvInit == DutyInit => DutyInv
<1> SUFFICES ASSUME DutyInit PROVE DutyInv
  OBVIOUS
<1>1. \A g \in Guards : shift[g] = << >> /\ OpenShifts(g) = {} /\ ClosedShifts(g) = {}
  BY DEF DutyInit, OpenShifts, ClosedShifts
<1>2. DutyTypeOK
  BY DEF DutyInit, DutyTypeOK
<1>3. ReadShiftExists
  BY DEF DutyInit, ReadShiftExists, NoCall, ShiftOp
<1>4. \A g \in Guards : guardLog[g]["LOGIN"] = 0 /\ guardLog[g]["LOGOUT"] = 0
  BY DEF DutyInit, GuardAction
<1>5. \A g \in Guards : Agrees(g)
  <2> SUFFICES ASSUME NEW g \in Guards PROVE Agrees(g)
    OBVIOUS
  <2>1. Cardinality(ClosedShifts(g)) = 0 /\ Len(shift[g]) = 0
    BY <1>1, FS_EmptySet
  <2>2. QED
    BY <1>1, <1>4, <2>1 DEF Agrees, OneOpen, LogCovers, LogExact
<1>6. QED
  BY <1>2, <1>3, <1>5 DEF DutyInv

LEMMA DutyInvStep == DutyInv /\ [DutyNext]_dutyVars => DutyInv'
<1> SUFFICES ASSUME DutyInv, [DutyNext]_dutyVars PROVE DutyInv'
  OBVIOUS
<1>1. ASSUME NEW c \in Calls, call[c].op \in ShiftOp \cup RowOp
      PROVE  \E g \in Guards : g = call[c].guard
  BY <1>1, CallKinds DEF DutyInv, ActiveCall
<1>2. CASE \E c \in Calls, g \in Guards, op \in ShiftOp \cup RowOp : LoadGuard(c, g, op)
  BY <1>2, LoadGuardInv
<1>3. CASE \E c \in Calls, g \in Guards, p \in Posts, op \in PostOp : CheckPosting(c, g, p, op)
  BY <1>3, CheckPostingInv
<1>4. ASSUME NEW c \in Calls, ReadShift(c) PROVE DutyInv'
  BY <1>1, <1>4, ReadShiftInv DEF ReadShift
<1>5. ASSUME NEW c \in Calls, start_shift(c) PROVE DutyInv'
  BY <1>1, <1>5, start_shiftInv DEF start_shift, Ready, ShiftOp
<1>6. ASSUME NEW c \in Calls, end_shift(c) PROVE DutyInv'
  BY <1>1, <1>6, end_shiftInv DEF end_shift, Ready, ShiftOp
<1>7. ASSUME NEW c \in Calls, deactivate_guard(c) PROVE DutyInv'
  BY <1>1, <1>7, deactivateInv DEF deactivate_guard, Ready, ShiftOp
<1>8. ASSUME NEW c \in Calls, activate_guard(c) PROVE DutyInv'
  BY <1>1, <1>8, activateInv DEF activate_guard, RowOp
<1>9. ASSUME NEW c \in Calls, patch_guard(c) PROVE DutyInv'
  BY <1>1, <1>9, patchInv DEF patch_guard, RowOp
<1>10. ASSUME NEW c \in Calls, assign_gate(c) \/ remove_gate(c) \/ FailCall(c) PROVE DutyInv'
  BY <1>10, postingInv, FailCallInv
<1>11. CASE \E g \in Guards : log_manual_event(g)
  BY <1>11, log_manual_eventInv
<1>12. CASE UNCHANGED dutyVars
  <2>1. DutyTypeOK' /\ ReadShiftExists'
    BY <1>12 DEF dutyVars, DutyInv, DutyTypeOK, ReadShiftExists
  <2>2. QED
    BY <1>12, <2>1, QuietInv DEF dutyVars
<1>13. QED
  BY <1>2, <1>3, <1>4, <1>5, <1>6, <1>7, <1>8, <1>9, <1>10, <1>11, <1>12 DEF DutyNext

(***************************************************************************)
(* However calls race (start_shift, end_shift and deactivate of            *)
(* guards/services.py), every guard has one open shift at most, and the    *)
(* log counts its shifts.                                                  *)
(***************************************************************************)
THEOREM ShiftsLogged == DutySpec => []ShiftsAgreeWithLog
<1>1. DutyInv => ShiftsAgreeWithLog
  <2> SUFFICES ASSUME DutyInv, NEW g \in Guards
               PROVE  /\ Cardinality(OpenShifts(g)) <= 1
                      /\ Agrees(g)
    BY DEF ShiftsAgreeWithLog, Agrees, LogCovers, LogExact
  <2>1. Agrees(g) /\ OneOpen(g)
    BY DEF DutyInv, Agrees
  <2>2. CASE OpenShifts(g) = {}
    BY <2>1, <2>2, FS_EmptySet
  <2>3. CASE OpenShifts(g) # {}
    <3>1. PICK i \in OpenShifts(g) : OpenShifts(g) = {i}
      BY <2>1, <2>3 DEF OneOpen
    <3>2. Cardinality({i}) = 1
      BY FS_Singleton
    <3>3. QED
      BY <2>1, <3>1, <3>2
  <2>4. QED
    BY <2>2, <2>3
<1>2. QED
  BY DutyInvInit, DutyInvStep, <1>1, PTL DEF DutySpec

-----------------------------------------------------------------------------
(* The house: a behaviour of the three side by side is a behaviour of each,*)
(* so what is proved of one component holds in the house.                  *)

LEMMA HouseMoves ==
  [HouseNext]_houseVars => [PassNext]_passVars /\ [VisitNext]_visitVars /\ [DutyNext]_dutyVars
<1> SUFFICES ASSUME [HouseNext]_houseVars
             PROVE  [PassNext]_passVars /\ [VisitNext]_visitVars /\ [DutyNext]_dutyVars
  OBVIOUS
<1>1. CASE PassMoves
  BY <1>1 DEF PassMoves
<1>2. CASE VisitMoves
  BY <1>2 DEF VisitMoves
<1>3. CASE DutyMoves
  BY <1>3 DEF DutyMoves
<1>4. CASE UNCHANGED houseVars
  BY <1>4 DEF houseVars
<1>5. QED
  BY <1>1, <1>2, <1>3, <1>4 DEF HouseNext

(***************************************************************************)
(* The gate house implements the specification of each of its components.  *)
(***************************************************************************)
THEOREM HouseImplements == HouseSpec => PassSpec /\ VisitSpec /\ DutySpec
<1>1. HouseInit => PassInit /\ VisitInit /\ DutyInit
  BY DEF HouseInit
<1>2. QED
  BY <1>1, HouseMoves, PTL DEF HouseSpec, PassSpec, VisitSpec, DutySpec

(***************************************************************************)
(* Every value the three components keep has its type, however their       *)
(* requests interleave.                                                    *)
(***************************************************************************)
THEOREM HouseTypes == HouseSpec => []GateHouseTypeOK
<1>1. PassInv /\ VisitInv /\ DutyInv => GateHouseTypeOK
  BY DEF PassInv, VisitInv, DutyInv, GateHouseTypeOK
<1>2. QED
  BY <1>1, HouseImplements, PassInvInit, PassInvStep, VisitInvInit, VisitInvStep,
     DutyInvInit, DutyInvStep, PTL DEF PassSpec, VisitSpec, DutySpec

=============================================================================
