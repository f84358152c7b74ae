\* One pass edited by one PATCH; one visitor and one guard, two requests each.
CONSTANTS
  Passes = {p1}
  Gates = {g1, g2}
  AnyGate = AnyGate
  Editors = {e1}
  MaxTime = 3
  MaxRows = 2
  MaxApprovals = 2
  Visitors = {v1}
  EntryGates = {g1}
  NoVisitor = NoVisitor
  Requests = {r1, r2}
  MaxHistory = 4
  MaxRecords = 1
  Guards = {h1}
  Posts = {g1}
  Calls = {c1, c2}
  MaxShifts = 2
  MaxEvents = 2
SPECIFICATION FocusSpec
SYMMETRY Interchangeable
INVARIANTS
  GateHouseTypeOK
  EntryNeedsApproval
  LogExplainsPass
  StatusHasHistory
  UnracedVisitInOrder
  ShiftsAgreeWithLog
CHECK_DEADLOCK FALSE
