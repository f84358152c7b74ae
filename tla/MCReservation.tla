---------------------------- MODULE MCReservation ----------------------------
(* Reservation on a day of two periods: either one, or both, can be booked. *)
EXTENDS Reservation, TLC

CONSTANTS h1, h2, v1, v2, p1, p2

OneHandler == {h1}
TwoHandlers == {h1, h2}
MCVilla == {v1, v2}
MCPeriod == {p1, p2}
MCBooking == {{p1}, {p2}, {p1, p2}}

(* What the views offer: nothing in the repository calls the two jobs.     *)
ViewOperations == AllOperations \ {"expire", "auto_complete"}

OneBooking == {{p1}}
SignedPayment == {-1, 2}

HandlerSymmetry == Permutations(TwoHandlers) \cup Permutations(MCVilla)

(* Handlers, villas and, as MCBooking treats them alike, periods are       *)
(* interchangeable.                                                        *)
MCSymmetry ==
  Permutations(TwoHandlers) \cup Permutations(MCVilla) \cup Permutations(MCPeriod)
==============================================================================
