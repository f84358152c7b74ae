SPECIFICATION ReservationSpec
CONSTANTS
  h1 = h1
  h2 = h2
  v1 = v1
  v2 = v2
  p1 = p1
  p2 = p2
  Handler <- OneHandler
  Villa <- MCVilla
  Period <- MCPeriod
  Booking <- MCBooking
  Guests = {1, 2}
  Price = {1}
  Payment = {2}
  Capacity = 3
  Operation <- AllOperations
  MaxReservations = 2
  MaxPayments = 2
SYMMETRY MCSymmetry
INVARIANTS
  ReservationTypeOK
  WithinPolicy
  StayInOrder
  PaidCoversRows
CHECK_DEADLOCK FALSE
