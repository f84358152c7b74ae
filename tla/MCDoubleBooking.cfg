SPECIFICATION ReservationSpec
CONSTANTS
  h1 = h1
  h2 = h2
  v1 = v1
  v2 = v2
  p1 = p1
  p2 = p2
  Handler <- TwoHandlers
  Villa <- MCVilla
  Period <- MCPeriod
  Booking <- MCBooking
  Guests = {1}
  Price = {0}
  Payment = {}
  Capacity = 3
  Operation <- ViewOperations
  MaxReservations = 2
  MaxPayments = 0
INVARIANTS
  WithinPolicy
CHECK_DEADLOCK FALSE
