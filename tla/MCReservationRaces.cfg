SPECIFICATION ReservationSpec
CONSTANTS
  h1 = h1
  h2 = h2
  v1 = v1
  v2 = v2
  p1 = p1
  p2 = p2
  Handler <- TwoHandlers
  Villa <- MCVilla
  Period <- MCPeriod
  Booking <- OneBooking
  Guests = {1}
  Price = {0, 2}
  Payment <- SignedPayment
  Capacity = 3
  Operation <- ViewOperations
  MaxReservations = 1
  MaxPayments = 3
SYMMETRY HandlerSymmetry
INVARIANTS
  PaymentColumnsAgree
  CheckedOutIsCompleted
CHECK_DEADLOCK FALSE
