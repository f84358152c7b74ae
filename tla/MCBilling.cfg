\* Two payments and two requests at once on an invoice; two runs over two residences.
CONSTANTS
  Payments = {m1, m2}
  NoPayment = NoPayment
  Jobs = {j1, j2}
  Price = 2
  Amounts = {1}
  MaxJobs = 3
  MaxCharges = 1
  MaxOthers = 1
  LastDate = 1
  Residences = {r1, r2}
  Runs = {w1, w2}
  MaxDay = 1
  MaxInvoices = 6
SPECIFICATION FocusSpec
SYMMETRY Same
INVARIANTS
  BillingTypeOK
  ColumnsBalance
  TotalsMatchRows
  ReceiptsFollowPayments
  EveryPeriodBilled
PROPERTIES
  CancelledStays
CHECK_DEADLOCK FALSE
