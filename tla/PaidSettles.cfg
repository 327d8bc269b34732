SPECIFICATION PaidFairSpec
CONSTANTS
  u1 = u1  u2 = u2  b1 = b1  b2 = b2
  o1 = o1  o2 = o2  c1 = c1  c2 = c2  k1 = k1  k2 = k2  w1 = w1
  NoBooking = NoBooking  NoOrder = NoOrder
  Users = {u1, u2}
  BookingIds = {b1, b2}
  Owner <- OwnerOneEach
  Capacity = 1
  Priced = TRUE
  HasEnd = FALSE
  Callers = {c1, c2}
  Workers = {w1}
  AdminStatuses = {}
  LastPhase = 1
  MaxDeliver = 2
  MaxCancels = 1
  MaxCrashes = 0
  Orders = {o1}
  OrderOf <- OrderFirst
  Buyers = {k1}
  MaxDue = 1
PROPERTIES  HoldsEnd BookingsRespected
CHECK_DEADLOCK FALSE
