SPECIFICATION Spec
CONSTANTS
  u1 = u1  u2 = u2  u3 = u3
  b1 = b1  b2 = b2  b3 = b3  b4 = b4
  c1 = c1  c2 = c2  w1 = w1  w2 = w2
  NoBooking = NoBooking
  Users = {u1,u2}
  BookingIds = {b1,b2,b3}
  Owner <- OwnerTwoOne
  Capacity = 2
  Priced = TRUE
  HasEnd = FALSE
  Callers = {c1, c2}
  Workers = {w1}
  AdminStatuses = {"refunded"}
  LastPhase = 0
  MaxDeliver = 2
  MaxCancels = 1
  MaxCrashes = 0
VIEW Visible
SYMMETRY CallerSymmetry
INVARIANTS TypeOK NoOverbooking PromisesFit OneHoldEach
PROPERTY ImplementsLedger
CHECK_DEADLOCK FALSE
