SPECIFICATION FairSpec
CONSTANTS
  u1 = u1  u2 = u2  u3 = u3
  b1 = b1  b2 = b2  b3 = b3  b4 = b4
  c1 = c1  c2 = c2  w1 = w1  w2 = w2
  NoBooking = NoBooking
  Users = {u1, u2, u3}
  BookingIds = {b1, b2, b3, b4}
  Owner <- OwnerTwoOneOne
  Capacity = 2
  Priced = FALSE
  HasEnd = TRUE
  Callers = {}
  Workers = {w1}
  AdminStatuses = {}
  LastPhase = 4
  MaxDeliver = 2
  MaxCancels = 1
  MaxCrashes = 1
INVARIANTS RosterHasSeats ConfirmedLeaveLine NoShowWasAbsent
PROPERTIES OffersInOrder CancelledPlanEmpties
CHECK_DEADLOCK FALSE
