SPECIFICATION FairSpec
CONSTANTS
  b1 = b1  c1 = c1  c2 = c2  f1 = f1  f2 = f2
  NoBooking = NoBooking
  Bookings = {b1}
  MaxOrders = 2
  Calls = {c1, c2}
  Friends = {f1, f2}
  Price = 2
  Discount = 1
  MaxUses = 1
  Reward = 1
  Cap = 1
  BoostCost = 1
  Grants = {1}
  MaxGrants = 1
INVARIANTS CreditsReturnOnce LimitsKept
PROPERTIES OrdersEnd
CHECK_DEADLOCK FALSE
