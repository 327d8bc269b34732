SPECIFICATION PayoutsSpec
CONSTANTS
  c1 = c1  c2 = c2  Nobody = Nobody
  Calls = {c1, c2}
  Percent = 15
  ProPercent = 10
  Amounts = {4, 7}
  MaxCaptured = 22
INVARIANTS PaidWithinEarnings
CHECK_DEADLOCK FALSE
