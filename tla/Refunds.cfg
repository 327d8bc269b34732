SPECIFICATION RefundsFairSpec
CONSTANTS
  w1 = w1  w2 = w2  s1 = s1  s2 = s2  NoMsg = NoMsg
  Events = {1}
  Workers = {w1}
  MaxDeliver = 2
  MaxFaults = 1
  MaxErrors = 1
  Paid = 2
  Staff = {s1}
  Attempts = 4
  Percents = {0, 100}
  LateFailures = TRUE
INVARIANTS MarkedWasPublished MoneyWithinPayment MoneyOutIsCounted EntriesAreReal AcknowledgedIsRefunded
PROPERTIES EventsArrive OutboxRespected
CHECK_DEADLOCK FALSE
