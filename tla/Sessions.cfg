SPECIFICATION FairSpec
CONSTANTS
  d1 = d1  r1 = r1  r2 = r2  NoRow = NoRow
  Devices = {d1}
  Requests = {r1, r2}
  MaxTokens = 3
INVARIANTS SessionsDoNotFork
PROPERTIES EndedSessionsStayEnded InactiveShutOut
CHECK_DEADLOCK FALSE
