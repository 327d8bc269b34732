SPECIFICATION FairSpec
CONSTANTS
  api = api  w1 = w1  h1 = h1
  Start = 1
  Interval = 1
  Missing = {2}
  Count = 3
  Until = 0
  Horizon = 2
  LastDay = 3
  Extenders = {api, w1}
  Creator = api
  Hosts = {h1}
  MaxDeaths = 1
INVARIANTS RowsFollowRule
PROPERTIES OccurrencesAppear NothingComesBack
CHECK_DEADLOCK FALSE
