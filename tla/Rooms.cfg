SPECIFICATION Spec
CONSTANTS
  p1 = p1  p2 = p2  p3 = p3  x1 = x1  x2 = x2  x3 = x3  c1 = c1  c2 = c2  none = none
  Flows = {"match", "event", "groups"}
  People = {p1, p2, p3}
  Nobody = none
  Windows = {x1, x2, x3}
  NoWindow = none
  Host <- WindowEach
  Calls = {c1, c2}
  Free = none
  TargetSize = 2
  MaxRooms = 3
INVARIANTS MatchesArePairs OneRoomPerEvent GroupsAreDisjoint
SYMMETRY CallSymmetry
CHECK_DEADLOCK FALSE
