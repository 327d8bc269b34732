SPECIFICATION AccessSpec
CONSTANTS
  u1 = u1
  Guests = {u1}
  Terms <- PossibleTerms
INVARIANTS MembersWereLetIn SeatsWereAllowed
CHECK_DEADLOCK FALSE
