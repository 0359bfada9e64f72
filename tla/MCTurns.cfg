CONSTANTS
  s = s
  r = r
  a = a
  b = b
  Thread <- OneMore
  Sessions = {s, r}
  Slots = {a, b}
  First = a
  None = None
  Somebody = Somebody
  Machine = "locks"
  Asks = {"online", "offline", "setup", "signout"}
  Hands = FALSE
  MaxAsks = 2
  MaxLives = 2
SPECIFICATION FairSpec
INVARIANT Exclusion
INVARIANT MarkerStays
 
PROPERTY EditsItsOwnField
PROPERTY EveryTurnComes
CHECK_DEADLOCK FALSE
