CONSTANTS
  s = s
  r = r
  a = a
  b = b
  Thread <- OneMore
  Sessions = {s, r}
  Slots = {a, b}
  First = a
  None = None
  Somebody = Somebody
  Machine = "refuses"
  Asks = {"online", "offline", "setup", "wizard", "signout", "giveback", "tidy"}
  Hands = TRUE
  MaxAsks = 2
  MaxLives = 1
SPECIFICATION Spec
INVARIANT Exclusion
