SPECIFICATION FairSpec
CONSTANTS
  p1 = p1
  p2 = p2
  r1 = r1
  Program <- MCProgram
  Portal = portal
  Handle <- MCHandle
  MaxCookie = 3
  MaxLives = 2
CHECK_DEADLOCK FALSE
INVARIANTS
  PortalKeepsAccount
PROPERTIES
  HeldUntilReleased
  KeptIsReleased
