SPECIFICATION MCFairSpec
CONSTANTS
  p1 = p1
  p2 = p2
  a = a
  b = b
  c = c
  Process = {p1, p2}
  ID = {a, b, c}
  NoID = NoID
  Free = Free
  HandlesPerBlock = 2
  MaxSegments = 2
  MaxVersion = 2
  Home <- TwoHomes
  Scenes <- AnyScene
INVARIANTS CurrentUnlessRaced TornIsCovered OneRecord
PROPERTY CallsReturn
\* Every process may have died.
CHECK_DEADLOCK FALSE
