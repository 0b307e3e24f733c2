SPECIFICATION FairSpec
CONSTANTS
  c1 = c1
  c2 = c2
  c3 = c3
  Client = {c1, c2, c3}
  Key = {1, 2, 3}
  Wants <- MCWants
  Free = Free
  Capacity = 1000
  LiveExpiry = {c3}
  MayCrash = TRUE
PROPERTY ImplementsNodeLocks
PROPERTY NoLivelock
PROPERTY OnlyOwnerFrees
CHECK_DEADLOCK FALSE
