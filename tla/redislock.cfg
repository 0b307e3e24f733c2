SPECIFICATION Spec
CONSTANTS
  c1 = c1
  c2 = c2
  c3 = c3
  slow = slow
  Client = {c1, c2, c3, slow}
  Key = {1, 2, 3, 4}
  Wants <- MCWants
  Free = Free
  KeepKeys = {slow}
  LiveExpiry = {slow}
INVARIANTS HeldStaysLocked FlagsCoverLocks
PROPERTY ImplementsNodeLocks
CHECK_DEADLOCK FALSE
