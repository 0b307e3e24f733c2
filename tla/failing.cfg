SPECIFICATION Spec
CONSTANTS
  t1 = t1
  t2 = t2
  t3 = t3
  n1 = n1
  n2 = n2
  n3 = n3
  Txn = {t1, t2}
  Node = {n1, n2}
  Updates <- ShrinkUpdates
  Removes <- ShrinkRemoves
  Fetches <- None
  Adds <- None
  SameItem <- NoPairs
  MaxRetry = 2
  MaxMiscount = 1
  CrashAt <- CountedCrashes
  FailAt <- AnyFailure
  LapseAt <- AnyLapse
  SweepFirst = FALSE
  SweepLive = FALSE
  Undisturbed = FALSE
  Impatient = TRUE
  Nil = Nil
  Base = Base
  Free = Free
  NoHandle = NoHandle
  NotRead = NotRead
  NoSweep = NoSweep
INVARIANTS
  CountConsistent
\* Every transaction ends, so the system does stop.
CHECK_DEADLOCK FALSE
