SPECIFICATION Spec
CONSTANTS
  t1 = t1
  t2 = t2
  t3 = t3
  n1 = n1
  n2 = n2
  n3 = n3
  Txn = {t1, t2, t3}
  Node = {n1, n2}
  Updates <- UnevenUpdates
  Removes <- None
  Fetches <- ReaderFetches
  Adds <- None
  SameItem <- SameItems
  MaxRetry = 2
  MaxMiscount = 1
  CrashAt <- NoCrash
  FailAt <- WriteFails
  LapseAt <- Staging
  SweepFirst = TRUE
  SweepLive = FALSE
  Undisturbed = FALSE
  Impatient = FALSE
  Nil = Nil
  Base = Base
  Free = Free
  NoHandle = NoHandle
  NotRead = NotRead
  NoSweep = NoSweep
INVARIANTS
  NoLostUpdate
  VisibleIsCovered
\* Every transaction ends, so the system does stop.
CHECK_DEADLOCK FALSE
