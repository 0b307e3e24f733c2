SPECIFICATION Spec
CONSTANTS
  t1 = t1
  t2 = t2
  t3 = t3
  n1 = n1
  n2 = n2
  n3 = n3
  Txn = {t1, t2}
  Node = {n1, n2, n3}
  Updates <- MergeUpdates
  Removes <- MergeRemoves
  Fetches <- None
  Adds <- MergeAdds
  SameItem <- NoPairs
  MaxRetry = 2
  MaxMiscount = 1
  CrashAt <- SafeCrashes
  FailAt <- WriteFails
  LapseAt <- NoLapse
  SweepFirst = TRUE
  SweepLive = FALSE
  Undisturbed = TRUE
  Impatient = TRUE
  Nil = Nil
  Base = Base
  Free = Free
  NoHandle = NoHandle
  NotRead = NotRead
  NoSweep = NoSweep
INVARIANTS
  VisibleIsCovered
  NoOrphanBlobs
  NoDanglingNode
  RemoverSawAll
  RemovedStaysRemoved
PROPERTIES
  ImplementsAtomicCommit
\* Every transaction ends, so the system does stop.
CHECK_DEADLOCK FALSE
