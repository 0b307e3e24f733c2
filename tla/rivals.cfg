SPECIFICATION FairSpec
CONSTANTS
  t1 = t1
  t2 = t2
  t3 = t3
  n1 = n1
  n2 = n2
  n3 = n3
  Txn = {t1, t2, t3}
  Node = {n1, n2}
  Updates <- RivalsUpdates
  Removes <- None
  Fetches <- RivalsFetches
  Adds <- None
  SameItem <- NoPairs
  MaxRetry = 3
  MaxMiscount = 1
  CrashAt <- NoCrash
  FailAt <- NoFailure
  LapseAt <- NoLapse
  SweepFirst = TRUE
  SweepLive = FALSE
  Undisturbed = TRUE
  Impatient = FALSE
  Nil = Nil
  Base = Base
  Free = Free
  NoHandle = NoHandle
  NotRead = NotRead
  NoSweep = NoSweep
INVARIANTS
  TypeOK
  MutualExclusion
  NoLostUpdate
PROPERTIES
  CompatibleCommits
\* Every transaction ends, so the system does stop.
CHECK_DEADLOCK FALSE
