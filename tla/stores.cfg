SPECIFICATION FairSpec
CONSTANTS
  t1 = t1
  t2 = t2
  Tx = {t1, t2}
  Store = {1, 2, 3, 4}
  Existing = {1, 2}
  Uses <- OneNewStoreEach
  None = None
  Free = Free
  MaxFailures = 2
  SlowFill = FALSE
INVARIANTS CountsAddUp CacheIsCurrent CreatedIsListed RollbackLeavesNothing
PROPERTIES TransactionsEnd
\* Transactions end.
CHECK_DEADLOCK FALSE
