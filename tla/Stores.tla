------------------------------- MODULE Stores -------------------------------
(* The store repository of package fs, and the transactions of package common *)
(* that create stores in it and apply their count deltas to it: a list of the *)
(* stores, a file with the info of each, and a copy of that info in the L2     *)
(* cache. The list is written under one lock, an info under the lock of its    *)
(* store, and infos are read without a lock. An info is the count: how often   *)
(* it includes the delta of each transaction. Locks are as NodeLocks promises. *)
EXTENDS Integers, FiniteSets, FiniteSetsExt

CONSTANTS Tx,
          Store,        \* the names of stores: numbers, for Update's order
          Existing,     \* the stores there are at the beginning
          Uses,         \* [Tx -> SUBSET Store]: the stores a transaction opens, or creates
          None, Free,   \* model values: no file or no cached copy, no lock owner
          MaxFailures,  \* bound: writes that fail
          SlowFill      \* may others write between Get's read of a file and its write to the cache?

ASSUME StoresAssumption ==
  /\ Store \subseteq Nat /\ Existing \subseteq Store /\ Uses \in [Tx -> SUBSET Store]
  /\ MaxFailures \in Nat /\ SlowFill \in BOOLEAN
  /\ Free \notin Tx /\ None \notin Store \cup [Tx -> Int]

VARIABLES list,      \* the store list file
          file,      \* the info file of each store
          cache,     \* the copy of each info in the L2 cache
          listLock,  \* the owner of the store list's lock
          storeLock, \* the owner of each store's lock
          tx,        \* the transactions: where each is, and its local variables
          applied,   \* history: whose delta each store owes, by calls of Update that succeeded
          spoiled,   \* history: the stores an undo could not write
          failures   \* how many writes have failed

vars == <<list, file, cache, listLock, storeLock, tx, applied, spoiled, failures>>
disk == <<list, file>>
locks == <<listLock, storeLock>>
history == <<applied, spoiled, failures>>

Zero == [t \in Tx |-> 0]

\* todo, opened and created are the trees of the transaction, logged the stores of its createStore
\* entries; dir, rest and done belong to a call of Update, buf to one of Add or Remove.
Init ==
  /\ list = Existing
  /\ file = [s \in Store |-> IF s \in Existing THEN Zero ELSE None]
  /\ cache = [s \in Store |-> None]
  /\ listLock = Free
  /\ storeLock = [s \in Store |-> Free]
  /\ tx = [t \in Tx |-> [pc |-> "idle", todo |-> Uses[t], opened |-> {}, created |-> {}, logged |-> {},
                         store |-> None, info |-> None, buf |-> {}, drop |-> {}, dir |-> 1, rest |-> {},
                         done |-> {}, gone |-> FALSE, err |-> FALSE, crashed |-> FALSE]]
  /\ applied = {} /\ spoiled = {}
  /\ failures = 0

Go(t, x) == tx' = [tx EXCEPT ![t] = x]

\* A write that fails: an I/O error.
MayFail == failures < MaxFailures /\ failures' = failures + 1

\* What GetWithTTL answers, and the cache it leaves.
Info(s) == IF cache[s] # None THEN cache[s] ELSE file[s]
Filled(s) == [cache EXCEPT ![s] = Info(s)]

\* Timing: nobody is between reading the info of s from disk and caching it.
Settled(s) == SlowFill \/ ~ \E t \in Tx : tx[t].pc = "fill" /\ tx[t].store = s

-----------------------------------------------------------------------------
(* Removing stores, in rollbacks, in recovery and when Add has failed. *)

\* The rollback's last part: the stores in `drop` are removed one after the other.
Removing(x, drop) ==
  IF drop = {}
  THEN [x EXCEPT !.pc = "rolledback", !.store = None, !.buf = {}, !.drop = {}]
  ELSE [x EXCEPT !.pc = "rmlock", !.store = Min(drop), !.buf = {}, !.drop = drop \ {Min(drop)}]

RemoveLock(t) ==
  /\ tx[t].pc = "rmlock" /\ listLock = Free /\ listLock' = t
  /\ Go(t, [tx[t] EXCEPT !.pc = "rmread"])
  /\ UNCHANGED <<disk, cache, storeLock, history>>

RemoveRead(t) ==
  /\ tx[t].pc = "rmread"
  /\ Go(t, [tx[t] EXCEPT !.pc = "rmcache", !.buf = list \ {tx[t].store}])
  /\ UNCHANGED <<disk, cache, locks, history>>

RemoveCache(t) ==
  /\ tx[t].pc = "rmcache" /\ cache' = [cache EXCEPT ![tx[t].store] = None]
  /\ Go(t, [tx[t] EXCEPT !.pc = "rmfile"])
  /\ UNCHANGED <<disk, locks, history>>

\* An error is kept for later, and the list is written all the same.
RemoveFile(t) ==
  /\ tx[t].pc = "rmfile"
  /\ \/ /\ file' = [file EXCEPT ![tx[t].store] = None]
        /\ applied' = {a \in applied : a[2] # tx[t].store}
        /\ Go(t, [tx[t] EXCEPT !.pc = "rmlist"]) /\ UNCHANGED failures
     \/ MayFail /\ Go(t, [tx[t] EXCEPT !.pc = "rmlist", !.err = TRUE]) /\ UNCHANGED <<file, applied>>
  /\ UNCHANGED <<list, cache, locks, spoiled>>

RemoveList(t) ==
  /\ tx[t].pc = "rmlist"
  /\ \/ list' = tx[t].buf /\ Go(t, Removing(tx[t], tx[t].drop)) /\ UNCHANGED failures
     \/ MayFail /\ Go(t, Removing([tx[t] EXCEPT !.err = TRUE], tx[t].drop)) /\ UNCHANGED list
  /\ listLock' = Free
  /\ UNCHANGED <<file, cache, storeLock, applied, spoiled>>

-----------------------------------------------------------------------------
(* NewBtree: open a store, or log createStore and Add it. *)

NewBtree(t, s) ==
  /\ tx[t].pc = "idle" /\ s \in tx[t].todo
  /\ \/ /\ Info(s) # None
        /\ LET x == [tx[t] EXCEPT !.todo = @ \ {s}, !.opened = @ \cup {s}]
           IN  Go(t, IF cache[s] # None THEN x ELSE [x EXCEPT !.pc = "fill", !.store = s, !.info = file[s]])
     \/ /\ Info(s) = None
        /\ Go(t, [tx[t] EXCEPT !.pc = "addlock", !.store = s, !.todo = @ \ {s}, !.logged = @ \cup {s}])
  /\ UNCHANGED <<disk, cache, locks, history>>

\* GetWithTTL caches what it has read from disk.
FillCache(t) ==
  /\ tx[t].pc = "fill" /\ cache' = [cache EXCEPT ![tx[t].store] = tx[t].info]
  /\ Go(t, [tx[t] EXCEPT !.pc = "idle", !.store = None, !.info = None])
  /\ UNCHANGED <<disk, locks, history>>

\* Mutant: the list is written by whoever wants to.
AddUnlocked(t) ==
  /\ tx[t].pc = "addlock" /\ Go(t, [tx[t] EXCEPT !.pc = "addread"])
  /\ UNCHANGED <<disk, cache, locks, history>>

AddLock(t) ==
  /\ tx[t].pc = "addlock" /\ listLock = Free /\ listLock' = t
  /\ Go(t, [tx[t] EXCEPT !.pc = "addread"])
  /\ UNCHANGED <<disk, cache, storeLock, history>>

\* Mutant: a failed Add is not cleaned up after.
AddFailedAsIs(t) == listLock' = Free /\ Go(t, Removing(tx[t], tx[t].created))

\* Add returns an error: the list is unlocked, the store removed, and the transaction rolled back.
AddFailed(t) ==
  /\ listLock' = Free
  /\ Go(t, [tx[t] EXCEPT !.pc = "rmlock", !.buf = {}, !.drop = tx[t].created])

AddRead(t) ==
  /\ tx[t].pc = "addread"
  /\ \/ tx[t].store \in list /\ AddFailed(t)
     \/ tx[t].store \notin list /\ Go(t, [tx[t] EXCEPT !.pc = "addlist", !.buf = list \cup {tx[t].store}]) /\ UNCHANGED listLock
  /\ UNCHANGED <<disk, cache, storeLock, history>>

AddList(t) ==
  /\ tx[t].pc = "addlist"
  /\ \/ list' = tx[t].buf /\ Go(t, [tx[t] EXCEPT !.pc = "addinfo", !.buf = {}]) /\ UNCHANGED <<listLock, failures>>
     \/ MayFail /\ AddFailed(t) /\ UNCHANGED list
  /\ UNCHANGED <<file, cache, storeLock, applied, spoiled>>

AddInfo(t) ==
  /\ tx[t].pc = "addinfo"
  /\ \/ /\ file' = [file EXCEPT ![tx[t].store] = Zero]
        /\ Go(t, [tx[t] EXCEPT !.pc = "addcache"]) /\ UNCHANGED <<listLock, failures>>
     \/ MayFail /\ AddFailed(t) /\ UNCHANGED file
  /\ UNCHANGED <<list, cache, storeLock, applied, spoiled>>

AddCache(t) ==
  LET s == tx[t].store
  IN  /\ tx[t].pc = "addcache" /\ cache' = [cache EXCEPT ![s] = Zero]
      /\ listLock' = Free
      /\ Go(t, [tx[t] EXCEPT !.pc = "idle", !.store = None, !.opened = @ \cup {s}, !.created = @ \cup {s}])
      /\ UNCHANGED <<disk, storeLock, history>>

\* The caller rolls the transaction back before it commits.
Rollback(t) ==
  /\ tx[t].pc = "idle" /\ Go(t, Removing(tx[t], tx[t].created))
  /\ UNCHANGED <<disk, cache, locks, history>>

-----------------------------------------------------------------------------
(* Update, with the deltas of a commit (dir = 1) or of its rollback (dir = -1). *)

UpdateCall(x, dir, stores) ==
  [x EXCEPT !.pc = "uplock", !.dir = dir, !.rest = stores, !.done = {}, !.gone = FALSE,
            !.store = Min(stores), !.info = None]

\* commitStores, in phase 1.
Commit(t) ==
  /\ tx[t].pc = "idle" /\ tx[t].todo = {} /\ tx[t].opened # {}
  /\ Go(t, UpdateCall(tx[t], 1, tx[t].opened))
  /\ UNCHANGED <<disk, cache, locks, history>>

UpdateLock(t) ==
  /\ tx[t].pc = "uplock" /\ \A s \in tx[t].rest : storeLock[s] = Free
  /\ storeLock' = [s \in Store |-> IF s \in tx[t].rest THEN t ELSE storeLock[s]]
  /\ Go(t, [tx[t] EXCEPT !.pc = "upread"])
  /\ UNCHANGED <<disk, cache, listLock, history>>

\* What a call that returns leaves to the transaction: a commit that failed rolls back without
\* another Update, a rollback goes on to remove the stores it created. A call that has found a
\* store gone returns no error.
AfterUpdate(t, ok) ==
  LET x == [tx[t] EXCEPT !.rest = {}, !.done = {}, !.info = None]
  IN  IF ok /\ x.dir = 1 THEN [x EXCEPT !.pc = "applied", !.store = None]
      ELSE Removing([x EXCEPT !.err = @ \/ (x.dir = -1 /\ ~ ok)], x.created)

\* Mutant: the deferred Unlock is forgotten.
KeepLocks(t) == storeLock' = storeLock

UnlockStores(t) == storeLock' = [s \in Store |-> IF storeLock[s] = t THEN Free ELSE storeLock[s]]

\* Mutant: a failed call leaves what it has written.
NoUndo(t, gone) == UnlockStores(t) /\ Go(t, AfterUpdate(t, gone))

\* A write failed, or a store is gone: the stores already written are undone.
StartUndo(t, gone) ==
  IF tx[t].done = {} THEN UnlockStores(t) /\ Go(t, AfterUpdate(t, gone))
  ELSE Go(t, [tx[t] EXCEPT !.pc = "undo", !.store = Min(tx[t].done), !.gone = gone]) /\ UNCHANGED storeLock

UpdateRead(t) ==
  LET s == tx[t].store
  IN  /\ tx[t].pc = "upread" /\ cache' = Filled(s)
      /\ IF Info(s) = None THEN StartUndo(t, TRUE)
         ELSE Go(t, [tx[t] EXCEPT !.pc = "upwrite", !.info = Info(s)]) /\ UNCHANGED storeLock
      /\ UNCHANGED <<disk, listLock, history>>

Plus(info, t, d) == [info EXCEPT ![t] = @ + d]

UpdateWrite(t) ==
  LET s == tx[t].store
      new == Plus(tx[t].info, t, tx[t].dir)
  IN  /\ tx[t].pc = "upwrite" /\ Settled(s)
      /\ \/ /\ file' = [file EXCEPT ![s] = new]
            /\ Go(t, [tx[t] EXCEPT !.pc = "upcache", !.info = new]) /\ UNCHANGED <<storeLock, failures>>
         \/ MayFail /\ StartUndo(t, FALSE) /\ UNCHANGED file
      /\ UNCHANGED <<list, cache, listLock, applied, spoiled>>

\* Mutant: the cached copy keeps the old count.
StaleCopy(t) == cache

\* SetStruct of the info just written.
NewCopy(t) == [cache EXCEPT ![tx[t].store] = tx[t].info]

UpdateCache(t) ==
  LET s == tx[t].store
      rest == tx[t].rest \ {s}
      mine == {<<t, r>> : r \in tx[t].done \cup {s}}
  IN  /\ tx[t].pc = "upcache" /\ cache' = NewCopy(t)
      /\ IF rest # {}
         THEN /\ Go(t, [tx[t] EXCEPT !.pc = "upread", !.rest = rest, !.done = @ \cup {s}, !.store = Min(rest)])
              /\ UNCHANGED <<storeLock, applied>>
         ELSE /\ applied' = IF tx[t].dir = 1 THEN applied \cup mine ELSE applied \ mine
              /\ UnlockStores(t) /\ Go(t, AfterUpdate(t, TRUE))
      /\ UNCHANGED <<disk, listLock, spoiled, failures>>

\* The rest of undo once a store is dealt with.
UndoNext(t) ==
  LET done == tx[t].done \ {tx[t].store}
  IN  IF done = {} THEN UnlockStores(t) /\ Go(t, AfterUpdate(t, tx[t].gone))
      ELSE Go(t, [tx[t] EXCEPT !.pc = "undo", !.done = done, !.store = Min(done)]) /\ UNCHANGED storeLock

\* The delta is taken out of what the store has now. An undo that fails is given up,
\* and there is none for a store that is gone.
Undo(t) ==
  LET s == tx[t].store
      new == Plus(Info(s), t, - tx[t].dir)
  IN  /\ tx[t].pc = "undo" /\ Settled(s) /\ cache' = Filled(s)
      /\ \/ /\ Info(s) # None /\ file' = [file EXCEPT ![s] = new]
            /\ Go(t, [tx[t] EXCEPT !.pc = "undocache", !.info = new])
            /\ UNCHANGED <<storeLock, spoiled, failures>>
         \/ /\ IF Info(s) = None THEN UNCHANGED <<spoiled, failures>>
                                ELSE MayFail /\ spoiled' = spoiled \cup {s}
            /\ UndoNext(t) /\ UNCHANGED file
      /\ UNCHANGED <<list, listLock, applied>>

UndoCache(t) ==
  /\ tx[t].pc = "undocache" /\ cache' = NewCopy(t)
  /\ UndoNext(t)
  /\ UNCHANGED <<disk, listLock, history>>

\* Phase 2 succeeds, or the transaction is rolled back with its delta applied.
Finish(t) ==
  /\ tx[t].pc = "applied" /\ Go(t, [tx[t] EXCEPT !.pc = "committed"])
  /\ UNCHANGED <<disk, cache, locks, history>>

RollbackApplied(t) ==
  LET others == tx[t].opened \ tx[t].created
  IN  /\ tx[t].pc = "applied"
      /\ Go(t, IF others = {} THEN Removing([tx[t] EXCEPT !.dir = -1], tx[t].created)
               ELSE UpdateCall(tx[t], -1, others))
      /\ UNCHANGED <<disk, cache, locks, history>>

-----------------------------------------------------------------------------
(* The environment. *)

\* Retries for a lock another holds are over.
GiveUp(t) ==
  /\ \/ tx[t].pc = "addlock" /\ listLock # Free
        /\ Go(t, [tx[t] EXCEPT !.pc = "rmlock", !.drop = tx[t].created])
     \/ tx[t].pc = "rmlock" /\ listLock # Free
        /\ Go(t, Removing([tx[t] EXCEPT !.err = TRUE], tx[t].drop))
     \/ tx[t].pc = "uplock" /\ (\E s \in tx[t].rest : storeLock[s] # Free)
        /\ Go(t, AfterUpdate(t, FALSE))
  /\ UNCHANGED <<disk, cache, locks, history>>

\* A process dies while it creates stores, or removes them before it has committed anything.
Crash(t) ==
  /\ tx[t].pc \in {"idle", "fill", "addlock", "addread", "addlist", "addinfo", "addcache",
                   "rmlock", "rmread", "rmcache", "rmfile", "rmlist"}
  /\ ~ tx[t].crashed /\ tx[t].dir = 1
  /\ Go(t, [tx[t] EXCEPT !.pc = "dead", !.crashed = TRUE])
  /\ UNCHANGED <<disk, cache, locks, history>>

\* Its lock lapses.
Lapse(t) ==
  /\ tx[t].pc = "dead" /\ listLock = t /\ listLock' = Free
  /\ UNCHANGED <<disk, cache, storeLock, tx, history>>

\* Its log expires: another process removes the stores it logged.
Recover(t) ==
  /\ tx[t].pc = "dead" /\ listLock # t
  /\ Go(t, Removing(tx[t], tx[t].logged))
  /\ UNCHANGED <<disk, cache, locks, history>>

\* A cached copy expires.
Expire(s) ==
  /\ cache[s] # None /\ cache' = [cache EXCEPT ![s] = None]
  /\ UNCHANGED <<disk, locks, tx, history>>

Step(t) ==
  \/ RemoveLock(t) \/ RemoveRead(t) \/ RemoveCache(t) \/ RemoveFile(t) \/ RemoveList(t)
  \/ (\E s \in Store : NewBtree(t, s)) \/ FillCache(t)
  \/ AddLock(t) \/ AddRead(t) \/ AddList(t) \/ AddInfo(t) \/ AddCache(t)
  \/ Commit(t) \/ UpdateLock(t) \/ UpdateRead(t) \/ UpdateWrite(t) \/ UpdateCache(t)
  \/ Undo(t) \/ UndoCache(t) \/ Finish(t)

Next ==
  \/ \E t \in Tx : Step(t) \/ Rollback(t) \/ RollbackApplied(t) \/ GiveUp(t) \/ Crash(t) \/ Lapse(t) \/ Recover(t)
  \/ \E s \in Store : Expire(s)

Spec == Init /\ [][Next]_vars

\* A process that can go on does, and the lock of a dead one lapses. Nothing is assumed of recovery,
\* which may never run, or of retries, which may go on for ever.
FairSpec == Spec /\ \A t \in Tx : WF_vars(Step(t)) /\ WF_vars(Lapse(t))

-----------------------------------------------------------------------------
(* Properties. *)

\* A store's count owes exactly the deltas of the calls of Update that succeeded: none is lost to
\* another, and a call that fails half way leaves nothing behind unless its undo fails too.
CountsAddUp ==
  \A s \in Store : (storeLock[s] = Free /\ file[s] # None /\ s \notin spoiled) =>
    file[s] = [t \in Tx |-> IF <<t, s>> \in applied THEN 1 ELSE 0]

\* While nobody updates a store, a cached copy of its info is the one on disk.
CacheIsCurrent == \A s \in Store : storeLock[s] = Free => cache[s] \in {None, file[s]}

\* The store list keeps every store: those that were there, and those created by transactions
\* that have not been rolled back, whatever others add and remove in between.
CreatedIsListed ==
  /\ Existing \subseteq list
  /\ \A t \in Tx : tx[t].pc \notin {"rmlock", "rmread", "rmcache", "rmfile", "rmlist", "dead", "rolledback"} =>
       tx[t].created \subseteq {s \in list : file[s] # None}

\* A rollback without error has removed every trace of the stores the transaction began to create.
RollbackLeavesNothing ==
  \A t \in Tx : tx[t].pc = "rolledback" /\ ~ tx[t].err =>
    \A s \in tx[t].logged : s \notin list /\ file[s] = None /\ cache[s] = None

\* Termination: a transaction commits or is rolled back unless its process dies. Add, Remove and
\* Update never wait for ever for the list or for a store, whichever way another call has returned
\* or died, even if they never give up: every path out of them unlocks, or the lock lapses.
TransactionsEnd == \A t \in Tx : <>(tx[t].pc \in {"committed", "rolledback", "dead"})
=============================================================================
