---------------------------- MODULE TwoPhaseCommit ----------------------------
(***************************************************************************)
(* The two-phase commit of package common: transactions that read, update, *)
(* remove and add B-tree nodes, guarded by node locks in the L2 cache, by  *)
(* the versions in the registry and by the inactive ID slot of a handle;   *)
(* their live rollback; and the recovery of those that died, from the      *)
(* priority log (pre-images of the handles) and from the transaction log   *)
(* (which commit function was reached).                                    *)
(*                                                                         *)
(* A node's content is abstracted to the set of transactions whose update  *)
(* it includes.  Item locks, item values, new root nodes and replication   *)
(* are other modules' subject.                                             *)
(***************************************************************************)
EXTENDS Handle, Integers

CONSTANTS
  Txn,            \* transactions
  Node,           \* logical IDs
  Updates,        \* [Txn -> SUBSET Node]: nodes a transaction changes,
  Removes,        \*   removes,
  Fetches,        \*   only reads,
  Adds,           \*   and creates
  SameItem,       \* pairs of transactions that change the same item
  MaxRetry,       \* phase1CommitMaxRetryCount
  CrashAt,        \* the program points at which a process may die
  MaxMiscount,    \* bound: how far a recovery that dies and is repeated takes a count below 0
  FailAt,         \* the program points of phase 2 whose registry or log write may fail
  LapseAt,        \* the program points at which the TTL of a live transaction's lock may lapse
  SweepFirst,     \* TRUE: the priority log of a dead transaction is restored before
                  \*   anyone re-takes its locks and before its transaction log expires
  SweepLive,      \* TRUE: GetBatch may hand out the log of a live transaction
  Undisturbed,    \* TRUE: nobody else writes a handle between the registry.Get and the
                  \*   registry.Update of a rollback or a recovery without locks
  Impatient,      \* TRUE: a commit may time out, a read or a lock call may fail, a user
                  \*   may roll back
  Base,           \* the physical ID equal to the logical one (NewHandle)
  Free, NoHandle, NotRead, NoSweep

VARIABLES
  registry,       \* [Node -> handle or NoHandle]
  blobs,          \* the blob store: node, physical ID, content
  count,          \* [Txn -> how often its CountDelta is part of StoreInfo.Count]
  lock,           \* [Node -> holder]: the L2 cache's node locks
  tlog,           \* [Txn -> last commit function in the transaction log, 0 if no log]
  plog,           \* transactions with a priority log file
  pc,             \* [Txn -> program point]
  retry,          \* [Txn -> retryCount of phase1Commit]
  stale,          \* [Txn -> needsRefetchAndMerge]
  keys,           \* [Txn -> nodesKeys is not nil]
  again,          \* [Txn -> this rollback is followed by another attempt]
  rd,             \* [Txn -> [Node -> version and content read]]
  upd,            \* [Txn -> [Node -> handle staged by phase 1, as in the priority log]]
  todo,           \* [Txn -> nodes whose finalised handle is still to be written]
  undo,           \* [Txn -> [Node -> handle read by an undo that is to write it back]]
  sweep,          \* the recovery pass over a priority log, one per cluster ("Prbs")
  done            \* history: transactions past their point of no return

store   == <<registry, blobs, count>>
logs    == <<tlog, plog>>
mem     == <<retry, stale, keys, again, rd, upd, todo, undo>>
vars    == <<registry, blobs, count, lock, tlog, plog, pc, retry, stale, keys, again,
             rd, upd, todo, undo, sweep, done>>

\* The commit functions of transactionlogger.go, in their order.
lockTrackedItems      == 2
areFetchedItemsIntact == 5
commitUpdatedNodes    == 6
commitRemovedNodes    == 7
commitAddedNodes      == 8
commitStoreInfo       == 9
beforeFinalize        == 10
finalizeCommit        == 11
deleteObsoleteEntries == 12

PhysID  == {Nil, Base} \cup (Txn \X Nat)
Handles == HandleOf(PhysID)
Content == SUBSET Txn
Blob    == [node: Node, id: PhysID, seen: Content]
Read    == [ver: Nat, seen: Content]

\* Where a transaction can be: its own program points, then those of its recovery.
Points == {"read", "verify", "lock", "refetch", "dual", "fetched", "update", "reserve",
           "stage", "logUpdated", "logRemoved", "remove", "mark", "logAdded", "add",
           "addBlobs", "logStore", "store", "logBefore", "plog", "check", "phase1", "flip",
           "restore", "plogRemove", "unlock", "logObsolete", "obsolete", "removeLogs",
           "rbStores", "rbNodes", "rbRemoved", "rbRead", "rbUpdated", "rbLogs",
           "committed", "aborted",
           "crashed", "rcAdded", "rcRemoved", "rcUpdated", "rcLogs", "recovered"}
Dead   == {"crashed", "rcAdded", "rcRemoved", "rcUpdated", "rcLogs", "recovered"}
Ended  == {"committed", "aborted"} \cup Dead

W(t)        == Updates[t] \cup Removes[t]
Touched(t)  == W(t) \cup Fetches[t]
IsReader(t) == W(t) = {} /\ Adds[t] = {}
Existing    == Node \ UNION {Adds[t] : t \in Txn}

ASSUME ConstAssumption ==
  /\ Updates \in [Txn -> SUBSET Node]
  /\ Removes \in [Txn -> SUBSET Node]
  /\ Fetches \in [Txn -> SUBSET Node]
  /\ Adds \in [Txn -> SUBSET Node]
  /\ SameItem \subseteq Txn \X Txn
  /\ MaxRetry \in Nat \ {0}
  /\ MaxMiscount \in Nat
  /\ CrashAt \subseteq Points \ {"committed", "aborted", "crashed", "recovered"}
  /\ FailAt \subseteq {"phase1", "flip", "restore", "plogRemove"}
  /\ LapseAt \subseteq Points \ Ended
  /\ {SweepFirst, SweepLive, Undisturbed, Impatient} \subseteq BOOLEAN
  /\ \A t \in Txn : /\ Updates[t] \cap Removes[t] = {}
                    /\ W(t) \cap Fetches[t] = {}
                    /\ Touched(t) \subseteq Existing
                    /\ \A u \in Txn \ {t} : Adds[t] \cap Adds[u] = {}
  /\ Free \notin Txn
  /\ Base # Nil
  /\ {Base, Nil} \cap (Txn \X Nat) = {}
  /\ NoHandle \notin Handles /\ \A S \in SUBSET Txn : NoHandle # S
  /\ NotRead \notin Read
  /\ NoSweep \notin {"taken", "restored"} \X Txn

Nothing == [n \in Node |-> NoHandle]

Init ==
  /\ registry = [n \in Node |-> IF n \in Existing THEN [NewHandle(Base) EXCEPT !.version = 1]
                                                  ELSE NoHandle]
  /\ blobs = {[node |-> n, id |-> Base, seen |-> {}] : n \in Existing}
  /\ count = [t \in Txn |-> 0]
  /\ lock = [n \in Node |-> Free]
  /\ tlog = [t \in Txn |-> 0]
  /\ plog = {}
  /\ pc = [t \in Txn |-> "read"]
  /\ retry = [t \in Txn |-> 0]
  /\ stale = [t \in Txn |-> FALSE]
  /\ keys = [t \in Txn |-> FALSE]
  /\ again = [t \in Txn |-> FALSE]
  /\ rd = [t \in Txn |-> [n \in Node |-> NotRead]]
  /\ upd = [t \in Txn |-> Nothing]
  /\ todo = [t \in Txn |-> {}]
  /\ undo = [t \in Txn |-> Nothing]
  /\ sweep = NoSweep
  /\ done = {}

-----------------------------------------------------------------------------
(* Helpers *)

Registered(n) == registry[n] # NoHandle

HasBlob(n, id) == \E b \in blobs : b.node = n /\ b.id = id
SeenIn(n, id)  == UNION {b.seen : b \in {c \in blobs : c.node = n /\ c.id = id}}
SeenAt(n)      == SeenIn(n, GetActiveID(registry[n]))

\* nodeRepositoryBackend.get can return the node.
Readable(n) == Registered(n) /\ HasBlob(n, GetActiveID(registry[n]))
Fetch(n)    == [ver |-> registry[n].version, seen |-> SeenAt(n)]

\* The physical ID this attempt of t allocates for each node it updates.
NewID(t) == <<t, retry[t]>>

\* A dead transaction's priority log still covers n.
Unswept(n) == \E u \in plog : pc[u] \in Dead /\ n \in W(u)

CanLock(t) == \A n \in W(t) : lock[n] \in {Free, t} /\ ~(SweepFirst /\ Unswept(n))
Take(t)    == [n \in Node |-> IF n \in W(t) THEN t ELSE lock[n]]
\* Mistake: unlock by key, whoever holds it.
ReleaseByKey(t) == [n \in Node |-> IF n \in W(t) THEN Free ELSE lock[n]]
Release(t) == [n \in Node |-> IF lock[n] = t THEN Free ELSE lock[n]]

\* t has all its locks and they do not lapse here: nobody else writes the handles of its
\* nodes, so a registry.Get and the UpdateNoLocks of what it returned are one step.
Secure(t) == (\A n \in W(t) : lock[n] = t) /\ pc[t] \notin LapseAt

Goto(t, p)  == pc' = [pc EXCEPT ![t] = p]
Log(t, f)   == tlog' = [tlog EXCEPT ![t] = f]

\* phase1Commit's "!successful" branch: roll back and retry, or give up at the limit.
Unsuccessful(t) ==
  /\ retry' = [retry EXCEPT ![t] = @ + 1]
  /\ again' = [again EXCEPT ![t] = retry[t] + 1 < MaxRetry]
  /\ Goto(t, "rbStores")
  /\ UNCHANGED <<stale, keys, rd, upd, todo>>

\* An error return: Phase1Commit or Phase2Commit calls rollback and the transaction ends.
Abort(t) ==
  /\ again' = [again EXCEPT ![t] = FALSE]
  /\ Goto(t, "rbStores")

\* The handle phase 2 writes for a node (activateInactiveNodes, touchNodes).
Final(t, n) == IF n \in Updates[t] THEN Activate(upd[t][n]) ELSE Touch(upd[t][n])

-----------------------------------------------------------------------------
(* Before the commit: the B-tree reads nodes, one at a time, unlocked. *)

\* nodeRepositoryBackend.get
ReadNode(t, n) ==
  /\ pc[t] = "read"
  /\ n \in Touched(t) /\ rd[t][n] = NotRead
  /\ Readable(n)
  /\ rd' = [rd EXCEPT ![t][n] = Fetch(n)]
  /\ UNCHANGED <<store, lock, logs, pc, retry, stale, keys, again, upd, todo, sweep, undo, done>>

\* The node is gone, or its blob was deleted after the handle was read (a blob never
\* changes, so reading it later is otherwise the same): the B-tree operation fails and
\* the caller rolls back.
ReadFails(t) ==
  /\ pc[t] = "read"
  /\ \E n \in Touched(t) : rd[t][n] = NotRead /\ (Impatient \/ ~Readable(n))
  /\ Abort(t)
  /\ UNCHANGED <<store, lock, logs, retry, stale, keys, rd, upd, todo, sweep, undo, done>>

\* Phase1Commit: a reader only verifies; a writer logs lockTrackedItems and
\* mergeNodesKeys makes its lock keys.
StartCommit(t) ==
  /\ pc[t] = "read"
  /\ \A n \in Touched(t) : rd[t][n] # NotRead
  /\ IF IsReader(t)
     THEN Goto(t, "verify") /\ UNCHANGED <<tlog, keys>>
     ELSE /\ Goto(t, "lock")
          /\ Log(t, lockTrackedItems)
          /\ keys' = [keys EXCEPT ![t] = W(t) # {}]
  /\ UNCHANGED <<store, lock, plog, retry, stale, again, rd, upd, todo, sweep, undo, done>>

Intact(t, n) == Registered(n) /\ registry[n].version = rd[t][n].ver

\* commitForReaderTransaction; phase2Commit has nothing left to do for a reader.
Verify(t) ==
  /\ pc[t] = "verify"
  /\ IF \A n \in Fetches[t] : Intact(t, n)
     THEN Goto(t, "committed") ELSE Goto(t, "refetch")
  /\ UNCHANGED <<store, lock, logs, mem, sweep, done>>

-----------------------------------------------------------------------------
(* Phase 1: the loop of phase1Commit. *)

\* l2Cache.Lock of all node keys; after a rollback nodesKeys is nil and nothing is locked.
LockNodes(t) ==
  /\ pc[t] = "lock"
  /\ keys[t] => CanLock(t)
  /\ lock' = IF keys[t] THEN Take(t) ELSE lock
  /\ Goto(t, IF stale[t] THEN "refetch" ELSE "fetched")
  /\ UNCHANGED <<store, logs, mem, sweep, done>>

\* Somebody has one of the locks, or had one for the moment of an attempt that failed too.
LockRefused(t) == Impatient \/ ~CanLock(t)

\* Lock failed: Unlock what was acquired, retry after a refetch.
LockBusy(t) ==
  /\ pc[t] = "lock" /\ keys[t] /\ LockRefused(t)
  /\ lock' = Release(t)
  /\ stale' = [stale EXCEPT ![t] = TRUE]
  /\ UNCHANGED <<store, logs, pc, retry, keys, again, rd, upd, todo, sweep, undo, done>>

\* The commit timed out or ran out of lock retries.
GiveUp(t) ==
  /\ pc[t] = "lock" /\ Impatient
  /\ Abort(t)
  /\ UNCHANGED <<store, lock, logs, retry, stale, keys, rd, upd, todo, sweep, undo, done>>

\* An item this transaction touched changed since it was read.
Conflict(t) ==
  \E n \in Touched(t) :
    \/ ~Readable(n)
    \/ \E u \in Txn : /\ <<t, u>> \in SameItem
                      /\ (u \in rd[t][n].seen) # (u \in SeenAt(n))

\* refetchAndMergeModifications, then mergeNodesKeys.
Refetch(t) ==
  /\ pc[t] = "refetch" /\ ~Conflict(t)
  /\ rd' = [rd EXCEPT ![t] = [n \in Node |-> IF n \in Touched(t) THEN Fetch(n) ELSE NotRead]]
  /\ stale' = [stale EXCEPT ![t] = FALSE]
  /\ Goto(t, IF IsReader(t) THEN "verify" ELSE "dual")
  /\ UNCHANGED <<store, lock, logs, retry, keys, again, upd, todo, sweep, undo, done>>

RefetchFails(t) ==
  /\ pc[t] = "refetch" /\ Conflict(t)
  /\ Abort(t)
  /\ UNCHANGED <<store, lock, logs, retry, stale, keys, rd, upd, todo, sweep, undo, done>>

\* The log of lockTrackedItems and the DualLock that follow a refetch.
DualLock(t) ==
  /\ pc[t] = "dual"
  /\ Log(t, lockTrackedItems)
  /\ keys' = [keys EXCEPT ![t] = W(t) # {}]
  /\ \/ /\ CanLock(t) /\ lock' = Take(t)
        /\ Goto(t, "fetched") /\ UNCHANGED stale
     \/ /\ LockRefused(t) /\ lock' = Release(t)
        /\ Goto(t, "lock") /\ stale' = [stale EXCEPT ![t] = TRUE]
  /\ UNCHANGED <<store, plog, retry, again, rd, upd, todo, sweep, undo, done>>

CheckFetched(t) ==
  /\ pc[t] = "fetched"
  /\ Log(t, areFetchedItemsIntact)
  /\ IF \A n \in Fetches[t] : Intact(t, n)
     THEN Goto(t, "update") /\ UNCHANGED mem
     ELSE Unsuccessful(t)
  /\ UNCHANGED <<store, lock, plog, sweep, undo, done>>

AllReservable(t) ==
  \A n \in Updates[t] : Registered(n) /\ Reservable(registry[n], rd[t][n].ver)

\* The handles with the new inactive IDs.
ReservedBy(t) ==
  [n \in Node |-> IF n \in Updates[t] THEN Reserve(registry[n], NewID(t)) ELSE NoHandle]
Written(S, h) == [n \in Node |-> IF n \in S THEN h[n] ELSE registry[n]]

\* nodeRepository.commitUpdatedNodes, first pass: the inactive IDs are recorded.
ReserveUpdated(t) ==
  /\ pc[t] = "update" /\ Secure(t) /\ AllReservable(t)
  /\ registry' = Written(Updates[t], ReservedBy(t))
  /\ upd' = [upd EXCEPT ![t] = ReservedBy(t)]
  /\ Goto(t, "stage")
  /\ UNCHANGED <<blobs, count, lock, logs, retry, stale, keys, again, rd, todo, sweep, undo, done>>

\* The same without the locks: others come in between registry.Get with its check ...
GetUpdated(t) ==
  /\ pc[t] = "update" /\ ~Secure(t) /\ AllReservable(t)
  /\ upd' = [upd EXCEPT ![t] = ReservedBy(t)]
  /\ Goto(t, "reserve")
  /\ UNCHANGED <<store, lock, logs, retry, stale, keys, again, rd, todo, sweep, undo, done>>

\* ... and UpdateNoLocks.
PutUpdated(t) ==
  /\ pc[t] = "reserve"
  /\ registry' = Written(Updates[t], upd[t])
  /\ Goto(t, "stage")
  /\ UNCHANGED <<blobs, count, lock, logs, mem, sweep, done>>

\* It found a conflict; the log entry is written all the same.
ReserveFails(t) ==
  /\ pc[t] = "update" /\ ~AllReservable(t)
  /\ Log(t, commitUpdatedNodes)
  /\ Unsuccessful(t)
  /\ UNCHANGED <<store, lock, plog, sweep, undo, done>>

\* Second pass: the new versions of the nodes go to the blob store.
StageBlobs(t) ==
  /\ pc[t] = "stage"
  /\ blobs' = blobs \cup {[node |-> n, id |-> NewID(t), seen |-> rd[t][n].seen \cup {t}]
                            : n \in Updates[t]}
  /\ Goto(t, "logUpdated")
  /\ UNCHANGED <<registry, count, lock, logs, mem, sweep, done>>

LogUpdated(t) ==
  /\ pc[t] = "logUpdated"
  /\ Log(t, commitUpdatedNodes)
  /\ Goto(t, "logRemoved")
  /\ UNCHANGED <<store, lock, plog, mem, sweep, done>>

LogRemoved(t) ==
  /\ pc[t] = "logRemoved"
  /\ Log(t, commitRemovedNodes)
  /\ Goto(t, "remove")
  /\ UNCHANGED <<store, lock, plog, mem, sweep, done>>

\* Mistake: the version of a node to remove is not compared.
RemovableUnversioned(t) == \A n \in Removes[t] : Registered(n) => ~registry[n].deleted

Removable(t) ==
  \A n \in Removes[t] : Registered(n) => ~registry[n].deleted /\ registry[n].version = rd[t][n].ver

\* The handles of the nodes to remove with their marks; IDs the registry does not return
\* are passed over.
ToMark(t) == {n \in Removes[t] : Registered(n)}
MarkedBy(t) ==
  [n \in Node |-> IF n \in ToMark(t) THEN MarkDeleted(registry[n]) ELSE upd[t][n]]

\* The nodes of which t has staged a handle.
Staged(t) == {n \in W(t) : upd[t][n] # NoHandle}

\* nodeRepository.commitRemovedNodes
MarkRemoved(t) ==
  /\ pc[t] = "remove"
  /\ IF Removable(t)
     THEN /\ Secure(t)
          /\ registry' = Written(ToMark(t), MarkedBy(t))
          /\ upd' = [upd EXCEPT ![t] = MarkedBy(t)]
          /\ Goto(t, "logAdded")
          /\ UNCHANGED <<retry, stale, keys, again, rd, todo>>
     ELSE Unsuccessful(t) /\ UNCHANGED registry
  /\ UNCHANGED <<blobs, count, lock, logs, sweep, undo, done>>

\* The same without the locks: registry.Get with its check, then UpdateNoLocks.
GetRemoved(t) ==
  /\ pc[t] = "remove" /\ ~Secure(t) /\ Removable(t)
  /\ upd' = [upd EXCEPT ![t] = MarkedBy(t)]
  /\ Goto(t, "mark")
  /\ UNCHANGED <<store, lock, logs, retry, stale, keys, again, rd, todo, sweep, undo, done>>

PutRemoved(t) ==
  /\ pc[t] = "mark"
  /\ registry' = Written(Removes[t] \cap Staged(t), upd[t])
  /\ Goto(t, "logAdded")
  /\ UNCHANGED <<blobs, count, lock, logs, mem, sweep, done>>

LogAdded(t) ==
  /\ pc[t] = "logAdded"
  /\ Log(t, commitAddedNodes)
  /\ Goto(t, "add")
  /\ UNCHANGED <<store, lock, plog, mem, sweep, done>>

\* nodeRepository.commitAddedNodes: register, then write the blobs.
AddNodes(t) ==
  /\ pc[t] = "add"
  /\ registry' = [n \in Node |-> IF n \in Adds[t]
                                 THEN [NewHandle(Base) EXCEPT !.version = 1] ELSE registry[n]]
  /\ Goto(t, "addBlobs")
  /\ UNCHANGED <<blobs, count, lock, logs, mem, sweep, done>>

AddBlobs(t) ==
  /\ pc[t] = "addBlobs"
  /\ blobs' = blobs \cup {[node |-> n, id |-> Base, seen |-> {t}] : n \in Adds[t]}
  /\ Goto(t, "logStore")
  /\ UNCHANGED <<registry, count, lock, logs, mem, sweep, done>>

LogStore(t) ==
  /\ pc[t] = "logStore"
  /\ Log(t, commitStoreInfo)
  /\ Goto(t, "store")
  /\ UNCHANGED <<store, lock, plog, mem, sweep, done>>

\* commitStores: StoreRepository.Update applies the count delta.
CommitStores(t) ==
  /\ pc[t] = "store"
  /\ count' = [count EXCEPT ![t] = @ + 1]
  /\ Goto(t, "logBefore")
  /\ UNCHANGED <<registry, blobs, lock, logs, mem, sweep, done>>

LogBefore(t) ==
  /\ pc[t] = "logBefore"
  /\ Log(t, beforeFinalize)
  /\ Goto(t, "plog")
  /\ UNCHANGED <<store, lock, plog, mem, sweep, done>>

PlogAdd(t) ==
  /\ pc[t] = "plog"
  /\ plog' = IF Staged(t) # {} THEN plog \cup {t} ELSE plog
  /\ Goto(t, "check")
  /\ UNCHANGED <<store, lock, tlog, mem, sweep, done>>

\* nodesKeysNilOrLocked, and the DualLock that may still save the commit.
CheckLocks(t) ==
  /\ pc[t] = "check"
  /\ \/ CanLock(t) /\ lock' = Take(t) /\ Goto(t, "phase1") /\ UNCHANGED again
     \/ /\ LockRefused(t) /\ \E n \in W(t) : lock[n] # t
        /\ Abort(t) /\ UNCHANGED lock
  /\ UNCHANGED <<store, logs, retry, stale, keys, rd, upd, todo, sweep, undo, done>>

\* Rollback called between the two phases.
UserRollback(t) ==
  /\ pc[t] = "phase1" /\ Impatient
  /\ Abort(t)
  /\ UNCHANGED <<store, lock, logs, retry, stale, keys, rd, upd, todo, sweep, undo, done>>

-----------------------------------------------------------------------------
(* Phase 2 *)

LogFinalize(t) ==
  /\ pc[t] = "phase1"
  /\ Log(t, finalizeCommit)
  /\ todo' = [todo EXCEPT ![t] = Staged(t)]
  /\ IF Staged(t) = {}
     THEN Goto(t, "unlock") /\ done' = done \cup {t}
     ELSE Goto(t, "flip") /\ UNCHANGED done
  /\ UNCHANGED <<store, lock, plog, retry, stale, keys, again, rd, upd, sweep, undo>>

\* The log write failed: unlock, remove the priority log, roll back.
LogFinalizeFails(t) ==
  /\ pc[t] = "phase1" /\ "phase1" \in FailAt
  /\ Log(t, finalizeCommit)
  /\ lock' = Release(t)
  /\ keys' = [keys EXCEPT ![t] = FALSE]
  /\ plog' = plog \ {t}
  /\ Abort(t)
  /\ UNCHANGED <<store, retry, stale, rd, upd, todo, sweep, undo, done>>

\* registry.UpdateNoLocks writes the finalised handles one by one.
Flip(t, n) ==
  /\ pc[t] = "flip" /\ n \in todo[t]
  /\ registry' = [registry EXCEPT ![n] = Final(t, n)]
  /\ todo' = [todo EXCEPT ![t] = @ \ {n}]
  /\ IF todo[t] = {n} THEN Goto(t, "plogRemove") ELSE UNCHANGED pc
  /\ UNCHANGED <<blobs, count, lock, logs, retry, stale, keys, again, rd, upd, sweep, undo, done>>

\* Mistake: a failed write of phase 2 is rolled back like one of phase 1.
FlipFailsUnrestored(t) ==
  /\ pc[t] = "flip" /\ "flip" \in FailAt
  /\ Abort(t)
  /\ UNCHANGED <<store, lock, logs, retry, stale, keys, rd, upd, todo, sweep, undo, done>>

FlipFails(t) ==
  /\ pc[t] = "flip" /\ "flip" \in FailAt
  /\ Goto(t, "restore")
  /\ UNCHANGED <<store, lock, logs, mem, sweep, done>>

\* Phase2Commit's error branch: priorityRollback, unlockNodesKeys, then rollback.
Restore(t) ==
  /\ pc[t] = "restore"
  /\ registry' = IF t \in plog
                 THEN Written(Staged(t), upd[t])
                 ELSE registry
  /\ plog' = plog \ {t}
  /\ lock' = Release(t)
  /\ keys' = [keys EXCEPT ![t] = FALSE]
  /\ Abort(t)
  /\ UNCHANGED <<blobs, count, tlog, retry, stale, rd, upd, todo, sweep, undo, done>>

\* priorityRollback fails, with none or some of the handles restored; that is only warned
\* about, and rollback deletes the priority log all the same.
RestoreFails(t) ==
  /\ pc[t] = "restore" /\ "restore" \in FailAt
  /\ \E S \in SUBSET Staged(t) : registry' = Written(S, upd[t])
  /\ lock' = Release(t)
  /\ keys' = [keys EXCEPT ![t] = FALSE]
  /\ Abort(t)
  /\ UNCHANGED <<blobs, count, logs, retry, stale, rd, upd, todo, sweep, undo, done>>

\* All finalised handles are written; once the pre-images are gone nothing may undo them.
PlogRemove(t) ==
  /\ pc[t] = "plogRemove"
  /\ plog' = plog \ {t}
  /\ done' = done \cup {t}
  /\ Goto(t, "unlock")
  /\ UNCHANGED <<store, lock, tlog, mem, sweep>>

\* PriorityLog().Remove failed; that is only warned about and the log stays.
PlogRemoveFails(t) ==
  /\ pc[t] = "plogRemove" /\ "plogRemove" \in FailAt
  /\ done' = done \cup {t}
  /\ Goto(t, "unlock")
  /\ UNCHANGED <<store, lock, logs, mem, sweep>>

\* Mistake: the node locks are left to their TTL.
UnlockForgotten(t) ==
  /\ pc[t] = "unlock"
  /\ Goto(t, "logObsolete")
  /\ UNCHANGED <<store, lock, logs, mem, sweep, done>>

UnlockNodes(t) ==
  /\ pc[t] = "unlock"
  /\ lock' = Release(t)
  /\ keys' = [keys EXCEPT ![t] = FALSE]
  /\ Goto(t, "logObsolete")
  /\ UNCHANGED <<store, logs, retry, stale, again, rd, upd, todo, sweep, undo, done>>

LogObsolete(t) ==
  /\ pc[t] = "logObsolete"
  /\ Log(t, deleteObsoleteEntries)
  /\ Goto(t, "obsolete")
  /\ UNCHANGED <<store, lock, plog, mem, sweep, done>>

\* getToBeObsoleteEntries: the superseded blob of an updated node, the last of a removed one.
ObsoleteID(t, n) ==
  IF n \in Updates[t] THEN GetInActiveID(Final(t, n)) ELSE GetActiveID(Final(t, n))
\* Mistake: superseded blobs are kept.
WithoutRemoved(t) ==
  {b \in blobs : ~(b.node \in Staged(t) \cap Removes[t] /\ b.id = ObsoleteID(t, b.node))}
WithoutObsolete(t) ==
  {b \in blobs : ~(b.node \in Staged(t) /\ b.id = ObsoleteID(t, b.node))}
Unregister(S) == [n \in Node |-> IF n \in S THEN NoHandle ELSE registry[n]]

DeleteObsolete(t) ==
  /\ pc[t] = "obsolete"
  /\ blobs' = WithoutObsolete(t)
  /\ registry' = Unregister(Removes[t] \cap Staged(t))
  /\ Goto(t, "removeLogs")
  /\ UNCHANGED <<count, lock, logs, mem, sweep, done>>

RemoveLogs(t) ==
  /\ pc[t] = "removeLogs"
  /\ Log(t, 0)
  /\ Goto(t, "committed")
  /\ UNCHANGED <<store, lock, plog, mem, sweep, done>>

-----------------------------------------------------------------------------
(* Transaction.rollback: undo what committedState says was reached. *)

\* Mistake: the count is undone only if phase 2 was reached.
RollbackStoresLate(t) ==
  /\ pc[t] = "rbStores"
  /\ plog' = IF tlog[t] >= beforeFinalize THEN plog \ {t} ELSE plog
  /\ count' = IF tlog[t] > beforeFinalize THEN [count EXCEPT ![t] = @ - 1] ELSE count
  /\ Goto(t, "rbNodes")
  /\ UNCHANGED <<registry, blobs, lock, tlog, mem, sweep, done>>

RollbackStores(t) ==
  /\ pc[t] = "rbStores"
  /\ plog' = IF tlog[t] >= beforeFinalize THEN plog \ {t} ELSE plog
  /\ count' = IF tlog[t] > commitStoreInfo THEN [count EXCEPT ![t] = @ - 1] ELSE count
  /\ Goto(t, "rbNodes")
  /\ UNCHANGED <<registry, blobs, lock, tlog, mem, sweep, done>>

\* rollbackAddedNodes: the added nodes are taken out of the registry, their blobs deleted.
ToUnadd(t) == IF tlog[t] > commitAddedNodes THEN Adds[t] ELSE {}
BlobsUnadded(t) == {b \in blobs : b.node \notin ToUnadd(t)}

\* rollbackRemovedNodes and rollbackUpdatedNodes, on the handles h that registry.Get
\* returned: which are to be written, and what as.  A handle that has neither mark nor
\* timestamp is not.
Marked(h) == h.deleted \/ h.wip # "none"
ToUnmark(t, h) ==
  IF tlog[t] > commitRemovedNodes
  THEN {n \in Removes[t] : h[n] # NoHandle /\ Marked(h[n])} ELSE {}
ToUnreserve(t, h) ==
  IF tlog[t] > commitUpdatedNodes THEN {n \in Updates[t] : h[n] # NoHandle} ELSE {}
BlobsUnreserved(t, h) ==
  {b \in blobs : ~(b.node \in ToUnreserve(t, h) /\ b.id = GetInActiveID(h[b.node]))}

\* With its locks, or when nothing is left to undo but what only t knows of.
RollbackNodes(t) ==
  /\ pc[t] = "rbNodes" /\ (Secure(t) \/ tlog[t] <= commitUpdatedNodes)
  /\ registry' = [n \in Node |-> IF n \in ToUnadd(t) THEN NoHandle
                                 ELSE IF n \in ToUnmark(t, registry) THEN Unmark(registry[n])
                                 ELSE IF n \in ToUnreserve(t, registry) THEN Unreserve(registry[n])
                                 ELSE registry[n]]
  /\ blobs' = BlobsUnadded(t) \cap BlobsUnreserved(t, registry)
  /\ lock' = Release(t)
  /\ keys' = [keys EXCEPT ![t] = FALSE]
  /\ Goto(t, "rbLogs")
  /\ UNCHANGED <<count, logs, retry, stale, again, rd, upd, todo, sweep, undo, done>>

\* The same without the locks (phase 2's error path has given them up, or they lapsed):
\* a registry.Get and the write that goes with it are steps of their own.

\* The handles of the nodes S, as registry.Get returns them.
Get(t, S) == undo' = [undo EXCEPT ![t] = [n \in Node |-> IF n \in S THEN registry[n] ELSE NoHandle]]

\* Which of the handles S are really written: all of them by UpdateNoLocks; registry.Update
\* locks each key in turn and stops at the first one that somebody holds.
Rewritten(S, locked) ==
  IF locked \/ \A n \in S : lock[n] = Free THEN {S} ELSE SUBSET {n \in S : lock[n] = Free}

\* Under Undisturbed, the handles S are still as they were read.
Current(t, S) == Undisturbed => \A n \in S : registry[n] = undo[t][n]

RollbackAdded(t) ==
  /\ pc[t] = "rbNodes" /\ ~Secure(t) /\ tlog[t] > commitUpdatedNodes
  /\ registry' = Written(ToUnadd(t), Nothing)
  /\ blobs' = BlobsUnadded(t)
  /\ Get(t, Removes[t])
  /\ Goto(t, "rbRemoved")
  /\ UNCHANGED <<count, lock, logs, retry, stale, keys, again, rd, upd, todo, sweep, done>>

\* rollbackRemovedNodes writes back what was read.
PutUnmarked(t, locked) ==
  LET S == ToUnmark(t, undo[t])
  IN  /\ Current(t, S)
      /\ \E R \in Rewritten(S, locked) : registry' = Written(R, [n \in S |-> Unmark(undo[t][n])])
      /\ undo' = [undo EXCEPT ![t] = Nothing]

RollbackRemoved(t) ==
  /\ pc[t] = "rbRemoved"
  /\ PutUnmarked(t, keys[t])
  /\ Goto(t, "rbRead")
  /\ UNCHANGED <<blobs, count, lock, logs, retry, stale, keys, again, rd, upd, todo, sweep, done>>

RollbackRead(t) ==
  /\ pc[t] = "rbRead"
  /\ Get(t, Updates[t])
  /\ Goto(t, "rbUpdated")
  /\ UNCHANGED <<store, lock, logs, retry, stale, keys, again, rd, upd, todo, sweep, done>>

RollbackUpdated(t) ==
  /\ pc[t] = "rbUpdated"
  /\ LET S == ToUnreserve(t, undo[t])
     IN  /\ Current(t, S)
         /\ \E U \in Rewritten(S, keys[t]) :
              registry' = Written(U, [n \in S |-> Unreserve(undo[t][n])])
         /\ blobs' = BlobsUnreserved(t, undo[t])
  /\ undo' = [undo EXCEPT ![t] = Nothing]
  /\ lock' = Release(t)
  /\ keys' = [keys EXCEPT ![t] = FALSE]
  /\ Goto(t, "rbLogs")
  /\ UNCHANGED <<count, logs, retry, stale, again, rd, upd, todo, sweep, done>>

RollbackLogs(t) ==
  /\ pc[t] = "rbLogs"
  /\ Log(t, 0)
  /\ stale' = [stale EXCEPT ![t] = TRUE]
  /\ Goto(t, IF again[t] THEN "lock" ELSE "aborted")
  /\ UNCHANGED <<store, lock, plog, retry, keys, again, rd, upd, todo, sweep, undo, done>>

-----------------------------------------------------------------------------
(* Process death, the passing of time, and recovery. *)

\* What is lost with the process (the IDs it allocated and the handles it staged are in the
\* logs, and what it had read is kept for RemoverSawAll).
Forget(t) ==
  /\ stale' = [stale EXCEPT ![t] = FALSE]
  /\ keys' = [keys EXCEPT ![t] = FALSE]
  /\ again' = [again EXCEPT ![t] = FALSE]
  /\ todo' = [todo EXCEPT ![t] = {}]
  /\ undo' = [undo EXCEPT ![t] = Nothing]

\* The process that runs t, or recovers it, dies; another may recover t from the start.
Crash(t) ==
  /\ pc[t] \in CrashAt
  /\ pc[t] \in Dead => count[t] > -MaxMiscount
  /\ Goto(t, "crashed")
  /\ Forget(t)
  /\ UNCHANGED <<store, lock, logs, retry, rd, upd, sweep, done>>

\* UpdateNoLocks of several handles is not atomic: only some may be on disk.
CrashReserving(t) ==
  /\ pc[t] = "update" /\ "update" \in CrashAt /\ AllReservable(t)
  /\ \E S \in SUBSET Updates[t] : registry' = Written(S, ReservedBy(t))
  /\ Goto(t, "crashed")
  /\ Forget(t)
  /\ UNCHANGED <<blobs, count, lock, logs, retry, rd, upd, sweep, done>>

\* The lock's TTL lapses.
ExpireLock(n) ==
  /\ lock[n] \in Txn
  /\ pc[lock[n]] \in Dead \cup LapseAt
  /\ lock' = [lock EXCEPT ![n] = Free]
  /\ UNCHANGED <<store, logs, pc, mem, sweep, done>>

\* An hour goes by: longer than any live commit, so no live one staged this handle.
AgeHandle(n) ==
  /\ Registered(n) /\ registry[n].wip = "fresh"
  /\ \A t \in Txn : n \in W(t) => pc[t] \in Ended \cup {"read", "lock", "refetch"}
  /\ registry' = [registry EXCEPT ![n].wip = "stale"]
  /\ UNCHANGED <<blobs, count, lock, logs, pc, mem, sweep, done>>

\* doPriorityRollbacks: GetBatch hands out the log of t.
SweepRead(t) ==
  /\ sweep = NoSweep
  /\ t \in plog /\ (pc[t] \in Ended \/ SweepLive)
  /\ sweep' = <<"taken", t>>
  /\ UNCHANGED <<store, lock, logs, pc, mem, done>>

Repairable(t) ==
  \A n \in Staged(t) :
    Registered(n) /\ registry[n].version \in {upd[t][n].version, upd[t][n].version + 1}

\* acquireLocks, the version check, UpdateNoLocks of the logged handles, Unlock.
SweepRestore(t) ==
  /\ sweep = <<"taken", t>>
  /\ IF /\ \A n \in Staged(t) : lock[n] = Free
        /\ Repairable(t)
     THEN /\ registry' = Written(Staged(t), upd[t])
          /\ sweep' = <<"restored", t>>
     ELSE sweep' = NoSweep /\ UNCHANGED registry
  /\ UNCHANGED <<blobs, count, lock, logs, pc, mem, done>>

SweepRemove(t) ==
  /\ sweep = <<"restored", t>>
  /\ plog' = plog \ {t}
  /\ sweep' = NoSweep
  /\ UNCHANGED <<store, lock, tlog, pc, mem, done>>

\* Mistake: off by one.
FinishedLate(f) == f > deleteObsoleteEntries
\* The log says the commit is complete: what is left is to delete the obsolete entries.
Finished(f) == f >= deleteObsoleteEntries

\* processExpiredTransactionLogs takes up the log of a dead transaction; transactionLog.
\* rollback follows it backwards, a step for each of its calls, and holds no lock but those
\* registry.Update takes.
Expired(t) == pc[t] = "crashed" /\ tlog[t] > 0 /\ (SweepFirst => t \notin plog)

RecoverObsolete(t) ==
  /\ Expired(t) /\ Finished(tlog[t])
  /\ blobs' = WithoutObsolete(t)
  /\ registry' = Unregister(Removes[t] \cap Staged(t))
  /\ Goto(t, "rcLogs")
  /\ UNCHANGED <<count, lock, logs, mem, sweep, done>>

RecoverStores(t) ==
  /\ Expired(t) /\ ~Finished(tlog[t])
  /\ count' = IF tlog[t] > commitStoreInfo THEN [count EXCEPT ![t] = @ - 1] ELSE count
  /\ Goto(t, "rcAdded")
  /\ UNCHANGED <<registry, blobs, lock, logs, mem, sweep, done>>

\* rollbackAddedNodes, and the registry.Get of rollbackRemovedNodes.
RecoverAdded(t) ==
  /\ pc[t] = "rcAdded"
  /\ registry' = Written(ToUnadd(t), Nothing)
  /\ blobs' = BlobsUnadded(t)
  /\ Get(t, Removes[t])
  /\ Goto(t, "rcRemoved")
  /\ UNCHANGED <<count, lock, logs, retry, stale, keys, again, rd, upd, todo, sweep, done>>

RecoverRemoved(t) ==
  /\ pc[t] = "rcRemoved"
  /\ PutUnmarked(t, FALSE)
  /\ Goto(t, "rcUpdated")
  /\ UNCHANGED <<blobs, count, lock, logs, retry, stale, keys, again, rd, upd, todo, sweep, done>>

\* removeNodes: the staged blobs; the handles are left to the next writer.
RecoverUpdated(t) ==
  /\ pc[t] = "rcUpdated"
  /\ blobs' = {b \in blobs : ~(/\ b.node \in Updates[t] /\ tlog[t] >= commitUpdatedNodes
                               /\ b.id = NewID(t))}
  /\ Goto(t, "rcLogs")
  /\ UNCHANGED <<registry, count, lock, logs, mem, sweep, done>>

RecoverLogs(t) ==
  /\ pc[t] = "rcLogs"
  /\ Log(t, 0)
  /\ Goto(t, "recovered")
  /\ UNCHANGED <<store, lock, plog, mem, sweep, done>>

-----------------------------------------------------------------------------
Phase1(t) ==
  \/ \E n \in Node : ReadNode(t, n)
  \/ ReadFails(t) \/ StartCommit(t) \/ Verify(t)
  \/ LockNodes(t) \/ LockBusy(t) \/ GiveUp(t) \/ Refetch(t) \/ RefetchFails(t) \/ DualLock(t)
  \/ CheckFetched(t) \/ ReserveUpdated(t) \/ GetUpdated(t) \/ PutUpdated(t) \/ ReserveFails(t)
  \/ StageBlobs(t) \/ LogUpdated(t)
  \/ LogRemoved(t) \/ MarkRemoved(t) \/ GetRemoved(t) \/ PutRemoved(t)
  \/ LogAdded(t) \/ AddNodes(t) \/ AddBlobs(t) \/ LogStore(t) \/ CommitStores(t)
  \/ LogBefore(t) \/ PlogAdd(t) \/ CheckLocks(t) \/ UserRollback(t)

Phase2(t) ==
  \/ LogFinalize(t) \/ LogFinalizeFails(t) \/ FlipFails(t) \/ Restore(t) \/ RestoreFails(t)
  \/ \E n \in Node : Flip(t, n)
  \/ PlogRemove(t) \/ PlogRemoveFails(t)
  \/ UnlockNodes(t) \/ LogObsolete(t) \/ DeleteObsolete(t) \/ RemoveLogs(t)

Rollback(t) ==
  \/ RollbackStores(t) \/ RollbackNodes(t) \/ RollbackAdded(t) \/ RollbackRemoved(t)
  \/ RollbackRead(t) \/ RollbackUpdated(t) \/ RollbackLogs(t)

Recovery(t) ==
  \/ SweepRead(t) \/ SweepRestore(t) \/ SweepRemove(t)
  \/ RecoverObsolete(t) \/ RecoverStores(t) \/ RecoverAdded(t) \/ RecoverRemoved(t)
  \/ RecoverUpdated(t) \/ RecoverLogs(t)

\* The steps of the process that runs t.
Step(t) == Phase1(t) \/ Phase2(t) \/ Rollback(t)

Next ==
  \/ \E t \in Txn : Step(t) \/ Crash(t) \/ CrashReserving(t) \/ Recovery(t)
  \/ \E n \in Node : ExpireLock(n) \/ AgeHandle(n)

Spec == Init /\ [][Next]_vars

\* The goroutine of every transaction keeps running until it ends; nothing is assumed
\* of the recovery passes.
FairSpec == Spec /\ \A t \in Txn : WF_vars(Step(t))

-----------------------------------------------------------------------------
(* Properties *)

TypeOK ==
  /\ registry \in [Node -> Handles \cup {NoHandle}]
  /\ blobs \subseteq Blob
  /\ count \in [Txn -> Int]
  /\ lock \in [Node -> Txn \cup {Free}]
  /\ tlog \in [Txn -> 0..deleteObsoleteEntries]
  /\ plog \subseteq Txn
  /\ pc \in [Txn -> Points]
  /\ retry \in [Txn -> Nat]
  /\ stale \in [Txn -> BOOLEAN]
  /\ keys \in [Txn -> BOOLEAN]
  /\ again \in [Txn -> BOOLEAN]
  /\ rd \in [Txn -> [Node -> Read \cup {NotRead}]]
  /\ upd \in [Txn -> [Node -> Handles \cup {NoHandle}]]
  /\ todo \in [Txn -> SUBSET Node]
  /\ undo \in [Txn -> [Node -> Handles \cup {NoHandle}]]
  /\ sweep \in ({"taken", "restored"} \X Txn) \cup {NoSweep}
  /\ done \subseteq Txn

\* The stretch of the commit that relies on the node locks: from the check of the
\* fetched nodes to the unlock after the finalised handles are written.
Critical == {"fetched", "update", "reserve", "stage", "logUpdated", "logRemoved", "remove",
             "mark", "logAdded", "add", "addBlobs", "logStore", "store", "logBefore", "plog",
             "check", "phase1", "flip", "restore", "plogRemove", "unlock"}

\* No two transactions are in that stretch with a node that both write, whatever
\* retries, refetches, crashes and lapsed locks of dead transactions came before
\* (l2Cache.Lock and DualLock in phase1Commit against unlockNodesKeys).
MutualExclusion ==
  \A t, u \in Txn :
    t # u /\ pc[t] \in Critical /\ pc[u] \in Critical => W(t) \cap W(u) = {}

\* What a committed transaction wrote to a node stays part of the node's active content
\* as long as the node exists: no later commit, rollback, sweep or log expiry loses it.
NoLostUpdate ==
  \A t \in done : \A n \in Updates[t] : Registered(n) => t \in SeenAt(n)

\* What is visible in the store was written by a committed transaction, or by one whose
\* priority log can still take it back: an aborted or recovered one leaves no trace.
VisibleIsCovered ==
  \A n \in Existing : Registered(n) => SeenAt(n) \subseteq done \cup plog

\* A node the registry knows can be read: deleting obsolete or unused blobs (cleanup,
\* rollbackUpdatedNodes, removeNodes) never takes the active one.  Excepted are nodes
\* somebody's commit has not finished creating, and the last moments of a removed one.
NoDanglingNode ==
  \A n \in Node :
    /\ Registered(n)
    /\ \A t \in Txn : /\ n \in Adds[t] => t \in done
                      /\ n \in Removes[t] => t \notin done
    => HasBlob(n, GetActiveID(registry[n]))

\* A node whose removal committed never comes back to life: neither the healing of
\* expired delete marks in commitUpdatedNodes nor rollbackRemovedNodes of a competing
\* remover revives it.
RemovedStaysRemoved ==
  \A t \in done : \A n \in Removes[t] : Registered(n) => registry[n].deleted

\* Removing a node discards nothing unseen: whatever was committed to the node before its
\* removal, the remover had read (commitRemovedNodes' version check, then the locks).
RemoverSawAll ==
  \A t, u \in done : \A n \in Removes[t] \cap Updates[u] : u \in rd[t][n].seen

\* When nothing is under way, the store's count is what the committed transactions made
\* it: StoreRepository.Update is done once and for all for each of them, and undone
\* exactly once for each of the others that came so far.
CountConsistent ==
  (\A t \in Txn : pc[t] \in Ended /\ tlog[t] = 0) =>
    \A t \in Txn : count[t] = IF t \in done THEN 1 ELSE 0

\* When every transaction has ended, and none of them died, the blob store holds the
\* active blobs of the registered nodes and nothing else: retries and rollbacks leave no
\* orphan behind.
NoOrphanBlobs ==
  (\A t \in Txn : pc[t] \in Ended \ Dead) =>
     {<<b.node, b.id>> : b \in blobs} =
       {<<n, GetActiveID(registry[n])>> : n \in {m \in Node : Registered(m)}}

\* The value of a node without what uncommitted transactions did to it.
CommittedValue(n) ==
  IF /\ Registered(n)
     /\ \A t \in Txn : /\ n \in Adds[t] => t \in done
                       /\ n \in Removes[t] => t \notin done
  THEN SeenAt(n) \cap done
  ELSE NoHandle

Abstract == INSTANCE AtomicCommit
  WITH Absent <- NoHandle, committed <- done, val <- [n \in Node |-> CommittedValue(n)]

\* The commit, its rollbacks, retries and recovery implement the atomic commit: all the
\* nodes of a transaction change at the instant its priority log is removed, on top of
\* everything committed before, or none ever does.
ImplementsAtomicCommit == Abstract!Spec

\* A node nobody else removes, and no item of which another transaction changes.
Compatible(t) ==
  \A u \in Txn \ {t} : /\ <<t, u>> \notin SameItem
                       /\ Touched(t) \cap Removes[u] = {}

\* With more retries than rivals, a transaction that conflicts with nobody on an item
\* commits, however often it finds its nodes locked or changed: lock, refetch and retry
\* neither deadlock nor starve it.
CompatibleCommits ==
  \A t \in Txn : Compatible(t) => <>(pc[t] = "committed")

\* A live node can be updated, now or once its timestamp has expired.
NeverWedged ==
  (\A t \in Txn : pc[t] \in Ended /\ tlog[t] = 0 /\ t \notin plog) =>
    \A n \in Node : Registered(n) => ~IsAandBinUse(registry[n]) \/ registry[n].wip # "none"
=============================================================================
