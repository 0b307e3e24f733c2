# TLA+ models of the joltrin storage engine

Joltrin (module `sop`) is a transactional B-tree store: nodes and values are immutable blobs, a
registry maps the logical ID of a node to its active blob, and any number of processes commit
transactions against the same store, coordinated only by locks in an L2 cache (Redis, or an
in-process map) and by versions in the registry. These modules model that commit protocol with its
rollback and crash recovery, the two lock implementations under it, the registry files and the store
repository it writes, and the B-tree a transaction works on. TLC checks them on small instances;
TLAPS proves most of their safety properties for every instance, under assumptions that are named.

## 1. Inventory

| Part (source) | State | Operations | Hard behaviour | What makes it correct |
|---|---|---|---|---|
| Handle (`handle.go`) | two physical ID slots, active flag, version, work-in-progress timestamp, delete mark | allocate, flip, clear, expire | slot reuse after failure, timestamps that mean three different things | the active slot only changes by a commit; a slot is never lost for ever |
| Two-phase commit (`common/twophasecommittransaction*.go`) | phase, lock keys, staged handles, retry flags | Begin, Phase1Commit, Phase2Commit, Rollback, cleanup | lock/refetch/retry loop, failure at every call, death between calls | atomic and isolated commits, exact undo, progress |
| Node repository (`common/noderepository.backend.go`) | registry handles, blobs | get, commit/rollback of updated, removed, added and new root nodes | multi-key registry writes, versions read long before | no lost update, no dangling node |
| Transaction log, recovery (`common/transactionlogger.go`) | last commit function, priority log of pre-images | log, priority sweep, expired-log pass, lock resurrection | runs concurrently with live transactions | recovery undoes exactly what did not commit |
| Redis locks (`adapters/redis/locker.go`) | keys with TTL, `IsLockOwner` flags | Lock, DualLock, IsLocked, Unlock | interleaved pipelines, lapsing TTL, retries with the same keys | all keys or none; only the owner releases |
| In-memory locks (`cache/l2inmemorycache*.go`) | sharded map of lock items | the same | per-key steps, take-over of expired items, eviction | the same, and no livelock |
| B-tree management (`common/managebtree.go`) | open trees of a transaction | open, create, refetch and merge | replaying changes on newer nodes | a merge never overwrites an item changed meanwhile |
| Item action tracker (`common/itemactiontracker*.go`) | item actions, item locks | add/get/update/remove, lock, check, unlock | get-set-verify lock without atomicity | conflicting item changes exclude each other |
| Registry (`fs/registry.go`) | L1/L2 copies of handles | get, add, update, remove, replicate | stale caches, order of results | a handle read is the current one |
| Registry files (`fs/registrymap.go`, `fs/hashmap*.go`) | segment files of hashed blocks, copy-on-write backups | fetch, add, set, remove | slot, block and preallocation locks, torn block writes, reads without a lock | an acknowledged write is found, a torn block can be restored |
| Store repository (`fs/storerepository.go`) | store list, info files with item counts, L2 copies | add, update, remove, get | several stores per call, undo, creation inside a transaction, cached copies | counts add up, no store is lost, a rollback leaves nothing |
| Logs on disk (`fs/transactionlog.go`, `fs/transactionprioritylog.go`) | hour directories, batches | add, get one (of hour), get batch, remove | ageing by hour | an expired log belongs to a dead transaction |
| Replication (`fs/replicationtracker*.go`) | active/passive folder, failed flag | failover, reinstate, fast forward | failover while commits run | passive side catches up without gaps |
| Transaction wrapper (`transaction.go`) | participants | Begin, Commit, Rollback | several participants | all or none |
| B-tree (`btree/`) | nodes with slots, children and parent, root, count | add, remove, find, walk | splits that promote to a new root, pruned children, collapsed roots | a sorted list, every change staged |
| Caches, blob stores, erasure coding (`cache/`, `fs/blobstore*.go`, `inmemory/`) | | | I/O | a blob is what was written |
| Adapters, databases, AI, tools, bindings | | | callers or back ends | outside the engine |

Interaction: a transaction reads nodes through the node repository (registry, then blob store).
`Commit` runs phase 1, which locks the written nodes in the L2 cache, reserves inactive slots in the
registry, writes blobs, applies the store's count delta and saves the pre-images in a priority log;
and phase 2, which writes the flipped handles, removes the priority log, unlocks and cleans up.
Every step is preceded by an entry in the transaction log. Other processes restore priority logs
(the sweep) and undo old transaction logs (the expired-log pass).

## 2. Modules

| Module | Models | Kind |
|---|---|---|
| `Handle` | `handle.go` and what the node repository does to one handle | operators |
| `TwoPhaseCommit` | the commit, rollback and recovery of package `common` | state machine |
| `AtomicCommit` | what the commit promises | abstract specification |
| `NodeLocks` | what the commit expects of locks | abstract specification |
| `RedisLocker`, `MemoryLocker` | the two lock implementations | state machines |
| `BTree` | package `btree`: adding and removing | state machine |
| `BTreeCursor` | package `btree`: searches and walks | recursive operators |
| `SortedList` | what a B-tree promises | abstract specification |
| `HashMap` | the registry files of package `fs` | state machine |
| `Stores` | the store repository of package `fs`, and how transactions create, update and remove stores | state machine |
| `MC*` | instances for TLC | |
| `TwoPhaseCommitProofs`, `CommitProofs` | theorems about the commit: types and locks; what it promises | proofs |
| `RedisLockerProofs`, `MemoryLockerProofs`, `BTreeProofs`, `BTreeOrderProofs`, `HashMapProofs`, `StoresProofs` | theorems about the others | proofs |

`TwoPhaseCommit` uses locks that are taken and released in one step. That this is a fair picture of
the caches is what `NodeLocks` states: both lockers are shown to implement it (runs `redislock`,
`memorylock`, and a proof for each). Where an implementation does not keep the contract, the commit
meets locks that vanish under a live holder: that is `LapseAt`, in run `lapse`. `HashMap` and
`Stores` use locks in the same way. `HashMap` is what `TwoPhaseCommit` takes for a function from
nodes to handles, `Stores` what it takes for one count, `BTree` what decides which nodes a
transaction updates, adds and removes.

### TwoPhaseCommit

State: `registry` and `blobs` are the shared store, `count` the store's item count (how often the delta
of each transaction is part of it: `StoreRepository` only adds and subtracts deltas), `lock` the L2
cache's node locks, `tlog` the last entry of each transaction log, `plog` the priority logs. `pc`,
`retry`, `stale`, `keys`, `again`, `rd`, `upd`, `todo` and `undo` are local to a transaction: where it is,
`retryCount`, `needsRefetchAndMerge`, whether `nodesKeys` is nil, whether the rollback under way is
followed by another attempt, what was read, the staged handles, the handles still to be written, the
handles an undo has read and is to write back.
`done` is history: it holds the transactions past their point of no return, which is the removal of
the priority log (before it, recovery takes the commit back) or, if nothing was staged, the
`finalizeCommit` entry.

Each action is one call of the code that changes shared state, with the log entry that precedes it
an action of its own where a death between the two matters. `Step(t)` collects the actions of the
process that runs `t`; `Crash`, `ExpireLock`, `AgeHandle` and `Recovery` are the environment and the
other processes. `UpdateNoLocks` writes one handle at a time in phase 2 (`Flip`) and may be cut off
in phase 1 (`CrashReserving`).

Reads and writes of handles. `commitUpdatedNodes`, `commitRemovedNodes` and the undo of both get
handles, look at them and write them back. While the transaction has all its locks and they do not lapse
at that point (`Secure`), nobody else writes those handles, so that the get and the write are one
step (`ReserveUpdated`, `MarkRemoved`, `RollbackNodes`). Otherwise they are two, and others come in between:
`GetUpdated` and `PutUpdated`, `GetRemoved` and `PutRemoved`, and for a rollback `RollbackAdded`, `RollbackRemoved`,
`RollbackRead`, `RollbackUpdated`. Recovery never has the locks: `transactionLog.rollback` is always the steps
`RecoverStores`, `RecoverAdded` (which ends with the `Get` of `rollbackRemovedNodes`), `RecoverRemoved` (its write),
`RecoverUpdated`, `RecoverLogs`, or `RecoverObsolete` and `RecoverLogs` for a complete commit. The process that
recovers may die between them, and another starts from the same log again. `registry.Update` takes a lock
per handle and writes what it is given; it stops at the first handle somebody holds (`Rewritten`).

What can go wrong is said by constants, each a set of program points or a switch: `CrashAt` where a
process may die, `FailAt` which writes of phase 2 may fail (the log entry, a finalised handle, the
restoring of the pre-images, the removal of the priority log), `LapseAt` where the TTL of a live transaction's
lock may lapse, `Undisturbed` whether anybody writes a handle between the get and the write of an undo
without locks, `SweepFirst` and `SweepLive` what is known of the order of the recovery passes, `Impatient`
whether calls time out (the limit of 300 lock attempts is part of it, so `rivals`, where nobody is
impatient, is about transactions that do not reach it). `MaxMiscount` bounds how often a recovery that dies takes
a count down.

Abstractions. A node's content is the set of transactions whose change it includes; a physical ID is
the transaction and attempt that allocated it. An item conflict is a pair in `SameItem`; a refetch
fails when a transaction of such a pair changed the node since it was read. The work-in-progress
timestamp is none, fresh or stale, ageing one handle at a time (`AgeHandle`, only while no commit
under way wrote it: a commit is capped at an hour). Reading a node is one step: blobs are immutable,
so reading the blob later differs only if it has been deleted, which is `ReadFails`. A refetch of
all nodes is one step: a change in between is caught by the version checks behind it.

### Lockers

`RedisLocker`: one action per Redis command of a pipeline, so that commands of other clients come in
between. Redis is external: SETNX, GET and DEL are atomic and keys lapse. `owns` holds the
`IsLockOwner` flags, the only thing `Unlock` looks at. `KeepKeys` are the clients whose next attempt
passes the same `LockKey` values, as `phase1Commit` does, `LiveExpiry` those whose TTLs may lapse
while they live.

`MemoryLocker`: one action per operation on the sharded map (each under a shard's mutex), including
the take-over of expired items with compare-and-swap (`LoadExpired`, `Swap`), the rollback inside `Lock` and
`Unlock`, which load an item (`FindOwn`, `FindOther`) and then compare and delete it (`CompareAndDelete`), and eviction from
a full shard. Lock items are compared without their time stamps. `LiveExpiry` are slow clients; the
refinement of `NodeLocks` is about the others, who share keys with them.

### BTree

State: `nodes` is what the node repository of the transaction holds, `root` and `count` belong to the
store info, `call` is the call under way and where its loop is, `saved` what it has handed to the
repository. A node has the sequence of its used slots, its children (`<<>>`, or one more than slots,
`Nil` where a child was pruned) and its parent. A tree belongs to one transaction and makes one call
at a time. A step is one iteration of the loops a call is made of: `Add` starts at the root, `AddBelow`
goes down, `AddOnLeaf`, `AddItemOnNodeWithNilChild`, `BreakRoot` and `SplitLeaf` are the ends of
`Node.add`; after a split `Promote`, `PromoteBreakRoot` and `PromoteSplit` take the separator up, as
the loop of `Btree.promote` does. `RemoveCurrentItem` removes on a leaf or beside a pruned child; between
two children `NextBelow` goes down to the next item and `RemoveNext` swaps and removes it.
`RemoveSlot` and the operators it uses are `fixVacatedSlot`, `unlink`, `removeItemOnNodeWithNilChild`
and the collapse of the root. `AddReturns` and `RemoveReturns` change the count. Binary search is
modelled by its result. Node IDs are never short where a split needs them (`Room`).

`BTreeCursor` has the calls that change nothing: `FindFrom`, `FindInDescendingOrderFrom`, `MoveToNext` and
their kin. Their loops are RECURSIVE operators, so that no theorem is about them; the order of keys
they rely on is proved of `BTree`. The list that
`SortedList` is refined with is the tree in order, a separator on its way up between the halves of the
node it comes from; the step that puts an item in its place, or takes it out, is the step of the list.

Left out: values and updates, which change no structure, `LeafLoadBalancing` (off by default), and
the cursor between calls.

### HashMap

State: one block position, over all segment files: `file` and `cow` are the block and its backup in
each, `allocated` the files that exist, `prealloc`, `slotLock` and `blockLock` the three kinds of
locks, `proc` the call each process is in. Every call of the lock service and of the file system is a
step; a read and the restore that may follow are one. `Home` is the slot an ID hashes to; a search
looks there first and then at the others. `next` and `may` are the callers: the version they write
next, and the versions a fetch may answer now, which a write widens when it begins and narrows when it returns.
Callers are transactions that hold the lock of the node, so no two write the same handle at once.

At first the block is empty, and there may be segment files already, made for other blocks.
`scene` is the environment: whether calls overlap, whether they meet I/O errors, whether a write can stop half way (a
kill or an error; what was written before it stays), whether the machine can lose its power (`AfterDeath`: the backup
is written with `os.WriteFile` and never synced, so it may be lost in part or as a whole while the block
is being written), and which handles are added and removed. `UpdateFails` is an I/O error at any point of
`updateFileBlockRegion`, the deletion of the backup after the block has been written included: then the call
returns an error although it has written. `GiveUp` is the retry timeout of a lock; locks lapse only when their
owner is dead.

### Stores

State: `list`, `file`, `cache` (the L2 copy of an info), the lock of the list, the lock of each
store, and `tx`, a transaction with the call it is in. A count is a function: how often the delta of
each transaction is in it, so a lost and a doubled delta differ from each other and from none.
`applied` (the deltas successful calls of `Update` owe) and `spoiled` (stores an undo could not
write) are history. `NewBtree` opens a store or logs `createStore` and calls `Add`; `Commit` calls
`Update` with all deltas; a rollback calls it with the inverse for the stores it did not create, then
`Remove` for those it did; `Recover` removes what a dead transaction logged. Every lock, file and cache
call is a step; file writes may fail, cache calls do not.

Deaths happen while stores are created or removed; deaths inside `Update` are `CountGap` of
`TwoPhaseCommit`. Each transaction makes one attempt. Replication and the early return of a rollback
for actively persisted values are left out.

## 3. Runs

| Run | Instance | Checks | Result |
|---|---|---|---|
| `rivals` | 3 writers over 2 nodes, 3 attempts, fair | `TypeOK`, `MutualExclusion`, `NoLostUpdate`, `CompatibleCommits` | hold |
| `merge` | update+remove+add against an update of the same nodes; timeouts, failures, deaths, of recoveries too | `VisibleIsCovered`, `NoOrphanBlobs`, `NoDanglingNode`, `RemoverSawAll`, `RemovedStaysRemoved`, `ImplementsAtomicCommit` | hold |
| `lapse` | a writer of 2 nodes, a writer of 1 of them and a reader; locks lapse under live holders while nodes are staged or rolled back, writes of phase 2 fail | `NoLostUpdate`, `VisibleIsCovered` | hold |
| `failing` | update+remove against an update; everything in phase 2 may fail, every lock lapse, recovery in any order, deaths but next to the count | `CountConsistent` | holds |
| `redislock` | 3 clients contend for 2 keys with new keys per attempt; a slow one reuses keys that lapse; deaths | `HeldStaysLocked`, `FlagsCoverLocks`, `ImplementsNodeLocks` | hold |
| `memorylock` | 3 clients, overlapping key sets, one slow, deaths, fair | `ImplementsNodeLocks`, `NoLivelock`, `OnlyOwnerFrees` | hold |
| `btree` | all trees of up to 6 items, 2 with the same key in the middle, slot length 2 | `TypeOK`, `LinksAgree`, `ItemsKept`, `KeysInOrder`, `RefusesDuplicates`, `WalkVisitsAll`, `SearchesAgree`, `ImplementsSortedList`, `ChangesAreSaved` | hold |
| `registry` | 2 processes, 3 handles of 2 home slots; overlapping calls, also with I/O errors, or torn writes and a removal; fair | `CurrentUnlessRaced`, `TornIsCovered`, `OneRecord`, `CallsReturn` | hold |
| `stores` | 2 transactions, a shared store, a new store each, failing writes, deaths, fair | `CountsAddUp`, `CacheIsCurrent`, `CreatedIsListed`, `RollbackLeavesNothing`, `TransactionsEnd` | hold |
| `wedge` | an updater and a remover of 1 node | `NeverWedged` | violated |
| `redisretry` | reused keys, no TTL lapses | `HeldStaysLocked` | violated |
| `slotrace` | as `registry`, overlapping calls | `FetchIsCurrent` | violated |

What the violations show, none of which needs a failure or a death:

- `wedge`. Nothing has to fail: update a node, then roll back a removal of it. Both slots of the
  handle stay in use with a zero timestamp, and `commitUpdatedNodes` refuses the node for ever.
- `redisretry`. A refused `Lock` leaves the `IsLockOwner` flags of the keys it won, `Unlock` deletes
  them and leaves the flags; the next refused attempt deletes them again, whoever holds them.
- `slotrace`. `findAndAdd` chooses a vacant slot, locks it and writes without looking again. A handle
  whose home is that slot may have been written there while the lock was waited for; its record is
  overwritten. The comment on the function says it "verifies it's still available".

Behaviours met while modelling that no run shows (each was seen by changing an instance, or
follows from the lines named):

- A reader that reads and verifies between two handle writes of a commit commits with half of an
  update (`twophasecommittransaction2.go:254`); `docs/ARCHITECTURE.md:103` promises snapshot isolation.
- `RemoveCurrentItem` on an item with children on both sides registers the successor, which stays in
  the tree, with the item action tracker (`btree.go:695`).
- A change `unlink` makes to the root is not always saved; `ChangesAreSaved` leaves the root out (with
  it, violated after 14 calls).
- Two transactions that create the same store: the `Add` of the second fails and its clean-up removes
  the store of the first (`managebtree.go:183`). A transaction that only opened a store loses it when
  the creator rolls back. `CreatedIsListed` is violated as soon as two transactions create the same
  store, against "fully transactional" (`managebtree.go:137`). `Update` of a store that has vanished
  undoes its work and returns no error.
- `Get` of an info (and of a handle, `registry.go:189`) reads disk, then fills the cache; a writer in
  between is forgotten by the cache. With `SlowFill = TRUE`, `CacheIsCurrent` and `CountsAddUp` are
  violated, and `NoLostUpdate` assumes that handles are read from a coherent cache.
- With removals of displaced handles `OneRecord` and `FetchIsCurrent` are violated: a search stops at the
  vacated slot.
- A call that searches a block without its lock and finds it valid deletes the backup a writer has just made
  (`hashmap.fileregion.go:266`); if that writer's write stops half way, nobody can restore the block. With a
  scene that has `overlap` and `tears`, `TornIsCovered` is violated, against the comment at `hashmap.cow.go:22`.
- The backup is written with `os.WriteFile` and not synced before the block is written (`hashmap.cow.go:55`). With
  `power` in the scene, `TornIsCovered` is violated.
- A failed `priorityRollback` is only warned about, and the rollback that follows removes the priority log: a
  transaction that aborted stays visible with nothing to take it back. With `restore` in `FailAt`,
  `VisibleIsCovered` is violated.
- Two transactions that remove the same node: the one that comes second passes over a node that is
  no longer registered (`noderepository.backend.go:354`) and commits, although it never saw what was
  committed to the node in between. `RemoverSawAll` and `ImplementsAtomicCommit` are violated.
- Eviction from a full shard (`Capacity` below the number of keys) takes locks from live clients. A
  client whose Redis key lapsed and was taken over deletes the new owner's key when it unlocks.

Bounds. `merge` has two transactions that write two nodes in common, so that the per-handle writes of one
come in every order between the steps of the other, and a third node for the one it adds; it has one remover
of a node, and competing removers are a violation listed above. In `lapse` one writer has a part of the
other's nodes: if both wrote the same ones, the node not yet written would always stop the second. The third
writer of `rivals` makes a transaction lose twice. Neither is every conflict there can be: the theorems
of section 4 have any number of transactions, nodes and attempts, but not the failures of phase 2.
`MaxRetry` is the number of attempts (the code allows more; the
second already starts from a rolled-back state, and three outnumber the rivals). Every transaction
runs once, which bounds versions. All passing runs are explored completely. In `redislock` two
of the clients want both keys and one a single key; the slow client has two keys of its own, so that
one can lapse while the other is still there (`Retry`, `GetOwn`); reuse under contention is what
`FlagsCover` proves and `redisretry` shows. Six items at slot length 2 make trees of four levels, with every split,
promotion, pruning and collapse; the duplicate key is the middle one, with items on both sides, in every part of
the tree, and is looked for from both ends. Three handles do not
fit in a block of two slots, so that the second segment is set up, found and shared; two versions per
handle make a set rewrite a block. Of two adds one may hold the home slot of the other and go after it, and they
meet in the setting up of the second segment; the scenes with errors and torn writes have two handles that hash to
one slot. Two failures in `stores` let a write and its undo both fail; the shared
store and the one only one of them uses make a call of `Update` fail after it has written.
Deadlock is not checked for `TwoPhaseCommit`, whose transactions all end, nor where every client may
have died.

Assumptions of `merge` and `lapse`, each with what happens without it:

- `SafeCrashes` leaves out `CommittedGap`, from the removal of the priority log until `deleteObsoleteEntries` is
  logged. `transactionLog.rollback` stops at `finalizeCommit` only if a later entry exists
  (`transactionlogger.go:449`), so a process that dies there has its new, active blobs deleted an hour later:
  with `CrashAt <- CommittedGap`, `NoLostUpdate` is violated, against the comment at `transactionlogger.go:401`.
- `CountedCrashes`, in `failing`, leaves out `CountGap` too: a process that dies between `StoreRepository.Update` and the
  entry `beforeFinalize` leaves a wrong count, and so does one that dies during a rollback or a recovery
  after it has undone the count, because the recovery that follows undoes it again. With
  `CrashAt <- CountGap`, `CountConsistent` is violated, against the comment at
  `twophasecommittransaction.go:553` and `docs/GO_CORE_ENGINE.md:619` ("idempotent commit/rollback").
- `Undisturbed`: nobody writes a handle between an undo's get and its write of it. With `FALSE` and a death
  before `plog`, `NoLostUpdate` and `NoDanglingNode` are violated: a remover marks a node and dies; recovery reads the
  handle (`noderepository.backend.go:645`); the mark has expired, so an updater undoes it, commits the node and
  deletes the old blob; recovery writes the handle it has read (671) over that commit. The lock
  `registry.Update` takes for each write does not help.
- `WriteFails`: the log entry and the writes of phase 2 fail, the restoring of the pre-images and the removal of the
  priority log do not (`failing` has both). A commit whose `PriorityLog().Remove` fails only warns and succeeds
  (`twophasecommittransaction.go:632`); the sweep finds the log, takes a version one above the logged one for a
  half-done commit and restores the pre-images. With `plogRemove` in `FailAt`, `NoLostUpdate` is violated. The
  `PriorityLog().Remove` of a rollback, whose failure leads to the same, always succeeds.
- `Staging`, in `lapse`: locks lapse from the reservation of the nodes to the check of the locks before phase 2, and
  in a rollback, but neither between `commitUpdatedNodes`' get and write nor from that check to the unlock,
  because nothing looks at the locks again there. With `LapseAt <- AnyLapse`, `NoLostUpdate` is violated: another
  commit goes in between and is overwritten, by the staged handle, by a finalised one, or by the pre-images a
  failed phase 2 restores; `docs/GO_CORE_ENGINE.md:619` calls the locks advisory.
- `SweepFirst`: the priority log of a dead transaction is restored before its locks are taken again
  and before its transaction log expires. The code relies on intervals (5 minutes against an hour),
  but the sweep returns at the first log whose locks it does not get. With `SweepFirst = FALSE` and a
  death during `flip`, `NoDanglingNode` is violated: the expired-log pass deletes blobs that handles
  already written refer to.
  A death before `flip` is enough for `NoLostUpdate`: the sweep that comes late takes back a commit
  that went through meanwhile.
- `SweepLive = FALSE`: a sweep only meets logs of dead transactions. A batch is read once and
  restored later, and a version one above the logged one counts as repairable; with
  `SweepLive = TRUE` a commit that finishes in between is taken back and `NoLostUpdate` is violated.
- Two writers only: restoring a pre-image takes a version back and the next commit issues it again.
  With three writers of one node and a death during `flip` or `plogRemove`, or a failing write there, one
  that read the first issue passes the check of the second and `NoLostUpdate` is violated.
- `lapse` has no remover: `commitRemovedNodes` does not look at a reserved slot (its comment says it
  does), and with lapsed locks a remover and an updater violate `NoLostUpdate`.

Fairness. `rivals` assumes weak fairness of each transaction's own steps: a goroutine that can go on
does. `memorylock` assumes the same of each client and that a dead client's items expire; `NoLivelock`
allows that nobody succeeds if items go on expiring under live clients. `registry` assumes that a live
process goes on and that the locks of a dead one lapse, not that a call gives up: an add that finds the other's
slot locked searches again, and the holder of that slot, whose home it is, finds it vacant or finds another place; so
`CallsReturn` does not rest on the retry timeout. It leaves out calls that overlap and fail with I/O errors, of which
one may come too late for a lock again and again. `stores` assumes the same of its processes, and nothing of recovery: `TransactionsEnd` is about
transactions whose process lives on, and a dead one has ended. In `TwoPhaseCommit` nothing is assumed of
recovery either. The code would hardly justify more: `onIdle` returns at once if the transaction has
no B-tree, and `Begin`, its only caller, runs before one can be opened.

## 4. Proofs

All for arbitrary constants satisfying the `ASSUME`s of the modules. Where a theorem needs more, its
own ASSUME says so, and each such assumption excludes a behaviour listed in section 3 under which the
property is violated. Every inductive invariant was checked by TLC on small instances first.

### The commit (`TwoPhaseCommitProofs`, `CommitProofs`)

- `TypeCorrect`: `Spec => []TypeOK`. `TypeOK` alone is not inductive: a merge uses `rd[t][n].seen` and
  phase 2 uses `upd[t][n]`, which have the right type only if the node was read and the handle staged
  before. `ReadBeforeUse` and `StagedBeforeFlip` say so by program point.
- `MutualExclusionHolds`, if no lock lapses under a live transaction: in the critical stretch a
  transaction owns the locks of all nodes it writes (`LockOwner`), and whoever goes from the lock
  loop straight into it has keys to lock (`KeysBeforeLock`; after a rollback `nodesKeys` is nil and
  `Lock` takes nothing). Exclusion follows because a lock has one owner.
- `NoLostUpdateHolds`, `VisibleIsCoveredHolds`, `NoDanglingNodeHolds`, `RemovedStaysRemovedHolds`,
  `RemoverSawAllHolds`, `NoOrphanBlobsHolds` and the refinement `CommitImplementsAtomicCommit`, for any
  transactions, nodes and number of attempts, with conflicts, timeouts, rollbacks, deaths, sweeps and recovery
  call by call, which may die and start again. They assume `OneRemover` and `Orderly`: no death from the first finalised handle until
  `deleteObsoleteEntries` is logged, no failure of a write of phase 2, `SweepFirst`, not `SweepLive`,
  `Undisturbed` and no lapse under the living. So `merge` and the theorems complement each other: the
  run has deaths and failures in the middle of phase 2 for two writers, the theorems have any
  number of writers without them, which is as far as the code goes (section 3).

- `CountConsistentHolds`, with timeouts, any failure of phase 2, deaths, sweeps and recovery in any order, undos
  that race with commits and locks that lapse, if no process dies in `CountGap` or in `CommittedGap` (section 3).
  The invariant `CountInv` says, by the point a transaction is at and the last entry of its log, whether
  its delta is in the count: `rollback` and the expired-log pass both undo the count by what the log
  says, so the two must agree at every point where a process may stop.

`CommitInv`, the invariant, is a conjunction over transactions (`Mine`: what the log says at each point,
which locks are held, that the registry has the handles as they were staged until they are
finalised, that nobody touches what the priority log of a dead transaction covers, that what was read
is of an older version or is the present content, what a remover and an adder have done) and over
nodes and blobs (`Nodes`: the content of a node is what the transactions whose handle is written
wrote, no more and no less; `Contents`: whoever is in a blob is visible, or waits for that blob to become
active; `Owners`: a blob is active, or a live transaction will activate or delete it). The key
fact behind `NoLostUpdate` is that a transaction that has passed the version check under its locks
has seen every visible update of the node, and that nobody writes the node until it has flipped the
handle. A step of one transaction keeps what holds of another because they have no node locked in
common; `Beside` states that frame, and it is proved once. The refinement maps a node to
`Value(n, done)`, which changes only when `done` does.

### Locks (`RedisLockerProofs`, `MemoryLockerProofs`)

- `FlagsCover`: `FlagsCoverLocks` for `RedisLocker` when all clients reuse keys, lapsing TTLs included.
- `HeldKeysStayLocked` and `RedisImplementsNodeLocks`: with new keys per attempt and no lapse under
  a live client, held keys stay locked and the protocol implements `NodeLocks`. The invariant says
  that the flags of a live client are exactly keys it has in Redis, and which of its keys are won,
  refused or confirmed at each point of a call; the step to `held` maps to `Acquire`, leaving it to
  `Release`, everything else to a stutter.
- `MemoryImplementsNodeLocks`: the same for the in-memory locks when a shard has room for all keys
  (`Cardinality(Key) <= Capacity`, which excludes eviction and nothing else). A client about to swap has
  seen an expired item (`SeenExpired`), so it takes no lease that is in force; what a client has
  verified is its lease until it gives it back (`Verified`).
- `OnlyOwnerFreesHolds`, under the same assumption: a lease that is in force goes only in its own client's rollback
  or unlock. It is a statement about the window between load and compare: a client that is about to swap has
  seen an expired item, one that is about to delete has seen its own, and what it acts on is that item still.

### B-tree (`BTreeProofs`, `BTreeOrderProofs`)

`TypeOKHolds`, `LinksAgreeHolds`, `ItemsKeptHolds` and `ChangesAreSavedHolds`, for any items, keys, even slot
length and number of nodes, so for trees of any height, with no further assumption. None of the three
invariants is inductive alone. `TreeInv` is:

- `Tree`: nodes are well-formed, without an item or a child twice (`Shape`), and the children of a node are
  exactly the nodes whose parent it is, but for the new sibling of a split (`Linked`). Saying it by the
  parents makes an invariant of whole trees a local one.
- `Ranked`: some assignment of numbers puts every node below its parent. It excludes cycles: without it
  a node might be its own parent, and a promotion to the parent would write the node it has just split.
  A new node gets a number between its neighbours'; where the root breaks, all others move down.
- `Apart`: no item is in two nodes, and `Counting`: how many there are.
- `CallOK`: the separator on its way up is in no node, and its left half is at the slot it goes to;
  the item that replaces a removed one is strictly below it, so that the two are different nodes.

The surgeries on a tree (a node takes an item or a sibling, splits, is pruned, lifts its only child, the
root breaks or collapses) are each described once by what they do to a node's parent, children and
items, and shown to keep the invariant; a step is then an instance of one surgery or two. That a step
saves what it changes (`StepSaved`) is proved along with the invariant, because it depends on it: `unlink`
saves the parent it finds, which is the node's only if the links agree.

`KeysInOrderHolds` and `RefusesDuplicatesHolds`, under the same assumptions, are about keys. A separator
bounds what is below it at any depth, and depth is what the provers have no induction over. `OrderInv`
makes it local: there is an assignment `g` of a set of keys to every node, its range, such that each node
fits its range (`Fits`: its slots rise, their keys are in the range, the range of a child is part of it and
between the slots beside the child). The range is a witness and not computed from the tree, so a step
may choose it anew:

- a key on its way down is added to the range of the node it reaches (`AddOK`); a new leaf has its key;
- a split divides a range at the separator, and the separator on its way up fits between the halves and
  between the slots where it goes (`UpOK`), although the new sibling has no place yet;
- on the way from a removed item to the next (`DownOK`, `Way`), what is in the node reached is not above any slot
  passed; so when the next item takes the place of the removed one, the ranges along that way can be cut
  below its key without losing any.

`KeysInOrder` follows: the nodes whose range is within given bounds are closed under children, and
`Subtree` is the least such set. For `RefusesDuplicates` the invariant (`DupOK`) is that every node with the
key is at or below the node the call has reached. It starts true because every node is below the root
(the lowest-ranked one outside would have its parent inside), and a step down keeps it: by
`KeysInOrder` the children other than the one chosen can have the key only if a slot of the node has it,
and that one the search finds.

### Registry files (`HashMapProofs`)

Three invariants, each proved on top of the one before. All assume `NoPower`.

- `BlockInv`: a block is rewritten by the owner of its lock, a handle has one writer, what a writer has
  read is what is on disk until it writes, the backup is full before it does. `TornIsCoveredHolds`
  follows, with removals, I/O errors and overlapping calls, on every behaviour without the step `Beside`: a call that reads
  a block without its lock while another, in a scene where writes stop half way, is between its backup and the end of its
  write. Section 3 shows that this step breaks it, the theorem that nothing else does.
- `PlaceInv`, while nothing is removed: the places a search looks at before a record are taken, a
  handle has one record, a search has seen what it has passed, the backup of a torn block lacks
  at most the record being written. `OneRecordHolds` follows for any hash function, if calls overlap or
  writes stop half way but not both in a scene (`NotBoth`): two adds that race for a slot (`slotrace`) lose a
  record, they never double one.
- `VersionInv`: what a writer knows of its handle, and that the place it goes to is vacant for an add,
  its own record for a set. `FetchIsCurrentHolds` follows for any hash function, while nothing is removed and under `NotBoth`, on
  every behaviour in which an add that has locked the slot it found finds it `StillVacant`. That is the
  check the comment on `findAndAdd` promises and the code leaves out (`slotrace`), so the theorem says it is all that is
  missing; `CurrentUnlessRaced` of run `registry` is the same statement, with a history variable for that step.

### Store repository (`StoresProofs`)

`CountsAddUpHolds`, `CacheIsCurrentHolds`, `CreatedIsListedHolds`, `RollbackLeavesNothingHolds`, for any
transactions and stores, with failing writes, failing undos and deaths, if a new store has one creator
(`OwnStores`) and nobody writes an info between `Get`'s read and its write to the cache (`~SlowFill`).
`StoresInv` says per transaction which stores it opened, created and logged, which locks it holds, what
of the list and the file it has read is still there, and which deltas it owes, and per store that
the file holds the deltas owed but for those of the owner of its lock. The proof is by rely and
guarantee: `Beside` is what the step of one transaction leaves another, every action is shown to
guarantee it, and it keeps what the invariant says of the others.

### Only model-checked

`NoLostUpdate` and `VisibleIsCovered` with lapsing locks (`lapse`), and the properties of `merge` with
failures and deaths inside phase 2. `CacheIsCurrent` and its proof leave the gap between `Get`'s read and its write
to the cache out (`SlowFill`). `FetchIsCurrent` with a removed handle. `WalkVisitsAll`,
`SearchesAgree` and `ImplementsSortedList`: the list a tree stands for is computed by recursion over the
tree, and what that computes takes an induction the provers cannot instantiate. All liveness
(`CompatibleCommits`, `NoLivelock`, `CallsReturn`, `TransactionsEnd`), which is out of the prover's reach.

## 5. Not modelled, and the plan

Left out of `TwoPhaseCommit`: item locks and separately stored values, new root nodes, created
stores, replication, caches, lock resurrection after a Redis restart, I/O errors of phase 1 other
than those that end in the same rollback, hooks. An entry `PROJECT.json` lists as `not_modelled`
gives its reason. Most of the repository's lines are applications, tools and bindings around the
engine (`ai/`, `tools/`, `jsondb/`, `bindings/`); they call transactions and B-trees and nothing in the
engine depends on them, so the models cover the engine's core and a small share of all lines. Next,
in this order:

1. Proofs: `OneRecord` for handles that are never behind a removed one; what of `CommitInv` survives a
   death inside phase 2 when every node has two writers.
2. The item action tracker: get-set-verify locks of items and their versions.
3. The registry's caches: order of `Get`, death between disk and cache.
4. Recovery in more detail: the sweep's lock acquisition (`acquireLocks` returns no error when
   `DualLock` fails without naming an owner), its per-handle writes, lock resurrection, the log files;
   `Begin`, `OpenBtree` and `onIdle`, and `SinglePhaseTransaction` with several participants.
5. Replication: failover and reinstatement.
