------------------------- MODULE TwoPhaseCommitProofs -------------------------
(***************************************************************************)
(* Theorems about TwoPhaseCommit, for any transactions, nodes and timing.  *)
(***************************************************************************)
EXTENDS TwoPhaseCommit, TLAPS

-----------------------------------------------------------------------------
(* What the operations on a handle return. *)

\* Reserving, finalising, marking and undoing keep a handle a handle: whatever slot they
\* fill or clear holds a physical ID or none, and versions stay natural numbers.
LEMMA HandleOps ==
  ASSUME NEW h \in Handles, NEW id \in PhysID
  PROVE  /\ Reserve(h, id) \in Handles
         /\ Unreserve(h) \in Handles
         /\ Activate(h) \in Handles
         /\ Touch(h) \in Handles
         /\ MarkDeleted(h) \in Handles
         /\ Unmark(h) \in Handles
         /\ [h EXCEPT !.wip = "stale"] \in Handles
<1>1. Nil \in PhysID
  BY DEF PhysID
<1>2. \A g \in Handles : g.version + 1 \in Nat
  BY DEF Handles, HandleOf
<1>3. \A g \in Handles, v \in Nat, w \in Timestamp, d \in BOOLEAN :
         /\ [g EXCEPT !.version = v, !.wip = w] \in Handles
         /\ [g EXCEPT !.deleted = d, !.wip = w] \in Handles
         /\ [g EXCEPT !.deleted = d] \in Handles
         /\ [g EXCEPT !.wip = w] \in Handles
  BY DEF Handles, HandleOf
<1>4. {"none", "stale", "fresh"} \subseteq Timestamp
  BY DEF Timestamp
<1>5. \A g \in Handles : AllocateID(g, id) \in Handles /\ ClearInactiveID(g) \in Handles
  BY <1>1 DEF AllocateID, ClearInactiveID, Handles, HandleOf, Timestamp
<1>6. Reserve(h, id) \in Handles
  <2> DEFINE u == [h EXCEPT !.deleted = FALSE]
             r == IF IsAandBinUse(u) THEN ClearInactiveID(u) ELSE u
  <2>1. u \in Handles
    BY DEF Handles, HandleOf
  <2>2. r \in Handles
    BY <2>1, <1>5
  <2>3. Reserve(h, id) = AllocateID(r, id)
    BY DEF Reserve
  <2> HIDE DEF r
  <2> QED
    BY <2>2, <2>3, <1>5
<1>7. Unreserve(h) \in Handles
  BY <1>3, <1>4, <1>5 DEF Unreserve
<1>8. FlipActiveID(h) \in Handles
  BY DEF FlipActiveID, Handles, HandleOf
<1>9. Activate(h) \in Handles
  BY <1>2, <1>3, <1>4, <1>8 DEF Activate
<1>10. Touch(h) \in Handles /\ MarkDeleted(h) \in Handles /\ Unmark(h) \in Handles
  BY <1>2, <1>3, <1>4 DEF Touch, MarkDeleted, Unmark
<1>11. [h EXCEPT !.wip = "stale"] \in Handles
  BY <1>3, <1>4
<1> QED
  BY <1>6, <1>7, <1>9, <1>10, <1>11

\* A new node's handle.
LEMMA NewHandleType == [NewHandle(Base) EXCEPT !.version = 1] \in Handles
BY DEF NewHandle, Handles, HandleOf, PhysID, Timestamp

-----------------------------------------------------------------------------
(* Types *)

RollingBack == {"rbStores", "rbNodes", "rbRemoved", "rbRead", "rbUpdated", "rbLogs"}

\* What the types rest on: a transaction that commits, or will try again, has read every
\* node it touches (StageBlobs copies what was read), and phase 2 only writes handles
\* that phase 1 staged.
ReadBeforeUse ==
  \A t \in Txn :
    pc[t] \notin {"read"} \cup RollingBack \cup Ended \/ again[t] =>
      \A n \in Touched(t) : rd[t][n] # NotRead
StagedBeforeFlip ==
  \A t \in Txn : pc[t] = "flip" => todo[t] \subseteq Staged(t)

TypeInv == TypeOK /\ ReadBeforeUse /\ StagedBeforeFlip

\* What a transaction reads of a registered node is a version and a content.
LEMMA FetchType ==
  ASSUME TypeOK, NEW n \in Node, Registered(n)
  PROVE  Fetch(n) \in Read
<1>1. registry[n] \in Handles
  BY DEF TypeOK, Registered
<1>2. registry[n].version \in Nat
  BY <1>1 DEF Handles, HandleOf
<1>3. SeenAt(n) \in SUBSET Txn
  BY DEF TypeOK, SeenAt, SeenIn, Blob, Content
<1> QED
  BY <1>2, <1>3 DEF Fetch, Read, Content

\* The commit functions are what the type of tlog says.
LEMMA Codes ==
  {0, lockTrackedItems, areFetchedItemsIntact, commitUpdatedNodes, commitRemovedNodes,
   commitAddedNodes, commitStoreInfo, beforeFinalize, finalizeCommit, deleteObsoleteEntries}
    \subseteq 0..deleteObsoleteEntries
BY DEF lockTrackedItems, areFetchedItemsIntact, commitUpdatedNodes, commitRemovedNodes,
       commitAddedNodes, commitStoreInfo, beforeFinalize, finalizeCommit,
       deleteObsoleteEntries

\* registry.Update writes none but the handles it is given.
LEMMA RewrittenSubset ==
  ASSUME NEW S, NEW b PROVE \A R \in Rewritten(S, b) : R \subseteq S
BY DEF Rewritten

\* What rollbackRemovedNodes writes back is a handle, and an undo ends with nothing in hand.
LEMMA UnmarkedType ==
  ASSUME NEW t \in Txn, NEW b, TypeOK, PutUnmarked(t, b)
  PROVE  /\ registry' \in [Node -> Handles \cup {NoHandle}]
         /\ undo' \in [Txn -> [Node -> Handles \cup {NoHandle}]]
<1>1. PICK S, R : /\ S = ToUnmark(t, undo[t]) /\ R \subseteq S
                  /\ registry' = Written(R, [n \in S |-> Unmark(undo[t][n])])
  BY RewrittenSubset DEF PutUnmarked
<1>2. ASSUME NEW n \in Node, undo[t][n] # NoHandle PROVE Unmark(undo[t][n]) \in Handles
  <2>1. undo[t][n] \in Handles /\ Nil \in PhysID
    BY <1>2 DEF TypeOK, PhysID
  <2> QED
    BY <2>1, HandleOps
<1>3. S \subseteq Node /\ \A n \in S : undo[t][n] # NoHandle
  BY <1>1, ConstAssumption DEF ToUnmark
<1>4. registry' \in [Node -> Handles \cup {NoHandle}]
  BY <1>1, <1>2, <1>3 DEF Written, TypeOK
<1>5. undo' \in [Txn -> [Node -> Handles \cup {NoHandle}]]
  BY DEF PutUnmarked, Nothing, TypeOK
<1> QED
  BY <1>4, <1>5

\* Going to another program point.
LEMMA GotoType ==
  ASSUME TypeOK, NEW t \in Txn, NEW p \in Points, Goto(t, p)
  PROVE  pc' \in [Txn -> Points]
  BY DEF TypeOK, Goto

\* Phase 1 and 2, rollback, crashes, time and recovery all preserve the types.
LEMMA TypeStep == TypeInv /\ [Next]_vars => TypeInv'
<1> SUFFICES ASSUME TypeInv, [Next]_vars PROVE TypeInv'
  OBVIOUS
<1> USE DEF TypeInv
<1>1. ASSUME NEW t \in Txn, NEW n \in Node, ReadNode(t, n) PROVE TypeInv'
  <2>1. Fetch(n) \in Read /\ Fetch(n) # NotRead
    BY <1>1, FetchType, ConstAssumption DEF ReadNode, Readable
  <2>2. TypeOK'
    BY <1>1, <2>1 DEF TypeOK, Points, ReadNode, Goto, Log, store, logs, mem
  <2>3. ReadBeforeUse'
    BY <1>1, <2>1 DEF TypeOK, ReadBeforeUse, RollingBack, Dead, Ended, ReadNode, Goto,
      Log, store, logs, mem
  <2>4. StagedBeforeFlip'
    BY <1>1 DEF TypeOK, StagedBeforeFlip, Staged, ReadNode, Goto, Log, store, logs, mem
  <2> QED
    BY <2>2, <2>3, <2>4
<1>2. ASSUME NEW t \in Txn, ReadFails(t) PROVE TypeInv'
  BY <1>2, Codes DEF TypeOK, ReadBeforeUse, StagedBeforeFlip, Staged, Points, Dead, Ended,
    RollingBack, ReadFails, Goto, Log, store, logs, mem, Abort
<1>3. ASSUME NEW t \in Txn, StartCommit(t) PROVE TypeInv'
  <2>1. (W(t) # {}) \in BOOLEAN
    OBVIOUS
  <2>2. keys' \in [Txn -> BOOLEAN] /\ tlog' \in [Txn -> 0..deleteObsoleteEntries]
    BY <1>3, <2>1, Codes DEF StartCommit, TypeOK, Log
  <2>3. TypeOK'
    <3>1. {"verify", "lock"} \subseteq Points
      BY DEF Points
    <3>2. pc' \in [Txn -> Points]
      BY <1>3, <3>1, GotoType DEF StartCommit
    <3> QED
      BY <1>3, <2>2, <3>2 DEF TypeOK, StartCommit, store
  <2>4. ReadBeforeUse'
    BY <1>3 DEF TypeOK, ReadBeforeUse, RollingBack, Dead, Ended, StartCommit, Goto, Log,
      store, logs, mem
  <2>5. StagedBeforeFlip'
    BY <1>3 DEF TypeOK, StagedBeforeFlip, Staged, StartCommit, Goto, Log, store, logs, mem
  <2> QED
    BY <2>3, <2>4, <2>5
<1>4. ASSUME NEW t \in Txn, Verify(t) PROVE TypeInv'
  <2>1. pc' = [pc EXCEPT ![t] = "committed"] \/ pc' = [pc EXCEPT ![t] = "refetch"]
    BY <1>4 DEF Verify, Goto
  <2>2. pc' \in [Txn -> Points]
    BY <2>1 DEF TypeOK, Points
  <2>3. TypeOK'
    BY <1>4, <2>2 DEF TypeOK, Verify, store, logs, mem
  <2>4. ReadBeforeUse'
    BY <1>4, <2>1 DEF TypeOK, ReadBeforeUse, RollingBack, Dead, Ended, Verify, mem
  <2>5. StagedBeforeFlip'
    BY <1>4, <2>1 DEF TypeOK, StagedBeforeFlip, Staged, Verify, mem
  <2> QED
    BY <2>3, <2>4, <2>5
<1>5. ASSUME NEW t \in Txn, LockNodes(t) PROVE TypeInv'
  BY <1>5, Codes DEF TypeOK, ReadBeforeUse, StagedBeforeFlip, Staged, Points, Dead, Ended,
    RollingBack, LockNodes, Goto, Log, store, logs, mem, Take
<1>6. ASSUME NEW t \in Txn, LockBusy(t) PROVE TypeInv'
  BY <1>6, Codes DEF TypeOK, ReadBeforeUse, StagedBeforeFlip, Staged, Points, Dead, Ended,
    RollingBack, LockBusy, Goto, Log, store, logs, mem, Release
<1>7. ASSUME NEW t \in Txn, GiveUp(t) PROVE TypeInv'
  BY <1>7, Codes DEF TypeOK, ReadBeforeUse, StagedBeforeFlip, Staged, Points, Dead, Ended,
    RollingBack, GiveUp, Goto, Log, store, logs, mem, Abort
<1>8. ASSUME NEW t \in Txn, Refetch(t) PROVE TypeInv'
  <2>1. \A n \in Touched(t) \cap Node : Fetch(n) \in Read /\ Fetch(n) # NotRead
    BY <1>8, FetchType, ConstAssumption DEF Refetch, Conflict, Readable
  <2>2. Touched(t) \subseteq Node
    BY ConstAssumption DEF Touched, W
  <2>3. TypeOK'
    BY <1>8, <2>1 DEF TypeOK, Points, Refetch, Goto, Log, store, logs, mem
  <2>4. ReadBeforeUse'
    BY <1>8, <2>1, <2>2 DEF TypeOK, ReadBeforeUse, RollingBack, Dead, Ended, Refetch,
      Goto, Log, store, logs, mem
  <2>5. StagedBeforeFlip'
    BY <1>8 DEF TypeOK, StagedBeforeFlip, Staged, Refetch, Goto, Log, store, logs, mem
  <2> QED
    BY <2>3, <2>4, <2>5
<1>9. ASSUME NEW t \in Txn, RefetchFails(t) PROVE TypeInv'
  BY <1>9, Codes DEF TypeOK, ReadBeforeUse, StagedBeforeFlip, Staged, Points, Dead, Ended,
    RollingBack, RefetchFails, Goto, Log, store, logs, mem, Abort
<1>10. ASSUME NEW t \in Txn, DualLock(t) PROVE TypeInv'
  <2>1. (W(t) # {}) \in BOOLEAN
    OBVIOUS
  <2>2. keys' \in [Txn -> BOOLEAN] /\ tlog' \in [Txn -> 0..deleteObsoleteEntries]
    BY <1>10, <2>1, Codes DEF DualLock, TypeOK, Log
  <2>3. lock' \in [Node -> Txn \cup {Free}] /\ stale' \in [Txn -> BOOLEAN]
    BY <1>10 DEF DualLock, TypeOK, Take, Release
  <2>4. pc' \in [Txn -> Points]
    <3>1. CASE Goto(t, "fetched")
      BY <3>1 DEF TypeOK, Goto, Points
    <3>2. CASE Goto(t, "lock")
      BY <3>2 DEF TypeOK, Goto, Points
    <3> QED
      BY <1>10, <3>1, <3>2 DEF DualLock
  <2>5. TypeOK'
    BY <1>10, <2>2, <2>3, <2>4 DEF TypeOK, Points, DualLock, Goto, Log, store, logs, mem,
      Take, Release
  <2>6. ReadBeforeUse'
    BY <1>10 DEF TypeOK, ReadBeforeUse, RollingBack, Dead, Ended, DualLock, Goto, Log,
      store, logs, mem, Take, Release
  <2>7. StagedBeforeFlip'
    BY <1>10 DEF TypeOK, StagedBeforeFlip, Staged, DualLock, Goto, Log, store, logs, mem,
      Take, Release
  <2> QED
    BY <2>5, <2>6, <2>7
<1>11. ASSUME NEW t \in Txn, CheckFetched(t) PROVE TypeInv'
  <2>1. (retry[t] + 1 < MaxRetry) \in BOOLEAN /\ retry[t] + 1 \in Nat
    BY DEF TypeOK
  <2>2. again' \in [Txn -> BOOLEAN] /\ retry' \in [Txn -> Nat]
    BY <1>11, <2>1 DEF CheckFetched, Unsuccessful, TypeOK, mem
  <2>3. TypeOK'
    <3>1. {"update", "rbStores"} \subseteq Points
      BY DEF Points
    <3>2. pc' \in [Txn -> Points]
      BY <1>11, <3>1, GotoType DEF CheckFetched, Unsuccessful
    <3>3. tlog' \in [Txn -> 0..deleteObsoleteEntries]
      BY <1>11, Codes DEF TypeOK, CheckFetched, Log
    <3> QED
      BY <1>11, <2>2, <3>2, <3>3 DEF TypeOK, CheckFetched, store, mem, Unsuccessful
  <2>4. ReadBeforeUse'
    BY <1>11 DEF TypeOK, ReadBeforeUse, RollingBack, Dead, Ended, CheckFetched, Goto, Log,
      store, logs, mem, Unsuccessful
  <2>5. StagedBeforeFlip'
    BY <1>11 DEF TypeOK, StagedBeforeFlip, Staged, CheckFetched, Goto, Log, store, logs,
      mem, Unsuccessful
  <2> QED
    BY <2>3, <2>4, <2>5
<1>12. ASSUME NEW t \in Txn, ReserveUpdated(t) PROVE TypeInv'
  <2>1. Updates[t] \subseteq Node
    BY ConstAssumption
  <2>2. \A n \in Updates[t] : Reserve(registry[n], NewID(t)) \in Handles
    BY <1>12, <2>1, HandleOps DEF ReserveUpdated, AllReservable, Registered, TypeOK, NewID, PhysID
  <2>3. ReservedBy(t) \in [Node -> Handles \cup {NoHandle}]
    BY <2>2 DEF ReservedBy
  <2>7. TypeOK'
    BY <1>12, Codes, <2>3 DEF TypeOK, Points, ReserveUpdated, Goto, Log, store, logs, mem,
      Written
  <2>8. ReadBeforeUse'
    BY <1>12 DEF TypeOK, ReadBeforeUse, RollingBack, Dead, Ended, ReserveUpdated, Goto, Log,
      store, logs, mem
  <2>9. StagedBeforeFlip'
    BY <1>12 DEF TypeOK, StagedBeforeFlip, Staged, ReserveUpdated, Goto, Log, store, logs, mem
  <2> QED
    BY <2>7, <2>8, <2>9
<1>13. ASSUME NEW t \in Txn, ReserveFails(t) PROVE TypeInv'
  BY <1>13, Codes DEF TypeOK, ReadBeforeUse, StagedBeforeFlip, Staged, Points, Dead,
    Ended, RollingBack, ReserveFails, Goto, Log, store, logs, mem, Unsuccessful
<1>14. ASSUME NEW t \in Txn, StageBlobs(t) PROVE TypeInv'
  <2>1. Updates[t] \subseteq Node /\ Updates[t] \subseteq Touched(t)
    BY ConstAssumption DEF Touched, W
  <2>2. \A n \in Updates[t] : rd[t][n] \in Read
    <3>1. pc[t] \notin {"read"} \cup RollingBack \cup Ended
      BY <1>14 DEF StageBlobs, RollingBack, Dead, Ended
    <3>2. \A n \in Touched(t) : rd[t][n] # NotRead
      BY <3>1 DEF ReadBeforeUse
    <3> QED
      BY <2>1, <3>2 DEF TypeOK
  <2>3. \A n \in Updates[t] : rd[t][n].seen \cup {t} \in Content
    BY <2>2 DEF Read, Content
  <2>4. NewID(t) \in PhysID
    BY DEF NewID, PhysID, TypeOK
  <2>5. blobs' \subseteq Blob
    BY <1>14, <2>1, <2>3, <2>4 DEF StageBlobs, TypeOK, Blob
  <2>6. TypeOK'
    BY <1>14, <2>5 DEF TypeOK, Points, StageBlobs, Goto, Log, store, logs, mem
  <2>7. ReadBeforeUse'
    BY <1>14 DEF TypeOK, ReadBeforeUse, RollingBack, Dead, Ended, StageBlobs, Goto, Log,
      store, logs, mem
  <2>8. StagedBeforeFlip'
    BY <1>14 DEF TypeOK, StagedBeforeFlip, Staged, StageBlobs, Goto, Log, store, logs, mem
  <2> QED
    BY <2>6, <2>7, <2>8
<1>15. ASSUME NEW t \in Txn, LogUpdated(t) PROVE TypeInv'
  BY <1>15, Codes DEF TypeOK, ReadBeforeUse, StagedBeforeFlip, Staged, Points, Dead,
    Ended, RollingBack, LogUpdated, Goto, Log, store, logs, mem
<1>16. ASSUME NEW t \in Txn, LogRemoved(t) PROVE TypeInv'
  BY <1>16, Codes DEF TypeOK, ReadBeforeUse, StagedBeforeFlip, Staged, Points, Dead,
    Ended, RollingBack, LogRemoved, Goto, Log, store, logs, mem
<1>17. ASSUME NEW t \in Txn, MarkRemoved(t) PROVE TypeInv'
  <2>1. \A n \in Node : Registered(n) => MarkDeleted(registry[n]) \in Handles
    BY HandleOps DEF Registered, TypeOK, PhysID
  <2>2. (retry[t] + 1 < MaxRetry) \in BOOLEAN /\ retry[t] + 1 \in Nat
    BY DEF TypeOK
  <2>3. again' \in [Txn -> BOOLEAN] /\ retry' \in [Txn -> Nat]
    BY <1>17, <2>2 DEF MarkRemoved, Unsuccessful, TypeOK
  <2>4. MarkedBy(t) \in [Node -> Handles \cup {NoHandle}]
    BY <2>1 DEF MarkedBy, ToMark, TypeOK
  <2>5. /\ registry' \in [Node -> Handles \cup {NoHandle}]
        /\ upd' \in [Txn -> [Node -> Handles \cup {NoHandle}]]
    <3>1. CASE Removable(t)
      <4>1. /\ registry' = Written(ToMark(t), MarkedBy(t))
            /\ upd' = [upd EXCEPT ![t] = MarkedBy(t)]
        BY <1>17, <3>1 DEF MarkRemoved
      <4> QED
        BY <4>1, <2>4 DEF Written, TypeOK
    <3>2. CASE ~Removable(t)
      BY <1>17, <3>2 DEF MarkRemoved, Unsuccessful, TypeOK
    <3> QED
      BY <3>1, <3>2
  <2>6. TypeOK'
    <3>1. {"logAdded", "rbStores"} \subseteq Points
      BY DEF Points
    <3>2. pc' \in [Txn -> Points]
      BY <1>17, <3>1, GotoType DEF MarkRemoved, Unsuccessful
    <3> QED
      BY <1>17, <2>3, <2>5, <3>2 DEF TypeOK, MarkRemoved, logs, Unsuccessful
  <2>7. ReadBeforeUse'
    BY <1>17 DEF TypeOK, ReadBeforeUse, RollingBack, Dead, Ended, MarkRemoved, Goto, Log,
      store, logs, mem, Unsuccessful
  <2>8. StagedBeforeFlip'
    BY <1>17 DEF TypeOK, StagedBeforeFlip, Staged, MarkRemoved, Goto, Log, store, logs,
      mem, Unsuccessful
  <2> QED
    BY <2>6, <2>7, <2>8
<1>18. ASSUME NEW t \in Txn, LogAdded(t) PROVE TypeInv'
  BY <1>18, Codes DEF TypeOK, ReadBeforeUse, StagedBeforeFlip, Staged, Points, Dead,
    Ended, RollingBack, LogAdded, Goto, Log, store, logs, mem
<1>19. ASSUME NEW t \in Txn, AddNodes(t) PROVE TypeInv'
  <2>1. TypeOK'
    BY <1>19, NewHandleType DEF TypeOK, Points, AddNodes, Goto, Log, store, logs, mem
  <2>2. ReadBeforeUse'
    BY <1>19 DEF TypeOK, ReadBeforeUse, RollingBack, Dead, Ended, AddNodes, Goto, Log,
      store, logs, mem
  <2>3. StagedBeforeFlip'
    BY <1>19 DEF TypeOK, StagedBeforeFlip, Staged, AddNodes, Goto, Log, store, logs, mem
  <2> QED
    BY <2>1, <2>2, <2>3
<1>20. ASSUME NEW t \in Txn, AddBlobs(t) PROVE TypeInv'
  <2>1. Adds[t] \subseteq Node
    BY ConstAssumption
  <2>2. blobs' \subseteq Blob
    BY <1>20, <2>1 DEF AddBlobs, TypeOK, Blob, PhysID, Content
  <2>3. TypeOK'
    BY <1>20, <2>2 DEF TypeOK, Points, AddBlobs, Goto, Log, store, logs, mem
  <2>4. ReadBeforeUse'
    BY <1>20 DEF TypeOK, ReadBeforeUse, RollingBack, Dead, Ended, AddBlobs, Goto, Log,
      store, logs, mem
  <2>5. StagedBeforeFlip'
    BY <1>20 DEF TypeOK, StagedBeforeFlip, Staged, AddBlobs, Goto, Log, store, logs, mem
  <2> QED
    BY <2>3, <2>4, <2>5
<1>21. ASSUME NEW t \in Txn, LogStore(t) PROVE TypeInv'
  BY <1>21, Codes DEF TypeOK, ReadBeforeUse, StagedBeforeFlip, Staged, Points, Dead,
    Ended, RollingBack, LogStore, Goto, Log, store, logs, mem
<1>22. ASSUME NEW t \in Txn, CommitStores(t) PROVE TypeInv'
  BY <1>22, Codes DEF TypeOK, ReadBeforeUse, StagedBeforeFlip, Staged, Points, Dead,
    Ended, RollingBack, CommitStores, Goto, Log, store, logs, mem
<1>23. ASSUME NEW t \in Txn, LogBefore(t) PROVE TypeInv'
  BY <1>23, Codes DEF TypeOK, ReadBeforeUse, StagedBeforeFlip, Staged, Points, Dead,
    Ended, RollingBack, LogBefore, Goto, Log, store, logs, mem
<1>24. ASSUME NEW t \in Txn, PlogAdd(t) PROVE TypeInv'
  BY <1>24, Codes DEF TypeOK, ReadBeforeUse, StagedBeforeFlip, Staged, Points, Dead,
    Ended, RollingBack, PlogAdd, Goto, Log, store, logs, mem
<1>25. ASSUME NEW t \in Txn, CheckLocks(t) PROVE TypeInv'
  <2>1. lock' \in [Node -> Txn \cup {Free}] /\ again' \in [Txn -> BOOLEAN]
    BY <1>25 DEF CheckLocks, Take, Abort, TypeOK
  <2>2. TypeOK'
    BY <1>25, <2>1 DEF TypeOK, Points, CheckLocks, Goto, Log, store, logs, mem, Take, Abort
  <2>3. ReadBeforeUse'
    BY <1>25 DEF TypeOK, ReadBeforeUse, RollingBack, Dead, Ended, CheckLocks, Goto, Log,
      store, logs, mem, Take, Abort
  <2>4. StagedBeforeFlip'
    BY <1>25 DEF TypeOK, StagedBeforeFlip, Staged, CheckLocks, Goto, Log, store, logs, mem,
      Take, Abort
  <2> QED
    BY <2>2, <2>3, <2>4
<1>26. ASSUME NEW t \in Txn, UserRollback(t) PROVE TypeInv'
  BY <1>26, Codes DEF TypeOK, ReadBeforeUse, StagedBeforeFlip, Staged, Points, Dead,
    Ended, RollingBack, UserRollback, Goto, Log, store, logs, mem, Abort
<1>27. ASSUME NEW t \in Txn, LogFinalize(t) PROVE TypeInv'
  <2>1. Staged(t) \subseteq Node
    BY ConstAssumption DEF Staged, W
  <2>2. TypeOK'
    <3>0. pc' \in [Txn -> Points]
      <4>1. pc' = [pc EXCEPT ![t] = "unlock"] \/ pc' = [pc EXCEPT ![t] = "flip"]
        BY <1>27 DEF LogFinalize, Goto
      <4> QED
        BY <4>1, GotoType DEF Points, Goto
    <3>1. todo' \in [Txn -> SUBSET Node] /\ done' \subseteq Txn /\ pc' \in [Txn -> Points]
      BY <1>27, <2>1, <3>0 DEF TypeOK, LogFinalize
    <3> QED
      BY <1>27, Codes, <3>1 DEF TypeOK, LogFinalize, Log, store
  <2>3. ReadBeforeUse'
    BY <1>27 DEF TypeOK, ReadBeforeUse, RollingBack, Dead, Ended, LogFinalize, Goto, Log,
      store, logs, mem, Staged
  <2>4. StagedBeforeFlip'
    BY <1>27 DEF TypeOK, StagedBeforeFlip, Staged, LogFinalize, Goto, Log, store, logs,
      mem, Staged
  <2> QED
    BY <2>2, <2>3, <2>4
<1>28. ASSUME NEW t \in Txn, LogFinalizeFails(t) PROVE TypeInv'
  BY <1>28, Codes DEF TypeOK, ReadBeforeUse, StagedBeforeFlip, Staged, Points, Dead,
    Ended, RollingBack, LogFinalizeFails, Goto, Log, store, logs, mem, Release, Abort
<1>29. ASSUME NEW t \in Txn, FlipFails(t) PROVE TypeInv'
  BY <1>29, Codes DEF TypeOK, ReadBeforeUse, StagedBeforeFlip, Staged, Points, Dead,
    Ended, RollingBack, FlipFails, Goto, Log, store, logs, mem
<1>30. ASSUME NEW t \in Txn, Restore(t) PROVE TypeInv'
  BY <1>30, Codes DEF TypeOK, ReadBeforeUse, StagedBeforeFlip, Staged, Points, Dead,
    Ended, RollingBack, Restore, Written, Goto, Log, store, logs, mem, Release, Abort
<1>31. ASSUME NEW t \in Txn, PlogRemove(t) PROVE TypeInv'
  BY <1>31, Codes DEF TypeOK, ReadBeforeUse, StagedBeforeFlip, Staged, Points, Dead,
    Ended, RollingBack, PlogRemove, Goto, Log, store, logs, mem
<1>32. ASSUME NEW t \in Txn, UnlockNodes(t) PROVE TypeInv'
  BY <1>32, Codes DEF TypeOK, ReadBeforeUse, StagedBeforeFlip, Staged, Points, Dead,
    Ended, RollingBack, UnlockNodes, Goto, Log, store, logs, mem, Release
<1>33. ASSUME NEW t \in Txn, LogObsolete(t) PROVE TypeInv'
  BY <1>33, Codes DEF TypeOK, ReadBeforeUse, StagedBeforeFlip, Staged, Points, Dead,
    Ended, RollingBack, LogObsolete, Goto, Log, store, logs, mem
<1>34. ASSUME NEW t \in Txn, DeleteObsolete(t) PROVE TypeInv'
  BY <1>34, Codes DEF TypeOK, ReadBeforeUse, StagedBeforeFlip, Staged, Points, Dead,
      Ended, RollingBack, DeleteObsolete, Goto, Log, store, logs, mem, WithoutObsolete,
    Unregister
<1>35. ASSUME NEW t \in Txn, RemoveLogs(t) PROVE TypeInv'
  BY <1>35, Codes DEF TypeOK, ReadBeforeUse, StagedBeforeFlip, Staged, Points, Dead,
    Ended, RollingBack, RemoveLogs, Goto, Log, store, logs, mem
<1>36. ASSUME NEW t \in Txn, NEW n \in Node, Flip(t, n) PROVE TypeInv'
  <2>1. upd[t][n] \in Handles
    BY <1>36 DEF Flip, StagedBeforeFlip, Staged, TypeOK
  <2>2. Final(t, n) \in Handles
    BY <2>1, HandleOps DEF Final, PhysID
  <2>3. TypeOK'
    BY <1>36, <2>2 DEF TypeOK, Points, Flip, Goto, Log, store, logs, mem
  <2>4. ReadBeforeUse'
    BY <1>36 DEF TypeOK, ReadBeforeUse, RollingBack, Dead, Ended, Flip, Goto, Log, store,
      logs, mem
  <2>5. StagedBeforeFlip'
    BY <1>36 DEF TypeOK, StagedBeforeFlip, Staged, Flip, Goto, Log, store, logs, mem
  <2> QED
    BY <2>3, <2>4, <2>5
<1>37. ASSUME NEW t \in Txn, RollbackStores(t) PROVE TypeInv'
  BY <1>37, Codes DEF TypeOK, ReadBeforeUse, StagedBeforeFlip, Staged, Points, Dead,
    Ended, RollingBack, RollbackStores, Goto, Log, store, logs, mem
<1>38. ASSUME NEW t \in Txn, RollbackNodes(t) PROVE TypeInv'
  <2>1. \A n \in Node : Registered(n) => Unmark(registry[n]) \in Handles /\ Unreserve(registry[n]) \in Handles
    BY HandleOps DEF Registered, TypeOK, PhysID
  <2>4. registry' \in [Node -> Handles \cup {NoHandle}]
    BY <1>38, <2>1 DEF RollbackNodes, ToUnmark, ToUnreserve, Registered, TypeOK
  <2>5. TypeOK'
    BY <1>38, <2>4 DEF TypeOK, Points, RollbackNodes, Goto, Log, store, logs, mem, Release,
      BlobsUnadded
  <2>6. ReadBeforeUse'
    BY <1>38 DEF TypeOK, ReadBeforeUse, RollingBack, Dead, Ended, RollbackNodes, Goto, Log,
      store, logs, mem, Release
  <2>7. StagedBeforeFlip'
    BY <1>38 DEF TypeOK, StagedBeforeFlip, Staged, RollbackNodes, Goto, Log, store, logs,
      mem, Release
  <2> QED
    BY <2>5, <2>6, <2>7
<1>39. ASSUME NEW t \in Txn, RollbackLogs(t) PROVE TypeInv'
  BY <1>39, Codes DEF TypeOK, ReadBeforeUse, StagedBeforeFlip, Staged, Points, Dead,
    Ended, RollingBack, RollbackLogs, Goto, Log, store, logs, mem
<1>40. ASSUME NEW t \in Txn, Crash(t) PROVE TypeInv'
  BY <1>40, Codes DEF TypeOK, ReadBeforeUse, StagedBeforeFlip, Staged, Points, Dead,
    Ended, RollingBack, Crash, Forget, Nothing, Goto, Log, store, logs, mem
<1>41. ASSUME NEW t \in Txn, CrashReserving(t) PROVE TypeInv'
  <2>1. Updates[t] \subseteq Node
    BY ConstAssumption
  <2>2. \A n \in Updates[t] : Reserve(registry[n], NewID(t)) \in Handles
    BY <1>41, <2>1, HandleOps DEF CrashReserving, AllReservable, Registered, TypeOK, NewID, PhysID
  <2>3. ReservedBy(t) \in [Node -> Handles \cup {NoHandle}]
    BY <2>2 DEF ReservedBy
  <2>4. registry' \in [Node -> Handles \cup {NoHandle}]
    BY <1>41, <2>3 DEF CrashReserving, Written, TypeOK
  <2>7. TypeOK'
    BY <1>41, Codes, <2>4 DEF TypeOK, Points, CrashReserving, Goto, Log, store, logs, mem, Forget,
      Nothing
  <2>8. ReadBeforeUse'
    BY <1>41 DEF TypeOK, ReadBeforeUse, RollingBack, Dead, Ended, CrashReserving, Goto, Log,
      store, logs, mem, Forget,
      Nothing
  <2>9. StagedBeforeFlip'
    BY <1>41 DEF TypeOK, StagedBeforeFlip, Staged, CrashReserving, Goto, Log, store, logs, mem, Forget,
      Nothing
  <2> QED
    BY <2>7, <2>8, <2>9
<1>42. ASSUME NEW t \in Txn, SweepRead(t) PROVE TypeInv'
  BY <1>42, Codes DEF TypeOK, ReadBeforeUse, StagedBeforeFlip, Staged, Points, Dead,
    Ended, RollingBack, SweepRead, Goto, Log, store, logs, mem
<1>43. ASSUME NEW t \in Txn, SweepRestore(t) PROVE TypeInv'
  <2>1. registry' = registry \/ registry' = Written(Staged(t), upd[t])
    BY <1>43 DEF SweepRestore
  <2>2. registry' \in [Node -> Handles \cup {NoHandle}]
    <3>1. /\ registry \in [Node -> Handles \cup {NoHandle}]
          /\ upd[t] \in [Node -> Handles \cup {NoHandle}]
      BY DEF TypeOK
    <3> QED
      BY <2>1, <3>1 DEF Written
  <2>3. sweep' \in ({"taken", "restored"} \X Txn) \cup {NoSweep}
    BY <1>43 DEF SweepRestore
  <2>4. TypeOK'
    BY <1>43, <2>2, <2>3 DEF TypeOK, SweepRestore, logs, mem
  <2>5. ReadBeforeUse' /\ StagedBeforeFlip'
    BY <1>43 DEF ReadBeforeUse, StagedBeforeFlip, Staged, SweepRestore, mem
  <2> QED
    BY <2>4, <2>5
<1>44. ASSUME NEW t \in Txn, SweepRemove(t) PROVE TypeInv'
  BY <1>44, Codes DEF TypeOK, ReadBeforeUse, StagedBeforeFlip, Staged, Points, Dead,
    Ended, RollingBack, SweepRemove, Goto, Log, store, logs, mem
<1>45. ASSUME NEW t \in Txn, RecoverStores(t) PROVE TypeInv'
  <2>1. count' \in [Txn -> Int]
    <3>1. [count EXCEPT ![t] = @ - 1] \in [Txn -> Int]
      BY DEF TypeOK
    <3> QED
      BY <1>45, <3>1 DEF RecoverStores, TypeOK
  <2>7. TypeOK'
    BY <1>45, Codes, <2>1 DEF TypeOK, Points, RecoverStores, Goto, Log, store, logs, mem, Expired
  <2>8. ReadBeforeUse'
    BY <1>45 DEF TypeOK, ReadBeforeUse, RollingBack, Dead, Ended, RecoverStores, Goto, Log,
      store, logs, mem, Expired
  <2>9. StagedBeforeFlip'
    BY <1>45 DEF TypeOK, StagedBeforeFlip, Staged, RecoverStores, Goto, Log, store, logs, mem, Expired
  <2> QED
    BY <2>7, <2>8, <2>9
<1>46. ASSUME NEW n \in Node, ExpireLock(n) PROVE TypeInv'
  BY <1>46, Codes DEF TypeOK, ReadBeforeUse, StagedBeforeFlip, Staged, Points, Dead,
    Ended, RollingBack, ExpireLock, Goto, Log, store, logs, mem
<1>47. ASSUME NEW n \in Node, AgeHandle(n) PROVE TypeInv'
  <2>1. [registry[n] EXCEPT !.wip = "stale"] \in Handles
    BY <1>47, HandleOps DEF AgeHandle, Registered, TypeOK, PhysID
  <2>2. TypeOK'
    BY <1>47, <2>1 DEF TypeOK, Points, AgeHandle, Goto, Log, store, logs, mem
  <2>3. ReadBeforeUse'
    BY <1>47 DEF TypeOK, ReadBeforeUse, RollingBack, Dead, Ended, AgeHandle, Goto, Log,
      store, logs, mem
  <2>4. StagedBeforeFlip'
    BY <1>47 DEF TypeOK, StagedBeforeFlip, Staged, AgeHandle, Goto, Log, store, logs, mem
  <2> QED
    BY <2>2, <2>3, <2>4
<1>48. CASE UNCHANGED vars
  BY <1>48 DEF vars, TypeOK, ReadBeforeUse, StagedBeforeFlip, Staged
<1>49. ASSUME NEW t \in Txn, GetUpdated(t) PROVE TypeInv'
  <2>1. Updates[t] \subseteq Node
    BY ConstAssumption
  <2>2. \A n \in Updates[t] : Reserve(registry[n], NewID(t)) \in Handles
    BY <1>49, <2>1, HandleOps DEF GetUpdated, AllReservable, Registered, TypeOK, NewID, PhysID
  <2>3. ReservedBy(t) \in [Node -> Handles \cup {NoHandle}]
    BY <2>2 DEF ReservedBy
  <2>7. TypeOK'
    BY <1>49, Codes, <2>3 DEF TypeOK, Points, GetUpdated, Goto, Log, store, logs, mem
  <2>8. ReadBeforeUse'
    BY <1>49 DEF TypeOK, ReadBeforeUse, RollingBack, Dead, Ended, GetUpdated, Goto, Log,
      store, logs, mem
  <2>9. StagedBeforeFlip'
    BY <1>49 DEF TypeOK, StagedBeforeFlip, Staged, GetUpdated, Goto, Log, store, logs, mem
  <2> QED
    BY <2>7, <2>8, <2>9
<1>50. ASSUME NEW t \in Txn, PutUpdated(t) PROVE TypeInv'
  BY <1>50, Codes DEF TypeOK, ReadBeforeUse, StagedBeforeFlip, Staged, Points, Dead,
    Ended, RollingBack, PutUpdated, Goto, Log, store, logs, mem, Written
<1>51. ASSUME NEW t \in Txn, GetRemoved(t) PROVE TypeInv'
  <2>1. \A n \in Node : Registered(n) => MarkDeleted(registry[n]) \in Handles
    BY HandleOps DEF Registered, TypeOK, PhysID
  <2>2. MarkedBy(t) \in [Node -> Handles \cup {NoHandle}]
    BY <2>1 DEF MarkedBy, ToMark, TypeOK
  <2>7. TypeOK'
    BY <1>51, Codes, <2>2 DEF TypeOK, Points, GetRemoved, Goto, Log, store, logs, mem
  <2>8. ReadBeforeUse'
    BY <1>51 DEF TypeOK, ReadBeforeUse, RollingBack, Dead, Ended, GetRemoved, Goto, Log,
      store, logs, mem
  <2>9. StagedBeforeFlip'
    BY <1>51 DEF TypeOK, StagedBeforeFlip, Staged, GetRemoved, Goto, Log, store, logs, mem
  <2> QED
    BY <2>7, <2>8, <2>9
<1>52. ASSUME NEW t \in Txn, PutRemoved(t) PROVE TypeInv'
  BY <1>52, Codes DEF TypeOK, ReadBeforeUse, StagedBeforeFlip, Staged, Points, Dead,
    Ended, RollingBack, PutRemoved, Goto, Log, store, logs, mem, Written
<1>53. ASSUME NEW t \in Txn, RestoreFails(t) PROVE TypeInv'
  BY <1>53, Codes DEF TypeOK, ReadBeforeUse, StagedBeforeFlip, Staged, Points, Dead,
    Ended, RollingBack, RestoreFails, Goto, Log, store, logs, mem,
    Written, Release, Abort
<1>54. ASSUME NEW t \in Txn, PlogRemoveFails(t) PROVE TypeInv'
  BY <1>54, Codes DEF TypeOK, ReadBeforeUse, StagedBeforeFlip, Staged, Points, Dead,
    Ended, RollingBack, PlogRemoveFails, Goto, Log, store, logs, mem
<1>55. ASSUME NEW t \in Txn, RollbackAdded(t) PROVE TypeInv'
  <2>1. registry' \in [Node -> Handles \cup {NoHandle}] /\ blobs' \subseteq blobs
    BY <1>55 DEF RollbackAdded, Written, Nothing, BlobsUnadded, TypeOK
  <2>2. undo' \in [Txn -> [Node -> Handles \cup {NoHandle}]]
    BY <1>55 DEF RollbackAdded, Get, TypeOK
  <2>7. TypeOK'
    BY <1>55, Codes, <2>1, <2>2 DEF TypeOK, Points, RollbackAdded, Goto, Log, store, logs, mem
  <2>8. ReadBeforeUse'
    BY <1>55 DEF TypeOK, ReadBeforeUse, RollingBack, Dead, Ended, RollbackAdded, Goto, Log,
      store, logs, mem
  <2>9. StagedBeforeFlip'
    BY <1>55 DEF TypeOK, StagedBeforeFlip, Staged, RollbackAdded, Goto, Log, store, logs, mem
  <2> QED
    BY <2>7, <2>8, <2>9
<1>56. ASSUME NEW t \in Txn, RollbackRemoved(t) PROVE TypeInv'
  <2>1. /\ registry' \in [Node -> Handles \cup {NoHandle}]
        /\ undo' \in [Txn -> [Node -> Handles \cup {NoHandle}]]
    BY <1>56, UnmarkedType DEF RollbackRemoved, TypeOK
  <2>7. TypeOK'
    BY <1>56, Codes, <2>1 DEF TypeOK, Points, RollbackRemoved, Goto, Log, store, logs, mem
  <2>8. ReadBeforeUse'
    BY <1>56 DEF TypeOK, ReadBeforeUse, RollingBack, Dead, Ended, RollbackRemoved, Goto, Log,
      store, logs, mem
  <2>9. StagedBeforeFlip'
    BY <1>56 DEF TypeOK, StagedBeforeFlip, Staged, RollbackRemoved, Goto, Log, store, logs, mem
  <2> QED
    BY <2>7, <2>8, <2>9
<1>57. ASSUME NEW t \in Txn, RollbackRead(t) PROVE TypeInv'
  BY <1>57, Codes DEF TypeOK, ReadBeforeUse, StagedBeforeFlip, Staged, Points, Dead,
    Ended, RollingBack, RollbackRead, Goto, Log, store, logs, mem, Get
<1>58. ASSUME NEW t \in Txn, RollbackUpdated(t) PROVE TypeInv'
  <2>1. PICK S, U : /\ S = ToUnreserve(t, undo[t]) /\ U \subseteq S
                    /\ registry' = Written(U, [n \in S |-> Unreserve(undo[t][n])])
    BY <1>58, RewrittenSubset DEF RollbackUpdated
  <2>2. ASSUME NEW n \in Node, undo[t][n] # NoHandle PROVE Unreserve(undo[t][n]) \in Handles
    <3>1. undo[t][n] \in Handles /\ Nil \in PhysID
      BY <2>2 DEF TypeOK, PhysID
    <3> QED
      BY <3>1, HandleOps
  <2>3. S \subseteq Node /\ \A n \in S : undo[t][n] # NoHandle
    BY <2>1, ConstAssumption DEF ToUnreserve
  <2>4. registry' \in [Node -> Handles \cup {NoHandle}]
    BY <2>1, <2>2, <2>3 DEF Written, TypeOK
  <2>5. undo' \in [Txn -> [Node -> Handles \cup {NoHandle}]] /\ blobs' \subseteq blobs
    BY <1>58 DEF RollbackUpdated, Nothing, BlobsUnreserved, TypeOK
  <2>7. TypeOK'
    BY <1>58, Codes, <2>4, <2>5 DEF TypeOK, Points, RollbackUpdated, Goto, Log, store, logs, mem, Release
  <2>8. ReadBeforeUse'
    BY <1>58 DEF TypeOK, ReadBeforeUse, RollingBack, Dead, Ended, RollbackUpdated, Goto, Log,
      store, logs, mem, Release
  <2>9. StagedBeforeFlip'
    BY <1>58 DEF TypeOK, StagedBeforeFlip, Staged, RollbackUpdated, Goto, Log, store, logs, mem, Release
  <2> QED
    BY <2>7, <2>8, <2>9
<1>59. ASSUME NEW t \in Txn, RecoverObsolete(t) PROVE TypeInv'
  BY <1>59, Codes DEF TypeOK, ReadBeforeUse, StagedBeforeFlip, Staged, Points, Dead,
    Ended, RollingBack, RecoverObsolete, Goto, Log, store, logs, mem,
    Expired, WithoutObsolete, Unregister
<1>60. ASSUME NEW t \in Txn, RecoverAdded(t) PROVE TypeInv'
  <2>1. registry' \in [Node -> Handles \cup {NoHandle}] /\ blobs' \subseteq blobs
    BY <1>60 DEF RecoverAdded, Written, Nothing, BlobsUnadded, TypeOK
  <2>2. undo' \in [Txn -> [Node -> Handles \cup {NoHandle}]]
    BY <1>60 DEF RecoverAdded, Get, TypeOK
  <2>7. TypeOK'
    BY <1>60, Codes, <2>1, <2>2 DEF TypeOK, Points, RecoverAdded, Goto, Log, store, logs, mem
  <2>8. ReadBeforeUse'
    BY <1>60 DEF TypeOK, ReadBeforeUse, RollingBack, Dead, Ended, RecoverAdded, Goto, Log,
      store, logs, mem
  <2>9. StagedBeforeFlip'
    BY <1>60 DEF TypeOK, StagedBeforeFlip, Staged, RecoverAdded, Goto, Log, store, logs, mem
  <2> QED
    BY <2>7, <2>8, <2>9
<1>61. ASSUME NEW t \in Txn, RecoverRemoved(t) PROVE TypeInv'
  <2>1. /\ registry' \in [Node -> Handles \cup {NoHandle}]
        /\ undo' \in [Txn -> [Node -> Handles \cup {NoHandle}]]
    BY <1>61, UnmarkedType DEF RecoverRemoved, TypeOK
  <2>7. TypeOK'
    BY <1>61, Codes, <2>1 DEF TypeOK, Points, RecoverRemoved, Goto, Log, store, logs, mem
  <2>8. ReadBeforeUse'
    BY <1>61 DEF TypeOK, ReadBeforeUse, RollingBack, Dead, Ended, RecoverRemoved, Goto, Log,
      store, logs, mem
  <2>9. StagedBeforeFlip'
    BY <1>61 DEF TypeOK, StagedBeforeFlip, Staged, RecoverRemoved, Goto, Log, store, logs, mem
  <2> QED
    BY <2>7, <2>8, <2>9
<1>62. ASSUME NEW t \in Txn, RecoverUpdated(t) PROVE TypeInv'
  BY <1>62, Codes DEF TypeOK, ReadBeforeUse, StagedBeforeFlip, Staged, Points, Dead,
    Ended, RollingBack, RecoverUpdated, Goto, Log, store, logs, mem
<1>63. ASSUME NEW t \in Txn, RecoverLogs(t) PROVE TypeInv'
  BY <1>63, Codes DEF TypeOK, ReadBeforeUse, StagedBeforeFlip, Staged, Points, Dead,
    Ended, RollingBack, RecoverLogs, Goto, Log, store, logs, mem
<1> QED
  BY <1>1, <1>2, <1>3, <1>4, <1>5, <1>6, <1>7, <1>8, <1>9, <1>10, <1>11, <1>12, <1>13,
    <1>14, <1>15, <1>16, <1>17, <1>18, <1>19, <1>20, <1>21, <1>22, <1>23, <1>24, <1>25,
    <1>26, <1>27, <1>28, <1>29, <1>30, <1>31, <1>32, <1>33, <1>34, <1>35, <1>36, <1>37,
    <1>38, <1>39, <1>40, <1>41, <1>42, <1>43, <1>44, <1>45, <1>46, <1>47, <1>48, <1>49,
    <1>50, <1>51, <1>52, <1>53, <1>54, <1>55, <1>56, <1>57, <1>58, <1>59, <1>60, <1>61,
    <1>62, <1>63 DEF
    Next, Step, Phase1, Phase2, Rollback, Recovery

\* The initial state is well typed.
LEMMA TypeInit == Init => TypeInv
<1> SUFFICES ASSUME Init PROVE TypeInv
  OBVIOUS
<1>1. blobs \subseteq Blob
  BY DEF Init, Blob, PhysID, Content, Existing
<1>2. registry \in [Node -> Handles \cup {NoHandle}]
  BY NewHandleType DEF Init
<1>3. 0 \in 0..deleteObsoleteEntries /\ 0 \in Nat /\ 0 \in Int
  BY Codes
<1>4. pc \in [Txn -> Points]
  BY DEF Init, Points
<1>5. TypeOK
  <2>1. Nothing \in [Node -> Handles \cup {NoHandle}]
    BY DEF Nothing
  <2>2. /\ upd \in [Txn -> [Node -> Handles \cup {NoHandle}]]
        /\ undo \in [Txn -> [Node -> Handles \cup {NoHandle}]]
    BY <2>1 DEF Init
  <2> QED
    BY <1>1, <1>2, <1>3, <1>4, <2>2 DEF Init, TypeOK
<1>6. ReadBeforeUse /\ StagedBeforeFlip
  BY DEF Init, ReadBeforeUse, StagedBeforeFlip, RollingBack, Dead, Ended
<1> QED
  BY <1>5, <1>6 DEF TypeInv

\* Every state the commit and its recovery reach is well typed: registry slots hold
\* physical IDs, versions never go below zero, and phase 2 writes real handles only.
THEOREM TypeCorrect == Spec => []TypeOK
<1>1. TypeInv => TypeOK
  BY DEF TypeInv
<1> QED
  BY <1>1, TypeInit, TypeStep, PTL DEF Spec

-----------------------------------------------------------------------------
(* Mutual exclusion *)

\* A transaction in the critical stretch holds the locks of all the nodes it writes.
LockOwner ==
  \A t \in Txn : pc[t] \in Critical => \A n \in W(t) : lock[n] = t

\* Whoever goes straight from the lock loop to the critical stretch has keys to lock.
KeysBeforeLock ==
  \A t \in Txn : pc[t] = "lock" => stale[t] \/ keys[t] \/ W(t) = {}

LockInv == LockOwner /\ KeysBeforeLock

\* No step takes away the locks of a transaction that relies on them, as long as a TTL
\* only lapses under the dead: Lock and DualLock take no lock another holds, Unlock
\* releases the caller's own, and unlocking ends the critical stretch.
LEMMA LockStep ==
  ASSUME LapseAt = {}
  PROVE  TypeOK /\ LockInv /\ [Next]_vars => LockInv'
<1> SUFFICES ASSUME TypeOK, LockInv, [Next]_vars PROVE LockInv'
  OBVIOUS
<1> USE DEF LockInv
<1>0. /\ Free \notin Txn
      /\ lock \in [Node -> Txn \cup {Free}] /\ pc \in [Txn -> Points]
      /\ stale \in [Txn -> BOOLEAN] /\ keys \in [Txn -> BOOLEAN]
      /\ \A t \in Txn : W(t) \subseteq Node
  BY ConstAssumption DEF TypeOK, W
<1>1. ASSUME NEW t \in Txn, NEW n \in Node, ReadNode(t, n) PROVE LockInv'
  BY <1>1, <1>0 DEF LockOwner, KeysBeforeLock, ReadNode, Goto, store, logs, mem,
    Critical
<1>2. ASSUME NEW t \in Txn, ReadFails(t) PROVE LockInv'
  BY <1>2, <1>0 DEF LockOwner, KeysBeforeLock, ReadFails, Goto, store, logs, mem,
    Critical, Abort
<1>3. ASSUME NEW t \in Txn, StartCommit(t) PROVE LockInv'
  <2>1. LockOwner'
    BY <1>3, <1>0 DEF LockOwner, StartCommit, Goto, store, logs, mem, Critical
  <2>2. KeysBeforeLock'
    <3>1. CASE IsReader(t)
      BY <1>3, <1>0, <3>1 DEF KeysBeforeLock, StartCommit, Goto
    <3>2. CASE ~IsReader(t)
      <4>1. (W(t) # {}) \in BOOLEAN
        OBVIOUS
      <4>2. keys'[t] = (W(t) # {}) /\ \A u \in Txn \ {t} : keys'[u] = keys[u] /\ pc'[u] = pc[u]
        BY <1>3, <1>0, <3>2, <4>1 DEF StartCommit, Goto
      <4> QED
        BY <1>3, <1>0, <4>2 DEF KeysBeforeLock, StartCommit
    <3> QED
      BY <3>1, <3>2
  <2> QED
    BY <2>1, <2>2
<1>4. ASSUME NEW t \in Txn, Verify(t) PROVE LockInv'
  BY <1>4, <1>0 DEF LockOwner, KeysBeforeLock, Verify, Goto, store, logs, mem, Critical
<1>5. ASSUME NEW t \in Txn, LockNodes(t) PROVE LockInv'
  BY <1>5, <1>0 DEF LockOwner, KeysBeforeLock, LockNodes, Goto, store, logs, mem,
    Critical, CanLock, Take
<1>6. ASSUME NEW t \in Txn, LockBusy(t) PROVE LockInv'
  BY <1>6, <1>0 DEF LockOwner, KeysBeforeLock, LockBusy, Goto, store, logs, mem,
    Critical, Release
<1>7. ASSUME NEW t \in Txn, GiveUp(t) PROVE LockInv'
  BY <1>7, <1>0 DEF LockOwner, KeysBeforeLock, GiveUp, Goto, store, logs, mem, Critical,
    Abort
<1>8. ASSUME NEW t \in Txn, Refetch(t) PROVE LockInv'
  BY <1>8, <1>0 DEF LockOwner, KeysBeforeLock, Refetch, Goto, store, logs, mem, Critical
<1>9. ASSUME NEW t \in Txn, RefetchFails(t) PROVE LockInv'
  BY <1>9, <1>0 DEF LockOwner, KeysBeforeLock, RefetchFails, Goto, store, logs, mem,
    Critical, Abort
<1>10. ASSUME NEW t \in Txn, DualLock(t) PROVE LockInv'
  BY <1>10, <1>0 DEF LockOwner, KeysBeforeLock, DualLock, Goto, store, logs, mem,
    Critical, CanLock, Take, Release
<1>11. ASSUME NEW t \in Txn, CheckFetched(t) PROVE LockInv'
  BY <1>11, <1>0 DEF LockOwner, KeysBeforeLock, CheckFetched, Goto, store, logs, mem,
    Critical, Unsuccessful
<1>12. ASSUME NEW t \in Txn, ReserveUpdated(t) PROVE LockInv'
  BY <1>12, <1>0 DEF LockOwner, KeysBeforeLock, ReserveUpdated, Goto, store, logs, mem,
    Critical
<1>13. ASSUME NEW t \in Txn, ReserveFails(t) PROVE LockInv'
  BY <1>13, <1>0 DEF LockOwner, KeysBeforeLock, ReserveFails, Goto, store, logs, mem,
    Critical, Unsuccessful
<1>14. ASSUME NEW t \in Txn, StageBlobs(t) PROVE LockInv'
  BY <1>14, <1>0 DEF LockOwner, KeysBeforeLock, StageBlobs, Goto, store, logs, mem,
    Critical
<1>15. ASSUME NEW t \in Txn, LogUpdated(t) PROVE LockInv'
  BY <1>15, <1>0 DEF LockOwner, KeysBeforeLock, LogUpdated, Goto, store, logs, mem,
    Critical
<1>16. ASSUME NEW t \in Txn, LogRemoved(t) PROVE LockInv'
  BY <1>16, <1>0 DEF LockOwner, KeysBeforeLock, LogRemoved, Goto, store, logs, mem,
    Critical
<1>17. ASSUME NEW t \in Txn, MarkRemoved(t) PROVE LockInv'
  BY <1>17, <1>0 DEF LockOwner, KeysBeforeLock, MarkRemoved, Goto, store, logs, mem,
    Critical, Unsuccessful
<1>18. ASSUME NEW t \in Txn, LogAdded(t) PROVE LockInv'
  BY <1>18, <1>0 DEF LockOwner, KeysBeforeLock, LogAdded, Goto, store, logs, mem,
    Critical
<1>19. ASSUME NEW t \in Txn, AddNodes(t) PROVE LockInv'
  BY <1>19, <1>0 DEF LockOwner, KeysBeforeLock, AddNodes, Goto, store, logs, mem,
    Critical
<1>20. ASSUME NEW t \in Txn, AddBlobs(t) PROVE LockInv'
  BY <1>20, <1>0 DEF LockOwner, KeysBeforeLock, AddBlobs, Goto, store, logs, mem,
    Critical
<1>21. ASSUME NEW t \in Txn, LogStore(t) PROVE LockInv'
  BY <1>21, <1>0 DEF LockOwner, KeysBeforeLock, LogStore, Goto, store, logs, mem,
    Critical
<1>22. ASSUME NEW t \in Txn, CommitStores(t) PROVE LockInv'
  BY <1>22, <1>0 DEF LockOwner, KeysBeforeLock, CommitStores, Goto, store, logs, mem,
    Critical
<1>23. ASSUME NEW t \in Txn, LogBefore(t) PROVE LockInv'
  BY <1>23, <1>0 DEF LockOwner, KeysBeforeLock, LogBefore, Goto, store, logs, mem,
    Critical
<1>24. ASSUME NEW t \in Txn, PlogAdd(t) PROVE LockInv'
  BY <1>24, <1>0 DEF LockOwner, KeysBeforeLock, PlogAdd, Goto, store, logs, mem,
    Critical
<1>25. ASSUME NEW t \in Txn, CheckLocks(t) PROVE LockInv'
  BY <1>25, <1>0 DEF LockOwner, KeysBeforeLock, CheckLocks, Goto, store, logs, mem,
    Critical, CanLock, Take, Abort
<1>26. ASSUME NEW t \in Txn, UserRollback(t) PROVE LockInv'
  BY <1>26, <1>0 DEF LockOwner, KeysBeforeLock, UserRollback, Goto, store, logs, mem,
    Critical, Abort
<1>27. ASSUME NEW t \in Txn, LogFinalize(t) PROVE LockInv'
  BY <1>27, <1>0 DEF LockOwner, KeysBeforeLock, LogFinalize, Goto, store, logs, mem,
    Critical
<1>28. ASSUME NEW t \in Txn, LogFinalizeFails(t) PROVE LockInv'
  BY <1>28, <1>0 DEF LockOwner, KeysBeforeLock, LogFinalizeFails, Goto, store, logs,
    mem, Critical, Release, Abort
<1>29. ASSUME NEW t \in Txn, FlipFails(t) PROVE LockInv'
  BY <1>29, <1>0 DEF LockOwner, KeysBeforeLock, FlipFails, Goto, store, logs, mem,
    Critical
<1>30. ASSUME NEW t \in Txn, Restore(t) PROVE LockInv'
  BY <1>30, <1>0 DEF LockOwner, KeysBeforeLock, Restore, Goto, store, logs, mem,
    Critical, Release, Abort
<1>31. ASSUME NEW t \in Txn, PlogRemove(t) PROVE LockInv'
  BY <1>31, <1>0 DEF LockOwner, KeysBeforeLock, PlogRemove, Goto, store, logs, mem,
    Critical
<1>32. ASSUME NEW t \in Txn, UnlockNodes(t) PROVE LockInv'
  BY <1>32, <1>0 DEF LockOwner, KeysBeforeLock, UnlockNodes, Goto, store, logs, mem,
    Critical, Release
<1>33. ASSUME NEW t \in Txn, LogObsolete(t) PROVE LockInv'
  BY <1>33, <1>0 DEF LockOwner, KeysBeforeLock, LogObsolete, Goto, store, logs, mem,
    Critical
<1>34. ASSUME NEW t \in Txn, DeleteObsolete(t) PROVE LockInv'
  BY <1>34, <1>0 DEF LockOwner, KeysBeforeLock, DeleteObsolete, Goto, store, logs, mem,
    Critical
<1>35. ASSUME NEW t \in Txn, RemoveLogs(t) PROVE LockInv'
  BY <1>35, <1>0 DEF LockOwner, KeysBeforeLock, RemoveLogs, Goto, store, logs, mem,
    Critical
<1>36. ASSUME NEW t \in Txn, RollbackStores(t) PROVE LockInv'
  BY <1>36, <1>0 DEF LockOwner, KeysBeforeLock, RollbackStores, Goto, store, logs, mem,
    Critical
<1>37. ASSUME NEW t \in Txn, RollbackNodes(t) PROVE LockInv'
  BY <1>37, <1>0 DEF LockOwner, KeysBeforeLock, RollbackNodes, Goto, store, logs, mem,
    Critical, Release
<1>38. ASSUME NEW t \in Txn, RollbackLogs(t) PROVE LockInv'
  BY <1>38, <1>0 DEF LockOwner, KeysBeforeLock, RollbackLogs, Goto, store, logs, mem,
    Critical
<1>39. ASSUME NEW t \in Txn, Crash(t) PROVE LockInv'
  BY <1>39, <1>0 DEF LockOwner, KeysBeforeLock, Crash, Forget, Goto, store, logs, mem,
    Critical
<1>40. ASSUME NEW t \in Txn, CrashReserving(t) PROVE LockInv'
  BY <1>40, <1>0 DEF LockOwner, KeysBeforeLock, CrashReserving, Goto, store, logs, mem,
    Critical, Forget
<1>41. ASSUME NEW t \in Txn, SweepRead(t) PROVE LockInv'
  BY <1>41, <1>0 DEF LockOwner, KeysBeforeLock, SweepRead, Goto, store, logs, mem,
    Critical
<1>42. ASSUME NEW t \in Txn, SweepRestore(t) PROVE LockInv'
  BY <1>42, <1>0 DEF LockOwner, KeysBeforeLock, SweepRestore, Goto, store, logs, mem,
    Critical
<1>43. ASSUME NEW t \in Txn, SweepRemove(t) PROVE LockInv'
  BY <1>43, <1>0 DEF LockOwner, KeysBeforeLock, SweepRemove, Goto, store, logs, mem,
    Critical
<1>44. ASSUME NEW t \in Txn, RecoverStores(t) PROVE LockInv'
  BY <1>44, <1>0 DEF LockOwner, KeysBeforeLock, RecoverStores, Goto, store, logs, mem,
    Critical, Expired
<1>45. ASSUME NEW t \in Txn, NEW n \in Node, Flip(t, n) PROVE LockInv'
  BY <1>45, <1>0 DEF LockOwner, KeysBeforeLock, Flip, Goto, store, logs, mem, Critical
<1>46. ASSUME NEW n \in Node, ExpireLock(n) PROVE LockInv'
  BY <1>46, <1>0 DEF LockOwner, KeysBeforeLock, ExpireLock, Goto, store, logs, mem,
    Critical, Dead
<1>47. ASSUME NEW n \in Node, AgeHandle(n) PROVE LockInv'
  BY <1>47, <1>0 DEF LockOwner, KeysBeforeLock, AgeHandle, Goto, store, logs, mem,
    Critical
<1>48. CASE UNCHANGED vars
  BY <1>48 DEF vars, LockOwner, KeysBeforeLock
<1>49. ASSUME NEW t \in Txn, GetUpdated(t) PROVE LockInv'
  BY <1>49, <1>0 DEF LockOwner, KeysBeforeLock, GetUpdated, Goto, store, logs, mem,
    Critical
<1>50. ASSUME NEW t \in Txn, PutUpdated(t) PROVE LockInv'
  BY <1>50, <1>0 DEF LockOwner, KeysBeforeLock, PutUpdated, Goto, store, logs, mem,
    Critical
<1>51. ASSUME NEW t \in Txn, GetRemoved(t) PROVE LockInv'
  BY <1>51, <1>0 DEF LockOwner, KeysBeforeLock, GetRemoved, Goto, store, logs, mem,
    Critical
<1>52. ASSUME NEW t \in Txn, PutRemoved(t) PROVE LockInv'
  BY <1>52, <1>0 DEF LockOwner, KeysBeforeLock, PutRemoved, Goto, store, logs, mem,
    Critical
<1>53. ASSUME NEW t \in Txn, RestoreFails(t) PROVE LockInv'
  BY <1>53, <1>0 DEF LockOwner, KeysBeforeLock, RestoreFails, Goto, store, logs, mem,
    Critical, Release, Abort
<1>54. ASSUME NEW t \in Txn, PlogRemoveFails(t) PROVE LockInv'
  BY <1>54, <1>0 DEF LockOwner, KeysBeforeLock, PlogRemoveFails, Goto, store, logs, mem,
    Critical
<1>55. ASSUME NEW t \in Txn, RollbackAdded(t) PROVE LockInv'
  BY <1>55, <1>0 DEF LockOwner, KeysBeforeLock, RollbackAdded, Goto, store, logs, mem,
    Critical
<1>56. ASSUME NEW t \in Txn, RollbackRemoved(t) PROVE LockInv'
  BY <1>56, <1>0 DEF LockOwner, KeysBeforeLock, RollbackRemoved, Goto, store, logs, mem,
    Critical, PutUnmarked
<1>57. ASSUME NEW t \in Txn, RollbackRead(t) PROVE LockInv'
  BY <1>57, <1>0 DEF LockOwner, KeysBeforeLock, RollbackRead, Goto, store, logs, mem,
    Critical
<1>58. ASSUME NEW t \in Txn, RollbackUpdated(t) PROVE LockInv'
  BY <1>58, <1>0 DEF LockOwner, KeysBeforeLock, RollbackUpdated, Goto, store, logs, mem,
    Critical, Release
<1>59. ASSUME NEW t \in Txn, RecoverObsolete(t) PROVE LockInv'
  BY <1>59, <1>0 DEF LockOwner, KeysBeforeLock, RecoverObsolete, Goto, store, logs, mem,
    Critical, Expired
<1>60. ASSUME NEW t \in Txn, RecoverAdded(t) PROVE LockInv'
  BY <1>60, <1>0 DEF LockOwner, KeysBeforeLock, RecoverAdded, Goto, store, logs, mem,
    Critical
<1>61. ASSUME NEW t \in Txn, RecoverRemoved(t) PROVE LockInv'
  BY <1>61, <1>0 DEF LockOwner, KeysBeforeLock, RecoverRemoved, Goto, store, logs, mem,
    Critical, PutUnmarked
<1>62. ASSUME NEW t \in Txn, RecoverUpdated(t) PROVE LockInv'
  BY <1>62, <1>0 DEF LockOwner, KeysBeforeLock, RecoverUpdated, Goto, store, logs, mem,
    Critical
<1>63. ASSUME NEW t \in Txn, RecoverLogs(t) PROVE LockInv'
  BY <1>63, <1>0 DEF LockOwner, KeysBeforeLock, RecoverLogs, Goto, store, logs, mem,
    Critical
<1> QED
  BY <1>1, <1>2, <1>3, <1>4, <1>5, <1>6, <1>7, <1>8, <1>9, <1>10, <1>11, <1>12, <1>13,
    <1>14, <1>15, <1>16, <1>17, <1>18, <1>19, <1>20, <1>21, <1>22, <1>23, <1>24, <1>25,
    <1>26, <1>27, <1>28, <1>29, <1>30, <1>31, <1>32, <1>33, <1>34, <1>35, <1>36, <1>37,
    <1>38, <1>39, <1>40, <1>41, <1>42, <1>43, <1>44, <1>45, <1>46, <1>47, <1>48, <1>49,
    <1>50, <1>51, <1>52, <1>53, <1>54, <1>55, <1>56, <1>57, <1>58, <1>59, <1>60, <1>61,
    <1>62, <1>63 DEF
    Next, Step, Phase1, Phase2, Rollback, Recovery

\* Two transactions never are in the critical stretch with a node that both write, for
\* any number of transactions, nodes, retries, crashes and recoveries.
THEOREM MutualExclusionHolds ==
  ASSUME LapseAt = {}
  PROVE  Spec => []MutualExclusion
<1>1. Init => LockInv
  BY DEF Init, LockInv, LockOwner, KeysBeforeLock, Critical
<1>2. TypeOK /\ LockInv /\ [Next]_vars => LockInv'
  BY LockStep
<1>3. LockInv => MutualExclusion
  BY DEF LockInv, LockOwner, MutualExclusion
<1> QED
  BY <1>1, <1>2, <1>3, TypeCorrect, PTL DEF Spec

-----------------------------------------------------------------------------
(* The store's count *)

\* Until commitStores has run; from there to the point of no return, with and without the
\* log entry that says so; and what is left to do after it.
BeforeStore == {"read", "verify", "lock", "refetch", "dual", "fetched", "update", "reserve",
                "stage", "logUpdated", "logRemoved", "remove", "mark", "logAdded", "add",
                "addBlobs", "logStore", "store"}
AfterStore  == {"plog", "check", "phase1", "flip", "restore", "plogRemove"}
Finishing   == {"unlock", "logObsolete"}
CleaningUp  == {"obsolete", "removeLogs"}

\* Where a count has been undone and the log does not say so: a death there is one that
\* recovery, or its repetition, undoes a second time.
CountGap == {"logBefore", "rbNodes", "rbRemoved", "rbRead", "rbUpdated", "rbLogs",
             "rcAdded", "rcRemoved", "rcUpdated", "rcLogs"}

\* The count includes the delta of t.  A rollback and the recovery of a dead transaction
\* tell by the log, and by nothing else.
Applied(t) ==
  \/ pc[t] \in {"logBefore"} \cup AfterStore \cup Finishing \cup CleaningUp
  \/ pc[t] \in {"rbStores", "crashed"} /\ tlog[t] > commitStoreInfo
  \/ pc[t] \in {"committed", "rcLogs", "recovered"} /\ t \in done

Counted(t) ==
  /\ count[t] = IF Applied(t) THEN 1 ELSE 0
  /\ pc[t] \in BeforeStore => tlog[t] <= commitStoreInfo
  /\ pc[t] \in AfterStore => tlog[t] > commitStoreInfo
  /\ pc[t] \in AfterStore \cup {"rbStores"} => ~Finished(tlog[t])
  /\ pc[t] \in CleaningUp => Finished(tlog[t])
  /\ pc[t] \in Finishing \cup CleaningUp => t \in done
  /\ t \in done => pc[t] \in Finishing \cup CleaningUp
                            \cup {"committed", "crashed", "rcLogs", "recovered"}
  /\ pc[t] = "crashed" => (t \in done <=> Finished(tlog[t]))

CountInv == \A t \in Txn : Counted(t)

\* What the log of every transaction says of its delta, no step falsifies unless a process
\* dies where the log cannot say it: before the entry behind commitStores, after the undo
\* of a rollback or of a recovery, or between the point of no return and
\* deleteObsoleteEntries.
LEMMA CountStep ==
  ASSUME CrashAt \cap (CountGap \cup Finishing) = {}
  PROVE  TypeOK /\ CountInv /\ [Next]_vars => CountInv'
<1> SUFFICES ASSUME TypeOK, CountInv, [Next]_vars PROVE CountInv'
  OBVIOUS
<1> USE DEF CountInv, Counted, Applied, BeforeStore, AfterStore, Finishing, CleaningUp,
        Finished
<1>0. /\ pc \in [Txn -> Points] /\ count \in [Txn -> Int] /\ done \subseteq Txn
      /\ tlog \in [Txn -> 0..deleteObsoleteEntries]
  BY DEF TypeOK
<1> USE DEF lockTrackedItems, areFetchedItemsIntact, commitUpdatedNodes, commitRemovedNodes,
        commitAddedNodes, commitStoreInfo, beforeFinalize, finalizeCommit, deleteObsoleteEntries
<1>1. ASSUME NEW t \in Txn, NEW n \in Node, ReadNode(t, n) PROVE CountInv'
  BY <1>1, <1>0 DEF ReadNode, Goto, Log, store, logs, mem
<1>2. ASSUME NEW t \in Txn, ReadFails(t) PROVE CountInv'
  BY <1>2, <1>0 DEF ReadFails, Goto, Log, store, logs, mem, Abort
<1>3. ASSUME NEW t \in Txn, StartCommit(t) PROVE CountInv'
  BY <1>3, <1>0 DEF StartCommit, Goto, Log, store, logs, mem
<1>4. ASSUME NEW t \in Txn, Verify(t) PROVE CountInv'
  BY <1>4, <1>0 DEF Verify, Goto, Log, store, logs, mem
<1>5. ASSUME NEW t \in Txn, LockNodes(t) PROVE CountInv'
  BY <1>5, <1>0 DEF LockNodes, Goto, Log, store, logs, mem
<1>6. ASSUME NEW t \in Txn, LockBusy(t) PROVE CountInv'
  BY <1>6, <1>0 DEF LockBusy, Goto, Log, store, logs, mem
<1>7. ASSUME NEW t \in Txn, GiveUp(t) PROVE CountInv'
  BY <1>7, <1>0 DEF GiveUp, Goto, Log, store, logs, mem, Abort
<1>8. ASSUME NEW t \in Txn, Refetch(t) PROVE CountInv'
  BY <1>8, <1>0 DEF Refetch, Goto, Log, store, logs, mem
<1>9. ASSUME NEW t \in Txn, RefetchFails(t) PROVE CountInv'
  BY <1>9, <1>0 DEF RefetchFails, Goto, Log, store, logs, mem, Abort
<1>10. ASSUME NEW t \in Txn, DualLock(t) PROVE CountInv'
  BY <1>10, <1>0 DEF DualLock, Goto, Log, store, logs, mem
<1>11. ASSUME NEW t \in Txn, CheckFetched(t) PROVE CountInv'
  BY <1>11, <1>0 DEF CheckFetched, Goto, Log, store, logs, mem, Unsuccessful
<1>12. ASSUME NEW t \in Txn, ReserveUpdated(t) PROVE CountInv'
  BY <1>12, <1>0 DEF ReserveUpdated, Goto, Log, store, logs, mem
<1>13. ASSUME NEW t \in Txn, ReserveFails(t) PROVE CountInv'
  BY <1>13, <1>0 DEF ReserveFails, Goto, Log, store, logs, mem, Unsuccessful
<1>14. ASSUME NEW t \in Txn, StageBlobs(t) PROVE CountInv'
  BY <1>14, <1>0 DEF StageBlobs, Goto, Log, store, logs, mem
<1>15. ASSUME NEW t \in Txn, LogUpdated(t) PROVE CountInv'
  BY <1>15, <1>0 DEF LogUpdated, Goto, Log, store, logs, mem
<1>16. ASSUME NEW t \in Txn, LogRemoved(t) PROVE CountInv'
  BY <1>16, <1>0 DEF LogRemoved, Goto, Log, store, logs, mem
<1>17. ASSUME NEW t \in Txn, MarkRemoved(t) PROVE CountInv'
  BY <1>17, <1>0 DEF MarkRemoved, Goto, Log, store, logs, mem, Unsuccessful
<1>18. ASSUME NEW t \in Txn, LogAdded(t) PROVE CountInv'
  BY <1>18, <1>0 DEF LogAdded, Goto, Log, store, logs, mem
<1>19. ASSUME NEW t \in Txn, AddNodes(t) PROVE CountInv'
  BY <1>19, <1>0 DEF AddNodes, Goto, Log, store, logs, mem
<1>20. ASSUME NEW t \in Txn, AddBlobs(t) PROVE CountInv'
  BY <1>20, <1>0 DEF AddBlobs, Goto, Log, store, logs, mem
<1>21. ASSUME NEW t \in Txn, LogStore(t) PROVE CountInv'
  BY <1>21, <1>0 DEF LogStore, Goto, Log, store, logs, mem
<1>22. ASSUME NEW t \in Txn, CommitStores(t) PROVE CountInv'
  BY <1>22, <1>0 DEF CommitStores, Goto, Log, store, logs, mem
<1>23. ASSUME NEW t \in Txn, LogBefore(t) PROVE CountInv'
  BY <1>23, <1>0 DEF LogBefore, Goto, Log, store, logs, mem
<1>24. ASSUME NEW t \in Txn, PlogAdd(t) PROVE CountInv'
  BY <1>24, <1>0 DEF PlogAdd, Goto, Log, store, logs, mem
<1>25. ASSUME NEW t \in Txn, CheckLocks(t) PROVE CountInv'
  BY <1>25, <1>0 DEF CheckLocks, Goto, Log, store, logs, mem, Abort
<1>26. ASSUME NEW t \in Txn, UserRollback(t) PROVE CountInv'
  BY <1>26, <1>0 DEF UserRollback, Goto, Log, store, logs, mem, Abort
<1>27. ASSUME NEW t \in Txn, LogFinalize(t) PROVE CountInv'
  BY <1>27, <1>0 DEF LogFinalize, Goto, Log, store, logs, mem
<1>28. ASSUME NEW t \in Txn, LogFinalizeFails(t) PROVE CountInv'
  BY <1>28, <1>0 DEF LogFinalizeFails, Goto, Log, store, logs, mem, Abort
<1>29. ASSUME NEW t \in Txn, FlipFails(t) PROVE CountInv'
  BY <1>29, <1>0 DEF FlipFails, Goto, Log, store, logs, mem
<1>30. ASSUME NEW t \in Txn, Restore(t) PROVE CountInv'
  BY <1>30, <1>0 DEF Restore, Goto, Log, store, logs, mem, Abort
<1>31. ASSUME NEW t \in Txn, PlogRemove(t) PROVE CountInv'
  BY <1>31, <1>0 DEF PlogRemove, Goto, Log, store, logs, mem
<1>32. ASSUME NEW t \in Txn, UnlockNodes(t) PROVE CountInv'
  BY <1>32, <1>0 DEF UnlockNodes, Goto, Log, store, logs, mem
<1>33. ASSUME NEW t \in Txn, LogObsolete(t) PROVE CountInv'
  BY <1>33, <1>0 DEF LogObsolete, Goto, Log, store, logs, mem
<1>34. ASSUME NEW t \in Txn, DeleteObsolete(t) PROVE CountInv'
  BY <1>34, <1>0 DEF DeleteObsolete, Goto, Log, store, logs, mem
<1>35. ASSUME NEW t \in Txn, RemoveLogs(t) PROVE CountInv'
  BY <1>35, <1>0 DEF RemoveLogs, Goto, Log, store, logs, mem
<1>36. ASSUME NEW t \in Txn, RollbackStores(t) PROVE CountInv'
  BY <1>36, <1>0 DEF RollbackStores, Goto, Log, store, logs, mem
<1>37. ASSUME NEW t \in Txn, RollbackNodes(t) PROVE CountInv'
  BY <1>37, <1>0 DEF RollbackNodes, Goto, Log, store, logs, mem
<1>38. ASSUME NEW t \in Txn, RollbackLogs(t) PROVE CountInv'
  BY <1>38, <1>0 DEF RollbackLogs, Goto, Log, store, logs, mem
<1>39. ASSUME NEW t \in Txn, Crash(t) PROVE CountInv'
  <2>1. /\ pc[t] \in Points \ {"committed", "aborted", "crashed", "recovered"}
        /\ pc[t] \notin CountGap \cup Finishing
    BY <1>39, ConstAssumption DEF Crash
  <2>2. pc[t] \in BeforeStore \cup AfterStore \cup CleaningUp \cup {"rbStores"}
    BY <2>1 DEF Points, CountGap
  <2>3. Counted(t)'
    BY <1>39, <1>0, <2>2 DEF Crash, Goto, store, logs
  <2>4. \A u \in Txn \ {t} : Counted(u)'
    BY <1>39, <1>0 DEF Crash, Goto, store, logs
  <2> QED
    BY <2>3, <2>4
<1>40. ASSUME NEW t \in Txn, CrashReserving(t) PROVE CountInv'
  BY <1>40, <1>0 DEF CrashReserving, Goto, Log, store, logs, mem
<1>41. ASSUME NEW t \in Txn, SweepRead(t) PROVE CountInv'
  BY <1>41, <1>0 DEF SweepRead, Goto, Log, store, logs, mem
<1>42. ASSUME NEW t \in Txn, SweepRestore(t) PROVE CountInv'
  BY <1>42, <1>0 DEF SweepRestore, Goto, Log, store, logs, mem
<1>43. ASSUME NEW t \in Txn, SweepRemove(t) PROVE CountInv'
  BY <1>43, <1>0 DEF SweepRemove, Goto, Log, store, logs, mem
<1>44. ASSUME NEW t \in Txn, RecoverStores(t) PROVE CountInv'
  <2>1. /\ pc[t] = "crashed" /\ pc' = [pc EXCEPT ![t] = "rcAdded"] /\ UNCHANGED <<tlog, done>>
        /\ ~Finished(tlog[t])
        /\ count' = IF tlog[t] > commitStoreInfo THEN [count EXCEPT ![t] = @ - 1] ELSE count
    BY <1>44 DEF RecoverStores, Expired, Goto, logs
  <2>2. Counted(t)'
    BY <1>0, <2>1
  <2>3. \A u \in Txn \ {t} : Counted(u)'
    BY <1>0, <2>1
  <2> QED
    BY <2>2, <2>3
<1>45. ASSUME NEW t \in Txn, NEW n \in Node, Flip(t, n) PROVE CountInv'
  BY <1>45, <1>0 DEF Flip, Goto, Log, store, logs, mem
<1>46. ASSUME NEW n \in Node, ExpireLock(n) PROVE CountInv'
  BY <1>46, <1>0 DEF ExpireLock, Goto, Log, store, logs, mem
<1>47. ASSUME NEW n \in Node, AgeHandle(n) PROVE CountInv'
  BY <1>47, <1>0 DEF AgeHandle, Goto, Log, store, logs, mem
<1>48. CASE UNCHANGED vars
  BY <1>48 DEF vars
<1>49. ASSUME NEW t \in Txn, GetUpdated(t) PROVE CountInv'
  BY <1>49, <1>0 DEF GetUpdated, Goto, Log, store, logs, mem
<1>50. ASSUME NEW t \in Txn, PutUpdated(t) PROVE CountInv'
  BY <1>50, <1>0 DEF PutUpdated, Goto, Log, store, logs, mem
<1>51. ASSUME NEW t \in Txn, GetRemoved(t) PROVE CountInv'
  BY <1>51, <1>0 DEF GetRemoved, Goto, Log, store, logs, mem
<1>52. ASSUME NEW t \in Txn, PutRemoved(t) PROVE CountInv'
  BY <1>52, <1>0 DEF PutRemoved, Goto, Log, store, logs, mem
<1>53. ASSUME NEW t \in Txn, RestoreFails(t) PROVE CountInv'
  BY <1>53, <1>0 DEF RestoreFails, Goto, Log, store, logs, mem, Abort
<1>54. ASSUME NEW t \in Txn, PlogRemoveFails(t) PROVE CountInv'
  BY <1>54, <1>0 DEF PlogRemoveFails, Goto, Log, store, logs, mem
<1>55. ASSUME NEW t \in Txn, RollbackAdded(t) PROVE CountInv'
  BY <1>55, <1>0 DEF RollbackAdded, Goto, Log, store, logs, mem
<1>56. ASSUME NEW t \in Txn, RollbackRemoved(t) PROVE CountInv'
  BY <1>56, <1>0 DEF RollbackRemoved, Goto, Log, store, logs, mem, PutUnmarked
<1>57. ASSUME NEW t \in Txn, RollbackRead(t) PROVE CountInv'
  BY <1>57, <1>0 DEF RollbackRead, Goto, Log, store, logs, mem
<1>58. ASSUME NEW t \in Txn, RollbackUpdated(t) PROVE CountInv'
  BY <1>58, <1>0 DEF RollbackUpdated, Goto, Log, store, logs, mem
<1>59. ASSUME NEW t \in Txn, RecoverObsolete(t) PROVE CountInv'
  BY <1>59, <1>0 DEF RecoverObsolete, Goto, Log, store, logs, mem, Expired
<1>60. ASSUME NEW t \in Txn, RecoverAdded(t) PROVE CountInv'
  BY <1>60, <1>0 DEF RecoverAdded, Goto, Log, store, logs, mem
<1>61. ASSUME NEW t \in Txn, RecoverRemoved(t) PROVE CountInv'
  BY <1>61, <1>0 DEF RecoverRemoved, Goto, Log, store, logs, mem, PutUnmarked
<1>62. ASSUME NEW t \in Txn, RecoverUpdated(t) PROVE CountInv'
  BY <1>62, <1>0 DEF RecoverUpdated, Goto, Log, store, logs, mem
<1>63. ASSUME NEW t \in Txn, RecoverLogs(t) PROVE CountInv'
  BY <1>63, <1>0 DEF RecoverLogs, Goto, Log, store, logs, mem
<1> QED
  BY <1>1, <1>2, <1>3, <1>4, <1>5, <1>6, <1>7, <1>8, <1>9, <1>10, <1>11, <1>12, <1>13,
    <1>14, <1>15, <1>16, <1>17, <1>18, <1>19, <1>20, <1>21, <1>22, <1>23, <1>24, <1>25,
    <1>26, <1>27, <1>28, <1>29, <1>30, <1>31, <1>32, <1>33, <1>34, <1>35, <1>36, <1>37,
    <1>38, <1>39, <1>40, <1>41, <1>42, <1>43, <1>44, <1>45, <1>46, <1>47, <1>48, <1>49,
    <1>50, <1>51, <1>52, <1>53, <1>54, <1>55, <1>56, <1>57, <1>58, <1>59, <1>60, <1>61,
    <1>62, <1>63 DEF
    Next, Step, Phase1, Phase2, Rollback, Recovery

\* The store's count is what the committed transactions made it, for any number of them,
\* their retries, timeouts, failed phases 2, lapsed locks and recoveries, in whichever order
\* the sweeps come.
THEOREM CountConsistentHolds ==
  ASSUME CrashAt \cap (CountGap \cup Finishing) = {}
  PROVE  Spec => []CountConsistent
<1>1. Init => CountInv
  BY DEF Init, CountInv, Counted, Applied, BeforeStore, AfterStore, Finishing, CleaningUp,
    Finished, commitStoreInfo, deleteObsoleteEntries
<1>2. TypeOK /\ CountInv /\ [Next]_vars => CountInv'
  BY CountStep
<1>3. CountInv => CountConsistent
  <2>1. ASSUME NEW t \in Txn, Counted(t), pc[t] \in Ended, tlog[t] = 0
        PROVE  count[t] = IF t \in done THEN 1 ELSE 0
    BY <2>1 DEF Counted, Applied, Ended, Dead, AfterStore, Finishing, CleaningUp, Finished,
      commitStoreInfo, deleteObsoleteEntries
  <2> QED
    BY <2>1 DEF CountInv, CountConsistent
<1> QED
  BY <1>1, <1>2, <1>3, TypeCorrect, PTL DEF Spec
=============================================================================
