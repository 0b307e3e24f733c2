----------------------------- MODULE CommitProofs -----------------------------
(***************************************************************************)
(* What the two-phase commit promises, for any transactions, nodes, number *)
(* of attempts and interleaving: committed updates are not lost, nothing   *)
(* uncommitted stays visible, every node can be read, removed nodes stay   *)
(* removed, no blob is left over, and the whole implements AtomicCommit.   *)
(***************************************************************************)
EXTENDS TwoPhaseCommitProofs

\* The theorems' assumptions.  Processes may die anywhere but while the finalised handles
\* are written and until the log says so; the priority log of a dead transaction is
\* restored first, and only its; nobody writes a handle that a recovery has read and is to
\* write back; locks lapse under the dead only; the writes of phase 2 succeed.  The code
\* enforces none of them, and without them the properties are violated (README, section 3).
Orderly ==
  /\ CrashAt \cap {"flip", "restore", "plogRemove", "unlock", "logObsolete"} = {}
  /\ SweepFirst /\ ~SweepLive /\ Undisturbed
  /\ LapseAt = {} /\ FailAt = {}

\* No two transactions remove the same node: the second would pass over it as already gone.
OneRemover == \A t, u \in Txn : t # u => Removes[t] \cap Removes[u] = {}

-----------------------------------------------------------------------------
(* What the operations on a handle leave alone. *)

\* Reserving and undoing keep the active ID and the version; marking keeps the slots too;
\* activating swaps the slots.
LEMMA HandleFacts ==
  ASSUME NEW h \in Handles, NEW id \in PhysID
  PROVE  /\ GetActiveID(Reserve(h, id)) = GetActiveID(h)
         /\ GetInActiveID(Reserve(h, id)) = id
         /\ Reserve(h, id).version = h.version /\ ~Reserve(h, id).deleted
         /\ GetActiveID(Unreserve(h)) = GetActiveID(h)
         /\ GetInActiveID(Unreserve(h)) = Nil
         /\ Unreserve(h).version = h.version
         /\ GetActiveID(Activate(h)) = GetInActiveID(h)
         /\ GetInActiveID(Activate(h)) = GetActiveID(h)
         /\ Activate(h).version = h.version + 1 /\ (Activate(h).deleted <=> h.deleted)
         /\ GetActiveID(Touch(h)) = GetActiveID(h)
         /\ GetInActiveID(Touch(h)) = GetInActiveID(h)
         /\ Touch(h).version = h.version + 1 /\ (Touch(h).deleted <=> h.deleted)
         /\ Touch(h).wip = "none"
         /\ GetActiveID(MarkDeleted(h)) = GetActiveID(h)
         /\ GetInActiveID(MarkDeleted(h)) = GetInActiveID(h)
         /\ MarkDeleted(h).version = h.version
         /\ MarkDeleted(h).deleted /\ MarkDeleted(h).wip = "fresh"
         /\ GetActiveID(Unmark(h)) = GetActiveID(h)
         /\ GetInActiveID(Unmark(h)) = GetInActiveID(h)
         /\ Unmark(h).version = h.version
         /\ ~h.deleted => Unmark(h) = [h EXCEPT !.wip = "none"]
<1> USE DEF Handles, HandleOf
<1>1. /\ GetActiveID(Reserve(h, id)) = GetActiveID(h)
      /\ GetInActiveID(Reserve(h, id)) = id
      /\ Reserve(h, id).version = h.version /\ ~Reserve(h, id).deleted
  <2> DEFINE u == [h EXCEPT !.deleted = FALSE]
             r == IF IsAandBinUse(u) THEN ClearInactiveID(u) ELSE u
  <2>1. /\ u \in Handles /\ GetActiveID(u) = GetActiveID(h)
        /\ u.version = h.version /\ ~u.deleted
    BY DEF GetActiveID
  <2>2. /\ r \in Handles /\ GetActiveID(r) = GetActiveID(h)
        /\ r.version = h.version /\ ~r.deleted
    BY <2>1, Nil \in PhysID DEF ClearInactiveID, GetActiveID, PhysID, Timestamp
  <2>3. Reserve(h, id) = AllocateID(r, id)
    BY DEF Reserve
  <2> HIDE DEF r
  <2> QED
    BY <2>2, <2>3 DEF AllocateID, GetActiveID, GetInActiveID
<1>2. /\ GetActiveID(Unreserve(h)) = GetActiveID(h)
      /\ GetInActiveID(Unreserve(h)) = Nil
      /\ Unreserve(h).version = h.version
  BY DEF Unreserve, ClearInactiveID, GetActiveID, GetInActiveID
<1>3. /\ GetActiveID(Activate(h)) = GetInActiveID(h)
      /\ GetInActiveID(Activate(h)) = GetActiveID(h)
      /\ Activate(h).version = h.version + 1 /\ (Activate(h).deleted <=> h.deleted)
  BY DEF Activate, FlipActiveID, GetActiveID, GetInActiveID
<1>4. /\ GetActiveID(Touch(h)) = GetActiveID(h)
      /\ GetInActiveID(Touch(h)) = GetInActiveID(h)
      /\ Touch(h).version = h.version + 1 /\ (Touch(h).deleted <=> h.deleted)
      /\ Touch(h).wip = "none"
  BY DEF Touch, GetActiveID, GetInActiveID
<1>5. /\ GetActiveID(MarkDeleted(h)) = GetActiveID(h)
      /\ GetInActiveID(MarkDeleted(h)) = GetInActiveID(h)
      /\ MarkDeleted(h).version = h.version
      /\ MarkDeleted(h).deleted /\ MarkDeleted(h).wip = "fresh"
  BY DEF MarkDeleted, GetActiveID, GetInActiveID
<1>6. /\ GetActiveID(Unmark(h)) = GetActiveID(h)
      /\ GetInActiveID(Unmark(h)) = GetInActiveID(h)
      /\ Unmark(h).version = h.version
  BY DEF Unmark, GetActiveID, GetInActiveID
<1>7. ~h.deleted => Unmark(h) = [h EXCEPT !.wip = "none"]
  <2>1. ~h.deleted => [h EXCEPT !.deleted = FALSE, !.wip = "none"] = [h EXCEPT !.wip = "none"]
    OBVIOUS
  <2>2. ~h.deleted /\ h.wip = "none" => h = [h EXCEPT !.wip = "none"]
    OBVIOUS
  <2> QED
    BY <2>1, <2>2 DEF Unmark
<1> QED
  BY <1>1, <1>2, <1>3, <1>4, <1>5, <1>6, <1>7

\* The same handle but for its timestamp.
LikeHandle(h, g) == h = [g EXCEPT !.wip = h.wip]

\* It has the same slots, version and mark.
LEMMA LikeFacts ==
  ASSUME NEW h \in Handles, NEW g \in Handles, LikeHandle(h, g)
  PROVE  /\ GetActiveID(h) = GetActiveID(g) /\ GetInActiveID(h) = GetInActiveID(g)
         /\ h.version = g.version /\ (h.deleted <=> g.deleted)
         /\ LikeHandle(g, h)
<1> USE DEF Handles, HandleOf, LikeHandle
<1>1. /\ h.a = g.a /\ h.b = g.b /\ h.isB = g.isB /\ h.version = g.version /\ h.deleted = g.deleted
  OBVIOUS
<1>2. LikeHandle(g, h)
  BY <1>1
<1> QED
  BY <1>1, <1>2 DEF GetActiveID, GetInActiveID

-----------------------------------------------------------------------------
(* The invariant: points of a transaction. *)

Before   == {"read", "verify", "lock", "refetch", "dual", "fetched"}
Working  == {"stage", "logUpdated", "logRemoved", "remove", "logAdded", "add", "addBlobs",
             "logStore", "store", "logBefore", "plog", "check", "phase1", "flip"}
Marking  == {"logAdded", "add", "addBlobs", "logStore", "store", "logBefore", "plog",
             "check", "phase1", "flip", "plogRemove"}
Adding   == {"addBlobs", "logStore", "store", "logBefore", "plog", "check", "phase1",
             "flip", "plogRemove"}
Cleaning == {"unlock", "logObsolete", "obsolete", "removeLogs"}

\* A rollback that still has the reserved slots to clear.
Undoing(t) == pc[t] \in {"rbStores", "rbNodes"} /\ tlog[t] > commitUpdatedNodes

\* From the reservation of the slots until they are finalised or cleared.
Reserved(t) == pc[t] \in Working \/ Undoing(t)

\* The finalised handle of n is yet to be written; it has been.
Waiting(t, n) == pc[t] = "flip" => n \in todo[t]
Flipped(t, n) ==
  \/ t \in done
  \/ pc[t] = "plogRemove"
  \/ pc[t] = "flip" /\ n \notin todo[t]

\* The transactions whose update of n is visible, and the IDs n has had.
Flippers(n) == {u \in Txn : n \in Updates[u] /\ Flipped(u, n)}
OldID(n, id) == id = Base \/ id \in Flippers(n) \X Nat

-----------------------------------------------------------------------------
(* The invariant: what holds of each transaction. *)

\* What its log says at each point.
Logged(t) ==
  /\ pc[t] \in Before => tlog[t] <= lockTrackedItems
  /\ pc[t] \in {"update", "stage", "logUpdated"} => tlog[t] = areFetchedItemsIntact
  /\ pc[t] = "logRemoved" => tlog[t] = commitUpdatedNodes
  /\ pc[t] \in {"remove", "logAdded"} => tlog[t] = commitRemovedNodes
  /\ pc[t] \in {"add", "addBlobs", "logStore"} => tlog[t] = commitAddedNodes
  /\ pc[t] \in {"store", "logBefore"} => tlog[t] = commitStoreInfo
  /\ pc[t] \in {"plog", "check", "phase1"} => tlog[t] = beforeFinalize
  /\ pc[t] \in {"flip", "plogRemove", "unlock", "logObsolete"} => tlog[t] = finalizeCommit
  /\ pc[t] \in {"obsolete", "removeLogs"} => tlog[t] = deleteObsoleteEntries
  /\ pc[t] \in RollingBack => tlog[t] <= beforeFinalize
  /\ pc[t] \in {"crashed", "rcLogs"} /\ t \in done => tlog[t] = deleteObsoleteEntries
  /\ pc[t] \in Dead /\ t \notin done => tlog[t] <= beforeFinalize
  /\ pc[t] \in {"rcAdded", "rcRemoved", "rcUpdated"} => t \notin done
  /\ pc[t] \notin {"reserve", "mark", "restore", "rbRemoved", "rbRead", "rbUpdated"}

\* When it is past the point of no return.
Decided(t) ==
  /\ t \in done => pc[t] \in Cleaning \cup {"committed"} \cup Dead
  /\ pc[t] \in Cleaning => t \in done

\* When its pre-images are in the priority log, or being swept.
PreImages(t) ==
  /\ t \in plog => /\ t \notin done /\ Staged(t) # {}
                   /\ pc[t] \in {"check", "phase1", "flip", "plogRemove", "rbStores", "crashed"}
                   /\ pc[t] = "rbStores" => tlog[t] = beforeFinalize
  /\ pc[t] \in {"check", "phase1"} /\ Staged(t) # {} => t \in plog
  /\ pc[t] \in {"flip", "plogRemove"} => t \in plog
  /\ \A x \in {"taken", "restored"} : sweep = <<x, t>> => t \in plog /\ pc[t] = "crashed"

\* It owns the locks it relies on.
Guarded(t) == pc[t] \in Critical \/ Undoing(t)
Locked(t) ==
  /\ Guarded(t) => (keys[t] \/ W(t) = {}) /\ \A n \in W(t) : lock[n] = t
  /\ pc[t] = "lock" => stale[t] \/ keys[t] \/ W(t) = {}

\* What the handles it staged look like: of the version it read, with its own ID in the
\* inactive slot of an updated node, marked if it removes the node.
StagedAs(t, n) ==
  /\ upd[t][n].version = rd[t][n].ver
  /\ OldID(n, GetActiveID(upd[t][n]))
  /\ GetActiveID(upd[t][n]) # GetInActiveID(upd[t][n])
  /\ n \in Updates[t] => ~upd[t][n].deleted
  /\ n \in Updates[t] /\ ~Undoing(t) => GetInActiveID(upd[t][n]) = NewID(t)
  /\ n \in Removes[t] => upd[t][n].deleted /\ upd[t][n].wip = "fresh"
Staging(t) ==
  Reserved(t) \/ pc[t] = "plogRemove" =>
    /\ Updates[t] \subseteq Staged(t)
    /\ \A n \in Staged(t) : StagedAs(t, n)
    /\ pc[t] \in Marking => Removes[t] \subseteq Staged(t)

\* The registry has the staged handles, and the finalised ones once they are written.
InPlace(t) ==
  /\ Reserved(t) => \A n \in Staged(t) : Waiting(t, n) => registry[n] = upd[t][n]
  /\ pc[t] \in {"flip", "plogRemove"} =>
       \A n \in Staged(t) : Flipped(t, n) => registry[n] = Final(t, n)

\* After the commit the blob it is about to delete is nobody's active one.
Superseded(t) ==
  t \in done /\ pc[t] \notin {"committed", "recovered"} =>
    \A n \in Staged(t) :
      /\ OldID(n, GetActiveID(upd[t][n]))
      /\ n \in Updates[t] /\ Registered(n) => GetActiveID(registry[n]) # GetActiveID(upd[t][n])

\* Until it is swept, nobody touches what a dead transaction's priority log covers.
Covered(t) ==
  t \in plog /\ pc[t] = "crashed" =>
    \A n \in Staged(t) :
      /\ lock[n] \in {t, Free}
      /\ Registered(n) /\ LikeHandle(registry[n], upd[t][n])
      /\ n \in Updates[t] => ~upd[t][n].deleted

\* The new blobs wait for their handles to be finalised.
NewBlobs(t) ==
  pc[t] \in Working \ {"stage"} =>
    \A n \in Updates[t] : Waiting(t, n) =>
      [node |-> n, id |-> NewID(t), seen |-> rd[t][n].seen \cup {t}] \in blobs

\* What it read of a node is old, or the present content.
ReadOld(t) ==
  \A n \in Existing : rd[t][n] # NotRead /\ Registered(n) =>
    /\ rd[t][n].ver <= registry[n].version
    /\ rd[t][n].ver = registry[n].version => rd[t][n].seen = SeenAt(n)

\* What it removed stays removed, and nothing it had not read went with it.
Removed(t) ==
  /\ t \in done => \A n \in Removes[t] :
       Registered(n) => /\ registry[n].deleted /\ registry[n].wip = "none"
                        /\ n \in Staged(t) /\ GetActiveID(registry[n]) = GetActiveID(upd[t][n])
  /\ t \in done \/ pc[t] \in {"flip", "plogRemove"} =>
       \A n \in Removes[t] : Flippers(n) \subseteq rd[t][n].seen

\* The nodes it creates are there from AddNodes on, with their blobs, or are taken back.
NewNode == [NewHandle(Base) EXCEPT !.version = 1]
Added(t) ==
  \A n \in Adds[t] :
    /\ Registered(n) =>
         /\ registry[n] = NewNode
         /\ \/ pc[t] \in Adding \cup Dead
            \/ t \in done
            \/ pc[t] \in {"rbStores", "rbNodes"} /\ tlog[t] > commitAddedNodes
    /\ t \in done \/ pc[t] \in Adding => Registered(n)
    /\ t \in done \/ pc[t] \in Adding \ {"addBlobs"} => HasBlob(n, Base)

Mine(t) ==
  /\ Logged(t) /\ Decided(t) /\ PreImages(t) /\ Locked(t) /\ Staging(t) /\ InPlace(t)
  /\ Superseded(t) /\ Covered(t) /\ NewBlobs(t) /\ ReadOld(t) /\ Removed(t) /\ Added(t)

-----------------------------------------------------------------------------
(* The invariant: what holds of each node and each blob. *)

\* The content of a registered node is what its flippers wrote, no more and no less.
Whole(n) ==
  /\ OldID(n, GetActiveID(registry[n]))
  /\ GetActiveID(registry[n]) # GetInActiveID(registry[n])
  /\ HasBlob(n, GetActiveID(registry[n]))
  /\ SeenAt(n) = Flippers(n)
Nodes ==
  \A n \in Existing : IF Registered(n) THEN Whole(n) ELSE \E t \in done : n \in Removes[t]

\* Whoever is in a blob is visible, or waits for this blob to become active.
SeenBy(b, u) == u \in Flippers(b.node) \/ b.id \in {u} \X Nat
Contents ==
  \A b \in blobs :
    /\ b.node \in Existing => \A u \in b.seen : SeenBy(b, u)
    /\ \A t \in Txn : b.node \in Adds[t] => b.seen = {t} /\ b.id = Base

\* A blob is active, or some live transaction will activate or delete it; those that died
\* may leave some behind.
Owns(t, b) ==
  \/ /\ b.node \in Updates[t] /\ Reserved(t) /\ Waiting(t, b.node)
     /\ b.id = GetInActiveID(upd[t][b.node])
  \/ /\ b.node \in Staged(t) /\ b.id = ObsoleteID(t, b.node)
     /\ \/ pc[t] \in {"flip", "plogRemove"} /\ Flipped(t, b.node)
        \/ t \in done /\ pc[t] \in {"unlock", "logObsolete", "obsolete"}
IsActive(b) == Registered(b.node) /\ b.id = GetActiveID(registry[b.node])
Owned(b) == IsActive(b) \/ \E t \in Txn : Owns(t, b) \/ pc[t] \in Dead
Owners == \A b \in blobs : Owned(b)

CommitInv == TypeInv /\ (\A t \in Txn : Mine(t)) /\ Nodes /\ Contents /\ Owners

-----------------------------------------------------------------------------
(* What a step leaves alone. *)

\* The transaction is not the one that moves; a sweep may begin on what it left behind.
Same(u) ==
  /\ pc'[u] = pc[u] /\ tlog'[u] = tlog[u] /\ retry'[u] = retry[u]
  /\ stale'[u] = stale[u] /\ keys'[u] = keys[u]
  /\ rd'[u] = rd[u] /\ upd'[u] = upd[u] /\ todo'[u] = todo[u]
  /\ u \in plog' <=> u \in plog
  /\ u \in done' <=> u \in done
  /\ \A x \in {"taken", "restored"} :
       sweep' = <<x, u>> => sweep = <<x, u>> \/ (u \in plog /\ pc[u] = "crashed")

\* Nobody takes the locks it relies on, or those of what its priority log covers.
KeptLocks(u) ==
  /\ Guarded(u) => \A n \in W(u) : lock[n] = u => lock'[n] = u
  /\ u \in plog /\ pc[u] = "crashed" =>
       \A n \in Staged(u) : lock[n] \in {u, Free} => lock'[n] \in {u, Free}

\* Nobody writes the handles it works on, finally marked, created or may still restore.
KeptHandles(u) ==
  /\ Reserved(u) \/ pc[u] = "plogRemove" => \A n \in W(u) : registry'[n] = registry[n]
  /\ u \in plog /\ pc[u] = "crashed" =>
       \A n \in Staged(u) : \/ registry'[n] = registry[n]
                            \/ Registered(n)' /\ LikeHandle(registry'[n], registry[n])
  /\ u \in done => \A n \in Removes[u] : registry'[n] = registry[n] \/ ~Registered(n)'
  /\ \A n \in Adds[u] : registry'[n] = registry[n]

\* Nobody deletes the blobs it staged or created.
KeptBlobs(u) ==
  /\ pc[u] \in Working => \A b \in blobs :
       b.node \in Updates[u] /\ Waiting(u, b.node) /\ b.id = NewID(u) => b \in blobs'
  /\ \A n \in Adds[u] : HasBlob(n, Base) => HasBlob(n, Base)'

\* Nobody commits an update to a node it removes.
KeptFlips(u) ==
  u \in done \/ pc[u] \in {"flip", "plogRemove"} =>
    \A n \in Removes[u] : Flippers(n)' \subseteq Flippers(n)

Beside(u) == Same(u) /\ KeptLocks(u) /\ KeptHandles(u) /\ KeptBlobs(u) /\ KeptFlips(u)

\* What is visible stays so; a version has one content; an ID that becomes active is new.
Grow == \A n \in Node : Flippers(n) \subseteq Flippers(n)'
NodeStep(n) ==
  Registered(n)' =>
    /\ Registered(n)
    /\ registry[n].version <= registry'[n].version
    /\ registry'[n].version = registry[n].version => SeenAt(n)' = SeenAt(n)
    /\ \/ GetActiveID(registry'[n]) = GetActiveID(registry[n])
       \/ ~OldID(n, GetActiveID(registry'[n]))

\* The constants, as the proofs use them.
LEMMA Consts ==
  /\ Existing \subseteq Node
  /\ \A t \in Txn : /\ Updates[t] \subseteq W(t) /\ Removes[t] \subseteq W(t)
                    /\ W(t) \subseteq Existing /\ W(t) \subseteq Node
                    /\ W(t) \subseteq Updates[t] \cup Removes[t]
                    /\ Updates[t] \cap Removes[t] = {}
                    /\ Adds[t] \subseteq Node /\ Adds[t] \cap Existing = {}
                    /\ \A u \in Txn : t # u => Adds[t] \cap Adds[u] = {}
                    /\ Fetches[t] \subseteq Existing /\ Touched(t) \subseteq Existing
  /\ \A x \in Txn \X Nat : x # Base /\ x # Nil
  /\ Base # Nil /\ Free \notin Txn /\ NoHandle \notin Handles /\ NotRead \notin Read
<1>1. Existing \subseteq Node
  BY DEF Existing
<1>2. ASSUME NEW t \in Txn
      PROVE  /\ Updates[t] \subseteq W(t) /\ Removes[t] \subseteq W(t)
             /\ W(t) \subseteq Existing /\ W(t) \subseteq Node
             /\ W(t) \subseteq Updates[t] \cup Removes[t]
             /\ Updates[t] \cap Removes[t] = {}
             /\ Adds[t] \subseteq Node /\ Adds[t] \cap Existing = {}
             /\ \A u \in Txn : t # u => Adds[t] \cap Adds[u] = {}
             /\ Fetches[t] \subseteq Existing /\ Touched(t) \subseteq Existing
  <2>1. /\ Updates[t] \subseteq W(t) /\ Removes[t] \subseteq W(t)
        /\ W(t) \subseteq Updates[t] \cup Removes[t]
    BY DEF W
  <2>2. Adds[t] \subseteq Node /\ \A u \in Txn : t # u => Adds[t] \cap Adds[u] = {}
    BY ConstAssumption
  <2>3. Updates[t] \cap Removes[t] = {} /\ Touched(t) \subseteq Existing
    BY ConstAssumption
  <2>4. Adds[t] \cap Existing = {}
    BY DEF Existing
  <2>5. W(t) \subseteq Existing /\ Fetches[t] \subseteq Existing
    BY <2>3 DEF Touched
  <2> QED
    BY <1>1, <2>1, <2>2, <2>3, <2>4, <2>5
<1>3. /\ \A x \in Txn \X Nat : x # Base /\ x # Nil
      /\ Base # Nil /\ Free \notin Txn /\ NoHandle \notin Handles /\ NotRead \notin Read
  BY ConstAssumption
<1> QED
  BY <1>1, <1>2, <1>3

\* The order of the commit functions.
LEMMA CodeOrder ==
  /\ lockTrackedItems = 2 /\ areFetchedItemsIntact = 5 /\ commitUpdatedNodes = 6
  /\ commitRemovedNodes = 7 /\ commitAddedNodes = 8 /\ commitStoreInfo = 9
  /\ beforeFinalize = 10 /\ finalizeCommit = 11 /\ deleteObsoleteEntries = 12
BY DEF lockTrackedItems, areFetchedItemsIntact, commitUpdatedNodes, commitRemovedNodes,
       commitAddedNodes, commitStoreInfo, beforeFinalize, finalizeCommit,
       deleteObsoleteEntries

\* An ID once active stays one of the node's old IDs.
LEMMA OldIDGrows ==
  ASSUME Grow, NEW n \in Node, NEW id, OldID(n, id)
  PROVE  OldID(n, id)'
BY DEF Grow, OldID

\* What a transaction read stays old, or the present content.
LEMMA ReadKeeps ==
  ASSUME TypeOK, TypeOK', NEW u \in Txn, ReadOld(u), rd'[u] = rd[u],
         \A n \in Existing : NodeStep(n)
  PROVE  ReadOld(u)'
<1> SUFFICES ASSUME NEW n \in Existing, rd[u][n] # NotRead, Registered(n)'
             PROVE  /\ rd[u][n].ver <= registry'[n].version
                    /\ rd[u][n].ver = registry'[n].version => rd[u][n].seen = SeenAt(n)'
  BY DEF ReadOld
<1>0. n \in Node
  BY Consts
<1>1. /\ Registered(n) /\ registry[n].version <= registry'[n].version
      /\ registry'[n].version = registry[n].version => SeenAt(n)' = SeenAt(n)
  BY DEF NodeStep
<1>2. /\ rd[u][n].ver <= registry[n].version
      /\ rd[u][n].ver = registry[n].version => rd[u][n].seen = SeenAt(n)
  BY <1>1 DEF ReadOld
<1>3. rd[u][n].ver \in Nat /\ registry[n].version \in Nat /\ registry'[n].version \in Nat
  BY <1>0, <1>1 DEF TypeOK, Registered, Read, Handles, HandleOf
<1> QED
  BY <1>1, <1>2, <1>3

\* A transaction keeps what the invariant says of it when the step is another's.
LEMMA BesideKeeps ==
  ASSUME TypeOK, TypeOK', NEW u \in Txn, Mine(u), Beside(u), Grow,
         \A n \in Existing : NodeStep(n)
  PROVE  Mine(u)'
<1>0. /\ \A n \in W(u) : n \in Node /\ n \in Existing
      /\ Updates[u] \subseteq W(u) /\ Removes[u] \subseteq W(u)
      /\ Existing \subseteq Node
  BY Consts
<1>1. /\ pc'[u] = pc[u] /\ tlog'[u] = tlog[u] /\ retry'[u] = retry[u]
      /\ stale'[u] = stale[u] /\ keys'[u] = keys[u]
      /\ rd'[u] = rd[u] /\ upd'[u] = upd[u] /\ todo'[u] = todo[u]
      /\ u \in plog' <=> u \in plog
      /\ u \in done' <=> u \in done
      /\ \A x \in {"taken", "restored"} :
           sweep' = <<x, u>> => sweep = <<x, u>> \/ (u \in plog /\ pc[u] = "crashed")
  BY DEF Beside, Same
<1>2. /\ Staged(u)' = Staged(u) /\ NewID(u)' = NewID(u) /\ Undoing(u)' = Undoing(u)
      /\ Reserved(u)' = Reserved(u) /\ Guarded(u)' = Guarded(u)
      /\ \A n : Waiting(u, n)' = Waiting(u, n) /\ Flipped(u, n)' = Flipped(u, n)
      /\ \A n : Final(u, n)' = Final(u, n)
  BY <1>1 DEF Staged, NewID, Undoing, Reserved, Guarded, Waiting, Flipped, Final
<1>3. Logged(u)'
  BY <1>1 DEF Mine, Logged
<1>4. Decided(u)'
  BY <1>1 DEF Mine, Decided
<1>5. PreImages(u)'
  BY <1>1, <1>2 DEF Mine, PreImages
<1>6. Locked(u)'
  BY <1>1, <1>2 DEF Mine, Locked, Beside, KeptLocks
<1>7. Staging(u)'
  <2>1. ASSUME NEW n \in Staged(u), StagedAs(u, n) PROVE StagedAs(u, n)'
    <3>1. n \in Node
      BY <1>0 DEF Staged
    <3>2. OldID(n, GetActiveID(upd[u][n]))'
      BY <2>1, <3>1, OldIDGrows, <1>1 DEF StagedAs
    <3> QED
      BY <1>1, <1>2, <2>1, <3>2 DEF StagedAs
  <2> QED
    BY <1>1, <1>2, <2>1 DEF Mine, Staging
<1>8. InPlace(u)'
  BY <1>0, <1>1, <1>2 DEF Mine, InPlace, Beside, KeptHandles, Reserved, Working, Staged
<1>9. Superseded(u)'
  <2> SUFFICES ASSUME u \in done, pc[u] \notin {"committed", "recovered"}, NEW n \in Staged(u)
               PROVE  /\ OldID(n, GetActiveID(upd[u][n]))'
                      /\ n \in Updates[u] /\ Registered(n)' =>
                           GetActiveID(registry'[n]) # GetActiveID(upd[u][n])
    BY <1>1, <1>2 DEF Superseded
  <2>1. n \in Node /\ n \in Existing
    BY <1>0 DEF Staged
  <2>2. /\ OldID(n, GetActiveID(upd[u][n]))
        /\ n \in Updates[u] /\ Registered(n) => GetActiveID(registry[n]) # GetActiveID(upd[u][n])
    BY DEF Mine, Superseded
  <2>3. OldID(n, GetActiveID(upd[u][n]))'
    BY <2>1, <2>2, OldIDGrows, <1>1
  <2> QED
    BY <2>1, <2>2, <2>3 DEF NodeStep
<1>10. Covered(u)'
  <2> SUFFICES ASSUME u \in plog, pc[u] = "crashed", NEW n \in Staged(u)
               PROVE  /\ lock'[n] \in {u, Free}
                      /\ Registered(n)' /\ LikeHandle(registry'[n], upd[u][n])
                      /\ n \in Updates[u] => ~upd[u][n].deleted
    BY <1>1, <1>2 DEF Covered
  <2>1. /\ lock[n] \in {u, Free}
        /\ Registered(n) /\ LikeHandle(registry[n], upd[u][n])
        /\ n \in Updates[u] => ~upd[u][n].deleted
    BY DEF Mine, Covered
  <2>2. lock'[n] \in {u, Free}
    BY <2>1 DEF Beside, KeptLocks
  <2>3. n \in Node
    BY <1>0 DEF Staged
  <2>4. Registered(n)' /\ LikeHandle(registry'[n], upd[u][n])
    <3>1. CASE registry'[n] = registry[n]
      BY <3>1, <2>1 DEF Registered
    <3>2. CASE Registered(n)' /\ LikeHandle(registry'[n], registry[n])
      <4>1. registry'[n] \in Handles /\ registry[n] \in Handles /\ upd[u][n] \in Handles
        BY <2>1, <2>3, <3>2 DEF TypeOK, Registered, Staged
      <4> QED
        BY <4>1, <2>1, <3>2 DEF LikeHandle, Handles, HandleOf
    <3> QED
      BY <3>1, <3>2 DEF Beside, KeptHandles
  <2> QED
    BY <2>1, <2>2, <2>4
<1>11. NewBlobs(u)'
  <2> SUFFICES ASSUME pc[u] \in Working \ {"stage"}, NEW n \in Updates[u], Waiting(u, n)
               PROVE  [node |-> n, id |-> NewID(u), seen |-> rd[u][n].seen \cup {u}] \in blobs'
    BY <1>1, <1>2 DEF NewBlobs
  <2> DEFINE b == [node |-> n, id |-> NewID(u), seen |-> rd[u][n].seen \cup {u}]
  <2>1. b \in blobs
    BY DEF Mine, NewBlobs
  <2>2. b.node = n /\ b.id = NewID(u)
    OBVIOUS
  <2> HIDE DEF b
  <2>3. b \in blobs'
    BY <2>1, <2>2 DEF Beside, KeptBlobs
  <2> QED
    BY <2>3 DEF b
<1>12. ReadOld(u)'
  BY <1>1, ReadKeeps DEF Mine
<1>13. Removed(u)'
  <2>1. ASSUME u \in done, NEW n \in Removes[u], Registered(n)'
        PROVE  /\ registry'[n].deleted /\ registry'[n].wip = "none"
               /\ n \in Staged(u) /\ GetActiveID(registry'[n]) = GetActiveID(upd[u][n])
    <3>1. registry'[n] = registry[n]
      BY <2>1 DEF Beside, KeptHandles
    <3>2. Registered(n)
      BY <2>1, <3>1 DEF Registered
    <3> QED
      BY <2>1, <3>1, <3>2 DEF Mine, Removed
  <2>2. ASSUME u \in done \/ pc[u] \in {"flip", "plogRemove"}, NEW n \in Removes[u]
        PROVE  Flippers(n)' \subseteq rd[u][n].seen
    <3>1. Flippers(n) \subseteq rd[u][n].seen
      BY <2>2 DEF Mine, Removed
    <3>2. Flippers(n)' \subseteq Flippers(n)
      BY <2>2 DEF Beside, KeptFlips
    <3> QED
      BY <3>1, <3>2
  <2> QED
    BY <1>1, <1>2, <2>1, <2>2 DEF Removed
<1>14. Added(u)'
  <2> SUFFICES ASSUME NEW n \in Adds[u]
               PROVE  /\ Registered(n)' =>
                           /\ registry'[n] = NewNode
                           /\ \/ pc[u] \in Adding \cup Dead
                              \/ u \in done
                              \/ pc[u] \in {"rbStores", "rbNodes"} /\ tlog[u] > commitAddedNodes
                      /\ u \in done \/ pc[u] \in Adding => Registered(n)'
                      /\ u \in done \/ pc[u] \in Adding \ {"addBlobs"} => HasBlob(n, Base)'
    BY <1>1 DEF Added, NewNode
  <2>1. registry'[n] = registry[n] /\ (HasBlob(n, Base) => HasBlob(n, Base)')
    BY DEF Beside, KeptHandles, KeptBlobs
  <2>2. Registered(n)' = Registered(n)
    BY <2>1 DEF Registered
  <2> QED
    BY <2>1, <2>2 DEF Mine, Added
<1> QED
  BY <1>3, <1>4, <1>5, <1>6, <1>7, <1>8, <1>9, <1>10, <1>11, <1>12, <1>13, <1>14 DEF Mine

-----------------------------------------------------------------------------
(* Steps that change nothing visible. *)

\* The node keeps its active ID, its version and the blob behind it.
Untouched(n) ==
  /\ Registered(n)' /\ GetActiveID(registry'[n]) = GetActiveID(registry[n])
  /\ registry'[n].version = registry[n].version
  /\ GetInActiveID(registry'[n]) # GetActiveID(registry[n])
  /\ \A b : b.node = n /\ b.id = GetActiveID(registry[n]) => (b \in blobs' <=> b \in blobs)

\* Every node is untouched, or goes because its removal committed.
Calm ==
  /\ done \subseteq done'
  /\ \A n \in Node : Flippers(n)' = Flippers(n)
  /\ \A n \in Existing :
       /\ Registered(n) => \/ Untouched(n)
                           \/ ~Registered(n)' /\ \E w \in done : n \in Removes[w]
       /\ ~Registered(n) => ~Registered(n)'

\* An untouched node has the content it had.
LEMMA SameSeen ==
  ASSUME NEW n \in Node, Untouched(n)
  PROVE  /\ SeenAt(n)' = SeenAt(n)
         /\ HasBlob(n, GetActiveID(registry[n])) => HasBlob(n, GetActiveID(registry[n]))'
<1> DEFINE a == GetActiveID(registry[n])
           B == {c \in blobs : c.node = n /\ c.id = a}
           C == {c \in blobs' : c.node = n /\ c.id = a}
<1>1. B = C
  BY DEF Untouched
<1>2. SeenAt(n) = UNION {b.seen : b \in B}
  BY DEF SeenAt, SeenIn
<1>3. SeenAt(n)' = UNION {b.seen : b \in C}
  BY DEF SeenAt, SeenIn, Untouched
<1>4. HasBlob(n, a) => HasBlob(n, a)'
  BY <1>1 DEF HasBlob, Untouched
<1> HIDE DEF B, C
<1> QED
  BY <1>1, <1>2, <1>3, <1>4

\* A calm step leaves every node with the content it had.
LEMMA CalmNodes ==
  ASSUME CommitInv, TypeOK', Calm
  PROVE  Nodes' /\ Grow /\ \A n \in Existing : NodeStep(n)
<1>0. Existing \subseteq Node
  BY Consts
<1>1. Grow
  BY DEF Calm, Grow
<1>2. ASSUME NEW n \in Existing
      PROVE  /\ NodeStep(n)
             /\ IF Registered(n)' THEN Whole(n)' ELSE \E t \in done' : n \in Removes[t]
  <2>0. n \in Node
    BY <1>0
  <2>1. CASE Registered(n) /\ Untouched(n)
    <3>1. Whole(n)
      BY <2>1 DEF CommitInv, Nodes
    <3>2. OldID(n, GetActiveID(registry[n]))'
      <4>1. OldID(n, GetActiveID(registry[n]))
        BY <3>1 DEF Whole
      <4>2. GetActiveID(registry'[n]) = GetActiveID(registry[n])
        BY <2>1 DEF Untouched
      <4>3. Flippers(n)' = Flippers(n)
        BY <2>0 DEF Calm
      <4> QED
        BY <4>1, <4>2, <4>3 DEF OldID
    <3>3. Whole(n)'
      BY <2>0, <2>1, <3>1, <3>2, SameSeen DEF Whole, Untouched, Calm
    <3>4. registry[n].version \in Nat
      BY <2>0, <2>1 DEF CommitInv, TypeInv, TypeOK, Registered, Handles, HandleOf
    <3>5. NodeStep(n)
      BY <2>0, <2>1, <3>4, SameSeen DEF NodeStep, Untouched
    <3> QED
      BY <2>1, <3>3, <3>5 DEF Untouched
  <2>2. CASE Registered(n) /\ ~Registered(n)' /\ \E w \in done : n \in Removes[w]
    BY <2>2 DEF NodeStep, Calm
  <2>3. CASE ~Registered(n)
    BY <2>3 DEF NodeStep, Calm, CommitInv, Nodes
  <2> QED
    BY <2>1, <2>2, <2>3 DEF Calm
<1>3. Nodes'
  BY <1>2 DEF Nodes
<1> QED
  BY <1>1, <1>2, <1>3

\* Deleting blobs is no threat to what the others say.
LEMMA FewerContents ==
  ASSUME CommitInv, Grow, blobs' \subseteq blobs
  PROVE  Contents'
<1> SUFFICES ASSUME NEW b \in blobs'
             PROVE  /\ b.node \in Existing => \A u \in b.seen : SeenBy(b, u)'
                    /\ \A t \in Txn : b.node \in Adds[t] => b.seen = {t} /\ b.id = Base
  BY DEF Contents
<1>1. /\ b.node \in Existing => \A u \in b.seen : SeenBy(b, u)
      /\ \A t \in Txn : b.node \in Adds[t] => b.seen = {t} /\ b.id = Base
  BY DEF CommitInv, Contents
<1>2. Existing \subseteq Node
  BY Consts
<1>3. ASSUME b.node \in Existing, NEW u, SeenBy(b, u) PROVE SeenBy(b, u)'
  BY <1>2, <1>3 DEF SeenBy, Grow
<1> QED
  BY <1>1, <1>3

\* The updates that are visible, when only t moves.
LEMMA FlippersStep ==
  ASSUME NEW t \in Txn, \A u \in Txn \ {t} : Same(u), NEW n \in Node,
         n \in Updates[t] => (Flipped(t, n)' <=> Flipped(t, n))
  PROVE  Flippers(n)' = Flippers(n)
<1>1. \A u \in Txn \ {t} : Flipped(u, n)' <=> Flipped(u, n)
  BY DEF Same, Flipped
<1> QED
  BY <1>1 DEF Flippers

\* A transaction that does not move owns the same blobs.
LEMMA SameOwns ==
  ASSUME NEW u \in Txn, Same(u), NEW b
  PROVE  Owns(u, b)' <=> Owns(u, b)
BY DEF Same, Owns, Reserved, Undoing, Waiting, Flipped, ObsoleteID, Final, Staged

\* Every blob keeps an owner if those that t gave up, or that became inactive, do.
LEMMA OwnersStep ==
  ASSUME CommitInv, NEW t \in Txn, \A u \in Txn \ {t} : Same(u),
         pc[t] \in Dead => pc'[t] \in Dead,
         \A b \in blobs' \ blobs : Owned(b)',
         \A b \in blobs \cap blobs' : IsActive(b) \/ Owns(t, b) => Owned(b)'
  PROVE  Owners'
<1> SUFFICES ASSUME NEW b \in blobs', b \in blobs PROVE Owned(b)'
  BY DEF Owners
<1>1. Owned(b)
  BY DEF CommitInv, Owners
<1>2. CASE IsActive(b)
  BY <1>2
<1>3. ASSUME NEW u \in Txn, Owns(u, b) PROVE Owned(b)'
  <2>1. CASE u = t
    BY <1>3, <2>1
  <2>2. CASE u # t
    BY <1>3, <2>2, SameOwns DEF Owned
  <2> QED
    BY <2>1, <2>2
<1>4. ASSUME NEW u \in Txn, pc[u] \in Dead PROVE Owned(b)'
  <2>1. pc'[u] \in Dead
    BY <1>4 DEF Same
  <2> QED
    BY <2>1 DEF Owned
<1> QED
  BY <1>1, <1>2, <1>3, <1>4 DEF Owned

\* Locks move from free to t, where no dead transaction's priority log forbids, and back.
LockMove(t) ==
  \A n \in Node : \/ lock'[n] = lock[n]
                  \/ lock[n] = t /\ lock'[n] = Free
                  \/ lock[n] = Free /\ lock'[n] = t /\ ~Unswept(n)

\* Such a move takes no lock from another transaction.
LEMMA LockMoveKeeps ==
  ASSUME NEW t \in Txn, NEW u \in Txn \ {t}, LockMove(t)
  PROVE  KeptLocks(u)
<1>0. Free \notin Txn /\ W(u) \subseteq Node /\ Staged(u) \subseteq W(u)
  BY Consts DEF Staged
<1>1. ASSUME NEW n \in W(u), lock[n] = u PROVE lock'[n] = u
  BY <1>0, <1>1 DEF LockMove
<1>2. ASSUME u \in plog, pc[u] = "crashed", NEW n \in Staged(u), lock[n] \in {u, Free}
      PROVE  lock'[n] \in {u, Free}
  <2>1. Unswept(n)
    BY <1>0, <1>2 DEF Unswept, Dead
  <2>2. n \in Node
    BY <1>0
  <2> QED
    BY <1>0, <1>2, <2>1, <2>2 DEF LockMove
<1> QED
  BY <1>1, <1>2 DEF KeptLocks

\* What one step of t has to show.
LEMMA Assemble ==
  ASSUME CommitInv, TypeInv', NEW t \in Txn, \A u \in Txn \ {t} : Beside(u),
         Grow, \A n \in Existing : NodeStep(n), Mine(t)', Nodes', Contents', Owners'
  PROVE  CommitInv'
<1>1. ASSUME NEW u \in Txn PROVE Mine(u)'
  <2>1. CASE u = t
    BY <2>1
  <2>2. CASE u # t
    <3>1. TypeOK /\ TypeOK' /\ Mine(u) /\ Beside(u)
      BY <2>2 DEF CommitInv, TypeInv
    <3> QED
      BY <3>1, BesideKeeps
  <2> QED
    BY <2>1, <2>2
<1> QED
  BY <1>1 DEF CommitInv

\* A registered node has its active ID and nothing else in its active slot.
LEMMA Slots ==
  ASSUME CommitInv, NEW n \in Existing, Registered(n)
  PROVE  /\ Whole(n) /\ registry[n] \in Handles /\ registry[n].version \in Nat
         /\ GetActiveID(registry[n]) # Nil
         /\ GetInActiveID(registry[n]) # GetActiveID(registry[n])
<1>1. Whole(n) /\ n \in Node
  BY Consts DEF CommitInv, Nodes
<1>2. registry[n] \in Handles
  BY <1>1 DEF CommitInv, TypeInv, TypeOK, Registered
<1>3. registry[n].version \in Nat
  BY <1>2 DEF Handles, HandleOf
<1>4. GetActiveID(registry[n]) # Nil
  <2>1. Flippers(n) \subseteq Txn
    BY DEF Flippers
  <2> QED
    BY <1>1, <2>1, Consts DEF Whole, OldID
<1> QED
  BY <1>1, <1>2, <1>3, <1>4 DEF Whole

\* A step that touches neither the registry nor the blobs nor what is visible.
LEMMA Quiet ==
  ASSUME CommitInv, TypeInv', NEW t \in Txn, \A u \in Txn \ {t} : Same(u),
         registry' = registry, blobs' = blobs, done \subseteq done',
         \A n \in Updates[t] : Flipped(t, n)' <=> Flipped(t, n),
         LockMove(t), Mine(t)', pc[t] \in Dead => pc'[t] \in Dead,
         \A b \in blobs : Owns(t, b) => Owned(b)'
  PROVE  CommitInv'
<1>0. \A n \in Node : Flippers(n)' = Flippers(n)
  BY FlippersStep
<1>1. Calm
  <2>1. ASSUME NEW n \in Existing, Registered(n) PROVE Untouched(n)
    BY <2>1, Slots DEF Untouched, Registered
  <2> QED
    BY <1>0, <2>1 DEF Calm, Registered
<1>2. Nodes' /\ Grow /\ \A n \in Existing : NodeStep(n)
  BY <1>1, CalmNodes DEF TypeInv
<1>3. Contents'
  BY <1>2, FewerContents
<1>4. Owners'
  <2>1. \A b \in blobs : IsActive(b) => IsActive(b)'
    BY DEF IsActive, Registered
  <2> QED
    BY <2>1, OwnersStep DEF Owned
<1>5. ASSUME NEW u \in Txn \ {t} PROVE Beside(u)
  <2>1. KeptLocks(u)
    BY LockMoveKeeps
  <2>2. KeptHandles(u) /\ KeptBlobs(u)
    BY DEF KeptHandles, KeptBlobs, HasBlob
  <2>3. KeptFlips(u)
    BY <1>0, Consts DEF KeptFlips
  <2> QED
    BY <2>1, <2>2, <2>3 DEF Beside
<1> QED
  BY <1>2, <1>3, <1>4, <1>5, Assemble

-----------------------------------------------------------------------------
(* Before anything is written, and after all is undone. *)

\* A transaction that has nothing in the store.
Idle(t) ==
  /\ t \notin done /\ t \notin plog
  /\ \/ pc[t] \in Before \cup {"update", "rbLogs", "committed", "aborted"}
     \/ pc[t] \in {"rbStores", "rbNodes"} /\ tlog[t] <= commitUpdatedNodes

\* Where a transaction is idle.
LEMMA IdleAt ==
  ASSUME CommitInv, NEW t \in Txn,
         \/ pc[t] \in Before \cup {"update", "rbLogs"}
         \/ pc[t] \in {"rbStores", "rbNodes"} /\ tlog[t] <= commitUpdatedNodes
  PROVE  Idle(t)
<1>1. Decided(t) /\ PreImages(t)
  BY DEF CommitInv, Mine
<1>2. t \notin done
  BY <1>1 DEF Decided, Before, Cleaning, Dead
<1>3. t \notin plog
  BY <1>1, CodeOrder DEF PreImages, Before
<1> QED
  BY <1>2, <1>3 DEF Idle

\* It owns no blob, and none of the nodes it will create exists.
LEMMA IdleFacts ==
  ASSUME CommitInv, NEW t \in Txn, Idle(t)
  PROVE  /\ ~Reserved(t) /\ ~Undoing(t) /\ pc[t] \notin Dead
         /\ \A n \in Updates[t] : ~Flipped(t, n)
         /\ \A b : ~Owns(t, b)
         /\ \A n \in Adds[t] : ~Registered(n)
         /\ \A x \in {"taken", "restored"} : sweep # <<x, t>>
<1>0. Added(t) /\ PreImages(t) /\ tlog[t] \in 0..deleteObsoleteEntries
  BY DEF CommitInv, Mine, TypeInv, TypeOK
<1>1. ~Reserved(t) /\ ~Undoing(t) /\ pc[t] \notin Dead
  BY <1>0, CodeOrder DEF Idle, Reserved, Undoing, Before, Working, Dead
<1>2. \A n : ~Flipped(t, n)
  BY DEF Idle, Flipped, Before
<1>3. \A b : ~Owns(t, b)
  BY <1>1, <1>2 DEF Owns, Idle
<1>4. \A n \in Adds[t] : ~Registered(n)
  BY <1>0, <1>1, CodeOrder DEF Added, Idle, Adding, Before
<1>5. \A x \in {"taken", "restored"} : sweep # <<x, t>>
  BY <1>0 DEF PreImages, Idle
<1> QED
  BY <1>1, <1>2, <1>3, <1>4, <1>5

\* What is left of the invariant for such a transaction.
LEMMA IdleMine ==
  ASSUME NEW t \in Txn, Idle(t)', TypeOK', Logged(t)', Locked(t)', ReadOld(t)',
         \A n \in Adds[t] : ~Registered(n)',
         \A x \in {"taken", "restored"} : sweep' # <<x, t>>
  PROVE  Mine(t)' /\ (\A n \in Updates[t] : ~Flipped(t, n)') /\ pc'[t] \notin Dead
<1>0. tlog'[t] \in 0..deleteObsoleteEntries
  BY DEF TypeOK
<1>1. ~Reserved(t)' /\ pc'[t] # "plogRemove" /\ pc'[t] # "flip" /\ pc'[t] \notin Dead
  BY <1>0, CodeOrder DEF Idle, Reserved, Undoing, Before, Working, Dead
<1>2. \A n \in Updates[t] : ~Flipped(t, n)'
  BY DEF Idle, Flipped, Before
<1>3. Decided(t)'
  BY DEF Idle, Decided, Before, Cleaning
<1>4. PreImages(t)'
  BY DEF Idle, PreImages, Before
<1>5. Staging(t)' /\ InPlace(t)'
  BY <1>1 DEF Staging, InPlace
<1>6. Superseded(t)' /\ Covered(t)'
  BY DEF Idle, Superseded, Covered
<1>7. NewBlobs(t)'
  BY <1>1 DEF NewBlobs, Reserved
<1>8. Removed(t)'
  BY <1>1 DEF Removed, Idle
<1>9. Added(t)'
  BY <1>1, CodeOrder DEF Added, Idle, Adding, Before
<1> QED
  BY <1>1, <1>2, <1>3, <1>4, <1>5, <1>6, <1>7, <1>8, <1>9 DEF Mine

\* A step of such a transaction.
LEMMA IdleStep ==
  ASSUME CommitInv, TypeInv', NEW t \in Txn, Idle(t), Idle(t)',
         registry' = registry, blobs' = blobs, done' = done, sweep' = sweep,
         \A u \in Txn \ {t} : Same(u), LockMove(t), Logged(t)', Locked(t)',
         \A n \in Existing : \/ rd'[t][n] \in {rd[t][n], NotRead}
                             \/ rd'[t][n] = Fetch(n)
  PROVE  CommitInv'
<1>1. /\ \A n \in Updates[t] : ~Flipped(t, n)
      /\ \A b : ~Owns(t, b)
      /\ \A n \in Adds[t] : ~Registered(n)'
      /\ \A x \in {"taken", "restored"} : sweep' # <<x, t>>
      /\ pc[t] \notin Dead
  BY IdleFacts DEF Registered
<1>2. ReadOld(t)'
  <2> SUFFICES ASSUME NEW n \in Existing, rd'[t][n] # NotRead, Registered(n)
               PROVE  /\ rd'[t][n].ver <= registry[n].version
                      /\ rd'[t][n].ver = registry[n].version => rd'[t][n].seen = SeenAt(n)
    BY DEF ReadOld, SeenAt, SeenIn, Registered
  <2>1. CASE rd'[t][n] = rd[t][n]
    BY <2>1 DEF CommitInv, Mine, ReadOld
  <2>2. CASE rd'[t][n] = Fetch(n)
    <3>1. registry[n].version \in Nat
      BY Slots
    <3> QED
      BY <2>2, <3>1 DEF Fetch
  <2> QED
    BY <2>1, <2>2
<1>3. Mine(t)' /\ (\A n \in Updates[t] : ~Flipped(t, n)')
  BY <1>1, <1>2, IdleMine DEF TypeInv
<1> QED
  BY <1>1, <1>3, Quiet

\* The steps of a transaction that has nothing in the store: reading, locking, refetching,
\* failing to reserve, and the rollback of an attempt that had written nothing.
LEMMA IdleActions ==
  ASSUME Orderly, CommitInv, TypeInv', NEW t \in Txn,
         \/ \E n \in Node : ReadNode(t, n)
         \/ ReadFails(t) \/ StartCommit(t) \/ Verify(t)
         \/ LockNodes(t) \/ LockBusy(t) \/ GiveUp(t) \/ Refetch(t) \/ RefetchFails(t)
         \/ DualLock(t) \/ CheckFetched(t) \/ ReserveFails(t)
         \/ (RollbackStores(t) \/ RollbackNodes(t)) /\ ~Undoing(t)
         \/ RollbackLogs(t)
  PROVE  CommitInv'
<1>0. /\ pc \in [Txn -> Points] /\ tlog \in [Txn -> 0..12] /\ plog \subseteq Txn
      /\ retry \in [Txn -> Nat] /\ stale \in [Txn -> BOOLEAN] /\ keys \in [Txn -> BOOLEAN]
      /\ again \in [Txn -> BOOLEAN] /\ upd \in [Txn -> [Node -> Handles \cup {NoHandle}]]
      /\ rd \in [Txn -> [Node -> Read \cup {NotRead}]] /\ todo \in [Txn -> SUBSET Node]
      /\ lock \in [Node -> Txn \cup {Free}]
  BY CodeOrder DEF CommitInv, TypeInv, TypeOK
<1>c. /\ lockTrackedItems = 2 /\ areFetchedItemsIntact = 5 /\ commitUpdatedNodes = 6
      /\ commitRemovedNodes = 7 /\ commitAddedNodes = 8 /\ commitStoreInfo = 9
      /\ beforeFinalize = 10 /\ finalizeCommit = 11 /\ deleteObsoleteEntries = 12
  BY CodeOrder
<1>i. tlog[t] \in 0..12 /\ tlog[t] \in Int
  BY <1>0
<1>m. /\ Logged(t) /\ Locked(t) /\ SweepFirst
      /\ Existing \subseteq Node /\ W(t) \subseteq Node /\ Free \notin Txn
  BY Consts DEF CommitInv, Mine, Orderly
<1>1. ASSUME NEW n \in Node, ReadNode(t, n) PROVE CommitInv'
  <2>0. pc[t] = "read" /\ pc' = pc /\ tlog' = tlog /\ plog' = plog /\ done' = done
    BY <1>1 DEF ReadNode, logs
  <2>1. Idle(t)
    BY <2>0, <1>0, <1>c, IdleAt DEF Before, Undoing
  <2>2. \A u \in Txn \ {t} : Same(u)
    BY <1>1, <1>0 DEF Same, ReadNode, Goto, Log, store, logs, mem
  <2>3. registry' = registry /\ blobs' = blobs /\ done' = done /\ sweep' = sweep
    BY <1>1 DEF ReadNode, Goto, Log, store, logs, mem
  <2>4. LockMove(t)
    BY <1>1, <1>0, <1>m DEF LockMove, ReadNode, Goto, Log, store, logs, mem
  <2>5. Idle(t)'
    BY <2>0, <1>0, <1>i, <1>c, <1>m, <2>1 DEF Idle, Before, Logged, Undoing
  <2>6. Logged(t)'
    BY <2>0, <1>0, <1>i, <1>c, <1>m, <2>1, <2>5 DEF Idle, Before, RollingBack, Logged
  <2>7. Locked(t)'
    BY <2>0, <1>0, <1>i, <1>c, <1>m, <2>1, <2>5 DEF Idle, Before, Locked, Guarded, Critical,
       Undoing
  <2>8. \A n1 \in Existing : rd'[t][n1] \in {rd[t][n1], NotRead} \/ rd'[t][n1] = Fetch(n1)
    BY <1>1, <1>0, <1>m DEF ReadNode, Goto, Log, store, logs, mem
  <2> QED
    BY <2>1, <2>2, <2>3, <2>4, <2>5, <2>6, <2>7, <2>8, IdleStep
<1>2. ASSUME ReadFails(t) PROVE CommitInv'
  <2>1. Idle(t)
    BY <1>2, <1>0, <1>c, IdleAt DEF Before, Undoing, ReadFails
  <2>2. \A u \in Txn \ {t} : Same(u)
    BY <1>2, <1>0 DEF Same, ReadFails, Goto, Log, store, logs, mem, Abort
  <2>3. registry' = registry /\ blobs' = blobs /\ done' = done /\ sweep' = sweep
    BY <1>2 DEF ReadFails, Goto, Log, store, logs, mem, Abort
  <2>4. LockMove(t)
    BY <1>2, <1>0, <1>m DEF LockMove, ReadFails, Goto, Log, store, logs, mem, Abort
  <2>5. Idle(t)'
    BY <1>2, <1>0, <1>i, <1>c, <1>m, <2>1 DEF Idle, Before, Logged, Undoing, ReadFails, Goto,
       Log, store, logs, mem, Abort
  <2>6. Logged(t)'
    BY <1>2, <1>0, <1>i, <1>c, <1>m, <2>1, <2>5 DEF Idle, Before, RollingBack, Logged,
       ReadFails, Goto, Log, store, logs, mem, Abort
  <2>7. Locked(t)'
    BY <1>2, <1>0, <1>i, <1>c, <1>m, <2>1, <2>5 DEF Idle, Before, Locked, Guarded, Critical,
       Undoing, ReadFails, Goto, Log, store, logs, mem, Abort
  <2>8. \A n \in Existing : rd'[t][n] \in {rd[t][n], NotRead} \/ rd'[t][n] = Fetch(n)
    BY <1>2, <1>0, <1>m DEF ReadFails, Goto, Log, store, logs, mem, Abort
  <2> QED
    BY <2>1, <2>2, <2>3, <2>4, <2>5, <2>6, <2>7, <2>8, IdleStep
<1>3. ASSUME StartCommit(t) PROVE CommitInv'
  <2>0. /\ pc[t] = "read" /\ stale'[t] = stale[t] /\ plog' = plog /\ done' = done
        /\ \/ pc'[t] = "verify" /\ tlog'[t] = tlog[t]
           \/ pc'[t] = "lock" /\ tlog'[t] = 2 /\ (keys'[t] \/ W(t) = {})
    <3>1. CASE IsReader(t)
      BY <1>3, <1>0, <3>1 DEF StartCommit, Goto
    <3>2. CASE ~IsReader(t)
      <4>1. (W(t) # {}) \in BOOLEAN
        OBVIOUS
      <4>2. keys'[t] = (W(t) # {})
        BY <1>3, <1>0, <3>2, <4>1 DEF StartCommit
      <4>3. /\ pc[t] = "read" /\ stale'[t] = stale[t] /\ plog' = plog /\ done' = done
            /\ pc'[t] = "lock" /\ tlog'[t] = 2
        BY <1>3, <1>0, <1>c, <3>2 DEF StartCommit, Goto, Log
      <4> QED
        BY <4>2, <4>3
    <3> QED
      BY <3>1, <3>2
  <2>1. Idle(t)
    BY <2>0, <1>0, <1>c, IdleAt DEF Before, Undoing
  <2>2. \A u \in Txn \ {t} : Same(u)
    BY <1>3, <1>0 DEF Same, StartCommit, Goto, Log, store, logs, mem
  <2>3. registry' = registry /\ blobs' = blobs /\ done' = done /\ sweep' = sweep
    BY <1>3 DEF StartCommit, Goto, Log, store, logs, mem
  <2>4. LockMove(t)
    BY <1>3, <1>0, <1>m DEF LockMove, StartCommit, Goto, Log, store, logs, mem
  <2>5. Idle(t)'
    BY <2>0, <1>0, <1>i, <1>c, <1>m, <2>1 DEF Idle, Before, Logged, Undoing
  <2>6. Logged(t)'
    BY <2>0, <1>0, <1>i, <1>c, <1>m, <2>1, <2>5 DEF Idle, Before, RollingBack, Logged
  <2>7. Locked(t)'
    BY <2>0, <1>0, <1>i, <1>c, <1>m, <2>1, <2>5 DEF Idle, Before, Locked, Guarded, Critical,
       Undoing
  <2>8. \A n \in Existing : rd'[t][n] \in {rd[t][n], NotRead} \/ rd'[t][n] = Fetch(n)
    BY <1>3, <1>0, <1>m DEF StartCommit, Goto, Log, store, logs, mem
  <2> QED
    BY <2>1, <2>2, <2>3, <2>4, <2>5, <2>6, <2>7, <2>8, IdleStep
<1>4. ASSUME Verify(t) PROVE CommitInv'
  <2>1. Idle(t)
    BY <1>4, <1>0, <1>c, IdleAt DEF Before, Undoing, Verify
  <2>2. \A u \in Txn \ {t} : Same(u)
    BY <1>4, <1>0 DEF Same, Verify, Goto, Log, store, logs, mem
  <2>3. registry' = registry /\ blobs' = blobs /\ done' = done /\ sweep' = sweep
    BY <1>4 DEF Verify, Goto, Log, store, logs, mem
  <2>4. LockMove(t)
    BY <1>4, <1>0, <1>m DEF LockMove, Verify, Goto, Log, store, logs, mem
  <2>5. Idle(t)'
    BY <1>4, <1>0, <1>i, <1>c, <1>m, <2>1 DEF Idle, Before, Logged, Undoing, Verify, Goto,
       Log, store, logs, mem
  <2>6. Logged(t)'
    BY <1>4, <1>0, <1>i, <1>c, <1>m, <2>1, <2>5 DEF Idle, Before, RollingBack, Logged, Verify,
       Goto, Log, store, logs, mem
  <2>7. Locked(t)'
    BY <1>4, <1>0, <1>i, <1>c, <1>m, <2>1, <2>5 DEF Idle, Before, Locked, Guarded, Critical,
       Undoing, Verify, Goto, Log, store, logs, mem
  <2>8. \A n \in Existing : rd'[t][n] \in {rd[t][n], NotRead} \/ rd'[t][n] = Fetch(n)
    BY <1>4, <1>0, <1>m DEF Verify, Goto, Log, store, logs, mem
  <2> QED
    BY <2>1, <2>2, <2>3, <2>4, <2>5, <2>6, <2>7, <2>8, IdleStep
<1>5. ASSUME LockNodes(t) PROVE CommitInv'
  <2>1. Idle(t)
    BY <1>5, <1>0, <1>c, IdleAt DEF Before, Undoing, LockNodes
  <2>2. \A u \in Txn \ {t} : Same(u)
    BY <1>5, <1>0 DEF Same, LockNodes, Goto, Log, store, logs, mem, Take, CanLock
  <2>3. registry' = registry /\ blobs' = blobs /\ done' = done /\ sweep' = sweep
    BY <1>5 DEF LockNodes, Goto, Log, store, logs, mem, Take, CanLock
  <2>4. LockMove(t)
    BY <1>5, <1>0, <1>m DEF LockMove, LockNodes, Goto, Log, store, logs, mem, Take, CanLock
  <2>5. Idle(t)'
    BY <1>5, <1>0, <1>i, <1>c, <1>m, <2>1 DEF Idle, Before, Logged, Undoing, LockNodes, Goto,
       Log, store, logs, mem, Take, CanLock
  <2>6. Logged(t)'
    BY <1>5, <1>0, <1>i, <1>c, <1>m, <2>1, <2>5 DEF Idle, Before, RollingBack, Logged,
       LockNodes, Goto, Log, store, logs, mem, Take, CanLock
  <2>7. Locked(t)'
    BY <1>5, <1>0, <1>i, <1>c, <1>m, <2>1, <2>5 DEF Idle, Before, Locked, Guarded, Critical,
       Undoing, LockNodes, Goto, Log, store, logs, mem, Take, CanLock
  <2>8. \A n \in Existing : rd'[t][n] \in {rd[t][n], NotRead} \/ rd'[t][n] = Fetch(n)
    BY <1>5, <1>0, <1>m DEF LockNodes, Goto, Log, store, logs, mem, Take, CanLock
  <2> QED
    BY <2>1, <2>2, <2>3, <2>4, <2>5, <2>6, <2>7, <2>8, IdleStep
<1>6. ASSUME LockBusy(t) PROVE CommitInv'
  <2>0. pc[t] = "lock" /\ pc' = pc /\ tlog' = tlog /\ plog' = plog /\ done' = done /\ stale'[t]
    BY <1>6, <1>0 DEF LockBusy, logs
  <2>1. Idle(t)
    BY <2>0, <1>0, <1>c, IdleAt DEF Before, Undoing
  <2>2. \A u \in Txn \ {t} : Same(u)
    BY <1>6, <1>0 DEF Same, LockBusy, Goto, Log, store, logs, mem, Release
  <2>3. registry' = registry /\ blobs' = blobs /\ done' = done /\ sweep' = sweep
    BY <1>6 DEF LockBusy, Goto, Log, store, logs, mem, Release
  <2>4. LockMove(t)
    BY <1>6, <1>0, <1>m DEF LockMove, LockBusy, Goto, Log, store, logs, mem, Release
  <2>5. Idle(t)'
    BY <2>0, <1>0, <1>i, <1>c, <1>m, <2>1 DEF Idle, Before, Logged, Undoing
  <2>6. Logged(t)'
    BY <2>0, <1>0, <1>i, <1>c, <1>m, <2>1, <2>5 DEF Idle, Before, RollingBack, Logged
  <2>7. Locked(t)'
    BY <2>0, <1>0, <1>i, <1>c, <1>m, <2>1, <2>5 DEF Idle, Before, Locked, Guarded, Critical,
       Undoing
  <2>8. \A n \in Existing : rd'[t][n] \in {rd[t][n], NotRead} \/ rd'[t][n] = Fetch(n)
    BY <1>6, <1>0, <1>m DEF LockBusy, Goto, Log, store, logs, mem, Release
  <2> QED
    BY <2>1, <2>2, <2>3, <2>4, <2>5, <2>6, <2>7, <2>8, IdleStep
<1>7. ASSUME GiveUp(t) PROVE CommitInv'
  <2>1. Idle(t)
    BY <1>7, <1>0, <1>c, IdleAt DEF Before, Undoing, GiveUp
  <2>2. \A u \in Txn \ {t} : Same(u)
    BY <1>7, <1>0 DEF Same, GiveUp, Goto, Log, store, logs, mem, Abort
  <2>3. registry' = registry /\ blobs' = blobs /\ done' = done /\ sweep' = sweep
    BY <1>7 DEF GiveUp, Goto, Log, store, logs, mem, Abort
  <2>4. LockMove(t)
    BY <1>7, <1>0, <1>m DEF LockMove, GiveUp, Goto, Log, store, logs, mem, Abort
  <2>5. Idle(t)'
    BY <1>7, <1>0, <1>i, <1>c, <1>m, <2>1 DEF Idle, Before, Logged, Undoing, GiveUp, Goto,
       Log, store, logs, mem, Abort
  <2>6. Logged(t)'
    BY <1>7, <1>0, <1>i, <1>c, <1>m, <2>1, <2>5 DEF Idle, Before, RollingBack, Logged, GiveUp,
       Goto, Log, store, logs, mem, Abort
  <2>7. Locked(t)'
    BY <1>7, <1>0, <1>i, <1>c, <1>m, <2>1, <2>5 DEF Idle, Before, Locked, Guarded, Critical,
       Undoing, GiveUp, Goto, Log, store, logs, mem, Abort
  <2>8. \A n \in Existing : rd'[t][n] \in {rd[t][n], NotRead} \/ rd'[t][n] = Fetch(n)
    BY <1>7, <1>0, <1>m DEF GiveUp, Goto, Log, store, logs, mem, Abort
  <2> QED
    BY <2>1, <2>2, <2>3, <2>4, <2>5, <2>6, <2>7, <2>8, IdleStep
<1>8. ASSUME Refetch(t) PROVE CommitInv'
  <2>0. /\ pc[t] = "refetch" /\ pc'[t] \in {"verify", "dual"} /\ tlog' = tlog
        /\ plog' = plog /\ done' = done
    BY <1>8, <1>0 DEF Refetch, Goto, logs
  <2>1. Idle(t)
    BY <2>0, <1>0, <1>c, IdleAt DEF Before, Undoing
  <2>2. \A u \in Txn \ {t} : Same(u)
    BY <1>8, <1>0 DEF Same, Refetch, Goto, Log, store, logs, mem
  <2>3. registry' = registry /\ blobs' = blobs /\ done' = done /\ sweep' = sweep
    BY <1>8 DEF Refetch, Goto, Log, store, logs, mem
  <2>4. LockMove(t)
    BY <1>8, <1>0, <1>m DEF LockMove, Refetch, Goto, Log, store, logs, mem
  <2>5. Idle(t)'
    BY <2>0, <1>0, <1>i, <1>c, <1>m, <2>1 DEF Idle, Before, Logged, Undoing
  <2>6. Logged(t)'
    BY <2>0, <1>0, <1>i, <1>c, <1>m, <2>1, <2>5 DEF Idle, Before, RollingBack, Logged
  <2>7. Locked(t)'
    BY <2>0, <1>0, <1>i, <1>c, <1>m, <2>1, <2>5 DEF Idle, Before, Locked, Guarded, Critical,
       Undoing
  <2>8. \A n \in Existing : rd'[t][n] \in {rd[t][n], NotRead} \/ rd'[t][n] = Fetch(n)
    BY <1>8, <1>0, <1>m DEF Refetch, Goto, Log, store, logs, mem
  <2> QED
    BY <2>1, <2>2, <2>3, <2>4, <2>5, <2>6, <2>7, <2>8, IdleStep
<1>9. ASSUME RefetchFails(t) PROVE CommitInv'
  <2>1. Idle(t)
    BY <1>9, <1>0, <1>c, IdleAt DEF Before, Undoing, RefetchFails
  <2>2. \A u \in Txn \ {t} : Same(u)
    BY <1>9, <1>0 DEF Same, RefetchFails, Goto, Log, store, logs, mem, Abort
  <2>3. registry' = registry /\ blobs' = blobs /\ done' = done /\ sweep' = sweep
    BY <1>9 DEF RefetchFails, Goto, Log, store, logs, mem, Abort
  <2>4. LockMove(t)
    BY <1>9, <1>0, <1>m DEF LockMove, RefetchFails, Goto, Log, store, logs, mem, Abort
  <2>5. Idle(t)'
    BY <1>9, <1>0, <1>i, <1>c, <1>m, <2>1 DEF Idle, Before, Logged, Undoing, RefetchFails,
       Goto, Log, store, logs, mem, Abort
  <2>6. Logged(t)'
    BY <1>9, <1>0, <1>i, <1>c, <1>m, <2>1, <2>5 DEF Idle, Before, RollingBack, Logged,
       RefetchFails, Goto, Log, store, logs, mem, Abort
  <2>7. Locked(t)'
    BY <1>9, <1>0, <1>i, <1>c, <1>m, <2>1, <2>5 DEF Idle, Before, Locked, Guarded, Critical,
       Undoing, RefetchFails, Goto, Log, store, logs, mem, Abort
  <2>8. \A n \in Existing : rd'[t][n] \in {rd[t][n], NotRead} \/ rd'[t][n] = Fetch(n)
    BY <1>9, <1>0, <1>m DEF RefetchFails, Goto, Log, store, logs, mem, Abort
  <2> QED
    BY <2>1, <2>2, <2>3, <2>4, <2>5, <2>6, <2>7, <2>8, IdleStep
<1>10. ASSUME DualLock(t) PROVE CommitInv'
  <2>0. /\ pc[t] = "dual" /\ tlog'[t] = 2 /\ (keys'[t] \/ W(t) = {})
        /\ plog' = plog /\ done' = done
        /\ \/ pc'[t] = "fetched" /\ \A n \in W(t) : lock'[n] = t
           \/ pc'[t] = "lock" /\ stale'[t]
    <3>1. (W(t) # {}) \in BOOLEAN
      OBVIOUS
    <3>2. keys'[t] = (W(t) # {})
      BY <1>10, <1>0, <3>1 DEF DualLock
    <3>3. pc[t] = "dual" /\ tlog'[t] = 2 /\ plog' = plog /\ done' = done
      BY <1>10, <1>0, <1>c DEF DualLock, Log
    <3>4. \/ pc'[t] = "fetched" /\ \A n \in W(t) : lock'[n] = t
          \/ pc'[t] = "lock" /\ stale'[t]
      BY <1>10, <1>0, <1>m DEF DualLock, Goto, Take
    <3> QED
      BY <3>2, <3>3, <3>4
  <2>1. Idle(t)
    BY <2>0, <1>0, <1>c, IdleAt DEF Before, Undoing
  <2>2. \A u \in Txn \ {t} : Same(u)
    BY <1>10, <1>0 DEF Same, DualLock, Goto, Log, store, logs, mem, Take, CanLock, Release
  <2>3. registry' = registry /\ blobs' = blobs /\ done' = done /\ sweep' = sweep
    BY <1>10 DEF DualLock, Goto, Log, store, logs, mem, Take, CanLock, Release
  <2>4. LockMove(t)
    BY <1>10, <1>0, <1>m DEF LockMove, DualLock, Goto, Log, store, logs, mem, Take, CanLock,
       Release
  <2>5. Idle(t)'
    BY <2>0, <1>0, <1>i, <1>c, <1>m, <2>1 DEF Idle, Before, Logged, Undoing
  <2>6. Logged(t)'
    BY <2>0, <1>0, <1>i, <1>c, <1>m, <2>1, <2>5 DEF Idle, Before, RollingBack, Logged
  <2>7. Locked(t)'
    BY <2>0, <1>0, <1>i, <1>c, <1>m, <2>1, <2>5 DEF Idle, Before, Locked, Guarded, Critical,
       Undoing
  <2>8. \A n \in Existing : rd'[t][n] \in {rd[t][n], NotRead} \/ rd'[t][n] = Fetch(n)
    BY <1>10, <1>0, <1>m DEF DualLock, Goto, Log, store, logs, mem, Take, CanLock, Release
  <2> QED
    BY <2>1, <2>2, <2>3, <2>4, <2>5, <2>6, <2>7, <2>8, IdleStep
<1>11. ASSUME CheckFetched(t) PROVE CommitInv'
  <2>0. /\ pc[t] = "fetched" /\ tlog'[t] = 5 /\ plog' = plog /\ done' = done
        /\ pc'[t] \in {"update", "rbStores"} /\ lock' = lock
        /\ keys'[t] = keys[t]
    BY <1>11, <1>0, <1>c DEF CheckFetched, Unsuccessful, Goto, Log, mem
  <2>1. Idle(t)
    BY <2>0, <1>0, <1>c, IdleAt DEF Before, Undoing
  <2>2. \A u \in Txn \ {t} : Same(u)
    BY <1>11, <1>0 DEF Same, CheckFetched, Goto, Log, store, logs, mem, Unsuccessful
  <2>3. registry' = registry /\ blobs' = blobs /\ done' = done /\ sweep' = sweep
    BY <1>11 DEF CheckFetched, Goto, Log, store, logs, mem, Unsuccessful
  <2>4. LockMove(t)
    BY <1>11, <1>0, <1>m DEF LockMove, CheckFetched, Goto, Log, store, logs, mem, Unsuccessful
  <2>5. Idle(t)'
    BY <2>0, <1>0, <1>i, <1>c, <1>m, <2>1 DEF Idle, Before, Logged, Undoing
  <2>6. Logged(t)'
    BY <2>0, <1>0, <1>i, <1>c, <1>m, <2>1, <2>5 DEF Idle, Before, RollingBack, Logged
  <2>7. Locked(t)'
    BY <2>0, <1>0, <1>i, <1>c, <1>m, <2>1, <2>5 DEF Idle, Before, Locked, Guarded, Critical,
       Undoing
  <2>8. \A n \in Existing : rd'[t][n] \in {rd[t][n], NotRead} \/ rd'[t][n] = Fetch(n)
    BY <1>11, <1>0, <1>m DEF CheckFetched, Goto, Log, store, logs, mem, Unsuccessful
  <2> QED
    BY <2>1, <2>2, <2>3, <2>4, <2>5, <2>6, <2>7, <2>8, IdleStep
<1>12. ASSUME ReserveFails(t) PROVE CommitInv'
  <2>1. Idle(t)
    BY <1>12, <1>0, <1>c, IdleAt DEF Before, Undoing, ReserveFails
  <2>2. \A u \in Txn \ {t} : Same(u)
    BY <1>12, <1>0 DEF Same, ReserveFails, Goto, Log, store, logs, mem, Unsuccessful
  <2>3. registry' = registry /\ blobs' = blobs /\ done' = done /\ sweep' = sweep
    BY <1>12 DEF ReserveFails, Goto, Log, store, logs, mem, Unsuccessful
  <2>4. LockMove(t)
    BY <1>12, <1>0, <1>m DEF LockMove, ReserveFails, Goto, Log, store, logs, mem, Unsuccessful
  <2>5. Idle(t)'
    BY <1>12, <1>0, <1>i, <1>c, <1>m, <2>1 DEF Idle, Before, Logged, Undoing, ReserveFails,
       Goto, Log, store, logs, mem, Unsuccessful
  <2>6. Logged(t)'
    BY <1>12, <1>0, <1>i, <1>c, <1>m, <2>1, <2>5 DEF Idle, Before, RollingBack, Logged,
       ReserveFails, Goto, Log, store, logs, mem, Unsuccessful
  <2>7. Locked(t)'
    BY <1>12, <1>0, <1>i, <1>c, <1>m, <2>1, <2>5 DEF Idle, Before, Locked, Guarded, Critical,
       Undoing, ReserveFails, Goto, Log, store, logs, mem, Unsuccessful
  <2>8. \A n \in Existing : rd'[t][n] \in {rd[t][n], NotRead} \/ rd'[t][n] = Fetch(n)
    BY <1>12, <1>0, <1>m DEF ReserveFails, Goto, Log, store, logs, mem, Unsuccessful
  <2> QED
    BY <2>1, <2>2, <2>3, <2>4, <2>5, <2>6, <2>7, <2>8, IdleStep
<1>13. ASSUME RollbackStores(t), ~Undoing(t) PROVE CommitInv'
  <2>1. Idle(t)
    <3>1. pc[t] = "rbStores"
      BY <1>13 DEF RollbackStores
    <3>2. tlog[t] <= commitUpdatedNodes
      BY <1>13, <1>i, <1>c, <3>1 DEF Undoing
    <3> QED
      BY <3>1, <3>2, IdleAt
  <2>2. \A u \in Txn \ {t} : Same(u)
    BY <1>13, <1>0 DEF Same, RollbackStores, Goto, Log, store, logs, mem
  <2>3. registry' = registry /\ blobs' = blobs /\ done' = done /\ sweep' = sweep
    BY <1>13 DEF RollbackStores, Goto, Log, store, logs, mem
  <2>4. LockMove(t)
    BY <1>13, <1>0, <1>m DEF LockMove, RollbackStores, Goto, Log, store, logs, mem
  <2>5. Idle(t)'
    BY <1>13, <1>0, <1>i, <1>c, <1>m, <2>1 DEF Idle, Before, Logged, Undoing, RollbackStores,
       Goto, Log, store, logs, mem
  <2>6. Logged(t)'
    BY <1>13, <1>0, <1>i, <1>c, <1>m, <2>1, <2>5 DEF Idle, Before, RollingBack, Logged,
       RollbackStores, Goto, Log, store, logs, mem
  <2>7. Locked(t)'
    BY <1>13, <1>0, <1>i, <1>c, <1>m, <2>1, <2>5 DEF Idle, Before, Locked, Guarded, Critical,
       Undoing, RollbackStores, Goto, Log, store, logs, mem
  <2>8. \A n \in Existing : rd'[t][n] \in {rd[t][n], NotRead} \/ rd'[t][n] = Fetch(n)
    BY <1>13, <1>0, <1>m DEF RollbackStores, Goto, Log, store, logs, mem
  <2> QED
    BY <2>1, <2>2, <2>3, <2>4, <2>5, <2>6, <2>7, <2>8, IdleStep
<1>14. ASSUME RollbackNodes(t), ~Undoing(t) PROVE CommitInv'
  <2>0. /\ pc[t] = "rbNodes" /\ pc'[t] = "rbLogs" /\ tlog' = tlog /\ plog' = plog
        /\ done' = done /\ tlog[t] <= 6
    <3>1. pc[t] = "rbNodes"
      BY <1>14 DEF RollbackNodes
    <3>2. pc'[t] = "rbLogs" /\ tlog' = tlog /\ plog' = plog /\ done' = done
      BY <1>14, <1>0 DEF RollbackNodes, Goto, logs
    <3>3. tlog[t] <= 6
      BY <1>14, <1>i, <1>c, <3>1 DEF Undoing
    <3> QED
      BY <3>1, <3>2, <3>3
  <2>1. Idle(t)
    BY <2>0, <1>0, <1>c, IdleAt DEF Before, Undoing
  <2>2. \A u \in Txn \ {t} : Same(u)
    BY <1>14, <1>0 DEF Same, RollbackNodes, Goto, Log, store, logs, mem, Release
  <2>3. registry' = registry /\ blobs' = blobs
    <3>1. tlog[t] <= 6 /\ tlog[t] \in Int
      BY <1>i, <2>0
    <3>1a. ~(tlog[t] > 6) /\ ~(tlog[t] > 7) /\ ~(tlog[t] > 8)
      BY <3>1
    <3>2. ToUnadd(t) = {} /\ ToUnmark(t, registry) = {} /\ ToUnreserve(t, registry) = {}
      BY <3>1a, <1>c DEF ToUnadd, ToUnmark, ToUnreserve
    <3>3. registry' = [n \in Node |-> registry[n]]
      BY <1>14, <3>2 DEF RollbackNodes
    <3>5. registry' = registry
      BY <3>3 DEF CommitInv, TypeInv, TypeOK
    <3>6. blobs' = blobs
      BY <1>14, <3>2 DEF RollbackNodes, BlobsUnadded, BlobsUnreserved
    <3> QED
      BY <3>5, <3>6
  <2>3a. done' = done /\ sweep' = sweep
    BY <1>14 DEF RollbackNodes, Goto, Log, store, logs, mem, Release
  <2>4. LockMove(t)
    BY <1>14, <1>0, <1>m DEF LockMove, RollbackNodes, Goto, Log, store, logs, mem, Release
  <2>5. Idle(t)'
    BY <2>0, <1>0, <1>i, <1>c, <1>m, <2>1 DEF Idle, Before, Logged, Undoing
  <2>6. Logged(t)'
    BY <2>0, <1>0, <1>i, <1>c, <1>m, <2>1, <2>5 DEF Idle, Before, RollingBack, Logged
  <2>7. Locked(t)'
    BY <2>0, <1>0, <1>i, <1>c, <1>m, <2>1, <2>5 DEF Idle, Before, Locked, Guarded, Critical,
       Undoing
  <2>8. \A n \in Existing : rd'[t][n] \in {rd[t][n], NotRead} \/ rd'[t][n] = Fetch(n)
    BY <1>14, <1>0, <1>m DEF RollbackNodes, Goto, Log, store, logs, mem, Release
  <2> QED
    BY <2>1, <2>2, <2>3, <2>3a, <2>4, <2>5, <2>6, <2>7, <2>8, IdleStep
<1>15. ASSUME RollbackLogs(t) PROVE CommitInv'
  <2>1. Idle(t)
    BY <1>15, <1>0, <1>c, IdleAt DEF Before, Undoing, RollbackLogs
  <2>2. \A u \in Txn \ {t} : Same(u)
    BY <1>15, <1>0 DEF Same, RollbackLogs, Goto, Log, store, logs, mem
  <2>3. registry' = registry /\ blobs' = blobs /\ done' = done /\ sweep' = sweep
    BY <1>15 DEF RollbackLogs, Goto, Log, store, logs, mem
  <2>4. LockMove(t)
    BY <1>15, <1>0, <1>m DEF LockMove, RollbackLogs, Goto, Log, store, logs, mem
  <2>5. Idle(t)'
    BY <1>15, <1>0, <1>i, <1>c, <1>m, <2>1 DEF Idle, Before, Logged, Undoing, RollbackLogs,
       Goto, Log, store, logs, mem
  <2>6. Logged(t)'
    BY <1>15, <1>0, <1>i, <1>c, <1>m, <2>1, <2>5 DEF Idle, Before, RollingBack, Logged,
       RollbackLogs, Goto, Log, store, logs, mem
  <2>7. Locked(t)'
    BY <1>15, <1>0, <1>i, <1>c, <1>m, <2>1, <2>5 DEF Idle, Before, Locked, Guarded, Critical,
       Undoing, RollbackLogs, Goto, Log, store, logs, mem
  <2>8. \A n \in Existing : rd'[t][n] \in {rd[t][n], NotRead} \/ rd'[t][n] = Fetch(n)
    BY <1>15, <1>0, <1>m DEF RollbackLogs, Goto, Log, store, logs, mem
  <2> QED
    BY <2>1, <2>2, <2>3, <2>4, <2>5, <2>6, <2>7, <2>8, IdleStep
<1> QED
  BY <1>1, <1>2, <1>3, <1>4, <1>5, <1>6, <1>7, <1>8, <1>9, <1>10, <1>11, <1>12, <1>13, <1>14,
     <1>15

-----------------------------------------------------------------------------
(* Between the reservation of the slots and their finalisation. *)

\* A transaction with reserved slots holds its locks, is undecided, and what it staged is
\* in the registry.
LEMMA WorkFacts ==
  ASSUME CommitInv, NEW t \in Txn, Reserved(t)
  PROVE  /\ t \notin done /\ pc[t] \notin Dead /\ pc[t] # "plogRemove" /\ Guarded(t)
         /\ \A x \in {"taken", "restored"} : sweep # <<x, t>>
         /\ \A n \in W(t) : lock[n] = t
         /\ Updates[t] \subseteq Staged(t) /\ \A n \in Staged(t) : StagedAs(t, n)
         /\ \A n \in Staged(t) : Waiting(t, n) => registry[n] = upd[t][n]
         /\ Staged(t) \subseteq W(t) /\ \A n \in Staged(t) : upd[t][n] \in Handles
<1>1. /\ Decided(t) /\ PreImages(t) /\ Locked(t) /\ Staging(t) /\ InPlace(t)
      /\ upd[t] \in [Node -> Handles \cup {NoHandle}]
  BY DEF CommitInv, Mine, TypeInv, TypeOK
<1>2. pc[t] \notin Dead /\ pc[t] # "plogRemove" /\ Guarded(t)
  BY DEF Reserved, Undoing, Working, Dead, Guarded, Critical
<1>3. t \notin done
  BY <1>1 DEF Decided, Reserved, Undoing, Working, Cleaning, Dead
<1>4. \A x \in {"taken", "restored"} : sweep # <<x, t>>
  BY <1>1, <1>2 DEF PreImages, Dead
<1>5. Staged(t) \subseteq W(t) /\ \A n \in Staged(t) : upd[t][n] \in Handles
  BY <1>1, Consts DEF Staged
<1> QED
  BY <1>1, <1>2, <1>3, <1>4, <1>5 DEF Locked, Staging, InPlace

\* It goes on, or turns to its rollback, with what it staged.
LEMMA WorkMine ==
  ASSUME CommitInv, TypeOK', NEW t \in Txn, Reserved(t), Reserved(t)', pc[t] # "flip",
         upd'[t] = upd[t], rd'[t] = rd[t], keys'[t] = keys[t],
         \A n \in W(t) : lock'[n] = lock[n] /\ registry'[n] = registry[n],
         Grow, \A n \in Existing : NodeStep(n),
         pc'[t] \in Working => pc[t] \in Working /\ retry'[t] = retry[t],
         pc'[t] \in Marking => pc[t] \in Marking,
         pc'[t] = "flip" => /\ todo'[t] = Staged(t)
                            /\ \A n \in Node : Flippers(n)' = Flippers(n),
         t \notin done', Logged(t)', PreImages(t)', NewBlobs(t)', Added(t)'
  PROVE  /\ Mine(t)'
         /\ \A b : Owns(t, b) => Owns(t, b)'
         /\ \A n \in Updates[t] : ~Flipped(t, n) /\ ~Flipped(t, n)'
<1>1. /\ t \notin done /\ pc[t] \notin Dead /\ pc[t] # "plogRemove" /\ Guarded(t)
      /\ \A n \in W(t) : lock[n] = t
      /\ Updates[t] \subseteq Staged(t) /\ \A n \in Staged(t) : StagedAs(t, n)
      /\ \A n \in Staged(t) : Waiting(t, n) => registry[n] = upd[t][n]
      /\ Staged(t) \subseteq W(t) /\ \A n \in Staged(t) : upd[t][n] \in Handles
  BY WorkFacts
<1>2. W(t) \subseteq Node /\ W(t) \subseteq Existing /\ Removes[t] \subseteq W(t)
  BY Consts
<1>3. Staged(t)' = Staged(t) /\ \A n : Waiting(t, n)
  BY DEF Staged, Waiting
<1>4. \A n \in Staged(t) : registry[n] = upd[t][n] /\ registry'[n] = upd[t][n]
  BY <1>1, <1>3
<1>5. pc'[t] # "plogRemove" /\ pc'[t] \notin Cleaning /\ pc'[t] \notin Dead
  BY DEF Reserved, Undoing, Working, Cleaning, Dead
<1>6. \A n \in Updates[t] : ~Flipped(t, n) /\ ~Flipped(t, n)'
  BY <1>1, <1>5 DEF Flipped
<1>7. Decided(t)'
  BY <1>5 DEF Decided
<1>8. Locked(t)'
  <2>1. keys[t] \/ W(t) = {}
    BY <1>1 DEF CommitInv, Mine, Locked
  <2>2. pc'[t] # "lock"
    BY DEF Reserved, Undoing, Working
  <2> QED
    BY <1>1, <2>1, <2>2 DEF Locked
<1>9. Staging(t)'
  <2>1. ASSUME NEW n \in Staged(t) PROVE StagedAs(t, n)'
    <3>1. StagedAs(t, n) /\ n \in Node
      BY <1>1, <1>2
    <3>2. OldID(n, GetActiveID(upd[t][n]))'
      BY <3>1, OldIDGrows DEF StagedAs
    <3>3. ~Undoing(t)' => ~Undoing(t) /\ NewID(t)' = NewID(t)
      BY DEF Reserved, Undoing, Working, NewID
    <3> QED
      BY <3>1, <3>2, <3>3 DEF StagedAs
  <2>2. pc'[t] \in Marking => Removes[t] \subseteq Staged(t)
    BY DEF CommitInv, Mine, Staging
  <2> QED
    BY <1>1, <1>3, <2>1, <2>2 DEF Staging
<1>10. InPlace(t)'
  BY <1>3, <1>4, <1>5, <1>1 DEF InPlace, Flipped
<1>11. Superseded(t)' /\ Covered(t)'
  BY <1>5 DEF Superseded, Covered, Dead
<1>12. ReadOld(t)'
  BY ReadKeeps DEF CommitInv, Mine, TypeInv
<1>13. Removed(t)'
  <2>1. ASSUME pc'[t] = "flip", NEW n \in Removes[t] PROVE Flippers(n)' \subseteq rd[t][n].seen
    <3>1. n \in Staged(t)
      BY <2>1 DEF Marking, CommitInv, Mine, Staging
    <3>2. n \in Existing /\ n \in Node /\ n \in Touched(t)
      BY <1>2 DEF Touched
    <3>3. registry[n] = upd[t][n] /\ upd[t][n].version = rd[t][n].ver /\ upd[t][n] # NoHandle
      BY <1>1, <1>4, <3>1 DEF StagedAs, Staged
    <3>4. rd[t][n] # NotRead
      <4>1. pc[t] \notin {"read"} \cup RollingBack \cup Ended
        BY <2>1 DEF Marking, RollingBack, Ended, Dead
      <4> QED
        BY <3>2, <4>1 DEF CommitInv, TypeInv, ReadBeforeUse
    <3>5. rd[t][n].seen = SeenAt(n)
      BY <3>2, <3>3, <3>4 DEF CommitInv, Mine, ReadOld, Registered
    <3>6. SeenAt(n) = Flippers(n)
      BY <3>2, <3>3, Slots DEF Registered, Whole
    <3> QED
      BY <2>1, <3>2, <3>5, <3>6
  <2> QED
    BY <1>5, <2>1 DEF Removed
<1>14. Mine(t)'
  BY <1>7, <1>8, <1>9, <1>10, <1>11, <1>12, <1>13 DEF Mine
<1>15. ASSUME NEW b, Owns(t, b) PROVE Owns(t, b)'
  <2>1. b.node \in Updates[t] /\ b.id = GetInActiveID(upd[t][b.node])
    BY <1>1, <1>15 DEF Owns
  <2>2. Waiting(t, b.node)'
    BY <1>1, <2>1 DEF Waiting
  <2> QED
    BY <2>1, <2>2 DEF Owns
<1> QED
  BY <1>6, <1>14, <1>15

\* Such a step that writes neither handles nor blobs.
LEMMA WorkStep ==
  ASSUME CommitInv, TypeInv', NEW t \in Txn, \A u \in Txn \ {t} : Same(u),
         registry' = registry, blobs' = blobs, done' = done,
         \A n \in Node : lock'[n] = lock[n],
         Reserved(t), Reserved(t)', pc[t] # "flip",
         upd'[t] = upd[t], rd'[t] = rd[t], keys'[t] = keys[t],
         pc'[t] \in Working => pc[t] \in Working /\ retry'[t] = retry[t],
         pc'[t] \in Working \ {"stage"} => pc[t] \in Working \ {"stage"},
         pc'[t] \in Marking => pc[t] \in Marking,
         pc'[t] \in Adding => pc[t] \in Adding,
         pc'[t] \in Adding \ {"addBlobs"} => pc[t] \in Adding \ {"addBlobs"},
         pc[t] \in Adding \/ tlog[t] > commitAddedNodes =>
           pc'[t] \in Adding \/ tlog'[t] > commitAddedNodes,
         pc'[t] = "flip" => todo'[t] = Staged(t),
         Logged(t)', PreImages(t)'
  PROVE  CommitInv'
<1>1. /\ t \notin done /\ pc[t] \notin Dead /\ pc[t] # "plogRemove"
      /\ Updates[t] \subseteq Staged(t)
  BY WorkFacts
<1>2. \A n \in Updates[t] : ~Flipped(t, n) /\ ~Flipped(t, n)'
  <2>1. pc'[t] # "plogRemove"
    BY DEF Reserved, Undoing, Working
  <2> QED
    BY <1>1, <2>1 DEF Flipped
<1>3. \A n \in Node : Flippers(n)' = Flippers(n)
  BY <1>2, FlippersStep
<1>4. Calm
  <2>1. ASSUME NEW n \in Existing, Registered(n) PROVE Untouched(n)
    BY <2>1, Slots DEF Untouched, Registered
  <2> QED
    BY <1>3, <2>1 DEF Calm, Registered
<1>5. Grow /\ \A n \in Existing : NodeStep(n)
  BY <1>4, CalmNodes DEF TypeInv
<1>6. NewBlobs(t)'
  <2> SUFFICES ASSUME pc'[t] \in Working \ {"stage"}, NEW n \in Updates[t]
               PROVE  [node |-> n, id |-> NewID(t)', seen |-> rd[t][n].seen \cup {t}] \in blobs
    BY DEF NewBlobs
  <2>1. NewID(t)' = NewID(t) /\ Waiting(t, n)
    BY DEF NewID, Waiting
  <2>2. NewBlobs(t)
    BY DEF CommitInv, Mine
  <2> QED
    BY <2>1, <2>2 DEF NewBlobs
<1>7. Added(t)'
  <2>1. Added(t)
    BY DEF CommitInv, Mine
  <2>2. pc'[t] \notin Adding => pc'[t] \in {"rbStores", "rbNodes"} \/ ~(tlog'[t] > commitAddedNodes)
    BY CodeOrder DEF Reserved, Undoing, Working, Adding, Logged
  <2> QED
    BY <1>1, <2>1, <2>2 DEF Added, HasBlob, Registered, NewNode
<1>8. Mine(t)' /\ \A b : Owns(t, b) => Owns(t, b)'
  <2>1. W(t) \subseteq Node
    BY Consts
  <2>2. \A n \in W(t) : lock'[n] = lock[n] /\ registry'[n] = registry[n]
    BY <2>1
  <2> QED
    BY <1>1, <1>3, <1>5, <1>6, <1>7, <2>2, WorkMine DEF TypeInv
<1>9. LockMove(t)
  BY DEF LockMove
<1>10. \A b \in blobs : Owns(t, b) => Owned(b)'
  BY <1>8 DEF Owned
<1> QED
  BY <1>1, <1>2, <1>8, <1>9, <1>10, Quiet

\* The log entries of phase 1, the store's count, the priority log, the lock check, the
\* start of phase 2, and the turns to a rollback.
LEMMA WorkActions ==
  ASSUME CommitInv, TypeInv', NEW t \in Txn,
         \/ LogUpdated(t) \/ LogRemoved(t) \/ LogAdded(t) \/ LogStore(t) \/ CommitStores(t)
         \/ LogBefore(t) \/ PlogAdd(t) \/ CheckLocks(t) \/ UserRollback(t)
         \/ MarkRemoved(t) /\ ~Removable(t)
         \/ LogFinalize(t) /\ Staged(t) # {}
         \/ RollbackStores(t) /\ Undoing(t)
  PROVE  CommitInv'
<1>0. /\ pc \in [Txn -> Points] /\ tlog \in [Txn -> 0..12] /\ plog \subseteq Txn
      /\ retry \in [Txn -> Nat] /\ stale \in [Txn -> BOOLEAN] /\ keys \in [Txn -> BOOLEAN]
      /\ again \in [Txn -> BOOLEAN] /\ upd \in [Txn -> [Node -> Handles \cup {NoHandle}]]
      /\ rd \in [Txn -> [Node -> Read \cup {NotRead}]] /\ todo \in [Txn -> SUBSET Node]
      /\ lock \in [Node -> Txn \cup {Free}]
  BY CodeOrder DEF CommitInv, TypeInv, TypeOK
<1>c. /\ lockTrackedItems = 2 /\ areFetchedItemsIntact = 5 /\ commitUpdatedNodes = 6
      /\ commitRemovedNodes = 7 /\ commitAddedNodes = 8 /\ commitStoreInfo = 9
      /\ beforeFinalize = 10 /\ finalizeCommit = 11 /\ deleteObsoleteEntries = 12
  BY CodeOrder
<1>i. tlog[t] \in 0..12 /\ tlog[t] \in Int
  BY <1>0
<1>m. Logged(t) /\ PreImages(t) /\ W(t) \subseteq Node
  BY Consts DEF CommitInv, Mine
<1>1. ASSUME LogUpdated(t) PROVE CommitInv'
  <2>1. pc[t] = "logUpdated" /\ pc'[t] = "logRemoved" /\ tlog'[t] = 6
    BY <1>1, <1>0, <1>c DEF LogUpdated, Goto, Log, store, logs, mem
  <2>2. plog' = plog
    BY <1>1, <1>c DEF LogUpdated, Goto, Log, store, logs, mem
  <2>3. \A u \in Txn \ {t} : Same(u)
    BY <1>1, <1>0 DEF Same, LogUpdated, Goto, Log, store, logs, mem
  <2>4. registry' = registry /\ blobs' = blobs /\ done' = done /\ sweep' = sweep /\ lock' = lock
    BY <1>1 DEF LogUpdated, Goto, Log, store, logs, mem
  <2>5. upd' = upd /\ rd' = rd /\ keys' = keys /\ retry' = retry
    BY <1>1 DEF LogUpdated, Goto, Log, store, logs, mem
  <2>7. Reserved(t) /\ Reserved(t)'
    BY <1>1, <2>1, <1>i, <1>c, <1>m DEF Reserved, Working, Undoing, Logged
  <2>8. Logged(t)'
    BY <2>1, <2>4, <1>c, <1>i, <1>m, <1>1 DEF Logged, Before, RollingBack, Undoing
  <2>9. PreImages(t)'
    BY <2>1, <2>2, <2>4, <2>5, <1>c, <1>i, <1>m, <1>1 DEF PreImages, Staged, Logged, Undoing
  <2>10. /\ pc'[t] \in Working => pc[t] \in Working /\ retry'[t] = retry[t]
         /\ pc'[t] \in Working \ {"stage"} => pc[t] \in Working \ {"stage"}
         /\ pc'[t] \in Marking => pc[t] \in Marking
         /\ pc'[t] \in Adding => pc[t] \in Adding
         /\ pc'[t] \in Adding \ {"addBlobs"} => pc[t] \in Adding \ {"addBlobs"}
         /\ pc[t] \in Adding \/ tlog[t] > commitAddedNodes =>
              pc'[t] \in Adding \/ tlog'[t] > commitAddedNodes
    BY <2>1, <2>5, <1>c, <1>i, <1>m DEF Working, Marking, Adding, Logged
  <2> QED
    BY <2>1, <2>3, <2>4, <2>5, <2>7, <2>8, <2>9, <2>10, WorkStep
<1>2. ASSUME LogRemoved(t) PROVE CommitInv'
  <2>1. pc[t] = "logRemoved" /\ pc'[t] = "remove" /\ tlog'[t] = 7
    BY <1>2, <1>0, <1>c DEF LogRemoved, Goto, Log, store, logs, mem
  <2>2. plog' = plog
    BY <1>2, <1>c DEF LogRemoved, Goto, Log, store, logs, mem
  <2>3. \A u \in Txn \ {t} : Same(u)
    BY <1>2, <1>0 DEF Same, LogRemoved, Goto, Log, store, logs, mem
  <2>4. registry' = registry /\ blobs' = blobs /\ done' = done /\ sweep' = sweep /\ lock' = lock
    BY <1>2 DEF LogRemoved, Goto, Log, store, logs, mem
  <2>5. upd' = upd /\ rd' = rd /\ keys' = keys /\ retry' = retry
    BY <1>2 DEF LogRemoved, Goto, Log, store, logs, mem
  <2>7. Reserved(t) /\ Reserved(t)'
    BY <1>2, <2>1, <1>i, <1>c, <1>m DEF Reserved, Working, Undoing, Logged
  <2>8. Logged(t)'
    BY <2>1, <2>4, <1>c, <1>i, <1>m, <1>2 DEF Logged, Before, RollingBack, Undoing
  <2>9. PreImages(t)'
    BY <2>1, <2>2, <2>4, <2>5, <1>c, <1>i, <1>m, <1>2 DEF PreImages, Staged, Logged, Undoing
  <2>10. /\ pc'[t] \in Working => pc[t] \in Working /\ retry'[t] = retry[t]
         /\ pc'[t] \in Working \ {"stage"} => pc[t] \in Working \ {"stage"}
         /\ pc'[t] \in Marking => pc[t] \in Marking
         /\ pc'[t] \in Adding => pc[t] \in Adding
         /\ pc'[t] \in Adding \ {"addBlobs"} => pc[t] \in Adding \ {"addBlobs"}
         /\ pc[t] \in Adding \/ tlog[t] > commitAddedNodes =>
              pc'[t] \in Adding \/ tlog'[t] > commitAddedNodes
    BY <2>1, <2>5, <1>c, <1>i, <1>m DEF Working, Marking, Adding, Logged
  <2> QED
    BY <2>1, <2>3, <2>4, <2>5, <2>7, <2>8, <2>9, <2>10, WorkStep
<1>3. ASSUME LogAdded(t) PROVE CommitInv'
  <2>1. pc[t] = "logAdded" /\ pc'[t] = "add" /\ tlog'[t] = 8
    BY <1>3, <1>0, <1>c DEF LogAdded, Goto, Log, store, logs, mem
  <2>2. plog' = plog
    BY <1>3, <1>c DEF LogAdded, Goto, Log, store, logs, mem
  <2>3. \A u \in Txn \ {t} : Same(u)
    BY <1>3, <1>0 DEF Same, LogAdded, Goto, Log, store, logs, mem
  <2>4. registry' = registry /\ blobs' = blobs /\ done' = done /\ sweep' = sweep /\ lock' = lock
    BY <1>3 DEF LogAdded, Goto, Log, store, logs, mem
  <2>5. upd' = upd /\ rd' = rd /\ keys' = keys /\ retry' = retry
    BY <1>3 DEF LogAdded, Goto, Log, store, logs, mem
  <2>7. Reserved(t) /\ Reserved(t)'
    BY <1>3, <2>1, <1>i, <1>c, <1>m DEF Reserved, Working, Undoing, Logged
  <2>8. Logged(t)'
    BY <2>1, <2>4, <1>c, <1>i, <1>m, <1>3 DEF Logged, Before, RollingBack, Undoing
  <2>9. PreImages(t)'
    BY <2>1, <2>2, <2>4, <2>5, <1>c, <1>i, <1>m, <1>3 DEF PreImages, Staged, Logged, Undoing
  <2>10. /\ pc'[t] \in Working => pc[t] \in Working /\ retry'[t] = retry[t]
         /\ pc'[t] \in Working \ {"stage"} => pc[t] \in Working \ {"stage"}
         /\ pc'[t] \in Marking => pc[t] \in Marking
         /\ pc'[t] \in Adding => pc[t] \in Adding
         /\ pc'[t] \in Adding \ {"addBlobs"} => pc[t] \in Adding \ {"addBlobs"}
         /\ pc[t] \in Adding \/ tlog[t] > commitAddedNodes =>
              pc'[t] \in Adding \/ tlog'[t] > commitAddedNodes
    BY <2>1, <2>5, <1>c, <1>i, <1>m DEF Working, Marking, Adding, Logged
  <2> QED
    BY <2>1, <2>3, <2>4, <2>5, <2>7, <2>8, <2>9, <2>10, WorkStep
<1>4. ASSUME LogStore(t) PROVE CommitInv'
  <2>1. pc[t] = "logStore" /\ pc'[t] = "store" /\ tlog'[t] = 9
    BY <1>4, <1>0, <1>c DEF LogStore, Goto, Log, store, logs, mem
  <2>2. plog' = plog
    BY <1>4, <1>c DEF LogStore, Goto, Log, store, logs, mem
  <2>3. \A u \in Txn \ {t} : Same(u)
    BY <1>4, <1>0 DEF Same, LogStore, Goto, Log, store, logs, mem
  <2>4. registry' = registry /\ blobs' = blobs /\ done' = done /\ sweep' = sweep /\ lock' = lock
    BY <1>4 DEF LogStore, Goto, Log, store, logs, mem
  <2>5. upd' = upd /\ rd' = rd /\ keys' = keys /\ retry' = retry
    BY <1>4 DEF LogStore, Goto, Log, store, logs, mem
  <2>7. Reserved(t) /\ Reserved(t)'
    BY <1>4, <2>1, <1>i, <1>c, <1>m DEF Reserved, Working, Undoing, Logged
  <2>8. Logged(t)'
    BY <2>1, <2>4, <1>c, <1>i, <1>m, <1>4 DEF Logged, Before, RollingBack, Undoing
  <2>9. PreImages(t)'
    BY <2>1, <2>2, <2>4, <2>5, <1>c, <1>i, <1>m, <1>4 DEF PreImages, Staged, Logged, Undoing
  <2>10. /\ pc'[t] \in Working => pc[t] \in Working /\ retry'[t] = retry[t]
         /\ pc'[t] \in Working \ {"stage"} => pc[t] \in Working \ {"stage"}
         /\ pc'[t] \in Marking => pc[t] \in Marking
         /\ pc'[t] \in Adding => pc[t] \in Adding
         /\ pc'[t] \in Adding \ {"addBlobs"} => pc[t] \in Adding \ {"addBlobs"}
         /\ pc[t] \in Adding \/ tlog[t] > commitAddedNodes =>
              pc'[t] \in Adding \/ tlog'[t] > commitAddedNodes
    BY <2>1, <2>5, <1>c, <1>i, <1>m DEF Working, Marking, Adding, Logged
  <2> QED
    BY <2>1, <2>3, <2>4, <2>5, <2>7, <2>8, <2>9, <2>10, WorkStep
<1>5. ASSUME CommitStores(t) PROVE CommitInv'
  <2>1. pc[t] = "store" /\ pc'[t] = "logBefore" /\ tlog'[t] = tlog[t]
    BY <1>5, <1>0, <1>c DEF CommitStores, Goto, Log, store, logs, mem
  <2>2. plog' = plog
    BY <1>5, <1>c DEF CommitStores, Goto, Log, store, logs, mem
  <2>3. \A u \in Txn \ {t} : Same(u)
    BY <1>5, <1>0 DEF Same, CommitStores, Goto, Log, store, logs, mem
  <2>4. registry' = registry /\ blobs' = blobs /\ done' = done /\ sweep' = sweep /\ lock' = lock
    BY <1>5 DEF CommitStores, Goto, Log, store, logs, mem
  <2>5. upd' = upd /\ rd' = rd /\ keys' = keys /\ retry' = retry
    BY <1>5 DEF CommitStores, Goto, Log, store, logs, mem
  <2>7. Reserved(t) /\ Reserved(t)'
    BY <1>5, <2>1, <1>i, <1>c, <1>m DEF Reserved, Working, Undoing, Logged
  <2>8. Logged(t)'
    BY <2>1, <2>4, <1>c, <1>i, <1>m, <1>5 DEF Logged, Before, RollingBack, Undoing
  <2>9. PreImages(t)'
    BY <2>1, <2>2, <2>4, <2>5, <1>c, <1>i, <1>m, <1>5 DEF PreImages, Staged, Logged, Undoing
  <2>10. /\ pc'[t] \in Working => pc[t] \in Working /\ retry'[t] = retry[t]
         /\ pc'[t] \in Working \ {"stage"} => pc[t] \in Working \ {"stage"}
         /\ pc'[t] \in Marking => pc[t] \in Marking
         /\ pc'[t] \in Adding => pc[t] \in Adding
         /\ pc'[t] \in Adding \ {"addBlobs"} => pc[t] \in Adding \ {"addBlobs"}
         /\ pc[t] \in Adding \/ tlog[t] > commitAddedNodes =>
              pc'[t] \in Adding \/ tlog'[t] > commitAddedNodes
    BY <2>1, <2>5, <1>c, <1>i, <1>m DEF Working, Marking, Adding, Logged
  <2> QED
    BY <2>1, <2>3, <2>4, <2>5, <2>7, <2>8, <2>9, <2>10, WorkStep
<1>6. ASSUME LogBefore(t) PROVE CommitInv'
  <2>1. pc[t] = "logBefore" /\ pc'[t] = "plog" /\ tlog'[t] = 10
    BY <1>6, <1>0, <1>c DEF LogBefore, Goto, Log, store, logs, mem
  <2>2. plog' = plog
    BY <1>6, <1>c DEF LogBefore, Goto, Log, store, logs, mem
  <2>3. \A u \in Txn \ {t} : Same(u)
    BY <1>6, <1>0 DEF Same, LogBefore, Goto, Log, store, logs, mem
  <2>4. registry' = registry /\ blobs' = blobs /\ done' = done /\ sweep' = sweep /\ lock' = lock
    BY <1>6 DEF LogBefore, Goto, Log, store, logs, mem
  <2>5. upd' = upd /\ rd' = rd /\ keys' = keys /\ retry' = retry
    BY <1>6 DEF LogBefore, Goto, Log, store, logs, mem
  <2>7. Reserved(t) /\ Reserved(t)'
    BY <1>6, <2>1, <1>i, <1>c, <1>m DEF Reserved, Working, Undoing, Logged
  <2>8. Logged(t)'
    BY <2>1, <2>4, <1>c, <1>i, <1>m, <1>6 DEF Logged, Before, RollingBack, Undoing
  <2>9. PreImages(t)'
    BY <2>1, <2>2, <2>4, <2>5, <1>c, <1>i, <1>m, <1>6 DEF PreImages, Staged, Logged, Undoing
  <2>10. /\ pc'[t] \in Working => pc[t] \in Working /\ retry'[t] = retry[t]
         /\ pc'[t] \in Working \ {"stage"} => pc[t] \in Working \ {"stage"}
         /\ pc'[t] \in Marking => pc[t] \in Marking
         /\ pc'[t] \in Adding => pc[t] \in Adding
         /\ pc'[t] \in Adding \ {"addBlobs"} => pc[t] \in Adding \ {"addBlobs"}
         /\ pc[t] \in Adding \/ tlog[t] > commitAddedNodes =>
              pc'[t] \in Adding \/ tlog'[t] > commitAddedNodes
    BY <2>1, <2>5, <1>c, <1>i, <1>m DEF Working, Marking, Adding, Logged
  <2> QED
    BY <2>1, <2>3, <2>4, <2>5, <2>7, <2>8, <2>9, <2>10, WorkStep
<1>7. ASSUME PlogAdd(t) PROVE CommitInv'
  <2>1. pc[t] = "plog" /\ pc'[t] = "check" /\ tlog'[t] = tlog[t]
    BY <1>7, <1>0, <1>c DEF PlogAdd, Goto, Log, store, logs, mem
  <2>2. plog' = IF Staged(t) # {} THEN plog \cup {t} ELSE plog
    BY <1>7, <1>c DEF PlogAdd, Goto, Log, store, logs, mem
  <2>3. \A u \in Txn \ {t} : Same(u)
    BY <1>7, <1>0 DEF Same, PlogAdd, Goto, Log, store, logs, mem
  <2>4. registry' = registry /\ blobs' = blobs /\ done' = done /\ sweep' = sweep /\ lock' = lock
    BY <1>7 DEF PlogAdd, Goto, Log, store, logs, mem
  <2>5. upd' = upd /\ rd' = rd /\ keys' = keys /\ retry' = retry
    BY <1>7 DEF PlogAdd, Goto, Log, store, logs, mem
  <2>7. Reserved(t) /\ Reserved(t)'
    BY <1>7, <2>1, <1>i, <1>c, <1>m DEF Reserved, Working, Undoing, Logged
  <2>8. Logged(t)'
    BY <2>1, <2>4, <1>c, <1>i, <1>m, <1>7 DEF Logged, Before, RollingBack, Undoing
  <2>d. t \notin done
    BY <2>7, WorkFacts
  <2>9. PreImages(t)'
    BY <2>1, <2>2, <2>4, <2>5, <1>c, <1>i, <1>m, <1>7, <2>d DEF PreImages, Staged, Logged,
       Undoing
  <2>10. /\ pc'[t] \in Working => pc[t] \in Working /\ retry'[t] = retry[t]
         /\ pc'[t] \in Working \ {"stage"} => pc[t] \in Working \ {"stage"}
         /\ pc'[t] \in Marking => pc[t] \in Marking
         /\ pc'[t] \in Adding => pc[t] \in Adding
         /\ pc'[t] \in Adding \ {"addBlobs"} => pc[t] \in Adding \ {"addBlobs"}
         /\ pc[t] \in Adding \/ tlog[t] > commitAddedNodes =>
              pc'[t] \in Adding \/ tlog'[t] > commitAddedNodes
    BY <2>1, <2>5, <1>c, <1>i, <1>m DEF Working, Marking, Adding, Logged
  <2> QED
    BY <2>1, <2>3, <2>4, <2>5, <2>7, <2>8, <2>9, <2>10, WorkStep
<1>8. ASSUME CheckLocks(t) PROVE CommitInv'
  <2>a. Reserved(t)
    BY <1>8 DEF CheckLocks, Reserved, Working
  <2>b. \A n \in W(t) : lock[n] = t
    BY <2>a, WorkFacts
  <2>c. lock' = Take(t) /\ Goto(t, "phase1") /\ again' = again
    BY <1>8, <2>b DEF CheckLocks
  <2>d. \A n \in Node : lock'[n] = lock[n]
    BY <2>b, <2>c DEF Take
  <2>1. pc[t] = "check" /\ pc'[t] = "phase1" /\ tlog'[t] = tlog[t]
    BY <1>8, <2>c, <1>0, <1>c DEF CheckLocks, Goto, Log, store, logs, mem, Abort
  <2>2. plog' = plog
    BY <1>8, <2>c, <1>c DEF CheckLocks, Goto, Log, store, logs, mem, Abort
  <2>3. \A u \in Txn \ {t} : Same(u)
    BY <1>8, <2>c, <1>0 DEF Same, CheckLocks, Goto, Log, store, logs, mem, Abort
  <2>4. registry' = registry /\ blobs' = blobs /\ done' = done /\ sweep' = sweep
    BY <1>8, <2>c DEF CheckLocks, Goto, Log, store, logs, mem, Abort
  <2>5. upd' = upd /\ rd' = rd /\ keys' = keys /\ retry' = retry
    BY <1>8, <2>c DEF CheckLocks, Goto, Log, store, logs, mem, Abort
  <2>7. Reserved(t) /\ Reserved(t)'
    BY <1>8, <2>1, <1>i, <1>c, <1>m DEF Reserved, Working, Undoing, Logged
  <2>8. Logged(t)'
    BY <2>1, <2>4, <1>c, <1>i, <1>m, <1>8 DEF Logged, Before, RollingBack, Undoing
  <2>9. PreImages(t)'
    BY <2>1, <2>2, <2>4, <2>5, <1>c, <1>i, <1>m, <1>8 DEF PreImages, Staged, Logged, Undoing
  <2>10. /\ pc'[t] \in Working => pc[t] \in Working /\ retry'[t] = retry[t]
         /\ pc'[t] \in Working \ {"stage"} => pc[t] \in Working \ {"stage"}
         /\ pc'[t] \in Marking => pc[t] \in Marking
         /\ pc'[t] \in Adding => pc[t] \in Adding
         /\ pc'[t] \in Adding \ {"addBlobs"} => pc[t] \in Adding \ {"addBlobs"}
         /\ pc[t] \in Adding \/ tlog[t] > commitAddedNodes =>
              pc'[t] \in Adding \/ tlog'[t] > commitAddedNodes
    BY <2>1, <2>5, <1>c, <1>i, <1>m DEF Working, Marking, Adding, Logged
  <2> QED
    BY <2>1, <2>3, <2>4, <2>5, <2>7, <2>8, <2>9, <2>10, <2>d, WorkStep
<1>9. ASSUME UserRollback(t) PROVE CommitInv'
  <2>1. pc[t] = "phase1" /\ pc'[t] = "rbStores" /\ tlog'[t] = tlog[t]
    BY <1>9, <1>0, <1>c DEF UserRollback, Goto, Log, store, logs, mem, Abort
  <2>2. plog' = plog
    BY <1>9, <1>c DEF UserRollback, Goto, Log, store, logs, mem, Abort
  <2>3. \A u \in Txn \ {t} : Same(u)
    BY <1>9, <1>0 DEF Same, UserRollback, Goto, Log, store, logs, mem, Abort
  <2>4. registry' = registry /\ blobs' = blobs /\ done' = done /\ sweep' = sweep /\ lock' = lock
    BY <1>9 DEF UserRollback, Goto, Log, store, logs, mem, Abort
  <2>5. upd' = upd /\ rd' = rd /\ keys' = keys /\ retry' = retry
    BY <1>9 DEF UserRollback, Goto, Log, store, logs, mem, Abort
  <2>7. Reserved(t) /\ Reserved(t)'
    BY <1>9, <2>1, <1>i, <1>c, <1>m DEF Reserved, Working, Undoing, Logged
  <2>8. Logged(t)'
    BY <2>1, <2>4, <1>c, <1>i, <1>m, <1>9 DEF Logged, Before, RollingBack, Undoing
  <2>9. PreImages(t)'
    BY <2>1, <2>2, <2>4, <2>5, <1>c, <1>i, <1>m, <1>9 DEF PreImages, Staged, Logged, Undoing
  <2>10. /\ pc'[t] \in Working => pc[t] \in Working /\ retry'[t] = retry[t]
         /\ pc'[t] \in Working \ {"stage"} => pc[t] \in Working \ {"stage"}
         /\ pc'[t] \in Marking => pc[t] \in Marking
         /\ pc'[t] \in Adding => pc[t] \in Adding
         /\ pc'[t] \in Adding \ {"addBlobs"} => pc[t] \in Adding \ {"addBlobs"}
         /\ pc[t] \in Adding \/ tlog[t] > commitAddedNodes =>
              pc'[t] \in Adding \/ tlog'[t] > commitAddedNodes
    BY <2>1, <2>5, <1>c, <1>i, <1>m DEF Working, Marking, Adding, Logged
  <2> QED
    BY <2>1, <2>3, <2>4, <2>5, <2>7, <2>8, <2>9, <2>10, WorkStep
<1>10. ASSUME MarkRemoved(t), ~Removable(t) PROVE CommitInv'
  <2>1. pc[t] = "remove" /\ pc'[t] = "rbStores" /\ tlog'[t] = tlog[t]
    BY <1>10, <1>0, <1>c DEF MarkRemoved, Goto, Log, store, logs, mem, Unsuccessful
  <2>2. plog' = plog
    BY <1>10, <1>c DEF MarkRemoved, Goto, Log, store, logs, mem, Unsuccessful
  <2>3. \A u \in Txn \ {t} : Same(u)
    BY <1>10, <1>0 DEF Same, MarkRemoved, Goto, Log, store, logs, mem, Unsuccessful
  <2>4. registry' = registry /\ blobs' = blobs /\ done' = done /\ sweep' = sweep /\ lock' = lock
    BY <1>10 DEF MarkRemoved, Goto, Log, store, logs, mem, Unsuccessful
  <2>5. upd' = upd /\ rd' = rd /\ keys' = keys
    BY <1>10 DEF MarkRemoved, Goto, Log, store, logs, mem, Unsuccessful
  <2>7. Reserved(t) /\ Reserved(t)'
    BY <1>10, <2>1, <1>i, <1>c, <1>m DEF Reserved, Working, Undoing, Logged
  <2>8. Logged(t)'
    BY <2>1, <2>4, <1>c, <1>i, <1>m, <1>10 DEF Logged, Before, RollingBack, Undoing
  <2>9. PreImages(t)'
    BY <2>1, <2>2, <2>4, <2>5, <1>c, <1>i, <1>m, <1>10 DEF PreImages, Staged, Logged, Undoing
  <2>10. /\ pc'[t] \in Working => pc[t] \in Working /\ retry'[t] = retry[t]
         /\ pc'[t] \in Working \ {"stage"} => pc[t] \in Working \ {"stage"}
         /\ pc'[t] \in Marking => pc[t] \in Marking
         /\ pc'[t] \in Adding => pc[t] \in Adding
         /\ pc'[t] \in Adding \ {"addBlobs"} => pc[t] \in Adding \ {"addBlobs"}
         /\ pc[t] \in Adding \/ tlog[t] > commitAddedNodes =>
              pc'[t] \in Adding \/ tlog'[t] > commitAddedNodes
    BY <2>1, <2>5, <1>c, <1>i, <1>m DEF Working, Marking, Adding, Logged
  <2> QED
    BY <2>1, <2>3, <2>4, <2>5, <2>7, <2>8, <2>9, <2>10, WorkStep
<1>11. ASSUME LogFinalize(t), Staged(t) # {} PROVE CommitInv'
  <2>1. pc[t] = "phase1" /\ pc'[t] = "flip" /\ tlog'[t] = 11
    BY <1>11, <1>0, <1>c DEF LogFinalize, Goto, Log, store, logs, mem
  <2>2. plog' = plog
    BY <1>11, <1>c DEF LogFinalize, Goto, Log, store, logs, mem
  <2>3. \A u \in Txn \ {t} : Same(u)
    BY <1>11, <1>0 DEF Same, LogFinalize, Goto, Log, store, logs, mem
  <2>4. registry' = registry /\ blobs' = blobs /\ done' = done /\ sweep' = sweep /\ lock' = lock
    BY <1>11 DEF LogFinalize, Goto, Log, store, logs, mem
  <2>5. upd' = upd /\ rd' = rd /\ keys' = keys /\ retry' = retry
    BY <1>11 DEF LogFinalize, Goto, Log, store, logs, mem
  <2>6. todo'[t] = Staged(t)
    BY <1>11, <1>0 DEF LogFinalize
  <2>7. Reserved(t) /\ Reserved(t)'
    BY <1>11, <2>1, <1>i, <1>c, <1>m DEF Reserved, Working, Undoing, Logged
  <2>8. Logged(t)'
    BY <2>1, <2>4, <1>c, <1>i, <1>m, <1>11 DEF Logged, Before, RollingBack, Undoing, Dead
  <2>9. PreImages(t)'
    BY <2>1, <2>2, <2>4, <2>5, <1>c, <1>i, <1>m, <1>11 DEF PreImages, Staged, Logged, Undoing
  <2>10. /\ pc'[t] \in Working => pc[t] \in Working /\ retry'[t] = retry[t]
         /\ pc'[t] \in Working \ {"stage"} => pc[t] \in Working \ {"stage"}
         /\ pc'[t] \in Marking => pc[t] \in Marking
         /\ pc'[t] \in Adding => pc[t] \in Adding
         /\ pc'[t] \in Adding \ {"addBlobs"} => pc[t] \in Adding \ {"addBlobs"}
         /\ pc[t] \in Adding \/ tlog[t] > commitAddedNodes =>
              pc'[t] \in Adding \/ tlog'[t] > commitAddedNodes
    BY <2>1, <2>5, <1>c, <1>i, <1>m DEF Working, Marking, Adding, Logged
  <2> QED
    BY <2>1, <2>3, <2>4, <2>5, <2>6, <2>7, <2>8, <2>9, <2>10, WorkStep
<1>12. ASSUME RollbackStores(t), Undoing(t) PROVE CommitInv'
  <2>1. pc[t] = "rbStores" /\ pc'[t] = "rbNodes" /\ tlog'[t] = tlog[t]
    BY <1>12, <1>0, <1>c DEF RollbackStores, Goto, Log, store, logs, mem
  <2>2. plog' = IF tlog[t] >= 10 THEN plog \ {t} ELSE plog
    BY <1>12, <1>c DEF RollbackStores, Goto, Log, store, logs, mem
  <2>3. \A u \in Txn \ {t} : Same(u)
    BY <1>12, <1>0 DEF Same, RollbackStores, Goto, Log, store, logs, mem
  <2>4. registry' = registry /\ blobs' = blobs /\ done' = done /\ sweep' = sweep /\ lock' = lock
    BY <1>12 DEF RollbackStores, Goto, Log, store, logs, mem
  <2>5. upd' = upd /\ rd' = rd /\ keys' = keys /\ retry' = retry
    BY <1>12 DEF RollbackStores, Goto, Log, store, logs, mem
  <2>7. Reserved(t) /\ Reserved(t)'
    BY <1>12, <2>1, <1>i, <1>c, <1>m DEF Reserved, Working, Undoing, Logged
  <2>8. Logged(t)'
    BY <2>1, <2>4, <1>c, <1>i, <1>m, <1>12 DEF Logged, Before, RollingBack, Undoing
  <2>9. PreImages(t)'
    BY <2>1, <2>2, <2>4, <2>5, <1>c, <1>i, <1>m, <1>12 DEF PreImages, Staged, Logged, Undoing
  <2>10. /\ pc'[t] \in Working => pc[t] \in Working /\ retry'[t] = retry[t]
         /\ pc'[t] \in Working \ {"stage"} => pc[t] \in Working \ {"stage"}
         /\ pc'[t] \in Marking => pc[t] \in Marking
         /\ pc'[t] \in Adding => pc[t] \in Adding
         /\ pc'[t] \in Adding \ {"addBlobs"} => pc[t] \in Adding \ {"addBlobs"}
         /\ pc[t] \in Adding \/ tlog[t] > commitAddedNodes =>
              pc'[t] \in Adding \/ tlog'[t] > commitAddedNodes
    BY <2>1, <2>5, <1>c, <1>i, <1>m DEF Working, Marking, Adding, Logged
  <2> QED
    BY <2>1, <2>3, <2>4, <2>5, <2>7, <2>8, <2>9, <2>10, WorkStep
<1> QED
  BY <1>1, <1>2, <1>3, <1>4, <1>5, <1>6, <1>7, <1>8, <1>9, <1>10, <1>11, <1>12

-----------------------------------------------------------------------------
(* After the point of no return. *)

\* A committed transaction keeps what the invariant says of it while it cleans up.
LEMMA DoneMine ==
  ASSUME CommitInv, TypeOK', NEW t \in Txn, t \in done, t \in done', t \notin plog',
         pc[t] \notin {"committed", "recovered"},
         pc'[t] \in {"logObsolete", "obsolete", "removeLogs", "committed"} \cup Dead,
         rd'[t] = rd[t], upd'[t] = upd[t],
         \A x \in {"taken", "restored"} : sweep' # <<x, t>>,
         Grow, \A n \in Existing : NodeStep(n),
         KeptHandles(t), KeptBlobs(t), KeptFlips(t), Logged(t)'
  PROVE  Mine(t)'
<1>0. /\ \A n \in W(t) : n \in Node /\ n \in Existing
      /\ Updates[t] \subseteq W(t) /\ Removes[t] \subseteq W(t) /\ Existing \subseteq Node
      /\ Staged(t)' = Staged(t) /\ Staged(t) \subseteq W(t)
  BY Consts DEF Staged
<1>1. /\ ~Reserved(t)' /\ ~Guarded(t)' /\ pc'[t] \notin {"flip", "plogRemove", "lock"}
      /\ pc'[t] \notin Working
  BY DEF Reserved, Undoing, Working, Guarded, Critical, Dead
<1>2. Decided(t)' /\ PreImages(t)' /\ Locked(t)' /\ Staging(t)' /\ InPlace(t)' /\ Covered(t)'
  BY <1>1 DEF Decided, PreImages, Locked, Staging, InPlace, Covered, Cleaning, Dead
<1>3. NewBlobs(t)'
  BY <1>1 DEF NewBlobs
<1>4. Superseded(t)'
  <2> SUFFICES ASSUME NEW n \in Staged(t)
               PROVE  /\ OldID(n, GetActiveID(upd[t][n]))'
                      /\ n \in Updates[t] /\ Registered(n)' =>
                           GetActiveID(registry'[n]) # GetActiveID(upd[t][n])
    BY <1>0 DEF Superseded
  <2>1. n \in Node /\ n \in Existing
    BY <1>0
  <2>2. /\ OldID(n, GetActiveID(upd[t][n]))
        /\ n \in Updates[t] /\ Registered(n) => GetActiveID(registry[n]) # GetActiveID(upd[t][n])
    BY DEF CommitInv, Mine, Superseded
  <2>3. OldID(n, GetActiveID(upd[t][n]))'
    BY <2>1, <2>2, OldIDGrows
  <2> QED
    BY <2>1, <2>2, <2>3 DEF NodeStep
<1>5. ReadOld(t)'
  BY ReadKeeps DEF CommitInv, Mine, TypeInv
<1>6. Removed(t)'
  <2>1. ASSUME NEW n \in Removes[t], Registered(n)'
        PROVE  /\ registry'[n].deleted /\ registry'[n].wip = "none"
               /\ n \in Staged(t) /\ GetActiveID(registry'[n]) = GetActiveID(upd[t][n])
    <3>1. registry'[n] = registry[n]
      BY <2>1 DEF KeptHandles
    <3>2. Registered(n)
      BY <2>1, <3>1 DEF Registered
    <3> QED
      BY <2>1, <3>1, <3>2 DEF CommitInv, Mine, Removed
  <2>2. ASSUME NEW n \in Removes[t]
        PROVE  Flippers(n)' \subseteq rd[t][n].seen
    <3>1. Flippers(n) \subseteq rd[t][n].seen
      BY DEF CommitInv, Mine, Removed
    <3>2. Flippers(n)' \subseteq Flippers(n)
      BY DEF KeptFlips
    <3> QED
      BY <3>1, <3>2
  <2> QED
    BY <1>0, <2>1, <2>2 DEF Removed
<1>7. Added(t)'
  <2> SUFFICES ASSUME NEW n \in Adds[t]
               PROVE  (Registered(n)' => registry'[n] = NewNode) /\ Registered(n)' /\ HasBlob(n, Base)'
    BY DEF Added, NewNode
  <2>1. registry'[n] = registry[n] /\ (HasBlob(n, Base) => HasBlob(n, Base)')
    BY DEF KeptHandles, KeptBlobs
  <2>2. Registered(n)' = Registered(n)
    BY <2>1 DEF Registered
  <2>3. Added(t)
    BY DEF CommitInv, Mine
  <2> QED
    BY <2>1, <2>2, <2>3 DEF Added
<1> QED
  BY <1>2, <1>3, <1>4, <1>5, <1>6, <1>7 DEF Mine

\* A transaction in its clean-up is committed; its priority log is gone.
LEMMA DoneFacts ==
  ASSUME CommitInv, NEW t \in Txn, t \in done
  PROVE  /\ t \notin plog /\ \A x \in {"taken", "restored"} : sweep # <<x, t>>
         /\ \A n : Flipped(t, n)
         /\ pc[t] \notin Working /\ pc[t] # "plogRemove" /\ ~Reserved(t)
<1>1. PreImages(t) /\ Decided(t)
  BY DEF CommitInv, Mine
<1>2. pc[t] \notin Working /\ pc[t] # "plogRemove" /\ ~Reserved(t)
  BY <1>1 DEF Decided, Cleaning, Dead, Working, Reserved, Undoing
<1> QED
  BY <1>1, <1>2 DEF PreImages, Flipped

\* Unlocking, logging the clean-up and removing the logs.
LEMMA DoneActions ==
  ASSUME CommitInv, TypeInv', NEW t \in Txn,
         UnlockNodes(t) \/ LogObsolete(t) \/ RemoveLogs(t) \/ (RecoverLogs(t) /\ t \in done)
  PROVE  CommitInv'
<1>0. /\ pc \in [Txn -> Points] /\ tlog \in [Txn -> 0..12] /\ keys \in [Txn -> BOOLEAN]
      /\ lock \in [Node -> Txn \cup {Free}]
  BY CodeOrder DEF CommitInv, TypeInv, TypeOK
<1>1. /\ pc[t] \in {"unlock", "logObsolete", "removeLogs", "rcLogs"}
      /\ pc'[t] \in {"logObsolete", "obsolete", "committed", "recovered"}
      /\ pc'[t] = "recovered" <=> pc[t] = "rcLogs"
      /\ pc'[t] \in {"logObsolete", "obsolete"} <=> pc[t] \in {"unlock", "logObsolete"}
      /\ pc'[t] = "logObsolete" => tlog'[t] = tlog[t] /\ pc[t] = "unlock"
      /\ pc'[t] = "obsolete" => tlog'[t] = deleteObsoleteEntries
  BY <1>0, CodeOrder DEF UnlockNodes, LogObsolete, RemoveLogs, RecoverLogs, Goto, Log, logs
<1>2. /\ registry' = registry /\ blobs' = blobs /\ done' = done /\ sweep' = sweep
      /\ plog' = plog /\ rd' = rd /\ upd' = upd
  BY DEF UnlockNodes, LogObsolete, RemoveLogs, RecoverLogs, store, logs, mem
<1>3. \A u \in Txn \ {t} : Same(u)
  BY <1>0 DEF Same, UnlockNodes, LogObsolete, RemoveLogs, RecoverLogs, Goto, Log, logs, mem
<1>4. LockMove(t)
  BY <1>0 DEF LockMove, UnlockNodes, LogObsolete, RemoveLogs, RecoverLogs, Release
<1>5. t \in done
  BY <1>1 DEF CommitInv, Mine, Decided, Cleaning, RecoverLogs, UnlockNodes, LogObsolete, RemoveLogs
<1>6. /\ t \notin plog /\ \A x \in {"taken", "restored"} : sweep # <<x, t>>
      /\ \A n : Flipped(t, n)
  BY <1>5, DoneFacts
<1>7. \A n : Flipped(t, n)'
  BY <1>2, <1>5 DEF Flipped
<1>8. \A n \in Node : Flippers(n)' = Flippers(n)
  BY <1>3, <1>6, <1>7, FlippersStep
<1>9. Calm
  <2>1. ASSUME NEW n \in Existing, Registered(n) PROVE Untouched(n)
    BY <1>2, <2>1, Slots DEF Untouched, Registered
  <2> QED
    BY <1>2, <1>8, <2>1 DEF Calm, Registered
<1>10. Grow /\ \A n \in Existing : NodeStep(n)
  BY <1>9, CalmNodes DEF TypeInv
<1>11. KeptHandles(t) /\ KeptBlobs(t) /\ KeptFlips(t)
  <2>1. KeptFlips(t)
    BY <1>8, Consts DEF KeptFlips
  <2> QED
    BY <1>2, <2>1 DEF KeptHandles, KeptBlobs, HasBlob
<1>12. Logged(t)'
  <2>1. Logged(t)
    BY DEF CommitInv, Mine
  <2> QED
    BY <1>1, <1>2, <1>5, <2>1, CodeOrder DEF Logged, Before, RollingBack, Dead
<1>13. Mine(t)'
  <2>1. /\ pc[t] \notin {"committed", "recovered"}
        /\ pc'[t] \in {"logObsolete", "obsolete", "removeLogs", "committed"} \cup Dead
    BY <1>1 DEF Dead
  <2> QED
    BY <1>2, <1>5, <1>6, <1>10, <1>11, <1>12, <2>1, DoneMine DEF TypeInv
<1>14. ASSUME NEW b \in blobs, Owns(t, b) PROVE Owned(b)'
  <2>0. ~Reserved(t)
    BY <1>5, DoneFacts
  <2>1. /\ b.node \in Staged(t) /\ b.id = ObsoleteID(t, b.node)
        /\ pc[t] \in {"unlock", "logObsolete"}
    BY <1>1, <1>14, <2>0 DEF Owns
  <2>2. b.node \in Staged(t)' /\ b.id = ObsoleteID(t, b.node)'
    BY <1>2, <2>1 DEF Staged, ObsoleteID, Final
  <2>3. Owns(t, b)'
    BY <1>1, <1>2, <1>5, <2>1, <2>2 DEF Owns
  <2> QED
    BY <2>3 DEF Owned
<1>15. pc[t] \in Dead => pc'[t] \in Dead
  BY <1>1 DEF Dead
<1> QED
  BY <1>2, <1>3, <1>4, <1>6, <1>7, <1>13, <1>14, <1>15, Quiet

-----------------------------------------------------------------------------
(* Who may write a handle. *)

\* Two transactions that hold their locks write different nodes.
LEMMA Exclusive ==
  ASSUME CommitInv, NEW t \in Txn, NEW u \in Txn, t # u, Guarded(t), Guarded(u),
         NEW n \in W(t)
  PROVE  n \notin W(u)
BY DEF CommitInv, Mine, Locked

\* The handle of a node whose removal committed is nobody's to reserve, flip or restore.
LEMMA RemovedAlone ==
  ASSUME CommitInv, OneRemover, NEW w \in done, NEW n \in Removes[w], Registered(n)
  PROVE  /\ registry[n].deleted /\ registry[n].wip = "none"
         /\ \A v : ~Reservable(registry[n], v)
         /\ \A u \in Txn \ {w} : /\ n \notin Removes[u]
                                 /\ Reserved(u) \/ pc[u] = "plogRemove" => n \notin W(u)
                                 /\ u \in plog /\ pc[u] = "crashed" => n \notin Staged(u)
<1>0. w \in Txn /\ Removed(w)
  BY DEF CommitInv, Mine, TypeInv, TypeOK
<1>1. registry[n].deleted /\ registry[n].wip = "none"
  BY <1>0 DEF Removed
<1>2. \A v : ~Reservable(registry[n], v)
  BY <1>1 DEF Reservable, IsExpiredInactive
<1>3. ASSUME NEW u \in Txn, u # w
      PROVE  /\ n \notin Removes[u]
             /\ Reserved(u) \/ pc[u] = "plogRemove" => n \notin W(u)
             /\ u \in plog /\ pc[u] = "crashed" => n \notin Staged(u)
  <2>1. n \notin Removes[u]
    BY <1>0, <1>3 DEF OneRemover
  <2>2. Staged(u) \subseteq W(u) /\ W(u) \subseteq Updates[u] \cup Removes[u] /\ n \in Node
    BY <1>0, Consts DEF Staged
  <2>3. ASSUME Reserved(u) \/ pc[u] = "plogRemove", n \in W(u) PROVE FALSE
    <3>1. n \in Updates[u]
      BY <2>1, <2>2, <2>3
    <3>2. /\ Staging(u) /\ InPlace(u) /\ upd[u] \in [Node -> Handles \cup {NoHandle}]
      BY DEF CommitInv, Mine, TypeInv, TypeOK
    <3>3. n \in Staged(u) /\ ~upd[u][n].deleted
      BY <2>3, <3>1, <3>2 DEF Staging, StagedAs
    <3>4. upd[u][n] \in Handles
      BY <2>2, <3>2, <3>3 DEF Staged
    <3>5. registry[n] = upd[u][n] \/ registry[n] = Final(u, n)
      BY <2>3, <3>2, <3>3 DEF InPlace, Waiting, Flipped, Reserved
    <3>6. ~Final(u, n).deleted
      BY <3>1, <3>3, <3>4 DEF Final, Activate, FlipActiveID, Handles, HandleOf
    <3> QED
      BY <1>1, <3>3, <3>5, <3>6
  <2>4. ASSUME u \in plog, pc[u] = "crashed", n \in Staged(u) PROVE FALSE
    <3>1. Covered(u) /\ upd[u] \in [Node -> Handles \cup {NoHandle}]
      BY DEF CommitInv, Mine, TypeInv, TypeOK
    <3>2. LikeHandle(registry[n], upd[u][n]) /\ ~upd[u][n].deleted
      BY <2>1, <2>2, <2>4, <3>1 DEF Covered
    <3>3. upd[u][n] \in Handles
      BY <2>2, <2>4, <3>1 DEF Staged
    <3> QED
      BY <1>1, <3>2, <3>3 DEF LikeHandle, Handles, HandleOf
  <2> QED
    BY <2>1, <2>3, <2>4
<1> QED
  BY <1>0, <1>1, <1>2, <1>3

\* A transaction that holds its locks writes its own nodes only, and none that a
\* committed removal has marked.
OwnWrites(t) ==
  /\ \A n \in Node : n \notin W(t) /\ n \notin Adds[t] => registry'[n] = registry[n]
  /\ \A n \in W(t) :
       /\ Registered(n) /\ (\E w \in done : n \in Removes[w]) => registry'[n] = registry[n]
       /\ ~Registered(n) => ~Registered(n)'

\* Such writes touch no handle on which another transaction relies.
LEMMA OwnWritesBeside ==
  ASSUME CommitInv, OneRemover, NEW t \in Txn, NEW u \in Txn, u # t, Guarded(t), OwnWrites(t)
  PROVE  KeptHandles(u)
<1>0. /\ W(u) \subseteq Node /\ Adds[u] \subseteq Node /\ W(t) \cap Adds[u] = {}
      /\ W(u) \cap Adds[t] = {} /\ Adds[u] \cap Adds[t] = {} /\ Removes[u] \subseteq W(u)
      /\ Staged(u) \subseteq W(u) /\ Free \notin Txn
  BY Consts DEF Staged
<1>1. ASSUME Reserved(u) \/ pc[u] = "plogRemove", NEW n \in W(u)
      PROVE  registry'[n] = registry[n]
  <2>1. Guarded(u)
    BY <1>1 DEF Reserved, Guarded, Working, Critical
  <2>2. n \notin W(t)
    BY <2>1, Exclusive
  <2> QED
    BY <1>0, <2>2 DEF OwnWrites
<1>2. ASSUME u \in plog, pc[u] = "crashed", NEW n \in Staged(u)
      PROVE  registry'[n] = registry[n]
  <2>1. lock[n] \in {u, Free}
    BY <1>2 DEF CommitInv, Mine, Covered
  <2>2. \A m \in W(t) : lock[m] = t
    BY DEF CommitInv, Mine, Locked
  <2> QED
    BY <1>0, <2>1, <2>2 DEF OwnWrites
<1>3. ASSUME u \in done, NEW n \in Removes[u]
      PROVE  registry'[n] = registry[n] \/ ~Registered(n)'
  BY <1>0, <1>3 DEF OwnWrites
<1>4. ASSUME NEW n \in Adds[u]
      PROVE  registry'[n] = registry[n]
  BY <1>0 DEF OwnWrites
<1> QED
  BY <1>1, <1>2, <1>3, <1>4 DEF KeptHandles

\* Reserving the slots of some of its nodes changes nothing visible, and touches no
\* handle on which another relies.
LEMMA ReserveWrites ==
  ASSUME CommitInv, OneRemover, NEW t \in Txn, pc[t] = "update", AllReservable(t),
         NEW S \in SUBSET Updates[t], registry' = Written(S, ReservedBy(t)),
         blobs' = blobs, done' = done, \A n \in Node : Flippers(n)' = Flippers(n)
  PROVE  /\ Calm /\ OwnWrites(t)
         /\ \A b \in blobs : IsActive(b) => IsActive(b)'
         /\ \A n \in Adds[t] : registry'[n] = registry[n]
         /\ \A n \in Updates[t] :
              /\ Registered(n) /\ registry[n].version = rd[t][n].ver
              /\ registry[n] \in Handles /\ OldID(n, GetActiveID(registry[n]))
              /\ GetActiveID(registry[n]) # NewID(t)
<1>0. /\ Updates[t] \subseteq Node /\ Updates[t] \subseteq Existing /\ Existing \subseteq Node
      /\ Updates[t] \subseteq W(t) /\ W(t) \subseteq Existing /\ Updates[t] \cap Adds[t] = {}
      /\ Adds[t] \subseteq Node
  BY Consts
<1>1. Idle(t) /\ \A n \in Updates[t] : ~Flipped(t, n)
  <2>1. Idle(t)
    BY IdleAt
  <2> QED
    BY <2>1, IdleFacts
<1>2. NewID(t) \in Txn \X Nat /\ NewID(t) \in PhysID
  BY DEF NewID, CommitInv, TypeInv, TypeOK, PhysID
<1>3. ASSUME NEW n \in Updates[t]
      PROVE  /\ Registered(n) /\ registry[n].version = rd[t][n].ver
             /\ registry[n] \in Handles /\ OldID(n, GetActiveID(registry[n]))
             /\ GetActiveID(registry[n]) # NewID(t)
             /\ ~\E w \in done : n \in Removes[w]
  <2>1. Registered(n) /\ Reservable(registry[n], rd[t][n].ver)
    BY DEF AllReservable
  <2>2. Whole(n) /\ registry[n] \in Handles
    BY <1>0, <2>1, Slots
  <2>3. OldID(n, GetActiveID(registry[n]))
    BY <2>2 DEF Whole
  <2>4. t \notin Flippers(n)
    BY <1>1 DEF Flippers
  <2>5. GetActiveID(registry[n]) # NewID(t)
    BY <1>2, <2>3, <2>4, Consts DEF OldID, NewID
  <2>6. ~\E w \in done : n \in Removes[w]
    BY <2>1, RemovedAlone
  <2> QED
    BY <2>1, <2>2, <2>3, <2>5, <2>6 DEF Reservable
<1>4. \A n \in Node : registry'[n] = IF n \in S THEN Reserve(registry[n], NewID(t)) ELSE registry[n]
  BY <1>0 DEF Written, ReservedBy
<1>5. ASSUME NEW n \in S
      PROVE  /\ Registered(n)' /\ GetActiveID(registry'[n]) = GetActiveID(registry[n])
             /\ registry'[n].version = registry[n].version
             /\ GetInActiveID(registry'[n]) = NewID(t)
  <2>1. registry'[n] = Reserve(registry[n], NewID(t)) /\ registry[n] \in Handles /\ n \in Updates[t]
    BY <1>0, <1>3, <1>4
  <2>2. Registered(n)'
    <3>1. Reserve(registry[n], NewID(t)) \in Handles
      BY <2>1, <1>2, HandleOps
    <3> QED
      BY <2>1, <3>1, Consts DEF Registered
  <2> QED
    BY <2>1, <2>2, <1>2, HandleFacts
<1>6. OwnWrites(t)
  <2>1. \A n \in Node : n \notin Updates[t] => registry'[n] = registry[n]
    BY <1>4
  <2>2. ASSUME NEW n \in W(t)
        PROVE  /\ Registered(n) /\ (\E w \in done : n \in Removes[w]) => registry'[n] = registry[n]
               /\ ~Registered(n) => ~Registered(n)'
    <3>1. CASE n \in Updates[t]
      BY <1>3, <3>1
    <3>2. CASE n \notin Updates[t]
      BY <1>0, <2>1, <3>2 DEF Registered
    <3> QED
      BY <3>1, <3>2
  <2> QED
    BY <1>0, <2>1, <2>2 DEF OwnWrites
<1>7. ASSUME NEW n \in Existing
      PROVE  (Registered(n) => Untouched(n)) /\ (~Registered(n) => ~Registered(n)')
  <2>1. CASE n \in S
    BY <1>3, <1>5, <2>1 DEF Untouched
  <2>2. CASE n \notin S
    <3>1. registry'[n] = registry[n]
      BY <1>0, <1>4, <2>2
    <3> QED
      BY <3>1, Slots DEF Untouched, Registered
  <2> QED
    BY <2>1, <2>2
<1>8. Calm
  BY <1>7 DEF Calm
<1>9. \A n \in Adds[t] : registry'[n] = registry[n]
  BY <1>0, <1>4
<1>10. ASSUME NEW b \in blobs, IsActive(b) PROVE IsActive(b)'
  <2>1. b.node \in Node
    BY DEF CommitInv, TypeInv, TypeOK, Blob
  <2> QED
    BY <1>4, <1>5, <1>10, <2>1 DEF IsActive, Registered
<1> QED
  BY <1>3, <1>6, <1>8, <1>9, <1>10

-----------------------------------------------------------------------------
(* Reserving the slots, and dying. *)

\* What is left of the invariant for a dead transaction without a priority log.
LEMMA LostMine ==
  ASSUME NEW t \in Txn, pc'[t] \in Dead, t \notin done', t \notin plog',
         \A x \in {"taken", "restored"} : sweep' # <<x, t>>,
         tlog'[t] <= beforeFinalize, ReadOld(t)',
         \A n \in Adds[t] : Registered(n)' => registry'[n] = NewNode
  PROVE  Mine(t)'
<1>1. /\ pc'[t] \notin Working /\ ~Reserved(t)' /\ ~Guarded(t)' /\ pc'[t] \notin Adding
      /\ pc'[t] \notin {"lock", "flip", "plogRemove"}
  BY DEF Dead, Working, Reserved, Undoing, Guarded, Critical, Adding
<1>2. Logged(t)'
  BY CodeOrder DEF Logged, Dead, Before, RollingBack
<1>3. Decided(t)' /\ PreImages(t)' /\ Locked(t)' /\ Staging(t)' /\ InPlace(t)'
  BY <1>1 DEF Decided, PreImages, Locked, Staging, InPlace, Cleaning, Dead
<1>4. Superseded(t)' /\ Covered(t)' /\ NewBlobs(t)' /\ Removed(t)' /\ Added(t)'
  BY <1>1 DEF Superseded, Covered, NewBlobs, Removed, Added, NewNode
<1> QED
  BY <1>2, <1>3, <1>4 DEF Mine

\* The step that records the new IDs in the registry.
LEMMA ReserveUpdatedStep ==
  ASSUME CommitInv, TypeInv', OneRemover, NEW t \in Txn, ReserveUpdated(t)
  PROVE  CommitInv'
<1>0. /\ pc \in [Txn -> Points] /\ upd \in [Txn -> [Node -> Handles \cup {NoHandle}]]
      /\ Updates[t] \subseteq Node /\ Updates[t] \subseteq W(t)
      /\ Updates[t] \cap Removes[t] = {} /\ NoHandle \notin Handles
      /\ NewID(t) \in PhysID
  BY Consts DEF CommitInv, TypeInv, TypeOK, NewID, PhysID
<1>1. /\ pc[t] = "update" /\ pc'[t] = "stage" /\ AllReservable(t)
      /\ registry' = Written(Updates[t], ReservedBy(t))
      /\ blobs' = blobs /\ lock' = lock /\ tlog' = tlog /\ plog' = plog /\ done' = done
      /\ rd' = rd /\ retry' = retry /\ keys' = keys /\ sweep' = sweep
  BY <1>0 DEF ReserveUpdated, Goto, logs
<1>2. \A n \in Node : upd'[t][n] = IF n \in Updates[t] THEN registry'[n] ELSE NoHandle
  BY <1>0, <1>1 DEF ReserveUpdated, Written, ReservedBy
<1>3. \A u \in Txn \ {t} : Same(u)
  BY <1>0 DEF Same, ReserveUpdated, Goto, logs
<1>4. Idle(t)
  BY <1>1, IdleAt
<1>5. /\ \A n \in Updates[t] : ~Flipped(t, n)
      /\ \A b : ~Owns(t, b)
      /\ \A n \in Adds[t] : ~Registered(n)
      /\ \A x \in {"taken", "restored"} : sweep # <<x, t>>
      /\ pc[t] \notin Dead
  BY <1>4, IdleFacts
<1>6. \A n \in Updates[t] : ~Flipped(t, n)'
  BY <1>1, <1>4 DEF Flipped, Idle
<1>7. \A n \in Node : Flippers(n)' = Flippers(n)
  BY <1>3, <1>5, <1>6, FlippersStep
<1>8. /\ Calm /\ OwnWrites(t)
      /\ \A b \in blobs : IsActive(b) => IsActive(b)'
      /\ \A n \in Adds[t] : registry'[n] = registry[n]
      /\ \A n \in Updates[t] :
           /\ Registered(n) /\ registry[n].version = rd[t][n].ver
           /\ registry[n] \in Handles /\ OldID(n, GetActiveID(registry[n]))
           /\ GetActiveID(registry[n]) # NewID(t)
  BY <1>1, <1>7, ReserveWrites
<1>9. Nodes' /\ Grow /\ \A n \in Existing : NodeStep(n)
  BY <1>8, CalmNodes DEF TypeInv
<1>10. Contents'
  BY <1>1, <1>9, FewerContents
<1>11. Guarded(t)
  BY <1>1 DEF Guarded, Critical
<1>12. ASSUME NEW u \in Txn \ {t} PROVE Beside(u)
  <2>1. KeptHandles(u)
    BY <1>8, <1>11, OwnWritesBeside
  <2>2. KeptLocks(u) /\ KeptBlobs(u)
    BY <1>1 DEF KeptLocks, KeptBlobs, HasBlob
  <2>3. KeptFlips(u)
    BY <1>7, Consts DEF KeptFlips
  <2> QED
    BY <1>3, <2>1, <2>2, <2>3 DEF Beside
<1>13. Owners'
  BY <1>1, <1>3, <1>5, <1>8, OwnersStep DEF Owned
<1>14. Mine(t)'
  <2>1. Staged(t)' = Updates[t]
    <3>1. \A n \in W(t) : n \in Node
      BY Consts
    <3>2. ASSUME NEW n \in Updates[t] PROVE registry'[n] # NoHandle
      <4>1. n \in Node /\ registry'[n] = Reserve(registry[n], NewID(t))
        BY <1>0, <1>1 DEF Written, ReservedBy
      <4>2. Reserve(registry[n], NewID(t)) \in Handles
        BY <1>0, <1>8, HandleOps
      <4> QED
        BY <1>0, <4>1, <4>2
    <3> QED
      BY <1>0, <1>2, <3>1, <3>2 DEF Staged
  <2>2. ASSUME NEW n \in Updates[t]
        PROVE  /\ upd'[t][n] = registry'[n] /\ StagedAs(t, n)'
    <3>1. upd'[t][n] = Reserve(registry[n], NewID(t)) /\ upd'[t][n] = registry'[n]
      BY <1>0, <1>1, <1>2 DEF Written, ReservedBy
    <3>2. /\ GetActiveID(upd'[t][n]) = GetActiveID(registry[n])
          /\ GetInActiveID(upd'[t][n]) = NewID(t)
          /\ upd'[t][n].version = registry[n].version /\ ~upd'[t][n].deleted
      <4>1. registry[n] \in Handles /\ NewID(t) \in PhysID
        BY <1>0, <1>8
      <4>2. /\ GetActiveID(Reserve(registry[n], NewID(t))) = GetActiveID(registry[n])
            /\ GetInActiveID(Reserve(registry[n], NewID(t))) = NewID(t)
            /\ Reserve(registry[n], NewID(t)).version = registry[n].version
            /\ ~Reserve(registry[n], NewID(t)).deleted
        BY <4>1, HandleFacts, Zenon
      <4> QED
        BY <3>1, <4>2
    <3>3. NewID(t)' = NewID(t)
      BY <1>1 DEF NewID
    <3>4. OldID(n, GetActiveID(upd[t][n]))'
      <4>1. OldID(n, GetActiveID(registry[n])) /\ Flippers(n)' = Flippers(n)
        BY <1>0, <1>7, <1>8
      <4> QED
        BY <3>2, <4>1 DEF OldID
    <3>5. n \notin Removes[t]
      BY <1>0
    <3> QED
      BY <1>1, <1>8, <3>1, <3>2, <3>3, <3>4, <3>5 DEF StagedAs
  <2>3. Staging(t)' /\ InPlace(t)'
    BY <1>1, <2>1, <2>2 DEF Staging, InPlace, Marking
  <2>4. Logged(t)'
    <3>1. Logged(t)
      BY DEF CommitInv, Mine
    <3> QED
      BY <1>1, <3>1 DEF Logged, Before, RollingBack, Dead
  <2>5. t \notin done' /\ t \notin plog'
    BY <1>1, <1>4 DEF Idle
  <2>6. Decided(t)' /\ PreImages(t)'
    BY <1>1, <1>5, <2>5 DEF Decided, PreImages, Cleaning
  <2>7. Locked(t)'
    <3>1. Locked(t)
      BY DEF CommitInv, Mine
    <3> QED
      BY <1>1, <1>11, <3>1 DEF Locked
  <2>8. Superseded(t)' /\ Covered(t)' /\ NewBlobs(t)' /\ Removed(t)'
    BY <1>1, <2>5 DEF Superseded, Covered, NewBlobs, Removed
  <2>9. ReadOld(t)'
    BY <1>1, <1>9, ReadKeeps DEF CommitInv, Mine, TypeInv
  <2>10. Added(t)'
    BY <1>1, <1>5, <1>8, <2>5 DEF Added, Registered, Adding
  <2> QED
    BY <2>3, <2>4, <2>6, <2>7, <2>8, <2>9, <2>10 DEF Mine
<1> QED
  BY <1>9, <1>10, <1>12, <1>13, <1>14, Assemble

\* A process dies after some of the new IDs went to disk.
LEMMA CrashReservingStep ==
  ASSUME CommitInv, TypeInv', OneRemover, NEW t \in Txn, CrashReserving(t)
  PROVE  CommitInv'
<1>0. pc \in [Txn -> Points] /\ tlog[t] \in 0..deleteObsoleteEntries
  BY DEF CommitInv, TypeInv, TypeOK
<1>1. /\ pc[t] = "update" /\ pc'[t] = "crashed" /\ AllReservable(t)
      /\ blobs' = blobs /\ lock' = lock /\ tlog' = tlog /\ plog' = plog /\ done' = done
      /\ rd' = rd /\ sweep' = sweep
  BY <1>0 DEF CrashReserving, Goto, Forget, logs
<1>2. PICK S \in SUBSET Updates[t] : registry' = Written(S, ReservedBy(t))
  BY DEF CrashReserving
<1>3. \A u \in Txn \ {t} : Same(u)
  BY <1>0 DEF Same, CrashReserving, Goto, Forget, logs, CommitInv, TypeInv, TypeOK
<1>4. Idle(t)
  BY <1>1, IdleAt
<1>5. /\ \A n \in Updates[t] : ~Flipped(t, n)
      /\ \A b : ~Owns(t, b)
      /\ \A n \in Adds[t] : ~Registered(n)
      /\ \A x \in {"taken", "restored"} : sweep # <<x, t>>
      /\ pc[t] \notin Dead
  BY <1>4, IdleFacts
<1>6. \A n \in Updates[t] : ~Flipped(t, n)'
  BY <1>1, <1>4 DEF Flipped, Idle
<1>7. \A n \in Node : Flippers(n)' = Flippers(n)
  BY <1>3, <1>5, <1>6, FlippersStep
<1>8. /\ Calm /\ OwnWrites(t)
      /\ \A b \in blobs : IsActive(b) => IsActive(b)'
      /\ \A n \in Adds[t] : registry'[n] = registry[n]
  BY <1>1, <1>2, <1>7, ReserveWrites
<1>9. Nodes' /\ Grow /\ \A n \in Existing : NodeStep(n)
  BY <1>8, CalmNodes DEF TypeInv
<1>10. Contents'
  BY <1>1, <1>9, FewerContents
<1>11. Guarded(t)
  BY <1>1 DEF Guarded, Critical
<1>12. ASSUME NEW u \in Txn \ {t} PROVE Beside(u)
  <2>1. KeptHandles(u)
    BY <1>8, <1>11, OwnWritesBeside
  <2>2. KeptLocks(u) /\ KeptBlobs(u)
    BY <1>1 DEF KeptLocks, KeptBlobs, HasBlob
  <2>3. KeptFlips(u)
    BY <1>7, Consts DEF KeptFlips
  <2> QED
    BY <1>3, <2>1, <2>2, <2>3 DEF Beside
<1>13. Owners'
  BY <1>1, <1>3, <1>5, <1>8, OwnersStep DEF Owned
<1>14. Mine(t)'
  <2>1. ReadOld(t)'
    BY <1>1, <1>9, ReadKeeps DEF CommitInv, Mine, TypeInv
  <2>2. tlog'[t] <= beforeFinalize
    BY <1>1, CodeOrder DEF CommitInv, Mine, Logged
  <2>3. \A n \in Adds[t] : ~Registered(n)'
    BY <1>5, <1>8 DEF Registered
  <2>4. pc'[t] \in Dead /\ t \notin done' /\ t \notin plog'
    BY <1>1, <1>4 DEF Dead, Idle
  <2> QED
    BY <1>1, <1>5, <2>1, <2>2, <2>3, <2>4, LostMine
<1> QED
  BY <1>9, <1>10, <1>12, <1>13, <1>14, Assemble

\* A process dies anywhere but while it finalises its handles.
LEMMA CrashStep ==
  ASSUME Orderly, CommitInv, TypeInv', NEW t \in Txn, Crash(t)
  PROVE  CommitInv'
<1>0. /\ pc \in [Txn -> Points] /\ tlog[t] \in 0..deleteObsoleteEntries
      /\ upd[t] \in [Node -> Handles \cup {NoHandle}] /\ W(t) \subseteq Node
  BY Consts DEF CommitInv, TypeInv, TypeOK
<1>1. /\ pc[t] \in CrashAt /\ pc'[t] = "crashed" /\ registry' = registry
      /\ blobs' = blobs /\ lock' = lock /\ tlog' = tlog /\ plog' = plog /\ done' = done
      /\ rd' = rd /\ upd' = upd /\ sweep' = sweep
  BY <1>0 DEF Crash, Goto, Forget, logs, store
<1>2. /\ pc[t] \notin {"flip", "restore", "plogRemove", "unlock", "logObsolete"}
      /\ pc[t] \notin {"committed", "aborted", "crashed", "recovered"}
  BY <1>1, ConstAssumption DEF Orderly
<1>3. \A u \in Txn \ {t} : Same(u)
  BY <1>0 DEF Same, Crash, Goto, Forget, logs, CommitInv, TypeInv, TypeOK
<1>4. /\ Logged(t) /\ Decided(t) /\ PreImages(t) /\ Added(t) /\ Superseded(t) /\ Removed(t)
      /\ ReadOld(t)
  BY DEF CommitInv, Mine
<1>5. \A n : Flipped(t, n)' <=> Flipped(t, n)
  BY <1>1, <1>2 DEF Flipped
<1>6. \A x \in {"taken", "restored"} : sweep # <<x, t>>
  BY <1>2, <1>4 DEF PreImages
<1>7. pc'[t] \in Dead /\ \A b \in blobs : Owned(b)'
  BY <1>1 DEF Dead, Owned
<1>8. \A n \in Node : Flippers(n)' = Flippers(n)
  BY <1>3, <1>5, FlippersStep
<1>9. Calm
  <2>1. ASSUME NEW n \in Existing, Registered(n) PROVE Untouched(n)
    BY <1>1, <2>1, Slots DEF Untouched, Registered
  <2> QED
    BY <1>1, <1>8, <2>1 DEF Calm, Registered
<1>10. Grow /\ \A n \in Existing : NodeStep(n)
  BY <1>9, CalmNodes DEF TypeInv
<1>11. Mine(t)'
  <2>1. CASE t \in done
    <3>1. t \notin plog
      BY <2>1, DoneFacts
    <3>2. pc[t] \in {"obsolete", "removeLogs", "rcLogs"}
      BY <1>2, <1>4, <2>1 DEF Decided, Logged, Cleaning, Dead
    <3>3. Logged(t)'
      BY <1>1, <1>4, <2>1, <3>2, CodeOrder DEF Logged, Before, RollingBack
    <3>4. KeptHandles(t) /\ KeptBlobs(t)
      BY <1>1 DEF KeptHandles, KeptBlobs, HasBlob
    <3>5. KeptFlips(t)
      BY <1>8, Consts DEF KeptFlips
    <3>6. pc[t] \notin {"committed", "recovered"}
      BY <3>2
    <3> QED
      BY <1>1, <1>6, <1>7, <1>10, <2>1, <3>1, <3>3, <3>4, <3>5, <3>6, DoneMine DEF TypeInv
  <2>2. CASE t \notin done
    <3>1. ReadOld(t)'
      BY <1>1, <1>4, <1>10, ReadKeeps DEF CommitInv, TypeInv
    <3>2. tlog[t] <= beforeFinalize
      <4>1. pc[t] \in Before \cup {"update"} \cup Working \cup RollingBack \cup Cleaning \cup Dead
        BY <1>0, <1>2, <1>4 DEF Points, Before, Working, RollingBack, Cleaning, Dead, Logged
      <4> QED
        BY <1>0, <1>2, <1>4, <2>2, <4>1, CodeOrder DEF Logged, Decided, Working, Before
    <3>3. \A n \in Adds[t] : Registered(n)' => registry'[n] = NewNode
      BY <1>1, <1>4 DEF Added, Registered
    <3>4. CASE t \notin plog
      BY <1>1, <1>6, <1>7, <2>2, <3>1, <3>2, <3>3, <3>4, LostMine
    <3>5. CASE t \in plog
      <4>1. Reserved(t) /\ pc[t] # "flip"
        BY <1>2, <1>4, <3>5, CodeOrder DEF PreImages, Reserved, Working, Undoing
      <4>2. /\ \A n \in W(t) : lock[n] = t
            /\ \A n \in Staged(t) : StagedAs(t, n)
            /\ \A n \in Staged(t) : registry[n] = upd[t][n]
            /\ Staged(t) \subseteq W(t) /\ \A n \in Staged(t) : upd[t][n] \in Handles
        BY <4>1, WorkFacts DEF Waiting
      <4>3. Covered(t)'
        <5>1. Staged(t)' = Staged(t)
          BY <1>1 DEF Staged
        <5>2. ASSUME NEW n \in Staged(t)
              PROVE  /\ lock[n] = t
                     /\ Registered(n)' /\ LikeHandle(registry[n], upd[t][n])
                     /\ n \in Updates[t] => ~upd[t][n].deleted
          BY <1>1, <4>2, Consts DEF LikeHandle, Registered, StagedAs, Handles, HandleOf
        <5> QED
          BY <1>1, <5>1, <5>2 DEF Covered
      <4>4. /\ pc'[t] \notin Working /\ ~Reserved(t)' /\ ~Guarded(t)' /\ pc'[t] \notin Adding
            /\ pc'[t] \notin {"lock", "flip", "plogRemove"}
        BY <1>1 DEF Working, Reserved, Undoing, Guarded, Critical, Adding
      <4>5. Logged(t)'
        BY <1>1, <2>2, <3>2, CodeOrder DEF Logged, Before, RollingBack
      <4>6. Decided(t)' /\ PreImages(t)' /\ Locked(t)' /\ Staging(t)' /\ InPlace(t)'
        <5>1. Staged(t)' = Staged(t) /\ Staged(t) # {}
          BY <1>1, <1>4, <3>5 DEF Staged, PreImages
        <5> QED
          BY <1>1, <1>6, <2>2, <3>5, <4>4, <5>1
            DEF Decided, PreImages, Locked, Staging, InPlace, Cleaning
      <4>7. Superseded(t)' /\ NewBlobs(t)' /\ Removed(t)' /\ Added(t)'
        BY <1>1, <2>2, <3>3, <4>4 DEF Superseded, NewBlobs, Removed, Added, NewNode, Dead
      <4> QED
        BY <3>1, <4>3, <4>5, <4>6, <4>7 DEF Mine
    <3> QED
      BY <3>4, <3>5
  <2> QED
    BY <2>1, <2>2
<1>12. LockMove(t)
  BY <1>1 DEF LockMove
<1> QED
  BY <1>1, <1>3, <1>5, <1>7, <1>11, <1>12, Quiet

-----------------------------------------------------------------------------
(* Writing the blobs, the delete marks and the new nodes. *)

\* What one step of a transaction that holds its locks means for another.
LEMMA GuardedBeside ==
  ASSUME CommitInv, OneRemover, NEW t \in Txn, NEW u \in Txn, u # t, Guarded(t), Same(u),
         OwnWrites(t), LockMove(t), KeptBlobs(u), \A n \in Node : Flippers(n)' = Flippers(n)
  PROVE  Beside(u)
<1>1. KeptHandles(u)
  BY OwnWritesBeside
<1>2. KeptLocks(u)
  BY LockMoveKeeps
<1>3. KeptFlips(u)
  BY Consts DEF KeptFlips
<1> QED
  BY <1>1, <1>2, <1>3 DEF Beside

\* What a transaction read of a node it staged is what the node holds.
LEMMA ReadIsPresent ==
  ASSUME CommitInv, NEW t \in Txn, Reserved(t), ~Undoing(t), NEW n \in Staged(t), Waiting(t, n)
  PROVE  /\ n \in Existing /\ Registered(n) /\ registry[n] = upd[t][n]
         /\ rd[t][n].seen = SeenAt(n) /\ SeenAt(n) = Flippers(n)
<1>1. /\ registry[n] = upd[t][n] /\ StagedAs(t, n) /\ n \in W(t) /\ upd[t][n] # NoHandle
  BY WorkFacts DEF Staged
<1>2. n \in Existing /\ n \in Touched(t)
  BY <1>1, Consts DEF Touched
<1>3. Registered(n)
  BY <1>1 DEF Registered
<1>4. rd[t][n] # NotRead
  <2>1. pc[t] \notin {"read"} \cup RollingBack \cup Ended
    BY DEF Reserved, Working, RollingBack, Ended, Dead
  <2> QED
    BY <1>2, <2>1 DEF CommitInv, TypeInv, ReadBeforeUse
<1>5. rd[t][n].seen = SeenAt(n)
  BY <1>1, <1>2, <1>3, <1>4 DEF CommitInv, Mine, ReadOld, StagedAs
<1>6. SeenAt(n) = Flippers(n)
  BY <1>2, <1>3, Slots DEF Whole
<1> QED
  BY <1>1, <1>2, <1>3, <1>5, <1>6

\* The new versions of the updated nodes go to the blob store.
LEMMA StageBlobsStep ==
  ASSUME CommitInv, TypeInv', OneRemover, NEW t \in Txn, StageBlobs(t)
  PROVE  CommitInv'
<1> DEFINE new(n) == [node |-> n, id |-> NewID(t), seen |-> rd[t][n].seen \cup {t}]
<1>0. /\ pc \in [Txn -> Points] /\ NewID(t) \in {t} \X Nat /\ NewID(t) \in Txn \X Nat
      /\ Updates[t] \subseteq Existing
  BY Consts DEF CommitInv, TypeInv, TypeOK, NewID
<1>1. /\ pc[t] = "stage" /\ pc'[t] = "logUpdated" /\ registry' = registry
      /\ blobs' = blobs \cup {new(n) : n \in Updates[t]}
      /\ lock' = lock /\ tlog' = tlog /\ plog' = plog /\ done' = done /\ sweep' = sweep
      /\ rd' = rd /\ upd' = upd /\ keys' = keys /\ retry' = retry
  BY <1>0 DEF StageBlobs, Goto, logs, mem
<1>2. \A u \in Txn \ {t} : Same(u)
  BY <1>0 DEF Same, StageBlobs, Goto, logs, mem
<1>3. Reserved(t) /\ Reserved(t)' /\ ~Undoing(t) /\ \A n : Waiting(t, n) /\ Waiting(t, n)'
  BY <1>1 DEF Reserved, Working, Undoing, Waiting
<1>4. /\ t \notin done /\ pc[t] \notin Dead /\ Guarded(t)
      /\ \A x \in {"taken", "restored"} : sweep # <<x, t>>
      /\ Updates[t] \subseteq Staged(t) /\ \A n \in Staged(t) : StagedAs(t, n)
  BY <1>3, WorkFacts
<1>5. \A n \in Updates[t] : ~Flipped(t, n) /\ ~Flipped(t, n)'
  BY <1>1, <1>4 DEF Flipped
<1>6. \A n \in Node : Flippers(n)' = Flippers(n)
  BY <1>2, <1>5, FlippersStep
<1> HIDE DEF new
<1>7. \A n \in Updates[t] : new(n).node = n /\ new(n).id = NewID(t) /\ new(n).seen = rd[t][n].seen \cup {t}
  BY DEF new
<1>8. ASSUME NEW n \in Existing, Registered(n) PROVE Untouched(n)
  <2>1. /\ OldID(n, GetActiveID(registry[n]))
        /\ GetInActiveID(registry[n]) # GetActiveID(registry[n])
    BY <1>8, Slots DEF Whole
  <2>2. n \in Updates[t] => t \notin Flippers(n)
    BY <1>5 DEF Flippers
  <2>3. n \in Updates[t] => GetActiveID(registry[n]) # NewID(t)
    BY <1>0, <2>1, <2>2, Consts DEF OldID, NewID
  <2>4. ASSUME NEW b, b.node = n, b.id = GetActiveID(registry[n]) PROVE b \in blobs' <=> b \in blobs
    BY <1>1, <1>7, <2>3, <2>4
  <2> QED
    BY <1>1, <1>8, <2>1, <2>4 DEF Untouched, Registered
<1>9. Calm
  BY <1>1, <1>6, <1>8 DEF Calm, Registered
<1>10. Nodes' /\ Grow /\ \A n \in Existing : NodeStep(n)
  BY <1>9, CalmNodes DEF TypeInv
<1>11. Contents'
  <2> SUFFICES ASSUME NEW b \in blobs'
               PROVE  /\ b.node \in Existing => \A u \in b.seen : SeenBy(b, u)'
                      /\ \A v \in Txn : b.node \in Adds[v] => b.seen = {v} /\ b.id = Base
    BY DEF Contents
  <2>1. CASE b \in blobs
    <3>1. /\ b.node \in Existing => \A u \in b.seen : SeenBy(b, u)
          /\ \A v \in Txn : b.node \in Adds[v] => b.seen = {v} /\ b.id = Base
      BY <2>1 DEF CommitInv, Contents
    <3>2. ASSUME b.node \in Existing, NEW u, SeenBy(b, u) PROVE SeenBy(b, u)'
      BY <1>6, <3>2, Consts DEF SeenBy
    <3> QED
      BY <3>1, <3>2
  <2>2. ASSUME NEW n \in Updates[t], b = new(n) PROVE \A u \in b.seen : SeenBy(b, u)'
    <3>1. rd[t][n].seen = Flippers(n) /\ n \in Node
      BY <1>0, <1>3, <1>4, ReadIsPresent, Consts
    <3>2. b.node = n /\ b.id = NewID(t) /\ b.seen = Flippers(n) \cup {t} /\ Flippers(n)' = Flippers(n)
      BY <1>6, <1>7, <2>2, <3>1
    <3> QED
      BY <1>0, <3>2 DEF SeenBy
  <2>3. ASSUME NEW n \in Updates[t], b = new(n), NEW v \in Txn PROVE b.node \notin Adds[v]
    BY <1>7, <2>3, Consts
  <2> QED
    BY <1>1, <2>1, <2>2, <2>3
<1>12. Mine(t)' /\ \A b : Owns(t, b) => Owns(t, b)'
  <2>1. Logged(t)' /\ PreImages(t)'
    <3>1. Logged(t) /\ PreImages(t)
      BY DEF CommitInv, Mine
    <3> QED
      BY <1>1, <1>4, <3>1 DEF Logged, PreImages, Before, RollingBack, Dead
  <2>2. NewBlobs(t)'
    <3>1. NewID(t)' = NewID(t)
      BY <1>1 DEF NewID
    <3> QED
      BY <1>1, <3>1 DEF NewBlobs, new
  <2>3. Added(t)'
    <3>1. Added(t)
      BY DEF CommitInv, Mine
    <3> QED
      BY <1>1, <1>4, <3>1 DEF Added, Adding, Dead, Registered
  <2>4. /\ pc'[t] \in Working => pc[t] \in Working
        /\ pc'[t] \in Marking => pc[t] \in Marking
        /\ pc[t] # "flip" /\ pc'[t] # "flip"
    BY <1>1 DEF Working, Marking
  <2>5. \A n \in W(t) : lock'[n] = lock[n] /\ registry'[n] = registry[n]
    BY <1>1
  <2> QED
    BY <1>1, <1>3, <1>4, <1>10, <2>1, <2>2, <2>3, <2>4, <2>5, WorkMine DEF TypeInv
<1>13. Owners'
  <2>1. ASSUME NEW n \in Updates[t] PROVE Owned(new(n))'
    <3>1. GetInActiveID(upd[t][n]) = NewID(t)
      BY <1>3, <1>4 DEF StagedAs
    <3>2. Owns(t, new(n))'
      <4>1. Waiting(t, n)' /\ Reserved(t)' /\ upd'[t] = upd[t]
        BY <1>1, <1>3
      <4>2. new(n)' = new(n)
        BY <1>1 DEF new, NewID
      <4> QED
        BY <1>7, <3>1, <4>1, <4>2 DEF Owns
    <3> QED
      BY <3>2 DEF Owned
  <2>2. \A b \in blobs' \ blobs : Owned(b)'
    <3>1. ASSUME NEW b \in blobs' \ blobs PROVE Owned(b)'
      <4>1. PICK n \in Updates[t] : b = new(n)
        BY <1>1
      <4>2. new(n)' = new(n)
        BY <1>1 DEF new, NewID
      <4> QED
        BY <2>1, <4>1, <4>2 DEF Owned, Owns, IsActive
    <3> QED
      BY <3>1
  <2>3. \A b \in blobs : IsActive(b) => IsActive(b)'
    BY <1>1 DEF IsActive, Registered
  <2> QED
    BY <1>2, <1>4, <1>12, <2>2, <2>3, OwnersStep DEF Owned
<1>14. ASSUME NEW u \in Txn, u # t PROVE Beside(u)
  <2>1. OwnWrites(t) /\ LockMove(t)
    BY <1>1 DEF OwnWrites, LockMove, Registered
  <2>2. KeptBlobs(u)
    BY <1>1 DEF KeptBlobs, HasBlob
  <2> QED
    BY <1>2, <1>4, <1>6, <1>14, <2>1, <2>2, GuardedBeside
<1> QED
  BY <1>10, <1>11, <1>12, <1>13, <1>14, Assemble

\* The tentative delete marks: every node to remove is still there, as nobody else
\* removes it.
LEMMA MarkRemovedStep ==
  ASSUME CommitInv, TypeInv', OneRemover, NEW t \in Txn, MarkRemoved(t), Removable(t)
  PROVE  CommitInv'
<1>0. /\ pc \in [Txn -> Points] /\ upd \in [Txn -> [Node -> Handles \cup {NoHandle}]]
      /\ W(t) \subseteq Node /\ W(t) \subseteq Existing /\ Removes[t] \subseteq W(t)
      /\ Updates[t] \cap Removes[t] = {} /\ NoHandle \notin Handles
      /\ Adds[t] \cap Existing = {} /\ Adds[t] \subseteq Node /\ Existing \subseteq Node
      /\ Nil \in PhysID
  BY Consts DEF CommitInv, TypeInv, TypeOK, PhysID
<1>1. /\ pc[t] = "remove" /\ pc'[t] = "logAdded"
      /\ blobs' = blobs /\ lock' = lock /\ tlog' = tlog /\ plog' = plog /\ done' = done
      /\ rd' = rd /\ keys' = keys /\ retry' = retry /\ sweep' = sweep
  BY <1>0 DEF MarkRemoved, Goto, logs
<1>2. \A u \in Txn \ {t} : Same(u)
  BY <1>0 DEF Same, MarkRemoved, Goto, logs
<1>3. Reserved(t) /\ Reserved(t)' /\ ~Undoing(t) /\ ~Undoing(t)' /\ \A n : Waiting(t, n) /\ Waiting(t, n)'
  BY <1>1 DEF Reserved, Working, Undoing, Waiting
<1>4. /\ t \notin done /\ pc[t] \notin Dead /\ Guarded(t)
      /\ \A x \in {"taken", "restored"} : sweep # <<x, t>>
      /\ Updates[t] \subseteq Staged(t) /\ \A n \in Staged(t) : StagedAs(t, n)
      /\ \A n \in Staged(t) : registry[n] = upd[t][n]
      /\ Staged(t) \subseteq W(t)
  BY <1>3, WorkFacts
<1>5. \A n \in Updates[t] : ~Flipped(t, n) /\ ~Flipped(t, n)'
  BY <1>1, <1>4 DEF Flipped
<1>6. \A n \in Node : Flippers(n)' = Flippers(n)
  BY <1>2, <1>5, FlippersStep
<1>7. \A n \in Removes[t] : \A w \in done : n \notin Removes[w]
  BY <1>4 DEF OneRemover, CommitInv, TypeInv, TypeOK
<1>8. \A n \in Removes[t] : Registered(n)
  BY <1>0, <1>7 DEF CommitInv, Nodes
<1>9. \A n \in Node : /\ registry'[n] = IF n \in Removes[t] THEN MarkDeleted(registry[n]) ELSE registry[n]
                      /\ upd'[t][n] = IF n \in Removes[t] THEN registry'[n] ELSE upd[t][n]
  <2>1. /\ registry' = Written(ToMark(t), MarkedBy(t))
        /\ upd' = [upd EXCEPT ![t] = MarkedBy(t)]
    BY DEF MarkRemoved
  <2>2. ToMark(t) = Removes[t]
    BY <1>8 DEF ToMark
  <2>3. \A n \in Node : MarkedBy(t)[n] = IF n \in Removes[t] THEN MarkDeleted(registry[n])
                                                            ELSE upd[t][n]
    BY <2>2 DEF MarkedBy
  <2>4. \A n \in Node : registry'[n] = IF n \in Removes[t] THEN MarkDeleted(registry[n])
                                                           ELSE registry[n]
    BY <2>1, <2>2, <2>3 DEF Written
  <2>5. upd'[t] = MarkedBy(t)
    BY <1>0, <2>1
  <2> QED
    BY <2>3, <2>4, <2>5
<1>10. ASSUME NEW n \in Removes[t]
       PROVE  /\ registry[n] \in Handles /\ registry'[n] \in Handles /\ Registered(n)'
              /\ GetActiveID(registry'[n]) = GetActiveID(registry[n])
              /\ GetInActiveID(registry'[n]) = GetInActiveID(registry[n])
              /\ registry'[n].version = registry[n].version
              /\ registry'[n].deleted /\ registry'[n].wip = "fresh"
              /\ registry[n].version = rd[t][n].ver
              /\ OldID(n, GetActiveID(registry[n]))
              /\ GetInActiveID(registry[n]) # GetActiveID(registry[n])
  <2>1. n \in Existing /\ n \in Node /\ registry'[n] = MarkDeleted(registry[n])
    BY <1>0, <1>9
  <2>2. /\ registry[n] \in Handles /\ OldID(n, GetActiveID(registry[n]))
        /\ GetInActiveID(registry[n]) # GetActiveID(registry[n])
    BY <1>8, <2>1, Slots DEF Whole
  <2>3. /\ MarkDeleted(registry[n]) \in Handles
        /\ GetActiveID(MarkDeleted(registry[n])) = GetActiveID(registry[n])
        /\ GetInActiveID(MarkDeleted(registry[n])) = GetInActiveID(registry[n])
        /\ MarkDeleted(registry[n]).version = registry[n].version
        /\ MarkDeleted(registry[n]).deleted /\ MarkDeleted(registry[n]).wip = "fresh"
    BY <1>0, <2>2, HandleFacts, HandleOps, Zenon
  <2>4. registry[n].version = rd[t][n].ver
    BY <1>8 DEF Removable
  <2> QED
    BY <1>0, <2>1, <2>2, <2>3, <2>4 DEF Registered
<1>11. ASSUME NEW n \in Existing, Registered(n) PROVE Untouched(n)
  <2>1. CASE n \in Removes[t]
    BY <1>1, <1>10, <2>1 DEF Untouched
  <2>2. CASE n \notin Removes[t]
    <3>1. registry'[n] = registry[n]
      BY <1>0, <1>9, <2>2
    <3> QED
      BY <1>1, <1>11, <3>1, Slots DEF Untouched, Registered
  <2> QED
    BY <2>1, <2>2
<1>12. Calm
  <2>1. \A n \in Existing : ~Registered(n) => ~Registered(n)'
    BY <1>0, <1>8, <1>9 DEF Registered
  <2> QED
    BY <1>1, <1>6, <1>11, <2>1 DEF Calm
<1>13. Nodes' /\ Grow /\ \A n \in Existing : NodeStep(n)
  BY <1>12, CalmNodes DEF TypeInv
<1>14. Contents'
  BY <1>1, <1>13, FewerContents
<1>15. OwnWrites(t) /\ LockMove(t)
  <2>1. \A n \in Node : n \notin W(t) => registry'[n] = registry[n]
    BY <1>0, <1>9
  <2>2. \A n \in W(t) :
          /\ Registered(n) /\ (\E w \in done : n \in Removes[w]) => registry'[n] = registry[n]
          /\ ~Registered(n) => ~Registered(n)'
    BY <1>0, <1>7, <1>8, <1>9 DEF Registered
  <2> QED
    BY <1>1, <2>1, <2>2 DEF OwnWrites, LockMove
<1>16. ASSUME NEW u \in Txn, u # t PROVE Beside(u)
  <2>1. KeptBlobs(u)
    BY <1>1 DEF KeptBlobs, HasBlob
  <2> QED
    BY <1>2, <1>4, <1>6, <1>15, <1>16, <2>1, GuardedBeside
<1>17. ASSUME NEW b, Owns(t, b) PROVE Owns(t, b)'
  <2>1. b.node \in Updates[t] /\ b.id = GetInActiveID(upd[t][b.node])
    BY <1>1, <1>4, <1>17 DEF Owns
  <2>2. upd'[t][b.node] = upd[t][b.node]
    BY <1>0, <1>4, <1>9, <2>1
  <2> QED
    BY <1>3, <2>1, <2>2 DEF Owns
<1>18. Owners'
  <2>1. ASSUME NEW b \in blobs, IsActive(b) PROVE IsActive(b)'
    <3>1. b.node \in Node
      BY DEF CommitInv, TypeInv, TypeOK, Blob
    <3> QED
      BY <1>9, <1>10, <2>1, <3>1 DEF IsActive, Registered
  <2> QED
    BY <1>1, <1>2, <1>4, <1>17, <2>1, OwnersStep DEF Owned
<1>19. Mine(t)'
  <2>1. ASSUME NEW n \in W(t) PROVE n \in Staged(t)' <=> n \in Staged(t) \/ n \in Removes[t]
    BY <1>0, <1>9, <1>10 DEF Staged
  <2>2. Staged(t)' = Staged(t) \cup Removes[t]
    BY <1>0, <1>4, <2>1 DEF Staged
  <2>3. ASSUME NEW n \in Staged(t)'
        PROVE  StagedAs(t, n)' /\ registry'[n] = upd'[t][n]
    <3>0. n \in Node
      BY <1>0, <1>4, <2>2, <2>3
    <3>1. CASE n \in Removes[t]
      <4>1. upd'[t][n] = registry'[n]
        BY <1>9, <3>0, <3>1
      <4>2. OldID(n, GetActiveID(upd[t][n]))'
        <5>1. OldID(n, GetActiveID(registry'[n])) /\ Flippers(n)' = Flippers(n)
          BY <1>6, <1>10, <3>0, <3>1
        <5> QED
          BY <4>1, <5>1 DEF OldID
      <4>3. n \notin Updates[t]
        BY <1>0, <3>1
      <4> QED
        BY <1>1, <1>10, <3>1, <4>1, <4>2, <4>3 DEF StagedAs
    <3>2. CASE n \notin Removes[t]
      <4>1. StagedAs(t, n) /\ registry[n] = upd[t][n] /\ upd'[t][n] = upd[t][n] /\ registry'[n] = registry[n]
        BY <1>4, <1>9, <2>2, <2>3, <3>0, <3>2
      <4>2. OldID(n, GetActiveID(upd[t][n]))'
        BY <1>6, <3>0, <4>1 DEF OldID, StagedAs
      <4>3. NewID(t)' = NewID(t)
        BY <1>1 DEF NewID
      <4> QED
        BY <1>1, <1>3, <3>2, <4>1, <4>2, <4>3 DEF StagedAs
    <3> QED
      BY <3>1, <3>2
  <2>4. Staging(t)' /\ InPlace(t)'
    BY <1>1, <1>4, <2>2, <2>3 DEF Staging, InPlace
  <2>5. Logged(t)' /\ Decided(t)' /\ PreImages(t)' /\ Locked(t)'
    <3>1. Logged(t) /\ PreImages(t) /\ Locked(t)
      BY DEF CommitInv, Mine
    <3>2. Logged(t)'
      BY <1>1, <1>4, <3>1 DEF Logged, Before, RollingBack, Dead
    <3>3. PreImages(t)' /\ Decided(t)'
      BY <1>1, <1>4, <3>1 DEF PreImages, Decided, Cleaning
    <3>4. Locked(t)'
      BY <1>1, <1>4, <3>1 DEF Locked
    <3> QED
      BY <3>2, <3>3, <3>4
  <2>6. Superseded(t)' /\ Covered(t)' /\ Removed(t)'
    BY <1>1, <1>4 DEF Superseded, Covered, Removed
  <2>7. NewBlobs(t)'
    <3>1. NewBlobs(t) /\ NewID(t)' = NewID(t)
      BY <1>1 DEF CommitInv, Mine, NewID
    <3> QED
      BY <1>1, <1>3, <3>1 DEF NewBlobs, Working
  <2>8. ReadOld(t)'
    BY <1>1, <1>13, ReadKeeps DEF CommitInv, Mine, TypeInv
  <2>9. Added(t)'
    <3>1. \A n \in Adds[t] : registry'[n] = registry[n]
      BY <1>0, <1>9
    <3>2. Added(t)
      BY DEF CommitInv, Mine
    <3> QED
      BY <1>1, <1>4, <3>1, <3>2 DEF Added, Registered, Adding, Dead
  <2> QED
    BY <2>4, <2>5, <2>6, <2>7, <2>8, <2>9 DEF Mine
<1> QED
  BY <1>13, <1>14, <1>16, <1>18, <1>19, Assemble

\* The new nodes are registered, then their blobs are written.
LEMMA AddStep ==
  ASSUME CommitInv, TypeInv', OneRemover, NEW t \in Txn, AddNodes(t) \/ AddBlobs(t)
  PROVE  CommitInv'
<1> DEFINE new(n) == [node |-> n, id |-> Base, seen |-> {t}]
<1>0. /\ pc \in [Txn -> Points] /\ W(t) \subseteq Existing /\ Existing \subseteq Node
      /\ Adds[t] \cap Existing = {} /\ Adds[t] \subseteq Node /\ NewNode \in Handles
      /\ NoHandle \notin Handles
  BY Consts, NewHandleType DEF CommitInv, TypeInv, TypeOK, NewNode
<1>1. /\ pc[t] \in {"add", "addBlobs"} /\ pc'[t] \in {"addBlobs", "logStore"}
      /\ pc[t] = "add" <=> pc'[t] = "addBlobs"
      /\ lock' = lock /\ tlog' = tlog /\ plog' = plog /\ done' = done /\ sweep' = sweep
      /\ rd' = rd /\ upd' = upd /\ keys' = keys /\ retry' = retry
  BY <1>0 DEF AddNodes, AddBlobs, Goto, logs, mem
<1>2. \A u \in Txn \ {t} : Same(u)
  BY <1>0 DEF Same, AddNodes, AddBlobs, Goto, logs, mem
<1>3. Reserved(t) /\ Reserved(t)' /\ ~Undoing(t) /\ \A n : Waiting(t, n) /\ Waiting(t, n)'
  BY <1>1 DEF Reserved, Working, Undoing, Waiting
<1>4. /\ t \notin done /\ pc[t] \notin Dead /\ Guarded(t)
      /\ \A x \in {"taken", "restored"} : sweep # <<x, t>>
  BY <1>3, WorkFacts
<1>5. Added(t)
  BY DEF CommitInv, Mine
<1>6. /\ \A n \in Node : n \notin Adds[t] => registry'[n] = registry[n]
      /\ \A n \in Adds[t] : registry'[n] = NewNode
      /\ pc[t] = "add" => blobs' = blobs /\ \A n \in Adds[t] : ~Registered(n)
      /\ pc[t] = "addBlobs" => registry' = registry /\ blobs' = blobs \cup {new(n) : n \in Adds[t]}
  <2>1. CASE AddNodes(t)
    BY <1>0, <1>4, <1>5, <2>1 DEF AddNodes, NewNode, Added, Adding, Dead
  <2>2. CASE AddBlobs(t)
    BY <1>0, <1>5, <2>2 DEF AddBlobs, Added, Adding
  <2> QED
    BY <2>1, <2>2
<1>7. \A n \in Updates[t] : ~Flipped(t, n) /\ ~Flipped(t, n)'
  BY <1>1, <1>4 DEF Flipped
<1>8. \A n \in Node : Flippers(n)' = Flippers(n)
  BY <1>2, <1>7, FlippersStep
<1> HIDE DEF new
<1>9. /\ \A n : new(n).node = n /\ new(n).id = Base /\ new(n).seen = {t}
      /\ blobs \subseteq blobs'
      /\ \A b \in blobs' : b \notin blobs => \E n \in Adds[t] : b = new(n)
  <2>1. \A n : new(n).node = n /\ new(n).id = Base /\ new(n).seen = {t}
    BY DEF new
  <2> QED
    BY <1>1, <1>6, <2>1
<1>10. ASSUME NEW n \in Existing
       PROVE  (Registered(n) => Untouched(n)) /\ (~Registered(n) => ~Registered(n)')
  <2>1. registry'[n] = registry[n] /\ n \notin Adds[t]
    BY <1>0, <1>6
  <2>2. ASSUME NEW b, b.node = n PROVE b \in blobs' <=> b \in blobs
    BY <1>9, <2>1, <2>2
  <2> QED
    BY <2>1, <2>2, Slots DEF Untouched, Registered
<1>11. Calm
  BY <1>1, <1>8, <1>10 DEF Calm
<1>12. Nodes' /\ Grow /\ \A n \in Existing : NodeStep(n)
  BY <1>11, CalmNodes DEF TypeInv
<1>13. Contents'
  <2> SUFFICES ASSUME NEW b \in blobs'
               PROVE  /\ b.node \in Existing => \A u \in b.seen : SeenBy(b, u)'
                      /\ \A v \in Txn : b.node \in Adds[v] => b.seen = {v} /\ b.id = Base
    BY DEF Contents
  <2>1. CASE b \in blobs
    <3>1. /\ b.node \in Existing => \A u \in b.seen : SeenBy(b, u)
          /\ \A v \in Txn : b.node \in Adds[v] => b.seen = {v} /\ b.id = Base
      BY <2>1 DEF CommitInv, Contents
    <3>2. ASSUME b.node \in Existing, NEW u, SeenBy(b, u) PROVE SeenBy(b, u)'
      BY <1>0, <1>8, <3>2 DEF SeenBy
    <3> QED
      BY <3>1, <3>2
  <2>2. CASE b \notin blobs
    <3>1. PICK n \in Adds[t] : b = new(n)
      BY <1>9, <2>2
    <3>2. b.node = n /\ b.id = Base /\ b.seen = {t}
      BY <1>9, <3>1
    <3> QED
      BY <1>0, <3>2, Consts
  <2> QED
    BY <2>1, <2>2
<1>14. Mine(t)' /\ \A b : Owns(t, b) => Owns(t, b)'
  <2>1. Logged(t)' /\ PreImages(t)'
    <3>1. Logged(t) /\ PreImages(t)
      BY DEF CommitInv, Mine
    <3> QED
      BY <1>1, <1>4, <3>1 DEF Logged, PreImages, Before, RollingBack, Dead
  <2>2. NewBlobs(t)'
    <3>1. NewBlobs(t) /\ NewID(t)' = NewID(t)
      BY <1>1 DEF CommitInv, Mine, NewID
    <3> QED
      BY <1>1, <1>3, <1>9, <3>1 DEF NewBlobs, Working
  <2>3. Added(t)'
    <3> SUFFICES ASSUME NEW n \in Adds[t]
                 PROVE  /\ registry'[n] = NewNode /\ Registered(n)'
                        /\ (pc'[t] # "addBlobs" => HasBlob(n, Base)')
      <4>1. pc'[t] \in Adding /\ t \notin done'
        BY <1>1, <1>4 DEF Adding
      <4>2. pc'[t] \in Adding \ {"addBlobs"} => pc'[t] # "addBlobs"
        OBVIOUS
      <4> QED
        BY <4>1, <4>2 DEF Added, NewNode
    <3>1. registry'[n] = NewNode /\ Registered(n)'
      BY <1>0, <1>6 DEF Registered
    <3>2. ASSUME pc'[t] # "addBlobs" PROVE HasBlob(n, Base)'
      <4>1. new(n) \in blobs'
        BY <1>1, <1>6, <3>2
      <4> QED
        BY <1>9, <4>1 DEF HasBlob
    <3> QED
      BY <3>1, <3>2
  <2>4. /\ pc'[t] \in Working => pc[t] \in Working
        /\ pc'[t] \in Marking => pc[t] \in Marking
        /\ pc[t] # "flip" /\ pc'[t] # "flip"
    BY <1>1 DEF Working, Marking
  <2>5. \A n \in W(t) : lock'[n] = lock[n] /\ registry'[n] = registry[n]
    BY <1>0, <1>1, <1>6
  <2> QED
    BY <1>1, <1>3, <1>4, <1>12, <2>1, <2>2, <2>3, <2>4, <2>5, WorkMine DEF TypeInv
<1>15. Owners'
  <2>1. ASSUME NEW b \in blobs, IsActive(b) PROVE IsActive(b)'
    <3>1. b.node \in Node
      BY DEF CommitInv, TypeInv, TypeOK, Blob
    <3>2. registry'[b.node] = registry[b.node]
      BY <1>1, <1>6, <2>1, <3>1 DEF IsActive
    <3> QED
      BY <2>1, <3>2 DEF IsActive, Registered
  <2>2. ASSUME NEW b \in blobs' \ blobs PROVE Owned(b)'
    <3>1. PICK n \in Adds[t] : b = new(n)
      BY <1>9
    <3>2. b.node = n /\ b.id = Base /\ registry'[n] = NewNode
      BY <1>6, <1>9, <3>1
    <3>3. GetActiveID(NewNode) = Base
      BY DEF NewNode, NewHandle, GetActiveID
    <3>4. IsActive(b)'
      BY <1>0, <3>2, <3>3 DEF IsActive, Registered
    <3> QED
      BY <3>4 DEF Owned
  <2> QED
    BY <1>2, <1>4, <1>14, <2>1, <2>2, OwnersStep DEF Owned
<1>16. ASSUME NEW u \in Txn, u # t PROVE Beside(u)
  <2>1. OwnWrites(t) /\ LockMove(t)
    BY <1>0, <1>1, <1>6 DEF OwnWrites, LockMove, Registered
  <2>2. KeptBlobs(u)
    BY <1>9 DEF KeptBlobs, HasBlob
  <2> QED
    BY <1>2, <1>4, <1>8, <1>16, <2>1, <2>2, GuardedBeside
<1> QED
  BY <1>12, <1>13, <1>14, <1>15, <1>16, Assemble

-----------------------------------------------------------------------------
(* Finalising the handles, and the point of no return. *)

\* One finalised handle is written: the update becomes visible, on top of all that was
\* visible before; a delete mark becomes final.
LEMMA FlipStep ==
  ASSUME CommitInv, TypeInv', OneRemover, NEW t \in Txn, NEW n \in Node, Flip(t, n)
  PROVE  CommitInv'
<1> DEFINE h == upd[t][n]
<1>0. /\ pc \in [Txn -> Points] /\ todo \in [Txn -> SUBSET Node]
      /\ registry \in [Node -> Handles \cup {NoHandle}]
      /\ W(t) \subseteq Node /\ W(t) \subseteq Existing /\ Existing \subseteq Node
      /\ Updates[t] \subseteq W(t) /\ Removes[t] \subseteq W(t)
      /\ W(t) \subseteq Updates[t] \cup Removes[t] /\ Updates[t] \cap Removes[t] = {}
      /\ Adds[t] \cap Existing = {} /\ Adds[t] \subseteq Node /\ NoHandle \notin Handles
      /\ NewID(t) \in {t} \X Nat /\ NewID(t) \in Txn \X Nat /\ NewID(t) \in PhysID
  BY Consts DEF CommitInv, TypeInv, TypeOK, NewID, PhysID
<1>1. /\ pc[t] = "flip" /\ n \in todo[t] /\ todo'[t] = todo[t] \ {n}
      /\ pc'[t] = IF todo[t] = {n} THEN "plogRemove" ELSE "flip"
      /\ registry'[n] = Final(t, n) /\ \A m \in Node \ {n} : registry'[m] = registry[m]
      /\ blobs' = blobs /\ lock' = lock /\ tlog' = tlog /\ plog' = plog /\ done' = done
      /\ rd' = rd /\ upd' = upd /\ keys' = keys /\ retry' = retry /\ sweep' = sweep
  BY <1>0 DEF Flip, Goto, logs
<1>2. \A u \in Txn \ {t} : Same(u)
  BY <1>0 DEF Same, Flip, Goto, logs
<1>3. Reserved(t) /\ ~Undoing(t) /\ ~Undoing(t)' /\ Waiting(t, n) /\ pc'[t] \in {"flip", "plogRemove"}
  BY <1>1 DEF Reserved, Working, Undoing, Waiting
<1>4. /\ t \notin done /\ pc[t] \notin Dead /\ Guarded(t)
      /\ \A x \in {"taken", "restored"} : sweep # <<x, t>>
      /\ Updates[t] \subseteq Staged(t) /\ \A m \in Staged(t) : StagedAs(t, m)
      /\ \A m \in Staged(t) : Waiting(t, m) => registry[m] = upd[t][m]
      /\ Staged(t) \subseteq W(t) /\ \A m \in Staged(t) : upd[t][m] \in Handles
  BY <1>3, WorkFacts
<1>5. n \in Staged(t) /\ n \in W(t) /\ h \in Handles /\ StagedAs(t, n)
  BY <1>1, <1>4 DEF CommitInv, TypeInv, StagedBeforeFlip
<1>6. /\ n \in Existing /\ Registered(n) /\ registry[n] = h
      /\ rd[t][n].seen = SeenAt(n) /\ SeenAt(n) = Flippers(n)
  BY <1>3, <1>5, ReadIsPresent
<1>7. /\ \A m : Flipped(t, m)' <=> Flipped(t, m) \/ m = n
      /\ ~Flipped(t, n)
  BY <1>1, <1>4 DEF Flipped
<1>8. /\ \A m \in Node \ {n} : Flippers(m)' = Flippers(m)
      /\ n \notin Updates[t] => Flippers(n)' = Flippers(n)
      /\ n \in Updates[t] => Flippers(n)' = Flippers(n) \cup {t}
      /\ n \in Updates[t] => t \notin Flippers(n)
  <2>1. ASSUME NEW m \in Node, m # n \/ n \notin Updates[t] PROVE Flippers(m)' = Flippers(m)
    BY <1>2, <1>7, <2>1, FlippersStep
  <2>2. \A u \in Txn \ {t} : Flipped(u, n)' <=> Flipped(u, n)
    BY <1>2 DEF Same, Flipped
  <2>3. n \in Updates[t] => Flippers(n)' = Flippers(n) \cup {t}
    BY <1>7, <2>2 DEF Flippers
  <2>4. t \notin Flippers(n)
    BY <1>7 DEF Flippers
  <2> QED
    BY <2>1, <2>3, <2>4
<1>9. Grow
  BY <1>8 DEF Grow
<1>10. Registered(n)' /\ registry'[n].version = registry[n].version + 1 /\ registry[n].version \in Nat
  <2>1. /\ Activate(h).version = h.version + 1 /\ Touch(h).version = h.version + 1
        /\ Activate(h) \in Handles /\ Touch(h) \in Handles
    BY <1>0, <1>5, HandleFacts, HandleOps, Zenon
  <2>2. h.version \in Nat
    BY <1>5 DEF Handles, HandleOf
  <2> QED
    BY <1>0, <1>1, <1>6, <2>1, <2>2 DEF Registered, Final
<1>11. ASSUME n \in Updates[t]
       PROVE  /\ GetActiveID(registry'[n]) = NewID(t)
              /\ GetInActiveID(registry'[n]) = GetActiveID(h)
              /\ ~OldID(n, NewID(t)) /\ Whole(n)'
  <2>1. GetInActiveID(h) = NewID(t) /\ GetActiveID(h) # NewID(t)
    BY <1>3, <1>5, <1>11 DEF StagedAs
  <2>2. GetActiveID(Activate(h)) = GetInActiveID(h) /\ GetInActiveID(Activate(h)) = GetActiveID(h)
    BY <1>0, <1>5, HandleFacts, Zenon
  <2>3. GetActiveID(registry'[n]) = NewID(t) /\ GetInActiveID(registry'[n]) = GetActiveID(h)
    BY <1>1, <1>11, <2>1, <2>2 DEF Final
  <2>4. ~OldID(n, NewID(t))
    BY <1>0, <1>8, <1>11, Consts DEF OldID, NewID
  <2>5. OldID(n, GetActiveID(registry[n]))'
    BY <1>0, <1>8, <1>11, <2>3 DEF OldID
  <2> DEFINE b0 == [node |-> n, id |-> NewID(t), seen |-> Flippers(n) \cup {t}]
  <2>6. b0 \in blobs
    <3>1. NewBlobs(t)
      BY DEF CommitInv, Mine
    <3> QED
      BY <1>1, <1>3, <1>6, <1>11, <3>1 DEF NewBlobs, Working
  <2>7. b0.node = n /\ b0.id = NewID(t) /\ b0.seen = Flippers(n) \cup {t}
    OBVIOUS
  <2> HIDE DEF b0
  <2>8. HasBlob(n, GetActiveID(registry[n]))'
    BY <1>1, <2>3, <2>6, <2>7 DEF HasBlob
  <2>9. ASSUME NEW b \in blobs, b.node = n, b.id = NewID(t) PROVE b.seen \subseteq Flippers(n) \cup {t}
    <3>1. \A u \in b.seen : u \in Flippers(n) \/ NewID(t) \in {u} \X Nat
      BY <1>6, <2>9 DEF CommitInv, Contents, SeenBy
    <3> QED
      BY <3>1 DEF NewID
  <2>10. SeenIn(n, NewID(t)) = Flippers(n) \cup {t}
    BY <2>6, <2>7, <2>9 DEF SeenIn
  <2>11. SeenAt(n)' = SeenIn(n, NewID(t))
    BY <1>1, <2>3 DEF SeenAt, SeenIn
  <2>12. Whole(n)'
    BY <1>8, <1>11, <2>1, <2>3, <2>5, <2>8, <2>10, <2>11 DEF Whole
  <2> QED
    BY <2>3, <2>4, <2>12
<1>12. ASSUME n \in Removes[t]
       PROVE  /\ GetActiveID(registry'[n]) = GetActiveID(registry[n]) /\ Whole(n)'
  <2>1. /\ GetActiveID(Touch(h)) = GetActiveID(h)
        /\ GetInActiveID(Touch(h)) = GetInActiveID(h)
    BY <1>0, <1>5, HandleFacts, Zenon
  <2>2. n \notin Updates[t]
    BY <1>0, <1>12
  <2>3. /\ GetActiveID(registry'[n]) = GetActiveID(registry[n])
        /\ GetInActiveID(registry'[n]) = GetInActiveID(registry[n])
    BY <1>1, <1>6, <2>1, <2>2 DEF Final
  <2>4. Whole(n)
    BY <1>6, Slots
  <2>5. SeenAt(n)' = SeenAt(n) /\ (HasBlob(n, GetActiveID(registry[n])) => HasBlob(n, GetActiveID(registry[n]))')
    BY <1>1, <2>3 DEF SeenAt, SeenIn, HasBlob
  <2>6. OldID(n, GetActiveID(registry[n]))'
    BY <1>8, <2>2, <2>3, <2>4 DEF OldID, Whole
  <2>7. Whole(n)'
    BY <1>8, <2>2, <2>3, <2>4, <2>5, <2>6 DEF Whole
  <2> QED
    BY <2>3, <2>7
<1>13. ASSUME NEW m \in Existing
       PROVE  NodeStep(m) /\ IF Registered(m)' THEN Whole(m)' ELSE \E w \in done' : m \in Removes[w]
  <2>1. CASE m = n
    BY <1>0, <1>5, <1>6, <1>10, <1>11, <1>12, <2>1 DEF NodeStep
  <2>2. CASE m # n
    <3>0. m \in Node
      BY <1>0
    <3>1. registry'[m] = registry[m] /\ Flippers(m)' = Flippers(m)
      BY <1>1, <1>8, <2>2, <3>0
    <3>2. /\ SeenAt(m)' = SeenAt(m) /\ Registered(m)' = Registered(m)
          /\ HasBlob(m, GetActiveID(registry[m])) => HasBlob(m, GetActiveID(registry[m]))'
      BY <1>1, <3>1 DEF SeenAt, SeenIn, HasBlob, Registered
    <3>3. Registered(m) => OldID(m, GetActiveID(registry[m]))' /\ registry[m].version \in Nat /\ Whole(m)
      BY <3>1, Slots DEF Whole, OldID
    <3>4. NodeStep(m)
      BY <3>1, <3>2, <3>3 DEF NodeStep
    <3>5. Registered(m)' => Whole(m)'
      BY <3>1, <3>2, <3>3 DEF Whole
    <3>6. ~Registered(m) => \E w \in done : m \in Removes[w]
      BY DEF CommitInv, Nodes
    <3> QED
      BY <1>1, <3>2, <3>4, <3>5, <3>6
  <2> QED
    BY <2>1, <2>2
<1>14. Nodes' /\ \A m \in Existing : NodeStep(m)
  BY <1>13 DEF Nodes
<1>15. Contents'
  BY <1>1, <1>9, FewerContents
<1>16. Staged(t)' = Staged(t) /\ NewID(t)' = NewID(t) /\ \A m : Final(t, m)' = Final(t, m)
  BY <1>1 DEF Staged, NewID, Final
<1>17. Mine(t)'
  <2>0. /\ Logged(t) /\ PreImages(t) /\ Locked(t) /\ Staging(t) /\ InPlace(t) /\ NewBlobs(t)
        /\ Removed(t) /\ Added(t)
    BY DEF CommitInv, Mine
  <2>1. Logged(t)' /\ Decided(t)'
    BY <1>1, <1>4, <2>0 DEF Logged, Decided, Before, RollingBack, Cleaning, Dead
  <2>2. PreImages(t)'
    BY <1>1, <1>4, <1>16, <2>0 DEF PreImages
  <2>3. Locked(t)'
    BY <1>1, <1>3, <1>4, <2>0 DEF Locked
  <2>4. Staging(t)'
    <3>1. ASSUME NEW m \in Staged(t) PROVE StagedAs(t, m)'
      <4>1. StagedAs(t, m) /\ m \in Node
        BY <1>0, <1>4
      <4>2. OldID(m, GetActiveID(upd[t][m]))'
        BY <1>1, <1>9, <4>1, OldIDGrows DEF StagedAs
      <4> QED
        BY <1>1, <1>3, <1>16, <4>1, <4>2 DEF StagedAs
    <3>2. Removes[t] \subseteq Staged(t)
      BY <1>1, <1>3, <2>0 DEF Staging, Marking
    <3> QED
      BY <1>4, <1>16, <3>1, <3>2 DEF Staging
  <2>5. InPlace(t)'
    <3>1. ASSUME pc'[t] = "flip", NEW m \in Staged(t), m \in todo'[t] PROVE registry'[m] = upd[t][m]
      <4>1. m # n /\ m \in Node /\ Waiting(t, m)
        BY <1>0, <1>1, <1>4, <3>1 DEF Waiting
      <4> QED
        BY <1>1, <1>4, <4>1
    <3>2. ASSUME NEW m \in Staged(t), Flipped(t, m)' PROVE registry'[m] = Final(t, m)
      <4>1. CASE m = n
        BY <1>1, <4>1
      <4>2. CASE m # n
        <5>1. registry[m] = Final(t, m) /\ m \in Node
          BY <1>0, <1>1, <1>4, <1>7, <2>0, <3>2, <4>2 DEF InPlace
        <5> QED
          BY <1>1, <4>2, <5>1
      <4> QED
        BY <4>1, <4>2
    <3>3. Reserved(t)' => pc'[t] = "flip"
      BY <1>1, <1>3 DEF Reserved, Working
    <3> QED
      BY <1>1, <1>16, <3>1, <3>2, <3>3 DEF InPlace, Waiting
  <2>6. Superseded(t)' /\ Covered(t)'
    BY <1>1, <1>3, <1>4 DEF Superseded, Covered
  <2>7. NewBlobs(t)'
    <3>1. pc'[t] \in Working => pc'[t] = "flip"
      BY <1>3 DEF Working
    <3>2. \A m : pc'[t] = "flip" /\ Waiting(t, m)' => Waiting(t, m)
      BY <1>1 DEF Waiting
    <3> QED
      BY <1>1, <1>16, <2>0, <3>1, <3>2 DEF NewBlobs, Working
  <2>8. ReadOld(t)'
    BY <1>1, <1>14, ReadKeeps DEF CommitInv, Mine, TypeInv
  <2>9. Removed(t)'
    <3>1. ASSUME NEW m \in Removes[t] PROVE Flippers(m)' \subseteq rd[t][m].seen
      <4>1. Flippers(m)' = Flippers(m)
        BY <1>0, <1>8
      <4> QED
        BY <1>1, <2>0, <4>1 DEF Removed
    <3> QED
      BY <1>1, <1>4, <3>1 DEF Removed
  <2>10. Added(t)'
    <3> SUFFICES ASSUME NEW m \in Adds[t]
                 PROVE  registry'[m] = NewNode /\ Registered(m)' /\ HasBlob(m, Base)'
      <4>1. pc'[t] \in Adding /\ t \notin done'
        BY <1>1, <1>3, <1>4 DEF Adding
      <4> QED
        BY <4>1 DEF Added, NewNode
    <3>1. registry'[m] = registry[m]
      BY <1>0, <1>1, <1>6
    <3>2. Registered(m) /\ registry[m] = NewNode /\ HasBlob(m, Base)
      BY <1>1, <2>0 DEF Added, Adding
    <3> QED
      BY <1>1, <3>1, <3>2 DEF Registered, HasBlob
  <2> QED
    BY <2>1, <2>2, <2>3, <2>4, <2>5, <2>6, <2>7, <2>8, <2>9, <2>10 DEF Mine
<1>18. Owners'
  <2>1. ASSUME NEW b \in blobs, IsActive(b) PROVE Owned(b)'
    <3>0. b.node \in Node
      BY DEF CommitInv, TypeInv, TypeOK, Blob
    <3>1. CASE b.node # n
      <4>1. registry'[b.node] = registry[b.node]
        BY <1>1, <3>0, <3>1
      <4> QED
        BY <2>1, <4>1 DEF IsActive, Registered, Owned
    <3>2. CASE b.node = n /\ n \in Removes[t]
      BY <1>10, <1>12, <2>1, <3>2 DEF IsActive, Owned
    <3>3. CASE b.node = n /\ n \in Updates[t]
      <4>1. b.id = GetActiveID(h)
        BY <1>6, <2>1, <3>3 DEF IsActive
      <4>2. ObsoleteID(t, n)' = GetActiveID(h)
        BY <1>1, <1>11, <1>16, <3>3 DEF ObsoleteID
      <4>3. Owns(t, b)'
        BY <1>3, <1>5, <1>7, <1>16, <3>3, <4>1, <4>2 DEF Owns
      <4> QED
        BY <4>3 DEF Owned
    <3> QED
      BY <1>0, <1>5, <3>1, <3>2, <3>3
  <2>2. ASSUME NEW b \in blobs, Owns(t, b) PROVE Owned(b)'
    <3>1. CASE b.node \in Updates[t] /\ Waiting(t, b.node) /\ b.id = GetInActiveID(upd[t][b.node])
      <4>1. CASE b.node = n
        <5>1. b.id = NewID(t)
          BY <1>3, <1>5, <3>1, <4>1 DEF StagedAs
        <5> QED
          BY <1>10, <1>11, <3>1, <4>1, <5>1 DEF Owned, IsActive
      <4>2. CASE b.node # n
        <5>1. pc'[t] = "flip" /\ b.node \in todo'[t]
          BY <1>1, <3>1, <4>2 DEF Waiting
        <5>2. Owns(t, b)'
          BY <1>1, <3>1, <5>1 DEF Owns, Reserved, Working, Waiting
        <5> QED
          BY <5>2 DEF Owned
      <4> QED
        BY <4>1, <4>2
    <3>2. CASE b.node \in Staged(t) /\ b.id = ObsoleteID(t, b.node) /\ Flipped(t, b.node)
      <4>1. ObsoleteID(t, b.node)' = ObsoleteID(t, b.node)
        BY <1>16 DEF ObsoleteID
      <4>2. Owns(t, b)'
        BY <1>3, <1>7, <1>16, <3>2, <4>1 DEF Owns
      <4> QED
        BY <4>2 DEF Owned
    <3> QED
      BY <1>4, <2>2, <3>1, <3>2 DEF Owns
  <2> QED
    BY <1>1, <1>2, <1>4, <2>1, <2>2, OwnersStep
<1>19. ASSUME NEW u \in Txn, u # t PROVE Beside(u)
  <2>1. \A w \in done : n \notin Removes[w]
    <3> SUFFICES ASSUME NEW w \in done, n \in Removes[w] PROVE FALSE
      OBVIOUS
    <3>1. t # w /\ n \notin W(t)
      BY <1>3, <1>4, <1>6, RemovedAlone
    <3> QED
      BY <1>5, <3>1
  <2>2. OwnWrites(t)
    BY <1>0, <1>1, <1>5, <1>6, <2>1 DEF OwnWrites, Registered
  <2>3. KeptHandles(u)
    BY <1>4, <1>19, <2>2, OwnWritesBeside
  <2>4. KeptLocks(u) /\ KeptBlobs(u)
    BY <1>1 DEF KeptLocks, KeptBlobs, HasBlob
  <2>5. KeptFlips(u)
    <3> SUFFICES ASSUME u \in done \/ pc[u] \in {"flip", "plogRemove"}, NEW m \in Removes[u]
                 PROVE  Flippers(m)' \subseteq Flippers(m)
      BY DEF KeptFlips
    <3>1. m \in W(u) /\ m \in Node
      BY Consts
    <3>2. CASE m # n
      BY <1>8, <3>1, <3>2
    <3>3. CASE m = n
      <4>1. u \notin done
        BY <2>1, <3>3
      <4>2. Guarded(u)
        BY <4>1 DEF Guarded, Critical
      <4> QED
        BY <1>4, <1>5, <1>19, <3>1, <3>3, <4>2, Exclusive
    <3> QED
      BY <3>2, <3>3
  <2> QED
    BY <1>2, <1>19, <2>3, <2>4, <2>5 DEF Beside
<1> QED
  BY <1>9, <1>14, <1>15, <1>17, <1>18, <1>19, Assemble

\* The priority log goes, or there was nothing to finalise: the transaction is committed.
LEMMA CommitPointStep ==
  ASSUME CommitInv, TypeInv', NEW t \in Txn, PlogRemove(t) \/ (LogFinalize(t) /\ Staged(t) = {})
  PROVE  CommitInv'
<1>0. /\ pc \in [Txn -> Points] /\ tlog \in [Txn -> 0..deleteObsoleteEntries]
      /\ todo \in [Txn -> SUBSET Node]
      /\ W(t) \subseteq Node /\ Staged(t) \subseteq W(t)
      /\ Updates[t] \subseteq W(t) /\ Removes[t] \subseteq W(t)
      /\ W(t) \subseteq Updates[t] \cup Removes[t] /\ Updates[t] \cap Removes[t] = {}
      /\ upd[t] \in [Node -> Handles \cup {NoHandle}] /\ Base \in PhysID
  BY Consts DEF CommitInv, TypeInv, TypeOK, Staged, PhysID
<1>1. /\ Logged(t) /\ Decided(t) /\ PreImages(t) /\ Locked(t) /\ Staging(t) /\ InPlace(t)
      /\ Removed(t) /\ Added(t)
  BY DEF CommitInv, Mine
<1>2. /\ pc[t] \in {"plogRemove", "phase1"} /\ pc'[t] = "unlock" /\ done' = done \cup {t}
      /\ registry' = registry /\ blobs' = blobs /\ lock' = lock /\ keys' = keys /\ rd' = rd
      /\ upd' = upd /\ sweep' = sweep /\ tlog'[t] = finalizeCommit /\ t \notin plog'
      /\ pc[t] = "phase1" => Staged(t) = {}
  <2>1. CASE PlogRemove(t)
    BY <1>0, <1>1, <2>1 DEF PlogRemove, Goto, store, mem, Logged
  <2>2. CASE LogFinalize(t) /\ Staged(t) = {}
    <3>1. t \notin plog
      BY <1>1, <2>2 DEF PreImages
    <3> QED
      BY <1>0, <2>2, <3>1 DEF LogFinalize, Goto, Log, store
  <2> QED
    BY <2>1, <2>2
<1>3. \A u \in Txn \ {t} : Same(u)
  BY <1>0 DEF Same, PlogRemove, LogFinalize, Goto, Log, store, mem
<1>4. t \notin done /\ Guarded(t) /\ pc[t] \notin Dead
  BY <1>1, <1>2 DEF Decided, Cleaning, Dead, Guarded, Critical
<1>5. /\ Updates[t] \subseteq Staged(t) /\ Removes[t] \subseteq Staged(t)
      /\ \A n \in Staged(t) : StagedAs(t, n) /\ registry[n] = Final(t, n)
  BY <1>1, <1>2 DEF Staging, InPlace, Reserved, Working, Marking, Flipped
<1>6. \A n \in Updates[t] : Flipped(t, n) /\ Flipped(t, n)'
  BY <1>2, <1>5 DEF Flipped
<1>7. \A n \in Node : Flippers(n)' = Flippers(n)
  BY <1>3, <1>6, FlippersStep
<1>8. Calm
  <2>1. ASSUME NEW n \in Existing, Registered(n) PROVE Untouched(n)
    BY <1>2, <2>1, Slots DEF Untouched, Registered
  <2> QED
    BY <1>2, <1>7, <2>1 DEF Calm, Registered
<1>9. \A n \in Existing : NodeStep(n)
  BY <1>8, CalmNodes DEF TypeInv
<1>10. Staged(t)' = Staged(t)
  BY <1>2 DEF Staged
<1>11. Mine(t)'
  <2>1. Logged(t)' /\ Decided(t)'
    BY <1>2 DEF Logged, Decided, Cleaning, Before, RollingBack
  <2>2. PreImages(t)'
    BY <1>1, <1>2 DEF PreImages
  <2>3. Locked(t)'
    BY <1>1, <1>2, <1>4 DEF Locked
  <2>4. ~Reserved(t)' /\ pc'[t] \notin Working
    BY <1>2 DEF Reserved, Working, Undoing
  <2>5. Staging(t)' /\ InPlace(t)' /\ Covered(t)' /\ NewBlobs(t)'
    BY <1>2, <2>4 DEF Staging, InPlace, Covered, NewBlobs
  <2>6. ASSUME NEW n \in Staged(t)
        PROVE  /\ OldID(n, GetActiveID(upd[t][n]))'
               /\ n \in Updates[t] => GetActiveID(registry[n]) # GetActiveID(upd[t][n])
               /\ n \in Removes[t] => /\ registry[n].deleted /\ registry[n].wip = "none"
                                      /\ GetActiveID(registry[n]) = GetActiveID(upd[t][n])
    <3>1. n \in Node /\ upd[t][n] \in Handles /\ registry[n] = Final(t, n)
      BY <1>0, <1>5 DEF Staged
    <3>2. /\ OldID(n, GetActiveID(upd[t][n]))
          /\ GetActiveID(upd[t][n]) # GetInActiveID(upd[t][n])
          /\ n \in Removes[t] => upd[t][n].deleted
      BY <1>5 DEF StagedAs
    <3>3. OldID(n, GetActiveID(upd[t][n]))'
      BY <1>2, <1>7, <3>1, <3>2 DEF OldID
    <3>4. /\ GetActiveID(Activate(upd[t][n])) = GetInActiveID(upd[t][n])
          /\ GetActiveID(Touch(upd[t][n])) = GetActiveID(upd[t][n])
          /\ Touch(upd[t][n]).wip = "none" /\ (Touch(upd[t][n]).deleted <=> upd[t][n].deleted)
      BY <1>0, <3>1, HandleFacts, Zenon
    <3>5. n \in Removes[t] => n \notin Updates[t]
      BY <1>0
    <3> QED
      BY <3>1, <3>2, <3>3, <3>4, <3>5 DEF Final
  <2>7. Superseded(t)'
    BY <1>2, <1>10, <2>6 DEF Superseded
  <2>8. ReadOld(t)'
    BY <1>2, <1>9, ReadKeeps DEF CommitInv, Mine, TypeInv
  <2>9. Removed(t)'
    <3>1. ASSUME NEW n \in Removes[t] PROVE Flippers(n)' \subseteq rd[t][n].seen
      <4>1. pc[t] = "plogRemove"
        BY <1>2, <1>5
      <4> QED
        BY <1>0, <1>1, <1>7, <4>1 DEF Removed
    <3> QED
      BY <1>2, <1>5, <1>10, <2>6, <3>1 DEF Removed
  <2>10. Added(t)'
    <3>1. pc[t] \in Adding /\ pc[t] # "addBlobs"
      BY <1>2 DEF Adding
    <3> QED
      BY <1>1, <1>2, <3>1 DEF Added, NewNode, Registered, HasBlob
  <2> QED
    BY <2>1, <2>2, <2>3, <2>5, <2>7, <2>8, <2>9, <2>10 DEF Mine
<1>12. ASSUME NEW b \in blobs, Owns(t, b) PROVE Owned(b)'
  <2>1. b.node \in Staged(t) /\ b.id = ObsoleteID(t, b.node)
    BY <1>2, <1>5, <1>12 DEF Owns, Reserved, Working, Undoing
  <2>2. b.id = ObsoleteID(t, b.node)'
    BY <1>2, <2>1 DEF ObsoleteID, Final
  <2>3. Owns(t, b)'
    BY <1>2, <1>10, <2>1, <2>2 DEF Owns
  <2> QED
    BY <2>3 DEF Owned
<1>13. LockMove(t)
  BY <1>2 DEF LockMove
<1> QED
  BY <1>2, <1>3, <1>4, <1>6, <1>11, <1>12, <1>13, Quiet

\* The superseded blobs and the removed nodes go, by the transaction's own clean-up or,
\* when it died there, by the expiry of its log.
LEMMA CleanUpStep ==
  ASSUME CommitInv, TypeInv', OneRemover, NEW t \in Txn,
         DeleteObsolete(t) \/ RecoverObsolete(t)
  PROVE  CommitInv'
<1>0. /\ pc \in [Txn -> Points] /\ tlog \in [Txn -> 0..deleteObsoleteEntries]
      /\ W(t) \subseteq Node /\ W(t) \subseteq Existing /\ Staged(t) \subseteq W(t)
      /\ Updates[t] \subseteq W(t) /\ Removes[t] \subseteq W(t) /\ Existing \subseteq Node
      /\ W(t) \subseteq Updates[t] \cup Removes[t] /\ Updates[t] \cap Removes[t] = {}
      /\ upd[t] \in [Node -> Handles \cup {NoHandle}] /\ Base \in PhysID
      /\ \A u \in Txn : W(t) \cap Adds[u] = {} /\ Adds[u] \subseteq Node /\ W(u) \subseteq Node
      /\ \A u \in Txn : Staged(u) \subseteq W(u) /\ Removes[u] \subseteq W(u)
  BY Consts DEF CommitInv, TypeInv, TypeOK, Staged, PhysID
<1>1. Logged(t) /\ Decided(t) /\ Superseded(t) /\ Removed(t)
  BY DEF CommitInv, Mine
<1>2. /\ t \in done /\ pc[t] \in {"obsolete", "crashed"} /\ pc'[t] \in {"removeLogs", "rcLogs"}
      /\ pc[t] = "crashed" <=> pc'[t] = "rcLogs"
      /\ tlog'[t] = deleteObsoleteEntries
      /\ blobs' = WithoutObsolete(t) /\ registry' = Unregister(Removes[t] \cap Staged(t))
      /\ lock' = lock /\ plog' = plog /\ rd' = rd /\ upd' = upd /\ done' = done /\ sweep' = sweep
  <2>1. CASE DeleteObsolete(t)
    BY <1>0, <1>1, <2>1 DEF DeleteObsolete, Goto, logs, mem, Logged, Decided, Cleaning
  <2>2. CASE RecoverObsolete(t)
    <3>1. pc[t] = "crashed" /\ tlog[t] >= deleteObsoleteEntries
      BY <2>2 DEF RecoverObsolete, Expired, Finished
    <3>2. t \in done /\ tlog[t] = deleteObsoleteEntries
      BY <1>0, <1>1, <3>1, CodeOrder DEF Logged, Dead
    <3> QED
      BY <1>0, <2>2, <3>1, <3>2 DEF RecoverObsolete, Goto, logs, mem
  <2> QED
    BY <2>1, <2>2
<1>3. \A u \in Txn \ {t} : Same(u)
  BY <1>0 DEF Same, DeleteObsolete, RecoverObsolete, Goto, logs, mem
<1>4. /\ t \notin plog /\ \A x \in {"taken", "restored"} : sweep # <<x, t>>
      /\ \A n : Flipped(t, n)
      /\ pc[t] \notin Working /\ pc[t] # "plogRemove" /\ ~Reserved(t)
  BY <1>2, DoneFacts
<1>5. \A n \in Node : Flippers(n)' = Flippers(n)
  <2>1. \A n : Flipped(t, n)'
    BY <1>2 DEF Flipped
  <2> QED
    BY <1>3, <1>4, <2>1, FlippersStep
<1>6. ASSUME NEW n \in Staged(t)
      PROVE  /\ ObsoleteID(t, n) = GetActiveID(upd[t][n])
             /\ OldID(n, ObsoleteID(t, n))
             /\ n \in Updates[t] /\ Registered(n) => GetActiveID(registry[n]) # ObsoleteID(t, n)
             /\ n \in Removes[t] /\ Registered(n) => GetActiveID(registry[n]) = ObsoleteID(t, n)
  <2>1. upd[t][n] \in Handles
    BY <1>0 DEF Staged
  <2>2. /\ GetInActiveID(Activate(upd[t][n])) = GetActiveID(upd[t][n])
        /\ GetActiveID(Touch(upd[t][n])) = GetActiveID(upd[t][n])
    BY <1>0, <2>1, HandleFacts, Zenon
  <2>3. ObsoleteID(t, n) = GetActiveID(upd[t][n])
    BY <2>2 DEF ObsoleteID, Final
  <2>4. /\ OldID(n, GetActiveID(upd[t][n]))
        /\ n \in Updates[t] /\ Registered(n) => GetActiveID(registry[n]) # GetActiveID(upd[t][n])
    BY <1>1, <1>2 DEF Superseded
  <2>5. n \in Removes[t] /\ Registered(n) => GetActiveID(registry[n]) = GetActiveID(upd[t][n])
    BY <1>1, <1>2 DEF Removed
  <2> QED
    BY <2>3, <2>4, <2>5
<1>7. /\ \A n \in Node : n \notin Removes[t] \cap Staged(t) => registry'[n] = registry[n]
      /\ \A n \in Removes[t] \cap Staged(t) : ~Registered(n)'
      /\ blobs' \subseteq blobs
      /\ \A b \in blobs : b \in blobs' <=> ~(b.node \in Staged(t) /\ b.id = ObsoleteID(t, b.node))
  BY <1>0, <1>2 DEF Unregister, WithoutObsolete, Registered
<1>8. ASSUME NEW n \in Existing
      PROVE  /\ Registered(n) => \/ Untouched(n)
                                 \/ ~Registered(n)' /\ \E w \in done : n \in Removes[w]
             /\ ~Registered(n) => ~Registered(n)'
  <2>1. CASE n \in Removes[t] \cap Staged(t)
    BY <1>2, <1>7, <2>1
  <2>2. CASE n \notin Removes[t] \cap Staged(t)
    <3>1. registry'[n] = registry[n]
      BY <1>0, <1>7, <2>2
    <3>2. n \in Staged(t) => n \in Updates[t]
      BY <1>0, <2>2
    <3>3. ASSUME Registered(n), NEW b, b.node = n, b.id = GetActiveID(registry[n])
          PROVE  b \in blobs' <=> b \in blobs
      BY <1>6, <1>7, <3>2, <3>3
    <3> QED
      BY <3>1, <3>3, Slots DEF Untouched, Registered
  <2> QED
    BY <2>1, <2>2
<1>9. Calm
  BY <1>2, <1>5, <1>8 DEF Calm
<1>10. Nodes' /\ Grow /\ \A n \in Existing : NodeStep(n)
  BY <1>9, CalmNodes DEF TypeInv
<1>11. Contents'
  BY <1>7, <1>10, FewerContents
<1>12. ASSUME NEW u \in Txn
       PROVE  KeptHandles(u) /\ KeptBlobs(u) /\ KeptFlips(u) /\ KeptLocks(u)
  <2>1. ASSUME NEW n \in Node, registry'[n] # registry[n], u # t
        PROVE  /\ ~Registered(n)'
               /\ Reserved(u) \/ pc[u] = "plogRemove" => n \notin W(u)
               /\ u \in plog /\ pc[u] = "crashed" => n \notin Staged(u)
    <3>1. n \in Removes[t] /\ ~Registered(n)'
      BY <1>7, <2>1
    <3>2. Registered(n)
      BY <2>1, <3>1 DEF Registered
    <3> QED
      BY <1>2, <2>1, <3>1, <3>2, RemovedAlone
  <2>2. \A n \in Adds[u] : registry'[n] = registry[n]
    BY <1>0, <1>7
  <2>3. KeptHandles(u)
    <3>1. CASE u = t
      BY <1>0, <1>4, <1>7, <2>2, <3>1 DEF KeptHandles
    <3>2. CASE u # t
      BY <1>0, <2>1, <2>2, <3>2 DEF KeptHandles
    <3> QED
      BY <3>1, <3>2
  <2>4. ASSUME pc[u] \in Working, NEW b \in blobs, b.node \in Updates[u], Waiting(u, b.node),
               b.id = NewID(u)
        PROVE  b \in blobs'
    <3>1. u \notin done /\ pc[u] # "plogRemove"
      BY <2>4, WorkFacts DEF Reserved
    <3>2. u \notin Flippers(b.node)
      BY <2>4, <3>1 DEF Flippers, Flipped, Waiting
    <3>3. ~OldID(b.node, NewID(u))
      <4>1. NewID(u) \in Txn \X Nat
        BY DEF NewID, CommitInv, TypeInv, TypeOK
      <4> QED
        BY <3>2, <4>1, Consts DEF OldID, NewID
    <3> QED
      BY <1>6, <1>7, <2>4, <3>3
  <2>5. ASSUME NEW n \in Adds[u], HasBlob(n, Base) PROVE HasBlob(n, Base)'
    <3>1. n \notin Staged(t)
      BY <1>0
    <3> QED
      BY <1>7, <2>5, <3>1 DEF HasBlob
  <2>6. KeptBlobs(u)
    BY <2>4, <2>5 DEF KeptBlobs
  <2>7. KeptFlips(u) /\ KeptLocks(u)
    BY <1>0, <1>2, <1>5 DEF KeptFlips, KeptLocks
  <2> QED
    BY <2>3, <2>6, <2>7
<1>13. Mine(t)'
  <2>1. Logged(t)'
    BY <1>2 DEF Logged, Before, RollingBack
  <2>2. /\ pc[t] \notin {"committed", "recovered"}
        /\ pc'[t] \in {"logObsolete", "obsolete", "removeLogs", "committed"} \cup Dead
        /\ t \in done' /\ t \notin plog' /\ \A x \in {"taken", "restored"} : sweep' # <<x, t>>
        /\ rd'[t] = rd[t] /\ upd'[t] = upd[t]
    BY <1>2, <1>4 DEF Dead
  <2> QED
    BY <1>2, <1>10, <1>12, <2>1, <2>2, DoneMine DEF TypeInv
<1>14. Owners'
  <2>1. ASSUME NEW b \in blobs \cap blobs', IsActive(b) PROVE Owned(b)'
    <3>1. b.node \in Node
      BY DEF CommitInv, TypeInv, TypeOK, Blob
    <3>2. b.node \notin Removes[t] \cap Staged(t)
      BY <1>6, <1>7, <2>1 DEF IsActive
    <3>3. IsActive(b)'
      BY <1>7, <2>1, <3>1, <3>2 DEF IsActive, Registered
    <3> QED
      BY <3>3 DEF Owned
  <2>2. ASSUME NEW b \in blobs \cap blobs', Owns(t, b) PROVE FALSE
    BY <1>4, <1>7, <2>2 DEF Owns
  <2>3. blobs' \ blobs = {} /\ (pc[t] \in Dead => pc'[t] \in Dead)
    BY <1>2, <1>7 DEF Dead
  <2> QED
    BY <1>3, <2>1, <2>2, <2>3, OwnersStep
<1>15. \A u \in Txn \ {t} : Beside(u)
  BY <1>3, <1>12 DEF Beside
<1> QED
  BY <1>10, <1>11, <1>13, <1>14, <1>15, Assemble

-----------------------------------------------------------------------------
(* Undoing. *)

\* rollbackAddedNodes, rollbackRemovedNodes and rollbackUpdatedNodes of a transaction that
\* still holds its locks: the slots are cleared, the marks and the new nodes taken back.
LEMMA RollbackNodesStep ==
  ASSUME CommitInv, TypeInv', OneRemover, NEW t \in Txn, RollbackNodes(t), Undoing(t)
  PROVE  CommitInv'
<1> DEFINE RS == ToUnmark(t, registry)
           Gone == tlog[t] > commitAddedNodes
<1>0. /\ pc \in [Txn -> Points] /\ keys \in [Txn -> BOOLEAN] /\ tlog[t] \in 0..12
      /\ lock \in [Node -> Txn \cup {Free}]
      /\ W(t) \subseteq Node /\ W(t) \subseteq Existing /\ Existing \subseteq Node
      /\ Updates[t] \subseteq W(t) /\ Removes[t] \subseteq W(t)
      /\ W(t) \subseteq Updates[t] \cup Removes[t] /\ Updates[t] \cap Removes[t] = {}
      /\ Adds[t] \cap Existing = {} /\ Adds[t] \subseteq Node /\ Nil \in PhysID
      /\ NoHandle \notin Handles
  BY Consts, CodeOrder DEF CommitInv, TypeInv, TypeOK, PhysID
<1>1. /\ pc[t] = "rbNodes" /\ pc'[t] = "rbLogs" /\ lock' = Release(t)
      /\ tlog' = tlog /\ plog' = plog /\ rd' = rd /\ upd' = upd /\ done' = done /\ sweep' = sweep
  BY <1>0 DEF RollbackNodes, Goto, logs
<1>2. \A u \in Txn \ {t} : Same(u)
  BY <1>0 DEF Same, RollbackNodes, Goto, logs
<1>3. Reserved(t) /\ \A n : Waiting(t, n)
  BY <1>1 DEF Reserved, Waiting
<1>4. /\ t \notin done /\ pc[t] \notin Dead /\ Guarded(t)
      /\ \A x \in {"taken", "restored"} : sweep # <<x, t>>
      /\ Updates[t] \subseteq Staged(t) /\ \A m \in Staged(t) : upd[t][m] \in Handles
      /\ \A m \in Staged(t) : registry[m] = upd[t][m]
  BY <1>3, WorkFacts
<1>5. t \notin plog /\ tlog[t] <= beforeFinalize /\ Added(t)
  BY <1>1 DEF CommitInv, Mine, PreImages, Logged, RollingBack
<1>6. \A n \in Updates[t] : Registered(n)
  BY <1>0, <1>4 DEF Registered
<1>7. ToUnreserve(t, registry) = Updates[t]
  BY <1>6 DEF ToUnreserve, Undoing, Registered
<1>8. RS \subseteq Removes[t] /\ \A n \in RS : Registered(n)
  BY DEF ToUnmark, Registered
<1>9. \A n : n \in ToUnadd(t) <=> n \in Adds[t] /\ Gone
  BY DEF ToUnadd
<1>10. /\ blobs' \subseteq blobs
       /\ \A b \in blobs :
            b \in blobs' <=> /\ ~(b.node \in Adds[t] /\ Gone)
                            /\ ~(b.node \in Updates[t] /\ b.id = GetInActiveID(registry[b.node]))
  <2> HIDE DEF Gone
  <2>1. blobs' = BlobsUnadded(t) \cap BlobsUnreserved(t, registry)
    BY DEF RollbackNodes
  <2>2. \A b \in blobs : b \in BlobsUnadded(t) <=> ~(b.node \in Adds[t] /\ Gone)
    BY <1>9 DEF BlobsUnadded
  <2>3. \A b \in blobs : b \in BlobsUnreserved(t, registry) <=>
          ~(b.node \in Updates[t] /\ b.id = GetInActiveID(registry[b.node]))
    BY <1>7 DEF BlobsUnreserved
  <2>4. BlobsUnadded(t) \subseteq blobs
    BY DEF BlobsUnadded
  <2> QED
    BY <2>1, <2>2, <2>3, <2>4
<1>11. \A n \in Node :
         registry'[n] = IF n \in Adds[t] /\ Gone THEN NoHandle
                        ELSE IF n \in RS THEN Unmark(registry[n])
                        ELSE IF n \in Updates[t] THEN Unreserve(registry[n])
                        ELSE registry[n]
  <2> HIDE DEF Gone
  <2> QED
    BY <1>7, <1>9 DEF RollbackNodes
<1>12. \A n \in Adds[t] : ~Registered(n)'
  <2>1. ~Gone => \A n \in Adds[t] : ~Registered(n)
    BY <1>1, <1>4, <1>5 DEF Added, Adding
  <2>2. \A n \in Adds[t] : n \notin RS /\ n \notin Updates[t]
    BY <1>0, <1>8
  <2> HIDE DEF RS, Gone
  <2> QED
    BY <1>0, <1>11, <2>1, <2>2 DEF Registered
<1> HIDE DEF RS, Gone
<1>13. ASSUME NEW n \in RS \cup Updates[t]
       PROVE  /\ n \in Existing /\ n \in Node /\ n \in W(t) /\ Registered(n) /\ Registered(n)'
              /\ GetActiveID(registry'[n]) = GetActiveID(registry[n])
              /\ registry'[n].version = registry[n].version
              /\ GetInActiveID(registry'[n]) # GetActiveID(registry[n])
  <2>1. n \in Existing /\ n \in Node /\ Registered(n) /\ n \in W(t) /\ n \notin Adds[t]
    BY <1>0, <1>6, <1>8
  <2>2. /\ registry[n] \in Handles /\ GetActiveID(registry[n]) # Nil
        /\ GetInActiveID(registry[n]) # GetActiveID(registry[n])
    BY <2>1, Slots
  <2>3. /\ Unmark(registry[n]) \in Handles /\ Unreserve(registry[n]) \in Handles
        /\ GetActiveID(Unmark(registry[n])) = GetActiveID(registry[n])
        /\ GetInActiveID(Unmark(registry[n])) = GetInActiveID(registry[n])
        /\ Unmark(registry[n]).version = registry[n].version
        /\ GetActiveID(Unreserve(registry[n])) = GetActiveID(registry[n])
        /\ GetInActiveID(Unreserve(registry[n])) = Nil
        /\ Unreserve(registry[n]).version = registry[n].version
    BY <1>0, <2>2, HandleFacts, HandleOps, Zenon
  <2>4. registry'[n] = Unmark(registry[n]) \/ registry'[n] = Unreserve(registry[n])
    BY <1>11, <2>1
  <2>5. CASE registry'[n] = Unmark(registry[n])
    BY <1>0, <2>1, <2>2, <2>3, <2>5 DEF Registered
  <2>6. CASE registry'[n] = Unreserve(registry[n])
    BY <1>0, <2>1, <2>2, <2>3, <2>6 DEF Registered
  <2> QED
    BY <2>4, <2>5, <2>6
<1>14. \A n \in Node : n \notin RS \cup Updates[t] /\ n \notin Adds[t] => registry'[n] = registry[n]
  BY <1>11
<1>15. ASSUME NEW n \in Existing
       PROVE  (Registered(n) => Untouched(n)) /\ (~Registered(n) => ~Registered(n)')
  <2>1. n \in Node /\ n \notin Adds[t]
    BY <1>0
  <2>2. ASSUME Registered(n), NEW b, b.node = n, b.id = GetActiveID(registry[n])
        PROVE  b \in blobs' <=> b \in blobs
    <3>1. b.id # GetInActiveID(registry[b.node])
      BY <2>2, Slots
    <3> QED
      BY <1>10, <2>1, <2>2, <3>1
  <2>3. CASE n \in RS \cup Updates[t]
    BY <1>13, <2>2, <2>3 DEF Untouched
  <2>4. CASE n \notin RS \cup Updates[t]
    BY <1>14, <2>1, <2>2, <2>4, Slots DEF Untouched, Registered
  <2> QED
    BY <2>3, <2>4
<1>16. \A n \in Updates[t] : ~Flipped(t, n) /\ ~Flipped(t, n)'
  BY <1>1, <1>4 DEF Flipped
<1>17. \A n \in Node : Flippers(n)' = Flippers(n)
  BY <1>2, <1>16, FlippersStep
<1>18. Calm
  BY <1>1, <1>15, <1>17 DEF Calm
<1>19. Nodes' /\ Grow /\ \A n \in Existing : NodeStep(n)
  BY <1>18, CalmNodes DEF TypeInv
<1>20. Contents'
  BY <1>10, <1>19, FewerContents
<1>21. Mine(t)'
  <2>1. Idle(t)'
    BY <1>1, <1>4, <1>5 DEF Idle
  <2>2. Logged(t)' /\ Locked(t)'
    BY <1>1, <1>5 DEF Logged, Locked, Before, RollingBack, Guarded, Critical, Undoing
  <2>3. ReadOld(t)'
    BY <1>1, <1>19, ReadKeeps DEF CommitInv, Mine, TypeInv
  <2> QED
    BY <1>1, <1>4, <1>12, <2>1, <2>2, <2>3, IdleMine DEF TypeInv
<1>22. Owners'
  <2>1. ASSUME NEW b \in blobs \cap blobs', IsActive(b) PROVE Owned(b)'
    <3>1. b.node \in Node
      BY DEF CommitInv, TypeInv, TypeOK, Blob
    <3>2. CASE b.node \in RS \cup Updates[t]
      BY <1>13, <2>1, <3>2 DEF IsActive, Owned
    <3>3. CASE b.node \notin RS \cup Updates[t]
      <4>1. registry'[b.node] = registry[b.node]
        BY <1>10, <1>11, <2>1, <3>1, <3>3
      <4> QED
        BY <2>1, <4>1 DEF IsActive, Owned, Registered
    <3> QED
      BY <3>2, <3>3
  <2>2. ASSUME NEW b \in blobs \cap blobs', Owns(t, b) PROVE FALSE
    <3>1. b.node \in Updates[t] /\ b.id = GetInActiveID(upd[t][b.node])
      BY <1>1, <1>4, <2>2 DEF Owns
    <3>2. upd[t][b.node] = registry[b.node]
      BY <1>4, <3>1
    <3> QED
      BY <1>10, <2>2, <3>1, <3>2
  <2>3. blobs' \ blobs = {}
    BY <1>10
  <2> QED
    BY <1>2, <1>4, <2>1, <2>2, <2>3, OwnersStep
<1>23. ASSUME NEW u \in Txn, u # t PROVE Beside(u)
  <2>1. OwnWrites(t)
    <3>1. \A n \in Node : n \notin W(t) /\ n \notin Adds[t] => registry'[n] = registry[n]
      BY <1>13, <1>14
    <3>2. ASSUME NEW n \in W(t), Registered(n), NEW w \in done, n \in Removes[w] PROVE FALSE
      BY <1>3, <1>4, <3>2, RemovedAlone
    <3> QED
      BY <1>0, <1>15, <3>1, <3>2 DEF OwnWrites
  <2>2. LockMove(t)
    BY <1>0, <1>1 DEF LockMove, Release
  <2>3. ASSUME pc[u] \in Working, NEW b \in blobs, b.node \in Updates[u] PROVE b \in blobs'
    <3>1. Guarded(u)
      BY <2>3 DEF Guarded, Working, Critical
    <3>2. b.node \in W(u) /\ b.node \notin Adds[t]
      BY <2>3, Consts
    <3>3. b.node \notin Updates[t]
      BY <1>0, <1>4, <1>23, <3>1, <3>2, Exclusive
    <3> QED
      BY <1>10, <3>2, <3>3
  <2>4. ASSUME NEW n \in Adds[u], HasBlob(n, Base) PROVE HasBlob(n, Base)'
    <3>1. n \notin Adds[t] /\ n \notin Updates[t]
      BY <1>0, <1>23, Consts
    <3> QED
      BY <1>10, <2>4, <3>1 DEF HasBlob
  <2>5. KeptBlobs(u)
    BY <2>3, <2>4 DEF KeptBlobs
  <2> QED
    BY <1>2, <1>4, <1>17, <1>23, <2>1, <2>2, <2>5, GuardedBeside
<1> QED
  BY <1>19, <1>20, <1>21, <1>22, <1>23, Assemble

-----------------------------------------------------------------------------
(* Time and recovery. *)

\* A step of no transaction, which changes at most the timestamps of some handles.
LEMMA LikeStep ==
  ASSUME CommitInv, TypeInv', blobs' = blobs, done' = done,
         \A u \in Txn : Same(u) /\ KeptLocks(u) /\ KeptHandles(u),
         \A n \in Node : \/ registry'[n] = registry[n]
                         \/ Registered(n) /\ Registered(n)' /\ LikeHandle(registry'[n], registry[n])
  PROVE  CommitInv'
<1>1. \A n \in Node : Flippers(n)' = Flippers(n)
  <2>1. \A u \in Txn, n \in Node : Flipped(u, n)' <=> Flipped(u, n)
    BY DEF Same, Flipped
  <2> QED
    BY <2>1 DEF Flippers
<1>2. ASSUME NEW n \in Node
      PROVE  /\ Registered(n)' <=> Registered(n)
             /\ Registered(n) => /\ GetActiveID(registry'[n]) = GetActiveID(registry[n])
                                 /\ GetInActiveID(registry'[n]) = GetInActiveID(registry[n])
                                 /\ registry'[n].version = registry[n].version
  <2>1. CASE registry'[n] = registry[n]
    BY <2>1 DEF Registered
  <2>2. CASE Registered(n) /\ Registered(n)' /\ LikeHandle(registry'[n], registry[n])
    <3>1. registry[n] \in Handles /\ registry'[n] \in Handles
      BY <2>2 DEF CommitInv, TypeInv, TypeOK, Registered
    <3> QED
      BY <2>2, <3>1, LikeFacts
  <2> QED
    BY <2>1, <2>2
<1>3. Calm
  <2>1. ASSUME NEW n \in Existing
        PROVE  (Registered(n) => Untouched(n)) /\ (~Registered(n) => ~Registered(n)')
    <3>1. n \in Node
      BY Consts
    <3> QED
      BY <1>2, <3>1, Slots DEF Untouched
  <2> QED
    BY <1>1, <2>1 DEF Calm
<1>4. Nodes' /\ Grow /\ \A n \in Existing : NodeStep(n)
  BY <1>3, CalmNodes DEF TypeInv
<1>5. Contents'
  BY <1>4, FewerContents
<1>6. ASSUME NEW u \in Txn PROVE Mine(u)'
  <2>1. KeptBlobs(u) /\ KeptFlips(u)
    BY <1>1, Consts DEF KeptBlobs, KeptFlips, HasBlob
  <2>2. TypeOK /\ TypeOK' /\ Mine(u) /\ Beside(u)
    BY <2>1 DEF CommitInv, TypeInv, Beside
  <2> QED
    BY <1>4, <2>2, BesideKeeps
<1>7. ASSUME NEW b \in blobs PROVE Owned(b)'
  <2>1. b.node \in Node /\ Owned(b)
    BY DEF CommitInv, TypeInv, TypeOK, Blob, Owners
  <2>2. CASE IsActive(b)
    BY <1>2, <2>1, <2>2 DEF IsActive, Owned
  <2>3. ASSUME NEW u \in Txn, Owns(u, b) PROVE Owned(b)'
    BY <2>3, SameOwns DEF Owned
  <2>4. ASSUME NEW u \in Txn, pc[u] \in Dead PROVE Owned(b)'
    BY <2>4 DEF Owned, Same
  <2> QED
    BY <2>1, <2>2, <2>3, <2>4 DEF Owned
<1> QED
  BY <1>4, <1>5, <1>6, <1>7 DEF CommitInv, Owners

\* An hour goes by for a handle nobody works on.
LEMMA AgeHandleStep ==
  ASSUME CommitInv, TypeInv', OneRemover, NEW n \in Node, AgeHandle(n)
  PROVE  CommitInv'
<1>0. registry \in [Node -> Handles \cup {NoHandle}] /\ NoHandle \notin Handles
  BY Consts DEF CommitInv, TypeInv, TypeOK
<1>1. /\ Registered(n) /\ registry[n].wip = "fresh"
      /\ registry'[n] = [registry[n] EXCEPT !.wip = "stale"]
      /\ \A m \in Node : m # n => registry'[m] = registry[m]
      /\ blobs' = blobs /\ done' = done /\ lock' = lock
      /\ \A t \in Txn : n \in W(t) => pc[t] \in Ended \cup {"read", "lock", "refetch"}
  BY <1>0 DEF AgeHandle
<1>2. \A u \in Txn : Same(u)
  BY DEF Same, AgeHandle, logs, mem
<1>3. Registered(n)' /\ LikeHandle(registry'[n], registry[n])
  <2>1. registry[n] \in Handles
    BY <1>0, <1>1 DEF Registered
  <2>2. registry'[n] \in Handles /\ LikeHandle(registry'[n], registry[n])
    BY <1>1, <2>1 DEF Handles, HandleOf, LikeHandle, Timestamp
  <2> QED
    BY <1>0, <2>2 DEF Registered
<1>4. ASSUME NEW u \in Txn PROVE KeptHandles(u) /\ KeptLocks(u)
  <2>1. Reserved(u) \/ pc[u] = "plogRemove" => n \notin W(u)
    BY <1>1 DEF Reserved, Undoing, Working, Ended, Dead
  <2>2. u \in done => n \notin Removes[u]
    BY <1>1, RemovedAlone
  <2>3. n \notin Adds[u]
    <3>1. NewNode.wip = "none"
      BY DEF NewNode, NewHandle
    <3>2. n \in Adds[u] => registry[n] = NewNode
      BY <1>1 DEF CommitInv, Mine, Added
    <3> QED
      BY <1>1, <3>1, <3>2
  <2>4. /\ W(u) \subseteq Node /\ Removes[u] \subseteq Node /\ Adds[u] \subseteq Node
        /\ Staged(u) \subseteq Node
    BY Consts DEF Staged
  <2>5. KeptHandles(u)
    BY <1>1, <1>3, <2>1, <2>2, <2>3, <2>4 DEF KeptHandles
  <2> QED
    BY <1>1, <2>5 DEF KeptLocks
<1> QED
  BY <1>1, <1>2, <1>3, <1>4, LikeStep

\* The lock of a dead transaction lapses.
LEMMA ExpireLockStep ==
  ASSUME Orderly, CommitInv, TypeInv', NEW n \in Node, ExpireLock(n)
  PROVE  CommitInv'
<1>0. lock \in [Node -> Txn \cup {Free}]
  BY DEF CommitInv, TypeInv, TypeOK
<1>1. /\ lock[n] \in Txn /\ pc[lock[n]] \in Dead /\ lock'[n] = Free
      /\ \A m \in Node : m # n => lock'[m] = lock[m]
      /\ registry' = registry /\ blobs' = blobs /\ done' = done
  BY <1>0 DEF ExpireLock, Orderly, store
<1>2. \A u \in Txn : Same(u)
  BY DEF Same, ExpireLock, logs, mem
<1>3. ASSUME NEW u \in Txn PROVE KeptHandles(u) /\ KeptLocks(u)
  <2>1. Guarded(u) => u # lock[n]
    BY <1>1 DEF Guarded, Critical, Undoing, Dead
  <2>2. W(u) \subseteq Node /\ Staged(u) \subseteq Node
    BY Consts DEF Staged
  <2>3. KeptLocks(u)
    BY <1>1, <2>1, <2>2 DEF KeptLocks
  <2> QED
    BY <1>1, <2>3 DEF KeptHandles
<1> QED
  BY <1>1, <1>2, <1>3, LikeStep

\* The sweep takes up a dead transaction's priority log, and writes back handles that
\* differ from those in the registry by their timestamps only.
LEMMA SweepStep ==
  ASSUME Orderly, CommitInv, TypeInv', OneRemover, NEW t \in Txn, SweepRead(t) \/ SweepRestore(t)
  PROVE  CommitInv'
<1>0. registry \in [Node -> Handles \cup {NoHandle}] /\ Staged(t) \subseteq W(t)
  BY DEF CommitInv, TypeInv, TypeOK, Staged
<1>1. /\ lock' = lock /\ blobs' = blobs /\ done' = done /\ pc' = pc /\ plog' = plog /\ tlog' = tlog
      /\ \A x \in {"taken", "restored"}, u \in Txn : sweep' = <<x, u>> => u = t
  <2>1. NoSweep \notin {"taken", "restored"} \X Txn
    BY ConstAssumption
  <2> QED
    BY <2>1 DEF SweepRead, SweepRestore, store, logs
<1>2. t \in plog /\ pc[t] = "crashed" /\ Covered(t) /\ t \notin done
  <2>1. PreImages(t) /\ Covered(t)
    BY DEF CommitInv, Mine
  <2>2. t \in plog /\ pc[t] = "crashed"
    BY <2>1 DEF SweepRead, SweepRestore, Orderly, PreImages, Ended, Dead
  <2> QED
    BY <2>1, <2>2 DEF PreImages
<1>3. \A u \in Txn : Same(u)
  BY <1>1, <1>2 DEF Same, SweepRead, SweepRestore, mem
<1>4. ASSUME NEW n \in Node, registry'[n] # registry[n]
      PROVE  /\ n \in Staged(t) /\ lock[n] = Free
             /\ Registered(n) /\ Registered(n)' /\ LikeHandle(registry'[n], registry[n])
  <2>1. SweepRestore(t)
    BY <1>4 DEF SweepRead, store
  <2>2. /\ \A m \in Staged(t) : lock[m] = Free
        /\ registry' = [m \in Node |-> IF m \in Staged(t) THEN upd[t][m] ELSE registry[m]]
    BY <1>4, <2>1 DEF SweepRestore, Written
  <2>3. n \in Staged(t) /\ registry'[n] = upd[t][n]
    BY <1>4, <2>2
  <2>4. Registered(n) /\ LikeHandle(registry[n], upd[t][n]) /\ upd[t][n] # NoHandle
    BY <1>2, <2>3 DEF Covered, Staged
  <2>5. registry[n] \in Handles /\ upd[t][n] \in Handles
    BY <1>0, <2>4 DEF Registered, CommitInv, TypeInv, TypeOK
  <2>6. LikeHandle(upd[t][n], registry[n])
    BY <2>4, <2>5, LikeFacts
  <2> QED
    BY <2>2, <2>3, <2>4, <2>6 DEF Registered
<1>5. ASSUME NEW u \in Txn PROVE KeptHandles(u) /\ KeptLocks(u)
  <2>1. /\ W(u) \subseteq Node /\ Removes[u] \subseteq Node /\ Adds[u] \subseteq Node
        /\ Staged(u) \subseteq Node /\ Adds[u] \cap W(t) = {} /\ Free \notin Txn
    BY Consts DEF Staged
  <2>2. ASSUME Reserved(u) \/ pc[u] = "plogRemove", NEW n \in W(u) PROVE registry'[n] = registry[n]
    <3>1. Guarded(u)
      BY <2>2 DEF Guarded, Reserved, Working, Critical
    <3>2. lock[n] = u
      BY <3>1 DEF CommitInv, Mine, Locked
    <3> QED
      BY <1>4, <2>1, <3>2
  <2>3. ASSUME u \in done, NEW n \in Removes[u] PROVE registry'[n] = registry[n]
    <3> SUFFICES ASSUME registry'[n] # registry[n] PROVE FALSE
      OBVIOUS
    <3>1. n \in Staged(t) /\ Registered(n) /\ t # u
      BY <1>2, <1>4, <2>1, <2>3
    <3> QED
      BY <1>2, <2>3, <3>1, RemovedAlone
  <2>4. \A n \in Adds[u] : registry'[n] = registry[n]
    BY <1>0, <1>4, <2>1
  <2>5. KeptHandles(u)
    BY <1>4, <2>1, <2>2, <2>3, <2>4 DEF KeptHandles
  <2> QED
    BY <1>1, <2>5 DEF KeptLocks
<1> QED
  BY <1>1, <1>3, <1>4, <1>5, LikeStep

\* The swept priority log goes.
LEMMA SweepRemoveStep ==
  ASSUME CommitInv, TypeInv', NEW t \in Txn, SweepRemove(t)
  PROVE  CommitInv'
<1>1. /\ sweep = <<"restored", t>> /\ sweep' = NoSweep /\ plog' = plog \ {t}
      /\ registry' = registry /\ blobs' = blobs /\ done' = done /\ lock' = lock
      /\ pc' = pc /\ tlog' = tlog /\ rd' = rd
  BY DEF SweepRemove, store, mem
<1>2. \A x \in {"taken", "restored"}, u \in Txn : sweep' # <<x, u>>
  BY <1>1, ConstAssumption
<1>3. \A u \in Txn \ {t} : Same(u)
  BY <1>1, <1>2 DEF Same, SweepRemove, mem
<1>4. pc[t] = "crashed" /\ t \notin done /\ tlog[t] <= beforeFinalize /\ Added(t) /\ ReadOld(t)
  <2>1. PreImages(t) /\ Logged(t) /\ Added(t) /\ ReadOld(t)
    BY DEF CommitInv, Mine
  <2>2. t \in plog /\ pc[t] = "crashed"
    BY <1>1, <2>1 DEF PreImages
  <2> QED
    BY <2>1, <2>2 DEF PreImages, Logged, Dead
<1>5. pc'[t] \in Dead
  BY <1>1, <1>4 DEF Dead
<1>6. ReadOld(t)'
  BY <1>1, <1>4 DEF ReadOld, Registered, SeenAt, SeenIn
<1>7. Mine(t)'
  <2>1. \A n \in Adds[t] : Registered(n)' => registry'[n] = NewNode
    BY <1>1, <1>4 DEF Added, Registered
  <2>2. t \notin done' /\ t \notin plog' /\ tlog'[t] <= beforeFinalize
    BY <1>1, <1>4
  <2> QED
    BY <1>2, <1>5, <1>6, <2>1, <2>2, LostMine
<1>8. \A n \in Updates[t] : Flipped(t, n)' <=> Flipped(t, n)
  BY <1>1, <1>4 DEF Flipped
<1>9. LockMove(t) /\ \A b \in blobs : Owned(b)'
  BY <1>1, <1>5 DEF LockMove, Owned
<1> QED
  BY <1>1, <1>3, <1>5, <1>7, <1>8, <1>9, Quiet

\* What a step of the recovery of a transaction that died uncommitted writes: it takes back
\* new nodes, or delete marks of nodes that nobody has locked and that are as it read them.
LEMMA RecoverWrites ==
  ASSUME Orderly, CommitInv, NEW t \in Txn,
         \/ RecoverStores(t) \/ RecoverAdded(t) \/ RecoverRemoved(t) \/ RecoverUpdated(t)
         \/ RecoverLogs(t)
  PROVE  \E A \in SUBSET Adds[t], R \in SUBSET Removes[t] :
           /\ \A n \in R : Registered(n) /\ lock[n] = Free
           /\ \A n \in Node : registry'[n] = IF n \in A THEN NoHandle
                                             ELSE IF n \in R THEN Unmark(registry[n])
                                             ELSE registry[n]
<1>1. CASE RecoverStores(t) \/ RecoverUpdated(t) \/ RecoverLogs(t)
  <2>1. registry' = registry
    BY <1>1 DEF RecoverStores, RecoverUpdated, RecoverLogs, store
  <2>2. {} \in SUBSET Adds[t] /\ {} \in SUBSET Removes[t]
    OBVIOUS
  <2> QED
    BY <2>1, <2>2
<1>2. CASE RecoverAdded(t)
  <2>1. registry' = Written(ToUnadd(t), Nothing)
    BY <1>2 DEF RecoverAdded
  <2>2. \A n \in Node : registry'[n] = IF n \in ToUnadd(t) THEN NoHandle ELSE registry[n]
    BY <2>1 DEF Written, Nothing
  <2>3. PICK A \in SUBSET Adds[t] : A = ToUnadd(t)
    BY DEF ToUnadd
  <2>4. PICK R \in SUBSET Removes[t] : R = {}
    OBVIOUS
  <2>5. \A n \in Node : registry'[n] = IF n \in A THEN NoHandle
                                       ELSE IF n \in R THEN Unmark(registry[n]) ELSE registry[n]
    BY <2>2, <2>3, <2>4
  <2>6. \A n \in R : Registered(n) /\ lock[n] = Free
    BY <2>4
  <2> QED
    BY <2>5, <2>6
<1>3. CASE RecoverRemoved(t)
  <2>1. PICK S : S = ToUnmark(t, undo[t])
    OBVIOUS
  <2>2. /\ Current(t, S)
        /\ \E R \in Rewritten(S, FALSE) : registry' = Written(R, [n \in S |-> Unmark(undo[t][n])])
    BY <1>3, <2>1 DEF RecoverRemoved, PutUnmarked
  <2>3. \A n \in S : n \in Removes[t] /\ undo[t][n] # NoHandle
    BY <2>1 DEF ToUnmark
  <2>4. \A n \in S : registry[n] = undo[t][n]
    BY <2>2 DEF Current, Orderly
  <2>5. PICK R \in Rewritten(S, FALSE) : registry' = Written(R, [n \in S |-> Unmark(undo[t][n])])
    BY <2>2
  <2>6. R \subseteq S /\ \A n \in R : lock[n] = Free
    BY DEF Rewritten
  <2>7. \A n \in R : n \in Removes[t] /\ Registered(n) /\ lock[n] = Free
    BY <2>3, <2>4, <2>6 DEF Registered
  <2>8. \A n \in Node : registry'[n] = IF n \in R THEN Unmark(registry[n]) ELSE registry[n]
    BY <2>4, <2>5, <2>6 DEF Written
  <2>9. {} \in SUBSET Adds[t] /\ R \in SUBSET Removes[t]
    BY <2>7
  <2> QED
    BY <2>7, <2>8, <2>9
<1> QED
  BY <1>1, <1>2, <1>3

\* A step of the recovery of a transaction that died uncommitted: its new nodes and its
\* staged blobs go, and the delete marks on nodes that nobody has locked.
LEMMA RecoverStep ==
  ASSUME Orderly, CommitInv, TypeInv', OneRemover, NEW t \in Txn,
         \/ RecoverStores(t) \/ RecoverAdded(t) \/ RecoverRemoved(t) \/ RecoverUpdated(t)
         \/ RecoverLogs(t) /\ t \notin done
  PROVE  CommitInv'
<1>0. /\ pc \in [Txn -> Points] /\ tlog \in [Txn -> 0..deleteObsoleteEntries] /\ tlog[t] \in 0..12
      /\ W(t) \subseteq Node /\ W(t) \subseteq Existing /\ Existing \subseteq Node
      /\ Updates[t] \subseteq W(t) /\ Removes[t] \subseteq W(t)
      /\ Adds[t] \cap Existing = {} /\ Adds[t] \subseteq Node /\ Nil \in PhysID
      /\ NoHandle \notin Handles /\ NewID(t) \in Txn \X Nat
  BY Consts, CodeOrder DEF CommitInv, TypeInv, TypeOK, PhysID, NewID
<1>1a. /\ pc[t] \in {"crashed", "rcAdded", "rcRemoved", "rcUpdated", "rcLogs"}
       /\ pc'[t] \in {"rcAdded", "rcRemoved", "rcUpdated", "rcLogs", "recovered"}
       /\ lock' = lock /\ plog' = plog /\ rd' = rd /\ done' = done /\ sweep' = sweep
       /\ tlog'[t] \in {0, tlog[t]} /\ (pc[t] = "crashed" => Expired(t) /\ ~Finished(tlog[t]))
       /\ pc[t] = "rcLogs" => t \notin done
  BY <1>0 DEF RecoverStores, RecoverAdded, RecoverRemoved, RecoverUpdated, RecoverLogs, Expired,
     Goto, Log, logs, mem
<1>1. /\ t \notin done /\ t \notin plog
      /\ lock' = lock /\ plog' = plog /\ rd' = rd /\ done' = done /\ sweep' = sweep
  <2>1. Logged(t) /\ PreImages(t)
    BY DEF CommitInv, Mine
  <2>2. t \notin done
    BY <1>0, <1>1a, <2>1, CodeOrder DEF Logged, Finished
  <2>3. t \notin plog
    BY <1>1a, <2>1 DEF PreImages, Expired, Orderly
  <2> QED
    BY <1>1a, <2>2, <2>3
<1>2. \A u \in Txn \ {t} : Same(u)
  BY <1>0 DEF Same, RecoverStores, RecoverAdded, RecoverRemoved, RecoverUpdated, RecoverLogs,
     Goto, Log, logs, mem
<1>3. /\ Added(t) /\ tlog[t] <= beforeFinalize /\ \A x \in {"taken", "restored"} : sweep # <<x, t>>
  BY <1>1, <1>1a DEF CommitInv, Mine, Logged, PreImages, Dead
<1>5. PICK A \in SUBSET Adds[t], R \in SUBSET Removes[t] :
           /\ \A n \in R : Registered(n) /\ lock[n] = Free
           /\ \A n \in Node : registry'[n] = IF n \in A THEN NoHandle
                                             ELSE IF n \in R THEN Unmark(registry[n])
                                             ELSE registry[n]
  BY RecoverWrites
<1>6. /\ blobs' \subseteq blobs
      /\ \A b \in blobs : b \notin blobs' => \/ b.node \in Adds[t]
                                             \/ b.node \in Updates[t] /\ b.id = NewID(t)
  BY DEF RecoverStores, RecoverAdded, RecoverRemoved, RecoverUpdated, RecoverLogs, store,
     BlobsUnadded, ToUnadd
<1>7. \A n \in R : n \in Removes[t] /\ Registered(n) /\ lock[n] = Free
  BY <1>5
<1>8. \A n \in Node : registry'[n] = IF n \in A THEN NoHandle
                                     ELSE IF n \in R THEN Unmark(registry[n]) ELSE registry[n]
  BY <1>5
<1>9. \A n \in Node : n \notin R /\ n \notin Adds[t] => registry'[n] = registry[n]
  BY <1>8
<1>10. ASSUME NEW n \in R
       PROVE  /\ n \in Existing /\ n \in Node /\ registry[n] \in Handles /\ registry'[n] \in Handles
              /\ Registered(n) /\ Registered(n)' /\ registry'[n] = Unmark(registry[n])
              /\ GetActiveID(registry'[n]) = GetActiveID(registry[n])
              /\ GetInActiveID(registry'[n]) = GetInActiveID(registry[n])
              /\ registry'[n].version = registry[n].version
              /\ ~registry[n].deleted => LikeHandle(registry'[n], registry[n])
  <2>1. n \in Existing /\ n \in Node /\ n \notin Adds[t] /\ Registered(n)
    BY <1>0, <1>7
  <2>2. registry[n] \in Handles /\ registry'[n] = Unmark(registry[n])
    BY <1>8, <2>1, Slots
  <2>3. /\ Unmark(registry[n]) \in Handles
        /\ GetActiveID(Unmark(registry[n])) = GetActiveID(registry[n])
        /\ GetInActiveID(Unmark(registry[n])) = GetInActiveID(registry[n])
        /\ Unmark(registry[n]).version = registry[n].version
        /\ ~registry[n].deleted => Unmark(registry[n]) = [registry[n] EXCEPT !.wip = "none"]
    BY <1>0, <2>2, HandleFacts, HandleOps, Zenon
  <2>4. ~registry[n].deleted => LikeHandle(registry'[n], registry[n])
    BY <2>2, <2>3 DEF LikeHandle, Handles, HandleOf
  <2> QED
    BY <1>0, <2>1, <2>2, <2>3, <2>4 DEF Registered
<1>11. \A n \in Updates[t] : ~Flipped(t, n) /\ ~Flipped(t, n)'
  BY <1>1, <1>1a DEF Flipped
<1>12. \A n \in Node : Flippers(n)' = Flippers(n)
  BY <1>2, <1>11, FlippersStep
<1>13. ASSUME NEW n \in Existing
       PROVE  (Registered(n) => Untouched(n)) /\ (~Registered(n) => ~Registered(n)')
  <2>1. n \in Node /\ n \notin Adds[t]
    BY <1>0
  <2>2. ASSUME Registered(n), NEW b, b.node = n, b.id = GetActiveID(registry[n])
        PROVE  b \in blobs' <=> b \in blobs
    <3>1. OldID(n, GetActiveID(registry[n]))
      BY <2>2, Slots DEF Whole
    <3>2. n \in Updates[t] => t \notin Flippers(n)
      BY <1>11 DEF Flippers
    <3>3. n \in Updates[t] => GetActiveID(registry[n]) # NewID(t)
      BY <1>0, <3>1, <3>2, Consts DEF OldID, NewID
    <3> QED
      BY <1>6, <2>1, <2>2, <3>3
  <2>3. CASE n \in R
    BY <1>10, <2>2, <2>3, Slots DEF Untouched
  <2>4. CASE n \notin R
    BY <1>9, <2>1, <2>2, <2>4, Slots DEF Untouched, Registered
  <2> QED
    BY <2>3, <2>4
<1>14. Calm
  BY <1>1, <1>12, <1>13 DEF Calm
<1>15. Nodes' /\ Grow /\ \A n \in Existing : NodeStep(n)
  BY <1>14, CalmNodes DEF TypeInv
<1>16. Contents'
  BY <1>6, <1>15, FewerContents
<1>17. pc'[t] \in Dead
  BY <1>1a DEF Dead
<1>18. Owners'
  BY <1>17 DEF Owners, Owned
<1>19. Mine(t)'
  <2>1. ReadOld(t)'
    BY <1>1, <1>15, ReadKeeps DEF CommitInv, Mine, TypeInv
  <2>2. \A n \in Adds[t] : Registered(n)' => registry'[n] = NewNode
    <3> SUFFICES ASSUME NEW n \in Adds[t], Registered(n)' PROVE registry'[n] = NewNode
      OBVIOUS
    <3>1. n \notin R /\ n \in Node
      BY <1>0, <1>7
    <3>2. registry'[n] = registry[n]
      BY <1>8, <3>1 DEF Registered
    <3> QED
      BY <1>3, <3>2 DEF Added, Registered
  <2>3. t \notin done' /\ t \notin plog' /\ tlog'[t] <= beforeFinalize
    BY <1>0, <1>1, <1>1a, <1>3, CodeOrder
  <2> QED
    BY <1>1, <1>3, <1>17, <2>1, <2>2, <2>3, LostMine
<1>20. ASSUME NEW u \in Txn \ {t} PROVE Beside(u)
  <2>0. /\ W(u) \subseteq Node /\ W(u) \cap Adds[t] = {} /\ Adds[u] \cap Adds[t] = {}
        /\ Adds[u] \cap W(t) = {} /\ Adds[u] \subseteq Node /\ Staged(u) \subseteq W(u)
        /\ Removes[u] \subseteq W(u) /\ Updates[u] \subseteq W(u) /\ Free \notin Txn
        /\ W(u) \subseteq Updates[u] \cup Removes[u]
    BY Consts DEF Staged
  <2>1. ASSUME NEW n \in Removes[u] PROVE n \notin R
    BY <1>7, <2>1 DEF OneRemover
  <2>2. ASSUME Reserved(u) \/ pc[u] = "plogRemove", NEW n \in W(u) PROVE registry'[n] = registry[n]
    <3>1. Guarded(u)
      BY <2>2 DEF Guarded, Reserved, Working, Critical
    <3>2. lock[n] = u
      BY <3>1 DEF CommitInv, Mine, Locked
    <3> QED
      BY <1>7, <1>9, <2>0, <3>2
  <2>3. ASSUME u \in plog, pc[u] = "crashed", NEW n \in Staged(u)
        PROVE  \/ registry'[n] = registry[n]
               \/ Registered(n)' /\ LikeHandle(registry'[n], registry[n])
    <3>1. CASE n \in R
      <4>1. n \in Updates[u]
        BY <2>0, <2>1, <3>1
      <4>2. LikeHandle(registry[n], upd[u][n]) /\ ~upd[u][n].deleted
        BY <2>3, <4>1 DEF CommitInv, Mine, Covered
      <4>3. upd[u][n] \in Handles
        BY <2>0 DEF Staged, CommitInv, TypeInv, TypeOK
      <4>4. ~registry[n].deleted
        BY <1>10, <3>1, <4>2, <4>3, LikeFacts
      <4> QED
        BY <1>10, <3>1, <4>4
    <3>2. CASE n \notin R
      BY <1>9, <2>0, <3>2
    <3> QED
      BY <3>1, <3>2
  <2>4. \A n \in Removes[u] : registry'[n] = registry[n]
    BY <1>9, <2>0, <2>1
  <2>5. \A n \in Adds[u] : registry'[n] = registry[n]
    <3>1. \A n \in R : n \in W(t)
      BY <1>0, <1>7
    <3> QED
      BY <1>9, <2>0, <3>1
  <2>6. KeptHandles(u)
    BY <2>2, <2>3, <2>4, <2>5 DEF KeptHandles
  <2>7. ASSUME NEW b \in blobs, b.node \in Updates[u], b.id = NewID(u) PROVE b \in blobs'
    <3>1. b.node \notin Adds[t] /\ NewID(u) # NewID(t)
      BY <2>0, <2>7 DEF NewID
    <3> QED
      BY <1>6, <2>7, <3>1
  <2>8. ASSUME NEW n \in Adds[u], HasBlob(n, Base) PROVE HasBlob(n, Base)'
    <3>1. n \notin Adds[t] /\ n \notin Updates[t]
      BY <1>0, <2>0
    <3> QED
      BY <1>6, <2>8, <3>1 DEF HasBlob
  <2>9. KeptBlobs(u) /\ KeptLocks(u)
    BY <1>1, <2>7, <2>8 DEF KeptBlobs, KeptLocks
  <2>10. KeptFlips(u)
    BY <1>12, <2>0 DEF KeptFlips
  <2> QED
    BY <1>2, <2>6, <2>9, <2>10 DEF Beside
<1> QED
  BY <1>15, <1>16, <1>18, <1>19, <1>20, Assemble

-----------------------------------------------------------------------------
(* The invariant holds. *)

\* At first every existing node has one blob, which nobody has updated.
LEMMA CommitInit == Init => CommitInv
<1> SUFFICES ASSUME Init PROVE CommitInv
  OBVIOUS
<1>0. TypeInv
  BY TypeInit
<1>1. /\ registry = [n \in Node |-> IF n \in Existing THEN NewNode ELSE NoHandle]
      /\ blobs = {[node |-> n, id |-> Base, seen |-> {}] : n \in Existing}
      /\ \A t \in Txn : pc[t] = "read" /\ tlog[t] = 0 /\ \A n \in Node : rd[t][n] = NotRead
      /\ plog = {} /\ done = {} /\ sweep = NoSweep
  BY DEF Init, NewNode
<1>2. GetActiveID(NewNode) = Base /\ GetInActiveID(NewNode) = Nil /\ NewNode # NoHandle
  <2>1. GetActiveID(NewNode) = Base /\ GetInActiveID(NewNode) = Nil
    BY DEF NewNode, NewHandle, GetActiveID, GetInActiveID
  <2>2. NewNode \in Handles
    BY NewHandleType DEF NewNode
  <2> QED
    BY <2>1, <2>2, Consts
<1>3. \A n \in Existing : n \in Node /\ registry[n] = NewNode /\ Registered(n)
  BY <1>1, <1>2, Consts DEF Registered
<1>4. \A b \in blobs : b.node \in Existing /\ b.id = Base /\ b.seen = {}
  BY <1>1
<1>5. \A n : Flippers(n) = {}
  BY <1>1 DEF Flippers, Flipped
<1>6. ASSUME NEW t \in Txn PROVE Mine(t)
  <2>1. pc[t] = "read" /\ tlog[t] = 0 /\ t \notin plog /\ t \notin done
    BY <1>1
  <2>2. ~Reserved(t) /\ ~Guarded(t)
    BY <2>1 DEF Reserved, Undoing, Working, Guarded, Critical
  <2>3. Logged(t) /\ Decided(t)
    BY <2>1, CodeOrder DEF Logged, Decided, Before, RollingBack, Cleaning
  <2>4. PreImages(t)
    <3>1. \A x \in {"taken", "restored"} : sweep # <<x, t>>
      BY <1>1, ConstAssumption
    <3> QED
      BY <2>1, <3>1 DEF PreImages
  <2>5. Locked(t) /\ Staging(t) /\ InPlace(t) /\ Superseded(t) /\ Covered(t) /\ Removed(t)
    BY <2>1, <2>2 DEF Locked, Staging, InPlace, Superseded, Covered, Removed
  <2>6. NewBlobs(t)
    BY <2>1 DEF NewBlobs, Working
  <2>7. ReadOld(t)
    BY <1>1, <1>3 DEF ReadOld
  <2>8. Added(t)
    <3>1. \A n \in Adds[t] : ~Registered(n)
      BY <1>1, Consts DEF Registered
    <3> QED
      BY <2>1, <3>1 DEF Added, Adding
  <2> QED
    BY <2>3, <2>4, <2>5, <2>6, <2>7, <2>8 DEF Mine
<1>7. ASSUME NEW n \in Existing PROVE Whole(n)
  <2>1. GetActiveID(registry[n]) = Base /\ GetInActiveID(registry[n]) # Base
    BY <1>2, <1>3, Consts
  <2>2. HasBlob(n, Base)
    <3>1. [node |-> n, id |-> Base, seen |-> {}] \in blobs
      BY <1>1
    <3> QED
      BY <3>1 DEF HasBlob
  <2>3. SeenIn(n, Base) = {}
    BY <1>4 DEF SeenIn
  <2> QED
    BY <1>5, <2>1, <2>2, <2>3 DEF Whole, OldID, SeenAt
<1>8. Nodes
  BY <1>3, <1>7 DEF Nodes
<1>9. Contents
  BY <1>4, Consts DEF Contents
<1>10. Owners
  BY <1>2, <1>3, <1>4 DEF Owners, Owned, IsActive
<1> QED
  BY <1>0, <1>6, <1>8, <1>9, <1>10 DEF CommitInv

\* Every step of the commit, its rollback and its recovery preserves it.
LEMMA CommitStep ==
  ASSUME Orderly, OneRemover
  PROVE  CommitInv /\ [Next]_vars => CommitInv'
<1> SUFFICES ASSUME CommitInv, [Next]_vars PROVE CommitInv'
  OBVIOUS
<1>0. TypeInv'
  BY TypeStep DEF CommitInv
<1>1. ASSUME NEW t \in Txn, Phase1(t) PROVE CommitInv'
  <2>1. CASE \/ \E n \in Node : ReadNode(t, n)
             \/ ReadFails(t) \/ StartCommit(t) \/ Verify(t)
             \/ LockNodes(t) \/ LockBusy(t) \/ GiveUp(t) \/ Refetch(t) \/ RefetchFails(t)
             \/ DualLock(t) \/ CheckFetched(t) \/ ReserveFails(t)
    BY <1>0, <2>1, IdleActions
  <2>2. CASE \/ LogUpdated(t) \/ LogRemoved(t) \/ LogAdded(t) \/ LogStore(t) \/ CommitStores(t)
             \/ LogBefore(t) \/ PlogAdd(t) \/ CheckLocks(t) \/ UserRollback(t)
             \/ MarkRemoved(t) /\ ~Removable(t)
    BY <1>0, <2>2, WorkActions
  <2>3. CASE ReserveUpdated(t)
    BY <1>0, <2>3, ReserveUpdatedStep
  <2>4. CASE StageBlobs(t)
    BY <1>0, <2>4, StageBlobsStep
  <2>5. CASE MarkRemoved(t) /\ Removable(t)
    BY <1>0, <2>5, MarkRemovedStep
  <2>6. CASE AddNodes(t) \/ AddBlobs(t)
    BY <1>0, <2>6, AddStep
  <2>7. CASE GetUpdated(t) \/ PutUpdated(t) \/ GetRemoved(t) \/ PutRemoved(t)
    <3>1. Logged(t) /\ Locked(t)
      BY DEF CommitInv, Mine
    <3>2. pc[t] \in {"update", "remove"} => Secure(t)
      BY <3>1 DEF Locked, Guarded, Critical, Secure, Orderly
    <3> QED
      BY <2>7, <3>1, <3>2 DEF Logged, GetUpdated, PutUpdated, GetRemoved, PutRemoved
  <2> QED
    BY <1>1, <2>1, <2>2, <2>3, <2>4, <2>5, <2>6, <2>7 DEF Phase1
<1>2. ASSUME NEW t \in Txn, Phase2(t) PROVE CommitInv'
  <2>1. CASE LogFinalize(t) /\ Staged(t) # {}
    BY <1>0, <2>1, WorkActions
  <2>2. CASE PlogRemove(t) \/ (LogFinalize(t) /\ Staged(t) = {})
    BY <1>0, <2>2, CommitPointStep
  <2>3. CASE \/ LogFinalizeFails(t) \/ FlipFails(t) \/ Restore(t) \/ RestoreFails(t)
             \/ PlogRemoveFails(t)
    <3>1. pc[t] # "restore"
      BY DEF CommitInv, Mine, Logged
    <3> QED
      BY <2>3, <3>1
        DEF LogFinalizeFails, FlipFails, Restore, RestoreFails, PlogRemoveFails, Orderly
  <2>4. ASSUME NEW n \in Node, Flip(t, n) PROVE CommitInv'
    BY <1>0, <2>4, FlipStep
  <2>5. CASE UnlockNodes(t) \/ LogObsolete(t) \/ RemoveLogs(t)
    BY <1>0, <2>5, DoneActions
  <2>6. CASE DeleteObsolete(t)
    BY <1>0, <2>6, CleanUpStep
  <2> QED
    BY <1>2, <2>1, <2>2, <2>3, <2>4, <2>5, <2>6 DEF Phase2
<1>3. ASSUME NEW t \in Txn, Rollback(t) PROVE CommitInv'
  <2>1. CASE (RollbackStores(t) \/ RollbackNodes(t)) /\ ~Undoing(t)
    BY <1>0, <2>1, IdleActions
  <2>2. CASE RollbackLogs(t)
    BY <1>0, <2>2, IdleActions
  <2>3. CASE RollbackStores(t) /\ Undoing(t)
    BY <1>0, <2>3, WorkActions
  <2>4. CASE RollbackNodes(t) /\ Undoing(t)
    BY <1>0, <2>4, RollbackNodesStep
  <2>5. CASE RollbackAdded(t) \/ RollbackRemoved(t) \/ RollbackRead(t) \/ RollbackUpdated(t)
    <3>1. Logged(t) /\ Locked(t)
      BY DEF CommitInv, Mine
    <3>2. ~RollbackAdded(t)
      <4> SUFFICES ASSUME RollbackAdded(t) PROVE FALSE
        OBVIOUS
      <4>1. pc[t] = "rbNodes" /\ ~Secure(t) /\ Undoing(t)
        BY DEF RollbackAdded, Undoing
      <4> QED
        BY <3>1, <4>1 DEF Locked, Guarded, Secure, Orderly
    <3> QED
      BY <2>5, <3>1, <3>2 DEF Logged, RollbackRemoved, RollbackRead, RollbackUpdated
  <2> QED
    BY <1>3, <2>1, <2>2, <2>3, <2>4, <2>5 DEF Rollback
<1>4. ASSUME NEW t \in Txn, Recovery(t) PROVE CommitInv'
  <2>1. CASE SweepRead(t) \/ SweepRestore(t)
    BY <1>0, <2>1, SweepStep
  <2>2. CASE SweepRemove(t)
    BY <1>0, <2>2, SweepRemoveStep
  <2>3. CASE RecoverObsolete(t)
    BY <1>0, <2>3, CleanUpStep
  <2>4. CASE RecoverLogs(t) /\ t \in done
    BY <1>0, <2>4, DoneActions
  <2>5. CASE \/ RecoverStores(t) \/ RecoverAdded(t) \/ RecoverRemoved(t) \/ RecoverUpdated(t)
             \/ RecoverLogs(t) /\ t \notin done
    BY <1>0, <2>5, RecoverStep
  <2> QED
    BY <1>4, <2>1, <2>2, <2>3, <2>4, <2>5 DEF Recovery
<1>5. ASSUME NEW t \in Txn, Crash(t) \/ CrashReserving(t) PROVE CommitInv'
  BY <1>0, <1>5, CrashStep, CrashReservingStep
<1>6. ASSUME NEW n \in Node, ExpireLock(n) \/ AgeHandle(n) PROVE CommitInv'
  BY <1>0, <1>6, ExpireLockStep, AgeHandleStep
<1>7. CASE UNCHANGED vars
  <2>1. /\ registry' = registry /\ blobs' = blobs /\ done' = done /\ lock' = lock
        /\ \A u \in Txn : Same(u)
    BY <1>7 DEF vars, Same
  <2>2. \A u \in Txn : KeptLocks(u) /\ KeptHandles(u)
    BY <2>1 DEF KeptLocks, KeptHandles
  <2> QED
    BY <1>0, <2>1, <2>2, LikeStep
<1> QED
  BY <1>1, <1>2, <1>3, <1>4, <1>5, <1>6, <1>7 DEF Next, Step

\* The inductive invariant of the commit: for any transactions and nodes, any number of
\* attempts, and deaths and recoveries as Orderly allows.
THEOREM CommitInvariant ==
  ASSUME Orderly, OneRemover
  PROVE  Spec => []CommitInv
<1>1. CommitInv /\ [Next]_vars => CommitInv'
  BY CommitStep
<1> QED
  BY <1>1, CommitInit, PTL DEF Spec

-----------------------------------------------------------------------------
(* The properties. *)

\* What a committed transaction wrote to a node (activateInactiveNodes in phase 2) is in
\* the node's active content as long as the node exists.
THEOREM NoLostUpdateHolds ==
  ASSUME Orderly, OneRemover
  PROVE  Spec => []NoLostUpdate
<1>1. CommitInv => NoLostUpdate
  <2> SUFFICES ASSUME CommitInv, NEW t \in done, NEW n \in Updates[t], Registered(n)
               PROVE  t \in SeenAt(n)
    BY DEF NoLostUpdate
  <2>1. t \in Txn
    BY DEF CommitInv, TypeInv, TypeOK
  <2>2. t \in Flippers(n) /\ n \in Existing
    BY <2>1, Consts DEF Flippers, Flipped
  <2> QED
    BY <2>2, Slots DEF Whole
<1> QED
  BY <1>1, CommitInvariant, PTL

\* Whatever is visible was committed, or its pre-images are still in the priority log.
THEOREM VisibleIsCoveredHolds ==
  ASSUME Orderly, OneRemover
  PROVE  Spec => []VisibleIsCovered
<1>1. CommitInv => VisibleIsCovered
  <2> SUFFICES ASSUME CommitInv, NEW n \in Existing, Registered(n), NEW u \in SeenAt(n)
               PROVE  u \in done \/ u \in plog
    BY DEF VisibleIsCovered
  <2>1. u \in Txn /\ Flipped(u, n)
    BY Slots DEF Whole, Flippers
  <2>2. PreImages(u)
    BY <2>1 DEF CommitInv, Mine
  <2> QED
    BY <2>1, <2>2 DEF Flipped, PreImages
<1> QED
  BY <1>1, CommitInvariant, PTL

\* The blob of a registered node that is neither being created nor being deleted is there:
\* clean-up, rollback and log expiry never delete an active blob.
THEOREM NoDanglingNodeHolds ==
  ASSUME Orderly, OneRemover
  PROVE  Spec => []NoDanglingNode
<1>1. CommitInv => NoDanglingNode
  <2> SUFFICES ASSUME CommitInv, NEW n \in Node, Registered(n),
                      \A t \in Txn : n \in Adds[t] => t \in done
               PROVE  HasBlob(n, GetActiveID(registry[n]))
    BY DEF NoDanglingNode
  <2>1. CASE n \in Existing
    BY <2>1, Slots DEF Whole
  <2>2. CASE n \notin Existing
    <3>1. PICK t \in Txn : n \in Adds[t]
      BY <2>2 DEF Existing
    <3>2. registry[n] = NewNode /\ HasBlob(n, Base)
      BY <3>1 DEF CommitInv, Mine, Added
    <3>3. GetActiveID(NewNode) = Base
      BY DEF NewNode, NewHandle, GetActiveID
    <3> QED
      BY <3>2, <3>3
  <2> QED
    BY <2>1, <2>2
<1> QED
  BY <1>1, CommitInvariant, PTL

\* The handle of a node whose removal committed keeps its delete mark until it goes.
THEOREM RemovedStaysRemovedHolds ==
  ASSUME Orderly, OneRemover
  PROVE  Spec => []RemovedStaysRemoved
<1>1. CommitInv => RemovedStaysRemoved
  BY DEF CommitInv, Mine, Removed, RemovedStaysRemoved, TypeInv, TypeOK
<1> QED
  BY <1>1, CommitInvariant, PTL

\* Whoever removed a node had read every update committed to it (commitRemovedNodes'
\* version check under the node's lock).
THEOREM RemoverSawAllHolds ==
  ASSUME Orderly, OneRemover
  PROVE  Spec => []RemoverSawAll
<1>1. CommitInv => RemoverSawAll
  <2> SUFFICES ASSUME CommitInv, NEW t \in done, NEW u \in done, NEW n \in Removes[t] \cap Updates[u]
               PROVE  u \in rd[t][n].seen
    BY DEF RemoverSawAll
  <2>1. t \in Txn /\ u \in Txn
    BY DEF CommitInv, TypeInv, TypeOK
  <2>2. u \in Flippers(n)
    BY <2>1 DEF Flippers, Flipped
  <2> QED
    BY <2>1, <2>2 DEF CommitInv, Mine, Removed
<1> QED
  BY <1>1, CommitInvariant, PTL

\* When every transaction has ended and none died, the blob store holds the active blobs
\* of the registered nodes and no others.
THEOREM NoOrphanBlobsHolds ==
  ASSUME Orderly, OneRemover
  PROVE  Spec => []NoOrphanBlobs
<1>1. CommitInv => NoOrphanBlobs
  <2> SUFFICES ASSUME CommitInv, \A t \in Txn : pc[t] \in Ended \ Dead
               PROVE  {<<b.node, b.id>> : b \in blobs} =
                        {<<n, GetActiveID(registry[n])>> : n \in {m \in Node : Registered(m)}}
    BY DEF NoOrphanBlobs
  <2>1. \A t \in Txn : pc[t] \in {"committed", "aborted"}
    BY DEF Ended
  <2>2. ASSUME NEW b \in blobs PROVE b.node \in Node /\ IsActive(b)
    <3>1. Owned(b) /\ b.node \in Node
      BY DEF CommitInv, Owners, TypeInv, TypeOK, Blob
    <3>2. \A t \in Txn : ~Owns(t, b) /\ pc[t] \notin Dead
      BY <2>1 DEF Owns, Reserved, Undoing, Working, Dead
    <3> QED
      BY <3>1, <3>2 DEF Owned
  <2>3. ASSUME NEW n \in Node, Registered(n) PROVE HasBlob(n, GetActiveID(registry[n]))
    <3>1. CASE n \in Existing
      BY <2>3, <3>1, Slots DEF Whole
    <3>2. CASE n \notin Existing
      <4>1. PICK t \in Txn : n \in Adds[t]
        BY <3>2 DEF Existing
      <4>2. registry[n] = NewNode /\ HasBlob(n, Base)
        BY <2>1, <2>3, <4>1 DEF CommitInv, Mine, Added, Adding, Dead
      <4>3. GetActiveID(NewNode) = Base
        BY DEF NewNode, NewHandle, GetActiveID
      <4> QED
        BY <4>2, <4>3
    <3> QED
      BY <3>1, <3>2
  <2> QED
    BY <2>2, <2>3 DEF IsActive, HasBlob
<1> QED
  BY <1>1, CommitInvariant, PTL

-----------------------------------------------------------------------------
(* The refinement of AtomicCommit. *)

\* The value of a node is a function of the transactions that have committed.
Value(n, D) ==
  IF \E t \in Txn : \/ n \in Adds[t] /\ t \notin D
                    \/ n \in Removes[t] /\ t \in D
  THEN NoHandle
  ELSE {u \in D : n \in Updates[u] \cup Adds[u]}

\* It is what AtomicCommit is to see of it.
LEMMA ValueIs == CommitInv => \A n \in Node : CommittedValue(n) = Value(n, done)
<1> SUFFICES ASSUME CommitInv, NEW n \in Node PROVE CommittedValue(n) = Value(n, done)
  OBVIOUS
<1>1. done \subseteq Txn
  BY DEF CommitInv, TypeInv, TypeOK
<1>2. CASE \E t \in Txn : (n \in Adds[t] /\ t \notin done) \/ (n \in Removes[t] /\ t \in done)
  BY <1>2 DEF CommittedValue, Value
<1>3. CASE ~\E t \in Txn : (n \in Adds[t] /\ t \notin done) \/ (n \in Removes[t] /\ t \in done)
  <2>1. Value(n, done) = {u \in done : n \in Updates[u] \cup Adds[u]}
    BY <1>3 DEF Value
  <2>2. CASE n \in Existing
    <3>1. Registered(n)
      BY <1>1, <1>3, <2>2 DEF CommitInv, Nodes
    <3>2. SeenAt(n) = Flippers(n)
      BY <2>2, <3>1, Slots DEF Whole
    <3>3. \A u \in Txn : n \notin Adds[u]
      BY <2>2, Consts
    <3>4. Flippers(n) \cap done = {u \in done : n \in Updates[u]}
      BY <1>1 DEF Flippers, Flipped
    <3>5. CommittedValue(n) = SeenAt(n) \cap done
      BY <1>3, <3>1 DEF CommittedValue
    <3> QED
      BY <1>1, <2>1, <3>2, <3>3, <3>4, <3>5
  <2>3. CASE n \notin Existing
    <3>1. PICK t \in Txn : n \in Adds[t]
      BY <2>3 DEF Existing
    <3>2. t \in done /\ Registered(n) /\ registry[n] = NewNode /\ HasBlob(n, Base)
      BY <1>3, <3>1 DEF CommitInv, Mine, Added
    <3>3. GetActiveID(NewNode) = Base
      BY DEF NewNode, NewHandle, GetActiveID
    <3>4. \A b \in blobs : b.node = n => b.seen = {t}
      BY <3>1 DEF CommitInv, Contents
    <3>5. SeenAt(n) = {t}
      BY <3>2, <3>3, <3>4 DEF SeenAt, SeenIn, HasBlob
    <3>6. \A u \in Txn : /\ n \notin Updates[u]
                         /\ n \in Adds[u] => u = t
      BY <2>3, <3>1, Consts
    <3>7. CommittedValue(n) = SeenAt(n) \cap done
      BY <1>3, <3>2 DEF CommittedValue
    <3>8. SeenAt(n) \cap done = {t}
      BY <3>2, <3>5
    <3>9. {u \in done : n \in Updates[u] \cup Adds[u]} = {t}
      BY <1>1, <3>1, <3>2, <3>6
    <3> QED
      BY <2>1, <3>7, <3>8, <3>9
  <2> QED
    BY <2>2, <2>3
<1> QED
  BY <1>2, <1>3

\* A transaction commits when its priority log goes, or when there was nothing to finalise.
LEMMA CommitPoints ==
  ASSUME Orderly, [Next]_vars
  PROVE  \/ done' = done
         \/ \E t \in Txn : /\ PlogRemove(t) \/ (LogFinalize(t) /\ Staged(t) = {})
                           /\ done' = done \cup {t}
<1>1. ASSUME NEW t \in Txn, Phase1(t) PROVE done' = done
  BY <1>1 DEF Phase1, ReadNode, ReadFails, StartCommit, Verify, LockNodes, LockBusy, GiveUp,
     Refetch, RefetchFails, DualLock, CheckFetched, ReserveUpdated, GetUpdated, PutUpdated,
     ReserveFails, StageBlobs, LogUpdated, LogRemoved, MarkRemoved, GetRemoved, PutRemoved,
     LogAdded, AddNodes, AddBlobs, LogStore, CommitStores, LogBefore, PlogAdd, CheckLocks,
     UserRollback
<1>2. ASSUME NEW t \in Txn, Phase2(t)
      PROVE  \/ done' = done
             \/ /\ PlogRemove(t) \/ (LogFinalize(t) /\ Staged(t) = {})
                /\ done' = done \cup {t}
  BY <1>2 DEF Phase2, LogFinalize, LogFinalizeFails, FlipFails, Restore, RestoreFails, Flip,
     PlogRemove, PlogRemoveFails, UnlockNodes, LogObsolete, DeleteObsolete, RemoveLogs, Orderly
<1>3. ASSUME NEW t \in Txn, Rollback(t) \/ Recovery(t) \/ Crash(t) \/ CrashReserving(t)
      PROVE  done' = done
  BY <1>3 DEF Rollback, RollbackStores, RollbackNodes, RollbackAdded, RollbackRemoved,
     RollbackRead, RollbackUpdated, RollbackLogs, Recovery, SweepRead, SweepRestore, SweepRemove,
     RecoverObsolete, RecoverStores, RecoverAdded, RecoverRemoved, RecoverUpdated, RecoverLogs,
     Crash, CrashReserving
<1>4. ASSUME NEW n \in Node, ExpireLock(n) \/ AgeHandle(n) PROVE done' = done
  BY <1>4 DEF ExpireLock, AgeHandle
<1>5. CASE UNCHANGED vars
  BY <1>5 DEF vars
<1> QED
  BY <1>1, <1>2, <1>3, <1>4, <1>5 DEF Next, Step

\* The nodes a committing transaction writes are there, and nobody has removed them.
LEMMA Writable ==
  ASSUME CommitInv, OneRemover, NEW t \in Txn,
         PlogRemove(t) \/ (LogFinalize(t) /\ Staged(t) = {}), NEW n \in W(t)
  PROVE  t \notin done /\ \A w \in done : n \notin Removes[w]
<1>1. /\ pc[t] \in {"plogRemove", "phase1"} /\ (pc[t] = "phase1" => Staged(t) = {})
      /\ Staging(t) /\ InPlace(t) /\ Decided(t) /\ Updates[t] \cup Removes[t] = W(t)
  BY DEF PlogRemove, LogFinalize, CommitInv, Mine, W
<1>2. t \notin done
  BY <1>1 DEF Decided, Cleaning, Dead
<1>3. n \in Staged(t) /\ pc[t] = "plogRemove"
  BY <1>1 DEF Staging, Reserved, Working, Marking
<1>4. registry[n] = Final(t, n) /\ upd[t][n] \in Handles /\ n \in Existing
  BY <1>1, <1>3, Consts DEF InPlace, Flipped, Staged, CommitInv, TypeInv, TypeOK
<1>5. Registered(n)
  <2>1. Nil \in PhysID
    BY DEF PhysID
  <2>2. Activate(upd[t][n]) \in Handles /\ Touch(upd[t][n]) \in Handles
    BY <1>4, <2>1, HandleOps, Zenon
  <2>3. registry[n] \in Handles
    BY <1>4, <2>2 DEF Final
  <2> QED
    BY <2>3, ConstAssumption DEF Registered
<1> QED
  BY <1>2, <1>3, <1>5, RemovedAlone

\* The commit, its rollbacks, retries and recovery implement AtomicCommit: all the nodes of
\* a transaction change at the step that removes its priority log, or none ever does.
THEOREM CommitImplementsAtomicCommit ==
  ASSUME Orderly, OneRemover
  PROVE  Spec => ImplementsAtomicCommit
<1>1. CommitInv' => \A n \in Node : CommittedValue(n)' = Value(n, done')
  <2>1. CommitInv => \A n \in Node : CommittedValue(n) = Value(n, done)
    BY ValueIs
  <2>2. CommitInv' => (\A n \in Node : CommittedValue(n) = Value(n, done))'
    BY <2>1, PTL
  <2> QED
    BY <2>2 DEF Value
<1>2. Init => Abstract!Init
  <2> SUFFICES ASSUME Init PROVE Abstract!Init
    OBVIOUS
  <2>1. CommitInv /\ done = {}
    BY CommitInit DEF Init
  <2>2. \A n \in Node : CommittedValue(n) = Value(n, {})
    BY <2>1, ValueIs
  <2>3. \A n \in Node : Value(n, {}) = IF \E t \in Txn : n \in Adds[t] THEN NoHandle ELSE {}
    BY DEF Value
  <2> QED
    BY <2>1, <2>2, <2>3 DEF Abstract!Init
<1>3. CommitInv /\ CommitInv' /\ [Next]_vars =>
        [Abstract!Next]_<<[n \in Node |-> CommittedValue(n)], done>>
  <2> SUFFICES ASSUME CommitInv, CommitInv', [Next]_vars
               PROVE  [Abstract!Next]_<<[n \in Node |-> CommittedValue(n)], done>>
    OBVIOUS
  <2>1. \A n \in Node : CommittedValue(n) = Value(n, done) /\ CommittedValue(n)' = Value(n, done')
    BY <1>1, ValueIs
  <2>2. CASE done' = done
    <3>1. \A n \in Node : CommittedValue(n)' = CommittedValue(n)
      BY <2>1, <2>2
    <3>2. [n \in Node |-> CommittedValue(n)]' = [n \in Node |-> CommittedValue(n)]
      BY <3>1
    <3> QED
      BY <2>2, <3>2
  <2>3. ASSUME NEW t \in Txn, PlogRemove(t) \/ (LogFinalize(t) /\ Staged(t) = {}),
               done' = done \cup {t}, done' # done
        PROVE  Abstract!Commit(t)
    <3>0. /\ t \notin done /\ done \subseteq Txn
          /\ Updates[t] \cup Removes[t] = W(t) /\ Updates[t] \cap Removes[t] = {}
          /\ W(t) \subseteq Existing /\ Existing \subseteq Node
      BY <2>3, Consts DEF W, CommitInv, TypeInv, TypeOK
    <3>1. ASSUME NEW n \in W(t)
          PROVE  /\ \A w \in done : n \notin Removes[w]
                 /\ \A u \in Txn : n \notin Adds[u]
                 /\ n \in Node
      BY <2>3, <3>0, Writable, Consts
    <3>2. ASSUME NEW n \in W(t)
          PROVE  CommittedValue(n) = {u \in done : n \in Updates[u]} /\ CommittedValue(n) # NoHandle
      <4>1. Value(n, done) = {u \in done : n \in Updates[u]}
        BY <3>0, <3>1 DEF Value
      <4>2. Value(n, done) \in SUBSET Txn
        BY <3>0, <4>1
      <4> QED
        BY <2>1, <3>1, <4>1, <4>2, ConstAssumption
    <3>3. ASSUME NEW n \in Node
          PROVE  CommittedValue(n)' = IF n \in Adds[t] THEN {t}
                                      ELSE IF n \in Removes[t] THEN NoHandle
                                      ELSE IF n \in Updates[t] THEN CommittedValue(n) \cup {t}
                                      ELSE CommittedValue(n)
      <4>1. CASE n \in Adds[t]
        <5>1. \A u \in Txn : n \notin Updates[u] /\ n \notin Removes[u] /\ (n \in Adds[u] => u = t)
          BY <4>1, Consts
        <5>2. Value(n, done') = {t}
          BY <2>3, <3>0, <4>1, <5>1 DEF Value
        <5> QED
          BY <2>1, <4>1, <5>2
      <4>2. CASE n \in Removes[t]
        <5>1. n \notin Adds[t]
          BY <3>0, <3>1, <4>2
        <5>2. Value(n, done') = NoHandle
          BY <2>3, <4>2 DEF Value
        <5> QED
          BY <2>1, <4>2, <5>1, <5>2
      <4>3. CASE n \in Updates[t]
        <5>1. /\ \A w \in done : n \notin Removes[w]
              /\ \A u \in Txn : n \notin Adds[u]
              /\ n \notin Removes[t]
              /\ CommittedValue(n) = {u \in done : n \in Updates[u]}
          BY <3>0, <3>1, <3>2, <4>3
        <5>2. Value(n, done') = {u \in done : n \in Updates[u]} \cup {t}
          BY <2>3, <3>0, <4>3, <5>1 DEF Value
        <5> QED
          BY <2>1, <4>3, <5>1, <5>2
      <4>4. CASE n \notin Adds[t] /\ n \notin Removes[t] /\ n \notin Updates[t]
        <5>1. Value(n, done') = Value(n, done)
          BY <2>3, <3>0, <4>4 DEF Value
        <5> QED
          BY <2>1, <4>4, <5>1
      <4> QED
        BY <4>1, <4>2, <4>3, <4>4
    <3> QED
      BY <2>3, <3>0, <3>2, <3>3 DEF Abstract!Commit
  <2> QED
    BY <2>2, <2>3, CommitPoints DEF Abstract!Next
<1> QED
  BY <1>2, <1>3, CommitInvariant, PTL DEF Spec, ImplementsAtomicCommit, Abstract!Spec
=============================================================================
