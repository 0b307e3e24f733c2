---------------------------- MODULE MemoryLocker ----------------------------
(***************************************************************************)
(* The locks of cache/l2inmemorycache.go over a sharded map: Lock takes    *)
(* the keys in sorted order, one map operation at a time, takes over       *)
(* expired items with a compare and swap, and gives back what it took when *)
(* a key is another's.  The map operations are atomic (a shard's mutex).   *)
(*                                                                         *)
(* An item's expiration time is abstracted to whether it has passed; two   *)
(* items of the same owner that have both expired count as the same when   *)
(* compared, which only lets a swap succeed where a new attempt would.     *)
(***************************************************************************)
EXTENDS Integers, FiniteSetsExt

CONSTANTS
  Client,
  Key,          \* lock names, numbered in their sort order
  Wants,        \* [Client -> the keys it locks together]
  Capacity,     \* maxItemsPerShard, of the one shard the keys fall in
  LiveExpiry,   \* slow clients, whose items may expire while they live
  MayCrash,     \* TRUE: clients may die
  Free

ASSUME LockerAssumption ==
  /\ Key \subseteq Nat /\ IsFiniteSet(Key)
  /\ Wants \in [Client -> (SUBSET Key) \ {{}}]
  /\ Capacity \in Nat \ {0}
  /\ LiveExpiry \subseteq Client /\ MayCrash \in BOOLEAN
  /\ Free \notin Client

VARIABLES
  locks,        \* [Key -> Free or an item]
  pc,           \* [Client -> where it is in its call]
  left,         \* [Client -> keys the call has still to visit]
  acquired,     \* [Client -> keys this call of Lock took]
  seen          \* [Client -> the item it found and is to swap or delete]

vars == <<locks, pc, left, acquired, seen>>

Item    == [lockID: Client, expired: BOOLEAN]
None    == [lockID |-> Free, expired |-> FALSE]
Lease(c) == [lockID |-> c, expired |-> FALSE]
Present == {k \in Key : locks[k] # None}
Giving  == {"undo", "unlock"}

Init ==
  /\ locks = [k \in Key |-> None]
  /\ pc = [c \in Client |-> "idle"]
  /\ left = [c \in Client |-> {}]
  /\ acquired = [c \in Client |-> {}]
  /\ seen = [c \in Client |-> None]

Lock(c) ==
  /\ pc[c] = "idle"
  /\ pc' = [pc EXCEPT ![c] = "lock"]
  /\ left' = [left EXCEPT ![c] = Wants[c]]
  /\ acquired' = [acquired EXCEPT ![c] = {}]
  /\ UNCHANGED <<locks, seen>>

\* Mistake: the keys are taken in the order they come.
AnyOf(S) == S
\* The keys a call may visit next: they are sorted.
NextOf(S) == {Min(S)}

\* Done with key k; after the last one Lock returns true and IsLocked verifies.
Visited(c, k) ==
  IF left[c] = {k}
  THEN /\ pc' = [pc EXCEPT ![c] = "verify"] /\ left' = [left EXCEPT ![c] = Wants[c]]
  ELSE /\ pc' = [pc EXCEPT ![c] = "lock"]   /\ left' = [left EXCEPT ![c] = @ \ {k}]

\* loadOrStore of a key that is not there; a full shard evicts an item.
Store(c, k) ==
  /\ pc[c] = "lock" /\ k \in NextOf(left[c]) /\ locks[k] = None
  /\ IF Cardinality(Present) < Capacity
     THEN locks' = [locks EXCEPT ![k] = Lease(c)]
     ELSE \E v \in Present : locks' = [locks EXCEPT ![k] = Lease(c), ![v] = None]
  /\ acquired' = [acquired EXCEPT ![c] = @ \cup {k}]
  /\ Visited(c, k)
  /\ UNCHANGED seen

\* It was there: expired, this client's already, or another's.
LoadExpired(c, k) ==
  /\ pc[c] = "lock" /\ k \in NextOf(left[c]) /\ locks[k] # None /\ locks[k].expired
  /\ seen' = [seen EXCEPT ![c] = locks[k]]
  /\ pc' = [pc EXCEPT ![c] = "swap"]
  /\ UNCHANGED <<locks, left, acquired>>

Reenter(c, k) ==
  /\ pc[c] = "lock" /\ k \in NextOf(left[c]) /\ locks[k] = Lease(c)
  /\ Visited(c, k)
  /\ UNCHANGED <<locks, acquired, seen>>

\* Give back what this call took.
Refused(c) ==
  /\ pc' = [pc EXCEPT ![c] = "undo"]
  /\ left' = [left EXCEPT ![c] = acquired[c]]
  /\ UNCHANGED <<locks, acquired>>

LoadOther(c, k) ==
  /\ pc[c] = "lock" /\ k \in NextOf(left[c])
  /\ locks[k].lockID \in Client \ {c} /\ ~locks[k].expired
  /\ Refused(c)
  /\ UNCHANGED seen

\* The item of k is the one c found; it may have expired since.
StillThere(c, k) == locks[k].lockID = seen[c].lockID /\ (seen[c].expired => locks[k].expired)

\* Mistake: the item is replaced without comparing it.
SwapBlindly(c, k) ==
  /\ pc[c] = "swap" /\ k \in NextOf(left[c])
  /\ locks' = [locks EXCEPT ![k] = Lease(c)]
  /\ acquired' = [acquired EXCEPT ![c] = @ \cup {k}]
  /\ Visited(c, k)
  /\ seen' = [seen EXCEPT ![c] = None]

\* compareAndSwap of the expired item.
Swap(c, k) ==
  /\ pc[c] = "swap" /\ k \in NextOf(left[c])
  /\ IF StillThere(c, k)
     THEN /\ locks' = [locks EXCEPT ![k] = Lease(c)]
          /\ acquired' = [acquired EXCEPT ![c] = @ \cup {k}]
          /\ Visited(c, k)
     ELSE Refused(c)
  /\ seen' = [seen EXCEPT ![c] = None]

\* Lock's rollback gives back what it took, Unlock what the caller asked for, key by key in
\* the same order: load and compare the lock ID ...
FindOwn(c, k) ==
  /\ pc[c] \in Giving /\ seen[c] = None /\ k \in NextOf(left[c]) /\ locks[k].lockID = c
  /\ seen' = [seen EXCEPT ![c] = locks[k]]
  /\ UNCHANGED <<locks, pc, left, acquired>>

FindOther(c, k) ==
  /\ pc[c] \in Giving /\ seen[c] = None /\ k \in NextOf(left[c]) /\ locks[k].lockID # c
  /\ left' = [left EXCEPT ![c] = @ \ {k}]
  /\ UNCHANGED <<locks, pc, acquired, seen>>

\* Mistake: delete by key.
DeleteByKey(c, k) ==
  /\ pc[c] \in Giving /\ seen[c] # None /\ k \in NextOf(left[c])
  /\ locks' = [locks EXCEPT ![k] = None]
  /\ left' = [left EXCEPT ![c] = @ \ {k}]
  /\ seen' = [seen EXCEPT ![c] = None]
  /\ UNCHANGED <<pc, acquired>>

\* ... then compareAndDelete of the item loaded.
CompareAndDelete(c, k) ==
  /\ pc[c] \in Giving /\ seen[c] # None /\ k \in NextOf(left[c])
  /\ locks' = IF StillThere(c, k) THEN [locks EXCEPT ![k] = None] ELSE locks
  /\ left' = [left EXCEPT ![c] = @ \ {k}]
  /\ seen' = [seen EXCEPT ![c] = None]
  /\ UNCHANGED <<pc, acquired>>

\* Lock returns false, and the caller calls Unlock.
UndoEnds(c) ==
  /\ pc[c] = "undo" /\ left[c] = {}
  /\ pc' = [pc EXCEPT ![c] = "unlock"]
  /\ left' = [left EXCEPT ![c] = Wants[c]]
  /\ UNCHANGED <<locks, acquired, seen>>

UnlockEnds(c) ==
  /\ pc[c] = "unlock" /\ left[c] = {}
  /\ pc' = [pc EXCEPT ![c] = "idle"]
  /\ UNCHANGED <<locks, left, acquired, seen>>

\* IsLocked.
Confirm(c, k) ==
  /\ pc[c] = "verify" /\ k \in NextOf(left[c]) /\ locks[k] = Lease(c)
  /\ left' = [left EXCEPT ![c] = @ \ {k}]
  /\ pc' = IF left[c] = {k} THEN [pc EXCEPT ![c] = "held"] ELSE pc
  /\ UNCHANGED <<locks, acquired, seen>>

\* It does not confirm: phase1Commit tries again, the callers of DualLock unlock first.
NotConfirmed(c, k) ==
  /\ pc[c] = "verify" /\ k \in NextOf(left[c]) /\ locks[k] # Lease(c)
  /\ \/ pc' = [pc EXCEPT ![c] = "idle"] /\ UNCHANGED left
     \/ pc' = [pc EXCEPT ![c] = "unlock"] /\ left' = [left EXCEPT ![c] = Wants[c]]
  /\ UNCHANGED <<locks, acquired, seen>>

\* The commit is over.
Unlock(c) ==
  /\ pc[c] = "held"
  /\ pc' = [pc EXCEPT ![c] = "unlock"]
  /\ left' = [left EXCEPT ![c] = Wants[c]]
  /\ UNCHANGED <<locks, acquired, seen>>

Crash(c) ==
  /\ MayCrash /\ pc[c] # "dead"
  /\ pc' = [pc EXCEPT ![c] = "dead"]
  /\ left' = [left EXCEPT ![c] = {}]
  /\ acquired' = [acquired EXCEPT ![c] = {}]
  /\ seen' = [seen EXCEPT ![c] = None]
  /\ UNCHANGED locks

Expire(k) ==
  /\ locks[k] # None /\ ~locks[k].expired
  /\ locks[k].lockID \in LiveExpiry \/ pc[locks[k].lockID] = "dead"
  /\ locks' = [locks EXCEPT ![k].expired = TRUE]
  /\ UNCHANGED <<pc, left, acquired, seen>>

Visit(c, k) ==
  \/ Store(c, k) \/ LoadExpired(c, k) \/ Reenter(c, k) \/ LoadOther(c, k) \/ Swap(c, k)
  \/ Confirm(c, k) \/ NotConfirmed(c, k)
  \/ FindOwn(c, k) \/ FindOther(c, k) \/ CompareAndDelete(c, k)

Step(c) ==
  \/ Lock(c) \/ UndoEnds(c) \/ Unlock(c) \/ UnlockEnds(c)
  \/ \E k \in left[c] : Visit(c, k)

Next ==
  \/ \E c \in Client : Step(c) \/ Crash(c)
  \/ \E k \in Key : Expire(k)

Spec == Init /\ [][Next]_vars

\* The goroutine of every live client keeps running, and time passes.
FairSpec ==
  /\ Spec
  /\ \A c \in Client : WF_vars(Step(c))
  /\ \A k \in Key : WF_vars(Expire(k))

-----------------------------------------------------------------------------
\* Who holds a key, of the clients that keep within the lifetime of their items.
Holder(k) ==
  LET H == {c \in Client \ LiveExpiry : pc[c] = "held" /\ k \in Wants[c]}
  IN  IF H = {} THEN Free ELSE CHOOSE c \in H : TRUE

Abstract == INSTANCE NodeLocks WITH holder <- [k \in Key |-> Holder(k)]

\* Lock, IsLocked and Unlock, one map operation at a time and taking over the expired
\* locks of the dead and the slow, give out all the keys or none, as TwoPhaseCommit
\* assumes; slow clients do no harm to the others.
ImplementsNodeLocks == Abstract!Spec

\* A lock that has not expired goes only when its own client gives it back.  Another that
\* saw an expired item there, or its own item in Lock's rollback or in Unlock, and acts on
\* that after the key has changed hands, does not take the new holder's lock away.
OnlyOwnerFrees ==
  [][\A c \in Client, k \in Key :
       locks[k] = Lease(c) /\ locks'[k].lockID # c =>
         pc[c] \in Giving /\ left'[c] # left[c]]_vars

\* "Sort keys to avoid deadlocks/livelocks": as long as some client is alive and tries,
\* one gets all its keys, again and again: clients cannot defeat each other for ever, and
\* the locks of the dead do not stop the living, unless items go on expiring under live
\* clients.
NoLivelock ==
  \/ <>\A c \in Client : pc[c] = "dead"
  \/ []<><<\E k \in Key : Expire(k) /\ pc[locks[k].lockID] # "dead">>_vars
  \/ []<>(\E c \in Client : pc[c] = "held")
=============================================================================
