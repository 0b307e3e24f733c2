------------------------- MODULE MemoryLockerProofs -------------------------
(***************************************************************************)
(* Theorems about MemoryLocker, for any clients, keys and interleaving of  *)
(* their map operations: of the clients, any may die and any may be slow.  *)
(***************************************************************************)
EXTENDS MemoryLocker, FiniteSetTheorems, TLAPS

Calls == {"idle", "lock", "swap", "undo", "verify", "unlock", "held", "dead"}

Types ==
  /\ locks \in [Key -> Item \cup {None}]
  /\ pc \in [Client -> Calls]
  /\ left \in [Client -> SUBSET Key]
  /\ acquired \in [Client -> SUBSET Key]
  /\ seen \in [Client -> Item \cup {None}]

\* None is no item, and a lease is one that has not expired.
LEMMA Leases ==
  ASSUME NEW c \in Client
  PROVE  /\ Lease(c) \in Item /\ Lease(c).lockID = c /\ ~ Lease(c).expired
         /\ None.lockID = Free /\ ~ None.expired /\ None \notin Item
         /\ \A i \in Item : ~ i.expired /\ i.lockID = c => i = Lease(c)
  BY LockerAssumption DEF Lease, Item, None

\* As long as the shard has room for all the keys, storing one evicts none.
LEMMA NoEviction ==
  ASSUME Cardinality(Key) <= Capacity, NEW k \in Key, locks[k] = None
  PROVE  Cardinality(Present) < Capacity
<1>1. IsFiniteSet(Key) /\ Present \subseteq Key /\ Present # Key
  BY LockerAssumption DEF Present
<1>2. IsFiniteSet(Present) /\ Cardinality(Present) < Cardinality(Key)
  <2>1. IsFiniteSet(Present) /\ Cardinality(Present) <= Cardinality(Key)
    BY <1>1, FS_Subset, Zenon
  <2>2. Cardinality(Key) # Cardinality(Present)
    BY <1>1, FS_Subset, Zenon
  <2>3. Cardinality(Present) \in Nat /\ Cardinality(Key) \in Nat
    BY <1>1, <2>1, FS_CardinalityType
  <2> QED
    BY <2>1, <2>2, <2>3
<1>3. Cardinality(Present) \in Nat /\ Cardinality(Key) \in Nat /\ Capacity \in Nat
  BY <1>1, <1>2, FS_CardinalityType, LockerAssumption
<1> QED
  BY <1>2, <1>3

\* After a visit the call has a key less to visit, or goes on to verify all of them.
LEMMA VisitedIs ==
  ASSUME Types, NEW c \in Client, NEW k \in Key, Visited(c, k)
  PROVE  /\ pc' \in [Client -> Calls] /\ left' \in [Client -> SUBSET Key]
         /\ \A d \in Client \ {c} : pc'[d] = pc[d] /\ left'[d] = left[d]
         /\ pc'[c] \in {"lock", "verify"}
         /\ pc'[c] = "verify" => left'[c] = Wants[c]
<1>1. Wants[c] \in SUBSET Key /\ left[c] \ {k} \in SUBSET Key
  BY LockerAssumption DEF Types
<1>2. CASE left[c] = {k}
  BY <1>1, <1>2 DEF Visited, Types, Calls
<1>3. CASE left[c] # {k}
  BY <1>1, <1>3 DEF Visited, Types, Calls
<1> QED
  BY <1>2, <1>3

-----------------------------------------------------------------------------
(* The invariant. *)

\* A client about to swap has seen an item that had expired, one about to delete an item of
\* its own.
SeenBy(c) ==
  /\ pc[c] = "swap" => seen[c] \in Item /\ seen[c].expired
  /\ pc[c] \in Giving => seen[c].lockID \in {c, Free} /\ (left[c] = {} => seen[c] = None)
  /\ pc[c] \notin Giving \cup {"swap"} => seen[c] = None
SeenRight == \A c \in Client : SeenBy(c)

\* What a client that is not slow has verified, all of it once it holds its keys, is its lease.
Verified ==
  \A c \in Client \ LiveExpiry :
    /\ pc[c] = "verify" => \A k \in Wants[c] \ left[c] : locks[k] = Lease(c)
    /\ pc[c] = "held" => \A k \in Wants[c] : locks[k] = Lease(c)

LockerInv == Types /\ SeenRight /\ Verified

\* What a step of client c may do to the others: it moves only itself, and the leases of
\* the others stay.
Own(c) ==
  /\ \A d \in Client \ {c} :
       pc'[d] = pc[d] /\ left'[d] = left[d] /\ seen'[d] = seen[d]
  /\ \A d \in Client \ {c}, k \in Key : locks[k] = Lease(d) => locks'[k] = Lease(d)

\* With that, a step keeps the invariant if it keeps what it says of its own client.
LEMMA OwnKeeps ==
  ASSUME LockerInv, NEW c \in Client, Own(c), SeenBy(c)',
         pc'[c] \in {"verify", "held"} /\ c \notin LiveExpiry =>
           \A k \in Wants[c] : (pc'[c] = "held" \/ k \notin left'[c]) => locks'[k] = Lease(c)
  PROVE  SeenRight' /\ Verified'
<1>1. SeenRight'
  BY DEF LockerInv, SeenRight, SeenBy, Own
<1>2. ASSUME NEW d \in Client \ LiveExpiry, d # c
      PROVE  /\ pc'[d] = "verify" => \A k \in Wants[d] \ left'[d] : locks'[k] = Lease(d)
             /\ pc'[d] = "held" => \A k \in Wants[d] : locks'[k] = Lease(d)
  <2>1. Wants[d] \subseteq Key
    BY LockerAssumption
  <2> QED
    BY <1>2, <2>1 DEF LockerInv, Verified, Own
<1>3. ASSUME c \notin LiveExpiry
      PROVE  /\ pc'[c] = "verify" => \A k \in Wants[c] \ left'[c] : locks'[k] = Lease(c)
             /\ pc'[c] = "held" => \A k \in Wants[c] : locks'[k] = Lease(c)
  BY <1>3
<1>4. Verified'
  BY <1>2, <1>3 DEF Verified, Lease
<1> QED
  BY <1>1, <1>4

\* What a step of one client leaves: the types, the others' leases, and this client's part
\* of the invariant.
After(c) ==
  /\ Types' /\ Own(c) /\ SeenBy(c)'
  /\ pc'[c] \in {"verify", "held"} /\ c \notin LiveExpiry =>
       \A k \in Wants[c] : (pc'[c] = "held" \/ k \notin left'[c]) => locks'[k] = Lease(c)

\* Taking a key that has no item, or one that has expired.
LEMMA TakeStep ==
  ASSUME LockerInv, NEW c \in Client, NEW k \in Key,
         locks[k] \in Item => locks[k].expired,
         locks' = [locks EXCEPT ![k] = Lease(c)],
         acquired' = [acquired EXCEPT ![c] = @ \cup {k}],
         Visited(c, k),
         seen' = [seen EXCEPT ![c] = None]
  PROVE  After(c)
<1>1. Types
  BY DEF LockerInv
<1>2. /\ pc' \in [Client -> Calls] /\ left' \in [Client -> SUBSET Key]
      /\ \A d \in Client \ {c} : pc'[d] = pc[d] /\ left'[d] = left[d]
      /\ pc'[c] \in {"lock", "verify"}
      /\ pc'[c] = "verify" => left'[c] = Wants[c]
  BY <1>1, VisitedIs, Zenon
<1>3. /\ locks' \in [Key -> Item \cup {None}] /\ \A j \in Key \ {k} : locks'[j] = locks[j]
      /\ acquired' \in [Client -> SUBSET Key]
  BY <1>1, Leases DEF Types
<1>4. /\ seen' \in [Client -> Item \cup {None}]
      /\ seen'[c] = None /\ \A d \in Client \ {c} : seen'[d] = seen[d]
  BY <1>1 DEF Types
<1>5. \A d \in Client : locks[k] # Lease(d)
  BY <1>1, Leases DEF Types
<1>6. Types' /\ Own(c)
  BY <1>2, <1>3, <1>4, <1>5 DEF Types, Own
<1>7. SeenBy(c)'
  BY <1>2, <1>4 DEF SeenBy, Giving
<1> QED
  BY <1>2, <1>6, <1>7 DEF After

\* Going over the items again without touching them.
LEMMA LookStep ==
  ASSUME LockerInv, NEW c \in Client,
         locks' = locks,
         pc' \in [Client -> Calls], left' \in [Client -> SUBSET Key],
         acquired' \in [Client -> SUBSET Key], seen' \in [Client -> Item \cup {None}],
         \A d \in Client \ {c} : pc'[d] = pc[d] /\ left'[d] = left[d] /\ seen'[d] = seen[d],
         SeenBy(c)',
         pc'[c] = "verify" \/ pc'[c] = "held" =>
           \A k \in Wants[c] : (pc'[c] = "held" \/ k \notin left'[c]) =>
             c \in LiveExpiry \/ locks[k] = Lease(c)
  PROVE  After(c)
<1>1. Types' /\ Own(c)
  BY DEF Types, Own, LockerInv
<1> QED
  BY <1>1 DEF After

\* Deleting the item it found, which is its own.
LEMMA DeleteStep ==
  ASSUME LockerInv, NEW c \in Client, NEW k \in Key, CompareAndDelete(c, k)
  PROVE  After(c)
<1>1. Types /\ SeenBy(c)
  BY DEF LockerInv, SeenRight
<1>2. /\ pc[c] \in Giving /\ seen[c] # None /\ pc' = pc /\ acquired' = acquired
      /\ locks' = IF StillThere(c, k) THEN [locks EXCEPT ![k] = None] ELSE locks
      /\ left' = [left EXCEPT ![c] = @ \ {k}] /\ seen' = [seen EXCEPT ![c] = None]
  BY DEF CompareAndDelete
<1>3. seen[c].lockID = c
  BY <1>1, <1>2, LockerAssumption DEF SeenBy, Types, Item
<1>4. /\ locks' \in [Key -> Item \cup {None}]
      /\ \A j \in Key : locks'[j] # locks[j] => locks[j].lockID = c
  BY <1>1, <1>2, <1>3 DEF StillThere, Types
<1>5. Types'
  BY <1>1, <1>2, <1>4 DEF Types
<1>6. Own(c)
  BY <1>1, <1>2, <1>4, Leases DEF Types, Own
<1>7. pc'[c] \in Giving /\ seen'[c] = None
  BY <1>1, <1>2 DEF Types
<1>8. SeenBy(c)' /\ pc'[c] \notin {"verify", "held"}
  BY <1>7, Leases DEF SeenBy, Giving
<1> QED
  BY <1>5, <1>6, <1>8 DEF After

\* Every step of a client keeps its hands off the leases of the others.
LEMMA ClientStep ==
  ASSUME Cardinality(Key) <= Capacity, LockerInv, NEW c \in Client, Step(c) \/ Crash(c)
  PROVE  After(c)
<1> USE DEF Calls, Giving
<1>0. Types /\ SeenBy(c) /\ Verified /\ Wants[c] \in SUBSET Key /\ None.lockID = Free
  BY LockerAssumption, Leases DEF LockerInv, SeenRight
<1>1. CASE Lock(c)
  BY <1>0, <1>1, LookStep DEF Lock, Types, SeenBy
<1>2. CASE UndoEnds(c)
  BY <1>0, <1>2, LookStep DEF UndoEnds, Types, SeenBy
<1>3. CASE Unlock(c) \/ UnlockEnds(c)
  <2>1. CASE Unlock(c)
    BY <1>0, <2>1, LookStep DEF Unlock, Types, SeenBy
  <2>2. CASE UnlockEnds(c)
    BY <1>0, <2>2, LookStep DEF UnlockEnds, Types, SeenBy
  <2> QED
    BY <1>3, <2>1, <2>2
<1>4. CASE Crash(c)
  BY <1>0, <1>4, LookStep DEF Crash, Types, SeenBy
<1>5. ASSUME NEW k \in left[c], Visit(c, k) PROVE After(c)
  <2>0. k \in Key
    BY <1>0 DEF Types
  <2>1. CASE Store(c, k)
    <3>1. locks' = [locks EXCEPT ![k] = Lease(c)]
      BY <2>0, <2>1, NoEviction DEF Store
    <3>2. seen' = [seen EXCEPT ![c] = None]
      BY <1>0, <2>1 DEF Store, SeenBy, Types
    <3> QED
      BY <2>0, <2>1, <3>1, <3>2, Leases, TakeStep DEF Store
  <2>2. CASE LoadExpired(c, k)
    BY <1>0, <2>0, <2>2, LookStep DEF LoadExpired, Types, SeenBy
  <2>3. CASE Reenter(c, k)
    <3>1. /\ pc' \in [Client -> Calls] /\ left' \in [Client -> SUBSET Key]
          /\ \A d \in Client \ {c} : pc'[d] = pc[d] /\ left'[d] = left[d]
          /\ pc'[c] \in {"lock", "verify"}
          /\ pc'[c] = "verify" => left'[c] = Wants[c]
      BY <1>0, <2>0, <2>3, VisitedIs DEF Reenter
    <3> QED
      BY <1>0, <2>3, <3>1, LookStep DEF Reenter, Types, SeenBy
  <2>4. CASE LoadOther(c, k)
    BY <1>0, <2>4, LookStep DEF LoadOther, Refused, Types, SeenBy
  <2>5. CASE Swap(c, k)
    <3>0. seen' = [seen EXCEPT ![c] = None] /\ seen[c].expired /\ pc[c] = "swap"
      BY <1>0, <2>5 DEF Swap, SeenBy
    <3>1. CASE StillThere(c, k)
      BY <2>0, <2>5, <3>0, <3>1, TakeStep DEF Swap, StillThere
    <3>2. CASE ~StillThere(c, k)
      BY <1>0, <2>5, <3>0, <3>2, LookStep DEF Swap, Refused, Types, SeenBy
    <3> QED
      BY <3>1, <3>2
  <2>6. CASE FindOwn(c, k)
    BY <1>0, <2>0, <2>6, LookStep DEF FindOwn, Types, SeenBy
  <2>7. CASE Confirm(c, k)
    <3>1. /\ pc' \in [Client -> Calls] /\ left' \in [Client -> SUBSET Key]
          /\ \A d \in Client \ {c} : pc'[d] = pc[d] /\ left'[d] = left[d]
          /\ pc[c] = "verify" /\ locks[k] = Lease(c)
          /\ left'[c] = left[c] \ {k}
          /\ IF left[c] = {k} THEN pc'[c] = "held" ELSE pc'[c] = "verify"
      BY <1>0, <2>7 DEF Confirm, Types
    <3>2. c \in LiveExpiry \/ \A j \in Wants[c] : j \in left[c] \/ locks[j] = Lease(c)
      BY <1>0, <3>1 DEF Verified
    <3>3. \A j \in Wants[c] : (pc'[c] = "held" \/ j \notin left'[c]) =>
            c \in LiveExpiry \/ locks[j] = Lease(c)
      BY <3>1, <3>2
    <3>4. locks' = locks /\ acquired' = acquired /\ seen' = seen /\ SeenBy(c)'
      BY <1>0, <2>7, <3>1 DEF Confirm, SeenBy
    <3> QED
      BY <1>0, <3>1, <3>3, <3>4, LookStep DEF Types
  <2>8. CASE NotConfirmed(c, k)
    BY <1>0, <2>8, LookStep DEF NotConfirmed, Types, SeenBy
  <2>9. CASE FindOther(c, k)
    BY <1>0, <2>9, LookStep DEF FindOther, Types, SeenBy
  <2>10. CASE CompareAndDelete(c, k)
    BY <2>0, <2>10, DeleteStep
  <2> QED
    BY <1>5, <2>1, <2>2, <2>3, <2>4, <2>5, <2>6, <2>7, <2>8, <2>9, <2>10 DEF Visit
<1> QED
  BY <1>1, <1>2, <1>3, <1>4, <1>5 DEF Step

\* No step takes from a client that is not slow what it has verified.
LEMMA LockerStep ==
  ASSUME Cardinality(Key) <= Capacity
  PROVE  LockerInv /\ [Next]_vars => LockerInv'
<1> SUFFICES ASSUME LockerInv, [Next]_vars PROVE LockerInv'
  OBVIOUS
<1>1. ASSUME NEW c \in Client, Step(c) \/ Crash(c) PROVE LockerInv'
  BY <1>1, ClientStep, OwnKeeps DEF After, LockerInv
<1>2. ASSUME NEW k \in Key, Expire(k) PROVE LockerInv'
  <2>0. Types /\ SeenRight /\ Verified
    BY DEF LockerInv
  <2>1. locks[k] \in Item
    BY <2>0, <1>2 DEF Types, Expire
  <2>2. /\ locks' \in [Key -> Item \cup {None}]
        /\ \A j \in Key \ {k} : locks'[j] = locks[j]
    BY <2>0, <2>1, <1>2 DEF Expire, Types, Item
  <2>3. UNCHANGED <<pc, left, acquired, seen>>
    BY <1>2 DEF Expire
  <2>4. ASSUME NEW d \in Client \ LiveExpiry, pc[d] # "dead" PROVE locks[k] # Lease(d)
    BY <1>2, <2>4, Leases DEF Expire
  <2>5. Types' /\ SeenRight'
    BY <2>0, <2>2, <2>3 DEF Types, SeenRight, SeenBy
  <2>6. \A d \in Client : Wants[d] \subseteq Key
    BY LockerAssumption
  <2>7. Verified'
    BY <2>0, <2>2, <2>3, <2>4, <2>6 DEF Verified, Lease
  <2> QED
    BY <2>5, <2>7 DEF LockerInv
<1>3. CASE UNCHANGED vars
  BY <1>3 DEF vars, LockerInv, Types, SeenRight, SeenBy, Verified, Lease
<1> QED
  BY <1>1, <1>2, <1>3 DEF Next

\* It holds at the start.
LEMMA LockerInit == Init => LockerInv
BY DEF Init, LockerInv, Types, Calls, SeenRight, SeenBy, Giving, Verified

-----------------------------------------------------------------------------
(* Refinement *)

Holds(c, k) == c \in Client \ LiveExpiry /\ pc[c] = "held" /\ k \in Wants[c]

HolderIs == \A k \in Key :
  /\ Holder(k) \in Client \cup {Free}
  /\ \A c \in Client : Holder(k) = c <=> Holds(c, k)

\* At most one client that is not slow holds a key: the one the refinement mapping names.
LEMMA HolderUnique == LockerInv => HolderIs
<1> SUFFICES ASSUME LockerInv, NEW k \in Key
             PROVE  /\ Holder(k) \in Client \cup {Free}
                    /\ \A c \in Client : Holder(k) = c <=> Holds(c, k)
  BY DEF HolderIs
<1> DEFINE H == {c \in Client \ LiveExpiry : pc[c] = "held" /\ k \in Wants[c]}
<1>1. \A c, d \in H : c = d
  <2> SUFFICES ASSUME NEW c \in H, NEW d \in H PROVE c = d
    OBVIOUS
  <2>1. locks[k] = Lease(c) /\ locks[k] = Lease(d)
    BY DEF LockerInv, Verified
  <2> QED
    BY <2>1, Leases
<1>2. CASE H = {}
  <2>1. Holder(k) = Free
    BY <1>2 DEF Holder
  <2> QED
    BY <1>2, <2>1, LockerAssumption DEF Holds
<1>3. CASE H # {}
  <2>1. PICK d \in H : H = {d}
    BY <1>1, <1>3
  <2>2. Holder(k) = CHOOSE c \in H : TRUE
    BY <1>3 DEF Holder
  <2>3. Holder(k) = d
    BY <2>1, <2>2
  <2> QED
    BY <2>1, <2>3 DEF Holds
<1> QED
  BY <1>2, <1>3

\* A step that hands out no keys and takes none back is invisible to the callers.
LEMMA SameHolders ==
  ASSUME \A c \in Client \ LiveExpiry : (pc'[c] = "held") <=> (pc[c] = "held")
  PROVE  \A k \in Key : Holder(k)' = Holder(k)
<1> SUFFICES ASSUME NEW k \in Key PROVE Holder(k)' = Holder(k)
  OBVIOUS
<1> DEFINE H == {c \in Client \ LiveExpiry : pc[c] = "held" /\ k \in Wants[c]}
           G == {c \in Client \ LiveExpiry : pc'[c] = "held" /\ k \in Wants[c]}
<1>1. H = G
  OBVIOUS
<1>2. Holder(k) = IF H = {} THEN Free ELSE CHOOSE c \in H : TRUE
  BY DEF Holder
<1>3. Holder(k)' = IF G = {} THEN Free ELSE CHOOSE c \in G : TRUE
  BY DEF Holder
<1> HIDE DEF H, G
<1> QED
  BY <1>1, <1>2, <1>3

\* A step that is not Confirm hands out no keys.
LEMMA OnlyConfirmHolds ==
  ASSUME Types, NEW c \in Client, Step(c) \/ Crash(c), pc[c] # "held", pc'[c] = "held"
  PROVE  \E k \in left[c] : Confirm(c, k)
<1>1. ~Lock(c) /\ ~UndoEnds(c) /\ ~Unlock(c) /\ ~UnlockEnds(c) /\ ~Crash(c)
  BY DEF Lock, UndoEnds, Unlock, UnlockEnds, Crash, Types
<1>2. PICK k \in left[c] : Visit(c, k)
  BY <1>1 DEF Step
<1>3. k \in Key
  BY DEF Types
<1>4. ~Visited(c, k)
  BY <1>3, VisitedIs
<1>5. ~Refused(c)
  BY DEF Refused, Types
<1>6. ~Store(c, k) /\ ~Reenter(c, k) /\ ~LoadOther(c, k) /\ ~Swap(c, k)
  BY <1>4, <1>5, Zenon DEF Store, Reenter, LoadOther, Swap
<1>7. /\ ~LoadExpired(c, k) /\ ~FindOwn(c, k) /\ ~FindOther(c, k) /\ ~NotConfirmed(c, k)
      /\ ~CompareAndDelete(c, k)
  BY DEF LoadExpired, FindOwn, FindOther, NotConfirmed, CompareAndDelete, Types
<1> QED
  BY <1>2, <1>6, <1>7 DEF Visit

\* As long as the shard holds all the keys, Lock, IsLocked and Unlock implement locks that
\* are taken all at once and only given back by their holder, for all clients that keep
\* within the lifetime of their locks, whatever the slow and the dead did.
THEOREM MemoryImplementsNodeLocks ==
  ASSUME Cardinality(Key) <= Capacity
  PROVE  Spec => ImplementsNodeLocks
<1> DEFINE held == [k \in Key |-> Holder(k)]
<1>1. Init => Abstract!Init
  BY DEF Init, Holder, Abstract!Init
<1>2. ASSUME LockerInv, LockerInv', HolderIs, HolderIs', [Next]_vars
      PROVE  [Abstract!Next]_held
  <2>1. ASSUME \A c \in Client \ LiveExpiry : (pc'[c] = "held") <=> (pc[c] = "held")
        PROVE  UNCHANGED held
    BY <2>1, SameHolders
  <2>2. ASSUME NEW c \in Client, Step(c) \/ Crash(c) PROVE [Abstract!Next]_held
    <3>1. \A d \in Client \ {c} : pc'[d] = pc[d]
      BY <1>2, <2>2, ClientStep DEF After, Own
    <3>2. CASE c \in LiveExpiry \/ ((pc'[c] = "held") <=> (pc[c] = "held"))
      BY <2>1, <3>1, <3>2
    <3>3. CASE c \notin LiveExpiry /\ pc[c] = "held" /\ pc'[c] # "held"
      <4>1. ASSUME NEW k \in Key
            PROVE  Holder(k)' = IF Holder(k) = c THEN Free ELSE Holder(k)
        <5>1. \A d \in Client : Holds(d, k)' <=> d # c /\ Holds(d, k)
          BY <3>1, <3>3 DEF Holds
        <5> QED
          BY <5>1, <1>2, <4>1, LockerAssumption DEF HolderIs
      <4>2. Abstract!Release(c)
        BY <4>1 DEF Abstract!Release
      <4> QED
        BY <4>2 DEF Abstract!Next
    <3>4. CASE c \notin LiveExpiry /\ pc[c] # "held" /\ pc'[c] = "held"
      <4>1. PICK j \in left[c] : Confirm(c, j)
        BY <1>2, <2>2, <3>4, OnlyConfirmHolds DEF LockerInv
      <4>2. \A k \in Wants[c] : locks[k] = Lease(c)
        BY <1>2, <3>4, <4>1 DEF Confirm, LockerInv, Verified, Lease
      <4>3. \A d \in Client, k \in Key : Holds(d, k)' <=> (d = c /\ k \in Wants[c]) \/ Holds(d, k)
        BY <3>1, <3>4 DEF Holds
      <4>4. \A k \in Wants[c] : Holder(k) = Free
        <5> SUFFICES ASSUME NEW k \in Wants[c] PROVE Holder(k) = Free
          OBVIOUS
        <5>1. k \in Key
          BY LockerAssumption
        <5>2. \A d \in Client \ {c} : locks[k] # Lease(d)
          BY <4>2, Leases
        <5>3. \A d \in Client : ~Holds(d, k)
          BY <1>2, <3>4, <5>2 DEF Holds, LockerInv, Verified
        <5> QED
          BY <1>2, <5>1, <5>3 DEF HolderIs
      <4>5. ASSUME NEW k \in Key
            PROVE  Holder(k)' = IF k \in Wants[c] THEN c ELSE Holder(k)
        BY <1>2, <4>3, <4>5, LockerAssumption DEF HolderIs
      <4>6. Abstract!Acquire(c)
        BY <4>4, <4>5, LockerAssumption DEF Abstract!Acquire
      <4> QED
        BY <4>6 DEF Abstract!Next
    <3> QED
      BY <3>2, <3>3, <3>4
  <2>3. ASSUME NEW k \in Key, Expire(k) PROVE [Abstract!Next]_held
    BY <2>1, <2>3 DEF Expire
  <2>4. CASE UNCHANGED vars
    BY <2>1, <2>4 DEF vars
  <2> QED
    BY <1>2, <2>2, <2>3, <2>4 DEF Next
<1> QED
  BY <1>1, <1>2, LockerInit, LockerStep, HolderUnique, PTL
     DEF Spec, ImplementsNodeLocks, Abstract!Spec

-----------------------------------------------------------------------------
(* Who frees a lock *)

\* As long as the shard holds all the keys, a lock that has not expired goes only when its
\* own client gives it back: nobody deletes or takes over, on the strength of an item found
\* earlier (compareAndDelete, compareAndSwap), what has become another's.
THEOREM OnlyOwnerFreesHolds ==
  ASSUME Cardinality(Key) <= Capacity
  PROVE  Spec => OnlyOwnerFrees
<1> DEFINE P(c, k) == locks[k] = Lease(c) /\ locks'[k].lockID # c =>
                        pc[c] \in Giving /\ left'[c] # left[c]
<1>1. ASSUME LockerInv, [Next]_vars, NEW c \in Client, NEW k \in Key PROVE P(c, k)
  <2> SUFFICES ASSUME locks[k] = Lease(c), locks'[k].lockID # c
               PROVE  pc[c] \in Giving /\ left'[c] # left[c]
    OBVIOUS
  <2>0. Types /\ SeenBy(c) /\ Lease(c).lockID = c /\ ~Lease(c).expired /\ locks'[k] # Lease(c)
    BY <1>1, Leases DEF LockerInv, SeenRight
  <2>1. ASSUME NEW d \in Client, d # c, Step(d) \/ Crash(d) PROVE FALSE
    BY <1>1, <2>0, <2>1, ClientStep DEF After, Own
  <2>2. CASE Step(c) \/ Crash(c)
    <3>1. ~(Lock(c) \/ UndoEnds(c) \/ Unlock(c) \/ UnlockEnds(c) \/ Crash(c))
      BY <2>0 DEF Lock, UndoEnds, Unlock, UnlockEnds, Crash
    <3>2. PICK j \in left[c] : Visit(c, j)
      BY <2>2, <3>1 DEF Step
    <3>3. j \in Key
      BY <2>0 DEF Types
    <3>4. locks' # locks
      BY <2>0
    <3>5. /\ ~LoadExpired(c, j) /\ ~Reenter(c, j) /\ ~LoadOther(c, j) /\ ~Confirm(c, j)
          /\ ~NotConfirmed(c, j) /\ ~FindOwn(c, j) /\ ~FindOther(c, j)
      BY <3>4 DEF LoadExpired, Reenter, LoadOther, Refused, Confirm, NotConfirmed, FindOwn, FindOther
    <3>6. locks' # [locks EXCEPT ![j] = Lease(c)]
      BY <2>0, <3>3 DEF Types
    <3>7. ~Store(c, j)
      BY <1>1, <3>3, <3>6, NoEviction DEF Store
    <3>8. ~Swap(c, j)
      BY <3>4, <3>6 DEF Swap, Refused
    <3>9. CompareAndDelete(c, j)
      BY <3>2, <3>5, <3>7, <3>8 DEF Visit
    <3> QED
      BY <2>0, <3>9 DEF CompareAndDelete, Types
  <2>3. ASSUME NEW j \in Key, Expire(j) PROVE FALSE
    <3>1. locks[j] \in Item
      BY <2>0, <2>3 DEF Types, Expire
    <3> QED
      BY <2>0, <2>3, <3>1 DEF Expire, Types, Item
  <2>4. CASE UNCHANGED vars
    BY <2>0, <2>4 DEF vars
  <2> QED
    BY <1>1, <2>1, <2>2, <2>3, <2>4 DEF Next
<1>2. ASSUME LockerInv, [Next]_vars PROVE [\A c \in Client, k \in Key : P(c, k)]_vars
  BY <1>1, <1>2
<1> QED
  BY <1>2, LockerInit, LockerStep, PTL DEF Spec, OnlyOwnerFrees
=============================================================================
