-------------------------- MODULE RedisLockerProofs --------------------------
(***************************************************************************)
(* Theorems about RedisLocker, for any clients, keys and interleaving of   *)
(* their pipelines.                                                        *)
(***************************************************************************)
EXTENDS RedisLocker, WellFoundedInduction, TLAPS

\* A pipeline that is not finished has a next command, on one of the keys it was given.
LEMMA MinIn ==
  ASSUME NEW S \in SUBSET Key, S # {}
  PROVE  Min(S) \in S
<1>1. S \subseteq Nat
  BY LockerAssumption
<1>2. PICK x \in S : \A y \in S : ~(<<y, x>> \in OpToRel(<, Nat))
  BY <1>1, WFMin, NatLessThanWellFounded
<1>3. \A y \in S : x <= y
  <2> SUFFICES ASSUME NEW y \in S, ~(x <= y) PROVE FALSE
    OBVIOUS
  <2>1. x \in Nat /\ y \in Nat /\ y < x
    BY <1>1
  <2>2. <<y, x>> \in OpToRel(<, Nat)
    BY <2>1, Zenon DEF OpToRel
  <2> QED
    BY <1>2, <2>2
<1> QED
  BY <1>3 DEF Min

Calls == {"idle", "setnx", "get", "verify", "unconfirmed", "failed", "held", "dead"}

Types ==
  /\ redis \in [Key -> Client \cup {Free}]
  /\ pc \in [Client -> Calls]
  /\ left \in [Client -> SUBSET Key]
  /\ refused \in [Client -> SUBSET Key]
  /\ owns \in [Client -> SUBSET Key]
  /\ \A c \in Client : /\ pc[c] \in {"setnx", "verify"} => left[c] # {}
                       /\ pc[c] = "get" => refused[c] # {}

\* Every step keeps the types, and every pipeline it starts has a command to run.
LEMMA TypesStep == Types /\ [Next]_vars => Types'
<1> SUFFICES ASSUME Types, [Next]_vars PROVE Types'
  OBVIOUS
<1> USE LockerAssumption DEF Types, Calls
<1>1. ASSUME NEW c \in Client, Lock(c) PROVE Types'
  BY <1>1 DEF Lock
<1>2. ASSUME NEW c \in Client, SetNX(c) PROVE Types'
  <2>1. Min(left[c]) \in left[c]
    BY <1>2, MinIn DEF SetNX
  <2> QED
    BY <1>2, <2>1 DEF SetNX
<1>3. ASSUME NEW c \in Client, GetOwn(c) PROVE Types'
  <2>1. Min(refused[c]) \in refused[c]
    BY <1>3, MinIn DEF GetOwn
  <2> QED
    BY <1>3, <2>1 DEF GetOwn
<1>4. ASSUME NEW c \in Client, GetOther(c) PROVE Types'
  BY <1>4 DEF GetOther
<1>5. ASSUME NEW c \in Client, IsLocked(c) PROVE Types'
  <2>1. Min(left[c]) \in left[c]
    BY <1>5, MinIn DEF IsLocked
  <2> QED
    BY <1>5, <2>1 DEF IsLocked
<1>6. ASSUME NEW c \in Client, Retry(c) PROVE Types'
  BY <1>6 DEF Retry
<1>7. ASSUME NEW c \in Client, Unlock(c) PROVE Types'
  BY <1>7 DEF Unlock
<1>8. ASSUME NEW c \in Client, Crash(c) PROVE Types'
  BY <1>8 DEF Crash
<1>9. ASSUME NEW k \in Key, Lapse(k) PROVE Types'
  BY <1>9 DEF Lapse
<1>10. CASE UNCHANGED vars
  BY <1>10 DEF vars
<1> QED
  BY <1>1, <1>2, <1>3, <1>4, <1>5, <1>6, <1>7, <1>8, <1>9, <1>10 DEF Next

\* Init satisfies the types.
LEMMA TypesInit == Init => Types
BY LockerAssumption DEF Init, Types, Calls

-----------------------------------------------------------------------------
(* Unlock leaves nothing behind. *)

\* The IsLockOwner flags cover every key a live client has in redis, for callers that
\* keep their LockKeys between attempts, even when TTLs lapse.
THEOREM FlagsCover ==
  ASSUME KeepKeys = Client
  PROVE  Spec => []FlagsCoverLocks
<1> USE LockerAssumption DEF Types, FlagsCoverLocks
<1>1. Init => FlagsCoverLocks
  BY DEF Init
<1>2. ASSUME Types, FlagsCoverLocks, [Next]_vars PROVE FlagsCoverLocks'
  <2>1. ASSUME NEW c \in Client, Lock(c) PROVE FlagsCoverLocks'
    BY <1>2, <2>1 DEF Lock
  <2>2. ASSUME NEW c \in Client, SetNX(c) PROVE FlagsCoverLocks'
    BY <1>2, <2>2 DEF SetNX
  <2>3. ASSUME NEW c \in Client, GetOwn(c) PROVE FlagsCoverLocks'
    BY <1>2, <2>3 DEF GetOwn
  <2>4. ASSUME NEW c \in Client, GetOther(c) PROVE FlagsCoverLocks'
    BY <1>2, <2>4 DEF GetOther
  <2>5. ASSUME NEW c \in Client, IsLocked(c) PROVE FlagsCoverLocks'
    BY <1>2, <2>5 DEF IsLocked
  <2>6. ASSUME NEW c \in Client, Retry(c) PROVE FlagsCoverLocks'
    BY <1>2, <2>6 DEF Retry
  <2>7. ASSUME NEW c \in Client, Unlock(c) PROVE FlagsCoverLocks'
    BY <1>2, <2>7 DEF Unlock
  <2>8. ASSUME NEW c \in Client, Crash(c) PROVE FlagsCoverLocks'
    BY <1>2, <2>8 DEF Crash
  <2>9. ASSUME NEW k \in Key, Lapse(k) PROVE FlagsCoverLocks'
    BY <1>2, <2>9 DEF Lapse
  <2>10. CASE UNCHANGED vars
    BY <1>2, <2>10 DEF vars
  <2> QED
    BY <1>2, <2>1, <2>2, <2>3, <2>4, <2>5, <2>6, <2>7, <2>8, <2>9, <2>10 DEF Next
<1> QED
  BY <1>1, <1>2, TypesInit, TypesStep, PTL DEF Spec

-----------------------------------------------------------------------------
(* With new LockKeys for every attempt, held keys stay locked. *)

\* While a call runs, a set flag means that the key is this client's.
FlagsSound ==
  \A c \in Client : pc[c] \notin {"idle", "dead"} => \A k \in owns[c] : redis[k] = c

\* Every key a call has dealt with is this client's, or on the list of refused ones.
Progress ==
  \A c \in Client :
    /\ pc[c] = "setnx" => \A k \in Wants[c] \ left[c] : redis[k] = c \/ k \in refused[c]
    /\ pc[c] = "get" => \A k \in Wants[c] : redis[k] = c \/ k \in refused[c]
    /\ pc[c] \in {"verify", "held"} => \A k \in Wants[c] : redis[k] = c

LockedInv == Types /\ FlagsSound /\ Progress

\* No step of any client takes a key from a client that relies on it.
LEMMA LockedStep ==
  ASSUME KeepKeys = {}, LiveExpiry = {}
  PROVE  LockedInv /\ [Next]_vars => LockedInv'
<1> SUFFICES ASSUME LockedInv, [Next]_vars PROVE FlagsSound' /\ Progress'
  BY TypesStep DEF LockedInv
<1> USE LockerAssumption DEF LockedInv, Types, FlagsSound, Progress
<1>1. ASSUME NEW c \in Client, Lock(c) PROVE FlagsSound' /\ Progress'
  BY <1>1 DEF Lock
<1>2. ASSUME NEW c \in Client, SetNX(c) PROVE FlagsSound' /\ Progress'
  <2>1. Min(left[c]) \in left[c]
    BY <1>2, MinIn DEF SetNX
  <2>2. FlagsSound'
    BY <1>2, <2>1 DEF SetNX
  <2>3. Progress'
    BY <1>2, <2>1 DEF SetNX
  <2> QED
    BY <2>2, <2>3
<1>3. ASSUME NEW c \in Client, GetOwn(c) PROVE FlagsSound' /\ Progress'
  BY <1>3 DEF GetOwn
<1>4. ASSUME NEW c \in Client, GetOther(c) PROVE FlagsSound' /\ Progress'
  BY <1>4 DEF GetOther
<1>5. ASSUME NEW c \in Client, IsLocked(c) PROVE FlagsSound' /\ Progress'
  BY <1>5 DEF IsLocked
<1>6. ASSUME NEW c \in Client, Retry(c) PROVE FlagsSound' /\ Progress'
  BY <1>6 DEF Retry
<1>7. ASSUME NEW c \in Client, Unlock(c) PROVE FlagsSound' /\ Progress'
  BY <1>7 DEF Unlock
<1>8. ASSUME NEW c \in Client, Crash(c) PROVE FlagsSound' /\ Progress'
  BY <1>8 DEF Crash
<1>9. ASSUME NEW k \in Key, Lapse(k) PROVE FlagsSound' /\ Progress'
  BY <1>9 DEF Lapse
<1>10. CASE UNCHANGED vars
  BY <1>10 DEF vars
<1> QED
  BY <1>1, <1>2, <1>3, <1>4, <1>5, <1>6, <1>7, <1>8, <1>9, <1>10 DEF Next

\* What a client was told it holds stays locked until it unlocks or dies.
THEOREM HeldKeysStayLocked ==
  ASSUME KeepKeys = {}, LiveExpiry = {}
  PROVE  Spec => []HeldStaysLocked
<1>1. Init => LockedInv
  BY TypesInit DEF Init, LockedInv, FlagsSound, Progress
<1>2. LockedInv => HeldStaysLocked
  BY DEF LockedInv, Progress, HeldStaysLocked
<1> QED
  BY <1>1, <1>2, LockedStep, PTL DEF Spec

-----------------------------------------------------------------------------
(* Refinement *)

Holds(c, k) == pc[c] = "held" /\ k \in Wants[c]

HolderIs == \A k \in Key :
  /\ Holder(k) \in Client \cup {Free}
  /\ \A c \in Client : Holder(k) = c <=> Holds(c, k)

\* At most one client holds a key, and it is the one the refinement mapping names.
LEMMA HolderUnique == LockedInv => HolderIs
<1> SUFFICES ASSUME LockedInv, NEW k \in Key
             PROVE  /\ Holder(k) \in Client \cup {Free}
                    /\ \A c \in Client : Holder(k) = c <=> Holds(c, k)
  BY DEF HolderIs
<1> DEFINE H == {c \in Client : pc[c] = "held" /\ k \in Wants[c]}
<1>1. \A c, d \in H : c = d
  BY DEF LockedInv, Progress
<1>2. CASE H = {}
  <2>1. Holder(k) = Free
    BY <1>2 DEF Holder
  <2> QED
    BY <1>2, <2>1, LockerAssumption DEF Holds
<1>3. CASE H # {}
  <2>1. PICK d \in H : H = {d}
    BY <1>1, <1>3
  <2>2. Holder(k) = CHOOSE c \in H : TRUE
    BY <1>3 DEF Holder
  <2>3. Holder(k) = d
    BY <2>1, <2>2
  <2> QED
    BY <2>1, <2>3 DEF Holds
<1> QED
  BY <1>2, <1>3

\* A step that hands out no keys and takes none back is invisible to the callers.
LEMMA SameHolders ==
  ASSUME \A c \in Client : (pc'[c] = "held") <=> (pc[c] = "held")
  PROVE  \A k \in Key : Holder(k)' = Holder(k)
<1> SUFFICES ASSUME NEW k \in Key PROVE Holder(k)' = Holder(k)
  OBVIOUS
<1> DEFINE H == {c \in Client : pc[c] = "held" /\ k \in Wants[c]}
           G == {c \in Client : pc'[c] = "held" /\ k \in Wants[c]}
<1>1. H = G
  OBVIOUS
<1>2. Holder(k) = IF H = {} THEN Free ELSE CHOOSE c \in H : TRUE
  BY DEF Holder
<1>3. Holder(k)' = IF G = {} THEN Free ELSE CHOOSE c \in G : TRUE
  BY DEF Holder
<1> HIDE DEF H, G
<1> QED
  BY <1>1, <1>2, <1>3

\* With new LockKeys for every attempt and no TTL lapsing under a live client, Lock,
\* IsLocked and Unlock implement locks that are taken all at once and only given back by
\* their holder: what TwoPhaseCommit takes for granted.
THEOREM RedisImplementsNodeLocks ==
  ASSUME KeepKeys = {}, LiveExpiry = {}
  PROVE  Spec => ImplementsNodeLocks
<1> DEFINE held == [k \in Key |-> Holder(k)]
<1>1. Init => Abstract!Init
  BY DEF Init, Holder, Abstract!Init
<1>2. Init => LockedInv
  BY TypesInit DEF Init, LockedInv, FlagsSound, Progress
<1>3. ASSUME LockedInv, LockedInv', HolderIs, HolderIs', [Next]_vars
      PROVE  [Abstract!Next]_held
  <2> USE <1>3 DEF LockedInv, Types, Calls
  <2>1. ASSUME \A c \in Client : (pc'[c] = "held") <=> (pc[c] = "held")
        PROVE  UNCHANGED held
    BY <2>1, SameHolders
  <2>2. ASSUME NEW c \in Client, pc[c] = "held", pc'[c] # "held",
               \A d \in Client \ {c} : pc'[d] = pc[d]
        PROVE  Abstract!Release(c)
    <3>1. ASSUME NEW k \in Key
          PROVE  Holder(k)' = IF Holder(k) = c THEN Free ELSE Holder(k)
      <4>1. \A d \in Client : Holds(d, k)' <=> d # c /\ Holds(d, k)
        BY <2>2 DEF Holds
      <4> QED
        BY <4>1, <1>3, <3>1, LockerAssumption DEF HolderIs
    <3> QED
      BY <3>1 DEF Abstract!Release
  <2>3. ASSUME NEW c \in Client, IsLocked(c) PROVE [Abstract!Next]_held
    <3>1. CASE pc'[c] = "held"
      <4>1. \A d \in Client, k \in Key : Holds(d, k)' <=> (d = c /\ k \in Wants[c]) \/ Holds(d, k)
        BY <2>3, <3>1 DEF IsLocked, Holds
      <4>2. \A k \in Wants[c] : Holder(k) = Free
        <5> SUFFICES ASSUME NEW k \in Wants[c] PROVE Holder(k) = Free
          OBVIOUS
        <5>1. k \in Key
          BY LockerAssumption
        <5>2. pc[c] = "verify" /\ redis[k] = c
          BY <2>3 DEF IsLocked, Progress
        <5>3. \A d \in Client : ~Holds(d, k)
          BY <5>2 DEF Holds, Progress
        <5> QED
          BY <5>1, <5>3 DEF HolderIs
      <4>3. ASSUME NEW k \in Key
            PROVE  Holder(k)' = IF k \in Wants[c] THEN c ELSE Holder(k)
        BY <4>1, <4>3, LockerAssumption DEF HolderIs
      <4>4. Abstract!Acquire(c)
        BY <4>2, <4>3, LockerAssumption DEF Abstract!Acquire
      <4> QED
        BY <4>4 DEF Abstract!Next
    <3>2. CASE pc'[c] # "held"
      BY <2>1, <2>3, <3>2 DEF IsLocked
    <3> QED
      BY <3>1, <3>2
  <2>4. ASSUME NEW c \in Client, Unlock(c) \/ Crash(c) PROVE [Abstract!Next]_held
    <3>1. CASE pc[c] = "held"
      BY <2>2, <2>4, <3>1 DEF Unlock, Crash, Abstract!Next
    <3>2. CASE pc[c] # "held"
      BY <2>1, <2>4, <3>2 DEF Unlock, Crash
    <3> QED
      BY <3>1, <3>2
  <2>5. ASSUME NEW c \in Client,
               Lock(c) \/ SetNX(c) \/ GetOwn(c) \/ GetOther(c) \/ Retry(c)
        PROVE  [Abstract!Next]_held
    BY <2>1, <2>5 DEF Lock, SetNX, GetOwn, GetOther, Retry
  <2>6. ASSUME NEW k \in Key, Lapse(k) PROVE [Abstract!Next]_held
    BY <2>1, <2>6 DEF Lapse
  <2>7. CASE UNCHANGED vars
    BY <2>1, <2>7 DEF vars
  <2> QED
    BY <2>3, <2>4, <2>5, <2>6, <2>7 DEF Next
<1> QED
  BY <1>1, <1>2, <1>3, LockedStep, HolderUnique, PTL DEF Spec, ImplementsNodeLocks, Abstract!Spec
=============================================================================
