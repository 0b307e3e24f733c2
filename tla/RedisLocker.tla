----------------------------- MODULE RedisLocker -----------------------------
(***************************************************************************)
(* The lock protocol of adapters/redis/locker.go, as phase1Commit and the  *)
(* callers of DualLock use it: Lock is a pipeline of SETNX, one per key,   *)
(* and a pipeline of GET for the refused ones; IsLocked a pipeline of GET; *)
(* Unlock one DEL.  Commands of other clients may come between those of a  *)
(* pipeline.  Redis itself is external: SETNX, GET and DEL are atomic.     *)
(***************************************************************************)
EXTENDS Integers, FiniteSetsExt

CONSTANTS
  Client,
  Key,          \* lock names, numbered in the order the callers sort them
  Wants,        \* [Client -> the keys it locks together]
  KeepKeys,     \* clients whose next attempt passes the same LockKeys, as phase1Commit's
                \*   does; the others make new ones
  LiveExpiry,   \* slow clients, whose locks may lapse while they live
  Free

ASSUME LockerAssumption ==
  /\ Key \subseteq Nat /\ IsFiniteSet(Key)
  /\ Wants \in [Client -> (SUBSET Key) \ {{}}]
  /\ Free \notin Client

ASSUME HabitsAssumption == KeepKeys \subseteq Client /\ LiveExpiry \subseteq Client

VARIABLES
  redis,        \* [Key -> the client whose lock ID is stored, or Free]
  pc,           \* [Client -> where it is in its call]
  left,         \* [Client -> keys whose command of the pipeline is still to run]
  refused,      \* [Client -> keys SETNX refused, or IsLocked did not confirm]
  owns          \* [Client -> keys whose IsLockOwner flag is set]

vars == <<redis, pc, left, refused, owns>>

Init ==
  /\ redis = [k \in Key |-> Free]
  /\ pc = [c \in Client |-> "idle"]
  /\ left = [c \in Client |-> {}]
  /\ refused = [c \in Client |-> {}]
  /\ owns = [c \in Client |-> {}]

\* Lock is called; a new LockKey's IsLockOwner is false.
Lock(c) ==
  /\ pc[c] = "idle"
  /\ pc' = [pc EXCEPT ![c] = "setnx"]
  /\ left' = [left EXCEPT ![c] = Wants[c]]
  /\ refused' = [refused EXCEPT ![c] = {}]
  /\ owns' = IF c \in KeepKeys THEN owns ELSE [owns EXCEPT ![c] = {}]
  /\ UNCHANGED redis

\* Mistake: the flags are set once every key is won.
SetNXUnflagged(c) ==
  /\ pc[c] = "setnx"
  /\ LET k   == Min(left[c])
         won == redis[k] = Free
         bad == IF won THEN refused[c] ELSE refused[c] \cup {k}
         end == left[c] = {k}
     IN  /\ redis' = IF won THEN [redis EXCEPT ![k] = c] ELSE redis
         /\ owns' = IF end /\ bad = {} THEN [owns EXCEPT ![c] = Wants[c]] ELSE owns
         /\ refused' = [refused EXCEPT ![c] = bad]
         /\ left' = [left EXCEPT ![c] = IF end /\ bad = {} THEN Wants[c] ELSE @ \ {k}]
         /\ pc' = IF end THEN [pc EXCEPT ![c] = IF bad = {} THEN "verify" ELSE "get"] ELSE pc

\* One SETNX; the last one decides whether owners have to be looked up.
SetNX(c) ==
  /\ pc[c] = "setnx"
  /\ LET k   == Min(left[c])
         won == redis[k] = Free
         bad == IF won THEN refused[c] ELSE refused[c] \cup {k}
         end == left[c] = {k}
     IN  /\ redis' = IF won THEN [redis EXCEPT ![k] = c] ELSE redis
         /\ owns' = IF won THEN [owns EXCEPT ![c] = @ \cup {k}] ELSE owns
         /\ refused' = [refused EXCEPT ![c] = bad]
         /\ left' = [left EXCEPT ![c] = IF end /\ bad = {} THEN Wants[c] ELSE @ \ {k}]
         /\ pc' = IF end THEN [pc EXCEPT ![c] = IF bad = {} THEN "verify" ELSE "get"] ELSE pc

\* The key is this client's already.
GetOwn(c) ==
  /\ pc[c] = "get"
  /\ LET k == Min(refused[c])
     IN  /\ redis[k] = c
         /\ owns' = [owns EXCEPT ![c] = @ \cup {k}]
         /\ refused' = [refused EXCEPT ![c] = @ \ {k}]
         /\ IF refused[c] = {k}
            THEN /\ pc' = [pc EXCEPT ![c] = "verify"]
                 /\ left' = [left EXCEPT ![c] = Wants[c]]
            ELSE UNCHANGED <<pc, left>>
  /\ UNCHANGED redis

\* It is another's, or its owner just released it: Lock returns false.
GetOther(c) ==
  /\ pc[c] = "get"
  /\ redis[Min(refused[c])] # c
  /\ pc' = [pc EXCEPT ![c] = "failed"]
  /\ UNCHANGED <<redis, left, refused, owns>>

\* IsLocked, of phase1Commit or of DualLock.
IsLocked(c) ==
  /\ pc[c] = "verify"
  /\ LET k   == Min(left[c])
         bad == IF redis[k] = c THEN refused[c] ELSE refused[c] \cup {k}
     IN  /\ owns' = [owns EXCEPT ![c] = IF redis[k] = c THEN @ \cup {k} ELSE @ \ {k}]
         /\ refused' = [refused EXCEPT ![c] = bad]
         /\ left' = [left EXCEPT ![c] = @ \ {k}]
         /\ pc' = IF left[c] = {k}
                  THEN [pc EXCEPT ![c] = IF bad = {} THEN "held" ELSE "unconfirmed"] ELSE pc
  /\ UNCHANGED redis

\* phase1Commit goes round its loop when IsLocked does not confirm.
Retry(c) ==
  /\ pc[c] = "unconfirmed"
  /\ pc' = [pc EXCEPT ![c] = "idle"]
  /\ UNCHANGED <<redis, left, refused, owns>>

\* Mistake: it deletes every key it was given.
UnlockAll(c) ==
  /\ pc[c] \in {"failed", "unconfirmed", "held"}
  /\ redis' = [k \in Key |-> IF k \in Wants[c] THEN Free ELSE redis[k]]
  /\ owns' = IF pc[c] = "held" THEN [owns EXCEPT ![c] = {}] ELSE owns
  /\ pc' = [pc EXCEPT ![c] = "idle"]
  /\ UNCHANGED <<left, refused>>

\* Unlock deletes the keys whose flag is set and leaves the flags.  After a commit or a
\* rollback nodesKeys becomes nil, so that the next attempt has new ones.
Unlock(c) ==
  /\ pc[c] \in {"failed", "unconfirmed", "held"}
  /\ redis' = [k \in Key |-> IF k \in owns[c] THEN Free ELSE redis[k]]
  /\ owns' = IF pc[c] = "held" THEN [owns EXCEPT ![c] = {}] ELSE owns
  /\ pc' = [pc EXCEPT ![c] = "idle"]
  /\ UNCHANGED <<left, refused>>

Crash(c) ==
  /\ pc[c] # "dead"
  /\ pc' = [pc EXCEPT ![c] = "dead"]
  /\ UNCHANGED <<redis, left, refused, owns>>

\* The TTL of a key lapses.
Lapse(k) ==
  /\ redis[k] # Free
  /\ redis[k] \in LiveExpiry \/ pc[redis[k]] = "dead"
  /\ redis' = [redis EXCEPT ![k] = Free]
  /\ UNCHANGED <<pc, left, refused, owns>>

Next ==
  \/ \E c \in Client :
       \/ Lock(c) \/ SetNX(c) \/ GetOwn(c) \/ GetOther(c)
       \/ IsLocked(c) \/ Retry(c) \/ Unlock(c) \/ Crash(c)
  \/ \E k \in Key : Lapse(k)

Spec == Init /\ [][Next]_vars

-----------------------------------------------------------------------------
\* Who holds a key, as far as the callers know.
Holder(k) ==
  LET H == {c \in Client : pc[c] = "held" /\ k \in Wants[c]}
  IN  IF H = {} THEN Free ELSE CHOOSE c \in H : TRUE

Abstract == INSTANCE NodeLocks WITH holder <- [k \in Key |-> Holder(k)]

\* Lock, IsLocked and Unlock, pipelines interleaved, give out all the keys or none, as
\* TwoPhaseCommit assumes of the node locks.
ImplementsNodeLocks == Abstract!Spec

\* As long as its TTL does not lapse, what a client was told it holds stays locked: Unlock
\* only deletes the caller's own keys, however its earlier attempts ended.
HeldStaysLocked ==
  \A c \in Client \ LiveExpiry : pc[c] = "held" => \A k \in Wants[c] : redis[k] = c

\* A live client's flags cover what it has locked, whatever failed, lapsed or went
\* unconfirmed before: Unlock, which goes by the flags, leaves no key to its TTL.
FlagsCoverLocks ==
  \A c \in Client : pc[c] # "dead" => {k \in Key : redis[k] = c} \subseteq owns[c]
=============================================================================
