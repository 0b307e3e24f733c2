---------------------------- MODULE StoresProofs ----------------------------
(***************************************************************************)
(* Theorems about Stores, for any transactions, stores and failures, as    *)
(* long as no two transactions create the same store and nobody writes an  *)
(* info between Get's read of the file and its write to the cache.         *)
(***************************************************************************)
EXTENDS Stores, WellFoundedInduction, TLAPS

\* A store that is not there at the beginning is used by one transaction.
OwnStores ==
  \A s \in Store \ Existing : \A t, u \in Tx : s \in Uses[t] \cap Uses[u] => t = u

-----------------------------------------------------------------------------
(* The inductive invariant. *)

Adding   == {"addlock", "addread", "addlist", "addinfo", "addcache"}
Removal  == {"rmlock", "rmread", "rmcache", "rmfile", "rmlist"}
Locked   == {"upread", "upwrite", "upcache", "undo", "undocache"}
Updating == {"uplock"} \cup Locked
Points   == {"idle", "fill", "applied", "committed", "rolledback", "dead"}
              \cup Adding \cup Removal \cup Updating
Infos    == [Tx -> Int]

Local == [pc : Points, todo : SUBSET Store, opened : SUBSET Store, created : SUBSET Store,
          logged : SUBSET Store, store : Store \cup {None}, info : Infos \cup {None},
          buf : SUBSET Store, drop : SUBSET Store, dir : {1, -1}, rest : SUBSET Store,
          done : SUBSET Store, gone : BOOLEAN, err : BOOLEAN, crashed : BOOLEAN]

Types ==
  /\ list \subseteq Store
  /\ file \in [Store -> Infos \cup {None}]
  /\ cache \in [Store -> Infos \cup {None}]
  /\ listLock \in Tx \cup {Free}
  /\ storeLock \in [Store -> Tx \cup {Free}]
  /\ tx \in [Tx -> Local]
  /\ applied \subseteq Tx \X Store
  /\ spoiled \subseteq Store
  /\ failures \in Nat

\* What a transaction's own variables say at each point: which stores it opened, created
\* and logged, and which of them the call it is in has dealt with.
Shape(t) ==
  LET x == tx[t]
  IN  /\ x.todo \cup x.opened \subseteq Uses[t]
      /\ x.logged \subseteq Uses[t] \ Existing
      /\ x.created \subseteq x.logged \cap x.opened
      /\ x.opened \subseteq Existing \cup x.created
      /\ x.todo \cap x.logged = {}
      /\ x.drop \subseteq x.logged
      /\ x.pc \in Adding => x.store \in x.logged \ x.created /\ x.logged = x.created \cup {x.store}
      /\ x.pc \in Removal => x.store \in x.logged
      /\ x.pc \notin Adding \cup Removal \cup {"dead", "rolledback"} => x.logged = x.created
      /\ x.pc = "fill" => x.store \in Existing
      /\ x.pc \in {"idle", "fill", "applied", "committed", "dead"} \cup Adding => x.dir = 1

CallShape(t) ==
  LET x == tx[t]
  IN  /\ x.pc \in Updating => x.rest \cup x.done \subseteq x.opened /\ x.rest \cap x.done = {}
      /\ x.pc \in Updating /\ x.dir = -1 => x.rest \cup x.done \subseteq Existing
      /\ x.pc \in {"uplock", "upread", "upwrite", "upcache"} => x.store \in x.rest
      /\ x.pc \in {"uplock", "upread", "upwrite", "upcache"} /\ x.dir = 1 => x.rest \cup x.done = x.opened
      /\ x.pc = "uplock" => x.done = {}
      /\ x.pc \in {"undo", "undocache"} => x.store \in x.done /\ ~ x.gone

\* Only the owner of the list's lock is at work on the list, and only the owner of a store's
\* lock on its info.
Holding(t) ==
  LET x == tx[t]
  IN  /\ x.pc \in (Adding \cup Removal) \ {"addlock", "rmlock"} => listLock = t
      /\ x.pc \in Locked => \A s \in x.rest \cup x.done : storeLock[s] = t

\* Whose delta a store owes: a transaction's after its Update, until a rollback takes it back.
Owing(t) ==
  LET x == tx[t]
  IN  /\ \A s \in Store : <<t, s>> \in applied =>
           s \in x.opened /\ (x.pc \in {"applied", "committed"} \/ x.dir = -1)
      /\ x.pc = "applied" => \A s \in x.opened : <<t, s>> \in applied
      /\ x.pc \in Updating /\ x.dir = -1 => \A s \in x.rest \cup x.done : <<t, s>> \in applied

Absent(s) == s \notin list /\ file[s] = None /\ cache[s] = None

\* What a creation or a removal has already done at each point, and that what it read of the
\* list is still what the list holds.
Creating(t) ==
  LET x == tx[t]
  IN  /\ x.pc \notin Removal \cup {"dead", "rolledback"} => \A s \in x.created : s \in list /\ file[s] # None
      /\ x.pc \in {"addlock", "addread", "addlist"} => Absent(x.store)
      /\ x.pc = "addlist" => x.buf = list \cup {x.store}
      /\ x.pc = "addinfo" => x.store \in list /\ file[x.store] = None /\ cache[x.store] = None
      /\ x.pc = "addcache" => x.store \in list /\ file[x.store] = Zero /\ cache[x.store] = None

Undoing(t) ==
  LET x == tx[t]
  IN  /\ x.pc \in Removal => \A s \in x.logged \ (x.drop \cup {x.store}) : x.err \/ Absent(s)
      /\ x.pc = "rolledback" => \A s \in x.logged : x.err \/ Absent(s)
      /\ x.pc \in {"rmcache", "rmfile", "rmlist"} => x.buf = list \ {x.store}
      /\ x.pc \in {"rmfile", "rmlist"} => cache[x.store] = None
      /\ x.pc = "rmlist" => x.err \/ file[x.store] = None

\* What a call has read, or written, is what the file holds.
Reading(t) ==
  tx[t].pc \in {"fill", "upwrite", "upcache", "undocache"} =>
    tx[t].info = file[tx[t].store] /\ tx[t].info # None

Mine(t) == Shape(t) /\ CallShape(t) /\ Holding(t) /\ Owing(t) /\ Creating(t) /\ Undoing(t) /\ Reading(t)

\* The stores there were at the beginning are listed, and what nobody has logged is not there.
Listed ==
  /\ \A s \in Existing : s \in list /\ file[s] # None
  /\ \A s \in Store \ Existing : (\A t \in Tx : s \notin tx[t].logged) => Absent(s)

\* A cached copy differs from the file only between the two writes of the lock's owner.
Copies ==
  \A s \in Store : \/ cache[s] \in {None, file[s]}
                   \/ \E t \in Tx : tx[t].pc \in {"upcache", "undocache"} /\ tx[t].store = s

\* The stores whose file has t's delta (or its inverse) from a call that has not returned.
Written(t) ==
  LET x == tx[t]
  IN  CASE x.pc \in {"upread", "upwrite", "undo"} -> x.done
        [] x.pc = "upcache" -> x.done \cup {x.store}
        [] x.pc = "undocache" -> x.done \ {x.store}
        [] OTHER -> {}

Due(t, s) == (IF <<t, s>> \in applied THEN 1 ELSE 0) + (IF s \in Written(t) THEN tx[t].dir ELSE 0)

Counts ==
  \A s \in Store : file[s] # None /\ s \notin spoiled => \A t \in Tx : file[s][t] = Due(t, s)

StoresInv == Types /\ Listed /\ Copies /\ Counts /\ \A t \in Tx : Mine(t)

-----------------------------------------------------------------------------
(* What the helpers return. *)

\* Update, the removals and the undo go through stores in order: Min picks one of them.
LEMMA MinIn ==
  ASSUME NEW S \in SUBSET Store, S # {}
  PROVE  Min(S) \in S
<1>1. S \subseteq Nat
  BY StoresAssumption
<1>2. PICK x \in S : \A y \in S : ~(<<y, x>> \in OpToRel(<, Nat))
  BY <1>1, WFMin, NatLessThanWellFounded
<1>3. \A y \in S : x <= y
  <2> SUFFICES ASSUME NEW y \in S, ~(x <= y) PROVE FALSE
    OBVIOUS
  <2>1. x \in Nat /\ y \in Nat /\ y < x
    BY <1>1
  <2>2. <<y, x>> \in OpToRel(<, Nat)
    BY <2>1, Zenon DEF OpToRel
  <2> QED
    BY <1>2, <2>2
<1> QED
  BY <1>3 DEF Min

\* The removal of stores starts with one of them, or is over.
RemovingAs(x, drop, r) ==
  /\ r \in Local
  /\ r.todo = x.todo /\ r.opened = x.opened /\ r.created = x.created /\ r.logged = x.logged
  /\ r.dir = x.dir /\ r.err = x.err /\ r.rest = x.rest /\ r.done = x.done
  /\ \/ drop = {} /\ r.pc = "rolledback" /\ r.drop = {}
     \/ r.pc = "rmlock" /\ r.store \in drop /\ r.drop = drop \ {r.store}

\* That is what Removing returns.
LEMMA RemovingIs ==
  ASSUME NEW x \in Local, NEW drop \in SUBSET Store
  PROVE  RemovingAs(x, drop, Removing(x, drop))
<1> DEFINE r == Removing(x, drop)
<1>1. CASE drop = {}
  BY <1>1 DEF Removing, RemovingAs, Local, Points
<1>2. CASE drop # {}
  <2>1. Min(drop) \in drop
    BY <1>2, MinIn
  <2>2. r = [x EXCEPT !.pc = "rmlock", !.store = Min(drop), !.buf = {}, !.drop = drop \ {Min(drop)}]
    BY <1>2 DEF Removing
  <2>3. "rmlock" \in Points
    BY DEF Points, Removal
  <2> HIDE DEF r
  <2>4. r \in Local
    BY <2>1, <2>2, <2>3 DEF Local
  <2>5. r.store = Min(drop) /\ r.drop = drop \ {Min(drop)} /\ r.pc = "rmlock"
    BY <2>2 DEF Local
  <2>6. /\ r.todo = x.todo /\ r.opened = x.opened /\ r.created = x.created /\ r.logged = x.logged
        /\ r.dir = x.dir /\ r.err = x.err /\ r.rest = x.rest /\ r.done = x.done
    BY <2>2 DEF Local
  <2>7. RemovingAs(x, drop, r)
    BY <2>1, <2>4, <2>5, <2>6 DEF RemovingAs
  <2> QED
    BY <2>7 DEF r
<1> QED
  BY <1>1, <1>2

-----------------------------------------------------------------------------
(* A step of one transaction, and what it leaves to the others. *)

\* What every step of another transaction leaves as it is for u: its own variables, its locks,
\* the list while it has the list's lock, its deltas, the stores it has begun to create, and the
\* info it has read.
Beside(u) ==
  /\ tx'[u] = tx[u]
  /\ listLock = u => listLock' = u /\ list' = list
  /\ \A s \in Store : storeLock[s] = u => storeLock'[s] = u
  /\ \A s \in Store : <<u, s>> \in applied' <=> <<u, s>> \in applied
  /\ \A s \in tx[u].logged : /\ s \in list' <=> s \in list
                             /\ file'[s] = file[s] /\ (cache[s] = None => cache'[s] = None)
  /\ tx[u].pc \in {"fill", "upwrite", "upcache", "undocache"} => file'[tx[u].store] = file[tx[u].store]

\* What holds of a transaction is not disturbed by such a step.
LEMMA BesideKeeps ==
  ASSUME Types, NEW u \in Tx, Mine(u), Beside(u)
  PROVE  Mine(u)'
<1>1. /\ Shape(u) /\ CallShape(u) /\ Holding(u) /\ Owing(u) /\ Creating(u) /\ Undoing(u) /\ Reading(u)
      /\ tx[u] \in Local
  BY DEF Mine, Types
<1>2. Shape(u)' /\ CallShape(u)'
  BY <1>1 DEF Beside, Shape, CallShape
<1>3. Holding(u)'
  <2>1. tx[u].rest \cup tx[u].done \subseteq Store
    BY <1>1 DEF Local
  <2> QED
    BY <1>1, <2>1 DEF Beside, Holding
<1>4. Owing(u)'
  <2>1. tx[u].rest \cup tx[u].done \cup tx[u].opened \subseteq Store
    BY <1>1 DEF Local
  <2> QED
    BY <1>1, <2>1 DEF Beside, Owing
<1>5. tx[u].pc \in Adding \cup Removal => tx[u].store \in tx[u].logged
  BY <1>1 DEF Shape
<1>6. /\ \A s \in tx[u].logged : Absent(s) => Absent(s)'
      /\ \A s \in tx[u].logged : file'[s] = file[s] /\ (s \in list' <=> s \in list) /\ (cache[s] = None => cache'[s] = None)
  BY DEF Beside, Absent
<1>7. Creating(u)'
  <2>1. tx[u].created \subseteq tx[u].logged
    BY <1>1 DEF Shape
  <2>2. tx[u].pc = "addlist" => list' = list
    BY <1>1 DEF Beside, Holding, Adding
  <2> QED
    BY <1>1, <1>5, <1>6, <2>1, <2>2 DEF Beside, Creating, Adding
<1>8. Undoing(u)'
  <2>1. tx[u].pc \in {"rmcache", "rmfile", "rmlist"} => list' = list
    BY <1>1 DEF Beside, Holding, Removal
  <2> QED
    BY <1>1, <1>5, <1>6, <2>1 DEF Beside, Undoing, Removal
<1>9. Reading(u)'
  BY <1>1 DEF Beside, Reading
<1> QED
  BY <1>2, <1>3, <1>4, <1>7, <1>8, <1>9 DEF Mine

\* A step that does this to the others keeps the invariant if it keeps what is said of itself
\* and of the files.
LEMMA Besides ==
  ASSUME StoresInv, NEW t \in Tx, Types', Listed', Copies', Counts',
         Shape(t)', CallShape(t)', Holding(t)', Owing(t)', Creating(t)', Undoing(t)', Reading(t)',
         \A u \in Tx \ {t} : Beside(u)
  PROVE  StoresInv'
<1>1. Mine(t)'
  BY DEF Mine
<1>2. \A u \in Tx \ {t} : Mine(u)'
  BY BesideKeeps DEF StoresInv
<1> QED
  BY <1>1, <1>2 DEF StoresInv

\* A step that does this to everyone keeps the invariant if it keeps what is said of the files.
LEMMA AllBeside ==
  ASSUME StoresInv, Types', Listed', Copies', Counts', \A u \in Tx : Beside(u)
  PROVE  StoresInv'
  BY BesideKeeps DEF StoresInv

\* Two transactions do not create the same store, and none opens a store that another creates.
LEMMA Apart ==
  ASSUME OwnStores, StoresInv, NEW t \in Tx, NEW u \in Tx \ {t}
  PROVE  /\ tx[t].logged \cap tx[u].logged = {} /\ tx[t].opened \cap tx[u].logged = {}
         /\ tx[t].logged \cap tx[u].opened = {} /\ tx[t].logged \cap Existing = {}
         /\ tx[t].todo \cap tx[u].logged = {} /\ tx[u].logged \subseteq Store
         /\ tx[u].pc \in {"fill", "upwrite", "upcache", "undocache"} => tx[u].store \in Store \ tx[t].logged
<1>1. Shape(t) /\ Shape(u) /\ CallShape(u)
  BY DEF StoresInv, Mine
<1>2. \A s \in Store \ Existing : ~ (s \in Uses[t] /\ s \in Uses[u])
  BY DEF OwnStores
<1>3. Uses[t] \subseteq Store /\ Uses[u] \subseteq Store
  BY StoresAssumption
<1>4. /\ tx[t].logged \cap tx[u].logged = {} /\ tx[t].opened \cap tx[u].logged = {}
      /\ tx[t].logged \cap tx[u].opened = {} /\ tx[t].logged \cap Existing = {}
      /\ tx[t].todo \cap tx[u].logged = {} /\ tx[u].logged \subseteq Store /\ tx[u].opened \subseteq Store
  BY <1>1, <1>2, <1>3 DEF Shape
<1>5. tx[u].pc \in {"upwrite", "upcache", "undocache"} => tx[u].store \in tx[u].opened
  BY <1>1 DEF CallShape, Updating, Locked
<1>6. tx[u].pc = "fill" => tx[u].store \in Existing
  BY <1>1 DEF Shape
<1> QED
  BY <1>4, <1>5, <1>6, StoresAssumption

\* A delta changes the count of one transaction.
LEMMA PlusIs ==
  ASSUME NEW info \in Infos, NEW t \in Tx, NEW d \in Int
  PROVE  /\ Plus(info, t, d) \in Infos /\ Plus(info, t, d) # None
         /\ Plus(info, t, d)[t] = info[t] + d
         /\ \A u \in Tx \ {t} : Plus(info, t, d)[u] = info[u]
<1>1. Plus(info, t, d) \in Infos /\ Plus(info, t, d)[t] = info[t] + d
  BY DEF Plus, Infos
<1>2. \A u \in Tx \ {t} : Plus(info, t, d)[u] = info[u]
  BY DEF Plus, Infos
<1> QED
  BY <1>1, <1>2, StoresAssumption DEF Infos

\* The owner of a store's lock reads from the cache what the file has, and the file is there.
LEMMA OwnCopy ==
  ASSUME StoresInv, NEW t \in Tx, tx[t].pc \in Locked \ {"upcache", "undocache"},
         NEW s \in tx[t].rest \cup tx[t].done
  PROVE  s \in Store /\ file[s] \in Infos /\ file[s] # None /\ Info(s) = file[s]
<1>1. Types /\ Listed /\ Copies /\ Shape(t) /\ CallShape(t) /\ Creating(t) /\ Holding(t) /\ tx[t] \in Local
  BY DEF StoresInv, Mine, Types
<1>2. s \in tx[t].opened /\ s \in Existing \cup tx[t].created /\ storeLock[s] = t
  BY <1>1 DEF CallShape, Shape, Holding, Updating
<1>3. s \in Store
  BY <1>1, <1>2 DEF Local
<1>4. file[s] # None
  <2>1. tx[t].pc \notin Removal \cup {"dead", "rolledback"}
    BY DEF Locked, Removal
  <2> QED
    BY <1>1, <1>2, <2>1 DEF Listed, Creating
<1>5. ASSUME NEW u \in Tx, tx[u].pc \in {"upcache", "undocache"} PROVE tx[u].store # s
  <2>1. CallShape(u) /\ Holding(u)
    BY DEF StoresInv, Mine
  <2>2. storeLock[tx[u].store] = u
    BY <1>5, <2>1 DEF CallShape, Holding, Locked
  <2> QED
    BY <1>2, <1>5, <2>2
<1>6. cache[s] \in {None, file[s]}
  BY <1>1, <1>3, <1>5 DEF Copies
<1> QED
  BY <1>1, <1>3, <1>4, <1>6 DEF Info, Types

\* Nobody else has read, and not yet used, the info of a store about to be written.
LEMMA Alone ==
  ASSUME ~ SlowFill, StoresInv, NEW t \in Tx, tx[t].pc \in {"upwrite", "undo"}, Settled(tx[t].store),
         NEW u \in Tx \ {t}, tx[u].pc \in {"fill", "upwrite", "upcache", "undocache"}
  PROVE  tx[u].store \in Store \ {tx[t].store}
<1>1. CallShape(t) /\ Holding(t) /\ Shape(u) /\ CallShape(u) /\ Holding(u) /\ tx[u] \in Local
  BY DEF StoresInv, Mine, Types
<1>2. storeLock[tx[t].store] = t
  BY <1>1 DEF CallShape, Holding, Locked
<1>3. CASE tx[u].pc = "fill"
  BY <1>1, <1>3, StoresAssumption DEF Settled, Shape
<1>4. CASE tx[u].pc # "fill"
  <2>1. storeLock[tx[u].store] = u /\ tx[u].store \in tx[u].rest \cup tx[u].done
    BY <1>1, <1>4 DEF CallShape, Holding, Locked
  <2> QED
    BY <1>1, <1>2, <2>1 DEF Local
<1> QED
  BY <1>3, <1>4

\* What a call of Update leaves: its own variables are reset, and the rest of the transaction's
\* is as it was.
Returned(x, y) ==
  /\ y \in Local /\ y.rest = {} /\ y.done = {} /\ y.dir = x.dir
  /\ y.todo = x.todo /\ y.opened = x.opened /\ y.created = x.created /\ y.logged = x.logged

\* A rollback goes on to remove the stores the transaction created.
Removes(x, y) ==
  \/ x.created = {} /\ y.pc = "rolledback" /\ y.drop = {}
  \/ y.pc = "rmlock" /\ y.store \in x.created /\ y.drop = x.created \ {y.store}

\* The call's own variables are reset, and an error may be noted, before the stores are removed.
LEMMA ResetIs ==
  ASSUME NEW t \in Tx, tx[t] \in Local, NEW e \in BOOLEAN
  PROVE  LET z == [tx[t] EXCEPT !.rest = {}, !.done = {}, !.info = None, !.err = e]
         IN  Returned(tx[t], Removing(z, z.created)) /\ Removes(tx[t], Removing(z, z.created))
<1> DEFINE z == [tx[t] EXCEPT !.rest = {}, !.done = {}, !.info = None, !.err = e]
<1>1. z \in Local
  BY DEF Local
<1>2. /\ z.todo = tx[t].todo /\ z.opened = tx[t].opened /\ z.created = tx[t].created
      /\ z.logged = tx[t].logged /\ z.dir = tx[t].dir /\ z.rest = {} /\ z.done = {}
  BY DEF Local
<1> HIDE DEF z
<1>3. z.created \in SUBSET Store
  BY <1>1 DEF Local
<1>4. RemovingAs(z, z.created, Removing(z, z.created))
  BY <1>1, <1>3, RemovingIs
<1>5. Returned(tx[t], Removing(z, z.created))
  BY <1>2, <1>4 DEF RemovingAs, Returned
<1>6. Removes(tx[t], Removing(z, z.created))
  BY <1>2, <1>4 DEF RemovingAs, Removes
<1> QED
  BY <1>5, <1>6 DEF z

\* A call of Update that fails leads to the removal of the stores created.
LEMMA AfterFailure ==
  ASSUME NEW t \in Tx, tx[t] \in Local
  PROVE  Returned(tx[t], AfterUpdate(t, FALSE)) /\ Removes(tx[t], AfterUpdate(t, FALSE))
<1> DEFINE x == [tx[t] EXCEPT !.rest = {}, !.done = {}, !.info = None]
           e == tx[t].err \/ tx[t].dir = -1
           z == [tx[t] EXCEPT !.rest = {}, !.done = {}, !.info = None, !.err = e]
<1>1. x.err = tx[t].err /\ x.dir = tx[t].dir /\ x.created = z.created /\ e \in BOOLEAN
  BY DEF Local
<1>2. [x EXCEPT !.err = @ \/ (x.dir = -1 /\ ~ FALSE)] = z
  BY <1>1 DEF Local
<1>3. AfterUpdate(t, FALSE) = Removing(z, z.created)
  BY <1>1, <1>2 DEF AfterUpdate
<1> QED
  BY <1>1, <1>3, ResetIs

\* A call that succeeds has applied the deltas, or has taken them back in a rollback.
LEMMA AfterSuccess ==
  ASSUME NEW t \in Tx, tx[t] \in Local
  PROVE  /\ Returned(tx[t], AfterUpdate(t, TRUE))
         /\ \/ tx[t].dir = 1 /\ AfterUpdate(t, TRUE).pc = "applied" /\ AfterUpdate(t, TRUE).drop = tx[t].drop
            \/ tx[t].dir # 1 /\ Removes(tx[t], AfterUpdate(t, TRUE))
<1> DEFINE x == [tx[t] EXCEPT !.rest = {}, !.done = {}, !.info = None]
           e == tx[t].err
           z == [tx[t] EXCEPT !.rest = {}, !.done = {}, !.info = None, !.err = e]
<1>1. x.err = tx[t].err /\ x.dir = tx[t].dir /\ x.created = z.created /\ e \in BOOLEAN
  BY DEF Local
<1>2. CASE tx[t].dir = 1
  <2>1. AfterUpdate(t, TRUE) = [x EXCEPT !.pc = "applied", !.store = None]
    BY <1>1, <1>2 DEF AfterUpdate
  <2>2. "applied" \in Points
    BY DEF Points
  <2>3. x \in Local /\ [x EXCEPT !.pc = "applied", !.store = None] \in Local
    BY <2>2 DEF Local
  <2>4. Returned(tx[t], AfterUpdate(t, TRUE))
    BY <2>1, <2>3 DEF Returned, Local
  <2>5. AfterUpdate(t, TRUE).pc = "applied" /\ AfterUpdate(t, TRUE).drop = tx[t].drop
    BY <2>1 DEF Local
  <2> QED
    BY <1>2, <2>4, <2>5
<1>3. CASE tx[t].dir # 1
  <2>1. [x EXCEPT !.err = @ \/ (x.dir = -1 /\ ~ TRUE)] = z
    BY <1>1 DEF Local
  <2>2. AfterUpdate(t, TRUE) = Removing(z, z.created)
    BY <1>1, <1>3, <2>1 DEF AfterUpdate
  <2> QED
    BY <1>1, <1>3, <2>2, ResetIs
<1> QED
  BY <1>2, <1>3

-----------------------------------------------------------------------------
(* The steps of a transaction. *)

\* A removal takes the lock of the list.
LEMMA RemoveLockStep ==
  ASSUME ~ SlowFill, OwnStores, StoresInv, NEW t \in Tx,
         RemoveLock(t)
  PROVE  StoresInv'
<1> DEFINE x == tx[t]
           y == [x EXCEPT !.pc = "rmread"]
<1>1. /\ Types /\ Listed /\ Copies /\ Counts /\ x \in Local /\ Shape(t) /\ CallShape(t)
      /\ Holding(t) /\ Owing(t) /\ Creating(t) /\ Undoing(t) /\ Reading(t)
  BY DEF StoresInv, Mine, Types
<1>2. x.pc = "rmlock"
  BY DEF RemoveLock
<1>3. y \in Local
  BY <1>1, <1>2 DEF Local, Points, Adding, Removal, Updating, Locked
<1>4. /\ y.pc = "rmread" /\ y.todo = x.todo /\ y.opened = x.opened /\ y.created = x.created
      /\ y.logged = x.logged /\ y.store = x.store /\ y.info = x.info /\ y.buf = x.buf
      /\ y.drop = x.drop /\ y.dir = x.dir /\ y.rest = x.rest /\ y.done = x.done
      /\ y.gone = x.gone /\ y.err = x.err
  BY <1>1, <1>2 DEF Local
<1>5. Go(t, y) /\ listLock = Free /\ listLock' = t
      /\ UNCHANGED <<list, file, cache, storeLock, applied, spoiled, failures>>
  BY <1>2 DEF RemoveLock, disk, locks, history
<1> HIDE DEF y
<1>6. tx' \in [Tx -> Local] /\ tx'[t] = y /\ \A u \in Tx \ {t} : tx'[u] = tx[u]
  BY <1>1, <1>3, <1>5 DEF Go, Types
<1>7. Types'
  BY <1>1, <1>5, <1>6 DEF Types
<1>8. Shape(t)' /\ CallShape(t)' /\ Holding(t)' /\ Owing(t)'
  BY <1>1, <1>2, <1>4, <1>5, <1>6 DEF Shape, Adding, Removal, CallShape, Updating, Locked,
    Holding, Owing
<1>9. Creating(t)' /\ Undoing(t)' /\ Reading(t)' /\ Listed'
  BY <1>1, <1>2, <1>4, <1>5, <1>6 DEF Creating, Absent, Removal, Undoing, Reading, Listed
<1>10. (\A u \in Tx \ {t} : Beside(u)) /\ Copies'
  BY <1>1, <1>2, <1>4, <1>5, <1>6, StoresAssumption DEF Beside, Copies
<1>11. Counts'
  <2>1. \A u \in Tx : Written(u)' = Written(u) /\ tx'[u].dir = tx[u].dir
    BY <1>2, <1>4, <1>6 DEF Written
  <2> QED
    BY <1>1, <1>5, <2>1 DEF Counts, Due
<1> QED
  BY <1>7, <1>8, <1>9, <1>10, <1>11, Besides

\* It reads the list.
LEMMA RemoveReadStep ==
  ASSUME ~ SlowFill, OwnStores, StoresInv, NEW t \in Tx,
         RemoveRead(t)
  PROVE  StoresInv'
<1> DEFINE x == tx[t]
           y == [x EXCEPT !.pc = "rmcache", !.buf = list \ {x.store}]
<1>1. /\ Types /\ Listed /\ Copies /\ Counts /\ x \in Local /\ Shape(t) /\ CallShape(t)
      /\ Holding(t) /\ Owing(t) /\ Creating(t) /\ Undoing(t) /\ Reading(t)
  BY DEF StoresInv, Mine, Types
<1>2. x.pc = "rmread"
  BY DEF RemoveRead
<1>3. y \in Local
  BY <1>1, <1>2 DEF Local, Points, Removal, Types
<1>4. /\ y.pc = "rmcache" /\ y.buf = list \ {x.store} /\ y.todo = x.todo
      /\ y.opened = x.opened /\ y.created = x.created /\ y.logged = x.logged
      /\ y.store = x.store /\ y.info = x.info /\ y.drop = x.drop /\ y.dir = x.dir
      /\ y.rest = x.rest /\ y.done = x.done /\ y.gone = x.gone /\ y.err = x.err
  BY <1>1, <1>2 DEF Local
<1>5. Go(t, y) /\ UNCHANGED <<list, file, cache, listLock, storeLock, applied, spoiled, failures>>
  BY <1>2 DEF RemoveRead, disk, locks, history
<1> HIDE DEF y
<1>6. tx' \in [Tx -> Local] /\ tx'[t] = y /\ \A u \in Tx \ {t} : tx'[u] = tx[u]
  BY <1>1, <1>3, <1>5 DEF Go, Types
<1>7. Types'
  BY <1>1, <1>5, <1>6 DEF Types
<1>8. Shape(t)' /\ CallShape(t)' /\ Holding(t)' /\ Owing(t)'
  BY <1>1, <1>2, <1>4, <1>5, <1>6 DEF Shape, Adding, Removal, CallShape, Updating, Locked,
    Holding, Owing
<1>9. Creating(t)' /\ Undoing(t)' /\ Reading(t)' /\ Listed'
  BY <1>1, <1>2, <1>4, <1>5, <1>6 DEF Creating, Absent, Removal, Undoing, Reading, Listed
<1>10. (\A u \in Tx \ {t} : Beside(u)) /\ Copies'
  BY <1>1, <1>2, <1>4, <1>5, <1>6, StoresAssumption DEF Beside, Copies
<1>11. Counts'
  <2>1. \A u \in Tx : Written(u)' = Written(u) /\ tx'[u].dir = tx[u].dir
    BY <1>2, <1>4, <1>6 DEF Written
  <2> QED
    BY <1>1, <1>5, <2>1 DEF Counts, Due
<1> QED
  BY <1>7, <1>8, <1>9, <1>10, <1>11, Besides

\* It drops the cached copy.
LEMMA RemoveCacheStep ==
  ASSUME ~ SlowFill, OwnStores, StoresInv, NEW t \in Tx,
         RemoveCache(t)
  PROVE  StoresInv'
<1> DEFINE x == tx[t]
           y == [x EXCEPT !.pc = "rmfile"]
<1>1. /\ Types /\ Listed /\ Copies /\ Counts /\ x \in Local /\ Shape(t) /\ CallShape(t)
      /\ Holding(t) /\ Owing(t) /\ Creating(t) /\ Undoing(t) /\ Reading(t)
  BY DEF StoresInv, Mine, Types
<1>2. x.pc = "rmcache"
  BY DEF RemoveCache
<1>3. y \in Local
  BY <1>1, <1>2 DEF Local, Points, Adding, Removal, Updating, Locked
<1>4. /\ y.pc = "rmfile" /\ y.todo = x.todo /\ y.opened = x.opened /\ y.created = x.created
      /\ y.logged = x.logged /\ y.store = x.store /\ y.info = x.info /\ y.buf = x.buf
      /\ y.drop = x.drop /\ y.dir = x.dir /\ y.rest = x.rest /\ y.done = x.done
      /\ y.gone = x.gone /\ y.err = x.err
  BY <1>1, <1>2 DEF Local
<1>5. Go(t, y) /\ cache' = [cache EXCEPT ![x.store] = None]
      /\ UNCHANGED <<list, file, listLock, storeLock, applied, spoiled, failures>>
  BY <1>2 DEF RemoveCache, disk, locks, history
<1> HIDE DEF y
<1>6. tx' \in [Tx -> Local] /\ tx'[t] = y /\ \A u \in Tx \ {t} : tx'[u] = tx[u]
  BY <1>1, <1>3, <1>5 DEF Go, Types
<1>7. /\ listLock = t /\ x.store \in Store /\ x.store \in x.logged /\ x.store \notin Existing
      /\ \A u \in Tx \ {t} : /\ x.store \notin tx[u].logged /\ tx[u].logged \subseteq Store
                             /\ tx[u].pc \in {"fill", "upwrite", "upcache", "undocache"} => tx[u].store \in Store \ {x.store}
      /\ cache'[x.store] = None /\ \A r \in Store \ {x.store} : cache'[r] = cache[r]
  <2>1. listLock = t /\ x.store \in x.logged /\ x.store \notin Existing
    BY <1>1, <1>2 DEF Shape, Holding, Adding, Removal
  <2>2. x.store \in Store
    BY <1>1, <2>1 DEF Local
  <2> QED
    BY <1>1, <1>5, <2>1, <2>2, Apart DEF Types
<1>8. Types'
  BY <1>1, <1>5, <1>6 DEF Types
<1>9. Shape(t)' /\ CallShape(t)' /\ Holding(t)' /\ Owing(t)'
  BY <1>1, <1>2, <1>4, <1>5, <1>6, <1>7 DEF Shape, Adding, Removal, CallShape, Updating,
    Locked, Holding, Owing
<1>10. Creating(t)' /\ Undoing(t)' /\ Reading(t)' /\ Listed'
  BY <1>1, <1>2, <1>4, <1>5, <1>6, <1>7 DEF Creating, Absent, Removal, Undoing, Reading,
    Listed
<1>11. \A u \in Tx \ {t} : Beside(u)
  <2> SUFFICES ASSUME NEW u \in Tx \ {t} PROVE Beside(u)
    OBVIOUS
  <2>1. x.store \notin tx[u].logged /\ tx[u].logged \subseteq Store
    BY <1>7
  <2>2. ASSUME NEW s \in tx[u].logged
        PROVE  (s \in list' <=> s \in list) /\ file'[s] = file[s] /\ cache'[s] = cache[s]
    <3>1. s \in Store \ {x.store}
      BY <2>1
    <3> QED
      BY <1>5, <1>7, <3>1
  <2>3. \A s \in Store : <<u, s>> \in applied' <=> <<u, s>> \in applied
    BY <1>5
  <2> QED
    BY <1>5, <1>6, <1>7, <2>1, <2>2, <2>3, StoresAssumption DEF Beside
<1>12. Copies'
  BY <1>1, <1>2, <1>4, <1>5, <1>6, <1>7 DEF Copies
<1>13. Counts'
  <2>1. \A u \in Tx : Written(u)' = Written(u) /\ tx'[u].dir = tx[u].dir
    BY <1>2, <1>4, <1>6 DEF Written
  <2> QED
    BY <1>1, <1>5, <2>1 DEF Counts, Due
<1> QED
  BY <1>8, <1>9, <1>10, <1>11, <1>12, <1>13, Besides

\* It removes the file, and with it the deltas the store owed.
LEMMA FileRemovedStep ==
  ASSUME ~ SlowFill, OwnStores, StoresInv, NEW t \in Tx,
         tx[t].pc = "rmfile", Go(t, [tx[t] EXCEPT !.pc = "rmlist"]),
         file' = [file EXCEPT ![tx[t].store] = None],
         applied' = {a \in applied : a[2] # tx[t].store},
         UNCHANGED <<list, cache, locks, spoiled, failures>>
  PROVE  StoresInv'
<1> DEFINE x == tx[t]
           y == [x EXCEPT !.pc = "rmlist"]
<1>1. /\ Types /\ Listed /\ Copies /\ Counts /\ x \in Local /\ Shape(t) /\ CallShape(t)
      /\ Holding(t) /\ Owing(t) /\ Creating(t) /\ Undoing(t) /\ Reading(t)
  BY DEF StoresInv, Mine, Types
<1>2. x.pc = "rmfile"
  OBVIOUS
<1>3. y \in Local
  BY <1>1, <1>2 DEF Local, Points, Adding, Removal, Updating, Locked
<1>4. /\ y.pc = "rmlist" /\ y.todo = x.todo /\ y.opened = x.opened /\ y.created = x.created
      /\ y.logged = x.logged /\ y.store = x.store /\ y.info = x.info /\ y.buf = x.buf
      /\ y.drop = x.drop /\ y.dir = x.dir /\ y.rest = x.rest /\ y.done = x.done
      /\ y.gone = x.gone /\ y.err = x.err
  BY <1>1, <1>2 DEF Local
<1>5. Go(t, y) /\ file' = [file EXCEPT ![x.store] = None]
      /\ applied' = {a \in applied : a[2] # x.store}
      /\ UNCHANGED <<list, cache, listLock, storeLock, spoiled, failures>>
  BY <1>2 DEF disk, locks, history
<1> HIDE DEF y
<1>6. tx' \in [Tx -> Local] /\ tx'[t] = y /\ \A u \in Tx \ {t} : tx'[u] = tx[u]
  BY <1>1, <1>3, <1>5 DEF Go, Types
<1>7. /\ listLock = t /\ x.store \in Store /\ x.store \in x.logged /\ x.store \notin Existing
      /\ \A u \in Tx \ {t} : /\ x.store \notin tx[u].logged /\ tx[u].logged \subseteq Store
                             /\ tx[u].pc \in {"fill", "upwrite", "upcache", "undocache"} => tx[u].store \in Store \ {x.store}
      /\ file'[x.store] = None /\ \A r \in Store \ {x.store} : file'[r] = file[r]
  <2>1. listLock = t /\ x.store \in x.logged /\ x.store \notin Existing
    BY <1>1, <1>2 DEF Shape, Holding, Adding, Removal
  <2>2. x.store \in Store
    BY <1>1, <2>1 DEF Local
  <2> QED
    BY <1>1, <1>5, <2>1, <2>2, Apart DEF Types
<1>8. Types'
  BY <1>1, <1>5, <1>6 DEF Types
<1>9. Shape(t)' /\ CallShape(t)' /\ Holding(t)' /\ Owing(t)'
  BY <1>1, <1>2, <1>4, <1>5, <1>6, <1>7 DEF Shape, Adding, Removal, CallShape, Updating,
    Locked, Holding, Owing
<1>10. Creating(t)' /\ Undoing(t)' /\ Reading(t)' /\ Listed'
  BY <1>1, <1>2, <1>4, <1>5, <1>6, <1>7 DEF Creating, Absent, Removal, Undoing, Reading,
    Listed
<1>11. \A u \in Tx \ {t} : Beside(u)
  <2> SUFFICES ASSUME NEW u \in Tx \ {t} PROVE Beside(u)
    OBVIOUS
  <2>1. x.store \notin tx[u].logged /\ tx[u].logged \subseteq Store
    BY <1>7
  <2>2. ASSUME NEW s \in tx[u].logged
        PROVE  (s \in list' <=> s \in list) /\ file'[s] = file[s] /\ cache'[s] = cache[s]
    <3>1. s \in Store \ {x.store}
      BY <2>1
    <3> QED
      BY <1>5, <1>7, <3>1
  <2>3. \A s \in Store : <<u, s>> \in applied' <=> <<u, s>> \in applied
    BY <1>5, <1>7, Apart DEF StoresInv, Mine, Owing
  <2> QED
    BY <1>5, <1>6, <1>7, <2>1, <2>2, <2>3, StoresAssumption DEF Beside
<1>12. Copies'
  <2> SUFFICES ASSUME NEW s \in Store, cache'[s] \notin {None, file'[s]}
               PROVE  \E u \in Tx : tx'[u].pc \in {"upcache", "undocache"} /\ tx'[u].store = s
    BY DEF Copies
  <2>1. cache[s] \notin {None, file[s]}
    BY <1>1, <1>2, <1>4, <1>5, <1>7 DEF Reading, Creating, Undoing
  <2>2. PICK u \in Tx : tx[u].pc \in {"upcache", "undocache"} /\ tx[u].store = s
    BY <1>1, <2>1 DEF Copies
  <2> QED
    BY <1>2, <1>6, <2>2
<1>13. Counts'
  <2>1. \A u \in Tx : Written(u)' = Written(u) /\ tx'[u].dir = tx[u].dir
    BY <1>2, <1>4, <1>6 DEF Written
  <2>2. \A s \in Store \ {x.store} : \A u \in Tx : <<u, s>> \in applied' <=> <<u, s>> \in applied
    BY <1>5
  <2> QED
    BY <1>1, <1>5, <1>7, <2>1, <2>2 DEF Counts, Due
<1> QED
  BY <1>8, <1>9, <1>10, <1>11, <1>12, <1>13, Besides

\* The removal of the file fails.
LEMMA FileKeptStep ==
  ASSUME ~ SlowFill, OwnStores, StoresInv, NEW t \in Tx,
         tx[t].pc = "rmfile", Go(t, [tx[t] EXCEPT !.pc = "rmlist", !.err = TRUE]),
         failures' = failures + 1, UNCHANGED <<disk, cache, locks, applied, spoiled>>
  PROVE  StoresInv'
<1> DEFINE x == tx[t]
           y == [x EXCEPT !.pc = "rmlist", !.err = TRUE]
<1>1. /\ Types /\ Listed /\ Copies /\ Counts /\ x \in Local /\ Shape(t) /\ CallShape(t)
      /\ Holding(t) /\ Owing(t) /\ Creating(t) /\ Undoing(t) /\ Reading(t)
  BY DEF StoresInv, Mine, Types
<1>2. x.pc = "rmfile"
  OBVIOUS
<1>3. y \in Local
  BY <1>1, <1>2 DEF Local, Points, Adding, Removal, Updating, Locked
<1>4. /\ y.pc = "rmlist" /\ y.err = TRUE /\ y.todo = x.todo /\ y.opened = x.opened
      /\ y.created = x.created /\ y.logged = x.logged /\ y.store = x.store
      /\ y.info = x.info /\ y.buf = x.buf /\ y.drop = x.drop /\ y.dir = x.dir
      /\ y.rest = x.rest /\ y.done = x.done /\ y.gone = x.gone
  BY <1>1, <1>2 DEF Local
<1>5. Go(t, y) /\ failures' = failures + 1
      /\ UNCHANGED <<list, file, cache, listLock, storeLock, applied, spoiled>>
  BY <1>2 DEF disk, locks, history
<1> HIDE DEF y
<1>6. tx' \in [Tx -> Local] /\ tx'[t] = y /\ \A u \in Tx \ {t} : tx'[u] = tx[u]
  BY <1>1, <1>3, <1>5 DEF Go, Types
<1>7. Types'
  BY <1>1, <1>5, <1>6 DEF Types
<1>8. Shape(t)' /\ CallShape(t)' /\ Holding(t)' /\ Owing(t)'
  BY <1>1, <1>2, <1>4, <1>5, <1>6 DEF Shape, Adding, Removal, CallShape, Updating, Locked,
    Holding, Owing
<1>9. Creating(t)' /\ Undoing(t)' /\ Reading(t)' /\ Listed'
  BY <1>1, <1>2, <1>4, <1>5, <1>6 DEF Creating, Absent, Removal, Undoing, Reading, Listed
<1>10. (\A u \in Tx \ {t} : Beside(u)) /\ Copies'
  BY <1>1, <1>2, <1>4, <1>5, <1>6, StoresAssumption DEF Beside, Copies
<1>11. Counts'
  <2>1. \A u \in Tx : Written(u)' = Written(u) /\ tx'[u].dir = tx[u].dir
    BY <1>2, <1>4, <1>6 DEF Written
  <2> QED
    BY <1>1, <1>5, <2>1 DEF Counts, Due
<1> QED
  BY <1>7, <1>8, <1>9, <1>10, <1>11, Besides

\* It writes the list, and goes on to the next store.
LEMMA ListWrittenStep ==
  ASSUME ~ SlowFill, OwnStores, StoresInv, NEW t \in Tx,
         tx[t].pc = "rmlist", Go(t, Removing(tx[t], tx[t].drop)), list' = tx[t].buf,
         listLock' = Free, UNCHANGED <<file, cache, storeLock, history>>
  PROVE  StoresInv'
<1> DEFINE x == tx[t]
           y == Removing(x, x.drop)
<1>1. /\ Types /\ Listed /\ Copies /\ Counts /\ x \in Local /\ Shape(t) /\ CallShape(t)
      /\ Holding(t) /\ Owing(t) /\ Creating(t) /\ Undoing(t) /\ Reading(t)
  BY DEF StoresInv, Mine, Types
<1>2. x.pc = "rmlist"
  OBVIOUS
<1>3. y \in Local
  <2>1. RemovingAs(x, x.drop, y)
    BY <1>1, RemovingIs DEF Local
  <2> QED
    BY <2>1 DEF RemovingAs
<1>4. 
      /\ (\/ x.drop = {} /\ y.pc = "rolledback" /\ y.drop = {}
          \/ y.pc = "rmlock" /\ y.store \in x.drop /\ y.drop = x.drop \ {y.store})
      /\ y.todo = x.todo /\ y.opened = x.opened /\ y.created = x.created
      /\ y.logged = x.logged /\ y.dir = x.dir /\ y.rest = x.rest /\ y.done = x.done
      /\ y.err = x.err
  <2>1. RemovingAs(x, x.drop, y)
    BY <1>1, RemovingIs DEF Local
  <2> QED
    BY <2>1 DEF RemovingAs
<1>5. Go(t, y) /\ list' = x.buf /\ listLock' = Free
      /\ UNCHANGED <<file, cache, storeLock, applied, spoiled, failures>>
  BY <1>2 DEF disk, locks, history
<1> HIDE DEF y
<1>6. tx' \in [Tx -> Local] /\ tx'[t] = y /\ \A u \in Tx \ {t} : tx'[u] = tx[u]
  BY <1>1, <1>3, <1>5 DEF Go, Types
<1>7. /\ listLock = t /\ x.store \in Store /\ x.store \in x.logged /\ x.store \notin Existing
      /\ \A u \in Tx \ {t} : /\ x.store \notin tx[u].logged /\ tx[u].logged \subseteq Store
                             /\ tx[u].pc \in {"fill", "upwrite", "upcache", "undocache"} => tx[u].store \in Store \ {x.store}
      /\ x.buf = list \ {x.store} /\ x.buf \subseteq Store /\ cache[x.store] = None
  <2>1. listLock = t /\ x.store \in x.logged /\ x.store \notin Existing
    BY <1>1, <1>2 DEF Shape, Holding, Adding, Removal
  <2>2. x.store \in Store
    BY <1>1, <2>1 DEF Local
  <2> QED
    BY <1>1, <1>5, <2>1, <2>2, Apart DEF Types, Undoing
<1>8. Types'
  BY <1>1, <1>5, <1>6, <1>7 DEF Types
<1>9. Shape(t)' /\ CallShape(t)' /\ Holding(t)' /\ Owing(t)'
  BY <1>1, <1>2, <1>4, <1>5, <1>6, <1>7 DEF Shape, Adding, Removal, CallShape, Updating,
    Locked, Holding, Owing
<1>10. Creating(t)' /\ Undoing(t)' /\ Reading(t)' /\ Listed'
  BY <1>1, <1>2, <1>4, <1>5, <1>6, <1>7 DEF Creating, Absent, Removal, Undoing, Reading,
    Listed
<1>11. \A u \in Tx \ {t} : Beside(u)
  <2> SUFFICES ASSUME NEW u \in Tx \ {t} PROVE Beside(u)
    OBVIOUS
  <2>1. x.store \notin tx[u].logged /\ tx[u].logged \subseteq Store
    BY <1>7
  <2>2. ASSUME NEW s \in tx[u].logged
        PROVE  (s \in list' <=> s \in list) /\ file'[s] = file[s] /\ cache'[s] = cache[s]
    <3>1. s \in Store \ {x.store}
      BY <2>1
    <3> QED
      BY <1>5, <1>7, <3>1
  <2>3. \A s \in Store : <<u, s>> \in applied' <=> <<u, s>> \in applied
    BY <1>5
  <2> QED
    BY <1>5, <1>6, <1>7, <2>1, <2>2, <2>3, StoresAssumption DEF Beside
<1>12. Copies'
  BY <1>1, <1>2, <1>4, <1>5, <1>6, <1>7 DEF Copies
<1>13. Counts'
  <2>1. \A u \in Tx : Written(u)' = Written(u) /\ tx'[u].dir = tx[u].dir
    BY <1>2, <1>4, <1>6 DEF Written
  <2> QED
    BY <1>1, <1>5, <2>1 DEF Counts, Due
<1> QED
  BY <1>8, <1>9, <1>10, <1>11, <1>12, <1>13, Besides

\* The write of the list fails, and it goes on to the next store.
LEMMA ListKeptStep ==
  ASSUME ~ SlowFill, OwnStores, StoresInv, NEW t \in Tx,
         tx[t].pc = "rmlist", Go(t, Removing([tx[t] EXCEPT !.err = TRUE], tx[t].drop)),
         listLock' = Free, failures' = failures + 1,
         UNCHANGED <<disk, cache, storeLock, applied, spoiled>>
  PROVE  StoresInv'
<1> DEFINE x == tx[t]
           y == Removing([x EXCEPT !.err = TRUE], x.drop)
<1>1. /\ Types /\ Listed /\ Copies /\ Counts /\ x \in Local /\ Shape(t) /\ CallShape(t)
      /\ Holding(t) /\ Owing(t) /\ Creating(t) /\ Undoing(t) /\ Reading(t)
  BY DEF StoresInv, Mine, Types
<1>2. x.pc = "rmlist"
  OBVIOUS
<1>3. y \in Local
  <2>1. [x EXCEPT !.err = TRUE] \in Local /\ x.drop \in SUBSET Store
    BY <1>1 DEF Local
  <2> QED
    BY <2>1, RemovingIs DEF RemovingAs
<1>4. 
      /\ (\/ x.drop = {} /\ y.pc = "rolledback" /\ y.drop = {}
          \/ y.pc = "rmlock" /\ y.store \in x.drop /\ y.drop = x.drop \ {y.store})
      /\ y.err = TRUE /\ y.todo = x.todo /\ y.opened = x.opened /\ y.created = x.created
      /\ y.logged = x.logged /\ y.dir = x.dir /\ y.rest = x.rest /\ y.done = x.done
  <2> DEFINE z == [x EXCEPT !.err = TRUE]
  <2>1. /\ z \in Local /\ x.drop \in SUBSET Store /\ z.todo = x.todo /\ z.opened = x.opened /\ z.created = x.created /\ z.logged = x.logged
        /\ z.dir = x.dir /\ z.rest = x.rest /\ z.done = x.done /\ z.err = TRUE
    BY <1>1 DEF Local
  <2> HIDE DEF z
  <2>2. RemovingAs(z, x.drop, Removing(z, x.drop))
    BY <2>1, RemovingIs
  <2>3. RemovingAs(z, x.drop, y)
    BY <2>2 DEF z
  <2> HIDE DEF y
  <2> QED
    BY <2>1, <2>3 DEF RemovingAs
<1>5. Go(t, y) /\ listLock' = Free /\ failures' = failures + 1
      /\ UNCHANGED <<list, file, cache, storeLock, applied, spoiled>>
  BY <1>2 DEF disk, locks, history
<1> HIDE DEF y
<1>6. tx' \in [Tx -> Local] /\ tx'[t] = y /\ \A u \in Tx \ {t} : tx'[u] = tx[u]
  BY <1>1, <1>3, <1>5 DEF Go, Types
<1>7. /\ listLock = t /\ x.store \in Store /\ x.store \in x.logged /\ x.store \notin Existing
      /\ \A u \in Tx \ {t} : /\ x.store \notin tx[u].logged /\ tx[u].logged \subseteq Store
                             /\ tx[u].pc \in {"fill", "upwrite", "upcache", "undocache"} => tx[u].store \in Store \ {x.store}
  <2>1. listLock = t /\ x.store \in x.logged /\ x.store \notin Existing
    BY <1>1, <1>2 DEF Shape, Holding, Adding, Removal
  <2>2. x.store \in Store
    BY <1>1, <2>1 DEF Local
  <2> QED
    BY <1>1, <1>5, <2>1, <2>2, Apart DEF Types
<1>8. Types'
  BY <1>1, <1>5, <1>6 DEF Types
<1>9. Shape(t)' /\ CallShape(t)' /\ Holding(t)' /\ Owing(t)'
  BY <1>1, <1>2, <1>4, <1>5, <1>6, <1>7 DEF Shape, Adding, Removal, CallShape, Updating,
    Locked, Holding, Owing
<1>10. Creating(t)' /\ Undoing(t)' /\ Reading(t)' /\ Listed'
  BY <1>1, <1>2, <1>4, <1>5, <1>6, <1>7 DEF Creating, Absent, Removal, Undoing, Reading,
    Listed
<1>11. \A u \in Tx \ {t} : Beside(u)
  <2> SUFFICES ASSUME NEW u \in Tx \ {t} PROVE Beside(u)
    OBVIOUS
  <2>1. x.store \notin tx[u].logged /\ tx[u].logged \subseteq Store
    BY <1>7
  <2>2. ASSUME NEW s \in tx[u].logged
        PROVE  (s \in list' <=> s \in list) /\ file'[s] = file[s] /\ cache'[s] = cache[s]
    <3>1. s \in Store \ {x.store}
      BY <2>1
    <3> QED
      BY <1>5, <1>7, <3>1
  <2>3. \A s \in Store : <<u, s>> \in applied' <=> <<u, s>> \in applied
    BY <1>5
  <2> QED
    BY <1>5, <1>6, <1>7, <2>1, <2>2, <2>3, StoresAssumption DEF Beside
<1>12. Copies'
  BY <1>1, <1>2, <1>4, <1>5, <1>6, <1>7 DEF Copies
<1>13. Counts'
  <2>1. \A u \in Tx : Written(u)' = Written(u) /\ tx'[u].dir = tx[u].dir
    BY <1>2, <1>4, <1>6 DEF Written
  <2> QED
    BY <1>1, <1>5, <2>1 DEF Counts, Due
<1> QED
  BY <1>8, <1>9, <1>10, <1>11, <1>12, <1>13, Besides

\* A removal does not get the lock of the list.
LEMMA RemovalGivenUpStep ==
  ASSUME ~ SlowFill, OwnStores, StoresInv, NEW t \in Tx,
         tx[t].pc = "rmlock", Go(t, Removing([tx[t] EXCEPT !.err = TRUE], tx[t].drop)),
         UNCHANGED <<disk, cache, locks, history>>
  PROVE  StoresInv'
<1> DEFINE x == tx[t]
           y == Removing([x EXCEPT !.err = TRUE], x.drop)
<1>1. /\ Types /\ Listed /\ Copies /\ Counts /\ x \in Local /\ Shape(t) /\ CallShape(t)
      /\ Holding(t) /\ Owing(t) /\ Creating(t) /\ Undoing(t) /\ Reading(t)
  BY DEF StoresInv, Mine, Types
<1>2. x.pc = "rmlock"
  OBVIOUS
<1>3. y \in Local
  <2>1. [x EXCEPT !.err = TRUE] \in Local /\ x.drop \in SUBSET Store
    BY <1>1 DEF Local
  <2> QED
    BY <2>1, RemovingIs DEF RemovingAs
<1>4. 
      /\ (\/ x.drop = {} /\ y.pc = "rolledback" /\ y.drop = {}
          \/ y.pc = "rmlock" /\ y.store \in x.drop /\ y.drop = x.drop \ {y.store})
      /\ y.err = TRUE /\ y.todo = x.todo /\ y.opened = x.opened /\ y.created = x.created
      /\ y.logged = x.logged /\ y.dir = x.dir /\ y.rest = x.rest /\ y.done = x.done
  <2> DEFINE z == [x EXCEPT !.err = TRUE]
  <2>1. /\ z \in Local /\ x.drop \in SUBSET Store /\ z.todo = x.todo /\ z.opened = x.opened /\ z.created = x.created /\ z.logged = x.logged
        /\ z.dir = x.dir /\ z.rest = x.rest /\ z.done = x.done /\ z.err = TRUE
    BY <1>1 DEF Local
  <2> HIDE DEF z
  <2>2. RemovingAs(z, x.drop, Removing(z, x.drop))
    BY <2>1, RemovingIs
  <2>3. RemovingAs(z, x.drop, y)
    BY <2>2 DEF z
  <2> HIDE DEF y
  <2> QED
    BY <2>1, <2>3 DEF RemovingAs
<1>5. Go(t, y) /\ UNCHANGED <<list, file, cache, listLock, storeLock, applied, spoiled, failures>>
  BY <1>2 DEF disk, locks, history
<1> HIDE DEF y
<1>6. tx' \in [Tx -> Local] /\ tx'[t] = y /\ \A u \in Tx \ {t} : tx'[u] = tx[u]
  BY <1>1, <1>3, <1>5 DEF Go, Types
<1>7. Types'
  BY <1>1, <1>5, <1>6 DEF Types
<1>8. Shape(t)' /\ CallShape(t)' /\ Holding(t)' /\ Owing(t)'
  BY <1>1, <1>2, <1>4, <1>5, <1>6 DEF Shape, Adding, Removal, CallShape, Updating, Locked,
    Holding, Owing
<1>9. Creating(t)' /\ Undoing(t)' /\ Reading(t)' /\ Listed'
  BY <1>1, <1>2, <1>4, <1>5, <1>6 DEF Creating, Absent, Removal, Undoing, Reading, Listed
<1>10. (\A u \in Tx \ {t} : Beside(u)) /\ Copies'
  BY <1>1, <1>2, <1>4, <1>5, <1>6, StoresAssumption DEF Beside, Copies
<1>11. Counts'
  <2>1. \A u \in Tx : Written(u)' = Written(u) /\ tx'[u].dir = tx[u].dir
    BY <1>2, <1>4, <1>6 DEF Written
  <2> QED
    BY <1>1, <1>5, <2>1 DEF Counts, Due
<1> QED
  BY <1>7, <1>8, <1>9, <1>10, <1>11, Besides

\* The caller rolls back.
LEMMA RollbackStep ==
  ASSUME ~ SlowFill, OwnStores, StoresInv, NEW t \in Tx,
         Rollback(t)
  PROVE  StoresInv'
<1> DEFINE x == tx[t]
           y == Removing(x, x.created)
<1>1. /\ Types /\ Listed /\ Copies /\ Counts /\ x \in Local /\ Shape(t) /\ CallShape(t)
      /\ Holding(t) /\ Owing(t) /\ Creating(t) /\ Undoing(t) /\ Reading(t)
  BY DEF StoresInv, Mine, Types
<1>2. x.pc = "idle"
  BY DEF Rollback
<1>3. y \in Local
  <2>1. RemovingAs(x, x.created, y)
    BY <1>1, RemovingIs DEF Local
  <2> QED
    BY <2>1 DEF RemovingAs
<1>4. 
      /\ (\/ x.created = {} /\ y.pc = "rolledback" /\ y.drop = {}
          \/ y.pc = "rmlock" /\ y.store \in x.created /\ y.drop = x.created \ {y.store})
      /\ y.todo = x.todo /\ y.opened = x.opened /\ y.created = x.created
      /\ y.logged = x.logged /\ y.dir = x.dir /\ y.rest = x.rest /\ y.done = x.done
      /\ y.err = x.err
  <2>1. RemovingAs(x, x.created, y)
    BY <1>1, RemovingIs DEF Local
  <2> QED
    BY <2>1 DEF RemovingAs
<1>5. Go(t, y) /\ UNCHANGED <<list, file, cache, listLock, storeLock, applied, spoiled, failures>>
  BY <1>2 DEF Rollback, disk, locks, history
<1> HIDE DEF y
<1>6. tx' \in [Tx -> Local] /\ tx'[t] = y /\ \A u \in Tx \ {t} : tx'[u] = tx[u]
  BY <1>1, <1>3, <1>5 DEF Go, Types
<1>7. Types'
  BY <1>1, <1>5, <1>6 DEF Types
<1>8. Shape(t)' /\ CallShape(t)' /\ Holding(t)' /\ Owing(t)'
  BY <1>1, <1>2, <1>4, <1>5, <1>6 DEF Shape, Adding, Removal, CallShape, Updating, Locked,
    Holding, Owing
<1>9. Creating(t)' /\ Reading(t)' /\ Listed'
  BY <1>1, <1>2, <1>4, <1>5, <1>6 DEF Creating, Absent, Removal, Reading, Listed
<1>10. Undoing(t)'
  BY <1>1, <1>2, <1>4, <1>5, <1>6 DEF Undoing, Absent, Removal, Shape, Adding
<1>11. (\A u \in Tx \ {t} : Beside(u)) /\ Copies'
  BY <1>1, <1>2, <1>4, <1>5, <1>6, StoresAssumption DEF Beside, Copies
<1>12. Counts'
  <2>1. \A u \in Tx : Written(u)' = Written(u) /\ tx'[u].dir = tx[u].dir
    BY <1>2, <1>4, <1>6 DEF Written
  <2> QED
    BY <1>1, <1>5, <2>1 DEF Counts, Due
<1> QED
  BY <1>7, <1>8, <1>9, <1>10, <1>11, <1>12, Besides

\* Another process removes what a dead one has logged.
LEMMA RecoverStep ==
  ASSUME ~ SlowFill, OwnStores, StoresInv, NEW t \in Tx,
         Recover(t)
  PROVE  StoresInv'
<1> DEFINE x == tx[t]
           y == Removing(x, x.logged)
<1>1. /\ Types /\ Listed /\ Copies /\ Counts /\ x \in Local /\ Shape(t) /\ CallShape(t)
      /\ Holding(t) /\ Owing(t) /\ Creating(t) /\ Undoing(t) /\ Reading(t)
  BY DEF StoresInv, Mine, Types
<1>2. x.pc = "dead"
  BY DEF Recover
<1>3. y \in Local
  <2>1. RemovingAs(x, x.logged, y)
    BY <1>1, RemovingIs DEF Local
  <2> QED
    BY <2>1 DEF RemovingAs
<1>4. 
      /\ (\/ x.logged = {} /\ y.pc = "rolledback" /\ y.drop = {}
          \/ y.pc = "rmlock" /\ y.store \in x.logged /\ y.drop = x.logged \ {y.store})
      /\ y.todo = x.todo /\ y.opened = x.opened /\ y.created = x.created
      /\ y.logged = x.logged /\ y.dir = x.dir /\ y.rest = x.rest /\ y.done = x.done
      /\ y.err = x.err
  <2>1. RemovingAs(x, x.logged, y)
    BY <1>1, RemovingIs DEF Local
  <2> QED
    BY <2>1 DEF RemovingAs
<1>5. Go(t, y) /\ UNCHANGED <<list, file, cache, listLock, storeLock, applied, spoiled, failures>>
  BY <1>2 DEF Recover, disk, locks, history
<1> HIDE DEF y
<1>6. tx' \in [Tx -> Local] /\ tx'[t] = y /\ \A u \in Tx \ {t} : tx'[u] = tx[u]
  BY <1>1, <1>3, <1>5 DEF Go, Types
<1>7. Types'
  BY <1>1, <1>5, <1>6 DEF Types
<1>8. Shape(t)' /\ CallShape(t)' /\ Holding(t)' /\ Owing(t)'
  BY <1>1, <1>2, <1>4, <1>5, <1>6 DEF Shape, Adding, Removal, CallShape, Updating, Locked,
    Holding, Owing
<1>9. Creating(t)' /\ Undoing(t)' /\ Reading(t)' /\ Listed'
  BY <1>1, <1>2, <1>4, <1>5, <1>6 DEF Creating, Absent, Removal, Undoing, Reading, Listed
<1>10. (\A u \in Tx \ {t} : Beside(u)) /\ Copies'
  BY <1>1, <1>2, <1>4, <1>5, <1>6, StoresAssumption DEF Beside, Copies
<1>11. Counts'
  <2>1. \A u \in Tx : Written(u)' = Written(u) /\ tx'[u].dir = tx[u].dir
    BY <1>2, <1>4, <1>6 DEF Written
  <2> QED
    BY <1>1, <1>5, <2>1 DEF Counts, Due
<1> QED
  BY <1>7, <1>8, <1>9, <1>10, <1>11, Besides

\* A rollback with nothing else to take back removes the stores created.
LEMMA CreatedRemovedStep ==
  ASSUME ~ SlowFill, OwnStores, StoresInv, NEW t \in Tx,
         tx[t].pc = "applied", Go(t, Removing([tx[t] EXCEPT !.dir = -1], tx[t].created)),
         UNCHANGED <<disk, cache, locks, history>>
  PROVE  StoresInv'
<1> DEFINE x == tx[t]
           y == Removing([x EXCEPT !.dir = -1], x.created)
<1>1. /\ Types /\ Listed /\ Copies /\ Counts /\ x \in Local /\ Shape(t) /\ CallShape(t)
      /\ Holding(t) /\ Owing(t) /\ Creating(t) /\ Undoing(t) /\ Reading(t)
  BY DEF StoresInv, Mine, Types
<1>2. x.pc = "applied"
  OBVIOUS
<1>3. y \in Local
  <2>1. [x EXCEPT !.dir = -1] \in Local /\ x.created \in SUBSET Store
    BY <1>1 DEF Local
  <2> QED
    BY <2>1, RemovingIs DEF RemovingAs
<1>4. 
      /\ (\/ x.created = {} /\ y.pc = "rolledback" /\ y.drop = {}
          \/ y.pc = "rmlock" /\ y.store \in x.created /\ y.drop = x.created \ {y.store})
      /\ y.dir = -1 /\ y.todo = x.todo /\ y.opened = x.opened /\ y.created = x.created
      /\ y.logged = x.logged /\ y.rest = x.rest /\ y.done = x.done /\ y.err = x.err
  <2> DEFINE z == [x EXCEPT !.dir = -1]
  <2>1. /\ z \in Local /\ x.created \in SUBSET Store /\ z.todo = x.todo /\ z.opened = x.opened /\ z.created = x.created /\ z.logged = x.logged
        /\ z.rest = x.rest /\ z.done = x.done /\ z.err = x.err /\ z.dir = -1
    BY <1>1 DEF Local
  <2> HIDE DEF z
  <2>2. RemovingAs(z, x.created, Removing(z, x.created))
    BY <2>1, RemovingIs
  <2>3. RemovingAs(z, x.created, y)
    BY <2>2 DEF z
  <2> HIDE DEF y
  <2> QED
    BY <2>1, <2>3 DEF RemovingAs
<1>5. Go(t, y) /\ UNCHANGED <<list, file, cache, listLock, storeLock, applied, spoiled, failures>>
  BY <1>2 DEF disk, locks, history
<1> HIDE DEF y
<1>6. tx' \in [Tx -> Local] /\ tx'[t] = y /\ \A u \in Tx \ {t} : tx'[u] = tx[u]
  BY <1>1, <1>3, <1>5 DEF Go, Types
<1>7. Types'
  BY <1>1, <1>5, <1>6 DEF Types
<1>8. Shape(t)' /\ CallShape(t)' /\ Holding(t)' /\ Owing(t)'
  BY <1>1, <1>2, <1>4, <1>5, <1>6 DEF Shape, Adding, Removal, CallShape, Updating, Locked,
    Holding, Owing
<1>9. Creating(t)' /\ Reading(t)' /\ Listed'
  BY <1>1, <1>2, <1>4, <1>5, <1>6 DEF Creating, Absent, Removal, Reading, Listed
<1>10. Undoing(t)'
  BY <1>1, <1>2, <1>4, <1>5, <1>6 DEF Undoing, Absent, Removal, Shape, Adding
<1>11. (\A u \in Tx \ {t} : Beside(u)) /\ Copies'
  BY <1>1, <1>2, <1>4, <1>5, <1>6, StoresAssumption DEF Beside, Copies
<1>12. Counts'
  <2>1. Written(t) = {} /\ Written(t)' = {}
    BY <1>2, <1>4, <1>6 DEF Written
  <2>2. \A u \in Tx \ {t} : Written(u)' = Written(u) /\ tx'[u].dir = tx[u].dir
    BY <1>6 DEF Written
  <2>3. \A u \in Tx, s \in Store : Due(u, s)' = Due(u, s)
    BY <1>5, <2>1, <2>2 DEF Due
  <2> QED
    BY <1>1, <1>5, <2>3 DEF Counts
<1> QED
  BY <1>7, <1>8, <1>9, <1>10, <1>11, <1>12, Besides

\* Add takes the lock of the list.
LEMMA AddLockStep ==
  ASSUME ~ SlowFill, OwnStores, StoresInv, NEW t \in Tx,
         AddLock(t)
  PROVE  StoresInv'
<1> DEFINE x == tx[t]
           y == [x EXCEPT !.pc = "addread"]
<1>1. /\ Types /\ Listed /\ Copies /\ Counts /\ x \in Local /\ Shape(t) /\ CallShape(t)
      /\ Holding(t) /\ Owing(t) /\ Creating(t) /\ Undoing(t) /\ Reading(t)
  BY DEF StoresInv, Mine, Types
<1>2. x.pc = "addlock"
  BY DEF AddLock
<1>3. y \in Local
  BY <1>1, <1>2 DEF Local, Points, Adding, Removal, Updating, Locked
<1>4. /\ y.pc = "addread" /\ y.todo = x.todo /\ y.opened = x.opened /\ y.created = x.created
      /\ y.logged = x.logged /\ y.store = x.store /\ y.info = x.info /\ y.buf = x.buf
      /\ y.drop = x.drop /\ y.dir = x.dir /\ y.rest = x.rest /\ y.done = x.done
      /\ y.gone = x.gone /\ y.err = x.err
  BY <1>1, <1>2 DEF Local
<1>5. Go(t, y) /\ listLock = Free /\ listLock' = t
      /\ UNCHANGED <<list, file, cache, storeLock, applied, spoiled, failures>>
  BY <1>2 DEF AddLock, disk, locks, history
<1> HIDE DEF y
<1>6. tx' \in [Tx -> Local] /\ tx'[t] = y /\ \A u \in Tx \ {t} : tx'[u] = tx[u]
  BY <1>1, <1>3, <1>5 DEF Go, Types
<1>7. Types'
  BY <1>1, <1>5, <1>6 DEF Types
<1>8. Shape(t)' /\ CallShape(t)' /\ Holding(t)' /\ Owing(t)'
  BY <1>1, <1>2, <1>4, <1>5, <1>6 DEF Shape, Adding, Removal, CallShape, Updating, Locked,
    Holding, Owing
<1>9. Creating(t)' /\ Undoing(t)' /\ Reading(t)' /\ Listed'
  BY <1>1, <1>2, <1>4, <1>5, <1>6 DEF Creating, Absent, Removal, Undoing, Reading, Listed
<1>10. (\A u \in Tx \ {t} : Beside(u)) /\ Copies'
  BY <1>1, <1>2, <1>4, <1>5, <1>6, StoresAssumption DEF Beside, Copies
<1>11. Counts'
  <2>1. \A u \in Tx : Written(u)' = Written(u) /\ tx'[u].dir = tx[u].dir
    BY <1>2, <1>4, <1>6 DEF Written
  <2> QED
    BY <1>1, <1>5, <2>1 DEF Counts, Due
<1> QED
  BY <1>7, <1>8, <1>9, <1>10, <1>11, Besides

\* Add fails: the store is removed, and with it those created before.
LEMMA AddFailedStep ==
  ASSUME ~ SlowFill, OwnStores, StoresInv, NEW t \in Tx,
         tx[t].pc \in {"addread", "addlist", "addinfo"}, AddFailed(t), failures' \in Nat,
         UNCHANGED <<disk, cache, storeLock, applied, spoiled>>
  PROVE  StoresInv'
<1> DEFINE x == tx[t]
           y == [x EXCEPT !.pc = "rmlock", !.buf = {}, !.drop = x.created]
<1>1. /\ Types /\ Listed /\ Copies /\ Counts /\ x \in Local /\ Shape(t) /\ CallShape(t)
      /\ Holding(t) /\ Owing(t) /\ Creating(t) /\ Undoing(t) /\ Reading(t)
  BY DEF StoresInv, Mine, Types
<1>2. x.pc \in {"addread", "addlist", "addinfo"}
  OBVIOUS
<1>3. y \in Local
  BY <1>1, <1>2 DEF Local, Points, Adding, Removal, Updating, Locked
<1>4. /\ y.pc = "rmlock" /\ y.buf = {} /\ y.drop = x.created /\ y.todo = x.todo
      /\ y.opened = x.opened /\ y.created = x.created /\ y.logged = x.logged
      /\ y.store = x.store /\ y.info = x.info /\ y.dir = x.dir /\ y.rest = x.rest
      /\ y.done = x.done /\ y.gone = x.gone /\ y.err = x.err
  BY <1>1, <1>2 DEF Local
<1>5. Go(t, y) /\ listLock' = Free /\ failures' \in Nat
      /\ UNCHANGED <<list, file, cache, storeLock, applied, spoiled>>
  BY <1>2 DEF AddFailed, disk, locks, history
<1> HIDE DEF y
<1>6. tx' \in [Tx -> Local] /\ tx'[t] = y /\ \A u \in Tx \ {t} : tx'[u] = tx[u]
  BY <1>1, <1>3, <1>5 DEF Go, Types
<1>7. /\ listLock = t /\ x.store \in Store /\ x.store \in x.logged /\ x.store \notin Existing
      /\ \A u \in Tx \ {t} : /\ x.store \notin tx[u].logged /\ tx[u].logged \subseteq Store
                             /\ tx[u].pc \in {"fill", "upwrite", "upcache", "undocache"} => tx[u].store \in Store \ {x.store}
  <2>1. listLock = t /\ x.store \in x.logged /\ x.store \notin Existing
    BY <1>1, <1>2 DEF Shape, Holding, Adding, Removal
  <2>2. x.store \in Store
    BY <1>1, <2>1 DEF Local
  <2> QED
    BY <1>1, <1>5, <2>1, <2>2, Apart DEF Types
<1>8. Types'
  BY <1>1, <1>5, <1>6 DEF Types
<1>9. Shape(t)' /\ CallShape(t)' /\ Holding(t)' /\ Owing(t)'
  BY <1>1, <1>2, <1>4, <1>5, <1>6, <1>7 DEF Shape, Adding, Removal, CallShape, Updating,
    Locked, Holding, Owing
<1>10. Creating(t)' /\ Reading(t)' /\ Listed'
  BY <1>1, <1>2, <1>4, <1>5, <1>6, <1>7 DEF Creating, Absent, Removal, Reading, Listed
<1>11. Undoing(t)'
  BY <1>1, <1>2, <1>4, <1>5, <1>6, <1>7 DEF Undoing, Absent, Removal, Shape, Adding
<1>12. \A u \in Tx \ {t} : Beside(u)
  <2> SUFFICES ASSUME NEW u \in Tx \ {t} PROVE Beside(u)
    OBVIOUS
  <2>1. x.store \notin tx[u].logged /\ tx[u].logged \subseteq Store
    BY <1>7
  <2>2. ASSUME NEW s \in tx[u].logged
        PROVE  (s \in list' <=> s \in list) /\ file'[s] = file[s] /\ cache'[s] = cache[s]
    <3>1. s \in Store \ {x.store}
      BY <2>1
    <3> QED
      BY <1>5, <1>7, <3>1
  <2>3. \A s \in Store : <<u, s>> \in applied' <=> <<u, s>> \in applied
    BY <1>5
  <2> QED
    BY <1>5, <1>6, <1>7, <2>1, <2>2, <2>3, StoresAssumption DEF Beside
<1>13. Copies'
  BY <1>1, <1>2, <1>4, <1>5, <1>6, <1>7 DEF Copies
<1>14. Counts'
  <2>1. \A u \in Tx : Written(u)' = Written(u) /\ tx'[u].dir = tx[u].dir
    BY <1>2, <1>4, <1>6 DEF Written
  <2> QED
    BY <1>1, <1>5, <2>1 DEF Counts, Due
<1> QED
  BY <1>8, <1>9, <1>10, <1>11, <1>12, <1>13, <1>14, Besides

\* Add does not get the lock of the list.
LEMMA AddGivenUpStep ==
  ASSUME ~ SlowFill, OwnStores, StoresInv, NEW t \in Tx,
         tx[t].pc = "addlock",
         Go(t, [tx[t] EXCEPT !.pc = "rmlock", !.drop = tx[t].created]),
         UNCHANGED <<disk, cache, locks, history>>
  PROVE  StoresInv'
<1> DEFINE x == tx[t]
           y == [x EXCEPT !.pc = "rmlock", !.drop = x.created]
<1>1. /\ Types /\ Listed /\ Copies /\ Counts /\ x \in Local /\ Shape(t) /\ CallShape(t)
      /\ Holding(t) /\ Owing(t) /\ Creating(t) /\ Undoing(t) /\ Reading(t)
  BY DEF StoresInv, Mine, Types
<1>2. x.pc = "addlock"
  OBVIOUS
<1>3. y \in Local
  BY <1>1, <1>2 DEF Local, Points, Adding, Removal, Updating, Locked
<1>4. /\ y.pc = "rmlock" /\ y.drop = x.created /\ y.todo = x.todo /\ y.opened = x.opened
      /\ y.created = x.created /\ y.logged = x.logged /\ y.store = x.store
      /\ y.info = x.info /\ y.buf = x.buf /\ y.dir = x.dir /\ y.rest = x.rest
      /\ y.done = x.done /\ y.gone = x.gone /\ y.err = x.err
  BY <1>1, <1>2 DEF Local
<1>5. Go(t, y) /\ UNCHANGED <<list, file, cache, listLock, storeLock, applied, spoiled, failures>>
  BY <1>2 DEF disk, locks, history
<1> HIDE DEF y
<1>6. tx' \in [Tx -> Local] /\ tx'[t] = y /\ \A u \in Tx \ {t} : tx'[u] = tx[u]
  BY <1>1, <1>3, <1>5 DEF Go, Types
<1>7. Types'
  BY <1>1, <1>5, <1>6 DEF Types
<1>8. Shape(t)' /\ CallShape(t)' /\ Holding(t)' /\ Owing(t)'
  BY <1>1, <1>2, <1>4, <1>5, <1>6 DEF Shape, Adding, Removal, CallShape, Updating, Locked,
    Holding, Owing
<1>9. Creating(t)' /\ Reading(t)' /\ Listed'
  BY <1>1, <1>2, <1>4, <1>5, <1>6 DEF Creating, Absent, Removal, Reading, Listed
<1>10. Undoing(t)'
  BY <1>1, <1>2, <1>4, <1>5, <1>6 DEF Undoing, Absent, Removal, Shape, Adding
<1>11. (\A u \in Tx \ {t} : Beside(u)) /\ Copies'
  BY <1>1, <1>2, <1>4, <1>5, <1>6, StoresAssumption DEF Beside, Copies
<1>12. Counts'
  <2>1. \A u \in Tx : Written(u)' = Written(u) /\ tx'[u].dir = tx[u].dir
    BY <1>2, <1>4, <1>6 DEF Written
  <2> QED
    BY <1>1, <1>5, <2>1 DEF Counts, Due
<1> QED
  BY <1>7, <1>8, <1>9, <1>10, <1>11, <1>12, Besides

\* Add has read a list without the store.
LEMMA AddReadStep ==
  ASSUME ~ SlowFill, OwnStores, StoresInv, NEW t \in Tx,
         tx[t].pc = "addread",
         Go(t, [tx[t] EXCEPT !.pc = "addlist", !.buf = list \cup {tx[t].store}]),
         UNCHANGED <<disk, cache, locks, history>>
  PROVE  StoresInv'
<1> DEFINE x == tx[t]
           y == [x EXCEPT !.pc = "addlist", !.buf = list \cup {x.store}]
<1>1. /\ Types /\ Listed /\ Copies /\ Counts /\ x \in Local /\ Shape(t) /\ CallShape(t)
      /\ Holding(t) /\ Owing(t) /\ Creating(t) /\ Undoing(t) /\ Reading(t)
  BY DEF StoresInv, Mine, Types
<1>2. x.pc = "addread"
  OBVIOUS
<1>3. y \in Local
  <2>1. x.store \in Store /\ list \subseteq Store
    BY <1>1, <1>2 DEF Shape, Adding, Local, Types
  <2> QED
    BY <1>1, <2>1 DEF Local, Points, Adding
<1>4. /\ y.pc = "addlist" /\ y.buf = list \cup {x.store} /\ y.todo = x.todo
      /\ y.opened = x.opened /\ y.created = x.created /\ y.logged = x.logged
      /\ y.store = x.store /\ y.info = x.info /\ y.drop = x.drop /\ y.dir = x.dir
      /\ y.rest = x.rest /\ y.done = x.done /\ y.gone = x.gone /\ y.err = x.err
  BY <1>1, <1>2 DEF Local
<1>5. Go(t, y) /\ UNCHANGED <<list, file, cache, listLock, storeLock, applied, spoiled, failures>>
  BY <1>2 DEF disk, locks, history
<1> HIDE DEF y
<1>6. tx' \in [Tx -> Local] /\ tx'[t] = y /\ \A u \in Tx \ {t} : tx'[u] = tx[u]
  BY <1>1, <1>3, <1>5 DEF Go, Types
<1>7. Types'
  BY <1>1, <1>5, <1>6 DEF Types
<1>8. Shape(t)' /\ CallShape(t)' /\ Holding(t)' /\ Owing(t)'
  BY <1>1, <1>2, <1>4, <1>5, <1>6 DEF Shape, Adding, Removal, CallShape, Updating, Locked,
    Holding, Owing
<1>9. Creating(t)' /\ Undoing(t)' /\ Reading(t)' /\ Listed'
  BY <1>1, <1>2, <1>4, <1>5, <1>6 DEF Creating, Absent, Removal, Undoing, Reading, Listed
<1>10. (\A u \in Tx \ {t} : Beside(u)) /\ Copies'
  BY <1>1, <1>2, <1>4, <1>5, <1>6, StoresAssumption DEF Beside, Copies
<1>11. Counts'
  <2>1. \A u \in Tx : Written(u)' = Written(u) /\ tx'[u].dir = tx[u].dir
    BY <1>2, <1>4, <1>6 DEF Written
  <2> QED
    BY <1>1, <1>5, <2>1 DEF Counts, Due
<1> QED
  BY <1>7, <1>8, <1>9, <1>10, <1>11, Besides

\* It writes the list.
LEMMA AddListStep ==
  ASSUME ~ SlowFill, OwnStores, StoresInv, NEW t \in Tx,
         tx[t].pc = "addlist", Go(t, [tx[t] EXCEPT !.pc = "addinfo", !.buf = {}]),
         list' = tx[t].buf, UNCHANGED <<file, cache, locks, history>>
  PROVE  StoresInv'
<1> DEFINE x == tx[t]
           y == [x EXCEPT !.pc = "addinfo", !.buf = {}]
<1>1. /\ Types /\ Listed /\ Copies /\ Counts /\ x \in Local /\ Shape(t) /\ CallShape(t)
      /\ Holding(t) /\ Owing(t) /\ Creating(t) /\ Undoing(t) /\ Reading(t)
  BY DEF StoresInv, Mine, Types
<1>2. x.pc = "addlist"
  OBVIOUS
<1>3. y \in Local
  BY <1>1, <1>2 DEF Local, Points, Adding, Removal, Updating, Locked
<1>4. /\ y.pc = "addinfo" /\ y.buf = {} /\ y.todo = x.todo /\ y.opened = x.opened
      /\ y.created = x.created /\ y.logged = x.logged /\ y.store = x.store
      /\ y.info = x.info /\ y.drop = x.drop /\ y.dir = x.dir /\ y.rest = x.rest
      /\ y.done = x.done /\ y.gone = x.gone /\ y.err = x.err
  BY <1>1, <1>2 DEF Local
<1>5. Go(t, y) /\ list' = x.buf
      /\ UNCHANGED <<file, cache, listLock, storeLock, applied, spoiled, failures>>
  BY <1>2 DEF disk, locks, history
<1> HIDE DEF y
<1>6. tx' \in [Tx -> Local] /\ tx'[t] = y /\ \A u \in Tx \ {t} : tx'[u] = tx[u]
  BY <1>1, <1>3, <1>5 DEF Go, Types
<1>7. /\ listLock = t /\ x.store \in Store /\ x.store \in x.logged /\ x.store \notin Existing
      /\ \A u \in Tx \ {t} : /\ x.store \notin tx[u].logged /\ tx[u].logged \subseteq Store
                             /\ tx[u].pc \in {"fill", "upwrite", "upcache", "undocache"} => tx[u].store \in Store \ {x.store}
      /\ x.buf = list \cup {x.store} /\ x.buf \subseteq Store /\ Absent(x.store)
  <2>1. listLock = t /\ x.store \in x.logged /\ x.store \notin Existing
    BY <1>1, <1>2 DEF Shape, Holding, Adding, Removal
  <2>2. x.store \in Store
    BY <1>1, <2>1 DEF Local
  <2> QED
    BY <1>1, <1>5, <2>1, <2>2, Apart DEF Types, Creating
<1>8. Types'
  BY <1>1, <1>5, <1>6, <1>7 DEF Types
<1>9. Shape(t)' /\ CallShape(t)' /\ Holding(t)' /\ Owing(t)'
  BY <1>1, <1>2, <1>4, <1>5, <1>6, <1>7 DEF Shape, Adding, Removal, CallShape, Updating,
    Locked, Holding, Owing
<1>10. Creating(t)' /\ Undoing(t)' /\ Reading(t)' /\ Listed'
  BY <1>1, <1>2, <1>4, <1>5, <1>6, <1>7 DEF Creating, Absent, Removal, Undoing, Reading,
    Listed
<1>11. \A u \in Tx \ {t} : Beside(u)
  <2> SUFFICES ASSUME NEW u \in Tx \ {t} PROVE Beside(u)
    OBVIOUS
  <2>1. x.store \notin tx[u].logged /\ tx[u].logged \subseteq Store
    BY <1>7
  <2>2. ASSUME NEW s \in tx[u].logged
        PROVE  (s \in list' <=> s \in list) /\ file'[s] = file[s] /\ cache'[s] = cache[s]
    <3>1. s \in Store \ {x.store}
      BY <2>1
    <3> QED
      BY <1>5, <1>7, <3>1
  <2>3. \A s \in Store : <<u, s>> \in applied' <=> <<u, s>> \in applied
    BY <1>5
  <2> QED
    BY <1>5, <1>6, <1>7, <2>1, <2>2, <2>3, StoresAssumption DEF Beside
<1>12. Copies'
  BY <1>1, <1>2, <1>4, <1>5, <1>6, <1>7 DEF Copies
<1>13. Counts'
  <2>1. \A u \in Tx : Written(u)' = Written(u) /\ tx'[u].dir = tx[u].dir
    BY <1>2, <1>4, <1>6 DEF Written
  <2> QED
    BY <1>1, <1>5, <2>1 DEF Counts, Due
<1> QED
  BY <1>8, <1>9, <1>10, <1>11, <1>12, <1>13, Besides

\* It writes the info file.
LEMMA AddInfoStep ==
  ASSUME ~ SlowFill, OwnStores, StoresInv, NEW t \in Tx,
         tx[t].pc = "addinfo", Go(t, [tx[t] EXCEPT !.pc = "addcache"]),
         file' = [file EXCEPT ![tx[t].store] = Zero],
         UNCHANGED <<list, cache, locks, history>>
  PROVE  StoresInv'
<1> DEFINE x == tx[t]
           y == [x EXCEPT !.pc = "addcache"]
<1>1. /\ Types /\ Listed /\ Copies /\ Counts /\ x \in Local /\ Shape(t) /\ CallShape(t)
      /\ Holding(t) /\ Owing(t) /\ Creating(t) /\ Undoing(t) /\ Reading(t)
  BY DEF StoresInv, Mine, Types
<1>2. x.pc = "addinfo"
  OBVIOUS
<1>3. y \in Local
  BY <1>1, <1>2 DEF Local, Points, Adding, Removal, Updating, Locked
<1>4. /\ y.pc = "addcache" /\ y.todo = x.todo /\ y.opened = x.opened
      /\ y.created = x.created /\ y.logged = x.logged /\ y.store = x.store
      /\ y.info = x.info /\ y.buf = x.buf /\ y.drop = x.drop /\ y.dir = x.dir
      /\ y.rest = x.rest /\ y.done = x.done /\ y.gone = x.gone /\ y.err = x.err
  BY <1>1, <1>2 DEF Local
<1>5. Go(t, y) /\ file' = [file EXCEPT ![x.store] = Zero]
      /\ UNCHANGED <<list, cache, listLock, storeLock, applied, spoiled, failures>>
  BY <1>2 DEF disk, locks, history
<1> HIDE DEF y
<1>6. tx' \in [Tx -> Local] /\ tx'[t] = y /\ \A u \in Tx \ {t} : tx'[u] = tx[u]
  BY <1>1, <1>3, <1>5 DEF Go, Types
<1>7. /\ listLock = t /\ x.store \in Store /\ x.store \in x.logged /\ x.store \notin Existing
      /\ \A u \in Tx \ {t} : /\ x.store \notin tx[u].logged /\ tx[u].logged \subseteq Store
                             /\ tx[u].pc \in {"fill", "upwrite", "upcache", "undocache"} => tx[u].store \in Store \ {x.store}
      /\ file'[x.store] = Zero /\ \A r \in Store \ {x.store} : file'[r] = file[r]
  <2>1. listLock = t /\ x.store \in x.logged /\ x.store \notin Existing
    BY <1>1, <1>2 DEF Shape, Holding, Adding, Removal
  <2>2. x.store \in Store
    BY <1>1, <2>1 DEF Local
  <2> QED
    BY <1>1, <1>5, <2>1, <2>2, Apart DEF Types
<1>8. Types'
  <2>1. Zero \in Infos /\ Zero # None
    BY StoresAssumption DEF Zero, Infos
  <2> QED
    BY <1>1, <1>5, <1>6, <1>7, <2>1 DEF Types
<1>9. Shape(t)' /\ CallShape(t)' /\ Holding(t)' /\ Owing(t)'
  BY <1>1, <1>2, <1>4, <1>5, <1>6, <1>7 DEF Shape, Adding, Removal, CallShape, Updating,
    Locked, Holding, Owing
<1>10. Creating(t)' /\ Undoing(t)' /\ Reading(t)' /\ Listed'
  BY <1>1, <1>2, <1>4, <1>5, <1>6, <1>7 DEF Creating, Absent, Removal, Undoing, Reading,
    Listed
<1>11. \A u \in Tx \ {t} : Beside(u)
  <2> SUFFICES ASSUME NEW u \in Tx \ {t} PROVE Beside(u)
    OBVIOUS
  <2>1. x.store \notin tx[u].logged /\ tx[u].logged \subseteq Store
    BY <1>7
  <2>2. ASSUME NEW s \in tx[u].logged
        PROVE  (s \in list' <=> s \in list) /\ file'[s] = file[s] /\ cache'[s] = cache[s]
    <3>1. s \in Store \ {x.store}
      BY <2>1
    <3> QED
      BY <1>5, <1>7, <3>1
  <2>3. \A s \in Store : <<u, s>> \in applied' <=> <<u, s>> \in applied
    BY <1>5
  <2> QED
    BY <1>5, <1>6, <1>7, <2>1, <2>2, <2>3, StoresAssumption DEF Beside
<1>12. Copies'
  <2> SUFFICES ASSUME NEW s \in Store, cache'[s] \notin {None, file'[s]}
               PROVE  \E u \in Tx : tx'[u].pc \in {"upcache", "undocache"} /\ tx'[u].store = s
    BY DEF Copies
  <2>1. cache[s] \notin {None, file[s]}
    BY <1>1, <1>2, <1>4, <1>5, <1>7 DEF Reading, Creating, Undoing
  <2>2. PICK u \in Tx : tx[u].pc \in {"upcache", "undocache"} /\ tx[u].store = s
    BY <1>1, <2>1 DEF Copies
  <2> QED
    BY <1>2, <1>6, <2>2
<1>13. Counts'
  <2>1. \A u \in Tx : Written(u)' = Written(u) /\ tx'[u].dir = tx[u].dir
    BY <1>2, <1>4, <1>6 DEF Written
  <2>2. ASSUME NEW u \in Tx PROVE <<u, x.store>> \notin applied /\ x.store \notin Written(u)
    <3>1. Mine(u)
      BY DEF StoresInv
    <3>2. x.store \notin tx[u].opened
      <4>1. CASE u = t
        BY <1>1, <1>2, <1>7, <4>1 DEF Shape, Adding
      <4>2. CASE u # t
        BY <1>7, <4>2, Apart
      <4> QED
        BY <4>1, <4>2
    <3>3. <<u, x.store>> \notin applied
      BY <1>7, <3>1, <3>2 DEF Mine, Owing
    <3>4. Written(u) \subseteq tx[u].opened
      BY <3>1 DEF Mine, CallShape, Written, Updating, Locked
    <3> QED
      BY <3>2, <3>3, <3>4
  <2>3. \A u \in Tx : Zero[u] = 0
    BY DEF Zero
  <2> QED
    BY <1>1, <1>5, <1>7, <2>1, <2>2, <2>3 DEF Counts, Due
<1> QED
  BY <1>8, <1>9, <1>10, <1>11, <1>12, <1>13, Besides

\* NewBtree opens a store that is cached.
LEMMA OpenCachedStep ==
  ASSUME ~ SlowFill, OwnStores, StoresInv, NEW t \in Tx, NEW s \in Store,
         tx[t].pc = "idle", s \in tx[t].todo, cache[s] # None,
         Go(t, [tx[t] EXCEPT !.todo = @ \ {s}, !.opened = @ \cup {s}]),
         UNCHANGED <<disk, cache, locks, history>>
  PROVE  StoresInv'
<1> DEFINE x == tx[t]
           y == [x EXCEPT !.todo = @ \ {s}, !.opened = @ \cup {s}]
<1>1. /\ Types /\ Listed /\ Copies /\ Counts /\ x \in Local /\ Shape(t) /\ CallShape(t)
      /\ Holding(t) /\ Owing(t) /\ Creating(t) /\ Undoing(t) /\ Reading(t)
  BY DEF StoresInv, Mine, Types
<1>2. x.pc = "idle" /\ s \in x.todo /\ cache[s] # None
  OBVIOUS
<1>3. y \in Local
  BY <1>1, <1>2 DEF Local, Points, Adding, Removal, Updating, Locked
<1>4. /\ y.pc = "idle" /\ y.todo = x.todo \ {s} /\ y.opened = x.opened \cup {s}
      /\ y.created = x.created /\ y.logged = x.logged /\ y.store = x.store
      /\ y.info = x.info /\ y.buf = x.buf /\ y.drop = x.drop /\ y.dir = x.dir
      /\ y.rest = x.rest /\ y.done = x.done /\ y.gone = x.gone /\ y.err = x.err
  BY <1>1, <1>2 DEF Local
<1>5. Go(t, y) /\ UNCHANGED <<list, file, cache, listLock, storeLock, applied, spoiled, failures>>
  BY <1>2 DEF disk, locks, history
<1> HIDE DEF y
<1>6. tx' \in [Tx -> Local] /\ tx'[t] = y /\ \A u \in Tx \ {t} : tx'[u] = tx[u]
  BY <1>1, <1>3, <1>5 DEF Go, Types
<1>7. s \in Existing /\ s \notin x.logged
  <2>1. s \notin x.logged
    BY <1>1, <1>2 DEF Shape
  <2>2. \A u \in Tx : s \notin tx[u].logged
    BY <1>2, <2>1, Apart
  <2> QED
    BY <1>1, <1>2, <2>1, <2>2 DEF Listed, Absent
<1>8. Types'
  BY <1>1, <1>5, <1>6 DEF Types
<1>9. Shape(t)' /\ CallShape(t)' /\ Holding(t)' /\ Owing(t)'
  BY <1>1, <1>2, <1>4, <1>5, <1>6, <1>7 DEF Shape, Adding, Removal, CallShape, Updating,
    Locked, Holding, Owing
<1>10. Creating(t)' /\ Undoing(t)' /\ Reading(t)' /\ Listed'
  BY <1>1, <1>2, <1>4, <1>5, <1>6, <1>7 DEF Creating, Absent, Removal, Undoing, Reading,
    Listed
<1>11. (\A u \in Tx \ {t} : Beside(u)) /\ Copies'
  BY <1>1, <1>2, <1>4, <1>5, <1>6, <1>7, StoresAssumption DEF Beside, Copies
<1>12. Counts'
  <2>1. \A u \in Tx : Written(u)' = Written(u) /\ tx'[u].dir = tx[u].dir
    BY <1>2, <1>4, <1>6 DEF Written
  <2> QED
    BY <1>1, <1>5, <2>1 DEF Counts, Due
<1> QED
  BY <1>8, <1>9, <1>10, <1>11, <1>12, Besides

\* NewBtree opens a store whose info it has read from disk.
LEMMA OpenUncachedStep ==
  ASSUME ~ SlowFill, OwnStores, StoresInv, NEW t \in Tx, NEW s \in Store,
         tx[t].pc = "idle", s \in tx[t].todo, file[s] # None,
         Go(t, [tx[t] EXCEPT !.pc = "fill", !.todo = @ \ {s}, !.opened = @ \cup {s}, !.store = s, !.info = file[s]]),
         UNCHANGED <<disk, cache, locks, history>>
  PROVE  StoresInv'
<1> DEFINE x == tx[t]
           y == [x EXCEPT !.pc = "fill", !.todo = @ \ {s}, !.opened = @ \cup {s}, !.store = s, !.info = file[s]]
<1>1. /\ Types /\ Listed /\ Copies /\ Counts /\ x \in Local /\ Shape(t) /\ CallShape(t)
      /\ Holding(t) /\ Owing(t) /\ Creating(t) /\ Undoing(t) /\ Reading(t)
  BY DEF StoresInv, Mine, Types
<1>2. x.pc = "idle" /\ s \in x.todo /\ file[s] # None
  OBVIOUS
<1>3. y \in Local
  <2>1. file[s] \in Infos \cup {None}
    BY <1>1 DEF Types
  <2> QED
    BY <1>1, <2>1 DEF Local, Points
<1>4. /\ y.pc = "fill" /\ y.todo = x.todo \ {s} /\ y.opened = x.opened \cup {s}
      /\ y.store = s /\ y.info = file[s] /\ y.created = x.created /\ y.logged = x.logged
      /\ y.buf = x.buf /\ y.drop = x.drop /\ y.dir = x.dir /\ y.rest = x.rest
      /\ y.done = x.done /\ y.gone = x.gone /\ y.err = x.err
  BY <1>1, <1>2 DEF Local
<1>5. Go(t, y) /\ UNCHANGED <<list, file, cache, listLock, storeLock, applied, spoiled, failures>>
  BY <1>2 DEF disk, locks, history
<1> HIDE DEF y
<1>6. tx' \in [Tx -> Local] /\ tx'[t] = y /\ \A u \in Tx \ {t} : tx'[u] = tx[u]
  BY <1>1, <1>3, <1>5 DEF Go, Types
<1>7. s \in Existing /\ s \notin x.logged
  <2>1. s \notin x.logged
    BY <1>1, <1>2 DEF Shape
  <2>2. \A u \in Tx : s \notin tx[u].logged
    BY <1>2, <2>1, Apart
  <2> QED
    BY <1>1, <1>2, <2>1, <2>2 DEF Listed, Absent
<1>8. Types'
  BY <1>1, <1>5, <1>6 DEF Types
<1>9. Shape(t)' /\ CallShape(t)' /\ Holding(t)' /\ Owing(t)'
  BY <1>1, <1>2, <1>4, <1>5, <1>6, <1>7 DEF Shape, Adding, Removal, CallShape, Updating,
    Locked, Holding, Owing
<1>10. Creating(t)' /\ Undoing(t)' /\ Reading(t)' /\ Listed'
  BY <1>1, <1>2, <1>4, <1>5, <1>6, <1>7 DEF Creating, Absent, Removal, Undoing, Reading,
    Listed
<1>11. (\A u \in Tx \ {t} : Beside(u)) /\ Copies'
  BY <1>1, <1>2, <1>4, <1>5, <1>6, <1>7, StoresAssumption DEF Beside, Copies
<1>12. Counts'
  <2>1. \A u \in Tx : Written(u)' = Written(u) /\ tx'[u].dir = tx[u].dir
    BY <1>2, <1>4, <1>6 DEF Written
  <2> QED
    BY <1>1, <1>5, <2>1 DEF Counts, Due
<1> QED
  BY <1>8, <1>9, <1>10, <1>11, <1>12, Besides

\* NewBtree logs a store that is not there, and calls Add.
LEMMA CreateStep ==
  ASSUME ~ SlowFill, OwnStores, StoresInv, NEW t \in Tx, NEW s \in Store,
         tx[t].pc = "idle", s \in tx[t].todo, Info(s) = None,
         Go(t, [tx[t] EXCEPT !.pc = "addlock", !.store = s, !.todo = @ \ {s}, !.logged = @ \cup {s}]),
         UNCHANGED <<disk, cache, locks, history>>
  PROVE  StoresInv'
<1> DEFINE x == tx[t]
           y == [x EXCEPT !.pc = "addlock", !.store = s, !.todo = @ \ {s}, !.logged = @ \cup {s}]
<1>1. /\ Types /\ Listed /\ Copies /\ Counts /\ x \in Local /\ Shape(t) /\ CallShape(t)
      /\ Holding(t) /\ Owing(t) /\ Creating(t) /\ Undoing(t) /\ Reading(t)
  BY DEF StoresInv, Mine, Types
<1>2. x.pc = "idle" /\ s \in x.todo /\ Info(s) = None
  OBVIOUS
<1>3. y \in Local
  BY <1>1, <1>2 DEF Local, Points, Adding, Removal, Updating, Locked
<1>4. /\ y.pc = "addlock" /\ y.todo = x.todo \ {s} /\ y.logged = x.logged \cup {s}
      /\ y.store = s /\ y.opened = x.opened /\ y.created = x.created /\ y.info = x.info
      /\ y.buf = x.buf /\ y.drop = x.drop /\ y.dir = x.dir /\ y.rest = x.rest
      /\ y.done = x.done /\ y.gone = x.gone /\ y.err = x.err
  BY <1>1, <1>2 DEF Local
<1>5. Go(t, y) /\ UNCHANGED <<list, file, cache, listLock, storeLock, applied, spoiled, failures>>
  BY <1>2 DEF disk, locks, history
<1> HIDE DEF y
<1>6. tx' \in [Tx -> Local] /\ tx'[t] = y /\ \A u \in Tx \ {t} : tx'[u] = tx[u]
  BY <1>1, <1>3, <1>5 DEF Go, Types
<1>7. s \notin Existing /\ s \notin x.logged /\ s \notin x.created /\ Absent(s)
  <2>1. cache[s] = None /\ file[s] = None
    BY <1>2 DEF Info
  <2>2. s \notin Existing
    BY <1>1, <2>1 DEF Listed
  <2>3. s \notin x.logged /\ x.created \subseteq x.logged
    BY <1>1, <1>2 DEF Shape
  <2>4. \A u \in Tx : s \notin tx[u].logged
    BY <1>2, <2>3, Apart
  <2> QED
    BY <1>1, <2>2, <2>3, <2>4 DEF Listed
<1>8. Types'
  BY <1>1, <1>5, <1>6 DEF Types
<1>9. Shape(t)' /\ CallShape(t)' /\ Holding(t)' /\ Owing(t)'
  BY <1>1, <1>2, <1>4, <1>5, <1>6, <1>7 DEF Shape, Adding, Removal, CallShape, Updating,
    Locked, Holding, Owing
<1>10. Creating(t)' /\ Undoing(t)' /\ Reading(t)' /\ Listed'
  BY <1>1, <1>2, <1>4, <1>5, <1>6, <1>7 DEF Creating, Absent, Removal, Undoing, Reading,
    Listed
<1>11. (\A u \in Tx \ {t} : Beside(u)) /\ Copies'
  BY <1>1, <1>2, <1>4, <1>5, <1>6, <1>7, StoresAssumption DEF Beside, Copies
<1>12. Counts'
  <2>1. \A u \in Tx : Written(u)' = Written(u) /\ tx'[u].dir = tx[u].dir
    BY <1>2, <1>4, <1>6 DEF Written
  <2> QED
    BY <1>1, <1>5, <2>1 DEF Counts, Due
<1> QED
  BY <1>8, <1>9, <1>10, <1>11, <1>12, Besides

\* Phase 2 ends.
LEMMA FinishStep ==
  ASSUME ~ SlowFill, OwnStores, StoresInv, NEW t \in Tx,
         Finish(t)
  PROVE  StoresInv'
<1> DEFINE x == tx[t]
           y == [x EXCEPT !.pc = "committed"]
<1>1. /\ Types /\ Listed /\ Copies /\ Counts /\ x \in Local /\ Shape(t) /\ CallShape(t)
      /\ Holding(t) /\ Owing(t) /\ Creating(t) /\ Undoing(t) /\ Reading(t)
  BY DEF StoresInv, Mine, Types
<1>2. x.pc = "applied"
  BY DEF Finish
<1>3. y \in Local
  BY <1>1, <1>2 DEF Local, Points, Adding, Removal, Updating, Locked
<1>4. /\ y.pc = "committed" /\ y.todo = x.todo /\ y.opened = x.opened
      /\ y.created = x.created /\ y.logged = x.logged /\ y.store = x.store
      /\ y.info = x.info /\ y.buf = x.buf /\ y.drop = x.drop /\ y.dir = x.dir
      /\ y.rest = x.rest /\ y.done = x.done /\ y.gone = x.gone /\ y.err = x.err
  BY <1>1, <1>2 DEF Local
<1>5. Go(t, y) /\ UNCHANGED <<list, file, cache, listLock, storeLock, applied, spoiled, failures>>
  BY <1>2 DEF Finish, disk, locks, history
<1> HIDE DEF y
<1>6. tx' \in [Tx -> Local] /\ tx'[t] = y /\ \A u \in Tx \ {t} : tx'[u] = tx[u]
  BY <1>1, <1>3, <1>5 DEF Go, Types
<1>7. Types'
  BY <1>1, <1>5, <1>6 DEF Types
<1>8. Shape(t)' /\ CallShape(t)' /\ Holding(t)' /\ Owing(t)'
  BY <1>1, <1>2, <1>4, <1>5, <1>6 DEF Shape, Adding, Removal, CallShape, Updating, Locked,
    Holding, Owing
<1>9. Creating(t)' /\ Undoing(t)' /\ Reading(t)' /\ Listed'
  BY <1>1, <1>2, <1>4, <1>5, <1>6 DEF Creating, Absent, Removal, Undoing, Reading, Listed
<1>10. (\A u \in Tx \ {t} : Beside(u)) /\ Copies'
  BY <1>1, <1>2, <1>4, <1>5, <1>6, StoresAssumption DEF Beside, Copies
<1>11. Counts'
  <2>1. \A u \in Tx : Written(u)' = Written(u) /\ tx'[u].dir = tx[u].dir
    BY <1>2, <1>4, <1>6 DEF Written
  <2> QED
    BY <1>1, <1>5, <2>1 DEF Counts, Due
<1> QED
  BY <1>7, <1>8, <1>9, <1>10, <1>11, Besides

\* Get caches what it has read.
LEMMA FillCacheStep ==
  ASSUME ~ SlowFill, OwnStores, StoresInv, NEW t \in Tx,
         FillCache(t)
  PROVE  StoresInv'
<1> DEFINE x == tx[t]
           y == [x EXCEPT !.pc = "idle", !.store = None, !.info = None]
<1>1. /\ Types /\ Listed /\ Copies /\ Counts /\ x \in Local /\ Shape(t) /\ CallShape(t)
      /\ Holding(t) /\ Owing(t) /\ Creating(t) /\ Undoing(t) /\ Reading(t)
  BY DEF StoresInv, Mine, Types
<1>2. x.pc = "fill"
  BY DEF FillCache
<1>3. y \in Local
  BY <1>1, <1>2 DEF Local, Points, Adding, Removal, Updating, Locked
<1>4. /\ y.pc = "idle" /\ y.store = None /\ y.info = None /\ y.todo = x.todo
      /\ y.opened = x.opened /\ y.created = x.created /\ y.logged = x.logged
      /\ y.buf = x.buf /\ y.drop = x.drop /\ y.dir = x.dir /\ y.rest = x.rest
      /\ y.done = x.done /\ y.gone = x.gone /\ y.err = x.err
  BY <1>1, <1>2 DEF Local
<1>5. Go(t, y) /\ cache' = [cache EXCEPT ![x.store] = x.info]
      /\ UNCHANGED <<list, file, listLock, storeLock, applied, spoiled, failures>>
  BY <1>2 DEF FillCache, disk, locks, history
<1> HIDE DEF y
<1>6. tx' \in [Tx -> Local] /\ tx'[t] = y /\ \A u \in Tx \ {t} : tx'[u] = tx[u]
  BY <1>1, <1>3, <1>5 DEF Go, Types
<1>7. /\ x.store \in Existing /\ x.store \in Store /\ x.info \in Infos
      /\ \A u \in Tx : x.store \notin tx[u].logged /\ tx[u].logged \subseteq Store
      /\ cache'[x.store] = x.info /\ \A r \in Store \ {x.store} : cache'[r] = cache[r]
  <2>1. x.store \in Existing /\ x.store \in Store
    BY <1>1, <1>2, StoresAssumption DEF Shape
  <2>2. \A u \in Tx : x.store \notin tx[u].logged /\ tx[u].logged \subseteq Store
    BY <2>1, StoresAssumption DEF StoresInv, Mine, Shape
  <2>3. x.info \in Infos
    BY <1>1, <1>2 DEF Reading, Local
  <2> QED
    BY <1>1, <1>5, <2>1, <2>2, <2>3 DEF Types
<1>8. Types'
  BY <1>1, <1>5, <1>6, <1>7 DEF Types
<1>9. Shape(t)' /\ CallShape(t)' /\ Holding(t)' /\ Owing(t)'
  BY <1>1, <1>2, <1>4, <1>5, <1>6, <1>7 DEF Shape, Adding, Removal, CallShape, Updating,
    Locked, Holding, Owing
<1>10. Creating(t)' /\ Undoing(t)' /\ Reading(t)' /\ Listed'
  BY <1>1, <1>2, <1>4, <1>5, <1>6, <1>7 DEF Creating, Absent, Removal, Undoing, Reading,
    Listed
<1>11. \A u \in Tx \ {t} : Beside(u)
  BY <1>5, <1>6, <1>7, StoresAssumption DEF Beside
<1>12. Copies'
  <2> SUFFICES ASSUME NEW s \in Store, cache'[s] \notin {None, file'[s]}
               PROVE  \E u \in Tx : tx'[u].pc \in {"upcache", "undocache"} /\ tx'[u].store = s
    BY DEF Copies
  <2>1. cache[s] \notin {None, file[s]}
    BY <1>1, <1>2, <1>4, <1>5, <1>7 DEF Reading, Creating, Undoing
  <2>2. PICK u \in Tx : tx[u].pc \in {"upcache", "undocache"} /\ tx[u].store = s
    BY <1>1, <2>1 DEF Copies
  <2> QED
    BY <1>2, <1>6, <2>2
<1>13. Counts'
  <2>1. \A u \in Tx : Written(u)' = Written(u) /\ tx'[u].dir = tx[u].dir
    BY <1>2, <1>4, <1>6 DEF Written
  <2> QED
    BY <1>1, <1>5, <2>1 DEF Counts, Due
<1> QED
  BY <1>8, <1>9, <1>10, <1>11, <1>12, <1>13, Besides

\* Add caches the new info.
LEMMA AddCacheStep ==
  ASSUME ~ SlowFill, OwnStores, StoresInv, NEW t \in Tx,
         AddCache(t)
  PROVE  StoresInv'
<1> DEFINE x == tx[t]
           y == [x EXCEPT !.pc = "idle", !.store = None, !.opened = @ \cup {x.store}, !.created = @ \cup {x.store}]
<1>1. /\ Types /\ Listed /\ Copies /\ Counts /\ x \in Local /\ Shape(t) /\ CallShape(t)
      /\ Holding(t) /\ Owing(t) /\ Creating(t) /\ Undoing(t) /\ Reading(t)
  BY DEF StoresInv, Mine, Types
<1>2. x.pc = "addcache"
  BY DEF AddCache
<1>3. y \in Local
  <2>1. x.store \in Store
    BY <1>1, <1>2 DEF Shape, Adding, Local
  <2> QED
    BY <1>1, <2>1 DEF Local, Points
<1>4. /\ y.pc = "idle" /\ y.store = None /\ y.opened = x.opened \cup {x.store}
      /\ y.created = x.created \cup {x.store} /\ y.todo = x.todo /\ y.logged = x.logged
      /\ y.info = x.info /\ y.buf = x.buf /\ y.drop = x.drop /\ y.dir = x.dir
      /\ y.rest = x.rest /\ y.done = x.done /\ y.gone = x.gone /\ y.err = x.err
  BY <1>1, <1>2 DEF Local
<1>5. Go(t, y) /\ cache' = [cache EXCEPT ![x.store] = Zero] /\ listLock' = Free
      /\ UNCHANGED <<list, file, storeLock, applied, spoiled, failures>>
  BY <1>2 DEF AddCache, disk, locks, history
<1> HIDE DEF y
<1>6. tx' \in [Tx -> Local] /\ tx'[t] = y /\ \A u \in Tx \ {t} : tx'[u] = tx[u]
  BY <1>1, <1>3, <1>5 DEF Go, Types
<1>7. /\ listLock = t /\ x.store \in Store /\ x.store \in x.logged /\ x.store \notin Existing
      /\ \A u \in Tx \ {t} : /\ x.store \notin tx[u].logged /\ tx[u].logged \subseteq Store
                             /\ tx[u].pc \in {"fill", "upwrite", "upcache", "undocache"} => tx[u].store \in Store \ {x.store}
      /\ cache'[x.store] = Zero /\ \A r \in Store \ {x.store} : cache'[r] = cache[r]
  <2>1. listLock = t /\ x.store \in x.logged /\ x.store \notin Existing
    BY <1>1, <1>2 DEF Shape, Holding, Adding, Removal
  <2>2. x.store \in Store
    BY <1>1, <2>1 DEF Local
  <2> QED
    BY <1>1, <1>5, <2>1, <2>2, Apart DEF Types
<1>8. Types'
  <2>1. Zero \in Infos /\ Zero # None
    BY StoresAssumption DEF Zero, Infos
  <2> QED
    BY <1>1, <1>5, <1>6, <1>7, <2>1 DEF Types
<1>9. Shape(t)' /\ CallShape(t)' /\ Holding(t)' /\ Owing(t)'
  BY <1>1, <1>2, <1>4, <1>5, <1>6, <1>7 DEF Shape, Adding, Removal, CallShape, Updating,
    Locked, Holding, Owing
<1>10. Creating(t)'
  <2>1. Zero \in Infos /\ Zero # None
    BY StoresAssumption DEF Zero, Infos
  <2> QED
    BY <1>1, <1>2, <1>4, <1>5, <1>6, <1>7, <2>1 DEF Creating, Removal
<1>11. Undoing(t)' /\ Reading(t)' /\ Listed'
  BY <1>1, <1>2, <1>4, <1>5, <1>6, <1>7 DEF Undoing, Absent, Removal, Reading, Listed
<1>12. \A u \in Tx \ {t} : Beside(u)
  <2> SUFFICES ASSUME NEW u \in Tx \ {t} PROVE Beside(u)
    OBVIOUS
  <2>1. x.store \notin tx[u].logged /\ tx[u].logged \subseteq Store
    BY <1>7
  <2>2. ASSUME NEW s \in tx[u].logged
        PROVE  (s \in list' <=> s \in list) /\ file'[s] = file[s] /\ cache'[s] = cache[s]
    <3>1. s \in Store \ {x.store}
      BY <2>1
    <3> QED
      BY <1>5, <1>7, <3>1
  <2>3. \A s \in Store : <<u, s>> \in applied' <=> <<u, s>> \in applied
    BY <1>5
  <2> QED
    BY <1>5, <1>6, <1>7, <2>1, <2>2, <2>3, StoresAssumption DEF Beside
<1>13. Copies'
  <2> SUFFICES ASSUME NEW s \in Store, cache'[s] \notin {None, file'[s]}
               PROVE  \E u \in Tx : tx'[u].pc \in {"upcache", "undocache"} /\ tx'[u].store = s
    BY DEF Copies
  <2>1. cache[s] \notin {None, file[s]}
    BY <1>1, <1>2, <1>4, <1>5, <1>7 DEF Reading, Creating, Undoing
  <2>2. PICK u \in Tx : tx[u].pc \in {"upcache", "undocache"} /\ tx[u].store = s
    BY <1>1, <2>1 DEF Copies
  <2> QED
    BY <1>2, <1>6, <2>2
<1>14. Counts'
  <2>1. \A u \in Tx : Written(u)' = Written(u) /\ tx'[u].dir = tx[u].dir
    BY <1>2, <1>4, <1>6 DEF Written
  <2> QED
    BY <1>1, <1>5, <2>1 DEF Counts, Due
<1> QED
  BY <1>8, <1>9, <1>10, <1>11, <1>12, <1>13, <1>14, Besides

\* commitStores calls Update with the stores opened.
LEMMA CommitStep ==
  ASSUME ~ SlowFill, OwnStores, StoresInv, NEW t \in Tx,
         Commit(t)
  PROVE  StoresInv'
<1> DEFINE x == tx[t]
           y == UpdateCall(x, 1, x.opened)
<1>1. /\ Types /\ Listed /\ Copies /\ Counts /\ x \in Local /\ Shape(t) /\ CallShape(t)
      /\ Holding(t) /\ Owing(t) /\ Creating(t) /\ Undoing(t) /\ Reading(t)
  BY DEF StoresInv, Mine, Types
<1>2. x.pc = "idle" /\ x.todo = {} /\ x.opened # {}
  BY DEF Commit
<1>3. Min(x.opened) \in x.opened /\ x.opened \subseteq Store
  BY <1>1, <1>2, MinIn DEF Local
<1>4. y \in Local
  BY <1>1, <1>3 DEF Local, Points, Updating, UpdateCall
<1>5. /\ y.pc = "uplock" /\ y.dir = 1 /\ y.rest = x.opened /\ y.done = {}
      /\ y.store = Min(x.opened) /\ y.info = None /\ y.gone = FALSE /\ y.todo = x.todo
      /\ y.opened = x.opened /\ y.created = x.created /\ y.logged = x.logged
      /\ y.buf = x.buf /\ y.drop = x.drop /\ y.err = x.err
  BY <1>1 DEF Local, UpdateCall
<1>6. Go(t, y) /\ UNCHANGED <<list, file, cache, listLock, storeLock, applied, spoiled, failures>>
  BY <1>2, <1>3 DEF Commit, disk, locks, history
<1> HIDE DEF y
<1>7. tx' \in [Tx -> Local] /\ tx'[t] = y /\ \A u \in Tx \ {t} : tx'[u] = tx[u]
  BY <1>1, <1>4, <1>6 DEF Go, Types
<1>8. Types'
  BY <1>1, <1>6, <1>7, <1>3 DEF Types
<1>9. Shape(t)' /\ CallShape(t)' /\ Holding(t)'
  BY <1>1, <1>2, <1>5, <1>6, <1>7, <1>3 DEF Shape, Adding, Removal, CallShape, Updating,
    Locked, Holding
<1>10. Owing(t)'
  BY <1>1, <1>2, <1>5, <1>6, <1>7, <1>3 DEF Owing, Updating, Locked, Shape
<1>11. Creating(t)'
  BY <1>1, <1>2, <1>5, <1>6, <1>7, <1>3 DEF Creating, Absent, Removal, Shape, Adding
<1>12. Undoing(t)' /\ Reading(t)' /\ Listed'
  BY <1>1, <1>2, <1>5, <1>6, <1>7, <1>3 DEF Undoing, Absent, Removal, Reading, Listed
<1>13. (\A u \in Tx \ {t} : Beside(u)) /\ Copies'
  BY <1>1, <1>2, <1>5, <1>6, <1>7, <1>3, StoresAssumption DEF Beside, Copies
<1>14. Counts'
  <2>1. Written(t) = {} /\ Written(t)' = {}
    BY <1>2, <1>5, <1>7 DEF Written
  <2>2. \A u \in Tx \ {t} : Written(u)' = Written(u) /\ tx'[u].dir = tx[u].dir
    BY <1>7 DEF Written
  <2>3. \A u \in Tx, s \in Store : Due(u, s)' = Due(u, s)
    BY <1>6, <2>1, <2>2 DEF Due
  <2> QED
    BY <1>1, <1>6, <2>3 DEF Counts
<1> QED
  BY <1>8, <1>9, <1>10, <1>11, <1>12, <1>13, <1>14, Besides

\* A rollback calls Update for the stores that were there before.
LEMMA RevertStep ==
  ASSUME ~ SlowFill, OwnStores, StoresInv, NEW t \in Tx,
         tx[t].pc = "applied", tx[t].opened \ tx[t].created # {},
         Go(t, UpdateCall(tx[t], -1, tx[t].opened \ tx[t].created)),
         UNCHANGED <<disk, cache, locks, history>>
  PROVE  StoresInv'
<1> DEFINE x == tx[t]
           y == UpdateCall(x, -1, x.opened \ x.created)
<1>1. /\ Types /\ Listed /\ Copies /\ Counts /\ x \in Local /\ Shape(t) /\ CallShape(t)
      /\ Holding(t) /\ Owing(t) /\ Creating(t) /\ Undoing(t) /\ Reading(t)
  BY DEF StoresInv, Mine, Types
<1>2. x.pc = "applied" /\ x.opened \ x.created # {}
  OBVIOUS
<1>3. Min(x.opened \ x.created) \in x.opened \ x.created /\ x.opened \subseteq Store
  BY <1>1, <1>2, MinIn DEF Local
<1>4. y \in Local
  BY <1>1, <1>3 DEF Local, Points, Updating, UpdateCall
<1>5. /\ y.pc = "uplock" /\ y.dir = -1 /\ y.rest = x.opened \ x.created /\ y.done = {}
      /\ y.store = Min(x.opened \ x.created) /\ y.info = None /\ y.gone = FALSE
      /\ y.todo = x.todo /\ y.opened = x.opened /\ y.created = x.created
      /\ y.logged = x.logged /\ y.buf = x.buf /\ y.drop = x.drop /\ y.err = x.err
  BY <1>1 DEF Local, UpdateCall
<1>6. Go(t, y) /\ UNCHANGED <<list, file, cache, listLock, storeLock, applied, spoiled, failures>>
  BY <1>2, <1>3 DEF disk, locks, history
<1> HIDE DEF y
<1>7. tx' \in [Tx -> Local] /\ tx'[t] = y /\ \A u \in Tx \ {t} : tx'[u] = tx[u]
  BY <1>1, <1>4, <1>6 DEF Go, Types
<1>8. Types'
  BY <1>1, <1>6, <1>7, <1>3 DEF Types
<1>9. Shape(t)' /\ Holding(t)' /\ Owing(t)'
  BY <1>1, <1>2, <1>5, <1>6, <1>7, <1>3 DEF Shape, Adding, Removal, Holding, Locked, Owing,
    Updating
<1>10. CallShape(t)'
  BY <1>1, <1>2, <1>5, <1>6, <1>7, <1>3 DEF CallShape, Updating, Locked, Shape
<1>11. Creating(t)' /\ Undoing(t)' /\ Reading(t)' /\ Listed'
  BY <1>1, <1>2, <1>5, <1>6, <1>7, <1>3 DEF Creating, Absent, Removal, Undoing, Reading, Listed
<1>12. (\A u \in Tx \ {t} : Beside(u)) /\ Copies'
  BY <1>1, <1>2, <1>5, <1>6, <1>7, <1>3, StoresAssumption DEF Beside, Copies
<1>13. Counts'
  <2>1. Written(t) = {} /\ Written(t)' = {}
    BY <1>2, <1>5, <1>7 DEF Written
  <2>2. \A u \in Tx \ {t} : Written(u)' = Written(u) /\ tx'[u].dir = tx[u].dir
    BY <1>7 DEF Written
  <2>3. \A u \in Tx, s \in Store : Due(u, s)' = Due(u, s)
    BY <1>6, <2>1, <2>2 DEF Due
  <2> QED
    BY <1>1, <1>6, <2>3 DEF Counts
<1> QED
  BY <1>8, <1>9, <1>10, <1>11, <1>12, <1>13, Besides

\* Update reads the info of a store, which is there.
LEMMA UpdateReadStep ==
  ASSUME ~ SlowFill, OwnStores, StoresInv, NEW t \in Tx,
         UpdateRead(t)
  PROVE  StoresInv'
<1> DEFINE x == tx[t]
           y == [x EXCEPT !.pc = "upwrite", !.info = file[x.store]]
<1>1. /\ Types /\ Listed /\ Copies /\ Counts /\ x \in Local /\ Shape(t) /\ CallShape(t)
      /\ Holding(t) /\ Owing(t) /\ Creating(t) /\ Undoing(t) /\ Reading(t)
  BY DEF StoresInv, Mine, Types
<1>2. x.pc = "upread"
  BY DEF UpdateRead
<1>3. /\ x.store \in Store /\ file[x.store] \in Infos /\ file[x.store] # None /\ Info(x.store) = file[x.store]
  <2>1. x.store \in x.rest \cup x.done /\ x.pc \in Locked \ {"upcache", "undocache"}
    BY <1>1, <1>2 DEF CallShape, Locked
  <2> QED
    BY <2>1, OwnCopy
<1>4. y \in Local
  BY <1>1, <1>3 DEF Local, Points, Updating, Locked
<1>5. /\ y.pc = "upwrite" /\ y.info = file[x.store] /\ y.todo = x.todo
      /\ y.opened = x.opened /\ y.created = x.created /\ y.logged = x.logged
      /\ y.store = x.store /\ y.buf = x.buf /\ y.drop = x.drop /\ y.dir = x.dir
      /\ y.rest = x.rest /\ y.done = x.done /\ y.gone = x.gone /\ y.err = x.err
  BY <1>1, <1>2, <1>3 DEF Local
<1>6. Go(t, y) /\ cache' = [cache EXCEPT ![x.store] = file[x.store]]
      /\ UNCHANGED <<list, file, listLock, storeLock, applied, spoiled, failures>>
  BY <1>2, <1>3, StoresAssumption DEF UpdateRead, Filled, disk, history
<1> HIDE DEF y
<1>7. tx' \in [Tx -> Local] /\ tx'[t] = y /\ \A u \in Tx \ {t} : tx'[u] = tx[u]
  BY <1>1, <1>4, <1>6 DEF Go, Types
<1>8. /\ \A u \in Tx \ {t} : x.store \notin tx[u].logged /\ tx[u].logged \subseteq Store
      /\ x.store \in x.opened /\ storeLock[x.store] = t
      /\ cache'[x.store] = file[x.store] /\ \A r \in Store \ {x.store} : cache'[r] = cache[r]
  <2>1. x.store \in x.opened /\ storeLock[x.store] = t
    BY <1>1, <1>2 DEF CallShape, Holding, Updating, Locked
  <2> QED
    BY <1>1, <1>6, <1>3, <2>1, Apart DEF Types
<1>9. Types'
  BY <1>1, <1>6, <1>7, <1>3 DEF Types
<1>10. Shape(t)' /\ CallShape(t)' /\ Holding(t)' /\ Owing(t)'
  BY <1>1, <1>2, <1>5, <1>6, <1>7, <1>3, <1>8 DEF Shape, Adding, Removal, CallShape, Updating,
    Locked, Holding, Owing
<1>11. Creating(t)' /\ Undoing(t)' /\ Reading(t)' /\ Listed'
  BY <1>1, <1>2, <1>5, <1>6, <1>7, <1>3, <1>8 DEF Creating, Absent, Removal, Undoing, Reading,
    Listed
<1>12. \A u \in Tx \ {t} : Beside(u)
  <2> SUFFICES ASSUME NEW u \in Tx \ {t} PROVE Beside(u)
    OBVIOUS
  <2>1. x.store \notin tx[u].logged /\ tx[u].logged \subseteq Store
    BY <1>8
  <2>2. ASSUME NEW s \in tx[u].logged
        PROVE  (s \in list' <=> s \in list) /\ file'[s] = file[s] /\ cache'[s] = cache[s]
    <3>1. s \in Store \ {x.store}
      BY <2>1
    <3> QED
      BY <1>6, <1>8, <3>1
  <2>3. \A s \in Store : <<u, s>> \in applied' <=> <<u, s>> \in applied
    BY <1>6
  <2> QED
    BY <1>6, <1>7, <1>8, <2>1, <2>2, <2>3, StoresAssumption DEF Beside
<1>13. Copies'
  <2> SUFFICES ASSUME NEW s \in Store, cache'[s] \notin {None, file'[s]}
               PROVE  \E u \in Tx : tx'[u].pc \in {"upcache", "undocache"} /\ tx'[u].store = s
    BY DEF Copies
  <2>1. cache[s] \notin {None, file[s]}
    BY <1>1, <1>6, <1>3, <1>8 DEF Reading, Creating, Undoing
  <2>2. PICK u \in Tx : tx[u].pc \in {"upcache", "undocache"} /\ tx[u].store = s
    BY <1>1, <2>1 DEF Copies
  <2> QED
    BY <1>2, <1>7, <2>2
<1>14. Counts'
  <2>1. \A u \in Tx : Written(u)' = Written(u) /\ tx'[u].dir = tx[u].dir
    BY <1>2, <1>5, <1>7, <1>3 DEF Written
  <2> QED
    BY <1>1, <1>6, <2>1 DEF Counts, Due
<1> QED
  BY <1>9, <1>10, <1>11, <1>12, <1>13, <1>14, Besides

\* It writes the file.
LEMMA UpdateWriteStep ==
  ASSUME ~ SlowFill, OwnStores, StoresInv, NEW t \in Tx,
         tx[t].pc = "upwrite", Settled(tx[t].store),
         Go(t, [tx[t] EXCEPT !.pc = "upcache", !.info = Plus(tx[t].info, t, tx[t].dir)]),
         file' = [file EXCEPT ![tx[t].store] = Plus(tx[t].info, t, tx[t].dir)],
         UNCHANGED <<list, cache, locks, history>>
  PROVE  StoresInv'
<1> DEFINE x == tx[t]
           y == [x EXCEPT !.pc = "upcache", !.info = Plus(x.info, t, x.dir)]
<1>1. /\ Types /\ Listed /\ Copies /\ Counts /\ x \in Local /\ Shape(t) /\ CallShape(t)
      /\ Holding(t) /\ Owing(t) /\ Creating(t) /\ Undoing(t) /\ Reading(t)
  BY DEF StoresInv, Mine, Types
<1>2. x.pc = "upwrite" /\ Settled(x.store)
  OBVIOUS
<1>3. /\ x.store \in Store /\ file[x.store] \in Infos /\ file[x.store] # None /\ Info(x.store) = file[x.store]
      /\ x.info = file[x.store] /\ x.dir \in Int
      /\ Plus(x.info, t, x.dir) \in Infos /\ Plus(x.info, t, x.dir) # None
  <2>1. x.store \in x.rest \cup x.done /\ x.pc \in Locked \ {"upcache", "undocache"}
    BY <1>1, <1>2 DEF CallShape, Locked
  <2>2. /\ x.store \in Store /\ file[x.store] \in Infos /\ file[x.store] # None
        /\ Info(x.store) = file[x.store]
    BY <2>1, OwnCopy
  <2>3. x.info = file[x.store] /\ x.dir \in Int
    BY <1>1, <1>2 DEF Reading, Local
  <2> QED
    BY <2>2, <2>3, PlusIs
<1>4. y \in Local
  BY <1>1, <1>2, <1>3 DEF Local, Points, Adding, Removal, Updating, Locked
<1>5. /\ y.pc = "upcache" /\ y.info = Plus(x.info, t, x.dir) /\ y.todo = x.todo
      /\ y.opened = x.opened /\ y.created = x.created /\ y.logged = x.logged
      /\ y.store = x.store /\ y.buf = x.buf /\ y.drop = x.drop /\ y.dir = x.dir
      /\ y.rest = x.rest /\ y.done = x.done /\ y.gone = x.gone /\ y.err = x.err
  BY <1>1, <1>2, <1>3 DEF Local
<1>6. Go(t, y) /\ file' = [file EXCEPT ![x.store] = Plus(x.info, t, x.dir)]
      /\ UNCHANGED <<list, cache, listLock, storeLock, applied, spoiled, failures>>
  BY <1>2, <1>3 DEF disk, locks, history
<1> HIDE DEF y
<1>7. tx' \in [Tx -> Local] /\ tx'[t] = y /\ \A u \in Tx \ {t} : tx'[u] = tx[u]
  BY <1>1, <1>4, <1>6 DEF Go, Types
<1>8. /\ \A u \in Tx \ {t} : /\ x.store \notin tx[u].logged /\ tx[u].logged \subseteq Store
                             /\ tx[u].pc \in {"fill", "upwrite", "upcache", "undocache"} => tx[u].store \in Store \ {x.store}
      /\ x.store \in x.opened /\ storeLock[x.store] = t
      /\ file'[x.store] = Plus(x.info, t, x.dir) /\ \A r \in Store \ {x.store} : file'[r] = file[r]
  <2>1. x.store \in x.opened /\ storeLock[x.store] = t
    BY <1>1, <1>2 DEF CallShape, Holding, Updating, Locked
  <2>2. \A u \in Tx \ {t} : tx[u].pc \in {"fill", "upwrite", "upcache", "undocache"} => tx[u].store \in Store \ {x.store}
    BY <1>2, Alone
  <2> QED
    BY <1>1, <1>6, <1>3, <2>1, <2>2, Apart DEF Types
<1>9. Types'
  BY <1>1, <1>6, <1>7, <1>3, <1>8 DEF Types
<1>10. Shape(t)' /\ CallShape(t)' /\ Holding(t)' /\ Owing(t)'
  BY <1>1, <1>2, <1>5, <1>6, <1>7, <1>3, <1>8 DEF Shape, Adding, Removal, CallShape, Updating,
    Locked, Holding, Owing
<1>11. Creating(t)' /\ Undoing(t)' /\ Reading(t)'
  BY <1>1, <1>2, <1>5, <1>6, <1>7, <1>3, <1>8 DEF Creating, Absent, Removal, Undoing, Reading
<1>12. Listed'
  BY <1>1, <1>2, <1>5, <1>6, <1>7, <1>3, <1>8 DEF Listed, Absent, Shape
<1>13. \A u \in Tx \ {t} : Beside(u)
  <2> SUFFICES ASSUME NEW u \in Tx \ {t} PROVE Beside(u)
    OBVIOUS
  <2>1. x.store \notin tx[u].logged /\ tx[u].logged \subseteq Store
    BY <1>8
  <2>2. ASSUME NEW s \in tx[u].logged
        PROVE  (s \in list' <=> s \in list) /\ file'[s] = file[s] /\ cache'[s] = cache[s]
    <3>1. s \in Store \ {x.store}
      BY <2>1
    <3> QED
      BY <1>6, <1>8, <3>1
  <2>3. \A s \in Store : <<u, s>> \in applied' <=> <<u, s>> \in applied
    BY <1>6
  <2> QED
    BY <1>6, <1>7, <1>8, <2>1, <2>2, <2>3, StoresAssumption DEF Beside
<1>14. Copies'
  BY <1>1, <1>2, <1>5, <1>6, <1>7, <1>3, <1>8 DEF Copies
<1>15. Counts'
  <2>1. \A u \in Tx \ {t} : Written(u)' = Written(u) /\ tx'[u].dir = tx[u].dir
    BY <1>7 DEF Written
  <2>2. Written(t) = x.done /\ Written(t)' = x.done \cup {x.store}
    BY <1>2, <1>5, <1>7 DEF Written
  <2>3. x.store \notin x.done
    BY <1>1, <1>2 DEF CallShape, Updating, Locked
  <2>4. \A s \in Store \ {x.store} : \A u \in Tx : Due(u, s)' = Due(u, s)
    BY <1>5, <1>6, <1>7, <2>1, <2>2 DEF Due
  <2>5. \A u \in Tx \ {t}, s \in Store : Due(u, s)' = Due(u, s)
    BY <1>6, <2>1 DEF Due
  <2>6. \A s \in Store : s = x.store => Due(t, s)' = Due(t, s) + x.dir
    BY <1>1, <1>5, <1>6, <1>7, <2>2, <2>3 DEF Due, Local
  <2> SUFFICES ASSUME NEW s \in Store, file'[s] # None, s \notin spoiled', NEW u \in Tx
               PROVE  file'[s][u] = Due(u, s)'
    BY DEF Counts
  <2>7. CASE s # x.store
    BY <1>1, <1>6, <1>8, <2>4, <2>7 DEF Counts
  <2>8. CASE s = x.store
    <3>1. file[s][u] = Due(u, s)
      BY <1>1, <1>6, <1>3, <2>8 DEF Counts
    <3> QED
      BY <1>3, <1>8, <2>5, <2>6, <2>8, <3>1, PlusIs DEF Local
  <2> QED
    BY <2>7, <2>8
<1> QED
  BY <1>9, <1>10, <1>11, <1>12, <1>13, <1>14, <1>15, Besides

\* It caches what it wrote, and goes on to the next store.
LEMMA UpdateNextStep ==
  ASSUME ~ SlowFill, OwnStores, StoresInv, NEW t \in Tx,
         tx[t].pc = "upcache", tx[t].rest \ {tx[t].store} # {}, cache' = NewCopy(t),
         Go(t, [tx[t] EXCEPT !.pc = "upread", !.rest = tx[t].rest \ {tx[t].store}, !.done = tx[t].done \cup {tx[t].store}, !.store = Min(tx[t].rest \ {tx[t].store})]),
         UNCHANGED <<disk, locks, history>>
  PROVE  StoresInv'
<1> DEFINE x == tx[t]
           y == [x EXCEPT !.pc = "upread", !.rest = x.rest \ {x.store}, !.done = x.done \cup {x.store}, !.store = Min(x.rest \ {x.store})]
<1>1. /\ Types /\ Listed /\ Copies /\ Counts /\ x \in Local /\ Shape(t) /\ CallShape(t)
      /\ Holding(t) /\ Owing(t) /\ Creating(t) /\ Undoing(t) /\ Reading(t)
  BY DEF StoresInv, Mine, Types
<1>2. x.pc = "upcache" /\ x.rest \ {x.store} # {}
  OBVIOUS
<1>3. /\ x.store \in Store /\ x.store \in x.rest /\ file[x.store] \in Infos /\ x.info = file[x.store]
      /\ Min(x.rest \ {x.store}) \in x.rest \ {x.store} /\ Min(x.rest \ {x.store}) \in Store
  <2>1. x.store \in x.rest /\ x.rest \subseteq Store /\ x.info = file[x.store] /\ x.info \in Infos
    BY <1>1, <1>2 DEF CallShape, Reading, Local
  <2>2. Min(x.rest \ {x.store}) \in x.rest \ {x.store}
    BY <1>2, <2>1, MinIn
  <2> QED
    BY <2>1, <2>2
<1>4. y \in Local
  BY <1>1, <1>2, <1>3 DEF Local, Points, Adding, Removal, Updating, Locked
<1>5. /\ y.pc = "upread" /\ y.rest = x.rest \ {x.store} /\ y.done = x.done \cup {x.store}
      /\ y.store = Min(x.rest \ {x.store}) /\ y.todo = x.todo /\ y.opened = x.opened
      /\ y.created = x.created /\ y.logged = x.logged /\ y.info = x.info /\ y.buf = x.buf
      /\ y.drop = x.drop /\ y.dir = x.dir /\ y.gone = x.gone /\ y.err = x.err
  BY <1>1, <1>2, <1>3 DEF Local
<1>6. Go(t, y) /\ cache' = [cache EXCEPT ![x.store] = file[x.store]]
      /\ UNCHANGED <<list, file, listLock, storeLock, applied, spoiled, failures>>
  BY <1>2, <1>3 DEF NewCopy, disk, locks, history
<1> HIDE DEF y
<1>7. tx' \in [Tx -> Local] /\ tx'[t] = y /\ \A u \in Tx \ {t} : tx'[u] = tx[u]
  BY <1>1, <1>4, <1>6 DEF Go, Types
<1>8. /\ \A u \in Tx \ {t} : x.store \notin tx[u].logged /\ tx[u].logged \subseteq Store
      /\ x.store \in x.opened /\ storeLock[x.store] = t
      /\ cache'[x.store] = file[x.store] /\ \A r \in Store \ {x.store} : cache'[r] = cache[r]
  <2>1. x.store \in x.opened /\ storeLock[x.store] = t
    BY <1>1, <1>2 DEF CallShape, Holding, Updating, Locked
  <2> QED
    BY <1>1, <1>6, <1>3, <2>1, Apart DEF Types
<1>9. Types'
  BY <1>1, <1>6, <1>7, <1>3, <1>8 DEF Types
<1>10. Shape(t)' /\ CallShape(t)' /\ Holding(t)' /\ Owing(t)'
  BY <1>1, <1>2, <1>5, <1>6, <1>7, <1>3, <1>8 DEF Shape, Adding, Removal, CallShape, Updating,
    Locked, Holding, Owing
<1>11. Creating(t)' /\ Undoing(t)' /\ Reading(t)' /\ Listed'
  BY <1>1, <1>2, <1>5, <1>6, <1>7, <1>3, <1>8 DEF Creating, Absent, Removal, Undoing, Reading,
    Listed
<1>12. \A u \in Tx \ {t} : Beside(u)
  <2> SUFFICES ASSUME NEW u \in Tx \ {t} PROVE Beside(u)
    OBVIOUS
  <2>1. x.store \notin tx[u].logged /\ tx[u].logged \subseteq Store
    BY <1>8
  <2>2. ASSUME NEW s \in tx[u].logged
        PROVE  (s \in list' <=> s \in list) /\ file'[s] = file[s] /\ cache'[s] = cache[s]
    <3>1. s \in Store \ {x.store}
      BY <2>1
    <3> QED
      BY <1>6, <1>8, <3>1
  <2>3. \A s \in Store : <<u, s>> \in applied' <=> <<u, s>> \in applied
    BY <1>6
  <2> QED
    BY <1>6, <1>7, <1>8, <2>1, <2>2, <2>3, StoresAssumption DEF Beside
<1>13. Copies'
  <2> SUFFICES ASSUME NEW s \in Store, cache'[s] \notin {None, file'[s]}
               PROVE  \E u \in Tx : tx'[u].pc \in {"upcache", "undocache"} /\ tx'[u].store = s
    BY DEF Copies
  <2>1. cache[s] \notin {None, file[s]} /\ (x.pc \in {"upcache", "undocache"} => s # x.store)
    BY <1>1, <1>2, <1>6, <1>3, <1>8
  <2>2. PICK u \in Tx : tx[u].pc \in {"upcache", "undocache"} /\ tx[u].store = s
    BY <1>1, <2>1 DEF Copies
  <2> QED
    BY <1>7, <2>1, <2>2
<1>14. Counts'
  <2>1. \A u \in Tx : Written(u)' = Written(u) /\ tx'[u].dir = tx[u].dir
    BY <1>2, <1>5, <1>7, <1>3 DEF Written
  <2> QED
    BY <1>1, <1>6, <2>1 DEF Counts, Due
<1> QED
  BY <1>9, <1>10, <1>11, <1>12, <1>13, <1>14, Besides

\* It caches what it wrote last: the call has succeeded.
LEMMA UpdateLastStep ==
  ASSUME ~ SlowFill, OwnStores, StoresInv, NEW t \in Tx,
         tx[t].pc = "upcache", tx[t].rest \ {tx[t].store} = {}, cache' = NewCopy(t),
         Go(t, AfterUpdate(t, TRUE)), UnlockStores(t),
         applied' = IF tx[t].dir = 1 THEN applied \cup {<<t, r>> : r \in tx[t].done \cup {tx[t].store}} ELSE applied \ {<<t, r>> : r \in tx[t].done \cup {tx[t].store}},
         UNCHANGED <<disk, listLock, spoiled, failures>>
  PROVE  StoresInv'
<1> DEFINE x == tx[t]
           y == AfterUpdate(t, TRUE)
<1>1. /\ Types /\ Listed /\ Copies /\ Counts /\ x \in Local /\ Shape(t) /\ CallShape(t)
      /\ Holding(t) /\ Owing(t) /\ Creating(t) /\ Undoing(t) /\ Reading(t)
  BY DEF StoresInv, Mine, Types
<1>2. x.pc = "upcache" /\ x.rest \ {x.store} = {}
  OBVIOUS
<1>3. /\ x.store \in Store /\ x.store \in x.rest /\ x.rest = {x.store} /\ x.done \subseteq Store
      /\ file[x.store] \in Infos /\ x.info = file[x.store]
  BY <1>1, <1>2 DEF CallShape, Reading, Local
<1>4. y \in Local
  BY <1>1, AfterSuccess DEF Returned
<1>5. /\ y.rest = {} /\ y.done = {}
      /\ (\/ x.dir = 1 /\ y.pc = "applied" /\ y.drop = x.drop
          \/ x.dir # 1 /\ x.created = {} /\ y.pc = "rolledback" /\ y.drop = {}
          \/ x.dir # 1 /\ y.pc = "rmlock" /\ y.store \in x.created /\ y.drop = x.created \ {y.store})
      /\ y.todo = x.todo /\ y.opened = x.opened /\ y.created = x.created
      /\ y.logged = x.logged /\ y.dir = x.dir
  BY <1>1, AfterSuccess DEF Returned, Removes
<1>6. Go(t, y) /\ cache' = [cache EXCEPT ![x.store] = file[x.store]] /\ UnlockStores(t)
      /\ storeLock' = storeLock'
      /\ applied' = (IF x.dir = 1 THEN applied \cup {<<t, r>> : r \in x.done \cup {x.store}}
                                ELSE applied \ {<<t, r>> : r \in x.done \cup {x.store}})
      /\ UNCHANGED <<list, file, listLock, spoiled, failures>>
  BY <1>2, <1>3 DEF NewCopy, disk, locks, history
<1> HIDE DEF y
<1>7. tx' \in [Tx -> Local] /\ tx'[t] = y /\ \A u \in Tx \ {t} : tx'[u] = tx[u]
  <2>1. Go(t, y)
    BY <1>6
  <2> QED
    BY <1>1, <1>4, <2>1 DEF Go, Types
<1>8. /\ \A u \in Tx \ {t} : x.store \notin tx[u].logged /\ tx[u].logged \subseteq Store
      /\ x.store \in x.opened /\ storeLock[x.store] = t
      /\ cache'[x.store] = file[x.store] /\ \A r \in Store \ {x.store} : cache'[r] = cache[r]
  <2>1. x.store \in x.opened /\ storeLock[x.store] = t
    BY <1>1, <1>2 DEF CallShape, Holding, Updating, Locked
  <2> QED
    BY <1>1, <1>6, <1>3, <2>1, Apart DEF Types
<1>9. Types'
  <2>1. storeLock' \in [Store -> Tx \cup {Free}]
    BY <1>1, <1>6 DEF Types, UnlockStores
  <2>2. cache' \in [Store -> Infos \cup {None}]
    BY <1>1, <1>6, <1>3, <1>8 DEF Types
  <2>3. applied' \subseteq Tx \X Store
    BY <1>1, <1>6, <1>3 DEF Types
  <2> QED
    BY <1>1, <1>6, <1>7, <1>3, <2>1, <2>2, <2>3 DEF Types
<1>10. Shape(t)'
  <2>1. x.logged = x.created
    BY <1>1, <1>2 DEF Shape, Adding, Removal
  <2>2. y.drop \subseteq x.logged
    BY <1>1, <1>5, <2>1 DEF Shape
  <2>3. CASE y.pc = "applied"
    BY <1>1, <1>5, <1>7, <2>1, <2>2, <2>3 DEF Shape, Adding, Removal
  <2>4. CASE y.pc # "applied"
    BY <1>1, <1>5, <1>7, <2>1, <2>2, <2>4 DEF Shape, Adding, Removal
  <2> QED
    BY <2>3, <2>4
<1>11. CallShape(t)'
  BY <1>1, <1>2, <1>5, <1>6, <1>7, <1>3, <1>8 DEF CallShape, Updating, Locked
<1>12. Holding(t)'
  BY <1>1, <1>2, <1>5, <1>6, <1>7, <1>3, <1>8 DEF Holding, Locked, Adding, Removal,
    UnlockStores
<1>13. Owing(t)'
  <2>1. x.rest \cup x.done \subseteq x.opened /\ x.opened \subseteq Store
    BY <1>1, <1>2 DEF CallShape, Updating, Locked, Local
  <2>2. x.dir = 1 => x.opened = x.done \cup {x.store}
    BY <1>1, <1>2, <1>3 DEF CallShape
  <2>3. \A s \in Store : <<t, s>> \in applied' =>
          (x.dir = 1 /\ s \in x.done \cup {x.store}) \/ <<t, s>> \in applied
    BY <1>6
  <2>4. x.dir = 1 => \A s \in x.done \cup {x.store} : <<t, s>> \in applied'
    BY <1>6
  <2> QED
    BY <1>1, <1>2, <1>5, <1>7, <1>3, <2>1, <2>2, <2>3, <2>4 DEF Owing, Updating, Locked, Local
<1>14. Creating(t)' /\ Reading(t)' /\ Listed'
  BY <1>1, <1>2, <1>5, <1>6, <1>7, <1>3, <1>8 DEF Creating, Absent, Removal, Reading, Listed
<1>15. Undoing(t)'
  BY <1>1, <1>2, <1>5, <1>6, <1>7, <1>3, <1>8 DEF Undoing, Absent, Removal, Shape, Adding
<1>16. \A u \in Tx \ {t} : Beside(u)
  <2> SUFFICES ASSUME NEW u \in Tx \ {t} PROVE Beside(u)
    OBVIOUS
  <2>1. x.store \notin tx[u].logged /\ tx[u].logged \subseteq Store
    BY <1>8
  <2>2. ASSUME NEW s \in tx[u].logged
        PROVE  (s \in list' <=> s \in list) /\ file'[s] = file[s] /\ cache'[s] = cache[s]
    <3>1. s \in Store \ {x.store}
      BY <2>1
    <3> QED
      BY <1>6, <1>8, <3>1
  <2>3. \A s \in Store : <<u, s>> \in applied' <=> <<u, s>> \in applied
    BY <1>6
  <2> QED
    BY <1>6, <1>7, <1>8, <2>1, <2>2, <2>3, StoresAssumption DEF Beside, UnlockStores
<1>17. Copies'
  <2> SUFFICES ASSUME NEW s \in Store, cache'[s] \notin {None, file'[s]}
               PROVE  \E u \in Tx : tx'[u].pc \in {"upcache", "undocache"} /\ tx'[u].store = s
    BY DEF Copies
  <2>1. cache[s] \notin {None, file[s]} /\ (x.pc \in {"upcache", "undocache"} => s # x.store)
    BY <1>1, <1>2, <1>6, <1>3, <1>8
  <2>2. PICK u \in Tx : tx[u].pc \in {"upcache", "undocache"} /\ tx[u].store = s
    BY <1>1, <2>1 DEF Copies
  <2> QED
    BY <1>7, <2>1, <2>2
<1>18. Counts'
  <2>1. Written(t)' = {} /\ Written(t) = x.done \cup {x.store}
    BY <1>2, <1>5, <1>7 DEF Written
  <2>2. \A u \in Tx \ {t} : Written(u)' = Written(u) /\ tx'[u].dir = tx[u].dir
    BY <1>7 DEF Written
  <2>3. ASSUME NEW u \in Tx \ {t}, NEW s \in Store PROVE Due(u, s)' = Due(u, s)
    <3>1. <<u, s>> \in applied' <=> <<u, s>> \in applied
      BY <1>6
    <3> QED
      BY <2>2, <3>1 DEF Due
  <2>4. ASSUME NEW s \in Store \ Written(t) PROVE Due(t, s)' = Due(t, s)
    <3>1. <<t, s>> \in applied' <=> <<t, s>> \in applied
      BY <1>6, <2>1
    <3> QED
      BY <2>1, <3>1 DEF Due
  <2>5. ASSUME NEW s \in Written(t) PROVE Due(t, s)' = Due(t, s)
    <3>1. CASE x.dir = 1
      <4>1. s \in Store /\ <<t, s>> \notin applied /\ <<t, s>> \in applied'
        BY <1>1, <1>2, <1>6, <1>3, <2>1, <3>1 DEF Owing
      <4> QED
        BY <2>1, <3>1, <4>1 DEF Due
    <3>2. CASE x.dir = -1
      <4>1. <<t, s>> \in applied
        BY <1>1, <1>2, <1>3, <2>1, <3>2 DEF Owing, Updating, Locked
      <4>2. <<t, s>> \notin applied'
        BY <1>6, <2>1, <3>2
      <4> QED
        BY <2>1, <3>2, <4>1, <4>2 DEF Due
    <3> QED
      BY <1>1, <3>1, <3>2 DEF Local
  <2> QED
    BY <1>1, <1>6, <2>3, <2>4, <2>5 DEF Counts
<1> QED
  BY <1>9, <1>10, <1>11, <1>12, <1>13, <1>14, <1>15, <1>16, <1>17,
    <1>18, Besides

\* A call that has nothing left to undo has failed.
LEMMA CallFailedStep ==
  ASSUME ~ SlowFill, OwnStores, StoresInv, NEW t \in Tx,
         tx[t].pc \in {"upwrite", "undo", "undocache"}, tx[t].done \subseteq {tx[t].store},
         cache' \in {cache, [cache EXCEPT ![tx[t].store] = file[tx[t].store]]},
         tx[t].pc = "undocache" => cache' = [cache EXCEPT ![tx[t].store] = file[tx[t].store]],
         spoiled' \in {spoiled, spoiled \cup {tx[t].store}},
         tx[t].pc = "undo" => spoiled' = spoiled \cup {tx[t].store}, failures' \in Nat,
         Go(t, AfterUpdate(t, FALSE)), UnlockStores(t),
         UNCHANGED <<disk, listLock, applied>>
  PROVE  StoresInv'
<1> DEFINE x == tx[t]
           y == AfterUpdate(t, FALSE)
<1>1. /\ Types /\ Listed /\ Copies /\ Counts /\ x \in Local /\ Shape(t) /\ CallShape(t)
      /\ Holding(t) /\ Owing(t) /\ Creating(t) /\ Undoing(t) /\ Reading(t)
  BY DEF StoresInv, Mine, Types
<1>2. x.pc \in {"upwrite", "undo", "undocache"} /\ x.done \subseteq {x.store}
  OBVIOUS
<1>3. /\ x.store \in Store /\ x.done \subseteq Store /\ file[x.store] \in Infos /\ file[x.store] # None
      /\ (x.pc = "upwrite" => x.done = {})
  <2>1. x.store \in x.rest \cup x.done /\ x.rest \cup x.done \subseteq Store /\ x.pc \in Locked
    BY <1>1, <1>2 DEF CallShape, Locked, Local
  <2>2. file[x.store] \in Infos /\ file[x.store] # None
    BY <1>1, <1>2, <2>1, OwnCopy DEF Reading, Local
  <2>3. x.pc = "upwrite" => x.store \notin x.done
    BY <1>1 DEF CallShape, Updating, Locked
  <2> QED
    BY <1>2, <2>1, <2>2, <2>3
<1>4. y \in Local
  BY <1>1, AfterFailure DEF Returned
<1>5. /\ y.rest = {} /\ y.done = {}
      /\ (\/ x.created = {} /\ y.pc = "rolledback" /\ y.drop = {}
          \/ y.pc = "rmlock" /\ y.store \in x.created /\ y.drop = x.created \ {y.store})
      /\ y.todo = x.todo /\ y.opened = x.opened /\ y.created = x.created
      /\ y.logged = x.logged /\ y.dir = x.dir
  BY <1>1, AfterFailure DEF Returned, Removes
<1>6. Go(t, y) /\ cache' \in {cache, [cache EXCEPT ![x.store] = file[x.store]]}
      /\ (x.pc = "undocache" => cache' = [cache EXCEPT ![x.store] = file[x.store]])
      /\ spoiled' \in {spoiled, spoiled \cup {x.store}}
      /\ (x.pc = "undo" => spoiled' = spoiled \cup {x.store}) /\ UnlockStores(t)
      /\ storeLock' = storeLock' /\ failures' \in Nat
      /\ UNCHANGED <<list, file, listLock, applied>>
  BY <1>2, <1>3 DEF disk, locks, history
<1> HIDE DEF y
<1>7. tx' \in [Tx -> Local] /\ tx'[t] = y /\ \A u \in Tx \ {t} : tx'[u] = tx[u]
  BY <1>1, <1>4, <1>6 DEF Go, Types
<1>8. /\ \A u \in Tx \ {t} : x.store \notin tx[u].logged /\ tx[u].logged \subseteq Store
      /\ x.store \in x.opened /\ storeLock[x.store] = t
      /\ cache'[x.store] \in {cache[x.store], file[x.store]} /\ \A r \in Store \ {x.store} : cache'[r] = cache[r]
      /\ (x.pc = "undocache" => cache'[x.store] = file[x.store]) /\ cache' \in [Store -> Infos \cup {None}]
  <2>1. x.store \in x.opened /\ storeLock[x.store] = t
    BY <1>1, <1>2 DEF CallShape, Holding, Updating, Locked
  <2> QED
    BY <1>1, <1>6, <1>3, <2>1, Apart DEF Types
<1>9. Types'
  <2>1. storeLock' \in [Store -> Tx \cup {Free}]
    BY <1>1, <1>6 DEF Types, UnlockStores
  <2>2. cache' \in [Store -> Infos \cup {None}]
    BY <1>1, <1>6, <1>3, <1>8 DEF Types
  <2>3. applied' \subseteq Tx \X Store
    BY <1>1, <1>6, <1>3 DEF Types
  <2> QED
    BY <1>1, <1>6, <1>7, <1>3, <2>1, <2>2, <2>3 DEF Types
<1>10. Shape(t)' /\ CallShape(t)' /\ Holding(t)'
  BY <1>1, <1>2, <1>5, <1>6, <1>7, <1>3, <1>8 DEF Shape, Adding, Removal, CallShape, Updating,
    Locked, Holding
<1>11. Owing(t)'
  BY <1>1, <1>2, <1>5, <1>6, <1>7, <1>3, <1>8 DEF Owing, Updating, Locked, Shape
<1>12. Creating(t)' /\ Reading(t)' /\ Listed'
  BY <1>1, <1>2, <1>5, <1>6, <1>7, <1>3, <1>8 DEF Creating, Absent, Removal, Reading, Listed
<1>13. Undoing(t)'
  BY <1>1, <1>2, <1>5, <1>6, <1>7, <1>3, <1>8 DEF Undoing, Absent, Removal, Shape, Adding
<1>14. \A u \in Tx \ {t} : Beside(u)
  <2> SUFFICES ASSUME NEW u \in Tx \ {t} PROVE Beside(u)
    OBVIOUS
  <2>1. x.store \notin tx[u].logged /\ tx[u].logged \subseteq Store
    BY <1>8
  <2>2. ASSUME NEW s \in tx[u].logged
        PROVE  (s \in list' <=> s \in list) /\ file'[s] = file[s] /\ cache'[s] = cache[s]
    <3>1. s \in Store \ {x.store}
      BY <2>1
    <3> QED
      BY <1>6, <1>8, <3>1
  <2>3. \A s \in Store : <<u, s>> \in applied' <=> <<u, s>> \in applied
    BY <1>6
  <2> QED
    BY <1>6, <1>7, <1>8, <2>1, <2>2, <2>3, StoresAssumption DEF Beside, UnlockStores
<1>15. Copies'
  <2> SUFFICES ASSUME NEW s \in Store, cache'[s] \notin {None, file'[s]}
               PROVE  \E u \in Tx : tx'[u].pc \in {"upcache", "undocache"} /\ tx'[u].store = s
    BY DEF Copies
  <2>1. cache[s] \notin {None, file[s]} /\ (x.pc \in {"upcache", "undocache"} => s # x.store)
    BY <1>1, <1>2, <1>6, <1>3, <1>8
  <2>2. PICK u \in Tx : tx[u].pc \in {"upcache", "undocache"} /\ tx[u].store = s
    BY <1>1, <2>1 DEF Copies
  <2> QED
    BY <1>7, <2>1, <2>2
<1>16. Counts'
  <2>1. Written(t)' = {} /\ \A s \in Written(t) : s \in spoiled'
    BY <1>2, <1>5, <1>6, <1>7, <1>3 DEF Written
  <2>2. \A u \in Tx \ {t} : Written(u)' = Written(u) /\ tx'[u].dir = tx[u].dir
    BY <1>7 DEF Written
  <2>3. \A u \in Tx, s \in Store : s \notin spoiled' => Due(u, s)' = Due(u, s) /\ s \notin spoiled
    BY <1>6, <2>1, <2>2 DEF Due
  <2> QED
    BY <1>1, <1>6, <2>3 DEF Counts
<1> QED
  BY <1>9, <1>10, <1>11, <1>12, <1>13, <1>14, <1>15, <1>16, Besides

\* Update does not get a lock: it has failed before it wrote anything.
LEMMA UpdateGivenUpStep ==
  ASSUME ~ SlowFill, OwnStores, StoresInv, NEW t \in Tx,
         tx[t].pc = "uplock", Go(t, AfterUpdate(t, FALSE)),
         UNCHANGED <<disk, cache, locks, history>>
  PROVE  StoresInv'
<1> DEFINE x == tx[t]
           y == AfterUpdate(t, FALSE)
<1>1. /\ Types /\ Listed /\ Copies /\ Counts /\ x \in Local /\ Shape(t) /\ CallShape(t)
      /\ Holding(t) /\ Owing(t) /\ Creating(t) /\ Undoing(t) /\ Reading(t)
  BY DEF StoresInv, Mine, Types
<1>2. x.pc = "uplock"
  OBVIOUS
<1>3. y \in Local
  BY <1>1, AfterFailure DEF Returned
<1>4. /\ y.rest = {} /\ y.done = {}
      /\ (\/ x.created = {} /\ y.pc = "rolledback" /\ y.drop = {}
          \/ y.pc = "rmlock" /\ y.store \in x.created /\ y.drop = x.created \ {y.store})
      /\ y.todo = x.todo /\ y.opened = x.opened /\ y.created = x.created
      /\ y.logged = x.logged /\ y.dir = x.dir
  BY <1>1, AfterFailure DEF Returned, Removes
<1>5. Go(t, y) /\ UNCHANGED <<list, file, cache, listLock, storeLock, applied, spoiled, failures>>
  BY <1>2 DEF disk, locks, history
<1> HIDE DEF y
<1>6. tx' \in [Tx -> Local] /\ tx'[t] = y /\ \A u \in Tx \ {t} : tx'[u] = tx[u]
  BY <1>1, <1>3, <1>5 DEF Go, Types
<1>7. Types'
  BY <1>1, <1>5, <1>6 DEF Types
<1>8. Shape(t)' /\ CallShape(t)' /\ Holding(t)' /\ Owing(t)'
  BY <1>1, <1>2, <1>4, <1>5, <1>6 DEF Shape, Adding, Removal, CallShape, Updating, Locked,
    Holding, Owing
<1>9. Creating(t)' /\ Reading(t)' /\ Listed'
  BY <1>1, <1>2, <1>4, <1>5, <1>6 DEF Creating, Absent, Removal, Reading, Listed
<1>10. Undoing(t)'
  BY <1>1, <1>2, <1>4, <1>5, <1>6 DEF Undoing, Absent, Removal, Shape, Adding
<1>11. (\A u \in Tx \ {t} : Beside(u)) /\ Copies'
  BY <1>1, <1>2, <1>4, <1>5, <1>6, StoresAssumption DEF Beside, Copies
<1>12. Counts'
  <2>1. \A u \in Tx : Written(u)' = Written(u) /\ tx'[u].dir = tx[u].dir
    BY <1>2, <1>4, <1>6 DEF Written
  <2> QED
    BY <1>1, <1>5, <2>1 DEF Counts, Due
<1> QED
  BY <1>7, <1>8, <1>9, <1>10, <1>11, <1>12, Besides

\* The undo goes on, or begins, with the next store.
LEMMA UndoNextStep ==
  ASSUME ~ SlowFill, OwnStores, StoresInv, NEW t \in Tx,
         NEW left,
         left = IF tx[t].pc = "upwrite" THEN tx[t].done ELSE tx[t].done \ {tx[t].store},
         left # {}, tx[t].pc \in {"upwrite", "undo", "undocache"},
         cache' \in {cache, [cache EXCEPT ![tx[t].store] = file[tx[t].store]]},
         tx[t].pc = "undocache" => cache' = [cache EXCEPT ![tx[t].store] = file[tx[t].store]],
         spoiled' \in {spoiled, spoiled \cup {tx[t].store}},
         tx[t].pc = "undo" => spoiled' = spoiled \cup {tx[t].store}, failures' \in Nat,
         Go(t, [tx[t] EXCEPT !.pc = "undo", !.done = left, !.store = Min(left), !.gone = FALSE]),
         UNCHANGED <<disk, locks, applied>>
  PROVE  StoresInv'
<1> DEFINE x == tx[t]
           y == [x EXCEPT !.pc = "undo", !.done = left, !.store = Min(left), !.gone = FALSE]
<1>1. /\ Types /\ Listed /\ Copies /\ Counts /\ x \in Local /\ Shape(t) /\ CallShape(t)
      /\ Holding(t) /\ Owing(t) /\ Creating(t) /\ Undoing(t) /\ Reading(t)
  BY DEF StoresInv, Mine, Types
<1>2. x.pc \in {"upwrite", "undo", "undocache"} /\ left # {}
  OBVIOUS
<1>3. /\ x.store \in Store /\ x.done \subseteq Store /\ file[x.store] \in Infos /\ file[x.store] # None
      /\ left \subseteq x.done /\ left \subseteq Store /\ Min(left) \in left
  <2>1. x.store \in x.rest \cup x.done /\ x.rest \cup x.done \subseteq Store /\ x.pc \in Locked
    BY <1>1, <1>2 DEF CallShape, Locked, Local
  <2>2. file[x.store] \in Infos /\ file[x.store] # None
    BY <1>1, <1>2, <2>1, OwnCopy DEF Reading, Local
  <2>3. left \subseteq x.done
    OBVIOUS
  <2>4. Min(left) \in left
    BY <1>2, <2>1, <2>3, MinIn
  <2> QED
    BY <2>1, <2>2, <2>3, <2>4
<1>4. y \in Local
  <2>1. "undo" \in Points /\ Min(left) \in Store /\ left \in SUBSET Store
    BY <1>3 DEF Points, Updating, Locked
  <2> QED
    BY <1>1, <2>1 DEF Local
<1>5. /\ y.pc = "undo" /\ y.done = left /\ y.store = Min(left) /\ y.gone = FALSE
      /\ y.todo = x.todo /\ y.opened = x.opened /\ y.created = x.created
      /\ y.logged = x.logged /\ y.info = x.info /\ y.buf = x.buf /\ y.drop = x.drop
      /\ y.dir = x.dir /\ y.rest = x.rest /\ y.err = x.err
  BY <1>1, <1>2, <1>3 DEF Local
<1>6. Go(t, y) /\ cache' \in {cache, [cache EXCEPT ![x.store] = file[x.store]]}
      /\ (x.pc = "undocache" => cache' = [cache EXCEPT ![x.store] = file[x.store]])
      /\ spoiled' \in {spoiled, spoiled \cup {x.store}}
      /\ (x.pc = "undo" => spoiled' = spoiled \cup {x.store}) /\ failures' \in Nat
      /\ UNCHANGED <<list, file, listLock, storeLock, applied>>
  BY <1>2, <1>3 DEF disk, locks, history
<1> HIDE DEF y
<1>7. tx' \in [Tx -> Local] /\ tx'[t] = y /\ \A u \in Tx \ {t} : tx'[u] = tx[u]
  BY <1>1, <1>4, <1>6 DEF Go, Types
<1>8. /\ \A u \in Tx \ {t} : x.store \notin tx[u].logged /\ tx[u].logged \subseteq Store
      /\ x.store \in x.opened /\ storeLock[x.store] = t
      /\ cache'[x.store] \in {cache[x.store], file[x.store]} /\ \A r \in Store \ {x.store} : cache'[r] = cache[r]
      /\ (x.pc = "undocache" => cache'[x.store] = file[x.store]) /\ cache' \in [Store -> Infos \cup {None}]
  <2>1. x.store \in x.opened /\ storeLock[x.store] = t
    BY <1>1, <1>2 DEF CallShape, Holding, Updating, Locked
  <2> QED
    BY <1>1, <1>6, <1>3, <2>1, Apart DEF Types
<1>9. Types'
  BY <1>1, <1>6, <1>7, <1>3 DEF Types
<1>10. Shape(t)' /\ CallShape(t)' /\ Holding(t)' /\ Owing(t)'
  BY <1>1, <1>2, <1>5, <1>6, <1>7, <1>3, <1>8 DEF Shape, Adding, Removal, CallShape, Updating,
    Locked, Holding, Owing
<1>11. Creating(t)' /\ Undoing(t)' /\ Reading(t)' /\ Listed'
  BY <1>1, <1>2, <1>5, <1>6, <1>7, <1>3, <1>8 DEF Creating, Absent, Removal, Undoing, Reading,
    Listed
<1>12. \A u \in Tx \ {t} : Beside(u)
  <2> SUFFICES ASSUME NEW u \in Tx \ {t} PROVE Beside(u)
    OBVIOUS
  <2>1. x.store \notin tx[u].logged /\ tx[u].logged \subseteq Store
    BY <1>8
  <2>2. ASSUME NEW s \in tx[u].logged
        PROVE  (s \in list' <=> s \in list) /\ file'[s] = file[s] /\ cache'[s] = cache[s]
    <3>1. s \in Store \ {x.store}
      BY <2>1
    <3> QED
      BY <1>6, <1>8, <3>1
  <2>3. \A s \in Store : <<u, s>> \in applied' <=> <<u, s>> \in applied
    BY <1>6
  <2> QED
    BY <1>6, <1>7, <1>8, <2>1, <2>2, <2>3, StoresAssumption DEF Beside
<1>13. Copies'
  <2> SUFFICES ASSUME NEW s \in Store, cache'[s] \notin {None, file'[s]}
               PROVE  \E u \in Tx : tx'[u].pc \in {"upcache", "undocache"} /\ tx'[u].store = s
    BY DEF Copies
  <2>1. cache[s] \notin {None, file[s]} /\ (x.pc \in {"upcache", "undocache"} => s # x.store)
    BY <1>1, <1>2, <1>6, <1>3, <1>8
  <2>2. PICK u \in Tx : tx[u].pc \in {"upcache", "undocache"} /\ tx[u].store = s
    BY <1>1, <2>1 DEF Copies
  <2> QED
    BY <1>7, <2>1, <2>2
<1>14. Counts'
  <2>1. \A s \in Store : s \notin spoiled' => (s \in Written(t)' <=> s \in Written(t))
    BY <1>2, <1>5, <1>6, <1>7, <1>3 DEF Written
  <2>2. \A u \in Tx \ {t} : Written(u)' = Written(u) /\ tx'[u].dir = tx[u].dir
    BY <1>7 DEF Written
  <2>3. \A u \in Tx, s \in Store : s \notin spoiled' => Due(u, s)' = Due(u, s) /\ s \notin spoiled
    BY <1>5, <1>6, <1>7, <2>1, <2>2 DEF Due
  <2> QED
    BY <1>1, <1>6, <2>3 DEF Counts
<1> QED
  BY <1>9, <1>10, <1>11, <1>12, <1>13, <1>14, Besides

\* The delta is taken out of the file.
LEMMA UndoStep ==
  ASSUME ~ SlowFill, OwnStores, StoresInv, NEW t \in Tx,
         tx[t].pc = "undo", Settled(tx[t].store),
         Go(t, [tx[t] EXCEPT !.pc = "undocache", !.info = Plus(file[tx[t].store], t, - tx[t].dir)]),
         file' = [file EXCEPT ![tx[t].store] = Plus(file[tx[t].store], t, - tx[t].dir)],
         cache' = [cache EXCEPT ![tx[t].store] = file[tx[t].store]],
         UNCHANGED <<list, locks, history>>
  PROVE  StoresInv'
<1> DEFINE x == tx[t]
           y == [x EXCEPT !.pc = "undocache", !.info = Plus(file[x.store], t, - x.dir)]
<1>1. /\ Types /\ Listed /\ Copies /\ Counts /\ x \in Local /\ Shape(t) /\ CallShape(t)
      /\ Holding(t) /\ Owing(t) /\ Creating(t) /\ Undoing(t) /\ Reading(t)
  BY DEF StoresInv, Mine, Types
<1>2. x.pc = "undo" /\ Settled(x.store)
  OBVIOUS
<1>3. /\ x.store \in Store /\ file[x.store] \in Infos /\ file[x.store] # None /\ - x.dir \in Int
      /\ Plus(file[x.store], t, - x.dir) \in Infos /\ Plus(file[x.store], t, - x.dir) # None
  <2>1. x.store \in x.rest \cup x.done /\ x.pc \in Locked \ {"upcache", "undocache"}
    BY <1>1, <1>2 DEF CallShape, Locked
  <2>2. - x.dir \in Int
    BY <1>1 DEF Local
  <2> QED
    BY <2>1, <2>2, OwnCopy, PlusIs
<1>4. y \in Local
  BY <1>1, <1>2, <1>3 DEF Local, Points, Adding, Removal, Updating, Locked
<1>5. /\ y.pc = "undocache" /\ y.info = Plus(file[x.store], t, - x.dir) /\ y.todo = x.todo
      /\ y.opened = x.opened /\ y.created = x.created /\ y.logged = x.logged
      /\ y.store = x.store /\ y.buf = x.buf /\ y.drop = x.drop /\ y.dir = x.dir
      /\ y.rest = x.rest /\ y.done = x.done /\ y.gone = x.gone /\ y.err = x.err
  BY <1>1, <1>2, <1>3 DEF Local
<1>6. Go(t, y) /\ file' = [file EXCEPT ![x.store] = Plus(file[x.store], t, - x.dir)]
      /\ cache' = [cache EXCEPT ![x.store] = file[x.store]]
      /\ UNCHANGED <<list, listLock, storeLock, applied, spoiled, failures>>
  BY <1>2, <1>3 DEF disk, locks, history
<1> HIDE DEF y
<1>7. tx' \in [Tx -> Local] /\ tx'[t] = y /\ \A u \in Tx \ {t} : tx'[u] = tx[u]
  BY <1>1, <1>4, <1>6 DEF Go, Types
<1>8. /\ \A u \in Tx \ {t} : /\ x.store \notin tx[u].logged /\ tx[u].logged \subseteq Store
                             /\ tx[u].pc \in {"fill", "upwrite", "upcache", "undocache"} => tx[u].store \in Store \ {x.store}
      /\ x.store \in x.opened /\ storeLock[x.store] = t
      /\ file'[x.store] = Plus(file[x.store], t, - x.dir) /\ \A r \in Store \ {x.store} : file'[r] = file[r]
      /\ cache'[x.store] = file[x.store] /\ \A r \in Store \ {x.store} : cache'[r] = cache[r]
  <2>1. x.store \in x.opened /\ storeLock[x.store] = t
    BY <1>1, <1>2 DEF CallShape, Holding, Updating, Locked
  <2>2. \A u \in Tx \ {t} : tx[u].pc \in {"fill", "upwrite", "upcache", "undocache"} => tx[u].store \in Store \ {x.store}
    BY <1>2, Alone
  <2> QED
    BY <1>1, <1>6, <1>3, <2>1, <2>2, Apart DEF Types
<1>9. Types'
  BY <1>1, <1>6, <1>7, <1>3, <1>8 DEF Types
<1>10. Shape(t)' /\ CallShape(t)' /\ Holding(t)' /\ Owing(t)'
  BY <1>1, <1>2, <1>5, <1>6, <1>7, <1>3, <1>8 DEF Shape, Adding, Removal, CallShape, Updating,
    Locked, Holding, Owing
<1>11. Creating(t)' /\ Undoing(t)' /\ Reading(t)'
  BY <1>1, <1>2, <1>5, <1>6, <1>7, <1>3, <1>8 DEF Creating, Absent, Removal, Undoing, Reading
<1>12. Listed'
  BY <1>1, <1>2, <1>5, <1>6, <1>7, <1>3, <1>8 DEF Listed, Absent, Shape
<1>13. \A u \in Tx \ {t} : Beside(u)
  <2> SUFFICES ASSUME NEW u \in Tx \ {t} PROVE Beside(u)
    OBVIOUS
  <2>1. x.store \notin tx[u].logged /\ tx[u].logged \subseteq Store
    BY <1>8
  <2>2. ASSUME NEW s \in tx[u].logged
        PROVE  (s \in list' <=> s \in list) /\ file'[s] = file[s] /\ cache'[s] = cache[s]
    <3>1. s \in Store \ {x.store}
      BY <2>1
    <3> QED
      BY <1>6, <1>8, <3>1
  <2>3. \A s \in Store : <<u, s>> \in applied' <=> <<u, s>> \in applied
    BY <1>6
  <2> QED
    BY <1>6, <1>7, <1>8, <2>1, <2>2, <2>3, StoresAssumption DEF Beside
<1>14. Copies'
  BY <1>1, <1>2, <1>5, <1>6, <1>7, <1>3, <1>8 DEF Copies
<1>15. Counts'
  <2>1. \A u \in Tx \ {t} : Written(u)' = Written(u) /\ tx'[u].dir = tx[u].dir
    BY <1>7 DEF Written
  <2>2. Written(t) = x.done /\ Written(t)' = x.done \ {x.store}
    BY <1>2, <1>5, <1>7 DEF Written
  <2>3. x.store \in x.done
    BY <1>1, <1>2 DEF CallShape, Updating, Locked
  <2>4. \A s \in Store \ {x.store} : \A u \in Tx : Due(u, s)' = Due(u, s)
    BY <1>5, <1>6, <1>7, <2>1, <2>2 DEF Due
  <2>5. \A u \in Tx \ {t}, s \in Store : Due(u, s)' = Due(u, s)
    BY <1>6, <2>1 DEF Due
  <2>6. \A s \in Store : s = x.store => Due(t, s)' = Due(t, s) + (- x.dir)
    BY <1>1, <1>5, <1>6, <1>7, <2>2, <2>3 DEF Due, Local
  <2> SUFFICES ASSUME NEW s \in Store, file'[s] # None, s \notin spoiled', NEW u \in Tx
               PROVE  file'[s][u] = Due(u, s)'
    BY DEF Counts
  <2>7. CASE s # x.store
    BY <1>1, <1>6, <1>8, <2>4, <2>7 DEF Counts
  <2>8. CASE s = x.store
    <3>1. file[s][u] = Due(u, s)
      BY <1>1, <1>6, <1>3, <2>8 DEF Counts
    <3> QED
      BY <1>3, <1>8, <2>5, <2>6, <2>8, <3>1, PlusIs DEF Local
  <2> QED
    BY <2>7, <2>8
<1> QED
  BY <1>9, <1>10, <1>11, <1>12, <1>13, <1>14, <1>15, Besides

\* Update takes the locks of its stores.
LEMMA UpdateLockStep ==
  ASSUME ~ SlowFill, OwnStores, StoresInv, NEW t \in Tx,
         UpdateLock(t)
  PROVE  StoresInv'
<1> DEFINE x == tx[t]
           y == [x EXCEPT !.pc = "upread"]
<1>1. /\ Types /\ Listed /\ Copies /\ Counts /\ x \in Local /\ Shape(t) /\ CallShape(t)
      /\ Holding(t) /\ Owing(t) /\ Creating(t) /\ Undoing(t) /\ Reading(t)
  BY DEF StoresInv, Mine, Types
<1>2. x.pc = "uplock" /\ \A s \in x.rest : storeLock[s] = Free
  BY DEF UpdateLock
<1>3. y \in Local
  BY <1>1, <1>2 DEF Local, Points, Adding, Removal, Updating, Locked
<1>4. /\ y.pc = "upread" /\ y.todo = x.todo /\ y.opened = x.opened /\ y.created = x.created
      /\ y.logged = x.logged /\ y.store = x.store /\ y.info = x.info /\ y.buf = x.buf
      /\ y.drop = x.drop /\ y.dir = x.dir /\ y.rest = x.rest /\ y.done = x.done
      /\ y.gone = x.gone /\ y.err = x.err
  BY <1>1, <1>2 DEF Local
<1>5. Go(t, y) /\ storeLock' = [s \in Store |-> IF s \in x.rest THEN t ELSE storeLock[s]]
      /\ UNCHANGED <<list, file, cache, listLock, applied, spoiled, failures>>
  BY <1>2 DEF UpdateLock, disk, locks, history
<1> HIDE DEF y
<1>6. tx' \in [Tx -> Local] /\ tx'[t] = y /\ \A u \in Tx \ {t} : tx'[u] = tx[u]
  BY <1>1, <1>3, <1>5 DEF Go, Types
<1>7. x.done = {} /\ x.rest \subseteq Store
  BY <1>1, <1>2 DEF CallShape, Updating, Local
<1>8. Types'
  BY <1>1, <1>5, <1>6 DEF Types
<1>9. Shape(t)' /\ CallShape(t)' /\ Holding(t)' /\ Owing(t)'
  BY <1>1, <1>2, <1>4, <1>5, <1>6, <1>7 DEF Shape, Adding, Removal, CallShape, Updating,
    Locked, Holding, Owing
<1>10. Creating(t)' /\ Undoing(t)' /\ Reading(t)' /\ Listed'
  BY <1>1, <1>2, <1>4, <1>5, <1>6, <1>7 DEF Creating, Absent, Removal, Undoing, Reading,
    Listed
<1>11. (\A u \in Tx \ {t} : Beside(u)) /\ Copies'
  BY <1>1, <1>2, <1>4, <1>5, <1>6, <1>7, StoresAssumption DEF Beside, Copies
<1>12. Counts'
  <2>1. Written(t) = {} /\ Written(t)' = {}
    BY <1>1, <1>2, <1>4, <1>6, <1>7 DEF Written
  <2>2. \A u \in Tx : Written(u)' = Written(u) /\ tx'[u].dir = tx[u].dir
    BY <1>4, <1>6, <2>1 DEF Written
  <2> QED
    BY <1>1, <1>5, <2>2 DEF Counts, Due
<1> QED
  BY <1>8, <1>9, <1>10, <1>11, <1>12, Besides

\* A process dies.
LEMMA CrashStep ==
  ASSUME ~ SlowFill, OwnStores, StoresInv, NEW t \in Tx,
         Crash(t)
  PROVE  StoresInv'
<1> DEFINE x == tx[t]
           y == [x EXCEPT !.pc = "dead", !.crashed = TRUE]
<1>1. /\ Types /\ Listed /\ Copies /\ Counts /\ x \in Local /\ Shape(t) /\ CallShape(t)
      /\ Holding(t) /\ Owing(t) /\ Creating(t) /\ Undoing(t) /\ Reading(t)
  BY DEF StoresInv, Mine, Types
<1>2. x.pc \in {"idle", "fill"} \cup Adding \cup Removal /\ x.dir = 1
  BY DEF Crash, Adding, Removal
<1>3. y \in Local
  BY <1>1, <1>2 DEF Local, Points, Adding, Removal, Updating, Locked
<1>4. /\ y.pc = "dead" /\ y.crashed = TRUE /\ y.todo = x.todo /\ y.opened = x.opened
      /\ y.created = x.created /\ y.logged = x.logged /\ y.store = x.store
      /\ y.info = x.info /\ y.buf = x.buf /\ y.drop = x.drop /\ y.dir = x.dir
      /\ y.rest = x.rest /\ y.done = x.done /\ y.gone = x.gone /\ y.err = x.err
  BY <1>1, <1>2 DEF Local
<1>5. Go(t, y) /\ UNCHANGED <<list, file, cache, listLock, storeLock, applied, spoiled, failures>>
  BY <1>2 DEF Crash, disk, locks, history
<1> HIDE DEF y
<1>6. tx' \in [Tx -> Local] /\ tx'[t] = y /\ \A u \in Tx \ {t} : tx'[u] = tx[u]
  BY <1>1, <1>3, <1>5 DEF Go, Types
<1>7. Types'
  BY <1>1, <1>5, <1>6 DEF Types
<1>8. Shape(t)' /\ CallShape(t)' /\ Holding(t)'
  BY <1>1, <1>2, <1>4, <1>5, <1>6 DEF Shape, Adding, Removal, CallShape, Updating, Locked,
    Holding
<1>9. Owing(t)'
  BY <1>1, <1>2, <1>4, <1>5, <1>6 DEF Owing, Updating, Locked, Adding, Removal
<1>10. Creating(t)' /\ Undoing(t)' /\ Reading(t)' /\ Listed'
  BY <1>1, <1>2, <1>4, <1>5, <1>6 DEF Creating, Absent, Removal, Undoing, Reading, Listed
<1>11. \A u \in Tx \ {t} : Beside(u)
  BY <1>1, <1>2, <1>4, <1>5, <1>6, StoresAssumption DEF Beside
<1>12. Copies'
  BY <1>1, <1>2, <1>4, <1>5, <1>6 DEF Copies, Adding, Removal
<1>13. Counts'
  BY <1>1, <1>2, <1>4, <1>5, <1>6 DEF Counts, Due, Written, Adding, Removal
<1> QED
  BY <1>7, <1>8, <1>9, <1>10, <1>11, <1>12, <1>13, Besides

\* The lock of a dead process lapses.
LEMMA LapseStep ==
  ASSUME StoresInv, NEW t \in Tx, Lapse(t)
  PROVE  StoresInv'
<1>1. /\ tx[t].pc = "dead" /\ listLock = t /\ listLock' = Free
      /\ UNCHANGED <<list, file, cache, storeLock, tx, applied, spoiled, failures>>
  BY DEF Lapse, disk, history
<1>2. Types' /\ Listed' /\ Copies' /\ Counts'
  BY <1>1 DEF StoresInv, Types, Listed, Absent, Copies, Counts, Due, Written
<1>3. \A u \in Tx \ {t} : Beside(u)
  BY <1>1 DEF Beside
<1>4. Mine(t)
  BY DEF StoresInv
<1>5. Shape(t)' /\ CallShape(t)' /\ Owing(t)' /\ Creating(t)' /\ Undoing(t)' /\ Reading(t)'
  BY <1>1, <1>4 DEF Mine, Shape, CallShape, Owing, Creating, Undoing, Reading, Absent
<1>6. Holding(t)'
  BY <1>1 DEF Holding, Adding, Removal, Locked
<1> QED
  BY <1>2, <1>3, <1>5, <1>6, Besides

\* A cached copy expires.
LEMMA ExpireStep ==
  ASSUME StoresInv, NEW s \in Store, Expire(s)
  PROVE  StoresInv'
<1>1. /\ cache' = [cache EXCEPT ![s] = None]
      /\ UNCHANGED <<list, file, listLock, storeLock, tx, applied, spoiled, failures>>
  BY DEF Expire, disk, locks, history
<1>2. Types /\ Listed /\ Copies /\ Counts
  BY DEF StoresInv
<1>3. cache'[s] = None /\ \A r \in Store \ {s} : cache'[r] = cache[r]
  BY <1>1, <1>2 DEF Types
<1>4. Types'
  BY <1>1, <1>2 DEF Types
<1>5. Listed'
  BY <1>1, <1>2, <1>3 DEF Listed, Absent
<1>6. Copies'
  BY <1>1, <1>2, <1>3 DEF Copies
<1>7. Counts'
  BY <1>1, <1>2 DEF Counts, Due, Written
<1>8. ASSUME NEW u \in Tx PROVE Beside(u)
  <2>1. tx[u].logged \subseteq Store
    BY <1>2 DEF Types, Local
  <2>2. \A r \in tx[u].logged : cache[r] = None => cache'[r] = None
    BY <1>3, <2>1
  <2> QED
    BY <1>1, <2>2 DEF Beside
<1> QED
  BY <1>4, <1>5, <1>6, <1>7, <1>8, AllBeside

\* Nothing changes.
LEMMA StoresStutter ==
  ASSUME StoresInv, UNCHANGED vars
  PROVE  StoresInv'
<1>1. UNCHANGED <<list, file, cache, listLock, storeLock, tx, applied, spoiled, failures>>
  BY DEF vars
<1>2. Types' /\ Listed' /\ Copies' /\ Counts'
  BY <1>1 DEF StoresInv, Types, Listed, Absent, Copies, Counts, Due, Written
<1>3. \A u \in Tx : Beside(u)
  BY <1>1 DEF Beside
<1> QED
  BY <1>2, <1>3, AllBeside

-----------------------------------------------------------------------------
(* The theorems. *)

\* The invariant holds at the beginning.
LEMMA StoresInit ==
  ASSUME Init
  PROVE  StoresInv
<1>1. Zero \in Infos /\ Zero # None /\ \A t \in Tx : Zero[t] = 0
  BY StoresAssumption DEF Zero, Infos
<1>2. \A t \in Tx : tx[t] \in Local
  BY StoresAssumption DEF Init, Local, Points
<1>3. Types
  <2>1. tx \in [Tx -> Local]
    BY <1>2 DEF Init
  <2>2. file \in [Store -> Infos \cup {None}]
    BY <1>1 DEF Init
  <2> QED
    BY <2>1, <2>2, StoresAssumption DEF Init, Types
<1>4. Listed /\ Copies
  BY <1>1, StoresAssumption DEF Init, Listed, Absent, Copies
<1>5. \A t \in Tx : /\ tx[t].pc = "idle" /\ tx[t].todo = Uses[t] /\ tx[t].opened = {} /\ tx[t].created = {}
                    /\ tx[t].logged = {} /\ tx[t].drop = {} /\ tx[t].dir = 1
  BY DEF Init
<1>6. Counts
  <2>1. \A t \in Tx : Written(t) = {}
    BY <1>5 DEF Written
  <2> QED
    BY <1>1, <2>1 DEF Init, Counts, Due
<1>7. \A t \in Tx : Shape(t)
  BY <1>5 DEF Shape, Adding, Removal
<1>8. \A t \in Tx : CallShape(t) /\ Holding(t) /\ Creating(t) /\ Undoing(t) /\ Reading(t)
  BY <1>5 DEF CallShape, Holding, Creating, Undoing, Reading, Adding, Removal, Updating, Locked
<1>9. \A t \in Tx : Owing(t)
  BY <1>5 DEF Init, Owing, Updating, Locked
<1> QED
  BY <1>3, <1>4, <1>6, <1>7, <1>8, <1>9 DEF StoresInv, Mine

\* NewBtree opens the store, from the cache or from disk, or begins to create it.
LEMMA NewBtreeStep ==
  ASSUME ~ SlowFill, OwnStores, StoresInv, NEW t \in Tx, NEW s \in Store, NewBtree(t, s)
  PROVE  StoresInv'
<1> USE DEF disk, locks, history
<1>1. tx[t] \in Local /\ tx[t].pc = "idle" /\ s \in tx[t].todo
  BY DEF StoresInv, Types, NewBtree
<1>2. CASE Info(s) = None
  BY <1>1, <1>2, CreateStep DEF NewBtree
<1>3. CASE Info(s) # None /\ cache[s] # None
  BY <1>1, <1>3, OpenCachedStep DEF NewBtree
<1>4. CASE Info(s) # None /\ cache[s] = None
  <2> DEFINE x == [tx[t] EXCEPT !.todo = @ \ {s}, !.opened = @ \cup {s}]
             y == [tx[t] EXCEPT !.pc = "fill", !.todo = @ \ {s}, !.opened = @ \cup {s}, !.store = s, !.info = file[s]]
  <2>1. file[s] # None
    BY <1>4 DEF Info
  <2>2. [x EXCEPT !.pc = "fill", !.store = s, !.info = file[s]] = y
    BY <1>1 DEF Local
  <2>3. Go(t, [x EXCEPT !.pc = "fill", !.store = s, !.info = file[s]]) /\ UNCHANGED <<disk, cache, locks, history>>
    BY <1>4 DEF NewBtree
  <2>4. Go(t, y)
    BY <2>2, <2>3
  <2> QED
    BY <1>1, <2>1, <2>3, <2>4, OpenUncachedStep
<1> QED
  BY <1>2, <1>3, <1>4

\* Add fails while it writes the list or the info, or does not.
LEMMA AddSteps ==
  ASSUME ~ SlowFill, OwnStores, StoresInv, NEW t \in Tx, AddRead(t) \/ AddList(t) \/ AddInfo(t)
  PROVE  StoresInv'
<1> USE DEF disk, locks, history
<1>1. failures \in Nat
  BY DEF StoresInv, Types
<1>2. CASE AddRead(t)
  BY <1>1, <1>2, AddFailedStep, AddReadStep DEF AddRead
<1>3. CASE AddList(t)
  <2>1. tx[t].pc = "addlist" /\ UNCHANGED <<file, cache, storeLock, applied, spoiled>>
    BY <1>3 DEF AddList
  <2>2. CASE MayFail /\ AddFailed(t) /\ UNCHANGED list
    BY <1>1, <2>1, <2>2, AddFailedStep DEF MayFail
  <2>3. CASE /\ list' = tx[t].buf /\ Go(t, [tx[t] EXCEPT !.pc = "addinfo", !.buf = {}])
             /\ UNCHANGED <<listLock, failures>>
    BY <2>1, <2>3, AddListStep
  <2> QED
    BY <1>3, <2>2, <2>3 DEF AddList
<1>4. CASE AddInfo(t)
  BY <1>1, <1>4, AddFailedStep, AddInfoStep DEF AddInfo, MayFail
<1> QED
  BY <1>2, <1>3, <1>4

\* A write fails: the call returns, or undoes what it has written.
LEMMA UpdateWriteSteps ==
  ASSUME ~ SlowFill, OwnStores, StoresInv, NEW t \in Tx, UpdateWrite(t)
  PROVE  StoresInv'
<1> USE DEF disk, locks, history
<1> DEFINE x == tx[t]
<1>1. failures \in Nat /\ x \in Local /\ x.pc = "upwrite"
  BY DEF StoresInv, Types, UpdateWrite
<1> DEFINE new == Plus(x.info, t, x.dir)
<1>0. Settled(x.store) /\ UNCHANGED <<list, cache, listLock, applied, spoiled>>
  BY DEF UpdateWrite
<1>2. CASE /\ file' = [file EXCEPT ![x.store] = new] /\ Go(t, [x EXCEPT !.pc = "upcache", !.info = new])
           /\ UNCHANGED <<storeLock, failures>>
  BY <1>0, <1>1, <1>2, UpdateWriteStep
<1>3. CASE MayFail /\ StartUndo(t, FALSE) /\ UNCHANGED file
  <2>1. failures' \in Nat
    BY <1>1, <1>3 DEF MayFail
  <2>2. CASE x.done = {}
    BY <1>0, <1>1, <1>3, <2>1, <2>2, CallFailedStep DEF StartUndo
  <2>3. CASE x.done # {}
    <3> DEFINE y == [x EXCEPT !.pc = "undo", !.done = x.done, !.store = Min(x.done), !.gone = FALSE]
    <3>1. [x EXCEPT !.pc = "undo", !.store = Min(x.done), !.gone = FALSE] = y
      BY <1>1 DEF Local
    <3>2. Go(t, y) /\ UNCHANGED storeLock
      BY <1>3, <2>3, <3>1 DEF StartUndo
    <3> QED
      BY <1>0, <1>1, <1>3, <2>1, <2>3, <3>2, UndoNextStep
  <2> QED
    BY <2>2, <2>3
<1> QED
  BY <1>2, <1>3 DEF UpdateWrite

\* The undo goes on, or is over.
LEMMA UndoNextSteps ==
  ASSUME ~ SlowFill, OwnStores, StoresInv, NEW t \in Tx, tx[t].pc \in {"undo", "undocache"},
         cache' = [cache EXCEPT ![tx[t].store] = file[tx[t].store]],
         spoiled' \in {spoiled, spoiled \cup {tx[t].store}},
         tx[t].pc = "undo" => spoiled' = spoiled \cup {tx[t].store},
         failures' \in Nat, UndoNext(t), UNCHANGED <<disk, listLock, applied>>
  PROVE  StoresInv'
<1> USE DEF disk, locks, history
<1> DEFINE x == tx[t]
           left == x.done \ {x.store}
           y == [x EXCEPT !.pc = "undo", !.done = left, !.store = Min(left), !.gone = FALSE]
<1>1. x \in Local /\ x.gone = FALSE /\ x.store \in x.done
  BY DEF StoresInv, Mine, CallShape, Types, Local
<1>2. CASE left = {}
  BY <1>1, <1>2, CallFailedStep DEF UndoNext
<1>3. CASE left # {}
  <2>1. [x EXCEPT !.pc = "undo", !.done = left, !.store = Min(left)] = y
    BY <1>1 DEF Local
  <2>2. Go(t, y) /\ UNCHANGED storeLock
    BY <1>3, <2>1 DEF UndoNext
  <2> QED
    BY <1>3, <2>2, UndoNextStep
<1> QED
  BY <1>2, <1>3

\* A store is undone, or cannot be.
LEMMA UndoSteps ==
  ASSUME ~ SlowFill, OwnStores, StoresInv, NEW t \in Tx, Undo(t) \/ UndoCache(t)
  PROVE  StoresInv'
<1> USE DEF disk, locks, history
<1> DEFINE x == tx[t]
<1>1. Types /\ x \in Local /\ CallShape(t) /\ Reading(t) /\ failures \in Nat
  BY DEF StoresInv, Mine, Types
<1>2. CASE Undo(t)
  <2>1. x.pc = "undo" /\ x.store \in x.done
    BY <1>1, <1>2 DEF Undo, CallShape
  <2>2. Info(x.store) = file[x.store] /\ file[x.store] # None
    BY <2>1, OwnCopy DEF Locked
  <2>3. cache' = [cache EXCEPT ![x.store] = file[x.store]] /\ Settled(x.store)
    BY <1>2, <2>2 DEF Undo, Filled
  <2>4. UNCHANGED <<list, listLock, applied>>
    BY <1>2 DEF Undo
  <2> DEFINE new == Plus(file[x.store], t, - x.dir)
  <2>5. CASE /\ file' = [file EXCEPT ![x.store] = new] /\ Go(t, [x EXCEPT !.pc = "undocache", !.info = new])
             /\ UNCHANGED <<storeLock, spoiled, failures>>
    BY <2>1, <2>3, <2>4, <2>5, UndoStep
  <2>6. CASE MayFail /\ spoiled' = spoiled \cup {x.store} /\ UndoNext(t) /\ UNCHANGED file
    <3>1. failures' \in Nat
      BY <1>1, <2>6 DEF MayFail
    <3> QED
      BY <2>1, <2>3, <2>4, <2>6, <3>1, UndoNextSteps
  <2> QED
    BY <1>2, <2>2, <2>5, <2>6 DEF Undo
<1>3. CASE UndoCache(t)
  <2>1. x.pc = "undocache" /\ cache' = [cache EXCEPT ![x.store] = file[x.store]]
    BY <1>1, <1>3 DEF UndoCache, NewCopy, Reading
  <2> QED
    BY <1>1, <1>3, <2>1, UndoNextSteps DEF UndoCache
<1> QED
  BY <1>2, <1>3

\* Somebody gives up a lock, or a rollback begins.
LEMMA OtherSteps ==
  ASSUME ~ SlowFill, OwnStores, StoresInv, NEW t \in Tx,
         Rollback(t) \/ RollbackApplied(t) \/ GiveUp(t) \/ Crash(t) \/ Lapse(t) \/ Recover(t)
  PROVE  StoresInv'
<1> USE DEF disk, locks, history
<1>1. CASE Rollback(t) \/ Crash(t) \/ Lapse(t) \/ Recover(t)
  BY <1>1, RollbackStep, CrashStep, LapseStep, RecoverStep
<1>2. CASE RollbackApplied(t)
  BY <1>2, CreatedRemovedStep, RevertStep DEF RollbackApplied
<1>3. CASE GiveUp(t)
  BY <1>3, AddGivenUpStep, RemovalGivenUpStep, UpdateGivenUpStep DEF GiveUp
<1> QED
  BY <1>1, <1>2, <1>3

\* Every step keeps the invariant.
LEMMA StoresStep ==
  ASSUME ~ SlowFill, OwnStores, StoresInv, [Next]_vars
  PROVE  StoresInv'
<1> USE DEF disk, locks, history
<1>1. ASSUME NEW t \in Tx, Step(t) PROVE StoresInv'
  <2>1. CASE \/ RemoveLock(t) \/ RemoveRead(t) \/ RemoveCache(t) \/ FillCache(t) \/ AddLock(t)
             \/ AddCache(t) \/ Commit(t) \/ UpdateLock(t) \/ UpdateRead(t) \/ Finish(t)
    BY <2>1, RemoveLockStep, RemoveReadStep, RemoveCacheStep, FillCacheStep, AddLockStep,
       AddCacheStep, CommitStep, UpdateLockStep, UpdateReadStep, FinishStep
  <2>2. CASE RemoveFile(t)
    BY <2>2, FileRemovedStep, FileKeptStep DEF RemoveFile, MayFail
  <2>3. CASE RemoveList(t)
    BY <2>3, ListWrittenStep, ListKeptStep DEF RemoveList, MayFail
  <2>4. ASSUME NEW s \in Store, NewBtree(t, s) PROVE StoresInv'
    BY <2>4, NewBtreeStep
  <2>5. CASE AddRead(t) \/ AddList(t) \/ AddInfo(t)
    BY <2>5, AddSteps
  <2>6. CASE UpdateWrite(t)
    BY <2>6, UpdateWriteSteps
  <2>7. CASE UpdateCache(t)
    <3>1. tx[t].rest \ {tx[t].store} # {} \/ tx[t].rest \ {tx[t].store} = {}
      OBVIOUS
    <3> QED
      BY <2>7, <3>1, UpdateNextStep, UpdateLastStep DEF UpdateCache
  <2>8. CASE Undo(t) \/ UndoCache(t)
    BY <2>8, UndoSteps
  <2> QED
    BY <1>1, <2>1, <2>2, <2>3, <2>4, <2>5, <2>6, <2>7, <2>8 DEF Step
<1>2. ASSUME NEW s \in Store, Expire(s) PROVE StoresInv'
  BY <1>2, ExpireStep
<1>3. CASE UNCHANGED vars
  BY <1>3, StoresStutter
<1> QED
  BY <1>1, <1>2, <1>3, OtherSteps DEF Next

\* The inductive invariant: as long as no two transactions create the same store and nobody
\* writes an info between another's read of it and its write to the cache, every reachable state
\* satisfies it.
THEOREM StoresInvariant ==
  ASSUME ~ SlowFill, OwnStores
  PROVE  Spec => []StoresInv
<1>1. Init => StoresInv
  BY StoresInit
<1>2. StoresInv /\ [Next]_vars => StoresInv'
  BY StoresStep
<1> QED
  BY <1>1, <1>2, PTL DEF Spec

\* A count owes exactly the deltas of the calls of Update that succeeded: whatever fails, is
\* undone, rolled back or recovered, and in whatever order transactions take the locks.
THEOREM CountsAddUpHolds ==
  ASSUME ~ SlowFill, OwnStores
  PROVE  Spec => []CountsAddUp
<1>1. ASSUME StoresInv PROVE CountsAddUp
  <2> SUFFICES ASSUME NEW s \in Store, storeLock[s] = Free, file[s] # None, s \notin spoiled
               PROVE  file[s] = [t \in Tx |-> IF <<t, s>> \in applied THEN 1 ELSE 0]
    BY DEF CountsAddUp
  <2>1. Types /\ Counts
    BY <1>1 DEF StoresInv
  <2>2. ASSUME NEW t \in Tx PROVE s \notin Written(t)
    <3>1. CallShape(t) /\ Holding(t)
      BY <1>1 DEF StoresInv, Mine
    <3>2. t # Free
      BY StoresAssumption
    <3> QED
      BY <3>1, <3>2 DEF CallShape, Holding, Written, Locked
  <2>3. \A t \in Tx : file[s][t] = IF <<t, s>> \in applied THEN 1 ELSE 0
    BY <2>1, <2>2 DEF Counts, Due
  <2>4. file[s] \in Infos
    BY <2>1 DEF Types
  <2> QED
    BY <2>3, <2>4 DEF Infos
<1> QED
  BY <1>1, StoresInvariant, PTL

\* While nobody updates a store, what the cache has of it is what the file has.
THEOREM CacheIsCurrentHolds ==
  ASSUME ~ SlowFill, OwnStores
  PROVE  Spec => []CacheIsCurrent
<1>1. ASSUME StoresInv PROVE CacheIsCurrent
  <2> SUFFICES ASSUME NEW s \in Store, storeLock[s] = Free PROVE cache[s] \in {None, file[s]}
    BY DEF CacheIsCurrent
  <2>1. ASSUME NEW t \in Tx, tx[t].pc \in {"upcache", "undocache"} PROVE tx[t].store # s
    <3>1. CallShape(t) /\ Holding(t) /\ t # Free
      BY <1>1, StoresAssumption DEF StoresInv, Mine
    <3>2. storeLock[tx[t].store] = t
      BY <2>1, <3>1 DEF CallShape, Holding, Locked
    <3> QED
      BY <3>1, <3>2
  <2> QED
    BY <1>1, <2>1 DEF StoresInv, Copies
<1> QED
  BY <1>1, StoresInvariant, PTL

\* The store list keeps every store that was there, and every store created by a transaction that
\* has not been rolled back.
THEOREM CreatedIsListedHolds ==
  ASSUME ~ SlowFill, OwnStores
  PROVE  Spec => []CreatedIsListed
<1>1. ASSUME StoresInv PROVE CreatedIsListed
  BY <1>1 DEF StoresInv, Mine, Listed, Creating, Removal, CreatedIsListed
<1> QED
  BY <1>1, StoresInvariant, PTL

\* A rollback that reports no error has left no trace of the stores the transaction logged.
THEOREM RollbackLeavesNothingHolds ==
  ASSUME ~ SlowFill, OwnStores
  PROVE  Spec => []RollbackLeavesNothing
<1>1. ASSUME StoresInv PROVE RollbackLeavesNothing
  BY <1>1 DEF StoresInv, Mine, Undoing, Absent, RollbackLeavesNothing
<1> QED
  BY <1>1, StoresInvariant, PTL
=============================================================================
