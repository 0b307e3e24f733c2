---------------------------- MODULE HashMapProofs ----------------------------
(***************************************************************************)
(* What the registry files promise, for any handles, processes, hash       *)
(* function, block size and number of segment files.                       *)
(***************************************************************************)
EXTENDS HashMap, TLAPS, FiniteSetTheorems, WellFoundedInduction

\* What is assumed of the environment. Power cuts are left out: they may take the backup that
\* createCow has written and not synced.
NoPower == \A s \in Scenes : ~s.power

\* A call that reads the block without a lock deletes the backup a writer has just made, or is making,
\* or restores the block while it is being written.
Beside ==
  \E p, q \in Process :
    /\ p # q /\ FindOneFileRegion(p) /\ scene.tears
    /\ proc[q].seg = proc[p].seg /\ proc[q].pc \in {"cow2", "write", "write2"}

\* Calls overlap, or writes stop half way, not both; then there is no such reader.
NotBoth == \A s \in Scenes : ~(s.overlap /\ s.tears)

-----------------------------------------------------------------------------
(* The invariant: types, locks and buffers. *)

Locking   == {"lockhome", "truncate", "lockslot", "lockblock"}
Unwritten == {"read", "cow", "cow2", "write", "write2"}
Written   == {"uncow", "unlock"}
Placed    == {"lockslot", "lockblock"} \cup Unwritten
Settled   == {"lockblock"} \cup Unwritten
Kind      == {"add", "set", "remove", "fetch"}
Recs      == {Vacant} \cup [id : ID, ver : Nat \ {0}]
Blocks    == [Slot -> Recs]

TypeOK ==
  /\ file \in [Segment -> [slots : Blocks, torn : BOOLEAN]]
  /\ cow \in [Segment -> [state : {"none", "partial", "full"}, slots : Blocks]]
  /\ allocated \in 0..MaxSegments
  /\ prealloc \in [Segment -> Process \cup {Free}]
  /\ slotLock \in [Slot -> Process \cup {Free}]
  /\ blockLock \in [Segment -> Process \cup {Free}]
  /\ proc \in [Process -> [pc : {"idle", "dead", "find"} \cup Locking \cup Unwritten \cup Written,
                           kind : Kind \cup {"none"}, id : ID \cup {NoID}, ver : Nat,
                           was : SUBSET Nat, seg : Segment, slot : Slot,
                           found : Recs, buf : Blocks]]
  /\ next \in [ID -> Nat \ {0}]
  /\ may \in [ID -> SUBSET Nat]
  /\ scene \in Scenes

Writer(p) == Busy(p) /\ Writes(p)

\* A call knows its handle; only a fetch stays with the search, and what is written has
\* the version the callers reserved.
Called(p) ==
  /\ ~Busy(p) => proc[p].seg = 1
  /\ Busy(p) => proc[p].id \in ID /\ proc[p].kind \in Kind
  /\ proc[p].pc \in Locking \cup Unwritten \cup Written => Writes(p)
  /\ Busy(p) /\ proc[p].kind \in {"add", "set"} =>
       proc[p].ver # 0 /\ next[proc[p].id] = proc[p].ver + 1
  /\ Busy(p) /\ proc[p].kind \notin {"add", "set"} => proc[p].ver = 0
  /\ proc[p].kind = "remove" => scene.removes # {}

\* The callers' locks: a handle has one writer; without overlap there is one call.
Alone(p, q) ==
  /\ Writer(p) /\ Writer(q) /\ proc[p].id = proc[q].id => p = q
  /\ ~scene.overlap /\ Busy(p) /\ Busy(q) => p = q

\* A block is rewritten under its lock, a segment file set up under its own.
Owned(p) ==
  /\ proc[p].pc \in Unwritten \cup Written => blockLock[proc[p].seg] = p
  /\ proc[p].pc = "truncate" => prealloc[proc[p].seg] = p /\ proc[p].seg = allocated + 1
  /\ proc[p].pc = "lockhome" => proc[p].seg = 1
  /\ proc[p].pc = "find" => proc[p].seg <= allocated + 1
  /\ proc[p].pc \in Placed \cup Written => proc[p].seg <= allocated

\* What is read stays what is on disk until it is written, and is backed up before it is.
Rewriting(p) ==
  LET g == proc[p].seg IN
  /\ proc[p].pc \in {"cow", "cow2", "write"} => ~file[g].torn /\ proc[p].buf = file[g].slots
  /\ proc[p].pc = "write2" =>
       file[g].torn /\ file[g].slots = [proc[p].buf EXCEPT ![proc[p].slot] = Record(p)]
  /\ proc[p].pc = "write2" \/ (proc[p].pc = "write" /\ scene.tears) => cow[g] = FullCow(proc[p].buf)
  /\ proc[p].pc \in Written => ~file[g].torn /\ file[g].slots[proc[p].slot] = Record(p)
  /\ proc[p].pc \in {"cow2", "write2"} => scene.tears
  /\ proc[p].pc = "cow2" => cow[g] = PartialCow

\* A block is torn only where writes tear, and then its backup is there; a file that has not
\* been set up is empty.
Intact(g) ==
  /\ file[g].torn => scene.tears /\ cow[g].state = "full"
  /\ g > allocated => file[g] = [slots |-> ZeroBlock, torn |-> FALSE]

BlockInv ==
  /\ TypeOK
  /\ \A p \in Process : Called(p) /\ Owned(p) /\ Rewriting(p)
  /\ \A p, q \in Process : Alone(p, q)
  /\ \A g \in Segment : Intact(g)

-----------------------------------------------------------------------------
(* The invariant: where records are, while nothing is removed. *)

Full(g, s) == Content(g)[s] # Vacant
Has(g, s, i) == file[g].slots[s].id = i

\* The places a search for i looks at before slot s of segment g are taken.
Behind(i, g, s) ==
  /\ \A h \in Segment, r \in Slot : h < g => Full(h, r)
  /\ \A r \in Slot : Rank(i, r) < Rank(i, s) => Full(g, r)

\* The backup of a torn block differs from it by the record that was being written.
Covers(g) ==
  file[g].torn => \A s \in Slot : cow[g].slots[s].id \in {NoID, file[g].slots[s].id}

Searching(p) ==
  Writes(p) /\ proc[p].pc \in {"find", "truncate"} =>
    \A h \in Segment, r \in Slot : h < proc[p].seg => Full(h, r) /\ Content(h)[r].id # proc[p].id
Choosing(p) ==
  proc[p].pc \in Placed =>
    /\ Behind(proc[p].id, proc[p].seg, proc[p].slot)
    /\ \A h \in Segment, r \in Slot :
         Has(h, r, proc[p].id) => h = proc[p].seg /\ r = proc[p].slot
    /\ ~scene.overlap => Content(proc[p].seg)[proc[p].slot].id \in {NoID, proc[p].id}

PlaceInv ==
  /\ \A g \in Segment : Covers(g)
  /\ \A g \in Segment, s \in Slot, i \in ID : Has(g, s, i) => Behind(i, g, s)
  /\ \A g, h \in Segment, s, r \in Slot, i \in ID : Has(g, s, i) /\ Has(h, r, i) => g = h /\ s = r
  /\ \A p \in Process : Searching(p) /\ Choosing(p)

-----------------------------------------------------------------------------
(* The invariant: what records say, while adds find their slots still vacant. *)

\* A fetch of i answers a version of V.
Answers(i, V) ==
  /\ \A g \in Segment, s \in Slot : Content(g)[s].id = i => Content(g)[s].ver \in V
  /\ (\A g \in Segment, s \in Slot : Content(g)[s].id # i) => 0 \in V

\* What a writer knows of its handle, and where it is going to write.
Knows(p) ==
  Busy(p) /\ proc[p].kind \in {"add", "set"} =>
    /\ proc[p].pc \notin Written => /\ Answers(proc[p].id, proc[p].was)
                                    /\ may[proc[p].id] = proc[p].was \cup {proc[p].ver}
    /\ proc[p].pc \in Written => proc[p].ver \in may[proc[p].id]
    /\ proc[p].kind = "add" => proc[p].was = {0}
    /\ proc[p].kind = "set" => 0 \notin proc[p].was /\ proc[p].ver # 1
    /\ proc[p].pc = "lockslot" => proc[p].kind = "add"
    /\ proc[p].kind = "add" /\ proc[p].pc # "lockhome" => slotLock[Home[proc[p].id]] = p
    /\ proc[p].pc \in Settled =>
         /\ Content(proc[p].seg)[proc[p].slot].id = IF proc[p].kind = "add" THEN NoID ELSE proc[p].id
         /\ proc[p].kind = "add" => slotLock[proc[p].slot] = p

VersionInv ==
  /\ \A p \in Process : Knows(p)
  /\ \A i \in ID : Answers(i, may[i]) /\ (next[i] = 1 => may[i] = {0})

-----------------------------------------------------------------------------
(* Types, locks and buffers. *)

\* The constants, as the proofs use them.
LEMMA Consts ==
  /\ Slot \subseteq Nat /\ Segment \subseteq Nat /\ 1 \in Slot /\ 1 \in Segment
  /\ MaxSegments \in Nat /\ MaxSegments \in Segment /\ NoID \notin ID /\ Free \notin Process
  /\ \A i \in ID : Home[i] \in Slot
  /\ Vacant \in Recs /\ ZeroBlock \in Blocks
  /\ \A r \in Recs : r.id \in ID \cup {NoID} /\ r.ver \in Nat /\ (r.id = NoID <=> r = Vacant)
  /\ Idle.pc = "idle" /\ Idle.kind = "none" /\ Idle.id = NoID /\ Idle.ver = 0 /\ Idle.was = {}
  /\ Idle.seg = 1 /\ Idle.slot = 1 /\ Idle.found = Vacant /\ Idle.buf = ZeroBlock
<1>1. /\ Slot \subseteq Nat /\ Segment \subseteq Nat /\ 1 \in Slot /\ 1 \in Segment
      /\ MaxSegments \in Nat /\ MaxSegments \in Segment /\ NoID \notin ID /\ Free \notin Process
      /\ \A i \in ID : Home[i] \in Slot
  BY HashMapAssumption DEF Slot, Segment
<1>2. Vacant \in Recs /\ ZeroBlock \in Blocks
  BY DEF Recs, ZeroBlock, Blocks
<1>3. \A r \in Recs : r.id \in ID \cup {NoID} /\ r.ver \in Nat /\ (r.id = NoID <=> r = Vacant)
  BY <1>1 DEF Recs, Vacant
<1>4. /\ Idle.pc = "idle" /\ Idle.kind = "none" /\ Idle.id = NoID /\ Idle.ver = 0 /\ Idle.was = {}
      /\ Idle.seg = 1 /\ Idle.slot = 1 /\ Idle.found = Vacant /\ Idle.buf = ZeroBlock
  BY DEF Idle
<1> QED
  BY <1>1, <1>2, <1>3, <1>4

\* The state of a process between calls.
Procs == [pc : {"idle", "dead", "find"} \cup Locking \cup Unwritten \cup Written,
          kind : Kind \cup {"none"}, id : ID \cup {NoID}, ver : Nat, was : SUBSET Nat,
          seg : Segment, slot : Slot, found : Recs, buf : Blocks]

\* A process between calls, or dead, is of the right type.
LEMMA IdleType == Idle \in Procs /\ [Idle EXCEPT !.pc = "dead"] \in Procs
  BY Consts DEF Idle, Procs

\* What the step of another process leaves a process q.
Leaves(q) ==
  /\ proc'[q] = proc[q]
  /\ Writer(q) /\ proc[q].kind \in {"add", "set"} => next'[proc[q].id] = next[proc[q].id]
  /\ \A g \in Segment : /\ blockLock[g] = q => blockLock'[g] = q
                        /\ prealloc[g] = q => prealloc'[g] = q
  /\ allocated <= allocated' /\ (proc[q].pc = "truncate" => allocated' = allocated)
  /\ proc[q].pc \in (Unwritten \ {"read"}) \cup Written => file'[proc[q].seg] = file[proc[q].seg]
  /\ proc[q].pc \in {"cow2", "write", "write2"} /\ scene.tears => cow'[proc[q].seg] = cow[proc[q].seg]

\* It keeps what the invariant says of q.
LEMMA LeavesKeeps ==
  ASSUME BlockInv, TypeOK', scene' = scene, NEW q \in Process, Leaves(q)
  PROVE  Called(q)' /\ Owned(q)' /\ Rewriting(q)'
<1>0. proc[q].seg \in Segment /\ proc[q].seg \in Nat /\ allocated \in Nat /\ allocated' \in Nat
  <2>1. allocated \in 0..MaxSegments /\ allocated' \in 0..MaxSegments
    BY DEF BlockInv, TypeOK
  <2>2. proc[q].seg \in Segment
    BY DEF BlockInv, TypeOK
  <2> QED
    BY <2>1, <2>2 DEF Segment
<1>1. /\ proc'[q] = proc[q] /\ Called(q) /\ Owned(q) /\ Rewriting(q)
      /\ proc[q].seg \in Segment /\ proc[q].seg \in Nat /\ allocated \in Nat /\ allocated' \in Nat
  BY <1>0 DEF Leaves, BlockInv
<1>2. (Busy(q)' <=> Busy(q)) /\ (Writes(q)' <=> Writes(q)) /\ Record(q)' = Record(q)
  BY <1>1 DEF Busy, Writes, Record
<1>3. Called(q)'
  BY <1>1, <1>2 DEF Called, Leaves, Writer, Writes
<1>4. Owned(q)'
  BY <1>1, <1>2 DEF Owned, Leaves
<1>5. Rewriting(q)'
  BY <1>1, <1>2 DEF Rewriting, Leaves, Unwritten, Written
<1> QED
  BY <1>3, <1>4, <1>5

\* What a step of p has to show.
LEMMA Assemble ==
  ASSUME BlockInv, NEW p \in Process, scene' = scene, TypeOK',
         \A q \in Process \ {p} : Leaves(q),
         Called(p)' /\ Owned(p)' /\ Rewriting(p)',
         \A q \in Process \ {p} : Alone(p, q)',
         \A g \in Segment : Intact(g)'
  PROVE  BlockInv'
<1>1. \A q \in Process : Called(q)' /\ Owned(q)' /\ Rewriting(q)'
  BY LeavesKeeps
<1>2. ASSUME NEW q \in Process, NEW r \in Process PROVE Alone(q, r)'
  <2>1. CASE q = p \/ r = p
    BY <2>1 DEF Alone
  <2>2. CASE q # p /\ r # p
    <3>1. Alone(q, r) /\ proc'[q] = proc[q] /\ proc'[r] = proc[r]
      BY <2>2 DEF BlockInv, Leaves
    <3> QED
      BY <3>1 DEF Alone, Writer, Busy, Writes
  <2> QED
    BY <2>1, <2>2
<1> QED
  BY <1>1, <1>2 DEF BlockInv

\* A call that goes on, or ends, has the company it had.
LEMMA StillAlone ==
  ASSUME BlockInv, NEW p \in Process, scene' = scene,
         Busy(p)' => Busy(p) /\ proc'[p].id = proc[p].id /\ proc'[p].kind = proc[p].kind,
         NEW q \in Process, proc'[q] = proc[q]
  PROVE  Alone(p, q)'
  BY DEF BlockInv, Alone, Writer, Busy, Writes

\* Reading a block changes nothing for whoever is rewriting it, unless its backup is at stake.
LEMMA ReadBeside ==
  ASSUME BlockInv, NEW g \in Segment, ReadAndRestoreBlock(g), NEW q \in Process,
         scene.tears /\ proc[q].seg = g => proc[q].pc \notin {"cow2", "write", "write2"}
  PROVE  /\ proc[q].pc \in (Unwritten \ {"read"}) \cup Written => file'[proc[q].seg] = file[proc[q].seg]
         /\ proc[q].pc \in {"cow2", "write", "write2"} /\ scene.tears =>
              cow'[proc[q].seg] = cow[proc[q].seg]
<1>1. /\ proc[q].seg \in Segment /\ Rewriting(q)
      /\ file \in [Segment -> [slots : Blocks, torn : BOOLEAN]]
      /\ cow \in [Segment -> [state : {"none", "partial", "full"}, slots : Blocks]]
  BY DEF BlockInv, TypeOK
<1>2. CASE proc[q].seg # g
  BY <1>1, <1>2 DEF ReadAndRestoreBlock
<1>3. CASE proc[q].seg = g
  <2>1. proc[q].pc \in {"cow2", "write", "write2"} => ~scene.tears
    BY <1>3
  <2>2. ASSUME proc[q].pc \in (Unwritten \ {"read"}) \cup Written PROVE file'[g] = file[g]
    <3>1. proc[q].pc # "write2" /\ ~file[g].torn
      BY <1>1, <1>3, <2>1, <2>2 DEF Rewriting, Unwritten, Written
    <3>2. file[g] = [slots |-> file[g].slots, torn |-> FALSE] /\ Content(g) = file[g].slots
      BY <1>1, <3>1, Zenon DEF Content
    <3>3. file' = [file EXCEPT ![g] = file[g]]
      BY <3>1, <3>2 DEF ReadAndRestoreBlock
    <3> QED
      BY <1>1, <3>3
  <2> QED
    BY <1>3, <2>1, <2>2
<1> QED
  BY <1>2, <1>3

\* A block that has been read is of the right type, not torn, and has the content it had.
LEMMA ReadFacts ==
  ASSUME BlockInv, NEW g \in Segment, ReadAndRestoreBlock(g)
  PROVE  /\ file' \in [Segment -> [slots : Blocks, torn : BOOLEAN]]
         /\ cow' \in [Segment -> [state : {"none", "partial", "full"}, slots : Blocks]]
         /\ Content(g) \in Blocks /\ file'[g] = [slots |-> Content(g), torn |-> FALSE]
         /\ \A h \in Segment : /\ h # g => file'[h] = file[h] /\ cow'[h] = cow[h]
                               /\ file'[h].torn => file[h].torn /\ cow'[h] = cow[h]
                               /\ Content(h)' = Content(h)
         /\ g <= allocated => \A h \in Segment : h > allocated => file'[h] = file[h]
<1>1. /\ file \in [Segment -> [slots : Blocks, torn : BOOLEAN]]
      /\ cow \in [Segment -> [state : {"none", "partial", "full"}, slots : Blocks]]
      /\ file[g].torn => cow[g].state = "full"
  BY DEF BlockInv, TypeOK, Intact
<1>2. Content(g) \in Blocks
  BY <1>1 DEF Content
<1>3. (file[g].torn /\ cow[g].state # "full") = FALSE
  BY <1>1
<1>4. file' = [file EXCEPT ![g] = [slots |-> Content(g), torn |-> FALSE]]
  BY <1>3 DEF ReadAndRestoreBlock
<1>5. cow' = cow \/ (~file[g].torn /\ cow' = [cow EXCEPT ![g] = NoCow])
  BY DEF ReadAndRestoreBlock
<1>6. cow' \in [Segment -> [state : {"none", "partial", "full"}, slots : Blocks]]
  BY <1>1, <1>5, Consts DEF NoCow
<1>7. file' \in [Segment -> [slots : Blocks, torn : BOOLEAN]]
  BY <1>1, <1>2, <1>4
<1>8. file'[g] = [slots |-> Content(g), torn |-> FALSE]
  BY <1>1, <1>4
<1>9. ASSUME NEW h \in Segment
      PROVE  /\ h # g => file'[h] = file[h] /\ cow'[h] = cow[h]
             /\ file'[h].torn => file[h].torn /\ cow'[h] = cow[h]
             /\ Content(h)' = Content(h)
  <2>1. h # g => file'[h] = file[h] /\ cow'[h] = cow[h]
    BY <1>1, <1>4, <1>5
  <2>2. CASE h # g
    BY <2>1, <2>2 DEF Content
  <2>3. CASE h = g
    <3>1. ~file'[h].torn /\ file'[h].slots = Content(h)
      BY <1>8, <2>3
    <3>2. Content(h)' = Content(h)
      BY <3>1 DEF Content
    <3> QED
      BY <2>1, <3>1, <3>2
  <2> QED
    BY <2>2, <2>3
<1>10. g <= allocated => \A h \in Segment : h > allocated => file'[h] = file[h]
  <2>1. g \in Nat /\ allocated \in Nat
    BY Consts DEF BlockInv, TypeOK
  <2> QED
    BY <1>9, <2>1, Consts
<1> QED
  BY <1>2, <1>6, <1>7, <1>8, <1>9, <1>10

\* The types, one variable at a time.
LEMMA Types ==
  ASSUME BlockInv
  PROVE  /\ file \in [Segment -> [slots : Blocks, torn : BOOLEAN]]
         /\ cow \in [Segment -> [state : {"none", "partial", "full"}, slots : Blocks]]
         /\ allocated \in 0..MaxSegments /\ allocated \in Nat
         /\ prealloc \in [Segment -> Process \cup {Free}]
         /\ slotLock \in [Slot -> Process \cup {Free}]
         /\ blockLock \in [Segment -> Process \cup {Free}]
         /\ proc \in [Process -> Procs]
         /\ next \in [ID -> Nat \ {0}] /\ may \in [ID -> SUBSET Nat] /\ scene \in Scenes
         /\ \A p \in Process : /\ proc[p] \in Procs
                               /\ proc[p].seg \in Segment /\ proc[p].seg \in Nat
                               /\ proc[p].slot \in Slot /\ proc[p].slot \in Nat
                               /\ proc[p].buf \in Blocks /\ proc[p].found \in Recs
                               /\ proc[p].ver \in Nat /\ proc[p].was \subseteq Nat
                               /\ Called(p) /\ Owned(p) /\ Rewriting(p)
<1>1. /\ TypeOK /\ allocated \in Nat
  BY Consts DEF BlockInv, TypeOK
<1>2. proc \in [Process -> Procs]
  BY <1>1 DEF TypeOK, Procs
<1>3. \A p \in Process : /\ proc[p] \in Procs
                         /\ proc[p].seg \in Segment /\ proc[p].slot \in Slot
                         /\ proc[p].buf \in Blocks /\ proc[p].found \in Recs
                         /\ proc[p].ver \in Nat /\ proc[p].was \subseteq Nat
  BY <1>2 DEF Procs
<1>4. \A p \in Process : Called(p) /\ Owned(p) /\ Rewriting(p)
  BY DEF BlockInv
<1> QED
  BY <1>1, <1>2, <1>3, <1>4, Consts DEF TypeOK

\* The other way round, after a step.
LEMMA TypesBack ==
  ASSUME file' \in [Segment -> [slots : Blocks, torn : BOOLEAN]],
         cow' \in [Segment -> [state : {"none", "partial", "full"}, slots : Blocks]],
         allocated' \in 0..MaxSegments,
         prealloc' \in [Segment -> Process \cup {Free}],
         slotLock' \in [Slot -> Process \cup {Free}],
         blockLock' \in [Segment -> Process \cup {Free}],
         proc' \in [Process -> Procs],
         next' \in [ID -> Nat \ {0}], may' \in [ID -> SUBSET Nat], scene' \in Scenes
  PROVE  TypeOK'
  BY DEF TypeOK, Procs

\* A process goes on with x.
LEMMA Going ==
  ASSUME BlockInv, NEW p \in Process, NEW x \in Procs, Go(p, x)
  PROVE  proc' \in [Process -> Procs] /\ proc'[p] = x /\ \A q \in Process \ {p} : proc'[q] = proc[q]
  BY Types DEF Go

\* A call returns.
LEMMA Returning ==
  ASSUME BlockInv, NEW p \in Process, Return(p)
  PROVE  /\ slotLock' \in [Slot -> Process \cup {Free}]
         /\ \A s \in Slot : slotLock'[s] = IF slotLock[s] = p THEN Free ELSE slotLock[s]
         /\ proc' \in [Process -> Procs] /\ proc'[p] = Idle
         /\ \A q \in Process \ {p} : proc'[q] = proc[q]
<1>1. slotLock \in [Slot -> Process \cup {Free}] /\ proc \in [Process -> Procs]
  BY Types
<1> QED
  BY <1>1, IdleType DEF Return, OwnSlotsFreed

\* A call fails: the version it had reserved is the next again.
LEMMA Failing ==
  ASSUME BlockInv, NEW p \in Process, Busy(p), Fail(p)
  PROVE  /\ next' \in [ID -> Nat \ {0}] /\ may' \in [ID -> SUBSET Nat]
         /\ \A q \in Process \ {p} : Writer(q) /\ proc[q].kind \in {"add", "set"} =>
              next'[proc[q].id] = next[proc[q].id] /\ may'[proc[q].id] = may[proc[q].id]
<1>1. /\ next \in [ID -> Nat \ {0}] /\ may \in [ID -> SUBSET Nat]
      /\ proc[p].ver \in Nat /\ proc[p].was \subseteq Nat /\ Called(p)
  BY Types
<1>2. proc[p].id \in ID /\ next[proc[p].id] \in Nat
  BY <1>1 DEF Called
<1>3. proc[p].ver # 0 => next[proc[p].id] - 1 \in Nat \ {0} /\ Writer(p)
  BY <1>1, <1>2 DEF Called, Writer, Writes, Kind
<1>4. next' \in [ID -> Nat \ {0}] /\ may' \in [ID -> SUBSET Nat]
  BY <1>1, <1>2, <1>3 DEF Fail
<1>5. ASSUME NEW q \in Process \ {p}, Writer(q), proc[q].kind \in {"add", "set"}
      PROVE  next'[proc[q].id] = next[proc[q].id] /\ may'[proc[q].id] = may[proc[q].id]
  <2>1. proc[q].id \in ID /\ Busy(q) /\ Alone(p, q) /\ Alone(q, p)
    BY <1>5, Types DEF Writer, Called, BlockInv
  <2>2. CASE Writes(p)
    <3>1. proc[q].id # proc[p].id
      BY <1>5, <2>1, <2>2 DEF Alone, Writer
    <3> QED
      BY <1>1, <1>2, <2>1, <3>1 DEF Fail
  <2>3. CASE ~Writes(p)
    <3>1. proc[p].ver = 0
      BY <1>3, <2>3 DEF Writer
    <3> QED
      BY <1>1, <1>2, <2>1, <2>3, <3>1 DEF Fail
  <2> QED
    BY <2>2, <2>3
<1> QED
  BY <1>4, <1>5

\* A process between calls, or dead, claims nothing.
LEMMA IdleOwn ==
  ASSUME NEW p \in Process, proc'[p] = Idle \/ proc'[p] = [Idle EXCEPT !.pc = "dead"]
  PROVE  ~Busy(p)' /\ Called(p)' /\ Owned(p)' /\ Rewriting(p)' /\ \A q \in Process : Alone(p, q)'
<1>1. /\ proc'[p].pc \in {"idle", "dead"} /\ proc'[p].kind = "none" /\ proc'[p].seg = 1
  BY Consts DEF Idle
<1> QED
  BY <1>1 DEF Busy, Called, Owned, Rewriting, Alone, Writer, Locking, Placed, Unwritten, Written

\* The disk as it was.
LEMMA SameDisk ==
  ASSUME BlockInv, UNCHANGED <<file, cow>>, allocated <= allocated', allocated' \in Nat, scene' = scene
  PROVE  \A g \in Segment : Intact(g)'
<1>1. allocated \in Nat
  BY Types
<1>2. ASSUME NEW g \in Segment PROVE Intact(g)'
  <2>1. Intact(g) /\ g \in Nat
    BY Consts DEF BlockInv
  <2>2. g > allocated' => g > allocated
    BY <1>1, <2>1
  <2> QED
    BY <2>1, <2>2 DEF Intact
<1> QED
  BY <1>2

-----------------------------------------------------------------------------
(* One lemma per action. *)

\* A call begins: the version it reserves is its own.
LEMMA BeginStep ==
  ASSUME BlockInv, NEW p \in Process, NEW kind \in Kind, NEW i \in ID, Begin(p, kind, i),
         scene' = scene
  PROVE  BlockInv'
<1> DEFINE ver == IF kind \in {"add", "set"} THEN next[i] ELSE 0
           x == [proc[p] EXCEPT !.pc = IF kind = "add" THEN "lockhome" ELSE "find", !.kind = kind,
                                !.id = i, !.ver = ver, !.was = IF kind = "fetch" THEN {} ELSE may[i]]
<1>1. /\ next[i] \in Nat \ {0} /\ may[i] \subseteq Nat /\ ver \in Nat /\ proc[p] \in Procs
      /\ next \in [ID -> Nat \ {0}] /\ may \in [ID -> SUBSET Nat]
  BY Types
<1>2. /\ Go(p, x) /\ UNCHANGED <<disk, locks>> /\ proc[p].pc = "idle"
      /\ next' = [next EXCEPT ![i] = IF ver = 0 THEN @ ELSE @ + 1]
      /\ may' = [may EXCEPT ![i] = IF kind = "fetch" THEN @ ELSE @ \cup {ver}]
  BY DEF Begin
<1>3. x \in Procs
  <2> DEFINE pt == IF kind = "add" THEN "lockhome" ELSE "find"
             was == IF kind = "fetch" THEN {} ELSE may[i]
  <2>1. pt \in {"idle", "dead", "find"} \cup Locking /\ was \in SUBSET Nat
    BY <1>1 DEF Locking
  <2> HIDE DEF pt, was, ver
  <2>2. [proc[p] EXCEPT !.pc = pt, !.kind = kind, !.id = i, !.ver = ver, !.was = was] \in Procs
    BY <1>1, <2>1 DEF Procs
  <2> QED
    BY <2>2 DEF pt, was, ver
<1>4. /\ proc' \in [Process -> Procs] /\ proc'[p] = x /\ \A q \in Process \ {p} : proc'[q] = proc[q]
  BY <1>2, <1>3, Going
<1>5. /\ x.pc = (IF kind = "add" THEN "lockhome" ELSE "find") /\ x.kind = kind /\ x.id = i
      /\ x.ver = ver /\ x.seg = 1
  <2>1. proc[p].seg = 1
    BY <1>2, Types DEF Called, Busy
  <2> QED
    BY <1>1, <2>1 DEF Procs
<1>6. /\ next' \in [ID -> Nat \ {0}] /\ may' \in [ID -> SUBSET Nat]
      /\ \A j \in ID : j # i \/ ver = 0 => next'[j] = next[j]
      /\ ver # 0 => next'[i] = ver + 1
  BY <1>1, <1>2
<1> HIDE DEF x, ver
<1>7. TypeOK'
  BY <1>2, <1>4, <1>6, Types, TypesBack DEF disk, locks
<1>8. kind # "fetch" => \A q \in Process : ~(Writer(q) /\ proc[q].id = i)
  BY DEF Begin, Writer
<1>9. \A q \in Process \ {p} : Leaves(q)
  <2> SUFFICES ASSUME NEW q \in Process \ {p} PROVE Leaves(q)
    OBVIOUS
  <2>1. Writer(q) => proc[q].id \in ID
    BY Types DEF Called, Writer
  <2>2. Writer(q) /\ proc[q].kind \in {"add", "set"} => next'[proc[q].id] = next[proc[q].id]
    BY <1>6, <1>8, <2>1 DEF ver
  <2> QED
    BY <1>2, <1>4, <2>2, Types DEF Leaves, disk, locks
<1>10. Called(p)'
  BY <1>1, <1>4, <1>5, <1>6 DEF Called, Busy, Writes, ver, Kind, Locking, Unwritten, Written, Begin
<1>11. Owned(p)' /\ Rewriting(p)'
  <2>1. allocated' = allocated /\ allocated \in Nat
    BY <1>2, Types DEF disk
  <2>2. proc'[p].pc \in {"lockhome", "find"} /\ proc'[p].seg = 1
    BY <1>4, <1>5
  <2>3. 1 <= allocated + 1
    BY <2>1
  <2> QED
    BY <2>1, <2>2, <2>3 DEF Owned, Rewriting, Unwritten, Written, Placed
<1>12. \A q \in Process \ {p} : Alone(p, q)'
  <2> SUFFICES ASSUME NEW q \in Process \ {p} PROVE Alone(p, q)'
    OBVIOUS
  <2>1. Busy(q)' => scene.overlap
    BY <1>4 DEF Begin, Busy
  <2>2. Writer(q)' /\ Writer(p)' => proc'[q].id # proc'[p].id
    BY <1>4, <1>5, <1>8 DEF Writer, Busy, Writes
  <2> QED
    BY <2>1, <2>2 DEF Alone
<1> QED
  BY <1>2, <1>7, <1>9, <1>10, <1>11, <1>12, Types, SameDisk, Assemble DEF disk

\* A call ends without having written.
LEMMA EndStep ==
  ASSUME BlockInv, NEW p \in Process, scene' = scene, TypeOK',
         proc'[p] = Idle \/ proc'[p] = [Idle EXCEPT !.pc = "dead"],
         \A q \in Process \ {p} : Leaves(q), \A g \in Segment : Intact(g)'
  PROVE  BlockInv'
  BY IdleOwn, Assemble

\* Reading a block.
LEMMA ReadLeaves ==
  ASSUME BlockInv, NEW p \in Process, NEW g \in Segment, ReadAndRestoreBlock(g),
         UNCHANGED <<allocated, prealloc, blockLock>>, NEW q \in Process \ {p}, proc'[q] = proc[q],
         scene.tears /\ proc[q].seg = g => proc[q].pc \notin {"cow2", "write", "write2"},
         Writer(q) /\ proc[q].kind \in {"add", "set"} => next'[proc[q].id] = next[proc[q].id]
  PROVE  Leaves(q)
<1>1. allocated \in Nat
  BY Types
<1> QED
  BY <1>1, ReadBeside DEF Leaves

\* Reading a block leaves every block intact.
LEMMA ReadIntact ==
  ASSUME BlockInv, NEW g \in Segment, ReadAndRestoreBlock(g), g <= allocated,
         allocated' = allocated, scene' = scene
  PROVE  \A h \in Segment : Intact(h)'
<1> SUFFICES ASSUME NEW h \in Segment PROVE Intact(h)'
  OBVIOUS
<1>1. Intact(h)
  BY DEF BlockInv
<1>2. /\ file'[h].torn => file[h].torn /\ cow'[h] = cow[h]
      /\ h > allocated => file'[h] = file[h]
  BY ReadFacts
<1> QED
  BY <1>1, <1>2 DEF Intact

\* A call goes on with another program point and other local variables.
LEMMA GoOnStep ==
  ASSUME BlockInv, NEW p \in Process, Busy(p), proc'[p].pc \notin {"idle", "dead"},
         proc'[p].pc # "find" => Writes(p),
         proc'[p].id = proc[p].id, proc'[p].kind = proc[p].kind, proc'[p].ver = proc[p].ver,
         scene' = scene, next' = next, TypeOK',
         \A q \in Process \ {p} : Leaves(q), \A g \in Segment : Intact(g)',
         Owned(p)' /\ Rewriting(p)'
  PROVE  BlockInv'
<1>1. Called(p)
  BY Types
<1>2. Called(p)'
  BY <1>1 DEF Called, Busy, Writes, Locking, Unwritten, Written
<1>3. \A q \in Process \ {p} : Alone(p, q)'
  BY StillAlone DEF Leaves
<1> QED
  BY <1>2, <1>3, Assemble

\* A search stops at the first of the slots it may stop at.
LEMMA FirstIn ==
  ASSUME NEW i \in ID, NEW S \in SUBSET Slot, S # {}
  PROVE  FirstOf(i, S) \in S /\ \A r \in S : Rank(i, FirstOf(i, S)) <= Rank(i, r)
<1> DEFINE T == {Rank(i, s) : s \in S}
<1>0. \A s \in S : Rank(i, s) \in Nat
  BY Consts DEF Rank
<1>1. T \subseteq Nat /\ T # {}
  BY <1>0, Zenon
<1> HIDE DEF T
<1>2. PICK x \in T : \A y \in T : ~(<<y, x>> \in OpToRel(<, Nat))
  BY <1>1, WFMin, NatLessThanWellFounded
<1>3. \A y \in T : x <= y
  <2> SUFFICES ASSUME NEW y \in T, ~(x <= y) PROVE FALSE
    OBVIOUS
  <2>1. x \in Nat /\ y \in Nat /\ y < x
    BY <1>1
  <2>2. <<y, x>> \in OpToRel(<, Nat)
    BY <2>1, Zenon DEF OpToRel
  <2> QED
    BY <1>2, <2>2
<1>4. \E s \in S : \A r \in S : Rank(i, s) <= Rank(i, r)
  BY <1>3 DEF T
<1> HIDE DEF Rank
<1> QED
  BY <1>4 DEF FirstOf

\* The ranks of a search tell slots apart.
LEMMA Ranks ==
  ASSUME NEW i \in ID, NEW s \in Slot, NEW r \in Slot
  PROVE  Rank(i, s) \in Nat /\ (Rank(i, s) = Rank(i, r) => s = r)
  BY Consts DEF Rank, Slot

\* A search looks at one segment file: a call goes on with a place, or ends.
LEMMA FindStep ==
  ASSUME BlockInv, ~Beside, NEW p \in Process, FindOneFileRegion(p), scene' = scene
  PROVE  BlockInv'
<1> DEFINE g == proc[p].seg
           i == proc[p].id
           S == Candidates(i, Content(g), Writes(p))
           f == FirstOf(i, S)
<1>1. /\ proc[p].pc = "find" /\ g <= allocated /\ ReadAndRestoreBlock(g) /\ Busy(p)
      /\ UNCHANGED <<allocated, prealloc, blockLock>>
  BY DEF FindOneFileRegion, Busy
<1>2. /\ g \in Segment /\ g \in Nat /\ i \in ID /\ proc[p] \in Procs /\ allocated \in Nat
      /\ allocated <= MaxSegments /\ slotLock \in [Slot -> Process \cup {Free}]
      /\ next \in [ID -> Nat \ {0}] /\ may \in [ID -> SUBSET Nat]
  BY <1>1, Types, Consts DEF Called
<1>3. Content(g) \in Blocks
  BY <1>1, <1>2, ReadFacts
<1>4. S # {} => f \in Slot
  BY <1>2, FirstIn DEF Candidates
<1>5. \A h \in Segment : Intact(h)'
  BY <1>1, <1>2, ReadIntact
<1>6. ASSUME proc' \in [Process -> Procs], slotLock' \in [Slot -> Process \cup {Free}],
             next' \in [ID -> Nat \ {0}], may' \in [ID -> SUBSET Nat]
      PROVE  TypeOK'
  <2>1. /\ file' \in [Segment -> [slots : Blocks, torn : BOOLEAN]]
        /\ cow' \in [Segment -> [state : {"none", "partial", "full"}, slots : Blocks]]
    BY <1>1, <1>2, ReadFacts
  <2> QED
    BY <1>1, <1>6, <2>1, Types, TypesBack
<1>7. ASSUME \A q \in Process \ {p} : proc'[q] = proc[q],
             \A q \in Process \ {p} : Writer(q) /\ proc[q].kind \in {"add", "set"} =>
               next'[proc[q].id] = next[proc[q].id]
      PROVE  \A q \in Process \ {p} : Leaves(q)
  <2>1. ASSUME NEW q \in Process \ {p}, scene.tears, proc[q].seg = g
        PROVE  proc[q].pc \notin {"cow2", "write", "write2"}
    BY <2>1 DEF Beside
  <2> QED
    BY <1>1, <1>2, <1>7, <2>1, ReadLeaves
<1>8. CASE S # {} /\ Writes(p) /\ Found(p, f, Content(g)[f]) /\ UNCHANGED <<slotLock, callers>>
  <2> DEFINE x == [proc[p] EXCEPT !.pc = IF proc[p].kind = "add" THEN "lockslot" ELSE "lockblock",
                                  !.slot = f, !.found = Content(g)[f]]
  <2>1. Go(p, x) /\ next' = next /\ may' = may
    BY <1>8 DEF Found, callers
  <2>2. x \in Procs
    BY <1>2, <1>3, <1>4, <1>8 DEF Procs, Locking, Blocks
  <2>3. /\ x.pc \in {"lockslot", "lockblock"} /\ x.id = i /\ x.kind = proc[p].kind
        /\ x.ver = proc[p].ver /\ x.seg = g
    BY <1>2 DEF Procs
  <2>4. /\ proc' \in [Process -> Procs] /\ proc'[p] = x /\ \A q \in Process \ {p} : proc'[q] = proc[q]
    BY <2>1, <2>2, Going
  <2> HIDE DEF x
  <2>5. Owned(p)' /\ Rewriting(p)'
    BY <1>1, <1>2, <2>3, <2>4 DEF Owned, Rewriting, Unwritten, Written, Placed
  <2>6. TypeOK' /\ \A q \in Process \ {p} : Leaves(q)
    BY <1>2, <1>6, <1>7, <1>8, <2>1, <2>4
  <2> QED
    BY <1>1, <1>5, <1>8, <2>1, <2>3, <2>4, <2>5, <2>6, GoOnStep
<1>9. CASE S = {} /\ g < MaxSegments /\ Go(p, [proc[p] EXCEPT !.seg = g + 1])
           /\ UNCHANGED <<slotLock, callers>>
  <2> DEFINE x == [proc[p] EXCEPT !.seg = g + 1]
  <2>1. Go(p, x) /\ next' = next /\ may' = may
    BY <1>9 DEF callers
  <2>2. g + 1 \in Segment
    BY <1>2, <1>9, Consts DEF Segment
  <2>3. x \in Procs
    BY <1>2, <2>2 DEF Procs
  <2>4. /\ x.pc = "find" /\ x.id = i /\ x.kind = proc[p].kind /\ x.ver = proc[p].ver
        /\ x.seg = g + 1
    BY <1>1, <1>2 DEF Procs
  <2>5. /\ proc' \in [Process -> Procs] /\ proc'[p] = x /\ \A q \in Process \ {p} : proc'[q] = proc[q]
    BY <2>1, <2>3, Going
  <2> HIDE DEF x
  <2>6. Owned(p)' /\ Rewriting(p)'
    BY <1>1, <1>2, <2>4, <2>5 DEF Owned, Rewriting, Unwritten, Written, Placed
  <2>7. TypeOK' /\ \A q \in Process \ {p} : Leaves(q)
    BY <1>2, <1>6, <1>7, <1>9, <2>1, <2>5
  <2> QED
    BY <1>1, <1>5, <1>9, <2>1, <2>4, <2>5, <2>6, <2>7, GoOnStep
<1>10. CASE Return(p) /\ UNCHANGED callers
  <2>1. TypeOK' /\ proc'[p] = Idle /\ \A q \in Process \ {p} : Leaves(q)
    BY <1>2, <1>6, <1>7, <1>10, Returning DEF callers
  <2> QED
    BY <1>5, <2>1, EndStep
<1>11. CASE Fail(p)
  <2>1. Return(p)
    BY <1>11 DEF Fail
  <2>2. TypeOK' /\ proc'[p] = Idle /\ \A q \in Process \ {p} : Leaves(q)
    BY <1>1, <1>6, <1>7, <1>11, <2>1, Returning, Failing
  <2> QED
    BY <1>5, <2>2, EndStep
<1> QED
  BY <1>8, <1>9, <1>10, <1>11 DEF FindOneFileRegion

\* The search is past the last file: a writer takes the preallocation lock.
LEMMA NoSuchFileStep ==
  ASSUME BlockInv, NEW p \in Process, NoSuchFile(p), scene' = scene
  PROVE  BlockInv'
<1> DEFINE g == proc[p].seg
<1>1. /\ proc[p].pc = "find" /\ g > allocated /\ Busy(p) /\ UNCHANGED <<file, cow, allocated, blockLock>>
  BY DEF NoSuchFile, Busy, disk
<1>2. /\ g \in Segment /\ g \in Nat /\ proc[p] \in Procs /\ allocated \in Nat
      /\ slotLock \in [Slot -> Process \cup {Free}] /\ prealloc \in [Segment -> Process \cup {Free}]
      /\ next \in [ID -> Nat \ {0}] /\ may \in [ID -> SUBSET Nat] /\ Owned(p)
  BY Types
<1>g. g = allocated + 1
  BY <1>1, <1>2 DEF Owned
<1>3. \A h \in Segment : Intact(h)'
  BY <1>1, <1>2, SameDisk
<1>4. ASSUME proc' \in [Process -> Procs], slotLock' \in [Slot -> Process \cup {Free}],
             prealloc' \in [Segment -> Process \cup {Free}],
             next' \in [ID -> Nat \ {0}], may' \in [ID -> SUBSET Nat]
      PROVE  TypeOK'
  BY <1>1, <1>4, Types, TypesBack
<1>5. ASSUME \A q \in Process \ {p} : proc'[q] = proc[q],
             \A q \in Process \ {p}, h \in Segment : prealloc[h] = q => prealloc'[h] = q,
             \A q \in Process \ {p} : Writer(q) /\ proc[q].kind \in {"add", "set"} =>
               next'[proc[q].id] = next[proc[q].id]
      PROVE  \A q \in Process \ {p} : Leaves(q)
  BY <1>1, <1>2, <1>5 DEF Leaves
<1>6. CASE /\ Writes(p) /\ prealloc[g] = Free /\ prealloc' = [prealloc EXCEPT ![g] = p]
           /\ Go(p, [proc[p] EXCEPT !.pc = "truncate"]) /\ UNCHANGED <<slotLock, callers>>
  <2> DEFINE x == [proc[p] EXCEPT !.pc = "truncate"]
  <2>1. Go(p, x) /\ next' = next /\ may' = may
    BY <1>6 DEF callers
  <2>2. x \in Procs
    BY <1>2 DEF Procs, Locking
  <2>3. /\ x.pc = "truncate" /\ x.id = proc[p].id /\ x.kind = proc[p].kind
        /\ x.ver = proc[p].ver /\ x.seg = g
    BY <1>2 DEF Procs
  <2>4. /\ proc' \in [Process -> Procs] /\ proc'[p] = x /\ \A q \in Process \ {p} : proc'[q] = proc[q]
    BY <2>1, <2>2, Going
  <2> HIDE DEF x
  <2>5. /\ prealloc' \in [Segment -> Process \cup {Free}] /\ prealloc'[g] = p
        /\ \A q \in Process \ {p}, h \in Segment : prealloc[h] = q => prealloc'[h] = q
    BY <1>2, <1>6, Consts
  <2>6. Owned(p)' /\ Rewriting(p)'
    BY <1>1, <1>2, <1>g, <2>3, <2>4, <2>5 DEF Owned, Rewriting, Unwritten, Written, Placed
  <2>7. TypeOK' /\ \A q \in Process \ {p} : Leaves(q)
    BY <1>2, <1>4, <1>5, <1>6, <2>1, <2>4, <2>5
  <2> QED
    BY <1>1, <1>3, <1>6, <2>1, <2>3, <2>4, <2>6, <2>7, GoOnStep
<1>7. CASE Return(p) /\ UNCHANGED <<prealloc, callers>>
  <2>1. TypeOK' /\ proc'[p] = Idle /\ \A q \in Process \ {p} : Leaves(q)
    BY <1>2, <1>4, <1>5, <1>7, Returning DEF callers
  <2> QED
    BY <1>3, <2>1, EndStep
<1>8. CASE Fail(p) /\ UNCHANGED prealloc
  <2>1. Return(p)
    BY <1>8 DEF Fail
  <2>2. TypeOK' /\ proc'[p] = Idle /\ \A q \in Process \ {p} : Leaves(q)
    BY <1>1, <1>2, <1>4, <1>5, <1>8, <2>1, Returning, Failing
  <2> QED
    BY <1>3, <2>2, EndStep
<1> QED
  BY <1>6, <1>7, <1>8 DEF NoSuchFile

\* A new segment file is set up by the one process that has its lock.
LEMMA SetupStep ==
  ASSUME BlockInv, NEW p \in Process, SetupNewFile(p), scene' = scene
  PROVE  BlockInv'
<1> DEFINE g == proc[p].seg
<1>1. /\ proc[p].pc = "truncate" /\ Busy(p) /\ UNCHANGED <<file, cow, blockLock>>
      /\ prealloc' = [prealloc EXCEPT ![g] = Free]
      /\ allocated' = IF g > allocated THEN g ELSE allocated
  BY DEF SetupNewFile, Busy
<1>2. /\ g \in Segment /\ g \in Nat /\ proc[p] \in Procs /\ allocated \in Nat
      /\ g = allocated + 1 /\ prealloc[g] = p /\ Writes(p)
      /\ slotLock \in [Slot -> Process \cup {Free}] /\ prealloc \in [Segment -> Process \cup {Free}]
      /\ next \in [ID -> Nat \ {0}] /\ may \in [ID -> SUBSET Nat] /\ proc[p].id \in ID
  BY <1>1, Types DEF Owned, Called, Locking
<1>3. allocated' = g /\ allocated' \in 0..MaxSegments
  BY <1>1, <1>2, Consts DEF Segment
<1>4. \A h \in Segment : Intact(h)'
  BY <1>1, <1>2, <1>3, SameDisk
<1>5. /\ prealloc' \in [Segment -> Process \cup {Free}]
      /\ \A q \in Process \ {p}, h \in Segment : prealloc[h] = q => prealloc'[h] = q
  BY <1>1, <1>2
<1>6. ASSUME NEW q \in Process \ {p} PROVE proc[q].pc # "truncate"
  <2>1. Owned(q)
    BY Types
  <2> QED
    BY <1>2, <2>1 DEF Owned
<1>7. ASSUME proc' \in [Process -> Procs], slotLock' \in [Slot -> Process \cup {Free}],
             next' \in [ID -> Nat \ {0}], may' \in [ID -> SUBSET Nat]
      PROVE  TypeOK'
  BY <1>1, <1>3, <1>5, <1>7, Types, TypesBack
<1>8. ASSUME \A q \in Process \ {p} : proc'[q] = proc[q],
             \A q \in Process \ {p} : Writer(q) /\ proc[q].kind \in {"add", "set"} =>
               next'[proc[q].id] = next[proc[q].id]
      PROVE  \A q \in Process \ {p} : Leaves(q)
  BY <1>1, <1>2, <1>3, <1>5, <1>6, <1>8 DEF Leaves
<1>9. CASE Found(p, Home[proc[p].id], Vacant) /\ UNCHANGED <<slotLock, callers>>
  <2> DEFINE x == [proc[p] EXCEPT !.pc = IF proc[p].kind = "add" THEN "lockslot" ELSE "lockblock",
                                  !.slot = Home[proc[p].id], !.found = Vacant]
  <2>1. Go(p, x) /\ next' = next /\ may' = may
    BY <1>9 DEF Found, callers
  <2>2. x \in Procs
    BY <1>2, Consts DEF Procs, Locking
  <2>3. /\ x.pc \in {"lockslot", "lockblock"} /\ x.id = proc[p].id /\ x.kind = proc[p].kind
        /\ x.ver = proc[p].ver /\ x.seg = g
    BY <1>2 DEF Procs
  <2>4. /\ proc' \in [Process -> Procs] /\ proc'[p] = x /\ \A q \in Process \ {p} : proc'[q] = proc[q]
    BY <2>1, <2>2, Going
  <2> HIDE DEF x
  <2>5. Owned(p)' /\ Rewriting(p)'
    BY <1>2, <1>3, <2>3, <2>4 DEF Owned, Rewriting, Unwritten, Written, Placed
  <2>6. TypeOK' /\ \A q \in Process \ {p} : Leaves(q)
    BY <1>2, <1>7, <1>8, <1>9, <2>1, <2>4
  <2> QED
    BY <1>1, <1>2, <1>4, <2>1, <2>3, <2>4, <2>5, <2>6, GoOnStep
<1>10. CASE Fail(p)
  <2>1. Return(p)
    BY <1>10 DEF Fail
  <2>2. TypeOK' /\ proc'[p] = Idle /\ \A q \in Process \ {p} : Leaves(q)
    BY <1>1, <1>2, <1>7, <1>8, <1>10, <2>1, Returning, Failing
  <2> QED
    BY <1>4, <2>2, EndStep
<1> QED
  BY <1>9, <1>10 DEF SetupNewFile

\* A step that takes or leaves the locks of slots and goes on.
LEMMA SlotStep ==
  ASSUME BlockInv, NEW p \in Process, Busy(p), Writes(p), scene' = scene,
         UNCHANGED <<file, cow, allocated, prealloc, blockLock, next, may>>,
         slotLock' \in [Slot -> Process \cup {Free}],
         NEW x \in Procs, Go(p, x), x.id = proc[p].id, x.kind = proc[p].kind, x.ver = proc[p].ver,
         \/ x.pc = "find" /\ x.seg <= allocated + 1
         \/ x.pc = "lockblock" /\ x.seg <= allocated
  PROVE  BlockInv'
<1>1. allocated \in Nat
  BY Types
<1>2. /\ proc' \in [Process -> Procs] /\ proc'[p] = x /\ \A q \in Process \ {p} : proc'[q] = proc[q]
  BY Going
<1>3. TypeOK'
  BY <1>2, Types, TypesBack
<1>4. \A q \in Process \ {p} : Leaves(q)
  BY <1>1, <1>2 DEF Leaves
<1>5. \A g \in Segment : Intact(g)'
  BY <1>1, SameDisk
<1>6. Owned(p)' /\ Rewriting(p)'
  BY <1>2 DEF Owned, Rewriting, Unwritten, Written, Placed
<1> QED
  BY <1>2, <1>3, <1>4, <1>5, <1>6, GoOnStep

\* An add locks the slots it needs.
LEMMA SlotLockStep ==
  ASSUME BlockInv, NEW p \in Process, LockHome(p) \/ LockSlot(p), scene' = scene
  PROVE  BlockInv'
<1>1. /\ proc[p].pc \in {"lockhome", "lockslot"} /\ Busy(p)
      /\ UNCHANGED <<file, cow, allocated, prealloc, blockLock, next, may>>
  BY DEF LockHome, LockSlot, Busy, disk, callers
<1>2. /\ proc[p] \in Procs /\ proc[p].seg \in Segment /\ proc[p].seg \in Nat /\ allocated \in Nat
      /\ slotLock \in [Slot -> Process \cup {Free}] /\ proc[p].slot \in Slot
      /\ Called(p) /\ Owned(p)
  BY Types
<1>3. proc[p].id \in ID /\ Home[proc[p].id] \in Slot /\ Writes(p)
  BY <1>1, <1>2, Consts DEF Called, Locking
<1>4. slotLock' \in [Slot -> Process \cup {Free}]
  BY <1>2, <1>3 DEF LockHome, LockSlot
<1>5. CASE LockHome(p)
  <2> DEFINE x == [proc[p] EXCEPT !.pc = "find"]
  <2>1. /\ x \in Procs /\ x.pc = "find" /\ x.seg = proc[p].seg
        /\ x.id = proc[p].id /\ x.kind = proc[p].kind /\ x.ver = proc[p].ver
    BY <1>2 DEF Procs
  <2>2. Go(p, x) /\ x.seg <= allocated + 1
    <3>1. Go(p, x) /\ x.seg = 1
      BY <1>2, <1>5, <2>1 DEF LockHome, Owned
    <3> QED
      BY <1>2, <3>1
  <2> HIDE DEF x
  <2> QED
    BY <1>1, <1>3, <1>4, <2>1, <2>2, SlotStep
<1>6. CASE LockSlot(p) /\ Go(p, [proc[p] EXCEPT !.pc = "lockblock"])
  <2> DEFINE x == [proc[p] EXCEPT !.pc = "lockblock"]
  <2>1. /\ x \in Procs /\ x.pc = "lockblock" /\ x.seg = proc[p].seg
        /\ x.id = proc[p].id /\ x.kind = proc[p].kind /\ x.ver = proc[p].ver
    BY <1>2 DEF Procs, Locking
  <2>2. Go(p, x) /\ x.seg <= allocated
    BY <1>2, <1>6, <2>1 DEF LockSlot, Owned, Placed
  <2> HIDE DEF x
  <2> QED
    BY <1>1, <1>3, <1>4, <2>1, <2>2, SlotStep
<1>7. CASE LockSlot(p) /\ Go(p, [proc[p] EXCEPT !.pc = "find", !.seg = 1, !.found = Vacant])
  <2> DEFINE x == [proc[p] EXCEPT !.pc = "find", !.seg = 1, !.found = Vacant]
  <2>1. /\ x \in Procs /\ x.pc = "find" /\ x.seg = 1
        /\ x.id = proc[p].id /\ x.kind = proc[p].kind /\ x.ver = proc[p].ver
    BY <1>2, Consts DEF Procs
  <2>2. Go(p, x) /\ x.seg <= allocated + 1
    BY <1>2, <1>7, <2>1
  <2> HIDE DEF x
  <2> QED
    BY <1>1, <1>3, <1>4, <2>1, <2>2, SlotStep
<1> QED
  BY <1>5, <1>6, <1>7 DEF LockSlot

\* Nobody else is in the block a process has locked.
LEMMA OnlyOne ==
  ASSUME BlockInv, NEW p \in Process, NEW q \in Process \ {p},
         proc[p].pc \in Unwritten \cup Written, proc[q].pc \in Unwritten \cup Written
  PROVE  proc[p].seg # proc[q].seg
<1>1. Owned(p) /\ Owned(q)
  BY Types
<1> QED
  BY <1>1 DEF Owned

\* A step of the owner of a block's lock, which may change that block and its backup.
LEMMA OwnerStep ==
  ASSUME BlockInv, NEW p \in Process, proc[p].pc \in Unwritten \cup Written, scene' = scene,
         UNCHANGED <<allocated, prealloc, blockLock, slotLock, next, may>>,
         NEW b \in [slots : Blocks, torn : BOOLEAN], file' = [file EXCEPT ![proc[p].seg] = b],
         NEW c \in [state : {"none", "partial", "full"}, slots : Blocks],
         cow' = [cow EXCEPT ![proc[p].seg] = c],
         NEW x \in Procs, Go(p, x), x.id = proc[p].id, x.kind = proc[p].kind, x.ver = proc[p].ver,
         x.pc \in Unwritten \cup Written, x.seg = proc[p].seg,
         b.torn => scene.tears /\ c.state = "full",
         Rewriting(p)'
  PROVE  BlockInv'
<1> DEFINE g == proc[p].seg
<1>1. /\ allocated \in Nat /\ g \in Segment /\ g \in Nat /\ Called(p) /\ Owned(p)
      /\ file \in [Segment -> [slots : Blocks, torn : BOOLEAN]]
      /\ cow \in [Segment -> [state : {"none", "partial", "full"}, slots : Blocks]]
  BY Types
<1>2. /\ proc' \in [Process -> Procs] /\ proc'[p] = x /\ \A q \in Process \ {p} : proc'[q] = proc[q]
  BY Going
<1>3. /\ file' \in [Segment -> [slots : Blocks, torn : BOOLEAN]]
      /\ cow' \in [Segment -> [state : {"none", "partial", "full"}, slots : Blocks]]
      /\ file'[g] = b /\ cow'[g] = c
      /\ \A h \in Segment \ {g} : file'[h] = file[h] /\ cow'[h] = cow[h]
  BY <1>1
<1>4. TypeOK'
  BY <1>2, <1>3, Types, TypesBack
<1>5. Busy(p) /\ Writes(p) /\ blockLock[g] = p /\ g <= allocated
  BY <1>1 DEF Busy, Unwritten, Written, Called, Owned, Placed
<1>6. ASSUME NEW q \in Process \ {p} PROVE Leaves(q)
  <2>1. proc[q].seg \in Segment
    BY Types
  <2>2. proc[q].pc \in Unwritten \cup Written => proc[q].seg # g
    BY OnlyOne
  <2>3. proc[q].pc \in {"cow2", "write", "write2"} => proc[q].pc \in Unwritten
    BY DEF Unwritten
  <2>4. proc[q].pc \in (Unwritten \ {"read"}) \cup Written \/ proc[q].pc \in {"cow2", "write", "write2"}
          => file'[proc[q].seg] = file[proc[q].seg] /\ cow'[proc[q].seg] = cow[proc[q].seg]
    BY <1>3, <2>1, <2>2, <2>3
  <2>5. proc'[q] = proc[q] /\ allocated' = allocated /\ allocated <= allocated
    BY <1>1, <1>2
  <2> QED
    BY <2>4, <2>5 DEF Leaves
<1>7. ASSUME NEW h \in Segment PROVE Intact(h)'
  <2>1. Intact(h)
    BY DEF BlockInv
  <2>2. CASE h = g
    BY <1>1, <1>3, <1>5, <2>2 DEF Intact
  <2>3. CASE h # g
    BY <1>3, <2>1, <2>3 DEF Intact
  <2> QED
    BY <2>2, <2>3
<1>8. Owned(p)'
  BY <1>2, <1>5 DEF Owned, Placed, Unwritten, Written
<1>9. proc'[p].pc \notin {"idle", "dead"}
  BY <1>2 DEF Unwritten, Written
<1> QED
  BY <1>2, <1>4, <1>5, <1>6, <1>7, <1>8, <1>9, GoOnStep

\* A block gets its one writer.
LEMMA LockBlockStep ==
  ASSUME BlockInv, NEW p \in Process, LockFileBlockRegion(p), scene' = scene
  PROVE  BlockInv'
<1> DEFINE g == proc[p].seg
           x == [proc[p] EXCEPT !.pc = "read", !.found = Vacant]
<1>1. /\ proc[p].pc = "lockblock" /\ Busy(p) /\ blockLock[g] = Free
      /\ blockLock' = [blockLock EXCEPT ![g] = p] /\ Go(p, x)
      /\ UNCHANGED <<file, cow, allocated, prealloc, slotLock, next, may>>
  BY DEF LockFileBlockRegion, Busy, disk, callers
<1>2. /\ proc[p] \in Procs /\ g \in Segment /\ g \in Nat /\ allocated \in Nat
      /\ blockLock \in [Segment -> Process \cup {Free}] /\ Called(p) /\ Owned(p)
  BY Types
<1>3. Writes(p) /\ g <= allocated
  BY <1>1, <1>2 DEF Called, Owned, Locking, Placed
<1>4. /\ x \in Procs /\ x.pc = "read" /\ x.seg = g
      /\ x.id = proc[p].id /\ x.kind = proc[p].kind /\ x.ver = proc[p].ver
  BY <1>2, Consts DEF Procs, Unwritten
<1> HIDE DEF x
<1>5. /\ proc' \in [Process -> Procs] /\ proc'[p] = x /\ \A q \in Process \ {p} : proc'[q] = proc[q]
  BY <1>1, <1>4, Going
<1>6. /\ blockLock' \in [Segment -> Process \cup {Free}] /\ blockLock'[g] = p
      /\ \A q \in Process \ {p}, h \in Segment : blockLock[h] = q => blockLock'[h] = q
  BY <1>1, <1>2, Consts
<1>7. TypeOK'
  BY <1>1, <1>5, <1>6, Types, TypesBack
<1>8. \A q \in Process \ {p} : Leaves(q)
  BY <1>1, <1>2, <1>5, <1>6 DEF Leaves
<1>9. Owned(p)' /\ Rewriting(p)'
  BY <1>1, <1>3, <1>4, <1>5, <1>6 DEF Owned, Rewriting, Unwritten, Written, Placed
<1>10. \A h \in Segment : Intact(h)'
  BY <1>1, <1>2, SameDisk
<1> QED
  BY <1>1, <1>3, <1>4, <1>5, <1>7, <1>8, <1>9, <1>10, GoOnStep

\* The block is read, backed up, written, and the backup deleted.
LEMMA RewriteStep ==
  ASSUME BlockInv, NEW p \in Process, scene' = scene,
         ReadBlock(p) \/ CreateCow(p) \/ WriteBlock(p) \/ DeleteCow(p)
  PROVE  BlockInv'
<1> DEFINE g == proc[p].seg
<1>1. /\ proc[p].pc \in Unwritten \cup Written
      /\ UNCHANGED <<allocated, prealloc, slotLock, blockLock, next, may>>
  BY DEF ReadBlock, CreateCow, WriteBlock, DeleteCow, locks, callers, Unwritten, Written
<1>2. /\ proc[p] \in Procs /\ g \in Segment /\ proc[p].slot \in Slot /\ proc[p].buf \in Blocks
      /\ Called(p) /\ Rewriting(p)
      /\ file \in [Segment -> [slots : Blocks, torn : BOOLEAN]]
      /\ cow \in [Segment -> [state : {"none", "partial", "full"}, slots : Blocks]]
  BY Types
<1>3. /\ file[g] \in [slots : Blocks, torn : BOOLEAN] /\ file = [file EXCEPT ![g] = file[g]]
      /\ cow[g] \in [state : {"none", "partial", "full"}, slots : Blocks]
      /\ cow = [cow EXCEPT ![g] = cow[g]]
  BY <1>2
<1>4. file[g].torn => scene.tears /\ cow[g].state = "full"
  BY <1>2 DEF BlockInv, Intact
<1>5. Record(p) \in Recs
  <2>1. proc[p].kind # "remove" => proc[p].id \in ID /\ proc[p].ver \in Nat \ {0}
    BY <1>1, <1>2, Types DEF Called, Kind, Busy, Writes, Unwritten, Written
  <2> QED
    BY <2>1, Consts DEF Record, Recs
<1>6. /\ NoCow \in [state : {"none", "partial", "full"}, slots : Blocks]
      /\ PartialCow \in [state : {"none", "partial", "full"}, slots : Blocks]
      /\ FullCow(proc[p].buf) \in [state : {"none", "partial", "full"}, slots : Blocks]
      /\ FullCow(proc[p].buf).state = "full"
  BY <1>2, Consts DEF NoCow, PartialCow, FullCow
<1>7. CASE ReadBlock(p)
  <2> DEFINE x == [proc[p] EXCEPT !.pc = "cow", !.buf = Content(g)]
             b == [slots |-> Content(g), torn |-> FALSE]
  <2>1. ReadAndRestoreBlock(g) /\ Go(p, x)
    BY <1>7 DEF ReadBlock
  <2>2. Content(g) \in Blocks
    BY <1>2, <2>1, ReadFacts
  <2>3. (file[g].torn /\ cow[g].state # "full") = FALSE
    BY <1>2, <1>4
  <2>4. file' = [file EXCEPT ![g] = b] /\ b \in [slots : Blocks, torn : BOOLEAN]
    BY <2>1, <2>2, <2>3 DEF ReadAndRestoreBlock
  <2>5. PICK c \in [state : {"none", "partial", "full"}, slots : Blocks] :
          cow' = [cow EXCEPT ![g] = c]
    BY <1>3, <1>6, <2>1 DEF ReadAndRestoreBlock
  <2>6. /\ x \in Procs /\ x.pc = "cow" /\ x.seg = g /\ x.buf = Content(g)
        /\ x.id = proc[p].id /\ x.kind = proc[p].kind /\ x.ver = proc[p].ver
    BY <1>2, <2>2 DEF Procs, Unwritten
  <2> HIDE DEF x
  <2>7. proc'[p] = x /\ file'[g] = b
    BY <1>2, <2>1, <2>4, <2>6, Going
  <2>8. Rewriting(p)'
    BY <2>6, <2>7 DEF Rewriting, Written
  <2> QED
    BY <1>1, <2>1, <2>4, <2>5, <2>6, <2>8, OwnerStep DEF Unwritten
<1>8. CASE /\ proc[p].pc = "cow" /\ scene.tears /\ UNCHANGED file
           /\ cow' = [cow EXCEPT ![g] = PartialCow] /\ Go(p, [proc[p] EXCEPT !.pc = "cow2"])
  <2> DEFINE x == [proc[p] EXCEPT !.pc = "cow2"]
  <2>1. /\ x \in Procs /\ x.pc = "cow2" /\ x.seg = g /\ x.buf = proc[p].buf
        /\ x.id = proc[p].id /\ x.kind = proc[p].kind /\ x.ver = proc[p].ver
    BY <1>2 DEF Procs, Unwritten
  <2>2. Go(p, x)
    BY <1>8
  <2> HIDE DEF x
  <2>3. proc'[p] = x
    BY <2>1, <2>2, Going
  <2>4. ~file[g].torn /\ proc[p].buf = file[g].slots
    BY <1>2, <1>8 DEF Rewriting
  <2>6. cow'[g] = PartialCow
    BY <1>2, <1>8
  <2>5. Rewriting(p)'
    BY <1>8, <2>1, <2>3, <2>4, <2>6 DEF Rewriting, Written
  <2> QED
    BY <1>1, <1>3, <1>6, <1>8, <2>1, <2>2, <2>4, <2>5, OwnerStep DEF Unwritten
<1>9. CASE /\ proc[p].pc \in {"cow", "cow2"} /\ UNCHANGED file
           /\ cow' = [cow EXCEPT ![g] = FullCow(proc[p].buf)] /\ Go(p, [proc[p] EXCEPT !.pc = "write"])
  <2> DEFINE x == [proc[p] EXCEPT !.pc = "write"]
  <2>1. /\ x \in Procs /\ x.pc = "write" /\ x.seg = g /\ x.buf = proc[p].buf
        /\ x.id = proc[p].id /\ x.kind = proc[p].kind /\ x.ver = proc[p].ver
    BY <1>2 DEF Procs, Unwritten
  <2>2. Go(p, x)
    BY <1>9
  <2> HIDE DEF x
  <2>3. proc'[p] = x /\ cow'[g] = FullCow(proc[p].buf)
    BY <1>2, <1>9, <2>1, <2>2, Going
  <2>4. ~file[g].torn /\ proc[p].buf = file[g].slots
    BY <1>2, <1>9 DEF Rewriting
  <2>5. Rewriting(p)'
    BY <1>9, <2>1, <2>3, <2>4 DEF Rewriting, Written
  <2> QED
    BY <1>1, <1>3, <1>6, <1>9, <2>1, <2>2, <2>4, <2>5, OwnerStep DEF Unwritten
<1>10. CASE WriteBlock(p)
  <2> DEFINE block == [proc[p].buf EXCEPT ![proc[p].slot] = Record(p)]
  <2>1. block \in Blocks /\ block[proc[p].slot] = Record(p)
    BY <1>2, <1>5 DEF Blocks
  <2>2. CASE /\ proc[p].pc = "write" /\ scene.tears
             /\ file' = [file EXCEPT ![g] = [slots |-> block, torn |-> TRUE]]
             /\ Go(p, [proc[p] EXCEPT !.pc = "write2"])
    <3> DEFINE x == [proc[p] EXCEPT !.pc = "write2"]
               b == [slots |-> block, torn |-> TRUE]
    <3>1. /\ x \in Procs /\ x.pc = "write2" /\ x.seg = g /\ x.buf = proc[p].buf
          /\ x.id = proc[p].id /\ x.kind = proc[p].kind /\ x.ver = proc[p].ver
          /\ x.slot = proc[p].slot
      BY <1>2 DEF Procs, Unwritten
    <3>2. Go(p, x) /\ file' = [file EXCEPT ![g] = b] /\ cow' = cow
      BY <1>10, <2>2 DEF WriteBlock
    <3> HIDE DEF x
    <3>3. proc'[p] = x /\ file'[g] = b
      BY <1>2, <3>1, <3>2, Going
    <3>4. cow[g] = FullCow(proc[p].buf)
      BY <1>2, <2>2 DEF Rewriting
    <3>5. Record(p)' = Record(p)
      BY <3>1, <3>3 DEF Record
    <3>6. Rewriting(p)'
      BY <2>2, <3>1, <3>2, <3>3, <3>4, <3>5 DEF Rewriting, Written
    <3>7. b \in [slots : Blocks, torn : BOOLEAN]
      BY <2>1
    <3> QED
      BY <1>1, <1>3, <1>6, <2>2, <3>1, <3>2, <3>4, <3>6, <3>7, OwnerStep DEF Unwritten
  <2>3. CASE /\ file' = [file EXCEPT ![g] = [slots |-> block, torn |-> FALSE]]
             /\ Go(p, [proc[p] EXCEPT !.pc = "uncow", !.buf = ZeroBlock])
    <3> DEFINE x == [proc[p] EXCEPT !.pc = "uncow", !.buf = ZeroBlock]
               b == [slots |-> block, torn |-> FALSE]
    <3>1. /\ x \in Procs /\ x.pc = "uncow" /\ x.seg = g
          /\ x.id = proc[p].id /\ x.kind = proc[p].kind /\ x.ver = proc[p].ver
          /\ x.slot = proc[p].slot
      BY <1>2, Consts DEF Procs, Written
    <3>2. Go(p, x) /\ file' = [file EXCEPT ![g] = b] /\ cow' = cow
      BY <1>10, <2>3 DEF WriteBlock
    <3> HIDE DEF x
    <3>3. proc'[p] = x /\ file'[g] = b
      BY <1>2, <3>1, <3>2, Going
    <3>4. Record(p)' = Record(p)
      BY <3>1, <3>3 DEF Record
    <3>0. ~file'[g].torn /\ file'[g].slots[proc[p].slot] = Record(p)
      BY <2>1, <3>3
    <3>5. Rewriting(p)'
      BY <3>0, <3>1, <3>3, <3>4 DEF Rewriting, Written
    <3>6. b \in [slots : Blocks, torn : BOOLEAN] /\ ~b.torn
      BY <2>1
    <3> QED
      BY <1>1, <1>3, <3>1, <3>2, <3>5, <3>6, OwnerStep DEF Written
  <2> QED
    BY <1>10, <2>2, <2>3 DEF WriteBlock
<1>11. CASE DeleteCow(p)
  <2> DEFINE x == [proc[p] EXCEPT !.pc = "unlock"]
  <2>1. /\ x \in Procs /\ x.pc = "unlock" /\ x.seg = g /\ x.slot = proc[p].slot
        /\ x.id = proc[p].id /\ x.kind = proc[p].kind /\ x.ver = proc[p].ver
    BY <1>2 DEF Procs, Written
  <2>2. Go(p, x) /\ file' = file /\ cow' = [cow EXCEPT ![g] = NoCow] /\ proc[p].pc = "uncow"
    BY <1>11 DEF DeleteCow
  <2> HIDE DEF x
  <2>3. proc'[p] = x
    BY <2>1, <2>2, Going
  <2>4. Record(p)' = Record(p)
    BY <2>1, <2>3 DEF Record
  <2>5. ~file[g].torn /\ file[g].slots[proc[p].slot] = Record(p)
    BY <1>2, <2>2 DEF Rewriting, Written
  <2>6. Rewriting(p)'
    BY <2>1, <2>2, <2>3, <2>4, <2>5 DEF Rewriting, Written
  <2> QED
    BY <1>1, <1>3, <1>6, <2>1, <2>2, <2>5, <2>6, OwnerStep DEF Written
<1>12. CASE CreateCow(p)
  <2>1. ~(proc[p].pc = "cow2" /\ cow[g] = NoCow)
    BY <1>2 DEF Rewriting, PartialCow, NoCow
  <2> QED
    BY <1>8, <1>9, <1>12, <2>1 DEF CreateCow
<1> QED
  BY <1>7, <1>10, <1>11, <1>12

\* The writer of a block returns.
LEMMA UnlockStep ==
  ASSUME BlockInv, NEW p \in Process, UnlockFileBlockRegion(p), scene' = scene
  PROVE  BlockInv'
<1> DEFINE g == proc[p].seg
<1>1. /\ proc[p].pc = "unlock" /\ Busy(p) /\ Return(p)
      /\ blockLock' = [blockLock EXCEPT ![g] = Free]
      /\ may' = [may EXCEPT ![proc[p].id] = {proc[p].ver}]
      /\ UNCHANGED <<file, cow, allocated, prealloc, next>>
  BY DEF UnlockFileBlockRegion, Busy, disk
<1>2. /\ g \in Segment /\ allocated \in Nat /\ proc[p].ver \in Nat /\ Owned(p)
      /\ blockLock \in [Segment -> Process \cup {Free}] /\ may \in [ID -> SUBSET Nat]
  BY Types
<1>3. blockLock[g] = p
  BY <1>1, <1>2 DEF Owned, Written
<1>4. /\ blockLock' \in [Segment -> Process \cup {Free}]
      /\ \A q \in Process \ {p}, h \in Segment : blockLock[h] = q => blockLock'[h] = q
  BY <1>1, <1>2, <1>3
<1>5. /\ slotLock' \in [Slot -> Process \cup {Free}]
      /\ proc' \in [Process -> Procs] /\ proc'[p] = Idle
      /\ \A q \in Process \ {p} : proc'[q] = proc[q]
  BY <1>1, Returning
<1>6. may' \in [ID -> SUBSET Nat]
  BY <1>1, <1>2
<1>7. TypeOK'
  BY <1>1, <1>4, <1>5, <1>6, Types, TypesBack
<1>8. \A q \in Process \ {p} : Leaves(q)
  BY <1>1, <1>2, <1>4, <1>5 DEF Leaves
<1> QED
  BY <1>1, <1>2, <1>5, <1>7, <1>8, SameDisk, EndStep

\* Without power cuts a death leaves the backups as they are.
LEMMA DeathSpares ==
  ASSUME NoPower, BlockInv, NEW p \in Process, Crash(p)
  PROVE  cow' = cow
<1>1. ~scene.power
  BY DEF NoPower, BlockInv, TypeOK
<1> QED
  BY <1>1 DEF Crash, AfterDeath

\* An update fails: the lock of its block is given back.
LEMMA FailStep ==
  ASSUME BlockInv, NEW p \in Process, UpdateFails(p), scene' = scene
  PROVE  BlockInv'
<1> DEFINE g == proc[p].seg
<1>1. /\ proc[p].pc \in Unwritten \cup Written /\ Busy(p)
      /\ blockLock' = [blockLock EXCEPT ![g] = Free]
      /\ UNCHANGED <<file, cow, allocated, prealloc>>
      /\ (Return(p) /\ next' = next /\ may' = may) \/ Fail(p)
  BY DEF UpdateFails, Busy, Unwritten, Written, disk, callers
<1>2. /\ g \in Segment /\ allocated \in Nat /\ Owned(p)
      /\ blockLock \in [Segment -> Process \cup {Free}]
      /\ next \in [ID -> Nat \ {0}] /\ may \in [ID -> SUBSET Nat]
  BY Types
<1>3. blockLock[g] = p
  BY <1>1, <1>2 DEF Owned
<1>4. /\ blockLock' \in [Segment -> Process \cup {Free}]
      /\ \A q \in Process \ {p}, h \in Segment : blockLock[h] = q => blockLock'[h] = q
  BY <1>1, <1>2, <1>3
<1>5. /\ next' \in [ID -> Nat \ {0}] /\ may' \in [ID -> SUBSET Nat]
      /\ \A q \in Process \ {p} : Writer(q) /\ proc[q].kind \in {"add", "set"} =>
           next'[proc[q].id] = next[proc[q].id]
  BY <1>1, <1>2, Failing
<1>6. Return(p)
  BY <1>1 DEF Fail
<1>7. /\ slotLock' \in [Slot -> Process \cup {Free}]
      /\ proc' \in [Process -> Procs] /\ proc'[p] = Idle
      /\ \A q \in Process \ {p} : proc'[q] = proc[q]
  BY <1>6, Returning
<1>8. TypeOK'
  BY <1>1, <1>4, <1>5, <1>7, Types, TypesBack
<1>9. \A q \in Process \ {p} : Leaves(q)
  BY <1>1, <1>2, <1>4, <1>5, <1>7 DEF Leaves
<1> QED
  BY <1>1, <1>2, <1>7, <1>8, <1>9, SameDisk, EndStep

\* A call gives up on a lock, or its process dies.
LEMMA StopStep ==
  ASSUME NoPower, BlockInv, NEW p \in Process, GiveUp(p) \/ Crash(p), scene' = scene
  PROVE  BlockInv'
<1>1. Busy(p) /\ UNCHANGED <<file, cow, allocated, prealloc, blockLock>>
  BY DeathSpares DEF GiveUp, Crash, Busy, disk, locks
<1>2. allocated \in Nat
  BY Types
<1>3. CASE GiveUp(p)
  <2>1. Fail(p) /\ Return(p)
    BY <1>3 DEF GiveUp, Fail
  <2>2. proc'[p] = Idle /\ TypeOK'
    BY <1>1, <2>1, Returning, Failing, Types, TypesBack
  <2>3. \A q \in Process \ {p} : Leaves(q)
    BY <1>1, <1>2, <2>1, Returning, Failing DEF Leaves
  <2> QED
    BY <1>1, <1>2, <2>2, <2>3, SameDisk, EndStep
<1>4. CASE Crash(p)
  <2> DEFINE x == [Idle EXCEPT !.pc = "dead"]
  <2>1. Go(p, x) /\ x \in Procs /\ UNCHANGED <<slotLock, next, may>>
    BY <1>4, IdleType DEF Crash, Go, locks, callers
  <2>2. /\ proc' \in [Process -> Procs] /\ proc'[p] = x /\ \A q \in Process \ {p} : proc'[q] = proc[q]
    BY <2>1, Going
  <2>3. TypeOK'
    BY <1>1, <2>1, <2>2, Types, TypesBack
  <2>4. \A q \in Process \ {p} : Leaves(q)
    BY <1>1, <1>2, <2>1, <2>2 DEF Leaves
  <2> QED
    BY <1>1, <1>2, <2>2, <2>3, <2>4, SameDisk, EndStep
<1> QED
  BY <1>3, <1>4

\* The locks of a dead process lapse.
LEMMA LapseStep ==
  ASSUME BlockInv, NEW p \in Process, Lapse(p), scene' = scene
  PROVE  BlockInv'
<1>1. /\ proc[p].pc = "dead" /\ UNCHANGED <<file, cow, allocated, proc, next, may>>
      /\ slotLock' = [s \in Slot |-> IF slotLock[s] = p THEN Free ELSE slotLock[s]]
      /\ prealloc' = [g \in Segment |-> IF prealloc[g] = p THEN Free ELSE prealloc[g]]
      /\ blockLock' = [g \in Segment |-> IF blockLock[g] = p THEN Free ELSE blockLock[g]]
  BY DEF Lapse, OwnSlotsFreed, disk, callers
<1>2. /\ allocated \in Nat /\ Called(p) /\ Owned(p) /\ Rewriting(p)
      /\ slotLock \in [Slot -> Process \cup {Free}] /\ prealloc \in [Segment -> Process \cup {Free}]
      /\ blockLock \in [Segment -> Process \cup {Free}]
  BY Types
<1>3. /\ slotLock' \in [Slot -> Process \cup {Free}] /\ prealloc' \in [Segment -> Process \cup {Free}]
      /\ blockLock' \in [Segment -> Process \cup {Free}]
  BY <1>1, <1>2
<1>4. TypeOK'
  BY <1>1, <1>3, Types, TypesBack
<1>5. \A q \in Process \ {p} : Leaves(q)
  BY <1>1, <1>2 DEF Leaves
<1>6. ~Busy(p)' /\ Owned(p)' /\ Rewriting(p)'
  BY <1>1 DEF Busy, Owned, Rewriting, Placed, Unwritten, Written
<1>7. Called(p)'
  BY <1>1, <1>2 DEF Called, Busy, Writes
<1>8. \A q \in Process \ {p} : Alone(p, q)'
  BY <1>6 DEF Alone, Writer
<1> QED
  BY <1>1, <1>2, <1>4, <1>5, <1>6, <1>7, <1>8, SameDisk, Assemble

\* At first the block is empty and nobody is in a call.
LEMMA BlockInit == Init => BlockInv
<1> SUFFICES ASSUME Init PROVE BlockInv
  OBVIOUS
<1>1. /\ file = [g \in Segment |-> [slots |-> ZeroBlock, torn |-> FALSE]]
      /\ cow = [g \in Segment |-> NoCow] /\ allocated \in 0..MaxSegments
      /\ prealloc = [g \in Segment |-> Free] /\ slotLock = [s \in Slot |-> Free]
      /\ blockLock = [g \in Segment |-> Free] /\ proc = [p \in Process |-> Idle]
      /\ next = [i \in ID |-> 1] /\ may = [i \in ID |-> {0}] /\ scene \in Scenes
  BY DEF Init
<1>2. NoCow \in [state : {"none", "partial", "full"}, slots : Blocks]
  BY Consts DEF NoCow
<1>3. proc \in [Process -> Procs]
  BY <1>1, IdleType
<1>4. TypeOK
  BY <1>1, <1>2, <1>3, Consts DEF TypeOK, Procs
<1>5. \A p \in Process : proc[p].pc = "idle" /\ proc[p].seg = 1 /\ proc[p].kind = "none" /\ ~Busy(p)
  BY <1>1, Consts DEF Busy
<1>6. \A p \in Process : Called(p) /\ Owned(p) /\ Rewriting(p)
  BY <1>5 DEF Called, Owned, Rewriting, Placed, Locking, Unwritten, Written
<1>7. \A p, q \in Process : Alone(p, q)
  BY <1>5 DEF Alone, Writer
<1>8. \A g \in Segment : Intact(g)
  BY <1>1 DEF Intact
<1> QED
  BY <1>4, <1>6, <1>7, <1>8 DEF BlockInv

\* Every step keeps the invariant, unless a reader gets in between a backup and its write.
LEMMA BlockStep ==
  ASSUME NoPower
  PROVE  BlockInv /\ [Next]_vars /\ [~Beside]_vars => BlockInv'
<1> SUFFICES ASSUME BlockInv, [Next]_vars, [~Beside]_vars PROVE BlockInv'
  OBVIOUS
<1>1. CASE UNCHANGED vars
  BY <1>1 DEF vars, BlockInv, TypeOK, Called, Owned, Rewriting, Alone, Intact, Busy, Writes, Writer, Record
<1>2. CASE Next /\ ~Beside
  <2>1. scene' = scene
    BY <1>2 DEF Next
  <2>2. PICK p \in Process :
          \/ \E kind \in {"add", "set", "remove", "fetch"}, i \in ID : Begin(p, kind, i)
          \/ Step(p) \/ UpdateFails(p) \/ GiveUp(p) \/ Crash(p) \/ Lapse(p)
    BY <1>2 DEF Next
  <2>3. CASE \E kind \in {"add", "set", "remove", "fetch"}, i \in ID : Begin(p, kind, i)
    BY <2>1, <2>3, BeginStep DEF Kind
  <2>4. CASE Step(p)
    BY <1>2, <2>1, <2>4, FindStep, NoSuchFileStep, SetupStep, SlotLockStep, LockBlockStep, RewriteStep,
       UnlockStep DEF Step
  <2> QED
    BY <2>1, <2>2, <2>3, <2>4, FailStep, StopStep, LapseStep
<1> QED
  BY <1>1, <1>2

\* Types and the lock discipline of the registry files: one writer per block, one process that
\* sets up a segment file; a block that is being written has its backup.
THEOREM BlockInvariant ==
  ASSUME NoPower
  PROVE  Spec /\ [][~Beside]_vars => []BlockInv
<1>1. BlockInv /\ [Next]_vars /\ [~Beside]_vars => BlockInv'
  BY BlockStep
<1> QED
  BY <1>1, BlockInit, PTL DEF Spec

\* A block that a kill or a failed write leaves torn has a full backup (createCow before the write,
\* the lock of the block around both), from which readAndRestoreBlock restores it, also while calls
\* overlap, as long as no call without the lock reads the block between the backup and the end of
\* the write, and no power cut takes a backup that was never synced.
THEOREM TornIsCoveredHolds ==
  ASSUME NoPower
  PROVE  Spec /\ [][~Beside]_vars => []TornIsCovered
<1>1. BlockInv => TornIsCovered
  BY DEF BlockInv, Intact, TornIsCovered
<1> QED
  BY <1>1, BlockInvariant, PTL

\* Calls that follow one another do not read beside a writer.
LEMMA NotBeside ==
  ASSUME NotBoth, BlockInv
  PROVE  ~Beside
<1> SUFFICES ASSUME NEW p \in Process, NEW q \in Process, p # q, FindOneFileRegion(p), scene.tears,
                    proc[q].pc \in {"cow2", "write", "write2"}
             PROVE  FALSE
  BY DEF Beside
<1>1. Busy(p) /\ Busy(q) /\ Alone(p, q) /\ ~scene.overlap
  BY DEF FindOneFileRegion, Busy, BlockInv, TypeOK, NotBoth
<1> QED
  BY <1>1 DEF Alone

\* So the invariant needs no assumption on steps then.
THEOREM BlockInvariantInTurn ==
  ASSUME NoPower, NotBoth
  PROVE  Spec => []BlockInv
<1>1. BlockInv /\ [Next]_vars => BlockInv'
  BY BlockStep, NotBeside
<1> QED
  BY <1>1, BlockInit, PTL DEF Spec

-----------------------------------------------------------------------------
(* Where the records are. *)

\* A step after which every block has the content it had, and a file no record it had not.
Quiet ==
  \A g \in Segment :
    /\ Content(g)' = Content(g)
    /\ \A s \in Slot : file'[g].slots[s] \in {file[g].slots[s], Content(g)[s]}
    /\ file'[g].torn => file[g].torn /\ file'[g] = file[g] /\ cow'[g] = cow[g]

\* What a block's content says, the block says too.
LEMMA Backed ==
  ASSUME BlockInv, PlaceInv, NEW g \in Segment, NEW s \in Slot
  PROVE  /\ Content(g)[s] \in Recs /\ file[g].slots[s] \in Recs
         /\ Content(g)[s].id \in {NoID, file[g].slots[s].id}
         /\ (Content(g)[s].id = NoID <=> ~Full(g, s))
<1>1. /\ file[g].slots \in Blocks /\ cow[g].slots \in Blocks /\ Covers(g)
  BY Types DEF PlaceInv
<1>2. Content(g)[s] \in Recs /\ file[g].slots[s] \in Recs
  BY <1>1 DEF Content, Blocks
<1>3. Content(g)[s].id \in {NoID, file[g].slots[s].id}
  BY <1>1 DEF Content, Covers
<1> QED
  BY <1>2, <1>3, Consts DEF Full

\* After a quiet step the records are where they were.
LEMMA QuietFacts ==
  ASSUME BlockInv, PlaceInv, Quiet
  PROVE  /\ \A g \in Segment, s \in Slot : Full(g, s)' <=> Full(g, s)
         /\ \A g \in Segment, s \in Slot, i \in ID : Has(g, s, i)' => Has(g, s, i)
         /\ \A g \in Segment : Covers(g)'
<1>1. \A g \in Segment, s \in Slot : Full(g, s)' <=> Full(g, s)
  BY DEF Quiet, Full
<1>2. ASSUME NEW g \in Segment, NEW s \in Slot, NEW i \in ID, Has(g, s, i)' PROVE Has(g, s, i)
  BY <1>2, Backed, Consts DEF Quiet, Has
<1>3. ASSUME NEW g \in Segment PROVE Covers(g)'
  <2>1. Covers(g) /\ (file'[g].torn => file[g].torn /\ file'[g] = file[g] /\ cow'[g] = cow[g])
    BY DEF PlaceInv, Quiet
  <2> QED
    BY <2>1 DEF Covers
<1> QED
  BY <1>1, <1>2, <1>3

\* What a process that does not move relies on.
LEMMA PlaceBeside ==
  ASSUME PlaceInv, NEW q \in Process, proc'[q] = proc[q], scene' = scene,
         proc[q].seg \in Segment, proc[q].slot \in Slot,
         \A g \in Segment, s \in Slot :
           /\ Full(g, s) => Full(g, s)'
           /\ Writer(q) /\ Has(g, s, proc[q].id)' => Has(g, s, proc[q].id)
           /\ Writer(q) /\ Content(g)'[s].id = proc[q].id => Content(g)[s].id = proc[q].id,
         ~scene.overlap /\ proc[q].pc \in Placed => Content(proc[q].seg)' = Content(proc[q].seg),
         proc[q].pc \in Placed => Writes(q)
  PROVE  Searching(q)' /\ Choosing(q)'
<1>1. Searching(q) /\ Choosing(q)
  BY DEF PlaceInv
<1>2. (Writes(q)' <=> Writes(q)) /\ (proc[q].pc \in Placed \cup {"find", "truncate"} => Busy(q))
  BY DEF Writes, Busy, Placed, Unwritten
<1>3. Searching(q)'
  BY <1>1, <1>2 DEF Searching, Writer
<1>4. Choosing(q)'
  <2> SUFFICES ASSUME proc[q].pc \in Placed
               PROVE  /\ Behind(proc[q].id, proc[q].seg, proc[q].slot)'
                      /\ \A h \in Segment, r \in Slot : Has(h, r, proc[q].id)' =>
                           h = proc[q].seg /\ r = proc[q].slot
                      /\ ~scene.overlap =>
                           Content(proc[q].seg)'[proc[q].slot].id \in {NoID, proc[q].id}
    BY DEF Choosing, Has
  <2>1. Behind(proc[q].id, proc[q].seg, proc[q].slot)'
    BY <1>1 DEF Choosing, Behind, Rank
  <2> QED
    BY <1>1, <1>2, <2>1 DEF Choosing, Writer
<1> QED
  BY <1>3, <1>4

\* What a quiet step of p has to show.
LEMMA QuietStep ==
  ASSUME BlockInv, PlaceInv, Quiet, NEW p \in Process, scene' = scene,
         \A q \in Process \ {p} : proc'[q] = proc[q], Searching(p)' /\ Choosing(p)'
  PROVE  PlaceInv'
<1>1. /\ \A g \in Segment, s \in Slot : Full(g, s)' <=> Full(g, s)
      /\ \A g \in Segment, s \in Slot, i \in ID : Has(g, s, i)' => Has(g, s, i)
      /\ \A g \in Segment : Covers(g)'
  BY QuietFacts
<1>2. ASSUME NEW q \in Process \ {p} PROVE Searching(q)' /\ Choosing(q)'
  <2>1. /\ proc'[q] = proc[q] /\ proc[q].seg \in Segment /\ proc[q].slot \in Slot /\ Called(q)
    BY Types
  <2>2. proc[q].pc \in Placed => Writes(q)
    BY <2>1 DEF Called, Placed, Locking
  <2>3. Writer(q) => proc[q].id \in ID
    BY <2>1 DEF Called, Writer
  <2>4. \A g \in Segment : Content(g)' = Content(g)
    BY DEF Quiet
  <2> QED
    BY <1>1, <2>1, <2>2, <2>3, <2>4, PlaceBeside
<1>3. ASSUME NEW g \in Segment, NEW s \in Slot, NEW i \in ID, Has(g, s, i)' PROVE Behind(i, g, s)'
  <2>1. Behind(i, g, s)
    BY <1>1, <1>3 DEF PlaceInv
  <2> QED
    BY <1>1, <2>1 DEF Behind, Rank
<1>4. ASSUME NEW g \in Segment, NEW h \in Segment, NEW s \in Slot, NEW r \in Slot, NEW i \in ID,
             Has(g, s, i)', Has(h, r, i)'
      PROVE  g = h /\ s = r
  BY <1>1, <1>4 DEF PlaceInv
<1> QED
  BY <1>1, <1>2, <1>3, <1>4 DEF PlaceInv

\* The place stays the one that was chosen.
LEMMA SamePlace ==
  ASSUME BlockInv, PlaceInv, Quiet, NEW p \in Process, scene' = scene, proc[p].pc \in Placed,
         proc'[p].id = proc[p].id, proc'[p].seg = proc[p].seg, proc'[p].slot = proc[p].slot
  PROVE  Choosing(p)'
<1>1. /\ \A g \in Segment, s \in Slot : Full(g, s)' <=> Full(g, s)
      /\ \A g \in Segment, s \in Slot, i \in ID : Has(g, s, i)' => Has(g, s, i)
  BY QuietFacts
<1>2. proc[p].id \in ID /\ proc[p].seg \in Segment /\ proc[p].slot \in Slot /\ Choosing(p)
  BY Types DEF Called, Placed, Locking, Unwritten, Busy, PlaceInv
<1>3. Behind(proc[p].id, proc[p].seg, proc[p].slot)'
  BY <1>1, <1>2 DEF Choosing, Behind, Rank
<1>4. Content(proc[p].seg)' = Content(proc[p].seg)
  BY <1>2 DEF Quiet
<1>5. \A h \in Segment, r \in Slot : Has(h, r, proc[p].id)' => h = proc[p].seg /\ r = proc[p].slot
  BY <1>1, <1>2 DEF Choosing
<1> QED
  BY <1>2, <1>3, <1>4, <1>5 DEF Choosing, Behind, Has

\* Reading a block, or leaving the disk alone, is quiet.
LEMMA ReadQuiet ==
  ASSUME BlockInv, NEW g \in Segment, ReadAndRestoreBlock(g)
  PROVE  Quiet
<1> SUFFICES ASSUME NEW h \in Segment
             PROVE  /\ Content(h)' = Content(h)
                    /\ \A s \in Slot : file'[h].slots[s] \in {file[h].slots[s], Content(h)[s]}
                    /\ file'[h].torn => file[h].torn /\ file'[h] = file[h] /\ cow'[h] = cow[h]
  BY DEF Quiet
<1>1. /\ file'[g] = [slots |-> Content(g), torn |-> FALSE]
      /\ h # g => file'[h] = file[h] /\ cow'[h] = cow[h]
      /\ Content(h)' = Content(h)
  BY ReadFacts
<1> QED
  BY <1>1

\* A step that leaves the disk alone is quiet.
LEMMA SameQuiet ==
  ASSUME BlockInv, UNCHANGED <<file, cow>>
  PROVE  Quiet
  BY DEF Quiet, Content

\* A search of a writer finds the record of its handle or, if there is none, the first vacant place.
LEMMA FindsPlace ==
  ASSUME BlockInv, PlaceInv, NEW p \in Process, proc[p].pc = "find", Writes(p),
         Candidates(proc[p].id, Content(proc[p].seg), TRUE) # {}
  PROVE  LET g == proc[p].seg
             i == proc[p].id
             f == FirstOf(i, Candidates(i, Content(g), TRUE))
         IN  /\ f \in Slot /\ Behind(i, g, f) /\ Content(g)[f].id \in {NoID, i}
             /\ \A h \in Segment, r \in Slot : Has(h, r, i) => h = g /\ r = f
             /\ Content(g)[f].id = NoID =>
                  \A h \in Segment, r \in Slot : Content(h)[r].id # i
<1> DEFINE g == proc[p].seg
           i == proc[p].id
           S == Candidates(i, Content(g), TRUE)
           f == FirstOf(i, S)
<1>1. g \in Segment /\ g \in Nat /\ Called(p)
  BY Types
<1>2. i \in ID /\ i # NoID
  BY <1>1, Consts DEF Called, Busy
<1>3. S \in SUBSET Slot
  BY DEF Candidates
<1>4. f \in S /\ f \in Slot /\ \A r \in S : Rank(i, f) <= Rank(i, r)
  BY <1>2, <1>3, FirstIn
<1>5. /\ Content(g)[f].id = i \/ Content(g)[f] = Vacant
      /\ \A r \in Slot : r \notin S => Content(g)[r].id # i /\ Full(g, r)
  BY <1>4 DEF Candidates, Full
<1> HIDE DEF f, S
<1>6. \A r \in Slot : r # f => Rank(i, r) < Rank(i, f) \/ Rank(i, f) < Rank(i, r)
  BY <1>2, <1>4, Ranks
<1>7. \A r \in Slot : Rank(i, r) < Rank(i, f) => r \notin S
  BY <1>2, <1>4, Ranks
<1>8. \A h \in Segment, r \in Slot : h < g => Full(h, r) /\ Content(h)[r].id # i
  BY DEF PlaceInv, Searching
<1>9. Behind(i, g, f)
  BY <1>5, <1>7, <1>8 DEF Behind
<1>10. Content(g)[f].id \in {NoID, i}
  BY <1>5 DEF Vacant
<1>11. ASSUME NEW h \in Segment, NEW r \in Slot, Has(h, r, i) PROVE h = g /\ r = f
  <2>1. Behind(i, h, r) /\ h \in Nat /\ Content(h)[r].id \in {NoID, i}
        /\ (Content(h)[r].id = NoID <=> ~Full(h, r))
    BY <1>2, <1>11, Backed, Consts, SMTT(30) DEF PlaceInv, Has
  <2>2. ~(h < g)
    BY <1>8, <2>1
  <2>3. CASE Content(g)[f].id = i
    <3>1. Has(g, f, i)
      BY <1>1, <1>2, <1>4, <2>3, Backed DEF Has
    <3> QED
      BY <1>1, <1>2, <1>4, <1>11, <3>1 DEF PlaceInv
  <2>4. CASE Content(g)[f] = Vacant
    <3>1. ~Full(g, f)
      BY <2>4 DEF Full
    <3>2. ~(g < h)
      BY <1>1, <1>4, <2>1, <3>1 DEF Behind
    <3>3. h = g
      BY <1>1, <2>1, <2>2, <3>2
    <3>4. ~(Rank(i, f) < Rank(i, r))
      BY <1>4, <2>1, <3>1, <3>3 DEF Behind
    <3>5. ~(Rank(i, r) < Rank(i, f))
      BY <1>5, <1>7, <2>1, <3>3
    <3> QED
      BY <1>6, <3>3, <3>4, <3>5
  <2> QED
    BY <1>5, <2>3, <2>4
<1>12. ASSUME Content(g)[f].id = NoID, NEW h \in Segment, NEW r \in Slot, Content(h)[r].id = i
       PROVE  FALSE
  <2>1. Has(h, r, i)
    BY <1>2, <1>12, Backed DEF Has
  <2>2. h = g /\ r = f
    BY <1>11, <2>1
  <2> QED
    BY <1>2, <1>12, <2>2
<1> QED
  BY <1>4, <1>9, <1>10, <1>11, <1>12 DEF f, S

\* A process that is not in a writer's search and has no place yet.
LEMMA NoPlace ==
  ASSUME NEW p \in Process, proc'[p].seg \in Nat,
         proc'[p].pc \notin {"find", "truncate"} \cup Placed \/ (proc'[p].pc = "find" /\ proc'[p].seg = 1)
  PROVE  Searching(p)' /\ Choosing(p)'
<1>1. Choosing(p)'
  BY DEF Choosing, Placed, Unwritten
<1>2. \A h \in Segment : ~(h < 1)
  BY Consts DEF Segment
<1> QED
  BY <1>1, <1>2 DEF Searching

\* A call begins with the first segment file.
LEMMA BeginPlace ==
  ASSUME BlockInv, PlaceInv, NEW p \in Process, NEW kind \in Kind, NEW i \in ID,
         Begin(p, kind, i), scene' = scene
  PROVE  PlaceInv'
<1> DEFINE x == [proc[p] EXCEPT !.pc = IF kind = "add" THEN "lockhome" ELSE "find", !.kind = kind,
                                !.id = i, !.ver = IF kind \in {"add", "set"} THEN next[i] ELSE 0,
                                !.was = IF kind = "fetch" THEN {} ELSE may[i]]
<1>1. Go(p, x) /\ UNCHANGED <<file, cow>> /\ proc[p].pc = "idle"
  BY DEF Begin, disk
<1>2. proc[p] \in Procs /\ proc[p].seg = 1 /\ proc \in [Process -> Procs]
  BY <1>1, Types DEF Called, Busy
<1>3. proc'[p] = x /\ \A q \in Process \ {p} : proc'[q] = proc[q]
  BY <1>1, <1>2 DEF Go
<1>4. x.pc \in {"lockhome", "find"} /\ x.seg = 1
  BY <1>2 DEF Procs
<1> HIDE DEF x
<1>5. Searching(p)' /\ Choosing(p)'
  BY <1>3, <1>4, NoPlace DEF Placed, Unwritten
<1> QED
  BY <1>1, <1>3, <1>5, SameQuiet, QuietStep

\* A call ends, or its process dies.
LEMMA EndPlace ==
  ASSUME BlockInv, PlaceInv, NEW p \in Process, Quiet, scene' = scene,
         Return(p) \/ Crash(p)
  PROVE  PlaceInv'
<1>1. /\ proc'[p] = Idle \/ proc'[p] = [Idle EXCEPT !.pc = "dead"]
      /\ \A q \in Process \ {p} : proc'[q] = proc[q]
  BY Types, Returning DEF Crash
<1>2. proc'[p].pc \in {"idle", "dead"} /\ proc'[p].seg = 1
  BY <1>1, Consts DEF Idle
<1>3. Searching(p)' /\ Choosing(p)'
  BY <1>2, NoPlace DEF Placed, Unwritten
<1> QED
  BY <1>1, <1>3, QuietStep

\* A search looks at one segment file: it finds the place, or the file is full.
LEMMA FindPlace ==
  ASSUME BlockInv, PlaceInv, NEW p \in Process, FindOneFileRegion(p), scene' = scene
  PROVE  PlaceInv'
<1>0. PICK g, i, S : g \in Segment /\
        g = proc[p].seg /\ i = proc[p].id /\ S = Candidates(i, Content(g), Writes(p))
  BY Types
<1>f. PICK f : f = FirstOf(i, S)
  OBVIOUS
<1>1. proc[p].pc = "find" /\ ReadAndRestoreBlock(g) /\ g \in Segment /\ g \in Nat /\ proc[p] \in Procs
      /\ proc \in [Process -> Procs]
  BY <1>0, Types DEF FindOneFileRegion
<1>2. Quiet
  BY <1>1, ReadQuiet
<1>3. CASE S # {} /\ Writes(p) /\ Found(p, f, Content(g)[f])
  <2> DEFINE x == [proc[p] EXCEPT !.pc = IF proc[p].kind = "add" THEN "lockslot" ELSE "lockblock",
                                  !.slot = f, !.found = Content(g)[f]]
  <2>1. proc'[p] = x /\ \A q \in Process \ {p} : proc'[q] = proc[q]
    BY <1>1, <1>3 DEF Found, Go
  <2>2. x.pc \in {"lockslot", "lockblock"} /\ x.seg = g /\ x.id = i /\ x.slot = f
    BY <1>0, <1>1 DEF Procs
  <2> HIDE DEF x
  <2>3. S = Candidates(i, Content(g), TRUE)
    BY <1>0, <1>3
  <2>4. /\ f \in Slot /\ Behind(i, g, f) /\ Content(g)[f].id \in {NoID, i}
        /\ \A h \in Segment, r \in Slot : Has(h, r, i) => h = g /\ r = f
    BY <1>0, <1>f, <1>1, <1>3, <2>3, FindsPlace
  <2>5. i \in ID
    BY <1>0, <1>1, Types DEF Called, Busy
  <2>6. /\ \A h \in Segment, s \in Slot : Full(h, s)' <=> Full(h, s)
        /\ \A h \in Segment, s \in Slot : Has(h, s, i)' => Has(h, s, i)
    BY <1>2, <2>5, QuietFacts
  <2>7. Content(g)' = Content(g)
    BY <1>1, <1>2 DEF Quiet
  <2>8. Behind(i, g, f)'
    BY <1>1, <2>4, <2>6 DEF Behind, Rank
  <2>9. Choosing(p)'
    BY <2>1, <2>2, <2>4, <2>6, <2>7, <2>8 DEF Choosing, Behind, Has
  <2>10. Searching(p)'
    BY <2>1, <2>2 DEF Searching
  <2> QED
    BY <1>2, <2>1, <2>9, <2>10, QuietStep
<1>4. CASE S = {} /\ Go(p, [proc[p] EXCEPT !.seg = g + 1])
  <2> DEFINE x == [proc[p] EXCEPT !.seg = g + 1]
  <2>1. proc'[p] = x /\ \A q \in Process \ {p} : proc'[q] = proc[q]
    BY <1>1, <1>4 DEF Go
  <2>2. x.pc = "find" /\ x.seg = g + 1 /\ x.id = i /\ x.kind = proc[p].kind
    BY <1>0, <1>1 DEF Procs
  <2> HIDE DEF x
  <2>3. ASSUME Writes(p), NEW h \in Segment, NEW r \in Slot, h < g + 1
        PROVE  Full(h, r)' /\ Content(h)'[r].id # i
    <3>1. Content(h)' = Content(h) /\ (Full(h, r)' <=> Full(h, r)) /\ h \in Nat
      BY <1>2, Consts, QuietFacts DEF Quiet
    <3>2. CASE h < g
      BY <1>0, <1>1, <2>3, <3>1, <3>2 DEF PlaceInv, Searching
    <3>3. CASE h = g
      BY <1>0, <1>4, <2>3, <3>1, <3>3 DEF Candidates, Full
    <3> QED
      BY <1>1, <2>3, <3>1, <3>2, <3>3
  <2>4. Searching(p)'
    BY <2>1, <2>2, <2>3 DEF Searching, Writes
  <2>5. Choosing(p)'
    BY <2>1, <2>2 DEF Choosing, Placed, Unwritten
  <2> QED
    BY <1>2, <2>1, <2>4, <2>5, QuietStep
<1>5. CASE Return(p)
  BY <1>2, <1>5, EndPlace
<1> QED
  BY <1>0, <1>f, <1>3, <1>4, <1>5 DEF FindOneFileRegion, Fail

\* A search that ends has seen every file full.
LEMMA NoSuchFilePlace ==
  ASSUME BlockInv, PlaceInv, NEW p \in Process, NoSuchFile(p), scene' = scene
  PROVE  PlaceInv'
<1>1. Quiet /\ proc[p].pc = "find" /\ proc[p] \in Procs /\ proc \in [Process -> Procs]
  BY Types, SameQuiet DEF NoSuchFile, disk
<1>2. CASE Go(p, [proc[p] EXCEPT !.pc = "truncate"])
  <2> DEFINE x == [proc[p] EXCEPT !.pc = "truncate"]
  <2>1. proc'[p] = x /\ \A q \in Process \ {p} : proc'[q] = proc[q]
    BY <1>1, <1>2 DEF Go
  <2>2. x.pc = "truncate" /\ x.seg = proc[p].seg /\ x.id = proc[p].id /\ x.kind = proc[p].kind
    BY <1>1 DEF Procs
  <2> HIDE DEF x
  <2>3. \A h \in Segment, r \in Slot : (Full(h, r)' <=> Full(h, r)) /\ Content(h)' = Content(h)
    BY <1>1, QuietFacts DEF Quiet
  <2>4. Searching(p)' /\ Choosing(p)'
    BY <1>1, <2>1, <2>2, <2>3 DEF PlaceInv, Searching, Choosing, Writes, Placed, Unwritten
  <2> QED
    BY <1>1, <2>1, <2>4, QuietStep
<1>3. CASE Return(p)
  BY <1>1, <1>3, EndPlace
<1> QED
  BY <1>2, <1>3 DEF NoSuchFile, Fail

\* In a new segment file every place is vacant.
LEMMA NewFile ==
  ASSUME BlockInv, NEW g \in Segment, g > allocated, NEW s \in Slot
  PROVE  file[g].slots[s] = Vacant /\ Content(g)[s] = Vacant
<1>1. file[g] = [slots |-> ZeroBlock, torn |-> FALSE]
  BY DEF BlockInv, Intact
<1> QED
  BY <1>1 DEF Content, ZeroBlock

\* The handle of a process that sets up a segment file has no record.
LEMMA NoRecord ==
  ASSUME BlockInv, PlaceInv, NEW p \in Process, proc[p].pc = "truncate"
  PROVE  \A h \in Segment, r \in Slot : ~Has(h, r, proc[p].id) /\ Content(h)[r].id # proc[p].id
<1>1. /\ proc[p].seg \in Nat /\ allocated \in Nat /\ proc[p].id \in ID /\ Writes(p)
      /\ proc[p].seg = allocated + 1
  BY Types DEF Called, Owned, Busy, Locking
<1> SUFFICES ASSUME NEW h \in Segment, NEW r \in Slot
             PROVE  ~Has(h, r, proc[p].id) /\ Content(h)[r].id # proc[p].id
  OBVIOUS
<1>2. CASE h < proc[p].seg
  <2>1. Full(h, r) /\ Content(h)[r].id # proc[p].id
    BY <1>1, <1>2 DEF PlaceInv, Searching
  <2> QED
    BY <1>1, <2>1, Backed, Consts DEF Has
<1>3. CASE ~(h < proc[p].seg)
  <2>1. h > allocated
    BY <1>1, <1>3, Consts
  <2> QED
    BY <1>1, <2>1, NewFile, Consts DEF Has, Vacant
<1> QED
  BY <1>2, <1>3

\* In a new file the home slot is the place.
LEMMA SetupPlace ==
  ASSUME BlockInv, PlaceInv, NEW p \in Process, SetupNewFile(p), scene' = scene
  PROVE  PlaceInv'
<1>0. PICK g, i : g \in Segment /\ g = proc[p].seg /\ i = proc[p].id
  BY Types
<1>1. /\ Quiet /\ proc[p].pc = "truncate" /\ proc[p] \in Procs /\ proc \in [Process -> Procs]
      /\ g \in Segment /\ g \in Nat /\ allocated \in Nat
  BY <1>0, Types, SameQuiet DEF SetupNewFile
<1>2. i \in ID /\ Writes(p) /\ g > allocated /\ Home[i] \in Slot
  <2>1. Called(p) /\ Owned(p)
    BY Types
  <2>2. i \in ID /\ Writes(p) /\ g = allocated + 1
    BY <1>0, <1>1, <2>1 DEF Called, Owned, Busy, Locking
  <2> QED
    BY <1>1, <2>2, Consts
<1>3. CASE Found(p, Home[i], Vacant)
  <2> DEFINE x == [proc[p] EXCEPT !.pc = IF proc[p].kind = "add" THEN "lockslot" ELSE "lockblock",
                                  !.slot = Home[i], !.found = Vacant]
  <2>1. proc'[p] = x /\ \A q \in Process \ {p} : proc'[q] = proc[q]
    BY <1>1, <1>3 DEF Found, Go
  <2>2. x.pc \in {"lockslot", "lockblock"} /\ x.seg = g /\ x.id = i /\ x.slot = Home[i]
    BY <1>0, <1>1 DEF Procs
  <2> HIDE DEF x
  <2>3. \A h \in Segment, r \in Slot : ~Has(h, r, i)
    BY <1>0, <1>1, NoRecord
  <2>4. /\ \A h \in Segment, s \in Slot : Full(h, s)' <=> Full(h, s)
        /\ \A h \in Segment, s \in Slot : Has(h, s, i)' => Has(h, s, i)
    BY <1>1, <1>2, QuietFacts
  <2>5. Content(g)'[Home[i]].id = NoID
    BY <1>1, <1>2, NewFile DEF Quiet, Vacant
  <2>6. \A r \in Slot : ~(Rank(i, r) < Rank(i, Home[i]))
    BY <1>2, Ranks DEF Rank
  <2>7. \A h \in Segment, r \in Slot : h < g => Full(h, r)
    BY <1>0, <1>1, <1>2 DEF PlaceInv, Searching
  <2>8. Behind(i, g, Home[i])'
    BY <2>4, <2>6, <2>7 DEF Behind, Rank
  <2>9. Choosing(p)'
    BY <2>1, <2>2, <2>3, <2>4, <2>5, <2>8 DEF Choosing, Behind, Has
  <2>10. Searching(p)'
    BY <2>1, <2>2 DEF Searching
  <2> QED
    BY <1>1, <2>1, <2>9, <2>10, QuietStep
<1>4. CASE Return(p)
  BY <1>1, <1>4, EndPlace
<1> QED
  BY <1>0, <1>3, <1>4 DEF SetupNewFile, Fail

\* Slots and blocks are locked, blocks are read and backed up: the place stays the same, or the
\* search starts again.
LEMMA LockPlace ==
  ASSUME BlockInv, PlaceInv, NEW p \in Process, scene' = scene,
         LockHome(p) \/ LockSlot(p) \/ LockFileBlockRegion(p)
  PROVE  PlaceInv'
<1>1. /\ Quiet /\ proc[p] \in Procs /\ proc \in [Process -> Procs] /\ proc[p].seg \in Nat
  BY Types, SameQuiet DEF LockHome, LockSlot, LockFileBlockRegion, disk
<1>2. CASE proc[p].pc = "lockhome" /\ Go(p, [proc[p] EXCEPT !.pc = "find"])
  <2> DEFINE x == [proc[p] EXCEPT !.pc = "find"]
  <2>1. proc'[p] = x /\ \A q \in Process \ {p} : proc'[q] = proc[q]
    BY <1>1, <1>2 DEF Go
  <2>2. x.pc = "find" /\ x.seg = 1
    BY <1>1, <1>2, Types DEF Procs, Owned
  <2> HIDE DEF x
  <2>3. Searching(p)' /\ Choosing(p)'
    BY <2>1, <2>2, NoPlace
  <2> QED
    BY <1>1, <2>1, <2>3, QuietStep
<1>3. CASE Go(p, [proc[p] EXCEPT !.pc = "find", !.seg = 1, !.found = Vacant])
  <2> DEFINE x == [proc[p] EXCEPT !.pc = "find", !.seg = 1, !.found = Vacant]
  <2>1. proc'[p] = x /\ \A q \in Process \ {p} : proc'[q] = proc[q]
    BY <1>1, <1>3 DEF Go
  <2>2. x.pc = "find" /\ x.seg = 1
    BY <1>1 DEF Procs
  <2> HIDE DEF x
  <2>3. Searching(p)' /\ Choosing(p)'
    BY <2>1, <2>2, NoPlace
  <2> QED
    BY <1>1, <2>1, <2>3, QuietStep
<1>4. CASE /\ proc[p].pc \in {"lockslot", "lockblock"}
           /\ \/ Go(p, [proc[p] EXCEPT !.pc = "lockblock"])
              \/ Go(p, [proc[p] EXCEPT !.pc = "read", !.found = Vacant])
  <2>1. PICK x : /\ x \in {[proc[p] EXCEPT !.pc = "lockblock"], [proc[p] EXCEPT !.pc = "read", !.found = Vacant]}
                 /\ proc'[p] = x /\ \A q \in Process \ {p} : proc'[q] = proc[q]
    BY <1>1, <1>4 DEF Go
  <2>2. /\ x.pc \in {"lockblock", "read"} /\ x.seg = proc[p].seg /\ x.id = proc[p].id
        /\ x.slot = proc[p].slot
    BY <1>1, <2>1 DEF Procs
  <2>3. Choosing(p)'
    BY <1>1, <1>4, <2>1, <2>2, SamePlace DEF Placed
  <2>4. Searching(p)'
    BY <2>1, <2>2 DEF Searching
  <2> QED
    BY <1>1, <2>1, <2>3, <2>4, QuietStep
<1> QED
  BY <1>2, <1>3, <1>4 DEF LockHome, LockSlot, LockFileBlockRegion

\* Changing the backup of a block that is not torn is quiet.
LEMMA CowQuiet ==
  ASSUME BlockInv, NEW g \in Segment, ~file[g].torn, file' = file,
         \A h \in Segment \ {g} : cow'[h] = cow[h]
  PROVE  Quiet
<1> SUFFICES ASSUME NEW h \in Segment
             PROVE  /\ Content(h)' = Content(h)
                    /\ \A s \in Slot : file'[h].slots[s] \in {file[h].slots[s], Content(h)[s]}
                    /\ file'[h].torn => file[h].torn /\ file'[h] = file[h] /\ cow'[h] = cow[h]
  BY DEF Quiet
<1> QED
  BY DEF Content

\* The block is read and backed up at the same place, and a written one has its backup deleted.
LEMMA BackupPlace ==
  ASSUME BlockInv, PlaceInv, NEW p \in Process, scene' = scene,
         ReadBlock(p) \/ CreateCow(p) \/ DeleteCow(p)
  PROVE  PlaceInv'
<1>0. /\ proc[p] \in Procs /\ proc \in [Process -> Procs] /\ proc[p].seg \in Segment
      /\ cow \in [Segment -> [state : {"none", "partial", "full"}, slots : Blocks]] /\ Rewriting(p)
  BY Types
<1>1. Quiet
  <2>1. CASE ReadBlock(p)
    BY <1>0, <2>1, ReadQuiet DEF ReadBlock
  <2>2. CASE CreateCow(p) \/ DeleteCow(p)
    <3>1. ~file[proc[p].seg].torn
      BY <1>0, <2>2 DEF Rewriting, Written, CreateCow, DeleteCow
    <3>2. file' = file /\ \A h \in Segment \ {proc[p].seg} : cow'[h] = cow[h]
      BY <1>0, <2>2 DEF CreateCow, DeleteCow
    <3> QED
      BY <1>0, <3>1, <3>2, CowQuiet
  <2> QED
    BY <2>1, <2>2
<1>2. CASE ReadBlock(p)
  <2> DEFINE x == [proc[p] EXCEPT !.pc = "cow", !.buf = Content(proc[p].seg)]
  <2>1. proc'[p] = x /\ \A q \in Process \ {p} : proc'[q] = proc[q]
    BY <1>0, <1>2 DEF ReadBlock, Go
  <2>2. x.pc = "cow" /\ x.seg = proc[p].seg /\ x.id = proc[p].id /\ x.slot = proc[p].slot
    BY <1>0 DEF Procs
  <2> HIDE DEF x
  <2>3. Choosing(p)'
    BY <1>1, <1>2, <2>1, <2>2, SamePlace DEF Placed, Unwritten, ReadBlock
  <2>4. Searching(p)'
    BY <2>1, <2>2 DEF Searching
  <2> QED
    BY <1>1, <2>1, <2>3, <2>4, QuietStep
<1>3. CASE CreateCow(p)
  <2>1. PICK x : /\ x \in {[proc[p] EXCEPT !.pc = "cow2"], [proc[p] EXCEPT !.pc = "write"]}
                 /\ proc'[p] = x /\ \A q \in Process \ {p} : proc'[q] = proc[q]
    BY <1>0, <1>3 DEF CreateCow, Go
  <2>2. /\ x.pc \in {"cow2", "write"} /\ x.seg = proc[p].seg /\ x.id = proc[p].id
        /\ x.slot = proc[p].slot
    BY <1>0, <2>1 DEF Procs
  <2>3. Choosing(p)'
    BY <1>1, <1>3, <2>1, <2>2, SamePlace DEF Placed, Unwritten, CreateCow
  <2>4. Searching(p)'
    BY <2>1, <2>2 DEF Searching
  <2> QED
    BY <1>1, <2>1, <2>3, <2>4, QuietStep
<1>4. CASE DeleteCow(p)
  <2> DEFINE x == [proc[p] EXCEPT !.pc = "unlock"]
  <2>1. proc'[p] = x /\ \A q \in Process \ {p} : proc'[q] = proc[q]
    BY <1>0, <1>4 DEF DeleteCow, Go
  <2>2. x.pc = "unlock"
    BY <1>0 DEF Procs
  <2> HIDE DEF x
  <2>3. Searching(p)' /\ Choosing(p)'
    BY <2>1, <2>2 DEF Searching, Choosing, Placed, Unwritten
  <2> QED
    BY <1>1, <2>1, <2>3, QuietStep
<1> QED
  BY <1>2, <1>3, <1>4

\* What the write of a block does: the record goes to its place, and nothing else changes; the
\* content follows when the write is complete.
WritesTo(p, g, f) ==
  /\ g = proc[p].seg /\ f = proc[p].slot
  /\ proc[p].pc \in {"write", "write2"} /\ proc'[p].pc \in {"write2", "uncow"}
  /\ proc'[p].id = proc[p].id /\ proc'[p].seg = g /\ proc'[p].slot = f
  /\ proc'[p].kind = proc[p].kind /\ proc'[p].ver = proc[p].ver /\ proc'[p].was = proc[p].was
  /\ \A q \in Process \ {p} : proc'[q] = proc[q]
  /\ Record(p) = [id |-> proc[p].id, ver |-> proc[p].ver] /\ proc[p].id \in ID
  /\ \A h \in Segment \ {g} : file'[h] = file[h] /\ cow'[h] = cow[h] /\ Content(h)' = Content(h)
  /\ file'[g].slots = [Content(g) EXCEPT ![f] = Record(p)]
  /\ proc'[p].pc = "write2" => /\ Content(g)' = Content(g) /\ ~scene.overlap
                               /\ cow'[g].slots = Content(g)
  /\ proc'[p].pc = "uncow" => /\ Content(g)' = [Content(g) EXCEPT ![f] = Record(p)]
                              /\ ~file'[g].torn

\* There is such a place.
LEMMA WriteFacts ==
  ASSUME NotBoth, BlockInv, scene.removes = {}, NEW p \in Process, WriteBlock(p), scene' = scene
  PROVE  \E g \in Segment, f \in Slot : WritesTo(p, g, f)
<1>0. PICK g \in Segment, f \in Slot : g = proc[p].seg /\ f = proc[p].slot
  BY Types
<1> SUFFICES WritesTo(p, g, f)
  OBVIOUS
<1>1. /\ proc[p].pc \in {"write", "write2"} /\ cow' = cow
  BY DEF WriteBlock
<1>2. /\ proc[p] \in Procs /\ proc \in [Process -> Procs] /\ Called(p) /\ Rewriting(p)
      /\ file \in [Segment -> [slots : Blocks, torn : BOOLEAN]] /\ proc[p].buf \in Blocks
  BY Types
<1>3. proc[p].kind # "remove" /\ proc[p].id \in ID /\ Record(p) = [id |-> proc[p].id, ver |-> proc[p].ver]
  BY <1>1, <1>2 DEF Called, Busy, Record
<1>4. Content(g) = proc[p].buf
  <2>1. CASE proc[p].pc = "write"
    BY <1>0, <1>2, <2>1 DEF Rewriting, Content
  <2>2. CASE proc[p].pc = "write2"
    <3>1. file[g].torn /\ cow[g] = FullCow(proc[p].buf)
      BY <1>0, <1>2, <2>2 DEF Rewriting
    <3> QED
      BY <3>1 DEF Content, FullCow
  <2> QED
    BY <1>1, <2>1, <2>2
<1> DEFINE block == [proc[p].buf EXCEPT ![f] = Record(p)]
<1>5. CASE /\ proc[p].pc = "write" /\ scene.tears
           /\ file' = [file EXCEPT ![g] = [slots |-> block, torn |-> TRUE]]
           /\ Go(p, [proc[p] EXCEPT !.pc = "write2"])
  <2> DEFINE x == [proc[p] EXCEPT !.pc = "write2"]
  <2>1. proc'[p] = x /\ \A q \in Process \ {p} : proc'[q] = proc[q]
    BY <1>2, <1>5 DEF Go
  <2>2. /\ x.pc = "write2" /\ x.seg = g /\ x.id = proc[p].id /\ x.slot = f
        /\ x.kind = proc[p].kind /\ x.ver = proc[p].ver /\ x.was = proc[p].was
    BY <1>0, <1>2 DEF Procs
  <2> HIDE DEF x
  <2>3. file'[g] = [slots |-> block, torn |-> TRUE] /\ \A h \in Segment \ {g} : file'[h] = file[h]
    BY <1>2, <1>5
  <2>4. cow[g] = FullCow(proc[p].buf) /\ ~scene.overlap
    BY <1>0, <1>2, <1>5, Types DEF Rewriting, NotBoth
  <2>5. Content(g)' = proc[p].buf /\ cow'[g].slots = proc[p].buf
    BY <1>1, <2>3, <2>4 DEF Content, FullCow
  <2>6. \A h \in Segment \ {g} : Content(h)' = Content(h)
    BY <1>1, <2>3 DEF Content
  <2> QED
    BY <1>0, <1>1, <1>3, <1>4, <2>1, <2>2, <2>3, <2>4, <2>5, <2>6 DEF WritesTo
<1>6. CASE /\ file' = [file EXCEPT ![g] = [slots |-> block, torn |-> FALSE]]
           /\ Go(p, [proc[p] EXCEPT !.pc = "uncow", !.buf = ZeroBlock])
  <2> DEFINE x == [proc[p] EXCEPT !.pc = "uncow", !.buf = ZeroBlock]
  <2>1. proc'[p] = x /\ \A q \in Process \ {p} : proc'[q] = proc[q]
    BY <1>2, <1>6 DEF Go
  <2>2. /\ x.pc = "uncow" /\ x.seg = g /\ x.id = proc[p].id /\ x.slot = f
        /\ x.kind = proc[p].kind /\ x.ver = proc[p].ver /\ x.was = proc[p].was
    BY <1>0, <1>2 DEF Procs
  <2> HIDE DEF x
  <2>3. file'[g] = [slots |-> block, torn |-> FALSE] /\ \A h \in Segment \ {g} : file'[h] = file[h]
    BY <1>2, <1>6
  <2>4. Content(g)' = block
    BY <2>3 DEF Content
  <2>5. \A h \in Segment \ {g} : Content(h)' = Content(h)
    BY <1>1, <2>3 DEF Content
  <2> QED
    BY <1>0, <1>1, <1>3, <1>4, <2>1, <2>2, <2>3, <2>4, <2>5 DEF WritesTo
<1> QED
  BY <1>0, <1>5, <1>6 DEF WriteBlock

\* A record is written where its handle is searched for.
LEMMA WritePlace ==
  ASSUME NotBoth, BlockInv, PlaceInv, scene.removes = {}, NEW p \in Process, WriteBlock(p), scene' = scene
  PROVE  PlaceInv'
<1>0. PICK g \in Segment, f \in Slot : WritesTo(p, g, f)
  BY WriteFacts
<1>i. PICK i : i = proc[p].id
  OBVIOUS
<1>1. /\ proc[p].pc \in {"write", "write2"} /\ proc'[p].pc \in {"write2", "uncow"}
      /\ proc'[p].id = i /\ proc'[p].seg = g /\ proc'[p].slot = f
      /\ \A q \in Process \ {p} : proc'[q] = proc[q]
      /\ Record(p) = [id |-> i, ver |-> proc[p].ver] /\ i \in ID
      /\ \A h \in Segment \ {g} : file'[h] = file[h] /\ cow'[h] = cow[h] /\ Content(h)' = Content(h)
      /\ file'[g].slots = [Content(g) EXCEPT ![f] = Record(p)]
      /\ proc'[p].pc = "write2" => /\ Content(g)' = Content(g) /\ ~scene.overlap
                                   /\ cow'[g].slots = Content(g)
      /\ proc'[p].pc = "uncow" => /\ Content(g)' = [Content(g) EXCEPT ![f] = Record(p)]
                                  /\ ~file'[g].torn
  BY <1>0, <1>i DEF WritesTo
<1>2. Content(g) \in Blocks /\ Record(p).id = i /\ i # NoID /\ Record(p) # Vacant
  BY <1>1, Types, Consts DEF Content, Vacant
<1>3. /\ Choosing(p) /\ proc[p].pc \in Placed /\ Busy(p) /\ Writes(p)
  BY <1>1, Types DEF PlaceInv, Placed, Unwritten, Busy, Called
<1>4. ASSUME NEW h \in Segment, NEW s \in Slot, h # g \/ s # f
      PROVE  /\ Content(h)'[s] = Content(h)[s]
             /\ file'[h].slots[s] \in {file[h].slots[s], Content(h)[s]}
  <2>1. CASE h # g
    BY <1>1, <2>1
  <2>2. CASE h = g /\ s # f
    <3>1. [Content(g) EXCEPT ![f] = Record(p)][s] = Content(g)[s]
      BY <1>2, <2>2 DEF Blocks
    <3> QED
      BY <1>1, <2>2, <3>1
  <2> QED
    BY <1>4, <2>1, <2>2
<1>5. file'[g].slots[f] = Record(p) /\ Content(g)'[f] \in {Content(g)[f], Record(p)}
  BY <1>1, <1>2 DEF Blocks
<1>6. ASSUME NEW h \in Segment, NEW s \in Slot, Full(h, s) PROVE Full(h, s)'
  BY <1>2, <1>4, <1>5, <1>6 DEF Full
<1>7. ASSUME NEW h \in Segment, NEW s \in Slot, NEW j \in ID, Has(h, s, j)'
      PROVE  Has(h, s, j) \/ (j = i /\ h = g /\ s = f)
  <2>1. CASE h # g \/ s # f
    BY <1>4, <1>7, <2>1, Backed, Consts DEF Has
  <2>2. CASE h = g /\ s = f
    BY <1>2, <1>5, <1>7, <2>2 DEF Has
  <2> QED
    BY <2>1, <2>2
<1>8. ASSUME NEW h \in Segment, NEW s \in Slot, NEW j \in ID, Content(h)'[s].id = j
      PROVE  Content(h)[s].id = j \/ j = i
  <2>1. CASE h # g \/ s # f
    BY <1>4, <1>8, <2>1
  <2>2. CASE h = g /\ s = f
    BY <1>2, <1>5, <1>8, <2>2
  <2> QED
    BY <2>1, <2>2
<1>9. /\ Behind(i, g, f)
      /\ \A h \in Segment, r \in Slot : Has(h, r, i) => h = g /\ r = f
      /\ ~scene.overlap => Content(g)[f].id \in {NoID, i}
  BY <1>0, <1>i, <1>3 DEF Choosing, WritesTo
<1>10. \A h \in Segment, s \in Slot, j \in ID : Behind(j, h, s) => Behind(j, h, s)'
  BY <1>6 DEF Behind, Rank
<1>11. ASSUME NEW h \in Segment, NEW s \in Slot, NEW j \in ID, Has(h, s, j)' PROVE Behind(j, h, s)'
  BY <1>7, <1>9, <1>10, <1>11 DEF PlaceInv
<1>12. ASSUME NEW h \in Segment, NEW k \in Segment, NEW s \in Slot, NEW r \in Slot, NEW j \in ID,
              Has(h, s, j)', Has(k, r, j)'
       PROVE  h = k /\ s = r
  BY <1>7, <1>9, <1>12 DEF PlaceInv
<1>13. ASSUME NEW h \in Segment PROVE Covers(h)'
  <2>1. CASE h # g
    BY <1>1, <2>1 DEF Covers, PlaceInv
  <2>2. CASE h = g /\ proc'[p].pc = "uncow"
    BY <1>1, <2>2 DEF Covers
  <2>3. CASE h = g /\ proc'[p].pc = "write2"
    <3>1. ASSUME NEW s \in Slot PROVE cow'[g].slots[s].id \in {NoID, file'[g].slots[s].id}
      <4>1. CASE s = f
        BY <1>1, <1>2, <1>5, <1>9, <2>3, <4>1
      <4>2. CASE s # f
        BY <1>1, <1>2, <2>3, <4>2 DEF Blocks
      <4> QED
        BY <4>1, <4>2
    <3> QED
      BY <2>3, <3>1 DEF Covers
  <2> QED
    BY <1>1, <2>1, <2>2, <2>3
<1>14. Searching(p)'
  BY <1>1 DEF Searching
<1>15. Choosing(p)'
  <2> SUFFICES ASSUME proc'[p].pc = "write2" PROVE Choosing(p)'
    BY <1>1 DEF Choosing, Placed, Unwritten
  <2>1. Behind(i, g, f)'
    BY <1>1, <1>9, <1>10
  <2>2. \A h \in Segment, r \in Slot : Has(h, r, i)' => h = g /\ r = f
    BY <1>1, <1>7, <1>9
  <2>3. Content(g)'[f].id \in {NoID, i}
    BY <1>1, <1>9
  <2> QED
    BY <1>1, <2>1, <2>2, <2>3 DEF Choosing, Behind, Has
<1>16. ASSUME NEW q \in Process \ {p} PROVE Searching(q)' /\ Choosing(q)'
  <2>1. /\ proc'[q] = proc[q] /\ proc[q].seg \in Segment /\ proc[q].slot \in Slot /\ Called(q)
        /\ Alone(p, q)
    BY <1>1, Types DEF BlockInv
  <2>2. proc[q].pc \in Placed => Writes(q) /\ Busy(q)
    BY <2>1 DEF Called, Placed, Locking, Busy, Unwritten
  <2>3. Writer(q) => proc[q].id \in ID /\ proc[q].id # i
    BY <1>i, <1>3, <2>1 DEF Called, Writer, Alone
  <2>4. ~scene.overlap => proc[q].pc \notin Placed
    BY <1>3, <2>1, <2>2 DEF Alone
  <2>5. \A h \in Segment, s \in Slot :
           /\ Full(h, s) => Full(h, s)'
           /\ Writer(q) /\ Has(h, s, proc[q].id)' => Has(h, s, proc[q].id)
           /\ Writer(q) /\ Content(h)'[s].id = proc[q].id => Content(h)[s].id = proc[q].id
    BY <1>6, <1>7, <1>8, <2>1, <2>3 DEF Has
  <2> QED
    BY <2>1, <2>2, <2>4, <2>5, PlaceBeside
<1> QED
  BY <1>11, <1>12, <1>13, <1>14, <1>15, <1>16 DEF PlaceInv

\* At first there are no records.
LEMMA PlaceInit == Init => PlaceInv
<1> SUFFICES ASSUME Init PROVE PlaceInv
  OBVIOUS
<1>1. /\ \A p \in Process : proc[p].pc = "idle"
      /\ \A g \in Segment : ~file[g].torn /\ \A s \in Slot : file[g].slots[s].id = NoID
  BY DEF Init, Idle, ZeroBlock, Vacant
<1> QED
  BY <1>1, Consts DEF PlaceInv, Covers, Has, Searching, Choosing, Placed, Unwritten

\* Every step leaves the records in their places.
LEMMA PlaceStep ==
  ASSUME NoPower, NotBoth, BlockInv, scene.removes = {}, PlaceInv, [Next]_vars
  PROVE  PlaceInv'
<1>1. CASE UNCHANGED vars
  <2>1. UNCHANGED <<file, cow, proc, scene>>
    BY <1>1 DEF vars
  <2>2. \A p \in Process : Searching(p)' /\ Choosing(p)'
    <3>1. \A p \in Process : Searching(p)'
      BY <2>1 DEF PlaceInv, Searching, Writes, Behind, Full, Content, Has, Rank
    <3>2. \A p \in Process : Choosing(p)'
      BY <2>1, SMTT(30) DEF PlaceInv, Choosing, Writes, Behind, Full, Content, Has, Rank
    <3> QED
      BY <3>1, <3>2
  <2>3. Quiet
    BY <2>1, SameQuiet
  <2>4. /\ \A g \in Segment, s \in Slot : Full(g, s)' <=> Full(g, s)
        /\ \A g \in Segment, s \in Slot, i \in ID : Has(g, s, i)' => Has(g, s, i)
        /\ \A g \in Segment : Covers(g)'
    BY <2>3, QuietFacts
  <2>5. \A g \in Segment, s \in Slot, i \in ID : Has(g, s, i)' => Behind(i, g, s)'
    BY <2>4 DEF PlaceInv, Behind, Rank
  <2>6. \A g, h \in Segment, s, r \in Slot, i \in ID : Has(g, s, i)' /\ Has(h, r, i)' => g = h /\ s = r
    BY <2>4 DEF PlaceInv
  <2> QED
    BY <2>2, <2>4, <2>5, <2>6 DEF PlaceInv
<1>2. CASE Next
  <2>1. scene' = scene
    BY <1>2 DEF Next
  <2>2. PICK p \in Process :
          \/ \E kind \in {"add", "set", "remove", "fetch"}, i \in ID : Begin(p, kind, i)
          \/ Step(p) \/ UpdateFails(p) \/ GiveUp(p) \/ Crash(p) \/ Lapse(p)
    BY <1>2 DEF Next
  <2>3. CASE \E kind \in {"add", "set", "remove", "fetch"}, i \in ID : Begin(p, kind, i)
    BY <2>1, <2>3, BeginPlace DEF Kind
  <2>4. CASE UnlockFileBlockRegion(p) \/ UpdateFails(p) \/ GiveUp(p) \/ Crash(p)
    <3>1. Quiet /\ (Return(p) \/ Crash(p))
      BY <2>4, SameQuiet, DeathSpares DEF UnlockFileBlockRegion, UpdateFails, GiveUp, Crash, Fail, disk
    <3> QED
      BY <2>1, <3>1, EndPlace
  <2>5. CASE Lapse(p)
    <3>1. Quiet /\ proc' = proc /\ proc[p].pc = "dead"
      BY <2>5, SameQuiet DEF Lapse, disk
    <3>2. proc'[p].pc = "dead" /\ proc'[p].seg \in Nat
      BY <3>1, Types
    <3>3. Searching(p)' /\ Choosing(p)'
      BY <3>2, NoPlace DEF Placed, Unwritten
    <3> QED
      BY <2>1, <3>1, <3>3, QuietStep
  <2>6. CASE Step(p)
    BY <2>1, <2>4, <2>6, FindPlace, NoSuchFilePlace, SetupPlace, LockPlace, BackupPlace, WritePlace
       DEF Step
  <2> QED
    BY <2>2, <2>3, <2>4, <2>5, <2>6
<1> QED
  BY <1>1, <1>2

\* While nothing is removed every handle has its one place, for any hash function.
THEOREM PlaceInvariant ==
  ASSUME NoPower, NotBoth
  PROVE  Spec => [](scene.removes = {} => PlaceInv)
<1>1. BlockInv /\ (scene.removes = {} => PlaceInv) /\ [Next]_vars
        => (scene.removes = {} => PlaceInv)'
  <2> SUFFICES ASSUME BlockInv, scene.removes = {} => PlaceInv, [Next]_vars, scene'.removes = {}
               PROVE  PlaceInv'
    OBVIOUS
  <2>1. scene' = scene
    BY DEF Next, vars
  <2> QED
    BY <2>1, PlaceStep
<1> QED
  BY <1>1, BlockInvariantInTurn, PlaceInit, PTL DEF Spec

\* A handle has at most one record in all the segment files (findOneFileRegion stops at the
\* record, or at the first vacant place, and vacant places only follow).
THEOREM OneRecordHolds ==
  ASSUME NoPower, NotBoth
  PROVE  Spec => []OneRecord
<1>1. (scene.removes = {} => PlaceInv) => OneRecord
  <2> SUFFICES ASSUME PlaceInv, NEW i \in ID
               PROVE  Cardinality({x \in Segment \X Slot : file[x[1]].slots[x[2]].id = i}) <= 1
    BY DEF OneRecord
  <2> DEFINE R == {x \in Segment \X Slot : file[x[1]].slots[x[2]].id = i}
  <2>1. ASSUME NEW x \in R, NEW y \in R PROVE x = y
    <3>1. /\ x \in Segment \X Slot /\ y \in Segment \X Slot
          /\ Has(x[1], x[2], i) /\ Has(y[1], y[2], i)
      BY DEF Has
    <3>2. x[1] = y[1] /\ x[2] = y[2]
      BY <3>1 DEF PlaceInv
    <3> QED
      BY <3>1, <3>2
  <2> HIDE DEF R
  <2>2. CASE R = {}
    <3>1. Cardinality(R) = 0
      BY <2>2, FS_EmptySet
    <3> QED
      BY <3>1 DEF R
  <2>3. CASE R # {}
    <3>1. PICK x \in R : TRUE
      BY <2>3
    <3>2. R = {x}
      BY <2>1, <3>1
    <3>3. Cardinality(R) = 1
      BY <3>2, FS_Singleton
    <3> QED
      BY <3>3 DEF R
  <2> QED
    BY <2>2, <2>3
<1> QED
  BY <1>1, PlaceInvariant, PTL

-----------------------------------------------------------------------------
(* What the records say. *)

\* A step after which every search finds what it found.
Same == \A g \in Segment : Content(g)' = Content(g)

\* A process that adds a handle or sets it.
Updates(p) == Busy(p) /\ proc[p].kind \in {"add", "set"}

\* While nothing is removed a writer adds or sets.
LEMMA Updating ==
  ASSUME BlockInv, scene.removes = {}, NEW p \in Process, Busy(p), Writes(p)
  PROVE  Updates(p) /\ proc[p].id \in ID /\ proc[p].ver \in Nat \ {0}
         /\ next[proc[p].id] = proc[p].ver + 1
<1>1. Called(p) /\ proc[p].ver \in Nat
  BY Types
<1> QED
  BY <1>1 DEF Called, Writes, Updates, Kind

\* Two processes do not update one handle.
LEMMA Rivals ==
  ASSUME BlockInv, NEW p \in Process, NEW q \in Process, p # q, Updates(p), Updates(q)
  PROVE  proc[p].id # proc[q].id /\ scene.overlap
<1>1. Writer(p) /\ Writer(q) /\ Alone(p, q)
  BY DEF BlockInv, Updates, Writer, Writes
<1> QED
  BY <1>1 DEF Alone, Updates

\* What an updating process that does not move relies on.
LEMMA KnowsBeside ==
  ASSUME BlockInv, NEW q \in Process, Knows(q), proc'[q] = proc[q],
         \A s \in Slot : slotLock[s] = q => slotLock'[s] = q,
         Updates(q) => /\ may'[proc[q].id] = may[proc[q].id]
                       /\ \A V \in SUBSET Nat : Answers(proc[q].id, V) => Answers(proc[q].id, V)'
                       /\ proc[q].pc \in Settled => Content(proc[q].seg)'[proc[q].slot].id
                                                      = Content(proc[q].seg)[proc[q].slot].id
  PROVE  Knows(q)'
<1>1. /\ (Busy(q)' <=> Busy(q)) /\ proc[q].was \in SUBSET Nat /\ proc[q].slot \in Slot
      /\ Updates(q) => Home[proc[q].id] \in Slot
  BY Types, Consts DEF Busy, Updates, Called
<1> SUFFICES ASSUME Updates(q) PROVE Knows(q)'
  BY <1>1 DEF Knows, Updates
<1>2. proc[q].pc \notin Written => Answers(proc[q].id, proc[q].was)'
  BY <1>1 DEF Knows, Updates
<1> QED
  BY <1>1, <1>2 DEF Knows, Updates, Answers

\* What a step that leaves the contents has to show.
LEMMA SameStep ==
  ASSUME BlockInv, VersionInv, NEW p \in Process, Same,
         \A q \in Process \ {p} : proc'[q] = proc[q],
         \A q \in Process \ {p}, s \in Slot : slotLock[s] = q => slotLock'[s] = q,
         \A q \in Process \ {p} : Updates(q) => may'[proc[q].id] = may[proc[q].id],
         Knows(p)',
         \A i \in ID : Answers(i, may'[i]) /\ (next'[i] = 1 => may'[i] = {0})
  PROVE  VersionInv'
<1>1. ASSUME NEW q \in Process \ {p} PROVE Knows(q)'
  <2>1. Knows(q) /\ proc[q].seg \in Segment
    BY Types DEF VersionInv
  <2>2. \A V \in SUBSET Nat : Answers(proc[q].id, V) => Answers(proc[q].id, V)'
    BY DEF Same, Answers
  <2>3. Content(proc[q].seg)'[proc[q].slot].id = Content(proc[q].seg)[proc[q].slot].id
    BY <2>1 DEF Same
  <2> QED
    BY <2>1, <2>2, <2>3, KnowsBeside
<1>2. \A i \in ID : Answers(i, may[i])' /\ (next'[i] = 1 => may'[i] = {0})
  BY DEF Same, Answers
<1> QED
  BY <1>1, <1>2 DEF VersionInv

\* The same, when the callers' versions are as they were.
LEMMA SameCallers ==
  ASSUME BlockInv, VersionInv, NEW p \in Process, Same, UNCHANGED callers,
         \A q \in Process \ {p} : proc'[q] = proc[q],
         \A q \in Process \ {p}, s \in Slot : slotLock[s] = q => slotLock'[s] = q,
         Knows(p)'
  PROVE  VersionInv'
<1>1. next' = next /\ may' = may
  BY DEF callers
<1>2. \A i \in ID : Answers(i, may'[i]) /\ (next'[i] = 1 => may'[i] = {0})
  BY <1>1 DEF VersionInv
<1> QED
  BY <1>1, <1>2, SameStep

\* A call begins: from now on a fetch may answer its version too.
LEMMA BeginVersion ==
  ASSUME BlockInv, VersionInv, scene.removes = {}, NEW p \in Process, NEW kind \in Kind, NEW i \in ID,
         Begin(p, kind, i)
  PROVE  VersionInv'
<1> DEFINE ver == IF kind \in {"add", "set"} THEN next[i] ELSE 0
           x == [proc[p] EXCEPT !.pc = IF kind = "add" THEN "lockhome" ELSE "find", !.kind = kind,
                                !.id = i, !.ver = ver, !.was = IF kind = "fetch" THEN {} ELSE may[i]]
<1>1. /\ Go(p, x) /\ Same /\ slotLock' = slotLock /\ kind \in {"add", "set", "fetch"}
      /\ next' = [next EXCEPT ![i] = IF ver = 0 THEN @ ELSE @ + 1]
      /\ may' = [may EXCEPT ![i] = IF kind = "fetch" THEN @ ELSE @ \cup {ver}]
      /\ kind = "add" => next[i] = 1
      /\ kind = "set" => 0 \notin may[i]
      /\ kind # "fetch" => ~\E q \in Process : Busy(q) /\ Writes(q) /\ proc[q].id = i
  BY DEF Begin, disk, locks, Same, Content, Kind
<1>2. /\ proc[p] \in Procs /\ proc \in [Process -> Procs] /\ next \in [ID -> Nat \ {0}]
      /\ may \in [ID -> SUBSET Nat]
  BY Types
<1>3. proc'[p] = x /\ \A q \in Process \ {p} : proc'[q] = proc[q]
  BY <1>1, <1>2 DEF Go
<1>4. /\ x.pc = (IF kind = "add" THEN "lockhome" ELSE "find") /\ x.kind = kind /\ x.id = i
      /\ x.ver = ver /\ x.was = IF kind = "fetch" THEN {} ELSE may[i]
  BY <1>2 DEF Procs
<1> HIDE DEF x
<1>5. /\ Answers(i, may[i]) /\ (next[i] = 1 => may[i] = {0})
  BY DEF VersionInv
<1>6. CASE kind = "fetch"
  <2>1. next' = next /\ may' = may
    BY <1>1, <1>2, <1>6
  <2>2. Knows(p)'
    BY <1>3, <1>4, <1>6 DEF Knows
  <2> QED
    BY <1>1, <1>3, <2>1, <2>2, SameCallers DEF callers
<1>7. CASE kind # "fetch"
  <2>1. /\ ver = next[i] /\ ver \in Nat \ {0} /\ next'[i] = ver + 1 /\ may'[i] = may[i] \cup {ver}
        /\ \A j \in ID \ {i} : next'[j] = next[j] /\ may'[j] = may[j]
    BY <1>1, <1>2, <1>7
  <2> HIDE DEF ver
  <2>3. /\ \A g \in Segment, s \in Slot : Content(g)'[s].id = i => Content(g)'[s].ver \in may[i]
        /\ (\A g \in Segment, s \in Slot : Content(g)'[s].id # i) => 0 \in may[i]
    BY <1>1, <1>5 DEF Same, Answers
  <2>4. /\ kind = "add" => may[i] = {0}
        /\ kind = "set" => 0 \notin may[i] /\ ver # 1
    BY <1>1, <1>5, <2>1
  <2>5. Knows(p)'
    BY <1>1, <1>3, <1>4, <1>7, <2>1, <2>3, <2>4 DEF Knows, Answers, Written, Settled, Unwritten
  <2>6. \A j \in ID : Answers(j, may'[j]) /\ (next'[j] = 1 => may'[j] = {0})
    BY <1>5, <2>1 DEF VersionInv, Answers
  <2>7. ASSUME NEW q \in Process \ {p}, Updates(q) PROVE may'[proc[q].id] = may[proc[q].id]
    <3>1. proc[q].id \in ID /\ proc[q].id # i
      BY <1>1, <1>7, <2>7, Types DEF Updates, Called, Writes
    <3> QED
      BY <2>1, <3>1
  <2> QED
    BY <1>1, <1>3, <2>5, <2>6, <2>7, SameStep
<1> QED
  BY <1>6, <1>7

\* A call ends without an error, or its process dies.
LEMMA EndVersion ==
  ASSUME BlockInv, VersionInv, NEW p \in Process, Same, UNCHANGED callers, Return(p) \/ Crash(p)
  PROVE  VersionInv'
<1>1. /\ proc'[p] = Idle \/ proc'[p] = [Idle EXCEPT !.pc = "dead"]
      /\ \A q \in Process \ {p} : proc'[q] = proc[q]
      /\ \A q \in Process \ {p}, s \in Slot : slotLock[s] = q => slotLock'[s] = q
  BY Types, Returning DEF Crash, locks
<1>2. proc'[p].kind = "none"
  BY <1>1, Consts DEF Idle
<1>3. Knows(p)'
  BY <1>2 DEF Knows
<1> QED
  BY <1>1, <1>3, SameCallers

\* A call returns an error before it has written: what could be answered before it can be again.
LEMMA FailVersion ==
  ASSUME BlockInv, VersionInv, scene.removes = {}, NEW p \in Process, Same, Busy(p),
         proc[p].pc \notin Written, Fail(p)
  PROVE  VersionInv'
<1>1. /\ proc'[p] = Idle /\ \A q \in Process \ {p} : proc'[q] = proc[q]
      /\ \A q \in Process \ {p}, s \in Slot : slotLock[s] = q => slotLock'[s] = q
  BY Returning DEF Fail
<1>2. Knows(p)'
  BY <1>1, Consts DEF Knows
<1>3. ASSUME NEW q \in Process \ {p}, Updates(q) PROVE may'[proc[q].id] = may[proc[q].id]
  BY <1>3, Failing DEF Updates, Writer, Writes
<1>4. /\ next \in [ID -> Nat \ {0}] /\ may \in [ID -> SUBSET Nat] /\ proc[p].id \in ID /\ proc[p].ver \in Nat
      /\ Called(p)
  BY Types DEF Called
<1>5. ASSUME NEW i \in ID PROVE Answers(i, may'[i]) /\ (next'[i] = 1 => may'[i] = {0})
  <2>1. Answers(i, may[i]) /\ (next[i] = 1 => may[i] = {0})
    BY DEF VersionInv
  <2>2. CASE i # proc[p].id
    <3>1. next'[i] = next[i] /\ may'[i] = may[i]
      BY <1>4, <2>2 DEF Fail
    <3> QED
      BY <2>1, <3>1
  <2>3. CASE i = proc[p].id /\ ~Writes(p)
    <3>1. proc[p].ver = 0
      BY <1>4, <2>3 DEF Called, Writes
    <3>2. next'[i] = next[i] /\ may'[i] = may[i]
      BY <1>4, <2>3, <3>1 DEF Fail
    <3> QED
      BY <2>1, <3>2
  <2>4. CASE i = proc[p].id /\ Writes(p)
    <3>1. Updates(p) /\ proc[p].ver # 0 /\ next[i] = proc[p].ver + 1 /\ Knows(p)
      BY <2>4, Updating DEF VersionInv
    <3>2. may'[i] = proc[p].was /\ next'[i] = proc[p].ver
      BY <1>4, <2>4, <3>1 DEF Fail
    <3>3. Answers(i, proc[p].was) /\ (proc[p].ver = 1 => proc[p].was = {0})
      BY <2>4, <3>1 DEF Knows, Updates
    <3> QED
      BY <3>2, <3>3
  <2> QED
    BY <2>2, <2>3, <2>4
<1> QED
  BY <1>1, <1>2, <1>3, <1>5, SameStep

\* What a process goes on with, in a step that leaves the contents.
LEMMA KnowsOn ==
  ASSUME BlockInv, VersionInv, NEW p \in Process, Busy(p), Same, may' = may,
         proc'[p].id = proc[p].id, proc'[p].kind = proc[p].kind,
         proc'[p].ver = proc[p].ver, proc'[p].was = proc[p].was,
         proc'[p].pc # "lockhome", proc'[p].pc \in Written <=> proc[p].pc \in Written,
         Updates(p) => /\ proc[p].kind = "add" => slotLock'[Home[proc[p].id]] = p
                       /\ proc'[p].pc = "lockslot" => proc[p].kind = "add"
                       /\ proc'[p].pc \in Settled =>
                            \E g \in Segment, s \in Slot :
                              /\ proc'[p].seg = g /\ proc'[p].slot = s
                              /\ Content(g)[s].id = IF proc[p].kind = "add" THEN NoID ELSE proc[p].id
                              /\ proc[p].kind = "add" => slotLock'[s] = p
  PROVE  Knows(p)'
<1> SUFFICES ASSUME Updates(p) PROVE Knows(p)'
  BY DEF Knows, Updates
<1>1. Knows(p)
  BY DEF VersionInv
<1>2. proc[p].pc \notin Written => Answers(proc[p].id, proc[p].was)'
  BY <1>1 DEF Knows, Updates, Same, Answers
<1>3. proc[p].pc \notin Written => /\ Answers(proc'[p].id, proc'[p].was)
                                  /\ may'[proc[p].id] = proc[p].was \cup {proc[p].ver}
  BY <1>1 DEF Knows, Updates
<1>4. CASE proc'[p].pc \notin Settled
  BY <1>1, <1>2, <1>3, <1>4 DEF Knows, Updates, Answers
<1>5. CASE proc'[p].pc \in Settled
  <2>1. PICK g \in Segment, s \in Slot :
          /\ proc'[p].seg = g /\ proc'[p].slot = s
          /\ Content(g)[s].id = IF proc[p].kind = "add" THEN NoID ELSE proc[p].id
          /\ proc[p].kind = "add" => slotLock'[s] = p
    BY <1>5
  <2>2. Content(g)'[s].id = IF proc[p].kind = "add" THEN NoID ELSE proc[p].id
    BY <2>1 DEF Same
  <2> QED
    BY <1>1, <1>2, <1>3, <2>1, <2>2 DEF Knows, Updates, Answers
<1> QED
  BY <1>4, <1>5

\* The place a search finds for an update: its record, or for an add a vacant one.
LEMMA FindsVersion ==
  ASSUME BlockInv, PlaceInv, VersionInv, NEW p \in Process, proc[p].pc = "find", Updates(p),
         Candidates(proc[p].id, Content(proc[p].seg), TRUE) # {}
  PROVE  LET f == FirstOf(proc[p].id, Candidates(proc[p].id, Content(proc[p].seg), TRUE))
         IN  f \in Slot /\ Content(proc[p].seg)[f].id = IF proc[p].kind = "add" THEN NoID ELSE proc[p].id
<1>0. PICK g, i, f : g \in Segment /\ g = proc[p].seg /\ i = proc[p].id
                     /\ f = FirstOf(i, Candidates(i, Content(g), TRUE))
  BY Types
<1>1. /\ f \in Slot /\ Content(g)[f].id \in {NoID, i}
      /\ Content(g)[f].id = NoID => \A h \in Segment, r \in Slot : Content(h)[r].id # i
  BY <1>0, FindsPlace DEF Updates, Writes
<1>2. /\ Answers(i, proc[p].was) /\ (proc[p].kind = "add" => proc[p].was = {0})
      /\ proc[p].kind = "set" => 0 \notin proc[p].was
  BY <1>0 DEF VersionInv, Knows, Updates, Written
<1>3. CASE proc[p].kind = "add"
  <2>1. SUFFICES ASSUME Content(g)[f].id # NoID PROVE FALSE
    BY <1>0, <1>1, <1>3
  <2>2. Content(g)[f].ver = 0
    BY <1>0, <1>1, <1>2, <1>3, <2>1 DEF Answers
  <2>3. Content(g)[f] \in Recs
    BY <1>0, <1>1, Backed
  <2> QED
    BY <2>1, <2>2, <2>3 DEF Recs, Vacant
<1>4. CASE proc[p].kind = "set"
  <2>1. Content(g)[f].id # NoID
    BY <1>1, <1>2, <1>4 DEF Answers
  <2> QED
    BY <1>0, <1>1, <1>4, <2>1
<1> QED
  BY <1>3, <1>4 DEF Updates

\* A search looks at one segment file: a set finds its record, an add a vacant place.
LEMMA FindVersion ==
  ASSUME BlockInv, PlaceInv, VersionInv, scene.removes = {}, NEW p \in Process, FindOneFileRegion(p)
  PROVE  VersionInv'
<1>0. PICK g, i, S : g \in Segment /\
        g = proc[p].seg /\ i = proc[p].id /\ S = Candidates(i, Content(g), Writes(p))
  BY Types
<1>f. PICK f : f = FirstOf(i, S)
  OBVIOUS
<1>1. /\ proc[p].pc = "find" /\ ReadAndRestoreBlock(g) /\ Busy(p) /\ proc[p] \in Procs
      /\ proc \in [Process -> Procs] /\ proc[p].pc \notin Written
  BY <1>0, Types DEF FindOneFileRegion, Busy, Written
<1>2. Same
  BY <1>0, <1>1, ReadFacts DEF Same
<1>3. CASE S # {} /\ Writes(p) /\ Found(p, f, Content(g)[f]) /\ UNCHANGED <<slotLock, callers>>
  <2> DEFINE x == [proc[p] EXCEPT !.pc = IF proc[p].kind = "add" THEN "lockslot" ELSE "lockblock",
                                  !.slot = f, !.found = Content(g)[f]]
  <2>1. proc'[p] = x /\ \A q \in Process \ {p} : proc'[q] = proc[q]
    BY <1>1, <1>3 DEF Found, Go
  <2>2. /\ x.pc = (IF proc[p].kind = "add" THEN "lockslot" ELSE "lockblock") /\ x.slot = f
        /\ x.id = proc[p].id /\ x.kind = proc[p].kind /\ x.ver = proc[p].ver /\ x.was = proc[p].was
        /\ x.seg = proc[p].seg
    BY <1>1 DEF Procs
  <2> HIDE DEF x
  <2>3. Updates(p) => f \in Slot /\ Content(g)[f].id = IF proc[p].kind = "add" THEN NoID ELSE proc[p].id
    BY <1>0, <1>f, <1>1, <1>3, FindsVersion
  <2>4. Updates(p) /\ proc[p].kind = "add" => slotLock[Home[proc[p].id]] = p
    BY <1>1 DEF VersionInv, Knows, Updates
  <2>5. Knows(p)'
    BY <1>0, <1>1, <1>2, <1>3, <2>1, <2>2, <2>3, <2>4, KnowsOn DEF callers, Written, Settled, Unwritten
  <2> QED
    BY <1>2, <1>3, <2>1, <2>5, SameCallers
<1>4. CASE Go(p, [proc[p] EXCEPT !.seg = g + 1]) /\ UNCHANGED <<slotLock, callers>>
  <2> DEFINE x == [proc[p] EXCEPT !.seg = g + 1]
  <2>1. proc'[p] = x /\ \A q \in Process \ {p} : proc'[q] = proc[q]
    BY <1>1, <1>4 DEF Go
  <2>2. /\ x.pc = "find" /\ x.id = proc[p].id /\ x.kind = proc[p].kind /\ x.ver = proc[p].ver
        /\ x.was = proc[p].was
    BY <1>1 DEF Procs
  <2> HIDE DEF x
  <2>3. Updates(p) /\ proc[p].kind = "add" => slotLock[Home[proc[p].id]] = p
    BY <1>1 DEF VersionInv, Knows, Updates
  <2>4. Knows(p)'
    BY <1>1, <1>2, <1>4, <2>1, <2>2, <2>3, KnowsOn DEF callers, Written, Settled, Unwritten
  <2> QED
    BY <1>2, <1>4, <2>1, <2>4, SameCallers
<1>5. CASE Return(p) /\ UNCHANGED callers
  BY <1>2, <1>5, EndVersion
<1>6. CASE Fail(p)
  BY <1>1, <1>2, <1>6, FailVersion
<1> QED
  BY <1>0, <1>f, <1>3, <1>4, <1>5, <1>6 DEF FindOneFileRegion

\* The search is past the last file.
LEMMA NoSuchFileVersion ==
  ASSUME BlockInv, VersionInv, scene.removes = {}, NEW p \in Process, NoSuchFile(p)
  PROVE  VersionInv'
<1>1. /\ Same /\ proc[p].pc = "find" /\ Busy(p) /\ proc[p].pc \notin Written
      /\ proc[p] \in Procs /\ proc \in [Process -> Procs]
  BY Types DEF NoSuchFile, disk, Same, Content, Busy, Written
<1>2. CASE Go(p, [proc[p] EXCEPT !.pc = "truncate"]) /\ UNCHANGED <<slotLock, callers>>
  <2> DEFINE x == [proc[p] EXCEPT !.pc = "truncate"]
  <2>1. proc'[p] = x /\ \A q \in Process \ {p} : proc'[q] = proc[q]
    BY <1>1, <1>2 DEF Go
  <2>2. /\ x.pc = "truncate" /\ x.id = proc[p].id /\ x.kind = proc[p].kind /\ x.ver = proc[p].ver
        /\ x.was = proc[p].was
    BY <1>1 DEF Procs
  <2> HIDE DEF x
  <2>3. Updates(p) /\ proc[p].kind = "add" => slotLock[Home[proc[p].id]] = p
    BY <1>1 DEF VersionInv, Knows, Updates
  <2>4. Knows(p)'
    BY <1>1, <1>2, <2>1, <2>2, <2>3, KnowsOn DEF callers, Written, Settled, Unwritten
  <2> QED
    BY <1>1, <1>2, <2>1, <2>4, SameCallers
<1>3. CASE Fail(p)
  BY <1>1, <1>3, FailVersion
<1>4. CASE Return(p) /\ UNCHANGED callers
  BY <1>1, <1>4, EndVersion
<1> QED
  BY <1>2, <1>3, <1>4 DEF NoSuchFile

\* Only an add sets up a file: a set has found its record.
LEMMA SetupVersion ==
  ASSUME BlockInv, PlaceInv, VersionInv, scene.removes = {}, NEW p \in Process, SetupNewFile(p)
  PROVE  VersionInv'
<1>0. PICK g, i : g \in Segment /\ g = proc[p].seg /\ i = proc[p].id
  BY Types
<1>1. /\ Same /\ proc[p].pc = "truncate" /\ Busy(p) /\ proc[p].pc \notin Written /\ proc[p] \in Procs
      /\ proc \in [Process -> Procs] /\ allocated \in Nat /\ Called(p) /\ Owned(p)
  BY Types DEF SetupNewFile, Same, Content, Busy, Written
<1>2. CASE Found(p, Home[i], Vacant) /\ UNCHANGED <<slotLock, callers>>
  <2> DEFINE x == [proc[p] EXCEPT !.pc = IF proc[p].kind = "add" THEN "lockslot" ELSE "lockblock",
                                  !.slot = Home[i], !.found = Vacant]
  <2>1. proc'[p] = x /\ \A q \in Process \ {p} : proc'[q] = proc[q]
    BY <1>1, <1>2 DEF Found, Go
  <2>2. /\ x.pc = (IF proc[p].kind = "add" THEN "lockslot" ELSE "lockblock") /\ x.slot = Home[i]
        /\ x.id = proc[p].id /\ x.kind = proc[p].kind /\ x.ver = proc[p].ver /\ x.was = proc[p].was
        /\ x.seg = proc[p].seg
    BY <1>1 DEF Procs
  <2> HIDE DEF x
  <2>3. i \in ID /\ Writes(p) /\ g > allocated /\ Home[i] \in Slot
    BY <1>0, <1>1, Consts DEF Called, Owned, Locking
  <2>4. Content(g)[Home[i]].id = NoID
    BY <1>0, <2>3, NewFile DEF Vacant
  <2>5. \A h \in Segment, r \in Slot : Content(h)[r].id # i
    BY <1>0, <1>1, NoRecord
  <2>6. Updates(p) => /\ proc[p].kind = "add"
                      /\ slotLock[Home[proc[p].id]] = p
    BY <1>0, <1>1, <2>5 DEF VersionInv, Knows, Updates, Answers
  <2>7. Knows(p)'
    BY <1>0, <1>1, <1>2, <2>1, <2>2, <2>3, <2>4, <2>6, KnowsOn DEF callers, Written, Settled, Unwritten
  <2> QED
    BY <1>1, <1>2, <2>1, <2>7, SameCallers
<1>3. CASE Fail(p)
  BY <1>1, <1>3, FailVersion
<1> QED
  BY <1>0, <1>2, <1>3 DEF SetupNewFile

\* Slots and blocks are locked: nobody loses a lock, and an add keeps that of its home slot.
LEMMA LockVersion ==
  ASSUME StillVacant, BlockInv, VersionInv, scene.removes = {}, NEW p \in Process,
         LockHome(p) \/ LockSlot(p) \/ LockFileBlockRegion(p)
  PROVE  VersionInv'
<1>1. /\ Same /\ proc[p] \in Procs /\ proc \in [Process -> Procs] /\ UNCHANGED callers
      /\ proc[p].pc \in {"lockhome", "lockslot", "lockblock"} /\ Called(p)
      /\ slotLock \in [Slot -> Process \cup {Free}] /\ proc[p].seg \in Segment /\ proc[p].slot \in Slot
  BY Types DEF LockHome, LockSlot, LockFileBlockRegion, disk, Same, Content
<1>2. Updates(p) /\ Busy(p) /\ Home[proc[p].id] \in Slot /\ Knows(p)
  BY <1>1, Updating, Consts DEF Called, Busy, Locking, VersionInv
<1>3. PICK x : /\ \/ proc[p].pc = "lockhome" /\ x = [proc[p] EXCEPT !.pc = "find"]
                  \/ proc[p].pc = "lockslot" /\ x = [proc[p] EXCEPT !.pc = "lockblock"]
                  \/ proc[p].pc = "lockslot" /\ x = [proc[p] EXCEPT !.pc = "find", !.seg = 1, !.found = Vacant]
                  \/ proc[p].pc = "lockblock" /\ x = [proc[p] EXCEPT !.pc = "read", !.found = Vacant]
               /\ Go(p, x)
  BY DEF LockHome, LockSlot, LockFileBlockRegion
<1>4. proc'[p] = x /\ \A q \in Process \ {p} : proc'[q] = proc[q]
  BY <1>1, <1>3 DEF Go
<1>5. /\ x.pc \in {"find", "lockblock", "read"} /\ x.id = proc[p].id /\ x.kind = proc[p].kind
      /\ x.ver = proc[p].ver /\ x.was = proc[p].was
      /\ x.pc # "find" => x.seg = proc[p].seg /\ x.slot = proc[p].slot /\ proc[p].pc # "lockhome"
  BY <1>1, <1>3 DEF Procs
<1>6. /\ \A q \in Process \ {p}, s \in Slot : slotLock[s] = q => slotLock'[s] = q
      /\ proc[p].kind = "add" => slotLock'[Home[proc[p].id]] = p
  <2>1. CASE LockHome(p)
    BY <1>1, <1>2, <2>1, Consts DEF LockHome
  <2>2. CASE LockSlot(p)
    <3>1. slotLock[Home[proc[p].id]] = p
      BY <1>2, <2>2 DEF LockSlot, Knows, Updates
    <3> QED
      BY <1>1, <1>2, <2>2, <3>1, Consts DEF LockSlot
  <2>3. CASE LockFileBlockRegion(p)
    BY <1>2, <2>3 DEF LockFileBlockRegion, Knows, Updates
  <2> QED
    BY <2>1, <2>2, <2>3
<1>7. x.pc # "find" => /\ Content(proc[p].seg)[proc[p].slot].id
                              = IF proc[p].kind = "add" THEN NoID ELSE proc[p].id
                       /\ proc[p].kind = "add" => slotLock'[proc[p].slot] = p
  <2>1. CASE LockHome(p)
    BY <1>5, <2>1 DEF LockHome
  <2>2. CASE LockSlot(p) /\ x.pc # "find"
    <3>0. proc[p].pc = "lockslot" /\ proc[p].kind = "add"
      BY <1>2, <2>2 DEF LockSlot, Knows, Updates
    <3>1. x = [proc[p] EXCEPT !.pc = "lockblock"] /\ x.pc = "lockblock" /\ proc'[p].pc = "lockblock"
      <4>1. /\ [proc[p] EXCEPT !.pc = "lockblock"].pc = "lockblock"
            /\ [proc[p] EXCEPT !.pc = "find", !.seg = 1, !.found = Vacant].pc = "find"
        BY <1>1 DEF Procs
      <4> QED
        BY <1>3, <1>4, <2>2, <3>0, <4>1
    <3>2. Content(proc[p].seg)[proc[p].slot].id = NoID
      BY <3>0, <3>1 DEF StillVacant, Vacant
    <3>3. slotLock'[proc[p].slot] = p
      <4>1. CASE slotLock' = [slotLock EXCEPT ![proc[p].slot] = p]
        BY <1>1, <4>1
      <4>2. CASE Go(p, [proc[p] EXCEPT !.pc = "find", !.seg = 1, !.found = Vacant])
        <5>1. proc'[p] = [proc[p] EXCEPT !.pc = "find", !.seg = 1, !.found = Vacant]
          BY <1>1, <4>2 DEF Go
        <5>2. proc'[p].pc = "find"
          BY <1>1, <5>1 DEF Procs
        <5> QED
          BY <3>1, <5>2
      <4> QED
        BY <2>2, <4>1, <4>2 DEF LockSlot
    <3> QED
      BY <3>0, <3>1, <3>2, <3>3
  <2>3. CASE LockFileBlockRegion(p)
    <3>1. proc[p].pc = "lockblock" /\ slotLock' = slotLock
      BY <2>3 DEF LockFileBlockRegion
    <3> QED
      BY <1>2, <3>1 DEF Knows, Updates, Settled
  <2> QED
    BY <2>1, <2>2, <2>3
<1>8. Knows(p)'
  BY <1>1, <1>2, <1>4, <1>5, <1>6, <1>7, KnowsOn DEF callers, Written, Settled, Unwritten
<1> QED
  BY <1>1, <1>4, <1>6, <1>8, SameCallers

\* The block is read and backed up, its backup deleted.
LEMMA BackupVersion ==
  ASSUME BlockInv, VersionInv, scene.removes = {}, NEW p \in Process,
         ReadBlock(p) \/ CreateCow(p) \/ DeleteCow(p)
  PROVE  VersionInv'
<1>1. /\ proc[p] \in Procs /\ proc \in [Process -> Procs] /\ UNCHANGED callers /\ slotLock' = slotLock
      /\ proc[p].pc \in {"read", "cow", "cow2", "uncow"} /\ Called(p)
      /\ proc[p].seg \in Segment /\ proc[p].slot \in Slot
  BY Types DEF ReadBlock, CreateCow, DeleteCow, locks
<1>2. Updates(p) /\ Busy(p) /\ Knows(p)
  BY <1>1, Updating DEF Called, Busy, Unwritten, Written, VersionInv
<1>3. Same
  <2>1. CASE ReadBlock(p)
    BY <1>1, <2>1, ReadFacts DEF ReadBlock, Same
  <2>2. CASE CreateCow(p) \/ DeleteCow(p)
    <3>1. /\ ~file[proc[p].seg].torn /\ file' = file
          /\ \A h \in Segment \ {proc[p].seg} : cow'[h] = cow[h]
      BY <1>1, <2>2, Types DEF CreateCow, DeleteCow, Rewriting, Written
    <3>2. Quiet
      BY <1>1, <3>1, CowQuiet
    <3> QED
      BY <3>2 DEF Quiet, Same
  <2> QED
    BY <2>1, <2>2
<1>4. PICK x : /\ \/ proc[p].pc = "read" /\ x = [proc[p] EXCEPT !.pc = "cow", !.buf = Content(proc[p].seg)]
                  \/ proc[p].pc = "cow" /\ x = [proc[p] EXCEPT !.pc = "cow2"]
                  \/ proc[p].pc \in {"cow", "cow2"} /\ x = [proc[p] EXCEPT !.pc = "write"]
                  \/ proc[p].pc = "uncow" /\ x = [proc[p] EXCEPT !.pc = "unlock"]
               /\ Go(p, x)
  BY DEF ReadBlock, CreateCow, DeleteCow
<1>5. proc'[p] = x /\ \A q \in Process \ {p} : proc'[q] = proc[q]
  BY <1>1, <1>4 DEF Go
<1>6. /\ x.pc \in {"cow", "cow2", "write", "unlock"} /\ x.id = proc[p].id /\ x.kind = proc[p].kind
      /\ x.ver = proc[p].ver /\ x.was = proc[p].was /\ x.seg = proc[p].seg /\ x.slot = proc[p].slot
      /\ x.pc = "unlock" <=> proc[p].pc = "uncow"
  <2>1. CASE proc[p].pc = "read" /\ x = [proc[p] EXCEPT !.pc = "cow", !.buf = Content(proc[p].seg)]
    BY <1>1, <2>1 DEF Procs
  <2>2. CASE proc[p].pc = "cow" /\ x = [proc[p] EXCEPT !.pc = "cow2"]
    BY <1>1, <2>2 DEF Procs
  <2>3. CASE proc[p].pc \in {"cow", "cow2"} /\ x = [proc[p] EXCEPT !.pc = "write"]
    BY <1>1, <2>3 DEF Procs
  <2>4. CASE proc[p].pc = "uncow" /\ x = [proc[p] EXCEPT !.pc = "unlock"]
    BY <1>1, <2>4 DEF Procs
  <2> QED
    BY <1>4, <2>1, <2>2, <2>3, <2>4
<1>7. /\ proc[p].kind = "add" => slotLock[Home[proc[p].id]] = p
      /\ x.pc # "unlock" => /\ Content(proc[p].seg)[proc[p].slot].id
                                   = IF proc[p].kind = "add" THEN NoID ELSE proc[p].id
                            /\ proc[p].kind = "add" => slotLock[proc[p].slot] = p
  BY <1>1, <1>2, <1>6 DEF Knows, Updates, Settled, Unwritten
<1>8. x.pc \in Written <=> proc[p].pc \in Written
  BY <1>1, <1>6 DEF Written
<1>9. Knows(p)'
  BY <1>1, <1>2, <1>3, <1>5, <1>6, <1>7, <1>8, KnowsOn DEF callers, Written, Settled, Unwritten
<1> QED
  BY <1>1, <1>3, <1>5, <1>9, SameCallers

\* Two adds that have settled on one slot are one: they hold its lock.
LEMMA OneAdd ==
  ASSUME BlockInv, VersionInv, NEW p \in Process, NEW q \in Process, Updates(p), Updates(q),
         proc[p].kind = "add", proc[q].kind = "add", proc[p].pc \in Settled, proc[q].pc \in Settled,
         proc[p].slot = proc[q].slot
  PROVE  p = q
  BY DEF VersionInv, Knows, Updates

\* A write puts the new version into the one place of its handle, and nobody else's.
LEMMA WriteVersion ==
  ASSUME NotBoth, BlockInv, PlaceInv, VersionInv, scene.removes = {}, NEW p \in Process,
         WriteBlock(p), scene' = scene
  PROVE  VersionInv'
<1>0. PICK g \in Segment, f \in Slot : WritesTo(p, g, f)
  BY WriteFacts
<1>i. PICK i : i = proc[p].id
  OBVIOUS
<1>1. /\ proc[p].pc \in {"write", "write2"} /\ proc'[p].pc \in {"write2", "uncow"}
      /\ proc'[p].id = i /\ proc'[p].seg = g /\ proc'[p].slot = f
      /\ proc'[p].kind = proc[p].kind /\ proc'[p].ver = proc[p].ver /\ proc'[p].was = proc[p].was
      /\ \A q \in Process \ {p} : proc'[q] = proc[q]
      /\ Record(p) = [id |-> i, ver |-> proc[p].ver] /\ i \in ID
  BY <1>0, <1>i DEF WritesTo
<1>2. \A h \in Segment \ {g} : Content(h)' = Content(h)
  BY <1>0 DEF WritesTo
<1>3. proc'[p].pc = "write2" => Content(g)' = Content(g)
  BY <1>0 DEF WritesTo
<1>4. proc'[p].pc = "uncow" => Content(g)' = [Content(g) EXCEPT ![f] = Record(p)]
  BY <1>0 DEF WritesTo
<1>5. UNCHANGED callers /\ slotLock' = slotLock
  BY DEF WriteBlock, locks
<1>6. Updates(p) /\ Busy(p) /\ Knows(p) /\ proc[p].pc \in Placed /\ proc[p].pc \in Settled
      /\ proc[p].pc \notin Written /\ proc[p].ver # 0
  BY <1>1, Types, Updating DEF Called, Busy, Unwritten, Written, VersionInv, Placed, Settled
<1>7. /\ Answers(i, proc[p].was) /\ may[i] = proc[p].was \cup {proc[p].ver}
      /\ proc[p].kind = "add" => slotLock[Home[i]] = p
      /\ Content(g)[f].id = IF proc[p].kind = "add" THEN NoID ELSE i
      /\ proc[p].kind = "add" => slotLock[f] = p
  BY <1>0, <1>i, <1>1, <1>6 DEF Knows, Updates, WritesTo
<1>8. CASE proc'[p].pc = "write2"
  <2>1. Same
    BY <1>2, <1>3, <1>8 DEF Same
  <2>2. Knows(p)'
    BY <1>0, <1>i, <1>1, <1>5, <1>6, <1>7, <1>8, <2>1, KnowsOn DEF callers, Written
  <2> QED
    BY <1>1, <1>5, <2>1, <2>2, SameCallers
<1>9. CASE proc'[p].pc = "uncow"
  <2>0. Content(g) \in Blocks /\ i # NoID
    BY <1>1, Types, Consts DEF Content
  <2>1. /\ Content(g)'[f] = Record(p)
        /\ \A h \in Segment, s \in Slot : h # g \/ s # f => Content(h)'[s] = Content(h)[s]
    BY <1>2, <1>4, <1>9, <2>0 DEF Blocks
  <2>2. \A h \in Segment, s \in Slot : Content(h)[s].id = i => h = g /\ s = f
    <3>1. \A h \in Segment, s \in Slot : Has(h, s, i) => h = g /\ s = f
      BY <1>0, <1>i, <1>6 DEF PlaceInv, Choosing, WritesTo
    <3> QED
      BY <2>0, <3>1, Backed DEF Has
  <2>3. \A j \in ID \ {i}, V \in SUBSET Nat : Answers(j, V) => Answers(j, V)'
    <3> SUFFICES ASSUME NEW j \in ID \ {i}, NEW V \in SUBSET Nat, Answers(j, V)
                 PROVE  Answers(j, V)'
      OBVIOUS
    <3>1. \A h \in Segment, s \in Slot : /\ Content(h)'[s].id = j <=> Content(h)[s].id = j
                                         /\ Content(h)[s].id = j => Content(h)'[s] = Content(h)[s]
      BY <1>1, <1>7, <2>1, Consts
    <3> QED
      BY <3>1 DEF Answers
  <2>4. Answers(i, may[i])'
    <3>1. may'[i] = may[i] /\ proc[p].ver \in may[i]
      BY <1>5, <1>7 DEF callers
    <3>2. Content(g)'[f].id = i /\ Content(g)'[f].ver = proc[p].ver
      BY <1>1, <2>1
    <3>3. \A h \in Segment, s \in Slot : Content(h)'[s].id = i => Content(h)'[s].ver = proc[p].ver
      BY <2>1, <2>2, <3>2
    <3> QED
      BY <3>1, <3>2, <3>3 DEF Answers
  <2>5. \A j \in ID : Answers(j, may[j])' /\ (next'[j] = 1 => may'[j] = {0})
    <3>1. may' = may /\ next' = next /\ may \in [ID -> SUBSET Nat]
      BY <1>5, Types DEF callers
    <3> QED
      BY <2>3, <2>4, <3>1 DEF VersionInv
  <2>6. Knows(p)'
    <3>1. may' = may /\ proc'[p].pc \in Written /\ proc'[p].pc \notin Settled
          /\ proc'[p].pc \notin {"lockslot", "lockhome"}
      BY <1>5, <1>9 DEF callers, Written, Settled, Unwritten
    <3> QED
      BY <1>i, <1>1, <1>5, <1>6, <1>7, <3>1 DEF Knows, Updates
  <2>7. ASSUME NEW q \in Process \ {p} PROVE Knows(q)'
    <3>1. Knows(q) /\ proc'[q] = proc[q] /\ proc[q].seg \in Segment /\ proc[q].slot \in Slot
      BY <1>1, Types DEF VersionInv
    <3>2. Updates(q) => proc[q].id \in ID \ {i}
      BY <1>i, <1>6, Rivals, Types DEF Called, Updates
    <3>3. ASSUME Updates(q), proc[q].pc \in Settled PROVE proc[q].seg # g \/ proc[q].slot # f
      <4>1. Content(proc[q].seg)[proc[q].slot].id = IF proc[q].kind = "add" THEN NoID ELSE proc[q].id
        BY <3>1, <3>3 DEF Knows, Updates
      <4>2. ~(proc[p].kind = "add" /\ proc[q].kind = "add" /\ proc[q].slot = f)
        BY <1>0, <1>6, <3>3, OneAdd DEF WritesTo
      <4> QED
        BY <1>7, <2>0, <3>2, <3>3, <4>1, <4>2, Consts DEF Updates
    <3>4. Updates(q) => /\ may'[proc[q].id] = may[proc[q].id]
                        /\ \A V \in SUBSET Nat : Answers(proc[q].id, V) => Answers(proc[q].id, V)'
                        /\ proc[q].pc \in Settled => Content(proc[q].seg)'[proc[q].slot].id
                                                      = Content(proc[q].seg)[proc[q].slot].id
      BY <1>5, <2>1, <2>3, <3>1, <3>2, <3>3 DEF callers
    <3> QED
      BY <1>5, <3>1, <3>4, KnowsBeside
  <2> QED
    BY <2>5, <2>6, <2>7 DEF VersionInv
<1> QED
  BY <1>1, <1>8, <1>9

\* A write is complete: its version is the one record of the handle.
LEMMA UnlockVersion ==
  ASSUME BlockInv, PlaceInv, VersionInv, scene.removes = {}, NEW p \in Process, UnlockFileBlockRegion(p)
  PROVE  VersionInv'
<1>0. PICK g \in Segment, f \in Slot : g = proc[p].seg /\ f = proc[p].slot
  BY Types
<1>1. /\ proc[p].pc = "unlock" /\ Same /\ Return(p) /\ next' = next
      /\ may' = [may EXCEPT ![proc[p].id] = {proc[p].ver}] /\ may \in [ID -> SUBSET Nat] /\ Called(p)
  BY Types DEF UnlockFileBlockRegion, disk, Same, Content
<1>2. Updates(p) /\ proc[p].id \in ID /\ proc[p].ver \in Nat \ {0} /\ next[proc[p].id] = proc[p].ver + 1
  BY <1>1, Updating DEF Called, Busy, Written
<1>3. Content(g)[f] = [id |-> proc[p].id, ver |-> proc[p].ver]
  BY <1>0, <1>1, <1>2, Types DEF Rewriting, Written, Content, Record, Updates
<1>4. Answers(proc[p].id, {proc[p].ver})
  <2>1. Has(g, f, proc[p].id)
    BY <1>2, <1>3, Backed, Consts DEF Has
  <2>2. ASSUME NEW h \in Segment, NEW r \in Slot, Content(h)[r].id = proc[p].id PROVE h = g /\ r = f
    <3>1. Has(h, r, proc[p].id)
      BY <1>2, <2>2, Backed, Consts DEF Has
    <3> QED
      BY <1>2, <2>1, <3>1 DEF PlaceInv
  <2> QED
    BY <1>3, <2>2 DEF Answers
<1>5. /\ proc'[p] = Idle /\ \A q \in Process \ {p} : proc'[q] = proc[q]
      /\ \A q \in Process \ {p}, s \in Slot : slotLock[s] = q => slotLock'[s] = q
  BY <1>1, Returning
<1>6. Knows(p)'
  BY <1>5, Consts DEF Knows
<1>7. ASSUME NEW q \in Process \ {p}, Updates(q) PROVE may'[proc[q].id] = may[proc[q].id]
  <2>1. proc[q].id # proc[p].id
    BY <1>2, <1>7, Rivals
  <2> QED
    BY <1>1, <1>7, <2>1, Types DEF Called, Updates
<1>8. ASSUME NEW i \in ID PROVE Answers(i, may'[i]) /\ (next'[i] = 1 => may'[i] = {0})
  <2>1. CASE i = proc[p].id
    <3>1. may'[i] = {proc[p].ver} /\ next'[i] # 1
      BY <1>1, <1>2, <2>1
    <3> QED
      BY <1>4, <2>1, <3>1
  <2>2. CASE i # proc[p].id
    <3>1. may'[i] = may[i] /\ next'[i] = next[i]
      BY <1>1, <2>2
    <3> QED
      BY <3>1 DEF VersionInv
  <2> QED
    BY <2>1, <2>2
<1> QED
  BY <1>1, <1>5, <1>6, <1>7, <1>8, SameStep

\* At first no handle is found.
LEMMA VersionInit == Init => VersionInv
<1> SUFFICES ASSUME Init PROVE VersionInv
  OBVIOUS
<1>1. /\ \A p \in Process : proc[p].kind = "none"
      /\ \A g \in Segment, s \in Slot : Content(g)[s].id = NoID
      /\ \A i \in ID : may[i] = {0}
  BY DEF Init, Idle, ZeroBlock, Vacant, Content
<1> QED
  BY <1>1, Consts DEF VersionInv, Knows, Answers

\* Every step leaves a handle's record within what callers may be answered.
LEMMA VersionStep ==
  ASSUME NoPower, NotBoth, BlockInv, PlaceInv, VersionInv, scene.removes = {}, [Next]_vars, [StillVacant]_vars
  PROVE  VersionInv'
<1>1. CASE UNCHANGED vars
  <2>1. UNCHANGED <<file, cow, slotLock, proc, next, may>>
    BY <1>1 DEF vars
  <2>2. \A i, V : Answers(i, V) => Answers(i, V)'
    BY <2>1 DEF Answers, Content
  <2>3. ASSUME NEW p \in Process PROVE Knows(p)'
    <3>1. Knows(p) /\ Content(proc[p].seg)' = Content(proc[p].seg)
      BY <2>1 DEF VersionInv, Content
    <3> QED
      BY <2>1, <2>2, <3>1, KnowsBeside
  <2>4. \A i \in ID : Answers(i, may[i])' /\ (next'[i] = 1 => may'[i] = {0})
    BY <2>1, <2>2 DEF VersionInv
  <2> QED
    BY <2>3, <2>4 DEF VersionInv
<1>2. CASE Next /\ StillVacant
  <2>1. scene' = scene
    BY <1>2 DEF Next
  <2>2. PICK p \in Process :
          \/ \E kind \in {"add", "set", "remove", "fetch"}, i \in ID : Begin(p, kind, i)
          \/ Step(p) \/ UpdateFails(p) \/ GiveUp(p) \/ Crash(p) \/ Lapse(p)
    BY <1>2 DEF Next
  <2>3. CASE \E kind \in {"add", "set", "remove", "fetch"}, i \in ID : Begin(p, kind, i)
    BY <2>3, BeginVersion DEF Kind
  <2>4. CASE GiveUp(p)
    <3>1. Same /\ Busy(p) /\ proc[p].pc \notin Written /\ Fail(p)
      BY <2>4 DEF GiveUp, disk, Same, Content, Busy, Written
    <3> QED
      BY <3>1, FailVersion
  <2>5. CASE Crash(p)
    <3>1. Same /\ UNCHANGED callers
      BY <2>5, DeathSpares DEF Crash, Same, Content
    <3> QED
      BY <2>5, <3>1, EndVersion
  <2>6. CASE Lapse(p)
    <3>1. Same /\ UNCHANGED callers /\ proc' = proc /\ proc[p].pc = "dead"
      BY <2>6 DEF Lapse, disk, Same, Content
    <3>2. \A q \in Process \ {p}, s \in Slot : slotLock[s] = q => slotLock'[s] = q
      BY <2>6 DEF Lapse, OwnSlotsFreed
    <3>3. Knows(p)'
      BY <3>1 DEF Knows, Busy
    <3> QED
      BY <3>1, <3>2, <3>3, SameCallers
  <2>8. CASE UpdateFails(p)
    <3>1. Same /\ Busy(p) /\ ((Return(p) /\ UNCHANGED callers) \/ (Fail(p) /\ proc[p].pc \notin Written))
      BY <2>8 DEF UpdateFails, disk, Same, Content, Busy, Written
    <3> QED
      BY <3>1, FailVersion, EndVersion
  <2>7. CASE Step(p)
    BY <1>2, <2>1, <2>7, FindVersion, NoSuchFileVersion, SetupVersion, LockVersion, BackupVersion,
       WriteVersion, UnlockVersion DEF Step
  <2> QED
    BY <2>2, <2>3, <2>4, <2>5, <2>6, <2>7, <2>8
<1> QED
  BY <1>1, <1>2

\* The search of a fetch meets the one record of its handle.
LEMMA FetchAnswers ==
  ASSUME BlockInv, PlaceInv, VersionInv, NEW i \in ID
  PROVE  VersionOf(i) \in may[i]
<1> DEFINE G == {g \in Segment : Candidates(i, Content(g), FALSE) # {}}
           k == CHOOSE g \in G : \A h \in G : g <= h
<1>1. Answers(i, may[i])
  BY DEF VersionInv
<1>2. CASE G = {}
  <2>1. \A g \in Segment, s \in Slot : Content(g)[s].id # i
    BY <1>2 DEF Candidates
  <2>2. VersionOf(i) = 0
    BY <1>2 DEF VersionOf
  <2> QED
    BY <1>1, <2>1, <2>2 DEF Answers
<1>3. CASE G # {}
  <2>1. ASSUME NEW g \in G, NEW h \in G PROVE g = h
    <3>1. PICK s \in Slot, r \in Slot : Content(g)[s].id = i /\ Content(h)[r].id = i
      BY DEF Candidates
    <3>2. Has(g, s, i) /\ Has(h, r, i)
      BY <3>1, Backed, Consts DEF Has
    <3> QED
      BY <3>2 DEF PlaceInv
  <2>2. k \in G
    <3>1. PICK g \in G : TRUE
      BY <1>3
    <3>2. g \in Nat /\ g <= g
      BY Consts
    <3> HIDE DEF G
    <3>3. \A h \in G : g <= h
      BY <2>1, <3>2
    <3> QED
      BY <3>1, <3>3
  <2> DEFINE f == FirstOf(i, Candidates(i, Content(k), FALSE))
  <2>3. VersionOf(i) = Content(k)[f].ver
    BY <1>3 DEF VersionOf
  <2> HIDE DEF k
  <2>4. /\ k \in Segment /\ Candidates(i, Content(k), FALSE) # {}
        /\ Candidates(i, Content(k), FALSE) \in SUBSET Slot
    BY <2>2 DEF Candidates
  <2>5. f \in Candidates(i, Content(k), FALSE)
    BY <2>4, FirstIn
  <2>6. f \in Slot /\ Content(k)[f].id = i
    BY <2>5 DEF Candidates
  <2> QED
    BY <1>1, <2>3, <2>4, <2>6 DEF Answers
<1> QED
  BY <1>2, <1>3

\* While nothing is removed a fetch answers the version last written of its handle, or one under
\* way or cut short (fetch, registrymap.go), for any hash function and block size and any number of
\* processes: all that findAndAdd lacks is the check its comment promises, that the slot it has
\* locked is still vacant. After a removal a search stops at the vacated slot (README, section 3).
THEOREM FetchIsCurrentHolds ==
  ASSUME NoPower, NotBoth
  PROVE  Spec /\ [][StillVacant]_vars => [](scene.removes = {} => FetchIsCurrent)
<1>1. BlockInv /\ (scene.removes = {} => PlaceInv) /\ (scene.removes = {} => VersionInv)
        /\ [Next]_vars /\ [StillVacant]_vars
        => (scene.removes = {} => VersionInv)'
  <2> SUFFICES ASSUME BlockInv, scene.removes = {} => PlaceInv, scene.removes = {} => VersionInv,
                      [Next]_vars, [StillVacant]_vars, scene'.removes = {}
               PROVE  VersionInv'
    OBVIOUS
  <2>1. scene' = scene
    BY DEF Next, vars
  <2> QED
    BY <2>1, VersionStep
<1>2. BlockInv /\ (scene.removes = {} => PlaceInv) /\ (scene.removes = {} => VersionInv)
        => (scene.removes = {} => FetchIsCurrent)
  BY FetchAnswers DEF FetchIsCurrent
<1> QED
  BY <1>1, <1>2, BlockInvariantInTurn, PlaceInvariant, VersionInit, PTL DEF Spec
=============================================================================
