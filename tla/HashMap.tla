------------------------------ MODULE HashMap ------------------------------
(* The registry files of package fs: handles in the slots of a block, the      *)
(* block and slot chosen by a hash of the handle's ID, further segment files   *)
(* when the block is full. The model is one block position, in every segment   *)
(* file; processes add, set, remove and fetch handles there, each call of the  *)
(* lock service and of the file system a step of its own. A block is rewritten *)
(* under a lock and with a copy-on-write backup, and read without a lock.      *)
EXTENDS Integers, FiniteSets

CONSTANTS Process,
          ID,             \* the logical IDs of the handles
          NoID, Free,     \* model values: no handle, no lock owner
          HandlesPerBlock,\* handlesPerBlock
          MaxSegments,    \* findOneFileRegion's bound on segment files (1000)
          MaxVersion,     \* bound: versions written of one handle
          Home,           \* [ID -> slots]: the slot an ID hashes to
          Scenes          \* the environments to consider, see scene

Slot == 1..HandlesPerBlock
Segment == 1..MaxSegments

ASSUME HashMapAssumption ==
  /\ HandlesPerBlock \in Nat \ {0} /\ MaxSegments \in Nat \ {0}
  /\ Home \in [ID -> Slot] /\ NoID \notin ID /\ Free \notin Process
  /\ Scenes \subseteq [overlap : BOOLEAN, fails : BOOLEAN, tears : BOOLEAN, power : BOOLEAN,
                      adds : SUBSET ID, removes : SUBSET ID]

VARIABLES file,      \* the block in each segment file: its slots, and whether a write tore it
          cow,       \* the block's backup file: "none", "partial", or "full" with the slots
          allocated, \* how many segment files exist at their full size
          prealloc,  \* the owner of each segment's preallocation lock
          slotLock,  \* the owner of each slot's lock, one for all segments
          blockLock, \* the owner of the block's lock in each segment file
          proc,      \* the processes: the call each is in, and its local variables
          next,      \* the next version callers write of each handle
          may,       \* the versions a fetch of each handle may answer now, 0 being none
          scene      \* the environment: do calls overlap, do they meet I/O errors, can a write stop half
                     \* way, can the machine lose its power (and what was never synced), which handles are
                     \* added and removed

vars == <<file, cow, allocated, prealloc, slotLock, blockLock, proc, next, may, scene>>
disk == <<file, cow, allocated>>
locks == <<prealloc, slotLock, blockLock>>
callers == <<next, may>>

Vacant == [id |-> NoID, ver |-> 0]
ZeroBlock == [s \in Slot |-> Vacant]
NoCow == [state |-> "none", slots |-> ZeroBlock]
PartialCow == [state |-> "partial", slots |-> ZeroBlock]
FullCow(b) == [state |-> "full", slots |-> b]
Idle == [pc |-> "idle", kind |-> "none", id |-> NoID, ver |-> 0, was |-> {}, seg |-> 1, slot |-> 1,
         found |-> Vacant, buf |-> ZeroBlock]

\* The block is empty; there may be segment files already, for handles of other blocks.
Init ==
  /\ file = [g \in Segment |-> [slots |-> ZeroBlock, torn |-> FALSE]]
  /\ cow = [g \in Segment |-> NoCow]
  /\ allocated \in 0..MaxSegments
  /\ prealloc = [g \in Segment |-> Free]
  /\ slotLock = [s \in Slot |-> Free]
  /\ blockLock = [g \in Segment |-> Free]
  /\ proc = [p \in Process |-> Idle]
  /\ next = [i \in ID |-> 1]
  /\ may = [i \in ID |-> {0}]
  /\ scene \in Scenes

Go(p, x) == proc' = [proc EXCEPT ![p] = x]
Busy(p) == proc[p].pc \notin {"idle", "dead"}
Writes(p) == proc[p].kind # "fetch"
Record(p) == IF proc[p].kind = "remove" THEN Vacant ELSE [id |-> proc[p].id, ver |-> proc[p].ver]

-----------------------------------------------------------------------------
(* The registry's callers: transactions, which hold the lock of a node while   *)
(* they write its handle.                                                     *)

Begin(p, kind, i) ==
  /\ proc[p].pc = "idle"
  /\ scene.overlap \/ \A q \in Process : ~ Busy(q)
  /\ kind # "fetch" => ~ \E q \in Process : Busy(q) /\ Writes(q) /\ proc[q].id = i
  /\ CASE kind = "add"    -> i \in scene.adds /\ next[i] = 1
       [] kind = "set"    -> 0 \notin may[i] /\ next[i] <= MaxVersion
       [] kind = "remove" -> i \in scene.removes /\ may[i] # {0}
       [] kind = "fetch"  -> TRUE
  /\ LET ver == IF kind \in {"add", "set"} THEN next[i] ELSE 0
     IN  /\ Go(p, [proc[p] EXCEPT !.pc = IF kind = "add" THEN "lockhome" ELSE "find", !.kind = kind,
                                  !.id = i, !.ver = ver, !.was = IF kind = "fetch" THEN {} ELSE may[i]])
         /\ next' = [next EXCEPT ![i] = IF ver = 0 THEN @ ELSE @ + 1]
         /\ may' = [may EXCEPT ![i] = IF kind = "fetch" THEN @ ELSE @ \cup {ver}]
  /\ UNCHANGED <<disk, locks>>

OwnSlotsFreed(p) == [s \in Slot |-> IF slotLock[s] = p THEN Free ELSE slotLock[s]]

\* The call returns; the deferred Unlocks of findAndAdd run.
Return(p) ==
  /\ slotLock' = OwnSlotsFreed(p)
  /\ proc' = [proc EXCEPT ![p] = Idle]

\* It returns an error: nothing has been written.
Fail(p) ==
  /\ Return(p)
  /\ next' = [next EXCEPT ![proc[p].id] = IF proc[p].ver = 0 THEN @ ELSE @ - 1]
  /\ may' = [may EXCEPT ![proc[p].id] = IF Writes(p) THEN proc[p].was ELSE @]

-----------------------------------------------------------------------------
(* Finding a handle, or a place for it. *)

\* readAndRestoreBlock: the block is read and, when its checksum is wrong, restored from a full
\* backup; the backup of a valid block is deleted. Content is what the caller gets.
Content(g) == IF file[g].torn /\ cow[g].state = "full" THEN cow[g].slots ELSE file[g].slots
ReadAndRestoreBlock(g) ==
  /\ file' = [file EXCEPT ![g] = [slots |-> Content(g), torn |-> @.torn /\ cow[g].state # "full"]]
  /\ cow' = IF file[g].torn THEN cow ELSE [cow EXCEPT ![g] = NoCow]

\* Mistake: the home slot is looked at last.
RankLast(i, s) == IF s = Home[i] THEN HandlesPerBlock + 1 ELSE s

\* Mistake: a writer takes any vacant slot, and looks for no record.
CandidatesVacant(i, b, forWriting) == {s \in Slot : IF forWriting THEN b[s] = Vacant ELSE b[s].id = i}

\* The slots of a block a search for i stops at; it looks at the home slot and then at the others.
Candidates(i, b, forWriting) == {s \in Slot : b[s].id = i \/ (forWriting /\ b[s] = Vacant)}
Rank(i, s) == IF s = Home[i] THEN 0 ELSE s
FirstOf(i, S) == CHOOSE s \in S : \A r \in S : Rank(i, s) <= Rank(i, r)

\* The version a fetch of i meets first, 0 when there is none.
VersionOf(i) ==
  LET G == {g \in Segment : Candidates(i, Content(g), FALSE) # {}}
      g == CHOOSE g \in G : \A h \in G : g <= h
  IN  IF G = {} THEN 0 ELSE Content(g)[FirstOf(i, Candidates(i, Content(g), FALSE))].ver

Found(p, slot, record) ==
  Go(p, [proc[p] EXCEPT !.pc = IF proc[p].kind = "add" THEN "lockslot" ELSE "lockblock",
                        !.slot = slot, !.found = record])

\* One segment file of findOneFileRegion's loop.
FindOneFileRegion(p) ==
  LET g == proc[p].seg
      i == proc[p].id
      S == Candidates(i, Content(g), Writes(p))
  IN  /\ proc[p].pc = "find" /\ g <= allocated
      /\ ReadAndRestoreBlock(g)
      /\ \/ /\ S # {} /\ Writes(p) /\ (proc[p].kind = "remove" => Content(g)[FirstOf(i, S)] # Vacant)
            /\ Found(p, FirstOf(i, S), Content(g)[FirstOf(i, S)])
            /\ UNCHANGED <<slotLock, callers>>
         \/ S # {} /\ proc[p].kind = "fetch" /\ Return(p) /\ UNCHANGED callers
         \* registryMap.remove: "can't delete a missing item".
         \/ S # {} /\ proc[p].kind = "remove" /\ Content(g)[FirstOf(i, S)] = Vacant /\ Fail(p)
         \/ S = {} /\ g < MaxSegments /\ Go(p, [proc[p] EXCEPT !.seg = g + 1]) /\ UNCHANGED <<slotLock, callers>>
         \* "reached the maximum count of segment files"
         \/ S = {} /\ g = MaxSegments /\ Fail(p)
      /\ UNCHANGED <<allocated, prealloc, blockLock>>

\* There is no such segment file: a fetch ends, a writer sets the file up if it gets the lock.
NoSuchFile(p) ==
  LET g == proc[p].seg
  IN  /\ proc[p].pc = "find" /\ g > allocated
      /\ \/ Writes(p) /\ prealloc[g] = Free /\ prealloc' = [prealloc EXCEPT ![g] = p]
            /\ Go(p, [proc[p] EXCEPT !.pc = "truncate"]) /\ UNCHANGED <<slotLock, callers>>
         \/ Writes(p) /\ prealloc[g] # Free /\ Fail(p) /\ UNCHANGED prealloc
         \/ ~ Writes(p) /\ Return(p) /\ UNCHANGED <<prealloc, callers>>
      /\ UNCHANGED <<disk, blockLock>>

\* setupNewFile: the home slot is the place, and the block is not read.
SetupNewFile(p) ==
  LET g == proc[p].seg
  IN  /\ proc[p].pc = "truncate"
      /\ allocated' = IF g > allocated THEN g ELSE allocated
      /\ prealloc' = [prealloc EXCEPT ![g] = Free]
      /\ IF proc[p].kind = "remove" THEN Fail(p)
         ELSE Found(p, Home[proc[p].id], Vacant) /\ UNCHANGED <<slotLock, callers>>
      /\ UNCHANGED <<file, cow, blockLock>>

-----------------------------------------------------------------------------
(* findAndAdd *)

LockHome(p) ==
  /\ proc[p].pc = "lockhome" /\ slotLock[Home[proc[p].id]] = Free
  /\ slotLock' = [slotLock EXCEPT ![Home[proc[p].id]] = p]
  /\ Go(p, [proc[p] EXCEPT !.pc = "find"])
  /\ UNCHANGED <<disk, prealloc, blockLock, callers>>

\* The slot found is locked too unless it is the home slot; when it is taken, or its lock is, the
\* search starts again. What the slot holds is not looked at again once it is locked.
LockSlot(p) ==
  LET s == proc[p].slot
  IN  /\ proc[p].pc = "lockslot"
      /\ \/ /\ proc[p].found = Vacant /\ (s = Home[proc[p].id] \/ slotLock[s] = Free)
            /\ slotLock' = [slotLock EXCEPT ![s] = p]
            /\ Go(p, [proc[p] EXCEPT !.pc = "lockblock"])
         \/ /\ proc[p].found # Vacant \/ (s # Home[proc[p].id] /\ slotLock[s] # Free)
            /\ Go(p, [proc[p] EXCEPT !.pc = "find", !.seg = 1, !.found = Vacant])
            /\ UNCHANGED slotLock
      /\ UNCHANGED <<disk, prealloc, blockLock, callers>>

-----------------------------------------------------------------------------
(* updateFileBlockRegion *)

\* Mistake: the block is rewritten whoever else is rewriting it.
LockNothing(p) ==
  /\ proc[p].pc = "lockblock" /\ Go(p, [proc[p] EXCEPT !.pc = "read", !.found = Vacant])
  /\ UNCHANGED <<disk, locks, callers>>

LockFileBlockRegion(p) ==
  LET g == proc[p].seg
  IN  /\ proc[p].pc = "lockblock" /\ blockLock[g] = Free
      /\ blockLock' = [blockLock EXCEPT ![g] = p]
      /\ Go(p, [proc[p] EXCEPT !.pc = "read", !.found = Vacant])
      /\ UNCHANGED <<disk, prealloc, slotLock, callers>>

ReadBlock(p) ==
  /\ proc[p].pc = "read"
  /\ ReadAndRestoreBlock(proc[p].seg)
  /\ Go(p, [proc[p] EXCEPT !.pc = "cow", !.buf = Content(proc[p].seg)])
  /\ UNCHANGED <<allocated, locks, callers>>

\* Mistake: the block is written before the backup is complete.
CreateCowHalf(p) ==
  /\ proc[p].pc = "cow" /\ cow' = [cow EXCEPT ![proc[p].seg] = PartialCow]
  /\ Go(p, [proc[p] EXCEPT !.pc = "write"])
  /\ UNCHANGED <<file, allocated, locks, callers>>

\* Where writes can stop half way, a kill or an error leaves a part of the backup, or a torn block.
\* A backup that a reader deletes while it is being written is gone.
CreateCow(p) ==
  LET g == proc[p].seg
      gone == proc[p].pc = "cow2" /\ cow[g] = NoCow
  IN  /\ \/ /\ proc[p].pc = "cow" /\ scene.tears
            /\ cow' = [cow EXCEPT ![g] = PartialCow] /\ Go(p, [proc[p] EXCEPT !.pc = "cow2"])
         \/ /\ proc[p].pc = IF scene.tears THEN "cow2" ELSE "cow"
            /\ cow' = [cow EXCEPT ![g] = IF gone THEN NoCow ELSE FullCow(proc[p].buf)]
            /\ Go(p, [proc[p] EXCEPT !.pc = "write"])
      /\ UNCHANGED <<file, allocated, locks, callers>>

WriteBlock(p) ==
  LET g == proc[p].seg
      block == [proc[p].buf EXCEPT ![proc[p].slot] = Record(p)]
  IN  /\ \/ /\ proc[p].pc = "write" /\ scene.tears
            /\ file' = [file EXCEPT ![g] = [slots |-> block, torn |-> TRUE]]
            /\ Go(p, [proc[p] EXCEPT !.pc = "write2"])
         \/ /\ proc[p].pc = IF scene.tears THEN "write2" ELSE "write"
            /\ file' = [file EXCEPT ![g] = [slots |-> block, torn |-> FALSE]]
            /\ Go(p, [proc[p] EXCEPT !.pc = "uncow", !.buf = ZeroBlock])
      /\ UNCHANGED <<cow, allocated, locks, callers>>

DeleteCow(p) ==
  /\ proc[p].pc = "uncow"
  /\ cow' = [cow EXCEPT ![proc[p].seg] = NoCow] /\ Go(p, [proc[p] EXCEPT !.pc = "unlock"])
  /\ UNCHANGED <<file, allocated, locks, callers>>

\* The block's lock is given back, and the call returns: from now on a fetch must answer its version.
UnlockFileBlockRegion(p) ==
  /\ proc[p].pc = "unlock"
  /\ blockLock' = [blockLock EXCEPT ![proc[p].seg] = Free]
  /\ Return(p)
  /\ may' = [may EXCEPT ![proc[p].id] = {proc[p].ver}]
  /\ UNCHANGED <<disk, prealloc, next>>

\* A read, a write or the deletion of the backup fails, and the call returns its error; when the
\* block has been written, or begun, the caller does not know which version is there.
UpdateFails(p) ==
  /\ scene.fails /\ proc[p].pc \in {"read", "cow", "cow2", "write", "write2", "uncow"}
  /\ blockLock' = [blockLock EXCEPT ![proc[p].seg] = Free]
  /\ IF proc[p].pc \in {"write2", "uncow"} THEN Return(p) /\ UNCHANGED callers ELSE Fail(p)
  /\ UNCHANGED <<disk, prealloc>>

-----------------------------------------------------------------------------
(* Timeouts and deaths. *)

\* lockSectorRetryTimeoutDuration has passed while another holds the lock.
GiveUp(p) ==
  /\ \/ proc[p].pc = "lockhome" /\ slotLock[Home[proc[p].id]] # Free
     \/ /\ proc[p].pc = "lockslot"
        /\ proc[p].found # Vacant \/ (proc[p].slot # Home[proc[p].id] /\ slotLock[proc[p].slot] # Free)
     \/ proc[p].pc = "lockblock" /\ blockLock[proc[p].seg] # Free
  /\ Fail(p)
  /\ UNCHANGED <<disk, prealloc, blockLock>>

\* What a death leaves of the backups: files are not synced, so one just written may go with the power.
AfterDeath(p) ==
  {cow} \cup {[cow EXCEPT ![proc[p].seg] = c] :
               c \in IF scene.power /\ proc[p].pc \in {"write", "write2"} THEN {NoCow, PartialCow} ELSE {}}

Crash(p) ==
  /\ Busy(p) /\ proc' = [proc EXCEPT ![p] = [Idle EXCEPT !.pc = "dead"]]
  /\ cow' \in AfterDeath(p)
  /\ UNCHANGED <<file, allocated, locks, callers>>

\* The locks of a dead process lapse.
Lapse(p) ==
  /\ proc[p].pc = "dead" /\ p \in {prealloc[g] : g \in Segment} \cup {slotLock[s] : s \in Slot} \cup {blockLock[g] : g \in Segment}
  /\ slotLock' = OwnSlotsFreed(p)
  /\ prealloc' = [g \in Segment |-> IF prealloc[g] = p THEN Free ELSE prealloc[g]]
  /\ blockLock' = [g \in Segment |-> IF blockLock[g] = p THEN Free ELSE blockLock[g]]
  /\ UNCHANGED <<disk, proc, callers>>

Step(p) ==
  \/ FindOneFileRegion(p) \/ NoSuchFile(p) \/ SetupNewFile(p) \/ LockHome(p) \/ LockSlot(p)
  \/ LockFileBlockRegion(p) \/ ReadBlock(p) \/ CreateCow(p) \/ WriteBlock(p) \/ DeleteCow(p)
  \/ UnlockFileBlockRegion(p)

Next ==
  /\ UNCHANGED scene
  /\ \E p \in Process :
       \/ \E kind \in {"add", "set", "remove", "fetch"}, i \in ID : Begin(p, kind, i)
       \/ Step(p) \/ UpdateFails(p) \/ GiveUp(p) \/ Crash(p) \/ Lapse(p)

Spec == Init /\ [][Next]_vars

\* A live process goes on, and the lock service drops the locks of a dead one. That a call which has
\* waited too long gives up is not assumed.
Fairness == \A p \in Process : WF_vars(Step(p) /\ UNCHANGED scene) /\ WF_vars(Lapse(p) /\ UNCHANGED scene)

-----------------------------------------------------------------------------
(* Properties. *)

\* A fetch answers the version last written of a handle, or one whose write is under way or was cut
\* short: no writer of another handle in the block, and no torn write, takes it away.
FetchIsCurrent == \A i \in ID : VersionOf(i) \in may[i]

\* An add that locks the slot it has found finds it still vacant: what findAndAdd's comment says it
\* verifies, and what it does not look at.
StillVacant ==
  \A p \in Process : proc[p].pc = "lockslot" /\ proc'[p].pc = "lockblock" =>
    Content(proc[p].seg)[proc[p].slot] = Vacant

\* A block that a kill or a failed write has left torn can be restored: its backup is there in full,
\* "to fix any potential torn page from a previous crash" (restoreFromCow).
TornIsCovered == \A g \in Segment : file[g].torn => cow[g].state = "full"

\* While nothing is removed, a handle has one record in all segments together.
OneRecord ==
  scene.removes = {} =>
    \A i \in ID : Cardinality({x \in Segment \X Slot : file[x[1]].slots[x[2]].id = i}) <= 1

\* An add holds the lock of its home slot while it goes after the lock of the vacant slot it found,
\* which may be the home slot of another add that is doing the same: they never wait for each other
\* for ever, also when none of them times out, whichever way another call has returned or died. (Where
\* overlapping calls meet I/O errors, one might always come too late for a lock.)
CallsReturn == \A p \in Process : Busy(p) /\ ~(scene.overlap /\ scene.fails) ~> ~ Busy(p)
=============================================================================
