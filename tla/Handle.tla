------------------------------- MODULE Handle -------------------------------
(***************************************************************************)
(* The registry record of a node (handle.go): one logical ID, two physical *)
(* ID slots A and B of which one is active, a version, a work in progress  *)
(* timestamp and a logical delete mark.  The logical ID is not a field: it *)
(* is the index under which a module keeps the record.                     *)
(*                                                                         *)
(* The timestamp is abstracted to what the code asks of it:                *)
(*   "none"   0                                                            *)
(*   "stale"  positive and older than an hour (activateInactiveNodes       *)
(*            writes 1, which is always this old)                          *)
(*   "fresh"  within the hour                                              *)
(***************************************************************************)
EXTENDS Integers

CONSTANT Nil                              \* sop.NilUUID, an empty ID slot

Timestamp == {"none", "stale", "fresh"}

HandleOf(ids) ==
  [a: ids, b: ids, isB: BOOLEAN, version: Nat, wip: Timestamp, deleted: BOOLEAN]

NewHandle(id) ==
  [a |-> id, b |-> Nil, isB |-> FALSE, version |-> 0, wip |-> "none", deleted |-> FALSE]

GetActiveID(h) == IF h.isB THEN h.b ELSE h.a

GetInActiveID(h) == IF h.isB THEN h.a ELSE h.b

IsAandBinUse(h) == h.a # Nil /\ h.b # Nil

IsExpiredInactive(h) == h.wip = "stale"

\* The slot AllocateID fills is the inactive one; it refuses when both are in use.
AllocateID(h, id) ==
  IF h.isB THEN [h EXCEPT !.a = id, !.wip = "fresh"]
           ELSE [h EXCEPT !.b = id, !.wip = "fresh"]

FlipActiveID(h) == [h EXCEPT !.isB = ~h.isB]

ClearInactiveID(h) ==
  IF h.isB THEN [h EXCEPT !.a = Nil, !.wip = "none"]
           ELSE [h EXCEPT !.b = Nil, !.wip = "none"]

(* What the commit does to a handle (common/noderepository.backend.go).    *)

\* Mistake: the version goes the wrong way.
ActivateDown(h) == [FlipActiveID(h) EXCEPT !.version = @ - 1, !.wip = "stale"]

\* activateInactiveNodes: flip, bump, and leave a timestamp that has already expired
\* so that the next writer may reclaim the slot of the superseded blob.
Activate(h) == [FlipActiveID(h) EXCEPT !.version = @ + 1, !.wip = "stale"]

\* Mistake: the timestamp of the tentative mark stays.
TouchTentative(h) == [h EXCEPT !.version = @ + 1]
\* touchNodes: the delete mark becomes final.
Touch(h) == [h EXCEPT !.version = @ + 1, !.wip = "none"]

\* commitRemovedNodes: the tentative delete mark.
MarkDeleted(h) == [h EXCEPT !.deleted = TRUE, !.wip = "fresh"]

\* rollbackRemovedNodes, on a handle that is marked or has a timestamp.
Unmark(h) ==
  IF h.deleted \/ h.wip # "none"
  THEN [h EXCEPT !.deleted = FALSE, !.wip = "none"]
  ELSE h

\* Mistakes: no version check; no check for another's reservation.
ReservableUnversioned(h, ver) ==
  /\ ~(h.deleted /\ ~IsExpiredInactive(h))
  /\ ~IsAandBinUse(h) \/ IsExpiredInactive(h)
ReservableOverAnother(h, ver) ==
  /\ ~(h.deleted /\ ~IsExpiredInactive(h))
  /\ h.version = ver

\* commitUpdatedNodes' guard on one handle, read at version ver.
Reservable(h, ver) ==
  /\ ~(h.deleted /\ ~IsExpiredInactive(h))
  /\ h.version = ver
  /\ ~IsAandBinUse(h) \/ IsExpiredInactive(h)

\* commitUpdatedNodes: undo an expired delete mark, reclaim an expired slot, allocate.
Reserve(h, id) ==
  LET undeleted == [h EXCEPT !.deleted = FALSE]
      reclaimed == IF IsAandBinUse(undeleted) THEN ClearInactiveID(undeleted) ELSE undeleted
  IN  AllocateID(reclaimed, id)

\* rollbackUpdatedNodes on one handle.
Unreserve(h) ==
  IF GetInActiveID(h) = Nil THEN [h EXCEPT !.wip = "none"] ELSE ClearInactiveID(h)
=============================================================================
