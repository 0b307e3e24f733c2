----------------------------- MODULE MCHashMap -----------------------------
(* An instance of HashMap: handles a, b and c in blocks of two slots, where c  *)
(* hashes to the other slot than a and b.                                      *)
EXTENDS HashMap

CONSTANTS p1, p2, a, b, c

TwoHomes == [i \in ID |-> IF i = c THEN 2 ELSE 1]

\* Calls overlap and processes are killed between their steps; or they also meet I/O errors; or calls
\* follow one another, a is removed, and a kill or an error may stop a write half way.
Overlap == [overlap |-> TRUE, fails |-> FALSE, tears |-> FALSE, power |-> FALSE,
            adds |-> ID, removes |-> {}]
Errors == [overlap |-> TRUE, fails |-> TRUE, tears |-> FALSE, power |-> FALSE,
           adds |-> {a, b}, removes |-> {}]
Tears == [overlap |-> FALSE, fails |-> TRUE, tears |-> TRUE, power |-> FALSE,
          adds |-> {a, b}, removes |-> {a}]
AnyScene == {Overlap, Errors, Tears}
OverlapOnly == {Overlap}

\* History: an add has locked a slot that was vacant no more.
VARIABLE raced

MCInit == Init /\ raced = FALSE
MCNext == Next /\ raced' = (raced \/ ~StillVacant)
MCSpec == MCInit /\ [][MCNext]_<<vars, raced>>
MCFairSpec == MCSpec /\ Fairness

\* A fetch answers the version last written of a handle, or one whose write is under way or was cut
\* short, as long as every add finds the slot it has locked still vacant: other writers of the same
\* block, restores, deaths and failed calls take no acknowledged version away.
CurrentUnlessRaced == raced \/ FetchIsCurrent
=============================================================================
