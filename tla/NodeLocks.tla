------------------------------ MODULE NodeLocks ------------------------------
(***************************************************************************)
(* What the commit expects of the L2 cache's locks: a client gets all the  *)
(* locks it wants in one step, when nobody else has any of them, and keeps *)
(* them until it gives them back or dies.                                  *)
(***************************************************************************)
CONSTANTS Client, Key, Wants, Free
VARIABLE holder

Init == holder = [k \in Key |-> Free]

Acquire(c) ==
  /\ \A k \in Wants[c] : holder[k] = Free
  /\ holder' = [k \in Key |-> IF k \in Wants[c] THEN c ELSE holder[k]]

Release(c) == holder' = [k \in Key |-> IF holder[k] = c THEN Free ELSE holder[k]]

Next == \E c \in Client : Acquire(c) \/ Release(c)

Spec == Init /\ [][Next]_holder
=============================================================================
