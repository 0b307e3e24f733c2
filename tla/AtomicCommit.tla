---------------------------- MODULE AtomicCommit ----------------------------
(***************************************************************************)
(* What the two-phase commit promises: a transaction takes effect at one   *)
(* instant or never.  A node's value is the set of transactions that have  *)
(* updated it, so that a commit adds to the value it finds and loses       *)
(* nothing; nodes come and go with the transactions that add and remove    *)
(* them.  There are no versions, slots, logs, locks, crashes or rollbacks. *)
(***************************************************************************)
CONSTANTS Txn, Node, Updates, Removes, Adds, Absent

VARIABLES val,         \* [Node -> SUBSET Txn or Absent]
          committed    \* SUBSET Txn

Init ==
  /\ val = [n \in Node |-> IF \E t \in Txn : n \in Adds[t] THEN Absent ELSE {}]
  /\ committed = {}

Commit(t) ==
  /\ t \notin committed
  /\ \A n \in Updates[t] \cup Removes[t] : val[n] # Absent
  /\ committed' = committed \cup {t}
  /\ val' = [n \in Node |-> IF n \in Adds[t] THEN {t}
                            ELSE IF n \in Removes[t] THEN Absent
                            ELSE IF n \in Updates[t] THEN val[n] \cup {t}
                            ELSE val[n]]

Next == \E t \in Txn : Commit(t)

Spec == Init /\ [][Next]_<<val, committed>>
=============================================================================
