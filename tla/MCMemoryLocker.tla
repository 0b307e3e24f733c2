--------------------------- MODULE MCMemoryLocker ---------------------------
(* Small instances of MemoryLocker for TLC. *)
EXTENDS MemoryLocker, TLC

CONSTANTS c1, c2, c3

\* One key that all want, one that two want; c3 is slow.
MCWants == c1 :> {1, 2} @@ c2 :> {2, 3} @@ c3 :> {2, 3}
=============================================================================
