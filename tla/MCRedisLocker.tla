---------------------------- MODULE MCRedisLocker ----------------------------
(* Three clients that contend for two keys, and a slow one with keys of its own. *)
EXTENDS RedisLocker, TLC

CONSTANTS c1, c2, c3, slow

MCWants == c1 :> {1, 2} @@ c2 :> {1, 2} @@ c3 :> {2} @@ slow :> {3, 4}
=============================================================================
