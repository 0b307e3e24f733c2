------------------------------ MODULE MCStores ------------------------------
(* Two transactions that share store 1, one of which uses store 2 as well, and which each create a store. *)
EXTENDS Stores, TLC

CONSTANTS t1, t2

OneNewStoreEach == (t1 :> {1, 2, 3}) @@ (t2 :> {1, 4})
=============================================================================
