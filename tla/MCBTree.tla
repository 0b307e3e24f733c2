------------------------------ MODULE MCBTree ------------------------------
(* Instances of BTree. Items are numbered; two of them may share a key. *)
EXTENDS BTreeCursor

CONSTANTS NumItems, NumKeys   \* the items beyond NumKeys have the key in the middle

MCItems == 1..NumItems
MCKeys == 0..NumKeys + 1
MCKeyOf == [i \in 1..NumItems |-> IF i <= NumKeys THEN i ELSE (NumKeys + 1) \div 2]
=============================================================================
