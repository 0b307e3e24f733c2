----------------------------- MODULE SortedList -----------------------------
(* What a B-tree promises its callers: a list of items in the order of their  *)
(* keys. An item goes in front of those with the same key, unless a unique    *)
(* list refuses it; any item can be removed.                                  *)
EXTENDS Integers, Sequences, FiniteSets, SequencesExt

CONSTANTS Items,      \* the items callers add and remove
          KeyOf,      \* [Items -> Int]: the key of each item, equal for duplicates
          IsUnique    \* StoreInfo.IsUnique

VARIABLE list         \* the items, in key order

\* How many items of l have a key below k, and up to k; the places of those with key k.
Below(l, k) == Cardinality({p \in DOMAIN l : KeyOf[l[p]] < k})
Upto(l, k) == Cardinality({p \in DOMAIN l : KeyOf[l[p]] <= k})
With(l, k) == Below(l, k) + 1 .. Upto(l, k)

Init == list = <<>>

\* The lists that adding an item to l, and removing one, may lead to.
Longer(l) == {InsertAt(l, Below(l, KeyOf[i]) + 1, i) :
                i \in {j \in Items \ ToSet(l) : IsUnique => With(l, KeyOf[j]) = {}}}
Shorter(l) == {RemoveAt(l, p) : p \in DOMAIN l}

Next == list' \in Longer(list) \cup Shorter(list)

Spec == Init /\ [][Next]_list
=============================================================================
