---------------------------- MODULE BTreeCursor ----------------------------
(* Package btree: the calls that move the cursor and change no node. Each is  *)
(* an operator on the nodes; its loop up or down the tree is a recursion.     *)
EXTENDS BTree

CONSTANT Keys                 \* the keys callers look for

NoCursor == [node |-> Nil, slot |-> 0]

\* To the first item at or behind child index i of node id, climbing when the node has no more.
RECURSIVE GoRightUp(_, _, _)
GoRightUp(n, id, i) ==
    CASE i < Count(n, id)      -> [node |-> id, slot |-> i]
      [] i >= Count(n, id) /\ IsRootNode(n, id) -> NoCursor
      [] OTHER                 -> GoRightUp(n, n[id].parent, GetIndexOfChild(n, id))

RECURSIVE GoLeftUp(_, _, _)
GoLeftUp(n, id, i) ==
    CASE i >= 0                -> [node |-> id, slot |-> i]
      [] i < 0 /\ IsRootNode(n, id) -> NoCursor
      [] OTHER                 -> GoLeftUp(n, n[id].parent, GetIndexOfChild(n, id) - 1)

RECURSIVE GoRightDown(_, _, _)
GoRightDown(n, id, i) ==
    CASE ~ HasChildren(n, id)   -> [node |-> id, slot |-> 0]
      [] HasChildren(n, id) /\ n[id].kids[i + 1] = Nil -> GoRightUp(n, id, i)
      [] OTHER                  -> GoRightDown(n, n[id].kids[i + 1], 0)

RECURSIVE GoLeftDown(_, _, _)
GoLeftDown(n, id, i) ==
    CASE ~ HasChildren(n, id)   -> [node |-> id, slot |-> i - 1]
      [] HasChildren(n, id) /\ n[id].kids[i + 1] = Nil -> GoLeftUp(n, id, i - 1)
      [] OTHER                  -> GoLeftDown(n, n[id].kids[i + 1], Count(n, n[id].kids[i + 1]))

MoveToNext(n, c) ==
    IF HasChildren(n, c.node) THEN GoRightDown(n, c.node, c.slot + 1) ELSE GoRightUp(n, c.node, c.slot + 1)
\* Mutant: a leaf's cursor stays where it is.
MoveNowhere(n, c) ==
    IF HasChildren(n, c.node) THEN GoLeftDown(n, c.node, c.slot) ELSE GoLeftUp(n, c.node, c.slot)
MoveToPrevious(n, c) ==
    IF HasChildren(n, c.node) THEN GoLeftDown(n, c.node, c.slot) ELSE GoLeftUp(n, c.node, c.slot - 1)

RECURSIVE MoveToFirst(_, _)
MoveToFirst(n, id) ==
    IF HasChildren(n, id) /\ n[id].kids[1] # Nil THEN MoveToFirst(n, n[id].kids[1])
                                                 ELSE [node |-> id, slot |-> 0]
RECURSIVE MoveToLast(_, _)
MoveToLast(n, id) ==
    IF HasChildren(n, id) /\ Last(n[id].kids) # Nil THEN MoveToLast(n, Last(n[id].kids))
                                                    ELSE [node |-> id, slot |-> Count(n, id) - 1]

\* sort.Search for the first slot whose key is above k.
SearchAbove(s, k) == Cardinality({i \in DOMAIN s : KeyOf[s[i]] <= k})

\* Mutant: the cursor is left behind the last slot.
LandedBeyond(n, id, index, found) == IF found # NoCursor THEN found ELSE [node |-> id, slot |-> index]

\* The search ends where it found the key, or next to the place where it looked last.
Landed(n, id, index, found) ==
    IF found # NoCursor THEN found
    ELSE [node |-> id, slot |-> IF index = Count(n, id) THEN index - 1 ELSE index]

RECURSIVE FindFrom(_, _, _, _, _)
FindFrom(n, id, key, first, found) ==
    LET index == SearchNotBelow(n[id].slots, key)
        here  == index < Count(n, id) /\ KeyOf[n[id].slots[index + 1]] = key
        best  == IF here THEN [node |-> id, slot |-> index] ELSE found
    IN  IF ~ (here /\ ~ first) /\ HasChildren(n, id) /\ n[id].kids[index + 1] # Nil
        THEN FindFrom(n, n[id].kids[index + 1], key, first, best)
        ELSE Landed(n, id, index, best)

RECURSIVE FindInDescendingOrderFrom(_, _, _, _)
FindInDescendingOrderFrom(n, id, key, found) ==
    LET index == SearchAbove(n[id].slots, key)
        here  == index > 0 /\ KeyOf[n[id].slots[index]] = key
        best  == IF here THEN [node |-> id, slot |-> index - 1] ELSE found
    IN  IF HasChildren(n, id) /\ n[id].kids[index + 1] # Nil
        THEN FindInDescendingOrderFrom(n, n[id].kids[index + 1], key, best)
        ELSE Landed(n, id, index, best)

\* FindWithID walks on from the first item with the key until it meets the item.
RECURSIVE WalkTo(_, _, _)
WalkTo(n, c, item) ==
    IF c = NoCursor \/ n[c.node].slots[c.slot + 1] = item THEN c ELSE WalkTo(n, MoveToNext(n, c), item)

-----------------------------------------------------------------------------
(* Properties. *)

\* The cursors of the items of node id and below, from child k on, left to right. While a separator is on its way up, it is
\* between the two halves of the node that was split: NoCursor stands for it.
RECURSIVE InOrder(_, _, _)
InOrder(n, id, k) ==
    LET kid   == IF HasChildren(n, id) THEN n[id].kids[k + 1] ELSE Nil
        below == IF kid = Nil THEN <<>> ELSE InOrder(n, kid, 0)
        split == IF Promoting /\ kid = call.left THEN <<NoCursor>> \o InOrder(n, call.right, 0) ELSE <<>>
        rest  == IF k < Count(n, id) THEN <<[node |-> id, slot |-> k]>> \o InOrder(n, id, k + 1) ELSE <<>>
    IN  below \o split \o rest

InKeyOrder == IF root = Nil THEN <<>> ELSE InOrder(nodes, root, 0)
ItemsAt[at \in Seq([node : Nat, slot : Nat])] ==
    [p \in DOMAIN at |-> IF at[p] = NoCursor THEN call.item ELSE nodes[at[p].node].slots[at[p].slot + 1]]
List == ItemsAt[InKeyOrder]

Abstract == INSTANCE SortedList WITH list <- List

\* From any item Next and Previous go to the item beside it in key order, and off either end; First
\* and Last go to the ends: a walk in either direction meets every item once, pruned children or not.
WalkVisitsAll ==
    LET at == InKeyOrder
        place(p) == IF p \in DOMAIN at THEN at[p] ELSE NoCursor
    IN  call = Idle =>
        /\ \A p \in DOMAIN at : MoveToNext(nodes, at[p]) = place(p + 1) /\ MoveToPrevious(nodes, at[p]) = place(p - 1)
        /\ at # <<>> => MoveToFirst(nodes, root) = at[1] /\ MoveToLast(nodes, root) = Last(at)

\* The four searches find the first, the last, some or the very item with the key where the list has
\* one; otherwise Find lands next to where it would be.
SearchesAgree ==
    LET at == InKeyOrder
        l == List
        with(k) == {at[p] : p \in Abstract!With(l, k)}
        beside(k) == {at[p] : p \in {Abstract!Below(l, k), Abstract!Below(l, k) + 1} \cap DOMAIN l}
        find(k, first) == FindFrom(nodes, root, k, first, NoCursor)
        findDown(k) == FindInDescendingOrderFrom(nodes, root, k, NoCursor)
    IN  call = Idle /\ count # 0 =>
          \A k \in Keys :
            IF with(k) # {}
            THEN /\ find(k, TRUE) = at[Abstract!Below(l, k) + 1] /\ find(k, FALSE) \in with(k)
                 /\ findDown(k) = at[Abstract!Upto(l, k)]
                 /\ \A p \in DOMAIN l : KeyOf[l[p]] = k => WalkTo(nodes, find(k, TRUE), l[p]) = at[p]
            ELSE {find(k, TRUE), find(k, FALSE), findDown(k)} \subseteq beside(k)

\* Whatever its shape, the tree holds the items a sorted list would hold, in the same order.
ImplementsSortedList == Abstract!Spec
=============================================================================
