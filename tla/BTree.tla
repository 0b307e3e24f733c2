------------------------------- MODULE BTree -------------------------------
(* Package btree: the tree a transaction works on in memory. The nodes are    *)
(* the ones its node repository holds. A tree belongs to one transaction, and *)
(* makes one call at a time; a step is one iteration of the loops a call is   *)
(* made of: down the tree in Node.add and moveToNext, up the tree in          *)
(* Btree.promote. A node's Slots are the sequence of its first Count          *)
(* elements, the rest of the array being cleared; its ChildrenIDs are <<>>    *)
(* (no children) or one longer than its slots, and hold Nil where a child has *)
(* been pruned. Slot and child indices count from 0, as in the code. Values   *)
(* are left out: an update replaces one in place.                             *)
EXTENDS Integers, Sequences, FiniteSets, SequencesExt

CONSTANTS Items,              \* the items callers add and remove
          KeyOf,              \* [Items -> Int]: the key of each item
          SlotLength,         \* StoreInfo.SlotLength: even, at least 2
          IsUnique,           \* StoreInfo.IsUnique
          MaxNodes            \* bound: the node IDs

ASSUME BTreeAssumption ==
    /\ KeyOf \in [Items -> Int]
    /\ SlotLength \in Nat /\ SlotLength >= 2 /\ SlotLength % 2 = 0
    /\ IsUnique \in BOOLEAN
    /\ MaxNodes \in Nat \ {0}

VARIABLES nodes,    \* the nodes, by ID
          root,     \* StoreInfo.RootNodeID
          count,    \* StoreInfo.Count
          call,     \* the call under way, and where its loop is
          saved     \* the nodes it has passed to saveNode or removeNode

vars == <<nodes, root, count, call, saved>>

Nil == 0
Half == SlotLength \div 2

\* A call is idle; on its way down with an item to add; on its way up with the separator `item`
\* between `left` and `right`, new beside it (promoteAction, tempParent, tempParentChildren); on
\* its way to the item behind the one at slot `slot` of node `home`; or about to return.
Idle    == [op |-> "idle"]
Added   == [op |-> "added"]
Removed == [op |-> "removed"]
Calls ==
    {Idle, Added, Removed}
      \cup [op : {"add"}, item : Items, unique : BOOLEAN, node : DOMAIN nodes]
      \cup [op : {"promote"}, node : DOMAIN nodes, index : 0..SlotLength, item : Items,
            left : DOMAIN nodes, right : DOMAIN nodes]
      \cup [op : {"next"}, home : DOMAIN nodes, slot : 0..SlotLength - 1, node : DOMAIN nodes]

-----------------------------------------------------------------------------
(* Nodes. An operation works on a pair t: the nodes t.n, and the IDs t.saved  *)
(* it passes to saveNode or removeNode.                                       *)

Node(parent, slots, kids) == [parent |-> parent, slots |-> slots, kids |-> kids]
Count(n, id) == Len(n[id].slots)
HasChildren(n, id) == n[id].kids # <<>>
IsRootNode(n, id) == n[id].parent = Nil
IsNilChildren(kids) == \A k \in DOMAIN kids : kids[k] = Nil
GetIndexOfChild(n, id) == (CHOOSE k \in DOMAIN n[n[id].parent].kids : n[n[id].parent].kids[k] = id) - 1

NewID(n) == CHOOSE id \in 1..MaxNodes : id \notin DOMAIN n

\* The bound leaves room for the two nodes a split may make.
Room == \A a \in 1..MaxNodes : ~ ((1..MaxNodes) \ {a} \subseteq DOMAIN nodes)

\* An assignment to a node in memory, and one followed by saveNode.
With(n, id, node) == [k \in DOMAIN n \cup {id} |-> IF k = id THEN node ELSE n[k]]
SaveNode(t, id, node) == [n |-> With(t.n, id, node), saved |-> t.saved \cup {id}]
RemoveNode(t, id) == [n |-> [k \in DOMAIN t.n \ {id} |-> t.n[k]], saved |-> t.saved \cup {id}]

\* Mutant: the children moved to a new node keep their old parent.
ForgetChildrenParent(t, id) == t

Adopted(n, id) == [k \in DOMAIN n |-> IF k \in ToSet(n[id].kids) \ {Nil}
                                      THEN [n[k] EXCEPT !.parent = id] ELSE n[k]]
\* Mutant: the children moved to a new node are not saved.
ChildrenParentUnsaved(t, id) == [n |-> Adopted(t.n, id), saved |-> t.saved]
UpdateChildrenParent(t, id) ==
    [n |-> Adopted(t.n, id), saved |-> t.saved \cup (ToSet(t.n[id].kids) \ {Nil})]

Working == [n |-> nodes, saved |-> saved]
Becomes(t) == nodes' = t.n /\ saved' = t.saved

\* Mutant: an item goes behind those with the same key.
SearchNotAbove(s, k) == Cardinality({i \in DOMAIN s : KeyOf[s[i]] <= k})
\* sort.Search for the first slot whose key is not below k.
SearchNotBelow(s, k) == Cardinality({i \in DOMAIN s : KeyOf[s[i]] < k})

\* The halves of a full node's slots or children, the middle slot between them.
LowerSlots(s) == SubSeq(s, 1, Half)
\* Mutant: the middle slot, on its way up, stays in the upper half as well.
UpperSlotsWithMiddle(s) == SubSeq(s, Half + 1, SlotLength + 1)
UpperSlots(s) == SubSeq(s, Half + 2, SlotLength + 1)
LowerKids(s) == SubSeq(s, 1, Half + 1)
UpperKids(s) == SubSeq(s, Half + 2, SlotLength + 2)

-----------------------------------------------------------------------------
(* Adding. *)

InTree(i) == \E id \in DOMAIN nodes : i \in ToSet(nodes[id].slots)

\* Add (unique = IsUnique) and AddIfNotExist (unique = TRUE); getRootNode makes the root on demand.
Add(i, unique) ==
    /\ call = Idle /\ ~ InTree(i)
    /\ LET id == IF root = Nil THEN NewID(nodes) ELSE root
       IN  /\ root' = id
           /\ nodes' = IF root = Nil THEN With(nodes, id, Node(Nil, <<>>, <<>>)) ELSE nodes
           /\ call' = [op |-> "add", item |-> i, unique |-> unique, node |-> id]
    /\ UNCHANGED <<count, saved>>

\* Node.add at call.node: the slot for the item, and whether one with its key keeps it out.
Here == nodes[call.node]
Index == SearchNotBelow(Here.slots, KeyOf[call.item])
\* Mutant: only the leaves are looked at for the key.
TakenOnLeaf ==
    /\ call.unique /\ ~ HasChildren(nodes, call.node)
    /\ Index < Len(Here.slots) /\ KeyOf[Here.slots[Index + 1]] = KeyOf[call.item]
Taken == call.unique /\ Index < Len(Here.slots) /\ KeyOf[Here.slots[Index + 1]] = KeyOf[call.item]

AddRefused ==
    /\ call.op = "add" /\ Taken
    /\ call' = Idle /\ UNCHANGED <<nodes, root, count, saved>>

AddBelow ==
    /\ call.op = "add" /\ ~ Taken /\ HasChildren(nodes, call.node) /\ Here.kids[Index + 1] # Nil
    /\ call' = [call EXCEPT !.node = Here.kids[Index + 1]]
    /\ UNCHANGED <<nodes, root, count, saved>>

AddItemOnNodeWithNilChild ==
    /\ call.op = "add" /\ ~ Taken /\ HasChildren(nodes, call.node) /\ Here.kids[Index + 1] = Nil
    /\ Room
    /\ LET c  == NewID(nodes)
           t1 == SaveNode(Working, call.node, [Here EXCEPT !.kids[Index + 1] = c])
       IN  Becomes(SaveNode(t1, c, Node(call.node, <<call.item>>, <<>>)))
    /\ call' = Added /\ UNCHANGED <<root, count>>

\* addOnLeaf; the slots with the item in its place are the code's tempSlots.
OnLeaf == call.op = "add" /\ ~ Taken /\ ~ HasChildren(nodes, call.node)
TempSlots == InsertAt(Here.slots, Index + 1, call.item)

\* Mutant: a leaf takes one item more than its slots.
AddOnFullLeaf ==
    /\ OnLeaf /\ Len(Here.slots) <= SlotLength
    /\ Becomes(SaveNode(Working, call.node, [Here EXCEPT !.slots = TempSlots]))
    /\ call' = Added /\ UNCHANGED <<root, count>>
AddOnLeaf ==
    /\ OnLeaf /\ Len(Here.slots) < SlotLength
    /\ Becomes(SaveNode(Working, call.node, [Here EXCEPT !.slots = TempSlots]))
    /\ call' = Added /\ UNCHANGED <<root, count>>

\* The root leaf is full: it becomes the parent of two new leaves.
BreakRoot ==
    /\ OnLeaf /\ Len(Here.slots) = SlotLength /\ IsRootNode(nodes, call.node) /\ Room
    /\ LET l  == NewID(nodes)
           t1 == SaveNode(Working, l, Node(call.node, LowerSlots(TempSlots), <<>>))
           r  == NewID(t1.n)
           t2 == SaveNode(t1, r, Node(call.node, UpperSlots(TempSlots), <<>>))
       IN  Becomes(SaveNode(t2, call.node, Node(Nil, <<TempSlots[Half + 1]>>, <<l, r>>)))
    /\ call' = Added /\ UNCHANGED <<root, count>>

SplitLeaf ==
    /\ OnLeaf /\ Len(Here.slots) = SlotLength /\ ~ IsRootNode(nodes, call.node) /\ Room
    /\ LET p  == Here.parent
           r  == NewID(nodes)
           t1 == SaveNode(Working, call.node, Node(p, LowerSlots(TempSlots), <<>>))
       IN  /\ Becomes(SaveNode(t1, r, Node(p, UpperSlots(TempSlots), <<>>)))
           /\ call' = [op |-> "promote", node |-> p, index |-> GetIndexOfChild(nodes, call.node),
                       item |-> TempSlots[Half + 1], left |-> call.node, right |-> r]
    /\ UNCHANGED <<root, count>>

\* Node.promote at call.node: the separator and its children, put in their place.
Promoting == call.op = "promote"
WithItem == InsertAt(Here.slots, call.index + 1, call.item)
\* Mutant: the new sibling is put before the node it was split from.
WithKidsSwapped == InsertAt(ReplaceAt(Here.kids, call.index + 1, call.right), call.index + 2, call.left)
WithKids == InsertAt(ReplaceAt(Here.kids, call.index + 1, call.left), call.index + 2, call.right)

Promote ==
    /\ Promoting /\ Len(Here.slots) < SlotLength
    /\ Becomes(SaveNode(Working, call.node, Node(Here.parent, WithItem, WithKids)))
    /\ call' = Added /\ UNCHANGED <<root, count>>

PromoteBreakRoot ==
    /\ Promoting /\ Len(Here.slots) = SlotLength /\ IsRootNode(nodes, call.node) /\ Room
    /\ LET l  == NewID(nodes)
           t1 == SaveNode(Working, l, Node(call.node, LowerSlots(WithItem), LowerKids(WithKids)))
           r  == NewID(t1.n)
           t2 == SaveNode(t1, r, Node(call.node, UpperSlots(WithItem), UpperKids(WithKids)))
           t3 == UpdateChildrenParent(UpdateChildrenParent(t2, l), r)
       IN  Becomes(SaveNode(t3, call.node, Node(Nil, <<WithItem[Half + 1]>>, <<l, r>>)))
    /\ call' = Added /\ UNCHANGED <<root, count>>

PromoteSplit ==
    /\ Promoting /\ Len(Here.slots) = SlotLength /\ ~ IsRootNode(nodes, call.node) /\ Room
    /\ LET p  == Here.parent
           r  == NewID(nodes)
           t1 == SaveNode(Working, r, Node(p, UpperSlots(WithItem), UpperKids(WithKids)))
           t2 == SaveNode(t1, call.node, Node(p, LowerSlots(WithItem), LowerKids(WithKids)))
       IN  /\ Becomes(UpdateChildrenParent(UpdateChildrenParent(t2, r), call.node))
           /\ call' = [op |-> "promote", node |-> p, index |-> GetIndexOfChild(nodes, call.node),
                       item |-> WithItem[Half + 1], left |-> call.node, right |-> r]
    /\ UNCHANGED <<root, count>>

AddReturns ==
    /\ call = Added
    /\ count' = count + 1 /\ call' = Idle /\ saved' = {} /\ UNCHANGED <<nodes, root>>

-----------------------------------------------------------------------------
(* Removing. *)

Unlink(t, id) ==
    LET p    == t.n[id].parent
        kids == [t.n[p].kids EXCEPT ![GetIndexOfChild(t.n, id) + 1] = Nil]
    IN  IF IsRootNode(t.n, id) \/ ~ HasChildren(t.n, p) THEN t
        ELSE RemoveNode(SaveNode(t, p, [t.n[p] EXCEPT !.kids = IF IsNilChildren(kids) THEN <<>> ELSE kids]), id)

PromoteSingleChildAsParentChild(t, id) ==
    LET p  == t.n[id].parent
        c  == t.n[id].kids[1]
        t1 == SaveNode(t, p, [t.n[p] EXCEPT !.kids[GetIndexOfChild(t.n, id) + 1] = c])
    IN  RemoveNode(SaveNode(t1, c, [t1.n[c] EXCEPT !.parent = p]), id)

\* The root has lost its last item and takes over its only child's content.
CollapseRoot(t, id) ==
    LET c == t.n[id].kids[1]
    IN  UpdateChildrenParent(RemoveNode(SaveNode(t, id, Node(Nil, t.n[c].slots, t.n[c].kids)), c), id)

HasNilChildAt(n, id, index) ==
    HasChildren(n, id) /\ (n[id].kids[index + 1] = Nil \/ n[id].kids[index + 2] = Nil)

RemoveItemOnNodeWithNilChild(t, id, index) ==
    LET nd   == t.n[id]
        kids == IF nd.kids[index + 1] = Nil THEN RemoveAt(nd.kids, index + 1) ELSE RemoveAt(nd.kids, index + 2)
        node == Node(nd.parent, RemoveAt(nd.slots, index + 1), kids)
        t1   == [t EXCEPT !.n = With(t.n, id, node)]
    IN  CASE node.slots # <<>> -> SaveNode(t, id, node)
          [] node.slots = <<>> /\ kids[1] # Nil /\ IsRootNode(t.n, id) -> CollapseRoot(t1, id)
          [] node.slots = <<>> /\ kids[1] # Nil /\ ~ IsRootNode(t.n, id) -> PromoteSingleChildAsParentChild(t1, id)
          [] OTHER -> Unlink(t1, id)

\* On a leaf.
FixVacatedSlot(t, id, index) ==
    IF Count(t.n, id) > 1 \/ IsRootNode(t.n, id)
    THEN SaveNode(t, id, [t.n[id] EXCEPT !.slots = RemoveAt(@, index + 1)])
    ELSE Unlink(t, id)

RemoveSlot(t, id, index) ==
    IF HasNilChildAt(t.n, id, index) THEN RemoveItemOnNodeWithNilChild(t, id, index)
                                     ELSE FixVacatedSlot(t, id, index)

\* RemoveCurrentItem with the cursor at slot k of node id: on a leaf, and beside a pruned child.
RemoveCurrentItem(id, k) ==
    /\ call = Idle
    /\ HasChildren(nodes, id) => HasNilChildAt(nodes, id, k)
    /\ Becomes(RemoveSlot(Working, id, k))
    /\ call' = Removed /\ UNCHANGED <<root, count>>

\* Between two children, moveToNext goes down to the next item,
RemoveBetweenChildren(id, k) ==
    /\ call = Idle
    /\ HasChildren(nodes, id) /\ ~ HasNilChildAt(nodes, id, k)
    /\ call' = [op |-> "next", home |-> id, slot |-> k, node |-> nodes[id].kids[k + 2]]
    /\ UNCHANGED <<nodes, root, count, saved>>

NextBelow ==
    /\ call.op = "next" /\ HasChildren(nodes, call.node) /\ Here.kids[1] # Nil
    /\ call' = [call EXCEPT !.node = Here.kids[1]]
    /\ UNCHANGED <<nodes, root, count, saved>>

\* which replaces the removed one and is removed from where it was.
RemoveNext ==
    /\ call.op = "next" /\ (HasChildren(nodes, call.node) => Here.kids[1] = Nil)
    /\ LET home == [nodes[call.home] EXCEPT !.slots[call.slot + 1] = Here.slots[1]]
       IN  Becomes(RemoveSlot(SaveNode(Working, call.home, home), call.node, 0))
    /\ call' = Removed /\ UNCHANGED <<root, count>>

RemoveReturns ==
    /\ call = Removed
    /\ count' = count - 1 /\ call' = Idle /\ saved' = {} /\ UNCHANGED <<nodes, root>>

-----------------------------------------------------------------------------
(* A call that only moves the cursor changes no node (module BTreeCursor); one *)
(* that returns early is no step.                                             *)

Init == nodes = <<>> /\ root = Nil /\ count = 0 /\ call = Idle /\ saved = {}

Adding ==
    \/ \E i \in Items, unique \in {IsUnique, TRUE} : Add(i, unique)
    \/ AddRefused \/ AddBelow \/ AddItemOnNodeWithNilChild \/ AddOnLeaf \/ BreakRoot \/ SplitLeaf
    \/ Promote \/ PromoteBreakRoot \/ PromoteSplit \/ AddReturns

Removing ==
    \/ \E id \in DOMAIN nodes : \E k \in 0..Count(nodes, id) - 1 :
         RemoveCurrentItem(id, k) \/ RemoveBetweenChildren(id, k)
    \/ NextBelow \/ RemoveNext \/ RemoveReturns

Next == Adding \/ Removing

Spec == Init /\ [][Next]_vars

-----------------------------------------------------------------------------
(* Properties. *)

\* Nodes are well-typed and within their capacity, only the root may be empty, and a call is at
\* nodes that exist.
TypeOK ==
    /\ DOMAIN nodes \subseteq 1..MaxNodes
    /\ \A id \in DOMAIN nodes :
         /\ nodes[id] \in [parent : DOMAIN nodes \cup {Nil}, slots : Seq(Items), kids : Seq(DOMAIN nodes \cup {Nil})]
         /\ Len(nodes[id].slots) <= SlotLength
         /\ nodes[id].slots = <<>> => id = root
         /\ nodes[id].kids # <<>> => Len(nodes[id].kids) = Len(nodes[id].slots) + 1
    /\ root \in DOMAIN nodes \cup {Nil}
    /\ count \in Nat
    /\ call \in Calls
    /\ saved \subseteq 1..MaxNodes

\* Splits, promotions, root collapses and prunings keep child and parent pointers each other's
\* inverse and leave no node outside the tree, at every moment of a call: only the new sibling of
\* a split is still to be given its place.
LinksAgree ==
    /\ \A id \in DOMAIN nodes : \A k \in DOMAIN nodes[id].kids :
         nodes[id].kids[k] # Nil => nodes[nodes[id].kids[k]].parent = id
    /\ \A id \in DOMAIN nodes \ {root} :
         Cardinality({k \in DOMAIN nodes[nodes[id].parent].kids : nodes[nodes[id].parent].kids[k] = id})
           = IF call.op = "promote" /\ id = call.right THEN 0 ELSE 1

\* The slots of the tree, and the item on its way up.
Places == UNION {{[node |-> id, slot |-> k] : k \in DOMAIN nodes[id].slots} : id \in DOMAIN nodes}
ItemAt(p) == nodes[p.node].slots[p.slot]
Held == {ItemAt(p) : p \in Places} \cup (IF call.op = "promote" THEN {call.item} ELSE {})

\* No split, promotion, collapse or pruning loses an item or doubles it: each is in one place, and
\* StoreInfo.Count, but for the call under way, is their number.
ItemsKept ==
    /\ \A p, q \in Places : ItemAt(p) = ItemAt(q) => p = q
    /\ call.op = "promote" => \A p \in Places : ItemAt(p) # call.item
    /\ Cardinality(Held) = count + (CASE call.op \in {"promote", "added"} -> 1
                                      [] call.op = "removed" -> -1
                                      [] OTHER -> 0)

\* The node id and what is below it: what every set of nodes that holds id, and with a node its
\* children, has.
Downward == {S \in SUBSET DOMAIN nodes : \A c \in DOMAIN nodes \ {root} : nodes[c].parent \in S => c \in S}
Subtree(id, downward) == {c \in DOMAIN nodes : \A S \in downward : id \in S => c \in S}

\* A search may trust the separators, at every moment of a call: the slots of a node are in key
\* order, and whatever is below a child, at any depth, has a key between the slots beside it.
KeysInOrder ==
    LET downward == Downward
    IN  \A id \in DOMAIN nodes :
          LET s    == nodes[id].slots
              kids == nodes[id].kids
          IN  /\ \A j, k \in DOMAIN s : j < k => KeyOf[s[j]] <= KeyOf[s[k]]
              /\ \A k \in DOMAIN kids : kids[k] # Nil =>
                   \A c \in Subtree(kids[k], downward) : \A j \in DOMAIN nodes[c].slots :
                     /\ k > 1 => KeyOf[s[k - 1]] <= KeyOf[nodes[c].slots[j]]
                     /\ k <= Len(s) => KeyOf[nodes[c].slots[j]] <= KeyOf[s[k]]

\* The search down one path that ends an AddIfNotExist, or an Add to a unique tree, ends with a
\* refusal exactly if an item anywhere in the tree has the key: no key gets in twice.
PathEnds == Taken \/ ~ HasChildren(nodes, call.node) \/ Here.kids[Index + 1] = Nil
RefusesDuplicates ==
    call.op = "add" /\ call.unique /\ PathEnds =>
      (Taken <=> \E i \in Items : InTree(i) /\ KeyOf[i] = KeyOf[call.item])

\* Every node below the root that a call changes or drops it hands to the node repository (saveNode,
\* removeNode): a change that is not staged is not committed, and the tree on disk falls apart.
ChangesAreSaved ==
    [][\A id \in (DOMAIN nodes \cup DOMAIN nodes') \ {root'} :
         \/ id \in DOMAIN nodes \cap DOMAIN nodes' /\ nodes'[id] = nodes[id]
         \/ id \in saved']_vars
=============================================================================
