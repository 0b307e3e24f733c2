----------------------------- MODULE BTreeProofs -----------------------------
(* Theorems about BTree, for any items, keys, slot length and number of nodes. *)
EXTENDS BTree, SequenceTheorems, FiniteSetTheorems, TLAPS

-----------------------------------------------------------------------------
(* Sequences. Slots and children are treated alike: what matters are the      *)
(* elements of s that are in S (items; IDs other than Nil), and that none of  *)
(* them occurs twice.                                                         *)

Elems(s, S) == {x \in S : \E k \in DOMAIN s : s[k] = x}
Distinct(s, S) == \A j, k \in DOMAIN s : s[j] = s[k] /\ s[j] \in S => j = k

\* A full node's items split into two halves and the one between them.
LEMMA HalfIs == Half \in Nat /\ Half >= 1 /\ SlotLength = Half + Half
BY BTreeAssumption, SMT DEF Half

\* The empty sequence is the one of length 0.
LEMMA EmptyIs ==
  ASSUME NEW T, NEW s \in Seq(T)
  PROVE  /\ s = <<>> <=> Len(s) = 0
         /\ Len(s) \in Nat
         /\ DOMAIN s = 1..Len(s)
         /\ \A k \in 1..Len(s) : s[k] \in T
BY EmptySeq, LenProperties, ElementOfSeq

InsertGives(v, s, i, e, T) ==
    /\ v \in Seq(T)
    /\ Len(v) = Len(s) + 1
    /\ \A j \in 1..Len(s) + 1 : v[j] = IF j < i THEN s[j] ELSE IF j = i THEN e ELSE s[j - 1]

\* What InsertAt, on slots and on children, puts where.
LEMMA InsertAtIs ==
  ASSUME NEW T, NEW s \in Seq(T), NEW e \in T, NEW i \in 1..Len(s) + 1
  PROVE  InsertGives(InsertAt(s, i, e), s, i, e, T)
<1> DEFINE a == SubSeq(s, 1, i - 1)
           b == SubSeq(s, i, Len(s))
<1>0. Len(s) \in Nat /\ \A k \in 1..Len(s) : s[k] \in T
  BY LenProperties, ElementOfSeq
<1>1. /\ a \in Seq(T) /\ Len(a) = i - 1
      /\ \A k \in 1..i - 1 : a[k] = s[k]
  <2>1. \A k \in 1..i - 1 : s[k] \in T
    BY <1>0
  <2> QED
    BY <1>0, <2>1, SubSeqProperties
<1>2. /\ b \in Seq(T) /\ Len(b) = Len(s) - i + 1
      /\ \A k \in 1..Len(s) - i + 1 : b[k] = s[i + k - 1]
  <2>1. \A k \in i..Len(s) : s[k] \in T
    BY <1>0
  <2> QED
    BY <1>0, <2>1, SubSeqProperties
<1>3. <<e>> \in Seq(T) /\ Len(<<e>>) = 1 /\ <<e>>[1] = e
  OBVIOUS
<1>4. InsertAt(s, i, e) = (a \o <<e>>) \o b
  BY DEF InsertAt
<1> HIDE DEF a, b
<1>5. /\ a \o <<e>> \in Seq(T) /\ Len(a \o <<e>>) = i
      /\ \A k \in 1..i : (a \o <<e>>)[k] = IF k <= i - 1 THEN a[k] ELSE e
  BY <1>1, <1>3, <1>0, ConcatProperties
<1> DEFINE c == a \o <<e>>
<1> HIDE DEF c
<1>6. /\ c \o b \in Seq(T) /\ Len(c \o b) = Len(s) + 1
      /\ \A k \in 1..Len(s) + 1 : (c \o b)[k] = IF k <= i THEN c[k] ELSE b[k - i]
  <2>1. c \in Seq(T) /\ Len(c) = i
    BY <1>5 DEF c
  <2>2. /\ c \o b \in Seq(T) /\ Len(c \o b) = Len(c) + Len(b)
        /\ \A k \in 1..Len(c) + Len(b) : (c \o b)[k] = IF k <= Len(c) THEN c[k] ELSE b[k - Len(c)]
    BY <2>1, <1>2, ConcatProperties
  <2>3. Len(c) + Len(b) = Len(s) + 1
    BY <2>1, <1>2, <1>0
  <2> HIDE DEF c
  <2> QED
    BY <2>1, <2>2, <2>3
<1>7. \A k \in 1..i : c[k] = IF k <= i - 1 THEN a[k] ELSE e
  BY <1>5 DEF c
<1>8. ASSUME NEW j \in 1..Len(s) + 1
      PROVE  (c \o b)[j] = IF j < i THEN s[j] ELSE IF j = i THEN e ELSE s[j - 1]
  <2>1. CASE j < i
    BY <2>1, <1>0, <1>1, <1>6, <1>7
  <2>2. CASE j = i
    BY <2>2, <1>0, <1>6, <1>7
  <2>3. CASE j > i
    <3>1. j - i \in 1..Len(s) - i + 1 /\ i + (j - i) - 1 = j - 1
      BY <2>3, <1>0
    <3>2. b[j - i] = s[i + (j - i) - 1]
      BY <3>1, <1>2
    <3>3. (c \o b)[j] = b[j - i]
      BY <2>3, <1>0, <1>6
    <3> QED
      BY <2>3, <3>1, <3>2, <3>3
  <2>4. j < i \/ j = i \/ j > i
    BY <1>0
  <2> QED
    BY <2>1, <2>2, <2>3, <2>4, Zenon
<1> QED
  BY <1>4, <1>6, <1>8 DEF c, InsertGives

\* What RemoveAt leaves where.
LEMMA RemoveAtIs ==
  ASSUME NEW T, NEW s \in Seq(T), NEW i \in 1..Len(s)
  PROVE  /\ RemoveAt(s, i) \in Seq(T)
         /\ Len(RemoveAt(s, i)) = Len(s) - 1
         /\ \A j \in 1..Len(s) - 1 : RemoveAt(s, i)[j] = IF j < i THEN s[j] ELSE s[j + 1]
<1> DEFINE a == SubSeq(s, 1, i - 1)
           b == SubSeq(s, i + 1, Len(s))
<1>0. Len(s) \in Nat /\ \A k \in 1..Len(s) : s[k] \in T
  BY LenProperties, ElementOfSeq
<1>1. /\ a \in Seq(T) /\ Len(a) = i - 1
      /\ \A k \in 1..i - 1 : a[k] = s[k]
  <2>1. \A k \in 1..i - 1 : s[k] \in T
    BY <1>0
  <2> QED
    BY <1>0, <2>1, SubSeqProperties
<1>2. /\ b \in Seq(T) /\ Len(b) = Len(s) - i
      /\ \A k \in 1..Len(s) - i : b[k] = s[i + k]
  <2>1. \A k \in i + 1..Len(s) : s[k] \in T
    BY <1>0
  <2>2. \A k \in 1..Len(s) - i : i + 1 + k - 1 = i + k
    BY <1>0
  <2>3. Len(s) - (i + 1) + 1 = Len(s) - i
    BY <1>0
  <2>4. /\ b \in Seq(T) /\ Len(b) = IF i + 1 <= Len(s) THEN Len(s) - (i + 1) + 1 ELSE 0
        /\ \A k \in 1..Len(s) - (i + 1) + 1 : b[k] = s[i + 1 + k - 1]
    BY <1>0, <2>1, SubSeqProperties
  <2> HIDE DEF b
  <2>5. Len(b) = Len(s) - i
    <3>1. CASE i = Len(s)
      BY <3>1, <1>0, <2>4
    <3>2. CASE i + 1 <= Len(s)
      BY <3>2, <2>3, <2>4
    <3> QED
      BY <3>1, <3>2, <1>0
  <2> QED
    BY <2>2, <2>3, <2>4, <2>5
<1>4. RemoveAt(s, i) = a \o b
  BY DEF RemoveAt
<1> HIDE DEF a, b
<1>6. /\ a \o b \in Seq(T) /\ Len(a \o b) = Len(s) - 1
      /\ \A k \in 1..Len(s) - 1 : (a \o b)[k] = IF k <= i - 1 THEN a[k] ELSE b[k - (i - 1)]
  <2>2. /\ a \o b \in Seq(T) /\ Len(a \o b) = Len(a) + Len(b)
        /\ \A k \in 1..Len(a) + Len(b) : (a \o b)[k] = IF k <= Len(a) THEN a[k] ELSE b[k - Len(a)]
    BY <1>1, <1>2, ConcatProperties
  <2>3. Len(a) + Len(b) = Len(s) - 1
    BY <1>1, <1>2, <1>0
  <2> QED
    BY <1>1, <2>2, <2>3
<1>8. ASSUME NEW j \in 1..Len(s) - 1
      PROVE  (a \o b)[j] = IF j < i THEN s[j] ELSE s[j + 1]
  <2>1. CASE j < i
    BY <2>1, <1>0, <1>1, <1>6
  <2>3. CASE j >= i
    <3>1. j - (i - 1) \in 1..Len(s) - i /\ i + (j - (i - 1)) = j + 1
      BY <2>3, <1>0
    <3>2. b[j - (i - 1)] = s[i + (j - (i - 1))]
      BY <3>1, <1>2
    <3>3. (a \o b)[j] = b[j - (i - 1)]
      BY <2>3, <1>0, <1>6
    <3> QED
      BY <2>3, <3>1, <3>2, <3>3
  <2>4. j < i \/ j >= i
    BY <1>0
  <2> QED
    BY <2>1, <2>3, <2>4, Zenon
<1> QED
  BY <1>4, <1>6, <1>8

Insertable(s, i, e, T, S) ==
    s \in Seq(T) /\ e \in T /\ i \in 1..Len(s) + 1 /\ Distinct(s, S) /\ e \notin Elems(s, S)
Removable(s, i, T, S) == s \in Seq(T) /\ i \in 1..Len(s) /\ Distinct(s, S)
Replaceable(s, i, e, T, S) ==
    s \in Seq(T) /\ e \in T /\ i \in 1..Len(s) /\ Distinct(s, S) /\ e \notin Elems(s, S) \ {s[i]}

Inserted(s, i, e, T, S) ==
    /\ InsertAt(s, i, e) \in Seq(T) /\ Len(InsertAt(s, i, e)) = Len(s) + 1
    /\ Distinct(InsertAt(s, i, e), S)
    /\ Elems(InsertAt(s, i, e), S) = Elems(s, S) \cup ({e} \cap S)

\* Inserting an element that is not there adds it and doubles nothing.
LEMMA InsertElems ==
  ASSUME NEW T, NEW S, NEW s, NEW e, NEW i, Insertable(s, i, e, T, S)
  PROVE  Inserted(s, i, e, T, S)
<1> USE DEF Insertable
<1> DEFINE v == InsertAt(s, i, e)
<1>1. /\ v \in Seq(T) /\ Len(v) = Len(s) + 1
      /\ \A j \in 1..Len(s) + 1 : v[j] = IF j < i THEN s[j] ELSE IF j = i THEN e ELSE s[j - 1]
  <2>1. s \in Seq(T) /\ e \in T /\ i \in 1..Len(s) + 1
    OBVIOUS
  <2> HIDE DEF Insertable
  <2>2. InsertGives(InsertAt(s, i, e), s, i, e, T)
    BY <2>1, InsertAtIs
  <2> QED
    BY <2>2 DEF InsertGives
<1> HIDE DEF v
<1>2. /\ Len(s) \in Nat /\ DOMAIN s = 1..Len(s) /\ DOMAIN v = 1..Len(s) + 1
  BY <1>1, LenProperties
<1> DEFINE h(j) == IF j < i THEN j ELSE j - 1
<1>3. \A j \in DOMAIN v : j = i \/ (h(j) \in DOMAIN s /\ v[j] = s[h(j)])
  BY <1>1, <1>2
<1>4. v[i] = e /\ i \in DOMAIN v
  BY <1>1, <1>2
<1>5. \A k \in DOMAIN s : \E j \in DOMAIN v : v[j] = s[k]
  <2> SUFFICES ASSUME NEW k \in DOMAIN s PROVE \E j \in DOMAIN v : v[j] = s[k]
    OBVIOUS
  <2>1. CASE k < i
    BY <2>1, <1>1, <1>2
  <2>2. CASE k >= i
    <3>1. k + 1 \in DOMAIN v /\ v[k + 1] = s[k]
      BY <2>2, <1>1, <1>2
    <3> QED
      BY <3>1
  <2> QED
    BY <2>1, <2>2, <1>2
<1>6. Elems(v, S) = Elems(s, S) \cup ({e} \cap S)
  BY <1>3, <1>4, <1>5 DEF Elems
<1>7. ASSUME NEW j \in DOMAIN v, NEW k \in DOMAIN v, v[j] = v[k], v[j] \in S PROVE j = k
  <2>1. CASE j = i /\ k # i
    BY <2>1, <1>3, <1>4, <1>7 DEF Elems
  <2>2. CASE j # i /\ k = i
    BY <2>2, <1>3, <1>4, <1>7 DEF Elems
  <2>3. CASE j # i /\ k # i
    <3>1. h(j) = h(k)
      BY <2>3, <1>3, <1>7 DEF Distinct
    <3> QED
      BY <2>3, <3>1, <1>2
  <2> QED
    BY <2>1, <2>2, <2>3
<1> QED
  BY <1>1, <1>6, <1>7 DEF Inserted, v, Distinct

RemovedAt(s, i, T, S) ==
    /\ RemoveAt(s, i) \in Seq(T) /\ Len(RemoveAt(s, i)) = Len(s) - 1
    /\ Distinct(RemoveAt(s, i), S)
    /\ Elems(RemoveAt(s, i), S) = Elems(s, S) \ {s[i]}

\* Removing a place removes its element, if it has one.
LEMMA RemoveElems ==
  ASSUME NEW T, NEW S, NEW s, NEW i, Removable(s, i, T, S)
  PROVE  RemovedAt(s, i, T, S)
<1> USE DEF Removable
<1> DEFINE v == RemoveAt(s, i)
<1>1. /\ v \in Seq(T) /\ Len(v) = Len(s) - 1
      /\ \A j \in 1..Len(s) - 1 : v[j] = IF j < i THEN s[j] ELSE s[j + 1]
  BY RemoveAtIs
<1> HIDE DEF v
<1>2. /\ Len(s) \in Nat /\ DOMAIN s = 1..Len(s) /\ DOMAIN v = 1..Len(s) - 1
  BY <1>1, LenProperties
<1> DEFINE h(j) == IF j < i THEN j ELSE j + 1
<1>3. \A j \in DOMAIN v : h(j) \in DOMAIN s \ {i} /\ v[j] = s[h(j)]
  BY <1>1, <1>2
<1>5. \A k \in DOMAIN s \ {i} : \E j \in DOMAIN v : v[j] = s[k]
  <2> SUFFICES ASSUME NEW k \in DOMAIN s \ {i} PROVE \E j \in DOMAIN v : v[j] = s[k]
    OBVIOUS
  <2>1. CASE k < i
    BY <2>1, <1>1, <1>2
  <2>2. CASE k > i
    <3>1. k - 1 \in DOMAIN v /\ v[k - 1] = s[k]
      BY <2>2, <1>1, <1>2
    <3> QED
      BY <3>1
  <2> QED
    BY <2>1, <2>2, <1>2
<1>6. Elems(v, S) = Elems(s, S) \ {s[i]}
  <2>1. i \in DOMAIN s
    BY <1>2
  <2>2. ASSUME NEW x \in Elems(v, S) PROVE x \in Elems(s, S) \ {s[i]}
    BY <2>1, <2>2, <1>3 DEF Elems, Distinct
  <2>3. ASSUME NEW x \in Elems(s, S) \ {s[i]} PROVE x \in Elems(v, S)
    BY <2>1, <2>3, <1>5 DEF Elems
  <2> QED
    BY <2>2, <2>3
<1>7. ASSUME NEW j \in DOMAIN v, NEW k \in DOMAIN v, v[j] = v[k], v[j] \in S PROVE j = k
  <2>1. h(j) = h(k)
    BY <1>3, <1>7 DEF Distinct
  <2> QED
    BY <2>1, <1>2
<1> QED
  BY <1>1, <1>6, <1>7 DEF RemovedAt, v, Distinct

Replaced(s, i, e, T, S) ==
    /\ [s EXCEPT ![i] = e] \in Seq(T)
    /\ Len([s EXCEPT ![i] = e]) = Len(s)
    /\ \A j \in 1..Len(s) : [s EXCEPT ![i] = e][j] = IF j = i THEN e ELSE s[j]
    /\ Distinct([s EXCEPT ![i] = e], S)
    /\ Elems([s EXCEPT ![i] = e], S) = (Elems(s, S) \ {s[i]}) \cup ({e} \cap S)

\* Overwriting a place with an element that is not there replaces one by the other.
LEMMA ReplaceElems ==
  ASSUME NEW T, NEW S, NEW s, NEW e, NEW i, Replaceable(s, i, e, T, S)
  PROVE  Replaced(s, i, e, T, S)
<1> USE DEF Replaceable
<1> DEFINE v == [s EXCEPT ![i] = e]
<1>1. /\ v \in Seq(T) /\ Len(v) = Len(s)
      /\ \A j \in 1..Len(s) : v[j] = IF j = i THEN e ELSE s[j]
  BY ExceptSeq
<1> HIDE DEF v
<1>2. Len(s) \in Nat /\ DOMAIN s = 1..Len(s) /\ DOMAIN v = DOMAIN s /\ i \in DOMAIN s
  BY <1>1, LenProperties
<1>3. Elems(v, S) = (Elems(s, S) \ {s[i]}) \cup ({e} \cap S)
  <2>1. ASSUME NEW x \in Elems(v, S) PROVE x \in (Elems(s, S) \ {s[i]}) \cup ({e} \cap S)
    BY <2>1, <1>1, <1>2 DEF Elems, Distinct
  <2>2. ASSUME NEW x \in (Elems(s, S) \ {s[i]}) \cup ({e} \cap S) PROVE x \in Elems(v, S)
    BY <2>2, <1>1, <1>2 DEF Elems
  <2> QED
    BY <2>1, <2>2
<1>4. Distinct(v, S)
  BY <1>1, <1>2 DEF Elems, Distinct
<1> QED
  BY <1>1, <1>3, <1>4 DEF Replaced, v

\* Two stretches of a sequence have the elements of their places, and none in common.
LEMMA SubSeqElems ==
  ASSUME NEW T, NEW S, NEW s \in Seq(T), NEW a \in 1..Len(s) + 1, NEW b \in 0..Len(s),
         a <= b + 1, Distinct(s, S)
  PROVE  /\ SubSeq(s, a, b) \in Seq(T)
         /\ Len(SubSeq(s, a, b)) = b - a + 1
         /\ Distinct(SubSeq(s, a, b), S)
         /\ Elems(SubSeq(s, a, b), S) = {x \in S : \E k \in a..b : s[k] = x}
<1> DEFINE v == SubSeq(s, a, b)
<1>0. Len(s) \in Nat /\ DOMAIN s = 1..Len(s)
  BY LenProperties
<1>1. v \in Seq(T) /\ Len(v) = b - a + 1 /\ \A i \in 1..b - a + 1 : v[i] = s[a + i - 1]
  <2>1. \A i \in a..b : s[i] \in T
    BY <1>0, ElementOfSeq
  <2> QED
    BY <1>0, <2>1, SubSeqProperties
<1> HIDE DEF v
<1>2. DOMAIN v = 1..b - a + 1
  BY <1>1, LenProperties
<1>3. \A i \in DOMAIN v : a + i - 1 \in a..b /\ a + i - 1 \in DOMAIN s /\ v[i] = s[a + i - 1]
  BY <1>0, <1>1, <1>2
<1>4. \A k \in a..b : k - a + 1 \in DOMAIN v /\ a + (k - a + 1) - 1 = k
  BY <1>0, <1>2
<1>5. Distinct(v, S)
  <2> SUFFICES ASSUME NEW i \in DOMAIN v, NEW j \in DOMAIN v, v[i] = v[j], v[i] \in S
               PROVE  i = j
    BY DEF Distinct
  <2>1. a + i - 1 = a + j - 1
    BY <1>3 DEF Distinct
  <2> QED
    BY <2>1, <1>0, <1>2
<1>6. \A k \in a..b : s[k] = v[k - a + 1]
  BY <1>3, <1>4
<1>7. Elems(v, S) = {x \in S : \E k \in a..b : s[k] = x}
  BY <1>3, <1>4, <1>6 DEF Elems
<1> QED
  BY <1>1, <1>5, <1>7 DEF v

-----------------------------------------------------------------------------
(* The inductive invariant. A tree is given by the parents: a node's children *)
(* are the nodes whose parent it is, but for the new sibling pr of a split    *)
(* that is still to be given its place.                                       *)

IDs == 1..MaxNodes
Kids(n, id) == Elems(n[id].kids, IDs)
Its(n, id) == Elems(n[id].slots, Items)

NodeOK(nd) ==
    /\ nd \in [parent : IDs \cup {Nil}, slots : Seq(Items), kids : Seq(IDs \cup {Nil})]
    /\ Len(nd.slots) <= SlotLength
    /\ nd.kids # <<>> => Len(nd.kids) = Len(nd.slots) + 1
    /\ Distinct(nd.slots, Items) /\ Distinct(nd.kids, IDs)

Shape(n, rt) ==
    /\ DOMAIN n \subseteq IDs
    /\ \A id \in DOMAIN n : NodeOK(n[id]) /\ (n[id].slots = <<>> => id = rt)

Rooted(n, rt) == IF rt = Nil THEN DOMAIN n = {} ELSE rt \in DOMAIN n /\ n[rt].parent = Nil

Linked(n, rt, pr) ==
    /\ \A c \in DOMAIN n \ {rt} : n[c].parent \in DOMAIN n
    /\ \A id \in DOMAIN n : \A c \in IDs :
         c \in Kids(n, id) <=> c \in DOMAIN n /\ c # rt /\ c # pr /\ n[c].parent = id

Tree(n, rt, pr) == Shape(n, rt) /\ Rooted(n, rt) /\ Linked(n, rt, pr)

\* A node is deeper than its parent: no node is its own ancestor.
Ranked(n, rt, d) == \A c \in DOMAIN n \ {rt} : d[n[c].parent] < d[c]

\* No item is in two nodes; the items in the tree.
Apart(n) == \A a, b \in DOMAIN n : a # b => Its(n, a) \cap Its(n, b) = {}
All(n) == {x \in Items : \E id \in DOMAIN n : x \in Its(n, id)}

Sibling == IF call.op = "promote" THEN call.right ELSE Nil

CallOK ==
    \/ call \in {Idle, Added, Removed}
    \/ /\ call \in [op : {"add"}, item : Items, unique : BOOLEAN, node : DOMAIN nodes]
       /\ call.item \notin All(nodes)
    \/ /\ call \in [op : {"promote"}, node : DOMAIN nodes, index : 0..SlotLength, item : Items,
                    left : DOMAIN nodes, right : DOMAIN nodes]
       /\ call.right # root /\ nodes[call.right].parent = call.node
       /\ nodes[call.node].kids # <<>> /\ call.index <= Len(nodes[call.node].slots)
       /\ nodes[call.node].kids[call.index + 1] = call.left
       /\ call.item \notin All(nodes)
    \/ /\ call \in [op : {"next"}, home : DOMAIN nodes, slot : 0..SlotLength - 1, node : DOMAIN nodes]
       /\ call.slot < Len(nodes[call.home].slots) /\ call.node # root

\* The next item, on its way to which a call is, is below the one it replaces.
RankOK(d) == Ranked(nodes, root, d) /\ (call.op = "next" => d[call.home] < d[call.node])

Extra == IF call.op = "added" THEN 1 ELSE IF call.op = "removed" THEN -1 ELSE 0
Counting ==
    /\ count \in Nat
    /\ IsFiniteSet(All(nodes)) /\ Cardinality(All(nodes)) = count + Extra

TreeInv ==
    /\ root \in IDs \cup {Nil} /\ saved \subseteq IDs
    /\ Tree(nodes, root, Sibling)
    /\ \E d \in [IDs -> Nat] : RankOK(d)
    /\ Apart(nodes) /\ CallOK /\ Counting

-----------------------------------------------------------------------------
(* Nodes. *)

\* The place of a key among the slots.
LEMMA IndexIs ==
  ASSUME NEW s \in Seq(Items), NEW k
  PROVE  SearchNotBelow(s, k) \in 0..Len(s)
<1> DEFINE A == {i \in DOMAIN s : KeyOf[s[i]] < k}
<1>1. Len(s) \in Nat /\ DOMAIN s = 1..Len(s)
  BY LenProperties
<1>2. IsFiniteSet(1..Len(s)) /\ Cardinality(1..Len(s)) = Len(s)
  BY <1>1, FS_Interval
<1>3. A \subseteq 1..Len(s)
  BY <1>1
<1> HIDE DEF A
<1>4. IsFiniteSet(A) /\ Cardinality(A) <= Cardinality(1..Len(s))
  BY <1>2, <1>3, FS_Subset
<1>5. Cardinality(A) \in Nat
  BY <1>4, FS_CardinalityType
<1>6. Cardinality(A) \in 0..Len(s)
  BY <1>1, <1>2, <1>4, <1>5
<1> QED
  BY <1>6 DEF SearchNotBelow, A

\* The items of an overfull node are those of its halves and the one between them.
LEMMA HalvesOfSlots ==
  ASSUME NEW s \in Seq(Items), Len(s) = SlotLength + 1, Distinct(s, Items)
  PROVE  /\ LowerSlots(s) \in Seq(Items) /\ Len(LowerSlots(s)) = Half
         /\ UpperSlots(s) \in Seq(Items) /\ Len(UpperSlots(s)) = Half
         /\ Distinct(LowerSlots(s), Items) /\ Distinct(UpperSlots(s), Items)
         /\ s[Half + 1] \in Items
         /\ Elems(s, Items) = Elems(LowerSlots(s), Items) \cup Elems(UpperSlots(s), Items) \cup {s[Half + 1]}
         /\ Elems(LowerSlots(s), Items) \cap Elems(UpperSlots(s), Items) = {}
         /\ s[Half + 1] \notin Elems(LowerSlots(s), Items)
         /\ s[Half + 1] \notin Elems(UpperSlots(s), Items)
<1>0. Half \in Nat /\ Half >= 1 /\ SlotLength = Half + Half
  BY HalfIs
<1>1. Len(s) \in Nat /\ DOMAIN s = 1..Len(s) /\ \A k \in DOMAIN s : s[k] \in Items
  BY LenProperties, ElementOfSeq
<1>2. /\ 1 \in 1..Len(s) + 1 /\ Half \in 0..Len(s) /\ 1 <= Half + 1
      /\ Half + 2 \in 1..Len(s) + 1 /\ SlotLength + 1 \in 0..Len(s) /\ Half + 2 <= (SlotLength + 1) + 1
      /\ Half - 1 + 1 = Half /\ (SlotLength + 1) - (Half + 2) + 1 = Half
  BY <1>0, <1>1
<1>3. /\ LowerSlots(s) \in Seq(Items) /\ Len(LowerSlots(s)) = Half
      /\ Distinct(LowerSlots(s), Items)
      /\ Elems(LowerSlots(s), Items) = {x \in Items : \E k \in 1..Half : s[k] = x}
  BY <1>2, SubSeqElems, SMTT(60) DEF LowerSlots
<1>4. /\ UpperSlots(s) \in Seq(Items) /\ Len(UpperSlots(s)) = Half
      /\ Distinct(UpperSlots(s), Items)
      /\ Elems(UpperSlots(s), Items) = {x \in Items : \E k \in Half + 2..SlotLength + 1 : s[k] = x}
  <2>1. /\ SubSeq(s, Half + 2, SlotLength + 1) \in Seq(Items) /\ Len(SubSeq(s, Half + 2, SlotLength + 1)) = (SlotLength + 1) - (Half + 2) + 1
        /\ Distinct(SubSeq(s, Half + 2, SlotLength + 1), Items)
        /\ Elems(SubSeq(s, Half + 2, SlotLength + 1), Items) = {x \in Items : \E k \in Half + 2..SlotLength + 1 : s[k] = x}
    BY <1>2, SubSeqElems, SMTT(60)
  <2> QED
    BY <2>1, <1>2 DEF UpperSlots
<1>5. /\ DOMAIN s = (1..Half) \cup (Half + 2..SlotLength + 1) \cup {Half + 1}
      /\ \A j \in 1..Half, k \in Half + 2..SlotLength + 1 : j # k /\ j # Half + 1 /\ k # Half + 1
  BY <1>0, <1>1
<1>6. s[Half + 1] \in Items
  BY <1>1, <1>5
<1> DEFINE L == 1..Half
           U == Half + 2..SlotLength + 1
           m == Half + 1
<1> HIDE DEF L, U, m
<1>7. /\ DOMAIN s = L \cup U \cup {m} /\ (\A j \in L, k \in U : j # k) /\ m \notin L /\ m \notin U
      /\ Elems(LowerSlots(s), Items) = {x \in Items : \E k \in L : s[k] = x}
      /\ Elems(UpperSlots(s), Items) = {x \in Items : \E k \in U : s[k] = x}
      /\ s[m] \in Items
  BY <1>3, <1>4, <1>5, <1>6 DEF L, U, m
<1>8. /\ Elems(s, Items) = Elems(LowerSlots(s), Items) \cup Elems(UpperSlots(s), Items) \cup {s[m]}
      /\ Elems(LowerSlots(s), Items) \cap Elems(UpperSlots(s), Items) = {}
      /\ s[m] \notin Elems(LowerSlots(s), Items)
      /\ s[m] \notin Elems(UpperSlots(s), Items)
  <2>1. Elems(s, Items) = Elems(LowerSlots(s), Items) \cup Elems(UpperSlots(s), Items) \cup {s[m]}
    BY <1>7 DEF Elems
  <2>2. Elems(LowerSlots(s), Items) \cap Elems(UpperSlots(s), Items) = {}
    BY <1>7 DEF Distinct
  <2>3. s[m] \notin Elems(LowerSlots(s), Items) /\ s[m] \notin Elems(UpperSlots(s), Items)
    <3>1. m \in DOMAIN s /\ L \subseteq DOMAIN s /\ U \subseteq DOMAIN s
      BY <1>7
    <3>2. \A k \in L \cup U : s[k] # s[m]
      BY <1>7, <3>1 DEF Distinct
    <3> QED
      BY <1>7, <3>2
  <2> QED
    BY <2>1, <2>2, <2>3
<1> QED
  BY <1>3, <1>4, <1>6, <1>8 DEF m

\* The children of an overfull node are those of its halves.
LEMMA HalvesOfKids ==
  ASSUME NEW s \in Seq(IDs \cup {Nil}), Len(s) = SlotLength + 2, Distinct(s, IDs)
  PROVE  /\ LowerKids(s) \in Seq(IDs \cup {Nil}) /\ Len(LowerKids(s)) = Half + 1
         /\ UpperKids(s) \in Seq(IDs \cup {Nil}) /\ Len(UpperKids(s)) = Half + 1
         /\ Distinct(LowerKids(s), IDs) /\ Distinct(UpperKids(s), IDs)
         /\ Elems(s, IDs) = Elems(LowerKids(s), IDs) \cup Elems(UpperKids(s), IDs)
         /\ Elems(LowerKids(s), IDs) \cap Elems(UpperKids(s), IDs) = {}
<1>0. Half \in Nat /\ Half >= 1 /\ SlotLength = Half + Half
  BY HalfIs
<1> DEFINE T == IDs \cup {Nil}
<1>1. s \in Seq(T) /\ Len(s) \in Nat /\ DOMAIN s = 1..Len(s)
  BY LenProperties
<1> HIDE DEF T
<1>2. /\ 1 \in 1..Len(s) + 1 /\ Half + 1 \in 0..Len(s) /\ 1 <= (Half + 1) + 1
      /\ Half + 2 \in 1..Len(s) + 1 /\ SlotLength + 2 \in 0..Len(s) /\ Half + 2 <= (SlotLength + 2) + 1
      /\ (Half + 1) - 1 + 1 = Half + 1 /\ (SlotLength + 2) - (Half + 2) + 1 = Half + 1
  BY <1>0, <1>1
<1>3. /\ LowerKids(s) \in Seq(IDs \cup {Nil}) /\ Len(LowerKids(s)) = Half + 1
      /\ Distinct(LowerKids(s), IDs)
      /\ Elems(LowerKids(s), IDs) = {x \in IDs : \E k \in 1..Half + 1 : s[k] = x}
  <2> DEFINE b == Half + 1
  <2>1. b \in 0..Len(s) /\ 1 <= b + 1 /\ b - 1 + 1 = b /\ 1 \in 1..Len(s) + 1
    BY <1>2
  <2> HIDE DEF b
  <2>2. /\ SubSeq(s, 1, b) \in Seq(T)
        /\ Len(SubSeq(s, 1, b)) = b - 1 + 1
        /\ Distinct(SubSeq(s, 1, b), IDs)
        /\ Elems(SubSeq(s, 1, b), IDs) = {x \in IDs : \E k \in 1..b : s[k] = x}
    BY <1>1, <2>1, SubSeqElems, SMTT(60)
  <2> QED
    BY <2>1, <2>2 DEF LowerKids, T, b
<1>4. /\ UpperKids(s) \in Seq(IDs \cup {Nil}) /\ Len(UpperKids(s)) = Half + 1
      /\ Distinct(UpperKids(s), IDs)
      /\ Elems(UpperKids(s), IDs) = {x \in IDs : \E k \in Half + 2..SlotLength + 2 : s[k] = x}
  <2> DEFINE a == Half + 2
             b == SlotLength + 2
  <2>1. /\ a \in 1..Len(s) + 1 /\ b \in 0..Len(s) /\ a <= b + 1 /\ b - a + 1 = Half + 1
    BY <1>2
  <2> HIDE DEF a, b
  <2>2. /\ SubSeq(s, a, b) \in Seq(T)
        /\ Len(SubSeq(s, a, b)) = b - a + 1
        /\ Distinct(SubSeq(s, a, b), IDs)
        /\ Elems(SubSeq(s, a, b), IDs) = {x \in IDs : \E k \in a..b : s[k] = x}
    BY <1>1, <2>1, SubSeqElems, SMTT(60)
  <2> QED
    BY <2>1, <2>2 DEF UpperKids, T, a, b
<1>5. /\ DOMAIN s = (1..Half + 1) \cup (Half + 2..SlotLength + 2)
      /\ \A j \in 1..Half + 1, k \in Half + 2..SlotLength + 2 : j # k
  BY <1>0, <1>1
<1> DEFINE L == 1..Half + 1
           U == Half + 2..SlotLength + 2
<1> HIDE DEF L, U
<1>7. /\ DOMAIN s = L \cup U /\ \A j \in L, k \in U : j # k
      /\ Elems(LowerKids(s), IDs) = {x \in IDs : \E k \in L : s[k] = x}
      /\ Elems(UpperKids(s), IDs) = {x \in IDs : \E k \in U : s[k] = x}
  BY <1>3, <1>4, <1>5 DEF L, U
<1>8. /\ Elems(s, IDs) = Elems(LowerKids(s), IDs) \cup Elems(UpperKids(s), IDs)
      /\ Elems(LowerKids(s), IDs) \cap Elems(UpperKids(s), IDs) = {}
  BY <1>7 DEF Elems, Distinct
<1> QED
  BY <1>3, <1>4, <1>8

\* Nil is no ID, and an ID is new when the tree has room.
LEMMA IDsAre == Nil \notin IDs /\ IDs # {} /\ Nil = 0 /\ IDs \subseteq Nat
BY BTreeAssumption DEF IDs, Nil

\* NewID returns an ID no node has.
LEMMA NewIDIs ==
  ASSUME NEW n, NEW a \in IDs, a \notin DOMAIN n
  PROVE  NewID(n) \in IDs \ DOMAIN n
BY DEF NewID, IDs

\* With Room, the two IDs a split draws are new and differ.
LEMMA RoomFor ==
  ASSUME Room
  PROVE  /\ NewID(nodes) \in IDs \ DOMAIN nodes
         /\ \A a \in IDs : \A x : NewID(With(nodes, a, x)) \in IDs \ (DOMAIN nodes \cup {a})
<1>0. IDs # {}
  BY IDsAre
<1>1. \A a \in IDs : \E b \in IDs : b # a /\ b \notin DOMAIN nodes
  BY DEF Room, IDs
<1>2. NewID(nodes) \in IDs \ DOMAIN nodes
  BY <1>0, <1>1, NewIDIs
<1>3. ASSUME NEW a \in IDs, NEW x
      PROVE  NewID(With(nodes, a, x)) \in IDs \ (DOMAIN nodes \cup {a})
  <2>1. DOMAIN With(nodes, a, x) = DOMAIN nodes \cup {a}
    BY DEF With
  <2>2. PICK b \in IDs : b # a /\ b \notin DOMAIN nodes
    BY <1>1
  <2> QED
    BY <2>1, <2>2, NewIDIs
<1> QED
  BY <1>2, <1>3

\* What the parts of a node are.
LEMMA NodeFacts ==
  ASSUME NEW n, NEW rt, NEW pr, Tree(n, rt, pr), NEW id \in DOMAIN n
  PROVE  /\ id \in IDs /\ NodeOK(n[id])
         /\ n[id] = Node(n[id].parent, n[id].slots, n[id].kids)
         /\ n[id].parent \in IDs \cup {Nil}
         /\ n[id].slots \in Seq(Items) /\ Len(n[id].slots) \in Nat /\ Len(n[id].slots) <= SlotLength
         /\ DOMAIN n[id].slots = 1..Len(n[id].slots)
         /\ \A k \in 1..Len(n[id].slots) : n[id].slots[k] \in Items
         /\ n[id].kids \in Seq(IDs \cup {Nil}) /\ DOMAIN n[id].kids = 1..Len(n[id].kids)
         /\ n[id].kids # <<>> => Len(n[id].kids) = Len(n[id].slots) + 1
         /\ n[id].kids = <<>> => Len(n[id].kids) = 0
         /\ \A k \in 1..Len(n[id].kids) : n[id].kids[k] \in IDs \cup {Nil}
         /\ Distinct(n[id].slots, Items) /\ Distinct(n[id].kids, IDs)
         /\ IsRootNode(n, id) <=> id = rt
         /\ id # rt => n[id].slots # <<>> /\ Len(n[id].slots) >= 1
<1>1. id \in IDs /\ NodeOK(n[id])
  BY DEF Tree, Shape
<1>2. /\ n[id] = Node(n[id].parent, n[id].slots, n[id].kids)
      /\ n[id].parent \in IDs \cup {Nil} /\ n[id].slots \in Seq(Items) /\ n[id].kids \in Seq(IDs \cup {Nil})
      /\ Len(n[id].slots) <= SlotLength
      /\ n[id].kids # <<>> => Len(n[id].kids) = Len(n[id].slots) + 1
      /\ Distinct(n[id].slots, Items) /\ Distinct(n[id].kids, IDs)
  BY <1>1 DEF NodeOK, Node
<1>3. /\ Len(n[id].slots) \in Nat /\ DOMAIN n[id].slots = 1..Len(n[id].slots)
      /\ \A k \in 1..Len(n[id].slots) : n[id].slots[k] \in Items
      /\ n[id].slots = <<>> <=> Len(n[id].slots) = 0
  BY <1>2, EmptyIs
<1>4. /\ DOMAIN n[id].kids = 1..Len(n[id].kids)
      /\ n[id].kids = <<>> => Len(n[id].kids) = 0
      /\ \A k \in 1..Len(n[id].kids) : n[id].kids[k] \in IDs \cup {Nil}
  BY <1>2, EmptyIs
<1>5. IsRootNode(n, id) <=> id = rt
  <2>1. Nil \notin IDs
    BY IDsAre
  <2>2. rt # Nil /\ n[rt].parent = Nil
    BY DEF Tree, Rooted
  <2>3. id # rt => n[id].parent \in IDs
    BY DEF Tree, Linked, Shape
  <2> QED
    BY <2>1, <2>2, <2>3 DEF IsRootNode
<1>6. id # rt => n[id].slots # <<>> /\ Len(n[id].slots) >= 1
  <2>1. id # rt => n[id].slots # <<>>
    BY DEF Tree, Shape
  <2> QED
    BY <2>1, <1>3
<1> QED
  BY <1>1, <1>2, <1>3, <1>4, <1>5, <1>6, Zenon

\* The place of a node among its parent's children.
LEMMA GetIndexIs ==
  ASSUME NEW n, NEW rt, NEW pr, Tree(n, rt, pr), NEW id \in DOMAIN n, id # rt, id # pr,
         NEW p, p = n[id].parent
  PROVE  /\ p \in DOMAIN n /\ n[p].kids # <<>> /\ id \in Kids(n, p)
         /\ GetIndexOfChild(n, id) \in 0..Len(n[p].slots)
         /\ GetIndexOfChild(n, id) + 1 \in 1..Len(n[p].kids)
         /\ n[p].kids[GetIndexOfChild(n, id) + 1] = id
<1>1. p \in DOMAIN n /\ id \in IDs /\ id \in Kids(n, p)
  BY DEF Tree, Linked, Shape
<1>2. PICK i \in DOMAIN n[p].kids : n[p].kids[i] = id
  BY <1>1 DEF Kids, Elems
<1>3. /\ DOMAIN n[p].kids = 1..Len(n[p].kids) /\ Len(n[p].slots) \in Nat
      /\ n[p].kids # <<>> => Len(n[p].kids) = Len(n[p].slots) + 1
      /\ n[p].kids = <<>> => Len(n[p].kids) = 0
  BY <1>1, NodeFacts
<1>4. n[p].kids # <<>> /\ Len(n[p].kids) = Len(n[p].slots) + 1
  BY <1>2, <1>3
<1> DEFINE j == CHOOSE k \in DOMAIN n[p].kids : n[p].kids[k] = id
<1>5. j \in DOMAIN n[p].kids /\ n[p].kids[j] = id
  BY <1>2
<1> HIDE DEF j
<1>6. j \in Int /\ GetIndexOfChild(n, id) = j - 1
  BY <1>3, <1>5 DEF GetIndexOfChild, j
<1>7. j - 1 + 1 = j /\ j - 1 \in 0..Len(n[p].slots)
  BY <1>3, <1>4, <1>5
<1> QED
  BY <1>1, <1>3, <1>4, <1>5, <1>6, <1>7

-----------------------------------------------------------------------------
(* What the surgeries of a call do to a tree. Each lemma describes the new    *)
(* nodes n2 by the nodes it replaces; the others are as in n.                 *)

Sound(n, rt, pr) ==
    Tree(n, rt, pr) /\ Apart(n) /\ \E d \in [IDs -> Nat] : Ranked(n, rt, d)

\* What one node contributes: it is well-formed, its parent is p, its children K, its items I.
Part(nd, p, K, I) ==
    NodeOK(nd) /\ nd.parent = p /\ Elems(nd.kids, IDs) = K /\ Elems(nd.slots, Items) = I

\* Every node of a tree is such a part.
LEMMA PartOf ==
  ASSUME NEW n, NEW rt, NEW pr, Tree(n, rt, pr)
  PROVE  \A id \in DOMAIN n : Part(n[id], n[id].parent, Kids(n, id), Its(n, id))
BY DEF Tree, Shape, Part, Kids, Its

\* A node made of well-formed parts is one.
LEMMA PartNode ==
  ASSUME NEW p \in IDs \cup {Nil}, NEW s \in Seq(Items), NEW k \in Seq(IDs \cup {Nil}),
         Len(s) <= SlotLength, k # <<>> => Len(k) = Len(s) + 1,
         Distinct(s, Items), Distinct(k, IDs)
  PROVE  Part(Node(p, s, k), p, Elems(k, IDs), Elems(s, Items))
<1>1. /\ NodeOK(Node(p, s, k))
      /\ Node(p, s, k).parent = p /\ Node(p, s, k).slots = s /\ Node(p, s, k).kids = k
  BY DEF NodeOK, Node
<1> QED
  BY <1>1 DEF Part

\* The elements of short sequences.
LEMMA NoElems == \A S : Elems(<<>>, S) = {} /\ Distinct(<<>>, S)
BY DEF Elems, Distinct

\* One element.
LEMMA OneElem == \A S : \A x \in S : Elems(<<x>>, S) = {x} /\ Distinct(<<x>>, S)
<1> SUFFICES ASSUME NEW S, NEW x \in S PROVE Elems(<<x>>, S) = {x} /\ Distinct(<<x>>, S)
  OBVIOUS
<1>1. DOMAIN <<x>> = {1} /\ <<x>>[1] = x
  OBVIOUS
<1> DEFINE s == <<x>>
<1>2. DOMAIN s = {1} /\ s[1] = x
  BY <1>1
<1> HIDE DEF s
<1>3. Elems(s, S) = {x} /\ Distinct(s, S)
  BY <1>2 DEF Elems, Distinct
<1> QED
  BY <1>3 DEF s

\* Two elements.
LEMMA TwoElems ==
  \A S : \A x, y \in S : x # y => Elems(<<x, y>>, S) = {x, y} /\ Distinct(<<x, y>>, S)
<1> SUFFICES ASSUME NEW S, NEW x \in S, NEW y \in S, x # y
             PROVE  Elems(<<x, y>>, S) = {x, y} /\ Distinct(<<x, y>>, S)
  OBVIOUS
<1>1. DOMAIN <<x, y>> = {1, 2} /\ <<x, y>>[1] = x /\ <<x, y>>[2] = y
  OBVIOUS
<1> DEFINE s == <<x, y>>
<1>2. DOMAIN s = {1, 2} /\ s[1] = x /\ s[2] = y
  BY <1>1
<1> HIDE DEF s
<1>3. Elems(s, S) = {x, y} /\ Distinct(s, S)
  BY <1>2 DEF Elems, Distinct
<1> QED
  BY <1>3 DEF s

\* A new leaf c with item x takes the place of a pruned child of node id.
FillNil(n, rt, id, c, x, n2) ==
    /\ Sound(n, rt, Nil)
    /\ id \in DOMAIN n
    /\ c \in IDs \ DOMAIN n
    /\ x \in Items
    /\ x \notin All(n)
    /\ DOMAIN n2 = DOMAIN n \cup {c}
    /\ Part(n2[id], n[id].parent, Kids(n, id) \cup {c}, Its(n, id))
    /\ (n2[id].slots = <<>> => id = rt)
    /\ Part(n2[c], id, {}, {x})
    /\ n2[c].slots # <<>>
    /\ \A j \in DOMAIN n \ {id} : n2[j] = n[j]

\* A new leaf takes the place of a pruned child.
LEMMA FillsNil ==
  ASSUME NEW n, NEW rt, NEW id, NEW c, NEW x, NEW n2,
         FillNil(n, rt, id, c, x, n2)
  PROVE  Sound(n2, rt, Nil) /\ All(n2) = All(n) \cup {x}
<1> USE DEF FillNil
<1>0. Tree(n, rt, Nil) /\ Apart(n)
  BY DEF Sound
<1>1. PICK d \in [IDs -> Nat] : Ranked(n, rt, d)
  BY DEF Sound
<1>2. /\ \A j \in DOMAIN n : NodeOK(n2[j]) /\ n2[j].parent = n[j].parent /\ Its(n2, j) = Its(n, j)
      /\ \A j \in DOMAIN n \ {id} : Kids(n2, j) = Kids(n, j)
      /\ Kids(n2, id) = Kids(n, id) \cup {c}
      /\ NodeOK(n2[c]) /\ n2[c].parent = id /\ Kids(n2, c) = {} /\ Its(n2, c) = {x}
  BY <1>0, PartOf DEF Part, Kids, Its
<1>3. DOMAIN n \subseteq IDs /\ c \notin DOMAIN n /\ c # id /\ c # Nil /\ rt # Nil /\ c # rt
  BY <1>0, IDsAre DEF Tree, Shape, Rooted
<1>4. Shape(n2, rt)
  BY <1>0, <1>2, <1>3 DEF Tree, Shape
<1>5. Rooted(n2, rt)
  BY <1>0, <1>2, <1>3 DEF Tree, Rooted
<1>6. Linked(n2, rt, Nil)
  BY <1>0, <1>2, <1>3 DEF Tree, Linked
<1>7. Apart(n2) /\ All(n2) = All(n) \cup {x}
  BY <1>0, <1>2, <1>3 DEF Apart, All
<1>8. Ranked(n2, rt, [d EXCEPT ![c] = d[id] + 1])
  BY <1>0, <1>1, <1>2, <1>3 DEF Ranked, Tree, Linked
<1>9. [d EXCEPT ![c] = d[id] + 1] \in [IDs -> Nat]
  BY <1>1, <1>3
<1> QED
  BY <1>4, <1>5, <1>6, <1>7, <1>8, <1>9 DEF Sound, Tree

\* Node id gets other slots, with items I, and keeps its children.
Swap(n, rt, pr, id, n2, I) ==
    /\ Tree(n, rt, pr)
    /\ id \in DOMAIN n
    /\ DOMAIN n2 = DOMAIN n
    /\ Part(n2[id], n[id].parent, Kids(n, id), I)
    /\ (n2[id].slots = <<>> => id = rt)
    /\ \A j \in DOMAIN n \ {id} : n2[j] = n[j]

\* One node gets other slots, or pruned children fewer: the links are the same.
LEMMA KeepsLinks ==
  ASSUME NEW n, NEW rt, NEW pr, NEW id, NEW n2, NEW I,
         Swap(n, rt, pr, id, n2, I)
  PROVE  /\ Tree(n2, rt, pr) /\ \A d : Ranked(n, rt, d) => Ranked(n2, rt, d)
         /\ Its(n2, id) = I /\ \A j \in DOMAIN n \ {id} : Its(n2, j) = Its(n, j)
<1> USE DEF Swap
<1>2. /\ \A j \in DOMAIN n : NodeOK(n2[j]) /\ n2[j].parent = n[j].parent /\ Kids(n2, j) = Kids(n, j)
      /\ Its(n2, id) = I /\ \A j \in DOMAIN n \ {id} : Its(n2, j) = Its(n, j)
  BY PartOf DEF Part, Kids, Its
<1>4. Shape(n2, rt)
  BY <1>2 DEF Tree, Shape
<1>5. Rooted(n2, rt)
  BY <1>2 DEF Tree, Rooted
<1>6. Linked(n2, rt, pr)
  BY <1>2 DEF Tree, Linked
<1>8. \A d : Ranked(n, rt, d) => Ranked(n2, rt, d)
  BY <1>2 DEF Ranked
<1> QED
  BY <1>2, <1>4, <1>5, <1>6, <1>8 DEF Tree

\* Node id takes item x.
TakeItem(n, rt, id, n2, x) ==
    /\ Sound(n, rt, Nil)
    /\ id \in DOMAIN n
    /\ x \in Items
    /\ x \notin All(n)
    /\ DOMAIN n2 = DOMAIN n
    /\ Part(n2[id], n[id].parent, Kids(n, id), Its(n, id) \cup {x})
    /\ n2[id].slots # <<>>
    /\ \A j \in DOMAIN n \ {id} : n2[j] = n[j]

\* A leaf takes an item.
LEMMA TakesItem ==
  ASSUME NEW n, NEW rt, NEW id, NEW n2, NEW x,
         TakeItem(n, rt, id, n2, x)
  PROVE  Sound(n2, rt, Nil) /\ All(n2) = All(n) \cup {x}
<1> USE DEF TakeItem
<1>0. Tree(n, rt, Nil) /\ Apart(n)
  BY DEF Sound
<1> DEFINE I == Its(n, id) \cup {x}
<1>a. Swap(n, rt, Nil, id, n2, I)
  BY <1>0 DEF Swap
<1> HIDE DEF I
<1>b. /\ Tree(n2, rt, Nil) /\ \A d : Ranked(n, rt, d) => Ranked(n2, rt, d)
      /\ Its(n2, id) = I /\ \A j \in DOMAIN n \ {id} : Its(n2, j) = Its(n, j)
  BY <1>a, KeepsLinks
<1>1. /\ Tree(n2, rt, Nil) /\ \A d : Ranked(n, rt, d) => Ranked(n2, rt, d)
      /\ Its(n2, id) = Its(n, id) \cup {x} /\ \A j \in DOMAIN n \ {id} : Its(n2, j) = Its(n, j)
  BY <1>b DEF I
<1>2. \E d \in [IDs -> Nat] : Ranked(n2, rt, d)
  BY <1>1 DEF Sound
<1>3. Apart(n2) /\ All(n2) = All(n) \cup {x}
  BY <1>0, <1>1 DEF Apart, All
<1> QED
  BY <1>1, <1>2, <1>3 DEF Sound

\* Node id takes the separator x and its new child pr.
TakeSibling(n, rt, pr, id, n2, x) ==
    /\ pr \in DOMAIN n
    /\ Sound(n, rt, pr)
    /\ pr # rt
    /\ id \in DOMAIN n
    /\ n[pr].parent = id
    /\ x \in Items
    /\ x \notin All(n)
    /\ DOMAIN n2 = DOMAIN n
    /\ Part(n2[id], n[id].parent, Kids(n, id) \cup {pr}, Its(n, id) \cup {x})
    /\ n2[id].slots # <<>>
    /\ \A j \in DOMAIN n \ {id} : n2[j] = n[j]

\* A node gives the new sibling of one of its children its place.
LEMMA TakesSibling ==
  ASSUME NEW n, NEW rt, NEW pr, NEW id, NEW n2, NEW x,
         TakeSibling(n, rt, pr, id, n2, x)
  PROVE  Sound(n2, rt, Nil) /\ All(n2) = All(n) \cup {x}
<1> USE DEF TakeSibling
<1>0. Tree(n, rt, pr) /\ Apart(n)
  BY DEF Sound
<1>1. PICK d \in [IDs -> Nat] : Ranked(n, rt, d)
  BY DEF Sound
<1>2. /\ \A j \in DOMAIN n : NodeOK(n2[j]) /\ n2[j].parent = n[j].parent
      /\ \A j \in DOMAIN n \ {id} : Kids(n2, j) = Kids(n, j) /\ Its(n2, j) = Its(n, j)
      /\ Kids(n2, id) = Kids(n, id) \cup {pr} /\ Its(n2, id) = Its(n, id) \cup {x}
  BY <1>0, PartOf DEF Part, Kids, Its
<1>3. DOMAIN n \subseteq IDs /\ Nil \notin DOMAIN n
  BY <1>0, IDsAre DEF Tree, Shape
<1>4. Shape(n2, rt)
  BY <1>0, <1>2 DEF Tree, Shape
<1>5. Rooted(n2, rt)
  BY <1>0, <1>2 DEF Tree, Rooted
<1>6. Linked(n2, rt, Nil)
  BY <1>0, <1>2, <1>3 DEF Tree, Linked
<1>7. Apart(n2) /\ All(n2) = All(n) \cup {x}
  BY <1>0, <1>2 DEF Apart, All
<1>8. Ranked(n2, rt, d)
  BY <1>1, <1>2 DEF Ranked
<1> QED
  BY <1>4, <1>5, <1>6, <1>7, <1>8 DEF Sound, Tree

\* The root breaks into l and r, with m between them.
Break(n, rt, pr, l, r, n2, KL, KU, IL, IU, m, x) ==
    /\ rt \in DOMAIN n
    /\ Sound(n, rt, pr)
    /\ (pr = Nil \/ (pr \in DOMAIN n /\ pr # rt /\ n[pr].parent = rt))
    /\ l \in IDs \ DOMAIN n
    /\ r \in IDs \ DOMAIN n
    /\ l # r
    /\ m \in Items
    /\ x \in Items
    /\ x \notin All(n)
    /\ KL \cup KU = Kids(n, rt) \cup ({pr} \ {Nil})
    /\ KL \cap KU = {}
    /\ IL \cup IU \cup {m} = Its(n, rt) \cup {x}
    /\ IL \cap IU = {}
    /\ m \notin IL
    /\ m \notin IU
    /\ DOMAIN n2 = DOMAIN n \cup {l, r}
    /\ Part(n2[rt], Nil, {l, r}, {m})
    /\ n2[rt].slots # <<>>
    /\ Part(n2[l], rt, KL, IL)
    /\ n2[l].slots # <<>>
    /\ Part(n2[r], rt, KU, IU)
    /\ n2[r].slots # <<>>
    /\ \A j \in DOMAIN n \ {rt} :
         /\ Part(n2[j], IF j \in KL THEN l ELSE IF j \in KU THEN r ELSE n[j].parent, Kids(n, j), Its(n, j))
         /\ n2[j].slots # <<>>

\* The root becomes the parent of two new nodes, which share its items and its children.
LEMMA RootBreaks ==
  ASSUME NEW n, NEW rt, NEW pr, NEW l, NEW r, NEW n2, NEW KL, NEW KU, NEW IL, NEW IU, NEW m, NEW x,
         Break(n, rt, pr, l, r, n2, KL, KU, IL, IU, m, x)
  PROVE  Sound(n2, rt, Nil) /\ All(n2) = All(n) \cup {x}
<1> USE DEF Break
<1>0. Tree(n, rt, pr) /\ Apart(n)
  BY DEF Sound
<1>1. PICK d \in [IDs -> Nat] : Ranked(n, rt, d)
  BY DEF Sound
<1>2. /\ \A j \in DOMAIN n \ {rt} :
           /\ NodeOK(n2[j]) /\ Kids(n2, j) = Kids(n, j) /\ Its(n2, j) = Its(n, j)
           /\ n2[j].parent = IF j \in KL THEN l ELSE IF j \in KU THEN r ELSE n[j].parent
      /\ NodeOK(n2[rt]) /\ n2[rt].parent = Nil /\ Kids(n2, rt) = {l, r} /\ Its(n2, rt) = {m}
      /\ NodeOK(n2[l]) /\ n2[l].parent = rt /\ Kids(n2, l) = KL /\ Its(n2, l) = IL
      /\ NodeOK(n2[r]) /\ n2[r].parent = rt /\ Kids(n2, r) = KU /\ Its(n2, r) = IU
  BY DEF Part, Kids, Its
<1>3. DOMAIN n \subseteq IDs /\ Nil \notin IDs /\ rt # Nil
  BY <1>0, IDsAre DEF Tree, Shape
<1>3a. \A j \in DOMAIN n \ {rt} : j \in KL \cup KU <=> n[j].parent = rt
  BY <1>0, <1>3 DEF Tree, Linked
<1>3b. KL \subseteq DOMAIN n \ {rt} /\ KU \subseteq DOMAIN n \ {rt}
  BY <1>0, <1>3 DEF Tree, Linked, Kids, Elems
<1>4. Shape(n2, rt)
  BY <1>2, <1>3 DEF Shape
<1>5. Rooted(n2, rt)
  BY <1>2, <1>3 DEF Rooted
<1>6. Linked(n2, rt, Nil)
  <2>1. ASSUME NEW c \in DOMAIN n2 \ {rt} PROVE n2[c].parent \in DOMAIN n2
    BY <1>0, <1>2 DEF Tree, Linked
  <2>2. ASSUME NEW id \in DOMAIN n2, NEW c \in IDs
        PROVE  c \in Kids(n2, id) <=> c \in DOMAIN n2 /\ c # rt /\ c # Nil /\ n2[c].parent = id
    <3>1. CASE id = rt
      BY <3>1, <1>2, <1>3, <1>3a, <1>3b
    <3>2. CASE id \in {l, r}
      BY <3>2, <1>0, <1>2, <1>3, <1>3a, <1>3b DEF Tree, Linked
    <3>3. CASE id \in DOMAIN n \ {rt}
      BY <3>3, <1>0, <1>2, <1>3, <1>3a, <1>3b DEF Tree, Linked
    <3> QED
      BY <3>1, <3>2, <3>3
  <2> QED
    BY <2>1, <2>2 DEF Linked
<1>7. Apart(n2)
  BY <1>0, <1>2, <1>3 DEF Apart, All
<1>7a. All(n2) = All(n) \cup {x}
  BY <1>0, <1>2, <1>3 DEF All
<1> DEFINE e == [k \in IDs |-> IF k = rt THEN d[rt] ELSE IF k \in {l, r} THEN d[rt] + 1 ELSE d[k] + 2]
<1>8. e \in [IDs -> Nat] /\ \A k \in IDs : e[k] = IF k = rt THEN d[rt] ELSE IF k \in {l, r} THEN d[rt] + 1 ELSE d[k] + 2
  BY <1>1, <1>3
<1>8a. \A k \in IDs : d[k] \in Nat
  BY <1>1
<1> HIDE DEF e
<1>9. Ranked(n2, rt, e)
  <2>1. ASSUME NEW c \in DOMAIN n2 \ {rt} PROVE e[n2[c].parent] < e[c]
    <3>1. CASE c \in {l, r}
      BY <3>1, <1>2, <1>3, <1>8, <1>8a
    <3>2. CASE c \in KL \cup KU
      <4>1. c \in DOMAIN n \ {rt} /\ n[c].parent = rt /\ n2[c].parent \in {l, r}
        BY <3>2, <1>2, <1>3a, <1>3b
      <4>2. d[rt] < d[c]
        BY <4>1, <1>1 DEF Ranked
      <4>3. c \notin {l, r} /\ l # rt /\ r # rt /\ c \in IDs
        BY <4>1, <1>3
      <4> QED
        BY <4>1, <4>2, <4>3, <1>3, <1>8, <1>8a
    <3>3. CASE c \in DOMAIN n \ {rt} /\ c \notin KL \cup KU
      <4>1. n2[c].parent = n[c].parent /\ n[c].parent \in DOMAIN n \ {rt}
        BY <3>3, <1>0, <1>2, <1>3a DEF Tree, Linked
      <4>2. d[n[c].parent] < d[c]
        BY <3>3, <1>1 DEF Ranked
      <4>3. c \notin {l, r} /\ n[c].parent \notin {l, r} /\ c \in IDs /\ n[c].parent \in IDs
        BY <3>3, <4>1, <1>3
      <4> QED
        BY <3>3, <4>1, <4>2, <4>3, <1>3, <1>8, <1>8a
    <3> QED
      BY <3>1, <3>2, <3>3
  <2> QED
    BY <2>1 DEF Ranked
<1> QED
  BY <1>4, <1>5, <1>6, <1>7, <1>7a, <1>8, <1>9 DEF Sound, Tree

\* Node id splits, r new beside it, and m on its way up.
Split(n, rt, id, pr, r, n2, KL, KU, IL, IU, m, x) ==
    /\ id \in DOMAIN n
    /\ id # rt
    /\ id # pr
    /\ Sound(n, rt, pr)
    /\ (pr = Nil \/ (pr \in DOMAIN n /\ pr # rt /\ n[pr].parent = id))
    /\ r \in IDs \ DOMAIN n
    /\ m \in Items
    /\ x \in Items
    /\ x \notin All(n)
    /\ KL \cup KU = Kids(n, id) \cup ({pr} \ {Nil})
    /\ KL \cap KU = {}
    /\ IL \cup IU \cup {m} = Its(n, id) \cup {x}
    /\ IL \cap IU = {}
    /\ m \notin IL
    /\ m \notin IU
    /\ DOMAIN n2 = DOMAIN n \cup {r}
    /\ Part(n2[id], n[id].parent, KL, IL)
    /\ n2[id].slots # <<>>
    /\ Part(n2[r], n[id].parent, KU, IU)
    /\ n2[r].slots # <<>>
    /\ \A j \in DOMAIN n \ {id} :
         /\ Part(n2[j], IF j \in KU THEN r ELSE n[j].parent, Kids(n, j), Its(n, j))
         /\ n2[j].slots = <<>> => j = rt

\* A node below the root gives half its items and children to a new sibling, still to be placed.
LEMMA NodeSplits ==
  ASSUME NEW n, NEW rt, NEW id, NEW pr, NEW r, NEW n2, NEW KL, NEW KU, NEW IL, NEW IU, NEW m, NEW x,
         Split(n, rt, id, pr, r, n2, KL, KU, IL, IU, m, x)
  PROVE  Sound(n2, rt, r) /\ m \notin All(n2) /\ All(n2) \cup {m} = All(n) \cup {x}
<1> USE DEF Split
<1>0. Tree(n, rt, pr) /\ Apart(n)
  BY DEF Sound
<1>1. PICK d \in [IDs -> Nat] : Ranked(n, rt, d)
  BY DEF Sound
<1>2. /\ \A j \in DOMAIN n \ {id} :
           /\ NodeOK(n2[j]) /\ Kids(n2, j) = Kids(n, j) /\ Its(n2, j) = Its(n, j)
           /\ n2[j].parent = IF j \in KU THEN r ELSE n[j].parent
      /\ NodeOK(n2[id]) /\ n2[id].parent = n[id].parent /\ Kids(n2, id) = KL /\ Its(n2, id) = IL
      /\ NodeOK(n2[r]) /\ n2[r].parent = n[id].parent /\ Kids(n2, r) = KU /\ Its(n2, r) = IU
  BY DEF Part, Kids, Its
<1>3. DOMAIN n \subseteq IDs /\ Nil \notin IDs /\ rt \in DOMAIN n /\ rt # Nil
  BY <1>0, IDsAre DEF Tree, Shape, Rooted
<1>3a. \A j \in DOMAIN n \ {rt} : j \in KL \cup KU <=> n[j].parent = id
  BY <1>0, <1>3 DEF Tree, Linked
<1>3b. KL \subseteq DOMAIN n \ {rt} /\ KU \subseteq DOMAIN n \ {rt}
  BY <1>0, <1>3 DEF Tree, Linked, Kids, Elems
<1>3c. \A k \in IDs : d[k] \in Nat
  BY <1>1
<1>3d. n[id].parent \in DOMAIN n /\ n[id].parent # id
  <2>1. n[id].parent \in DOMAIN n /\ d[n[id].parent] < d[id]
    BY <1>0, <1>1 DEF Tree, Linked, Ranked
  <2> QED
    BY <2>1, <1>3, <1>3c
<1>3e. id \notin KL \cup KU
  BY <1>3a, <1>3d
<1>4. Shape(n2, rt)
  BY <1>2, <1>3 DEF Shape
<1>5. Rooted(n2, rt)
  BY <1>0, <1>2, <1>3, <1>3b DEF Rooted, Tree
<1>6. Linked(n2, rt, r)
  <2>1. ASSUME NEW c \in DOMAIN n2 \ {rt} PROVE n2[c].parent \in DOMAIN n2
    BY <1>0, <1>2, <1>3d DEF Tree, Linked
  <2>2. ASSUME NEW i \in DOMAIN n2, NEW c \in IDs
        PROVE  c \in Kids(n2, i) <=> c \in DOMAIN n2 /\ c # rt /\ c # r /\ n2[c].parent = i
    <3>1. CASE i = id
      BY <3>1, <1>0, <1>2, <1>3, <1>3a, <1>3b, <1>3d, <1>3e DEF Tree, Linked
    <3>2. CASE i = r
      BY <3>2, <1>0, <1>2, <1>3, <1>3a, <1>3b, <1>3d, <1>3e DEF Tree, Linked
    <3>3. CASE i \in DOMAIN n \ {id}
      BY <3>3, <1>0, <1>2, <1>3, <1>3a, <1>3b, <1>3d, <1>3e DEF Tree, Linked
    <3> QED
      BY <3>1, <3>2, <3>3
  <2> QED
    BY <2>1, <2>2 DEF Linked
<1>7. Apart(n2) /\ m \notin All(n2)
  BY <1>0, <1>2, <1>3 DEF Apart, All
<1>7a. All(n2) \cup {m} = All(n) \cup {x}
  BY <1>0, <1>2, <1>3 DEF All
<1> DEFINE e == [d EXCEPT ![r] = d[id]]
<1>8. e \in [IDs -> Nat] /\ e[r] = d[id] /\ \A k \in IDs \ {r} : e[k] = d[k]
  BY <1>1, <1>3
<1> HIDE DEF e
<1>9. Ranked(n2, rt, e)
  <2>1. ASSUME NEW c \in DOMAIN n2 \ {rt} PROVE e[n2[c].parent] < e[c]
    <3>1. CASE c = r
      <4>1. d[n[id].parent] < d[id]
        BY <1>1 DEF Ranked
      <4> QED
        BY <3>1, <4>1, <1>2, <1>3, <1>3d, <1>8
    <3>2. CASE c \in KU
      <4>1. c \in DOMAIN n \ {rt} /\ c # id /\ n[c].parent = id /\ n2[c].parent = r
        BY <3>2, <1>2, <1>3a, <1>3b, <1>3e
      <4>2. d[id] < d[c]
        BY <4>1, <1>1 DEF Ranked
      <4> QED
        BY <4>1, <4>2, <1>3, <1>8
    <3>3. CASE c \in DOMAIN n \ {rt} /\ c \notin KU
      <4>1. n2[c].parent = n[c].parent /\ n[c].parent \in DOMAIN n
        BY <3>3, <1>0, <1>2 DEF Tree, Linked
      <4>2. d[n[c].parent] < d[c]
        BY <3>3, <1>1 DEF Ranked
      <4> QED
        BY <3>3, <4>1, <4>2, <1>3, <1>8
    <3> QED
      BY <3>1, <3>2, <3>3
  <2> QED
    BY <2>1 DEF Ranked
<1> QED
  BY <1>4, <1>5, <1>6, <1>7, <1>7a, <1>8, <1>9 DEF Sound, Tree

-----------------------------------------------------------------------------
(* Removals. The removed item y is taken out of node id: J are the items of   *)
(* the nodes without it.                                                      *)

\* The items of each node, and those of the tree, once y is out of node id.
Without(n, id, y) == [j \in DOMAIN n |-> IF j = id THEN Its(n, j) \ {y} ELSE Its(n, j)]
Left(n, id, y) == {x \in Items : \E j \in DOMAIN n : x \in Without(n, id, y)[j]}

\* What a removal shows: it keeps the tree and its ranks, and the items but y.
Takes(n, n2, rt, id, y) ==
    /\ Tree(n2, rt, Nil)
    /\ \A d \in [IDs -> Nat] : Ranked(n, rt, d) => Ranked(n2, rt, d)
    /\ (\A a, b \in DOMAIN n : a # b => Without(n, id, y)[a] \cap Without(n, id, y)[b] = {}) => Apart(n2)
    /\ All(n2) = Left(n, id, y)

\* Node id loses item y and stays.
SlotGo(n, rt, id, n2, y) ==
    /\ Tree(n, rt, Nil)
    /\ id \in DOMAIN n
    /\ DOMAIN n2 = DOMAIN n
    /\ Part(n2[id], n[id].parent, Kids(n, id), Its(n, id) \ {y})
    /\ (n2[id].slots = <<>> => id = rt)
    /\ \A j \in DOMAIN n \ {id} : n2[j] = n[j]

\* The node loses the slot and, if it has children, one that is pruned.
LEMMA SlotGoes ==
  ASSUME NEW n, NEW rt, NEW id, NEW n2, NEW y,
         SlotGo(n, rt, id, n2, y)
  PROVE  Takes(n, n2, rt, id, y)
<1> USE DEF SlotGo
<1> DEFINE I == Its(n, id) \ {y}
<1>a. Swap(n, rt, Nil, id, n2, I)
  BY DEF Swap
<1> HIDE DEF I
<1>b. /\ Tree(n2, rt, Nil) /\ \A d : Ranked(n, rt, d) => Ranked(n2, rt, d)
      /\ Its(n2, id) = I /\ \A j \in DOMAIN n \ {id} : Its(n2, j) = Its(n, j)
  BY <1>a, KeepsLinks
<1>c. \A j \in DOMAIN n : Its(n2, j) = Without(n, id, y)[j]
  BY <1>b DEF I, Without
<1>d. (\A a, b \in DOMAIN n : a # b => Without(n, id, y)[a] \cap Without(n, id, y)[b] = {}) => Apart(n2)
  BY <1>c DEF Apart
<1>e. All(n2) = Left(n, id, y)
  BY <1>c DEF All, Left
<1> QED
  BY <1>b, <1>d, <1>e DEF Takes

\* Node id, left without items and children, is unlinked from its parent p.
NodeGo(n, rt, id, n2, y, p) ==
    /\ Tree(n, rt, Nil)
    /\ id \in DOMAIN n
    /\ id # rt
    /\ p = n[id].parent
    /\ p # id
    /\ DOMAIN n2 = DOMAIN n \ {id}
    /\ Kids(n, id) = {}
    /\ Its(n, id) \subseteq {y}
    /\ Part(n2[p], n[p].parent, Kids(n, p) \ {id}, Its(n, p))
    /\ (n2[p].slots = <<>> => p = rt)
    /\ \A j \in DOMAIN n \ {id, p} : n2[j] = n[j]

\* A node that holds nothing but the item is pruned from its parent.
LEMMA NodeGoes ==
  ASSUME NEW n, NEW rt, NEW id, NEW n2, NEW y, NEW p,
         NodeGo(n, rt, id, n2, y, p)
  PROVE  Takes(n, n2, rt, id, y)
<1> USE DEF NodeGo
<1>1. p \in DOMAIN n
  BY DEF Tree, Linked
<1>2. /\ \A j \in DOMAIN n2 : NodeOK(n2[j]) /\ n2[j].parent = n[j].parent /\ Its(n2, j) = Its(n, j)
      /\ \A j \in DOMAIN n2 \ {p} : Kids(n2, j) = Kids(n, j)
      /\ Kids(n2, p) = Kids(n, p) \ {id}
  BY <1>1, PartOf DEF Part, Kids, Its
<1>3. DOMAIN n \subseteq IDs /\ Nil \notin IDs /\ rt \in DOMAIN n /\ rt # Nil
  BY IDsAre DEF Tree, Shape, Rooted
<1>4. Shape(n2, rt)
  BY <1>2, <1>3 DEF Shape, Tree
<1>5. Rooted(n2, rt)
  BY <1>2, <1>3 DEF Rooted, Tree
<1>6. Linked(n2, rt, Nil)
  <2>1. ASSUME NEW c \in DOMAIN n2 \ {rt} PROVE n2[c].parent \in DOMAIN n2
    BY <1>2, <1>3 DEF Tree, Linked
  <2>2. ASSUME NEW i \in DOMAIN n2, NEW c \in IDs
        PROVE  c \in Kids(n2, i) <=> c \in DOMAIN n2 /\ c # rt /\ c # Nil /\ n2[c].parent = i
    BY <1>2, <1>3 DEF Tree, Linked
  <2> QED
    BY <2>1, <2>2 DEF Linked
<1>7. \A d \in [IDs -> Nat] : Ranked(n, rt, d) => Ranked(n2, rt, d)
  BY <1>2 DEF Ranked
<1>8. /\ \A j \in DOMAIN n2 : Its(n2, j) = Without(n, id, y)[j]
      /\ Without(n, id, y)[id] = {}
  BY <1>2 DEF Without
<1>9. (\A a, b \in DOMAIN n : a # b => Without(n, id, y)[a] \cap Without(n, id, y)[b] = {}) => Apart(n2)
  BY <1>8 DEF Apart
<1>10. All(n2) = Left(n, id, y)
  BY <1>8 DEF All, Left
<1> QED
  BY <1>4, <1>5, <1>6, <1>7, <1>9, <1>10 DEF Takes, Tree

\* The only child c of node id, left without items, takes its place below p.
Lift(n, rt, id, n2, y, p, c) ==
    /\ Tree(n, rt, Nil)
    /\ \E d \in [IDs -> Nat] : Ranked(n, rt, d)
    /\ id \in DOMAIN n /\ id # rt
    /\ p = n[id].parent
    /\ Kids(n, id) = {c} /\ Its(n, id) \subseteq {y}
    /\ DOMAIN n2 = DOMAIN n \ {id}
    /\ Part(n2[p], n[p].parent, (Kids(n, p) \ {id}) \cup {c}, Its(n, p))
    /\ (n2[p].slots = <<>> => p = rt)
    /\ Part(n2[c], p, Kids(n, c), Its(n, c)) /\ n2[c].slots # <<>>
    /\ \A j \in DOMAIN n \ {id, p, c} : n2[j] = n[j]

\* A node that holds nothing but the item and a child leaves its place to the child.
LEMMA NodeLifts ==
  ASSUME NEW n, NEW rt, NEW id, NEW n2, NEW y, NEW p, NEW c,
         Lift(n, rt, id, n2, y, p, c)
  PROVE  Takes(n, n2, rt, id, y)
<1> USE DEF Lift
<1>3. DOMAIN n \subseteq IDs /\ Nil \notin IDs /\ rt \in DOMAIN n /\ rt # Nil
  BY IDsAre DEF Tree, Shape, Rooted
<1>0. c \in DOMAIN n /\ c # rt /\ n[c].parent = id
  BY <1>3 DEF Tree, Linked, Kids, Elems
<1>1. p \in DOMAIN n /\ p # id /\ c # id /\ c # p
  <2>1. PICK d \in [IDs -> Nat] : Ranked(n, rt, d)
    BY DEF Lift
  <2>2. p \in DOMAIN n
    BY DEF Tree, Linked
  <2>3. d[p] < d[id] /\ d[id] < d[c] /\ d[p] \in Nat /\ d[id] \in Nat /\ d[c] \in Nat
    BY <1>0, <1>3, <2>1, <2>2 DEF Ranked
  <2> QED
    BY <2>2, <2>3
<1>2. /\ \A j \in DOMAIN n2 : NodeOK(n2[j]) /\ Its(n2, j) = Its(n, j)
      /\ \A j \in DOMAIN n2 \ {c} : n2[j].parent = n[j].parent
      /\ \A j \in DOMAIN n2 \ {p} : Kids(n2, j) = Kids(n, j)
      /\ n2[c].parent = p /\ Kids(n2, p) = (Kids(n, p) \ {id}) \cup {c}
  BY <1>1, PartOf DEF Part, Kids, Its
<1>4. Shape(n2, rt)
  BY <1>1, <1>2, <1>3 DEF Shape, Tree
<1>5. Rooted(n2, rt)
  BY <1>0, <1>2, <1>3 DEF Rooted, Tree
<1>6. Linked(n2, rt, Nil)
  <2>0. \A j \in DOMAIN n \ {rt} : n[j].parent = id <=> j = c
    BY <1>3 DEF Tree, Linked
  <2>1. ASSUME NEW j \in DOMAIN n2 \ {rt} PROVE n2[j].parent \in DOMAIN n2
    BY <1>1, <1>2, <1>3, <2>0 DEF Tree, Linked
  <2>2. ASSUME NEW i \in DOMAIN n2, NEW j \in IDs
        PROVE  j \in Kids(n2, i) <=> j \in DOMAIN n2 /\ j # rt /\ j # Nil /\ n2[j].parent = i
    <3>1. CASE i = p
      BY <3>1, <1>0, <1>1, <1>2, <1>3, <2>0 DEF Tree, Linked
    <3>2. CASE i # p
      BY <3>2, <1>0, <1>1, <1>2, <1>3, <2>0 DEF Tree, Linked
    <3> QED
      BY <3>1, <3>2
  <2> QED
    BY <2>1, <2>2 DEF Linked
<1>7. \A d \in [IDs -> Nat] : Ranked(n, rt, d) => Ranked(n2, rt, d)
  <2> SUFFICES ASSUME NEW d \in [IDs -> Nat], Ranked(n, rt, d), NEW j \in DOMAIN n2 \ {rt}
               PROVE  d[n2[j].parent] < d[j]
    BY DEF Ranked
  <2>1. CASE j = c
    <3>1. d[p] < d[id] /\ d[id] < d[c] /\ d[p] \in Nat /\ d[id] \in Nat /\ d[c] \in Nat
      BY <1>0, <1>1, <1>3 DEF Ranked
    <3> QED
      BY <2>1, <3>1, <1>2
  <2>2. CASE j # c
    BY <2>2, <1>2 DEF Ranked
  <2> QED
    BY <2>1, <2>2
<1>8. /\ \A j \in DOMAIN n2 : Its(n2, j) = Without(n, id, y)[j]
      /\ Without(n, id, y)[id] = {}
  BY <1>2 DEF Without
<1>9. (\A a, b \in DOMAIN n : a # b => Without(n, id, y)[a] \cap Without(n, id, y)[b] = {}) => Apart(n2)
  BY <1>8 DEF Apart
<1>10. All(n2) = Left(n, id, y)
  BY <1>8 DEF All, Left
<1> QED
  BY <1>4, <1>5, <1>6, <1>7, <1>9, <1>10 DEF Takes, Tree

\* The root, left without items, takes over the content of its only child c.
Collapse(n, rt, n2, y, c) ==
    /\ Tree(n, rt, Nil)
    /\ \E d \in [IDs -> Nat] : Ranked(n, rt, d)
    /\ rt \in DOMAIN n
    /\ Kids(n, rt) = {c} /\ Its(n, rt) \subseteq {y}
    /\ DOMAIN n2 = DOMAIN n \ {c}
    /\ Part(n2[rt], Nil, Kids(n, c), Its(n, c))
    /\ \A j \in DOMAIN n \ {rt, c} :
         /\ Part(n2[j], IF j \in Kids(n, c) THEN rt ELSE n[j].parent, Kids(n, j), Its(n, j))
         /\ n2[j].slots # <<>>

\* The root that holds nothing but the item takes over its only child's content.
LEMMA RootCollapses ==
  ASSUME NEW n, NEW rt, NEW n2, NEW y, NEW c,
         Collapse(n, rt, n2, y, c)
  PROVE  Takes(n, n2, rt, rt, y)
<1> USE DEF Collapse
<1>3. DOMAIN n \subseteq IDs /\ Nil \notin IDs /\ rt \in DOMAIN n /\ rt # Nil
  BY IDsAre DEF Tree, Shape, Rooted
<1>0. c \in DOMAIN n /\ c # rt /\ n[c].parent = rt
  BY <1>3 DEF Tree, Linked, Kids, Elems
<1>1. \A j \in DOMAIN n \ {rt} : j \in Kids(n, c) <=> n[j].parent = c
  BY <1>0, <1>3 DEF Tree, Linked
<1>1a. c \notin Kids(n, c)
  BY <1>0, <1>1
<1>2. /\ \A j \in DOMAIN n2 \ {rt} :
           /\ NodeOK(n2[j]) /\ Kids(n2, j) = Kids(n, j) /\ Its(n2, j) = Its(n, j)
           /\ n2[j].parent = IF j \in Kids(n, c) THEN rt ELSE n[j].parent
      /\ NodeOK(n2[rt]) /\ n2[rt].parent = Nil /\ Kids(n2, rt) = Kids(n, c) /\ Its(n2, rt) = Its(n, c)
  BY DEF Part, Kids, Its
<1>4. Shape(n2, rt)
  BY <1>2, <1>3 DEF Shape, Tree
<1>5. Rooted(n2, rt)
  BY <1>0, <1>2, <1>3 DEF Rooted, Tree
<1>6. Linked(n2, rt, Nil)
  <2>0. \A j \in DOMAIN n \ {rt} : n[j].parent = rt <=> j = c
    BY <1>3 DEF Tree, Linked
  <2>1. ASSUME NEW j \in DOMAIN n2 \ {rt} PROVE n2[j].parent \in DOMAIN n2
    BY <1>0, <1>1, <1>2, <1>3, <2>0 DEF Tree, Linked
  <2>2. ASSUME NEW i \in DOMAIN n2, NEW j \in IDs
        PROVE  j \in Kids(n2, i) <=> j \in DOMAIN n2 /\ j # rt /\ j # Nil /\ n2[j].parent = i
    <3>1. CASE i = rt
      BY <3>1, <1>0, <1>1, <1>1a, <1>2, <1>3, <2>0 DEF Tree, Linked
    <3>2. CASE i # rt
      BY <3>2, <1>0, <1>1, <1>1a, <1>2, <1>3, <2>0 DEF Tree, Linked
    <3> QED
      BY <3>1, <3>2
  <2> QED
    BY <2>1, <2>2 DEF Linked
<1>7. \A d \in [IDs -> Nat] : Ranked(n, rt, d) => Ranked(n2, rt, d)
  <2> SUFFICES ASSUME NEW d \in [IDs -> Nat], Ranked(n, rt, d), NEW j \in DOMAIN n2 \ {rt}
               PROVE  d[n2[j].parent] < d[j]
    BY DEF Ranked
  <2>1. CASE j \in Kids(n, c)
    <3>1. n[j].parent = c
      BY <2>1, <1>1
    <3>2. d[rt] < d[c] /\ d[c] < d[j] /\ d[rt] \in Nat /\ d[c] \in Nat /\ d[j] \in Nat
      BY <3>1, <1>0, <1>3 DEF Ranked
    <3> QED
      BY <2>1, <3>2, <1>2
  <2>2. CASE j \notin Kids(n, c)
    BY <2>2, <1>2 DEF Ranked
  <2> QED
    BY <2>1, <2>2
<1>8. /\ \A j \in DOMAIN n2 \ {rt} : Its(n2, j) = Without(n, rt, y)[j]
      /\ Its(n2, rt) = Without(n, rt, y)[c]
      /\ Without(n, rt, y)[rt] = {}
  BY <1>0, <1>2 DEF Without
<1>9. (\A a, b \in DOMAIN n : a # b => Without(n, rt, y)[a] \cap Without(n, rt, y)[b] = {}) => Apart(n2)
  BY <1>0, <1>8 DEF Apart
<1>10. All(n2) = Left(n, rt, y)
  BY <1>0, <1>8 DEF All, Left
<1> QED
  BY <1>4, <1>5, <1>6, <1>7, <1>9, <1>10 DEF Takes, Tree

-----------------------------------------------------------------------------
(* The removal of a slot. *)

\* Every node below the root that differs between n and t2.n is saved.
Saves(n, sv, t2, rt) ==
    /\ sv \subseteq t2.saved /\ t2.saved \subseteq sv \cup IDs
    /\ \A j \in (DOMAIN n \cup DOMAIN t2.n) \ {rt} :
         \/ j \in DOMAIN n /\ j \in DOMAIN t2.n /\ t2.n[j] = n[j]
         \/ j \in t2.saved

\* The pair an operation works on.
Rec(n, sv) == [n |-> n, saved |-> sv]

\* The place among its siblings of a node whose own content has changed.
LEMMA GetIndexSame ==
  ASSUME NEW n, NEW n1, NEW id, n1[id].parent = n[id].parent, n1[n[id].parent] = n[n[id].parent]
  PROVE  GetIndexOfChild(n1, id) = GetIndexOfChild(n, id)
BY DEF GetIndexOfChild

\* The children of the parent of node id, with x in its place.
Instead(n, id, x) == [n[n[id].parent].kids EXCEPT ![GetIndexOfChild(n, id) + 1] = x]

InsteadOK(n, id, p, K, x) ==
    /\ p \in DOMAIN n /\ n[p].kids # <<>>
    /\ K \in Seq(IDs \cup {Nil}) /\ Len(K) = Len(n[p].slots) + 1
    /\ Distinct(K, IDs) /\ Elems(K, IDs) = (Kids(n, p) \ {id}) \cup ({x} \cap IDs)
    /\ NodeOK(Node(n[p].parent, n[p].slots, K))
    /\ IsNilChildren(K) => Kids(n, p) \ {id} = {}

\* A node in whose stead x stands among its parent's children.
LEMMA InsteadOf ==
  ASSUME NEW n, NEW rt, Tree(n, rt, Nil), NEW id \in DOMAIN n, id # rt,
         NEW x \in IDs \cup {Nil}, x \notin Kids(n, n[id].parent)
  PROVE  InsteadOK(n, id, n[id].parent, Instead(n, id, x), x)
<1> DEFINE p == n[id].parent
           K == Instead(n, id, x)
<1>0. Nil \notin IDs /\ id # Nil
  BY IDsAre DEF Tree, Shape
<1>1. /\ p \in DOMAIN n /\ n[p].kids # <<>> /\ id \in Kids(n, p)
      /\ GetIndexOfChild(n, id) + 1 \in 1..Len(n[p].kids)
      /\ n[p].kids[GetIndexOfChild(n, id) + 1] = id
  BY <1>0, GetIndexIs
<1> DEFINE i == GetIndexOfChild(n, id) + 1
<1>2. /\ n[p].parent \in IDs \cup {Nil}
      /\ n[p].slots \in Seq(Items) /\ Len(n[p].slots) <= SlotLength /\ Distinct(n[p].slots, Items)
      /\ n[p].kids \in Seq(IDs \cup {Nil}) /\ Len(n[p].kids) = Len(n[p].slots) + 1
      /\ Distinct(n[p].kids, IDs)
  BY <1>1, NodeFacts
<1>3. i \in 1..Len(n[p].kids) /\ K = [n[p].kids EXCEPT ![i] = x] /\ n[p].kids[i] = id
  BY <1>1 DEF Instead
<1> HIDE DEF i, K
<1> DEFINE s == n[p].kids
           T == IDs \cup {Nil}
<1>4. Replaceable(s, i, x, T, IDs)
  BY <1>2, <1>3 DEF Kids, Replaceable
<1>5. Elems(s, IDs) = Kids(n, p) /\ s[i] = id /\ Len(s) = Len(n[p].slots) + 1 /\ K = [s EXCEPT ![i] = x]
  BY <1>2, <1>3 DEF Kids
<1> HIDE DEF s, T
<1>6. /\ [s EXCEPT ![i] = x] \in Seq(T)
      /\ Len([s EXCEPT ![i] = x]) = Len(s)
      /\ Distinct([s EXCEPT ![i] = x], IDs)
      /\ Elems([s EXCEPT ![i] = x], IDs) = (Elems(s, IDs) \ {s[i]}) \cup ({x} \cap IDs)
  <2>1. Replaced(s, i, x, T, IDs)
    BY <1>4, ReplaceElems
  <2> QED
    BY <2>1 DEF Replaced
<1>7. /\ K \in Seq(IDs \cup {Nil}) /\ Len(K) = Len(n[p].slots) + 1
      /\ Distinct(K, IDs) /\ Elems(K, IDs) = (Kids(n, p) \ {id}) \cup ({x} \cap IDs)
  BY <1>5, <1>6 DEF T
<1>8. NodeOK(Node(n[p].parent, n[p].slots, K))
  BY <1>2, <1>7 DEF NodeOK, Node
<1>9. IsNilChildren(K) => Kids(n, p) \ {id} = {}
  <2>1. IsNilChildren(K) => Elems(K, IDs) = {}
    BY <1>0 DEF IsNilChildren, Elems
  <2> QED
    BY <2>1, <1>7
<1> QED
  BY <1>1, <1>7, <1>8, <1>9 DEF K, InsteadOK

\* What the new nodes look like when a node goes: its place among its parent's children is empty,
\* or its only child has it; and when the root takes over its only child.
Looks(n, id, s, K) == n[id].slots = s /\ n[id].kids = K

Pruned(n, n2, id) ==
    /\ DOMAIN n2 = DOMAIN n \ {id}
    /\ n2[n[id].parent].slots = n[n[id].parent].slots /\ n2[n[id].parent].kids \in {<<>>, Instead(n, id, Nil)}
    /\ \A j \in DOMAIN n \ {id, n[id].parent} : Looks(n2, j, n[j].slots, n[j].kids)
Lifted(n, n2, id, c) ==
    /\ DOMAIN n2 = DOMAIN n \ {id} /\ Looks(n2, n[id].parent, n[n[id].parent].slots, Instead(n, id, c))
    /\ \A j \in DOMAIN n \ {id, n[id].parent} : Looks(n2, j, n[j].slots, n[j].kids)
Collapsed(n, n2, rt, c) ==
    /\ DOMAIN n2 = DOMAIN n \ {c} /\ Looks(n2, rt, n[c].slots, n[c].kids)
    /\ \A j \in DOMAIN n \ {rt, c} : Looks(n2, j, n[j].slots, n[j].kids)

\* Unlink, of a node that held nothing but the item.
LEMMA UnlinkTakes ==
  ASSUME NEW n, NEW n1, NEW sv, NEW rt, Tree(n, rt, Nil), NEW d \in [IDs -> Nat], Ranked(n, rt, d),
         NEW id \in DOMAIN n, id # rt, NEW y, Kids(n, id) = {}, Its(n, id) \subseteq {y},
         DOMAIN n1 = DOMAIN n, n1[id].parent = n[id].parent,
         \A j \in DOMAIN n \ {id} : n1[j] = n[j]
  PROVE  /\ Takes(n, Unlink(Rec(n1, sv), id).n, rt, id, y)
         /\ Saves(n, sv, Unlink(Rec(n1, sv), id), rt)
         /\ Pruned(n, Unlink(Rec(n1, sv), id).n, id)
<1> DEFINE p == n[id].parent
           K == Instead(n, id, Nil)
           K2 == IF IsNilChildren(K) THEN <<>> ELSE K
           t2 == Unlink(Rec(n1, sv), id)
<1>0. Nil \notin IDs /\ id \in IDs /\ DOMAIN n \subseteq IDs
  BY IDsAre DEF Tree, Shape
<1>1. p \in DOMAIN n /\ p # id /\ p \in IDs
  <2>1. p \in DOMAIN n /\ d[p] < d[id]
    BY DEF Tree, Linked, Ranked
  <2> QED
    BY <2>1, <1>0
<1>2. Nil \notin Kids(n, p)
  BY <1>0 DEF Kids, Elems
<1>3. /\ n[p].kids # <<>>
      /\ K \in Seq(IDs \cup {Nil}) /\ Len(K) = Len(n[p].slots) + 1
      /\ Distinct(K, IDs) /\ Elems(K, IDs) = (Kids(n, p) \ {id}) \cup ({Nil} \cap IDs)
      /\ NodeOK(Node(n[p].parent, n[p].slots, K))
      /\ IsNilChildren(K) => Kids(n, p) \ {id} = {}
  <2>1. InsteadOK(n, id, p, K, Nil)
    BY <1>2, InsteadOf
  <2> HIDE DEF p, K
  <2> QED
    BY <2>1 DEF InsteadOK
<1>4. n1[p] = n[p] /\ GetIndexOfChild(n1, id) = GetIndexOfChild(n, id) /\ n1[id].parent = p
  BY <1>1, GetIndexSame
<1>5. n[p] = Node(n[p].parent, n[p].slots, n[p].kids) /\ NodeOK(n[p])
  BY <1>1, NodeFacts
<1>6. Part(Node(n[p].parent, n[p].slots, K2), n[p].parent, Kids(n, p) \ {id}, Its(n, p))
  <2>1. Part(Node(n[p].parent, n[p].slots, K), n[p].parent, Kids(n, p) \ {id}, Its(n, p))
    BY <1>0, <1>3 DEF Part, Node, Its
  <2>2. CASE IsNilChildren(K)
    <3>1. K2 = <<>> /\ Elems(K2, IDs) = {} /\ Distinct(K2, IDs) /\ K2 \in Seq(IDs \cup {Nil})
      BY <2>2, NoElems
    <3> HIDE DEF K2
    <3> QED
      BY <3>1, <2>1, <2>2, <1>3 DEF Part, NodeOK, Node
  <2>3. CASE ~ IsNilChildren(K)
    BY <2>1, <2>3
  <2> QED
    BY <2>2, <2>3
<1>7. t2 = RemoveNode(SaveNode(Rec(n1, sv), p, [n[p] EXCEPT !.kids = K2]), id)
  <2>1. ~ IsRootNode(n1, id) /\ HasChildren(n1, p)
    BY <1>0, <1>1, <1>3, <1>4 DEF IsRootNode, HasChildren
  <2> QED
    BY <2>1, <1>4 DEF Unlink, Rec, Instead
<1>8. [n[p] EXCEPT !.kids = K2] = Node(n[p].parent, n[p].slots, K2)
  <2> HIDE DEF K2
  <2> QED
    BY <1>5 DEF Node
<1> HIDE DEF K, K2, t2
<1>9. /\ DOMAIN t2.n = DOMAIN n \ {id}
      /\ t2.n[p] = Node(n[p].parent, n[p].slots, K2)
      /\ \A j \in DOMAIN n \ {id, p} : t2.n[j] = n[j]
      /\ t2.saved = sv \cup {p, id}
  BY <1>1, <1>7, <1>8 DEF RemoveNode, SaveNode, With, Rec
<1>10. t2.n[p].slots = n[p].slots
  BY <1>9 DEF Node
<1>11. n[p].slots = <<>> => p = rt
  BY <1>1 DEF Tree, Shape
<1> HIDE DEF p
<1>12. NodeGo(n, rt, id, t2.n, y, p)
  BY <1>1, <1>6, <1>9, <1>10, <1>11 DEF NodeGo, p
<1>13. Takes(n, t2.n, rt, id, y)
  BY <1>12, NodeGoes
<1>14. Saves(n, sv, t2, rt)
  BY <1>0, <1>1, <1>9 DEF Saves
<1>15. Pruned(n, t2.n, id)
  <2>1. K2 \in {<<>>, Instead(n, id, Nil)}
    BY DEF K, K2
  <2> QED
    BY <2>1, <1>9 DEF Pruned, Looks, Node, p
<1> QED
  BY <1>13, <1>14, <1>15 DEF t2

\* The IDs among the children, as the code collects them.
LEMMA ToSetIs ==
  ASSUME NEW s \in Seq(IDs \cup {Nil})
  PROVE  ToSet(s) \ {Nil} = Elems(s, IDs)
<1>1. Nil \notin IDs /\ \A k \in DOMAIN s : s[k] \in IDs \cup {Nil}
  BY IDsAre, EmptyIs
<1> QED
  BY <1>1 DEF ToSet, Elems

\* Node id without the item at slot k and the pruned child beside it.
Shrunk(n, id, k) ==
    Node(n[id].parent, RemoveAt(n[id].slots, k + 1),
         IF n[id].kids[k + 1] = Nil THEN RemoveAt(n[id].kids, k + 1) ELSE RemoveAt(n[id].kids, k + 2))

ShrunkOK(n, id, y, nd) ==
    /\ Part(nd, n[id].parent, Kids(n, id), Its(n, id) \ {y})
    /\ Len(nd.slots) = Len(n[id].slots) - 1 /\ Len(nd.kids) = Len(n[id].slots)

\* A slot goes.
LEMMA SlotOut ==
  ASSUME NEW n, NEW rt, Tree(n, rt, Nil), NEW id \in DOMAIN n, NEW k \in 0..Len(n[id].slots) - 1
  PROVE  /\ RemoveAt(n[id].slots, k + 1) \in Seq(Items)
         /\ Len(RemoveAt(n[id].slots, k + 1)) = Len(n[id].slots) - 1
         /\ Distinct(RemoveAt(n[id].slots, k + 1), Items)
         /\ Elems(RemoveAt(n[id].slots, k + 1), Items) = Its(n, id) \ {n[id].slots[k + 1]}
         /\ Len(n[id].slots) \in Nat /\ Len(n[id].slots) >= 1
<1>1. /\ n[id].slots \in Seq(Items) /\ Len(n[id].slots) \in Nat /\ Distinct(n[id].slots, Items)
  BY NodeFacts
<1>2. k + 1 \in 1..Len(n[id].slots) /\ Len(n[id].slots) >= 1
  BY <1>1
<1>3. Removable(n[id].slots, k + 1, Items, Items)
  BY <1>1, <1>2 DEF Removable
<1>4. RemovedAt(n[id].slots, k + 1, Items, Items)
  BY <1>3, RemoveElems
<1> QED
  BY <1>1, <1>2, <1>4 DEF RemovedAt, Its

\* A slot beside a pruned child goes, and the pruned child with it.
LEMMA ShrunkIs ==
  ASSUME NEW n, NEW rt, Tree(n, rt, Nil), NEW id \in DOMAIN n, NEW k \in 0..Len(n[id].slots) - 1,
         HasNilChildAt(n, id, k)
  PROVE  ShrunkOK(n, id, n[id].slots[k + 1], Shrunk(n, id, k))
<1> DEFINE s == n[id].kids
           T == IDs \cup {Nil}
           s2 == RemoveAt(n[id].slots, k + 1)
           k2 == IF s[k + 1] = Nil THEN RemoveAt(s, k + 1) ELSE RemoveAt(s, k + 2)
<1>0. /\ s2 \in Seq(Items) /\ Len(s2) = Len(n[id].slots) - 1 /\ Distinct(s2, Items)
      /\ Elems(s2, Items) = Its(n, id) \ {n[id].slots[k + 1]}
  BY SlotOut
<1>1. /\ s \in Seq(T) /\ Len(s) = Len(n[id].slots) + 1 /\ Distinct(s, IDs) /\ s # <<>>
      /\ Len(n[id].slots) \in Nat /\ Len(n[id].slots) <= SlotLength /\ n[id].parent \in T
  BY NodeFacts DEF HasNilChildAt, HasChildren
<1>2. PICK i \in {k + 1, k + 2} : s[i] = Nil /\ k2 = RemoveAt(s, i)
  BY DEF HasNilChildAt
<1>3. i \in 1..Len(s)
  BY <1>1, <1>2
<1>4. Removable(s, i, T, IDs)
  BY <1>1, <1>3 DEF Removable
<1> HIDE DEF T, s
<1>5. RemovedAt(s, i, T, IDs)
  BY <1>4, RemoveElems
<1>6. Nil \notin IDs
  BY IDsAre
<1> HIDE DEF k2, s2
<1>7. k2 \in Seq(T) /\ Len(k2) = Len(n[id].slots) /\ Distinct(k2, IDs) /\ Elems(k2, IDs) = Elems(s, IDs)
  BY <1>1, <1>2, <1>5, <1>6 DEF RemovedAt, Elems
<1>8. /\ Node(n[id].parent, s2, k2).slots = s2 /\ Node(n[id].parent, s2, k2).kids = k2
      /\ Node(n[id].parent, s2, k2).parent = n[id].parent
  BY DEF Node
<1>9. NodeOK(Node(n[id].parent, s2, k2))
  <2>1. Len(s2) <= SlotLength /\ Len(k2) = Len(s2) + 1
    BY <1>0, <1>1, <1>7, BTreeAssumption
  <2> QED
    BY <2>1, <1>0, <1>1, <1>7 DEF NodeOK, Node, T
<1>10. Shrunk(n, id, k) = Node(n[id].parent, s2, k2)
  BY DEF Shrunk, s2, k2, s
<1>11. Elems(s, IDs) = Kids(n, id)
  BY DEF Kids, s
<1> QED
  BY <1>0, <1>7, <1>8, <1>9, <1>10, <1>11 DEF ShrunkOK, Part

\* The only child of a node without slots.
LEMMA OnlyKid ==
  ASSUME NEW nd, NodeOK(nd), Len(nd.slots) = 0, Len(nd.kids) = 1
  PROVE  /\ nd.slots = <<>> /\ nd.kids[1] \in IDs \cup {Nil}
         /\ Elems(nd.kids, IDs) = IF nd.kids[1] = Nil THEN {} ELSE {nd.kids[1]}
<1>1. nd.slots \in Seq(Items) /\ nd.kids \in Seq(IDs \cup {Nil})
  BY DEF NodeOK
<1>2. nd.slots = <<>> /\ DOMAIN nd.kids = 1..1 /\ nd.kids[1] \in IDs \cup {Nil}
  <2>1. nd.slots = <<>>
    BY <1>1, EmptyIs
  <2>2. DOMAIN nd.kids = 1..1 /\ \A k \in 1..1 : nd.kids[k] \in IDs \cup {Nil}
    BY <1>1, EmptyIs
  <2> QED
    BY <2>1, <2>2
<1>3. Nil \notin IDs
  BY IDsAre
<1> QED
  BY <1>2, <1>3 DEF Elems

\* Node id has lost its last item y, in n1, and has one child.
OneLeft(n, n1, id, y, c) ==
    /\ Kids(n, id) = {c} /\ Its(n, id) \subseteq {y}
    /\ DOMAIN n1 = DOMAIN n /\ n1[id].parent = n[id].parent /\ n1[id].kids[1] = c
    /\ \A j \in DOMAIN n \ {id} : n1[j] = n[j]
LiftOK(n, sv, t2, rt, id, y, c) == Takes(n, t2.n, rt, id, y) /\ Saves(n, sv, t2, rt) /\ Lifted(n, t2.n, id, c)

\* PromoteSingleChildAsParentChild, of a node below the root that has lost its last item.
LEMMA LiftTakes ==
  ASSUME NEW n, NEW n1, NEW sv, NEW rt, Tree(n, rt, Nil), NEW d \in [IDs -> Nat], Ranked(n, rt, d),
         NEW id \in DOMAIN n, id # rt, NEW y, NEW c, OneLeft(n, n1, id, y, c)
  PROVE  LiftOK(n, sv, PromoteSingleChildAsParentChild(Rec(n1, sv), id), rt, id, y, c)
<1> /\ Kids(n, id) = {c} /\ Its(n, id) \subseteq {y}
    /\ DOMAIN n1 = DOMAIN n /\ n1[id].parent = n[id].parent /\ n1[id].kids[1] = c
    /\ \A j \in DOMAIN n \ {id} : n1[j] = n[j]
  BY DEF OneLeft
<1> DEFINE p == n[id].parent
           K == Instead(n, id, c)
           t2 == PromoteSingleChildAsParentChild(Rec(n1, sv), id)
<1>0. Nil \notin IDs /\ id \in IDs /\ DOMAIN n \subseteq IDs /\ rt \in DOMAIN n /\ rt # Nil
  BY IDsAre DEF Tree, Shape, Rooted
<1>1. c \in DOMAIN n /\ c # rt /\ n[c].parent = id /\ c \in IDs
  BY <1>0 DEF Tree, Linked, Kids, Elems
<1>2. p \in DOMAIN n /\ p # id /\ p \in IDs /\ c # id /\ c # p
  <2>1. p \in DOMAIN n
    BY DEF Tree, Linked
  <2>2. d[p] < d[id] /\ d[id] < d[c] /\ d[p] \in Nat /\ d[id] \in Nat /\ d[c] \in Nat
    BY <1>0, <1>1, <2>1 DEF Ranked
  <2> QED
    BY <1>0, <2>1, <2>2
<1>3. c \notin Kids(n, p)
  BY <1>1, <1>2 DEF Tree, Linked
<1>4. /\ n[p].kids # <<>>
      /\ K \in Seq(IDs \cup {Nil}) /\ Len(K) = Len(n[p].slots) + 1
      /\ Distinct(K, IDs) /\ Elems(K, IDs) = (Kids(n, p) \ {id}) \cup ({c} \cap IDs)
      /\ NodeOK(Node(n[p].parent, n[p].slots, K))
  <2>1. InsteadOK(n, id, p, K, c)
    BY <1>1, <1>3, InsteadOf
  <2> HIDE DEF p, K
  <2> QED
    BY <2>1 DEF InsteadOK
<1>5. n1[p] = n[p] /\ n1[c] = n[c] /\ GetIndexOfChild(n1, id) = GetIndexOfChild(n, id) /\ n1[id].parent = p
  BY <1>1, <1>2, GetIndexSame
<1>6. /\ n[p] = Node(n[p].parent, n[p].slots, n[p].kids)
      /\ n[c] = Node(n[c].parent, n[c].slots, n[c].kids) /\ NodeOK(n[c]) /\ n[c].slots # <<>>
  BY <1>1, <1>2, NodeFacts
<1>7. [n[p] EXCEPT !.kids[GetIndexOfChild(n, id) + 1] = c] = Node(n[p].parent, n[p].slots, K)
  BY <1>6 DEF Node, Instead
<1>8. [n[c] EXCEPT !.parent = p] = Node(p, n[c].slots, n[c].kids)
  BY <1>6 DEF Node
<1> DEFINE t1 == SaveNode(Rec(n1, sv), p, Node(n[p].parent, n[p].slots, K))
<1>9. t2 = RemoveNode(SaveNode(t1, c, [t1.n[c] EXCEPT !.parent = p]), id)
  BY <1>5, <1>7, ZenonT(60) DEF PromoteSingleChildAsParentChild, Rec
<1>10. t1.n[c] = n[c]
  BY <1>1, <1>2, <1>5 DEF SaveNode, With, Rec
<1> HIDE DEF K, t2, p
<1>11. /\ DOMAIN t2.n = DOMAIN n \ {id}
       /\ t2.n[p] = Node(n[p].parent, n[p].slots, K)
       /\ t2.n[c] = Node(p, n[c].slots, n[c].kids)
       /\ \A j \in DOMAIN n \ {id, p, c} : t2.n[j] = n[j]
       /\ t2.saved = sv \cup {p, c, id}
  BY <1>1, <1>2, <1>8, <1>9, <1>10 DEF RemoveNode, SaveNode, With, Rec
<1>12. /\ Part(t2.n[p], n[p].parent, (Kids(n, p) \ {id}) \cup {c}, Its(n, p))
       /\ t2.n[p].slots = <<>> => p = rt
  <2>1. n[p].slots = <<>> => p = rt
    BY <1>2 DEF Tree, Shape
  <2> QED
    BY <2>1, <1>1, <1>4, <1>11 DEF Part, Node, Its
<1>13. Part(t2.n[c], p, Kids(n, c), Its(n, c)) /\ t2.n[c].slots # <<>>
  BY <1>2, <1>6, <1>11 DEF Part, Node, NodeOK, Its, Kids
<1>14. Lift(n, rt, id, t2.n, y, p, c)
  BY <1>11, <1>12, <1>13 DEF Lift, p
<1>15. Takes(n, t2.n, rt, id, y)
  BY <1>14, NodeLifts
<1>16. Saves(n, sv, t2, rt)
  BY <1>0, <1>1, <1>2, <1>11 DEF Saves
<1>17. Lifted(n, t2.n, id, c)
  <2>1. Looks(t2.n, p, n[p].slots, K)
    BY <1>11 DEF Looks, Node
  <2>2. Looks(t2.n, c, n[c].slots, n[c].kids)
    BY <1>11 DEF Looks, Node
  <2>3. \A j \in DOMAIN n \ {id, p} : Looks(t2.n, j, n[j].slots, n[j].kids)
    BY <2>2, <1>11 DEF Looks
  <2> QED
    BY <2>1, <2>3, <1>11 DEF Lifted, K, p
<1> QED
  BY <1>15, <1>16, <1>17 DEF LiftOK, t2

\* CollapseRoot, of a root that has lost its last item and has one child.
LEMMA CollapseTakes ==
  ASSUME NEW n, NEW n1, NEW sv, NEW rt \in DOMAIN n, Tree(n, rt, Nil), NEW d \in [IDs -> Nat], Ranked(n, rt, d),
         NEW y, NEW c, Kids(n, rt) = {c}, Its(n, rt) \subseteq {y},
         DOMAIN n1 = DOMAIN n, n1[rt].kids[1] = c,
         \A j \in DOMAIN n \ {rt} : n1[j] = n[j]
  PROVE  /\ Takes(n, CollapseRoot(Rec(n1, sv), rt).n, rt, rt, y)
         /\ Saves(n, sv, CollapseRoot(Rec(n1, sv), rt), rt)
         /\ Collapsed(n, CollapseRoot(Rec(n1, sv), rt).n, rt, c)
<1> DEFINE t2 == CollapseRoot(Rec(n1, sv), rt)
           t1 == RemoveNode(SaveNode(Rec(n1, sv), rt, Node(Nil, n[c].slots, n[c].kids)), c)
<1>0. Nil \notin IDs /\ DOMAIN n \subseteq IDs /\ rt # Nil
  BY IDsAre DEF Tree, Shape
<1>1. c \in DOMAIN n /\ c # rt /\ n[c].parent = rt /\ c \in IDs
  BY <1>0 DEF Tree, Linked, Kids, Elems
<1>2. n1[c] = n[c] /\ t2 = UpdateChildrenParent(t1, rt)
  BY <1>1 DEF CollapseRoot, Rec
<1>3. /\ NodeOK(n[c]) /\ n[c].kids \in Seq(IDs \cup {Nil}) /\ n[c].slots # <<>>
      /\ n[c] = Node(n[c].parent, n[c].slots, n[c].kids)
  BY <1>1, NodeFacts
<1>4. /\ DOMAIN t1.n = DOMAIN n \ {c}
      /\ t1.n[rt] = Node(Nil, n[c].slots, n[c].kids)
      /\ \A j \in DOMAIN n \ {rt, c} : t1.n[j] = n[j]
      /\ t1.saved = sv \cup {rt, c}
  BY <1>1 DEF RemoveNode, SaveNode, With, Rec
<1> HIDE DEF t1
<1>5. t1.n[rt].kids = n[c].kids /\ ToSet(t1.n[rt].kids) \ {Nil} = Kids(n, c)
  BY <1>3, <1>4, ToSetIs DEF Node, Kids
<1>6. /\ t2.n = Adopted(t1.n, rt) /\ t2.saved = sv \cup {rt, c} \cup Kids(n, c)
  BY <1>2, <1>4, <1>5 DEF UpdateChildrenParent
<1> HIDE DEF t2
<1>7. /\ DOMAIN t2.n = DOMAIN n \ {c}
      /\ \A j \in DOMAIN n \ {c} : t2.n[j] = IF j \in Kids(n, c) THEN [t1.n[j] EXCEPT !.parent = rt] ELSE t1.n[j]
  BY <1>4, <1>5, <1>6 DEF Adopted
<1>8. Kids(n, c) \subseteq IDs /\ rt \notin Kids(n, c)
  BY <1>0, <1>1 DEF Tree, Linked, Kids, Elems
<1>9. Part(t2.n[rt], Nil, Kids(n, c), Its(n, c))
  <2>1. t2.n[rt] = Node(Nil, n[c].slots, n[c].kids)
    BY <1>1, <1>4, <1>7, <1>8
  <2> QED
    BY <2>1, <1>3 DEF Part, Node, NodeOK, Its, Kids
<1>10. ASSUME NEW j \in DOMAIN n \ {rt, c}
       PROVE  /\ Part(t2.n[j], IF j \in Kids(n, c) THEN rt ELSE n[j].parent, Kids(n, j), Its(n, j))
              /\ t2.n[j].slots # <<>>
  <2>1. NodeOK(n[j]) /\ n[j] = Node(n[j].parent, n[j].slots, n[j].kids) /\ n[j].slots # <<>>
    BY NodeFacts
  <2>2. CASE j \in Kids(n, c)
    <3>1. t2.n[j] = Node(rt, n[j].slots, n[j].kids)
      BY <2>1, <2>2, <1>4, <1>7 DEF Node
    <3> QED
      BY <2>1, <2>2, <3>1, <1>0 DEF Part, NodeOK, Node, Its, Kids
  <2>3. CASE j \notin Kids(n, c)
    <3>1. t2.n[j] = n[j]
      BY <2>3, <1>4, <1>7
    <3> QED
      BY <2>1, <2>3, <3>1 DEF Part, Its, Kids
  <2> QED
    BY <2>2, <2>3
<1>11. Collapse(n, rt, t2.n, y, c)
  BY <1>7, <1>9, <1>10 DEF Collapse
<1>12. Takes(n, t2.n, rt, rt, y)
  BY <1>11, RootCollapses
<1>13. Saves(n, sv, t2, rt)
  <2>1. sv \subseteq t2.saved /\ t2.saved \subseteq sv \cup IDs
    BY <1>0, <1>1, <1>6, <1>8
  <2>2. ASSUME NEW j \in (DOMAIN n \cup DOMAIN t2.n) \ {rt}
        PROVE  (j \in DOMAIN n /\ j \in DOMAIN t2.n /\ t2.n[j] = n[j]) \/ j \in t2.saved
    <3>1. CASE j = c \/ j \in Kids(n, c)
      BY <3>1, <1>6
    <3>2. CASE j # c /\ j \notin Kids(n, c)
      BY <3>2, <1>4, <1>7
    <3> QED
      BY <3>1, <3>2
  <2> QED
    BY <2>1, <2>2 DEF Saves
<1>14. Collapsed(n, t2.n, rt, c)
  <2>1. Looks(t2.n, rt, n[c].slots, n[c].kids)
    <3>1. t2.n[rt] = Node(Nil, n[c].slots, n[c].kids)
      BY <1>1, <1>4, <1>7, <1>8
    <3> QED
      BY <3>1 DEF Looks, Node
  <2>2. ASSUME NEW j \in DOMAIN n \ {rt, c}
        PROVE  Looks(t2.n, j, n[j].slots, n[j].kids)
    <3>1. n[j] = Node(n[j].parent, n[j].slots, n[j].kids) /\ t1.n[j] = n[j]
      BY <1>4, NodeFacts
    <3>2. CASE j \in Kids(n, c)
      <4>1. t2.n[j] = Node(rt, n[j].slots, n[j].kids)
        BY <3>1, <3>2, <1>7 DEF Node
      <4> QED
        BY <4>1 DEF Looks, Node
    <3>3. CASE j \notin Kids(n, c)
      BY <3>1, <3>3, <1>7 DEF Looks
    <3> QED
      BY <3>2, <3>3
  <2> QED
    BY <2>1, <2>2, <1>7 DEF Collapsed
<1> QED
  BY <1>12, <1>13, <1>14 DEF t2

\* Node id has lost its slot k and, between children, the pruned one beside it.
Thinned(n, n2, id, k) ==
    /\ DOMAIN n2 = DOMAIN n
    /\ Looks(n2, id, RemoveAt(n[id].slots, k + 1), IF n[id].kids = <<>> THEN <<>> ELSE Shrunk(n, id, k).kids)
    /\ \A j \in DOMAIN n \ {id} : Looks(n2, j, n[j].slots, n[j].kids)

Reshaped(n, n2, rt, id, k) ==
    \/ Thinned(n, n2, id, k)
    \/ id # rt /\ Pruned(n, n2, id)
    \/ id # rt /\ \E c \in Kids(n, id) : Lifted(n, n2, id, c)
    \/ id = rt /\ \E c \in Kids(n, rt) : Collapsed(n, n2, rt, c)

\* A removal keeps the tree, saves what it changes, and has one of these shapes.
RemovalOK(n, sv, t2, rt, id, k) ==
    Takes(n, t2.n, rt, id, n[id].slots[k + 1]) /\ Saves(n, sv, t2, rt) /\ Reshaped(n, t2.n, rt, id, k)

\* RemoveItemOnNodeWithNilChild.
LEMMA NilChildTakes ==
  ASSUME NEW n, NEW sv, NEW rt, Tree(n, rt, Nil), NEW d \in [IDs -> Nat], Ranked(n, rt, d),
         NEW id \in DOMAIN n, NEW k \in 0..Len(n[id].slots) - 1, HasNilChildAt(n, id, k)
  PROVE  RemovalOK(n, sv, RemoveItemOnNodeWithNilChild(Rec(n, sv), id, k), rt, id, k)
<1> DEFINE nd == Shrunk(n, id, k)
           y == n[id].slots[k + 1]
           n1 == With(n, id, nd)
           t2 == RemoveItemOnNodeWithNilChild(Rec(n, sv), id, k)
<1>1. ShrunkOK(n, id, y, nd)
  BY ShrunkIs
<1>2. Len(n[id].slots) \in Nat /\ Len(n[id].slots) >= 1 /\ n[id].parent \in IDs \cup {Nil}
      /\ (IsRootNode(n, id) <=> id = rt) /\ id \in IDs
  BY NodeFacts, SlotOut
<1>3. /\ n1 = With(n, id, nd)
      /\ DOMAIN n1 = DOMAIN n /\ n1[id] = nd /\ \A j \in DOMAIN n \ {id} : n1[j] = n[j]
  BY DEF With
<1>4. t2 = CASE nd.slots # <<>> -> SaveNode(Rec(n, sv), id, nd)
             [] nd.slots = <<>> /\ nd.kids[1] # Nil /\ IsRootNode(n, id) -> CollapseRoot(Rec(n1, sv), id)
             [] nd.slots = <<>> /\ nd.kids[1] # Nil /\ ~ IsRootNode(n, id) -> PromoteSingleChildAsParentChild(Rec(n1, sv), id)
             [] OTHER -> Unlink(Rec(n1, sv), id)
  BY DEF RemoveItemOnNodeWithNilChild, Rec, Shrunk, Node
<1>e. n[id].kids # <<>> /\ nd.slots = RemoveAt(n[id].slots, k + 1) /\ nd.kids = Shrunk(n, id, k).kids
  BY DEF HasNilChildAt, HasChildren, Shrunk, Node
<1> HIDE DEF nd, y, n1, t2
<1>t. Thinned(n, n1, id, k)
  BY <1>3, <1>e DEF Thinned, Looks
<1>5. /\ Part(nd, n[id].parent, Kids(n, id), Its(n, id) \ {y}) /\ NodeOK(nd) /\ nd.parent = n[id].parent
      /\ Elems(nd.kids, IDs) = Kids(n, id) /\ Elems(nd.slots, Items) = Its(n, id) \ {y}
      /\ Len(nd.slots) = Len(n[id].slots) - 1 /\ Len(nd.kids) = Len(n[id].slots)
      /\ nd.slots \in Seq(Items)
  BY <1>1 DEF ShrunkOK, Part, NodeOK
<1>6. nd.slots = <<>> => Len(nd.slots) = 0
  BY <1>5, EmptyIs
<1>7. ASSUME nd.slots = <<>>
      PROVE  /\ Its(n, id) \subseteq {y} /\ nd.kids[1] \in IDs \cup {Nil}
             /\ Kids(n, id) = IF nd.kids[1] = Nil THEN {} ELSE {nd.kids[1]}
  <2>1. Len(nd.slots) = 0 /\ Len(nd.kids) = 1
    BY <1>2, <1>5, <1>6, <1>7
  <2>2. Elems(nd.slots, Items) = {}
    BY <1>7, NoElems
  <2> QED
    BY <2>1, <2>2, <1>5, OnlyKid
<1>8. CASE nd.slots # <<>>
  <2>1. t2 = SaveNode(Rec(n, sv), id, nd)
    BY <1>4, <1>8
  <2>2. t2.n = n1 /\ t2.saved = sv \cup {id}
    BY <2>1, <1>3 DEF SaveNode, Rec
  <2>3. SlotGo(n, rt, id, n1, y)
    BY <1>3, <1>5, <1>8 DEF SlotGo
  <2>4. Takes(n, t2.n, rt, id, y)
    BY <2>2, <2>3, SlotGoes
  <2>5. Saves(n, sv, t2, rt)
    BY <2>2, <1>2, <1>3 DEF Saves
  <2>6. Reshaped(n, t2.n, rt, id, k)
    BY <2>2, <1>t DEF Reshaped
  <2> QED
    BY <2>4, <2>5, <2>6 DEF RemovalOK, y, t2
<1>9. CASE nd.slots = <<>> /\ nd.kids[1] # Nil /\ id = rt
  <2>1. t2 = CollapseRoot(Rec(n1, sv), rt)
    BY <1>2, <1>4, <1>9
  <2>2. Kids(n, rt) = {nd.kids[1]} /\ Its(n, rt) \subseteq {y} /\ n1[rt].kids[1] = nd.kids[1]
    BY <1>3, <1>7, <1>9
  <2>a. rt \in DOMAIN n /\ DOMAIN n1 = DOMAIN n /\ \A j \in DOMAIN n \ {rt} : n1[j] = n[j]
    BY <1>3, <1>9
  <2> DEFINE c == nd.kids[1]
  <2>b. Kids(n, rt) = {c} /\ Its(n, rt) \subseteq {y} /\ n1[rt].kids[1] = c
    BY <2>2
  <2> HIDE DEF c
  <2>3. Takes(n, t2.n, rt, rt, y) /\ Saves(n, sv, t2, rt) /\ Collapsed(n, t2.n, rt, c)
    BY <2>1, <2>a, <2>b, CollapseTakes
  <2>4. Reshaped(n, t2.n, rt, id, k)
    BY <2>3, <2>b, <1>9 DEF Reshaped
  <2> QED
    BY <2>3, <2>4, <1>9 DEF RemovalOK, y, t2
<1>10. CASE nd.slots = <<>> /\ nd.kids[1] # Nil /\ id # rt
  <2>1. t2 = PromoteSingleChildAsParentChild(Rec(n1, sv), id)
    BY <1>2, <1>4, <1>10
  <2>2. /\ Kids(n, id) = {nd.kids[1]} /\ Its(n, id) \subseteq {y} /\ n1[id].kids[1] = nd.kids[1]
        /\ n1[id].parent = n[id].parent
    BY <1>3, <1>5, <1>7, <1>10
  <2> DEFINE c == nd.kids[1]
  <2>a. /\ Kids(n, id) = {c} /\ Its(n, id) \subseteq {y} /\ n1[id].kids[1] = c
        /\ n1[id].parent = n[id].parent
    BY <2>2
  <2> HIDE DEF c
  <2>b. DOMAIN n1 = DOMAIN n /\ (\A j \in DOMAIN n \ {id} : n1[j] = n[j]) /\ id # rt
    BY <1>3, <1>10
  <2>c. OneLeft(n, n1, id, y, c) /\ id # rt
    BY <2>a, <2>b DEF OneLeft
  <2>d. LiftOK(n, sv, t2, rt, id, y, c)
    BY <2>1, <2>c, LiftTakes
  <2>3. Takes(n, t2.n, rt, id, y) /\ Saves(n, sv, t2, rt) /\ Lifted(n, t2.n, id, c)
    BY <2>d DEF LiftOK
  <2>4. Reshaped(n, t2.n, rt, id, k)
    BY <2>3, <2>a, <1>10 DEF Reshaped
  <2> QED
    BY <2>3, <2>4 DEF RemovalOK, y, t2
<1>11. CASE nd.slots = <<>> /\ nd.kids[1] = Nil /\ id # rt
  <2>1. t2 = Unlink(Rec(n1, sv), id)
    BY <1>4, <1>11
  <2>2. Kids(n, id) = {} /\ Its(n, id) \subseteq {y} /\ n1[id].parent = n[id].parent
    BY <1>3, <1>5, <1>7, <1>11
  <2>3. Takes(n, t2.n, rt, id, y) /\ Saves(n, sv, t2, rt) /\ Pruned(n, t2.n, id)
    BY <2>1, <2>2, <1>3, <1>11, UnlinkTakes
  <2>4. Reshaped(n, t2.n, rt, id, k)
    BY <2>3, <1>11 DEF Reshaped
  <2> QED
    BY <2>3, <2>4 DEF RemovalOK, y, t2
<1>12. CASE nd.slots = <<>> /\ nd.kids[1] = Nil /\ id = rt
  <2>1. t2 = Unlink(Rec(n1, sv), id)
    BY <1>4, <1>12
  <2>2. IsRootNode(n1, id)
    BY <1>2, <1>3, <1>5, <1>12 DEF IsRootNode
  <2>3. t2 = Rec(n1, sv)
    BY <2>1, <2>2 DEF Unlink, Rec
  <2>4. t2.n = n1 /\ t2.saved = sv
    BY <2>3 DEF Rec
  <2>5. SlotGo(n, rt, id, n1, y)
    BY <1>3, <1>5, <1>12 DEF SlotGo
  <2>6. Takes(n, t2.n, rt, id, y)
    BY <2>4, <2>5, SlotGoes
  <2>7. Saves(n, sv, t2, rt)
    BY <2>4, <1>2, <1>3, <1>12 DEF Saves
  <2>8. Reshaped(n, t2.n, rt, id, k)
    BY <2>4, <1>t DEF Reshaped
  <2> QED
    BY <2>6, <2>7, <2>8 DEF RemovalOK, y, t2
<1> QED
  BY <1>8, <1>9, <1>10, <1>11, <1>12, Zenon

\* RemoveSlot, wherever a slot may be removed.
LEMMA RemoveSlotTakes ==
  ASSUME NEW n, NEW sv, NEW rt, Tree(n, rt, Nil), NEW d \in [IDs -> Nat], Ranked(n, rt, d),
         NEW id \in DOMAIN n, NEW k \in 0..Len(n[id].slots) - 1,
         HasChildren(n, id) => HasNilChildAt(n, id, k)
  PROVE  RemovalOK(n, sv, RemoveSlot(Rec(n, sv), id, k), rt, id, k)
<1> DEFINE y == n[id].slots[k + 1]
           s2 == RemoveAt(n[id].slots, k + 1)
           nd == Node(n[id].parent, s2, n[id].kids)
           n1 == With(n, id, nd)
           t2 == RemoveSlot(Rec(n, sv), id, k)
<1>0. /\ n[id].parent \in IDs \cup {Nil} /\ (IsRootNode(n, id) <=> id = rt) /\ id \in IDs
      /\ Len(n[id].slots) <= SlotLength /\ Distinct(n[id].kids, IDs) /\ n[id].kids \in Seq(IDs \cup {Nil})
      /\ n[id] = Node(n[id].parent, n[id].slots, n[id].kids)
  BY NodeFacts
<1>1. /\ s2 \in Seq(Items) /\ Len(s2) = Len(n[id].slots) - 1 /\ Distinct(s2, Items)
      /\ Elems(s2, Items) = Its(n, id) \ {y}
      /\ Len(n[id].slots) \in Nat /\ Len(n[id].slots) >= 1
  BY SlotOut
<1>2. CASE HasNilChildAt(n, id, k)
  <2>1. t2 = RemoveItemOnNodeWithNilChild(Rec(n, sv), id, k)
    BY <1>2 DEF RemoveSlot, Rec
  <2> QED
    BY <2>1, <1>2, NilChildTakes
<1>3. CASE ~ HasNilChildAt(n, id, k)
  <2>1. n[id].kids = <<>> /\ t2 = FixVacatedSlot(Rec(n, sv), id, k)
    BY <1>3 DEF RemoveSlot, Rec, HasChildren
  <2>2. Kids(n, id) = {}
    BY <2>1, NoElems DEF Kids
  <2>3. CASE Len(n[id].slots) > 1 \/ id = rt
    <3>1. t2 = SaveNode(Rec(n, sv), id, [n[id] EXCEPT !.slots = s2])
      BY <2>1, <2>3, <1>0 DEF FixVacatedSlot, Count, Rec
    <3> HIDE DEF s2, t2
    <3>2. [n[id] EXCEPT !.slots = s2] = nd
      BY <1>0 DEF Node
    <3>3. t2.n = n1 /\ t2.saved = sv \cup {id}
      BY <3>1, <3>2 DEF SaveNode, Rec
    <3>4. /\ Part(nd, n[id].parent, Kids(n, id), Its(n, id) \ {y})
          /\ nd.slots = s2
      <4>1. Len(s2) <= SlotLength
        BY <1>0, <1>1, BTreeAssumption
      <4> HIDE DEF y
      <4> QED
        BY <4>1, <2>1, <1>0, <1>1 DEF Part, NodeOK, Node, Kids
    <3>5. nd.slots = <<>> => id = rt
      <4>1. s2 = <<>> => Len(s2) = 0
        BY <1>1, EmptyIs
      <4> DEFINE N == Len(n[id].slots)
      <4>2. (N > 1 \/ id = rt) /\ N \in Nat /\ Len(s2) = N - 1
        BY <2>3, <1>1
      <4> HIDE DEF nd, N
      <4>3. Len(s2) = 0 => id = rt
        BY <4>2
      <4> QED
        BY <3>4, <4>1, <4>3
    <3>6. DOMAIN n1 = DOMAIN n /\ n1[id] = nd /\ \A j \in DOMAIN n \ {id} : n1[j] = n[j]
      BY DEF With
    <3>t. Thinned(n, n1, id, k)
      <4>1. nd.kids = <<>>
        BY <2>1 DEF Node
      <4>2. Looks(n1, id, RemoveAt(n[id].slots, k + 1), <<>>)
        BY <4>1, <3>4, <3>6 DEF Looks, s2
      <4> QED
        BY <4>2, <2>1, <3>6 DEF Thinned, Looks
    <3> HIDE DEF nd, n1, y
    <3>7. SlotGo(n, rt, id, n1, y)
      BY <3>4, <3>5, <3>6 DEF SlotGo
    <3>8. Takes(n, t2.n, rt, id, y)
      BY <3>3, <3>7, SlotGoes
    <3>9. Saves(n, sv, t2, rt)
      BY <3>3, <3>6, <1>0 DEF Saves
    <3>10. Reshaped(n, t2.n, rt, id, k)
      BY <3>3, <3>t DEF Reshaped
    <3> QED
      BY <3>8, <3>9, <3>10 DEF RemovalOK, y, t2
  <2>4. CASE Len(n[id].slots) = 1 /\ id # rt
    <3>1. t2 = Unlink(Rec(n, sv), id)
      <4>1. ~ (Len(n[id].slots) > 1) /\ ~ IsRootNode(n, id)
        BY <2>4, <1>0
      <4> QED
        BY <2>1, <4>1 DEF FixVacatedSlot, Count, Rec
    <3>2. Its(n, id) \subseteq {y}
      <4>1. Len(s2) = 0
        BY <2>4, <1>1
      <4>2. s2 = <<>>
        BY <4>1, <1>1, EmptyIs
      <4> QED
        BY <4>2, <1>1, NoElems
    <3> HIDE DEF t2, y
    <3>3. Takes(n, t2.n, rt, id, y) /\ Saves(n, sv, t2, rt) /\ Pruned(n, t2.n, id)
      BY <2>2, <2>4, <3>1, <3>2, UnlinkTakes
    <3>4. Reshaped(n, t2.n, rt, id, k)
      BY <2>4, <3>3 DEF Reshaped
    <3> QED
      BY <3>3, <3>4 DEF RemovalOK, y, t2
  <2>5. (Len(n[id].slots) > 1 \/ id = rt) \/ (Len(n[id].slots) = 1 /\ id # rt)
    <3> DEFINE N == Len(n[id].slots)
    <3>1. N \in Nat /\ N >= 1
      BY <1>1
    <3> HIDE DEF N
    <3>2. N > 1 \/ N = 1
      BY <3>1
    <3> QED
      BY <3>2 DEF N
  <2> QED
    BY <2>3, <2>4, <2>5, Zenon
<1> QED
  BY <1>2, <1>3

-----------------------------------------------------------------------------
(* The steps of an addition. *)

\* What ChangesAreSaved says of a step.
StepSaved ==
    \A id \in (DOMAIN nodes \cup DOMAIN nodes') \ {root'} :
      \/ id \in DOMAIN nodes \cap DOMAIN nodes' /\ nodes'[id] = nodes[id]
      \/ id \in saved'

\* What the nodes look like behind a step: one node has other slots and children; it has a new leaf
\* where a child was pruned; it has one separator between two new nodes with its halves; it has the
\* lower half, a new sibling the upper one, and the separator is on its way up.
Others(id) == \A j \in DOMAIN nodes \ {id} : Looks(nodes', j, nodes[j].slots, nodes[j].kids)

Rewritten(s, K) == DOMAIN nodes' = DOMAIN nodes /\ Looks(nodes', call.node, s, K) /\ Others(call.node)
Filled ==
    \E c \in IDs \ DOMAIN nodes :
      /\ DOMAIN nodes' = DOMAIN nodes \cup {c}
      /\ Looks(nodes', call.node, nodes[call.node].slots, [nodes[call.node].kids EXCEPT ![Index + 1] = c])
      /\ Looks(nodes', c, <<call.item>>, <<>>) /\ Others(call.node)
Broken(S2, LK, UK) ==
    \E l, r \in IDs \ DOMAIN nodes :
      /\ l # r /\ DOMAIN nodes' = DOMAIN nodes \cup {l, r}
      /\ Looks(nodes', call.node, <<S2[Half + 1]>>, <<l, r>>)
      /\ Looks(nodes', l, LowerSlots(S2), LK) /\ Looks(nodes', r, UpperSlots(S2), UK) /\ Others(call.node)
Divided(S2, LK, UK) ==
    \E r \in IDs \ DOMAIN nodes :
      /\ DOMAIN nodes' = DOMAIN nodes \cup {r}
      /\ Looks(nodes', call.node, LowerSlots(S2), LK) /\ Looks(nodes', r, UpperSlots(S2), UK) /\ Others(call.node)
      /\ call' = [op |-> "promote", node |-> nodes[call.node].parent, index |-> GetIndexOfChild(nodes, call.node),
                  item |-> S2[Half + 1], left |-> call.node, right |-> r]

\* A child is a node of the tree, and neither the root nor the sibling.
LEMMA KidsIn ==
  ASSUME NEW n, NEW rt, NEW pr, Tree(n, rt, pr)
  PROVE  \A id \in DOMAIN n : Kids(n, id) \subseteq DOMAIN n \ {rt, pr}
BY DEF Tree, Linked, Kids, Elems

\* The invariant, said of the tree alone.
LEMMA SoundNow ==
  ASSUME TreeInv
  PROVE  Sound(nodes, root, Sibling) /\ Tree(nodes, root, Sibling)
BY DEF TreeInv, Sound, RankOK

\* A call on its way down.
AddFacts ==
    /\ Sound(nodes, root, Nil) /\ Tree(nodes, root, Nil)
    /\ call.node \in DOMAIN nodes /\ call.node \in IDs
    /\ call.item \in Items /\ call.item \notin All(nodes)
    /\ Index \in 0..Len(Here.slots)
    /\ saved \subseteq IDs

\* What holds at a node an item is on its way down to.
LEMMA AddNow ==
  ASSUME TreeInv, call.op = "add"
  PROVE  AddFacts
<1>1. /\ call \in [op : {"add"}, item : Items, unique : BOOLEAN, node : DOMAIN nodes]
      /\ call.item \notin All(nodes)
  BY DEF TreeInv, CallOK, Idle, Added, Removed
<1>2. Sibling = Nil
  BY DEF Sibling
<1>3. Sound(nodes, root, Nil) /\ Tree(nodes, root, Nil)
  BY <1>2, SoundNow
<1>4. Here.slots \in Seq(Items) /\ call.node \in IDs
  BY <1>1, <1>3, NodeFacts DEF Here
<1>5. Index \in 0..Len(Here.slots)
  BY <1>4, IndexIs DEF Index
<1> QED
  BY <1>1, <1>3, <1>4, <1>5 DEF AddFacts, TreeInv

\* A call on its way up.
PromoteFacts ==
    /\ Sound(nodes, root, call.right) /\ Tree(nodes, root, call.right)
    /\ call.node \in DOMAIN nodes /\ call.node \in IDs
    /\ call.item \in Items /\ call.item \notin All(nodes)
    /\ call.right \in DOMAIN nodes /\ call.right # root /\ nodes[call.right].parent = call.node
    /\ Here.kids # <<>> /\ call.index \in 0..Len(Here.slots)
    /\ Here.kids[call.index + 1] = call.left /\ call.left \in DOMAIN nodes
    /\ saved \subseteq IDs

\* What holds at a node a separator is on its way up to.
LEMMA PromoteNow ==
  ASSUME TreeInv, call.op = "promote"
  PROVE  PromoteFacts
<1>1. /\ call \in [op : {"promote"}, node : DOMAIN nodes, index : 0..SlotLength, item : Items,
                   left : DOMAIN nodes, right : DOMAIN nodes]
      /\ call.right # root /\ nodes[call.right].parent = call.node
      /\ nodes[call.node].kids # <<>> /\ call.index <= Len(nodes[call.node].slots)
      /\ nodes[call.node].kids[call.index + 1] = call.left
      /\ call.item \notin All(nodes)
  BY DEF TreeInv, CallOK, Idle, Added, Removed
<1>2. Sibling = call.right
  BY DEF Sibling
<1>3. Sound(nodes, root, call.right) /\ Tree(nodes, root, call.right)
  BY <1>2, SoundNow
<1>4. call.node \in IDs /\ Len(Here.slots) \in Nat
  BY <1>1, <1>3, NodeFacts DEF Here
<1>5. call.index \in 0..Len(Here.slots)
  BY <1>1, <1>4 DEF Here
<1> QED
  BY <1>1, <1>3, <1>4, <1>5 DEF PromoteFacts, TreeInv, Here

\* The item has its place, and the call returns.
LEMMA Placed ==
  ASSUME TreeInv, call.op \in {"add", "promote"}, call.item \in Items, call.item \notin All(nodes),
         Sound(nodes', root, Nil), All(nodes') = All(nodes) \cup {call.item},
         call' = Added, root' = root, count' = count, saved' \subseteq IDs
  PROVE  TreeInv'
<1>1. Sibling' = Nil /\ Extra' = 1 /\ Extra = 0
  BY DEF Sibling, Extra, Added
<1>2. CallOK'
  BY DEF CallOK
<1>3. Counting'
  <2>1. /\ count \in Nat /\ IsFiniteSet(All(nodes)) /\ Cardinality(All(nodes)) = count + 0
    BY <1>1 DEF TreeInv, Counting
  <2>2. /\ IsFiniteSet(All(nodes) \cup {call.item})
        /\ Cardinality(All(nodes) \cup {call.item}) = Cardinality(All(nodes)) + 1
    BY <2>1, FS_AddElement
  <2> QED
    BY <2>1, <2>2, <1>1 DEF Counting
<1>4. (\E d \in [IDs -> Nat] : RankOK(d))'
  BY DEF Sound, RankOK, Added
<1>5. root \in IDs \cup {Nil} /\ Tree(nodes', root, Nil) /\ Apart(nodes')
  BY DEF TreeInv, Sound
<1> QED
  BY <1>1, <1>2, <1>3, <1>4, <1>5 DEF TreeInv

\* A split has moved a separator out of the tree, which goes on its way up.
LEMMA Separated ==
  ASSUME TreeInv, call.op \in {"add", "promote"}, call.item \in Items, call.item \notin All(nodes),
         NEW p, NEW i, NEW m, NEW l, NEW r,
         Sound(nodes', root, r), m \in Items, m \notin All(nodes'),
         All(nodes') \cup {m} = All(nodes) \cup {call.item},
         call' = [op |-> "promote", node |-> p, index |-> i, item |-> m, left |-> l, right |-> r],
         p \in DOMAIN nodes', i \in 0..SlotLength, l \in DOMAIN nodes', r \in DOMAIN nodes', r # root,
         nodes'[r].parent = p, nodes'[p].kids # <<>>, i <= Len(nodes'[p].slots),
         nodes'[p].kids[i + 1] = l,
         root' = root, count' = count, saved' \subseteq IDs
  PROVE  TreeInv'
<1>1. Sibling' = r /\ Extra' = 0 /\ Extra = 0
  BY DEF Sibling, Extra
<1>2. CallOK'
  BY DEF CallOK
<1>3. Counting'
  <2>1. /\ count \in Nat /\ IsFiniteSet(All(nodes)) /\ Cardinality(All(nodes)) = count + 0
    BY <1>1 DEF TreeInv, Counting
  <2>2. /\ IsFiniteSet(All(nodes) \cup {call.item})
        /\ Cardinality(All(nodes) \cup {call.item}) = Cardinality(All(nodes)) + 1
    BY <2>1, FS_AddElement
  <2>3. IsFiniteSet(All(nodes'))
    BY <2>2, FS_Subset
  <2>4. Cardinality(All(nodes') \cup {m}) = Cardinality(All(nodes')) + 1
    BY <2>3, FS_AddElement
  <2>5. Cardinality(All(nodes')) \in Nat
    BY <2>3, FS_CardinalityType
  <2>a. Cardinality(All(nodes') \cup {m}) = Cardinality(All(nodes) \cup {call.item})
    BY Zenon
  <2>6. Cardinality(All(nodes')) + 1 = count + 1
    BY <2>1, <2>2, <2>4, <2>a
  <2>7. Cardinality(All(nodes')) = count + 0
    BY <2>1, <2>5, <2>6
  <2> QED
    BY <2>1, <2>3, <2>7, <1>1 DEF Counting
<1>4. (\E d \in [IDs -> Nat] : RankOK(d))'
  BY DEF Sound, RankOK
<1>5. root \in IDs \cup {Nil} /\ Tree(nodes', root, r) /\ Apart(nodes')
  BY DEF TreeInv, Sound
<1> QED
  BY <1>1, <1>2, <1>3, <1>4, <1>5 DEF TreeInv

\* A new leaf takes the place of a pruned child.
LEMMA AddItemOnNodeWithNilChildStep ==
  ASSUME TreeInv, AddItemOnNodeWithNilChild
  PROVE  TreeInv' /\ StepSaved /\ Filled
<1> DEFINE id == call.node
           i == Index + 1
           x == call.item
           c == NewID(nodes)
           s == nodes[id].kids
           T == IDs \cup {Nil}
           K == [s EXCEPT ![i] = c]
<1>1. AddFacts
  BY AddNow DEF AddItemOnNodeWithNilChild
<1>2. s # <<>> /\ s[i] = Nil /\ c \in IDs \ DOMAIN nodes
  BY RoomFor DEF AddItemOnNodeWithNilChild, HasChildren, Here
<1>3. /\ s \in Seq(T) /\ Len(s) = Len(nodes[id].slots) + 1 /\ Distinct(s, IDs)
      /\ nodes[id] = Node(nodes[id].parent, nodes[id].slots, s)
      /\ NodeOK(nodes[id]) /\ Len(nodes[id].slots) \in Nat
      /\ id \in DOMAIN nodes
  BY <1>1, <1>2, NodeFacts DEF AddFacts
<1>4. i \in 1..Len(s) /\ Index \in Int
  BY <1>1, <1>3 DEF AddFacts, Here
<1>5. Kids(nodes, id) \subseteq DOMAIN nodes /\ Nil \notin IDs /\ DOMAIN nodes \subseteq IDs
  BY <1>1, <1>3, KidsIn, IDsAre DEF AddFacts, Tree, Shape
<1>6. nodes' = With(With(nodes, id, [nodes[id] EXCEPT !.kids[i] = c]), c, Node(id, <<x>>, <<>>))
  BY DEF AddItemOnNodeWithNilChild, Becomes, SaveNode, Working, Here
<1>6a. saved' = saved \cup {id, c}
  BY DEF AddItemOnNodeWithNilChild, Becomes, SaveNode, Working
<1>7. Replaceable(s, i, c, T, IDs)
  BY <1>2, <1>3, <1>4, <1>5 DEF Replaceable, Kids
<1> HIDE DEF s, T, i, c, id, x
<1>8. Replaced(s, i, c, T, IDs)
  BY <1>7, ReplaceElems
<1> HIDE DEF K
<1>9. K \in Seq(T) /\ Len(K) = Len(s) /\ Distinct(K, IDs) /\ Elems(K, IDs) = Kids(nodes, id) \cup {c}
  <2>1. Elems(s, IDs) = Kids(nodes, id) /\ Nil \notin Kids(nodes, id)
    BY <1>5 DEF Kids, s, Elems
  <2> QED
    BY <2>1, <1>2, <1>8 DEF Replaced, K
<1>10. [nodes[id] EXCEPT !.kids[i] = c] = Node(nodes[id].parent, nodes[id].slots, K)
  BY <1>3 DEF Node, K, s
<1>11. /\ DOMAIN nodes' = DOMAIN nodes \cup {c}
       /\ nodes'[id] = Node(nodes[id].parent, nodes[id].slots, K)
       /\ nodes'[c] = Node(id, <<x>>, <<>>)
       /\ \A j \in DOMAIN nodes \ {id} : nodes'[j] = nodes[j]
  BY <1>2, <1>3, <1>6, <1>10 DEF With
<1>12. Part(nodes'[id], nodes[id].parent, Kids(nodes, id) \cup {c}, Its(nodes, id))
  BY <1>3, <1>9, <1>11 DEF Part, NodeOK, Node, Its, T
<1>13. nodes'[id].slots = <<>> => id = root
  BY <1>1, <1>3, <1>11 DEF AddFacts, Tree, Shape, Node
<1>14. Part(nodes'[c], id, {}, {x}) /\ nodes'[c].slots # <<>>
  <2>1. x \in Items /\ id \in IDs
    BY <1>1 DEF AddFacts, x, id
  <2>2. <<x>> \in Seq(Items) /\ Len(<<x>>) = 1 /\ <<x>> # <<>> /\ 1 <= SlotLength
    BY <2>1, BTreeAssumption
  <2>3. Elems(<<x>>, Items) = {x} /\ Distinct(<<x>>, Items)
    BY <2>1, OneElem
  <2>4. Elems(<<>>, IDs) = {} /\ Distinct(<<>>, IDs) /\ <<>> \in Seq(T)
    BY NoElems
  <2> DEFINE u == <<x>>
             w == <<>>
  <2>5. /\ u \in Seq(Items) /\ Len(u) <= SlotLength /\ u # <<>> /\ Elems(u, Items) = {x} /\ Distinct(u, Items)
        /\ w = <<>> /\ Elems(w, IDs) = {} /\ Distinct(w, IDs) /\ w \in Seq(T)
        /\ nodes'[c] = Node(id, u, w)
    BY <2>2, <2>3, <2>4, <1>11
  <2> HIDE DEF u, w
  <2> QED
    BY <2>1, <2>5 DEF Part, NodeOK, Node, T
<1>15. FillNil(nodes, root, id, c, x, nodes')
  BY <1>1, <1>2, <1>3, <1>11, <1>12, <1>13, <1>14 DEF FillNil, AddFacts, x
<1>16. Sound(nodes', root, Nil) /\ All(nodes') = All(nodes) \cup {x}
  BY <1>15, FillsNil
<1>17. call' = Added /\ root' = root /\ count' = count /\ call.op = "add"
  BY DEF AddItemOnNodeWithNilChild
<1>18. saved' \subseteq IDs
  BY <1>1, <1>2, <1>5, <1>3, <1>6a DEF AddFacts
<1>19. TreeInv'
  BY <1>1, <1>16, <1>17, <1>18, Placed DEF AddFacts, x
<1>20. StepSaved
  BY <1>11, <1>6a DEF StepSaved
<1>21. Filled
  <2>1. Looks(nodes', id, nodes[id].slots, K) /\ Looks(nodes', c, <<x>>, <<>>) /\ Others(id)
    BY <1>11 DEF Looks, Node, Others
  <2> QED
    BY <2>1, <1>2, <1>11 DEF Filled, K, s, i, id, x
<1> QED
  BY <1>19, <1>20, <1>21

\* A leaf with room takes the item.
LEMMA AddOnLeafStep ==
  ASSUME TreeInv, AddOnLeaf
  PROVE  TreeInv' /\ StepSaved /\ Rewritten(TempSlots, <<>>)
<1> DEFINE id == call.node
           i == Index + 1
           x == call.item
           s == nodes[id].slots
           S2 == InsertAt(s, i, x)
<1>1. AddFacts
  BY AddNow DEF AddOnLeaf, OnLeaf
<1>2. /\ s \in Seq(Items) /\ Len(s) \in Nat /\ Len(s) < SlotLength /\ Distinct(s, Items)
      /\ nodes[id] = Node(nodes[id].parent, s, nodes[id].kids)
      /\ NodeOK(nodes[id]) /\ id \in DOMAIN nodes /\ nodes[id].kids = <<>> /\ id \in IDs
  BY <1>1, NodeFacts DEF AddFacts, AddOnLeaf, OnLeaf, HasChildren, Here
<1>3. i \in 1..Len(s) + 1 /\ x \notin Elems(s, Items) /\ x \in Items
  BY <1>1, <1>2 DEF AddFacts, Here, All, Its
<1>4. nodes' = With(nodes, id, [nodes[id] EXCEPT !.slots = S2]) /\ saved' = saved \cup {id}
  BY DEF AddOnLeaf, Becomes, SaveNode, Working, Here, TempSlots
<1>5. Insertable(s, i, x, Items, Items)
  BY <1>2, <1>3 DEF Insertable
<1> HIDE DEF s, i, x, id
<1>6. Inserted(s, i, x, Items, Items)
  BY <1>5, InsertElems
<1> HIDE DEF S2
<1>7. S2 \in Seq(Items) /\ Len(S2) = Len(s) + 1 /\ Distinct(S2, Items) /\ Elems(S2, Items) = Its(nodes, id) \cup {x}
  BY <1>3, <1>6 DEF Inserted, S2, Its, s
<1>8. [nodes[id] EXCEPT !.slots = S2] = Node(nodes[id].parent, S2, nodes[id].kids)
  BY <1>2 DEF Node
<1>9. /\ DOMAIN nodes' = DOMAIN nodes
      /\ nodes'[id] = Node(nodes[id].parent, S2, nodes[id].kids)
      /\ \A j \in DOMAIN nodes \ {id} : nodes'[j] = nodes[j]
  BY <1>2, <1>4, <1>8 DEF With
<1>10. Len(S2) <= SlotLength /\ S2 # <<>>
  <2>1. Len(S2) <= SlotLength /\ Len(S2) # 0
    BY <1>2, <1>7, BTreeAssumption
  <2> QED
    BY <2>1, <1>7, EmptyIs
<1>11. Part(nodes'[id], nodes[id].parent, Kids(nodes, id), Its(nodes, id) \cup {x}) /\ nodes'[id].slots # <<>>
  BY <1>2, <1>7, <1>9, <1>10 DEF Part, NodeOK, Node, Kids
<1>12. TakeItem(nodes, root, id, nodes', x)
  BY <1>1, <1>2, <1>3, <1>9, <1>11 DEF TakeItem, AddFacts, x
<1>13. Sound(nodes', root, Nil) /\ All(nodes') = All(nodes) \cup {x}
  BY <1>12, TakesItem
<1>14. call' = Added /\ root' = root /\ count' = count /\ call.op = "add"
  BY DEF AddOnLeaf, OnLeaf
<1>15. saved' \subseteq IDs
  BY <1>1, <1>2, <1>4 DEF AddFacts
<1>16. TreeInv'
  BY <1>1, <1>13, <1>14, <1>15, Placed DEF AddFacts, x
<1>17. StepSaved
  BY <1>9, <1>4 DEF StepSaved
<1>18. Rewritten(TempSlots, <<>>)
  <2>1. Looks(nodes', id, S2, <<>>) /\ Others(id)
    BY <1>2, <1>9 DEF Looks, Node, Others
  <2>2. S2 = TempSlots
    BY DEF S2, s, i, x, id, TempSlots, Here
  <2> QED
    BY <2>1, <2>2, <1>9 DEF Rewritten, id
<1> QED
  BY <1>16, <1>17, <1>18

\* The slots of a full leaf with the new item among them.
OverfullFacts(id, S2, x) ==
    /\ S2 \in Seq(Items) /\ Len(S2) = SlotLength + 1 /\ Distinct(S2, Items)
    /\ Elems(S2, Items) = Its(nodes, id) \cup {x}

\* The code's tempSlots: the slots of a full leaf, and the item in its place.
LEMMA OverfullLeaf ==
  ASSUME AddFacts, Len(Here.slots) = SlotLength
  PROVE  OverfullFacts(call.node, TempSlots, call.item)
<1> DEFINE s == nodes[call.node].slots
           i == Index + 1
<1>1. s \in Seq(Items) /\ Len(s) \in Nat /\ Len(s) = SlotLength /\ Distinct(s, Items)
  BY NodeFacts DEF AddFacts, Here
<1>2. i \in 1..Len(s) + 1 /\ call.item \notin Elems(s, Items) /\ call.item \in Items
  BY <1>1 DEF AddFacts, Here, All, Its
<1>3. Insertable(s, i, call.item, Items, Items)
  BY <1>1, <1>2 DEF Insertable
<1> HIDE DEF s, i
<1>4. Inserted(s, i, call.item, Items, Items)
  BY <1>3, InsertElems
<1>5. TempSlots = InsertAt(s, i, call.item)
  BY DEF TempSlots, Here, s, i
<1> QED
  BY <1>1, <1>2, <1>4, <1>5 DEF Inserted, OverfullFacts, Its, s

\* The halves of an overfull node.
HalvesFacts(S2, L, U, m) ==
    /\ L \in Seq(Items) /\ U \in Seq(Items) /\ m \in Items
    /\ Len(L) <= SlotLength /\ Len(U) <= SlotLength /\ L # <<>> /\ U # <<>>
    /\ Len(L) = Half /\ Len(U) = Half
    /\ Distinct(L, Items) /\ Distinct(U, Items)
    /\ Elems(S2, Items) = Elems(L, Items) \cup Elems(U, Items) \cup {m}
    /\ Elems(L, Items) \cap Elems(U, Items) = {}
    /\ m \notin Elems(L, Items) /\ m \notin Elems(U, Items)

\* The two halves of one item too many, and the one between them.
LEMMA Halves ==
  ASSUME NEW S2 \in Seq(Items), Len(S2) = SlotLength + 1, Distinct(S2, Items)
  PROVE  HalvesFacts(S2, LowerSlots(S2), UpperSlots(S2), S2[Half + 1])
<1>1. Half \in Nat /\ Half >= 1 /\ Half <= SlotLength
  BY HalfIs
<1> DEFINE L == LowerSlots(S2)
           U == UpperSlots(S2)
           m == S2[Half + 1]
<1>2. /\ L \in Seq(Items) /\ Len(L) = Half /\ U \in Seq(Items) /\ Len(U) = Half
      /\ Distinct(L, Items) /\ Distinct(U, Items) /\ m \in Items
      /\ Elems(S2, Items) = Elems(L, Items) \cup Elems(U, Items) \cup {m}
      /\ Elems(L, Items) \cap Elems(U, Items) = {}
      /\ m \notin Elems(L, Items) /\ m \notin Elems(U, Items)
  BY HalvesOfSlots
<1> HIDE DEF L, U, m
<1>3. L # <<>> /\ U # <<>>
  BY <1>1, <1>2, EmptyIs
<1>4. HalvesFacts(S2, L, U, m)
  BY <1>1, <1>2, <1>3 DEF HalvesFacts
<1> QED
  BY <1>4 DEF L, U, m

\* A node of one separator between two children.
LEMMA NewRoot ==
  ASSUME NEW m \in Items, NEW l \in IDs, NEW r \in IDs, l # r
  PROVE  Part(Node(Nil, <<m>>, <<l, r>>), Nil, {l, r}, {m}) /\ Node(Nil, <<m>>, <<l, r>>).slots # <<>>
<1> DEFINE u == <<m>>
           w == <<l, r>>
<1>1. /\ u \in Seq(Items) /\ Len(u) = 1 /\ u # <<>> /\ w \in Seq(IDs \cup {Nil}) /\ Len(w) = 2
      /\ 1 <= SlotLength
  BY BTreeAssumption
<1>2. Elems(u, Items) = {m} /\ Distinct(u, Items) /\ Elems(w, IDs) = {l, r} /\ Distinct(w, IDs)
  BY OneElem, TwoElems
<1> HIDE DEF u, w
<1>3. Part(Node(Nil, u, w), Nil, {l, r}, {m}) /\ Node(Nil, u, w).slots # <<>>
  <2>1. /\ Node(Nil, u, w).parent = Nil /\ Node(Nil, u, w).slots = u /\ Node(Nil, u, w).kids = w
        /\ Node(Nil, u, w) \in [parent : IDs \cup {Nil}, slots : Seq(Items), kids : Seq(IDs \cup {Nil})]
    BY <1>1 DEF Node
  <2>2. Len(u) <= SlotLength /\ Len(w) = Len(u) + 1
    BY <1>1
  <2>3. NodeOK(Node(Nil, u, w))
    BY <2>1, <2>2, <1>2 DEF NodeOK
  <2> QED
    BY <2>1, <2>3, <1>1, <1>2 DEF Part
<1> QED
  BY <1>3 DEF u, w

\* A leaf.
LEMMA NewLeaf ==
  ASSUME NEW p \in IDs \cup {Nil}, NEW s \in Seq(Items), Len(s) <= SlotLength, Distinct(s, Items), s # <<>>
  PROVE  Part(Node(p, s, <<>>), p, {}, Elems(s, Items)) /\ Node(p, s, <<>>).slots # <<>>
<1> DEFINE w == <<>>
<1>1. w = <<>> /\ w \in Seq(IDs \cup {Nil}) /\ Elems(w, IDs) = {} /\ Distinct(w, IDs)
  BY NoElems
<1> HIDE DEF w
<1>2. Part(Node(p, s, w), p, {}, Elems(s, Items)) /\ Node(p, s, w).slots # <<>>
  BY <1>1 DEF Part, NodeOK, Node
<1> QED
  BY <1>2 DEF w

\* The root leaf breaks in two.
LEMMA BreakRootStep ==
  ASSUME TreeInv, BreakRoot
  PROVE  TreeInv' /\ StepSaved /\ Broken(TempSlots, <<>>, <<>>)
<1> DEFINE id == call.node
           x == call.item
           L == LowerSlots(TempSlots)
           U == UpperSlots(TempSlots)
           m == TempSlots[Half + 1]
           l == NewID(nodes)
           n1 == With(nodes, l, Node(id, L, <<>>))
           r == NewID(n1)
<1>1. AddFacts
  BY AddNow DEF BreakRoot, OnLeaf
<1>2. OverfullFacts(id, TempSlots, x)
  BY <1>1, OverfullLeaf DEF BreakRoot
<1>3. HalvesFacts(TempSlots, L, U, m)
  BY <1>2, Halves DEF OverfullFacts
<1>4. /\ id = root /\ id \in DOMAIN nodes /\ Kids(nodes, id) = {} /\ id \in IDs
  <2>1. id \in DOMAIN nodes /\ id = root /\ id \in IDs
    BY <1>1, NodeFacts DEF AddFacts, BreakRoot
  <2>2. nodes[id].kids = <<>>
    BY DEF BreakRoot, OnLeaf, HasChildren
  <2> QED
    BY <2>1, <2>2, NoElems DEF Kids
<1>5. l \in IDs \ DOMAIN nodes /\ r \in IDs \ DOMAIN nodes /\ l # r
  BY RoomFor DEF BreakRoot
<1>6. /\ nodes' = With(With(n1, r, Node(id, U, <<>>)), id, Node(Nil, <<m>>, <<l, r>>))
      /\ saved' = saved \cup {l, r, id}
  BY DEF BreakRoot, Becomes, SaveNode, Working
<1>7. call' = Added /\ root' = root /\ count' = count /\ call.op = "add"
  BY DEF BreakRoot, OnLeaf
<1> HIDE DEF r
<1>8. /\ DOMAIN nodes' = DOMAIN nodes \cup {l, r}
      /\ nodes'[id] = Node(Nil, <<m>>, <<l, r>>)
      /\ nodes'[l] = Node(id, L, <<>>)
      /\ nodes'[r] = Node(id, U, <<>>)
      /\ \A j \in DOMAIN nodes \ {id} : nodes'[j] = nodes[j]
  BY <1>4, <1>5, <1>6 DEF With
<1> HIDE DEF L, U, m, l, n1, id, x
<1>9. Part(nodes'[id], Nil, {l, r}, {m}) /\ nodes'[id].slots # <<>>
  <2>1. m \in Items /\ l \in IDs /\ r \in IDs /\ l # r
    BY <1>3, <1>5 DEF HalvesFacts
  <2>2. Part(Node(Nil, <<m>>, <<l, r>>), Nil, {l, r}, {m}) /\ Node(Nil, <<m>>, <<l, r>>).slots # <<>>
    BY <2>1, NewRoot, Zenon
  <2> QED
    BY <2>2, <1>8, Zenon
<1>10. /\ Part(nodes'[l], id, {}, Elems(L, Items)) /\ nodes'[l].slots # <<>>
       /\ Part(nodes'[r], id, {}, Elems(U, Items)) /\ nodes'[r].slots # <<>>
  BY <1>3, <1>4, <1>8, NewLeaf DEF HalvesFacts
<1>11. ASSUME NEW j \in DOMAIN nodes \ {id}
       PROVE  /\ Part(nodes'[j], nodes[j].parent, Kids(nodes, j), Its(nodes, j))
              /\ nodes'[j].slots # <<>>
  <2>1. nodes[j].slots # <<>>
    BY <1>1, <1>4, NodeFacts DEF AddFacts
  <2>2. nodes'[j] = nodes[j]
    BY <1>8
  <2> QED
    BY <2>1, <2>2, <1>1, PartOf DEF AddFacts
<1>12. /\ {} \cup {} = Kids(nodes, id) \cup ({Nil} \ {Nil}) /\ {} \cap {} = {}
       /\ Elems(L, Items) \cup Elems(U, Items) \cup {m} = Its(nodes, id) \cup {x}
       /\ Elems(L, Items) \cap Elems(U, Items) = {} /\ m \notin Elems(L, Items) /\ m \notin Elems(U, Items)
       /\ m \in Items
  BY <1>2, <1>3, <1>4 DEF HalvesFacts, OverfullFacts
<1>13. x \in Items /\ x \notin All(nodes) /\ Sound(nodes, root, Nil) /\ saved \subseteq IDs
  BY <1>1 DEF AddFacts, x
<1>14. Break(nodes, root, Nil, l, r, nodes', {}, {}, Elems(L, Items), Elems(U, Items), m, x)
  BY <1>4, <1>5, <1>8, <1>9, <1>10, <1>11, <1>12, <1>13 DEF Break
<1>15. Sound(nodes', root, Nil) /\ All(nodes') = All(nodes) \cup {x}
  BY <1>14, RootBreaks
<1>16. saved' \subseteq IDs
  BY <1>4, <1>5, <1>6, <1>13
<1>17. TreeInv'
  BY <1>7, <1>13, <1>15, <1>16, Placed DEF x
<1>18. StepSaved
  BY <1>6, <1>8 DEF StepSaved
<1>19. Broken(TempSlots, <<>>, <<>>)
  <2>1. /\ Looks(nodes', id, <<m>>, <<l, r>>) /\ Looks(nodes', l, L, <<>>) /\ Looks(nodes', r, U, <<>>)
        /\ Others(id)
    BY <1>8 DEF Looks, Node, Others
  <2> QED
    BY <2>1, <1>5, <1>8 DEF Broken, L, U, m, id
<1> QED
  BY <1>17, <1>18, <1>19

\* A leaf splits, and its separator starts on its way up.
LEMMA SplitLeafStep ==
  ASSUME TreeInv, SplitLeaf
  PROVE  TreeInv' /\ StepSaved /\ Divided(TempSlots, <<>>, <<>>)
<1> DEFINE id == call.node
           x == call.item
           p == nodes[id].parent
           L == LowerSlots(TempSlots)
           U == UpperSlots(TempSlots)
           m == TempSlots[Half + 1]
           r == NewID(nodes)
           i == GetIndexOfChild(nodes, id)
<1>1. AddFacts
  BY AddNow DEF SplitLeaf, OnLeaf
<1>2. OverfullFacts(id, TempSlots, x)
  BY <1>1, OverfullLeaf DEF SplitLeaf
<1>3. HalvesFacts(TempSlots, L, U, m)
  BY <1>2, Halves DEF OverfullFacts
<1>4. id # root /\ id \in DOMAIN nodes /\ Kids(nodes, id) = {} /\ id \in IDs
  <2>1. id \in DOMAIN nodes /\ id # root /\ id \in IDs
    BY <1>1, NodeFacts DEF AddFacts, SplitLeaf
  <2>2. nodes[id].kids = <<>>
    BY DEF SplitLeaf, OnLeaf, HasChildren
  <2> QED
    BY <2>1, <2>2, NoElems DEF Kids
<1>5. /\ p \in DOMAIN nodes /\ nodes[p].kids # <<>> /\ id \in Kids(nodes, p)
      /\ i \in 0..Len(nodes[p].slots) /\ i + 1 \in 1..Len(nodes[p].kids) /\ nodes[p].kids[i + 1] = id
  <2>1. id # Nil
    BY <1>4, IDsAre
  <2> QED
    BY <1>1, <1>4, <2>1, GetIndexIs DEF AddFacts
<1>6. r \in IDs \ DOMAIN nodes
  BY RoomFor DEF SplitLeaf
<1>7. /\ nodes' = With(With(nodes, id, Node(p, L, <<>>)), r, Node(p, U, <<>>))
      /\ saved' = saved \cup {id, r}
  BY DEF SplitLeaf, Becomes, SaveNode, Working, Here
<1>8. /\ call' = [op |-> "promote", node |-> p, index |-> i, item |-> m, left |-> id, right |-> r]
      /\ root' = root /\ count' = count /\ call.op = "add"
  BY DEF SplitLeaf, OnLeaf, Here
<1>9. p # id /\ p \in IDs /\ Len(nodes[p].slots) <= SlotLength /\ Len(nodes[p].slots) \in Nat
  BY <1>1, <1>4, <1>5, NodeFacts DEF AddFacts
<1> HIDE DEF L, U, m, r, x, i
<1>10. /\ DOMAIN nodes' = DOMAIN nodes \cup {r}
       /\ nodes'[id] = Node(p, L, <<>>) /\ nodes'[r] = Node(p, U, <<>>)
       /\ \A j \in DOMAIN nodes \ {id} : nodes'[j] = nodes[j]
  BY <1>4, <1>6, <1>7 DEF With
<1> HIDE DEF id
<1>11. /\ Part(nodes'[id], p, {}, Elems(L, Items)) /\ nodes'[id].slots # <<>>
       /\ Part(nodes'[r], p, {}, Elems(U, Items)) /\ nodes'[r].slots # <<>>
  BY <1>3, <1>9, <1>10, NewLeaf DEF HalvesFacts
<1>12. ASSUME NEW j \in DOMAIN nodes \ {id}
       PROVE  /\ Part(nodes'[j], nodes[j].parent, Kids(nodes, j), Its(nodes, j))
              /\ nodes'[j].slots = <<>> => j = root
  <2>1. nodes[j].slots = <<>> => j = root
    BY <1>1 DEF AddFacts, Tree, Shape
  <2>2. nodes'[j] = nodes[j]
    BY <1>10
  <2> QED
    BY <2>1, <2>2, <1>1, PartOf DEF AddFacts
<1>13. /\ {} \cup {} = Kids(nodes, id) \cup ({Nil} \ {Nil}) /\ {} \cap {} = {}
       /\ Elems(L, Items) \cup Elems(U, Items) \cup {m} = Its(nodes, id) \cup {x}
       /\ Elems(L, Items) \cap Elems(U, Items) = {} /\ m \notin Elems(L, Items) /\ m \notin Elems(U, Items)
       /\ m \in Items /\ id # Nil
  BY <1>2, <1>3, <1>4, IDsAre DEF HalvesFacts, OverfullFacts
<1>14. x \in Items /\ x \notin All(nodes) /\ Sound(nodes, root, Nil) /\ saved \subseteq IDs
  BY <1>1 DEF AddFacts, x
<1>15. Split(nodes, root, id, Nil, r, nodes', {}, {}, Elems(L, Items), Elems(U, Items), m, x)
  BY <1>4, <1>6, <1>10, <1>11, <1>12, <1>13, <1>14 DEF Split
<1>16. Sound(nodes', root, r) /\ m \notin All(nodes') /\ All(nodes') \cup {m} = All(nodes) \cup {x}
  BY <1>15, NodeSplits
<1>17. saved' \subseteq IDs
  BY <1>4, <1>6, <1>7, <1>14
<1>18. /\ p \in DOMAIN nodes' /\ id \in DOMAIN nodes' /\ r \in DOMAIN nodes' /\ r # root
       /\ nodes'[r].parent = p /\ nodes'[p] = nodes[p]
  <2>1. root \in DOMAIN nodes
    BY <1>1, <1>4, IDsAre DEF AddFacts, Tree, Rooted, Shape
  <2> QED
    BY <2>1, <1>4, <1>5, <1>6, <1>9, <1>10 DEF Node
<1>19. i \in 0..SlotLength /\ i <= Len(nodes'[p].slots) /\ nodes'[p].kids # <<>> /\ nodes'[p].kids[i + 1] = id
  BY <1>5, <1>9, <1>18, BTreeAssumption
<1> HIDE DEF p
<1>20. TreeInv'
  BY <1>8, <1>13, <1>14, <1>16, <1>17, <1>18, <1>19, Separated DEF x
<1>21. StepSaved
  BY <1>7, <1>10 DEF StepSaved
<1>22. Divided(TempSlots, <<>>, <<>>)
  <2>1. Looks(nodes', id, L, <<>>) /\ Looks(nodes', r, U, <<>>) /\ Others(id)
    BY <1>10 DEF Looks, Node, Others
  <2> QED
    BY <2>1, <1>6, <1>8, <1>10 DEF Divided, L, U, m, id, p, i
<1> QED
  BY <1>20, <1>21, <1>22

\* The slots and children of a node with the separator and the new sibling among them.
PromotedFacts(id, S2, K2, x, pr) ==
    /\ S2 \in Seq(Items) /\ Len(S2) = Len(nodes[id].slots) + 1 /\ Distinct(S2, Items)
    /\ Elems(S2, Items) = Its(nodes, id) \cup {x}
    /\ K2 \in Seq(IDs \cup {Nil}) /\ Len(K2) = Len(nodes[id].slots) + 2 /\ Distinct(K2, IDs)
    /\ Elems(K2, IDs) = Kids(nodes, id) \cup {pr}

\* The slots and children of a node with the separator and the sibling in place.
LEMMA PromotedIs ==
  ASSUME PromoteFacts
  PROVE  PromotedFacts(call.node, WithItem, WithKids, call.item, call.right)
<1> DEFINE id == call.node
           s == nodes[id].slots
           x == call.item
           i == call.index + 1
           k == nodes[id].kids
           T == IDs \cup {Nil}
           a == call.left
           r == call.right
           v == [k EXCEPT ![i] = a]
<1>1. /\ s \in Seq(Items) /\ Len(s) \in Nat /\ Distinct(s, Items)
      /\ k \in Seq(T) /\ Distinct(k, IDs) /\ k # <<>> /\ Len(k) = Len(s) + 1
      /\ id \in DOMAIN nodes
  BY NodeFacts DEF PromoteFacts, Here
<1>2. /\ i \in 1..Len(s) + 1 /\ i \in 1..Len(k) /\ i + 1 \in 1..Len(k) + 1 /\ call.index \in Int
      /\ x \in Items /\ x \notin Elems(s, Items) /\ k[i] = a
  BY <1>1 DEF PromoteFacts, Here, All, Its
<1>3. /\ a \in IDs /\ r \in IDs /\ r \notin Kids(nodes, id) /\ a \in Kids(nodes, id) /\ Elems(k, IDs) = Kids(nodes, id)
  <2>1. DOMAIN nodes \subseteq IDs /\ DOMAIN k = 1..Len(k)
    BY <1>1, EmptyIs DEF PromoteFacts, Tree, Shape
  <2>2. r \notin Kids(nodes, id)
    BY <1>1, KidsIn DEF PromoteFacts
  <2> QED
    BY <1>1, <1>2, <2>1, <2>2 DEF PromoteFacts, Kids, Elems
<1>4. Insertable(s, i, x, Items, Items) /\ Replaceable(k, i, a, T, IDs)
  BY <1>1, <1>2, <1>3 DEF Insertable, Replaceable
<1>5. /\ WithItem = InsertAt(s, i, x) /\ WithKids = InsertAt(v, i + 1, r)
  <2>1. call.index + 2 = i + 1
    BY <1>2
  <2> QED
    BY <2>1 DEF WithItem, WithKids, Here, ReplaceAt
<1> HIDE DEF s, x, k, T, a, r, v, i
<1>6. Inserted(s, i, x, Items, Items) /\ Replaced(k, i, a, T, IDs)
  BY <1>4, InsertElems, ReplaceElems
<1>7. v \in Seq(T) /\ Len(v) = Len(k) /\ Distinct(v, IDs) /\ Elems(v, IDs) = Kids(nodes, id)
  BY <1>2, <1>3, <1>6 DEF Replaced, v
<1>8. Insertable(v, i + 1, r, T, IDs)
  BY <1>2, <1>3, <1>7 DEF Insertable, T
<1>9. Inserted(v, i + 1, r, T, IDs)
  BY <1>8, InsertElems
<1>10. /\ WithItem \in Seq(Items) /\ Len(WithItem) = Len(s) + 1 /\ Distinct(WithItem, Items)
       /\ Elems(WithItem, Items) = Elems(s, Items) \cup {x}
  BY <1>2, <1>5, <1>6 DEF Inserted
<1>11. /\ WithKids \in Seq(T) /\ Len(WithKids) = Len(v) + 1 /\ Distinct(WithKids, IDs)
       /\ Elems(WithKids, IDs) = Kids(nodes, id) \cup {r}
  BY <1>3, <1>5, <1>7, <1>9 DEF Inserted
<1>12. Len(WithKids) = Len(s) + 2
  BY <1>1, <1>7, <1>11
<1> QED
  BY <1>10, <1>11, <1>12 DEF PromotedFacts, s, x, T, r, Its

\* A node with room takes the separator.
LEMMA PromoteStep ==
  ASSUME TreeInv, Promote
  PROVE  TreeInv' /\ StepSaved /\ Rewritten(WithItem, WithKids)
<1> DEFINE id == call.node
           x == call.item
           pr == call.right
<1>1. PromoteFacts
  BY PromoteNow DEF Promote, Promoting
<1>2. PromotedFacts(id, WithItem, WithKids, x, pr)
  BY <1>1, PromotedIs
<1>3. /\ id \in DOMAIN nodes /\ id \in IDs /\ nodes[id].parent \in IDs \cup {Nil}
      /\ Len(nodes[id].slots) \in Nat /\ Len(nodes[id].slots) < SlotLength
  BY <1>1, NodeFacts DEF PromoteFacts, Promote, Here
<1>4. /\ nodes' = With(nodes, id, Node(nodes[id].parent, WithItem, WithKids))
      /\ saved' = saved \cup {id}
  BY DEF Promote, Becomes, SaveNode, Working, Here
<1>5. call' = Added /\ root' = root /\ count' = count /\ call.op = "promote"
  BY DEF Promote, Promoting
<1>6. /\ DOMAIN nodes' = DOMAIN nodes
      /\ nodes'[id] = Node(nodes[id].parent, WithItem, WithKids)
      /\ \A j \in DOMAIN nodes \ {id} : nodes'[j] = nodes[j]
  BY <1>3, <1>4 DEF With
<1>7. Len(WithItem) <= SlotLength /\ Len(WithKids) = Len(WithItem) + 1 /\ WithItem # <<>>
  <2>1. Len(WithItem) <= SlotLength /\ Len(WithKids) = Len(WithItem) + 1 /\ Len(WithItem) # 0
    BY <1>2, <1>3, BTreeAssumption DEF PromotedFacts
  <2> QED
    BY <2>1, <1>2, EmptyIs DEF PromotedFacts
<1>8. /\ Part(nodes'[id], nodes[id].parent, Kids(nodes, id) \cup {pr}, Its(nodes, id) \cup {x})
      /\ nodes'[id].slots # <<>>
  BY <1>2, <1>3, <1>6, <1>7 DEF PromotedFacts, Part, NodeOK, Node
<1>9. TakeSibling(nodes, root, pr, id, nodes', x)
  BY <1>1, <1>6, <1>8 DEF TakeSibling, PromoteFacts
<1>10. Sound(nodes', root, Nil) /\ All(nodes') = All(nodes) \cup {x}
  BY <1>9, TakesSibling
<1>11. saved' \subseteq IDs
  BY <1>1, <1>3, <1>4 DEF PromoteFacts
<1>12. TreeInv'
  BY <1>1, <1>5, <1>10, <1>11, Placed DEF PromoteFacts
<1>13. StepSaved
  BY <1>4, <1>6 DEF StepSaved
<1>14. Rewritten(WithItem, WithKids)
  BY <1>6 DEF Rewritten, Looks, Node, Others
<1> QED
  BY <1>12, <1>13, <1>14

\* What two updates of the children's parents leave.
AdoptedTwice(n, v, a, b, KA, KB) ==
    /\ DOMAIN v = DOMAIN n
    /\ \A j \in DOMAIN n : v[j] = IF j \in KA THEN [n[j] EXCEPT !.parent = a]
                                  ELSE IF j \in KB THEN [n[j] EXCEPT !.parent = b] ELSE n[j]

\* Two nodes become the parents of their children.
LEMMA Adoptions ==
  ASSUME NEW n, NEW sv, NEW a \in DOMAIN n, NEW b \in DOMAIN n,
         n[a].kids \in Seq(IDs \cup {Nil}), n[b].kids \in Seq(IDs \cup {Nil}),
         NEW KA, NEW KB, KA = Elems(n[a].kids, IDs), KB = Elems(n[b].kids, IDs), KA \cap KB = {}, b \notin KA
  PROVE  /\ AdoptedTwice(n, UpdateChildrenParent(UpdateChildrenParent(Rec(n, sv), a), b).n, a, b, KA, KB)
         /\ UpdateChildrenParent(UpdateChildrenParent(Rec(n, sv), a), b).saved = sv \cup KA \cup KB
<1> DEFINE t1 == UpdateChildrenParent(Rec(n, sv), a)
           t2 == UpdateChildrenParent(t1, b)
<1>1. ToSet(n[a].kids) \ {Nil} = KA /\ ToSet(n[b].kids) \ {Nil} = KB
  BY ToSetIs
<1>2. t1.n = Adopted(n, a) /\ t1.saved = sv \cup KA
  BY <1>1 DEF UpdateChildrenParent, Rec
<1> HIDE DEF t1
<1>3. /\ DOMAIN t1.n = DOMAIN n
      /\ \A j \in DOMAIN n : t1.n[j] = IF j \in KA THEN [n[j] EXCEPT !.parent = a] ELSE n[j]
  BY <1>1, <1>2 DEF Adopted
<1>4. t1.n[b] = n[b]
  BY <1>3
<1>5. t2.n = Adopted(t1.n, b) /\ t2.saved = sv \cup KA \cup KB
  BY <1>1, <1>2, <1>4 DEF UpdateChildrenParent
<1> HIDE DEF t2
<1>6. /\ DOMAIN t2.n = DOMAIN n
      /\ \A j \in DOMAIN n : t2.n[j] = IF j \in KB THEN [t1.n[j] EXCEPT !.parent = b] ELSE t1.n[j]
  BY <1>1, <1>3, <1>4, <1>5 DEF Adopted
<1>7. AdoptedTwice(n, t2.n, a, b, KA, KB)
  <2>1. ASSUME NEW j \in DOMAIN n
        PROVE  t2.n[j] = IF j \in KA THEN [n[j] EXCEPT !.parent = a]
                         ELSE IF j \in KB THEN [n[j] EXCEPT !.parent = b] ELSE n[j]
    <3>1. CASE j \in KA
      BY <3>1, <1>3, <1>6
    <3>2. CASE j \in KB
      BY <3>2, <1>3, <1>6
    <3>3. CASE j \notin KA /\ j \notin KB
      BY <3>3, <1>3, <1>6
    <3> QED
      BY <3>1, <3>2, <3>3
  <2> QED
    BY <2>1, <1>6 DEF AdoptedTwice
<1> QED
  BY <1>5, <1>7 DEF t1, t2

\* A child keeps all but its parent.
LEMMA AdoptedPart ==
  ASSUME NEW n, NEW rt, NEW pr, Tree(n, rt, pr), NEW j \in DOMAIN n, NEW a \in IDs
  PROVE  /\ Part([n[j] EXCEPT !.parent = a], a, Kids(n, j), Its(n, j))
         /\ [n[j] EXCEPT !.parent = a].slots = n[j].slots
         /\ [n[j] EXCEPT !.parent = a].kids = n[j].kids
<1>1. NodeOK(n[j]) /\ n[j] = Node(n[j].parent, n[j].slots, n[j].kids)
  BY NodeFacts
<1>2. [n[j] EXCEPT !.parent = a] = Node(a, n[j].slots, n[j].kids)
  BY <1>1 DEF Node
<1> QED
  BY <1>1, <1>2 DEF Part, NodeOK, Node, Kids, Its

\* The halves of an overfull inner node.
InnerFacts(K2, LK, UK) ==
    /\ LK \in Seq(IDs \cup {Nil}) /\ UK \in Seq(IDs \cup {Nil})
    /\ Len(LK) = Half + 1 /\ Len(UK) = Half + 1 /\ Distinct(LK, IDs) /\ Distinct(UK, IDs)
    /\ Elems(K2, IDs) = Elems(LK, IDs) \cup Elems(UK, IDs)
    /\ Elems(LK, IDs) \cap Elems(UK, IDs) = {}

\* The two halves of one child too many.
LEMMA InnerHalves ==
  ASSUME NEW K2 \in Seq(IDs \cup {Nil}), Len(K2) = SlotLength + 2, Distinct(K2, IDs)
  PROVE  InnerFacts(K2, LowerKids(K2), UpperKids(K2))
BY HalvesOfKids DEF InnerFacts

\* An inner node made of halves.
LEMMA NewInner ==
  ASSUME NEW p \in IDs \cup {Nil}, NEW s \in Seq(Items), NEW k \in Seq(IDs \cup {Nil}),
         Len(s) <= SlotLength, Len(s) = Half, Len(k) = Half + 1,
         Distinct(s, Items), Distinct(k, IDs), s # <<>>
  PROVE  /\ Part(Node(p, s, k), p, Elems(k, IDs), Elems(s, Items))
         /\ Node(p, s, k).slots # <<>> /\ Node(p, s, k).kids = k
<1>1. Node(p, s, k).slots = s /\ Node(p, s, k).kids = k
  BY DEF Node
<1> QED
  BY <1>1, PartNode

\* A full node on the way up: its halves, and that it is not among its own children.
FullFacts(id, x, pr, L, U, m, LK, UK) ==
    /\ HalvesFacts(WithItem, L, U, m) /\ InnerFacts(WithKids, LK, UK)
    /\ Elems(LK, IDs) \cup Elems(UK, IDs) = Kids(nodes, id) \cup ({pr} \ {Nil})
    /\ Elems(LK, IDs) \cap Elems(UK, IDs) = {}
    /\ Elems(L, Items) \cup Elems(U, Items) \cup {m} = Its(nodes, id) \cup {x}
    /\ Elems(L, Items) \cap Elems(U, Items) = {}
    /\ m \notin Elems(L, Items) /\ m \notin Elems(U, Items) /\ m \in Items
    /\ Elems(LK, IDs) \subseteq DOMAIN nodes \ {id} /\ Elems(UK, IDs) \subseteq DOMAIN nodes \ {id}
    /\ DOMAIN nodes \subseteq IDs /\ pr # id /\ pr \in DOMAIN nodes /\ pr \in IDs

\* What the two halves of a full node are, the separator in its place.
LEMMA FullNow ==
  ASSUME PromoteFacts, Len(Here.slots) = SlotLength
  PROVE  FullFacts(call.node, call.item, call.right, LowerSlots(WithItem), UpperSlots(WithItem),
                   WithItem[Half + 1], LowerKids(WithKids), UpperKids(WithKids))
<1> DEFINE id == call.node
           x == call.item
           pr == call.right
           L == LowerSlots(WithItem)
           U == UpperSlots(WithItem)
           m == WithItem[Half + 1]
           LK == LowerKids(WithKids)
           UK == UpperKids(WithKids)
<1>1. PromotedFacts(id, WithItem, WithKids, x, pr)
  BY PromotedIs
<1>2. HalvesFacts(WithItem, L, U, m) /\ InnerFacts(WithKids, LK, UK)
  BY <1>1, Halves, InnerHalves DEF PromotedFacts, Here
<1>3. DOMAIN nodes \subseteq IDs /\ Nil \notin IDs /\ pr \in IDs /\ pr \in DOMAIN nodes /\ id \in DOMAIN nodes
  BY IDsAre DEF PromoteFacts, Tree, Shape
<1>4. id \notin Kids(nodes, id) /\ pr # id
  <2>1. PICK d \in [IDs -> Nat] : Ranked(nodes, root, d)
    BY DEF PromoteFacts, Sound
  <2>2. d[id] < d[pr] /\ d[id] \in Nat
    BY <1>3, <2>1 DEF Ranked, PromoteFacts
  <2>3. id # root => d[nodes[id].parent] < d[id]
    BY <1>3, <2>1 DEF Ranked
  <2>4. id \in Kids(nodes, id) => id # root /\ nodes[id].parent = id
    BY <1>3 DEF PromoteFacts, Tree, Linked
  <2> QED
    BY <2>2, <2>3, <2>4
<1>5. Kids(nodes, id) \subseteq DOMAIN nodes
  BY <1>3, KidsIn DEF PromoteFacts
<1> HIDE DEF L, U, m, LK, UK, pr, id, x
<1>6. FullFacts(id, x, pr, L, U, m, LK, UK)
  BY <1>1, <1>2, <1>3, <1>4, <1>5 DEF FullFacts, HalvesFacts, InnerFacts, PromotedFacts
<1> QED
  BY <1>6 DEF L, U, m, LK, UK, pr, id, x

\* A full root takes the separator and breaks in two.
LEMMA PromoteBreakRootStep ==
  ASSUME TreeInv, PromoteBreakRoot
  PROVE  TreeInv' /\ StepSaved /\ Broken(WithItem, LowerKids(WithKids), UpperKids(WithKids))
<1> DEFINE id == call.node
           x == call.item
           pr == call.right
           L == LowerSlots(WithItem)
           U == UpperSlots(WithItem)
           m == WithItem[Half + 1]
           LK == LowerKids(WithKids)
           UK == UpperKids(WithKids)
           KL == Elems(LK, IDs)
           KU == Elems(UK, IDs)
           l == NewID(nodes)
           n1 == With(nodes, l, Node(id, L, LK))
           r == NewID(n1)
           n2 == With(n1, r, Node(id, U, UK))
           t3 == UpdateChildrenParent(UpdateChildrenParent(Rec(n2, saved \cup {l, r}), l), r)
<1>1. PromoteFacts
  BY PromoteNow DEF PromoteBreakRoot, Promoting
<1>2. FullFacts(id, x, pr, L, U, m, LK, UK)
  BY <1>1, FullNow DEF PromoteBreakRoot
<1>3. id \in DOMAIN nodes /\ id = root /\ id \in IDs
  BY <1>1, NodeFacts DEF PromoteFacts, PromoteBreakRoot
<1>4. l \in IDs \ DOMAIN nodes /\ r \in IDs \ DOMAIN nodes /\ l # r
  BY RoomFor DEF PromoteBreakRoot
<1>5. /\ nodes' = With(t3.n, id, Node(Nil, <<m>>, <<l, r>>))
      /\ saved' = t3.saved \cup {id}
  <2>1. SaveNode(SaveNode(Working, l, Node(id, L, LK)), r, Node(id, U, UK)) = Rec(n2, saved \cup {l, r})
    BY DEF SaveNode, Working, Rec
  <2>2. SaveNode(Working, l, Node(id, L, LK)).n = n1
    BY DEF SaveNode, Working
  <2> QED
    BY <2>1, <2>2 DEF PromoteBreakRoot, Becomes, SaveNode
<1>6. call' = Added /\ root' = root /\ count' = count /\ call.op = "promote"
  BY DEF PromoteBreakRoot, Promoting
<1> HIDE DEF L, U, m, LK, UK, r, l
<1>7. /\ DOMAIN n2 = DOMAIN nodes \cup {l, r}
      /\ n2[l] = Node(id, L, LK) /\ n2[r] = Node(id, U, UK)
      /\ \A j \in DOMAIN nodes : n2[j] = nodes[j]
  BY <1>4 DEF With
<1> HIDE DEF n2, t3, id
<1>8. /\ Part(n2[l], id, KL, Elems(L, Items)) /\ n2[l].slots # <<>> /\ n2[l].kids = LK
      /\ Part(n2[r], id, KU, Elems(U, Items)) /\ n2[r].slots # <<>> /\ n2[r].kids = UK
  <2>1. Part(n2[l], id, KL, Elems(L, Items)) /\ n2[l].slots # <<>> /\ n2[l].kids = LK
    BY <1>2, <1>3, <1>7, NewInner DEF FullFacts, HalvesFacts, InnerFacts
  <2>2. Part(n2[r], id, KU, Elems(U, Items)) /\ n2[r].slots # <<>> /\ n2[r].kids = UK
    BY <1>2, <1>3, <1>7, NewInner DEF FullFacts, HalvesFacts, InnerFacts
  <2> QED
    BY <2>1, <2>2
<1>9. AdoptedTwice(n2, t3.n, l, r, KL, KU) /\ t3.saved = saved \cup {l, r} \cup KL \cup KU
  <2>1. /\ l \in DOMAIN n2 /\ r \in DOMAIN n2
        /\ n2[l].kids \in Seq(IDs \cup {Nil}) /\ n2[r].kids \in Seq(IDs \cup {Nil})
        /\ KL = Elems(n2[l].kids, IDs) /\ KU = Elems(n2[r].kids, IDs) /\ KL \cap KU = {} /\ r \notin KL
    BY <1>2, <1>4, <1>7, <1>8 DEF FullFacts, InnerFacts
  <2> HIDE DEF KL, KU
  <2> QED
    BY <2>1, Adoptions DEF t3
<1>10. /\ KL \subseteq DOMAIN nodes \ {id} /\ KU \subseteq DOMAIN nodes \ {id} /\ KL \cap KU = {}
       /\ KL \cup KU = Kids(nodes, id) \cup ({pr} \ {Nil}) /\ DOMAIN nodes \subseteq IDs
  BY <1>2 DEF FullFacts
<1> HIDE DEF KL, KU
<1>11. /\ DOMAIN nodes' = DOMAIN nodes \cup {l, r}
       /\ nodes'[id] = Node(Nil, <<m>>, <<l, r>>)
       /\ nodes'[l] = n2[l] /\ nodes'[r] = n2[r]
       /\ \A j \in DOMAIN nodes \ {id} :
            nodes'[j] = IF j \in KL THEN [nodes[j] EXCEPT !.parent = l]
                        ELSE IF j \in KU THEN [nodes[j] EXCEPT !.parent = r] ELSE nodes[j]
  <2>1. l \notin KL /\ l \notin KU /\ r \notin KL /\ r \notin KU /\ l # id /\ r # id
    BY <1>3, <1>4, <1>10
  <2>2. DOMAIN t3.n = DOMAIN nodes \cup {l, r} /\ t3.n[l] = n2[l] /\ t3.n[r] = n2[r]
    BY <1>7, <1>9, <2>1 DEF AdoptedTwice
  <2>3. ASSUME NEW j \in DOMAIN nodes
        PROVE  t3.n[j] = IF j \in KL THEN [nodes[j] EXCEPT !.parent = l]
                         ELSE IF j \in KU THEN [nodes[j] EXCEPT !.parent = r] ELSE nodes[j]
    BY <1>7, <1>9 DEF AdoptedTwice
  <2> QED
    BY <2>1, <2>2, <2>3, <1>3, <1>5 DEF With
<1>12. Part(nodes'[id], Nil, {l, r}, {m}) /\ nodes'[id].slots # <<>>
  <2>1. m \in Items /\ l \in IDs /\ r \in IDs /\ l # r
    BY <1>2, <1>4 DEF FullFacts
  <2>2. Part(Node(Nil, <<m>>, <<l, r>>), Nil, {l, r}, {m}) /\ Node(Nil, <<m>>, <<l, r>>).slots # <<>>
    BY <2>1, NewRoot, Zenon
  <2> QED
    BY <2>2, <1>11, Zenon
<1>13. ASSUME NEW j \in DOMAIN nodes \ {id}
       PROVE  /\ Part(nodes'[j], IF j \in KL THEN l ELSE IF j \in KU THEN r ELSE nodes[j].parent, Kids(nodes, j), Its(nodes, j))
              /\ nodes'[j].slots # <<>>
  <2>0. Tree(nodes, root, pr)
    BY <1>1 DEF PromoteFacts
  <2>1. nodes[j].slots # <<>> /\ Part(nodes[j], nodes[j].parent, Kids(nodes, j), Its(nodes, j))
    BY <1>3, <2>0, NodeFacts, PartOf
  <2>2. \A a \in IDs : Part([nodes[j] EXCEPT !.parent = a], a, Kids(nodes, j), Its(nodes, j))
                       /\ [nodes[j] EXCEPT !.parent = a].slots = nodes[j].slots
    BY <2>0, AdoptedPart
  <2>3. CASE j \in KL
    <3>1. nodes'[j] = [nodes[j] EXCEPT !.parent = l]
      BY <2>3, <1>11
    <3> QED
      BY <2>1, <2>2, <2>3, <3>1, <1>4
  <2>4. CASE j \notin KL /\ j \in KU
    <3>1. nodes'[j] = [nodes[j] EXCEPT !.parent = r]
      BY <2>4, <1>11
    <3> QED
      BY <2>1, <2>2, <2>4, <3>1, <1>4
  <2>5. CASE j \notin KL /\ j \notin KU
    BY <2>1, <2>5, <1>11
  <2> QED
    BY <2>3, <2>4, <2>5
<1>14. /\ x \in Items /\ x \notin All(nodes) /\ Sound(nodes, root, pr) /\ saved \subseteq IDs
       /\ pr \in DOMAIN nodes /\ pr # root /\ nodes[pr].parent = root
  BY <1>1, <1>3 DEF PromoteFacts, id
<1>15. Break(nodes, root, pr, l, r, nodes', KL, KU, Elems(L, Items), Elems(U, Items), m, x)
  <2>1. /\ Part(nodes'[l], root, KL, Elems(L, Items)) /\ nodes'[l].slots # <<>>
        /\ Part(nodes'[r], root, KU, Elems(U, Items)) /\ nodes'[r].slots # <<>>
        /\ Part(nodes'[root], Nil, {l, r}, {m}) /\ nodes'[root].slots # <<>>
    BY <1>3, <1>8, <1>11, <1>12
  <2>2. /\ Elems(L, Items) \cup Elems(U, Items) \cup {m} = Its(nodes, root) \cup {x}
        /\ Elems(L, Items) \cap Elems(U, Items) = {}
        /\ m \notin Elems(L, Items) /\ m \notin Elems(U, Items) /\ m \in Items
    BY <1>2, <1>3 DEF FullFacts
  <2> HIDE DEF x, pr
  <2> QED
    BY <2>1, <2>2, <1>3, <1>4, <1>10, <1>11, <1>13, <1>14 DEF Break
<1>16. Sound(nodes', root, Nil) /\ All(nodes') = All(nodes) \cup {x}
  BY <1>15, RootBreaks
<1>17. saved' \subseteq IDs
  BY <1>3, <1>4, <1>5, <1>9, <1>10, <1>14
<1>18. TreeInv'
  BY <1>6, <1>14, <1>16, <1>17, Placed
<1>19. StepSaved
  <2> SUFFICES ASSUME NEW j \in DOMAIN nodes', j # id, j \notin saved'
               PROVE  j \in DOMAIN nodes /\ nodes'[j] = nodes[j]
    BY <1>3, <1>6, <1>11 DEF StepSaved
  <2>1. j \notin KL /\ j \notin KU /\ j # l /\ j # r
    BY <1>5, <1>9
  <2> QED
    BY <2>1, <1>11
<1>20. Broken(WithItem, LowerKids(WithKids), UpperKids(WithKids))
  <2>1. Looks(nodes', id, <<m>>, <<l, r>>) /\ Looks(nodes', l, L, LK) /\ Looks(nodes', r, U, UK)
    BY <1>7, <1>11 DEF Looks, Node
  <2>2. Others(id)
    <3> SUFFICES ASSUME NEW j \in DOMAIN nodes \ {id} PROVE Looks(nodes', j, nodes[j].slots, nodes[j].kids)
      BY DEF Others
    <3>1. /\ [nodes[j] EXCEPT !.parent = l].slots = nodes[j].slots /\ [nodes[j] EXCEPT !.parent = l].kids = nodes[j].kids
          /\ [nodes[j] EXCEPT !.parent = r].slots = nodes[j].slots /\ [nodes[j] EXCEPT !.parent = r].kids = nodes[j].kids
      BY <1>1, <1>4, AdoptedPart DEF PromoteFacts
    <3> QED
      BY <3>1, <1>11 DEF Looks
  <2> QED
    BY <2>1, <2>2, <1>4, <1>11 DEF Broken, L, U, m, LK, UK, id
<1> QED
  BY <1>18, <1>19, <1>20

\* A full node takes the separator, splits, and sends its own up.
LEMMA PromoteSplitStep ==
  ASSUME TreeInv, PromoteSplit
  PROVE  TreeInv' /\ StepSaved /\ Divided(WithItem, LowerKids(WithKids), UpperKids(WithKids))
<1> DEFINE id == call.node
           x == call.item
           pr == call.right
           p == nodes[id].parent
           L == LowerSlots(WithItem)
           U == UpperSlots(WithItem)
           m == WithItem[Half + 1]
           LK == LowerKids(WithKids)
           UK == UpperKids(WithKids)
           KL == Elems(LK, IDs)
           KU == Elems(UK, IDs)
           r == NewID(nodes)
           n2 == With(With(nodes, r, Node(p, U, UK)), id, Node(p, L, LK))
           t3 == UpdateChildrenParent(UpdateChildrenParent(Rec(n2, saved \cup {r, id}), r), id)
           i == GetIndexOfChild(nodes, id)
<1>1. PromoteFacts
  BY PromoteNow DEF PromoteSplit, Promoting
<1>2. FullFacts(id, x, pr, L, U, m, LK, UK)
  BY <1>1, FullNow DEF PromoteSplit
<1>3. id \in DOMAIN nodes /\ id # root /\ id \in IDs
  BY <1>1, NodeFacts DEF PromoteFacts, PromoteSplit
<1>4. r \in IDs \ DOMAIN nodes
  BY RoomFor DEF PromoteSplit
<1>5. nodes' = t3.n /\ saved' = t3.saved
  <2>1. SaveNode(SaveNode(Working, r, Node(p, U, UK)), id, Node(p, L, LK)) = Rec(n2, saved \cup {r, id})
    BY DEF SaveNode, Working, Rec
  <2> QED
    BY <2>1 DEF PromoteSplit, Becomes, Here
<1>6. /\ call' = [op |-> "promote", node |-> p, index |-> i, item |-> m, left |-> id, right |-> r]
      /\ root' = root /\ count' = count /\ call.op = "promote"
  BY DEF PromoteSplit, Promoting, Here
<1>7. /\ p \in DOMAIN nodes /\ nodes[p].kids # <<>> /\ id \in Kids(nodes, p)
      /\ i \in 0..Len(nodes[p].slots) /\ i + 1 \in 1..Len(nodes[p].kids) /\ nodes[p].kids[i + 1] = id
  <2>1. id # pr
    BY <1>2 DEF FullFacts
  <2> QED
    BY <1>1, <1>3, <2>1, GetIndexIs DEF PromoteFacts
<1> HIDE DEF L, U, m, LK, UK, r, i
<1>8. p # id /\ p \in IDs /\ Len(nodes[p].slots) <= SlotLength /\ Len(nodes[p].slots) \in Nat
  <2>1. id \notin Kids(nodes, id)
    BY <1>2 DEF FullFacts
  <2> QED
    BY <2>1, <1>1, <1>7, NodeFacts DEF PromoteFacts
<1>9. /\ DOMAIN n2 = DOMAIN nodes \cup {r}
      /\ n2[id] = Node(p, L, LK) /\ n2[r] = Node(p, U, UK)
      /\ \A j \in DOMAIN nodes \ {id} : n2[j] = nodes[j]
  BY <1>3, <1>4 DEF With
<1> HIDE DEF n2, t3, id, p
<1>10. /\ Part(n2[id], p, KL, Elems(L, Items)) /\ n2[id].slots # <<>> /\ n2[id].kids = LK
       /\ Part(n2[r], p, KU, Elems(U, Items)) /\ n2[r].slots # <<>> /\ n2[r].kids = UK
  <2>1. Part(n2[id], p, KL, Elems(L, Items)) /\ n2[id].slots # <<>> /\ n2[id].kids = LK
    BY <1>2, <1>8, <1>9, NewInner DEF FullFacts, HalvesFacts, InnerFacts
  <2>2. Part(n2[r], p, KU, Elems(U, Items)) /\ n2[r].slots # <<>> /\ n2[r].kids = UK
    BY <1>2, <1>8, <1>9, NewInner DEF FullFacts, HalvesFacts, InnerFacts
  <2> QED
    BY <2>1, <2>2
<1>11. /\ KL \subseteq DOMAIN nodes \ {id} /\ KU \subseteq DOMAIN nodes \ {id} /\ KL \cap KU = {}
       /\ KL \cup KU = Kids(nodes, id) \cup ({pr} \ {Nil}) /\ DOMAIN nodes \subseteq IDs /\ pr # id
  BY <1>2 DEF FullFacts
<1>12. AdoptedTwice(n2, t3.n, r, id, KU, KL) /\ t3.saved = saved \cup {r, id} \cup KU \cup KL
  <2>1. /\ r \in DOMAIN n2 /\ id \in DOMAIN n2
        /\ n2[id].kids \in Seq(IDs \cup {Nil}) /\ n2[r].kids \in Seq(IDs \cup {Nil})
        /\ KL = Elems(n2[id].kids, IDs) /\ KU = Elems(n2[r].kids, IDs) /\ KU \cap KL = {} /\ id \notin KU
    BY <1>2, <1>3, <1>9, <1>10, <1>11 DEF FullFacts, InnerFacts
  <2> HIDE DEF KL, KU
  <2> QED
    BY <2>1, Adoptions DEF t3
<1> HIDE DEF KL, KU
<1>13. /\ DOMAIN nodes' = DOMAIN nodes \cup {r}
       /\ nodes'[id] = n2[id] /\ nodes'[r] = n2[r]
       /\ \A j \in DOMAIN nodes \ {id} :
            nodes'[j] = IF j \in KU THEN [nodes[j] EXCEPT !.parent = r]
                        ELSE IF j \in KL THEN [nodes[j] EXCEPT !.parent = id] ELSE nodes[j]
  <2>1. r \notin KL /\ r \notin KU /\ id \notin KL /\ id \notin KU
    BY <1>4, <1>11
  <2> QED
    BY <2>1, <1>3, <1>5, <1>9, <1>12 DEF AdoptedTwice
<1>14. /\ x \in Items /\ x \notin All(nodes) /\ Sound(nodes, root, pr) /\ Tree(nodes, root, pr) /\ saved \subseteq IDs
       /\ pr \in DOMAIN nodes /\ pr # root /\ nodes[pr].parent = id
  BY <1>1 DEF PromoteFacts, id
<1>15. \A j \in KL : nodes[j].parent = id
  BY <1>11, <1>14, <1>3 DEF Tree, Linked
<1>16. ASSUME NEW j \in DOMAIN nodes \ {id}
       PROVE  /\ Part(nodes'[j], IF j \in KU THEN r ELSE nodes[j].parent, Kids(nodes, j), Its(nodes, j))
              /\ nodes'[j].slots = nodes[j].slots /\ nodes'[j].kids = nodes[j].kids
  <2>1. Part(nodes[j], nodes[j].parent, Kids(nodes, j), Its(nodes, j))
    BY <1>14, PartOf
  <2>2. \A a \in IDs : Part([nodes[j] EXCEPT !.parent = a], a, Kids(nodes, j), Its(nodes, j))
                       /\ [nodes[j] EXCEPT !.parent = a].slots = nodes[j].slots
                       /\ [nodes[j] EXCEPT !.parent = a].kids = nodes[j].kids
    BY <1>14, AdoptedPart
  <2>3. CASE j \in KU
    <3>1. nodes'[j] = [nodes[j] EXCEPT !.parent = r]
      BY <2>3, <1>13
    <3> QED
      BY <2>2, <2>3, <3>1, <1>4
  <2>4. CASE j \notin KU /\ j \in KL
    <3>1. nodes'[j] = [nodes[j] EXCEPT !.parent = id]
      BY <2>4, <1>13
    <3> QED
      BY <2>2, <2>4, <3>1, <1>3, <1>15
  <2>5. CASE j \notin KL /\ j \notin KU
    BY <2>1, <2>5, <1>13
  <2> QED
    BY <2>3, <2>4, <2>5
<1>17. \A j \in DOMAIN nodes : nodes[j].slots = <<>> => j = root
  BY <1>14 DEF Tree, Shape
<1>18. Split(nodes, root, id, pr, r, nodes', KL, KU, Elems(L, Items), Elems(U, Items), m, x)
  <2>1. /\ Elems(L, Items) \cup Elems(U, Items) \cup {m} = Its(nodes, id) \cup {x}
        /\ Elems(L, Items) \cap Elems(U, Items) = {}
        /\ m \notin Elems(L, Items) /\ m \notin Elems(U, Items) /\ m \in Items
    BY <1>2 DEF FullFacts
  <2>2. /\ Part(nodes'[id], nodes[id].parent, KL, Elems(L, Items)) /\ nodes'[id].slots # <<>>
        /\ Part(nodes'[r], nodes[id].parent, KU, Elems(U, Items)) /\ nodes'[r].slots # <<>>
    BY <1>10, <1>13 DEF p
  <2> HIDE DEF x, pr
  <2> QED
    BY <2>1, <2>2, <1>3, <1>4, <1>11, <1>13, <1>14, <1>16, <1>17 DEF Split
<1>19. Sound(nodes', root, r) /\ m \notin All(nodes') /\ All(nodes') \cup {m} = All(nodes) \cup {x}
  BY <1>18, NodeSplits
<1>20. saved' \subseteq IDs
  BY <1>3, <1>4, <1>5, <1>11, <1>12, <1>14
<1>21. /\ p \in DOMAIN nodes' /\ id \in DOMAIN nodes' /\ r \in DOMAIN nodes' /\ r # root /\ m \in Items
       /\ nodes'[r].parent = p /\ nodes'[p].slots = nodes[p].slots /\ nodes'[p].kids = nodes[p].kids
  <2>1. root \in DOMAIN nodes
    BY <1>3, <1>14 DEF Tree, Rooted
  <2>2. m \in Items
    BY <1>2 DEF FullFacts
  <2> QED
    BY <2>1, <2>2, <1>3, <1>4, <1>7, <1>8, <1>10, <1>13, <1>16 DEF Part
<1>22. i \in 0..SlotLength /\ i <= Len(nodes'[p].slots) /\ nodes'[p].kids # <<>> /\ nodes'[p].kids[i + 1] = id
  BY <1>7, <1>8, <1>21, BTreeAssumption
<1>23. TreeInv'
  BY <1>6, <1>14, <1>19, <1>20, <1>21, <1>22, Separated
<1>24. StepSaved
  <2> SUFFICES ASSUME NEW j \in DOMAIN nodes', j \notin saved'
               PROVE  j \in DOMAIN nodes /\ nodes'[j] = nodes[j]
    BY <1>13 DEF StepSaved
  <2>1. j \notin KL /\ j \notin KU /\ j # id /\ j # r
    BY <1>5, <1>12
  <2> QED
    BY <2>1, <1>13
<1>25. Divided(WithItem, LowerKids(WithKids), UpperKids(WithKids))
  <2>1. Looks(nodes', id, L, LK) /\ Looks(nodes', r, U, UK)
    BY <1>9, <1>13 DEF Looks, Node
  <2>2. Others(id)
    BY <1>16 DEF Others, Looks
  <2> QED
    BY <2>1, <2>2, <1>4, <1>6, <1>13 DEF Divided, L, U, m, LK, UK, id, p, i
<1> QED
  BY <1>23, <1>24, <1>25

\* A step that only moves a call on.
LEMMA MovesOn ==
  ASSUME TreeInv, UNCHANGED <<nodes, root, count, saved>>, CallOK', Sibling = Nil, Sibling' = Nil,
         Extra = 0, Extra' = 0, NEW d \in [IDs -> Nat], RankOK(d)'
  PROVE  TreeInv' /\ StepSaved
<1>1. Counting'
  BY DEF TreeInv, Counting
<1>2. (\E e \in [IDs -> Nat] : RankOK(e))'
  BY DEF RankOK
<1> QED
  BY <1>1, <1>2 DEF TreeInv, StepSaved

\* The model's InTree and the items of the tree.
LEMMA InTreeIs == \A i \in Items : InTree(i) <=> i \in All(nodes)
BY DEF InTree, All, Its, Elems, ToSet

\* A call to add starts at the root.
LEMMA AddStep ==
  ASSUME TreeInv, NEW i \in Items, NEW unique \in {IsUnique, TRUE}, Add(i, unique)
  PROVE  TreeInv' /\ StepSaved
<1>0. Sibling = Nil /\ Extra = 0 /\ unique \in BOOLEAN /\ i \notin All(nodes)
  BY InTreeIs, BTreeAssumption DEF Add, Idle, Sibling, Extra
<1>1. CASE root # Nil
  <2>1. UNCHANGED <<nodes, root, count, saved>> /\ call' = [op |-> "add", item |-> i, unique |-> unique, node |-> root]
    BY <1>1 DEF Add
  <2>2. root \in DOMAIN nodes
    BY <1>1 DEF TreeInv, Tree, Rooted
  <2>3. CallOK'
    BY <2>1, <2>2, <1>0 DEF CallOK
  <2>4. Sibling' = Nil /\ Extra' = 0
    BY <2>1 DEF Sibling, Extra
  <2>5. PICK d \in [IDs -> Nat] : RankOK(d)
    BY DEF TreeInv
  <2>6. RankOK(d)'
    BY <2>1, <2>5 DEF RankOK
  <2> QED
    BY <2>1, <2>3, <2>4, <2>6, <1>0, MovesOn
<1>2. CASE root = Nil
  <2> DEFINE id == NewID(nodes)
  <2>1. DOMAIN nodes = {}
    BY <1>2 DEF TreeInv, Tree, Rooted
  <2>2. id \in IDs /\ id # Nil
    BY <2>1, IDsAre, NewIDIs
  <2>3. /\ nodes' = With(nodes, id, Node(Nil, <<>>, <<>>)) /\ root' = id /\ count' = count /\ saved' = saved
        /\ call' = [op |-> "add", item |-> i, unique |-> unique, node |-> id]
    BY <1>2 DEF Add
  <2> HIDE DEF id
  <2>4. DOMAIN nodes' = {id} /\ nodes'[id] = Node(Nil, <<>>, <<>>)
    BY <2>1, <2>3 DEF With
  <2>5. /\ NodeOK(nodes'[id]) /\ nodes'[id].parent = Nil /\ Kids(nodes', id) = {} /\ Its(nodes', id) = {}
    <3> DEFINE w == <<>>
    <3>1. /\ w \in Seq(Items) /\ w \in Seq(IDs \cup {Nil}) /\ Len(w) = 0 /\ w = <<>>
          /\ Elems(w, IDs) = {} /\ Elems(w, Items) = {} /\ Distinct(w, Items) /\ Distinct(w, IDs)
          /\ nodes'[id] = Node(Nil, w, w) /\ 0 <= SlotLength
      BY <2>4, NoElems, BTreeAssumption
    <3> HIDE DEF w
    <3> QED
      BY <3>1 DEF NodeOK, Node, Kids, Its
  <2>6. Shape(nodes', id) /\ Rooted(nodes', id) /\ Linked(nodes', id, Nil)
    BY <2>2, <2>4, <2>5 DEF Shape, Rooted, Linked
  <2>7. Apart(nodes') /\ All(nodes') = All(nodes) /\ i \notin All(nodes')
    BY <2>1, <2>4, <2>5, <1>0 DEF Apart, All
  <2>8. Sibling' = Nil /\ Extra' = 0
    BY <2>3 DEF Sibling, Extra
  <2>9. CallOK'
    BY <2>3, <2>4, <2>7, <1>0 DEF CallOK
  <2>10. Counting'
    BY <2>3, <2>7, <2>8, <1>0 DEF TreeInv, Counting
  <2>11. PICK d \in [IDs -> Nat] : RankOK(d)
    BY DEF TreeInv
  <2>12. RankOK(d)'
    BY <2>3, <2>4 DEF RankOK, Ranked
  <2>13. (\E e \in [IDs -> Nat] : RankOK(e))'
    BY <2>12
  <2>14. TreeInv'
    BY <2>2, <2>3, <2>6, <2>7, <2>8, <2>9, <2>10, <2>13 DEF TreeInv, Tree
  <2>15. StepSaved
    BY <2>1, <2>3, <2>4 DEF StepSaved
  <2> QED
    BY <2>14, <2>15
<1> QED
  BY <1>1, <1>2

\* An item with its key keeps it out.
LEMMA AddRefusedStep ==
  ASSUME TreeInv, AddRefused
  PROVE  TreeInv' /\ StepSaved
<1>1. UNCHANGED <<nodes, root, count, saved>> /\ call' = Idle /\ call.op = "add"
  BY DEF AddRefused
<1>2. CallOK' /\ Sibling = Nil /\ Sibling' = Nil /\ Extra = 0 /\ Extra' = 0
  BY <1>1 DEF CallOK, Sibling, Extra, Idle
<1>3. PICK d \in [IDs -> Nat] : RankOK(d)
  BY DEF TreeInv
<1>4. RankOK(d)'
  BY <1>1, <1>3 DEF RankOK, Idle
<1> QED
  BY <1>1, <1>2, <1>4, MovesOn

\* A child there is is a node below its parent.
LEMMA ChildIs ==
  ASSUME NEW n, NEW rt, Tree(n, rt, Nil), NEW id \in DOMAIN n, n[id].kids # <<>>,
         NEW k \in 1..Len(n[id].slots) + 1, n[id].kids[k] # Nil
  PROVE  n[id].kids[k] \in DOMAIN n /\ n[id].kids[k] # rt /\ n[n[id].kids[k]].parent = id
<1>1. /\ DOMAIN n[id].kids = 1..Len(n[id].slots) + 1
      /\ \A j \in 1..Len(n[id].slots) + 1 : n[id].kids[j] \in IDs \cup {Nil}
  BY NodeFacts
<1>2. n[id].kids[k] \in IDs /\ n[id].kids[k] \in Kids(n, id)
  BY <1>1 DEF Kids, Elems
<1> QED
  BY <1>2 DEF Tree, Linked

\* Down to a child.
LEMMA AddBelowStep ==
  ASSUME TreeInv, AddBelow
  PROVE  TreeInv' /\ StepSaved
<1> DEFINE c == Here.kids[Index + 1]
<1>1. UNCHANGED <<nodes, root, count, saved>> /\ call' = [call EXCEPT !.node = c] /\ call.op = "add"
  BY DEF AddBelow
<1>2. AddFacts
  BY <1>1, AddNow
<1>3. c \in DOMAIN nodes
  <2>1. Index + 1 \in 1..Len(Here.slots) + 1 /\ Len(Here.slots) \in Nat
    BY <1>2, NodeFacts DEF AddFacts, Here
  <2> QED
    BY <2>1, <1>2, ChildIs DEF AddFacts, AddBelow, HasChildren, Here
<1>4. /\ call \in [op : {"add"}, item : Items, unique : BOOLEAN, node : DOMAIN nodes]
      /\ call.item \notin All(nodes)
  BY <1>1 DEF TreeInv, CallOK, Idle, Added, Removed
<1> HIDE DEF c
<1>5. call' \in [op : {"add"}, item : Items, unique : BOOLEAN, node : DOMAIN nodes] /\ call'.item = call.item
      /\ call'.op = "add"
  BY <1>1, <1>3, <1>4
<1>6. CallOK'
  BY <1>1, <1>4, <1>5 DEF CallOK
<1>7. Sibling = Nil /\ Sibling' = Nil /\ Extra = 0 /\ Extra' = 0
  BY <1>1, <1>5 DEF Sibling, Extra
<1>8. PICK d \in [IDs -> Nat] : RankOK(d)
  BY DEF TreeInv
<1>9. RankOK(d)'
  BY <1>1, <1>5, <1>8 DEF RankOK
<1> QED
  BY <1>1, <1>6, <1>7, <1>9, MovesOn

\* An item more.
LEMMA AddReturnsStep ==
  ASSUME TreeInv, AddReturns
  PROVE  TreeInv' /\ StepSaved
<1>1. nodes' = nodes /\ root' = root /\ saved' = {} /\ count' = count + 1 /\ call = Added /\ call' = Idle
  BY DEF AddReturns
<1>2. CallOK' /\ Sibling = Nil /\ Sibling' = Nil /\ Extra = 1 /\ Extra' = 0
  BY <1>1 DEF CallOK, Sibling, Extra, Idle, Added
<1>3. Counting'
  BY <1>1, <1>2 DEF TreeInv, Counting
<1>4. (\E d \in [IDs -> Nat] : RankOK(d))'
  BY <1>1 DEF RankOK, Idle, TreeInv
<1> QED
  BY <1>1, <1>2, <1>3, <1>4 DEF TreeInv, StepSaved

-----------------------------------------------------------------------------
(* The steps of a removal. *)

\* An item is out of the tree, and the call returns.
LEMMA TakenOut ==
  ASSUME TreeInv, call.op \in {"idle", "next"}, NEW x \in All(nodes),
         Tree(nodes', root, Nil), NEW d \in [IDs -> Nat], Ranked(nodes', root, d),
         Apart(nodes'), All(nodes') = All(nodes) \ {x},
         call' = Removed, root' = root, count' = count, saved' \subseteq IDs
  PROVE  TreeInv'
<1>1. Sibling' = Nil /\ Extra' = -1 /\ Extra = 0
  BY DEF Sibling, Extra, Removed
<1>2. CallOK'
  BY DEF CallOK
<1>3. Counting'
  <2>1. /\ count \in Nat /\ IsFiniteSet(All(nodes)) /\ Cardinality(All(nodes)) = count + 0
    BY <1>1 DEF TreeInv, Counting
  <2>2. /\ IsFiniteSet(All(nodes) \ {x})
        /\ Cardinality(All(nodes) \ {x}) = Cardinality(All(nodes)) - 1
    BY <2>1, FS_RemoveElement
  <2>3. Cardinality(All(nodes')) = Cardinality(All(nodes)) - 1 /\ IsFiniteSet(All(nodes'))
    BY <2>2, Zenon
  <2>4. Cardinality(All(nodes')) = count + -1
    BY <2>1, <2>3
  <2> QED
    BY <2>1, <2>3, <2>4, <1>1 DEF Counting
<1>4. (\E e \in [IDs -> Nat] : RankOK(e))'
  BY DEF RankOK, Removed
<1>5. root \in IDs \cup {Nil}
  BY DEF TreeInv
<1> QED
  BY <1>1, <1>2, <1>3, <1>4, <1>5 DEF TreeInv

\* An item on a leaf or beside a pruned child goes.
LEMMA RemoveCurrentItemStep ==
  ASSUME TreeInv, NEW id \in DOMAIN nodes, NEW k \in 0..Count(nodes, id) - 1, RemoveCurrentItem(id, k)
  PROVE  TreeInv' /\ StepSaved
<1> DEFINE y == nodes[id].slots[k + 1]
           t2 == RemoveSlot(Rec(nodes, saved), id, k)
<1>1. /\ call = Idle /\ call' = Removed /\ root' = root /\ count' = count
      /\ nodes' = t2.n /\ saved' = t2.saved
      /\ HasChildren(nodes, id) => HasNilChildAt(nodes, id, k)
  BY DEF RemoveCurrentItem, Becomes, Working, Rec
<1>2. Sibling = Nil /\ call.op = "idle"
  BY <1>1 DEF Sibling, Idle
<1>3. Tree(nodes, root, Nil) /\ Apart(nodes) /\ saved \subseteq IDs
  BY <1>2 DEF TreeInv
<1>4. PICK d \in [IDs -> Nat] : Ranked(nodes, root, d)
  BY DEF TreeInv, RankOK
<1>5. k \in 0..Len(nodes[id].slots) - 1
  BY DEF Count
<1>6. Takes(nodes, t2.n, root, id, y) /\ Saves(nodes, saved, t2, root)
  <2>1. RemovalOK(nodes, saved, t2, root, id, k)
    BY <1>1, <1>3, <1>4, <1>5, RemoveSlotTakes
  <2> QED
    BY <2>1 DEF RemovalOK
<1>7. y \in Its(nodes, id) /\ y \in Items
  <2>1. /\ Len(nodes[id].slots) \in Nat /\ DOMAIN nodes[id].slots = 1..Len(nodes[id].slots)
        /\ \A j \in 1..Len(nodes[id].slots) : nodes[id].slots[j] \in Items
    BY <1>3, NodeFacts
  <2>2. k + 1 \in 1..Len(nodes[id].slots)
    BY <1>5, <2>1
  <2> QED
    BY <2>1, <2>2 DEF Its, Elems
<1> HIDE DEF t2, y
<1>8. \A a, b \in DOMAIN nodes : a # b => Without(nodes, id, y)[a] \cap Without(nodes, id, y)[b] = {}
  BY <1>3 DEF Apart, Without
<1>9. Left(nodes, id, y) = All(nodes) \ {y}
  <2>1. ASSUME NEW z \in Items
        PROVE  z \in Left(nodes, id, y) <=> z \in All(nodes) \ {y}
    BY <1>3, <1>7 DEF Left, All, Without, Apart
  <2> QED
    BY <2>1 DEF Left, All
<1>10. Tree(nodes', root, Nil) /\ Ranked(nodes', root, d) /\ Apart(nodes') /\ All(nodes') = All(nodes) \ {y}
  BY <1>1, <1>4, <1>6, <1>8, <1>9 DEF Takes
<1>11. saved' \subseteq IDs
  BY <1>1, <1>3, <1>6 DEF Saves
<1>12. y \in All(nodes)
  BY <1>7 DEF All
<1>13. TreeInv'
  BY <1>1, <1>2, <1>10, <1>11, <1>12, TakenOut
<1>14. StepSaved
  BY <1>1, <1>6 DEF Saves, StepSaved
<1> QED
  BY <1>13, <1>14

\* An item between two children: the call goes down to the next.
LEMMA RemoveBetweenChildrenStep ==
  ASSUME TreeInv, NEW id \in DOMAIN nodes, NEW k \in 0..Count(nodes, id) - 1, RemoveBetweenChildren(id, k)
  PROVE  TreeInv' /\ StepSaved
<1> DEFINE c == nodes[id].kids[k + 2]
<1>1. /\ UNCHANGED <<nodes, root, count, saved>> /\ call = Idle
      /\ call' = [op |-> "next", home |-> id, slot |-> k, node |-> c]
      /\ nodes[id].kids # <<>> /\ c # Nil
  BY DEF RemoveBetweenChildren, HasChildren, HasNilChildAt
<1>2. Sibling = Nil /\ Sibling' = Nil /\ Extra = 0 /\ Extra' = 0
  BY <1>1 DEF Sibling, Extra, Idle
<1>3. Tree(nodes, root, Nil)
  BY <1>2 DEF TreeInv
<1>4. /\ Len(nodes[id].slots) \in Nat /\ Len(nodes[id].slots) <= SlotLength /\ id \in IDs
      /\ k \in 0..Len(nodes[id].slots) - 1
  BY <1>3, NodeFacts DEF Count
<1>5. k + 2 \in 1..Len(nodes[id].slots) + 1 /\ k < Len(nodes[id].slots) /\ k \in 0..SlotLength - 1
  BY <1>4, BTreeAssumption
<1>6. c \in DOMAIN nodes /\ c # root /\ nodes[c].parent = id
  BY <1>1, <1>3, <1>5, ChildIs
<1>7. PICK d \in [IDs -> Nat] : RankOK(d)
  BY DEF TreeInv
<1> HIDE DEF c
<1>8. CallOK'
  BY <1>1, <1>5, <1>6 DEF CallOK
<1>9. RankOK(d)'
  BY <1>1, <1>6, <1>7 DEF RankOK, Ranked
<1> QED
  BY <1>1, <1>2, <1>8, <1>9, MovesOn

\* A call on its way to the next item.
NextFacts(d) ==
    /\ Tree(nodes, root, Nil) /\ Apart(nodes) /\ saved \subseteq IDs
    /\ call \in [op : {"next"}, home : DOMAIN nodes, slot : 0..SlotLength - 1, node : DOMAIN nodes]
    /\ call.slot \in 0..Len(nodes[call.home].slots) - 1 /\ call.node # root
    /\ d \in [IDs -> Nat] /\ Ranked(nodes, root, d) /\ d[call.home] < d[call.node]

\* The facts, from the invariant.
LEMMA NextNow ==
  ASSUME TreeInv, call.op = "next"
  PROVE  \E d : NextFacts(d)
<1>1. /\ call \in [op : {"next"}, home : DOMAIN nodes, slot : 0..SlotLength - 1, node : DOMAIN nodes]
      /\ call.slot < Len(nodes[call.home].slots) /\ call.node # root
  BY DEF TreeInv, CallOK, Idle, Added, Removed
<1>2. Sibling = Nil
  BY DEF Sibling
<1>3. Tree(nodes, root, Nil) /\ Apart(nodes) /\ saved \subseteq IDs
  BY <1>2 DEF TreeInv
<1>4. PICK d \in [IDs -> Nat] : RankOK(d)
  BY DEF TreeInv
<1>5. Len(nodes[call.home].slots) \in Nat
  BY <1>1, <1>3, NodeFacts
<1>6. call.slot \in 0..Len(nodes[call.home].slots) - 1
  BY <1>1, <1>5, BTreeAssumption
<1> QED
  BY <1>1, <1>3, <1>4, <1>6 DEF NextFacts, RankOK

\* Further down.
LEMMA NextBelowStep ==
  ASSUME TreeInv, NextBelow
  PROVE  TreeInv' /\ StepSaved
<1> DEFINE c == Here.kids[1]
<1>1. /\ UNCHANGED <<nodes, root, count, saved>> /\ call' = [call EXCEPT !.node = c] /\ call.op = "next"
      /\ nodes[call.node].kids # <<>> /\ c # Nil
  BY DEF NextBelow, HasChildren
<1>2. PICK d : NextFacts(d)
  BY <1>1, NextNow
<1>3. c \in DOMAIN nodes /\ c # root /\ nodes[c].parent = call.node
  <2>1. Len(nodes[call.node].slots) \in Nat /\ call.node \in DOMAIN nodes
    BY <1>2, NodeFacts DEF NextFacts
  <2>2. 1 \in 1..Len(nodes[call.node].slots) + 1
    BY <2>1
  <2> QED
    BY <1>1, <1>2, <2>1, <2>2, ChildIs DEF NextFacts, Here
<1>4. Sibling = Nil /\ Sibling' = Nil /\ Extra = 0 /\ Extra' = 0
  BY <1>1, <1>2 DEF Sibling, Extra, NextFacts
<1> HIDE DEF c
<1>5. /\ call' \in [op : {"next"}, home : DOMAIN nodes, slot : 0..SlotLength - 1, node : DOMAIN nodes]
      /\ call'.home = call.home /\ call'.slot = call.slot /\ call'.node = c
  BY <1>1, <1>2, <1>3 DEF NextFacts
<1>6. CallOK'
  <2>1. call.slot < Len(nodes[call.home].slots)
    BY <1>1 DEF TreeInv, CallOK, Idle, Added, Removed
  <2> QED
    BY <2>1, <1>1, <1>3, <1>5 DEF CallOK
<1>7. d[call.home] < d[c]
  <2>1. d[call.node] < d[c] /\ d[call.home] < d[call.node]
    BY <1>2, <1>3 DEF NextFacts, Ranked
  <2>2. DOMAIN nodes \subseteq IDs /\ call.home \in DOMAIN nodes /\ call.node \in DOMAIN nodes
    BY <1>2 DEF NextFacts, Tree, Shape
  <2>3. d[call.home] \in Nat /\ d[call.node] \in Nat /\ d[c] \in Nat
    BY <2>2, <1>2, <1>3 DEF NextFacts
  <2> QED
    BY <2>1, <2>3
<1>8. RankOK(d)' /\ d \in [IDs -> Nat]
  BY <1>1, <1>2, <1>5, <1>7 DEF RankOK, NextFacts
<1> QED
  BY <1>1, <1>4, <1>6, <1>8, MovesOn

\* An item less.
LEMMA RemoveReturnsStep ==
  ASSUME TreeInv, RemoveReturns
  PROVE  TreeInv' /\ StepSaved
<1>1. nodes' = nodes /\ root' = root /\ saved' = {} /\ count' = count - 1 /\ call = Removed /\ call' = Idle
  BY DEF RemoveReturns
<1>2. CallOK' /\ Sibling = Nil /\ Sibling' = Nil /\ Extra = -1 /\ Extra' = 0
  BY <1>1 DEF CallOK, Sibling, Extra, Idle, Removed
<1>3. Counting'
  <2>1. IsFiniteSet(All(nodes)) /\ Cardinality(All(nodes)) = count + -1 /\ count \in Nat
    BY <1>2 DEF TreeInv, Counting
  <2>2. Cardinality(All(nodes)) \in Nat
    BY <2>1, FS_CardinalityType
  <2>3. count - 1 \in Nat /\ Cardinality(All(nodes)) = (count - 1) + 0
    BY <2>1, <2>2
  <2> QED
    BY <2>1, <2>3, <1>1, <1>2 DEF Counting
<1>4. (\E d \in [IDs -> Nat] : RankOK(d))'
  BY <1>1 DEF RankOK, Idle, TreeInv
<1> QED
  BY <1>1, <1>2, <1>3, <1>4 DEF TreeInv, StepSaved

\* The nodes with y at slot i of node home, and what they are.
Overwritten(n, home, i, y) == With(n, home, [n[home] EXCEPT !.slots[i] = y])

Swapped(n, n1, rt, home, x, y) ==
    /\ Tree(n1, rt, Nil) /\ \A d : Ranked(n, rt, d) => Ranked(n1, rt, d)
    /\ Its(n1, home) = (Its(n, home) \ {x}) \cup {y}
    /\ DOMAIN n1 = DOMAIN n /\ \A j \in DOMAIN n \ {home} : n1[j] = n[j]

\* The item at slot i of node home gives way to y: the links stay, and y is in its stead.
LEMMA SwapsItem ==
  ASSUME NEW n, NEW rt, Tree(n, rt, Nil), NEW home \in DOMAIN n, NEW i \in 1..Len(n[home].slots),
         NEW y \in Items, y \notin Its(n, home)
  PROVE  Swapped(n, Overwritten(n, home, i, y), rt, home, n[home].slots[i], y)
<1> DEFINE s == n[home].slots
           v == [s EXCEPT ![i] = y]
           nd == [n[home] EXCEPT !.slots[i] = y]
           n1 == With(n, home, nd)
           I == (Its(n, home) \ {s[i]}) \cup {y}
<1>1. /\ n[home] = Node(n[home].parent, s, n[home].kids) /\ NodeOK(n[home])
      /\ s \in Seq(Items) /\ Len(s) \in Nat /\ DOMAIN s = 1..Len(s) /\ home \in IDs
  BY NodeFacts
<1>2. Replaceable(s, i, y, Items, Items)
  BY <1>1 DEF Replaceable, Its, NodeOK
<1>3. Replaced(s, i, y, Items, Items)
  BY <1>2, ReplaceElems
<1>4. v \in Seq(Items) /\ Len(v) = Len(s) /\ Distinct(v, Items) /\ Elems(v, Items) = I
  BY <1>3 DEF Replaced, Its
<1>5. nd = Node(n[home].parent, v, n[home].kids)
  BY <1>1, SMTT(60) DEF Node
<1> HIDE DEF v
<1>6. Len(v) >= 1 /\ v # <<>>
  BY <1>1, <1>4, EmptyIs
<1>7. Part(nd, n[home].parent, Kids(n, home), I) /\ nd.slots = v
  BY <1>1, <1>4, <1>5 DEF Part, Node, NodeOK, Kids
<1>8. DOMAIN n1 = DOMAIN n /\ n1[home] = nd /\ \A j \in DOMAIN n \ {home} : n1[j] = n[j]
  BY DEF With
<1> HIDE DEF nd, n1, I
<1>9. Swap(n, rt, Nil, home, n1, I)
  BY <1>6, <1>7, <1>8 DEF Swap
<1>10. Tree(n1, rt, Nil) /\ (\A d : Ranked(n, rt, d) => Ranked(n1, rt, d)) /\ Its(n1, home) = I
  BY <1>9, KeepsLinks
<1> QED
  BY <1>8, <1>10 DEF n1, nd, I, Overwritten, Swapped

\* The next item replaces the removed one and leaves its own place.
LEMMA RemoveNextStep ==
  ASSUME TreeInv, RemoveNext
  PROVE  TreeInv' /\ StepSaved
<1> DEFINE home == call.home
           id == call.node
           i == call.slot + 1
           x == nodes[home].slots[i]
           y == nodes[id].slots[1]
           n1 == Overwritten(nodes, home, i, y)
           sv == saved \cup {home}
           t2 == RemoveSlot(Rec(n1, sv), id, 0)
<1>1. /\ call.op = "next" /\ call' = Removed /\ root' = root /\ count' = count
      /\ nodes' = t2.n /\ saved' = t2.saved
      /\ HasChildren(nodes, id) => nodes[id].kids[1] = Nil
  <2>1. SaveNode(Working, home, [nodes[home] EXCEPT !.slots[i] = y]) = Rec(n1, sv)
    BY DEF SaveNode, Working, Rec, Overwritten
  <2> QED
    BY <2>1 DEF RemoveNext, Becomes, Here
<1>2. PICK d : NextFacts(d)
  BY <1>1, NextNow
<1>3. /\ Tree(nodes, root, Nil) /\ Apart(nodes) /\ saved \subseteq IDs
      /\ home \in DOMAIN nodes /\ id \in DOMAIN nodes /\ id # root
      /\ d \in [IDs -> Nat] /\ Ranked(nodes, root, d) /\ d[home] < d[id]
      /\ call.slot \in 0..Len(nodes[home].slots) - 1
  BY <1>2 DEF NextFacts
<1>4. /\ home \in IDs /\ id \in IDs /\ home # id
      /\ Len(nodes[home].slots) \in Nat /\ DOMAIN nodes[home].slots = 1..Len(nodes[home].slots)
      /\ \A k \in 1..Len(nodes[home].slots) : nodes[home].slots[k] \in Items
      /\ Len(nodes[id].slots) \in Nat /\ DOMAIN nodes[id].slots = 1..Len(nodes[id].slots)
      /\ \A k \in 1..Len(nodes[id].slots) : nodes[id].slots[k] \in Items
  BY <1>3, NodeFacts
<1>5. i \in 1..Len(nodes[home].slots) /\ Len(nodes[id].slots) >= 1
  <2>1. nodes[id].slots # <<>> /\ nodes[id].slots \in Seq(Items)
    BY <1>3, NodeFacts
  <2>2. Len(nodes[id].slots) # 0
    BY <2>1, EmptyIs
  <2> QED
    BY <1>3, <1>4, <2>2
<1>6. /\ x \in Items /\ x \in Its(nodes, home) /\ y \in Items /\ y \in Its(nodes, id)
      /\ y \notin Its(nodes, home) /\ x \notin Its(nodes, id)
  <2>1. 1 \in 1..Len(nodes[id].slots)
    BY <1>4, <1>5
  <2>2. x \in Its(nodes, home) /\ y \in Its(nodes, id)
    BY <1>4, <1>5, <2>1 DEF Its, Elems
  <2> QED
    BY <1>3, <1>4, <2>2 DEF Apart, Its, Elems
<1>7. /\ Tree(n1, root, Nil) /\ Ranked(n1, root, d)
      /\ Its(n1, home) = (Its(nodes, home) \ {x}) \cup {y}
      /\ DOMAIN n1 = DOMAIN nodes /\ \A j \in DOMAIN nodes \ {home} : n1[j] = nodes[j]
  <2>1. Swapped(nodes, n1, root, home, x, y)
    BY <1>3, <1>5, <1>6, SwapsItem
  <2> QED
    BY <2>1, <1>3 DEF Swapped
<1> HIDE DEF n1, x
<1>8. n1[id] = nodes[id] /\ \A j \in DOMAIN nodes \ {home} : Its(n1, j) = Its(nodes, j)
  BY <1>3, <1>4, <1>7 DEF Its
<1>9. Takes(n1, t2.n, root, id, y) /\ Saves(n1, sv, t2, root)
  <2>1. id \in DOMAIN n1 /\ 0 \in 0..Len(n1[id].slots) - 1 /\ 0 + 1 = 1
    BY <1>3, <1>4, <1>5, <1>7, <1>8
  <2>2. HasChildren(n1, id) => HasNilChildAt(n1, id, 0)
    BY <1>1, <1>8 DEF HasChildren, HasNilChildAt
  <2>3. RemovalOK(n1, sv, RemoveSlot(Rec(n1, sv), id, 0), root, id, 0)
    BY <1>3, <1>7, <2>1, <2>2, RemoveSlotTakes
  <2>4. n1[id].slots[0 + 1] = y
    BY <1>8, <2>1
  <2> QED
    BY <2>3, <2>4 DEF RemovalOK
<1> HIDE DEF t2, y, sv
<1>10. /\ \A a \in DOMAIN n1 \ {home, id} : Without(n1, id, y)[a] = Its(nodes, a)
       /\ Without(n1, id, y)[home] = (Its(nodes, home) \ {x}) \cup {y}
       /\ Without(n1, id, y)[id] = Its(nodes, id) \ {y}
  BY <1>3, <1>4, <1>7, <1>8 DEF Without
<1>11. \A a \in DOMAIN nodes : y \in Its(nodes, a) => a = id
  BY <1>3, <1>6 DEF Apart
<1>12. \A a \in DOMAIN nodes : x \in Its(nodes, a) => a = home
  BY <1>3, <1>6 DEF Apart
<1>13. \A a, b \in DOMAIN n1 : a # b => Without(n1, id, y)[a] \cap Without(n1, id, y)[b] = {}
  <2> SUFFICES ASSUME NEW a \in DOMAIN nodes, NEW b \in DOMAIN nodes, a # b,
                      NEW z, z \in Without(n1, id, y)[a], z \in Without(n1, id, y)[b]
               PROVE  FALSE
    BY <1>7
  <2>1. z # y => z \in Its(nodes, a) /\ z \in Its(nodes, b)
    BY <1>7, <1>10
  <2>2. z = y => a = home /\ b = home
    BY <1>7, <1>10, <1>11
  <2> QED
    BY <2>1, <2>2, <1>3 DEF Apart
<1>14. Left(n1, id, y) = All(nodes) \ {x}
  <2>1. ASSUME NEW z \in Items, z \in Left(n1, id, y)
        PROVE  z \in All(nodes) \ {x}
    <3>1. PICK a \in DOMAIN nodes : z \in Without(n1, id, y)[a]
      BY <2>1, <1>7 DEF Left
    <3>2. z # x
      BY <3>1, <1>3, <1>4, <1>6, <1>7, <1>10, <1>12
    <3>3. z = y \/ z \in Its(nodes, a)
      BY <3>1, <1>7, <1>10
    <3> QED
      BY <3>1, <3>2, <3>3, <1>3, <1>6 DEF All
  <2>2. ASSUME NEW z \in Items, z \in All(nodes) \ {x}
        PROVE  z \in Left(n1, id, y)
    <3>1. PICK a \in DOMAIN nodes : z \in Its(nodes, a)
      BY <2>2 DEF All
    <3>2. CASE z = y
      BY <3>2, <1>3, <1>7, <1>10 DEF Left
    <3>3. CASE z # y
      <4>1. z \in Without(n1, id, y)[a]
        BY <3>1, <3>3, <2>2, <1>7, <1>10
      <4> QED
        BY <4>1, <1>7 DEF Left
    <3> QED
      BY <3>2, <3>3
  <2> QED
    BY <2>1, <2>2 DEF Left, All
<1>15. Tree(nodes', root, Nil) /\ Ranked(nodes', root, d) /\ Apart(nodes') /\ All(nodes') = All(nodes) \ {x}
  BY <1>1, <1>3, <1>7, <1>9, <1>13, <1>14 DEF Takes
<1>16. saved' \subseteq IDs /\ home \in saved'
  BY <1>1, <1>3, <1>4, <1>9 DEF Saves, sv
<1>17. x \in All(nodes)
  BY <1>3, <1>6 DEF All
<1>18. TreeInv'
  BY <1>1, <1>3, <1>15, <1>16, <1>17, TakenOut
<1>19. StepSaved
  <2> SUFFICES ASSUME NEW j \in (DOMAIN nodes \cup DOMAIN nodes') \ {root}, j \notin saved'
               PROVE  j \in DOMAIN nodes \cap DOMAIN nodes' /\ nodes'[j] = nodes[j]
    BY <1>1 DEF StepSaved
  <2>1. j \in DOMAIN n1 /\ j \in DOMAIN nodes' /\ nodes'[j] = n1[j]
    BY <1>1, <1>7, <1>9 DEF Saves
  <2> QED
    BY <2>1, <1>7, <1>16
<1> QED
  BY <1>18, <1>19

-----------------------------------------------------------------------------
(* The invariant, and what follows from it. *)

\* The empty tree has the invariant.
LEMMA InitTree == Init => TreeInv
<1> SUFFICES ASSUME Init PROVE TreeInv
  OBVIOUS
<1>1. nodes = <<>> /\ root = Nil /\ count = 0 /\ call = Idle /\ saved = {}
  BY DEF Init
<1>2. DOMAIN nodes = {}
  BY <1>1
<1>3. Sibling = Nil /\ Extra = 0 /\ call.op = "idle"
  BY <1>1 DEF Sibling, Extra, Idle
<1>4. Tree(nodes, root, Sibling) /\ Apart(nodes) /\ All(nodes) = {}
  BY <1>1, <1>2 DEF Tree, Shape, Rooted, Linked, Apart, All
<1>5. CallOK
  BY <1>1 DEF CallOK
<1>6. Counting
  <2>1. IsFiniteSet({}) /\ Cardinality({}) = 0
    BY FS_EmptySet
  <2>2. IsFiniteSet(All(nodes)) /\ Cardinality(All(nodes)) = 0
    BY <1>4, <2>1, Zenon
  <2> QED
    BY <1>1, <1>3, <2>2 DEF Counting
<1>7. \E d \in [IDs -> Nat] : RankOK(d)
  <2>1. [a \in IDs |-> 0] \in [IDs -> Nat]
    OBVIOUS
  <2>2. RankOK([a \in IDs |-> 0])
    BY <1>2, <1>3 DEF RankOK, Ranked
  <2> QED
    BY <2>1, <2>2
<1> QED
  BY <1>1, <1>4, <1>5, <1>6, <1>7 DEF TreeInv

\* Every step keeps it, and saves what it changes.
LEMMA NextTree == ASSUME TreeInv, Next PROVE TreeInv' /\ StepSaved
<1>1. CASE Adding
  <2>1. CASE \E i \in Items, unique \in {IsUnique, TRUE} : Add(i, unique)
    BY <2>1, AddStep
  <2>2. CASE AddRefused
    BY <2>2, AddRefusedStep
  <2>3. CASE AddBelow
    BY <2>3, AddBelowStep
  <2>4. CASE AddItemOnNodeWithNilChild
    BY <2>4, AddItemOnNodeWithNilChildStep
  <2>5. CASE AddOnLeaf
    BY <2>5, AddOnLeafStep
  <2>6. CASE BreakRoot
    BY <2>6, BreakRootStep
  <2>7. CASE SplitLeaf
    BY <2>7, SplitLeafStep
  <2>8. CASE Promote
    BY <2>8, PromoteStep
  <2>9. CASE PromoteBreakRoot
    BY <2>9, PromoteBreakRootStep
  <2>10. CASE PromoteSplit
    BY <2>10, PromoteSplitStep
  <2>11. CASE AddReturns
    BY <2>11, AddReturnsStep
  <2> QED
    BY <1>1, <2>1, <2>2, <2>3, <2>4, <2>5, <2>6, <2>7, <2>8, <2>9, <2>10, <2>11 DEF Adding
<1>2. CASE Removing
  <2>1. ASSUME NEW id \in DOMAIN nodes, NEW k \in 0..Count(nodes, id) - 1,
               RemoveCurrentItem(id, k) \/ RemoveBetweenChildren(id, k)
        PROVE  TreeInv' /\ StepSaved
    BY <2>1, RemoveCurrentItemStep, RemoveBetweenChildrenStep
  <2>2. CASE NextBelow
    BY <2>2, NextBelowStep
  <2>3. CASE RemoveNext
    BY <2>3, RemoveNextStep
  <2>4. CASE RemoveReturns
    BY <2>4, RemoveReturnsStep
  <2> QED
    BY <1>2, <2>1, <2>2, <2>3, <2>4 DEF Removing
<1> QED
  BY <1>1, <1>2 DEF Next

\* A stuttering step keeps it too.
LEMMA StutterTree == ASSUME TreeInv, UNCHANGED vars PROVE TreeInv'
<1>1. nodes' = nodes /\ root' = root /\ count' = count /\ call' = call /\ saved' = saved
  BY DEF vars
<1>2. Sibling' = Sibling /\ Extra' = Extra /\ (CallOK <=> CallOK')
  BY <1>1 DEF Sibling, Extra, CallOK
<1>3. (\E d \in [IDs -> Nat] : RankOK(d))'
  BY <1>1 DEF TreeInv, RankOK
<1> QED
  BY <1>1, <1>2, <1>3 DEF TreeInv, Counting

\* The invariant holds in every state.
LEMMA TreeAlways == Spec => []TreeInv
<1>1. ASSUME TreeInv, [Next]_vars PROVE TreeInv'
  BY <1>1, NextTree, StutterTree
<1> QED
  BY <1>1, InitTree, PTL DEF Spec

\* It implies the three the runs check.
LEMMA TreeTypes == TreeInv => TypeOK
<1> SUFFICES ASSUME TreeInv PROVE TypeOK
  OBVIOUS
<1>1. Tree(nodes, root, Sibling)
  BY DEF TreeInv
<1>2. DOMAIN nodes \subseteq IDs
  BY <1>1 DEF Tree, Shape
<1>3. ASSUME NEW id \in DOMAIN nodes
      PROVE  /\ nodes[id] \in [parent : DOMAIN nodes \cup {Nil}, slots : Seq(Items), kids : Seq(DOMAIN nodes \cup {Nil})]
             /\ Len(nodes[id].slots) <= SlotLength
             /\ nodes[id].slots = <<>> => id = root
             /\ nodes[id].kids # <<>> => Len(nodes[id].kids) = Len(nodes[id].slots) + 1
  <2> DEFINE s == nodes[id].kids
             T == DOMAIN nodes \cup {Nil}
  <2>1. /\ nodes[id] = Node(nodes[id].parent, nodes[id].slots, s) /\ nodes[id].slots \in Seq(Items)
        /\ Len(nodes[id].slots) <= SlotLength /\ (id # root => nodes[id].slots # <<>>)
        /\ s # <<>> => Len(s) = Len(nodes[id].slots) + 1
        /\ s \in Seq(IDs \cup {Nil}) /\ DOMAIN s = 1..Len(s) /\ \A k \in 1..Len(s) : s[k] \in IDs \cup {Nil}
    BY <1>1, NodeFacts
  <2>2. \A k \in 1..Len(s) : s[k] \in T
    <3>1. Kids(nodes, id) \subseteq DOMAIN nodes
      BY <1>1, KidsIn
    <3> QED
      BY <2>1, <3>1 DEF Kids, Elems
  <2>3. nodes[id].parent \in T
    BY <1>1 DEF Tree, Linked, Rooted
  <2> HIDE DEF T
  <2>4. s \in Seq(T)
    <3> HIDE DEF s
    <3>1. Len(s) \in Nat /\ s = [k \in 1..Len(s) |-> s[k]]
      <4>1. s \in Seq(IDs \cup {Nil})
        BY <2>1
      <4>2. Len(s) \in Nat /\ s \in [1..Len(s) -> IDs \cup {Nil}]
        BY <4>1, LenProperties
      <4> QED
        BY <4>2
    <3>2. [k \in 1..Len(s) |-> s[k]] \in [1..Len(s) -> T]
      BY <2>2
    <3> QED
      BY <3>1, <3>2
  <2>5. nodes[id] \in [parent : T, slots : Seq(Items), kids : Seq(T)]
    <3> DEFINE p == nodes[id].parent
               i == nodes[id].slots
    <3>1. nodes[id] = [parent |-> p, slots |-> i, kids |-> s] /\ p \in T /\ i \in Seq(Items)
      BY <2>1, <2>3 DEF Node
    <3> HIDE DEF s, p, i
    <3> QED
      BY <2>4, <3>1
  <2> QED
    BY <2>1, <2>5 DEF T
<1>4. root \in DOMAIN nodes \cup {Nil}
  BY <1>1 DEF Tree, Rooted
<1>5. call \in Calls
  BY DEF TreeInv, CallOK, Calls
<1>6. count \in Nat /\ saved \subseteq 1..MaxNodes
  BY DEF TreeInv, Counting, IDs
<1> QED
  BY <1>2, <1>3, <1>4, <1>5, <1>6 DEF TypeOK, IDs

\* The links agree.
LEMMA TreeLinks == TreeInv => LinksAgree
<1> SUFFICES ASSUME TreeInv PROVE LinksAgree
  OBVIOUS
<1>1. Tree(nodes, root, Sibling) /\ DOMAIN nodes \subseteq IDs
  BY DEF TreeInv, Tree, Shape
<1>2. ASSUME NEW id \in DOMAIN nodes, NEW k \in DOMAIN nodes[id].kids, nodes[id].kids[k] # Nil
      PROVE  nodes[nodes[id].kids[k]].parent = id
  <2>1. nodes[id].kids[k] \in IDs
    BY <1>1, <1>2, NodeFacts
  <2>2. nodes[id].kids[k] \in Kids(nodes, id)
    BY <2>1 DEF Kids, Elems
  <2> QED
    BY <1>1, <2>1, <2>2 DEF Tree, Linked
<1>3. ASSUME NEW id \in DOMAIN nodes \ {root}
      PROVE  Cardinality({k \in DOMAIN nodes[nodes[id].parent].kids : nodes[nodes[id].parent].kids[k] = id})
               = IF call.op = "promote" /\ id = call.right THEN 0 ELSE 1
  <2> DEFINE p == nodes[id].parent
             at == {k \in DOMAIN nodes[p].kids : nodes[p].kids[k] = id}
  <2>1. id \in IDs /\ p \in DOMAIN nodes /\ Nil \notin IDs
    BY <1>1, IDsAre DEF Tree, Linked
  <2>2. CASE id = Sibling
    <3>1. call.op = "promote" /\ id = call.right
      BY <2>1, <2>2 DEF Sibling
    <3>2. id \notin Kids(nodes, p)
      BY <1>1, <2>1, <2>2, KidsIn
    <3>3. at = {}
      BY <2>1, <3>2 DEF Kids, Elems
    <3> HIDE DEF at
    <3>4. Cardinality(at) = 0
      BY <3>3, FS_EmptySet, Zenon
    <3> QED
      BY <3>1, <3>4 DEF at
  <2>3. CASE id # Sibling
    <3>1. ~ (call.op = "promote" /\ id = call.right)
      BY <2>3 DEF Sibling
    <3>2. id \in Kids(nodes, p) /\ Distinct(nodes[p].kids, IDs)
      BY <1>1, <2>1, <2>3, GetIndexIs, NodeFacts
    <3>3. PICK i \in DOMAIN nodes[p].kids : nodes[p].kids[i] = id
      BY <3>2 DEF Kids, Elems
    <3>4. at = {i}
      BY <2>1, <3>2, <3>3 DEF Distinct
    <3> HIDE DEF at
    <3>5. Cardinality(at) = 1
      BY <3>4, FS_Singleton, Zenon
    <3> QED
      BY <3>1, <3>5 DEF at
  <2> QED
    BY <2>2, <2>3
<1> QED
  BY <1>2, <1>3 DEF LinksAgree

\* The items are kept.
LEMMA TreeItems == TreeInv => ItemsKept
<1> SUFFICES ASSUME TreeInv PROVE ItemsKept
  OBVIOUS
<1>1. Tree(nodes, root, Sibling) /\ Apart(nodes) /\ Counting
  BY DEF TreeInv
<1>2. \A p \in Places : /\ p.node \in DOMAIN nodes /\ p.slot \in DOMAIN nodes[p.node].slots
                        /\ p = [node |-> p.node, slot |-> p.slot]
  BY DEF Places
<1>3. ASSUME NEW id \in DOMAIN nodes, NEW k \in DOMAIN nodes[id].slots
      PROVE  nodes[id].slots[k] \in Items /\ nodes[id].slots[k] \in Its(nodes, id)
  <2>1. nodes[id].slots[k] \in Items
    BY <1>1, NodeFacts
  <2> QED
    BY <2>1 DEF Its, Elems
<1>4. ASSUME NEW p \in Places, NEW q \in Places, ItemAt(p) = ItemAt(q)
      PROVE  p = q
  <2>1. ItemAt(p) \in Its(nodes, p.node) /\ ItemAt(p) \in Its(nodes, q.node) /\ ItemAt(p) \in Items
    BY <1>2, <1>3, <1>4 DEF ItemAt
  <2>2. p.node = q.node
    BY <1>1, <1>2, <2>1 DEF Apart
  <2>3. Distinct(nodes[p.node].slots, Items)
    BY <1>1, <1>2, NodeFacts
  <2>4. p.slot = q.slot
    BY <1>2, <1>4, <2>1, <2>2, <2>3 DEF Distinct, ItemAt
  <2> QED
    BY <1>2, <2>2, <2>4
<1>5. {ItemAt(p) : p \in Places} = All(nodes)
  <2>1. ASSUME NEW p \in Places PROVE ItemAt(p) \in All(nodes)
    BY <1>2, <1>3 DEF ItemAt, All
  <2>2. ASSUME NEW x \in All(nodes) PROVE \E p \in Places : ItemAt(p) = x
    <3>1. PICK id \in DOMAIN nodes : \E k \in DOMAIN nodes[id].slots : nodes[id].slots[k] = x
      BY DEF All, Its, Elems
    <3>2. PICK k \in DOMAIN nodes[id].slots : nodes[id].slots[k] = x
      BY <3>1
    <3>3. [node |-> id, slot |-> k] \in Places
      BY DEF Places
    <3> QED
      BY <3>2, <3>3 DEF ItemAt
  <2> QED
    BY <2>1, <2>2
<1>6. IsFiniteSet(All(nodes)) /\ Cardinality(All(nodes)) = count + Extra /\ count \in Nat
  BY <1>1 DEF Counting
<1>7. CASE call.op = "promote"
  <2>1. call.item \notin All(nodes)
    BY <1>7 DEF TreeInv, CallOK, Idle, Added, Removed
  <2>2. Held = All(nodes) \cup {call.item}
    BY <1>5, <1>7 DEF Held
  <2>3. Cardinality(All(nodes) \cup {call.item}) = Cardinality(All(nodes)) + 1
    BY <1>6, <2>1, FS_AddElement
  <2>4. Cardinality(Held) = Cardinality(All(nodes)) + 1
    BY <2>2, <2>3, Zenon
  <2>5. Extra = 0
    BY <1>7 DEF Extra
  <2>6. Cardinality(Held) = count + 1
    BY <1>6, <2>4, <2>5
  <2>7. \A p \in Places : ItemAt(p) # call.item
    BY <1>5, <2>1
  <2> QED
    BY <1>4, <1>7, <2>6, <2>7 DEF ItemsKept
<1>8. CASE call.op # "promote"
  <2>1. Held = All(nodes)
    BY <1>5, <1>8 DEF Held
  <2>2. Cardinality(Held) = Cardinality(All(nodes))
    BY <2>1, Zenon
  <2>3. Cardinality(Held) = count + Extra
    BY <1>6, <2>2
  <2> QED
    BY <1>4, <1>8, <2>3 DEF ItemsKept, Extra
<1> QED
  BY <1>7, <1>8

\* A node keeps to its capacity, and a call to nodes there are.
THEOREM TypeOKHolds == Spec => []TypeOK
BY TreeAlways, TreeTypes, PTL

\* Whatever splits, promotions, root collapses and prunings a tree has been through, child and
\* parent pointers agree, also between the steps of a call.
THEOREM LinksAgreeHolds == Spec => []LinksAgree
BY TreeAlways, TreeLinks, PTL

\* No node surgery loses an item or doubles it, and StoreInfo.Count is the number of items.
THEOREM ItemsKeptHolds == Spec => []ItemsKept
BY TreeAlways, TreeItems, PTL

\* Every change of a node below the root reaches saveNode or removeNode.
THEOREM ChangesAreSavedHolds == Spec => ChangesAreSaved
<1>1. ASSUME TreeInv, [Next]_vars PROVE [StepSaved]_vars
  BY <1>1, NextTree
<1> QED
  BY <1>1, TreeAlways, PTL DEF Spec, ChangesAreSaved, StepSaved
=============================================================================
