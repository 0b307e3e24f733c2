--------------------------- MODULE BTreeOrderProofs ---------------------------
(* Theorems about the order of keys in BTree: separators, and refused keys.   *)
EXTENDS BTreeProofs, WellFoundedInduction

-----------------------------------------------------------------------------
(* One node. Its slots s rise, their keys are in the range G the node is for, *)
(* and the range g of child k is a part of G between the slots beside it.     *)

Between(s, k, v) == \A j \in 1..Len(s) : (j < k => KeyOf[s[j]] <= v) /\ (j >= k => v <= KeyOf[s[j]])
Rising(s) == \A i, j \in 1..Len(s) : i < j => KeyOf[s[i]] <= KeyOf[s[j]]

Fits(s, K, g, G) ==
    /\ Rising(s)
    /\ \A j \in 1..Len(s) : KeyOf[s[j]] \in G
    /\ \A k \in 1..Len(K) : K[k] # Nil => \A v \in g[K[k]] : v \in G /\ Between(s, k, v)

Ranges == [IDs -> SUBSET Int]

\* Keys are integers.
LEMMA KeysAre == \A x \in Items : KeyOf[x] \in Int
BY BTreeAssumption

\* A node's range may grow, and its children's shrink.
LEMMA FitsStill ==
  ASSUME NEW s, NEW K, NEW g, NEW G, Fits(s, K, g, G), NEW g2, NEW G2, G \subseteq G2,
         \A k \in 1..Len(K) : K[k] # Nil => g2[K[k]] \subseteq g[K[k]]
  PROVE  Fits(s, K, g2, G2)
BY DEF Fits

\* The search among rising slots divides those below the key from those that are not.
LEMMA IndexDivides ==
  ASSUME NEW s \in Seq(Items), Rising(s), NEW v \in Int
  PROVE  /\ SearchNotBelow(s, v) \in 0..Len(s)
         /\ \A j \in 1..Len(s) : j <= SearchNotBelow(s, v) <=> KeyOf[s[j]] < v
<1> DEFINE A == {i \in DOMAIN s : KeyOf[s[i]] < v}
<1>1. Len(s) \in Nat /\ DOMAIN s = 1..Len(s) /\ \A k \in 1..Len(s) : s[k] \in Items
  BY EmptyIs
<1>2. SearchNotBelow(s, v) = Cardinality(A) /\ SearchNotBelow(s, v) \in 0..Len(s)
  BY IndexIs DEF SearchNotBelow
<1>3. \A k \in 1..Len(s) : KeyOf[s[k]] \in Int
  BY <1>1, KeysAre
<1>4. \A k \in 1..Len(s) : k \in A <=> KeyOf[s[k]] < v
  BY <1>1
<1>5. A \subseteq 1..Len(s)
  BY <1>1
<1> HIDE DEF A
<1>6. ASSUME NEW j \in 1..Len(s)
      PROVE  j <= SearchNotBelow(s, v) <=> KeyOf[s[j]] < v
  <2>1. CASE j \in A
    <3>1. 1..j \subseteq A
      <4> SUFFICES ASSUME NEW k \in 1..j PROVE k \in A
        OBVIOUS
      <4>1. k \in 1..Len(s) /\ (k = j \/ k < j)
        BY <1>1
      <4>2. KeyOf[s[k]] <= KeyOf[s[j]]
        BY <4>1, <1>3 DEF Rising
      <4>3. KeyOf[s[j]] < v
        BY <2>1, <1>4
      <4>4. KeyOf[s[k]] < v
        BY <4>1, <4>2, <4>3, <1>3
      <4> QED
        BY <4>1, <4>4, <1>4
    <3>2. IsFiniteSet(1..Len(s)) /\ IsFiniteSet(1..j) /\ Cardinality(1..j) = j
      <4>1. IsFiniteSet(1..Len(s))
        BY <1>1, FS_Interval
      <4>2. IsFiniteSet(1..j) /\ Cardinality(1..j) = IF 1 > j THEN 0 ELSE j - 1 + 1
        BY <1>1, FS_Interval
      <4> QED
        BY <4>1, <4>2, <1>1
    <3>3. IsFiniteSet(A)
      BY <3>2, <1>5, FS_Subset
    <3>4. Cardinality(1..j) <= Cardinality(A)
      BY <3>1, <3>3, FS_Subset
    <3> QED
      BY <2>1, <3>2, <3>4, <1>2, <1>4
  <2>2. CASE j \notin A
    <3>1. A \subseteq 1..j - 1
      <4> SUFFICES ASSUME NEW k \in A PROVE k \in 1..j - 1
        OBVIOUS
      <4>1. k \in 1..Len(s) /\ KeyOf[s[k]] < v /\ ~ (KeyOf[s[j]] < v)
        BY <1>4, <1>5, <2>2
      <4>2. ~ (j <= k)
        <5> SUFFICES ASSUME j <= k PROVE FALSE
          OBVIOUS
        <5>1. j = k \/ j < k
          BY <4>1, <1>1
        <5>2. KeyOf[s[j]] <= KeyOf[s[k]]
          BY <5>1, <4>1, <1>3 DEF Rising
        <5> QED
          BY <5>2, <4>1, <1>3
      <4> QED
        BY <4>1, <4>2, <1>1
    <3>2. IsFiniteSet(1..j - 1) /\ Cardinality(1..j - 1) = j - 1
      <4> DEFINE b == j - 1
      <4>1. b \in Nat
        BY <1>1
      <4> HIDE DEF b
      <4>2. IsFiniteSet(1..b) /\ Cardinality(1..b) = IF 1 > b THEN 0 ELSE b - 1 + 1
        BY <4>1, FS_Interval
      <4>3. IsFiniteSet(1..b) /\ Cardinality(1..b) = b
        BY <4>1, <4>2
      <4> QED
        BY <4>3 DEF b
    <3>3. Cardinality(A) <= Cardinality(1..j - 1)
      BY <3>1, <3>2, FS_Subset
    <3> QED
      BY <2>2, <3>2, <3>3, <1>1, <1>2, <1>4
  <2> QED
    BY <2>1, <2>2
<1> QED
  BY <1>2, <1>6

\* So the key is between them.
LEMMA IndexBetween ==
  ASSUME NEW s \in Seq(Items), Rising(s), NEW v \in Int
  PROVE  Between(s, SearchNotBelow(s, v) + 1, v)
<1> DEFINE i == SearchNotBelow(s, v)
<1>1. i \in 0..Len(s) /\ \A j \in 1..Len(s) : j <= i <=> KeyOf[s[j]] < v
  BY IndexDivides
<1>2. Len(s) \in Nat /\ \A k \in 1..Len(s) : KeyOf[s[k]] \in Int
  BY EmptyIs, KeysAre
<1> HIDE DEF i
<1>3. Between(s, i + 1, v)
  BY <1>1, <1>2 DEF Between
<1> QED
  BY <1>3 DEF i

\* A slot more: the children are given by where they stand to the new slot.
Beside(s, K2, g, G, i, v) ==
    \A k \in 1..Len(K2) : K2[k] # Nil => \A w \in g[K2[k]] :
      /\ w \in G
      /\ k <= i => Between(s, k, w) /\ w <= v
      /\ k > i => Between(s, k - 1, w) /\ v <= w

\* The item between its neighbours fits.
LEMMA InsertFits ==
  ASSUME NEW s \in Seq(Items), NEW x \in Items, NEW i \in 1..Len(s) + 1,
         NEW S2, InsertGives(S2, s, i, x, Items), NEW K2 \in Seq(IDs \cup {Nil}), NEW g, NEW G \in SUBSET Int,
         Rising(s), \A j \in 1..Len(s) : KeyOf[s[j]] \in G,
         KeyOf[x] \in G, Between(s, i, KeyOf[x]), Beside(s, K2, g, G, i, KeyOf[x])
  PROVE  Fits(S2, K2, g, G)
<1>1. Len(s) \in Nat /\ \A k \in 1..Len(s) : KeyOf[s[k]] \in Int
  BY EmptyIs, KeysAre
<1>2. /\ Len(S2) = Len(s) + 1 /\ KeyOf[x] \in Int
      /\ \A j \in 1..Len(s) + 1 : S2[j] = IF j < i THEN s[j] ELSE IF j = i THEN x ELSE s[j - 1]
  BY KeysAre DEF InsertGives
<1>3. ASSUME NEW j \in 1..Len(S2)
      PROVE  /\ j < i => j \in 1..Len(s) /\ S2[j] = s[j]
             /\ j = i => S2[j] = x
             /\ j > i => j - 1 \in 1..Len(s) /\ S2[j] = s[j - 1] /\ j - 1 >= i
             /\ j < i \/ j = i \/ j > i
  <2>1. i \in Nat /\ i <= Len(s) + 1 /\ i >= 1 /\ j \in 1..Len(s) + 1
    BY <1>1, <1>2
  <2>2. S2[j] = IF j < i THEN s[j] ELSE IF j = i THEN x ELSE s[j - 1]
    BY <2>1, <1>2
  <2>3. j < i => j \in 1..Len(s)
    BY <2>1, <1>1
  <2>4. j > i => j - 1 \in 1..Len(s) /\ j - 1 >= i
    BY <2>1, <1>1
  <2>5. j < i \/ j = i \/ j > i
    BY <2>1
  <2>6. (j < i => j # i /\ ~ (j > i)) /\ (j > i => j # i /\ ~ (j < i)) /\ (j = i => ~ (j < i))
    BY <2>1
  <2> QED
    BY <2>2, <2>3, <2>4, <2>5, <2>6
<1>4. ASSUME NEW a \in 1..Len(S2), NEW b \in 1..Len(S2), a < b
      PROVE  KeyOf[S2[a]] <= KeyOf[S2[b]]
  <2>1. CASE b < i
    <3>1. a < i
      BY <2>1, <1>2, <1>4
    <3> QED
      BY <2>1, <3>1, <1>1, <1>3, <1>4 DEF Rising
  <2>2. CASE b = i
    <3>1. a < i
      BY <2>2, <1>2, <1>4
    <3> QED
      BY <2>2, <3>1, <1>3 DEF Between
  <2>3. CASE b > i /\ a < i
    <3>1. a < b - 1
      BY <2>3, <1>2, <1>1
    <3> QED
      BY <2>3, <3>1, <1>3 DEF Rising
  <2>4. CASE b > i /\ a = i
    BY <2>4, <1>3 DEF Between
  <2>5. CASE b > i /\ a > i
    <3>1. a - 1 < b - 1
      BY <1>2, <1>1, <1>4
    <3> QED
      BY <2>5, <3>1, <1>3 DEF Rising
  <2> QED
    BY <2>1, <2>2, <2>3, <2>4, <2>5, <1>3
<1>5. \A j \in 1..Len(S2) : KeyOf[S2[j]] \in G
  BY <1>3
<1>6. ASSUME NEW k \in 1..Len(K2), K2[k] # Nil, NEW w \in g[K2[k]]
      PROVE  w \in G /\ Between(S2, k, w)
  <2>a. w \in G /\ w \in Int
    BY <1>6 DEF Beside
  <2>b. Len(K2) \in Nat
    BY LenProperties
  <2>0. w \in G /\ w \in Int /\ k \in Int
    BY <2>a, <2>b
  <2>1. ASSUME NEW j \in 1..Len(S2), j < k
        PROVE  KeyOf[S2[j]] <= w
    <3>1. CASE k <= i
      <4>1. Between(s, k, w) /\ j < i
        BY <3>1, <2>0, <2>1, <1>2, <1>6 DEF Beside
      <4> QED
        BY <4>1, <2>1, <1>3 DEF Between
    <3>2. CASE k > i
      <4>1. Between(s, k - 1, w) /\ KeyOf[x] <= w
        BY <3>2, <1>6 DEF Beside
      <4>2. CASE j < i
        <5>1. j < k - 1
          BY <4>2, <3>2, <2>0, <1>1
        <5> QED
          BY <5>1, <4>1, <4>2, <1>3 DEF Between
      <4>3. CASE j = i
        BY <4>1, <4>3, <1>3
      <4>4. CASE j > i
        <5>1. j - 1 < k - 1
          BY <2>0, <2>1, <1>1, <1>2
        <5> QED
          BY <5>1, <4>1, <4>4, <1>3 DEF Between
      <4> QED
        BY <4>2, <4>3, <4>4, <1>3
    <3> QED
      BY <3>1, <3>2, <2>0
  <2>2. ASSUME NEW j \in 1..Len(S2), j >= k
        PROVE  w <= KeyOf[S2[j]]
    <3>1. CASE k <= i
      <4>1. Between(s, k, w) /\ w <= KeyOf[x]
        BY <3>1, <1>6 DEF Beside
      <4>2. CASE j < i
        BY <4>1, <4>2, <2>2, <1>3 DEF Between
      <4>3. CASE j = i
        BY <4>1, <4>3, <1>3
      <4>4. CASE j > i
        <5>1. j - 1 >= k
          BY <4>4, <3>1, <2>0, <1>1, <1>2
        <5> QED
          BY <5>1, <4>1, <4>4, <1>3 DEF Between
      <4> QED
        BY <4>2, <4>3, <4>4, <1>3
    <3>2. CASE k > i
      <4>1. Between(s, k - 1, w) /\ j > i /\ j - 1 >= k - 1
        BY <3>2, <2>0, <2>2, <1>1, <1>2, <1>6 DEF Beside
      <4> QED
        BY <4>1, <1>3 DEF Between
    <3> QED
      BY <3>1, <3>2, <2>0
  <2> QED
    BY <2>0, <2>1, <2>2 DEF Between
<1> QED
  BY <1>4, <1>5, <1>6 DEF Fits, Rising

\* The part of a node's slots and children from place a on.
Stretch(v, s, a, N) == Len(v) = N /\ \A i \in 1..N : a + i - 1 \in 1..Len(s) /\ v[i] = s[a + i - 1]

\* A stretch fits any range that has its keys and those of its children.
LEMMA StretchFits ==
  ASSUME NEW s, NEW K, NEW g, NEW G, Fits(s, K, g, G), NEW a \in Nat \ {0}, NEW N \in Nat, NEW M \in Nat,
         NEW s2, Stretch(s2, s, a, N), NEW K2, Stretch(K2, K, a, M), NEW G2,
         \A i \in 1..N : KeyOf[s[a + i - 1]] \in G2,
         \A i \in 1..M : K[a + i - 1] # Nil => g[K[a + i - 1]] \subseteq G2
  PROVE  Fits(s2, K2, g, G2)
<1>1. Rising(s2)
  <2> SUFFICES ASSUME NEW i \in 1..N, NEW j \in 1..N, i < j PROVE KeyOf[s2[i]] <= KeyOf[s2[j]]
    BY DEF Rising, Stretch
  <2>1. a + i - 1 < a + j - 1
    OBVIOUS
  <2> QED
    BY <2>1 DEF Stretch, Fits, Rising
<1>2. \A j \in 1..Len(s2) : KeyOf[s2[j]] \in G2
  BY DEF Stretch
<1>3. ASSUME NEW k \in 1..M, K2[k] # Nil, NEW w \in g[K2[k]]
      PROVE  w \in G2 /\ Between(s2, k, w)
  <2>1. a + k - 1 \in 1..Len(K) /\ K2[k] = K[a + k - 1]
    BY DEF Stretch
  <2>2. w \in G2 /\ Between(s, a + k - 1, w)
    BY <1>3, <2>1 DEF Fits
  <2>3. ASSUME NEW j \in 1..N
        PROVE  (j < k => KeyOf[s2[j]] <= w) /\ (j >= k => w <= KeyOf[s2[j]])
    <3>1. (j < k => a + j - 1 < a + k - 1) /\ (j >= k => a + j - 1 >= a + k - 1)
      OBVIOUS
    <3>2. s2[j] = s[a + j - 1] /\ a + j - 1 \in 1..Len(s)
      BY DEF Stretch
    <3> QED
      BY <3>1, <3>2, <2>2 DEF Between
  <2> QED
    BY <2>2, <2>3 DEF Between, Stretch
<1>4. Len(K2) = M
  BY DEF Stretch
<1> QED
  BY <1>1, <1>2, <1>3, <1>4 DEF Fits

\* The keys of a range on either side of a separator.
NotAbove(G, v) == {w \in G : w <= v}
NotBelow(G, v) == {w \in G : v <= w}

\* The halves of an overfull node's slots, and of its children.
LEMMA SlotStretches ==
  ASSUME NEW s \in Seq(Items), Len(s) = SlotLength + 1
  PROVE  Stretch(LowerSlots(s), s, 1, Half) /\ Stretch(UpperSlots(s), s, Half + 2, Half)
<1>1. Half \in Nat /\ Half >= 1 /\ SlotLength = Half + Half /\ \A k \in 1..SlotLength + 1 : s[k] \in Items
  BY HalfIs, EmptyIs
<1>2. Stretch(LowerSlots(s), s, 1, Half)
  <2>1. \A k \in 1..Half : s[k] \in Items
    BY <1>1
  <2>2. /\ Len(SubSeq(s, 1, Half)) = IF 1 <= Half THEN Half - 1 + 1 ELSE 0
        /\ \A k \in 1..Half - 1 + 1 : SubSeq(s, 1, Half)[k] = s[1 + k - 1]
    BY <1>1, <2>1, SubSeqProperties
  <2>3. \A k \in 1..Half : 1 + k - 1 \in 1..Len(s)
    BY <1>1
  <2>4. Half - 1 + 1 = Half /\ 1 <= Half
    BY <1>1
  <2> QED
    BY <2>2, <2>3, <2>4 DEF LowerSlots, Stretch
<1>3. Stretch(UpperSlots(s), s, Half + 2, Half)
  <2> DEFINE a == Half + 2
             b == SlotLength + 1
  <2>1. a \in Int /\ b \in Int /\ (\A k \in a..b : s[k] \in Items) /\ a <= b /\ b - a + 1 = Half
    BY <1>1
  <2>3. \A k \in 1..Half : a + k - 1 \in 1..Len(s)
    BY <1>1
  <2> HIDE DEF a, b
  <2>2. /\ Len(SubSeq(s, a, b)) = IF a <= b THEN b - a + 1 ELSE 0
        /\ \A k \in 1..b - a + 1 : SubSeq(s, a, b)[k] = s[a + k - 1]
    BY <2>1, SubSeqProperties
  <2>4. Stretch(SubSeq(s, a, b), s, a, Half)
    BY <2>1, <2>2, <2>3 DEF Stretch
  <2> QED
    BY <2>4 DEF UpperSlots, a, b
<1> QED
  BY <1>2, <1>3

\* The same of the children.
LEMMA KidStretches ==
  ASSUME NEW K \in Seq(IDs \cup {Nil}), Len(K) = SlotLength + 2
  PROVE  Stretch(LowerKids(K), K, 1, Half + 1) /\ Stretch(UpperKids(K), K, Half + 2, Half + 1)
<1> DEFINE T == IDs \cup {Nil}
<1>1. Half \in Nat /\ Half >= 1 /\ SlotLength = Half + Half /\ \A k \in 1..SlotLength + 2 : K[k] \in T
  BY HalfIs, EmptyIs
<1> HIDE DEF T
<1>2. Stretch(LowerKids(K), K, 1, Half + 1)
  <2> DEFINE b == Half + 1
  <2>1. b \in Int /\ (\A k \in 1..b : K[k] \in T) /\ 1 <= b /\ b - 1 + 1 = b
    BY <1>1
  <2>3. \A k \in 1..b : 1 + k - 1 \in 1..Len(K)
    BY <1>1
  <2> HIDE DEF b
  <2>2. /\ Len(SubSeq(K, 1, b)) = IF 1 <= b THEN b - 1 + 1 ELSE 0
        /\ \A k \in 1..b - 1 + 1 : SubSeq(K, 1, b)[k] = K[1 + k - 1]
    BY <2>1, SubSeqProperties
  <2>4. Stretch(SubSeq(K, 1, b), K, 1, b)
    BY <2>1, <2>2, <2>3 DEF Stretch
  <2> QED
    BY <2>4 DEF LowerKids, b
<1>3. Stretch(UpperKids(K), K, Half + 2, Half + 1)
  <2> DEFINE a == Half + 2
             b == SlotLength + 2
             N == Half + 1
  <2>1. a \in Int /\ b \in Int /\ (\A k \in a..b : K[k] \in T) /\ a <= b /\ b - a + 1 = N
    BY <1>1
  <2>3. \A k \in 1..N : a + k - 1 \in 1..Len(K)
    BY <1>1
  <2> HIDE DEF a, b, N
  <2>2. /\ Len(SubSeq(K, a, b)) = IF a <= b THEN b - a + 1 ELSE 0
        /\ \A k \in 1..b - a + 1 : SubSeq(K, a, b)[k] = K[a + k - 1]
    BY <2>1, SubSeqProperties
  <2>4. Stretch(SubSeq(K, a, b), K, a, N)
    BY <2>1, <2>2, <2>3 DEF Stretch
  <2> QED
    BY <2>4 DEF UpperKids, a, b, N
<1> QED
  BY <1>2, <1>3

\* The halves L, LK and U, UK of an overfull node, m between them.
HalvesFit(L, LK, U, UK, g, G, v) ==
    v \in G /\ Fits(L, LK, g, NotAbove(G, v)) /\ Fits(U, UK, g, NotBelow(G, v))

\* The halves of an overfull inner node fit on either side of its middle slot.
LEMMA InnerHalvesFit ==
  ASSUME NEW s \in Seq(Items), Len(s) = SlotLength + 1, NEW K \in Seq(IDs \cup {Nil}), Len(K) = SlotLength + 2,
         NEW g, NEW G \in SUBSET Int, Fits(s, K, g, G)
  PROVE  HalvesFit(LowerSlots(s), LowerKids(K), UpperSlots(s), UpperKids(K), g, G, KeyOf[s[Half + 1]])
<1> DEFINE m == KeyOf[s[Half + 1]]
<1>1. Half \in Nat /\ Half >= 1 /\ SlotLength = Half + Half
  BY HalfIs
<1>2. Half + 1 \in 1..Len(s) /\ m \in G /\ m \in Int
  <2>1. Half + 1 \in 1..Len(s)
    BY <1>1
  <2> QED
    BY <2>1 DEF Fits
<1>3. \A j \in 1..Len(s) : (j <= Half + 1 => KeyOf[s[j]] <= m) /\ (j >= Half + 1 => m <= KeyOf[s[j]])
  <2> SUFFICES ASSUME NEW j \in 1..Len(s)
               PROVE  (j <= Half + 1 => KeyOf[s[j]] <= m) /\ (j >= Half + 1 => m <= KeyOf[s[j]])
    OBVIOUS
  <2>1. j = Half + 1 \/ j < Half + 1 \/ j > Half + 1
    BY <1>1
  <2> QED
    BY <2>1, <1>1, <1>2 DEF Fits, Rising
<1>4. \A k \in 1..Len(K) : K[k] # Nil =>
        \A w \in g[K[k]] : w \in G /\ (k <= Half + 1 => w <= m) /\ (k >= Half + 2 => m <= w)
  BY <1>1, <1>2 DEF Fits, Between
<1> HIDE DEF m
<1>5. Fits(LowerSlots(s), LowerKids(K), g, NotAbove(G, m))
  <2> DEFINE M == Half + 1
             a == 1
  <2>1. \A i \in 1..Half : KeyOf[s[a + i - 1]] \in NotAbove(G, m)
    BY <1>1, <1>3 DEF NotAbove, Fits
  <2>2. \A i \in 1..M : K[a + i - 1] # Nil => g[K[a + i - 1]] \subseteq NotAbove(G, m)
    BY <1>1, <1>4 DEF NotAbove
  <2>3. /\ Stretch(LowerSlots(s), s, a, Half) /\ Stretch(LowerKids(K), K, a, M)
        /\ M \in Nat /\ a \in Nat \ {0}
    BY <1>1, SlotStretches, KidStretches
  <2> HIDE DEF M, a
  <2> QED
    BY <1>1, <2>1, <2>2, <2>3, StretchFits
<1>6. Fits(UpperSlots(s), UpperKids(K), g, NotBelow(G, m))
  <2> DEFINE M == Half + 1
             a == Half + 2
  <2>1. \A i \in 1..Half : KeyOf[s[a + i - 1]] \in NotBelow(G, m)
    <3> SUFFICES ASSUME NEW i \in 1..Half PROVE KeyOf[s[a + i - 1]] \in NotBelow(G, m)
      OBVIOUS
    <3>1. a + i - 1 \in 1..Len(s) /\ a + i - 1 >= Half + 1
      BY <1>1
    <3> QED
      BY <3>1, <1>3 DEF NotBelow, Fits
  <2>2. \A i \in 1..M : K[a + i - 1] # Nil => g[K[a + i - 1]] \subseteq NotBelow(G, m)
    <3> SUFFICES ASSUME NEW i \in 1..M, K[a + i - 1] # Nil PROVE g[K[a + i - 1]] \subseteq NotBelow(G, m)
      OBVIOUS
    <3>1. a + i - 1 \in 1..Len(K) /\ a + i - 1 >= Half + 2
      BY <1>1
    <3> QED
      BY <3>1, <1>4 DEF NotBelow
  <2>3. /\ Stretch(UpperSlots(s), s, a, Half) /\ Stretch(UpperKids(K), K, a, M)
        /\ M \in Nat /\ a \in Nat \ {0}
    BY <1>1, SlotStretches, KidStretches
  <2> HIDE DEF M, a
  <2> QED
    BY <1>1, <2>1, <2>2, <2>3, StretchFits
<1> QED
  BY <1>2, <1>5, <1>6 DEF HalvesFit, m

\* The same of a leaf.
LEMMA LeafHalvesFit ==
  ASSUME NEW s \in Seq(Items), Len(s) = SlotLength + 1, NEW g, NEW G \in SUBSET Int, Fits(s, <<>>, g, G)
  PROVE  HalvesFit(LowerSlots(s), <<>>, UpperSlots(s), <<>>, g, G, KeyOf[s[Half + 1]])
<1> DEFINE m == KeyOf[s[Half + 1]]
           K == <<>>
<1>1. Half \in Nat /\ Half >= 1 /\ SlotLength = Half + Half
  BY HalfIs
<1>2. Half + 1 \in 1..Len(s) /\ m \in G /\ m \in Int
  <2>1. Half + 1 \in 1..Len(s)
    BY <1>1
  <2> QED
    BY <2>1 DEF Fits
<1>3. \A j \in 1..Len(s) : (j <= Half + 1 => KeyOf[s[j]] <= m) /\ (j >= Half + 1 => m <= KeyOf[s[j]])
  <2> SUFFICES ASSUME NEW j \in 1..Len(s)
               PROVE  (j <= Half + 1 => KeyOf[s[j]] <= m) /\ (j >= Half + 1 => m <= KeyOf[s[j]])
    OBVIOUS
  <2>1. j = Half + 1 \/ j < Half + 1 \/ j > Half + 1
    BY <1>1
  <2> QED
    BY <2>1, <1>1, <1>2 DEF Fits, Rising
<1>4. Len(K) = 0 /\ Fits(s, K, g, G)
  OBVIOUS
<1> HIDE DEF m, K
<1>5. Fits(LowerSlots(s), K, g, NotAbove(G, m))
  <2> DEFINE a == 1
  <2>1. \A i \in 1..Half : KeyOf[s[a + i - 1]] \in NotAbove(G, m)
    BY <1>1, <1>3 DEF NotAbove, Fits
  <2>3. Stretch(LowerSlots(s), s, a, Half) /\ Stretch(K, K, a, 0) /\ a \in Nat \ {0}
    BY <1>1, <1>4, SlotStretches DEF Stretch
  <2> DEFINE M == 0
  <2>4. (\A i \in 1..M : K[a + i - 1] # Nil => g[K[a + i - 1]] \subseteq NotAbove(G, m)) /\ M \in Nat /\ Stretch(K, K, a, M)
    BY <2>3
  <2> HIDE DEF a, M
  <2> QED
    BY <1>1, <1>4, <2>1, <2>3, <2>4, StretchFits
<1>6. Fits(UpperSlots(s), K, g, NotBelow(G, m))
  <2> DEFINE a == Half + 2
  <2>1. \A i \in 1..Half : KeyOf[s[a + i - 1]] \in NotBelow(G, m)
    <3> SUFFICES ASSUME NEW i \in 1..Half PROVE KeyOf[s[a + i - 1]] \in NotBelow(G, m)
      OBVIOUS
    <3>1. a + i - 1 \in 1..Len(s) /\ a + i - 1 >= Half + 1
      BY <1>1
    <3> QED
      BY <3>1, <1>3 DEF NotBelow, Fits
  <2>3. Stretch(UpperSlots(s), s, a, Half) /\ Stretch(K, K, a, 0) /\ a \in Nat \ {0}
    BY <1>1, <1>4, SlotStretches DEF Stretch
  <2> DEFINE M == 0
  <2>4. (\A i \in 1..M : K[a + i - 1] # Nil => g[K[a + i - 1]] \subseteq NotBelow(G, m)) /\ M \in Nat /\ Stretch(K, K, a, M)
    BY <2>3
  <2> HIDE DEF a, M
  <2> QED
    BY <1>1, <1>4, <2>1, <2>3, <2>4, StretchFits
<1> QED
  BY <1>2, <1>5, <1>6 DEF HalvesFit, m, K

\* A separator between the two halves.
LEMMA RootFits ==
  ASSUME NEW m \in Items, NEW l \in IDs, NEW r \in IDs, NEW g, NEW G, KeyOf[m] \in G,
         g[l] = NotAbove(G, KeyOf[m]), g[r] = NotBelow(G, KeyOf[m])
  PROVE  Fits(<<m>>, <<l, r>>, g, G)
<1> DEFINE s == <<m>>
           K == <<l, r>>
<1>1. Len(s) = 1 /\ s[1] = m /\ Len(K) = 2 /\ K[1] = l /\ K[2] = r
  OBVIOUS
<1> HIDE DEF s, K
<1>2. Rising(s) /\ \A j \in 1..Len(s) : KeyOf[s[j]] \in G
  BY <1>1 DEF Rising
<1>3. ASSUME NEW k \in 1..Len(K), NEW w \in g[K[k]]
      PROVE  w \in G /\ Between(s, k, w)
  <2>1. CASE k = 1
    BY <2>1, <1>1 DEF NotAbove, Between
  <2>2. CASE k = 2
    BY <2>2, <1>1 DEF NotBelow, Between
  <2> QED
    BY <2>1, <2>2, <1>1
<1>4. Fits(s, K, g, G)
  BY <1>2, <1>3 DEF Fits
<1> QED
  BY <1>4 DEF s, K

\* Another child in place of one.
LEMMA ReplaceFits ==
  ASSUME NEW s, NEW K \in Seq(IDs \cup {Nil}), NEW g, NEW G, Fits(s, K, g, G),
         NEW i \in 1..Len(K), NEW x \in IDs \cup {Nil},
         x # Nil => \A w \in g[x] : w \in G /\ Between(s, i, w)
  PROVE  Fits(s, [K EXCEPT ![i] = x], g, G)
<1> DEFINE T == IDs \cup {Nil}
           v == [K EXCEPT ![i] = x]
<1>1. K \in Seq(T) /\ x \in T
  OBVIOUS
<1> HIDE DEF T
<1>2. Len(v) = Len(K) /\ \A j \in 1..Len(K) : v[j] = IF j = i THEN x ELSE K[j]
  BY <1>1, ExceptSeq
<1> HIDE DEF v
<1>3. Fits(s, v, g, G)
  BY <1>2 DEF Fits
<1> QED
  BY <1>3 DEF v

\* A slot less, on a leaf.
LEMMA LeafThinFits ==
  ASSUME NEW s \in Seq(Items), NEW i \in 1..Len(s), NEW g, NEW G, Fits(s, <<>>, g, G)
  PROVE  Fits(RemoveAt(s, i), <<>>, g, G)
<1> DEFINE v == RemoveAt(s, i)
           K == <<>>
<1>1. /\ Len(s) \in Nat /\ Len(v) = Len(s) - 1
      /\ \A j \in 1..Len(s) - 1 : v[j] = IF j < i THEN s[j] ELSE s[j + 1]
  BY RemoveAtIs, LenProperties
<1>2. Len(K) = 0 /\ Fits(s, K, g, G)
  OBVIOUS
<1> HIDE DEF v, K
<1>3. ASSUME NEW a \in 1..Len(v), NEW b \in 1..Len(v), a < b
      PROVE  KeyOf[v[a]] <= KeyOf[v[b]]
  <2>1. /\ a \in 1..Len(s) /\ a + 1 \in 1..Len(s) /\ b \in 1..Len(s) /\ b + 1 \in 1..Len(s)
        /\ a < b + 1 /\ a + 1 < b + 1 /\ (b < i => a < i)
    BY <1>1, <1>3
  <2> QED
    BY <2>1, <1>1, <1>2, <1>3 DEF Fits, Rising
<1>4. ASSUME NEW j \in 1..Len(v)
      PROVE  KeyOf[v[j]] \in G
  <2>1. j \in 1..Len(s) /\ j + 1 \in 1..Len(s)
    BY <1>1
  <2> QED
    BY <2>1, <1>1, <1>2 DEF Fits
<1>5. Fits(v, K, g, G)
  BY <1>2, <1>3, <1>4 DEF Fits, Rising
<1> QED
  BY <1>5 DEF v, K

\* A slot less, and the pruned child q beside it.
LEMMA ThinFits ==
  ASSUME NEW s \in Seq(Items), NEW i \in 1..Len(s), NEW K \in Seq(IDs \cup {Nil}), Len(K) = Len(s) + 1,
         NEW q \in {i, i + 1}, NEW g, NEW G, Fits(s, K, g, G)
  PROVE  Fits(RemoveAt(s, i), RemoveAt(K, q), g, G)
<1> DEFINE v == RemoveAt(s, i)
           K2 == RemoveAt(K, q)
           T == IDs \cup {Nil}
<1>0. Len(s) \in Nat /\ q \in 1..Len(K)
  BY LenProperties
<1>1. /\ Len(v) = Len(s) - 1
      /\ \A j \in 1..Len(s) - 1 : v[j] = IF j < i THEN s[j] ELSE s[j + 1]
  BY RemoveAtIs
<1>2. /\ Len(K2) = Len(K) - 1
      /\ \A j \in 1..Len(K) - 1 : K2[j] = IF j < q THEN K[j] ELSE K[j + 1]
  <2>1. K \in Seq(T)
    OBVIOUS
  <2> HIDE DEF T
  <2> QED
    BY <2>1, <1>0, RemoveAtIs
<1> HIDE DEF v, K2
<1>3. ASSUME NEW a \in 1..Len(v), NEW b \in 1..Len(v), a < b
      PROVE  KeyOf[v[a]] <= KeyOf[v[b]]
  <2>1. /\ a \in 1..Len(s) /\ a + 1 \in 1..Len(s) /\ b \in 1..Len(s) /\ b + 1 \in 1..Len(s)
        /\ a < b + 1 /\ a + 1 < b + 1 /\ (b < i => a < i)
    BY <1>0, <1>1, <1>3
  <2> QED
    BY <2>1, <1>1, <1>3 DEF Fits, Rising
<1>4. ASSUME NEW j \in 1..Len(v)
      PROVE  KeyOf[v[j]] \in G
  <2>1. j \in 1..Len(s) /\ j + 1 \in 1..Len(s)
    BY <1>0, <1>1
  <2> QED
    BY <2>1, <1>1 DEF Fits
<1>5. ASSUME NEW k \in 1..Len(K2), K2[k] # Nil, NEW w \in g[K2[k]]
      PROVE  w \in G /\ Between(v, k, w)
  <2>0. k \in 1..Len(K) /\ k + 1 \in 1..Len(K) /\ k \in 1..Len(K) - 1
    BY <1>0, <1>2
  <2>1. CASE k < q
    <3>1. K2[k] = K[k] /\ k <= i
      BY <2>0, <2>1, <1>0, <1>2
    <3>2. w \in G /\ Between(s, k, w)
      BY <3>1, <2>0, <1>5 DEF Fits
    <3>3. ASSUME NEW j \in 1..Len(v)
          PROVE  (j < k => KeyOf[v[j]] <= w) /\ (j >= k => w <= KeyOf[v[j]])
      <4>1. /\ j \in 1..Len(s) /\ j + 1 \in 1..Len(s) /\ (j < k => j < i)
            /\ (j >= k => j + 1 >= k)
        BY <3>1, <2>0, <1>0, <1>1
      <4> QED
        BY <4>1, <3>2, <1>1 DEF Between
    <3> QED
      BY <3>2, <3>3 DEF Between
  <2>2. CASE k >= q
    <3>1. K2[k] = K[k + 1] /\ k >= i
      BY <2>0, <2>2, <1>0, <1>2
    <3>2. w \in G /\ Between(s, k + 1, w)
      BY <3>1, <2>0, <1>5 DEF Fits
    <3>3. ASSUME NEW j \in 1..Len(v)
          PROVE  (j < k => KeyOf[v[j]] <= w) /\ (j >= k => w <= KeyOf[v[j]])
      <4>1. /\ j \in 1..Len(s) /\ j + 1 \in 1..Len(s) /\ (j < k => j < k + 1 /\ j + 1 < k + 1)
            /\ (j >= k => j + 1 >= k + 1 /\ ~ (j < i))
        BY <3>1, <2>0, <1>0, <1>1
      <4> QED
        BY <4>1, <3>2, <1>1 DEF Between
    <3> QED
      BY <3>2, <3>3 DEF Between
  <2> QED
    BY <2>0, <2>1, <2>2, <1>0
<1> QED
  BY <1>3, <1>4, <1>5 DEF Fits, Rising, v, K2

\* The next item in place of the one before it.
LEMMA OverwriteFits ==
  ASSUME NEW s \in Seq(Items), NEW i \in 1..Len(s), NEW y \in Items, NEW K, Len(K) = Len(s) + 1,
         NEW g \in Ranges, NEW g2, NEW G \in SUBSET Int, Fits(s, K, g, G),
         \A k \in 1..Len(K) : K[k] # Nil => g2[K[k]] \subseteq g[K[k]],
         KeyOf[y] \in G, Between(s, i + 1, KeyOf[y]),
         K[i + 1] # Nil => \A w \in g2[K[i + 1]] : KeyOf[y] <= w
  PROVE  Fits([s EXCEPT ![i] = y], K, g2, G)
<1> DEFINE v == [s EXCEPT ![i] = y]
<1>1. Len(s) \in Nat /\ Len(v) = Len(s) /\ \A j \in 1..Len(s) : v[j] = IF j = i THEN y ELSE s[j]
  BY ExceptSeq, LenProperties
<1>2. KeyOf[y] \in Int /\ \A j \in 1..Len(s) : KeyOf[s[j]] \in Int
  BY EmptyIs, KeysAre
<1> HIDE DEF v
<1>3. ASSUME NEW a \in 1..Len(v), NEW b \in 1..Len(v), a < b
      PROVE  KeyOf[v[a]] <= KeyOf[v[b]]
  <2>1. CASE b = i
    <3>1. a < i + 1 /\ a # i
      BY <2>1, <1>1, <1>3
    <3> QED
      BY <2>1, <3>1, <1>1 DEF Between
  <2>2. CASE a = i
    <3>1. b >= i + 1 /\ b # i
      BY <2>2, <1>1, <1>3
    <3> QED
      BY <2>2, <3>1, <1>1 DEF Between
  <2>3. CASE a # i /\ b # i
    BY <2>3, <1>1, <1>3 DEF Fits, Rising
  <2> QED
    BY <2>1, <2>2, <2>3
<1>4. \A j \in 1..Len(v) : KeyOf[v[j]] \in G
  BY <1>1 DEF Fits
<1>5. ASSUME NEW k \in 1..Len(K), K[k] # Nil, NEW w \in g2[K[k]]
      PROVE  w \in G /\ Between(v, k, w)
  <2>1. w \in G /\ Between(s, k, w) /\ w \in Int
    BY <1>5 DEF Fits
  <2>2. k <= i => w <= KeyOf[y]
    <3> SUFFICES ASSUME k <= i PROVE w <= KeyOf[y]
      OBVIOUS
    <3>1. w <= KeyOf[s[i]] /\ KeyOf[s[i]] <= KeyOf[y]
      <4>1. i < i + 1 /\ i >= k
        BY <1>1
      <4> QED
        BY <4>1, <2>1 DEF Between
    <3> QED
      BY <3>1, <2>1, <1>2
  <2>3. k > i => KeyOf[y] <= w
    <3> SUFFICES ASSUME k > i PROVE KeyOf[y] <= w
      OBVIOUS
    <3>1. CASE k = i + 1
      BY <3>1, <1>5
    <3>2. CASE k > i + 1
      <4>1. i + 1 \in 1..Len(s) /\ i + 1 < k /\ i + 1 >= i + 1
        BY <3>2, <1>1
      <4>2. KeyOf[s[i + 1]] <= w /\ KeyOf[y] <= KeyOf[s[i + 1]]
        BY <4>1, <2>1 DEF Between
      <4> QED
        BY <4>1, <4>2, <2>1, <1>2
    <3> QED
      BY <3>1, <3>2, <1>1
  <2>4. ASSUME NEW j \in 1..Len(v)
        PROVE  (j < k => KeyOf[v[j]] <= w) /\ (j >= k => w <= KeyOf[v[j]])
    <3>1. CASE j = i
      BY <3>1, <2>2, <2>3, <1>1
    <3>2. CASE j # i
      BY <3>2, <2>1, <1>1 DEF Between
    <3> QED
      BY <3>1, <3>2
  <2> QED
    BY <2>1, <2>4 DEF Between
<1> QED
  BY <1>3, <1>4, <1>5 DEF Fits, Rising, v

-----------------------------------------------------------------------------
(* A tree of such nodes, and what the surgeries do to it.                     *)

Ordered(n, g) == \A id \in DOMAIN n : Fits(n[id].slots, n[id].kids, g, g[id])
KidsAt(K, D) == \A k \in 1..Len(K) : K[k] # Nil => K[k] \in D

\* Children are nodes.
LEMMA KidsAreNodes ==
  ASSUME NEW n, NEW rt, NEW pr, Tree(n, rt, pr)
  PROVE  \A id \in DOMAIN n : KidsAt(n[id].kids, DOMAIN n)
<1> SUFFICES ASSUME NEW id \in DOMAIN n, NEW k \in 1..Len(n[id].kids), n[id].kids[k] # Nil
             PROVE  n[id].kids[k] \in DOMAIN n
  BY DEF KidsAt
<1>1. DOMAIN n[id].kids = 1..Len(n[id].kids) /\ n[id].kids[k] \in IDs
  BY NodeFacts
<1>2. n[id].kids[k] \in Kids(n, id)
  BY <1>1 DEF Kids, Elems
<1> QED
  BY <1>2, KidsIn

\* A node breaks: it keeps the separator m, and l and r take its halves.
Breaks(n, n2, g, id, l, r, L, LK, U, UK, m) ==
    /\ DOMAIN n \subseteq IDs /\ (\A j \in DOMAIN n : KidsAt(n[j].kids, DOMAIN n)) /\ id \in DOMAIN n
    /\ l \in IDs \ DOMAIN n /\ r \in IDs \ DOMAIN n /\ l # r /\ DOMAIN n2 = DOMAIN n \cup {l, r}
    /\ m \in Items /\ KidsAt(LK, DOMAIN n) /\ KidsAt(UK, DOMAIN n)
    /\ Looks(n2, id, <<m>>, <<l, r>>) /\ Looks(n2, l, L, LK) /\ Looks(n2, r, U, UK)
    /\ \A j \in DOMAIN n \ {id} : Looks(n2, j, n[j].slots, n[j].kids)
    /\ HalvesFit(L, LK, U, UK, g, g[id], KeyOf[m])

\* The two halves share the range, and the separator is between them.
LEMMA BreakOrders ==
  ASSUME NEW n, NEW n2, NEW g \in Ranges, Ordered(n, g), NEW id, NEW l, NEW r, NEW L, NEW LK, NEW U, NEW UK,
         NEW m, Breaks(n, n2, g, id, l, r, L, LK, U, UK, m)
  PROVE  \E g2 \in Ranges : Ordered(n2, g2)
<1> USE DEF Breaks
<1> DEFINE v == KeyOf[m]
           g2 == [j \in IDs |-> IF j = l THEN NotAbove(g[id], v) ELSE IF j = r THEN NotBelow(g[id], v) ELSE g[j]]
<1>1. g2 \in Ranges
  BY DEF Ranges, NotAbove, NotBelow
<1>2. g2[l] = NotAbove(g[id], v) /\ g2[r] = NotBelow(g[id], v) /\ \A j \in DOMAIN n : g2[j] = g[j]
  OBVIOUS
<1> HIDE DEF g2
<1>3. Fits(L, LK, g, NotAbove(g[id], v)) /\ Fits(U, UK, g, NotBelow(g[id], v)) /\ v \in g[id]
  BY DEF HalvesFit
<1>4. \A K : KidsAt(K, DOMAIN n) => \A k \in 1..Len(K) : K[k] # Nil => g2[K[k]] \subseteq g[K[k]]
  BY <1>2 DEF KidsAt
<1>5. Fits(L, LK, g2, g2[l]) /\ Fits(U, UK, g2, g2[r])
  <2>1. Fits(L, LK, g2, NotAbove(g[id], v))
    BY <1>3, <1>4, FitsStill
  <2>2. Fits(U, UK, g2, NotBelow(g[id], v))
    BY <1>3, <1>4, FitsStill
  <2> QED
    BY <2>1, <2>2, <1>2
<1>6. Fits(<<m>>, <<l, r>>, g2, g2[id])
  <2>1. /\ m \in Items /\ l \in IDs /\ r \in IDs /\ KeyOf[m] \in g2[id]
        /\ g2[l] = NotAbove(g2[id], KeyOf[m]) /\ g2[r] = NotBelow(g2[id], KeyOf[m])
    BY <1>2, <1>3
  <2> QED
    BY <2>1, RootFits
<1>7. ASSUME NEW j \in DOMAIN n \ {id}
      PROVE  Fits(n[j].slots, n[j].kids, g2, g2[j])
  <2>1. Fits(n[j].slots, n[j].kids, g, g[j]) /\ g2[j] = g[j] /\ KidsAt(n[j].kids, DOMAIN n)
    BY <1>2 DEF Ordered
  <2> QED
    BY <2>1, <1>4, FitsStill
<1>8. Ordered(n2, g2)
  <2> SUFFICES ASSUME NEW j \in DOMAIN n2 PROVE Fits(n2[j].slots, n2[j].kids, g2, g2[j])
    BY DEF Ordered
  <2>1. CASE j = id
    BY <2>1, <1>6 DEF Looks
  <2>2. CASE j = l
    BY <2>2, <1>5 DEF Looks
  <2>3. CASE j = r
    BY <2>3, <1>5 DEF Looks
  <2>4. CASE j \in DOMAIN n \ {id}
    BY <2>4, <1>7 DEF Looks
  <2> QED
    BY <2>1, <2>2, <2>3, <2>4
<1> QED
  BY <1>1, <1>8

\* A node splits: it keeps its lower half, and r takes the upper one.
Splits(n, n2, g, id, r, L, LK, U, UK, m) ==
    /\ DOMAIN n \subseteq IDs /\ (\A j \in DOMAIN n : KidsAt(n[j].kids, DOMAIN n)) /\ id \in DOMAIN n
    /\ r \in IDs \ DOMAIN n /\ DOMAIN n2 = DOMAIN n \cup {r}
    /\ m \in Items /\ KidsAt(LK, DOMAIN n) /\ KidsAt(UK, DOMAIN n)
    /\ Looks(n2, id, L, LK) /\ Looks(n2, r, U, UK)
    /\ \A j \in DOMAIN n \ {id} : Looks(n2, j, n[j].slots, n[j].kids)
    /\ HalvesFit(L, LK, U, UK, g, g[id], KeyOf[m])

SplitRanges(g, id, r, v) ==
    [j \in IDs |-> IF j = id THEN NotAbove(g[id], v) ELSE IF j = r THEN NotBelow(g[id], v) ELSE g[j]]

\* The two halves share the range.
LEMMA SplitOrders ==
  ASSUME NEW n, NEW n2, NEW g \in Ranges, Ordered(n, g), NEW id, NEW r, NEW L, NEW LK, NEW U, NEW UK,
         NEW m, Splits(n, n2, g, id, r, L, LK, U, UK, m)
  PROVE  SplitRanges(g, id, r, KeyOf[m]) \in Ranges /\ Ordered(n2, SplitRanges(g, id, r, KeyOf[m]))
<1> USE DEF Splits
<1> DEFINE v == KeyOf[m]
           g2 == SplitRanges(g, id, r, v)
<1>1. g2 \in Ranges
  BY DEF Ranges, NotAbove, NotBelow, SplitRanges
<1>2. /\ g2[id] = NotAbove(g[id], v) /\ g2[r] = NotBelow(g[id], v)
      /\ \A j \in DOMAIN n \ {id} : g2[j] = g[j]
      /\ \A j \in DOMAIN n : g2[j] \subseteq g[j]
  BY DEF SplitRanges, NotAbove
<1> HIDE DEF g2
<1>3. Fits(L, LK, g, NotAbove(g[id], v)) /\ Fits(U, UK, g, NotBelow(g[id], v))
  BY DEF HalvesFit
<1>4. \A K : KidsAt(K, DOMAIN n) => \A k \in 1..Len(K) : K[k] # Nil => g2[K[k]] \subseteq g[K[k]]
  BY <1>2 DEF KidsAt
<1>5. Fits(L, LK, g2, g2[id]) /\ Fits(U, UK, g2, g2[r])
  <2>1. Fits(L, LK, g2, NotAbove(g[id], v))
    BY <1>3, <1>4, FitsStill
  <2>2. Fits(U, UK, g2, NotBelow(g[id], v))
    BY <1>3, <1>4, FitsStill
  <2> QED
    BY <2>1, <2>2, <1>2
<1>6. ASSUME NEW j \in DOMAIN n \ {id}
      PROVE  Fits(n[j].slots, n[j].kids, g2, g2[j])
  <2>1. Fits(n[j].slots, n[j].kids, g, g[j]) /\ g2[j] = g[j] /\ KidsAt(n[j].kids, DOMAIN n)
    BY <1>2 DEF Ordered
  <2> QED
    BY <2>1, <1>4, FitsStill
<1>7. Ordered(n2, g2)
  <2> SUFFICES ASSUME NEW j \in DOMAIN n2 PROVE Fits(n2[j].slots, n2[j].kids, g2, g2[j])
    BY DEF Ordered
  <2>1. CASE j = id
    BY <2>1, <1>5 DEF Looks
  <2>2. CASE j = r
    BY <2>2, <1>5 DEF Looks
  <2>3. CASE j \in DOMAIN n \ {id}
    BY <2>3, <1>6 DEF Looks
  <2> QED
    BY <2>1, <2>2, <2>3
<1> QED
  BY <1>1, <1>7 DEF g2

\* One node changes.
LEMMA OneOrders ==
  ASSUME NEW n, NEW n2, NEW g, Ordered(n, g), NEW id, DOMAIN n2 \subseteq DOMAIN n \cup {id},
         Fits(n2[id].slots, n2[id].kids, g, g[id]),
         \A j \in DOMAIN n2 \ {id} : Looks(n2, j, n[j].slots, n[j].kids)
  PROVE  Ordered(n2, g)
BY DEF Ordered, Looks

\* The removal of a slot. Its four outcomes are shapes of the new nodes.
LEMMA ThinnedOrders ==
  ASSUME NEW n, NEW rt, Tree(n, rt, Nil), NEW g, Ordered(n, g), NEW n2, NEW id \in DOMAIN n,
         NEW k \in 0..Len(n[id].slots) - 1, Thinned(n, n2, id, k), n[id].kids # <<>> => HasNilChildAt(n, id, k)
  PROVE  Ordered(n2, g)
<1> USE DEF Thinned, Looks
<1>1. /\ n[id].slots \in Seq(Items) /\ Len(n[id].slots) \in Nat /\ n[id].kids \in Seq(IDs \cup {Nil})
      /\ n[id].kids # <<>> => Len(n[id].kids) = Len(n[id].slots) + 1
  BY NodeFacts
<1>2. k + 1 \in 1..Len(n[id].slots) /\ k + 2 = (k + 1) + 1
  BY <1>1
<1>3. Fits(n[id].slots, n[id].kids, g, g[id])
  BY DEF Ordered
<1> DEFINE i == k + 1
           s == n[id].slots
           K == n[id].kids
<1>4. Fits(RemoveAt(s, i), n2[id].kids, g, g[id])
  <2>1. CASE K = <<>>
    <3>1. Fits(s, <<>>, g, g[id]) /\ n2[id].kids = <<>>
      BY <2>1, <1>3
    <3> HIDE DEF s, i
    <3>2. Fits(RemoveAt(s, i), <<>>, g, g[id])
      BY <3>1, <1>1, <1>2, LeafThinFits DEF s, i
    <3> QED
      BY <3>1, <3>2
  <2>2. CASE K # <<>>
    <3>1. n2[id].kids = IF K[k + 1] = Nil THEN RemoveAt(K, i) ELSE RemoveAt(K, i + 1)
      BY <2>2, <1>2 DEF Shrunk, Node
    <3>2. PICK q \in {i, i + 1} : n2[id].kids = RemoveAt(K, q)
      BY <3>1
    <3>3. s \in Seq(Items) /\ i \in 1..Len(s) /\ K \in Seq(IDs \cup {Nil}) /\ Len(K) = Len(s) + 1 /\ Fits(s, K, g, g[id])
      BY <2>2, <1>1, <1>2, <1>3
    <3> HIDE DEF s, K, i
    <3> QED
      BY <3>2, <3>3, ThinFits
  <2> QED
    BY <2>1, <2>2
<1>5. \A j \in DOMAIN n2 \ {id} : Looks(n2, j, n[j].slots, n[j].kids)
  BY DEF Looks
<1> QED
  BY <1>4, <1>5, OneOrders

\* A node goes, and its place among its parent's children is empty.
LEMMA PrunedOrders ==
  ASSUME NEW n, NEW rt, Tree(n, rt, Nil), NEW g, Ordered(n, g), NEW n2, NEW id \in DOMAIN n, id # rt, Pruned(n, n2, id)
  PROVE  Ordered(n2, g)
<1> DEFINE p == n[id].parent
           K == n[p].kids
           i == GetIndexOfChild(n, id) + 1
<1>0. id # Nil
  BY IDsAre DEF Tree, Shape
<1>1. p \in DOMAIN n /\ i \in 1..Len(K) /\ K \in Seq(IDs \cup {Nil})
  BY <1>0, GetIndexIs, NodeFacts
<1>2. Fits(n[p].slots, K, g, g[p])
  BY <1>1 DEF Ordered
<1>3. Fits(n[p].slots, <<>>, g, g[p])
  <2> DEFINE w == <<>>
  <2>1. Len(w) = 0
    OBVIOUS
  <2> HIDE DEF w
  <2>2. Fits(n[p].slots, w, g, g[p])
    BY <2>1, <1>2 DEF Fits
  <2> QED
    BY <2>2 DEF w
<1>4. Fits(n[p].slots, [K EXCEPT ![i] = Nil], g, g[p])
  <2> HIDE DEF K, i
  <2> QED
    BY <1>1, <1>2, ReplaceFits
<1>5. Fits(n2[p].slots, n2[p].kids, g, g[p])
  BY <1>3, <1>4 DEF Pruned, Instead
<1>6. DOMAIN n2 \subseteq DOMAIN n \cup {p} /\ \A j \in DOMAIN n2 \ {p} : Looks(n2, j, n[j].slots, n[j].kids)
  BY DEF Pruned, Looks
<1> HIDE DEF p
<1> QED
  BY <1>5, <1>6, OneOrders

\* A node's only child takes its place among its parent's children.
LEMMA LiftedOrders ==
  ASSUME NEW n, NEW rt, Tree(n, rt, Nil), NEW g, Ordered(n, g), NEW n2, NEW id \in DOMAIN n, id # rt,
         NEW c \in Kids(n, id), Lifted(n, n2, id, c)
  PROVE  Ordered(n2, g)
<1> DEFINE p == n[id].parent
           K == n[p].kids
           i == GetIndexOfChild(n, id) + 1
<1>0. id # Nil /\ c \in IDs
  BY IDsAre DEF Tree, Shape, Kids, Elems
<1>1. p \in DOMAIN n /\ i \in 1..Len(K) /\ K \in Seq(IDs \cup {Nil}) /\ K[i] = id
  BY <1>0, GetIndexIs, NodeFacts
<1>2. Fits(n[p].slots, K, g, g[p]) /\ Fits(n[id].slots, n[id].kids, g, g[id])
  BY <1>1 DEF Ordered
<1>3. g[c] \subseteq g[id]
  <2>1. PICK k \in DOMAIN n[id].kids : n[id].kids[k] = c
    BY DEF Kids, Elems
  <2>2. DOMAIN n[id].kids = 1..Len(n[id].kids) /\ c # Nil
    BY <1>0, NodeFacts, IDsAre
  <2> QED
    BY <2>1, <2>2, <1>2 DEF Fits
<1>4. \A w \in g[c] : w \in g[p] /\ Between(n[p].slots, i, w)
  BY <1>0, <1>1, <1>2, <1>3 DEF Fits
<1>5. Fits(n[p].slots, [K EXCEPT ![i] = c], g, g[p])
  <2> HIDE DEF K, i, p
  <2> QED
    BY <1>0, <1>1, <1>2, <1>4, ReplaceFits
<1>6. Fits(n2[p].slots, n2[p].kids, g, g[p])
  BY <1>5 DEF Lifted, Looks, Instead
<1>7. DOMAIN n2 \subseteq DOMAIN n \cup {p} /\ \A j \in DOMAIN n2 \ {p} : Looks(n2, j, n[j].slots, n[j].kids)
  BY DEF Lifted, Looks
<1> HIDE DEF p
<1> QED
  BY <1>6, <1>7, OneOrders

\* The root takes over its only child.
LEMMA CollapsedOrders ==
  ASSUME NEW n, NEW rt, Tree(n, rt, Nil), NEW g, Ordered(n, g), NEW n2, rt \in DOMAIN n,
         NEW c \in Kids(n, rt), Collapsed(n, n2, rt, c)
  PROVE  Ordered(n2, g)
<1>0. c \in IDs /\ c \in DOMAIN n /\ c # Nil
  BY KidsIn, IDsAre DEF Kids, Elems
<1>1. Fits(n[c].slots, n[c].kids, g, g[c]) /\ Fits(n[rt].slots, n[rt].kids, g, g[rt])
  BY <1>0 DEF Ordered
<1>2. g[c] \subseteq g[rt]
  <2>1. PICK k \in DOMAIN n[rt].kids : n[rt].kids[k] = c
    BY DEF Kids, Elems
  <2>2. DOMAIN n[rt].kids = 1..Len(n[rt].kids)
    BY NodeFacts
  <2> QED
    BY <2>1, <2>2, <1>0, <1>1 DEF Fits
<1>3. Fits(n[c].slots, n[c].kids, g, g[rt])
  BY <1>1, <1>2, FitsStill
<1>4. Fits(n2[rt].slots, n2[rt].kids, g, g[rt])
  BY <1>3 DEF Collapsed, Looks
<1>5. DOMAIN n2 \subseteq DOMAIN n \cup {rt} /\ \A j \in DOMAIN n2 \ {rt} : Looks(n2, j, n[j].slots, n[j].kids)
  BY DEF Collapsed, Looks
<1> QED
  BY <1>4, <1>5, OneOrders

\* Whatever its outcome, the removal of a slot keeps the order.
LEMMA RemovalOrders ==
  ASSUME NEW n, NEW rt, Tree(n, rt, Nil), NEW g, Ordered(n, g), NEW n2, NEW id \in DOMAIN n,
         NEW k \in 0..Len(n[id].slots) - 1, n[id].kids # <<>> => HasNilChildAt(n, id, k), Reshaped(n, n2, rt, id, k)
  PROVE  Ordered(n2, g)
<1>1. CASE Thinned(n, n2, id, k)
  BY <1>1, ThinnedOrders
<1>2. CASE id # rt /\ Pruned(n, n2, id)
  BY <1>2, PrunedOrders
<1>3. CASE id # rt /\ \E c \in Kids(n, id) : Lifted(n, n2, id, c)
  BY <1>3, LiftedOrders
<1>4. CASE id = rt /\ \E c \in Kids(n, rt) : Collapsed(n, n2, rt, c)
  BY <1>4, CollapsedOrders
<1> QED
  BY <1>1, <1>2, <1>3, <1>4 DEF Reshaped

-----------------------------------------------------------------------------
(* The invariant: there are ranges that fit the nodes, and a call under way.  *)

\* A key on its way down is in the range of the node it is at.
AddOK(g) == call.op = "add" => KeyOf[call.item] \in g[call.node]

\* A separator on its way up fits where it goes, between the ranges of the nodes it separates.
UpOK(g) == call.op = "promote" =>
    /\ KeyOf[call.item] \in g[call.node]
    /\ Between(nodes[call.node].slots, call.index + 1, KeyOf[call.item])
    /\ \A v \in g[call.left] : v <= KeyOf[call.item]
    /\ \A v \in g[call.right] :
         v \in g[call.node] /\ Between(nodes[call.node].slots, call.index + 1, v) /\ KeyOf[call.item] <= v

\* The nodes P on the way to the next item: what is in the one reached is below what is in them.
Way(g, P) ==
    /\ P \in SUBSET DOMAIN nodes /\ call.node \in P /\ call.home \notin P
    /\ nodes[call.home].kids # <<>> /\ nodes[call.home].kids[call.slot + 2] \in P
    /\ g[call.node] \subseteq g[nodes[call.home].kids[call.slot + 2]]
    /\ \A p \in P \ {call.node} :
         /\ nodes[p].kids # <<>> /\ nodes[p].kids[1] \in P
         /\ \A v \in g[call.node] : \A j \in 1..Len(nodes[p].slots) : v <= KeyOf[nodes[p].slots[j]]
DownOK(g) == call.op = "next" => \E P \in SUBSET IDs : Way(g, P)

OrderOK(g) == Ordered(nodes, g) /\ AddOK(g) /\ UpOK(g) /\ DownOK(g)
OrderInv == \E g \in Ranges : OrderOK(g)

\* Between calls, and once the nodes are as they will be, only they matter.
LEMMA Settled ==
  ASSUME NEW g \in Ranges, Ordered(nodes', g), call' \in {Idle, Added, Removed}
  PROVE  OrderInv'
<1>1. call'.op \in {"idle", "added", "removed"}
  BY DEF Idle, Added, Removed
<1>2. AddOK(g)' /\ UpOK(g)' /\ DownOK(g)'
  BY <1>1 DEF AddOK, UpOK, DownOK
<1> QED
  BY <1>2 DEF OrderInv, OrderOK

\* A range may grow by a key that fits above.
Grown(g, id, v) == [j \in IDs |-> IF j = id THEN g[id] \cup {v} ELSE g[j]]
FitsAbove(n, g, id, v) ==
    \A p \in DOMAIN n : \A k \in 1..Len(n[p].kids) : n[p].kids[k] = id => v \in g[p] /\ Between(n[p].slots, k, v)

\* The order stays, and the key is in the range.
LEMMA GrowOrders ==
  ASSUME NEW n, DOMAIN n \subseteq IDs, \A p \in DOMAIN n : KidsAt(n[p].kids, DOMAIN n),
         NEW g \in Ranges, Ordered(n, g), NEW id \in DOMAIN n, NEW v \in Int, FitsAbove(n, g, id, v)
  PROVE  Grown(g, id, v) \in Ranges /\ Ordered(n, Grown(g, id, v)) /\ v \in Grown(g, id, v)[id]
<1> DEFINE g2 == Grown(g, id, v)
<1>1. g2 \in Ranges
  BY DEF Ranges, Grown
<1>2. \A j \in DOMAIN n : g2[j] = IF j = id THEN g[id] \cup {v} ELSE g[j]
  BY DEF Grown
<1> HIDE DEF g2
<1>3. ASSUME NEW p \in DOMAIN n
      PROVE  Fits(n[p].slots, n[p].kids, g2, g2[p])
  <2>1. Fits(n[p].slots, n[p].kids, g, g[p]) /\ g[p] \subseteq g2[p]
    BY <1>2 DEF Ordered
  <2>2. Rising(n[p].slots) /\ \A j \in 1..Len(n[p].slots) : KeyOf[n[p].slots[j]] \in g2[p]
    BY <2>1 DEF Fits
  <2>3. ASSUME NEW k \in 1..Len(n[p].kids), n[p].kids[k] # Nil, NEW w \in g2[n[p].kids[k]]
        PROVE  w \in g2[p] /\ Between(n[p].slots, k, w)
    <3>1. n[p].kids[k] \in DOMAIN n
      BY <2>3 DEF KidsAt
    <3>2. CASE w \in g[n[p].kids[k]]
      BY <2>1, <2>3, <3>2 DEF Fits
    <3>3. CASE w \notin g[n[p].kids[k]]
      <4>1. n[p].kids[k] = id /\ w = v
        BY <3>1, <3>3, <2>3, <1>2
      <4> QED
        BY <4>1, <2>1 DEF FitsAbove
    <3> QED
      BY <3>2, <3>3
  <2> QED
    BY <2>2, <2>3 DEF Fits
<1>4. Ordered(n, g2)
  BY <1>3 DEF Ordered
<1> QED
  BY <1>1, <1>2, <1>4 DEF g2

\* A call to add starts at the root, which no node has among its children.
LEMMA AddOrder ==
  ASSUME TreeInv, OrderInv, NEW i \in Items, NEW unique \in {IsUnique, TRUE}, Add(i, unique)
  PROVE  OrderInv'
<1> DEFINE id == IF root = Nil THEN NewID(nodes) ELSE root
           v == KeyOf[i]
<1>1. PICK g \in Ranges : OrderOK(g)
  BY DEF OrderInv
<1>2. /\ nodes' = (IF root = Nil THEN With(nodes, id, Node(Nil, <<>>, <<>>)) ELSE nodes)
      /\ call' = [op |-> "add", item |-> i, unique |-> unique, node |-> id] /\ call = Idle
  BY DEF Add
<1>3. Tree(nodes, root, Nil) /\ v \in Int
  BY <1>2, KeysAre DEF TreeInv, Sibling, Idle
<1>4. ASSUME NEW g2 \in Ranges, Ordered(nodes', g2), v \in g2[id]
      PROVE  OrderInv'
  <2>1. call'.op = "add" /\ call'.item = i /\ call'.node = id
    BY <1>2
  <2>2. AddOK(g2)' /\ UpOK(g2)' /\ DownOK(g2)'
    BY <2>1, <1>4 DEF AddOK, UpOK, DownOK
  <2> QED
    BY <2>2, <1>4 DEF OrderInv, OrderOK
<1>5. CASE root # Nil
  <2>1. nodes' = nodes /\ id = root /\ root \in DOMAIN nodes /\ DOMAIN nodes \subseteq IDs
    BY <1>2, <1>3, <1>5 DEF Tree, Rooted, Shape
  <2>2. \A p \in DOMAIN nodes : KidsAt(nodes[p].kids, DOMAIN nodes)
    BY <1>3, KidsAreNodes
  <2>3. FitsAbove(nodes, g, root, v)
    <3> SUFFICES ASSUME NEW p \in DOMAIN nodes, NEW k \in 1..Len(nodes[p].kids), nodes[p].kids[k] = root PROVE FALSE
      BY DEF FitsAbove
    <3>1. DOMAIN nodes[p].kids = 1..Len(nodes[p].kids)
      BY <1>3, NodeFacts
    <3>2. root \in Kids(nodes, p)
      BY <3>1, <2>1 DEF Kids, Elems
    <3> QED
      BY <3>2, <1>3, KidsIn
  <2>4. Ordered(nodes, g)
    BY <1>1 DEF OrderOK
  <2> HIDE DEF v
  <2>5. Grown(g, root, v) \in Ranges /\ Ordered(nodes, Grown(g, root, v)) /\ v \in Grown(g, root, v)[root]
    BY <2>1, <2>2, <2>3, <2>4, <1>3, GrowOrders
  <2> HIDE DEF id
  <2> QED
    BY <2>1, <2>5, <1>4
<1>6. CASE root = Nil
  <2>1. DOMAIN nodes = {}
    BY <1>3, <1>6 DEF Tree, Rooted
  <2>2. id \in IDs
    BY <2>1, <1>6, IDsAre, NewIDIs
  <2>3. DOMAIN nodes' = {id} /\ nodes'[id] = Node(Nil, <<>>, <<>>)
    BY <2>1, <1>2, <1>6 DEF With
  <2> DEFINE g2 == [j \in IDs |-> {v}]
             w == <<>>
  <2>4. g2 \in Ranges /\ v \in g2[id] /\ Len(w) = 0
    BY <2>2, <1>3 DEF Ranges
  <2>5. nodes'[id].slots = w /\ nodes'[id].kids = w
    BY <2>3 DEF Node
  <2> HIDE DEF g2, w, id, v
  <2>6. Fits(w, w, g2, g2[id])
    BY <2>4 DEF Fits, Rising
  <2>7. Ordered(nodes', g2)
    BY <2>3, <2>5, <2>6 DEF Ordered
  <2> QED
    BY <2>4, <2>7, <1>4
<1> QED
  BY <1>5, <1>6

\* What holds at a node a key is on its way down to.
AddRanged(g) ==
    /\ AddFacts /\ Ordered(nodes, g) /\ DOMAIN nodes \subseteq IDs
    /\ \A p \in DOMAIN nodes : KidsAt(nodes[p].kids, DOMAIN nodes)
    /\ KeyOf[call.item] \in g[call.node] /\ KeyOf[call.item] \in Int /\ g[call.node] \in SUBSET Int
    /\ nodes[call.node].slots \in Seq(Items) /\ Len(nodes[call.node].slots) \in Nat
    /\ Fits(nodes[call.node].slots, nodes[call.node].kids, g, g[call.node])
    /\ Index + 1 \in 1..Len(nodes[call.node].slots) + 1
    /\ Between(nodes[call.node].slots, Index + 1, KeyOf[call.item])

\* It follows from the invariant.
LEMMA AddRange ==
  ASSUME TreeInv, call.op = "add", NEW g \in Ranges, OrderOK(g)
  PROVE  AddRanged(g)
<1>1. AddFacts
  BY AddNow
<1>2. /\ Tree(nodes, root, Nil) /\ call.node \in DOMAIN nodes /\ call.node \in IDs /\ call.item \in Items
      /\ Index \in 0..Len(nodes[call.node].slots)
  BY <1>1 DEF AddFacts, Here
<1>3. nodes[call.node].slots \in Seq(Items) /\ Len(nodes[call.node].slots) \in Nat
  BY <1>2, NodeFacts
<1>4. KeyOf[call.item] \in g[call.node] /\ KeyOf[call.item] \in Int /\ g[call.node] \in SUBSET Int
  BY <1>2, KeysAre DEF OrderOK, AddOK, Ranges
<1>5. Ordered(nodes, g) /\ Fits(nodes[call.node].slots, nodes[call.node].kids, g, g[call.node])
  BY <1>2 DEF OrderOK, Ordered
<1>6. DOMAIN nodes \subseteq IDs /\ \A p \in DOMAIN nodes : KidsAt(nodes[p].kids, DOMAIN nodes)
  BY <1>2, KidsAreNodes DEF Tree, Shape
<1>7. Between(nodes[call.node].slots, Index + 1, KeyOf[call.item])
  BY <1>3, <1>4, <1>5, IndexBetween DEF Index, Here, Fits
<1>8. Index + 1 \in 1..Len(nodes[call.node].slots) + 1
  BY <1>2, <1>3
<1> QED
  BY <1>1, <1>3, <1>4, <1>5, <1>6, <1>7, <1>8 DEF AddRanged

\* Down to the child the key is for.
LEMMA AddBelowOrder ==
  ASSUME TreeInv, OrderInv, AddBelow
  PROVE  OrderInv'
<1> DEFINE id == call.node
           k == Index + 1
           c == nodes[id].kids[k]
           v == KeyOf[call.item]
<1>1. PICK g \in Ranges : OrderOK(g)
  BY DEF OrderInv
<1>2. call.op = "add" /\ nodes' = nodes /\ call' = [call EXCEPT !.node = c] /\ nodes[id].kids # <<>> /\ c # Nil
  BY DEF AddBelow, Here, HasChildren
<1>3. AddRanged(g)
  BY <1>1, <1>2, AddRange
<1>4. Tree(nodes, root, Nil) /\ id \in DOMAIN nodes /\ v \in Int /\ call.item \in Items
  BY <1>3 DEF AddRanged, AddFacts
<1>5. c \in DOMAIN nodes /\ nodes[c].parent = id /\ c \in IDs /\ c # root
  <2>1. k \in 1..Len(nodes[id].slots) + 1
    BY <1>3 DEF AddRanged
  <2> HIDE DEF k
  <2>2. c \in DOMAIN nodes /\ nodes[c].parent = id /\ c # root
    BY <2>1, <1>2, <1>4, ChildIs
  <2> QED
    BY <2>2, <1>3 DEF AddRanged
<1>6. FitsAbove(nodes, g, c, v)
  <2> SUFFICES ASSUME NEW p \in DOMAIN nodes, NEW q \in 1..Len(nodes[p].kids), nodes[p].kids[q] = c
               PROVE  v \in g[p] /\ Between(nodes[p].slots, q, v)
    BY DEF FitsAbove
  <2>1. DOMAIN nodes[p].kids = 1..Len(nodes[p].kids)
    BY <1>4, NodeFacts
  <2>2. c \in Kids(nodes, p)
    BY <2>1, <1>5 DEF Kids, Elems
  <2>3. p = id
    BY <2>2, <1>4, <1>5 DEF Tree, Linked
  <2>4. q = k
    <3>1. /\ Distinct(nodes[id].kids, IDs) /\ DOMAIN nodes[id].kids = 1..Len(nodes[id].kids)
          /\ Len(nodes[id].kids) = Len(nodes[id].slots) + 1
      BY <1>2, <1>4, NodeFacts
    <3>2. k \in 1..Len(nodes[id].slots) + 1
      BY <1>3 DEF AddRanged
    <3>3. q \in DOMAIN nodes[id].kids /\ k \in DOMAIN nodes[id].kids /\ nodes[id].kids[q] = nodes[id].kids[k] /\ nodes[id].kids[q] \in IDs
      BY <3>1, <3>2, <2>3, <1>5
    <3> HIDE DEF k, id
    <3> QED
      BY <3>1, <3>3 DEF Distinct
  <2> QED
    BY <2>3, <2>4, <1>3 DEF AddRanged
<1>7. Ordered(nodes, g) /\ DOMAIN nodes \subseteq IDs /\ \A p \in DOMAIN nodes : KidsAt(nodes[p].kids, DOMAIN nodes)
  BY <1>3 DEF AddRanged
<1>8. \E g2 \in Ranges : Ordered(nodes, g2) /\ v \in g2[c]
  <2> HIDE DEF c, v
  <2>1. Grown(g, c, v) \in Ranges /\ Ordered(nodes, Grown(g, c, v)) /\ v \in Grown(g, c, v)[c]
    BY <1>4, <1>5, <1>6, <1>7, GrowOrders
  <2> QED
    BY <2>1
<1>9. PICK g2 \in Ranges : Ordered(nodes, g2) /\ KeyOf[call.item] \in g2[c]
  BY <1>8
<1>10. call \in [op : {"add"}, item : Items, unique : BOOLEAN, node : DOMAIN nodes]
  BY <1>2 DEF TreeInv, CallOK, Idle, Added, Removed
<1>11. call'.op = "add" /\ call'.item = call.item /\ call'.node = c
  BY <1>2, <1>10
<1>12. AddOK(g2)' /\ UpOK(g2)' /\ DownOK(g2)'
  BY <1>9, <1>11 DEF AddOK, UpOK, DownOK
<1>13. Ordered(nodes', g2)
  BY <1>2, <1>9
<1> QED
  BY <1>12, <1>13 DEF OrderInv, OrderOK

\* The item among the slots of a leaf.
LEMMA LeafFits ==
  ASSUME NEW g, AddRanged(g), nodes[call.node].kids = <<>>
  PROVE  TempSlots \in Seq(Items) /\ Fits(TempSlots, <<>>, g, g[call.node])
<1> DEFINE s == nodes[call.node].slots
           G == g[call.node]
           x == call.item
           i == Index + 1
           w == <<>>
<1>1. /\ s \in Seq(Items) /\ x \in Items /\ i \in 1..Len(s) + 1 /\ G \in SUBSET Int
      /\ KeyOf[x] \in G /\ Between(s, i, KeyOf[x]) /\ Fits(s, nodes[call.node].kids, g, G)
  BY DEF AddRanged, AddFacts
<1>2. TempSlots = InsertAt(s, i, x)
  BY DEF TempSlots, Here
<1>3. w \in Seq(IDs \cup {Nil}) /\ Len(w) = 0
  OBVIOUS
<1> HIDE DEF s, G, x, i, w
<1>4. InsertGives(TempSlots, s, i, x, Items)
  BY <1>1, <1>2, InsertAtIs
<1>5. Rising(s) /\ \A j \in 1..Len(s) : KeyOf[s[j]] \in G
  BY <1>1 DEF Fits
<1>6. Beside(s, w, g, G, i, KeyOf[x])
  BY <1>3 DEF Beside
<1>7. Fits(TempSlots, w, g, G)
  BY <1>1, <1>3, <1>4, <1>5, <1>6, InsertFits
<1> QED
  BY <1>4, <1>7 DEF InsertGives, G, w

\* A leaf with room takes the item.
LEMMA AddOnLeafOrder ==
  ASSUME TreeInv, OrderInv, AddOnLeaf
  PROVE  OrderInv'
<1>1. PICK g \in Ranges : OrderOK(g)
  BY DEF OrderInv
<1>2. call.op = "add" /\ call' = Added /\ nodes[call.node].kids = <<>>
  BY DEF AddOnLeaf, OnLeaf, HasChildren
<1>3. AddRanged(g)
  BY <1>1, <1>2, AddRange
<1>4. Fits(TempSlots, <<>>, g, g[call.node])
  BY <1>2, <1>3, LeafFits
<1>5. Rewritten(TempSlots, <<>>)
  BY AddOnLeafStep
<1>6. Ordered(nodes', g)
  <2>1. Ordered(nodes, g) /\ DOMAIN nodes' \subseteq DOMAIN nodes \cup {call.node}
    BY <1>3, <1>5 DEF AddRanged, Rewritten
  <2>2. Fits(nodes'[call.node].slots, nodes'[call.node].kids, g, g[call.node])
    BY <1>4, <1>5 DEF Rewritten, Looks
  <2>3. \A j \in DOMAIN nodes' \ {call.node} : Looks(nodes', j, nodes[j].slots, nodes[j].kids)
    BY <1>5 DEF Rewritten, Others
  <2> QED
    BY <2>1, <2>2, <2>3, OneOrders
<1> QED
  BY <1>2, <1>6, Settled

\* A new leaf takes the place of a pruned child: its range is the key.
LEMMA AddItemOnNodeWithNilChildOrder ==
  ASSUME TreeInv, OrderInv, AddItemOnNodeWithNilChild
  PROVE  OrderInv'
<1> DEFINE id == call.node
           x == call.item
           v == KeyOf[x]
           i == Index + 1
<1>1. PICK g \in Ranges : OrderOK(g)
  BY DEF OrderInv
<1>2. call.op = "add" /\ call' = Added /\ nodes[id].kids # <<>>
  BY DEF AddItemOnNodeWithNilChild, HasChildren
<1>3. AddRanged(g)
  BY <1>1, <1>2, AddRange
<1>4. Filled
  BY AddItemOnNodeWithNilChildStep
<1>5. PICK c \in IDs \ DOMAIN nodes :
        /\ DOMAIN nodes' = DOMAIN nodes \cup {c}
        /\ Looks(nodes', id, nodes[id].slots, [nodes[id].kids EXCEPT ![i] = c])
        /\ Looks(nodes', c, <<x>>, <<>>) /\ Others(id)
  BY <1>4 DEF Filled
<1>6. /\ Ordered(nodes, g) /\ DOMAIN nodes \subseteq IDs /\ id \in DOMAIN nodes /\ x \in Items /\ v \in Int
      /\ \A p \in DOMAIN nodes : KidsAt(nodes[p].kids, DOMAIN nodes)
      /\ v \in g[id] /\ Between(nodes[id].slots, i, v) /\ Tree(nodes, root, Nil)
      /\ i \in 1..Len(nodes[id].slots) + 1
  BY <1>3 DEF AddRanged, AddFacts
<1>7. nodes[id].kids \in Seq(IDs \cup {Nil}) /\ i \in 1..Len(nodes[id].kids)
  BY <1>2, <1>6, NodeFacts
<1>8. \E g2 \in Ranges : g2[c] = {v} /\ \A j \in DOMAIN nodes : g2[j] = g[j]
  <2> DEFINE h == [j \in IDs |-> IF j = c THEN {v} ELSE g[j]]
  <2>1. h \in Ranges
    BY <1>6 DEF Ranges
  <2>2. h[c] = {v} /\ \A j \in DOMAIN nodes : h[j] = g[j]
    BY <1>5, <1>6
  <2> HIDE DEF h
  <2> QED
    BY <2>1, <2>2
<1>9. PICK g2 \in Ranges : g2[c] = {v} /\ \A j \in DOMAIN nodes : g2[j] = g[j]
  BY <1>8
<1>10. \A p \in DOMAIN nodes : Fits(nodes[p].slots, nodes[p].kids, g2, g2[p])
  <2> SUFFICES ASSUME NEW p \in DOMAIN nodes PROVE Fits(nodes[p].slots, nodes[p].kids, g2, g2[p])
    OBVIOUS
  <2>1. Fits(nodes[p].slots, nodes[p].kids, g, g[p]) /\ g[p] \subseteq g2[p]
    BY <1>6, <1>9 DEF Ordered
  <2>2. \A k \in 1..Len(nodes[p].kids) : nodes[p].kids[k] # Nil => g2[nodes[p].kids[k]] \subseteq g[nodes[p].kids[k]]
    BY <1>6, <1>9 DEF KidsAt
  <2> QED
    BY <2>1, <2>2, FitsStill
<1>11. Fits(nodes[id].slots, [nodes[id].kids EXCEPT ![i] = c], g2, g2[id])
  <2>1. \A w \in g2[c] : w \in g2[id] /\ Between(nodes[id].slots, i, w)
    BY <1>6, <1>9
  <2>2. Fits(nodes[id].slots, nodes[id].kids, g2, g2[id]) /\ c \in IDs \cup {Nil}
    BY <1>6, <1>10
  <2> DEFINE s == nodes[id].slots
             K == nodes[id].kids
             G == g2[id]
  <2> HIDE DEF s, K, G, i
  <2>3. Fits(s, [K EXCEPT ![i] = c], g2, G)
    BY <2>1, <2>2, <1>7, ReplaceFits DEF s, K, G
  <2> QED
    BY <2>3 DEF s, K, G
<1>12. Fits(<<x>>, <<>>, g2, g2[c])
  <2> DEFINE s == <<x>>
             w == <<>>
  <2>1. Len(s) = 1 /\ s[1] = x /\ Len(w) = 0
    OBVIOUS
  <2> HIDE DEF s, w
  <2>2. Fits(s, w, g2, g2[c])
    BY <2>1, <1>9 DEF Fits, Rising
  <2> QED
    BY <2>2 DEF s, w
<1>13. Ordered(nodes', g2)
  <2> SUFFICES ASSUME NEW j \in DOMAIN nodes' PROVE Fits(nodes'[j].slots, nodes'[j].kids, g2, g2[j])
    BY DEF Ordered
  <2>1. CASE j = id
    BY <2>1, <1>5, <1>11 DEF Looks
  <2>2. CASE j = c
    BY <2>2, <1>5, <1>12 DEF Looks
  <2>3. CASE j \in DOMAIN nodes \ {id}
    BY <2>3, <1>5, <1>10 DEF Looks, Others
  <2> QED
    BY <2>1, <2>2, <2>3, <1>5
<1> QED
  BY <1>2, <1>13, Settled

\* The halves of an overfull node at which a call is.
HalfReady(g, S2, LK, UK) ==
    /\ Ordered(nodes, g) /\ DOMAIN nodes \subseteq IDs /\ call.node \in DOMAIN nodes
    /\ \A p \in DOMAIN nodes : KidsAt(nodes[p].kids, DOMAIN nodes)
    /\ S2[Half + 1] \in Items /\ KidsAt(LK, DOMAIN nodes) /\ KidsAt(UK, DOMAIN nodes)
    /\ HalvesFit(LowerSlots(S2), LK, UpperSlots(S2), UK, g, g[call.node], KeyOf[S2[Half + 1]])

\* The root breaks in two.
LEMMA BrokenOrder ==
  ASSUME NEW g \in Ranges, NEW S2, NEW LK, NEW UK, HalfReady(g, S2, LK, UK), Broken(S2, LK, UK), call' = Added
  PROVE  OrderInv'
<1> DEFINE m == S2[Half + 1]
           L == LowerSlots(S2)
           U == UpperSlots(S2)
           id == call.node
<1>1. PICK l, r \in IDs \ DOMAIN nodes :
        /\ l # r /\ DOMAIN nodes' = DOMAIN nodes \cup {l, r}
        /\ Looks(nodes', id, <<m>>, <<l, r>>)
        /\ Looks(nodes', l, L, LK) /\ Looks(nodes', r, U, UK) /\ Others(id)
  BY DEF Broken
<1>2. Breaks(nodes, nodes', g, id, l, r, L, LK, U, UK, m) /\ Ordered(nodes, g)
  BY <1>1 DEF Breaks, HalfReady, Others
<1> HIDE DEF m, L, U, id
<1>3. \E g2 \in Ranges : Ordered(nodes', g2)
  BY <1>2, BreakOrders
<1> QED
  BY <1>3, Settled

\* An overfull leaf.
LEMMA LeafReady ==
  ASSUME NEW g \in Ranges, AddRanged(g), nodes[call.node].kids = <<>>, Len(Here.slots) = SlotLength
  PROVE  HalfReady(g, TempSlots, <<>>, <<>>)
<1> DEFINE w == <<>>
<1>1. OverfullFacts(call.node, TempSlots, call.item)
  BY OverfullLeaf DEF AddRanged
<1>2. TempSlots \in Seq(Items) /\ Len(TempSlots) = SlotLength + 1 /\ Distinct(TempSlots, Items)
  BY <1>1 DEF OverfullFacts
<1>3. TempSlots[Half + 1] \in Items
  BY <1>2, HalvesOfSlots
<1>4. Fits(TempSlots, w, g, g[call.node]) /\ g[call.node] \in SUBSET Int
  BY LeafFits DEF AddRanged
<1>5. HalvesFit(LowerSlots(TempSlots), w, UpperSlots(TempSlots), w, g, g[call.node], KeyOf[TempSlots[Half + 1]])
  BY <1>2, <1>4, LeafHalvesFit
<1>6. Len(w) = 0
  OBVIOUS
<1> HIDE DEF w
<1>7. KidsAt(w, DOMAIN nodes)
  BY <1>6 DEF KidsAt
<1>8. HalfReady(g, TempSlots, w, w)
  BY <1>3, <1>5, <1>7 DEF HalfReady, AddRanged, AddFacts
<1> QED
  BY <1>8 DEF w

\* The root leaf breaks in two.
LEMMA BreakRootOrder ==
  ASSUME TreeInv, OrderInv, BreakRoot
  PROVE  OrderInv'
<1>1. PICK g \in Ranges : OrderOK(g)
  BY DEF OrderInv
<1>2. call.op = "add" /\ call' = Added /\ nodes[call.node].kids = <<>> /\ Len(Here.slots) = SlotLength
  BY DEF BreakRoot, OnLeaf, HasChildren
<1>3. AddRanged(g)
  BY <1>1, <1>2, AddRange
<1>4. HalfReady(g, TempSlots, <<>>, <<>>)
  BY <1>2, <1>3, LeafReady
<1>5. Broken(TempSlots, <<>>, <<>>)
  BY BreakRootStep
<1> QED
  BY <1>2, <1>4, <1>5, BrokenOrder

\* A node that is about to split is one of its parent's children.
Above(n, id, p, i) ==
    /\ id \in DOMAIN n /\ p \in DOMAIN n /\ p # id
    /\ i + 1 \in 1..Len(n[p].kids) /\ n[p].kids[i + 1] = id /\ id # Nil

\* The invariant says so of a node other than the root.
LEMMA AboveIs ==
  ASSUME TreeInv, call.op \in {"add", "promote"}, ~ IsRootNode(nodes, call.node)
  PROVE  Above(nodes, call.node, nodes[call.node].parent, GetIndexOfChild(nodes, call.node))
<1> DEFINE id == call.node
           p == nodes[id].parent
           pr == Sibling
<1>1. PICK d \in [IDs -> Nat] : Ranked(nodes, root, d)
  BY DEF TreeInv, RankOK
<1>2. Tree(nodes, root, pr)
  BY DEF TreeInv
<1>3. id \in DOMAIN nodes
  BY AddNow, PromoteNow DEF AddFacts, PromoteFacts
<1>4. id # root /\ id \in IDs
  BY <1>2, <1>3, NodeFacts
<1>5. id # pr
  <2>1. CASE call.op = "add"
    BY <2>1, <1>4, IDsAre DEF Sibling
  <2>2. CASE call.op = "promote"
    <3>1. call.right \in DOMAIN nodes /\ call.right # root /\ nodes[call.right].parent = id
      BY <2>2, PromoteNow DEF PromoteFacts
    <3>2. d[id] < d[call.right] /\ d[id] \in Nat
      BY <3>1, <1>1, <1>4 DEF Ranked
    <3>3. id # call.right
      BY <3>2
    <3> QED
      BY <3>3, <2>2 DEF Sibling
  <2> QED
    BY <2>1, <2>2
<1>6. p # id
  <2>1. d[p] < d[id] /\ d[id] \in Nat
    BY <1>1, <1>3, <1>4 DEF Ranked
  <2> QED
    BY <2>1
<1> HIDE DEF pr
<1>7. p \in DOMAIN nodes /\ GetIndexOfChild(nodes, id) + 1 \in 1..Len(nodes[p].kids) /\ nodes[p].kids[GetIndexOfChild(nodes, id) + 1] = id
  BY <1>2, <1>3, <1>4, <1>5, GetIndexIs
<1> QED
  BY <1>3, <1>4, <1>6, <1>7, IDsAre DEF Above

\* A node splits, and its separator goes up between the halves.
LEMMA DividedOrder ==
  ASSUME NEW g \in Ranges, NEW S2, NEW LK, NEW UK, HalfReady(g, S2, LK, UK), Divided(S2, LK, UK),
         Above(nodes, call.node, nodes[call.node].parent, GetIndexOfChild(nodes, call.node))
  PROVE  OrderInv'
<1>0. PICK id, p, i, m, L, U :
        /\ id = call.node /\ p = nodes[id].parent /\ i = GetIndexOfChild(nodes, id)
        /\ m = S2[Half + 1] /\ L = LowerSlots(S2) /\ U = UpperSlots(S2)
  OBVIOUS
<1>1. PICK r \in IDs \ DOMAIN nodes :
        /\ DOMAIN nodes' = DOMAIN nodes \cup {r}
        /\ Looks(nodes', id, L, LK) /\ Looks(nodes', r, U, UK) /\ Others(id)
        /\ call' = [op |-> "promote", node |-> p, index |-> i, item |-> m, left |-> id, right |-> r]
  BY <1>0 DEF Divided
<1>2. Splits(nodes, nodes', g, id, r, L, LK, U, UK, m) /\ Ordered(nodes, g)
  BY <1>0, <1>1 DEF Splits, HalfReady, Others
<1>3. SplitRanges(g, id, r, KeyOf[m]) \in Ranges /\ Ordered(nodes', SplitRanges(g, id, r, KeyOf[m]))
  BY <1>2, SplitOrders
<1>4. PICK g2 \in Ranges : g2 = SplitRanges(g, id, r, KeyOf[m]) /\ Ordered(nodes', g2)
  BY <1>3
<1>5. /\ id \in DOMAIN nodes /\ p \in DOMAIN nodes /\ p # id /\ id # Nil /\ DOMAIN nodes \subseteq IDs
      /\ i + 1 \in 1..Len(nodes[p].kids) /\ nodes[p].kids[i + 1] = id
  BY <1>0 DEF Above, HalfReady
<1>6. \A w \in g[id] : w \in g[p] /\ Between(nodes[p].slots, i + 1, w)
  BY <1>2, <1>5 DEF Ordered, Fits
<1>7. g2[p] = g[p] /\ g2[id] = NotAbove(g[id], KeyOf[m]) /\ g2[r] = NotBelow(g[id], KeyOf[m])
  BY <1>1, <1>4, <1>5 DEF SplitRanges
<1>8. nodes'[p].slots = nodes[p].slots
  BY <1>1, <1>5 DEF Others, Looks
<1>9. KeyOf[m] \in g[id]
  BY <1>2 DEF Splits, HalvesFit
<1>10. /\ call'.op = "promote" /\ call'.node = p /\ call'.index = i /\ call'.item = m
       /\ call'.left = id /\ call'.right = r
  BY <1>1
<1>11. UpOK(g2)'
  <2>1. KeyOf[m] \in g2[p] /\ Between(nodes'[p].slots, i + 1, KeyOf[m])
    BY <1>6, <1>7, <1>8, <1>9
  <2>2. \A w \in g2[id] : w <= KeyOf[m]
    BY <1>7 DEF NotAbove
  <2>3. \A w \in g2[r] : w \in g2[p] /\ Between(nodes'[p].slots, i + 1, w) /\ KeyOf[m] <= w
    BY <1>6, <1>7, <1>8 DEF NotBelow
  <2> QED
    BY <2>1, <2>2, <2>3, <1>10 DEF UpOK
<1>12. AddOK(g2)' /\ DownOK(g2)'
  BY <1>10 DEF AddOK, DownOK
<1> QED
  BY <1>4, <1>11, <1>12 DEF OrderInv, OrderOK

\* A leaf splits.
LEMMA SplitLeafOrder ==
  ASSUME TreeInv, OrderInv, SplitLeaf
  PROVE  OrderInv'
<1>1. PICK g \in Ranges : OrderOK(g)
  BY DEF OrderInv
<1>2. /\ call.op = "add" /\ nodes[call.node].kids = <<>> /\ Len(Here.slots) = SlotLength
      /\ ~ IsRootNode(nodes, call.node)
  BY DEF SplitLeaf, OnLeaf, HasChildren
<1>3. AddRanged(g)
  BY <1>1, <1>2, AddRange
<1>4. HalfReady(g, TempSlots, <<>>, <<>>)
  BY <1>2, <1>3, LeafReady
<1>5. Divided(TempSlots, <<>>, <<>>)
  BY SplitLeafStep
<1>6. Above(nodes, call.node, nodes[call.node].parent, GetIndexOfChild(nodes, call.node))
  BY <1>2, AboveIs
<1> QED
  BY <1>4, <1>5, <1>6, DividedOrder

\* What holds at a node a separator is on its way up to.
UpRanged(g) ==
    /\ PromoteFacts /\ Ordered(nodes, g) /\ DOMAIN nodes \subseteq IDs
    /\ \A p \in DOMAIN nodes : KidsAt(nodes[p].kids, DOMAIN nodes)
    /\ g[call.node] \in SUBSET Int
    /\ Fits(nodes[call.node].slots, nodes[call.node].kids, g, g[call.node])
    /\ KeyOf[call.item] \in g[call.node]
    /\ Between(nodes[call.node].slots, call.index + 1, KeyOf[call.item])
    /\ \A v \in g[call.left] : v <= KeyOf[call.item]
    /\ \A v \in g[call.right] :
         v \in g[call.node] /\ Between(nodes[call.node].slots, call.index + 1, v) /\ KeyOf[call.item] <= v

\* It follows from the invariant.
LEMMA UpRange ==
  ASSUME TreeInv, call.op = "promote", NEW g \in Ranges, OrderOK(g)
  PROVE  UpRanged(g)
<1>1. PromoteFacts
  BY PromoteNow
<1>2. Tree(nodes, root, call.right) /\ call.node \in DOMAIN nodes /\ call.node \in IDs
  BY <1>1 DEF PromoteFacts
<1>3. Ordered(nodes, g) /\ Fits(nodes[call.node].slots, nodes[call.node].kids, g, g[call.node])
  BY <1>2 DEF OrderOK, Ordered
<1>4. DOMAIN nodes \subseteq IDs /\ \A p \in DOMAIN nodes : KidsAt(nodes[p].kids, DOMAIN nodes)
  BY <1>2, KidsAreNodes DEF Tree, Shape
<1>5. g[call.node] \in SUBSET Int
  BY <1>2 DEF Ranges
<1>6. UpOK(g)
  BY DEF OrderOK
<1> QED
  BY <1>1, <1>3, <1>4, <1>5, <1>6 DEF UpRanged, UpOK

\* The separator among the slots, and the sibling among the children.
LEMMA PromotedFits ==
  ASSUME NEW g, UpRanged(g)
  PROVE  Fits(WithItem, WithKids, g, g[call.node])
<1>0. PICK id, s, K, G, x, i, l, r, K1 :
        /\ id = call.node /\ s = nodes[id].slots /\ K = nodes[id].kids /\ G = g[id] /\ x = call.item
        /\ i = call.index + 1 /\ l = call.left /\ r = call.right /\ K1 = ReplaceAt(K, i, l)
  OBVIOUS
<1>1. /\ s \in Seq(Items) /\ Len(s) \in Nat /\ K \in Seq(IDs \cup {Nil}) /\ Len(K) = Len(s) + 1
      /\ DOMAIN K = 1..Len(K)
      /\ x \in Items /\ r \in IDs /\ G \in SUBSET Int /\ Fits(s, K, g, G)
  <2>1. /\ Tree(nodes, root, r) /\ id \in DOMAIN nodes /\ DOMAIN nodes \subseteq IDs /\ K # <<>>
        /\ x \in Items /\ r \in DOMAIN nodes
    BY <1>0 DEF UpRanged, PromoteFacts, Here
  <2>2. G \in SUBSET Int /\ Fits(s, K, g, G)
    BY <1>0 DEF UpRanged
  <2>3. /\ s \in Seq(Items) /\ Len(s) \in Nat /\ K \in Seq(IDs \cup {Nil}) /\ DOMAIN K = 1..Len(K)
        /\ K # <<>> => Len(K) = Len(s) + 1
    <3>1. /\ nodes[id].slots \in Seq(Items) /\ Len(nodes[id].slots) \in Nat
          /\ nodes[id].kids \in Seq(IDs \cup {Nil}) /\ DOMAIN nodes[id].kids = 1..Len(nodes[id].kids)
          /\ nodes[id].kids # <<>> => Len(nodes[id].kids) = Len(nodes[id].slots) + 1
      BY <2>1, NodeFacts
    <3> QED
      BY <3>1, <1>0, Zenon
  <2> QED
    BY <2>1, <2>2, <2>3
<1>2. /\ i \in 1..Len(s) + 1 /\ K[i] = l
      /\ KeyOf[x] \in G /\ Between(s, i, KeyOf[x])
      /\ \A v \in g[l] : v <= KeyOf[x]
      /\ \A v \in g[r] : v \in G /\ Between(s, i, v) /\ KeyOf[x] <= v
  BY <1>0, <1>1 DEF UpRanged, PromoteFacts, Here
<1>3. K1 = K
  BY <1>0, <1>1, <1>2 DEF ReplaceAt
<1>4. WithItem = InsertAt(s, i, x) /\ WithKids = InsertAt(K, i + 1, r)
  <2>1. call.index \in Nat
    BY <1>0, <1>1 DEF UpRanged, PromoteFacts, Here
  <2>2. call.index + 2 = i + 1
    BY <2>1, <1>0
  <2>3. WithKids = InsertAt(K1, call.index + 2, r)
    BY <1>0 DEF WithKids, Here
  <2> QED
    BY <2>2, <2>3, <1>0, <1>3 DEF WithItem, Here
<1>5. InsertGives(WithItem, s, i, x, Items)
  BY <1>1, <1>2, <1>4, InsertAtIs
<1>6. InsertGives(WithKids, K, i + 1, r, IDs \cup {Nil})
  <2>1. r \in IDs \cup {Nil} /\ i + 1 \in 1..Len(K) + 1
    BY <1>1, <1>2
  <2> QED
    BY <2>1, <1>1, <1>4, InsertAtIs
<1>7. Beside(s, WithKids, g, G, i, KeyOf[x])
  <2> SUFFICES ASSUME NEW k \in 1..Len(WithKids), WithKids[k] # Nil, NEW w \in g[WithKids[k]]
               PROVE  /\ w \in G
                      /\ k <= i => Between(s, k, w) /\ w <= KeyOf[x]
                      /\ k > i => Between(s, k - 1, w) /\ KeyOf[x] <= w
    BY DEF Beside
  <2>0. /\ k \in 1..Len(K) + 1 /\ i \in Nat /\ Len(K) \in Nat
        /\ WithKids[k] = IF k < i + 1 THEN K[k] ELSE IF k = i + 1 THEN r ELSE K[k - 1]
    BY <1>1, <1>2, <1>6 DEF InsertGives
  <2>1. CASE k < i
    <3>1. k \in 1..Len(K) /\ WithKids[k] = K[k] /\ k <= i /\ ~ (k > i)
      BY <2>0, <2>1, <1>1, <1>2
    <3>2. w \in G /\ Between(s, k, w)
      BY <3>1, <1>1 DEF Fits
    <3>3. w <= KeyOf[x]
      <4>1. k \in 1..Len(s) /\ k >= k
        BY <2>1, <2>0, <1>1, <1>2
      <4>2. w <= KeyOf[s[k]] /\ KeyOf[s[k]] <= KeyOf[x]
        BY <4>1, <3>2, <2>1, <1>2 DEF Between
      <4>3. w \in Int /\ KeyOf[s[k]] \in Int /\ KeyOf[x] \in Int
        BY <4>1, <3>2, <1>1, <1>2, EmptyIs, KeysAre
      <4> QED
        BY <4>2, <4>3
    <3> QED
      BY <3>1, <3>2, <3>3
  <2>2. CASE k = i
    <3>1. k \in 1..Len(K) /\ WithKids[k] = K[k] /\ k <= i /\ ~ (k > i)
      BY <2>0, <2>2, <1>1, <1>2
    <3>2. w \in G /\ Between(s, k, w)
      BY <3>1, <1>1 DEF Fits
    <3>3. w <= KeyOf[x]
      BY <3>1, <2>2, <1>2
    <3> QED
      BY <3>1, <3>2, <3>3
  <2>3. CASE k = i + 1
    <3>1. WithKids[k] = r /\ ~ (k <= i) /\ k - 1 = i
      BY <2>0, <2>3
    <3> QED
      BY <3>1, <1>2
  <2>4. CASE k > i + 1
    <3>1. k - 1 \in 1..Len(K) /\ WithKids[k] = K[k - 1] /\ ~ (k <= i) /\ i < k - 1
      BY <2>0, <2>4, <1>1, <1>2
    <3>2. w \in G /\ Between(s, k - 1, w)
      BY <3>1, <1>1 DEF Fits
    <3>3. KeyOf[x] <= w
      <4>1. i \in 1..Len(s) /\ i >= i
        BY <2>0, <2>4, <1>1, <1>2
      <4>2. KeyOf[s[i]] <= w /\ KeyOf[x] <= KeyOf[s[i]]
        BY <4>1, <3>1, <3>2, <1>2 DEF Between
      <4>3. w \in Int /\ KeyOf[s[i]] \in Int /\ KeyOf[x] \in Int
        BY <4>1, <3>2, <1>1, <1>2, EmptyIs, KeysAre
      <4> QED
        BY <4>2, <4>3
    <3> QED
      BY <3>1, <3>2, <3>3
  <2> QED
    BY <2>0, <2>1, <2>2, <2>3, <2>4
<1>8. Rising(s) /\ \A j \in 1..Len(s) : KeyOf[s[j]] \in G
  BY <1>1 DEF Fits
<1>9. WithKids \in Seq(IDs \cup {Nil})
  BY <1>6 DEF InsertGives
<1>10. Fits(WithItem, WithKids, g, G)
  BY <1>1, <1>2, <1>5, <1>7, <1>8, <1>9, InsertFits
<1> QED
  BY <1>0, <1>10

\* A node with room takes the separator.
LEMMA PromoteOrder ==
  ASSUME TreeInv, OrderInv, Promote
  PROVE  OrderInv'
<1>1. PICK g \in Ranges : OrderOK(g)
  BY DEF OrderInv
<1>2. call.op = "promote" /\ call' = Added
  BY DEF Promote, Promoting
<1>3. UpRanged(g)
  BY <1>1, <1>2, UpRange
<1>4. Fits(WithItem, WithKids, g, g[call.node])
  BY <1>3, PromotedFits
<1>5. Rewritten(WithItem, WithKids)
  BY PromoteStep
<1>6. Ordered(nodes', g)
  <2>1. Ordered(nodes, g) /\ DOMAIN nodes' \subseteq DOMAIN nodes \cup {call.node}
    BY <1>3, <1>5 DEF UpRanged, Rewritten
  <2>2. Fits(nodes'[call.node].slots, nodes'[call.node].kids, g, g[call.node])
    BY <1>4, <1>5 DEF Rewritten, Looks
  <2>3. \A j \in DOMAIN nodes' \ {call.node} : Looks(nodes', j, nodes[j].slots, nodes[j].kids)
    BY <1>5 DEF Rewritten, Others
  <2> QED
    BY <2>1, <2>2, <2>3, OneOrders
<1> QED
  BY <1>2, <1>6, Settled

\* An overfull inner node.
LEMMA InnerReady ==
  ASSUME NEW g \in Ranges, UpRanged(g), Len(Here.slots) = SlotLength
  PROVE  HalfReady(g, WithItem, LowerKids(WithKids), UpperKids(WithKids))
<1>0. PICK S, K, LK, UK : S = WithItem /\ K = WithKids /\ LK = LowerKids(WithKids) /\ UK = UpperKids(WithKids)
  OBVIOUS
<1>1. PromotedFacts(call.node, S, K, call.item, call.right)
  BY <1>0, PromotedIs DEF UpRanged
<1>2. /\ S \in Seq(Items) /\ Len(S) = SlotLength + 1 /\ Distinct(S, Items)
      /\ K \in Seq(IDs \cup {Nil}) /\ Len(K) = SlotLength + 2
  BY <1>1 DEF PromotedFacts, Here
<1>3. S[Half + 1] \in Items
  BY <1>2, HalvesOfSlots
<1>4. Fits(S, K, g, g[call.node]) /\ g[call.node] \in SUBSET Int
  BY <1>0, PromotedFits DEF UpRanged
<1>5. HalvesFit(LowerSlots(S), LK, UpperSlots(S), UK, g, g[call.node], KeyOf[S[Half + 1]])
  BY <1>0, <1>2, <1>4, InnerHalvesFit
<1>6. KidsAt(LK, DOMAIN nodes) /\ KidsAt(UK, DOMAIN nodes)
  <2>1. FullFacts(call.node, call.item, call.right, LowerSlots(WithItem), UpperSlots(WithItem),
                  WithItem[Half + 1], LK, UK)
    BY <1>0, FullNow DEF UpRanged
  <2>2. /\ LK \in Seq(IDs \cup {Nil}) /\ UK \in Seq(IDs \cup {Nil})
        /\ Elems(LK, IDs) \subseteq DOMAIN nodes /\ Elems(UK, IDs) \subseteq DOMAIN nodes
    BY <2>1 DEF FullFacts, InnerFacts
  <2>3. ASSUME NEW Z \in Seq(IDs \cup {Nil}), Elems(Z, IDs) \subseteq DOMAIN nodes
        PROVE  KidsAt(Z, DOMAIN nodes)
    <3>1. DOMAIN Z = 1..Len(Z) /\ \A k \in 1..Len(Z) : Z[k] \in IDs \cup {Nil}
      BY EmptyIs
    <3> QED
      BY <3>1, <2>3 DEF KidsAt, Elems
  <2> QED
    BY <2>2, <2>3
<1>7. HalfReady(g, S, LK, UK)
  BY <1>3, <1>5, <1>6 DEF HalfReady, UpRanged, PromoteFacts
<1> QED
  BY <1>0, <1>7

\* A full root takes the separator and breaks in two.
LEMMA PromoteBreakRootOrder ==
  ASSUME TreeInv, OrderInv, PromoteBreakRoot
  PROVE  OrderInv'
<1>1. PICK g \in Ranges : OrderOK(g)
  BY DEF OrderInv
<1>2. call.op = "promote" /\ call' = Added /\ Len(Here.slots) = SlotLength
  BY DEF PromoteBreakRoot, Promoting
<1>3. UpRanged(g)
  BY <1>1, <1>2, UpRange
<1>4. HalfReady(g, WithItem, LowerKids(WithKids), UpperKids(WithKids))
  BY <1>2, <1>3, InnerReady
<1>5. Broken(WithItem, LowerKids(WithKids), UpperKids(WithKids))
  BY PromoteBreakRootStep
<1> QED
  BY <1>2, <1>4, <1>5, BrokenOrder

\* A full node takes the separator, splits, and sends its own up.
LEMMA PromoteSplitOrder ==
  ASSUME TreeInv, OrderInv, PromoteSplit
  PROVE  OrderInv'
<1>1. PICK g \in Ranges : OrderOK(g)
  BY DEF OrderInv
<1>2. call.op = "promote" /\ Len(Here.slots) = SlotLength /\ ~ IsRootNode(nodes, call.node)
  BY DEF PromoteSplit, Promoting
<1>3. UpRanged(g)
  BY <1>1, <1>2, UpRange
<1>4. HalfReady(g, WithItem, LowerKids(WithKids), UpperKids(WithKids))
  BY <1>2, <1>3, InnerReady
<1>5. Divided(WithItem, LowerKids(WithKids), UpperKids(WithKids))
  BY PromoteSplitStep
<1>6. Above(nodes, call.node, nodes[call.node].parent, GetIndexOfChild(nodes, call.node))
  BY <1>2, AboveIs
<1> QED
  BY <1>4, <1>5, <1>6, DividedOrder

\* Calls that end without a change of the nodes.
LEMMA ReturnsOrder ==
  ASSUME OrderInv, AddRefused \/ AddReturns \/ RemoveReturns
  PROVE  OrderInv'
<1>1. nodes' = nodes /\ call' = Idle
  BY DEF AddRefused, AddReturns, RemoveReturns
<1>2. PICK g \in Ranges : Ordered(nodes, g)
  BY DEF OrderInv, OrderOK
<1>3. Ordered(nodes', g)
  BY <1>1, <1>2
<1> QED
  BY <1>1, <1>3, Settled

\* An item on a leaf or beside a pruned child goes.
LEMMA RemoveCurrentItemOrder ==
  ASSUME TreeInv, OrderInv, NEW id \in DOMAIN nodes, NEW k \in 0..Count(nodes, id) - 1, RemoveCurrentItem(id, k)
  PROVE  OrderInv'
<1> DEFINE t2 == RemoveSlot(Rec(nodes, saved), id, k)
<1>1. /\ call = Idle /\ call' = Removed /\ nodes' = t2.n
      /\ HasChildren(nodes, id) => HasNilChildAt(nodes, id, k)
  BY DEF RemoveCurrentItem, Becomes, Working, Rec
<1>2. Sibling = Nil
  BY <1>1 DEF Sibling, Idle
<1>3. Tree(nodes, root, Nil)
  BY <1>2 DEF TreeInv
<1>4. PICK d \in [IDs -> Nat] : Ranked(nodes, root, d)
  BY DEF TreeInv, RankOK
<1>5. k \in 0..Len(nodes[id].slots) - 1
  BY DEF Count
<1>6. RemovalOK(nodes, saved, t2, root, id, k)
  BY <1>1, <1>3, <1>4, <1>5, RemoveSlotTakes
<1> HIDE DEF t2
<1>7. Reshaped(nodes, nodes', root, id, k)
  BY <1>1, <1>6 DEF RemovalOK
<1>8. PICK g \in Ranges : Ordered(nodes, g)
  BY DEF OrderInv, OrderOK
<1>9. nodes[id].kids # <<>> => HasNilChildAt(nodes, id, k)
  BY <1>1 DEF HasChildren
<1>10. Ordered(nodes', g)
  BY <1>3, <1>5, <1>7, <1>8, <1>9, RemovalOrders
<1> QED
  BY <1>1, <1>10, Settled

\* A call that goes on its way to the next item, by the nodes P.
LEMMA GoesOn ==
  ASSUME NEW g \in Ranges, Ordered(nodes, g), nodes' = nodes, call'.op = "next", NEW P \in SUBSET IDs, Way(g, P)'
  PROVE  OrderInv'
<1>1. AddOK(g)' /\ UpOK(g)' /\ DownOK(g)'
  BY DEF AddOK, UpOK, DownOK
<1>2. Ordered(nodes', g)
  OBVIOUS
<1> QED
  BY <1>1, <1>2 DEF OrderInv, OrderOK

\* An item between two children: the call starts at the child behind it.
LEMMA RemoveBetweenChildrenOrder ==
  ASSUME TreeInv, OrderInv, NEW id \in DOMAIN nodes, NEW k \in 0..Count(nodes, id) - 1, RemoveBetweenChildren(id, k)
  PROVE  OrderInv'
<1>0. PICK c : c = nodes[id].kids[k + 2]
  OBVIOUS
<1>1. /\ call = Idle /\ nodes' = nodes /\ nodes[id].kids # <<>> /\ c # Nil
      /\ call' = [op |-> "next", home |-> id, slot |-> k, node |-> c]
  BY <1>0 DEF RemoveBetweenChildren, HasChildren, HasNilChildAt
<1>2. Sibling = Nil
  BY <1>1 DEF Sibling, Idle
<1>3. Tree(nodes, root, Nil)
  BY <1>2 DEF TreeInv
<1>4. PICK d \in [IDs -> Nat] : Ranked(nodes, root, d)
  BY DEF TreeInv, RankOK
<1>5. c \in DOMAIN nodes /\ c # root /\ nodes[c].parent = id
  <2>1. Len(nodes[id].slots) \in Nat
    BY <1>3, NodeFacts
  <2>2. k + 2 \in 1..Len(nodes[id].slots) + 1
    BY <2>1 DEF Count
  <2>3. PICK q \in 1..Len(nodes[id].slots) + 1 : q = k + 2
    BY <2>2
  <2> QED
    BY <2>3, <1>0, <1>1, <1>3, ChildIs
<1>6. c # id /\ DOMAIN nodes \subseteq IDs
  <2>1. DOMAIN nodes \subseteq IDs
    BY <1>3 DEF Tree, Shape
  <2>2. d[id] < d[c] /\ d[id] \in Nat
    BY <2>1, <1>4, <1>5 DEF Ranked
  <2> QED
    BY <2>1, <2>2
<1>7. PICK g \in Ranges : Ordered(nodes, g)
  BY DEF OrderInv, OrderOK
<1>8. call'.op = "next" /\ call'.home = id /\ call'.slot = k /\ call'.node = c
  BY <1>1
<1>9. PICK P \in SUBSET IDs : P = {c}
  BY <1>5, <1>6
<1>10. Way(g, P)'
  BY <1>0, <1>1, <1>5, <1>6, <1>8, <1>9 DEF Way
<1> QED
  BY <1>1, <1>7, <1>8, <1>10, GoesOn

\* Further down, to the first child.
LEMMA NextBelowOrder ==
  ASSUME TreeInv, OrderInv, NextBelow
  PROVE  OrderInv'
<1>0. PICK c, id, home : c = nodes[call.node].kids[1] /\ id = call.node /\ home = call.home
  OBVIOUS
<1>1. /\ nodes' = nodes /\ call' = [call EXCEPT !.node = c] /\ call.op = "next"
      /\ nodes[id].kids # <<>> /\ c # Nil
  BY <1>0 DEF NextBelow, HasChildren, Here
<1>2. PICK d : NextFacts(d)
  BY <1>1, NextNow
<1>3. /\ Tree(nodes, root, Nil) /\ id \in DOMAIN nodes /\ home \in DOMAIN nodes /\ d \in [IDs -> Nat]
      /\ Ranked(nodes, root, d) /\ d[home] < d[id] /\ DOMAIN nodes \subseteq IDs
  BY <1>0, <1>2 DEF NextFacts, Tree, Shape
<1>4. Len(nodes[id].slots) \in Nat /\ Len(nodes[id].kids) = Len(nodes[id].slots) + 1
  BY <1>1, <1>3, NodeFacts
<1>5. c \in DOMAIN nodes /\ c # root /\ nodes[c].parent = id
  <2>1. PICK q \in 1..Len(nodes[id].slots) + 1 : q = 1
    BY <1>4
  <2> QED
    BY <2>1, <1>0, <1>1, <1>3, ChildIs
<1>6. c # home /\ c # id
  <2>1. d[id] < d[c]
    BY <1>3, <1>5 DEF Ranked
  <2>2. d[home] \in Nat /\ d[id] \in Nat /\ d[c] \in Nat
    BY <1>3, <1>5
  <2> QED
    BY <2>1, <2>2, <1>3
<1>7. PICK g \in Ranges : OrderOK(g)
  BY DEF OrderInv
<1>8. Ordered(nodes, g) /\ \E P \in SUBSET IDs : Way(g, P)
  BY <1>1, <1>7 DEF OrderOK, DownOK
<1>9. PICK P \in SUBSET IDs : Way(g, P)
  BY <1>8
<1>10. /\ call'.op = "next" /\ call'.home = home /\ call'.slot = call.slot /\ call'.node = c
  BY <1>0, <1>1, <1>2 DEF NextFacts
<1>11. Fits(nodes[id].slots, nodes[id].kids, g, g[id])
  BY <1>3, <1>8 DEF Ordered
<1>12. \A w \in g[c] : w \in g[id] /\ \A j \in 1..Len(nodes[id].slots) : w <= KeyOf[nodes[id].slots[j]]
  <2>1. PICK q \in 1..Len(nodes[id].kids) : q = 1
    BY <1>4
  <2>2. \A w \in g[c] : w \in g[id] /\ Between(nodes[id].slots, q, w)
    BY <2>1, <1>0, <1>1, <1>11 DEF Fits
  <2>3. \A j \in 1..Len(nodes[id].slots) : j >= q
    BY <2>1
  <2> QED
    BY <2>2, <2>3 DEF Between
<1>13. PICK P2 \in SUBSET IDs : P2 = P \cup {c}
  BY <1>3, <1>5
<1>14. /\ P \in SUBSET DOMAIN nodes /\ id \in P /\ home \notin P
       /\ nodes[home].kids # <<>> /\ nodes[home].kids[call.slot + 2] \in P
       /\ g[id] \subseteq g[nodes[home].kids[call.slot + 2]]
       /\ \A p \in P \ {id} :
            /\ nodes[p].kids # <<>> /\ nodes[p].kids[1] \in P
            /\ \A v \in g[id] : \A j \in 1..Len(nodes[p].slots) : v <= KeyOf[nodes[p].slots[j]]
  BY <1>0, <1>9 DEF Way
<1>15. \A p \in P2 \ {c} :
            /\ nodes[p].kids # <<>> /\ nodes[p].kids[1] \in P2
            /\ \A v \in g[c] : \A j \in 1..Len(nodes[p].slots) : v <= KeyOf[nodes[p].slots[j]]
  <2> SUFFICES ASSUME NEW p \in P2 \ {c}
               PROVE  /\ nodes[p].kids # <<>> /\ nodes[p].kids[1] \in P2
                      /\ \A v \in g[c] : \A j \in 1..Len(nodes[p].slots) : v <= KeyOf[nodes[p].slots[j]]
    OBVIOUS
  <2>1. CASE p = id
    BY <2>1, <1>0, <1>1, <1>12, <1>13
  <2>2. CASE p # id
    BY <2>2, <1>12, <1>13, <1>14
  <2> QED
    BY <2>1, <2>2
<1>16. P2 \in SUBSET DOMAIN nodes /\ c \in P2 /\ home \notin P2 /\ nodes[home].kids[call.slot + 2] \in P2
  BY <1>5, <1>6, <1>13, <1>14
<1>17. g[c] \subseteq g[nodes[home].kids[call.slot + 2]]
  BY <1>12, <1>14
<1>18. Way(g, P2)'
  BY <1>1, <1>10, <1>14, <1>15, <1>16, <1>17 DEF Way
<1> QED
  BY <1>1, <1>8, <1>10, <1>18, GoesOn

\* The next item in place of the removed one: what is on the way to it is not below it.
OnWay(n, g, home, i, id, P) ==
    /\ P \in SUBSET DOMAIN n /\ id \in P /\ home \notin P /\ home \in DOMAIN n /\ DOMAIN n \subseteq IDs
    /\ n[home].kids # <<>> /\ n[home].kids[i + 1] \in P /\ i \in 1..Len(n[home].slots)
    /\ g[id] \subseteq g[n[home].kids[i + 1]]
    /\ n[id].kids # <<>> => n[id].kids[1] = Nil
    /\ 1 \in 1..Len(n[id].slots)
    /\ \A p \in P \ {id} :
         /\ n[p].kids # <<>> /\ n[p].kids[1] \in P
         /\ \A v \in g[id] : \A j \in 1..Len(n[p].slots) : v <= KeyOf[n[p].slots[j]]

\* The ranges on the way are cut below the key of the next item, and fit.
LEMMA NextTakesPlace ==
  ASSUME NEW n, NEW rt, Tree(n, rt, Nil), NEW g \in Ranges, Ordered(n, g), NEW home, NEW i, NEW id, NEW P,
         OnWay(n, g, home, i, id, P)
  PROVE  \E g2 \in Ranges : Ordered(Overwritten(n, home, i, n[id].slots[1]), g2)
<1> USE DEF OnWay
<1>0. PICK y, v, n1 : y = n[id].slots[1] /\ v = KeyOf[y] /\ n1 = Overwritten(n, home, i, y)
  OBVIOUS
<1>1. id \in DOMAIN n /\ \A j \in P : j \in DOMAIN n /\ j \in IDs
  OBVIOUS
<1>2. y \in Items /\ v \in Int /\ v \in g[id]
  <2>1. y \in Items
    BY <1>0, <1>1, NodeFacts
  <2>2. Fits(n[id].slots, n[id].kids, g, g[id])
    BY <1>1 DEF Ordered
  <2> QED
    BY <2>1, <2>2, <1>0, KeysAre DEF Fits
<1>3. PICK g2 \in Ranges : \A j \in IDs : g2[j] = IF j \in P THEN NotBelow(g[j], v) ELSE g[j]
  <2> DEFINE h == [j \in IDs |-> IF j \in P THEN NotBelow(g[j], v) ELSE g[j]]
  <2>1. h \in Ranges
    BY DEF Ranges, NotBelow
  <2>2. \A j \in IDs : h[j] = IF j \in P THEN NotBelow(g[j], v) ELSE g[j]
    OBVIOUS
  <2> HIDE DEF h
  <2> QED
    BY <2>1, <2>2
<1>4. \A j \in IDs : g2[j] \subseteq g[j]
  BY <1>3 DEF NotBelow
<1>5. \A p \in DOMAIN n : \A k \in 1..Len(n[p].kids) : n[p].kids[k] # Nil => n[p].kids[k] \in DOMAIN n
  BY KidsAreNodes DEF KidsAt
<1>6. \A p \in DOMAIN n : \A k \in 1..Len(n[p].kids) : n[p].kids[k] # Nil => g2[n[p].kids[k]] \subseteq g[n[p].kids[k]]
  BY <1>4, <1>5
<1>7. ASSUME NEW p \in DOMAIN n \ P
      PROVE  Fits(n[p].slots, n[p].kids, g2, g2[p])
  <2>1. Fits(n[p].slots, n[p].kids, g, g[p]) /\ g[p] \subseteq g2[p]
    BY <1>3 DEF Ordered
  <2> QED
    BY <2>1, <1>6, FitsStill
<1>8. ASSUME NEW p \in P
      PROVE  Fits(n[p].slots, n[p].kids, g2, g2[p])
  <2>0. PICK s, K, G : s = n[p].slots /\ K = n[p].kids /\ G = g[p]
    OBVIOUS
  <2>1. Fits(s, K, g, G) /\ p \in DOMAIN n /\ g2[p] = NotBelow(G, v) /\ G \in SUBSET Int
    BY <2>0, <1>1, <1>3 DEF Ordered, Ranges
  <2>2. /\ Len(s) \in Nat /\ \A j \in 1..Len(s) : s[j] \in Items
        /\ Len(K) \in Nat /\ (K # <<>> => Len(K) = Len(s) + 1) /\ (K = <<>> => Len(K) = 0)
    BY <2>0, <2>1, NodeFacts
  <2>3. \A j \in 1..Len(s) : v <= KeyOf[s[j]]
    <3>1. CASE p = id
      <4> SUFFICES ASSUME NEW j \in 1..Len(s) PROVE v <= KeyOf[s[j]]
        OBVIOUS
      <4>1. CASE j = 1
        BY <4>1, <3>1, <2>0, <1>0, <1>2
      <4>2. CASE j # 1
        <5>1. 1 < j /\ 1 \in 1..Len(s) /\ s[1] = y
          BY <4>2, <3>1, <2>0, <2>2, <1>0
        <5> QED
          BY <5>1, <2>1, <1>0 DEF Fits, Rising
      <4> QED
        BY <4>1, <4>2
    <3>2. CASE p # id
      BY <3>2, <2>0, <1>2
    <3> QED
      BY <3>1, <3>2
  <2>4. ASSUME NEW k \in 1..Len(K), K[k] # Nil, NEW w \in g2[K[k]]
        PROVE  w \in NotBelow(G, v) /\ Between(s, k, w)
    <3>1. K[k] \in DOMAIN n /\ K[k] \in IDs
      BY <2>0, <2>1, <2>4, <1>5
    <3>2. w \in g[K[k]]
      BY <3>1, <2>4, <1>4
    <3>3. w \in G /\ Between(s, k, w)
      BY <3>2, <2>1, <2>4 DEF Fits
    <3>4. v <= w
      <4>1. CASE k = 1
        <5>1. K # <<>>
          BY <2>2
        <5>2. K[1] \in P
          BY <5>1, <4>1, <2>0, <2>4
        <5>3. w \in NotBelow(g[K[1]], v)
          BY <5>2, <4>1, <3>1, <2>4, <1>3
        <5> QED
          BY <5>3 DEF NotBelow
      <4>2. CASE k # 1
        <5>1. PICK j \in 1..Len(s) : j = k - 1 /\ j < k
          BY <4>2, <2>2
        <5>2. v <= KeyOf[s[j]] /\ KeyOf[s[j]] <= w
          BY <5>1, <3>3, <2>3 DEF Between
        <5>3. KeyOf[s[j]] \in Int /\ w \in Int
          BY <2>1, <2>2, <3>3, KeysAre
        <5> QED
          BY <5>2, <5>3, <1>2
      <4> QED
        BY <4>1, <4>2
    <3> QED
      BY <3>3, <3>4 DEF NotBelow
  <2>5. Rising(s) /\ \A j \in 1..Len(s) : KeyOf[s[j]] \in NotBelow(G, v)
    BY <2>1, <2>3 DEF Fits, NotBelow
  <2>6. Fits(s, K, g2, NotBelow(G, v))
    BY <2>4, <2>5 DEF Fits
  <2> QED
    BY <2>0, <2>1, <2>6
<1>9. Fits([n[home].slots EXCEPT ![i] = y], n[home].kids, g2, g2[home])
  <2>0. PICK s, K, G : s = n[home].slots /\ K = n[home].kids /\ G = g[home]
    OBVIOUS
  <2>1. /\ s \in Seq(Items) /\ Len(s) \in Nat /\ Len(K) = Len(s) + 1 /\ Fits(s, K, g, G) /\ i \in 1..Len(s)
        /\ G \in SUBSET Int /\ g2[home] = G
    BY <2>0, <1>3, NodeFacts DEF Ordered, Ranges
  <2>2. i + 1 \in 1..Len(K) /\ K[i + 1] \in P /\ K[i + 1] \in IDs /\ K[i + 1] # Nil
    BY <2>0, <2>1, <1>1, IDsAre
  <2>3. v \in G /\ Between(s, i + 1, v)
    BY <2>0, <2>1, <2>2, <1>2 DEF Fits
  <2>4. \A w \in g2[K[i + 1]] : v <= w
    BY <2>2, <1>3 DEF NotBelow
  <2>5. \A k \in 1..Len(K) : K[k] # Nil => g2[K[k]] \subseteq g[K[k]]
    BY <2>0, <1>6
  <2>6. KeyOf[y] \in G /\ Between(s, i + 1, KeyOf[y]) /\ (K[i + 1] # Nil => \A w \in g2[K[i + 1]] : KeyOf[y] <= w)
    BY <2>3, <2>4, <1>0
  <2>7. Fits([s EXCEPT ![i] = y], K, g2, G)
    BY <2>1, <2>5, <2>6, <1>2, OverwriteFits
  <2> QED
    BY <2>0, <2>1, <2>7
<1>10. /\ DOMAIN n1 = DOMAIN n /\ Looks(n1, home, [n[home].slots EXCEPT ![i] = y], n[home].kids)
       /\ \A j \in DOMAIN n \ {home} : n1[j] = n[j]
  <2>1. n[home] \in [parent : IDs \cup {Nil}, slots : Seq(Items), kids : Seq(IDs \cup {Nil})]
    BY NodeFacts DEF NodeOK
  <2>2. n1[home] = [n[home] EXCEPT !.slots[i] = y] /\ DOMAIN n1 = DOMAIN n /\ \A j \in DOMAIN n \ {home} : n1[j] = n[j]
    BY <1>0 DEF Overwritten, With
  <2> QED
    BY <2>1, <2>2 DEF Looks
<1>11. Ordered(n1, g2)
  <2> SUFFICES ASSUME NEW j \in DOMAIN n1 PROVE Fits(n1[j].slots, n1[j].kids, g2, g2[j])
    BY DEF Ordered
  <2>1. CASE j = home
    BY <2>1, <1>9, <1>10 DEF Looks
  <2>2. CASE j # home
    BY <2>2, <1>7, <1>8, <1>10
  <2> QED
    BY <2>1, <2>2
<1> QED
  BY <1>0, <1>11

\* The next item replaces the removed one and leaves its own place.
LEMMA RemoveNextOrder ==
  ASSUME TreeInv, OrderInv, RemoveNext
  PROVE  OrderInv'
<1>0. PICK home, id, i, y, n1, sv, t2 :
        /\ home = call.home /\ id = call.node /\ i = call.slot + 1 /\ y = nodes[id].slots[1]
        /\ n1 = Overwritten(nodes, home, i, y) /\ sv = saved \cup {home} /\ t2 = RemoveSlot(Rec(n1, sv), id, 0)
  OBVIOUS
<1>1. call.op = "next" /\ call' = Removed /\ nodes' = t2.n /\ (nodes[id].kids # <<>> => nodes[id].kids[1] = Nil)
  <2>1. SaveNode(Working, home, [nodes[home] EXCEPT !.slots[i] = y]) = Rec(n1, sv)
    BY <1>0 DEF SaveNode, Working, Rec, Overwritten
  <2> QED
    BY <2>1, <1>0 DEF RemoveNext, Becomes, Here, HasChildren
<1>2. PICK d : NextFacts(d)
  BY <1>1, NextNow
<1>3. /\ Tree(nodes, root, Nil) /\ Apart(nodes) /\ DOMAIN nodes \subseteq IDs
      /\ home \in DOMAIN nodes /\ id \in DOMAIN nodes /\ id # root
      /\ d \in [IDs -> Nat] /\ Ranked(nodes, root, d) /\ d[home] < d[id]
      /\ call.slot \in 0..Len(nodes[home].slots) - 1
  BY <1>0, <1>2 DEF NextFacts, Tree, Shape
<1>4. /\ Len(nodes[home].slots) \in Nat /\ Len(nodes[id].slots) \in Nat /\ Len(nodes[id].slots) >= 1
      /\ DOMAIN nodes[id].slots = 1..Len(nodes[id].slots)
      /\ \A k \in 1..Len(nodes[id].slots) : nodes[id].slots[k] \in Items
  BY <1>3, NodeFacts
<1>5. i \in 1..Len(nodes[home].slots) /\ 1 \in 1..Len(nodes[id].slots) /\ home # id /\ call.slot + 2 = i + 1
  <2>1. d[home] \in Nat /\ d[id] \in Nat
    BY <1>3
  <2>2. home # id
    BY <2>1, <1>3
  <2>3. call.slot \in Nat /\ call.slot < Len(nodes[home].slots)
    BY <1>3, <1>4
  <2>4. i \in 1..Len(nodes[home].slots) /\ call.slot + 2 = i + 1
    BY <2>3, <1>0, <1>4
  <2>5. 1 \in 1..Len(nodes[id].slots)
    BY <1>4
  <2> QED
    BY <2>2, <2>4, <2>5
<1>6. y \in Items /\ y \notin Its(nodes, home)
  <2>1. y \in Its(nodes, id)
    BY <1>0, <1>4, <1>5 DEF Its, Elems
  <2> QED
    BY <2>1, <1>3, <1>5 DEF Apart, Its, Elems
<1>7. Tree(n1, root, Nil) /\ Ranked(n1, root, d) /\ DOMAIN n1 = DOMAIN nodes /\ n1[id] = nodes[id]
  <2>1. Swapped(nodes, n1, root, home, nodes[home].slots[i], y)
    BY <1>0, <1>3, <1>5, <1>6, SwapsItem
  <2> QED
    BY <2>1, <1>3, <1>5 DEF Swapped
<1>8. Reshaped(n1, nodes', root, id, 0)
  <2>1. id \in DOMAIN n1 /\ 0 \in 0..Len(n1[id].slots) - 1
    BY <1>3, <1>4, <1>7
  <2>2. HasChildren(n1, id) => HasNilChildAt(n1, id, 0)
    BY <1>1, <1>7 DEF HasChildren, HasNilChildAt
  <2>3. RemovalOK(n1, sv, RemoveSlot(Rec(n1, sv), id, 0), root, id, 0)
    BY <1>3, <1>7, <2>1, <2>2, RemoveSlotTakes
  <2> QED
    BY <2>3, <1>0, <1>1 DEF RemovalOK
<1>9. PICK g \in Ranges : OrderOK(g)
  BY DEF OrderInv
<1>10. PICK P \in SUBSET IDs : Way(g, P)
  BY <1>1, <1>9 DEF OrderOK, DownOK
<1>11. OnWay(nodes, g, home, i, id, P)
  BY <1>0, <1>1, <1>3, <1>5, <1>10 DEF OnWay, Way
<1>12. Ordered(nodes, g)
  BY <1>9 DEF OrderOK
<1>13. PICK g2 \in Ranges : Ordered(n1, g2)
  BY <1>0, <1>3, <1>11, <1>12, NextTakesPlace
<1>14. Ordered(nodes', g2)
  <2>1. PICK k \in 0..Len(n1[id].slots) - 1 : k = 0
    BY <1>4, <1>7
  <2>2. id \in DOMAIN n1 /\ (n1[id].kids # <<>> => HasNilChildAt(n1, id, k)) /\ Reshaped(n1, nodes', root, id, k)
    BY <2>1, <1>1, <1>3, <1>7, <1>8 DEF HasNilChildAt, HasChildren
  <2> QED
    BY <2>2, <1>7, <1>13, RemovalOrders
<1> QED
  BY <1>1, <1>14, Settled

-----------------------------------------------------------------------------
(* The invariant. *)

\* The empty tree has it.
LEMMA InitOrder == Init => OrderInv
<1> SUFFICES ASSUME Init PROVE OrderInv
  OBVIOUS
<1>1. PICK g \in Ranges : g = [j \in IDs |-> {}]
  BY DEF Ranges
<1>2. nodes = <<>> /\ call.op = "idle"
  BY DEF Init, Idle
<1>3. Ordered(nodes, g)
  BY <1>2 DEF Ordered
<1>4. AddOK(g) /\ UpOK(g) /\ DownOK(g)
  BY <1>2 DEF AddOK, UpOK, DownOK
<1> QED
  BY <1>3, <1>4 DEF OrderInv, OrderOK

\* Every step keeps it.
LEMMA NextOrder == ASSUME TreeInv, OrderInv, Next PROVE OrderInv'
<1>1. ASSUME NEW i \in Items, NEW unique \in {IsUnique, TRUE}, Add(i, unique) PROVE OrderInv'
  BY <1>1, AddOrder
<1>2. CASE AddRefused \/ AddReturns \/ RemoveReturns
  BY <1>2, ReturnsOrder
<1>3. CASE AddBelow
  BY <1>3, AddBelowOrder
<1>4. CASE AddItemOnNodeWithNilChild
  BY <1>4, AddItemOnNodeWithNilChildOrder
<1>5. CASE AddOnLeaf
  BY <1>5, AddOnLeafOrder
<1>6. CASE BreakRoot
  BY <1>6, BreakRootOrder
<1>7. CASE SplitLeaf
  BY <1>7, SplitLeafOrder
<1>8. CASE Promote
  BY <1>8, PromoteOrder
<1>9. CASE PromoteBreakRoot
  BY <1>9, PromoteBreakRootOrder
<1>10. CASE PromoteSplit
  BY <1>10, PromoteSplitOrder
<1>11. ASSUME NEW id \in DOMAIN nodes, NEW k \in 0..Count(nodes, id) - 1, RemoveCurrentItem(id, k) PROVE OrderInv'
  BY <1>11, RemoveCurrentItemOrder
<1>12. ASSUME NEW id \in DOMAIN nodes, NEW k \in 0..Count(nodes, id) - 1, RemoveBetweenChildren(id, k) PROVE OrderInv'
  BY <1>12, RemoveBetweenChildrenOrder
<1>13. CASE NextBelow
  BY <1>13, NextBelowOrder
<1>14. CASE RemoveNext
  BY <1>14, RemoveNextOrder
<1> QED
  BY <1>1, <1>2, <1>3, <1>4, <1>5, <1>6, <1>7, <1>8, <1>9, <1>10, <1>11, <1>12, <1>13, <1>14 DEF Next, Adding, Removing

\* A stuttering step keeps it too.
LEMMA StutterOrder == ASSUME OrderInv, UNCHANGED vars PROVE OrderInv'
<1>1. nodes' = nodes /\ call' = call
  BY DEF vars
<1>2. PICK g \in Ranges : OrderOK(g)
  BY DEF OrderInv
<1>3. OrderOK(g)'
  BY <1>1, <1>2 DEF OrderOK, AddOK, UpOK, DownOK, Way
<1> QED
  BY <1>3 DEF OrderInv

\* It holds in every state.
LEMMA OrderAlways == Spec => []OrderInv
<1>1. TreeInv /\ OrderInv /\ [Next]_vars => OrderInv'
  BY NextOrder, StutterOrder
<1> QED
  BY <1>1, InitOrder, TreeAlways, PTL DEF Spec

-----------------------------------------------------------------------------
(* What the order of ranges says of keys.                                     *)

\* The range of a node is part of its parent's, also of the sibling still to be given its place.
LEMMA RangesNest ==
  ASSUME TreeInv, NEW g \in Ranges, OrderOK(g), NEW c \in DOMAIN nodes \ {root}
  PROVE  nodes[c].parent \in DOMAIN nodes /\ g[c] \subseteq g[nodes[c].parent]
<1>0. PICK p : p = nodes[c].parent
  OBVIOUS
<1>1. Tree(nodes, root, Sibling)
  BY DEF TreeInv
<1>2. p \in DOMAIN nodes /\ c \in IDs
  BY <1>0, <1>1 DEF Tree, Linked, Shape
<1>3. CASE c = Sibling
  <2>1. call.op = "promote" /\ c = call.right
    BY <1>2, <1>3, IDsAre DEF Sibling
  <2>2. p = call.node
    BY <2>1, <1>0, PromoteNow DEF PromoteFacts
  <2> QED
    BY <2>1, <2>2, <1>0, <1>2 DEF OrderOK, UpOK
<1>4. CASE c # Sibling
  <2>1. c \in Kids(nodes, p)
    BY <1>0, <1>1, <1>2, <1>4 DEF Tree, Linked
  <2>2. PICK k \in DOMAIN nodes[p].kids : nodes[p].kids[k] = c
    BY <2>1 DEF Kids, Elems
  <2>3. DOMAIN nodes[p].kids = 1..Len(nodes[p].kids) /\ c # Nil
    BY <1>1, <1>2, NodeFacts, IDsAre
  <2>4. Fits(nodes[p].slots, nodes[p].kids, g, g[p])
    BY <1>2 DEF OrderOK, Ordered
  <2> QED
    BY <2>2, <2>3, <2>4, <1>0, <1>2 DEF Fits
<1> QED
  BY <1>3, <1>4

\* Whatever is below child k of node id fits between the slots beside the child.
LEMMA BelowFits ==
  ASSUME TreeInv, NEW g \in Ranges, OrderOK(g), NEW id \in DOMAIN nodes, NEW k \in 1..Len(nodes[id].kids),
         nodes[id].kids[k] # Nil, NEW c \in Subtree(nodes[id].kids[k], Downward), NEW j \in DOMAIN nodes[c].slots
  PROVE  c \in DOMAIN nodes /\ Between(nodes[id].slots, k, KeyOf[nodes[c].slots[j]])
<1>0. PICK s, b, S : /\ s = nodes[id].slots /\ b = nodes[id].kids[k]
                     /\ S = {x \in DOMAIN nodes : \A v \in g[x] : Between(s, k, v)}
  OBVIOUS
<1>1. Tree(nodes, root, Sibling)
  BY DEF TreeInv
<1>2. b \in DOMAIN nodes
  BY <1>0, <1>1, KidsAreNodes DEF KidsAt
<1>3. Fits(s, nodes[id].kids, g, g[id])
  BY <1>0 DEF OrderOK, Ordered
<1>4. b \in S
  BY <1>0, <1>2, <1>3 DEF Fits
<1>5. S \in Downward
  <2>1. S \in SUBSET DOMAIN nodes
    BY <1>0
  <2>2. \A x \in DOMAIN nodes \ {root} : nodes[x].parent \in S => x \in S
    BY <1>0, RangesNest
  <2> QED
    BY <2>1, <2>2 DEF Downward
<1>6. c \in S /\ c \in DOMAIN nodes
  BY <1>0, <1>4, <1>5 DEF Subtree
<1>7. KeyOf[nodes[c].slots[j]] \in g[c]
  <2>1. Fits(nodes[c].slots, nodes[c].kids, g, g[c]) /\ DOMAIN nodes[c].slots = 1..Len(nodes[c].slots)
    BY <1>1, <1>6, NodeFacts DEF OrderOK, Ordered
  <2> QED
    BY <2>1 DEF Fits
<1> QED
  BY <1>0, <1>6, <1>7

\* The order the run checks.
LEMMA OrderKeys == ASSUME TreeInv, OrderInv PROVE KeysInOrder
<1>1. PICK g \in Ranges : OrderOK(g)
  BY DEF OrderInv
<1>2. Tree(nodes, root, Sibling)
  BY DEF TreeInv
<1>3. ASSUME NEW id \in DOMAIN nodes, NEW a \in DOMAIN nodes[id].slots, NEW b \in DOMAIN nodes[id].slots, a < b
      PROVE  KeyOf[nodes[id].slots[a]] <= KeyOf[nodes[id].slots[b]]
  <2>1. DOMAIN nodes[id].slots = 1..Len(nodes[id].slots) /\ Rising(nodes[id].slots)
    BY <1>1, <1>2, NodeFacts DEF OrderOK, Ordered, Fits
  <2> QED
    BY <2>1, <1>3 DEF Rising
<1>4. ASSUME NEW id \in DOMAIN nodes, NEW k \in DOMAIN nodes[id].kids, nodes[id].kids[k] # Nil,
             NEW c \in Subtree(nodes[id].kids[k], Downward), NEW j \in DOMAIN nodes[c].slots
      PROVE  /\ k > 1 => KeyOf[nodes[id].slots[k - 1]] <= KeyOf[nodes[c].slots[j]]
             /\ k <= Len(nodes[id].slots) => KeyOf[nodes[c].slots[j]] <= KeyOf[nodes[id].slots[k]]
  <2>0. PICK s, v : s = nodes[id].slots /\ v = KeyOf[nodes[c].slots[j]]
    OBVIOUS
  <2>1. /\ DOMAIN nodes[id].kids = 1..Len(nodes[id].kids) /\ Len(s) \in Nat
        /\ nodes[id].kids # <<>> => Len(nodes[id].kids) = Len(s) + 1
        /\ nodes[id].kids = <<>> => Len(nodes[id].kids) = 0
    BY <2>0, <1>2, NodeFacts
  <2>2. k \in 1..Len(s) + 1
    BY <2>1
  <2>3. Between(s, k, v)
    BY <2>0, <2>1, <1>1, <1>4, BelowFits
  <2>4. k > 1 => KeyOf[s[k - 1]] <= v
    <3> SUFFICES ASSUME k > 1 PROVE KeyOf[s[k - 1]] <= v
      OBVIOUS
    <3>1. PICK q \in 1..Len(s) : q = k - 1 /\ q < k
      BY <2>1, <2>2
    <3> QED
      BY <3>1, <2>3 DEF Between
  <2>5. k <= Len(s) => v <= KeyOf[s[k]]
    BY <2>2, <2>3 DEF Between
  <2> QED
    BY <2>0, <2>4, <2>5
<1> QED
  BY <1>3, <1>4, Zenon DEF KeysInOrder

\* What is below a node is the node or below one of its children.
LEMMA SubtreeSplits ==
  ASSUME NEW id \in DOMAIN nodes, NEW c \in Subtree(id, Downward), c # id
  PROVE  \E b \in DOMAIN nodes \ {root} : nodes[b].parent = id /\ c \in Subtree(b, Downward)
<1>0. PICK D, S : /\ D = Downward
                  /\ S = {x \in DOMAIN nodes : \/ x = id
                                               \/ \E b \in DOMAIN nodes \ {root} :
                                                    nodes[b].parent = id /\ x \in Subtree(b, D)}
  OBVIOUS
<1>1. ASSUME NEW x \in DOMAIN nodes \ {root}, nodes[x].parent \in S PROVE x \in S
  <2>1. CASE nodes[x].parent = id
    <3>1. x \in Subtree(x, D)
      BY DEF Subtree
    <3> QED
      BY <3>1, <2>1, <1>0
  <2>2. CASE nodes[x].parent # id
    <3>1. PICK b \in DOMAIN nodes \ {root} : nodes[b].parent = id /\ nodes[x].parent \in Subtree(b, D)
      BY <2>2, <1>0, <1>1
    <3>2. x \in Subtree(b, D)
      BY <3>1, <1>0 DEF Subtree, Downward
    <3> QED
      BY <3>1, <3>2, <1>0
  <2> QED
    BY <2>1, <2>2
<1>2. S \in Downward /\ id \in S
  BY <1>0, <1>1 DEF Downward
<1>3. c \in S
  BY <1>2 DEF Subtree
<1> QED
  BY <1>0, <1>3

\* Every node is below the root.
LEMMA AllBelowRoot ==
  ASSUME NEW d \in [IDs -> Nat], Ranked(nodes, root, d), DOMAIN nodes \subseteq IDs,
         \A c \in DOMAIN nodes \ {root} : nodes[c].parent \in DOMAIN nodes
  PROVE  DOMAIN nodes \subseteq Subtree(root, Downward)
<1> SUFFICES ASSUME NEW S \in Downward, root \in S, DOMAIN nodes \ S # {} PROVE FALSE
  BY DEF Subtree
<1>0. PICK R, T : R = OpToRel(<, Nat) /\ T = {d[c] : c \in DOMAIN nodes \ S}
  OBVIOUS
<1>1. T \subseteq Nat /\ T # {}
  BY <1>0
<1>2. IsWellFoundedOn(R, Nat)
  BY <1>0, NatLessThanWellFounded
<1>3. PICK m \in T : \A y \in T : ~ (<<y, m>> \in R)
  BY <1>1, <1>2, WFMin
<1>4. PICK c \in DOMAIN nodes \ S : m = d[c]
  BY <1>0, <1>3
<1>5. c # root /\ nodes[c].parent \in DOMAIN nodes \ S
  BY <1>4 DEF Downward
<1>6. d[nodes[c].parent] < d[c] /\ d[nodes[c].parent] \in T /\ d[nodes[c].parent] \in Nat /\ d[c] \in Nat
  BY <1>0, <1>4, <1>5 DEF Ranked
<1>7. <<d[nodes[c].parent], m>> \in R
  BY <1>0, <1>4, <1>6 DEF OpToRel
<1> QED
  BY <1>3, <1>6, <1>7

\* A key to be added only once is, if anywhere, at the node reached or below it.
DupOK ==
    call.op = "add" /\ call.unique =>
      \A c \in DOMAIN nodes : \A j \in DOMAIN nodes[c].slots :
        KeyOf[nodes[c].slots[j]] = KeyOf[call.item] => c \in Subtree(call.node, Downward)

\* If a slot of the node reached has the key, the search finds one.
LEMMA SlotTakes ==
  ASSUME TreeInv, OrderInv, call.op = "add", call.unique, NEW j \in 1..Len(nodes[call.node].slots),
         KeyOf[nodes[call.node].slots[j]] = KeyOf[call.item]
  PROVE  Taken
<1>1. PICK g \in Ranges : OrderOK(g)
  BY DEF OrderInv
<1>2. AddRanged(g)
  BY <1>1, AddRange
<1>0. PICK s, v, i : s = nodes[call.node].slots /\ v = KeyOf[call.item] /\ i = Index
  OBVIOUS
<1>3. s \in Seq(Items) /\ Len(s) \in Nat /\ v \in Int /\ Rising(s) /\ i = SearchNotBelow(s, v)
  BY <1>0, <1>2 DEF AddRanged, Fits, Index, Here
<1>4. i \in 0..Len(s) /\ \A k \in 1..Len(s) : k <= i <=> KeyOf[s[k]] < v
  BY <1>3, IndexDivides
<1>5. \A k \in 1..Len(s) : KeyOf[s[k]] \in Int
  BY <1>3, EmptyIs, KeysAre
<1>6. j \in 1..Len(s) /\ KeyOf[s[j]] = v
  BY <1>0
<1>7. ~ (j <= i)
  BY <1>3, <1>4, <1>6
<1>8. PICK q \in 1..Len(s) : q = i + 1 /\ q <= j /\ i < Len(s)
  BY <1>3, <1>4, <1>6, <1>7
<1>9. ~ (KeyOf[s[q]] < v)
  BY <1>4, <1>8
<1>10. KeyOf[s[q]] <= v
  <2>1. CASE q = j
    BY <2>1, <1>3, <1>6
  <2>2. CASE q # j
    <3>1. q < j
      BY <2>2, <1>8
    <3> QED
      BY <3>1, <1>3, <1>6 DEF Rising
  <2> QED
    BY <2>1, <2>2
<1>11. KeyOf[s[q]] = v
  BY <1>3, <1>5, <1>9, <1>10
<1> QED
  BY <1>0, <1>8, <1>11 DEF Taken, Here

\* If not, whatever has the key below it is below the child the search goes on to.
LEMMA PathLeads ==
  ASSUME TreeInv, OrderInv, call.op = "add", call.unique, ~ Taken,
         NEW c \in Subtree(call.node, Downward), NEW j \in DOMAIN nodes[c].slots,
         KeyOf[nodes[c].slots[j]] = KeyOf[call.item]
  PROVE  /\ nodes[call.node].kids # <<>> /\ nodes[call.node].kids[Index + 1] # Nil
         /\ c \in Subtree(nodes[call.node].kids[Index + 1], Downward)
<1>1. PICK g \in Ranges : OrderOK(g)
  BY DEF OrderInv
<1>2. AddRanged(g)
  BY <1>1, AddRange
<1>0. PICK id, s, K, v, i : /\ id = call.node /\ s = nodes[id].slots /\ K = nodes[id].kids
                            /\ v = KeyOf[call.item] /\ i = Index
  OBVIOUS
<1>3. /\ s \in Seq(Items) /\ Len(s) \in Nat /\ v \in Int /\ Rising(s) /\ i = SearchNotBelow(s, v)
      /\ Tree(nodes, root, Nil) /\ id \in DOMAIN nodes
  BY <1>0, <1>2 DEF AddRanged, AddFacts, Fits, Index, Here
<1>4. i \in 0..Len(s) /\ \A k \in 1..Len(s) : k <= i <=> KeyOf[s[k]] < v
  BY <1>3, IndexDivides
<1>5. \A k \in 1..Len(s) : KeyOf[s[k]] \in Int /\ KeyOf[s[k]] # v
  <2>1. \A k \in 1..Len(s) : KeyOf[s[k]] # v
    BY <1>0, SlotTakes
  <2> QED
    BY <2>1, <1>3, EmptyIs, KeysAre
<1>6. c # id
  <2> SUFFICES ASSUME c = id PROVE FALSE
    OBVIOUS
  <2>1. DOMAIN nodes[id].slots = 1..Len(s)
    BY <1>0, <1>3, NodeFacts
  <2> QED
    BY <2>1, <1>0, <1>5
<1>7. PICK b \in DOMAIN nodes \ {root} : nodes[b].parent = id /\ c \in Subtree(b, Downward)
  BY <1>0, <1>3, <1>6, SubtreeSplits
<1>8. b \in Kids(nodes, id) /\ b # Nil
  <2>1. b \in IDs /\ b # Nil
    BY <1>3, <1>7, IDsAre DEF Tree, Shape
  <2> QED
    BY <2>1, <1>3, <1>7 DEF Tree, Linked
<1>9. DOMAIN K = 1..Len(K) /\ (K # <<>> => Len(K) = Len(s) + 1) /\ (K = <<>> => Len(K) = 0)
  BY <1>0, <1>3, NodeFacts
<1>10. PICK k \in 1..Len(K) : K[k] = b
  BY <1>0, <1>8, <1>9 DEF Kids, Elems
<1>11. K # <<>> /\ k \in 1..Len(s) + 1
  <2>1. Len(K) # 0
    BY <1>10
  <2>2. K # <<>>
    BY <2>1, <1>9, Zenon
  <2> QED
    BY <2>2, <1>9, <1>10
<1>12. Between(s, k, v)
  <2>1. Between(nodes[id].slots, k, KeyOf[nodes[c].slots[j]])
    BY <1>0, <1>1, <1>3, <1>7, <1>8, <1>10, BelowFits
  <2> QED
    BY <2>1, <1>0
<1>13. k > i
  <2> SUFFICES ASSUME k <= i PROVE FALSE
    BY <1>4, <1>11
  <2>1. k \in 1..Len(s) /\ k >= k
    BY <1>3, <1>4, <1>11
  <2>2. KeyOf[s[k]] < v /\ v <= KeyOf[s[k]]
    BY <2>1, <1>4, <1>12 DEF Between
  <2> QED
    BY <2>1, <2>2, <1>3, <1>5
<1>14. k <= i + 1
  <2> SUFFICES ASSUME k > i + 1 PROVE FALSE
    BY <1>4, <1>11
  <2>1. PICK q \in 1..Len(s) : q = k - 1 /\ q < k /\ q > i
    BY <1>3, <1>4, <1>11
  <2>2. KeyOf[s[q]] <= v /\ ~ (KeyOf[s[q]] < v)
    BY <2>1, <1>4, <1>12 DEF Between
  <2> QED
    BY <2>1, <2>2, <1>3, <1>5
<1>15. k = i + 1
  BY <1>4, <1>11, <1>13, <1>14
<1> QED
  BY <1>0, <1>7, <1>8, <1>10, <1>11, <1>15

\* A call to add starts with all nodes below it.
LEMMA AddDup ==
  ASSUME TreeInv, NEW i \in Items, NEW unique \in {IsUnique, TRUE}, Add(i, unique)
  PROVE  DupOK'
<1>1. CASE root # Nil
  <2>1. /\ nodes' = nodes /\ root' = root /\ call = Idle
        /\ call' = [op |-> "add", item |-> i, unique |-> unique, node |-> root]
    BY <1>1 DEF Add
  <2>2. Tree(nodes, root, Nil)
    BY <2>1 DEF TreeInv, Sibling, Idle
  <2>3. PICK d \in [IDs -> Nat] : Ranked(nodes, root, d)
    BY DEF TreeInv, RankOK
  <2>4. DOMAIN nodes \subseteq Subtree(root, Downward)
    BY <2>2, <2>3, AllBelowRoot DEF Tree, Shape, Linked
  <2>5. Downward' = Downward
    BY <2>1 DEF Downward
  <2>6. call'.node = root
    BY <2>1
  <2>7. \A c \in DOMAIN nodes' : c \in Subtree(call.node, Downward)'
    BY <2>1, <2>4, <2>5, <2>6 DEF Subtree
  <2> QED
    BY <2>7 DEF DupOK
<1>2. CASE root = Nil
  <2>1. call = Idle /\ nodes' = With(nodes, NewID(nodes), Node(Nil, <<>>, <<>>))
    BY <1>2 DEF Add
  <2>2. Tree(nodes, root, Nil)
    BY <2>1 DEF TreeInv, Sibling, Idle
  <2>3. DOMAIN nodes = {}
    BY <1>2, <2>2 DEF Tree, Rooted
  <2>4. \A c \in DOMAIN nodes' : nodes'[c].slots = <<>>
    BY <2>1, <2>3 DEF With, Node
  <2>5. \A c \in DOMAIN nodes' : DOMAIN nodes'[c].slots = {}
    BY <2>4
  <2> QED
    BY <2>5 DEF DupOK
<1> QED
  BY <1>1, <1>2

\* Down to a child.
LEMMA AddBelowDup ==
  ASSUME TreeInv, OrderInv, DupOK, AddBelow
  PROVE  DupOK'
<1>0. PICK b : b = nodes[call.node].kids[Index + 1]
  OBVIOUS
<1>1. /\ call.op = "add" /\ ~ Taken /\ nodes' = nodes /\ root' = root
      /\ call' = [call EXCEPT !.node = b]
  BY <1>0 DEF AddBelow, Here
<1>2. call \in [op : {"add"}, item : Items, unique : BOOLEAN, node : DOMAIN nodes]
  BY <1>1 DEF TreeInv, CallOK, Idle, Added, Removed
<1>3. call'.item = call.item /\ call'.node = b /\ call'.unique = call.unique
  BY <1>1, <1>2
<1>4. Downward' = Downward
  BY <1>1 DEF Downward
<1>5. ASSUME call.unique, NEW c \in DOMAIN nodes, NEW j \in DOMAIN nodes[c].slots,
             KeyOf[nodes[c].slots[j]] = KeyOf[call.item]
      PROVE  c \in Subtree(b, Downward)
  <2>1. c \in Subtree(call.node, Downward)
    BY <1>1, <1>5 DEF DupOK
  <2> QED
    BY <2>1, <1>0, <1>1, <1>5, PathLeads
<1>6. ASSUME call.unique, NEW c \in DOMAIN nodes, NEW j \in DOMAIN nodes[c].slots,
             KeyOf[nodes[c].slots[j]] = KeyOf[call.item]
      PROVE  c \in Subtree(call.node, Downward)'
  BY <1>1, <1>3, <1>4, <1>5, <1>6 DEF Subtree
<1> QED
  BY <1>1, <1>3, <1>6 DEF DupOK

\* No other step leaves a call on its way down.
LEMMA NextDup == ASSUME TreeInv, OrderInv, DupOK, [Next]_vars PROVE DupOK'
<1>1. CASE \E i \in Items, unique \in {IsUnique, TRUE} : Add(i, unique)
  BY <1>1, AddDup
<1>2. CASE AddBelow
  BY <1>2, AddBelowDup
<1>3. CASE UNCHANGED vars
  <2>1. nodes' = nodes /\ root' = root /\ call' = call
    BY <1>3 DEF vars
  <2>2. Downward' = Downward
    BY <2>1 DEF Downward
  <2>3. \A c : c \in Subtree(call.node, Downward)' <=> c \in Subtree(call.node, Downward)
    BY <2>1, <2>2 DEF Subtree
  <2> QED
    BY <2>1, <2>3 DEF DupOK
<1>4. CASE call'.op # "add"
  BY <1>4 DEF DupOK
<1>5. ASSUME Next, call'.op = "add"
      PROVE  (\E i \in Items, unique \in {IsUnique, TRUE} : Add(i, unique)) \/ AddBelow
  <2>1. ASSUME NextBelow PROVE FALSE
    <3>1. PICK d : NextFacts(d)
      BY <2>1, NextNow DEF NextBelow
    <3>2. call'.op = "next"
      BY <2>1, <3>1 DEF NextBelow, NextFacts
    <3> QED
      BY <3>2, <1>5
  <2>2. ASSUME AddRefused \/ AddReturns \/ RemoveReturns PROVE FALSE
    BY <2>2, <1>5 DEF AddRefused, AddReturns, RemoveReturns, Idle
  <2>3. ASSUME AddItemOnNodeWithNilChild \/ AddOnLeaf \/ BreakRoot \/ Promote \/ PromoteBreakRoot PROVE FALSE
    <3>1. call' = Added
      BY <2>3 DEF AddItemOnNodeWithNilChild, AddOnLeaf, BreakRoot, Promote, PromoteBreakRoot
    <3> QED
      BY <3>1, <1>5 DEF Added
  <2>4. ASSUME SplitLeaf \/ PromoteSplit PROVE FALSE
    <3>1. call'.op = "promote"
      BY <2>4 DEF SplitLeaf, PromoteSplit
    <3> QED
      BY <3>1, <1>5
  <2>5. ASSUME NEW id, NEW k, RemoveCurrentItem(id, k) PROVE FALSE
    BY <2>5, <1>5 DEF RemoveCurrentItem, Removed
  <2>6. ASSUME NEW id, NEW k, RemoveBetweenChildren(id, k) PROVE FALSE
    BY <2>6, <1>5 DEF RemoveBetweenChildren
  <2>7. ASSUME RemoveNext PROVE FALSE
    BY <2>7, <1>5 DEF RemoveNext, Removed
  <2> QED
    BY <2>1, <2>2, <2>3, <2>4, <2>5, <2>6, <2>7, <1>5 DEF Next, Adding, Removing
<1> QED
  BY <1>1, <1>2, <1>3, <1>4, <1>5

\* So it holds in every state.
LEMMA DupAlways == Spec => []DupOK
<1>1. Init => DupOK
  BY DEF Init, Idle, DupOK
<1>2. TreeInv /\ OrderInv /\ DupOK /\ [Next]_vars => DupOK'
  BY NextDup
<1> QED
  BY <1>1, <1>2, TreeAlways, OrderAlways, PTL DEF Spec

\* It implies what the run checks.
LEMMA OrderRefuses == ASSUME TreeInv, OrderInv, DupOK PROVE RefusesDuplicates
<1> SUFFICES ASSUME call.op = "add", call.unique, PathEnds
             PROVE  Taken <=> \E i \in Items : InTree(i) /\ KeyOf[i] = KeyOf[call.item]
  BY DEF RefusesDuplicates
<1>1. AddFacts
  BY AddNow
<1>2. /\ Tree(nodes, root, Nil) /\ call.node \in DOMAIN nodes /\ Index \in 0..Len(nodes[call.node].slots)
      /\ Len(nodes[call.node].slots) \in Nat
      /\ DOMAIN nodes[call.node].slots = 1..Len(nodes[call.node].slots)
      /\ \A k \in 1..Len(nodes[call.node].slots) : nodes[call.node].slots[k] \in Items
  <2>1. Tree(nodes, root, Nil) /\ call.node \in DOMAIN nodes /\ Index \in 0..Len(nodes[call.node].slots)
    BY <1>1 DEF AddFacts, Here
  <2> QED
    BY <2>1, NodeFacts
<1>3. ASSUME Taken PROVE \E i \in Items : InTree(i) /\ KeyOf[i] = KeyOf[call.item]
  <2>1. Index < Len(nodes[call.node].slots) /\ KeyOf[nodes[call.node].slots[Index + 1]] = KeyOf[call.item]
    BY <1>3 DEF Taken, Here
  <2>2. PICK q \in 1..Len(nodes[call.node].slots) : q = Index + 1
    BY <2>1, <1>2
  <2>3. InTree(nodes[call.node].slots[q]) /\ nodes[call.node].slots[q] \in Items
    BY <1>2, <2>2 DEF InTree, ToSet
  <2> QED
    BY <2>1, <2>2, <2>3
<1>4. ASSUME NEW i \in Items, InTree(i), KeyOf[i] = KeyOf[call.item], ~ Taken PROVE FALSE
  <2>1. PICK c \in DOMAIN nodes : i \in ToSet(nodes[c].slots)
    BY <1>4 DEF InTree
  <2>2. PICK j \in DOMAIN nodes[c].slots : nodes[c].slots[j] = i
    BY <2>1 DEF ToSet
  <2>3. c \in Subtree(call.node, Downward)
    BY <2>2, <1>4 DEF DupOK
  <2>4. nodes[call.node].kids # <<>> /\ nodes[call.node].kids[Index + 1] # Nil
    BY <2>2, <2>3, <1>4, PathLeads
  <2> QED
    BY <2>4, <1>4 DEF PathEnds, HasChildren, Here
<1> QED
  BY <1>3, <1>4

-----------------------------------------------------------------------------
(* Theorems. *)

\* Whatever splits, promotions, root collapses and prunings a tree has been through, and between
\* the steps of a call too, a separator divides everything below the child before it from
\* everything below the child behind it.
THEOREM KeysInOrderHolds == Spec => []KeysInOrder
<1>1. TreeInv /\ OrderInv => KeysInOrder
  BY OrderKeys
<1> QED
  BY <1>1, TreeAlways, OrderAlways, PTL

\* The one path AddIfNotExist, or Add to a unique tree, looks along ends in a refusal if and only
\* if some item anywhere in the tree has the key.
THEOREM RefusesDuplicatesHolds == Spec => []RefusesDuplicates
<1>1. TreeInv /\ OrderInv /\ DupOK => RefusesDuplicates
  BY OrderRefuses
<1> QED
  BY <1>1, TreeAlways, OrderAlways, DupAlways, PTL

=============================================================================
