----------------------- MODULE SegmentOperationsProofs -----------------------
(***************************************************************************)
(* Proofs about SegmentOperations, for any texts, marks and number of      *)
(* segments: the visible segments keep a number each, with no more numbers *)
(* missing between them than the import left out, and every hidden one     *)
(* leads to the row that a reversal finds it by.                           *)
(***************************************************************************)
EXTENDS SegmentOperations, FiniteSetTheorems, WellFoundedInduction, TLAPS

IsRow(r) ==
  /\ r = [text |-> r.text, order |-> r.order, marks |-> r.marks,
          mergedInto |-> r.mergedInto, splitInto |-> r.splitInto,
          isMerge |-> r.isMerge, isSplit |-> r.isSplit]
  /\ r.order \in Int /\ r.mergedInto \in Nat /\ r.splitInto \in Nat
  /\ r.isMerge \in BOOLEAN /\ r.isSplit \in BOOLEAN

\* Ids are positive and bounded, and every row has its type.
RowsInv == /\ \E b \in Nat : Ids \subseteq 1..b
           /\ \A x \in Ids : IsRow(segs[x])

\* A segment is hidden by one merge or by one split, whose result is there: what
\* unmerge_segment and unsplit_segment look it up by is never dangling.
HiddenLeadsOn == \A x \in Ids :
  /\ segs[x].mergedInto = 0 \/ segs[x].splitInto = 0
  /\ segs[x].mergedInto # 0 => segs[x].mergedInto \in Ids /\ segs[segs[x].mergedInto].isMerge
  /\ segs[x].splitInto # 0 => segs[x].splitInto \in Ids /\ segs[segs[x].splitInto].isSplit
  /\ ~(segs[x].isMerge /\ segs[x].isSplit)

\* The rows V have the numbers N, each number once: N is bounded, and interrupted as
\* often as the numbers that came with the import.
Numbered(V, rows, N) ==
  /\ \A x \in V : rows[x].order \in N
  /\ \A x, y \in V : rows[x].order = rows[y].order => x = y
  /\ \A i \in N : \E x \in V : rows[x].order = i
  /\ \E n \in Nat : N \subseteq 0..n
  /\ Cardinality(Breaks(N)) = Cardinality(Breaks({i - 1 : i \in Imported}))

NumberedInv == \E N \in SUBSET Nat : Numbered(Visible, segs, N)
SegmentsInv == RowsInv /\ HiddenLeadsOn /\ NumberedInv
------------------------------------------------------------------------------
(* Numbers *)

\* A set of natural numbers that is not empty has a least one.
LEMMA LeastNumber ==
  ASSUME NEW S, S \subseteq Nat, S # {}
  PROVE  \E least \in S : \A m \in S : least <= m
<1> DEFINE R == {ss \in Nat \X Nat : ss[1] < ss[2]}
<1>1. IsWellFoundedOn(R, Nat)
  BY NatLessThanWellFounded, SMT DEF OpToRel
<1>2. \A n, m \in Nat : m < n => <<m, n>> \in R
  OBVIOUS
<1> HIDE DEF R
<1>3. PICK n \in S : \A m \in S : ~(<<m, n>> \in R)
  BY <1>1, WFMin
<1>4. \A m \in S : ~(m < n)
  BY <1>2, <1>3
<1> QED  BY <1>3, <1>4

\* Min and Max of bounded numbers are among them, and bounds of them.
LEMMA MinMax ==
  ASSUME NEW n \in Nat, NEW S \in SUBSET (0..n), S # {}
  PROVE  /\ Min(S) \in S /\ Max(S) \in S
         /\ \A i \in S : Min(S) <= i /\ i <= Max(S)
<1>0. S \subseteq Nat /\ \A i \in S : i <= n
  OBVIOUS
<1>1. PICK least \in S : \A m \in S : least <= m
  BY <1>0, LeastNumber
<1>2. PICK most \in S : \A m \in S : most >= m
  <2> DEFINE T == {n - i : i \in S}
  <2>1. T \subseteq Nat /\ T # {}
    OBVIOUS
  <2>2. PICK t \in T : \A m \in T : t <= m
    <3> HIDE DEF T
    <3> QED  BY <2>1, LeastNumber
  <2>3. PICK i \in S : t = n - i
    BY <2>2
  <2>4. \A m \in S : n - m \in T
    OBVIOUS
  <2>5. \A m \in S : i >= m
    <3> HIDE DEF T
    <3>1. i \in Nat /\ t = n - i
      BY <1>0, <2>3
    <3>2. ASSUME NEW m \in S  PROVE i >= m
      <4>1. m \in Nat /\ n - i <= n - m
        BY <1>0, <2>2, <2>4, <3>1
      <4> QED  BY <3>1, <4>1
    <3> QED  BY <3>2
  <2> QED  BY <2>3, <2>5
<1> QED  BY <1>1, <1>2 DEF Min, Max

\* An id above those there are is a new one.
LEMMA NextIdIsNew ==
  ASSUME RowsInv, Ids # {}
  PROVE  NextId \in Nat /\ NextId > 0 /\ \A x \in Ids : x \in Nat /\ x > 0 /\ x < NextId
<1>1. PICK b \in Nat : Ids \subseteq 1..b
  BY DEF RowsInv
<1>2. Max(Ids) \in Ids /\ \A i \in Ids : i <= Max(Ids)
  BY <1>1, MinMax
<1>3. \A x \in Ids : x \in Nat /\ x > 0
  BY <1>1
<1>4. NextId = Max(Ids) + 1
  BY DEF NextId
<1> QED  BY <1>2, <1>3, <1>4

\* There are finitely many rows.
LEMMA RowsAreFinite ==
  ASSUME RowsInv, NEW S \in SUBSET Ids
  PROVE  IsFiniteSet(S) /\ Cardinality(S) \in Nat /\ S \subseteq Nat \ {0}
<1>1. PICK b \in Nat : Ids \subseteq 1..b
  BY DEF RowsInv
<1>2. IsFiniteSet(1..b)
  BY <1>1, FS_Interval
<1>3. S \in SUBSET (1..b) /\ S \subseteq Nat \ {0}
  BY <1>1
<1>4. IsFiniteSet(S)
  BY <1>2, <1>3, FS_Subset
<1> QED  BY <1>3, <1>4, FS_CardinalityType

\* What the replacement of a run asks of the rows `new`: the run a..b of V gives way
\* to T, numbered a..c, and those beyond move by c - b.
Replaces(V, S, T, rows, new, a, b, c) ==
  /\ T \cap (V \ S) = {}
  /\ \A x \in V : x \in S <=> rows[x].order \in a..b
  /\ \A x \in V \ S : new[x].order = IF rows[x].order > b THEN rows[x].order + (c - b)
                                     ELSE rows[x].order
  /\ \A x \in T : new[x].order \in a..c
  /\ \A x, y \in T : new[x].order = new[y].order => x = y
  /\ \A i \in a..c : \E x \in T : new[x].order = i

\* Then what was numbered is numbered again.
LEMMA RunReplaced ==
  ASSUME NEW V, NEW S \in SUBSET V, NEW T, NEW rows, NEW new, NEW N \in SUBSET Nat,
         NEW a \in N, NEW b \in N, a <= b, a..b \subseteq N, NEW c \in Int, a <= c,
         Numbered(V, rows, N), Replaces(V, S, T, rows, new, a, b, c)
  PROVE  \E M \in SUBSET Nat : Numbered((V \ S) \cup T, new, M)
<1> DEFINE To(i) == IF i < a THEN i ELSE i + (c - b)
           M == {i \in N : i < a} \cup (a..c) \cup {i + (c - b) : i \in {j \in N : j > b}}
<1>0. /\ \A x \in V : x \in S <=> rows[x].order \in a..b
      /\ \A x \in V \ S : new[x].order = IF rows[x].order > b THEN rows[x].order + (c - b)
                                         ELSE rows[x].order
      /\ \A x \in T : new[x].order \in a..c
      /\ \A x, y \in T : new[x].order = new[y].order => x = y
      /\ \A i \in a..c : \E x \in T : new[x].order = i
  BY DEF Replaces
<1>1. a \in Nat /\ b \in Nat /\ a <= b /\ c \in Nat /\ a <= c /\ \A i \in N : i \in Nat
  OBVIOUS
<1>m. \A i \in Int : i \in M <=> \/ i \in N /\ i < a
                                 \/ a <= i /\ i <= c
                                 \/ i - (c - b) \in N /\ i > c
  <2>1. ASSUME NEW i \in Int, i - (c - b) \in N, i > c
        PROVE  i \in {k + (c - b) : k \in {j \in N : j > b}}
    <3>1. PICK k \in Int : k = i - (c - b)
      BY <1>1
    <3>2. k \in N /\ k > b /\ i = k + (c - b)
      BY <1>1, <2>1, <3>1
    <3> QED  BY <3>2
  <2>2. ASSUME NEW k \in N, k > b
        PROVE  k + (c - b) > c /\ (k + (c - b)) - (c - b) \in N
    <3>1. (k + (c - b)) - (c - b) = k
      BY <1>1
    <3> QED  BY <1>1, <2>2, <3>1
  <2> QED  BY <1>1, <2>1, <2>2
<1>2. \A x \in V \ S : rows[x].order \in N /\ ~(rows[x].order \in a..b)
  BY <1>0 DEF Numbered
<1>i. M \subseteq Int
  <2>1. {i \in N : i < a} \subseteq Int
    <3>1. N \subseteq Int
      OBVIOUS
    <3> QED  BY <3>1
  <2>3. a..c \subseteq Int
    BY <1>1
  <2>2. ASSUME NEW i \in {j \in N : j > b}  PROVE i + (c - b) \in Int
    BY <1>1
  <2> QED  BY <2>1, <2>2, <2>3
<1> HIDE DEF M
<1>3. \A x \in (V \ S) \cup T : new[x].order \in M
  <2>1. ASSUME NEW x \in V \ S  PROVE new[x].order \in M
    <3>1. PICK j \in Nat : j = rows[x].order /\ j \in N /\ (j < a \/ j > b)
      <4>1. rows[x].order \in N /\ rows[x].order \in Nat /\ ~(rows[x].order \in a..b)
        BY <1>1, <1>2
      <4> QED  BY <1>1, <4>1
    <3>2. CASE j < a
      BY <1>0, <1>1, <1>m, <3>1, <3>2
    <3>3. CASE j > b
      <4>1. new[x].order = j + (c - b) /\ j + (c - b) > c /\ (j + (c - b)) - (c - b) = j
        BY <1>0, <1>1, <3>1, <3>3
      <4> QED  BY <1>1, <1>m, <3>1, <4>1
    <3> QED  BY <3>1, <3>2, <3>3
  <2>2. ASSUME NEW x \in T  PROVE new[x].order \in M
    BY <1>0, <1>1, <1>m
  <2> QED  BY <2>1, <2>2
<1>4. ASSUME NEW x \in (V \ S) \cup T, NEW y \in (V \ S) \cup T, new[x].order = new[y].order
      PROVE  x = y
  <2>1. CASE x \in V \ S /\ y \in V \ S
    <3>0. /\ rows[x].order \in Nat /\ ~(rows[x].order \in a..b)
          /\ rows[y].order \in Nat /\ ~(rows[y].order \in a..b)
      BY <1>1, <1>2, <2>1
    <3>1. rows[x].order = rows[y].order
      BY <1>0, <1>1, <1>4, <2>1, <3>0
    <3> QED  BY <2>1, <3>1 DEF Numbered
  <2>2. CASE x \in T /\ y \in T
    BY <1>0, <1>4, <2>2
  <2>3. ASSUME NEW v \in V \ S, NEW w \in T  PROVE new[v].order # new[w].order
    <3>1. new[w].order \in a..c
      BY <1>0
    <3>2. rows[v].order \in Nat /\ (rows[v].order < a \/ rows[v].order > b)
      <4>1. rows[v].order \in Nat /\ ~(rows[v].order \in a..b)
        BY <1>1, <1>2
      <4> QED  BY <1>1, <4>1
    <3>3. new[v].order < a \/ new[v].order > c
      BY <1>0, <1>1, <3>2
    <3> QED  BY <1>1, <3>1, <3>3
  <2> QED  BY <1>4, <2>1, <2>2, <2>3
<1>5. ASSUME NEW i \in M  PROVE \E x \in (V \ S) \cup T : new[x].order = i
  <2>0. i \in Int
    BY <1>i
  <2>1. CASE i \in N /\ i < a
    <3>1. PICK x \in V : rows[x].order = i
      BY <2>1 DEF Numbered
    <3>2. x \in V \ S /\ new[x].order = i
      BY <1>0, <1>1, <2>1, <3>1
    <3> QED  BY <3>2
  <2>2. CASE i \in a..c
    BY <1>0, <2>2
  <2>3. CASE i - (c - b) \in N /\ i > c
    <3>1. PICK j \in Nat : j = i - (c - b) /\ j \in N
      BY <1>1, <2>3
    <3>2. PICK x \in V : rows[x].order = j
      BY <3>1 DEF Numbered
    <3>3. j > b /\ j + (c - b) = i
      BY <1>1, <2>0, <2>3, <3>1
    <3>4. x \in V \ S /\ new[x].order = i
      BY <1>0, <1>1, <3>2, <3>3
    <3> QED  BY <3>4
  <2> QED  BY <1>1, <1>m, <2>0, <2>1, <2>2, <2>3
<1>6. PICK n \in Nat : N \subseteq 0..n
  BY DEF Numbered
<1>7. M \in SUBSET Nat /\ \E m \in Nat : M \subseteq 0..m
  <2>1. n + c \in Nat
    BY <1>1, <1>6
  <2>2. ASSUME NEW i \in M  PROVE i \in 0..(n + c)
    <3>1. i \in Int
      BY <1>i
    <3>2. CASE i \in N /\ i < a
      BY <1>1, <1>6, <3>1, <3>2
    <3>3. CASE a <= i /\ i <= c
      BY <1>1, <1>6, <3>1, <3>3
    <3>4. CASE i - (c - b) \in N /\ i > c
      <4>0. i - (c - b) \in 0..n
        BY <1>6, <3>4
      <4>1. PICK j \in Nat : j = i - (c - b) /\ j <= n
        BY <1>6, <4>0
      <4> QED  BY <1>1, <1>6, <3>1, <3>4, <4>1
    <3> QED  BY <1>m, <3>1, <3>2, <3>3, <3>4
  <2>3. M \subseteq 0..(n + c)
    BY <2>2
  <2>4. M \subseteq Nat
    BY <2>2
  <2> QED  BY <2>1, <2>3, <2>4
<1>8. Cardinality(Breaks(M)) = Cardinality(Breaks(N))
  <2> DEFINE f == [i \in Breaks(N) |-> To(i)]
  <2>0. Breaks(N) \subseteq N /\ Breaks(M) \subseteq M
    BY DEF Breaks
  <2>1. ASSUME NEW i \in Breaks(N)
        PROVE  i \in Nat /\ (i < a \/ i >= b) /\ To(i) \in Breaks(M)
    <3>1. i \in N /\ i \in Nat /\ i + 1 \notin N
      BY <1>1, <2>0 DEF Breaks
    <3>2. i < a \/ i >= b
      <4>1. i >= a /\ i < b => i + 1 \in a..b
        BY <1>1, <3>1
      <4> QED  BY <1>1, <3>1, <4>1
    <3>3. CASE i < a
      <4>1. i + 1 < a
        BY <1>1, <3>1, <3>3
      <4>2. i \in M /\ i + 1 \notin M
        BY <1>1, <1>m, <3>1, <3>3, <4>1
      <4> QED  BY <3>1, <3>2, <3>3, <4>2 DEF Breaks
    <3>4. CASE i >= b
      <4>1. PICK j \in Nat : j = i + (c - b) /\ j >= c
        BY <1>1, <3>1, <3>4
      <4>2. j - (c - b) = i /\ (j + 1) - (c - b) = i + 1
        BY <1>1, <3>1, <4>1
      <4>3. j \in M
        BY <1>1, <1>m, <3>1, <4>1, <4>2
      <4>4. j + 1 \notin M
        BY <1>1, <1>m, <3>1, <4>1, <4>2
      <4>5. To(i) = j
        BY <1>1, <3>1, <3>4, <4>1
      <4> QED  BY <3>1, <3>2, <4>3, <4>4, <4>5 DEF Breaks
    <3> QED  BY <3>2, <3>3, <3>4
  <2>2. ASSUME NEW j \in Breaks(M)  PROVE \E i \in Breaks(N) : To(i) = j
    <3>1. j \in Int /\ j \in M /\ j + 1 \notin M
      BY <1>i, <2>0 DEF Breaks
    <3>2. CASE j < a
      <4>1. j \in N
        BY <1>1, <1>m, <3>1, <3>2
      <4>2. j + 1 < a
        <5>1. a \in M
          BY <1>1, <1>m
        <5>2. j + 1 # a
          BY <3>1, <5>1
        <5> QED  BY <1>1, <3>1, <3>2, <5>2
      <4>3. j + 1 \notin N
        BY <1>m, <3>1, <4>2
      <4> QED  BY <3>2, <4>1, <4>3 DEF Breaks
    <3>3. CASE j >= a
      <4>1. PICK i \in Int : i = j - (c - b) /\ i + (c - b) = j /\ i + 1 = (j + 1) - (c - b)
        BY <1>1, <3>1
      <4>2. j >= c
        <5>1. a <= j + 1 /\ j < c => j + 1 \in M
          BY <1>1, <1>m, <3>1
        <5> QED  BY <1>1, <3>1, <3>3, <5>1
      <4>3. i >= b /\ (j > c => i \in N) /\ (j = c => i = b)
        BY <1>1, <1>m, <3>1, <3>3, <4>1, <4>2
      <4>4. i \in N
        BY <1>1, <3>1, <4>2, <4>3
      <4>5. i + 1 \notin N
        BY <1>1, <1>m, <3>1, <4>1, <4>2
      <4>6. To(i) = j
        BY <1>1, <4>1, <4>3
      <4> QED  BY <4>4, <4>5, <4>6 DEF Breaks
    <3> QED  BY <1>1, <3>1, <3>2, <3>3
  <2>3. ASSUME NEW i \in Breaks(N), NEW j \in Breaks(N), To(i) = To(j)  PROVE i = j
    <3>1. i \in Nat /\ j \in Nat /\ (i < a \/ i >= b) /\ (j < a \/ j >= b)
      BY <2>1
    <3> QED  BY <1>1, <2>3, <3>1
  <2>4. f \in Bijection(Breaks(N), Breaks(M))
    <3>1. f \in [Breaks(N) -> Breaks(M)]
      BY <2>1
    <3>2. \A i \in Breaks(N) : f[i] = To(i)
      OBVIOUS
    <3> HIDE DEF f, To
    <3> QED  BY <2>2, <2>3, <3>1, <3>2 DEF Bijection, Injection, IsInjective, Surjection
  <2>5. IsFiniteSet(Breaks(N))
    <3>1. IsFiniteSet(0..n)
      BY <1>6, FS_Interval
    <3>2. Breaks(N) \subseteq 0..n
      BY <1>6, <2>0
    <3> QED  BY <3>1, <3>2, FS_Subset
  <2> HIDE DEF f, To
  <2> QED  BY <2>4, <2>5, FS_Bijection DEF ExistsBijection
<1> QED  BY <1>3, <1>4, <1>5, <1>7, <1>8 DEF Numbered

\* What is numbered has as many members as numbers.
LEMMA NumbersCount ==
  ASSUME NEW V, NEW a \in Int, NEW b \in Int, a <= b + 1,
         \A x \in V : segs[x].order \in a..b,
         \A x, y \in V : segs[x].order = segs[y].order => x = y,
         \A i \in a..b : \E x \in V : segs[x].order = i
  PROVE  IsFiniteSet(V) /\ Cardinality(V) = Cardinality(a..b)
<1> DEFINE f == [i \in a..b |-> CHOOSE x \in V : segs[x].order = i]
<1>1. \A i \in a..b : f[i] \in V /\ segs[f[i]].order = i
  OBVIOUS
<1>2. \A x \in V : f[segs[x].order] = x
  BY <1>1
<1>3. f \in [a..b -> V]
  BY <1>1
<1> HIDE DEF f
<1>4. f \in Bijection(a..b, V)
  <2>1. \A i, j \in a..b : f[i] = f[j] => i = j
    BY <1>1
  <2>2. \A x \in V : \E i \in a..b : f[i] = x
    BY <1>2
  <2> QED  BY <1>3, <2>1, <2>2 DEF Bijection, Injection, IsInjective, Surjection
<1>5. IsFiniteSet(a..b)
  BY FS_Interval
<1> QED  BY <1>4, <1>5, FS_Bijection DEF ExistsBijection
------------------------------------------------------------------------------
(* Order *)

\* A run of adjacent segments is all there is from its first to its last.
LEMMA RunOfAdjacent ==
  ASSUME RowsInv, NEW N \in SUBSET Nat, Numbered(Visible, segs, N),
         NEW S \in SUBSET Visible, S # {}, Adjacent(S)
  PROVE  /\ FirstOrder(S) \in N /\ LastOrder(S) \in N /\ FirstOrder(S) <= LastOrder(S)
         /\ FirstOrder(S)..LastOrder(S) \subseteq N
         /\ Cardinality(S) = LastOrder(S) - FirstOrder(S) + 1
         /\ \A x \in Visible : x \in S <=> segs[x].order \in FirstOrder(S)..LastOrder(S)
<1> DEFINE orders == {segs[x].order : x \in S}
           a == FirstOrder(S)
           b == LastOrder(S)
<1>0. PICK n \in Nat : N \subseteq 0..n
  BY DEF Numbered
<1>1. orders \in SUBSET N /\ orders \in SUBSET (0..n) /\ orders # {}
  <2>1. orders \subseteq N /\ orders # {}
    BY DEF Numbered
  <2> HIDE DEF orders
  <2> QED  BY <1>0, <2>1
<1>2. Min(orders) = a /\ Max(orders) = b
  BY DEF FirstOrder, LastOrder
<1>3. Cardinality(orders) = Cardinality(S) /\ b - a = Cardinality(S) - 1
  BY DEF Adjacent
<1> HIDE DEF orders, a, b
<1>4. a \in orders /\ b \in orders /\ \A i \in orders : a <= i /\ i <= b
  BY <1>1, <1>2, MinMax
<1>5. a \in 0..n /\ b \in 0..n /\ a <= b /\ orders \subseteq a..b
  BY <1>1, <1>4
<1>6. IsFiniteSet(a..b) /\ Cardinality(a..b) = b - a + 1
  BY <1>5, FS_Interval
<1>7. Cardinality(S) \in Nat
  BY RowsAreFinite DEF Visible
<1>8. Cardinality(orders) = Cardinality(a..b)
  BY <1>3, <1>5, <1>6, <1>7
<1>9. orders = a..b
  BY <1>5, <1>6, <1>8, FS_Subset
<1>10. ASSUME NEW x \in Visible  PROVE x \in S <=> segs[x].order \in a..b
  <2>1. segs[x].order \in orders <=> \E y \in S : segs[y].order = segs[x].order
    BY DEF orders
  <2> QED  BY <1>9, <2>1 DEF Numbered
<1>11. a \in N /\ b \in N /\ a..b \subseteq N
  BY <1>1, <1>4, <1>9
<1> QED  BY <1>3, <1>5, <1>7, <1>10, <1>11 DEF a, b

\* Rows come one before the other, in one way.
LEMMA PrecedesIsTotal ==
  ASSUME RowsInv, NEW x \in Ids, NEW y \in Ids
  PROVE  /\ ~Precedes(x, x)
         /\ x # y => Precedes(x, y) \/ Precedes(y, x)
         /\ \A z \in Ids : Precedes(x, y) /\ Precedes(y, z) => Precedes(x, z)
<1>1. Ids \subseteq Int
  BY DEF RowsInv
<1>2. \A z \in Ids : segs[z].order \in Int
  BY DEF RowsInv, IsRow
<1> QED  BY <1>1, <1>2 DEF Precedes

\* A row's place among rows: from 0 on, each place once.
LEMMA PlacesAreNumbers ==
  ASSUME RowsInv, NEW S \in SUBSET Ids
  PROVE  /\ \A x \in S : Before(x, S) \in 0..(Cardinality(S) - 1)
         /\ \A x, y \in S : Before(x, S) = Before(y, S) => x = y
         /\ \A i \in 0..(Cardinality(S) - 1) : \E x \in S : Before(x, S) = i
<1> DEFINE P(x) == {y \in S : Precedes(y, x)}
           n == Cardinality(S)
<1>1. IsFiniteSet(S) /\ n \in Nat
  BY RowsAreFinite
<1>2. \A x \in S : IsFiniteSet(P(x)) /\ Cardinality(P(x)) \in Nat /\ Before(x, S) = Cardinality(P(x))
  BY RowsAreFinite DEF Before
<1>3. ASSUME NEW x \in S, NEW y \in S, Precedes(x, y)
      PROVE  Before(x, S) < Before(y, S)
  <2>1. P(x) \subseteq P(y) /\ x \in P(y) /\ x \notin P(x)
    BY <1>3, PrecedesIsTotal
  <2>2. /\ P(x) \in SUBSET P(y) /\ P(x) # P(y) /\ IsFiniteSet(P(y))
        /\ Cardinality(P(x)) \in Nat /\ Cardinality(P(y)) \in Nat
    BY <1>2, <2>1
  <2> HIDE DEF P
  <2>3. Cardinality(P(x)) <= Cardinality(P(y)) /\ Cardinality(P(x)) # Cardinality(P(y))
    BY <2>2, FS_Subset
  <2> QED  BY <1>2, <2>2, <2>3
<1>4. ASSUME NEW x \in S  PROVE Before(x, S) \in 0..(n - 1)
  <2>1. P(x) \subseteq S /\ x \notin P(x)
    BY PrecedesIsTotal
  <2>2. P(x) \in SUBSET S /\ P(x) # S /\ Cardinality(P(x)) \in Nat
    BY <1>2, <2>1
  <2> HIDE DEF P
  <2>3. Cardinality(P(x)) <= n /\ Cardinality(P(x)) # n
    BY <1>1, <2>2, FS_Subset
  <2> QED  BY <1>1, <1>2, <2>2, <2>3
<1>5. ASSUME NEW x \in S, NEW y \in S, Before(x, S) = Before(y, S)  PROVE x = y
  <2>1. Before(x, S) \in Int /\ Before(y, S) \in Int
    BY <1>4
  <2>2. ~Precedes(x, y) /\ ~Precedes(y, x)
    BY <1>3, <1>5, <2>1
  <2> QED  BY <2>2, PrecedesIsTotal
<1>6. \A i \in 0..(n - 1) : \E x \in S : Before(x, S) = i
  <2> DEFINE f == [x \in S |-> Before(x, S)]
  <2>1. f \in Injection(S, 0..(n - 1))
    BY <1>4, <1>5 DEF Injection, IsInjective
  <2>2. IsFiniteSet(0..(n - 1)) /\ Cardinality(0..(n - 1)) = n
    BY <1>1, FS_Interval
  <2>3. \A i \in 0..(n - 1) : \E x \in S : f[x] = i
    <3> HIDE DEF f
    <3>1. f \in Surjection(S, 0..(n - 1))
      BY <1>1, <2>1, <2>2, FS_Injection
    <3> QED  BY <3>1 DEF Surjection
  <2> QED  BY <2>3
<1> QED  BY <1>4, <1>5, <1>6

\* Of visible segments, the one with the smaller number comes first.
LEMMA VisibleByNumber ==
  ASSUME RowsInv, NEW N, Numbered(Visible, segs, N), NEW x \in Visible, NEW y \in Visible
  PROVE  Precedes(x, y) <=> segs[x].order < segs[y].order
<1>1. x \in Nat /\ segs[x].order \in Int /\ segs[y].order \in Int
  BY RowsAreFinite DEF Visible, RowsInv, IsRow
<1>2. segs[x].order = segs[y].order => x = y
  BY DEF Numbered
<1> QED  BY <1>1, <1>2 DEF Precedes

\* Where each part is numbered one above the part before it, no number is missing.
LEMMA NoGap ==
  ASSUME NEW P, NEW rows, \A z \in P : rows[z].order \in Nat, NEW u \in P, NEW v \in P,
         \A p, q \in P :
            /\ rows[u].order <= rows[p].order /\ rows[p].order < rows[q].order
            /\ rows[q].order <= rows[v].order
            /\ \A w \in P : ~(rows[p].order < rows[w].order) \/ ~(rows[w].order < rows[q].order)
            => rows[q].order = rows[p].order + 1,
         NEW i \in rows[u].order .. rows[v].order
  PROVE  \E z \in P : rows[z].order = i
<1> DEFINE O == {rows[z].order : z \in P}
           Missing == (rows[u].order .. rows[v].order) \ O
<1>0. O \subseteq Nat /\ Missing \subseteq Nat /\ rows[u].order \in Nat /\ rows[v].order \in Nat
  OBVIOUS
<1>1. SUFFICES ASSUME Missing # {} PROVE FALSE
  OBVIOUS
<1>2. PICK least \in Missing : \A m \in Missing : least <= m
  <2> HIDE DEF Missing
  <2> QED  BY <1>0, <1>1, LeastNumber
<1>3. /\ least \in Nat /\ rows[u].order < least /\ least < rows[v].order /\ least \notin O
  <2>1. least \in rows[u].order .. rows[v].order /\ least \notin O
    BY <1>2
  <2>2. rows[u].order \in O /\ rows[v].order \in O
    OBVIOUS
  <2> HIDE DEF O
  <2> QED  BY <1>0, <2>1, <2>2
<1>4. PICK p \in P : rows[p].order = least - 1
  <2>1. least - 1 \notin Missing /\ least - 1 \in rows[u].order .. rows[v].order
    <3> HIDE DEF Missing
    <3> QED  BY <1>0, <1>2, <1>3
  <2> QED  BY <2>1
<1> DEFINE Above == {j \in O : j > rows[p].order}
<1>5. PICK next \in Above : \A j \in Above : next <= j
  <2>1. Above \subseteq Nat
    BY <1>0
  <2>2. rows[v].order \in Above
    BY <1>0, <1>3, <1>4
  <2> HIDE DEF Above
  <2> QED  BY <2>1, <2>2, LeastNumber
<1>6. PICK q \in P : rows[q].order = next
  BY <1>5
<1>7. /\ next > rows[p].order /\ next <= rows[v].order
      /\ \A w \in P : rows[w].order > rows[p].order => next <= rows[w].order
  <2>1. rows[v].order \in Above /\ \A w \in P : rows[w].order > rows[p].order => rows[w].order \in Above
    BY <1>0, <1>3, <1>4
  <2>2. next > rows[p].order
    BY <1>5
  <2> HIDE DEF Above
  <2> QED  BY <1>5, <2>1, <2>2
<1> HIDE DEF O, Missing, Above
<1>8. rows[q].order = rows[p].order + 1
  <2>1. \A w \in P : ~(rows[p].order < rows[w].order) \/ ~(rows[w].order < rows[q].order)
    BY <1>0, <1>3, <1>4, <1>6, <1>7
  <2>2. rows[u].order <= rows[p].order
    BY <1>0, <1>3, <1>4
  <2> QED  BY <1>6, <1>7, <2>1, <2>2
<1>9. rows[q].order = least /\ rows[q].order \in O
  BY <1>3, <1>4, <1>8 DEF O
<1> QED  BY <1>3, <1>9

\* The siblings of a part are the visible segments between two numbers.
LEMMA SiblingsAreARun ==
  ASSUME RowsInv, NEW N \in SUBSET Nat, Numbered(Visible, segs, N),
         NEW x \in Visible, segs[x].isSplit
  PROVE  /\ Siblings(x) \subseteq Visible /\ Siblings(x) # {}
         /\ \A y \in Siblings(x) : segs[y].isSplit
         /\ FirstOrder(Siblings(x)) \in N
         /\ FirstOrder(Siblings(x)) + Cardinality(Siblings(x)) - 1 \in N
         /\ FirstOrder(Siblings(x)) .. (FirstOrder(Siblings(x)) + Cardinality(Siblings(x)) - 1)
              \subseteq N
         /\ Cardinality(Siblings(x)) \in Nat \ {0}
         /\ \A y \in Visible : y \in Siblings(x) <=>
               segs[y].order \in FirstOrder(Siblings(x)) ..
                                 (FirstOrder(Siblings(x)) + Cardinality(Siblings(x)) - 1)
<1> DEFINE parts == {y \in Visible : segs[y].isSplit}
           G == Siblings(x)
           Run(u, v) == \A p, q \in parts :
             /\ segs[u].order <= segs[p].order /\ segs[p].order < segs[q].order
             /\ segs[q].order <= segs[v].order
             /\ \A w \in parts : ~(segs[p].order < segs[w].order) \/ ~(segs[w].order < segs[q].order)
             => segs[q].order = segs[p].order + 1
<1>0. PICK n \in Nat : N \subseteq 0..n
  BY DEF Numbered
<1>1. /\ \A y \in Visible : segs[y].order \in 0..n
      /\ \A y, z \in Visible : Precedes(y, z) <=> segs[y].order < segs[z].order
  BY <1>0, VisibleByNumber DEF Numbered
<1>2. \A y \in parts : y \in G <=>
        IF segs[x].order <= segs[y].order THEN Run(x, y) ELSE Run(y, x)
  BY <1>1 DEF Siblings
<1>3. x \in parts /\ x \in G /\ G \subseteq parts
  <2>1. x \in parts /\ G \subseteq parts
    BY DEF Siblings
  <2>2. Run(x, x)
    BY <1>1
  <2> HIDE DEF G, parts, Run
  <2> QED  BY <1>1, <1>2, <2>1, <2>2
<1>4. ASSUME NEW u \in parts, NEW v \in parts, Run(u, v), NEW i \in segs[u].order .. segs[v].order
      PROVE  \E z \in parts : segs[z].order = i
  <2>1. \A z \in parts : segs[z].order \in Nat
    BY <1>1
  <2> HIDE DEF parts
  <2> QED  BY <1>4, <2>1, NoGap
<1>5. ASSUME NEW y \in G, NEW i \in Int,
             \/ segs[x].order <= i /\ i <= segs[y].order
             \/ segs[y].order <= i /\ i <= segs[x].order
      PROVE  \E z \in G : segs[z].order = i
  <2>0. y \in parts /\ x \in parts /\ segs[x].order \in Nat /\ segs[y].order \in Nat
    BY <1>1, <1>3
  <2>1. CASE segs[x].order <= segs[y].order
    <3>1. Run(x, y) /\ i \in segs[x].order .. segs[y].order
      <4> HIDE DEF Run, parts, G
      <4> QED  BY <1>2, <1>5, <2>0, <2>1
    <3>2. PICK z \in parts : segs[z].order = i
      BY <1>4, <2>0, <3>1
    <3>3. Run(x, z)
      BY <1>1, <2>0, <3>1, <3>2
    <3>4. segs[x].order <= segs[z].order
      BY <3>1, <3>2, <2>0
    <3> HIDE DEF Run, parts, G
    <3> QED  BY <1>2, <3>2, <3>3, <3>4
  <2>2. CASE ~(segs[x].order <= segs[y].order)
    <3>1. Run(y, x) /\ i \in segs[y].order .. segs[x].order
      <4> HIDE DEF Run, parts, G
      <4> QED  BY <1>2, <1>5, <2>0, <2>2
    <3>2. PICK z \in parts : segs[z].order = i
      BY <1>4, <2>0, <3>1
    <3>3. Run(z, x)
      BY <1>1, <2>0, <3>1, <3>2
    <3>4. CASE segs[z].order < segs[x].order
      <4>1. ~(segs[x].order <= segs[z].order)
        BY <1>1, <2>0, <3>2, <3>4
      <4> HIDE DEF Run, parts, G
      <4> QED  BY <1>2, <3>2, <3>3, <4>1
    <3>5. CASE segs[z].order = segs[x].order
      BY <1>3, <3>2, <3>5
    <3>6. segs[z].order \in Nat /\ segs[z].order <= segs[x].order
      BY <1>1, <2>0, <3>1, <3>2
    <3> QED  BY <2>0, <3>4, <3>5, <3>6
  <2> QED  BY <2>1, <2>2
<1> DEFINE orders == {segs[y].order : y \in G}
           a == FirstOrder(G)
           b == LastOrder(G)
<1>6. G \subseteq Visible /\ orders \in SUBSET (0..n) /\ segs[x].order \in orders
  <2>1. G \subseteq Visible
    BY <1>3
  <2> QED  BY <1>1, <1>3, <2>1
<1>7. Min(orders) = a /\ Max(orders) = b
  BY DEF FirstOrder, LastOrder
<1> HIDE DEF G, parts, Run
<1>8. a \in orders /\ b \in orders /\ \A i \in orders : a <= i /\ i <= b
  <2> HIDE DEF orders, a, b
  <2> QED  BY <1>6, <1>7, MinMax
<1>9. /\ a \in 0..n /\ b \in 0..n /\ a <= segs[x].order /\ segs[x].order <= b
      /\ \A y \in G : segs[y].order \in a..b
  <2>1. \A y \in G : segs[y].order \in orders
    OBVIOUS
  <2>2. a \in 0..n /\ b \in 0..n
    <3> HIDE DEF orders, a, b
    <3> QED  BY <1>6, <1>8
  <2>3. \A i \in orders : i \in Int /\ a <= i /\ i <= b
    <3> HIDE DEF orders, a, b
    <3> QED  BY <1>6, <1>8
  <2>4. a <= segs[x].order /\ segs[x].order <= b
    BY <1>6, <2>3
  <2>5. \A y \in G : segs[y].order \in a..b
    <3> HIDE DEF orders, a, b
    <3> QED  BY <2>1, <2>2, <2>3
  <2> QED  BY <2>2, <2>4, <2>5
<1>10. \A i \in a..b : \E z \in G : segs[z].order = i
  <2>1. PICK y \in G, z \in G : segs[y].order = a /\ segs[z].order = b
    BY <1>8
  <2> HIDE DEF orders, a, b
  <2>2. segs[x].order \in Int
    BY <1>1
  <2> QED  BY <1>5, <1>9, <2>1, <2>2
<1> HIDE DEF orders, a, b
<1>11. \A y, z \in G : segs[y].order = segs[z].order => y = z
  BY <1>6 DEF Numbered
<1>12. a \in Int /\ b \in Int /\ a <= b /\ a <= b + 1
  <2>1. segs[x].order \in Int
    BY <1>1
  <2> QED  BY <1>9, <2>1
<1>13. Cardinality(G) = b - a + 1
  <2>1. \A y \in G : segs[y].order \in a..b
    BY <1>9
  <2>2. Cardinality(G) = Cardinality(a..b)
    BY <1>10, <1>11, <1>12, <2>1, NumbersCount
  <2> QED  BY <1>12, <2>2, FS_Interval
<1>14. \A y \in Visible : y \in G <=> segs[y].order \in a..b
  BY <1>6, <1>9, <1>10 DEF Numbered
<1>15. a + Cardinality(G) - 1 = b /\ Cardinality(G) \in Nat \ {0}
  BY <1>12, <1>13
<1>16. \A y \in G : segs[y].isSplit
  BY <1>3 DEF parts
<1>17. a..b \subseteq N
  BY <1>6, <1>10 DEF Numbered
<1>18. a \in N /\ b \in N
  BY <1>12, <1>17
<1> QED  BY <1>3, <1>6, <1>14, <1>15, <1>16, <1>17, <1>18 DEF G, a
------------------------------------------------------------------------------
(* Rows *)

\* What the operations do to a row leaves it a row, and its other fields alone.
LEMMA RowMoved ==
  ASSUME NEW r, IsRow(r), NEW j \in Int
  PROVE  LET s == [r EXCEPT !.order = j]
         IN  IsRow(s) /\ s.order = j /\ s.mergedInto = r.mergedInto /\ s.splitInto = r.splitInto
             /\ s.isMerge = r.isMerge /\ s.isSplit = r.isSplit
<1>1. PICK s : s = [r EXCEPT !.order = j]
  OBVIOUS
<1>2. IsRow(s) /\ s.order = j /\ s.mergedInto = r.mergedInto /\ s.splitInto = r.splitInto
             /\ s.isMerge = r.isMerge /\ s.isSplit = r.isSplit
  BY <1>1 DEF IsRow
<1> QED  BY <1>1, <1>2

\* A row that a merge hides.
LEMMA RowMerged ==
  ASSUME NEW r, IsRow(r), NEW i \in Nat
  PROVE  LET s == [r EXCEPT !.mergedInto = i]
         IN  IsRow(s) /\ s.order = r.order /\ s.mergedInto = i /\ s.splitInto = r.splitInto
             /\ s.isMerge = r.isMerge /\ s.isSplit = r.isSplit
<1>1. PICK s : s = [r EXCEPT !.mergedInto = i]
  OBVIOUS
<1>2. IsRow(s) /\ s.order = r.order /\ s.mergedInto = i /\ s.splitInto = r.splitInto
             /\ s.isMerge = r.isMerge /\ s.isSplit = r.isSplit
  BY <1>1 DEF IsRow
<1> QED  BY <1>1, <1>2

\* A row that a split hides.
LEMMA RowSplit ==
  ASSUME NEW r, IsRow(r), NEW i \in Nat
  PROVE  LET s == [r EXCEPT !.splitInto = i]
         IN  IsRow(s) /\ s.order = r.order /\ s.mergedInto = r.mergedInto /\ s.splitInto = i
             /\ s.isMerge = r.isMerge /\ s.isSplit = r.isSplit
<1>1. PICK s : s = [r EXCEPT !.splitInto = i]
  OBVIOUS
<1>2. IsRow(s) /\ s.order = r.order /\ s.mergedInto = r.mergedInto /\ s.splitInto = i
             /\ s.isMerge = r.isMerge /\ s.isSplit = r.isSplit
  BY <1>1 DEF IsRow
<1> QED  BY <1>1, <1>2

\* A row the page shows.
Unhidden(r) == r.mergedInto = 0 /\ r.splitInto = 0

\* The rows beyond a place move, and nothing else about them changes.
LEMMA ShiftedRows ==
  ASSUME NEW rows, NEW last \in Int, NEW by \in Int, NEW x \in DOMAIN rows, IsRow(rows[x])
  PROVE  /\ DOMAIN Shifted(rows, last, by) = DOMAIN rows
         /\ LET s == Shifted(rows, last, by)[x]
            IN  /\ IsRow(s) /\ s.mergedInto = rows[x].mergedInto /\ s.splitInto = rows[x].splitInto
                /\ s.isMerge = rows[x].isMerge /\ s.isSplit = rows[x].isSplit
                /\ s.order = IF Unhidden(rows[x]) /\ rows[x].order > last
                             THEN rows[x].order + by ELSE rows[x].order
<1>1. rows[x].order \in Int /\ rows[x].order + by \in Int
  BY DEF IsRow
<1>2. CASE rows[x].mergedInto = 0 /\ rows[x].splitInto = 0 /\ rows[x].order > last
  <2>1. Shifted(rows, last, by)[x] = [rows[x] EXCEPT !.order = rows[x].order + by]
    BY <1>2 DEF Shifted
  <2> QED  BY <1>1, <1>2, <2>1, RowMoved DEF Shifted, Unhidden
<1>3. CASE ~(rows[x].mergedInto = 0 /\ rows[x].splitInto = 0 /\ rows[x].order > last)
  <2>1. Shifted(rows, last, by)[x] = rows[x]
    BY <1>3 DEF Shifted
  <2> QED  BY <1>3, <2>1 DEF Shifted, Unhidden
<1> QED  BY <1>2, <1>3

\* The same row but for its place.
Like(s, r) == /\ IsRow(s) /\ s.mergedInto = r.mergedInto /\ s.splitInto = r.splitInto
              /\ s.isMerge = r.isMerge /\ s.isSplit = r.isSplit

\* The rows after a merge.
LEMMA MergeRows ==
  ASSUME SegmentsInv, NEW S \in SUBSET Visible, S # {}, Merge(S)
  PROVE  /\ NextId \notin Ids /\ NextId \in Nat \ {0} /\ Ids' = Ids \cup {NextId}
         /\ LET r == segs'[NextId]
            IN  /\ IsRow(r) /\ r.order = FirstOrder(S) /\ Unhidden(r) /\ r.isMerge /\ ~r.isSplit
         /\ \A x \in Ids : LET r == segs'[x] IN
               /\ IsRow(r) /\ r.splitInto = segs[x].splitInto
               /\ r.isMerge = segs[x].isMerge /\ r.isSplit = segs[x].isSplit
               /\ r.mergedInto = IF x \in S THEN NextId ELSE segs[x].mergedInto
               /\ x \in Visible \ S =>
                    r.order = IF segs[x].order > LastOrder(S)
                              THEN segs[x].order + (1 - Cardinality(S)) ELSE segs[x].order
<1>1. PICK N \in SUBSET Nat : Numbered(Visible, segs, N)
  BY DEF SegmentsInv, NumberedInv
<1>2. /\ FirstOrder(S) \in Int /\ LastOrder(S) \in Int /\ Cardinality(S) \in Nat
  BY <1>1, RunOfAdjacent, RowsAreFinite DEF Merge, SegmentsInv, Visible
<1>3. NextId \notin Ids /\ NextId \in Nat \ {0}
  BY NextIdIsNew DEF SegmentsInv, Visible
<1> DEFINE merged == [Segment(TextOf(S), FirstOrder(S), MarksOf(S)) EXCEPT !.isMerge = TRUE]
           hidden == [x \in Ids |-> IF x \in S THEN [segs[x] EXCEPT !.mergedInto = NextId]
                                    ELSE segs[x]]
           later == Shifted(hidden, LastOrder(S), 1 - Cardinality(S))
<1>4. segs' = [x \in Ids \cup {NextId} |-> IF x = NextId THEN merged ELSE later[x]]
  BY DEF Merge
<1>5. segs'[NextId] = merged /\ Ids' = Ids \cup {NextId}
  <2> HIDE DEF merged, later
  <2> QED  BY <1>4 DEF Ids
<1>6. IsRow(merged) /\ merged.order = FirstOrder(S) /\ Unhidden(merged) /\ merged.isMerge /\ ~merged.isSplit
  <2>0. PICK j \in Int : j = FirstOrder(S)
    BY <1>2
  <2>1. PICK text, marks : text = TextOf(S) /\ marks = MarksOf(S)
    OBVIOUS
  <2>2. PICK s : s = [Segment(text, j, marks) EXCEPT !.isMerge = TRUE]
    OBVIOUS
  <2>4. merged = s
    BY <2>0, <2>1, <2>2
  <2>3. /\ IsRow(merged) /\ merged.order = FirstOrder(S) /\ merged.mergedInto = 0
        /\ merged.splitInto = 0 /\ merged.isMerge = TRUE /\ merged.isSplit = FALSE
    <3> HIDE DEF merged
    <3>1. /\ IsRow(s) /\ s.order = j /\ s.mergedInto = 0
          /\ s.splitInto = 0 /\ s.isMerge = TRUE /\ s.isSplit = FALSE
      BY <2>2 DEF IsRow, Segment
    <3> QED  BY <2>0, <2>4, <3>1
  <2> HIDE DEF merged
  <2> QED  BY <2>3 DEF Unhidden
<1>7. ASSUME NEW x \in Ids
      PROVE  /\ Like(segs'[x], hidden[x])
             /\ segs'[x].order = IF Unhidden(hidden[x]) /\ hidden[x].order > LastOrder(S)
                                 THEN hidden[x].order + (1 - Cardinality(S)) ELSE hidden[x].order
             /\ IsRow(hidden[x]) /\ hidden[x].order = segs[x].order
             /\ hidden[x].splitInto = segs[x].splitInto
             /\ hidden[x].isMerge = segs[x].isMerge /\ hidden[x].isSplit = segs[x].isSplit
             /\ hidden[x].mergedInto = IF x \in S THEN NextId ELSE segs[x].mergedInto
  <2>1. IsRow(segs[x])
    BY DEF SegmentsInv, RowsInv
  <2>2. /\ IsRow(hidden[x]) /\ hidden[x].order = segs[x].order
        /\ hidden[x].splitInto = segs[x].splitInto
        /\ hidden[x].isMerge = segs[x].isMerge /\ hidden[x].isSplit = segs[x].isSplit
        /\ hidden[x].mergedInto = IF x \in S THEN NextId ELSE segs[x].mergedInto
    BY <1>3, <2>1, RowMerged
  <2>3. segs'[x] = later[x] /\ x \in DOMAIN hidden /\ 1 - Cardinality(S) \in Int
    BY <1>2, <1>3, <1>4
  <2> HIDE DEF hidden
  <2> QED  BY <1>2, <2>2, <2>3, ShiftedRows DEF Like
<1> HIDE DEF merged, hidden, later
<1>8. \A x \in Visible \ S : Unhidden(hidden[x])
  BY <1>7 DEF Visible, Unhidden
<1> QED  BY <1>3, <1>5, <1>6, <1>7, <1>8 DEF Like, Visible

\* A merge keeps the numbering, with one number for the run.
LEMMA MergeKeeps ==
  ASSUME SegmentsInv, NEW S \in SUBSET Visible, S # {}, Merge(S)
  PROVE  SegmentsInv'
<1> DEFINE new == NextId
<1>0. /\ new \notin Ids /\ new \in Nat \ {0} /\ Ids' = Ids \cup {new}
      /\ IsRow(segs'[new]) /\ segs'[new].order = FirstOrder(S) /\ Unhidden(segs'[new])
      /\ segs'[new].isMerge /\ ~segs'[new].isSplit
      /\ \A x \in Ids :
            /\ IsRow(segs'[x]) /\ segs'[x].splitInto = segs[x].splitInto
            /\ segs'[x].isMerge = segs[x].isMerge /\ segs'[x].isSplit = segs[x].isSplit
            /\ segs'[x].mergedInto = IF x \in S THEN new ELSE segs[x].mergedInto
            /\ x \in Visible \ S =>
                 segs'[x].order = IF segs[x].order > LastOrder(S)
                                  THEN segs[x].order + (1 - Cardinality(S)) ELSE segs[x].order
  BY MergeRows
<1> HIDE DEF new
<1>1. RowsInv'
  <2>1. PICK b \in Nat : Ids \subseteq 1..b
    BY DEF SegmentsInv, RowsInv
  <2>2. Ids' \subseteq 1..(b + new) /\ b + new \in Nat
    <3>1. b + new \in Nat /\ new \in 1..(b + new) /\ \A x \in 1..b : x \in 1..(b + new)
      BY <1>0
    <3> QED  BY <1>0, <2>1, <3>1
  <2>3. \A x \in Ids' : IsRow(segs'[x])
    BY <1>0
  <2> QED  BY <2>2, <2>3 DEF RowsInv
<1>2. HiddenLeadsOn'
  <2>1. ASSUME NEW x \in Ids
        PROVE  /\ segs'[x].mergedInto = 0 \/ segs'[x].splitInto = 0
               /\ segs'[x].mergedInto # 0 =>
                    segs'[x].mergedInto \in Ids' /\ segs'[segs'[x].mergedInto].isMerge
               /\ segs'[x].splitInto # 0 =>
                    segs'[x].splitInto \in Ids' /\ segs'[segs'[x].splitInto].isSplit
               /\ ~(segs'[x].isMerge /\ segs'[x].isSplit)
    <3>1. x \in S => segs[x].splitInto = 0
      BY DEF Visible
    <3> QED  BY <1>0, <3>1 DEF SegmentsInv, HiddenLeadsOn
  <2>2. /\ segs'[new].mergedInto = 0 /\ segs'[new].splitInto = 0
        /\ ~(segs'[new].isMerge /\ segs'[new].isSplit)
    BY <1>0 DEF Unhidden
  <2> QED  BY <1>0, <2>1, <2>2 DEF HiddenLeadsOn
<1>3. NumberedInv'
  <2>1. Visible' = (Visible \ S) \cup {new}
    BY <1>0 DEF Visible, Unhidden
  <2>2. PICK N \in SUBSET Nat : Numbered(Visible, segs, N)
    BY DEF SegmentsInv, NumberedInv
  <2>3. /\ FirstOrder(S) \in N /\ LastOrder(S) \in N /\ FirstOrder(S) <= LastOrder(S)
        /\ FirstOrder(S)..LastOrder(S) \subseteq N
        /\ Cardinality(S) = LastOrder(S) - FirstOrder(S) + 1
        /\ \A x \in Visible : x \in S <=> segs[x].order \in FirstOrder(S)..LastOrder(S)
    BY <2>2, RunOfAdjacent DEF Merge, SegmentsInv
  <2>4. PICK a \in Nat : a = FirstOrder(S) /\ a \in N
    BY <2>3
  <2>8. PICK b \in Nat : b = LastOrder(S) /\ b \in N /\ a <= b /\ a..b \subseteq N
    BY <2>3, <2>4
  <2>5. /\ \A x \in Visible : x \in Ids /\ segs[x].order \in Int
        /\ 1 - Cardinality(S) = a - b
    <3>1. \A x \in Visible : x \in Ids /\ segs[x].order \in Int
      BY DEF Visible, SegmentsInv, RowsInv, IsRow
    <3> QED  BY <2>3, <2>4, <2>8, <3>1
  <2>6. Replaces(Visible, S, {new}, segs, segs', a, b, a)
    <3>1. \A x \in Visible \ S : segs'[x].order = IF segs[x].order > b
              THEN segs[x].order + (a - b) ELSE segs[x].order
      BY <1>0, <2>5, <2>8
    <3>2. {new} \cap (Visible \ S) = {}
      BY <1>0, <2>5
    <3> QED  BY <1>0, <2>3, <2>4, <2>8, <3>1, <3>2 DEF Replaces
  <2>7. a \in Int /\ a <= a
    BY <2>4
  <2>9. \E M \in SUBSET Nat : Numbered((Visible \ S) \cup {new}, segs', M)
    BY <2>2, <2>4, <2>6, <2>7, <2>8, RunReplaced
  <2> QED  BY <2>1, <2>9 DEF NumberedInv
<1> QED  BY <1>1, <1>2, <1>3 DEF SegmentsInv
\* A text cut in up to three has at least its middle.
LEMMA PartsCount ==
  ASSUME NEW A, NEW B, NEW C, NEW p \in BOOLEAN, NEW q \in BOOLEAN
  PROVE  Len((IF p THEN << >> ELSE <<A>>) \o <<B>> \o (IF q THEN << >> ELSE <<C>>)) \in Nat \ {0}
<1>1. PICK T : T = {A, B, C}
  OBVIOUS
<1>2. PICK s \in Seq(T) : s = IF p THEN << >> ELSE <<A>>
  <2>1. << >> \in Seq(T) /\ <<A>> \in Seq(T)
    BY <1>1
  <2> QED  BY <2>1
<1>3. PICK t \in Seq(T) : t = <<B>> /\ Len(t) = 1
  <2>1. <<B>> \in Seq(T) /\ Len(<<B>>) = 1
    BY <1>1
  <2> QED  BY <2>1
<1>4. PICK u \in Seq(T) : u = IF q THEN << >> ELSE <<C>>
  <2>1. << >> \in Seq(T) /\ <<C>> \in Seq(T)
    BY <1>1
  <2> QED  BY <2>1
<1>5. s \o t \in Seq(T) /\ Len(s \o t) = Len(s) + 1 /\ Len(s) \in Nat /\ Len(u) \in Nat
  BY <1>2, <1>3, <1>4
<1>6. Len((s \o t) \o u) = Len(s) + 1 + Len(u)
  BY <1>4, <1>5
<1>7. (IF p THEN << >> ELSE <<A>>) \o <<B>> \o (IF q THEN << >> ELSE <<C>>) = (s \o t) \o u
  BY <1>2, <1>3, <1>4
<1> QED  BY <1>5, <1>6, <1>7

\* The rows after a split into k parts.
LEMMA SplitRows ==
  ASSUME SegmentsInv, NEW S \in SUBSET Visible, S # {}, NEW lo, NEW hi, Split(S, lo, hi)
  PROVE  /\ NextId \in Nat \ {0} /\ \A x \in Ids : x < NextId
         /\ \E k \in Nat \ {0} :
              /\ Ids' = Ids \cup (NextId .. NextId + k - 1)
              /\ \A x \in NextId .. NextId + k - 1 : LET r == segs'[x] IN
                   /\ IsRow(r) /\ r.order = FirstOrder(S) + (x - NextId)
                   /\ Unhidden(r) /\ r.isSplit /\ ~r.isMerge
              /\ \A x \in Ids : LET r == segs'[x] IN
                   /\ IsRow(r) /\ r.mergedInto = segs[x].mergedInto
                   /\ r.isMerge = segs[x].isMerge /\ r.isSplit = segs[x].isSplit
                   /\ r.splitInto = IF x \in S THEN NextId ELSE segs[x].splitInto
                   /\ x \in Visible \ S =>
                        r.order = IF segs[x].order > LastOrder(S)
                                  THEN segs[x].order + (k - Cardinality(S)) ELSE segs[x].order
<1>1. PICK N \in SUBSET Nat : Numbered(Visible, segs, N)
  BY DEF SegmentsInv, NumberedInv
<1>2. /\ FirstOrder(S) \in Int /\ LastOrder(S) \in Int /\ Cardinality(S) \in Nat
  <2>1. Adjacent(S)
    BY DEF Split
  <2>2. FirstOrder(S) \in N /\ LastOrder(S) \in N /\ \A i \in N : i \in Int
    BY <1>1, <2>1, RunOfAdjacent DEF SegmentsInv
  <2>3. Cardinality(S) \in Nat
    BY RowsAreFinite DEF SegmentsInv, Visible
  <2> QED  BY <2>2, <2>3
<1>3. NextId \in Nat \ {0} /\ \A x \in Ids : x \in Nat /\ x < NextId
  BY NextIdIsNew DEF SegmentsInv, Visible
<1> DEFINE text == TextOf(S)
           cut == (IF lo = 0 THEN << >> ELSE <<SubSeq(text, 1, lo)>>)
                  \o <<SubSeq(text, lo + 1, hi)>>
                  \o (IF hi = Len(text) THEN << >> ELSE <<SubSeq(text, hi + 1, Len(text))>>)
           hidden == [x \in Ids |-> IF x \in S THEN [segs[x] EXCEPT !.splitInto = NextId]
                                    ELSE segs[x]]
           Part(t, i) == [Segment(t[i], FirstOrder(S) + i - 1, MarksOf(S)) EXCEPT !.isSplit = TRUE]
           later(j) == Shifted(hidden, LastOrder(S), j - Cardinality(S))
<1>4. segs' = [x \in Ids \cup (NextId .. NextId + Len(cut) - 1) |->
                 IF x >= NextId THEN Part(cut, x - NextId + 1) ELSE later(Len(cut))[x]]
  <2> HIDE DEF hidden
  <2> QED  BY DEF Split, hidden
<1>5. Len(cut) \in Nat \ {0}
  BY PartsCount
<1> HIDE DEF hidden, cut
<1>6. PICK k \in Nat \ {0} : \E parts :
        segs' = [x \in Ids \cup (NextId .. NextId + k - 1) |->
                   IF x >= NextId THEN Part(parts, x - NextId + 1) ELSE later(k)[x]]
  <2> HIDE DEF Part, later
  <2> QED  BY <1>4, <1>5
<1>11. PICK parts :
        segs' = [x \in Ids \cup (NextId .. NextId + k - 1) |->
                   IF x >= NextId THEN Part(parts, x - NextId + 1) ELSE later(k)[x]]
  BY <1>6
<1> USE DEF hidden
<1>7. Ids' = Ids \cup (NextId .. NextId + k - 1)
  <2> HIDE DEF Part, later
  <2> QED  BY <1>11 DEF Ids
<1>8. ASSUME NEW x \in NextId .. NextId + k - 1
      PROVE  /\ IsRow(segs'[x]) /\ segs'[x].order = FirstOrder(S) + (x - NextId)
             /\ Unhidden(segs'[x]) /\ segs'[x].isSplit /\ ~segs'[x].isMerge
  <2>1. segs'[x] = Part(parts, x - NextId + 1)
    <3> HIDE DEF Part, later
    <3>1. x >= NextId
      BY <1>3, <1>6
    <3> QED  BY <1>11, <3>1
  <2>2. PICK j \in Int : j = FirstOrder(S) + (x - NextId + 1) - 1 /\ j = FirstOrder(S) + (x - NextId)
    BY <1>2, <1>3
  <2>3. PICK t, marks : t = parts[x - NextId + 1] /\ marks = MarksOf(S)
    OBVIOUS
  <2>4. PICK s : s = [Segment(t, j, marks) EXCEPT !.isSplit = TRUE]
    OBVIOUS
  <2>5. segs'[x] = s
    BY <2>1, <2>2, <2>3, <2>4
  <2>6. /\ IsRow(s) /\ s.order = j /\ s.mergedInto = 0
        /\ s.splitInto = 0 /\ s.isMerge = FALSE /\ s.isSplit = TRUE
    BY <2>4 DEF IsRow, Segment
  <2> HIDE DEF Part
  <2> QED  BY <2>2, <2>5, <2>6 DEF Unhidden
<1>9. ASSUME NEW x \in Ids
      PROVE  /\ Like(segs'[x], hidden[x])
             /\ segs'[x].order = IF Unhidden(hidden[x]) /\ hidden[x].order > LastOrder(S)
                                 THEN hidden[x].order + (k - Cardinality(S)) ELSE hidden[x].order
             /\ IsRow(hidden[x]) /\ hidden[x].order = segs[x].order
             /\ hidden[x].mergedInto = segs[x].mergedInto
             /\ hidden[x].isMerge = segs[x].isMerge /\ hidden[x].isSplit = segs[x].isSplit
             /\ hidden[x].splitInto = IF x \in S THEN NextId ELSE segs[x].splitInto
  <2>1. IsRow(segs[x])
    BY DEF SegmentsInv, RowsInv
  <2>2. /\ IsRow(hidden[x]) /\ hidden[x].order = segs[x].order
        /\ hidden[x].mergedInto = segs[x].mergedInto
        /\ hidden[x].isMerge = segs[x].isMerge /\ hidden[x].isSplit = segs[x].isSplit
        /\ hidden[x].splitInto = IF x \in S THEN NextId ELSE segs[x].splitInto
    BY <1>3, <2>1, RowSplit
  <2>3. segs'[x] = later(k)[x] /\ x \in DOMAIN hidden /\ k - Cardinality(S) \in Int
    <3>1. ~(x >= NextId)
      BY <1>3
    <3>2. segs'[x] = later(k)[x]
      <4> HIDE DEF Part, later
      <4> QED  BY <1>11, <3>1
    <3>3. x \in DOMAIN hidden /\ k - Cardinality(S) \in Int
      BY <1>2, <1>6
    <3> QED  BY <3>2, <3>3
  <2> HIDE DEF hidden
  <2> QED  BY <1>2, <2>2, <2>3, ShiftedRows DEF Like
<1> HIDE DEF hidden, Part, later
<1>10. \A x \in Visible \ S : Unhidden(hidden[x])
  BY <1>9 DEF Visible, Unhidden
<1> QED  BY <1>3, <1>7, <1>8, <1>9, <1>10 DEF Like, Visible

\* A split keeps the numbering: its parts have the numbers from the run's first on.
LEMMA SplitKeeps ==
  ASSUME SegmentsInv, NEW S \in SUBSET Visible, S # {}, NEW lo, NEW hi, Split(S, lo, hi)
  PROVE  SegmentsInv'
<1> DEFINE new == NextId
<1>0. /\ new \in Nat \ {0} /\ \A x \in Ids : x < new
      /\ \E k \in Nat \ {0} :
              /\ Ids' = Ids \cup (new .. new + k - 1)
              /\ \A x \in new .. new + k - 1 :
                   /\ IsRow(segs'[x]) /\ segs'[x].order = FirstOrder(S) + (x - new)
                   /\ Unhidden(segs'[x]) /\ segs'[x].isSplit /\ ~segs'[x].isMerge
              /\ \A x \in Ids :
                   /\ IsRow(segs'[x]) /\ segs'[x].mergedInto = segs[x].mergedInto
                   /\ segs'[x].isMerge = segs[x].isMerge /\ segs'[x].isSplit = segs[x].isSplit
                   /\ segs'[x].splitInto = IF x \in S THEN new ELSE segs[x].splitInto
                   /\ x \in Visible \ S =>
                        segs'[x].order = IF segs[x].order > LastOrder(S)
                                  THEN segs[x].order + (k - Cardinality(S)) ELSE segs[x].order
  BY SplitRows
<1> HIDE DEF new
<1>k. PICK k \in Nat \ {0} :
              /\ Ids' = Ids \cup (new .. new + k - 1)
              /\ \A x \in new .. new + k - 1 :
                   /\ IsRow(segs'[x]) /\ segs'[x].order = FirstOrder(S) + (x - new)
                   /\ Unhidden(segs'[x]) /\ segs'[x].isSplit /\ ~segs'[x].isMerge
              /\ \A x \in Ids :
                   /\ IsRow(segs'[x]) /\ segs'[x].mergedInto = segs[x].mergedInto
                   /\ segs'[x].isMerge = segs[x].isMerge /\ segs'[x].isSplit = segs[x].isSplit
                   /\ segs'[x].splitInto = IF x \in S THEN new ELSE segs[x].splitInto
                   /\ x \in Visible \ S =>
                        segs'[x].order = IF segs[x].order > LastOrder(S)
                                  THEN segs[x].order + (k - Cardinality(S)) ELSE segs[x].order
  BY <1>0
<1> DEFINE added == new .. new + k - 1
<1>p. new \in added /\ added \subseteq Nat \ {0} /\ \A x \in added : x >= new /\ x <= new + k - 1
  BY <1>0, <1>k
<1>1. RowsInv'
  <2>1. PICK b \in Nat : Ids \subseteq 1..b
    BY DEF SegmentsInv, RowsInv
  <2>2. Ids' \subseteq 1..(b + new + k) /\ b + new + k \in Nat
    <3>1. /\ b + new + k \in Nat /\ \A x \in 1..b : x \in 1..(b + new + k)
          /\ \A x \in added : x \in 1..(b + new + k)
      BY <1>0, <1>k
    <3> HIDE DEF added
    <3> QED  BY <1>k, <2>1, <3>1 DEF added
  <2>3. \A x \in Ids' : IsRow(segs'[x])
    BY <1>k
  <2> QED  BY <2>2, <2>3 DEF RowsInv
<1>2. HiddenLeadsOn'
  <2>1. ASSUME NEW x \in Ids
        PROVE  /\ segs'[x].mergedInto = 0 \/ segs'[x].splitInto = 0
               /\ segs'[x].mergedInto # 0 =>
                    segs'[x].mergedInto \in Ids' /\ segs'[segs'[x].mergedInto].isMerge
               /\ segs'[x].splitInto # 0 =>
                    segs'[x].splitInto \in Ids' /\ segs'[segs'[x].splitInto].isSplit
               /\ ~(segs'[x].isMerge /\ segs'[x].isSplit)
    <3>1. x \in S => segs[x].mergedInto = 0
      BY DEF Visible
    <3> HIDE DEF added
    <3> QED  BY <1>k, <1>p, <3>1 DEF SegmentsInv, HiddenLeadsOn, added
  <2>2. \A x \in added : /\ segs'[x].mergedInto = 0 /\ segs'[x].splitInto = 0
                         /\ ~(segs'[x].isMerge /\ segs'[x].isSplit)
    BY <1>k DEF Unhidden
  <2> QED  BY <1>k, <2>1, <2>2 DEF HiddenLeadsOn
<1>3. NumberedInv'
  <2>0. \A x \in Visible : x \in Ids /\ segs[x].order \in Int /\ x \notin added
    <3>1. \A x \in Visible : x \in Ids /\ segs[x].order \in Int
      BY DEF Visible, SegmentsInv, RowsInv, IsRow
    <3>2. \A x \in Ids : x \in Nat
      BY DEF SegmentsInv, RowsInv
    <3> QED  BY <1>0, <1>p, <3>1, <3>2
  <2>1. Visible' = (Visible \ S) \cup added
    <3>1. \A x \in added : x \in Visible'
      BY <1>k DEF Visible, Unhidden
    <3>2. \A x \in Ids : x \in Visible' <=> x \in Visible \ S
      BY <1>0, <1>k DEF Visible
    <3>3. Visible' \subseteq Ids \cup added /\ Visible \subseteq Ids
      BY <1>k DEF Visible
    <3> HIDE DEF added
    <3> QED  BY <3>1, <3>2, <3>3
  <2>2. PICK N \in SUBSET Nat : Numbered(Visible, segs, N)
    BY DEF SegmentsInv, NumberedInv
  <2>3. /\ FirstOrder(S) \in N /\ LastOrder(S) \in N /\ FirstOrder(S) <= LastOrder(S)
        /\ FirstOrder(S)..LastOrder(S) \subseteq N
        /\ Cardinality(S) = LastOrder(S) - FirstOrder(S) + 1
        /\ \A x \in Visible : x \in S <=> segs[x].order \in FirstOrder(S)..LastOrder(S)
    BY <2>2, RunOfAdjacent DEF Split, SegmentsInv
  <2>4. PICK a \in Nat : a = FirstOrder(S) /\ a \in N
    BY <2>3
  <2>8. PICK b \in Nat : b = LastOrder(S) /\ b \in N /\ a <= b /\ a..b \subseteq N
    BY <2>3, <2>4
  <2>5. PICK c \in Int : c = a + k - 1
    BY <1>k, <2>4
  <2>6. Replaces(Visible, S, added, segs, segs', a, b, c)
    <3>1. \A x \in Visible \ S : segs'[x].order = IF segs[x].order > b
              THEN segs[x].order + (c - b) ELSE segs[x].order
      <4>1. k - Cardinality(S) = c - b
        BY <1>k, <2>3, <2>4, <2>5, <2>8
      <4> QED  BY <1>k, <2>0, <2>8, <4>1
    <3>2. added \cap (Visible \ S) = {}
      BY <2>0
    <3>3. \A x \in added : segs'[x].order = a + (x - new)
      BY <1>k, <2>4
    <3>4. /\ \A x \in added : segs'[x].order \in a..c
          /\ \A x, y \in added : segs'[x].order = segs'[y].order => x = y
      BY <1>0, <1>k, <2>4, <2>5, <3>3
    <3>5. \A i \in a..c : \E x \in added : segs'[x].order = i
      <4>1. ASSUME NEW i \in a..c  PROVE \E x \in added : segs'[x].order = i
        <5>1. new + (i - a) \in added /\ a + ((new + (i - a)) - new) = i
          BY <1>0, <1>k, <2>4, <2>5
        <5> HIDE DEF added
        <5> QED  BY <3>3, <5>1
      <4> QED  BY <4>1
    <3> QED  BY <2>3, <2>4, <2>8, <3>1, <3>2, <3>4, <3>5 DEF Replaces
  <2>7. a <= c
    BY <1>k, <2>4, <2>5
  <2>9. \E M \in SUBSET Nat : Numbered((Visible \ S) \cup added, segs', M)
    BY <2>2, <2>4, <2>5, <2>6, <2>7, <2>8, RunReplaced
  <2> QED  BY <2>1, <2>9 DEF NumberedInv
<1> QED  BY <1>1, <1>2, <1>3 DEF SegmentsInv

\* What a merge hid.
MergedInto(m) == {x \in Ids : segs[x].mergedInto = m}

\* The rows after a merge's reversal.
LEMMA UnmergeRows ==
  ASSUME SegmentsInv, NEW m \in Visible, Unmerge(m)
  PROVE  /\ Ids' = Ids \ {m} /\ MergedInto(m) # {} /\ segs[m].isMerge
         /\ \A x \in MergedInto(m) : x # m /\ x \notin Visible
         /\ \A x \in Ids \ {m} : LET r == segs'[x] IN
               /\ IsRow(r) /\ r.splitInto = segs[x].splitInto
               /\ r.isMerge = segs[x].isMerge /\ r.isSplit = segs[x].isSplit
               /\ r.mergedInto = IF x \in MergedInto(m) THEN 0 ELSE segs[x].mergedInto
               /\ x \in MergedInto(m) => r.order = segs[m].order + Before(x, MergedInto(m))
               /\ x \in Visible =>
                    r.order = IF segs[x].order > segs[m].order
                              THEN segs[x].order + (Cardinality(MergedInto(m)) - 1)
                              ELSE segs[x].order
<1>1. /\ m \in Ids /\ segs[m].order \in Int /\ MergedInto(m) \in SUBSET Ids
      /\ \A x \in MergedInto(m) : x # m /\ x \notin Visible
  <2>1. m \in Ids /\ segs[m].mergedInto = 0 /\ segs[m].order \in Int
    BY DEF Visible, SegmentsInv, RowsInv, IsRow
  <2>2. m # 0
    BY <2>1, RowsAreFinite DEF SegmentsInv
  <2> QED  BY <2>1, <2>2 DEF MergedInto, Visible
<1> DEFINE since == segs[m].marks \ MarksOf(MergedInto(m))
           later == Shifted(segs, segs[m].order, Cardinality(MergedInto(m)) - 1)
           Back(x) == LET i == Before(x, MergedInto(m))
                      IN [segs[x] EXCEPT !.mergedInto = 0, !.order = segs[m].order + i,
                                         !.marks = @ \cup (IF i = 0 THEN since ELSE {})]
<1>2. /\ segs[m].isMerge /\ MergedInto(m) # {}
      /\ segs' = [x \in Ids \ {m} |-> IF x \in MergedInto(m) THEN Back(x) ELSE later[x]]
  BY DEF Unmerge, MergedInto
<1>3. Ids' = Ids \ {m}
  <2> HIDE DEF Back, later
  <2> QED  BY <1>2 DEF Ids
<1>4. Cardinality(MergedInto(m)) \in Nat
  BY <1>1, RowsAreFinite DEF SegmentsInv
<1>5. ASSUME NEW x \in MergedInto(m)
      PROVE  /\ IsRow(segs'[x]) /\ segs'[x].mergedInto = 0 /\ segs'[x].splitInto = segs[x].splitInto
             /\ segs'[x].isMerge = segs[x].isMerge /\ segs'[x].isSplit = segs[x].isSplit
             /\ segs'[x].order = segs[m].order + Before(x, MergedInto(m))
  <2>1. IsRow(segs[x]) /\ x \in Ids \ {m}
    BY <1>1 DEF SegmentsInv, RowsInv
  <2>2. Before(x, MergedInto(m)) \in Int
    BY <1>1, PlacesAreNumbers DEF SegmentsInv
  <2>3. PICK j \in Int : j = segs[m].order + Before(x, MergedInto(m))
    BY <1>1, <2>2
  <2>4. segs'[x] = Back(x)
    <3> HIDE DEF Back, later
    <3> QED  BY <1>2, <2>1
  <2>5. PICK ks : Back(x) = [segs[x] EXCEPT !.mergedInto = 0, !.order = j, !.marks = ks]
    BY <2>3
  <2> HIDE DEF Back
  <2>6. PICK r : r = segs[x] /\ IsRow(r)
    BY <2>1
  <2>7. PICK s : s = [r EXCEPT !.mergedInto = 0, !.order = j, !.marks = ks]
    OBVIOUS
  <2>8. /\ IsRow(s) /\ s.order = j /\ s.mergedInto = 0 /\ s.splitInto = r.splitInto
        /\ s.isMerge = r.isMerge /\ s.isSplit = r.isSplit
    BY <2>3, <2>6, <2>7 DEF IsRow
  <2> QED  BY <2>3, <2>4, <2>5, <2>6, <2>7, <2>8
<1>6. ASSUME NEW x \in Ids \ {m}, x \notin MergedInto(m)
      PROVE  /\ Like(segs'[x], segs[x])
             /\ segs'[x].order = IF Unhidden(segs[x]) /\ segs[x].order > segs[m].order
                                 THEN segs[x].order + (Cardinality(MergedInto(m)) - 1)
                                 ELSE segs[x].order
  <2>1. IsRow(segs[x]) /\ Cardinality(MergedInto(m)) - 1 \in Int /\ x \in DOMAIN segs
    BY <1>4 DEF SegmentsInv, RowsInv, Ids
  <2>2. segs'[x] = later[x]
    <3> HIDE DEF Back, later
    <3> QED  BY <1>2, <1>6
  <2> QED  BY <1>1, <2>1, <2>2, ShiftedRows DEF Like
<1>7. \A x \in Visible : Unhidden(segs[x])
  BY DEF Visible, Unhidden
<1> HIDE DEF Back, later
<1> QED  BY <1>1, <1>2, <1>3, <1>5, <1>6, <1>7 DEF Like

\* A merge's reversal keeps the numbering: the originals have the numbers from the
\* merged segment's on, in their order.
LEMMA UnmergeKeeps ==
  ASSUME SegmentsInv, NEW m \in Visible, Unmerge(m)
  PROVE  SegmentsInv'
<1> DEFINE T == MergedInto(m)
           k == Cardinality(T)
<1>0. /\ Ids' = Ids \ {m} /\ T # {} /\ segs[m].isMerge
      /\ \A x \in T : x # m /\ x \notin Visible
      /\ \A x \in Ids \ {m} :
               /\ IsRow(segs'[x]) /\ segs'[x].splitInto = segs[x].splitInto
               /\ segs'[x].isMerge = segs[x].isMerge /\ segs'[x].isSplit = segs[x].isSplit
               /\ segs'[x].mergedInto = IF x \in T THEN 0 ELSE segs[x].mergedInto
               /\ x \in T => segs'[x].order = segs[m].order + Before(x, T)
               /\ x \in Visible =>
                    segs'[x].order = IF segs[x].order > segs[m].order
                                     THEN segs[x].order + (k - 1) ELSE segs[x].order
  BY UnmergeRows
<1>t. /\ T \in SUBSET Ids /\ T \subseteq Ids \ {m}
      /\ \A x \in Ids : x \in T <=> segs[x].mergedInto = m
  BY <1>0 DEF MergedInto
<1> HIDE DEF T
<1>m. m \in Ids /\ m # 0 /\ segs[m].mergedInto = 0 /\ segs[m].splitInto = 0
  <2>1. m \in Ids /\ segs[m].mergedInto = 0 /\ segs[m].splitInto = 0
    BY DEF Visible
  <2> QED  BY <2>1, RowsAreFinite DEF SegmentsInv
<1>1. RowsInv'
  <2>1. PICK b \in Nat : Ids \subseteq 1..b
    BY DEF SegmentsInv, RowsInv
  <2> QED  BY <1>0, <2>1 DEF RowsInv
<1>h. \A x \in T : segs[x].mergedInto = m /\ segs[x].splitInto = 0
  BY <1>t, <1>m DEF SegmentsInv, HiddenLeadsOn
<1>2. HiddenLeadsOn'
  <2>1. ASSUME NEW x \in Ids \ {m}
        PROVE  /\ segs'[x].mergedInto = 0 \/ segs'[x].splitInto = 0
               /\ segs'[x].mergedInto # 0 =>
                    segs'[x].mergedInto \in Ids' /\ segs'[segs'[x].mergedInto].isMerge
               /\ segs'[x].splitInto # 0 =>
                    segs'[x].splitInto \in Ids' /\ segs'[segs'[x].splitInto].isSplit
               /\ ~(segs'[x].isMerge /\ segs'[x].isSplit)
    <3>1. /\ segs[x].mergedInto = 0 \/ segs[x].splitInto = 0
          /\ segs[x].mergedInto # 0 => segs[x].mergedInto \in Ids /\ segs[segs[x].mergedInto].isMerge
          /\ segs[x].splitInto # 0 => segs[x].splitInto \in Ids /\ segs[segs[x].splitInto].isSplit
          /\ ~(segs[x].isMerge /\ segs[x].isSplit) /\ ~(segs[m].isMerge /\ segs[m].isSplit)
      BY <1>m DEF SegmentsInv, HiddenLeadsOn
    <3>2. segs[x].splitInto # m
      BY <1>0, <1>m, <3>1
    <3> QED  BY <1>0, <1>t, <3>1, <3>2
  <2> QED  BY <1>0, <2>1 DEF HiddenLeadsOn
<1>3. NumberedInv'
  <2>0. \A x \in Visible : x \in Ids /\ segs[x].order \in Int
    BY DEF Visible, SegmentsInv, RowsInv, IsRow
  <2>1. Visible' = (Visible \ {m}) \cup T
    <3>1. \A x \in Ids \ {m} : x \in Visible' <=> x \in Visible \/ x \in T
      BY <1>0, <1>t, <1>h, <1>m DEF Visible
    <3>2. Visible' \subseteq Ids \ {m} /\ Visible \subseteq Ids
      BY <1>0 DEF Visible
    <3> QED  BY <1>t, <3>1, <3>2
  <2>2. PICK N \in SUBSET Nat : Numbered(Visible, segs, N)
    BY DEF SegmentsInv, NumberedInv
  <2>3. PICK a \in Nat : a = segs[m].order /\ a \in N
    BY <2>2 DEF Numbered
  <2>4. PICK b \in Nat : b = a /\ b \in N /\ a <= b /\ a..b \subseteq N
    BY <2>3
  <2>5. /\ k \in Nat \ {0} /\ \A x \in T : Before(x, T) \in 0..(k - 1)
        /\ \A x, y \in T : Before(x, T) = Before(y, T) => x = y
        /\ \A i \in 0..(k - 1) : \E x \in T : Before(x, T) = i
    <3>1. IsFiniteSet(T) /\ k \in Nat
      BY <1>t, RowsAreFinite DEF SegmentsInv
    <3>2. k # 0
      BY <1>0, <3>1, FS_EmptySet
    <3> QED  BY <1>t, <3>1, <3>2, PlacesAreNumbers DEF SegmentsInv
  <2>6. PICK c \in Int : c = a + k - 1 /\ a <= c /\ k - 1 = c - b
    BY <2>3, <2>4, <2>5
  <2>7. Replaces(Visible, {m}, T, segs, segs', a, b, c)
    <3>1. \A x \in Visible \ {m} : segs'[x].order = IF segs[x].order > b
              THEN segs[x].order + (c - b) ELSE segs[x].order
      BY <1>0, <2>0, <2>3, <2>4, <2>6
    <3>2. T \cap (Visible \ {m}) = {}
      BY <1>0
    <3>3. \A x \in T : segs'[x].order = a + Before(x, T)
      BY <1>0, <1>t, <2>3
    <3>4. \A x \in T : segs'[x].order \in a..c
      BY <2>3, <2>5, <2>6, <3>3
    <3>5. \A x, y \in T : segs'[x].order = segs'[y].order => x = y
      <4>1. ASSUME NEW x \in T, NEW y \in T, segs'[x].order = segs'[y].order  PROVE x = y
        <5>1. Before(x, T) \in Int /\ Before(y, T) \in Int
          BY <2>5
        <5>2. Before(x, T) = Before(y, T)
          BY <2>3, <3>3, <4>1, <5>1
        <5> QED  BY <2>5, <5>2
      <4> QED  BY <4>1
    <3>6. \A i \in a..c : \E x \in T : segs'[x].order = i
      <4>1. ASSUME NEW i \in a..c  PROVE \E x \in T : segs'[x].order = i
        <5>1. i - a \in 0..(k - 1) /\ a + (i - a) = i
          BY <2>3, <2>5, <2>6
        <5>2. PICK x \in T : Before(x, T) = i - a
          BY <2>5, <5>1
        <5> QED  BY <3>3, <5>1, <5>2
      <4> QED  BY <4>1
    <3>7. \A x \in Visible : x \in {m} <=> segs[x].order \in a..b
      BY <2>0, <2>2, <2>3, <2>4 DEF Numbered
    <3> QED  BY <3>1, <3>2, <3>4, <3>5, <3>6, <3>7 DEF Replaces
  <2>8. \E M \in SUBSET Nat : Numbered((Visible \ {m}) \cup T, segs', M)
    BY <2>2, <2>3, <2>4, <2>6, <2>7, RunReplaced
  <2> QED  BY <2>1, <2>8 DEF NumberedInv
<1> QED  BY <1>1, <1>2, <1>3 DEF SegmentsInv

\* The rows after a split's reversal, where one original leads to the siblings.
LEMMA RejoinRows ==
  ASSUME SegmentsInv, OnlyLone, NEW x \in Visible, NEW o \in Ids, Rejoin(x, o)
  PROVE  LET G == Siblings(x)
             at == FirstOrder(G)
             n == Cardinality(G)
         IN  /\ segs[x].isSplit /\ Ids' = Ids \ G /\ o \in Ids \ G
             /\ \A y \in Ids : segs[y].splitInto \in G <=> y = o
             /\ IsRow(segs'[o]) /\ segs'[o].order = at /\ segs'[o].splitInto = 0
             /\ segs'[o].mergedInto = segs[o].mergedInto
             /\ segs'[o].isMerge = segs[o].isMerge /\ segs'[o].isSplit = segs[o].isSplit
             /\ \A y \in Ids \ G : y # o =>
                  /\ Like(segs'[y], segs[y])
                  /\ y \in Visible => segs'[y].order = IF segs[y].order > at + n - 1
                                      THEN segs[y].order + (1 - n) ELSE segs[y].order
<1> DEFINE G == Siblings(x)
           at == FirstOrder(G)
           n == Cardinality(G)
           left == [y \in Ids \ G |->
                     IF segs[y].splitInto \in G THEN [segs[y] EXCEPT !.splitInto = 0]
                     ELSE segs[y]]
           later == Shifted(left, at + n - 1, 1 - n)
           back == [segs[o] EXCEPT !.splitInto = 0, !.order = at, !.marks = @ \cup MarksOf(G)]
<1>1. segs[x].isSplit /\ Lone(x) /\ o \in OriginalsOf(x) /\ segs' = [later EXCEPT ![o] = back]
  BY DEF Rejoin
<1>2. /\ G \subseteq Visible /\ x \in G /\ G \subseteq Ids
      /\ at \in Int /\ n \in Nat /\ at + n - 1 \in Int /\ 1 - n \in Int
  <2>1. PICK N \in SUBSET Nat : Numbered(Visible, segs, N)
    BY DEF SegmentsInv, NumberedInv
  <2>2. G \subseteq Visible /\ at \in Nat /\ n \in Nat
    BY <1>1, <2>1, SiblingsAreARun DEF SegmentsInv
  <2>3. x \in G
    <3>1. \A v \in Visible : v \in Ids /\ segs[v].order \in Int /\ v \in Int
      <4>1. Ids \subseteq Int
        BY DEF SegmentsInv, RowsInv
      <4> QED  BY <4>1 DEF SegmentsInv, RowsInv, IsRow, Visible
    <3>2. \A v, w \in Visible : ~Precedes(v, x) /\ ~Precedes(x, v) => v = x
      BY <3>1, PrecedesIsTotal DEF SegmentsInv
    <3>3. ~Precedes(x, x)
      BY <3>1, PrecedesIsTotal DEF SegmentsInv
    <3> QED  BY <1>1, <3>2, <3>3 DEF Siblings
  <2> HIDE DEF G
  <2>4. at \in Int /\ at + n - 1 \in Int /\ 1 - n \in Int
    BY <2>2
  <2> QED  BY <2>2, <2>3, <2>4 DEF Visible
<1> DEFINE pointing == {y \in Ids : segs[y].splitInto \in G}
<1>3. pointing = {o}
  <2>1. Cardinality(pointing) = 1
    BY <1>1 DEF Lone
  <2>2. o \in pointing
    BY <1>1, <1>2 DEF OriginalsOf
  <2>3. IsFiniteSet(pointing)
    BY RowsAreFinite DEF SegmentsInv
  <2> HIDE DEF pointing
  <2> QED  BY <2>1, <2>2, <2>3, FS_Singleton
<1>4. /\ o \in Ids \ G /\ \A y \in Ids : segs[y].splitInto \in G <=> y = o
  <2>1. \A y \in Ids : segs[y].splitInto \in G <=> y = o
    BY <1>3
  <2>2. 0 \notin G
    BY <1>2, RowsAreFinite DEF SegmentsInv
  <2>3. \A y \in G : segs[y].splitInto = 0
    BY <1>2 DEF Visible
  <2> HIDE DEF G
  <2> QED  BY <2>1, <2>2, <2>3
<1> HIDE DEF pointing, G
<1>5. DOMAIN later = Ids \ G /\ DOMAIN left = Ids \ G
  BY DEF Shifted
<1>6. Ids' = Ids \ G /\ segs'[o] = back /\ \A y \in Ids \ G : y # o => segs'[y] = later[y]
  <2> HIDE DEF later, back
  <2> QED  BY <1>1, <1>4, <1>5 DEF Ids
<1>7. /\ IsRow(segs'[o]) /\ segs'[o].order = at /\ segs'[o].splitInto = 0
      /\ segs'[o].mergedInto = segs[o].mergedInto
      /\ segs'[o].isMerge = segs[o].isMerge /\ segs'[o].isSplit = segs[o].isSplit
  <2>1. PICK r : r = segs[o] /\ IsRow(r)
    BY DEF SegmentsInv, RowsInv
  <2>2. PICK j \in Int : j = at
    BY <1>2
  <2>3. PICK ks : back = [segs[o] EXCEPT !.splitInto = 0, !.order = at, !.marks = ks]
    OBVIOUS
  <2>4. PICK s : s = [r EXCEPT !.splitInto = 0, !.order = j, !.marks = ks]
    OBVIOUS
  <2>5. s = segs'[o]
    <3> HIDE DEF back
    <3> QED  BY <1>6, <2>1, <2>2, <2>3, <2>4
  <2>6. /\ IsRow(s) /\ s.order = j /\ s.splitInto = 0 /\ s.mergedInto = r.mergedInto
        /\ s.isMerge = r.isMerge /\ s.isSplit = r.isSplit
    BY <2>1, <2>2, <2>4 DEF IsRow
  <2> QED  BY <2>1, <2>2, <2>5, <2>6
<1>8. ASSUME NEW y \in Ids \ G, y # o
      PROVE  /\ Like(segs'[y], segs[y])
             /\ y \in Visible => segs'[y].order = IF segs[y].order > at + n - 1
                                 THEN segs[y].order + (1 - n) ELSE segs[y].order
  <2>1. left[y] = segs[y] /\ y \in DOMAIN left /\ IsRow(left[y])
    BY <1>4, <1>8 DEF SegmentsInv, RowsInv
  <2>2. y \in Visible => Unhidden(segs[y])
    BY DEF Visible, Unhidden
  <2> HIDE DEF left, at, n
  <2>3. segs'[y] = Shifted(left, at + n - 1, 1 - n)[y]
    BY <1>6, <1>8
  <2> QED  BY <1>2, <2>1, <2>2, <2>3, ShiftedRows DEF Like
<1> QED  BY <1>1, <1>4, <1>6, <1>7, <1>8 DEF G

\* A split's reversal keeps the numbering, with one number for the siblings.
LEMMA RejoinKeeps ==
  ASSUME SegmentsInv, OnlyLone, NEW x \in Visible, NEW o \in Ids, Rejoin(x, o)
  PROVE  SegmentsInv'
<1> DEFINE G == Siblings(x)
           at == FirstOrder(G)
           n == Cardinality(G)
<1>0. /\ segs[x].isSplit /\ Ids' = Ids \ G /\ o \in Ids \ G
      /\ \A y \in Ids : segs[y].splitInto \in G <=> y = o
      /\ IsRow(segs'[o]) /\ segs'[o].order = at /\ segs'[o].splitInto = 0
      /\ segs'[o].mergedInto = segs[o].mergedInto
      /\ segs'[o].isMerge = segs[o].isMerge /\ segs'[o].isSplit = segs[o].isSplit
      /\ \A y \in Ids \ G : y # o =>
           /\ Like(segs'[y], segs[y])
           /\ y \in Visible => segs'[y].order = IF segs[y].order > at + n - 1
                               THEN segs[y].order + (1 - n) ELSE segs[y].order
  BY RejoinRows
<1>k. PICK N \in SUBSET Nat : Numbered(Visible, segs, N)
  BY DEF SegmentsInv, NumberedInv
<1>s. /\ G \subseteq Visible /\ G # {} /\ \A y \in G : segs[y].isSplit
      /\ at \in N /\ at + n - 1 \in N /\ n \in Nat \ {0} /\ at .. (at + n - 1) \subseteq N
      /\ \A y \in Visible : y \in G <=> segs[y].order \in at .. (at + n - 1)
  BY <1>0, <1>k, SiblingsAreARun DEF SegmentsInv
<1>a. PICK a \in Nat : a = at /\ a \in N
  BY <1>s
<1>b. PICK b \in Nat : b = at + n - 1 /\ b \in N /\ a <= b /\ a..b \subseteq N
  BY <1>s, <1>a
<1> HIDE DEF G, at, n
<1>o. segs[o].splitInto # 0 /\ segs[o].mergedInto = 0 /\ o \notin Visible
  <2>1. segs[o].splitInto \in G
    BY <1>0
  <2>2. segs[o].splitInto # 0
    BY <1>s, <2>1, RowsAreFinite DEF SegmentsInv, Visible
  <2> QED  BY <1>0, <2>2 DEF SegmentsInv, HiddenLeadsOn, Visible
<1>1. RowsInv'
  <2>1. PICK c \in Nat : Ids \subseteq 1..c
    BY DEF SegmentsInv, RowsInv
  <2> QED  BY <1>0, <2>1 DEF RowsInv, Like
<1>2. HiddenLeadsOn'
  <2>1. ASSUME NEW y \in Ids \ G
        PROVE  /\ segs'[y].mergedInto = 0 \/ segs'[y].splitInto = 0
               /\ segs'[y].mergedInto # 0 =>
                    segs'[y].mergedInto \in Ids' /\ segs'[segs'[y].mergedInto].isMerge
               /\ segs'[y].splitInto # 0 =>
                    segs'[y].splitInto \in Ids' /\ segs'[segs'[y].splitInto].isSplit
               /\ ~(segs'[y].isMerge /\ segs'[y].isSplit)
    <3>1. /\ segs[y].mergedInto = 0 \/ segs[y].splitInto = 0
          /\ segs[y].mergedInto # 0 => segs[y].mergedInto \in Ids /\ segs[segs[y].mergedInto].isMerge
          /\ segs[y].splitInto # 0 => segs[y].splitInto \in Ids /\ segs[segs[y].splitInto].isSplit
          /\ ~(segs[y].isMerge /\ segs[y].isSplit)
      BY DEF SegmentsInv, HiddenLeadsOn
    <3>2. \A z \in Ids \ G : segs'[z].isMerge = segs[z].isMerge /\ segs'[z].isSplit = segs[z].isSplit
                             /\ segs'[z].mergedInto = segs[z].mergedInto
                             /\ segs'[z].splitInto = IF z = o THEN 0 ELSE segs[z].splitInto
      BY <1>0 DEF Like
    <3>3. segs[y].mergedInto # 0 => segs[y].mergedInto \notin G
      BY <1>s, <3>1 DEF SegmentsInv, HiddenLeadsOn, Visible
    <3>4. y # o => segs[y].splitInto \notin G
      BY <1>0
    <3> QED  BY <1>0, <3>1, <3>2, <3>3, <3>4
  <2> QED  BY <1>0, <2>1 DEF HiddenLeadsOn
<1>3. NumberedInv'
  <2>0. \A y \in Visible : y \in Ids /\ segs[y].order \in Int
    BY DEF Visible, SegmentsInv, RowsInv, IsRow
  <2>1. Visible' = (Visible \ G) \cup {o}
    <3>1. \A y \in Ids \ G : y \in Visible' <=> y \in Visible \/ y = o
      BY <1>0, <1>o DEF Visible, Like
    <3>2. Visible' \subseteq Ids \ G /\ Visible \subseteq Ids
      BY <1>0 DEF Visible
    <3> QED  BY <1>0, <3>1, <3>2
  <2>2. 1 - n = a - b
    BY <1>s, <1>a, <1>b
  <2>3. Replaces(Visible, G, {o}, segs, segs', a, b, a)
    <3>1. \A y \in Visible \ G : segs'[y].order = IF segs[y].order > b
              THEN segs[y].order + (a - b) ELSE segs[y].order
      BY <1>0, <1>b, <1>o, <2>0, <2>2
    <3>2. {o} \cap (Visible \ G) = {}
      BY <1>o
    <3>3. segs'[o].order = a /\ a \in Int
      BY <1>0, <1>a
    <3>4. \A y \in Visible : y \in G <=> segs[y].order \in a..b
      BY <1>s, <1>a, <1>b
    <3> QED  BY <3>1, <3>2, <3>3, <3>4 DEF Replaces
  <2>4. a \in Int /\ a <= a
    BY <1>a
  <2>5. \E M \in SUBSET Nat : Numbered((Visible \ G) \cup {o}, segs', M)
    BY <1>k, <1>s, <1>a, <1>b, <2>3, <2>4, RunReplaced
  <2> QED  BY <2>1, <2>5 DEF NumberedInv
<1> QED  BY <1>1, <1>2, <1>3 DEF SegmentsInv

\* Coding changes marks only.
LEMMA MarkKeeps ==
  ASSUME SegmentsInv, NEW x \in Visible, NEW k, AddMark(x, k) \/ RemoveMark(x, k)
  PROVE  SegmentsInv'
<1>1. PICK ks : segs' = [segs EXCEPT ![x].marks = ks]
  BY DEF AddMark, RemoveMark
<1>2. x \in Ids /\ Ids' = Ids
  BY <1>1 DEF Ids, Visible
<1>3. ASSUME NEW y \in Ids
      PROVE  Like(segs'[y], segs[y]) /\ segs'[y].order = segs[y].order
  <2>1. IsRow(segs[y])
    BY DEF SegmentsInv, RowsInv
  <2>2. CASE y = x
    <3>1. PICK r : r = segs[x] /\ IsRow(r)
      BY <2>1, <2>2
    <3>2. PICK s : s = [r EXCEPT !.marks = ks]
      OBVIOUS
    <3>3. segs'[x] = s
      BY <1>1, <1>2, <3>1, <3>2 DEF Ids
    <3>4. Like(s, r) /\ s.order = r.order
      BY <3>1, <3>2 DEF IsRow, Like
    <3> QED  BY <2>2, <3>1, <3>3, <3>4
  <2>3. CASE y # x
    <3>1. segs'[y] = segs[y]
      BY <1>1, <1>2, <2>3 DEF Ids
    <3> QED  BY <2>1, <3>1 DEF Like
  <2> QED  BY <2>2, <2>3
<1>4. RowsInv'
  BY <1>2, <1>3 DEF SegmentsInv, RowsInv, Like
<1>5. HiddenLeadsOn'
  BY <1>2, <1>3 DEF SegmentsInv, HiddenLeadsOn, Like
<1>6. NumberedInv'
  <2>1. Visible' = Visible /\ Visible \subseteq Ids
    BY <1>2, <1>3 DEF Visible, Like
  <2>2. PICK N \in SUBSET Nat : Numbered(Visible, segs, N)
    BY DEF SegmentsInv, NumberedInv
  <2>3. Numbered(Visible, segs', N)
    BY <1>3, <2>1, <2>2 DEF Numbered
  <2> QED  BY <2>1, <2>3 DEF NumberedInv
<1> QED  BY <1>4, <1>5, <1>6 DEF SegmentsInv
------------------------------------------------------------------------------
(* Theorems *)

\* What is imported is numbered as it came.
LEMMA InitGivesInv == SegmentsInit => SegmentsInv
<1> SUFFICES ASSUME SegmentsInit PROVE SegmentsInv
  OBVIOUS
<1>1. PICK n \in Nat : n = Len(Rows) /\ DOMAIN Rows = 1..n
  BY SegmentsAssumption
<1>2. Ids = Imported /\ Imported \subseteq 1..n /\ Imported # {}
  BY <1>1, SegmentsAssumption DEF SegmentsInit, Ids, Imported
<1>3. ASSUME NEW x \in Ids
      PROVE  /\ IsRow(segs[x]) /\ segs[x].order = x - 1 /\ segs[x].mergedInto = 0
             /\ segs[x].splitInto = 0 /\ segs[x].isMerge = FALSE /\ segs[x].isSplit = FALSE
  <2>1. x \in Int /\ segs[x] = Segment(Rows[x], x - 1, {})
    BY <1>1, <1>2 DEF SegmentsInit
  <2>2. PICK j \in Int : j = x - 1
    BY <2>1
  <2>3. PICK r : r = Segment(Rows[x], j, {})
    OBVIOUS
  <2>4. /\ IsRow(r) /\ r.order = j /\ r.mergedInto = 0
        /\ r.splitInto = 0 /\ r.isMerge = FALSE /\ r.isSplit = FALSE
    BY <2>2, <2>3 DEF IsRow, Segment
  <2> QED  BY <2>1, <2>2, <2>3, <2>4
<1>4. RowsInv
  BY <1>1, <1>2, <1>3 DEF RowsInv
<1>5. HiddenLeadsOn
  BY <1>3 DEF HiddenLeadsOn
<1>6. NumberedInv
  <2>1. Visible = Imported
    BY <1>2, <1>3 DEF Visible
  <2> DEFINE N == {i - 1 : i \in Imported}
  <2>2. N \subseteq 0..n
    BY <1>1, <1>2
  <2>3. \A x \in Imported : segs[x].order = x - 1 /\ x \in Int
    <3>1. 1..n \subseteq Int
      BY <1>1
    <3> QED  BY <1>2, <1>3, <3>1
  <2>4. Numbered(Imported, segs, N)
    <3>1. \A x \in Imported : x - 1 \in N
      OBVIOUS
    <3>2. \A i \in N : \E x \in Imported : i = x - 1
      OBVIOUS
    <3>3. \A x, y \in Imported : segs[x].order = segs[y].order => x = y
      BY <2>3
    <3>4. Cardinality(Breaks(N)) = Cardinality(Breaks({i - 1 : i \in Imported}))
      OBVIOUS
    <3> HIDE DEF N
    <3> QED  BY <1>1, <2>2, <2>3, <3>1, <3>2, <3>3, <3>4 DEF Numbered
  <2>5. N \in SUBSET Nat
    BY <2>2
  <2> HIDE DEF N
  <2> QED  BY <2>1, <2>4, <2>5 DEF NumberedInv
<1> QED  BY <1>4, <1>5, <1>6 DEF SegmentsInv

\* The strengthened invariant is inductive, while a rejoin has one original.
LEMMA StepKeepsInv ==
  ASSUME OnlyLone, SegmentsInv, [SegmentsNext]_segs
  PROVE  SegmentsInv'
<1>1. CASE UNCHANGED segs
  <2>1. Ids' = Ids /\ Visible' = Visible /\ segs' = segs
    BY <1>1 DEF Visible, Ids
  <2>2. RowsInv'
    BY <2>1 DEF SegmentsInv, RowsInv
  <2>3. HiddenLeadsOn'
    BY <2>1 DEF SegmentsInv, HiddenLeadsOn
  <2>4. NumberedInv'
    BY <2>1 DEF SegmentsInv, NumberedInv
  <2> QED  BY <2>2, <2>3, <2>4 DEF SegmentsInv
<1>2. ASSUME NEW S \in (SUBSET Visible) \ {{}}, Merge(S)  PROVE SegmentsInv'
  BY <1>2, MergeKeeps
<1>3. ASSUME NEW S \in (SUBSET Visible) \ {{}}, NEW lo, NEW hi, Split(S, lo, hi)
      PROVE  SegmentsInv'
  BY <1>3, SplitKeeps
<1>4. ASSUME NEW x \in Visible, Unmerge(x)  PROVE SegmentsInv'
  BY <1>4, UnmergeKeeps
<1>5. ASSUME NEW x \in Visible, NEW o \in Ids, Rejoin(x, o)  PROVE SegmentsInv'
  BY <1>5, RejoinKeeps
<1>6. ASSUME NEW x \in Visible, NEW k \in Mark, AddMark(x, k) \/ RemoveMark(x, k)
      PROVE  SegmentsInv'
  BY <1>6, MarkKeeps
<1> QED  BY <1>1, <1>2, <1>3, <1>4, <1>5, <1>6 DEF SegmentsNext

\* For any rows imported, some of them empty: rows are rows, hidden segments lead on
\* and the visible ones are numbered.
THEOREM SegmentsInvariant == OnlyLone /\ SegmentsSpec => []SegmentsInv
<1> SUFFICES ASSUME OnlyLone PROVE SegmentsSpec => []SegmentsInv
  OBVIOUS
<1>1. SegmentsInv /\ [SegmentsNext]_segs => SegmentsInv'
  BY StepKeepsInv
<1> QED  BY InitGivesInv, <1>1, PTL DEF SegmentsSpec

\* Whatever rows the import leaves out: no merge, split or reversal uses a number of a
\* visible segment twice or leaves one more out.
THEOREM NumberingIsKept == OnlyLone /\ SegmentsSpec => []NumberingHolds
<1> SUFFICES ASSUME OnlyLone PROVE SegmentsSpec => []NumberingHolds
  OBVIOUS
<1>1. SegmentsInv => NumberingHolds
  <2> SUFFICES ASSUME SegmentsInv PROVE NumberingHolds
    OBVIOUS
  <2>1. PICK N \in SUBSET Nat : Numbered(Visible, segs, N)
    BY DEF SegmentsInv, NumberedInv
  <2>2. {segs[x].order : x \in Visible} = N
    <3>1. \A x \in Visible : segs[x].order \in N
      BY <2>1 DEF Numbered
    <3>2. \A i \in N : \E x \in Visible : segs[x].order = i
      BY <2>1 DEF Numbered
    <3> QED  BY <3>1, <3>2
  <2> QED  BY <2>1, <2>2 DEF Numbered, NumberingHolds
<1>2. SegmentsSpec => []SegmentsInv
  BY SegmentsInvariant
<1> QED  BY <1>1, <1>2, PTL

\* A hidden segment is hidden by one merge or one split that is still there, so that the
\* reversal that would bring it back can be asked for.
THEOREM HiddenIsNeverDangling == OnlyLone /\ SegmentsSpec => []HiddenLeadsOn
<1> SUFFICES ASSUME OnlyLone PROVE SegmentsSpec => []HiddenLeadsOn
  OBVIOUS
<1>1. SegmentsInv => HiddenLeadsOn
  BY DEF SegmentsInv
<1>2. SegmentsSpec => []SegmentsInv
  BY SegmentsInvariant
<1> QED  BY <1>1, <1>2, PTL

==============================================================================
