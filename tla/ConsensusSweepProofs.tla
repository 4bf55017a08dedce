------------------------ MODULE ConsensusSweepProofs ------------------------
(***************************************************************************)
(* Proofs about ConsensusSweep, for any targets, votes, drainers, batch    *)
(* size and bounds: a stale consensus has a marker unless its target was   *)
(* overtaken or its marker has the id of one that a drainer had loaded,    *)
(* the second never where there is one drainer; a call is bounded however  *)
(* many markers are stuck, and no failure is carried twice.                *)
(***************************************************************************)
EXTENDS ConsensusSweep, TLAPS, WellFoundedInduction

------------------------------------------------------------------------------
(* Sequences *)

\* A set of natural numbers that is not empty has a smallest: what proofs by
\* induction below rest on.
LEMMA LeastElement ==
  ASSUME NEW S, S \subseteq Nat, S # {}
  PROVE  \E least \in S : \A m \in S : least <= m
<1> DEFINE R == {ss \in Nat \X Nat : ss[1] < ss[2]}
<1>1. IsWellFoundedOn(R, Nat)
  BY NatLessThanWellFounded, SMT DEF OpToRel
<1>2. \A n, m \in Nat : m < n => <<m, n>> \in R
  OBVIOUS
<1> HIDE DEF R
<1>3. PICK n \in S : \A m \in S : ~(<<m, n>> \in R)
  BY <1>1, WFMin
<1>4. \A m \in S : ~(m < n)
  BY <1>2, <1>3
<1> QED  BY <1>3, <1>4

\* The elements of a sequence, one added, the first taken away, a part.
LEMMA ToSetAppend ==
  ASSUME NEW T, NEW s \in Seq(T), NEW x \in T
  PROVE  ToSet(Append(s, x)) = ToSet(s) \cup {x}
<1>1. /\ DOMAIN Append(s, x) = 1..(Len(s) + 1) /\ Append(s, x)[Len(s) + 1] = x
      /\ \A i \in 1..Len(s) : Append(s, x)[i] = s[i]
  OBVIOUS
<1>2. DOMAIN s = 1..Len(s) /\ Len(s) \in Nat
  OBVIOUS
<1> QED  BY <1>1, <1>2 DEF ToSet

\* A new element leaves a sequence without doubles.
LEMMA InjectiveAppend ==
  ASSUME NEW T, NEW s \in Seq(T), NEW x \in T, IsInjective(s), x \notin ToSet(s)
  PROVE  IsInjective(Append(s, x))
<1>1. /\ DOMAIN Append(s, x) = 1..(Len(s) + 1) /\ Append(s, x)[Len(s) + 1] = x
      /\ \A i \in 1..Len(s) : Append(s, x)[i] = s[i]
  OBVIOUS
<1>2. DOMAIN s = 1..Len(s) /\ Len(s) \in Nat
  OBVIOUS
<1> QED  BY <1>1, <1>2 DEF ToSet, IsInjective

\* Rows as the queue has them: the ids increase, no two are of one target.
Increasing(s) == \A i, k \in DOMAIN s : i < k => s[i].id < s[k].id /\ s[i].of # s[k].of

\* A row after the others keeps them increasing.
LEMMA IncreasingAppend ==
  ASSUME NEW T, NEW s \in Seq(T), NEW x \in T, Increasing(s),
         \A y \in ToSet(s) : y.id < x.id /\ y.of # x.of
  PROVE  Increasing(Append(s, x))
<1>1. /\ DOMAIN Append(s, x) = 1..(Len(s) + 1) /\ Append(s, x)[Len(s) + 1] = x
      /\ \A i \in 1..Len(s) : Append(s, x)[i] = s[i]
  OBVIOUS
<1>2. DOMAIN s = 1..Len(s) /\ Len(s) \in Nat
  OBVIOUS
<1>3. \A i \in 1..Len(s) : s[i].id < x.id /\ s[i].of # x.of
  BY <1>2 DEF ToSet
<1> QED  BY <1>1, <1>2, <1>3 DEF Increasing

\* What the first element taken away leaves.
LEMMA TailProperties ==
  ASSUME NEW T, NEW s \in Seq(T), s # <<>>
  PROVE  /\ Tail(s) \in Seq(T) /\ Head(s) \in T /\ Head(s) \in ToSet(s)
         /\ Len(Tail(s)) = Len(s) - 1
         /\ ToSet(Tail(s)) \subseteq ToSet(s)
         /\ ToSet(s) = ToSet(Tail(s)) \cup {Head(s)}
         /\ IsInjective(s) => IsInjective(Tail(s)) /\ Head(s) \notin ToSet(Tail(s))
<1>1. /\ DOMAIN s = 1..Len(s) /\ Len(s) \in Nat \ {0} /\ Head(s) = s[1]
      /\ DOMAIN Tail(s) = 1..(Len(s) - 1) /\ Len(Tail(s)) = Len(s) - 1
      /\ \A i \in 1..(Len(s) - 1) : Tail(s)[i] = s[i + 1]
      /\ Tail(s) \in Seq(T) /\ Head(s) \in T
  OBVIOUS
<1>2. ToSet(s) = ToSet(Tail(s)) \cup {Head(s)}
  <2>1. ASSUME NEW i \in 1..Len(s)  PROVE s[i] \in ToSet(Tail(s)) \cup {Head(s)}
    <3>1. CASE i = 1
      BY <1>1, <3>1
    <3>2. CASE i # 1
      <4>1. i - 1 \in DOMAIN Tail(s) /\ Tail(s)[i - 1] = s[i]
        BY <1>1, <3>2
      <4> QED  BY <4>1 DEF ToSet
    <3> QED  BY <3>1, <3>2
  <2>2. \A i \in DOMAIN Tail(s) : Tail(s)[i] = s[i + 1] /\ i + 1 \in DOMAIN s
    BY <1>1
  <2>3. 1 \in DOMAIN s
    BY <1>1
  <2> QED  BY <1>1, <2>1, <2>2, <2>3 DEF ToSet
<1>3. ASSUME IsInjective(s)  PROVE IsInjective(Tail(s)) /\ Head(s) \notin ToSet(Tail(s))
  BY <1>1, <1>3 DEF IsInjective, ToSet
<1> QED  BY <1>1, <1>2, <1>3

\* Two sequences, one after the other.
LEMMA ConcatenationProperties ==
  ASSUME NEW T, NEW s \in Seq(T), NEW r \in Seq(T)
  PROVE  /\ s \o r \in Seq(T) /\ Len(s \o r) = Len(s) + Len(r)
         /\ ToSet(s \o r) = ToSet(s) \cup ToSet(r)
         /\ IsInjective(s) /\ IsInjective(r) /\ ToSet(s) \cap ToSet(r) = {}
              => IsInjective(s \o r)
<1>1. /\ DOMAIN s = 1..Len(s) /\ DOMAIN r = 1..Len(r) /\ Len(s) \in Nat /\ Len(r) \in Nat
      /\ DOMAIN (s \o r) = 1..(Len(s) + Len(r)) /\ Len(s \o r) = Len(s) + Len(r)
      /\ \A i \in 1..Len(s) : (s \o r)[i] = s[i]
      /\ \A i \in (Len(s) + 1)..(Len(s) + Len(r)) : (s \o r)[i] = r[i - Len(s)]
      /\ s \o r \in Seq(T)
  OBVIOUS
<1>2. ToSet(s \o r) = ToSet(s) \cup ToSet(r)
  <2>1. \A i \in 1..(Len(s) + Len(r)) : (s \o r)[i] \in ToSet(s) \cup ToSet(r)
    BY <1>1 DEF ToSet
  <2>2. \A i \in 1..Len(s) : i \in DOMAIN (s \o r) /\ s[i] = (s \o r)[i]
    BY <1>1
  <2>3. \A i \in 1..Len(r) : Len(s) + i \in DOMAIN (s \o r) /\ r[i] = (s \o r)[Len(s) + i]
    BY <1>1
  <2>4. ToSet(s \o r) = {(s \o r)[i] : i \in 1..(Len(s) + Len(r))}
    BY <1>1 DEF ToSet
  <2>5. ToSet(s) = {s[i] : i \in 1..Len(s)} /\ ToSet(r) = {r[i] : i \in 1..Len(r)}
    BY <1>1 DEF ToSet
  <2>6. ToSet(s) \subseteq ToSet(s \o r) /\ ToSet(r) \subseteq ToSet(s \o r)
    BY <1>1, <2>2, <2>3, <2>4, <2>5
  <2> QED  BY <2>1, <2>4, <2>6
<1>3. ASSUME IsInjective(s), IsInjective(r), ToSet(s) \cap ToSet(r) = {}
      PROVE  IsInjective(s \o r)
  <2>1. \A i \in 1..Len(s), j \in 1..Len(r) : s[i] # r[j]
    BY <1>1, <1>3 DEF ToSet
  <2> QED  BY <1>1, <1>3, <2>1 DEF IsInjective
<1> QED  BY <1>1, <1>2, <1>3

\* FirstOf and AllButFirstOf cut a sequence in two.
LEMMA CutProperties ==
  ASSUME NEW T, NEW s \in Seq(T)
  PROVE  /\ FirstOf(s) \in Seq(T) /\ AllButFirstOf(s) \in Seq(T)
         /\ Len(FirstOf(s)) <= Limit
         /\ ToSet(FirstOf(s)) \subseteq ToSet(s) /\ ToSet(AllButFirstOf(s)) \subseteq ToSet(s)
         /\ IsInjective(s) => /\ IsInjective(FirstOf(s)) /\ IsInjective(AllButFirstOf(s))
                              /\ ToSet(FirstOf(s)) \cap ToSet(AllButFirstOf(s)) = {}
         /\ Increasing(s) => Increasing(FirstOf(s))
<1> DEFINE n == IF Len(s) < Limit THEN Len(s) ELSE Limit
<1>1. Limit \in Nat \ {0} /\ DOMAIN s = 1..Len(s) /\ Len(s) \in Nat
  BY SweepAssumption
<1>2. n \in Nat /\ n <= Limit /\ n <= Len(s)
  BY <1>1
<1> HIDE DEF n
<1>3. /\ SubSeq(s, 1, n) \in Seq(T) /\ Len(SubSeq(s, 1, n)) = n
      /\ DOMAIN SubSeq(s, 1, n) = 1..n
      /\ \A i \in 1..n : SubSeq(s, 1, n)[i] = s[i]
  BY <1>1, <1>2
<1>4. /\ SubSeq(s, Limit + 1, Len(s)) \in Seq(T)
      /\ DOMAIN SubSeq(s, Limit + 1, Len(s)) = 1..(Len(s) - Limit)
      /\ \A i \in 1..(Len(s) - Limit) : SubSeq(s, Limit + 1, Len(s))[i] = s[Limit + i]
  BY <1>1
<1>5. FirstOf(s) = SubSeq(s, 1, n) /\ AllButFirstOf(s) = SubSeq(s, Limit + 1, Len(s))
  BY DEF FirstOf, AllButFirstOf, n
<1>6. \A i \in 1..n : i \in DOMAIN s
  BY <1>1, <1>2
<1>7. \A i \in 1..(Len(s) - Limit) : Limit + i \in DOMAIN s
  BY <1>1
<1>8. /\ ToSet(FirstOf(s)) = {s[i] : i \in 1..n}
      /\ ToSet(AllButFirstOf(s)) = {s[Limit + j] : j \in 1..(Len(s) - Limit)}
  <2>1. ToSet(SubSeq(s, 1, n)) = {s[i] : i \in 1..n}
    BY <1>3 DEF ToSet
  <2>2. ToSet(SubSeq(s, Limit + 1, Len(s))) = {s[Limit + j] : j \in 1..(Len(s) - Limit)}
    BY <1>4 DEF ToSet
  <2> QED  BY <1>5, <2>1, <2>2
<1>9. ASSUME IsInjective(s)
      PROVE  /\ IsInjective(FirstOf(s)) /\ IsInjective(AllButFirstOf(s))
             /\ ToSet(FirstOf(s)) \cap ToSet(AllButFirstOf(s)) = {}
  <2>1. IsInjective(FirstOf(s))
    BY <1>3, <1>5, <1>6, <1>9 DEF IsInjective
  <2>2. IsInjective(AllButFirstOf(s))
    BY <1>1, <1>4, <1>5, <1>7, <1>9 DEF IsInjective
  <2>3. \A i \in 1..n, j \in 1..(Len(s) - Limit) : s[i] # s[Limit + j]
    BY <1>1, <1>2, <1>6, <1>7, <1>9 DEF IsInjective
  <2> QED  BY <1>8, <2>1, <2>2, <2>3
<1>10. ToSet(FirstOf(s)) \subseteq ToSet(s) /\ ToSet(AllButFirstOf(s)) \subseteq ToSet(s)
  BY <1>6, <1>7, <1>8 DEF ToSet
<1>11. Increasing(s) => Increasing(FirstOf(s))
  BY <1>1, <1>2, <1>3, <1>5, <1>6 DEF Increasing
<1> QED  BY <1>2, <1>3, <1>4, <1>5, <1>9, <1>10, <1>11

\* The recursive function of Without, up to n.
Keeps(g, s, S, n) ==
  g = [i \in 0..n |-> IF i = 0 THEN <<>>
                      ELSE IF s[i] \in S THEN g[i - 1] ELSE Append(g[i - 1], s[i])]

\* There is such a function.
LEMMA KeepsExists == ASSUME NEW s, NEW S, NEW k \in Nat  PROVE \E g : Keeps(g, s, S, k)
<1> DEFINE Bad == {n \in Nat : ~ \E g : Keeps(g, s, S, n)}
<1>1. SUFFICES ASSUME Bad # {} PROVE FALSE
  OBVIOUS
<1>0. Bad \subseteq Nat
  OBVIOUS
<1>2. PICK n \in Bad : \A m \in Bad : n <= m
  <2> HIDE DEF Bad
  <2> QED  BY <1>0, <1>1, LeastElement
<1>3. Keeps([i \in 0..0 |-> <<>>], s, S, 0)
  BY DEF Keeps
<1>4. n # 0
  BY <1>2, <1>3
<1>5. PICK g : Keeps(g, s, S, n - 1)
  <2>1. n - 1 \in Nat /\ n - 1 \notin Bad
    BY <1>2, <1>4
  <2> QED  BY <2>1
<1> DEFINE last == IF s[n] \in S THEN g[n - 1] ELSE Append(g[n - 1], s[n])
           h == [i \in 0..n |-> IF i = n THEN last ELSE g[i]]
<1>6. \A i \in 0..(n - 1) : h[i] = g[i]
  BY <1>2
<1>7. h[n] = last
  BY <1>2
<1>8. ASSUME NEW i \in 0..n
      PROVE  h[i] = IF i = 0 THEN <<>>
                    ELSE IF s[i] \in S THEN h[i - 1] ELSE Append(h[i - 1], s[i])
  <2>1. CASE i = n
    <3>1. h[n - 1] = g[n - 1]
      BY <1>2, <1>4, <1>6
    <3> QED  BY <1>4, <1>7, <2>1, <3>1
  <2>2. CASE i # n
    <3>1. i \in 0..(n - 1) /\ (i # 0 => i - 1 \in 0..(n - 1))
      BY <1>2, <2>2
    <3>2. h[i] = g[i] /\ (i # 0 => h[i - 1] = g[i - 1])
      BY <1>6, <3>1
    <3> HIDE DEF h
    <3> QED  BY <1>5, <3>1, <3>2 DEF Keeps
  <2> QED  BY <2>1, <2>2
<1>9. Keeps(h, s, S, n)
  <2>1. h = [i \in 0..n |-> h[i]]
    OBVIOUS
  <2> HIDE DEF h
  <2> QED  BY <1>8, <2>1 DEF Keeps
<1> QED  BY <1>2, <1>9

\* Without keeps exactly the elements that are not in S, in their order.
LEMMA WithoutProperties ==
  ASSUME NEW T, NEW s \in Seq(T), NEW S
  PROVE  /\ Without(s, S) \in Seq(T)
         /\ ToSet(Without(s, S)) = ToSet(s) \ S
         /\ Increasing(s) => Increasing(Without(s, S))
<1> DEFINE kept == CHOOSE g : Keeps(g, s, S, Len(s))
<1>1. Keeps(kept, s, S, Len(s))
  BY KeepsExists
<1>2. Without(s, S) = kept[Len(s)]
  BY DEF Without, Keeps
<1> HIDE DEF kept
<1> DEFINE Good(n) == /\ kept[n] \in Seq(T)
                      /\ ToSet(kept[n]) = {s[i] : i \in 1..n} \ S
                      /\ Increasing(s) => Increasing(kept[n])
           Bad == {n \in 0..Len(s) : ~Good(n)}
<1>3. Bad = {}
  <2>1. SUFFICES ASSUME Bad # {} PROVE FALSE
    OBVIOUS
  <2>0. Len(s) \in Nat /\ Bad \subseteq Nat
    OBVIOUS
  <2>2. PICK n \in Bad : \A m \in Bad : n <= m
    <3> HIDE DEF Bad
    <3> QED  BY <2>0, <2>1, LeastElement
  <2>3. kept[0] = <<>>
    BY <1>1 DEF Keeps
  <2>4. Good(0)
    BY <2>3 DEF ToSet, Increasing
  <2>5. n \in 1..Len(s) /\ n - 1 \in 0..Len(s) /\ n - 1 \notin Bad
    <3>1. n \in 0..Len(s) /\ ~Good(n)
      BY <2>2
    <3> HIDE DEF Good
    <3>2. n # 0
      BY <2>4, <3>1
    <3>3. n \in 1..Len(s) /\ n - 1 \in 0..Len(s)
      BY <2>0, <3>1, <3>2
    <3>4. ~(n <= n - 1)
      BY <3>3
    <3> QED  BY <2>2, <3>3, <3>4
  <2>6. Good(n - 1)
    BY <2>5
  <2>7. s[n] \in T /\ {s[i] : i \in 1..n} = {s[i] : i \in 1..(n - 1)} \cup {s[n]}
    BY <2>5
  <2>8. kept[n] = IF s[n] \in S THEN kept[n - 1] ELSE Append(kept[n - 1], s[n])
    <3>1. n \in 0..Len(s) /\ n # 0
      BY <2>0, <2>5
    <3> QED  BY <1>1, <3>1 DEF Keeps
  <2>9. CASE s[n] \in S
    <3>1. Good(n)
      BY <2>6, <2>7, <2>8, <2>9
    <3> QED  BY <2>2, <3>1
  <2>10. CASE s[n] \notin S
    <3>1. kept[n] \in Seq(T) /\ ToSet(kept[n]) = ToSet(kept[n - 1]) \cup {s[n]}
      BY <2>6, <2>7, <2>8, <2>10, ToSetAppend
    <3>2. ASSUME Increasing(s) PROVE Increasing(kept[n])
      <4>1. \A x \in ToSet(kept[n - 1]) : x.id < s[n].id /\ x.of # s[n].of
        <5>1. \A i \in 1..(n - 1) : s[i].id < s[n].id /\ s[i].of # s[n].of
          BY <2>5, <3>2 DEF Increasing
        <5> QED  BY <2>6, <5>1
      <4> QED  BY <2>6, <2>7, <2>8, <2>10, <3>2, <4>1, IncreasingAppend
    <3>3. Good(n)
      BY <2>6, <2>7, <2>10, <3>1, <3>2
    <3> QED  BY <2>2, <3>3
  <2> QED  BY <2>9, <2>10
<1>4. Good(Len(s))
  <2>1. Len(s) \in 0..Len(s) /\ Len(s) \notin Bad
    <3>1. Len(s) \in Nat
      OBVIOUS
    <3> HIDE DEF Bad
    <3> QED  BY <1>3, <3>1
  <2> QED  BY <2>1
<1>5. {s[i] : i \in 1..Len(s)} = ToSet(s)
  BY DEF ToSet
<1> QED  BY <1>2, <1>4, <1>5

------------------------------------------------------------------------------
(* Rows *)

Rows == [id : Nat, of : Target]

\* In a queue an id, or a target, says which row it is.
LEMMA RowsDiffer ==
  ASSUME NEW s \in Seq(Rows), Increasing(s), NEW x \in ToSet(s), NEW y \in ToSet(s),
         x.id = y.id \/ x.of = y.of
  PROVE  x = y
<1>1. PICK i \in DOMAIN s : s[i] = x
  BY DEF ToSet
<1>2. PICK k \in DOMAIN s : s[k] = y
  BY DEF ToSet
<1>3. DOMAIN s = 1..Len(s) /\ Len(s) \in Nat /\ s[i].id \in Nat /\ s[k].id \in Nat
  <2>1. DOMAIN s = 1..Len(s) /\ Len(s) \in Nat /\ s[i] \in Rows /\ s[k] \in Rows
    BY <1>1, <1>2
  <2> QED  BY <2>1 DEF Rows
<1>4. ~(i < k) /\ ~(k < i)
  BY <1>1, <1>2, <1>3 DEF Increasing
<1> QED  BY <1>1, <1>2, <1>3, <1>4

\* A row is alone in a sequence of one, and a sequence of none has none.
LEMMA FewRows ==
  /\ <<>> \in Seq(Rows) /\ Len(<<>>) = 0 /\ ToSet(<<>>) = {} /\ Increasing(<<>>)
  /\ \A row \in Rows : /\ <<row>> \in Seq(Rows) /\ Len(<<row>>) = 1
                       /\ ToSet(<<row>>) = {row} /\ Head(<<row>>) = row /\ <<row>> # <<>>
  BY DEF ToSet, Increasing

\* The ids of rows in a sequence.
LEMMA IdsProperties ==
  ASSUME NEW s \in Seq(Rows)
  PROVE  LET ids == [i \in DOMAIN s |-> s[i].id]
         IN  /\ ids \in Seq(Nat) /\ Len(ids) = Len(s)
             /\ ToSet(ids) = {row.id : row \in ToSet(s)}
             /\ Increasing(s) => IsInjective(ids)
<1> DEFINE ids == [i \in DOMAIN s |-> s[i].id]
<1>1. DOMAIN s = 1..Len(s) /\ Len(s) \in Nat /\ \A i \in 1..Len(s) : s[i] \in Rows
  OBVIOUS
<1>2. \A i \in 1..Len(s) : s[i].id \in Nat
  BY <1>1 DEF Rows
<1>3. ids \in Seq(Nat) /\ Len(ids) = Len(s) /\ DOMAIN ids = 1..Len(s)
  BY <1>1, <1>2
<1>4. ToSet(ids) = {row.id : row \in ToSet(s)}
  BY <1>1, <1>3 DEF ToSet
<1>5. ASSUME Increasing(s)  PROVE IsInjective(ids)
  <2> SUFFICES ASSUME NEW i \in DOMAIN ids, NEW k \in DOMAIN ids, ids[i] = ids[k], i # k
               PROVE  FALSE
    BY DEF IsInjective
  <2>1. i < k \/ k < i
    BY <1>3
  <2> QED  BY <1>1, <1>2, <1>3, <1>5, <2>1 DEF Increasing
<1> QED  BY <1>3, <1>4, <1>5

\* The id of the next marker is beyond those there are.
LEMMA NextIdIsNew ==
  ASSUME queue \in Seq(Rows), Increasing(queue)
  PROVE  NextId \in Nat /\ \A row \in ToSet(queue) : row.id < NextId
<1>1. DOMAIN queue = 1..Len(queue) /\ Len(queue) \in Nat /\ \A i \in 1..Len(queue) : queue[i] \in Rows
  OBVIOUS
<1>2. CASE queue = <<>>
  BY <1>2, FewRows DEF NextId
<1>3. CASE queue # <<>>
  <2>1. Len(queue) \in 1..Len(queue)
    BY <1>1, <1>3
  <2>2. NextId = queue[Len(queue)].id + 1 /\ queue[Len(queue)].id \in Nat
    BY <1>1, <1>3, <2>1 DEF NextId, Last, Rows
  <2>3. ASSUME NEW i \in 1..Len(queue)  PROVE queue[i].id < NextId
    <3>1. queue[i].id \in Nat
      BY <1>1 DEF Rows
    <3>2. CASE i = Len(queue)
      BY <2>2, <3>1, <3>2
    <3>3. CASE i # Len(queue)
      <4>1. i < Len(queue)
        <5>1. Len(queue) \in Nat
          OBVIOUS
        <5> QED  BY <3>3, <5>1
      <4>2. queue[i].id < queue[Len(queue)].id
        BY <1>1, <2>1, <4>1 DEF Increasing
      <4> QED  BY <2>2, <3>1, <4>2
    <3> QED  BY <3>2, <3>3
  <2> QED  BY <1>1, <2>2, <2>3 DEF ToSet
<1> QED  BY <1>2, <1>3

------------------------------------------------------------------------------
(* The inductive invariant *)

Places == {"idle", "batch", "write", "one", "marker", "write one"}
Loaded == {"batch", "write", "marker", "write one"}
Calls == [at : Places, batch : Seq(Rows), todo : Seq(Nat), retry : Seq(Nat), read : SUBSET Vote,
          waiting : Seq(Nat), failed : Seq(Nat), recomputed : Nat]
Backups == [votes : [Target -> Vote], consensus : [Target -> Vote], queue : Seq(Rows),
            overtaken : SUBSET Target, reused : SUBSET Target]

Typed == /\ votes \in [Target -> Vote] /\ consensus \in [Target -> Vote]
         /\ queue \in Seq(Rows) /\ Increasing(queue)
         /\ overtaken \in SUBSET Target /\ reused \in SUBSET Target
         /\ saved \in Backups /\ Increasing(saved.queue)
         /\ job \in [Drainer -> Calls] /\ known \in [Drainer -> Seq(Nat)]

\* A call has loaded markers exactly where it recomputes them next, and has read
\* the votes of one before it writes.
Loads(j) ==
    /\ j.at \in Loaded <=> j.batch # <<>>
    /\ j.at \in {"write", "write one"} => \E v \in Vote : j.read = {v}
    /\ j.at \notin {"write", "write one"} => j.read = {}

Short(j) == Len(j.batch) <= Limit /\ Len(j.retry) <= Limit /\ Len(j.todo) <= 2 * Limit

\* A failure is known once, and is retried or waits; a call that attempts its
\* markers one by one has each id at one place.
Once(j, knows) ==
    /\ IsInjective(knows) /\ IsInjective(j.retry)
    /\ IsInjective(j.waiting) /\ IsInjective(j.failed)
    /\ j.at \in {"batch", "write"} =>
          /\ j.failed = <<>>
          /\ ToSet(j.retry) \cap ToSet(j.waiting) = {}
          /\ ToSet(j.retry) \cup ToSet(j.waiting) \subseteq ToSet(knows)
    /\ j.at \in {"one", "marker", "write one"} =>
          /\ IsInjective(j.todo)
          /\ ToSet(j.todo) \cap ToSet(j.waiting) = {}
          /\ ToSet(j.todo) \cap ToSet(j.failed) = {}
          /\ ToSet(j.waiting) \cap ToSet(j.failed) = {}
    /\ j.at \in {"marker", "write one"} =>
          Head(j.batch).id \notin ToSet(j.todo) \cup ToSet(j.waiting) \cup ToSet(j.failed)

CallsInv == \A d \in Drainer : Loads(job[d]) /\ Short(job[d]) /\ Once(job[d], known[d])

\* What a drainer has read is what the votes are, unless an edit has overtaken it.
Fresh(d) == \A t \in Target \ overtaken : Attempts(d, t) => job[d].read = {votes[t]}
FreshInv == \A d \in Drainer : Fresh(d)

\* A marker that has the id of one that a drainer has loaded is of the same
\* target, or known to have its id from it.
Holds(rows) == \A row \in rows, q \in ToSet(queue) : q.id = row.id => q.of = row.of \/ q.of \in reused
HeldInv == \A d \in Drainer : Holds(ToSet(job[d].batch))

\* Where there is one drainer, what it has loaded is still there: nobody else
\* deletes, and a new marker takes none of its ids.
OneDrainer == \A d, e \in Drainer : d = e
LoadedInv == OneDrainer => /\ reused = {} /\ saved.reused = {}
                           /\ \A d \in Drainer : ToSet(job[d].batch) \subseteq ToSet(queue)

\* What a backup says of its targets, it says of the consensus it holds.
SavedInv == \A t \in Target \ (saved.overtaken \cup saved.reused) :
               \/ saved.consensus[t] = saved.votes[t]
               \/ t \in {row.of : row \in ToSet(saved.queue)}

SweepInv == /\ Typed /\ CallsInv /\ FreshInv /\ HeldInv /\ LoadedInv /\ SavedInv
            /\ StaleIsMarkedOvertakenOrReused

\* A call that has not begun has nothing in hand.
LEMMA NoJobHolds ==
  /\ NoJob \in Calls /\ NoJob.at = "idle" /\ NoJob.batch = <<>> /\ Loads(NoJob) /\ Short(NoJob)
  /\ \A knows : IsInjective(knows) => Once(NoJob, knows)
<1>1. NoJob \in Calls /\ NoJob.at = "idle" /\ NoJob.batch = <<>> /\ Loads(NoJob)
  BY DEF NoJob, Calls, Places, Loads, Loaded
<1>2. Short(NoJob)
  BY SweepAssumption DEF NoJob, Short
<1>3. IsInjective(<<>>)
  BY DEF IsInjective
<1>4. \A knows : IsInjective(knows) => Once(NoJob, knows)
  BY <1>3 DEF NoJob, Once
<1> QED  BY <1>1, <1>2, <1>4

\* At the start the stored consensus is current and nobody drains.
LEMMA SweepInvHolds == Init => SweepInv
<1> SUFFICES ASSUME Init PROVE SweepInv
  OBVIOUS
<1>1. /\ votes \in [Target -> Vote] /\ consensus = votes /\ queue = <<>>
      /\ overtaken = {} /\ reused = {}
  BY SweepAssumption DEF Init
<1>2. IsInjective(<<>>) /\ <<>> \in Seq(Nat)
  BY DEF IsInjective
<1>3. \A d \in Drainer : job[d] = NoJob /\ known[d] = <<>>
  BY DEF Init
<1>4. /\ saved \in Backups /\ saved.queue = <<>> /\ saved.reused = {}
      /\ saved.consensus = saved.votes
  BY <1>1, FewRows DEF Init, Committed, Backups
<1>5. job \in [Drainer -> Calls] /\ known \in [Drainer -> Seq(Nat)]
  BY <1>2, NoJobHolds DEF Init
<1>6. Typed
  BY <1>1, <1>4, <1>5, FewRows DEF Typed
<1>7. CallsInv
  BY <1>2, <1>3, NoJobHolds DEF CallsInv
<1>8. FreshInv
  BY <1>3, NoJobHolds DEF FreshInv, Fresh, Attempts
<1>9. HeldInv /\ LoadedInv
  BY <1>1, <1>3, <1>4, NoJobHolds, FewRows DEF HeldInv, Holds, LoadedInv
<1>10. SavedInv /\ StaleIsMarkedOvertakenOrReused
  BY <1>1, <1>4 DEF SavedInv, StaleIsMarkedOvertakenOrReused
<1> QED  BY <1>6, <1>7, <1>8, <1>9, <1>10 DEF SweepInv

------------------------------------------------------------------------------
(* Requests *)

\* An edit marks its target, and says so where it overtakes a drainer or where
\* the marker has an id that a drainer has loaded.
LEMMA EditStep ==
  ASSUME SweepInv, NEW t \in Target, NEW v \in Vote, Edit(t, v)
  PROVE  SweepInv'
<1> DEFINE new == [id |-> NextId, of |-> t]
<1>1. /\ votes' = [votes EXCEPT ![t] = v] /\ UNCHANGED <<consensus, saved, job, known>>
      /\ overtaken' = IF \E d \in Drainer : Attempts(d, t) THEN overtaken \cup {t} ELSE overtaken
  BY DEF Edit
<1>2. /\ Typed /\ CallsInv /\ FreshInv /\ HeldInv /\ LoadedInv /\ SavedInv
      /\ StaleIsMarkedOvertakenOrReused
  BY DEF SweepInv
<1>3. /\ queue' \in Seq(Rows) /\ Increasing(queue') /\ Marked' = Marked \cup {t}
      /\ reused' \in SUBSET Target /\ reused \ {t} \subseteq reused'
      /\ HeldInv' /\ LoadedInv'
  <2>1. CASE t \in Marked
    <3>1. queue' = queue /\ reused' = reused /\ Marked' = Marked
      BY <2>1 DEF Edit, Marked
    <3>2. queue' \in Seq(Rows) /\ Increasing(queue') /\ reused' \in SUBSET Target
      BY <1>2, <3>1 DEF Typed
    <3>3. HeldInv'
      BY <1>1, <1>2, <3>1 DEF HeldInv, Holds
    <3>4. LoadedInv'
      BY <1>1, <1>2, <3>1 DEF LoadedInv
    <3>5. Marked' = Marked \cup {t} /\ reused \ {t} \subseteq reused'
      BY <2>1, <3>1
    <3> QED  BY <3>2, <3>3, <3>4, <3>5
  <2>2. CASE t \notin Marked
    <3>1. /\ queue' = Append(queue, new)
          /\ reused' = IF NextIdIsHeld(t) THEN reused \cup {t} ELSE reused \ {t}
      BY <2>2 DEF Edit
    <3>2. queue \in Seq(Rows) /\ Increasing(queue)
      BY <1>2 DEF Typed
    <3>3. NextId \in Nat /\ \A row \in ToSet(queue) : row.id < NextId
      BY <3>2, NextIdIsNew
    <3>4. new \in Rows /\ new.id = NextId /\ new.of = t
      BY <3>3 DEF Rows
    <3>5. \A row \in ToSet(queue) : row.id < new.id /\ row.of # new.of
      BY <2>2, <3>3, <3>4 DEF Marked
    <3> HIDE DEF new
    <3>6. queue' \in Seq(Rows) /\ Increasing(queue') /\ ToSet(queue') = ToSet(queue) \cup {new}
      BY <3>1, <3>2, <3>4, <3>5, ToSetAppend, IncreasingAppend
    <3>7. Marked' = Marked \cup {t}
      BY <3>4, <3>6 DEF Marked
    <3>8. reused' \in SUBSET Target /\ reused \ {t} \subseteq reused'
      BY <1>2, <3>1 DEF Typed
    <3>9. HeldInv'
      <4> SUFFICES ASSUME NEW d \in Drainer, NEW row \in ToSet(job[d].batch),
                          NEW q \in ToSet(queue'), q.id = row.id, q.of # row.of
                   PROVE  q.of \in reused'
        BY <1>1 DEF HeldInv, Holds
      <4>1. CASE q = new
        BY <3>1, <3>4, <4>1 DEF NextIdIsHeld
      <4>2. CASE q # new
        <5>1. q \in ToSet(queue) /\ q.of # t
          BY <3>4, <3>5, <3>6, <4>2
        <5> QED  BY <1>2, <3>8, <5>1 DEF HeldInv, Holds
      <4> QED  BY <4>1, <4>2
    <3>10. LoadedInv'
      <4> SUFFICES ASSUME OneDrainer
                   PROVE  /\ reused' = {} /\ saved.reused = {}
                          /\ \A d \in Drainer : ToSet(job[d].batch) \subseteq ToSet(queue')
        BY <1>1 DEF LoadedInv
      <4>1. /\ reused = {} /\ saved.reused = {}
            /\ \A d \in Drainer : ToSet(job[d].batch) \subseteq ToSet(queue)
        BY <1>2 DEF LoadedInv
      <4>2. ~NextIdIsHeld(t)
        <5>1. \A row \in ToSet(queue) : row.id \in Nat
          <6>1. \A i \in DOMAIN queue : queue[i] \in Rows
            BY <3>2
          <6> QED  BY <6>1 DEF ToSet, Rows
        <5>2. \A row \in ToSet(queue) : row.id # NextId
          BY <3>3, <5>1
        <5> QED  BY <4>1, <5>2 DEF NextIdIsHeld
      <4>3. reused' = {}
        BY <3>1, <4>1, <4>2
      <4>4. ASSUME NEW d \in Drainer  PROVE ToSet(job[d].batch) \subseteq ToSet(queue')
        BY <3>6, <4>1
      <4> QED  BY <4>1, <4>3, <4>4
    <3> QED  BY <3>6, <3>7, <3>8, <3>9, <3>10
  <2> QED  BY <2>1, <2>2
<1>4. Typed'
  BY <1>1, <1>2, <1>3 DEF Typed
<1>5. CallsInv'
  BY <1>1, <1>2 DEF CallsInv
<1>6. votes \in [Target -> Vote] /\ \A u \in Target : u # t => votes'[u] = votes[u]
  BY <1>1, <1>2 DEF Typed
<1>7. FreshInv'
  <2> SUFFICES ASSUME NEW d \in Drainer, NEW u \in Target, u \notin overtaken', Attempts(d, u)'
               PROVE  job'[d].read = {votes'[u]}
    BY DEF FreshInv, Fresh
  <2>1. Attempts(d, u) /\ u \notin overtaken
    BY <1>1 DEF Attempts
  <2>2. u # t
    BY <1>1, <2>1
  <2> QED  BY <1>1, <1>2, <1>6, <2>1, <2>2 DEF FreshInv, Fresh
<1>8. StaleIsMarkedOvertakenOrReused'
  BY <1>1, <1>2, <1>3, <1>6 DEF StaleIsMarkedOvertakenOrReused
<1>9. SavedInv'
  BY <1>1, <1>2 DEF SavedInv
<1> QED  BY <1>3, <1>4, <1>5, <1>7, <1>8, <1>9 DEF SweepInv

\* A backup holds what the invariant says of the database.
LEMMA BackupStep == SweepInv /\ Backup => SweepInv'
<1> SUFFICES ASSUME SweepInv, Backup PROVE SweepInv'
  OBVIOUS
<1>1. saved' = Committed /\ UNCHANGED <<votes, consensus, queue, job, known, overtaken, reused>>
  BY DEF Backup
<1>2. /\ Typed /\ CallsInv /\ FreshInv /\ HeldInv /\ LoadedInv
      /\ StaleIsMarkedOvertakenOrReused
  BY DEF SweepInv
<1>3. /\ saved' \in Backups /\ saved'.queue = queue /\ saved'.reused = reused
      /\ saved'.overtaken = overtaken /\ saved'.votes = votes /\ saved'.consensus = consensus
  BY <1>1, <1>2 DEF Typed, Committed, Backups
<1>4. Typed'
  BY <1>1, <1>2, <1>3 DEF Typed
<1>5. CallsInv' /\ FreshInv' /\ HeldInv' /\ LoadedInv'
  BY <1>1, <1>2, <1>3 DEF CallsInv, FreshInv, Fresh, Attempts, HeldInv, Holds, LoadedInv
<1>6. SavedInv' /\ StaleIsMarkedOvertakenOrReused'
  BY <1>1, <1>2, <1>3 DEF SavedInv, StaleIsMarkedOvertakenOrReused, Marked
<1> QED  BY <1>4, <1>5, <1>6 DEF SweepInv

\* A restore brings what a backup held, and no call holds anything.
LEMMA RestoreStep == SweepInv /\ Restore => SweepInv'
<1> SUFFICES ASSUME SweepInv, Restore PROVE SweepInv'
  OBVIOUS
<1>1. /\ votes' = saved.votes /\ consensus' = saved.consensus /\ queue' = saved.queue
      /\ overtaken' = saved.overtaken /\ reused' = saved.reused
      /\ UNCHANGED <<saved, job, known>> /\ \A d \in Drainer : job[d] = NoJob
  BY DEF Restore
<1>2. Typed /\ CallsInv /\ LoadedInv /\ SavedInv
  BY DEF SweepInv
<1>3. Typed'
  BY <1>1, <1>2 DEF Typed, Backups
<1>4. CallsInv'
  BY <1>1, <1>2 DEF CallsInv
<1>5. FreshInv'
  BY <1>1, NoJobHolds DEF FreshInv, Fresh, Attempts
<1>6. \A d \in Drainer : ToSet(job'[d].batch) = {}
  BY <1>1, NoJobHolds, FewRows
<1>7. HeldInv' /\ LoadedInv'
  BY <1>1, <1>2, <1>6 DEF HeldInv, Holds, LoadedInv
<1>8. SavedInv' /\ StaleIsMarkedOvertakenOrReused'
  BY <1>1, <1>2 DEF SavedInv, StaleIsMarkedOvertakenOrReused, Marked
<1> QED  BY <1>3, <1>4, <1>5, <1>7, <1>8 DEF SweepInv

------------------------------------------------------------------------------
(* A drainer's steps *)

\* A step of one call: what is left to show when its call is j afterwards.
LEMMA CallStep ==
  ASSUME SweepInv, NEW d \in Drainer, NEW j \in Calls, Set(d, j),
         UNCHANGED <<votes, saved, reused>>, consensus' \in [Target -> Vote],
         overtaken' \in SUBSET Target,
         queue' \in Seq(Rows), Increasing(queue'), ToSet(queue') \subseteq ToSet(queue),
         NEW knows \in Seq(Nat), known' = [known EXCEPT ![d] = knows],
         Loads(j), Short(j), Once(j, knows),
         ToSet(j.batch) \subseteq ToSet(queue) \cup ToSet(job[d].batch),
         OneDrainer => ToSet(j.batch) \subseteq ToSet(queue'),
         \A f \in Drainer \ {d}, t \in Target \ overtaken' :
            Attempts(f, t) => job[f].read = {votes[t]},
         \A t \in Target \ overtaken' :
            j.at \in {"write", "write one"} /\ Head(j.batch).of = t => j.read = {votes[t]},
         StaleIsMarkedOvertakenOrReused'
  PROVE  SweepInv'
<1>1. Typed /\ CallsInv /\ HeldInv /\ LoadedInv /\ SavedInv
  BY DEF SweepInv
<1>2. job' = [job EXCEPT ![d] = j]
  BY DEF Set
<1>3. job'[d] = j /\ known'[d] = knows
      /\ \A f \in Drainer \ {d} : job'[f] = job[f] /\ known'[f] = known[f]
  BY <1>1, <1>2 DEF Typed
<1>4. Typed'
  BY <1>1, <1>2 DEF Typed
<1>5. CallsInv'
  BY <1>1, <1>3 DEF CallsInv
<1>6. FreshInv'
  <2> SUFFICES ASSUME NEW f \in Drainer, NEW t \in Target \ overtaken', Attempts(f, t)'
               PROVE  job'[f].read = {votes'[t]}
    BY DEF FreshInv, Fresh
  <2>1. CASE f = d
    BY <1>3, <2>1 DEF Attempts
  <2>2. CASE f # d
    BY <1>3, <2>2 DEF Attempts
  <2> QED  BY <2>1, <2>2
<1>7. HeldInv'
  <2> SUFFICES ASSUME NEW f \in Drainer, NEW row \in ToSet(job'[f].batch),
                      NEW q \in ToSet(queue'), q.id = row.id
               PROVE  q.of = row.of \/ q.of \in reused
    BY DEF HeldInv, Holds
  <2>1. q \in ToSet(queue) /\ queue \in Seq(Rows) /\ Increasing(queue)
    BY <1>1 DEF Typed
  <2>2. CASE row \in ToSet(queue)
    BY <2>1, <2>2, RowsDiffer
  <2>3. CASE row \notin ToSet(queue)
    <3>1. row \in ToSet(job[f].batch)
      BY <1>3, <2>3
    <3> QED  BY <1>1, <2>1, <3>1 DEF HeldInv, Holds
  <2> QED  BY <2>2, <2>3
<1>8. LoadedInv'
  <2> SUFFICES ASSUME OneDrainer
               PROVE  /\ reused = {} /\ saved.reused = {}
                      /\ \A f \in Drainer : ToSet(job'[f].batch) \subseteq ToSet(queue')
    BY DEF LoadedInv
  <2>1. \A f \in Drainer : f = d
    BY DEF OneDrainer
  <2> QED  BY <1>1, <1>3, <2>1 DEF LoadedInv
<1>9. SavedInv'
  BY <1>1 DEF SavedInv
<1> QED  BY <1>4, <1>5, <1>6, <1>7, <1>8, <1>9 DEF SweepInv

\* A step of one call that writes nothing.
LEMMA QuietStep ==
  ASSUME SweepInv, NEW d \in Drainer, NEW j \in Calls, Set(d, j),
         UNCHANGED <<votes, saved, consensus, queue, overtaken, reused>>,
         NEW knows \in Seq(Nat), known' = [known EXCEPT ![d] = knows],
         Loads(j), Short(j), Once(j, knows),
         ToSet(j.batch) \subseteq ToSet(queue) \/ j.batch = job[d].batch,
         \A t \in Target \ overtaken :
            j.at \in {"write", "write one"} /\ Head(j.batch).of = t => j.read = {votes[t]}
  PROVE  SweepInv'
<1>1. Typed /\ FreshInv /\ LoadedInv /\ StaleIsMarkedOvertakenOrReused
  BY DEF SweepInv
<1>2. /\ consensus' \in [Target -> Vote] /\ overtaken' \in SUBSET Target
      /\ queue' \in Seq(Rows) /\ Increasing(queue') /\ ToSet(queue') \subseteq ToSet(queue)
  BY <1>1 DEF Typed
<1>3. StaleIsMarkedOvertakenOrReused'
  BY <1>1 DEF StaleIsMarkedOvertakenOrReused, Marked
<1>4. \A f \in Drainer \ {d}, t \in Target \ overtaken' :
         Attempts(f, t) => job[f].read = {votes[t]}
  BY <1>1 DEF FreshInv, Fresh
<1>5. ToSet(j.batch) \subseteq ToSet(queue) \cup ToSet(job[d].batch)
  OBVIOUS
<1>6. OneDrainer => ToSet(j.batch) \subseteq ToSet(queue')
  BY <1>1 DEF LoadedInv
<1> QED  BY <1>2, <1>3, <1>4, <1>5, <1>6, CallStep

\* The rows that a call has loaded, their ids and their targets.
LEMMA BatchOf ==
  ASSUME Typed, NEW d \in Drainer
  PROVE  /\ job[d] \in Calls /\ job[d].batch \in Seq(Rows)
         /\ ToSet(job[d].batch) \subseteq Rows /\ TargetsOf(d) \subseteq Target
         /\ job[d].batch # <<>> => /\ Head(job[d].batch) \in ToSet(job[d].batch)
                                   /\ Head(job[d].batch) \in Rows
<1>1. job[d] \in Calls /\ job[d].batch \in Seq(Rows)
  BY DEF Typed, Calls
<1>2. ToSet(job[d].batch) \subseteq Rows
  BY <1>1 DEF ToSet
<1>3. TargetsOf(d) \subseteq Target
  BY <1>2 DEF TargetsOf, Rows
<1> QED  BY <1>1, <1>2, <1>3, TailProperties

\* What a drainer stores is the current votes of each target, or the target was
\* overtaken and stays so; what it deletes are its targets' markers, or one that
\* took the id of one of these.
LEMMA RecomputeStep ==
  ASSUME SweepInv, NEW d \in Drainer, Recompute(d),
         job[d].at \in {"write", "write one"}, votes' = votes, reused' = reused
  PROVE  /\ consensus' \in [Target -> Vote] /\ overtaken' \in SUBSET Target
         /\ queue' \in Seq(Rows) /\ Increasing(queue') /\ ToSet(queue') \subseteq ToSet(queue)
         /\ \A f \in Drainer, t \in Target \ overtaken' :
               Attempts(f, t) => job[f].read = {votes[t]}
         /\ StaleIsMarkedOvertakenOrReused'
<1> DEFINE targets == TargetsOf(d)
           rows == WithIds({row.id : row \in ToSet(job[d].batch)})
<1>1. Typed /\ CallsInv /\ FreshInv /\ HeldInv /\ StaleIsMarkedOvertakenOrReused
  BY DEF SweepInv
<1>2. ASSUME NEW f \in Drainer, NEW t \in Target, NEW v, Attempts(f, t), job[f].read = {v}
      PROVE  VotesOf(f, t) = v
  BY <1>2 DEF VotesOf, Attempts
<1>3. ASSUME NEW f \in Drainer, NEW t \in Target, Attempts(f, t)
      PROVE  \E v \in Vote : job[f].read = {v} /\ VotesOf(f, t) = v
  <2>1. PICK v \in Vote : job[f].read = {v}
    BY <1>1, <1>3 DEF CallsInv, Loads, Attempts
  <2>2. VotesOf(f, t) = v
    BY <1>2, <1>3, <2>1
  <2> QED  BY <2>1, <2>2
<1>4. ASSUME NEW t \in Target, ~Attempts(d, t)  PROVE VotesOf(d, t) = votes[t]
  BY <1>4 DEF VotesOf, Attempts
<1>5. ASSUME NEW t \in Target
      PROVE  VotesOf(d, t) \in Vote /\ votes[t] \in Vote /\ consensus[t] \in Vote
  <2>1. votes[t] \in Vote /\ consensus[t] \in Vote
    BY <1>1 DEF Typed
  <2>2. CASE Attempts(d, t)
    BY <1>3, <2>1, <2>2
  <2>3. CASE ~Attempts(d, t)
    BY <1>4, <2>1, <2>3
  <2> QED  BY <2>1, <2>2, <2>3
<1>6. /\ consensus' = [t \in Target |-> IF t \in targets THEN VotesOf(d, t) ELSE consensus[t]]
      /\ queue' = Without(queue, rows)
      /\ overtaken' = overtaken \ {t \in targets :
            \A f \in Drainer : f = d \/ Attempts(f, t) => VotesOf(f, t) = votes[t]}
  BY DEF Recompute
<1>7. /\ queue' \in Seq(Rows) /\ Increasing(queue') /\ ToSet(queue') = ToSet(queue) \ rows
      /\ overtaken' \in SUBSET Target
  <2>1. queue \in Seq(Rows) /\ Increasing(queue) /\ overtaken \in SUBSET Target
    BY <1>1 DEF Typed
  <2> QED  BY <1>6, <2>1, WithoutProperties
<1>8. ASSUME NEW t \in Target \ overtaken', t \in overtaken, NEW f \in Drainer,
             f = d \/ Attempts(f, t)
      PROVE  t \in targets /\ VotesOf(f, t) = votes[t]
  BY <1>6, <1>8
<1>9. ASSUME NEW f \in Drainer, NEW t \in Target \ overtaken', Attempts(f, t)
      PROVE  job[f].read = {votes[t]}
  <2>1. CASE t \in overtaken
    BY <1>3, <1>8, <1>9, <2>1
  <2>2. CASE t \notin overtaken
    BY <1>1, <1>9, <2>2 DEF FreshInv, Fresh
  <2> QED  BY <2>1, <2>2
<1>10. ASSUME NEW t \in Target, t \in Marked, t \notin targets, t \notin reused
       PROVE  t \in Marked'
  <2>1. PICK q \in ToSet(queue) : q.of = t
    BY <1>10 DEF Marked
  <2>2. q \notin rows
    <3> SUFFICES ASSUME NEW row \in ToSet(job[d].batch), q.id = row.id  PROVE FALSE
      BY DEF WithIds
    <3>1. q.of = row.of
      BY <1>1, <1>10, <2>1 DEF HeldInv, Holds
    <3> QED  BY <1>10, <2>1, <3>1 DEF TargetsOf
  <2> QED  BY <1>7, <2>1, <2>2 DEF Marked
<1>11. ASSUME NEW t \in Target \ (overtaken' \cup reused)
       PROVE  consensus'[t] = votes'[t] \/ t \in Marked'
  <2>1. CASE t \in targets
    <3>1. consensus'[t] = VotesOf(d, t)
      BY <1>6, <2>1
    <3>2. VotesOf(d, t) = votes[t]
      BY <1>2, <1>4, <1>9
    <3> QED  BY <3>1, <3>2
  <2>2. CASE t \notin targets
    <3>1. t \notin overtaken
      BY <1>8, <2>2
    <3>2. consensus'[t] = consensus[t]
      BY <1>6, <2>2
    <3> QED  BY <1>1, <1>10, <2>2, <3>1, <3>2 DEF StaleIsMarkedOvertakenOrReused
  <2> QED  BY <2>1, <2>2
<1>12. consensus' \in [Target -> Vote]
  BY <1>5, <1>6
<1>13. StaleIsMarkedOvertakenOrReused'
  BY <1>11 DEF StaleIsMarkedOvertakenOrReused
<1> QED  BY <1>7, <1>9, <1>12, <1>13

\* The markers that a drainer may take are of the queue, and not known to fail.
LEMMA UnknownBatch ==
  ASSUME Typed, NEW d \in Drainer
  PROVE  LET batch == FirstOf(Unknown(d))
         IN  /\ batch \in Seq(Rows) /\ Increasing(batch) /\ Len(batch) <= Limit
             /\ ToSet(batch) \subseteq ToSet(queue)
             /\ {row.id : row \in ToSet(batch)} \cap ToSet(known[d]) = {}
<1> DEFINE failing == WithIds(ToSet(known[d]))
           rows == Without(queue, failing)
<1>1. queue \in Seq(Rows) /\ Increasing(queue)
  BY DEF Typed
<1>2. rows \in Seq(Rows) /\ Increasing(rows) /\ ToSet(rows) = ToSet(queue) \ failing
  BY <1>1, WithoutProperties
<1>3. \A row \in ToSet(rows) : row.id \notin ToSet(known[d])
  BY <1>2 DEF WithIds
<1> HIDE DEF rows
<1>4. /\ FirstOf(rows) \in Seq(Rows) /\ Increasing(FirstOf(rows))
      /\ Len(FirstOf(rows)) <= Limit /\ ToSet(FirstOf(rows)) \subseteq ToSet(rows)
  BY <1>2, CutProperties
<1>5. Unknown(d) = rows
  BY DEF Unknown, rows
<1>6. {row.id : row \in ToSet(FirstOf(rows))} \cap ToSet(known[d]) = {}
  BY <1>3, <1>4
<1> QED  BY <1>2, <1>4, <1>5, <1>6

\* A call that begins: a batch of markers not known to fail, and retries apart
\* from the failures that wait.
LEMMA StartStep == ASSUME SweepInv, NEW d \in Drainer, Start(d)  PROVE SweepInv'
<1>1. Typed /\ CallsInv
  BY DEF SweepInv
<1>2. known[d] \in Seq(Nat) /\ IsInjective(known[d])
  BY <1>1 DEF Typed, CallsInv, Once
<1> DEFINE batch == FirstOf(Unknown(d))
           i == [NoJob EXCEPT !.retry = Retried(d), !.waiting = AllButFirstOf(known[d])]
           j == IF batch = <<>> THEN [i EXCEPT !.at = "one", !.todo = i.retry]
                ELSE [i EXCEPT !.at = "batch", !.batch = batch]
<1>3. batch \in Seq(Rows) /\ Len(batch) <= Limit /\ ToSet(batch) \subseteq ToSet(queue)
  BY <1>1, UnknownBatch
<1>4. /\ Retried(d) \in Seq(Nat) /\ AllButFirstOf(known[d]) \in Seq(Nat)
      /\ Len(Retried(d)) <= Limit
      /\ IsInjective(Retried(d)) /\ IsInjective(AllButFirstOf(known[d]))
      /\ ToSet(Retried(d)) \subseteq ToSet(known[d])
      /\ ToSet(AllButFirstOf(known[d])) \subseteq ToSet(known[d])
      /\ ToSet(Retried(d)) \cap ToSet(AllButFirstOf(known[d])) = {}
  BY <1>2, CutProperties DEF Retried
<1>5. Set(d, j) /\ UNCHANGED <<votes, consensus, queue, saved, known, overtaken, reused>>
  BY DEF Start, Call
<1> HIDE DEF batch
<1>6. /\ i.retry = Retried(d) /\ i.waiting = AllButFirstOf(known[d]) /\ i.failed = <<>>
      /\ i.read = {} /\ i.todo = <<>> /\ i.batch = <<>> /\ i \in Calls
  BY <1>4, NoJobHolds DEF NoJob, Calls
<1>7. /\ j \in Calls /\ j.retry = Retried(d) /\ j.waiting = AllButFirstOf(known[d])
      /\ j.failed = <<>> /\ j.read = {}
      /\ \/ j.at = "one" /\ j.todo = Retried(d) /\ j.batch = <<>>
         \/ j.at = "batch" /\ j.todo = <<>> /\ j.batch = batch /\ batch # <<>>
  BY <1>3, <1>4, NoJobHolds DEF NoJob, Calls, Places
<1> HIDE DEF j
<1>8. IsInjective(<<>>) /\ ToSet(<<>>) = {} /\ Len(<<>>) = 0
  BY FewRows DEF IsInjective
<1>9. Loads(j)
  BY <1>7 DEF Loads, Loaded
<1>10. Short(j)
  <2>1. Limit \in Nat /\ Len(Retried(d)) \in Nat /\ Len(batch) \in Nat
    BY <1>3, <1>4, SweepAssumption
  <2>2. Len(j.batch) = 0 \/ j.batch = batch
    BY <1>7, <1>8
  <2>3. Len(j.todo) = 0 \/ j.todo = Retried(d)
    BY <1>7, <1>8
  <2> QED  BY <1>3, <1>4, <1>7, <2>1, <2>2, <2>3 DEF Short
<1>11. Once(j, known[d])
  BY <1>2, <1>4, <1>7, <1>8 DEF Once
<1>12. known' = [known EXCEPT ![d] = known[d]]
  BY <1>1, <1>5 DEF Typed
<1>13. ToSet(j.batch) \subseteq ToSet(queue)
  BY <1>3, <1>7, <1>8
<1> QED  BY <1>2, <1>5, <1>7, <1>9, <1>10, <1>11, <1>12, <1>13, QuietStep

\* The votes of the first target, read as they are.
LEMMA ReadVotesStep == ASSUME SweepInv, NEW d \in Drainer, ReadVotes(d)  PROVE SweepInv'
<1>1. Typed /\ CallsInv
  BY DEF SweepInv
<1> DEFINE t0 == Head(job[d].batch).of
           place == IF job[d].at = "batch" THEN "write" ELSE "write one"
           j == [job[d] EXCEPT !.at = place, !.read = {votes[t0]}]
<1>2. /\ job[d] \in Calls /\ job[d].at \in {"batch", "marker"} /\ job[d].batch # <<>>
      /\ Short(job[d]) /\ Once(job[d], known[d])
  BY <1>1 DEF ReadVotes, CallsInv, Typed, Loads, Loaded
<1>3. t0 \in Target
  BY <1>1, <1>2, BatchOf DEF Rows
<1>4. votes[t0] \in Vote
  BY <1>1, <1>3 DEF Typed
<1>5. Set(d, j) /\ UNCHANGED <<votes, consensus, queue, saved, known, overtaken, reused>>
  BY DEF ReadVotes
<1>6. /\ job[d].at = "batch" => place = "write"
      /\ job[d].at = "marker" => place = "write one"
  OBVIOUS
<1> HIDE DEF place, t0
<1>7. /\ j \in Calls /\ j.at = place /\ j.read = {votes[t0]}
      /\ j.batch = job[d].batch /\ j.todo = job[d].todo /\ j.retry = job[d].retry
      /\ j.waiting = job[d].waiting /\ j.failed = job[d].failed
  BY <1>2, <1>4, <1>6 DEF Calls, Places
<1> HIDE DEF j
<1>8. Loads(j) /\ Short(j)
  BY <1>2, <1>4, <1>6, <1>7 DEF Loads, Loaded, Short
<1>9. Once(j, known[d])
  BY <1>2, <1>6, <1>7 DEF Once
<1>10. known[d] \in Seq(Nat) /\ known' = [known EXCEPT ![d] = known[d]]
  BY <1>1, <1>5 DEF Typed
<1>11. \A t \in Target \ overtaken : Head(j.batch).of = t => j.read = {votes[t]}
  BY <1>7 DEF t0
<1> QED  BY <1>5, <1>7, <1>8, <1>9, <1>10, <1>11, QuietStep

\* A call that goes on to attempt ids alone.
LEMMA AloneProperties ==
  ASSUME NEW d \in Drainer, job[d] \in Calls, NEW ids \in Seq(Nat)
  PROVE  LET j == Alone(d, ids)
         IN  /\ j \in Calls /\ j.at = "one" /\ j.batch = <<>> /\ j.read = {} /\ j.todo = ids
             /\ j.retry = job[d].retry /\ j.waiting = job[d].waiting
             /\ j.failed = job[d].failed /\ j.recomputed = job[d].recomputed
  BY FewRows DEF Alone, Calls, Places

\* A batch is done; the retries are next.
LEMMA WriteBatchStep == ASSUME SweepInv, NEW d \in Drainer, WriteBatch(d)  PROVE SweepInv'
<1>1. Typed /\ CallsInv
  BY DEF SweepInv
<1> DEFINE i == Alone(d, job[d].retry)
           j == [i EXCEPT !.recomputed = Len(job[d].batch)]
<1>2. /\ job[d] \in Calls /\ job[d].at = "write" /\ job[d].retry \in Seq(Nat)
      /\ Short(job[d]) /\ Once(job[d], known[d])
  BY <1>1 DEF WriteBatch, CallsInv, Typed, Calls
<1>3. Set(d, j) /\ UNCHANGED <<votes, saved, known, reused>> /\ Recompute(d)
  BY DEF WriteBatch
<1>4. job[d].batch \in Seq(Rows) /\ Len(job[d].batch) \in Nat
  BY <1>1, BatchOf
<1>5. /\ i \in Calls /\ i.at = "one" /\ i.batch = <<>> /\ i.read = {} /\ i.todo = job[d].retry
      /\ i.retry = job[d].retry /\ i.waiting = job[d].waiting /\ i.failed = job[d].failed
  BY <1>2, AloneProperties
<1> HIDE DEF i
<1>6. /\ j \in Calls /\ j.at = "one" /\ j.batch = <<>> /\ j.read = {} /\ j.todo = job[d].retry
      /\ j.retry = job[d].retry /\ j.waiting = job[d].waiting /\ j.failed = job[d].failed
  BY <1>4, <1>5 DEF Calls
<1> HIDE DEF j
<1>7. Loads(j)
  BY <1>6 DEF Loads, Loaded
<1>8. Short(j)
  <2>1. Limit \in Nat /\ Len(job[d].retry) \in Nat /\ Len(j.batch) = 0
    BY <1>2, <1>6, FewRows, SweepAssumption
  <2> QED  BY <1>2, <1>6, <2>1 DEF Short
<1>9. Once(j, known[d])
  BY <1>2, <1>6, FewRows DEF Once
<1>10. known[d] \in Seq(Nat) /\ known' = [known EXCEPT ![d] = known[d]]
  BY <1>1, <1>3 DEF Typed
<1>11. /\ consensus' \in [Target -> Vote] /\ overtaken' \in SUBSET Target
       /\ queue' \in Seq(Rows) /\ Increasing(queue') /\ ToSet(queue') \subseteq ToSet(queue)
       /\ \A f \in Drainer, t \in Target \ overtaken' :
             Attempts(f, t) => job[f].read = {votes[t]}
       /\ StaleIsMarkedOvertakenOrReused'
  BY <1>2, <1>3, RecomputeStep
<1>12. ToSet(j.batch) = {}
  BY <1>6, FewRows
<1> QED  BY <1>3, <1>6, <1>7, <1>8, <1>9, <1>10, <1>11, <1>12, CallStep

\* A batch that raised is isolated: none of its ids is among the retries.
LEMMA BatchRaisesStep == ASSUME SweepInv, NEW d \in Drainer, BatchRaises(d)  PROVE SweepInv'
<1>1. Typed /\ CallsInv
  BY DEF SweepInv
<1> DEFINE batch == FirstOf(Unknown(d))
           ids == [i \in DOMAIN batch |-> batch[i].id]
           todo == ids \o job[d].retry
           j == Alone(d, todo)
<1>2. /\ job[d] \in Calls /\ job[d].at = "write" /\ job[d].retry \in Seq(Nat)
      /\ Short(job[d]) /\ Once(job[d], known[d])
  BY <1>1 DEF BatchRaises, CallsInv, Typed, Calls
<1>3. Set(d, j) /\ UNCHANGED <<votes, consensus, queue, saved, known, overtaken, reused>>
  BY DEF BatchRaises
<1>4. /\ batch \in Seq(Rows) /\ Increasing(batch) /\ Len(batch) <= Limit
      /\ {row.id : row \in ToSet(batch)} \cap ToSet(known[d]) = {}
  BY <1>1, UnknownBatch
<1> HIDE DEF batch
<1>5. /\ ids \in Seq(Nat) /\ IsInjective(ids) /\ Len(ids) <= Limit
      /\ ToSet(ids) \cap ToSet(known[d]) = {}
  BY <1>4, IdsProperties
<1> HIDE DEF ids
<1>6. Len(job[d].retry) <= Limit /\ IsInjective(job[d].retry)
  BY <1>2 DEF Short, Once
<1>7. /\ todo \in Seq(Nat) /\ Len(todo) = Len(ids) + Len(job[d].retry)
      /\ ToSet(todo) = ToSet(ids) \cup ToSet(job[d].retry)
      /\ ToSet(ids) \cap ToSet(job[d].retry) = {} => IsInjective(todo)
  BY <1>2, <1>5, <1>6, ConcatenationProperties
<1> HIDE DEF todo
<1>8. /\ j \in Calls /\ j.at = "one" /\ j.batch = <<>> /\ j.read = {} /\ j.todo = todo
      /\ j.retry = job[d].retry /\ j.waiting = job[d].waiting /\ j.failed = job[d].failed
  BY <1>2, <1>7, AloneProperties
<1> HIDE DEF j
<1>9. Loads(j)
  BY <1>8 DEF Loads, Loaded
<1>10. Short(j)
  <2>1. /\ Limit \in Nat /\ Len(job[d].retry) \in Nat /\ Len(ids) \in Nat
        /\ Len(j.batch) = 0
    BY <1>2, <1>5, <1>8, FewRows, SweepAssumption
  <2> QED  BY <1>5, <1>6, <1>7, <1>8, <2>1 DEF Short
<1>11. Once(j, known[d])
  <2>1. ToSet(ids) \cap ToSet(job[d].retry) = {} /\ ToSet(ids) \cap ToSet(job[d].waiting) = {}
    BY <1>2, <1>5 DEF Once
  <2> QED  BY <1>2, <1>7, <1>8, <2>1, FewRows DEF Once
<1>12. known[d] \in Seq(Nat) /\ known' = [known EXCEPT ![d] = known[d]]
  BY <1>1, <1>3 DEF Typed
<1>13. ToSet(j.batch) = {}
  BY <1>8, FewRows
<1> QED  BY <1>3, <1>8, <1>9, <1>10, <1>11, <1>12, <1>13, QuietStep

\* The marker of the next id is loaded, or passed over because it is gone.
LEMMA LoadOneStep == ASSUME SweepInv, NEW d \in Drainer, LoadOne(d)  PROVE SweepInv'
<1>1. Typed /\ CallsInv
  BY DEF SweepInv
<1> DEFINE id == Head(job[d].todo)
           rest == [job[d] EXCEPT !.todo = Tail(job[d].todo)]
<1>2. /\ job[d] \in Calls /\ job[d].at = "one" /\ job[d].todo # <<>> /\ job[d].todo \in Seq(Nat)
      /\ Loads(job[d]) /\ Short(job[d]) /\ Once(job[d], known[d])
  BY <1>1 DEF LoadOne, CallsInv, Typed, Calls
<1>3. /\ id \in Nat /\ id \in ToSet(job[d].todo) /\ Tail(job[d].todo) \in Seq(Nat)
      /\ Len(Tail(job[d].todo)) = Len(job[d].todo) - 1
      /\ ToSet(Tail(job[d].todo)) \subseteq ToSet(job[d].todo)
      /\ IsInjective(Tail(job[d].todo)) /\ id \notin ToSet(Tail(job[d].todo))
  BY <1>2, TailProperties DEF Once
<1>4. UNCHANGED <<votes, consensus, queue, saved, known, overtaken, reused>>
  BY DEF LoadOne
<1>5. known[d] \in Seq(Nat) /\ known' = [known EXCEPT ![d] = known[d]]
  BY <1>1, <1>4 DEF Typed
<1>6. \/ Set(d, rest)
      \/ \E row \in WithIds({id}) : Set(d, [rest EXCEPT !.at = "marker", !.batch = <<row>>])
  BY DEF LoadOne
<1>7. /\ rest \in Calls /\ rest.at = "one" /\ rest.batch = <<>> /\ rest.read = {}
      /\ rest.todo = Tail(job[d].todo) /\ rest.retry = job[d].retry
      /\ rest.waiting = job[d].waiting /\ rest.failed = job[d].failed
  BY <1>2, <1>3 DEF Calls, Loads, Loaded
<1> HIDE DEF rest
<1>8. /\ Len(rest.todo) <= 2 * Limit /\ Len(rest.retry) <= Limit /\ Limit \in Nat \ {0}
      /\ Len(rest.batch) = 0
  <2>1. Limit \in Nat \ {0} /\ Len(job[d].todo) \in Nat /\ Len(rest.batch) = 0
    BY <1>2, <1>7, FewRows, SweepAssumption
  <2> QED  BY <1>2, <1>3, <1>7, <2>1 DEF Short
<1>9. /\ IsInjective(rest.todo) /\ id \notin ToSet(rest.todo)
      /\ ToSet(rest.todo) \subseteq ToSet(job[d].todo)
      /\ id \notin ToSet(rest.waiting) \cup ToSet(rest.failed)
  BY <1>2, <1>3, <1>7 DEF Once
<1> HIDE DEF id
<1>10. CASE Set(d, rest)
  <2>1. Loads(rest) /\ Short(rest)
    BY <1>7, <1>8 DEF Loads, Loaded, Short
  <2>2. Once(rest, known[d])
    BY <1>2, <1>7, <1>9 DEF Once
  <2>3. ToSet(rest.batch) = {}
    BY <1>7, FewRows
  <2> QED  BY <1>4, <1>5, <1>7, <1>10, <2>1, <2>2, <2>3, QuietStep
<1>11. CASE \E row \in WithIds({id}) : Set(d, [rest EXCEPT !.at = "marker", !.batch = <<row>>])
  <2>1. PICK row \in WithIds({id}) : Set(d, [rest EXCEPT !.at = "marker", !.batch = <<row>>])
    BY <1>11
  <2>2. row \in ToSet(queue) /\ row.id = id /\ queue \in Seq(Rows)
    BY <1>1, <2>1 DEF WithIds, Typed
  <2>3. row \in Rows
    BY <2>2 DEF ToSet
  <2> DEFINE j == [rest EXCEPT !.at = "marker", !.batch = <<row>>]
  <2>4. /\ <<row>> \in Seq(Rows) /\ Len(<<row>>) = 1 /\ ToSet(<<row>>) = {row}
        /\ Head(<<row>>) = row /\ <<row>> # <<>>
    BY <2>3, FewRows
  <2>5. /\ j \in Calls /\ j.at = "marker" /\ j.batch = <<row>> /\ j.read = {}
        /\ j.todo = rest.todo /\ j.retry = rest.retry
        /\ j.waiting = rest.waiting /\ j.failed = rest.failed
    BY <1>7, <2>4 DEF Calls, Places
  <2>6. Set(d, j)
    BY <2>1
  <2> HIDE DEF j
  <2>7. Loads(j)
    BY <2>4, <2>5 DEF Loads, Loaded
  <2>8. Short(j)
    BY <1>8, <2>4, <2>5 DEF Short
  <2>9. Once(j, known[d])
    <3>1. Head(j.batch).id = id
      BY <2>2, <2>4, <2>5
    <3> QED  BY <1>2, <1>7, <1>9, <2>5, <3>1 DEF Once
  <2>10. ToSet(j.batch) \subseteq ToSet(queue)
    BY <2>2, <2>4, <2>5
  <2> QED  BY <1>4, <1>5, <2>5, <2>6, <2>7, <2>8, <2>9, <2>10, QuietStep
<1> QED  BY <1>6, <1>10, <1>11

\* The call j has done with the marker that the call i had loaded, and has perhaps
\* met a failure.
Continues(i, j) ==
    /\ i.at = "write one" /\ i.batch # <<>>
    /\ j.at = "one" /\ j.batch = <<>> /\ j.read = {} /\ j.todo = i.todo
    /\ j.retry = i.retry /\ j.waiting = i.waiting
    /\ j.failed = i.failed \/ j.failed = Append(i.failed, Head(i.batch).id)

\* A call that has done with a marker keeps each of the others in one place.
LEMMA NextMarker ==
  ASSUME NEW i \in Calls, NEW j \in Calls, NEW knows, Short(i), Once(i, knows), Continues(i, j)
  PROVE  Loads(j) /\ Short(j) /\ Once(j, knows)
<1> DEFINE id == Head(i.batch).id
           f == i.failed
<1>1. f \in Seq(Nat) /\ i.batch \in Seq(Rows)
  BY DEF Calls
<1>2. id \in Nat
  <2>1. Head(i.batch) \in Rows
    BY <1>1, TailProperties DEF Continues
  <2> QED  BY <2>1 DEF Rows
<1>3. /\ IsInjective(f) /\ id \notin ToSet(i.todo) \cup ToSet(i.waiting) \cup ToSet(f)
      /\ ToSet(i.todo) \cap ToSet(i.waiting) = {} /\ ToSet(i.todo) \cap ToSet(f) = {}
      /\ ToSet(i.waiting) \cap ToSet(f) = {}
  BY DEF Once, Continues
<1>4. j.failed = f \/ j.failed = Append(f, id)
  BY DEF Continues
<1>5. /\ j.at = "one" /\ j.batch = <<>> /\ j.read = {} /\ j.todo = i.todo
      /\ j.retry = i.retry /\ j.waiting = i.waiting
  BY DEF Continues
<1> HIDE DEF id, f
<1>6. IsInjective(j.failed) /\ ToSet(j.failed) \subseteq ToSet(f) \cup {id}
  <2>1. f \in Seq(Nat) /\ IsInjective(f) /\ id \notin ToSet(f)
    BY <1>1, <1>3
  <2>2. IsInjective(Append(f, id)) /\ ToSet(Append(f, id)) = ToSet(f) \cup {id}
    BY <1>2, <2>1, ToSetAppend, InjectiveAppend
  <2> QED  BY <1>3, <1>4, <2>2
<1>7. Loads(j)
  BY <1>5 DEF Loads, Loaded
<1>8. Short(j)
  <2>1. Limit \in Nat /\ Len(j.batch) = 0
    BY <1>5, FewRows, SweepAssumption
  <2>2. Len(j.batch) <= Limit
    BY <2>1
  <2> QED  BY <1>5, <2>2 DEF Short
<1>9. ToSet(j.todo) \cap ToSet(j.failed) = {} /\ ToSet(j.waiting) \cap ToSet(j.failed) = {}
  BY <1>3, <1>5, <1>6
<1>10. Once(j, knows)
  BY <1>5, <1>6, <1>9 DEF Once, Continues
<1> QED  BY <1>7, <1>8, <1>10

\* One target is recomputed, or its failure is noted.
LEMMA WriteOneStep == ASSUME SweepInv, NEW d \in Drainer, WriteOne(d)  PROVE SweepInv'
<1>1. Typed /\ CallsInv
  BY DEF SweepInv
<1> DEFINE id == Head(job[d].batch).id
           next == Alone(d, job[d].todo)
<1>2. /\ job[d] \in Calls /\ job[d].at = "write one" /\ job[d].batch # <<>>
      /\ job[d].todo \in Seq(Nat) /\ job[d].failed \in Seq(Nat) /\ job[d].recomputed \in Nat
      /\ Short(job[d]) /\ Once(job[d], known[d])
  BY <1>1 DEF WriteOne, CallsInv, Typed, Loads, Loaded, Calls
<1>3. id \in Nat
  BY <1>1, <1>2, BatchOf DEF Rows
<1>4. UNCHANGED <<votes, saved, known, reused>>
  BY DEF WriteOne
<1>5. known[d] \in Seq(Nat) /\ known' = [known EXCEPT ![d] = known[d]]
  BY <1>1, <1>4 DEF Typed
<1>6. /\ next \in Calls /\ next.at = "one" /\ next.batch = <<>> /\ next.read = {}
      /\ next.todo = job[d].todo /\ next.retry = job[d].retry
      /\ next.waiting = job[d].waiting /\ next.failed = job[d].failed
      /\ next.recomputed = job[d].recomputed
  BY <1>2, AloneProperties
<1>7. CASE Fails(d)
  <2> DEFINE failed == Append(job[d].failed, id)
             j == [next EXCEPT !.failed = failed]
  <2>1. Set(d, j) /\ UNCHANGED <<consensus, queue, overtaken>>
    BY <1>6, <1>7 DEF WriteOne
  <2>2. failed \in Seq(Nat)
    <3>1. job[d].failed \in Seq(Nat)
      BY <1>2
    <3> HIDE DEF id
    <3> QED  BY <1>3, <3>1
  <2> HIDE DEF failed, next
  <2>3. /\ j \in Calls /\ j.at = "one" /\ j.batch = <<>> /\ j.read = {} /\ j.todo = job[d].todo
        /\ j.retry = job[d].retry /\ j.waiting = job[d].waiting /\ j.failed = failed
    BY <1>6, <2>2 DEF Calls
  <2> HIDE DEF j
  <2>4. Loads(j) /\ Short(j) /\ Once(j, known[d])
    BY <1>2, <2>3, NextMarker DEF failed, Continues
  <2>5. ToSet(j.batch) = {}
    BY <2>3, FewRows
  <2> QED  BY <1>4, <1>5, <2>1, <2>3, <2>4, <2>5, QuietStep
<1>8. CASE ~Fails(d)
  <2> DEFINE j == [next EXCEPT !.recomputed = job[d].recomputed + 1]
  <2>1. Set(d, j) /\ Recompute(d)
    BY <1>6, <1>8 DEF WriteOne
  <2> HIDE DEF next
  <2>2. job[d].recomputed + 1 \in Nat
    <3>1. job[d].recomputed \in Nat
      BY <1>2
    <3> QED  BY <3>1
  <2>3. /\ j \in Calls /\ j.at = "one" /\ j.batch = <<>> /\ j.read = {} /\ j.todo = job[d].todo
        /\ j.retry = job[d].retry /\ j.waiting = job[d].waiting /\ j.failed = job[d].failed
    BY <1>6, <2>2 DEF Calls
  <2> HIDE DEF j
  <2>4. Loads(j) /\ Short(j) /\ Once(j, known[d])
    BY <1>2, <2>3, NextMarker DEF Continues
  <2>5. /\ consensus' \in [Target -> Vote] /\ overtaken' \in SUBSET Target
        /\ queue' \in Seq(Rows) /\ Increasing(queue') /\ ToSet(queue') \subseteq ToSet(queue)
        /\ \A f \in Drainer, t \in Target \ overtaken' :
              Attempts(f, t) => job[f].read = {votes[t]}
        /\ StaleIsMarkedOvertakenOrReused'
    BY <1>2, <1>4, <2>1, RecomputeStep
  <2>6. ToSet(j.batch) = {}
    BY <2>3, FewRows
  <2> QED  BY <1>4, <1>5, <2>1, <2>3, <2>4, <2>5, <2>6, CallStep
<1> QED  BY <1>7, <1>8

\* What a call carries to the next is each failure once.
LEMMA FinishStep == ASSUME SweepInv, NEW d \in Drainer, Finish(d)  PROVE SweepInv'
<1>1. Typed /\ CallsInv
  BY DEF SweepInv
<1>2. job[d] \in Calls /\ job[d].at = "one" /\ Once(job[d], known[d])
  BY <1>1 DEF Finish, CallsInv, Typed
<1>3. Failures(d) \in Seq(Nat) /\ IsInjective(Failures(d))
  <2>1. /\ job[d].waiting \in Seq(Nat) /\ job[d].failed \in Seq(Nat)
        /\ IsInjective(job[d].waiting) /\ IsInjective(job[d].failed)
        /\ ToSet(job[d].waiting) \cap ToSet(job[d].failed) = {}
    BY <1>2 DEF Calls, Once
  <2> QED  BY <2>1, ConcatenationProperties DEF Failures
<1>4. PICK knows \in {Failures(d), <<>>} : known' = [known EXCEPT ![d] = knows]
  BY DEF Finish
<1>5. knows \in Seq(Nat) /\ IsInjective(knows)
  <2>1. <<>> \in Seq(Nat) /\ IsInjective(<<>>)
    BY DEF IsInjective
  <2> QED  BY <1>3, <1>4, <2>1
<1>6. Set(d, NoJob) /\ UNCHANGED <<votes, saved, consensus, queue, overtaken, reused>>
  BY DEF Finish
<1>7. ToSet(NoJob.batch) = {}
  BY NoJobHolds, FewRows
<1> QED  BY <1>4, <1>5, <1>6, <1>7, NoJobHolds, QuietStep

\* A call given up leaves everything as it is, and the button forgets.
LEMMA LockedStep == ASSUME SweepInv, NEW d \in Drainer, Locked(d)  PROVE SweepInv'
<1>1. Typed /\ CallsInv
  BY DEF SweepInv
<1>2. known[d] \in Seq(Nat) /\ IsInjective(known[d])
  BY <1>1 DEF Typed, CallsInv, Once
<1>3. Set(d, NoJob) /\ UNCHANGED <<votes, saved, consensus, queue, overtaken, reused>>
  BY DEF Locked
<1>4. PICK knows \in {known[d], <<>>} : known' = [known EXCEPT ![d] = knows]
  BY <1>1 DEF Locked, Typed
<1>5. knows \in Seq(Nat) /\ IsInjective(knows)
  <2>1. <<>> \in Seq(Nat) /\ IsInjective(<<>>)
    BY DEF IsInjective
  <2> QED  BY <1>2, <1>4, <2>1
<1>6. ToSet(NoJob.batch) = {}
  BY NoJobHolds, FewRows
<1> QED  BY <1>3, <1>4, <1>5, <1>6, NoJobHolds, QuietStep

------------------------------------------------------------------------------
(* Theorems *)

\* Every step preserves the invariant.
LEMMA SweepStep == SweepInv /\ [Next]_vars => SweepInv'
<1> SUFFICES ASSUME SweepInv, [Next]_vars PROVE SweepInv'
  OBVIOUS
<1>1. ASSUME NEW d \in Drainer, Drain(d) \/ Locked(d)  PROVE SweepInv'
  BY <1>1, StartStep, ReadVotesStep, WriteBatchStep, BatchRaisesStep, LoadOneStep,
     WriteOneStep, FinishStep, LockedStep DEF Drain
<1>2. ASSUME NEW t \in Target, NEW v \in Vote, Edit(t, v)  PROVE SweepInv'
  BY <1>2, EditStep
<1>3. CASE Backup \/ Restore
  BY <1>3, BackupStep, RestoreStep
<1>4. CASE UNCHANGED vars
  <2>1. UNCHANGED <<votes, consensus, queue, saved, job, known, overtaken, reused>>
    BY <1>4 DEF vars
  <2>2. Typed' /\ CallsInv' /\ FreshInv'
    BY <2>1 DEF SweepInv, Typed, CallsInv, FreshInv, Fresh, Attempts
  <2>3. HeldInv' /\ LoadedInv' /\ SavedInv' /\ StaleIsMarkedOvertakenOrReused'
    BY <2>1 DEF SweepInv, HeldInv, Holds, LoadedInv, SavedInv,
                StaleIsMarkedOvertakenOrReused, Marked
  <2> QED  BY <2>2, <2>3 DEF SweepInv
<1> QED  BY <1>1, <1>2, <1>3, <1>4 DEF Next

\* The invariant holds of every behaviour of the consensus layer.
THEOREM SweepInvariant == Spec => []SweepInv
<1>1. SweepInv /\ [Next]_vars => SweepInv'
  BY SweepStep
<1> QED  BY <1>1, SweepInvHolds, PTL DEF Spec

\* The variables have their types: the ids of markers increase and a target has
\* one at most, a drainer reads votes only where it then writes, and knows no
\* failure twice, whatever the two drainers, the edits and a restore between them
\* do.
THEOREM TypeCorrect == Spec => []TypeOK
<1>1. SweepInv => TypeOK
  <2> SUFFICES ASSUME SweepInv PROVE TypeOK
    OBVIOUS
  <2>1. Typed /\ CallsInv
    BY DEF SweepInv
  <2>2. Marked \subseteq Target
    <3>1. ToSet(queue) \subseteq Rows
      BY <2>1 DEF Typed, ToSet
    <3> QED  BY <3>1 DEF Marked, Rows
  <2>3. ASSUME NEW d \in Drainer
        PROVE  /\ TargetsOf(d) \subseteq Target /\ job[d].read \subseteq Vote
               /\ job[d].at \in {"write", "write one"} <=> job[d].read # {}
               /\ IsInjective(known[d])
    <3>1. job[d] \in Calls /\ Loads(job[d]) /\ Once(job[d], known[d])
      BY <2>1 DEF Typed, CallsInv
    <3>2. TargetsOf(d) \subseteq Target /\ job[d].read \subseteq Vote
      BY <2>1, <3>1, BatchOf DEF Calls
    <3>3. job[d].at \in {"write", "write one"} <=> job[d].read # {}
      BY <3>1 DEF Loads
    <3> QED  BY <3>1, <3>2, <3>3 DEF Once
  <2>4. \A i, k \in DOMAIN queue : i < k => queue[i].id < queue[k].id /\ queue[i].of # queue[k].of
    BY <2>1 DEF Typed, Increasing
  <2> QED  BY <2>1, <2>2, <2>3, <2>4 DEF Typed, TypeOK
<1> QED  BY <1>1, SweepInvariant, PTL

\* A stored consensus that is not that of the current votes has a marker, unless
\* the votes of its target changed between a drainer's read and the write lock it
\* then took, or its marker was given the id of one that a drainer had loaded:
\* the two ways, for every number of targets and drainers, in which the queue of
\* mark_consensus_stale loses a target.
THEOREM StaleHasAMarker == Spec => []StaleIsMarkedOvertakenOrReused
<1>1. SweepInv => StaleIsMarkedOvertakenOrReused
  BY DEF SweepInv
<1> QED  BY <1>1, SweepInvariant, PTL

\* With one drainer the first is the only one: what it has loaded is still in the
\* queue, so no new marker has an id that it will delete.
THEOREM OneDrainerLosesNoMarker == OneDrainer => (Spec => []StaleIsMarkedOrOvertaken)
<1> SUFFICES ASSUME OneDrainer PROVE Spec => []StaleIsMarkedOrOvertaken
  OBVIOUS
<1>1. SweepInv => StaleIsMarkedOrOvertaken
  BY DEF SweepInv, LoadedInv, StaleIsMarkedOvertakenOrReused, StaleIsMarkedOrOvertaken
<1> QED  BY <1>1, SweepInvariant, PTL

\* A call of drain_stale_consensus attempts at most one batch, or its isolation,
\* and one batch of retries, whatever the number of markers that fail.
THEOREM CallsAreBounded == Spec => []BoundedCall
<1>1. SweepInv => BoundedCall
  BY DEF SweepInv, CallsInv, Short, BoundedCall
<1> QED  BY <1>1, SweepInvariant, PTL
=============================================================================
