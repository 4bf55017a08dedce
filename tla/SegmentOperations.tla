-------------------------- MODULE SegmentOperations --------------------------
(***************************************************************************)
(* Merging, splitting and their reversals on the segments of one           *)
(* conversation or document (services/segment_operations.py).  Originals   *)
(* are kept and hidden: a merge points each of them at its result, a split *)
(* points each of them at the FIRST of its parts, and taking either back   *)
(* follows those pointers and deletes the results.                         *)
(*                                                                         *)
(* A text is a sequence of words and an offset falls between two words     *)
(* (strip and ' '.join add and take the spaces); a mark is one coder's     *)
(* application of one code.  Notes, quotes, speakers and times are left    *)
(* out.                                                                    *)
(***************************************************************************)
EXTENDS Integers, Sequences, FiniteSets, FiniteSetsExt, SequencesExt

CONSTANTS
  Word,       \* what texts are made of
  Rows,       \* the texts of the rows of the imported file, some of them empty
  Mark,       \* the marks a coder can put on a segment
  MaxId,      \* BOUND: no segment gets a higher id
  OnlyLone    \* BOUND on behaviours: rejoin only what Lone describes

HasText(row) == row /= << >>

ASSUME SegmentsAssumption ==
  /\ Rows \in Seq(Seq(Word)) /\ \E i \in DOMAIN Rows : HasText(Rows[i])
  /\ MaxId \in Nat /\ OnlyLone \in BOOLEAN

VARIABLE segs   \* the rows: id -> [text, order, mergedInto, splitInto, ...]

Segment(text, order, marks) ==
  [text |-> text, order |-> order, marks |-> marks, mergedInto |-> 0,
   splitInto |-> 0, isMerge |-> FALSE, isSplit |-> FALSE]

Ids == DOMAIN segs
Visible == {x \in Ids : segs[x].mergedInto = 0 /\ segs[x].splitInto = 0}

\* The rows of S by sequence_order; two rows of one order come by id.
Precedes(x, y) == \/ segs[x].order < segs[y].order
                  \/ segs[x].order = segs[y].order /\ x < y
Before(x, S) == Cardinality({y \in S : Precedes(y, x)})
InOrder(S) == [i \in 1..Cardinality(S) |-> CHOOSE x \in S : Before(x, S) = i - 1]

FirstOrder(S) == Min({segs[x].order : x \in S})
LastOrder(S) == Max({segs[x].order : x \in S})
Adjacent(S) == Cardinality({segs[x].order : x \in S}) = Cardinality(S)
               /\ LastOrder(S) - FirstOrder(S) = Cardinality(S) - 1

TextOf(S) == LET s == InOrder(S) IN FlattenSeq([i \in DOMAIN s |-> segs[s[i]].text])
MarksOf(S) == UNION {segs[x].marks : x \in S}

\* SQLite gives a new row the id above the highest one present.
NextId == Max(Ids) + 1

\* Mutant: an off-by-one leaves the next segment where it was.
ShiftedFromTheNextButOne(rows, last, by) == [x \in DOMAIN rows |->
  IF rows[x].mergedInto = 0 /\ rows[x].splitInto = 0 /\ rows[x].order > last + 1
  THEN [rows[x] EXCEPT !.order = @ + by] ELSE rows[x]]

\* The visible segments beyond position `last`, `by` places further on.
Shifted(rows, last, by) == [x \in DOMAIN rows |->
  IF rows[x].mergedInto = 0 /\ rows[x].splitInto = 0 /\ rows[x].order > last
  THEN [rows[x] EXCEPT !.order = @ + by] ELSE rows[x]]

\* The import leaves out a row without a text and counts it all the same: a
\* segment has the number of its row, from 0 on.  (Of ids only the order tells.)
Imported == {i \in DOMAIN Rows : HasText(Rows[i])}
SegmentsInit == segs = [i \in Imported |-> Segment(Rows[i], i - 1, {})]

------------------------------------------------------------------------------
Merge(S) ==
  LET new == NextId
      merged == [Segment(TextOf(S), FirstOrder(S), MarksOf(S)) EXCEPT !.isMerge = TRUE]
      hidden == [x \in Ids |-> IF x \in S THEN [segs[x] EXCEPT !.mergedInto = new]
                               ELSE segs[x]]
      later == Shifted(hidden, LastOrder(S), 1 - Cardinality(S))
  IN /\ Cardinality(S) >= 2 /\ Adjacent(S) /\ new <= MaxId
     /\ segs' = [x \in Ids \cup {new} |-> IF x = new THEN merged ELSE later[x]]

\* Mutant: the originals come back in the order they were created.
UnmergeById(m) ==
  LET originals == {x \in Ids : segs[x].mergedInto = m}
      since == segs[m].marks \ MarksOf(originals)
      later == Shifted(segs, segs[m].order, Cardinality(originals) - 1)
      Back(x) == LET i == Cardinality({y \in originals : y < x})
                 IN [segs[x] EXCEPT !.mergedInto = 0, !.order = segs[m].order + i,
                                    !.marks = @ \cup (IF i = 0 THEN since ELSE {})]
  IN /\ segs[m].isMerge /\ originals /= {}
     /\ segs' = [x \in Ids \ {m} |-> IF x \in originals THEN Back(x) ELSE later[x]]

\* What was put on the merged segment since goes to the first original.
Unmerge(m) ==
  LET originals == {x \in Ids : segs[x].mergedInto = m}
      since == segs[m].marks \ MarksOf(originals)
      later == Shifted(segs, segs[m].order, Cardinality(originals) - 1)
      Back(x) == LET i == Before(x, originals)
                 IN [segs[x] EXCEPT !.mergedInto = 0, !.order = segs[m].order + i,
                                    !.marks = @ \cup (IF i = 0 THEN since ELSE {})]
  IN /\ segs[m].isMerge /\ originals /= {}
     /\ segs' = [x \in Ids \ {m} |-> IF x \in originals THEN Back(x) ELSE later[x]]

\* A run, its words cut after lo and after hi: up to three parts, each with
\* every mark of the run.  The first cut is in the first segment or at its end,
\* the second in the last one or at its start.
Split(S, lo, hi) ==
  LET text == TextOf(S)
      run == InOrder(S)
      parts == (IF lo = 0 THEN << >> ELSE <<SubSeq(text, 1, lo)>>)
               \o <<SubSeq(text, lo + 1, hi)>>
               \o (IF hi = Len(text) THEN << >> ELSE <<SubSeq(text, hi + 1, Len(text))>>)
      first == NextId
      Part(i) == [Segment(parts[i], FirstOrder(S) + i - 1, MarksOf(S))
                  EXCEPT !.isSplit = TRUE]
      hidden == [x \in Ids |-> IF x \in S THEN [segs[x] EXCEPT !.splitInto = first]
                               ELSE segs[x]]
      later == Shifted(hidden, LastOrder(S), Len(parts) - Cardinality(S))
  IN /\ Adjacent(S) /\ first + Len(parts) - 1 <= MaxId
     /\ lo <= Len(segs[run[1]].text)
     /\ hi >= Len(text) - Len(segs[Last(run)].text)
     /\ Cardinality(S) = 1 => Len(parts) > 1
     /\ segs' = [x \in Ids \cup (first .. first + Len(parts) - 1) |->
                   IF x >= first THEN Part(x - first + 1) ELSE later[x]]

\* The visible parts of splits that sit next to each other, around x.
Siblings(x) ==
  LET parts == {y \in Visible : segs[y].isSplit}
      Next(y, z) == /\ Precedes(y, z)
                    /\ \A w \in parts : ~Precedes(y, w) \/ ~Precedes(w, z)
      Within(z, a, b) == ~Precedes(z, a) /\ ~Precedes(b, z)
  IN {y \in parts : \A v, w \in {z \in parts : Within(z, x, y) \/ Within(z, y, x)} :
                      Next(v, w) => segs[w].order = segs[v].order + 1}

\* The hidden segments a rejoin of x may bring back: the query names no order.
OriginalsOf(x) ==
  LET direct == {o \in Ids : segs[o].splitInto = x}
  IN IF direct /= {} THEN direct
     ELSE {o \in Ids : segs[o].splitInto \in Siblings(x)}

\* One original, and the siblings are the parts it was split into.
Lone(x) ==
  LET pointing == {o \in Ids : segs[o].splitInto \in Siblings(x)}
  IN Cardinality(pointing) = 1 /\ TextOf(pointing) = TextOf(Siblings(x))

\* Mutant: what was coded on the parts goes with them.
RejoinWithoutItsMarks(x, o) ==
  LET group == Siblings(x)
      at == FirstOrder(group)
      n == Cardinality(group)
      back == [segs[o] EXCEPT !.splitInto = 0, !.order = at]
      left == [y \in Ids \ group |->
                 IF segs[y].splitInto \in group THEN [segs[y] EXCEPT !.splitInto = 0]
                 ELSE segs[y]]
      later == Shifted(left, at + n - 1, 1 - n)
  IN /\ segs[x].isSplit /\ (OnlyLone => Lone(x))
     /\ o \in OriginalsOf(x)
     /\ segs' = [later EXCEPT ![o] = back]

\* Whatever else pointed at a deleted part is left pointing nowhere
\* (ON DELETE SET NULL), that is, visible, at the place it once had.
Rejoin(x, o) ==
  LET group == Siblings(x)
      at == FirstOrder(group)
      n == Cardinality(group)
      back == [segs[o] EXCEPT !.splitInto = 0, !.order = at,
                              !.marks = @ \cup MarksOf(group)]
      left == [y \in Ids \ group |->
                 IF segs[y].splitInto \in group THEN [segs[y] EXCEPT !.splitInto = 0]
                 ELSE segs[y]]
      later == Shifted(left, at + n - 1, 1 - n)
  IN /\ segs[x].isSplit /\ (OnlyLone => Lone(x))
     /\ o \in OriginalsOf(x)
     /\ segs' = [later EXCEPT ![o] = back]

\* Coding itself, as far as these operations see it.
AddMark(x, k) ==
  k \notin segs[x].marks /\ segs' = [segs EXCEPT ![x].marks = @ \cup {k}]
RemoveMark(x, k) ==
  k \in segs[x].marks /\ segs' = [segs EXCEPT ![x].marks = @ \ {k}]

\* The lists of the workbench hold visible segments only.
SegmentsNext ==
  \/ \E S \in (SUBSET Visible) \ {{}} :
       \/ Merge(S)
       \/ \E lo, hi \in 0..Len(TextOf(S)) : lo < hi /\ Split(S, lo, hi)
  \/ \E x \in Visible :
       \/ Unmerge(x)
       \/ \E o \in Ids : Rejoin(x, o)
       \/ \E k \in Mark : AddMark(x, k) \/ RemoveMark(x, k)

SegmentsSpec == SegmentsInit /\ [][SegmentsNext]_segs

------------------------------------------------------------------------------
\* Where numbers end that follow one another.
Breaks(N) == {n \in N : n + 1 \notin N}

\* No number is used twice, and none is missing but where the file had an empty
\* row: a number used twice leaves the order of two segments on the page to luck,
\* and where one is missing neighbours cannot be merged ("Segments must be
\* adjacent").
NumberingHolds ==
  /\ \A x, y \in Visible : segs[x].order = segs[y].order => x = y
  /\ Cardinality(Breaks({segs[x].order : x \in Visible}))
       = Cardinality(Breaks({i - 1 : i \in Imported}))

\* A mark seen on a segment is, after any step but its own removal, on a visible
\* segment that holds words of that segment: no merge, split or reversal loses
\* coding or moves it to somebody else's words (_carried_app_fields and
\* _carried_back_fields; the dialogs of SegmentRow.tsx say otherwise: the two properties below).
Marked(rows) ==
  {<<rows[x].marks, Range(rows[x].text)>> :
     x \in {x \in DOMAIN rows : rows[x].mergedInto = 0 /\ rows[x].splitInto = 0}}
MarksFollowTheirText ==
  [][\/ \E x \in Visible, k \in Mark : RemoveMark(x, k)
     \/ \A p \in Marked(segs) : \A k \in p[1] :
          \E q \in Marked(segs') : k \in q[1] /\ p[2] \cap q[2] /= {}]_segs

\* "Any codes, notes, or memos added to this merged segment will be lost"
\* (SegmentRow.tsx:979): the originals come back with the marks they had.
UnmergeDropsAddedMarks ==
  [][\A m \in Visible : Unmerge(m) =>
       \A x \in {x \in Ids : segs[x].mergedInto = m} : segs'[x].marks = segs[x].marks]_segs

\* "Any codes or notes added to the split segments will be lost.  The original
\* segment's codes and notes will be restored" (SegmentRow.tsx:1010).
RejoinDropsAddedMarks ==
  [][\A x \in Visible : \A o \in Ids :
       Rejoin(x, o) => segs'[o].marks = segs[o].marks]_segs

\* Each operation is one of TextPieces: a visible segment is a piece, and what
\* was merged into it, in order, is what it was joined from.
PieceOf[x \in Ids] ==
  LET from == InOrder({o \in Ids : segs[o].mergedInto = x})
  IN [text |-> segs[x].text, from |-> [i \in DOMAIN from |-> PieceOf[from[i]]]]

PiecesShown == LET line == InOrder(Visible) IN [i \in DOMAIN line |-> PieceOf[line[i]]]

Pieces == INSTANCE TextPieces WITH pieces <- PiecesShown, Texts <- SelectSeq(Rows, HasText)
ImplementsPieces == Pieces!PiecesSpec

=============================================================================
