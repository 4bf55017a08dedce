----------------------------- MODULE TextPieces -----------------------------
(***************************************************************************)
(* What a researcher is promised of a transcript cut into pieces: the     *)
(* pieces, read in order, are always the transcript.  Joining remembers    *)
(* the pieces joined and taking a join back returns exactly those; cutting *)
(* a run anew, and rejoining what was cut, keep the words of that run and  *)
(* touch nothing outside it.                                               *)
(***************************************************************************)
EXTENDS Integers, Sequences, SequencesExt

CONSTANT Texts      \* the pieces the transcript was imported as

VARIABLE pieces     \* sequence of [text, from]: from = the pieces it was joined of

Piece(text) == [text |-> text, from |-> << >>]

Words(run) == FlattenSeq([i \in DOMAIN run |-> run[i].text])

PiecesInit == pieces = [i \in DOMAIN Texts |-> Piece(Texts[i])]

\* Pieces i..j make way for the pieces of `new`; the others stay as they are.
Replace(i, j, new) ==
  pieces' = SubSeq(pieces, 1, i - 1) \o new \o SubSeq(pieces, j + 1, Len(pieces))

Join(i, j) ==
  LET run == SubSeq(pieces, i, j)
  IN /\ i < j
     /\ Replace(i, j, <<[text |-> Words(run), from |-> run]>>)

TakeJoinBack(i) ==
  /\ pieces[i].from /= << >>
  /\ Replace(i, i, pieces[i].from)

\* One to three fresh pieces in the place of a run, with the run's words.
Cut(i, j) == \E n \in 1..3 :
  LET new == SubSeq(pieces', i, i + n - 1)
  IN /\ i + n - 1 <= Len(pieces')
     /\ Words(new) = Words(SubSeq(pieces, i, j))
     /\ \A k \in DOMAIN new : new[k] = Piece(new[k].text)
     /\ Replace(i, j, new)

\* A run becomes one piece again, which may itself have been joined before.
Rejoined(i, j) ==
  /\ i <= Len(pieces')
  /\ pieces'[i].text = Words(SubSeq(pieces, i, j))
  /\ Words(pieces'[i].from) \in {<< >>, pieces'[i].text}
  /\ Replace(i, j, <<pieces'[i]>>)

PiecesNext == \E i, j \in DOMAIN pieces :
  /\ i <= j
  /\ Join(i, j) \/ (i = j /\ TakeJoinBack(i)) \/ Cut(i, j) \/ Rejoined(i, j)

PiecesSpec == PiecesInit /\ [][PiecesNext]_pieces
=============================================================================
