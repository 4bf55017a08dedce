------------------------- MODULE MCSegmentOperations -------------------------
(* Three segments and an empty row among them; only the first can be cut by itself. *)
EXTENDS SegmentOperations

FourRows == <<<<1, 2>>, <<3>>, << >>, <<4>>>>
=============================================================================
