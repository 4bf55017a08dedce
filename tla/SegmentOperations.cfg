SPECIFICATION SegmentsSpec
CONSTANTS
  Word = {1, 2, 3, 4}
  Rows <- FourRows
  Mark = {code}
  MaxId = 8
  OnlyLone = TRUE
INVARIANT NumberingHolds
PROPERTIES MarksFollowTheirText ImplementsPieces
CHECK_DEADLOCK FALSE
