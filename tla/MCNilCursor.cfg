SPECIFICATION Spec
CONSTANTS
  Rows <- FourRows
  Matching <- MatchingOfFour
  Readers <- Both
  Capacity = 2
  Limit = 2
  MaxFailures = 0
  NoCursor = NoCursor
CHECK_DEADLOCK FALSE
INVARIANT NilMeansNoMore
