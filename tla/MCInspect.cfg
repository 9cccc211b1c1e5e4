SPECIFICATION MCSpec
CONSTANTS
  q1 = q1
  q2 = q2
  e1 = e1
  x1 = x1
  ka = ka
  kb = kb
  Records <- AllRecords
  Requests <- MCRequests
  Corr <- MCCorr
  Readers <- Both
  Capacity = 2
  MaxFailures = 1
  NoRecord = NoRecord
  NoCursor = NoCursor
  Null = Null
  Bad = Bad
INVARIANTS
  DurableFound
  SiblingsExact
  
  SQLiteWalkComplete
  
CHECK_DEADLOCK FALSE
