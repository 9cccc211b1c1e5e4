SPECIFICATION MCSpec
CONSTANTS
  q1 = q1
  q2 = q2
  e1 = e1
  e2 = e2
  o1 = o1
  ka = ka
  kb = kb
  Records <- AllRecords
  NoRecord = NoRecord
  Kind <- MCKind
  Corr <- MCCorr
  Readers = {c1}
  Capacity = 3
  Null = Null
INVARIANTS
  
  HistogramExact
  StatsFaithful
PROPERTIES
  ImplementsRecentLog
CHECK_DEADLOCK FALSE
