CONSTANTS
  Null = Null
  Unset = Unset
  Empty = Empty
  Bad = Bad
SPECIFICATION MCSpec
CHECK_DEADLOCK FALSE
INVARIANTS
  EventJoins
  RecordsFaithful
  
  
  DiffComplete
  
  

  
  
