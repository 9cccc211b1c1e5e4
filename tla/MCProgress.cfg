SPECIFICATION MCSpec
CONSTANTS
  q1 = q1
  q2 = q2
  NoCursor = NoCursor
  Rows <- MCRows
  Requests <- MCRows
  Policies <- MCPolicies
  MaxTime = 2
  MaxCrashes = 1
PROPERTIES
  RetentionProgresses
  
CHECK_DEADLOCK FALSE
