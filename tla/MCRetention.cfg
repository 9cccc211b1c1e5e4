SPECIFICATION RetentionSpec
CONSTANTS
  q1 = q1
  q2 = q2
  e1 = e1
  Rows <- ThreeRows
  Requests <- MCRequests
  Policies <- MCPolicies
  MaxTime = 4
  MaxCrashes = 1
 
PROPERTY TrimIsWhole
CHECK_DEADLOCK FALSE
