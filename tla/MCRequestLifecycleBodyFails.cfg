CONSTANTS
  r1 = r1
  r2 = r2
  r3 = r3
  r4 = r4
  Req <- MCReq2
  Kinds <- ProxyOnly
  MaxConcurrent = 1
SPECIFICATION Spec
INVARIANTS
  OnCompleteAlways
CHECK_DEADLOCK FALSE
