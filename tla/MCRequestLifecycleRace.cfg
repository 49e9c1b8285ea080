CONSTANTS
  r1 = r1
  r2 = r2
  r3 = r3
  r4 = r4
  Req <- MCReq4
  Kinds <- ProxyOnly
  MaxConcurrent = 2
SPECIFICATION Spec
SYMMETRY Sym4
INVARIANTS
  LimitKept
CHECK_DEADLOCK FALSE
