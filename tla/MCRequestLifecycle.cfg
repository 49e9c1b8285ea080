CONSTANTS
  r1 = r1
  r2 = r2
  r3 = r3
  r4 = r4
  Req <- MCReq3
  Kinds <- Kind
  MaxConcurrent = 2
SPECIFICATION MCSpec
INVARIANTS
  SlotAccounting
  NeverTwice
  NothingLeftOpen
  OutcomeRecorded
PROPERTIES
  SemaphoreSpec
  SlotReturned
CHECK_DEADLOCK FALSE
