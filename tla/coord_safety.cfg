\* Two calls with different timeouts compete for one slot. The retention is as
\* short as the shorter timeout, so the cleaner may remove a finished request
\* before its call collects the result.
SPECIFICATION Spec
CONSTANTS
  r1 = r1
  r2 = r2
  Requests <- TwoCalls
  Timeout <- TwoTimeouts
  MaxPending = 1
  Retention = 1
INVARIANTS TypeOK CapacityRespected DoneHoldsNoSlot PendingConsistent CollectFindsEntry VerdictIsFirst FailsOnlyWhenLate ClearedStaysEmpty
PROPERTIES EveryCallReturns ImplementsContract
\* After shutdown the coordinator stops for good.
CHECK_DEADLOCK FALSE
