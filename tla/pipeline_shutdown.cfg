SPECIFICATION Spec
CONSTANTS
  Orders = {o1, o2}
  Teams = {t1, t2}
  Limit = 1
  MaxQueued = 2
  MaxCancels = 1
  MayFail = TRUE
INVARIANT ConfirmedIsMatched
PROPERTY TradesAreBooked
\* After the sentinels every thread has stopped.
CHECK_DEADLOCK FALSE
