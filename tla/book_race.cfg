\* Three orders at two prices, an incoming order that takes one of them and
\* half of another, a close, and two cancellations at any time.
SPECIFICATION Spec
CONSTANTS
  Orders = {1, 2, 3}
  Prices = {1, 2}
  Quantities = {2}
  SellQuantities = {3}
  MaxIncoming = 1
  MaxCloses = 1
  MaxCancels = 2
INVARIANTS TypeOK SerialCallsAgree QueuedOnceAndMapped ConfirmedHasLeft
PROPERTIES CallsEnd
\* Every order and every close of the instance may be over.
CHECK_DEADLOCK FALSE
