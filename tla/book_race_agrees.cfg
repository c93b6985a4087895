SPECIFICATION Spec
CONSTANTS
  Orders = {1, 2}
  Prices = {1, 2}
  Quantities = {1, 2}
  SellQuantities = {1}
  MaxIncoming = 1
  MaxCloses = 0
  MaxCancels = 2
INVARIANTS BookStaysConsistent
CHECK_DEADLOCK FALSE
