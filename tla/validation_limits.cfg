\* The system comes to rest when every order is sent and the clock has stopped.
SPECIFICATION Spec
CONSTANTS
  Teams = {t1}
  Orders = {o1, o2, o3}
  i1 = i1
  i2 = i2
  Instruments <- TwoInstruments
  Shapes <- SomeShapes
  Rules <- SomeRules
  MaxTime = 1
SYMMETRY Symmetry
INVARIANTS TypeOK RateNeverExceeded RefusedOnlyAtLimit LimitsKeptInTurn
CHECK_DEADLOCK FALSE
