SPECIFICATION Spec
CONSTANTS
  Orders = {o1, o2, o3, o4}
  Prices = {1, 2}
  Quantities = {1, 2}
SYMMETRY OrderSymmetry
INVARIANTS TypeOK Uncrossed BookConsistent TradesAccountForFills
PROPERTIES ImplementsPriority
\* Every order of the instance may have been submitted and filled.
CHECK_DEADLOCK FALSE
