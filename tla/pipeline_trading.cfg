SPECIFICATION SafeSpec
CONSTANTS
  Orders = {o1, o2, o3, o4}
  Teams = {t1, t2}
  Limit = 1
  MaxQueued = 1
  MaxCancels = 2
  MayFail = FALSE
SYMMETRY OrderAndTeamSymmetry
INVARIANTS TypeOK PositionsFollowTrades SequentialTeamsWithinLimit
PROPERTY CancelledIsNotPicked
\* Every order of the instance may have been sent and processed.
CHECK_DEADLOCK FALSE
