\* Three connections of one team: one is replaced, and its place is taken again.
\* The system comes to rest when every client has left and the queue is empty.
SPECIFICATION SafeSpec
CONSTANTS
  Teams = {t1}
  Conns = {c1, c2, c3}
  Kinds <- TwoKinds
  MaxMessages = 0
INVARIANT OneConnectionPerTeam
CHECK_DEADLOCK FALSE
