\* Three connections of one team: one is replaced, and its place is taken again.
\* The system comes to rest when every client has left and the queue is empty.
SPECIFICATION Spec
CONSTANTS
  Teams = {t1}
  Conns = {c1, c2, c3}
  Kinds <- TwoKinds
  MaxMessages = 1
INVARIANTS TypeOK NumbersConsecutive SendsToRegistered
PROPERTIES HandlersGoOn
CHECK_DEADLOCK FALSE
