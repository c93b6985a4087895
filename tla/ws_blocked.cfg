\* Two connections of one team, one message: a send that fails, and a sender that
\* waits while a connection replaces another.
SPECIFICATION Spec
CONSTANTS
  Teams = {t1}
  Conns = {c1, c2}
  Kinds <- TwoKinds
  MaxMessages = 1
PROPERTY QueueNotBlocked
CHECK_DEADLOCK FALSE
