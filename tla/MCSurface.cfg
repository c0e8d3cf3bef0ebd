SPECIFICATION Spec
CONSTANTS
  c1 = c1  c2 = c2  c3 = c3
  None = None
  Conn = {c1, c2, c3}
  MaxTasks = 3
  MaxConnections = 2
  MaxPending = 1
  BodyCap = 1
CHECK_DEADLOCK FALSE
INVARIANT PendingBounded
INVARIANT OneDoor
PROPERTY EchoEnds
