SPECIFICATION PoolSpec
CONSTANTS
  write = write
  post = post
  Never = Never
  Intent = {write, post}
  Emission = {post}
  Unreadable = {}
  Confidence = {840, 1000}
  One = 1000
  BarDelta = 150
  Epsilon = 20
  MaxPending = 2
  MaxResolved = 1
  MaxProposals = 4
  MaxClock = 2
CHECK_DEADLOCK FALSE
INVARIANT WaitingIsKept
PROPERTY NoIsHeard
