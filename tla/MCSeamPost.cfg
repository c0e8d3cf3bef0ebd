SPECIFICATION Spec
CONSTANTS
  None = None
  Refused = Refused
  Tool <- Post
  Target <- Destinations
  Enforced = TRUE
  Configured <- NothingOrAll
  MaxQuota = 2
CHECK_DEADLOCK FALSE
INVARIANT OnlyUnderTheGrantInForce
INVARIANT AutonomyIsSigned
