SPECIFICATION Spec
CONSTANTS
  Unit = 4
  Reserved = {"offense:x"}
  c1 = c1
  c2 = c2
  NoOracle = NoOracle
  NoDirective = NoDirective
  NoHandoff = NoHandoff
  Null = Null
  Path <- Paths
  Content <- Contents
  Ancestors <- AncestorsOf
  Escaping <- Outside
  Signals <- PublishedSignals
  Policies <- HostPolicies
  Envelopes <- SignedEnvelopes
  Starts <- Fresh
  Trees <- Left
  Exits = {0, 1}
  Receipts <- Claims
  MaxSignals = 2
  MaxAttempts = 2
  Today = 25
  Readings = {0, 30, 20000}
CHECK_DEADLOCK FALSE
INVARIANT VerifiedWasDone
INVARIANT ClearedAtItsStakes
INVARIANT LearnedFromTheWorld
INVARIANT InhibitorsAreIncidents
