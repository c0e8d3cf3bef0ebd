SPECIFICATION Spec
CONSTANTS
  None = None
  Refused = Refused
  Tool <- ShellAndWrite
  Target <- CommandsAndPaths
  Enforced = TRUE
  Configured <- Everything
  MaxQuota = 0
CHECK_DEADLOCK FALSE
INVARIANT AutonomyIsSigned
INVARIANT ProposerIsConfined
INVARIANT ApprovedIsExecuted
