SPECIFICATION Spec
CONSTANTS
  t1 = t1  t2 = t2  t3 = t3  a1 = a1  a2 = a2  a3 = a3  p1 = p1  p2 = p2
  NoId = NoId
  Task <- OneTask
  Action <- TwoActions
  Proposal <- TwoProposals
  Inert <- OtherProposal
  Outcome <- AllOutcomes
  MaxJobs = 2
  CanPause = FALSE
  CanStop = FALSE
SYMMETRY ActionSymmetry
CHECK_DEADLOCK FALSE
INVARIANT NoStackedProposals
INVARIANT HeldNotDropped
PROPERTY ImplementsApproval
