SPECIFICATION FairSpec
CONSTANTS
  t1 = t1  t2 = t2  t3 = t3  a1 = a1  a2 = a2  a3 = a3  p1 = p1  p2 = p2
  NoId = NoId
  Task <- TwoTasks
  Action <- OneAction
  Proposal <- NoProposals
  Inert <- NoProposals
  Outcome <- AllOutcomes
  MaxJobs = 2
  CanPause = TRUE
  CanStop = TRUE
CHECK_DEADLOCK FALSE
INVARIANT TypeOK
INVARIANT SingleUse
INVARIANT NoRunWithoutApproval
INVARIANT OneTicketPerActiveTask
PROPERTY TerminalIsFinal
PROPERTY ActiveTaskSettles
PROPERTY StopEndsWorker
