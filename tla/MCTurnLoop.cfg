SPECIFICATION Spec
CONSTANTS
  None = None
  Message <- Messages
  MaxIterations = 2
  EmptyRetries = 2
  ResearchBudget = 3
INVARIANT NothingDropped
INVARIANT StoppedSaysWhy
PROPERTY JobEnds
