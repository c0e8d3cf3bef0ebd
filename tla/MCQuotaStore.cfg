SPECIFICATION Spec
CONSTANTS
  h1 = h1  h2 = h2
  NoLimit = NoLimit
  Host <- Hosts
  Limit <- CapTwo
  HasStore = TRUE
  MaxCount = 5
  MaxFaults = 2
CHECK_DEADLOCK FALSE
INVARIANT WithinSession
INVARIANT WithinBudget
PROPERTY BadStoreStays
