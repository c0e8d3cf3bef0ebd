SPECIFICATION BusSpec
CONSTANTS
  p1 = p1  p2 = p2  bad = bad
  Garbage = Garbage
  Payload <- Payloads
  Valid <- ValidOnes
  MaxLen = 3
CHECK_DEADLOCK FALSE
INVARIANT MemoryIsAChain
INVARIANT AcceptedFileIsPrefix
INVARIANT PublishedIsDurable
INVARIANT ResumesAHistory
