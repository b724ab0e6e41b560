SPECIFICATION FairSpec
CONSTANTS
  f1 = f1
  Files <- MCFiles
  Readers = {r1}
  File <- MCFile
  NonBlock = {}
  QueueMax = 1
  Slots = {s1, s2}
  NoSlot = NoSlot
  StageMax = 2
  Kinds = {"staged", "work"}
  Lookups = {"here", "elsewhere", "none"}
  MaxCalls = 3
  Cases <- MCCases
CHECK_DEADLOCK FALSE
INVARIANTS
  SlotsConserved
  DispatchedIntact
  ObservedAtMost
PROPERTIES
  CallAcked
