SPECIFICATION FairSpec
CONSTANTS
  Callers = {c1, c2}
  Waits = {w1}
  Calls = {s1, s2}
  Rets = {r1, r2}
  None = None
  CmdLimit = 3
  Cases <- MCCases
CHECK_DEADLOCK FALSE
CONSTRAINT UntilBypass
INVARIANTS
  PoolsConserved
  CallIsOwn
PROPERTIES
  CallsComplete
