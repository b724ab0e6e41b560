SPECIFICATION FairSpec
CONSTANTS
  Callers = {c1}
  Waits = {w1}
  Calls = {s1, s2}
  Rets = {r1, r2}
  None = None
  CmdLimit = 3
  Cases <- MCLateAck
CHECK_DEADLOCK FALSE
PROPERTIES
  CallReturns
