SPECIFICATION Spec
CONSTANTS
  Callers = {c1, c2}
  Waits = {w1, w2}
  Calls = {s1, s2}
  Rets = {r1, r2}
  None = None
  CmdLimit = 3
  Cases <- MCLate
CHECK_DEADLOCK FALSE
INVARIANTS
  SlotExclusive
