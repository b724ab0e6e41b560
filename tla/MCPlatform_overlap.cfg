SPECIFICATION LockOnly
CONSTANTS
  Tasks <- MCTasks
  Tgid <- MCTgid
  Locks <- MCOneLock
  Overlap = TRUE
  GivesUp = FALSE
  MaxHold = 1
  MaxGrant = 1
  MaxResets = 2
  MaxFrames = 4
  MaxRepeat = 2
  MaxPairs = 1
  MaxEnables = 1
  MaxRefs = 3
  InfoPages = 2
  Writers = {w1, w2}
  QUEUE_MAX_LEN = 2
  RateLimit = 1
  BackStep = 5
  BackFree = 3
  Lim = 3
  HOMING_UP_MAX = 2
  MaxSteps = 2
  MaxWrites = 3
CHECK_DEADLOCK FALSE
INVARIANTS
  MutualExclusion
