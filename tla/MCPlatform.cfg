SPECIFICATION PlatformSpec
CONSTANTS
  Tasks <- MCTasks
  Tgid <- MCTgid
  Locks <- MCOneLock
  Overlap = FALSE
  GivesUp = TRUE
  MaxHold = 1
  MaxGrant = 1
  MaxResets = 2
  MaxFrames = 4
  MaxRepeat = 2
  MaxPairs = 1
  MaxEnables = 1
  MaxRefs = 3
  InfoPages = 2
  Writers = {w1, w2}
  QUEUE_MAX_LEN = 2
  RateLimit = 1
  BackStep = 5
  BackFree = 3
  Lim = 2
  HOMING_UP_MAX = 1
  MaxSteps = 2
  MaxWrites = 2
CHECK_DEADLOCK FALSE
INVARIANTS
  EntryMatchesHolders
  BootSound
  ScanAlive
  RefExact
  MotorQueueSound
PROPERTIES
  
  ReadyTaken
