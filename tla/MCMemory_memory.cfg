SPECIFICATION MCSpec
CONSTANTS
  NR_TASKS = 4
  TOTAL_PAGES = 15
  NUM_PAG_KERNEL = 2
  NUM_PAG_CODE = 1
  NUM_PAG_DATA = 2
  Guards <- GuardPage
  StackSizes <- TwoOrTooMany
  Threading <- InitAndChild
  MaxPID = 4
INVARIANTS MemTypeOK NoLeakUnthreaded PrivateFrames LiveMapped
