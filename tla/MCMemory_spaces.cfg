SPECIFICATION MCSpec
CONSTANTS
  NR_TASKS = 4
  TOTAL_PAGES = 12
  NUM_PAG_KERNEL = 2
  NUM_PAG_CODE = 1
  NUM_PAG_DATA = 1
  Guards <- GuardPage
  StackSizes <- OneOrTwoPages
  Threading <- InitOnly
  MaxPID = 3
INVARIANTS SeparateSpaces
