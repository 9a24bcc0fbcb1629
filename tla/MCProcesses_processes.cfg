SPECIFICATION ProcSpec
CONSTANTS
  NR_TASKS = 4
  Priorities <- OnePriority
  Quantum = 1
  MaxPause = 1
  ListHead = ListHead
  NoTask = NoTask
  NotInLoop = NotInLoop
  ThreadsCreate = FALSE
  ThreadsExit = FALSE
  Address <- MCAddress
  Null <- MCNull
  Wild <- MCWild
INVARIANTS
  ProcTypeOK
  ThreadsKnown
  ExitKillsItsThreads
