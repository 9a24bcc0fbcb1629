SPECIFICATION SemSpec
CONSTANTS
  NR_TASKS = 4
  Priorities <- TwoPriorities
  Quantum = 1
  MaxPause = 1
  ListHead = ListHead
  NoTask = NoTask
  NotInLoop = NotInLoop
  NR_SEMS = 1
  Values <- Binary
  Sleepers <- Everybody
  MaxCount = 2
  Free = Free
  Departed = Departed
  NoSem = NoSem
INVARIANTS SemTypeOK NoFreePass
