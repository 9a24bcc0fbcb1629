SPECIFICATION MCSpec
CONSTANTS
  NR_TASKS = 4
  Priorities <- TwoPriorities
  Quantum = 2
  MaxPause = 1
  ListHead = ListHead
  NoTask = NoTask
  NotInLoop = NotInLoop
INVARIANTS TypeOK QueueDiscipline HighestPriorityRuns NoneLostUnranked
PROPERTIES
  PreemptionJustified RoundRobinOrder  ReadyRuns 
