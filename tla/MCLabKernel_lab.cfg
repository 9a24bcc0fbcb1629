SPECIFICATION FairSpec
CONSTANTS
  NR_TASKS = 4
  MaxPID = 4
  MaxPending = 1
  Frames = {1,2}
  QUANTUM = 2
CONSTRAINT NotTangled
INVARIANTS
  LabTypeOK
  
  FamilyTree

  
  
CHECK_DEADLOCK FALSE
