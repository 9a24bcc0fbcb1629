SPECIFICATION FairSpec
CONSTANTS
  SystemSizes <- MCSystemSizes
  UserSizes <- MCUserSizes
  SEC_PISTA = {9, 15, 18}
  MaxFailures = 1
INVARIANTS
  BootTypeOK
  EverySectorInPlace
  LoaderSurvives
  UserArrives
PROPERTIES
  BootEnds
CHECK_DEADLOCK FALSE
