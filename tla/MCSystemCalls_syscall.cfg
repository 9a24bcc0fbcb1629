SPECIFICATION Spec
CONSTANTS
  PAGE_SIZE = 4096
  USER_FIRST_PAGE = 256
  NUM_PAG_CODE = 8
  NUM_PAG_DATA = 20
  WORD = 1073741824
  NUM_COLUMNS = 3
  NUM_ROWS = 2
  START_ROW = 1
  TAM_BUFFER = 2
  Thread = {0, 1}
  Main = 0
  Buffers <- MCBuffers
  Texts <- MCTexts
  MaxClones = 1
INVARIANTS SysTypeOK OneRoutinePerCall WriteInOrder ScreenShowsText PerrorShowsErrno
CHECK_DEADLOCK FALSE
