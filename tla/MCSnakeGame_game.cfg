SPECIFICATION FairSpec
CONSTANTS
  PAGE_SIZE = 4096
  USER_FIRST_PAGE = 256
  NUM_PAG_CODE = 8
  NUM_PAG_DATA = 20
  WORD = 1073741824
  X_size = 6
  Y_size = 6
  Period = 2
  FreePage = 304
  Behind <- MCBehind
  Key <- MCKey
  char_map <- MCchar_map
  HighChars <- MCHighChars
  Garbage <- MCGarbage
INVARIANTS
  GameTypeOK
  TurnIsLegal
  KeysTracked
PROPERTIES
  GameGoesOn
CHECK_DEADLOCK FALSE
