SPECIFICATION AllSpec
CONSTANTS
  Thread = {idle, a, b}
  Idle = idle
  Size = 5
  MaxChar = 2
  MaxLen = 3
  IntBits = 4
  LongBits = 6
  Values = {0, 9, 15, 37, 32, 63}
  Sizes = {0, 1, 3, 40}
  Letter = {"a", "c"}
  Keys = {"a", " ", ">", ";", "q", "newline"}
  Rare = {"c", "<", "&", "backspace", "interrupt", "eof"}
  BUFSIZE = 6
  EXEC_MAX_ARG_NUM = 2
  FileName = {"a"}
  MaxKeys = 6
INVARIANTS
  OwnContext
  TextRight
  LinesRun
CHECK_DEADLOCK FALSE
