SPECIFICATION TestSpec
CONSTANTS
  MAX_PIPES = 3
  PIPE_BUFFER_SIZE = 12
  Junk = {"NUL"}
  MaxCount = 14
  Lines <- TestLines
  KeyBytes = {"EOF"}
  MaxComm = 1
  Help <- NoHelp
  LineStart <- NoHelp
  Stale = {"NUL"}
INVARIANTS ExpectedFilterOutput
