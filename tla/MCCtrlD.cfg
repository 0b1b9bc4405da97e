SPECIFICATION Spec
CONSTANTS
  MAX_PIPES = 3
  PIPE_BUFFER_SIZE = 2
  Junk = {"?"}
  MaxCount = 3
  Lines <- TwoPipelines
  KeyBytes = {"A", "EOF"}
  MaxComm = 1
  Help <- MCHelp
  LineStart <- MCLineStart
  Stale <- MCStale
PROPERTIES CtrlDEndsReader
