SPECIFICATION Spec
CONSTANTS
  MAX_PIPES = 3
  PIPE_BUFFER_SIZE = 2
  Junk = {"?"}
  MaxCount = 3
  Lines <- MCLines
  KeyBytes = {"A", "EOF"}
  MaxComm = 1
  Help <- MCHelp
  LineStart <- MCLineStart
  Stale <- MCStale
INVARIANTS PipesTypeOK PipeIsFifo PipelineConnected OutputHasABuffer
