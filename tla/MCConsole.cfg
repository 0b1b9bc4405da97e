SPECIFICATION ConsoleSpec
CONSTANTS
  SCREEN_WIDTH = 12
  SCREEN_HEIGHT = 12
  GlyphW = 3
  GlyphH = 3
  Word = 1026
  FontSizes = {1, 2}
  Outputs <- MCOutputs
  BUFF_SIZE = 3
  BUFFER_SIZE = 3
  MaxBurst = 2
  BORDER_SIZE = 2
  PADDLE_X = 3
  PADDLE_WIDTH = 1
  PADDLE_HEIGHT = 4
  PADDLE_SPEED = 2
  BALL_SIZE = 2
  InitialBallSpeed = 1
  InitialScore = 1
  SCORE_CARD_FONT_SIZE = 2
  MaxConfig = 1
  Entries <- MCEntries
  Rebinds <- MCRebinds
INVARIANTS
  TypeOK
  AsleepReaderSeesKey
  OverrunNeedsLastCell
  
  
  BallInField
  PaddlesInField
  MatchIsOpen
  ScreenHandedBack
PROPERTIES
  SavedBallDoesNotScore
  
