\* The clock of a game is bounded by Horizon, so a script stops there.
CONSTANTS
  Rows = 4
  Cols = 2
  MoveDuration = 1
  JumpDuration = 2
  MoveCooldown = 1
  JumpCooldown = 2
  StartBoards <- ScriptBoards
  Frames = {1, 2}
  MaxMotions = 2
  Horizon = 4
  Inputs <- ScriptInputs
  Pixels <- ScriptPixels
  CellSize = 10
  OriginX = 1
  OriginY = 2
SPECIFICATION ScriptSpec
CHECK_DEADLOCK FALSE
INVARIANTS PawnsKeepTheirRights PrintedBoardReadsBack
PROPERTIES PlaysTheGame NoPieceAppears PrintingChangesNothing ScoreIsPaidFor
