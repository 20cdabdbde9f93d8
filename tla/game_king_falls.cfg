\* The clock of a game is bounded by Horizon, so a game stops there.
CONSTANTS
  Rows = 1
  Cols = 4
  MoveDuration = 1
  JumpDuration = 2
  MoveCooldown = 1
  JumpCooldown = 2
  StartBoards <- LineBoards
  Frames = {1, 2}
  MaxMotions = 4
  Horizon = 5
  Pictures <- SomePictures
SPECIFICATION Spec
CHECK_DEADLOCK FALSE
PROPERTY KingFallsOnlyAtGameEnd
