\* The other player may come back; a game ends, so the players may stop.
CONSTANTS
  Rows = 1
  Cols = 4
  MoveDuration = 1
  JumpDuration = 1
  MoveCooldown = 0
  JumpCooldown = 1
  StartBoard <- LineBoard
  GuestAtFirst = "starting"
  FirstStore <- TwoUsers
  Gain <- EloGain
  SyncFrames = 4
  MaxRequests = 2
  MaxReturns = 1
  Horizon = 3
SPECIFICATION Spec
CHECK_DEADLOCK FALSE
PROPERTIES ResumesTheGame
