\* The other player stays; a game ends, so the players may stop.
CONSTANTS
  Rows = 1
  Cols = 4
  MoveDuration = 1
  JumpDuration = 1
  MoveCooldown = 0
  JumpCooldown = 1
  StartBoard <- LineBoard
  GuestAtFirst = "playing"
  FirstStore <- TwoUsers
  Gain <- EloGain
  SyncFrames = 4
  MaxRequests = 2
  MaxReturns = 0
  Horizon = 3
SPECIFICATION Spec
CHECK_DEADLOCK FALSE
INVARIANTS StaysConsistent
