\* Every process ends in the end and is not started again, so the system stops.
CONSTANTS
  Connections = {"c1", "c2", "c3"}
  Ids <- Order
  Users = {"ann", "bob", "cid", "dan"}
  Typed <- TypedLines
  OnWindows = TRUE
  EloMatchRange = 100
  QueueTimeout = 1
  Gain <- Gains
  FirstStore <- Players3
SPECIFICATION Spec
CHECK_DEADLOCK FALSE
PROPERTIES SearchersAreAnswered SeatedPlayersPlay
