\* Every process ends in the end and is not started again, so the system stops.
CONSTANTS
  Connections = {"c1", "c2", "c3", "c4"}
  Ids <- Order4
  Users = {"ann", "bob", "cid", "dan"}
  Typed <- Typed4
  OnWindows = TRUE
  EloMatchRange = 100
  QueueTimeout = 1
  Gain <- Gains
  FirstStore <- Players4
SPECIFICATION Spec
CHECK_DEADLOCK FALSE
CONSTRAINT SecondMatch
PROPERTY LeavesAsSeated
