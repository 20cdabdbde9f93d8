\* Every connection closes in the end and is not used again, so the system stops.
CONSTANTS
  c1 = c1 c2 = c2 c3 = c3 c4 = c4
  u1 = u1 u2 = u2 u3 = u3 u4 = u4
  Connections = {c1, c2, c3, c4}
  Users = {u1, u2, u3, u4}
  EloMatchRange = 1
  QueueTimeout = 1
  Rating <- Ratings
  MaxBusy = 2
SPECIFICATION Spec
SYMMETRY Symmetry
CHECK_DEADLOCK FALSE
INVARIANTS TypeOK SessionAgrees WaitsOrSits MatchedOnce
PROPERTIES ColorsAreKept SeatsAreKept
