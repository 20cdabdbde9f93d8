CONSTANTS
  Connections = {c1, c2, c3, c4}
  Users = {u1}
  EloMatchRange = 1
  QueueTimeout = 2
  Elos <- MCElos
SPECIFICATION FairSpec
INVARIANTS TypeOK NoMissedMatch
PROPERTIES NoOvertaking NobodyWaitsForever KeepsThePromise
