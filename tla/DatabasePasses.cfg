SPECIFICATION MCSpec
CONSTANTS
  daemon = daemon
  client = client
  c1 = c1
  c2 = c2
  Entities = {e1}
  Passes = {daemon, client}
  Scheduled = {daemon}
  SupersedeAge <- MCAges
  CompressAge = 1
  MaxTime = 3
  MaxPoints = 3
  MaxFaults = 1
  Size = 3
  Rows <- MCRows
  Subjects = {x1}
  Unknown = Unknown
  Resolvers = {c1, c2}
  MaxClock = 1
  None = None
INVARIANTS NothingLost NothingUncounted SurvivorLeft InvalidationHasEvent
PROPERTIES SupersededInTheEnd
CHECK_DEADLOCK FALSE
