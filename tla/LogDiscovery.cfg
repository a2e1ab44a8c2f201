SPECIFICATION Spec
CONSTANTS
  cli = cli
  request = request
  Processes = {cli, request}
  Near <- MCNear
  ShapesOf <- MCShapesOf
  Corpora = {"first", "second"}
  LinesIn <- MCLines
  Plans <- MCPlans
  RefineHits = 1
  EnumMax = 2
  Window = 3
  MinBins = 4
  MinSequence = 2
  MinFit = 2
  Hour = 4
  MinHours = 2
  MinEventHits = 4
  MinDriftHits = 1
  MinDecisions = 2
  MaxStarts <- MCStarts
  Reviewable = {"event"}
INVARIANTS MergesEnd RankerOnDecisions
PROPERTIES CausalWhileDirected
CHECK_DEADLOCK FALSE
