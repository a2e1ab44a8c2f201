SPECIFICATION MCSpec
CONSTANTS
    Files = {"sparql_cq_test_results.csv", "governance_scorecard.csv", "ontology_quality.csv", "enterprise-shapes.ttl", "agent-gate.ttl", "enterprise.ttl", "alignment.ttl", "enterprise-inferred.ttl"}
    Contents <- MCContents
    MaxRewrites = 2
    None = None
    x0 = x0
    x1 = x1
    x2 = x2
    Exports = {x0, x1, x2}
    Regulations <- MCRegulations
    Malformed = {"torn"}
    SourceRef <- MCSourceRef
    Decisions = {None, "o1", "o3", "gone"}
    MaxHops = 4
    Stores = {"fuseki", "stardog"}
    Sending <- MCSending
    TierOf <- MCTier
    Quoting <- MCQuoting
    MaxPublishes = 2
    Turtle <- MCTurtle
    DerivedFiles = {"enterprise-inferred.ttl"}
    Garbled = Garbled
    MaxGates = 2
CHECK_DEADLOCK FALSE
INVARIANTS PassedQuestionSatisfies
