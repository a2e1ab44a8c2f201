SPECIFICATION PipelineSpec
CONSTANTS
    BaseTables = {"Asset"}
    UserTables = {"Site"}
    TaskTables = {"Task"}
    LogClasses = {"Outage"}
    ShaclRules = {"r1"}
    SparqlRules = {"r2"}
    CausalRules = {"c1"}
    Blocks = {"b1", "b2"}
    ClassBlocks = {"b1"}
    Singles <- MCSingles
    MaxUpsets = 2
    Rounds = 3
INVARIANTS SettledLikeFresh MeasuredThisRun
PROPERTIES PassIsOfThisOntology RemovalNotPassed
