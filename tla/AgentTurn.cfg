SPECIFICATION Spec
CONSTANTS
    Tables <- MCTables
    Row = {"r1", "r2"}
    TableOf <- MCTableOf
    Texts = {1, 2}
    Indexers = {x1, x2}
    Batch = 2
    Limits = {None, 0}
    MaxChanges = 1
    None = None
    Askers = {a1}
    MaxAsks = 2
    Incomplete = {"r2"}
    Keyed = {"r1", "r2"}
    Classes = {"a", "b", "c"}
    Below <- MCBelow
    FlavorClasses = {"a"}
    ClassOf <- MCClassOf
    Expressions <- MCExpressions
    Alerts = {"l"}
    AlertBuffer = 1
    Dependents <- MCDependents
    MaxK = 2
    Casts = {{x1, x2}, {a1}}
    Options <- MCOptions
SYMMETRY Symmetry
CHECK_DEADLOCK FALSE
INVARIANTS PayloadTruthful IndexCatchesUp
