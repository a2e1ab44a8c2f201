SPECIFICATION MCSpec
CONSTANTS
    MaxRows = 2
    Proposals = {p1, p2, p3}
    Mined = {p1}
    Texts = {x1, c1, c2}
    Candidates = {c1, c2}
    Strategies = {"strategy"}
    StrategyOf <- OneStrategy
    Monitors = {m1}
    Engines = {e1}
    Revokers = {r1}
    None = None
SYMMETRY Symmetry
INVARIANTS OneWaitingCopy
PROPERTIES DecisionStands NoResurface RevocationStands
