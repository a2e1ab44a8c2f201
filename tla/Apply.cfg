SPECIFICATION SerialSpec
CONSTANTS
    Proposals = {p1, p2}
    Appliers = {a1, a2}
    Targets = {2, rc}
    MaxApplies = 3
    MaxShared = 2
    Regenerates = TRUE
    Faults = TRUE
    None = None
SYMMETRY Symmetry
INVARIANTS ReviewGate LedgerGated
PROPERTY ImplementsAtomicApply
