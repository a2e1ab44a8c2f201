SPECIFICATION Spec
CONSTANTS
    Proposals = {p1, p2}
    Causal = {p2}
    Rule = Rule
    Summarised = Summarised
    Requests = {r1, r2}
    MaxSaves = 3
    None = None
    Empty = Empty
    Garbled = Garbled
SYMMETRY Symmetry
INVARIANTS EntriesApproved ApprovalsKept
