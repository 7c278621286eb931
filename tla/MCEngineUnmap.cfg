CONSTANTS
    Replica = {a, b}
    Write = {}
    Unmap = {u1}
    Snap = {s1, s2}
    Task = {}
    Bytes = {}
    NoReplica = NoReplica
    RevisionCounterDisabled = TRUE
    Faults = {}
SPECIFICATION Spec
SYMMETRY Symmetry
INVARIANTS RWHasUnmapped
CHECK_DEADLOCK FALSE
