CONSTANTS
    Replica = {a, b, c}
    Write = {w1}
    Unmap = {}
    Snap = {s1, s2}
    Task = {t1}
    Bytes = {}
    NoReplica = NoReplica
    RevisionCounterDisabled = TRUE
    Faults = {"addSnapshot"}
SPECIFICATION Spec
SYMMETRY Symmetry
INVARIANTS ChainsInSync
CHECK_DEADLOCK FALSE
