CONSTANTS
    Replica = {a, b, c}
    Write = {w1}
    Unmap = {}
    Snap = {s1, s2}
    Task = {t1}
    Bytes = {0}
    NoReplica = NoReplica
    RevisionCounterDisabled = TRUE
    Faults = {}
SPECIFICATION Spec
SYMMETRY Symmetry
INVARIANTS TypeOK OneWO ChainsInSync RWHasAcked IInv
CHECK_DEADLOCK FALSE
