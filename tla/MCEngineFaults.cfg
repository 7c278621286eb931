CONSTANTS
    Replica = {a, b}
    Write = {w1}
    Unmap = {u1}
    Snap = {s1}
    Task = {t1}
    Bytes = {0}
    NoReplica = NoReplica
    RevisionCounterDisabled = FALSE
    Faults = {"barge", "addSnapshot", "counter", "dupName", "snapshotFull", "forceRW"}
SPECIFICATION Spec
SYMMETRY Symmetry
PROPERTIES ErrSticks
CHECK_DEADLOCK FALSE
