CONSTANTS
    Replica = {a, b, c}
    Write = {w1}
    Unmap = {}
    Snap = {s1, s2}
    Task = {t1}
    Bytes = {}
    NoReplica = NoReplica
    RevisionCounterDisabled = FALSE
    MaxFailures = 1
    Faults = {}
SPECIFICATION RSpec
SYMMETRY Symmetry
INVARIANTS  StartRejectsStale
CHECK_DEADLOCK FALSE
