SPECIFICATION Spec
CONSTANTS
    Snap = {s1, s2}
    Write = {w1, w2}
    MaxHead = 3
    None = None
    Root = Root
    Faults = {}
INVARIANT SnapshotsSurvive
INVARIANT VolumeSurvives
INVARIANT OpenReads
CHECK_DEADLOCK FALSE
SYMMETRY Symmetry
