SPECIFICATION Spec
CONSTANTS
    Snap = {s1, s2, s3}
    Block = {b1}
    Val = {v1, v2}
    Zero = Zero
    Hole = Hole
    Undefined = Undefined
    VolumeHead = VolumeHead
    None = None
    Faults = {}
SYMMETRY Symmetry
INVARIANT ChainIsPath
INVARIANT VolumeReads
INVARIANT SnapshotReads
INVARIANT IInv
