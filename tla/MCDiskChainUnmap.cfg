SPECIFICATION Spec
CONSTANTS
    Snap = {s1, s2, s3}
    Block = {b1}
    Val = {v1, v2}
    Zero = Zero
    Hole = Hole
    Undefined = Undefined
    VolumeHead = VolumeHead
    None = None
    Faults = {"unmapGap"}
SYMMETRY Symmetry
INVARIANT SnapshotReads
