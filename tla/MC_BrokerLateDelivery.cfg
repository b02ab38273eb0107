CONSTANTS
    n1 = n1
    n2 = n2
    a1 = a1
    Names <- MCNames
    Attrs = {a1}
    DefaultAttr = a1
    Absent = Absent
    MaxBatch = 1
    MaxReconnects = 2
SPECIFICATION LSpec
SYMMETRY Symmetry
INVARIANT
    MirrorSound
