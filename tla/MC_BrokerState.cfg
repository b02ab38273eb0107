CONSTANTS
    n1 = n1
    n2 = n2
    a1 = a1
    a2 = a2
    Names <- MCNames
    Attrs = {a1}
    DefaultAttr = a1
    Absent = Absent
    MaxBatch = 2
    MaxReconnects = 2
SPECIFICATION Spec
SYMMETRY Symmetry
INVARIANTS
    TypeOK
    MirrorSound
    TierBarrier
PROPERTIES
    SuccessMeansConverged
    ImplementsBrokerMirror
