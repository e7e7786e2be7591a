CONSTANTS
    Frozen = {f1}
    Version = {v1, v2, v3}
    Absent = absent
    Branch = {b1, b2}
SPECIFICATION Spec
SYMMETRY Symmetric
INVARIANT TypeOK
INVARIANT MainPinsHold
PROPERTY FrozenChangeIsLoud
PROPERTY RefusalHasCause
