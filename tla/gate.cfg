CONSTANTS
    Protected = {node}
    Other = {doc}
    Version = {v1, v2}
    Absent = absent
    Branch = {b1, b2}
SPECIFICATION Spec
INVARIANT TypeOK
INVARIANT HookedHistoryAddOnly
INVARIANT NoFalseRefusal
PROPERTY MainAppendOnly
