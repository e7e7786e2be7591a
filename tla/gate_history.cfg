CONSTANTS
    Protected = {node}
    Other = {doc}
    Version = {v1, v2}
    Absent = absent
    Branch = {b1}
SPECIFICATION Spec
INVARIANT HistoryAddOnly
