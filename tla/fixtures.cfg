CONSTANTS
    Case = {1, 2, 3, 4, 5}
    CaseLists = {{}, {1, 3}, {5}}
    Dirs <- MCDirs
    VectorStates <- MCVectors
    Engines = {"shipped", "dss first", "hash too"}
    Edited <- MCEdited
    Pinned <- MCPinned
    Absent = absent
    KeyError = KeyError
    Broken = Broken
    MaxEdits = 2
SPECIFICATION Spec
INVARIANT TypeOK
INVARIANT GreenIsComplete
INVARIANT MismatchIsShown
INVARIANT ShippedIsGreen
INVARIANT GatesFreezeEngine
