CONSTANTS
    r = r
    c = c
    d = d
    t = t
    quiet = quiet
    x = x
    y = y
    Proc = {p1, p2}
    Node = {r, c, d}
    Blob = {t, quiet}
    Junk = {junk, partial}
    Partial = partial
    Params = {x, y}
    ParentLists <- MCParentLists
    Ledgers <- MCLedgers
    Apply <- MCApply
    Shared = {w}
    Keep = {}
    Racing = {r}
    Absent = absent
    MaxKills = 1
SPECIFICATION Spec
CHECK_DEADLOCK FALSE
INVARIANT TypeOK
INVARIANT SuccessIsReproduction
INVARIANT MismatchIsReal
INVARIANT TempDirsRemoved
SYMMETRY Replays
