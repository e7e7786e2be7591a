CONSTANTS
    r = r
    c = c
    d = d
    t = t
    quiet = quiet
    x = x
    y = y
    Proc = {p1}
    Node = {r, c, d}
    Blob = {t, quiet}
    Junk = {junk, partial}
    Partial = partial
    Params = {x, y}
    ParentLists <- MCParentLists
    Ledgers <- MCLedgers
    Apply <- MCApply
    Shared = {w}
    Keep = {p1}
    Racing = {}
    Absent = absent
    MaxKills = 0
SPECIFICATION Spec
INVARIANT KeptDirsStay
