CONSTANTS
    r = r
    n1 = n1
    n2 = n2
    t1 = t1
    Node = {r, n1, n2}
    Script = {t1}
    Root = r
    ParentLists <- Lists
    Retractable = {r, n1}
    Cases <- MCCases
    Reproduces <- MCReproduces
    Absent = absent
    Torn = torn
SPECIFICATION FairSpec
CHECK_DEADLOCK FALSE
INVARIANT TypeOK
INVARIANT VerdictSound
INVARIANT NoFalseAlarm
INVARIANT RetractionsReported
INVARIANT RunsOnlyVerified
PROPERTY Terminates
