CONSTANTS
    Proc = {p1, p2, p3}
    Artifact = {a1}
    Script = {t1}
    RefName = {main}
    RootTransform = root
    Absent = absent
    Torn = torn
    Commands = {"ingest"}
    ParentsFirst = TRUE
    EditedSource = FALSE
    MaxCrashes = 0
SPECIFICATION FairSpec
PROPERTY VerifiedStaysVerified
SYMMETRY Symmetry
