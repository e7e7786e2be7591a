CONSTANTS
    Proc = {p1}
    Artifact = {a1, a2}
    Script = {t1}
    RefName = {main}
    RootTransform = root
    Absent = absent
    Torn = torn
    Commands = {"ingest", "retract", "set_ref"}
    ParentsFirst = FALSE
    EditedSource = FALSE
    MaxCrashes = 2
SPECIFICATION Spec
INVARIANT TypeOK
INVARIANT BlobsMatchNames
INVARIANT StrayTmpIsReused
INVARIANT FsckCoversReach
PROPERTY ImplementsLedger
SYMMETRY Symmetry
