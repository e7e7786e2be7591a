CONSTANTS
    Proc = {p1}
    Artifact = {a1, a2}
    Script = {t1}
    RefName = {main}
    RootTransform = root
    Absent = absent
    Torn = torn
    Commands = {"ingest"}
    ParentsFirst = FALSE
    EditedSource = TRUE
    MaxCrashes = 0
SPECIFICATION Spec
INVARIANT BlobsMatchNames
