CONSTANTS
    Proc = {p1, p2}
    Artifact = {a1, a2}
    Script = {t1}
    RefName = {main}
    RootTransform = root
    Absent = absent
    Torn = torn
    Commands = {"ingest"}
    ParentsFirst = TRUE
    EditedSource = FALSE
    MaxCrashes = 0
    Root = a1
    Listing <- MCListing
    Flags <- MCFlags
    Reproduces <- MCReproduces
SPECIFICATION AuditedSpec
INVARIANT QuiescentClean
INVARIANT Acyclic
INVARIANT VerdictStands
INVARIANT AlarmHasCause
INVARIANT RunsOnVerifiedFiles
PROPERTY AuditRefines
SYMMETRY Symmetry
