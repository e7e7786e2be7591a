CONSTANTS
    Proc = {p1, p2}
    Artifact = {a1}
    Script = {t1}
    RefName = {main}
    RootTransform = root
    Absent = absent
    Torn = torn
    Commands = {"ingest", "retract", "set_ref"}
    ParentsFirst = FALSE
    EditedSource = FALSE
    MaxCrashes = 1
SPECIFICATION FairSpec
INVARIANT LinksResolve
INVARIANT TornHasWriter
PROPERTY ImplementsLedger
PROPERTY VerifiedStaysVerified
PROPERTY TornBlobHeals
