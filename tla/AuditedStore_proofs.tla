------------------------- MODULE AuditedStore_proofs -------------------------
(***************************************************************************)
(* Theorems about audits of a store that is being written: what            *)
(* VerifyReachable assumes of the other processes is what the commands of  *)
(* LedgerStore do, so its theorems hold of audits of that store.           *)
(***************************************************************************)
EXTENDS AuditedStore, StoreAudit_proofs

\* Auditor, with the theorems about it.
V == INSTANCE VerifyReachable_proofs WITH
    Node <- Artifact,
    Script <- Script \cup {RootTransform},
    ParentLists <- Lists,
    Retractable <- Artifact,
    Cases <- Calls,
    man <- Entries,
    intact <- IntactBlobs,
    corrupt <- OtherBlobs,
    retracted <- RetractedNodes,
    pc <- at

(***************************************************************************)
(* The constants                                                           *)
(***************************************************************************)

LEMMA AuditedConstants ==
    /\ Root \in Artifact
    /\ Listing \in [Manifest -> Seq(Artifact)]
    /\ \A m \in Manifest : V!Elems(Listing[m]) = m.parents
    /\ Absent \notin V!Record /\ Torn \notin V!Record
    /\ V!Record = [parents : Lists, transform : Script \cup {RootTransform}]
    /\ Flags \subseteq [deny : BOOLEAN, replay : BOOLEAN]
    /\ \A n \in Artifact, m \in V!Record : m.parents # <<>> => Reproduces(n, m) \in BOOLEAN
BY AuditedAssumption DEF AuditedAssumption, Auditor!Record, V!Record, Auditor!Elems, V!Elems

LEMMA CallType == Calls \subseteq V!Options
<1>1. Artifact \subseteq Artifact /\ V!Digest = Artifact \cup Script \cup {RootTransform}
  BY DEF V!Digest
<1>2. Races \in BOOLEAN
  BY DEF Races
<1>3. QED
  BY <1>1, <1>2 DEF Calls, V!Options, V!Digest, Digest

\* What VerifyReachable assumes of its constants.
LEMMA AuditorConstants == V!AuditAssumption
<1>1. Lists \subseteq Seq(Artifact)
  BY AuditedConstants DEF Lists
<1>2. Absent # Torn
  BY Constants
<1>3. QED
  BY <1>1, <1>2, AuditedConstants, CallType DEF V!AuditAssumption

LEMMA EntryType ==
    ASSUME NEW m \in Manifest
    PROVE  /\ Entry(m) \in V!Record
           /\ V!Elems(Entry(m).parents) = m.parents
           /\ Entry(m).transform = m.transform
BY AuditedConstants DEF Entry, Lists, Manifest

\* The two instances of VerifyReachable are the same.
LEMMA SameAuditor ==
    /\ Auditor!Audit <=> V!Audit
    /\ Auditor!Init <=> V!Init
    /\ Auditor!Next <=> V!Next
    /\ Auditor!vars = V!vars
    /\ Auditor!ReachOk = V!ReachOk
<1>1. Auditor!vars = V!vars
  BY
     DEF Auditor!vars, V!vars, Auditor!walk, V!walk, Auditor!store, V!store
<1>2. Auditor!ReachOk = V!ReachOk
  BY
     DEF Auditor!ReachOk, V!ReachOk, Auditor!Reach, V!Reach, Auditor!Closed,
         V!Closed, Auditor!NodeOk, V!NodeOk, Auditor!Parents, V!Parents,
         Auditor!Readable, V!Readable, Auditor!Record, V!Record, Auditor!Derives,
         V!Derives, Auditor!Elems, V!Elems
<1>3. Auditor!Audit <=> V!Audit
  <2>1. /\ Auditor!Pop <=> V!Pop
        /\ Auditor!Finish <=> V!Finish
        /\ Auditor!ReadManifest <=> V!ReadManifest
        /\ Auditor!PushParents <=> V!PushParents
    BY
       DEF Auditor!Pop, V!Pop, Auditor!Finish, V!Finish, Auditor!ReadManifest,
           V!ReadManifest, Auditor!PushParents, V!PushParents, Auditor!Readable,
           V!Readable, Auditor!Record, V!Record, Auditor!store, V!store,
           Auditor!Goto, V!Goto
  <2>2. /\ Auditor!CheckObject <=> V!CheckObject
        /\ Auditor!CheckParents <=> V!CheckParents
        /\ Auditor!CheckTransform <=> V!CheckTransform
        /\ Auditor!CheckRetraction <=> V!CheckRetraction
    BY
       DEF Auditor!CheckObject, V!CheckObject, Auditor!CheckParents, V!CheckParents,
           Auditor!CheckTransform, V!CheckTransform, Auditor!CheckRetraction,
           V!CheckRetraction, Auditor!Check, V!Check, Auditor!Elems, V!Elems,
           Auditor!store, V!store, Auditor!Goto, V!Goto
  <2>3. /\ Auditor!CopyParent <=> V!CopyParent
        /\ Auditor!EndReplay <=> V!EndReplay
    BY
       DEF Auditor!CopyParent, V!CopyParent, Auditor!EndReplay, V!EndReplay,
           Auditor!ReplayAnswers, V!ReplayAnswers, Auditor!Elems, V!Elems,
           Auditor!store, V!store, Auditor!Goto, V!Goto
  <2>4. QED
    BY <2>1, <2>2, <2>3 DEF Auditor!Audit, V!Audit
<1>4. Auditor!Write <=> V!Write
  BY
     DEF Auditor!Write, V!Write, Auditor!StoreBlob, V!StoreBlob,
         Auditor!StoreTornBlob, V!StoreTornBlob, Auditor!CreateManifest,
         V!CreateManifest, Auditor!FillManifest, V!FillManifest, Auditor!Retract,
         V!Retract, Auditor!Objects, V!Objects, Auditor!Records, V!Records,
         Auditor!walk, V!walk
<1>5. Auditor!Init <=> V!Init
  BY <1>2
     DEF Auditor!Init, V!Init, Auditor!Records, V!Records, Auditor!Objects,
         V!Objects
<1>6. QED
  BY <1>1, <1>2, <1>3, <1>4, <1>5 DEF Auditor!Next, V!Next

(***************************************************************************)
(* What the commands do, as the audit sees it                              *)
(***************************************************************************)

\* No more than two processes write, and no source file is edited meanwhile.
TwoWriters == ~EditedSource /\ \A p, q, r \in Proc : p = q \/ q = r \/ p = r

\* What is kept of the store, whatever the audit does.
WrittenInv ==
    /\ StoreInv
    /\ ContentInv
    /\ PairInv
    /\ ~Races => SerialInv
    /\ opt \in Calls

LEMMA CallFields ==
    ASSUME opt \in Calls
    PROVE  /\ opt.busy = TRUE /\ opt.race = Races /\ opt.ids = Artifact
           /\ opt.lists = Lists /\ opt.damaged = Digest
BY DEF Calls

LEMMA Bounds ==
    ASSUME opt \in Calls
    PROVE  /\ V!Objects = Artifact \cup (Script \cup {RootTransform})
           /\ V!Records = V!Record
BY CallFields, AuditedConstants DEF V!Objects, V!Records

\* A step that leaves objects, manifests and retractions alone.
LEMMA UnseenStep ==
    ASSUME UNCHANGED <<obj, man>>, RetractedNodes' = RetractedNodes, UNCHANGED audit
    PROVE  UNCHANGED V!vars
<1>1. UNCHANGED <<Entries, IntactBlobs, OtherBlobs>>
  BY DEF Entries, IntactBlobs, OtherBlobs, Written
<1>2. QED
  BY <1>1 DEF V!vars, V!store, V!walk, audit

\* An object is given its own bytes.
LEMMA CompleteStep ==
    ASSUME TypeOK, opt \in Calls, UNCHANGED <<man, retr, audit>>, NEW d \in Digest,
           obj' = [obj EXCEPT ![d] = d], Races \/ obj[d] \in {Absent, d}
    PROVE  V!Next
<1>1. UNCHANGED <<Entries, RetractedNodes>>
  BY DEF Entries, Written, RetractedNodes
<1>2. IntactBlobs' = IntactBlobs \cup {d} /\ OtherBlobs' = OtherBlobs \ {d}
  BY Constants DEF TypeOK, IntactBlobs, OtherBlobs
<1>3. d \in OtherBlobs => opt.race
  BY CallFields DEF OtherBlobs
<1>4. V!StoreBlob(d)
  BY <1>1, <1>2, <1>3, CallFields DEF V!StoreBlob, V!walk, audit
<1>5. QED
  BY <1>4, Bounds DEF V!Next, V!Write, Digest

\* An object that was not complete is replaced by one without its bytes.
LEMMA TornStep ==
    ASSUME TypeOK, opt \in Calls, UNCHANGED <<man, retr, audit>>, NEW d \in Digest,
           obj' = [obj EXCEPT ![d] = Torn], Races, obj[d] # d
    PROVE  V!Next
<1>1. UNCHANGED <<Entries, RetractedNodes>>
  BY DEF Entries, Written, RetractedNodes
<1>2. UNCHANGED IntactBlobs /\ OtherBlobs' = OtherBlobs \cup {d} /\ d \notin IntactBlobs
  BY Constants DEF TypeOK, IntactBlobs, OtherBlobs
<1>3. V!StoreTornBlob(d)
  BY <1>1, <1>2, CallFields DEF V!StoreTornBlob, V!walk, audit
<1>4. QED
  BY <1>3, Bounds DEF V!Next, V!Write, Digest

LEMMA ObjectStep ==
    ASSUME TwoWriters, WrittenInv, UNCHANGED audit, NEW p \in Proc,
           WriteTmp(p) \/ RenameTmp(p)
    PROVE  [V!Next]_(V!vars)
<1> PICK d \in Digest : d = Blob(p)
  BY BlobType DEF WrittenInv, StoreInv, WriteTmp, RenameTmp, StorePC
<1>t. TypeOK /\ opt \in Calls
  BY DEF WrittenInv, StoreInv
<1>1. UNCHANGED <<man, retr>> /\ UNCHANGED RetractedNodes
  BY DEF WriteTmp, RenameTmp, disk, RetractedNodes
<1>2. CASE UNCHANGED obj
  BY <1>1, <1>2, UnseenStep
<1>3. CASE WriteTmp(p) /\ obj' # obj
  <2>1. fd[p] = "obj" /\ obj' = [obj EXCEPT ![d] = d]
    BY <1>3 DEF WriteTmp, SourceBytes, TwoWriters
  <2>2. Races
    BY <2>1 DEF WrittenInv, SerialInv
  <2>3. QED
    BY <1>t, <1>1, <2>1, <2>2, CompleteStep
<1>4. CASE RenameTmp(p) /\ obj' # obj
  <2>1. pc[p] = "rename" /\ tmp[d] # Absent /\ obj' = [obj EXCEPT ![d] = tmp[d]]
    BY <1>4 DEF RenameTmp, disk
  <2>2. tmp[d] \in {Torn, d}
    BY <2>1 DEF WrittenInv, ContentInv
  <2>3. CASE tmp[d] = d
    <3>1. Races \/ obj[d] \in {Absent, d}
      BY DEF WrittenInv, SerialInv, BlobsMatchNames
    <3>2. QED
      BY <1>t, <1>1, <2>1, <2>3, <3>1, CompleteStep
  <2>4. CASE tmp[d] = Torn
    <3>1. Races
      BY <2>1, <2>4, Constants DEF WrittenInv, SerialInv
    <3>2. obj[d] = Absent
      BY <2>1, <2>4, Constants DEF WrittenInv, PairInv
    <3>3. QED
      BY <1>t, <1>1, <2>1, <2>4, <3>1, <3>2, Constants, TornStep
  <2>5. QED
    BY <2>2, <2>3, <2>4
<1>5. QED
  BY <1>2, <1>3, <1>4

LEMMA CreateStep ==
    ASSUME WrittenInv, UNCHANGED audit, NEW p \in Proc, CreateManifest(p)
    PROVE  [V!Next]_(V!vars)
<1>t. TypeOK /\ opt \in Calls
  BY DEF WrittenInv, StoreInv
<1>1. CASE man[job[p].id] # Absent
  BY <1>1, UnseenStep DEF CreateManifest, RetractedNodes
<1>2. CASE man[job[p].id] = Absent
  <2> PICK n \in Artifact : n = job[p].id
    BY <1>t DEF CreateManifest, TypeOK, IngestPC, Manifest
  <2>1. man[n] = Absent /\ man' = [man EXCEPT ![n] = Torn] /\ UNCHANGED <<obj, retr>>
    BY <1>2 DEF CreateManifest
  <2>2. Entries[n] = Absent /\ Entries' = [Entries EXCEPT ![n] = Torn]
    BY <1>t, <2>1, Constants DEF TypeOK, Entries, Written
  <2>3. UNCHANGED <<IntactBlobs, OtherBlobs, RetractedNodes>>
    BY <2>1 DEF IntactBlobs, OtherBlobs, RetractedNodes
  <2>4. V!CreateManifest(n)
    BY <1>t, <2>2, <2>3, CallFields DEF V!CreateManifest, V!walk, audit
  <2>5. QED
    BY <1>t, <2>4, CallFields DEF V!Next, V!Write
<1>3. QED
  BY <1>1, <1>2

LEMMA FillStep ==
    ASSUME WrittenInv, UNCHANGED audit, NEW p \in Proc, FillManifest(p)
    PROVE  V!Next
<1>t. TypeOK /\ opt \in Calls
  BY DEF WrittenInv, StoreInv
<1> PICK m \in Manifest : m = job[p]
  BY <1>t DEF FillManifest, TypeOK, IngestPC
<1> PICK n \in Artifact : n = m.id
  BY DEF Manifest
<1>1. man[n] = Torn /\ man' = [man EXCEPT ![n] = m] /\ UNCHANGED <<obj, retr>>
  BY DEF FillManifest, WrittenInv, StoreInv, ManifestInv
<1>2. Entries[n] = Torn /\ Entries' = [Entries EXCEPT ![n] = Entry(m)]
  BY <1>t, <1>1, Constants DEF TypeOK, Entries, Written
<1>3. UNCHANGED <<IntactBlobs, OtherBlobs, RetractedNodes>>
  BY <1>1 DEF IntactBlobs, OtherBlobs, RetractedNodes
<1>4. V!FillManifest(n, Entry(m))
  BY <1>t, <1>2, <1>3, CallFields DEF V!FillManifest, V!walk, audit
<1>5. Entry(m) \in V!Records
  BY <1>t, EntryType, Bounds
<1>6. QED
  BY <1>t, <1>4, <1>5, CallFields DEF V!Next, V!Write

LEMMA RetractStep ==
    ASSUME WrittenInv, UNCHANGED audit, NEW p \in Proc,
           CreateRetraction(p) \/ FillRetraction(p)
    PROVE  [V!Next]_(V!vars)
<1>t. TypeOK /\ opt \in Calls
  BY DEF WrittenInv, StoreInv
<1> PICK n \in Artifact : n = job[p].retracts
  BY <1>t DEF CreateRetraction, FillRetraction, TypeOK, Retraction
<1>1. UNCHANGED <<obj, man>>
  BY DEF CreateRetraction, FillRetraction
<1>2. CASE CreateRetraction(p) /\ retr[n] = Absent
  <2>1. man[n] # Absent /\ retr' = [retr EXCEPT ![n] = Torn]
    BY <1>2 DEF CreateRetraction, WrittenInv, StoreInv, LinkInv
  <2>2. Entries[n] # Absent
    <3>1. Written(n) => Entries[n] \in V!Record
      BY EntryType DEF Entries, Written
    <3>2. QED
      BY <2>1, <3>1, AuditedConstants DEF Entries
  <2>3. RetractedNodes' = RetractedNodes \cup {n}
    BY <1>t, <2>1, Constants DEF TypeOK, RetractedNodes
  <2>4. UNCHANGED <<Entries, IntactBlobs, OtherBlobs>>
    BY <1>1 DEF Entries, Written, IntactBlobs, OtherBlobs
  <2>5. V!Retract(n)
    BY <1>t, <2>2, <2>3, <2>4, CallFields DEF V!Retract, V!walk, audit
  <2>6. QED
    BY <1>t, <2>5, CallFields DEF V!Next, V!Write
<1>3. CASE CreateRetraction(p) /\ retr[n] # Absent
  BY <1>1, <1>3, UnseenStep DEF CreateRetraction, RetractedNodes
<1>4. CASE FillRetraction(p)
  <2>1. retr[n] = Torn /\ retr' = [retr EXCEPT ![n] = job[p]] /\ job[p] \in Retraction
    BY <1>t, <1>4 DEF FillRetraction, TypeOK, WrittenInv, StoreInv, LinkInv
  <2>2. RetractedNodes' = RetractedNodes
    BY <1>t, <2>1, Constants DEF TypeOK, RetractedNodes
  <2>3. QED
    BY <1>1, <2>2, UnseenStep
<1>5. QED
  BY <1>2, <1>3, <1>4

\* The commands are an environment that VerifyReachable allows for.
LEMMA WriterStep ==
    ASSUME TwoWriters, WrittenInv, [Next]_vars, UNCHANGED audit
    PROVE  [V!Next]_(V!vars)
<1>1. ASSUME UNCHANGED <<obj, man, retr>> PROVE UNCHANGED V!vars
  BY <1>1, UnseenStep DEF RetractedNodes
<1>2. ASSUME NEW p \in Proc, Start(p) \/ Crash(p) PROVE UNCHANGED <<obj, man, retr>>
  BY <1>2 DEF Start, StartIngest, StartRetract, StartSetRef, Crash, disk
<1>3. ASSUME NEW p \in Proc,
             \/ FindBlob(p) \/ MissBlob(p) \/ OpenTmp(p) \/ RefuseIngest(p)
             \/ TruncateRef(p) \/ WriteRef(p)
      PROVE  UNCHANGED <<obj, man, retr>>
  BY <1>3 DEF FindBlob, MissBlob, OpenTmp, RefuseIngest, TruncateRef, WriteRef, disk
<1>4. CASE UNCHANGED vars
  BY <1>1, <1>4 DEF vars, disk
<1>5. QED
  BY <1>1, <1>2, <1>3, <1>4, ObjectStep, CreateStep, FillStep, RetractStep DEF Next, Step

LEMMA WrittenStep ==
    ASSUME TwoWriters, WrittenInv, [Next]_vars, opt' = opt
    PROVE  WrittenInv'
<1>1. StoreInv'
  BY StoreInvStep DEF WrittenInv
<1>2. ContentInv' /\ PairInv'
  BY ContentStep, PairStep DEF WrittenInv, StoreInv, TwoWriters
<1>3. ~Races => SerialInv'
  BY SerialStep DEF WrittenInv, StoreInv, TwoWriters, Races
<1>4. QED
  BY <1>1, <1>2, <1>3 DEF WrittenInv

(***************************************************************************)
(* The system                                                              *)
(***************************************************************************)

\* What is kept of an audit once it has begun: the invariants by which
\* VerifyReachable's theorems are proved.
WalkingInv ==
    V!TypeOK /\ V!InputInv /\ V!WalkInv /\ V!AlarmInv /\ V!ReportInv

IdleInv ==
    /\ seen = {} /\ nid = Root /\ doc = Absent /\ input = <<>>
    /\ bad = FALSE /\ failed = FALSE /\ warned = {}

SystemInv ==
    /\ WrittenInv
    /\ at = "idle" => IdleInv
    /\ at # "idle" => WalkingInv

LEMMA WalkingInit == V!Init => WalkingInv
BY AuditorConstants, V!InitType, V!InputInit, V!WalkInit, V!AlarmInit, V!ReportInit
   DEF WalkingInv

\* The same of the step that begins an audit.
LEMMA WalkingInitLater == V!Init' => WalkingInv'
BY WalkingInit, PTL

LEMMA SameInitLater == Auditor!Init' <=> V!Init'
<1>1. Auditor!Init <=> V!Init
  BY SameAuditor
<1>2. QED
  BY <1>1, PTL

LEMMA WalkingStep ==
    ASSUME WalkingInv, [V!Next]_(V!vars)
    PROVE  WalkingInv'
<1>1. V!TypeOK' /\ V!InputInv'
  BY AuditorConstants, V!TypeStep, V!InputStep DEF WalkingInv
<1>2. V!WalkInv'
  BY AuditorConstants, V!WalkStep DEF WalkingInv
<1>3. V!AlarmInv' /\ V!ReportInv'
  BY AuditorConstants, V!AlarmStep, V!ReportStep DEF WalkingInv
<1>4. QED
  BY <1>1, <1>2, <1>3 DEF WalkingInv

LEMMA StartStep ==
    ASSUME WrittenInv, IdleInv, StartAudit
    PROVE  V!Init'
<1>1. UNCHANGED <<obj, man, retr, opt>>
  BY DEF StartAudit, vars, disk
<1>2. UNCHANGED <<Entries, IntactBlobs, OtherBlobs, RetractedNodes>>
  BY <1>1 DEF Entries, Written, IntactBlobs, OtherBlobs, RetractedNodes
<1>3. TypeOK /\ opt \in Calls
  BY DEF WrittenInv, StoreInv
<1>4. Entries \in [Artifact -> V!Records \cup {Absent, Torn}]
  <2>1. \A n \in Artifact : Entries[n] \in V!Record \cup {Absent, Torn}
    BY <1>3, EntryType DEF TypeOK, Entries, Written
  <2>2. QED
    BY <1>3, <2>1, Bounds DEF Entries
<1>5. \E f \in [opt.ids -> V!Records \cup {Absent, Torn}] :
         Entries = [n \in Artifact |-> IF n \in opt.ids THEN f[n] ELSE Absent]
  <2>1. Entries = [n \in Artifact |-> IF n \in opt.ids THEN Entries[n] ELSE Absent]
    BY <1>3, CallFields DEF Entries
  <2>2. QED
    BY <1>3, <1>4, <2>1, CallFields
<1>6. /\ IntactBlobs \in SUBSET V!Objects
      /\ OtherBlobs \in SUBSET (opt.damaged \ IntactBlobs)
      /\ RetractedNodes \in SUBSET Artifact
  BY <1>3, CallFields, Bounds DEF IntactBlobs, OtherBlobs, RetractedNodes, Digest
<1>7. V!ReachOk' = V!ReachOk
  BY <1>1, <1>2
  DEF V!ReachOk, V!Reach, V!Closed, V!NodeOk, V!Parents, V!Readable, V!Derives
<1>8. before' = [ok |-> V!ReachOk', retracted |-> RetractedNodes']
  BY <1>2, <1>7, SameAuditor DEF StartAudit
<1>9. /\ UNCHANGED <<V!Objects, V!Records>>
      /\ opt' \in Calls
  BY <1>1, <1>3 DEF V!Objects, V!Records
<1>10. QED
  BY <1>1, <1>2, <1>5, <1>6, <1>8, <1>9 DEF V!Init, StartAudit, IdleInv

LEMMA SystemInit == AuditedInit => SystemInv
<1> SUFFICES ASSUME AuditedInit PROVE SystemInv
  OBVIOUS
<1>1. StoreInv
  BY StoreInvInit DEF AuditedInit
<1>2. ContentInv /\ PairInv /\ SerialInv
  BY Constants DEF AuditedInit, Init, ContentInv, PairInv, SerialInv, BlobsMatchNames,
     StrayTmpIsReused, Making
<1>3. QED
  BY <1>1, <1>2 DEF AuditedInit, SystemInv, WrittenInv, IdleInv

\* The three kinds of steps of the system.
LEMMA SystemCases ==
    ASSUME SystemInv, [AuditedNext]_<<vars, audit>>
    PROVE  \/ [Next]_vars /\ UNCHANGED audit
           \/ StartAudit
           \/ /\ UNCHANGED <<vars, opt>> /\ at # "idle" /\ at' # "idle"
              /\ Auditor!Audit
<1>1. CASE UNCHANGED vars /\ Auditor!Audit
  <2>1. at # "idle" /\ at' # "idle"
    BY <1>1
    DEF Auditor!Audit, Auditor!Pop, Auditor!Finish, Auditor!ReadManifest,
        Auditor!CheckObject, Auditor!CheckParents, Auditor!CheckTransform, Auditor!Check,
        Auditor!CheckRetraction, Auditor!CopyParent, Auditor!EndReplay,
        Auditor!PushParents, Auditor!Goto
  <2>2. UNCHANGED opt
    BY <1>1
    DEF Auditor!Audit, Auditor!Pop, Auditor!Finish, Auditor!ReadManifest,
        Auditor!CheckObject, Auditor!CheckParents, Auditor!CheckTransform, Auditor!Check,
        Auditor!CheckRetraction, Auditor!CopyParent, Auditor!EndReplay,
        Auditor!PushParents
  <2>3. QED
    BY <1>1, <2>1, <2>2
<1>2. QED
  BY <1>1 DEF AuditedNext

LEMMA SystemStep ==
    ASSUME TwoWriters, SystemInv, [AuditedNext]_<<vars, audit>>
    PROVE  SystemInv'
<1>1. CASE [Next]_vars /\ UNCHANGED audit
  <2>1. UNCHANGED <<opt, at>> /\ (IdleInv => IdleInv')
    BY <1>1 DEF audit, IdleInv
  <2>2. WrittenInv'
    BY <1>1, <2>1, WrittenStep DEF SystemInv
  <2>3. WalkingInv => WalkingInv'
    BY <1>1, WriterStep, WalkingStep DEF SystemInv
  <2>4. QED
    BY <2>1, <2>2, <2>3 DEF SystemInv
<1>2. CASE StartAudit
  <2>1. UNCHANGED <<vars, opt>> /\ at = "idle" /\ at' = "pop"
    BY <1>2 DEF StartAudit
  <2>2. WrittenInv'
    BY <2>1, WrittenStep DEF SystemInv
  <2>3. WalkingInv'
    BY <1>2, <2>1, StartStep, WalkingInitLater DEF SystemInv
  <2>4. QED
    BY <2>1, <2>2, <2>3 DEF SystemInv
<1>3. CASE UNCHANGED <<vars, opt>> /\ at # "idle" /\ at' # "idle" /\ Auditor!Audit
  <2>1. WrittenInv'
    BY <1>3, WrittenStep DEF SystemInv
  <2>2. WalkingInv'
    BY <1>3, SameAuditor, WalkingStep DEF SystemInv, V!Next
  <2>3. QED
    BY <1>3, <2>1, <2>2 DEF SystemInv
<1>4. QED
  BY <1>1, <1>2, <1>3, SystemCases

LEMMA SystemInvariance == ASSUME TwoWriters PROVE AuditedSpec => []SystemInv
<1>1. SystemInv /\ [AuditedNext]_<<vars, audit>> => SystemInv'
  BY SystemStep
<1>2. QED
  BY <1>1, SystemInit, PTL DEF AuditedSpec

(***************************************************************************)
(* Theorems                                                                *)
(***************************************************************************)

\* Audits change nothing in the store: what is proved of the commands holds
\* also while an audit runs, for any number of processes.
THEOREM AuditsOnlyRead == AuditedSpec => Spec
<1>1. AuditedInit => Init
  BY DEF AuditedInit
<1>2. [AuditedNext]_<<vars, audit>> => [Next]_vars
  BY DEF AuditedNext, StartAudit
<1>3. QED
  BY <1>1, <1>2, PTL DEF AuditedSpec, Spec

\* AuditRefines: with at most two writers, however often they are killed,
\* every audit of the store is a behaviour of VerifyReachable, on a store
\* whose environment does what that module lets it do.
THEOREM AuditsRefineTheWalk == ASSUME TwoWriters PROVE AuditedSpec => AuditRefines
<1> DEFINE Behaves == IF at = "idle" THEN at' = "idle" \/ Auditor!Init'
                                     ELSE [Auditor!Next]_(Auditor!vars)
<1>1. ASSUME SystemInv, [AuditedNext]_<<vars, audit>> PROVE Behaves
  <2>1. CASE [Next]_vars /\ UNCHANGED audit
    <3>1. at' = at
      BY <2>1 DEF audit
    <3>2. [V!Next]_(V!vars)
      BY <1>1, <2>1, WriterStep DEF SystemInv
    <3>3. [Auditor!Next]_(Auditor!vars)
      BY <3>2, SameAuditor
         DEF Auditor!vars, V!vars, Auditor!walk, V!walk, Auditor!store, V!store
    <3>4. QED
      BY <3>1, <3>3
  <2>2. CASE StartAudit
    <3>1. at = "idle"
      BY <2>2 DEF StartAudit
    <3>2. V!Init'
      BY <1>1, <2>2, <3>1, StartStep DEF SystemInv
    <3>3. QED
      BY <3>1, <3>2, SameInitLater
  <2>3. CASE UNCHANGED <<vars, opt>> /\ at # "idle" /\ at' # "idle" /\ Auditor!Audit
    BY <2>3 DEF Auditor!Next
  <2>4. QED
    BY <1>1, <2>1, <2>2, <2>3, SystemCases
<1>2. SystemInv /\ [AuditedNext]_<<vars, audit>> => [Behaves]_<<vars, audit>>
  BY <1>1
<1>3. QED
  BY <1>2, SystemInvariance, PTL DEF AuditedSpec, AuditRefines

\* What the audit and `ledger verify` mean by a node that verifies is the same.
LEMMA SameVerdict ==
    ASSUME StoreInv
    PROVE  /\ \A n \in Artifact : V!Parents(n) = Parents(n)
           /\ \A n \in Artifact : V!NodeOk(n) => VerifyNodeOk(n)
           /\ V!Reach(Root) = Reach(Root)
<1>1. \A n \in Artifact : V!Readable(n) <=> Written(n)
  BY EntryType, AuditedConstants DEF StoreInv, TypeOK, V!Readable, Entries, Written
<1>2. \A n \in Artifact :
         Written(n) => V!Elems(Entries[n].parents) = man[n].parents
                       /\ Entries[n].transform = man[n].transform
  BY EntryType DEF Entries, Written
<1>3. \A n \in Artifact : V!Parents(n) = Parents(n)
  BY <1>1, <1>2 DEF V!Parents, Parents
<1>4. ASSUME NEW n \in Artifact, V!NodeOk(n) PROVE VerifyNodeOk(n)
  <2>1. Written(n) /\ man[n].id = n
    BY <1>1, <1>4 DEF V!NodeOk, StoreInv, ManifestInv
  <2>2. Intact(n)
    BY <1>4 DEF V!NodeOk, IntactBlobs, Intact, Digest
  <2>3. \A q \in man[n].parents : man[q] # Absent
    <3> SUFFICES ASSUME NEW q \in man[n].parents PROVE man[q] # Absent
      OBVIOUS
    <3>1. q \in V!Parents(n) /\ q \in Artifact
      BY <1>3, <2>1 DEF Parents, Written, Manifest
    <3>2. Entries[q] # Absent
      BY <1>4, <3>1 DEF V!NodeOk
    <3>3. QED
      BY <3>1, <3>2, Constants DEF Entries, Written
  <2>4. man[n].parents # {} => Intact(man[n].transform)
    <3> HAVE man[n].parents # {}
    <3>1. Entries[n].transform \in IntactBlobs
      BY <1>3, <1>4, <2>1 DEF V!NodeOk, Parents
    <3>2. QED
      BY <1>2, <2>1, <3>1 DEF IntactBlobs, Intact
  <2>5. QED
    BY <2>1, <2>2, <2>3, <2>4 DEF VerifyNodeOk
<1>5. V!Reach(Root) = Reach(Root)
  <2>1. \A S \in SUBSET Artifact : V!Closed(S) <=> ClosedUnderParents(S)
    BY <1>3 DEF V!Closed, ClosedUnderParents
  <2>2. QED
    BY <2>1 DEF V!Reach, Reach
<1>6. QED
  BY <1>3, <1>4, <1>5

\* VerdictStands: "OK" is right when it is reported, and stays right.
THEOREM VerdictsStand == ASSUME TwoWriters PROVE AuditedSpec => []VerdictStands
<1>1. SystemInv => VerdictStands
  <2> SUFFICES ASSUME SystemInv, at = "done", ~failed, NEW n \in Reach(Root)
               PROVE  VerifyNodeOk(n)
    BY DEF VerdictStands, VerifyReachableOk
  <2>1. \A m \in V!Reach(Root) : V!NodeOk(m)
    <3>1. V!TypeOK /\ V!WalkInv
      BY DEF SystemInv, WalkingInv
    <3>2. QED
      BY <3>1, AuditorConstants, V!WalkCovers
  <2>2. n \in Artifact /\ n \in V!Reach(Root)
    BY SameVerdict DEF SystemInv, WrittenInv, Reach
  <2>3. QED
    BY <2>1, <2>2, SameVerdict DEF SystemInv, WrittenInv
<1>2. QED
  BY <1>1, SystemInvariance, PTL

\* With one writer, --replay has reproduced every reachable derived node from
\* its parents when it reports "OK", and nothing that is written later can
\* change what the node and its parents are.
THEOREM ReplaysStand ==
    ASSUME ~EditedSource, \A p, q \in Proc : p = q
    PROVE  AuditedSpec =>
               [](at = "done" /\ ~failed /\ opt.replay =>
                     \A n \in Reach(Root) :
                        Parents(n) # {} => Reproduces(n, Entry(man[n])))
<1>1. TwoWriters /\ ~Races
  BY DEF TwoWriters, Races
<1>2. SystemInv =>
         (at = "done" /\ ~failed /\ opt.replay =>
             \A n \in Reach(Root) : Parents(n) # {} => Reproduces(n, Entry(man[n])))
  <2> SUFFICES ASSUME SystemInv, at = "done", ~failed, opt.replay,
                      NEW n \in Reach(Root), Parents(n) # {}
               PROVE  Reproduces(n, Entry(man[n]))
    OBVIOUS
  <2>1. V!TypeOK /\ V!WalkInv /\ StoreInv /\ opt.race = FALSE
    BY <1>1, CallFields DEF SystemInv, WrittenInv, WalkingInv
  <2>2. n \in Artifact /\ n \in V!Reach(Root) /\ V!Parents(n) # {}
    BY <2>1, SameVerdict DEF Reach
  <2>3. V!Derives(n)
    BY <2>1, <2>2, AuditorConstants, V!WalkCovers
  <2>4. Entries[n] = Entry(man[n])
    BY <2>2 DEF Entries, Parents
  <2>5. QED
    BY <2>2, <2>3, <2>4 DEF V!Derives
<1>3. QED
  BY <1>1, <1>2, SystemInvariance, PTL

\* AlarmHasCause: of a history that verified, an audit reports nothing but
\* retractions, whatever is half-written while it runs.
THEOREM AlarmsHaveCauses == ASSUME TwoWriters PROVE AuditedSpec => []AlarmHasCause
<1>1. SystemInv => AlarmHasCause
  <2> SUFFICES ASSUME SystemInv, at # "idle", before.ok, failed
               PROVE  opt.deny /\ Reach(Root) \cap RetractedNodes # {}
    BY DEF AlarmHasCause
  <2>1. V!Retracted
    BY DEF SystemInv, WalkingInv, V!AlarmInv
  <2>2. QED
    BY <2>1, SameVerdict DEF SystemInv, WrittenInv, V!Retracted
<1>2. QED
  BY <1>1, SystemInvariance, PTL

\* RunsOnVerifiedFiles: no transform is run for a node whose files do not
\* verify at that moment.
THEOREM RunsAreVerified == ASSUME TwoWriters PROVE AuditedSpec => []RunsOnVerifiedFiles
<1>1. SystemInv => RunsOnVerifiedFiles
  <2> SUFFICES ASSUME SystemInv, at = "replay" PROVE VerifyNodeOk(nid)
    BY DEF RunsOnVerifiedFiles
  <2>1. V!NodeOk(nid) /\ nid \in Artifact
    BY AuditorConstants, V!CheckedNode DEF SystemInv, WalkingInv, V!TypeOK, V!WalkInv, V!Late
  <2>2. QED
    BY <2>1, SameVerdict DEF SystemInv, WrittenInv
<1>2. QED
  BY <1>1, SystemInvariance, PTL

\* A retraction that was on disk when the audit began is in its report,
\* although retractions and nodes were being written.
THEOREM RetractionsAreSeen ==
    ASSUME TwoWriters
    PROVE  AuditedSpec =>
               [](at = "done" /\ ~failed =>
                     Reach(Root) \cap before.retracted
                         \subseteq (IF opt.deny THEN {} ELSE warned))
<1>1. SystemInv =>
         (at = "done" /\ ~failed =>
             Reach(Root) \cap before.retracted \subseteq (IF opt.deny THEN {} ELSE warned))
  <2> SUFFICES ASSUME SystemInv, at = "done", ~failed,
                      NEW n \in Reach(Root), n \in before.retracted
               PROVE  ~opt.deny /\ n \in warned
    OBVIOUS
  <2>1. V!Reach(Root) \subseteq seen /\ n \in V!Reach(Root)
    BY AuditorConstants, V!WalkCovers, SameVerdict DEF SystemInv, WrittenInv, WalkingInv
  <2>2. V!Reported(n)
    BY <2>1 DEF SystemInv, WalkingInv, V!ReportInv, V!Idle
  <2>3. QED
    BY <2>2 DEF V!Reported
<1>2. QED
  BY <1>1, SystemInvariance, PTL
=============================================================================
