-------------------------- MODULE StoreAudit_proofs --------------------------
(***************************************************************************)
(* Theorems about what the commands leave behind: complete files, a store  *)
(* that fsck accepts, a DAG, objects that keep their bytes.                *)
(***************************************************************************)
EXTENDS LedgerStore_proofs

(***************************************************************************)
(* Incomplete files have writers                                           *)
(***************************************************************************)

\* A step that does nothing to objects, temporary files and the processes
\* that are making one, except that another one may begin to.
Making == {"open", "write", "rename"}

Quiet ==
    /\ UNCHANGED <<obj, tmp>>
    /\ \A q \in Proc : pc[q] \in Making =>
          pc'[q] = pc[q] /\ fd'[q] = fd[q] /\ Blob(q)' = Blob(q)
    /\ \A q \in Proc : pc[q] \notin Making /\ pc'[q] \in Making =>
          pc'[q] = "open" /\ fd'[q] = "none" /\ obj[Blob(q)'] = Absent

LEMMA QuietOrNot ==
    ASSUME TypeOK, [Next]_vars
    PROVE  \/ Quiet
           \/ \E p \in Proc : OpenTmp(p) \/ WriteTmp(p) \/ RenameTmp(p) \/ Crash(p)
<1> USE DEF TypeOK, PC, IngestPC, StorePC, Making, Quiet, Blob
<1>1. ASSUME NEW p \in Proc, StartIngest(p) PROVE Quiet
  BY <1>1 DEF StartIngest, disk
<1>2. ASSUME NEW p \in Proc, StartRetract(p) PROVE Quiet
  BY <1>2 DEF StartRetract, disk
<1>3. ASSUME NEW p \in Proc, StartSetRef(p) PROVE Quiet
  BY <1>3 DEF StartSetRef, disk
<1>4. ASSUME NEW p \in Proc, FindBlob(p) PROVE Quiet
  BY <1>4 DEF FindBlob, Stored, Exit, Blob, disk
<1>5. ASSUME NEW p \in Proc, MissBlob(p) PROVE Quiet
  BY <1>5 DEF MissBlob, Goto, Blob, disk
<1>6. ASSUME NEW p \in Proc, RefuseIngest(p) PROVE Quiet
  BY <1>6 DEF RefuseIngest, Exit, disk
<1>7. ASSUME NEW p \in Proc, CreateManifest(p) PROVE Quiet
  BY <1>7 DEF CreateManifest, Goto, Exit, disk
<1>8. ASSUME NEW p \in Proc, FillManifest(p) PROVE Quiet
  BY <1>8 DEF FillManifest, Exit, disk
<1>9. ASSUME NEW p \in Proc, CreateRetraction(p) PROVE Quiet
  BY <1>9 DEF CreateRetraction, Goto, Exit, disk
<1>10. ASSUME NEW p \in Proc, FillRetraction(p) PROVE Quiet
  BY <1>10 DEF FillRetraction, Exit, disk
<1>11. ASSUME NEW p \in Proc, TruncateRef(p) PROVE Quiet
  BY <1>11 DEF TruncateRef, Goto, disk
<1>12. ASSUME NEW p \in Proc, WriteRef(p) PROVE Quiet
  BY <1>12 DEF WriteRef, Exit, disk
<1>13. CASE UNCHANGED vars
  BY <1>13 DEF vars, disk, control
<1>14. QED
  BY <1>1, <1>2, <1>3, <1>4, <1>5, <1>6, <1>7, <1>8, <1>9, <1>10, <1>11, <1>12, <1>13 DEF Next, Start, Step

LEMMA BlobType == ASSUME TypeOK, NEW p \in Proc, pc[p] \in StorePC PROVE Blob(p) \in Digest
BY DEF TypeOK, Blob, Digest, Manifest, IngestPC

LEMMA TornBlobs ==
    ASSUME TypeOK, [Next]_vars, crashes = 0, crashes' = 0, \A d \in Digest : BlobHasWriter(d)
    PROVE  \A d \in Digest : BlobHasWriter(d)'
<1> DEFINE G == \A d \in Digest : BlobHasWriter(d)
<1>1. CASE Quiet
  BY <1>1 DEF Quiet, Making, TypeOK, BlobHasWriter
<1>2. ASSUME NEW p \in Proc, OpenTmp(p) PROVE G'
  BY <1>2, Constants DEF OpenTmp, Blob, TypeOK, BlobHasWriter
<1>3. ASSUME NEW p \in Proc, WriteTmp(p) PROVE G'
  BY <1>3, BlobType, Constants DEF WriteTmp, SourceBytes, StorePC, Blob, TypeOK, BlobHasWriter
<1>4. ASSUME NEW p \in Proc, RenameTmp(p) PROVE G'
  BY <1>4, BlobType, Constants
     DEF RenameTmp, Renamed, Stored, Exit, disk, StorePC, Blob, TypeOK, BlobHasWriter
<1>5. ASSUME NEW p \in Proc, Crash(p) PROVE FALSE
  BY <1>5 DEF Crash, TypeOK
<1>6. QED
  BY <1>1, <1>2, <1>3, <1>4, <1>5, QuietOrNot

LEMMA CrashesGrow == ASSUME TypeOK, [Next]_vars, crashes' = 0 PROVE crashes = 0
<1>1. ASSUME NEW p \in Proc, Start(p) PROVE crashes' = crashes
  BY <1>1 DEF Start, StartIngest, StartRetract, StartSetRef
<1>2. ASSUME NEW p \in Proc, Step(p) PROVE crashes' = crashes
  BY <1>2 DEF Step, FindBlob, MissBlob, OpenTmp, WriteTmp, RenameTmp, RefuseIngest,
     CreateManifest, FillManifest, CreateRetraction, FillRetraction, TruncateRef, WriteRef
<1>3. ASSUME NEW p \in Proc, Crash(p) PROVE crashes' = crashes + 1
  BY <1>3 DEF Crash
<1>4. CASE UNCHANGED vars
  BY <1>4 DEF vars
<1>5. QED
  BY <1>1, <1>2, <1>3, <1>4 DEF Next, TypeOK

LEMMA TornRecords ==
    ASSUME TypeOK, [Next]_vars, crashes = 0, crashes' = 0,
           \A n \in Artifact : ManifestHasWriter(n) /\ RetractionHasWriter(n),
           \A r \in RefName : RefHasWriter(r)
    PROVE  /\ \A n \in Artifact : ManifestHasWriter(n)' /\ RetractionHasWriter(n)'
           /\ \A r \in RefName : RefHasWriter(r)'
<1> DEFINE G == /\ \A n \in Artifact : ManifestHasWriter(n) /\ RetractionHasWriter(n)
                /\ \A r \in RefName : RefHasWriter(r)
<1> USE Constants DEF TypeOK, PC, IngestPC, StorePC, ManifestHasWriter, RetractionHasWriter,
        RefHasWriter
<1>1. ASSUME NEW p \in Proc, StartIngest(p) PROVE G'
  BY <1>1 DEF StartIngest, disk
<1>2. ASSUME NEW p \in Proc, StartRetract(p) PROVE G'
  BY <1>2 DEF StartRetract, disk
<1>3. ASSUME NEW p \in Proc, StartSetRef(p) PROVE G'
  BY <1>3 DEF StartSetRef, disk
<1>4. ASSUME NEW p \in Proc, FindBlob(p) PROVE G'
  BY <1>4 DEF FindBlob, Stored, Exit, Blob, disk
<1>5. ASSUME NEW p \in Proc, MissBlob(p) PROVE G'
  BY <1>5 DEF MissBlob, Goto, Blob, disk
<1>6. ASSUME NEW p \in Proc, OpenTmp(p) PROVE G'
  BY <1>6 DEF OpenTmp, Blob, disk
<1>7. ASSUME NEW p \in Proc, WriteTmp(p) PROVE G'
  BY <1>7 DEF WriteTmp, SourceBytes, Blob, disk
<1>8. ASSUME NEW p \in Proc, RenameTmp(p) PROVE G'
  BY <1>8 DEF RenameTmp, Renamed, Stored, Exit, Blob, disk
<1>9. ASSUME NEW p \in Proc, RefuseIngest(p) PROVE G'
  BY <1>9 DEF RefuseIngest, Exit, disk
<1>10. ASSUME NEW p \in Proc, CreateManifest(p) PROVE G'
  BY <1>10 DEF CreateManifest, Goto, Exit, disk
<1>11. ASSUME NEW p \in Proc, FillManifest(p) PROVE G'
  BY <1>11 DEF FillManifest, Exit, disk
<1>12. ASSUME NEW p \in Proc, CreateRetraction(p) PROVE G'
  BY <1>12 DEF CreateRetraction, Goto, Exit, disk
<1>13. ASSUME NEW p \in Proc, FillRetraction(p) PROVE G'
  BY <1>13 DEF FillRetraction, Exit, disk
<1>14. ASSUME NEW p \in Proc, TruncateRef(p) PROVE G'
  BY <1>14 DEF TruncateRef, Goto, disk
<1>15. ASSUME NEW p \in Proc, WriteRef(p) PROVE G'
  BY <1>15 DEF WriteRef, Exit, RefJob, Digest, disk
<1>16. ASSUME NEW p \in Proc, Crash(p) PROVE G'
  BY <1>16 DEF Crash, Exit, disk
<1>17. CASE UNCHANGED vars
  BY <1>17 DEF vars, disk, control, Blob
<1>18. QED
  BY <1>1, <1>2, <1>3, <1>4, <1>5, <1>6, <1>7, <1>8, <1>9, <1>10, <1>11, <1>12,
     <1>13, <1>14, <1>15, <1>16, <1>17 DEF Next, Start, Step

\* TornHasWriter, for any number of processes.
THEOREM TornFilesHaveWriters == Spec => []TornHasWriter
<1>1. Init => TornHasWriter
  BY Constants DEF Init, TornHasWriter, BlobHasWriter, ManifestHasWriter,
     RetractionHasWriter, RefHasWriter
<1>2. ASSUME TypeOK, TypeOK', TornHasWriter, [Next]_vars PROVE TornHasWriter'
  <2> SUFFICES ASSUME crashes' = 0
               PROVE  /\ \A d \in Digest : BlobHasWriter(d)'
                      /\ \A n \in Artifact : ManifestHasWriter(n)' /\ RetractionHasWriter(n)'
                      /\ \A r \in RefName : RefHasWriter(r)'
    BY DEF TornHasWriter
  <2>1. crashes = 0
    BY <1>2, CrashesGrow DEF TypeOK
  <2>2. QED
    BY <1>2, <2>1, TornBlobs, TornRecords DEF TornHasWriter
<1>3. QED
  BY <1>1, <1>2, TypeCorrect, PTL DEF Spec

(***************************************************************************)
(* A quiet store is a clean store                                          *)
(***************************************************************************)

\* Without edits of source files a file named after a digest has the bytes
\* with that digest, or none yet.
ContentInv == \A d \in Digest : obj[d] \in {Absent, Torn, d} /\ tmp[d] \in {Absent, Torn, d}

LEMMA ContentStep ==
    ASSUME ~EditedSource, TypeOK, ContentInv, [Next]_vars PROVE ContentInv'
<1> USE DEF ContentInv
<1>1. CASE Quiet
  BY <1>1 DEF Quiet
<1>2. ASSUME NEW p \in Proc, OpenTmp(p) PROVE ContentInv'
  BY <1>2 DEF OpenTmp, TypeOK
<1>3. ASSUME NEW p \in Proc, WriteTmp(p) PROVE ContentInv'
  BY <1>3 DEF WriteTmp, SourceBytes, TypeOK
<1>4. ASSUME NEW p \in Proc, RenameTmp(p) PROVE ContentInv'
  BY <1>4 DEF RenameTmp, disk, TypeOK
<1>5. ASSUME NEW p \in Proc, Crash(p) PROVE ContentInv'
  BY <1>5 DEF Crash, disk
<1>6. QED
  BY <1>1, <1>2, <1>3, <1>4, <1>5, QuietOrNot

\* A temporary file has a process that is going to rename it.
TmpHasOwner ==
    \A d \in Digest : tmp[d] # Absent =>
        \E p \in Proc : Blob(p) = d /\ (pc[p] = "rename" \/ fd[p] = "tmp")

LEMMA OwnerStep ==
    ASSUME TypeOK, crashes = 0, crashes' = 0, TmpHasOwner, [Next]_vars PROVE TmpHasOwner'
<1> USE DEF TmpHasOwner
<1>1. CASE Quiet
  BY <1>1 DEF Quiet, Making, TypeOK
<1>2. ASSUME NEW p \in Proc, OpenTmp(p) PROVE TmpHasOwner'
  BY <1>2 DEF OpenTmp, Blob, TypeOK
<1>3. ASSUME NEW p \in Proc, WriteTmp(p) PROVE TmpHasOwner'
  BY <1>3, BlobType DEF WriteTmp, StorePC, Blob, TypeOK
<1>4. ASSUME NEW p \in Proc, RenameTmp(p) PROVE TmpHasOwner'
  BY <1>4, BlobType DEF RenameTmp, Renamed, Stored, Exit, disk, StorePC, Blob, TypeOK
<1>5. ASSUME NEW p \in Proc, Crash(p) PROVE FALSE
  BY <1>5 DEF Crash, TypeOK
<1>6. QED
  BY <1>1, <1>2, <1>3, <1>4, <1>5, QuietOrNot

\* What a step does to the node records: nothing, take a free id, or fill in
\* the manifest of a running ingest.
LEMMA ManifestChange ==
    ASSUME StoreInv, [Next]_vars
    PROVE  \/ man' = man
           \/ \E n \in Artifact : man[n] = Absent /\ man' = [man EXCEPT ![n] = Torn]
           \/ \E p \in Proc :
                 /\ pc[p] = "fill" /\ job[p] \in Manifest
                 /\ man[job[p].id] = Torn
                 /\ man' = [man EXCEPT ![job[p].id] = job[p]]
<1>1. ASSUME NEW p \in Proc, CreateManifest(p), man' # man
      PROVE  \E n \in Artifact : man[n] = Absent /\ man' = [man EXCEPT ![n] = Torn]
  BY <1>1 DEF CreateManifest, StoreInv, TypeOK, IngestPC, Manifest
<1>2. ASSUME NEW p \in Proc, FillManifest(p)
      PROVE  /\ pc[p] = "fill" /\ job[p] \in Manifest
             /\ man[job[p].id] = Torn
             /\ man' = [man EXCEPT ![job[p].id] = job[p]]
  BY <1>2 DEF FillManifest, StoreInv, ManifestInv, TypeOK, IngestPC
<1>3. ASSUME NEW p \in Proc, Start(p) \/ Crash(p) PROVE man' = man
  BY <1>3 DEF Start, StartIngest, StartRetract, StartSetRef, Crash, disk
<1>4. ASSUME NEW p \in Proc,
             \/ FindBlob(p) \/ MissBlob(p) \/ OpenTmp(p) \/ WriteTmp(p) \/ RenameTmp(p)
             \/ RefuseIngest(p) \/ CreateRetraction(p) \/ FillRetraction(p)
             \/ TruncateRef(p) \/ WriteRef(p)
      PROVE  man' = man
  BY <1>4 DEF FindBlob, MissBlob, OpenTmp, WriteTmp, RenameTmp, RefuseIngest,
     CreateRetraction, FillRetraction, TruncateRef, WriteRef, disk
<1>5. CASE UNCHANGED vars
  BY <1>5 DEF vars, disk
<1>6. QED
  BY <1>1, <1>2, <1>3, <1>4, <1>5 DEF Next, Step

\* A node record is final.
LEMMA RecordsFinal ==
    ASSUME StoreInv, [Next]_vars, NEW n \in Artifact
    PROVE  /\ Written(n) => Written(n)' /\ man'[n] = man[n]
           /\ man[n] # Absent => man'[n] # Absent
BY ManifestChange, Constants DEF StoreInv, TypeOK, Written

\* With ParentsFirst the parents of what is being ingested, and of what has
\* been, are ingested nodes.
ParentsInv ==
    /\ \A p \in Proc : pc[p] \in IngestPC => \A q \in job[p].parents : Written(q)
    /\ \A n \in Artifact : Written(n) => \A q \in man[n].parents : Written(q)

LEMMA JobsKept ==
    ASSUME TypeOK, [Next]_vars, NEW p \in Proc, pc'[p] \in IngestPC
    PROVE  \/ pc[p] \in IngestPC /\ job'[p] = job[p]
           \/ /\ job'[p] \in Manifest
              /\ ParentsFirst => \A q \in job'[p].parents : Written(q)
<1> DEFINE G == \/ pc[p] \in IngestPC /\ job'[p] = job[p]
                \/ /\ job'[p] \in Manifest
                   /\ ParentsFirst => \A q \in job'[p].parents : Written(q)
<1> USE DEF TypeOK, PC, IngestPC, StorePC
<1>1. ASSUME NEW r \in Proc, StartIngest(r) PROVE G
  BY <1>1 DEF StartIngest, Written, disk
<1>2. ASSUME NEW r \in Proc, StartRetract(r) PROVE G
  BY <1>2 DEF StartRetract, disk
<1>3. ASSUME NEW r \in Proc, StartSetRef(r) PROVE G
  BY <1>3 DEF StartSetRef, disk
<1>4. ASSUME NEW r \in Proc, FindBlob(r) PROVE G
  BY <1>4 DEF FindBlob, Stored, Exit, Blob, disk
<1>5. ASSUME NEW r \in Proc, MissBlob(r) PROVE G
  BY <1>5 DEF MissBlob, Goto, Blob, disk
<1>6. ASSUME NEW r \in Proc, OpenTmp(r) PROVE G
  BY <1>6 DEF OpenTmp, Blob, disk
<1>7. ASSUME NEW r \in Proc, WriteTmp(r) PROVE G
  BY <1>7 DEF WriteTmp, SourceBytes, Blob, disk
<1>8. ASSUME NEW r \in Proc, RenameTmp(r) PROVE G
  BY <1>8 DEF RenameTmp, Renamed, Stored, Exit, Blob, disk
<1>9. ASSUME NEW r \in Proc, RefuseIngest(r) PROVE G
  BY <1>9 DEF RefuseIngest, Exit, disk
<1>10. ASSUME NEW r \in Proc, CreateManifest(r) PROVE G
  BY <1>10 DEF CreateManifest, Goto, Exit, disk
<1>11. ASSUME NEW r \in Proc, FillManifest(r) PROVE G
  BY <1>11 DEF FillManifest, Exit, disk
<1>12. ASSUME NEW r \in Proc, CreateRetraction(r) PROVE G
  BY <1>12 DEF CreateRetraction, Goto, Exit, disk
<1>13. ASSUME NEW r \in Proc, FillRetraction(r) PROVE G
  BY <1>13 DEF FillRetraction, Exit, disk
<1>14. ASSUME NEW r \in Proc, TruncateRef(r) PROVE G
  BY <1>14 DEF TruncateRef, Goto, disk
<1>15. ASSUME NEW r \in Proc, WriteRef(r) PROVE G
  BY <1>15 DEF WriteRef, Exit, disk
<1>16. ASSUME NEW r \in Proc, Crash(r) PROVE G
  BY <1>16 DEF Crash, Exit, disk
<1>17. CASE UNCHANGED vars
  BY <1>17 DEF vars, disk, control
<1>18. QED
  BY <1>1, <1>2, <1>3, <1>4, <1>5, <1>6, <1>7, <1>8, <1>9, <1>10, <1>11, <1>12,
     <1>13, <1>14, <1>15, <1>16, <1>17 DEF Next, Start, Step

LEMMA ParentsStep ==
    ASSUME ParentsFirst, StoreInv, ParentsInv, [Next]_vars PROVE ParentsInv'
<1>1. ASSUME NEW p \in Proc, pc'[p] \in IngestPC, NEW q \in job'[p].parents
      PROVE  Written(q)'
  <2>1. job'[p] \in Manifest
    BY <1>1, StoreInvStep DEF StoreInv, TypeOK
  <2>2. q \in Artifact
    BY <1>1, <2>1 DEF Manifest
  <2>3. Written(q)
    BY <1>1, JobsKept DEF ParentsInv, StoreInv
  <2>4. QED
    BY <2>2, <2>3, RecordsFinal
<1>2. ASSUME NEW n \in Artifact, Written(n)', NEW q \in man'[n].parents
      PROVE  Written(q)'
  <2>1. q \in Artifact
    BY <1>2 DEF Written, Manifest
  <2>2. Written(q)
    BY <1>2, ManifestChange, Constants DEF ParentsInv, Written, StoreInv, TypeOK, IngestPC
  <2>3. QED
    BY <2>1, <2>2, RecordsFinal
<1>3. QED
  BY <1>1, <1>2 DEF ParentsInv

CleanInv ==
    /\ StoreInv
    /\ ContentInv
    /\ crashes = 0 => TmpHasOwner
    /\ TornHasWriter
    /\ ParentsFirst => ParentsInv

\* What fsck can complain about: a file without its bytes, a stray temporary
\* file, a parent that was never ingested.
Untorn ==
    /\ \A d \in Digest : obj[d] # Torn /\ tmp[d] = Absent
    /\ \A n \in Artifact : man[n] # Torn /\ retr[n] # Torn
    /\ \A r \in RefName : refs[r] # Torn

ParentsPresent == \A n \in Artifact : Written(n) => \A q \in man[n].parents : man[q] # Absent

LEMMA UntornIsClean ==
    ASSUME StoreInv, ContentInv, Untorn, ParentsPresent
    PROVE  FsckOk
<1>1. \A d \in Digest : tmp[d] = Absent /\ obj[d] \in {Absent, d}
  BY DEF Untorn, ContentInv
<1>2. ASSUME NEW n \in Artifact, man[n] # Absent PROVE VerifyNodeOk(n)
  <2>1. Written(n)
    BY <1>2 DEF Untorn, Written, StoreInv, TypeOK
  <2>2. man[n].id = n /\ n \in Digest /\ obj[n] = n
    BY <1>1, <1>2, <2>1 DEF StoreInv, ManifestInv, Digest
  <2>3. \A q \in man[n].parents : man[q] # Absent
    BY <2>1 DEF ParentsPresent
  <2>4. man[n].parents # {} => Intact(man[n].transform)
    BY <2>1, <1>1 DEF StoreInv, ManifestInv, Written, Manifest, Intact, Digest
  <2>5. QED
    BY <2>1, <2>2, <2>3, <2>4 DEF VerifyNodeOk, Intact
<1>3. FsckRefs
  BY DEF Untorn, StoreInv, LinkInv, LinksResolve, TypeOK, FsckRefs
<1>4. FsckRetractions
  BY DEF Untorn, StoreInv, LinkInv, LinksResolve, TypeOK, FsckRetractions
<1>5. QED
  BY <1>1, <1>2, <1>3, <1>4 DEF FsckOk, FsckManifests, FsckObjects

LEMMA CleanInvImplies == CleanInv => QuiescentClean
<1> SUFFICES ASSUME CleanInv, crashes = 0, ParentsFirst, Quiescent PROVE FsckOk
  BY DEF QuiescentClean
<1> USE DEF CleanInv
<1>1. \A p \in Proc : pc[p] = "idle" /\ fd[p] = "none"
  BY DEF Quiescent, StoreInv, TypeOK
<1>2. /\ \A d \in Digest : BlobHasWriter(d)
      /\ \A n \in Artifact : ManifestHasWriter(n) /\ RetractionHasWriter(n)
      /\ \A r \in RefName : RefHasWriter(r)
  BY DEF TornHasWriter
<1>3. Untorn
  BY <1>1, <1>2 DEF Untorn, BlobHasWriter, TmpHasOwner, ManifestHasWriter,
     RetractionHasWriter, RefHasWriter
<1>4. ParentsPresent
  BY Constants DEF ParentsPresent, ParentsInv, Written
<1>5. QED
  BY <1>3, <1>4, UntornIsClean

LEMMA ContentInvariance == ASSUME ~EditedSource PROVE Spec => []ContentInv
<1>1. Init => ContentInv
  BY Constants DEF Init, ContentInv
<1>2. StoreInv /\ ContentInv /\ [Next]_vars => ContentInv'
  BY ContentStep DEF StoreInv
<1>3. QED
  BY <1>1, <1>2, StoreInvariant, PTL DEF Spec

\* Any number of processes and of kills leave no object with the bytes of
\* another one: an object is complete, or torn and found to be so by the next
\* ingest of its bytes and by every audit.
THEOREM ObjectsAreOwnOrTorn ==
    ASSUME ~EditedSource
    PROVE  Spec => [](\A d \in Digest : obj[d] \in {Absent, Torn, d})
<1>1. ContentInv => \A d \in Digest : obj[d] \in {Absent, Torn, d}
  BY DEF ContentInv
<1>2. QED
  BY <1>1, ContentInvariance, PTL

\* Kills and races do damage of these kinds only: at every moment, with any
\* number of processes and of kills, fsck passes if nothing is torn or stray
\* and the parents are there.
THEOREM DamageIsTears ==
    ASSUME ~EditedSource
    PROVE  Spec => [](Untorn /\ ParentsPresent => FsckOk)
<1>1. StoreInv /\ ContentInv => (Untorn /\ ParentsPresent => FsckOk)
  BY UntornIsClean
<1>2. QED
  BY <1>1, StoreInvariant, ContentInvariance, PTL

\* QuiescentClean: when every command has ended, however they interleaved
\* and however many failed, fsck passes, if none was killed, source files
\* were not edited and --parent named ingested nodes only.
THEOREM QuietStoreIsClean == ASSUME ~EditedSource PROVE Spec => []QuiescentClean
<1>1. Init => TmpHasOwner /\ ParentsInv
  BY Constants DEF Init, TmpHasOwner, ParentsInv, Written, IngestPC, StorePC
<1>2. Spec => []ContentInv
  BY ContentInvariance
<1>3. StoreInv /\ StoreInv' /\ (crashes = 0 => TmpHasOwner) /\ [Next]_vars
          => (crashes = 0 => TmpHasOwner)'
  BY OwnerStep, CrashesGrow DEF StoreInv
<1>4. StoreInv /\ (ParentsFirst => ParentsInv) /\ [Next]_vars => (ParentsFirst => ParentsInv)'
  BY ParentsStep
<1>5. Spec => []CleanInv
  BY <1>1, <1>2, <1>3, <1>4, StoreInvariant, TornFilesHaveWriters, PTL DEF Spec, CleanInv
<1>6. QED
  BY <1>5, CleanInvImplies, PTL

(***************************************************************************)
(* The node records form a DAG                                             *)
(***************************************************************************)

\* A node all of whose parents are there closes no cycle when it is added.
LEMMA AcyclicStep ==
    ASSUME ParentsFirst, StoreInv, ParentsInv, Acyclic, [Next]_vars PROVE Acyclic'
<1>1. CASE man' = man
  BY <1>1 DEF Acyclic, Parents, Written
<1>2. ASSUME NEW n \in Artifact, man[n] = Absent, man' = [man EXCEPT ![n] = Torn]
      PROVE  Acyclic'
  <2>1. \A m \in Artifact : Parents(m)' = Parents(m)
    BY <1>2, Constants DEF Parents, Written, StoreInv, TypeOK
  <2>2. QED
    BY <2>1 DEF Acyclic
<1>3. ASSUME NEW p \in Proc, pc[p] = "fill", job[p] \in Manifest, man[job[p].id] = Torn,
             man' = [man EXCEPT ![job[p].id] = job[p]]
      PROVE  Acyclic'
  <2> PICK n \in Artifact : n = job[p].id
    BY <1>3 DEF Manifest
  <2>1. ~Written(n)
    BY <1>3, Constants DEF Written
  <2>2. \A m \in Artifact : n \notin Parents(m)
    BY <2>1 DEF ParentsInv, Parents
  <2>3. n \notin Parents(n)' /\ \A m \in Artifact \ {n} : Parents(m)' = Parents(m)
    BY <1>3, <2>1 DEF ParentsInv, Parents, Written, StoreInv, TypeOK, IngestPC
  <2>4. ASSUME NEW S \in SUBSET Artifact, S # {} PROVE \E m \in S : Parents(m)' \cap S = {}
    <3>1. CASE S = {n}
      BY <3>1, <2>3
    <3>2. CASE S # {n}
      <4>1. S \ {n} # {} /\ S \ {n} \in SUBSET Artifact
        BY <2>4, <3>2
      <4>2. PICK m \in S \ {n} : Parents(m) \cap (S \ {n}) = {}
        BY <4>1 DEF Acyclic
      <4>3. Parents(m)' \cap S = {}
        BY <4>2, <2>2, <2>3
      <4>4. QED
        BY <4>2, <4>3
    <3>3. QED
      BY <3>1, <3>2
  <2>5. QED
    BY <2>4 DEF Acyclic
<1>4. QED
  BY <1>1, <1>2, <1>3, ManifestChange

\* Acyclic, if --parent names ingested nodes only.
THEOREM RecordsFormDAG == ASSUME ParentsFirst PROVE Spec => []Acyclic
<1>1. Init => ParentsInv /\ Acyclic
  BY Constants DEF Init, ParentsInv, Acyclic, Parents, Written, IngestPC, StorePC
<1>2. StoreInv /\ ParentsInv /\ [Next]_vars => ParentsInv'
  BY ParentsStep
<1>3. StoreInv /\ ParentsInv /\ Acyclic /\ [Next]_vars => Acyclic'
  BY AcyclicStep
<1>4. QED
  BY <1>1, <1>2, <1>3, StoreInvariant, PTL DEF Spec

(***************************************************************************)
(* The whole-store audit covers the recursive one                          *)
(***************************************************************************)

\* FsckCoversReach: what fsck accepts, verify-reachable accepts from any node.
THEOREM FsckImpliesReachable == Spec => []FsckCoversReach
<1>1. TypeOK => FsckCoversReach
  <2> SUFFICES ASSUME TypeOK, FsckOk, NEW n \in Artifact, man[n] # Absent,
                      NEW m \in Reach(n)
               PROVE  VerifyNodeOk(m)
    BY DEF FsckCoversReach, VerifyReachableOk
  <2> DEFINE S == {k \in Artifact : man[k] # Absent}
  <2>1. \A k \in S : VerifyNodeOk(k)
    BY DEF FsckOk, FsckManifests
  <2>2. ClosedUnderParents(S)
    BY <2>1 DEF ClosedUnderParents, Parents, VerifyNodeOk, Written, Manifest
  <2>3. m \in S
    BY <2>2 DEF Reach
  <2>4. QED
    BY <2>1, <2>3
<1>2. QED
  BY <1>1, TypeCorrect, PTL

(***************************************************************************)
(* One command at a time: objects are never incomplete                     *)
(***************************************************************************)

SerialInv ==
    /\ \A p \in Proc :
          /\ pc[p] \in Making => obj[Blob(p)] = Absent
          /\ fd[p] \in {"none", "tmp"}
          /\ pc[p] = "rename" => tmp[Blob(p)] = Blob(p)
    /\ BlobsMatchNames
    /\ StrayTmpIsReused

LEMMA SerialStep ==
    ASSUME ~EditedSource, \A p, q \in Proc : p = q, TypeOK, SerialInv, [Next]_vars
    PROVE  SerialInv'
<1> USE DEF SerialInv, BlobsMatchNames, StrayTmpIsReused
<1>1. CASE Quiet
  BY <1>1, TypeStep DEF Quiet, Making, TypeOK
<1>2. ASSUME NEW p \in Proc, OpenTmp(p) PROVE SerialInv'
  BY <1>2, BlobType, Constants DEF OpenTmp, Making, StorePC, Blob, TypeOK
<1>3. ASSUME NEW p \in Proc, WriteTmp(p) PROVE SerialInv'
  BY <1>3, BlobType, Constants DEF WriteTmp, SourceBytes, Making, StorePC, Blob, TypeOK
<1>4. ASSUME NEW p \in Proc, RenameTmp(p) PROVE SerialInv'
  BY <1>4, BlobType, Constants
     DEF RenameTmp, Renamed, Stored, Exit, disk, Making, StorePC, TypeOK
<1>5. ASSUME NEW p \in Proc, Crash(p) PROVE SerialInv'
  BY <1>5 DEF Crash, Exit, disk, Making, TypeOK
<1>6. QED
  BY <1>1, <1>2, <1>3, <1>4, <1>5, QuietOrNot

LEMMA SerialInvariance ==
    ASSUME ~EditedSource, \A p, q \in Proc : p = q
    PROVE  Spec => []SerialInv
<1>1. Init => SerialInv
  BY Constants DEF Init, SerialInv, BlobsMatchNames, StrayTmpIsReused, Making
<1>2. TypeOK /\ SerialInv /\ [Next]_vars => SerialInv'
  BY SerialStep
<1>3. QED
  BY <1>1, <1>2, TypeCorrect, PTL DEF Spec

\* With one process, however often it is killed, an object is complete from
\* the moment it has its name.
THEOREM SerialStoreIsAtomic ==
    ASSUME ~EditedSource, \A p, q \in Proc : p = q
    PROVE  Spec => []BlobsMatchNames
<1>1. SerialInv => BlobsMatchNames
  BY DEF SerialInv
<1>2. QED
  BY <1>1, SerialInvariance, PTL

\* With one process, a temporary file that a kill has left behind is never
\* beside a finished object: the next ingest of the bytes opens it again.
THEOREM StrayTmpsAreReused ==
    ASSUME ~EditedSource, \A p, q \in Proc : p = q
    PROVE  Spec => []StrayTmpIsReused
<1>1. SerialInv => StrayTmpIsReused
  BY DEF SerialInv
<1>2. QED
  BY <1>1, SerialInvariance, PTL

(***************************************************************************)
(* Two commands at a time: a complete object stays complete                *)
(***************************************************************************)

\* Once an object has its name, at most one process is still making it, and
\* what that process may yet rename over it is complete.
PairInv ==
    /\ \A p, q \in Proc :
          /\ pc[p] \in Making /\ pc[q] \in Making
          /\ Blob(p) = Blob(q) /\ obj[Blob(p)] # Absent
          => p = q
    /\ \A p \in Proc :
          /\ pc[p] = "rename" /\ obj[Blob(p)] # Absent => tmp[Blob(p)] \in {Absent, Blob(p)}
          /\ fd[p] = "obj" => obj[Blob(p)] # Absent /\ tmp[Blob(p)] = Absent
          /\ fd[p] # "orphan"

LEMMA PairStep ==
    ASSUME ~EditedSource, \A p, q, r \in Proc : p = q \/ q = r \/ p = r,
           TypeOK, ContentInv, PairInv, [Next]_vars
    PROVE  PairInv'
<1> USE DEF PairInv
<1>1. CASE Quiet
  <2>1. TypeOK'
    BY TypeStep
  <2>2. ASSUME NEW p \in Proc, NEW q \in Proc, pc'[p] \in Making, pc'[q] \in Making,
               Blob(p)' = Blob(q)', obj'[Blob(p)'] # Absent
        PROVE  p = q
    BY <1>1, <2>2 DEF Quiet
  <2>3. ASSUME NEW p \in Proc, pc'[p] = "rename", obj'[Blob(p)'] # Absent
        PROVE  tmp'[Blob(p)'] \in {Absent, Blob(p)'}
    BY <1>1, <2>3 DEF Quiet, Making
  <2>4. ASSUME NEW p \in Proc
        PROVE  /\ fd'[p] = "obj" => obj'[Blob(p)'] # Absent /\ tmp'[Blob(p)'] = Absent
               /\ fd'[p] # "orphan"
    BY <1>1, <2>1, <2>4 DEF Quiet, Making, TypeOK
  <2>5. QED
    BY <2>2, <2>3, <2>4
<1>2. ASSUME NEW p \in Proc, OpenTmp(p) PROVE PairInv'
  BY <1>2, BlobType, Constants DEF OpenTmp, Making, StorePC, Blob, TypeOK
<1>3. ASSUME NEW p \in Proc, WriteTmp(p) PROVE PairInv'
  BY <1>3, BlobType, Constants DEF WriteTmp, SourceBytes, Making, StorePC, Blob, TypeOK
<1>4. ASSUME NEW p \in Proc, RenameTmp(p) PROVE PairInv'
  <2>1. CASE tmp[Blob(p)] = Absent
    BY <1>4, <2>1 DEF RenameTmp, Exit, disk, Making, Blob, TypeOK
  <2>2. CASE tmp[Blob(p)] # Absent
    <3> PICK d \in Digest : d = Blob(p)
      BY <1>4, BlobType DEF RenameTmp, StorePC
    <3>1. /\ pc[p] = "rename" /\ fd[p] = "none"
          /\ obj' = [obj EXCEPT ![d] = tmp[d]]
          /\ tmp' = [tmp EXCEPT ![d] = Absent]
          /\ fd' = [q \in Proc |-> IF fd[q] # "none" /\ Blob(q) = d
                                   THEN Renamed(fd[q]) ELSE fd[q]]
          /\ pc'[p] \notin Making
      BY <1>4, <2>2 DEF RenameTmp, Stored, Making, TypeOK
    <3>2. \A q \in Proc : q # p => pc'[q] = pc[q] /\ Blob(q)' = Blob(q)
      BY <1>4, <2>2 DEF RenameTmp, Stored, Blob, TypeOK
    <3>3. \A q \in Proc : q # p /\ fd[q] = "obj" => Blob(q) # d
      BY <3>1 DEF Making, TypeOK
    <3>4. TypeOK'
      BY TypeStep
    <3>5. ASSUME NEW q \in Proc, NEW r \in Proc, pc'[q] \in Making, pc'[r] \in Making
          PROVE  q = r
      BY <3>1, <3>5
    <3>6. ASSUME NEW q \in Proc, pc'[q] = "rename", obj'[Blob(q)'] # Absent
          PROVE  tmp'[Blob(q)'] \in {Absent, Blob(q)'}
      BY <3>1, <3>2, <3>6, BlobType DEF Making, StorePC, TypeOK
    <3>7. ASSUME NEW q \in Proc, pc'[q] = "write"
          PROVE  /\ fd'[q] = "obj" => obj'[Blob(q)'] # Absent /\ tmp'[Blob(q)'] = Absent
                 /\ fd'[q] # "orphan"
      BY <2>2, <3>1, <3>2, <3>3, <3>7, BlobType DEF Renamed, Making, StorePC, TypeOK
    <3>8. QED
      BY <3>4, <3>5, <3>6, <3>7 DEF TypeOK
  <2>3. QED
    BY <2>1, <2>2
<1>5. ASSUME NEW p \in Proc, Crash(p) PROVE PairInv'
  BY <1>5 DEF Crash, Exit, disk, Making, Blob, TypeOK
<1>6. QED
  BY <1>1, <1>2, <1>3, <1>4, <1>5, QuietOrNot

LEMMA IntactStays ==
    ASSUME ~EditedSource, TypeOK, PairInv, [Next]_vars, NEW d, Intact(d)
    PROVE  Intact(d)'
<1> USE Constants DEF Intact, TypeOK
<1>1. CASE Quiet
  BY <1>1 DEF Quiet
<1>2. ASSUME NEW p \in Proc, WriteTmp(p) PROVE Intact(d)'
  BY <1>2, BlobType DEF WriteTmp, SourceBytes, StorePC
<1>3. ASSUME NEW p \in Proc, RenameTmp(p) PROVE Intact(d)'
  BY <1>3, BlobType DEF RenameTmp, disk, StorePC, PairInv
<1>4. ASSUME NEW p \in Proc, OpenTmp(p) \/ Crash(p) PROVE Intact(d)'
  BY <1>4 DEF OpenTmp, Crash, disk
<1>5. QED
  BY <1>1, <1>2, <1>3, <1>4, QuietOrNot

LEMMA VerdictKept ==
    ASSUME ~EditedSource, StoreInv, PairInv, [Next]_vars, NEW n \in Artifact, VerifyNodeOk(n)
    PROVE  VerifyNodeOk(n)' /\ man'[n] = man[n]
<1> PICK t : t = man[n].transform
  OBVIOUS
<1>1. Written(n)' /\ man'[n] = man[n] /\ man[n] \in Manifest
  BY RecordsFinal DEF VerifyNodeOk, Written
<1>2. \A q \in man[n].parents : man'[q] # Absent
  BY <1>1, RecordsFinal DEF VerifyNodeOk, Manifest
<1>3. Intact(n)' /\ (man[n].parents # {} => Intact(t)')
  BY IntactStays DEF VerifyNodeOk, StoreInv
<1>4. QED
  BY <1>1, <1>2, <1>3 DEF VerifyNodeOk, Intact

\* What a recursive audit visits is a set of nodes closed under parents.
LEMMA ReachClosed ==
    ASSUME NEW n \in Artifact
    PROVE  n \in Reach(n) /\ Reach(n) \subseteq Artifact /\ ClosedUnderParents(Reach(n))
BY DEF Reach, ClosedUnderParents, Parents, Written, Manifest

LEMMA ReachLeast ==
    ASSUME NEW n \in Artifact, NEW S \in SUBSET Artifact, n \in S, ClosedUnderParents(S)
    PROVE  Reach(n) \subseteq S
BY DEF Reach

LEMMA PairInvariance ==
    ASSUME ~EditedSource, \A p, q, r \in Proc : p = q \/ q = r \/ p = r
    PROVE  Spec => []PairInv
<1>1. Init => PairInv
  BY Constants DEF Init, PairInv, Making
<1>2. StoreInv /\ ContentInv /\ PairInv /\ [Next]_vars => PairInv'
  BY PairStep DEF StoreInv
<1>3. QED
  BY <1>1, <1>2, StoreInvariant, ContentInvariance, PTL DEF Spec

\* VerifiedStaysVerified, for two processes and any number of kills: with
\* three there is a counterexample.
THEOREM TwoWritersKeepVerdicts ==
    ASSUME ~EditedSource, \A p, q, r \in Proc : p = q \/ q = r \/ p = r
    PROVE  Spec => VerifiedStaysVerified
<1>1. StoreInv /\ PairInv /\ [Next]_vars
          => [\A n \in Artifact : VerifyNodeOk(n) => VerifyNodeOk(n)']_vars
  BY VerdictKept
<1>2. QED
  BY <1>1, StoreInvariant, PairInvariance, PTL DEF Spec, VerifiedStaysVerified

\* The same of the recursive audit: a history that verifies goes on verifying,
\* and is the same history, whatever is ingested next to it.
THEOREM TwoWritersKeepHistories ==
    ASSUME ~EditedSource, \A p, q, r \in Proc : p = q \/ q = r \/ p = r
    PROVE  Spec => [][\A n \in Artifact : VerifyReachableOk(n) =>
                          VerifyReachableOk(n)' /\ Reach(n)' = Reach(n)]_vars
<1>1. ASSUME StoreInv, PairInv, [Next]_vars, NEW n \in Artifact, VerifyReachableOk(n)
      PROVE  VerifyReachableOk(n)' /\ Reach(n)' = Reach(n)
  <2>1. ASSUME NEW m \in Reach(n)
        PROVE  VerifyNodeOk(m)' /\ Parents(m)' = Parents(m)
    <3>1. m \in Artifact /\ VerifyNodeOk(m)
      BY <1>1, ReachClosed DEF VerifyReachableOk
    <3>2. VerifyNodeOk(m)' /\ man'[m] = man[m]
      BY <1>1, <3>1, VerdictKept
    <3>3. QED
      BY <3>1, <3>2 DEF VerifyNodeOk, Parents, Written
  <2>2. n \in Reach(n) /\ Reach(n) \subseteq Artifact /\ ClosedUnderParents(Reach(n))
    BY ReachClosed
  <2>3. Reach(n)' \subseteq Reach(n)
    <3> SUFFICES ASSUME NEW m \in Reach(n)' PROVE m \in Reach(n)
      OBVIOUS
    <3> DEFINE S == Reach(n)
    <3>1. \A k \in S : Parents(k)' \subseteq S
      BY <2>1, <2>2 DEF ClosedUnderParents
    <3>2. S \in SUBSET Artifact /\ n \in S
      BY <2>2
    <3> HIDE DEF S
    <3>3. m \in S
      BY <3>1, <3>2 DEF Reach, ClosedUnderParents
    <3>4. QED
      BY <3>3 DEF S
  <2>4. Reach(n) \subseteq Reach(n)'
    <3> SUFFICES ASSUME NEW m \in Reach(n), NEW S \in SUBSET Artifact, n \in S,
                        \A k \in S : Parents(k)' \subseteq S
                 PROVE  m \in S
      BY <2>2 DEF Reach, ClosedUnderParents
    <3>1. ClosedUnderParents(S \cap Reach(n))
      BY <2>1, <2>2 DEF ClosedUnderParents
    <3>2. QED
      BY <2>2, <3>1, ReachLeast
  <2>5. QED
    BY <2>1, <2>3, <2>4 DEF VerifyReachableOk
<1>2. StoreInv /\ PairInv /\ [Next]_vars
          => [\A n \in Artifact : VerifyReachableOk(n) =>
                 VerifyReachableOk(n)' /\ Reach(n)' = Reach(n)]_vars
  BY <1>1
<1>3. QED
  BY <1>2, StoreInvariant, PairInvariance, PTL DEF Spec
==============================================================================
