------------------------- MODULE LedgerStore_proofs -------------------------
(***************************************************************************)
(* Theorems about the commands that write the store.                       *)
(***************************************************************************)
EXTENDS StoreAudit, TLAPS

(***************************************************************************)
(* Type correctness                                                        *)
(***************************************************************************)

\* The assumption on the constants, in the form the proofs use it.
LEMMA Constants ==
    /\ MaxCrashes \in Nat
    /\ Absent # Torn
    /\ Absent \notin Digest /\ Torn \notin Digest /\ RootTransform \notin Digest
    /\ Absent \notin Manifest /\ Torn \notin Manifest
    /\ Absent \notin Retraction /\ Torn \notin Retraction
BY StoreAssumption DEF StoreAssumption

LEMMA InitType == Init => TypeOK
BY Constants DEF Init, TypeOK, PC, IngestPC, StorePC

LEMMA TypeStep == TypeOK /\ [Next]_vars => TypeOK'
<1> SUFFICES ASSUME TypeOK, [Next]_vars PROVE TypeOK'
  OBVIOUS
<1> USE Constants DEF TypeOK, PC, IngestPC, StorePC
<1>1. ASSUME NEW p \in Proc, StartIngest(p) PROVE TypeOK'
  BY <1>1 DEF StartIngest, Job, disk
<1>2. ASSUME NEW p \in Proc, StartRetract(p) PROVE TypeOK'
  BY <1>2 DEF StartRetract, Job, disk
<1>3. ASSUME NEW p \in Proc, StartSetRef(p) PROVE TypeOK'
  BY <1>3 DEF StartSetRef, Job, disk
<1>4. ASSUME NEW p \in Proc, FindBlob(p) PROVE TypeOK'
  BY <1>4 DEF FindBlob, Stored, Exit, Blob, Digest, disk
<1>5. ASSUME NEW p \in Proc, MissBlob(p) PROVE TypeOK'
  BY <1>5 DEF MissBlob, Goto, Blob, Digest, disk
<1>6. ASSUME NEW p \in Proc, OpenTmp(p) PROVE TypeOK'
  BY <1>6 DEF OpenTmp, Blob, Digest, disk
<1>7. ASSUME NEW p \in Proc, WriteTmp(p) PROVE TypeOK'
  BY <1>7 DEF WriteTmp, SourceBytes, Blob, Digest, Manifest, disk
<1>8. ASSUME NEW p \in Proc, RenameTmp(p) PROVE TypeOK'
  BY <1>8 DEF RenameTmp, Stored, Exit, Renamed, Blob, Digest, disk
<1>9. ASSUME NEW p \in Proc, RefuseIngest(p) PROVE TypeOK'
  BY <1>9 DEF RefuseIngest, Exit, disk
<1>10. ASSUME NEW p \in Proc, CreateManifest(p) PROVE TypeOK'
  BY <1>10 DEF CreateManifest, Goto, Exit, disk
<1>11. ASSUME NEW p \in Proc, FillManifest(p) PROVE TypeOK'
  BY <1>11 DEF FillManifest, Manifest, Exit, disk
<1>12. ASSUME NEW p \in Proc, CreateRetraction(p) PROVE TypeOK'
  BY <1>12 DEF CreateRetraction, Goto, Exit, disk
<1>13. ASSUME NEW p \in Proc, FillRetraction(p) PROVE TypeOK'
  BY <1>13 DEF FillRetraction, Retraction, Exit, disk
<1>14. ASSUME NEW p \in Proc, TruncateRef(p) PROVE TypeOK'
  BY <1>14 DEF TruncateRef, Goto, disk
<1>15. ASSUME NEW p \in Proc, WriteRef(p) PROVE TypeOK'
  BY <1>15 DEF WriteRef, RefJob, Exit, disk
<1>16. ASSUME NEW p \in Proc, Crash(p) PROVE TypeOK'
  BY <1>16 DEF Crash, Exit, disk
<1>17. CASE UNCHANGED vars
  BY <1>17 DEF vars, disk, control, Blob
<1>18. QED
  BY <1>1, <1>2, <1>3, <1>4, <1>5, <1>6, <1>7, <1>8, <1>9, <1>10, <1>11, <1>12,
     <1>13, <1>14, <1>15, <1>16, <1>17 DEF Next, Start, Step

THEOREM TypeCorrect == Spec => []TypeOK
BY InitType, TypeStep, PTL DEF Spec
(***************************************************************************)
(* What is written has what it names: the blobs of a record, the node and  *)
(* the successor of a retraction, the target of a ref.                     *)
(***************************************************************************)

\* An ingest reaches its manifest only after its blobs have their names.
StoredInv ==
    \A p \in Proc :
        /\ pc[p] \in IngestPC /\ job[p].parents # {} => job[p].transform # RootTransform
        /\ stage[p] = "transform" \/ pc[p] \in {"create", "fill"} => obj[job[p].id] # Absent
        /\ pc[p] \in {"create", "fill"} /\ job[p].transform # RootTransform
              => obj[job[p].transform] # Absent

LEMMA StoredStep == TypeOK /\ StoredInv /\ [Next]_vars => StoredInv'
<1> SUFFICES ASSUME TypeOK, StoredInv, [Next]_vars PROVE StoredInv'
  OBVIOUS
<1> USE Constants DEF TypeOK, StoredInv, PC, IngestPC, StorePC, Manifest, Digest
<1>1. ASSUME NEW p \in Proc, StartIngest(p) PROVE StoredInv'
  BY <1>1 DEF StartIngest, disk
<1>2. ASSUME NEW p \in Proc, StartRetract(p) PROVE StoredInv'
  BY <1>2 DEF StartRetract, disk
<1>3. ASSUME NEW p \in Proc, StartSetRef(p) PROVE StoredInv'
  BY <1>3 DEF StartSetRef, disk
<1>4. ASSUME NEW p \in Proc, FindBlob(p) PROVE StoredInv'
  BY <1>4 DEF FindBlob, Stored, Exit, Blob, disk
<1>5. ASSUME NEW p \in Proc, MissBlob(p) PROVE StoredInv'
  BY <1>5 DEF MissBlob, Goto, Blob, disk
<1>6. ASSUME NEW p \in Proc, OpenTmp(p) PROVE StoredInv'
  BY <1>6 DEF OpenTmp, Blob, disk
<1>7. ASSUME NEW p \in Proc, WriteTmp(p) PROVE StoredInv'
  BY <1>7 DEF WriteTmp, SourceBytes, Blob, disk
<1>8. ASSUME NEW p \in Proc, RenameTmp(p) PROVE StoredInv'
  BY <1>8 DEF RenameTmp, Renamed, Stored, Exit, Blob, disk
<1>9. ASSUME NEW p \in Proc, RefuseIngest(p) PROVE StoredInv'
  BY <1>9 DEF RefuseIngest, Exit, disk
<1>10. ASSUME NEW p \in Proc, CreateManifest(p) PROVE StoredInv'
  BY <1>10 DEF CreateManifest, Goto, Exit, disk
<1>11. ASSUME NEW p \in Proc, FillManifest(p) PROVE StoredInv'
  BY <1>11 DEF FillManifest, Exit, disk
<1>12. ASSUME NEW p \in Proc, CreateRetraction(p) PROVE StoredInv'
  BY <1>12 DEF CreateRetraction, Goto, Exit, disk
<1>13. ASSUME NEW p \in Proc, FillRetraction(p) PROVE StoredInv'
  BY <1>13 DEF FillRetraction, Exit, disk
<1>14. ASSUME NEW p \in Proc, TruncateRef(p) PROVE StoredInv'
  BY <1>14 DEF TruncateRef, Goto, disk
<1>15. ASSUME NEW p \in Proc, WriteRef(p) PROVE StoredInv'
  BY <1>15 DEF WriteRef, Exit, disk
<1>16. ASSUME NEW p \in Proc, Crash(p) PROVE StoredInv'
  BY <1>16 DEF Crash, Exit, disk
<1>17. CASE UNCHANGED vars
  BY <1>17 DEF vars, disk, control, Blob
<1>18. QED
  BY <1>1, <1>2, <1>3, <1>4, <1>5, <1>6, <1>7, <1>8, <1>9, <1>10, <1>11, <1>12,
     <1>13, <1>14, <1>15, <1>16, <1>17 DEF Next, Start, Step

\* A manifest that an ingest has created is that ingest's alone to fill, and
\* a record that is there has its blobs.
ManifestInv ==
    /\ \A p \in Proc : pc[p] = "fill" => man[job[p].id] = Torn
    /\ \A p, q \in Proc :
          pc[p] = "fill" /\ pc[q] = "fill" /\ job[p].id = job[q].id => p = q
    /\ \A n \in Artifact : man[n] # Absent => obj[n] # Absent
    /\ \A n \in Artifact :
          Written(n) =>
              /\ man[n].id = n
              /\ man[n].transform # RootTransform => obj[man[n].transform] # Absent
              /\ man[n].parents # {} => man[n].transform # RootTransform

LEMMA ManifestStep == TypeOK /\ StoredInv /\ ManifestInv /\ [Next]_vars => ManifestInv'
<1> SUFFICES ASSUME TypeOK, StoredInv, ManifestInv, [Next]_vars PROVE ManifestInv'
  OBVIOUS
<1> USE Constants DEF TypeOK, StoredInv, ManifestInv, Written, PC, IngestPC, StorePC, Manifest, Digest
<1>1. ASSUME NEW p \in Proc, StartIngest(p) PROVE ManifestInv'
  BY <1>1 DEF StartIngest, disk
<1>2. ASSUME NEW p \in Proc, StartRetract(p) PROVE ManifestInv'
  BY <1>2 DEF StartRetract, disk
<1>3. ASSUME NEW p \in Proc, StartSetRef(p) PROVE ManifestInv'
  BY <1>3 DEF StartSetRef, disk
<1>4. ASSUME NEW p \in Proc, FindBlob(p) PROVE ManifestInv'
  BY <1>4 DEF FindBlob, Stored, Exit, Blob, disk
<1>5. ASSUME NEW p \in Proc, MissBlob(p) PROVE ManifestInv'
  BY <1>5 DEF MissBlob, Goto, Blob, disk
<1>6. ASSUME NEW p \in Proc, OpenTmp(p) PROVE ManifestInv'
  BY <1>6 DEF OpenTmp, Blob, disk
<1>7. ASSUME NEW p \in Proc, WriteTmp(p) PROVE ManifestInv'
  BY <1>7 DEF WriteTmp, SourceBytes, Blob, disk
<1>8. ASSUME NEW p \in Proc, RenameTmp(p) PROVE ManifestInv'
  BY <1>8 DEF RenameTmp, Renamed, Stored, Exit, Blob, disk
<1>9. ASSUME NEW p \in Proc, RefuseIngest(p) PROVE ManifestInv'
  BY <1>9 DEF RefuseIngest, Exit, disk
<1>10. ASSUME NEW p \in Proc, CreateManifest(p) PROVE ManifestInv'
  BY <1>10 DEF CreateManifest, Goto, Exit, disk
<1>11. ASSUME NEW p \in Proc, FillManifest(p) PROVE ManifestInv'
  BY <1>11 DEF FillManifest, Exit, disk
<1>12. ASSUME NEW p \in Proc, CreateRetraction(p) PROVE ManifestInv'
  BY <1>12 DEF CreateRetraction, Goto, Exit, disk
<1>13. ASSUME NEW p \in Proc, FillRetraction(p) PROVE ManifestInv'
  BY <1>13 DEF FillRetraction, Exit, disk
<1>14. ASSUME NEW p \in Proc, TruncateRef(p) PROVE ManifestInv'
  BY <1>14 DEF TruncateRef, Goto, disk
<1>15. ASSUME NEW p \in Proc, WriteRef(p) PROVE ManifestInv'
  BY <1>15 DEF WriteRef, Exit, disk
<1>16. ASSUME NEW p \in Proc, Crash(p) PROVE ManifestInv'
  BY <1>16 DEF Crash, Exit, disk
<1>17. CASE UNCHANGED vars
  BY <1>17 DEF vars, disk, control, Blob
<1>18. QED
  BY <1>1, <1>2, <1>3, <1>4, <1>5, <1>6, <1>7, <1>8, <1>9, <1>10, <1>11, <1>12,
     <1>13, <1>14, <1>15, <1>16, <1>17 DEF Next, Start, Step

\* What refs and retractions name has a manifest from the moment set_ref or
\* write_retraction looks, and a retraction is its creator's alone to fill.
LinkInv ==
    /\ \A p \in Proc :
          /\ pc[p] \in {"mark", "annotate"} =>
                /\ man[job[p].retracts] # Absent
                /\ job[p].superseded_by # Absent => man[job[p].superseded_by] # Absent
          /\ pc[p] = "annotate" => retr[job[p].retracts] = Torn
          /\ pc[p] \in {"aim", "point"} => man[job[p].target] # Absent
    /\ \A p, q \in Proc :
          pc[p] = "annotate" /\ pc[q] = "annotate" /\ job[p].retracts = job[q].retracts
              => p = q
    /\ LinksResolve

LEMMA LinkStep == TypeOK /\ LinkInv /\ [Next]_vars => LinkInv'
<1> SUFFICES ASSUME TypeOK, LinkInv, [Next]_vars PROVE LinkInv'
  OBVIOUS
<1> USE Constants DEF TypeOK, LinkInv, LinksResolve, PC, IngestPC, StorePC, Manifest, Retraction,
        RefJob
<1>1. ASSUME NEW p \in Proc, StartIngest(p) PROVE LinkInv'
  BY <1>1 DEF StartIngest, disk
<1>2. ASSUME NEW p \in Proc, StartRetract(p) PROVE LinkInv'
  BY <1>2 DEF StartRetract, disk
<1>3. ASSUME NEW p \in Proc, StartSetRef(p) PROVE LinkInv'
  BY <1>3 DEF StartSetRef, disk
<1>4. ASSUME NEW p \in Proc, FindBlob(p) PROVE LinkInv'
  BY <1>4 DEF FindBlob, Stored, Exit, Blob, disk
<1>5. ASSUME NEW p \in Proc, MissBlob(p) PROVE LinkInv'
  BY <1>5 DEF MissBlob, Goto, Blob, disk
<1>6. ASSUME NEW p \in Proc, OpenTmp(p) PROVE LinkInv'
  BY <1>6 DEF OpenTmp, Blob, disk
<1>7. ASSUME NEW p \in Proc, WriteTmp(p) PROVE LinkInv'
  BY <1>7 DEF WriteTmp, SourceBytes, Blob, disk
<1>8. ASSUME NEW p \in Proc, RenameTmp(p) PROVE LinkInv'
  BY <1>8 DEF RenameTmp, Renamed, Stored, Exit, Blob, disk
<1>9. ASSUME NEW p \in Proc, RefuseIngest(p) PROVE LinkInv'
  BY <1>9 DEF RefuseIngest, Exit, disk
<1>10. ASSUME NEW p \in Proc, CreateManifest(p) PROVE LinkInv'
  BY <1>10 DEF CreateManifest, Goto, Exit, disk
<1>11. ASSUME NEW p \in Proc, FillManifest(p) PROVE LinkInv'
  BY <1>11 DEF FillManifest, Exit, disk
<1>12. ASSUME NEW p \in Proc, CreateRetraction(p) PROVE LinkInv'
  BY <1>12 DEF CreateRetraction, Goto, Exit, disk
<1>13. ASSUME NEW p \in Proc, FillRetraction(p) PROVE LinkInv'
  BY <1>13 DEF FillRetraction, Exit, disk
<1>14. ASSUME NEW p \in Proc, TruncateRef(p) PROVE LinkInv'
  BY <1>14 DEF TruncateRef, Goto, Digest, disk
<1>15. ASSUME NEW p \in Proc, WriteRef(p) PROVE LinkInv'
  BY <1>15 DEF WriteRef, Exit, disk
<1>16. ASSUME NEW p \in Proc, Crash(p) PROVE LinkInv'
  BY <1>16 DEF Crash, Exit, disk
<1>17. CASE UNCHANGED vars
  BY <1>17 DEF vars, disk, control, Blob
<1>18. QED
  BY <1>1, <1>2, <1>3, <1>4, <1>5, <1>6, <1>7, <1>8, <1>9, <1>10, <1>11, <1>12,
     <1>13, <1>14, <1>15, <1>16, <1>17 DEF Next, Start, Step

StoreInv == TypeOK /\ StoredInv /\ ManifestInv /\ LinkInv

LEMMA StoreInvInit == Init => StoreInv
BY InitType, Constants
   DEF StoreInv, Init, StoredInv, ManifestInv, LinkInv, LinksResolve, Written,
       IngestPC, StorePC, Digest

LEMMA StoreInvStep == StoreInv /\ [Next]_vars => StoreInv'
BY TypeStep, StoredStep, ManifestStep, LinkStep DEF StoreInv

\* The inductive invariant of the writing commands.
THEOREM StoreInvariant == Spec => []StoreInv
BY StoreInvInit, StoreInvStep, PTL DEF Spec

\* LinksResolve: refs and retractions never name a node without a manifest
\* file, whatever was interleaved and killed.
THEOREM LinksAlwaysResolve == Spec => []LinksResolve
<1>1. StoreInv => LinksResolve
  BY DEF StoreInv, LinkInv
<1>2. QED
  BY StoreInvariant, <1>1, PTL

(***************************************************************************)
(* The store implements the append-only ledger.                            *)
(***************************************************************************)

\* An empty store is an empty ledger.
LEMMA LedgerInit == Init => Ledger!Init
BY Constants
   DEF Init, Ledger!Init, PresentBlobs, TakenIds, NodeRecords, RetractionRecords,
       Written

LEMMA LedgerVars ==
    ASSUME UNCHANGED <<obj, man, retr>> PROVE UNCHANGED Ledger!vars
BY DEF Ledger!vars, PresentBlobs, TakenIds, NodeRecords, RetractionRecords, Written

\* A new or completed object adds a blob.
LEMMA BlobAdded ==
    ASSUME TypeOK, NEW d \in Digest, NEW b,
           b # Absent, obj' = [obj EXCEPT ![d] = b], UNCHANGED <<man, retr>>
    PROVE  Ledger!AddBlob(d)
BY DEF TypeOK, Ledger!AddBlob, PresentBlobs, TakenIds, NodeRecords, RetractionRecords,
       Written

LEMMA LedgerStep == StoreInv /\ [Next]_vars => [Ledger!Next]_Ledger!vars
<1> SUFFICES ASSUME StoreInv, [Next]_vars PROVE [Ledger!Next]_Ledger!vars
  OBVIOUS
<1>t. TypeOK
  BY DEF StoreInv
<1>1. ASSUME UNCHANGED <<obj, man, retr>> PROVE [Ledger!Next]_Ledger!vars
  BY <1>1, LedgerVars
<1>2. ASSUME NEW d \in Digest, Ledger!AddBlob(d) PROVE Ledger!Next
  BY <1>2 DEF Ledger!Next, Digest
<1>3. ASSUME NEW p \in Proc, pc[p] \in StorePC PROVE Blob(p) \in Digest
  BY <1>3, <1>t DEF TypeOK, Blob, Digest, Manifest, IngestPC
<1>4. ASSUME NEW p \in Proc, WriteTmp(p) PROVE [Ledger!Next]_Ledger!vars
  <2>1. PICK b \in SourceBytes(Blob(p)) :
           obj' = IF fd[p] = "obj" THEN [obj EXCEPT ![Blob(p)] = b] ELSE obj
    BY <1>4 DEF WriteTmp
  <2>2. Blob(p) \in Digest /\ b # Absent
    BY <1>3, <1>4, Constants DEF WriteTmp, StorePC, SourceBytes
  <2>3. UNCHANGED <<man, retr>>
    BY <1>4 DEF WriteTmp
  <2>4. CASE fd[p] = "obj"
    BY <2>1, <2>2, <2>3, <2>4, <1>2, <1>t, BlobAdded
  <2>5. CASE fd[p] # "obj"
    BY <2>1, <2>3, <2>5, <1>1
  <2>6. QED
    BY <2>4, <2>5
<1>5. ASSUME NEW p \in Proc, RenameTmp(p) PROVE [Ledger!Next]_Ledger!vars
  <2>1. CASE tmp[Blob(p)] = Absent
    BY <1>1, <1>5, <2>1 DEF RenameTmp, disk
  <2>2. CASE tmp[Blob(p)] # Absent
    <3>1. /\ obj' = [obj EXCEPT ![Blob(p)] = tmp[Blob(p)]]
          /\ UNCHANGED <<man, retr>>
      BY <1>5, <2>2 DEF RenameTmp
    <3>2. Blob(p) \in Digest
      BY <1>3, <1>5 DEF RenameTmp, StorePC
    <3>3. QED
      BY <3>1, <3>2, <2>2, <1>2, <1>t, BlobAdded
  <2>3. QED
    BY <2>1, <2>2
<1>6. ASSUME NEW p \in Proc, CreateManifest(p) PROVE [Ledger!Next]_Ledger!vars
  <2>1. CASE man[job[p].id] # Absent
    BY <1>1, <1>6, <2>1 DEF CreateManifest
  <2>2. CASE man[job[p].id] = Absent
    <3>1. job[p].id \in Artifact /\ obj[job[p].id] # Absent
      BY <1>6, <1>t DEF CreateManifest, TypeOK, IngestPC, Manifest, StoreInv, StoredInv
    <3>2. man' = [man EXCEPT ![job[p].id] = Torn] /\ UNCHANGED <<obj, retr>>
      BY <1>6, <2>2 DEF CreateManifest
    <3>3. Ledger!TakeId(job[p].id)
      BY <3>1, <3>2, <2>2, <1>t, Constants
         DEF Ledger!TakeId, TypeOK, PresentBlobs, TakenIds, NodeRecords,
             RetractionRecords, Written, Digest
    <3>4. QED
      BY <3>1, <3>3 DEF Ledger!Next
  <2>3. QED
    BY <2>1, <2>2
<1>7. ASSUME NEW p \in Proc, FillManifest(p) PROVE [Ledger!Next]_Ledger!vars
  <2>1. /\ job[p] \in Manifest
        /\ man[job[p].id] = Torn
        /\ man' = [man EXCEPT ![job[p].id] = job[p]]
        /\ UNCHANGED <<obj, retr>>
    BY <1>7, <1>t DEF FillManifest, TypeOK, IngestPC, StoreInv, ManifestInv
  <2>2. /\ job[p].parents # {} => job[p].transform # RootTransform
        /\ obj[job[p].id] # Absent
        /\ job[p].transform # RootTransform => obj[job[p].transform] # Absent
    BY <1>7 DEF FillManifest, IngestPC, StoreInv, StoredInv
  <2>3. job[p].id \in Artifact /\ job[p].transform \in Script \cup {RootTransform}
    BY <2>1 DEF Manifest
  <2>4. {job[p].id, job[p].transform} \subseteq PresentBlobs \cup {RootTransform}
    BY <2>2, <2>3 DEF PresentBlobs, Digest
  <2>5. NodeRecords' = [NodeRecords EXCEPT ![job[p].id] = job[p]]
    BY <2>1, <2>3, <1>t DEF NodeRecords, Written, TypeOK
  <2>6. /\ job[p].id \in TakenIds
        /\ NodeRecords[job[p].id] = Absent
        /\ TakenIds' = TakenIds
    BY <2>1, <2>3, <1>t, Constants DEF TakenIds, NodeRecords, Written, TypeOK
  <2>7. PresentBlobs' = PresentBlobs /\ RetractionRecords' = RetractionRecords
    BY <2>1 DEF PresentBlobs, RetractionRecords
  <2>8. Ledger!AddRecord(job[p])
    BY <2>2, <2>4, <2>5, <2>6, <2>7 DEF Ledger!AddRecord
  <2>9. job[p] \in Ledger!Record
    BY <2>1 DEF Manifest, Ledger!Record
  <2>10. QED
    BY <2>8, <2>9 DEF Ledger!Next
<1>8. ASSUME NEW p \in Proc, CreateRetraction(p) PROVE [Ledger!Next]_Ledger!vars
  <2>1. CASE retr[job[p].retracts] # Absent
    BY <1>1, <1>8, <2>1 DEF CreateRetraction
  <2>2. CASE retr[job[p].retracts] = Absent
    <3>1. job[p].retracts \in Artifact
      BY <1>8, <1>t DEF CreateRetraction, TypeOK, Retraction
    <3>2. retr' = [retr EXCEPT ![job[p].retracts] = Torn] /\ UNCHANGED <<obj, man>>
      BY <1>8, <2>2 DEF CreateRetraction
    <3>3. UNCHANGED Ledger!vars
      BY <3>1, <3>2, <2>2, <1>t, Constants
         DEF Ledger!vars, TypeOK, PresentBlobs, TakenIds, NodeRecords,
             RetractionRecords, Written
    <3>4. QED
      BY <3>3
  <2>3. QED
    BY <2>1, <2>2
<1>9. ASSUME NEW p \in Proc, FillRetraction(p) PROVE [Ledger!Next]_Ledger!vars
  <2>1. /\ job[p] \in Retraction
        /\ retr[job[p].retracts] = Torn
        /\ retr' = [retr EXCEPT ![job[p].retracts] = job[p]]
        /\ UNCHANGED <<obj, man>>
        /\ man[job[p].retracts] # Absent
        /\ job[p].superseded_by # Absent => man[job[p].superseded_by] # Absent
    BY <1>9, <1>t DEF FillRetraction, TypeOK, StoreInv, LinkInv
  <2>2. /\ job[p].retracts \in Artifact
        /\ job[p].superseded_by \in Artifact \cup {Absent}
    BY <2>1 DEF Retraction
  <2>3. {job[p].retracts, job[p].superseded_by} \subseteq TakenIds \cup {Absent}
    BY <2>1, <2>2 DEF TakenIds
  <2>4. RetractionRecords' = [RetractionRecords EXCEPT ![job[p].retracts] = job[p]]
    BY <2>1, <2>2, <1>t DEF RetractionRecords, TypeOK
  <2>5. RetractionRecords[job[p].retracts] = Absent
    BY <2>1, <2>2, Constants DEF RetractionRecords
  <2>6. UNCHANGED <<PresentBlobs, TakenIds, NodeRecords>>
    BY <2>1 DEF PresentBlobs, TakenIds, NodeRecords, Written
  <2>7. Ledger!AddRetraction(job[p])
    BY <2>3, <2>4, <2>5, <2>6 DEF Ledger!AddRetraction
  <2>8. job[p] \in Ledger!Retraction
    BY <2>1 DEF Retraction, Ledger!Retraction
  <2>9. QED
    BY <2>7, <2>8 DEF Ledger!Next
<1>10. ASSUME NEW p \in Proc, Start(p) PROVE UNCHANGED <<obj, man, retr>>
  BY <1>10 DEF Start, StartIngest, StartRetract, StartSetRef, disk
<1>11. ASSUME NEW p \in Proc, FindBlob(p) \/ MissBlob(p) \/ OpenTmp(p) \/ RefuseIngest(p)
       PROVE  UNCHANGED <<obj, man, retr>>
  BY <1>11 DEF FindBlob, MissBlob, OpenTmp, RefuseIngest, disk
<1>12. ASSUME NEW p \in Proc, TruncateRef(p) \/ WriteRef(p) \/ Crash(p)
       PROVE  UNCHANGED <<obj, man, retr>>
  BY <1>12 DEF TruncateRef, WriteRef, Crash, disk
<1>13. CASE UNCHANGED vars
  BY <1>1, <1>13 DEF vars, disk
<1>14. QED
  BY <1>1, <1>4, <1>5, <1>6, <1>7, <1>8, <1>9, <1>10, <1>11, <1>12, <1>13
     DEF Next, Step

\* ImplementsLedger, for any number of processes, artifacts, scripts and
\* kills, also when parents are missing and when source files are edited.
THEOREM StoreImplementsLedger == Spec => ImplementsLedger
<1>1. Spec => Ledger!Init /\ [][Ledger!Next]_Ledger!vars
  BY LedgerInit, LedgerStep, StoreInvariant, PTL DEF Spec
<1>2. QED
  BY <1>1 DEF ImplementsLedger, Ledger!Spec

\* What the promise comes to: nothing that the ledger holds is ever taken away
\* or changed, and a record that appears completes a manifest that was begun.
LedgerKept ==
    /\ PresentBlobs \subseteq PresentBlobs'
    /\ TakenIds \subseteq TakenIds'
    /\ \A n \in Artifact :
          /\ NodeRecords[n] # Absent => NodeRecords'[n] = NodeRecords[n]
          /\ NodeRecords'[n] # NodeRecords[n] =>
                {n, NodeRecords'[n].transform} \subseteq PresentBlobs \cup {RootTransform}
          /\ RetractionRecords[n] # Absent => RetractionRecords'[n] = RetractionRecords[n]
          /\ RetractionRecords'[n] # Absent => n \in TakenIds'

\* It follows from the abstract ledger alone.
LEMMA LedgerKeeps ==
    ASSUME Ledger!Next,
           NodeRecords \in [Artifact -> Manifest \cup {Absent}],
           RetractionRecords \in [Artifact -> Retraction \cup {Absent}],
           \A n \in Artifact : RetractionRecords[n] # Absent => n \in TakenIds
    PROVE  LedgerKept
<1>1. CASE \E d \in Artifact \cup Script : Ledger!AddBlob(d)
  BY <1>1 DEF LedgerKept, Ledger!AddBlob
<1>2. CASE \E n \in Artifact : Ledger!TakeId(n)
  BY <1>2 DEF LedgerKept, Ledger!TakeId
<1>3. CASE \E m \in Ledger!Record : Ledger!AddRecord(m)
  <2>1. PICK m \in Ledger!Record : Ledger!AddRecord(m)
    BY <1>3
  <2>2. m.id \in Artifact /\ NodeRecords' = [NodeRecords EXCEPT ![m.id] = m]
    BY <2>1 DEF Ledger!AddRecord, Ledger!Record
  <2>3. \A n \in Artifact : NodeRecords'[n] = IF n = m.id THEN m ELSE NodeRecords[n]
    BY <2>2
  <2>4. QED
    BY <2>1, <2>2, <2>3 DEF LedgerKept, Ledger!AddRecord
<1>4. CASE \E r \in Ledger!Retraction : Ledger!AddRetraction(r)
  <2>1. PICK r \in Ledger!Retraction : Ledger!AddRetraction(r)
    BY <1>4
  <2>2. /\ r.retracts \in Artifact
        /\ RetractionRecords' = [RetractionRecords EXCEPT ![r.retracts] = r]
    BY <2>1 DEF Ledger!AddRetraction, Ledger!Retraction
  <2>3. \A n \in Artifact :
           RetractionRecords'[n] = IF n = r.retracts THEN r ELSE RetractionRecords[n]
    BY <2>2
  <2>4. r.retracts \in TakenIds
    BY <2>1, <2>2, Constants DEF Ledger!AddRetraction, Digest
  <2>5. QED
    BY <2>1, <2>2, <2>3, <2>4 DEF LedgerKept, Ledger!AddRetraction
<1>5. QED
  BY <1>1, <1>2, <1>3, <1>4 DEF Ledger!Next

\* Whatever is interleaved or killed, no step of a command removes or changes
\* a record or removes a blob, a record has its blobs when it appears, and a
\* retraction is of a node whose id is taken.
THEOREM NothingIsLost == Spec => [][LedgerKept]_vars
<1>1. StoreInv => /\ NodeRecords \in [Artifact -> Manifest \cup {Absent}]
                  /\ RetractionRecords \in [Artifact -> Retraction \cup {Absent}]
                  /\ \A n \in Artifact : RetractionRecords[n] # Absent => n \in TakenIds
  BY DEF StoreInv, LinkInv, LinksResolve, NodeRecords, RetractionRecords, Written, TakenIds
<1>2. StoreInv /\ StoreInv' /\ UNCHANGED Ledger!vars => LedgerKept
  <2>1. StoreInv' => \A n \in Artifact : RetractionRecords'[n] # Absent => n \in TakenIds'
    BY DEF StoreInv, LinkInv, LinksResolve, RetractionRecords, TakenIds
  <2>2. QED
    BY <2>1 DEF Ledger!vars, LedgerKept
<1>3. StoreInv /\ StoreInv' /\ [Next]_vars => [LedgerKept]_vars
  BY <1>1, <1>2, LedgerStep, LedgerKeeps
<1>4. QED
  BY <1>3, StoreInvariant, PTL DEF Spec
=============================================================================
