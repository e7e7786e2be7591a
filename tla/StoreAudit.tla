----------------------------- MODULE StoreAudit -----------------------------
(***************************************************************************)
(* The reading half of the kernel over a store that does not change while  *)
(* it is read: what `ledger verify`, `ledger verify-reachable` and `ledger *)
(* fsck` conclude, and what must be true of the files that the commands of *)
(* LedgerStore leave behind.                                               *)
(***************************************************************************)
EXTENDS LedgerStore

(***************************************************************************)
(* The audits                                                              *)
(***************************************************************************)

Written(n) == man[n] \in Manifest

Intact(d) == d \in Digest /\ obj[d] = d

\* Mutant: the parents are not looked up.
VerifyNodeOk_NoParents(n) ==
    /\ Written(n)
    /\ man[n].id = n
    /\ Intact(n)
    /\ man[n].parents # {} => Intact(man[n].transform)

\* verify_node without --replay and --deny-retracted: a torn manifest is no
\* JSON; the objects of the node and of a derived node's transform must hash
\* to their names; the parents must have manifest files.
VerifyNodeOk(n) ==
    /\ Written(n)
    /\ man[n].id = n
    /\ Intact(n)
    /\ \A q \in man[n].parents : man[q] # Absent
    /\ man[n].parents # {} => Intact(man[n].transform)

\* verify_reachable pushes the parents of every manifest it can read.
Parents(n) == IF Written(n) THEN man[n].parents ELSE {}

ClosedUnderParents(S) == \A n \in S : Parents(n) \subseteq S

\* The nodes that verify_reachable(n) visits: the least set that holds n and
\* is closed under parents.
Reach(n) ==
    {m \in Artifact :
        \A S \in SUBSET Artifact : n \in S /\ ClosedUnderParents(S) => m \in S}

VerifyReachableOk(n) == \A m \in Reach(n) : VerifyNodeOk(m)

FsckManifests == \A n \in Artifact : man[n] # Absent => VerifyNodeOk(n)

\* A <d>.tmp is a stray file in objects/.
FsckObjects == \A d \in Digest : tmp[d] = Absent /\ obj[d] \in {Absent, d}

\* A torn ref is no node id.
FsckRefs ==
    \A r \in RefName :
        refs[r] # Absent => refs[r] \in Artifact /\ man[refs[r]] # Absent

FsckRetractions ==
    \A n \in Artifact :
        retr[n] # Absent =>
            /\ retr[n] \in Retraction
            /\ retr[n].retracts = n
            /\ man[n] # Absent
            /\ retr[n].superseded_by # Absent => man[retr[n].superseded_by] # Absent

FsckOk == FsckManifests /\ FsckObjects /\ FsckRefs /\ FsckRetractions

(***************************************************************************)
(* Safety                                                                  *)
(***************************************************************************)

\* An object, as soon as it has its name, holds the bytes with that digest.
\* This is what the copy to <d>.tmp and the rename in store_blob are for; it
\* holds across kills as long as one command runs at a time.
BlobsMatchNames == \A d \in Digest : obj[d] \in {Absent, d}

\* A <d>.tmp left by a killed ingest never lies beside the finished object,
\* so the next ingest of the same bytes reuses and removes it.
StrayTmpIsReused == \A d \in Digest : tmp[d] # Absent => obj[d] = Absent

\* What refs and retractions name has a manifest file, at any moment and
\* whatever was killed: the checks of set_ref and write_retraction are not
\* undone by anything that happens between the check and the write.
LinksResolve ==
    /\ \A r \in RefName : refs[r] \in Artifact => man[refs[r]] # Absent
    /\ \A n \in Artifact :
          retr[n] \in Retraction =>
              /\ retr[n].retracts = n
              /\ man[n] # Absent
              /\ retr[n].superseded_by # Absent => man[retr[n].superseded_by] # Absent

\* If the whole-store audit passes, so does the recursive audit of every
\* node: fsck looks at each manifest alone, and its check that the parents
\* have manifests is what makes that enough.
FsckCoversReach ==
    FsckOk => \A n \in Artifact : man[n] # Absent => VerifyReachableOk(n)

\* With at most two processes, a node that verifies goes on verifying: no later
\* command, and no command that was already running, changes anything the
\* verdict was based on.  Three ingests of the same bytes do: one creates
\* <d>.tmp again and another renames it over the object of the third
\* (three_writers.cfg).
VerifiedStaysVerified ==
    [][\A n \in Artifact : VerifyNodeOk(n) => VerifyNodeOk(n)']_vars

BlobHasWriter(d) ==
    /\ obj[d] = Torn => \E p \in Proc : fd[p] = "obj" /\ Blob(p) = d
    /\ tmp[d] = Torn => \E p \in Proc : fd[p] = "tmp" /\ Blob(p) = d

ManifestHasWriter(n) == man[n] = Torn => \E p \in Proc : pc[p] = "fill" /\ job[p].id = n

RetractionHasWriter(n) ==
    retr[n] = Torn => \E p \in Proc : pc[p] = "annotate" /\ job[p].retracts = n

RefHasWriter(r) == refs[r] = Torn => \E p \in Proc : pc[p] = "point" /\ job[p].name = r

\* While nothing is killed, a file whose bytes are not there yet has a
\* process that is going to write them: losing a race for an object, a
\* manifest, a retraction or a ref never leaves an incomplete file behind.
TornHasWriter ==
    crashes = 0 =>
        /\ \A d \in Digest : BlobHasWriter(d)
        /\ \A n \in Artifact : ManifestHasWriter(n) /\ RetractionHasWriter(n)
        /\ \A r \in RefName : RefHasWriter(r)

Quiescent == \A p \in Proc : pc[p] = "idle"

\* Whatever commands ran, in whatever interleaving and however many of them
\* failed, when all have ended fsck finds nothing wrong.  For this the caller
\* has to name only ingested parents, and nothing may be killed.
QuiescentClean == crashes = 0 /\ ParentsFirst /\ Quiescent => FsckOk

\* The node records form a DAG, every nonempty set of nodes has a member
\* without a parent in the set, if callers name only ingested parents; the code
\* records any, and an ingest that names its own digest is its own ancestor.
Acyclic ==
    \A S \in SUBSET Artifact :
        S # {} => \E n \in S : Parents(n) \cap S = {}

(***************************************************************************)
(* Refinement                                                              *)
(***************************************************************************)

PresentBlobs == {d \in Digest : obj[d] # Absent}
TakenIds == {n \in Artifact : man[n] # Absent}
NodeRecords == [n \in Artifact |-> IF Written(n) THEN man[n] ELSE Absent]
RetractionRecords ==
    [n \in Artifact |-> IF retr[n] \in Retraction THEN retr[n] ELSE Absent]

Ledger == INSTANCE AppendOnlyLedger WITH
    blobs <- PresentBlobs,
    taken <- TakenIds,
    records <- NodeRecords,
    retractions <- RetractionRecords

\* The store is an append-only ledger, under every interleaving of commands
\* and kills: no blob goes away, no id is taken twice, no record of a node or
\* of a retraction changes, and none is written before what it needs.
ImplementsLedger == Ledger!Spec

(***************************************************************************)
(* Liveness                                                                *)
(***************************************************************************)

\* A blob that was published before its bytes were written is completed,
\* unless a process is killed: the process that lost its temporary file to
\* another one's rename still writes through its open file.
TornBlobHeals == \A d \in Digest : obj[d] = Torn ~> obj[d] = d \/ crashes > 0
=============================================================================
