---------------------------- MODULE LedgerStore ----------------------------
(***************************************************************************)
(* The writing half of the ledger kernel: the files under ledger/ and the  *)
(* three commands that write them, `ledger ingest`, `ledger retract` and   *)
(* `ledger refs set`, run by any number of operating-system processes at   *)
(* the same time (ADR-015 dropped the session lock).  One action is one    *)
(* file-system effect, so every interleaving of two commands and a kill    *)
(* between any two effects is a behaviour.                                 *)
(*                                                                         *)
(* Bytes are represented by their sha256: a file holds either the bytes    *)
(* with some digest of Digest, or Torn, the bytes of a file that has been  *)
(* opened for writing and not yet written.                                 *)
(***************************************************************************)
EXTENDS Naturals, FiniteSets

CONSTANTS
    Proc,           \* operating-system processes that run ledger commands
    Artifact,       \* digests of the artifacts that may be ingested
    Script,         \* digests of the transform files that may be given
    RefName,        \* names under ledger/refs/
    RootTransform,  \* ROOT_TRANSFORM_DIGEST, the sentinel of root nodes
    Absent,         \* no such file; also "no job" and "no successor"
    Torn,           \* a file created or truncated, its bytes not yet written
    Commands,       \* the commands that processes start in this instance
    ParentsFirst,   \* TRUE: --parent is given only ids of ingested nodes
    EditedSource,   \* TRUE: the source file may change during the ingest
    MaxCrashes      \* bound on the number of kills

Digest == Artifact \cup Script

\* The part of Node.to_dict that the kernel reads back.
Manifest == [id : Artifact, parents : SUBSET Artifact,
             transform : Script \cup {RootTransform}]

\* The part of Retraction.to_dict that the kernel reads back.
Retraction == [retracts : Artifact, superseded_by : Artifact \cup {Absent}]

\* What a process was started with: `ledger ingest` with the arguments that
\* its record will hold, `ledger retract`, `ledger refs set`.
RefJob == [name : RefName, target : Artifact]
Job == Manifest \cup Retraction \cup RefJob

ASSUME StoreAssumption ==
    /\ Absent # Torn
    /\ {Absent, Torn, RootTransform} \cap Digest = {}
    /\ {Absent, Torn} \cap Manifest = {}
    /\ {Absent, Torn} \cap Retraction = {}
    /\ Absent \notin Job
    /\ Commands \subseteq {"ingest", "retract", "set_ref"}
    /\ ParentsFirst \in BOOLEAN
    /\ EditedSource \in BOOLEAN
    /\ MaxCrashes \in Nat

VARIABLES
    obj,      \* obj[d]: ledger/objects/<d[:2]>/<d>
    tmp,      \* tmp[d]: ledger/objects/<d[:2]>/<d>.tmp, one name for all writers
    man,      \* man[n]: ledger/nodes/<n>.json
    retr,     \* retr[n]: ledger/retractions/<n>.json
    refs,     \* refs[r]: ledger/refs/<r>
    pc,       \* the next effect of each process
    job,      \* the arguments of the command each process runs
    stage,    \* which of its two blobs an ingest is storing
    fd,       \* where the file is that a process opened as <d>.tmp
    crashes   \* kills so far

disk == <<obj, tmp, man, retr, refs>>
control == <<pc, job, stage, fd>>
vars == <<disk, control, crashes>>

StorePC == {"check", "open", "write", "rename"}
IngestPC == StorePC \cup {"create", "fill"}
PC == IngestPC \cup {"idle", "mark", "annotate", "aim", "point"}

TypeOK ==
    /\ obj \in [Digest -> Digest \cup {Absent, Torn}]
    /\ tmp \in [Digest -> Digest \cup {Absent, Torn}]
    /\ man \in [Artifact -> Manifest \cup {Absent, Torn}]
    /\ retr \in [Artifact -> Retraction \cup {Absent, Torn}]
    /\ refs \in [RefName -> Artifact \cup {Absent, Torn}]
    /\ pc \in [Proc -> PC]
    /\ job \in [Proc -> Job \cup {Absent}]
    /\ stage \in [Proc -> {"artifact", "transform"}]
    /\ fd \in [Proc -> {"none", "tmp", "obj", "orphan"}]
    /\ crashes \in 0..MaxCrashes
    /\ \A p \in Proc :
          /\ pc[p] \in IngestPC => job[p] \in Manifest
          /\ pc[p] \in {"mark", "annotate"} => job[p] \in Retraction
          /\ pc[p] \in {"aim", "point"} => job[p] \in RefJob
          /\ stage[p] = "transform" =>
                pc[p] \in IngestPC /\ job[p].transform # RootTransform
          /\ fd[p] = "none" <=> pc[p] # "write"

Init ==
    /\ obj = [d \in Digest |-> Absent]
    /\ tmp = [d \in Digest |-> Absent]
    /\ man = [n \in Artifact |-> Absent]
    /\ retr = [n \in Artifact |-> Absent]
    /\ refs = [r \in RefName |-> Absent]
    /\ pc = [p \in Proc |-> "idle"]
    /\ job = [p \in Proc |-> Absent]
    /\ stage = [p \in Proc |-> "artifact"]
    /\ fd = [p \in Proc |-> "none"]
    /\ crashes = 0

\* The process ends, with status 0, with SystemExit or with a traceback.
Exit(p) ==
    /\ pc' = [pc EXCEPT ![p] = "idle"]
    /\ job' = [job EXCEPT ![p] = Absent]
    /\ stage' = [stage EXCEPT ![p] = "artifact"]
    /\ fd' = [fd EXCEPT ![p] = "none"]

Goto(p, l) ==
    /\ pc' = [pc EXCEPT ![p] = l]
    /\ UNCHANGED <<job, stage, fd>>

(***************************************************************************)
(* ledger ingest: store the artifact's blob, store the transform's blob,   *)
(* create the manifest.                                                    *)
(***************************************************************************)

\* A parent list needs a transform file (ADR-004).  The parents themselves
\* are not looked up.
StartIngest(p) ==
    /\ "ingest" \in Commands
    /\ pc[p] = "idle"
    /\ \E j \in Manifest :
          /\ j.parents # {} => j.transform # RootTransform
          /\ ParentsFirst => \A q \in j.parents : man[q] \in Manifest
          /\ job' = [job EXCEPT ![p] = j]
    /\ pc' = [pc EXCEPT ![p] = "check"]
    /\ UNCHANGED <<disk, stage, fd, crashes>>

\* The digest that process p is storing.
Blob(p) == IF stage[p] = "artifact" THEN job[p].id ELSE job[p].transform

\* Mutant: the transform file is hashed for the record and not stored.
Stored_SkipTransform(p) ==
    pc' = [pc EXCEPT ![p] = "create"] /\ UNCHANGED stage

\* store_blob has returned.
Stored(p) ==
    IF stage[p] = "artifact" /\ job[p].transform # RootTransform
    THEN /\ stage' = [stage EXCEPT ![p] = "transform"]
         /\ pc' = [pc EXCEPT ![p] = "check"]
    ELSE /\ pc' = [pc EXCEPT ![p] = "create"]
         /\ UNCHANGED stage

\* dst exists: its bytes are hashed, and a blob that does not hash to its
\* name ends the command with RuntimeError.
FindBlob(p) ==
    /\ pc[p] = "check"
    /\ obj[Blob(p)] # Absent
    /\ IF obj[Blob(p)] = Blob(p)
       THEN Stored(p) /\ UNCHANGED <<job, fd>>
       ELSE Exit(p)
    /\ UNCHANGED <<disk, crashes>>

\* Mutant: the blob is written without a look at whether it is there.
MissBlob_NoExistsCheck(p) ==
    /\ pc[p] = "check"
    /\ Goto(p, "open")
    /\ UNCHANGED <<disk, crashes>>

MissBlob(p) ==
    /\ pc[p] = "check"
    /\ obj[Blob(p)] = Absent
    /\ Goto(p, "open")
    /\ UNCHANGED <<disk, crashes>>

\* Mutant: the blob is written in place instead of next to it.
OpenTmp_InPlace(p) ==
    /\ pc[p] = "open"
    /\ obj' = [obj EXCEPT ![Blob(p)] = Torn]
    /\ fd' = [fd EXCEPT ![p] = "obj"]
    /\ pc' = [pc EXCEPT ![p] = "write"]
    /\ UNCHANGED <<tmp, man, retr, refs, job, stage, crashes>>

\* open(tmp, "wb") creates the file or empties the one that is there; a
\* process that has it open already now shares the file with p.
OpenTmp(p) ==
    /\ pc[p] = "open"
    /\ tmp' = [tmp EXCEPT ![Blob(p)] = Torn]
    /\ fd' = [fd EXCEPT ![p] = "tmp"]
    /\ pc' = [pc EXCEPT ![p] = "write"]
    /\ UNCHANGED <<obj, man, retr, refs, job, stage, crashes>>

\* src is read a second time, after the read that computed the digest.
SourceBytes(d) == IF EditedSource THEN Digest ELSE {d}

\* Mutant: a process whose temporary file was renamed by another one gives up
\* before it has written.
WriteTmp_GivesUp(p) ==
    /\ pc[p] = "write"
    /\ tmp' = IF fd[p] = "tmp" THEN [tmp EXCEPT ![Blob(p)] = Blob(p)] ELSE tmp
    /\ fd' = [fd EXCEPT ![p] = "none"]
    /\ pc' = [pc EXCEPT ![p] = "rename"]
    /\ UNCHANGED <<obj, man, retr, refs, job, stage, crashes>>

\* The bytes go to the open file, whatever name it has by now.
WriteTmp(p) ==
    /\ pc[p] = "write"
    /\ \E b \in SourceBytes(Blob(p)) :
          /\ tmp' = IF fd[p] = "tmp" THEN [tmp EXCEPT ![Blob(p)] = b] ELSE tmp
          /\ obj' = IF fd[p] = "obj" THEN [obj EXCEPT ![Blob(p)] = b] ELSE obj
    /\ fd' = [fd EXCEPT ![p] = "none"]
    /\ pc' = [pc EXCEPT ![p] = "rename"]
    /\ UNCHANGED <<man, retr, refs, job, stage, crashes>>

\* Where an open file is after its name <d>.tmp is moved to <d>.
Renamed(place) ==
    CASE place = "tmp" -> "obj"
      [] place = "obj" -> "orphan"
      [] OTHER         -> place

\* tmp.replace(dst): the file now called <d>.tmp, whoever wrote it, becomes
\* <d>.  Without such a file FileNotFoundError ends the command.
RenameTmp(p) ==
    /\ pc[p] = "rename"
    /\ IF tmp[Blob(p)] = Absent
       THEN Exit(p) /\ UNCHANGED disk
       ELSE /\ obj' = [obj EXCEPT ![Blob(p)] = tmp[Blob(p)]]
            /\ tmp' = [tmp EXCEPT ![Blob(p)] = Absent]
            /\ fd' = [q \in Proc |-> IF fd[q] # "none" /\ Blob(q) = Blob(p)
                                     THEN Renamed(fd[q]) ELSE fd[q]]
            /\ Stored(p)
            /\ UNCHANGED <<man, retr, refs, job>>
    /\ UNCHANGED crashes

\* The exits of cmd_ingest that come after a blob has been stored: there is
\* no such transform file, --params-json is no JSON object, the manifest does
\* not validate against the pinned schema.
RefuseIngest(p) ==
    /\ \/ pc[p] = "check" /\ stage[p] = "transform"
       \/ pc[p] = "create"
    /\ Exit(p)
    /\ UNCHANGED <<disk, crashes>>

\* Mutant: open(path, "w").
CreateManifest_Overwrite(p) ==
    /\ pc[p] = "create"
    /\ man' = [man EXCEPT ![job[p].id] = Torn]
    /\ Goto(p, "fill")
    /\ UNCHANGED <<obj, tmp, retr, refs, crashes>>

\* open(path, "x") of write_node_manifest.
CreateManifest(p) ==
    /\ pc[p] = "create"
    /\ IF man[job[p].id] = Absent
       THEN man' = [man EXCEPT ![job[p].id] = Torn] /\ Goto(p, "fill")
       ELSE Exit(p) /\ UNCHANGED man
    /\ UNCHANGED <<obj, tmp, retr, refs, crashes>>

\* f.write(txt) of write_node_manifest, and the command's success.
FillManifest(p) ==
    /\ pc[p] = "fill"
    /\ man' = [man EXCEPT ![job[p].id] = job[p]]
    /\ Exit(p)
    /\ UNCHANGED <<obj, tmp, retr, refs, crashes>>

(***************************************************************************)
(* ledger retract                                                          *)
(***************************************************************************)

\* write_retraction finds the node's manifest and the successor's, if any.
StartRetract(p) ==
    /\ "retract" \in Commands
    /\ pc[p] = "idle"
    /\ \E j \in Retraction :
          /\ man[j.retracts] # Absent
          /\ j.superseded_by # Absent => man[j.superseded_by] # Absent
          /\ job' = [job EXCEPT ![p] = j]
    /\ pc' = [pc EXCEPT ![p] = "mark"]
    /\ UNCHANGED <<disk, stage, fd, crashes>>

\* open(path, "x") of write_retraction.
CreateRetraction(p) ==
    /\ pc[p] = "mark"
    /\ IF retr[job[p].retracts] = Absent
       THEN retr' = [retr EXCEPT ![job[p].retracts] = Torn] /\ Goto(p, "annotate")
       ELSE Exit(p) /\ UNCHANGED retr
    /\ UNCHANGED <<obj, tmp, man, refs, crashes>>

FillRetraction(p) ==
    /\ pc[p] = "annotate"
    /\ retr' = [retr EXCEPT ![job[p].retracts] = job[p]]
    /\ Exit(p)
    /\ UNCHANGED <<obj, tmp, man, refs, crashes>>

(***************************************************************************)
(* ledger refs set                                                         *)
(***************************************************************************)

\* Mutant: the target is not looked up.
StartSetRef_Unchecked(p) ==
    /\ "set_ref" \in Commands
    /\ pc[p] = "idle"
    /\ \E j \in RefJob : job' = [job EXCEPT ![p] = j]
    /\ pc' = [pc EXCEPT ![p] = "aim"]
    /\ UNCHANGED <<disk, stage, fd, crashes>>

\* set_ref refuses a target without a manifest file.
StartSetRef(p) ==
    /\ "set_ref" \in Commands
    /\ pc[p] = "idle"
    /\ \E j \in RefJob :
          /\ man[j.target] # Absent
          /\ job' = [job EXCEPT ![p] = j]
    /\ pc' = [pc EXCEPT ![p] = "aim"]
    /\ UNCHANGED <<disk, stage, fd, crashes>>

\* Path.write_text empties the file ...
TruncateRef(p) ==
    /\ pc[p] = "aim"
    /\ refs' = [refs EXCEPT ![job[p].name] = Torn]
    /\ Goto(p, "point")
    /\ UNCHANGED <<obj, tmp, man, retr, crashes>>

\* Mutant: the ref is given its own name.
WriteRef_Name(p) ==
    /\ pc[p] = "point"
    /\ refs' = [refs EXCEPT ![job[p].name] = job[p].name]
    /\ Exit(p)
    /\ UNCHANGED <<obj, tmp, man, retr, crashes>>

\* ... and then writes it.
WriteRef(p) ==
    /\ pc[p] = "point"
    /\ refs' = [refs EXCEPT ![job[p].name] = job[p].target]
    /\ Exit(p)
    /\ UNCHANGED <<obj, tmp, man, retr, crashes>>

(***************************************************************************)
(* The system                                                              *)
(***************************************************************************)

\* The process is killed: its files are closed, what it wrote stays.
Crash(p) ==
    /\ pc[p] # "idle"
    /\ crashes < MaxCrashes
    /\ crashes' = crashes + 1
    /\ Exit(p)
    /\ UNCHANGED disk

Start(p) == StartIngest(p) \/ StartRetract(p) \/ StartSetRef(p)

\* The next effect of a running command.
Step(p) ==
    \/ FindBlob(p) \/ MissBlob(p) \/ OpenTmp(p) \/ WriteTmp(p) \/ RenameTmp(p)
    \/ RefuseIngest(p) \/ CreateManifest(p) \/ FillManifest(p)
    \/ CreateRetraction(p) \/ FillRetraction(p)
    \/ TruncateRef(p) \/ WriteRef(p)

Next == \E p \in Proc : Start(p) \/ Step(p) \/ Crash(p)

Spec == Init /\ [][Next]_vars

\* A process that is running a command and is not killed is scheduled.
FairSpec == Spec /\ \A p \in Proc : WF_vars(Step(p))
=============================================================================
