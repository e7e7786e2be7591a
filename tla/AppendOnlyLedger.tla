-------------------------- MODULE AppendOnlyLedger --------------------------
(***************************************************************************)
(* What the kernel promises of the store (docs/SPEC.md, "Store layout"):   *)
(* blobs, node records and retraction records are only ever added, each id *)
(* is taken once, a record is final when it is there, and it is there only *)
(* after the blobs it names.                                               *)
(***************************************************************************)
CONSTANTS Artifact, Script, RootTransform, Absent

VARIABLES
    blobs,        \* digests that have an object
    taken,        \* ids that have a node manifest, complete or not
    records,      \* the complete node record of each id, or Absent
    retractions   \* the complete retraction record of each id, or Absent

vars == <<blobs, taken, records, retractions>>

Record == [id : Artifact, parents : SUBSET Artifact,
           transform : Script \cup {RootTransform}]
Retraction == [retracts : Artifact, superseded_by : Artifact \cup {Absent}]

Init ==
    /\ blobs = {}
    /\ taken = {}
    /\ records = [n \in Artifact |-> Absent]
    /\ retractions = [n \in Artifact |-> Absent]

AddBlob(d) ==
    /\ blobs' = blobs \cup {d}
    /\ UNCHANGED <<taken, records, retractions>>

TakeId(n) ==
    /\ n \in blobs \ taken
    /\ taken' = taken \cup {n}
    /\ UNCHANGED <<blobs, records, retractions>>

AddRecord(m) ==
    /\ m.id \in taken
    /\ records[m.id] = Absent
    /\ {m.id, m.transform} \subseteq blobs \cup {RootTransform}
    /\ m.parents # {} => m.transform # RootTransform
    /\ records' = [records EXCEPT ![m.id] = m]
    /\ UNCHANGED <<blobs, taken, retractions>>

AddRetraction(r) ==
    /\ {r.retracts, r.superseded_by} \subseteq taken \cup {Absent}
    /\ retractions[r.retracts] = Absent
    /\ retractions' = [retractions EXCEPT ![r.retracts] = r]
    /\ UNCHANGED <<blobs, taken, records>>

Next ==
    \/ \E d \in Artifact \cup Script : AddBlob(d)
    \/ \E n \in Artifact : TakeId(n)
    \/ \E m \in Record : AddRecord(m)
    \/ \E r \in Retraction : AddRetraction(r)

Spec == Init /\ [][Next]_vars
=============================================================================
