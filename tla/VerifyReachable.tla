--------------------------- MODULE VerifyReachable ---------------------------
(***************************************************************************)
(* `ledger verify-reachable` (verify_reachable, the verify_node it calls,  *)
(* and with --replay the replay_node that this calls): a depth-first walk  *)
(* over the parents of one node, on a store to which other processes add   *)
(* while it is under way.  Every file the audit reads is a step of its own.*)
(*                                                                         *)
(* The store is what the audit tells apart of it: which manifests can be   *)
(* read and what they say, which objects hash to their names and which     *)
(* hold other bytes, which nodes have a retraction file.  It may have been *)
(* damaged before the walk starts; while it runs, other processes only add *)
(* to it.  AuditedStore composes the walk with the commands that write,    *)
(* and shows that this is all they do, when no more than two of them run   *)
(* at a time; where they store the same bytes at the same time, an object  *)
(* may hold other bytes until the second of them has ended.                *)
(*                                                                         *)
(* Replay, the module, has the steps of replay_node in their work          *)
(* directory; here it is what it reads of the store and what it answers.   *)
(***************************************************************************)
EXTENDS Naturals, Sequences

CONSTANTS
    Node,        \* node ids
    Script,      \* digests of transform files
    Root,        \* the id that the audit is asked about
    ParentLists, \* the parent lists that manifests may hold
    Retractable, \* the nodes that may have a retraction file
    Cases,       \* options of the audit, and bounds of the store it meets
    Reproduces(_, _), \* the transform in a record, run on the parents' own
                      \* bytes, writes the bytes of the node
    Absent,      \* no manifest file
    Torn         \* a manifest file that is no JSON

Digest == Node \cup Script
Record == [parents : ParentLists, transform : Script]

\* deny, replay: --deny-retracted, --replay.  busy: others add to the store
\* meanwhile; race: and store the same bytes at the same time.  ids, lists,
\* damaged: bounds, the nodes with manifests, their parent lists, and the
\* objects that may hold other bytes.
Options == [deny : BOOLEAN, replay : BOOLEAN, busy : BOOLEAN, race : BOOLEAN,
            ids : SUBSET Node, lists : SUBSET ParentLists, damaged : SUBSET Digest]

ASSUME AuditAssumption ==
    /\ Root \in Node
    /\ ParentLists \subseteq Seq(Node)
    /\ Absent # Torn
    /\ {Absent, Torn} \cap Record = {}
    /\ Retractable \subseteq Node
    /\ Cases \subseteq Options
    /\ \A n \in Node, m \in Record : m.parents # <<>> => Reproduces(n, m) \in BOOLEAN

VARIABLES
    opt,        \* how the audit was called
    man,        \* man[n]: the manifest of n
    intact,     \* digests whose objects exist and hash to their names
    corrupt,    \* digests whose objects exist and do not
    retracted,  \* nodes with a retraction file
    pc,         \* what the audit does next
    stack,      \* ids still to visit, the next one last
    seen,       \* ids visited
    nid,        \* the id under visit
    doc,        \* its manifest, as verify_node read it
    input,      \* what replay_node has found of the parents' objects
    bad,        \* errors # [] in verify_node
    failed,     \* errors # [] in verify_reachable
    warned,     \* nodes reported as retracted in a warning
    before      \* the store's condition when the audit started (history)

store == <<man, intact, corrupt, retracted>>
walk == <<pc, stack, seen, nid, doc, input, bad, failed, warned>>
vars == <<opt, store, walk, before>>

Elems(s) == {s[i] : i \in 1..Len(s)}

(***************************************************************************)
(* The store as it is at one moment                                        *)
(***************************************************************************)

Readable(n) == man[n] \in Record
Parents(n) == IF Readable(n) THEN Elems(man[n].parents) ELSE {}

\* What verify_node(n) requires: the object and, of a derived node, the
\* transform's object hash to their names, and the parents have manifests.
NodeOk(n) ==
    /\ Readable(n)
    /\ n \in intact
    /\ \A p \in Parents(n) : man[p] # Absent
    /\ Parents(n) # {} => man[n].transform \in intact

Closed(S) == \A n \in S : Parents(n) \subseteq S

\* The least set that holds n and is closed under parents.
Reach(n) == {m \in Node : \A S \in SUBSET Node : n \in S /\ Closed(S) => m \in S}

\* Of a derived node: its transform reproduces it from what its parents are.
Derives(n) == Parents(n) # {} => Reproduces(n, man[n])

ReachOk == \A n \in Reach(Root) : NodeOk(n) /\ (opt.replay => Derives(n))

TypeOK ==
    /\ opt \in Options
    /\ man \in [Node -> Record \cup {Absent, Torn}]
    /\ intact \in SUBSET Digest
    /\ corrupt \in SUBSET (Digest \ intact)
    /\ retracted \in SUBSET Retractable
    /\ pc \in {"pop", "read", "object", "parents", "transform", "retraction",
               "replay", "push", "done"}
    /\ stack \in Seq(Node)
    /\ seen \in SUBSET Node
    /\ nid \in Node
    /\ doc \in Record \cup {Absent}
    /\ pc \in {"object", "parents", "transform", "retraction", "replay"} => doc \in Record
    /\ input \in Seq({"intact", "corrupt", "missing"})
    /\ bad \in BOOLEAN
    /\ failed \in BOOLEAN
    /\ warned \in SUBSET Node
    /\ before \in [ok : BOOLEAN, retracted : SUBSET Node]

\* Within the bounds of the case, any store.
Records == [parents : opt.lists, transform : Script]
Objects == opt.ids \cup Script

Init ==
    /\ opt \in Cases
    /\ \E f \in [opt.ids -> Records \cup {Absent, Torn}] :
          man = [n \in Node |-> IF n \in opt.ids THEN f[n] ELSE Absent]
    /\ intact \in SUBSET Objects
    /\ corrupt \in SUBSET (opt.damaged \ intact)
    /\ retracted \in SUBSET Retractable
    /\ pc = "pop"
    /\ stack = <<Root>>
    /\ seen = {}
    /\ nid = Root
    /\ doc = Absent
    /\ input = <<>>
    /\ bad = FALSE
    /\ failed = FALSE
    /\ warned = {}
    /\ before = [ok |-> ReachOk, retracted |-> retracted]

(***************************************************************************)
(* The walk                                                                *)
(***************************************************************************)

Goto(l) == pc' = l

\* Mutant: nid = stack[-1], and an id already seen stays on the stack.
Pop_Peek ==
    /\ pc = "pop"
    /\ stack # <<>>
    /\ IF stack[Len(stack)] \in seen
       THEN UNCHANGED <<pc, stack, seen, nid>>
       ELSE /\ nid' = stack[Len(stack)]
            /\ seen' = seen \cup {stack[Len(stack)]}
            /\ stack' = SubSeq(stack, 1, Len(stack) - 1)
            /\ Goto("read")
    /\ UNCHANGED <<opt, store, doc, input, bad, failed, warned, before>>

\* nid = stack.pop(); an id already seen is passed over.
Pop ==
    /\ pc = "pop"
    /\ stack # <<>>
    /\ stack' = SubSeq(stack, 1, Len(stack) - 1)
    /\ IF stack[Len(stack)] \in seen
       THEN UNCHANGED <<pc, seen, nid>>
       ELSE /\ nid' = stack[Len(stack)]
            /\ seen' = seen \cup {stack[Len(stack)]}
            /\ Goto("read")
    /\ UNCHANGED <<opt, store, doc, input, bad, failed, warned, before>>

Finish ==
    /\ pc = "pop"
    /\ stack = <<>>
    /\ Goto("done")
    /\ UNCHANGED <<opt, store, stack, seen, nid, doc, input, bad, failed, warned, before>>

\* Mutant: only a missing manifest ends the visit, not one that is no JSON.
ReadManifest_TornOk ==
    /\ pc = "read"
    /\ IF man[nid] # Absent
       THEN doc' = man[nid] /\ Goto("object") /\ UNCHANGED bad
       ELSE bad' = TRUE /\ Goto("push") /\ UNCHANGED doc
    /\ UNCHANGED <<opt, store, stack, seen, nid, input, failed, warned, before>>

\* Without a manifest that can be read verify_node returns at once.
ReadManifest ==
    /\ pc = "read"
    /\ IF Readable(nid)
       THEN doc' = man[nid] /\ Goto("object") /\ UNCHANGED bad
       ELSE bad' = TRUE /\ Goto("push") /\ UNCHANGED doc
    /\ UNCHANGED <<opt, store, stack, seen, nid, input, failed, warned, before>>

\* Any other check that fails adds an error, and the next check is made.
Check(l, ok, next) ==
    /\ pc = l
    /\ bad' = (bad \/ ~ok)
    /\ Goto(next)
    /\ UNCHANGED <<opt, store, stack, seen, nid, doc, input, failed, warned, before>>

CheckObject == Check("object", nid \in intact, "parents")

CheckParents ==
    Check("parents", \A p \in Elems(doc.parents) : man[p] # Absent, "transform")

\* Mutant: a root's transform is looked at, too.
CheckTransform_Roots == Check("transform", doc.transform \in intact, "retraction")

CheckTransform ==
    Check("transform", doc.parents # <<>> => doc.transform \in intact, "retraction")

\* Mutant: only the node that the audit was asked about is looked up.
CheckRetraction_RootOnly ==
    LET hit == nid = Root /\ nid \in retracted
    IN  /\ pc = "retraction"
        /\ bad' = (bad \/ (opt.deny /\ hit))
        /\ warned' = IF hit /\ ~opt.deny THEN warned \cup {nid} ELSE warned
        /\ Goto(IF opt.replay /\ ~bad' THEN "replay" ELSE "push")
        /\ UNCHANGED <<opt, store, stack, seen, nid, doc, input, failed, before>>

\* Mutant: a node with errors is replayed all the same.
CheckRetraction_ReplayAll ==
    /\ pc = "retraction"
    /\ bad' = (bad \/ (opt.deny /\ nid \in retracted))
    /\ warned' = IF ~opt.deny /\ nid \in retracted THEN warned \cup {nid} ELSE warned
    /\ Goto(IF opt.replay THEN "replay" ELSE "push")
    /\ UNCHANGED <<opt, store, stack, seen, nid, doc, input, failed, before>>

\* The last of the checks; a node without errors may then be replayed.
CheckRetraction ==
    /\ pc = "retraction"
    /\ bad' = (bad \/ (opt.deny /\ nid \in retracted))
    /\ warned' = IF ~opt.deny /\ nid \in retracted THEN warned \cup {nid} ELSE warned
    /\ Goto(IF opt.replay /\ ~bad' THEN "replay" ELSE "push")
    /\ UNCHANGED <<opt, store, stack, seen, nid, doc, input, failed, before>>

\* replay_node copies one parent after the other, if there is an object.
CopyParent ==
    /\ pc = "replay"
    /\ Len(input) < Len(doc.parents)
    /\ input' = LET p == doc.parents[Len(input) + 1]
                IN  Append(input, IF p \in intact THEN "intact"
                                  ELSE IF p \in corrupt THEN "corrupt" ELSE "missing")
    /\ UNCHANGED <<opt, store, pc, stack, seen, nid, doc, bad, failed, warned, before>>

\* Mutant: a parent that is missing is left out of the inputs.
ReplayAnswers_Lenient ==
    IF doc.parents = <<>> THEN {TRUE}
    ELSE IF Elems(input) # {"intact"} THEN BOOLEAN
    ELSE {Reproduces(nid, doc)}

\* A root has nothing to replay; a missing parent is an error; what the
\* transform makes of other bytes than the parents' is anything.
ReplayAnswers ==
    IF doc.parents = <<>> THEN {TRUE}
    ELSE IF "missing" \in Elems(input) THEN {FALSE}
    ELSE IF "corrupt" \in Elems(input) THEN BOOLEAN
    ELSE {Reproduces(nid, doc)}

EndReplay ==
    /\ pc = "replay"
    /\ Len(input) = Len(doc.parents)
    /\ \E ok \in ReplayAnswers : bad' = ~ok
    /\ input' = <<>>
    /\ Goto("push")
    /\ UNCHANGED <<opt, store, stack, seen, nid, doc, failed, warned, before>>

\* Mutant: only the first parent is followed.
PushParents_First ==
    /\ pc = "push"
    /\ failed' = (failed \/ bad \/ ~Readable(nid))
    /\ bad' = FALSE
    /\ stack' = IF Readable(nid) /\ man[nid].parents # <<>>
                THEN Append(stack, Head(man[nid].parents)) ELSE stack
    /\ Goto("pop")
    /\ UNCHANGED <<opt, store, seen, nid, doc, input, warned, before>>

\* verify_reachable collects the errors of verify_node and reads the manifest
\* again, for the parents to push.
PushParents ==
    /\ pc = "push"
    /\ failed' = (failed \/ bad \/ ~Readable(nid))
    /\ bad' = FALSE
    /\ stack' = IF Readable(nid) THEN stack \o man[nid].parents ELSE stack
    /\ Goto("pop")
    /\ UNCHANGED <<opt, store, seen, nid, doc, input, warned, before>>

Audit ==
    \/ Pop \/ Finish \/ ReadManifest \/ CheckObject \/ CheckParents
    \/ CheckTransform \/ CheckRetraction \/ CopyParent \/ EndReplay \/ PushParents

(***************************************************************************)
(* What other processes do meanwhile                                       *)
(***************************************************************************)

\* An object is published, or replaced by one with its own bytes.
StoreBlob(d) ==
    /\ opt.busy
    /\ d \in corrupt => opt.race
    /\ intact' = intact \cup {d}
    /\ corrupt' = corrupt \ {d}
    /\ UNCHANGED <<opt, man, retracted, walk, before>>

\* The file that another process has just emptied is published.
StoreTornBlob(d) ==
    /\ opt.busy /\ opt.race
    /\ d \in opt.damaged \ intact
    /\ corrupt' = corrupt \cup {d}
    /\ UNCHANGED <<opt, man, intact, retracted, walk, before>>

CreateManifest(n) ==
    /\ opt.busy
    /\ man[n] = Absent
    /\ man' = [man EXCEPT ![n] = Torn]
    /\ UNCHANGED <<opt, intact, corrupt, retracted, walk, before>>

FillManifest(n, r) ==
    /\ opt.busy
    /\ man[n] = Torn
    /\ man' = [man EXCEPT ![n] = r]
    /\ UNCHANGED <<opt, intact, corrupt, retracted, walk, before>>

Retract(n) ==
    /\ opt.busy
    /\ n \in Retractable
    /\ man[n] # Absent
    /\ retracted' = retracted \cup {n}
    /\ UNCHANGED <<opt, man, intact, corrupt, walk, before>>

Write ==
    \/ \E d \in Objects : StoreBlob(d) \/ StoreTornBlob(d)
    \/ \E n \in opt.ids : CreateManifest(n) \/ Retract(n)
    \/ \E n \in opt.ids, r \in Records : FillManifest(n, r)

Next == Audit \/ Write

Spec == Init /\ [][Next]_vars

\* The audit is one process that never waits, but for transforms, which are
\* taken to end.
FairSpec == Spec /\ WF_vars(Audit)

(***************************************************************************)
(* Properties                                                              *)
(***************************************************************************)

\* "OK" is right: at the moment it is reported, every node reachable from
\* Root verifies, although each was looked at at another time.  With --replay
\* the derived ones are reproduced from their parents, although a parent's
\* own bytes are looked at after the replays that use them; unless that
\* parent was being stored by two processes.
VerdictSound ==
    pc = "done" /\ ~failed =>
        \A n \in Reach(Root) :
            NodeOk(n) /\ (opt.replay /\ ~opt.race => Derives(n))

\* An error is right: if everything reachable verified when the audit
\* started, none is reported, whatever is being written meanwhile, unless a
\* retraction is to count as an error and there is one.
NoFalseAlarm ==
    before.ok /\ failed => opt.deny /\ Reach(Root) \cap retracted # {}

\* No retraction is missed: after a verdict of OK every reachable node that
\* was retracted when the audit started has been reported in a warning, and
\* under --deny-retracted there was none.
RetractionsReported ==
    pc = "done" /\ ~failed =>
        Reach(Root) \cap before.retracted \subseteq (IF opt.deny THEN {} ELSE warned)

\* Only a transform whose bytes have their digest is run, and only for a node
\* that passed every check, also of what was read long before.
RunsOnlyVerified ==
    pc = "replay" => /\ NodeOk(nid)
                     /\ opt.deny => nid \notin before.retracted

\* The walk ends, on cyclic parents too, and while parents are being added.
Terminates == <>(pc = "done")
=============================================================================
