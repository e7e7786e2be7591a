-------------------------------- MODULE Replay --------------------------------
(***************************************************************************)
(* Derivation replay (src/ledger/replay.py, `ledger replay`): the inputs   *)
(* of a derived node are laid out in a work directory, its transform is    *)
(* run there, and what it leaves in out.bin must hash to the node's id.    *)
(*                                                                         *)
(* Several replays run at a time, each in a temporary directory of its own *)
(* or, with --workdir, in one that other replays use before, after or at   *)
(* the same time.  Objects may hold other bytes than their names promise;  *)
(* other commands store blobs meanwhile, and while several of them store   *)
(* the same bytes, the object may be torn for some time.                   *)
(*                                                                         *)
(* Bytes are named after what they are: the bytes that hash to a digest    *)
(* are that digest, all others are Junk.  The transform is external: it is *)
(* a function of its own bytes, the parameters and the parents' bytes in   *)
(* the order of parents.json, and it may fail at any time.                 *)
(***************************************************************************)
EXTENDS Naturals, Sequences

CONSTANTS
    Proc,           \* replays; one process may run one after another
    Node,           \* node ids
    Blob,           \* digests of transforms and of environment descriptions
    Junk,           \* bytes that hash to none of these
    Partial,        \* the bytes of a file that is not complete
    Params,         \* contents of params.json
    ParentLists,    \* the parent lists that manifests hold
    Ledgers,        \* the manifests and objects of the ledgers considered
    Apply(_, _, _), \* what a transform writes, given parameters and inputs
    Shared,         \* directories given as --workdir
    Keep,           \* the replays that are called with --keep
    Racing,         \* digests that several commands store at the same time
    Absent,         \* no such file
    MaxKills        \* bound: replays that are killed

Digest == Node \cup Blob
Bytes == Digest \cup Junk
Dir == Proc \cup Shared   \* the temporary directory of p is called p

Record == [parents : ParentLists, transform : Blob, params : Params,
           env : Blob \cup {Absent}]

\* What the transform can be given as the parents' bytes.
InputLists == UNION {[DOMAIN l -> Bytes] : l \in ParentLists}

ASSUME ReplayAssumption ==
    /\ Absent \notin Bytes
    /\ Partial \in Junk
    /\ Node # {} /\ Node \cap Junk = {}
    /\ Proc \cap Shared = {}
    /\ Keep \subseteq Proc
    /\ Racing \subseteq Digest
    /\ ParentLists \subseteq Seq(Node)
    /\ <<>> \in ParentLists
    /\ Ledgers \subseteq [man : [Node -> Record], obj : [Digest -> Bytes \cup {Absent}]]
    /\ \A s \in Bytes, x \in Params, l \in InputLists :
          Apply(s, x, l) \in Bytes \cup {Absent}
    /\ MaxKills \in Nat

VARIABLES
    man,      \* man[n]: the manifest of n
    obj,      \* obj[d]: the bytes of the object named d
    torn,     \* the objects that somebody is still writing
    listed,   \* listed[d]: the parents' bytes that d's parents.json leads to
    params,   \* d's params.json
    script,   \* the transform in d
    out,      \* d's out.bin
    live,     \* the temporary directories that exist
    pc,       \* what p does next
    node,     \* the node that p replays, or replayed last
    wd,       \* its work directory
    at,       \* the parent that the loop over parents has come to
    copied,   \* parents_manifest: the bytes of the parents copied so far
    errors,   \* the replays with errors # []
    result,   \* what replay_node returned
    mixed,    \* those whose directory another one was at work in (history)
    met,      \* those that read an object while it was torn (history)
    kills     \* replays killed so far

store == <<man, obj, torn>>
call == <<node, wd>>
files == <<listed, params, script, out>>
vars == <<store, files, live, pc, call, at, copied, errors, result, mixed, met, kills>>

Parents(n) == man[n].parents

\* Every input of the derivation of n is in the store.
Complete(n) ==
    /\ obj[man[n].transform] # Absent
    /\ \A i \in DOMAIN Parents(n) : obj[Parents(n)[i]] # Absent

\* The bytes of an object once it is written.
Settled(d) == IF d \in torn THEN d ELSE obj[d]

Inputs(n) == [i \in DOMAIN Parents(n) |-> Settled(Parents(n)[i])]

\* What the transform that n names makes of the parents that n names.
Derived(n) == Apply(Settled(man[n].transform), man[n].params, Inputs(n))

Inside(p) == pc[p] \in {"copy", "run", "output", "judge", "orphan"}

Results == {"none", "ok", "missing", "raised", "exit", "no_output", "mismatch"}

TypeOK ==
    /\ man \in [Node -> Record]
    /\ obj \in [Digest -> Bytes \cup {Absent}]
    /\ torn \in SUBSET Digest
    /\ listed \in [Dir -> InputLists]
    /\ params \in [Dir -> Params \cup {Absent}]
    /\ script \in [Dir -> Bytes \cup {Absent}]
    /\ out \in [Dir -> Bytes \cup {Absent}]
    /\ live \in SUBSET Proc
    /\ pc \in [Proc -> {"idle", "enter", "copy", "run", "output", "judge",
                        "orphan", "killed"}]
    /\ node \in [Proc -> Node]
    /\ wd \in [Proc -> Dir]
    /\ at \in [Proc -> Nat]
    /\ \A p \in Proc : pc[p] = "copy" => at[p] \in 1..(Len(Parents(node[p])) + 1)
    /\ copied \in [Proc -> Seq(Bytes)]
    /\ errors \in SUBSET Proc
    /\ result \in [Proc -> Results]
    /\ mixed \in SUBSET Proc
    /\ met \in SUBSET Proc
    /\ kills \in 0..MaxKills

Init ==
    /\ \E g \in Ledgers : man = g.man /\ obj = g.obj
    /\ torn = {}
    /\ listed = [d \in Dir |-> <<>>]
    /\ params = [d \in Dir |-> Absent]
    /\ script = [d \in Dir |-> Absent]
    /\ out = [d \in Dir |-> Absent]
    /\ live = {}
    /\ pc = [p \in Proc |-> "idle"]
    /\ node = [p \in Proc |-> CHOOSE n \in Node : TRUE]
    /\ wd = [p \in Proc |-> p]
    /\ at = [p \in Proc |-> 1]
    /\ copied = [p \in Proc |-> <<>>]
    /\ errors = {}
    /\ result = [p \in Proc |-> "none"]
    /\ mixed = {}
    /\ met = {}
    /\ kills = 0

(***************************************************************************)
(* Before there is a work directory                                        *)
(***************************************************************************)

Called(p, n, d) ==
    /\ pc[p] = "idle"
    /\ node' = [node EXCEPT ![p] = n]
    /\ wd' = [wd EXCEPT ![p] = d]
    /\ mixed' = mixed \ {p}
    /\ met' = met \ {p}
    /\ UNCHANGED <<store, files, live, at, copied, errors, kills>>

Storable(n) ==
    /\ obj[man[n].transform] # Absent
    /\ man[n].env # Absent => obj[man[n].env] # Absent

\* A root has no derivation: it passes.
ReplayRoot(p, n, d) ==
    /\ Parents(n) = <<>>
    /\ Called(p, n, d)
    /\ result' = [result EXCEPT ![p] = "ok"]
    /\ UNCHANGED pc

\* The transform, or the environment description, is not in the store.
RefuseReplay(p, n, d) ==
    /\ Parents(n) # <<>> /\ ~Storable(n)
    /\ Called(p, n, d)
    /\ result' = [result EXCEPT ![p] = "missing"]
    /\ UNCHANGED pc

BeginReplay(p, n, d) ==
    /\ Parents(n) # <<>> /\ Storable(n)
    /\ Called(p, n, d)
    /\ result' = [result EXCEPT ![p] = "none"]
    /\ pc' = [pc EXCEPT ![p] = "enter"]

Clear(D) ==
    /\ listed' = [d \in Dir |-> IF d \in D THEN <<>> ELSE listed[d]]
    /\ params' = [d \in Dir |-> IF d \in D THEN Absent ELSE params[d]]
    /\ script' = [d \in Dir |-> IF d \in D THEN Absent ELSE script[d]]
    /\ out' = [d \in Dir |-> IF d \in D THEN Absent ELSE out[d]]

\* A temporary directory is new and empty; one given as --workdir is used
\* with whatever is in it.
EnterWorkdir(p) ==
    /\ pc[p] = "enter"
    /\ pc' = [pc EXCEPT ![p] = "copy"]
    /\ live' = live \cup ({wd[p]} \ Shared)
    /\ Clear({wd[p]} \ Shared)
    /\ LET others == {q \in Proc \ {p} : Inside(q) /\ wd[q] = wd[p]} IN
          mixed' = IF others = {} THEN mixed ELSE mixed \cup others \cup {p}
    /\ UNCHANGED <<store, call, at, copied, errors, result, met, kills>>

(***************************************************************************)
(* In the work directory                                                   *)
(***************************************************************************)

Forget(p) ==
    /\ at' = [at EXCEPT ![p] = 1]
    /\ copied' = [copied EXCEPT ![p] = <<>>]
    /\ errors' = errors \ {p}

\* finally: the directory is cleaned up, unless it is to be kept.
CleanedUp(p) == IF p \in Keep THEN live ELSE live \ {p}

\* Mutant: after a success only.
Return_NotFinally(p, r) ==
    /\ pc' = [pc EXCEPT ![p] = "idle"]
    /\ result' = [result EXCEPT ![p] = r]
    /\ live' = IF r = "ok" THEN CleanedUp(p) ELSE live
    /\ Clear({wd[p]} \ Shared)
    /\ Forget(p)
    /\ UNCHANGED <<store, call, mixed, met, kills>>

\* However replay_node ends, its temporary directory goes, with --keep too:
\* then nothing refers to the TemporaryDirectory any more, whose finalizer
\* removes what cleanup() has left.
Return(p, r) ==
    /\ pc' = [pc EXCEPT ![p] = "idle"]
    /\ result' = [result EXCEPT ![p] = r]
    /\ live' = CleanedUp(p) \ {p}
    /\ Clear({wd[p]} \ Shared)
    /\ Forget(p)
    /\ UNCHANGED <<store, call, mixed, met, kills>>

\* The bytes of d are read by p as they are at this moment.
Read(p, d) == met' = IF d \in torn THEN met \cup {p} ELSE met

\* Mutants: the absence of a parent is copied; or parents.json lists the last
\* parent first.
CopyParent_Unchecked(p) ==
    /\ pc[p] = "copy" /\ at[p] <= Len(Parents(node[p]))
    /\ copied' = [copied EXCEPT ![p] = Append(@, obj[Parents(node[p])[at[p]]])]
    /\ Read(p, Parents(node[p])[at[p]])
    /\ at' = [at EXCEPT ![p] = @ + 1]
    /\ UNCHANGED <<store, files, live, pc, call, errors, result, mixed, kills>>

CopyParent_Reversed(p) ==
    /\ pc[p] = "copy" /\ at[p] <= Len(Parents(node[p]))
    /\ LET b == obj[Parents(node[p])[at[p]]] IN
          /\ copied' = IF b = Absent THEN copied ELSE [copied EXCEPT ![p] = <<b>> \o @]
          /\ errors' = IF b = Absent THEN errors \cup {p} ELSE errors
    /\ Read(p, Parents(node[p])[at[p]])
    /\ at' = [at EXCEPT ![p] = @ + 1]
    /\ UNCHANGED <<store, files, live, pc, call, result, mixed, kills>>

\* A missing parent is an error, and the other parents are looked at.
CopyParent(p) ==
    /\ pc[p] = "copy" /\ at[p] <= Len(Parents(node[p]))
    /\ LET b == obj[Parents(node[p])[at[p]]] IN
          IF b = Absent
          THEN errors' = errors \cup {p} /\ UNCHANGED copied
          ELSE copied' = [copied EXCEPT ![p] = Append(@, b)] /\ UNCHANGED errors
    /\ Read(p, Parents(node[p])[at[p]])
    /\ at' = [at EXCEPT ![p] = @ + 1]
    /\ UNCHANGED <<store, files, live, pc, call, result, mixed, kills>>

GiveUp(p) ==
    /\ pc[p] = "copy" /\ at[p] > Len(Parents(node[p])) /\ p \in errors
    /\ Return(p, "missing")

\* parents.json, params.json and the transform are written over what is there.
WriteInputs(p) ==
    /\ pc[p] = "copy" /\ at[p] > Len(Parents(node[p])) /\ p \notin errors
    /\ listed' = [listed EXCEPT ![wd[p]] = copied[p]]
    /\ params' = [params EXCEPT ![wd[p]] = man[node[p]].params]
    /\ script' = [script EXCEPT ![wd[p]] = obj[man[node[p]].transform]]
    /\ Read(p, man[node[p]].transform)
    /\ UNCHANGED out
    /\ pc' = [pc EXCEPT ![p] = "run"]
    /\ Forget(p)
    /\ UNCHANGED <<store, live, call, result, mixed, kills>>

\* What the transform in d makes of the inputs that are there.
Produced(d) == Apply(script[d], params[d], listed[d])

Emit(d, b) ==
    /\ out' = [out EXCEPT ![d] = IF Produced(d) = Absent THEN @ ELSE b]
    /\ UNCHANGED <<listed, params, script>>

\* The manifest's runner cannot be started: an exception.
NoRunner(p) == pc[p] = "run" /\ Return(p, "raised")

StartTransform(p) ==
    /\ pc[p] = "run"
    /\ Emit(wd[p], Partial)
    /\ pc' = [pc EXCEPT ![p] = "output"]
    /\ UNCHANGED <<store, live, call, at, copied, errors, result, mixed, met, kills>>

EndTransform(p) ==
    /\ pc[p] = "output"
    /\ Emit(wd[p], Produced(wd[p]))
    /\ pc' = [pc EXCEPT ![p] = "judge"]
    /\ UNCHANGED <<store, live, call, at, copied, errors, result, mixed, met, kills>>

\* The transform exits with another code than 0.
TransformFails(p) == pc[p] = "output" /\ Return(p, "exit")

\* Mutant: an out.bin is enough.
Judge_NoHash(p) ==
    /\ pc[p] = "judge"
    /\ Return(p, IF out[wd[p]] = Absent THEN "no_output" ELSE "ok")

Judge(p) ==
    /\ pc[p] = "judge"
    /\ Return(p, CASE out[wd[p]] = Absent -> "no_output"
                   [] out[wd[p]] = node[p] -> "ok"
                   [] OTHER -> "mismatch")

(***************************************************************************)
(* The rest of the world                                                   *)
(***************************************************************************)

\* A replay that is killed leaves its directory, and its transform running.
Kill(p) ==
    /\ pc[p] \in {"enter", "copy", "run", "output", "judge"}
    /\ kills < MaxKills
    /\ kills' = kills + 1
    /\ pc' = [pc EXCEPT ![p] = IF pc[p] = "output" THEN "orphan" ELSE "killed"]
    /\ Forget(p)
    /\ UNCHANGED <<store, files, live, call, result, mixed, met>>

OrphanWrites(p) ==
    /\ pc[p] = "orphan"
    /\ \E b \in {Partial, Produced(wd[p])} : Emit(wd[p], b)
    /\ UNCHANGED <<store, live, pc, call, at, copied, errors, result, mixed, met, kills>>

OrphanEnds(p) ==
    /\ pc[p] = "orphan"
    /\ pc' = [pc EXCEPT ![p] = "killed"]
    /\ UNCHANGED <<store, files, live, call, at, copied, errors, result, mixed, met, kills>>

\* Another command stores a blob: alone, it renames a complete file.
Publish(d) ==
    /\ obj[d] = Absent
    /\ obj' = [obj EXCEPT ![d] = d]
    /\ UNCHANGED <<man, torn, files, live, pc, call, at, copied, errors, result, mixed, met, kills>>

\* Of several commands that store d, one renames the <d>.tmp that another has
\* just emptied: a new object, or a complete one, is torn.  What was damaged
\* all along is not stored again.
PublishTorn(d) ==
    /\ d \in Racing
    /\ Settled(d) \in {Absent, d}
    /\ obj' = [obj EXCEPT ![d] = Partial]
    /\ torn' = torn \cup {d}
    /\ UNCHANGED <<man, files, live, pc, call, at, copied, errors, result, mixed, met, kills>>

\* The other one writes through its open file.
WriteTorn(d) ==
    /\ d \in torn
    /\ obj' = [obj EXCEPT ![d] = d]
    /\ torn' = torn \ {d}
    /\ UNCHANGED <<man, files, live, pc, call, at, copied, errors, result, mixed, met, kills>>

Store(d) == Publish(d) \/ PublishTorn(d) \/ WriteTorn(d)

Next ==
    \/ \E p \in Proc, n \in Node : \E d \in {p} \cup Shared :
          ReplayRoot(p, n, d) \/ RefuseReplay(p, n, d) \/ BeginReplay(p, n, d)
    \/ \E p \in Proc :
          \/ EnterWorkdir(p) \/ CopyParent(p) \/ GiveUp(p) \/ WriteInputs(p)
          \/ NoRunner(p) \/ StartTransform(p) \/ EndTransform(p) \/ TransformFails(p)
          \/ Judge(p) \/ Kill(p) \/ OrphanWrites(p) \/ OrphanEnds(p)
    \/ \E d \in Digest : Store(d)

Spec == Init /\ [][Next]_vars

(***************************************************************************)
(* Properties                                                              *)
(***************************************************************************)

\* No other replay was at work in the directory of p, and p read no object
\* that was torn.
Undisturbed(p) == p \notin mixed /\ p \notin met

\* "OK" is right, if the replay was undisturbed: the derivation of the node was
\* made from every one of its inputs, as they are in the store, in the order of
\* the manifest, and it yields the node; or, in a directory given as --workdir,
\* the transform wrote nothing and the out.bin was there before.  What is read
\* from a torn object differs from what is in the store when it is written.
SuccessIsReproduction ==
    \A p \in Proc : result[p] = "ok" /\ Undisturbed(p) =>
        \/ Parents(node[p]) = <<>>
        \/ /\ Complete(node[p])
           /\ \/ Derived(node[p]) = node[p]
              \/ Derived(node[p]) = Absent /\ wd[p] \in Shared

\* A mismatch is right, too, with the same exception: whatever the directory
\* held before, and whatever is stored or torn before and after the replay
\* reads it, the derivation yields something else.
MismatchIsReal ==
    \A p \in Proc : result[p] \in {"mismatch", "no_output"} /\ Undisturbed(p) =>
        Complete(node[p]) /\ Derived(node[p]) # node[p]

\* Without --keep, a temporary directory outlives its replay only if the
\* replay was killed.
TempDirsRemoved == \A p \in live \ Keep : Inside(p) \/ pc[p] = "killed"

\* With --keep, a replay that has run its transform leaves the temporary
\* directory: what the help text of `ledger replay` says (cli.py:295), and what
\* Return does not do.
KeptDirsStay ==
    \A p \in Keep :
        pc[p] = "idle" /\ wd[p] = p /\ result[p] \in {"exit", "no_output", "mismatch"} =>
            p \in live
=============================================================================
