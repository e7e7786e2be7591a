---------------------------- MODULE Replay_proofs ----------------------------
(***************************************************************************)
(* Replay is type correct, the verdicts of undisturbed replays are right   *)
(* and temporary directories go, for every store, every number of replays  *)
(* and every transform, whatever others store, one by one or racing.       *)
(*                                                                         *)
(* The inductive invariant follows a replay through its work directory:    *)
(* what it has copied is what the manifest names, what lies in the         *)
(* directory is what it copied, and out.bin is what comes of that, as long *)
(* as no other replay was at work there (Apart says when one was) and no   *)
(* object was torn when it was read.                                       *)
(***************************************************************************)
EXTENDS Replay, TLAPS

Running == {"enter", "copy", "run", "output", "judge"}

\* A directory is used by one process or given as --workdir.
Owned == \A p \in Proc : wd[p] \in {p} \cup Shared

\* Two replays are in one directory only if both know.
Apart ==
    \A p, q \in Proc :
        p # q /\ Inside(p) /\ Inside(q) /\ wd[p] = wd[q] => p \in mixed /\ q \in mixed

\* RefuseReplay and ReplayRoot have dealt with the other nodes.
Started(p) ==
    pc[p] \in Running =>
        Parents(node[p]) # <<>> /\ obj[man[node[p]].transform] # Absent

Copying(p) ==
    pc[p] = "copy" /\ p \notin errors =>
        /\ Len(copied[p]) = at[p] - 1
        /\ \A i \in 1..Len(copied[p]) :
              /\ obj[Parents(node[p])[i]] # Absent
              /\ p \notin met => copied[p][i] = Settled(Parents(node[p])[i])

\* Outside the loop over parents its variables are as at the start.
Reset(p) == pc[p] # "copy" => at[p] = 1 /\ copied[p] = <<>> /\ p \notin errors

\* A transform finds its inputs.
Laid(p) ==
    pc[p] \in {"run", "output", "judge", "orphan"} =>
        script[wd[p]] \in Bytes /\ params[wd[p]] \in Params

\* It finds those that the node's manifest names.
Faithful(p) ==
    pc[p] \in {"run", "output", "judge"} =>
        /\ Complete(node[p])
        /\ Undisturbed(p) =>
              /\ listed[wd[p]] = Inputs(node[p])
              /\ params[wd[p]] = man[node[p]].params
              /\ script[wd[p]] = Settled(man[node[p]].transform)

\* out.bin is what the transform makes of them.
Outcome(p) ==
    Undisturbed(p) =>
        /\ pc[p] \in {"copy", "run"} /\ wd[p] = p => out[p] = Absent
        /\ pc[p] \in {"output", "judge"} /\ wd[p] = p /\ Derived(node[p]) = Absent =>
              out[p] = Absent
        /\ pc[p] = "judge" /\ Derived(node[p]) # Absent =>
              out[wd[p]] = Derived(node[p])

Answer(p) ==
    Undisturbed(p) =>
        /\ result[p] = "ok" =>
              \/ Parents(node[p]) = <<>>
              \/ /\ Complete(node[p])
                 /\ \/ Derived(node[p]) = node[p]
                    \/ Derived(node[p]) = Absent /\ wd[p] \in Shared
        /\ result[p] \in {"mismatch", "no_output"} =>
              Complete(node[p]) /\ Derived(node[p]) # node[p]

OneReplay(p) ==
    Started(p) /\ Copying(p) /\ Reset(p) /\ Laid(p) /\ Faithful(p) /\ Outcome(p) /\ Answer(p)

IInv ==
    /\ TypeOK
    /\ Owned
    /\ Apart
    /\ TempDirsRemoved
    /\ \A p \in Proc : OneReplay(p)

(***************************************************************************)
(* The store                                                               *)
(***************************************************************************)

\* The inputs of a derivation have the type that a transform expects.
LEMMA ManifestTyped ==
    ASSUME TypeOK, NEW n \in Node
    PROVE  /\ man[n] \in Record
           /\ Parents(n) \in ParentLists
           /\ Parents(n) \in Seq(Node)
           /\ \A i \in DOMAIN Parents(n) : Parents(n)[i] \in Digest
  BY ReplayAssumption DEF TypeOK, Record, Parents, Digest

LEMMA SettledTyped ==
    ASSUME TypeOK, NEW d \in Digest, obj[d] # Absent
    PROVE  Settled(d) \in Bytes
  BY DEF TypeOK, Settled, Bytes

LEMMA InputsTyped ==
    ASSUME TypeOK, NEW n \in Node, Complete(n)
    PROVE  Inputs(n) \in InputLists
  <1>1. \A i \in DOMAIN Parents(n) : Settled(Parents(n)[i]) \in Bytes
    BY ManifestTyped, SettledTyped DEF Complete
  <1>2. Inputs(n) \in [DOMAIN Parents(n) -> Bytes]
    BY <1>1 DEF Inputs
  <1> QED
    BY <1>2, ManifestTyped DEF InputLists

LEMMA ProducedTyped ==
    ASSUME TypeOK, NEW p \in Proc, Laid(p), pc[p] \in {"run", "output", "judge", "orphan"}
    PROVE  Produced(wd[p]) \in Bytes \cup {Absent}
  BY ReplayAssumption DEF TypeOK, Laid, Produced

\* What the commands that store a blob leave as it was: what is there stays,
\* and will hold the bytes that it was going to hold.
LEMMA StoreKeepsSettled ==
    ASSUME TypeOK, NEW d \in Digest, Store(d)
    PROVE  \A e \in Digest : obj[e] # Absent => obj'[e] # Absent /\ Settled(e)' = Settled(e)
  <1> SUFFICES ASSUME NEW e \in Digest, obj[e] # Absent
               PROVE  obj'[e] # Absent /\ Settled(e)' = Settled(e)
    OBVIOUS
  <1>0. Absent \notin Digest /\ Partial # Absent
    BY ReplayAssumption DEF Bytes
  <1>1. CASE Publish(d)
    BY <1>1 DEF Publish, Settled, TypeOK
  <1>2. CASE PublishTorn(d)
    BY <1>0, <1>2 DEF PublishTorn, Settled, TypeOK
  <1>3. CASE WriteTorn(d)
    BY <1>0, <1>3 DEF WriteTorn, Settled, TypeOK
  <1> QED
    BY <1>1, <1>2, <1>3 DEF Store

LEMMA StoreKeeps ==
    ASSUME TypeOK, NEW d \in Digest, Store(d), NEW n \in Node
    PROVE  /\ Parents(n)' = Parents(n)
           /\ Complete(n) => /\ Complete(n)'
                             /\ Inputs(n)' = Inputs(n)
                             /\ Derived(n)' = Derived(n)
  <1>1. \A e \in Digest : obj[e] # Absent => obj'[e] # Absent /\ Settled(e)' = Settled(e)
    BY StoreKeepsSettled
  <1>2. Parents(n)' = Parents(n) /\ man' = man
    BY DEF Store, Publish, PublishTorn, WriteTorn, Parents
  <1>3. man[n].transform \in Digest
    BY ManifestTyped DEF Record, Digest
  <1>4. ASSUME Complete(n)
        PROVE  Complete(n)' /\ Inputs(n)' = Inputs(n) /\ Derived(n)' = Derived(n)
    <2>1. \A i \in DOMAIN Parents(n) :
             /\ obj'[Parents(n)[i]] # Absent
             /\ Settled(Parents(n)[i])' = Settled(Parents(n)[i])
      <3>1. \A i \in DOMAIN Parents(n) : Parents(n)[i] \in Digest /\ obj[Parents(n)[i]] # Absent
        BY <1>4, ManifestTyped DEF Complete
      <3>2. \A e \in Digest : obj[e] # Absent => (IF e \in torn' THEN e ELSE obj'[e]) = Settled(e)
        BY <1>1 DEF Settled
      <3> QED
        BY <1>1, <1>2, <3>1, <3>2 DEF Settled, Parents
    <2>2. /\ obj'[man[n].transform] # Absent
          /\ Settled(man[n].transform)' = Settled(man[n].transform)
      <3>1. obj[man[n].transform] # Absent
        BY <1>4 DEF Complete
      <3>2. \A e \in Digest : obj[e] # Absent => (IF e \in torn' THEN e ELSE obj'[e]) = Settled(e)
        BY <1>1 DEF Settled
      <3> QED
        BY <1>1, <1>2, <1>3, <3>1, <3>2 DEF Settled
    <2>3. Inputs(n)' = Inputs(n)
      BY <1>2, <2>1 DEF Inputs, Parents
    <2> QED
      BY <1>2, <2>1, <2>2, <2>3 DEF Complete, Derived, Parents
  <1> QED
    BY <1>2, <1>4

(***************************************************************************)
(* What a replay does to the others                                        *)
(***************************************************************************)

ActionOf(p) ==
    \/ \E n \in Node, d \in {p} \cup Shared :
          ReplayRoot(p, n, d) \/ RefuseReplay(p, n, d) \/ BeginReplay(p, n, d)
    \/ EnterWorkdir(p) \/ CopyParent(p) \/ GiveUp(p) \/ WriteInputs(p)
    \/ NoRunner(p) \/ StartTransform(p) \/ EndTransform(p) \/ TransformFails(p)
    \/ Judge(p) \/ Kill(p) \/ OrphanWrites(p) \/ OrphanEnds(p)

LEMMA NextCases ==
    Next <=> (\E p \in Proc : ActionOf(p)) \/ (\E d \in Digest : Store(d))
  BY DEF Next, ActionOf

\* Nothing of another replay changes, and the files of its directory only if
\* the directory is shared and it knows.
LEMMA OthersUnchanged ==
    ASSUME IInv, NEW p \in Proc, ActionOf(p), NEW q \in Proc, q # p
    PROVE  /\ UNCHANGED store
           /\ pc'[q] = pc[q] /\ node'[q] = node[q] /\ wd'[q] = wd[q]
           /\ at'[q] = at[q] /\ copied'[q] = copied[q] /\ (q \in errors' <=> q \in errors)
           /\ result'[q] = result[q]
           /\ q \in mixed => q \in mixed'
           /\ q \in met <=> q \in met'
           /\ q \in live <=> q \in live'
           /\ Inside(q) /\ q \notin mixed' =>
                 /\ listed'[wd[q]] = listed[wd[q]] /\ params'[wd[q]] = params[wd[q]]
                 /\ script'[wd[q]] = script[wd[q]] /\ out'[wd[q]] = out[wd[q]]
  <1> USE DEF IInv, TypeOK, ActionOf, Owned, Apart, Inside, store, call, files, Clear
  <1>1. wd[q] # p /\ wd[p] # q
    BY ReplayAssumption DEF Dir
  <1>2. CASE \E n \in Node, d \in {p} \cup Shared :
               ReplayRoot(p, n, d) \/ RefuseReplay(p, n, d) \/ BeginReplay(p, n, d)
    <2>1. PICK n \in Node, d \in {p} \cup Shared :
               ReplayRoot(p, n, d) \/ RefuseReplay(p, n, d) \/ BeginReplay(p, n, d)
      BY <1>2
    <2>2. Called(p, n, d) /\ pc'[q] = pc[q] /\ result'[q] = result[q]
      BY <2>1 DEF ReplayRoot, RefuseReplay, BeginReplay
    <2> QED
      BY <2>2 DEF Called
  <1>3. CASE EnterWorkdir(p)
    BY <1>1, <1>3 DEF EnterWorkdir
  <1>4. CASE CopyParent(p) \/ WriteInputs(p)
    BY <1>1, <1>4 DEF CopyParent, WriteInputs, Forget, Read
  <1>5. CASE GiveUp(p) \/ NoRunner(p) \/ TransformFails(p) \/ Judge(p)
    BY <1>1, <1>5 DEF GiveUp, NoRunner, TransformFails, Judge, Return, CleanedUp, Forget
  <1>6. CASE StartTransform(p) \/ EndTransform(p)
    BY <1>1, <1>6 DEF StartTransform, EndTransform, Emit
  <1>7. CASE Kill(p) \/ OrphanWrites(p) \/ OrphanEnds(p)
    BY <1>1, <1>7 DEF Kill, OrphanWrites, OrphanEnds, Emit, Forget
  <1> QED
    BY <1>2, <1>3, <1>4, <1>5, <1>6, <1>7

(***************************************************************************)
(* Type correctness                                                        *)
(***************************************************************************)

\* After the loop without errors, the copies are the inputs.
LEMMA CopiedAll ==
    ASSUME TypeOK, NEW p \in Proc, Started(p), Copying(p), pc[p] = "copy",
           at[p] > Len(Parents(node[p])), p \notin errors
    PROVE  /\ Complete(node[p])
           /\ p \notin met => copied[p] = Inputs(node[p])
           /\ copied[p] \in InputLists
           /\ obj[man[node[p]].transform] \in Bytes
           /\ man[node[p]].params \in Params
  <1>1. node[p] \in Node /\ copied[p] \in Seq(Bytes)
    BY DEF TypeOK
  <1>2. Parents(node[p]) \in Seq(Node)
    BY <1>1, ManifestTyped
  <1>3. Len(copied[p]) = Len(Parents(node[p]))
    BY <1>2 DEF TypeOK, Copying
  <1>4. Complete(node[p])
    BY <1>2, <1>3 DEF Complete, Copying, Started, Running
  <1>5. p \notin met => copied[p] = Inputs(node[p])
    BY <1>1, <1>2, <1>3 DEF Inputs, Copying
  <1>6. man[node[p]].transform \in Digest /\ man[node[p]].params \in Params
    BY <1>1, ManifestTyped DEF Record, Digest
  <1>7. copied[p] \in InputLists
    <2>1. copied[p] \in [DOMAIN Parents(node[p]) -> Bytes]
      BY <1>1, <1>2, <1>3
    <2> QED
      BY <1>1, <2>1, ManifestTyped DEF InputLists
  <1> QED
    BY <1>1, <1>4, <1>5, <1>6, <1>7 DEF Complete, TypeOK

LEMMA FilesTyped ==
    ASSUME TypeOK, NEW d \in Dir, NEW b \in Bytes \cup {Absent}, Emit(d, b)
    PROVE  /\ listed' \in [Dir -> InputLists]
           /\ params' \in [Dir -> Params \cup {Absent}]
           /\ script' \in [Dir -> Bytes \cup {Absent}]
           /\ out' \in [Dir -> Bytes \cup {Absent}]
  BY DEF TypeOK, Emit

LEMMA ClearTyped ==
    ASSUME TypeOK, NEW D, Clear(D)
    PROVE  /\ listed' \in [Dir -> InputLists]
           /\ params' \in [Dir -> Params \cup {Absent}]
           /\ script' \in [Dir -> Bytes \cup {Absent}]
           /\ out' \in [Dir -> Bytes \cup {Absent}]
  <1>1. <<>> \in [DOMAIN <<>> -> Bytes]
    OBVIOUS
  <1>2. <<>> \in InputLists
    BY <1>1, ReplayAssumption DEF InputLists
  <1> QED
    BY <1>2 DEF Clear, TypeOK

LEMMA TypeStep ==
    ASSUME IInv, [Next]_vars
    PROVE  TypeOK'
  <1> USE DEF IInv
  <1>1. CASE UNCHANGED vars
    BY <1>1 DEF TypeOK, vars, store, call, files, Parents
  <1>2. ASSUME NEW d \in Digest, Store(d)
        PROVE  TypeOK'
    <2>1. /\ obj' \in [Digest -> Bytes \cup {Absent}] /\ torn' \in SUBSET Digest
          /\ UNCHANGED <<man, files, live, pc, call, at, copied, errors, result, mixed, met, kills>>
      <3>1. Partial \in Bytes /\ d \in Bytes
        BY ReplayAssumption DEF Bytes
      <3> QED
        BY <1>2, <3>1 DEF TypeOK, Store, Publish, PublishTorn, WriteTorn
    <2>2. \A n \in Node : Parents(n)' = Parents(n)
      BY <2>1 DEF Parents
    <2> QED
      BY <2>1, <2>2 DEF TypeOK, call, files
  <1>3. ASSUME NEW p \in Proc, ActionOf(p)
        PROVE  TypeOK'
    <2> USE DEF TypeOK
    <2>1. wd[p] \in Dir /\ p \in Dir /\ Partial \in Bytes /\ 1 \in Nat
      BY ReplayAssumption DEF Dir, Bytes
    <2>2. UNCHANGED store => \A n \in Node : Parents(n)' = Parents(n)
      BY DEF store, Parents
    <2>3. CASE \E n \in Node, d \in {p} \cup Shared :
                 ReplayRoot(p, n, d) \/ RefuseReplay(p, n, d) \/ BeginReplay(p, n, d)
      <3>1. PICK n \in Node, d \in {p} \cup Shared :
                 ReplayRoot(p, n, d) \/ RefuseReplay(p, n, d) \/ BeginReplay(p, n, d)
        BY <2>3
      <3>2. d \in Dir
        BY DEF Dir
      <3>3. /\ node' \in [Proc -> Node] /\ wd' \in [Proc -> Dir]
            /\ mixed' \in SUBSET Proc
        <4>1. /\ node' = [node EXCEPT ![p] = n] /\ wd' = [wd EXCEPT ![p] = d]
              /\ mixed' = mixed \ {p}
          BY <3>1 DEF ReplayRoot, RefuseReplay, BeginReplay, Called
        <4> QED
          BY <3>2, <4>1
      <3>4. /\ result' \in [Proc -> Results]
            /\ pc' \in [Proc -> {"idle", "enter", "copy", "run", "output", "judge",
                                 "orphan", "killed"}]
        BY <3>1 DEF ReplayRoot, RefuseReplay, BeginReplay, Called, Results
      <3>5. \A q \in Proc : pc'[q] = "copy" =>
               at'[q] = at[q] /\ node'[q] = node[q] /\ pc[q] = "copy"
        BY <3>1 DEF ReplayRoot, RefuseReplay, BeginReplay, Called
      <3>6. \A q \in Proc : pc'[q] = "copy" =>
               at'[q] \in 1..(Len(Parents(node'[q])) + 1)
        BY <3>5
      <3> QED
        BY <2>2, <3>1, <3>3, <3>4, <3>6
           DEF ReplayRoot, RefuseReplay, BeginReplay, Called, store, files
    <2>4. CASE EnterWorkdir(p)
      <3>1. at[p] = 1
        BY <2>4 DEF EnterWorkdir, OneReplay, Reset
      <3>2. live' \in SUBSET Proc
        BY <2>4 DEF EnterWorkdir, Owned
      <3> HIDE DEF TypeOK
      <3>3. Clear({wd[p]} \ Shared)
        BY <2>4 DEF EnterWorkdir
      <3>4. /\ listed' \in [Dir -> InputLists]
            /\ params' \in [Dir -> Params \cup {Absent}]
            /\ script' \in [Dir -> Bytes \cup {Absent}]
            /\ out' \in [Dir -> Bytes \cup {Absent}]
        BY <3>3, ClearTyped
      <3>5. at[p] \in 1..(Len(Parents(node[p])) + 1)
        BY <3>1, ManifestTyped DEF TypeOK
      <3> QED
        BY <2>2, <2>4, <3>2, <3>4, <3>5 DEF TypeOK, EnterWorkdir, store, call
    <2>5. CASE CopyParent(p)
      <3>1. Parents(node[p]) \in Seq(Node) /\ at[p] \in DOMAIN Parents(node[p])
        BY <2>5, ManifestTyped DEF CopyParent
      <3>2. Parents(node[p])[at[p]] \in Digest
        BY <3>1, ManifestTyped
      <3> DEFINE b == obj[Parents(node[p])[at[p]]]
      <3>b. b = Absent \/ b \in Bytes
        BY <3>2
      <3>c. /\ copied' = copied \/ (b \in Bytes /\ copied' = [copied EXCEPT ![p] = Append(@, b)])
            /\ errors' = errors \/ errors' = errors \cup {p}
        BY <2>5, <3>b DEF CopyParent
      <3> HIDE DEF b
      <3>d. copied' \in [Proc -> Seq(Bytes)]
        <4>1. copied[p] \in Seq(Bytes)
          OBVIOUS
        <4>2. b \in Bytes => Append(copied[p], b) \in Seq(Bytes)
          BY <4>1
        <4> HIDE DEF TypeOK
        <4>3. copied \in [Proc -> Seq(Bytes)]
          BY DEF TypeOK
        <4> QED
          BY <3>c, <4>2, <4>3
      <3>3. copied' \in [Proc -> Seq(Bytes)] /\ errors' \in SUBSET Proc
        BY <3>c, <3>d
      <3>4. /\ at' = [at EXCEPT ![p] = at[p] + 1]
            /\ at[p] + 1 \in 1..(Len(Parents(node[p])) + 1)
            /\ UNCHANGED <<store, files, live, pc, call, result, mixed, kills>>
            /\ met' \in SUBSET Proc
        BY <2>5, <3>1 DEF CopyParent, Read
      <3> QED
        BY <2>2, <3>3, <3>4 DEF store, call, files
    <2>6. CASE WriteInputs(p)
      BY <2>6, <2>1, <2>2, CopiedAll DEF WriteInputs, Read, Forget, store, call, OneReplay
    <2>7. CASE GiveUp(p) \/ NoRunner(p) \/ TransformFails(p) \/ Judge(p)
      <3>1. PICK r \in Results : Return(p, r)
        BY <2>7 DEF GiveUp, NoRunner, TransformFails, Judge, Results
      <3> HIDE DEF TypeOK
      <3>2. Clear({wd[p]} \ Shared)
        BY <3>1 DEF Return
      <3>3. /\ listed' \in [Dir -> InputLists]
            /\ params' \in [Dir -> Params \cup {Absent}]
            /\ script' \in [Dir -> Bytes \cup {Absent}]
            /\ out' \in [Dir -> Bytes \cup {Absent}]
        BY <3>2, ClearTyped
      <3> QED
        BY <2>2, <3>1, <3>3 DEF TypeOK, Return, CleanedUp, Forget, store, call
    <2>8. CASE StartTransform(p) \/ EndTransform(p) \/ OrphanWrites(p)
      <3>1. Produced(wd[p]) \in Bytes \cup {Absent}
        BY <2>8, ProducedTyped DEF StartTransform, EndTransform, OrphanWrites, OneReplay
      <3>2. \E b \in Bytes \cup {Absent} : Emit(wd[p], b)
        BY <2>1, <2>8, <3>1 DEF StartTransform, EndTransform, OrphanWrites
      <3>3. /\ listed' \in [Dir -> InputLists]
            /\ params' \in [Dir -> Params \cup {Absent}]
            /\ script' \in [Dir -> Bytes \cup {Absent}]
            /\ out' \in [Dir -> Bytes \cup {Absent}]
        BY <2>1, <3>2, FilesTyped
      <3> HIDE DEF TypeOK
      <3> QED
        BY <2>2, <2>8, <3>3
           DEF TypeOK, StartTransform, EndTransform, OrphanWrites, store, call
    <2>9. CASE Kill(p) \/ OrphanEnds(p)
      <3>1. kills' \in 0..MaxKills
        BY <2>9, ReplayAssumption DEF Kill, OrphanEnds
      <3>2. \A q \in Proc : pc'[q] = "copy" => at'[q] = at[q] /\ pc[q] = "copy"
        BY <2>9 DEF Kill, OrphanEnds, Forget
      <3>a. at' \in [Proc -> Nat] /\ copied' \in [Proc -> Seq(Bytes)]
        <4>1. /\ at' = at \/ at' = [at EXCEPT ![p] = 1]
              /\ copied' = copied \/ copied' = [copied EXCEPT ![p] = <<>>]
          BY <2>9 DEF Kill, OrphanEnds, Forget
        <4>2. <<>> \in Seq(Bytes)
          OBVIOUS
        <4>0. at \in [Proc -> Nat]
          OBVIOUS
        <4>3. at' \in [Proc -> Nat]
          <5> HIDE DEF TypeOK
          <5> QED
            BY <4>0, <4>1
        <4>4. copied' \in [Proc -> Seq(Bytes)]
          BY <4>1, <4>2
        <4> QED
          BY <4>3, <4>4
      <3>b. errors' = errors \/ errors' = errors \ {p}
        BY <2>9 DEF Kill, OrphanEnds, Forget
      <3>3. /\ at' \in [Proc -> Nat] /\ copied' \in [Proc -> Seq(Bytes)]
            /\ errors' \in SUBSET Proc
        BY <3>a, <3>b
      <3>4. pc' \in [Proc -> {"idle", "enter", "copy", "run", "output", "judge",
                              "orphan", "killed"}]
        BY <2>9 DEF Kill, OrphanEnds
      <3>5. UNCHANGED <<store, files, live, call, result, mixed, met>>
        BY <2>9 DEF Kill, OrphanEnds
      <3> QED
        BY <2>2, <3>1, <3>2, <3>3, <3>4, <3>5 DEF store, call, files
    <2> QED
      BY <1>3, <2>3, <2>4, <2>5, <2>6, <2>7, <2>8, <2>9 DEF ActionOf
  <1> QED
    BY <1>1, <1>2, <1>3, NextCases

(***************************************************************************)
(* Directories                                                             *)
(***************************************************************************)

LEMMA OwnedStep ==
    ASSUME IInv, [Next]_vars
    PROVE  Owned'
  <1> USE DEF IInv, TypeOK, Owned
  <1>1. CASE UNCHANGED vars
    BY <1>1 DEF vars, call
  <1>2. ASSUME NEW d \in Digest, Store(d)
        PROVE  Owned'
    BY <1>2 DEF Store, Publish, PublishTorn, WriteTorn, call
  <1>3. ASSUME NEW p \in Proc, ActionOf(p)
        PROVE  Owned'
    <2>1. wd'[p] \in {p} \cup Shared
      BY <1>3 DEF ActionOf, ReplayRoot, RefuseReplay, BeginReplay, Called, EnterWorkdir,
          CopyParent, GiveUp, WriteInputs, NoRunner, StartTransform, EndTransform,
          TransformFails, Judge, Kill, OrphanWrites, OrphanEnds, Return, call
    <2> QED
      BY <1>3, <2>1, OthersUnchanged
  <1> QED
    BY <1>1, <1>2, <1>3, NextCases

LEMMA ApartStep ==
    ASSUME IInv, [Next]_vars
    PROVE  Apart'
  <1> USE DEF IInv, TypeOK, Apart, Inside
  <1>1. CASE UNCHANGED vars
    BY <1>1 DEF vars, call
  <1>2. ASSUME NEW d \in Digest, Store(d)
        PROVE  Apart'
    BY <1>2 DEF Store, Publish, PublishTorn, WriteTorn, call
  <1>3. ASSUME NEW p \in Proc, ActionOf(p)
        PROVE  Apart'
    <2>1. CASE EnterWorkdir(p)
      BY <2>1 DEF EnterWorkdir, call
    <2>2. ASSUME ~EnterWorkdir(p)
          PROVE  Inside(p)' => Inside(p) /\ wd'[p] = wd[p] /\ mixed' = mixed
      BY <1>3, <2>2 DEF ActionOf, ReplayRoot, RefuseReplay, BeginReplay, Called,
          CopyParent, GiveUp, WriteInputs, NoRunner, StartTransform, EndTransform,
          TransformFails, Judge, Kill, OrphanWrites, OrphanEnds, Return, call
    <2>3. \A q \in Proc \ {p} :
             /\ pc'[q] = pc[q] /\ wd'[q] = wd[q]
             /\ q \in mixed => q \in mixed'
      BY <1>3, OthersUnchanged
    <2> QED
      BY <2>1, <2>2, <2>3
  <1> QED
    BY <1>1, <1>2, <1>3, NextCases

LEMMA TempStep ==
    ASSUME IInv, [Next]_vars
    PROVE  TempDirsRemoved'
  <1> USE DEF IInv, TypeOK, TempDirsRemoved, Inside
  <1>1. CASE UNCHANGED vars
    BY <1>1 DEF vars
  <1>2. ASSUME NEW d \in Digest, Store(d)
        PROVE  TempDirsRemoved'
    BY <1>2 DEF Store, Publish, PublishTorn, WriteTorn
  <1>3. ASSUME NEW p \in Proc, ActionOf(p)
        PROVE  TempDirsRemoved'
    <2>1. p \in live' \ Keep => Inside(p)' \/ pc'[p] = "killed"
      <3>1. CASE \E n \in Node, d \in {p} \cup Shared :
                   ReplayRoot(p, n, d) \/ RefuseReplay(p, n, d) \/ BeginReplay(p, n, d)
        BY <3>1 DEF ReplayRoot, RefuseReplay, BeginReplay, Called
      <3>2. CASE GiveUp(p) \/ NoRunner(p) \/ TransformFails(p) \/ Judge(p)
        BY <3>2 DEF GiveUp, NoRunner, TransformFails, Judge, Return, CleanedUp
      <3>3. CASE Kill(p) \/ OrphanWrites(p) \/ OrphanEnds(p)
        BY <3>3 DEF Kill, OrphanWrites, OrphanEnds
      <3>4. CASE EnterWorkdir(p) \/ CopyParent(p) \/ WriteInputs(p) \/ StartTransform(p)
                 \/ EndTransform(p)
        BY <3>4 DEF EnterWorkdir, CopyParent, WriteInputs, StartTransform, EndTransform
      <3> QED
        BY <1>3, <3>1, <3>2, <3>3, <3>4 DEF ActionOf
    <2>2. \A q \in Proc \ {p} : pc'[q] = pc[q] /\ (q \in live <=> q \in live')
      BY <1>3, OthersUnchanged
    <2>3. live' \in SUBSET Proc
      BY TypeStep, <1>3, NextCases
    <2> QED
      BY <2>1, <2>2, <2>3
  <1> QED
    BY <1>1, <1>2, <1>3, NextCases

(***************************************************************************)
(* One replay                                                              *)
(***************************************************************************)

LEMMA StoreStep ==
    ASSUME IInv, NEW d \in Digest, Store(d), NEW p \in Proc
    PROVE  OneReplay(p)'
  <1>1. /\ node[p] \in Node /\ man[node[p]].transform \in Digest
        /\ Parents(node[p]) \in Seq(Node)
        /\ \A i \in DOMAIN Parents(node[p]) : Parents(node[p])[i] \in Digest
    BY ManifestTyped DEF IInv, TypeOK, Record, Digest
  <1>2. UNCHANGED <<man, files, live, pc, call, at, copied, errors, result, mixed, met, kills>>
    BY DEF Store, Publish, PublishTorn, WriteTorn
  <1>3. /\ Parents(node[p])' = Parents(node[p])
        /\ Complete(node[p]) => /\ Complete(node[p])'
                                /\ Inputs(node[p])' = Inputs(node[p])
                                /\ Derived(node[p])' = Derived(node[p])
    <2>1. node' = node
      BY <1>2 DEF call
    <2> QED
      BY <1>1, <2>1, StoreKeeps DEF IInv
  <1>s. \A e \in Digest : obj[e] # Absent => obj'[e] # Absent /\ Settled(e)' = Settled(e)
    BY StoreKeepsSettled DEF IInv
  <1>4. OneReplay(p) /\ (Undisturbed(p)' <=> Undisturbed(p))
    BY <1>2 DEF IInv, Undisturbed
  <1>5. Started(p)' /\ Reset(p)' /\ Laid(p)'
    BY <1>1, <1>2, <1>3, <1>4, <1>s DEF OneReplay, Started, Reset, Laid, call, files
  <1>6. Copying(p)'
    <2>1. CASE pc[p] = "copy" /\ p \notin errors
      <3>1. at[p] \in 1..(Len(Parents(node[p])) + 1) /\ Len(copied[p]) = at[p] - 1
        BY <1>4, <2>1 DEF IInv, TypeOK, OneReplay, Copying
      <3>2. \A i \in 1..Len(copied[p]) : i \in DOMAIN Parents(node[p])
        BY <1>1, <3>1
      <3>3. \A i \in 1..Len(copied[p]) :
               /\ obj[Parents(node[p])[i]] # Absent
               /\ p \notin met => copied[p][i] = Settled(Parents(node[p])[i])
        BY <1>4, <2>1 DEF OneReplay, Copying
      <3>4. \A e \in Digest : obj[e] # Absent => (IF e \in torn' THEN e ELSE obj'[e]) = Settled(e)
        BY <1>s DEF Settled
      <3>5. \A i \in 1..Len(copied[p]) :
               /\ obj'[Parents(node[p])[i]] # Absent
               /\ p \notin met => copied[p][i] = Settled(Parents(node[p])[i])'
        <4> SUFFICES ASSUME NEW i \in 1..Len(copied[p])
                     PROVE  /\ obj'[Parents(node[p])[i]] # Absent
                            /\ p \notin met => copied[p][i] = Settled(Parents(node[p])[i])'
          OBVIOUS
        <4>1. Parents(node[p])[i] \in Digest
          BY <1>1, <3>2
        <4>2. Parents(node[p])' = Parents(node[p])
          BY <1>3
        <4> QED
          BY <1>s, <3>3, <3>4, <4>1, <4>2 DEF Settled
      <3> QED
        BY <1>2, <1>3, <3>1, <3>5 DEF Copying, call
    <2>2. CASE ~(pc[p] = "copy" /\ p \notin errors)
      BY <1>2, <2>2 DEF Copying
    <2> QED
      BY <2>1, <2>2
  <1>7. Faithful(p)'
    <2>1. Complete(node[p]) => Settled(man[node[p]].transform)' = Settled(man[node[p]].transform)
      <3>1. \A e \in Digest : obj[e] # Absent => (IF e \in torn' THEN e ELSE obj'[e]) = Settled(e)
        BY <1>s DEF Settled
      <3>2. man' = man /\ node' = node
        BY <1>2 DEF call
      <3> QED
        BY <1>1, <3>1, <3>2 DEF Settled, Complete
    <2> QED
      BY <1>2, <1>3, <1>4, <2>1 DEF OneReplay, Faithful, call, files
  <1>8. Outcome(p)'
    BY <1>2, <1>3, <1>4 DEF OneReplay, Faithful, Outcome, call, files
  <1>9. Answer(p)'
    BY <1>2, <1>3, <1>4 DEF OneReplay, Answer, call
  <1> QED
    BY <1>5, <1>6, <1>7, <1>8, <1>9 DEF OneReplay

\* The files of its directory stay such that a transform can be run there,
\* whoever else is at work in it.
LEMMA LaidStep ==
    ASSUME IInv, NEW p \in Proc, ActionOf(p), NEW q \in Proc, q # p
    PROVE  Laid(q)'
  <1> USE DEF IInv, TypeOK, OneReplay, Owned
  <1>1. wd[q] # p /\ wd[q] \in Dir
    BY ReplayAssumption DEF Dir
  <1>2. pc'[q] = pc[q] /\ wd'[q] = wd[q]
    BY OthersUnchanged
  <1>3. Laid(q)
    OBVIOUS
  <1>4. CASE WriteInputs(p)
    <2>1. /\ obj[man[node[p]].transform] \in Bytes
          /\ man[node[p]].params \in Params
      BY <1>4, CopiedAll DEF WriteInputs
    <2> QED
      BY <1>1, <1>2, <1>3, <1>4, <2>1 DEF WriteInputs, Laid
  <1>5. CASE ~WriteInputs(p)
    <2>1. script'[wd[q]] = script[wd[q]] /\ params'[wd[q]] = params[wd[q]]
      BY <1>1, <1>5 DEF ActionOf, ReplayRoot, RefuseReplay, BeginReplay, Called,
          EnterWorkdir, CopyParent, GiveUp, NoRunner, StartTransform, EndTransform,
          TransformFails, Judge, Kill, OrphanWrites, OrphanEnds, Return, Emit, Clear, files
    <2> QED
      BY <1>2, <1>3, <2>1 DEF Laid
  <1> QED
    BY <1>4, <1>5

LEMMA OtherStep ==
    ASSUME IInv, NEW p \in Proc, ActionOf(p), NEW q \in Proc, q # p
    PROVE  OneReplay(q)'
  <1>1. OneReplay(q) /\ wd[q] \in {q} \cup Shared
    BY DEF IInv, Owned
  <1>2. /\ UNCHANGED <<man, obj, torn>>
        /\ pc'[q] = pc[q] /\ node'[q] = node[q] /\ wd'[q] = wd[q]
        /\ at'[q] = at[q] /\ copied'[q] = copied[q] /\ (q \in errors' <=> q \in errors)
        /\ result'[q] = result[q]
        /\ q \in mixed => q \in mixed'
        /\ q \in met <=> q \in met'
        /\ Undisturbed(q)' => Undisturbed(q) /\ q \notin mixed'
    BY OthersUnchanged DEF store, Undisturbed
  <1>3. Inside(q) /\ q \notin mixed' =>
            /\ listed'[wd[q]] = listed[wd[q]] /\ params'[wd[q]] = params[wd[q]]
            /\ script'[wd[q]] = script[wd[q]] /\ out'[wd[q]] = out[wd[q]]
    BY OthersUnchanged
  <1>4. Started(q)' /\ Copying(q)' /\ Reset(q)' /\ Answer(q)'
    BY <1>1, <1>2 DEF OneReplay, Started, Copying, Reset, Answer, Parents, Complete,
        Derived, Inputs, Settled
  <1>5. Laid(q)'
    BY LaidStep
  <1>6. Faithful(q)'
    BY <1>1, <1>2, <1>3 DEF OneReplay, Faithful, Inside, Parents, Complete, Inputs, Settled
  <1>7. Outcome(q)'
    BY <1>1, <1>2, <1>3 DEF OneReplay, Outcome, Inside, Parents, Derived, Inputs, Settled
  <1> QED
    BY <1>4, <1>5, <1>6, <1>7 DEF OneReplay

\* A step within a call keeps what depends on the call and the store only.
LEMMA SameCall ==
    ASSUME IInv, NEW p \in Proc, UNCHANGED <<store, call>>,
           result'[p] = result[p], Undisturbed(p)' => Undisturbed(p),
           pc'[p] \in Running => pc[p] \in Running
    PROVE  Started(p)' /\ Answer(p)'
  <1>1. /\ node[p] \in Node /\ node' = node /\ wd' = wd /\ man' = man /\ obj' = obj
        /\ torn' = torn /\ Started(p) /\ Answer(p)
    BY DEF IInv, TypeOK, OneReplay, call, store
  <1>2. /\ Parents(node[p])' = Parents(node[p])
        /\ Complete(node[p])' = Complete(node[p])
        /\ Derived(node[p])' = Derived(node[p])
    BY <1>1 DEF Parents, Complete, Derived, Inputs, Settled
  <1>3. Started(p)'
    BY <1>1, <1>2 DEF Started
  <1>4. Answer(p)'
    BY <1>1, <1>2 DEF Answer
  <1> QED
    BY <1>3, <1>4

LEMMA CallStep ==
    ASSUME IInv, NEW p \in Proc, NEW n \in Node, NEW d \in {p} \cup Shared,
           ReplayRoot(p, n, d) \/ RefuseReplay(p, n, d) \/ BeginReplay(p, n, d)
    PROVE  OneReplay(p)'
  <1> USE DEF IInv, TypeOK
  <1>0. Called(p, n, d)
    BY DEF ReplayRoot, RefuseReplay, BeginReplay
  <1>1. /\ pc[p] = "idle" /\ node'[p] = n /\ Parents(n)' = Parents(n)
        /\ pc'[p] \in {"idle", "enter"}
        /\ UNCHANGED <<man, obj, at, copied, errors>>
    <2>1. UNCHANGED <<man, obj, at, copied, errors>>
      BY <1>0 DEF Called, store
    <2>2. pc[p] = "idle" /\ node'[p] = n
      BY <1>0 DEF Called
    <2>3. pc'[p] \in {"idle", "enter"}
      BY <2>2 DEF ReplayRoot, RefuseReplay, BeginReplay
    <2> QED
      BY <2>1, <2>2, <2>3 DEF Parents
  <1>2. /\ pc'[p] = "enter" => Parents(n) # <<>> /\ obj[man[n].transform] # Absent
        /\ result'[p] = "ok" => Parents(n) = <<>>
        /\ result'[p] \in {"ok", "missing", "none"}
    <2>1. CASE ReplayRoot(p, n, d)
      BY <1>1, <2>1 DEF ReplayRoot
    <2>2. CASE RefuseReplay(p, n, d)
      BY <1>1, <2>2 DEF RefuseReplay
    <2>3. CASE BeginReplay(p, n, d)
      BY <1>1, <2>3 DEF BeginReplay, Storable
    <2> QED
      BY <2>1, <2>2, <2>3
  <1>3. Started(p)' /\ Answer(p)'
    <2> HIDE DEF TypeOK, IInv
    <2>1. Started(p)'
      BY <1>1, <1>2 DEF Started, Running, Parents
    <2>2. Answer(p)'
      BY <1>1, <1>2 DEF Answer, Parents
    <2> QED
      BY <2>1, <2>2
  <1>4. Reset(p)'
    BY <1>1 DEF OneReplay, Reset
  <1> QED
    BY <1>1, <1>3, <1>4 DEF OneReplay, Copying, Laid, Faithful, Outcome

LEMMA EnterStep ==
    ASSUME IInv, NEW p \in Proc, EnterWorkdir(p)
    PROVE  OneReplay(p)'
  <1> USE DEF IInv, TypeOK
  <1>1. /\ pc[p] = "enter" /\ pc'[p] = "copy" /\ UNCHANGED <<store, call>>
        /\ at'[p] = 1 /\ copied'[p] = <<>> /\ p \notin errors'
        /\ result' = result /\ (Undisturbed(p)' => Undisturbed(p))
    BY DEF EnterWorkdir, OneReplay, Reset, Undisturbed
  <1>2. Started(p)' /\ Answer(p)'
    BY <1>1, SameCall DEF Running
  <1>3. Copying(p)'
    BY <1>1 DEF Copying
  <1>4. wd'[p] = p => out'[p] = Absent
    BY <1>1, ReplayAssumption DEF EnterWorkdir, Clear, Dir, call
  <1> QED
    BY <1>1, <1>2, <1>3, <1>4 DEF OneReplay, Reset, Laid, Faithful, Outcome

LEMMA CopyStep ==
    ASSUME IInv, NEW p \in Proc, CopyParent(p)
    PROVE  OneReplay(p)'
  <1> USE DEF IInv, TypeOK
  <1>1. /\ pc[p] = "copy" /\ pc' = pc /\ UNCHANGED <<store, call>>
        /\ UNCHANGED <<listed, params, script, out, result, mixed>>
        /\ Undisturbed(p)' => Undisturbed(p)
    BY DEF CopyParent, Read, Undisturbed, files
  <1>2. Started(p)' /\ Answer(p)'
    BY <1>1, SameCall
  <1>3. Copying(p)'
    <2> DEFINE b == obj[Parents(node[p])[at[p]]]
    <2>1. CASE b = Absent
      BY <2>1 DEF CopyParent, Copying
    <2>r. p \notin met' => p \notin met /\ Settled(Parents(node[p])[at[p]]) = b
      BY DEF CopyParent, Read, Settled
    <2>2. CASE b # Absent
      <3>1. at[p] \in DOMAIN Parents(node[p]) /\ Parents(node[p])[at[p]] \in Digest
        BY <1>1, ManifestTyped DEF CopyParent
      <3>2. b \in Bytes /\ copied[p] \in Seq(Bytes)
        BY <2>2, <3>1
      <3>3. /\ copied'[p] = Append(copied[p], b) /\ errors' = errors
            /\ at'[p] = at[p] + 1
        BY <2>2 DEF CopyParent
      <3>4. ASSUME p \notin errors
            PROVE  /\ Len(copied[p]) = at[p] - 1
                   /\ \A i \in 1..Len(copied[p]) :
                         /\ obj[Parents(node[p])[i]] # Absent
                         /\ p \notin met => copied[p][i] = Settled(Parents(node[p])[i])
        BY <1>1, <3>4 DEF OneReplay, Copying
      <3>5. /\ Len(copied'[p]) = Len(copied[p]) + 1
            /\ \A i \in 1..Len(copied[p]) : copied'[p][i] = copied[p][i]
            /\ copied'[p][Len(copied[p]) + 1] = b
        BY <3>2, <3>3
      <3>6. Parents(node[p])' = Parents(node[p]) /\ obj' = obj /\ torn' = torn /\ node' = node
        BY <1>1 DEF store, call, Parents
      <3>7. Len(copied[p]) \in Nat
        BY <3>2
      <3> QED
        BY <2>2, <2>r, <3>3, <3>4, <3>5, <3>6, <3>7 DEF Copying, Settled
    <2> QED
      BY <2>1, <2>2
  <1>4. Outcome(p)'
    BY <1>1 DEF OneReplay, Outcome, call
  <1> QED
    BY <1>1, <1>2, <1>3, <1>4 DEF OneReplay, Reset, Laid, Faithful

LEMMA WriteStep ==
    ASSUME IInv, NEW p \in Proc, WriteInputs(p)
    PROVE  OneReplay(p)'
  <1> USE DEF IInv, TypeOK
  <1>1. /\ pc[p] = "copy" /\ pc'[p] = "run" /\ UNCHANGED <<store, call>>
        /\ UNCHANGED <<out, result, mixed>>
        /\ at'[p] = 1 /\ copied'[p] = <<>> /\ p \notin errors'
        /\ wd[p] \in Dir
        /\ Undisturbed(p)' => Undisturbed(p)
    BY DEF WriteInputs, Forget, Read, Undisturbed
  <1>2. Started(p)' /\ Answer(p)'
    BY <1>1, SameCall DEF Running
  <1>3. /\ Complete(node[p])
        /\ p \notin met => copied[p] = Inputs(node[p])
        /\ obj[man[node[p]].transform] \in Bytes
        /\ man[node[p]].params \in Params
    BY CopiedAll DEF OneReplay, WriteInputs
  <1>4. /\ params'[wd[p]] = man[node[p]].params
        /\ script'[wd[p]] = obj[man[node[p]].transform]
    BY <1>1 DEF WriteInputs
  <1>4a. Undisturbed(p)' => /\ listed'[wd[p]] = Inputs(node[p])
                            /\ script'[wd[p]] = Settled(man[node[p]].transform)
    BY <1>1, <1>3, <1>4 DEF WriteInputs, Read, Undisturbed, Settled
  <1>5. Laid(p)' /\ Faithful(p)'
    BY <1>1, <1>3, <1>4, <1>4a DEF Laid, Faithful, Complete, Inputs, Settled, Parents, store, call
  <1>6. Outcome(p)'
    BY <1>1 DEF OneReplay, Outcome, call
  <1> QED
    BY <1>1, <1>2, <1>5, <1>6 DEF OneReplay, Copying, Reset

\* Undisturbed, the transform makes of its files what the manifest promises.
LEMMA ProducedIsDerived ==
    ASSUME IInv, NEW p \in Proc, pc[p] \in {"run", "output", "judge"}, Undisturbed(p)
    PROVE  Produced(wd[p]) = Derived(node[p])
  BY DEF IInv, OneReplay, Faithful, Produced, Derived

LEMMA TransformStep ==
    ASSUME IInv, NEW p \in Proc, StartTransform(p) \/ EndTransform(p) \/ OrphanWrites(p)
    PROVE  OneReplay(p)'
  <1> USE DEF IInv, TypeOK
  <1>1. /\ pc[p] \in {"run", "output", "orphan"}
        /\ pc'[p] \in {"output", "judge", "orphan"}
        /\ pc[p] = "orphan" <=> pc'[p] = "orphan"
        /\ UNCHANGED <<store, call>>
        /\ UNCHANGED <<listed, params, script, at, copied, errors, result, mixed>>
        /\ wd[p] \in Dir
        /\ Undisturbed(p)' <=> Undisturbed(p)
    BY DEF StartTransform, EndTransform, OrphanWrites, Emit, Undisturbed
  <1>2. Started(p)' /\ Answer(p)'
    BY <1>1, SameCall DEF Running
  <1>3. Laid(p)' /\ Faithful(p)'
    BY <1>1 DEF OneReplay, Laid, Faithful, Complete, Inputs, Settled, Parents, store, call
  <1>4. Outcome(p)'
    <2>1. SUFFICES ASSUME Undisturbed(p), pc'[p] # "orphan"
                   PROVE  Outcome(p)'
      BY <1>1 DEF Outcome
    <2>2. Produced(wd[p]) = Derived(node[p])
      BY <1>1, <2>1, ProducedIsDerived
    <2>3. Derived(node[p])' = Derived(node[p]) /\ node' = node /\ wd' = wd
      BY <1>1 DEF Derived, Inputs, Settled, Parents, store, call
    <2>4. Derived(node[p]) = Absent => out' = out
      BY <1>1, <2>1, <2>2 DEF StartTransform, EndTransform, OrphanWrites, Emit
    <2>5. pc'[p] = "judge" /\ Derived(node[p]) # Absent => out'[wd[p]] = Derived(node[p])
      BY <1>1, <2>2 DEF StartTransform, EndTransform, OrphanWrites, Emit
    <2>6. pc'[p] \in {"output", "judge"}
      BY <1>1, <2>1
    <2> QED
      BY <1>1, <2>1, <2>3, <2>4, <2>5, <2>6 DEF OneReplay, Outcome
  <1> QED
    BY <1>1, <1>2, <1>3, <1>4 DEF OneReplay, Copying, Reset

LEMMA ReturnStep ==
    ASSUME IInv, NEW p \in Proc,
           GiveUp(p) \/ NoRunner(p) \/ TransformFails(p) \/ Judge(p)
    PROVE  OneReplay(p)'
  <1> USE DEF IInv, TypeOK
  <1>1. PICK r \in Results : Return(p, r)
    BY DEF GiveUp, NoRunner, TransformFails, Judge, Results
  <1>2. /\ pc'[p] = "idle" /\ at'[p] = 1 /\ copied'[p] = <<>> /\ p \notin errors'
        /\ UNCHANGED <<store, call, mixed>>
        /\ Undisturbed(p)' <=> Undisturbed(p)
    BY <1>1 DEF Return, Forget, Undisturbed
  <1>3. Answer(p)'
    <2>1. CASE GiveUp(p) \/ NoRunner(p) \/ TransformFails(p)
      BY <2>1 DEF GiveUp, NoRunner, TransformFails, Return, Answer
    <2>2. CASE Judge(p)
      <3>1. SUFFICES ASSUME Undisturbed(p)
                     PROVE  Answer(p)'
        BY <1>2 DEF Answer
      <3>2. node[p] \in Node /\ wd[p] \in {p} \cup Shared /\ pc[p] = "judge"
        BY <2>2 DEF Owned, Judge
      <3>3. Complete(node[p])
        BY <3>2 DEF OneReplay, Faithful
      <3>4. /\ wd[p] = p /\ Derived(node[p]) = Absent => out[p] = Absent
            /\ Derived(node[p]) # Absent => out[wd[p]] = Derived(node[p])
        BY <3>1, <3>2 DEF OneReplay, Outcome
      <3>5. /\ result'[p] = "ok" => out[wd[p]] = node[p]
            /\ result'[p] = "no_output" => out[wd[p]] = Absent
            /\ result'[p] = "mismatch" => out[wd[p]] # node[p]
        BY <2>2 DEF Judge, Return
      <3>6. node[p] # Absent
        BY <3>2, ReplayAssumption DEF Bytes, Digest
      <3>7. /\ Complete(node[p])' = Complete(node[p])
            /\ Derived(node[p])' = Derived(node[p]) /\ node' = node /\ wd' = wd
        BY <1>2 DEF Complete, Derived, Inputs, Settled, Parents, store, call
      <3> QED
        BY <3>2, <3>3, <3>4, <3>5, <3>6, <3>7 DEF Answer
    <2> QED
      BY <2>1, <2>2
  <1> QED
    BY <1>2, <1>3 DEF OneReplay, Started, Running, Copying, Reset, Laid, Faithful, Outcome

LEMMA KillStep ==
    ASSUME IInv, NEW p \in Proc, Kill(p) \/ OrphanEnds(p)
    PROVE  OneReplay(p)'
  <1> USE DEF IInv, TypeOK
  <1>1. /\ pc'[p] \in {"orphan", "killed"}
        /\ pc'[p] = "orphan" => pc[p] = "output"
        /\ UNCHANGED <<store, call>>
        /\ UNCHANGED <<listed, params, script, out, result, mixed>>
        /\ Undisturbed(p)' <=> Undisturbed(p)
    BY DEF Kill, OrphanEnds, files, Undisturbed
  <1>2. Started(p)' /\ Answer(p)'
    BY <1>1, SameCall DEF Running
  <1>3. Reset(p)'
    BY DEF Kill, OrphanEnds, Forget, OneReplay, Reset
  <1> QED
    BY <1>1, <1>2, <1>3 DEF OneReplay, Copying, Laid, Faithful, Outcome, call

(***************************************************************************)
(* The theorems                                                            *)
(***************************************************************************)

LEMMA InitIInv == Init => IInv
  <1> SUFFICES ASSUME Init
               PROVE  IInv
    OBVIOUS
  <1>1. PICK g \in Ledgers : man = g.man /\ obj = g.obj
    BY DEF Init
  <1>2. man \in [Node -> Record] /\ obj \in [Digest -> Bytes \cup {Absent}]
    BY <1>1, ReplayAssumption
  <1>3. <<>> \in InputLists /\ (CHOOSE n \in Node : TRUE) \in Node /\ 0 \in 0..MaxKills
    <2>1. <<>> \in [DOMAIN <<>> -> Bytes]
      OBVIOUS
    <2> QED
      BY <2>1, ReplayAssumption DEF InputLists
  <1>4. TypeOK
    BY <1>2, <1>3, ReplayAssumption DEF Init, TypeOK, Dir, Results
  <1> QED
    BY <1>4 DEF Init, IInv, Owned, Apart, Inside, TempDirsRemoved, OneReplay, Started, Running,
        Copying, Reset, Laid, Faithful, Outcome, Answer

LEMMA NextIInv == IInv /\ [Next]_vars => IInv'
  <1> SUFFICES ASSUME IInv, [Next]_vars
               PROVE  IInv'
    OBVIOUS
  <1>1. TypeOK' /\ Owned' /\ Apart' /\ TempDirsRemoved'
    BY TypeStep, OwnedStep, ApartStep, TempStep
  <1>2. ASSUME NEW q \in Proc
        PROVE  OneReplay(q)'
    <2>1. CASE UNCHANGED vars
      BY <2>1 DEF IInv, vars, store, call, files, OneReplay, Started, Copying, Reset, Laid,
          Faithful, Outcome, Answer, Parents, Complete, Inputs, Derived, Settled, Undisturbed
    <2>2. ASSUME NEW d \in Digest, Store(d)
          PROVE  OneReplay(q)'
      BY <2>2, StoreStep
    <2>3. ASSUME NEW p \in Proc, ActionOf(p), p # q
          PROVE  OneReplay(q)'
      BY <2>3, OtherStep
    <2>4. CASE ActionOf(q)
      BY <2>4, CallStep, EnterStep, CopyStep, WriteStep, TransformStep, ReturnStep, KillStep
         DEF ActionOf
    <2> QED
      BY <2>1, <2>2, <2>3, <2>4, NextCases
  <1> QED
    BY <1>1, <1>2 DEF IInv

THEOREM Invariance == Spec => []IInv
  BY InitIInv, NextIInv, PTL DEF Spec

\* Every variable keeps its type; in particular, a transform is run on files
\* that are there.
THEOREM TypeCorrect == Spec => []TypeOK
  <1>1. IInv => TypeOK
    BY DEF IInv
  <1> QED
    BY <1>1, Invariance, PTL

\* ledger replay says OK for a derived node only if the derivation from the
\* objects in the store yields it, but for a stale out.bin (replay.py); unless
\* another replay was at work in its directory or it read a torn object.
THEOREM SuccessSound == Spec => []SuccessIsReproduction
  <1>1. IInv => SuccessIsReproduction
    BY DEF IInv, OneReplay, Answer, SuccessIsReproduction
  <1> QED
    BY <1>1, Invariance, PTL

\* It reports a mismatch only if the derivation yields something else, unless
\* another replay was at work in its directory or it read a torn object.
THEOREM MismatchSound == Spec => []MismatchIsReal
  <1>1. IInv => MismatchIsReal
    BY DEF IInv, OneReplay, Answer, MismatchIsReal
  <1> QED
    BY <1>1, Invariance, PTL

\* However a replay without --keep ends, its temporary directory is removed.
THEOREM NoDirLeft == Spec => []TempDirsRemoved
  <1>1. IInv => TempDirsRemoved
    BY DEF IInv
  <1> QED
    BY <1>1, Invariance, PTL

(***************************************************************************)
(* Replays without --workdir                                               *)
(***************************************************************************)

\* Only a directory given as --workdir is ever used by two replays.
MixedIsShared == \A p \in mixed : wd[p] \in Shared

LEMMA MixedStep ==
    ASSUME IInv, MixedIsShared, [Next]_vars
    PROVE  MixedIsShared'
  <1> USE DEF IInv, TypeOK, MixedIsShared
  <1>1. CASE UNCHANGED vars
    BY <1>1 DEF vars, call
  <1>2. ASSUME NEW d \in Digest, Store(d)
        PROVE  MixedIsShared'
    BY <1>2 DEF Store, Publish, PublishTorn, WriteTorn, call
  <1>3. ASSUME NEW p \in Proc, ActionOf(p)
        PROVE  MixedIsShared'
    <2>1. CASE EnterWorkdir(p)
      <3> DEFINE others == {q \in Proc \ {p} : Inside(q) /\ wd[q] = wd[p]}
      <3>1. /\ wd' = wd
            /\ mixed' = IF others = {} THEN mixed ELSE mixed \cup others \cup {p}
        BY <2>1 DEF EnterWorkdir, call
      <3>2. others # {} => wd[p] \in Shared
        BY ReplayAssumption DEF Owned
      <3> QED
        BY <3>1, <3>2
    <2>2. CASE \E n \in Node, d \in {p} \cup Shared :
                 ReplayRoot(p, n, d) \/ RefuseReplay(p, n, d) \/ BeginReplay(p, n, d)
      BY <2>2 DEF ReplayRoot, RefuseReplay, BeginReplay, Called
    <2>3. CASE \/ CopyParent(p) \/ GiveUp(p) \/ WriteInputs(p) \/ NoRunner(p)
               \/ StartTransform(p) \/ EndTransform(p) \/ TransformFails(p) \/ Judge(p)
               \/ Kill(p) \/ OrphanWrites(p) \/ OrphanEnds(p)
      BY <2>3 DEF CopyParent, GiveUp, WriteInputs, NoRunner, StartTransform, EndTransform,
          TransformFails, Judge, Kill, OrphanWrites, OrphanEnds, Return, call
    <2> QED
      BY <1>3, <2>1, <2>2, <2>3 DEF ActionOf
  <1> QED
    BY <1>1, <1>2, <1>3, NextCases

\* A replay in a temporary directory, if it read no torn object, needs none of
\* the other exceptions: whatever other replays run or were killed, and whatever
\* is stored or torn before and after, "OK" for a derived node says that the
\* derivation yields it, and a mismatch that it does not; so no two such
\* replays of one node ever disagree.
THEOREM TemporaryReplaysDecide ==
    Spec => [](\A p \in Proc : wd[p] \notin Shared /\ p \notin met /\ Parents(node[p]) # <<>> =>
                  /\ result[p] = "ok" =>
                        Complete(node[p]) /\ Derived(node[p]) = node[p]
                  /\ result[p] \in {"mismatch", "no_output"} =>
                        Complete(node[p]) /\ Derived(node[p]) # node[p])
  <1>1. Init => MixedIsShared
    BY DEF Init, MixedIsShared
  <1>2. IInv /\ MixedIsShared =>
           \A p \in Proc : wd[p] \notin Shared /\ p \notin met /\ Parents(node[p]) # <<>> =>
              /\ result[p] = "ok" =>
                    Complete(node[p]) /\ Derived(node[p]) = node[p]
              /\ result[p] \in {"mismatch", "no_output"} =>
                    Complete(node[p]) /\ Derived(node[p]) # node[p]
    BY DEF IInv, OneReplay, Answer, Undisturbed, MixedIsShared
  <1>3. IInv /\ MixedIsShared /\ [Next]_vars => MixedIsShared'
    BY MixedStep
  <1> QED
    BY <1>1, <1>2, <1>3, Invariance, PTL DEF Spec

(***************************************************************************)
(* Replays beside commands that do not race                                *)
(***************************************************************************)

NothingTorn == torn = {} /\ met = {}

\* Where no two commands store the same bytes at the same time, no replay reads
\* a torn object: this exception is one of races only (cas.py:73-74).
THEOREM TearsComeFromRaces ==
    ASSUME Racing = {}
    PROVE  Spec => []NothingTorn
<1>1. Init => NothingTorn
  BY DEF Init, NothingTorn
<1>2. NothingTorn /\ [Next]_vars => NothingTorn'
  <2> SUFFICES ASSUME NothingTorn, [Next]_vars
               PROVE  NothingTorn'
    OBVIOUS
  <2> USE DEF NothingTorn
  <2>1. CASE UNCHANGED vars
    BY <2>1 DEF vars, store
  <2>2. ASSUME NEW d \in Digest, Store(d)
        PROVE  NothingTorn'
    BY <2>2 DEF Store, Publish, PublishTorn, WriteTorn
  <2>3. ASSUME NEW p \in Proc, ActionOf(p)
        PROVE  NothingTorn'
    BY <2>3 DEF ActionOf, ReplayRoot, RefuseReplay, BeginReplay, Called, EnterWorkdir,
        CopyParent, GiveUp, WriteInputs, Read, NoRunner, StartTransform, EndTransform,
        TransformFails, Judge, Kill, OrphanWrites, OrphanEnds, Return, store
  <2> QED
    BY <2>1, <2>2, <2>3, NextCases
<1> QED
  BY <1>1, <1>2, PTL DEF Spec
=============================================================================
