--------------------------- MODULE GitGate_proofs ---------------------------
(***************************************************************************)
(* Theorems about the append-only gate, for every set of paths, contents   *)
(* and branches.                                                           *)
(***************************************************************************)
EXTENDS GitGate, TLAPS

(***************************************************************************)
(* The check and the merge                                                 *)
(***************************************************************************)

\* A diff that passes, whatever renames git found in it, only adds.
LEMMA CheckSound ==
    ASSUME NEW old \in Tree, NEW new \in Tree, NEW ren \in Renames(old, new),
           CheckAppendOnly(old, new, ren)
    PROVE  Extends(old, new)
<1> SUFFICES ASSUME NEW p \in Protected, old[p] # Absent, new[p] # old[p] PROVE FALSE
  BY DEF Extends
<1>1. p \in Path
  BY DEF Path
<1>2. \A l \in DiffLines(old, new, ren) : TouchesProtected(l.paths) => l.status = "A"
  BY DEF CheckAppendOnly
<1>3. CASE new[p] # Absent
  <2> DEFINE l == [status |-> "M", paths |-> <<p>>]
  <2>1. l \in DiffLines(old, new, ren)
    BY <1>1, <1>3 DEF DiffLines, Modified
  <2>2. TouchesProtected(l.paths)
    BY DEF TouchesProtected
  <2>3. QED
    BY <1>2, <2>1, <2>2
<1>4. CASE new[p] = Absent /\ \E r \in ren : r[1] = p
  <2> PICK r \in ren : r[1] = p
    BY <1>4
  <2> DEFINE l == [status |-> "R", paths |-> r]
  <2>1. l \in DiffLines(old, new, ren)
    BY DEF DiffLines
  <2>2. r \in Deleted(old, new) \X Added(old, new)
    BY DEF Renames
  <2>3. TouchesProtected(l.paths)
    BY <2>2 DEF TouchesProtected
  <2>4. QED
    BY <1>2, <2>1, <2>3
<1>5. CASE new[p] = Absent /\ \A r \in ren : r[1] # p
  <2> DEFINE l == [status |-> "D", paths |-> <<p>>]
  <2>1. l \in DiffLines(old, new, ren)
    BY <1>1, <1>5 DEF DiffLines, Deleted
  <2>2. TouchesProtected(l.paths)
    BY DEF TouchesProtected
  <2>3. QED
    BY <1>2, <2>1, <2>2
<1>6. QED
  BY <1>3, <1>4, <1>5

\* A diff that only adds to the protected paths is refused at most for the
\* old name of a rename.
LEMMA CheckComplete ==
    ASSUME NEW old \in Tree, NEW new \in Tree, NEW ren \in Renames(old, new),
           Extends(old, new), ~CheckAppendOnly(old, new, ren)
    PROVE  \E p \in Other : p \in Deleted(old, new)
<1>1. PICK l \in DiffLines(old, new, ren) : TouchesProtected(l.paths) /\ l.status # "A"
  BY DEF CheckAppendOnly
<1>2. \A p \in Protected : p \notin Deleted(old, new) \cup Modified(old, new)
  BY DEF Extends, Deleted, Modified
<1>3. l.status # "M" /\ l.status # "D"
  BY <1>1, <1>2 DEF DiffLines, TouchesProtected
<1>4. PICK r \in ren : l = [status |-> "R", paths |-> r]
  BY <1>1, <1>3 DEF DiffLines
<1>5. r[1] \in Deleted(old, new)
  BY DEF Renames
<1>6. r[1] \in Path
  BY <1>5 DEF Deleted
<1>7. QED
  BY <1>2, <1>5, <1>6 DEF Path

LEMMA MergedType ==
    ASSUME NEW o \in Tree, NEW x \in Tree, NEW y \in Tree
    PROVE  Merged(o, x, y) \in Tree
BY DEF Merged, Tree

\* Merging two sides that only add to their base, wherever they do not
\* conflict, adds to each of them.
LEMMA MergeExtends ==
    ASSUME NEW o \in Tree, NEW x \in Tree, NEW y \in Tree,
           Extends(o, x), Extends(o, y),
           NEW p \in Protected \ Conflicts(o, x, y)
    PROVE  /\ x[p] # Absent => Merged(o, x, y)[p] = x[p]
           /\ y[p] # Absent => Merged(o, x, y)[p] = y[p]
<1>1. p \in Path
  BY DEF Path
<1>2. x[p] = o[p] \/ y[p] = o[p] \/ x[p] = y[p]
  BY <1>1 DEF Conflicts, Tree
<1>3. o[p] # Absent => x[p] = o[p] /\ y[p] = o[p]
  BY DEF Extends
<1>4. QED
  BY <1>1, <1>2, <1>3 DEF Merged, Tree

(***************************************************************************)
(* Types                                                                   *)
(***************************************************************************)

LEMMA InitType == Init => TypeOK
BY DEF Init, TypeOK

LEMMA TypeStep == TypeOK /\ [Next]_vars => TypeOK'
<1> SUFFICES ASSUME TypeOK, [Next]_vars PROVE TypeOK'
  OBVIOUS
<1>1. ASSUME NEW b \in Branch, Commit(b) PROVE TypeOK'
  <2>1. Extends(work[b], work'[b]) \in BOOLEAN
    BY DEF Extends
  <2>2. PICK t \in Tree :
            /\ work' = [work EXCEPT ![b] = t]
            /\ addOnly' = [addOnly EXCEPT ![b] = @ /\ Extends(work[b], t)]
    BY <1>1 DEF Commit
  <2>3. addOnly' \in [Branch -> BOOLEAN]
    BY <2>2 DEF TypeOK
  <2>4. QED
    BY <1>1, <2>2, <2>3 DEF Commit, TypeOK
<1>2. ASSUME NEW b \in Branch, UpdateBranch(b) PROVE TypeOK'
  <2>1. PICK t \in Tree :
            /\ work' = [work EXCEPT ![b] = t]
            /\ addOnly' = [addOnly EXCEPT ![b] =
                              @ /\ Extends(work[b], t) /\ Extends(main, t)]
    BY <1>2 DEF UpdateBranch
  <2>2. addOnly' \in [Branch -> BOOLEAN]
    BY <2>1 DEF TypeOK
  <2>3. QED
    BY <1>2, <2>1, <2>2 DEF UpdateBranch, TypeOK
<1>3. ASSUME NEW b \in Branch, PullRequestGate(b) PROVE TypeOK'
  BY <1>3 DEF PullRequestGate, TypeOK, Mergeable
<1>4. ASSUME NEW b \in Branch, MergePullRequest(b) PROVE TypeOK'
  <2>1. main' \in Tree
    BY <1>4, MergedType DEF MergePullRequest, MergeCommit, TypeOK
  <2>2. history' \in BOOLEAN
    BY <1>4 DEF MergePullRequest
  <2>3. QED
    BY <1>4, <2>1, <2>2 DEF MergePullRequest, TypeOK
<1>5. CASE UNCHANGED vars
  BY <1>5 DEF vars, TypeOK
<1>6. QED
  BY <1>1, <1>2, <1>3, <1>4, <1>5 DEF Next

\* The variables keep their types; a verdict is always on a branch that has
\* something to merge.
THEOREM TypeCorrect == Spec => []TypeOK
BY InitType, TypeStep, PTL DEF Spec

(***************************************************************************)
(* The default branch                                                      *)
(***************************************************************************)

\* The default branch extends what every branch has merged of it, and so does
\* every branch that was found green.
GateInv ==
    \A b \in Branch :
        /\ Extends(fork[b], main)
        /\ verdict[b] = "green" => Extends(fork[b], work[b])
        /\ addOnly[b] => Extends(fork[b], work[b])

LEMMA ExtendsRefl == ASSUME NEW t PROVE Extends(t, t)
BY DEF Extends

LEMMA ExtendsTrans ==
    ASSUME NEW r, NEW s, NEW t, Extends(r, s), Extends(s, t)
    PROVE  Extends(r, t)
BY DEF Extends

\* A merge commit that extends the default branch shows that the branch
\* extends its fork: what it had changed would be changed in the merge.
LEMMA GreenMeansExtends ==
    ASSUME NEW o \in Tree, NEW x \in Tree, NEW y \in Tree,
           Extends(o, x), Extends(x, Merged(o, x, y))
    PROVE  Extends(o, y)
<1> SUFFICES ASSUME NEW p \in Protected, o[p] # Absent PROVE y[p] = o[p]
  BY DEF Extends
<1>1. p \in Path /\ x[p] = o[p]
  BY DEF Path, Extends
<1>2. Merged(o, x, y)[p] = x[p]
  BY <1>1 DEF Extends
<1>3. QED
  BY <1>1, <1>2 DEF Merged, Tree

\* What a merged pull request makes of the default branch.
LEMMA MergeStep ==
    ASSUME TypeOK, GateInv, NEW b \in Branch, MergePullRequest(b)
    PROVE  Extends(main, main') /\ Extends(work[b], main')
<1>1. Extends(fork[b], main) /\ Extends(fork[b], work[b])
  BY DEF GateInv, MergePullRequest
<1>2. main' = Merged(fork[b], main, work[b]) /\ Conflicts(fork[b], main, work[b]) = {}
  BY DEF MergePullRequest, MergeCommit, Mergeable
<1>3. main \in Tree /\ fork[b] \in Tree /\ work[b] \in Tree
  BY DEF TypeOK
<1>4. QED
  BY <1>1, <1>2, <1>3, MergeExtends DEF Extends

LEMMA GateInit == Init => GateInv
BY ExtendsRefl DEF Init, GateInv

LEMMA GateStep == TypeOK /\ GateInv /\ [Next]_vars => GateInv' /\ Extends(main, main')
<1> SUFFICES ASSUME TypeOK, GateInv, [Next]_vars
             PROVE  GateInv' /\ Extends(main, main')
  OBVIOUS
<1>1. ASSUME NEW b \in Branch, Commit(b) PROVE GateInv' /\ Extends(main, main')
  <2>1. PICK t \in Tree :
            /\ work' = [work EXCEPT ![b] = t]
            /\ addOnly' = [addOnly EXCEPT ![b] = @ /\ Extends(work[b], t)]
    BY <1>1 DEF Commit
  <2>2. UNCHANGED <<main, fork>> /\ verdict' = [verdict EXCEPT ![b] = "none"]
    BY <1>1 DEF Commit
  <2>3. addOnly'[b] => addOnly[b] /\ Extends(work[b], work'[b])
    BY <2>1 DEF TypeOK
  <2>4. addOnly'[b] => Extends(fork'[b], work'[b])
    BY <2>2, <2>3, ExtendsTrans DEF GateInv
  <2>5. verdict'[b] = "none"
    BY <2>2 DEF TypeOK
  <2>6. \A c \in Branch \ {b} :
            work'[c] = work[c] /\ addOnly'[c] = addOnly[c] /\ verdict'[c] = verdict[c]
    BY <2>1, <2>2 DEF TypeOK
  <2>7. QED
    BY <2>2, <2>4, <2>5, <2>6, ExtendsRefl DEF GateInv
<1>2. ASSUME NEW b \in Branch, UpdateBranch(b) PROVE GateInv' /\ Extends(main, main')
  <2>1. PICK t \in Tree :
            /\ work' = [work EXCEPT ![b] = t]
            /\ addOnly' = [addOnly EXCEPT ![b] =
                              @ /\ Extends(work[b], t) /\ Extends(main, t)]
    BY <1>2 DEF UpdateBranch
  <2>2. /\ UNCHANGED main
        /\ fork' = [fork EXCEPT ![b] = main]
        /\ verdict' = [verdict EXCEPT ![b] = "none"]
    BY <1>2 DEF UpdateBranch
  <2>3. /\ fork'[b] = main /\ verdict'[b] = "none" /\ work'[b] = t
        /\ addOnly'[b] => Extends(main, t)
    BY <2>1, <2>2 DEF TypeOK
  <2>4. \A c \in Branch \ {b} :
            /\ work'[c] = work[c] /\ addOnly'[c] = addOnly[c]
            /\ verdict'[c] = verdict[c] /\ fork'[c] = fork[c]
    BY <2>1, <2>2 DEF TypeOK
  <2>5. QED
    BY <2>2, <2>3, <2>4, ExtendsRefl DEF GateInv
<1>3. ASSUME NEW b \in Branch, PullRequestGate(b) PROVE GateInv' /\ Extends(main, main')
  <2>1. UNCHANGED <<main, fork, work, addOnly>>
    BY <1>3 DEF PullRequestGate
  <2>2. main \in Tree /\ fork[b] \in Tree /\ work[b] \in Tree
    BY DEF TypeOK
  <2>3. MergeCommit(b) \in Tree
    BY <2>2, MergedType DEF MergeCommit
  <2>4. verdict'[b] = "green" => Extends(main, MergeCommit(b))
    BY <1>3, <2>2, <2>3, CheckSound DEF PullRequestGate, TypeOK
  <2>5. verdict'[b] = "green" => Extends(fork[b], work[b])
    BY <2>2, <2>4, GreenMeansExtends DEF GateInv, MergeCommit
  <2>6. \A c \in Branch \ {b} : verdict'[c] = verdict[c]
    BY <1>3 DEF PullRequestGate, TypeOK
  <2>7. QED
    BY <2>1, <2>5, <2>6, ExtendsRefl DEF GateInv
<1>4. ASSUME NEW b \in Branch, MergePullRequest(b) PROVE GateInv' /\ Extends(main, main')
  <2>1. Extends(main, main')
    BY <1>4, MergeStep
  <2>2. \A c \in Branch : Extends(fork[c], main')
    BY <2>1, ExtendsTrans DEF GateInv
  <2>3. fork'[b] = main' /\ work'[b] = main' /\ verdict'[b] = "none"
    BY <1>4 DEF MergePullRequest, TypeOK
  <2>4. \A c \in Branch \ {b} :
            /\ work'[c] = work[c] /\ addOnly'[c] = addOnly[c]
            /\ verdict'[c] = verdict[c] /\ fork'[c] = fork[c]
    BY <1>4 DEF MergePullRequest, TypeOK
  <2>5. QED
    BY <2>1, <2>2, <2>3, <2>4, ExtendsRefl DEF GateInv
<1>5. CASE UNCHANGED vars
  BY <1>5, ExtendsRefl DEF vars, GateInv
<1>6. QED
  BY <1>1, <1>2, <1>3, <1>4, <1>5 DEF Next

\* No sequence of pull requests, however late each is merged after its gate,
\* removes or changes a protected file of the default branch.
THEOREM MainIsAppendOnly == Spec => MainAppendOnly
<1>1. TypeOK /\ GateInv /\ [Next]_vars => [Extends(main, main')]_vars
  BY GateStep
<1>2. QED
  BY <1>1, InitType, TypeStep, GateInit, GateStep, PTL DEF Spec, MainAppendOnly

(***************************************************************************)
(* What is refused                                                         *)
(***************************************************************************)

LEMMA RefusalStep ==
    TypeOK /\ GateInv /\ NoFalseRefusal /\ [Next]_vars => NoFalseRefusal'
<1> SUFFICES ASSUME TypeOK, GateInv, NoFalseRefusal, [Next]_vars PROVE NoFalseRefusal'
  OBVIOUS
<1>1. ASSUME NEW b \in Branch, Commit(b) \/ UpdateBranch(b) \/ MergePullRequest(b)
      PROVE  NoFalseRefusal'
  <2>1. verdict'[b] = "none"
    BY <1>1 DEF Commit, UpdateBranch, MergePullRequest, TypeOK
  <2>2. \A c \in Branch \ {b} :
            /\ work'[c] = work[c] /\ addOnly'[c] = addOnly[c]
            /\ verdict'[c] = verdict[c] /\ fork'[c] = fork[c]
    BY <1>1 DEF Commit, UpdateBranch, MergePullRequest, TypeOK
  <2>3. QED
    BY <2>1, <2>2 DEF NoFalseRefusal
<1>2. ASSUME NEW b \in Branch, PullRequestGate(b) PROVE NoFalseRefusal'
  <2>1. UNCHANGED <<fork, work, addOnly>>
    BY <1>2 DEF PullRequestGate
  <2>2. \A c \in Branch \ {b} : verdict'[c] = verdict[c]
    BY <1>2 DEF PullRequestGate, TypeOK
  <2>3. ASSUME verdict'[b] = "red", addOnly[b]
        PROVE  \E p \in Other : fork[b][p] # Absent /\ work[b][p] = Absent
    <3>1. main \in Tree /\ fork[b] \in Tree /\ work[b] \in Tree
      BY DEF TypeOK
    <3>2. MergeCommit(b) \in Tree
      BY <3>1, MergedType DEF MergeCommit
    <3>3. PICK ren \in Renames(main, MergeCommit(b)) :
              ~CheckAppendOnly(main, MergeCommit(b), ren)
      BY <1>2, <2>3 DEF PullRequestGate, TypeOK
    <3>4. Extends(fork[b], main) /\ Extends(fork[b], work[b])
      BY <2>3 DEF GateInv
    <3>5. Conflicts(fork[b], main, work[b]) = {}
      BY <1>2 DEF PullRequestGate, Mergeable
    <3>6. Extends(main, MergeCommit(b))
      BY <3>1, <3>4, <3>5, MergeExtends DEF Extends, MergeCommit
    <3>7. PICK p \in Other : p \in Deleted(main, MergeCommit(b))
      BY <3>1, <3>2, <3>3, <3>6, CheckComplete
    <3>8. p \in Path /\ main[p] # Absent /\ MergeCommit(b)[p] = Absent
      BY <3>7 DEF Deleted
    <3>9. main[p] = fork[b][p] /\ work[b][p] = Absent
      BY <3>1, <3>8 DEF MergeCommit, Merged, Tree
    <3>10. QED
      BY <3>8, <3>9
  <2>4. QED
    BY <2>1, <2>2, <2>3 DEF NoFalseRefusal
<1>3. CASE UNCHANGED vars
  BY <1>3 DEF vars, NoFalseRefusal
<1>4. QED
  BY <1>1, <1>2, <1>3 DEF Next

\* A pull request whose commits only add to the protected prefixes is refused
\* at most because of a file it deletes elsewhere.
THEOREM RefusalsHaveCause == Spec => []NoFalseRefusal
<1>1. Init => NoFalseRefusal
  BY DEF Init, NoFalseRefusal
<1>2. QED
  BY <1>1, InitType, TypeStep, GateInit, GateStep, RefusalStep, PTL DEF Spec

(***************************************************************************)
(* Clones with the hook                                                    *)
(***************************************************************************)

\* Where b differs for good from a protected file of the default branch.
Stuck(b) ==
    \E p \in Protected : /\ fork[b][p] # Absent
                         /\ work[b][p] # Absent
                         /\ work[b][p] # fork[b][p]

\* In a clone with the hook, a commit that does more than add can only come
\* from a conflict resolved against the default branch, and then the hook
\* itself keeps the branch from ever becoming mergeable again.
HookInv ==
    /\ \A b \in Branch : hooked[b] => addOnly[b] \/ Stuck(b)
    /\ HookedHistoryAddOnly

LEMMA HookSound ==
    ASSUME TypeOK, NEW b \in Branch, NEW t \in Tree, hooked[b], HookAllows(b, t)
    PROVE  Extends(work[b], t)
BY CheckSound DEF HookAllows, TypeOK

LEMMA HookStep == TypeOK /\ GateInv /\ HookInv /\ [Next]_vars => HookInv'
<1> SUFFICES ASSUME TypeOK, GateInv, HookInv, [Next]_vars PROVE HookInv'
  OBVIOUS
<1>1. ASSUME NEW b \in Branch, Commit(b) PROVE HookInv'
  <2>1. PICK t \in Tree :
            /\ HookAllows(b, t)
            /\ work' = [work EXCEPT ![b] = t]
            /\ addOnly' = [addOnly EXCEPT ![b] = @ /\ Extends(work[b], t)]
    BY <1>1 DEF Commit
  <2>2. UNCHANGED <<hooked, main, fork, history>>
    BY <1>1 DEF Commit
  <2>3. work'[b] = t /\ (addOnly'[b] <=> addOnly[b] /\ Extends(work[b], t))
    BY <2>1 DEF TypeOK
  <2>4. \A c \in Branch \ {b} : work'[c] = work[c] /\ addOnly'[c] = addOnly[c]
    BY <2>1 DEF TypeOK
  <2>5. hooked[b] => addOnly'[b] \/ Stuck(b)'
    <3> SUFFICES ASSUME hooked[b], ~addOnly'[b] PROVE Stuck(b)'
      OBVIOUS
    <3>1. Extends(work[b], t)
      BY <2>1, HookSound
    <3>2. Stuck(b)
      BY <2>3, <3>1 DEF HookInv
    <3>3. QED
      BY <2>2, <2>3, <3>1, <3>2 DEF Stuck, Extends
  <2>6. QED
    BY <2>2, <2>4, <2>5 DEF HookInv, HookedHistoryAddOnly, Stuck
<1>2. ASSUME NEW b \in Branch, UpdateBranch(b) PROVE HookInv'
  <2> DEFINE K == Conflicts(fork[b], main, work[b])
  <2>1. PICK t \in Tree :
            /\ \A p \in Path \ K : t[p] = Merged(fork[b], main, work[b])[p]
            /\ K # {} => HookAllows(b, t)
            /\ work' = [work EXCEPT ![b] = t]
            /\ addOnly' = [addOnly EXCEPT ![b] =
                              @ /\ Extends(work[b], t) /\ Extends(main, t)]
    BY <1>2 DEF UpdateBranch
  <2>2. UNCHANGED <<hooked, main, history>> /\ fork' = [fork EXCEPT ![b] = main]
    BY <1>2 DEF UpdateBranch
  <2>3. /\ work'[b] = t /\ fork'[b] = main
        /\ addOnly'[b] <=> addOnly[b] /\ Extends(work[b], t) /\ Extends(main, t)
    BY <2>1, <2>2 DEF TypeOK
  <2>4. \A c \in Branch \ {b} :
            work'[c] = work[c] /\ addOnly'[c] = addOnly[c] /\ fork'[c] = fork[c]
    BY <2>1, <2>2 DEF TypeOK
  <2>5. main \in Tree /\ fork[b] \in Tree /\ work[b] \in Tree /\ Protected \subseteq Path
    BY DEF TypeOK, Path
  <2>6. Extends(fork[b], main)
    BY DEF GateInv
  <2>7. ASSUME hooked[b], Stuck(b) PROVE Stuck(b)'
    <3>1. PICK p \in Protected : /\ fork[b][p] # Absent
                                 /\ work[b][p] # Absent
                                 /\ work[b][p] # fork[b][p]
      BY <2>7 DEF Stuck
    <3>2. main[p] = fork[b][p] /\ p \in Path \ K
      BY <2>5, <2>6, <3>1 DEF Extends, Conflicts
    <3>3. t[p] = work[b][p]
      BY <2>1, <2>5, <3>2 DEF Merged, Tree
    <3>4. QED
      BY <2>3, <3>1, <3>2, <3>3 DEF Stuck
  <2>8. ASSUME hooked[b], addOnly[b] PROVE addOnly'[b] \/ Stuck(b)'
    <3>1. Extends(fork[b], work[b])
      BY <2>8 DEF GateInv
    <3>2. Extends(work[b], t)
      <4>1. CASE K = {}
        BY <2>1, <2>5, <2>6, <3>1, <4>1, MergeExtends DEF Extends
      <4>2. CASE K # {}
        BY <2>1, <2>8, <4>2, HookSound
      <4>3. QED
        BY <4>1, <4>2
    <3>3. ASSUME ~Extends(main, t) PROVE Stuck(b)'
      <4>1. PICK p \in Protected : main[p] # Absent /\ t[p] # main[p]
        BY <3>3 DEF Extends
      <4>2. p \in K
        BY <2>1, <2>5, <2>6, <3>1, <4>1, MergeExtends
      <4>3. work[b][p] # Absent
        BY <3>1, <4>2 DEF Conflicts, Extends
      <4>4. t[p] = work[b][p]
        BY <3>2, <4>3 DEF Extends
      <4>5. QED
        BY <2>3, <4>1, <4>3, <4>4 DEF Stuck
    <3>4. QED
      BY <2>3, <2>8, <3>2, <3>3
  <2>9. QED
    BY <2>2, <2>4, <2>7, <2>8 DEF HookInv, HookedHistoryAddOnly, Stuck
<1>3. ASSUME NEW b \in Branch, PullRequestGate(b) PROVE HookInv'
  BY <1>3 DEF PullRequestGate, HookInv, HookedHistoryAddOnly, Stuck
<1>4. ASSUME NEW b \in Branch, MergePullRequest(b) PROVE HookInv'
  <2>1. /\ hooked' = hooked
        /\ history' = (history /\ addOnly[b] /\ Extends(main, main') /\ Extends(work[b], main'))
        /\ addOnly'[b]
    BY <1>4 DEF MergePullRequest, TypeOK
  <2>2. \A c \in Branch \ {b} :
            work'[c] = work[c] /\ addOnly'[c] = addOnly[c] /\ fork'[c] = fork[c]
    BY <1>4 DEF MergePullRequest, TypeOK
  <2>3. Extends(fork[b], work[b])
    BY <1>4 DEF GateInv, MergePullRequest
  <2>4. ~Stuck(b)
    BY <2>3 DEF Stuck, Extends
  <2>5. hooked[b] => addOnly[b]
    BY <2>4 DEF HookInv
  <2>6. (\A c \in Branch : hooked[c]) => history'
    BY <1>4, <2>1, <2>5, MergeStep DEF HookInv, HookedHistoryAddOnly
  <2>7. QED
    BY <2>1, <2>2, <2>6 DEF HookInv, HookedHistoryAddOnly, Stuck
<1>5. CASE UNCHANGED vars
  BY <1>5 DEF vars, HookInv, HookedHistoryAddOnly, Stuck
<1>6. QED
  BY <1>1, <1>2, <1>3, <1>4, <1>5 DEF Next

\* The hook and the hosted gate together keep every single commit of the
\* default branch's history add-only: what the hook cannot see, a conflict
\* resolved against the default branch, it does not let through to a green
\* gate either.
THEOREM HookedHistoryIsAddOnly == Spec => []HookedHistoryAddOnly
<1>1. Init => HookInv
  BY DEF Init, HookInv, HookedHistoryAddOnly
<1>2. HookInv => HookedHistoryAddOnly
  BY DEF HookInv
<1>3. QED
  BY <1>1, <1>2, InitType, TypeStep, GateInit, GateStep, HookStep, PTL DEF Spec
=============================================================================
