-------------------------- MODULE FrozenGate_proofs --------------------------
(***************************************************************************)
(* Theorems about the frozen pins, for every set of files, contents and    *)
(* branches.                                                               *)
(***************************************************************************)
EXTENDS FrozenGate, TLAPS

LEMMA MergedType ==
    ASSUME NEW o \in Tree, NEW x \in Tree, NEW y \in Tree
    PROVE  Merged(o, x, y) \in Tree
BY DEF Merged, Tree

\* A file and its line pass through a merge together: where they agree in the
\* base and on both sides they agree in the merge, unless the line is new.
LEMMA MergeHolds ==
    ASSUME NEW o \in Tree, NEW x \in Tree, NEW y \in Tree, NEW f \in Frozen,
           Conflicts(o, x, y) = {},
           Holds(o, f), Holds(x, f), Holds(y, f),
           Line(o, f) = Absent => Line(x, f) = Absent /\ Line(y, f) = Absent
    PROVE  Holds(Merged(o, x, y), f)
<1> DEFINE p == <<f, "file">>
           l == <<f, "line">>
<1>1. p \in Path /\ l \in Path
  BY DEF Path
<1>2. \A q \in Path : x[q] = o[q] \/ y[q] = o[q] \/ x[q] = y[q]
  BY DEF Conflicts, Tree
<1>3. \A q \in Path : Merged(o, x, y)[q] = IF x[q] = o[q] THEN y[q] ELSE x[q]
  BY DEF Merged, Tree
<1>4. /\ o[l] # Absent => o[p] = o[l]
      /\ x[l] # Absent => x[p] = x[l]
      /\ y[l] # Absent => y[p] = y[l]
      /\ o[l] = Absent => x[l] = Absent /\ y[l] = Absent
  BY DEF Holds, Line, File
<1> HIDE DEF p, l
<1>5. Merged(o, x, y)[l] # Absent => Merged(o, x, y)[p] = Merged(o, x, y)[l]
  BY <1>1, <1>2, <1>3, <1>4
<1>6. QED
  BY <1>5 DEF Holds, Line, File, p, l

\* The same where only the second side may have a line that the base has not,
\* and the merge then has it too.
LEMMA MergeHoldsOrAdds ==
    ASSUME NEW o \in Tree, NEW x \in Tree, NEW y \in Tree, NEW f \in Frozen,
           Conflicts(o, x, y) = {},
           Holds(o, f), Holds(x, f), Holds(y, f),
           Line(o, f) = Absent => Line(x, f) = Absent
    PROVE  \/ Holds(Merged(o, x, y), f)
           \/ Line(x, f) = Absent /\ Line(Merged(o, x, y), f) # Absent
<1>1. CASE Line(o, f) = Absent /\ Line(y, f) # Absent
  <2>1. Line(Merged(o, x, y), f) = Line(y, f) /\ Line(x, f) = Absent
    BY <1>1 DEF Merged, Line, Tree, Path
  <2>2. QED
    BY <1>1, <2>1
<1>2. CASE ~(Line(o, f) = Absent /\ Line(y, f) # Absent)
  BY <1>2, MergeHolds
<1>3. QED
  BY <1>1, <1>2

(***************************************************************************)
(* Types                                                                   *)
(***************************************************************************)

LEMMA InitType == Init => TypeOK
BY DEF Init, TypeOK

LEMMA TypeStep == TypeOK /\ [Next]_vars => TypeOK'
<1> SUFFICES ASSUME TypeOK, [Next]_vars PROVE TypeOK'
  OBVIOUS
<1>1. ASSUME NEW b \in Branch, Commit(b) PROVE TypeOK'
  BY <1>1 DEF Commit, TypeOK
<1>2. ASSUME NEW b \in Branch, UpdateBranch(b) PROVE TypeOK'
  <2>1. PICK t \in Tree : work' = [work EXCEPT ![b] = t]
    BY <1>2 DEF UpdateBranch
  <2>2. QED
    BY <1>2, <2>1 DEF UpdateBranch, TypeOK
<1>3. ASSUME NEW b \in Branch, PullRequestRun(b) PROVE TypeOK'
  <2>1. PICK v \in {"green", "red"} : verdict' = [verdict EXCEPT ![b] = v]
    BY <1>3 DEF PullRequestRun
  <2>2. work[b] # fork[b]
    BY <1>3 DEF PullRequestRun, Mergeable
  <2>3. QED
    BY <1>3, <2>1, <2>2 DEF PullRequestRun, TypeOK
<1>4. ASSUME NEW b \in Branch, MergePullRequest(b) PROVE TypeOK'
  <2>1. MergeCommit(b) \in Tree
    BY MergedType DEF TypeOK, MergeCommit
  <2>2. main' \in Tree /\ newlines' \in SUBSET Frozen
    BY <1>4, <2>1 DEF MergePullRequest, TypeOK
  <2>3. QED
    BY <1>4, <2>2 DEF MergePullRequest, TypeOK
<1>5. CASE UNCHANGED vars
  BY <1>5 DEF vars, TypeOK
<1>6. QED
  BY <1>1, <1>2, <1>3, <1>4, <1>5 DEF Next

\* The variables keep their types, and a verdict is about a tip with changes.
THEOREM TypeCorrect == Spec => []TypeOK
BY InitType, TypeStep, PTL DEF Spec

(***************************************************************************)
(* The pins                                                                *)
(***************************************************************************)

\* What makes MainPinsHold inductive: of a file whose line main has not
\* gained, every branch left main where the pin held, and a line that was not
\* there then is still not there.
Kept(f) ==
    /\ Holds(main, f)
    /\ \A b \in Branch :
          /\ Holds(fork[b], f)
          /\ Line(fork[b], f) = Absent => Line(main, f) = Absent

PinInv == \A f \in Frozen \ newlines : Kept(f)

LEMMA InitPins == Init => PinInv
BY DEF Init, PinInv, Kept

LEMMA PinStep == TypeOK /\ PinInv /\ [Next]_vars => PinInv'
<1> SUFFICES ASSUME TypeOK, PinInv, [Next]_vars PROVE PinInv'
  OBVIOUS
<1>1. ASSUME NEW b \in Branch, Commit(b) \/ PullRequestRun(b) PROVE PinInv'
  <2>1. UNCHANGED <<main, fork, newlines>>
    BY <1>1 DEF Commit, PullRequestRun
  <2>2. QED
    BY <2>1 DEF PinInv, Kept
<1>2. ASSUME NEW b \in Branch, UpdateBranch(b) PROVE PinInv'
  <2>1. main' = main /\ newlines' = newlines /\ fork' = [fork EXCEPT ![b] = main]
    BY <1>2 DEF UpdateBranch
  <2>2. \A c \in Branch : fork'[c] = fork[c] \/ fork'[c] = main
    BY <2>1 DEF TypeOK
  <2>3. SUFFICES ASSUME NEW f \in Frozen \ newlines PROVE Kept(f)'
    BY <2>1 DEF PinInv
  <2>4. Kept(f)
    BY DEF PinInv
  <2>5. \A c \in Branch : /\ Holds(fork'[c], f)
                          /\ Line(fork'[c], f) = Absent => Line(main, f) = Absent
    BY <2>2, <2>4 DEF Kept
  <2>6. QED
    BY <2>1, <2>4, <2>5 DEF Kept
<1>3. ASSUME NEW b \in Branch, MergePullRequest(b) PROVE PinInv'
  <2>1. SUFFICES ASSUME NEW f \in Frozen \ newlines' PROVE Kept(f)'
    BY DEF PinInv
  <2>2. /\ main' = MergeCommit(b)
        /\ fork' = [fork EXCEPT ![b] = main']
        /\ newlines' = newlines \cup
              {g \in Frozen : Line(main, g) = Absent /\ Line(main', g) # Absent}
        /\ Holds(work[b], f)
        /\ Conflicts(fork[b], main, work[b]) = {}
    BY <1>3 DEF MergePullRequest, Mergeable, PushRun, CheckFrozen
  <2>3. f \notin newlines /\ (Line(main, f) = Absent => Line(main', f) = Absent)
    BY <2>2
  <2>4. Kept(f)
    BY <2>3 DEF PinInv
  <2>5. main \in Tree /\ fork[b] \in Tree /\ work[b] \in Tree
    BY DEF TypeOK
  <2>6. Holds(main', f)
    BY <2>2, <2>3, <2>4, <2>5, MergeHoldsOrAdds DEF Kept, MergeCommit
  <2>7. \A c \in Branch : fork'[c] = fork[c] \/ fork'[c] = main'
    BY <2>2 DEF TypeOK
  <2>8. \A c \in Branch : /\ Holds(fork'[c], f)
                          /\ Line(fork'[c], f) = Absent => Line(main', f) = Absent
    BY <2>3, <2>4, <2>6, <2>7 DEF Kept
  <2>9. QED
    BY <2>6, <2>8 DEF Kept
<1>4. CASE UNCHANGED vars
  BY <1>4 DEF vars, PinInv, Kept
<1>5. QED
  BY <1>1, <1>2, <1>3, <1>4 DEF Next

\* The pins hold on the default branch, however late pull requests are merged
\* after their runs.
THEOREM PinsHold == Spec => []MainPinsHold
<1>1. PinInv => MainPinsHold
  BY DEF PinInv, Kept, MainPinsHold
<1>2. QED
  BY <1>1, InitType, TypeStep, InitPins, PinStep, PTL DEF Spec

\* The bytes of a pinned file never change on the default branch without a
\* change of their line.
THEOREM ChangesAreLoud == Spec => FrozenChangeIsLoud
<1>1. TypeOK /\ PinInv /\ PinInv' /\ [Next]_vars =>
        [\A f \in Frozen \ newlines' :
            Line(main, f) # Absent /\ File(main', f) # File(main, f) =>
                Line(main', f) # Line(main, f)]_vars
  <2> SUFFICES ASSUME TypeOK, PinInv, PinInv', [Next]_vars,
                      NEW f \in Frozen \ newlines',
                      Line(main, f) # Absent, Line(main', f) = Line(main, f)
               PROVE  File(main', f) = File(main, f)
    OBVIOUS
  <2>1. newlines \subseteq newlines'
    <3>1. \A b \in Branch : Commit(b) \/ UpdateBranch(b) \/ PullRequestRun(b)
                               => newlines' = newlines
      BY DEF Commit, UpdateBranch, PullRequestRun
    <3>2. \A b \in Branch : MergePullRequest(b) => newlines \subseteq newlines'
      BY DEF MergePullRequest
    <3>3. QED
      BY <3>1, <3>2 DEF Next, vars
  <2>2. Holds(main, f) /\ Holds(main', f)
    BY <2>1 DEF PinInv, Kept
  <2>3. QED
    BY <2>2 DEF Holds
<1>2. QED
  BY <1>1, InitType, TypeStep, InitPins, PinStep, PTL DEF Spec, FrozenChangeIsLoud

\* A pull request of a branch that passes is refused at most for a line that
\* is new on one of the two sides.
THEOREM RefusalsHaveCause == Spec => RefusalHasCause
<1> DEFINE Cause(b) ==
        /\ verdict[b] # "red" /\ verdict'[b] = "red"
        /\ \A f \in Frozen : Holds(fork[b], f) /\ Holds(main, f) /\ Holds(work[b], f)
        => \E f \in Frozen :
              /\ Line(fork[b], f) = Absent
              /\ {Line(main, f), Line(work[b], f)} # {Absent}
<1>1. TypeOK /\ [Next]_vars => \A b \in Branch : Cause(b)
  <2> SUFFICES ASSUME TypeOK, [Next]_vars, NEW b \in Branch,
                      verdict[b] # "red", verdict'[b] = "red",
                      \A f \in Frozen : /\ Holds(fork[b], f)
                                        /\ Holds(main, f) /\ Holds(work[b], f)
               PROVE  \E f \in Frozen :
                        /\ Line(fork[b], f) = Absent
                        /\ {Line(main, f), Line(work[b], f)} # {Absent}
    OBVIOUS
  <2> PICK c \in Branch : PullRequestRun(c)
    <3>1. ASSUME NEW c \in Branch, Commit(c) \/ UpdateBranch(c) \/ MergePullRequest(c)
          PROVE  verdict'[b] \in {"none", verdict[b]}
      BY <3>1 DEF Commit, UpdateBranch, MergePullRequest, TypeOK
    <3>2. UNCHANGED vars => verdict'[b] = verdict[b]
      BY DEF vars
    <3>3. QED
      BY <3>1, <3>2 DEF Next
  <2>1. b = c
    BY DEF PullRequestRun, TypeOK
  <2>2. ~CheckFrozen(MergeCommit(b)) /\ Conflicts(fork[b], main, work[b]) = {}
    BY <2>1 DEF PullRequestRun, Mergeable, TypeOK
  <2>3. PICK f \in Frozen : ~Holds(MergeCommit(b), f)
    BY <2>2 DEF CheckFrozen
  <2>4. main \in Tree /\ fork[b] \in Tree /\ work[b] \in Tree
    BY DEF TypeOK
  <2>5. Line(fork[b], f) = Absent
          /\ ~(Line(main, f) = Absent /\ Line(work[b], f) = Absent)
    BY <2>2, <2>3, <2>4, MergeHolds DEF MergeCommit
  <2>6. QED
    BY <2>5
<1>2. TypeOK /\ [Next]_vars => [\A b \in Branch : Cause(b)]_vars
  BY <1>1
<1>3. QED
  BY <1>2, InitType, TypeStep, PTL DEF Spec, RefusalHasCause
=============================================================================
