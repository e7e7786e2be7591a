------------------------------ MODULE FrozenGate ------------------------------
(***************************************************************************)
(* The frozen pins (tools/check_frozen.py, ADR-014): every file listed in  *)
(* fixtures/FROZEN_SHA256SUMS must have the digest of its line.  CI runs   *)
(* the check on every push, of the tip that is pushed, and on every pull   *)
(* request, of the merge commit, and both have to be green for a merge.    *)
(*                                                                         *)
(* Main may move between these runs and the merge.  The properties are     *)
(* about what is left of the pins then: a file and its line are changed on *)
(* branches that do not know of each other, and git merges them apart.     *)
(***************************************************************************)
EXTENDS GitTree

CONSTANTS
    Frozen,    \* files that may be pinned
    Version,   \* their contents; the digest of a content stands for it
    Absent,    \* no such file, no such line
    Branch     \* branches

\* What is merged on its own: a file, and its line in the sums file.
Path == Frozen \X {"file", "line"}
Tree == [Path -> Version \cup {Absent}]

File(t, f) == t[<<f, "file">>]
Line(t, f) == t[<<f, "line">>]

ASSUME FrozenAssumption == Absent \notin Version

VARIABLES
    main,      \* the tip of the default branch
    fork,      \* fork[b]: the commit of the default branch that b has merged last
    work,      \* work[b]: the tip of b
    verdict,   \* verdict[b]: what CI said of the pull request for this tip
    newlines   \* files whose line was added to the default branch (history)

vars == <<main, fork, work, verdict, newlines>>

TypeOK ==
    /\ main \in Tree
    /\ fork \in [Branch -> Tree]
    /\ work \in [Branch -> Tree]
    /\ verdict \in [Branch -> {"none", "green", "red"}]
    /\ newlines \in SUBSET Frozen
    /\ \A b \in Branch : verdict[b] # "none" => work[b] # fork[b]

(***************************************************************************)
(* tools/check_frozen.py                                                   *)
(***************************************************************************)

Holds(t, f) == Line(t, f) # Absent => File(t, f) = Line(t, f)

\* Mutants: a listed file that is missing is passed over; or a file that is
\* not listed is an error.
CheckFrozen_MissingSkipped(t) ==
    \A f \in Frozen : Absent \notin {Line(t, f), File(t, f)} => File(t, f) = Line(t, f)
CheckFrozen_ListedOnly(t) == \A f \in Frozen : File(t, f) = Line(t, f)

CheckFrozen(t) == \A f \in Frozen : Holds(t, f)

(***************************************************************************)
(* The branches                                                            *)
(***************************************************************************)

Init ==
    /\ main \in {t \in Tree : \A f \in Frozen : Holds(t, f)}
    /\ fork = [b \in Branch |-> main]
    /\ work = [b \in Branch |-> main]
    /\ verdict = [b \in Branch |-> "none"]
    /\ newlines = {}

\* Any change; the hook's check of the pins is made where the hook is
\* installed and can be left out with --no-verify.
Commit(b) ==
    /\ \E t \in Tree \ {work[b]} : work' = [work EXCEPT ![b] = t]
    /\ verdict' = [verdict EXCEPT ![b] = "none"]
    /\ UNCHANGED <<main, fork, newlines>>

\* The default branch is merged into b, conflicts are resolved by hand.
UpdateBranch(b) ==
    /\ main # fork[b]
    /\ \E t \in Tree :
          /\ \A p \in Path \ Conflicts(fork[b], main, work[b]) :
                t[p] = Merged(fork[b], main, work[b])[p]
          /\ work' = [work EXCEPT ![b] = t]
    /\ fork' = [fork EXCEPT ![b] = main]
    /\ verdict' = [verdict EXCEPT ![b] = "none"]
    /\ UNCHANGED <<main, newlines>>

MergeCommit(b) == Merged(fork[b], main, work[b])

Mergeable(b) ==
    /\ work[b] # fork[b]
    /\ Conflicts(fork[b], main, work[b]) = {}

\* The run of ledger-integrity for the pull request.
PullRequestRun(b) ==
    /\ Mergeable(b)
    /\ verdict' = [verdict EXCEPT ![b] =
                      IF CheckFrozen(MergeCommit(b)) THEN "green" ELSE "red"]
    /\ UNCHANGED <<main, fork, work, newlines>>

\* Mutant: the workflow is run for pull requests only.
PushRun_None(b) == TRUE

\* The run of ledger-integrity for the push of b's tip is green.
PushRun(b) == CheckFrozen(work[b])

\* Mutant: the verdict is kept for the next tip of the branch.
MergePullRequest_KeepsVerdict(b) ==
    /\ verdict[b] = "green"
    /\ PushRun(b)
    /\ Mergeable(b)
    /\ main' = MergeCommit(b)
    /\ newlines' = newlines \cup
          {f \in Frozen : Line(main, f) = Absent /\ Line(main', f) # Absent}
    /\ fork' = [fork EXCEPT ![b] = main']
    /\ work' = [work EXCEPT ![b] = main']
    /\ UNCHANGED verdict

\* The merge may come long after the runs.  Work goes on from it.
MergePullRequest(b) ==
    /\ verdict[b] = "green"
    /\ PushRun(b)
    /\ Mergeable(b)
    /\ main' = MergeCommit(b)
    /\ newlines' = newlines \cup
          {f \in Frozen : Line(main, f) = Absent /\ Line(main', f) # Absent}
    /\ fork' = [fork EXCEPT ![b] = main']
    /\ work' = [work EXCEPT ![b] = main']
    /\ verdict' = [verdict EXCEPT ![b] = "none"]

Next ==
    \E b \in Branch :
        Commit(b) \/ UpdateBranch(b) \/ PullRequestRun(b) \/ MergePullRequest(b)

Spec == Init /\ [][Next]_vars

(***************************************************************************)
(* Properties                                                              *)
(***************************************************************************)

\* The pins hold on the default branch, although merges may follow their runs
\* late and in any order.  Files whose line was added meanwhile are excepted:
\* a branch that left before may bring other bytes after it.
MainPinsHold == \A f \in Frozen \ newlines : Holds(main, f)

\* "Changing frozen bytes requires touching the sums file" (check_frozen.py,
\* ADR-014): no merge changes the bytes of a pinned file and leaves its line.
FrozenChangeIsLoud ==
    [][\A f \in Frozen \ newlines' :
          Line(main, f) # Absent /\ File(main', f) # File(main, f) =>
              Line(main', f) # Line(main, f)]_vars

\* A pull request is refused although its tip and the default branch pass, as
\* did the commit they come from, at most because of a line that one of the
\* two has added.
RefusalHasCause ==
    [][\A b \in Branch :
          /\ verdict[b] # "red" /\ verdict'[b] = "red"
          /\ \A f \in Frozen : Holds(fork[b], f) /\ Holds(main, f) /\ Holds(work[b], f)
          => \E f \in Frozen :
                /\ Line(fork[b], f) = Absent
                /\ {Line(main, f), Line(work[b], f)} # {Absent}]_vars
=============================================================================
