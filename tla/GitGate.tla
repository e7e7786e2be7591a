------------------------------- MODULE GitGate -------------------------------
(***************************************************************************)
(* The append-only gate: tools/check_append_only.py, run by the pre-commit *)
(* hook on what is staged and by CI on a pull request, in a repository     *)
(* whose default branch moves only when a pull request with a green gate   *)
(* is merged (branch protection, docs/RELEASES.md).                        *)
(*                                                                         *)
(* A commit is the files it holds.  Of a branch the model keeps the commit *)
(* where it left the default branch and its tip; of the commits in between *)
(* it keeps whether each of them only added to the protected prefixes.     *)
(* What git and GitHub do (merging, renames in diffs) is external.         *)
(***************************************************************************)
EXTENDS GitTree

CONSTANTS
    Protected,  \* paths under PROTECTED_PREFIXES
    Other,      \* other paths
    Version,    \* contents of a file
    Absent,     \* no such file
    Branch      \* branches, each with a clone in which it is worked on

Path == Protected \cup Other
Tree == [Path -> Version \cup {Absent}]

ASSUME GateAssumption == Absent \notin Version /\ Protected \cap Other = {}

VARIABLES
    hooked,    \* hooked[b]: the pre-commit hook is installed in b's clone
    main,      \* the tip of the default branch
    fork,      \* fork[b]: the commit of the default branch that b has merged last
    work,      \* work[b]: the tip of b
    verdict,   \* verdict[b]: what CI said of the pull request for this tip
    addOnly,   \* addOnly[b]: the commits of b since it was opened only add
    history    \* the commits that the default branch contains only add

vars == <<hooked, main, fork, work, verdict, addOnly, history>>

TypeOK ==
    /\ hooked \in [Branch -> BOOLEAN]
    /\ main \in Tree
    /\ fork \in [Branch -> Tree]
    /\ work \in [Branch -> Tree]
    /\ verdict \in [Branch -> {"none", "green", "red"}]
    /\ addOnly \in [Branch -> BOOLEAN]
    /\ history \in BOOLEAN
    /\ \A b \in Branch : verdict[b] # "none" => work[b] # fork[b]

\* new has every protected file of old, unchanged.
Extends(old, new) == \A p \in Protected : old[p] # Absent => new[p] = old[p]

(***************************************************************************)
(* git diff --name-status                                                  *)
(***************************************************************************)

Added(old, new) == {p \in Path : old[p] = Absent /\ new[p] # Absent}
Deleted(old, new) == {p \in Path : old[p] # Absent /\ new[p] = Absent}
Modified(old, new) == {p \in Path : Absent \notin {old[p], new[p]} /\ old[p] # new[p]}

\* The renames that git may find: an added file is reported as a deleted one
\* under a new name if they are similar enough, and which files are is up to
\* their contents.
Renames(old, new) ==
    {r \in SUBSET (Deleted(old, new) \X Added(old, new)) :
        \A x, y \in r : x[2] = y[2] => x = y}

DiffLines(old, new, ren) ==
    {[status |-> "R", paths |-> r] : r \in ren}
    \cup {[status |-> "A", paths |-> <<p>>] :
             p \in {q \in Added(old, new) : \A r \in ren : r[2] # q}}
    \cup {[status |-> "D", paths |-> <<p>>] :
             p \in {q \in Deleted(old, new) : \A r \in ren : r[1] # q}}
    \cup {[status |-> "M", paths |-> <<p>>] : p \in Modified(old, new)}

(***************************************************************************)
(* tools/check_append_only.py                                              *)
(***************************************************************************)

\* Mutant: of a rename only the new path is looked at.
TouchesProtected_NewPath(paths) ==
    paths[IF 2 \in DOMAIN paths THEN 2 ELSE 1] \in Protected

TouchesProtected(paths) == \E i \in DOMAIN paths : paths[i] \in Protected

\* Mutant: nothing but additions is allowed anywhere.
CheckAppendOnly_AllPaths(old, new, ren) ==
    \A l \in DiffLines(old, new, ren) : l.status = "A"

\* No line of the diff touches a protected path, but for additions.
CheckAppendOnly(old, new, ren) ==
    \A l \in DiffLines(old, new, ren) : TouchesProtected(l.paths) => l.status = "A"

(***************************************************************************)
(* The branches                                                            *)
(***************************************************************************)

Init ==
    /\ hooked \in [Branch -> BOOLEAN]
    /\ main \in Tree
    /\ fork = [b \in Branch |-> main]
    /\ work = [b \in Branch |-> main]
    /\ verdict = [b \in Branch |-> "none"]
    /\ addOnly = [b \in Branch |-> TRUE]
    /\ history = TRUE

\* Mutant: the hook compares the worktree with the index, which are equal.
HookAllows_Unstaged(b, t) == TRUE

\* The pre-commit hook compares what is staged with HEAD.
HookAllows(b, t) ==
    hooked[b] => \E ren \in Renames(work[b], t) : CheckAppendOnly(work[b], t, ren)

Commit(b) ==
    /\ \E t \in Tree \ {work[b]} :
          /\ HookAllows(b, t)
          /\ work' = [work EXCEPT ![b] = t]
          /\ addOnly' = [addOnly EXCEPT ![b] = @ /\ Extends(work[b], t)]
    /\ verdict' = [verdict EXCEPT ![b] = "none"]
    /\ UNCHANGED <<hooked, main, fork, history>>

\* The default branch is merged into b.  Conflicts are resolved by hand, in
\* any way, and the commit that concludes such a merge runs the hook.
UpdateBranch(b) ==
    /\ main # fork[b]
    /\ \E t \in Tree :
          /\ \A p \in Path \ Conflicts(fork[b], main, work[b]) :
                t[p] = Merged(fork[b], main, work[b])[p]
          /\ Conflicts(fork[b], main, work[b]) # {} => HookAllows(b, t)
          /\ work' = [work EXCEPT ![b] = t]
          /\ addOnly' = [addOnly EXCEPT ![b] =
                            @ /\ Extends(work[b], t) /\ Extends(main, t)]
    /\ fork' = [fork EXCEPT ![b] = main]
    /\ verdict' = [verdict EXCEPT ![b] = "none"]
    /\ UNCHANGED <<hooked, main, history>>

Mergeable(b) ==
    /\ work[b] # fork[b]
    /\ Conflicts(fork[b], main, work[b]) = {}

MergeCommit(b) == Merged(fork[b], main, work[b])

\* CI on the pull request: HEAD is the merge commit that GitHub makes for it,
\* the base is the default branch, which is then also their merge base.
PullRequestGate(b) ==
    /\ Mergeable(b)
    /\ \E ren \in Renames(main, MergeCommit(b)) :
          verdict' = [verdict EXCEPT ![b] =
              IF CheckAppendOnly(main, MergeCommit(b), ren) THEN "green" ELSE "red"]
    /\ UNCHANGED <<hooked, main, fork, work, addOnly, history>>

\* Mutant: the verdict is kept for the next tip of the branch.
MergePullRequest_KeepsVerdict(b) ==
    /\ verdict[b] = "green"
    /\ Mergeable(b)
    /\ main' = MergeCommit(b)
    /\ history' = (history /\ addOnly[b] /\ Extends(main, main') /\ Extends(work[b], main'))
    /\ fork' = [fork EXCEPT ![b] = main']
    /\ work' = [work EXCEPT ![b] = main']
    /\ addOnly' = [addOnly EXCEPT ![b] = TRUE]
    /\ UNCHANGED <<hooked, verdict>>

\* The pull request is merged, which may be long after its gate was run: the
\* default branch may have moved.  Work goes on from the merge.
MergePullRequest(b) ==
    /\ verdict[b] = "green"
    /\ Mergeable(b)
    /\ main' = MergeCommit(b)
    /\ history' = (history /\ addOnly[b] /\ Extends(main, main') /\ Extends(work[b], main'))
    /\ fork' = [fork EXCEPT ![b] = main']
    /\ work' = [work EXCEPT ![b] = main']
    /\ addOnly' = [addOnly EXCEPT ![b] = TRUE]
    /\ verdict' = [verdict EXCEPT ![b] = "none"]
    /\ UNCHANGED hooked

Next ==
    \E b \in Branch :
        Commit(b) \/ UpdateBranch(b) \/ PullRequestGate(b) \/ MergePullRequest(b)

Spec == Init /\ [][Next]_vars

(***************************************************************************)
(* Properties                                                              *)
(***************************************************************************)

\* A protected file of the default branch is there for good and unchanged,
\* although a merge may follow its gate after other merges.
MainAppendOnly == [][Extends(main, main')]_vars

\* Where every clone has the hook, each single commit that reaches the
\* default branch, merges included, only adds to the protected prefixes.
HookedHistoryAddOnly == (\A b \in Branch : hooked[b]) => history

\* The gate refuses a pull request whose commits only add to the protected
\* prefixes at most if it also deletes another file (which git may take for
\* the old name of a protected one).
NoFalseRefusal ==
    \A b \in Branch :
        verdict[b] = "red" /\ addOnly[b] =>
            \E p \in Other : fork[b][p] # Absent /\ work[b][p] = Absent

\* "the gates refuse history that modifies protected paths"
\* (docs/RELEASES.md): no commit that the default branch contains does.
HistoryAddOnly == history
=============================================================================
