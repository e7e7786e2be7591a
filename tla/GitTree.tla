------------------------------- MODULE GitTree -------------------------------
(***************************************************************************)
(* What git makes of two commits in a merge with base o.  A commit is a    *)
(* function from what is merged on its own (files, distant lines of one    *)
(* file) to contents; all commits of a repository have the same domain.    *)
(***************************************************************************)

\* Changed on both sides, in different ways.
Conflicts(o, x, y) == {p \in DOMAIN o : x[p] # o[p] /\ y[p] # o[p] /\ x[p] # y[p]}

\* Elsewhere the merge takes what either side has changed.
Merged(o, x, y) == [p \in DOMAIN o |-> IF x[p] = o[p] THEN y[p] ELSE x[p]]
=============================================================================
