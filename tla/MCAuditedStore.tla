--------------------------- MODULE MCAuditedStore ---------------------------
(***************************************************************************)
(* An instance of AuditedStore for TLC: the records of one artifact list   *)
(* their parents in one order, those of the other in the other.            *)
(***************************************************************************)
EXTENDS AuditedStore, SequencesExt

MCListing ==
    [m \in Manifest |-> IF m.id = Root THEN SetToSeq(m.parents)
                                       ELSE Reverse(SetToSeq(m.parents))]

MCFlags == {[deny |-> FALSE, replay |-> TRUE]}

\* What is derived from itself first is not reproduced.
MCReproduces(n, m) == m.parents[1] # n

\* Processes are interchangeable; artifacts are not, for the sake of Root.
Symmetry == Permutations(Proc)
=============================================================================
