------------------------------ MODULE MCStore ------------------------------
(***************************************************************************)
(* Instances of the store for TLC.  Processes are interchangeable, and so  *)
(* are artifacts: no action and no property singles one of them out.       *)
(***************************************************************************)
EXTENDS StoreAudit, TLC

Symmetry == Permutations(Proc) \cup Permutations(Artifact)
=============================================================================
