----------------------------- MODULE MCFrozenGate -----------------------------
(***************************************************************************)
(* One frozen file, three contents, two branches.                           *)
(***************************************************************************)
EXTENDS FrozenGate, TLC

Symmetric == Permutations(Version) \cup Permutations(Branch)
=============================================================================
