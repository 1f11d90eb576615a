-------------------------- MODULE MCModelLifecycle --------------------------
(***************************************************************************)
(* Instances of ModelLifecycle for the model checker.                      *)
(***************************************************************************)
EXTENDS ModelLifecycle, TLC

Symmetry ==
  Permutations(Executions) \union Permutations(Passing)
=============================================================================
