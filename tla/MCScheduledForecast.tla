------------------------ MODULE MCScheduledForecast ------------------------
(***************************************************************************)
(* Instances of ScheduledForecast for the model checker.                   *)
(***************************************************************************)
EXTENDS ScheduledForecast, TLC

Symmetry == Permutations(Executions) \union Permutations(Candidates)
=============================================================================
