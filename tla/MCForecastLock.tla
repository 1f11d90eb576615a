--------------------------- MODULE MCForecastLock ---------------------------
(***************************************************************************)
(* Instances of ForecastLock for the model checker.                        *)
(***************************************************************************)
EXTENDS ForecastLock, TLC

Symmetry == Permutations(Executions) \union Permutations(Owners)

=============================================================================
