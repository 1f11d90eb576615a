---------------------------- MODULE VersionChain ----------------------------
(***************************************************************************)
(* What the version checks and the append-only tables of                   *)
(* vertex/jobs/forecast_operations.py are for: at each scope, a run and a  *)
(* destination, versions only grow and a version that is published is      *)
(* never changed or withdrawn.                                             *)
(***************************************************************************)
EXTENDS Integers

CONSTANT Scopes

VARIABLE chain  \* the versions published at each scope, with their values

Init == chain = [s \in Scopes |-> {}]

\* A release above every version of the scope is added to it.
Publish(s, release) ==
  /\ \A r \in chain[s] : release.version > r.version
  /\ chain' = [chain EXCEPT ![s] = @ \union {release}]

\* The release is what the step adds.
Next == \E s \in Scopes : \E release \in chain'[s] \ chain[s] : Publish(s, release)

Spec == Init /\ [][Next]_chain
=============================================================================
