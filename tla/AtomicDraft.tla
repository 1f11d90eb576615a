---------------------------- MODULE AtomicDraft ----------------------------
(***************************************************************************)
(* What the scheduled forecast pipeline promises to the readers of a       *)
(* draft: the draft of a logical run appears at once, with all of its      *)
(* evidence, built from inputs that passed the gates, and never changes.   *)
(* Readers see forecast_outputs through the join with forecast_runs of     *)
(* dbt/models/marts/forecast_visible_drafts.sql.                           *)
(***************************************************************************)
CONSTANTS
  Runs,      \* forecast run ids
  Tables,    \* the tables that hold the evidence of a draft
  Payloads,  \* what a table may hold of a run that passed the gates
  Hidden     \* the run has no draft

VARIABLE draft

Drafts == [Tables -> Payloads]

Init == draft = [r \in Runs |-> Hidden]

\* The draft of run r becomes visible, all of it in one step.
Expose(r) ==
  /\ draft[r] = Hidden
  /\ draft'[r] \in Drafts
  /\ draft' = [draft EXCEPT ![r] = draft'[r]]

Next == \E r \in Runs : Expose(r)

Spec == Init /\ [][Next]_draft
=============================================================================
