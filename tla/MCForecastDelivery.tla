------------------------- MODULE MCForecastDelivery -------------------------
(***************************************************************************)
(* Commands and requests on one delivery, for the model checker.  The      *)
(* destination of a webhook is its own: operators and requests do not act  *)
(* on one delivery.                                                        *)
(***************************************************************************)
EXTENDS ForecastDelivery, TLC

CONSTANTS r1, r2, r3

PublishRequests == {r1, r2, r3}

\* Each command has a key of its own, named like it.
OwnKeys == [c \in Commands |-> c]

\* A command is named like its action; "again" is a second retry.
Actions ==
  [c \in Commands |-> CASE c \in PublishRequests -> "webhook"
                        [] c = "again" -> "retry"
                        [] OTHER -> c]

\* The operator's commands or the requests that post to the webhook, at one
\* time; and the operator's commands one by one, "again" and a rerun included.
Operators == Commands \ PublishRequests
Interleaved == {Operators \ {"again"}, PublishRequests}
OneByOne == {Operators}
Mixed == Interleaved \union OneByOne
Reruns == [s \in Mixed |-> IF s \in OneByOne THEN 1 ELSE 0]

Together == {Commands}
NoReruns == [s \in Together |-> 0]

Symmetry == Permutations(PublishRequests)
=============================================================================
