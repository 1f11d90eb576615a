------------------------ MODULE MCPublicationLedger ------------------------
(***************************************************************************)
(* Commands on the publications of two runs of an origin, for the model    *)
(* checker.  A command is named like its idempotency key.                  *)
(***************************************************************************)
EXTENDS PublicationLedger

Request(action, key, version) ==
  [action |-> action, key |-> key, run |-> "run1", version |-> version,
   prior |-> None, destination |-> "canonical_bigquery", value |-> Forecast,
   approval |-> None]

Revise(key, version, old) ==
  [Request("revise", key, version) EXCEPT !.prior = old]
Rollback(key, version, old) ==
  [Request("rollback", key, version) EXCEPT !.prior = old]
ApiPublish(key, version, decision) ==
  [Request("api_publish", key, version) EXCEPT !.approval = decision]
OverrideTo(action, key, value) ==
  [Request(action, key, None) EXCEPT !.value = value]
OfRun2(request) == [request EXCEPT !.run = "run2"]
AtLake(request) == [request EXCEPT !.destination = "lake"]

\* Planners o1 to o3, the API's approval a1, the scheduled flow s1, and
\* commands that publish (p), revise (r) and roll back (b) a version.
Arguments ==
  [o1 |-> OverrideTo("override", "o1", "adjusted"),
   o2 |-> OverrideTo("override", "o2", "raised"),
   o3 |-> OverrideTo("api_override", "o3", "adjusted"),
   a1 |-> Request("api_approve", "a1", None),
   s1 |-> Request("auto", "s1", 1),
   u1 |-> OfRun2(Request("approve_publish", "u1", 1)),
   p1 |-> Request("approve_publish", "p1", 1),
   p2 |-> Request("approve_publish", "p2", 1),
   p3 |-> Request("approve_publish", "p3", 2),
   l1 |-> AtLake(Request("approve_publish", "l1", 1)),
   l2 |-> AtLake(Request("approve_publish", "l2", 2)),
   q1 |-> ApiPublish("q1", 1, "a1"),
   q2 |-> ApiPublish("q2", 2, "a1"),
   r1 |-> Revise("r1", 2, 1),
   r2 |-> AtLake(Revise("r2", 2, 1)),
   b1 |-> Rollback("b1", 3, 1),
   b2 |-> Rollback("b2", 3, 2),
   b3 |-> Rollback("b3", 2, 1)]

\* A planner adjusts while operators publish, revise and roll back, the
\* rollback with the default destination; and two planners adjust while the API
\* approves and publishes and the scheduled flow does; and the flow publishes
\* one run, an operator another, and a rollback brings the first one back.
Interleaved == {{"o1", "l1", "r2", "b1"}, {"o2", "o3", "a1", "q1", "s1"},
                {"s1", "u1", "b3"}}

\* Two destinations and commands that must be refused; and the API's way,
\* after two planners.
OneAtATime == {{"o1", "p1", "l2", "r1", "b2", "p3"},
               {"o2", "o3", "a1", "q1", "q2", "b1"}}

Mixed == Interleaved \union OneAtATime

\* Two operators publish the first version, with a key each.
Rivals == {{"p1", "p2", "r1"}}

\* A version is revised while a planner adjusts.
Revision == {{"o1", "p1", "r1"}}
=============================================================================
