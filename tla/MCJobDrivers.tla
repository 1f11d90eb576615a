---------------------------- MODULE MCJobDrivers ----------------------------
(***************************************************************************)
(* Jobs of two configurations and the drivers that run them, for the model *)
(* checker.                                                                *)
(***************************************************************************)
EXTENDS JobDrivers

\* Trainings t, predictions p, optimizations o; u is of another configuration.
JobNames == {"o1", "o2", "t1", "t2", "t3", "p0", "p1", "p2", "u1"}

Steps ==
  [j \in JobNames |-> CASE j \in {"o1", "o2"} -> "optimize"
                        [] j \in {"t1", "t2", "t3", "u1"} -> "train"
                        [] OTHER -> "predict"]

ConfigNames == [j \in JobNames |-> IF j = "u1" THEN "c2" ELSE "c1"]

\* Predictions of a backfill are pinned to the training of their date, and a
\* training to an optimization.
Pinned ==
  [j \in JobNames |-> CASE j = "p1" -> "t1" [] j = "p2" -> "t2"
                        [] j = "t3" -> "o1" [] OTHER -> None]

\* One training takes its parameters from the search of the other
\* configuration, and one reads them from a URI where there is no record.
Searches == [j \in JobNames |-> IF j = "u1" THEN "c1" ELSE ConfigNames[j]]
Records == [j \in JobNames |-> IF j = "t3" THEN None ELSE Searches[j]]

\* The jobs that operators may run again.
AttemptsOf == [j \in JobNames |-> IF j \in {"p0", "t2"} THEN 2 ELSE 1]

Session(kind, fam, plan, free) ==
  [kind |-> kind, family |-> fam, plan |-> plan, free |-> free]

Sessions ==
  {Session("pipeline", "xgboost", <<"o1", "t1", "p0">>, {}),
   Session("pipeline", "random_forest", <<"t1", "p0">>, {"p0"}),
   Session("pipeline", "prophet", <<"o1", "t1">>, {"o2"}),
   Session("pipeline", "timeseries", <<"o1", "u1">>, {"o2"}),
   Session("pipeline", "prophet", <<"o1", "t3">>, {"o2"}),
   Session("pipeline", "timeseries", <<"o1", "t2">>, {}),
   Session("pipeline_job", "prophet", <<"o1", "t1">>, {}),
   Session("pipeline_job_sync", "random_forest", <<"t1", "p0">>, {}),
   Session("pipeline", "xgboost_direct", <<"t1", "p0">>, {"t2"}),
   Session("backfill", "timeseries", <<"t1", "p1">>, {"t2"}),
   Session("backfill_on", "prophet", <<"t1", "p1", "t2", "p2">>, {}),
   Session("docker", "timeseries", <<"t1", "u1">>, {}),
   Session("vertex", "prophet", <<"t1", "u1">>, {}),
   Session("vertex_sync", "prophet", <<"t1", "u1">>, {})}
=============================================================================
