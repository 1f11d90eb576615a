------------------------------ MODULE Monitoring ------------------------------
(***************************************************************************)
(* One pass of scripts/evaluate_monitoring_alerts.py: the alerts that the  *)
(* policies of vertex/config/monitoring.py make of the rows of the signals *)
(* and how vertex/monitoring/alerts.py routes them, one by one; and the    *)
(* health of a source, which vertex/monitoring/source_ingestion.py and the *)
(* view forecast_source_health both decide.                                *)
(***************************************************************************)
EXTENDS Integers, Sequences, FiniteSets, SequencesExt

CONSTANTS
  Monitors,    \* configurations: a sequence of policies, and destinations
  SignalRows   \* of every signal, a sequence of rows: a key and a status

\* Policies are a list, and so are the rows of a signal.
ASSUME MonitoringAssumption ==
  /\ \A m \in Monitors : m.policies \in Seq(ToSet(m.policies))
  /\ \A m \in Monitors, rows \in SignalRows : \A p \in ToSet(m.policies) :
       rows[p.signal] \in Seq(ToSet(rows[p.signal]))

VARIABLES
  monitor,  \* the configuration of this pass
  signals,  \* the rows it read
  pending,  \* alerts that are still to be routed
  emitted,  \* alerts that have been sent, in order
  pass      \* evaluating, routing, routed or raised

monitoring == <<monitor, signals, pending, emitted, pass>>

Severities == <<"info", "ticket", "page">>

Rank(severity) == CHOOSE i \in DOMAIN Severities : Severities[i] = severity

\* The statuses that do not alert.
Quiet(signal) ==
  CASE signal = "publication_freshness" -> {"fresh"}
    [] signal \in {"prediction_coverage", "feature_completeness",
                   "delivery_health"} -> {"healthy"}
    [] signal = "realized_calibration" -> {"healthy", "insufficient_actuals"}
    [] signal = "data_drift" -> {"healthy", "insufficient_observations"}
    [] signal = "pipeline_cost" ->
         {"healthy", "insufficient_history", "cost_data_unavailable"}
    [] signal = "pipeline_health" -> {"healthy", "healthy_static"}

IsAlerting(signal, row) == row.status \notin Quiet(signal)

Alert(policy, row) ==
  [policy |-> policy.name, severity |-> policy.severity,
   destination |-> policy.destination, resource |-> row.key,
   reason |-> row.status]

\* evaluate_alerts: policy by policy, row by row.
Alerts(policies, rows) ==
  LET alerts(p) == FlattenSeq([k \in DOMAIN rows[p.signal] |->
                     IF IsAlerting(p.signal, rows[p.signal][k])
                     THEN <<Alert(p, rows[p.signal][k])>> ELSE <<>>])
  IN FlattenSeq([i \in DOMAIN policies |-> alerts(policies[i])])

\* Faulty variant: the minimum itself does not pass.
AboveMinimum(alert, destination) ==
  Rank(alert.severity) > Rank(destination.minimum)

SeverityEnabled(alert, destination) ==
  Rank(alert.severity) >= Rank(destination.minimum)

-----------------------------------------------------------------------------

MonitoringInit ==
  /\ monitor \in Monitors
  /\ signals \in SignalRows
  /\ pending = <<>>
  /\ emitted = <<>>
  /\ pass = "evaluating"

EvaluateAlerts ==
  /\ pass = "evaluating"
  /\ pending' = Alerts(monitor.policies, signals)
  /\ pass' = "routing"
  /\ UNCHANGED <<monitor, signals, emitted>>

DestinationOf(alert) == monitor.destinations[alert.destination]

SkipAlert ==
  /\ pass = "routing" /\ pending # <<>>
  /\ ~SeverityEnabled(Head(pending), DestinationOf(Head(pending)))
  /\ pending' = Tail(pending)
  /\ UNCHANGED <<monitor, signals, emitted, pass>>

\* Logged, or taken by the webhook.
EmitAlert ==
  /\ pass = "routing" /\ pending # <<>>
  /\ SeverityEnabled(Head(pending), DestinationOf(Head(pending)))
  /\ DestinationOf(Head(pending)).kind # "log" => DestinationOf(Head(pending)).url
  /\ emitted' = Append(emitted, Head(pending))
  /\ pending' = Tail(pending)
  /\ UNCHANGED <<monitor, signals, pass>>

\* The URL is not configured, or the webhook does not answer.
FailAlert ==
  /\ pass = "routing" /\ pending # <<>>
  /\ SeverityEnabled(Head(pending), DestinationOf(Head(pending)))
  /\ DestinationOf(Head(pending)).kind # "log"
  /\ pass' = "raised"
  /\ UNCHANGED <<monitor, signals, pending, emitted>>

EndPass ==
  /\ pass = "routing" /\ pending = <<>>
  /\ pass' = "routed"
  /\ UNCHANGED <<monitor, signals, pending, emitted>>

MonitoringNext == EvaluateAlerts \/ SkipAlert \/ EmitAlert \/ FailAlert \/ EndPass

-----------------------------------------------------------------------------
(* Source health.  The latest run of a source, a set that is empty when    *)
(* there is none; a run has a status, a data mode and the hours since its  *)
(* deadline.                                                               *)

Health(alerting, status) == [alerting |-> alerting, status |-> status]

HealthOf(run) ==
  CASE run.status # "succeeded" -> Health(TRUE, "failed")
    [] run.status = "succeeded" /\ run.mode = "static_demo" ->
         Health(FALSE, "healthy_static")
    [] run.status = "succeeded" /\ run.mode = "continuous" ->
         IF run.late > 0 THEN Health(TRUE, "stale") ELSE Health(FALSE, "healthy")

Missing == Health(TRUE, "missing")

\* evaluate_source_health; another data mode is an error.
SourceHealth(latest) ==
  IF latest = {} THEN Missing ELSE HealthOf(CHOOSE run \in latest : TRUE)

\* The rows of the view, which decides the status and the alert separately.
SourceHealthView(latest) ==
  {Health(\/ run.status # "succeeded"
          \/ run.mode = "continuous" /\ run.late > 0,
          CASE run.status # "succeeded" -> "failed"
            [] run.status = "succeeded" /\ run.mode = "static_demo" ->
                 "healthy_static"
            [] OTHER -> IF run.late > 0 THEN "stale" ELSE "healthy") :
     run \in latest}

-----------------------------------------------------------------------------

\* Who must be told of what: the places of a policy and of a row of its signal
\* that alerts, where the destination takes the policy's severity.
MustHear ==
  LET told(i) == monitor.destinations[monitor.policies[i].destination].minimum
      rows(i) == signals[monitor.policies[i].signal]
  IN UNION {{<<i, k>> : k \in {j \in DOMAIN rows(i) :
                rows(i)[j].status \notin Quiet(monitor.policies[i].signal)}} :
             i \in {n \in DOMAIN monitor.policies :
                      Rank(told(n)) <= Rank(monitor.policies[n].severity)}}

AlertAt(x) ==
  Alert(monitor.policies[x[1]], signals[monitor.policies[x[1]].signal][x[2]])

Times(alert, alerts) == Cardinality({n \in DOMAIN alerts : alerts[n] = alert})

\* A pass that ends has told everyone who must hear, of every row once and
\* nobody else (rows may make equal alerts, which are sent once each); one that
\* raises has stopped at an alert of a destination that can fail, and nothing
\* is lost of what was before it.
AlertsReach ==
  pass \in {"routing", "routed", "raised"} =>
    /\ ToSet(emitted) \subseteq {AlertAt(x) : x \in MustHear}
    /\ \A x \in MustHear :
         LET due == Cardinality({y \in MustHear : AlertAt(y) = AlertAt(x)})
             sent == Times(AlertAt(x), emitted)
         IN /\ sent + Times(AlertAt(x), pending) = due
            /\ pass = "routed" => sent = due
    /\ pass = "raised" => DestinationOf(Head(pending)).kind # "log"
=============================================================================
