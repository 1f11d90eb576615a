---------------------------- MODULE ForecastRules ----------------------------
(***************************************************************************)
(* The rules that decide what a forecast is made of and who learns of it,  *)
(* each within one process: a backtest, the reading of a publication, the  *)
(* routing of alerts, or one case of the algorithms on hierarchies and     *)
(* draft rows.  A behaviour is about one of them; the others are idle.     *)
(***************************************************************************)
EXTENDS Backtest, Hierarchy, DraftRows, ForecastReads, Monitoring

CONSTANTS
  GraphCases,      \* graphs, and entities with the levels to make graphs of
  ReconcileCases,  \* a graph, weights, quantiles of every node and a method
  DraftCases,      \* a population, scored rows, what was pinned, and horizons
  SampleCases,     \* out-of-sample rows by horizon, the least number of rows
  TwinCases        \* histories of a series, and ingestion runs of a source

NoCase == [topic |-> "none"]

Cases == GraphCases \union ReconcileCases \union DraftCases \union SampleCases
           \union TwinCases

\* Rows of a draft are told apart by their ids, a hierarchy has at least two
\* levels of keys that its entities have, and a case of a topic has the values
\* of that topic.  Edges of a hierarchy that is reconciled lead down its levels,
\* as those that are materialized do, and shares of its integers are exact, as
\* those of floating-point numbers are but for rounding.
ASSUME CasesAssumption ==
  /\ Null \notin BOOLEAN
  /\ \A c \in Cases :
       /\ c.topic = "draft" =>
            /\ IsFiniteSet(c.frozen) /\ IsFiniteSet(c.predictions)
            /\ IsFiniteSet(c.horizons)
            /\ \A x \in c.frozen : x.eligible \in BOOLEAN \union {Null}
            /\ \A p, q \in c.predictions : p.id = q.id => p = q
       /\ c.topic \in {"graph", "reconcile"} =>
            /\ IsFiniteSet(c.graph.nodes) /\ IsFiniteSet(c.graph.edges)
            /\ \A e \in c.graph.edges : e = <<e[1], e[2]>>
            /\ \A n \in c.graph.nodes : c.graph.level[n] \in Nat
       /\ c.topic = "entities" =>
            /\ c.levels \in Seq(Seq(KeysOf(c.levels))) /\ Len(c.levels) >= 2
            /\ IsFiniteSet(c.entities)
            /\ \A e \in c.entities : /\ KeysOf(c.levels) \subseteq DOMAIN e
                                    /\ \A k \in DOMAIN e : e[k] \in Seq(ToSet(e[k]))
       /\ c.topic = "reconcile" =>
            /\ c.method \in {"bottom_up", "top_down", "middle_out"}
            /\ \A n \in c.graph.nodes :
                 /\ c.weight[n] \in Int
                 /\ \A i \in 1 .. 3 : c.quantiles[i][n] \in Int
            /\ Accepts(c.graph) =>
                 /\ \A e \in c.graph.edges :
                      c.graph.level[e[1]] < c.graph.level[e[2]]
                 /\ c.method # "bottom_up" => \A i \in 1 .. 3 :
                      SharesDivide(c.graph, c.weight, c.quantiles[i],
                                   Anchors(c.graph, c.method, c.middle))
       /\ c.topic = "calibrate" =>
            /\ c.least \in Nat \ {0} /\ IsFiniteSet(DOMAIN c.samples)
            /\ \A h \in DOMAIN c.samples :
                 /\ IsFiniteSet(DOMAIN c.samples[h])
                 /\ \A p \in DOMAIN c.samples[h] :
                      p \in Int \X Int /\ c.samples[h][p] \in Nat
       /\ c.topic = "route" =>
            c.history \in [nonzero : Nat, zero : Nat, missing : Nat]
       /\ c.topic = "source" =>
            /\ \A r, s \in c.latest : r = s
            /\ \A run \in c.latest : /\ run.mode \in {"static_demo", "continuous"}
                                     /\ run.late \in Int

VARIABLE case      \* the case that is considered

rules == <<backtest, reads, monitoring, case>>

BacktestIdle ==
  /\ contract = None /\ table = {} /\ data = {} /\ scored = {} /\ scores = {}
  /\ outcome = "idle"

ReadsIdle == shown = 0 /\ reader = [state |-> "idle"]

MonitoringIdle ==
  /\ monitor = None /\ signals = None /\ pending = <<>> /\ emitted = <<>>
  /\ pass = "idle"

RulesInit ==
  \/ BacktestInit /\ ReadsIdle /\ MonitoringIdle /\ case = NoCase
  \/ BacktestIdle /\ ReadsInit /\ MonitoringIdle /\ case = NoCase
  \/ BacktestIdle /\ ReadsIdle /\ MonitoringInit /\ case = NoCase
  \/ BacktestIdle /\ ReadsIdle /\ MonitoringIdle /\ case \in Cases

RulesNext ==
  \/ outcome # "idle" /\ BacktestNext /\ UNCHANGED <<reads, monitoring, case>>
  \/ ReadsNext /\ UNCHANGED <<backtest, monitoring, case>>
  \/ MonitoringNext /\ UNCHANGED <<backtest, reads, case>>

RulesSpec == RulesInit /\ [][RulesNext]_rules

-----------------------------------------------------------------------------
(* Hierarchies.                                                            *)

\* Its nodes are known, no node has two parents, and none is above itself.
IsForest(g) ==
  /\ \A e \in g.edges : {e[1], e[2]} \subseteq g.nodes
  /\ \A n \in g.nodes : Cardinality({p \in g.nodes : <<p, n>> \in g.edges}) <= 1
  /\ \A n \in g.nodes : n \notin Reached(g.edges, Children(g, n))

\* The pipeline accepts a graph exactly when it is a forest; a version made of
\* entities that have every key, with values that hold no '|', is one and passes
\* the gates of the API (entities with a '|' or without a key can have the id of
\* another's node, which then gets two parents); and a graph of levels that
\* passes them, and whose nodes are known, is accepted.
HierarchiesAreForests ==
  /\ case.topic = "graph" /\ case.graph.nodes # {} =>
       LET g == case.graph
       IN /\ Accepts(g) <=> IsForest(g)
          /\ /\ \A e \in g.edges : {e[1], e[2]} \subseteq g.nodes
             /\ \A e \in g.edges : g.level[e[2]] = g.level[e[1]] + 1
             /\ GatesPass(g)
             => Accepts(g)
  /\ case.topic = "entities" /\ case.entities # {} =>
       LET g == Materialize(case.levels, case.entities)
       IN /\ LevelsRetainKeys(case.levels)
          /\ \A e \in case.entities : \A k \in KeysOf(case.levels) : Len(e[k]) = 1
          => Accepts(g) /\ GatesPass(g)

\* Quantiles in order at every node are in order and coherent when they have
\* been reconciled, whatever the weights, and what the method starts from is
\* kept; the sums that ancestors get from the leaves are coherent too.
ReconciledCoherent ==
  case.topic = "reconcile" =>
    LET g == case.graph
        value(q) == Reconcile(g, case.weight, case.quantiles[q], case.method,
                              case.middle)
    IN /\ Accepts(g)
       /\ Anchors(g, case.method, case.middle) # {}
       /\ \A n \in g.nodes : \A i \in {1, 2} :
            case.quantiles[i][n] <= case.quantiles[i + 1][n]
       => /\ Publishable(g, value(1), value(2), value(3))
          /\ \A n \in Anchors(g, case.method, case.middle), i \in 1 .. 3 :
               value(i)[n] = case.quantiles[i][n]
          /\ Coherent(g, Expand(g, case.quantiles[2]))

-----------------------------------------------------------------------------
(* Draft rows.                                                             *)

\* A draft that is accepted accounts for the frozen population: every eligible
\* candidate has exactly one row, no excluded one has any, no two rows have the
\* same series and horizon, and every series has all the contract's horizons.
\* A population that is scored once each, with identities that tell series
\* apart, is not refused.
DraftAccounts ==
  case.topic = "draft" =>
    LET frozen == case.frozen
        rows == Draft(case.predictions)
        accepted == DraftAccepted(frozen, case.predictions, case.pinned,
                                  case.horizons)
        scoredFor(c) == {p \in case.predictions : Key(p) = Key(c)}
        series == {r.entity : r \in rows}
        decided == \A c \in frozen :
          c.eligible = TRUE \/ (c.eligible = FALSE /\ c.reason # Null)
    IN /\ accepted =>
            /\ \A c \in frozen :
                 Cardinality(scoredFor(c)) = IF c.eligible THEN 1 ELSE 0
            /\ Cardinality(rows) = Cardinality(Eligible(frozen))
            /\ {<<r.entity, r.horizon>> : r \in rows} = series \X case.horizons
            /\ Cardinality(rows) = Cardinality(series) * Cardinality(case.horizons)
       /\ /\ decided /\ UniqueKeys(frozen) /\ UniqueKeys(case.predictions)
          /\ case.predictions # {}
          /\ Keys(case.predictions) = Keys(Eligible(frozen))
          /\ case.pinned = Keys(case.predictions)
          /\ \A p, q \in case.predictions :
               Identity(p) = Identity(q) <=> p.dims = q.dims
          /\ \A p \in case.predictions :
               {q.horizon : q \in {x \in case.predictions : x.dims = p.dims}}
                 = case.horizons
          => accepted

\* The interval of a horizon covers as many of the rows it was calibrated on as
\* the finite sample correction promises: 0.8 (n + 1) of n, rounded up, or all
\* of them.  It is cut off at 0, so rows of which more was returned than sold
\* count as rows that the promise does not reach.
CoversResiduals ==
  case.topic = "calibrate" /\ CanCalibrate(case.samples, case.least) =>
    \A h \in DOMAIN case.samples :
      LET sample == SampleOf(case.samples, h, case.least)
          n == RowCount(sample)
          returned == MapThenSumSet(LAMBDA p : sample[p],
                                    {p \in DOMAIN sample : p[2] < 0})
          reached == Covered(sample, sample) + returned
      IN /\ n >= case.least
         /\ reached = n \/ 10 * reached >= 8 * (n + 1)
         /\ \A p \in DOMAIN sample :
              LET q == Quantiles(p[1], sample)
              IN 0 <= q[1] /\ q[1] <= q[2] /\ q[2] <= q[3]

\* Rules that are written twice decide alike: the series that the pipeline
\* routes and those classified by the default policy, unless demand is missing
\* or there is no history at all, and the health of a source in Python and in
\* the warehouse, unless the source was never read: then Python alerts, and the
\* view has no row that could.
TwinRulesAgree ==
  /\ /\ case.topic = "route"
     /\ case.history.missing = 0
     /\ case.history.nonzero + case.history.zero > 0
     => RouteOf(case.history) = ClassOf(case.history)
  /\ case.topic = "source" =>
       SourceHealthView(case.latest) = {SourceHealth(case.latest)} \ {Missing}
=============================================================================
