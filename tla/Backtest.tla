------------------------------ MODULE Backtest ------------------------------
(***************************************************************************)
(* One rolling-origin run of vertex/jobs/backtest.py: the history that is  *)
(* loaded, the baselines and the model scored at every origin              *)
(* (vertex/evaluation/backtesting.py), and the training rows of a backfill *)
(* (vertex/config/backfill.py).  What a prediction is worth is left out: a *)
(* prediction is the set of rows it was computed from.                     *)
(***************************************************************************)
EXTENDS ForecastCalendar, FiniteSets

CONSTANTS
  Contracts,  \* the contracts: frequency, origins, horizons, window, average,
              \* baselines, limit (of entities), model (scored too), source
  Tables,     \* the history: sets of rows of an entity, a date, whether the
              \* actual and the label are there, and the cutoff of the sources
  None

AllowedBaselines ==
  {"zero_demand", "last_observation", "seasonal_naive_7d",
   "same_period_last_year", "moving_average", "croston_sba", "tsb",
   "croston_sba_tsb"}

ASSUME BacktestAssumption ==
  /\ \A c \in Contracts :
       /\ c.frequency \in Frequencies
       /\ c.origins \subseteq Days
       /\ c.horizons \subseteq Nat \ {0} /\ c.horizons # {}
       /\ c.window \in Nat
       /\ c.baselines \subseteq AllowedBaselines
       /\ \A o \in c.origins : \A n \in c.horizons \union {1} :
            CanShift(o, -n, c.frequency)
  /\ \A f \in Frequencies : \A t \in Tables[f] : \A r \in t :
       r.date \in Days /\ r.cutoff \in Int

VARIABLES
  contract,  \* the contract of this run
  table,     \* the whole history
  data,      \* the rows the run has loaded
  scored,    \* the origins at which the model has been scored
  scores,    \* the predictions
  outcome    \* loading, scoring, scored or raised

backtest == <<contract, table, data, scored, scores, outcome>>

Entities(rows) == {r.entity : r \in rows}

\* The first entities by key, up to the limit of the contract.
Selected(entities, limit) ==
  IF limit = None THEN entities
  ELSE {e \in entities : Cardinality({x \in entities : x < e}) < limit}

TargetDate(c, origin, h) == ShiftPeriod(origin, h, c.frequency)

-----------------------------------------------------------------------------
(* The history.                                                            *)

Earliest(dates) == CHOOSE d \in dates : \A e \in dates : d <= e
Latest(dates) == CHOOSE d \in dates : \A e \in dates : e <= d

YearOfPeriods(f) == CASE f = "day" -> 366 [] f = "week" -> 53 [] f = "month" -> 12

\* Faulty variant: the horizon is forgotten.
HistoryPeriodsOfWindow(c) ==
  LET year == YearOfPeriods(c.frequency)
  IN IF "same_period_last_year" \in c.baselines /\ year > c.window THEN year
                                                                   ELSE c.window

\* The periods loaded before the first origin.
HistoryPeriods(c) ==
  LET year == YearOfPeriods(c.frequency)
      least == c.window + IF c.model THEN Latest(c.horizons) ELSE 0
  IN IF "same_period_last_year" \in c.baselines /\ year > least THEN year
                                                                ELSE least

HistoryQuery(rows, c) ==
  LET start == ShiftPeriod(Earliest(c.origins), -HistoryPeriods(c), c.frequency)
      end == TargetDate(c, Latest(c.origins), Latest(c.horizons))
      bounded == {r \in rows : start <= r.date /\ r.date <= end}
  IN {r \in bounded : r.entity \in Selected(Entities(bounded), c.limit)}

\* The calendar reaches as far as a run looks, a year has at most 366 days,
\* and there is a first and a last of origins and horizons.
ASSUME ReachAssumption ==
  /\ \A d \in Days : MonthOf[d] - 12 \in Months => d - YearBefore(d) <= 366
  /\ \A c \in Contracts :
       /\ \E d \in c.origins : \A o \in c.origins : d <= o
       /\ \E d \in c.origins : \A o \in c.origins : o <= d
       /\ \E n \in c.horizons : \A h \in c.horizons : h <= n
       /\ \A o \in c.origins :
            /\ CanShift(o, -HistoryPeriods(c), c.frequency)
            /\ \A h \in c.horizons :
                 /\ CanShift(o, h, c.frequency)
                 /\ CanShift(TargetDate(c, o, h), -12, "month")
       /\ \A t \in Tables[c.frequency] : \A r \in t : \A h \in c.horizons :
            CanShift(r.date, h + c.window, c.frequency)

Loaded(rows, c) == IF c.source = "bigquery" THEN HistoryQuery(rows, c) ELSE rows

OneRowPerDate(rows) ==
  \A r, s \in rows : r.entity = s.entity /\ r.date = s.date => r = s

-----------------------------------------------------------------------------
(* The baselines.                                                          *)

\* Rows of the entity that have an actual, within the window of the origin.
Observed(rows, e, origin, c) ==
  {r \in rows : /\ r.entity = e
                /\ r.actual
                /\ r.date <= origin
                /\ ShiftPeriod(origin, -c.window, c.frequency) < r.date}

\* Faulty variant: the seasonal period is not checked against the origin.
LookupAnyDate(rows, e, date, origin) ==
  LET found == {r \in rows : r.entity = e /\ r.date = date /\ r.actual}
  IN IF found = {} THEN None ELSE found

\* The row of the entity at a date that is known at the origin.
Lookup(rows, e, date, origin) ==
  LET found == {r \in rows : r.entity = e /\ r.date = date /\ r.actual}
  IN IF origin < date \/ found = {} THEN None ELSE found

LastRows(rows, n) ==
  {r \in rows : Cardinality({s \in rows : r.date < s.date}) < n}

\* The rows a baseline predicts the target from; None when it cannot.
BaselinePrediction(b, rows, e, origin, target, c) ==
  LET observed == Observed(rows, e, origin, c)
      orNone(read) == IF observed = {} THEN None ELSE read
      season == ShiftPeriod(target, -SeasonalPeriod(c.frequency), c.frequency)
  IN CASE b = "zero_demand" -> {}
       [] b = "last_observation" -> orNone(LastRows(observed, 1))
       [] b = "seasonal_naive_7d" -> Lookup(rows, e, season, origin)
       [] b = "same_period_last_year" ->
            Lookup(rows, e, YearBefore(target), origin)
       [] b = "moving_average" -> orNone(LastRows(observed, c.average))
       [] b \in {"croston_sba", "tsb", "croston_sba_tsb"} -> orNone(observed)

HasActual(rows, e, date) ==
  \E r \in rows : r.entity = e /\ r.date = date /\ r.actual

Score(rows, c, by, e, origin, h, prediction) ==
  [by |-> by, entity |-> e, origin |-> origin, horizon |-> h,
   eligible |-> HasActual(rows, e, TargetDate(c, origin, h)),
   prediction |-> prediction]

BaselineScores(rows, c) ==
  {Score(rows, c, b, e, o, h,
         BaselinePrediction(b, rows, e, o, TargetDate(c, o, h), c)) :
     b \in c.baselines, e \in Selected(Entities(rows), c.limit),
     o \in c.origins, h \in c.horizons}

-----------------------------------------------------------------------------
(* The metrics of one origin, horizon and predictor.                      *)

\* The scale of the scaled errors: the steps between observed actuals.
Scale(rows, e, origin, c) ==
  LET observed == Observed(rows, e, origin, c)
  IN IF Cardinality(observed) < 2 THEN None ELSE observed

MetricRow(rows, c, group) ==
  LET eligible == {s \in group : s.eligible}
      complete == {s \in eligible : s.prediction # None}
  IN [eligible |-> Cardinality(eligible),
      predicted |-> Cardinality(complete),
      errors |-> {<<s, Scale(rows, s.entity, s.origin, c)>> : s \in complete}]

Metrics(rows, c, all) ==
  {MetricRow(rows, c, {s \in all : /\ s.by = t.by
                                   /\ s.origin = t.origin
                                   /\ s.horizon = t.horizon}) : t \in all}

-----------------------------------------------------------------------------
(* The model: one horizon, trained anew at every origin.                   *)

Horizon(c) == CHOOSE h \in c.horizons : TRUE

\* Faulty variant: trained on every row up to the origin.
TrainEndAtOrigin(c, origin) == origin

\* The label of a row is the actual one horizon later.
TrainEnd(c, origin) == ShiftPeriod(origin, -Horizon(c), c.frequency)

TrainRows(rows, c, origin) ==
  LET end == TrainEnd(c, origin)
  IN {r \in rows : /\ ShiftPeriod(end, -c.window, c.frequency) < r.date
                   /\ r.date <= end
                   /\ r.label}

PredictRows(rows, c, origin) ==
  LET there == {r \in rows : r.date = origin}
  IN {r \in there : r.entity \in Selected(Entities(there), c.limit)}

\* No row was computed from sources later than its own date.
CutoffsHold(rows, c, origin) ==
  /\ TrainRows(rows, c, origin) # {}
  /\ PredictRows(rows, c, origin) # {}
  /\ \A r \in TrainRows(rows, c, origin) : r.cutoff <= r.date
  /\ \A r \in PredictRows(rows, c, origin) : r.cutoff <= origin

ModelScores(rows, c, origin) ==
  {Score(rows, c, "model", r.entity, origin, Horizon(c),
         TrainRows(rows, c, origin)) : r \in PredictRows(rows, c, origin)}

-----------------------------------------------------------------------------
(* The training of a backfill.  The horizons are those of the target, or of *)
(* the targets, that the configuration names; the query cuts the last period *)
(* whatever they are.                                                      *)

BackfillTrainRows(rows, c, asOf) ==
  {r \in rows : /\ ShiftPeriod(asOf, -c.window, c.frequency) < r.date
                /\ r.date <= ShiftPeriod(asOf, -1, c.frequency)
                /\ r.label}

BackfillScores(rows, c, asOf) ==
  {[by |-> "backfill", entity |-> r.entity, origin |-> asOf, horizon |-> h,
    eligible |-> FALSE, prediction |-> BackfillTrainRows(rows, c, asOf)] :
     r \in {x \in rows : x.date = asOf}, h \in c.horizons}

-----------------------------------------------------------------------------
(* The run.                                                                *)

BacktestInit ==
  /\ contract \in Contracts
  /\ table \in Tables[contract.frequency]
  /\ data = {}
  /\ scored = {}
  /\ scores = {}
  /\ outcome = "loading"

Load ==
  /\ outcome = "loading"
  /\ data' = Loaded(table, contract)
  /\ outcome' = IF \/ contract.source = "backfill"
                   \/ /\ OneRowPerDate(data')
                      /\ contract.model => Cardinality(contract.horizons) = 1
                  THEN "loaded" ELSE "raised"
  /\ UNCHANGED <<contract, table, scored, scores>>

ScoreBaselines ==
  /\ outcome = "loaded"
  /\ contract.source # "backfill"
  /\ scores' = BaselineScores(data, contract)
  /\ outcome' = "scoring"
  /\ UNCHANGED <<contract, table, data, scored>>

\* The origins are taken in order.
ScoreModel(origin) ==
  /\ outcome = "scoring"
  /\ contract.model
  /\ scored = {o \in contract.origins : o < origin}
  /\ \/ /\ CutoffsHold(data, contract, origin)
        /\ scores' = scores \union ModelScores(data, contract, origin)
        /\ scored' = scored \union {origin}
        /\ UNCHANGED outcome
     \/ /\ ~CutoffsHold(data, contract, origin)
        /\ outcome' = "raised"
        /\ UNCHANGED <<scores, scored>>
  /\ UNCHANGED <<contract, table, data>>

BackfillAsOf(date) ==
  /\ outcome = "loaded"
  /\ contract.source = "backfill"
  /\ scored = {o \in contract.origins : o < date}
  /\ scores' = scores \union BackfillScores(data, contract, date)
  /\ scored' = scored \union {date}
  /\ UNCHANGED <<contract, table, data, outcome>>

\* The metrics are built and the result is stored.
Persist ==
  /\ outcome = "scoring"
  /\ contract.model => scored = contract.origins
  /\ outcome' = "scored"
  /\ UNCHANGED <<contract, table, data, scored, scores>>

BacktestNext ==
  \/ Load
  \/ ScoreBaselines
  \/ \E o \in contract.origins : ScoreModel(o) \/ BackfillAsOf(o)
  \/ Persist

BacktestSpec == BacktestInit /\ [][BacktestNext]_backtest

-----------------------------------------------------------------------------
(* Properties.                                                             *)

\* No prediction of a backtest was made from an actual that was not known at
\* its origin: the labels that the model is trained on have target dates at or
\* before it, also where months differ in length, no row was computed from
\* later sources, and baselines read rows up to it.  Of a backfill this is said
\* where the target is one period ahead, as build_backfill_train_sql supposes:
\* a configuration with a later target is accepted and learns later actuals.
LabelsKnown ==
  \A s \in scores : s.prediction # None => \A r \in s.prediction :
    /\ s.by = "model" \/ (s.by = "backfill" /\ s.horizon = 1) =>
         ShiftPeriod(r.date, s.horizon, contract.frequency) <= s.origin
    /\ r.date <= s.origin
    /\ s.by = "model" => r.cutoff <= s.origin

Aligned(dates) ==
  contract.frequency = "month" => \A d \in dates : d = FirstDay[MonthOf[d]]

\* The rows whose labels are known at the origin, and no older than the window.
KnownLabels(origin) ==
  LET after(r, n) == ShiftPeriod(r.date, Horizon(contract) + n,
                                 contract.frequency)
  IN {r \in table : r.label /\ after(r, 0) <= origin
                            /\ origin < after(r, contract.window)}

\* What is loaded from the warehouse is enough: on the dates that periods
\* begin, with a window of one season and no limit of entities, the metrics
\* are those of the whole history and the model has seen every label known
\* within its window.
HistorySuffices ==
  LET baselines == {s \in scores : s.by \in contract.baselines}
  IN /\ outcome = "scored"
     /\ contract.source # "backfill"
     /\ contract.limit = None
     /\ contract.window >= SeasonalPeriod(contract.frequency)
     /\ Aligned({r.date : r \in table} \union contract.origins)
     => /\ {m \in Metrics(data, contract, baselines) : m.eligible > 0}
             = {m \in Metrics(table, contract, BaselineScores(table, contract)) :
                  m.eligible > 0}
        /\ \A s \in scores : s.by = "model" =>
             s.prediction = KnownLabels(s.origin)
=============================================================================
