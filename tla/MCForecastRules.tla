--------------------------- MODULE MCForecastRules ---------------------------
(***************************************************************************)
(* The rules for the model checker: backtests of small histories on the    *)
(* calendar of four years, readings of four publications, alerts of three  *)
(* signals, graphs of at most four nodes, populations of two series with   *)
(* two horizons, and samples of up to 33 residuals.                        *)
(***************************************************************************)
EXTENDS ForecastRules

\* The months of the years from 2022 on.
LengthOfMonth ==
  [m \in 0 .. 47 |-> IF m = 25 THEN 29 ELSE
     <<31, 28, 31, 30, 31, 30, 31, 31, 30, 31, 30, 31>>[(m % 12) + 1]]

FirstOfMonth ==
  LET first[m \in 0 .. 47] ==
        IF m = 0 THEN 0 ELSE first[m - 1] + LengthOfMonth[m - 1]
  IN first

MonthOfDay ==
  [d \in 0 .. (FirstOfMonth[47] + LengthOfMonth[47] - 1) |->
     CHOOSE m \in 0 .. 47 : /\ FirstOfMonth[m] <= d
                            /\ d < FirstOfMonth[m] + LengthOfMonth[m]]

AllBaselines ==
  {"zero_demand", "last_observation", "seasonal_naive_7d",
   "same_period_last_year", "moving_average", "croston_sba"}

Contract(f, origins, horizons, window, baselines, limit, model, source) ==
  [frequency |-> f, origins |-> origins, horizons |-> horizons,
   window |-> window, average |-> 2, baselines |-> baselines,
   limit |-> limit, model |-> model, source |-> source]

\* Entity 2 lacks some actuals, and its labels are later.
Row(e, d) == [entity |-> e, date |-> d, actual |-> e = 1 \/ d % 3 # 0,
              label |-> e = 1 \/ d % 4 # 0, cutoff |-> d]

Rows(dates) == {Row(e, d) : e \in {1, 2}, d \in dates}

\* February 28 of 2024, and days around a month's end.
Feb28 == FirstOfMonth[25] + 27
Dense == (Feb28 - 12) .. (Feb28 + 5)
YearAgo == (Feb28 - 369) .. (Feb28 - 361)
Ends == UNION {(FirstOfMonth[m] - 4) .. FirstOfMonth[m] : m \in 21 .. 27}
Firsts == {FirstOfMonth[m] : m \in 0 .. 29}
Mondays == {Feb28 - 2 + 7 * i : i \in -62 .. 3}

Histories ==
  [f \in Frequencies |->
     CASE f = "day" ->
            {Rows(Dense \union YearAgo),
             Rows(Dense) \union {Row(3, Feb28 - 380)},
             {[r EXCEPT !.cutoff = r.date + (r.date % 2)] : r \in Rows(Dense)},
             Rows(Dense) \union {[Row(1, Feb28) EXCEPT !.actual = FALSE]},
             Rows({Feb28})}
       [] f = "week" -> {Rows(Mondays)}
       [] f = "month" -> {Rows(Firsts), Rows(Ends)}]

MonthEnds(start) ==
  BackfillDates(start, FirstOfMonth[28], 1, "month")

Runs ==
  {Contract("day", {Feb28, Feb28 + 1}, {h}, w, AllBaselines, limit, TRUE, src) :
     h \in {1, 2}, w \in {3, 7}, limit \in {None, 1},
     src \in {"csv", "bigquery", "backfill"}}
  \union
  {Contract("day", {Feb28, Feb28 + 2}, {1, 8}, w,
            {"zero_demand", "seasonal_naive_7d"}, None, model, "bigquery") :
     w \in {6, 7}, model \in BOOLEAN}
  \union
  {Contract("day", {Feb28, Feb28 + 2}, {1, 7}, 7, {}, None, TRUE, "backfill")}
  \union
  {Contract("week", {Feb28 - 2, Feb28 + 5}, {h}, 52,
            {"seasonal_naive_7d", "moving_average"}, None, TRUE, "bigquery") :
     h \in {1, 2}}
  \union
  {Contract("month", origins, {h}, 12, AllBaselines, None, TRUE, "bigquery") :
     origins \in {MonthEnds(FirstOfMonth[24]), {FirstOfMonth[26]}},
     h \in {1, 2}}
  \union
  {Contract("month", MonthEnds(start), {h}, 2, {"last_observation"}, None,
            TRUE, src) :
     start \in (FirstOfMonth[25] - 4) .. FirstOfMonth[25],
     h \in {1, 2}, src \in {"csv", "backfill"}}

-----------------------------------------------------------------------------
(* Readings: two versions of run 1, one of run 2 and one that is           *)
(* incomplete.                                                             *)

Publication(run, dates, id(_, _), announced) ==
  [run |-> run, announced |-> announced,
   rows |-> {<<e, d, d - 9, id(e, d)>> : e \in {1, 2}, d \in dates}]

Publications ==
  <<Publication(1, {10, 11}, LAMBDA e, d : 2 * e + d, 4),
    Publication(1, {10, 11}, LAMBDA e, d : 40 - 3 * e - d, 4),
    Publication(2, {11, 12}, LAMBDA e, d : e + d, 4),
    Publication(2, {11}, LAMBDA e, d : e, 3)>>

ReadRequests ==
  {q \in [mode : {"current", "version", "explorer"}, version : 1 .. 4,
          run : {1, 2}, entity : {Absent, 1}, dates : {Absent, {11}},
          horizons : {Absent, {1}}, limit : 1 .. 3] :
     /\ q.mode # "version" => q.version = 1
     /\ q.mode # "explorer" => q.run = 1
     /\ q.mode = "explorer" => q.entity # Absent}

-----------------------------------------------------------------------------
(* Alerts.                                                                 *)

Policy(name, signal, severity, destination) ==
  [name |-> name, signal |-> signal, severity |-> severity,
   destination |-> destination]

Destination(kind, url, minimum) ==
  [kind |-> kind, url |-> url, minimum |-> minimum]

Configurations ==
  {[policies |-> <<Policy("fresh", "publication_freshness", "page", "hook"),
                   Policy("drift", "data_drift", severity, "log"),
                   Policy("cost", "pipeline_cost", "ticket", "hook")>>,
    destinations |-> [log |-> Destination("log", FALSE, minimum),
                      hook |-> Destination("webhook", url, "ticket")]] :
     severity \in {"info", "ticket"}, minimum \in {"info", "ticket"},
     url \in BOOLEAN}

ReadSignals ==
  {[publication_freshness |-> <<[key |-> 1, status |-> a]>>,
    data_drift |-> <<[key |-> 1, status |-> b], [key |-> e, status |-> c]>>,
    pipeline_cost |-> <<[key |-> 3, status |-> d]>>] :
     a \in {"fresh", "stale"}, b \in {"healthy", "drifting"},
     c \in {"insufficient_observations", "missing", "drifting"}, e \in {1, 2},
     d \in {"cost_data_unavailable", "over_budget"}}

-----------------------------------------------------------------------------
(* Hierarchies.                                                            *)

Nodes == 1 .. 4
Pairs == Nodes \X Nodes

SomeGraphs ==
  {Graph(Nodes, edges, level) :
     edges \in UNION {kSubset(k, Pairs) : k \in 0 .. 3}
                 \union {{<<1, 2>>, <<2, 5>>}, {<<2, 3>>, <<3, 4>>, <<4, 2>>, <<1, 2>>}},
     level \in {<<1, 2, 2, 3>>, <<1, 1, 2, 2>>}}

\* The texts 1 and 2, their like with a '|' within, and none.
KeySets == [region : {<<1>>, <<2>>, <<1, 2>>, <<>>}, store : {<<1>>, <<2>>, <<2, 1>>}]

SomeEntities ==
  [topic : {"entities"},
   levels : {<< <<>>, <<"store">> >>,
             << <<>>, <<"region">>, <<"store", "region">> >>,
             << <<"region">>, <<"store">> >>},
   entities : UNION {kSubset(k, KeySets) : k \in 1 .. 3}]

\* Node 1 above 2 and 3, node 2 above 4 and 5; or two trees.
Tree == Graph(1 .. 5, {<<1, 2>>, <<1, 3>>, <<2, 4>>, <<2, 5>>}, <<1, 2, 2, 3, 3>>)
Forest == Graph(1 .. 5, {<<1, 3>>, <<1, 4>>, <<2, 5>>}, <<1, 1, 2, 2, 2>>)

SomeWeights ==
  {<<1, a, b, c, 1>> : a \in {-1, 0, 1}, b \in {0, 2}, c \in {-1, 0, 1, 2}}

\* Multiples of 144, which the shares divide.
SomeQuantiles ==
  {[i \in 1 .. 3 |-> [n \in 1 .. 5 |-> 144 * (v[n] + (i - 2) * w)]] :
     v \in {<<5, 2, 2, 1, 1>>, <<1, 4, 1, 3, 2>>, <<2, 1, 3, 1, 0>>},
     w \in {-1, 0, 1}}

ToReconcile ==
  [topic : {"reconcile"}, graph : {Tree, Forest}, weight : SomeWeights,
   quantiles : SomeQuantiles,
   method : {"bottom_up", "top_down", "middle_out"}, middle : {2}]

-----------------------------------------------------------------------------
(* Drafts.  The id of a candidate is ten times its series, plus its        *)
(* horizon.                                                                *)

Candidate(dims, horizon, status) ==
  [id |-> 10 * dims + horizon, dims |-> dims, horizon |-> horizon,
   eligible |-> CASE status = "in" -> TRUE [] status = "open" -> Absent
                  [] OTHER -> FALSE,
   reason |-> IF status = "out" THEN "sparse" ELSE Absent]

Prediction(dims, horizon, entity) ==
  [id |-> 10 * dims + horizon, dims |-> dims, horizon |-> horizon,
   entity |-> entity]

AllKeys == {1, 2} \X {1, 2}

Populations ==
  {{Candidate(k[1], k[2], status[k]) : k \in {x \in AllKeys : status[x] # "no"}} :
     status \in [AllKeys -> {"no", "in", "out"}]}
  \union
  {{Candidate(1, 1, "in"), Candidate(1, 2, "in"), Candidate(2, 1, status)} :
     status \in {"open", "unexplained"}}
  \union
  {{Candidate(1, 1, "in"), [Candidate(1, 1, "in") EXCEPT !.id = 1]}}

\* Scored rows: any keys, series told apart or not, a row twice, an ancestor.
ScoredRows ==
  {{Prediction(k[1], k[2], entity) : k \in keys} :
     keys \in SUBSET AllKeys, entity \in {Absent, 1}}
  \union
  {{Prediction(1, 1, Absent), [Prediction(1, 1, Absent) EXCEPT !.id = 1]},
   {Prediction(2, 1, 2), AncestorRow(1, Prediction(2, 1, 2))}}

ToDraft ==
  {c \in [topic : {"draft"}, frozen : Populations, predictions : ScoredRows,
          pinned : SUBSET AllKeys, horizons : {{1}, {1, 2}}] :
     \/ c.pinned = Keys(c.predictions)
     \/ c.pinned = Keys(Eligible(c.frozen))}

\* Pairs of prediction and actual that are 0 to 3 apart, one a return.
ToCalibrate ==
  {[topic |-> "calibrate", samples |-> <<first, second>>, least |-> least] :
     first \in [{<<2, 2>>, <<1, 4>>, <<5, 3>>} -> {0, 1, 4, 8, 9}],
     second \in [{<<-1, 0>>, <<4, 1>>, <<1, -2>>} -> {0, 2}], least \in {3, 20}}

SomeTwins ==
  [topic : {"route"},
   history : [nonzero : 0 .. 30, zero : 0 .. 12, missing : {0, 1}]]
  \union
  [topic : {"source"},
   latest : {{}} \union
     {{run} : run \in [status : {"succeeded", "failed", "partial"},
                       mode : {"static_demo", "continuous"}, late : -1 .. 1]}]

SomeGraphCases ==
  [topic : {"graph"}, graph : SomeGraphs] \union SomeEntities

Spec == RulesSpec
=============================================================================
