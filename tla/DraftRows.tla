------------------------------ MODULE DraftRows ------------------------------
(***************************************************************************)
(* What a forecast draft is made of: the frozen population and the rows    *)
(* scored for it (vertex/evaluation/forecast_pipeline.py), the canonical   *)
(* rows (vertex/utils/forecast_outputs.py) and their validation            *)
(* (vertex/utils/forecast_publication.py), the routing of a series         *)
(* (vertex/evaluation/strategy_routing.py) and the calibration of          *)
(* quantiles (vertex/evaluation/calibration.py).                           *)
(*                                                                         *)
(* A row has an id, since frames may hold equal rows, the dimensions of    *)
(* its series (dims), the identity its adapter gave (entity) and a         *)
(* horizon; all rows of a run have one origin.                             *)
(***************************************************************************)
EXTENDS Integers, FiniteSets, FiniteSetsExt

CONSTANT Null  \* a value that is missing

Key(r) == <<r.dims, r.horizon>>
Keys(rows) == {Key(r) : r \in rows}
UniqueKeys(rows) == \A r, s \in rows : Key(r) = Key(s) => r = s

Eligible(frozen) == {c \in frozen : c.eligible = TRUE}

\* build_eligibility_decisions: every candidate is decided once.
DecisionsHold(frozen) ==
  /\ \A c \in frozen : c.eligible # Null
  /\ UniqueKeys(frozen)
  /\ \A c \in frozen : ~c.eligible => c.reason # Null

\* The scored rows are those of the frozen, pinned population.
PopulationMatches(frozen, predictions, pinned) ==
  /\ predictions # {} /\ Eligible(frozen) # {}
  /\ UniqueKeys(predictions)
  /\ Keys(predictions) = Keys(Eligible(frozen))
  /\ pinned = Keys(Eligible(frozen))

\* The identity that a canonical row has: the adapter's or else its dimensions.
Identity(r) == IF r.entity = Null THEN r.dims ELSE r.entity

CanonicalRow(r) == [source |-> r.id, entity |-> Identity(r), horizon |-> r.horizon]

\* Faulty variant: a series may lack horizons of the contract.
HorizonsKnown(rows, horizons) == \A r \in rows : r.horizon \in horizons

HorizonsComplete(rows, horizons) ==
  \A r \in rows :
    {s.horizon : s \in {x \in rows : x.entity = r.entity}} = horizons

\* validate_publication_batch: output ids are made of entity and horizon.
BatchHolds(rows, horizons) ==
  /\ \A r, s \in rows :
       r.entity = s.entity /\ r.horizon = s.horizon => r = s
  /\ HorizonsComplete(rows, horizons)

\* execute_forecast_pipeline returns a draft of these rows.
Draft(predictions) == {CanonicalRow(r) : r \in predictions}

DraftAccepted(frozen, predictions, pinned, horizons) ==
  /\ PopulationMatches(frozen, predictions, pinned)
  /\ DecisionsHold(frozen)
  /\ BatchHolds(Draft(predictions), horizons)

-----------------------------------------------------------------------------
(* The batch of a hierarchy: expand_leaf_predictions makes the row of an   *)
(* ancestor by copying the row of one of its leaves.                       *)

AncestorRow(node, leafRow) == [leafRow EXCEPT !.id = node, !.dims = node]

-----------------------------------------------------------------------------
(* Routing.  A history is the number of its periods with demand, without   *)
(* demand and with a missing value.                                        *)

\* Faulty variant: an interval at the threshold is not intermittent.
ReasonAbove(length, nonzero) ==
  IF length < 28 \/ nonzero < 3 THEN "cold_start"
  ELSE IF nonzero = 0 \/ 100 * length > 132 * nonzero THEN "intermittent_demand"
  ELSE "none"

Reason(length, nonzero) ==
  IF length < 28 \/ nonzero < 3 THEN "cold_start"
  ELSE IF nonzero = 0 \/ 100 * length >= 132 * nonzero THEN "intermittent_demand"
  ELSE "none"

\* _attach_strategy of the pipeline, where a missing demand does not count.
RouteOf(h) ==
  IF h.nonzero + h.zero + h.missing = 0 THEN "no_routing_history"
  ELSE Reason(h.nonzero + h.zero, h.nonzero)

\* classify_series, where it is no demand; the default policy.  A series with no
\* history has no row here.
ClassOf(h) ==
  LET length == h.nonzero + h.zero + h.missing
      cold == length < 28 \/ h.nonzero < 3
      intermittent == h.nonzero = 0 \/ 100 * length >= 132 * h.nonzero
  IN CASE cold -> "cold_start"
       [] ~cold /\ intermittent -> "intermittent_demand"
       [] OTHER -> "none"

-----------------------------------------------------------------------------
(* Calibration.  A sample is a function from pairs <<prediction, actual>>  *)
(* to the number of rows that have them.                                   *)

Absolute(n) == IF n < 0 THEN -n ELSE n
RowCount(sample) == MapThenSumSet(LAMBDA p : sample[p], DOMAIN sample)

Pooled(samples) ==
  LET pairs == UNION {DOMAIN samples[h] : h \in DOMAIN samples}
      count(p, h) == IF p \in DOMAIN samples[h] THEN samples[h][p] ELSE 0
  IN [p \in pairs |-> MapThenSumSet(LAMBDA h : count(p, h), DOMAIN samples)]

\* Faulty variant: the quantile of the sample itself, rounded down.
PlainRank(n) == (8 * (n - 1)) \div 10

\* The position, from 0, of the quantile among n ordered errors: the level
\* ceil(0.8 (n + 1)) / n, at most 1, and the next higher element.
FiniteSampleRank(n) ==
  LET k == -((-8 * (n + 1)) \div 10)
  IN IF k >= n THEN n - 1 ELSE k

Radius(sample) ==
  LET error(p) == Absolute(p[2] - p[1])
      atMost(r) == {p \in DOMAIN sample : error(p) <= r}
      count(r) == MapThenSumSet(LAMBDA p : sample[p], atMost(r))
      radii == {error(p) : p \in {x \in DOMAIN sample : sample[x] > 0}}
  IN Min({r \in radii : count(r) > FiniteSampleRank(RowCount(sample))})

Greater(a, b) == IF a >= b THEN a ELSE b

\* P10, P50 and P90 of a prediction, not below 0 and in order.
Quantiles(prediction, sample) ==
  LET low == Greater(prediction - Radius(sample), 0)
      mid == Greater(Greater(prediction, 0), low)
  IN <<low, mid, Greater(Greater(prediction + Radius(sample), 0), mid)>>

\* fit_horizon_calibrator raises unless there are enough rows in all.
CanCalibrate(samples, least) == RowCount(Pooled(samples)) >= least

\* A horizon with too few rows of its own is given all of them.
SampleOf(samples, h, least) ==
  IF RowCount(samples[h]) >= least THEN samples[h] ELSE Pooled(samples)

\* The interval coverage that probabilistic_metrics counts.
Covered(sample, by) ==
  LET inside(p) == LET q == Quantiles(p[1], by) IN q[1] <= p[2] /\ p[2] <= q[3]
  IN MapThenSumSet(LAMBDA p : sample[p], {p \in DOMAIN sample : inside(p)})
=============================================================================
