------------------------- MODULE ForecastRulesProofs -------------------------
(***************************************************************************)
(* Proofs about the rules of ForecastRules, for every calendar, contract,  *)
(* history, publication, policy, graph, population and sample.             *)
(*                                                                         *)
(* That no prediction knows an actual after its origin rests on two facts  *)
(* about shifted dates, in which months of different length are the hard   *)
(* case: going back n periods and forward n again never ends later than it *)
(* began (ShiftBackAndForth), and an earlier date is not shifted past a    *)
(* later one (ShiftMonotone).  BInv adds to LabelsKnown where the contract *)
(* and the rows come from, so that their dates are dates of the calendar.  *)
(* That what is loaded suffices needs the other direction: how far back    *)
(* a run looks at most.                                                    *)
(*                                                                         *)
(* Readings and passes of alerts have inductive invariants of their own:   *)
(* ReadsInv relates a token to the pages before it, MInv what was sent     *)
(* to what is due.                                                         *)
(*                                                                         *)
(* A case never changes, so what holds of every case holds in every state; *)
(* what remains is to show it of one population (DraftWhole, DraftKept),   *)
(* one graph (ReachedClosed, ForestReached), one reconciliation            *)
(* (ReconciledSums, ReconciledOrdered), one sample (RadiusFacts) or one    *)
(* history.                                                                *)
(***************************************************************************)
EXTENDS ForecastRules, DataLemmas

-----------------------------------------------------------------------------
(* Dates.                                                                  *)

\* What the calendar says of a month and of a day.
LEMMA MonthFacts ==
  ASSUME NEW m \in Months
  PROVE  /\ m \in Int /\ FirstDay[m] \in Days /\ FirstDay[m] \in Int
         /\ MonthLength[m] \in Int /\ 28 <= MonthLength[m]
<1>1. m \in Int /\ FirstDay[m] \in Days /\ MonthLength[m] \in 28 .. 31
  BY CalendarAssumption
<1>2. FirstDay[m] \in Int
  BY <1>1, CalendarAssumption
<1> QED
  BY <1>1, <1>2

\* A day lies within its month.
LEMMA DayFacts ==
  ASSUME NEW d \in Days
  PROVE  /\ d \in Int /\ MonthOf[d] \in Months /\ MonthOf[d] \in Int
         /\ FirstDay[MonthOf[d]] <= d
         /\ d < FirstDay[MonthOf[d]] + MonthLength[MonthOf[d]]
<1>1. d \in Int /\ MonthOf[d] \in Months
  BY CalendarAssumption
<1>2. MonthOf[d] \in Int
  BY <1>1, MonthFacts
<1>3. /\ FirstDay[MonthOf[d]] <= d
      /\ d < FirstDay[MonthOf[d]] + MonthLength[MonthOf[d]]
  BY CalendarAssumption
<1> QED
  BY <1>1, <1>2, <1>3

\* A month ends before a later one begins.
LEMMA MonthOrder ==
  ASSUME NEW m \in Months, NEW n \in Months, m < n
  PROVE  FirstDay[m] + MonthLength[m] <= FirstDay[n]
BY CalendarAssumption

\* Months follow days.
LEMMA MonthsFollowDays ==
  ASSUME NEW d \in Days, NEW e \in Days, d <= e
  PROVE  MonthOf[d] <= MonthOf[e]
<1>1. ASSUME MonthOf[e] < MonthOf[d]
      PROVE  FALSE
  <2>1. FirstDay[MonthOf[e]] + MonthLength[MonthOf[e]] <= FirstDay[MonthOf[d]]
    BY <1>1, DayFacts, MonthOrder
  <2>2. FirstDay[MonthOf[d]] \in Int /\ FirstDay[MonthOf[e]] \in Int
        /\ MonthLength[MonthOf[e]] \in Int
    BY DayFacts, MonthFacts
  <2> QED
    BY <2>1, <2>2, DayFacts
<1> QED
  BY <1>1, DayFacts

\* A date that is shifted by months lies in the month that many months on.
LEMMA ShiftedMonth ==
  ASSUME NEW d \in Days, NEW n \in Int, MonthOf[d] + n \in Months
  PROVE  /\ ShiftMonths(d, n) \in Days
         /\ MonthOf[ShiftMonths(d, n)] = MonthOf[d] + n
         /\ FirstDay[MonthOf[d] + n] <= ShiftMonths(d, n)
         /\ ShiftMonths(d, n) < FirstDay[MonthOf[d] + n] + MonthLength[MonthOf[d] + n]
         /\ ShiftMonths(d, n) - FirstDay[MonthOf[d] + n] <= d - FirstDay[MonthOf[d]]
<1> DEFINE k == MonthOf[d]
           m == MonthOf[d] + n
<1>1. k \in Months /\ m \in Months
  BY DayFacts
<1>2. /\ FirstDay[k] \in Int /\ FirstDay[m] \in Int
      /\ MonthLength[m] \in Int /\ 28 <= MonthLength[m] /\ d \in Int
      /\ FirstDay[k] <= d
  BY <1>1, DayFacts, MonthFacts
<1>3. ShiftMonths(d, n) = FirstDay[m] + Lesser(d - FirstDay[k], MonthLength[m] - 1)
  BY DEF ShiftMonths
<1>4. /\ ShiftMonths(d, n) \in FirstDay[m] .. (FirstDay[m] + MonthLength[m] - 1)
      /\ ShiftMonths(d, n) - FirstDay[m] <= d - FirstDay[k]
  BY <1>2, <1>3 DEF Lesser
<1>5. ShiftMonths(d, n) \in Days /\ MonthOf[ShiftMonths(d, n)] = m
  BY <1>1, <1>4, CalendarAssumption
<1> QED
  BY <1>2, <1>4, <1>5

\* Going back and forth by months ends no later than it began, from any date
\* that is not after the one gone back to: the last day of a short month may
\* come back as an earlier day of a long one, and never as a later one.
LEMMA MonthsBackAndForth ==
  ASSUME NEW o \in Days, NEW d \in Days, NEW n \in Nat,
         MonthOf[o] - n \in Months, d <= ShiftMonths(o, -n)
  PROVE  ShiftMonths(d, n) <= o /\ d <= o
<1> DEFINE e == ShiftMonths(o, -n)
           m == MonthOf[o]
           k == MonthOf[d]
           s == ShiftMonths(d, n)
           f == FirstDay[k + n]
           l == MonthLength[k + n]
<1>1. m + (-n) = m - n /\ m \in Int
  BY DayFacts
<1>2. e \in Days /\ MonthOf[e] = m - n /\ e - FirstDay[m - n] <= o - FirstDay[m]
  BY <1>1, ShiftedMonth
<1>3. k \in Months /\ m \in Months /\ k <= m - n
  BY <1>2, DayFacts, MonthsFollowDays
<1>4. /\ k \in Int /\ m \in Int /\ o \in Int /\ d \in Int
      /\ FirstDay[m] \in Int /\ FirstDay[k] \in Int /\ FirstDay[m] <= o
  BY <1>3, DayFacts, MonthFacts
<1>5. k + n \in Months
  <2>1. k + n \in k .. m
    BY <1>3, <1>4
  <2> QED
    BY <2>1, <1>3, CalendarAssumption
<1>6. s \in Days /\ s < f + l /\ s - f <= d - FirstDay[k]
  BY <1>5, ShiftedMonth
<1>7. s \in Int /\ f \in Int /\ l \in Int
  BY <1>5, <1>6, DayFacts, MonthFacts
<1>8. ASSUME k + n < m
      PROVE  s <= o
  <2>1. f + l <= FirstDay[m]
    BY <1>3, <1>5, <1>8, MonthOrder
  <2> HIDE DEF m, k, s, f, l
  <2> QED
    BY <1>4, <1>6, <1>7, <2>1
<1>9. ASSUME k + n = m
      PROVE  s <= o
  <2>1. k = m - n
    BY <1>4, <1>9
  <2>2. e \in Int /\ d <= e
    BY <1>2, DayFacts
  <2>3. e - FirstDay[k] <= o - FirstDay[m]
    BY <1>2, <2>1
  <2>4. s - FirstDay[m] <= d - FirstDay[k]
    BY <1>6, <1>9
  <2> HIDE DEF e, m, k, s
  <2> QED
    BY <1>4, <1>7, <2>2, <2>3, <2>4
<1>10. s <= o
  BY <1>3, <1>4, <1>8, <1>9
<1>11. d <= o
  <2>1. CASE k < m
    BY <1>3, <1>4, <2>1, DayFacts, MonthFacts, MonthOrder
  <2>2. CASE k = m
    <3>1. n = 0
      BY <1>3, <1>4, <2>2
    <3>2. m - n = m
      BY <1>4, <3>1
    <3>3. e - FirstDay[m] <= o - FirstDay[m] /\ d <= e /\ e \in Int
      BY <1>2, <3>2, DayFacts
    <3> HIDE DEF e, m
    <3> QED
      BY <1>4, <3>3
  <2> QED
    BY <1>3, <1>4, <2>1, <2>2
<1> QED
  BY <1>10, <1>11

\* The same of every frequency.  shift_period of a date at or before the one
\* that lies n periods before o is at or before o.
THEOREM ShiftBackAndForth ==
  ASSUME NEW f \in Frequencies, NEW o \in Days, NEW d \in Days, NEW n \in Nat,
         CanShift(o, -n, f), d <= ShiftPeriod(o, -n, f)
  PROVE  ShiftPeriod(d, n, f) <= o /\ d <= o
<1>1. o \in Int /\ d \in Int
  BY DayFacts
<1>2. CASE f = "day"
  BY <1>1, <1>2 DEF ShiftPeriod
<1>3. CASE f = "week"
  BY <1>1, <1>3 DEF ShiftPeriod
<1>4. CASE f = "month"
  <2>1. MonthOf[o] + (-n) = MonthOf[o] - n
    BY DayFacts
  <2>2. MonthOf[o] - n \in Months /\ d <= ShiftMonths(o, -n)
    BY <1>4, <2>1 DEF ShiftPeriod, CanShift
  <2>3. ShiftMonths(d, n) <= o /\ d <= o
    BY <2>2, MonthsBackAndForth
  <2> QED
    BY <1>4, <2>3 DEF ShiftPeriod
<1> QED
  BY <1>2, <1>3, <1>4 DEF Frequencies

\* A later date is never shifted before an earlier one, so the periods of two
\* dates keep their order.
THEOREM ShiftMonotone ==
  ASSUME NEW f \in Frequencies, NEW d \in Days, NEW e \in Days, NEW n \in Int,
         d <= e, CanShift(d, n, f), CanShift(e, n, f)
  PROVE  ShiftPeriod(d, n, f) <= ShiftPeriod(e, n, f)
<1>1. d \in Int /\ e \in Int
  BY DayFacts
<1>2. CASE f = "day"
  BY <1>1, <1>2 DEF ShiftPeriod
<1>3. CASE f = "week"
  BY <1>1, <1>3 DEF ShiftPeriod
<1>4. CASE f = "month"
  <2> DEFINE k == MonthOf[d]
             m == MonthOf[e]
  <2>1. /\ k \in Months /\ m \in Months /\ k <= m
        /\ k + n \in Months /\ m + n \in Months
    BY <1>4, DayFacts, MonthsFollowDays DEF CanShift
  <2>2. /\ k \in Int /\ m \in Int /\ FirstDay[k] \in Int /\ FirstDay[k + n] \in Int
        /\ FirstDay[m + n] \in Int /\ MonthLength[k + n] \in Int
        /\ MonthLength[m + n] \in Int
    BY <2>1, MonthFacts
  <2>3. CASE k = m
    BY <1>1, <1>4, <2>2, <2>3 DEF ShiftPeriod, ShiftMonths, Lesser
  <2>4. CASE k < m
    <3>1. FirstDay[k + n] + MonthLength[k + n] <= FirstDay[m + n]
      BY <2>1, <2>2, <2>4, MonthOrder
    <3>2. /\ ShiftMonths(d, n) < FirstDay[k + n] + MonthLength[k + n]
          /\ FirstDay[m + n] <= ShiftMonths(e, n)
          /\ ShiftMonths(d, n) \in Int /\ ShiftMonths(e, n) \in Int
      BY <2>1, ShiftedMonth, DayFacts
    <3> QED
      BY <1>4, <2>2, <3>1, <3>2 DEF ShiftPeriod
  <2> HIDE DEF k, m
  <2> QED
    BY <2>1, <2>2, <2>3, <2>4
<1> QED
  BY <1>2, <1>3, <1>4 DEF Frequencies

-----------------------------------------------------------------------------
(* Labels.                                                                 *)

\* What is loaded comes from the history.
Sourced ==
  /\ contract \in Contracts
  /\ table \in Tables[contract.frequency]
  /\ data \subseteq table

BInv == Sourced /\ LabelsKnown

\* Dates and cutoffs of loaded rows are dates.
LEMMA LoadedRows ==
  ASSUME Sourced, NEW r \in data
  PROVE  r.date \in Days /\ r.date \in Int /\ r.cutoff \in Int
<1>1. contract.frequency \in Frequencies
  BY BacktestAssumption DEF Sourced
<1>2. r.date \in Days /\ r.cutoff \in Int
  BY <1>1, BacktestAssumption DEF Sourced
<1> QED
  BY <1>2, DayFacts

\* What the assumption says of the contract of the run.
LEMMA ContractFacts ==
  ASSUME Sourced, NEW o \in contract.origins
  PROVE  /\ contract.frequency \in Frequencies
         /\ o \in Days /\ o \in Int
         /\ Horizon(contract) \in Nat
         /\ CanShift(o, -Horizon(contract), contract.frequency)
         /\ CanShift(o, -1, contract.frequency)
         /\ contract.baselines \subseteq AllowedBaselines
<1>1. /\ contract.frequency \in Frequencies
      /\ o \in Days
      /\ contract.horizons \subseteq Nat \ {0} /\ contract.horizons # {}
      /\ \A n \in contract.horizons \union {1} :
           CanShift(o, -n, contract.frequency)
      /\ contract.baselines \subseteq AllowedBaselines
  BY BacktestAssumption DEF Sourced
<1>2. Horizon(contract) \in contract.horizons
  BY <1>1 DEF Horizon
<1> QED
  BY <1>1, <1>2, DayFacts

\* What a baseline is read from is known at the origin.
LEMMA BaselineReads ==
  ASSUME Sourced, NEW b \in AllowedBaselines, NEW e, NEW o \in contract.origins,
         NEW target,
         BaselinePrediction(b, data, e, o, target, contract) # None,
         NEW r \in BaselinePrediction(b, data, e, o, target, contract)
  PROVE  r.date <= o
<1> DEFINE observed == Observed(data, e, o, contract)
           season == ShiftPeriod(target, -SeasonalPeriod(contract.frequency),
                                 contract.frequency)
<1>1. \A x \in observed : x.date <= o
  BY DEF Observed
<1>2. ASSUME NEW date, Lookup(data, e, date, o) # None,
             r \in Lookup(data, e, date, o)
      PROVE  r.date <= o
  <2>1. r \in data /\ r.date = date /\ ~(o < date)
    BY <1>2 DEF Lookup
  <2> QED
    BY <2>1, LoadedRows, ContractFacts
<1>3. CASE b = "zero_demand"
  BY <1>3 DEF BaselinePrediction
<1>4. CASE b = "last_observation" \/ b = "moving_average"
  <2>1. \A n : LastRows(observed, n) \subseteq observed
    BY DEF LastRows
  <2>2. r \in observed
    BY <1>4, <2>1 DEF BaselinePrediction
  <2> QED
    BY <1>1, <2>2
<1>5. CASE b \in {"croston_sba", "tsb", "croston_sba_tsb"}
  <2>1. r \in observed
    BY <1>5 DEF BaselinePrediction
  <2> QED
    BY <1>1, <2>1
<1>6. CASE b = "seasonal_naive_7d"
  <2>1. BaselinePrediction(b, data, e, o, target, contract)
          = Lookup(data, e, season, o)
    BY <1>6 DEF BaselinePrediction
  <2> QED
    BY <1>2, <2>1
<1>7. CASE b = "same_period_last_year"
  <2>1. BaselinePrediction(b, data, e, o, target, contract)
          = Lookup(data, e, YearBefore(target), o)
    BY <1>7 DEF BaselinePrediction
  <2> QED
    BY <1>2, <2>1
<1> QED
  BY <1>3, <1>4, <1>5, <1>6, <1>7 DEF AllowedBaselines

\* The rows a model is trained on have labels that are known at the origin.
LEMMA TrainReads ==
  ASSUME Sourced, NEW o \in contract.origins,
         NEW r \in TrainRows(data, contract, o)
  PROVE  /\ r.date \in Int /\ r.cutoff \in Int
         /\ ShiftPeriod(r.date, Horizon(contract), contract.frequency) <= o
         /\ r.date <= o
<1>1. r \in data /\ r.date <= ShiftPeriod(o, -Horizon(contract), contract.frequency)
  BY DEF TrainRows, TrainEnd
<1> QED
  BY <1>1, LoadedRows, ContractFacts, ShiftBackAndForth

\* And so have those of a backfill when they are one period ahead.
LEMMA BackfillReads ==
  ASSUME Sourced, NEW o \in contract.origins,
         NEW r \in BackfillTrainRows(data, contract, o)
  PROVE  ShiftPeriod(r.date, 1, contract.frequency) <= o /\ r.date <= o
<1>1. r \in data /\ r.date <= ShiftPeriod(o, -1, contract.frequency)
  BY DEF BackfillTrainRows
<1> QED
  BY <1>1, LoadedRows, ContractFacts, ShiftBackAndForth

\* Loading takes rows of the history only.
LEMMA LoadedFromTable == Loaded(table, contract) \subseteq table
BY DEF Loaded, HistoryQuery

\* One step of a backtest keeps the invariant.
LEMMA BacktestStep == BInv /\ [BacktestNext]_backtest => BInv'
<1> SUFFICES ASSUME BInv, [BacktestNext]_backtest
             PROVE  BInv'
  OBVIOUS
<1> USE DEF BInv
<1>1. CASE Load
  BY <1>1, LoadedFromTable DEF Load, Sourced, LabelsKnown
<1>2. CASE ScoreBaselines
  <2>1. Sourced'
    BY <1>2 DEF ScoreBaselines, Sourced
  <2>2. ASSUME NEW s \in scores', s.prediction # None, NEW r \in s.prediction
        PROVE  r.date <= s.origin /\ s.by \notin {"model", "backfill"}
    <3>1. PICK b \in contract.baselines, e \in Selected(Entities(data), contract.limit),
               o \in contract.origins, h \in contract.horizons :
            s = Score(data, contract, b, e, o, h,
                      BaselinePrediction(b, data, e, o, TargetDate(contract, o, h),
                                         contract))
      BY <1>2, <2>2 DEF ScoreBaselines, BaselineScores
    <3>2. /\ s.by = b /\ s.origin = o
          /\ s.prediction = BaselinePrediction(b, data, e, o,
                              TargetDate(contract, o, h), contract)
      BY <3>1 DEF Score
    <3>3. b \in AllowedBaselines
      BY ContractFacts
    <3>4. r.date <= o
      BY <2>2, <3>2, <3>3, BaselineReads
    <3> QED
      BY <3>2, <3>3, <3>4 DEF AllowedBaselines
  <2>3. contract' = contract
    BY <1>2 DEF ScoreBaselines
  <2> QED
    BY <2>1, <2>2, <2>3 DEF LabelsKnown
<1>3. ASSUME NEW o \in contract.origins, ScoreModel(o)
      PROVE  BInv'
  <2>1. Sourced' /\ contract' = contract
    BY <1>3 DEF ScoreModel, Sourced
  <2>2. CASE scores' = scores
    BY <2>1, <2>2 DEF LabelsKnown
  <2>3. CASE /\ CutoffsHold(data, contract, o)
             /\ scores' = scores \union ModelScores(data, contract, o)
    <3>1. ASSUME NEW s \in ModelScores(data, contract, o), NEW r \in s.prediction
          PROVE  /\ ShiftPeriod(r.date, s.horizon, contract.frequency) <= s.origin
                 /\ r.date <= s.origin
                 /\ r.cutoff <= s.origin
      <4>1. /\ s.origin = o /\ s.horizon = Horizon(contract)
            /\ s.prediction = TrainRows(data, contract, o)
        BY <3>1 DEF ModelScores, Score
      <4>2. r.cutoff <= r.date
        BY <2>3, <3>1, <4>1 DEF CutoffsHold
      <4>3. /\ r.date \in Int /\ r.cutoff \in Int /\ o \in Int
            /\ ShiftPeriod(r.date, Horizon(contract), contract.frequency) <= o
            /\ r.date <= o
        BY <3>1, <4>1, TrainReads, ContractFacts
      <4> QED
        BY <4>1, <4>2, <4>3
    <3> QED
      BY <2>1, <2>3, <3>1 DEF LabelsKnown
  <2> QED
    BY <1>3, <2>2, <2>3 DEF ScoreModel
<1>4. ASSUME NEW o \in contract.origins, BackfillAsOf(o)
      PROVE  BInv'
  <2>1. /\ Sourced' /\ contract' = contract
        /\ scores' = scores \union BackfillScores(data, contract, o)
    BY <1>4 DEF BackfillAsOf, Sourced
  <2>2. ASSUME NEW s \in BackfillScores(data, contract, o), NEW r \in s.prediction
        PROVE  /\ s.horizon = 1 =>
                    ShiftPeriod(r.date, s.horizon, contract.frequency) <= s.origin
               /\ r.date <= s.origin
               /\ s.by = "backfill"
    <3>1. /\ s.origin = o /\ s.by = "backfill"
          /\ s.prediction = BackfillTrainRows(data, contract, o)
      BY <2>2 DEF BackfillScores
    <3> QED
      BY <2>2, <3>1, BackfillReads
  <2> QED
    BY <2>1, <2>2 DEF LabelsKnown
<1>5. CASE Persist
  BY <1>5 DEF Persist, Sourced, LabelsKnown
<1>6. CASE UNCHANGED backtest
  BY <1>6 DEF backtest, Sourced, LabelsKnown
<1> QED
  BY <1>1, <1>2, <1>3, <1>4, <1>5, <1>6 DEF BacktestNext

\* The history is chosen before anything is scored.
LEMMA BacktestStart == BacktestInit => BInv
BY DEF BacktestInit, BInv, Sourced, LabelsKnown

\* No prediction of a backtest, nor one of a backfill whose target is one period
\* ahead, is made from an actual or a label that was not known at its origin,
\* whatever the contract and the calendar.
THEOREM LabelsStayKnown == BacktestSpec => []LabelsKnown
<1>1. BInv => LabelsKnown
  BY DEF BInv
<1> QED
  BY <1>1, BacktestStart, BacktestStep, PTL DEF BacktestSpec

-----------------------------------------------------------------------------
(* How far back a run looks.                                               *)

\* A date that is shifted by nothing stays.
LEMMA ShiftNone ==
  ASSUME NEW f \in Frequencies, NEW d \in Days
  PROVE  ShiftPeriod(d, 0, f) = d /\ CanShift(d, 0, f)
<1> DEFINE m == MonthOf[d]
<1>1. /\ d \in Int /\ m \in Months /\ m \in Int /\ FirstDay[m] <= d
      /\ d < FirstDay[m] + MonthLength[m]
      /\ FirstDay[m] \in Int /\ MonthLength[m] \in Int
  BY DayFacts, MonthFacts
<1>2. m + 0 = m
  BY <1>1
<1>3. ShiftMonths(d, 0) = d
  BY <1>1, <1>2 DEF ShiftMonths, Lesser
<1> QED
  BY <1>1, <1>2, <1>3 DEF ShiftPeriod, CanShift, Frequencies

\* A shifted date is a number.
LEMMA ShiftIsDate ==
  ASSUME NEW f \in Frequencies, NEW d \in Days, NEW n \in Int, CanShift(d, n, f)
  PROVE  ShiftPeriod(d, n, f) \in Int
<1>1. d \in Int
  BY DayFacts
<1>2. CASE f = "month"
  <2>1. ShiftMonths(d, n) \in Days
    BY <1>2, ShiftedMonth DEF CanShift
  <2> QED
    BY <1>2, <2>1, DayFacts DEF ShiftPeriod
<1> QED
  BY <1>1, <1>2 DEF ShiftPeriod, Frequencies

\* Whoever can shift by two numbers of periods can by those between.
LEMMA CanShiftBetween ==
  ASSUME NEW f \in Frequencies, NEW d \in Days, NEW i \in Int, NEW k \in Int,
         NEW n \in i .. k, CanShift(d, i, f), CanShift(d, k, f)
  PROVE  CanShift(d, n, f)
<1>1. CASE f = "month"
  <2>1. /\ MonthOf[d] \in Int
        /\ MonthOf[d] + i \in Months /\ MonthOf[d] + k \in Months
    BY <1>1, DayFacts DEF CanShift
  <2>2. MonthOf[d] + n \in (MonthOf[d] + i) .. (MonthOf[d] + k)
    BY <2>1
  <2>3. (MonthOf[d] + i) .. (MonthOf[d] + k) \subseteq Months
    BY <2>1, CalendarAssumption
  <2> QED
    BY <2>2, <2>3 DEF CanShift
<1> QED
  BY <1>1 DEF CanShift

\* A date in a later month is a later date.
LEMMA LaterMonth ==
  ASSUME NEW d \in Days, NEW e \in Days, MonthOf[d] < MonthOf[e]
  PROVE  d < e
<1>1. /\ MonthOf[d] \in Months /\ MonthOf[e] \in Months
      /\ d < FirstDay[MonthOf[d]] + MonthLength[MonthOf[d]]
      /\ FirstDay[MonthOf[e]] <= e /\ d \in Int /\ e \in Int
  BY DayFacts
<1>2. FirstDay[MonthOf[d]] + MonthLength[MonthOf[d]] <= FirstDay[MonthOf[e]]
  BY <1>1, MonthOrder
<1>3. /\ FirstDay[MonthOf[d]] \in Int /\ MonthLength[MonthOf[d]] \in Int
      /\ FirstDay[MonthOf[e]] \in Int
  BY <1>1, MonthFacts
<1> QED
  BY <1>1, <1>2, <1>3

\* A longer shift ends later.
LEMMA ShiftFurther ==
  ASSUME NEW f \in Frequencies, NEW d \in Days, NEW n \in Int, NEW k \in Int,
         n <= k, CanShift(d, n, f), CanShift(d, k, f)
  PROVE  ShiftPeriod(d, n, f) <= ShiftPeriod(d, k, f)
<1>1. d \in Int
  BY DayFacts
<1>2. CASE f = "month" /\ n < k
  <2>1. /\ MonthOf[d] \in Int
        /\ MonthOf[d] + n \in Months /\ MonthOf[d] + k \in Months
    BY <1>2, DayFacts DEF CanShift
  <2>2. /\ ShiftMonths(d, n) \in Days /\ ShiftMonths(d, k) \in Days
        /\ MonthOf[ShiftMonths(d, n)] = MonthOf[d] + n
        /\ MonthOf[ShiftMonths(d, k)] = MonthOf[d] + k
    BY <2>1, ShiftedMonth
  <2>3. ShiftMonths(d, n) < ShiftMonths(d, k)
    BY <1>2, <2>1, <2>2, LaterMonth
  <2> QED
    BY <1>2, <2>2, <2>3, DayFacts DEF ShiftPeriod
<1>3. CASE n = k
  <2>1. ShiftPeriod(d, n, f) \in Int
    BY ShiftIsDate
  <2> QED
    BY <1>3, <2>1
<1>4. CASE f \in {"day", "week"}
  BY <1>1, <1>4 DEF ShiftPeriod
<1> QED
  BY <1>2, <1>3, <1>4 DEF Frequencies

\* The first and last dates that are loaded.
Start(c) == ShiftPeriod(Earliest(c.origins), -HistoryPeriods(c), c.frequency)
End(c) == TargetDate(c, Latest(c.origins), Latest(c.horizons))

\* What the assumptions say of the reach of a run.
LEMMA ReachFacts ==
  ASSUME NEW c \in Contracts
  PROVE  /\ c.frequency \in Frequencies
         /\ c.origins \subseteq Days /\ c.horizons \subseteq Nat \ {0}
         /\ c.window \in Nat
         /\ Earliest(c.origins) \in c.origins
         /\ \A o \in c.origins : Earliest(c.origins) <= o
         /\ Latest(c.origins) \in c.origins
         /\ \A o \in c.origins : o <= Latest(c.origins)
         /\ Latest(c.horizons) \in c.horizons
         /\ \A h \in c.horizons : h <= Latest(c.horizons)
         /\ \A o \in c.origins :
              /\ CanShift(o, -HistoryPeriods(c), c.frequency)
              /\ \A h \in c.horizons :
                   /\ CanShift(o, h, c.frequency)
                   /\ CanShift(TargetDate(c, o, h), -12, "month")
<1>1. /\ \E d \in c.origins : \A o \in c.origins : d <= o
      /\ \E d \in c.origins : \A o \in c.origins : o <= d
      /\ \E n \in c.horizons : \A h \in c.horizons : h <= n
  BY ReachAssumption
<1>2. /\ Earliest(c.origins) \in c.origins
      /\ \A o \in c.origins : Earliest(c.origins) <= o
  BY <1>1 DEF Earliest
<1>3. /\ Latest(c.origins) \in c.origins
      /\ \A o \in c.origins : o <= Latest(c.origins)
  BY <1>1 DEF Latest
<1>4. /\ Latest(c.horizons) \in c.horizons
      /\ \A h \in c.horizons : h <= Latest(c.horizons)
  BY <1>1 DEF Latest
<1>5. \A o \in c.origins :
        /\ CanShift(o, -HistoryPeriods(c), c.frequency)
        /\ \A h \in c.horizons :
             /\ CanShift(o, h, c.frequency)
             /\ CanShift(TargetDate(c, o, h), -12, "month")
  BY ReachAssumption
<1> QED
  BY <1>2, <1>3, <1>4, <1>5, BacktestAssumption

\* As many periods are loaded as the window, the horizon and the year before
\* ask for.
LEMMA PeriodsFacts ==
  ASSUME NEW c \in Contracts
  PROVE  /\ HistoryPeriods(c) \in Nat
         /\ c.window <= HistoryPeriods(c)
         /\ "same_period_last_year" \in c.baselines
              => YearOfPeriods(c.frequency) <= HistoryPeriods(c)
         /\ c.model => \A h \in c.horizons : c.window + h <= HistoryPeriods(c)
         /\ YearOfPeriods(c.frequency) \in Nat
<1> DEFINE least == c.window + IF c.model THEN Latest(c.horizons) ELSE 0
           year == YearOfPeriods(c.frequency)
<1>1. /\ c.window \in Nat /\ Latest(c.horizons) \in Nat
      /\ c.horizons \subseteq Nat
      /\ \A h \in c.horizons : h <= Latest(c.horizons)
      /\ c.frequency \in {"day", "week", "month"}
  BY ReachFacts DEF Frequencies
<1>2. year \in Nat
  BY <1>1 DEF YearOfPeriods
<1>3. least \in Nat /\ c.window <= least
      /\ (c.model => \A h \in c.horizons : c.window + h <= least)
  BY <1>1
<1>4. HistoryPeriods(c) =
        IF "same_period_last_year" \in c.baselines /\ year > least THEN year
                                                                   ELSE least
  BY DEF HistoryPeriods
<1> HIDE DEF least, year
<1>5. c.model => \A h \in c.horizons : c.window + h <= HistoryPeriods(c)
  BY <1>1, <1>2, <1>3, <1>4
<1> QED
  BY <1>1, <1>2, <1>3, <1>4, <1>5 DEF year

\* Dates up to that many periods before an origin are loaded.
LEMMA StartIsEarly ==
  ASSUME NEW c \in Contracts, NEW o \in c.origins,
         NEW n \in 0 .. HistoryPeriods(c)
  PROVE  /\ CanShift(o, -n, c.frequency)
         /\ Start(c) \in Int /\ ShiftPeriod(o, -n, c.frequency) \in Int
         /\ Start(c) <= ShiftPeriod(o, -n, c.frequency)
<1> DEFINE f == c.frequency
           first == Earliest(c.origins)
           p == HistoryPeriods(c)
<1>1. /\ f \in Frequencies /\ o \in Days /\ first \in Days /\ first <= o
      /\ CanShift(o, -p, f) /\ CanShift(first, -p, f) /\ p \in Nat
  BY ReachFacts, PeriodsFacts
<1>2. CanShift(o, 0, f)
  BY <1>1, ShiftNone
<1>3. -p \in Int /\ -n \in Int /\ -n \in (-p) .. 0 /\ -p <= -n
  BY <1>1
<1>4. CanShift(o, -n, f)
  BY <1>1, <1>2, <1>3, CanShiftBetween
<1>5. ShiftPeriod(first, -p, f) <= ShiftPeriod(o, -p, f)
  BY <1>1, <1>3, ShiftMonotone
<1>6. ShiftPeriod(o, -p, f) <= ShiftPeriod(o, -n, f)
  BY <1>1, <1>3, <1>4, ShiftFurther
<1>7. /\ ShiftPeriod(first, -p, f) \in Int /\ ShiftPeriod(o, -p, f) \in Int
      /\ ShiftPeriod(o, -n, f) \in Int
  BY <1>1, <1>3, <1>4, ShiftIsDate
<1> QED
  BY <1>4, <1>5, <1>6, <1>7 DEF Start

\* And so are those up to every target.
LEMMA EndIsLate ==
  ASSUME NEW c \in Contracts, NEW o \in c.origins, NEW h \in c.horizons
  PROVE  /\ TargetDate(c, o, h) \in Int /\ End(c) \in Int /\ o \in Int
         /\ o <= TargetDate(c, o, h) /\ TargetDate(c, o, h) <= End(c)
<1> DEFINE f == c.frequency
           last == Latest(c.origins)
           far == Latest(c.horizons)
<1>1. /\ f \in Frequencies /\ o \in Days /\ last \in Days /\ o <= last
      /\ far \in Nat /\ h \in Nat /\ h <= far
      /\ CanShift(o, h, f) /\ CanShift(last, h, f) /\ CanShift(last, far, f)
  BY ReachFacts
<1>2. ShiftPeriod(o, 0, f) = o /\ CanShift(o, 0, f)
  BY <1>1, ShiftNone
<1>3. o <= ShiftPeriod(o, h, f)
  BY <1>1, <1>2, ShiftFurther
<1>4. ShiftPeriod(o, h, f) <= ShiftPeriod(last, h, f)
  BY <1>1, ShiftMonotone
<1>5. ShiftPeriod(last, h, f) <= ShiftPeriod(last, far, f)
  BY <1>1, ShiftFurther
<1>6. /\ ShiftPeriod(o, h, f) \in Int /\ ShiftPeriod(last, h, f) \in Int
      /\ ShiftPeriod(last, far, f) \in Int /\ o \in Int
  BY <1>1, ShiftIsDate, DayFacts
<1> QED
  BY <1>3, <1>4, <1>5, <1>6 DEF TargetDate, End

\* Twelve months before a target is later than twelve months before its origin.
LEMMA YearBeforeTarget ==
  ASSUME NEW c \in Contracts, c.frequency = "month", NEW o \in c.origins,
         NEW h \in c.horizons, 12 <= HistoryPeriods(c)
  PROVE  /\ ShiftMonths(TargetDate(c, o, h), -12) \in Int
         /\ Start(c) <= ShiftMonths(TargetDate(c, o, h), -12)
<1> DEFINE t == TargetDate(c, o, h)
           before == ShiftMonths(o, -12)
           season == ShiftMonths(t, -12)
<1>1. /\ o \in Days /\ h \in Nat \ {0} /\ MonthOf[o] + h \in Months
      /\ t \in Days /\ MonthOf[t] + (-12) \in Months
  BY ReachFacts DEF CanShift
<1>2. t = ShiftMonths(o, h)
  BY DEF TargetDate, ShiftPeriod
<1>3. MonthOf[t] = MonthOf[o] + h /\ MonthOf[o] \in Int /\ h \in Int
  BY <1>1, <1>2, ShiftedMonth, DayFacts
<1>4. /\ CanShift(o, -12, c.frequency)
      /\ Start(c) \in Int /\ Start(c) <= ShiftPeriod(o, -12, c.frequency)
  BY StartIsEarly, PeriodsFacts
<1>5. MonthOf[o] + (-12) \in Months
  BY <1>4 DEF CanShift
<1>6. before \in Days /\ MonthOf[before] = MonthOf[o] + (-12)
  BY <1>1, <1>5, ShiftedMonth
<1>7. season \in Days /\ MonthOf[season] = MonthOf[t] + (-12)
  BY <1>1, ShiftedMonth
<1>8. MonthOf[before] < MonthOf[season]
  BY <1>1, <1>3, <1>6, <1>7
<1>9. before < season
  BY <1>6, <1>7, <1>8, LaterMonth
<1>10. ShiftPeriod(o, -12, c.frequency) = before
  BY DEF ShiftPeriod
<1> QED
  BY <1>4, <1>6, <1>7, <1>9, <1>10, DayFacts

\* The dates that the two seasonal baselines look up are not before the start.
LEMMA SeasonIsLoaded ==
  ASSUME NEW c \in Contracts, NEW o \in c.origins, NEW h \in c.horizons,
         SeasonalPeriod(c.frequency) <= c.window
  PROVE  LET season == ShiftPeriod(TargetDate(c, o, h),
                                   -SeasonalPeriod(c.frequency), c.frequency)
         IN season \in Int /\ Start(c) <= season
<1>1. /\ o \in Int /\ h \in Nat /\ Earliest(c.origins) \in Int
      /\ Earliest(c.origins) <= o /\ c.frequency \in Frequencies
      /\ c.window \in Nat
  BY ReachFacts, DayFacts
<1>2. HistoryPeriods(c) \in Nat /\ c.window <= HistoryPeriods(c)
  BY PeriodsFacts
<1>3. CASE c.frequency = "month"
  <2>1. 12 <= HistoryPeriods(c)
    BY <1>1, <1>2, <1>3 DEF SeasonalPeriod
  <2> QED
    BY <1>3, <2>1, YearBeforeTarget DEF SeasonalPeriod, ShiftPeriod
<1>4. CASE c.frequency \in {"day", "week"}
  BY <1>1, <1>2, <1>4 DEF Start, TargetDate, SeasonalPeriod, ShiftPeriod
<1> QED
  BY <1>1, <1>3, <1>4 DEF Frequencies

\* Nor is the same date of the year before.
LEMMA YearIsLoaded ==
  ASSUME NEW c \in Contracts, NEW o \in c.origins, NEW h \in c.horizons,
         "same_period_last_year" \in c.baselines
  PROVE  /\ YearBefore(TargetDate(c, o, h)) \in Int
         /\ Start(c) <= YearBefore(TargetDate(c, o, h))
<1> DEFINE t == TargetDate(c, o, h)
<1>1. /\ o \in Int /\ h \in Nat /\ Earliest(c.origins) \in Int
      /\ Earliest(c.origins) <= o /\ c.frequency \in Frequencies
      /\ t \in Days /\ MonthOf[t] + (-12) \in Months
  BY ReachFacts, DayFacts DEF CanShift
<1>2. /\ HistoryPeriods(c) \in Nat
      /\ YearOfPeriods(c.frequency) <= HistoryPeriods(c)
  BY PeriodsFacts
<1>3. CASE c.frequency = "month"
  <2>1. 12 <= HistoryPeriods(c)
    BY <1>2, <1>3 DEF YearOfPeriods
  <2> QED
    BY <1>3, <2>1, YearBeforeTarget DEF YearBefore
<1>4. CASE c.frequency \in {"day", "week"}
  <2>1. YearBefore(t) \in Int /\ t \in Int
    BY <1>1, ShiftedMonth, DayFacts DEF YearBefore
  <2>2. MonthOf[t] - 12 \in Months
    <3>1. MonthOf[t] + (-12) = MonthOf[t] - 12
      BY <1>1, DayFacts
    <3> QED
      BY <1>1, <3>1
  <2>3. t - YearBefore(t) <= 366
    BY <1>1, <2>2, ReachAssumption
  <2>4. t = ShiftPeriod(o, h, c.frequency)
    BY DEF TargetDate
  <2> HIDE DEF t
  <2>5. YearBefore(t) \in Int /\ Start(c) <= YearBefore(t)
    BY <1>1, <1>2, <1>4, <2>1, <2>3, <2>4
       DEF Start, ShiftPeriod, YearOfPeriods
  <2> QED
    BY <2>5 DEF t
<1> QED
  BY <1>1, <1>3, <1>4 DEF Frequencies
-----------------------------------------------------------------------------
(* What is loaded is enough.                                               *)

\* What a run has, however it was loaded, has all between its first date and
\* its last.
HasEnough(rows) ==
  /\ rows \subseteq table
  /\ \A r \in table :
       Start(contract) <= r.date /\ r.date <= End(contract) => r \in rows

\* Without a limit of entities, loading leaves out nothing between the two.
LEMMA LoadedIsEnough ==
  ASSUME contract.limit = None
  PROVE  HasEnough(Loaded(table, contract))
<1> DEFINE bounded == {r \in table : Start(contract) <= r.date
                                      /\ r.date <= End(contract)}
<1>1. Selected(Entities(bounded), contract.limit) = Entities(bounded)
  BY DEF Selected
<1>2. HistoryQuery(table, contract) =
        {r \in bounded : r.entity \in Selected(Entities(bounded), contract.limit)}
  BY DEF HistoryQuery, Start, End
<1>3. \A r \in bounded : r.entity \in Entities(bounded)
  BY DEF Entities
<1> QED
  BY <1>1, <1>2, <1>3 DEF Loaded, HasEnough

\* Every date a baseline reads is among those loaded, so it predicts the same.
LEMMA SameActual ==
  ASSUME Sourced, NEW rows, HasEnough(rows), NEW e, NEW o \in contract.origins,
         NEW h \in contract.horizons
  PROVE  HasActual(rows, e, TargetDate(contract, o, h))
           = HasActual(table, e, TargetDate(contract, o, h))
<1> DEFINE t == TargetDate(contract, o, h)
<1>1. contract \in Contracts
  BY DEF Sourced
<1>2. Start(contract) <= t /\ t <= End(contract)
  <2>1. 0 \in 0 .. HistoryPeriods(contract)
    BY <1>1, PeriodsFacts
  <2>2. /\ Start(contract) \in Int
        /\ Start(contract) <= ShiftPeriod(o, -0, contract.frequency)
    BY <1>1, <2>1, StartIsEarly
  <2>3. ShiftPeriod(o, -0, contract.frequency) = o
    BY <1>1, ReachFacts, ShiftNone
  <2> QED
    BY <1>1, <2>2, <2>3, EndIsLate
<1>3. \A r \in table : r.date = t => r \in rows
  BY <1>2 DEF HasEnough
<1> QED
  BY <1>3 DEF HasActual, HasEnough

\* The window of an origin is loaded whole,
LEMMA SameObserved ==
  ASSUME Sourced, NEW rows, HasEnough(rows), NEW e, NEW o \in contract.origins
  PROVE  Observed(rows, e, o, contract) = Observed(table, e, o, contract)
<1>1. contract \in Contracts
  BY DEF Sourced
<1>2. PICK h \in contract.horizons : TRUE
  BY <1>1, ReachFacts
<1>3. contract.window \in 0 .. HistoryPeriods(contract)
  BY <1>1, ReachFacts, PeriodsFacts
<1>4. /\ Start(contract) \in Int
      /\ ShiftPeriod(o, -contract.window, contract.frequency) \in Int
      /\ Start(contract) <= ShiftPeriod(o, -contract.window, contract.frequency)
  BY <1>1, <1>3, StartIsEarly
<1>5. o \in Int /\ End(contract) \in Int /\ o <= End(contract)
  BY <1>1, <1>2, EndIsLate
<1>6. \A r \in Observed(table, e, o, contract) : r \in rows
  <2> SUFFICES ASSUME NEW r \in Observed(table, e, o, contract)
               PROVE  r \in rows
    OBVIOUS
  <2>1. /\ r \in table /\ r.date <= o
        /\ ShiftPeriod(o, -contract.window, contract.frequency) < r.date
    BY DEF Observed
  <2>2. r.date \in Int
    BY <1>1, <2>1, ReachFacts, BacktestAssumption, DayFacts DEF Sourced
  <2>3. Start(contract) <= r.date /\ r.date <= End(contract)
    BY <1>4, <1>5, <2>1, <2>2
  <2> QED
    BY <2>1, <2>3 DEF HasEnough
<1> QED
  BY <1>6 DEF Observed, HasEnough

\* a date that is looked up is loaded unless it is after the origin,
LEMMA SameLookup ==
  ASSUME Sourced, NEW rows, HasEnough(rows), NEW e, NEW o \in contract.origins,
         NEW date \in Int, Start(contract) <= date
  PROVE  Lookup(rows, e, date, o) = Lookup(table, e, date, o)
<1>1. contract \in Contracts
  BY DEF Sourced
<1>2. PICK h \in contract.horizons : TRUE
  BY <1>1, ReachFacts
<1>3. o \in Int /\ End(contract) \in Int /\ o <= End(contract)
  BY <1>1, <1>2, EndIsLate
<1>4. CASE o < date
  BY <1>4 DEF Lookup
<1>5. CASE ~(o < date)
  <2>1. date <= End(contract)
    BY <1>3, <1>5
  <2>2. \A r \in table : r.date = date => r \in rows
    BY <2>1 DEF HasEnough
  <2>3. {r \in rows : r.entity = e /\ r.date = date /\ r.actual}
          = {r \in table : r.entity = e /\ r.date = date /\ r.actual}
    BY <2>2 DEF HasEnough
  <2> QED
    BY <2>3 DEF Lookup
<1> QED
  BY <1>4, <1>5

\* and so every baseline predicts what it would from the whole history.
LEMMA SamePrediction ==
  ASSUME Sourced, NEW rows, HasEnough(rows),
         SeasonalPeriod(contract.frequency) <= contract.window,
         NEW b \in contract.baselines, NEW e, NEW o \in contract.origins,
         NEW h \in contract.horizons
  PROVE  BaselinePrediction(b, rows, e, o, TargetDate(contract, o, h), contract)
           = BaselinePrediction(b, table, e, o, TargetDate(contract, o, h), contract)
<1> DEFINE t == TargetDate(contract, o, h)
<1>1. contract \in Contracts /\ b \in AllowedBaselines
  BY ContractFacts DEF Sourced
<1>2. Observed(rows, e, o, contract) = Observed(table, e, o, contract)
  BY SameObserved
<1>3. CASE b = "seasonal_naive_7d"
  <2> DEFINE season == ShiftPeriod(t, -SeasonalPeriod(contract.frequency),
                                   contract.frequency)
  <2>1. season \in Int /\ Start(contract) <= season
    BY <1>1, SeasonIsLoaded
  <2>2. Lookup(rows, e, season, o) = Lookup(table, e, season, o)
    BY <2>1, SameLookup
  <2> QED
    BY <1>3, <2>2 DEF BaselinePrediction
<1>4. CASE b = "same_period_last_year"
  <2>1. YearBefore(t) \in Int /\ Start(contract) <= YearBefore(t)
    BY <1>1, <1>4, YearIsLoaded
  <2>2. Lookup(rows, e, YearBefore(t), o) = Lookup(table, e, YearBefore(t), o)
    BY <2>1, SameLookup
  <2> QED
    BY <1>4, <2>2 DEF BaselinePrediction
<1>5. CASE b = "zero_demand"
  BY <1>5 DEF BaselinePrediction
<1>6. CASE b = "last_observation" \/ b = "moving_average"
  BY <1>2, <1>6 DEF BaselinePrediction
<1>7. CASE b \in {"croston_sba", "tsb", "croston_sba_tsb"}
  BY <1>2, <1>7 DEF BaselinePrediction
<1> QED
  BY <1>1, <1>3, <1>4, <1>5, <1>6, <1>7 DEF AllowedBaselines

\* Two histories in which the same is known of every target: what is eligible
\* is scored alike.
LEMMA SameScores ==
  ASSUME Sourced, NEW rows, HasEnough(rows), contract.limit = None,
         SeasonalPeriod(contract.frequency) <= contract.window
  PROVE  {s \in BaselineScores(rows, contract) : s.eligible}
           = {s \in BaselineScores(table, contract) : s.eligible}
<1> DEFINE Of(x, b, e, o, h) ==
             Score(x, contract, b, e, o, h,
                   BaselinePrediction(b, x, e, o, TargetDate(contract, o, h),
                                      contract))
<1>1. \A x : Selected(Entities(x), contract.limit) = Entities(x)
  BY DEF Selected
<1>2. ASSUME NEW b \in contract.baselines, NEW e, NEW o \in contract.origins,
             NEW h \in contract.horizons
      PROVE  /\ Of(rows, b, e, o, h) = Of(table, b, e, o, h)
             /\ Of(table, b, e, o, h).eligible =>
                  e \in Entities(rows) /\ e \in Entities(table)
  <2>1. HasActual(rows, e, TargetDate(contract, o, h))
          = HasActual(table, e, TargetDate(contract, o, h))
    BY SameActual
  <2>2. Of(rows, b, e, o, h) = Of(table, b, e, o, h)
    BY <2>1, SamePrediction DEF Score
  <2>3. Of(table, b, e, o, h).eligible
          => HasActual(rows, e, TargetDate(contract, o, h))
    BY <2>1 DEF Score
  <2>4. HasActual(rows, e, TargetDate(contract, o, h))
          => e \in Entities(rows) /\ e \in Entities(table)
    BY DEF HasActual, Entities, HasEnough
  <2> QED
    BY <2>2, <2>3, <2>4
<1>3. \A x : BaselineScores(x, contract) =
        {Of(x, b, e, o, h) : b \in contract.baselines, e \in Entities(x),
                             o \in contract.origins, h \in contract.horizons}
  BY <1>1 DEF BaselineScores
<1> HIDE DEF Of
<1>4. ASSUME NEW s \in BaselineScores(rows, contract), s.eligible
      PROVE  s \in BaselineScores(table, contract)
  <2>1. PICK b \in contract.baselines, e \in Entities(rows),
             o \in contract.origins, h \in contract.horizons :
          s = Of(rows, b, e, o, h)
    BY <1>3
  <2>2. s = Of(table, b, e, o, h) /\ e \in Entities(table)
    BY <1>2, <1>4, <2>1
  <2> QED
    BY <1>3, <2>2
<1>5. ASSUME NEW s \in BaselineScores(table, contract), s.eligible
      PROVE  s \in BaselineScores(rows, contract)
  <2>1. PICK b \in contract.baselines, e \in Entities(table),
             o \in contract.origins, h \in contract.horizons :
          s = Of(table, b, e, o, h)
    BY <1>3
  <2>2. s = Of(rows, b, e, o, h) /\ e \in Entities(rows)
    BY <1>2, <1>5, <2>1
  <2> QED
    BY <1>3, <2>2
<1> QED
  BY <1>4, <1>5

\* Baselines are told apart by name, and scores of targets are booleans.
LEMMA ScoreFields ==
  ASSUME NEW x, NEW s \in BaselineScores(x, contract)
  PROVE  /\ s.by \in contract.baselines
         /\ s.origin \in contract.origins
         /\ s.eligible \in BOOLEAN
<1>1. PICK b \in contract.baselines, e \in Selected(Entities(x), contract.limit),
           o \in contract.origins, h \in contract.horizons :
        s = Score(x, contract, b, e, o, h,
                  BaselinePrediction(b, x, e, o, TargetDate(contract, o, h),
                                     contract))
  BY DEF BaselineScores
<1> QED
  BY <1>1 DEF Score, HasActual

\* The metrics of a group follow from what is eligible in it.
LEMMA SameMetrics ==
  ASSUME Sourced, NEW x, NEW y, HasEnough(x), HasEnough(y),
         NEW all, NEW other,
         {s \in all : s.eligible} = {s \in other : s.eligible},
         \A s \in all : s.origin \in contract.origins /\ s.eligible \in BOOLEAN,
         NEW m \in Metrics(x, contract, all), m.eligible > 0
  PROVE  m \in Metrics(y, contract, other)
<1> DEFINE Group(set, t) == {s \in set : /\ s.by = t.by
                                          /\ s.origin = t.origin
                                          /\ s.horizon = t.horizon}
           Eligibles(group) == {s \in group : s.eligible}
           Completes(group) == {s \in Eligibles(group) : s.prediction # None}
<1>1. PICK t \in all : m = MetricRow(x, contract, Group(all, t))
  BY DEF Metrics
<1>2. m.eligible = Cardinality(Eligibles(Group(all, t)))
  BY <1>1 DEF MetricRow
<1>3. Eligibles(Group(all, t)) # {}
  <2>1. Cardinality(Eligibles(Group(all, t))) # 0
    BY <1>2
  <2> HIDE DEF Eligibles
  <2> QED
    BY <2>1, FS_EmptySet
<1>4. PICK u \in Group(all, t) : u.eligible
  BY <1>3
<1>5. u \in other
  BY <1>4
<1>6. Eligibles(Group(other, u)) = Eligibles(Group(all, t))
  BY <1>4
<1>7. Completes(Group(other, u)) = Completes(Group(all, t))
  BY <1>6
<1>8. \A s \in Completes(Group(all, t)) :
        Scale(x, s.entity, s.origin, contract) = Scale(y, s.entity, s.origin, contract)
  <2> SUFFICES ASSUME NEW s \in Completes(Group(all, t))
               PROVE  Scale(x, s.entity, s.origin, contract)
                        = Scale(y, s.entity, s.origin, contract)
    OBVIOUS
  <2>1. s.origin \in contract.origins
    OBVIOUS
  <2>2. Observed(x, s.entity, s.origin, contract)
          = Observed(y, s.entity, s.origin, contract)
    BY <2>1, SameObserved
  <2> QED
    BY <2>2 DEF Scale
<1> HIDE DEF Group
<1>9. MetricRow(x, contract, Group(all, t)) = MetricRow(y, contract, Group(other, u))
  BY <1>6, <1>7, <1>8 DEF MetricRow
<1>10. Metrics(y, contract, other)
         = {MetricRow(y, contract, Group(other, w)) : w \in other}
  BY DEF Metrics, Group
<1> QED
  BY <1>1, <1>5, <1>9, <1>10

-----------------------------------------------------------------------------
(* Labels of the model.                                                    *)

FirstOf(f, d) == f = "month" => d = FirstDay[MonthOf[d]]

\* On the dates that periods begin, shifts lose no days.
LEMMA FirstShift ==
  ASSUME NEW d \in Days, d = FirstDay[MonthOf[d]], NEW n \in Int,
         MonthOf[d] + n \in Months
  PROVE  ShiftMonths(d, n) = FirstDay[MonthOf[d] + n]
<1>1. /\ MonthLength[MonthOf[d] + n] \in Int /\ 28 <= MonthLength[MonthOf[d] + n]
      /\ FirstDay[MonthOf[d] + n] \in Int /\ d \in Int
  BY MonthFacts, DayFacts
<1>2. d - FirstDay[MonthOf[d]] = 0
  BY <1>1
<1> QED
  BY <1>1, <1>2 DEF ShiftMonths, Lesser

\* First days are in the order of their months.
LEMMA FirstDays ==
  ASSUME NEW m \in Months, NEW n \in Months
  PROVE  FirstDay[m] <= FirstDay[n] <=> m <= n
<1>1. /\ m \in Int /\ n \in Int /\ FirstDay[m] \in Int /\ FirstDay[n] \in Int
      /\ MonthLength[m] \in Int /\ 28 <= MonthLength[m]
      /\ MonthLength[n] \in Int /\ 28 <= MonthLength[n]
  BY MonthFacts
<1>2. CASE m < n
  BY <1>1, <1>2, MonthOrder
<1>3. CASE n < m
  BY <1>1, <1>3, MonthOrder
<1>4. CASE m = n
  BY <1>1, <1>4
<1> QED
  BY <1>1, <1>2, <1>3, <1>4

\* So a date ends up at or before another exactly when it was at or before the
\* one that lies so many periods earlier,
LEMMA ShiftAcross ==
  ASSUME NEW f \in Frequencies, NEW d \in Days, NEW o \in Days, NEW n \in Nat,
         FirstOf(f, d), FirstOf(f, o), CanShift(d, n, f), CanShift(o, -n, f)
  PROVE  ShiftPeriod(d, n, f) <= o <=> d <= ShiftPeriod(o, -n, f)
<1>1. d \in Int /\ o \in Int /\ MonthOf[d] \in Months /\ MonthOf[o] \in Months
      /\ MonthOf[d] \in Int /\ MonthOf[o] \in Int
  BY DayFacts
<1>2. CASE f = "month"
  <2>1. /\ MonthOf[d] + n \in Months /\ MonthOf[o] + (-n) \in Months
        /\ d = FirstDay[MonthOf[d]] /\ o = FirstDay[MonthOf[o]]
    BY <1>2 DEF CanShift, FirstOf
  <2>2. /\ ShiftMonths(d, n) = FirstDay[MonthOf[d] + n]
        /\ ShiftMonths(o, -n) = FirstDay[MonthOf[o] + (-n)]
    BY <2>1, FirstShift
  <2>3. ShiftMonths(d, n) <= o <=> MonthOf[d] + n <= MonthOf[o]
    BY <1>1, <2>1, <2>2, FirstDays
  <2>4. d <= ShiftMonths(o, -n) <=> MonthOf[d] <= MonthOf[o] + (-n)
    BY <1>1, <2>1, <2>2, FirstDays
  <2>5. MonthOf[d] + n <= MonthOf[o] <=> MonthOf[d] <= MonthOf[o] + (-n)
    BY <1>1
  <2> QED
    BY <1>2, <2>3, <2>4, <2>5 DEF ShiftPeriod
<1>3. CASE f \in {"day", "week"}
  BY <1>1, <1>3 DEF ShiftPeriod
<1> QED
  BY <1>2, <1>3 DEF Frequencies

\* and two shifts are one.
LEMMA ShiftTwice ==
  ASSUME NEW f \in Frequencies, NEW o \in Days, NEW n \in Nat, NEW k \in Nat,
         FirstOf(f, o), CanShift(o, -n, f), CanShift(o, -(n + k), f)
  PROVE  ShiftPeriod(ShiftPeriod(o, -n, f), -k, f) = ShiftPeriod(o, -(n + k), f)
<1>1. o \in Int /\ MonthOf[o] \in Months /\ MonthOf[o] \in Int
  BY DayFacts
<1>2. CASE f = "month"
  <2> DEFINE e == ShiftMonths(o, -n)
  <2>1. /\ MonthOf[o] + (-n) \in Months /\ MonthOf[o] + (-(n + k)) \in Months
        /\ o = FirstDay[MonthOf[o]]
    BY <1>2 DEF CanShift, FirstOf
  <2>2. /\ e = FirstDay[MonthOf[o] + (-n)]
        /\ ShiftMonths(o, -(n + k)) = FirstDay[MonthOf[o] + (-(n + k))]
    BY <2>1, FirstShift
  <2>3. e \in Days /\ MonthOf[e] = MonthOf[o] + (-n)
    BY <2>1, ShiftedMonth
  <2>4. MonthOf[e] + (-k) = MonthOf[o] + (-(n + k))
    BY <1>1, <2>3
  <2>5. e = FirstDay[MonthOf[e]] /\ MonthOf[e] + (-k) \in Months
    BY <2>1, <2>2, <2>3, <2>4
  <2>6. ShiftMonths(e, -k) = FirstDay[MonthOf[e] + (-k)]
    BY <2>3, <2>5, FirstShift
  <2> QED
    BY <1>2, <2>2, <2>4, <2>6 DEF ShiftPeriod
<1>3. CASE f \in {"day", "week"}
  BY <1>1, <1>3 DEF ShiftPeriod
<1> QED
  BY <1>2, <1>3 DEF Frequencies

\* What the model is trained on is then what is known at the origin.
LEMMA TrainedOnKnown ==
  ASSUME Sourced, HasEnough(data), contract.model, NEW o \in contract.origins,
         Aligned({r.date : r \in table} \union contract.origins)
  PROVE  TrainRows(data, contract, o) = KnownLabels(o)
<1> DEFINE c == contract
           f == contract.frequency
           h == Horizon(contract)
           w == contract.window
           begin == ShiftPeriod(o, -(h + w), f)
           end == ShiftPeriod(o, -h, f)
<1>1. /\ c \in Contracts /\ f \in Frequencies /\ o \in Days /\ w \in Nat
      /\ h \in c.horizons /\ h \in Nat /\ o \in Int
      /\ CanShift(o, -h, f)
  <2>1. c \in Contracts
    BY DEF Sourced
  <2>2. h \in c.horizons
    BY <2>1, BacktestAssumption DEF Horizon
  <2> QED
    BY <2>1, <2>2, ReachFacts, ContractFacts
<1>2. \A d \in {r.date : r \in table} \union c.origins : FirstOf(f, d)
  BY DEF Aligned, FirstOf
<1>3. h + w \in 0 .. HistoryPeriods(c) /\ h \in 0 .. HistoryPeriods(c)
  BY <1>1, PeriodsFacts
<1>4. /\ CanShift(o, -(h + w), f) /\ begin \in Int /\ Start(c) \in Int
      /\ Start(c) <= begin
  BY <1>1, <1>3, StartIsEarly
<1>5. end \in Int /\ end <= o
  <2>1. ShiftPeriod(o, 0, f) = o /\ CanShift(o, 0, f) /\ -h \in Int /\ -h <= 0
    BY <1>1, ShiftNone
  <2> QED
    BY <1>1, <2>1, ShiftFurther, ShiftIsDate
<1>6. o <= End(c) /\ End(c) \in Int
  BY <1>1, EndIsLate
<1>7. ShiftPeriod(end, -w, f) = begin
  BY <1>1, <1>2, <1>4, ShiftTwice
<1>8. ASSUME NEW r \in table
      PROVE  /\ r.date \in Int
             /\ ShiftPeriod(r.date, h + 0, f) <= o <=> r.date <= end
             /\ o < ShiftPeriod(r.date, h + w, f) <=> begin < r.date
  <2>1. r.date \in Days /\ CanShift(r.date, h + w, f) /\ FirstOf(f, r.date)
        /\ FirstOf(f, o) /\ r.date \in Int
    BY <1>1, <1>2, ReachAssumption, BacktestAssumption, DayFacts DEF Sourced
  <2>2. CanShift(r.date, 0, f) /\ h \in 0 .. (h + w)
    BY <1>1, <2>1, ShiftNone
  <2>3. CanShift(r.date, h, f)
    BY <1>1, <2>1, <2>2, CanShiftBetween
  <2>4. ShiftPeriod(r.date, h, f) <= o <=> r.date <= end
    BY <1>1, <2>1, <2>3, ShiftAcross
  <2>5. ShiftPeriod(r.date, h + w, f) <= o <=> r.date <= begin
    BY <1>1, <1>4, <2>1, ShiftAcross
  <2>6. ShiftPeriod(r.date, h + w, f) \in Int
    BY <1>1, <2>1, ShiftIsDate
  <2>7. h + 0 = h
    BY <1>1
  <2> HIDE DEF h, f, begin, end
  <2> QED
    BY <1>1, <1>4, <2>1, <2>4, <2>5, <2>6, <2>7
<1>9. TrainRows(data, c, o) = {r \in data : begin < r.date /\ r.date <= end /\ r.label}
  BY <1>7 DEF TrainRows, TrainEnd
<1>10. KnownLabels(o) = {r \in table : r.label /\ r.date <= end /\ begin < r.date}
  BY <1>8 DEF KnownLabels
<1>11. \A r \in table : begin < r.date /\ r.date <= end => r \in data
  <2> HIDE DEF h, f, begin, end
  <2> QED
    BY <1>1, <1>4, <1>5, <1>6, <1>8 DEF HasEnough
<1>12. data \subseteq table
  BY DEF HasEnough
<1> HIDE DEF h, f, begin, end
<1> QED
  BY <1>9, <1>10, <1>11, <1>12

-----------------------------------------------------------------------------
(* What a run has scored.                                                  *)

\* A score of the model names an origin, and the model was trained for it.
ModelScore(s) ==
  /\ contract.model
  /\ s.by = "model"
  /\ s.origin \in contract.origins
  /\ s.prediction = TrainRows(data, contract, s.origin)

Scoring ==
  /\ outcome \in {"loaded", "scoring", "scored"} => data = Loaded(table, contract)
  /\ outcome \in {"scoring", "scored"} =>
       /\ BaselineScores(data, contract) \subseteq scores
       /\ \A s \in scores \ BaselineScores(data, contract) : ModelScore(s)

\* A run scores what it loaded, and the model at each origin from its labels.
LEMMA ScoringStep ==
  ASSUME Scoring, [BacktestNext]_backtest
  PROVE  Scoring'
<1>1. CASE Load
  BY <1>1 DEF Load, Scoring
<1>2. CASE ScoreBaselines
  BY <1>2 DEF ScoreBaselines, Scoring
<1>3. ASSUME NEW o \in contract.origins, ScoreModel(o)
      PROVE  Scoring'
  <2>1. \A s \in ModelScores(data, contract, o) : ModelScore(s)
    BY <1>3 DEF ScoreModel, ModelScores, Score, ModelScore
  <2>2. /\ contract' = contract /\ table' = table /\ data' = data
        /\ outcome = "scoring"
        /\ scores' = scores \/ scores' = scores \union ModelScores(data, contract, o)
    BY <1>3 DEF ScoreModel
  <2> QED
    BY <2>1, <2>2 DEF Scoring, ModelScore
<1>4. ASSUME NEW o \in contract.origins, BackfillAsOf(o)
      PROVE  Scoring'
  BY <1>4 DEF BackfillAsOf, Scoring
<1>5. CASE Persist
  BY <1>5 DEF Persist, Scoring, ModelScore
<1>6. CASE UNCHANGED backtest
  BY <1>6 DEF backtest, Scoring, ModelScore
<1> QED
  BY <1>1, <1>2, <1>3, <1>4, <1>5, <1>6 DEF BacktestNext

\* A run that has scored what it loaded has scored what there is.
LEMMA HistoryEnough ==
  ASSUME Sourced, Scoring
  PROVE  HistorySuffices
<1> DEFINE baselines == {s \in scores : s.by \in contract.baselines}
           whole == BaselineScores(table, contract)
<1> SUFFICES ASSUME outcome = "scored", contract.limit = None,
                    contract.window >= SeasonalPeriod(contract.frequency),
                    Aligned({r.date : r \in table} \union contract.origins)
             PROVE  /\ {m \in Metrics(data, contract, baselines) : m.eligible > 0}
                         = {m \in Metrics(table, contract, whole) : m.eligible > 0}
                    /\ \A s \in scores : s.by = "model" =>
                         s.prediction = KnownLabels(s.origin)
  BY DEF HistorySuffices
<1>1. HasEnough(data) /\ HasEnough(table)
  BY LoadedIsEnough DEF Scoring, HasEnough
<1>2. SeasonalPeriod(contract.frequency) <= contract.window
  <2>1. contract \in Contracts
    BY DEF Sourced
  <2>2. contract.frequency \in {"day", "week", "month"} /\ contract.window \in Nat
    BY <2>1, ReachFacts DEF Frequencies
  <2> QED
    BY <2>2 DEF SeasonalPeriod
<1>3. contract.baselines \subseteq AllowedBaselines
  BY BacktestAssumption DEF Sourced
<1>4. baselines = BaselineScores(data, contract)
  <2>1. "model" \notin contract.baselines
    BY <1>3 DEF AllowedBaselines
  <2>2. \A s \in BaselineScores(data, contract) : s.by \in contract.baselines
    BY ScoreFields
  <2> QED
    BY <2>1, <2>2 DEF Scoring, ModelScore
<1>5. {s \in baselines : s.eligible} = {s \in whole : s.eligible}
  BY <1>1, <1>2, <1>4, SameScores
<1>6. /\ \A s \in baselines : s.origin \in contract.origins /\ s.eligible \in BOOLEAN
      /\ \A s \in whole : s.origin \in contract.origins /\ s.eligible \in BOOLEAN
  BY <1>4, ScoreFields
<1> HIDE DEF baselines, whole
<1>7. \A m \in Metrics(data, contract, baselines) :
        m.eligible > 0 => m \in Metrics(table, contract, whole)
  BY <1>1, <1>5, <1>6, SameMetrics
<1>8. \A m \in Metrics(table, contract, whole) :
        m.eligible > 0 => m \in Metrics(data, contract, baselines)
  BY <1>1, <1>5, <1>6, SameMetrics
<1>9. \A s \in scores : s.by = "model" => s.prediction = KnownLabels(s.origin)
  <2> SUFFICES ASSUME NEW s \in scores, s.by = "model"
               PROVE  s.prediction = KnownLabels(s.origin)
    OBVIOUS
  <2>1. s \notin BaselineScores(data, contract)
    BY <1>3, ScoreFields DEF AllowedBaselines
  <2>2. ModelScore(s)
    BY <2>1 DEF Scoring
  <2> QED
    BY <1>1, <2>2, TrainedOnKnown DEF ModelScore
<1> QED
  BY <1>7, <1>8, <1>9

-----------------------------------------------------------------------------
(* Backtests among the other activities.                                   *)

RInv == LabelsKnown /\ Scoring /\ (outcome # "idle" => Sourced)

\* What holds of a backtest holds while the others are idle, and of them.
LEMMA RulesInvariant == RulesSpec => []RInv
<1>1. RulesInit => RInv
  <2>1. BacktestInit => RInv
    BY BacktestStart DEF BInv, RInv, BacktestInit, Scoring
  <2>2. BacktestIdle => RInv
    BY DEF BacktestIdle, RInv, LabelsKnown, Scoring
  <2> QED
    BY <2>1, <2>2 DEF RulesInit
<1>2. RInv /\ [RulesNext]_rules => RInv'
  <2> SUFFICES ASSUME RInv, [RulesNext]_rules
               PROVE  RInv'
    OBVIOUS
  <2>1. CASE outcome # "idle" /\ BacktestNext
    BY <2>1, BacktestStep, ScoringStep DEF RInv, BInv
  <2>2. CASE UNCHANGED backtest
    <3>1. Scoring'
      BY <2>2, ScoringStep DEF RInv
    <3> QED
      BY <2>2, <3>1 DEF backtest, RInv, Sourced, LabelsKnown
  <2> QED
    BY <2>1, <2>2 DEF RulesNext, rules
<1> QED
  BY <1>1, <1>2, PTL DEF RulesSpec

\* No prediction of a backtest, nor one of a backfill whose target is one period
\* ahead, knows an actual or a label after its origin, whatever the contract,
\* the history and the calendar, among the other rules.
THEOREM LabelsOfRules == RulesSpec => []LabelsKnown
<1>1. RInv => LabelsKnown
  BY DEF RInv
<1> QED
  BY <1>1, RulesInvariant, PTL

\* The rows that build_bigquery_history_query loads are enough: the metrics of
\* what they can score are those of the whole history, and the model has been
\* trained on every label known within its window, for every calendar and
\* contract.
THEOREM HistoryIsEnough == RulesSpec => []HistorySuffices
<1>1. RInv => HistorySuffices
  BY HistoryEnough DEF RInv, HistorySuffices
<1> QED
  BY <1>1, RulesInvariant, PTL

-----------------------------------------------------------------------------
(* Cases.                                                                  *)

CaseChosen == case \in Cases \/ case = NoCase

\* The case is one of the cases from the start to the end.
LEMMA CaseStays == RulesSpec => []CaseChosen
<1>1. RulesInit => CaseChosen
  BY DEF RulesInit, CaseChosen
<1>2. CaseChosen /\ [RulesNext]_rules => CaseChosen'
  BY DEF CaseChosen, RulesNext, rules
<1> QED
  BY <1>1, <1>2, PTL DEF RulesSpec

-----------------------------------------------------------------------------
(* Draft rows.                                                             *)

\* Everything an accepted draft says of its population: candidates and scored
\* rows are in one to one correspondence, and canonical rows are the product of
\* the series and the horizons.
LEMMA DraftWhole ==
  ASSUME NEW frozen, NEW predictions, NEW pinned, NEW horizons,
         IsFiniteSet(frozen), IsFiniteSet(predictions), IsFiniteSet(horizons),
         \A p, q \in predictions : p.id = q.id => p = q,
         \A c \in frozen : c.eligible \in BOOLEAN \union {Null},
         DraftAccepted(frozen, predictions, pinned, horizons)
  PROVE  LET rows == Draft(predictions)
             series == {r.entity : r \in rows}
         IN /\ \A c \in frozen :
                 Cardinality({p \in predictions : Key(p) = Key(c)})
                   = IF c.eligible THEN 1 ELSE 0
            /\ Cardinality(rows) = Cardinality(Eligible(frozen))
            /\ {<<r.entity, r.horizon>> : r \in rows} = series \X horizons
            /\ Cardinality(rows) = Cardinality(series) * Cardinality(horizons)
<1> DEFINE rows == Draft(predictions)
           series == {r.entity : r \in rows}
           eligible == Eligible(frozen)
<1>1. /\ UniqueKeys(predictions) /\ UniqueKeys(frozen)
      /\ Keys(predictions) = Keys(eligible)
      /\ BatchHolds(rows, horizons)
      /\ \A c \in frozen : c.eligible \in BOOLEAN
  BY DEF DraftAccepted, PopulationMatches, DecisionsHold
<1>2. /\ \A p \in predictions : \E c \in eligible : Key(c) = Key(p)
      /\ \A c \in eligible : \E p \in predictions : Key(c) = Key(p)
  BY <1>1 DEF Keys
<1>3. ASSUME NEW c \in frozen
      PROVE  Cardinality({p \in predictions : Key(p) = Key(c)})
               = IF c.eligible THEN 1 ELSE 0
  <2>1. CASE c.eligible = TRUE
    <3>1. c \in eligible
      BY <2>1 DEF Eligible
    <3>2. PICK p \in predictions : Key(c) = Key(p)
      BY <1>2, <3>1
    <3>3. {q \in predictions : Key(q) = Key(c)} = {p}
      BY <1>1, <3>2 DEF UniqueKeys
    <3> QED
      BY <2>1, <3>3, FS_Singleton
  <2>2. CASE c.eligible = FALSE
    <3>1. ASSUME NEW p \in predictions, Key(p) = Key(c)
          PROVE  FALSE
      <4>1. PICK d \in eligible : Key(d) = Key(p)
        BY <1>2
      <4>2. d \in frozen /\ d.eligible = TRUE
        BY <4>1 DEF Eligible
      <4>3. d = c
        BY <1>1, <3>1, <4>1, <4>2 DEF UniqueKeys
      <4> QED
        BY <2>2, <4>2, <4>3
    <3>2. {p \in predictions : Key(p) = Key(c)} = {}
      BY <3>1
    <3> QED
      BY <2>2, <3>2, FS_EmptySet
  <2> QED
    BY <1>1, <2>1, <2>2
<1>4. IsFiniteSet(rows) /\ Cardinality(rows) = Cardinality(predictions)
  <2> DEFINE f == [p \in predictions |-> CanonicalRow(p)]
  <2>1. f \in [predictions -> rows]
    BY DEF Draft
  <2>2. \A p, q \in predictions : f[p] = f[q] => p = q
    BY DEF CanonicalRow
  <2>3. \A r \in rows : \E p \in predictions : f[p] = r
    BY DEF Draft
  <2> HIDE DEF f, rows
  <2> QED
    BY <2>1, <2>2, <2>3, SameSize
<1>5. IsFiniteSet(eligible) /\ Cardinality(predictions) = Cardinality(eligible)
  <2> DEFINE f == [c \in eligible |-> CHOOSE p \in predictions : Key(c) = Key(p)]
  <2>1. IsFiniteSet(eligible)
    BY FS_Subset DEF Eligible
  <2>2. \A c \in eligible : f[c] \in predictions /\ Key(c) = Key(f[c])
    BY <1>2
  <2>3. f \in [eligible -> predictions]
    BY <2>2
  <2>4. ASSUME NEW c \in eligible, NEW d \in eligible, f[c] = f[d]
        PROVE  c = d
    <3>1. Key(c) = Key(d)
      BY <2>2, <2>4
    <3>2. c \in frozen /\ d \in frozen
      BY DEF Eligible
    <3> QED
      BY <1>1, <3>1, <3>2 DEF UniqueKeys
  <2>5. \A p \in predictions : \E c \in eligible : f[c] = p
    BY <1>1, <1>2, <2>2 DEF UniqueKeys
  <2> HIDE DEF f, eligible
  <2> QED
    BY <2>1, <2>3, <2>4, <2>5, SameSize
<1>6. {<<r.entity, r.horizon>> : r \in rows} = series \X horizons
  <2>1. \A r \in rows : {s.horizon : s \in {x \in rows : x.entity = r.entity}} = horizons
    BY <1>1 DEF BatchHolds, HorizonsComplete
  <2>2. ASSUME NEW r \in rows
        PROVE  r.entity \in series /\ r.horizon \in horizons
    BY <2>1
  <2>3. ASSUME NEW e \in series, NEW h \in horizons
        PROVE  \E r \in rows : r.entity = e /\ r.horizon = h
    <3>1. PICK r \in rows : r.entity = e
      OBVIOUS
    <3>2. h \in {s.horizon : s \in {x \in rows : x.entity = r.entity}}
      BY <2>1
    <3> QED
      BY <3>1, <3>2
  <2> HIDE DEF rows, series
  <2> QED
    BY <2>2, <2>3
<1>7. IsFiniteSet(series)
  <2> DEFINE f == [r \in rows |-> r.entity]
  <2>1. f \in [rows -> series]
    OBVIOUS
  <2>2. \A e \in series : \E r \in rows : f[r] = e
    OBVIOUS
  <2> HIDE DEF f, rows, series
  <2>3. f \in Surjection(rows, series)
    BY <2>1, <2>2, Fun_IsSurj
  <2> QED
    BY <1>4, <2>3, FS_Surjection
<1>8. Cardinality(rows) = Cardinality(series) * Cardinality(horizons)
  <2> DEFINE f == [r \in rows |-> <<r.entity, r.horizon>>]
  <2>1. f \in [rows -> series \X horizons]
    BY <1>6
  <2>2. \A r, s \in rows : f[r] = f[s] => r = s
    BY <1>1 DEF BatchHolds
  <2>3. \A x \in series \X horizons : \E r \in rows : f[r] = x
    BY <1>6
  <2> HIDE DEF f, rows, series
  <2>4. Cardinality(series \X horizons) = Cardinality(rows)
    BY <1>4, <2>1, <2>2, <2>3, SameSize
  <2> QED
    BY <1>7, <2>4, FS_Product
<1>9. Cardinality(rows) = Cardinality(eligible)
  BY <1>4, <1>5
<1> QED
  BY <1>3, <1>6, <1>8, <1>9

\* A population that is decided, scored once each and told apart is accepted.
LEMMA DraftKept ==
  ASSUME NEW frozen, NEW predictions, NEW pinned, NEW horizons,
         Null \notin BOOLEAN,
         \A c \in frozen :
           c.eligible = TRUE \/ (c.eligible = FALSE /\ c.reason # Null),
         UniqueKeys(frozen), UniqueKeys(predictions), predictions # {},
         Keys(predictions) = Keys(Eligible(frozen)),
         pinned = Keys(predictions),
         \A p, q \in predictions : Identity(p) = Identity(q) <=> p.dims = q.dims,
         \A p \in predictions :
           {q.horizon : q \in {x \in predictions : x.dims = p.dims}} = horizons
  PROVE  DraftAccepted(frozen, predictions, pinned, horizons)
<1> DEFINE rows == Draft(predictions)
<1>1. PopulationMatches(frozen, predictions, pinned)
  <2>1. Eligible(frozen) # {}
    BY DEF Keys
  <2> QED
    BY <2>1 DEF PopulationMatches
<1>2. DecisionsHold(frozen)
  BY DEF DecisionsHold
<1>3. \A r \in rows : \E p \in predictions :
        r.entity = Identity(p) /\ r.horizon = p.horizon /\ r = CanonicalRow(p)
  BY DEF Draft, CanonicalRow
<1>4. \A p \in predictions : CanonicalRow(p) \in rows
  BY DEF Draft
<1>5. ASSUME NEW r \in rows, NEW s \in rows,
             r.entity = s.entity, r.horizon = s.horizon
      PROVE  r = s
  <2>1. PICK p \in predictions :
          r.entity = Identity(p) /\ r.horizon = p.horizon /\ r = CanonicalRow(p)
    BY <1>3
  <2>2. PICK q \in predictions :
          s.entity = Identity(q) /\ s.horizon = q.horizon /\ s = CanonicalRow(q)
    BY <1>3
  <2>3. p.dims = q.dims
    <3>1. Identity(p) = Identity(q)
      BY <1>5, <2>1, <2>2
    <3> QED
      BY <3>1
  <2>4. Key(p) = Key(q)
    BY <1>5, <2>1, <2>2, <2>3 DEF Key
  <2>5. p = q
    BY <2>4 DEF UniqueKeys
  <2> QED
    BY <2>1, <2>2, <2>5
<1>6. ASSUME NEW r \in rows
      PROVE  {s.horizon : s \in {x \in rows : x.entity = r.entity}} = horizons
  <2>1. PICK p \in predictions :
          r.entity = Identity(p) /\ r.horizon = p.horizon /\ r = CanonicalRow(p)
    BY <1>3
  <2>2. ASSUME NEW s \in rows, s.entity = r.entity
        PROVE  s.horizon \in horizons
    <3>1. PICK q \in predictions :
            s.entity = Identity(q) /\ s.horizon = q.horizon /\ s = CanonicalRow(q)
      BY <1>3
    <3>2. q.dims = p.dims
      BY <2>1, <2>2, <3>1
    <3>3. q.horizon \in {x.horizon : x \in {y \in predictions : y.dims = p.dims}}
      BY <3>2
    <3> QED
      BY <3>1, <3>3
  <2>3. ASSUME NEW h \in horizons
        PROVE  \E s \in rows : s.entity = r.entity /\ s.horizon = h
    <3>1. h \in {x.horizon : x \in {y \in predictions : y.dims = p.dims}}
      OBVIOUS
    <3>2. PICK q \in predictions : q.dims = p.dims /\ q.horizon = h
      BY <3>1
    <3>3. Identity(q) = Identity(p)
      BY <3>2
    <3>4. /\ CanonicalRow(q).entity = Identity(q)
          /\ CanonicalRow(q).horizon = q.horizon
      BY DEF CanonicalRow
    <3> QED
      BY <1>4, <2>1, <3>2, <3>3, <3>4
  <2> HIDE DEF rows
  <2> QED
    BY <2>2, <2>3
<1> QED
  BY <1>1, <1>2, <1>5, <1>6 DEF DraftAccepted, BatchHolds, HorizonsComplete

\* A draft that is accepted accounts for its frozen population, row by row, and
\* a population that is scored as it should be is never refused: for populations
\* of every size, and contracts of any number of horizons.
THEOREM DraftsAccount == RulesSpec => []DraftAccounts
<1>1. CaseChosen => DraftAccounts
  <2> SUFFICES ASSUME CaseChosen, case.topic = "draft"
               PROVE  DraftAccounts
    BY DEF DraftAccounts
  <2>1. case \in Cases
    BY DEF CaseChosen, NoCase
  <2>2. /\ IsFiniteSet(case.frozen) /\ IsFiniteSet(case.predictions)
        /\ IsFiniteSet(case.horizons)
        /\ \A x \in case.frozen : x.eligible \in BOOLEAN \union {Null}
        /\ \A p, q \in case.predictions : p.id = q.id => p = q
        /\ Null \notin BOOLEAN
    BY <2>1, CasesAssumption
  <2>3. ASSUME DraftAccepted(case.frozen, case.predictions, case.pinned,
                             case.horizons)
        PROVE  LET rows == Draft(case.predictions)
                   series == {r.entity : r \in rows}
               IN /\ \A c \in case.frozen :
                       Cardinality({p \in case.predictions : Key(p) = Key(c)})
                         = IF c.eligible THEN 1 ELSE 0
                  /\ Cardinality(rows) = Cardinality(Eligible(case.frozen))
                  /\ {<<r.entity, r.horizon>> : r \in rows}
                       = series \X case.horizons
                  /\ Cardinality(rows)
                       = Cardinality(series) * Cardinality(case.horizons)
    BY <2>2, <2>3, DraftWhole
  <2> QED
    BY <2>2, <2>3, DraftKept DEF DraftAccounts
<1> QED
  BY <1>1, CaseStays, PTL

-----------------------------------------------------------------------------
(* Rules that are written twice.                                           *)

\* The pipeline and the default policy route every history with a row, and
\* without missing demand, alike; Python and the warehouse see the same health of
\* every source that was ever read.
THEOREM TwinsAgree == RulesSpec => []TwinRulesAgree
<1>1. CaseChosen => TwinRulesAgree
  <2> SUFFICES ASSUME CaseChosen
               PROVE  TwinRulesAgree
    OBVIOUS
  <2>1. ASSUME case.topic = "route", case.history.missing = 0,
               case.history.nonzero + case.history.zero > 0
        PROVE  RouteOf(case.history) = ClassOf(case.history)
    <3>1. case.history \in [nonzero : Nat, zero : Nat, missing : Nat]
      BY <2>1, CasesAssumption DEF CaseChosen, NoCase
    <3>2. /\ case.history.nonzero \in Nat /\ case.history.zero \in Nat
      BY <3>1
    <3>3. case.history.nonzero + case.history.zero + case.history.missing
            = case.history.nonzero + case.history.zero
      BY <2>1, <3>2
    <3>4. RouteOf(case.history)
            = Reason(case.history.nonzero + case.history.zero, case.history.nonzero)
      BY <2>1, <3>3 DEF RouteOf
    <3> QED
      BY <3>2, <3>3, <3>4 DEF ClassOf, Reason
  <2>2. ASSUME case.topic = "source"
        PROVE  SourceHealthView(case.latest) = {SourceHealth(case.latest)} \ {Missing}
    <3>0. /\ \A r, s \in case.latest : r = s
          /\ \A run \in case.latest : /\ run.mode \in {"static_demo", "continuous"}
                                      /\ run.late \in Int
      <4>1. case \in Cases
        BY <2>2 DEF CaseChosen, NoCase
      <4> QED
        BY <2>2, <4>1, CasesAssumption
    <3>1. /\ case.latest = {} \/ \E run : case.latest = {run}
          /\ \A run \in case.latest : /\ run.mode \in {"static_demo", "continuous"}
                                      /\ run.late \in Int
      <4>1. ASSUME NEW run \in case.latest
            PROVE  case.latest = {run}
        BY <3>0
      <4> QED
        BY <3>0, <4>1
    <3>2. CASE case.latest = {}
      BY <3>2 DEF SourceHealth, SourceHealthView
    <3>3. ASSUME NEW run, case.latest = {run}
          PROVE  SourceHealthView(case.latest) = {SourceHealth(case.latest)} \ {Missing}
      <4> DEFINE seen ==
                   Health(\/ run.status # "succeeded"
                          \/ run.mode = "continuous" /\ run.late > 0,
                          CASE run.status # "succeeded" -> "failed"
                            [] run.status = "succeeded" /\ run.mode = "static_demo" ->
                                 "healthy_static"
                            [] OTHER -> IF run.late > 0 THEN "stale" ELSE "healthy")
      <4>1. SourceHealthView(case.latest) = {seen}
        BY <3>3 DEF SourceHealthView
      <4>2. SourceHealth(case.latest) = HealthOf(run)
        BY <3>3 DEF SourceHealth
      <4>3. run.mode \in {"static_demo", "continuous"} /\ run.late \in Int
        BY <3>1, <3>3
      <4>4. seen = HealthOf(run) /\ HealthOf(run) # Missing
        <5>1. CASE run.status # "succeeded"
          BY <5>1 DEF HealthOf, Health, Missing
        <5>2. CASE run.status = "succeeded" /\ run.mode = "static_demo"
          BY <5>2 DEF HealthOf, Health, Missing
        <5>3. CASE run.status = "succeeded" /\ run.mode = "continuous"
          BY <4>3, <5>3 DEF HealthOf, Health, Missing
        <5> QED
          BY <4>3, <5>1, <5>2, <5>3
      <4> HIDE DEF seen
      <4> QED
        BY <4>1, <4>2, <4>4
    <3> QED
      BY <3>1, <3>2, <3>3
  <2> QED
    BY <2>1, <2>2 DEF TwinRulesAgree
<1> QED
  BY <1>1, CaseStays, PTL

-----------------------------------------------------------------------------
(* Alerts.                                                                 *)

\* Where a policy's signal has a row that alerts.
Alerting(policies, rows) ==
  UNION {{<<i, k>> : k \in {j \in DOMAIN rows[policies[i].signal] :
            IsAlerting(policies[i].signal, rows[policies[i].signal][j])}} :
         i \in DOMAIN policies}

AlertOf(policies, rows, x) ==
  Alert(policies[x[1]], rows[policies[x[1]].signal][x[2]])

\* evaluate_alerts makes one alert of every place that alerts.
LEMMA AlertsFill ==
  ASSUME NEW policies, NEW rows, policies \in Seq(ToSet(policies)),
         \A p \in ToSet(policies) : rows[p.signal] \in Seq(ToSet(rows[p.signal]))
  PROVE  LET alerting == Alerting(policies, rows)
             alerts == Alerts(policies, rows)
         IN /\ alerts \in Seq({AlertOf(policies, rows, x) : x \in alerting})
            /\ \E f : /\ Fills(f, alerting, alerts)
                      /\ \A x \in alerting :
                           alerts[f[x]] = AlertOf(policies, rows, x)
<1> DEFINE alerting == Alerting(policies, rows)
           at(x) == AlertOf(policies, rows, x)
           T == {at(x) : x \in alerting}
           N == Len(policies)
           of(i) == rows[policies[i].signal]
           chosen(i) == {k \in DOMAIN of(i) : IsAlerting(policies[i].signal, of(i)[k])}
           inner(i) == [k \in DOMAIN of(i) |->
                          IF IsAlerting(policies[i].signal, of(i)[k])
                          THEN <<Alert(policies[i], of(i)[k])>> ELSE <<>>]
           outer == [i \in DOMAIN policies |-> FlattenSeq(inner(i))]
<1>1. N \in Nat /\ DOMAIN policies = 1 .. N /\ \A i \in 1 .. N : policies[i] \in ToSet(policies)
  BY LenProperties, ElementOfSeq
<1>2. \A i \in 1 .. N : Len(of(i)) \in Nat /\ DOMAIN of(i) = 1 .. Len(of(i))
  BY <1>1, LenProperties
<1>3. Alerts(policies, rows) = FlattenSeq(outer)
  BY DEF Alerts
<1> DEFINE Inner(i, f) ==
             /\ Fills(f, chosen(i), FlattenSeq(inner(i)))
             /\ \A k \in chosen(i) : FlattenSeq(inner(i))[f[k]] = at(<<i, k>>)
<1>4. ASSUME NEW i \in 1 .. N
      PROVE  /\ FlattenSeq(inner(i)) \in Seq(T)
             /\ \E f : Inner(i, f)
  <2> DEFINE n == Len(of(i))
             v == [k \in 1 .. n |-> at(<<i, k>>)]
             C == chosen(i)
             seqs == inner(i)
  <2>1. n \in Nat /\ DOMAIN of(i) = 1 .. n /\ C \subseteq 1 .. n
    BY <1>2
  <2>2. \A k \in 1 .. n : v[k] = Alert(policies[i], of(i)[k]) /\ v[k] = at(<<i, k>>)
    BY DEF AlertOf
  <2>3. \A k \in C : <<i, k>> \in alerting
    BY <1>1 DEF Alerting
  <2>4. \A k \in C : v[k] \in T
    BY <2>1, <2>2, <2>3
  <2>5. /\ DOMAIN seqs = 1 .. n
        /\ \A k \in C : seqs[k] = <<v[k]>>
        /\ \A k \in (1 .. n) \ C : seqs[k] = <<>>
    BY <2>1, <2>2
  <2> HIDE DEF n, v, C, seqs, T
  <2>6. \A k \in 1 .. n : seqs[k] \in Seq(T)
    <3>1. \A k \in C : <<v[k]>> \in Seq(T)
      BY <2>4
    <3>2. <<>> \in Seq(T)
      OBVIOUS
    <3> QED
      BY <2>5, <3>1, <3>2
  <2>7. seqs \in Seq(Seq(T))
    <3>1. seqs \in [1 .. n -> Seq(T)]
      BY <2>5, <2>6 DEF seqs
    <3> QED
      BY <2>1, <3>1
  <2>8. /\ C \subseteq DOMAIN seqs
        /\ \A k \in DOMAIN seqs : DOMAIN seqs[k] = IF k \in C THEN {1} ELSE {}
        /\ \A k \in C : seqs[k][1] = v[k]
    <3>1. \A k \in C : DOMAIN seqs[k] = {1} /\ seqs[k][1] = v[k]
      BY <2>5
    <3>2. \A k \in (1 .. n) \ C : DOMAIN seqs[k] = {}
      BY <2>5
    <3> QED
      BY <2>1, <2>5, <3>1, <3>2
  <2>9. /\ FlattenSeq(seqs) \in Seq(T)
        /\ \E f : /\ Fills(f, C, FlattenSeq(seqs))
                  /\ \A k \in C : FlattenSeq(seqs)[f[k]] = seqs[k][1]
    <3>1. FlattenSeq(seqs) \in Seq(T)
      BY <2>7, FlattenFills
    <3>2. \E f : /\ Fills(f, C, FlattenSeq(seqs))
                /\ \A k \in C : FlattenSeq(seqs)[f[k]] = seqs[k][1]
      <4>1. OneOrNone(C, seqs)
        BY <2>8 DEF OneOrNone
      <4> QED
        BY <2>7, <4>1, ChosenFill
    <3> QED
      BY <3>1, <3>2
  <2>10. PICK f : /\ Fills(f, C, FlattenSeq(seqs))
                 /\ \A k \in C : FlattenSeq(seqs)[f[k]] = seqs[k][1]
    BY <2>9
  <2>11. \A k \in C : FlattenSeq(seqs)[f[k]] = at(<<i, k>>)
    BY <2>1, <2>2, <2>8, <2>10
  <2>12. Inner(i, f)
    BY <2>10, <2>11 DEF C, seqs
  <2>13. FlattenSeq(inner(i)) \in Seq(T)
    BY <2>9 DEF seqs
  <2> HIDE DEF Inner, inner
  <2> QED
    BY <2>12, <2>13
<1> DEFINE pick == [i \in 1 .. N |-> CHOOSE f : Inner(i, f)]
<1>5. \A i \in 1 .. N : Inner(i, pick[i])
  <2> HIDE DEF Inner
  <2> QED
    BY <1>4
<1>6. outer \in Seq(Seq(T)) /\ DOMAIN outer = 1 .. N
  <2> HIDE DEF T, inner
  <2> QED
    BY <1>1, <1>4, IsASeq
<1>7. PICK g : /\ Fills(g, PlacesIn(outer), FlattenSeq(outer))
               /\ \A x \in PlacesIn(outer) : FlattenSeq(outer)[g[x]] = outer[x[1]][x[2]]
  BY <1>6, FlattenFills
<1>8. FlattenSeq(outer) \in Seq(T)
  BY <1>6, FlattenFills
<1> DEFINE f == [x \in alerting |-> g[<<x[1], pick[x[1]][x[2]]>>]]
           s == FlattenSeq(outer)
<1>9. ASSUME NEW x \in alerting
      PROVE  x[1] \in 1 .. N /\ x[2] \in chosen(x[1]) /\ x = <<x[1], x[2]>>
  BY <1>1 DEF Alerting
<1>10. \A i \in 1 .. N : outer[i] = FlattenSeq(inner(i))
  BY <1>1
<1> HIDE DEF alerting, outer, pick, inner, chosen, at, T
<1>11. ASSUME NEW i \in 1 .. N, NEW k \in chosen(i)
       PROVE  /\ <<i, pick[i][k]>> \in PlacesIn(outer)
              /\ outer[i][pick[i][k]] = at(<<i, k>>)
  <2>1. pick[i][k] \in DOMAIN outer[i] /\ outer[i][pick[i][k]] = at(<<i, k>>)
    BY <1>5, <1>10 DEF Fills
  <2> QED
    BY <1>6, <2>1 DEF PlacesIn
<1>12. ASSUME NEW x \in alerting
       PROVE  f[x] \in DOMAIN s /\ s[f[x]] = at(x)
  <2> DEFINE y == <<x[1], pick[x[1]][x[2]]>>
  <2>1. y \in PlacesIn(outer) /\ outer[y[1]][y[2]] = at(x)
    BY <1>9, <1>11
  <2> QED
    BY <1>7, <2>1 DEF Fills
<1>13. ASSUME NEW x \in alerting, NEW y \in alerting, f[x] = f[y]
       PROVE  x = y
  <2>1. /\ x[1] \in 1 .. N /\ x[2] \in chosen(x[1]) /\ x = <<x[1], x[2]>>
        /\ y[1] \in 1 .. N /\ y[2] \in chosen(y[1]) /\ y = <<y[1], y[2]>>
    BY <1>9
  <2>2. /\ <<x[1], pick[x[1]][x[2]]>> \in PlacesIn(outer)
        /\ <<y[1], pick[y[1]][y[2]]>> \in PlacesIn(outer)
    BY <1>11, <2>1
  <2>3. g[<<x[1], pick[x[1]][x[2]]>>] = g[<<y[1], pick[y[1]][y[2]]>>]
    BY <1>13
  <2>4. <<x[1], pick[x[1]][x[2]]>> = <<y[1], pick[y[1]][y[2]]>>
    BY <1>7, <2>2, <2>3 DEF Fills
  <2>5. x[1] = y[1] /\ pick[x[1]][x[2]] = pick[x[1]][y[2]]
    BY <2>4
  <2>6. x[2] = y[2]
    BY <1>5, <2>1, <2>5 DEF Fills
  <2> QED
    BY <2>1, <2>5, <2>6
<1>14. ASSUME NEW m \in DOMAIN s
       PROVE  \E x \in alerting : f[x] = m
  <2>1. PICK y \in PlacesIn(outer) : g[y] = m
    BY <1>7 DEF Fills
  <2>2. y[1] \in 1 .. N /\ y[2] \in DOMAIN outer[y[1]] /\ y = <<y[1], y[2]>>
    BY <1>6 DEF PlacesIn
  <2>3. PICK k \in chosen(y[1]) : pick[y[1]][k] = y[2]
    BY <1>5, <1>10, <2>2 DEF Fills
  <2>4. <<y[1], k>> \in alerting
    BY <1>1, <2>2, <2>3 DEF alerting, Alerting, chosen
  <2> QED
    BY <2>1, <2>2, <2>3, <2>4
<1>15. Fills(f, alerting, s) /\ \A x \in alerting : s[f[x]] = at(x)
  <2>1. f \in [alerting -> DOMAIN s]
    BY <1>12
  <2> HIDE DEF f, s
  <2> QED
    BY <1>12, <1>13, <1>14, <2>1 DEF Fills
<1> HIDE DEF f
<1> QED
  BY <1>3, <1>8, <1>15 DEF alerting, at, T

\* How often an element occurs in a sequence without its first.
LEMMA TimesOfTail ==
  ASSUME NEW T, NEW s \in Seq(T), s # <<>>, NEW a
  PROVE  Times(a, s) = Times(a, Tail(s)) + (IF Head(s) = a THEN 1 ELSE 0)
<1> DEFINE t == Tail(s)
           P == {n \in DOMAIN s : s[n] = a}
           Q == {n \in DOMAIN t : t[n] = a}
           R == P \ {1}
<1>1. /\ Len(s) \in Nat /\ Len(s) # 0 /\ DOMAIN s = 1 .. Len(s)
      /\ t \in Seq(T) /\ Len(t) = Len(s) - 1 /\ DOMAIN t = 1 .. Len(t)
      /\ Head(s) = s[1] /\ \A n \in 1 .. Len(t) : t[n] = s[n + 1]
  <2>1. Len(s) \in Nat /\ DOMAIN s = 1 .. Len(s) /\ Len(s) # 0
    BY LenProperties, EmptySeq
  <2>2. t \in Seq(T) /\ Len(t) = Len(s) - 1 /\ \A n \in 1 .. Len(t) : t[n] = s[n + 1]
    BY HeadTailProperties
  <2> QED
    BY <2>1, <2>2, LenProperties
<1>0. Times(a, s) = Cardinality(P) /\ Times(a, t) = Cardinality(Q)
  BY DEF Times
<1>2. /\ IsFiniteSet(Q) /\ IsFiniteSet(P) /\ IsFiniteSet(R)
      /\ Cardinality(P) \in Nat /\ Cardinality(Q) \in Nat
  <2>1. P \subseteq 1 .. Len(s) /\ Q \subseteq 1 .. Len(t) /\ R \subseteq 1 .. Len(s)
    BY <1>1
  <2>2. Len(s) \in Nat /\ Len(t) \in Nat
    BY <1>1
  <2> HIDE DEF P, Q, R, t
  <2> QED
    BY <2>1, <2>2, PlacesFinite
<1> DEFINE f == [n \in Q |-> n + 1]
<1>3. f \in [Q -> R] /\ \A m, n \in Q : f[m] = f[n] => m = n
  BY <1>1
<1>4. ASSUME NEW n \in R
      PROVE  \E m \in Q : f[m] = n
  <2>1. n - 1 \in Q /\ (n - 1) + 1 = n
    BY <1>1
  <2> QED
    BY <2>1
<1> HIDE DEF f
<1>5. Cardinality(R) = Cardinality(Q)
  BY <1>2, <1>3, <1>4, SameSize
<1>6. CASE s[1] = a
  <2>1. 1 \in P
    BY <1>1, <1>6
  <2>2. Cardinality(R) = Cardinality(P) - 1
    BY <1>2, <2>1, FS_RemoveElement
  <2> HIDE DEF P, Q, R
  <2> QED
    BY <1>0, <1>1, <1>2, <1>5, <1>6, <2>2
<1>7. CASE s[1] # a
  <2>1. R = P
    BY <1>7
  <2> HIDE DEF P, Q, R
  <2> QED
    BY <1>0, <1>1, <1>2, <1>5, <1>7, <2>1
<1> QED
  BY <1>6, <1>7

\* The same of a sequence that has one more at the end.
LEMMA TimesOfAppend ==
  ASSUME NEW T, NEW s \in Seq(T), NEW e \in T, NEW a
  PROVE  Times(a, Append(s, e)) = Times(a, s) + (IF e = a THEN 1 ELSE 0)
<1> DEFINE t == Append(s, e)
           P == {n \in DOMAIN s : s[n] = a}
           Q == {n \in DOMAIN t : t[n] = a}
           n == Len(s) + 1
<1>1. /\ Len(s) \in Nat /\ DOMAIN s = 1 .. Len(s) /\ DOMAIN t = 1 .. n
      /\ t[n] = e /\ \A i \in 1 .. Len(s) : t[i] = s[i]
  <2>1. Len(s) \in Nat /\ DOMAIN s = 1 .. Len(s)
    BY LenProperties
  <2>2. t \in Seq(T) /\ Len(t) = n /\ t[n] = e /\ \A i \in 1 .. Len(s) : t[i] = s[i]
    BY AppendProperties
  <2> QED
    BY <2>1, <2>2, LenProperties
<1>2. IsFiniteSet(P) /\ Cardinality(P) \in Nat
  <2>1. P \subseteq 1 .. Len(s) /\ Len(s) \in Nat
    BY <1>1
  <2> HIDE DEF P
  <2> QED
    BY <2>1, PlacesFinite
<1> HIDE DEF t
<1>3. n \notin P /\ Q = IF e = a THEN P \union {n} ELSE P
  BY <1>1
<1> HIDE DEF P, Q, n
<1>4. Cardinality(Q) = Cardinality(P) + (IF e = a THEN 1 ELSE 0)
  <2>1. Cardinality(P \union {n}) = Cardinality(P) + 1
    BY <1>2, <1>3, FS_AddElement
  <2> QED
    BY <1>2, <1>3, <2>1
<1> QED
  BY <1>4 DEF Times, P, Q, t

\* Alerts that evaluate_alerts may make of this configuration and these rows.
Possible == {AlertOf(monitor.policies, signals, x) : x \in Alerting(monitor.policies, signals)}

\* How often an alert is due: rows may make equal alerts.
Due(a) == Cardinality({x \in MustHear : AlertAt(x) = a})

\* A pass evaluates what it was configured and given; the alerts of those who
\* must hear are sent or still pending, as often as they are due.
MInv ==
  /\ pass \in {"idle", "evaluating", "routing", "routed", "raised"}
  /\ pass # "idle" => monitor \in Monitors /\ signals \in SignalRows
  /\ pass = "evaluating" => emitted = <<>>
  /\ pass \in {"routing", "routed", "raised"} =>
       /\ pending \in Seq(Possible)
       /\ emitted \in Seq({AlertAt(x) : x \in MustHear})
       /\ \A x \in MustHear :
            Times(AlertAt(x), emitted) + Times(AlertAt(x), pending) = Due(AlertAt(x))
  /\ pass = "routed" => pending = <<>>
  /\ pass = "raised" => DestinationOf(Head(pending)).kind # "log"

\* Who must hear is decided by the alert alone.
LEMMA HeardAlerts ==
  /\ MustHear \subseteq Alerting(monitor.policies, signals)
  /\ \A x \in Alerting(monitor.policies, signals) :
       /\ AlertAt(x) = AlertOf(monitor.policies, signals, x)
       /\ x \in MustHear <=> SeverityEnabled(AlertAt(x), DestinationOf(AlertAt(x)))
<1> DEFINE policies == monitor.policies
           of(i) == signals[policies[i].signal]
           told(i) == monitor.destinations[policies[i].destination].minimum
<1>1. \A i, k : <<i, k>> \in Alerting(policies, signals) <=>
        /\ i \in DOMAIN policies /\ k \in DOMAIN of(i)
        /\ IsAlerting(policies[i].signal, of(i)[k])
  BY DEF Alerting
<1>2. \A i, k : <<i, k>> \in MustHear <=>
        /\ i \in DOMAIN policies /\ k \in DOMAIN of(i)
        /\ of(i)[k].status \notin Quiet(policies[i].signal)
        /\ Rank(told(i)) <= Rank(policies[i].severity)
  BY DEF MustHear
<1>3. \A x \in MustHear : x = <<x[1], x[2]>>
  BY DEF MustHear
<1>4. \A x \in Alerting(policies, signals) : x = <<x[1], x[2]>>
  BY DEF Alerting
<1>5. \A x : AlertAt(x) = AlertOf(policies, signals, x)
  BY DEF AlertAt, AlertOf
<1>6. ASSUME NEW i, NEW k
      PROVE  SeverityEnabled(AlertAt(<<i, k>>), DestinationOf(AlertAt(<<i, k>>)))
               <=> Rank(policies[i].severity) >= Rank(told(i))
  BY DEF SeverityEnabled, DestinationOf, AlertAt, Alert
<1>7. \A i : Rank(policies[i].severity) >= Rank(told(i))
               <=> Rank(told(i)) <= Rank(policies[i].severity)
  OBVIOUS
<1> HIDE DEF policies, of, told
<1>8. MustHear \subseteq Alerting(policies, signals)
  BY <1>1, <1>2, <1>3 DEF IsAlerting
<1>9. \A x \in Alerting(policies, signals) :
        x \in MustHear <=> SeverityEnabled(AlertAt(x), DestinationOf(AlertAt(x)))
  BY <1>1, <1>2, <1>4, <1>6, <1>7 DEF IsAlerting
<1> QED
  BY <1>5, <1>8, <1>9 DEF policies

\* What is evaluated is due.
LEMMA EvaluatedIsDue ==
  ASSUME monitor \in Monitors, signals \in SignalRows
  PROVE  /\ Alerts(monitor.policies, signals) \in Seq(Possible)
         /\ \A x \in MustHear :
              Times(AlertAt(x), Alerts(monitor.policies, signals)) = Due(AlertAt(x))
<1> DEFINE alerting == Alerting(monitor.policies, signals)
           alerts == Alerts(monitor.policies, signals)
<1>1. /\ monitor.policies \in Seq(ToSet(monitor.policies))
      /\ \A p \in ToSet(monitor.policies) : signals[p.signal] \in Seq(ToSet(signals[p.signal]))
  BY MonitoringAssumption
<1>2. /\ alerts \in Seq(Possible)
      /\ \E f : /\ Fills(f, alerting, alerts)
                /\ \A x \in alerting :
                     alerts[f[x]] = AlertOf(monitor.policies, signals, x)
  BY <1>1, AlertsFill DEF Possible
<1>3. PICK f : /\ Fills(f, alerting, alerts)
               /\ \A x \in alerting : alerts[f[x]] = AlertAt(x)
  BY <1>2, HeardAlerts
<1>4. DOMAIN alerts = 1 .. Len(alerts) /\ Len(alerts) \in Nat
  BY <1>2, LenProperties
<1> HIDE DEF alerting, alerts
<1>5. ASSUME NEW x \in MustHear
      PROVE  Times(AlertAt(x), alerts) = Due(AlertAt(x))
  <2> DEFINE a == AlertAt(x)
             P == {y \in MustHear : AlertAt(y) = a}
             Q == {n \in DOMAIN alerts : alerts[n] = a}
             g == [y \in P |-> f[y]]
  <2>1. P = {y \in alerting : AlertAt(y) = a}
    BY HeardAlerts DEF alerting
  <2>2. g \in [P -> Q] /\ (\A y, z \in P : g[y] = g[z] => y = z)
    BY <1>3, <2>1 DEF Fills
  <2>3. ASSUME NEW n \in Q
        PROVE  \E y \in P : g[y] = n
    <3>1. PICK y \in alerting : f[y] = n
      BY <1>3 DEF Fills
    <3>2. y \in P
      BY <1>3, <2>1, <3>1
    <3> QED
      BY <3>1, <3>2
  <2>4. IsFiniteSet(Q)
    <3>1. Q \subseteq 1 .. Len(alerts)
      BY <1>4
    <3> HIDE DEF Q
    <3> QED
      BY <1>4, <3>1, PlacesFinite
  <2> HIDE DEF P, Q, g
  <2>5. IsFiniteSet(P)
    <3>1. g \in Injection(P, Q)
      BY <2>2, Fun_IsInj
    <3> QED
      BY <2>4, <3>1, FS_Injection
  <2>6. Cardinality(Q) = Cardinality(P)
    BY <2>2, <2>3, <2>5, SameSize
  <2> QED
    BY <2>6 DEF P, Q, Times, Due
<1> QED
  BY <1>2, <1>5 DEF alerts

\* Nothing that is due is lost, or sent to who need not hear, by a step.
LEMMA MonitoringStep ==
  ASSUME MInv, [MonitoringNext]_monitoring
  PROVE  MInv'
<1> DEFINE Told == {AlertAt(x) : x \in MustHear}
           Given == monitor' = monitor /\ signals' = signals
<1>0. Given => /\ Possible' = Possible /\ MustHear' = MustHear /\ Told' = Told
               /\ \A x \in MustHear : /\ AlertAt(x)' = AlertAt(x)
                                      /\ Due(AlertAt(x))' = Due(AlertAt(x))
  BY DEF Possible, MustHear, AlertOf, Alerting, AlertAt, Due
<1>1. CASE EvaluateAlerts
  <2>1. /\ monitor \in Monitors /\ signals \in SignalRows /\ emitted = <<>>
        /\ Given /\ emitted' = emitted
        /\ pass' = "routing" /\ pending' = Alerts(monitor.policies, signals)
    BY <1>1 DEF EvaluateAlerts, MInv
  <2>2. /\ pending' \in Seq(Possible)
        /\ \A x \in MustHear : Times(AlertAt(x), pending') = Due(AlertAt(x))
    BY <2>1, EvaluatedIsDue
  <2>3. ASSUME NEW x \in MustHear
        PROVE  Times(AlertAt(x), emitted') + Times(AlertAt(x), pending') = Due(AlertAt(x))
    <3>1. Times(AlertAt(x), emitted') = 0
      BY <2>1, FS_EmptySet DEF Times
    <3>2. Times(AlertAt(x), pending') \in Nat
      <4>1. Len(pending') \in Nat /\ DOMAIN pending' = 1 .. Len(pending')
        BY <2>2, LenProperties
      <4> QED
        BY <4>1, PlacesFinite DEF Times
    <3> QED
      BY <2>2, <3>1, <3>2
  <2>4. emitted' \in Seq(Told)
    BY <2>1
  <2> QED
    BY <1>0, <2>1, <2>2, <2>3, <2>4 DEF MInv
<1>2. ASSUME pass = "routing", pending # <<>>
      PROVE  /\ Head(pending) \in Possible /\ Tail(pending) \in Seq(Possible)
             /\ \A a : Times(a, pending) = Times(a, Tail(pending))
                                             + (IF Head(pending) = a THEN 1 ELSE 0)
  <2>1. pending \in Seq(Possible)
    BY <1>2 DEF MInv
  <2> QED
    BY <1>2, <2>1, HeadTailProperties, TimesOfTail
<1>3. CASE SkipAlert
  <2> DEFINE a == Head(pending)
  <2>1. /\ pass = "routing" /\ pending # <<>> /\ ~SeverityEnabled(a, DestinationOf(a))
        /\ Given /\ emitted' = emitted /\ pass' = pass /\ pending' = Tail(pending)
    BY <1>3 DEF SkipAlert
  <2>2. \A x \in MustHear : AlertAt(x) # a
    BY <2>1, HeardAlerts
  <2>3. ASSUME NEW x \in MustHear
        PROVE  Times(AlertAt(x), pending') = Times(AlertAt(x), pending)
    <3>1. Len(pending') \in Nat /\ DOMAIN pending' = 1 .. Len(pending')
      BY <1>2, <2>1, LenProperties
    <3>2. Times(AlertAt(x), pending') \in Nat
      BY <3>1, PlacesFinite DEF Times
    <3> QED
      BY <1>2, <2>1, <2>2, <3>2
  <2> HIDE DEF a
  <2> QED
    BY <1>0, <1>2, <2>1, <2>3 DEF MInv
<1>4. CASE EmitAlert
  <2> DEFINE a == Head(pending)
  <2>1. /\ pass = "routing" /\ pending # <<>> /\ SeverityEnabled(a, DestinationOf(a))
        /\ Given /\ emitted' = Append(emitted, a) /\ pass' = pass
        /\ pending' = Tail(pending)
    BY <1>4 DEF EmitAlert
  <2>2. a \in Told
    BY <1>2, <2>1, HeardAlerts DEF Possible
  <2>3. emitted \in Seq(Told)
    BY <2>1 DEF MInv
  <2>4. emitted' \in Seq(Told)
    BY <2>1, <2>2, <2>3, AppendProperties
  <2>5. ASSUME NEW x \in MustHear
        PROVE  Times(AlertAt(x), emitted') + Times(AlertAt(x), pending')
                 = Times(AlertAt(x), emitted) + Times(AlertAt(x), pending)
    <3> DEFINE b == AlertAt(x)
    <3>1. /\ Len(pending') \in Nat /\ DOMAIN pending' = 1 .. Len(pending')
          /\ Len(emitted) \in Nat /\ DOMAIN emitted = 1 .. Len(emitted)
      BY <1>2, <2>1, <2>3, LenProperties
    <3>2. Times(b, pending') \in Nat /\ Times(b, emitted) \in Nat
      BY <3>1, PlacesFinite DEF Times
    <3>3. Times(b, emitted') = Times(b, emitted) + (IF a = b THEN 1 ELSE 0)
      BY <2>1, <2>2, <2>3, TimesOfAppend
    <3>4. Times(b, pending) = Times(b, pending') + (IF a = b THEN 1 ELSE 0)
      BY <1>2, <2>1
    <3> HIDE DEF a, b
    <3>5. Times(b, emitted') + Times(b, pending') = Times(b, emitted) + Times(b, pending)
      BY <3>2, <3>3, <3>4
    <3> QED
      BY <3>5 DEF b
  <2> HIDE DEF a, Told
  <2>6. \A x \in MustHear :
          Times(AlertAt(x), emitted') + Times(AlertAt(x), pending') = Due(AlertAt(x))
    BY <2>1, <2>5 DEF MInv
  <2>7. emitted' \in Seq(Told')
    BY <1>0, <2>1, <2>4
  <2> QED
    BY <1>0, <1>2, <2>1, <2>6, <2>7 DEF MInv, Told
<1>5. CASE FailAlert
  <2>1. /\ pass = "routing" /\ pass' = "raised" /\ Given
        /\ pending' = pending /\ emitted' = emitted
        /\ DestinationOf(Head(pending)).kind # "log"
    BY <1>5 DEF FailAlert
  <2>2. DestinationOf(Head(pending))' = DestinationOf(Head(pending))
    BY <2>1 DEF DestinationOf
  <2> QED
    BY <1>0, <2>1, <2>2 DEF MInv
<1>6. CASE EndPass
  <2>1. /\ pass = "routing" /\ pass' = "routed" /\ pending = <<>> /\ Given
        /\ pending' = pending /\ emitted' = emitted
    BY <1>6 DEF EndPass
  <2> QED
    BY <1>0, <2>1 DEF MInv
<1>7. CASE UNCHANGED monitoring
  <2>1. Given /\ pending' = pending /\ emitted' = emitted /\ pass' = pass
    BY <1>7 DEF monitoring
  <2>2. DestinationOf(Head(pending))' = DestinationOf(Head(pending))
    BY <2>1 DEF DestinationOf
  <2> QED
    BY <1>0, <2>1, <2>2 DEF MInv
<1> QED
  BY <1>1, <1>3, <1>4, <1>5, <1>6, <1>7 DEF MonitoringNext

\* The alerts of a pass reach those who must hear of them.
LEMMA AlertsSent == MInv => AlertsReach
<1> SUFFICES ASSUME MInv, pass \in {"routing", "routed", "raised"}
             PROVE  AlertsReach
  BY DEF AlertsReach
<1>1. ToSet(emitted) \subseteq {AlertAt(x) : x \in MustHear}
  <2>1. emitted \in Seq({AlertAt(x) : x \in MustHear})
    BY DEF MInv
  <2>2. \A n \in DOMAIN emitted : emitted[n] \in {AlertAt(x) : x \in MustHear}
    BY <2>1, LenProperties, ElementOfSeq
  <2> QED
    BY <2>2 DEF ToSet
<1>2. \A x \in MustHear :
        Times(AlertAt(x), emitted) + Times(AlertAt(x), pending) = Due(AlertAt(x))
  BY DEF MInv
<1>3. ASSUME pass = "routed", NEW x \in MustHear
      PROVE  Times(AlertAt(x), emitted) = Due(AlertAt(x))
  <2>1. Times(AlertAt(x), pending) = 0
    BY <1>3, FS_EmptySet DEF MInv, Times
  <2>2. emitted \in Seq({AlertAt(y) : y \in MustHear})
    BY DEF MInv
  <2>3. Len(emitted) \in Nat /\ DOMAIN emitted = 1 .. Len(emitted)
    BY <2>2, LenProperties
  <2>4. Times(AlertAt(x), emitted) \in Nat
    BY <2>3, PlacesFinite DEF Times
  <2> QED
    BY <1>2, <2>1, <2>4
<1>4. pass = "raised" => DestinationOf(Head(pending)).kind # "log"
  BY DEF MInv
<1> QED
  BY <1>1, <1>2, <1>3, <1>4 DEF AlertsReach, Due

\* A pass tells everyone who must hear, of every row once and nobody else.
THEOREM AlertsReachAll == RulesSpec => []AlertsReach
<1>1. RulesInit => MInv
  BY DEF RulesInit, MonitoringInit, MonitoringIdle, MInv
<1>2. MInv /\ [RulesNext]_rules => MInv'
  <2>1. ASSUME [RulesNext]_rules
        PROVE  [MonitoringNext]_monitoring
    BY <2>1 DEF RulesNext, rules, monitoring
  <2> QED
    BY <2>1, MonitoringStep
<1> QED
  BY <1>1, <1>2, AlertsSent, PTL DEF RulesSpec

-----------------------------------------------------------------------------
(* Hierarchies.                                                            *)

\* The recursive function that Reached is.
Steps(F, E, S) ==
  F = [n \in 0 .. Cardinality(E) |->
         IF n = 0 THEN S
         ELSE F[n - 1] \union {e[2] : e \in {x \in E : x[1] \in F[n - 1]}}]

\* There is such a function.
LEMMA StepsExist ==
  ASSUME NEW E, IsFiniteSet(E), NEW S
  PROVE  \E F : Steps(F, E, S)
<1> DEFINE V == S \union {e[2] : e \in E}
           next(B) == B \union {e[2] : e \in {x \in E : x[1] \in B}}
           Part(F, k) ==
             /\ F \in [0 .. k -> SUBSET V]
             /\ \A i \in 0 .. k : F[i] = IF i = 0 THEN S ELSE next(F[i - 1])
           N == Cardinality(E)
           K == {k \in Nat : \E F : Part(F, k)}
<1>0. N \in Nat
  BY FS_CardinalityType
<1>1. \A B \in SUBSET V : next(B) \in SUBSET V
  OBVIOUS
<1> HIDE DEF next
<1>2. 0 \in K
  <2>1. Part([i \in 0 .. 0 |-> S], 0)
    OBVIOUS
  <2> QED
    BY <2>1
<1>3. ASSUME NEW k \in K \intersect Nat
      PROVE  k + 1 \in K
  <2>0. k \in Nat /\ \E F : Part(F, k)
    <3> HIDE DEF Part
    <3> QED
      OBVIOUS
  <2>1. PICK F : Part(F, k)
    BY <2>0
  <2> DEFINE G == [i \in 0 .. k + 1 |-> IF i \in 0 .. k THEN F[i] ELSE next(F[k])]
  <2>2. next(F[k]) \in SUBSET V
    BY <1>1, <2>0, <2>1
  <2> HIDE DEF V
  <2>3. G \in [0 .. k + 1 -> SUBSET V]
    BY <2>0, <2>1, <2>2
  <2>4. ASSUME NEW i \in 0 .. k + 1
        PROVE  G[i] = IF i = 0 THEN S ELSE next(G[i - 1])
    <3>1. CASE i \in 0 .. k
      <4>1. i = 0 \/ (i - 1 \in 0 .. k + 1 /\ G[i - 1] = F[i - 1])
        BY <2>0, <3>1
      <4> QED
        BY <2>1, <3>1, <4>1
    <3>2. CASE i \notin 0 .. k
      <4>1. i = k + 1 /\ i - 1 = k /\ i # 0 /\ k \in 0 .. k /\ k \in 0 .. k + 1
        BY <2>0, <3>2
      <4> QED
        BY <3>2, <4>1
    <3> QED
      BY <3>1, <3>2
  <2>5. Part(G, k + 1)
    BY <2>3, <2>4
  <2> HIDE DEF Part, G
  <2> QED
    BY <2>0, <2>5
<1>4. N \in K
  <2> HIDE DEF K
  <2> QED
    BY <1>0, <1>2, <1>3, AllNumbers
<1>5. PICK F : Part(F, N)
  <2> HIDE DEF Part
  <2> QED
    BY <1>4
<1>6. F = [i \in 0 .. N |-> IF i = 0 THEN S ELSE next(F[i - 1])]
  BY <1>5
<1> QED
  BY <1>6 DEF Steps, next

\* No edge leads out of X.
Closed(E, X) == \A e \in E : e[1] \in X => e[2] \in X

\* As many steps as there are edges reach everything: what Reached computes is
\* closed, has the sources, and is no more than any closed set that has them.
LEMMA ReachedClosed ==
  ASSUME NEW E, IsFiniteSet(E), NEW S
  PROVE  /\ S \subseteq Reached(E, S)
         /\ Closed(E, Reached(E, S))
         /\ \A X : S \subseteq X /\ Closed(E, X) => Reached(E, S) \subseteq X
<1> DEFINE N == Cardinality(E)
           step == CHOOSE F : Steps(F, E, S)
           next(B) == B \union {e[2] : e \in {x \in E : x[1] \in B}}
<1>1. Steps(step, E, S)
  BY StepsExist
<1>2. Reached(E, S) = step[N]
  BY DEF Reached, Steps
<1> HIDE DEF step
<1>3. step = [n \in 0 .. N |-> IF n = 0 THEN S ELSE next(step[n - 1])]
  BY <1>1 DEF Steps
<1>4. N \in Nat
  BY FS_CardinalityType
<1> HIDE DEF N
<1>5. step[0] = S /\ \A k \in Nat : k + 1 <= N => step[k + 1] = next(step[k])
  <2>1. step[0] = S
    BY <1>3, <1>4
  <2>2. ASSUME NEW k \in Nat, k + 1 <= N
        PROVE  step[k + 1] = next(step[k])
    <3>1. k + 1 \in 0 .. N /\ k + 1 # 0 /\ (k + 1) - 1 = k
      BY <1>4, <2>2
    <3> HIDE DEF next
    <3> QED
      BY <1>3, <3>1
  <2> QED
    BY <2>1, <2>2
<1>6. \A B : B \subseteq next(B) /\ (Closed(E, B) => next(B) = B)
  BY DEF Closed
<1>7. \A B, X : B \subseteq X /\ Closed(E, X) => next(B) \subseteq X
  BY DEF Closed
<1>8. \A B : \A e \in E : e[1] \in B => e[2] \in next(B)
  OBVIOUS
<1> HIDE DEF next
<1>9. S \subseteq step[N]
  <2> DEFINE K == {k \in Nat : k <= N => S \subseteq step[k]}
  <2>1. 0 \in K
    BY <1>5
  <2>2. ASSUME NEW k \in K \intersect Nat
        PROVE  k + 1 \in K
    BY <1>4, <1>5, <1>6
  <2>3. N \in K
    <3> HIDE DEF K
    <3> QED
      BY <1>4, <2>1, <2>2, AllNumbers
  <2> QED
    BY <1>4, <2>3
<1>10. ASSUME NEW X, S \subseteq X, Closed(E, X)
       PROVE  step[N] \subseteq X
  <2> DEFINE K == {k \in Nat : k <= N => step[k] \subseteq X}
  <2>1. 0 \in K
    BY <1>5, <1>10
  <2>2. ASSUME NEW k \in K \intersect Nat
        PROVE  k + 1 \in K
    BY <1>4, <1>5, <1>7, <1>10
  <2>3. N \in K
    <3> HIDE DEF K
    <3> QED
      BY <1>4, <2>1, <2>2, AllNumbers
  <2> QED
    BY <1>4, <2>3
<1>11. ASSUME NEW k \in Nat, k <= N, Closed(E, step[k])
       PROVE  step[N] = step[k]
  <2> DEFINE K == {d \in Nat : k + d <= N => step[k + d] = step[k]}
  <2>1. 0 \in K
    OBVIOUS
  <2>2. ASSUME NEW d \in K \intersect Nat
        PROVE  d + 1 \in K
    <3>1. SUFFICES ASSUME k + (d + 1) <= N
                   PROVE  step[k + (d + 1)] = step[k]
      OBVIOUS
    <3>2. k + d \in Nat /\ k + d <= N /\ (k + d) + 1 <= N /\ k + (d + 1) = (k + d) + 1
      BY <1>4, <3>1
    <3>3. step[k + d] = step[k]
      BY <3>2
    <3>4. step[(k + d) + 1] = next(step[k + d])
      BY <1>5, <3>2
    <3> QED
      BY <1>6, <1>11, <3>2, <3>3, <3>4
  <2>3. N - k \in K
    <3>1. N - k \in Nat
      BY <1>4, <1>11
    <3> HIDE DEF K
    <3> QED
      BY <2>1, <2>2, <3>1, AllNumbers
  <2>4. k + (N - k) = N
    BY <1>4
  <2> QED
    BY <1>4, <2>3, <2>4
<1>12. Closed(E, step[N])
  <2> SUFFICES ASSUME ~Closed(E, step[N])
               PROVE  FALSE
    OBVIOUS
  <2> DEFINE U(k) == {e \in E : e[2] \in step[k]}
             K == {k \in Nat : k <= N => k <= Cardinality(U(k))}
  <2>1. ASSUME NEW k
        PROVE  IsFiniteSet(U(k)) /\ Cardinality(U(k)) \in Nat
    BY FS_Subset, FS_CardinalityType
  <2>2. 0 \in K
    <3>1. Cardinality(U(0)) \in Nat
      BY <2>1
    <3> HIDE DEF U
    <3> QED
      BY <3>1
  <2>3. ASSUME NEW k \in K \intersect Nat
        PROVE  k + 1 \in K
    <3>1. SUFFICES ASSUME k + 1 <= N
                   PROVE  k + 1 <= Cardinality(U(k + 1))
      <4> HIDE DEF U
      <4> QED
        OBVIOUS
    <3>2. k \in Nat /\ k <= N /\ k <= Cardinality(U(k))
      <4> HIDE DEF U
      <4> QED
        BY <1>4, <3>1
    <3>3. ~Closed(E, step[k])
      BY <1>11, <3>2
    <3>4. PICK e \in E : e[1] \in step[k] /\ e[2] \notin step[k]
      BY <3>3 DEF Closed
    <3>5. step[k + 1] = next(step[k])
      BY <1>5, <3>1
    <3>6. e \notin U(k) /\ U(k) \union {e} \subseteq U(k + 1)
      BY <1>6, <1>8, <3>4, <3>5
    <3> HIDE DEF U
    <3>7. Cardinality(U(k) \union {e}) = Cardinality(U(k)) + 1
      BY <2>1, <3>6, FS_AddElement
    <3>8. Cardinality(U(k) \union {e}) <= Cardinality(U(k + 1))
      BY <2>1, <3>6, FS_Subset
    <3> QED
      BY <2>1, <3>2, <3>7, <3>8
  <2>4. N \in K
    <3> HIDE DEF K
    <3> QED
      BY <1>4, <2>2, <2>3, AllNumbers
  <2>5. PICK e \in E : e[1] \in step[N] /\ e[2] \notin step[N]
    BY DEF Closed
  <2>6. U(N) \subseteq E \ {e}
    BY <2>5
  <2>7. IsFiniteSet(E \ {e}) /\ Cardinality(E \ {e}) = N - 1
    BY FS_RemoveElement DEF N
  <2>8. N <= Cardinality(U(N))
    <3> HIDE DEF U
    <3> QED
      BY <1>4, <2>4
  <2> HIDE DEF U
  <2>9. Cardinality(U(N)) <= Cardinality(E \ {e})
    BY <2>6, <2>7, FS_Subset
  <2> QED
    BY <1>4, <2>1, <2>7, <2>8, <2>9
<1> QED
  BY <1>2, <1>9, <1>10, <1>12

\* Graphs as they are stored: finitely many nodes and edges, which are pairs.
IsGraph(g) ==
  /\ IsFiniteSet(g.nodes) /\ IsFiniteSet(g.edges)
  /\ \A e \in g.edges : e = <<e[1], e[2]>>
  /\ \A n \in g.nodes : g.level[n] \in Nat

\* Nodes of single parents are reached from the roots exactly when none is
\* above itself.  A node on a cycle is reached through its parent only, which is
\* on the cycle; of nodes that no root reaches, the one with the most
\* descendants has a parent with more.
LEMMA ForestReached ==
  ASSUME NEW g, IsGraph(g), g.nodes # {},
         \A e \in g.edges : e[1] \in g.nodes /\ e[2] \in g.nodes,
         \A d, e \in g.edges : d[2] = e[2] => d = e
  PROVE  /\ Roots(g) # {} /\ Reached(g.edges, Roots(g)) = g.nodes
              => \A n \in g.nodes : n \notin Reached(g.edges, Children(g, n))
         /\ (\A n \in g.nodes : n \notin Reached(g.edges, Children(g, n)))
              => Roots(g) # {} /\ Reached(g.edges, Roots(g)) = g.nodes
<1> DEFINE E == g.edges
           all == Reached(E, Roots(g))
           below(n) == Reached(E, Children(g, n))
<1>1. IsFiniteSet(E) /\ IsFiniteSet(g.nodes)
  BY DEF IsGraph
<1>2. /\ Roots(g) \subseteq all /\ Closed(E, all)
      /\ \A X : Roots(g) \subseteq X /\ Closed(E, X) => all \subseteq X
  BY <1>1, ReachedClosed
<1>3. \A n : /\ Children(g, n) \subseteq below(n) /\ Closed(E, below(n))
             /\ \A X : Children(g, n) \subseteq X /\ Closed(E, X) => below(n) \subseteq X
  BY <1>1, ReachedClosed
<1> HIDE DEF all, below
<1>4. /\ \A n, m : m \in Children(g, n) <=> \E e \in E : e[1] = n /\ e[2] = m
      /\ \A n : n \in Roots(g) <=> n \in g.nodes /\ \A e \in E : e[2] # n
  BY DEF Children, Roots, HasParent
<1>5. ASSUME all = g.nodes, NEW n \in g.nodes, n \in below(n)
      PROVE  FALSE
  <2> DEFINE Y == {m \in below(n) : \E e \in E : e[2] = m /\ e[1] \in below(n)}
  <2>1. Children(g, n) \subseteq Y
    BY <1>3, <1>4, <1>5
  <2>2. Closed(E, Y)
    BY <1>3 DEF Closed
  <2>3. below(n) \subseteq Y
    <3> HIDE DEF Y
    <3> QED
      BY <1>3, <2>1, <2>2
  <2> DEFINE X == g.nodes \ below(n)
  <2>4. Roots(g) \subseteq X
    BY <1>4, <2>3
  <2>5. Closed(E, X)
    <3> SUFFICES ASSUME NEW e \in E, e[1] \in X
                 PROVE  e[2] \in X
      BY DEF Closed
    <3>1. CASE e[2] \in below(n)
      <4>1. PICK d \in E : d[2] = e[2] /\ d[1] \in below(n)
        BY <2>3, <3>1
      <4>2. d = e
        BY <4>1
      <4> QED
        BY <4>1, <4>2
    <3> QED
      BY <3>1
  <2>6. all \subseteq X
    <3> HIDE DEF X
    <3> QED
      BY <1>2, <2>4, <2>5
  <2> QED
    BY <1>5, <2>6
<1>6. ASSUME \A n \in g.nodes : n \notin below(n)
      PROVE  Roots(g) # {} /\ all = g.nodes
  <2>1. all \subseteq g.nodes
    <3>1. Roots(g) \subseteq g.nodes /\ Closed(E, g.nodes)
      BY <1>4 DEF Closed
    <3> QED
      BY <1>2, <3>1
  <2>2. ASSUME NEW n
        PROVE  IsFiniteSet(below(n)) /\ Cardinality(below(n)) \in Nat
               /\ below(n) \subseteq g.nodes /\ Cardinality(below(n)) <= Cardinality(g.nodes)
    <3>1. Children(g, n) \subseteq g.nodes /\ Closed(E, g.nodes)
      BY <1>4 DEF Closed
    <3>2. below(n) \subseteq g.nodes
      BY <1>3, <3>1
    <3> QED
      BY <1>1, <3>2, FS_Subset, FS_CardinalityType
  <2> DEFINE U == g.nodes \ all
             f == [n \in U |-> Cardinality(below(n))]
  <2>3. ASSUME U # {}
        PROVE  FALSE
    <3>1. f \in [U -> Nat] /\ Cardinality(g.nodes) \in Nat
          /\ \A n \in U : f[n] <= Cardinality(g.nodes)
      BY <1>1, <2>2, FS_CardinalityType
    <3> HIDE DEF f
    <3>2. PICK n \in U : \A m \in U : f[m] <= f[n]
      BY <2>3, <3>1, LatestExists
    <3>3. PICK e \in E : e[2] = n
      BY <1>2, <1>4
    <3> DEFINE p == e[1]
    <3>4. p \in U
      BY <1>2, <3>3 DEF Closed
    <3>5. n \in below(p) /\ n \notin below(n)
      BY <1>3, <1>4, <1>6, <3>3
    <3>6. below(n) \subseteq below(p)
      <4>1. Children(g, n) \subseteq below(p)
        BY <1>3, <1>4, <3>5 DEF Closed
      <4> QED
        BY <1>3, <4>1
    <3> HIDE DEF p
    <3>7. Cardinality(below(n) \union {n}) = Cardinality(below(n)) + 1
      BY <2>2, <3>5, FS_AddElement
    <3>8. Cardinality(below(n) \union {n}) <= Cardinality(below(p))
      <4>1. below(n) \union {n} \subseteq below(p)
        BY <3>5, <3>6
      <4> QED
        BY <2>2, <4>1, FS_Subset
    <3>9. f[p] <= f[n] /\ f[p] = Cardinality(below(p)) /\ f[n] = Cardinality(below(n))
      BY <3>2, <3>4 DEF f
    <3> QED
      BY <2>2, <3>7, <3>8, <3>9
  <2>4. all = g.nodes
    BY <2>1, <2>3
  <2>5. Roots(g) # {}
    <3> SUFFICES ASSUME Roots(g) = {}
                 PROVE  FALSE
      OBVIOUS
    <3>1. all \subseteq {}
      BY <1>2 DEF Closed
    <3> QED
      BY <2>4, <3>1
  <2> QED
    BY <2>4, <2>5
<1> QED
  BY <1>5, <1>6 DEF all, below

\* The pipeline accepts forests and nothing else.
LEMMA AcceptsForests ==
  ASSUME NEW g, IsGraph(g), g.nodes # {}
  PROVE  Accepts(g) <=> IsForest(g)
<1> DEFINE E == g.edges
           known == \A e \in E : e[1] \in g.nodes /\ e[2] \in g.nodes
           single == \A d, e \in E : d[2] = e[2] => d = e
           parents(n) == {p \in g.nodes : <<p, n>> \in E}
<1>1. \A e \in E : e = <<e[1], e[2]>>
  BY DEF IsGraph
<1>2. ASSUME known, single, NEW n
      PROVE  Cardinality(parents(n)) <= 1
  <2>1. CASE parents(n) = {}
    <3>1. Cardinality({}) = 0
      BY FS_EmptySet
    <3> HIDE DEF parents
    <3> QED
      BY <2>1, <3>1
  <2>2. CASE parents(n) # {}
    <3>1. PICK p : p \in parents(n)
      BY <2>2
    <3>2. parents(n) = {p}
      <4> SUFFICES ASSUME NEW q \in parents(n) PROVE q = p
        BY <3>1
      <4>1. <<p, n>> \in E /\ <<q, n>> \in E /\ <<p, n>>[2] = <<q, n>>[2]
        BY <3>1
      <4>2. <<p, n>> = <<q, n>>
        BY <1>2, <4>1
      <4> QED
        BY <4>2
    <3>3. Cardinality({p}) = 1
      BY FS_Singleton
    <3> HIDE DEF parents
    <3> QED
      BY <3>2, <3>3
  <2> QED
    BY <2>1, <2>2
<1>3. ASSUME known, \A n \in g.nodes : Cardinality(parents(n)) <= 1
      PROVE  single
  <2> SUFFICES ASSUME NEW d \in E, NEW e \in E, d[2] = e[2], d # e
               PROVE  FALSE
    OBVIOUS
  <2> DEFINE n == d[2]
  <2>1. n \in g.nodes /\ d[1] \in parents(n) /\ e[1] \in parents(n) /\ d[1] # e[1]
    BY <1>1, <1>3
  <2>2. IsFiniteSet(parents(n))
    BY FS_Subset DEF IsGraph
  <2> HIDE DEF parents, n
  <2>3. /\ Cardinality({d[1]}) = 1 /\ IsFiniteSet({d[1]})
        /\ Cardinality({d[1]} \union {e[1]}) = 2
    <3> DEFINE A == {d[1]}
    <3>1. IsFiniteSet(A) /\ Cardinality(A) = 1
      BY FS_Singleton
    <3>2. e[1] \notin A
      BY <2>1
    <3> HIDE DEF A
    <3>3. Cardinality(A \union {e[1]}) = Cardinality(A) + 1
      BY <3>1, <3>2, FS_AddElement
    <3> QED
      BY <3>1, <3>3 DEF A
  <2>4. {d[1]} \union {e[1]} \subseteq parents(n)
    BY <2>1
  <2>5. 2 <= Cardinality(parents(n)) /\ Cardinality(parents(n)) \in Nat
    BY <2>2, <2>3, <2>4, FS_Subset, FS_CardinalityType
  <2> QED
    BY <1>3, <2>1, <2>5
<1>4. ASSUME known, \A n \in g.nodes : n \notin Reached(E, Children(g, n))
      PROVE  \A e \in E : e[1] # e[2]
  <2> SUFFICES ASSUME NEW e \in E, e[1] = e[2]
               PROVE  FALSE
    OBVIOUS
  <2>1. e[1] \in Children(g, e[1]) /\ e[1] \in g.nodes
    BY <1>4 DEF Children
  <2>2. Children(g, e[1]) \subseteq Reached(E, Children(g, e[1]))
    BY ReachedClosed DEF IsGraph
  <2> QED
    BY <1>4, <2>1, <2>2
<1>5. ASSUME known, single
      PROVE  /\ Roots(g) # {} /\ Reached(E, Roots(g)) = g.nodes
                  => \A n \in g.nodes : n \notin Reached(E, Children(g, n))
             /\ (\A n \in g.nodes : n \notin Reached(E, Children(g, n)))
                  => Roots(g) # {} /\ Reached(E, Roots(g)) = g.nodes
  BY <1>5, ForestReached
<1>6. Accepts(g) <=> /\ known /\ single /\ \A e \in E : e[1] # e[2]
                     /\ Roots(g) # {} /\ Reached(E, Roots(g)) = g.nodes
  BY DEF Accepts
<1>7. IsForest(g) <=> /\ known
                      /\ \A n \in g.nodes : Cardinality(parents(n)) <= 1
                      /\ \A n \in g.nodes : n \notin Reached(E, Children(g, n))
  <2>1. known <=> \A e \in E : {e[1], e[2]} \subseteq g.nodes
    OBVIOUS
  <2> QED
    BY <2>1 DEF IsForest
<1> HIDE DEF known, single, parents, E
<1> QED
  BY <1>2, <1>3, <1>4, <1>5, <1>6, <1>7

\* Edges that lead one level down: every node is reached from the top.
LEMMA LevelsAccepted ==
  ASSUME NEW g, IsGraph(g), g.nodes # {},
         \A e \in g.edges : e[1] \in g.nodes /\ e[2] \in g.nodes,
         \A e \in g.edges : g.level[e[2]] = g.level[e[1]] + 1,
         OneParentEach(g)
  PROVE  Accepts(g)
<1> DEFINE E == g.edges
           all == Reached(E, Roots(g))
           levels == {g.level[m] : m \in g.nodes}
<1>1. levels \subseteq Nat /\ levels # {} /\ \A n \in g.nodes : g.level[n] \in Nat
  BY DEF IsGraph
<1>2. Min(levels) \in levels /\ \A l \in levels : Min(levels) <= l
  <2> HIDE DEF levels
  <2>1. \E n \in levels : \A m \in levels : n <= m
    BY <1>1, LeastExists
  <2> QED
    BY <2>1 DEF Min
<1>3. ASSUME NEW e \in E
      PROVE  g.level[e[2]] > Min(levels) /\ e[1] # e[2]
  <2>1. g.level[e[1]] \in levels /\ g.level[e[1]] \in Nat
        /\ g.level[e[2]] = g.level[e[1]] + 1
    BY <1>1
  <2> HIDE DEF levels
  <2>2. Min(levels) <= g.level[e[1]] /\ Min(levels) \in Nat
    BY <1>1, <1>2, <2>1
  <2> QED
    BY <2>1, <2>2
<1>4. ASSUME NEW d \in E, NEW e \in E, d[2] = e[2]
      PROVE  d = e
  <2> DEFINE same == {x \in E : x[2] = d[2]}
  <2>1. Cardinality(same) = 1
    BY <1>3 DEF OneParentEach
  <2>2. IsFiniteSet(same) /\ d \in same /\ e \in same
    BY <1>4, FS_Subset DEF IsGraph
  <2> HIDE DEF same
  <2> QED
    BY <2>1, <2>2, FS_Singleton
<1>5. /\ Roots(g) \subseteq all /\ Closed(E, all)
      /\ \A X : Roots(g) \subseteq X /\ Closed(E, X) => all \subseteq X
  BY ReachedClosed DEF IsGraph
<1>6. \A n : n \in Roots(g) <=> n \in g.nodes /\ \A e \in E : e[2] # n
  BY DEF Roots, HasParent
<1> HIDE DEF all
<1>7. all \subseteq g.nodes
  <2>1. Roots(g) \subseteq g.nodes /\ Closed(E, g.nodes)
    BY <1>6 DEF Closed
  <2> QED
    BY <1>5, <2>1
<1>8. g.nodes \subseteq all
  <2> DEFINE U == g.nodes \ all
             T == {g.level[m] : m \in U}
  <2> SUFFICES ASSUME U # {}
               PROVE  FALSE
    OBVIOUS
  <2>1. T \subseteq Nat /\ T # {}
    BY <1>1
  <2>2. PICK l \in T : \A k \in T : l <= k
    <3> HIDE DEF T
    <3> QED
      BY <2>1, LeastExists
  <2>3. PICK n \in U : g.level[n] = l
    BY <2>2
  <2>4. PICK e \in E : e[2] = n
    BY <1>5, <1>6, <2>3
  <2>5. e[1] \in U
    BY <1>5, <2>3, <2>4 DEF Closed
  <2>6. l <= g.level[e[1]] /\ g.level[e[1]] \in Nat /\ g.level[n] = g.level[e[1]] + 1
    BY <1>1, <2>2, <2>4, <2>5
  <2> QED
    BY <2>3, <2>6
<1>9. Roots(g) # {}
  <2> SUFFICES ASSUME Roots(g) = {} PROVE FALSE
    OBVIOUS
  <2>1. all \subseteq {}
    BY <1>5 DEF Closed
  <2> QED
    BY <1>8, <2>1
<1> QED
  BY <1>3, <1>4, <1>7, <1>8, <1>9 DEF Accepts, all

\* The value of a key that is there and has no '|' within.
Whole(entity, k) == entity[k] \in Seq(ToSet(entity[k])) /\ Len(entity[k]) = 1

\* Values without a '|' can be told from the text that joins them.
LEMMA JoinedTells ==
  ASSUME NEW K, NEW keys \in Seq(K), NEW x, NEW y,
         \A k \in ToSet(keys) : Whole(x, k) /\ Whole(y, k)
  PROVE  Joined(keys, x) = Joined(keys, y) <=> \A k \in ToSet(keys) : x[k] = y[k]
<1> DEFINE T == UNION {ToSet(x[k]) \union ToSet(y[k]) : k \in ToSet(keys)}
           first(z) == [i \in DOMAIN keys |-> z[keys[i]][1]]
<1>1. /\ Len(keys) \in Nat /\ DOMAIN keys = 1 .. Len(keys)
      /\ \A i \in DOMAIN keys : keys[i] \in ToSet(keys)
      /\ \A k \in ToSet(keys) : \E i \in DOMAIN keys : k = keys[i]
  BY LenProperties DEF ToSet
<1>2. ASSUME NEW z, z = x \/ z = y
      PROVE  Joined(keys, z) = first(z)
  <2> DEFINE seqs == [i \in DOMAIN keys |-> z[keys[i]]]
  <2>1. ASSUME NEW k \in ToSet(keys)
        PROVE  z[k] \in Seq(T) /\ Len(z[k]) = 1
    <3>1. z[k] \in Seq(ToSet(z[k])) /\ Len(z[k]) = 1
      BY <1>2 DEF Whole
    <3>2. ToSet(z[k]) \subseteq T
      BY <1>2
    <3> HIDE DEF T
    <3>3. z[k] \in [1 .. 1 -> ToSet(z[k])]
      BY <3>1, LenProperties
    <3>4. z[k] \in [1 .. 1 -> T]
      BY <3>2, <3>3
    <3>5. z[k] \in Seq(T)
      <4> DEFINE s == z[k]
      <4>1. s \in [1 .. 1 -> T]
        BY <3>4
      <4> HIDE DEF s
      <4>2. \E n \in Nat : s \in [1 .. n -> T]
        BY <4>1
      <4>3. s \in Seq(T)
        BY <4>2, SeqDef
      <4> QED
        BY <4>3 DEF s
    <3> QED
      BY <3>1, <3>5
  <2> HIDE DEF T
  <2>2. seqs \in [1 .. Len(keys) -> Seq(T)]
    BY <1>1, <2>1
  <2>3. seqs \in Seq(Seq(T))
    BY <1>1, <2>2, SeqDef
  <2>4. \A i \in DOMAIN seqs : Len(seqs[i]) = 1
    BY <1>1, <2>1
  <2>5. FlattenSeq(seqs) = [i \in DOMAIN seqs |-> seqs[i][1]]
    <3> HIDE DEF seqs
    <3> QED
      BY <2>3, <2>4, FlattenSingles
  <2>6. [i \in DOMAIN seqs |-> seqs[i][1]] = first(z)
    OBVIOUS
  <2> HIDE DEF first
  <2> QED
    BY <2>5, <2>6 DEF Joined
<1>3. ASSUME NEW k \in ToSet(keys)
      PROVE  x[k] = y[k] <=> x[k][1] = y[k][1]
  <2> DEFINE a == x[k]
             b == y[k]
  <2>1. /\ a \in Seq(ToSet(a)) /\ Len(a) = 1
        /\ b \in Seq(ToSet(b)) /\ Len(b) = 1
    BY DEF Whole
  <2> HIDE DEF a, b
  <2>2. /\ DOMAIN a = 1 .. 1 /\ a = [i \in DOMAIN a |-> a[i]]
        /\ DOMAIN b = 1 .. 1 /\ b = [i \in DOMAIN b |-> b[i]]
    BY <2>1, LenProperties
  <2>3. a = b <=> a[1] = b[1]
    BY <2>2
  <2> QED
    BY <2>3 DEF a, b
<1>4. first(x) = first(y) <=> \A i \in DOMAIN keys : x[keys[i]][1] = y[keys[i]][1]
  <2>1. \A i \in DOMAIN keys : /\ first(x)[i] = x[keys[i]][1]
                               /\ first(y)[i] = y[keys[i]][1]
    OBVIOUS
  <2>2. /\ DOMAIN first(x) = DOMAIN keys /\ DOMAIN first(y) = DOMAIN keys
        /\ first(x) = [i \in DOMAIN keys |-> first(x)[i]]
        /\ first(y) = [i \in DOMAIN keys |-> first(y)[i]]
    OBVIOUS
  <2> HIDE DEF first
  <2> QED
    BY <2>1, <2>2
<1>5. (\A k \in ToSet(keys) : x[k] = y[k])
        <=> \A i \in DOMAIN keys : x[keys[i]][1] = y[keys[i]][1]
  BY <1>1, <1>3
<1> HIDE DEF first
<1> QED
  BY <1>2, <1>4, <1>5

\* Entities that have every key, with values without a '|', make a forest of
\* levels.
LEMMA EntitiesMakeForests ==
  ASSUME NEW levels, NEW entities,
         levels \in Seq(Seq(KeysOf(levels))), Len(levels) >= 2,
         IsFiniteSet(entities), entities # {},
         LevelsRetainKeys(levels),
         \A e \in entities : \A k \in KeysOf(levels) : Whole(e, k)
  PROVE  LET g == Materialize(levels, entities) IN Accepts(g) /\ GatesPass(g)
<1> DEFINE g == Materialize(levels, entities)
           N == Len(levels)
           id(i, e) == NodeId(i, levels[i], e)
           E == g.edges
<1>1. /\ N \in Nat /\ N >= 2 /\ DOMAIN levels = 1 .. N
      /\ \A i \in 1 .. N : /\ levels[i] \in Seq(KeysOf(levels))
                           /\ ToSet(levels[i]) \subseteq KeysOf(levels)
  <2>1. /\ N \in Nat /\ N >= 2 /\ DOMAIN levels = 1 .. N
        /\ \A i \in 1 .. N : levels[i] \in Seq(KeysOf(levels))
    BY LenProperties, ElementOfSeq
  <2>2. \A i \in 1 .. N : levels[i] \in ToSet(levels)
    BY <2>1 DEF ToSet
  <2> QED
    BY <2>1, <2>2 DEF KeysOf
<1>2. \A i \in 1 .. N : \A e \in entities : \A k \in ToSet(levels[i]) : e[k] # <<>>
  <2> SUFFICES ASSUME NEW i \in 1 .. N, NEW e \in entities, NEW k \in ToSet(levels[i])
               PROVE  e[k] # <<>>
    OBVIOUS
  <2>1. k \in KeysOf(levels)
    BY <1>1
  <2>2. Len(e[k]) = 1
    BY <2>1 DEF Whole
  <2> DEFINE v == e[k]
  <2>3. ASSUME v = <<>>
        PROVE  Len(v) = 0
    BY <2>3
  <2>4. Len(v) = 1
    BY <2>2
  <2> HIDE DEF v
  <2>5. v # <<>>
    BY <2>3, <2>4
  <2> QED
    BY <2>5 DEF v
<1>3. Cardinality(DOMAIN levels) = N
  <2>1. Cardinality(1 .. N) = N
    BY <1>1, FS_Interval
  <2> QED
    BY <1>1, <2>1
<1>4. DOMAIN levels \ {Cardinality(DOMAIN levels)} = 1 .. (N - 1)
  BY <1>1, <1>3
<1>5. g.nodes = {id(i, e) : i \in 1 .. N, e \in entities}
  <2> DEFINE from(i) == {x \in entities : \A k \in ToSet(levels[i]) : x[k] # <<>>}
  <2>1. \A i \in 1 .. N : from(i) = entities
    BY <1>2
  <2>2. g.nodes = UNION {{id(i, e) : e \in from(i)} : i \in 1 .. N}
    BY <1>1 DEF Materialize, Graph
  <2> HIDE DEF g, from, id, N
  <2>3. g.nodes = UNION {{id(i, e) : e \in entities} : i \in 1 .. N}
    BY <2>1, <2>2
  <2>4. ASSUME NEW n \in g.nodes
        PROVE  n \in {id(i, e) : i \in 1 .. N, e \in entities}
    BY <2>3
  <2>5. ASSUME NEW i \in 1 .. N, NEW e \in entities
        PROVE  id(i, e) \in g.nodes
    <3> DEFINE row(j) == {id(j, x) : x \in entities}
    <3>1. g.nodes = UNION {row(j) : j \in 1 .. N}
      BY <2>3
    <3>2. id(i, e) \in row(i)
      OBVIOUS
    <3> HIDE DEF row
    <3> QED
      BY <3>1, <3>2
  <2> QED
    BY <2>4, <2>5
<1>6. E = {<<id(i, e), id(i + 1, e)>> : i \in 1 .. (N - 1), e \in entities}
  <2> DEFINE above == DOMAIN levels \ {Cardinality(DOMAIN levels)}
  <2>1. E = {<<id(i, e), id(i + 1, e)>> : i \in above, e \in entities}
    BY DEF Materialize, Graph
  <2>2. above = 1 .. (N - 1)
    BY <1>4
  <2> HIDE DEF id, g, above, N
  <2> QED
    BY <2>1, <2>2
<1>7. \A n \in g.nodes : g.level[n] = n[1]
  BY DEF Materialize, Graph
<1>8. \A i \in 1 .. N : \A e \in entities :
        id(i, e)[1] = i /\ id(i, e) = <<i, Joined(levels[i], e)>>
  BY DEF NodeId
<1> HIDE DEF g, id, N
<1>9. \A e \in E : \E i \in 1 .. (N - 1) : \E x \in entities : e = <<id(i, x), id(i + 1, x)>>
  BY <1>6
<1>10. ASSUME NEW e \in E
       PROVE  /\ e = <<e[1], e[2]>> /\ e[1] \in g.nodes /\ e[2] \in g.nodes
              /\ e[2][1] = e[1][1] + 1
  <2>1. PICK i \in 1 .. (N - 1), x \in entities : e = <<id(i, x), id(i + 1, x)>>
    BY <1>9
  <2>2. i \in 1 .. N /\ i + 1 \in 1 .. N
    BY <1>1
  <2> QED
    BY <1>5, <1>8, <2>1, <2>2
<1>11. \A n \in g.nodes : g.level[n] \in 1 .. N
  BY <1>5, <1>7, <1>8
<1>12. IsGraph(g) /\ g.nodes # {}
  <2>1. IsFiniteSet(g.nodes)
    <3> DEFINE A == (1 .. N) \X entities
    <3>1. IsFiniteSet(A)
      <4>1. IsFiniteSet(1 .. N)
        BY <1>1, FS_Interval
      <4> QED
        BY <4>1, FS_Product
    <3>2. g.nodes = {id(a[1], a[2]) : a \in A}
      <4>1. \A n \in g.nodes : n \in {id(a[1], a[2]) : a \in A}
        <5> SUFFICES ASSUME NEW i \in 1 .. N, NEW e \in entities
                     PROVE  id(i, e) \in {id(a[1], a[2]) : a \in A}
          BY <1>5
        <5>1. <<i, e>> \in A /\ id(<<i, e>>[1], <<i, e>>[2]) = id(i, e)
          OBVIOUS
        <5> QED
          BY <5>1
      <4>2. \A a \in A : id(a[1], a[2]) \in g.nodes
        BY <1>5
      <4> HIDE DEF A
      <4> QED
        BY <4>1, <4>2
    <3>3. IsFiniteSet({id(a[1], a[2]) : a \in A})
      <4> HIDE DEF A
      <4> DEFINE f == [a \in A |-> id(a[1], a[2])]
      <4>1. f \in Surjection(A, {id(a[1], a[2]) : a \in A})
        BY Fun_IsSurj
      <4> QED
        BY <3>1, <4>1, FS_Surjection
    <3> QED
      BY <3>2, <3>3
  <2>2. IsFiniteSet(E)
    <3>1. E \subseteq g.nodes \X g.nodes
      BY <1>10
    <3>2. IsFiniteSet(g.nodes \X g.nodes)
      BY <2>1, FS_Product
    <3> QED
      BY <3>1, <3>2, FS_Subset
  <2>3. g.nodes # {}
    <3>1. 1 \in 1 .. N
      BY <1>1
    <3>2. PICK e \in entities : TRUE
      OBVIOUS
    <3>3. id(1, e) \in g.nodes
      BY <1>5, <3>1
    <3> QED
      BY <3>3
  <2>4. \A n \in g.nodes : g.level[n] \in Nat
    BY <1>1, <1>11
  <2> QED
    BY <1>10, <2>1, <2>2, <2>3, <2>4 DEF IsGraph
<1>13. ASSUME NEW e \in E
       PROVE  g.level[e[2]] = g.level[e[1]] + 1
  BY <1>7, <1>10
\* The key of a node has those of its ancestors.
<1>14. ASSUME NEW d \in E, NEW e \in E, d[2] = e[2]
       PROVE  d = e
  <2>1. PICK i \in 1 .. (N - 1), x \in entities : d = <<id(i, x), id(i + 1, x)>>
    BY <1>9
  <2>2. PICK j \in 1 .. (N - 1), y \in entities : e = <<id(j, y), id(j + 1, y)>>
    BY <1>9
  <2>3. /\ i \in 1 .. N /\ i + 1 \in 1 .. N /\ j \in 1 .. N /\ j + 1 \in 1 .. N
        /\ i \in Nat /\ j \in Nat
    BY <1>1
  <2>4. id(i + 1, x) = id(j + 1, y)
    BY <1>14, <2>1, <2>2
  <2>5. i + 1 = j + 1
    BY <1>8, <2>3, <2>4
  <2>6. i = j
    BY <2>3, <2>5
  <2> DEFINE key(k, z) == Joined(levels[k], z)
  <2>7. key(i + 1, x) = key(i + 1, y)
    <3>1. id(i + 1, x) = <<i + 1, key(i + 1, x)>> /\ id(i + 1, y) = <<i + 1, key(i + 1, y)>>
      BY <1>8, <2>3
    <3> HIDE DEF key
    <3> QED
      BY <2>4, <2>6, <3>1
  <2>8. ToSet(levels[i]) \subseteq ToSet(levels[i + 1])
    <3>1. i \in DOMAIN levels /\ i + 1 \in DOMAIN levels /\ i < i + 1
      BY <1>1, <2>3
    <3> QED
      BY <3>1 DEF LevelsRetainKeys
  <2>9. ASSUME NEW l \in 1 .. N
        PROVE  key(l, x) = key(l, y) <=> \A k \in ToSet(levels[l]) : x[k] = y[k]
    <3>1. levels[l] \in Seq(KeysOf(levels))
      BY <1>1
    <3>2. \A k \in ToSet(levels[l]) : Whole(x, k) /\ Whole(y, k)
      BY <1>1
    <3> DEFINE keys == levels[l]
    <3>3. keys \in Seq(KeysOf(levels))
      BY <3>1
    <3>4. \A k \in ToSet(keys) : Whole(x, k) /\ Whole(y, k)
      BY <3>2
    <3> HIDE DEF keys
    <3>5. Joined(keys, x) = Joined(keys, y) <=> \A k \in ToSet(keys) : x[k] = y[k]
      BY ONLY <3>3, <3>4, JoinedTells
    <3> QED
      BY <3>5 DEF keys
  <2>10. key(i, x) = key(i, y)
    <3> HIDE DEF key
    <3> QED
      BY <2>3, <2>7, <2>8, <2>9
  <2>11. id(i, x) = id(i, y)
    <3>1. id(i, x) = <<i, key(i, x)>> /\ id(i, y) = <<i, key(i, y)>>
      BY <1>8, <2>3
    <3> HIDE DEF key
    <3> QED
      BY <2>10, <3>1
  <2> QED
    BY <2>1, <2>2, <2>4, <2>6, <2>11
<1>15. OneParentEach(g)
  <2> DEFINE levelsOf == {g.level[m] : m \in g.nodes}
  <2>1. Min(levelsOf) = 1
    <3>1. 1 \in levelsOf
      <4>1. PICK x \in entities : TRUE
        OBVIOUS
      <4>2. 1 \in 1 .. N
        BY <1>1
      <4>3. id(1, x) \in g.nodes /\ g.level[id(1, x)] = 1
        BY <1>5, <1>7, <1>8, <4>2
      <4> QED
        BY <4>3
    <3>2. \A l \in levelsOf : l \in Int /\ 1 <= l
      BY <1>11
    <3> HIDE DEF levelsOf
    <3> QED
      BY <3>1, <3>2 DEF Min
  <2>2. ASSUME NEW n \in g.nodes, g.level[n] > 1
        PROVE  Cardinality({e \in E : e[2] = n}) = 1
    <3>1. PICK i \in 1 .. N, x \in entities : n = id(i, x)
      BY <1>5
    <3>2. i > 1 /\ i - 1 \in 1 .. (N - 1) /\ (i - 1) + 1 = i
      BY <1>1, <1>7, <1>8, <2>2, <3>1
    <3> DEFINE d == <<id(i - 1, x), id(i, x)>>
    <3>3. d \in E /\ d[2] = n
      <4>1. <<id(i - 1, x), id((i - 1) + 1, x)>> \in E
        BY <1>6, <3>2
      <4> QED
        BY <3>1, <3>2, <4>1
    <3>4. {e \in E : e[2] = n} = {d}
      <4> HIDE DEF d
      <4> QED
        BY <1>14, <3>3
    <3> HIDE DEF d
    <3> QED
      BY <3>4, FS_Singleton
  <2> HIDE DEF levelsOf
  <2> QED
    BY <2>1, <2>2 DEF OneParentEach, levelsOf
<1>16. ~HasCycle(g)
  <2> SUFFICES ASSUME NEW e \in E, e[1] \in Reached(E, {e[2]})
               PROVE  FALSE
    BY DEF HasCycle
  <2> DEFINE X == {n \in g.nodes : g.level[e[2]] <= g.level[n]}
  <2>1. \A n \in g.nodes : g.level[n] \in Nat
    BY <1>12 DEF IsGraph
  <2>2. {e[2]} \subseteq X
    BY <1>10, <2>1
  <2>3. Closed(E, X)
    <3> SUFFICES ASSUME NEW d \in E, d[1] \in X
                 PROVE  d[2] \in X
      BY DEF Closed
    <3>1. /\ d[1] \in g.nodes /\ d[2] \in g.nodes /\ e[2] \in g.nodes
          /\ g.level[d[2]] = g.level[d[1]] + 1
      BY <1>10, <1>13
    <3>2. /\ g.level[d[1]] \in Nat /\ g.level[e[2]] \in Nat
          /\ g.level[e[2]] <= g.level[d[1]]
      BY <2>1, <3>1
    <3>3. g.level[e[2]] <= g.level[d[2]]
      BY <3>1, <3>2
    <3> QED
      BY <3>1, <3>3
  <2>4. Reached(E, {e[2]}) \subseteq X
    <3> HIDE DEF X
    <3> QED
      BY <1>12, <2>2, <2>3, ReachedClosed DEF IsGraph
  <2>5. g.level[e[2]] <= g.level[e[1]] /\ g.level[e[1]] \in Nat
    BY <1>10, <2>1, <2>4
  <2> QED
    BY <1>13, <2>5
<1>17. Accepts(g)
  BY <1>10, <1>12, <1>13, <1>15, LevelsAccepted
<1> QED
  BY <1>15, <1>16, <1>17 DEF GatesPass, g

\* The pipeline accepts exactly the forests; versions of entities with every
\* key, whose values hold no '|', are forests; graphs of levels that pass the
\* gates of the API are.
THEOREM HierarchiesAccepted == RulesSpec => []HierarchiesAreForests
<1>1. CaseChosen => HierarchiesAreForests
  <2> SUFFICES ASSUME CaseChosen
               PROVE  HierarchiesAreForests
    OBVIOUS
  <2>1. ASSUME case.topic = "graph", case.graph.nodes # {}
        PROVE  LET g == case.graph
               IN /\ Accepts(g) <=> IsForest(g)
                  /\ /\ \A e \in g.edges : {e[1], e[2]} \subseteq g.nodes
                     /\ \A e \in g.edges : g.level[e[2]] = g.level[e[1]] + 1
                     /\ GatesPass(g)
                     => Accepts(g)
    <3> DEFINE g == case.graph
    <3>1. case \in Cases
      BY <2>1 DEF CaseChosen, NoCase
    <3>2. IsGraph(g)
      BY <2>1, <3>1, CasesAssumption DEF IsGraph
    <3> HIDE DEF g
    <3>3. g.nodes # {}
      BY <2>1 DEF g
    <3>4. Accepts(g) <=> IsForest(g)
      BY <3>2, <3>3, AcceptsForests
    <3>5. ASSUME \A e \in g.edges : {e[1], e[2]} \subseteq g.nodes,
                 \A e \in g.edges : g.level[e[2]] = g.level[e[1]] + 1,
                 GatesPass(g)
          PROVE  Accepts(g)
      <4>1. \A e \in g.edges : e[1] \in g.nodes /\ e[2] \in g.nodes
        BY <3>5
      <4> QED
        BY <3>2, <3>3, <3>5, <4>1, LevelsAccepted DEF GatesPass
    <3> QED
      BY <3>4, <3>5 DEF g
  <2>2. ASSUME case.topic = "entities", case.entities # {},
               LevelsRetainKeys(case.levels),
               \A e \in case.entities : \A k \in KeysOf(case.levels) : Len(e[k]) = 1
        PROVE  LET g == Materialize(case.levels, case.entities)
               IN Accepts(g) /\ GatesPass(g)
    <3>1. case \in Cases
      BY <2>2 DEF CaseChosen, NoCase
    <3>2. /\ case.levels \in Seq(Seq(KeysOf(case.levels))) /\ Len(case.levels) >= 2
          /\ IsFiniteSet(case.entities)
          /\ \A e \in case.entities :
               /\ KeysOf(case.levels) \subseteq DOMAIN e
               /\ \A k \in DOMAIN e : e[k] \in Seq(ToSet(e[k]))
      BY <2>2, <3>1, CasesAssumption
    <3>4. \A e \in case.entities : \A k \in KeysOf(case.levels) : Whole(e, k)
      BY <2>2, <3>2 DEF Whole
    <3> DEFINE levels == case.levels
               entities == case.entities
    <3> HIDE DEF levels, entities
    <3>3. LET g == Materialize(levels, entities) IN Accepts(g) /\ GatesPass(g)
      BY <2>2, <3>2, <3>4, EntitiesMakeForests DEF levels, entities
    <3> QED
      BY <3>3 DEF levels, entities
  <2> QED
    BY <2>1, <2>2 DEF HierarchiesAreForests
<1> QED
  BY <1>1, CaseStays, PTL

-----------------------------------------------------------------------------
(* Pages.                                                                  *)

\* What rows are sorted by.
RowKeys == Int \X Int \X Int \X Int

Increasing(s) == \A i, j \in DOMAIN s : i < j => After(s[i], s[j])

\* The order of rows, and of what they forecast.
Beyond(c, r) ==
  \/ c[1] < r[1]
  \/ c[1] = r[1] /\ c[2] < r[2]
  \/ c[1] = r[1] /\ c[2] = r[2] /\ c[3] < r[3]

\* No two different rows are equal in the order.
LEMMA AfterMeans ==
  ASSUME NEW c \in RowKeys, NEW r \in RowKeys
  PROVE  After(c, r) <=> Beyond(c, r) \/ (Forecast(c) = Forecast(r) /\ c[4] < r[4])
<1>1. ASSUME After(c, r)
      PROVE  Beyond(c, r) \/ (Forecast(c) = Forecast(r) /\ c[4] < r[4])
  <2>1. PICK i \in 1 .. 4 : c[i] < r[i] /\ \A j \in 1 .. (i - 1) : c[j] = r[j]
    BY <1>1 DEF After
  <2>2. CASE i = 1
    BY <2>1, <2>2 DEF Beyond
  <2>3. CASE i = 2
    BY <2>1, <2>3 DEF Beyond
  <2>4. CASE i = 3
    BY <2>1, <2>4 DEF Beyond
  <2>5. CASE i = 4
    BY <2>1, <2>5 DEF Beyond, Forecast
  <2> QED
    BY <2>2, <2>3, <2>4, <2>5
<1>2. ASSUME Beyond(c, r) \/ (Forecast(c) = Forecast(r) /\ c[4] < r[4])
      PROVE  After(c, r)
  <2>1. CASE c[1] < r[1]
    BY <2>1 DEF After
  <2>2. CASE c[1] = r[1] /\ c[2] < r[2]
    <3>1. \A j \in 1 .. (2 - 1) : c[j] = r[j]
      BY <2>2
    <3> QED
      BY <2>2, <3>1 DEF After
  <2>3. CASE c[1] = r[1] /\ c[2] = r[2] /\ c[3] < r[3]
    <3>1. \A j \in 1 .. (3 - 1) : c[j] = r[j]
      BY <2>3
    <3> QED
      BY <2>3, <3>1 DEF After
  <2>4. CASE Forecast(c) = Forecast(r) /\ c[4] < r[4]
    <3>0. c[1] = r[1] /\ c[2] = r[2] /\ c[3] = r[3]
      BY <2>4 DEF Forecast
    <3>1. \A j \in 1 .. (4 - 1) : c[j] = r[j]
      BY <3>0
    <3> QED
      BY <2>4, <3>1 DEF After
  <2> QED
    BY <1>2, <2>1, <2>2, <2>3, <2>4 DEF Beyond
<1> QED
  BY <1>1, <1>2

\* The order of rows is total.
LEMMA AfterOrders ==
  /\ \A a, b \in RowKeys : a = b \/ After(a, b) \/ After(b, a)
  /\ \A a, b \in RowKeys : After(a, b) => ~After(b, a) /\ a # b
  /\ \A a, b, c \in RowKeys : After(a, b) /\ After(b, c) => After(a, c)
<1>1. ASSUME NEW a \in RowKeys
      PROVE  /\ a[1] \in Int /\ a[2] \in Int /\ a[3] \in Int /\ a[4] \in Int
             /\ a = <<a[1], a[2], a[3], a[4]>>
  BY DEF RowKeys
<1>2. \A a, b \in RowKeys :
        After(a, b) <=>
          \/ a[1] < b[1]
          \/ a[1] = b[1] /\ a[2] < b[2]
          \/ a[1] = b[1] /\ a[2] = b[2] /\ a[3] < b[3]
          \/ a[1] = b[1] /\ a[2] = b[2] /\ a[3] = b[3] /\ a[4] < b[4]
  BY AfterMeans DEF Beyond, Forecast
<1>3. ASSUME NEW a \in RowKeys, NEW b \in RowKeys
      PROVE  a = b \/ After(a, b) \/ After(b, a)
  <2>1. ASSUME ~After(a, b), ~After(b, a)
        PROVE  a[1] = b[1] /\ a[2] = b[2] /\ a[3] = b[3] /\ a[4] = b[4]
    BY <1>1, <1>2, <2>1
  <2> QED
    BY <1>1, <2>1
<1>4. ASSUME NEW a \in RowKeys, NEW b \in RowKeys, After(a, b)
      PROVE  ~After(b, a) /\ a # b
  BY <1>1, <1>2, <1>4
<1>5. ASSUME NEW a \in RowKeys, NEW b \in RowKeys, NEW c \in RowKeys, After(a, b), After(b, c)
      PROVE  After(a, c)
  BY <1>1, <1>2, <1>5
<1> QED
  BY <1>3, <1>4, <1>5

\* Rows in a strict order are in order of their ranks.
LEMMA IncreasingIsInOrder ==
  ASSUME NEW s \in Seq(RowKeys), Increasing(s)
  PROVE  IsFiniteSet(ToSet(s)) /\ Cardinality(ToSet(s)) = Len(s) /\ s = InOrder(ToSet(s))
<1> DEFINE n == Len(s)
           S == ToSet(s)
           below(i) == {r \in S : After(r, s[i])}
<1>1. n \in Nat /\ DOMAIN s = 1 .. n /\ \A i \in 1 .. n : s[i] \in RowKeys
  BY LenProperties, ElementOfSeq
<1>2. \A i, j \in 1 .. n : After(s[i], s[j]) => i < j
  BY <1>1, AfterOrders DEF Increasing
<1>3. ASSUME NEW m \in 0 .. n
      PROVE  /\ IsFiniteSet({s[i] : i \in 1 .. m})
             /\ Cardinality({s[i] : i \in 1 .. m}) = m
  <2> DEFINE T == {s[i] : i \in 1 .. m}
             f == [i \in 1 .. m |-> s[i]]
  <2>1. IsFiniteSet(1 .. m) /\ Cardinality(1 .. m) = m
    BY <1>1, FS_Interval
  <2>2. f \in [1 .. m -> T] /\ \A t \in T : \E i \in 1 .. m : f[i] = t
    OBVIOUS
  <2>3. \A i, j \in 1 .. m : f[i] = f[j] => i = j
    BY <1>1, AfterOrders DEF Increasing
  <2> HIDE DEF T, f
  <2>4. IsFiniteSet(T) /\ Cardinality(T) = Cardinality(1 .. m)
    BY <2>1, <2>2, <2>3, SameSize
  <2> QED
    BY <2>1, <2>4 DEF T
<1>4. S = {s[i] : i \in 1 .. n}
  BY <1>1 DEF ToSet
<1>5. IsFiniteSet(S) /\ Cardinality(S) = n
  <2>1. n \in 0 .. n
    BY <1>1
  <2> HIDE DEF S, n
  <2> QED
    BY <1>3, <1>4, <2>1
<1>6. ASSUME NEW i \in 1 .. n
      PROVE  Cardinality(below(i)) = i - 1
  <2>1. below(i) = {s[j] : j \in 1 .. (i - 1)}
    BY <1>1, <1>2, <1>4 DEF Increasing
  <2>2. i - 1 \in 0 .. n
    BY <1>1
  <2> HIDE DEF below
  <2> QED
    BY <1>3, <2>1, <2>2
<1>7. ASSUME NEW i \in 1 .. n
      PROVE  s[i] = CHOOSE r \in S : Cardinality({t \in S : After(t, r)}) = i - 1
  <2>1. s[i] \in S /\ Cardinality({t \in S : After(t, s[i])}) = i - 1
    BY <1>4, <1>6
  <2>2. ASSUME NEW r \in S, Cardinality({t \in S : After(t, r)}) = i - 1
        PROVE  r = s[i]
    <3>1. PICK j \in 1 .. n : r = s[j]
      BY <1>4
    <3>2. Cardinality(below(j)) = i - 1 /\ Cardinality(below(j)) = j - 1
      BY <1>6, <2>2, <3>1
    <3>3. i = j
      BY <1>1, <3>2
    <3> QED
      BY <3>1, <3>3
  <2> QED
    BY <2>1, <2>2
<1>8. s = [i \in 1 .. n |-> s[i]]
  BY <1>1
<1>9. InOrder(S) = [i \in 1 .. n |->
                      CHOOSE r \in S : Cardinality({t \in S : After(t, r)}) = i - 1]
  BY <1>5 DEF InOrder
<1> QED
  BY <1>5, <1>7, <1>8, <1>9

\* Rows have ranks, from which they are put in order.
LEMMA InOrderIncreases ==
  ASSUME NEW S, IsFiniteSet(S), S \subseteq RowKeys
  PROVE  /\ InOrder(S) \in Seq(S) /\ Len(InOrder(S)) = Cardinality(S)
         /\ ToSet(InOrder(S)) = S /\ Increasing(InOrder(S))
<1> DEFINE n == Cardinality(S)
           below(r) == {t \in S : After(t, r)}
           rank == [r \in S |-> Cardinality(below(r))]
<1>1. n \in Nat
  BY FS_CardinalityType
<1>2. \A r \in S : IsFiniteSet(below(r)) /\ Cardinality(below(r)) \in Nat
  <2> TAKE r \in S
  <2>1. IsFiniteSet(below(r))
    BY FS_Subset
  <2> QED
    BY <2>1, FS_CardinalityType
<1>3. ASSUME NEW a \in S, NEW b \in S, After(a, b)
      PROVE  rank[a] < rank[b]
  <2>1. below(a) \subseteq below(b) \ {a}
    BY <1>3, AfterOrders
  <2>2. a \in below(b)
    BY <1>3
  <2> HIDE DEF below
  <2>3. IsFiniteSet(below(b) \ {a}) /\ Cardinality(below(b) \ {a}) = Cardinality(below(b)) - 1
    BY <1>2, <2>2, FS_RemoveElement
  <2>4. Cardinality(below(a)) <= Cardinality(below(b) \ {a})
    BY <2>1, <2>3, FS_Subset
  <2> QED
    BY <1>2, <2>3, <2>4
<1>4. ASSUME NEW a \in S
      PROVE  rank[a] \in 0 .. (n - 1)
  <2>1. below(a) \subseteq S \ {a}
    BY AfterOrders
  <2>2. IsFiniteSet(S \ {a}) /\ Cardinality(S \ {a}) = n - 1
    BY FS_RemoveElement
  <2> HIDE DEF below, n
  <2>3. Cardinality(below(a)) <= Cardinality(S \ {a})
    BY <2>1, <2>2, FS_Subset
  <2> QED
    BY <1>1, <1>2, <2>2, <2>3
<1>5. \A a, b \in S : rank[a] = rank[b] => a = b
  <2> SUFFICES ASSUME NEW a \in S, NEW b \in S, rank[a] = rank[b], a # b
               PROVE  FALSE
    OBVIOUS
  <2>1. After(a, b) \/ After(b, a)
    BY AfterOrders
  <2>2. rank[a] < rank[b] \/ rank[b] < rank[a]
    BY <1>3, <2>1
  <2>3. rank[a] \in Int /\ rank[b] \in Int
    BY <1>4
  <2> HIDE DEF rank
  <2> QED
    BY <2>2, <2>3
<1>6. \A k \in 0 .. (n - 1) : \E r \in S : rank[r] = k
  <2> DEFINE R == {rank[r] : r \in S}
  <2>1. rank \in [S -> R] /\ \A k \in R : \E r \in S : rank[r] = k
    OBVIOUS
  <2>2. R \subseteq 0 .. (n - 1)
    BY <1>4
  <2>3. IsFiniteSet(0 .. (n - 1)) /\ Cardinality(0 .. (n - 1)) = n
    <3>1. 0 <= n - 1 \/ n = 0
      BY <1>1
    <3>2. (n - 1) - 0 + 1 = n
      BY <1>1
    <3> QED
      BY <1>1, <3>1, <3>2, FS_Interval, FS_EmptySet
  <2> HIDE DEF R, rank
  <2>4. Cardinality(R) = n
    BY <1>5, <2>1, SameSize
  <2>5. R = 0 .. (n - 1)
    BY <2>2, <2>3, <2>4, FS_Subset
  <2> QED
    BY <2>1, <2>5
<1> DEFINE s == InOrder(S)
<1>7. ASSUME NEW i \in 1 .. n
      PROVE  s[i] \in S /\ rank[s[i]] = i - 1
  <2>1. s[i] = CHOOSE r \in S : Cardinality(below(r)) = i - 1
    BY DEF InOrder
  <2>2. i - 1 \in 0 .. (n - 1)
    BY <1>1
  <2>3. PICK r \in S : rank[r] = i - 1
    BY <1>6, <2>2
  <2>4. Cardinality(below(r)) = i - 1
    BY <2>3
  <2>5. s[i] \in S /\ Cardinality(below(s[i])) = i - 1
    <3> HIDE DEF s, below
    <3> QED
      BY <2>1, <2>4
  <2> HIDE DEF s
  <2> QED
    BY <2>5
<1>8. s \in [1 .. n -> S]
  <2>1. s = [i \in 1 .. n |-> CHOOSE r \in S : Cardinality({t \in S : After(t, r)}) = i - 1]
    BY DEF InOrder
  <2> HIDE DEF s
  <2> QED
    BY <1>7, <2>1
<1> HIDE DEF s, rank, n
<1>9. s \in Seq(S) /\ Len(s) = n /\ DOMAIN s = 1 .. n
  BY <1>1, <1>8, SeqDef, LenProperties
<1>10. Increasing(s)
  <2> SUFFICES ASSUME NEW i \in 1 .. n, NEW j \in 1 .. n, i < j
               PROVE  After(s[i], s[j])
    BY <1>9 DEF Increasing
  <2>1. rank[s[i]] = i - 1 /\ rank[s[j]] = j - 1 /\ s[i] \in S /\ s[j] \in S
    BY <1>7
  <2>2. s[i] # s[j] /\ ~(rank[s[j]] < rank[s[i]])
    BY <1>1, <2>1
  <2>3. ~After(s[j], s[i])
    BY <1>3, <2>1, <2>2
  <2> QED
    BY <2>1, <2>2, <2>3, AfterOrders
<1>11. ToSet(s) = S
  <2>1. \A r \in S : \E i \in 1 .. n : s[i] = r
    <3> TAKE r \in S
    <3>1. rank[r] \in 0 .. (n - 1) /\ rank[r] + 1 \in 1 .. n
      BY <1>1, <1>4
    <3>2. rank[s[rank[r] + 1]] = rank[r] /\ s[rank[r] + 1] \in S
      BY <1>1, <1>7, <3>1
    <3> QED
      BY <1>5, <3>1, <3>2
  <2>2. ToSet(s) = {s[i] : i \in 1 .. n}
    BY <1>9 DEF ToSet
  <2> QED
    BY <1>7, <2>1, <2>2
<1> QED
  BY <1>9, <1>10, <1>11 DEF s, n

\* A page of these rows: all when they are few, else those up to its last.
IsPage(page, S, limit) ==
  /\ page \in Seq(RowKeys) /\ Increasing(page) /\ ToSet(page) \subseteq S
  /\ Cardinality(S) \in Nat
  /\ Cardinality(S) <= limit => ToSet(page) = S
  /\ Cardinality(S) > limit =>
       /\ Len(page) = limit
       /\ ToSet(page) = {r \in S : ~After(page[Len(page)], r)}

\* The first rows in order are a page.
LEMMA PageFacts ==
  ASSUME NEW S, IsFiniteSet(S), S \subseteq RowKeys, NEW limit \in Nat \ {0},
         NEW page,
         page = SubSeq(InOrder(S), 1, IF Len(InOrder(S)) < limit THEN Len(InOrder(S))
                                      ELSE limit)
  PROVE  IsPage(page, S, limit)
<1> DEFINE s == InOrder(S)
           n == Len(s)
           m == IF n < limit THEN n ELSE limit
<1>1. /\ s \in Seq(S) /\ n = Cardinality(S) /\ ToSet(s) = S /\ Increasing(s)
  BY InOrderIncreases
<1>2. /\ n \in Nat /\ DOMAIN s = 1 .. n /\ S = {s[i] : i \in 1 .. n}
      /\ \A i \in 1 .. n : s[i] \in S
  <2>1. n \in Nat /\ DOMAIN s = 1 .. n
    BY <1>1, LenProperties
  <2>2. S = {s[i] : i \in 1 .. n}
    BY <1>1, <2>1 DEF ToSet
  <2> HIDE DEF s, n
  <2> QED
    BY <2>1, <2>2
<1> HIDE DEF s, n
<1>3. m \in 0 .. n /\ page = SubSeq(s, 1, m)
  BY <1>2 DEF s, n
<1> HIDE DEF m
<1>4. page \in Seq(S) /\ Len(page) = m /\ \A i \in 1 .. m : page[i] = s[i]
  BY <1>1, <1>3, FirstOnes DEF n
<1>5. DOMAIN page = 1 .. m /\ ToSet(page) = {s[i] : i \in 1 .. m}
  <2>1. DOMAIN page = 1 .. m
    BY <1>4, LenProperties
  <2> QED
    BY <1>4, <2>1 DEF ToSet
<1>6. page \in Seq(RowKeys)
  <2>1. ASSUME NEW i \in 1 .. m
        PROVE  page[i] \in RowKeys
    <3>1. i \in 1 .. n
      BY <1>2, <1>3
    <3>2. page[i] = s[i] /\ s[i] \in S
      BY <1>2, <1>4, <3>1
    <3> QED
      BY <3>2
  <2> QED
    BY <1>3, <1>4, <1>5, <2>1, IsASeq
<1>7. \A i, j \in 1 .. n : i < j => After(s[i], s[j])
  BY <1>1, <1>2 DEF Increasing
<1>8. Increasing(page) /\ ToSet(page) \subseteq S
  <2>1. \A i \in 1 .. m : i \in 1 .. n
    BY <1>2, <1>3
  <2>2. ToSet(page) \subseteq S
    BY <1>2, <1>5, <2>1
  <2>3. ASSUME NEW i \in 1 .. m, NEW j \in 1 .. m, i < j
        PROVE  After(page[i], page[j])
    <3>1. page[i] = s[i] /\ page[j] = s[j]
      BY <1>4
    <3> QED
      BY <1>7, <2>1, <2>3, <3>1
  <2> QED
    BY <1>5, <2>2, <2>3 DEF Increasing
<1>9. ASSUME n <= limit
      PROVE  ToSet(page) = S
  <2>1. m = n
    BY <1>2, <1>9 DEF m
  <2> QED
    BY <1>2, <1>5, <2>1
<1>10. ASSUME n > limit
       PROVE  /\ Len(page) = limit
              /\ ToSet(page) = {r \in S : ~After(page[Len(page)], r)}
  <2>1. m = limit /\ m \in 1 .. n
    BY <1>2, <1>10 DEF m
  <2>2. page[Len(page)] = s[m]
    BY <1>4, <2>1
  <2>3. ASSUME NEW i \in 1 .. n
        PROVE  i <= m <=> ~After(s[m], s[i])
    <3>1. i = m \/ i < m \/ m < i
      BY <1>2, <2>1
    <3>2. s[i] \in RowKeys /\ s[m] \in RowKeys
      BY <1>2, <2>1
    <3>3. CASE i = m
      BY <2>1, <3>2, <3>3, AfterOrders
    <3>4. CASE i < m
      <4>1. After(s[i], s[m])
        BY <1>7, <2>1, <3>4
      <4> QED
        BY <1>2, <2>1, <3>2, <3>4, <4>1, AfterOrders
    <3>5. CASE m < i
      <4>1. After(s[m], s[i])
        BY <1>7, <2>1, <3>5
      <4> QED
        BY <1>2, <2>1, <3>5, <4>1
    <3> QED
      BY <3>1, <3>3, <3>4, <3>5
  <2>4. {s[i] : i \in 1 .. m} = {r \in S : ~After(s[m], r)}
    <3>1. \A i \in 1 .. m : i \in 1 .. n /\ i <= m
      BY <1>2, <2>1
    <3>2. \A i \in 1 .. n : i <= m => i \in 1 .. m
      BY <2>1
    <3> QED
      BY <1>2, <2>3, <3>1, <3>2
  <2> QED
    BY <1>4, <1>5, <2>1, <2>2, <2>4
<1> QED
  BY <1>1, <1>2, <1>6, <1>8, <1>9, <1>10 DEF IsPage

VersionsRead == {reader.pages[i].version : i \in DOMAIN reader.pages}

Wanted(v) == {r \in Versions[v].rows : Matches(reader.request, r)}

\* Complete versions of one run.
OfOneRun(versions) ==
  \A v, w \in versions : Versions[v].run = Versions[w].run /\ HasAnnouncedRows(v)

\* Everything wanted that is not after the token has been read: itself when
\* there is one version, else its forecast.
Covering ==
  /\ \A v \in VersionsRead : VersionsRead = {v} =>
       ToSet(RowsRead) = {r \in Wanted(v) : reader.token # Absent => ~After(reader.token, r)}
  /\ OfOneRun(VersionsRead) =>
       \A v \in VersionsRead : \A r \in Wanted(v) :
         (reader.token # Absent => ~Beyond(reader.token, r)) =>
           \E s \in ToSet(RowsRead) : Forecast(s) = Forecast(r)

\* The token is the last row that was read.
Continues ==
  /\ reader.state = "reading" /\ reader.pages # <<>> =>
       RowsRead # <<>> /\ reader.token = RowsRead[Len(RowsRead)]
  /\ reader.state = "read" \/ reader.pages = <<>> => reader.token = Absent

PageSet == [version : DOMAIN Versions, rows : Seq(RowKeys)]

\* What a reading knows of itself, whatever is published meanwhile.
ReadsInv ==
  /\ shown \in 0 .. Len(Versions)
  /\ reader.state \in {"idle", "reading", "read", "refused"}
  /\ reader.state # "idle" =>
       reader \in [request : Requests, token : RowKeys \union {Absent},
                   pages : Seq(PageSet), state : {"reading", "read", "refused"}]
  /\ reader.state \in {"reading", "read"} =>
       /\ Increasing(RowsRead)
       /\ reader.request.mode # "explorer" =>
            \A v \in VersionsRead : HasAnnouncedRows(v)
       /\ Continues
       /\ Covering

\* What the assumption says of a version.
LEMMA VersionFacts ==
  /\ Len(Versions) \in Nat /\ DOMAIN Versions = 1 .. Len(Versions)
  /\ \A v \in DOMAIN Versions :
       /\ IsFiniteSet(Versions[v].rows) /\ Versions[v].rows \subseteq RowKeys
       /\ \A r, s \in Versions[v].rows : Forecast(r) = Forecast(s) => r = s
  /\ Absent \notin RowKeys
<1>1. /\ Len(Versions) \in Nat /\ DOMAIN Versions = 1 .. Len(Versions)
      /\ \A v \in DOMAIN Versions : Versions[v] \in ToSet(Versions)
  BY ReadsAssumption, LenProperties, ElementOfSeq
<1> QED
  BY <1>1, ReadsAssumption DEF RowKeys

\* A request is resolved to a version that is published, or to none.
LEMMA ScopeFacts ==
  ASSUME shown \in 0 .. Len(Versions), NEW q \in Requests, Scope(q) # 0
  PROVE  Scope(q) \in DOMAIN Versions
<1> DEFINE candidates == CASE q.mode = "current" -> 1 .. shown
                           [] q.mode = "version" -> {q.version} \intersect (1 .. shown)
                           [] q.mode = "explorer" ->
                                {v \in 1 .. shown : Versions[v].run = q.run}
<1>1. Scope(q) = CHOOSE v \in candidates \union {0} : \A w \in candidates : w <= v
  BY DEF Scope
<1>2. shown \in Nat /\ shown <= Len(Versions)
  BY VersionFacts
<1>3. candidates \subseteq 1 .. shown
  BY ReadsAssumption
<1> HIDE DEF candidates
<1>4. \E v \in candidates \union {0} : \A w \in candidates : w <= v
  <2> DEFINE f == [v \in candidates |-> v]
  <2>1. CASE candidates = {}
    BY <2>1
  <2>2. CASE candidates # {}
    <3>1. f \in [candidates -> Nat] /\ \A v \in candidates : f[v] <= shown
      BY <1>2, <1>3
    <3> HIDE DEF f
    <3>2. PICK v \in candidates : \A w \in candidates : f[w] <= f[v]
      BY <1>2, <2>2, <3>1, LatestExists
    <3> QED
      BY <3>2 DEF f
  <2> QED
    BY <2>1, <2>2
<1>5. Scope(q) \in candidates \union {0}
  BY <1>1, <1>4
<1>6. Scope(q) \in 1 .. shown
  BY <1>3, <1>5
<1> HIDE DEF Scope
<1> QED
  BY <1>2, <1>6, VersionFacts

\* Rows that follow the last one.
LEMMA IncreasingConcat ==
  ASSUME NEW s \in Seq(RowKeys), NEW t \in Seq(RowKeys), Increasing(s), Increasing(t),
         s # <<>> => \A r \in ToSet(t) : After(s[Len(s)], r)
  PROVE  Increasing(s \o t)
<1> DEFINE m == Len(s)
           n == Len(t)
           u == s \o t
<1>1. /\ m \in Nat /\ n \in Nat /\ DOMAIN s = 1 .. m /\ DOMAIN t = 1 .. n
      /\ \A i \in 1 .. m : s[i] \in RowKeys
      /\ \A i \in 1 .. n : t[i] \in RowKeys /\ t[i] \in ToSet(t)
  BY LenProperties, ElementOfSeq DEF ToSet
<1>2. /\ Len(u) = m + n /\ \A i \in 1 .. m : u[i] = s[i]
      /\ \A i \in 1 .. n : u[m + i] = t[i]
      /\ DOMAIN u = 1 .. m + n
  <2>1. u \in Seq(RowKeys) /\ Len(u) = m + n
    BY ElementsOfConcat
  <2> QED
    BY <2>1, ElementsOfConcat, LenProperties
<1>3. s # <<>> => m \in 1 .. m
  BY <1>1, EmptySeq
<1>4. m # 0 => s # <<>>
  OBVIOUS
<1> HIDE DEF m, n, u
<1>5. ASSUME NEW i \in 1 .. m, NEW j \in 1 .. n
      PROVE  After(s[i], t[j])
  <2>1. After(s[m], t[j]) /\ m \in 1 .. m
    BY <1>1, <1>3, <1>4 DEF m
  <2>2. CASE i = m
    BY <2>1, <2>2
  <2>3. CASE i # m
    <3>1. After(s[i], s[m])
      BY <1>1, <2>1, <2>3 DEF Increasing
    <3> QED
      BY <1>1, <2>1, <3>1, AfterOrders
  <2> QED
    BY <2>2, <2>3
<1> SUFFICES ASSUME NEW i \in 1 .. m + n, NEW j \in 1 .. m + n, i < j
             PROVE  After(u[i], u[j])
  BY <1>2 DEF Increasing, u
<1>6. CASE j <= m
  <2>1. i \in 1 .. m /\ j \in 1 .. m
    BY <1>1, <1>6
  <2> QED
    BY <1>1, <1>2, <2>1 DEF Increasing
<1>7. CASE i <= m /\ ~(j <= m)
  <2>1. i \in 1 .. m /\ j - m \in 1 .. n /\ m + (j - m) = j
    BY <1>1, <1>7
  <2>2. u[j] = t[j - m] /\ u[i] = s[i]
    BY <1>2, <2>1
  <2> QED
    BY <1>5, <2>1, <2>2
<1>8. CASE ~(i <= m)
  <2>1. /\ i - m \in 1 .. n /\ m + (i - m) = i /\ j - m \in 1 .. n /\ m + (j - m) = j
        /\ i - m < j - m
    BY <1>1, <1>8
  <2>2. u[j] = t[j - m] /\ u[i] = t[i - m]
    BY <1>2, <2>1
  <2> QED
    BY <1>1, <2>1, <2>2 DEF Increasing
<1> QED
  BY <1>6, <1>7, <1>8

\* A row of one version has its like in another.
LEMMA ForecastsAgree ==
  ASSUME NEW versions, versions \subseteq DOMAIN Versions, OfOneRun(versions),
         NEW v \in versions, NEW w \in versions, NEW r \in Wanted(v)
  PROVE  \E s \in Wanted(w) : Forecast(s) = Forecast(r)
<1>1. {Forecast(x) : x \in Versions[v].rows} = {Forecast(x) : x \in Versions[w].rows}
  BY ReadsAssumption DEF OfOneRun
<1>2. r \in Versions[v].rows /\ Matches(reader.request, r)
  BY DEF Wanted
<1>3. PICK s \in Versions[w].rows : Forecast(s) = Forecast(r)
  <2>1. Forecast(r) \in {Forecast(x) : x \in Versions[w].rows}
    BY <1>1, <1>2
  <2> QED
    BY <2>1
<1>4. s[1] = r[1] /\ s[2] = r[2] /\ s[3] = r[3]
  BY <1>3 DEF Forecast
<1> QED
  BY <1>2, <1>3, <1>4 DEF Matches, Wanted

\* The pages of rows that were read.
RowPages == [i \in DOMAIN reader.pages |-> reader.pages[i].rows]

\* What is read when a page is added.
LEMMA PageAdded ==
  ASSUME NEW page \in Seq(RowKeys), NEW v \in DOMAIN Versions,
         reader.pages \in Seq(PageSet),
         reader'.pages = Append(reader.pages, [version |-> v, rows |-> page])
  PROVE  /\ RowsRead \in Seq(RowKeys) /\ RowsRead' = RowsRead \o page
         /\ VersionsRead' = VersionsRead \union {v}
         /\ reader'.pages \in Seq(PageSet)
         /\ reader'.pages # <<>>
         /\ VersionsRead \subseteq DOMAIN Versions
         /\ VersionsRead = {} <=> reader.pages = <<>>
         /\ reader.pages = <<>> => RowsRead = <<>>
<1> DEFINE n == Len(reader.pages)
           one == [version |-> v, rows |-> page]
           pages == reader.pages
           more == Append(pages, one)
           seqs == [i \in DOMAIN pages |-> pages[i].rows]
<1>1. one \in PageSet
  BY DEF PageSet
<1>2. /\ n \in Nat /\ DOMAIN pages = 1 .. n
      /\ \A i \in 1 .. n : pages[i] \in PageSet
  BY LenProperties, ElementOfSeq
<1>3. /\ more \in Seq(PageSet) /\ Len(more) = n + 1 /\ DOMAIN more = 1 .. n + 1
      /\ \A i \in 1 .. n : more[i] = pages[i]
      /\ more[n + 1] = one
  BY <1>1, AppendProperties, LenProperties
<1>4. seqs \in Seq(Seq(RowKeys)) /\ Len(seqs) = n
  <2>1. \A i \in 1 .. n : pages[i].rows \in Seq(RowKeys)
    BY <1>2 DEF PageSet
  <2>2. seqs \in [1 .. n -> Seq(RowKeys)]
    BY <1>2, <2>1
  <2> HIDE DEF seqs, n
  <2> QED
    BY <1>2, <2>2, SeqDef, LenProperties
<1>5. RowsRead = FlattenSeq(seqs) /\ RowsRead \in Seq(RowKeys)
  <2>1. RowsRead = FlattenSeq(seqs)
    BY DEF RowsRead
  <2> HIDE DEF seqs
  <2> QED
    BY <1>4, <2>1, FlattenFills
<1>6. RowsRead' = FlattenSeq(Append(seqs, page))
  <2> DEFINE both == [i \in DOMAIN more |-> more[i].rows]
             flat == Append(seqs, page)
  <2>1. both = [i \in 1 .. n + 1 |-> more[i].rows]
    BY <1>3
  <2>2. /\ Len(flat) = n + 1 /\ flat \in Seq(Seq(RowKeys))
        /\ \A i \in 1 .. n : flat[i] = seqs[i]
        /\ flat[n + 1] = page
    <3> HIDE DEF seqs, n
    <3> QED
      BY <1>4, AppendProperties
  <2>3. \A i \in 1 .. n : seqs[i] = pages[i].rows
    BY <1>2
  <2> HIDE DEF more, flat, seqs, n, pages
  <2>4. ASSUME NEW i \in 1 .. n + 1
        PROVE  both[i] = flat[i]
    <3>1. CASE i \in 1 .. n
      BY <1>3, <2>1, <2>2, <2>3, <3>1
    <3>2. CASE i \notin 1 .. n
      <4>1. i = n + 1
        BY <1>2, <3>2
      <4> QED
        BY <1>3, <2>1, <2>2, <4>1
    <3> QED
      BY <3>1, <3>2
  <2>5. flat = [i \in 1 .. n + 1 |-> flat[i]]
    BY <2>2, LenProperties
  <2>6. both = flat
    BY <2>1, <2>4, <2>5
  <2>7. RowsRead' = FlattenSeq(both)
    BY DEF RowsRead, more, pages
  <2> QED
    BY <2>6, <2>7 DEF flat
<1>7. RowsRead' = RowsRead \o page
  <2> HIDE DEF seqs
  <2> QED
    BY <1>4, <1>5, <1>6, FlattenAppend
<1>8. VersionsRead' = VersionsRead \union {v}
  <2>1. VersionsRead' = {more[i].version : i \in 1 .. n + 1}
    BY <1>3 DEF VersionsRead
  <2>2. VersionsRead = {pages[i].version : i \in 1 .. n}
    BY <1>2 DEF VersionsRead
  <2>3. \A i \in 1 .. n + 1 : i \in 1 .. n \/ i = n + 1
    BY <1>2
  <2>4. (1 .. n) \subseteq 1 .. n + 1 /\ n + 1 \in 1 .. n + 1
    BY <1>2
  <2> HIDE DEF more, n, pages
  <2>5. more[n + 1].version = v
    BY <1>3
  <2> HIDE DEF one
  <2>6. \A w \in VersionsRead' : w \in VersionsRead \union {v}
    BY <1>3, <2>1, <2>2, <2>3, <2>5
  <2>7. \A w \in VersionsRead : w \in VersionsRead'
    BY <1>3, <2>1, <2>2, <2>4
  <2>8. v \in VersionsRead'
    BY <2>1, <2>4, <2>5
  <2> QED
    BY <2>6, <2>7, <2>8
<1>9. VersionsRead \subseteq DOMAIN Versions
  BY <1>2 DEF VersionsRead, PageSet
<1>10. VersionsRead = {} <=> pages = <<>>
  <2>1. pages = <<>> <=> n = 0
    BY EmptySeq
  <2>2. n = 0 => VersionsRead = {}
    BY <1>2 DEF VersionsRead
  <2>3. n # 0 => pages[1].version \in VersionsRead
    BY <1>2 DEF VersionsRead
  <2> QED
    BY <2>1, <2>2, <2>3
<1>11. ASSUME pages = <<>>
       PROVE  RowsRead = <<>>
  <2>1. n = 0
    BY <1>11, EmptySeq
  <2>2. seqs = <<>>
    BY <1>2, <2>1
  <2> HIDE DEF seqs
  <2> QED
    BY <1>5, <2>2 DEF FlattenSeq
<1>12. more # <<>>
  <2>1. Len(more) # 0
    BY <1>2, <1>3
  <2> HIDE DEF more
  <2> QED
    BY <2>1
<1> QED
  BY <1>3, <1>5, <1>7, <1>8, <1>9, <1>10, <1>11, <1>12

\* A page that is read continues what was read before, and leaves nothing out.
LEMMA ReadPageStep ==
  ASSUME ReadsInv, ReadPage
  PROVE  ReadsInv'
<1> DEFINE q == reader.request
           v == Scope(q)
           token == reader.token
           S == Rest(q, v, token)
           page == Page(q, v, token)
           more == Cardinality(S) > q.limit
           next == IF more THEN page[Len(page)] ELSE Absent
<1>1. /\ reader.state = "reading" /\ v # 0 /\ Complete(q, v) /\ shown' = shown
      /\ reader' = [reader EXCEPT
           !.pages = Append(@, [version |-> v, rows |-> page]),
           !.token = next,
           !.state = IF more THEN "reading" ELSE "read"]
  BY DEF ReadPage
<1>2. /\ shown \in 0 .. Len(Versions)
      /\ reader \in [request : Requests, token : RowKeys \union {Absent},
                     pages : Seq(PageSet), state : {"reading", "read", "refused"}]
      /\ Increasing(RowsRead) /\ Continues /\ Covering
      /\ q.mode # "explorer" => \A w \in VersionsRead : HasAnnouncedRows(w)
  BY <1>1 DEF ReadsInv
<1>3. /\ reader'.request = q /\ reader'.token = next
      /\ reader'.pages = Append(reader.pages, [version |-> v, rows |-> page])
      /\ reader'.state = IF more THEN "reading" ELSE "read"
      /\ reader' = [request |-> q, token |-> next,
                    pages |-> Append(reader.pages, [version |-> v, rows |-> page]),
                    state |-> IF more THEN "reading" ELSE "read"]
  <2> HIDE DEF q, v, token, S, page, more, next
  <2> QED
    BY <1>1, <1>2 DEF q
<1>4. q \in Requests /\ q.limit \in Nat \ {0} /\ token \in RowKeys \union {Absent}
  BY <1>2, ReadsAssumption
<1>5. v \in DOMAIN Versions
  BY <1>1, <1>2, <1>4, ScopeFacts
<1>6. /\ IsFiniteSet(S) /\ S \subseteq RowKeys
      /\ S = {r \in Wanted(v) : token # Absent => After(token, r)}
      /\ Wanted(v) \subseteq RowKeys
  <2>1. IsFiniteSet(Versions[v].rows) /\ Versions[v].rows \subseteq RowKeys
    BY <1>5, VersionFacts
  <2>2. S = {r \in Wanted(v) : token # Absent => After(token, r)}
    BY DEF Rest, Wanted
  <2>3. Wanted(v) \subseteq Versions[v].rows
    BY DEF Wanted
  <2>4. S \subseteq Versions[v].rows
    BY <2>2, <2>3
  <2> QED
    BY <2>1, <2>2, <2>3, <2>4, FS_Subset
<1>7. /\ page \in Seq(RowKeys) /\ Increasing(page) /\ ToSet(page) \subseteq S
      /\ ~more => ToSet(page) = S
      /\ more => /\ Len(page) = q.limit
                 /\ ToSet(page) = {r \in S : ~After(page[Len(page)], r)}
  <2>1. page = SubSeq(InOrder(S), 1, IF Len(InOrder(S)) < q.limit THEN Len(InOrder(S))
                                     ELSE q.limit)
    BY DEF Page
  <2> DEFINE limit == q.limit
  <2>0. /\ limit \in Nat \ {0}
        /\ page = SubSeq(InOrder(S), 1, IF Len(InOrder(S)) < limit THEN Len(InOrder(S))
                                        ELSE limit)
    BY <1>4, <2>1
  <2> HIDE DEF S, page, limit, q, v, token
  <2>2. IsPage(page, S, limit)
    BY <1>6, <2>0, PageFacts
  <2>3. ~more => Cardinality(S) <= limit
    BY <2>0, <2>2 DEF limit, IsPage
  <2> QED
    BY <2>2, <2>3 DEF limit, IsPage
<1>8. more => page # <<>> /\ next \in ToSet(page) /\ next \in S /\ next # Absent
  <2> HIDE DEF page, S, more
  <2> SUFFICES ASSUME more
               PROVE  page # <<>> /\ next \in ToSet(page) /\ next \in S /\ next # Absent
    OBVIOUS
  <2>1. Len(page) \in DOMAIN page
    BY <1>4, <1>7, LenProperties
  <2>2. next \in ToSet(page)
    BY <2>1 DEF ToSet
  <2>3. page # <<>>
    BY <1>4, <1>7
  <2> QED
    BY <1>6, <1>7, <2>2, <2>3, VersionFacts
<1>9. /\ RowsRead \in Seq(RowKeys) /\ RowsRead' = RowsRead \o page
      /\ VersionsRead' = VersionsRead \union {v}
      /\ reader'.pages \in Seq(PageSet) /\ reader'.pages # <<>>
      /\ VersionsRead \subseteq DOMAIN Versions
      /\ VersionsRead = {} <=> reader.pages = <<>>
      /\ reader.pages = <<>> => RowsRead = <<>>
  <2> HIDE DEF page, v
  <2> QED
    BY <1>2, <1>3, <1>5, <1>7, PageAdded
<1>10. ToSet(RowsRead') = ToSet(RowsRead) \union ToSet(page)
  <2> HIDE DEF page
  <2> QED
    BY <1>7, <1>9, ElementsOfConcat
<1>11. /\ reader.pages # <<>> => /\ RowsRead # <<>> /\ token = RowsRead[Len(RowsRead)]
                                 /\ token \in ToSet(RowsRead) /\ token \in RowKeys
                                 /\ token # Absent
       /\ reader.pages = <<>> => token = Absent /\ ToSet(RowsRead) = {}
  <2>1. ASSUME reader.pages # <<>>
        PROVE  /\ RowsRead # <<>> /\ token = RowsRead[Len(RowsRead)]
               /\ token \in ToSet(RowsRead) /\ token \in RowKeys
               /\ token # Absent
    <3>1. RowsRead # <<>> /\ token = RowsRead[Len(RowsRead)]
      BY <1>1, <1>2, <2>1 DEF Continues
    <3>2. Len(RowsRead) \in DOMAIN RowsRead /\ RowsRead[Len(RowsRead)] \in RowKeys
      BY <1>9, <3>1, LenProperties, EmptySeq, ElementOfSeq
    <3>3. token \in ToSet(RowsRead)
      BY <3>1, <3>2 DEF ToSet
    <3> QED
      BY <3>1, <3>2, <3>3, VersionFacts
  <2>2. ASSUME reader.pages = <<>>
        PROVE  token = Absent /\ ToSet(RowsRead) = {}
    BY <1>2, <1>9, <2>2 DEF Continues, ToSet
  <2> QED
    BY <2>1, <2>2
<1> HIDE DEF q, v, token, S, page, more, next
<1>12. Increasing(RowsRead')
  <2>1. ASSUME RowsRead # <<>>, NEW r \in ToSet(page)
        PROVE  After(RowsRead[Len(RowsRead)], r)
    <3>1. reader.pages # <<>>
      BY <1>9, <2>1
    <3> QED
      BY <1>6, <1>7, <1>11, <3>1
  <2> QED
    BY <1>2, <1>7, <1>9, <2>1, IncreasingConcat
<1>13. q.mode # "explorer" => \A w \in VersionsRead' : HasAnnouncedRows(w)
  BY <1>1, <1>2, <1>9 DEF Complete
<1>14. Continues'
  <2>1. ASSUME more
        PROVE  RowsRead' # <<>> /\ next = RowsRead'[Len(RowsRead')]
    <3> DEFINE m == Len(RowsRead)
               n == Len(page)
    <3>1. m \in Nat /\ n \in Nat /\ n # 0
      BY <1>7, <1>8, <1>9, <2>1, LenProperties, EmptySeq
    <3>2. /\ Len(RowsRead') = m + n /\ RowsRead' \in Seq(RowKeys)
          /\ \A i \in 1 .. n : RowsRead'[m + i] = page[i]
      BY <1>7, <1>9, ElementsOfConcat
    <3> HIDE DEF m, n
    <3>3. RowsRead'[m + n] = page[n]
      BY <3>1, <3>2
    <3>4. next = page[n]
      BY <2>1 DEF next, n
    <3>5. RowsRead' # <<>>
      BY <3>1, <3>2
    <3> QED
      BY <3>2, <3>3, <3>4, <3>5
  <2>2. ~more => next = Absent
    BY DEF next
  <2> QED
    BY <1>3, <1>9, <2>1, <2>2 DEF Continues
<1>15. \A w : Wanted(w)' = Wanted(w)
  BY <1>3 DEF Wanted, q
\* One version: what was read before is not after the token, nor after the
\* later one.
<1>16. ASSUME NEW w \in VersionsRead', VersionsRead' = {w}
       PROVE  ToSet(RowsRead') = {r \in Wanted(w) : next # Absent => ~After(next, r)}
  <2>1. w = v /\ (VersionsRead = {} \/ VersionsRead = {v})
    BY <1>9, <1>16
  <2>2. ToSet(RowsRead) = {r \in Wanted(v) : token # Absent /\ ~After(token, r)}
    <3>1. CASE VersionsRead = {}
      BY <1>9, <1>11, <3>1
    <3>2. CASE VersionsRead = {v}
      BY <1>2, <1>9, <1>11, <3>2 DEF Covering, token
    <3> QED
      BY <2>1, <3>1, <3>2
  <2>3. ToSet(RowsRead) \union S = Wanted(v)
    BY <1>6, <2>2
  <2>4. CASE ~more
    <3>1. next = Absent
      BY <2>4 DEF next
    <3> QED
      BY <1>7, <1>10, <2>1, <2>3, <2>4, <3>1
  <2>5. CASE more
    <3>1. next = page[Len(page)] /\ next # Absent /\ next \in S
      BY <1>8, <2>5 DEF next
    <3>2. ToSet(page) = {r \in S : ~After(next, r)}
      BY <1>7, <2>5, <3>1
    <3>3. ASSUME NEW r \in ToSet(RowsRead)
          PROVE  ~After(next, r)
      <4>1. token # Absent /\ token \in RowKeys /\ ~After(token, r) /\ r \in RowKeys
        BY <1>4, <1>6, <2>2
      <4>2. After(token, next) /\ next \in RowKeys
        BY <1>6, <3>1, <4>1
      <4> QED
        BY <4>1, <4>2, AfterOrders
    <3> QED
      BY <1>10, <2>1, <2>3, <3>1, <3>2, <3>3
  <2> QED
    BY <2>4, <2>5
\* Complete versions of one run: a row whose like was read before, that is the
\* like of the token or that is in the page.
<1>17. ASSUME OfOneRun(VersionsRead'), NEW w \in VersionsRead', NEW r \in Wanted(w),
              next # Absent => ~Beyond(next, r)
       PROVE  \E s \in ToSet(RowsRead') : Forecast(s) = Forecast(r)
  <2>1. VersionsRead' \subseteq DOMAIN Versions /\ v \in VersionsRead'
    BY <1>5, <1>9
  <2>2. PICK x \in Wanted(v) : Forecast(x) = Forecast(r)
    BY <1>17, <2>1, ForecastsAgree
  <2>3. x \in RowKeys
    BY <1>6
  <2>4. next # Absent => ~Beyond(next, x)
    BY <1>17, <2>2 DEF Beyond, Forecast
  <2>5. CASE token # Absent /\ ~Beyond(token, x)
    <3>1. reader.pages # <<>>
      BY <1>11, <2>5
    <3>2. PICK u \in VersionsRead : TRUE
      BY <1>9, <3>1
    <3>3. u \in VersionsRead' /\ OfOneRun(VersionsRead)
      BY <1>9, <1>17 DEF OfOneRun
    <3>4. PICK y \in Wanted(u) : Forecast(y) = Forecast(r)
      BY <1>17, <2>1, <3>3, ForecastsAgree
    <3>5. ~Beyond(token, y)
      BY <2>2, <2>5, <3>4 DEF Beyond, Forecast
    <3>6. \E s \in ToSet(RowsRead) : Forecast(s) = Forecast(y)
      BY <1>2, <3>3, <3>5 DEF Covering, token
    <3> QED
      BY <1>10, <3>4, <3>6
  <2>6. CASE token # Absent => Beyond(token, x)
    <3>1. x \in S
      <4>1. token # Absent => token \in RowKeys
        BY <1>4
      <4> QED
        BY <1>6, <2>3, <2>6, <4>1, AfterMeans
    <3>2. CASE ~more
      BY <1>7, <1>10, <2>2, <3>1, <3>2
    <3>3. CASE more
      <4>1. next = page[Len(page)] /\ next # Absent /\ next \in ToSet(page) /\ next \in RowKeys
        BY <1>6, <1>8, <3>3 DEF next
      <4>2. CASE After(next, x)
        <5>1. Forecast(next) = Forecast(x)
          BY <2>3, <2>4, <4>1, <4>2, AfterMeans
        <5> QED
          BY <1>10, <2>2, <4>1, <5>1
      <4>3. CASE ~After(next, x)
        <5>1. x \in ToSet(page)
          BY <1>7, <3>1, <3>3, <4>1, <4>3
        <5> QED
          BY <1>10, <2>2, <5>1
      <4> QED
        BY <4>2, <4>3
    <3> QED
      BY <3>2, <3>3
  <2> QED
    BY <2>5, <2>6
<1>18. Covering'
  BY <1>3, <1>15, <1>16, <1>17 DEF Covering
<1>19. next \in RowKeys \union {Absent}
  <2>1. more => next \in RowKeys
    BY <1>6, <1>8
  <2>2. ~more => next = Absent
    BY DEF next
  <2> QED
    BY <2>1, <2>2
<1>20. reader' \in [request : Requests, token : RowKeys \union {Absent},
                    pages : Seq(PageSet), state : {"reading", "read", "refused"}]
  BY <1>3, <1>4, <1>9, <1>19
<1>21. shown' \in 0 .. Len(Versions)
  BY <1>1, <1>2
<1>22. reader'.state \in {"reading", "read"}
  BY <1>3
<1>23. reader'.request.mode # "explorer" => \A w \in VersionsRead' : HasAnnouncedRows(w)
  BY <1>3, <1>13
<1> QED
  BY <1>12, <1>14, <1>18, <1>20, <1>21, <1>22, <1>23 DEF ReadsInv

\* Publishing, refusing and reading keep what holds of a reading.
LEMMA ReadsStep ==
  ASSUME ReadsInv, [ReadsNext]_reads
  PROVE  ReadsInv'
<1> DEFINE Same == /\ RowsRead' = RowsRead /\ VersionsRead' = VersionsRead
                   /\ Increasing(RowsRead)' = Increasing(RowsRead)
                   /\ Continues' = Continues /\ Covering' = Covering
<1>0. reader' = reader => Same
  BY DEF RowsRead, VersionsRead, Increasing, Continues, Covering, Wanted
<1>1. CASE PublishNext
  <2>1. shown' \in 0 .. Len(Versions) /\ reader' = reader
    BY <1>1, VersionFacts DEF PublishNext, ReadsInv
  <2> QED
    BY <1>0, <2>1 DEF ReadsInv
<1>2. CASE ReadPage
  BY <1>2, ReadPageStep
<1>3. CASE RefuseRead
  <2>1. /\ shown' = shown /\ reader.state = "reading"
        /\ reader' = [reader EXCEPT !.state = "refused"]
    BY <1>3 DEF RefuseRead
  <2>2. reader \in [request : Requests, token : RowKeys \union {Absent},
                    pages : Seq(PageSet), state : {"reading", "read", "refused"}]
    BY <2>1 DEF ReadsInv
  <2>3. /\ reader' \in [request : Requests, token : RowKeys \union {Absent},
                        pages : Seq(PageSet), state : {"reading", "read", "refused"}]
        /\ reader'.state = "refused"
    BY <2>1, <2>2
  <2> QED
    BY <2>1, <2>3 DEF ReadsInv
<1>4. CASE UNCHANGED reads
  <2>1. shown' = shown /\ reader' = reader
    BY <1>4 DEF reads
  <2> QED
    BY <1>0, <2>1 DEF ReadsInv
<1> QED
  BY <1>1, <1>2, <1>3, <1>4 DEF ReadsNext

\* A reading that has ended has everything.
LEMMA ReadToTheEnd == ReadsInv => PagesPartition
<1> SUFFICES ASSUME ReadsInv, reader.state = "read"
             PROVE  PagesPartition
  BY DEF PagesPartition
<1>1. /\ reader.pages \in Seq(PageSet) /\ Increasing(RowsRead)
      /\ reader.token = Absent /\ Covering
      /\ reader.request.mode # "explorer" => \A v \in VersionsRead : HasAnnouncedRows(v)
  BY DEF ReadsInv, Continues
<1>2. RowsRead \in Seq(RowKeys) /\ VersionsRead \subseteq DOMAIN Versions
  <2>1. /\ Len(reader.pages) \in Nat /\ DOMAIN reader.pages = 1 .. Len(reader.pages)
        /\ \A i \in 1 .. Len(reader.pages) : reader.pages[i] \in PageSet
    BY <1>1, LenProperties, ElementOfSeq
  <2> DEFINE seqs == [i \in DOMAIN reader.pages |-> reader.pages[i].rows]
  <2>2. seqs \in Seq(Seq(RowKeys))
    <3>1. seqs \in [1 .. Len(reader.pages) -> Seq(RowKeys)]
      BY <2>1 DEF PageSet
    <3> HIDE DEF seqs
    <3> QED
      BY <2>1, <3>1, SeqDef
  <2>3. RowsRead = FlattenSeq(seqs)
    BY DEF RowsRead
  <2> HIDE DEF seqs
  <2>4. RowsRead \in Seq(RowKeys)
    BY <2>2, <2>3, FlattenFills
  <2> QED
    BY <2>1, <2>4 DEF VersionsRead, PageSet
<1>3. ASSUME NEW v \in VersionsRead, VersionsRead = {v}
      PROVE  /\ RowsRead = InOrder(Wanted(v))
             /\ Wanted(v) = Versions[v].rows /\ reader.request.mode # "explorer" =>
                  Len(RowsRead) = Versions[v].announced
  <2>1. ToSet(RowsRead) = Wanted(v)
    BY <1>1, <1>3 DEF Covering
  <2>2. RowsRead = InOrder(Wanted(v)) /\ Cardinality(Wanted(v)) = Len(RowsRead)
    BY <1>1, <1>2, <2>1, IncreasingIsInOrder
  <2> QED
    BY <1>1, <2>2 DEF HasAnnouncedRows
<1>4. ASSUME OfOneRun(VersionsRead), NEW v \in VersionsRead, NEW r \in Wanted(v)
      PROVE  \E s \in ToSet(RowsRead) : Forecast(s) = Forecast(r)
  BY <1>1, <1>4 DEF Covering
<1>5. \A i, j \in DOMAIN RowsRead : i < j => After(RowsRead[i], RowsRead[j])
  BY <1>1 DEF Increasing
<1> QED
  BY <1>3, <1>4, <1>5 DEF PagesPartition, VersionsRead, Wanted, OfOneRun

\* Whoever reads a publication to the end, while later versions are published,
\* has every row it asked for once and in order.
THEOREM PagesAddUp == RulesSpec => []PagesPartition
<1>1. RulesInit => ReadsInv
  <2>1. ASSUME ReadsInit
        PROVE  ReadsInv
    <3>1. /\ shown = 1 /\ reader.state = "reading" /\ reader.pages = <<>>
          /\ reader \in [request : Requests, token : {Absent}, pages : {<<>>},
                         state : {"reading"}]
          /\ reader.token = Absent
      BY <2>1 DEF ReadsInit
    <3>2. 1 \in 0 .. Len(Versions)
      BY VersionFacts, ReadsAssumption, EmptySeq
    <3>3. reader \in [request : Requests, token : RowKeys \union {Absent},
                      pages : Seq(PageSet), state : {"reading", "read", "refused"}]
      <4>1. <<>> \in Seq(PageSet)
        BY EmptySeq
      <4> QED
        BY <3>1, <4>1
    <3>4. RowsRead = <<>> /\ VersionsRead = {}
      BY <3>1, EmptySeq DEF RowsRead, VersionsRead, FlattenSeq
    <3>5. Increasing(RowsRead) /\ Continues /\ Covering
      BY <3>1, <3>4 DEF Increasing, Continues, Covering
    <3> QED
      BY <3>1, <3>2, <3>3, <3>4, <3>5 DEF ReadsInv
  <2>2. ASSUME ReadsIdle
        PROVE  ReadsInv
    BY <2>2, VersionFacts DEF ReadsIdle, ReadsInv
  <2> QED
    BY <2>1, <2>2 DEF RulesInit
<1>2. ReadsInv /\ [RulesNext]_rules => ReadsInv'
  <2>1. ASSUME [RulesNext]_rules
        PROVE  [ReadsNext]_reads
    BY <2>1 DEF RulesNext, rules, reads
  <2> QED
    BY <2>1, ReadsStep
<1> QED
  BY <1>1, <1>2, ReadToTheEnd, PTL DEF RulesSpec

-----------------------------------------------------------------------------
(* Intervals.                                                              *)

\* Pairs of numbers, and how many rows have them.
IsSample(s) ==
  /\ IsFiniteSet(DOMAIN s)
  /\ \A p \in DOMAIN s : p \in Int \X Int /\ s[p] \in Nat

\* What the horizons have of a pair.
Shares(samples, p) ==
  [h \in DOMAIN samples |->
     IF p \in DOMAIN samples[h] THEN samples[h][p] ELSE 0]

\* What the horizons have of a pair adds up.
LEMMA PooledSum ==
  ASSUME NEW samples, NEW p \in UNION {DOMAIN samples[h] : h \in DOMAIN samples}
  PROVE  Pooled(samples)[p] = SumOf(Shares(samples, p), DOMAIN samples)
<1> DEFINE S == DOMAIN samples
           count(h) == IF p \in DOMAIN samples[h] THEN samples[h][p] ELSE 0
           A(F) == F = [s \in SUBSET S |-> IF s = {} THEN 0
                    ELSE count(Picked(s)) + F[s \ {Picked(s)}]]
           B(F) == F = [s \in SUBSET S |-> IF s = {} THEN 0
                    ELSE Shares(samples, p)[Picked(s)] + F[s \ {Picked(s)}]]
<1>1. Pooled(samples)[p] = (CHOOSE F : A(F))[S]
  BY DEF Pooled, MapThenSumSet, MapThenFoldSet, Picked
<1>2. SumOf(Shares(samples, p), S) = (CHOOSE F : B(F))[S]
  BY DEF SumOf, MapThenSumSet, MapThenFoldSet, Picked
<1>3. \A s \in SUBSET S : s # {} => count(Picked(s)) = Shares(samples, p)[Picked(s)]
  BY DEF Shares, Picked
<1>4. \A F : A(F) <=> B(F)
  <2> HIDE DEF count
  <2> TAKE F
  <2>1. \A s \in SUBSET S : (IF s = {} THEN 0
                    ELSE count(Picked(s)) + F[s \ {Picked(s)}]) = (IF s = {} THEN 0
                    ELSE Shares(samples, p)[Picked(s)] + F[s \ {Picked(s)}])
    BY <1>3
  <2> QED
    BY <2>1
<1>5. (CHOOSE F : A(F)) = (CHOOSE F : B(F))
  <2> HIDE DEF A, B
  <2> QED
    BY <1>4
<1> QED
  <2> HIDE DEF A, B
  <2> QED
    BY <1>1, <1>2, <1>5

\* The radii that are enough, and the pairs within one.
ErrorOf(p) == Absolute(p[2] - p[1])
AtMost(s, r) == {p \in DOMAIN s : ErrorOf(p) <= r}
Radii(s) == {ErrorOf(p) : p \in {x \in DOMAIN s : s[x] > 0}}
Enough(s) ==
  {r \in Radii(s) : SumOf(s, AtMost(s, r)) > FiniteSampleRank(RowCount(s))}

\* A sample in terms of sums.
LEMMA SampleFacts ==
  ASSUME NEW s, IsSample(s)
  PROVE  /\ RowCount(s) = SumOf(s, DOMAIN s) /\ RowCount(s) \in Nat
         /\ Radius(s) = Min(Enough(s))
         /\ \A p \in DOMAIN s : p[1] \in Int /\ p[2] \in Int /\ ErrorOf(p) \in Nat
<1>1. RowCount(s) = SumOf(s, DOMAIN s)
  BY DEF RowCount, SumOf
<1>2. RowCount(s) \in Nat
  BY <1>1, SumNat DEF IsSample
<1>3. Radius(s) = Min(Enough(s))
  BY DEF Radius, Enough, Radii, AtMost, ErrorOf, SumOf
<1>4. ASSUME NEW p \in DOMAIN s
      PROVE  p[1] \in Int /\ p[2] \in Int /\ ErrorOf(p) \in Nat
  <2>1. p[1] \in Int /\ p[2] \in Int
    BY DEF IsSample
  <2> QED
    BY <2>1 DEF ErrorOf, Absolute
<1> QED
  BY <1>1, <1>2, <1>3, <1>4

\* The rows of all the horizons are a sample.
LEMMA PooledIsSample ==
  ASSUME NEW samples, IsFiniteSet(DOMAIN samples),
         \A h \in DOMAIN samples : IsSample(samples[h])
  PROVE  IsSample(Pooled(samples))
<1> DEFINE pairs == UNION {DOMAIN samples[h] : h \in DOMAIN samples}
<1>1. DOMAIN Pooled(samples) = pairs
  BY DEF Pooled
<1>2. IsFiniteSet(pairs)
  <2>1. IsFiniteSet({DOMAIN samples[h] : h \in DOMAIN samples})
    <3> DEFINE D(h) == DOMAIN samples[h]
               f == [h \in DOMAIN samples |-> D(h)]
    <3>1. f \in Surjection(DOMAIN samples, {D(h) : h \in DOMAIN samples})
      BY DEF Surjection
    <3> QED
      BY <3>1, FS_Surjection
  <2>2. \A D \in {DOMAIN samples[h] : h \in DOMAIN samples} : IsFiniteSet(D)
    BY DEF IsSample
  <2> QED
    BY <2>1, <2>2, FS_UNION
<1>3. ASSUME NEW p \in pairs
      PROVE  p \in Int \X Int /\ Pooled(samples)[p] \in Nat
  <2>1. p \in Int \X Int
    BY DEF IsSample
  <2>2. \A h \in DOMAIN samples : Shares(samples, p)[h] \in Nat
    BY DEF IsSample, Shares
  <2>3. SumOf(Shares(samples, p), DOMAIN samples) \in Nat
    BY <2>2, SumNat
  <2> QED
    BY <2>1, <2>3, PooledSum
<1> QED
  BY <1>1, <1>2, <1>3 DEF IsSample

\* The largest error of a row holds for all the rows.
LEMMA WidestHolds ==
  ASSUME NEW s, IsSample(s), RowCount(s) # 0
  PROVE  \E r \in Radii(s) : SumOf(s, AtMost(s, r)) = RowCount(s)
<1> DEFINE D == DOMAIN s
           P == {x \in D : s[x] > 0}
           f == [x \in P |-> Cardinality(AtMost(s, ErrorOf(x)))]
<1>0. IsFiniteSet(D) /\ Cardinality(D) \in Nat /\ \A x \in D : s[x] \in Nat
  BY FS_CardinalityType DEF IsSample
<1>1. P # {}
  <2>1. \E x \in D : s[x] # 0
    BY <1>0, SumOfSome, SampleFacts
  <2> QED
    BY <1>0, <2>1
<1>2. ASSUME NEW x \in P
      PROVE  /\ AtMost(s, ErrorOf(x)) \subseteq D /\ x \in AtMost(s, ErrorOf(x))
             /\ IsFiniteSet(AtMost(s, ErrorOf(x)))
             /\ f[x] \in Nat /\ f[x] <= Cardinality(D)
  <2>1. AtMost(s, ErrorOf(x)) \subseteq D /\ x \in AtMost(s, ErrorOf(x))
    BY SampleFacts DEF AtMost
  <2> QED
    BY <1>0, <2>1, FS_Subset, FS_CardinalityType
<1>3. PICK x \in P : \A y \in P : f[y] <= f[x]
  <2>1. f \in [P -> Nat] /\ \A y \in P : f[y] <= Cardinality(D)
    BY <1>2
  <2> HIDE DEF f, P
  <2> QED
    BY <1>0, <1>1, <2>1, LatestExists
<1> DEFINE r == ErrorOf(x)
<1>4. ASSUME NEW y \in D, y \notin AtMost(s, r)
      PROVE  s[y] = 0
  <2>1. ASSUME y \in P
        PROVE  FALSE
    <3>1. r \in Nat /\ ErrorOf(y) \in Nat /\ r < ErrorOf(y)
      BY <1>4, SampleFacts DEF AtMost
    <3>2. AtMost(s, r) \subseteq AtMost(s, ErrorOf(y))
      BY <3>1, SampleFacts DEF AtMost
    <3>3. f[y] <= f[x] /\ f[x] <= f[y]
      BY <1>2, <1>3, <2>1, <3>2, FS_Subset
    <3>4. Cardinality(AtMost(s, r)) = Cardinality(AtMost(s, ErrorOf(y)))
      BY <1>2, <2>1, <3>3
    <3>5. AtMost(s, r) = AtMost(s, ErrorOf(y))
      BY <1>2, <2>1, <3>2, <3>4, FS_Subset
    <3> QED
      BY <1>2, <1>4, <2>1, <3>5
  <2> QED
    BY <1>0, <2>1
<1>5. r \in Radii(s)
  BY DEF Radii
<1>6. SumOf(s, AtMost(s, r)) = RowCount(s)
  <2> DEFINE A == AtMost(s, r)
  <2>1. A \subseteq D
    BY <1>2
  <2>2. /\ SumOf(s, A) \in Int /\ SumOf(s, D \ A) \in Int
        /\ SumOf(s, D) = SumOf(s, A) + SumOf(s, D \ A)
    <3>1. IsFiniteSet(D) /\ \A y \in D : s[y] \in Int
      BY <1>0
    <3> HIDE DEF A, D
    <3> QED
      BY <2>1, <3>1, SumParts
  <2>3. SumOf(s, D \ A) = 0
    <3>1. IsFiniteSet(D \ A) /\ \A y \in D \ A : s[y] \in Nat /\ s[y] = 0
      BY <1>0, <1>4, FS_Subset
    <3> HIDE DEF A
    <3> QED
      BY <3>1, SumOfSome
  <2> QED
    BY <2>2, <2>3, SampleFacts
<1> QED
  BY <1>5, <1>6

\* As many rows as follow the rank keep the promise.
LEMMA RankFacts ==
  ASSUME NEW n \in Nat, n # 0
  PROVE  /\ FiniteSampleRank(n) \in Int /\ FiniteSampleRank(n) < n
         /\ \A c \in Nat : c > FiniteSampleRank(n) /\ c <= n =>
              c = n \/ 10 * c >= 8 * (n + 1)
<1> DEFINE k == -((-8 * (n + 1)) \div 10)
<1>1. k \in Int /\ 10 * k >= 8 * (n + 1)
  OBVIOUS
<1> HIDE DEF k
<1>2. FiniteSampleRank(n) = IF k >= n THEN n - 1 ELSE k
  BY DEF FiniteSampleRank, k
<1> QED
  BY <1>1, <1>2

\* The errors of as many rows are at most the radius.
LEMMA RadiusFacts ==
  ASSUME NEW s, IsSample(s), RowCount(s) # 0
  PROVE  /\ Radius(s) \in Nat
         /\ SumOf(s, AtMost(s, Radius(s))) > FiniteSampleRank(RowCount(s))
<1>1. Radii(s) \subseteq Nat
  BY SampleFacts DEF Radii
<1>2. RowCount(s) \in Nat /\ FiniteSampleRank(RowCount(s)) < RowCount(s)
      /\ FiniteSampleRank(RowCount(s)) \in Int
  BY SampleFacts, RankFacts
<1>3. PICK r \in Radii(s) : SumOf(s, AtMost(s, r)) = RowCount(s)
  BY WidestHolds
<1>4. r \in Enough(s)
  BY <1>2, <1>3 DEF Enough
<1>5. Enough(s) \subseteq Nat /\ Enough(s) # {}
  BY <1>1, <1>4 DEF Enough
<1>6. \E x \in Enough(s) : \A y \in Enough(s) : x <= y
  BY <1>5, LeastExists
<1>7. Min(Enough(s)) \in Enough(s)
  BY <1>6 DEF Min
<1>8. Radius(s) \in Enough(s)
  BY <1>7, SampleFacts
<1> QED
  BY <1>1, <1>8 DEF Enough

\* Quantiles are in order, and within the radius what was sold is between them.
LEMMA QuantilesOrdered ==
  ASSUME NEW s, Radius(s) \in Nat, NEW p, p[1] \in Int, p[2] \in Int
  PROVE  LET q == Quantiles(p[1], s)
         IN /\ 0 <= q[1] /\ q[1] <= q[2] /\ q[2] <= q[3]
            /\ p[2] >= 0 /\ ErrorOf(p) <= Radius(s) => q[1] <= p[2] /\ p[2] <= q[3]
            /\ q[1] <= p[2] => p[2] >= 0
<1> DEFINE a == p[1]
           b == p[2]
           R == Radius(s)
           low == Greater(a - R, 0)
           mid == Greater(Greater(a, 0), low)
           high == Greater(Greater(a + R, 0), mid)
<1>1. Quantiles(p[1], s) = <<low, mid, high>>
  BY DEF Quantiles
<1>2. a \in Int /\ b \in Int /\ R \in Nat
  OBVIOUS
<1>3. /\ 0 <= low /\ low <= mid /\ mid <= high /\ a + R <= high
      /\ low = 0 \/ low = a - R
      /\ low \in Int /\ mid \in Int /\ high \in Int
  <2> HIDE DEF a, R
  <2> QED
    BY <1>2 DEF Greater
<1>4. ErrorOf(p) <= R => b <= a + R /\ a - R <= b
  BY <1>2 DEF ErrorOf, Absolute
<1>5. b >= 0 /\ ErrorOf(p) <= R => low <= b /\ b <= high
  <2> HIDE DEF a, b, R, low, high
  <2> QED
    BY <1>2, <1>3, <1>4
<1>6. low <= b => b >= 0
  <2> HIDE DEF a, b, R, low, high
  <2> QED
    BY <1>2, <1>3
<1> HIDE DEF low, mid, high
<1> QED
  BY <1>1, <1>3, <1>5, <1>6

\* Rows within the radius are covered or were returned, and none is both.
LEMMA SampleCovered ==
  ASSUME NEW s, IsSample(s), RowCount(s) # 0
  PROVE  LET n == RowCount(s)
             returned == MapThenSumSet(LAMBDA p : s[p], {p \in DOMAIN s : p[2] < 0})
             reached == Covered(s, s) + returned
         IN reached = n \/ 10 * reached >= 8 * (n + 1)
<1> DEFINE D == DOMAIN s
           Inside == {p \in D : LET q == Quantiles(p[1], s)
                                IN q[1] <= p[2] /\ p[2] <= q[3]}
           Returned == {p \in D : p[2] < 0}
           All == Inside \union Returned
           Near == AtMost(s, Radius(s))
<1>1. Covered(s, s) = SumOf(s, Inside)
  BY DEF Covered, SumOf
<1>2. MapThenSumSet(LAMBDA p : s[p], Returned) = SumOf(s, Returned)
  BY DEF SumOf
<1>3. /\ IsFiniteSet(D) /\ \A x \in D : s[x] \in Nat
      /\ Radius(s) \in Nat
      /\ \A p \in D : p[1] \in Int /\ p[2] \in Int
  BY RadiusFacts, SampleFacts DEF IsSample
<1>4. All \subseteq D /\ Inside \subseteq All /\ All \ Inside = Returned
  <2>1. \A p \in Inside : p \notin Returned
    BY <1>3, QuantilesOrdered
  <2> HIDE DEF Inside
  <2>2. Inside \subseteq D
    BY DEF Inside
  <2> QED
    BY <2>1, <2>2
<1>5. Near \subseteq All
  <2> SUFFICES ASSUME NEW p \in D, ErrorOf(p) <= Radius(s), ~(p[2] < 0)
               PROVE  p \in Inside
    BY DEF AtMost
  <2> QED
    BY <1>3, QuantilesOrdered
<1> HIDE DEF Inside, Returned, All, Near
<1>6. IsFiniteSet(All) /\ \A x \in All : s[x] \in Nat
  BY <1>3, <1>4, FS_Subset
<1>7. /\ SumOf(s, All) = SumOf(s, Inside) + SumOf(s, Returned)
      /\ SumOf(s, Inside) \in Int /\ SumOf(s, Returned) \in Int
  <2>1. \A x \in All : s[x] \in Int
    BY <1>6
  <2>2. SumOf(s, All \ Inside) = SumOf(s, Returned)
    BY <1>4
  <2> QED
    BY <1>4, <1>6, <2>1, <2>2, SumParts
<1>8. /\ SumOf(s, All) = SumOf(s, Near) + SumOf(s, All \ Near)
      /\ SumOf(s, Near) \in Int /\ SumOf(s, All \ Near) \in Nat
  <2>1. SumOf(s, All \ Near) \in Nat
    BY <1>6, FS_Subset, SumNat
  <2> QED
    BY <1>5, <1>6, <2>1, SumParts
<1>9. /\ SumOf(s, D) = SumOf(s, All) + SumOf(s, D \ All)
      /\ SumOf(s, All) \in Nat /\ SumOf(s, D \ All) \in Nat
  <2>1. SumOf(s, All) \in Nat /\ SumOf(s, D \ All) \in Nat
    BY <1>3, <1>6, FS_Subset, SumNat
  <2> QED
    BY <1>3, <1>4, <2>1, SumParts
<1> DEFINE n == RowCount(s)
           reached == SumOf(s, All)
<1>10. n \in Nat /\ n = SumOf(s, D) /\ SumOf(s, Near) > FiniteSampleRank(n)
  BY SampleFacts, RadiusFacts DEF Near
<1>11. reached \in Nat /\ reached <= n /\ reached > FiniteSampleRank(n)
  <2>1. FiniteSampleRank(n) \in Int
    BY <1>10, RankFacts
  <2> QED
    BY <1>8, <1>9, <1>10, <2>1
<1>12. reached = n \/ 10 * reached >= 8 * (n + 1)
  <2> HIDE DEF reached, n
  <2> QED
    BY <1>10, <1>11, RankFacts DEF n
<1>13. Covered(s, s) + MapThenSumSet(LAMBDA p : s[p], {p \in DOMAIN s : p[2] < 0})
         = reached
  BY <1>1, <1>2, <1>7 DEF Returned
<1> QED
  BY <1>12, <1>13

\* Whatever horizon is asked for, there is a sample that is large enough.
LEMMA SamplesFit ==
  ASSUME NEW samples, IsFiniteSet(DOMAIN samples),
         \A h \in DOMAIN samples : IsSample(samples[h]),
         NEW least \in Nat, CanCalibrate(samples, least), NEW h \in DOMAIN samples
  PROVE  /\ IsSample(SampleOf(samples, h, least))
         /\ RowCount(SampleOf(samples, h, least)) >= least
<1>1. IsSample(samples[h]) /\ IsSample(Pooled(samples))
  BY PooledIsSample
<1> QED
  BY <1>1 DEF SampleOf, CanCalibrate

\* The intervals of every horizon, with rows of its own or with all of them,
\* cover what the finite sample correction promises of what was sold.
THEOREM IntervalsCover == RulesSpec => []CoversResiduals
<1>1. CaseChosen => CoversResiduals
  <2> SUFFICES ASSUME CaseChosen, case.topic = "calibrate",
                      CanCalibrate(case.samples, case.least),
                      NEW h \in DOMAIN case.samples
               PROVE  LET sample == SampleOf(case.samples, h, case.least)
                          n == RowCount(sample)
                          returned == MapThenSumSet(LAMBDA p : sample[p],
                                        {p \in DOMAIN sample : p[2] < 0})
                          reached == Covered(sample, sample) + returned
                      IN /\ n >= case.least
                         /\ reached = n \/ 10 * reached >= 8 * (n + 1)
                         /\ \A p \in DOMAIN sample :
                              LET q == Quantiles(p[1], sample)
                              IN 0 <= q[1] /\ q[1] <= q[2] /\ q[2] <= q[3]
    BY DEF CoversResiduals
  <2> DEFINE sample == SampleOf(case.samples, h, case.least)
  <2>1. case \in Cases
    BY DEF CaseChosen, NoCase
  <2>2. /\ case.least \in Nat \ {0} /\ IsFiniteSet(DOMAIN case.samples)
        /\ \A x \in DOMAIN case.samples : IsSample(case.samples[x])
    BY <2>1, CasesAssumption DEF IsSample
  <2>3. IsSample(sample) /\ RowCount(sample) >= case.least
    BY <2>2, SamplesFit
  <2> HIDE DEF sample
  <2>4. RowCount(sample) \in Nat /\ RowCount(sample) # 0
    BY <2>2, <2>3, SampleFacts
  <2>5. ASSUME NEW p \in DOMAIN sample
        PROVE  LET q == Quantiles(p[1], sample)
               IN 0 <= q[1] /\ q[1] <= q[2] /\ q[2] <= q[3]
    BY <2>3, <2>4, RadiusFacts, SampleFacts, QuantilesOrdered
  <2> QED
    BY <2>3, <2>4, <2>5, SampleCovered DEF sample
<1> QED
  BY <1>1, CaseStays, PTL

-----------------------------------------------------------------------------
(* Reconciliation.                                                         *)

\* How many nodes are below one.
Size(g, n) == Cardinality(Reached(g.edges, Children(g, n)))

\* Fewer nodes are below a child than below its parent, which is the only one.
LEMMA TreeFacts ==
  ASSUME NEW g, IsGraph(g), Accepts(g)
  PROVE  /\ \A n \in g.nodes :
              /\ Children(g, n) \subseteq g.nodes /\ IsFiniteSet(Children(g, n))
              /\ n \notin Reached(g.edges, Children(g, n))
              /\ Size(g, n) \in Nat /\ Size(g, n) <= Cardinality(g.nodes)
         /\ \A n \in g.nodes : \A c \in Children(g, n) :
              HasParent(g, c) /\ Parent(g, c) = n /\ Size(g, c) < Size(g, n)
         /\ \A n \in g.nodes : HasParent(g, n) =>
              Parent(g, n) \in g.nodes /\ n \in Children(g, Parent(g, n))
         /\ Cardinality(g.nodes) \in Nat
<1> DEFINE E == g.edges
           below(n) == Reached(E, Children(g, n))
<1>1. /\ IsFiniteSet(E) /\ IsFiniteSet(g.nodes) /\ Cardinality(g.nodes) \in Nat
      /\ \A e \in E : e = <<e[1], e[2]>>
  BY FS_CardinalityType DEF IsGraph
<1>2. /\ \A e \in E : e[1] \in g.nodes /\ e[2] \in g.nodes
      /\ \A d, e \in E : d[2] = e[2] => d = e
      /\ g.nodes # {}
  BY DEF Accepts, Roots
<1>3. \A n \in g.nodes : n \notin below(n)
  BY <1>2, ForestReached DEF Accepts
<1>4. \A n : /\ Children(g, n) \subseteq below(n) /\ Closed(E, below(n))
             /\ \A X : Children(g, n) \subseteq X /\ Closed(E, X) => below(n) \subseteq X
  BY <1>1, ReachedClosed
<1> HIDE DEF below
<1>5. /\ \A n, m : m \in Children(g, n) <=> \E e \in E : e[1] = n /\ e[2] = m
      /\ \A n, m : m \in Children(g, n) <=> <<n, m>> \in E
  <2>1. \A n, m : m \in Children(g, n) <=> \E e \in E : e[1] = n /\ e[2] = m
    BY DEF Children
  <2> QED
    BY <1>1, <2>1
<1>6. ASSUME NEW n \in g.nodes
      PROVE  /\ Children(g, n) \subseteq g.nodes /\ IsFiniteSet(Children(g, n))
             /\ below(n) \subseteq g.nodes /\ IsFiniteSet(below(n))
             /\ Size(g, n) \in Nat /\ Size(g, n) <= Cardinality(g.nodes)
             /\ Size(g, n) = Cardinality(below(n))
  <2>1. Children(g, n) \subseteq g.nodes /\ Closed(E, g.nodes)
    BY <1>2, <1>5 DEF Closed
  <2>2. below(n) \subseteq g.nodes
    BY <1>4, <2>1
  <2> QED
    BY <1>1, <2>1, <2>2, FS_Subset, FS_CardinalityType DEF Size, below
<1>7. ASSUME NEW n \in g.nodes, NEW c \in Children(g, n)
      PROVE  HasParent(g, c) /\ Parent(g, c) = n /\ Size(g, c) < Size(g, n)
  <2>1. HasParent(g, c)
    BY <1>5 DEF HasParent
  <2>2. Parent(g, c) = n
    <3>1. <<n, c>> \in E
      BY <1>5
    <3>2. ASSUME NEW p \in g.nodes, <<p, c>> \in E
          PROVE  p = n
      <4>1. <<p, c>> = <<n, c>>
        BY <1>2, <3>1, <3>2
      <4> QED
        BY <4>1
    <3> QED
      BY <3>1, <3>2 DEF Parent
  <2>3. c \in g.nodes /\ c \in below(n) /\ c \notin below(c)
    BY <1>3, <1>4, <1>6
  <2>4. below(c) \union {c} \subseteq below(n)
    <3>1. Children(g, c) \subseteq below(n)
      BY <1>4, <1>5, <2>3 DEF Closed
    <3> QED
      BY <1>4, <2>3, <3>1
  <2>5. Cardinality(below(c) \union {c}) = Cardinality(below(c)) + 1
    BY <1>6, <2>3, FS_AddElement
  <2>6. Cardinality(below(c) \union {c}) <= Cardinality(below(n))
    BY <1>6, <2>4, FS_Subset
  <2>7. Size(g, c) < Size(g, n)
    BY <1>6, <2>3, <2>5, <2>6
  <2> QED
    BY <2>1, <2>2, <2>7
<1>8. ASSUME NEW n \in g.nodes, HasParent(g, n)
      PROVE  Parent(g, n) \in g.nodes /\ n \in Children(g, Parent(g, n))
  <2>1. PICK e \in E : e[2] = n
    BY <1>8 DEF HasParent
  <2>2. e[1] \in g.nodes /\ <<e[1], n>> \in E
    BY <1>1, <1>2, <2>1
  <2>3. Parent(g, n) \in g.nodes /\ <<Parent(g, n), n>> \in E
    BY <2>2 DEF Parent
  <2> QED
    BY <1>5, <2>3
<1> QED
  BY <1>1, <1>3, <1>6, <1>7, <1>8 DEF below

\* The recursive function that AggregateUp is.
Ups(F, g, values) ==
  F = [n \in g.nodes |->
         IF n \in Leaves(g) THEN values[n] ELSE Total(F, Children(g, n))]

\* There is such a function: it is built from the nodes with few below them.
LEMMA UpExists ==
  ASSUME NEW g, IsGraph(g), Accepts(g), NEW values,
         \A n \in g.nodes : values[n] \in Int
  PROVE  \E F : Ups(F, g, values)
<1> DEFINE D(k) == {n \in g.nodes : Size(g, n) < k}
           value(F, n) == IF n \in Leaves(g) THEN values[n] ELSE SumOf(F, Children(g, n))
           Part(F, k) == F \in [D(k) -> Int] /\ \A n \in D(k) : F[n] = value(F, n)
           K == {k \in Nat : \E F : Part(F, k)}
           N == Cardinality(g.nodes) + 1
<1>0. /\ \A n \in g.nodes : /\ Size(g, n) \in Nat /\ Size(g, n) < N
                            /\ IsFiniteSet(Children(g, n))
                            /\ Children(g, n) \subseteq g.nodes
                            /\ \A c \in Children(g, n) : Size(g, c) < Size(g, n)
      /\ N \in Nat
  BY TreeFacts
<1>1. 0 \in K
  <2>1. D(0) = {}
    BY <1>0
  <2>2. Part([n \in D(0) |-> 0], 0)
    BY <2>1
  <2> QED
    BY <2>2
<1>2. ASSUME NEW k \in K \intersect Nat
      PROVE  k + 1 \in K
  <2>0. k \in Nat /\ \E F : Part(F, k)
    <3> HIDE DEF Part
    <3> QED
      OBVIOUS
  <2>1. PICK F : Part(F, k)
    <3> HIDE DEF Part
    <3> QED
      BY <2>0
  <2> DEFINE G == [n \in D(k + 1) |-> value(F, n)]
  <2>2. ASSUME NEW n \in D(k + 1)
        PROVE  /\ n \in g.nodes /\ Children(g, n) \subseteq D(k)
               /\ IsFiniteSet(Children(g, n))
    BY <1>0, <2>0
  <2>3. ASSUME NEW n \in D(k + 1)
        PROVE  value(F, n) \in Int
    <3>1. SumOf(F, Children(g, n)) \in Int
      <4>1. \A c \in Children(g, n) : F[c] \in Int
        BY <2>1, <2>2
      <4> QED
        BY <2>2, <4>1, SumPicked
    <3> QED
      BY <2>2, <3>1
  <2>4. D(k) \subseteq D(k + 1)
    BY <1>0, <2>0
  <2>5. G \in [D(k + 1) -> Int] /\ \A n \in D(k) : G[n] = F[n]
    BY <2>1, <2>3, <2>4
  <2>6. ASSUME NEW n \in D(k + 1)
        PROVE  G[n] = value(G, n)
    <3>1. SumOf(G, Children(g, n)) = SumOf(F, Children(g, n))
      <4>1. \A c \in Children(g, n) : G[c] = F[c]
        BY <2>2, <2>5
      <4> HIDE DEF G
      <4> QED
        BY <4>1, SumSame
    <3> QED
      BY <3>1
  <2> HIDE DEF G, D
  <2>7. Part(G, k + 1)
    BY <2>5, <2>6
  <2>8. \E H : Part(H, k + 1)
    <3> HIDE DEF Part
    <3> QED
      BY <2>7
  <2> QED
    <3> HIDE DEF Part
    <3> QED
      BY <2>0, <2>8
<1>3. N \in K
  <2> HIDE DEF K
  <2> QED
    BY <1>0, <1>1, <1>2, AllNumbers
<1>4. PICK F : Part(F, N)
  <2> HIDE DEF Part
  <2> QED
    BY <1>3
<1>5. D(N) = g.nodes
  BY <1>0
<1>6. F = [n \in g.nodes |->
             IF n \in Leaves(g) THEN values[n] ELSE SumOf(F, Children(g, n))]
  BY <1>4, <1>5
<1> QED
  BY <1>6 DEF Ups, Total, SumOf

\* Aggregation keeps the leaves and sums the children of every other node.
LEMMA UpFacts ==
  ASSUME NEW g, IsGraph(g), Accepts(g), NEW values,
         \A n \in g.nodes : values[n] \in Int
  PROVE  LET up == AggregateUp(g, values)
         IN \A n \in g.nodes :
              /\ up[n] \in Int
              /\ up[n] = IF n \in Leaves(g) THEN values[n]
                         ELSE SumOf(up, Children(g, n))
<1> DEFINE up == AggregateUp(g, values)
<1>1. up = CHOOSE F : Ups(F, g, values)
  BY DEF AggregateUp, Ups
<1>2. Ups(up, g, values)
  BY <1>1, UpExists
<1> HIDE DEF up
<1>3. \A n \in g.nodes : up[n] = IF n \in Leaves(g) THEN values[n]
                                 ELSE SumOf(up, Children(g, n))
  BY <1>2 DEF Ups, Total, SumOf
<1>4. \A n \in g.nodes : up[n] \in Int
  <2> DEFINE f == [n \in g.nodes |-> Size(g, n)]
             Q == {n \in g.nodes : up[n] \in Int}
  <2>1. f \in [g.nodes -> Nat]
    BY TreeFacts
  <2>2. ASSUME NEW n \in g.nodes, \A m \in g.nodes : f[m] < f[n] => m \in Q
        PROVE  n \in Q
    <3>1. IsFiniteSet(Children(g, n)) /\ \A c \in Children(g, n) : up[c] \in Int
      BY <2>2, TreeFacts
    <3>2. SumOf(up, Children(g, n)) \in Int
      BY <3>1, SumPicked
    <3> QED
      BY <1>3, <3>2
  <2>3. g.nodes \subseteq Q
    <3> HIDE DEF f, Q
    <3> QED
      BY <2>1, <2>2, ByMeasure
  <2> QED
    BY <2>3
<1> QED
  BY <1>3, <1>4 DEF up

\* What is below the anchors is closed under children, and each of it has its
\* parent there or among the anchors.
LEMMA BelowFacts ==
  ASSUME NEW g, IsGraph(g), Accepts(g), NEW anchors, anchors \subseteq g.nodes
  PROVE  /\ Below(g, anchors) \subseteq g.nodes
         /\ \A a \in anchors \union Below(g, anchors) :
              Children(g, a) \subseteq Below(g, anchors)
         /\ \A n \in Below(g, anchors) :
              HasParent(g, n) /\ Parent(g, n) \in anchors \union Below(g, anchors)
         /\ \A X : (\A a \in anchors \union X : Children(g, a) \subseteq X)
                     => Below(g, anchors) \subseteq X
<1> DEFINE E == g.edges
           sources == UNION {Children(g, a) : a \in anchors}
           below == Below(g, anchors)
<1>1. \A n, m : m \in Children(g, n) <=> \E e \in E : e[1] = n /\ e[2] = m
  BY DEF Children
<1>2. /\ sources \subseteq below /\ Closed(E, below)
      /\ \A X : sources \subseteq X /\ Closed(E, X) => below \subseteq X
  BY ReachedClosed DEF Below, IsGraph
<1> HIDE DEF below
<1>3. \A a \in anchors \union below : Children(g, a) \subseteq below
  BY <1>1, <1>2 DEF Closed
<1>4. ASSUME NEW X, \A a \in anchors \union X : Children(g, a) \subseteq X
      PROVE  below \subseteq X
  <2>1. sources \subseteq X
    BY <1>4
  <2>2. Closed(E, X)
    BY <1>1, <1>4 DEF Closed
  <2> QED
    BY <1>2, <2>1, <2>2
<1> DEFINE X == {m \in below : m \in g.nodes /\ HasParent(g, m)
                                 /\ Parent(g, m) \in anchors \union below}
<1>5. ASSUME NEW a \in anchors \union X, NEW c \in Children(g, a)
      PROVE  c \in X
  <2>1. a \in g.nodes /\ a \in anchors \union below
    OBVIOUS
  <2>2. c \in g.nodes /\ HasParent(g, c) /\ Parent(g, c) = a
    BY <2>1, TreeFacts
  <2> QED
    BY <1>3, <2>1, <2>2
<1>6. below \subseteq X
  <2> HIDE DEF X
  <2> QED
    BY <1>4, <1>5
<1> QED
  BY <1>3, <1>4, <1>6 DEF below

\* The weights of children are not negative, and some weight counts.
LEMMA RawFacts ==
  ASSUME NEW g, IsGraph(g), Accepts(g), NEW weight,
         \A n \in g.nodes : weight[n] \in Int,
         NEW p \in g.nodes, Children(g, p) # {}
  PROVE  LET raw == Raw(g, weight, p)
         IN /\ DOMAIN raw = Children(g, p)
            /\ \A c \in Children(g, p) : raw[c] \in Nat
            /\ SumOf(raw, Children(g, p)) \in Nat \ {0}
<1> DEFINE C == Children(g, p)
           clipped == [n \in C |-> ClippedWeight(weight[n])]
           ones == [n \in C |-> 1]
<1>1. IsFiniteSet(C) /\ C \subseteq g.nodes
  BY TreeFacts
<1>2. \A c \in C : clipped[c] \in Nat /\ ones[c] = 1
  BY <1>1 DEF ClippedWeight
<1>3. Raw(g, weight, p) = IF SumOf(clipped, C) = 0 THEN ones ELSE clipped
  BY DEF Raw, Total, SumOf
<1>4. DOMAIN clipped = C /\ DOMAIN ones = C
  OBVIOUS
<1> HIDE DEF clipped, ones, C
<1>5. SumOf(clipped, C) \in Nat
  BY <1>1, <1>2, SumNat
<1>6. SumOf(ones, C) \in Nat /\ \A c \in C : ones[c] <= SumOf(ones, C)
  <2>1. \A c \in C : ones[c] \in Nat
    BY <1>2
  <2> QED
    BY <1>1, <2>1, SumNat
<1>7. SumOf(ones, C) # 0
  <2>1. PICK c \in C : TRUE
    BY DEF C
  <2> QED
    BY <1>2, <1>6, <2>1
<1>8. CASE SumOf(clipped, C) = 0
  BY <1>2, <1>3, <1>4, <1>6, <1>7, <1>8 DEF C
<1>9. CASE SumOf(clipped, C) # 0
  BY <1>2, <1>3, <1>4, <1>5, <1>9 DEF C
<1> QED
  BY <1>8, <1>9

\* A share of an integer is one.
LEMMA ShareInt ==
  ASSUME NEW g, IsGraph(g), Accepts(g), NEW weight,
         \A n \in g.nodes : weight[n] \in Int,
         NEW n \in g.nodes, HasParent(g, n), NEW total \in Int
  PROVE  Share(g, weight, total, n) \in Int
<1> DEFINE p == Parent(g, n)
           raw == Raw(g, weight, p)
<1>1. p \in g.nodes /\ n \in Children(g, p)
  BY TreeFacts
<1>2. /\ DOMAIN raw = Children(g, p) /\ raw[n] \in Nat
      /\ SumOf(raw, DOMAIN raw) \in Nat \ {0}
  BY <1>1, RawFacts
<1>3. Share(g, weight, total, n) = (total * raw[n]) \div SumOf(raw, DOMAIN raw)
  BY DEF Share, Total, SumOf
<1> HIDE DEF raw
<1>4. total * raw[n] \in Int
  BY <1>2
<1> QED
  BY <1>2, <1>3, <1>4

\* The recursive function that AllocateDown is.
Downs(F, g, weight, values, anchors) ==
  F = [n \in g.nodes |->
         IF n \in Below(g, anchors)
         THEN Share(g, weight, F[Parent(g, n)], n)
         ELSE values[n]]

\* There is such a function: it is built from the nodes with many below them.
LEMMA DownExists ==
  ASSUME NEW g, IsGraph(g), Accepts(g), NEW weight, NEW values,
         \A n \in g.nodes : weight[n] \in Int /\ values[n] \in Int,
         NEW anchors, anchors \subseteq g.nodes
  PROVE  \E F : /\ Downs(F, g, weight, values, anchors)
                /\ \A n \in g.nodes : F[n] \in Int
<1> DEFINE N == Cardinality(g.nodes)
           below == Below(g, anchors)
           D(k) == {n \in g.nodes : N - Size(g, n) < k}
           value(F, n) == IF n \in below THEN Share(g, weight, F[Parent(g, n)], n)
                          ELSE values[n]
           Part(F, k) == F \in [D(k) -> Int] /\ \A n \in D(k) : F[n] = value(F, n)
           K == {k \in Nat : \E F : Part(F, k)}
<1>0. /\ \A n \in g.nodes : Size(g, n) \in Nat /\ Size(g, n) <= N
      /\ \A n \in below : /\ n \in g.nodes /\ Parent(g, n) \in g.nodes
                          /\ Size(g, n) < Size(g, Parent(g, n))
      /\ N \in Nat
  <2>1. \A n \in below : n \in g.nodes /\ HasParent(g, n)
    BY BelowFacts
  <2> QED
    BY <2>1, TreeFacts
<1>1. 0 \in K
  <2>1. D(0) = {}
    BY <1>0
  <2>2. Part([n \in D(0) |-> 0], 0)
    BY <2>1
  <2> QED
    BY <2>2
<1>2. ASSUME NEW k \in K \intersect Nat
      PROVE  k + 1 \in K
  <2>0. k \in Nat /\ \E F : Part(F, k)
    <3> HIDE DEF Part
    <3> QED
      OBVIOUS
  <2>1. PICK F : Part(F, k)
    <3> HIDE DEF Part
    <3> QED
      BY <2>0
  <2> DEFINE G == [n \in D(k + 1) |-> value(F, n)]
  <2>2. ASSUME NEW n \in D(k + 1), n \in below
        PROVE  Parent(g, n) \in D(k)
    BY <1>0, <2>0, <2>2
  <2>3. ASSUME NEW n \in D(k + 1)
        PROVE  value(F, n) \in Int
    <3>1. CASE n \in below
      <4>1. F[Parent(g, n)] \in Int
        BY <2>1, <2>2, <3>1
      <4>2. Share(g, weight, F[Parent(g, n)], n) \in Int
        BY <3>1, <4>1, BelowFacts, ShareInt
      <4> QED
        BY <3>1, <4>2
    <3>2. CASE n \notin below
      BY <3>2
    <3> QED
      BY <3>1, <3>2
  <2>4. D(k) \subseteq D(k + 1)
    BY <1>0, <2>0
  <2>5. G \in [D(k + 1) -> Int] /\ \A n \in D(k) : G[n] = F[n]
    BY <2>1, <2>3, <2>4
  <2>6. ASSUME NEW n \in D(k + 1)
        PROVE  G[n] = value(G, n)
    <3>1. n \in below => G[Parent(g, n)] = F[Parent(g, n)]
      BY <2>2, <2>5
    <3> QED
      BY <3>1
  <2> HIDE DEF G, D
  <2>7. Part(G, k + 1)
    BY <2>5, <2>6
  <2>8. \E H : Part(H, k + 1)
    <3> HIDE DEF Part
    <3> QED
      BY <2>7
  <2> QED
    <3> HIDE DEF Part
    <3> QED
      BY <2>0, <2>8
<1>3. N + 1 \in K
  <2> HIDE DEF K
  <2> QED
    BY <1>0, <1>1, <1>2, AllNumbers
<1>4. PICK F : Part(F, N + 1)
  <2> HIDE DEF Part
  <2> QED
    BY <1>3
<1>5. D(N + 1) = g.nodes
  BY <1>0
<1> QED
  BY <1>4, <1>5 DEF Downs

\* Allocation gives every node an integer and keeps what is not below an anchor.
LEMMA DownFacts ==
  ASSUME NEW g, IsGraph(g), Accepts(g), NEW weight, NEW values,
         \A n \in g.nodes : weight[n] \in Int /\ values[n] \in Int,
         NEW anchors, anchors \subseteq g.nodes
  PROVE  LET down == AllocateDown(g, weight, values, anchors)
         IN /\ \A n \in g.nodes : down[n] \in Int
            /\ \A n \in g.nodes \ Below(g, anchors) : down[n] = values[n]
<1> DEFINE down == AllocateDown(g, weight, values, anchors)
           f == [n \in g.nodes |-> Cardinality(g.nodes) - Size(g, n)]
           Q == {n \in g.nodes : down[n] \in Int}
<1>1. down = CHOOSE F : Downs(F, g, weight, values, anchors)
  BY DEF AllocateDown, Downs
<1>2. Downs(down, g, weight, values, anchors)
  <2>1. \E F : Downs(F, g, weight, values, anchors)
    BY DownExists
  <2> HIDE DEF down
  <2> QED
    BY <1>1, <2>1
<1> HIDE DEF down
<1>3. \A n \in g.nodes : down[n] = IF n \in Below(g, anchors)
                                   THEN Share(g, weight, down[Parent(g, n)], n)
                                   ELSE values[n]
  BY <1>2 DEF Downs
<1>4. f \in [g.nodes -> Nat]
  BY TreeFacts
<1>5. ASSUME NEW n \in g.nodes, \A m \in g.nodes : f[m] < f[n] => m \in Q
      PROVE  n \in Q
  <2>1. CASE n \in Below(g, anchors)
    <3> DEFINE p == Parent(g, n)
    <3>1. HasParent(g, n)
      BY <2>1, BelowFacts
    <3>2. p \in g.nodes /\ Size(g, n) < Size(g, p)
      BY <3>1, TreeFacts
    <3>3. f[p] < f[n]
      BY <3>2, TreeFacts
    <3>4. Share(g, weight, down[p], n) \in Int
      BY <1>5, <3>1, <3>2, <3>3, ShareInt
    <3> QED
      BY <1>3, <2>1, <3>4
  <2>2. CASE n \notin Below(g, anchors)
    BY <1>3, <2>2
  <2> QED
    BY <2>1, <2>2
<1>6. g.nodes \subseteq Q
  <2> HIDE DEF f, Q
  <2> QED
    BY <1>4, <1>5, ByMeasure
<1> QED
  BY <1>3, <1>6 DEF down

\* Fractions of one denominator are ordered as their numerators are.
LEMMA CancelTimes ==
  ASSUME NEW t \in Nat \ {0}, NEW r \in Nat, NEW a \in Int, NEW b \in Int,
         NEW c \in Int, NEW d \in Int, a * t = b * r, c * t = d * r, b <= d
  PROVE  a <= c
<1>1. b * r <= d * r
  <2>1. PICK k \in Nat : d = b + k
    <3>1. d - b \in Nat /\ d = b + (d - b)
      OBVIOUS
    <3> QED
      BY <3>1
  <2>2. d * r = b * r + k * r
    BY <2>1
  <2>3. k * r >= 0
    BY <2>1
  <2> QED
    BY <2>2, <2>3
<1>2. ASSUME c < a
      PROVE  c * t < a * t
  <2>1. PICK k \in Nat \ {0} : a = c + k
    <3>1. a - c \in Nat \ {0} /\ a = c + (a - c)
      BY <1>2
    <3> QED
      BY <3>1
  <2>2. a * t = c * t + k * t
    BY <2>1
  <2>3. k * t > 0
    BY <2>1
  <2> QED
    BY <2>2, <2>3
<1>3. a * t \in Int /\ c * t \in Int
  OBVIOUS
<1> QED
  BY <1>1, <1>2, <1>3

\* What the children of a node are allocated adds up to what it has, whatever
\* the weights: the raw weights add up to what each share is divided by.
LEMMA DownShares ==
  ASSUME NEW g, IsGraph(g), Accepts(g), NEW weight, NEW values,
         \A n \in g.nodes : weight[n] \in Int /\ values[n] \in Int,
         NEW anchors, anchors \subseteq g.nodes,
         SharesDivide(g, weight, values, anchors),
         NEW p \in (anchors \union Below(g, anchors)) \ Leaves(g)
  PROVE  LET down == AllocateDown(g, weight, values, anchors)
         IN down[p] = SumOf(down, Children(g, p))
<1> DEFINE down == AllocateDown(g, weight, values, anchors)
           raw == Raw(g, weight, p)
           C == Children(g, p)
           T == SumOf(raw, C)
<1>1. /\ p \in g.nodes /\ C # {} /\ C \subseteq Below(g, anchors)
      /\ Below(g, anchors) \subseteq g.nodes
  BY BelowFacts DEF Leaves
<1>2. IsFiniteSet(C) /\ \A c \in C : Parent(g, c) = p
  BY <1>1, TreeFacts
<1>3. T \in Nat \ {0} /\ \A c \in C : raw[c] \in Nat
  BY <1>1, RawFacts
<1>4. \A n \in g.nodes : down[n] \in Int
  BY DownFacts
<1>5. \A n \in Below(g, anchors) :
        down[n] * SumOf(Raw(g, weight, Parent(g, n)), Children(g, Parent(g, n)))
          = down[Parent(g, n)] * Raw(g, weight, Parent(g, n))[n]
  BY DEF SharesDivide, Total, SumOf
<1>6. \A c \in C : down[c] * T = down[p] * raw[c]
  BY <1>1, <1>2, <1>5
<1>7. \A c \in C : down[c] \in Int
  BY <1>1, <1>4
<1>8. SumOf(down, C) \in Int /\ down[p] \in Int
  BY <1>1, <1>2, <1>4, <1>7, SumPicked
<1> HIDE DEF down, raw, C
<1>9. SumOf(down, C) * T = down[p] * T
  <2> HIDE DEF T
  <2>1. \A c \in C : down[c] \in Int /\ raw[c] \in Int /\ down[c] * T = down[p] * raw[c]
    BY <1>3, <1>6, <1>7
  <2>2. SumOf(down, C) * T = down[p] * SumOf(raw, C)
    BY <1>2, <1>3, <1>8, <2>1, SumTimes
  <2> QED
    BY <2>2 DEF T
<1> HIDE DEF T
<1>10. SumOf(down, C) <= down[p] /\ down[p] <= SumOf(down, C)
  <2> DEFINE s == SumOf(down, C)
             d == down[p]
  <2>1. s \in Int /\ d \in Int /\ s * T = d * T
    BY <1>8, <1>9
  <2>2. T \in Nat
    BY <1>3
  <2> HIDE DEF s, d
  <2>3. d * T = s * T
    BY <2>1
  <2>4. s <= d
    <3>1. CASE s <= d
      BY <3>1
    <3>2. CASE d <= s
      <4>1. d * T = s * T /\ s * T = s * T
        BY <2>3
      <4> QED
        BY <1>3, <2>1, <2>2, <3>2, <4>1, CancelTimes
    <3> QED
      BY <2>1, <3>1, <3>2
  <2>5. d <= s
    <3>1. CASE d <= s
      BY <3>1
    <3>2. CASE s <= d
      BY <1>3, <2>1, <2>2, <3>2, CancelTimes
    <3> QED
      BY <2>1, <3>1, <3>2
  <2> QED
    BY <2>4, <2>5 DEF s, d
<1> QED
  BY <1>8, <1>10 DEF down, C

\* Aggregation keeps the order of two quantiles.
LEMMA UpOrdered ==
  ASSUME NEW g, IsGraph(g), Accepts(g), NEW v, NEW w,
         \A n \in g.nodes : v[n] \in Int /\ w[n] \in Int /\ v[n] <= w[n]
  PROVE  \A n \in g.nodes : AggregateUp(g, v)[n] <= AggregateUp(g, w)[n]
<1> DEFINE up == AggregateUp(g, v)
           over == AggregateUp(g, w)
           f == [n \in g.nodes |-> Size(g, n)]
           Q == {n \in g.nodes : up[n] <= over[n]}
<1>1. \A n \in g.nodes :
        /\ up[n] \in Int
        /\ up[n] = IF n \in Leaves(g) THEN v[n] ELSE SumOf(up, Children(g, n))
  BY UpFacts
<1>2. \A n \in g.nodes :
        /\ over[n] \in Int
        /\ over[n] = IF n \in Leaves(g) THEN w[n] ELSE SumOf(over, Children(g, n))
  BY UpFacts
<1> HIDE DEF up, over
<1>3. f \in [g.nodes -> Nat]
  BY TreeFacts
<1>4. ASSUME NEW n \in g.nodes, \A m \in g.nodes : f[m] < f[n] => m \in Q
      PROVE  n \in Q
  <2>1. \A c \in Children(g, n) :
          up[c] \in Int /\ over[c] \in Int /\ up[c] <= over[c]
    BY <1>1, <1>2, <1>4, TreeFacts
  <2>2. SumOf(up, Children(g, n)) <= SumOf(over, Children(g, n))
    <3>1. IsFiniteSet(Children(g, n))
      BY TreeFacts
    <3> QED
      BY <2>1, <3>1, SumOrdered
  <2> QED
    BY <1>1, <1>2, <2>2
<1>5. g.nodes \subseteq Q
  <2> HIDE DEF f, Q
  <2> QED
    BY <1>3, <1>4, ByMeasure
<1> QED
  BY <1>5 DEF up, over

\* Allocation keeps the order of two quantiles, because both are divided by the
\* same weights and none of them is negative.
LEMMA DownOrdered ==
  ASSUME NEW g, IsGraph(g), Accepts(g), NEW weight, NEW v, NEW w,
         \A n \in g.nodes : weight[n] \in Int,
         \A n \in g.nodes : v[n] \in Int /\ w[n] \in Int /\ v[n] <= w[n],
         NEW anchors, anchors \subseteq g.nodes,
         SharesDivide(g, weight, v, anchors), SharesDivide(g, weight, w, anchors)
  PROVE  \A n \in g.nodes :
           AllocateDown(g, weight, v, anchors)[n] <= AllocateDown(g, weight, w, anchors)[n]
<1> DEFINE down == AllocateDown(g, weight, v, anchors)
           over == AllocateDown(g, weight, w, anchors)
           f == [n \in g.nodes |-> Cardinality(g.nodes) - Size(g, n)]
           Q == {n \in g.nodes : down[n] <= over[n]}
           all(n) == SumOf(Raw(g, weight, Parent(g, n)), Children(g, Parent(g, n)))
           part(n) == Raw(g, weight, Parent(g, n))[n]
<1>1. \A n \in Below(g, anchors) :
        /\ down[n] * all(n) = down[Parent(g, n)] * part(n)
        /\ over[n] * all(n) = over[Parent(g, n)] * part(n)
  BY DEF SharesDivide, Total, SumOf
<1>2. /\ \A n \in g.nodes : down[n] \in Int /\ over[n] \in Int
      /\ \A n \in g.nodes \ Below(g, anchors) : down[n] = v[n] /\ over[n] = w[n]
  BY DownFacts
<1> HIDE DEF down, over
<1>3. f \in [g.nodes -> Nat]
  BY TreeFacts
<1>4. ASSUME NEW n \in g.nodes, \A m \in g.nodes : f[m] < f[n] => m \in Q
      PROVE  n \in Q
  <2>1. CASE n \in Below(g, anchors)
    <3> DEFINE p == Parent(g, n)
    <3>1. HasParent(g, n)
      BY <2>1, BelowFacts
    <3>2. p \in g.nodes /\ n \in Children(g, p) /\ Size(g, n) < Size(g, p)
      BY <3>1, TreeFacts
    <3>3. f[p] < f[n]
      BY <3>2, TreeFacts
    <3>4. down[p] <= over[p] /\ down[p] \in Int /\ over[p] \in Int
      BY <1>2, <1>4, <3>2, <3>3
    <3>5. all(n) \in Nat \ {0} /\ part(n) \in Nat
      BY <3>2, RawFacts
    <3>6. /\ down[n] * all(n) = down[p] * part(n)
          /\ over[n] * all(n) = over[p] * part(n)
      BY <1>1, <2>1
    <3>7. down[n] \in Int /\ over[n] \in Int
      BY <1>2
    <3> HIDE DEF all, part, p
    <3>8. down[n] <= over[n]
      BY <3>4, <3>5, <3>6, <3>7, CancelTimes
    <3> QED
      BY <3>8
  <2>2. CASE n \notin Below(g, anchors)
    BY <1>2, <2>2
  <2> QED
    BY <2>1, <2>2
<1>5. g.nodes \subseteq Q
  <2> HIDE DEF f, Q
  <2> QED
    BY <1>3, <1>4, ByMeasure
<1> QED
  BY <1>5 DEF down, over

\* What a node reaches is itself and what its children reach, and no two
\* children reach the same node.
LEMMA TreesApart ==
  ASSUME NEW g, IsGraph(g), Accepts(g), NEW p \in g.nodes
  PROVE  /\ p \in Reached(g.edges, {p})
         /\ Reached(g.edges, {p})
              = {p} \union UNION {Reached(g.edges, {c}) : c \in Children(g, p)}
         /\ \A c, d \in Children(g, p) :
              c # d => Reached(g.edges, {c}) \intersect Reached(g.edges, {d}) = {}
<1> DEFINE E == g.edges
           R(n) == Reached(E, {n})
           C == Children(g, p)
           below == Reached(E, C)
<1>1. \A n : /\ n \in R(n) /\ Closed(E, R(n))
             /\ \A X : n \in X /\ Closed(E, X) => R(n) \subseteq X
  <2> TAKE n
  <2>1. /\ {n} \subseteq R(n) /\ Closed(E, R(n))
        /\ \A X : {n} \subseteq X /\ Closed(E, X) => R(n) \subseteq X
    BY ReachedClosed DEF IsGraph
  <2> HIDE DEF R
  <2> QED
    BY <2>1
<1>2. C \subseteq below /\ Closed(E, below) /\ p \notin below
  BY ReachedClosed, TreeFacts DEF IsGraph
<1>3. \A n, m : m \in Children(g, n) <=> \E e \in E : e[1] = n /\ e[2] = m
  BY DEF Children
<1>4. \A e \in E : e[1] \in g.nodes /\ e[2] \in Children(g, e[1])
                   /\ Parent(g, e[2]) = e[1]
  <2>1. \A e \in E : e[1] \in g.nodes /\ e[2] \in Children(g, e[1])
    BY <1>3 DEF Accepts
  <2> QED
    BY <2>1, TreeFacts
<1>5. \A c \in C : Parent(g, c) = p
  BY TreeFacts
<1> HIDE DEF R, below
<1>6. R(p) = {p} \union UNION {R(c) : c \in C}
  <2> DEFINE X == {p} \union UNION {R(c) : c \in C}
  <2>1. Closed(E, X)
    BY <1>1, <1>3 DEF Closed
  <2>2. \A c \in C : R(c) \subseteq R(p)
    <3> TAKE c \in C
    <3>1. c \in R(p)
      BY <1>1, <1>3 DEF Closed
    <3> QED
      BY <1>1, <3>1
  <2> QED
    BY <1>1, <2>1, <2>2
<1>7. \A c \in C : p \notin R(c)
  BY <1>1, <1>2
<1>8. ASSUME NEW d \in C, NEW e \in E, e[2] \in R(d), e[2] # d
      PROVE  e[1] \in R(d)
  <2> DEFINE X == {m \in R(d) : m = d \/ Parent(g, m) \in R(d)}
  <2>1. d \in X
    BY <1>1
  <2>2. Closed(E, X)
    BY <1>1, <1>4 DEF Closed
  <2>3. R(d) \subseteq X
    <3> HIDE DEF X
    <3> QED
      BY <1>1, <2>1, <2>2
  <2> QED
    BY <1>4, <1>8, <2>3
<1>9. ASSUME NEW c \in C, NEW d \in C, c # d
      PROVE  R(c) \intersect R(d) = {}
  <2> DEFINE X == R(c) \ R(d)
  <2>1. c \notin R(d)
    <3>1. PICK e \in E : e[1] = p /\ e[2] = c
      BY <1>3
    <3> QED
      BY <1>7, <1>8, <1>9, <3>1
  <2>2. Closed(E, X)
    <3> SUFFICES ASSUME NEW e \in E, e[1] \in R(c), e[1] \notin R(d)
                 PROVE  e[2] \in R(c) /\ e[2] \notin R(d)
      BY DEF Closed
    <3>1. e[2] \in R(c)
      BY <1>1 DEF Closed
    <3>2. e[2] # d
      BY <1>4, <1>5, <1>7
    <3> QED
      BY <1>8, <3>1, <3>2
  <2>3. R(c) \subseteq X
    BY <1>1, <2>1, <2>2
  <2> QED
    BY <2>3
<1> QED
  BY <1>1, <1>6, <1>9 DEF R

\* The sums that ancestors get from the leaves are coherent: the leaves below a
\* node are those below its children, each below one of them.
LEMMA ExpandCoherent ==
  ASSUME NEW g, IsGraph(g), Accepts(g), NEW values,
         \A n \in g.nodes : values[n] \in Int
  PROVE  Coherent(g, Expand(g, values))
<1> DEFINE R(n) == Reached(g.edges, {n})
           L(n) == {m \in Leaves(g) : m \in R(n)}
           sums == Expand(g, values)
<1>1. sums = [n \in g.nodes |-> SumOf(values, L(n))]
  BY DEF Expand, Total, SumOf
<1>2. Leaves(g) \subseteq g.nodes /\ IsFiniteSet(Leaves(g))
  BY FS_Subset DEF Leaves, IsGraph
<1>3. \A n : IsFiniteSet(L(n)) /\ \A m \in L(n) : values[m] \in Int
  <2> TAKE n
  <2>1. L(n) \subseteq Leaves(g)
    OBVIOUS
  <2> QED
    BY <1>2, <2>1, FS_Subset
<1> HIDE DEF sums
<1>4. ASSUME NEW p \in g.nodes \ Leaves(g)
      PROVE  sums[p] = SumOf(sums, Children(g, p))
  <2> DEFINE C == Children(g, p)
             P == [c \in C |-> L(c)]
  <2>1. /\ R(p) = {p} \union UNION {R(c) : c \in C}
        /\ \A c, d \in C : c # d => R(c) \intersect R(d) = {}
    BY TreesApart
  <2>2. IsFiniteSet(C) /\ C \subseteq g.nodes
    BY TreeFacts
  <2> HIDE DEF R
  <2>3. L(p) = UNION {P[c] : c \in C}
    BY <2>1
  <2>4. \A c \in C : /\ IsFiniteSet(P[c]) /\ \A x \in P[c] : values[x] \in Int
                     /\ sums[c] = SumOf(values, P[c])
    BY <1>1, <1>3, <2>2
  <2>5. \A c, d \in C : c # d => P[c] \intersect P[d] = {}
    BY <2>1
  <2> HIDE DEF P, C, L
  <2>6. SumOf(values, UNION {P[c] : c \in C}) = SumOf(sums, C)
    BY <2>2, <2>4, <2>5, SumGroups
  <2>7. sums[p] = SumOf(values, L(p))
    BY <1>1
  <2> QED
    BY <2>3, <2>6, <2>7 DEF C
<1> QED
  BY <1>4 DEF Coherent, Total, SumOf, sums

\* Anchors are nodes, and none is below another, so that each keeps its value;
\* from the roots everything is allocated.
LEMMA AnchorsFacts ==
  ASSUME NEW g, IsGraph(g), Accepts(g),
         \A e \in g.edges : g.level[e[1]] < g.level[e[2]],
         NEW method, NEW middle, method \in {"bottom_up", "top_down", "middle_out"}
  PROVE  LET anchors == Anchors(g, method, middle)
         IN /\ anchors \subseteq g.nodes
            /\ method = "bottom_up" => anchors = Leaves(g)
            /\ anchors \intersect Below(g, anchors) = {}
            /\ method = "top_down" => g.nodes \subseteq anchors \union Below(g, anchors)
<1> DEFINE A == Anchors(g, method, middle)
           below == Below(g, A)
<1>1. /\ method = "bottom_up" => A = Leaves(g)
      /\ method = "top_down" => A = Roots(g)
      /\ method = "middle_out" => A = {n \in g.nodes : g.level[n] = middle}
  BY DEF Anchors
<1>2. A \subseteq g.nodes
  BY <1>1 DEF Leaves, Roots
<1> HIDE DEF A
<1>3. /\ below \subseteq g.nodes
      /\ \A a \in A \union below : Children(g, a) \subseteq below
      /\ \A n \in below : HasParent(g, n)
      /\ \A X : (\A a \in A \union X : Children(g, a) \subseteq X) => below \subseteq X
  BY <1>2, BelowFacts
<1> HIDE DEF below
<1>4. \A n, m : m \in Children(g, n) <=> \E e \in g.edges : e[1] = n /\ e[2] = m
  BY DEF Children
<1>5. CASE method = "bottom_up"
  <2>1. \A a \in A \union {} : Children(g, a) \subseteq {}
    BY <1>1, <1>5 DEF Leaves
  <2>2. below \subseteq {}
    BY <1>3, <2>1
  <2> QED
    BY <1>1, <1>2, <1>5, <2>2 DEF A, below
<1>6. CASE method = "top_down"
  <2>1. A = Roots(g) /\ A \intersect below = {}
    BY <1>1, <1>3, <1>6 DEF Roots
  <2>2. Closed(g.edges, A \union below)
    BY <1>3, <1>4 DEF Closed
  <2>3. g.nodes \subseteq A \union below
    <3>1. Reached(g.edges, Roots(g)) = g.nodes /\ IsFiniteSet(g.edges)
      BY DEF Accepts, IsGraph
    <3>2. Roots(g) \subseteq A \union below
      BY <2>1
    <3> QED
      BY <2>2, <3>1, <3>2, ReachedClosed
  <2> QED
    BY <1>2, <1>6, <2>1, <2>3 DEF A, below
<1>7. CASE method = "middle_out"
  <2> DEFINE X == {n \in g.nodes : \A a \in A : g.level[a] < g.level[n]}
  <2>1. A = {n \in g.nodes : g.level[n] = middle}
    BY <1>1, <1>7
  <2>2. \A n \in g.nodes : g.level[n] \in Nat
    BY DEF IsGraph
  <2>3. ASSUME NEW a \in A \union X, NEW c \in Children(g, a)
        PROVE  c \in X
    <3>1. a \in g.nodes /\ c \in g.nodes
      BY <1>2, TreeFacts
    <3>2. g.level[a] < g.level[c]
      BY <1>4
    <3>3. \A b \in A : g.level[b] <= g.level[a]
      BY <1>2, <2>1, <2>2
    <3> QED
      BY <1>2, <2>2, <3>1, <3>2, <3>3
  <2>4. below \subseteq X
    <3> HIDE DEF X
    <3> QED
      BY <1>3, <2>3
  <2>5. A \intersect below = {}
    BY <1>2, <2>2, <2>4
  <2> QED
    BY <1>2, <1>7, <2>5 DEF A, below
<1> QED
  BY <1>5, <1>6, <1>7

\* Values that a method can reconcile without loss.
Reconcilable(g, weight, values, method, middle) ==
  /\ \A n \in g.nodes : weight[n] \in Int /\ values[n] \in Int
  /\ method # "bottom_up" =>
       SharesDivide(g, weight, values, Anchors(g, method, middle))

\* Aggregating what was allocated changes nothing at the anchors and below them.
LEMMA UpKeepsDown ==
  ASSUME NEW g, IsGraph(g), Accepts(g), NEW weight, NEW values,
         \A n \in g.nodes : weight[n] \in Int /\ values[n] \in Int,
         NEW anchors, anchors \subseteq g.nodes,
         SharesDivide(g, weight, values, anchors)
  PROVE  LET down == AllocateDown(g, weight, values, anchors)
         IN \A n \in anchors \union Below(g, anchors) :
              AggregateUp(g, down)[n] = down[n]
<1> DEFINE down == AllocateDown(g, weight, values, anchors)
           up == AggregateUp(g, down)
           reach == anchors \union Below(g, anchors)
           f == [n \in g.nodes |-> Size(g, n)]
           Q == {n \in g.nodes : n \in reach => up[n] = down[n]}
<1>1. \A n \in g.nodes : down[n] \in Int
  BY DownFacts
<1>2. \A p \in reach \ Leaves(g) : down[p] = SumOf(down, Children(g, p))
  BY DownShares
<1> HIDE DEF down
<1>3. \A n \in g.nodes : up[n] = IF n \in Leaves(g) THEN down[n]
                                 ELSE SumOf(up, Children(g, n))
  BY <1>1, UpFacts
<1>4. reach \subseteq g.nodes /\ \A a \in reach : Children(g, a) \subseteq reach
  BY BelowFacts
<1> HIDE DEF up, reach
<1>5. f \in [g.nodes -> Nat]
  BY TreeFacts
<1>6. ASSUME NEW n \in g.nodes, \A m \in g.nodes : f[m] < f[n] => m \in Q
      PROVE  n \in Q
  <2>1. CASE n \in reach \ Leaves(g)
    <3>1. \A c \in Children(g, n) : up[c] = down[c]
      BY <1>4, <1>6, <2>1, TreeFacts
    <3>2. SumOf(up, Children(g, n)) = SumOf(down, Children(g, n))
      BY <3>1, SumSame
    <3> QED
      BY <1>2, <1>3, <2>1, <3>2
  <2>2. CASE n \notin reach \/ n \in Leaves(g)
    BY <1>3, <2>2
  <2> QED
    BY <2>1, <2>2
<1>7. g.nodes \subseteq Q
  <2> HIDE DEF f, Q
  <2> QED
    BY <1>5, <1>6, ByMeasure
<1> QED
  BY <1>4, <1>7 DEF up, down, reach

\* Each method makes values coherent and keeps what it starts from.
LEMMA ReconciledSums ==
  ASSUME NEW g, IsGraph(g), Accepts(g),
         \A e \in g.edges : g.level[e[1]] < g.level[e[2]],
         NEW method \in {"bottom_up", "top_down", "middle_out"}, NEW middle,
         NEW weight, NEW values, Reconcilable(g, weight, values, method, middle)
  PROVE  LET value == Reconcile(g, weight, values, method, middle)
         IN /\ \A n \in g.nodes : value[n] \in Int
            /\ Coherent(g, value)
            /\ \A n \in Anchors(g, method, middle) : value[n] = values[n]
<1> DEFINE A == Anchors(g, method, middle)
           down == AllocateDown(g, weight, values, A)
           value == Reconcile(g, weight, values, method, middle)
<1>1. /\ A \subseteq g.nodes
      /\ method = "bottom_up" => A = Leaves(g)
      /\ A \intersect Below(g, A) = {}
      /\ method = "top_down" => g.nodes \subseteq A \union Below(g, A)
  BY AnchorsFacts
<1>2. /\ method = "bottom_up" => value = AggregateUp(g, values)
      /\ method = "top_down" => value = down
      /\ method = "middle_out" => value = AggregateUp(g, down)
  BY DEF Reconcile
<1>3. /\ \A n \in g.nodes : weight[n] \in Int /\ values[n] \in Int
      /\ method # "bottom_up" => SharesDivide(g, weight, values, A)
  BY DEF Reconcilable
<1> HIDE DEF A, value
<1>4. /\ \A n \in g.nodes : down[n] \in Int
      /\ \A n \in A : down[n] = values[n]
  BY <1>1, <1>3, DownFacts
<1>5. method # "bottom_up" =>
        /\ \A p \in (A \union Below(g, A)) \ Leaves(g) :
             down[p] = SumOf(down, Children(g, p))
        /\ \A n \in A \union Below(g, A) : AggregateUp(g, down)[n] = down[n]
  BY <1>1, <1>3, DownShares, UpKeepsDown
<1> HIDE DEF down
<1>6. CASE method = "bottom_up"
  <2>1. \A n \in g.nodes :
          /\ value[n] \in Int
          /\ value[n] = IF n \in Leaves(g) THEN values[n]
                        ELSE SumOf(value, Children(g, n))
    BY <1>2, <1>3, <1>6, UpFacts
  <2> QED
    BY <1>1, <1>6, <2>1 DEF Coherent, Total, SumOf, A, value
<1>7. CASE method = "top_down"
  <2>1. value = down /\ g.nodes \subseteq A \union Below(g, A)
    BY <1>1, <1>2, <1>7
  <2>2. \A p \in (A \union Below(g, A)) \ Leaves(g) :
          down[p] = SumOf(down, Children(g, p))
    BY <1>5, <1>7
  <2>3. \A p \in g.nodes \ Leaves(g) : value[p] = SumOf(value, Children(g, p))
    BY <2>1, <2>2
  <2>4. Coherent(g, value)
    BY <2>3 DEF Coherent, Total, SumOf
  <2> QED
    BY <1>4, <2>1, <2>4 DEF A, value
<1>8. CASE method = "middle_out"
  <2>1. \A n \in g.nodes :
          /\ value[n] \in Int
          /\ value[n] = IF n \in Leaves(g) THEN down[n]
                        ELSE SumOf(value, Children(g, n))
    BY <1>2, <1>4, <1>8, UpFacts
  <2>2. \A n \in A : value[n] = values[n]
    BY <1>2, <1>4, <1>5, <1>8
  <2> QED
    BY <2>1, <2>2 DEF Coherent, Total, SumOf, A, value
<1> QED
  BY <1>6, <1>7, <1>8

\* Each method keeps the order of two quantiles.
LEMMA ReconciledOrdered ==
  ASSUME NEW g, IsGraph(g), Accepts(g),
         \A e \in g.edges : g.level[e[1]] < g.level[e[2]],
         NEW method \in {"bottom_up", "top_down", "middle_out"}, NEW middle,
         NEW weight, NEW v, NEW w,
         Reconcilable(g, weight, v, method, middle),
         Reconcilable(g, weight, w, method, middle),
         \A n \in g.nodes : v[n] <= w[n]
  PROVE  \A n \in g.nodes : Reconcile(g, weight, v, method, middle)[n]
                              <= Reconcile(g, weight, w, method, middle)[n]
<1> DEFINE A == Anchors(g, method, middle)
           down == AllocateDown(g, weight, v, A)
           over == AllocateDown(g, weight, w, A)
<1>1. A \subseteq g.nodes
  BY AnchorsFacts
<1>2. /\ \A n \in g.nodes : weight[n] \in Int /\ v[n] \in Int /\ w[n] \in Int
      /\ method # "bottom_up" =>
           SharesDivide(g, weight, v, A) /\ SharesDivide(g, weight, w, A)
  BY DEF Reconcilable
<1>3. /\ method = "bottom_up" =>
           /\ Reconcile(g, weight, v, method, middle) = AggregateUp(g, v)
           /\ Reconcile(g, weight, w, method, middle) = AggregateUp(g, w)
      /\ method = "top_down" =>
           /\ Reconcile(g, weight, v, method, middle) = down
           /\ Reconcile(g, weight, w, method, middle) = over
      /\ method = "middle_out" =>
           /\ Reconcile(g, weight, v, method, middle) = AggregateUp(g, down)
           /\ Reconcile(g, weight, w, method, middle) = AggregateUp(g, over)
  BY DEF Reconcile
<1> HIDE DEF A
<1>4. /\ \A n \in g.nodes : down[n] \in Int /\ over[n] \in Int
      /\ method # "bottom_up" => \A n \in g.nodes : down[n] <= over[n]
  BY <1>1, <1>2, DownFacts, DownOrdered
<1> HIDE DEF down, over
<1>5. CASE method = "bottom_up"
  BY <1>2, <1>3, <1>5, UpOrdered
<1>6. CASE method = "top_down"
  BY <1>3, <1>4, <1>6
<1>7. CASE method = "middle_out"
  BY <1>3, <1>4, <1>7, UpOrdered
<1> QED
  BY <1>5, <1>6, <1>7

\* Quantiles in order are in order and coherent after reconciliation by any of
\* the three methods, over every hierarchy that is accepted and with any weights,
\* also negative ones or none that count; anchors keep their values, and the sums
\* that ancestors get from the leaves are coherent.
THEOREM ReconciliationCoheres == RulesSpec => []ReconciledCoherent
<1>1. CaseChosen => ReconciledCoherent
  <2> SUFFICES ASSUME case \in Cases, case.topic = "reconcile",
                      Accepts(case.graph),
                      \A n \in case.graph.nodes : \A i \in {1, 2} :
                        case.quantiles[i][n] <= case.quantiles[i + 1][n]
               PROVE  LET g == case.graph
                          value(q) == Reconcile(g, case.weight, case.quantiles[q],
                                                case.method, case.middle)
                      IN /\ Publishable(g, value(1), value(2), value(3))
                         /\ \A n \in Anchors(g, case.method, case.middle), i \in 1 .. 3 :
                              value(i)[n] = case.quantiles[i][n]
                         /\ Coherent(g, Expand(g, case.quantiles[2]))
    BY DEF CaseChosen, NoCase, ReconciledCoherent
  <2> DEFINE g == case.graph
             weight == case.weight
             method == case.method
             middle == case.middle
             q == case.quantiles
             value(i) == Reconcile(g, weight, q[i], method, middle)
  <2>1. IsGraph(g) /\ Accepts(g)
    BY CasesAssumption DEF IsGraph
  <2>2. /\ \A e \in g.edges : g.level[e[1]] < g.level[e[2]]
        /\ method \in {"bottom_up", "top_down", "middle_out"}
        /\ \A n \in g.nodes : weight[n] \in Int /\ \A i \in 1 .. 3 : q[i][n] \in Int
        /\ method # "bottom_up" => \A i \in 1 .. 3 :
             SharesDivide(g, weight, q[i], Anchors(g, method, middle))
    BY CasesAssumption
  <2>3. /\ \A n \in g.nodes : q[1][n] <= q[2][n]
        /\ \A n \in g.nodes : q[2][n] <= q[3][n]
    <3>1. \A n \in g.nodes : q[1][n] <= q[1 + 1][n] /\ q[2][n] <= q[2 + 1][n]
      OBVIOUS
    <3> HIDE DEF q
    <3> QED
      BY <3>1
  <2> HIDE DEF g, weight, method, middle, q
  <2>4. \A i \in 1 .. 3 : Reconcilable(g, weight, q[i], method, middle)
    BY <2>2 DEF Reconcilable
  <2>5. \A i \in 1 .. 3 : /\ Coherent(g, value(i))
                          /\ \A n \in Anchors(g, method, middle) :
                               value(i)[n] = q[i][n]
    <3> TAKE i \in 1 .. 3
    <3>1. Reconcilable(g, weight, q[i], method, middle)
      BY <2>4
    <3> QED
      BY <2>1, <2>2, <3>1, ReconciledSums
  <2>6. \A n \in g.nodes : value(1)[n] <= value(2)[n] /\ value(2)[n] <= value(3)[n]
    <3>1. /\ Reconcilable(g, weight, q[1], method, middle)
          /\ Reconcilable(g, weight, q[2], method, middle)
          /\ Reconcilable(g, weight, q[3], method, middle)
      BY <2>4
    <3>2. \A n \in g.nodes : value(1)[n] <= value(2)[n]
      BY <2>1, <2>2, <2>3, <3>1, ReconciledOrdered
    <3>3. \A n \in g.nodes : value(2)[n] <= value(3)[n]
      BY <2>1, <2>2, <2>3, <3>1, ReconciledOrdered
    <3> QED
      BY <3>2, <3>3
  <2>7. Coherent(g, Expand(g, q[2]))
    <3>1. \A n \in g.nodes : q[2][n] \in Int
      BY <2>2
    <3> QED
      BY <2>1, <3>1, ExpandCoherent
  <2> HIDE DEF value
  <2>8. Publishable(g, value(1), value(2), value(3))
    BY <2>5, <2>6 DEF Publishable
  <2>9. /\ Publishable(g, value(1), value(2), value(3))
        /\ \A n \in Anchors(g, method, middle), i \in 1 .. 3 : value(i)[n] = q[i][n]
        /\ Coherent(g, Expand(g, q[2]))
    BY <2>5, <2>7, <2>8
  <2> QED
    BY <2>9 DEF g, weight, method, middle, q, value
<1> QED
  BY <1>1, CaseStays, PTL
=============================================================================
