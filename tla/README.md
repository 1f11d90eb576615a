# Verification of tds-dbt-favorita

TLA+ models of this forecasting platform. Most of them are about the code
where executions, jobs, operators, API requests and retries write append-only
warehouse tables and a bucket with no transaction around them: which model is
trained, resolved and promoted, and which forecast is drafted, approved,
published and delivered. The others are about the rules that a forecast is
made by: calendar, backtest windows, hierarchies, reconciliation, the rows of
a draft, calibration, paging and alerts. Fitting and scoring, which is
numerical, is outside the models.

Contents: [1 the system](#1-the-system), [2 the modules](#2-the-modules), [3
runs](#3-what-the-runs-show), [4 fairness and
assumptions](#4-fairness-and-assumptions), [5 proofs](#5-what-is-proved), [6
disagreements](#6-where-the-code-and-its-documents-disagree), [7 what is not
modelled](#7-what-is-not-modelled), [8 plan](#8-plan).

Paths are relative to the repository root. To check a model or a proof, in
this directory:

    tlc -workers 2 -config MCForecastLock.cfg MCForecastLock
    tlapm ForecastLockProofs.tla

## 1. The system

Everything that lasts is a BigQuery table. Writers run one statement at a
time; almost all of them use `insert_rows_idempotent`
(`vertex/utils/bigquery_utils.py`), a MERGE that inserts rows whose id is not
in the table and leaves the others alone. Ids are hashes of what identifies a
row, so a retry that builds the same ids writes nothing. Nearly every
guarantee rests on that pattern, on the order of the inserts, and on what is
read before them; there are no transactions over several statements and no
conditional writes except the lock's MERGE.

| Component | State | Operations | Hard behaviour | What makes it correct |
|---|---|---|---|---|
| Forecast lease `vertex/evaluation/forecast_pipeline_lock.py` | one row per contract and origin: owner run id, expiry | acquire (MERGE, SELECT), release (UPDATE) | races on the row, dead holders, clocks read before the statement | a live lease is exclusive; a dead one does not block its own run's retry |
| Scheduled pipeline `orchestration/flows/scheduled_forecast_pipeline.py`, `vertex/evaluation/forecast_pipeline*.py` | eight draft tables, exceptions | resolve champion, load inputs, gates, lease, persist table by table | failed calls that are retried, processes that die and are not, between any two tables; overlapping executions of one run, inputs that move | a visible draft is complete, sound, and never changes; a blocked attempt leaves nothing |
| Forecast operations `vertex/jobs/forecast_operations.py`, `vertex/utils/forecast_operations.py` | overrides, approvals, publications, revisions, events | override, approve-publish, revise, rollback | check and insert are separate statements; commands stop half way and are given again | what is published was approved; versions grow; lineage is right; a finished command is announced |
| Automatic publication `orchestration/flows/forecast_publication.py`, `vertex/utils/forecast_publication.py` | the same tables, status history | approve and publish version 1 | runs beside operators and reads no versions | as above |
| Operations API `vertex/api/repository.py` | the same tables | create_override, approve_run, publish_run, supersede_run, rollback_run, webhook | an approval read is published later; retries after lost answers | as above |
| Delivery `vertex/jobs/forecast_delivery.py`, `vertex/utils/forecast_delivery.py`, `vertex/utils/forecast_webhook.py` | delivery events of a version and destination | start, confirm, fail, retry, abandon; post to the webhook | events race; times are whole seconds; answers are lost | the history can be audited; delivered means accepted |
| Model lifecycle `vertex/evaluation/model_lifecycle*.py`, `vertex/jobs/model_lifecycle.py`, `orchestration/flows/model_lifecycle.py` | candidates, gate checks, lifecycle events | evaluate, promote, roll back | three inserts per evaluation; ids that operators type and nothing checks; two independent readers of who is champion | whoever is promoted has evidence; the readers agree |
| dbt views `dbt/models/marts/ml_models/` | none: views over the tables | visible drafts, current publications, delivery and champion | ranking by time, then version or id | show what the writers mean |
| Model families `vertex/models/*/` | rows that describe trainings and predictions, best parameters in the bucket and in `model_config.yaml` | optimize, train, predict | a dozen uploads and inserts per job in an order of the family's own; a job may stop at any; optimizations overwrite one record | what can be read of a run is complete and names the model that was used; parameters are of no superseded optimization |
| Artifacts `vertex/utils/artifacts.py` | objects under a prefix per training | upload model, then manifest; list, resolve, load | prefixes of one-second resolution, greatest is latest, objects loaded one by one | a prediction is of the model its rows name, and of no stale one |
| Job runs `vertex/utils/tracking.py`, `vertex/jobs/run.py` | one row per attempt in `vertex_job_runs` | RUNNING, terminal merge | best-effort writes, dying processes | what is shown as succeeded has left its rows |
| Batch, backfill, pipeline flow `vertex/jobs/run_batch.py`, `vertex/jobs/backfill.py`, `orchestration/flows/` | submitted jobs, failures so far | spawn, submit, wait; submit a PipelineJob; train and predict date by date | partial failure, refused submissions, jobs that outlive the batch, other jobs of the same configuration | the outcome reported is that of the jobs; it comes |
| Calendar, backtesting `vertex/domain/periods.py`, `vertex/config/backfill.py`, `vertex/evaluation/backtesting.py`, `vertex/jobs/backtest.py` | history, scores | shift periods, load, score baselines and the model at each origin | months of different length, clamped days, windows and bounded queries; targets of several periods | no label of the future is learned; what is loaded suffices |
| Hierarchy, reconciliation `scripts/materialize_hierarchy.py`, `vertex/evaluation/reconciliation.py` | hierarchy versions | materialize, validate, reconcile, expand | ids joined from values, graphs that are no forests, weights, shares of zero | coherent, ordered quantiles |
| Draft rows, calibration, routing `vertex/evaluation/forecast_pipeline.py`, `vertex/utils/forecast_outputs.py`, `vertex/utils/forecast_publication.py`, `vertex/evaluation/calibration.py`, `vertex/evaluation/strategy_routing.py` | none | freeze, build, validate, calibrate, route | missing and duplicate rows, small samples, rules written twice | a draft accounts for its population; intervals cover |
| Reads of the API `vertex/api/app.py`, `vertex/api/repository.py` | none | current forecast, version, explorer, page by page | versions appear between two pages | pages neither lose nor repeat a row |
| Monitoring `vertex/config/monitoring.py`, `vertex/monitoring/`, `scripts/evaluate_monitoring_alerts.py` | none | evaluate policies, route alerts, judge the health of a source | a destination fails in the middle of a pass; a source never read; rules written twice | an alert reaches a destination unless one before it failed |

How they interact: the lifecycle's events decide the champion that the
scheduled pipeline resolves and pins; the pipeline writes drafts under the
lease; operators, the API and the automatic flow decide on and publish the
rows of a draft's run; a publish mutation posts to the webhook and appends
delivery events, and operators append theirs by command; the dbt views read
all of it. Before that, jobs share the bucket and the tables of the models:
drivers (the pipeline flow, batches, backfills, operators) start jobs, which
resolve what other jobs have uploaded, and whose runs the drivers follow. The
rules are called within one process and keep nothing. No component calls
another within one step that others could see into: they share tables and
objects, so the models compose by what they share. `PROJECT.json` lists
every component with its sources and status, and the hazards by source line.

## 2. The modules

| Module | Models | Shape |
|---|---|---|
| `ForecastLock` | the lease row and the requests on it | `lock`, `clock`, `req[e]`; `RequestLock` reads the client's clock, `MergeLock` is the MERGE, `SelectLock` the SELECT that confirms, then `RequestRelease`, `UpdateRelease`, `Die`, `Tick` |
| `AtomicDraft` | the promise to a draft's readers | `draft[r]`; `Expose` makes all of a draft visible in one step, once |
| `ScheduledForecast` | executions of the pipeline; contains `ForecastLock` by INSTANCE | `pc`, `champ`, `config`, `gen`, `step`, `tries` of each execution; `stored[t][r]`, `exceptions`, `registered`. One action per query, gate, insert and lock statement, in the order of the flow; `FailRegister` and `FailPersist` raise inside the `try` (the `finally` releases), `Raise` outside it (the flow's retries begin again), `Crash` is a process that dies for good, `Promote` and `NewInputs` are the rest of the world |
| `VersionChain` | the promise of a version history | `chain[s]`: a scope's versions; `Publish` adds one that is higher than all |
| `PublicationLedger` | operators' commands, API mutations and the automatic flow on the publication tables | the five tables and the statuses; of each command `pc`, `chosen`, `approval`, `publication`, `prior`. `Read` actions are queries and checks, `Persist` actions are inserts, `Rerun` gives a command again from its first step |
| `DeliveryLifecycle` | the promise of a delivery | `status`, `attempt`; `Start`, `Finish`, `Abandon` |
| `ForecastDelivery` | delivery events of one version and destination | `log`, `accepted`; of each command `pc`, `read`, `event`. `ReadLatest`, `CheckKey` (operator), `BeginAttempt` and `Post` (webhook), `PersistEvent`, `Rerun` |
| `ModelLifecycle` | lifecycle events of one scope, and their readers | `registered`, `checked`, `events`; of each execution its place, action, waiver, replaced champion and event. `BeginPromote` and `BeginRollback` take any ids, as the command does. `Champion` is the pipelines' query, `ViewChampion` what dbt derives |
| `ModelJobs` | the jobs of the five model families over one bucket and one dataset | of each job `state`, `attempts`, `local` and `todo`, the rest of its `Program`: the sequence of uploads, queries and inserts of its family in the order of the code. One action per kind of step (`ResolveParameters`, `Fit`, `UploadModel`, `UploadManifest`, `ResolveArtifact`, `LoadJoblib`, `AppendPredictions`, `Describe`, ...), then `Return`, `Raise` at any step, `Die` |
| `JobDrivers` | the pipeline flow, its PipelineJob with and without `sync`, backfills with and without `stop_on_error`, batches of local processes and of Vertex jobs with and without `sync`; EXTENDS `ModelJobs` | `driver`, `at`, `submitted`, `failures`, `result`; `StartNext`, `FollowNext`, `EndOfPlan`, `Spawn`, `JoinProcesses`, `Submit`, `SubmitPipeline`, `StartContainer`, `RaiseSubmissions`, `AwaitJobs`, and `OperatorStarts` for whoever runs a job by hand |
| `ForecastCalendar` | shifts by days, weeks and months, dates of a backfill | operators on day numbers; a calendar is a constant |
| `Backtest` | one rolling-origin run, or the training of a backfill at one date; EXTENDS `ForecastCalendar` | `contract`, `table`, `data`, `scored`, `scores`, `outcome`; a prediction is the set of rows it was computed from |
| `Hierarchy` | materialized graphs with the ids of their nodes, the pipeline's and the API's acceptance, the three linear methods | operators on graphs and integer forecasts |
| `DraftRows` | frozen population, canonical rows, validation, calibration, routing | operators on sets of rows and samples |
| `ForecastReads` | a client that pages while versions are published | `shown`, `reader`; `PublishNext`, `ReadPage`, `RefuseRead` |
| `Monitoring` | one pass of alerts, and the health of a source in Python and SQL | `monitor`, `signals`, `pending`, `emitted`, `pass`; one alert is routed at a time |
| `ForecastRules` | the five modules above put together, with reference definitions (`IsForest` and others) the rules are checked against | a behaviour is one backtest, one reading, one pass, or one `case` of the pure rules |
| `DataLemmas` | least and latest elements, induction over numbers, sizes of sets, flattened sequences, sums | used by the proofs about the ledger, the lifecycle and the rules |

`ScheduledForecast` refines `AtomicDraft` with `draft[r]` the tables of `r` if
`forecast_runs` has its row and `Hidden` otherwise. `PublicationLedger` refines
`VersionChain` with a chain per run and destination, and `ForecastDelivery`
refines `DeliveryLifecycle` by its latest event, both while commands are given
one at a time. Modules named `...Proofs` hold the theorems, modules named
`MC...` the instances for the model checker. Operators marked "Faulty variant"
are bugs of the kind the neighbouring code could have; put in place of the
definition that follows, each breaks a property, which shows the property
depends on that code.

Abstractions, common to all modules:

- A hash is what it hashes: an id is the tuple or record that the code passes
  to `get_hash`, so two ids are equal exactly when the code's are, up to
  collisions.
- A run's rows are written and selected together, in one MERGE or one query,
  and so one canonical row stands for them. Tables of a draft hold, per run, the
  generation of inputs their rows were made from.
- Gates, metrics and values are reduced to what decides control: which inputs
  pass (`SoundGenerations`), which candidates pass (`Passing`), a few values.
- The model that a training fitted is its run id; a manifest and a prediction
  name the run they are of, and predictions also record the model that computed
  them, so that the two can be compared. Parameters are the optimization they
  come from, or the configuration's.
- A value of a hierarchy is the sequence of the parts of its text between its
  `|`, so that joining values is what `ARRAY_TO_STRING` does.
- Demand and predictions in `Backtest` are rows and sets of rows; forecasts and
  weights in `Hierarchy` are integers, and those that are allocated are multiples
  of what their shares divide them by (`SharesDivide`), so that sums are those of
  real numbers: rounding of floating-point numbers is left out. Residuals in
  `DraftRows` are integers.
- A query or a statement is one atomic step; whatever the code does between two
  of them is not interrupted in a way anyone could see.
- A command that fails, or whose process dies, simply takes no further step;
  `Rerun` or a retry begins it again. Where dying leaves something behind that
  matters (a lease), it is an action.

## 3. What the runs show

| Run | Question | Bounds |
|---|---|---|
| `lock` | Is a live lease exclusive (`LeaseExclusion`), and is what a holder was told still in the row (`GrantInRow`)? | 3 executions, 2 run ids, a lease of 2, clock to 5 |
| `draft` | Is a visible draft complete, are blocked attempts invisible, do drafts appear atomically? | 2 executions of one attempt, 2 candidates, a promotion, 3 generations of inputs of which one fails the gates, 2 failed calls, both processes may die |
| `recovery` | If one process lives, does it get the draft out whatever the faults and whoever else dies (`EventuallyVisible`)? | 2 executions of 3 attempts, 2 failed calls, either process may die, flat contract |
| `publications` | Is everything published approved, is lineage right, is a finished command announced; does a retry change what is shown? One at a time, do versions form a chain? | override, publish, revise, rollback at once, or two overrides, approve, publish by API and the automatic flow at once, or the flow, an operator and a rollback on two runs of an origin, or 6 commands one at a time on two destinations with refusals; 1 rerun |
| `delivery` | Does every event follow another; does delivered mean accepted; has a key one event; one at a time, does the state move by the lifecycle? | 5 operator commands or 3 webhook requests at once, events may share a second; or 6 commands one at a time with 1 rerun |
| `champion` | Has whoever is promoted its evidence; do both readers agree (`WellNamed`)? | 2 executions, 3 candidates of which one fails its gates, 3 commands or flows, any ids typed |
| `jobs` | Are predictions of the model they name, and fresh? Are parameters of no superseded optimization? Is what is registered or succeeded complete, and do drivers end as their jobs did? | 9 jobs of two configurations, 14 drivers over the five families, second attempts of two jobs, two jobs that may die, one whose status may be lost, a clock of two seconds |
| `rules` | Does a backtest learn nothing of the future from what suffices, do accepted graphs, drafts and intervals mean what they say, do pages and alerts arrive? | see below; all cases of the instance |
| `rivals`, `lost_lineage`, `resend`, `champion_repeat` | expected to be violated, see section 6 | the smallest instance that shows it |

Why the bounds are enough to be of interest:

- `lock`: three executions give a holder, a contender and a third that takes
  over; the clock passes the end of two leases in turn.
- `draft`: every order of two executions' writes over the tables, with faults at
  any two places, is there; two sound generations let two attempts disagree
  about content, and the third lets an attempt fail its gates after one that
  passed. The second execution is the retry of the first or runs beside it, as
  an attempt keeps nothing of the one before. A third would repeat the roles,
  and the theorems of section 5 hold for any number. The clock does not move in
  this run: leases of different run ids guard disjoint rows, so what expiry adds
  is in `lock`.
- `recovery`: three attempts are Prefect's `retries=2`, made by the process
  itself; two failed calls may strike both executions or one twice, and a process
  that lives has an attempt left that nothing strikes. One
  candidate is used, because a promotion gives the retry another run id, which
  a dead attempt's lease does keep out until it expires.
- `publications`: the rerun lets any command stop half way and be given again,
  while any other has stopped for good. In the first group versions 1, 2, 3 are
  published at a destination that is not the default and the rollback keeps
  the default. A group of two runs of one origin lets a later run take a
  destination over and a rollback of the first take it back, with a retry of any
  of the three after it.
- `jobs`: in each session a driver's jobs meet at most one job of an operator
  on the same configuration, which suffices for every pairwise order of their
  uploads, queries and inserts; two trainings may begin in one second or in
  two. `t1` may die, so that a driver loses its first job and a prediction finds
  half an artifact, and `p0` may die and be run again. `u1` is of another
  configuration, takes its parameters from the first one's search
  (`inputs.optimize_config_name`) and is the job whose status may be lost; a batch
  has it and `t1` fail, be refused, or both. `o2` overlaps `o1`, and
  `t3` is pinned to `o1` and reads no record, only the table.
- `rules`: the calendar has four years with a February 29, and histories are
  dense around February 28 and a year earlier, weekly, monthly on the first, or
  around the ends of months, where clamping happens. Horizons up to 8 reach
  beyond the season of 7, windows lie on both sides of what a baseline needs.
  Backfills have targets of one period and of more. Graphs have at most four
  nodes and any three edges, with chosen cycles of three and unknown nodes;
  entities have values of one part, of two, or none; reconciliation has a tree
  of three levels and a forest, weights that are zero and negative, and
  quantiles that cross. Drafts are all populations of two series and two
  horizons against all scored rows. Samples have up to 27 residuals of a horizon
  and 33 in all, on both sides of the least size of 20, and returns of which the
  interval's cut at 0 cuts some off. Series may have no history, and sources no
  run. Readers choose from three modes with filters and pages of one to three
  rows, between four publications of which one is incomplete. Alerts are of
  three policies, with a destination that has no URL or does not answer.
- `champion`: three starts let one candidate be promoted, another replace it and
  the first be restored, or two executions race and a third command follow.
  Two candidates with four starts were also checked.

A finite set of commands ends and so does the model: every cfg but that of the
lock, whose executions go round and round, says `CHECK_DEADLOCK FALSE`. TLC's
symmetry is used over executions, candidates and requests, which no definition
orders or names; it is not used where a liveness property is checked.

## 4. Fairness and assumptions

`recovery` and `jobs` assume fairness.

In `recovery` it is weak fairness of each execution's next step. It stands for a
process that runs and for Prefect's engine in that process, which begins the
next attempt of a flow run that raised (`retries=2` on the flow). It starts no
process again: one that dies stays dead, and `EventuallyVisible` promises
nothing when both do, only that an execution that lives publishes whatever the
others do. An attempt that finds the lease held by another run id gives up and
uses up a try, so the run has one candidate. Deaths, faults, promotions, new
inputs and the clock are not fair: the clock may stop, so the draft does not
depend on a lease running out. It depends on the lease being the run's: a retry
of the same run id renews the row in the MERGE and finds itself in the SELECT.

In `jobs` it is weak fairness of the driver (`Drive`) and of each job's own
steps (`JobStep`: the next of its program, or an exception): a process that
has not died goes on, and Vertex starts the container of a job it accepted and
of the next step of a PipelineJob once the step before it has succeeded.
Dying, the clock and operators are not fair. `DriverEnds` then says that no
driver waits for what never comes: a batch waits only for jobs that have
started or will, and a job that dies ends for whoever waits for its process.

Assumed throughout:

- Clients and the warehouse share one clock, which a client may read long
  before its statement runs. Skewed clocks would weaken `LeaseExclusion` by the
  skew.
- A statement of a client that died has either taken effect by then or never
  does.
- In `PublicationLedger` and `ModelLifecycle` no two records are built at one
  instant; `ForecastDelivery` models whole seconds, where a webhook makes ties
  likely, and orders events within a second by an arbitrary digest as the code
  does.
- Executions of one logical run do not overlap in the `lock` run
  (`Overlap = FALSE`); `ScheduledForecast` assumes no such thing.
- Each command has an idempotency key of its own, as
  `docs/forecast_operations.md` asks (`KeysAssumption`), and the decision of the
  automatic flow, of no override and of an override are distinct
  (`DecisionsAssumption`: they are hashed from different fields).
- Of the ids that operators type for `promote` and `rollback` nothing is assumed.
  `ViewsAgree` and `ReportedIsChampion` have the premise `WellNamed`: no event
  replaces its own candidate, and what a rollback restores was evaluated before.
  Section 6 has what happens otherwise.
- In `ModelJobs` a run id is new with each attempt, as the code draws a UUID;
  objects and rows that were written are seen by whoever reads after.
- The jobs of a session are given (`PlanningAssumption`): each is of one of the
  three steps that families register runners for, and is pinned to the run of
  one job at most, as `inputs.model_run_id` and `optimize_run_id` name one. A
  training looks for parameters under one configuration (`TunedBy`, which is
  `inputs.optimize_config_name`) and reads one record or none (`RecordOf`, which
  `VERTEX_BEST_PARAMS_URI` may change), or opts out (`Untuned`, which is
  `use_optimized_params: false`).
  Families are those of `vertex/models`
  (`FamiliesAssumption`). A backfill that goes on after errors was given the
  plan that `vertex/jobs/backfill.py` makes, a training and the prediction
  pinned to it for each date (`DriversAssumption`). MC instances are held to all
  three.
- The calendar is a constant with the properties that `CalendarAssumption` and
  `BacktestAssumption` name, which the Gregorian one of the instance has. It
  reaches as far back and forth as the dates a run may ask for
  (`ReachAssumption`).
- Policies and the rows of a signal are sequences (`MonitoringAssumption`). A
  publication
  has one row of each forecast, versions of a run that are whole have the same
  forecasts, as each is built from all the run's outputs, and a page has room
  for a row (`ReadsAssumption`).
- Cases have the values of their topic (`CasesAssumption`): graphs and samples
  are finite, a hierarchy has at least two levels of keys, of which its entities
  may lack some, and at least one residual is asked for, as
  `calibrate_quantiles` insists. Graphs need not be sound, nor rows unique. A
  hierarchy that is reconciled has edges down its levels, as `Materialize` makes
  them, integers for forecasts and weights, which may be negative, and shares
  without remainder.
- In `ForecastDelivery` the publication exists. Webhook destinations
  (`webhook:<name>`) have no publication rows, so the operator command refuses
  them and the two kinds of delivery never meet: `Sessions` gives one or the
  other, and no operator's key is one derived for the webhook
  (`OperatorKeysAssumption`).

## 5. What is proved

For every value of the constants that satisfies the modules' assumptions,
checked by tlapm:

**`ForecastLockProofs`**: `TypeCorrect`, `GrantCorrect`, `LeaseIsExclusive`.
The inductive invariant is `TypeOK`, `GrantInRow` and the fact that busy
executions have different owners, which is what `Overlap = FALSE` means.
`LeaseExclusion` is not inductive: it says nothing of an execution between its
MERGE and its SELECT. `GrantInRow` does: from its MERGE on, an execution whose
owner id is in the row finds its own expiry there, and one that was replaced was
replaced after its lease ran out, as the MERGE tests `expires_at < @now` with a
time that is not in the future. Two live holders of different runs would both
have to be in the one row.

**`ScheduledForecastProofs`**: `TypeCorrect`, `DraftsComplete`,
`BlockedInvisible`, `DraftsAtomic`. The inductive invariant adds to the type
invariant: `Evidence`, every table before an execution's `step` holds its run,
while it persists; `Gated` and `Asking`, an execution that asks for the lease or
persists loaded inputs that passed; `StoredSound`, tables hold sound generations
only and exceptions the others. Evidence is what a draft's completeness follows
from: `forecast_runs` is the last table, and rows that exist stay. The argument
never uses the lease: drafts are whole even when executions overlap, because
every insert is idempotent and the visible row is inserted last. `DraftsAtomic`
is the refinement: a step that inserts the row of `forecast_runs` maps to
`Expose`, any other step to a stutter.

**`ForecastDeliveryProofs`**: `TypeCorrect`, `HistoryIsSound`,
`DeliveriesWereAccepted`, `KeysAreSingle`, `DeliveryIsLifecycle`. For the
history, the strengthening is that what a command has read is in the log
(`ReadInLog`) and that the event it has built follows what it read
(`EventFollowsRead`). As the log only grows, that is still so when the event is
inserted, whatever came in between; so no clock, order of digests or race breaks
the audit trail. `DeliveriesWereAccepted` and `KeysAreSingle` add what an event
about to be appended says (`KInv`): the consumer accepted, and, when commands
are given one at a time, its key is not in the log. `DeliveryIsLifecycle` is the
refinement: in those sessions the last row is the latest event and every command
under way has read it, and since states have a rank that every event increases,
an insert is never skipped as a duplicate and the latest event moves as the
lifecycle says.

**`PublicationLedgerProofs`**: `LedgerTypes`, `PublicationsBacked`,
`LineageIsRight`, `ReturnedIsAnnounced`, `RetriesAreSilent`,
`LedgerIsVersionChain`. That a publication is backed by an approval of its value
is not inductive, since `InsertOnce` leaves a stored approval of the same id
alone: the publication that a command goes on to insert has the value of the
approval that the command built, not of the one that is there. They agree
because an approval id fixes the value (`Decided`): the id of an override
contains it, the automatic flow and a command that found no override decide on
the forecast, and a rollback on the value of the one publication of its source
version, which is still there when the command is run again. The inductive
invariant has this of every stored approval and of every approval a command is
about to insert (`Progress`), that a command past its approval has one stored
that its publication is of, and that overrides were stamped in the past, without
which the selected override need not exist. The proof uses that a key is one
command's; with a shared key `Agrees` fails, which is hazard 19 of
`PROJECT.json`.

`LineageIsRight` and `ReturnedIsAnnounced` rest on `Traced`: the publications a
command replaces are stored and fit its own, that of a rollback is not there
before the rollback inserts it, and what a command has published stays. They
assume `EarlierPrior`, that operators revise earlier versions, for the code
compares neither: it checks the new version before it reads the prior one.
`RetriesAreSilent` has no such assumption: a publication's id has no time, so what
a command inserts again is there already, whatever was published meanwhile and of
whichever run, and a rollback that has published does not come to publish again
(`OnceInv`). With a time in the id the view would show an old version again.

`LedgerIsVersionChain` is about commands given one at a time. Between the check
of a version and the insert nothing else is published, so the publication stays
above its scope (`Ahead`), and those of a scope are ordered by version as by time
(`ScopesOrdered`). It assumes `VersionsChecked`: versions are numbers and the
automatic flow, which checks none, is not among those commands.

**`ModelLifecycleProofs`**: `LifecycleTypes`, `ChampionsHaveEvidence`,
`ReadersAgree`. The inductive invariant says that an execution past a place has
left the insert of that place (`Underway`) and that events are stamped in the past
(`Stamped`). Nothing is said of what an event replaces or restores, as operators
type both. `ChampionsHaveEvidence` is therefore about promotions: a rollback has
its reason and needs no evidence. `ReadersAgree` has the premise `WellNamed` and
adds `Ordered`: no two events were built at one time, and a candidate was
evaluated once and before it became champion, because an event that exists is not
inserted again.

**`JobDriversProofs`**: `DriversInvariant`, `JobsTypes`,
`PredictionsAreOfTheirModel`, `ModelsAreFresh`, `OptimizationIsUsed`,
`CanonicalRowsRegistered`, `SuccessIsComplete`, `PlansCarriedOut`. The
properties speak of rows that are written many steps after what they depend on
was read, so none is inductive. The invariant follows a job through its program:
what it has to do is an end of it (`Placed`), and each step that it has passed
left something behind that is still there (`Carrying`): parameters of a search
that nothing it knew of had superseded, a prefix that is pinned or fresh, a
model that is the resolved one if its digest was compared, a row in the table
the step is named for. What a step may rely on follows from the order of the
programs alone (`Ordered`): predictions come after a load and a load after the
resolution, canonical rows after the contract and the forecast run, a study or a
fit before the manifest. Two facts carry it through the steps of others: rows
and objects are never removed (`StorageGrows`), and a job that returned never
runs again (`ReturnedRests`), so that the second of a training another job knew
of, and the run another is pinned to, are what they were. Drivers add statuses
only (`DriversRunJobs`). `PlansCarriedOut` needs `Followed` (what a driver has
passed of its plan has returned, or it knows of the failure) and `Awaited` (so
has what a batch waited for); that a batch whose submissions all succeeded has
waited for all of its plan is a pigeonhole argument, for submissions complete in
any order (`AllWereSubmitted`).

**`ForecastRulesProofs`**, on backtests: `ShiftBackAndForth`, `ShiftMonotone`,
`LabelsStayKnown`, `LabelsOfRules` and `HistoryIsEnough`. No label that was
known only after the origin is learned at it, by a backtest or by a backfill whose
target lies one period ahead; clamping makes a shift back and
forth lose days, never gain any, and the inductive invariant carries that from
the rows that are loaded to the rows a score was computed from. `HistoryIsEnough`
says that the bounded query loses nothing: with a window of a season, on dates
that begin periods and without a limit of entities, a run has the metrics it
would have from the whole table, and its model has learned every label known
within its window. Every
date that a baseline or the training reads lies between the two ends of what is
loaded; for months this needs that a shift by one distance and then another ends
no later than the shift by both (`ShiftTwice`), for weeks and the season of 7
that a period is at least a day.

`AlertsReachAll`: in a pass that ends, every alert that should be heard was sent
as often as it was raised; in one that a destination ends, what is not sent is
pending behind it. What was sent and what is pending are together what
is due, counted as a bag (`MInv`). That the loop over policies and rows raises
no more and no less rests on a lemma about flattened sequences: places of the
parts and places of the whole correspond one to one (`FlattenFills`).

`HierarchiesAccepted`: graphs that the pipeline accepts are exactly the forests,
and those made of entities with all their keys, whose values contain no `|`,
pass both its checks and the API's: of such values the joined text tells all of
them apart (`JoinedTells`). `Reached` is defined by as many steps as there are
edges, so that it is closed needs a count (`ReachedClosed`): a step that adds
nothing is the last, and each other one uses up an edge. A node of a cycle is
reached through its one parent only, which is of the cycle too, so roots reach
none of them; conversely, of the nodes that no root reaches the one with the
most descendants would have a parent with more, unless it is its own descendant.

`PagesAddUp`: rows come strictly in order, whatever is published in between;
whoever reads one version to the end has its rows and no others, and whoever
reads several whole versions of a run misses no forecast. The order of rows is
total on rows that differ (`AfterOrders`), `InOrder` sorts by it, and so a page
continues where the token says. `ReadsInv` has, of a reader under way, that the
rows read are in order, the token is the last of them, and nothing up to the
token is missing.

`IntervalsCover`: intervals cover what the finite sample correction promises of
the rows they were calibrated on, for samples of any size, of a horizon or
pooled. Sums over a set of pairs do not depend on the order in which the fold
takes them (`SumRemove`) and split with the set (`SumParts`); at the largest
error all rows are counted (`WidestHolds`), so a radius exists, and by `RankFacts`
more rows are within it than the promise needs. Intervals are cut off at 0, and
the proof shows what the run first did not: rows with more returns than sales,
which the warehouse allows, may be cut off with it, so they are counted apart.

`ReconciliationCoheres`: each of the three methods makes three ordered quantiles
coherent and keeps them in order and its anchors as they were, over any accepted
hierarchy. The recursive functions of the model exist because nodes are ordered
by how many nodes are below them (`UpExists`, `DownExists`; `ByMeasure` is the
induction). That children add up to their parent after an allocation is a sum of
fractions of one denominator (`DownShares`, `SumTimes`), which is not 0 as no
weight is negative and equal weights replace those that add up to 0; the order of
quantiles needs the clipping too (`DownOrdered`): with `SignedWeight` TLC finds
it broken. For `middle_out`, no anchor is below another, and aggregating
leaves what was allocated as it is (`UpKeepsDown`). The sums of
`expand_leaf_predictions` add up as the leaves below different children are
different (`TreesApart`, `SumGroups`). Cases whose shares leave a remainder are
excluded, so the theorem says nothing about rounding.

`DraftsAccount` (an accepted draft accounts for its population, for any
population) and `TwinsAgree` (rules that are written twice decide alike, for any
history with rows and no missing demand and any run of a source, and differ as
stated for a source without a run) complete the rules.

**`DataLemmas`** has the inductions. The library's induction theorems take an
operator, so they are replaced by one about a set of numbers (`AllNumbers`): what
contains 0 and with each number the next contains them all. Recursive functions
and folds are reached by it, one lemma that the function exists and one that it
does what its definition says. `AllSubsets` and `ByMeasure` are the same for sets
and for what a measure orders, and sums of integers have lemmas of their own.

Only model-checked: the liveness properties `EventuallyVisible` and
`DriverEnds`, since the prover has no fairness.

## 6. Where the code and its documents disagree

Four runs are kept as counterexamples; `PROJECT.json` quotes the lines.

- `lost_lineage`: a revision that stops after its publications are inserted and
  is given again, as the runbook says, finds its version published, repeats the
  event and returns; its supersede lineage is never written.
- `rivals`: two operators publish the same version with a key each. Both read
  that it is free, and the publication ids contain the key: both are inserted.
- `resend`: `occurred_at` is stored in whole seconds and ties are broken by the
  digest. When pending and delivered share a second, pending may rank last, and
  the next publish request posts the event again.
- `champion_repeat`: the id of a lifecycle event has no time. A candidate that
  is restored in place of the same champion a second time, with the same
  reason, makes an id that exists; nothing is inserted and success is reported.

Others were met while modelling. They are of the same modules, and adding the
named invariant to the named cfg shows each:

| Invariant | cfg | What happens | What a document says |
|---|---|---|---|
| `OneActiveRun` | `MCForecastLock.cfg` | nothing renews a lease while a run persists; another takes over | `docs/specs/scheduled_forecast_publication_pipeline.md:219` "Only one active run may hold the lock" and `:221` heartbeat loss |
| `DraftNamesItsModel` | `MCScheduledForecast_draft.cfg` | candidate id and configuration are two queries; a promotion between them pins one and scores the other | `:111` "resolved once before scoring" |
| `LineageConsistent` | `MCScheduledForecast_draft.cfg` | after a failed call, a retry with newer calibration history fills the remaining tables; stage records and outputs differ | `:144` "A conflicting payload for an existing ID fails" |
| `OneCommandPerVersion` | `MCPublicationLedger_publications.cfg` | the automatic flow publishes version 1 over an operator's or the API's version 1 | `docs/forecast_operations.md:38` |
| `OneDecisionPerCommand` | `MCPublicationLedger_publications.cfg` | a command that stopped after its approvals and is given again after a new override decides on another value | `docs/forecast_operations.md:52` "Exact retries are no-ops" |
| `EventNamesPublication` | `MCPublicationLedger_publications.cfg` | a rollback publishes where the restored version was, and announces the destination of its arguments | `docs/forecast_delivery.md:60` |
| `TerminalIsFinal` | `MCForecastDelivery.cfg` | confirm and abandon at once are both recorded | `docs/forecast_delivery.md:20` "terminal" |

Two more need other instances. With `Overlap = TRUE`, `LeaseExclusion` fails in
`MCForecastLock.cfg`: the release of one execution ends the lease of another of
the same run id. And `ViewsAgree` without its premise fails in
`MCModelLifecycle.cfg`. The commands check none of the ids they are given
(`vertex/jobs/model_lifecycle.py:61-75`, `:96-106`), and `build_rollback_event`
(`vertex/evaluation/model_lifecycle.py:210`) writes `from_state` "retired" for
whoever is restored:

- a candidate that is promoted or restored in its own place is retired in the
  dbt view and champion for the pipelines;
- a rollback to an id that is not registered, mistyped for instance, retires the
  champion in the dbt view, whereas the pipelines' query joins the candidates and
  goes on with the old one;
- a candidate that is restored before it was evaluated, and evaluated later, is
  champion for the pipelines and no longer for the view;
- a rollback to a candidate that was rejected makes it champion for both.
  `docs/specs/backtesting_and_model_lifecycle.md:187` says "A candidate cannot
  become champion unless promotion checks pass or are explicitly waived with an
  audit reason"; a rollback's own reason is all that is on record.

More were met in the parts that the runs `jobs` and `rules` are about. The
models have what the code does, and the properties are stated to fit it:

- Hierarchical drafts. The contract's dimensions are the node, but
  `expand_leaf_predictions` (`vertex/evaluation/reconciliation.py:85`) copies
  `entity_key_json` and `series_key` of the first leaf into the rows of its
  ancestors, and `build_forecast_output_rows` takes them for the identity. An
  ancestor and that leaf get one `forecast_output_id`, and
  `validate_publication_batch` refuses the draft (`AncestorRow` in `DraftRows`).
  `docs/hierarchical_reconciliation.md:3` says that the company row is published.
- `materialize_hierarchy` leaves nodes with a NULL key out, and not their edges;
  the pipeline then refuses the version for an unknown node, while every gate of
  the API has passed it. A version also keeps the leaves of entities that are
  gone, and the pipeline refuses leaves that have no eligible rows.
- The pipeline accepts a node without a parent below the top level, which the
  gate "Exactly one parent" fails. The gate "Coherent child totals" reads a
  count of violations that is always stored as 0.
- A window shorter than the season leaves `seasonal_naive_7d` null under the
  bounded query; `same_period_last_year` never meets a Monday in weekly data;
  with `max_entities` the baselines and the model are scored on different
  entities.
- The pipeline's routing ignores the thresholds of the contract (it equals the
  classifier's default policy, `TwinRulesAgree`), and rows of expanded ancestors
  always have `no_routing_history`.
- One destination that fails silences the alerts after it in the pass.
- Backfills of longer targets. `build_backfill_train_sql`
  (`vertex/config/backfill.py:86-103`) cuts one period before the as-of date,
  which its docstring justifies for `sales_store_n1d`. `run_backfill` takes any
  configuration, and with `target_horizon_7` or the `n7d` targets
  (`vertex/config/model_config.yaml:69-78`, `:140-141`) the model learns labels
  up to six periods after the date it is to be judged at. `LabelsKnown` without
  `s.horizon = 1` fails.
- Names of nodes. `_node_id_expression` (`scripts/materialize_hierarchy.py:28-34`)
  joins values by `|` without their keys, and `ARRAY_TO_STRING` drops NULLs. So
  the entities `a|b`, `c` and `a`, `b|c` have one node, and the pipeline refuses
  the version for a child with two parents. `HierarchiesAreForests` without its
  premise on values fails.
- Twins. For a source that was never read, `evaluate_source_health` alerts with
  `missing` (`vertex/monitoring/source_ingestion.py:85`), while
  `forecast_source_health` has no row for it, so an alert on the view stays
  silent. A series without a history is `no_routing_history` for the pipeline
  (`vertex/evaluation/forecast_pipeline.py:254`) and no series at all for the
  classifier, and a missing demand counts in one and not in the other.
- A backfill with continue-on-error returns as if all dates had succeeded
  (`PlanCarriedOut` says what its return does mean).
- XGBoost's own loader compares no digest, so `PredictionsOfDescribedModel`
  excludes that family: a training of the same second may replace the model
  between the reading of the manifest and of the model.
- `vertex/utils/optimize_params.py:184` says "Precedence: YAML model_params < GCS
  latest_best_params < explicit optimize_run_id pin." Where that record exists
  the pin is ignored (`FoundParameters`, lines 213-229); it only selects among
  the rows of the table. Nor does a pin to a training hold for XGBoost's
  `model.json`, which another training of the same second overwrites.
- The explorer reads the newest version of a run whether or not it is complete.

## 7. What is not modelled

- Fitting, scoring, metrics and feature engineering: floating-point numerics of
  libraries and declarative SQL over data. Of reconciliation, the method `mint`
  (least squares) and the ranking of fallback strategies.
- What MLflow and Vertex Experiments are told: nothing reads it back.
- Loading and validation of YAML, plug-in classes, input validation, roles, the
  mapping of errors to HTTP answers, reads of a single table; the frontend;
  infrastructure and one-off scripts.
- Ties within one second in the ledger, keys shared by two commands, and the
  partial coverage checks (a run's rows are one); the three inserts of a backtest's
  result, which are one step.
- That KFP may take a step of a PipelineJob from an earlier one
  (`enable_caching=True` is the default): every step of the model runs. That
  `update_model_config_params` rewrites the whole YAML file, so that of two
  writers one may undo the other's entry.
- Ingestion runs with a `data_mode` that the validation of policies excludes,
  for which `evaluate_source_health` raises.
- `validate_status_transition`: its callers name both statuses, so it refuses
  nothing.

## 8. What is left

1. Composition: lifecycle with pipeline (the pinned champion was champion), and
   pipeline with ledger (what is published is of a visible draft).
2. Seconds in the ledger, as `ForecastDelivery` has them.
