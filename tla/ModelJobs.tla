----------------------------- MODULE ModelJobs -----------------------------
(***************************************************************************)
(* The jobs of vertex/jobs/run.py over one storage bucket and one dataset: *)
(* an optimization searches parameters, a training fits a model, uploads   *)
(* it with its manifest and describes it in BigQuery, and a prediction     *)
(* resolves an artifact, loads its model and appends what it predicts.     *)
(*                                                                         *)
(* What a job does to shared state is a program: the sequence of the       *)
(* uploads, queries and inserts of its model family, in the order of the   *)
(* code.  Each is one step and the steps of different jobs interleave; at  *)
(* any of them the job may raise, or its process may die.  A run id is     *)
(* new with each attempt, and stands for the model that the run fitted.    *)
(***************************************************************************)
EXTENDS Integers, Sequences

CONSTANTS
  Jobs,         \* the jobs that are run
  StepOf,       \* the job.step of each
  ConfigOf,     \* the model configuration of each
  PinOf,        \* the job whose run a job is pinned to, or None
  Untuned,      \* the trainings with use_optimized_params: false
  TunedBy,      \* the optimize_config_name of each job, its own by default
  RecordOf,     \* the configuration whose record is read for it, or None
  Families,     \* the model families a behaviour may be about
  Lossy,        \* bound: the jobs whose status may fail to be merged
  Mortal,       \* bound: the jobs whose process may die
  MaxAttempts,  \* bound on the attempts of each job
  LastSecond,   \* bound on the clock
  None          \* no run, no pin

ASSUME AttemptsAssumption == MaxAttempts \in [Jobs -> Nat]
ASSUME ClockAssumption == LastSecond \in Nat

VARIABLES
  family,       \* the model family of the configurations
  clock,        \* the time in whole seconds
  state,        \* idle, running, returned, raised or dead
  attempts,     \* how often each job has been run
  todo,         \* what is left of the program of each job
  local,        \* what its process holds
  yaml,         \* model_params of each configuration in model_config.yaml
  trials,       \* the optimizations in the trials table
  best,         \* latest_best_params.json of each configuration
  bucket,       \* the model and the manifest under each artifact prefix
  tables,       \* the runs described in the other tables
  predictions,  \* the prediction table
  jobRuns       \* the status of each run in vertex_job_runs

vars == <<family, clock, state, attempts, todo, local, yaml, trials, best,
          bucket, tables, predictions, jobRuns>>

storage == <<yaml, trials, best, bucket, tables, predictions>>

Configs == {ConfigOf[j] : j \in Jobs}
Seconds == 0 .. LastSecond
Runs == UNION {{j} \X (0 .. MaxAttempts[j]) : j \in Jobs}
Run(j) == <<j, attempts[j]>>

\* A job is of one step, and may be pinned to the run of a job: a prediction
\* to a training, a training to an optimization.  Its optimized parameters are
\* looked for under a configuration and, first, in the record that
\* VERTEX_BEST_PARAMS_URI or that configuration names.  None is neither a run
\* nor a configuration.
ASSUME PlanningAssumption ==
  /\ StepOf \in [Jobs -> {"optimize", "train", "predict"}]
  /\ PinOf \in [Jobs -> Jobs \union {None}]
  /\ TunedBy \in [Jobs -> Configs]
  /\ RecordOf \in [Jobs -> Configs \union {None}]
  /\ None \notin Runs \union Configs

\* One prefix holds what a configuration's trainings of one second upload.
Prefixes == Configs \X Seconds
Prefix(j) == <<ConfigOf[j], local[j].second>>

-----------------------------------------------------------------------------
(* The programs of the model families.                                     *)

\* save_joblib_artifacts and save_xgboost_sklearn_artifacts: a manifest is
\* uploaded after the model that it describes.
JoblibArtifacts == <<"model", "manifest">>
XgboostArtifacts == <<"model", "manifest", "trees">>

XgboostTraining ==
  <<"params", "fit">> \o XgboostArtifacts \o
  <<"metadata", "performance", "registry">>
RandomForestTraining ==
  <<"params", "fit">> \o JoblibArtifacts \o
  <<"metadata", "performance", "registry">>
TimeseriesTraining ==
  <<"params", "fit">> \o JoblibArtifacts \o <<"metadata", "performance">>
ProphetTraining ==
  <<"params", "fit">> \o JoblibArtifacts \o <<"metadata", "performance">>
DirectTraining == <<"params", "fit">> \o JoblibArtifacts

Training ==
  [xgboost |-> XgboostTraining, random_forest |-> RandomForestTraining,
   timeseries |-> TimeseriesTraining, prophet |-> ProphetTraining,
   xgboost_direct |-> DirectTraining]

\* Faulty variant: the rows are written before the run that they belong to.
OutputsFirst == <<"outputs", "contract", "forecast_run", "status">>

\* write_forecast_outputs_if_configured.
CanonicalOutputs == <<"contract", "forecast_run", "outputs", "status">>

\* The explanations are computed before anything is written ...
XgboostPrediction ==
  <<"resolve", "load_json", "explain", "predictions">> \o CanonicalOutputs
  \o <<"explanations">>
\* ... or after everything else is.
RandomForestPrediction ==
  <<"resolve", "load_joblib", "predictions">> \o CanonicalOutputs
  \o <<"explain", "explanations">>
TimeseriesPrediction ==
  <<"resolve", "load_joblib", "predictions">> \o CanonicalOutputs
ProphetPrediction == <<"resolve", "load_joblib", "predictions">>
\* Faulty variant: nothing is loaded.
DirectPredictionOfNothing == <<"resolve", "horizons", "predictions">>

\* A batch without every horizon of every entity raises before the append.
DirectPrediction == <<"resolve", "load_joblib", "horizons", "predictions">>

Prediction ==
  [xgboost |-> XgboostPrediction, random_forest |-> RandomForestPrediction,
   timeseries |-> TimeseriesPrediction, prophet |-> ProphetPrediction,
   xgboost_direct |-> DirectPrediction]

XgboostSearch == <<"study", "trials">>
RandomForestSearch == <<"study", "trials">>
TimeseriesSearch == <<"study", "trials">>
ProphetSearch == <<"study", "trials">>

Search ==
  [xgboost |-> XgboostSearch, random_forest |-> RandomForestSearch,
   timeseries |-> TimeseriesSearch, prophet |-> ProphetSearch]

\* complete_optimize_result.
SearchCompletion == <<"best", "yaml">>

\* Every family trains and predicts; xgboost_direct has no search.
ASSUME FamiliesAssumption == Families \subseteq DOMAIN Training

Program(j) ==
  CASE StepOf[j] = "optimize" -> Search[family] \o SearchCompletion
    [] StepOf[j] = "train" -> Training[family]
    [] StepOf[j] = "predict" -> Prediction[family]

\* The steps that insert the rows of a run into a table of that name.
DescribingSteps ==
  {"trees", "metadata", "performance", "registry", "contract", "forecast_run",
   "outputs", "status", "explanations"}

\* The steps that compute and may raise, and write nothing.
ComputingSteps == {"explain", "horizons"}

-----------------------------------------------------------------------------
Fresh == [base |-> None, params |-> None, second |-> 0, prefix |-> None,
          source |-> None, model |-> None, known |-> {}]

Local ==
  [base : Runs \union {None}, params : Runs \union {None}, second : Seconds,
   prefix : Prefixes \union {None}, source : Runs \union {None},
   model : Runs \union {None}, known : SUBSET Jobs]

PredictionRow ==
  [run : Runs, source : Runs, model : Runs, prefix : Prefixes,
   known : SUBSET Jobs]

JobTypeOK ==
  /\ family \in Families
  /\ clock \in Seconds
  /\ state \in [Jobs -> {"idle", "running", "returned", "raised", "dead"}]
  /\ \A j \in Jobs : attempts[j] \in 0 .. MaxAttempts[j]
  /\ \A j \in Jobs :
       \/ todo[j] = <<>>
       \/ \E n \in 1 .. Len(Program(j)) :
            todo[j] = SubSeq(Program(j), n, Len(Program(j)))
  /\ local \in [Jobs -> Local]
  /\ yaml \in [Configs -> Runs \union {None}]
  /\ trials \subseteq Runs \X Seconds
  /\ best \in [Configs -> Runs \union {None}]
  /\ bucket \in [Prefixes -> [model : Runs \union {None},
                              manifest : Runs \union {None}]]
  /\ tables \subseteq DescribingSteps \X Runs
  /\ predictions \subseteq PredictionRow
  /\ jobRuns \in [Runs -> {"none", "RUNNING", "SUCCEEDED", "FAILED"}]

JobInit ==
  /\ family \in Families
  /\ clock = 0
  /\ state = [j \in Jobs |-> "idle"]
  /\ attempts = [j \in Jobs |-> 0]
  /\ todo = [j \in Jobs |-> <<>>]
  /\ local = [j \in Jobs |-> Fresh]
  /\ yaml = [c \in Configs |-> None]
  /\ trials = {}
  /\ best = [c \in Configs |-> None]
  /\ bucket = [p \in Prefixes |-> [model |-> None, manifest |-> None]]
  /\ tables = {}
  /\ predictions = {}
  /\ jobRuns = [r \in Runs |-> "none"]

\* The run a job is pinned to: the last of the job that it names.
PinnedRun(j) == <<PinOf[j], attempts[PinOf[j]]>>

Tick ==
  /\ clock < LastSecond
  /\ clock' = clock + 1
  /\ UNCHANGED <<family, state, attempts, todo, local, storage, jobRuns>>

\* _write_job_run: the merge of the status is best effort.
WriteJobRun(run, status) ==
  \/ jobRuns' = [jobRuns EXCEPT ![run] = status]
  \/ run[1] \in Lossy /\ UNCHANGED jobRuns

\* The jobs that have returned, which those that begin now may build on.
Known == {k \in Jobs : state[k] = "returned"}

\* run_job and run_job_config: the configuration is read and the run begins.
Start(j) ==
  /\ state[j] \in {"idle", "raised", "dead"}
  /\ attempts[j] < MaxAttempts[j]
  /\ StepOf[j] = "optimize" => family \in DOMAIN Search
  /\ PinOf[j] # None => state[PinOf[j]] = "returned"
  /\ state' = [state EXCEPT ![j] = "running"]
  /\ attempts' = [attempts EXCEPT ![j] = @ + 1]
  /\ todo' = [todo EXCEPT ![j] = Program(j)]
  /\ local' = [local EXCEPT ![j] =
       [Fresh EXCEPT !.base = yaml[ConfigOf[j]], !.known = Known]]
  /\ WriteJobRun(<<j, attempts[j] + 1>>, "RUNNING")
  /\ UNCHANGED <<family, clock, storage>>

At(j, step) ==
  /\ state[j] = "running"
  /\ todo[j] # <<>>
  /\ Head(todo[j]) = step

Advance(j) ==
  /\ todo' = [todo EXCEPT ![j] = Tail(@)]
  /\ UNCHANGED <<family, clock, state, attempts, jobRuns>>

-----------------------------------------------------------------------------
(* Optimization.                                                           *)

\* run_at is taken before the first trial.
Study(j) ==
  /\ At(j, "study")
  /\ local' = [local EXCEPT ![j].second = clock]
  /\ Advance(j)
  /\ UNCHANGED storage

\* The trials are appended as one batch.
AppendTrials(j) ==
  /\ At(j, "trials")
  /\ trials' = trials \union {<<Run(j), local[j].second>>}
  /\ Advance(j)
  /\ UNCHANGED <<local, yaml, best, bucket, tables, predictions>>

\* Faulty variant: a record that is there already is kept.
KeepBestParams(j) ==
  /\ At(j, "best")
  /\ best' = [best EXCEPT ![ConfigOf[j]] = IF @ = None THEN Run(j) ELSE @]
  /\ Advance(j)
  /\ UNCHANGED <<local, yaml, trials, bucket, tables, predictions>>

\* persist_best_params overwrites the record, whoever wrote it.
PersistBestParams(j) ==
  /\ At(j, "best")
  /\ best' = [best EXCEPT ![ConfigOf[j]] = Run(j)]
  /\ Advance(j)
  /\ UNCHANGED <<local, yaml, trials, bucket, tables, predictions>>

\* update_model_config_params, unless it is disabled.  The file is read and
\* rewritten as a whole; that a second writer may undo the entry of another
\* configuration is left out.
UpdateYaml(j) ==
  /\ At(j, "yaml")
  /\ yaml' \in {yaml, [yaml EXCEPT ![ConfigOf[j]] = Run(j)]}
  /\ Advance(j)
  /\ UNCHANGED <<local, trials, best, bucket, tables, predictions>>

-----------------------------------------------------------------------------
(* Training.                                                               *)

\* load_best_params_from_bq: of the latest run, or of the pinned one.
TrialParameters(j) ==
  LET of == {t \in trials :
               /\ ConfigOf[t[1][1]] = TunedBy[j]
               /\ PinOf[j] # None => t[1] = PinnedRun(j)}
  IN  {t[1] : t \in {u \in of : \A v \in of : u[2] >= v[2]}}

\* latest_best_params.json at the URI that the job reads.
Record(j) == IF RecordOf[j] = None THEN None ELSE best[RecordOf[j]]

\* Only the configuration, when it opts out; the record of the bucket, to
\* whatever run the job is pinned; or else the table, or else the configuration,
\* as a failed query counts as no row.
FoundParameters(j) ==
  CASE j \in Untuned -> {local[j].base}
    [] j \notin Untuned /\ Record(j) # None -> {Record(j)}
    [] OTHER -> TrialParameters(j) \union {local[j].base}

\* resolve_model_parameters.
ResolveParameters(j) ==
  /\ At(j, "params")
  /\ \E params \in FoundParameters(j) :
       local' = [local EXCEPT ![j].params = params]
  /\ Advance(j)
  /\ UNCHANGED storage

\* run_at, and with it the artifact prefix, is taken when the fit is done.
Fit(j) ==
  /\ At(j, "fit")
  /\ local' = [local EXCEPT ![j].second = clock]
  /\ Advance(j)
  /\ UNCHANGED storage

UploadModel(j) ==
  /\ At(j, "model")
  /\ bucket' = [bucket EXCEPT ![Prefix(j)].model = Run(j)]
  /\ Advance(j)
  /\ UNCHANGED <<local, yaml, trials, best, tables, predictions>>

UploadManifest(j) ==
  /\ At(j, "manifest")
  /\ bucket' = [bucket EXCEPT ![Prefix(j)].manifest = Run(j)]
  /\ Advance(j)
  /\ UNCHANGED <<local, yaml, trials, best, tables, predictions>>

-----------------------------------------------------------------------------
(* Prediction.                                                             *)

\* list_model_artifacts: the prefixes with a manifest, of the pinned run if
\* there is one.
Artifacts(j) ==
  {p \in Prefixes : /\ p[1] = ConfigOf[j]
                    /\ bucket[p].manifest # None
                    /\ PinOf[j] # None => bucket[p].manifest = PinnedRun(j)}

\* Faulty variant: the names are sorted the other way round.
OldestFirst(p, q) == p[2] <= q[2]

\* The order of the entries: the greatest prefix first.
NewestFirst(p, q) == p[2] >= q[2]

\* resolve_latest_artifact; a model without a manifest cannot be resolved.
ResolveArtifact(j) ==
  /\ At(j, "resolve")
  /\ \E p \in Artifacts(j) :
       /\ \A q \in Artifacts(j) : NewestFirst(p, q)
       /\ local' = [local EXCEPT ![j].prefix = p,
                                 ![j].source = bucket[p].manifest]
  /\ Advance(j)
  /\ UNCHANGED storage

\* Faulty variant: the digest is not compared.
AnyDigest(model, source) == TRUE

\* The digest in the manifest is the object's.
SameDigest(model, source) == model = source

LoadJoblib(j) ==
  LET model == bucket[local[j].prefix].model
  IN /\ At(j, "load_joblib")
     /\ model # None
     /\ SameDigest(model, local[j].source)
     /\ local' = [local EXCEPT ![j].model = model]
     /\ Advance(j)
     /\ UNCHANGED storage

\* load_xgboost_from_gcs: the manifest's digest is not looked at.
LoadJson(j) ==
  LET model == bucket[local[j].prefix].model
  IN /\ At(j, "load_json")
     /\ model # None
     /\ local' = [local EXCEPT ![j].model = model]
     /\ Advance(j)
     /\ UNCHANGED storage

\* The rows name the run of the manifest, and are of the model loaded.
AppendPredictions(j) ==
  /\ At(j, "predictions")
  /\ predictions' = predictions \union
       {[run |-> Run(j), source |-> local[j].source, model |-> local[j].model,
         prefix |-> local[j].prefix, known |-> local[j].known]}
  /\ Advance(j)
  /\ UNCHANGED <<local, yaml, trials, best, bucket, tables>>

Compute(j) ==
  /\ \E step \in ComputingSteps : At(j, step)
  /\ Advance(j)
  /\ UNCHANGED <<local, storage>>

\* Rows that describe the run, in the table that the step is named for.
Describe(j) ==
  /\ \E step \in DescribingSteps :
       At(j, step) /\ tables' = tables \union {<<step, Run(j)>>}
  /\ Advance(j)
  /\ UNCHANGED <<local, yaml, trials, best, bucket, predictions>>

-----------------------------------------------------------------------------
(* The end of an attempt.                                                  *)

\* Faulty variant: the run is reported before the last of its writes.
FinishedEarly(j) == todo[j] = <<>> \/ Len(todo[j]) = 1

\* The provider's execute has returned.
Finished(j) == todo[j] = <<>>

Ends(j, outcome) ==
  /\ state[j] = "running"
  /\ state' = [state EXCEPT ![j] = outcome]
  /\ UNCHANGED <<family, clock, attempts, todo, local, storage>>

Return(j) ==
  /\ Finished(j)
  /\ Ends(j, "returned")
  /\ WriteJobRun(Run(j), "SUCCEEDED")

Raise(j) ==
  /\ ~Finished(j)
  /\ Ends(j, "raised")
  /\ WriteJobRun(Run(j), "FAILED")

Die(j) == j \in Mortal /\ Ends(j, "dead") /\ UNCHANGED jobRuns

Work(j) ==
  \/ Study(j) \/ AppendTrials(j) \/ PersistBestParams(j) \/ UpdateYaml(j)
  \/ ResolveParameters(j) \/ Fit(j) \/ UploadModel(j) \/ UploadManifest(j)
  \/ ResolveArtifact(j) \/ LoadJoblib(j) \/ LoadJson(j) \/ Compute(j)
  \/ AppendPredictions(j) \/ Describe(j) \/ Return(j)

-----------------------------------------------------------------------------
(* Properties.                                                             *)

\* Predictions are computed by the model of the run that their rows name,
\* although model and manifest are uploaded and downloaded one by one and a
\* training of the same second overwrites both.  XGBoost's own loader compares
\* no digest and gives no such guarantee.
PredictionsOfDescribedModel ==
  family # "xgboost" => \A p \in predictions : p.model = p.source

\* A prediction that is not pinned never uses a model older than that of a
\* training that had returned before it began.
FreshModel ==
  \A p \in predictions : \A t \in p.known :
    /\ PinOf[p.run[1]] = None
    /\ StepOf[t] = "train" /\ ConfigOf[t] = ConfigOf[p.run[1]]
    => p.prefix[2] >= local[t].second

\* A training that does not opt out, and begins after an optimization of the
\* configuration whose record it reads has returned, is given the parameters
\* of an optimization, and of none that was over before that one began: those
\* that overlap overwrite one record in any order, and one that fails may leave
\* its own, but an old record never comes back.
OptimizedParameters ==
  \A j \in Jobs : \A o \in local[j].known :
    /\ StepOf[j] = "train" /\ j \notin Untuned
    /\ StepOf[o] = "optimize" /\ ConfigOf[o] = RecordOf[j]
    /\ todo[j] = <<>> \/ Head(todo[j]) # "params"
    => local[j].params # None /\ local[j].params[1] \notin local[o].known

\* Canonical rows that can be read belong to a contract and a forecast run
\* that can be read, wherever a prediction stops.
CanonicalRegistered ==
  \A r \in Runs :
    <<"outputs", r>> \in tables
    => {<<"contract", r>>, <<"forecast_run", r>>} \subseteq tables

\* A run that vertex_job_runs shows as succeeded has left all of its rows.
SucceededIsComplete ==
  \A r \in Runs : jobRuns[r] = "SUCCEEDED" =>
    \A i \in DOMAIN Program(r[1]) :
      LET step == Program(r[1])[i]
      IN /\ step \in DescribingSteps => <<step, r>> \in tables
         /\ step = "predictions" => \E p \in predictions : p.run = r

=============================================================================
