------------------------- MODULE ScheduledForecast -------------------------
(***************************************************************************)
(* run_scheduled_forecast_pipeline_cycle of                                *)
(* orchestration/flows/scheduled_forecast_pipeline.py and                  *)
(* persist_forecast_pipeline_result of                                     *)
(* vertex/evaluation/forecast_pipeline_persistence.py: executions resolve  *)
(* the champion, load its inputs, run the gates, take the lease of         *)
(* ForecastLock and write a draft table by table, the row of forecast_runs *)
(* last.                                                                   *)
(*                                                                         *)
(* All executions are of one contract and forecast origin, the scope of    *)
(* the lease.  The run id is the hash of the run's pins: here the champion *)
(* candidate id and the model of its configuration.  The rows of a run are *)
(* keyed by ids derived from the run id, and every insert leaves an id     *)
(* that exists alone; what the rows say depends also on the generation of  *)
(* the scoring and calibration inputs, which the run id does not pin.      *)
(***************************************************************************)
EXTENDS Integers, Sequences

CONSTANTS
  Executions,        \* flow executions
  Candidates,        \* model candidates, each with its configuration
  Lease,             \* lease_seconds
  Hierarchical,      \* does the contract reconcile over a hierarchy?
  SoundGenerations,  \* generations of the inputs that pass every gate
  MaxGeneration,     \* bound on the generations of the inputs
  MaxPromotions,     \* bound on the changes of champion
  MaxTries,          \* attempts of an execution: one and the flow's retries
  MaxFaults,         \* bound on the calls that raise
  MaxClock,          \* bound on the clock
  NoRow,             \* the lock table holds no row for the scope
  Absent,            \* a table holds nothing of a run
  Hidden             \* a run has no visible draft

ASSUME LeaseAssumption == Lease \in Nat \ {0}
ASSUME ClockAssumption == MaxClock \in Nat
ASSUME NoRowAssumption ==
  NoRow \notin [owner : Candidates \X Candidates, expires : Int]
ASSUME HierarchicalAssumption == Hierarchical \in BOOLEAN
ASSUME BoundsAssumption ==
  /\ MaxGeneration \in Nat
  /\ MaxPromotions \in Nat
  /\ MaxTries \in Nat
  /\ MaxFaults \in Nat
ASSUME SoundAssumption == SoundGenerations \subseteq 0 .. MaxGeneration
ASSUME AbsentAssumption == Absent \notin 0 .. MaxGeneration

VARIABLES
  lock, clock, req,  \* of ForecastLock
  champion,          \* the candidate of the latest champion-setting event
  promotions,        \* the number of changes of champion so far
  generation,        \* the generation of the inputs in the warehouse
  pc,                \* where each execution is
  champ, config,     \* champion_candidate_id and the configuration it resolved
  gen,               \* the generation of the inputs it loaded
  step,              \* the next table it writes
  tries,             \* the attempts it has begun
  registered,        \* does forecast_contracts hold the contract?
  stored,            \* what each table holds of each run
  exceptions,        \* forecast_exceptions: the run and the failing inputs
  faults             \* the number of calls that raised so far

vars == <<lock, clock, req, champion, promotions, generation, pc, champ,
          config, gen, step, tries, registered, stored, exceptions, faults>>

lockVars == <<lock, clock, req>>
envVars == <<champion, promotions, generation>>
pinVars == <<champ, config, gen>>
execVars == <<pc, pinVars, step, tries>>
tableVars == <<registered, stored, exceptions>>

\* The material identity of a run: champion_candidate_id and model_run_id.
Runs == Candidates \X Candidates

Generations == 0 .. MaxGeneration

Lk == INSTANCE ForecastLock WITH Owners <- Runs, Overlap <- TRUE

-----------------------------------------------------------------------------

\* Faulty variant: the row that makes the draft visible is not the last.
StepsVisibleEarly ==
  IF Hierarchical
    THEN <<"forecast_eligibility_decisions", "forecast_pipeline_stage_runs",
           "forecast_validation_checks", "forecast_outputs", "forecast_runs",
           "forecast_reconciliation_runs", "forecast_reconciled_outputs",
           "forecast_status_history">>
    ELSE <<"forecast_eligibility_decisions", "forecast_pipeline_stage_runs",
           "forecast_validation_checks", "forecast_outputs", "forecast_runs",
           "forecast_status_history">>

\* The tables in the order in which persist_forecast_pipeline_result inserts
\* the rows of a run, each insert one atomic MERGE.
Steps ==
  IF Hierarchical
    THEN <<"forecast_eligibility_decisions", "forecast_pipeline_stage_runs",
           "forecast_validation_checks", "forecast_outputs",
           "forecast_reconciliation_runs", "forecast_reconciled_outputs",
           "forecast_status_history", "forecast_runs">>
    ELSE <<"forecast_eligibility_decisions", "forecast_pipeline_stage_runs",
           "forecast_validation_checks", "forecast_outputs",
           "forecast_status_history", "forecast_runs">>

Tables == {Steps[i] : i \in DOMAIN Steps}

\* Where an execution is.  "idle" is before an attempt, "done" after the
\* flow returned, "dead" after its process died, which nothing restarts.
Places == {"idle", "config", "load", "execute", "acquire", "register",
           "persist", "release", "done", "dead"}

TypeOK ==
  /\ Lk!TypeOK
  /\ champion \in Candidates
  /\ promotions \in 0 .. MaxPromotions
  /\ generation \in Generations
  /\ pc \in [Executions -> Places]
  /\ champ \in [Executions -> Candidates]
  /\ config \in [Executions -> Candidates]
  /\ gen \in [Executions -> Generations]
  /\ step \in [Executions -> 1 .. Len(Steps) + 1]
  /\ tries \in [Executions -> 0 .. MaxTries]
  /\ registered \in BOOLEAN
  /\ stored \in [Tables -> [Runs -> Generations \union {Absent}]]
  /\ exceptions \subseteq Runs \X Generations
  /\ faults \in 0 .. MaxFaults

Init ==
  /\ Lk!Init
  /\ champion \in Candidates
  /\ promotions = 0
  /\ generation = 0
  /\ pc = [e \in Executions |-> "idle"]
  /\ champ = [e \in Executions |-> champion]
  /\ config = champ
  /\ gen = [e \in Executions |-> 0]
  /\ step = [e \in Executions |-> 1]
  /\ tries = [e \in Executions |-> 0]
  /\ registered = FALSE
  /\ stored = [t \in Tables |-> [r \in Runs |-> Absent]]
  /\ exceptions = {}
  /\ faults = 0

-----------------------------------------------------------------------------

At(e, place) == pc[e] = place
GoTo(e, place) == pc' = [pc EXCEPT ![e] = place]

\* build_forecast_run_id of the execution's pins.
RunOf(e) == <<champ[e], config[e]>>

\* An attempt begins: resolve_champion_candidate_id queries the events.
ResolveCandidate(e) ==
  /\ At(e, "idle")
  /\ tries[e] < MaxTries
  /\ GoTo(e, "config")
  /\ champ' = [champ EXCEPT ![e] = champion]
  /\ tries' = [tries EXCEPT ![e] = @ + 1]
  /\ UNCHANGED <<lockVars, envVars, config, gen, step, tableVars, faults>>

\* resolve_champion_config_name queries them again.
ResolveConfig(e) ==
  /\ At(e, "config")
  /\ GoTo(e, "load")
  /\ config' = [config EXCEPT ![e] = champion]
  /\ UNCHANGED <<lockVars, envVars, champ, gen, step, tries, tableVars, faults>>

\* The configuration scores its inputs and its calibration history is read.
LoadInputs(e) ==
  /\ At(e, "load")
  /\ GoTo(e, "execute")
  /\ gen' = [gen EXCEPT ![e] = generation]
  /\ UNCHANGED <<lockVars, envVars, champ, config, step, tries, tableVars, faults>>

\* execute_forecast_pipeline returns a result.
Execute(e) ==
  /\ At(e, "execute")
  /\ gen[e] \in SoundGenerations
  /\ GoTo(e, "acquire")
  /\ UNCHANGED <<lockVars, envVars, pinVars, step, tries, tableVars, faults>>

\* Faulty variant: the exception is recorded and not raised again.
AfterBlockedContinues == "acquire"

\* Where a blocked attempt goes: the exception is raised again.
AfterBlocked == "idle"

\* A gate fails: one exception row per run and error is inserted.
Block(e) ==
  /\ At(e, "execute")
  /\ gen[e] \notin SoundGenerations
  /\ exceptions' = exceptions \union {<<RunOf(e), gen[e]>>}
  /\ GoTo(e, AfterBlocked)
  /\ UNCHANGED <<lockVars, envVars, pinVars, step, tries, registered, stored, faults>>

RequestLock(e) ==
  /\ At(e, "acquire")
  /\ Lk!RequestLock(e, RunOf(e))
  /\ UNCHANGED <<envVars, execVars, tableVars, faults>>

MergeLock(e) ==
  /\ Lk!MergeLock(e)
  /\ UNCHANGED <<envVars, execVars, tableVars, faults>>

\* The answer of acquire_forecast_lock: persist, or raise RuntimeError.
SelectLock(e) ==
  /\ Lk!SelectLock(e)
  /\ GoTo(e, IF Lk!Acquired(lock, req[e]) THEN "register" ELSE "idle")
  /\ UNCHANGED <<envVars, pinVars, step, tries, tableVars, faults>>

\* merge_row_to_bigquery of the contract with update_matched=False.
RegisterContract(e) ==
  /\ At(e, "register")
  /\ registered' = TRUE
  /\ step' = [step EXCEPT ![e] = 1]
  /\ GoTo(e, "persist")
  /\ UNCHANGED <<lockVars, envVars, pinVars, tries, stored, exceptions, faults>>

\* Faulty variant: update_matched is left at its default.
InsertedOver(held, new) == new

\* What a table holds of a run after an insert: a row that exists stays.
Inserted(held, new) == IF held = Absent THEN new ELSE held

\* The insert of the rows of table t by execution e.
InsertRows(e, t) ==
  stored' = [stored EXCEPT ![t][RunOf(e)] = Inserted(@, gen[e])]

Persist(e) ==
  /\ At(e, "persist")
  /\ InsertRows(e, Steps[step[e]])
  /\ step' = [step EXCEPT ![e] = @ + 1]
  /\ GoTo(e, IF step[e] = Len(Steps) THEN "release" ELSE "persist")
  /\ UNCHANGED <<lockVars, envVars, pinVars, tries, registered, exceptions, faults>>

\* release_forecast_lock in the finally clause.
RequestRelease(e) ==
  /\ At(e, "release")
  /\ Lk!RequestRelease(e)
  /\ UNCHANGED <<envVars, execVars, tableVars, faults>>

\* The attempt returns, or raises what made it stop short.
UpdateRelease(e) ==
  /\ Lk!UpdateRelease(e)
  /\ GoTo(e, IF step[e] = Len(Steps) + 1 THEN "done" ELSE "idle")
  /\ UNCHANGED <<envVars, pinVars, step, tries, tableVars, faults>>

-----------------------------------------------------------------------------

Fault == faults < MaxFaults /\ faults' = faults + 1

\* A call of the persistence raises, its statement executed or not: the
\* finally clause runs.
FailRegister(e) ==
  /\ Fault
  /\ At(e, "register")
  /\ registered' \in {registered, TRUE}
  /\ step' = [step EXCEPT ![e] = 1]
  /\ GoTo(e, "release")
  /\ UNCHANGED <<lockVars, envVars, pinVars, tries, stored, exceptions>>

FailPersist(e) ==
  /\ Fault
  /\ At(e, "persist")
  /\ InsertRows(e, Steps[step[e]]) \/ UNCHANGED stored
  /\ GoTo(e, "release")
  /\ UNCHANGED <<lockVars, envVars, pinVars, step, tries, registered, exceptions>>

\* What a call of the lock leaves of an attempt that ends in the middle.
Abandoned(e) == Lk!Die(e) \/ (~Lk!Busy(e) /\ UNCHANGED lockVars)

\* A call outside the try statement raises: the attempt ends and releases
\* nothing, and the retries of the flow run it again in the same process.
Raise(e) ==
  /\ Fault
  /\ pc[e] \in {"config", "load", "execute", "acquire", "release"}
  /\ Abandoned(e)
  /\ GoTo(e, "idle")
  /\ UNCHANGED <<envVars, pinVars, step, tries, tableVars>>

\* The process of the execution dies, and its retries with it.
Crash(e) ==
  /\ pc[e] \notin {"done", "dead"}
  /\ Abandoned(e)
  /\ GoTo(e, "dead")
  /\ UNCHANGED <<envVars, pinVars, step, tries, tableVars, faults>>

\* A promotion or a rollback appends a champion-setting event.
Promote ==
  /\ promotions < MaxPromotions
  /\ promotions' = promotions + 1
  /\ \E c \in Candidates \ {champion} : champion' = c
  /\ UNCHANGED <<lockVars, generation, execVars, tableVars, faults>>

\* New source data and backtests change what an attempt loads.
NewInputs ==
  /\ generation < MaxGeneration
  /\ generation' = generation + 1
  /\ UNCHANGED <<lockVars, champion, promotions, execVars, tableVars, faults>>

Tick ==
  /\ Lk!Tick
  /\ UNCHANGED <<envVars, execVars, tableVars, faults>>

Step(e) ==
  \/ ResolveCandidate(e)
  \/ ResolveConfig(e)
  \/ LoadInputs(e)
  \/ Execute(e)
  \/ Block(e)
  \/ RequestLock(e)
  \/ MergeLock(e)
  \/ SelectLock(e)
  \/ RegisterContract(e)
  \/ Persist(e)
  \/ RequestRelease(e)
  \/ UpdateRelease(e)

Next ==
  \/ \E e \in Executions :
       \/ Step(e)
       \/ FailRegister(e)
       \/ FailPersist(e)
       \/ Raise(e)
       \/ Crash(e)
  \/ Promote
  \/ NewInputs
  \/ Tick

Spec == Init /\ [][Next]_vars

\* A process that lives goes on, and retries=2 of the flow begins the next
\* attempt after one that raised.  A dead process takes no step again.
FairSpec == Spec /\ \A e \in Executions : WF_vars(Step(e))

-----------------------------------------------------------------------------

\* forecast_visible_drafts joins the outputs with the row of forecast_runs.
Visible(r) == stored["forecast_runs"][r] # Absent

\* A draft a reader can see has all of its evidence: whatever crashed, was
\* retried or ran at the same time, every table of the run is written and the
\* contract is registered when the row of forecast_runs is there.
VisibleDraftComplete ==
  \A r \in Runs :
    Visible(r) => registered /\ \A t \in Tables : stored[t][r] # Absent

\* An attempt that a gate blocked leaves an exception and nothing else: no
\* table of the run holds rows made of the inputs that failed, also when
\* another attempt of the run passes.
BlockedLeavesNoRows ==
  \A r \in Runs, g \in Generations :
    <<r, g>> \in exceptions => \A t \in Tables : stored[t][r] # g

\* What the readers of a run see, and the promise to them: the draft of a run
\* appears in one step, complete and sound, and no later attempt changes it.
DraftOf(r) ==
  IF Visible(r) THEN [t \in Tables |-> stored[t][r]] ELSE Hidden

Atomic == INSTANCE AtomicDraft WITH
            Payloads <- SoundGenerations,
            draft <- [r \in Runs |-> DraftOf(r)]

\* The pipeline implements the atomic draft.
ImplementsAtomicDraft == Atomic!Spec

\* While one execution of the run survives, its draft becomes visible: its
\* retries outlast the calls that raise, and neither the lease nor the rows
\* that an attempt or a dead process left behind keep it out.  If all die,
\* nothing is promised: nothing restarts them.
EventuallyVisible ==
  (\E e \in Executions : [](~At(e, "dead"))) => <>(\E r \in Runs : Visible(r))

\* The stage records of a visible draft describe its outputs: the run of the
\* calibration that the calibrate stage names is the one the rows name.
LineageConsistent ==
  \A r \in Runs :
    Visible(r) => stored["forecast_pipeline_stage_runs"][r]
                  = stored["forecast_outputs"][r]

\* The candidate that a visible draft names as its champion is the one whose
\* configuration scored it.
DraftNamesItsModel == \A r \in Runs : Visible(r) => r[1] = r[2]
=============================================================================
