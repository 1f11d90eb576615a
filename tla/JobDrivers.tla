---------------------------- MODULE JobDrivers -----------------------------
(***************************************************************************)
(* What starts the jobs of ModelJobs: operators, the batches of            *)
(* vertex/jobs/run_batch.py, the backfill of vertex/jobs/backfill.py and   *)
(* the pipeline flow of orchestration/flows/vertex_pipeline.py, in its own *)
(* container or as a PipelineJob.  A driver has a plan of jobs; operators  *)
(* run the other jobs of the session when they like, also again.           *)
(***************************************************************************)
EXTENDS ModelJobs, FiniteSets

CONSTANT Drivers  \* the drivers, each with its plan and the operators' jobs

\* The plan of a backfill pairs the training of each date and the prediction
\* that is pinned to it.
ASSUME DriversAssumption ==
  \A d \in Drivers :
    /\ d.family \in Families
    /\ d.plan \in Seq(Jobs)
    /\ d.kind = "backfill_on" =>
         \A i \in DOMAIN d.plan : i % 2 = 1 =>
           i + 1 \in DOMAIN d.plan /\ PinOf[d.plan[i + 1]] = d.plan[i]

VARIABLES
  driver,     \* the driver of this behaviour
  at,         \* the place in the plan, or in what was submitted
  submitted,  \* the jobs submitted to Vertex, as their submissions completed
  failures,   \* the jobs the driver knows to have failed
  result      \* running, returned, raised or dead

driving == <<driver, at, submitted, failures, result>>
allVars == <<vars, driving>>

Planned == {driver.plan[i] : i \in DOMAIN driver.plan}
Sequential == {"pipeline", "backfill", "backfill_on"}
Pipelines == {"pipeline_job", "pipeline_job_sync"}

TypeOK ==
  /\ JobTypeOK
  /\ driver \in Drivers
  /\ at \in 1 .. Len(driver.plan) + 1
  /\ \A i \in DOMAIN submitted : submitted[i] \in Planned
  /\ failures \subseteq Planned
  /\ result \in {"running", "returned", "raised", "dead"}

Init ==
  /\ JobInit
  /\ driver \in Drivers
  /\ family = driver.family
  /\ at = 1
  /\ submitted = <<>>
  /\ failures = {}
  /\ result = "running"

Kind(kinds) == result = "running" /\ driver.kind \in kinds

\* A job whose process has ended.
Ended(j) == state[j] \in {"returned", "raised", "dead"}

-----------------------------------------------------------------------------
(* The pipeline flow and the backfill: one job after another.              *)

StartNext ==
  /\ Kind(Sequential)
  /\ at <= Len(driver.plan)
  /\ state[driver.plan[at]] = "idle"
  /\ Start(driver.plan[at])
  /\ UNCHANGED driving

\* Faulty variant: the next job of the plan, though it needs this one.
NextJob(i) == i + 1

\* A plan pairs the training and the prediction of each date.
NextDate(i) == IF i % 2 = 1 THEN i + 2 ELSE i + 1

\* run_backfill without stop_on_error logs what an iteration raised and goes
\* on with the next date.  The jobs run in the backfill's own process.
FollowNext ==
  LET j == driver.plan[at]
  IN /\ Kind(Sequential)
     /\ at <= Len(driver.plan)
     /\ Ended(j)
     /\ \/ /\ state[j] = "returned"
           /\ at' = at + 1
           /\ UNCHANGED <<failures, result>>
        \/ /\ state[j] = "raised"
           /\ driver.kind = "backfill_on"
           /\ at' = NextDate(at)
           /\ failures' = failures \union {j}
           /\ UNCHANGED result
        \/ /\ state[j] = "raised" => driver.kind # "backfill_on"
           /\ state[j] # "returned"
           /\ result' = IF state[j] = "dead" /\ driver.kind # "pipeline"
                          THEN "dead" ELSE "raised"
           /\ UNCHANGED <<at, failures>>
     /\ UNCHANGED <<vars, driver, submitted>>

EndOfPlan ==
  /\ Kind(Sequential)
  /\ at > Len(driver.plan)
  /\ result' = "returned"
  /\ UNCHANGED <<vars, driver, at, submitted, failures>>

-----------------------------------------------------------------------------
(* The batch of local processes.                                           *)

Spawn(j) ==
  /\ Kind({"docker"})
  /\ j \in Planned
  /\ state[j] = "idle"
  /\ Start(j)
  /\ UNCHANGED driving

\* Faulty variant: the batch reports the last process only.
DockerOutcomeOfLast ==
  IF state[driver.plan[Len(driver.plan)]] # "returned" THEN "raised"
                                                       ELSE "returned"

\* The batch raises when any process has failed, once all have ended.
DockerOutcome ==
  IF \E j \in Planned : state[j] # "returned" THEN "raised" ELSE "returned"

JoinProcesses ==
  /\ Kind({"docker"})
  /\ \A j \in Planned : Ended(j)
  /\ result' = DockerOutcome
  /\ UNCHANGED <<vars, driver, at, submitted, failures>>

-----------------------------------------------------------------------------
(* The batch of Vertex jobs, and the PipelineJob.                          *)

IsSubmitted(j) == \E i \in DOMAIN submitted : submitted[i] = j

\* submit_job: the run is recorded as running before the job is submitted,
\* and is left so when the submission fails.
Submit(j) ==
  /\ Kind({"vertex", "vertex_sync"})
  /\ j \in Planned \ failures
  /\ ~IsSubmitted(j)
  /\ WriteJobRun(<<j, 1>>, "RUNNING")
  /\ \/ submitted' = Append(submitted, j) /\ UNCHANGED failures
     \/ failures' = failures \union {j} /\ UNCHANGED submitted
  /\ UNCHANGED <<family, clock, state, attempts, todo, local, storage,
                 driver, at, result>>

\* submit_pipeline: the steps of a PipelineJob are submitted at once.
SubmitPipeline ==
  /\ Kind(Pipelines)
  /\ submitted # driver.plan
  /\ \/ submitted' = driver.plan /\ UNCHANGED result
     \/ result' = "raised" /\ UNCHANGED submitted
  /\ UNCHANGED <<vars, driver, at, failures>>

\* A step of a PipelineJob comes after the step before it.
InTurn(j) ==
  driver.kind \in Pipelines =>
    \A i \in DOMAIN submitted \ {1} :
      submitted[i] = j => state[submitted[i - 1]] = "returned"

\* The container of a submitted job starts, also after the driver has ended.
StartContainer(j) ==
  /\ IsSubmitted(j)
  /\ InTurn(j)
  /\ state[j] = "idle"
  /\ Start(j)
  /\ UNCHANGED driving

AllSubmitted == Len(submitted) + Cardinality(failures) = Len(driver.plan)

\* A failed submission is raised, and what was submitted is left to run.
RaiseSubmissions ==
  /\ Kind({"vertex", "vertex_sync"})
  /\ AllSubmitted
  /\ failures # {}
  /\ result' = "raised"
  /\ UNCHANGED <<vars, driver, at, submitted, failures>>

\* With sync, the jobs are waited for in turn and the first failure raises.
AwaitJobs ==
  /\ Kind({"vertex", "vertex_sync"} \union Pipelines)
  /\ AllSubmitted
  /\ failures = {}
  /\ \/ /\ driver.kind \in {"vertex", "pipeline_job"} \/ at > Len(submitted)
        /\ result' = "returned"
        /\ UNCHANGED at
     \/ /\ driver.kind \in {"vertex_sync", "pipeline_job_sync"}
        /\ at <= Len(submitted)
        /\ Ended(submitted[at])
        /\ IF state[submitted[at]] = "returned"
             THEN at' = at + 1 /\ UNCHANGED result
             ELSE result' = "raised" /\ UNCHANGED at
  /\ UNCHANGED <<vars, driver, submitted, failures>>

-----------------------------------------------------------------------------
OperatorStarts(j) == j \in driver.free /\ Start(j) /\ UNCHANGED driving

JobStep(j) == (Work(j) \/ Raise(j)) /\ UNCHANGED driving

Drive ==
  \/ StartNext \/ FollowNext \/ EndOfPlan \/ JoinProcesses
  \/ RaiseSubmissions \/ AwaitJobs \/ SubmitPipeline
  \/ \E j \in Jobs : Spawn(j) \/ Submit(j) \/ StartContainer(j)

Next ==
  \/ Drive
  \/ Tick /\ UNCHANGED driving
  \/ \E j \in Jobs : \/ OperatorStarts(j)
                     \/ JobStep(j)
                     \/ Die(j) /\ UNCHANGED driving

\* Processes that do not die go on, and so does the driver.
Fairness ==
  /\ WF_allVars(Drive)
  /\ \A j \in Jobs : WF_allVars(JobStep(j))

Spec == Init /\ [][Next]_allVars /\ Fairness

-----------------------------------------------------------------------------
(* Properties.                                                             *)

\* A driver that waits for its jobs and returns normally has had all of them
\* return; a backfill that goes on after errors has at least tried every
\* date, and predicted each one that was trained.
PlanCarriedOut ==
  result = "returned" =>
    CASE driver.kind \in {"vertex", "pipeline_job"} -> failures = {}
      [] driver.kind = "backfill_on" ->
           \A j \in Planned \ failures :
             \/ state[j] = "returned"
             \/ PinOf[j] \in failures
      [] OTHER -> \A j \in Planned : state[j] = "returned"

\* Every driver comes to an end, whichever of its jobs fail or are refused.
DriverEnds == <>(result # "running")

=============================================================================
