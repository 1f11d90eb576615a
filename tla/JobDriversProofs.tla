-------------------------- MODULE JobDriversProofs --------------------------
(***************************************************************************)
(* Proofs about the jobs of the model families and their drivers, for any  *)
(* plans, configurations, pins, operators, retries and deaths.             *)
(*                                                                         *)
(* What a prediction owes is not inductive: it speaks of rows, which come  *)
(* to be many steps after the model was resolved and loaded.  The          *)
(* invariant says of each job where it is in its program (Placed) and what *)
(* each step it has passed left behind (Carrying): what it resolved is     *)
(* fresh, a model it compared with the digest is the one it resolved, its  *)
(* rows are in their tables, its record of best parameters is there or was *)
(* overwritten by a later one (Follows).  What a step may rely on then     *)
(* follows from the order of the programs (Ordered), which is the part of  *)
(* them the properties depend on.                                          *)
(*                                                                         *)
(* What was left behind stays, as nothing takes away rows or objects       *)
(* (StorageGrows), and as a job that has returned never runs again         *)
(* (ReturnedRests): the second of a training that a prediction knew of,    *)
(* and what an optimization itself had known, are what they were.          *)
(*                                                                         *)
(* Drivers only add statuses to what the jobs do (DriversRunJobs), so the  *)
(* invariant of the jobs is kept by theirs; that a driver returns after    *)
(* its jobs is Followed, Submitted and Awaited, what it has seen of them   *)
(* so far.                                                                 *)
(***************************************************************************)
EXTENDS JobDrivers, SequenceTheorems, FiniteSetTheorems, TLAPS

-----------------------------------------------------------------------------
(* Programs.                                                               *)

StepNames ==
  DescribingSteps \union ComputingSteps \union
  {"study", "trials", "best", "yaml", "params", "fit", "model", "manifest",
   "resolve", "load_joblib", "load_json", "predictions"}

\* What of the order of a program the properties rest on.
Ordered(P) ==
  \A k \in 1 .. Len(P) :
    LET past == {P[i] : i \in 1 .. k - 1}
    IN /\ P[k] = "outputs" => {"contract", "forecast_run"} \subseteq past
       /\ P[k] = "predictions" =>
            /\ "resolve" \in past
            /\ "load_joblib" \in past \/ "load_json" \in past
       /\ P[k] \in {"load_joblib", "load_json"} => "resolve" \in past
       /\ P[k] \in {"resolve", "load_json"} => "load_joblib" \notin past
       /\ P[k] \in {"study", "fit"} => "manifest" \notin past

Has(P, step) == \E i \in 1 .. Len(P) : P[i] = step

\* A search and its completion, written as one sequence.
LEMMA SearchWhole ==
  /\ <<"study", "trials">> \o SearchCompletion
       = <<"study", "trials", "best", "yaml">>
  /\ <<"study", "trials", "best", "yaml">> \in Seq(StepNames)
<1> DEFINE P == <<"study", "trials">> \o SearchCompletion
           T == <<"study", "trials", "best", "yaml">>
<1>1. /\ "study" \in StepNames /\ "trials" \in StepNames
      /\ "best" \in StepNames /\ "yaml" \in StepNames
  BY DEF StepNames
<1>2. P \in Seq(StepNames) /\ Len(P) = 4
  BY <1>1 DEF SearchCompletion
<1>3. T \in Seq(StepNames) /\ Len(T) = 4
  BY <1>1
<1>4. \A i \in 1 .. 4 : P[i] = T[i]
  BY DEF SearchCompletion
<1> QED
  BY <1>2, <1>3, <1>4, SeqEqual

\* The program of an optimization ends with the record of the best parameters.
LEMMA SearchOrdered ==
  ASSUME NEW f \in DOMAIN Search
  PROVE  LET P == Search[f] \o SearchCompletion
         IN /\ P \in Seq(StepNames)
            /\ Ordered(P)
            /\ Has(P, "best")
            /\ ~Has(P, "load_json")
<1> DEFINE P == Search[f] \o SearchCompletion
<1>1. f \in {"xgboost", "random_forest", "timeseries", "prophet"}
  BY DEF Search
<1>2. Search[f] = <<"study", "trials">>
  BY <1>1 DEF Search, XgboostSearch, RandomForestSearch, TimeseriesSearch,
              ProphetSearch
<1>3. P = <<"study", "trials", "best", "yaml">>
  BY <1>2, SearchWhole
<1>4. P \in Seq(StepNames)
  BY <1>3, SearchWhole
<1> HIDE DEF P
<1>5. Ordered(P)
  BY <1>3 DEF Ordered
<1>6. Has(P, "best") /\ ~Has(P, "load_json")
  BY <1>3 DEF Has
<1> QED
  BY <1>4, <1>5, <1>6 DEF P

\* A training resolves its parameters first and uploads the manifest after the
\* model, whatever its family.
LEMMA TrainingOrdered ==
  ASSUME NEW f \in DOMAIN Training
  PROVE  LET P == Training[f]
         IN /\ P \in Seq(StepNames)
            /\ Ordered(P)
            /\ Has(P, "manifest")
            /\ ~Has(P, "load_json")
            /\ Len(P) >= 1
            /\ P[1] = "params"
<1> DEFINE P == Training[f]
           Sound == /\ P \in Seq(StepNames) /\ Ordered(P)
                    /\ Has(P, "manifest") /\ ~Has(P, "load_json")
                    /\ Len(P) >= 1 /\ P[1] = "params"
<1>1. \/ P = <<"params", "fit", "model", "manifest">>
      \/ P = <<"params", "fit", "model", "manifest", "metadata",
               "performance">>
      \/ P = <<"params", "fit", "model", "manifest", "metadata",
               "performance", "registry">>
      \/ P = <<"params", "fit", "model", "manifest", "trees", "metadata",
               "performance", "registry">>
  BY DEF Training, XgboostTraining, RandomForestTraining, TimeseriesTraining,
         ProphetTraining, DirectTraining, JoblibArtifacts, XgboostArtifacts
<1>2. /\ "params" \in StepNames /\ "fit" \in StepNames
      /\ "model" \in StepNames /\ "manifest" \in StepNames
      /\ "metadata" \in StepNames /\ "performance" \in StepNames
      /\ "registry" \in StepNames /\ "trees" \in StepNames
  BY DEF StepNames, DescribingSteps
<1> HIDE DEF P
<1>3. ASSUME P = <<"params", "fit", "model", "manifest">>
      PROVE  Sound
  <2>1. P \in Seq(StepNames)
    BY <1>2, <1>3
  <2> QED
    BY <1>3, <2>1 DEF Ordered, Has
<1>4. ASSUME P = <<"params", "fit", "model", "manifest", "metadata",
                   "performance">>
      PROVE  Sound
  <2>1. P \in Seq(StepNames)
    BY <1>2, <1>4
  <2> QED
    BY <1>4, <2>1 DEF Ordered, Has
<1>5. ASSUME P = <<"params", "fit", "model", "manifest", "metadata",
                   "performance", "registry">>
      PROVE  Sound
  <2>1. P \in Seq(StepNames)
    BY <1>2, <1>5
  <2> QED
    BY <1>5, <2>1 DEF Ordered, Has
<1>6. ASSUME P = <<"params", "fit", "model", "manifest", "trees", "metadata",
                   "performance", "registry">>
      PROVE  Sound
  <2>1. P \in Seq(StepNames)
    BY <1>2, <1>6
  <2> QED
    BY <1>6, <2>1 DEF Ordered, Has
<1> QED
  BY <1>1, <1>3, <1>4, <1>5, <1>6 DEF P

\* A prediction resolves, loads, and only then writes; the canonical rows come
\* after the contract and the forecast run.  Only XGBoost loads without a digest.
LEMMA PredictionOrdered ==
  ASSUME NEW f \in DOMAIN Training
  PROVE  LET P == Prediction[f]
         IN /\ P \in Seq(StepNames)
            /\ Ordered(P)
            /\ f # "xgboost" => ~Has(P, "load_json")
<1> DEFINE P == Prediction[f]
           Sound == /\ P \in Seq(StepNames) /\ Ordered(P)
                    /\ f # "xgboost" => ~Has(P, "load_json")
<1>1. \/ /\ f = "xgboost"
         /\ P = <<"resolve", "load_json", "explain", "predictions",
                  "contract", "forecast_run", "outputs", "status",
                  "explanations">>
      \/ P = <<"resolve", "load_joblib", "predictions", "contract",
               "forecast_run", "outputs", "status", "explain",
               "explanations">>
      \/ P = <<"resolve", "load_joblib", "predictions", "contract",
               "forecast_run", "outputs", "status">>
      \/ P = <<"resolve", "load_joblib", "predictions">>
      \/ P = <<"resolve", "load_joblib", "horizons", "predictions">>
  BY DEF Training, Prediction, XgboostPrediction, RandomForestPrediction,
         TimeseriesPrediction, ProphetPrediction, DirectPrediction,
         CanonicalOutputs
<1>2. /\ "resolve" \in StepNames /\ "load_json" \in StepNames
      /\ "load_joblib" \in StepNames /\ "explain" \in StepNames
      /\ "horizons" \in StepNames /\ "predictions" \in StepNames
      /\ "contract" \in StepNames /\ "forecast_run" \in StepNames
      /\ "outputs" \in StepNames /\ "status" \in StepNames
      /\ "explanations" \in StepNames
  BY DEF StepNames, DescribingSteps, ComputingSteps
<1> HIDE DEF P
<1>3. ASSUME f = "xgboost",
             P = <<"resolve", "load_json", "explain", "predictions",
                   "contract", "forecast_run", "outputs", "status",
                   "explanations">>
      PROVE  Sound
  <2>1. P \in Seq(StepNames)
    BY <1>2, <1>3
  <2> QED
    BY <1>3, <2>1 DEF Ordered
<1>4. ASSUME P = <<"resolve", "load_joblib", "predictions", "contract",
                   "forecast_run", "outputs", "status", "explain",
                   "explanations">>
      PROVE  Sound
  <2>1. P \in Seq(StepNames)
    BY <1>2, <1>4
  <2> QED
    BY <1>4, <2>1 DEF Ordered, Has
<1>5. ASSUME P = <<"resolve", "load_joblib", "predictions", "contract",
                   "forecast_run", "outputs", "status">>
      PROVE  Sound
  <2>1. P \in Seq(StepNames)
    BY <1>2, <1>5
  <2> QED
    BY <1>5, <2>1 DEF Ordered, Has
<1>6. ASSUME P = <<"resolve", "load_joblib", "predictions">>
      PROVE  Sound
  <2>1. P \in Seq(StepNames)
    BY <1>2, <1>6
  <2> QED
    BY <1>6, <2>1 DEF Ordered, Has
<1>7. ASSUME P = <<"resolve", "load_joblib", "horizons", "predictions">>
      PROVE  Sound
  <2>1. P \in Seq(StepNames)
    BY <1>2, <1>7
  <2> QED
    BY <1>7, <2>1 DEF Ordered, Has
<1> QED
  BY <1>1, <1>3, <1>4, <1>5, <1>6, <1>7 DEF P

-----------------------------------------------------------------------------
(* The place in a program.                                                 *)

\* A sequence is what is left of another.
EndOf(t, P) ==
  /\ Len(t) <= Len(P)
  /\ \A i \in 1 .. Len(t) : t[i] = P[Len(P) - Len(t) + i]

\* An end of a sequence is one of its subsequences.
LEMMA EndIsSubSeq ==
  ASSUME NEW S, NEW P \in Seq(S), NEW t \in Seq(S), t # <<>>, EndOf(t, P)
  PROVE  \E n \in 1 .. Len(P) : t = SubSeq(P, n, Len(P))
<1> DEFINE n == Len(P) - Len(t) + 1
           u == SubSeq(P, n, Len(P))
<1>1. Len(P) \in Nat /\ Len(t) \in Nat /\ Len(t) > 0 /\ Len(t) <= Len(P)
  BY LenProperties, EmptySeq DEF EndOf
<1>2. n \in 1 .. Len(P) /\ n \in 1 .. Len(P) + 1 /\ Len(P) - n + 1 = Len(t)
  BY <1>1
<1>3. u \in Seq(S) /\ Len(u) = Len(t)
      /\ \A i \in 1 .. Len(t) : u[i] = P[n + i - 1]
  <2>1. Len(P) \in 0 .. Len(P)
    BY <1>1
  <2> HIDE DEF n
  <2> QED
    BY <1>1, <1>2, <2>1, SubSeqProperties
<1>4. \A i \in 1 .. Len(t) : u[i] = t[i]
  <2>1. ASSUME NEW i \in 1 .. Len(t)
        PROVE  n + i - 1 = Len(P) - Len(t) + i
    BY <1>1
  <2> QED
    BY <1>3, <2>1 DEF EndOf
<1>5. t = u
  <2> HIDE DEF u, n
  <2> QED
    BY <1>3, <1>4, SeqEqual
<1> QED
  BY <1>2, <1>5

\* Taking the next step leaves an end again.
LEMMA EndGoesOn ==
  ASSUME NEW S, NEW P \in Seq(S), NEW t \in Seq(S), t # <<>>, EndOf(t, P)
  PROVE  LET k == Len(P) - Len(t)
         IN /\ k \in 0 .. Len(P) - 1
            /\ Head(t) = P[k + 1]
            /\ Tail(t) \in Seq(S)
            /\ EndOf(Tail(t), P)
            /\ Len(P) - Len(Tail(t)) = k + 1
<1>1. Len(P) \in Nat /\ Len(t) \in Nat /\ Len(t) > 0 /\ Len(t) <= Len(P)
  BY LenProperties, EmptySeq DEF EndOf
<1>2. /\ Head(t) = t[1]
      /\ Tail(t) \in Seq(S)
      /\ Len(Tail(t)) = Len(t) - 1
      /\ \A i \in 1 .. Len(Tail(t)) : Tail(t)[i] = t[i + 1]
  BY HeadTailProperties
<1>3. EndOf(Tail(t), P)
  <2>1. ASSUME NEW i \in 1 .. Len(Tail(t))
        PROVE  Tail(t)[i] = P[Len(P) - Len(Tail(t)) + i]
    <3>1. i + 1 \in 1 .. Len(t) /\ i \in Int
      BY <1>1, <1>2
    <3>2. Len(P) - Len(t) + (i + 1) = Len(P) - Len(Tail(t)) + i
      BY <1>1, <1>2, <3>1
    <3> QED
      BY <1>2, <3>1, <3>2 DEF EndOf
  <2> QED
    BY <1>1, <1>2, <2>1 DEF EndOf
<1>4. Head(t) = P[Len(P) - Len(t) + 1]
  BY <1>1, <1>2 DEF EndOf
<1> QED
  BY <1>1, <1>2, <1>3, <1>4

\* The whole of a sequence is an end of it.
LEMMA EndWhole ==
  ASSUME NEW S, NEW P \in Seq(S)
  PROVE  EndOf(P, P) /\ Len(P) - Len(P) = 0
BY LenProperties DEF EndOf

-----------------------------------------------------------------------------
(* The inductive invariant.                                                *)

Typed ==
  /\ family \in Families
  /\ clock \in Seconds
  /\ state \in [Jobs -> {"idle", "running", "returned", "raised", "dead"}]
  /\ attempts \in [Jobs -> Nat]
  /\ \A j \in Jobs : attempts[j] <= MaxAttempts[j]
  /\ todo \in [Jobs -> Seq(StepNames)]
  /\ local \in [Jobs -> Local]
  /\ yaml \in [Configs -> Runs \union {None}]
  /\ trials \subseteq Runs \X Seconds
  /\ best \in [Configs -> Runs \union {None}]
  /\ bucket \in [Prefixes -> [model : Runs \union {None},
                              manifest : Runs \union {None}]]
  /\ tables \subseteq DescribingSteps \X Runs
  /\ predictions \subseteq PredictionRow
  /\ jobRuns \in [Runs -> {"none", "RUNNING", "SUCCEEDED", "FAILED"}]

\* The steps of its program that a job has taken.
Place(j) == Len(Program(j)) - Len(todo[j])
Passed(j) == {Program(j)[i] : i \in 1 .. Place(j)}

\* A job has begun, and what it has to do is the end of its program.
OnProgram(j) ==
  /\ StepOf[j] = "optimize" => family \in DOMAIN Search
  /\ EndOf(todo[j], Program(j))

Placed ==
  \A j \in Jobs :
    /\ state[j] = "idle" => todo[j] = <<>> /\ local[j] = Fresh
    /\ state[j] # "idle" => OnProgram(j)
    /\ state[j] = "returned" => todo[j] = <<>>
    /\ state[j] # "idle" /\ PinOf[j] # None => state[PinOf[j]] = "returned"

\* Jobs that others know to have returned do not run again.
Knowing ==
  \A j \in Jobs : \A k \in local[j].known : state[k] = "returned"

\* What each step leaves behind until the job is run again.
Resolved(j) ==
  /\ local[j].prefix \in Prefixes
  /\ local[j].source \in Runs
  /\ PinOf[j] = None =>
       \A t \in local[j].known :
         StepOf[t] = "train" /\ ConfigOf[t] = ConfigOf[j]
           => local[j].prefix[2] >= local[t].second

\* A record of best parameters that is no older than the optimization o.
Follows(params, o) == params \in Runs /\ params[1] \notin local[o].known

Tuned(j) ==
  StepOf[j] = "train" /\ j \notin Untuned =>
    \A o \in local[j].known :
      StepOf[o] = "optimize" /\ ConfigOf[o] = RecordOf[j]
        => Follows(local[j].params, o)

Carried(j) ==
  /\ \A step \in DescribingSteps \intersect Passed(j) :
       <<step, Run(j)>> \in tables
  /\ "predictions" \in Passed(j) => \E p \in predictions : p.run = Run(j)
  /\ "best" \in Passed(j) => Follows(best[ConfigOf[j]], j)
  /\ "manifest" \in Passed(j) => bucket[Prefix(j)].manifest # None
  /\ "params" \in Passed(j) => Tuned(j)
  /\ "resolve" \in Passed(j) => Resolved(j)
  /\ "load_json" \in Passed(j) => local[j].model \in Runs
  /\ "load_joblib" \in Passed(j) =>
       local[j].model \in Runs /\ local[j].model = local[j].source

Carrying == \A j \in Jobs : state[j] # "idle" => Carried(j)

\* Rows of predictions outlive the attempt that wrote them.
Recorded ==
  \A p \in predictions :
    /\ state[p.run[1]] # "idle"
    /\ \A k \in p.known : state[k] = "returned"

JobInv ==
  /\ Typed /\ Placed /\ Knowing /\ Carrying /\ Recorded
  /\ PredictionsOfDescribedModel /\ FreshModel
  /\ CanonicalRegistered /\ SucceededIsComplete

-----------------------------------------------------------------------------
(* Where a job is in its program.                                          *)

\* The programs of jobs that begin are sequences of steps in a sound order.
LEMMA ProgramSound ==
  ASSUME NEW j \in Jobs, family \in Families,
         StepOf[j] = "optimize" => family \in DOMAIN Search
  PROVE  /\ Program(j) \in Seq(StepNames)
         /\ Ordered(Program(j))
         /\ family # "xgboost" => ~Has(Program(j), "load_json")
         /\ StepOf[j] = "optimize" => Has(Program(j), "best")
         /\ StepOf[j] = "train" =>
              /\ Has(Program(j), "manifest")
              /\ Len(Program(j)) >= 1
              /\ Program(j)[1] = "params"
<1>1. family \in DOMAIN Training
  BY FamiliesAssumption
<1>2. StepOf[j] \in {"optimize", "train", "predict"}
  BY PlanningAssumption
<1>3. CASE StepOf[j] = "optimize"
  <2>1. Program(j) = Search[family] \o SearchCompletion
    BY <1>3 DEF Program
  <2> QED
    BY <1>3, <2>1, SearchOrdered
<1>4. CASE StepOf[j] = "train"
  <2>1. Program(j) = Training[family]
    BY <1>4 DEF Program
  <2> QED
    BY <1>1, <1>4, <2>1, TrainingOrdered
<1>5. CASE StepOf[j] = "predict"
  <2>1. Program(j) = Prediction[family]
    BY <1>5 DEF Program
  <2> QED
    BY <1>1, <1>5, <2>1, PredictionOrdered
<1> QED
  BY <1>2, <1>3, <1>4, <1>5

\* What has been done before the next step of a job.
LEMMA BeforeStep ==
  ASSUME Typed, NEW j \in Jobs, OnProgram(j), todo[j] # <<>>
  PROVE  LET step == Head(todo[j])
         IN /\ step = "outputs" =>
                 {"contract", "forecast_run"} \subseteq Passed(j)
            /\ step = "predictions" =>
                 /\ "resolve" \in Passed(j)
                 /\ "load_joblib" \in Passed(j) \/ "load_json" \in Passed(j)
            /\ step \in {"load_joblib", "load_json"} =>
                 "resolve" \in Passed(j)
            /\ step \in {"resolve", "load_json"} =>
                 "load_joblib" \notin Passed(j)
            /\ step \in {"study", "fit"} => "manifest" \notin Passed(j)
<1> DEFINE P == Program(j)
           k == Place(j) + 1
<1>1. todo[j] \in Seq(StepNames) /\ P \in Seq(StepNames) /\ Ordered(P)
  BY ProgramSound DEF Typed, OnProgram
<1>2. Place(j) \in 0 .. Len(P) - 1 /\ Head(todo[j]) = P[k]
  BY <1>1, EndGoesOn DEF OnProgram, Place
<1>3. Len(P) \in Nat
  BY <1>1, LenProperties
<1>4. k \in 1 .. Len(P) /\ k - 1 = Place(j)
  BY <1>2, <1>3
<1>5. Passed(j) = {P[i] : i \in 1 .. k - 1}
  BY <1>4 DEF Passed
<1> HIDE DEF P, k
<1> QED
  BY <1>1, <1>2, <1>4, <1>5 DEF Ordered

\* Only XGBoost predicts with a model that was not compared with its digest.
LEMMA NeverLoaded ==
  ASSUME Typed, NEW j \in Jobs, OnProgram(j), family # "xgboost"
  PROVE  "load_json" \notin Passed(j)
<1>1. todo[j] \in Seq(StepNames) /\ Program(j) \in Seq(StepNames)
      /\ ~Has(Program(j), "load_json")
  BY ProgramSound DEF Typed, OnProgram
<1>2. Place(j) <= Len(Program(j)) /\ Len(Program(j)) \in Nat
      /\ Place(j) \in Int
  BY <1>1, LenProperties DEF OnProgram, EndOf, Place
<1> QED
  BY <1>1, <1>2 DEF Has, Passed

\* A job whose program is done has taken all of its steps.
LEMMA AllPassed ==
  ASSUME Typed, NEW j \in Jobs, OnProgram(j), todo[j] = <<>>
  PROVE  /\ \A i \in DOMAIN Program(j) : Program(j)[i] \in Passed(j)
         /\ StepOf[j] = "optimize" => "best" \in Passed(j)
         /\ StepOf[j] = "train" => "manifest" \in Passed(j)
<1>1. Program(j) \in Seq(StepNames)
      /\ (StepOf[j] = "optimize" => Has(Program(j), "best"))
      /\ (StepOf[j] = "train" => Has(Program(j), "manifest"))
  BY ProgramSound DEF Typed, OnProgram
<1>2. Place(j) = Len(Program(j)) /\ DOMAIN Program(j) = 1 .. Len(Program(j))
  BY <1>1, LenProperties, EmptySeq DEF Place
<1> QED
  BY <1>1, <1>2 DEF Has, Passed

\* A training past the first of its steps has resolved its parameters.
LEMMA ParamsPassed ==
  ASSUME Typed, NEW j \in Jobs, OnProgram(j), StepOf[j] = "train",
         todo[j] = <<>> \/ Head(todo[j]) # "params"
  PROVE  "params" \in Passed(j)
<1> DEFINE P == Program(j)
<1>1. todo[j] \in Seq(StepNames) /\ P \in Seq(StepNames)
      /\ Len(P) \in Nat /\ Len(P) >= 1 /\ P[1] = "params"
  BY ProgramSound, LenProperties DEF Typed, OnProgram
<1>2. Place(j) >= 1 /\ Place(j) \in Int
  <2>1. CASE todo[j] = <<>>
    BY <1>1, <2>1, EmptySeq DEF Place
  <2>2. CASE todo[j] # <<>>
    BY <1>1, <2>2, EndGoesOn DEF OnProgram, Place
  <2> QED
    BY <2>1, <2>2
<1> QED
  BY <1>1, <1>2 DEF Passed

\* The next step is passed, and nothing else.
LEMMA PassedGrows ==
  ASSUME Typed, NEW j \in Jobs, OnProgram(j), todo[j] # <<>>,
         family' = family, todo'[j] = Tail(todo[j])
  PROVE  /\ Passed(j)' = Passed(j) \union {Head(todo[j])}
         /\ OnProgram(j)'
         /\ todo'[j] \in Seq(StepNames)
<1> DEFINE P == Program(j)
           k == Place(j)
<1>1. todo[j] \in Seq(StepNames) /\ P \in Seq(StepNames)
  BY ProgramSound DEF Typed, OnProgram
<1>2. P' = P
  BY DEF Program
<1>3. /\ k \in 0 .. Len(P) - 1
      /\ Head(todo[j]) = P[k + 1]
      /\ Tail(todo[j]) \in Seq(StepNames)
      /\ EndOf(Tail(todo[j]), P)
      /\ Len(P) - Len(Tail(todo[j])) = k + 1
  BY <1>1, EndGoesOn DEF OnProgram, Place
<1>4. Place(j)' = k + 1
  BY <1>2, <1>3 DEF Place
<1>5. Passed(j)' = {P[i] : i \in 1 .. k + 1}
  BY <1>2, <1>4 DEF Passed
<1>6. Passed(j) = {P[i] : i \in 1 .. k}
  BY DEF Passed
<1>7. k \in Nat
  BY <1>1, <1>3, LenProperties
<1>8. OnProgram(j)'
  BY <1>2, <1>3 DEF OnProgram
<1>9. Passed(j)' = Passed(j) \union {P[k + 1]}
  <2> HIDE DEF P, k
  <2>1. 1 .. k + 1 = (1 .. k) \union {k + 1}
    BY <1>7
  <2> QED
    BY <1>5, <1>6, <2>1
<1> QED
  BY <1>3, <1>8, <1>9

\* A job that does not move is where it was.
LEMMA PassedSame ==
  ASSUME NEW j \in Jobs, family' = family, todo'[j] = todo[j]
  PROVE  /\ Passed(j)' = Passed(j)
         /\ OnProgram(j)' <=> OnProgram(j)
BY DEF Passed, Place, OnProgram, Program

\* A job that begins has its whole program to do.
LEMMA PassedNone ==
  ASSUME Typed, NEW j \in Jobs, family' = family,
         StepOf[j] = "optimize" => family \in DOMAIN Search,
         todo'[j] = Program(j)
  PROVE  Passed(j)' = {} /\ OnProgram(j)' /\ todo'[j] \in Seq(StepNames)
<1>1. Program(j)' = Program(j)
  BY DEF Program
<1>2. Program(j) \in Seq(StepNames)
  BY ProgramSound DEF Typed
<1>3. EndOf(Program(j), Program(j)) /\ Len(Program(j)) - Len(Program(j)) = 0
  BY <1>2, EndWhole
<1>4. Place(j)' = 0
  BY <1>1, <1>3 DEF Place
<1> QED
  BY <1>1, <1>2, <1>3, <1>4 DEF Passed, OnProgram

-----------------------------------------------------------------------------
(* What a step does to a job.                                              *)

\* What a submission does to the jobs: their status at most.
Submits(j) ==
  /\ WriteJobRun(<<j, 1>>, "RUNNING")
  /\ UNCHANGED <<family, clock, state, attempts, todo, local, storage>>

JobActs(j) == Start(j) \/ Work(j) \/ Raise(j) \/ Die(j) \/ Submits(j)
JobNext == Tick \/ \E j \in Jobs : JobActs(j)

Rests(k) ==
  /\ state'[k] = state[k]
  /\ attempts'[k] = attempts[k]
  /\ todo'[k] = todo[k]
  /\ local'[k] = local[k]

Moves(k) ==
  /\ state[k] = "running"
  /\ todo[k] # <<>>
  /\ state'[k] = state[k]
  /\ attempts'[k] = attempts[k]
  /\ todo'[k] = Tail(todo[k])
  /\ local'[k].known = local[k].known

Stops(k) ==
  /\ state[k] = "running"
  /\ state'[k] \in {"returned", "raised", "dead"}
  /\ state'[k] = "returned" => todo[k] = <<>>
  /\ attempts'[k] = attempts[k]
  /\ todo'[k] = todo[k]
  /\ local'[k] = local[k]

\* The parts of what a process holds.
LEMMA LocalFields ==
  ASSUME Typed, NEW j \in Jobs
  PROVE  /\ local[j].base \in Runs \union {None}
         /\ local[j].params \in Runs \union {None}
         /\ local[j].second \in Seconds
         /\ local[j].prefix \in Prefixes \union {None}
         /\ local[j].source \in Runs \union {None}
         /\ local[j].model \in Runs \union {None}
         /\ local[j].known \in SUBSET Jobs
         /\ local[j] = [base |-> local[j].base, params |-> local[j].params,
                        second |-> local[j].second, prefix |-> local[j].prefix,
                        source |-> local[j].source, model |-> local[j].model,
                        known |-> local[j].known]
<1>1. local[j] \in Local
  BY DEF Typed
<1> QED
  BY <1>1 DEF Local

\* The steps of a program move their job, and no other.
LEMMA WorkMoves ==
  ASSUME Typed, NEW j \in Jobs, Work(j), ~Return(j)
  PROVE  /\ family' = family /\ state' = state /\ attempts' = attempts
         /\ jobRuns' = jobRuns
         /\ Moves(j)
         /\ \A k \in Jobs \ {j} : Rests(k)
<1> USE DEF At, Advance
<1>1. local \in [Jobs -> Local] /\ todo \in [Jobs -> Seq(StepNames)]
  BY DEF Typed
<1>2. /\ family' = family /\ state' = state /\ attempts' = attempts
      /\ jobRuns' = jobRuns
      /\ todo' = [todo EXCEPT ![j] = Tail(@)]
      /\ todo[j] # <<>> /\ state[j] = "running"
  <2>1. CASE Study(j) \/ AppendTrials(j) \/ PersistBestParams(j) \/ UpdateYaml(j)
    BY <2>1 DEF Study, AppendTrials, PersistBestParams, UpdateYaml
  <2>2. CASE ResolveParameters(j) \/ Fit(j) \/ UploadModel(j)
             \/ UploadManifest(j)
    BY <2>2 DEF ResolveParameters, Fit, UploadModel, UploadManifest
  <2>3. CASE ResolveArtifact(j) \/ LoadJoblib(j) \/ LoadJson(j)
    BY <2>3 DEF ResolveArtifact, LoadJoblib, LoadJson
  <2>4. CASE Compute(j) \/ AppendPredictions(j) \/ Describe(j)
    BY <2>4 DEF Compute, AppendPredictions, Describe
  <2> QED
    BY <2>1, <2>2, <2>3, <2>4 DEF Work
<1>3. /\ local'[j].known = local[j].known
      /\ \A k \in Jobs \ {j} : local'[k] = local[k]
  <2>1. CASE Study(j)
    BY <1>1, <2>1 DEF Study, Local
  <2>2. CASE ResolveParameters(j)
    BY <1>1, <2>2 DEF ResolveParameters, Local
  <2>3. CASE Fit(j)
    BY <1>1, <2>3 DEF Fit, Local
  <2>4. CASE ResolveArtifact(j)
    BY <1>1, <2>4 DEF ResolveArtifact, Local
  <2>5. CASE LoadJoblib(j)
    BY <1>1, <2>5 DEF LoadJoblib, Local
  <2>6. CASE LoadJson(j)
    BY <1>1, <2>6 DEF LoadJson, Local
  <2>7. CASE UNCHANGED local
    BY <2>7
  <2> QED
    BY <2>1, <2>2, <2>3, <2>4, <2>5, <2>6, <2>7
       DEF Work, AppendTrials, PersistBestParams, UpdateYaml, UploadModel,
           UploadManifest, Compute, AppendPredictions, Describe
<1> QED
  BY <1>1, <1>2, <1>3 DEF Moves, Rests

\* Whatever happens, a job rests, begins, takes a step of its program or stops.
LEMMA JobMoves ==
  ASSUME Typed, [JobNext]_vars, NEW k \in Jobs
  PROVE  /\ family' = family
         /\ \/ Rests(k) \/ Start(k) \/ Stops(k)
            \/ Moves(k) /\ Work(k) /\ ~Return(k)
<1>0. /\ state \in [Jobs -> {"idle", "running", "returned", "raised", "dead"}]
      /\ attempts \in [Jobs -> Nat]
      /\ todo \in [Jobs -> Seq(StepNames)]
      /\ local \in [Jobs -> Local]
  BY DEF Typed
<1>1. CASE UNCHANGED vars \/ Tick
  BY <1>1 DEF vars, Tick, Rests
<1>2. ASSUME NEW j \in Jobs, Start(j)
      PROVE  family' = family /\ (Rests(k) \/ Start(k))
  BY <1>0, <1>2 DEF Start, Rests
<1>3. ASSUME NEW j \in Jobs, Work(j), ~Return(j)
      PROVE  /\ family' = family
             /\ Rests(k) \/ (Moves(k) /\ Work(k) /\ ~Return(k))
  <2>1. family' = family /\ Moves(j) /\ \A i \in Jobs \ {j} : Rests(i)
    BY <1>3, WorkMoves
  <2>2. CASE k = j
    BY <1>3, <2>1, <2>2
  <2>3. CASE k # j
    BY <2>1, <2>3
  <2> QED
    BY <2>2, <2>3
<1>4. ASSUME NEW j \in Jobs, Return(j) \/ Raise(j) \/ Die(j)
      PROVE  family' = family /\ (Rests(k) \/ Stops(k))
  BY <1>0, <1>4 DEF Return, Raise, Die, Ends, Finished, Rests, Stops
<1>5. ASSUME NEW j \in Jobs, Submits(j)
      PROVE  family' = family /\ Rests(k)
  BY <1>5 DEF Submits, Rests
<1> QED
  BY <1>1, <1>2, <1>3, <1>4, <1>5 DEF JobNext, JobActs

\* Nothing that was left behind is taken away.
LEMMA StorageGrows ==
  ASSUME Typed, [JobNext]_vars
  PROVE  /\ tables \subseteq tables'
         /\ predictions \subseteq predictions'
         /\ \A c \in Configs :
              \/ best'[c] = best[c]
              \/ \E j \in Jobs : state[j] = "running" /\ best'[c] = Run(j)
         /\ \A p \in Prefixes :
              bucket[p].manifest # None => bucket'[p].manifest # None
<1> DEFINE Grows ==
         /\ tables \subseteq tables'
         /\ predictions \subseteq predictions'
         /\ \A c \in Configs :
              \/ best'[c] = best[c]
              \/ \E j \in Jobs : state[j] = "running" /\ best'[c] = Run(j)
         /\ \A p \in Prefixes :
              bucket[p].manifest # None => bucket'[p].manifest # None
<1>1. CASE UNCHANGED storage
  BY <1>1 DEF storage
<1>2. \A j \in Jobs : Run(j) # None
  BY PlanningAssumption DEF Typed, Run, Runs
<1>3. ASSUME NEW j \in Jobs, Work(j)
      PROVE  Grows
  <2>1. CASE AppendTrials(j)
    BY <2>1 DEF AppendTrials
  <2>2. CASE PersistBestParams(j)
    BY <2>2 DEF PersistBestParams, Typed, At
  <2>3. CASE UpdateYaml(j)
    BY <2>3 DEF UpdateYaml
  <2>4. CASE UploadModel(j)
    BY <2>4 DEF UploadModel, Typed
  <2>5. CASE UploadManifest(j)
    BY <1>2, <2>5 DEF UploadManifest, Typed
  <2>6. CASE AppendPredictions(j)
    BY <2>6 DEF AppendPredictions
  <2>7. CASE Describe(j)
    BY <2>7 DEF Describe
  <2> QED
    BY <1>1, <1>3, <2>1, <2>2, <2>3, <2>4, <2>5, <2>6, <2>7
       DEF Work, Study, ResolveParameters, Fit, ResolveArtifact, LoadJoblib,
           LoadJson, Compute, Return, Ends, storage
<1> QED
  BY <1>1, <1>3
     DEF JobNext, JobActs, Start, Raise, Die, Ends, Submits, Tick, storage,
         vars

-----------------------------------------------------------------------------
(* Types.                                                                  *)

\* The current run of a job is a run.
LEMMA RunIsRun ==
  ASSUME Typed, NEW j \in Jobs
  PROVE  /\ Run(j) \in Runs /\ Run(j)[1] = j /\ Run(j) # None
         /\ attempts[j] < MaxAttempts[j] => <<j, attempts[j] + 1>> \in Runs
<1>1. attempts[j] \in Nat /\ MaxAttempts[j] \in Nat
      /\ attempts[j] <= MaxAttempts[j]
  BY AttemptsAssumption DEF Typed
<1>2. attempts[j] \in 0 .. MaxAttempts[j]
  BY <1>1
<1>3. attempts[j] < MaxAttempts[j] => attempts[j] + 1 \in 0 .. MaxAttempts[j]
  BY <1>1
<1>4. \A n \in 0 .. MaxAttempts[j] : <<j, n>> \in Runs
  BY DEF Runs
<1>5. Run(j) \in Runs /\ Run(j)[1] = j
  BY <1>2, <1>4 DEF Run
<1>6. Run(j) # None
  BY <1>5, PlanningAssumption
<1> QED
  BY <1>3, <1>4, <1>5, <1>6

\* The artifact prefix of a job is a prefix.
LEMMA PrefixIsPrefix ==
  ASSUME Typed, NEW j \in Jobs
  PROVE  Prefix(j) \in Prefixes /\ ConfigOf[j] \in Configs
<1>1. local[j].second \in Seconds /\ ConfigOf[j] \in Configs
  BY LocalFields DEF Configs
<1> QED
  BY <1>1 DEF Prefix, Prefixes

\* A query of the trials answers with runs.
LEMMA TrialParametersAreRuns ==
  ASSUME Typed, NEW j \in Jobs
  PROVE  TrialParameters(j) \subseteq Runs
<1>1. \A t \in trials : t[1] \in Runs
  BY DEF Typed
<1> QED
  BY <1>1 DEF TrialParameters

\* And so do the places where a training looks for its parameters.
LEMMA FoundParametersAreRuns ==
  ASSUME Typed, NEW j \in Jobs
  PROVE  FoundParameters(j) \subseteq Runs \union {None}
<1>1. /\ local[j].base \in Runs \union {None}
      /\ TrialParameters(j) \subseteq Runs
  BY LocalFields, TrialParametersAreRuns
<1>2. Record(j) \in Runs \union {None}
  BY PlanningAssumption DEF Record, Typed
<1> QED
  BY <1>1, <1>2 DEF FoundParameters

\* What a job holds stays of its type, whatever step it takes.
LEMMA LocalTyped ==
  ASSUME Typed, Placed, Carrying, [JobNext]_vars
  PROVE  local' \in [Jobs -> Local]
<1>1. local \in [Jobs -> Local]
  BY DEF Typed
<1>2. CASE UNCHANGED local
  BY <1>1, <1>2
<1>3. ASSUME NEW j \in Jobs, Start(j)
      PROVE  local' \in [Jobs -> Local]
  <2>1. Fresh \in Local
    BY ClockAssumption DEF Fresh, Local, Seconds
  <2>2. yaml[ConfigOf[j]] \in Runs \union {None} /\ Known \in SUBSET Jobs
    BY DEF Typed, Configs, Known
  <2>3. [Fresh EXCEPT !.base = yaml[ConfigOf[j]], !.known = Known] \in Local
    BY <2>1, <2>2 DEF Local
  <2> QED
    BY <1>1, <1>3, <2>3 DEF Start
<1>4. ASSUME NEW j \in Jobs, Work(j), local' # local
      PROVE  local' \in [Jobs -> Local]
  <2>1. local[j] \in Local
    BY <1>1
  <2>2. ASSUME NEW new, new \in Local,
               local' = [local EXCEPT ![j] = new]
        PROVE  local' \in [Jobs -> Local]
    BY <1>1, <2>2
  <2>3. CASE Study(j)
    <3>1. [local[j] EXCEPT !.second = clock] \in Local
      BY <2>1 DEF Local, Typed
    <3> QED
      BY <2>2, <2>3, <3>1 DEF Study
  <2>4. CASE Fit(j)
    <3>1. [local[j] EXCEPT !.second = clock] \in Local
      BY <2>1 DEF Local, Typed
    <3> QED
      BY <2>2, <2>4, <3>1 DEF Fit
  <2>5. CASE ResolveParameters(j)
    <3>1. PICK params \in FoundParameters(j) :
            local' = [local EXCEPT ![j].params = params]
      BY <2>5 DEF ResolveParameters
    <3>2. params \in Runs \union {None}
      BY <3>1, FoundParametersAreRuns
    <3>3. [local[j] EXCEPT !.params = params] \in Local
      BY <2>1, <3>2 DEF Local
    <3> QED
      BY <2>2, <3>1, <3>3
  <2>6. CASE ResolveArtifact(j)
    <3>1. PICK p \in Artifacts(j) :
            local' = [local EXCEPT ![j].prefix = p,
                                   ![j].source = bucket[p].manifest]
      BY <2>6 DEF ResolveArtifact
    <3>2. p \in Prefixes /\ bucket[p].manifest \in Runs \union {None}
      BY <3>1 DEF Artifacts, Typed
    <3>3. [local[j] EXCEPT !.prefix = p, !.source = bucket[p].manifest] \in Local
      BY <2>1, <3>2 DEF Local
    <3> QED
      BY <1>1, <3>1, <3>3
  <2>7. CASE LoadJoblib(j) \/ LoadJson(j)
    <3> DEFINE model == bucket[local[j].prefix].model
    <3>1. local' = [local EXCEPT ![j].model = model]
          /\ state[j] = "running" /\ todo[j] # <<>>
          /\ Head(todo[j]) \in {"load_joblib", "load_json"}
      BY <2>7 DEF LoadJoblib, LoadJson, At
    <3>2. local[j].prefix \in Prefixes
      BY <3>1, BeforeStep DEF Placed, Carrying, Carried, Resolved
    <3>3. model \in Runs \union {None}
      BY <3>2 DEF Typed
    <3>4. [local[j] EXCEPT !.model = model] \in Local
      BY <2>1, <3>3 DEF Local
    <3> QED
      BY <2>2, <3>1, <3>4
  <2> QED
    BY <1>4, <2>3, <2>4, <2>5, <2>6, <2>7
       DEF Work, AppendTrials, PersistBestParams, UpdateYaml, UploadModel,
           UploadManifest, Compute, AppendPredictions, Describe, Return, Ends
<1> QED
  BY <1>2, <1>3, <1>4
     DEF JobNext, JobActs, Raise, Die, Ends, Submits, Tick, vars

\* And so does what the jobs share.
LEMMA StorageTyped ==
  ASSUME Typed, Placed, Carrying, [JobNext]_vars
  PROVE  /\ yaml' \in [Configs -> Runs \union {None}]
         /\ trials' \subseteq Runs \X Seconds
         /\ best' \in [Configs -> Runs \union {None}]
         /\ bucket' \in [Prefixes -> [model : Runs \union {None},
                                      manifest : Runs \union {None}]]
         /\ tables' \subseteq DescribingSteps \X Runs
         /\ predictions' \subseteq PredictionRow
<1> DEFINE Right ==
         /\ yaml' \in [Configs -> Runs \union {None}]
         /\ trials' \subseteq Runs \X Seconds
         /\ best' \in [Configs -> Runs \union {None}]
         /\ bucket' \in [Prefixes -> [model : Runs \union {None},
                                      manifest : Runs \union {None}]]
         /\ tables' \subseteq DescribingSteps \X Runs
         /\ predictions' \subseteq PredictionRow
<1>0. /\ yaml \in [Configs -> Runs \union {None}]
      /\ trials \subseteq Runs \X Seconds
      /\ best \in [Configs -> Runs \union {None}]
      /\ bucket \in [Prefixes -> [model : Runs \union {None},
                                  manifest : Runs \union {None}]]
      /\ tables \subseteq DescribingSteps \X Runs
      /\ predictions \subseteq PredictionRow
  BY DEF Typed
<1>1. CASE UNCHANGED storage
  BY <1>0, <1>1 DEF storage
<1>2. ASSUME NEW j \in Jobs, Work(j), ~UNCHANGED storage
      PROVE  Right
  <2>0. /\ Run(j) \in Runs /\ Prefix(j) \in Prefixes /\ ConfigOf[j] \in Configs
        /\ local[j].second \in Seconds
    BY RunIsRun, PrefixIsPrefix, LocalFields
  <2>1. CASE AppendTrials(j)
    BY <1>0, <2>0, <2>1 DEF AppendTrials
  <2>2. CASE PersistBestParams(j)
    BY <1>0, <2>0, <2>2 DEF PersistBestParams
  <2>3. CASE UpdateYaml(j)
    BY <1>0, <2>0, <2>3 DEF UpdateYaml
  <2>4. CASE UploadModel(j)
    <3>1. [bucket[Prefix(j)] EXCEPT !.model = Run(j)]
            \in [model : Runs \union {None}, manifest : Runs \union {None}]
      BY <1>0, <2>0
    <3> QED
      BY <1>0, <2>0, <2>4, <3>1 DEF UploadModel
  <2>5. CASE UploadManifest(j)
    <3>1. [bucket[Prefix(j)] EXCEPT !.manifest = Run(j)]
            \in [model : Runs \union {None}, manifest : Runs \union {None}]
      BY <1>0, <2>0
    <3> QED
      BY <1>0, <2>0, <2>5, <3>1 DEF UploadManifest
  <2>6. CASE AppendPredictions(j)
    <3>1. state[j] = "running" /\ todo[j] # <<>> /\ Head(todo[j]) = "predictions"
      BY <2>6 DEF AppendPredictions, At
    <3>2. /\ "resolve" \in Passed(j)
          /\ "load_joblib" \in Passed(j) \/ "load_json" \in Passed(j)
          /\ Carried(j)
      BY <3>1, BeforeStep DEF Placed, Carrying
    <3>3. /\ local[j].prefix \in Prefixes /\ local[j].source \in Runs
          /\ local[j].model \in Runs
      BY <3>2 DEF Carried, Resolved
    <3>4. [run |-> Run(j), source |-> local[j].source, model |-> local[j].model,
           prefix |-> local[j].prefix, known |-> local[j].known]
            \in PredictionRow
      BY <2>0, <3>3, LocalFields DEF PredictionRow
    <3> QED
      BY <1>0, <2>6, <3>4 DEF AppendPredictions
  <2>7. CASE Describe(j)
    BY <1>0, <2>0, <2>7 DEF Describe
  <2> QED
    BY <1>2, <2>1, <2>2, <2>3, <2>4, <2>5, <2>6, <2>7
       DEF Work, Study, ResolveParameters, Fit, ResolveArtifact, LoadJoblib,
           LoadJson, Compute, Return, Ends, storage
<1> QED
  BY <1>1, <1>2
     DEF JobNext, JobActs, Start, Raise, Die, Ends, Submits, Tick, storage,
         vars

\* And the table of job runs.
LEMMA StatusTyped ==
  ASSUME Typed, [JobNext]_vars
  PROVE  jobRuns' \in [Runs -> {"none", "RUNNING", "SUCCEEDED", "FAILED"}]
<1>1. jobRuns \in [Runs -> {"none", "RUNNING", "SUCCEEDED", "FAILED"}]
  BY DEF Typed
<1>2. CASE UNCHANGED jobRuns
  BY <1>1, <1>2
<1>3. ASSUME NEW r, NEW status \in {"RUNNING", "SUCCEEDED", "FAILED"},
             WriteJobRun(r, status)
      PROVE  jobRuns' \in [Runs -> {"none", "RUNNING", "SUCCEEDED", "FAILED"}]
  BY <1>1, <1>3 DEF WriteJobRun
<1>4. ASSUME NEW j \in Jobs, JobActs(j), jobRuns' # jobRuns
      PROVE  \E r : \E status \in {"RUNNING", "SUCCEEDED", "FAILED"} :
               WriteJobRun(r, status)
  <2>1. CASE Start(j)
    BY <2>1 DEF Start
  <2>2. CASE Work(j)
    <3>1. Return(j)
      BY <1>4, <2>2, WorkMoves
    <3> QED
      BY <3>1 DEF Return
  <2>3. CASE Raise(j)
    BY <2>3 DEF Raise
  <2>4. CASE Die(j)
    BY <1>4, <2>4 DEF Die
  <2>5. CASE Submits(j)
    BY <2>5 DEF Submits
  <2> QED
    BY <1>4, <2>1, <2>2, <2>3, <2>4, <2>5 DEF JobActs
<1> QED
  BY <1>2, <1>3, <1>4 DEF JobNext, Tick, vars

\* Types are kept by every step.
LEMMA TypedStep ==
  ASSUME Typed, Placed, Carrying, [JobNext]_vars
  PROVE  Typed'
<1>0. /\ state \in [Jobs -> {"idle", "running", "returned", "raised", "dead"}]
      /\ attempts \in [Jobs -> Nat]
      /\ todo \in [Jobs -> Seq(StepNames)]
      /\ MaxAttempts \in [Jobs -> Nat]
      /\ \A j \in Jobs : attempts[j] <= MaxAttempts[j]
  BY AttemptsAssumption DEF Typed
<1>1. family' \in Families /\ clock' \in Seconds
  <2>1. CASE Tick
    BY <2>1, ClockAssumption DEF Tick, Typed, Seconds
  <2>2. CASE UNCHANGED vars
    BY <2>2 DEF Typed, vars
  <2>3. ASSUME NEW j \in Jobs, JobActs(j)
        PROVE  UNCHANGED <<family, clock>>
    BY <2>3 DEF JobActs, Start, Work, Raise, Die, Submits, Study, AppendTrials,
                PersistBestParams, UpdateYaml, ResolveParameters, Fit,
                UploadModel, UploadManifest, ResolveArtifact, LoadJoblib,
                LoadJson, Compute, AppendPredictions, Describe, Return, Ends,
                Advance
  <2> QED
    BY <2>1, <2>2, <2>3 DEF JobNext, Typed
<1> DEFINE Right ==
      /\ state' \in [Jobs -> {"idle", "running", "returned", "raised", "dead"}]
      /\ attempts' \in [Jobs -> Nat]
      /\ todo' \in [Jobs -> Seq(StepNames)]
      /\ \A j \in Jobs : attempts'[j] <= MaxAttempts[j]
<1>2. Right
  <2>1. CASE UNCHANGED vars \/ Tick
    BY <1>0, <2>1 DEF vars, Tick
  <2>2. ASSUME NEW j \in Jobs, Start(j)
        PROVE  Right
    <3>1. Program(j) \in Seq(StepNames)
      BY <2>2, ProgramSound DEF Start, Typed
    <3> QED
      BY <1>0, <2>2, <3>1 DEF Start
  <2>3. ASSUME NEW j \in Jobs, Work(j), ~Return(j)
        PROVE  Right
    <3>1. state' = state /\ attempts' = attempts /\ family' = family
          /\ todo'[j] = Tail(todo[j])
          /\ todo[j] # <<>> /\ state[j] = "running"
      BY <2>3, WorkMoves DEF Moves
    <3>2. todo' = [todo EXCEPT ![j] = Tail(@)]
      BY <2>3 DEF Work, Study, AppendTrials, PersistBestParams, UpdateYaml,
                  ResolveParameters, Fit, UploadModel, UploadManifest,
                  ResolveArtifact, LoadJoblib, LoadJson, Compute,
                  AppendPredictions, Describe, Advance
    <3>3. todo'[j] \in Seq(StepNames)
      BY <3>1, PassedGrows DEF Placed
    <3> QED
      BY <1>0, <3>1, <3>2, <3>3
  <2>4. ASSUME NEW j \in Jobs, Return(j) \/ Raise(j) \/ Die(j)
        PROVE  Right
    BY <1>0, <2>4 DEF Return, Raise, Die, Ends
  <2>5. ASSUME NEW j \in Jobs, Submits(j)
        PROVE  Right
    BY <1>0, <2>5 DEF Submits
  <2> QED
    BY <2>1, <2>2, <2>3, <2>4, <2>5 DEF JobNext, JobActs
<1> QED
  BY <1>1, <1>2, LocalTyped, StorageTyped, StatusTyped DEF Typed

-----------------------------------------------------------------------------
(* The parts of the invariant that say who waits for whom.                 *)

\* A job that has returned is never touched again.
LEMMA ReturnedRests ==
  ASSUME Typed, [JobNext]_vars, NEW k \in Jobs, state[k] = "returned"
  PROVE  Rests(k)
BY JobMoves DEF Start, Moves, Stops

\* A job that was begun stays so.
LEMMA BegunStays ==
  ASSUME Typed, [JobNext]_vars, NEW k \in Jobs, state[k] # "idle"
  PROVE  state'[k] # "idle"
<1>1. state \in [Jobs -> {"idle", "running", "returned", "raised", "dead"}]
  BY DEF Typed
<1> QED
  BY <1>1, JobMoves DEF Start, Rests, Moves, Stops

\* What it means for a job to begin.
LEMMA StartEffect ==
  ASSUME Typed, NEW j \in Jobs, Start(j)
  PROVE  /\ state'[j] = "running" /\ state[j] # "returned"
         /\ attempts'[j] = attempts[j] + 1
         /\ todo'[j] = Program(j)
         /\ local'[j] = [Fresh EXCEPT !.base = yaml[ConfigOf[j]],
                                      !.known = Known]
         /\ local'[j].known = Known
         /\ family' = family
         /\ UNCHANGED storage
         /\ StepOf[j] = "optimize" => family \in DOMAIN Search
         /\ PinOf[j] # None => state[PinOf[j]] = "returned"
BY DEF Start, Typed, Fresh

\* Every job stays on its program.
LEMMA PlacedStep ==
  ASSUME Typed, Placed, [JobNext]_vars
  PROVE  Placed'
<1> SUFFICES ASSUME NEW k \in Jobs
    PROVE  /\ state'[k] = "idle" => todo'[k] = <<>> /\ local'[k] = Fresh
           /\ state'[k] # "idle" => OnProgram(k)'
           /\ state'[k] = "returned" => todo'[k] = <<>>
           /\ state'[k] # "idle" /\ PinOf[k] # None
                => state'[PinOf[k]] = "returned"
  BY DEF Placed
<1>1. family' = family /\ (Rests(k) \/ Start(k) \/ Moves(k) \/ Stops(k))
  BY JobMoves
<1>2. PinOf[k] # None => PinOf[k] \in Jobs
  BY PlanningAssumption
<1>3. PinOf[k] # None /\ state[PinOf[k]] = "returned"
        => state'[PinOf[k]] = "returned"
  BY <1>2, ReturnedRests DEF Rests
<1>4. CASE Rests(k)
  BY <1>1, <1>3, <1>4, PassedSame DEF Placed, Rests
<1>5. CASE Start(k)
  BY <1>1, <1>3, <1>5, StartEffect, PassedNone
<1>6. CASE Moves(k)
  BY <1>1, <1>3, <1>6, PassedGrows DEF Placed, Moves
<1>7. CASE Stops(k)
  BY <1>1, <1>3, <1>7, PassedSame DEF Placed, Stops
<1> QED
  BY <1>1, <1>4, <1>5, <1>6, <1>7

\* A job that begins notes who has returned, and those never run again.
LEMMA KnowingStep ==
  ASSUME Typed, Knowing, [JobNext]_vars
  PROVE  Knowing'
<1> SUFFICES ASSUME NEW j \in Jobs, NEW k \in local'[j].known
    PROVE  state'[k] = "returned"
  BY DEF Knowing
<1>1. k \in Jobs /\ state[k] = "returned"
  <2>1. CASE Start(j)
    <3>1. local'[j].known = Known
      BY <2>1, StartEffect
    <3>2. k \in Known
      BY <3>1
    <3> QED
      BY <3>2 DEF Known
  <2>2. CASE ~Start(j)
    <3>1. local'[j].known = local[j].known
      BY <2>2, JobMoves DEF Rests, Moves, Stops
    <3> QED
      BY <3>1, LocalFields DEF Knowing
  <2> QED
    BY <2>1, <2>2
<1> QED
  BY <1>1, ReturnedRests DEF Rests

\* What a step appends to the predictions.
LEMMA Predicted ==
  ASSUME Typed, [JobNext]_vars, NEW p \in predictions', p \notin predictions
  PROVE  \E j \in Jobs :
           /\ AppendPredictions(j)
           /\ p = [run |-> Run(j), source |-> local[j].source,
                   model |-> local[j].model, prefix |-> local[j].prefix,
                   known |-> local[j].known]
<1>1. predictions' # predictions
  OBVIOUS
<1>2. PICK j \in Jobs : AppendPredictions(j)
  BY <1>1
     DEF JobNext, JobActs, Start, Work, Raise, Die, Submits, Study, AppendTrials,
         PersistBestParams, UpdateYaml, ResolveParameters, Fit, UploadModel,
         UploadManifest, ResolveArtifact, LoadJoblib, LoadJson, Compute,
         Describe, Return, Ends, Tick, storage, vars
<1> QED
  BY <1>2 DEF AppendPredictions


\* A prediction is appended by a job that has resolved and loaded a model.
LEMMA PredictedBy ==
  ASSUME Typed, Placed, Carrying, [JobNext]_vars,
         NEW p \in predictions', p \notin predictions
  PROVE  \E j \in Jobs :
           /\ p.run[1] = j
           /\ p.source = local[j].source /\ p.model = local[j].model
           /\ p.prefix = local[j].prefix /\ p.known = local[j].known
           /\ state[j] = "running"
           /\ Resolved(j)
           /\ family # "xgboost" => p.model = p.source
<1>1. PICK j \in Jobs :
        /\ AppendPredictions(j)
        /\ p = [run |-> Run(j), source |-> local[j].source,
                model |-> local[j].model, prefix |-> local[j].prefix,
                known |-> local[j].known]
  BY Predicted
<1>2. /\ state[j] = "running" /\ todo[j] # <<>>
      /\ Head(todo[j]) = "predictions"
  BY <1>1 DEF AppendPredictions, At
<1>3. OnProgram(j) /\ Carried(j)
  BY <1>2 DEF Placed, Carrying
<1>4. /\ "resolve" \in Passed(j)
      /\ "load_joblib" \in Passed(j) \/ "load_json" \in Passed(j)
  BY <1>2, <1>3, BeforeStep
<1>5. Resolved(j)
  BY <1>3, <1>4 DEF Carried
<1>6. family # "xgboost" => local[j].model = local[j].source
  BY <1>3, <1>4, NeverLoaded DEF Carried
<1> QED
  BY <1>1, <1>2, <1>5, <1>6 DEF Run

\* A row of predictions has its fields.
LEMMA RowsTyped ==
  ASSUME Typed, NEW p \in predictions
  PROVE  p.run \in Runs /\ p.run[1] \in Jobs /\ p.known \subseteq Jobs
<1>1. p.run \in Runs /\ p.known \subseteq Jobs
  BY DEF Typed, PredictionRow
<1> QED
  BY <1>1 DEF Runs

\* What rows of predictions say of jobs stays true.
LEMMA RecordedStep ==
  ASSUME Typed, Placed, Knowing, Carrying, Recorded, [JobNext]_vars
  PROVE  Recorded'
<1> SUFFICES ASSUME NEW p \in predictions'
    PROVE  /\ state'[p.run[1]] # "idle"
           /\ \A k \in p.known : state'[k] = "returned"
  BY DEF Recorded
<1>1. /\ p.run[1] \in Jobs /\ state[p.run[1]] # "idle"
      /\ \A k \in p.known : k \in Jobs /\ state[k] = "returned"
  <2>1. CASE p \in predictions
    BY <2>1, RowsTyped DEF Recorded
  <2>2. CASE p \notin predictions
    <3>1. PICK j \in Jobs : p.run[1] = j /\ p.known = local[j].known
                            /\ state[j] = "running"
      BY <2>2, PredictedBy
    <3> QED
      BY <3>1, LocalFields DEF Knowing
  <2> QED
    BY <2>1, <2>2
<1> QED
  BY <1>1, BegunStays, ReturnedRests DEF Rests

-----------------------------------------------------------------------------
(* The properties, step by step.                                           *)

\* A new prediction was computed by a model that was compared with the manifest
\* of the run it names.
LEMMA DescribedModelStep ==
  ASSUME Typed, Placed, Carrying, PredictionsOfDescribedModel, [JobNext]_vars
  PROVE  PredictionsOfDescribedModel'
<1>1. family' = family
  BY JobMoves DEF JobNext, vars, Tick
<1> SUFFICES ASSUME family # "xgboost", NEW p \in predictions'
    PROVE  p.model = p.source
  BY <1>1 DEF PredictionsOfDescribedModel
<1> QED
  BY PredictedBy DEF PredictionsOfDescribedModel

\* A new prediction resolved a prefix that is not older than what it knew.
LEMMA FreshModelStep ==
  ASSUME Typed, Placed, Knowing, Carrying, Recorded, FreshModel, [JobNext]_vars
  PROVE  FreshModel'
<1> SUFFICES ASSUME NEW p \in predictions', NEW t \in p.known,
                    PinOf[p.run[1]] = None, StepOf[t] = "train",
                    ConfigOf[t] = ConfigOf[p.run[1]]
    PROVE  p.prefix[2] >= local'[t].second
  BY DEF FreshModel
<1>1. /\ t \in Jobs /\ state[t] = "returned"
      /\ p.prefix[2] >= local[t].second
  <2>1. CASE p \in predictions
    BY <2>1, RowsTyped DEF Recorded, FreshModel
  <2>2. CASE p \notin predictions
    <3>1. PICK j \in Jobs : /\ p.run[1] = j /\ p.known = local[j].known
                            /\ p.prefix = local[j].prefix
                            /\ Resolved(j)
      BY <2>2, PredictedBy
    <3> QED
      BY <3>1, LocalFields DEF Knowing, Resolved
  <2> QED
    BY <2>1, <2>2
<1> QED
  BY <1>1, ReturnedRests DEF Rests

\* Rows that describe a run are written by the step named for their table.
LEMMA DescribedBy ==
  ASSUME Typed, [JobNext]_vars, NEW x \in tables', x \notin tables
  PROVE  \E j \in Jobs :
           /\ state[j] = "running" /\ todo[j] # <<>>
           /\ x = <<Head(todo[j]), Run(j)>>
<1>1. tables' # tables
  OBVIOUS
<1>2. PICK j \in Jobs : Describe(j)
  BY <1>1
     DEF JobNext, JobActs, Start, Work, Raise, Die, Submits, Study, AppendTrials,
         PersistBestParams, UpdateYaml, ResolveParameters, Fit, UploadModel,
         UploadManifest, ResolveArtifact, LoadJoblib, LoadJson, Compute,
         AppendPredictions, Return, Ends, Tick, storage, vars
<1> QED
  BY <1>2 DEF Describe, At

\* Canonical rows come after the contract and the forecast run.
LEMMA CanonicalStep ==
  ASSUME Typed, Placed, Carrying, CanonicalRegistered, [JobNext]_vars
  PROVE  CanonicalRegistered'
<1> SUFFICES ASSUME NEW r \in Runs, <<"outputs", r>> \in tables'
    PROVE  {<<"contract", r>>, <<"forecast_run", r>>} \subseteq tables'
  BY DEF CanonicalRegistered
<1>1. CASE <<"outputs", r>> \in tables
  BY <1>1, StorageGrows DEF CanonicalRegistered
<1>2. CASE <<"outputs", r>> \notin tables
  <2>1. PICK j \in Jobs :
          /\ state[j] = "running" /\ todo[j] # <<>>
          /\ <<"outputs", r>> = <<Head(todo[j]), Run(j)>>
    BY <1>2, DescribedBy
  <2>2. OnProgram(j) /\ Carried(j) /\ Head(todo[j]) = "outputs" /\ r = Run(j)
    BY <2>1 DEF Placed, Carrying
  <2>3. {"contract", "forecast_run"} \subseteq Passed(j)
    BY <2>1, <2>2, BeforeStep
  <2>4. {<<"contract", r>>, <<"forecast_run", r>>} \subseteq tables
    BY <2>2, <2>3 DEF Carried, DescribingSteps
  <2> QED
    BY <2>4, StorageGrows
<1> QED
  BY <1>1, <1>2

\* A job is marked as succeeded when nothing of its program is left.
LEMMA SucceededStep ==
  ASSUME Typed, Placed, Carrying, SucceededIsComplete, [JobNext]_vars
  PROVE  SucceededIsComplete'
<1>0. family' = family
  BY JobMoves DEF JobNext, vars, Tick
<1> SUFFICES
      ASSUME NEW r \in Runs, jobRuns'[r] = "SUCCEEDED",
             NEW i \in DOMAIN Program(r[1])
      PROVE  /\ Program(r[1])[i] \in DescribingSteps
                  => <<Program(r[1])[i], r>> \in tables'
             /\ Program(r[1])[i] = "predictions"
                  => \E p \in predictions' : p.run = r
  <2>1. \A r \in Runs : Program(r[1])' = Program(r[1])
    BY <1>0 DEF Program
  <2> QED
    BY <2>1 DEF SucceededIsComplete
<1>1. /\ Program(r[1])[i] \in DescribingSteps
            => <<Program(r[1])[i], r>> \in tables
      /\ Program(r[1])[i] = "predictions"
            => \E p \in predictions : p.run = r
  <2>1. CASE jobRuns[r] = "SUCCEEDED"
    BY <2>1 DEF SucceededIsComplete
  <2>2. CASE jobRuns[r] # "SUCCEEDED"
    <3>1. PICK j \in Jobs : Return(j) /\ r = Run(j)
      <4>1. jobRuns \in [Runs -> {"none", "RUNNING", "SUCCEEDED", "FAILED"}]
        BY DEF Typed
      <4>2. PICK j \in Jobs : JobActs(j)
        BY <2>2 DEF JobNext, Tick, vars
      <4>3. ASSUME Work(j), ~Return(j)
            PROVE  FALSE
        BY <2>2, <4>3, WorkMoves
      <4>4. CASE Return(j)
        BY <2>2, <4>1, <4>4 DEF Return, WriteJobRun
      <4>5. ASSUME Start(j) \/ Raise(j) \/ Die(j) \/ Submits(j)
            PROVE  FALSE
        BY <2>2, <4>1, <4>5 DEF Start, Raise, Die, Submits, WriteJobRun
      <4> QED
        BY <4>2, <4>3, <4>4, <4>5 DEF JobActs
    <3>2. state[j] = "running" /\ todo[j] = <<>> /\ r[1] = j
      BY <3>1 DEF Return, Ends, Finished, Run
    <3>3. OnProgram(j) /\ Carried(j)
      BY <3>2 DEF Placed, Carrying
    <3>4. Program(r[1])[i] \in Passed(j)
      BY <3>2, <3>3, AllPassed
    <3> QED
      BY <3>1, <3>3, <3>4 DEF Carried
  <2> QED
    BY <2>1, <2>2
<1> QED
  BY <1>1, StorageGrows

-----------------------------------------------------------------------------
(* What has been left behind stays there.                                  *)

\* A record only gives way to that of a job that is running, which no
\* optimization can have known to be over.
LEMMA RecordFollows ==
  ASSUME Typed, Knowing, [JobNext]_vars, NEW k \in Jobs,
         Follows(best[ConfigOf[k]], k), local'[k].known = local[k].known
  PROVE  Follows(best[ConfigOf[k]], k)'
<1>1. ConfigOf[k] \in Configs
  BY DEF Configs
<1>2. CASE best'[ConfigOf[k]] = best[ConfigOf[k]]
  BY <1>2 DEF Follows
<1>3. ASSUME NEW j \in Jobs, state[j] = "running", best'[ConfigOf[k]] = Run(j)
      PROVE  Follows(best[ConfigOf[k]], k)'
  <2>1. j \notin local[k].known
    BY <1>3 DEF Knowing
  <2> QED
    BY <1>3, <2>1, RunIsRun DEF Follows
<1> QED
  BY <1>1, <1>2, <1>3, StorageGrows

\* A job that does not move keeps what it left behind.
LEMMA CarriedStays ==
  ASSUME Typed, Placed, Knowing, [JobNext]_vars, NEW k \in Jobs,
         state[k] # "idle", Carried(k),
         attempts'[k] = attempts[k], todo'[k] = todo[k], local'[k] = local[k]
  PROVE  Carried(k)'
<1>1. Passed(k)' = Passed(k)
  <2>1. family' = family
    BY JobMoves
  <2> QED
    BY <2>1, PassedSame
<1>2. Run(k)' = Run(k) /\ Prefix(k)' = Prefix(k)
      /\ Prefix(k) \in Prefixes /\ ConfigOf[k] \in Configs
  BY PrefixIsPrefix DEF Run, Prefix
<1>3. \A o \in local[k].known : o \in Jobs /\ local'[o] = local[o]
  BY LocalFields, ReturnedRests DEF Knowing, Rests
<1>4. "resolve" \in Passed(k) => Resolved(k)'
  BY <1>3 DEF Carried, Resolved
<1>5. "params" \in Passed(k) => Tuned(k)'
  BY <1>3 DEF Carried, Tuned, Follows
<1>6. "best" \in Passed(k) => Follows(best[ConfigOf[k]], k)'
  BY <1>2, RecordFollows DEF Carried
<1> QED
  BY <1>1, <1>2, <1>4, <1>5, <1>6, StorageGrows DEF Carried

\* A job that begins has left nothing behind yet.
LEMMA CarriedFresh ==
  ASSUME Typed, NEW k \in Jobs, Start(k)
  PROVE  Carried(k)'
<1>1. Passed(k)' = {}
  BY StartEffect, PassedNone
<1> QED
  BY <1>1 DEF Carried

\* The latest artifact is no older than that of any training that the job knows
\* of.
LEMMA ArtifactResolved ==
  ASSUME Typed, Placed, Knowing, Carrying, [JobNext]_vars, NEW k \in Jobs,
         ResolveArtifact(k)
  PROVE  Resolved(k)'
<1>1. PICK p \in Artifacts(k) :
        /\ \A q \in Artifacts(k) : NewestFirst(p, q)
        /\ local' = [local EXCEPT ![k].prefix = p,
                                  ![k].source = bucket[p].manifest]
  BY DEF ResolveArtifact
<1>2. p \in Prefixes /\ bucket[p].manifest \in Runs
  <2>1. p \in Prefixes /\ bucket[p].manifest # None
    BY <1>1 DEF Artifacts
  <2>2. bucket[p].manifest \in Runs \union {None}
    BY <2>1 DEF Typed
  <2> QED
    BY <2>1, <2>2
<1>4. local'[k].prefix = p /\ local'[k].source = bucket[p].manifest
      /\ local'[k].known = local[k].known
  <2>1. local[k] \in Local /\ local \in [Jobs -> Local]
    BY DEF Typed
  <2> QED
    BY <1>1, <2>1 DEF Local
<1>5. ASSUME PinOf[k] = None, NEW t \in local[k].known, StepOf[t] = "train",
             ConfigOf[t] = ConfigOf[k]
      PROVE  p[2] >= local'[t].second
  <2>1. t \in Jobs /\ state[t] = "returned"
    BY <1>5, LocalFields DEF Knowing
  <2>2. OnProgram(t) /\ todo[t] = <<>> /\ Carried(t)
    BY <2>1 DEF Placed, Carrying
  <2>3. bucket[Prefix(t)].manifest # None
    BY <1>5, <2>1, <2>2, AllPassed DEF Carried
  <2>4. Prefix(t) \in Artifacts(k)
    BY <1>5, <2>1, <2>3, PrefixIsPrefix DEF Artifacts, Prefix
  <2>5. p[2] >= local[t].second
    BY <1>1, <2>4 DEF NewestFirst, Prefix
  <2> QED
    BY <2>1, <2>5, ReturnedRests DEF Rests
<1> QED
  BY <1>2, <1>4, <1>5 DEF Resolved

\* A training that knows of an optimization finds its record, or that of one
\* that wrote its own since.
LEMMA ParametersFound ==
  ASSUME Typed, Placed, Knowing, Carrying, [JobNext]_vars, NEW k \in Jobs,
         ResolveParameters(k)
  PROVE  Tuned(k)'
<1>1. PICK params \in FoundParameters(k) :
        local' = [local EXCEPT ![k].params = params]
  BY DEF ResolveParameters
<1>2. /\ local'[k].params = params /\ local'[k].known = local[k].known
      /\ \A o \in Jobs : local'[o].known = local[o].known
  <2>1. local \in [Jobs -> Local]
    BY DEF Typed
  <2> QED
    BY <1>1, <2>1 DEF Local
<1>3. ASSUME k \notin Untuned, NEW o \in local[k].known,
             StepOf[o] = "optimize", ConfigOf[o] = RecordOf[k]
      PROVE  o \in Jobs /\ Follows(params, o)
  <2>1. o \in Jobs /\ state[o] = "returned"
    BY <1>3, LocalFields DEF Knowing
  <2>2. OnProgram(o) /\ todo[o] = <<>> /\ Carried(o)
    BY <2>1 DEF Placed, Carrying
  <2>3. Follows(best[ConfigOf[o]], o)
    BY <1>3, <2>1, <2>2, AllPassed DEF Carried
  <2>4. RecordOf[k] # None
    BY <1>3, <2>1, PlanningAssumption DEF Configs
  <2>5. Record(k) = best[ConfigOf[o]]
    BY <1>3, <2>4 DEF Record
  <2>6. Record(k) # None
    BY <2>3, <2>5, PlanningAssumption DEF Follows
  <2>7. params = Record(k)
    BY <1>1, <1>3, <2>6 DEF FoundParameters
  <2> QED
    BY <2>1, <2>3, <2>5, <2>7
<1> QED
  BY <1>2, <1>3 DEF Tuned, Follows

\* Which action a step of a program is.
LEMMA StepTaken ==
  ASSUME NEW k \in Jobs, Work(k), ~Return(k)
  PROVE  LET step == Head(todo[k])
         IN \/ step = "study" /\ Study(k)
            \/ step = "trials" /\ AppendTrials(k)
            \/ step = "best" /\ PersistBestParams(k)
            \/ step = "yaml" /\ UpdateYaml(k)
            \/ step = "params" /\ ResolveParameters(k)
            \/ step = "fit" /\ Fit(k)
            \/ step = "model" /\ UploadModel(k)
            \/ step = "manifest" /\ UploadManifest(k)
            \/ step = "resolve" /\ ResolveArtifact(k)
            \/ step = "load_joblib" /\ LoadJoblib(k)
            \/ step = "load_json" /\ LoadJson(k)
            \/ step = "predictions" /\ AppendPredictions(k)
            \/ step \in ComputingSteps /\ Compute(k)
            \/ step \in DescribingSteps /\ Describe(k)
<1>1. /\ Study(k) => Head(todo[k]) = "study"
      /\ AppendTrials(k) => Head(todo[k]) = "trials"
      /\ PersistBestParams(k) => Head(todo[k]) = "best"
      /\ UpdateYaml(k) => Head(todo[k]) = "yaml"
  BY DEF At, Study, AppendTrials, PersistBestParams, UpdateYaml
<1>2. /\ ResolveParameters(k) => Head(todo[k]) = "params"
      /\ Fit(k) => Head(todo[k]) = "fit"
      /\ UploadModel(k) => Head(todo[k]) = "model"
      /\ UploadManifest(k) => Head(todo[k]) = "manifest"
  BY DEF At, ResolveParameters, Fit, UploadModel, UploadManifest
<1>3. /\ ResolveArtifact(k) => Head(todo[k]) = "resolve"
      /\ LoadJoblib(k) => Head(todo[k]) = "load_joblib"
      /\ LoadJson(k) => Head(todo[k]) = "load_json"
      /\ AppendPredictions(k) => Head(todo[k]) = "predictions"
  BY DEF At, ResolveArtifact, LoadJoblib, LoadJson, AppendPredictions
<1>4. /\ Compute(k) => Head(todo[k]) \in ComputingSteps
      /\ Describe(k) => Head(todo[k]) \in DescribingSteps
  BY DEF At, Compute, Describe
<1> QED
  BY <1>1, <1>2, <1>3, <1>4 DEF Work

\* What a process holds is only changed by the step that it is for.
LEMMA FieldsKept ==
  ASSUME Typed, NEW k \in Jobs, Work(k), ~Return(k)
  PROVE  LET step == Head(todo[k])
         IN /\ step \notin {"study", "fit"} =>
                 local'[k].second = local[k].second
            /\ step # "params" => local'[k].params = local[k].params
            /\ step # "resolve" =>
                 /\ local'[k].prefix = local[k].prefix
                 /\ local'[k].source = local[k].source
            /\ step \notin {"load_json", "load_joblib"} =>
                 local'[k].model = local[k].model
<1>1. local[k] \in Local /\ local \in [Jobs -> Local]
  BY DEF Typed
<1>2. CASE Head(todo[k]) = "study" /\ Study(k)
  BY <1>1, <1>2 DEF Study, Local
<1>3. CASE Head(todo[k]) = "fit" /\ Fit(k)
  BY <1>1, <1>3 DEF Fit, Local
<1>4. CASE Head(todo[k]) = "params" /\ ResolveParameters(k)
  BY <1>1, <1>4 DEF ResolveParameters, Local
<1>5. CASE Head(todo[k]) = "resolve" /\ ResolveArtifact(k)
  BY <1>1, <1>5 DEF ResolveArtifact, Local
<1>6. CASE Head(todo[k]) = "load_joblib" /\ LoadJoblib(k)
  BY <1>1, <1>6 DEF LoadJoblib, Local
<1>7. CASE Head(todo[k]) = "load_json" /\ LoadJson(k)
  BY <1>1, <1>7 DEF LoadJson, Local
<1>8. CASE UNCHANGED local
  BY <1>8
<1> QED
  BY <1>2, <1>3, <1>4, <1>5, <1>6, <1>7, <1>8, StepTaken
     DEF AppendTrials, PersistBestParams, UpdateYaml, UploadModel,
         UploadManifest, AppendPredictions, Compute, Describe

\* A step of a program leaves behind what it is for, and disturbs nothing that
\* earlier steps left.
LEMMA CarriedOn ==
  ASSUME Typed, Placed, Knowing, Carrying, [JobNext]_vars, NEW k \in Jobs,
         Work(k), ~Return(k)
  PROVE  Carried(k)'
<1> DEFINE step == Head(todo[k])
           done == Passed(k)
<1>1. /\ family' = family /\ state[k] = "running" /\ todo[k] # <<>>
      /\ attempts' = attempts /\ todo'[k] = Tail(todo[k])
      /\ local'[k].known = local[k].known
  BY WorkMoves DEF Moves
<1>2. OnProgram(k) /\ Carried(k)
  BY <1>1 DEF Placed, Carrying
<1>3. Passed(k)' = done \union {step}
  BY <1>1, <1>2, PassedGrows
<1>4. /\ Run(k)' = Run(k) /\ Run(k) \in Runs /\ Run(k) # None
      /\ Prefix(k) \in Prefixes /\ ConfigOf[k] \in Configs
  BY <1>1, RunIsRun, PrefixIsPrefix DEF Run
<1>5. local[k] \in Local /\ local \in [Jobs -> Local]
  BY DEF Typed
<1>6. \A s \in DescribingSteps \intersect Passed(k)' : <<s, Run(k)>> \in tables'
  <2>1. step \in DescribingSteps => <<step, Run(k)>> \in tables'
    <3>1. ASSUME Describe(k)
          PROVE  <<step, Run(k)>> \in tables'
      BY <3>1 DEF Describe, At
    <3> QED
      BY <3>1, StepTaken DEF DescribingSteps, ComputingSteps
  <2> QED
    BY <1>2, <1>3, <2>1, StorageGrows DEF Carried
<1>7. "predictions" \in Passed(k)' => \E p \in predictions' : p.run = Run(k)
  <2>1. ASSUME step = "predictions"
        PROVE  \E p \in predictions' : p.run = Run(k)
    <3>1. AppendPredictions(k)
      BY <2>1, StepTaken DEF DescribingSteps, ComputingSteps
    <3>2. [run |-> Run(k), source |-> local[k].source, model |-> local[k].model,
           prefix |-> local[k].prefix, known |-> local[k].known] \in predictions'
      BY <3>1 DEF AppendPredictions
    <3> QED
      BY <3>2
  <2> QED
    BY <1>2, <1>3, <2>1, StorageGrows DEF Carried
<1>8. "best" \in Passed(k)' => Follows(best[ConfigOf[k]], k)'
  <2>1. ASSUME step = "best"
        PROVE  Follows(best[ConfigOf[k]], k)'
    <3>1. PersistBestParams(k)
      BY <2>1, StepTaken DEF DescribingSteps, ComputingSteps
    <3>2. best'[ConfigOf[k]] = Run(k)
      BY <1>4, <3>1 DEF PersistBestParams, Typed
    <3>3. k \notin local[k].known
      BY <1>1 DEF Knowing
    <3> QED
      BY <1>1, <3>2, <3>3, RunIsRun DEF Follows
  <2>2. ASSUME "best" \in done
        PROVE  Follows(best[ConfigOf[k]], k)'
    BY <1>1, <1>2, <2>2, RecordFollows DEF Carried
  <2> QED
    BY <1>3, <2>1, <2>2
<1>9. "manifest" \in Passed(k)' => bucket'[Prefix(k)'].manifest # None
  <2>1. ASSUME step = "manifest"
        PROVE  bucket'[Prefix(k)'].manifest # None
    <3>1. UploadManifest(k)
      BY <2>1, StepTaken DEF DescribingSteps, ComputingSteps
    <3>2. Prefix(k)' = Prefix(k)
      BY <3>1 DEF UploadManifest, Prefix
    <3> QED
      BY <1>4, <3>1, <3>2 DEF UploadManifest, Typed
  <2>2. ASSUME "manifest" \in done
        PROVE  bucket'[Prefix(k)'].manifest # None
    <3>1. step \notin {"study", "fit"}
      BY <1>1, <1>2, <2>2, BeforeStep
    <3>2. local'[k].second = local[k].second
      BY <3>1, FieldsKept
    <3>3. Prefix(k)' = Prefix(k)
      BY <3>2 DEF Prefix
    <3> QED
      BY <1>2, <1>4, <2>2, <3>3, StorageGrows DEF Carried
  <2> QED
    BY <1>3, <2>1, <2>2
<1>10. "params" \in Passed(k)' => Tuned(k)'
  <2>1. ASSUME step = "params"
        PROVE  Tuned(k)'
    <3>1. ResolveParameters(k)
      BY <2>1, StepTaken DEF DescribingSteps, ComputingSteps
    <3> QED
      BY <3>1, ParametersFound
  <2>2. ASSUME step # "params", "params" \in done
        PROVE  Tuned(k)'
    <3>1. local'[k].params = local[k].params
      BY <2>2, FieldsKept
    <3>2. \A o \in local[k].known : local'[o] = local[o]
      BY LocalFields, ReturnedRests DEF Knowing, Rests
    <3> QED
      BY <1>1, <1>2, <2>2, <3>1, <3>2 DEF Carried, Tuned, Follows
  <2> QED
    BY <1>3, <2>1, <2>2
<1>11. "resolve" \in Passed(k)' => Resolved(k)'
  <2>1. ASSUME step = "resolve"
        PROVE  Resolved(k)'
    <3>1. ResolveArtifact(k)
      BY <2>1, StepTaken DEF DescribingSteps, ComputingSteps
    <3> QED
      BY <3>1, ArtifactResolved
  <2>2. ASSUME step # "resolve", "resolve" \in done
        PROVE  Resolved(k)'
    <3>1. local'[k].prefix = local[k].prefix /\ local'[k].source = local[k].source
      BY <2>2, FieldsKept
    <3>2. \A t \in local[k].known : local'[t] = local[t]
      BY LocalFields, ReturnedRests DEF Knowing, Rests
    <3> QED
      BY <1>1, <1>2, <2>2, <3>1, <3>2 DEF Carried, Resolved
  <2> QED
    BY <1>3, <2>1, <2>2
<1>12. /\ "load_json" \in Passed(k)' => local'[k].model \in Runs
       /\ "load_joblib" \in Passed(k)' =>
            local'[k].model \in Runs /\ local'[k].model = local'[k].source
  <2>1. ASSUME step \in {"load_json", "load_joblib"}
        PROVE  /\ local'[k].model \in Runs
               /\ step = "load_joblib" => local'[k].model = local'[k].source
    <3> DEFINE model == bucket[local[k].prefix].model
    <3>1. \/ LoadJson(k) /\ step = "load_json"
          \/ LoadJoblib(k)
      BY <2>1, StepTaken DEF DescribingSteps, ComputingSteps
    <3>2. /\ local' = [local EXCEPT ![k].model = model]
          /\ model # None
          /\ step = "load_joblib" => model = local[k].source
      BY <3>1 DEF LoadJson, LoadJoblib, SameDigest
    <3>3. local[k].prefix \in Prefixes
      BY <1>1, <1>2, <2>1, BeforeStep DEF Carried, Resolved
    <3>4. model \in Runs
      BY <3>2, <3>3 DEF Typed
    <3>5. local'[k].model = model /\ local'[k].source = local[k].source
      BY <1>5, <3>2 DEF Local
    <3> QED
      BY <3>2, <3>4, <3>5
  <2>2. ASSUME step \notin {"load_json", "load_joblib"}
        PROVE  local'[k].model = local[k].model
    BY <2>2, FieldsKept
  <2>3. ASSUME step # "resolve"
        PROVE  local'[k].source = local[k].source
    BY <2>3, FieldsKept
  <2>4. step \in {"resolve", "load_json"} => "load_joblib" \notin done
    BY <1>1, <1>2, BeforeStep
  <2> QED
    BY <1>2, <1>3, <2>1, <2>2, <2>3, <2>4 DEF Carried
<1> QED
  BY <1>4, <1>6, <1>7, <1>8, <1>9, <1>10, <1>11, <1>12 DEF Carried

\* What the steps of every job left behind is there after any step.
LEMMA CarryingStep ==
  ASSUME Typed, Placed, Knowing, Carrying, [JobNext]_vars
  PROVE  Carrying'
<1> SUFFICES ASSUME NEW k \in Jobs, state'[k] # "idle"
    PROVE  Carried(k)'
  BY DEF Carrying
<1>1. CASE Start(k)
  BY <1>1, CarriedFresh
<1>2. CASE Work(k) /\ ~Return(k)
  BY <1>2, CarriedOn
<1>3. CASE Rests(k)
  <2>1. Carried(k)
    BY <1>3 DEF Rests, Carrying
  <2> QED
    BY <1>3, <2>1, CarriedStays DEF Rests
<1>4. CASE Stops(k)
  <2>1. Carried(k)
    BY <1>4 DEF Stops, Carrying
  <2> QED
    BY <1>4, <2>1, CarriedStays DEF Stops
<1> QED
  BY <1>1, <1>2, <1>3, <1>4, JobMoves

\* The invariant of the jobs is inductive.
LEMMA JobInvStep ==
  ASSUME JobInv, [JobNext]_vars
  PROVE  JobInv'
BY TypedStep, PlacedStep, KnowingStep, CarryingStep, RecordedStep,
   DescribedModelStep, FreshModelStep, CanonicalStep,
   SucceededStep DEF JobInv

\* It holds before any job runs.
LEMMA JobInvInit ==
  ASSUME JobInit
  PROVE  JobInv
<1>1. Typed
  <2>1. Fresh \in Local
    BY ClockAssumption DEF Fresh, Local, Seconds
  <2>2. 0 \in Seconds
    BY ClockAssumption DEF Seconds
  <2>3. \A j \in Jobs : 0 <= MaxAttempts[j]
    BY AttemptsAssumption
  <2>4. <<>> \in Seq(StepNames)
    OBVIOUS
  <2> QED
    BY <2>1, <2>2, <2>3, <2>4 DEF JobInit, Typed
<1>2. Placed /\ Knowing /\ Carrying /\ Recorded
  BY DEF JobInit, Placed, Knowing, Carrying, Recorded, Fresh
<1>3. PredictionsOfDescribedModel /\ FreshModel
  BY DEF JobInit, PredictionsOfDescribedModel, FreshModel
<1>4. CanonicalRegistered /\ SucceededIsComplete
  BY DEF JobInit, CanonicalRegistered, SucceededIsComplete
<1> QED
  BY <1>1, <1>2, <1>3, <1>4 DEF JobInv

\* The parameters of a training follow from where it is in its program.
LEMMA ParametersFollow ==
  ASSUME JobInv
  PROVE  OptimizedParameters
<1> SUFFICES ASSUME NEW j \in Jobs, StepOf[j] = "train", j \notin Untuned,
                    NEW o \in local[j].known, StepOf[o] = "optimize",
                    ConfigOf[o] = RecordOf[j],
                    todo[j] = <<>> \/ Head(todo[j]) # "params"
    PROVE  local[j].params # None /\ local[j].params[1] \notin local[o].known
  BY DEF OptimizedParameters
<1>1. state[j] # "idle"
  BY DEF JobInv, Placed, Fresh
<1>2. OnProgram(j) /\ Carried(j)
  BY <1>1 DEF JobInv, Placed, Carrying
<1>3. "params" \in Passed(j)
  BY <1>2, ParamsPassed DEF JobInv
<1>4. Follows(local[j].params, o)
  BY <1>2, <1>3 DEF Carried, Tuned
<1> QED
  BY <1>4, PlanningAssumption DEF Follows

\* What is left to do is a suffix of the program, as JobTypeOK says.
LEMMA JobTypesFollow ==
  ASSUME JobInv
  PROVE  JobTypeOK
<1>1. Typed
  BY DEF JobInv
<1>2. ASSUME NEW j \in Jobs
      PROVE  attempts[j] \in 0 .. MaxAttempts[j]
  <2>1. attempts[j] \in Nat /\ MaxAttempts[j] \in Nat
        /\ attempts[j] <= MaxAttempts[j]
    BY <1>1, AttemptsAssumption DEF Typed
  <2> QED
    BY <2>1
<1>3. ASSUME NEW j \in Jobs, todo[j] # <<>>
      PROVE  \E n \in 1 .. Len(Program(j)) :
               todo[j] = SubSeq(Program(j), n, Len(Program(j)))
  <2>1. OnProgram(j)
    BY <1>3 DEF JobInv, Placed
  <2>2. Program(j) \in Seq(StepNames) /\ todo[j] \in Seq(StepNames)
    BY <1>1, <2>1, ProgramSound DEF OnProgram, Typed
  <2> QED
    BY <1>3, <2>1, <2>2, EndIsSubSeq DEF OnProgram
<1> QED
  BY <1>1, <1>2, <1>3 DEF Typed, JobTypeOK

-----------------------------------------------------------------------------
(* Drivers.                                                                *)

DriverTyped ==
  /\ driver \in Drivers
  /\ at \in 1 .. Len(driver.plan) + 1
  /\ submitted \in Seq(Planned)
  /\ failures \subseteq Planned
  /\ result \in {"running", "returned", "raised", "dead"}

\* What a driver has left behind on its way through the plan.
Followed ==
  /\ driver.kind \in {"pipeline", "backfill"} =>
       \A i \in 1 .. at - 1 : state[driver.plan[i]] = "returned"
  /\ driver.kind = "backfill_on" =>
       \A i \in 1 .. at - 1 :
         \/ state[driver.plan[i]] = "returned"
         \/ driver.plan[i] \in failures
         \/ PinOf[driver.plan[i]] \in failures

\* What it has waited for, of what it has submitted.
Awaited ==
  driver.kind \in {"vertex", "vertex_sync"} \union Pipelines =>
    /\ at <= Len(submitted) + 1
    /\ \A i \in 1 .. at - 1 : state[submitted[i]] = "returned"

\* A batch submits every job once, and a PipelineJob all of them.
Submitted ==
  /\ driver.kind \in {"vertex", "vertex_sync"} =>
       \A i, k \in DOMAIN submitted : submitted[i] = submitted[k] => i = k
  /\ driver.kind \in Pipelines => submitted = <<>> \/ submitted = driver.plan

DriverInv ==
  /\ JobInv /\ DriverTyped /\ Followed /\ Submitted /\ Awaited
  /\ PlanCarriedOut

\* What the assumptions say of the plan of a driver.
LEMMA PlanFacts ==
  ASSUME driver \in Drivers
  PROVE  /\ driver.plan \in Seq(Jobs) /\ Len(driver.plan) \in Nat
         /\ DOMAIN driver.plan = 1 .. Len(driver.plan)
         /\ \A i \in 1 .. Len(driver.plan) : driver.plan[i] \in Jobs \intersect Planned
         /\ Planned \subseteq Jobs
         /\ driver.kind = "backfill_on" =>
              \A i \in 1 .. Len(driver.plan) : i % 2 = 1 =>
                /\ i + 1 \in 1 .. Len(driver.plan)
                /\ PinOf[driver.plan[i + 1]] = driver.plan[i]
<1>1. driver.plan \in Seq(Jobs)
  BY DriversAssumption
<1>2. /\ Len(driver.plan) \in Nat /\ DOMAIN driver.plan = 1 .. Len(driver.plan)
      /\ \A i \in 1 .. Len(driver.plan) : driver.plan[i] \in Jobs
  BY <1>1, LenProperties, ElementOfSeq
<1>3. driver.kind = "backfill_on" =>
        \A i \in DOMAIN driver.plan : i % 2 = 1 =>
          i + 1 \in DOMAIN driver.plan /\ PinOf[driver.plan[i + 1]] = driver.plan[i]
  BY DriversAssumption
<1> QED
  BY <1>1, <1>2, <1>3 DEF Planned

\* Whatever happens, the jobs take steps of their own.
LEMMA DriversRunJobs ==
  ASSUME DriverTyped, [Next]_allVars
  PROVE  [JobNext]_vars
<1>1. CASE StartNext
  <2>1. driver.plan[at] \in Jobs
    BY <1>1, PlanFacts DEF StartNext, DriverTyped
  <2> QED
    BY <1>1, <2>1 DEF StartNext, JobNext, JobActs
<1>2. CASE FollowNext \/ EndOfPlan \/ JoinProcesses \/ RaiseSubmissions
           \/ AwaitJobs \/ SubmitPipeline \/ UNCHANGED allVars
  BY <1>2 DEF FollowNext, EndOfPlan, JoinProcesses, RaiseSubmissions, AwaitJobs,
              SubmitPipeline, allVars
<1>3. ASSUME NEW j \in Jobs, Spawn(j) \/ StartContainer(j) \/ OperatorStarts(j)
      PROVE  JobNext
  BY <1>3 DEF Spawn, StartContainer, OperatorStarts, JobNext, JobActs
<1>4. ASSUME NEW j \in Jobs, Submit(j)
      PROVE  JobNext
  BY <1>4 DEF Submit, Submits, JobNext, JobActs
<1>5. ASSUME NEW j \in Jobs, JobStep(j) \/ Die(j)
      PROVE  JobNext
  BY <1>5 DEF JobStep, JobNext, JobActs
<1>6. CASE Tick
  BY <1>6 DEF JobNext
<1> QED
  BY <1>1, <1>2, <1>3, <1>4, <1>5, <1>6 DEF Next, Drive

\* The steps of a driver itself.
DriverActs ==
  \/ FollowNext \/ EndOfPlan \/ JoinProcesses \/ RaiseSubmissions \/ AwaitJobs
  \/ SubmitPipeline
  \/ \E j \in Jobs : Submit(j)

\* A driver changes what it holds in steps of its own only.
LEMMA DriverMoves ==
  ASSUME [Next]_allVars
  PROVE  DriverActs \/ UNCHANGED driving
BY DEF Next, Drive, DriverActs, StartNext, Spawn, StartContainer,
       OperatorStarts, JobStep, allVars

\* What a driver has seen return stays returned.
LEMMA ReturnedStays ==
  ASSUME Typed, [JobNext]_vars, NEW j \in Jobs, state[j] = "returned"
  PROVE  state'[j] = "returned"
BY ReturnedRests DEF Rests

\* A batch of which no submission failed has submitted its whole plan.
LEMMA AwaitedAll ==
  ASSUME DriverTyped, AllSubmitted, failures = {}
  PROVE  Len(submitted) = Len(driver.plan)
<1>1. Cardinality(failures) = 0
  BY FS_EmptySet
<1>2. Len(submitted) \in Nat /\ Len(driver.plan) \in Nat
  BY PlanFacts, LenProperties DEF DriverTyped
<1> QED
  BY <1>1, <1>2 DEF AllSubmitted

\* What a driver holds is typed, and its plan never changes.
LEMMA DriverTypedStep ==
  ASSUME DriverTyped, [Next]_allVars
  PROVE  DriverTyped' /\ driver' = driver /\ Planned' = Planned
<1>0. /\ Len(driver.plan) \in Nat /\ at \in 1 .. Len(driver.plan) + 1
      /\ \A i \in 1 .. Len(driver.plan) : driver.plan[i] \in Planned
      /\ submitted \in Seq(Planned)
  BY PlanFacts DEF DriverTyped
<1>1. driver' = driver /\ Planned' = Planned
  BY DriverMoves
     DEF DriverActs, FollowNext, EndOfPlan, JoinProcesses, RaiseSubmissions,
         AwaitJobs, SubmitPipeline, Submit, driving, Planned
<1>2. CASE UNCHANGED driving
  BY <1>1, <1>2 DEF driving, DriverTyped
<1>3. CASE FollowNext
  <2>1. at \in 1 .. Len(driver.plan)
    BY <1>0, <1>3 DEF FollowNext
  <2>2. at + 1 \in 1 .. Len(driver.plan) + 1
    BY <1>0, <2>1
  <2>3. driver.kind = "backfill_on" => NextDate(at) \in 1 .. Len(driver.plan) + 1
    <3>1. driver.kind = "backfill_on" /\ at % 2 = 1
            => at + 1 \in 1 .. Len(driver.plan)
      BY <2>1, PlanFacts DEF DriverTyped
    <3>2. driver.kind = "backfill_on" /\ at % 2 = 1
            => at + 2 \in 1 .. Len(driver.plan) + 1
      BY <1>0, <2>1, <3>1
    <3> QED
      BY <2>2, <3>2 DEF NextDate
  <2>4. at' \in 1 .. Len(driver.plan) + 1
    BY <1>0, <1>3, <2>2, <2>3 DEF FollowNext
  <2>5. failures' \subseteq Planned
    BY <1>0, <1>3, <2>1 DEF FollowNext, DriverTyped
  <2>6. result' \in {"running", "returned", "raised", "dead"}
        /\ submitted' = submitted
    BY <1>3 DEF FollowNext, DriverTyped
  <2> QED
    BY <1>0, <1>1, <2>4, <2>5, <2>6 DEF DriverTyped
<1>4. CASE EndOfPlan \/ JoinProcesses \/ RaiseSubmissions
  BY <1>1, <1>4 DEF EndOfPlan, JoinProcesses, RaiseSubmissions, DockerOutcome,
                    DriverTyped
<1>5. CASE AwaitJobs
  <2>1. failures = {} /\ AllSubmitted
    BY <1>5 DEF AwaitJobs
  <2>2. Len(submitted) = Len(driver.plan)
    BY <2>1, AwaitedAll
  <2>3. at' \in 1 .. Len(driver.plan) + 1
    BY <1>0, <1>5, <2>2 DEF AwaitJobs
  <2>4. result' \in {"running", "returned", "raised", "dead"}
        /\ submitted' = submitted /\ failures' = failures
    BY <1>5 DEF AwaitJobs, DriverTyped
  <2> QED
    BY <1>1, <2>3, <2>4 DEF DriverTyped
<1>6. ASSUME NEW j \in Jobs, Submit(j)
      PROVE  DriverTyped'
  <2>1. j \in Planned /\ Append(submitted, j) \in Seq(Planned)
    BY <1>0, <1>6, AppendProperties DEF Submit
  <2> QED
    BY <1>1, <1>6, <2>1 DEF Submit, DriverTyped
<1>7. CASE SubmitPipeline
  <2>1. driver.plan \in Seq(Planned)
    <3>1. /\ driver.plan \in Seq(Jobs)
          /\ \A i \in 1 .. Len(driver.plan) : driver.plan[i] \in Planned
      BY PlanFacts DEF DriverTyped
    <3>2. driver.plan \in [1 .. Len(driver.plan) -> Planned]
      BY <3>1, LenProperties
    <3> QED
      BY <1>0, <3>2, IsASeq
  <2>2. /\ submitted' \in Seq(Planned) /\ UNCHANGED <<at, failures>>
        /\ result' \in {"running", "returned", "raised", "dead"}
    BY <1>0, <1>7, <2>1 DEF SubmitPipeline, DriverTyped
  <2> QED
    BY <1>1, <2>2 DEF DriverTyped
<1> QED
  BY <1>1, <1>2, <1>3, <1>4, <1>5, <1>6, <1>7, DriverMoves DEF DriverActs

\* As many submissions of different jobs as the plan has places are of all the
\* jobs of the plan.
LEMMA AllWereSubmitted ==
  ASSUME DriverTyped, Len(submitted) = Len(driver.plan),
         \A i, k \in DOMAIN submitted : submitted[i] = submitted[k] => i = k
  PROVE  \A j \in Planned : \E i \in DOMAIN submitted : submitted[i] = j
<1> DEFINE n == Len(driver.plan)
           D == 1 .. n
<1>1. /\ n \in Nat /\ driver.plan \in Seq(Jobs) /\ DOMAIN driver.plan = D
      /\ submitted \in Seq(Planned) /\ DOMAIN submitted = D
  BY PlanFacts, LenProperties DEF DriverTyped
<1>2. driver.plan \in Surjection(D, Planned)
  <2>1. driver.plan \in [D -> Planned]
    BY <1>1, LenProperties DEF Planned
  <2>2. \A j \in Planned : \E i \in D : driver.plan[i] = j
    BY <1>1 DEF Planned
  <2> QED
    BY <2>1, <2>2 DEF Surjection
<1>3. submitted \in Injection(D, Planned)
  <2>1. submitted \in [D -> Planned]
    BY <1>1, LenProperties
  <2> QED
    BY <1>1, <2>1 DEF Injection, IsInjective
<1>4. IsFiniteSet(D)
  BY <1>1, FS_Interval
<1>5. IsFiniteSet(Planned) /\ Cardinality(Planned) <= Cardinality(D)
  BY <1>2, <1>4, FS_Surjection
<1>6. /\ Cardinality(D) <= Cardinality(Planned)
      /\ Cardinality(D) = Cardinality(Planned)
           <=> submitted \in Surjection(D, Planned)
  BY <1>3, <1>5, FS_Injection
<1>7. Cardinality(D) \in Nat /\ Cardinality(Planned) \in Nat
  BY <1>4, <1>5, FS_CardinalityType
<1>8. submitted \in Surjection(D, Planned)
  BY <1>5, <1>6, <1>7
<1> QED
  BY <1>1, <1>8 DEF Surjection

\* A driver that follows its jobs goes on when one has returned, or when it has
\* noted its failure.
LEMMA FollowedStep ==
  ASSUME Typed, DriverTyped, Followed, [Next]_allVars
  PROVE  Followed'
<1>0. /\ driver' = driver
      /\ at \in Int /\ 1 <= at /\ at <= Len(driver.plan) + 1
      /\ Len(driver.plan) \in Nat
  BY DriverTypedStep, PlanFacts DEF DriverTyped
<1>1. \A j \in Jobs : state[j] = "returned" => state'[j] = "returned"
  BY DriversRunJobs, ReturnedStays
<1>2. \A i \in 1 .. Len(driver.plan) : driver.plan[i] \in Jobs
  BY PlanFacts DEF DriverTyped
<1>3. \A i \in 1 .. at - 1 : i \in 1 .. Len(driver.plan)
  BY <1>0
<1>4. ASSUME at' = at, failures \subseteq failures'
      PROVE  Followed'
  BY <1>0, <1>1, <1>2, <1>3, <1>4 DEF Followed
<1>5. CASE UNCHANGED driving
  BY <1>4, <1>5 DEF driving
<1>6. CASE EndOfPlan \/ JoinProcesses \/ RaiseSubmissions
  BY <1>4, <1>6 DEF EndOfPlan, JoinProcesses, RaiseSubmissions
<1>7. ASSUME NEW j \in Jobs, Submit(j)
      PROVE  Followed'
  BY <1>4, <1>7 DEF Submit
<1>8. CASE AwaitJobs
  <2>1. driver.kind \in {"vertex", "vertex_sync"} \union Pipelines
    BY <1>8 DEF AwaitJobs, Kind
  <2> QED
    BY <1>0, <2>1 DEF Followed, Pipelines
<1>9. CASE FollowNext
  <2> DEFINE j == driver.plan[at]
  <2>1. driver.kind \in Sequential /\ at \in 1 .. Len(driver.plan)
        /\ UNCHANGED vars
    BY <1>0, <1>9 DEF FollowNext, Kind
  <2>2. state' = state
    BY <2>1 DEF vars
  <2>3. CASE state[j] = "returned" /\ at' = at + 1 /\ UNCHANGED failures
    <3>1. \A i \in 1 .. at' - 1 : i \in 1 .. at - 1 \/ i = at
      BY <1>0, <2>3
    <3> QED
      BY <1>0, <2>2, <2>3, <3>1 DEF Followed
  <2>4. CASE /\ driver.kind = "backfill_on"
             /\ at' = NextDate(at)
             /\ failures' = failures \union {j}
    <3>1. \A i \in 1 .. at' - 1 :
            i \in 1 .. at - 1 \/ i = at \/ (at % 2 = 1 /\ i = at + 1)
      BY <1>0, <2>4 DEF NextDate
    <3>2. at % 2 = 1 => PinOf[driver.plan[at + 1]] = j
      BY <2>1, <2>4, PlanFacts DEF DriverTyped
    <3> QED
      BY <1>0, <2>2, <2>4, <3>1, <3>2 DEF Followed
  <2>5. CASE UNCHANGED <<at, failures>>
    BY <1>4, <2>5
  <2> QED
    BY <1>9, <2>3, <2>4, <2>5 DEF FollowNext
<1>10. CASE SubmitPipeline
  BY <1>4, <1>10 DEF SubmitPipeline
<1> QED
  BY <1>5, <1>6, <1>7, <1>8, <1>9, <1>10, DriverMoves DEF DriverActs

\* A job is submitted by a batch that has not submitted it, and a PipelineJob as
\* a whole.
LEMMA SubmittedStep ==
  ASSUME DriverTyped, Submitted, [Next]_allVars
  PROVE  Submitted'
<1> DEFINE n == Len(submitted)
<1>0. /\ driver' = driver /\ submitted \in Seq(Planned) /\ n \in Nat
      /\ DOMAIN submitted = 1 .. n
  BY DriverTypedStep, LenProperties DEF DriverTyped
<1>1. CASE submitted' = submitted
  BY <1>0, <1>1 DEF Submitted
<1>2. ASSUME NEW j \in Jobs, Submit(j), submitted' = Append(submitted, j)
      PROVE  Submitted'
  <2>1. /\ j \in Planned /\ \A i \in 1 .. n : submitted[i] # j
        /\ driver.kind \in {"vertex", "vertex_sync"}
    BY <1>0, <1>2 DEF Submit, IsSubmitted, Kind
  <2>2. /\ DOMAIN submitted' = 1 .. n + 1
        /\ submitted'[n + 1] = j
        /\ \A i \in 1 .. n : submitted'[i] = submitted[i]
    BY <1>0, <1>2, <2>1, AppendProperties, LenProperties
  <2>3. \A i, k \in 1 .. n + 1 : submitted'[i] = submitted'[k] => i = k
    <3>1. \A i \in 1 .. n + 1 : i \in 1 .. n \/ i = n + 1
      BY <1>0
    <3> QED
      BY <1>0, <2>1, <2>2, <3>1 DEF Submitted
  <2> QED
    BY <1>0, <2>1, <2>2, <2>3 DEF Submitted, Pipelines
<1>3. ASSUME SubmitPipeline, submitted' = driver.plan
      PROVE  Submitted'
  BY <1>0, <1>3 DEF SubmitPipeline, Submitted, Kind, Pipelines
<1> QED
  BY <1>1, <1>2, <1>3, DriverMoves
     DEF DriverActs, FollowNext, EndOfPlan, JoinProcesses, RaiseSubmissions,
         AwaitJobs, Submit, SubmitPipeline, driving

\* A driver that waits goes on to the next job that was submitted when the one
\* before it has returned.
LEMMA AwaitedStep ==
  ASSUME Typed, DriverTyped, Submitted, Awaited, [Next]_allVars
  PROVE  Awaited'
<1> DEFINE n == Len(submitted)
<1>0. /\ driver' = driver /\ at \in Int /\ 1 <= at
      /\ submitted \in Seq(Planned) /\ n \in Nat /\ DOMAIN submitted = 1 .. n
      /\ \A i \in 1 .. n : submitted[i] \in Jobs
  <2>1. Planned \subseteq Jobs
    BY PlanFacts DEF DriverTyped
  <2>2. submitted \in Seq(Planned) /\ at \in 1 .. Len(driver.plan) + 1
    BY DEF DriverTyped
  <2> QED
    BY <2>1, <2>2, DriverTypedStep, LenProperties, ElementOfSeq, PlanFacts
       DEF DriverTyped
<1> DEFINE Right == /\ at' <= Len(submitted') + 1
                    /\ \A i \in 1 .. at' - 1 :
                         state'[submitted'[i]] = "returned"
<1> SUFFICES ASSUME driver.kind \in {"vertex", "vertex_sync"} \union Pipelines
    PROVE  Right
  BY <1>0 DEF Awaited
<1>1. \A j \in Jobs : state[j] = "returned" => state'[j] = "returned"
  BY DriversRunJobs, ReturnedStays
<1>2. /\ at <= n + 1
      /\ \A i \in 1 .. at - 1 : i \in 1 .. n /\ state[submitted[i]] = "returned"
  BY <1>0 DEF Awaited
<1>3. CASE at' = at /\ submitted' = submitted
  BY <1>0, <1>1, <1>2, <1>3
<1>4. CASE AwaitJobs
  <2>1. submitted' = submitted /\ state' = state
    BY <1>4 DEF AwaitJobs, vars
  <2>2. CASE /\ at <= n /\ state[submitted[at]] = "returned" /\ at' = at + 1
    <3>1. \A i \in 1 .. at' - 1 : i \in 1 .. at - 1 \/ i = at
      BY <1>0, <2>2
    <3> QED
      BY <1>0, <1>2, <2>1, <2>2, <3>1
  <2> QED
    BY <1>3, <1>4, <2>1, <2>2 DEF AwaitJobs
<1>5. ASSUME NEW j \in Jobs, Submit(j), submitted' = Append(submitted, j)
      PROVE  Right
  <2>1. /\ Len(submitted') = n + 1
        /\ \A i \in 1 .. n : submitted'[i] = submitted[i]
    <3>1. j \in Planned
      BY <1>5 DEF Submit
    <3> QED
      BY <1>0, <1>5, <3>1, AppendProperties, LenProperties
  <2>2. at' = at
    BY <1>5 DEF Submit
  <2> QED
    BY <1>0, <1>1, <1>2, <2>1, <2>2
<1>6. ASSUME NEW j \in Jobs, Submit(j), submitted' = submitted
      PROVE  at' = at
  BY <1>6 DEF Submit
<1>7. CASE FollowNext
  BY <1>7 DEF FollowNext, Kind, Sequential, Pipelines
<1>8. ASSUME SubmitPipeline, submitted' = driver.plan
      PROVE  Right
  <2>1. submitted = <<>> /\ at' = at
    BY <1>8 DEF SubmitPipeline, Submitted, Kind
  <2>2. n = 0 /\ Len(driver.plan) \in Nat
    BY <2>1, EmptySeq, PlanFacts DEF DriverTyped
  <2> QED
    BY <1>0, <1>2, <1>8, <2>1, <2>2
<1>9. ASSUME SubmitPipeline, submitted' = submitted
      PROVE  at' = at
  BY <1>9 DEF SubmitPipeline
<1> QED
  BY <1>3, <1>4, <1>5, <1>6, <1>7, <1>8, <1>9, DriverMoves
     DEF DriverActs, Submit, SubmitPipeline, EndOfPlan, JoinProcesses,
         RaiseSubmissions, driving

\* So a driver that returns has seen all of its plan, in each of its ways.
LEMMA PlanStep ==
  ASSUME Typed, DriverTyped, Followed, Submitted, Awaited, PlanCarriedOut,
         [Next]_allVars
  PROVE  PlanCarriedOut'
<1>0. /\ driver' = driver /\ Planned' = Planned /\ Planned \subseteq Jobs
      /\ at \in Int /\ at <= Len(driver.plan) + 1 /\ Len(driver.plan) \in Nat
      /\ \A j \in Planned : \E i \in 1 .. Len(driver.plan) : driver.plan[i] = j
  BY DriverTypedStep, PlanFacts DEF DriverTyped, Planned
<1>1. \A j \in Jobs : state[j] = "returned" => state'[j] = "returned"
  BY DriversRunJobs, ReturnedStays
<1>2. CASE UNCHANGED <<result, failures>>
  BY <1>0, <1>1, <1>2 DEF PlanCarriedOut
<1>3. CASE result' # "returned"
  BY <1>3 DEF PlanCarriedOut
<1>4. ASSUME state' = state, failures' = failures,
             CASE driver.kind \in {"vertex", "pipeline_job"} -> failures = {}
               [] driver.kind = "backfill_on" ->
                    \A j \in Planned \ failures :
                      state[j] = "returned" \/ PinOf[j] \in failures
               [] OTHER -> \A j \in Planned : state[j] = "returned"
      PROVE  PlanCarriedOut'
  BY <1>0, <1>4 DEF PlanCarriedOut
<1>5. CASE EndOfPlan
  <2>1. /\ driver.kind \in Sequential /\ at = Len(driver.plan) + 1
        /\ failures' = failures /\ state' = state
    BY <1>0, <1>5 DEF EndOfPlan, Kind, vars
  <2>2. at - 1 = Len(driver.plan)
    BY <1>0, <2>1
  <2>3. CASE driver.kind = "backfill_on"
    <3>1. \A j \in Planned \ failures :
            state[j] = "returned" \/ PinOf[j] \in failures
      BY <1>0, <2>2, <2>3 DEF Followed
    <3> QED
      BY <1>4, <2>1, <2>3, <3>1
  <2>4. CASE driver.kind \in {"pipeline", "backfill"}
    <3>1. \A j \in Planned : state[j] = "returned"
      BY <1>0, <2>2, <2>4 DEF Followed
    <3> QED
      BY <1>4, <2>1, <2>4, <3>1
  <2> QED
    BY <2>1, <2>3, <2>4 DEF Sequential
<1>6. CASE JoinProcesses
  <2>1. /\ driver.kind = "docker" /\ result' = DockerOutcome
        /\ failures' = failures /\ state' = state
    BY <1>6 DEF JoinProcesses, Kind, vars
  <2>2. CASE \A j \in Planned : state[j] = "returned"
    BY <1>4, <2>1, <2>2
  <2> QED
    BY <1>3, <2>1, <2>2 DEF DockerOutcome
<1>7. CASE AwaitJobs /\ result' = "returned" /\ result # "returned"
  <2>1. /\ driver.kind \in {"vertex", "vertex_sync"} \union Pipelines
        /\ failures = {} /\ AllSubmitted
        /\ driver.kind \in {"vertex", "pipeline_job"} \/ at > Len(submitted)
        /\ failures' = failures /\ state' = state
    BY <1>7 DEF AwaitJobs, Kind, vars
  <2>2. CASE driver.kind \in {"vertex", "pipeline_job"}
    BY <1>4, <2>1, <2>2
  <2>3. CASE driver.kind \in {"vertex_sync", "pipeline_job_sync"}
    <3>1. Len(submitted) = Len(driver.plan)
      BY <2>1, AwaitedAll
    <3>2. at - 1 = Len(submitted) /\ DOMAIN submitted = 1 .. Len(submitted)
      BY <1>0, <2>1, <2>3, <3>1, LenProperties DEF DriverTyped
    <3>3. \A j \in Planned : \E i \in DOMAIN submitted : submitted[i] = j
      <4>1. CASE driver.kind = "vertex_sync"
        BY <3>1, <4>1, AllWereSubmitted DEF Submitted
      <4>2. CASE driver.kind = "pipeline_job_sync"
        <5>1. submitted = <<>> \/ submitted = driver.plan
          BY <4>2 DEF Submitted, Pipelines
        <5>2. submitted = <<>> => Len(driver.plan) = 0
          BY <3>1, EmptySeq
        <5> QED
          BY <1>0, <3>2, <5>1, <5>2
      <4> QED
        BY <2>3, <4>1, <4>2
    <3>4. \A j \in Planned : state[j] = "returned"
      BY <2>3, <3>2, <3>3 DEF Awaited, Pipelines
    <3> QED
      BY <1>4, <2>1, <2>3, <3>4
  <2> QED
    BY <2>1, <2>2, <2>3 DEF Pipelines
<1>8. CASE AwaitJobs /\ (result' # "returned" \/ result = "returned")
  BY <1>3, <1>8 DEF AwaitJobs, Kind
<1>9. CASE RaiseSubmissions
  BY <1>3, <1>9 DEF RaiseSubmissions
<1>10. CASE FollowNext
  <2>1. result = "running" /\ result' \in {"running", "raised", "dead"}
    BY <1>10 DEF FollowNext, Kind
  <2> QED
    BY <1>3, <2>1
<1>11. ASSUME NEW j \in Jobs, Submit(j)
       PROVE  PlanCarriedOut'
  BY <1>3, <1>11 DEF Submit, Kind
<1>12. CASE SubmitPipeline
  BY <1>2, <1>3, <1>12 DEF SubmitPipeline
<1> QED
  BY <1>2, <1>5, <1>6, <1>7, <1>8, <1>9, <1>10, <1>11, <1>12, DriverMoves
     DEF DriverActs, driving

-----------------------------------------------------------------------------
(* Theorems.                                                               *)

\* The invariant described above holds of every execution of the jobs and of
\* whoever drives them.
THEOREM DriversInvariant == Spec => []DriverInv
<1>1. Init => DriverInv
  <2> SUFFICES ASSUME Init
               PROVE  DriverInv
    OBVIOUS
  <2>1. JobInv
    BY JobInvInit DEF Init
  <2>2. Len(driver.plan) \in Nat /\ driver \in Drivers
    BY PlanFacts DEF Init
  <2>3. 1 \in 1 .. Len(driver.plan) + 1
    BY <2>2
  <2>4. submitted = <<>> /\ <<>> \in Seq(Planned) /\ Len(submitted) = 0
        /\ DOMAIN submitted = {}
    BY EmptySeq DEF Init
  <2>5. DriverTyped
    BY <2>3, <2>4 DEF Init, DriverTyped
  <2>6. Followed /\ Submitted /\ Awaited /\ PlanCarriedOut
    BY <2>4 DEF Init, Followed, Submitted, Awaited, PlanCarriedOut
  <2> QED
    BY <2>1, <2>5, <2>6 DEF DriverInv
<1>2. DriverInv /\ [Next]_allVars => DriverInv'
  <2> SUFFICES ASSUME DriverInv, [Next]_allVars
               PROVE  DriverInv'
    OBVIOUS
  <2>1. /\ Typed /\ JobInv /\ DriverTyped /\ Followed /\ Submitted /\ Awaited
        /\ PlanCarriedOut
    BY DEF DriverInv, JobInv
  <2>2. JobInv'
    BY <2>1, DriversRunJobs, JobInvStep
  <2> QED
    BY <2>1, <2>2, DriverTypedStep, FollowedStep, SubmittedStep, AwaitedStep,
       PlanStep
       DEF DriverInv
<1> QED
  BY <1>1, <1>2, PTL DEF Spec

\* The tables, the bucket, the jobs and the drivers are well typed; above all,
\* what a job has left to do is always a rest of its program.
THEOREM JobsTypes == Spec => []TypeOK
<1>1. DriverInv => TypeOK
  <2> SUFFICES ASSUME DriverInv
               PROVE  TypeOK
    OBVIOUS
  <2>1. JobTypeOK
    BY JobTypesFollow DEF DriverInv
  <2>2. \A i \in DOMAIN submitted : submitted[i] \in Planned
    BY LenProperties, ElementOfSeq DEF DriverInv, DriverTyped
  <2> QED
    BY <2>1, <2>2 DEF DriverInv, DriverTyped, TypeOK
<1> QED
  BY <1>1, DriversInvariant, PTL

\* Predictions were computed by the model of the run their rows name, although
\* trainings of one second overwrite each other between any two downloads: a
\* joblib model is compared with the digest of its manifest.
THEOREM PredictionsAreOfTheirModel == Spec => []PredictionsOfDescribedModel
<1>1. DriverInv => PredictionsOfDescribedModel
  BY DEF DriverInv, JobInv
<1> QED
  BY <1>1, DriversInvariant, PTL

\* A prediction without a pin uses a model at least as late as that of every
\* training of its configuration that had returned before it began.
THEOREM ModelsAreFresh == Spec => []FreshModel
<1>1. DriverInv => FreshModel
  BY DEF DriverInv, JobInv
<1> QED
  BY <1>1, DriversInvariant, PTL

\* No training that began after an optimization of its record had returned is
\* given the parameters of an earlier one, or falls back to its configuration:
\* the record is read before anything else, and whoever overwrites it was
\* running when the optimization had written its own.
THEOREM OptimizationIsUsed == Spec => []OptimizedParameters
<1>1. DriverInv => OptimizedParameters
  BY ParametersFollow DEF DriverInv
<1> QED
  BY <1>1, DriversInvariant, PTL

\* Whoever reads canonical rows finds their contract and their forecast run,
\* even if the prediction stopped right after it wrote them.
THEOREM CanonicalRowsRegistered == Spec => []CanonicalRegistered
<1>1. DriverInv => CanonicalRegistered
  BY DEF DriverInv, JobInv
<1> QED
  BY <1>1, DriversInvariant, PTL

\* A run that is shown as succeeded has left every row that its program writes,
\* also if its job was run before and died.
THEOREM SuccessIsComplete == Spec => []SucceededIsComplete
<1>1. DriverInv => SucceededIsComplete
  BY DEF DriverInv, JobInv
<1> QED
  BY <1>1, DriversInvariant, PTL

\* A driver returns normally only when the jobs it answers for have returned, in
\* all of its ways to run them; a backfill that goes on after errors has lost no
\* date but those whose training or prediction failed.
THEOREM PlansCarriedOut == Spec => []PlanCarriedOut
<1>1. DriverInv => PlanCarriedOut
  BY DEF DriverInv
<1> QED
  BY <1>1, DriversInvariant, PTL
=============================================================================
