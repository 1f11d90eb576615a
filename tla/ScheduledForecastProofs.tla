---------------------- MODULE ScheduledForecastProofs ----------------------
(***************************************************************************)
(* Proofs about the scheduled pipeline of ScheduledForecast, for every set *)
(* of executions and candidates, every lease, with and without a hierarchy *)
(* and for every bound on attempts, faults, promotions and generations.    *)
(*                                                                         *)
(* The argument: an execution that is about to write table i of its run    *)
(* finds the contract and the tables before i written (Evidence); nothing  *)
(* is written before the gates passed (Gated, StoredSound); inserts never  *)
(* overwrite or remove a row.  The lease plays no part in it but one: an   *)
(* execution that waits for the answer of the lock has passed the gates    *)
(* (Asking).                                                               *)
(***************************************************************************)
EXTENDS ScheduledForecast, TLAPS

\* The types of the state outside the lock.
LocalTypeOK ==
  /\ champion \in Candidates
  /\ promotions \in 0 .. MaxPromotions
  /\ generation \in Generations
  /\ pc \in [Executions -> Places]
  /\ champ \in [Executions -> Candidates]
  /\ config \in [Executions -> Candidates]
  /\ gen \in [Executions -> Generations]
  /\ step \in [Executions -> 1 .. Len(Steps) + 1]
  /\ tries \in [Executions -> 0 .. MaxTries]
  /\ registered \in BOOLEAN
  /\ stored \in [Tables -> [Runs -> Generations \union {Absent}]]
  /\ exceptions \subseteq Runs \X Generations
  /\ faults \in 0 .. MaxFaults

\* An execution that asked for the lock is at the acquisition.
Asking ==
  \A e \in Executions : req[e].phase \in {"merge", "select"} => pc[e] = "acquire"

\* Past the gates, the inputs are sound.
Gated ==
  \A e \in Executions :
    pc[e] \in {"acquire", "register", "persist", "release"}
      => gen[e] \in SoundGenerations

\* An execution that persists has a table to write and wrote those before.
Evidence ==
  \A e \in Executions :
    pc[e] = "persist" =>
      /\ registered
      /\ step[e] \in 1 .. Len(Steps)
      /\ \A i \in 1 .. Len(Steps) :
           i < step[e] => stored[Steps[i]][RunOf(e)] # Absent

\* Rows come from sound inputs, exceptions from the others.
StoredSound ==
  /\ \A t \in Tables, r \in Runs : stored[t][r] \in SoundGenerations \union {Absent}
  /\ \A x \in exceptions : x[2] \notin SoundGenerations

IInv ==
  /\ Lk!TypeOK
  /\ LocalTypeOK
  /\ Asking
  /\ Gated
  /\ Evidence
  /\ StoredSound
  /\ VisibleDraftComplete

-----------------------------------------------------------------------------

\* The tables are the steps, and forecast_runs is the last and only the last.
LEMMA StepsFacts ==
  /\ Len(Steps) \in Nat \ {0}
  /\ Tables = {Steps[i] : i \in 1 .. Len(Steps)}
  /\ \A i \in 1 .. Len(Steps) : Steps[i] = "forecast_runs" <=> i = Len(Steps)
<1>1. CASE Hierarchical
  BY <1>1 DEF Steps, Tables
<1>2. CASE ~Hierarchical
  BY <1>2 DEF Steps, Tables
<1> QED
  BY <1>1, <1>2

\* What an insert changes: the rows of one run in one table, if it had none.
LEMMA InsertFacts ==
  ASSUME LocalTypeOK, NEW e \in Executions, NEW t \in Tables, InsertRows(e, t)
  PROVE  /\ stored' \in [Tables -> [Runs -> Generations \union {Absent}]]
         /\ \A u \in Tables, r \in Runs :
              stored'[u][r] = IF u = t /\ r = RunOf(e)
                                THEN Inserted(stored[u][r], gen[e])
                                ELSE stored[u][r]
<1> DEFINE r0 == RunOf(e)
           v == Inserted(stored[t][r0], gen[e])
<1>1. r0 \in Runs
  BY DEF LocalTypeOK, RunOf, Runs
<1>2. v \in Generations \union {Absent}
  BY <1>1 DEF LocalTypeOK, Inserted
<1>3. stored' = [stored EXCEPT ![t] = [stored[t] EXCEPT ![r0] = v]]
  BY DEF InsertRows, LocalTypeOK
<1>4. stored[t] \in [Runs -> Generations \union {Absent}]
  BY DEF LocalTypeOK
<1> HIDE DEF r0, v
<1>5. [stored[t] EXCEPT ![r0] = v] \in [Runs -> Generations \union {Absent}]
  BY <1>1, <1>2, <1>4
<1>6. stored' \in [Tables -> [Runs -> Generations \union {Absent}]]
  BY <1>3, <1>5 DEF LocalTypeOK
<1>7. ASSUME NEW u \in Tables, NEW r \in Runs
      PROVE  stored'[u][r] = IF u = t /\ r = r0 THEN v ELSE stored[u][r]
  BY <1>3, <1>4 DEF LocalTypeOK
<1> QED
  BY <1>6, <1>7 DEF r0, v

\* Every step writes no row of a run, or is an insert by an execution that
\* persists, whose next table it is.
LEMMA StepEffect ==
  ASSUME [Next]_vars
  PROVE  \/ UNCHANGED stored
         \/ \E e \in Executions :
              /\ pc[e] = "persist"
              /\ InsertRows(e, Steps[step[e]])
              /\ UNCHANGED <<registered, exceptions>>
<1> USE DEF At, tableVars
<1>1. ASSUME NEW e \in Executions, Step(e) \/ FailRegister(e) \/ FailPersist(e) \/ Raise(e) \/ Crash(e)
      PROVE  \/ UNCHANGED stored
             \/ /\ pc[e] = "persist"
                /\ InsertRows(e, Steps[step[e]])
                /\ UNCHANGED <<registered, exceptions>>
  <2>1. CASE Persist(e) \/ FailPersist(e)
    BY <2>1 DEF Persist, FailPersist
  <2>2. CASE Raise(e) \/ Crash(e) \/ FailRegister(e)
    BY <2>2 DEF Abandoned, Raise, Crash, FailRegister
  <2>3. CASE Step(e) /\ ~Persist(e)
    BY <2>3 DEF Step, ResolveCandidate, ResolveConfig, LoadInputs, Execute, Block,
                RequestLock, MergeLock, SelectLock, RegisterContract,
                RequestRelease, UpdateRelease
  <2> QED
    BY <1>1, <2>1, <2>2, <2>3
<1>2. CASE Promote \/ NewInputs \/ Tick \/ UNCHANGED vars
  BY <1>2 DEF Promote, NewInputs, Tick, vars
<1> QED
  BY <1>1, <1>2 DEF Next

\* The types of the local state are kept by every step.
LEMMA LocalTypes ==
  ASSUME LocalTypeOK, Evidence, [Next]_vars
  PROVE  LocalTypeOK'
<1>0. Len(Steps) \in Nat \ {0}
  BY StepsFacts
<1> USE <1>0, BoundsAssumption
    DEF LocalTypeOK, At, GoTo, Places, Generations,
        lockVars, envVars, pinVars, execVars, tableVars
<1>f. Fault => faults' \in 0 .. MaxFaults
  BY DEF Fault
<1>1. ASSUME NEW e \in Executions, ResolveCandidate(e)
      PROVE  LocalTypeOK'
  BY <1>1 DEF ResolveCandidate
<1>2. ASSUME NEW e \in Executions, ResolveConfig(e)
      PROVE  LocalTypeOK'
  BY <1>2 DEF ResolveConfig
<1>3. ASSUME NEW e \in Executions, LoadInputs(e)
      PROVE  LocalTypeOK'
  BY <1>3 DEF LoadInputs
<1>4. ASSUME NEW e \in Executions, Execute(e)
      PROVE  LocalTypeOK'
  BY <1>4 DEF Execute
<1>5. ASSUME NEW e \in Executions, Block(e)
      PROVE  LocalTypeOK'
  <2>1. RunOf(e) \in Runs
    BY DEF RunOf, Runs
  <2>2. exceptions' \subseteq Runs \X Generations
    BY <1>5, <2>1 DEF Block
  <2> QED
    BY <1>5, <2>2 DEF Block, AfterBlocked
<1>6. ASSUME NEW e \in Executions, RequestLock(e) \/ MergeLock(e) \/ RequestRelease(e)
      PROVE  LocalTypeOK'
  BY <1>6 DEF RequestLock, MergeLock, RequestRelease
<1>7. ASSUME NEW e \in Executions, SelectLock(e)
      PROVE  LocalTypeOK'
  BY <1>7 DEF SelectLock
<1>8. ASSUME NEW e \in Executions, RegisterContract(e) \/ FailRegister(e)
      PROVE  LocalTypeOK'
  <2>1. registered' \in BOOLEAN
    BY <1>8 DEF RegisterContract, FailRegister
  <2>2. faults' \in 0 .. MaxFaults
    BY <1>8, <1>f DEF RegisterContract, FailRegister
  <2>3. step' \in [Executions -> 1 .. Len(Steps) + 1]
    <3>1. step' = [step EXCEPT ![e] = 1]
      BY <1>8, Zenon DEF RegisterContract, FailRegister
    <3>2. 1 \in 1 .. Len(Steps) + 1
      OBVIOUS
    <3> QED
      BY <3>1, <3>2
  <2>4. pc' \in [Executions -> Places]
    BY <1>8 DEF RegisterContract, FailRegister
  <2> QED
    BY <1>8, <2>1, <2>2, <2>3, <2>4 DEF RegisterContract, FailRegister
<1>9. ASSUME NEW e \in Executions, Persist(e)
      PROVE  LocalTypeOK'
  <2>1. step[e] \in 1 .. Len(Steps) /\ Steps[step[e]] \in Tables
    BY <1>9, StepsFacts DEF Persist, Evidence
  <2>2. stored' \in [Tables -> [Runs -> Generations \union {Absent}]]
    BY <1>9, <2>1, InsertFacts DEF Persist
  <2>3. step' \in [Executions -> 1 .. Len(Steps) + 1]
    BY <1>9, <2>1 DEF Persist
  <2> QED
    BY <1>9, <2>2, <2>3 DEF Persist
<1>10. ASSUME NEW e \in Executions, FailPersist(e)
       PROVE  LocalTypeOK'
  <2>1. Steps[step[e]] \in Tables
    BY <1>10, StepsFacts DEF FailPersist, Evidence
  <2>2. stored' \in [Tables -> [Runs -> Generations \union {Absent}]]
    BY <1>10, <2>1, InsertFacts DEF FailPersist
  <2> QED
    BY <1>10, <1>f, <2>2 DEF FailPersist
<1>11. ASSUME NEW e \in Executions, UpdateRelease(e) \/ Raise(e) \/ Crash(e)
       PROVE  LocalTypeOK'
  BY <1>11, <1>f DEF UpdateRelease, Abandoned, Raise, Crash
<1>12. CASE Promote \/ NewInputs \/ Tick \/ UNCHANGED vars
  BY <1>12 DEF Promote, NewInputs, Tick, vars
<1> QED
  BY <1>1, <1>2, <1>3, <1>4, <1>5, <1>6, <1>7, <1>8, <1>9, <1>10, <1>11, <1>12
     DEF Next, Step

\* The run ids of the pins are owners of the lock.
LEMMA LockTypes ==
  ASSUME Lk!TypeOK, LocalTypeOK, [Next]_vars
  PROVE  Lk!TypeOK'
<1> USE LeaseAssumption DEF Lk!TypeOK, Lk!Request, Lk!Phases, Lk!Row, lockVars
<1>1. ASSUME NEW e \in Executions, RequestLock(e)
      PROVE  Lk!TypeOK'
  <2>1. RunOf(e) \in Runs
    BY DEF LocalTypeOK, RunOf, Runs
  <2>2. Lk!LockRequest(RunOf(e)) \in Lk!Request
    BY <2>1 DEF Lk!LockRequest
  <2> QED
    BY <1>1, <2>2 DEF RequestLock, Lk!RequestLock
<1>2. ASSUME NEW e \in Executions, MergeLock(e)
      PROVE  Lk!TypeOK'
  BY <1>2 DEF MergeLock, Lk!MergeLock
<1>3. ASSUME NEW e \in Executions, SelectLock(e)
      PROVE  Lk!TypeOK'
  BY <1>3 DEF SelectLock, Lk!SelectLock
<1>4. ASSUME NEW e \in Executions, RequestRelease(e)
      PROVE  Lk!TypeOK'
  BY <1>4 DEF RequestRelease, Lk!RequestRelease, Lk!ReleaseRequest
<1>5. ASSUME NEW e \in Executions, UpdateRelease(e)
      PROVE  Lk!TypeOK'
  BY <1>5 DEF UpdateRelease, Lk!UpdateRelease, Lk!ReleasedRow
<1>6. ASSUME NEW e \in Executions, Raise(e) \/ Crash(e)
      PROVE  Lk!TypeOK'
  BY <1>6 DEF Abandoned, Raise, Crash, Lk!Die
<1>7. ASSUME NEW e \in Executions,
             \/ ResolveCandidate(e) \/ ResolveConfig(e) \/ LoadInputs(e)
             \/ Execute(e) \/ Block(e) \/ RegisterContract(e) \/ Persist(e)
             \/ FailRegister(e) \/ FailPersist(e)
      PROVE  Lk!TypeOK'
  BY <1>7 DEF ResolveCandidate, ResolveConfig, LoadInputs, Execute, Block,
              RegisterContract, Persist, FailRegister, FailPersist
<1>8. CASE Promote \/ NewInputs \/ UNCHANGED vars
  BY <1>8 DEF Promote, NewInputs, vars
<1>9. CASE Tick
  BY <1>9 DEF Tick, Lk!Tick
<1> QED
  BY <1>1, <1>2, <1>3, <1>4, <1>5, <1>6, <1>7, <1>8, <1>9 DEF Next, Step

\* The requests follow the executions that make them.
LEMMA AskingStep ==
  ASSUME Lk!TypeOK, LocalTypeOK, Asking, [Next]_vars
  PROVE  Asking'
<1> USE DEF Lk!TypeOK, LocalTypeOK, Asking, At, GoTo, lockVars, execVars
<1>1. ASSUME NEW e \in Executions, RequestLock(e)
      PROVE  Asking'
  BY <1>1 DEF RequestLock, Lk!RequestLock
<1>2. ASSUME NEW e \in Executions, MergeLock(e)
      PROVE  Asking'
  BY <1>2 DEF MergeLock, Lk!MergeLock
<1>3. ASSUME NEW e \in Executions, SelectLock(e)
      PROVE  Asking'
  <2>1. /\ req' = [req EXCEPT ![e].phase = req'[e].phase]
        /\ req'[e].phase \in {"held", "idle"}
    BY <1>3 DEF SelectLock, Lk!SelectLock
  <2>2. \A f \in Executions : pc'[f] = pc[f] \/ f = e
    BY <1>3 DEF SelectLock
  <2>3. \A f \in Executions : req'[f] = req[f] \/ f = e
    BY <2>1
  <2> QED
    BY <2>1, <2>2, <2>3
<1>4. ASSUME NEW e \in Executions, RequestRelease(e)
      PROVE  Asking'
  BY <1>4 DEF RequestRelease, Lk!RequestRelease, Lk!ReleaseRequest
<1>5. ASSUME NEW e \in Executions, UpdateRelease(e)
      PROVE  Asking'
  BY <1>5 DEF UpdateRelease, Lk!UpdateRelease
<1>6. ASSUME NEW e \in Executions, Raise(e) \/ Crash(e)
      PROVE  Asking'
  <2>1. CASE Lk!Die(e)
    BY <1>6, <2>1 DEF Abandoned, Raise, Crash, Lk!Die
  <2>2. CASE ~Lk!Busy(e) /\ UNCHANGED lockVars
    BY <1>6, <2>2 DEF Abandoned, Raise, Crash, Lk!Busy
  <2> QED
    BY <1>6, <2>1, <2>2 DEF Abandoned, Raise, Crash
<1>7. ASSUME NEW e \in Executions,
             \/ ResolveCandidate(e) \/ ResolveConfig(e) \/ LoadInputs(e)
             \/ Execute(e) \/ Block(e) \/ RegisterContract(e) \/ Persist(e)
             \/ FailRegister(e) \/ FailPersist(e)
      PROVE  Asking'
  BY <1>7 DEF ResolveCandidate, ResolveConfig, LoadInputs, Execute, Block,
              RegisterContract, Persist, FailRegister, FailPersist
<1>8. CASE Promote \/ NewInputs \/ Tick \/ UNCHANGED vars
  BY <1>8 DEF Promote, NewInputs, Tick, Lk!Tick, vars
<1> QED
  BY <1>1, <1>2, <1>3, <1>4, <1>5, <1>6, <1>7, <1>8 DEF Next, Step

\* No execution gets past the gates with other than sound inputs.
LEMMA GatedStep ==
  ASSUME LocalTypeOK, Asking, Gated, [Next]_vars
  PROVE  Gated'
<1> USE DEF LocalTypeOK, Gated, At, GoTo, pinVars, execVars
<1>1. ASSUME NEW e \in Executions,
             ResolveCandidate(e) \/ ResolveConfig(e) \/ LoadInputs(e)
      PROVE  Gated'
  BY <1>1 DEF ResolveCandidate, ResolveConfig, LoadInputs
<1>2. ASSUME NEW e \in Executions, Execute(e) \/ Block(e)
      PROVE  Gated'
  BY <1>2 DEF Execute, Block, AfterBlocked
<1>3. ASSUME NEW e \in Executions,
             RequestLock(e) \/ MergeLock(e) \/ RequestRelease(e)
      PROVE  Gated'
  BY <1>3 DEF RequestLock, MergeLock, RequestRelease
<1>4. ASSUME NEW e \in Executions, SelectLock(e)
      PROVE  Gated'
  <2>1. pc[e] = "acquire"
    BY <1>4 DEF SelectLock, Lk!SelectLock, Asking
  <2> QED
    BY <1>4, <2>1 DEF SelectLock
<1>5. ASSUME NEW e \in Executions, RegisterContract(e) \/ FailRegister(e)
      PROVE  Gated'
  BY <1>5 DEF RegisterContract, FailRegister
<1>6. ASSUME NEW e \in Executions, Persist(e) \/ FailPersist(e)
      PROVE  Gated'
  BY <1>6 DEF Persist, FailPersist
<1>7. ASSUME NEW e \in Executions, UpdateRelease(e) \/ Raise(e) \/ Crash(e)
      PROVE  Gated'
  BY <1>7 DEF UpdateRelease, Abandoned, Raise, Crash
<1>8. CASE Promote \/ NewInputs \/ Tick \/ UNCHANGED vars
  BY <1>8 DEF Promote, NewInputs, Tick, vars
<1> QED
  BY <1>1, <1>2, <1>3, <1>4, <1>5, <1>6, <1>7, <1>8 DEF Next, Step

\* Rows never disappear: what a table holds of a run it keeps as it is.
LEMMA RowsStay ==
  ASSUME LocalTypeOK, Evidence, [Next]_vars
  PROVE  \A t \in Tables, r \in Runs :
           stored[t][r] # Absent => stored'[t][r] = stored[t][r]
<1>1. ASSUME NEW e \in Executions, pc[e] = "persist", InsertRows(e, Steps[step[e]])
      PROVE  \A t \in Tables, r \in Runs :
               stored[t][r] # Absent => stored'[t][r] = stored[t][r]
  <2>1. Steps[step[e]] \in Tables
    BY <1>1, StepsFacts DEF Evidence
  <2> QED
    BY <1>1, <2>1, InsertFacts DEF Inserted
<1> QED
  BY <1>1, StepEffect

\* Every step keeps the rows of sound inputs and the exceptions of others.
LEMMA StoredSoundStep ==
  ASSUME LocalTypeOK, Gated, Evidence, StoredSound, [Next]_vars
  PROVE  StoredSound'
<1>1. ASSUME NEW e \in Executions, pc[e] = "persist", InsertRows(e, Steps[step[e]])
      PROVE  \A t \in Tables, r \in Runs :
               stored'[t][r] \in SoundGenerations \union {Absent}
  <2>1. Steps[step[e]] \in Tables /\ gen[e] \in SoundGenerations
    BY <1>1, StepsFacts DEF Evidence, Gated
  <2> QED
    BY <1>1, <2>1, InsertFacts DEF Inserted, StoredSound
<1>2. \A t \in Tables, r \in Runs : stored'[t][r] \in SoundGenerations \union {Absent}
  BY <1>1, StepEffect DEF StoredSound
<1>3. \A x \in exceptions' : x[2] \notin SoundGenerations
  <2>1. ASSUME NEW e \in Executions, Block(e)
        PROVE  \A x \in exceptions' : x[2] \notin SoundGenerations
    BY <2>1 DEF Block, StoredSound
  <2>2. CASE UNCHANGED exceptions
    BY <2>2 DEF StoredSound
  <2>3. (\E e \in Executions : Block(e)) \/ UNCHANGED exceptions
    BY DEF Next, Step, vars, tableVars, ResolveCandidate, ResolveConfig, LoadInputs,
           Execute, RequestLock, MergeLock, SelectLock, RegisterContract, Persist,
           RequestRelease, UpdateRelease, FailRegister, FailPersist,
           Abandoned, Raise, Crash,
           Promote, NewInputs, Tick
  <2> QED
    BY <2>1, <2>2, <2>3
<1> QED
  BY <1>2, <1>3 DEF StoredSound

\* An execution that persists wrote the tables before the next one, also
\* after a step of another execution of its run.
LEMMA EvidenceStep ==
  ASSUME LocalTypeOK, Evidence, [Next]_vars
  PROVE  Evidence'
<1> USE DEF LocalTypeOK, At, GoTo, pinVars, execVars, tableVars
<1> DEFINE Kept(f) == /\ pc[f] = "persist" /\ step'[f] = step[f]
                      /\ champ'[f] = champ[f] /\ config'[f] = config[f]
<1>1. ASSUME registered => registered',
             NEW f \in Executions, pc'[f] = "persist", Kept(f)
      PROVE  /\ registered'
             /\ step'[f] \in 1 .. Len(Steps)
             /\ \A i \in 1 .. Len(Steps) :
                  i < step'[f] => stored'[Steps[i]][RunOf(f)'] # Absent
  <2>1. RunOf(f)' = RunOf(f) /\ RunOf(f) \in Runs
    BY <1>1 DEF RunOf, Runs
  <2>2. \A i \in 1 .. Len(Steps) : Steps[i] \in Tables
    BY StepsFacts
  <2> QED
    BY <1>1, <2>1, <2>2, RowsStay DEF Evidence
<1>2. ASSUME NEW e \in Executions,
             \/ ResolveCandidate(e) \/ ResolveConfig(e) \/ LoadInputs(e)
             \/ Execute(e) \/ Block(e) \/ SelectLock(e)
             \/ UpdateRelease(e) \/ FailRegister(e) \/ FailPersist(e) \/ Raise(e) \/ Crash(e)
      PROVE  Evidence'
  <2>1. registered => registered'
    BY <1>2 DEF ResolveCandidate, ResolveConfig, LoadInputs, Execute, Block,
                SelectLock, UpdateRelease, FailRegister, FailPersist, Abandoned,
                Raise, Crash
  <2>2. \A f \in Executions : pc'[f] = "persist" => Kept(f)
    BY <1>2 DEF ResolveCandidate, ResolveConfig, LoadInputs, Execute, Block,
                AfterBlocked, SelectLock, UpdateRelease, FailRegister, FailPersist,
                Abandoned, Raise, Crash
  <2> QED
    BY <1>1, <2>1, <2>2 DEF Evidence
<1>3. ASSUME NEW e \in Executions, RegisterContract(e)
      PROVE  Evidence'
  <2>1. registered' /\ step'[e] = 1
    BY <1>3 DEF RegisterContract
  <2>2. \A f \in Executions \ {e} : pc'[f] = "persist" => Kept(f)
    BY <1>3 DEF RegisterContract
  <2>3. Len(Steps) \in Nat \ {0}
    BY StepsFacts
  <2> QED
    BY <1>1, <2>1, <2>2, <2>3 DEF Evidence
<1>4. ASSUME NEW e \in Executions, Persist(e)
      PROVE  Evidence'
  <2>1. /\ registered' = registered
        /\ \A f \in Executions \ {e} : pc'[f] = "persist" => Kept(f)
    BY <1>4 DEF Persist
  <2>2. ASSUME pc'[e] = "persist"
        PROVE  /\ registered'
               /\ step'[e] \in 1 .. Len(Steps)
               /\ \A i \in 1 .. Len(Steps) :
                    i < step'[e] => stored'[Steps[i]][RunOf(e)'] # Absent
    <3>1. /\ step[e] \in 1 .. Len(Steps) /\ registered
          /\ step[e] # Len(Steps) /\ step'[e] = step[e] + 1
          /\ RunOf(e)' = RunOf(e) /\ RunOf(e) \in Runs
      BY <1>4, <2>2 DEF Persist, Evidence, RunOf, Runs
    <3>2. Len(Steps) \in Nat /\ \A i \in 1 .. Len(Steps) : Steps[i] \in Tables
      BY StepsFacts
    <3>3. stored'[Steps[step[e]]][RunOf(e)] # Absent
      <4>1. InsertRows(e, Steps[step[e]]) /\ Steps[step[e]] \in Tables
        BY <1>4, <3>1, <3>2 DEF Persist
      <4>2. stored'[Steps[step[e]]][RunOf(e)]
            = Inserted(stored[Steps[step[e]]][RunOf(e)], gen[e])
        BY <3>1, <4>1, InsertFacts
      <4> QED
        BY <4>2, AbsentAssumption DEF Inserted, Generations
    <3>4. \A i \in 1 .. Len(Steps) :
            i < step[e] => stored'[Steps[i]][RunOf(e)] # Absent
      BY <1>4, <3>1, <3>2, RowsStay DEF Persist, Evidence
    <3> QED
      BY <2>1, <3>1, <3>2, <3>3, <3>4
  <2> QED
    BY <1>1, <2>1, <2>2 DEF Evidence
<1>5. ASSUME NEW e \in Executions,
             RequestLock(e) \/ MergeLock(e) \/ RequestRelease(e)
      PROVE  Evidence'
  BY <1>5 DEF RequestLock, MergeLock, RequestRelease, Evidence, RunOf
<1>6. CASE Promote \/ NewInputs \/ Tick \/ UNCHANGED vars
  BY <1>6 DEF Promote, NewInputs, Tick, vars, Evidence, RunOf
<1> QED
  BY <1>2, <1>3, <1>4, <1>5, <1>6 DEF Next, Step

\* A draft becomes visible with the last table of its run and not before.
LEMMA VisibleStep ==
  ASSUME LocalTypeOK, Evidence, VisibleDraftComplete, [Next]_vars
  PROVE  VisibleDraftComplete'
<1>1. registered => registered'
  BY DEF LocalTypeOK, Next, Step, vars, tableVars, ResolveCandidate, ResolveConfig,
         LoadInputs, Execute, Block, RequestLock, MergeLock, SelectLock,
         RegisterContract, Persist, RequestRelease, UpdateRelease, FailRegister,
         FailPersist, Abandoned, Raise, Crash, Promote, NewInputs, Tick
<1>2. ASSUME NEW r \in Runs, Visible(r)
      PROVE  registered' /\ \A t \in Tables : stored'[t][r] # Absent
  BY <1>1, <1>2, RowsStay DEF VisibleDraftComplete
<1>3. ASSUME NEW r \in Runs, ~Visible(r), Visible(r)'
      PROVE  registered' /\ \A t \in Tables : stored'[t][r] # Absent
  <2>1. PICK e \in Executions :
          pc[e] = "persist" /\ InsertRows(e, Steps[step[e]])
    BY <1>3, StepEffect DEF Visible
  <2>2. step[e] \in 1 .. Len(Steps) /\ registered
    BY <2>1 DEF Evidence
  <2>3. Steps[step[e]] \in Tables /\ "forecast_runs" \in Tables
    BY <2>2, StepsFacts
  <2>4. Steps[step[e]] = "forecast_runs" /\ r = RunOf(e)
    BY <1>3, <2>1, <2>3, InsertFacts DEF Visible
  <2>5. step[e] = Len(Steps)
    BY <2>2, <2>4, StepsFacts
  <2>6. ASSUME NEW t \in Tables
        PROVE  stored'[t][r] # Absent
    <3>1. PICK i \in 1 .. Len(Steps) : t = Steps[i]
      BY StepsFacts
    <3>2. CASE i = step[e]
      BY <1>3, <2>4, <3>1, <3>2 DEF Visible
    <3>3. CASE i # step[e]
      <4>1. i < step[e]
        BY <2>5, <3>3, StepsFacts
      <4> QED
        BY <2>1, <2>4, <3>1, <4>1, RowsStay DEF Evidence
    <3> QED
      BY <3>2, <3>3
  <2> QED
    BY <1>1, <2>2, <2>6
<1> QED
  BY <1>2, <1>3 DEF VisibleDraftComplete, Visible

\* Every step keeps the invariant.
LEMMA IInvStep == IInv /\ [Next]_vars => IInv'
  BY LockTypes, LocalTypes, AskingStep, GatedStep, EvidenceStep, StoredSoundStep,
     VisibleStep DEF IInv

\* The invariant holds at first: nothing is written and nobody has begun.
LEMMA IInvInit == Init => IInv
<1> SUFFICES ASSUME Init PROVE IInv
  OBVIOUS
<1>1. Lk!TypeOK /\ Asking
  BY DEF Init, Lk!Init, Lk!TypeOK, Lk!Request, Lk!Phases, Lk!Row, Asking
<1>2. LocalTypeOK
  <2>1. Len(Steps) \in Nat \ {0}
    BY StepsFacts
  <2>2. 0 \in Generations /\ promotions \in 0 .. MaxPromotions /\ faults \in 0 .. MaxFaults
    BY BoundsAssumption DEF Init, Generations
  <2>3. /\ step \in [Executions -> 1 .. Len(Steps) + 1]
        /\ tries \in [Executions -> 0 .. MaxTries]
    BY <2>1, BoundsAssumption DEF Init
  <2>4. champ \in [Executions -> Candidates] /\ config \in [Executions -> Candidates]
    BY DEF Init
  <2>5. stored \in [Tables -> [Runs -> Generations \union {Absent}]]
    BY DEF Init
  <2> QED
    BY <2>2, <2>3, <2>4, <2>5 DEF Init, LocalTypeOK, Places
<1>3. Gated /\ Evidence /\ StoredSound
  BY DEF Init, Gated, Evidence, StoredSound
<1>4. VisibleDraftComplete
  BY StepsFacts DEF Init, VisibleDraftComplete, Visible
<1> QED
  BY <1>1, <1>2, <1>3, <1>4 DEF IInv

-----------------------------------------------------------------------------

\* The state of the pipeline is well typed.
THEOREM TypeCorrect == Spec => []TypeOK
<1>1. IInv => TypeOK
  BY DEF IInv, LocalTypeOK, TypeOK
<1> QED
  BY <1>1, IInvInit, IInvStep, PTL DEF Spec

\* A draft that a reader can see has all of its evidence, whatever crashes,
\* retries and concurrent executions of its run came before.
THEOREM DraftsComplete == Spec => []VisibleDraftComplete
<1>1. IInv => VisibleDraftComplete
  BY DEF IInv
<1> QED
  BY <1>1, IInvInit, IInvStep, PTL DEF Spec

\* No table holds rows made of inputs that a gate blocked.
THEOREM BlockedInvisible == Spec => []BlockedLeavesNoRows
<1>1. IInv => BlockedLeavesNoRows
  <2> SUFFICES ASSUME IInv, NEW r \in Runs, NEW g \in Generations,
                      <<r, g>> \in exceptions, NEW t \in Tables
               PROVE  stored[t][r] # g
    BY DEF BlockedLeavesNoRows
  <2>1. g \notin SoundGenerations
    BY DEF IInv, StoredSound
  <2>2. stored[t][r] \in SoundGenerations \union {Absent}
    BY DEF IInv, StoredSound
  <2> QED
    BY <2>1, <2>2, AbsentAssumption DEF Generations
<1> QED
  BY <1>1, IInvInit, IInvStep, PTL DEF Spec

-----------------------------------------------------------------------------

\* What the readers see of every run.
drafts == [r \in Runs |-> DraftOf(r)]

\* A step of the pipeline exposes one whole draft or none.
LEMMA DraftStep ==
  ASSUME IInv, IInv', [Next]_vars
  PROVE  [Atomic!Next]_drafts
<1>1. CASE \A r \in Runs : Visible(r)' = Visible(r)
  <2>1. ASSUME NEW r \in Runs
        PROVE  DraftOf(r)' = DraftOf(r)
    <3>1. CASE Visible(r)
      <4>1. \A t \in Tables : stored'[t][r] = stored[t][r]
        BY <3>1, RowsStay DEF IInv, VisibleDraftComplete
      <4>2. Visible(r)'
        BY <1>1, <3>1 DEF Visible
      <4> QED
        BY <3>1, <4>1, <4>2 DEF DraftOf
    <3>2. CASE ~Visible(r)
      BY <1>1, <3>2 DEF DraftOf
    <3> QED
      BY <3>1, <3>2
  <2> QED
    BY <2>1 DEF drafts
<1>2. ASSUME NEW r \in Runs, Visible(r)' # Visible(r)
      PROVE  Atomic!Expose(r)
  <2>1. ~Visible(r) /\ Visible(r)'
    <3>1. "forecast_runs" \in Tables
      BY StepsFacts
    <3> QED
      BY <1>2, <3>1, RowsStay DEF IInv, Visible
  <2>2. drafts[r] = Hidden
    BY <2>1 DEF drafts, DraftOf
  <2>3. DraftOf(r)' \in [Tables -> SoundGenerations]
    BY <2>1 DEF DraftOf, IInv, VisibleDraftComplete, StoredSound
  <2>4. PICK e \in Executions :
          pc[e] = "persist" /\ InsertRows(e, Steps[step[e]])
    BY <1>2, StepEffect DEF Visible
  <2>5. Steps[step[e]] \in Tables
    BY <2>4, StepsFacts DEF IInv, Evidence
  <2>6. r = RunOf(e)
    <3>1. "forecast_runs" \in Tables
      BY StepsFacts
    <3> QED
      BY <2>1, <2>4, <2>5, <3>1, InsertFacts DEF IInv, Visible
  <2>7. ASSUME NEW q \in Runs \ {r}
        PROVE  DraftOf(q)' = DraftOf(q)
    <3>1. \A t \in Tables : stored'[t][q] = stored[t][q]
      BY <2>4, <2>5, <2>6, InsertFacts DEF IInv
    <3>2. "forecast_runs" \in Tables
      BY StepsFacts
    <3> QED
      BY <3>1, <3>2 DEF DraftOf, Visible
  <2>8. drafts' = [drafts EXCEPT ![r] = DraftOf(r)']
    BY <2>7 DEF drafts
  <2> QED
    BY <2>2, <2>3, <2>8 DEF Atomic!Expose, Atomic!Drafts, drafts
<1> QED
  BY <1>1, <1>2 DEF Atomic!Next

\* The pipeline implements the atomic draft: for a reader the draft of a run
\* appears at once, complete and of sound inputs, and stays as it is.
THEOREM DraftsAtomic == Spec => ImplementsAtomicDraft
<1>1. Init => Atomic!Init
  <2> SUFFICES ASSUME Init PROVE Atomic!Init
    OBVIOUS
  <2>1. "forecast_runs" \in Tables
    BY StepsFacts
  <2> QED
    BY <2>1 DEF Init, Atomic!Init, DraftOf, Visible
<1>2. IInv /\ IInv' /\ [Next]_vars => [Atomic!Next]_drafts
  BY DraftStep
<1> QED
  BY <1>1, <1>2, IInvInit, IInvStep, PTL
     DEF Spec, ImplementsAtomicDraft, Atomic!Spec, drafts
=============================================================================
