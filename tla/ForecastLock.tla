---------------------------- MODULE ForecastLock ----------------------------
(***************************************************************************)
(* The warehouse lease of vertex/evaluation/forecast_pipeline_lock.py: one *)
(* row of forecast_pipeline_locks, the row of one contract and forecast    *)
(* origin, that executions of the scheduled pipeline acquire before they   *)
(* persist a draft and release afterwards.                                 *)
(*                                                                         *)
(* The owner written to the row is the forecast run id, a hash of the      *)
(* run's pins, and not the identity of the execution: two executions of    *)
(* one logical run share the lease.  Every statement carries the time its  *)
(* client read before it sent the statement, which may be stale when the   *)
(* warehouse executes it, so reading the clock and executing are separate  *)
(* steps; so are the MERGE and the SELECT of one acquisition, which no     *)
(* transaction encloses.                                                   *)
(***************************************************************************)
EXTENDS Integers

CONSTANTS
  Executions,   \* executions of the pipeline: scheduled, manual or retried
  Owners,       \* forecast run ids, the owner_id of a lease
  Lease,        \* lease_seconds
  Overlap,      \* may two executions of one logical run overlap?
  NoRow,        \* the lock table holds no row for the scope
  MaxClock      \* bound on the clock

ASSUME LeaseAssumption == Lease \in Nat \ {0}
ASSUME OverlapAssumption == Overlap \in BOOLEAN
ASSUME ClockAssumption == MaxClock \in Nat
ASSUME NoRowAssumption == NoRow \notin [owner : Owners, expires : Int]

VARIABLES
  lock,    \* the row: owner_id and expires_at
  clock,   \* the time every client reads
  req      \* what each execution is doing with the lock

lockVars == <<lock, clock, req>>

Row == [owner : Owners, expires : Int]

\* idle -> merge -> select -> held -> release -> idle
Phases == {"idle", "merge", "select", "held", "release"}

\* owner is the owner_id of the request, now its @now and until its @expires.
Request == [phase : Phases, owner : Owners, now : Int, until : Int]

TypeOK ==
  /\ lock \in Row \union {NoRow}
  /\ clock \in Nat
  /\ req \in [Executions -> Request]

-----------------------------------------------------------------------------

Init ==
  /\ lock = NoRow
  /\ clock = 0
  /\ \E o \in Owners :
       req = [e \in Executions |->
                [phase |-> "idle", owner |-> o, now |-> 0, until |-> 0]]

Busy(e) == req[e].phase # "idle"

\* Faulty variant: the check that owner_id is not empty is missing.
LockRequestUnowned(o) ==
  [phase |-> "merge", owner |-> NoRow, now |-> clock, until |-> clock + Lease]

\* The parameters of the acquisition: @owner_id, @now and @expires.
LockRequest(o) ==
  [phase |-> "merge", owner |-> o, now |-> clock, until |-> clock + Lease]

\* acquire_forecast_lock up to the query: the client reads its clock.
RequestLock(e, o) ==
  /\ req[e].phase = "idle"
  /\ Overlap \/ \A f \in Executions \ {e} : Busy(f) => req[f].owner # o
  /\ req' = [req EXCEPT ![e] = LockRequest(o)]
  /\ UNCHANGED <<lock, clock>>

\* Faulty variant: AND in place of OR, with the owner test turned around.
MayTakeForeign(row, r) == row.expires < r.now /\ row.owner # r.owner

\* Faulty variant: a lease may be taken over in its last instant.
MayTakeEarly(row, r) == row.expires <= r.now \/ row.owner = r.owner

\* The condition of WHEN MATCHED: the row may be taken over or renewed.
MayTake(row, r) == row.expires < r.now \/ row.owner = r.owner

\* The MERGE: insert the row, take it over or renew it, or leave it alone.
MergeLock(e) ==
  LET r == req[e] IN
  /\ r.phase = "merge"
  /\ lock' = IF lock = NoRow \/ MayTake(lock, r)
               THEN [owner |-> r.owner, expires |-> r.until]
               ELSE lock
  /\ req' = [req EXCEPT ![e].phase = "select"]
  /\ UNCHANGED clock

\* The SELECT of the same script: owner_id = @owner_id AND expires_at >= @now.
Acquired(row, r) == row # NoRow /\ row.owner = r.owner /\ row.expires >= r.now

SelectLock(e) ==
  /\ req[e].phase = "select"
  /\ req' = [req EXCEPT ![e].phase =
               IF Acquired(lock, req[e]) THEN "held" ELSE "idle"]
  /\ UNCHANGED <<lock, clock>>

\* The parameters of the release: @owner_id and @now.
ReleaseRequest(r) ==
  [phase |-> "release", owner |-> r.owner, now |-> clock, until |-> r.until]

\* release_forecast_lock up to the query: the client reads its clock.
RequestRelease(e) ==
  /\ req[e].phase = "held"
  /\ req' = [req EXCEPT ![e] = ReleaseRequest(@)]
  /\ UNCHANGED <<lock, clock>>

\* Faulty variant: the UPDATE forgets AND owner_id = @owner_id.
ReleasedRowOfAnyone(row, r) == [row EXCEPT !.expires = r.now]

\* The row after the UPDATE, which matches it by owner_id only.
ReleasedRow(row, r) ==
  IF row # NoRow /\ row.owner = r.owner
    THEN [row EXCEPT !.expires = r.now]
    ELSE row

UpdateRelease(e) ==
  /\ req[e].phase = "release"
  /\ lock' = ReleasedRow(lock, req[e])
  /\ req' = [req EXCEPT ![e].phase = "idle"]
  /\ UNCHANGED clock

\* The process of the execution dies, or its client call raises, before or
\* after the statement took effect: nothing is released, the row stays as it
\* is.  A statement that took no effect by then is taken never to do so.
Die(e) ==
  /\ Busy(e)
  /\ req' = [req EXCEPT ![e].phase = "idle"]
  /\ UNCHANGED <<lock, clock>>

Tick ==
  /\ clock < MaxClock
  /\ clock' = clock + 1
  /\ UNCHANGED <<lock, req>>

Next ==
  \/ \E e \in Executions :
       \/ \E o \in Owners : RequestLock(e, o)
       \/ MergeLock(e)
       \/ SelectLock(e)
       \/ RequestRelease(e)
       \/ UpdateRelease(e)
       \/ Die(e)
  \/ Tick

Spec == Init /\ [][Next]_lockVars

-----------------------------------------------------------------------------

\* An execution that was told it holds the lock and has not released it.
Holding(e) == req[e].phase \in {"held", "release"}

\* Its MERGE has been executed.
Merged(e) == req[e].phase \in {"select", "held", "release"}

\* It holds the lock and the lease it was granted has not run out.
Live(e) == Holding(e) /\ clock <= req[e].until

\* A live lease is exclusive: while the lease of an execution has not run
\* out, no execution of another logical run holds a live lease on the scope.
\* It relies on executions of one logical run not overlapping, because the
\* UPDATE of release_forecast_lock ends the lease of all of them.
LeaseExclusion ==
  \A e, f \in Executions :
    Live(e) /\ Live(f) => req[e].owner = req[f].owner

\* What a granted lease means, the argument behind LeaseExclusion: from its
\* MERGE on, an execution that finds its own owner_id in the row finds the
\* expiry it asked for; an execution that holds the lock and no longer finds
\* its owner_id there lost it after its lease ran out; and no statement
\* carries a time that is still to come.
GrantInRow ==
  \A e \in Executions :
    /\ req[e].now <= clock
    /\ Merged(e) => lock # NoRow
    /\ Merged(e) /\ lock.owner = req[e].owner => lock.expires = req[e].until
    /\ Holding(e) /\ lock.owner # req[e].owner => req[e].until < clock

\* The scope admits one active logical run at a time, whatever the time it
\* takes.  This is what the specification of the pipeline promises; the code
\* never renews a lease while a run persists.
OneActiveRun ==
  \A e, f \in Executions :
    Holding(e) /\ Holding(f) => req[e].owner = req[f].owner
=============================================================================
