------------------------- MODULE ForecastLockProofs -------------------------
(***************************************************************************)
(* Proofs about the lease of ForecastLock, for every set of executions and *)
(* of run ids, every lease and every bound on the clock.                   *)
(*                                                                         *)
(* A live lease is exclusive when executions of one logical run do not     *)
(* overlap (Overlap = FALSE).  The invariant IInv behind it adds to the    *)
(* types what a granted lease says of the row (GrantInRow) and that busy   *)
(* executions have different owner ids.                                    *)
(***************************************************************************)
EXTENDS ForecastLock, TLAPS

\* Executions of one logical run do not overlap.
Serial ==
  \A e, f \in Executions :
    e # f /\ Busy(e) /\ Busy(f) => req[e].owner # req[f].owner

IInv == TypeOK /\ GrantInRow /\ Serial

\* One step of the lock keeps the types.
LEMMA TypeStep == TypeOK /\ [Next]_lockVars => TypeOK'
<1> SUFFICES ASSUME TypeOK, [Next]_lockVars
             PROVE  TypeOK'
  OBVIOUS
<1> USE LeaseAssumption DEF TypeOK, Request, Phases, Row
<1>1. ASSUME NEW e \in Executions, NEW o \in Owners, RequestLock(e, o)
      PROVE  TypeOK'
  BY <1>1 DEF RequestLock, LockRequest
<1>2. ASSUME NEW e \in Executions, MergeLock(e)
      PROVE  TypeOK'
  BY <1>2 DEF MergeLock
<1>3. ASSUME NEW e \in Executions, SelectLock(e)
      PROVE  TypeOK'
  BY <1>3 DEF SelectLock
<1>4. ASSUME NEW e \in Executions, RequestRelease(e)
      PROVE  TypeOK'
  BY <1>4 DEF RequestRelease, ReleaseRequest
<1>5. ASSUME NEW e \in Executions, UpdateRelease(e)
      PROVE  TypeOK'
  BY <1>5 DEF UpdateRelease, ReleasedRow
<1>6. ASSUME NEW e \in Executions, Die(e)
      PROVE  TypeOK'
  BY <1>6 DEF Die
<1>7. CASE Tick
  BY <1>7 DEF Tick
<1>8. CASE UNCHANGED lockVars
  BY <1>8 DEF lockVars
<1> QED
  BY <1>1, <1>2, <1>3, <1>4, <1>5, <1>6, <1>7, <1>8 DEF Next

\* The state of the lock and of the requests is well typed, whatever the
\* interleaving of acquisitions, releases and dead clients.
THEOREM TypeCorrect == Spec => []TypeOK
<1>1. Init => TypeOK
  BY DEF Init, TypeOK, Request, Phases, Row
<1> QED
  BY <1>1, TypeStep, PTL DEF Spec

\* The invariant holds at first: the lock table has no row and nobody asks.
LEMMA LockInit == Init => IInv
  BY DEF Init, IInv, TypeOK, Request, Phases, Row, GrantInRow, Serial, Busy,
         Merged, Holding

\* One step of the lock keeps what a granted lease says of the row.
LEMMA LockStep ==
  ASSUME ~Overlap, TypeOK, TypeOK', GrantInRow, Serial, [Next]_lockVars
  PROVE  GrantInRow' /\ Serial'
<1> USE NoRowAssumption, LeaseAssumption DEF TypeOK, Request, Phases, Row
<1> USE DEF GrantInRow, Serial, Busy, Merged, Holding
<1>1. ASSUME NEW e \in Executions, NEW o \in Owners, RequestLock(e, o)
      PROVE  GrantInRow' /\ Serial'
  BY <1>1 DEF RequestLock, LockRequest
<1>2. ASSUME NEW e \in Executions, MergeLock(e)
      PROVE  GrantInRow' /\ Serial'
  BY <1>2 DEF MergeLock, MayTake
<1>3. ASSUME NEW e \in Executions, SelectLock(e)
      PROVE  GrantInRow' /\ Serial'
  BY <1>3 DEF SelectLock, Acquired
<1>4. ASSUME NEW e \in Executions, RequestRelease(e)
      PROVE  GrantInRow' /\ Serial'
  BY <1>4 DEF RequestRelease, ReleaseRequest
<1>5. ASSUME NEW e \in Executions, UpdateRelease(e)
      PROVE  GrantInRow' /\ Serial'
  BY <1>5 DEF UpdateRelease, ReleasedRow
<1>6. ASSUME NEW e \in Executions, Die(e)
      PROVE  GrantInRow' /\ Serial'
  BY <1>6 DEF Die
<1>7. CASE Tick
  BY <1>7 DEF Tick
<1>8. CASE UNCHANGED lockVars
  BY <1>8 DEF lockVars
<1> QED
  BY <1>1, <1>2, <1>3, <1>4, <1>5, <1>6, <1>7, <1>8 DEF Next

\* While executions of one logical run do not overlap, a granted lease is the
\* row's until it has run out: nobody shortens, extends or takes it.
THEOREM GrantCorrect ==
  ASSUME ~Overlap
  PROVE  Spec => []GrantInRow
<1>1. IInv /\ TypeOK' /\ [Next]_lockVars => IInv'
  BY LockStep DEF IInv
<1>2. IInv => GrantInRow
  BY DEF IInv
<1> QED
  BY <1>1, <1>2, LockInit, TypeCorrect, PTL DEF Spec

\* While executions of one logical run do not overlap, the lease of an
\* execution that has not run out excludes every other logical run.
THEOREM LeaseIsExclusive ==
  ASSUME ~Overlap
  PROVE  Spec => []LeaseExclusion
<1>1. TypeOK /\ GrantInRow => LeaseExclusion
  BY NoRowAssumption
     DEF TypeOK, Request, Row, GrantInRow, LeaseExclusion, Live, Holding, Merged
<1> QED
  BY <1>1, TypeCorrect, GrantCorrect, PTL
=============================================================================
