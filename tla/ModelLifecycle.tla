--------------------------- MODULE ModelLifecycle ---------------------------
(***************************************************************************)
(* The governed lifecycle of model candidates: the weekly flow of          *)
(* orchestration/flows/model_lifecycle.py, the promote and rollback        *)
(* commands of vertex/jobs/model_lifecycle.py, the records of              *)
(* vertex/evaluation/model_lifecycle.py, and the two readers of the        *)
(* champion, vertex/evaluation/model_lifecycle_persistence.py and the dbt  *)
(* view ml_model_current_champion.                                         *)
(*                                                                         *)
(* All candidates are of one model scope.  A candidate id is a hash of the *)
(* backtest run, which fixes the data and the gates, and of the artifact;  *)
(* so whether a candidate passes its gates is a property of the candidate. *)
(* Each insert and each query is a step, and an execution may stop after   *)
(* any step.  Events carry the time at which they were built.              *)
(***************************************************************************)
EXTENDS Integers, FiniteSets

CONSTANTS
  Executions,  \* executions of the flow and of the command
  Candidates,  \* candidate ids
  Passing,     \* the candidates that pass every promotion gate
  Actions,     \* what executions do: "cycle", "promote" and "rollback"
  Reasons,     \* reasons of waivers and rollbacks
  Serial,      \* does one execution run at a time?
  MaxStarts,   \* bound on the executions that begin
  None         \* no candidate or no reason

ASSUME PassingAssumption == Passing \subseteq Candidates
ASSUME SerialAssumption == Serial \in BOOLEAN
ASSUME StartsAssumption == MaxStarts \in Nat
ASSUME NoneAssumption == None \notin Candidates \union Reasons

VARIABLES
  registered,  \* model_candidates
  checked,     \* the candidates of model_promotion_checks
  events,      \* model_lifecycle_events
  clock,       \* the time clients stamp their events with
  pc,          \* where each execution is
  action,      \* what it does
  waiver,      \* its waiver reason, or None
  replaced,    \* the champion it believes to replace, or None
  event,       \* the event that it has built
  reported,    \* the candidate that was last reported promoted or restored
  starts       \* the number of executions begun

vars == <<registered, checked, events, clock, pc, action, waiver, replaced,
          event, reported, starts>>

tables == <<registered, checked, events>>

EventTypes == {"evaluated", "promoted", "rolled_back"}
States == {"candidate", "champion", "rejected", "retired"}
Places == {"idle", "candidate", "checks", "evaluated", "promote", "champion",
           "done"}

Event == [candidate : Candidates, type : EventTypes, from : States,
          to : States, replaces : Candidates \union {None},
          reason : Reasons \union {None}, at : Nat]

TypeOK ==
  /\ registered \subseteq Candidates
  /\ checked \subseteq Candidates
  /\ events \subseteq Event
  /\ clock \in Nat
  /\ pc \in [Executions -> Places]
  /\ action \in [Executions -> Actions \union {None}]
  /\ waiver \in [Executions -> Reasons \union {None}]
  /\ replaced \in [Executions -> Candidates \union {None}]
  /\ event \in [Executions -> Event \union {None}]
  /\ reported \in Candidates \union {None}
  /\ starts \in 0 .. MaxStarts

Init ==
  /\ registered = {}
  /\ checked = {}
  /\ events = {}
  /\ clock = 0
  /\ pc = [x \in Executions |-> "idle"]
  /\ action = [x \in Executions |-> None]
  /\ waiver = [x \in Executions |-> None]
  /\ replaced = [x \in Executions |-> None]
  /\ event = [x \in Executions |-> None]
  /\ reported = None
  /\ starts = 0

-----------------------------------------------------------------------------
(* The readers of the events.                                              *)

\* Faulty variant: only promotions set the champion.
ChampionEventsPromotion ==
  {e \in events : e.type = "promoted" /\ e.candidate \in registered}

\* The events that set a champion, joined with the candidates.
ChampionEvents ==
  {e \in events :
     /\ e.type \in {"promoted", "rolled_back"}
     /\ e.to = "champion"
     /\ e.candidate \in registered}

\* resolve_champion_candidate_id: the candidate of the latest such event.
Champion ==
  IF ChampionEvents = {} THEN None
  ELSE (CHOOSE e \in ChampionEvents :
          \A f \in ChampionEvents : f.at <= e.at).candidate

\* The rows ml_model_lifecycle_current ranks for a candidate: its own events,
\* and a retirement for every champion that replaced it.
RankedEvents(c) ==
  {[at |-> e.at, priority |-> 1, state |-> e.to] :
     e \in {f \in events : f.candidate = c}}
  \union
  {[at |-> e.at, priority |-> 2, state |-> "retired"] :
     e \in {f \in events : f.replaces = c /\ f.to = "champion"}}

\* The row that ranks first: the latest, a retirement before an event.
LatestRow(c) ==
  CHOOSE r \in RankedEvents(c) :
    \A s \in RankedEvents(c) :
      s.at < r.at \/ (s.at = r.at /\ s.priority <= r.priority)

LifecycleState(c) ==
  IF RankedEvents(c) = {} THEN "candidate" ELSE LatestRow(c).state

InState(state) == {c \in registered : LifecycleState(c) = state}

\* ml_model_current_champion: of the champions, the one of the latest event.
ViewChampion ==
  IF InState("champion") = {} THEN None
  ELSE CHOOSE c \in InState("champion") :
         \A d \in InState("champion") : LatestRow(d).at <= LatestRow(c).at

-----------------------------------------------------------------------------

Goto(x, place) == pc' = [pc EXCEPT ![x] = place]

Begins(x, act) ==
  /\ pc[x] \in {"idle", "done"}
  /\ act \in Actions
  /\ Serial => \A y \in Executions : pc[y] \in {"idle", "done"}
  /\ starts < MaxStarts
  /\ starts' = starts + 1
  /\ action' = [action EXCEPT ![x] = act]

\* Building an event takes the time; no two clients take it at one instant.
Stamp == clock' = clock + 1

\* What get_hash is taken of: all of an event but its actor and its time.
Identity(e) == [e EXCEPT !.at = 0]

\* insert_rows_idempotent of an event: one that exists is left alone.
WithEvent(e) ==
  IF \E f \in events : Identity(f) = Identity(e) THEN events
  ELSE events \union {e}

\* The event of evaluate_candidate.
Evaluated(c) ==
  [candidate |-> c, type |-> "evaluated", from |-> "candidate",
   to |-> IF c \in Passing THEN "candidate" ELSE "rejected",
   replaces |-> None, reason |-> None, at |-> clock]

\* Faulty variant: the state a candidate is promoted to is not named.
PromotedUnset(c, old, why) ==
  [candidate |-> c, type |-> "promoted",
   from |-> IF c \in Passing THEN "candidate" ELSE "rejected",
   to |-> None, replaces |-> old, reason |-> why, at |-> clock]

\* build_promotion_event
Promoted(c, old, why) ==
  [candidate |-> c, type |-> "promoted",
   from |-> IF c \in Passing THEN "candidate" ELSE "rejected",
   to |-> "champion", replaces |-> old, reason |-> why, at |-> clock]

\* build_rollback_event
RolledBack(c, old, why) ==
  [candidate |-> c, type |-> "rolled_back", from |-> "retired",
   to |-> "champion", replaces |-> old, reason |-> why, at |-> clock]

Build(x, e) ==
  /\ event' = [event EXCEPT ![x] = e]
  /\ Stamp

\* The flow backtests and evaluates a candidate.
BeginCycle(x) ==
  /\ Begins(x, "cycle")
  /\ \E c \in Candidates : Build(x, Evaluated(c))
  /\ waiver' = [waiver EXCEPT ![x] = None]
  /\ replaced' = [replaced EXCEPT ![x] = None]
  /\ Goto(x, "candidate")
  /\ UNCHANGED <<tables, reported>>

\* The command evaluates a candidate.  The operator may waive the gates, and
\* types the id of the champion to replace, which nothing checks.
BeginPromote(x) ==
  /\ Begins(x, "promote")
  /\ \E c \in Candidates : Build(x, Evaluated(c))
  /\ \E why \in Reasons \union {None} : waiver' = [waiver EXCEPT ![x] = why]
  /\ \E old \in Candidates \union {None} : replaced' = [replaced EXCEPT ![x] = old]
  /\ Goto(x, "candidate")
  /\ UNCHANGED <<tables, reported>>

\* The operator types the ids of the candidate to restore and of the champion
\* to replace: neither need be retired, champion or registered at all.
BeginRollback(x) ==
  /\ Begins(x, "rollback")
  /\ \E c, old \in Candidates, why \in Reasons : Build(x, RolledBack(c, old, why))
  /\ Goto(x, "champion")
  /\ UNCHANGED <<tables, waiver, replaced, reported>>

\* persist_evaluation: the candidate, its checks and its event.
PersistCandidate(x) ==
  /\ pc[x] = "candidate"
  /\ registered' = registered \union {event[x].candidate}
  /\ Goto(x, "checks")
  /\ UNCHANGED <<checked, events, clock, action, waiver, replaced, event,
                 reported, starts>>

PersistChecks(x) ==
  /\ pc[x] = "checks"
  /\ checked' = checked \union {event[x].candidate}
  /\ Goto(x, "evaluated")
  /\ UNCHANGED <<registered, events, clock, action, waiver, replaced, event,
                 reported, starts>>

\* Faulty variant: the gates are not looked at.
MayPromoteAny(c, why) == TRUE

\* The gates, and for the command a waiver of them.
MayPromote(c, why) == c \in Passing \/ why # None

\* The flow also ends here when it is run without auto_promote.
PersistEvaluated(x) ==
  /\ pc[x] = "evaluated"
  /\ events' = WithEvent(event[x])
  /\ \/ MayPromote(event[x].candidate, waiver[x]) /\ Goto(x, "promote")
     \/ /\ action[x] = "cycle" \/ ~MayPromote(event[x].candidate, waiver[x])
        /\ Goto(x, "done")
  /\ UNCHANGED <<registered, checked, clock, action, waiver, replaced, event,
                 reported, starts>>

\* Faulty variant: the flow does not see that its candidate is the champion.
AlreadyChampionIgnored(c) == FALSE

\* The flow's test of the champion that it has resolved.
AlreadyChampion(c) == Champion = c

\* The flow resolves the champion, and promotes unless it is its candidate.
ResolveChampion(x) ==
  LET c == event[x].candidate
  IN /\ pc[x] = "promote"
     /\ action[x] = "cycle"
     /\ \/ /\ AlreadyChampion(c)
           /\ reported' = c
           /\ Goto(x, "done")
           /\ UNCHANGED <<clock, event, replaced>>
        \/ /\ ~AlreadyChampion(c)
           /\ replaced' = [replaced EXCEPT ![x] = Champion]
           /\ Build(x, Promoted(c, Champion, None))
           /\ Goto(x, "champion")
           /\ UNCHANGED reported
     /\ UNCHANGED <<tables, action, waiver, starts>>

\* The command promotes in place of the champion it was given.
BuildPromotion(x) ==
  /\ pc[x] = "promote"
  /\ action[x] = "promote"
  /\ Build(x, Promoted(event[x].candidate, replaced[x], waiver[x]))
  /\ Goto(x, "champion")
  /\ UNCHANGED <<tables, action, waiver, replaced, reported, starts>>

\* persist_lifecycle_event
PersistChampion(x) ==
  /\ pc[x] = "champion"
  /\ events' = WithEvent(event[x])
  /\ reported' = event[x].candidate
  /\ Goto(x, "done")
  /\ UNCHANGED <<registered, checked, clock, action, waiver, replaced, event,
                 starts>>

\* The execution fails or its process dies.
Stop(x) ==
  /\ pc[x] \notin {"idle", "done"}
  /\ Goto(x, "idle")
  /\ UNCHANGED <<tables, clock, action, waiver, replaced, event, reported,
                 starts>>

Next ==
  \E x \in Executions :
    \/ BeginCycle(x) \/ BeginPromote(x) \/ BeginRollback(x)
    \/ PersistCandidate(x) \/ PersistChecks(x) \/ PersistEvaluated(x)
    \/ ResolveChampion(x) \/ BuildPromotion(x) \/ PersistChampion(x)
    \/ Stop(x)

Spec == Init /\ [][Next]_vars

-----------------------------------------------------------------------------
(* Properties.                                                             *)

\* Nobody becomes champion past failed gates without a reason on record, and
\* a promoted candidate has its evidence: it is registered, with its checks
\* and its evaluation.  A rollback needs no evidence, only its reason.
ChampionHasEvidence ==
  \A e \in events :
    e.to = "champion" =>
      /\ e.candidate \in Passing \/ e.reason # None
      /\ e.type = "promoted" =>
           /\ e.candidate \in registered
           /\ e.candidate \in checked
           /\ \E f \in events : f.candidate = e.candidate /\ f.type = "evaluated"

\* What an operator has to observe: a rollback names a candidate that was
\* evaluated before, and nobody is to replace itself.
WellNamed(e) ==
  /\ e.replaces # e.candidate
  /\ e.type = "rolled_back" =>
       \E f \in events : /\ f.candidate = e.candidate
                         /\ f.type = "evaluated" /\ f.at < e.at

\* The scheduled forecasts and the dashboards agree on who is champion: the
\* query of resolve_champion_candidate_id and ml_model_current_champion.  Only
\* ids that are not well named set them at odds; that a rollback restores a
\* retired candidate, or that the one replaced is the champion, they need not.
ViewsAgree == (\A e \in events : WellNamed(e)) => ViewChampion = Champion

\* The last promotion or rollback that was reported is in effect, when the
\* operators name the candidates well.
ReportedIsChampion ==
  (\A e \in events : WellNamed(e)) /\ reported # None => Champion = reported

=============================================================================
