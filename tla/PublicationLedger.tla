------------------------- MODULE PublicationLedger -------------------------
(***************************************************************************)
(* The append-only publication tables and everything that writes them: the *)
(* operator commands of vertex/jobs/forecast_operations.py (which the API  *)
(* calls for its supersede and rollback mutations), the override, approve  *)
(* and publish mutations of vertex/api/repository.py, and the automatic    *)
(* publication flow of orchestration/flows/forecast_publication.py.        *)
(*                                                                         *)
(* Every batch of rows is inserted by one MERGE that skips the ids that    *)
(* exist, and every query selects or checks the rows of a forecast run as  *)
(* a whole; so one canonical row stands for the rows of a run.  Each query *)
(* and each MERGE is a step, and steps of different commands interleave.   *)
(* A command may stop after any step, and is then run again, if at all,    *)
(* from its first step and with the same arguments.                        *)
(***************************************************************************)
EXTENDS Integers, Sequences, FiniteSets

CONSTANTS
  Requests,   \* the arguments of each command, a record
  Sessions,   \* which commands are given in one behaviour, sets of them
  Serial,     \* the sessions in which they are given one at a time
  MaxReruns,  \* bound on the commands that are run again
  Forecast,   \* the canonical P50 of every run
  Automatic,  \* in place of an override, the automatic flow's decision
  None        \* no override, approval, publication or version

ASSUME SerialAssumption == Serial \subseteq Sessions
ASSUME RerunsAssumption == MaxReruns \in Nat
ASSUME SessionsAssumption == Sessions \subseteq SUBSET DOMAIN Requests

VARIABLES
  overrides,     \* forecast_overrides
  approvals,     \* forecast_approvals
  publications,  \* forecast_publications
  revisions,     \* forecast_revisions
  events,        \* forecast_publication_events
  statuses,      \* forecast_status_history: the runs and their statuses
  clock,         \* the time clients stamp their records with
  given,         \* the commands that are given
  pc,            \* where each command is
  chosen,        \* the override it has selected or built, or None
  approval,      \* the approval record it has built or read, or None
  publication,   \* the publication record it has built, or None
  prior,         \* the ids of the publications it replaces
  reruns         \* the number of commands run again so far

vars == <<overrides, approvals, publications, revisions, events, statuses,
          clock, given, pc, chosen, approval, publication, prior, reruns>>

tables == <<overrides, approvals, publications, revisions, events, statuses>>
locals == <<chosen, approval, publication, prior>>

Commands == DOMAIN Requests

\* Faulty variant: the time of publication is hashed into its id.
PublicationIdTimed(p) == <<p.key, p.run, p.version, p.destination, p.at>>

\* The rows that are compared by id: what get_hash is taken of.
OverrideId(o) == <<o.key, o.run, o.value>>
ApprovalId(a) == <<a.key, a.run, a.override>>
PublicationId(p) == <<p.key, p.run, p.version, p.destination>>
RevisionId(r) == <<r.key, r.prior, r.replacement>>
EventId(e) == <<e.key, e.type, e.run, e.version, e.destination>>

\* insert_rows_idempotent of one row: a row whose id exists is left alone.
InsertOnce(table, row, Id(_)) ==
  IF \E r \in table : Id(r) = Id(row) THEN table ELSE table \union {row}

Places == {"idle", "overriding", "existing", "prior", "approve", "approved",
           "publish", "published", "revise", "event", "done", "failed"}

Actions == {"override", "api_override", "approve_publish", "revise",
            "rollback", "api_approve", "api_publish", "auto"}

Keys == {Requests[c].key : c \in Commands}
ForecastRuns == {Requests[c].run : c \in Commands}
Versions == {Requests[c].version : c \in Commands}
Destinations == {Requests[c].destination : c \in Commands}
Values == {Requests[c].value : c \in Commands} \union {Forecast}

OverrideIds == Keys \X ForecastRuns \X Values
ApprovalIds == Keys \X ForecastRuns \X (OverrideIds \union {None, Automatic})
PublicationIds == Keys \X ForecastRuns \X Versions \X Destinations

\* A key is one command's, and a decision of the automatic flow, of no
\* override and of an override are told apart.
ASSUME KeysAssumption ==
  \A c, d \in Commands : Requests[c].key = Requests[d].key => c = d
ASSUME DecisionsAssumption ==
  None # Automatic /\ None \notin OverrideIds /\ Automatic \notin OverrideIds

Override == [key : Keys, run : ForecastRuns, value : Values, at : Nat]
Approval == [key : Keys, run : ForecastRuns, value : Values,
             override : OverrideIds \union {None, Automatic}]
Publication == [key : Keys, run : ForecastRuns, version : Versions,
                destination : Destinations, approval : ApprovalIds,
                value : Values, at : Nat]

TypeOK ==
  /\ overrides \subseteq Override
  /\ approvals \subseteq Approval
  /\ publications \subseteq Publication
  /\ revisions \subseteq
       [key : Keys, prior : PublicationIds, replacement : PublicationIds,
        type : {"supersede", "rollback"}]
  /\ events \subseteq
       [key : Keys, type : {"published", "revised", "rolled_back"},
        run : ForecastRuns, version : Versions, destination : Destinations]
  /\ statuses \subseteq ForecastRuns \X {"approved", "published"}
  /\ clock \in Nat
  /\ given \in Sessions
  /\ pc \in [Commands -> Places]
  /\ chosen \in [Commands -> Override \union {None}]
  /\ approval \in [Commands -> Approval \union {None}]
  /\ publication \in [Commands -> Publication \union {None}]
  /\ prior \in [Commands -> SUBSET PublicationIds]
  /\ reruns \in 0 .. MaxReruns

Init ==
  /\ overrides = {}
  /\ approvals = {}
  /\ publications = {}
  /\ revisions = {}
  /\ events = {}
  /\ statuses = {}
  /\ clock = 0
  /\ given \in Sessions
  /\ pc = [c \in Commands |-> "idle"]
  /\ chosen = [c \in Commands |-> None]
  /\ approval = [c \in Commands |-> None]
  /\ publication = [c \in Commands |-> None]
  /\ prior = [c \in Commands |-> {}]
  /\ reruns = 0

-----------------------------------------------------------------------------
(* What the queries of a command select and the records it builds.         *)

Begins(c, actions) ==
  /\ c \in given
  /\ pc[c] = "idle"
  /\ Requests[c].action \in actions
  /\ given \in Serial =>
       \A d \in Commands : pc[d] \in {"idle", "done", "failed"}

Goto(c, place) == pc' = [pc EXCEPT ![c] = place] /\ UNCHANGED given

Fail(c) == Goto(c, "failed") /\ UNCHANGED <<tables, clock, locals, reruns>>

\* The publications of the command's run at its destination.
AtDestination(c) ==
  {p \in publications :
     /\ p.run = Requests[c].run
     /\ p.destination = Requests[c].destination}

\* The publications of the command's run, whatever their destination.
AnyDestination(c) == {p \in publications : p.run = Requests[c].run}

WithVersion(rows, v) == {p \in rows : p.version = v}

\* Faulty variant: a version that is in use by another command is let by.
IncreasesAny(rows, v) == TRUE

\* The version is greater than that of every row.
Increases(rows, v) == \A p \in rows : v > p.version

\* ORDER BY overridden_at DESC, row_number = 1.
LatestOverride(run) ==
  LET ofRun == {o \in overrides : o.run = run}
  IN  IF ofRun = {} THEN None
      ELSE CHOOSE o \in ofRun : \A p \in ofRun : o.at >= p.at

\* build_approval_records: the decision on value given the selected override.
BuildApproval(c, override, value) ==
  [key |-> Requests[c].key, run |-> Requests[c].run,
   override |-> override, value |-> value]

\* Faulty variant: the value published is the forecast, not what was approved.
BuildPublicationOfForecast(c, a, destination) ==
  [key |-> Requests[c].key, run |-> Requests[c].run,
   version |-> Requests[c].version, destination |-> destination,
   approval |-> ApprovalId(a), value |-> Forecast, at |-> clock]

\* build_publication_records of one approval.
BuildPublication(c, a, destination) ==
  [key |-> Requests[c].key, run |-> Requests[c].run,
   version |-> Requests[c].version, destination |-> destination,
   approval |-> ApprovalId(a), value |-> a.value, at |-> clock]

\* The decision on the forecast as adjusted by the override o, if any.
Decision(c, o) ==
  IF o = None THEN BuildApproval(c, None, Forecast)
              ELSE BuildApproval(c, OverrideId(o), o.value)

\* Building records takes the time; no two clients take it at one instant.
Stamp == clock' = clock + 1

-----------------------------------------------------------------------------
(* Overrides.                                                              *)

\* action "override", and create_override of the API, up to the check of the
\* rows that exist: the command by override id, the API by key.
CheckOverride(c) ==
  LET r == Requests[c]
      same == {o \in overrides : o.key = r.key /\ o.run = r.run}
      retried == \E o \in same : /\ o.value = r.value
                                 /\ r.action = "api_override" => same = {o}
  IN /\ Begins(c, {"override", "api_override"})
     /\ chosen' = [chosen EXCEPT ![c] = [key |-> r.key, run |-> r.run,
                                         value |-> r.value, at |-> clock]]
     /\ Stamp
     /\ \/ retried /\ Goto(c, "done")
        \/ /\ ~retried
           /\ Goto(c, IF same # {} /\ r.action = "api_override"
                        THEN "failed" ELSE "overriding")
     /\ UNCHANGED <<tables, approval, publication, prior, reruns>>

PersistOverride(c) ==
  /\ pc[c] = "overriding"
  /\ overrides' = InsertOnce(overrides, chosen[c], OverrideId)
  /\ Goto(c, "done")
  /\ UNCHANGED <<approvals, publications, revisions, events, statuses, clock,
                 locals, reruns>>

-----------------------------------------------------------------------------
(* approve-publish and revise.                                             *)

\* The latest override of the run is selected.
ReadOverrides(c) ==
  /\ Begins(c, {"approve_publish", "revise", "api_approve"})
  /\ chosen' = [chosen EXCEPT ![c] = LatestOverride(Requests[c].run)]
  /\ Goto(c, "existing")
  /\ UNCHANGED <<tables, clock, approval, publication, prior, reruns>>

\* The existing versions are read: a version of another key or one that does
\* not increase is refused, one of this key is a retry that only repeats the
\* event, and for any other the records are built.
CheckExisting(c) ==
  LET r == Requests[c]
      same == WithVersion(AtDestination(c), r.version)
      a == Decision(c, chosen[c])
  IN /\ pc[c] = "existing"
     /\ r.action \in {"approve_publish", "revise"}
     /\ \/ /\ {p.key : p \in same} \notin {{}, {r.key}}
           /\ Fail(c)
        \/ /\ {p.key : p \in same} = {r.key}
           /\ Goto(c, "event")
           /\ UNCHANGED <<tables, clock, locals, reruns>>
        \/ /\ same = {}
           /\ ~Increases(AtDestination(c), r.version)
           /\ Fail(c)
        \/ /\ same = {}
           /\ Increases(AtDestination(c), r.version)
           /\ approval' = [approval EXCEPT ![c] = a]
           /\ publication' = [publication EXCEPT
                                ![c] = BuildPublication(c, a, r.destination)]
           /\ Stamp
           /\ Goto(c, IF r.action = "revise" THEN "prior" ELSE "approve")
           /\ UNCHANGED <<tables, chosen, prior, reruns>>

\* revise reads the publications it replaces.
ReadPrior(c) ==
  LET r == Requests[c]
      replaced == WithVersion(AtDestination(c), r.prior)
  IN /\ pc[c] = "prior"
     /\ r.action = "revise"
     /\ \/ replaced = {} /\ Fail(c)
        \/ /\ replaced # {}
           /\ prior' = [prior EXCEPT
                          ![c] = {PublicationId(p) : p \in replaced}]
           /\ Goto(c, "approve")
           /\ UNCHANGED <<tables, clock, chosen, approval, publication, reruns>>

-----------------------------------------------------------------------------
(* rollback.                                                               *)

\* The versions of the run at every destination are read.
CheckRollback(c) ==
  LET r == Requests[c]
      same == WithVersion(AnyDestination(c), r.version)
  IN /\ Begins(c, {"rollback"})
     /\ \/ /\ {p.key : p \in same} \notin {{}, {r.key}}
           /\ Fail(c)
        \/ /\ {p.key : p \in same} = {r.key}
           /\ Goto(c, IF Cardinality(same) = 1 THEN "event" ELSE "failed")
           /\ UNCHANGED <<tables, clock, locals, reruns>>
        \/ /\ same = {}
           /\ Goto(c, IF Increases(AnyDestination(c), r.version)
                        THEN "prior" ELSE "failed")
           /\ UNCHANGED <<tables, clock, locals, reruns>>

\* Faulty variant: the rollback is published where the command says.
RollbackToArgument(c, p) ==
  BuildPublication(c, BuildApproval(c, None, p.value), Requests[c].destination)

\* build_rollback_records: the value of p again, at the destination of p.
RollbackRecord(c, p) ==
  BuildPublication(c, BuildApproval(c, None, p.value), p.destination)

\* The version to restore must be complete and lower than the new one.
ReadRollbackSource(c) ==
  LET r == Requests[c]
      source == WithVersion(AnyDestination(c), r.prior)
  IN /\ pc[c] = "prior"
     /\ r.action = "rollback"
     /\ \/ (Cardinality(source) # 1 \/ r.version <= r.prior) /\ Fail(c)
        \/ /\ r.version > r.prior
           /\ \E p \in source :
                /\ source = {p}
                /\ approval' = [approval EXCEPT
                                  ![c] = BuildApproval(c, None, p.value)]
                /\ publication' = [publication EXCEPT
                                     ![c] = RollbackRecord(c, p)]
                /\ prior' = [prior EXCEPT ![c] = {PublicationId(p)}]
           /\ Stamp
           /\ Goto(c, "approve")
           /\ UNCHANGED <<tables, chosen, reruns>>

-----------------------------------------------------------------------------
(* The approve and publish mutations of the API.                           *)

\* approve_run, the decisions under its key read: a retry returns.
CheckApprovals(c) ==
  LET r == Requests[c]
      same == {a \in approvals : a.key = r.key /\ a.run = r.run}
  IN /\ pc[c] = "existing"
     /\ r.action = "api_approve"
     /\ \/ /\ same # {}
           /\ Goto(c, IF Cardinality(same) = 1 THEN "done" ELSE "failed")
           /\ UNCHANGED <<tables, clock, locals, reruns>>
        \/ /\ same = {}
           /\ approval' = [approval EXCEPT ![c] = Decision(c, chosen[c])]
           /\ Goto(c, "approve")
           /\ UNCHANGED <<tables, clock, chosen, publication, prior, reruns>>

\* publish_run: exactly one decision under the approval's key is required.
ReadApprovals(c) ==
  LET r == Requests[c]
      decisions == {a \in approvals : a.key = r.approval /\ a.run = r.run}
  IN /\ Begins(c, {"api_publish"})
     /\ \/ Cardinality(decisions) # 1 /\ Fail(c)
        \/ \E a \in decisions :
             /\ decisions = {a}
             /\ approval' = [approval EXCEPT ![c] = a]
             /\ publication' = [publication EXCEPT
                                  ![c] = BuildPublication(c, a, r.destination)]
             /\ Stamp
             /\ Goto(c, "existing")
             /\ UNCHANGED <<tables, chosen, prior, reruns>>

\* publish_run, the existing versions read.
CheckPublish(c) ==
  LET r == Requests[c]
      same == WithVersion(AtDestination(c), r.version)
      mine == {p \in same : /\ PublicationId(p) = PublicationId(publication[c])
                            /\ p.approval = publication[c].approval}
  IN /\ pc[c] = "existing"
     /\ r.action = "api_publish"
     /\ \/ same # {} /\ same # mine /\ Fail(c)
        \/ /\ same # {} /\ same = mine
           /\ Goto(c, "event")
           /\ UNCHANGED <<tables, clock, locals, reruns>>
        \/ /\ same = {}
           /\ Goto(c, IF Increases(AtDestination(c), r.version)
                        THEN "publish" ELSE "failed")
           /\ UNCHANGED <<tables, clock, locals, reruns>>

-----------------------------------------------------------------------------
(* The automatic publication flow.                                         *)

\* The flow reads no version that exists and publishes the forecast.
BuildAutomatic(c) ==
  LET a == BuildApproval(c, Automatic, Forecast)
  IN /\ Begins(c, {"auto"})
     /\ approval' = [approval EXCEPT ![c] = a]
     /\ publication' = [publication EXCEPT
                          ![c] = BuildPublication(c, a, Requests[c].destination)]
     /\ Stamp
     /\ Goto(c, "approve")
     /\ UNCHANGED <<tables, chosen, prior, reruns>>

\* The status events of an automatic publication.
PersistStatus(c) ==
  /\ pc[c] \in {"approved", "published"}
  /\ statuses' = statuses \union {<<Requests[c].run, pc[c]>>}
  /\ Goto(c, IF pc[c] = "approved" THEN "publish" ELSE "done")
  /\ UNCHANGED <<overrides, approvals, publications, revisions, events, clock,
                 locals, reruns>>

-----------------------------------------------------------------------------
(* persist_operation_records, persist_publication_records and the event.   *)

\* What a command does once its approvals are inserted.
AfterApproval(action) ==
  CASE action = "api_approve" -> "done"
    [] action = "auto" -> "approved"
    [] OTHER -> "publish"

PersistApproval(c) ==
  /\ pc[c] = "approve"
  /\ approvals' = InsertOnce(approvals, approval[c], ApprovalId)
  /\ Goto(c, AfterApproval(Requests[c].action))
  /\ UNCHANGED <<overrides, publications, revisions, events, statuses, clock,
                 locals, reruns>>

\* Faulty variant: only revisions and rollbacks emit an event.
AfterPublicationSilent(action) ==
  CASE action = "auto" -> "published"
    [] action \in {"revise", "rollback"} -> "revise"
    [] OTHER -> "done"

\* What a command does once its publications are inserted.
AfterPublication(action) ==
  CASE action = "auto" -> "published"
    [] action \in {"revise", "rollback"} -> "revise"
    [] OTHER -> "event"

PersistPublication(c) ==
  /\ pc[c] = "publish"
  /\ publications' = InsertOnce(publications, publication[c], PublicationId)
  /\ Goto(c, AfterPublication(Requests[c].action))
  /\ UNCHANGED <<overrides, approvals, revisions, events, statuses, clock,
                 locals, reruns>>

\* The lineage rows of a revision or a rollback, inserted as one batch.
Lineage(c) ==
  {[key |-> Requests[c].key, prior |-> p,
    replacement |-> PublicationId(publication[c]),
    type |-> IF Requests[c].action = "revise" THEN "supersede" ELSE "rollback"]
     : p \in prior[c]}

PersistRevision(c) ==
  /\ pc[c] = "revise"
  /\ revisions' = revisions \union
       {r \in Lineage(c) : \A s \in revisions : RevisionId(s) # RevisionId(r)}
  /\ Goto(c, "event")
  /\ UNCHANGED <<overrides, approvals, publications, events, statuses, clock,
                 locals, reruns>>

\* Faulty variant: the event's type is the command's action.
EventOfAction(c) ==
  LET r == Requests[c]
  IN [key |-> r.key, run |-> r.run, version |-> r.version,
      destination |-> r.destination, type |-> r.action]

\* _emit_publication_event: of the command's destination, whatever that of
\* the publication.
Event(c) ==
  LET r == Requests[c]
  IN [key |-> r.key, run |-> r.run, version |-> r.version,
      destination |-> r.destination,
      type |-> CASE r.action = "revise" -> "revised"
                 [] r.action = "rollback" -> "rolled_back"
                 [] OTHER -> "published"]

EmitEvent(c) ==
  /\ pc[c] = "event"
  /\ events' = InsertOnce(events, Event(c), EventId)
  /\ Goto(c, "done")
  /\ UNCHANGED <<overrides, approvals, publications, revisions, statuses,
                 clock, locals, reruns>>

-----------------------------------------------------------------------------

\* The command is given again, after an answer or in place of one.
Rerun(c) ==
  /\ pc[c] # "idle"
  /\ reruns < MaxReruns
  /\ reruns' = reruns + 1
  /\ Goto(c, "idle")
  /\ chosen' = [chosen EXCEPT ![c] = None]
  /\ approval' = [approval EXCEPT ![c] = None]
  /\ publication' = [publication EXCEPT ![c] = None]
  /\ prior' = [prior EXCEPT ![c] = {}]
  /\ UNCHANGED <<tables, clock>>

Read(c) ==
  \/ CheckOverride(c) \/ ReadOverrides(c) \/ CheckExisting(c) \/ ReadPrior(c)
  \/ CheckRollback(c) \/ ReadRollbackSource(c)
  \/ CheckApprovals(c) \/ ReadApprovals(c) \/ CheckPublish(c)
  \/ BuildAutomatic(c)

Persist(c) ==
  \/ PersistOverride(c) \/ PersistApproval(c) \/ PersistStatus(c)
  \/ PersistPublication(c) \/ PersistRevision(c) \/ EmitEvent(c)

Next == \E c \in Commands : Read(c) \/ Persist(c) \/ Rerun(c)

Spec == Init /\ [][Next]_vars

-----------------------------------------------------------------------------
(* Properties.                                                             *)

\* What is published is what was approved: the approval a publication names
\* is in forecast_approvals and decided on the value that is published,
\* however the commands interleave, stop and are run again.
ApprovalBacksPublication ==
  \A p \in publications :
    \E a \in approvals : ApprovalId(a) = p.approval /\ a.value = p.value

\* A row of forecast_revisions links two publications of one run and
\* destination to a later version, and a rollback restores the value.
LineageHolds ==
  \A r \in revisions :
    \E old, new \in publications :
      /\ PublicationId(old) = r.prior
      /\ PublicationId(new) = r.replacement
      /\ old.run = new.run
      /\ old.destination = new.destination
      /\ old.version < new.version
      /\ r.type = "rollback" => old.value = new.value

\* The publications a command's key, run and version name.
PublishedBy(c) ==
  {p \in publications :
     /\ p.key = Requests[c].key
     /\ p.run = Requests[c].run
     /\ p.version = Requests[c].version}

\* A command that publishes and has returned has left its publication and
\* an event that announces it, even when it had stopped half way before.
CompletedIsAnnounced ==
  \A c \in Commands :
    /\ pc[c] = "done"
    /\ Requests[c].action \in
         {"approve_publish", "revise", "rollback", "api_publish"}
    => PublishedBy(c) # {} /\ Event(c) \in events

\* An event names a version that is published at the event's destination.
EventNamesPublication ==
  \A e \in events :
    \E p \in publications :
      /\ p.run = e.run
      /\ p.version = e.version
      /\ p.destination = e.destination

\* A version of a run at a destination is the publication of one command.
OneCommandPerVersion ==
  \A p, q \in publications :
    /\ p.run = q.run
    /\ p.version = q.version
    /\ p.destination = q.destination
    => p.key = q.key

\* published_forecasts_current: at a destination the latest publication, of
\* whatever run of the origin.
Shown(d) ==
  {p \in publications :
     /\ p.destination = d
     /\ \A q \in publications : q.destination = d => q.at <= p.at}

\* A command that has published and is given again changes nothing of what
\* published_forecasts_current shows: the view ranks by the publication time
\* across runs, so a version inserted again under a new time would come back
\* over the later versions, and over the other runs, published meanwhile.
RetriesKeepCurrent ==
  [][\A c \in Commands, d \in Destinations :
       pc'[c] # pc[c] /\ PublishedBy(c) # {} => Shown(d)' = Shown(d)]_vars

\* A revision that has returned has left its supersede lineage.
RevisionHasLineage ==
  \A c \in Commands :
    pc[c] = "done" /\ Requests[c].action = "revise"
    => \E r \in revisions : r.key = Requests[c].key /\ r.type = "supersede"

\* A command decides on each canonical row once.
OneDecisionPerCommand ==
  \A a, b \in approvals : a.key = b.key /\ a.run = b.run => a = b

\* Refinement: the versions of a run at a destination are a chain that grows
\* by one higher version at a time and is never rewritten, when commands are
\* given one at a time.
Scopes == ForecastRuns \X Destinations
Release(p) == [version |-> p.version, value |-> p.value, key |-> p.key]
chains ==
  [s \in Scopes |-> {Release(p) : p \in {q \in publications :
                       given \in Serial /\ <<q.run, q.destination>> = s}}]

Chain == INSTANCE VersionChain WITH Scopes <- Scopes, chain <- chains

ImplementsVersionChain == Chain!Spec

=============================================================================
