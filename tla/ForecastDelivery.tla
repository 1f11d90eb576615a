-------------------------- MODULE ForecastDelivery --------------------------
(***************************************************************************)
(* forecast_delivery_events of one run, version and destination, and what  *)
(* appends to it: the operator command of vertex/jobs/forecast_delivery.py *)
(* and the webhook delivery of vertex/api/repository.py, which the API     *)
(* attempts whenever a publish mutation succeeds or is retried.            *)
(*                                                                         *)
(* The current state of a delivery is its latest event, by the time the    *)
(* client built it, in seconds, and then by event id, a digest.  Each      *)
(* query, each insert and the call of the webhook is a step.  A command or *)
(* a request may stop after any step and be given again from the start.    *)
(*                                                                         *)
(* The publication exists and is complete: rows of forecast_publications   *)
(* are never removed, so the check that opens the command then passes.     *)
(***************************************************************************)
EXTENDS Integers, Sequences

CONSTANTS
  Commands,    \* operator commands and API requests
  ActionOf,    \* the action of each
  KeyOf,       \* the idempotency key of each operator command
  Sessions,    \* which commands are given in one behaviour, sets of them
  Serial,      \* the sessions in which one command is given at a time
  SameSecond,  \* those in which two events may be built within one second
  MaxReruns,   \* bound on the commands given again in each
  Digests,     \* event ids, digests that are compared within a second
  None         \* no event

ASSUME SerialAssumption == Serial \subseteq Sessions
ASSUME SameSecondAssumption == SameSecond \subseteq Sessions
ASSUME RerunsAssumption == MaxReruns \in [Sessions -> Nat]
ASSUME DigestsAssumption == Digests \subseteq Int /\ Digests # {}
ASSUME SessionsAssumption == Sessions \subseteq SUBSET Commands
ASSUME ActionAssumption ==
  ActionOf \in [Commands -> {"start", "retry", "confirm", "fail", "abandon",
                             "webhook"}]

Statuses == {"pending", "delivered", "failed", "abandoned"}
Terminal == {"delivered", "abandoned"}

ASSUME NoneAssumption == None \notin Statuses

\* An operator's key is none that is derived for the webhook.
ASSUME OperatorKeysAssumption == \A c \in Commands : KeyOf[c] # "webhook"

VARIABLES
  log,       \* the rows of forecast_delivery_events as they are inserted
  clock,     \* the time in seconds
  accepted,  \* has the consumer accepted a post?
  given,     \* the commands that are given
  pc,        \* where each command is
  read,      \* the status and attempt that it read
  event,     \* the event that it has built
  reruns     \* the number of commands given again so far

vars == <<log, clock, accepted, given, pc, read, event, reruns>>

\* What a query for the latest event returns: no event counts as attempt 0.
State == [status : Statuses \union {None}, attempt : Nat]
NoEvent == [status |-> None, attempt |-> 0]

Places == {"idle", "key", "append", "post", "done", "failed"}

\* The webhook's keys are derived from the event and attempt, as its status.
Keys == {KeyOf[c] : c \in Commands} \union {"webhook"}

Event == [status : Statuses, attempt : Nat, key : Keys, at : Nat]
Row == [status : Statuses, attempt : Nat, key : Keys, at : Nat, id : Digests]

TypeOK ==
  /\ log \in Seq(Row)
  /\ clock \in Nat
  /\ accepted \in BOOLEAN
  /\ given \in Sessions
  /\ pc \in [Commands -> Places]
  /\ read \in [Commands -> State]
  /\ event \in [Commands -> Event \union {None}]
  /\ reruns \in 0 .. MaxReruns[given]

Init ==
  /\ log = <<>>
  /\ clock = 0
  /\ accepted = FALSE
  /\ given \in Sessions
  /\ pc = [c \in Commands |-> "idle"]
  /\ read = [c \in Commands |-> NoEvent]
  /\ event = [c \in Commands |-> None]
  /\ reruns = 0

-----------------------------------------------------------------------------

\* ORDER BY occurred_at DESC, delivery_event_id DESC
IsLatest(i) ==
  \A j \in DOMAIN log :
    \/ log[j].at < log[i].at
    \/ log[j].at = log[i].at /\ log[j].id <= log[i].id

StateAt(i) == [status |-> log[i].status, attempt |-> log[i].attempt]

\* Faulty variant: no event counts as no attempt rather than attempt 0.
CurrentUnset ==
  IF log = <<>> THEN {[status |-> None, attempt |-> None]}
  ELSE {StateAt(i) : i \in {j \in DOMAIN log : IsLatest(j)}}

\* prior_status and prior_attempt, a singleton.
Current ==
  IF log = <<>> THEN {NoEvent}
  ELSE {StateAt(i) : i \in {j \in DOMAIN log : IsLatest(j)}}

\* Faulty variant: an event may follow any event but a delivered one.
AllowedAfterAbandon(status) ==
  CASE status = None -> {"pending"}
    [] status = "delivered" -> {}
    [] OTHER -> Statuses

\* ALLOWED_DELIVERY_TRANSITIONS
Allowed(status) ==
  CASE status = None -> {"pending"}
    [] status = "pending" -> {"delivered", "failed", "abandoned"}
    [] status = "failed" -> {"pending", "abandoned"}
    [] status \in Terminal -> {}

\* The status an operator command appends.
StatusOf(action) ==
  CASE action \in {"start", "retry"} -> "pending"
    [] action = "confirm" -> "delivered"
    [] action = "fail" -> "failed"
    [] action = "abandon" -> "abandoned"

\* Faulty variant: a failure begins the next attempt.
NextAttemptAtFailure(state, status) ==
  IF status \in {"pending", "failed"} THEN state.attempt + 1 ELSE state.attempt

\* The attempt of an event of that status after that state.
NextAttempt(state, status) ==
  IF status = "pending" THEN state.attempt + 1 ELSE state.attempt

\* Building an event takes the time.
Stamp == clock' \in IF given \in SameSecond THEN {clock, clock + 1}
                                       ELSE {clock + 1}

\* build_delivery_event: an event after that state, of the time it is built.
Build(c, status, state, key) ==
  /\ status \in Allowed(state.status)
  /\ Stamp
  /\ event' = [event EXCEPT
       ![c] = [status |-> status, attempt |-> NextAttempt(state, status),
               key |-> key, at |-> clock']]

Goto(c, place) == pc' = [pc EXCEPT ![c] = place] /\ UNCHANGED given

\* The latest event is read, by a command or by _deliver_webhook.
ReadLatest(c) ==
  /\ c \in given
  /\ pc[c] = "idle"
  /\ given \in Serial =>
       \A d \in Commands : pc[d] \in {"idle", "done", "failed"}
  /\ \E state \in Current : read' = [read EXCEPT ![c] = state]
  /\ Goto(c, "key")
  /\ UNCHANGED <<log, clock, accepted, event, reruns>>

WithKey(key) == {i \in DOMAIN log : log[i].key = key}

\* Faulty variant: a key that exists is not looked for.
KnownKeyIgnored(c) == {}

\* The rows of the command's idempotency key.
KnownKey(c) == WithKey(KeyOf[c])

\* The rows of the command's key are read; an event of its key is returned,
\* one of another status refused, and otherwise the event is built.
CheckKey(c) ==
  LET status == StatusOf(ActionOf[c])
      known == KnownKey(c)
  IN /\ pc[c] = "key"
     /\ ActionOf[c] # "webhook"
     /\ \/ /\ known # {}
           /\ Goto(c, IF \E i \in known : known = {i} /\ log[i].status = status
                        THEN "done" ELSE "failed")
           /\ UNCHANGED <<clock, event>>
        \/ /\ known = {}
           /\ Build(c, status, read[c], KeyOf[c])
           /\ Goto(c, "append")
        \/ /\ known = {}
           /\ status \notin Allowed(read[c].status)
           /\ Goto(c, "failed")
           /\ UNCHANGED <<clock, event>>
     /\ UNCHANGED <<log, accepted, read, reruns>>

\* _deliver_webhook: nothing is sent to a consumer that was delivered to or
\* abandoned, a pending attempt goes on, and any other state begins one.
BeginAttempt(c) ==
  /\ pc[c] = "key"
  /\ ActionOf[c] = "webhook"
  /\ \/ /\ read[c].status \in Terminal
        /\ Goto(c, "done")
        /\ UNCHANGED <<clock, event>>
     \/ /\ read[c].status = "pending"
        /\ Goto(c, "post")
        /\ UNCHANGED <<clock, event>>
     \/ /\ read[c].status \in {None, "failed"}
        /\ Build(c, "pending", read[c], "webhook")
        /\ Goto(c, "append")
  /\ UNCHANGED <<log, accepted, read, reruns>>

\* What get_hash is taken of.
Identity(e) == <<e.key, e.status, e.attempt>>

\* Where a command goes when its event is inserted.
AfterAppend(c) ==
  IF ActionOf[c] = "webhook" /\ event[c].status = "pending"
    THEN "post" ELSE "done"

\* Ids only order the events of one second: a session without such events
\* needs one.
EventIds ==
  IF given \in SameSecond THEN Digests ELSE {CHOOSE id \in Digests : TRUE}

\* persist_delivery_event: an event that exists is left alone.
PersistEvent(c) ==
  LET e == event[c]
  IN /\ pc[c] = "append"
     /\ \/ /\ \E i \in DOMAIN log : Identity(log[i]) = Identity(e)
           /\ UNCHANGED log
        \/ /\ \A i \in DOMAIN log : Identity(log[i]) # Identity(e)
           /\ \E id \in EventIds :
                /\ \A i \in DOMAIN log : log[i].at = e.at => log[i].id # id
                /\ log' = Append(log, [status |-> e.status, key |-> e.key,
                                       attempt |-> e.attempt, at |-> e.at,
                                       id |-> id])
     /\ read' = [read EXCEPT
                   ![c] = [status |-> e.status, attempt |-> e.attempt]]
     /\ Goto(c, AfterAppend(c))
     /\ UNCHANGED <<clock, accepted, event, reruns>>

Outcome(taken, status) == [accepted |-> taken, status |-> status]

\* Faulty variant: an answer that is not a 2xx counts as delivered.
OutcomesAnyAnswer ==
  {Outcome(TRUE, "delivered"), Outcome(FALSE, "delivered"),
   Outcome(FALSE, "failed")}

\* What the consumer does with a post, and what the sender makes of it: the
\* answer to a post that was accepted may be lost.
Outcomes ==
  {Outcome(TRUE, "delivered"), Outcome(TRUE, "failed"),
   Outcome(FALSE, "failed")}

\* deliver_publication_webhook, and the event of its outcome.
Post(c) ==
  /\ pc[c] = "post"
  /\ \E outcome \in Outcomes :
       /\ accepted' = (accepted \/ outcome.accepted)
       /\ Build(c, outcome.status, read[c], "webhook")
  /\ Goto(c, "append")
  /\ UNCHANGED <<log, read, reruns>>

\* The command or request is given again, after an answer or in place of one.
Rerun(c) ==
  /\ pc[c] # "idle"
  /\ reruns < MaxReruns[given]
  /\ reruns' = reruns + 1
  /\ Goto(c, "idle")
  /\ read' = [read EXCEPT ![c] = NoEvent]
  /\ event' = [event EXCEPT ![c] = None]
  /\ UNCHANGED <<log, clock, accepted>>

Next ==
  \E c \in Commands :
    \/ ReadLatest(c) \/ CheckKey(c) \/ BeginAttempt(c)
    \/ PersistEvent(c) \/ Post(c) \/ Rerun(c)

Spec == Init /\ [][Next]_vars

-----------------------------------------------------------------------------
(* Properties.                                                             *)

\* The event e is one that may come after the event d.
Follows(d, e) ==
  \/ /\ e.status = "pending"
     /\ d.status \in {None, "failed"}
     /\ e.attempt = d.attempt + 1
  \/ /\ e.status \in {"delivered", "failed"}
     /\ d.status = "pending"
     /\ e.attempt = d.attempt
  \/ /\ e.status = "abandoned"
     /\ d.status \in {"pending", "failed"}
     /\ e.attempt = d.attempt

\* The history of a delivery can be audited: every event is the first
\* attempt's or follows an earlier one, its attempt's or the attempt before,
\* however commands interleave and whatever their clocks say.
EveryEventFollows ==
  \A i \in 1 .. Len(log) :
    \/ Follows(NoEvent, log[i])
    \/ \E j \in 1 .. i - 1 : Follows(log[j], log[i])

\* The log says that a webhook delivered only if the consumer accepted.
DeliveredWasAccepted ==
  \A i \in DOMAIN log :
    log[i].status = "delivered" /\ log[i].key = "webhook" => accepted

\* A key that an operator gave has one event, when commands are given one at
\* a time.
OneEventPerKey ==
  given \in Serial =>
    \A i, j \in DOMAIN log :
      log[i].key = log[j].key /\ log[i].key # "webhook" => i = j

\* Nothing is appended after a delivery has been delivered or abandoned.
TerminalIsFinal ==
  \A i \in 1 .. Len(log) - 1 : log[i].status \notin Terminal

\* A consumer that was delivered to is not sent the event again.
NotSentAgain ==
  \A c \in Commands :
    pc[c] = "post" => \A i \in DOMAIN log : log[i].status \notin Terminal

\* Refinement: the latest event moves as the lifecycle says, when commands are
\* given one at a time and their events are of different seconds.
CurrentState ==
  IF given \in Serial \ SameSecond THEN CHOOSE state \in Current : TRUE
                                  ELSE NoEvent

Lifecycle == INSTANCE DeliveryLifecycle WITH
  status <- CurrentState.status, attempt <- CurrentState.attempt

ImplementsLifecycle == Lifecycle!Spec

=============================================================================
