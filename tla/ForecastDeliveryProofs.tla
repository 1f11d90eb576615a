----------------------- MODULE ForecastDeliveryProofs -----------------------
(***************************************************************************)
(* Proofs about the delivery log of ForecastDelivery, for every set of     *)
(* commands, every assignment of actions and keys to them, clocks that may *)
(* or may not tell two events apart, and every order of event ids.         *)
(*                                                                         *)
(* That every event follows an earlier one is not inductive: a command may *)
(* have read a state that is no longer the latest.  The invariant IInv     *)
(* says that what it read is nevertheless a state of the log, which is     *)
(* append-only, and that the event it has built follows what it read.      *)
(* KInv does the same for what an event about to be appended says: that a  *)
(* consumer accepted, and that its key is not in the log.  CInv says that  *)
(* the last row is the latest event when commands are given one at a time, *)
(* and that what is appended outranks it (Rank), so none is skipped.       *)
(***************************************************************************)
EXTENDS ForecastDelivery, TLAPS

\* What a command read is a state of the log, or that there was no event.
ReadInLog ==
  \A c \in Commands :
    read[c] = NoEvent \/ \E i \in 1 .. Len(log) : read[c] = StateAt(i)

\* An event about to be appended follows what its command read.
EventFollowsRead ==
  \A c \in Commands :
    pc[c] = "append" => event[c] \in Event /\ Follows(read[c], event[c])

IInv == TypeOK /\ EveryEventFollows /\ ReadInLog /\ EventFollowsRead

\* The rows that are in the log stay at their place.
LEMMA AppendFacts ==
  ASSUME TypeOK, NEW row \in Row
  PROVE  /\ Append(log, row) \in Seq(Row)
         /\ Len(Append(log, row)) = Len(log) + 1
         /\ \A i \in 1 .. Len(log) : Append(log, row)[i] = log[i]
         /\ Append(log, row)[Len(log) + 1] = row
  BY DEF TypeOK

\* An event that is built is well typed and follows what its command read.
LEMMA BuildFacts ==
  ASSUME TypeOK, NEW c \in Commands, NEW status \in Statuses, NEW key \in Keys,
         Build(c, status, read[c], key)
  PROVE  /\ clock' \in Nat
         /\ event'[c] \in Event
         /\ \A d \in Commands : d # c => event'[d] = event[d]
         /\ event' \in [Commands -> Event \union {None}]
         /\ Follows(read[c], event'[c])
<1>1. clock' \in Nat
  BY DEF Build, Stamp, TypeOK
<1>2. read[c] \in State
  BY DEF TypeOK
<1>3. status \in Allowed(read[c].status)
  BY DEF Build
<1>4. NextAttempt(read[c], status) \in Nat
  BY <1>2 DEF NextAttempt, State
<1>5. event' = [event EXCEPT
        ![c] = [status |-> status, attempt |-> NextAttempt(read[c], status),
                key |-> key, at |-> clock']]
  BY DEF Build
<1>6. event'[c] = [status |-> status, key |-> key, at |-> clock',
                   attempt |-> NextAttempt(read[c], status)]
  BY <1>5 DEF TypeOK
<1>7. event'[c] \in Event
  BY <1>1, <1>4, <1>6 DEF Event
<1>8. Follows(read[c], event'[c])
  BY <1>2, <1>3, <1>6, NoneAssumption
     DEF Follows, Allowed, NextAttempt, State, Statuses, Terminal
<1> QED
  BY <1>1, <1>5, <1>7, <1>8 DEF TypeOK

\* The kinds of step: a query of the latest event, an event built, an event
\* inserted, an event that exists left alone, a command given again, and the
\* rest, which ends a command or sends it to its webhook.
LEMMA InvStep == IInv /\ [Next]_vars => IInv'
<1> SUFFICES ASSUME IInv, [Next]_vars
             PROVE  IInv'
  OBVIOUS
<1> USE DEF IInv
<1>1. ASSUME NEW c \in Commands, ReadLatest(c)
      PROVE  IInv'
  <2>1. PICK state \in Current : read' = [read EXCEPT ![c] = state]
    BY <1>1 DEF ReadLatest
  <2>2. state = NoEvent \/ \E i \in 1 .. Len(log) : state = StateAt(i)
    BY <2>1 DEF Current, TypeOK
  <2>3. state \in State
    <3>1. NoEvent \in State
      BY DEF NoEvent, State
    <3>2. \A i \in 1 .. Len(log) : log[i] \in Row
      BY DEF TypeOK
    <3>3. \A i \in 1 .. Len(log) : StateAt(i) \in State
      BY <3>2 DEF State, StateAt, Row
    <3> QED
      BY <2>2, <3>1, <3>3
  <2>4. TypeOK'
    BY <1>1, <2>1, <2>3 DEF ReadLatest, Goto, TypeOK, Places
  <2>5. ReadInLog'
    BY <1>1, <2>1, <2>2 DEF ReadLatest, ReadInLog, StateAt, TypeOK
  <2>6. EventFollowsRead'
    BY <1>1, <2>1 DEF ReadLatest, EventFollowsRead, Goto, TypeOK
  <2> QED
    BY <1>1, <2>4, <2>5, <2>6 DEF ReadLatest, EveryEventFollows
<1>2. ASSUME NEW c \in Commands, NEW status \in Statuses, NEW key \in Keys,
             Build(c, status, read[c], key), Goto(c, "append"),
             accepted' \in BOOLEAN, UNCHANGED <<log, read, reruns>>
      PROVE  IInv'
  <2>1. TypeOK'
    BY <1>2, BuildFacts DEF TypeOK, Goto, Places
  <2>2. ReadInLog' /\ EveryEventFollows'
    BY <1>2 DEF ReadInLog, StateAt, EveryEventFollows
  <2>3. EventFollowsRead'
    BY <1>2, BuildFacts DEF EventFollowsRead, Goto, TypeOK
  <2> QED
    BY <2>1, <2>2, <2>3
<1>3. ASSUME NEW c \in Commands, NEW place \in {"post", "done", "failed"},
             Goto(c, place), UNCHANGED <<log, clock, accepted, read, event, reruns>>
      PROVE  IInv'
  <2>1. TypeOK'
    BY <1>3 DEF TypeOK, Goto, Places
  <2>2. ReadInLog' /\ EveryEventFollows'
    BY <1>3 DEF ReadInLog, StateAt, EveryEventFollows
  <2>3. EventFollowsRead'
    BY <1>3 DEF EventFollowsRead, Goto, TypeOK
  <2> QED
    BY <2>1, <2>2, <2>3
<1>4. ASSUME NEW c \in Commands, CheckKey(c)
      PROVE  IInv'
  <2> DEFINE status == StatusOf(ActionOf[c])
  <2>1. status \in Statuses
    BY <1>4, ActionAssumption DEF CheckKey, StatusOf, Statuses
  <2>2. KeyOf[c] \in Keys
    BY DEF Keys
  <2>3. CASE /\ Build(c, status, read[c], KeyOf[c])
             /\ Goto(c, "append")
    BY <1>4, <1>2, <2>1, <2>2, <2>3 DEF CheckKey, TypeOK
  <2>4. CASE /\ \E place \in {"done", "failed"} : Goto(c, place)
             /\ UNCHANGED <<clock, event>>
    BY <1>4, <1>3, <2>4 DEF CheckKey
  <2> QED
    BY <1>4, <2>3, <2>4 DEF CheckKey
<1>5. ASSUME NEW c \in Commands, BeginAttempt(c)
      PROVE  IInv'
  <2>1. "pending" \in Statuses /\ "webhook" \in Keys
    BY DEF Statuses, Keys
  <2>2. CASE /\ Build(c, "pending", read[c], "webhook")
             /\ Goto(c, "append")
    BY <1>5, <1>2, <2>1, <2>2 DEF BeginAttempt, TypeOK
  <2>3. CASE /\ \E place \in {"done", "post"} : Goto(c, place)
             /\ UNCHANGED <<clock, event>>
    BY <1>5, <1>3, <2>3 DEF BeginAttempt
  <2> QED
    BY <1>5, <2>2, <2>3 DEF BeginAttempt
<1>6. ASSUME NEW c \in Commands, Post(c)
      PROVE  IInv'
  <2>1. PICK outcome \in Outcomes :
          /\ accepted' = (accepted \/ outcome.accepted)
          /\ Build(c, outcome.status, read[c], "webhook")
    BY <1>6 DEF Post
  <2>2. \/ outcome = Outcome(TRUE, "delivered")
        \/ outcome = Outcome(TRUE, "failed")
        \/ outcome = Outcome(FALSE, "failed")
    BY DEF Outcomes
  <2>3. outcome.status \in Statuses
    <3>1. outcome.status = "delivered" \/ outcome.status = "failed"
      BY <2>2 DEF Outcome
    <3> QED
      BY <3>1 DEF Statuses
  <2>4. accepted' \in BOOLEAN
    BY <2>1
  <2>5. "webhook" \in Keys
    BY DEF Keys
  <2> QED
    BY <1>6, <1>2, <2>1, <2>3, <2>4, <2>5 DEF Post
<1>7. ASSUME NEW c \in Commands, PersistEvent(c)
      PROVE  IInv'
  <2> DEFINE e == event[c]
             s == [status |-> e.status, attempt |-> e.attempt]
  <2>1. e \in Event /\ Follows(read[c], e)
    BY <1>7 DEF PersistEvent, EventFollowsRead
  <2>2. s \in State
    BY <2>1 DEF Event, State
  <2>3. /\ read' = [read EXCEPT ![c] = s]
        /\ pc' = [pc EXCEPT ![c] = AfterAppend(c)]
        /\ AfterAppend(c) \in {"post", "done"}
        /\ UNCHANGED <<clock, accepted, given, event, reruns>>
    BY <1>7 DEF PersistEvent, Goto, AfterAppend
  <2>4. EventFollowsRead'
    BY <2>3 DEF EventFollowsRead, TypeOK
  <2>5. CASE /\ \E i \in DOMAIN log : Identity(log[i]) = Identity(e)
             /\ UNCHANGED log
    <3>1. PICK i \in 1 .. Len(log) : Identity(log[i]) = Identity(e)
      BY <2>5 DEF TypeOK
    <3>2. s = StateAt(i)
      BY <3>1 DEF Identity, StateAt
    <3>3. ReadInLog'
      BY <2>3, <2>5, <3>2 DEF ReadInLog, StateAt, TypeOK
    <3>4. TypeOK'
      BY <2>2, <2>3, <2>5 DEF TypeOK, Places
    <3> QED
      BY <2>4, <2>5, <3>3, <3>4 DEF EveryEventFollows
  <2>6. ASSUME NEW id \in Digests,
               log' = Append(log, [status |-> e.status, key |-> e.key,
                                   attempt |-> e.attempt, at |-> e.at,
                                   id |-> id])
        PROVE  IInv'
    <3> DEFINE row == [status |-> e.status, key |-> e.key,
                       attempt |-> e.attempt, at |-> e.at, id |-> id]
               n == Len(log)
    <3>1. row \in Row
      BY <2>1 DEF Event, Row
    <3>2. /\ log' \in Seq(Row)
          /\ Len(log') = n + 1
          /\ \A i \in 1 .. n : log'[i] = log[i]
          /\ log'[n + 1] = row
      BY <2>6, <3>1, AppendFacts
    <3>3. n \in Nat
      BY DEF TypeOK
    <3>4. TypeOK'
      BY <2>2, <2>3, <3>2 DEF TypeOK, Places
    <3>5. ReadInLog'
      <4>1. s = [status |-> log'[n + 1].status,
                 attempt |-> log'[n + 1].attempt]
        BY <3>2
      <4> SUFFICES ASSUME NEW d \in Commands
                   PROVE  \/ read'[d] = NoEvent
                          \/ \E i \in 1 .. n + 1 :
                               read'[d] = [status |-> log'[i].status,
                                           attempt |-> log'[i].attempt]
        BY <3>2 DEF ReadInLog, StateAt, NoEvent
      <4>2. CASE d = c
        BY <2>3, <3>3, <4>1, <4>2 DEF TypeOK
      <4>3. CASE d # c
        <5>1. read'[d] = read[d]
          BY <2>3, <4>3 DEF TypeOK
        <5>2. \/ read[d] = NoEvent
              \/ \E i \in 1 .. n : read[d] = [status |-> log[i].status,
                                            attempt |-> log[i].attempt]
          BY DEF ReadInLog, StateAt
        <5>3. ASSUME NEW i \in 1 .. n,
                     read[d] = [status |-> log[i].status,
                                attempt |-> log[i].attempt]
              PROVE  /\ i \in 1 .. n + 1
                     /\ read'[d] = [status |-> log'[i].status,
                                    attempt |-> log'[i].attempt]
          BY <3>2, <3>3, <5>1, <5>3
        <5> QED
          BY <5>1, <5>2, <5>3
      <4> QED
        BY <4>2, <4>3
    <3>6. \/ Follows(NoEvent, row)
          \/ \E j \in 1 .. n : Follows(log[j], row)
      <4>1. Follows(read[c], row)
        BY <2>1 DEF Follows
      <4>2. CASE read[c] = NoEvent
        BY <4>1, <4>2
      <4>3. ASSUME NEW j \in 1 .. n, read[c] = StateAt(j)
            PROVE  Follows(log[j], row)
        BY <4>1, <4>3 DEF Follows, StateAt
      <4> QED
        BY <4>2, <4>3 DEF ReadInLog
    <3>7. EveryEventFollows'
      <4> SUFFICES ASSUME NEW i \in 1 .. n + 1
                   PROVE  \/ Follows(NoEvent, log'[i])
                          \/ \E j \in 1 .. i - 1 : Follows(log'[j], log'[i])
        BY <3>2, <3>3 DEF EveryEventFollows
      <4>1. CASE i = n + 1
        BY <3>2, <3>3, <3>6, <4>1
      <4>2. CASE i \in 1 .. n
        <5>1. \A j \in 1 .. i - 1 : log'[j] = log[j]
          BY <3>2, <3>3, <4>2
        <5> QED
          BY <3>2, <4>2, <5>1 DEF EveryEventFollows
      <4> QED
        BY <3>3, <4>1, <4>2
    <3> QED
      BY <2>4, <3>4, <3>5, <3>7
  <2>7. EventIds \subseteq Digests
    BY DigestsAssumption DEF EventIds
  <2> QED
    BY <1>7, <2>5, <2>6, <2>7 DEF PersistEvent
<1>8. ASSUME NEW c \in Commands, Rerun(c)
      PROVE  IInv'
  <2>1. TypeOK'
    BY <1>8, RerunsAssumption DEF Rerun, Goto, TypeOK, Places, State, NoEvent
  <2>2. ReadInLog' /\ EventFollowsRead'
    BY <1>8 DEF Rerun, Goto, TypeOK, ReadInLog, EventFollowsRead, StateAt
  <2> QED
    BY <1>8, <2>1, <2>2 DEF Rerun, EveryEventFollows
<1>9. CASE UNCHANGED vars
  BY <1>9 DEF vars, TypeOK, ReadInLog, EventFollowsRead, EveryEventFollows,
              StateAt
<1> QED
  BY <1>1, <1>4, <1>5, <1>6, <1>7, <1>8, <1>9 DEF Next

\* At first the log is empty and nobody has read or built anything.
LEMMA InvInit == Init => IInv
<1> SUFFICES ASSUME Init
             PROVE  IInv
  OBVIOUS
<1>1. log \in Seq(Row) /\ Len(log) = 0
  BY DEF Init
<1>2. NoEvent \in State
  BY DEF NoEvent, State
<1>3. pc \in [Commands -> Places] /\ read \in [Commands -> State]
  BY <1>2 DEF Init, Places
<1>4. /\ event \in [Commands -> Event \union {None}]
      /\ reruns \in 0 .. MaxReruns[given]
  BY RerunsAssumption DEF Init
<1>5. clock \in Nat /\ accepted \in BOOLEAN /\ given \in Sessions
  BY DEF Init
<1>6. TypeOK
  BY <1>1, <1>3, <1>4, <1>5 DEF TypeOK
<1> QED
  BY <1>1, <1>6 DEF Init, IInv, EveryEventFollows, ReadInLog, EventFollowsRead

\* The log, what commands read and what they build are well typed.
THEOREM TypeCorrect == Spec => []TypeOK
<1>1. IInv => TypeOK
  BY DEF IInv
<1> QED
  BY <1>1, InvInit, InvStep, PTL DEF Spec

\* Every event of the log is a first attempt's or follows an earlier event as
\* ALLOWED_DELIVERY_TRANSITIONS and the count of attempts say, also when
\* commands race and clocks do not tell events apart.
THEOREM HistoryIsSound == Spec => []EveryEventFollows
<1>1. IInv => EveryEventFollows
  BY DEF IInv
<1> QED
  BY <1>1, InvInit, InvStep, PTL DEF Spec

-----------------------------------------------------------------------------
(* Acceptance and keys.                                                    *)

Busy(c) == pc[c] \notin {"idle", "done", "failed"}

\* A delivery that is about to be recorded for the webhook was accepted.
Accepted ==
  \A c \in Commands :
    /\ pc[c] = "append"
    /\ event[c].status = "delivered"
    /\ event[c].key = "webhook"
    => accepted

\* One command is under way in the sessions that give them one at a time.
OneBusy ==
  given \in Serial => \A c, d \in Commands : Busy(c) /\ Busy(d) => c = d

\* And then the key of an event about to be appended is not in the log.
FreshKey ==
  given \in Serial =>
    \A c \in Commands :
      pc[c] = "append" /\ event[c].key # "webhook" => WithKey(event[c].key) = {}

KInv ==
  /\ DeliveredWasAccepted
  /\ OneEventPerKey
  /\ Accepted
  /\ OneBusy
  /\ FreshKey

\* A command that is under way goes to another place, and the log stays.
LEMMA KeysGo ==
  ASSUME TypeOK, KInv, NEW c \in Commands, NEW place \in Places \ {"append"},
         Busy(c) \/ place \in {"idle", "done", "failed"},
         Goto(c, place), UNCHANGED log, accepted => accepted',
         \A d \in Commands : d # c => event'[d] = event[d]
  PROVE  KInv'
<1> USE DEF KInv
<1>1. /\ pc' = [pc EXCEPT ![c] = place]
      /\ given' = given
      /\ accepted \in BOOLEAN /\ pc \in [Commands -> Places]
  BY DEF Goto, TypeOK
<1>2. DeliveredWasAccepted' /\ OneEventPerKey'
  BY <1>1 DEF DeliveredWasAccepted, OneEventPerKey
<1>3. Accepted' /\ FreshKey'
  BY <1>1 DEF Accepted, FreshKey, WithKey
<1>4. OneBusy'
  BY <1>1 DEF OneBusy, Busy
<1> QED
  BY <1>2, <1>3, <1>4

\* An event is built: for the webhook, or with a key that is not in the log.
LEMMA KeysBuild ==
  ASSUME TypeOK, KInv, NEW c \in Commands, Busy(c),
         NEW status \in Statuses, NEW key \in Keys,
         Build(c, status, read[c], key), Goto(c, "append"),
         UNCHANGED log, accepted => accepted',
         key # "webhook" => WithKey(key) = {},
         key = "webhook" /\ status = "delivered" => accepted'
  PROVE  KInv'
<1> USE DEF KInv
<1>1. /\ pc' = [pc EXCEPT ![c] = "append"]
      /\ given' = given
      /\ accepted \in BOOLEAN /\ pc \in [Commands -> Places]
  BY DEF Goto, TypeOK
<1>2. /\ event'[c].status = status
      /\ event'[c].key = key
      /\ \A d \in Commands : d # c => event'[d] = event[d]
  <2>1. event' = [event EXCEPT
          ![c] = [status |-> status, attempt |-> NextAttempt(read[c], status),
                  key |-> key, at |-> clock']]
    BY DEF Build
  <2> QED
    BY <2>1 DEF TypeOK
<1>3. DeliveredWasAccepted' /\ OneEventPerKey'
  BY <1>1 DEF DeliveredWasAccepted, OneEventPerKey
<1>4. Accepted'
  BY <1>1, <1>2 DEF Accepted
<1>5. FreshKey'
  BY <1>1, <1>2 DEF FreshKey, WithKey
<1>6. OneBusy'
  BY <1>1 DEF OneBusy, Busy
<1> QED
  BY <1>3, <1>4, <1>5, <1>6

\* One step of any command keeps it.
LEMMA KeysStep == IInv /\ KInv /\ [Next]_vars => KInv'
<1> SUFFICES ASSUME IInv, KInv, [Next]_vars
             PROVE  KInv'
  OBVIOUS
<1>t. TypeOK
  BY DEF IInv
<1>1. ASSUME NEW c \in Commands, ReadLatest(c)
      PROVE  KInv'
  <2>1. /\ pc' = [pc EXCEPT ![c] = "key"]
        /\ given' = given
        /\ UNCHANGED <<log, accepted, event>>
        /\ pc \in [Commands -> Places]
    BY <1>1, <1>t DEF ReadLatest, Goto, TypeOK
  <2>2. given \in Serial => \A d \in Commands : ~ Busy(d)
    BY <1>1 DEF ReadLatest, Busy
  <2>3. DeliveredWasAccepted' /\ OneEventPerKey'
    BY <2>1 DEF KInv, DeliveredWasAccepted, OneEventPerKey
  <2>4. Accepted' /\ FreshKey'
    BY <2>1 DEF KInv, Accepted, FreshKey, WithKey
  <2>5. OneBusy'
    BY <2>1, <2>2 DEF OneBusy, Busy
  <2> QED
    BY <2>3, <2>4, <2>5 DEF KInv
<1>2. ASSUME NEW c \in Commands, CheckKey(c)
      PROVE  KInv'
  <2> DEFINE status == StatusOf(ActionOf[c])
  <2>1. Busy(c) /\ UNCHANGED <<log, accepted>>
    BY <1>2 DEF CheckKey, Busy
  <2>2. status \in Statuses /\ KeyOf[c] \in Keys /\ KeyOf[c] # "webhook"
    BY <1>2, ActionAssumption, OperatorKeysAssumption
       DEF CheckKey, StatusOf, Statuses, Keys
  <2>3. CASE /\ KnownKey(c) = {}
             /\ Build(c, status, read[c], KeyOf[c])
             /\ Goto(c, "append")
    <3>1. WithKey(KeyOf[c]) = {}
      BY <2>3 DEF KnownKey
    <3> QED
      BY <1>t, <2>1, <2>2, <2>3, <3>1, KeysBuild
  <2>4. ASSUME NEW place \in {"done", "failed"}, Goto(c, place),
               UNCHANGED event
        PROVE  KInv'
    BY <1>t, <2>1, <2>4, KeysGo DEF Places
  <2> QED
    BY <1>2, <2>3, <2>4 DEF CheckKey
<1>3. ASSUME NEW c \in Commands, BeginAttempt(c)
      PROVE  KInv'
  <2>1. Busy(c) /\ UNCHANGED <<log, accepted>>
    BY <1>3 DEF BeginAttempt, Busy
  <2>2. "pending" \in Statuses /\ "webhook" \in Keys
    BY DEF Statuses, Keys
  <2>3. CASE Build(c, "pending", read[c], "webhook") /\ Goto(c, "append")
    BY <1>t, <2>1, <2>2, <2>3, KeysBuild
  <2>4. ASSUME NEW place \in {"done", "post"}, Goto(c, place),
               UNCHANGED event
        PROVE  KInv'
    BY <1>t, <2>1, <2>4, KeysGo DEF Places
  <2> QED
    BY <1>3, <2>3, <2>4 DEF BeginAttempt
<1>4. ASSUME NEW c \in Commands, Post(c)
      PROVE  KInv'
  <2>1. PICK outcome \in Outcomes :
          /\ accepted' = (accepted \/ outcome.accepted)
          /\ Build(c, outcome.status, read[c], "webhook")
    BY <1>4 DEF Post
  <2>2. /\ Busy(c) /\ UNCHANGED log
        /\ Goto(c, "append")
    BY <1>4 DEF Post, Busy
  <2>3. \/ outcome = Outcome(TRUE, "delivered")
        \/ outcome = Outcome(TRUE, "failed")
        \/ outcome = Outcome(FALSE, "failed")
    BY DEF Outcomes
  <2>4. /\ outcome.status = "delivered" \/ outcome.status = "failed"
        /\ outcome.status = "delivered" => outcome.accepted = TRUE
    BY <2>3 DEF Outcome
  <2>5. outcome.status \in Statuses /\ "webhook" \in Keys
    BY <2>4 DEF Statuses, Keys
  <2>6. /\ accepted => accepted'
        /\ outcome.status = "delivered" => accepted'
    BY <2>1, <2>4
  <2> QED
    BY <1>t, <2>1, <2>2, <2>5, <2>6, KeysBuild
<1>5. ASSUME NEW c \in Commands, PersistEvent(c)
      PROVE  KInv'
  <2> DEFINE e == event[c]
  <2>1. /\ pc[c] = "append"
        /\ Busy(c)
        /\ Goto(c, AfterAppend(c))
        /\ AfterAppend(c) \in {"post", "done"}
        /\ UNCHANGED <<accepted, event>>
    BY <1>5 DEF PersistEvent, AfterAppend, Busy
  <2>2. CASE UNCHANGED log
    BY <1>t, <2>1, <2>2, KeysGo DEF Places
  <2>3. ASSUME NEW id \in Digests,
               log' = Append(log, [status |-> e.status, key |-> e.key,
                                   attempt |-> e.attempt, at |-> e.at,
                                   id |-> id])
        PROVE  KInv'
    <3> DEFINE row == [status |-> e.status, key |-> e.key,
                       attempt |-> e.attempt, at |-> e.at, id |-> id]
               n == Len(log)
    <3>1. e \in Event
      BY <2>1 DEF IInv, EventFollowsRead
    <3>2. row \in Row
      BY <3>1 DEF Event, Row
    <3>3. /\ log' \in Seq(Row)
          /\ Len(log') = n + 1
          /\ \A i \in 1 .. n : log'[i] = log[i]
          /\ log'[n + 1] = row
      BY <1>t, <2>3, <3>2, AppendFacts
    <3>4. n \in Nat /\ DOMAIN log = 1 .. n /\ DOMAIN log' = 1 .. n + 1
      BY <1>t, <3>3 DEF TypeOK
    <3>5. row.status = e.status /\ row.key = e.key
      OBVIOUS
    <3>6. /\ pc' = [pc EXCEPT ![c] = AfterAppend(c)]
          /\ given' = given /\ pc \in [Commands -> Places]
      BY <1>t, <2>1 DEF Goto, TypeOK
    <3>7. given \in Serial =>
            \A d \in Commands : ~ (pc'[d] = "append")
      BY <2>1, <3>6 DEF KInv, OneBusy, Busy
    <3>8. DeliveredWasAccepted'
      <4> SUFFICES ASSUME NEW i \in 1 .. n + 1,
                          log'[i].status = "delivered",
                          log'[i].key = "webhook"
                   PROVE  accepted
        BY <2>1, <3>4 DEF DeliveredWasAccepted
      <4>1. CASE i = n + 1
        BY <2>1, <3>3, <3>5, <4>1 DEF KInv, Accepted
      <4>2. CASE i \in 1 .. n
        BY <3>3, <3>4, <4>2 DEF KInv, DeliveredWasAccepted
      <4> QED
        BY <3>4, <4>1, <4>2
    <3>9. OneEventPerKey'
      <4> SUFFICES ASSUME given \in Serial,
                          NEW i \in 1 .. n + 1, NEW j \in 1 .. n + 1,
                          log'[i].key = log'[j].key,
                          log'[i].key # "webhook"
                   PROVE  i = j
        BY <3>4, <3>6 DEF OneEventPerKey
      <4>1. e.key # "webhook" => \A k \in 1 .. n : log[k].key # e.key
        BY <2>1, <3>4 DEF KInv, FreshKey, WithKey
      <4>2. CASE i \in 1 .. n /\ j \in 1 .. n
        BY <3>3, <3>4, <4>2 DEF KInv, OneEventPerKey
      <4>3. CASE i = n + 1 /\ j \in 1 .. n
        BY <3>3, <3>5, <4>1, <4>3
      <4>4. CASE i \in 1 .. n /\ j = n + 1
        BY <3>3, <3>5, <4>1, <4>4
      <4> QED
        BY <3>4, <4>2, <4>3, <4>4
    <3>10. Accepted' /\ FreshKey'
      BY <2>1, <3>6, <3>7 DEF KInv, Accepted, FreshKey
    <3>11. OneBusy'
      BY <2>1, <3>6 DEF KInv, OneBusy, Busy
    <3> QED
      BY <3>8, <3>9, <3>10, <3>11 DEF KInv
  <2>4. EventIds \subseteq Digests
    BY DigestsAssumption DEF EventIds
  <2> QED
    BY <1>5, <2>2, <2>3, <2>4 DEF PersistEvent
<1>6. ASSUME NEW c \in Commands, Rerun(c)
      PROVE  KInv'
  <2>1. /\ Goto(c, "idle") /\ UNCHANGED <<log, accepted>>
        /\ \A d \in Commands : d # c => event'[d] = event[d]
    BY <1>6, <1>t DEF Rerun, TypeOK
  <2> QED
    BY <1>t, <2>1, KeysGo DEF Places
<1>7. CASE UNCHANGED vars
  BY <1>7 DEF vars, KInv, DeliveredWasAccepted, OneEventPerKey, Accepted,
              OneBusy, FreshKey, WithKey, Busy
<1> QED
  BY <1>1, <1>2, <1>3, <1>4, <1>5, <1>6, <1>7 DEF Next

\* At first nobody is under way and the log is empty.
LEMMA KeysInit == Init => KInv
  BY DEF Init, KInv, DeliveredWasAccepted, OneEventPerKey, Accepted, OneBusy,
         FreshKey, Busy

\* The log says that a webhook was delivered only if its consumer accepted a
\* post, also when answers are lost and requests race or are given again.
THEOREM DeliveriesWereAccepted == Spec => []DeliveredWasAccepted
<1>1. KInv => DeliveredWasAccepted
  BY DEF KInv
<1> QED
  BY <1>1, InvInit, InvStep, KeysInit, KeysStep, PTL DEF Spec

\* An operator's key has one event when commands are given one at a time, also
\* when a command stops at any step and is given again.
THEOREM KeysAreSingle == Spec => []OneEventPerKey
<1>1. KInv => OneEventPerKey
  BY DEF KInv
<1> QED
  BY <1>1, InvInit, InvStep, KeysInit, KeysStep, PTL DEF Spec

-----------------------------------------------------------------------------
(* The lifecycle of a delivery.                                            *)

\* The sessions in which the current state is that of the last row.
Ordinary == Serial \ SameSecond

LastState == IF log = <<>> THEN NoEvent ELSE StateAt(Len(log))

\* States come in this order: an attempt, its outcome, its abandonment.
Rank(state) ==
  3 * state.attempt + (IF state.status \in {None, "pending"} THEN 0
                       ELSE IF state.status = "abandoned" THEN 2 ELSE 1)

\* The rows are in the order of their times and of their states.
LogOrdered ==
  /\ \A i \in 1 .. Len(log) : log[i].at <= clock
  /\ \A i, j \in 1 .. Len(log) :
       i < j => log[i].at < log[j].at /\ Rank(log[i]) < Rank(log[j])

\* A command that is under way has read the last row, and its event is newer.
ReadIsLast ==
  \A c \in Commands :
    /\ Busy(c) => read[c] = LastState
    /\ pc[c] = "append" =>
         /\ event[c].at <= clock
         /\ \A i \in 1 .. Len(log) : log[i].at < event[c].at

CInv == given \in Ordinary => LogOrdered /\ ReadIsLast

LEMMA RankGrows ==
  ASSUME NEW d, NEW e, d.attempt \in Nat, e.attempt \in Nat, Follows(d, e)
  PROVE  Rank(d) < Rank(e) /\ Rank(d) \in Nat /\ Rank(e) \in Nat
  BY NoneAssumption DEF Follows, Rank, Statuses

LEMMA RankIsNat ==
  ASSUME NEW d, d.attempt \in Nat
  PROVE  Rank(d) \in Nat
  BY DEF Rank

LEMMA LogRows ==
  ASSUME TypeOK
  PROVE  /\ Len(log) \in Nat /\ DOMAIN log = 1 .. Len(log)
         /\ \A i \in 1 .. Len(log) : log[i] \in Row
         /\ \A i \in 1 .. Len(log) : log[i].at \in Nat /\ log[i].id \in Int
         /\ \A i \in 1 .. Len(log) : log[i].attempt \in Nat
<1>1. /\ Len(log) \in Nat /\ DOMAIN log = 1 .. Len(log)
      /\ \A i \in 1 .. Len(log) : log[i] \in Row
  BY DEF TypeOK
<1>2. \A row \in Row : row.at \in Nat /\ row.id \in Int /\ row.attempt \in Nat
  BY DigestsAssumption DEF Row
<1> QED
  BY <1>1, <1>2

\* The query returns the last row.
LEMMA CurrentIsLast ==
  ASSUME TypeOK, LogOrdered
  PROVE  Current = {LastState}
<1>1. CASE log = <<>>
  BY <1>1 DEF Current, LastState
<1>2. CASE log # <<>>
  <2>1. PICK n \in Nat : n = Len(log)
    BY LogRows
  <2>2. DOMAIN log = 1 .. n /\ n \in 1 .. n
    BY <1>2, <2>1, LogRows DEF TypeOK
  <2>3. PICK at, id : /\ at = [i \in 1 .. n |-> log[i].at]
                      /\ id = [i \in 1 .. n |-> log[i].id]
    OBVIOUS
  <2>4. at \in [1 .. n -> Nat] /\ id \in [1 .. n -> Int]
    BY <2>1, <2>3, LogRows
  <2>5. \A i, j \in 1 .. n : i < j => at[i] < at[j]
    BY <2>1, <2>3 DEF LogOrdered
  <2>6. \A i \in 1 .. n :
          IsLatest(i) <=> \A j \in 1 .. n :
            at[j] < at[i] \/ (at[j] = at[i] /\ id[j] <= id[i])
    BY <2>2, <2>3 DEF IsLatest
  <2>7. ASSUME NEW j \in 1 .. n
        PROVE  at[j] < at[n] \/ (at[j] = at[n] /\ id[j] <= id[n])
    <3>1. j = n \/ j < n
      BY <2>7
    <3>2. id[j] <= id[j]
      BY <2>4
    <3> QED
      BY <2>2, <2>5, <3>1, <3>2
  <2>8. IsLatest(n)
    BY <2>2, <2>6, <2>7
  <2>9. ASSUME NEW i \in 1 .. n, IsLatest(i)
        PROVE  i = n
    <3>1. i = n \/ i < n
      BY <2>9
    <3>2. at[n] < at[i] \/ at[n] = at[i]
      BY <2>2, <2>6, <2>9
    <3>3. at[n] \in Nat /\ at[i] \in Nat
      BY <2>2, <2>4
    <3>4. i < n => at[i] < at[n]
      BY <2>2, <2>5
    <3> QED
      BY <3>1, <3>2, <3>3, <3>4
  <2>10. {j \in DOMAIN log : IsLatest(j)} = {n}
    BY <2>2, <2>8, <2>9
  <2> QED
    BY <1>2, <2>1, <2>10 DEF Current, LastState
<1> QED
  BY <1>1, <1>2

\* What a step that appends nothing leaves.
LEMMA LastStays ==
  ASSUME TypeOK, CInv, given \in Ordinary, UNCHANGED log,
         clock' = clock \/ clock' = clock + 1
  PROVE  LogOrdered' /\ LastState' = LastState
<1>1. clock \in Nat /\ \A i \in 1 .. Len(log) : log[i].at \in Nat
  BY LogRows DEF TypeOK
<1>2. LogOrdered
  BY DEF CInv
<1> QED
  BY <1>1, <1>2 DEF LogOrdered, Rank, LastState, StateAt

\* A step of one command that appends nothing.
LEMMA LifeGoes ==
  ASSUME TypeOK, KInv, CInv, given \in Ordinary, UNCHANGED <<log, given>>,
         clock' = clock \/ clock' = clock + 1,
         NEW c \in Commands, Busy(c),
         \A d \in Commands \ {c} : pc'[d] = pc[d],
         Busy(c)' => read'[c] = read[c],
         pc'[c] = "append" =>
           event'[c].at <= clock' /\ \A i \in 1 .. Len(log) : log[i].at < event'[c].at
  PROVE  CInv' /\ LastState' = LastState
<1>1. LogOrdered' /\ LastState' = LastState
  BY LastStays
<1>2. \A d \in Commands \ {c} : ~Busy(d)'
  BY DEF KInv, OneBusy, Busy, Ordinary
<1>3. read[c] = LastState
  BY DEF CInv, ReadIsLast
<1>4. ReadIsLast'
  BY <1>1, <1>2, <1>3 DEF ReadIsLast, Busy
<1> QED
  BY <1>1, <1>4 DEF CInv

\* An event that is built is newer than the log.
LEMMA LifeBuild ==
  ASSUME TypeOK, KInv, CInv, given \in Ordinary, UNCHANGED <<log, read>>,
         NEW c \in Commands, Busy(c), NEW status, NEW key,
         Build(c, status, read[c], key), Goto(c, "append")
  PROVE  CInv' /\ LastState' = LastState
<1>1. clock' = clock + 1 /\ clock \in Nat
  BY DEF Build, Stamp, Ordinary, TypeOK
<1>2. event'[c].at = clock'
  <2>1. event' = [event EXCEPT
          ![c] = [status |-> status, attempt |-> NextAttempt(read[c], status),
                  key |-> key, at |-> clock']]
    BY DEF Build
  <2> QED
    BY <2>1 DEF TypeOK
<1>3. \A i \in 1 .. Len(log) : log[i].at \in Nat /\ log[i].at <= clock
  BY LogRows DEF CInv, LogOrdered
<1>4. \A i \in 1 .. Len(log) : log[i].at < event'[c].at
  BY <1>1, <1>2, <1>3
<1>5. \A d \in Commands \ {c} : pc'[d] = pc[d]
  BY DEF Goto, TypeOK
<1>6. event'[c].at <= clock' /\ given' = given
  BY <1>1, <1>2 DEF Goto
<1> QED
  BY <1>1, <1>4, <1>5, <1>6, LifeGoes

\* A step leaves the last row alone, or appends one that follows it.
LEMMA LifeStep ==
  ASSUME IInv, KInv, CInv, [Next]_vars, given \in Ordinary
  PROVE  CInv' /\ (LastState' = LastState \/ Follows(LastState, LastState'))
<1>t. TypeOK /\ pc \in [Commands -> Places] /\ clock \in Nat
  BY DEF IInv, TypeOK
<1>u. CASE UNCHANGED vars
  BY <1>u DEF vars, CInv, LogOrdered, Rank, ReadIsLast, Busy, LastState, StateAt
<1>1. ASSUME NEW c \in Commands, ReadLatest(c)
      PROVE  CInv' /\ LastState' = LastState
  <2>1. /\ \A d \in Commands : ~Busy(d)
        /\ \A d \in Commands \ {c} : pc'[d] = pc[d]
        /\ pc'[c] = "key"
        /\ UNCHANGED <<log, clock, given>>
    BY <1>t, <1>1 DEF ReadLatest, Goto, Busy, Ordinary
  <2>2. LogOrdered' /\ LastState' = LastState
    BY <1>t, <2>1, LastStays
  <2>3. Current = {LastState}
    BY <1>t, CurrentIsLast DEF CInv
  <2>4. read'[c] = LastState
    BY <1>t, <1>1, <2>3 DEF ReadLatest, TypeOK
  <2>5. ReadIsLast'
    BY <2>1, <2>2, <2>4 DEF ReadIsLast, Busy
  <2> QED
    BY <2>2, <2>5 DEF CInv
<1>2. ASSUME NEW c \in Commands, CheckKey(c) \/ BeginAttempt(c) \/ Post(c)
      PROVE  CInv' /\ LastState' = LastState
  <2>1. Busy(c) /\ UNCHANGED <<log, read, given>>
    BY <1>2 DEF CheckKey, BeginAttempt, Post, Goto, Busy
  <2>2. CASE \E status, key : Build(c, status, read[c], key) /\ Goto(c, "append")
    BY <1>t, <2>1, <2>2, LifeBuild
  <2>3. CASE \E place \in {"done", "failed", "post"} :
               Goto(c, place) /\ UNCHANGED <<clock, event>>
    <3>1. pc'[c] # "append" /\ \A d \in Commands \ {c} : pc'[d] = pc[d]
      BY <1>t, <2>3 DEF Goto
    <3> QED
      BY <1>t, <2>1, <2>3, <3>1, LifeGoes
  <2> QED
    BY <1>2, <2>2, <2>3 DEF CheckKey, BeginAttempt, Post
<1>3. ASSUME NEW c \in Commands, PersistEvent(c)
      PROVE  CInv' /\ (LastState' = LastState \/ Follows(LastState, LastState'))
  <2> DEFINE e == event[c]
             n == Len(log)
  <2>1. /\ pc[c] = "append" /\ Busy(c) /\ UNCHANGED <<clock, given, event>>
        /\ read'[c] = [status |-> e.status, attempt |-> e.attempt]
        /\ pc'[c] \in {"post", "done"}
        /\ \A d \in Commands \ {c} : pc'[d] = pc[d]
    BY <1>t, <1>3 DEF PersistEvent, AfterAppend, Goto, Busy, TypeOK
  <2>2. /\ e \in Event /\ Follows(LastState, e)
        /\ e.at <= clock /\ \A i \in 1 .. n : log[i].at < e.at
    BY <2>1 DEF IInv, EventFollowsRead, CInv, ReadIsLast
  <2>3. /\ n \in Nat /\ DOMAIN log = 1 .. n
        /\ \A i \in 1 .. n : log[i].attempt \in Nat
        /\ e.attempt \in Nat /\ LastState.attempt \in Nat
    <3>1. n \in Nat /\ DOMAIN log = 1 .. n /\ \A i \in 1 .. n : log[i] \in Row
      BY <1>t DEF TypeOK
    <3>2. \A i \in 1 .. n : log[i].attempt \in Nat
      BY <3>1 DEF Row
    <3>3. e.attempt \in Nat
      BY <2>2 DEF Event
    <3>4. log # <<>> => n \in 1 .. n
      BY <1>t, <3>1 DEF TypeOK
    <3> QED
      BY <3>1, <3>2, <3>3, <3>4 DEF LastState, StateAt, NoEvent
  <2>4. \A i \in 1 .. n : Rank(log[i]) < Rank(e)
    <3> SUFFICES ASSUME NEW i \in 1 .. n
                 PROVE  Rank(log[i]) < Rank(e)
      OBVIOUS
    <3>1. log # <<>> /\ LastState = StateAt(n)
      BY <2>3 DEF LastState
    <3>2. Rank(LastState) = Rank(log[n])
      BY <3>1 DEF StateAt, Rank
    <3>3. Rank(LastState) < Rank(e)
      BY <2>2, <2>3, RankGrows
    <3>4. /\ Rank(e) \in Nat /\ Rank(log[i]) \in Nat /\ Rank(log[n]) \in Nat
      BY <2>3, RankIsNat
    <3>5. CASE i = n
      BY <3>2, <3>3, <3>5
    <3>6. CASE i < n
      <4>1. Rank(log[i]) < Rank(log[n])
        BY <2>3, <3>6 DEF CInv, LogOrdered
      <4> QED
        BY <3>2, <3>3, <3>4, <4>1
    <3>7. i = n \/ i < n
      <4>1. n \in Nat
        BY <2>3
      <4> HIDE DEF n
      <4> QED
        BY <4>1
    <3> QED
      BY <3>5, <3>6, <3>7
  <2>5. \A i \in DOMAIN log : Identity(log[i]) # Identity(e)
    <3> SUFFICES ASSUME NEW i \in 1 .. n, Identity(log[i]) = Identity(e)
                 PROVE  FALSE
      BY <2>3
    <3>1. log[i].status = e.status /\ log[i].attempt = e.attempt
      BY DEF Identity
    <3>2. Rank(log[i]) = Rank(e)
      BY <3>1 DEF Rank
    <3>3. Rank(e) \in Nat
      BY <2>3, RankIsNat
    <3> QED
      BY <2>4, <3>2, <3>3
  <2>6. PICK id \in EventIds :
          log' = Append(log, [status |-> e.status, key |-> e.key,
                              attempt |-> e.attempt, at |-> e.at, id |-> id])
    BY <1>3, <2>5 DEF PersistEvent
  <2>7. PICK row : row = [status |-> e.status, key |-> e.key,
                          attempt |-> e.attempt, at |-> e.at, id |-> id]
    OBVIOUS
  <2>8. row \in Row
    BY <2>2, <2>7, DigestsAssumption DEF Event, Row, EventIds
  <2>9. /\ log' = Append(log, row)
        /\ Len(log') = n + 1
        /\ \A i \in 1 .. n : log'[i] = log[i]
        /\ log'[n + 1] = row
    BY <1>t, <2>6, <2>7, <2>8, AppendFacts
  <2>10. /\ row.at = e.at /\ row.status = e.status /\ row.attempt = e.attempt
    BY <2>7
  <2>11. Rank(row) = Rank(e)
    BY <2>10 DEF Rank
  <2>12. LastState' = [status |-> e.status, attempt |-> e.attempt]
    <3>1. log' # <<>>
      BY <2>3, <2>9
    <3> QED
      BY <2>9, <2>10, <3>1 DEF LastState, StateAt
  <2>13. LogOrdered'
    <3>1. \A i \in 1 .. n + 1 : log'[i].at <= clock'
      <4>1. \A i \in 1 .. n : log'[i].at <= clock'
        BY <2>1, <2>9 DEF CInv, LogOrdered
      <4>2. log'[n + 1].at <= clock'
        BY <2>1, <2>2, <2>9, <2>10
      <4> QED
        BY <2>3, <4>1, <4>2
    <3>2. ASSUME NEW i \in 1 .. n + 1, NEW j \in 1 .. n + 1, i < j
          PROVE  log'[i].at < log'[j].at /\ Rank(log'[i]) < Rank(log'[j])
      <4>1. i \in 1 .. n /\ log'[i] = log[i]
        BY <2>3, <2>9, <3>2
      <4>2. CASE j \in 1 .. n
        BY <2>9, <3>2, <4>1, <4>2 DEF CInv, LogOrdered
      <4>3. CASE j = n + 1
        BY <2>2, <2>4, <2>9, <2>10, <2>11, <4>1, <4>3
      <4> QED
        BY <2>3, <4>2, <4>3
    <3> QED
      BY <2>9, <3>1, <3>2 DEF LogOrdered, Rank
  <2>14. \A d \in Commands \ {c} : ~Busy(d)'
    BY <2>1 DEF KInv, OneBusy, Busy, Ordinary
  <2>15. ReadIsLast'
    BY <2>1, <2>12, <2>14 DEF ReadIsLast, Busy
  <2>16. Follows(LastState, LastState')
    BY <2>2, <2>12 DEF Follows
  <2> QED
    BY <2>13, <2>15, <2>16 DEF CInv
<1>4. ASSUME NEW c \in Commands, Rerun(c)
      PROVE  CInv' /\ LastState' = LastState
  <2>1. /\ pc'[c] = "idle"
        /\ \A d \in Commands \ {c} :
             pc'[d] = pc[d] /\ read'[d] = read[d] /\ event'[d] = event[d]
        /\ UNCHANGED <<log, clock, given>>
    BY <1>t, <1>4 DEF Rerun, Goto, TypeOK
  <2>2. LogOrdered' /\ LastState' = LastState
    BY <1>t, <2>1, LastStays
  <2>3. ASSUME NEW d \in Commands
        PROVE  /\ Busy(d)' => read'[d] = LastState'
               /\ pc'[d] = "append" =>
                    /\ event'[d].at <= clock'
                    /\ \A i \in 1 .. Len(log') : log'[i].at < event'[d].at
    <3>1. CASE d = c
      BY <2>1, <3>1 DEF Busy
    <3>2. CASE d # c
      BY <2>1, <2>2, <3>2 DEF CInv, ReadIsLast, Busy
    <3> QED
      BY <3>1, <3>2
  <2>4. ReadIsLast'
    BY <2>3 DEF ReadIsLast
  <2> QED
    BY <2>2, <2>4 DEF CInv
<1> QED
  BY <1>u, <1>1, <1>2, <1>3, <1>4 DEF Next

\* What the refinement shows of the current state.
ShowsLast ==
  CurrentState = IF given \in Ordinary THEN LastState ELSE NoEvent

LEMMA LifeStart == Init => CInv
  BY DEF Init, CInv, LogOrdered, ReadIsLast, Busy

\* Commands that are given one at a time, with clocks that tell their events
\* apart, implement DeliveryLifecycle: the latest event moves as the code's
\* table of transitions says, wherever a command stops and is given again.
THEOREM DeliveryIsLifecycle == Spec => ImplementsLifecycle
<1> DEFINE I == IInv /\ KInv /\ CInv
<1>1. Init => I
  BY InvInit, KeysInit, LifeStart
<1>2. I /\ [Next]_vars => I'
  <2> SUFFICES ASSUME I, [Next]_vars
               PROVE  I'
    OBVIOUS
  <2>1. IInv' /\ KInv'
    BY InvStep, KeysStep
  <2>2. given' = given
    BY DEF Next, ReadLatest, CheckKey, BeginAttempt, PersistEvent, Post, Rerun,
           Goto, vars
  <2>3. CASE given \in Ordinary
    BY <2>1, <2>3, LifeStep
  <2>4. CASE given \notin Ordinary
    BY <2>1, <2>2, <2>4 DEF CInv
  <2> QED
    BY <2>3, <2>4
<1>3. I => ShowsLast
  <2> SUFFICES ASSUME I
               PROVE  ShowsLast
    OBVIOUS
  <2>1. given \in Ordinary => Current = {LastState}
    BY CurrentIsLast DEF CInv, IInv
  <2>2. (CHOOSE state \in {LastState} : TRUE) = LastState
    OBVIOUS
  <2> QED
    BY <2>1, <2>2 DEF ShowsLast, CurrentState, Ordinary
<1>4. Init => Lifecycle!Init
  <2> SUFFICES ASSUME Init
               PROVE  Lifecycle!Init
    OBVIOUS
  <2>1. I
    BY <1>1
  <2>2. LastState = NoEvent
    BY DEF Init, LastState
  <2>3. CurrentState = NoEvent
    BY <1>3, <2>1, <2>2 DEF ShowsLast
  <2> QED
    BY <2>3 DEF Lifecycle!Init, NoEvent
<1>5. I /\ ShowsLast /\ ShowsLast' /\ [Next]_vars
      => [Lifecycle!Next]_<<CurrentState.status, CurrentState.attempt>>
  <2> SUFFICES ASSUME I, ShowsLast, ShowsLast', [Next]_vars
               PROVE  [Lifecycle!Next]_<<CurrentState.status, CurrentState.attempt>>
    OBVIOUS
  <2>1. given' = given
    BY DEF Next, ReadLatest, CheckKey, BeginAttempt, PersistEvent, Post, Rerun,
           Goto, vars
  <2>2. CurrentState = IF given \in Ordinary THEN LastState ELSE NoEvent
    BY DEF ShowsLast
  <2>3. CurrentState' = IF given' \in Ordinary THEN LastState' ELSE NoEvent
    BY DEF ShowsLast, NoEvent
  <2>4. CASE CurrentState' = CurrentState
    BY <2>4
  <2>5. CASE given \in Ordinary /\ LastState' # LastState
    <3>1. Follows(CurrentState, CurrentState')
      BY <2>1, <2>2, <2>3, <2>5, LifeStep
    <3> QED
      BY <3>1, NoneAssumption
         DEF Follows, Lifecycle!Next, Lifecycle!Start, Lifecycle!Finish,
             Lifecycle!Abandon
  <2> QED
    BY <2>1, <2>2, <2>3, <2>4, <2>5
<1> HIDE DEF I
<1> QED
  BY <1>1, <1>2, <1>3, <1>4, <1>5, PTL DEF Spec, ImplementsLifecycle, Lifecycle!Spec
=============================================================================
