------------------------ MODULE ModelLifecycleProofs ------------------------
(***************************************************************************)
(* Proofs about ModelLifecycle, for every set of executions and of         *)
(* candidates and every bound on the executions that begin.                *)
(*                                                                         *)
(* Both readers of the champion choose the latest of a set of events, and  *)
(* that there is a latest one rests on the clock (Stamped): LatestExists.  *)
(* The invariant IInv says of every execution under way how far it has     *)
(* established the evidence of its candidate (Underway).  Nothing is known *)
(* of the ids that an operator types; so the readers agree under the       *)
(* condition that these are well named, and Ordered says the rest.         *)
(***************************************************************************)
EXTENDS ModelLifecycle, DataLemmas, TLAPS

\* A candidate that is registered, checked and evaluated.
HasEvidence(c) ==
  /\ c \in registered
  /\ c \in checked
  /\ \E f \in events : f.candidate = c /\ f.type = "evaluated"

Stamped ==
  \A e \in events : e.at < clock /\ e.to \in {"candidate", "rejected", "champion"}

\* What holds of an event when it is built, and stays true.
Vouched(e) ==
  e.to = "champion" =>
    /\ e.candidate \in Passing \/ e.reason # None
    /\ e.type = "promoted" => HasEvidence(e.candidate)

Evaluating(x) ==
  /\ event[x] \in Event
  /\ event[x].type = "evaluated"
  /\ event[x].to \in {"candidate", "rejected"}
  /\ event[x].at < clock
  /\ action[x] = "cycle" => waiver[x] = None

Promoting(x) ==
  /\ event[x] \in Event
  /\ event[x].to = "champion"
  /\ event[x].at < clock
  /\ Vouched(event[x])

Underway ==
  \A x \in Executions :
    /\ pc[x] \in {"candidate", "checks", "evaluated", "promote"} => Evaluating(x)
    /\ pc[x] \in {"checks", "evaluated", "promote"} =>
         event[x].candidate \in registered
    /\ pc[x] \in {"evaluated", "promote"} => event[x].candidate \in checked
    /\ pc[x] = "promote" =>
         /\ HasEvidence(event[x].candidate)
         /\ event[x].candidate \in Passing \/ waiver[x] # None
    /\ pc[x] = "champion" => Promoting(x)

IInv ==
  /\ TypeOK
  /\ ChampionHasEvidence
  /\ Stamped
  /\ Underway

-----------------------------------------------------------------------------
(* The latest of a set of events.                                          *)

\* The champion of the pipelines is the candidate of a latest champion event.
LEMMA ChampionIsLatest ==
  ASSUME TypeOK, Stamped, ChampionEvents # {}
  PROVE  \E e \in ChampionEvents :
           e.candidate = Champion /\ \A f \in ChampionEvents : f.at <= e.at
<1> DEFINE at == [e \in ChampionEvents |-> e.at]
<1>1. \A e \in ChampionEvents : e \in events /\ e.at \in Nat /\ e.at <= clock
  BY DEF ChampionEvents, TypeOK, Event, Stamped
<1>2. at \in [ChampionEvents -> Nat] /\ \A e \in ChampionEvents : at[e] <= clock
  BY <1>1
<1>3. clock \in Nat
  BY DEF TypeOK
<1>4. \E e \in ChampionEvents : \A f \in ChampionEvents : at[f] <= at[e]
  <2> HIDE DEF at
  <2> QED
    BY <1>2, <1>3, LatestExists
<1>5. \E e \in ChampionEvents : \A f \in ChampionEvents : f.at <= e.at
  BY <1>4
<1> QED
  BY <1>5 DEF Champion

\* The row that a candidate's state is taken from is one of its rows, and ranks
\* before every other.
LEMMA LatestRowIs ==
  ASSUME TypeOK, Stamped, NEW c, RankedEvents(c) # {}
  PROVE  /\ LatestRow(c) \in RankedEvents(c)
         /\ \A s \in RankedEvents(c) :
              \/ s.at < LatestRow(c).at
              \/ s.at = LatestRow(c).at /\ s.priority <= LatestRow(c).priority
<1> DEFINE rank == [r \in RankedEvents(c) |-> 2 * r.at + r.priority]
<1>1. \A r \in RankedEvents(c) :
        r.at \in Nat /\ r.at < clock /\ r.priority \in {1, 2}
  BY DEF RankedEvents, TypeOK, Event, Stamped
<1>2. clock \in Nat
  BY DEF TypeOK
<1>3. rank \in [RankedEvents(c) -> Nat]
  BY <1>1
<1>4. \A r \in RankedEvents(c) : rank[r] <= 2 * clock + 2
  BY <1>1, <1>2
<1>5. PICK r \in RankedEvents(c) : \A s \in RankedEvents(c) : rank[s] <= rank[r]
  <2> HIDE DEF rank
  <2>1. 2 * clock + 2 \in Nat
    BY <1>2
  <2> QED
    BY <1>3, <1>4, <2>1, LatestExists
<1>6. ASSUME NEW s \in RankedEvents(c)
      PROVE  s.at < r.at \/ (s.at = r.at /\ s.priority <= r.priority)
  <2>1. 2 * s.at + s.priority <= 2 * r.at + r.priority
    BY <1>5
  <2>2. /\ r.at \in Nat /\ r.priority \in {1, 2}
        /\ s.at \in Nat /\ s.priority \in {1, 2}
    BY <1>1
  <2> QED
    BY <2>1, <2>2
<1> QED
  BY <1>6 DEF LatestRow

\* The champion of the view is a champion by its latest row, and no other
\* champion has a later one.
LEMMA ViewChampionIs ==
  ASSUME TypeOK, Stamped, InState("champion") # {}
  PROVE  /\ ViewChampion \in InState("champion")
         /\ \A d \in InState("champion") :
              LatestRow(d).at <= LatestRow(ViewChampion).at
<1> DEFINE at == [d \in InState("champion") |-> LatestRow(d).at]
<1>1. ASSUME NEW d \in InState("champion")
      PROVE  LatestRow(d).at \in Nat /\ LatestRow(d).at <= clock
  <2>1. RankedEvents(d) # {}
    BY DEF InState, LifecycleState
  <2>2. LatestRow(d) \in RankedEvents(d)
    BY <2>1, LatestRowIs
  <2> QED
    BY <2>2 DEF RankedEvents, TypeOK, Event, Stamped
<1>2. /\ at \in [InState("champion") -> Nat]
      /\ \A d \in InState("champion") : at[d] <= clock
  BY <1>1
<1>3. clock \in Nat
  BY DEF TypeOK
<1>4. \E c \in InState("champion") : \A d \in InState("champion") : at[d] <= at[c]
  <2> HIDE DEF at
  <2> QED
    BY <1>2, <1>3, LatestExists
<1>5. \E c \in InState("champion") :
        \A d \in InState("champion") : LatestRow(d).at <= LatestRow(c).at
  BY <1>4
<1> QED
  BY <1>5 DEF ViewChampion

-----------------------------------------------------------------------------
(* What the readers show.                                                  *)

\* A candidate that the view shows as champion has a champion event.
LEMMA InStateChampion ==
  ASSUME TypeOK, Stamped, NEW c \in InState("champion")
  PROVE  \E e \in events : /\ e.candidate = c /\ e.to = "champion"
                           /\ e.at = LatestRow(c).at
<1>1. RankedEvents(c) # {} /\ LatestRow(c).state = "champion"
  BY DEF InState, LifecycleState
<1>2. LatestRow(c) \in RankedEvents(c)
  BY <1>1, LatestRowIs
<1> QED
  BY <1>1, <1>2 DEF RankedEvents

\* The champion that the flow resolves is a candidate.
LEMMA ChampionType ==
  ASSUME TypeOK, Stamped
  PROVE  Champion \in Candidates \union {None}
<1>1. ASSUME Champion # None
      PROVE  Champion \in Candidates
  <2>1. ChampionEvents # {}
    BY <1>1 DEF Champion
  <2>2. PICK e \in ChampionEvents : e.candidate = Champion
    BY <2>1, ChampionIsLatest
  <2> QED
    BY <2>2 DEF ChampionEvents, TypeOK, Event
<1> QED
  BY <1>1

-----------------------------------------------------------------------------
(* The invariant.                                                          *)

LEMMA LifecycleStart == Init => IInv
BY StartsAssumption
   DEF Init, IInv, TypeOK, Places, ChampionHasEvidence, Stamped, Underway

\* Evidence is never withdrawn.
LEMMA EvidenceStays ==
  ASSUME registered \subseteq registered', checked \subseteq checked',
         events \subseteq events', NEW c, HasEvidence(c)
  PROVE  HasEvidence(c)'
BY DEF HasEvidence

\* An event that was inserted before is found again.
LEMMA SameEvent ==
  ASSUME NEW e \in Event, NEW f \in Event, Identity(f) = Identity(e)
  PROVE  f.candidate = e.candidate /\ f.type = e.type /\ f.to = e.to
<1>1. /\ Identity(e).candidate = e.candidate /\ Identity(f).candidate = f.candidate
      /\ Identity(e).type = e.type /\ Identity(f).type = f.type
      /\ Identity(e).to = e.to /\ Identity(f).to = f.to
  BY DEF Identity, Event
<1> QED
  BY <1>1

\* A step that stores nothing and builds at most the event of one execution
\* keeps what is said of the events, and of the other executions.
LEMMA OthersStay ==
  ASSUME IInv, NEW x \in Executions,
         registered \subseteq registered', checked \subseteq checked',
         events \subseteq events', clock' \in Nat, clock <= clock',
         \A y \in Executions \ {x} :
           /\ pc'[y] = pc[y] /\ event'[y] = event[y] /\ action'[y] = action[y]
           /\ waiver'[y] = waiver[y] /\ replaced'[y] = replaced[y],
         NEW y \in Executions \ {x}
  PROVE  /\ pc'[y] \in {"candidate", "checks", "evaluated", "promote"} =>
              Evaluating(y)'
         /\ pc'[y] \in {"checks", "evaluated", "promote"} =>
              event'[y].candidate \in registered'
         /\ pc'[y] \in {"evaluated", "promote"} => event'[y].candidate \in checked'
         /\ pc'[y] = "promote" =>
              /\ HasEvidence(event[y].candidate)'
              /\ event'[y].candidate \in Passing \/ waiver'[y] # None
         /\ pc'[y] = "champion" => Promoting(y)'
<1>1. clock \in Nat
  BY DEF IInv, TypeOK
<1>2. event[y] \in Event => event[y].at \in Nat
  BY DEF Event
<1>3. /\ pc'[y] = pc[y] /\ event'[y] = event[y] /\ action'[y] = action[y]
      /\ waiver'[y] = waiver[y] /\ replaced'[y] = replaced[y]
  OBVIOUS
<1>4. \A c : HasEvidence(c) => HasEvidence(c)'
  BY EvidenceStays
<1>5. ASSUME pc'[y] \in {"candidate", "checks", "evaluated", "promote"}
      PROVE  Evaluating(y)'
  <2>1. Evaluating(y)
    BY <1>3, <1>5 DEF IInv, Underway
  <2> QED
    BY <1>1, <1>2, <1>3, <1>4, <2>1 DEF Evaluating
<1>6. ASSUME pc'[y] = "champion"
      PROVE  Promoting(y)'
  <2>1. Promoting(y)
    BY <1>3, <1>6 DEF IInv, Underway
  <2> QED
    BY <1>1, <1>2, <1>3, <1>4, <2>1 DEF Promoting, Vouched
<1>7. pc'[y] \in {"checks", "evaluated", "promote"} =>
        event'[y].candidate \in registered'
  BY <1>3 DEF IInv, Underway
<1>8. pc'[y] \in {"evaluated", "promote"} => event'[y].candidate \in checked'
  BY <1>3 DEF IInv, Underway
<1>9. pc'[y] = "promote" =>
        /\ HasEvidence(event[y].candidate)'
        /\ event'[y].candidate \in Passing \/ waiver'[y] # None
  BY <1>3, <1>4 DEF IInv, Underway
<1> QED
  BY <1>5, <1>6, <1>7, <1>8, <1>9

\* The three kinds of events are events.
LEMMA BuiltEvents ==
  ASSUME TypeOK, NEW c \in Candidates, NEW old \in Candidates \union {None},
         NEW why \in Reasons \union {None}
  PROVE  /\ Evaluated(c) \in Event
         /\ Promoted(c, old, why) \in Event
         /\ RolledBack(c, old, why) \in Event
BY DEF TypeOK, Event, EventTypes, States, Evaluated, Promoted, RolledBack

\* One step keeps the types.
LEMMA TypeStep == IInv /\ [Next]_vars => TypeOK'
<1> SUFFICES ASSUME IInv, [Next]_vars
             PROVE  TypeOK'
  OBVIOUS
<1> USE DEF TypeOK, Places, tables, Goto, Build, Stamp
<1>0. TypeOK
  BY DEF IInv
<1>1. ASSUME NEW x \in Executions, BeginCycle(x)
      PROVE  TypeOK'
  <2>1. PICK c \in Candidates : event' = [event EXCEPT ![x] = Evaluated(c)]
    BY <1>1 DEF BeginCycle
  <2>2. Evaluated(c) \in Event
    BY <1>0, BuiltEvents
  <2> QED
    BY <1>0, <1>1, <2>1, <2>2, StartsAssumption DEF BeginCycle, Begins
<1>2. ASSUME NEW x \in Executions, BeginPromote(x)
      PROVE  TypeOK'
  <2>1. PICK c \in Candidates : event' = [event EXCEPT ![x] = Evaluated(c)]
    BY <1>2 DEF BeginPromote
  <2>2. Evaluated(c) \in Event
    BY <1>0, BuiltEvents
  <2> QED
    BY <1>0, <1>2, <2>1, <2>2, StartsAssumption DEF BeginPromote, Begins
<1>3. ASSUME NEW x \in Executions, BeginRollback(x)
      PROVE  TypeOK'
  <2>1. PICK c \in Candidates, old \in Candidates, why \in Reasons :
          event' = [event EXCEPT ![x] = RolledBack(c, old, why)]
    BY <1>3 DEF BeginRollback
  <2>2. RolledBack(c, old, why) \in Event
    BY <1>0, BuiltEvents
  <2> QED
    BY <1>0, <1>3, <2>1, <2>2, StartsAssumption DEF BeginRollback, Begins
<1>4. ASSUME NEW x \in Executions, PersistCandidate(x)
      PROVE  TypeOK'
  <2>1. event[x] \in Event
    BY <1>4 DEF IInv, Underway, PersistCandidate, Evaluating
  <2> QED
    BY <1>0, <1>4, <2>1 DEF PersistCandidate, Event
<1>5. ASSUME NEW x \in Executions, PersistChecks(x)
      PROVE  TypeOK'
  <2>1. event[x] \in Event
    BY <1>5 DEF IInv, Underway, PersistChecks, Evaluating
  <2> QED
    BY <1>0, <1>5, <2>1 DEF PersistChecks, Event
<1>6. ASSUME NEW x \in Executions, PersistEvaluated(x)
      PROVE  TypeOK'
  <2>1. event[x] \in Event
    BY <1>6 DEF IInv, Underway, PersistEvaluated, Evaluating
  <2>2. events' \subseteq Event
    BY <1>0, <1>6, <2>1 DEF PersistEvaluated, WithEvent
  <2> QED
    BY <1>0, <1>6, <2>2 DEF PersistEvaluated
<1>7. ASSUME NEW x \in Executions, ResolveChampion(x)
      PROVE  TypeOK'
  <2>1. event[x] \in Event /\ Champion \in Candidates \union {None}
    BY <1>7, ChampionType DEF IInv, Underway, ResolveChampion, Evaluating
  <2>2. event[x].candidate \in Candidates
    BY <2>1 DEF Event
  <2>3. Promoted(event[x].candidate, Champion, None) \in Event
    BY <1>0, <2>1, <2>2, BuiltEvents
  <2> QED
    BY <1>0, <1>7, <2>1, <2>2, <2>3 DEF ResolveChampion
<1>8. ASSUME NEW x \in Executions, BuildPromotion(x)
      PROVE  TypeOK'
  <2>1. event[x] \in Event
    BY <1>8 DEF IInv, Underway, BuildPromotion, Evaluating
  <2>2. event[x].candidate \in Candidates
    BY <2>1 DEF Event
  <2>3. Promoted(event[x].candidate, replaced[x], waiver[x]) \in Event
    BY <1>0, <2>2, BuiltEvents
  <2> QED
    BY <1>0, <1>8, <2>3 DEF BuildPromotion
<1>9. ASSUME NEW x \in Executions, PersistChampion(x)
      PROVE  TypeOK'
  <2>1. event[x] \in Event
    BY <1>9 DEF IInv, Underway, PersistChampion, Promoting
  <2>2. events' \subseteq Event /\ event[x].candidate \in Candidates
    BY <1>0, <1>9, <2>1 DEF PersistChampion, WithEvent, Event
  <2> QED
    BY <1>0, <1>9, <2>2 DEF PersistChampion
<1>10. ASSUME NEW x \in Executions, Stop(x)
       PROVE  TypeOK'
  BY <1>0, <1>10 DEF Stop
<1>11. CASE UNCHANGED vars
  BY <1>0, <1>11 DEF vars
<1> QED
  BY <1>1, <1>2, <1>3, <1>4, <1>5, <1>6, <1>7, <1>8, <1>9, <1>10, <1>11 DEF Next

\* What an insert of an event leaves: the events there were, and perhaps it.
LEMMA Inserted ==
  ASSUME TypeOK, NEW e \in Event, events' = WithEvent(e)
  PROVE  /\ events \subseteq events'
         /\ \A f \in events' : f \in events \/ f = e
         /\ \E f \in events' : f.candidate = e.candidate /\ f.type = e.type
<1>1. CASE \E f \in events : Identity(f) = Identity(e)
  BY <1>1, SameEvent DEF WithEvent, TypeOK
<1>2. CASE ~\E f \in events : Identity(f) = Identity(e)
  BY <1>2 DEF WithEvent
<1> QED
  BY <1>1, <1>2

\* What the invariant says of the events stays true when every event is one
\* there was or the champion event that has its evidence.
LEMMA EventsStay ==
  ASSUME IInv, registered \subseteq registered', checked \subseteq checked',
         events \subseteq events', clock' \in Nat, clock <= clock',
         \A e \in events' \ events :
           /\ e \in Event /\ e.at < clock
           /\ e.to \in {"candidate", "rejected", "champion"}
           /\ Vouched(e)
  PROVE  ChampionHasEvidence' /\ Stamped'
<1>1. clock \in Nat /\ \A e \in events : e.at \in Nat
  BY DEF IInv, TypeOK, Event
<1>2. \A e \in events' \ events : e.at \in Nat
  BY DEF Event
<1>3. \A e \in events' : Vouched(e)
  BY DEF IInv, ChampionHasEvidence, HasEvidence, Vouched
<1>4. \A e : Vouched(e) => Vouched(e)'
  BY EvidenceStays DEF Vouched
<1>5. ChampionHasEvidence'
  BY <1>3, <1>4 DEF ChampionHasEvidence, HasEvidence, Vouched
<1>6. Stamped'
  BY <1>1, <1>2 DEF IInv, Stamped
<1> QED
  BY <1>5, <1>6

\* What the invariant says of one execution.
Progress(x) ==
  /\ pc[x] \in {"candidate", "checks", "evaluated", "promote"} => Evaluating(x)
  /\ pc[x] \in {"checks", "evaluated", "promote"} => event[x].candidate \in registered
  /\ pc[x] \in {"evaluated", "promote"} => event[x].candidate \in checked
  /\ pc[x] = "promote" =>
       /\ HasEvidence(event[x].candidate)
       /\ event[x].candidate \in Passing \/ waiver[x] # None
  /\ pc[x] = "champion" => Promoting(x)

\* It suffices to show it of the execution that takes the step, and of the
\* event that the step inserts.
LEMMA StepOf ==
  ASSUME IInv, TypeOK', NEW x \in Executions,
         registered \subseteq registered', checked \subseteq checked',
         events \subseteq events', clock' = clock \/ clock' = clock + 1,
         \A y \in Executions \ {x} :
           /\ pc'[y] = pc[y] /\ event'[y] = event[y] /\ action'[y] = action[y]
           /\ waiver'[y] = waiver[y] /\ replaced'[y] = replaced[y],
         \A e \in events' \ events :
           /\ e \in Event /\ e.at < clock
           /\ e.to \in {"candidate", "rejected", "champion"}
           /\ Vouched(e),
         Progress(x)'
  PROVE  IInv'
<1>1. clock \in Nat /\ clock' \in Nat /\ clock <= clock'
  BY DEF IInv, TypeOK
<1>2. ChampionHasEvidence' /\ Stamped'
  BY <1>1, EventsStay
<1>3. ASSUME NEW y \in Executions
      PROVE  Progress(y)'
  <2>1. CASE y = x
    BY <2>1
  <2>2. CASE y # x
    BY <1>1, <2>2, OthersStay DEF Progress
  <2> QED
    BY <2>1, <2>2
<1>4. Underway'
  BY <1>3 DEF Underway, Progress
<1> QED
  BY <1>2, <1>4 DEF IInv

\* An execution that has built the promotion of a candidate with evidence, or
\* a rollback with a reason, may insert it.
LEMMA BuiltPromotes ==
  ASSUME NEW x \in Executions, NEW c, NEW old, NEW why, clock \in Nat,
         clock' = clock + 1, UNCHANGED tables,
         c \in Passing \/ why # None, event'[x] \in Event,
         \/ event'[x] = Promoted(c, old, why) /\ HasEvidence(c)
         \/ event'[x] = RolledBack(c, old, why)
  PROVE  Promoting(x)'
<1>1. HasEvidence(c) => HasEvidence(c)'
  BY DEF tables, HasEvidence
<1>2. /\ event'[x].candidate = c /\ event'[x].reason = why
      /\ event'[x].to = "champion" /\ event'[x].at = clock
      /\ event'[x].type = "promoted" => HasEvidence(c)
  BY DEF Promoted, RolledBack
<1>3. Vouched(event[x])'
  BY <1>1, <1>2 DEF Vouched, HasEvidence
<1> QED
  BY <1>2, <1>3 DEF Promoting

\* One step of any execution keeps the invariant.
LEMMA LifecycleStep == IInv /\ [Next]_vars => IInv'
<1> SUFFICES ASSUME IInv, [Next]_vars
             PROVE  IInv'
  OBVIOUS
<1>0. TypeOK /\ TypeOK'
  BY TypeStep DEF IInv
<1> USE DEF tables, Goto, Build, Stamp
<1>a. /\ pc \in [Executions -> Places] /\ event \in [Executions -> Event \union {None}]
      /\ action \in [Executions -> Actions \union {None}]
      /\ waiver \in [Executions -> Reasons \union {None}]
      /\ replaced \in [Executions -> Candidates \union {None}]
      /\ clock \in Nat
  BY <1>0 DEF TypeOK
<1>b. \A y \in Executions : Progress(y)
  BY DEF IInv, Underway, Progress
<1>1. ASSUME NEW x \in Executions, BeginCycle(x)
      PROVE  IInv'
  <2>1. PICK c \in Candidates : event' = [event EXCEPT ![x] = Evaluated(c)]
    BY <1>1 DEF BeginCycle
  <2>2. Evaluated(c) \in Event
    BY <1>0, BuiltEvents
  <2>3. Progress(x)'
    BY <1>1, <1>a, <2>1, <2>2
       DEF BeginCycle, Begins, Progress, Evaluating, Evaluated
  <2> QED
    BY <1>0, <1>1, <2>1, <2>3, StepOf DEF BeginCycle, Begins
<1>2. ASSUME NEW x \in Executions, BeginPromote(x)
      PROVE  IInv'
  <2>1. PICK c \in Candidates : event' = [event EXCEPT ![x] = Evaluated(c)]
    BY <1>2 DEF BeginPromote
  <2>2. Evaluated(c) \in Event
    BY <1>0, BuiltEvents
  <2>5. Evaluating(x)'
    <3>1. event'[x] = Evaluated(c) /\ clock' = clock + 1 /\ action'[x] = "promote"
      BY <1>2, <1>a, <2>1 DEF BeginPromote, Begins
    <3> QED
      BY <1>a, <2>2, <3>1 DEF Evaluating, Evaluated
  <2>6. Progress(x)'
    BY <1>2, <1>a, <2>5 DEF BeginPromote, Progress
  <2> QED
    BY <1>0, <1>2, <2>1, <2>6, StepOf DEF BeginPromote, Begins
<1>3. ASSUME NEW x \in Executions, BeginRollback(x)
      PROVE  IInv'
  <2>1. PICK c \in Candidates, old \in Candidates, why \in Reasons :
          event' = [event EXCEPT ![x] = RolledBack(c, old, why)]
    BY <1>3 DEF BeginRollback
  <2>2. RolledBack(c, old, why) \in Event
    BY <1>0, BuiltEvents
  <2>3. event'[x] = RolledBack(c, old, why) /\ clock' = clock + 1 /\ UNCHANGED tables
    BY <1>3, <1>a, <2>1 DEF BeginRollback
  <2>4. Promoting(x)'
    BY <1>a, <2>2, <2>3, NoneAssumption, BuiltPromotes
  <2>5. Progress(x)'
    BY <1>3, <1>a, <2>4 DEF BeginRollback, Progress
  <2> QED
    BY <1>0, <1>3, <2>1, <2>5, StepOf DEF BeginRollback, Begins
<1>4. ASSUME NEW x \in Executions, PersistCandidate(x)
      PROVE  IInv'
  <2>1. Evaluating(x) /\ Evaluating(x)'
    BY <1>4, <1>b DEF PersistCandidate, Progress, Evaluating
  <2>2. Progress(x)'
    BY <1>4, <1>a, <2>1 DEF PersistCandidate, Progress
  <2> QED
    BY <1>0, <1>4, <2>2, StepOf DEF PersistCandidate
<1>5. ASSUME NEW x \in Executions, PersistChecks(x)
      PROVE  IInv'
  <2>1. Evaluating(x) /\ Evaluating(x)'
    BY <1>5, <1>b DEF PersistChecks, Progress, Evaluating
  <2>2. Progress(x)'
    BY <1>5, <1>a, <1>b, <2>1 DEF PersistChecks, Progress
  <2> QED
    BY <1>0, <1>5, <2>2, StepOf DEF PersistChecks
<1>6. ASSUME NEW x \in Executions, PersistEvaluated(x)
      PROVE  IInv'
  <2>1. /\ Evaluating(x) /\ event[x].candidate \in registered
        /\ event[x].candidate \in checked
    BY <1>6, <1>b DEF PersistEvaluated, Progress
  <2>2. /\ event[x] \in Event /\ event[x].type = "evaluated"
        /\ event[x].at < clock /\ event[x].to \in {"candidate", "rejected"}
    BY <2>1 DEF Evaluating
  <2>3. /\ events \subseteq events'
        /\ \A f \in events' : f \in events \/ f = event[x]
        /\ \E f \in events' :
             f.candidate = event[x].candidate /\ f.type = event[x].type
    BY <1>0, <1>6, <2>2, Inserted DEF PersistEvaluated
  <2>4. HasEvidence(event[x].candidate)'
    BY <1>6, <2>1, <2>2, <2>3 DEF PersistEvaluated, HasEvidence
  <2>5. Evaluating(x)'
    BY <1>6, <2>1 DEF PersistEvaluated, Evaluating
  <2>6. Progress(x)'
    BY <1>6, <1>a, <2>1, <2>4, <2>5 DEF PersistEvaluated, Progress, MayPromote
  <2>7. /\ UNCHANGED <<registered, checked, clock, action, waiver, replaced, event>>
        /\ \A y \in Executions \ {x} : pc'[y] = pc[y]
    BY <1>6, <1>a DEF PersistEvaluated
  <2> QED
    BY <1>0, <1>6, <2>2, <2>3, <2>6, <2>7, StepOf DEF Vouched
<1>7. ASSUME NEW x \in Executions, ResolveChampion(x)
      PROVE  IInv'
  <2>0. PICK c : c = event[x].candidate
    OBVIOUS
  <2>1. /\ Evaluating(x) /\ HasEvidence(c)
        /\ c \in Passing \/ waiver[x] # None
        /\ action[x] = "cycle"
    BY <1>7, <1>b, <2>0 DEF ResolveChampion, Progress
  <2>2. c \in Candidates /\ c \in Passing
    BY <2>0, <2>1 DEF Evaluating, Event
  <2>a. UNCHANGED <<tables, action, waiver>>
    BY <1>7 DEF ResolveChampion
  <2>3. CASE AlreadyChampion(c)
    <3>1. pc' = [pc EXCEPT ![x] = "done"] /\ event' = event /\ replaced' = replaced
          /\ clock' = clock
      BY <1>7, <1>a, <2>0, <2>3 DEF ResolveChampion
    <3>2. Progress(x)'
      BY <1>a, <3>1 DEF Progress
    <3> QED
      BY <1>0, <1>a, <2>a, <3>1, <3>2, StepOf
  <2>4. CASE ~AlreadyChampion(c)
    <3>0. PICK old : old = Champion
      OBVIOUS
    <3>1. /\ pc' = [pc EXCEPT ![x] = "champion"] /\ clock' = clock + 1
          /\ event' = [event EXCEPT ![x] = Promoted(c, old, None)]
          /\ replaced' = [replaced EXCEPT ![x] = old]
      BY <1>7, <1>a, <2>0, <2>4, <3>0 DEF ResolveChampion
    <3>2. old \in Candidates \union {None}
      BY <1>0, <3>0, ChampionType DEF IInv
    <3>3. Promoted(c, old, None) \in Event
      BY <1>0, <2>2, <3>2, BuiltEvents
    <3>4. event'[x] = Promoted(c, old, None)
      BY <1>a, <3>1
    <3>5. Promoting(x)'
      BY <1>a, <2>1, <2>2, <2>a, <3>1, <3>2, <3>3, <3>4, BuiltPromotes
    <3>6. Progress(x)'
      BY <1>a, <3>1, <3>5 DEF Progress
    <3> QED
      BY <1>0, <1>a, <2>a, <3>1, <3>6, StepOf
  <2> QED
    BY <2>3, <2>4
<1>8. ASSUME NEW x \in Executions, BuildPromotion(x)
      PROVE  IInv'
  <2>0. PICK c, old, why :
          c = event[x].candidate /\ old = replaced[x] /\ why = waiver[x]
    OBVIOUS
  <2>1. /\ Evaluating(x) /\ HasEvidence(c)
        /\ c \in Passing \/ why # None
    BY <1>8, <1>b, <2>0 DEF BuildPromotion, Progress
  <2>2. c \in Candidates
    BY <2>0, <2>1 DEF Evaluating, Event
  <2>3. Promoted(c, old, why) \in Event
    BY <1>0, <1>a, <2>0, <2>2, BuiltEvents
  <2>4. /\ pc'[x] = "champion" /\ clock' = clock + 1 /\ UNCHANGED tables
        /\ event'[x] = Promoted(c, old, why)
    BY <1>8, <1>a, <2>0 DEF BuildPromotion
  <2>6. Promoting(x)'
    BY <1>a, <2>1, <2>2, <2>3, <2>4, BuiltPromotes
  <2>7. Progress(x)'
    BY <2>4, <2>6 DEF Progress
  <2> QED
    BY <1>0, <1>8, <2>7, StepOf DEF BuildPromotion
<1>9. ASSUME NEW x \in Executions, PersistChampion(x)
      PROVE  IInv'
  <2>1. Promoting(x)
    BY <1>9, <1>b DEF PersistChampion, Progress
  <2>2. /\ events \subseteq events'
        /\ \A f \in events' : f \in events \/ f = event[x]
    BY <1>0, <1>9, <2>1, Inserted DEF PersistChampion, Promoting
  <2>3. Progress(x)'
    BY <1>9, <1>a DEF PersistChampion, Progress
  <2> QED
    BY <1>0, <1>9, <2>1, <2>2, <2>3, StepOf DEF PersistChampion, Promoting
<1>10. ASSUME NEW x \in Executions, Stop(x)
       PROVE  IInv'
  <2>1. Progress(x)'
    BY <1>10, <1>a DEF Stop, Progress
  <2> QED
    BY <1>0, <1>10, <2>1, StepOf DEF Stop
<1>11. CASE UNCHANGED vars
  BY <1>0, <1>11
     DEF vars, IInv, ChampionHasEvidence, Stamped, Underway,
         Evaluating, Promoting, Vouched, HasEvidence
<1> QED
  BY <1>1, <1>2, <1>3, <1>4, <1>5, <1>6, <1>7, <1>8, <1>9, <1>10, <1>11 DEF Next

\* The lifecycle tables and the executions are well typed, so that every event
\* names a candidate, known states and a reason or none.
THEOREM LifecycleTypes == Spec => []TypeOK
<1>1. IInv => TypeOK
  BY DEF IInv
<1> QED
  BY <1>1, LifecycleStart, LifecycleStep, PTL DEF Spec

\* Whoever promotes or restores whatever at the same time, and wherever they
\* stop, a candidate is promoted registered, checked and evaluated, and nobody
\* becomes champion past failed gates without a reason.
THEOREM ChampionsHaveEvidence == Spec => []ChampionHasEvidence
<1>1. IInv => ChampionHasEvidence
  BY DEF IInv
<1> QED
  BY <1>1, LifecycleStart, LifecycleStep, PTL DEF Spec

-----------------------------------------------------------------------------
(* The readers agree.                                                      *)

\* The events that are stored and those that an execution is to store.
Underways == {x \in Executions : pc[x] \notin {"idle", "done"}}
Built == events \union {event[x] : x \in Underways}

\* All that evaluate_candidate makes of a candidate, but the time.
IsEvaluation(e) ==
  /\ e.type = "evaluated"
  /\ Identity(e) = Identity(Evaluated(e.candidate))

\* An event sets a champion or is an evaluation; no two were built at one
\* time; a candidate was evaluated before it was promoted, and is evaluated
\* only once, as an event that exists is not inserted.
Ordered ==
  /\ \A e \in Built :
       /\ e \in Event /\ e.at < clock
       /\ IF e.to = "champion" THEN e.type \in {"promoted", "rolled_back"}
                              ELSE IsEvaluation(e)
       /\ e.type = "promoted" =>
            \E f \in events : /\ f.candidate = e.candidate
                              /\ f.type = "evaluated" /\ f.at < e.at
  /\ \A e, f \in Built : e.at = f.at => e = f
  /\ \A e, f \in events :
       e.candidate = f.candidate /\ e.type = "evaluated" /\ f.type = "evaluated"
       => e = f
  /\ \A e \in events : e.type = "evaluated" => e.candidate \in registered

\* What both readers show when the events are ordered: the one candidate of the
\* latest event that set a champion.
LEMMA ReadersAgreeWhen ==
  ASSUME IInv, Ordered, \A e \in events : WellNamed(e)
  PROVE  ViewChampion = Champion
<1>a. TypeOK /\ Stamped /\ events \subseteq Built
  BY DEF IInv, Built
<1>c. \A e \in events : e.to = "champion" =>
        /\ e.candidate \in registered
        /\ \E f \in events : f.candidate = e.candidate /\ f.type = "evaluated" /\ f.at < e.at
  BY <1>a DEF Ordered, WellNamed
<1>b. \A e \in events : e \in ChampionEvents <=> e.to = "champion"
  BY <1>a, <1>c DEF Ordered, ChampionEvents
<1>1. CASE ChampionEvents = {}
  <2>1. InState("champion") = {}
    BY <1>1, <1>a, <1>b, InStateChampion
  <2> QED
    BY <1>1, <2>1 DEF Champion, ViewChampion
<1>2. CASE ChampionEvents # {}
  <2>1. PICK e \in ChampionEvents :
          e.candidate = Champion /\ \A f \in ChampionEvents : f.at <= e.at
    BY <1>2, <1>a, ChampionIsLatest
  <2>2. /\ e \in events /\ e.to = "champion" /\ e.at \in Nat
        /\ e.candidate \in registered
    BY <1>a DEF ChampionEvents, TypeOK, Event
  <2>3. PICK c, r : c = e.candidate /\ r = LatestRow(c)
    OBVIOUS
  <2>4. [at |-> e.at, priority |-> 1, state |-> "champion"] \in RankedEvents(c)
    BY <2>2, <2>3 DEF RankedEvents
  <2>5. r \in RankedEvents(c) /\ (e.at < r.at \/ e.at = r.at)
    BY <1>a, <2>3, <2>4, LatestRowIs
  <2>6. ASSUME \E f \in events : f.candidate = c /\ r.at = f.at /\ r.state = f.to
        PROVE  r.state = "champion" /\ r.at = e.at
    <3>1. PICK f \in events : f.candidate = c /\ r.at = f.at /\ r.state = f.to
      BY <2>6
    <3>2. f.at \in Nat
      BY <1>a DEF TypeOK, Event
    <3>3. f.to = "champion"
      <4> SUFFICES ASSUME f.to # "champion"
                   PROVE  FALSE
        OBVIOUS
      <4>1. f.type = "evaluated"
        BY <1>a DEF Ordered, IsEvaluation
      <4>2. PICK g \in events :
              g.candidate = c /\ g.type = "evaluated" /\ g.at < e.at
        BY <1>c, <2>2, <2>3
      <4>3. g = f
        BY <3>1, <4>1, <4>2 DEF Ordered
      <4> QED
        BY <2>2, <2>5, <3>1, <3>2, <4>2, <4>3
    <3>4. f.at <= e.at
      BY <1>b, <2>1, <3>3
    <3> QED
      BY <2>2, <2>5, <3>1, <3>2, <3>3, <3>4
  <2>7. ASSUME \E f \in events : f.replaces = c /\ f.to = "champion" /\ r.at = f.at
        PROVE  FALSE
    <3>1. PICK f \in events : f.replaces = c /\ f.to = "champion" /\ r.at = f.at
      BY <2>7
    <3>2. f.at \in Nat /\ f.at <= e.at
      BY <1>a, <1>b, <2>1, <3>1 DEF TypeOK, Event
    <3>3. f.at = e.at
      BY <2>2, <2>5, <3>1, <3>2
    <3>4. f = e
      BY <1>a, <2>2, <3>3 DEF Ordered
    <3> QED
      BY <2>2, <2>3, <3>1, <3>4 DEF WellNamed
  <2>8. r.state = "champion" /\ r.at = e.at
    <3>1. \/ \E f \in events : f.candidate = c /\ r.at = f.at /\ r.state = f.to
          \/ \E f \in events : f.replaces = c /\ f.to = "champion" /\ r.at = f.at
      BY <2>5 DEF RankedEvents
    <3> QED
      BY <2>6, <2>7, <3>1
  <2>9. c \in InState("champion")
    BY <2>2, <2>3, <2>4, <2>8 DEF InState, LifecycleState
  <2>10. PICK d : d = ViewChampion
    OBVIOUS
  <2>11. d \in InState("champion") /\ LatestRow(c).at <= LatestRow(d).at
    BY <1>a, <2>9, <2>10, ViewChampionIs
  <2>12. PICK g \in events : /\ g.candidate = d /\ g.to = "champion"
                             /\ g.at = LatestRow(d).at
    BY <1>a, <2>11, InStateChampion
  <2>13. g.at \in Nat /\ g.at <= e.at
    BY <1>a, <1>b, <2>1, <2>12 DEF TypeOK, Event
  <2>14. g.at = e.at
    BY <2>2, <2>3, <2>8, <2>11, <2>12, <2>13
  <2>15. g = e
    BY <1>a, <2>2, <2>14 DEF Ordered
  <2> QED
    BY <2>1, <2>3, <2>10, <2>12, <2>15
<1> QED
  BY <1>1, <1>2

\* A step that builds an event.
LEMMA BuildOrders ==
  ASSUME IInv, Ordered, NEW x \in Executions, NEW e \in Event, e.at = clock,
         event' = [event EXCEPT ![x] = e], clock' = clock + 1,
         events' = events, registered' = registered,
         \A y \in Executions \ {x} : pc'[y] = pc[y],
         IF e.to = "champion"
           THEN \/ e.type = "promoted" /\ HasEvidence(e.candidate)
                \/ e.type = "rolled_back"
           ELSE IsEvaluation(e)
  PROVE  Ordered'
<1>1. /\ clock \in Nat /\ event \in [Executions -> Event \union {None}]
      /\ \A f \in Event : f.at \in Nat
      /\ \A f \in events : f.at < clock
  BY DEF IInv, TypeOK, Event, Stamped
<1>2. Built' \subseteq Built \union {e}
  BY <1>1 DEF Built, Underways
<1>3. \A f : IsEvaluation(f) => IsEvaluation(f)'
  BY DEF IsEvaluation, Identity, Evaluated
<1>4. e.type = "promoted" => \E f \in events : /\ f.candidate = e.candidate
                                               /\ f.type = "evaluated" /\ f.at < e.at
  <2>1. e.type = "promoted" => HasEvidence(e.candidate)
    BY DEF IsEvaluation
  <2> QED
    BY <1>1, <2>1 DEF HasEvidence
<1>5. \A f \in Built' :
        /\ f \in Event /\ f.at < clock'
        /\ IF f.to = "champion" THEN f.type \in {"promoted", "rolled_back"}
                               ELSE IsEvaluation(f)'
        /\ f.type = "promoted" =>
             \E g \in events' : /\ g.candidate = f.candidate
                                /\ g.type = "evaluated" /\ g.at < f.at
  BY <1>1, <1>2, <1>3, <1>4 DEF Ordered
<1>6. \A f, g \in Built' : f.at = g.at => f = g
  <2>1. \A f \in Built : f.at \in Nat /\ f.at < clock
    BY <1>1 DEF Ordered
  <2> QED
    BY <1>1, <1>2, <2>1 DEF Ordered
<1> QED
  BY <1>5, <1>6 DEF Ordered

\* A step that inserts the event of an execution.
LEMMA InsertOrders ==
  ASSUME IInv, Ordered, NEW x \in Underways,
         events' = WithEvent(event[x]), UNCHANGED <<event, clock, registered>>,
         Underways' \subseteq Underways,
         event[x].type = "evaluated" => event[x].candidate \in registered
  PROVE  Ordered'
<1>1. PICK e : e = event[x]
  OBVIOUS
<1>2. e \in Built /\ events \subseteq Built
  BY <1>1 DEF Built
<1>3. /\ events \subseteq events'
      /\ \A f \in events' : f \in events \/ f = e
      /\ e \in events' /\ e \notin events =>
           \A f \in events : Identity(f) # Identity(e)
  BY <1>1 DEF WithEvent
<1>4. Built' \subseteq Built
  BY <1>2, <1>3 DEF Built, Underways
<1>5. \A f : IsEvaluation(f) => IsEvaluation(f)'
  BY DEF IsEvaluation, Identity, Evaluated
<1>6. \A f \in Built' :
        /\ f \in Event /\ f.at < clock'
        /\ IF f.to = "champion" THEN f.type \in {"promoted", "rolled_back"}
                               ELSE IsEvaluation(f)'
        /\ f.type = "promoted" =>
             \E g \in events' : /\ g.candidate = f.candidate
                                /\ g.type = "evaluated" /\ g.at < f.at
  BY <1>3, <1>4, <1>5 DEF Ordered
<1>7. \A f, g \in Built' : f.at = g.at => f = g
  BY <1>4 DEF Ordered
<1>8. ASSUME NEW f \in events, f.candidate = e.candidate,
             f.type = "evaluated", e.type = "evaluated", e \in events'
      PROVE  f = e
  <2>1. IsEvaluation(f) /\ IsEvaluation(e)
    BY <1>2, <1>8 DEF Ordered
  <2>2. Identity(f) = Identity(e)
    BY <1>8, <2>1 DEF IsEvaluation
  <2>3. e \in events
    BY <1>3, <1>8, <2>2
  <2> QED
    BY <1>8, <2>3 DEF Ordered
<1>9. \A f, g \in events' :
        f.candidate = g.candidate /\ f.type = "evaluated" /\ g.type = "evaluated"
        => f = g
  BY <1>3, <1>8 DEF Ordered
<1>10. \A f \in events' : f.type = "evaluated" => f.candidate \in registered'
  BY <1>1, <1>3 DEF Ordered
<1> QED
  BY <1>6, <1>7, <1>9, <1>10 DEF Ordered

\* A step that does neither.
LEMMA OtherOrders ==
  ASSUME Ordered, UNCHANGED <<event, clock, events>>,
         registered \subseteq registered', Underways' \subseteq Underways
  PROVE  Ordered'
<1>1. Built' \subseteq Built
  BY DEF Built
<1>2. \A f : IsEvaluation(f) => IsEvaluation(f)'
  BY DEF IsEvaluation, Identity, Evaluated
<1> QED
  BY <1>1, <1>2 DEF Ordered

\* Evaluations are evaluations, and the others set a champion.
LEMMA BuiltKinds ==
  ASSUME NEW c, NEW old, NEW why
  PROVE  /\ IsEvaluation(Evaluated(c)) /\ Evaluated(c).to # "champion"
         /\ Evaluated(c).at = clock
         /\ \A e \in {Promoted(c, old, why), RolledBack(c, old, why)} :
              e.to = "champion" /\ e.candidate = c /\ e.at = clock
         /\ Promoted(c, old, why).type = "promoted"
         /\ RolledBack(c, old, why).type = "rolled_back"
BY DEF IsEvaluation, Identity, Evaluated, Promoted, RolledBack

\* One step of any execution keeps the events ordered.
LEMMA OrderStep == IInv /\ Ordered /\ [Next]_vars => Ordered'
<1> SUFFICES ASSUME IInv, Ordered, [Next]_vars
             PROVE  Ordered'
  OBVIOUS
<1> USE DEF tables, Goto, Build, Stamp
<1>a. /\ TypeOK /\ pc \in [Executions -> Places]
      /\ event \in [Executions -> Event \union {None}]
      /\ waiver \in [Executions -> Reasons \union {None}]
      /\ replaced \in [Executions -> Candidates \union {None}]
  BY DEF IInv, TypeOK
<1>b. \A y \in Executions : Progress(y)
  BY DEF IInv, Underway, Progress
<1>1. ASSUME NEW x \in Executions, BeginCycle(x) \/ BeginPromote(x)
      PROVE  Ordered'
  <2>1. PICK c \in Candidates : event' = [event EXCEPT ![x] = Evaluated(c)]
    BY <1>1 DEF BeginCycle, BeginPromote
  <2>2. Evaluated(c) \in Event
    BY <1>a, NoneAssumption, BuiltEvents
  <2>3. /\ clock' = clock + 1 /\ events' = events /\ registered' = registered
        /\ \A y \in Executions \ {x} : pc'[y] = pc[y]
    BY <1>1, <1>a DEF BeginCycle, BeginPromote
  <2>4. PICK e : e = Evaluated(c)
    OBVIOUS
  <2>5. IsEvaluation(e) /\ e.to # "champion" /\ e.at = clock
    BY <2>4, BuiltKinds
  <2> QED
    BY <2>1, <2>2, <2>3, <2>4, <2>5, BuildOrders
<1>2. ASSUME NEW x \in Executions, BeginRollback(x)
      PROVE  Ordered'
  <2>1. PICK c \in Candidates, old \in Candidates, why \in Reasons :
          event' = [event EXCEPT ![x] = RolledBack(c, old, why)]
    BY <1>2 DEF BeginRollback
  <2>2. PICK e : e = RolledBack(c, old, why)
    OBVIOUS
  <2>3. e \in Event
    BY <1>a, <2>2, BuiltEvents
  <2>4. e.to = "champion" /\ e.type = "rolled_back" /\ e.at = clock
    BY <2>2, BuiltKinds
  <2>5. /\ clock' = clock + 1 /\ events' = events /\ registered' = registered
        /\ \A y \in Executions \ {x} : pc'[y] = pc[y]
    BY <1>2, <1>a DEF BeginRollback
  <2> QED
    BY <2>1, <2>2, <2>3, <2>4, <2>5, BuildOrders
<1>3. ASSUME NEW x \in Executions,
             PersistCandidate(x) \/ PersistChecks(x) \/ Stop(x)
      PROVE  Ordered'
  <2>1. /\ Underways' \subseteq Underways /\ UNCHANGED <<event, clock, events>>
        /\ registered \subseteq registered'
    BY <1>3, <1>a DEF Underways, PersistCandidate, PersistChecks, Stop
  <2> QED
    BY <2>1, OtherOrders
<1>4. ASSUME NEW x \in Executions, PersistEvaluated(x) \/ PersistChampion(x)
      PROVE  Ordered'
  <2>1. /\ x \in Underways /\ Underways' \subseteq Underways
        /\ events' = WithEvent(event[x]) /\ UNCHANGED <<event, clock, registered>>
    BY <1>4, <1>a DEF Underways, PersistEvaluated, PersistChampion
  <2>2. event[x].type = "evaluated" => event[x].candidate \in registered
    <3>1. CASE PersistEvaluated(x)
      BY <1>b, <3>1 DEF PersistEvaluated, Progress
    <3>2. CASE PersistChampion(x)
      <4>1. event[x].to = "champion" /\ event[x] \in Built
        BY <1>b, <2>1, <3>2 DEF PersistChampion, Progress, Promoting, Built
      <4> QED
        BY <4>1 DEF Ordered
    <3> QED
      BY <1>4, <3>1, <3>2
  <2> QED
    BY <2>1, <2>2, InsertOrders
<1>5. ASSUME NEW x \in Executions, ResolveChampion(x)
      PROVE  Ordered'
  <2>0. PICK c, old : c = event[x].candidate /\ old = Champion
    OBVIOUS
  <2>1. Evaluating(x) /\ HasEvidence(c)
    BY <1>5, <1>b, <2>0 DEF ResolveChampion, Progress
  <2>2. CASE AlreadyChampion(c)
    <3>1. /\ Underways' \subseteq Underways /\ UNCHANGED <<event, clock, events>>
          /\ registered' = registered
      BY <1>5, <1>a, <2>0, <2>2 DEF Underways, ResolveChampion
    <3> QED
      BY <3>1, OtherOrders
  <2>3. CASE ~AlreadyChampion(c)
    <3>0. PICK e : e = Promoted(c, old, None)
      OBVIOUS
    <3>1. /\ event' = [event EXCEPT ![x] = e] /\ clock' = clock + 1
          /\ events' = events /\ registered' = registered
          /\ \A y \in Executions \ {x} : pc'[y] = pc[y]
      BY <1>5, <1>a, <2>0, <2>3, <3>0 DEF ResolveChampion
    <3>2. c \in Candidates /\ old \in Candidates \union {None}
      BY <1>a, <2>0, <2>1, ChampionType DEF Evaluating, Event, IInv
    <3>3. e \in Event
      BY <1>a, <3>0, <3>2, BuiltEvents
    <3>4. /\ e.to = "champion" /\ e.type = "promoted"
          /\ e.candidate = c /\ e.at = clock
      BY <3>0, BuiltKinds
    <3> QED
      BY <2>1, <3>1, <3>3, <3>4, BuildOrders
  <2> QED
    BY <2>2, <2>3
<1>6. ASSUME NEW x \in Executions, BuildPromotion(x)
      PROVE  Ordered'
  <2>0. PICK c, old, why, e :
          /\ c = event[x].candidate /\ old = replaced[x] /\ why = waiver[x]
          /\ e = Promoted(c, old, why)
    OBVIOUS
  <2>1. Evaluating(x) /\ HasEvidence(c)
    BY <1>6, <1>b, <2>0 DEF BuildPromotion, Progress
  <2>2. c \in Candidates
    BY <2>0, <2>1 DEF Evaluating, Event
  <2>3. e \in Event
    BY <1>a, <2>0, <2>2, BuiltEvents
  <2>4. /\ e.to = "champion" /\ e.type = "promoted"
        /\ e.candidate = c /\ e.at = clock
    BY <2>0, BuiltKinds
  <2>5. /\ event' = [event EXCEPT ![x] = e] /\ clock' = clock + 1
        /\ events' = events /\ registered' = registered
        /\ \A y \in Executions \ {x} : pc'[y] = pc[y]
    BY <1>6, <1>a, <2>0 DEF BuildPromotion
  <2> QED
    BY <2>1, <2>3, <2>4, <2>5, BuildOrders
<1>7. CASE UNCHANGED vars
  BY <1>7, OtherOrders DEF vars, Underways
<1> QED
  BY <1>1, <1>2, <1>3, <1>4, <1>5, <1>6, <1>7 DEF Next

\* The scheduled forecasts and the dashboards agree on who is champion, however
\* executions race and stop, as long as rollbacks name evaluated candidates and
\* nobody is to replace itself.
THEOREM ReadersAgree == Spec => []ViewsAgree
<1>1. Init => Ordered
  BY DEF Init, Ordered, Built, Underways
<1>2. IInv /\ Ordered => ViewsAgree
  BY ReadersAgreeWhen DEF ViewsAgree
<1> QED
  BY <1>1, <1>2, LifecycleStart, LifecycleStep, OrderStep, PTL DEF Spec
=============================================================================
