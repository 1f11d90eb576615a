----------------------- MODULE PublicationLedgerProofs -----------------------
(***************************************************************************)
(* Proofs about PublicationLedger, for all commands, sessions, reruns and  *)
(* values.                                                                 *)
(*                                                                         *)
(* That publications are backed by approvals rests on what an approval id  *)
(* fixes.  An insert leaves an approval of the same id alone, so the one   *)
(* that is there must have decided on the same value (Agrees): the id of   *)
(* an override fixes the value, the automatic flow and a command that      *)
(* found no override approve the forecast, and the value that a rollback   *)
(* restores is that of the one publication of its source version, which    *)
(* stays while the command is run again (Decided).                         *)
(*                                                                         *)
(* Lineage and announcements rest on what a command under way has stored   *)
(* and on what its publication fits (Traced).  The versions of a scope are *)
(* a chain when commands are given one at a time, because the version that *)
(* one has checked stays above its scope until it is inserted (Ahead).     *)
(***************************************************************************)
EXTENDS PublicationLedger, DataLemmas, TLAPS

\* Overrides were stamped in the past.
Stamped == \A o \in overrides : o.at < clock

\* What the decision of an approval fixes its value to be.
Decided(a) ==
  /\ a.override \in OverrideIds => a.value = a.override[3]
  /\ a.override = Automatic => a.value = Forecast
  /\ a.override = None =>
       \A c \in Commands : Requests[c].key = a.key =>
         IF Requests[c].action = "rollback"
           THEN \E p \in AnyDestination(c) :
                  p.version = Requests[c].prior /\ p.value = a.value
           ELSE a.value = Forecast

ApprovalsDecided == \A a \in approvals : Decided(a)

\* No stored approval of this id has another value.
Agrees(a) ==
  \A b \in approvals : ApprovalId(b) = ApprovalId(a) => b.value = a.value

\* The publication that a command has built is of this approval.
Publishes(c, a) ==
  /\ publication[c].approval = ApprovalId(a)
  /\ publication[c].value = a.value

\* The command has built its approval, and is to insert it.
Approving(c) ==
  \/ pc[c] = "prior" /\ Requests[c].action = "revise"
  \/ pc[c] = "approve"

\* The command has its approval stored, and is to insert its publication.
Publishing(c) ==
  \/ pc[c] = "existing" /\ Requests[c].action = "api_publish"
  \/ pc[c] \in {"approved", "publish"}

Progress(c) ==
  /\ pc[c] = "overriding" => chosen[c] \in Override /\ chosen[c].at < clock
  /\ Approving(c) =>
       /\ approval[c] \in Approval
       /\ approval[c].key = Requests[c].key
       /\ Decided(approval[c])
       /\ Agrees(approval[c])
       /\ Requests[c].action # "api_approve" =>
            publication[c] \in Publication /\ Publishes(c, approval[c])
  /\ Publishing(c) =>
       publication[c] \in Publication /\ \E a \in approvals : Publishes(c, a)
  /\ pc[c] = "revise" => publication[c] \in Publication

Underway == \A c \in Commands : Progress(c)

IInv ==
  /\ TypeOK
  /\ ApprovalBacksPublication
  /\ Stamped
  /\ ApprovalsDecided
  /\ Underway

-----------------------------------------------------------------------------
(* Types.                                                                  *)

LEMMA RequestTypes ==
  ASSUME NEW c \in Commands
  PROVE  /\ Requests[c].key \in Keys /\ Requests[c].run \in ForecastRuns
         /\ Requests[c].version \in Versions
         /\ Requests[c].destination \in Destinations
         /\ Requests[c].value \in Values /\ Forecast \in Values
  BY DEF Keys, ForecastRuns, Versions, Destinations, Values

LEMMA IdTypes ==
  /\ \A o \in Override : OverrideId(o) \in OverrideIds /\ OverrideId(o)[3] = o.value
  /\ \A a \in Approval : ApprovalId(a) \in ApprovalIds
  /\ \A p \in Publication : PublicationId(p) \in PublicationIds
  BY DEF Override, OverrideId, OverrideIds, Approval, ApprovalId, ApprovalIds,
         Publication, PublicationId, PublicationIds

\* An approval that is built of a known value is typed.
LEMMA ApprovalBuilt ==
  ASSUME NEW c \in Commands, NEW o \in OverrideIds \union {None, Automatic},
         NEW v \in Values
  PROVE  BuildApproval(c, o, v) \in Approval
<1>1. Requests[c].key \in Keys /\ Requests[c].run \in ForecastRuns
  BY RequestTypes
<1> QED
  BY <1>1 DEF BuildApproval, Approval

\* A publication is of the approval that it is built of.
LEMMA PublicationBuilt ==
  ASSUME NEW c \in Commands, NEW a \in Approval, NEW d \in Destinations,
         clock \in Nat
  PROVE  /\ BuildPublication(c, a, d) \in Publication
         /\ BuildPublication(c, a, d).approval = ApprovalId(a)
         /\ BuildPublication(c, a, d).value = a.value
<1>1. ApprovalId(a) \in ApprovalIds /\ a.value \in Values
  BY IdTypes DEF Approval
<1> QED
  BY <1>1, RequestTypes DEF BuildPublication, Publication

\* The decision given the selected override, or none.
LEMMA DecisionIs ==
  ASSUME NEW c \in Commands, NEW o \in Override \union {None}
  PROVE  /\ Decision(c, o) \in Approval
         /\ Decision(c, o).key = Requests[c].key
         /\ \/ Decision(c, o).override = None /\ Decision(c, o).value = Forecast
            \/ /\ Decision(c, o).override \in OverrideIds
               /\ Decision(c, o).value = Decision(c, o).override[3]
<1>1. CASE o = None
  <2>1. Decision(c, o) = BuildApproval(c, None, Forecast)
    BY <1>1 DEF Decision
  <2>2. BuildApproval(c, None, Forecast) \in Approval
    BY ApprovalBuilt, RequestTypes
  <2> QED
    BY <2>1, <2>2 DEF BuildApproval
<1>2. CASE o # None
  <2>1. Decision(c, o) = BuildApproval(c, OverrideId(o), o.value)
    BY <1>2 DEF Decision
  <2>2. OverrideId(o) \in OverrideIds /\ OverrideId(o)[3] = o.value /\ o.value \in Values
    BY <1>2, IdTypes DEF Override
  <2>3. BuildApproval(c, OverrideId(o), o.value) \in Approval
    BY <2>2, ApprovalBuilt
  <2> QED
    BY <2>1, <2>2, <2>3 DEF BuildApproval
<1> QED
  BY <1>1, <1>2

\* The override that is selected is one of the table.
LEMMA LatestOverrideIs ==
  ASSUME TypeOK, Stamped, NEW run
  PROVE  LatestOverride(run) \in Override \union {None}
<1> DEFINE ofRun == {o \in overrides : o.run = run}
           at == [o \in ofRun |-> o.at]
<1>1. CASE ofRun = {}
  BY <1>1 DEF LatestOverride
<1>2. CASE ofRun # {}
  <2>1. clock \in Nat /\ \A o \in ofRun : o \in Override /\ o.at \in Nat /\ o.at <= clock
    BY DEF TypeOK, Override, Stamped
  <2>2. at \in [ofRun -> Nat] /\ \A o \in ofRun : at[o] <= clock
    BY <2>1
  <2>3. \E o \in ofRun : \A p \in ofRun : at[p] <= at[o]
    <3> HIDE DEF at, ofRun
    <3> QED
      BY <1>2, <2>1, <2>2, LatestExists
  <2>4. \E o \in ofRun : \A p \in ofRun : o.at >= p.at
    BY <2>1, <2>3
  <2>5. LatestOverride(run) \in ofRun
    BY <1>2, <2>4 DEF LatestOverride
  <2> QED
    BY <2>1, <2>5
<1> QED
  BY <1>1, <1>2

-----------------------------------------------------------------------------
(* Inserts.                                                                *)

\* What InsertOnce leaves of the three tables that decisions are read from.
LEMMA InsertedOverride ==
  ASSUME NEW o, overrides' = InsertOnce(overrides, o, OverrideId)
  PROVE  \A x \in overrides' : x \in overrides \/ x = o
  BY DEF InsertOnce

LEMMA InsertedApproval ==
  ASSUME NEW a, approvals' = InsertOnce(approvals, a, ApprovalId)
  PROVE  /\ approvals \subseteq approvals'
         /\ \A x \in approvals' : x \in approvals \/ x = a
         /\ \E x \in approvals' : ApprovalId(x) = ApprovalId(a)
  BY DEF InsertOnce

LEMMA InsertedPublication ==
  ASSUME NEW p, publications' = InsertOnce(publications, p, PublicationId)
  PROVE  /\ publications \subseteq publications'
         /\ \A x \in publications' : x \in publications \/ x = p
  BY DEF InsertOnce

-----------------------------------------------------------------------------
(* Type correctness.                                                       *)

\* Every step of a command keeps the tables and what it holds typed.
LEMMA TypeStep ==
  ASSUME IInv, NEW c \in Commands, Read(c) \/ Persist(c) \/ Rerun(c)
  PROVE  TypeOK'
<1> USE DEF tables, locals, Goto, Fail, Stamp
<1>a. TypeOK /\ Progress(c) /\ clock \in Nat
  BY DEF IInv, Underway, TypeOK
<1>b. /\ Requests[c].key \in Keys /\ Requests[c].run \in ForecastRuns
      /\ Requests[c].version \in Versions
      /\ Requests[c].destination \in Destinations
      /\ Requests[c].value \in Values /\ Forecast \in Values
  BY RequestTypes
<1>1. CASE CheckOverride(c)
  <2>1. [key |-> Requests[c].key, run |-> Requests[c].run,
         value |-> Requests[c].value, at |-> clock] \in Override
    BY <1>a, <1>b DEF Override
  <2>2. pc' \in [Commands -> Places]
    BY <1>a, <1>1 DEF CheckOverride, TypeOK, Places
  <2> QED
    BY <1>a, <1>1, <2>1, <2>2 DEF CheckOverride, Begins, TypeOK
<1>2. CASE ReadOverrides(c)
  <2>1. LatestOverride(Requests[c].run) \in Override \union {None}
    BY LatestOverrideIs DEF IInv
  <2> QED
    BY <1>a, <1>2, <2>1 DEF ReadOverrides, Begins, TypeOK, Places
<1>3. CASE CheckExisting(c)
  <2> DEFINE a == Decision(c, chosen[c])
             p == BuildPublication(c, a, Requests[c].destination)
  <2>1. chosen[c] \in Override \union {None}
    BY <1>a DEF TypeOK
  <2>2. a \in Approval
    BY <2>1, DecisionIs
  <2>3. p \in Publication
    BY <1>a, <1>b, <2>2, PublicationBuilt
  <2>4. pc' \in [Commands -> Places]
    BY <1>a, <1>3 DEF CheckExisting, TypeOK, Places
  <2>5. /\ approval' = approval \/ approval' = [approval EXCEPT ![c] = a]
        /\ publication' = publication \/ publication' = [publication EXCEPT ![c] = p]
        /\ clock' = clock \/ clock' = clock + 1
        /\ UNCHANGED <<tables, chosen, prior, reruns, given>>
    BY <1>3 DEF CheckExisting
  <2> HIDE DEF a, p
  <2> QED
    BY <1>a, <2>2, <2>3, <2>4, <2>5 DEF TypeOK
<1>4. CASE ReadPrior(c)
  <2>1. \A p \in AtDestination(c) : PublicationId(p) \in PublicationIds
    BY <1>a, IdTypes DEF TypeOK, AtDestination
  <2>2. {PublicationId(p) : p \in WithVersion(AtDestination(c), Requests[c].prior)}
          \subseteq PublicationIds
    BY <2>1 DEF WithVersion
  <2> QED
    BY <1>a, <1>4, <2>2 DEF ReadPrior, TypeOK, Places
<1>5. CASE CheckRollback(c)
  BY <1>a, <1>5 DEF CheckRollback, Begins, TypeOK, Places
<1>6. CASE ReadRollbackSource(c)
  <2>1. CASE Fail(c)
    BY <1>a, <2>1 DEF TypeOK, Places
  <2>2. CASE ~Fail(c)
    <3>1. PICK p \in AnyDestination(c) :
            /\ approval' = [approval EXCEPT ![c] = BuildApproval(c, None, p.value)]
            /\ publication' = [publication EXCEPT ![c] = RollbackRecord(c, p)]
            /\ prior' = [prior EXCEPT ![c] = {PublicationId(p)}]
            /\ clock' = clock + 1
            /\ pc' = [pc EXCEPT ![c] = "approve"]
            /\ UNCHANGED <<tables, chosen, reruns, given>>
      BY <1>6, <2>2 DEF ReadRollbackSource, WithVersion
    <3>2. p \in Publication
      BY <1>a DEF TypeOK, AnyDestination
    <3>3. p.value \in Values /\ p.destination \in Destinations
      BY <3>2 DEF Publication
    <3>4. BuildApproval(c, None, p.value) \in Approval
      BY <3>3, ApprovalBuilt
    <3>5. RollbackRecord(c, p) \in Publication
      BY <1>a, <3>3, <3>4, PublicationBuilt DEF RollbackRecord
    <3>6. PublicationId(p) \in PublicationIds
      BY <3>2, IdTypes
    <3> QED
      BY <1>a, <3>1, <3>4, <3>5, <3>6 DEF TypeOK, Places
  <2> QED
    BY <2>1, <2>2
<1>7. CASE CheckApprovals(c)
  <2>1. Decision(c, chosen[c]) \in Approval
    BY <1>a, DecisionIs DEF TypeOK
  <2> QED
    BY <1>a, <1>7, <2>1 DEF CheckApprovals, TypeOK, Places
<1>8. CASE ReadApprovals(c)
  <2>1. CASE Fail(c)
    BY <1>a, <2>1 DEF TypeOK, Places
  <2>2. CASE ~Fail(c)
    <3>1. PICK a \in approvals :
            /\ approval' = [approval EXCEPT ![c] = a]
            /\ publication' = [publication EXCEPT
                 ![c] = BuildPublication(c, a, Requests[c].destination)]
            /\ clock' = clock + 1
            /\ pc' = [pc EXCEPT ![c] = "existing"]
            /\ UNCHANGED <<tables, chosen, prior, reruns, given>>
      BY <1>8, <2>2 DEF ReadApprovals
    <3>2. a \in Approval
      BY <1>a DEF TypeOK
    <3>3. BuildPublication(c, a, Requests[c].destination) \in Publication
      BY <1>a, <1>b, <3>2, PublicationBuilt
    <3> QED
      BY <1>a, <3>1, <3>2, <3>3 DEF TypeOK, Places
  <2> QED
    BY <2>1, <2>2
<1>9. CASE CheckPublish(c)
  BY <1>a, <1>9 DEF CheckPublish, TypeOK, Places
<1>10. CASE BuildAutomatic(c)
  <2>1. BuildApproval(c, Automatic, Forecast) \in Approval
    BY <1>b, ApprovalBuilt
  <2>2. BuildPublication(c, BuildApproval(c, Automatic, Forecast),
                         Requests[c].destination) \in Publication
    BY <1>a, <1>b, <2>1, PublicationBuilt
  <2> QED
    BY <1>a, <1>10, <2>1, <2>2 DEF BuildAutomatic, Begins, TypeOK, Places
<1>11. CASE PersistOverride(c)
  <2>1. chosen[c] \in Override
    BY <1>a, <1>11 DEF PersistOverride, Progress
  <2>2. overrides' \subseteq Override
    BY <1>a, <1>11, <2>1, InsertedOverride DEF PersistOverride, TypeOK
  <2> QED
    BY <1>a, <1>11, <2>2 DEF PersistOverride, TypeOK, Places
<1>12. CASE PersistApproval(c)
  <2>1. approval[c] \in Approval
    BY <1>a, <1>12 DEF PersistApproval, Progress, Approving
  <2>2. approvals' \subseteq Approval
    BY <1>a, <1>12, <2>1, InsertedApproval DEF PersistApproval, TypeOK
  <2>3. AfterApproval(Requests[c].action) \in Places
    BY DEF AfterApproval, Places
  <2> QED
    BY <1>a, <1>12, <2>2, <2>3 DEF PersistApproval, TypeOK
<1>13. CASE PersistStatus(c)
  <2>1. statuses' \subseteq ForecastRuns \X {"approved", "published"}
    BY <1>a, <1>b, <1>13 DEF PersistStatus, TypeOK
  <2> QED
    BY <1>a, <1>13, <2>1 DEF PersistStatus, TypeOK, Places
<1>14. CASE PersistPublication(c)
  <2>1. publication[c] \in Publication
    BY <1>a, <1>14 DEF PersistPublication, Progress, Publishing
  <2>2. publications' \subseteq Publication
    BY <1>a, <1>14, <2>1, InsertedPublication DEF PersistPublication, TypeOK
  <2>3. AfterPublication(Requests[c].action) \in Places
    BY DEF AfterPublication, Places
  <2> QED
    BY <1>a, <1>14, <2>2, <2>3 DEF PersistPublication, TypeOK
<1>15. CASE PersistRevision(c)
  <2> DEFINE Revision == [key : Keys, prior : PublicationIds,
                          replacement : PublicationIds,
                          type : {"supersede", "rollback"}]
  <2>1. PublicationId(publication[c]) \in PublicationIds
    BY <1>a, <1>15, IdTypes DEF PersistRevision, Progress
  <2>2. Lineage(c) \subseteq Revision
    BY <1>a, <1>b, <2>1 DEF Lineage, TypeOK
  <2>3. revisions' \subseteq Revision
    BY <1>a, <1>15, <2>2 DEF PersistRevision, TypeOK
  <2> QED
    BY <1>a, <1>15, <2>3 DEF PersistRevision, TypeOK, Places
<1>16. CASE EmitEvent(c)
  <2>1. Event(c) \in [key : Keys, type : {"published", "revised", "rolled_back"},
                      run : ForecastRuns, version : Versions,
                      destination : Destinations]
    BY <1>b DEF Event
  <2>2. \A e \in events' : e \in events \/ e = Event(c)
    BY <1>16 DEF EmitEvent, InsertOnce
  <2> QED
    BY <1>a, <1>16, <2>1, <2>2 DEF EmitEvent, TypeOK, Places
<1>17. CASE Rerun(c)
  BY <1>a, <1>17, RerunsAssumption DEF Rerun, TypeOK, Places
<1> QED
  BY <1>1, <1>2, <1>3, <1>4, <1>5, <1>6, <1>7, <1>8, <1>9, <1>10, <1>11, <1>12,
     <1>13, <1>14, <1>15, <1>16, <1>17 DEF Read, Persist

-----------------------------------------------------------------------------
(* Approvals back publications.                                            *)

\* A decision stays decided: the publication a rollback restored stays.
LEMMA DecidedStays ==
  ASSUME publications \subseteq publications'
  PROVE  \A a : Decided(a) => Decided(a)'
  BY DEF Decided, AnyDestination

\* What another command has built is not disturbed by an approval of c, for
\* the approval is of the key of c.
LEMMA OthersStay ==
  ASSUME approvals \subseteq approvals', publications \subseteq publications',
         clock \in Nat, clock' = clock \/ clock' = clock + 1,
         chosen \in [Commands -> Override \union {None}],
         NEW c \in Commands, NEW d \in Commands \ {c}, Progress(d),
         \A a \in approvals' \ approvals : a.key = Requests[c].key,
         /\ pc'[d] = pc[d] /\ chosen'[d] = chosen[d]
         /\ approval'[d] = approval[d] /\ publication'[d] = publication[d]
  PROVE  Progress(d)'
<1>1. Requests[d].key # Requests[c].key
  BY KeysAssumption
<1>2. ASSUME Approving(d)
      PROVE  /\ approval'[d] \in Approval
             /\ approval'[d].key = Requests[d].key
             /\ Decided(approval[d])'
             /\ Agrees(approval[d])'
             /\ Requests[d].action # "api_approve" =>
                  publication'[d] \in Publication /\ Publishes(d, approval[d])'
  <2>0. PICK a : a = approval[d]
    OBVIOUS
  <2>1. /\ a \in Approval /\ a.key = Requests[d].key /\ Decided(a) /\ Agrees(a)
        /\ Requests[d].action # "api_approve" =>
             publication[d] \in Publication /\ Publishes(d, a)
    BY <1>2, <2>0 DEF Progress
  <2>2. Decided(a)'
    BY <2>1, DecidedStays
  <2>3. Agrees(a)'
    BY <1>1, <2>1 DEF Agrees, ApprovalId
  <2> QED
    BY <2>0, <2>1, <2>2, <2>3 DEF Decided, Agrees, Publishes
<1>3. ASSUME Publishing(d)
      PROVE  publication'[d] \in Publication /\ \E a \in approvals' : Publishes(d, a)'
  BY <1>3 DEF Progress, Publishes
<1>4. Approving(d)' = Approving(d) /\ Publishing(d)' = Publishing(d)
  BY DEF Approving, Publishing
<1>5. pc'[d] = "overriding" => chosen'[d] \in Override /\ chosen'[d].at < clock'
  BY DEF Progress, Override
<1>6. pc'[d] = "revise" => publication'[d] \in Publication
  BY DEF Progress
<1> QED
  BY <1>2, <1>3, <1>4, <1>5, <1>6 DEF Progress

\* It suffices to show the invariant of the command that takes the step, and
\* of what the step inserts.
LEMMA StepOf ==
  ASSUME IInv, TypeOK', NEW c \in Commands,
         approvals \subseteq approvals', publications \subseteq publications',
         clock' = clock \/ clock' = clock + 1,
         \A o \in overrides' \ overrides : o.at < clock,
         \A a \in approvals' \ approvals : Decided(a) /\ a.key = Requests[c].key,
         \A p \in publications' \ publications :
           \E a \in approvals : ApprovalId(a) = p.approval /\ a.value = p.value,
         \A d \in Commands \ {c} :
           /\ pc'[d] = pc[d] /\ chosen'[d] = chosen[d]
           /\ approval'[d] = approval[d] /\ publication'[d] = publication[d],
         Progress(c)'
  PROVE  IInv'
<1>1. /\ clock \in Nat /\ chosen \in [Commands -> Override \union {None}]
      /\ \A o \in overrides : o.at \in Nat
      /\ \A o \in overrides' : o.at \in Nat
  BY DEF IInv, TypeOK, Override
<1>2. Stamped'
  BY <1>1 DEF IInv, Stamped
<1>3. ApprovalsDecided'
  <2>1. \A a : Decided(a) => Decided(a)'
    BY DecidedStays
  <2> QED
    BY <2>1 DEF IInv, ApprovalsDecided
<1>4. ApprovalBacksPublication'
  BY DEF IInv, ApprovalBacksPublication
<1>5. ASSUME NEW d \in Commands
      PROVE  Progress(d)'
  <2>1. CASE d = c
    BY <2>1
  <2>2. CASE d # c
    BY <1>1, <2>2, OthersStay DEF IInv, Underway
  <2> QED
    BY <2>1, <2>2
<1>6. Underway'
  BY <1>5 DEF Underway
<1> QED
  BY <1>2, <1>3, <1>4, <1>6 DEF IInv

\* A stored approval of the same id as a decision on no override, an override
\* or the automatic flow's has the same value, unless the command restores.
LEMMA SameDecision ==
  ASSUME IInv, NEW c \in Commands, NEW a \in Approval, a.key = Requests[c].key,
         Decided(a), Requests[c].action # "rollback"
  PROVE  Agrees(a)
<1> SUFFICES ASSUME NEW b \in approvals, ApprovalId(b) = ApprovalId(a)
             PROVE  b.value = a.value
  BY DEF Agrees
<1>1. b.key = a.key /\ b.override = a.override
  BY DEF ApprovalId
<1>2. Decided(b) /\ a.override \in OverrideIds \union {None, Automatic}
  BY DEF IInv, ApprovalsDecided, Approval
<1> QED
  BY <1>1, <1>2 DEF Decided

\* A command that has built, or is about to insert, nothing has no more to show.
LEMMA Harmless ==
  ASSUME NEW c \in Commands,
         pc'[c] \in {"idle", "event", "published", "done", "failed"}
  PROVE  Progress(c)'
  BY DEF Progress, Approving, Publishing

\* A command that has built an approval, and with it its publication.
LEMMA HasBuilt ==
  ASSUME IInv, NEW c \in Commands, NEW a \in Approval, a.key = Requests[c].key,
         Decided(a), Agrees(a), UNCHANGED <<approvals, publications>>,
         approval'[c] = a,
         Requests[c].action # "api_approve" =>
           /\ publication'[c] \in Publication
           /\ publication'[c].approval = ApprovalId(a)
           /\ publication'[c].value = a.value,
         pc'[c] \in {"prior", "approve"}
  PROVE  Progress(c)'
<1>1. Decided(a)' /\ Agrees(a)'
  BY DecidedStays DEF Agrees
<1>2. Decided(approval[c])' /\ Agrees(approval[c])'
  BY <1>1 DEF Decided, Agrees
<1> QED
  BY <1>2 DEF Progress, Approving, Publishing, Publishes

LEMMA LedgerStart == Init => IInv
<1> SUFFICES ASSUME Init
             PROVE  IInv
  OBVIOUS
<1>1. TypeOK
  BY RerunsAssumption DEF Init, TypeOK, Places
<1>2. ApprovalBacksPublication /\ Stamped /\ ApprovalsDecided
  BY DEF Init, ApprovalBacksPublication, Stamped, ApprovalsDecided
<1>3. Underway
  BY DEF Init, Underway, Progress, Approving, Publishing
<1> QED
  BY <1>1, <1>2, <1>3 DEF IInv

\* One step of any command keeps the invariant.
LEMMA LedgerStep == IInv /\ [Next]_vars => IInv'
<1> SUFFICES ASSUME IInv, [Next]_vars
             PROVE  IInv'
  OBVIOUS
<1>u. CASE UNCHANGED vars
  BY <1>u
     DEF vars, IInv, TypeOK, ApprovalBacksPublication, Stamped, ApprovalsDecided,
         Decided, AnyDestination, Underway, Progress, Approving, Publishing,
         Agrees, Publishes
<1>n. ASSUME NEW c \in Commands, Read(c) \/ Persist(c) \/ Rerun(c)
      PROVE  IInv'
  <2> USE DEF tables, locals, Goto, Fail, Stamp
  <2>t. TypeOK'
    BY <1>n, TypeStep
  <2>a. TypeOK /\ Progress(c) /\ clock \in Nat
    BY DEF IInv, Underway, TypeOK
  <2>b. /\ pc \in [Commands -> Places] /\ chosen \in [Commands -> Override \union {None}]
        /\ approval \in [Commands -> Approval \union {None}]
        /\ publication \in [Commands -> Publication \union {None}]
    BY <2>a DEF TypeOK
  <2>1. CASE CheckOverride(c)
    <3>1. [key |-> Requests[c].key, run |-> Requests[c].run,
           value |-> Requests[c].value, at |-> clock] \in Override
      BY <2>a, RequestTypes DEF Override
    <3>2. Progress(c)'
      BY <2>1, <2>a, <2>b, <3>1
         DEF CheckOverride, Progress, Approving, Publishing
    <3> QED
      BY <2>1, <2>t, <2>b, <3>2, StepOf DEF CheckOverride
  <2>2. CASE ReadOverrides(c)
    <3>1. Progress(c)'
      BY <2>2, <2>b DEF ReadOverrides, Begins, Progress, Approving, Publishing
    <3> QED
      BY <2>2, <2>t, <2>b, <3>1, StepOf DEF ReadOverrides
  <2>3. CASE CheckExisting(c)
    <3>0. PICK a, p : /\ a = Decision(c, chosen[c])
                      /\ p = BuildPublication(c, a, Requests[c].destination)
      OBVIOUS
    <3>1. /\ a \in Approval /\ a.key = Requests[c].key
          /\ \/ a.override = None /\ a.value = Forecast
             \/ a.override \in OverrideIds /\ a.value = a.override[3]
      BY <2>b, <3>0, DecisionIs
    <3>2. p \in Publication /\ p.approval = ApprovalId(a) /\ p.value = a.value
      BY <2>a, <3>0, <3>1, PublicationBuilt, RequestTypes
    <3>3. Requests[c].action \in {"approve_publish", "revise"}
      BY <2>3 DEF CheckExisting
    <3>4. Decided(a)
      BY <3>1, <3>3, KeysAssumption, DecisionsAssumption DEF Decided
    <3>5. Agrees(a)
      BY <3>1, <3>3, <3>4, SameDecision
    <3>6. CASE pc'[c] \in {"event", "failed"}
      <4>1. Progress(c)'
        BY <3>6, Harmless
      <4> QED
        BY <2>3, <2>t, <2>b, <4>1, StepOf DEF CheckExisting
    <3>7. CASE pc'[c] \notin {"event", "failed"}
      <4>1. /\ approval' = [approval EXCEPT ![c] = a]
            /\ publication' = [publication EXCEPT ![c] = p]
            /\ pc'[c] \in {"prior", "approve"}
            /\ clock' = clock + 1 /\ UNCHANGED <<tables, chosen>>
            /\ \A d \in Commands \ {c} : pc'[d] = pc[d]
        BY <2>3, <2>b, <3>0, <3>7 DEF CheckExisting
      <4>2. Progress(c)'
        BY <2>b, <3>1, <3>2, <3>4, <3>5, <4>1, HasBuilt
      <4> QED
        BY <2>t, <2>b, <4>1, <4>2, StepOf
    <3> QED
      BY <3>6, <3>7
  <2>4. CASE ReadPrior(c)
    <3>1. CASE pc'[c] = "failed"
      <4>1. Progress(c)'
        BY <3>1, Harmless
      <4> QED
        BY <2>4, <2>t, <2>b, <4>1, StepOf DEF ReadPrior
    <3>2. CASE pc'[c] # "failed"
      <4>1. /\ pc'[c] = "approve" /\ pc[c] = "prior"
            /\ Requests[c].action = "revise"
            /\ \A d \in Commands \ {c} : pc'[d] = pc[d]
            /\ UNCHANGED <<tables, clock, chosen, approval, publication>>
        BY <2>4, <2>b, <3>2 DEF ReadPrior
      <4>2. Progress(c)'
        BY <2>a, <4>1
           DEF Progress, Approving, Publishing, Decided, AnyDestination, Agrees,
               Publishes
      <4> QED
        BY <2>t, <4>1, <4>2, StepOf
    <3> QED
      BY <3>1, <3>2
  <2>5. CASE CheckRollback(c)
    <3>1. Progress(c)'
      BY <2>5, <2>b DEF CheckRollback, Begins, Progress, Approving, Publishing
    <3> QED
      BY <2>5, <2>t, <2>b, <3>1, StepOf DEF CheckRollback
  <2>6. CASE ReadRollbackSource(c)
    <3>1. CASE pc'[c] = "failed"
      <4>1. Progress(c)'
        BY <3>1, Harmless
      <4>2. UNCHANGED <<tables, clock, chosen, approval, publication>>
        BY <2>6, <2>b, <3>1 DEF ReadRollbackSource
      <4>3. \A d \in Commands \ {c} : pc'[d] = pc[d]
        BY <2>6, <2>b DEF ReadRollbackSource
      <4> QED
        BY <2>t, <4>1, <4>2, <4>3, StepOf
    <3>2. CASE pc'[c] # "failed"
      <4>1. PICK p \in AnyDestination(c) :
              /\ WithVersion(AnyDestination(c), Requests[c].prior) = {p}
              /\ approval' = [approval EXCEPT
                                ![c] = BuildApproval(c, None, p.value)]
              /\ publication' = [publication EXCEPT ![c] = RollbackRecord(c, p)]
              /\ clock' = clock + 1 /\ pc' = [pc EXCEPT ![c] = "approve"]
              /\ UNCHANGED <<tables, chosen>>
        BY <2>6, <2>b, <3>2 DEF ReadRollbackSource, WithVersion
      <4>2. PICK a, q : a = BuildApproval(c, None, p.value) /\ q = RollbackRecord(c, p)
        OBVIOUS
      <4>3. p \in Publication /\ p.value \in Values /\ p.destination \in Destinations
        BY <2>a DEF TypeOK, AnyDestination, Publication
      <4>4. /\ a \in Approval /\ a.key = Requests[c].key /\ a.override = None
            /\ a.value = p.value
        BY <4>2, <4>3, ApprovalBuilt DEF BuildApproval
      <4>5. q \in Publication /\ q.approval = ApprovalId(a) /\ q.value = a.value
        BY <2>a, <4>2, <4>3, <4>4, PublicationBuilt DEF RollbackRecord
      <4>6. Requests[c].action = "rollback" /\ p.version = Requests[c].prior
        BY <2>6, <4>1 DEF ReadRollbackSource, WithVersion
      <4>7. Decided(a)
        BY <4>4, <4>6, KeysAssumption, DecisionsAssumption DEF Decided
      <4>8. ASSUME NEW b \in approvals, ApprovalId(b) = ApprovalId(a)
            PROVE  b.value = a.value
        <5>1. b.key = Requests[c].key /\ b.override = None
          BY <4>4, <4>8 DEF ApprovalId
        <5>2. PICK r \in AnyDestination(c) :
                r.version = Requests[c].prior /\ r.value = b.value
          BY <4>6, <5>1 DEF IInv, ApprovalsDecided, Decided
        <5>3. r = p
          BY <4>1, <5>2 DEF WithVersion
        <5> QED
          BY <4>4, <5>2, <5>3
      <4>9. Agrees(a)
        BY <4>8 DEF Agrees
      <4>10. Progress(c)'
        BY <2>b, <4>1, <4>2, <4>4, <4>5, <4>7, <4>9, HasBuilt
      <4> QED
        BY <2>t, <2>b, <4>1, <4>10, StepOf
    <3> QED
      BY <3>1, <3>2
  <2>7. CASE CheckApprovals(c)
    <3>0. PICK a : a = Decision(c, chosen[c])
      OBVIOUS
    <3>1. /\ a \in Approval /\ a.key = Requests[c].key
          /\ \/ a.override = None /\ a.value = Forecast
             \/ a.override \in OverrideIds /\ a.value = a.override[3]
      BY <2>b, <3>0, DecisionIs
    <3>3. Requests[c].action = "api_approve"
      BY <2>7 DEF CheckApprovals
    <3>4. Decided(a)
      BY <3>1, <3>3, KeysAssumption, DecisionsAssumption DEF Decided
    <3>5. Agrees(a)
      BY <3>1, <3>3, <3>4, SameDecision
    <3>6. CASE pc'[c] \in {"done", "failed"}
      <4>1. Progress(c)'
        BY <3>6, Harmless
      <4> QED
        BY <2>7, <2>t, <2>b, <4>1, StepOf DEF CheckApprovals
    <3>7. CASE pc'[c] \notin {"done", "failed"}
      <4>1. /\ approval' = [approval EXCEPT ![c] = a] /\ pc'[c] = "approve"
            /\ UNCHANGED <<tables, clock, chosen, publication>>
            /\ \A d \in Commands \ {c} : pc'[d] = pc[d]
        BY <2>7, <2>b, <3>0, <3>7 DEF CheckApprovals
      <4>2. Progress(c)'
        BY <2>b, <3>1, <3>3, <3>4, <3>5, <4>1, HasBuilt
      <4> QED
        BY <2>t, <2>b, <4>1, <4>2, StepOf
    <3> QED
      BY <3>6, <3>7
  <2>8. CASE ReadApprovals(c)
    <3>1. CASE pc'[c] = "failed"
      <4>1. Progress(c)'
        BY <3>1, Harmless
      <4>2. UNCHANGED <<tables, clock, chosen, approval, publication>>
        BY <2>8, <2>b, <3>1 DEF ReadApprovals
      <4>3. \A d \in Commands \ {c} : pc'[d] = pc[d]
        BY <2>8, <2>b DEF ReadApprovals
      <4> QED
        BY <2>t, <4>1, <4>2, <4>3, StepOf
    <3>2. CASE pc'[c] # "failed"
      <4>1. PICK a \in approvals :
              /\ approval' = [approval EXCEPT ![c] = a]
              /\ publication' = [publication EXCEPT
                   ![c] = BuildPublication(c, a, Requests[c].destination)]
              /\ clock' = clock + 1 /\ pc' = [pc EXCEPT ![c] = "existing"]
              /\ UNCHANGED <<tables, chosen>>
        BY <2>8, <2>b, <3>2 DEF ReadApprovals
      <4>2. a \in Approval
        BY <2>a DEF TypeOK
      <4>3. /\ publication'[c] \in Publication
            /\ publication'[c].approval = ApprovalId(a)
            /\ publication'[c].value = a.value
        BY <2>a, <2>b, <4>1, <4>2, PublicationBuilt, RequestTypes
      <4>4. Progress(c)'
        BY <2>b, <4>1, <4>3 DEF Progress, Approving, Publishing, Publishes
      <4> QED
        BY <2>t, <2>b, <4>1, <4>4, StepOf
    <3> QED
      BY <3>1, <3>2
  <2>9. CASE CheckPublish(c)
    <3>1. /\ pc[c] = "existing" /\ Requests[c].action = "api_publish"
          /\ pc' \in {[pc EXCEPT ![c] = place] : place \in {"event", "publish", "failed"}}
          /\ UNCHANGED <<tables, clock, chosen, approval, publication>>
      BY <2>9 DEF CheckPublish
    <3>2. Progress(c)'
      BY <2>a, <2>b, <3>1 DEF Progress, Approving, Publishing, Publishes
    <3> QED
      BY <2>t, <2>b, <3>1, <3>2, StepOf
  <2>10. CASE BuildAutomatic(c)
    <3>0. PICK a, p : /\ a = BuildApproval(c, Automatic, Forecast)
                      /\ p = BuildPublication(c, a, Requests[c].destination)
      OBVIOUS
    <3>1. /\ a \in Approval /\ a.key = Requests[c].key
          /\ a.override = Automatic /\ a.value = Forecast
      BY <3>0, ApprovalBuilt, RequestTypes DEF BuildApproval
    <3>2. p \in Publication /\ p.approval = ApprovalId(a) /\ p.value = a.value
      BY <2>a, <3>0, <3>1, PublicationBuilt, RequestTypes
    <3>3. Requests[c].action = "auto"
      BY <2>10 DEF BuildAutomatic, Begins
    <3>4. Decided(a)
      BY <3>1, DecisionsAssumption DEF Decided
    <3>5. Agrees(a)
      BY <3>1, <3>3, <3>4, SameDecision
    <3>6. /\ approval' = [approval EXCEPT ![c] = a]
          /\ publication' = [publication EXCEPT ![c] = p]
          /\ pc' = [pc EXCEPT ![c] = "approve"]
          /\ clock' = clock + 1 /\ UNCHANGED <<tables, chosen>>
      BY <2>10, <3>0 DEF BuildAutomatic
    <3>7. Progress(c)'
      BY <2>b, <3>1, <3>2, <3>4, <3>5, <3>6, HasBuilt
    <3> QED
      BY <2>t, <2>b, <3>6, <3>7, StepOf
  <2>11. CASE PersistOverride(c)
    <3>1. chosen[c].at < clock
      BY <2>11, <2>a DEF PersistOverride, Progress
    <3>2. \A o \in overrides' \ overrides : o.at < clock
      BY <2>11, <3>1, InsertedOverride DEF PersistOverride
    <3>3. Progress(c)'
      BY <2>11, <2>b, Harmless DEF PersistOverride
    <3> QED
      BY <2>11, <2>t, <2>b, <3>2, <3>3, StepOf DEF PersistOverride
  <2>12. CASE PersistApproval(c)
    <3>0. PICK a : a = approval[c]
      OBVIOUS
    <3>1. /\ a \in Approval /\ a.key = Requests[c].key /\ Decided(a) /\ Agrees(a)
          /\ Requests[c].action # "api_approve" =>
               publication[c] \in Publication /\ Publishes(c, a)
      BY <2>12, <2>a, <3>0 DEF PersistApproval, Progress, Approving
    <3>2. /\ approvals \subseteq approvals'
          /\ \A x \in approvals' : x \in approvals \/ x = a
          /\ \E x \in approvals' : ApprovalId(x) = ApprovalId(a)
      BY <2>12, <3>0, InsertedApproval DEF PersistApproval
    <3>3. PICK x \in approvals' : ApprovalId(x) = ApprovalId(a) /\ x.value = a.value
      BY <3>1, <3>2 DEF Agrees
    <3>4. /\ pc' = [pc EXCEPT ![c] = AfterApproval(Requests[c].action)]
          /\ UNCHANGED <<overrides, publications, clock, chosen, approval, publication>>
      BY <2>12 DEF PersistApproval
    <3>5. Progress(c)'
      <4>1. CASE Requests[c].action = "api_approve"
        BY <2>b, <3>4, <4>1, Harmless DEF AfterApproval
      <4>2. CASE Requests[c].action # "api_approve"
        <5>1. pc'[c] \in {"approved", "publish"}
          BY <2>b, <3>4, <4>2 DEF AfterApproval
        <5>2. publication'[c] \in Publication /\ Publishes(c, x)'
          BY <3>1, <3>3, <3>4, <4>2 DEF Publishes
        <5> QED
          BY <5>1, <5>2 DEF Progress, Approving, Publishing
      <4> QED
        BY <4>1, <4>2
    <3> QED
      BY <2>t, <2>b, <3>1, <3>2, <3>4, <3>5, StepOf
  <2>13. CASE PersistStatus(c)
    <3>1. /\ pc[c] \in {"approved", "published"}
          /\ pc' = [pc EXCEPT ![c] = IF pc[c] = "approved" THEN "publish" ELSE "done"]
          /\ UNCHANGED <<overrides, approvals, publications, clock, chosen, approval,
                         publication>>
      BY <2>13 DEF PersistStatus
    <3>2. Progress(c)'
      BY <2>a, <2>b, <3>1 DEF Progress, Approving, Publishing, Publishes
    <3> QED
      BY <2>t, <2>b, <3>1, <3>2, StepOf
  <2>14. CASE PersistPublication(c)
    <3>1. publication[c] \in Publication /\ \E a \in approvals : Publishes(c, a)
      BY <2>14, <2>a DEF PersistPublication, Progress, Publishing
    <3>2. /\ publications \subseteq publications'
          /\ \A p \in publications' \ publications : p = publication[c]
      BY <2>14, InsertedPublication DEF PersistPublication
    <3>3. \A p \in publications' \ publications :
            \E a \in approvals : ApprovalId(a) = p.approval /\ a.value = p.value
      BY <3>1, <3>2 DEF Publishes
    <3>4. /\ pc' = [pc EXCEPT ![c] = AfterPublication(Requests[c].action)]
          /\ UNCHANGED <<overrides, approvals, clock, chosen, approval, publication>>
      BY <2>14 DEF PersistPublication
    <3>5. Progress(c)'
      BY <2>b, <3>1, <3>4
         DEF AfterPublication, Progress, Approving, Publishing
    <3> QED
      BY <2>t, <2>b, <3>2, <3>3, <3>4, <3>5, StepOf
  <2>15. CASE PersistRevision(c)
    <3>1. Progress(c)'
      BY <2>15, <2>b, Harmless DEF PersistRevision
    <3> QED
      BY <2>15, <2>t, <2>b, <3>1, StepOf DEF PersistRevision
  <2>16. CASE EmitEvent(c)
    <3>1. Progress(c)'
      BY <2>16, <2>b, Harmless DEF EmitEvent
    <3> QED
      BY <2>16, <2>t, <2>b, <3>1, StepOf DEF EmitEvent
  <2>17. CASE Rerun(c)
    <3>1. Progress(c)'
      BY <2>17, <2>b, Harmless DEF Rerun
    <3> QED
      BY <2>17, <2>t, <2>b, <3>1, StepOf DEF Rerun
  <2> QED
    BY <1>n, <2>1, <2>2, <2>3, <2>4, <2>5, <2>6, <2>7, <2>8, <2>9, <2>10, <2>11,
       <2>12, <2>13, <2>14, <2>15, <2>16, <2>17 DEF Read, Persist
<1> QED
  BY <1>u, <1>n DEF Next

\* The publication tables and what commands hold of them stay well typed, so
\* that every publication names an approval id, and every lineage row two
\* publication ids.
THEOREM LedgerTypes == Spec => []TypeOK
<1>1. IInv => TypeOK
  BY DEF IInv
<1> QED
  BY <1>1, LedgerStart, LedgerStep, PTL DEF Spec

\* What is published was approved at that value, however operators, the API
\* and the automatic flow interleave, stop and run their commands again.
THEOREM PublicationsBacked == Spec => []ApprovalBacksPublication
<1>1. IInv => ApprovalBacksPublication
  BY DEF IInv
<1> QED
  BY <1>1, LedgerStart, LedgerStep, PTL DEF Spec

-----------------------------------------------------------------------------
(* Lineage and announcements.                                              *)

\* A revision names a version before its own.  The code compares neither with
\* the other: that the new version is the greatest is checked before the prior
\* publications are read.
EarlierPrior ==
  \A c \in Commands :
    Requests[c].action = "revise" => Requests[c].prior < Requests[c].version

\* The commands that announce what they publish.
Announcing == {"approve_publish", "revise", "rollback", "api_publish"}

\* The publication that the command has built is under its key.
Mine(c) ==
  /\ publication[c].key = Requests[c].key
  /\ publication[c].run = Requests[c].run
  /\ publication[c].version = Requests[c].version
  /\ Requests[c].action = "revise" =>
       publication[c].destination = Requests[c].destination

\* The publications it replaces are stored, and fit what replaces them.
Linked(c) ==
  \A i \in prior[c] :
    \E old \in publications :
      /\ PublicationId(old) = i
      /\ old.run = publication[c].run
      /\ old.destination = publication[c].destination
      /\ old.version < publication[c].version
      /\ Requests[c].action = "rollback" => old.value = publication[c].value

Stored(c) ==
  \E new \in publications :
    /\ PublicationId(new) = PublicationId(publication[c])
    /\ Requests[c].action = "rollback" => new.value = publication[c].value

Traced(c) ==
  /\ pc[c] = "overriding" => Requests[c].action \in {"override", "api_override"}
  /\ pc[c] \in {"approved", "published"} => Requests[c].action = "auto"
  /\ pc[c] = "revise" => Requests[c].action \in {"revise", "rollback"} /\ Stored(c)
  /\ \/ Approving(c) /\ Requests[c].action # "api_approve"
     \/ Publishing(c) \/ pc[c] = "revise"
     => Mine(c)
  /\ pc[c] \in {"prior", "approve", "publish"} /\ Requests[c].action = "rollback" =>
       PublishedBy(c) = {}
  /\ /\ pc[c] \in {"approve", "publish", "revise"}
     /\ Requests[c].action \in {"revise", "rollback"}
     => Linked(c)
  /\ pc[c] \in {"revise", "event", "done"} /\ Requests[c].action \in Announcing =>
       PublishedBy(c) # {}
  /\ pc[c] = "done" /\ Requests[c].action \in Announcing => Event(c) \in events

LinkHolds(r) ==
  \E old, new \in publications :
    /\ PublicationId(old) = r.prior
    /\ PublicationId(new) = r.replacement
    /\ old.run = new.run
    /\ old.destination = new.destination
    /\ old.version < new.version
    /\ r.type = "rollback" => old.value = new.value

LInv ==
  /\ \A r \in revisions : LinkHolds(r)
  /\ \A c \in Commands : Traced(c)

LEMMA TracedMeans == LInv => LineageHolds /\ CompletedIsAnnounced
  BY DEF LInv, LinkHolds, LineageHolds, CompletedIsAnnounced, Traced, Announcing

\* Publications of one id are of one key, run, version and destination.
LEMMA SameId ==
  ASSUME NEW p, NEW q, PublicationId(p) = PublicationId(q)
  PROVE  /\ p.key = q.key /\ p.run = q.run
         /\ p.version = q.version /\ p.destination = q.destination
  BY DEF PublicationId

LEMMA BuiltMine ==
  ASSUME NEW c, NEW a, NEW d, NEW p, p = BuildPublication(c, a, d)
  PROVE  /\ p.key = Requests[c].key /\ p.run = Requests[c].run
         /\ p.version = Requests[c].version /\ p.destination = d
         /\ p.value = a.value
  BY DEF BuildPublication

\* It suffices to show it of the command that takes the step, and of what the
\* step inserts.
LEMMA TraceOf ==
  ASSUME LInv, NEW c \in Commands,
         publications \subseteq publications', events \subseteq events',
         \A p \in publications' \ publications : p.key = Requests[c].key,
         \A r \in revisions' \ revisions : LinkHolds(r),
         \A d \in Commands \ {c} :
           /\ pc'[d] = pc[d]
           /\ publication'[d] = publication[d] /\ prior'[d] = prior[d],
         Traced(c)'
  PROVE  LInv'
<1>1. \A r : LinkHolds(r) => LinkHolds(r)'
  BY DEF LinkHolds
<1>2. ASSUME NEW d \in Commands \ {c}
      PROVE  Traced(d)'
  <2>1. Traced(d) /\ Requests[d].key # Requests[c].key
    BY KeysAssumption DEF LInv
  <2>2. /\ Approving(d)' = Approving(d) /\ Publishing(d)' = Publishing(d)
        /\ Mine(d)' = Mine(d)
    BY DEF Approving, Publishing, Mine
  <2>3. (Linked(d) => Linked(d)') /\ (Stored(d) => Stored(d)')
    BY DEF Linked, Stored
  <2>4. PublishedBy(d)' = PublishedBy(d)
    BY <2>1 DEF PublishedBy
  <2>5. Event(d)' = Event(d)
    BY DEF Event
  <2> QED
    BY <2>1, <2>2, <2>3, <2>4, <2>5 DEF Traced
<1>3. \A d \in Commands : Traced(d)'
  BY <1>2
<1> QED
  BY <1>1, <1>3 DEF LInv

\* A command that has stopped, or has read nothing yet, has no more to show.
LEMMA TraceEnds ==
  ASSUME NEW c \in Commands, pc'[c] \in {"idle", "failed"}
  PROVE  Traced(c)'
  BY DEF Traced, Approving, Publishing

LEMMA TraceStart == Init => LInv
  BY DEF Init, LInv, Traced, Approving, Publishing

\* One step of any command keeps it.
LEMMA TraceStep == EarlierPrior /\ IInv /\ LInv /\ [Next]_vars => LInv'
<1> SUFFICES ASSUME EarlierPrior, IInv, LInv, [Next]_vars
             PROVE  LInv'
  OBVIOUS
<1>u. CASE UNCHANGED vars
  BY <1>u
     DEF vars, LInv, LinkHolds, Traced, Stored, Approving, Publishing, Mine,
         PublishedBy, Linked, Event
<1>n. ASSUME NEW c \in Commands, Read(c) \/ Persist(c) \/ Rerun(c)
      PROVE  LInv'
  <2> USE DEF tables, locals, Goto, Fail, Stamp
  <2>a. Traced(c) /\ TypeOK
    BY DEF IInv, LInv
  <2>b. /\ pc \in [Commands -> Places] /\ prior \in [Commands -> SUBSET PublicationIds]
        /\ publication \in [Commands -> Publication \union {None}]
    BY <2>a DEF TypeOK
  <2>1. CASE CheckOverride(c)
    <3>1. /\ Requests[c].action \in {"override", "api_override"}
          /\ pc'[c] \in {"done", "failed", "overriding"}
          /\ \A d \in Commands \ {c} : pc'[d] = pc[d]
          /\ UNCHANGED <<tables, publication, prior>>
      BY <2>1, <2>b DEF CheckOverride, Begins
    <3>2. Traced(c)'
      BY <3>1 DEF Traced, Approving, Publishing, Announcing
    <3> QED
      BY <3>1, <3>2, TraceOf
  <2>2. CASE ReadOverrides(c)
    <3>1. /\ Requests[c].action \in {"approve_publish", "revise", "api_approve"}
          /\ pc'[c] = "existing" /\ \A d \in Commands \ {c} : pc'[d] = pc[d]
          /\ UNCHANGED <<tables, publication, prior>>
      BY <2>2, <2>b DEF ReadOverrides, Begins
    <3>2. Traced(c)'
      BY <3>1 DEF Traced, Approving, Publishing
    <3> QED
      BY <3>1, <3>2, TraceOf
  <2>3. CASE CheckExisting(c)
    <3>0. PICK a, q : /\ a = Decision(c, chosen[c])
                      /\ q = BuildPublication(c, a, Requests[c].destination)
      OBVIOUS
    <3>1. /\ Requests[c].action \in {"approve_publish", "revise"}
          /\ UNCHANGED <<tables, prior>> /\ \A d \in Commands \ {c} : pc'[d] = pc[d]
          /\ \A d \in Commands \ {c} : publication'[d] = publication[d]
      BY <2>3, <2>b DEF CheckExisting
    <3>2. \/ pc'[c] = "failed"
          \/ /\ pc'[c] = "event"
             /\ \E p \in WithVersion(AtDestination(c), Requests[c].version) :
                  p.key = Requests[c].key
          \/ /\ publication'[c] = q
             /\ pc'[c] = IF Requests[c].action = "revise" THEN "prior" ELSE "approve"
      BY <2>3, <2>b, <3>0 DEF CheckExisting
    <3>3. CASE pc'[c] = "failed"
      BY <3>1, <3>3, TraceEnds, TraceOf
    <3>4. CASE pc'[c] = "event"
      <4>1. PICK p \in WithVersion(AtDestination(c), Requests[c].version) :
              p.key = Requests[c].key
        BY <3>2, <3>4
      <4>2. p \in PublishedBy(c)'
        BY <3>1, <4>1 DEF WithVersion, AtDestination, PublishedBy
      <4>3. Traced(c)'
        BY <3>4, <4>2 DEF Traced, Approving, Publishing
      <4> QED
        BY <3>1, <4>3, TraceOf
    <3>5. CASE pc'[c] \notin {"failed", "event"}
      <4>1. /\ publication'[c] = q
            /\ pc'[c] = IF Requests[c].action = "revise" THEN "prior" ELSE "approve"
        BY <3>2, <3>5
      <4>2. Mine(c)'
        BY <3>0, <4>1, BuiltMine DEF Mine
      <4>3. Traced(c)'
        BY <3>1, <4>1, <4>2 DEF Traced, Approving, Publishing
      <4> QED
        BY <3>1, <4>3, TraceOf
    <3> QED
      BY <3>3, <3>4, <3>5
  <2>4. CASE ReadPrior(c)
    <3>1. /\ pc[c] = "prior" /\ Requests[c].action = "revise"
          /\ UNCHANGED <<tables, publication>>
          /\ \A d \in Commands \ {c} : pc'[d] = pc[d] /\ prior'[d] = prior[d]
      BY <2>4, <2>b DEF ReadPrior
    <3>2. \/ pc'[c] = "failed"
          \/ /\ pc'[c] = "approve"
             /\ prior'[c] = {PublicationId(p) :
                               p \in WithVersion(AtDestination(c), Requests[c].prior)}
      BY <2>4, <2>b DEF ReadPrior
    <3>3. CASE pc'[c] = "failed"
      BY <3>1, <3>3, TraceEnds, TraceOf
    <3>4. CASE pc'[c] # "failed"
      <4>1. Mine(c) /\ Mine(c)'
        BY <2>a, <3>1 DEF Traced, Approving, Mine
      <4>2. ASSUME NEW i \in prior'[c]
            PROVE  \E old \in publications :
                     /\ PublicationId(old) = i
                     /\ old.run = publication[c].run
                     /\ old.destination = publication[c].destination
                     /\ old.version < publication[c].version
        <5>1. PICK p \in WithVersion(AtDestination(c), Requests[c].prior) :
                i = PublicationId(p)
          BY <3>2, <3>4, <4>2
        <5>2. /\ p \in publications /\ p.run = Requests[c].run
              /\ p.destination = Requests[c].destination
              /\ p.version = Requests[c].prior
          BY DEF WithVersion, AtDestination
        <5>3. p.version < publication[c].version
          BY <3>1, <4>1, <5>2 DEF Mine, EarlierPrior
        <5> QED
          BY <3>1, <4>1, <5>1, <5>2, <5>3 DEF Mine
      <4>3. Linked(c)'
        BY <3>1, <4>2 DEF Linked
      <4>4. Traced(c)'
        BY <3>1, <3>2, <3>4, <4>1, <4>3 DEF Traced, Approving, Publishing
      <4> QED
        BY <3>1, <4>4, TraceOf
    <3> QED
      BY <3>3, <3>4
  <2>5. CASE CheckRollback(c)
    <3> DEFINE same == WithVersion(AnyDestination(c), Requests[c].version)
    <3>1. /\ Requests[c].action = "rollback"
          /\ UNCHANGED <<tables, publication, prior>>
          /\ \A d \in Commands \ {c} : pc'[d] = pc[d]
      BY <2>5, <2>b DEF CheckRollback, Begins
    <3>2. \/ pc'[c] = "failed"
          \/ pc'[c] = "event" /\ \E p \in same : p.key = Requests[c].key
          \/ pc'[c] = "prior" /\ same = {}
      BY <2>5, <2>b DEF CheckRollback
    <3>3. PublishedBy(c)' = {p \in same : p.key = Requests[c].key}
      BY <3>1 DEF PublishedBy, WithVersion, AnyDestination
    <3>4. Traced(c)'
      <4> HIDE DEF same
      <4> QED
        BY <3>1, <3>2, <3>3 DEF Traced, Approving, Publishing
    <3> QED
      BY <3>1, <3>4, TraceOf
  <2>6. CASE ReadRollbackSource(c)
    <3>1. /\ pc[c] = "prior" /\ Requests[c].action = "rollback" /\ UNCHANGED tables
          /\ \A d \in Commands \ {c} :
               pc'[d] = pc[d] /\ publication'[d] = publication[d] /\ prior'[d] = prior[d]
      BY <2>6, <2>b DEF ReadRollbackSource
    <3>2. CASE pc'[c] = "failed"
      BY <3>1, <3>2, TraceEnds, TraceOf
    <3>3. CASE pc'[c] # "failed"
      <4>1. PICK p \in WithVersion(AnyDestination(c), Requests[c].prior) :
              /\ publication'[c] = RollbackRecord(c, p)
              /\ prior'[c] = {PublicationId(p)}
              /\ pc'[c] = "approve" /\ Requests[c].version > Requests[c].prior
        BY <2>6, <2>b, <3>3 DEF ReadRollbackSource
      <4>2. /\ p \in publications /\ p.run = Requests[c].run
            /\ p.version = Requests[c].prior
        BY DEF WithVersion, AnyDestination
      <4>3. PICK q, a : q = RollbackRecord(c, p) /\ a = BuildApproval(c, None, p.value)
        OBVIOUS
      <4>4. /\ q.key = Requests[c].key /\ q.run = Requests[c].run
            /\ q.version = Requests[c].version /\ q.destination = p.destination
            /\ q.value = p.value
        <5>1. q = BuildPublication(c, a, p.destination)
          BY <4>3 DEF RollbackRecord
        <5>2. a.value = p.value
          BY <4>3 DEF BuildApproval
        <5> QED
          BY <5>1, <5>2, BuiltMine
      <4>5. publication'[c] = q
        BY <4>1, <4>3
      <4>6. Mine(c)'
        BY <3>1, <4>4, <4>5 DEF Mine
      <4>7. p.version < q.version
        BY <4>1, <4>2, <4>4
      <4>8. Linked(c)'
        BY <3>1, <4>1, <4>2, <4>4, <4>5, <4>7 DEF Linked
      <4>9. PublishedBy(c)' = {}
        BY <2>a, <3>1 DEF Traced, PublishedBy
      <4>10. Traced(c)'
        BY <3>1, <4>1, <4>6, <4>8, <4>9 DEF Traced, Approving, Publishing
      <4> QED
        BY <3>1, <4>10, TraceOf
    <3> QED
      BY <3>2, <3>3
  <2>7. CASE CheckApprovals(c)
    <3>1. /\ Requests[c].action = "api_approve" /\ pc'[c] \in {"done", "failed", "approve"}
          /\ \A d \in Commands \ {c} : pc'[d] = pc[d]
          /\ UNCHANGED <<tables, publication, prior>>
      BY <2>7, <2>b DEF CheckApprovals
    <3>2. Traced(c)'
      BY <3>1 DEF Traced, Approving, Publishing, Announcing
    <3> QED
      BY <3>1, <3>2, TraceOf
  <2>8. CASE ReadApprovals(c)
    <3>1. /\ Requests[c].action = "api_publish" /\ UNCHANGED <<tables, prior>>
          /\ \A d \in Commands \ {c} : pc'[d] = pc[d] /\ publication'[d] = publication[d]
      BY <2>8, <2>b DEF ReadApprovals, Begins
    <3>2. CASE pc'[c] = "failed"
      BY <3>1, <3>2, TraceEnds, TraceOf
    <3>3. CASE pc'[c] # "failed"
      <4>1. PICK a \in approvals :
              /\ publication'[c] = BuildPublication(c, a, Requests[c].destination)
              /\ pc'[c] = "existing"
        BY <2>8, <2>b, <3>3 DEF ReadApprovals
      <4>2. Mine(c)'
        BY <3>1, <4>1, BuiltMine DEF Mine
      <4>3. Traced(c)'
        BY <3>1, <4>1, <4>2 DEF Traced, Approving, Publishing
      <4> QED
        BY <3>1, <4>3, TraceOf
    <3> QED
      BY <3>2, <3>3
  <2>9. CASE CheckPublish(c)
    <3>1. /\ pc[c] = "existing" /\ Requests[c].action = "api_publish"
          /\ UNCHANGED <<tables, publication, prior>>
          /\ \A d \in Commands \ {c} : pc'[d] = pc[d]
      BY <2>9, <2>b DEF CheckPublish
    <3>2. Mine(c) /\ Mine(c)'
      BY <2>a, <3>1 DEF Traced, Publishing, Mine
    <3>3. \/ pc'[c] \in {"failed", "publish"}
          \/ /\ pc'[c] = "event"
             /\ \E p \in publications : PublicationId(p) = PublicationId(publication[c])
      BY <2>9, <2>b DEF CheckPublish, WithVersion, AtDestination
    <3>4. CASE pc'[c] \in {"failed", "publish"}
      <4>1. Traced(c)'
        BY <3>1, <3>2, <3>4 DEF Traced, Approving, Publishing
      <4> QED
        BY <3>1, <4>1, TraceOf
    <3>5. CASE pc'[c] = "event"
      <4>1. PICK p \in publications : PublicationId(p) = PublicationId(publication[c])
        BY <3>3, <3>5
      <4>2. p \in PublishedBy(c)'
        BY <3>1, <3>2, <4>1, SameId DEF Mine, PublishedBy
      <4>3. Traced(c)'
        BY <3>5, <4>2 DEF Traced, Approving, Publishing
      <4> QED
        BY <3>1, <4>3, TraceOf
    <3> QED
      BY <3>3, <3>4, <3>5
  <2>10. CASE BuildAutomatic(c)
    <3>1. PICK a : /\ publication'[c] = BuildPublication(c, a, Requests[c].destination)
                   /\ pc'[c] = "approve" /\ Requests[c].action = "auto"
      BY <2>10, <2>b DEF BuildAutomatic, Begins
    <3>2. /\ UNCHANGED <<tables, prior>>
          /\ \A d \in Commands \ {c} : pc'[d] = pc[d] /\ publication'[d] = publication[d]
      BY <2>10, <2>b DEF BuildAutomatic
    <3>3. Mine(c)'
      BY <3>1, BuiltMine DEF Mine
    <3>4. Traced(c)'
      BY <3>1, <3>3 DEF Traced, Approving, Publishing
    <3> QED
      BY <3>2, <3>4, TraceOf
  <2>11. CASE PersistOverride(c)
    <3>1. /\ pc'[c] = "done" /\ Requests[c].action \in {"override", "api_override"}
          /\ \A d \in Commands \ {c} : pc'[d] = pc[d]
          /\ UNCHANGED <<publications, revisions, events, publication, prior>>
      BY <2>11, <2>a, <2>b DEF PersistOverride, Traced
    <3>2. Traced(c)'
      BY <3>1 DEF Traced, Approving, Publishing, Announcing
    <3> QED
      BY <3>1, <3>2, TraceOf
  <2>12. CASE PersistApproval(c)
    <3>1. /\ pc[c] = "approve" /\ pc'[c] = AfterApproval(Requests[c].action)
          /\ \A d \in Commands \ {c} : pc'[d] = pc[d]
          /\ UNCHANGED <<publications, revisions, events, publication, prior>>
      BY <2>12, <2>b DEF PersistApproval
    <3>2. CASE Requests[c].action = "api_approve"
      <4>1. Traced(c)'
        BY <3>1, <3>2 DEF AfterApproval, Traced, Approving, Publishing, Announcing
      <4> QED
        BY <3>1, <4>1, TraceOf
    <3>3. CASE Requests[c].action # "api_approve"
      <4>1. Mine(c)' /\ (Linked(c) => Linked(c)') /\ PublishedBy(c)' = PublishedBy(c)
        BY <2>a, <3>1, <3>3 DEF Traced, Approving, Mine, Linked, PublishedBy
      <4>2. pc'[c] = IF Requests[c].action = "auto" THEN "approved" ELSE "publish"
        BY <3>1, <3>3 DEF AfterApproval
      <4>3. Traced(c)'
        BY <2>a, <3>1, <4>1, <4>2 DEF Traced, Approving, Publishing
      <4> QED
        BY <3>1, <4>3, TraceOf
    <3> QED
      BY <3>2, <3>3
  <2>13. CASE PersistStatus(c)
    <3>1. /\ pc[c] \in {"approved", "published"} /\ Requests[c].action = "auto"
          /\ pc'[c] = IF pc[c] = "approved" THEN "publish" ELSE "done"
          /\ \A d \in Commands \ {c} : pc'[d] = pc[d]
          /\ UNCHANGED <<publications, revisions, events, publication, prior>>
      BY <2>13, <2>a, <2>b DEF PersistStatus, Traced
    <3>2. pc[c] = "approved" => Mine(c)'
      BY <2>a, <3>1 DEF Traced, Publishing, Mine
    <3>3. Traced(c)'
      BY <3>1, <3>2 DEF Traced, Approving, Publishing, Announcing
    <3> QED
      BY <3>1, <3>3, TraceOf
  <2>14. CASE PersistPublication(c)
    <3>1. /\ pc[c] = "publish" /\ pc'[c] = AfterPublication(Requests[c].action)
          /\ \A d \in Commands \ {c} : pc'[d] = pc[d]
          /\ UNCHANGED <<revisions, events, publication, prior>>
      BY <2>14, <2>b DEF PersistPublication
    <3>2. Mine(c) /\ Mine(c)'
      BY <2>a, <3>1 DEF Traced, Publishing, Mine
    <3>3. PICK q : q = publication[c]
      OBVIOUS
    <3>4. /\ publications \subseteq publications'
          /\ \A p \in publications' \ publications : p = q
          /\ \E p \in publications' : PublicationId(p) = PublicationId(q)
          /\ (\A p \in publications : PublicationId(p) # PublicationId(q)) =>
               q \in publications'
      BY <2>14, <3>3 DEF PersistPublication, InsertOnce
    <3>5. PICK p \in publications' : PublicationId(p) = PublicationId(q)
      BY <3>4
    <3>6. p \in PublishedBy(c)'
      BY <3>2, <3>3, <3>5, SameId DEF Mine, PublishedBy
    <3>7. ASSUME Requests[c].action = "rollback"
          PROVE  q \in publications'
      <4>1. PublishedBy(c) = {}
        BY <2>a, <3>1, <3>7 DEF Traced
      <4>2. \A x \in publications : PublicationId(x) # PublicationId(q)
        BY <3>2, <3>3, <4>1, SameId DEF Mine, PublishedBy
      <4> QED
        BY <3>4, <4>2
    <3>8. Stored(c)'
      BY <3>1, <3>3, <3>5, <3>7 DEF Stored
    <3>9. Requests[c].action \in {"revise", "rollback"} => Linked(c)'
      BY <2>a, <3>1, <3>4 DEF Traced, Linked
    <3>10. Traced(c)'
      BY <3>1, <3>2, <3>6, <3>8, <3>9
         DEF AfterPublication, Traced, Approving, Publishing
    <3>11. \A x \in publications' \ publications : x.key = Requests[c].key
      BY <3>2, <3>3, <3>4 DEF Mine
    <3> QED
      BY <3>1, <3>4, <3>10, <3>11, TraceOf
  <2>15. CASE PersistRevision(c)
    <3>1. /\ pc[c] = "revise" /\ pc'[c] = "event"
          /\ \A r \in revisions' \ revisions : r \in Lineage(c)
          /\ \A d \in Commands \ {c} : pc'[d] = pc[d]
          /\ UNCHANGED <<publications, events, publication, prior>>
      BY <2>15, <2>b DEF PersistRevision
    <3>2. /\ Requests[c].action \in {"revise", "rollback"}
          /\ Stored(c) /\ Linked(c) /\ Mine(c) /\ PublishedBy(c) # {}
      BY <2>a, <3>1 DEF Traced, Announcing
    <3>3. ASSUME NEW r \in Lineage(c)
          PROVE  LinkHolds(r)
      <4>1. PICK i \in prior[c] :
              /\ r.prior = i /\ r.replacement = PublicationId(publication[c])
              /\ r.type = IF Requests[c].action = "revise" THEN "supersede"
                                                           ELSE "rollback"
        BY DEF Lineage
      <4>2. PICK old \in publications :
              /\ PublicationId(old) = i
              /\ old.run = publication[c].run
              /\ old.destination = publication[c].destination
              /\ old.version < publication[c].version
              /\ Requests[c].action = "rollback" => old.value = publication[c].value
        BY <3>2 DEF Linked
      <4>3. PICK new \in publications :
              /\ PublicationId(new) = PublicationId(publication[c])
              /\ Requests[c].action = "rollback" => new.value = publication[c].value
        BY <3>2 DEF Stored
      <4>4. /\ new.run = publication[c].run /\ new.version = publication[c].version
            /\ new.destination = publication[c].destination
        BY <4>3, SameId
      <4> QED
        BY <3>2, <4>1, <4>2, <4>3, <4>4 DEF LinkHolds
    <3>4. PublishedBy(c)' # {}
      BY <3>1, <3>2 DEF PublishedBy
    <3>5. Traced(c)'
      BY <3>1, <3>4 DEF Traced, Approving, Publishing
    <3> QED
      BY <3>1, <3>3, <3>5, TraceOf
  <2>16. CASE EmitEvent(c)
    <3>1. /\ pc[c] = "event" /\ pc'[c] = "done"
          /\ events \subseteq events'
          /\ \E e \in events' : EventId(e) = EventId(Event(c))
          /\ \A e \in events' : e \in events \/ e = Event(c)
          /\ \A d \in Commands \ {c} : pc'[d] = pc[d]
          /\ UNCHANGED <<publications, revisions, publication, prior>>
      BY <2>16, <2>b DEF EmitEvent, InsertOnce
    <3>2. PICK e \in events' : EventId(e) = EventId(Event(c))
      BY <3>1
    <3>3. e = Event(c)
      <4>1. CASE e \in events
        <5>1. e = [key |-> e.key, type |-> e.type, run |-> e.run,
                   version |-> e.version, destination |-> e.destination]
          BY <2>a, <4>1 DEF TypeOK
        <5>2. PICK f : f = Event(c)
          OBVIOUS
        <5>3. f = [key |-> f.key, type |-> f.type, run |-> f.run,
                   version |-> f.version, destination |-> f.destination]
          BY <5>2 DEF Event
        <5>4. /\ e.key = f.key /\ e.type = f.type /\ e.run = f.run
              /\ e.version = f.version /\ e.destination = f.destination
          BY <3>2, <5>2 DEF EventId
        <5> QED
          BY <5>1, <5>2, <5>3, <5>4
      <4> QED
        BY <3>1, <4>1
    <3>4. Event(c)' = Event(c)
      BY DEF Event
    <3>5. PublishedBy(c)' = PublishedBy(c)
      BY <3>1 DEF PublishedBy
    <3>6. Traced(c)'
      BY <2>a, <3>1, <3>3, <3>4, <3>5 DEF Traced, Approving, Publishing
    <3> QED
      BY <3>1, <3>6, TraceOf
  <2>17. CASE Rerun(c)
    <3>1. /\ pc'[c] = "idle" /\ UNCHANGED tables
          /\ \A d \in Commands \ {c} :
               pc'[d] = pc[d] /\ publication'[d] = publication[d] /\ prior'[d] = prior[d]
      BY <2>17, <2>b DEF Rerun
    <3> QED
      BY <3>1, TraceEnds, TraceOf
  <2> QED
    BY <1>n, <2>1, <2>2, <2>3, <2>4, <2>5, <2>6, <2>7, <2>8, <2>9, <2>10, <2>11,
       <2>12, <2>13, <2>14, <2>15, <2>16, <2>17 DEF Read, Persist
<1> QED
  BY <1>u, <1>n DEF Next

\* A row of forecast_revisions links a stored publication to a stored later one
\* of the same run and destination, and a rollback restores the value, wherever
\* commands stop and whatever is published in between, if operators revise
\* earlier versions.
THEOREM LineageIsRight ==
  ASSUME EarlierPrior
  PROVE  Spec => []LineageHolds
<1>1. Init => IInv /\ LInv
  BY LedgerStart, TraceStart
<1>2. IInv /\ LInv /\ [Next]_vars => (IInv /\ LInv)'
  BY LedgerStep, TraceStep
<1>3. IInv /\ LInv => LineageHolds
  BY TracedMeans
<1> QED
  BY <1>1, <1>2, <1>3, PTL DEF Spec

\* A command that publishes and returns has left its publication and the event
\* that announces it, also as the retry of one that had stopped.
THEOREM ReturnedIsAnnounced ==
  ASSUME EarlierPrior
  PROVE  Spec => []CompletedIsAnnounced
<1>1. Init => IInv /\ LInv
  BY LedgerStart, TraceStart
<1>2. IInv /\ LInv /\ [Next]_vars => (IInv /\ LInv)'
  BY LedgerStep, TraceStep
<1>3. IInv /\ LInv => CompletedIsAnnounced
  BY TracedMeans
<1> QED
  BY <1>1, <1>2, <1>3, PTL DEF Spec

-----------------------------------------------------------------------------
(* Commands that are given one at a time.                                  *)

\* The versions of what is published are numbers, and the commands that are
\* given one at a time check them, which the automatic flow does not.
VersionsChecked ==
  /\ \A c \in Commands :
       Requests[c].action \in Announcing => Requests[c].version \in Int
  /\ \A s \in Serial : \A c \in s : Requests[c].action # "auto"

Busy(c) == pc[c] \notin {"idle", "done", "failed"}

\* At one scope p is the earlier and the lower of the two.
Behind(p, q) ==
  p.run = q.run /\ p.destination = q.destination =>
    p.at < q.at /\ p.version < q.version

\* The publications of a scope are ordered by version as they are by time.
ScopesOrdered ==
  /\ \A p \in publications :
       /\ p.at < clock /\ p.version \in Int
       /\ \E c \in given : p.run = Requests[c].run
  /\ \A p, q \in publications : p = q \/ Behind(p, q) \/ Behind(q, p)

\* The command is to insert the publication that it has built.
Inserting(c) ==
  \/ pc[c] = "prior" /\ Requests[c].action = "revise"
  \/ pc[c] = "approve" /\ Requests[c].action # "api_approve"
  \/ pc[c] = "publish"

\* What it has built, at a time that has passed.
Prepared(c) ==
  /\ Requests[c].action \in Announcing
  /\ publication[c].run = Requests[c].run
  /\ publication[c].version = Requests[c].version
  /\ publication[c].at < clock

\* Its version is above those that are published, and stays so.
Ahead(c) ==
  /\ pc[c] \notin {"approved", "published"}
  /\ Inserting(c) =>
       Prepared(c) /\ \A p \in publications : Behind(p, publication[c])
  /\ pc[c] = "existing" /\ Requests[c].action = "api_publish" =>
       /\ Prepared(c)
       /\ publication[c].destination = Requests[c].destination
       /\ \A p \in publications : p.at < publication[c].at
  /\ pc[c] = "prior" /\ Requests[c].action = "rollback" =>
       Increases(AnyDestination(c), Requests[c].version)

SInv ==
  given \in Serial =>
    /\ \A c \in Commands : pc[c] # "idle" => c \in given
    /\ \A c, d \in Commands : Busy(c) /\ Busy(d) => c = d
    /\ ScopesOrdered
    /\ \A c \in Commands : Ahead(c)

\* It suffices to show it of the one command that is under way.
LEMMA SerialOf ==
  ASSUME SInv, given \in Serial, NEW c \in Commands, c \in given, given' = given,
         \A d \in Commands \ {c} : pc'[d] = pc[d] /\ ~Busy(d),
         ScopesOrdered', Ahead(c)'
  PROVE  SInv'
<1>1. \A d \in Commands \ {c} : Ahead(d)'
  BY DEF Ahead, Busy, Inserting
<1>2. \A d \in Commands \ {c} : ~Busy(d)'
  BY DEF Busy
<1> QED
  BY <1>1, <1>2 DEF SInv

\* What is published stays ordered while nothing is published.
LEMMA ScopesStay ==
  ASSUME ScopesOrdered, TypeOK, publications' = publications, given' = given,
         clock' = clock \/ clock' = clock + 1
  PROVE  ScopesOrdered'
<1>1. clock \in Nat /\ \A p \in publications : p.at \in Nat
  BY DEF TypeOK, Publication
<1>2. \A p \in publications : p.at < clock'
  BY <1>1 DEF ScopesOrdered
<1> QED
  BY <1>2 DEF ScopesOrdered, Behind

\* Who takes a step is given and is the one that is under way, unless it is
\* given again.
LEMMA SerialWho ==
  ASSUME SInv, given \in Serial, NEW c \in Commands, Read(c) \/ Persist(c)
  PROVE  /\ c \in given /\ given' = given
         /\ \A d \in Commands \ {c} : ~Busy(d)
<1> USE DEF Begins, Goto, Fail, Busy, SInv
<1>1. CASE Read(c)
  <2>1. CASE CheckOverride(c) \/ ReadOverrides(c) \/ CheckRollback(c)
    BY <2>1 DEF CheckOverride, ReadOverrides, CheckRollback
  <2>2. CASE ReadApprovals(c) \/ BuildAutomatic(c)
    BY <2>2 DEF ReadApprovals, BuildAutomatic
  <2>3. CASE CheckExisting(c) \/ ReadPrior(c) \/ ReadRollbackSource(c)
    BY <2>3 DEF CheckExisting, ReadPrior, ReadRollbackSource
  <2>4. CASE CheckApprovals(c) \/ CheckPublish(c)
    BY <2>4 DEF CheckApprovals, CheckPublish
  <2> QED
    BY <1>1, <2>1, <2>2, <2>3, <2>4 DEF Read
<1>2. CASE Persist(c)
  BY <1>2 DEF Persist, PersistOverride, PersistApproval, PersistStatus,
              PersistPublication, PersistRevision, EmitEvent
<1> QED
  BY <1>1, <1>2

\* A record that is built at an increasing version is ahead of its scope.
LEMMA BuiltAhead ==
  ASSUME TypeOK, ScopesOrdered, NEW c \in Commands, NEW a, NEW d,
         NEW rows, \A p \in publications :
                     p.run = Requests[c].run /\ p.destination = d => p \in rows,
         Increases(rows, Requests[c].version), Requests[c].version \in Int,
         NEW q, q = BuildPublication(c, a, d)
  PROVE  \A p \in publications : Behind(p, q)
<1>1. /\ q.run = Requests[c].run /\ q.destination = d
      /\ q.version = Requests[c].version /\ q.at = clock
  BY DEF BuildPublication
<1>2. \A p \in publications : p.at < clock /\ p.version \in Int
  BY DEF ScopesOrdered
<1>3. \A p \in rows : Requests[c].version > p.version
  BY DEF Increases
<1> QED
  BY <1>1, <1>2, <1>3 DEF Behind

\* Only the insert of publications publishes, and what is given stays.
LEMMA WhatPublishes ==
  ASSUME [Next]_vars
  PROVE  /\ given' = given
         /\ publications' = publications \/ \E c \in Commands : PersistPublication(c)
<1> USE DEF Goto, Fail, tables
<1>1. ASSUME NEW c \in Commands, Read(c)
      PROVE  given' = given /\ publications' = publications
  <2>1. CASE CheckOverride(c) \/ ReadOverrides(c) \/ CheckRollback(c)
    BY <2>1 DEF CheckOverride, ReadOverrides, CheckRollback
  <2>2. CASE ReadApprovals(c) \/ BuildAutomatic(c)
    BY <2>2 DEF ReadApprovals, BuildAutomatic
  <2>3. CASE CheckExisting(c) \/ ReadPrior(c)
    BY <2>3 DEF CheckExisting, ReadPrior
  <2>4. CASE ReadRollbackSource(c)
    BY <2>4 DEF ReadRollbackSource
  <2>5. CASE CheckApprovals(c) \/ CheckPublish(c)
    BY <2>5 DEF CheckApprovals, CheckPublish
  <2> QED
    BY <1>1, <2>1, <2>2, <2>3, <2>4, <2>5 DEF Read
<1>2. ASSUME NEW c \in Commands, Persist(c)
      PROVE  given' = given /\ (publications' = publications \/ PersistPublication(c))
  <2>1. CASE PersistPublication(c)
    BY <2>1 DEF PersistPublication
  <2>2. CASE PersistOverride(c) \/ PersistApproval(c) \/ PersistStatus(c)
    BY <2>2 DEF PersistOverride, PersistApproval, PersistStatus
  <2>3. CASE PersistRevision(c) \/ EmitEvent(c)
    BY <2>3 DEF PersistRevision, EmitEvent
  <2> QED
    BY <1>2, <2>1, <2>2, <2>3 DEF Persist
<1>3. ASSUME NEW c \in Commands, Rerun(c)
      PROVE  given' = given /\ publications' = publications
  BY <1>3 DEF Rerun
<1>4. CASE UNCHANGED vars
  BY <1>4 DEF vars
<1> QED
  BY <1>1, <1>2, <1>3, <1>4 DEF Next

\* One step of any command keeps it.
LEMMA SerialStep == VersionsChecked /\ IInv /\ SInv /\ [Next]_vars => SInv'
<1> SUFFICES ASSUME VersionsChecked, IInv, SInv, [Next]_vars
             PROVE  SInv'
  OBVIOUS
<1>t. /\ TypeOK /\ clock \in Nat /\ pc \in [Commands -> Places]
      /\ publication \in [Commands -> Publication \union {None}]
      /\ \A p \in publications : p \in Publication /\ p.at \in Nat
  BY DEF IInv, TypeOK, Publication
<1>u. CASE UNCHANGED vars
  BY <1>u DEF vars, SInv, Busy, ScopesOrdered, Behind, Ahead, Inserting, Prepared,
              Increases, AnyDestination
<1>r. ASSUME NEW c \in Commands, Rerun(c)
      PROVE  SInv'
  <2>1. /\ pc' = [pc EXCEPT ![c] = "idle"] /\ given' = given
        /\ publications' = publications /\ clock' = clock
        /\ publication' = [publication EXCEPT ![c] = None]
    BY <1>r DEF Rerun, Goto, tables
  <2>2. \A d \in Commands \ {c} : pc'[d] = pc[d] /\ publication'[d] = publication[d]
    BY <2>1, <1>t
  <2>3. pc'[c] = "idle"
    BY <2>1, <1>t
  <2>4. ASSUME given \in Serial, NEW d \in Commands
        PROVE  Ahead(d)'
    <3>1. CASE d = c
      BY <2>3, <3>1 DEF Ahead, Inserting
    <3>2. CASE d # c
      BY <2>1, <2>2, <2>4, <3>2
         DEF SInv, Ahead, Inserting, Prepared, Behind, Increases, AnyDestination
    <3> QED
      BY <3>1, <3>2
  <2>5. given \in Serial => ScopesOrdered'
    BY <2>1, <1>t, ScopesStay DEF SInv
  <2>6. ASSUME given \in Serial, NEW d \in Commands
        PROVE  (Busy(d)' => Busy(d)) /\ (pc'[d] # "idle" => d \in given')
    BY <2>1, <2>2, <2>3, <2>6 DEF SInv, Busy
  <2> QED
    BY <2>1, <2>4, <2>5, <2>6 DEF SInv
<1>n. ASSUME NEW c \in Commands, Read(c) \/ Persist(c), given \in Serial
      PROVE  SInv'
  <2> USE DEF tables, locals, Goto, Fail, Stamp
  <2>a. /\ c \in given /\ given' = given
        /\ \A d \in Commands \ {c} : ~Busy(d)
    BY <1>n, SerialWho
  <2>b. ScopesOrdered /\ Ahead(c) /\ Requests[c].action # "auto"
    BY <1>n, <2>a DEF SInv, VersionsChecked
  <2>c. ASSUME \A d \in Commands \ {c} : pc'[d] = pc[d], Ahead(c)',
               publications' = publications,
               clock' = clock \/ clock' = clock + 1
        PROVE  SInv'
    BY <1>n, <1>t, <2>a, <2>b, <2>c, ScopesStay, SerialOf
  <2>1. CASE CheckOverride(c)
    <3>1. /\ pc'[c] \in {"done", "failed", "overriding"}
          /\ \A d \in Commands \ {c} : pc'[d] = pc[d]
          /\ publications' = publications /\ clock' = clock + 1
      BY <2>1, <1>t DEF CheckOverride
    <3>2. Ahead(c)'
      BY <3>1 DEF Ahead, Inserting
    <3> QED
      BY <2>c, <3>1, <3>2
  <2>2. CASE ReadOverrides(c)
    <3>1. /\ pc'[c] = "existing" /\ Requests[c].action # "api_publish"
          /\ \A d \in Commands \ {c} : pc'[d] = pc[d]
          /\ publications' = publications /\ clock' = clock
      BY <2>2, <1>t DEF ReadOverrides, Begins
    <3>2. Ahead(c)'
      BY <3>1 DEF Ahead, Inserting
    <3> QED
      BY <2>c, <3>1, <3>2
  <2>3. CASE CheckExisting(c)
    <3>1. PICK a, q : /\ a = Decision(c, chosen[c])
                      /\ q = BuildPublication(c, a, Requests[c].destination)
      OBVIOUS
    <3>2. /\ Requests[c].action \in {"approve_publish", "revise"}
          /\ \A d \in Commands \ {c} : pc'[d] = pc[d]
          /\ publications' = publications
          /\ clock' = clock \/ clock' = clock + 1
      BY <2>3, <1>t DEF CheckExisting
    <3>3. \/ pc'[c] \in {"failed", "event"}
          \/ /\ Increases(AtDestination(c), Requests[c].version)
             /\ publication'[c] = q /\ clock' = clock + 1
             /\ pc'[c] \in {"prior", "approve"}
      BY <2>3, <1>t, <3>1 DEF CheckExisting
    <3>4. CASE pc'[c] \in {"failed", "event"}
      BY <2>c, <3>2, <3>4 DEF Ahead, Inserting
    <3>5. CASE pc'[c] \in {"prior", "approve"}
      <4>1. /\ Increases(AtDestination(c), Requests[c].version)
            /\ publication'[c] = q /\ clock' = clock + 1
        BY <3>3, <3>5
      <4>2. Requests[c].action \in Announcing /\ Requests[c].version \in Int
        BY <3>2 DEF Announcing, VersionsChecked
      <4>3. \A p \in publications :
              p.run = Requests[c].run /\ p.destination = Requests[c].destination
              => p \in AtDestination(c)
        BY DEF AtDestination
      <4>4. \A p \in publications : Behind(p, q)
        BY <1>t, <2>b, <3>1, <4>1, <4>2, <4>3, BuiltAhead
      <4>5. /\ q.run = Requests[c].run /\ q.version = Requests[c].version
            /\ q.at < clock'
        BY <1>t, <3>1, <4>1 DEF BuildPublication
      <4>6. Prepared(c)'
        BY <4>1, <4>2, <4>5 DEF Prepared
      <4>7. Ahead(c)'
        BY <3>2, <3>5, <4>1, <4>4, <4>6 DEF Ahead, Behind
      <4> QED
        BY <2>c, <3>2, <4>7
    <3> QED
      BY <3>3, <3>4, <3>5
  <2>4. CASE ReadPrior(c)
    <3>1. /\ pc[c] = "prior" /\ Requests[c].action = "revise"
          /\ pc'[c] \in {"failed", "approve"}
          /\ \A d \in Commands \ {c} : pc'[d] = pc[d]
          /\ publications' = publications /\ clock' = clock
          /\ publication' = publication
      BY <2>4, <1>t DEF ReadPrior
    <3>2. Ahead(c)'
      BY <2>b, <3>1 DEF Ahead, Inserting, Prepared, Behind
    <3> QED
      BY <2>c, <3>1, <3>2
  <2>5. CASE CheckRollback(c)
    <3>1. /\ Requests[c].action = "rollback"
          /\ \/ pc'[c] \in {"failed", "event"}
             \/ /\ pc'[c] = "prior"
                /\ Increases(AnyDestination(c), Requests[c].version)
          /\ \A d \in Commands \ {c} : pc'[d] = pc[d]
          /\ publications' = publications /\ clock' = clock
      BY <2>5, <1>t DEF CheckRollback, Begins
    <3>2. Ahead(c)'
      BY <3>1 DEF Ahead, Inserting, Increases, AnyDestination
    <3> QED
      BY <2>c, <3>1, <3>2
  <2>6. CASE ReadRollbackSource(c)
    <3>1. /\ pc[c] = "prior" /\ Requests[c].action = "rollback"
          /\ \A d \in Commands \ {c} : pc'[d] = pc[d]
          /\ publications' = publications
          /\ clock' = clock \/ clock' = clock + 1
      BY <2>6, <1>t DEF ReadRollbackSource
    <3>2. CASE pc'[c] = "failed"
      BY <2>c, <3>1, <3>2 DEF Ahead, Inserting
    <3>3. CASE pc'[c] # "failed"
      <4>1. PICK s, a, q :
              /\ a = BuildApproval(c, None, s.value)
              /\ q = BuildPublication(c, a, s.destination)
              /\ publication'[c] = q
              /\ pc'[c] = "approve" /\ clock' = clock + 1
        <5>1. PICK s : /\ publication'[c] = RollbackRecord(c, s)
                       /\ pc'[c] = "approve" /\ clock' = clock + 1
          BY <2>6, <1>t, <3>3 DEF ReadRollbackSource
        <5> QED
          BY <5>1 DEF RollbackRecord
      <4>2. Increases(AnyDestination(c), Requests[c].version)
        BY <2>b, <3>1 DEF Ahead
      <4>3. Requests[c].action \in Announcing /\ Requests[c].version \in Int
        BY <3>1 DEF Announcing, VersionsChecked
      <4>4. \A p \in publications :
              p.run = Requests[c].run /\ p.destination = s.destination
              => p \in AnyDestination(c)
        BY DEF AnyDestination
      <4>5. \A p \in publications : Behind(p, q)
        BY <1>t, <2>b, <4>1, <4>2, <4>3, <4>4, BuiltAhead
      <4>6. /\ q.run = Requests[c].run /\ q.version = Requests[c].version
            /\ q.at < clock'
        BY <1>t, <4>1 DEF BuildPublication
      <4>7. Prepared(c)'
        BY <4>1, <4>3, <4>6 DEF Prepared
      <4>8. Ahead(c)'
        BY <3>1, <4>1, <4>5, <4>7 DEF Ahead, Behind
      <4> QED
        BY <2>c, <3>1, <4>8
    <3> QED
      BY <3>2, <3>3
  <2>7. CASE CheckApprovals(c)
    <3>1. /\ Requests[c].action = "api_approve"
          /\ pc'[c] \in {"done", "failed", "approve"}
          /\ \A d \in Commands \ {c} : pc'[d] = pc[d]
          /\ publications' = publications /\ clock' = clock
      BY <2>7, <1>t DEF CheckApprovals
    <3>2. Ahead(c)'
      BY <3>1 DEF Ahead, Inserting
    <3> QED
      BY <2>c, <3>1, <3>2
  <2>8. CASE ReadApprovals(c)
    <3>1. /\ Requests[c].action = "api_publish"
          /\ \A d \in Commands \ {c} : pc'[d] = pc[d]
          /\ publications' = publications
          /\ clock' = clock \/ clock' = clock + 1
      BY <2>8, <1>t DEF ReadApprovals, Begins
    <3>2. CASE pc'[c] = "failed"
      BY <2>c, <3>1, <3>2 DEF Ahead, Inserting
    <3>3. CASE pc'[c] # "failed"
      <4>1. PICK a, q : /\ q = BuildPublication(c, a, Requests[c].destination)
                        /\ publication'[c] = q
                        /\ pc'[c] = "existing" /\ clock' = clock + 1
        BY <2>8, <1>t, <3>3 DEF ReadApprovals
      <4>2. /\ q.run = Requests[c].run /\ q.version = Requests[c].version
            /\ q.destination = Requests[c].destination
            /\ q.at = clock /\ q.at < clock'
        BY <1>t, <4>1 DEF BuildPublication
      <4>3. \A p \in publications : p.at < q.at
        BY <2>b, <4>2 DEF ScopesOrdered
      <4>4. Requests[c].action \in Announcing
        BY <3>1 DEF Announcing
      <4>5. Ahead(c)'
        BY <3>1, <4>1, <4>2, <4>3, <4>4 DEF Ahead, Inserting, Prepared
      <4> QED
        BY <2>c, <3>1, <4>5
    <3> QED
      BY <3>2, <3>3
  <2>9. CASE CheckPublish(c)
    <3>1. /\ pc[c] = "existing" /\ Requests[c].action = "api_publish"
          /\ \/ pc'[c] \in {"failed", "event"}
             \/ /\ pc'[c] = "publish"
                /\ Increases(AtDestination(c), Requests[c].version)
          /\ \A d \in Commands \ {c} : pc'[d] = pc[d]
          /\ publications' = publications /\ clock' = clock
          /\ publication' = publication
      BY <2>9, <1>t DEF CheckPublish
    <3>2. /\ Prepared(c) /\ publication[c].destination = Requests[c].destination
          /\ \A p \in publications : p.at < publication[c].at
      BY <2>b, <3>1 DEF Ahead
    <3>3. pc'[c] = "publish" => \A p \in publications : Behind(p, publication[c])
      <4>1. SUFFICES ASSUME pc'[c] = "publish", NEW p \in publications,
                            p.run = publication[c].run,
                            p.destination = publication[c].destination
                     PROVE  p.version < publication[c].version
        BY <3>2 DEF Behind
      <4>2. p \in AtDestination(c)
        BY <3>2, <4>1 DEF AtDestination, Prepared
      <4>3. Requests[c].version \in Int /\ p.version \in Int
        BY <2>b, <3>2 DEF Prepared, VersionsChecked, ScopesOrdered
      <4> QED
        BY <3>1, <3>2, <4>1, <4>2, <4>3 DEF Increases, Prepared
    <3>4. Ahead(c)'
      BY <3>1, <3>2, <3>3 DEF Ahead, Inserting, Prepared, Behind
    <3> QED
      BY <2>c, <3>1, <3>4
  <2>10. CASE BuildAutomatic(c)
    BY <2>10, <2>b DEF BuildAutomatic, Begins
  <2>11. CASE PersistOverride(c) \/ PersistRevision(c) \/ EmitEvent(c)
    <3>1. /\ pc'[c] \in {"done", "event"}
          /\ \A d \in Commands \ {c} : pc'[d] = pc[d]
          /\ publications' = publications /\ clock' = clock
      BY <2>11, <1>t DEF PersistOverride, PersistRevision, EmitEvent
    <3>2. Ahead(c)'
      BY <3>1 DEF Ahead, Inserting
    <3> QED
      BY <2>c, <3>1, <3>2
  <2>12. CASE PersistApproval(c)
    <3>1. /\ pc[c] = "approve"
          /\ pc'[c] = IF Requests[c].action = "api_approve" THEN "done" ELSE "publish"
          /\ \A d \in Commands \ {c} : pc'[d] = pc[d]
          /\ publications' = publications /\ clock' = clock
          /\ publication' = publication
      BY <2>12, <2>b, <1>t DEF PersistApproval, AfterApproval
    <3>2. Ahead(c)'
      BY <2>b, <3>1 DEF Ahead, Inserting, Prepared, Behind
    <3> QED
      BY <2>c, <3>1, <3>2
  <2>13. CASE PersistStatus(c)
    BY <2>13, <2>b DEF PersistStatus, Ahead
  <2>14. CASE PersistPublication(c)
    <3>1. PICK q : q = publication[c]
      OBVIOUS
    <3>2. /\ pc[c] = "publish" /\ clock' = clock
          /\ pc'[c] = AfterPublication(Requests[c].action)
          /\ \A d \in Commands \ {c} : pc'[d] = pc[d]
          /\ \A p \in publications' : p \in publications \/ p = q
      BY <2>14, <1>t, <3>1 DEF PersistPublication, InsertOnce
    <3>3. Prepared(c) /\ \A p \in publications : Behind(p, q)
      BY <2>b, <3>1, <3>2 DEF Ahead, Inserting
    <3>4. q.at < clock /\ q.version \in Int /\ q.run = Requests[c].run
      BY <3>1, <3>3 DEF Prepared, VersionsChecked
    <3>5. ScopesOrdered'
      <4>1. \A p \in publications' :
              /\ p.at < clock' /\ p.version \in Int
              /\ \E d \in given' : p.run = Requests[d].run
        BY <2>a, <2>b, <3>2, <3>4 DEF ScopesOrdered
      <4>2. \A p, r \in publications' : p = r \/ Behind(p, r) \/ Behind(r, p)
        BY <2>b, <3>2, <3>3 DEF ScopesOrdered
      <4> QED
        BY <4>1, <4>2 DEF ScopesOrdered, Behind
    <3>6. Ahead(c)'
      BY <2>b, <3>2 DEF Ahead, Inserting, AfterPublication
    <3> QED
      BY <1>n, <2>a, <3>2, <3>5, <3>6, SerialOf
  <2> QED
    BY <1>n, <2>1, <2>2, <2>3, <2>4, <2>5, <2>6, <2>7, <2>8, <2>9, <2>10, <2>11,
       <2>12, <2>13, <2>14 DEF Read, Persist
<1>s. CASE given \notin Serial
  BY <1>s, WhatPublishes DEF SInv
<1> QED
  BY <1>u, <1>r, <1>n, <1>s DEF Next

LEMMA SerialStart == Init => SInv
  BY DEF Init, SInv, Busy, ScopesOrdered, Ahead, Inserting

\* A publication that is ahead of its scope is one more release of its chain.
LEMMA ChainGrows ==
  ASSUME TypeOK, given \in Serial, given' = given, NEW q \in Publication,
         ScopesOrdered, q.version \in Int,
         \A p \in publications : Behind(p, q),
         publications' = publications \union {q}
  PROVE  Chain!Next
<1> DEFINE s == <<q.run, q.destination>>
<1>1. s \in Scopes
  BY DEF Scopes, Publication
<1>2. chains'[s] = chains[s] \union {Release(q)}
  BY <1>1 DEF chains
<1>3. \A t \in Scopes \ {s} : chains'[t] = chains[t]
  BY DEF chains
<1>4. \A r \in chains[s] : q.version > r.version
  <2> SUFFICES ASSUME NEW r \in chains[s]
               PROVE  q.version > r.version
    OBVIOUS
  <2>1. PICK p \in publications :
          p.run = q.run /\ p.destination = q.destination /\ r = Release(p)
    BY <1>1 DEF chains
  <2>2. p.version < q.version /\ p.version \in Int
    BY <2>1 DEF Behind, ScopesOrdered
  <2> QED
    BY <2>1, <2>2 DEF Release
<1>5. Release(q).version = q.version
  BY DEF Release
<1>6. Release(q) \notin chains[s]
  BY <1>4, <1>5
<1>7. chains' = [chains EXCEPT ![s] = @ \union {Release(q)}]
  <2>1. chains' = [t \in Scopes |-> chains'[t]] /\ chains = [t \in Scopes |-> chains[t]]
    BY DEF chains
  <2> QED
    BY <1>1, <1>2, <1>3, <2>1
<1>8. Chain!Publish(s, Release(q))
  BY <1>4, <1>5, <1>7 DEF Chain!Publish
<1>9. Release(q) \in chains'[s] \ chains[s]
  BY <1>2, <1>6
<1> QED
  BY <1>1, <1>8, <1>9 DEF Chain!Next

\* A step publishes nothing, or inserts a publication that is ahead.
LEMMA ChainStep ==
  VersionsChecked /\ IInv /\ SInv /\ [Next]_vars => [Chain!Next]_chains
<1> SUFFICES ASSUME VersionsChecked, IInv, SInv, [Next]_vars
             PROVE  [Chain!Next]_chains
  OBVIOUS
<1>1. given' = given
  BY WhatPublishes
<1>2. CASE publications' = publications \/ given \notin Serial
  <2>1. chains' = chains
    BY <1>1, <1>2 DEF chains
  <2> QED
    BY <2>1
<1>3. CASE publications' # publications /\ given \in Serial
  <2>1. PICK c \in Commands : PersistPublication(c)
    BY <1>3, WhatPublishes
  <2>2. publications' = publications \union {publication[c]}
    BY <1>3, <2>1 DEF PersistPublication, InsertOnce
  <2>3. /\ Prepared(c) /\ ScopesOrdered
        /\ \A p \in publications : Behind(p, publication[c])
    BY <1>3, <2>1 DEF PersistPublication, SInv, Ahead, Inserting
  <2>4. publication[c] \in Publication /\ TypeOK
    BY <2>1 DEF PersistPublication, IInv, Underway, Progress, Publishing
  <2>5. publication[c].version \in Int
    BY <2>3 DEF Prepared, VersionsChecked
  <2> QED
    BY <1>1, <1>3, <2>2, <2>3, <2>4, <2>5, ChainGrows
<1> QED
  BY <1>2, <1>3

\* Commands that are given one at a time implement VersionChain: at every scope
\* versions only grow, and none is changed or withdrawn.
THEOREM LedgerIsVersionChain ==
  ASSUME VersionsChecked
  PROVE  Spec => ImplementsVersionChain
<1>1. Init => Chain!Init
  BY DEF Init, Chain!Init, chains
<1>2. Init => IInv /\ SInv
  BY LedgerStart, SerialStart
<1>3. IInv /\ SInv /\ [Next]_vars => (IInv /\ SInv)'
  BY LedgerStep, SerialStep
<1>4. IInv /\ SInv /\ [Next]_vars => [Chain!Next]_chains
  BY ChainStep
<1> QED
  BY <1>1, <1>2, <1>3, <1>4, PTL DEF Spec, ImplementsVersionChain, Chain!Spec

-----------------------------------------------------------------------------
(* Commands that are given again.                                          *)

\* The publication that a command has built is under its key and, but for a
\* rollback, at its destination.
Own(c) ==
  /\ publication[c].key = Requests[c].key
  /\ publication[c].run = Requests[c].run
  /\ publication[c].version = Requests[c].version
  /\ Requests[c].action # "rollback" =>
       publication[c].destination = Requests[c].destination

\* Only a rollback that has published nothing comes to publish: the others may
\* have, and then it is the same publication.
Once(c) ==
  /\ \/ Approving(c) /\ Requests[c].action # "api_approve"
     \/ Publishing(c)
     => Own(c)
  /\ pc[c] \in {"approved", "published"} => Requests[c].action = "auto"
  /\ pc[c] \in {"prior", "approve", "publish"} /\ Requests[c].action = "rollback" =>
       PublishedBy(c) = {}

OnceInv ==
  /\ \A p \in publications, c \in Commands :
       p.key = Requests[c].key /\ Requests[c].action # "rollback" =>
         p.destination = Requests[c].destination
  /\ \A c \in Commands : Once(c)

\* It suffices to show it of the command that takes the step.
LEMMA OnceOf ==
  ASSUME OnceInv, NEW c \in Commands, publications' = publications,
         \A d \in Commands \ {c} : pc'[d] = pc[d] /\ publication'[d] = publication[d],
         Once(c)'
  PROVE  OnceInv'
<1>1. ASSUME NEW d \in Commands \ {c}
      PROVE  Once(d)'
  <2>1. Once(d)
    BY DEF OnceInv
  <2> QED
    BY <2>1 DEF Once, Approving, Publishing, Own, PublishedBy
<1> QED
  BY <1>1 DEF OnceInv

\* A command that inserts its publication, a second time or not.
LEMMA OnceInserts ==
  ASSUME IInv, OnceInv, NEW c \in Commands, PersistPublication(c)
  PROVE  OnceInv' /\ (PublishedBy(c) # {} => publications' = publications)
<1>1. /\ pc[c] = "publish" /\ pc \in [Commands -> Places]
      /\ publications' = InsertOnce(publications, publication[c], PublicationId)
      /\ publication' = publication
      /\ pc' = [pc EXCEPT ![c] = AfterPublication(Requests[c].action)]
  BY DEF PersistPublication, Goto, locals, IInv, TypeOK
<1>2. Own(c) /\ (Requests[c].action = "rollback" => PublishedBy(c) = {})
  BY <1>1 DEF OnceInv, Once, Publishing
<1>3. /\ publications \subseteq publications'
      /\ \A x \in publications' : x \in publications \/ x = publication[c]
  BY <1>1, InsertedPublication
<1>4. ASSUME PublishedBy(c) # {}
      PROVE  publications' = publications
  <2>1. PICK p \in publications :
          p.key = Requests[c].key /\ p.run = Requests[c].run /\ p.version = Requests[c].version
    BY <1>4 DEF PublishedBy
  <2>2. p.destination = publication[c].destination
    BY <1>2, <1>4, <2>1 DEF OnceInv, Own
  <2>3. PublicationId(p) = PublicationId(publication[c])
    BY <1>2, <2>1, <2>2 DEF PublicationId, Own
  <2> QED
    BY <1>1, <2>3 DEF InsertOnce
<1>5. \A p \in publications', d \in Commands :
        p.key = Requests[d].key /\ Requests[d].action # "rollback" =>
          p.destination = Requests[d].destination
  <2>1. \A d \in Commands : publication[c].key = Requests[d].key => d = c
    BY <1>2, KeysAssumption DEF Own
  <2> QED
    BY <1>2, <1>3, <2>1 DEF OnceInv, Own
<1>6. ASSUME NEW d \in Commands
      PROVE  Once(d)'
  <2>1. CASE d = c
    <3>1. pc'[c] \in {"published", "revise", "event"}
      BY <1>1 DEF AfterPublication
    <3>2. pc'[c] = "published" => Requests[c].action = "auto"
      BY <1>1 DEF AfterPublication
    <3> QED
      BY <2>1, <3>1, <3>2 DEF Once, Approving, Publishing
  <2>2. CASE d # c
    <3>1. Once(d) /\ pc'[d] = pc[d] /\ Requests[d].key # Requests[c].key
      BY <1>1, <2>2, KeysAssumption DEF OnceInv
    <3>2. PublishedBy(d)' = PublishedBy(d)
      BY <1>2, <1>3, <3>1 DEF PublishedBy, Own
    <3> QED
      BY <1>1, <3>1, <3>2 DEF Once, Approving, Publishing, Own
  <2> QED
    BY <2>1, <2>2
<1> QED
  BY <1>4, <1>5, <1>6 DEF OnceInv

\* One step of any command keeps it.
LEMMA OnceStep == IInv /\ OnceInv /\ [Next]_vars => OnceInv'
<1> SUFFICES ASSUME IInv, OnceInv, [Next]_vars
             PROVE  OnceInv'
  OBVIOUS
<1>t. /\ pc \in [Commands -> Places]
      /\ publication \in [Commands -> Publication \union {None}]
  BY DEF IInv, TypeOK
<1>o. \A c \in Commands : Once(c)
  BY DEF OnceInv
<1> USE DEF Goto, Fail, tables, locals
<1>1. ASSUME NEW c \in Commands,
             \/ CheckOverride(c) \/ ReadOverrides(c) \/ PersistOverride(c)
             \/ PersistRevision(c) \/ EmitEvent(c) \/ Rerun(c)
      PROVE  OnceInv'
  <2>1. /\ publications' = publications
        /\ pc'[c] \in {"idle", "overriding", "existing", "event", "done", "failed"}
        /\ pc'[c] = "existing" => Requests[c].action # "api_publish"
        /\ \A d \in Commands \ {c} : pc'[d] = pc[d] /\ publication'[d] = publication[d]
    BY <1>1, <1>t DEF CheckOverride, ReadOverrides, PersistOverride, PersistRevision,
                      EmitEvent, Rerun, Begins
  <2>2. Once(c)'
    BY <2>1 DEF Once, Approving, Publishing
  <2> QED
    BY <2>1, <2>2, OnceOf
<1>2. ASSUME NEW c \in Commands, CheckExisting(c)
      PROVE  OnceInv'
  <2>1. /\ publications' = publications
        /\ Requests[c].action \in {"approve_publish", "revise"}
        /\ pc'[c] \in {"event", "failed", "prior", "approve"}
        /\ \A d \in Commands \ {c} : pc'[d] = pc[d] /\ publication'[d] = publication[d]
    BY <1>2, <1>t DEF CheckExisting
  <2>2. ASSUME pc'[c] \in {"prior", "approve"}
        PROVE  Own(c)'
    <3>1. PICK a, p : /\ p = BuildPublication(c, a, Requests[c].destination)
                      /\ publication' = [publication EXCEPT ![c] = p]
      BY <1>2, <1>t, <2>2 DEF CheckExisting
    <3> QED
      BY <1>t, <3>1, BuiltMine DEF Own
  <2>3. Once(c)'
    BY <2>1, <2>2 DEF Once, Approving, Publishing
  <2> QED
    BY <2>1, <2>3, OnceOf
<1>3. ASSUME NEW c \in Commands, ReadPrior(c)
      PROVE  OnceInv'
  <2>1. /\ publications' = publications /\ pc[c] = "prior"
        /\ Requests[c].action = "revise" /\ publication' = publication
        /\ pc'[c] \in {"failed", "approve"}
        /\ \A d \in Commands \ {c} : pc'[d] = pc[d]
    BY <1>3, <1>t DEF ReadPrior
  <2>2. Once(c)'
    BY <1>o, <2>1 DEF Once, Approving, Publishing, Own
  <2> QED
    BY <2>1, <2>2, OnceOf
<1>4. ASSUME NEW c \in Commands, CheckRollback(c)
      PROVE  OnceInv'
  <2>1. /\ publications' = publications /\ publication' = publication
        /\ Requests[c].action = "rollback"
        /\ pc'[c] \in {"failed", "event", "prior"}
        /\ pc'[c] = "prior" => WithVersion(AnyDestination(c), Requests[c].version) = {}
        /\ \A d \in Commands \ {c} : pc'[d] = pc[d]
    BY <1>4, <1>t DEF CheckRollback, Begins
  <2>2. pc'[c] = "prior" => PublishedBy(c)' = {}
    BY <2>1 DEF PublishedBy, WithVersion, AnyDestination
  <2>3. Once(c)'
    BY <2>1, <2>2 DEF Once, Approving, Publishing
  <2> QED
    BY <2>1, <2>3, OnceOf
<1>5. ASSUME NEW c \in Commands, ReadRollbackSource(c)
      PROVE  OnceInv'
  <2>1. /\ publications' = publications /\ pc[c] = "prior"
        /\ Requests[c].action = "rollback"
        /\ pc'[c] \in {"failed", "approve"}
        /\ \A d \in Commands \ {c} : pc'[d] = pc[d] /\ publication'[d] = publication[d]
    BY <1>5, <1>t DEF ReadRollbackSource
  <2>2. ASSUME pc'[c] = "approve"
        PROVE  Own(c)'
    <3>1. PICK p, a, q : /\ q = BuildPublication(c, a, p.destination)
                         /\ publication' = [publication EXCEPT ![c] = q]
      BY <1>5, <1>t, <2>2 DEF ReadRollbackSource, RollbackRecord
    <3>2. publication'[c] = q
      BY <1>t, <3>1
    <3> QED
      BY <2>1, <3>1, <3>2, BuiltMine DEF Own
  <2>3. PublishedBy(c)' = {}
    BY <1>o, <2>1 DEF Once, PublishedBy
  <2>4. Once(c)'
    BY <2>1, <2>2, <2>3 DEF Once, Approving, Publishing
  <2> QED
    BY <2>1, <2>4, OnceOf
<1>6. ASSUME NEW c \in Commands, CheckApprovals(c)
      PROVE  OnceInv'
  <2>1. /\ publications' = publications /\ publication' = publication
        /\ Requests[c].action = "api_approve"
        /\ pc'[c] \in {"failed", "done", "approve"}
        /\ \A d \in Commands \ {c} : pc'[d] = pc[d]
    BY <1>6, <1>t DEF CheckApprovals
  <2>2. Once(c)'
    BY <2>1 DEF Once, Approving, Publishing
  <2> QED
    BY <2>1, <2>2, OnceOf
<1>7. ASSUME NEW c \in Commands, ReadApprovals(c) \/ BuildAutomatic(c)
      PROVE  OnceInv'
  <2>1. /\ publications' = publications
        /\ Requests[c].action \in {"api_publish", "auto"}
        /\ pc'[c] \in {"failed", "existing", "approve"}
        /\ \A d \in Commands \ {c} : pc'[d] = pc[d] /\ publication'[d] = publication[d]
    BY <1>7, <1>t DEF ReadApprovals, BuildAutomatic, Begins
  <2>2. ASSUME pc'[c] \in {"existing", "approve"}
        PROVE  Own(c)'
    <3>1. PICK a, p : /\ p = BuildPublication(c, a, Requests[c].destination)
                      /\ publication' = [publication EXCEPT ![c] = p]
      BY <1>7, <1>t, <2>2 DEF ReadApprovals, BuildAutomatic
    <3> QED
      BY <1>t, <3>1, BuiltMine DEF Own
  <2>3. Once(c)'
    BY <2>1, <2>2 DEF Once, Approving, Publishing
  <2> QED
    BY <2>1, <2>3, OnceOf
<1>8. ASSUME NEW c \in Commands, CheckPublish(c)
      PROVE  OnceInv'
  <2>1. /\ publications' = publications /\ publication' = publication
        /\ Requests[c].action = "api_publish" /\ pc[c] = "existing"
        /\ pc'[c] \in {"failed", "event", "publish"}
        /\ \A d \in Commands \ {c} : pc'[d] = pc[d]
    BY <1>8, <1>t DEF CheckPublish
  <2>2. Once(c)'
    BY <1>o, <2>1 DEF Once, Approving, Publishing, Own
  <2> QED
    BY <2>1, <2>2, OnceOf
<1>9. ASSUME NEW c \in Commands, PersistApproval(c) \/ PersistStatus(c)
      PROVE  OnceInv'
  <2>1. /\ publications' = publications /\ publication' = publication
        /\ pc[c] \in {"approve", "approved", "published"}
        /\ pc'[c] \in {"done", "approved", "publish"}
        /\ pc[c] = "approve" /\ pc'[c] # "done" => Requests[c].action # "api_approve"
        /\ pc'[c] = "approved" => Requests[c].action = "auto"
        /\ pc[c] = "published" => pc'[c] = "done"
        /\ \A d \in Commands \ {c} : pc'[d] = pc[d]
    BY <1>9, <1>t DEF PersistApproval, PersistStatus, AfterApproval
  <2>2. PublishedBy(c)' = PublishedBy(c) /\ Own(c)' = Own(c)
    BY <2>1 DEF PublishedBy, Own
  <2>3. Once(c)'
    BY <1>o, <2>1, <2>2 DEF Once, Approving, Publishing
  <2> QED
    BY <2>1, <2>3, OnceOf
<1>10. ASSUME NEW c \in Commands, PersistPublication(c)
       PROVE  OnceInv'
  BY <1>10, OnceInserts
<1>11. CASE UNCHANGED vars
  BY <1>11 DEF vars, OnceInv, Once, Approving, Publishing, Own, PublishedBy
<1> QED
  BY <1>1, <1>2, <1>3, <1>4, <1>5, <1>6, <1>7, <1>8, <1>9, <1>10, <1>11
     DEF Next, Read, Persist

LEMMA OnceStart == Init => OnceInv
  BY DEF Init, OnceInv, Once, Approving, Publishing

\* A command that has published and is given again leaves what is shown at
\* every destination as it is, whatever was published there meanwhile, of its
\* run or of another.
THEOREM RetriesAreSilent == Spec => RetriesKeepCurrent
<1>1. ASSUME IInv, OnceInv, [Next]_vars, NEW c \in Commands, NEW d \in Destinations,
             pc'[c] # pc[c], PublishedBy(c) # {}
      PROVE  Shown(d)' = Shown(d)
  <2>1. CASE publications' = publications
    BY <2>1 DEF Shown
  <2>2. CASE publications' # publications
    <3>1. PICK e \in Commands : PersistPublication(e)
      BY <1>1, <2>2, WhatPublishes
    <3>2. e = c
      BY <1>1, <3>1 DEF PersistPublication, Goto, IInv, TypeOK
    <3> QED
      BY <1>1, <2>2, <3>1, <3>2, OnceInserts
  <2> QED
    BY <2>1, <2>2
<1>2. IInv /\ OnceInv /\ [Next]_vars =>
        [\A c \in Commands, d \in Destinations :
           pc'[c] # pc[c] /\ PublishedBy(c) # {} => Shown(d)' = Shown(d)]_vars
  BY <1>1
<1>3. Init => IInv /\ OnceInv
  BY LedgerStart, OnceStart
<1>4. IInv /\ OnceInv /\ [Next]_vars => (IInv /\ OnceInv)'
  BY LedgerStep, OnceStep
<1> QED
  BY <1>2, <1>3, <1>4, PTL DEF Spec, RetriesKeepCurrent
=============================================================================
