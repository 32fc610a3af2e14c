------------------------- MODULE IncidentEngineProofs -------------------------
(***************************************************************************)
(* For any alerts, limits, people and schedulers: alerts are grouped one   *)
(* at a time, no lock outlives its transaction, and no event is stored     *)
(* twice.                                                                  *)
(***************************************************************************)
EXTENDS IncidentEngine, FiniteSetTheorems, TLAPS

(* An alert being grouped has an incident, and its event is not stored:    *)
(* only the holder of the advisory lock could store it.                    *)
GroupedFresh ==
    \A m \in Messages :
        task[m].pc \in InGrouping => task[m].id \in Ids /\ SameEvent(m) = {}

(* A sweep has read the status of every row it has locked.                 *)
SweepsRead ==
    /\ \A w \in Sweepers : sweep[w].todo # <<>> => sweep[w].pc = "writing"
    /\ \A i \in Ids : rowLock[i] \in Sweepers => sweep[rowLock[i]].from[i] # "none"

(* What decides who may write: it says nothing of the incident rows.       *)
Ownership ==
    /\ GroupingSerialised
    /\ LocksOwned
    /\ GroupedFresh
    /\ SweepsRead
    /\ OneRowPerEvent

EngineInv == TypeOK /\ Ownership

(* The rows the transactions write have their shape.                       *)
LEMMA EntitiesKnown == \A m \in Messages : EntitiesOf(m) \subseteq Entities
<1> SUFFICES ASSUME NEW m \in Messages, NEW x \in EntitiesOf(m)
             PROVE  x \in Entities
  OBVIOUS
<1>1. x \in {Alert[m].agent, Alert[m].src, Alert[m].user, Alert[m].cat} \ {NoValue}
  BY DEF EntitiesOf
<1> QED
  BY <1>1 DEF Entities

(* A new incident.                                                         *)
LEMMA CreatedRowType == \A m \in Messages : CreatedRow(m) \in IncidentRow
<1> SUFFICES ASSUME NEW m \in Messages
             PROVE  CreatedRow(m) \in IncidentRow
  OBVIOUS
<1>1. ScoreSeverity(Alert[m].score) \in Severities
  BY AlertAssumption DEF ScoreSeverity, Severities, AlertType
<1>2. Alert[m].time \in Nat
  BY AlertAssumption DEF AlertType
<1> QED
  BY <1>1, <1>2, EntitiesKnown DEF CreatedRow, IncidentRow, Statuses

(* Replacing the columns an alert changes.                                 *)
LEMMA RowUpdateType ==
    ASSUME NEW row \in IncidentRow, NEW count \in Nat, NEW last \in Nat,
           NEW entities \in SUBSET Entities, NEW severity \in Severities, NEW age \in 0..2
    PROVE  [row EXCEPT !.count = count, !.last = last, !.entities = entities,
                       !.severity = severity, !.age = age] \in IncidentRow
  BY DEF IncidentRow

(* An incident with one alert more.                                        *)
LEMMA MergedRowType ==
    ASSUME NEW m \in Messages, NEW row \in IncidentRow
    PROVE  MergedRow(m, row) \in IncidentRow
<1>1. ScoreSeverity(Alert[m].score) \in Severities
  BY AlertAssumption DEF ScoreSeverity, Severities, AlertType
<1>2. HigherSeverity(row.severity, ScoreSeverity(Alert[m].score)) \in Severities
  BY <1>1 DEF HigherSeverity, IncidentRow
<1>3. Alert[m].time \in Nat
  BY AlertAssumption DEF AlertType
<1>4. row.entities \cup EntitiesOf(m) \in SUBSET Entities
  BY EntitiesKnown DEF IncidentRow
<1>5. /\ row.count + 1 \in Nat
      /\ (IF Alert[m].time > row.last THEN Alert[m].time ELSE row.last) \in Nat
      /\ 0 \in 0..2
  BY <1>3 DEF IncidentRow
<1> QED
  BY <1>2, <1>4, <1>5, RowUpdateType DEF MergedRow

(* What a commit decides.                                                  *)
LEMMA DecisionTypes ==
    ASSUME NEW severity \in Severities, NEW status \in Statuses,
           NEW fp \in Scores, NEW e \in RuleSeverities
    PROVE  /\ SoftCap(HigherSeverity(severity, e), fp) \in Severities
           /\ BandStatus(status, fp, FpThreshold) \in Statuses
<1>1. HigherSeverity(severity, e) \in Severities
  BY AlertAssumption DEF HigherSeverity
<1>2. SoftCap(HigherSeverity(severity, e), fp) \in Severities
  BY <1>1 DEF SoftCap, Severities
<1> QED
  BY <1>2 DEF BandStatus, Statuses

(* An audit entry more.                                                    *)
LEMMA AuditType ==
    ASSUME NEW log \in [Ids -> Seq(AuditEntry)], NEW i \in Ids,
           NEW from \in Statuses \cup {"none"}, NEW to \in Statuses
    PROVE  AppendAudit(log, i, from, to) \in [Ids -> Seq(AuditEntry)]
<1>1. [from |-> from, to |-> to] \in AuditEntry
  BY DEF AuditEntry
<1>2. Append(log[i], [from |-> from, to |-> to]) \in Seq(AuditEntry)
  BY <1>1
<1> QED
  BY <1>2 DEF AppendAudit

(* An order of the rows of a sweep is a sequence of ids.                   *)
LEMMA OrderType ==
    ASSUME NEW S \in SUBSET Ids, NEW s \in Orders(S)
    PROVE  s \in Seq(Ids)
<1>1. IsFiniteSet(S)
  <2>1. 1 \in Int /\ MaxIncidents \in Int
    BY BoundsAssumption
  <2>2. IsFiniteSet(Ids)
    BY <2>1, FS_Interval DEF Ids
  <2> QED
    BY <2>2, FS_Subset
<1>2. Cardinality(S) \in Nat
  BY <1>1, FS_CardinalityType
<1>3. s \in [1..Cardinality(S) -> Ids]
  BY DEF Orders
<1> QED
  BY <1>2, <1>3

-----------------------------------------------------------------------------
(* Initially every alert is on the list and nothing is locked.             *)
LEMMA EngineInit == Init => EngineInv
<1> SUFFICES ASSUME Init
             PROVE  EngineInv
  OBVIOUS
<1>1. NoRow \in IncidentRow
  BY DEF NoRow, IncidentRow, Statuses, Severities
<1>2. NewTask \in TaskType
  BY <1>1 DEF NewTask, TaskType, TaskPcs
<1>3. 0 \in 0..MaxOps /\ 0 \in 0..MaxCrashes
  BY BoundsAssumption
<1>4. \A i \in Ids : <<>> \in Seq(AuditEntry) /\ <<>> \in Seq(Ids)
  OBVIOUS
<1>5. TypeOK
  <2>1. [i \in Ids |-> "none"] \in [Ids -> Statuses \cup {"none"}]
    OBVIOUS
  <2>2. IdleSweep \in [pc: {"idle", "writing"},
                       kind: {"none", "batch_close", "fp_auto_close", "bulk_fp"},
                       todo: Seq(Ids), to: {"closed", "false_positive"},
                       from: [Ids -> Statuses \cup {"none"}]]
    BY <2>1 DEF IdleSweep
  <2>3. sweep \in [Sweepers -> [pc: {"idle", "writing"},
                       kind: {"none", "batch_close", "fp_auto_close", "bulk_fp"},
                       todo: Seq(Ids), to: {"closed", "false_positive"},
                       from: [Ids -> Statuses \cup {"none"}]]]
    BY <2>2 DEF Init
  <2>4. audit \in [Ids -> Seq(AuditEntry)]
    BY <1>4 DEF Init
  <2>5. /\ analyst \in [Analysts -> [pc: {"idle", "validated"}, id: Ids \cup {NoInc},
                                     from: Statuses, to: Statuses]]
        /\ opener \in [CaseOpeners -> [pc: {"idle", "checked"}, id: Ids \cup {NoInc}]]
        /\ deletion \in [Deleters -> [pc: {"idle", "selected", "alerts"}, ids: SUBSET Ids,
                                      doomed: SUBSET Messages]]
    BY DEF Init, IdleRequest, IdleOpener, IdleDeletion, Statuses
  <2> QED
    BY <1>1, <1>2, <1>3, <2>3, <2>4, <2>5 DEF Init, TypeOK
<1>6. GroupingSerialised /\ LocksOwned
  BY OwnersAssumption DEF Init, GroupingSerialised, LocksOwned, NewTask, InGrouping
<1>7. GroupedFresh /\ SweepsRead /\ OneRowPerEvent
  BY OwnersAssumption
     DEF Init, GroupedFresh, SweepsRead, OneRowPerEvent, NewTask, InGrouping, IdleSweep
<1> QED
  BY <1>5, <1>6, <1>7 DEF EngineInv, Ownership

(* Steps that touch none of the variables of Ownership.                    *)
LEMMA OwnershipKept ==
    ASSUME Ownership, UNCHANGED <<task, advisory, rowLock, sweep, link>>
    PROVE  Ownership'
  BY DEF Ownership, GroupingSerialised, LocksOwned, GroupedFresh, SameEvent, SweepsRead,
         OneRowPerEvent

(* Tasks that move before they group an alert or after.                    *)
LEMMA TasksOutside ==
    ASSUME Ownership, UNCHANGED <<advisory, rowLock, sweep, link>>,
           \A m \in Messages :
               \/ task'[m] = task[m]
               \/ task[m].pc \notin InGrouping /\ task'[m].pc \notin InGrouping
    PROVE  Ownership'
<1>1. GroupingSerialised' /\ GroupedFresh'
  BY DEF Ownership, GroupingSerialised, GroupedFresh, SameEvent
<1>2. LocksOwned'
  BY DEF Ownership, LocksOwned, InGrouping
<1> QED
  BY <1>1, <1>2 DEF Ownership, SweepsRead, OneRowPerEvent

-----------------------------------------------------------------------------
(* One lemma per action: first those of an ingest task.                    *)

(* A task that moves on.                                                   *)
LEMMA TaskMoveType ==
    ASSUME NEW t \in TaskType, NEW pc \in TaskPcs
    PROVE  [t EXCEPT !.pc = pc] \in TaskType
  BY DEF TaskType

(* Draining makes tasks that wait for a permit.                            *)
LEMMA DrainStep ==
    ASSUME EngineInv, NEW batch \in SUBSET Messages, Drain(batch)
    PROVE  EngineInv'
<1>1. task' \in [Messages -> TaskType]
  <2>1. \A m \in Messages : [task[m] EXCEPT !.pc = "spawned"] \in TaskType
    BY TaskMoveType DEF EngineInv, TypeOK, TaskPcs
  <2> QED
    BY <2>1 DEF EngineInv, TypeOK, Drain
<1>2. TypeOK'
  BY <1>1 DEF EngineInv, TypeOK, Drain, tables, requests
<1>3. Ownership'
  BY TasksOutside DEF EngineInv, TypeOK, TaskType, Drain, InGrouping, tables, requests
<1> QED
  BY <1>2, <1>3 DEF EngineInv

(* A task gets its permit.                                                 *)
LEMMA StartStep ==
    ASSUME EngineInv, NEW m \in Messages, Start(m)
    PROVE  EngineInv'
<1>1. task' \in [Messages -> TaskType]
  <2>1. [task[m] EXCEPT !.pc = "running"] \in TaskType
    BY TaskMoveType DEF EngineInv, TypeOK, TaskPcs
  <2> QED
    BY <2>1 DEF EngineInv, TypeOK, Start
<1>2. TypeOK'
  BY <1>1 DEF EngineInv, TypeOK, Start, tables, requests
<1>3. Ownership'
  BY TasksOutside DEF EngineInv, TypeOK, TaskType, Start, InGrouping, tables, requests
<1> QED
  BY <1>2, <1>3 DEF EngineInv

(* A finished task.                                                        *)
LEMMA EndedType ==
    ASSUME NEW how \in FinalPcs
    PROVE  Ended(how) \in TaskType /\ Ended(how).pc = how
<1>1. NoRow \in IncidentRow
  BY DEF NoRow, IncidentRow, Statuses, Severities
<1> QED
  BY <1>1 DEF Ended, NewTask, TaskType, TaskPcs

(* A suppressed alert ends before it is grouped.                           *)
LEMMA SuppressStep ==
    ASSUME EngineInv, NEW m \in Messages, Suppress(m)
    PROVE  EngineInv'
<1>1. Ended("suppressed") \in TaskType /\ Ended("suppressed").pc = "suppressed"
  BY EndedType DEF FinalPcs
<1>2. TypeOK'
  BY <1>1 DEF EngineInv, TypeOK, Suppress, tables, requests
<1>3. Ownership'
  BY <1>1, TasksOutside DEF EngineInv, TypeOK, Suppress, InGrouping, tables, requests
<1> QED
  BY <1>2, <1>3 DEF EngineInv

(* A duplicate ends while it would begin to be grouped.                    *)
LEMMA RejectDuplicateStep ==
    ASSUME EngineInv, NEW m \in Messages, RejectDuplicate(m)
    PROVE  EngineInv'
<1>1. Ended("dropped") \in TaskType /\ Ended("dropped").pc = "dropped"
  BY EndedType DEF FinalPcs
<1>2. TypeOK'
  BY <1>1 DEF EngineInv, TypeOK, RejectDuplicate, tables, requests
<1>3. Ownership'
  BY <1>1, TasksOutside DEF EngineInv, TypeOK, RejectDuplicate, InGrouping, tables, requests
<1> QED
  BY <1>2, <1>3 DEF EngineInv

(* With the advisory lock free no alert is being grouped: the task that    *)
(* takes it is the only one.                                               *)
LEMMA GroupingBegins ==
    ASSUME EngineInv, NEW m \in Messages, NEW t \in TaskType,
           t.pc \in InGrouping, t.id \in Ids, task[m].pc = "running",
           advisory = NoValue, SameEvent(m) = {},
           task' = [task EXCEPT ![m] = t], advisory' = m,
           UNCHANGED <<tables, rowLock, requests, ops, crashes>>
    PROVE  EngineInv'
<1>1. TypeOK'
  BY DEF EngineInv, TypeOK, tables, requests
<1>2. GroupingSerialised'
  BY OwnersAssumption DEF EngineInv, TypeOK, Ownership, GroupingSerialised
<1>3. LocksOwned'
  BY DEF EngineInv, TypeOK, Ownership, LocksOwned, requests
<1>4. GroupedFresh'
  BY DEF EngineInv, TypeOK, Ownership, GroupedFresh, SameEvent, tables
<1>5. SweepsRead' /\ OneRowPerEvent'
  BY DEF EngineInv, Ownership, SweepsRead, OneRowPerEvent, tables, requests
<1> QED
  BY <1>1, <1>2, <1>3, <1>4, <1>5 DEF EngineInv, Ownership

(* The alert matches an incident.                                          *)
LEMMA GroupMatchStep ==
    ASSUME EngineInv, NEW m \in Messages, GroupMatch(m)
    PROVE  EngineInv'
<1>1. PICK page \in Page(Eligible(m)) : \E i \in FirstMatches(m, page) :
         task' = [task EXCEPT ![m] = [pc |-> "matched", id |-> i, created |-> FALSE,
                                      row |-> inc[i]]]
  BY DEF GroupMatch
<1>2. PICK i \in FirstMatches(m, page) :
         task' = [task EXCEPT ![m] = [pc |-> "matched", id |-> i, created |-> FALSE,
                                      row |-> inc[i]]]
  BY <1>1
<1>3. i \in live
  BY DEF FirstMatches, Page, Eligible
<1>4. i \in Ids /\ inc[i] \in IncidentRow
  BY <1>3 DEF EngineInv, TypeOK
<1>5. [pc |-> "matched", id |-> i, created |-> FALSE, row |-> inc[i]] \in TaskType
  BY <1>4 DEF TaskType, TaskPcs
<1> QED
  BY <1>2, <1>4, <1>5, GroupingBegins DEF GroupMatch, InGrouping

(* The alert starts an incident.                                           *)
LEMMA GroupCreateStep ==
    ASSUME EngineInv, NEW m \in Messages, GroupCreate(m)
    PROVE  EngineInv'
<1>1. [pc |-> "written", id |-> NextId, created |-> TRUE, row |-> CreatedRow(m)] \in TaskType
  BY CreatedRowType DEF GroupCreate, TaskType, TaskPcs
<1> QED
  BY <1>1, GroupingBegins DEF GroupCreate, InGrouping

(* The merge waits for the row lock and takes it.                          *)
LEMMA MergeFlushStep ==
    ASSUME EngineInv, NEW m \in Messages, MergeFlush(m)
    PROVE  EngineInv'
<1> DEFINE i == task[m].id
           t == [task[m] EXCEPT !.pc = "written", !.row = MergedRow(m, task[m].row)]
<1>1. i \in Ids /\ task[m] \in TaskType
  BY DEF MergeFlush, EngineInv, TypeOK
<1>2. MergedRow(m, task[m].row) \in IncidentRow
  BY <1>1, MergedRowType DEF TaskType
<1>3. t \in TaskType /\ t.pc = "written" /\ t.id = i
  BY <1>1, <1>2 DEF TaskType, TaskPcs
<1>4. task' = [task EXCEPT ![m] = t]
  BY DEF MergeFlush
<1>5. TypeOK'
  BY <1>1, <1>3, <1>4 DEF MergeFlush, EngineInv, TypeOK, tables, requests
<1> HIDE DEF t
<1>6. GroupingSerialised'
  BY <1>3, <1>4
     DEF MergeFlush, EngineInv, TypeOK, Ownership, GroupingSerialised, InGrouping
<1>7. LocksOwned'
  BY <1>3, <1>4, OwnersAssumption
     DEF MergeFlush, EngineInv, TypeOK, Ownership, LocksOwned, requests
<1>8. GroupedFresh'
  BY <1>1, <1>3, <1>4
     DEF MergeFlush, EngineInv, TypeOK, Ownership, GroupedFresh, SameEvent, InGrouping, tables
<1>9. SweepsRead' /\ OneRowPerEvent'
  BY OwnersAssumption
     DEF MergeFlush, EngineInv, TypeOK, Ownership, SweepsRead, OneRowPerEvent, tables, requests
<1> QED
  BY <1>5, <1>6, <1>7, <1>8, <1>9 DEF EngineInv, Ownership

(* A task ends with its locks: nothing it held is left behind.             *)
LEMMA GroupingEnds ==
    ASSUME EngineInv, NEW m \in Messages, NEW how \in FinalPcs, task[m].pc \in InGrouping,
           task' = [task EXCEPT ![m] = Ended(how)], advisory' = NoValue,
           UNCHANGED sweep,
           \A i \in Ids : /\ rowLock[i] # m => rowLock'[i] \in {rowLock[i], NoValue}
                          /\ rowLock[i] = m => rowLock'[i] = NoValue,
           \A n \in Messages : link'[n] # link[n] => n = m
    PROVE  Ownership'
<1>1. Ended(how).pc \notin InGrouping
  BY EndedType DEF FinalPcs, InGrouping
<1>2. \A n \in Messages : task'[n].pc \notin InGrouping
  BY <1>1 DEF EngineInv, TypeOK, Ownership, GroupingSerialised
<1>3. GroupingSerialised' /\ GroupedFresh'
  BY <1>2, OwnersAssumption DEF GroupingSerialised, GroupedFresh
<1>4. LocksOwned'
  <2> SUFFICES ASSUME NEW i \in Ids, rowLock'[i] # NoValue
               PROVE  /\ rowLock'[i] \in Messages =>
                            task'[rowLock'[i]].pc = "written" /\ task'[rowLock'[i]].id = i
                      /\ rowLock'[i] \in Sweepers => sweep'[rowLock'[i]].pc = "writing"
    BY OwnersAssumption DEF LocksOwned
  <2>1. rowLock'[i] = rowLock[i] /\ rowLock[i] # m
    OBVIOUS
  <2>2. rowLock[i] \in Messages => task'[rowLock[i]] = task[rowLock[i]]
    BY <2>1 DEF EngineInv, TypeOK
  <2> QED
    BY <2>1, <2>2 DEF EngineInv, Ownership, LocksOwned
<1>5. SweepsRead'
  BY OwnersAssumption DEF EngineInv, TypeOK, Ownership, SweepsRead
<1>6. OneRowPerEvent'
  BY DEF EngineInv, Ownership, GroupedFresh, SameEvent, OneRowPerEvent
<1> QED
  BY <1>3, <1>4, <1>5, <1>6 DEF Ownership

(* The incident is gone: the task held the advisory lock only.             *)
LEMMA MergeStaleStep ==
    ASSUME EngineInv, NEW m \in Messages, MergeStale(m)
    PROVE  EngineInv'
<1>1. Ended("dropped") \in TaskType
  BY EndedType DEF FinalPcs
<1>2. TypeOK'
  BY <1>1 DEF MergeStale, EngineInv, TypeOK, tables, requests
<1>3. \A i \in Ids : rowLock[i] # m
  BY DEF MergeStale, EngineInv, Ownership, LocksOwned
<1>4. Ownership'
  BY <1>3, GroupingEnds DEF MergeStale, InGrouping, FinalPcs, tables, requests
<1> QED
  BY <1>2, <1>4 DEF EngineInv

(* The commit stores the alert; its row was locked by this task or did not *)
(* exist.                                                                  *)
LEMMA CommitStep ==
    ASSUME EngineInv, NEW m \in Messages, NEW fp \in Scores, NEW e \in RuleSeverities,
           Commit(m, fp, e)
    PROVE  EngineInv'
<1> DEFINE t == task[m]
           i == t.id
           seen == SeenStatus(t)
           next == BandStatus(seen, fp, FpThreshold)
           severity == SoftCap(HigherSeverity(t.row.severity, e), fp)
           opens == BandOpensCase(t.row.hasCase, severity, fp, FpThreshold)
           started == IF t.created THEN AppendAudit(audit, i, "open", "investigating")
                                   ELSE audit
           moved == IF next # seen THEN AppendAudit(started, i, seen, next) ELSE started
           row == [t.row EXCEPT !.status = WrittenStatus(t, next, inc[i].status),
                                !.severity = severity,
                                !.hasCase = opens \/ (~t.created /\ inc[i].hasCase)]
<1>1. t \in TaskType /\ i \in Ids /\ t.row \in IncidentRow /\ inc[i] \in IncidentRow
  BY DEF Commit, EngineInv, TypeOK, TaskType, Ownership, GroupedFresh, InGrouping
<1>2. seen \in Statuses
  BY <1>1 DEF SeenStatus, IncidentRow, Statuses
<1>3. severity \in Severities /\ next \in Statuses
  BY <1>1, <1>2, DecisionTypes DEF IncidentRow
<1>4. WrittenStatus(t, next, inc[i].status) \in Statuses
  BY <1>1, <1>3 DEF WrittenStatus, IncidentRow
<1>5. (opens \/ (~t.created /\ inc[i].hasCase)) \in BOOLEAN
  OBVIOUS
<1>6. row \in IncidentRow
  <2> HIDE DEF opens, severity, next
  <2> QED
    BY <1>1, <1>3, <1>4, <1>5 DEF IncidentRow
<1>7. started \in [Ids -> Seq(AuditEntry)]
  BY <1>1, AuditType DEF EngineInv, TypeOK, Statuses
<1>8. AppendAudit(started, i, seen, next) \in [Ids -> Seq(AuditEntry)]
  BY <1>1, <1>2, <1>3, <1>7, AuditType
<1>9. moved \in [Ids -> Seq(AuditEntry)]
  BY <1>7, <1>8
<1>10. AppendAudit(moved, i, "none", "open") \in [Ids -> Seq(AuditEntry)]
  <2> HIDE DEF moved
  <2> QED
    BY <1>1, <1>9, AuditType DEF Statuses
<1>11. /\ inc' = [inc EXCEPT ![i] = row]
       /\ audit' = IF opens THEN AppendAudit(moved, i, "none", "open") ELSE moved
       /\ comments' = [comments EXCEPT ![i] = IF opens THEN comments[i] + 1 ELSE comments[i]]
       /\ live' = live \cup {i}
       /\ link' = [link EXCEPT ![m] = i]
       /\ rowLock' = [rowLock EXCEPT ![i] = NoValue]
       /\ advisory' = NoValue
       /\ task' = [task EXCEPT ![m] = Ended("stored")]
       /\ UNCHANGED <<requests, ops, crashes>>
  BY DEF Commit
<1>12. task[m].pc = "written"
  BY DEF Commit
<1> HIDE DEF t, i, seen, next, severity, opens, started, moved, row
<1>13. TypeOK'
  <2>1. Ended("stored") \in TaskType
    BY EndedType DEF FinalPcs
  <2>2. comments' \in [Ids -> Nat]
    BY <1>1, <1>11 DEF EngineInv, TypeOK
  <2>3. inc' \in [Ids -> IncidentRow] /\ audit' \in [Ids -> Seq(AuditEntry)]
    BY <1>1, <1>6, <1>9, <1>10, <1>11 DEF EngineInv, TypeOK
  <2> QED
    BY <1>1, <1>11, <2>1, <2>2, <2>3 DEF EngineInv, TypeOK, requests
<1>14. \A j \in Ids : rowLock[j] = m => j = i
  BY DEF EngineInv, Ownership, LocksOwned, i, t
<1>15. Ownership'
  <2>1. \A j \in Ids : /\ rowLock[j] # m => rowLock'[j] \in {rowLock[j], NoValue}
                       /\ rowLock[j] = m => rowLock'[j] = NoValue
    BY <1>1, <1>11, <1>14 DEF EngineInv, TypeOK
  <2>2. \A n \in Messages : link'[n] # link[n] => n = m
    BY <1>11 DEF EngineInv, TypeOK
  <2> QED
    BY <1>11, <1>12, <2>1, <2>2, GroupingEnds DEF InGrouping, FinalPcs, requests
<1> QED
  BY <1>13, <1>15 DEF EngineInv

(* A failed task is rolled back with every lock it held.                   *)
LEMMA FailStep ==
    ASSUME EngineInv, NEW m \in Messages, Fail(m)
    PROVE  EngineInv'
<1>1. Ended("dropped") \in TaskType /\ Ended("dropped").pc = "dropped"
  BY EndedType DEF FinalPcs
<1>2. TypeOK'
  BY <1>1 DEF Fail, Released, EngineInv, TypeOK, tables, requests
<1>3. Ownership'
  <2>1. CASE task[m].pc \in InGrouping
    <3>1. advisory = m
      BY <2>1 DEF EngineInv, Ownership, GroupingSerialised
    <3>2. \A i \in Ids : /\ rowLock[i] # m => rowLock'[i] \in {rowLock[i], NoValue}
                         /\ rowLock[i] = m => rowLock'[i] = NoValue
      BY DEF Fail, Released
    <3> QED
      BY <2>1, <3>1, <3>2, GroupingEnds DEF Fail, FinalPcs, tables, requests
  <2>2. CASE task[m].pc \notin InGrouping
    <3>1. advisory # m
      BY <2>2 DEF EngineInv, Ownership, GroupingSerialised
    <3>2. rowLock' = rowLock
      BY <2>2 DEF Fail, Released, EngineInv, TypeOK, Ownership, LocksOwned, InGrouping
    <3> QED
      BY <1>1, <2>2, <3>1, <3>2, TasksOutside
         DEF Fail, EngineInv, TypeOK, InGrouping, tables, requests
  <2> QED
    BY <2>1, <2>2
<1> QED
  BY <1>2, <1>3 DEF EngineInv

-----------------------------------------------------------------------------
(* People: none of their steps holds a lock.                               *)

(* An incident whose status or case is set, which counts as an update.     *)
LEMMA PeopleRowType ==
    ASSUME NEW row \in IncidentRow, NEW status \in Statuses, NEW hasCase \in BOOLEAN
    PROVE  /\ [row EXCEPT !.status = status, !.age = 0] \in IncidentRow
           /\ [row EXCEPT !.hasCase = hasCase, !.age = 0] \in IncidentRow
           /\ [row EXCEPT !.status = status, !.hasCase = hasCase, !.age = 0] \in IncidentRow
<1>1. 0 \in 0..2
  OBVIOUS
<1> QED
  BY <1>1 DEF IncidentRow

(* One operation more.                                                     *)
LEMMA SpendType == ASSUME TypeOK, Spend PROVE ops' \in 0..MaxOps
  BY BoundsAssumption DEF TypeOK, Spend

(* A transition is validated.                                              *)
LEMMA TransitionReadStep ==
    ASSUME EngineInv, NEW a \in Analysts, NEW i \in Ids, NEW to \in Statuses,
           TransitionRead(a, i, to)
    PROVE  EngineInv'
<1>1. ops' \in 0..MaxOps
  BY SpendType DEF EngineInv, TransitionRead
<1>2. inc[i].status \in Statuses
  BY DEF EngineInv, TypeOK, IncidentRow
<1>3. TypeOK'
  BY <1>1, <1>2 DEF TransitionRead, EngineInv, TypeOK, tables
<1>4. Ownership'
  BY OwnershipKept DEF TransitionRead, EngineInv, tables
<1> QED
  BY <1>3, <1>4 DEF EngineInv

(* A transition is written, or its incident is gone.                       *)
LEMMA TransitionWriteStep ==
    ASSUME EngineInv, NEW a \in Analysts, TransitionWrite(a)
    PROVE  EngineInv'
<1> DEFINE r == analyst[a]
<1>1. r.from \in Statuses /\ r.to \in Statuses /\ IdleRequest.id = NoInc
  BY DEF EngineInv, TypeOK, IdleRequest
<1>2. ASSUME r.id \in live
      PROVE  inc' \in [Ids -> IncidentRow] /\ audit' \in [Ids -> Seq(AuditEntry)]
  <2>1. r.id \in Ids /\ inc[r.id] \in IncidentRow
    BY <1>2 DEF EngineInv, TypeOK
  <2>2. inc' = [inc EXCEPT ![r.id] = [inc[r.id] EXCEPT !.status = r.to, !.age = 0]]
    BY <1>2, <2>1 DEF TransitionWrite, EngineInv, TypeOK
  <2>3. [inc[r.id] EXCEPT !.status = r.to, !.age = 0] \in IncidentRow
    BY <1>1, <2>1, PeopleRowType
  <2>4. inc' \in [Ids -> IncidentRow]
    BY <2>2, <2>3 DEF EngineInv, TypeOK
  <2>5. audit' = AppendAudit(audit, r.id, r.from, r.to)
    BY <1>2 DEF TransitionWrite
  <2>6. audit' \in [Ids -> Seq(AuditEntry)]
    BY <1>1, <2>1, <2>5, AuditType DEF EngineInv, TypeOK
  <2> QED
    BY <2>4, <2>6
<1>3. r.id \notin live => UNCHANGED <<inc, audit>>
  BY DEF TransitionWrite
<1>4. inc' \in [Ids -> IncidentRow] /\ audit' \in [Ids -> Seq(AuditEntry)]
  BY <1>2, <1>3 DEF EngineInv, TypeOK
<1>5. TypeOK'
  BY <1>4 DEF TransitionWrite, EngineInv, TypeOK, IdleRequest, Statuses
<1>6. Ownership'
  BY OwnershipKept DEF TransitionWrite, EngineInv
<1> QED
  BY <1>5, <1>6 DEF EngineInv

(* PATCH writes a row.                                                     *)
LEMMA PatchIncidentStep ==
    ASSUME EngineInv, NEW p \in Patchers, NEW i \in Ids, NEW to \in Statuses,
           NEW opens \in BOOLEAN, PatchIncident(p, i, to, opens)
    PROVE  EngineInv'
<1>1. ops' \in 0..MaxOps
  BY SpendType DEF EngineInv, PatchIncident
<1>2. inc[i] \in IncidentRow /\ (inc[i].hasCase \/ opens) \in BOOLEAN
  BY DEF EngineInv, TypeOK
<1>3. inc' = [inc EXCEPT ![i] =
         [inc[i] EXCEPT !.status = to, !.hasCase = inc[i].hasCase \/ opens, !.age = 0]]
  BY DEF PatchIncident, EngineInv, TypeOK
<1>4. [inc[i] EXCEPT !.status = to, !.hasCase = inc[i].hasCase \/ opens, !.age = 0]
         \in IncidentRow
  BY <1>2, PeopleRowType
<1>5. inc' \in [Ids -> IncidentRow]
  BY <1>3, <1>4 DEF EngineInv, TypeOK
<1>6. TypeOK'
  BY <1>1, <1>5 DEF PatchIncident, EngineInv, TypeOK, requests
<1>7. Ownership'
  BY OwnershipKept DEF PatchIncident, EngineInv, requests
<1> QED
  BY <1>6, <1>7 DEF EngineInv

(* open_case looks for an opened case.                                     *)
LEMMA OpenCaseReadStep ==
    ASSUME EngineInv, NEW c \in CaseOpeners, NEW i \in Ids, OpenCaseRead(c, i)
    PROVE  EngineInv'
<1>1. ops' \in 0..MaxOps
  BY SpendType DEF EngineInv, OpenCaseRead
<1>2. TypeOK'
  BY <1>1 DEF OpenCaseRead, EngineInv, TypeOK, tables
<1>3. Ownership'
  BY OwnershipKept DEF OpenCaseRead, EngineInv, tables
<1> QED
  BY <1>2, <1>3 DEF EngineInv

(* open_case opens it, or the incident is gone.                            *)
LEMMA OpenCaseWriteStep ==
    ASSUME EngineInv, NEW c \in CaseOpeners, OpenCaseWrite(c)
    PROVE  EngineInv'
<1> DEFINE i == opener[c].id
<1>1. ASSUME i \in live
      PROVE  inc' \in [Ids -> IncidentRow] /\ comments' \in [Ids -> Nat]
  <2>1. i \in Ids /\ inc[i] \in IncidentRow /\ comments[i] + 1 \in Nat
    BY <1>1 DEF EngineInv, TypeOK
  <2>2. inc' = [inc EXCEPT ![i] = [inc[i] EXCEPT !.hasCase = TRUE, !.age = 0]]
    BY <1>1, <2>1 DEF OpenCaseWrite, EngineInv, TypeOK
  <2>3. [inc[i] EXCEPT !.hasCase = TRUE, !.age = 0] \in IncidentRow
    BY <2>1, PeopleRowType DEF Statuses
  <2>4. inc' \in [Ids -> IncidentRow]
    BY <2>2, <2>3 DEF EngineInv, TypeOK
  <2>5. comments' \in [Ids -> Nat]
    BY <1>1, <2>1 DEF OpenCaseWrite, EngineInv, TypeOK
  <2> QED
    BY <2>4, <2>5
<1>2. i \notin live => UNCHANGED <<inc, comments>>
  BY DEF OpenCaseWrite
<1>3. inc' \in [Ids -> IncidentRow] /\ comments' \in [Ids -> Nat]
  BY <1>1, <1>2 DEF EngineInv, TypeOK
<1>4. TypeOK'
  BY <1>3 DEF OpenCaseWrite, EngineInv, TypeOK, IdleOpener
<1>5. Ownership'
  BY OwnershipKept DEF OpenCaseWrite, EngineInv
<1> QED
  BY <1>4, <1>5 DEF EngineInv

(* An incident left alone for a while.                                     *)
LEMMA OlderRowType ==
    ASSUME NEW row \in IncidentRow, NEW age \in 0..2
    PROVE  [row EXCEPT !.age = age] \in IncidentRow
  BY DEF IncidentRow

(* Days pass.                                                              *)
LEMMA QuiesceStep ==
    ASSUME EngineInv, NEW i \in Ids, Quiesce(i)
    PROVE  EngineInv'
<1>1. inc[i] \in IncidentRow /\ inc[i].age < 2
  BY DEF Quiesce, EngineInv, TypeOK
<1>2. inc[i].age + 1 \in 0..2
  BY <1>1 DEF IncidentRow
<1>3. [inc[i] EXCEPT !.age = inc[i].age + 1] \in IncidentRow
  BY <1>1, <1>2, OlderRowType
<1>4. inc' \in [Ids -> IncidentRow]
  BY <1>3 DEF Quiesce, EngineInv, TypeOK
<1>5. TypeOK'
  BY <1>4 DEF Quiesce, EngineInv, TypeOK, requests
<1>6. Ownership'
  BY OwnershipKept DEF Quiesce, EngineInv, requests
<1> QED
  BY <1>5, <1>6 DEF EngineInv

-----------------------------------------------------------------------------
(* Deletes: they compare ids and take the links of what they select away.  *)

(* The ids are selected.                                                   *)
LEMMA DeleteSelectStep ==
    ASSUME EngineInv, NEW d \in Deleters, NEW ids \in SUBSET Ids, DeleteSelect(d, ids)
    PROVE  EngineInv'
<1>1. ops' \in 0..MaxOps
  BY SpendType DEF EngineInv, DeleteSelect
<1>2. TypeOK'
  BY <1>1 DEF DeleteSelect, EngineInv, TypeOK, tables
<1>3. Ownership'
  BY OwnershipKept DEF DeleteSelect, EngineInv, tables
<1> QED
  BY <1>2, <1>3 DEF EngineInv

(* Their alerts are found.                                                 *)
LEMMA DeleteAlertsStep ==
    ASSUME EngineInv, NEW d \in Deleters, DeleteAlerts(d)
    PROVE  EngineInv'
<1>1. deletion' = [deletion EXCEPT ![d] = [deletion[d] EXCEPT
         !.pc = "alerts", !.doomed = {m \in Messages : link[m] \in deletion[d].ids}]]
  BY DEF DeleteAlerts
<1>2. TypeOK'
  <2> DEFINE doomed == {m \in Messages : link[m] \in deletion[d].ids}
  <2>1. doomed \in SUBSET Messages
    OBVIOUS
  <2>2. deletion' = [deletion EXCEPT ![d] = [deletion[d] EXCEPT !.pc = "alerts",
                                                                !.doomed = doomed]]
    BY <1>1
  <2> HIDE DEF doomed
  <2> DEFINE Record == [pc: {"idle", "selected", "alerts"}, ids: SUBSET Ids,
                        doomed: SUBSET Messages]
  <2>3. deletion \in [Deleters -> Record]
    BY DEF EngineInv, TypeOK
  <2>4. \A r \in Record : [r EXCEPT !.pc = "alerts", !.doomed = doomed] \in Record
    BY <2>1
  <2>5. deletion' \in [Deleters -> Record]
    <3> HIDE DEF Record
    <3> QED
      BY <2>2, <2>3, <2>4
  <2> QED
    BY <2>5 DEF DeleteAlerts, EngineInv, TypeOK, tables
<1>3. Ownership'
  BY OwnershipKept DEF DeleteAlerts, EngineInv, tables
<1> QED
  BY <1>2, <1>3 DEF EngineInv

(* The incidents go, and the links of the alerts found.                    *)
LEMMA DeleteIncidentsStep ==
    ASSUME EngineInv, NEW d \in Deleters, DeleteIncidents(d)
    PROVE  EngineInv'
<1>1. NoRow \in IncidentRow
  BY DEF NoRow, IncidentRow, Statuses, Severities
<1>2. /\ inc' \in [Ids -> IncidentRow]
      /\ comments' \in [Ids -> Nat]
      /\ link' \in [Messages -> Ids \cup {NoInc}]
      /\ live' \subseteq Ids
  BY <1>1 DEF DeleteIncidents, EngineInv, TypeOK
<1>3. TypeOK'
  BY <1>2 DEF DeleteIncidents, EngineInv, TypeOK, IdleDeletion
<1>4. \A m \in Messages : link'[m] # NoInc => link[m] # NoInc
  BY DEF DeleteIncidents
<1>5. GroupedFresh' /\ OneRowPerEvent'
  BY <1>4
     DEF DeleteIncidents, EngineInv, Ownership, GroupedFresh, SameEvent, OneRowPerEvent
<1>6. GroupingSerialised' /\ LocksOwned' /\ SweepsRead'
  BY DEF DeleteIncidents, EngineInv, Ownership, GroupingSerialised, LocksOwned, SweepsRead
<1> QED
  BY <1>3, <1>5, <1>6 DEF EngineInv, Ownership

-----------------------------------------------------------------------------
(* Sweeps: rows are locked one by one after they were read.                *)

SweepRecord == [pc: {"idle", "writing"},
                kind: {"none", "batch_close", "fp_auto_close", "bulk_fp"},
                todo: Seq(Ids), to: {"closed", "false_positive"},
                from: [Ids -> Statuses \cup {"none"}]]

(* The sweeps have their shape.                                            *)
LEMMA SweepTypes ==
    TypeOK => sweep \in [Sweepers -> SweepRecord] /\ IdleSweep \in SweepRecord
<1>1. [i \in Ids |-> "none"] \in [Ids -> Statuses \cup {"none"}]
  OBVIOUS
<1>2. <<>> \in Seq(Ids)
  OBVIOUS
<1> QED
  BY <1>1, <1>2 DEF TypeOK, SweepRecord, IdleSweep

(* A sweep that begins holds no lock.                                      *)
LEMMA SweepBegins ==
    ASSUME EngineInv, NEW w \in Sweepers, NEW s \in SweepRecord, s.pc = "writing",
           Spend, sweep[w].pc = "idle", sweep' = [sweep EXCEPT ![w] = s],
           UNCHANGED <<task, advisory, tables, rowLock, analyst, opener, deletion, crashes>>
    PROVE  EngineInv'
<1>1. ops' \in 0..MaxOps
  BY SpendType DEF EngineInv
<1>2. sweep' \in [Sweepers -> SweepRecord]
  BY SweepTypes DEF EngineInv
<1>3. TypeOK'
  BY <1>1, <1>2 DEF EngineInv, TypeOK, SweepRecord, tables
<1>4. \A i \in Ids : rowLock[i] # w
  BY DEF EngineInv, Ownership, LocksOwned
<1>5. \A v \in Sweepers : sweep'[v] = IF v = w THEN s ELSE sweep[v]
  BY DEF EngineInv, TypeOK
<1>6. LocksOwned' /\ SweepsRead'
  BY <1>4, <1>5 DEF EngineInv, Ownership, LocksOwned, SweepsRead
<1>7. GroupingSerialised' /\ GroupedFresh' /\ OneRowPerEvent'
  BY DEF EngineInv, Ownership, GroupingSerialised, GroupedFresh, SameEvent, OneRowPerEvent,
         tables
<1> QED
  BY <1>3, <1>6, <1>7 DEF EngineInv, Ownership

(* Batch close and FP auto-close read all their rows at once.              *)
LEMMA SweepSelectStep ==
    ASSUME EngineInv, NEW w \in Sweepers, NEW kind \in {"batch_close", "fp_auto_close"},
           SweepSelect(w, kind)
    PROVE  EngineInv'
<1> DEFINE from == [i \in Ids |-> IF i \in Selects(kind) THEN inc[i].status ELSE "none"]
<1>1. PICK order \in Orders(Selects(kind)) :
         sweep' = [sweep EXCEPT ![w] = [pc |-> "writing", kind |-> kind, todo |-> order,
                                        to |-> "closed", from |-> from]]
  BY DEF SweepSelect
<1>2. Selects(kind) \in SUBSET Ids
  BY DEF Selects, EngineInv, TypeOK
<1>3. order \in Seq(Ids)
  BY <1>2, OrderType
<1>4. from \in [Ids -> Statuses \cup {"none"}]
  BY DEF EngineInv, TypeOK, IncidentRow
<1> HIDE DEF from
<1>5. [pc |-> "writing", kind |-> kind, todo |-> order, to |-> "closed", from |-> from]
         \in SweepRecord
  BY <1>3, <1>4 DEF SweepRecord
<1> QED
  BY <1>1, <1>5, SweepBegins DEF SweepSelect

(* Bulk false positive only knows the ids it was given.                    *)
LEMMA BulkRequestStep ==
    ASSUME EngineInv, NEW w \in Sweepers, NEW wanted \in SUBSET live, BulkRequest(w, wanted)
    PROVE  EngineInv'
<1>1. PICK order \in Orders(wanted) :
         sweep' = [sweep EXCEPT ![w] = [IdleSweep EXCEPT !.pc = "writing", !.kind = "bulk_fp",
                                            !.todo = order, !.to = "false_positive"]]
  BY DEF BulkRequest
<1>2. wanted \in SUBSET Ids
  BY DEF EngineInv, TypeOK
<1>3. order \in Seq(Ids)
  BY <1>2, OrderType
<1>4. IdleSweep \in SweepRecord
  BY SweepTypes DEF EngineInv
<1> DEFINE s == [IdleSweep EXCEPT !.pc = "writing", !.kind = "bulk_fp",
                                  !.todo = order, !.to = "false_positive"]
<1>5. s \in SweepRecord /\ s.pc = "writing"
  BY <1>3, <1>4 DEF SweepRecord
<1>6. sweep' = [sweep EXCEPT ![w] = s]
  BY <1>1
<1> HIDE DEF s
<1> QED
  BY <1>5, <1>6, SweepBegins DEF BulkRequest

(* The first row a sweep has still to do.                                  *)
LEMMA SweepHead ==
    ASSUME EngineInv, NEW w \in Sweepers, sweep[w].todo # <<>>
    PROVE  /\ Head(sweep[w].todo) \in Ids
           /\ Tail(sweep[w].todo) \in Seq(Ids)
           /\ sweep[w] \in SweepRecord
           /\ sweep[w].pc = "writing"
<1>1. sweep[w] \in SweepRecord
  BY SweepTypes DEF EngineInv
<1>2. sweep[w].todo \in Seq(Ids)
  BY <1>1 DEF SweepRecord
<1> QED
  BY <1>1, <1>2 DEF EngineInv, Ownership, SweepsRead

(* Bulk false positive reads a row, or skips it.                           *)
LEMMA BulkReadStep ==
    ASSUME EngineInv, NEW w \in Sweepers, BulkRead(w)
    PROVE  EngineInv'
<1> DEFINE i == Head(sweep[w].todo)
           read == [sweep[w] EXCEPT !.from[i] = inc[i].status]
           skip == [sweep[w] EXCEPT !.todo = Tail(sweep[w].todo)]
<1>1. /\ i \in Ids /\ Tail(sweep[w].todo) \in Seq(Ids) /\ sweep[w] \in SweepRecord
      /\ sweep[w].pc = "writing"
  BY SweepHead DEF BulkRead, SweepReads
<1>2. inc[i].status \in Statuses /\ inc[i].status # "none"
  BY <1>1 DEF EngineInv, TypeOK, IncidentRow, Statuses
<1>3. PICK s \in {read, skip} : sweep' = [sweep EXCEPT ![w] = s]
  <2>1. sweep' = [sweep EXCEPT ![w] =
           IF i \in live /\ inc[i].status \notin {"resolved", "false_positive", "closed"}
           THEN read ELSE skip]
    BY DEF BulkRead
  <2> HIDE DEF read, skip
  <2> QED
    BY <2>1
<1>4. /\ s \in SweepRecord /\ s.pc = "writing"
      /\ \A j \in Ids : sweep[w].from[j] # "none" => s.from[j] # "none"
  <2>1. CASE s = read
    BY <1>1, <1>2, <2>1 DEF SweepRecord
  <2>2. CASE s = skip
    BY <1>1, <2>2 DEF SweepRecord
  <2> QED
    BY <2>1, <2>2
<1> HIDE DEF read, skip
<1>5. /\ sweep' \in [Sweepers -> SweepRecord]
      /\ \A v \in Sweepers : sweep'[v] = IF v = w THEN s ELSE sweep[v]
  BY <1>3, <1>4, SweepTypes DEF EngineInv
<1>6. TypeOK'
  BY <1>5 DEF BulkRead, EngineInv, TypeOK, SweepRecord, tables
<1>7. LocksOwned'
  BY <1>4, <1>5 DEF BulkRead, EngineInv, Ownership, LocksOwned
<1>8. SweepsRead'
  <2>1. \A v \in Sweepers : sweep'[v].todo # <<>> => sweep'[v].pc = "writing"
    BY <1>4, <1>5 DEF EngineInv, Ownership, SweepsRead
  <2>2. \A j \in Ids : rowLock[j] \in Sweepers => sweep'[rowLock[j]].from[j] # "none"
    BY <1>4, <1>5 DEF EngineInv, Ownership, SweepsRead
  <2> QED
    BY <2>1, <2>2 DEF BulkRead, SweepsRead
<1>9. GroupingSerialised' /\ GroupedFresh' /\ OneRowPerEvent'
  BY DEF BulkRead, EngineInv, Ownership, GroupingSerialised, GroupedFresh, SameEvent,
         OneRowPerEvent, tables
<1> QED
  BY <1>6, <1>7, <1>8, <1>9 DEF EngineInv, Ownership

(* A sweep locks a row that it has read.                                   *)
LEMMA SweepFlushStep ==
    ASSUME EngineInv, NEW w \in Sweepers, SweepFlush(w)
    PROVE  EngineInv'
<1> DEFINE i == Head(sweep[w].todo)
           s == [sweep[w] EXCEPT !.todo = Tail(sweep[w].todo)]
<1>1. /\ i \in Ids /\ Tail(sweep[w].todo) \in Seq(Ids) /\ sweep[w] \in SweepRecord
      /\ sweep[w].pc = "writing"
  BY SweepHead DEF SweepFlush
<1>2. s \in SweepRecord /\ s.pc = "writing" /\ s.from = sweep[w].from
  BY <1>1 DEF SweepRecord
<1>3. sweep' = [sweep EXCEPT ![w] = s] /\ rowLock' = [rowLock EXCEPT ![i] = w]
  BY DEF SweepFlush
<1>4. sweep[w].from[i] # "none"
  BY DEF SweepFlush, SweepReads
<1> HIDE DEF i, s
<1>5. /\ sweep' \in [Sweepers -> SweepRecord]
      /\ \A v \in Sweepers : sweep'[v] = IF v = w THEN s ELSE sweep[v]
  BY <1>2, <1>3, SweepTypes DEF EngineInv
<1>6. /\ rowLock' \in [Ids -> Messages \cup Sweepers \cup {NoValue}]
      /\ \A j \in Ids : rowLock'[j] = IF j = i THEN w ELSE rowLock[j]
  BY <1>1, <1>3 DEF EngineInv, TypeOK
<1>7. TypeOK'
  BY <1>5, <1>6 DEF SweepFlush, EngineInv, TypeOK, SweepRecord, tables
<1>8. LocksOwned' /\ SweepsRead'
  <2>1. task' = task /\ w \notin Messages
    BY OwnersAssumption DEF SweepFlush
  <2>2. \A v \in Sweepers : sweep'[v].pc = sweep[v].pc /\ sweep'[v].from = sweep[v].from
    BY <1>1, <1>2, <1>5
  <2>3. LocksOwned'
    BY <1>1, <1>6, <2>1, <2>2 DEF EngineInv, Ownership, LocksOwned
  <2>4. \A v \in Sweepers : sweep'[v].todo # <<>> => sweep'[v].pc = "writing"
    BY <1>1, <1>5, <2>2 DEF EngineInv, Ownership, SweepsRead
  <2>5. \A j \in Ids : rowLock'[j] \in Sweepers => sweep'[rowLock'[j]].from[j] # "none"
    BY <1>4, <1>6, <2>2 DEF EngineInv, Ownership, SweepsRead
  <2> QED
    BY <2>3, <2>4, <2>5 DEF SweepsRead
<1>9. GroupingSerialised' /\ GroupedFresh' /\ OneRowPerEvent'
  BY DEF SweepFlush, EngineInv, Ownership, GroupingSerialised, GroupedFresh, SameEvent,
         OneRowPerEvent, tables
<1> QED
  BY <1>7, <1>8, <1>9 DEF EngineInv, Ownership

(* A sweep ends with its locks.                                            *)
LEMMA SweepEnds ==
    ASSUME EngineInv, NEW w \in Sweepers, rowLock' = Released(w),
           sweep' = [sweep EXCEPT ![w] = IdleSweep], UNCHANGED <<task, advisory, link>>
    PROVE  /\ Ownership'
           /\ sweep' \in [Sweepers -> SweepRecord]
           /\ rowLock' \in [Ids -> Messages \cup Sweepers \cup {NoValue}]
<1>1. /\ sweep' \in [Sweepers -> SweepRecord]
      /\ \A v \in Sweepers : sweep'[v] = IF v = w THEN IdleSweep ELSE sweep[v]
  BY SweepTypes DEF EngineInv
<1>2. /\ rowLock' \in [Ids -> Messages \cup Sweepers \cup {NoValue}]
      /\ \A j \in Ids : rowLock'[j] = IF rowLock[j] = w THEN NoValue ELSE rowLock[j]
  BY DEF Released, EngineInv, TypeOK
<1>3. IdleSweep.todo = <<>>
  BY DEF IdleSweep
<1>4. LocksOwned' /\ SweepsRead'
  BY <1>1, <1>2, <1>3, OwnersAssumption DEF EngineInv, Ownership, LocksOwned, SweepsRead
<1>5. GroupingSerialised' /\ GroupedFresh' /\ OneRowPerEvent'
  BY DEF EngineInv, Ownership, GroupingSerialised, GroupedFresh, SameEvent, OneRowPerEvent
<1> QED
  BY <1>1, <1>2, <1>4, <1>5 DEF Ownership

(* It commits: the status it audits as the old one was read.               *)
LEMMA SweepCommitStep ==
    ASSUME EngineInv, NEW w \in Sweepers, SweepCommit(w)
    PROVE  EngineInv'
<1> DEFINE s == sweep[w]
           entry(i) == [from |-> s.from[i], to |-> s.to]
<1>1. s \in SweepRecord
  BY SweepTypes DEF EngineInv
<1>2. s.to \in Statuses
  BY <1>1 DEF SweepRecord, Statuses
<1>3. \A i \in Ids : rowLock[i] = w => s.from[i] \in Statuses
  BY <1>1 DEF EngineInv, Ownership, SweepsRead, SweepRecord
<1>4. \A i \in Ids : rowLock[i] = w => Append(audit[i], entry(i)) \in Seq(AuditEntry)
  <2> SUFFICES ASSUME NEW i \in Ids, rowLock[i] = w
               PROVE  Append(audit[i], entry(i)) \in Seq(AuditEntry)
    OBVIOUS
  <2>1. entry(i) \in AuditEntry
    BY <1>2, <1>3 DEF AuditEntry
  <2>2. audit[i] \in Seq(AuditEntry)
    BY DEF EngineInv, TypeOK
  <2> HIDE DEF entry
  <2> QED
    BY <2>1, <2>2
<1>5. audit' = [i \in Ids |-> IF rowLock[i] = w THEN Append(audit[i], entry(i)) ELSE audit[i]]
  BY DEF SweepCommit
<1>6. audit' \in [Ids -> Seq(AuditEntry)]
  <2> HIDE DEF entry
  <2> QED
    BY <1>4, <1>5 DEF EngineInv, TypeOK
<1>7. \A i \in Ids : [inc[i] EXCEPT !.status = s.to, !.age = 0] \in IncidentRow
  BY <1>2, PeopleRowType DEF EngineInv, TypeOK
<1>8. inc' = [i \in Ids |-> IF rowLock[i] = w THEN [inc[i] EXCEPT !.status = s.to, !.age = 0]
                                              ELSE inc[i]]
  BY DEF SweepCommit
<1>9. inc' \in [Ids -> IncidentRow]
  BY <1>7, <1>8 DEF EngineInv, TypeOK
<1>10. /\ Ownership'
       /\ sweep' \in [Sweepers -> SweepRecord]
       /\ rowLock' \in [Ids -> Messages \cup Sweepers \cup {NoValue}]
  BY SweepEnds DEF SweepCommit
<1>11. TypeOK'
  BY <1>6, <1>9, <1>10 DEF SweepCommit, EngineInv, TypeOK, SweepRecord
<1> QED
  BY <1>10, <1>11 DEF EngineInv

(* It is aborted.                                                          *)
LEMMA SweepAbortStep ==
    ASSUME EngineInv, NEW w \in Sweepers, SweepAbort(w)
    PROVE  EngineInv'
<1>1. /\ Ownership'
      /\ sweep' \in [Sweepers -> SweepRecord]
      /\ rowLock' \in [Ids -> Messages \cup Sweepers \cup {NoValue}]
  BY SweepEnds DEF SweepAbort, tables
<1>2. TypeOK'
  BY <1>1 DEF SweepAbort, EngineInv, TypeOK, SweepRecord, tables
<1> QED
  BY <1>1, <1>2 DEF EngineInv

-----------------------------------------------------------------------------
(* A crash rolls every transaction back: no lock and no half-done task is  *)
(* left.                                                                   *)
LEMMA CrashStep ==
    ASSUME EngineInv, Crash
    PROVE  EngineInv'
<1>1. Ended("dropped") \in TaskType /\ Ended("dropped").pc = "dropped"
  BY EndedType DEF FinalPcs
<1>2. task' \in [Messages -> TaskType] /\ \A m \in Messages : task'[m].pc \notin InGrouping
  BY <1>1 DEF Crash, EngineInv, TypeOK, FinalPcs, InGrouping
<1>3. /\ sweep' \in [Sweepers -> SweepRecord]
      /\ \A w \in Sweepers : sweep'[w].todo = <<>>
  BY SweepTypes DEF Crash, EngineInv, IdleSweep
<1>4. crashes' \in 0..MaxCrashes
  BY BoundsAssumption DEF Crash, EngineInv, TypeOK
<1>5. analyst' \in [Analysts -> [pc: {"idle", "validated"}, id: Ids \cup {NoInc},
                                 from: Statuses, to: Statuses]]
  BY DEF Crash, IdleRequest, Statuses
<1>6. deletion' \in [Deleters -> [pc: {"idle", "selected", "alerts"}, ids: SUBSET Ids,
                                  doomed: SUBSET Messages]]
  BY DEF Crash, IdleDeletion
<1>7. TypeOK'
  BY <1>2, <1>3, <1>4, <1>5, <1>6 DEF Crash, EngineInv, TypeOK, SweepRecord, tables
<1>8. GroupingSerialised' /\ LocksOwned' /\ GroupedFresh' /\ SweepsRead'
  BY <1>2, <1>3, OwnersAssumption
     DEF Crash, GroupingSerialised, LocksOwned, GroupedFresh, SweepsRead
<1>9. OneRowPerEvent'
  BY DEF Crash, EngineInv, Ownership, OneRowPerEvent, tables
<1> QED
  BY <1>7, <1>8, <1>9 DEF EngineInv, Ownership

(* A step that changes nothing.                                            *)
LEMMA EngineStutter == EngineInv /\ UNCHANGED vars => EngineInv'
<1> SUFFICES ASSUME EngineInv, UNCHANGED vars
             PROVE  EngineInv'
  OBVIOUS
<1>1. TypeOK'
  BY DEF EngineInv, TypeOK, vars, tables, requests
<1>2. Ownership'
  BY OwnershipKept DEF EngineInv, vars, tables, requests
<1> QED
  BY <1>1, <1>2 DEF EngineInv

(* Every step of an ingest task keeps the invariant.                       *)
LEMMA TaskStepKeeps ==
    ASSUME EngineInv, NEW m \in Messages, TaskStep(m)
    PROVE  EngineInv'
<1>1. CASE Start(m) \/ Suppress(m) \/ Fail(m)
  BY <1>1, StartStep, SuppressStep, FailStep
<1>2. CASE Grouping(m)
  BY <1>2, RejectDuplicateStep, GroupMatchStep, GroupCreateStep DEF Grouping
<1>3. CASE Merging(m)
  BY <1>3, MergeFlushStep, MergeStaleStep DEF Merging
<1>4. CASE CommitSome(m)
  BY <1>4, CommitStep DEF CommitSome
<1> QED
  BY <1>1, <1>2, <1>3, <1>4 DEF TaskStep, TaskProgress

(* So does every step of a sweep.                                          *)
LEMMA SweepStepKeeps ==
    ASSUME EngineInv, NEW w \in Sweepers, SweepBegin(w) \/ SweepStep(w)
    PROVE  EngineInv'
<1>1. CASE SweepBegin(w)
  BY <1>1, SweepSelectStep, BulkRequestStep DEF SweepBegin
<1>2. CASE SweepStep(w)
  BY <1>2, BulkReadStep, SweepFlushStep, SweepCommitStep, SweepAbortStep DEF SweepStep
<1> QED
  BY <1>1, <1>2

(* And of a delete.                                                        *)
LEMMA DeletionStepKeeps ==
    ASSUME EngineInv, NEW d \in Deleters, DeletionBegin(d) \/ DeletionStep(d)
    PROVE  EngineInv'
<1>1. ASSUME NEW ids \in SUBSET live, DeleteSelect(d, ids)
      PROVE  EngineInv'
  <2>1. ids \in SUBSET Ids
    BY DEF EngineInv, TypeOK
  <2> QED
    BY <1>1, <2>1, DeleteSelectStep
<1>2. CASE ArchiveSelect(d)
  BY <1>1, <1>2 DEF ArchiveSelect
<1>3. CASE \E statuses \in SUBSET Statuses : PurgeSelect(d, statuses)
  BY <1>1, <1>3 DEF PurgeSelect
<1>4. CASE DeletionStep(d)
  BY <1>4, DeleteAlertsStep, DeleteIncidentsStep DEF DeletionStep
<1> QED
  BY <1>2, <1>3, <1>4 DEF DeletionBegin

(* Every step keeps the invariant.                                         *)
LEMMA EngineStep == EngineInv /\ [Next]_vars => EngineInv'
<1> SUFFICES ASSUME EngineInv, Next
             PROVE  EngineInv'
  BY EngineStutter
<1>1. ASSUME NEW batch \in SUBSET Messages, Drain(batch)
      PROVE  EngineInv'
  BY <1>1, DrainStep
<1>2. ASSUME NEW m \in Messages, TaskStep(m)
      PROVE  EngineInv'
  BY <1>2, TaskStepKeeps
<1>3. ASSUME NEW a \in Analysts, TransitionWrite(a) \/
                 \E i \in Ids, to \in Statuses : TransitionRead(a, i, to)
      PROVE  EngineInv'
  BY <1>3, TransitionReadStep, TransitionWriteStep
<1>4. ASSUME NEW p \in Patchers, NEW i \in Ids, NEW to \in Statuses, NEW opens \in BOOLEAN,
             PatchIncident(p, i, to, opens)
      PROVE  EngineInv'
  BY <1>4, PatchIncidentStep
<1>5. ASSUME NEW c \in CaseOpeners, OpenCaseWrite(c) \/ \E i \in Ids : OpenCaseRead(c, i)
      PROVE  EngineInv'
  BY <1>5, OpenCaseReadStep, OpenCaseWriteStep
<1>6. ASSUME NEW w \in Sweepers, SweepBegin(w) \/ SweepStep(w)
      PROVE  EngineInv'
  BY <1>6, SweepStepKeeps
<1>7. ASSUME NEW d \in Deleters, DeletionBegin(d) \/ DeletionStep(d)
      PROVE  EngineInv'
  BY <1>7, DeletionStepKeeps
<1>8. ASSUME NEW i \in Ids, Quiesce(i)
      PROVE  EngineInv'
  BY <1>8, QuiesceStep
<1>9. CASE Crash
  BY <1>9, CrashStep
<1>10. CASE AllDone
  BY <1>10, EngineStutter DEF AllDone
<1> QED
  BY <1>1, <1>2, <1>3, <1>4, <1>5, <1>6, <1>7, <1>8, <1>9, <1>10 DEF Next

-----------------------------------------------------------------------------
(* The invariant holds in every reachable state.                           *)
THEOREM EngineInvariant == Spec => []EngineInv
  BY EngineInit, EngineStep, PTL DEF Spec

(* Every table, task and request keeps its shape: in particular the        *)
(* severity index stays on the scale and every audited status was read.    *)
THEOREM EngineTypes == Spec => []TypeOK
<1>1. EngineInv => TypeOK
  BY DEF EngineInv
<1> QED
  BY <1>1, EngineInvariant, PTL

(* group_alert runs for one alert at a time, whatever fails, crashes or is *)
(* deleted meanwhile.                                                      *)
THEOREM AlertsGroupedOneByOne == Spec => []GroupingSerialised
<1>1. EngineInv => GroupingSerialised
  BY DEF EngineInv, Ownership
<1> QED
  BY <1>1, EngineInvariant, PTL

(* No row lock outlives the transaction that took it.                      *)
THEOREM LocksReleased == Spec => []LocksOwned
<1>1. EngineInv => LocksOwned
  BY DEF EngineInv, Ownership
<1> QED
  BY <1>1, EngineInvariant, PTL

(* A redelivered event is stored once, however its tasks interleave.       *)
THEOREM EventsStoredOnce == Spec => []OneRowPerEvent
<1>1. EngineInv => OneRowPerEvent
  BY DEF EngineInv, Ownership
<1> QED
  BY <1>1, EngineInvariant, PTL

=============================================================================
