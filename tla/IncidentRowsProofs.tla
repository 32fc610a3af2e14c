-------------------------- MODULE IncidentRowsProofs --------------------------
(***************************************************************************)
(* What the incident rows say, for any alerts, limits and actors but those *)
(* a theorem names: the last status change audited is the row's status,    *)
(* the count is the number of stored alerts, the engine opens a case once, *)
(* one alert at most joins an incident that is settled, the archiver       *)
(* deletes settled incidents with all their alerts, the alerts of one host *)
(* begin one incident per window, and the concurrent tasks of ingest       *)
(* implement IncidentTable.                                                *)
(***************************************************************************)
EXTENDS IncidentEngineProofs, IncidentLate, FiniteSetTheorems, WellFoundedInduction

(* A task that merges and has flushed holds its row, which nobody deletes. *)
MergesHold ==
    \A m \in Messages :
        task[m].pc = "written" /\ ~task[m].created =>
            rowLock[task[m].id] = m /\ task[m].id \in live

AuditInv == EngineInv /\ MergesHold /\ AuditTail

(* What the task being grouped knows of the count: it is still that of the *)
(* row when the commit replaces it.                                        *)
CountRead ==
    \A m \in Messages :
        LET t == task[m]
        IN /\ t.pc = "matched" =>
                 ~t.created /\ t.id \in live /\ t.row.count = inc[t.id].count
           /\ t.pc = "written" /\ ~t.created =>
                 t.id \in live /\ t.row.count = inc[t.id].count + 1
           /\ t.pc = "written" /\ t.created =>
                 t.id \notin live /\ t.row.count = 1

LinksOf(i) == {m \in Messages : link[m] = i}
LinksFinite == \A i \in Ids : IsFiniteSet(LinksOf(i))

CountInv ==
    EngineInv /\ NoOrphanAlerts /\ LinksFinite /\ CountRead /\ CountMatchesLinks

(* And what it knows of the case.                                          *)
CaseRead ==
    \A m \in Messages :
        LET t == task[m]
        IN t.pc \in InGrouping =>
             t.row.hasCase = IF t.created THEN FALSE ELSE inc[t.id].hasCase

NoComments == \A i \in Ids \ live : comments[i] = 0

CaseInv == EngineInv /\ CountRead /\ CaseRead /\ NoComments /\ CaseOpenedOnce

(* A delete takes no incident a task has chosen, and every alert of those  *)
(* it takes.                                                               *)
DeletesWhole ==
    \A d \in Deleters :
        DeleteIncidents(d) =>
            /\ \A m \in Messages :
                  task[m].pc \in InGrouping => task[m].id \notin deletion[d].ids
            /\ deletion[d].doomed = {m \in Messages : link[m] \in deletion[d].ids}

-----------------------------------------------------------------------------
(* The kinds of steps.                                                     *)

(* A merge keeps the row it holds.                                         *)
HoldersKeep ==
    \A m \in Messages, i \in Ids :
        rowLock[i] = m /\ task'[m].pc = "written" => rowLock'[i] = m

(* The tables stay, and tasks only end, or move before they group.         *)
TablesRest ==
    /\ HoldersKeep
    /\ UNCHANGED tables
    /\ \A m \in Messages : task'[m].pc \in InGrouping => task'[m] = task[m]

(* A row's status is set together with its audit entry.                    *)
Audited(i) ==
    \/ audit'[i] = audit[i] /\ inc'[i].status = inc[i].status
    \/ \E from \in Statuses :
          audit'[i] = Append(audit[i], [from |-> from, to |-> inc'[i].status])

(* What the alerts of a row say of it.                                     *)
SameAlerts(i) ==
    /\ inc'[i].first = inc[i].first /\ inc'[i].last = inc[i].last
    /\ inc'[i].entities = inc[i].entities

(* Rows are updated in place, by people, sweeps or the calendar: only the  *)
(* first two make a row active.                                            *)
RowsUpdated ==
    /\ HoldersKeep
    /\ UNCHANGED <<task, link, live>>
    /\ \A i \in Ids : inc'[i].count = inc[i].count /\ SameAlerts(i)
    /\ Analysts = {} /\ Patchers = {} =>
         \A i \in Ids : /\ inc'[i].status \in ActiveStatuses => inc[i].status \in ActiveStatuses
                        /\ Sweepers = {} => inc'[i].status = inc[i].status
    /\ Patchers = {} => \A i \in live : Audited(i)
    /\ Patchers = {} /\ CaseOpeners = {} =>
         comments' = comments /\ \A i \in Ids : inc'[i].hasCase = inc[i].hasCase

GroupingStep(m) == GroupMatch(m) \/ GroupCreate(m) \/ MergeFlush(m)
CommitStepOf(m) == \E fp \in Scores, e \in RuleSeverities : Commit(m, fp, e)

LEMMA EndedFacts == \A how \in FinalPcs : Ended(how).pc = how /\ how \notin InGrouping
  BY DEF Ended, NewTask, FinalPcs, InGrouping

(* The steps of tasks that neither group nor commit.                       *)
LEMMA TaskRests ==
    ASSUME EngineInv, NEW m \in Messages,
           Start(m) \/ Suppress(m) \/ Fail(m) \/ RejectDuplicate(m) \/ MergeStale(m)
    PROVE  TablesRest
<1>1. task \in [Messages -> TaskType]
  BY DEF EngineInv, TypeOK
<1>2. \A n \in Messages : n # m => task'[n] = task[n]
  BY <1>1 DEF Start, Suppress, Fail, RejectDuplicate, MergeStale
<1>3. task'[m].pc \notin InGrouping
  <2>1. CASE Start(m)
    BY <1>1, <2>1 DEF Start, InGrouping, TaskType
  <2>2. CASE Suppress(m) \/ Fail(m) \/ RejectDuplicate(m) \/ MergeStale(m)
    BY <1>1, <2>2, EndedFacts
       DEF Suppress, Fail, RejectDuplicate, MergeStale, FinalPcs
  <2> QED
    BY <2>1, <2>2
<1>4. UNCHANGED tables
  BY DEF Start, Suppress, Fail, RejectDuplicate, MergeStale
<1>5. \A i \in Ids : rowLock[i] # m => rowLock'[i] = rowLock[i]
  BY DEF Start, Suppress, Fail, RejectDuplicate, MergeStale, Released
<1>6. HoldersKeep
  BY <1>3, <1>5 DEF HoldersKeep, InGrouping
<1> QED
  BY <1>2, <1>3, <1>4, <1>6 DEF TablesRest

LEMMA DrainRests ==
    ASSUME EngineInv, NEW batch \in SUBSET Messages, Drain(batch)
    PROVE  TablesRest
<1>1. task \in [Messages -> TaskType]
  BY DEF EngineInv, TypeOK
<1>2. \A m \in Messages : task'[m].pc \in InGrouping => task'[m] = task[m]
  BY <1>1 DEF Drain, InGrouping, TaskType
<1> QED
  BY <1>2 DEF Drain, TablesRest, HoldersKeep

LEMMA CrashRests ==
    ASSUME Crash
    PROVE  TablesRest
<1>1. \A m \in Messages : task'[m].pc \notin InGrouping
  BY EndedFacts DEF Crash, FinalPcs, InGrouping
<1> QED
  BY <1>1 DEF Crash, TablesRest, HoldersKeep, InGrouping

(* Requests that read, or only take and give back locks of their own.      *)
LEMMA RequestRests ==
    ASSUME UNCHANGED <<task, tables>>,
           \A i \in Ids : rowLock[i] \in Messages => rowLock'[i] = rowLock[i]
    PROVE  TablesRest
  BY DEF TablesRest, HoldersKeep

LEMMA SweepRests ==
    ASSUME EngineInv, NEW w \in Sweepers,
           SweepBegin(w) \/ BulkRead(w) \/ SweepFlush(w) \/ SweepAbort(w)
    PROVE  TablesRest
<1>1. UNCHANGED <<task, tables>>
  BY DEF SweepBegin, SweepSelect, BulkRequest, BulkRead, SweepFlush, SweepAbort
<1>2. \A i \in Ids : rowLock[i] \in Messages => rowLock'[i] = rowLock[i]
  <2>1. CASE SweepBegin(w) \/ BulkRead(w)
    BY <2>1 DEF SweepBegin, SweepSelect, BulkRequest, BulkRead
  <2>2. CASE SweepFlush(w)
    BY <2>2, OwnersAssumption DEF SweepFlush, Unlocked, EngineInv, TypeOK
  <2>3. CASE SweepAbort(w)
    BY <2>3, OwnersAssumption DEF SweepAbort, Released
  <2> QED
    BY <2>1, <2>2, <2>3
<1> QED
  BY <1>1, <1>2, RequestRests

LEMMA DeletionRests ==
    ASSUME NEW d \in Deleters, DeletionBegin(d) \/ DeleteAlerts(d)
    PROVE  TablesRest
<1>1. UNCHANGED <<task, tables, rowLock>>
  BY DEF DeletionBegin, ArchiveSelect, PurgeSelect, DeleteSelect, DeleteAlerts
<1> QED
  BY <1>1, RequestRests

(* The steps that update rows in place.                                    *)
LEMMA RowChanged ==
    ASSUME NEW row \in IncidentRow, NEW status \in Statuses, NEW case \in BOOLEAN,
           NEW age \in 0..2
    PROVE  LET new == [row EXCEPT !.status = status, !.hasCase = case, !.age = age]
           IN /\ new.status = status /\ new.hasCase = case
              /\ new.count = row.count
  BY DEF IncidentRow

LEMMA TransitionUpdates ==
    ASSUME EngineInv, NEW a \in Analysts, TransitionWrite(a)
    PROVE  RowsUpdated
<1> DEFINE r == analyst[a]
<1>1. inc \in [Ids -> IncidentRow] /\ audit \in [Ids -> Seq(AuditEntry)] /\ live \subseteq Ids
      /\ r.to \in Statuses /\ r.from \in Statuses
  BY DEF EngineInv, TypeOK
<1>2. UNCHANGED <<task, link, live, rowLock, comments>>
  BY DEF TransitionWrite
<1>3. CASE r.id \in live
  <2>1. /\ inc' = [inc EXCEPT ![r.id].status = r.to, ![r.id].age = 0]
        /\ audit' = AppendAudit(audit, r.id, r.from, r.to)
    BY <1>3 DEF TransitionWrite
  <2>2. \A i \in Ids : /\ inc'[i].count = inc[i].count /\ SameAlerts(i)
                       /\ inc'[i].hasCase = inc[i].hasCase
                       /\ inc'[i].status = IF i = r.id THEN r.to ELSE inc[i].status
    BY <1>1, <2>1 DEF IncidentRow, SameAlerts
  <2>3. \A i \in live : Audited(i)
    BY <1>1, <2>1, <2>2 DEF Audited, AppendAudit
  <2> QED
    BY <1>2, <2>2, <2>3 DEF RowsUpdated, HoldersKeep
<1>4. CASE r.id \notin live
  BY <1>2, <1>4 DEF TransitionWrite, RowsUpdated, HoldersKeep, Audited, SameAlerts
<1> QED
  BY <1>3, <1>4

LEMMA PatchUpdates ==
    ASSUME EngineInv, NEW p \in Patchers, NEW i \in Ids, NEW to \in Statuses,
           NEW opens \in BOOLEAN, PatchIncident(p, i, to, opens)
    PROVE  RowsUpdated
<1>1. inc \in [Ids -> IncidentRow]
  BY DEF EngineInv, TypeOK
<1>2. \A j \in Ids : inc'[j].count = inc[j].count /\ SameAlerts(j)
  BY <1>1 DEF PatchIncident, IncidentRow, SameAlerts
<1> QED
  BY <1>2 DEF PatchIncident, RowsUpdated, HoldersKeep

LEMMA OpenCaseUpdates ==
    ASSUME EngineInv, NEW c \in CaseOpeners, OpenCaseWrite(c)
    PROVE  RowsUpdated
<1>1. inc \in [Ids -> IncidentRow] /\ live \subseteq Ids
  BY DEF EngineInv, TypeOK
<1>2. \A j \in Ids : /\ inc'[j].count = inc[j].count /\ SameAlerts(j)
                     /\ inc'[j].status = inc[j].status
  BY <1>1 DEF OpenCaseWrite, IncidentRow, SameAlerts
<1> QED
  BY <1>1, <1>2 DEF OpenCaseWrite, RowsUpdated, HoldersKeep, Audited

LEMMA QuiesceUpdates ==
    ASSUME EngineInv, NEW i \in Ids, Quiesce(i)
    PROVE  RowsUpdated
<1>1. inc \in [Ids -> IncidentRow] /\ live \subseteq Ids
  BY DEF EngineInv, TypeOK
<1>2. \A j \in Ids : /\ inc'[j].count = inc[j].count /\ SameAlerts(j)
                     /\ inc'[j].status = inc[j].status
                     /\ inc'[j].hasCase = inc[j].hasCase
  BY <1>1 DEF Quiesce, IncidentRow, SameAlerts
<1> QED
  BY <1>1, <1>2 DEF Quiesce, RowsUpdated, HoldersKeep, Audited

LEMMA SweepUpdates ==
    ASSUME EngineInv, NEW w \in Sweepers, SweepCommit(w)
    PROVE  RowsUpdated
<1> DEFINE done == {i \in Ids : rowLock[i] = w}
<1>1. /\ inc \in [Ids -> IncidentRow] /\ audit \in [Ids -> Seq(AuditEntry)] /\ live \subseteq Ids
      /\ sweep[w].to \in Statuses
      /\ sweep[w].from \in [Ids -> Statuses \cup {"none"}]
  BY DEF EngineInv, TypeOK, Statuses
<1>2. \A i \in Ids : rowLock[i] = w => sweep[w].from[i] \in Statuses
  BY <1>1 DEF EngineInv, Ownership, SweepsRead
<1>3. \A i \in Ids : /\ inc'[i].count = inc[i].count /\ SameAlerts(i)
                     /\ inc'[i].hasCase = inc[i].hasCase
                     /\ inc'[i].status = IF rowLock[i] = w THEN sweep[w].to ELSE inc[i].status
  BY <1>1 DEF SweepCommit, IncidentRow, SameAlerts
<1>4. \A i \in Ids : audit'[i] = IF rowLock[i] = w
                                 THEN Append(audit[i], [from |-> sweep[w].from[i], to |-> sweep[w].to])
                                 ELSE audit[i]
  BY DEF SweepCommit
<1>5. \A i \in live : Audited(i)
  BY <1>1, <1>2, <1>3, <1>4 DEF Audited
<1>6. HoldersKeep
  BY OwnersAssumption DEF SweepCommit, Released, HoldersKeep
<1>7. sweep[w].to \notin ActiveStatuses
  BY DEF EngineInv, TypeOK, ActiveStatuses
<1> QED
  BY <1>3, <1>5, <1>6, <1>7 DEF SweepCommit, RowsUpdated

(* Every step is of one of the kinds.                                      *)
LEMMA Kinds ==
    ASSUME EngineInv, [Next]_vars
    PROVE  \/ TablesRest
           \/ RowsUpdated
           \/ \E m \in Messages : GroupingStep(m) \/ CommitStepOf(m)
           \/ \E d \in Deleters : DeleteIncidents(d)
<1>1. CASE UNCHANGED vars
  BY <1>1, RequestRests DEF vars
<1>2. ASSUME NEW m \in Messages, TaskStep(m)
      PROVE  TablesRest \/ GroupingStep(m) \/ CommitStepOf(m)
  BY <1>2, TaskRests DEF TaskStep, TaskProgress, Grouping, Merging, CommitSome,
                         GroupingStep, CommitStepOf
<1>3. ASSUME NEW batch \in SUBSET Messages, Drain(batch)
      PROVE  TablesRest
  BY <1>3, DrainRests
<1>4. ASSUME NEW a \in Analysts,
             TransitionWrite(a) \/ \E i \in Ids, to \in Statuses : TransitionRead(a, i, to)
      PROVE  TablesRest \/ RowsUpdated
  BY <1>4, TransitionUpdates, RequestRests DEF TransitionRead
<1>5. ASSUME NEW p \in Patchers, NEW i \in Ids, NEW to \in Statuses, NEW opens \in BOOLEAN,
             PatchIncident(p, i, to, opens)
      PROVE  RowsUpdated
  BY <1>5, PatchUpdates
<1>6. ASSUME NEW c \in CaseOpeners, OpenCaseWrite(c) \/ \E i \in Ids : OpenCaseRead(c, i)
      PROVE  TablesRest \/ RowsUpdated
  BY <1>6, OpenCaseUpdates, RequestRests DEF OpenCaseRead
<1>7. ASSUME NEW w \in Sweepers, SweepBegin(w) \/ SweepStep(w)
      PROVE  TablesRest \/ RowsUpdated
  BY <1>7, SweepRests, SweepUpdates DEF SweepStep
<1>8. ASSUME NEW d \in Deleters, DeletionBegin(d) \/ DeletionStep(d)
      PROVE  TablesRest \/ DeleteIncidents(d)
  BY <1>8, DeletionRests DEF DeletionStep
<1>9. ASSUME NEW i \in Ids, Quiesce(i)
      PROVE  RowsUpdated
  BY <1>9, QuiesceUpdates
<1>10. CASE Crash
  BY <1>10, CrashRests
<1>11. CASE AllDone
  BY <1>1, <1>11 DEF AllDone
<1> QED
  BY <1>1, <1>2, <1>3, <1>4, <1>5, <1>6, <1>7, <1>8, <1>9, <1>10, <1>11 DEF Next

-----------------------------------------------------------------------------
(* Merges keep their rows.                                                 *)

(* Only one alert is being grouped.                                        *)
LEMMA OneGroups ==
    ASSUME EngineInv, NEW m \in Messages, NEW n \in Messages, task[m].pc \in InGrouping,
           advisory = NoValue \/ task[n].pc \in InGrouping
    PROVE  m = n
  BY OwnersAssumption DEF EngineInv, Ownership, GroupingSerialised

(* What a task that groups does to the tasks.                              *)
LEMMA GroupingTasks ==
    ASSUME EngineInv, NEW n \in Messages, GroupingStep(n)
    PROVE  /\ UNCHANGED tables
           /\ \A m \in Messages : task'[m].pc \in InGrouping => m = n
<1>1. task \in [Messages -> TaskType]
  BY DEF EngineInv, TypeOK
<1>2. \A m \in Messages : m # n => task'[m] = task[m]
  BY <1>1 DEF GroupingStep, GroupMatch, GroupCreate, MergeFlush
<1>3. advisory = NoValue \/ task[n].pc \in InGrouping
  BY DEF GroupingStep, GroupMatch, GroupCreate, MergeFlush, InGrouping
<1>4. \A m \in Messages : task'[m].pc \in InGrouping => m = n
  BY <1>2, <1>3, OneGroups
<1> QED
  BY <1>4 DEF GroupingStep, GroupMatch, GroupCreate, MergeFlush

(* After a commit no alert is being grouped.                               *)
LEMMA CommitTasks ==
    ASSUME EngineInv, NEW n \in Messages, CommitStepOf(n)
    PROVE  \A m \in Messages : task'[m].pc \notin InGrouping
<1>1. task[n].pc \in InGrouping /\ task' = [task EXCEPT ![n] = Ended("stored")]
  BY DEF CommitStepOf, Commit, InGrouping
<1>2. \A m \in Messages : task[m].pc \in InGrouping => m = n
  BY <1>1, OneGroups
<1> QED
  BY <1>1, <1>2, EndedFacts DEF EngineInv, TypeOK, FinalPcs

LEMMA MergesHoldStep ==
    ASSUME EngineInv, MergesHold, [Next]_vars
    PROVE  MergesHold'
<1> SUFFICES ASSUME NEW m \in Messages, task'[m].pc = "written", ~task'[m].created
             PROVE  rowLock'[task'[m].id] = m /\ task'[m].id \in live'
  BY DEF MergesHold
<1>1. task'[m].pc \in InGrouping
  BY DEF InGrouping
<1>2. ASSUME task'[m] = task[m]
      PROVE  rowLock[task[m].id] = m /\ task[m].id \in live /\ task[m].id \in Ids
  BY <1>2 DEF MergesHold, EngineInv, TypeOK
<1>3. CASE TablesRest
  BY <1>1, <1>2, <1>3 DEF TablesRest, HoldersKeep, tables
<1>4. CASE RowsUpdated
  BY <1>2, <1>4 DEF RowsUpdated, HoldersKeep
<1>5. ASSUME NEW n \in Messages, GroupingStep(n)
      PROVE  rowLock'[task'[m].id] = m /\ task'[m].id \in live'
  <2>1. n = m /\ live' = live
    BY <1>1, <1>5, GroupingTasks DEF tables
  <2>2. task \in [Messages -> TaskType] /\ rowLock \in [Ids -> Messages \cup Sweepers \cup {NoValue}]
        /\ live \subseteq Ids
    BY DEF EngineInv, TypeOK
  <2>3. MergeFlush(m)
    BY <1>5, <2>1, <2>2 DEF GroupingStep, GroupMatch, GroupCreate
  <2> QED
    BY <2>1, <2>2, <2>3 DEF MergeFlush, TaskType
<1>6. ASSUME NEW n \in Messages, CommitStepOf(n)
      PROVE  FALSE
  BY <1>1, <1>6, CommitTasks
<1>7. ASSUME NEW d \in Deleters, DeleteIncidents(d)
      PROVE  rowLock'[task'[m].id] = m /\ task'[m].id \in live'
  <2>1. task' = task /\ rowLock' = rowLock /\ live' = live \ deletion[d].ids
        /\ \A i \in deletion[d].ids : rowLock[i] = NoValue
    BY <1>7 DEF DeleteIncidents, Unlocked
  <2> QED
    BY <1>2, <2>1, OwnersAssumption
<1> QED
  BY <1>3, <1>4, <1>5, <1>6, <1>7, Kinds

-----------------------------------------------------------------------------
(* The audit trail.                                                        *)

LEMMA ChangeAppended ==
    ASSUME NEW log \in Seq(AuditEntry), NEW from \in Statuses, NEW to \in Statuses
    PROVE  EndsIn(Append(log, [from |-> from, to |-> to]), to)
<1> DEFINE entry == [from |-> from, to |-> to]
           n == Len(log) + 1
<1>1. entry \in AuditEntry /\ entry.from = from /\ entry.to = to
  BY DEF AuditEntry
<1>2. from # "none"
  BY DEF Statuses
<1> HIDE DEF entry
<1>3. n \in DOMAIN Append(log, entry) /\ Append(log, entry)[n] = entry
  BY <1>1
<1>4. \A k \in DOMAIN Append(log, entry) : ~(k > n)
  BY <1>1
<1>5. EndsIn(Append(log, entry), to)
  BY <1>1, <1>2, <1>3, <1>4 DEF EndsIn
<1> QED
  BY <1>5 DEF entry

(* The entry of an opened case changes no status.                          *)
LEMMA NoteAppended ==
    ASSUME NEW log \in Seq(AuditEntry), NEW status, EndsIn(log, status)
    PROVE  EndsIn(Append(log, [from |-> "none", to |-> "open"]), status)
<1> DEFINE entry == [from |-> "none", to |-> "open"]
           more == Append(log, entry)
<1>1. entry \in AuditEntry /\ entry.from = "none"
  BY DEF AuditEntry, Statuses
<1> HIDE DEF entry
<1>2. PICK n \in DOMAIN log : /\ log[n].from # "none" /\ log[n].to = status
                             /\ \A k \in DOMAIN log : k > n => log[k].from = "none"
  BY DEF EndsIn
<1>3. /\ DOMAIN log = 1..Len(log) /\ DOMAIN more = 1..(Len(log) + 1) /\ Len(log) \in Nat
      /\ \A k \in 1..Len(log) : more[k] = log[k]
      /\ more[Len(log) + 1] = entry
  BY <1>1
<1> HIDE DEF more
<1>4. n \in DOMAIN more /\ more[n] = log[n]
  BY <1>3
<1>5. ASSUME NEW k \in DOMAIN more, k > n
      PROVE  more[k].from = "none"
  <2>1. CASE k = Len(log) + 1
    BY <1>1, <1>3, <2>1
  <2>2. CASE k # Len(log) + 1
    <3>1. k \in DOMAIN log /\ more[k] = log[k]
      BY <1>3, <2>2
    <3> QED
      BY <1>2, <1>5, <3>1
  <2> QED
    BY <2>1, <2>2
<1>6. EndsIn(more, status)
  BY <1>2, <1>4, <1>5 DEF EndsIn
<1> QED
  BY <1>6 DEF more, entry

LEMMA CommitAudits ==
    ASSUME EngineInv, MergesHold, AuditTail, NEW m \in Messages, NEW fp \in Scores,
           NEW e \in RuleSeverities, Commit(m, fp, e)
    PROVE  AuditTail'
<1> DEFINE t == task[m]
           i == t.id
           seen == SeenStatus(t)
           next == BandStatus(seen, fp, FpThreshold)
           started == IF t.created THEN AppendAudit(audit, i, "open", "investigating")
                                   ELSE audit
           moved == IF next # seen THEN AppendAudit(started, i, seen, next) ELSE started
           status == WrittenStatus(t, next, inc[i].status)
<1>1. t \in TaskType /\ i \in Ids /\ t.row \in IncidentRow /\ t.pc = "written"
  BY DEF Commit, EngineInv, TypeOK, TaskType, Ownership, GroupedFresh, InGrouping
<1>2. inc \in [Ids -> IncidentRow] /\ audit \in [Ids -> Seq(AuditEntry)] /\ live \subseteq Ids
  BY DEF EngineInv, TypeOK
<1>3. seen \in Statuses
  BY <1>1 DEF SeenStatus, IncidentRow, Statuses
<1>4. next \in Statuses
  BY <1>3 DEF BandStatus, Statuses
<1>5. \A j \in Ids : inc'[j].status = IF j = i THEN status ELSE inc[j].status
  BY <1>1, <1>2 DEF Commit, IncidentRow
<1>6. /\ audit' \in {moved, AppendAudit(moved, i, "none", "open")}
      /\ live' = live \cup {i}
  BY DEF Commit
<1>7. status = IF t.created \/ next # seen THEN next ELSE inc[i].status
  BY DEF WrittenStatus
<1>8. t.created => seen = "investigating"
  BY DEF SeenStatus
<1>9. ~t.created => i \in live
  BY <1>1 DEF MergesHold
<1> HIDE DEF t, i, seen, next, status
<1>10. started \in [Ids -> Seq(AuditEntry)]
  BY <1>1, <1>2, AuditType DEF Statuses
<1>11. moved \in [Ids -> Seq(AuditEntry)] /\ EndsIn(moved[i], status)
  <2>1. CASE next # seen
    <3>1. moved = AppendAudit(started, i, seen, next)
      BY <2>1
    <3>2. moved[i] = Append(started[i], [from |-> seen, to |-> next]) /\ status = next
      BY <1>1, <1>7, <1>10, <2>1, <3>1 DEF AppendAudit
    <3> QED
      BY <1>1, <1>3, <1>4, <1>10, <3>1, <3>2, AuditType, ChangeAppended
  <2>2. CASE next = seen /\ t.created
    <3>1. moved = started /\ started = AppendAudit(audit, i, "open", "investigating")
      BY <2>2
    <3>2. moved[i] = Append(audit[i], [from |-> "open", to |-> "investigating"])
      BY <1>1, <1>2, <3>1 DEF AppendAudit
    <3>3. status = "investigating" /\ {"open", "investigating"} \subseteq Statuses
      BY <1>7, <1>8, <2>2 DEF Statuses
    <3> QED
      BY <1>1, <1>2, <1>10, <3>1, <3>2, <3>3, ChangeAppended
  <2>3. CASE next = seen /\ ~t.created
    <3>1. moved = audit /\ status = inc[i].status
      BY <1>7, <2>3
    <3> QED
      BY <1>2, <1>9, <2>3, <3>1 DEF AuditTail
  <2> QED
    BY <2>1, <2>2, <2>3
<1>12. \A j \in Ids : j # i => moved[j] = audit[j]
  <2>1. \A j \in Ids : j # i => started[j] = audit[j]
    BY <1>1, <1>2 DEF AppendAudit
  <2> QED
    BY <1>1, <1>10, <2>1 DEF AppendAudit
<1> HIDE DEF started, moved
<1>13. EndsIn(audit'[i], status) /\ \A j \in Ids : j # i => audit'[j] = audit[j]
  <2>1. CASE audit' = moved
    BY <1>11, <1>12, <2>1
  <2>2. CASE audit' = AppendAudit(moved, i, "none", "open")
    <3>1. audit'[i] = Append(moved[i], [from |-> "none", to |-> "open"])
          /\ \A j \in Ids : j # i => audit'[j] = moved[j]
      BY <1>1, <1>11, <2>2 DEF AppendAudit
    <3> QED
      BY <1>1, <1>11, <1>12, <3>1, NoteAppended
  <2> QED
    BY <1>6, <2>1, <2>2
<1>14. i \in Ids
  BY <1>1
<1>15. ASSUME NEW j \in live'
       PROVE  EndsIn(audit'[j], inc'[j].status)
  <2>1. CASE j = i
    BY <1>5, <1>13, <1>14, <2>1
  <2>2. CASE j # i
    <3>1. j \in live /\ j \in Ids
      BY <1>2, <1>6, <2>2
    <3>2. audit'[j] = audit[j] /\ inc'[j].status = inc[j].status
      BY <1>5, <1>13, <2>2, <3>1
    <3> QED
      BY <3>1, <3>2 DEF AuditTail
  <2> QED
    BY <2>1, <2>2
<1> QED
  BY <1>15 DEF AuditTail

LEMMA AuditStep ==
    ASSUME Patchers = {}, EngineInv, MergesHold, AuditTail, [Next]_vars
    PROVE  AuditTail'
<1>1. CASE TablesRest
  BY <1>1 DEF TablesRest, tables, AuditTail
<1>2. CASE RowsUpdated
  <2> SUFFICES ASSUME NEW i \in live'
               PROVE  EndsIn(audit'[i], inc'[i].status)
    BY DEF AuditTail
  <2>1. i \in live /\ Audited(i) /\ audit[i] \in Seq(AuditEntry) /\ inc'[i].status \in Statuses
    <3>1. i \in live /\ Audited(i)
      BY <1>2 DEF RowsUpdated
    <3>2. i \in Ids /\ audit[i] \in Seq(AuditEntry)
      BY <3>1 DEF EngineInv, TypeOK
    <3>3. inc' \in [Ids -> IncidentRow]
      BY EngineStep DEF EngineInv, TypeOK
    <3> QED
      BY <3>1, <3>2, <3>3 DEF IncidentRow
  <2>2. CASE audit'[i] = audit[i] /\ inc'[i].status = inc[i].status
    BY <2>1, <2>2 DEF AuditTail
  <2>3. ASSUME NEW from \in Statuses,
               audit'[i] = Append(audit[i], [from |-> from, to |-> inc'[i].status])
        PROVE  EndsIn(audit'[i], inc'[i].status)
    BY <2>1, <2>3, ChangeAppended
  <2> QED
    BY <2>1, <2>2, <2>3 DEF Audited
<1>3. ASSUME NEW m \in Messages, GroupingStep(m)
      PROVE  AuditTail'
  BY <1>3, GroupingTasks DEF tables, AuditTail
<1>4. ASSUME NEW m \in Messages, CommitStepOf(m)
      PROVE  AuditTail'
  BY <1>4, CommitAudits DEF CommitStepOf
<1>5. ASSUME NEW d \in Deleters, DeleteIncidents(d)
      PROVE  AuditTail'
  <2>1. /\ live' = live \ deletion[d].ids /\ audit' = audit
        /\ \A i \in Ids : i \notin deletion[d].ids => inc'[i] = inc[i]
    BY <1>5 DEF DeleteIncidents
  <2>2. live \subseteq Ids
    BY DEF EngineInv, TypeOK
  <2> QED
    BY <2>1, <2>2 DEF AuditTail
<1> QED
  BY <1>1, <1>2, <1>3, <1>4, <1>5, Kinds

(* The last status change in an incident's audit trail names its status,   *)
(* whatever ingest tasks, transitions, bulk updates and deletes race       *)
(* (Commit, TransitionWrite, SweepCommit); of the engine's own writers only*)
(* PATCH breaks the trail.                                                 *)
THEOREM TrailEndsInStatus == ASSUME Patchers = {} PROVE Spec => []AuditTail
<1>1. Init => AuditInv
  BY EngineInit DEF Init, AuditInv, AuditTail, MergesHold, NewTask
<1>2. AuditInv /\ [Next]_vars => AuditInv'
  BY EngineStep, MergesHoldStep, AuditStep DEF AuditInv
<1>3. AuditInv => AuditTail
  BY DEF AuditInv
<1> QED
  BY <1>1, <1>2, <1>3, PTL DEF Spec

-----------------------------------------------------------------------------
(* The count.                                                              *)

(* The number of a new incident is above those of all the rows.            *)
LEMMA GreatestRow ==
    ASSUME NEW S \in SUBSET Ids, S # {}
    PROVE  \E i \in S : \A j \in S : j <= i
<1> DEFINE T == {MaxIncidents - i : i \in S}
<1>1. MaxIncidents \in Nat
  BY BoundsAssumption
<1>2. T \subseteq Nat /\ T # {}
  <2>1. \A i \in S : MaxIncidents - i \in Nat
    BY <1>1 DEF Ids
  <2> QED
    BY <2>1
<1>3. \E n \in T : \A k \in T : n <= k
  <2> DEFINE R == OpToRel(<, Nat)
  <2>1. IsWellFoundedOn(R, Nat)
    BY NatLessThanWellFounded
  <2>2. \A k \in Nat, n \in Nat : k < n => <<k, n>> \in R
    BY DEF OpToRel
  <2> HIDE DEF T, R
  <2>3. PICK n \in T : \A k \in T : ~(<<k, n>> \in R)
    BY <1>2, <2>1, WFMin
  <2>4. ASSUME NEW k \in T
        PROVE  n <= k
    <3>1. n \in Nat /\ k \in Nat
      BY <1>2
    <3>2. k < n => <<k, n>> \in R
      BY <2>2, <3>1
    <3> QED
      BY <2>3, <3>1, <3>2
  <2> QED
    BY <2>4
<1>4. PICK i \in S : \A k \in T : MaxIncidents - i <= k
  BY <1>3
<1>5. ASSUME NEW j \in S
      PROVE  j <= i
  <2>1. MaxIncidents - j \in T
    OBVIOUS
  <2>2. MaxIncidents - i <= MaxIncidents - j
    BY <1>4, <2>1
  <2>3. i \in Nat /\ j \in Nat
    BY DEF Ids
  <2> QED
    BY <1>1, <2>2, <2>3
<1> QED
  BY <1>5

LEMMA NextIdNew == ASSUME EngineInv PROVE NextId \notin live
<1>1. live \subseteq Ids
  BY DEF EngineInv, TypeOK
<1>2. CASE live = {}
  BY <1>2
<1>3. CASE live # {}
  <2> DEFINE top == CHOOSE i \in live : \A j \in live : j <= i
  <2>1. top \in live /\ \A j \in live : j <= top
    BY <1>1, <1>3, GreatestRow
  <2>2. NextId = 1 + top
    BY <1>3 DEF NextId
  <2> HIDE DEF top
  <2>3. top \in Int
    BY <1>1, <2>1 DEF Ids
  <2> QED
    BY <2>1, <2>2, <2>3
<1> QED
  BY <1>2, <1>3

(* What a task reads when it finds or creates its incident.                *)
LEMMA MatchReads ==
    ASSUME EngineInv, NEW m \in Messages, GroupMatch(m)
    PROVE  /\ task'[m].pc = "matched" /\ ~task'[m].created
           /\ task'[m].id \in live /\ task'[m].row = inc[task'[m].id]
           /\ task'[m].id \in Eligible(m) /\ SharesEntity(m, task'[m].id)
<1>1. PICK page \in Page(Eligible(m)) : \E i \in FirstMatches(m, page) :
         task' = [task EXCEPT ![m] = [pc |-> "matched", id |-> i, created |-> FALSE,
                                      row |-> inc[i]]]
  BY DEF GroupMatch
<1>2. PICK i \in FirstMatches(m, page) :
         task' = [task EXCEPT ![m] = [pc |-> "matched", id |-> i, created |-> FALSE,
                                      row |-> inc[i]]]
  BY <1>1
<1>3. page \subseteq Eligible(m)
  BY DEF Page
<1>4. i \in Eligible(m) /\ SharesEntity(m, i) /\ i \in live
  BY <1>3 DEF FirstMatches, Eligible
<1>5. task'[m] = [pc |-> "matched", id |-> i, created |-> FALSE, row |-> inc[i]]
  BY <1>2 DEF EngineInv, TypeOK
<1> QED
  BY <1>4, <1>5

LEMMA CreateReads ==
    ASSUME EngineInv, NEW m \in Messages, GroupCreate(m)
    PROVE  /\ task'[m].pc = "written" /\ task'[m].created
           /\ task'[m].id \notin live
           /\ task'[m].row = CreatedRow(m)
           /\ task'[m].row.count = 1 /\ task'[m].row.hasCase = FALSE
<1>1. task'[m] = [pc |-> "written", id |-> NextId, created |-> TRUE, row |-> CreatedRow(m)]
  BY DEF GroupCreate, EngineInv, TypeOK
<1>2. CreatedRow(m).count = 1 /\ CreatedRow(m).hasCase = FALSE
  BY DEF CreatedRow
<1> QED
  BY <1>1, <1>2, NextIdNew

LEMMA FlushReads ==
    ASSUME EngineInv, NEW m \in Messages, MergeFlush(m)
    PROVE  /\ task'[m].pc = "written" /\ task'[m].created = task[m].created
           /\ task'[m].id = task[m].id
           /\ task'[m].row.count = task[m].row.count + 1
           /\ task'[m].row.hasCase = task[m].row.hasCase
           /\ task'[m].row = MergedRow(m, task[m].row)
<1>1. task[m] \in TaskType /\ task[m].row \in IncidentRow
  BY DEF EngineInv, TypeOK, TaskType
<1>2. task'[m] = [task[m] EXCEPT !.pc = "written", !.row = MergedRow(m, task[m].row)]
  BY DEF MergeFlush, EngineInv, TypeOK
<1>3. /\ task'[m].pc = "written" /\ task'[m].created = task[m].created
      /\ task'[m].id = task[m].id /\ task'[m].row = MergedRow(m, task[m].row)
  BY <1>1, <1>2 DEF TaskType
<1>4. /\ MergedRow(m, task[m].row).count = task[m].row.count + 1
      /\ MergedRow(m, task[m].row).hasCase = task[m].row.hasCase
  BY <1>1 DEF MergedRow, IncidentRow
<1> QED
  BY <1>3, <1>4

LEMMA CountReadStep ==
    ASSUME DeletesWhole, EngineInv, CountRead, [Next]_vars
    PROVE  CountRead'
<1> SUFFICES ASSUME NEW m \in Messages, task'[m].pc \in InGrouping
             PROVE  LET t == task'[m]
                    IN /\ t.pc = "matched" =>
                             ~t.created /\ t.id \in live' /\ t.row.count = inc'[t.id].count
                       /\ t.pc = "written" /\ ~t.created =>
                             t.id \in live' /\ t.row.count = inc'[t.id].count + 1
                       /\ t.pc = "written" /\ t.created =>
                             t.id \notin live' /\ t.row.count = 1
  BY DEF CountRead, InGrouping
<1>1. CASE TablesRest
  BY <1>1 DEF TablesRest, tables, CountRead
<1>2. CASE RowsUpdated
  <2>1. task'[m] = task[m] /\ task[m].id \in Ids
    BY <1>2 DEF RowsUpdated, EngineInv, Ownership, GroupedFresh
  <2> QED
    BY <1>2, <2>1 DEF RowsUpdated, CountRead
<1>3. ASSUME NEW n \in Messages, GroupingStep(n)
      PROVE  LET t == task'[m]
             IN /\ t.pc = "matched" =>
                      ~t.created /\ t.id \in live' /\ t.row.count = inc'[t.id].count
                /\ t.pc = "written" /\ ~t.created =>
                      t.id \in live' /\ t.row.count = inc'[t.id].count + 1
                /\ t.pc = "written" /\ t.created =>
                      t.id \notin live' /\ t.row.count = 1
  <2>1. n = m /\ live' = live /\ inc' = inc
    BY <1>3, GroupingTasks DEF tables
  <2>2. CASE GroupMatch(m)
    BY <2>1, <2>2, MatchReads
  <2>3. CASE GroupCreate(m)
    BY <2>1, <2>3, CreateReads
  <2>4. CASE MergeFlush(m)
    <3>1. /\ ~task[m].created /\ task[m].id \in live
          /\ task[m].row.count = inc[task[m].id].count
      BY <2>4 DEF MergeFlush, CountRead
    <3> QED
      BY <2>1, <2>4, <3>1, FlushReads
  <2> QED
    BY <1>3, <2>1, <2>2, <2>3, <2>4 DEF GroupingStep
<1>4. ASSUME NEW n \in Messages, CommitStepOf(n)
      PROVE  FALSE
  BY <1>4, CommitTasks
<1>5. ASSUME NEW d \in Deleters, DeleteIncidents(d)
      PROVE  LET t == task'[m]
             IN /\ t.pc = "matched" =>
                      ~t.created /\ t.id \in live' /\ t.row.count = inc'[t.id].count
                /\ t.pc = "written" /\ ~t.created =>
                      t.id \in live' /\ t.row.count = inc'[t.id].count + 1
                /\ t.pc = "written" /\ t.created =>
                      t.id \notin live' /\ t.row.count = 1
  <2>1. /\ task' = task /\ live' = live \ deletion[d].ids
        /\ \A i \in Ids : i \notin deletion[d].ids => inc'[i] = inc[i]
    BY <1>5 DEF DeleteIncidents
  <2>2. task[m].id \in Ids /\ task[m].id \notin deletion[d].ids
    BY <1>5, <2>1 DEF DeletesWhole, EngineInv, Ownership, GroupedFresh
  <2> QED
    BY <2>1, <2>2 DEF CountRead
<1> QED
  BY <1>1, <1>2, <1>3, <1>4, <1>5, Kinds

LEMMA CommitLinks ==
    ASSUME EngineInv, NoOrphanAlerts, LinksFinite, CountRead, CountMatchesLinks,
           NEW m \in Messages, NEW fp \in Scores, NEW e \in RuleSeverities,
           Commit(m, fp, e)
    PROVE  NoOrphanAlerts' /\ LinksFinite' /\ CountMatchesLinks'
<1>1. /\ task[m].id \in Ids /\ task[m].pc = "written" /\ SameEvent(m) = {}
      /\ task[m].row \in IncidentRow
  BY DEF Commit, EngineInv, TypeOK, TaskType, Ownership, GroupedFresh, InGrouping
<1>2. PICK i \in Ids : i = task[m].id
  BY <1>1
<1>3. /\ i = task[m].id /\ task[m].pc = "written" /\ SameEvent(m) = {}
      /\ task[m].row \in IncidentRow
  BY <1>1, <1>2
<1>4. /\ inc \in [Ids -> IncidentRow] /\ link \in [Messages -> Ids \cup {NoInc}]
      /\ live \subseteq Ids
  BY DEF EngineInv, TypeOK
<1>5. link[m] = NoInc
  BY <1>3 DEF SameEvent
<1>6. live' = live \cup {i} /\ link' = [link EXCEPT ![m] = i]
  BY <1>3 DEF Commit
<1>7. \A j \in Ids : inc'[j].count = IF j = i THEN task[m].row.count ELSE inc[j].count
  BY <1>3, <1>4 DEF Commit, IncidentRow
<1>8. i # NoInc
  BY DEF Ids, NoInc
<1>9. \A j \in Ids : j # i => LinksOf(j)' = LinksOf(j)
  BY <1>4, <1>5, <1>6 DEF LinksOf, Ids, NoInc
<1>10. LinksOf(i)' = LinksOf(i) \cup {m} /\ m \notin LinksOf(i)
  BY <1>4, <1>5, <1>6, <1>8 DEF LinksOf
<1>11. IsFiniteSet(LinksOf(i)) /\ Cardinality(LinksOf(i)) \in Nat
  BY FS_CardinalityType DEF LinksFinite
<1>12. /\ IsFiniteSet(LinksOf(i)')
       /\ Cardinality(LinksOf(i)') = Cardinality(LinksOf(i)) + 1
  BY <1>10, <1>11, FS_AddElement
<1>13. NoOrphanAlerts'
  BY <1>4, <1>6 DEF NoOrphanAlerts
<1>14. LinksFinite'
  BY <1>9, <1>12 DEF LinksFinite
<1>15. task[m].row.count = Cardinality(LinksOf(i)')
  <2>1. CASE task[m].created
    <3>1. i \notin live /\ task[m].row.count = 1
      BY <1>3, <2>1 DEF CountRead
    <3>2. LinksOf(i) = {}
      BY <1>8, <3>1 DEF LinksOf, NoOrphanAlerts
    <3> QED
      BY <1>12, <3>1, <3>2, FS_EmptySet
  <2>2. CASE ~task[m].created
    <3>1. i \in live /\ task[m].row.count = inc[i].count + 1
      BY <1>3, <2>2 DEF CountRead
    <3>2. inc[i].count = Cardinality(LinksOf(i))
      BY <3>1 DEF CountMatchesLinks, LinksOf
    <3> QED
      BY <1>12, <3>1, <3>2
  <2> QED
    BY <2>1, <2>2
<1>16. ASSUME NEW j \in live'
       PROVE  inc'[j].count = Cardinality(LinksOf(j)')
  <2>1. CASE j = i
    BY <1>3, <1>7, <1>15, <2>1
  <2>2. CASE j # i
    <3>1. j \in live /\ j \in Ids
      BY <1>4, <1>6, <2>2
    <3>2. inc[j].count = Cardinality(LinksOf(j))
      BY <3>1 DEF CountMatchesLinks, LinksOf
    <3> QED
      BY <1>7, <1>9, <2>2, <3>1, <3>2
  <2> QED
    BY <2>1, <2>2
<1>17. CountMatchesLinks'
  BY <1>16 DEF CountMatchesLinks, LinksOf
<1> QED
  BY <1>13, <1>14, <1>17

(* A delete leaves the alerts of the incidents that stay.                  *)
LEMMA DeleteLinks ==
    ASSUME DeletesWhole, EngineInv, NoOrphanAlerts, LinksFinite, CountMatchesLinks,
           NEW d \in Deleters, DeleteIncidents(d)
    PROVE  NoOrphanAlerts' /\ LinksFinite' /\ CountMatchesLinks'
<1> DEFINE ids == deletion[d].ids
<1>1. live \subseteq Ids /\ link \in [Messages -> Ids \cup {NoInc}]
  BY DEF EngineInv, TypeOK
<1>2. /\ live' = live \ ids
      /\ \A i \in Ids : i \notin ids => inc'[i] = inc[i]
      /\ \A m \in Messages : link'[m] = IF link[m] \in ids THEN NoInc ELSE link[m]
  BY DEF DeletesWhole, DeleteIncidents
<1>3. \A i \in Ids : i # NoInc
  BY DEF Ids, NoInc
<1>4. \A i \in Ids : LinksOf(i)' = IF i \in ids THEN {} ELSE LinksOf(i)
  BY <1>2, <1>3 DEF LinksOf
<1>5. NoOrphanAlerts'
  BY <1>1, <1>2 DEF NoOrphanAlerts
<1>6. LinksFinite'
  BY <1>4, FS_EmptySet DEF LinksFinite
<1>7. ASSUME NEW j \in live'
      PROVE  inc'[j].count = Cardinality(LinksOf(j)')
  <2>1. j \in live /\ j \in Ids /\ j \notin ids
    BY <1>1, <1>2
  <2>2. inc[j].count = Cardinality(LinksOf(j))
    BY <2>1 DEF CountMatchesLinks, LinksOf
  <2> QED
    BY <1>2, <1>4, <2>1, <2>2
<1>8. CountMatchesLinks'
  BY <1>7 DEF CountMatchesLinks, LinksOf
<1> QED
  BY <1>5, <1>6, <1>8

LEMMA CountStep ==
    ASSUME DeletesWhole, CountInv, [Next]_vars
    PROVE  CountInv'
<1>1. EngineInv /\ NoOrphanAlerts /\ LinksFinite /\ CountRead /\ CountMatchesLinks
  BY DEF CountInv
<1>2. EngineInv' /\ CountRead'
  BY <1>1, EngineStep, CountReadStep
<1>3. CASE UNCHANGED <<link, live>> /\ \A i \in Ids : inc'[i].count = inc[i].count
  <2>1. live \subseteq Ids
    BY <1>1 DEF EngineInv, TypeOK
  <2> QED
    BY <1>1, <1>2, <1>3, <2>1
       DEF CountInv, NoOrphanAlerts, LinksFinite, LinksOf, CountMatchesLinks
<1>4. CASE TablesRest
  BY <1>3, <1>4 DEF TablesRest, tables
<1>5. CASE RowsUpdated
  BY <1>3, <1>5 DEF RowsUpdated
<1>6. ASSUME NEW m \in Messages, GroupingStep(m)
      PROVE  CountInv'
  BY <1>1, <1>3, <1>6, GroupingTasks DEF tables
<1>7. ASSUME NEW m \in Messages, CommitStepOf(m)
      PROVE  CountInv'
  BY <1>1, <1>2, <1>7, CommitLinks DEF CommitStepOf, CountInv
<1>8. ASSUME NEW d \in Deleters, DeleteIncidents(d)
      PROVE  CountInv'
  BY <1>1, <1>2, <1>8, DeleteLinks DEF CountInv
<1> QED
  BY <1>1, <1>4, <1>5, <1>6, <1>7, <1>8, Kinds

LEMMA CountInit == Init => CountInv
<1> SUFFICES ASSUME Init
             PROVE  CountInv
  OBVIOUS
<1>1. \A i \in Ids : LinksOf(i) = {}
  BY DEF Init, LinksOf, Ids, NoInc
<1>2. LinksFinite
  BY <1>1, FS_EmptySet DEF LinksFinite
<1> QED
  BY <1>2, EngineInit DEF Init, CountInv, NoOrphanAlerts, CountRead, CountMatchesLinks, NewTask

(* The count of an incident is the number of its stored alerts, although   *)
(* merges add one to a count they read before they took the row lock       *)
(* (GroupMatch, MergeFlush, Commit), as long as nobody deletes incidents.  *)
THEOREM CountsFollowLinks == ASSUME Deleters = {} PROVE Spec => []CountMatchesLinks
<1>1. Init => CountInv
  BY CountInit
<1>2. CountInv /\ [Next]_vars => CountInv'
  BY CountStep DEF DeletesWhole
<1>3. CountInv => CountMatchesLinks
  BY DEF CountInv
<1> QED
  BY <1>1, <1>2, <1>3, PTL DEF Spec

-----------------------------------------------------------------------------
(* The case.                                                               *)

LEMMA CaseReadStep ==
    ASSUME DeletesWhole, Patchers = {}, CaseOpeners = {}, EngineInv, CountRead, CaseRead,
           [Next]_vars
    PROVE  CaseRead'
<1> SUFFICES ASSUME NEW m \in Messages, task'[m].pc \in InGrouping
             PROVE  task'[m].row.hasCase = IF task'[m].created THEN FALSE
                                           ELSE inc'[task'[m].id].hasCase
  BY DEF CaseRead
<1>1. CASE TablesRest
  BY <1>1 DEF TablesRest, tables, CaseRead
<1>2. CASE RowsUpdated
  <2>1. task'[m] = task[m] /\ task[m].id \in Ids
    BY <1>2 DEF RowsUpdated, EngineInv, Ownership, GroupedFresh
  <2> QED
    BY <1>2, <2>1 DEF RowsUpdated, CaseRead
<1>3. ASSUME NEW n \in Messages, GroupingStep(n)
      PROVE  task'[m].row.hasCase = IF task'[m].created THEN FALSE
                                    ELSE inc'[task'[m].id].hasCase
  <2>1. n = m /\ inc' = inc
    BY <1>3, GroupingTasks DEF tables
  <2>2. CASE GroupMatch(m)
    BY <2>1, <2>2, MatchReads
  <2>3. CASE GroupCreate(m)
    BY <2>1, <2>3, CreateReads
  <2>4. CASE MergeFlush(m)
    <3>1. task[m].row.hasCase = IF task[m].created THEN FALSE ELSE inc[task[m].id].hasCase
      BY <2>4 DEF MergeFlush, CaseRead, InGrouping
    <3> QED
      BY <2>1, <2>4, <3>1, FlushReads
  <2> QED
    BY <1>3, <2>1, <2>2, <2>3, <2>4 DEF GroupingStep
<1>4. ASSUME NEW n \in Messages, CommitStepOf(n)
      PROVE  FALSE
  BY <1>4, CommitTasks
<1>5. ASSUME NEW d \in Deleters, DeleteIncidents(d)
      PROVE  task'[m].row.hasCase = IF task'[m].created THEN FALSE
                                    ELSE inc'[task'[m].id].hasCase
  <2>1. /\ task' = task
        /\ \A i \in Ids : i \notin deletion[d].ids => inc'[i] = inc[i]
    BY <1>5 DEF DeleteIncidents
  <2>2. task[m].id \in Ids /\ task[m].id \notin deletion[d].ids
    BY <1>5, <2>1 DEF DeletesWhole, EngineInv, Ownership, GroupedFresh
  <2> QED
    BY <2>1, <2>2 DEF CaseRead
<1> QED
  BY <1>1, <1>2, <1>3, <1>4, <1>5, Kinds

LEMMA CommitCases ==
    ASSUME EngineInv, CountRead, CaseRead, NoComments, CaseOpenedOnce,
           NEW m \in Messages, NEW fp \in Scores, NEW e \in RuleSeverities,
           Commit(m, fp, e)
    PROVE  NoComments' /\ CaseOpenedOnce'
<1> DEFINE t == task[m]
           severity == SoftCap(HigherSeverity(t.row.severity, e), fp)
           opens == BandOpensCase(t.row.hasCase, severity, fp, FpThreshold)
<1>1. /\ task[m].id \in Ids /\ task[m].pc = "written" /\ task[m].row \in IncidentRow
  BY DEF Commit, EngineInv, TypeOK, TaskType, Ownership, GroupedFresh, InGrouping
<1>2. PICK i \in Ids : i = task[m].id
  BY <1>1
<1>3. /\ inc \in [Ids -> IncidentRow] /\ comments \in [Ids -> Nat] /\ live \subseteq Ids
  BY DEF EngineInv, TypeOK
<1>4. live' = live \cup {i}
  BY <1>2 DEF Commit
<1>5. \A j \in Ids : inc'[j].hasCase = IF j = i THEN opens \/ (~t.created /\ inc[i].hasCase)
                                                ELSE inc[j].hasCase
  BY <1>1, <1>2, <1>3 DEF Commit, IncidentRow
<1>6. \A j \in Ids : comments'[j] = IF j = i /\ opens THEN comments[j] + 1 ELSE comments[j]
  BY <1>2, <1>3 DEF Commit
<1>7. opens => ~t.row.hasCase
  BY DEF BandOpensCase
<1>8. t.row.hasCase = IF t.created THEN FALSE ELSE inc[i].hasCase
  BY <1>1, <1>2 DEF CaseRead, InGrouping
<1>9. IF t.created THEN i \notin live ELSE i \in live
  BY <1>1, <1>2 DEF CountRead
<1>10. opens \in BOOLEAN /\ inc[i].hasCase \in BOOLEAN /\ t.created \in BOOLEAN
  BY <1>3 DEF BandOpensCase, IncidentRow, EngineInv, TypeOK, TaskType
<1> HIDE DEF opens, severity, t
<1>11. comments'[i] = IF inc'[i].hasCase THEN 1 ELSE 0
  <2>1. CASE t.created
    <3>1. comments[i] = 0
      BY <1>9, <2>1 DEF NoComments
    <3>2. inc'[i].hasCase = opens
      BY <1>5, <1>10, <2>1
    <3>3. comments'[i] = IF opens THEN 1 ELSE 0
      BY <1>6, <3>1
    <3> QED
      BY <3>2, <3>3
  <2>2. CASE ~t.created
    <3>1. comments[i] = IF inc[i].hasCase THEN 1 ELSE 0
      BY <1>9, <2>2 DEF CaseOpenedOnce
    <3>2. opens => ~inc[i].hasCase
      BY <1>7, <1>8, <2>2
    <3> QED
      BY <1>5, <1>6, <1>10, <2>2, <3>1, <3>2
  <2> QED
    BY <2>1, <2>2
<1>12. NoComments'
  BY <1>4, <1>6 DEF NoComments
<1>13. ASSUME NEW j \in live'
       PROVE  comments'[j] = IF inc'[j].hasCase THEN 1 ELSE 0
  <2>1. CASE j = i
    BY <1>11, <2>1
  <2>2. CASE j # i
    <3>1. j \in live /\ j \in Ids
      BY <1>3, <1>4, <2>2
    <3>2. comments[j] = IF inc[j].hasCase THEN 1 ELSE 0
      BY <3>1 DEF CaseOpenedOnce
    <3> QED
      BY <1>5, <1>6, <2>2, <3>1, <3>2
  <2> QED
    BY <2>1, <2>2
<1> QED
  BY <1>12, <1>13 DEF CaseOpenedOnce

LEMMA CaseStep ==
    ASSUME DeletesWhole, Patchers = {}, CaseOpeners = {}, CaseInv, [Next]_vars
    PROVE  CaseInv'
<1>1. EngineInv /\ CountRead /\ CaseRead /\ NoComments /\ CaseOpenedOnce
  BY DEF CaseInv
<1>2. EngineInv' /\ CountRead' /\ CaseRead'
  BY <1>1, EngineStep, CountReadStep, CaseReadStep
<1>3. CASE /\ UNCHANGED <<live, comments>>
           /\ \A i \in Ids : inc'[i].hasCase = inc[i].hasCase
  <2>1. live \subseteq Ids
    BY <1>1 DEF EngineInv, TypeOK
  <2> QED
    BY <1>1, <1>2, <1>3, <2>1 DEF CaseInv, NoComments, CaseOpenedOnce
<1>4. CASE TablesRest
  BY <1>3, <1>4 DEF TablesRest, tables
<1>5. CASE RowsUpdated
  BY <1>3, <1>5 DEF RowsUpdated
<1>6. ASSUME NEW m \in Messages, GroupingStep(m)
      PROVE  CaseInv'
  BY <1>1, <1>3, <1>6, GroupingTasks DEF tables
<1>7. ASSUME NEW m \in Messages, CommitStepOf(m)
      PROVE  CaseInv'
  BY <1>1, <1>2, <1>7, CommitCases DEF CommitStepOf, CaseInv
<1>8. ASSUME NEW d \in Deleters, DeleteIncidents(d)
      PROVE  CaseInv'
  <2>1. live' = live \ deletion[d].ids /\ live \subseteq Ids
    BY <1>1, <1>8 DEF DeleteIncidents, EngineInv, TypeOK
  <2>2. \A i \in Ids : IF i \in deletion[d].ids THEN comments'[i] = 0
                       ELSE comments'[i] = comments[i] /\ inc'[i] = inc[i]
    BY <1>8 DEF DeleteIncidents
  <2>3. NoComments' /\ CaseOpenedOnce'
    BY <1>1, <2>1, <2>2 DEF NoComments, CaseOpenedOnce
  <2> QED
    BY <1>2, <2>3 DEF CaseInv
<1> QED
  BY <1>1, <1>4, <1>5, <1>6, <1>7, <1>8, Kinds

LEMMA CaseInit == Init => CaseInv
  BY EngineInit DEF Init, CaseInv, CountRead, CaseRead, NoComments, CaseOpenedOnce,
                    NewTask, InGrouping

(* The engine opens the case of an incident once and says so once, however *)
(* its tasks race with transitions and sweeps (GroupMatch, MergeFlush,     *)
(* Commit): only PATCH, open_case of the other process, and deletes that   *)
(* free a number, can break it.                                            *)
THEOREM EngineOpensOnce ==
    ASSUME Deleters = {}, Patchers = {}, CaseOpeners = {}
    PROVE  Spec => []CaseOpenedOnce
<1>1. Init => CaseInv
  BY CaseInit
<1>2. CaseInv /\ [Next]_vars => CaseInv'
  BY CaseStep DEF DeletesWhole
<1>3. CaseInv => CaseOpenedOnce
  BY DEF CaseInv
<1> QED
  BY <1>1, <1>2, <1>3, PTL DEF Spec

-----------------------------------------------------------------------------
(* Joining a settled incident.                                             *)

(* A merge under way has chosen incident i.                                *)
Incoming(i) ==
    \E m \in Messages : task[m].pc \in InGrouping /\ ~task[m].created /\ task[m].id = i

(* The incident a merge has chosen was active then, and no other alert     *)
(* joins it before: late joins are counted from the merge itself.          *)
LateInv ==
    /\ late \in [Ids -> Nat]
    /\ \A m \in Messages :
          task[m].pc \in InGrouping /\ task[m].created => task[m].id \notin live
    /\ \A i \in live : inc[i].status \in ActiveStatuses \/ Incoming(i) => late[i] = 0
    /\ OneLateJoin

(* Alerts join incidents only by a commit, one at a time.                  *)
LEMMA JoinsCounted ==
    ASSUME EngineInv, [Next]_vars, NEW i \in Ids
    PROVE  \/ Joining(i) = {}
           \/ \E m \in Messages : /\ CommitStepOf(m)
                                  /\ task[m].id = i
                                  /\ Joining(i) \subseteq {m}
<1>1. link \in [Messages -> Ids \cup {NoInc}] /\ i # NoInc
  BY DEF EngineInv, TypeOK, Ids, NoInc
<1>2. CASE link' = link
  BY <1>2 DEF Joining
<1>3. ASSUME NEW m \in Messages, CommitStepOf(m)
      PROVE  Joining(i) = {} \/ (task[m].id = i /\ Joining(i) \subseteq {m})
  <2>1. link' = [link EXCEPT ![m] = task[m].id]
    BY <1>3 DEF CommitStepOf, Commit
  <2> QED
    BY <1>1, <2>1 DEF Joining
<1>4. ASSUME NEW d \in Deleters, DeleteIncidents(d)
      PROVE  Joining(i) = {}
  <2>1. link' = [m \in Messages |-> IF m \in deletion[d].doomed THEN NoInc ELSE link[m]]
    BY <1>4 DEF DeleteIncidents
  <2> QED
    BY <1>1, <2>1 DEF Joining
<1> QED
  BY <1>2, <1>3, <1>4, Kinds, GroupingTasks DEF TablesRest, RowsUpdated, tables

LEMMA JoinsAtMostOne ==
    ASSUME EngineInv, [Next]_vars, NEW i \in Ids
    PROVE  Cardinality(Joining(i)) \in {0, 1} /\ (Joining(i) = {} => Cardinality(Joining(i)) = 0)
<1>1. CASE Joining(i) = {}
  BY <1>1, FS_EmptySet
<1>2. CASE Joining(i) # {}
  <2>1. PICK m \in Messages : Joining(i) \subseteq {m}
    BY <1>2, JoinsCounted
  <2>2. Joining(i) = {m}
    BY <1>2, <2>1
  <2> QED
    BY <1>2, <2>2, FS_Singleton
<1> QED
  BY <1>1, <1>2

(* What a step leaves of the tasks being grouped.                          *)
LEMMA LateGrouping ==
    ASSUME EngineInv, LateInv, [Next]_vars, NEW m \in Messages, task'[m].pc \in InGrouping
    PROVE  /\ task'[m].created => task'[m].id \notin live'
           /\ live' \subseteq live
           /\ \A i \in Ids : Joining(i) = {}
           /\ ~task'[m].created =>
                 \/ task'[m].id \in live /\ inc'[task'[m].id].status \in ActiveStatuses
                 \/ Incoming(task'[m].id)
<1>1. ASSUME NEW n \in Messages, CommitStepOf(n)
      PROVE  FALSE
  BY <1>1, CommitTasks
<1>2. \A i \in Ids : Joining(i) = {}
  BY <1>1, JoinsCounted
<1>3. ASSUME task'[m] = task[m], live' \subseteq live
      PROVE  /\ task'[m].created => task'[m].id \notin live'
             /\ ~task'[m].created => Incoming(task'[m].id)
  BY <1>3 DEF LateInv, Incoming
<1>4. CASE TablesRest
  BY <1>2, <1>3, <1>4 DEF TablesRest, tables
<1>5. CASE RowsUpdated
  BY <1>2, <1>3, <1>5 DEF RowsUpdated
<1>6. ASSUME NEW n \in Messages, GroupingStep(n)
      PROVE  /\ task'[m].created => task'[m].id \notin live'
             /\ live' \subseteq live
             /\ ~task'[m].created =>
                   \/ task'[m].id \in live /\ inc'[task'[m].id].status \in ActiveStatuses
                   \/ Incoming(task'[m].id)
  <2>1. n = m /\ live' = live /\ inc' = inc
    BY <1>6, GroupingTasks DEF tables
  <2>2. CASE GroupMatch(m)
    BY <2>1, <2>2, MatchReads DEF Eligible
  <2>3. CASE GroupCreate(m)
    BY <2>1, <2>3, CreateReads
  <2>4. CASE MergeFlush(m)
    <3>1. task[m].pc \in InGrouping
      BY <2>4 DEF MergeFlush, InGrouping
    <3> QED
      BY <2>1, <2>4, <3>1, FlushReads DEF LateInv, Incoming
  <2> QED
    BY <1>6, <2>1, <2>2, <2>3, <2>4 DEF GroupingStep
<1>7. ASSUME NEW d \in Deleters, DeleteIncidents(d)
      PROVE  task'[m] = task[m] /\ live' \subseteq live
  BY <1>7 DEF DeleteIncidents
<1> QED
  BY <1>1, <1>2, <1>3, <1>4, <1>5, <1>6, <1>7, Kinds

LEMMA LateStep ==
    ASSUME EngineInv, LateInv, LateNext
    PROVE  LateInv'
<1>1. [Next]_vars
  BY DEF LateNext
<1>2. /\ EngineInv' /\ live \subseteq Ids /\ live' \subseteq Ids
      /\ late \in [Ids -> Nat]
  BY <1>1, EngineStep DEF EngineInv, TypeOK, LateInv
<1>3. late' = [i \in Ids |->
          IF i \notin live' \/ inc'[i].status \in ActiveStatuses THEN 0
          ELSE IF i \in live /\ inc[i].status \notin ActiveStatuses
               THEN late[i] + Cardinality(Joining(i))
               ELSE 0]
  BY DEF LateNext, SettledIn
<1>4. late' \in [Ids -> Nat]
  <2>1. \A i \in Ids : Cardinality(Joining(i)) \in Nat
    BY <1>1, JoinsAtMostOne
  <2> QED
    BY <1>2, <1>3, <2>1
<1>5. \A m \in Messages :
        task'[m].pc \in InGrouping /\ task'[m].created => task'[m].id \notin live'
  BY <1>1, LateGrouping
<1>6. ASSUME NEW i \in live', inc'[i].status \in ActiveStatuses \/ Incoming(i)'
      PROVE  late'[i] = 0
  <2>1. CASE inc'[i].status \in ActiveStatuses
    BY <1>2, <1>3, <2>1
  <2>2. CASE inc'[i].status \notin ActiveStatuses
    <3>1. PICK m \in Messages : task'[m].pc \in InGrouping /\ ~task'[m].created /\ task'[m].id = i
      BY <1>6, <2>2 DEF Incoming
    <3>2. i \in Ids /\ i \in live /\ Joining(i) = {} /\ Incoming(i)
      BY <1>1, <1>2, <2>2, <3>1, LateGrouping
    <3>3. late[i] = 0 /\ Cardinality(Joining(i)) = 0
      BY <1>1, <3>2, JoinsAtMostOne DEF LateInv
    <3>4. late'[i] \in {0, late[i] + Cardinality(Joining(i))}
      BY <1>3, <3>2
    <3> QED
      BY <3>3, <3>4
  <2> QED
    BY <2>1, <2>2
<1>7. ASSUME NEW i \in live'
      PROVE  late'[i] <= 1
  <2>1. i \in Ids
    BY <1>2
  <2>2. CASE i \notin live \/ inc'[i].status \in ActiveStatuses \/ inc[i].status \in ActiveStatuses
    BY <1>3, <2>1, <2>2
  <2>3. CASE i \in live /\ Joining(i) = {}
    <3>1. late[i] <= 1 /\ late[i] \in Nat /\ Cardinality(Joining(i)) = 0
      BY <1>1, <1>2, <2>1, <2>3, JoinsAtMostOne DEF LateInv, OneLateJoin
    <3>2. late'[i] \in {0, late[i]}
      BY <1>3, <2>1, <3>1
    <3> QED
      BY <3>1, <3>2
  <2>4. CASE i \in live /\ Joining(i) # {}
    <3>1. PICK m \in Messages : CommitStepOf(m) /\ task[m].id = i
      BY <1>1, <2>1, <2>4, JoinsCounted
    <3>2. task[m].pc \in InGrouping
      BY <3>1 DEF CommitStepOf, Commit, InGrouping
    <3>3. Incoming(i)
      BY <2>4, <3>1, <3>2 DEF Incoming, LateInv
    <3>4. late[i] = 0 /\ Cardinality(Joining(i)) \in {0, 1}
      BY <1>1, <2>1, <2>4, <3>3, JoinsAtMostOne DEF LateInv
    <3>5. late'[i] \in {0, late[i] + Cardinality(Joining(i))}
      BY <1>3, <2>1
    <3> QED
      BY <3>4, <3>5
  <2> QED
    BY <2>2, <2>3, <2>4
<1> QED
  BY <1>4, <1>5, <1>6, <1>7 DEF LateInv, OneLateJoin

(* Whatever analysts, patches and bulk updates settle while alerts are     *)
(* grouped, at most one alert joins an incident after it was settled: the  *)
(* one that had selected it (GroupMatch), and it blocks the others until   *)
(* its Commit.                                                             *)
THEOREM OneAlertJoinsLate == LateSpec => []OneLateJoin
<1>1. LateInit => EngineInv /\ LateInv
  <2> SUFFICES ASSUME LateInit PROVE EngineInv /\ LateInv
    OBVIOUS
  <2>1. /\ EngineInv /\ live = {} /\ late = [i \in Ids |-> 0]
        /\ \A m \in Messages : task[m].pc \notin InGrouping
    BY EngineInit DEF LateInit, Init, NewTask, InGrouping
  <2> QED
    BY <2>1 DEF LateInv, OneLateJoin
<1>2. EngineInv /\ LateInv /\ [LateNext]_<<vars, late>> => (EngineInv /\ LateInv)'
  <2>1. CASE LateNext
    BY <2>1, EngineStep, LateStep DEF LateNext
  <2>2. CASE UNCHANGED <<vars, late>>
    <3>1. [Next]_vars
      BY <2>2
    <3> QED
      BY <2>2, <3>1, EngineStep DEF LateInv, OneLateJoin, Incoming, vars, tables
  <2> QED
    BY <2>1, <2>2
<1>3. LateInv => OneLateJoin
  BY DEF LateInv
<1> QED
  BY <1>1, <1>2, <1>3, PTL DEF LateSpec

-----------------------------------------------------------------------------
(* The archiver.                                                           *)

OneArchiver == \A d, e \in Archivers : d = e

(* The one merge under way and the sweeps that write "false_positive" may  *)
(* move a row out of the statuses the archiver deletes.                    *)
TaskReopens(i) == \E m \in Messages : task[m].pc \in InGrouping /\ task[m].id = i
SweepReopens(i) ==
    \E w \in Sweepers : /\ sweep[w].pc = "writing" /\ sweep[w].to = "false_positive"
                        /\ sweep[w].from[i] # "none"
Reopens(i) == TaskReopens(i) \/ SweepReopens(i)

ArchivedStatuses == {"closed", "resolved"}

(* The incident of a merge is there, that of a creation is not, and the    *)
(* row it publishes is young.                                              *)
GroupedLive ==
    \A m \in Messages :
        LET t == task[m]
        IN t.pc \in InGrouping => /\ t.id \in live <=> ~t.created
                                  /\ t.pc = "written" => t.row.age = 0

(* A row somebody reopens is not old and settled.                          *)
Young == \A i \in live : Reopens(i) => inc[i].status \notin ArchivedStatuses \/ inc[i].age < 2

(* What the archiver selected stays as it was.                             *)
Selected ==
    \A d \in Archivers : \A i \in deletion[d].ids :
        i \in live /\ inc[i].status \in ArchivedStatuses /\ ~Reopens(i)

Doomed ==
    \A d \in Archivers :
        deletion[d].pc = "alerts" =>
            deletion[d].doomed = {m \in Messages : link[m] \in deletion[d].ids}

ArchiveInv == EngineInv /\ GroupedLive /\ Young /\ Selected /\ Doomed /\ NoOrphanAlerts

(* Nothing more is reopened.                                               *)
ReopensLess == \A i \in Ids : Reopens(i)' => Reopens(i)

(* Tasks that only end, or move before they group.                         *)
LEMMA TasksReopenLess ==
    ASSUME \A m \in Messages : task'[m].pc \in InGrouping => task'[m] = task[m]
    PROVE  \A i \in Ids : TaskReopens(i)' => TaskReopens(i)
  BY DEF TaskReopens

(* Requests that were under way, or ended, or have read nothing yet.       *)
LEMMA SweepsReopenLess ==
    ASSUME \A w \in Sweepers :
              \/ sweep'[w].pc = sweep[w].pc /\ sweep'[w].to = sweep[w].to
                 /\ sweep'[w].from = sweep[w].from
              \/ sweep'[w].pc = "idle" \/ sweep'[w].to = "closed"
              \/ \A i \in Ids : sweep'[w].from[i] = "none"
    PROVE  \A i \in Ids : SweepReopens(i)' => SweepReopens(i)
  BY DEF SweepReopens

(* Steps that leave the tables alone.                                      *)
LEMMA ArchiveRests ==
    ASSUME ArchiveInv, EngineInv', TablesRest, ReopensLess,
           \A d \in Archivers : deletion'[d] = deletion[d] \/ deletion'[d] = IdleDeletion
    PROVE  ArchiveInv'
<1>1. /\ GroupedLive /\ Young /\ Selected /\ Doomed /\ NoOrphanAlerts
      /\ live \subseteq Ids /\ deletion \in [Deleters -> [pc: {"idle", "selected", "alerts"},
                                             ids: SUBSET Ids, doomed: SUBSET Messages]]
  BY DEF ArchiveInv, EngineInv, TypeOK
<1>2. UNCHANGED <<link, live, inc>>
  BY DEF TablesRest, tables
<1>3. GroupedLive'
  BY <1>1, <1>2 DEF TablesRest, GroupedLive
<1>4. Young'
  BY <1>1, <1>2 DEF Young, ReopensLess
<1>5. Selected'
  BY <1>1, <1>2 DEF Selected, ReopensLess, IdleDeletion
<1>6. Doomed'
  BY <1>1, <1>2 DEF Doomed, IdleDeletion
<1>7. NoOrphanAlerts'
  BY <1>1, <1>2 DEF NoOrphanAlerts
<1> QED
  BY <1>3, <1>4, <1>5, <1>6, <1>7 DEF ArchiveInv

(* Steps of a row's own columns: what is settled stays so.                 *)
LEMMA ArchiveRows ==
    ASSUME ArchiveInv, EngineInv', UNCHANGED <<task, link, live, deletion>>, ReopensLess,
           \A i \in live : inc[i].status \in ArchivedStatuses /\ ~Reopens(i) =>
              inc'[i].status \in ArchivedStatuses,
           \A i \in live : Reopens(i) =>
              inc'[i].age = 0 \/ (inc'[i].age = inc[i].age /\ inc'[i].status = inc[i].status)
    PROVE  ArchiveInv'
<1>1. /\ GroupedLive /\ Young /\ Selected /\ Doomed /\ NoOrphanAlerts
      /\ live \subseteq Ids
  BY DEF ArchiveInv, EngineInv, TypeOK
<1>2. GroupedLive'
  BY <1>1 DEF GroupedLive
<1>3. Young'
  BY <1>1 DEF Young, ReopensLess
<1>4. Selected'
  BY <1>1 DEF Selected, ReopensLess
<1>5. Doomed' /\ NoOrphanAlerts'
  BY <1>1 DEF Doomed, NoOrphanAlerts
<1> QED
  BY <1>2, <1>3, <1>4, <1>5 DEF ArchiveInv

(* Grouping takes up active incidents only, and those are not selected.    *)
LEMMA ArchiveGrouping ==
    ASSUME ArchiveInv, EngineInv', NEW m \in Messages, GroupingStep(m)
    PROVE  ArchiveInv'
<1>1. /\ GroupedLive /\ Young /\ Selected /\ Doomed /\ NoOrphanAlerts /\ EngineInv
      /\ live \subseteq Ids
  BY DEF ArchiveInv, EngineInv, TypeOK
<1>2. /\ UNCHANGED tables /\ UNCHANGED <<sweep, deletion>>
      /\ \A n \in Messages : task'[n].pc \in InGrouping => n = m
  BY <1>1, GroupingTasks DEF GroupingStep, GroupMatch, GroupCreate, MergeFlush, requests
<1>3. \A i \in Ids : SweepReopens(i)' <=> SweepReopens(i)
  BY <1>2 DEF SweepReopens
<1>4. /\ task'[m].pc = "written" => task'[m].row.age = 0
      /\ task'[m].id \in live <=> ~task'[m].created
  <2>1. CASE GroupMatch(m)
    BY <1>1, <2>1, MatchReads
  <2>2. CASE GroupCreate(m)
    <3>1. CreatedRow(m).age = 0
      BY DEF CreatedRow
    <3> QED
      BY <1>1, <2>2, <3>1, CreateReads
  <2>3. CASE MergeFlush(m)
    <3>1. task[m].pc \in InGrouping /\ task[m].row \in IncidentRow
      BY <1>1, <2>3 DEF MergeFlush, InGrouping, EngineInv, TypeOK, TaskType
    <3>2. MergedRow(m, task[m].row).age = 0
      BY <3>1 DEF MergedRow, IncidentRow
    <3> QED
      BY <1>1, <2>3, <3>1, <3>2, FlushReads DEF GroupedLive
  <2> QED
    BY <2>1, <2>2, <2>3 DEF GroupingStep
<1>5. GroupedLive'
  BY <1>2, <1>4 DEF GroupedLive, tables
<1>6. \A i \in live : TaskReopens(i)' =>
         TaskReopens(i) \/ inc[i].status \notin ArchivedStatuses
  <2> SUFFICES ASSUME NEW i \in live, TaskReopens(i)'
               PROVE  TaskReopens(i) \/ inc[i].status \notin ArchivedStatuses
    OBVIOUS
  <2>1. task'[m].id = i
    BY <1>2 DEF TaskReopens
  <2>2. CASE GroupMatch(m)
    BY <1>1, <2>1, <2>2, MatchReads DEF Eligible, ActiveStatuses, ArchivedStatuses
  <2>3. CASE GroupCreate(m)
    BY <1>1, <2>1, <2>3, CreateReads
  <2>4. CASE MergeFlush(m)
    BY <1>1, <2>1, <2>4, FlushReads DEF MergeFlush, TaskReopens, InGrouping
  <2> QED
    BY <2>2, <2>3, <2>4 DEF GroupingStep
<1>7. Young'
  BY <1>1, <1>2, <1>3, <1>6 DEF Young, Reopens, tables
<1>8. Selected'
  BY <1>1, <1>2, <1>3, <1>6 DEF Selected, Reopens, tables
<1>9. Doomed' /\ NoOrphanAlerts'
  BY <1>1, <1>2 DEF Doomed, NoOrphanAlerts, tables
<1> QED
  BY <1>5, <1>7, <1>8, <1>9 DEF ArchiveInv

(* A commit writes a row that is young, and none that is selected.         *)
LEMMA ArchiveCommit ==
    ASSUME ArchiveInv, EngineInv', NEW m \in Messages, CommitStepOf(m)
    PROVE  ArchiveInv'
<1> DEFINE i == task[m].id
<1>1. /\ GroupedLive /\ Young /\ Selected /\ Doomed /\ NoOrphanAlerts /\ EngineInv
      /\ live \subseteq Ids /\ inc \in [Ids -> IncidentRow]
      /\ link \in [Messages -> Ids \cup {NoInc}]
  BY DEF ArchiveInv, EngineInv, TypeOK
<1>2. task[m].pc = "written" /\ task[m].pc \in InGrouping /\ i \in Ids
      /\ task[m].row \in IncidentRow
  BY <1>1 DEF CommitStepOf, Commit, InGrouping, EngineInv, Ownership, GroupedFresh, TypeOK, TaskType
<1>3. /\ live' = live \cup {i} /\ link' = [link EXCEPT ![m] = i]
      /\ UNCHANGED <<sweep, deletion>>
      /\ \A j \in Ids : j # i => inc'[j] = inc[j]
      /\ inc'[i].age = task[m].row.age
  <2>1. PICK fp \in Scores, e \in RuleSeverities : Commit(m, fp, e)
    BY DEF CommitStepOf
  <2>2. inc'[i].age = task[m].row.age
    BY <1>1, <1>2, <2>1 DEF Commit, IncidentRow
  <2> QED
    BY <1>1, <1>2, <2>1, <2>2 DEF Commit, requests
<1>4. inc'[i].age = 0
  BY <1>1, <1>2, <1>3 DEF GroupedLive
<1>5. \A n \in Messages : task'[n].pc \notin InGrouping
  BY <1>1, CommitTasks
<1>6. ReopensLess
  BY <1>3, <1>5 DEF ReopensLess, Reopens, TaskReopens, SweepReopens
<1>7. \A d \in Archivers : i \notin deletion[d].ids
  BY <1>1, <1>2 DEF Selected, Reopens, TaskReopens
<1>8. GroupedLive'
  BY <1>5 DEF GroupedLive
<1>9. Young'
  BY <1>1, <1>2, <1>3, <1>4, <1>6 DEF Young, ReopensLess
<1>10. Selected'
  BY <1>1, <1>3, <1>6, <1>7 DEF Selected, ReopensLess
<1>11. Doomed'
  <2>1. link[m] = NoInc
    BY <1>1, <1>2 DEF EngineInv, Ownership, GroupedFresh, SameEvent
  <2>2. \A d \in Archivers : \A n \in Messages :
           link'[n] \in deletion[d].ids <=> link[n] \in deletion[d].ids
    <3>1. \A d \in Archivers : NoInc \notin deletion[d].ids
      BY <1>1 DEF Selected, Ids, NoInc
    <3> QED
      BY <1>1, <1>3, <1>7, <2>1, <3>1
  <2> QED
    BY <1>1, <1>3, <2>2 DEF Doomed
<1>12. NoOrphanAlerts'
  BY <1>1, <1>3 DEF NoOrphanAlerts
<1> QED
  BY <1>8, <1>9, <1>10, <1>11, <1>12 DEF ArchiveInv

(* Sweeps.  A bulk request reads the status of a row that is not settled.  *)
LEMMA ArchiveBulkRead ==
    ASSUME ArchiveInv, EngineInv', NEW w \in Sweepers, BulkRead(w)
    PROVE  ArchiveInv'
<1> DEFINE i == Head(sweep[w].todo)
<1>1. /\ GroupedLive /\ Young /\ Selected /\ Doomed /\ NoOrphanAlerts /\ EngineInv
      /\ live \subseteq Ids
  BY DEF ArchiveInv, EngineInv, TypeOK
<1>2. UNCHANGED <<task, link, live, inc, deletion>>
  BY DEF BulkRead, tables
<1>3. \A j \in Ids : SweepReopens(j)' =>
         \/ SweepReopens(j)
         \/ j = i /\ inc[i].status \notin ArchivedStatuses
  <2>1. /\ \A v \in Sweepers : v # w => sweep'[v] = sweep[v]
        /\ sweep'[w].pc = sweep[w].pc /\ sweep'[w].to = sweep[w].to
        /\ \A j \in Ids : \/ sweep'[w].from[j] = sweep[w].from[j]
                          \/ j = i /\ inc[i].status \notin ArchivedStatuses
    <3>1. /\ sweep \in [Sweepers -> [pc: {"idle", "writing"},
                           kind: {"none", "batch_close", "fp_auto_close", "bulk_fp"},
                           todo: Seq(Ids), to: {"closed", "false_positive"},
                           from: [Ids -> Statuses \cup {"none"}]]]
      BY <1>1 DEF EngineInv, TypeOK
    <3>2. CASE i \in live /\ inc[i].status \notin {"resolved", "false_positive", "closed"}
      <4>1. sweep' = [sweep EXCEPT ![w] = [sweep[w] EXCEPT !.from[i] = inc[i].status]]
        BY <3>2 DEF BulkRead
      <4> QED
        BY <3>1, <3>2, <4>1 DEF ArchivedStatuses
    <3>3. CASE ~(i \in live /\ inc[i].status \notin {"resolved", "false_positive", "closed"})
      <4>1. sweep' = [sweep EXCEPT ![w] = [sweep[w] EXCEPT !.todo = Tail(sweep[w].todo)]]
        BY <3>3 DEF BulkRead
      <4> QED
        BY <3>1, <4>1
    <3> QED
      BY <3>2, <3>3
  <2> QED
    BY <2>1 DEF SweepReopens
<1>4. \A j \in live : Reopens(j)' => Reopens(j) \/ inc[j].status \notin ArchivedStatuses
  BY <1>1, <1>2, <1>3 DEF Reopens, TaskReopens
<1>5. GroupedLive' /\ Doomed' /\ NoOrphanAlerts'
  BY <1>1, <1>2 DEF GroupedLive, Doomed, NoOrphanAlerts
<1>6. Young'
  BY <1>1, <1>2, <1>4 DEF Young
<1>7. Selected'
  BY <1>1, <1>2, <1>4 DEF Selected
<1> QED
  BY <1>5, <1>6, <1>7 DEF ArchiveInv

(* A sweep that ends moves settled rows only to a settled status.          *)
LEMMA ArchiveSweepCommit ==
    ASSUME ArchiveInv, EngineInv', NEW w \in Sweepers, SweepCommit(w)
    PROVE  ArchiveInv'
<1>1. /\ EngineInv /\ inc \in [Ids -> IncidentRow] /\ live \subseteq Ids
      /\ sweep[w].to \in {"closed", "false_positive"}
  BY DEF ArchiveInv, EngineInv, TypeOK
<1>2. UNCHANGED <<task, link, live, deletion>>
  BY DEF SweepCommit
<1>3. \A i \in Ids : IF rowLock[i] = w
                     THEN inc'[i].status = sweep[w].to /\ inc'[i].age = 0
                     ELSE inc'[i] = inc[i]
  BY <1>1 DEF SweepCommit, IncidentRow
<1>4. ASSUME NEW i \in Ids, rowLock[i] = w, sweep[w].to = "false_positive"
      PROVE  SweepReopens(i)
  BY <1>1, <1>4 DEF SweepReopens, EngineInv, Ownership, SweepsRead, SweepCommit
<1>5. ReopensLess
  <2>1. \A v \in Sweepers : sweep'[v] = sweep[v] \/ sweep'[v].pc = "idle"
    BY <1>1 DEF SweepCommit, IdleSweep, EngineInv, TypeOK
  <2> QED
    BY <1>2, <2>1, SweepsReopenLess, TasksReopenLess DEF ReopensLess, Reopens
<1>6. \A i \in live : inc[i].status \in ArchivedStatuses /\ ~Reopens(i) =>
         inc'[i].status \in ArchivedStatuses
  BY <1>1, <1>3, <1>4 DEF Reopens, ArchivedStatuses
<1>7. \A i \in live : inc'[i].age = 0 \/ inc'[i] = inc[i]
  BY <1>1, <1>3
<1> QED
  BY <1>2, <1>5, <1>6, <1>7, ArchiveRows

(* A sweep that begins, takes a lock or aborts reopens nothing more.       *)
LEMMA ArchiveSweepRests ==
    ASSUME ArchiveInv, EngineInv', NEW w \in Sweepers,
           SweepBegin(w) \/ SweepFlush(w) \/ SweepAbort(w)
    PROVE  ArchiveInv'
<1>1. EngineInv
  BY DEF ArchiveInv
<1>2. TablesRest
  BY <1>1, SweepRests
<1>3. UNCHANGED <<task, deletion>> /\ \A v \in Sweepers : v # w => sweep'[v] = sweep[v]
  <2>1. UNCHANGED <<task, deletion>>
    BY DEF SweepBegin, SweepSelect, BulkRequest, SweepFlush, SweepAbort
  <2>2. sweep' = [sweep EXCEPT ![w] = sweep'[w]]
    <3>1. sweep \in [Sweepers -> [pc: {"idle", "writing"},
                        kind: {"none", "batch_close", "fp_auto_close", "bulk_fp"},
                        todo: Seq(Ids), to: {"closed", "false_positive"},
                        from: [Ids -> Statuses \cup {"none"}]]]
      BY <1>1 DEF EngineInv, TypeOK
    <3>2. ASSUME NEW kind \in {"batch_close", "fp_auto_close"}, SweepSelect(w, kind)
          PROVE  sweep' = [sweep EXCEPT ![w] = sweep'[w]]
      BY <3>1, <3>2 DEF SweepSelect
    <3>3. ASSUME NEW wanted \in SUBSET live, BulkRequest(w, wanted)
          PROVE  sweep' = [sweep EXCEPT ![w] = sweep'[w]]
      BY <3>1, <3>3 DEF BulkRequest
    <3>4. CASE SweepFlush(w)
      BY <3>1, <3>4 DEF SweepFlush
    <3>5. CASE SweepAbort(w)
      BY <3>1, <3>5 DEF SweepAbort
    <3> QED
      BY <3>2, <3>3, <3>4, <3>5 DEF SweepBegin
  <2>3. DOMAIN sweep = Sweepers
    BY <1>1 DEF EngineInv, TypeOK
  <2> QED
    BY <2>1, <2>2, <2>3
<1>4. \/ sweep'[w].pc = sweep[w].pc /\ sweep'[w].to = sweep[w].to
         /\ sweep'[w].from = sweep[w].from
      \/ sweep'[w].pc = "idle" \/ sweep'[w].to = "closed"
      \/ \A i \in Ids : sweep'[w].from[i] = "none"
  <2>1. ASSUME NEW kind \in {"batch_close", "fp_auto_close"}, SweepSelect(w, kind)
        PROVE  sweep'[w].to = "closed"
    BY <1>1, <2>1 DEF SweepSelect, EngineInv, TypeOK
  <2>2. ASSUME NEW wanted \in SUBSET live, BulkRequest(w, wanted)
        PROVE  \A i \in Ids : sweep'[w].from[i] = "none"
    <3>1. PICK order \in Orders(wanted) :
             sweep' = [sweep EXCEPT ![w] = [IdleSweep EXCEPT !.pc = "writing", !.kind = "bulk_fp",
                                            !.todo = order, !.to = "false_positive"]]
      BY <2>2 DEF BulkRequest
    <3>2. sweep'[w].from = IdleSweep.from
      BY <1>1, <3>1 DEF EngineInv, TypeOK, IdleSweep
    <3> QED
      BY <3>2 DEF IdleSweep
  <2>3. CASE SweepFlush(w)
    BY <1>1, <2>3 DEF SweepFlush, EngineInv, TypeOK
  <2>4. CASE SweepAbort(w)
    BY <1>1, <2>4 DEF SweepAbort, IdleSweep, EngineInv, TypeOK
  <2> QED
    BY <2>1, <2>2, <2>3, <2>4 DEF SweepBegin
<1>5. ReopensLess
  BY <1>3, <1>4, SweepsReopenLess, TasksReopenLess DEF ReopensLess, Reopens
<1> QED
  BY <1>2, <1>3, <1>5, ArchiveRests

(* The archiver selects what nobody reopens: it is too old for that.       *)
LEMMA ArchiveSelects ==
    ASSUME ArchiveInv, EngineInv', NEW d \in Archivers, ArchiveSelect(d)
    PROVE  ArchiveInv'
<1> DEFINE ids == {i \in live : inc[i].status \in {"closed", "resolved"} /\ inc[i].age = 2}
<1>1. /\ GroupedLive /\ Young /\ Selected /\ Doomed /\ NoOrphanAlerts /\ EngineInv
      /\ d \in Deleters
  BY DEF ArchiveInv, Deleters
<1>2. /\ UNCHANGED <<task, link, live, inc, sweep>>
      /\ \A e \in Archivers : e # d => deletion'[e] = deletion[e]
      /\ deletion'[d] = [pc |-> "selected", ids |-> ids, doomed |-> {}]
  BY <1>1 DEF ArchiveSelect, DeleteSelect, tables, EngineInv, TypeOK
<1>3. \A i \in Ids : Reopens(i)' <=> Reopens(i)
  BY <1>2 DEF Reopens, TaskReopens, SweepReopens
<1>4. \A i \in ids : inc[i].status \in ArchivedStatuses /\ ~Reopens(i)
  BY <1>1 DEF Young, ArchivedStatuses
<1>5. live \subseteq Ids
  BY <1>1 DEF EngineInv, TypeOK
<1>6. Selected'
  BY <1>1, <1>2, <1>3, <1>4, <1>5 DEF Selected
<1>7. Doomed'
  BY <1>1, <1>2 DEF Doomed
<1>8. Young'
  BY <1>1, <1>2, <1>3, <1>5 DEF Young
<1>9. GroupedLive' /\ NoOrphanAlerts'
  BY <1>1, <1>2 DEF GroupedLive, NoOrphanAlerts
<1> QED
  BY <1>6, <1>7, <1>8, <1>9 DEF ArchiveInv

(* The alerts of what is selected are what the delete takes.               *)
LEMMA ArchiveDeleteAlerts ==
    ASSUME ArchiveInv, EngineInv', NEW d \in Archivers, DeleteAlerts(d)
    PROVE  ArchiveInv'
<1>1. /\ GroupedLive /\ Young /\ Selected /\ Doomed /\ NoOrphanAlerts /\ EngineInv
      /\ d \in Deleters /\ live \subseteq Ids
  BY DEF ArchiveInv, Deleters, EngineInv, TypeOK
<1>2. /\ UNCHANGED <<task, link, live, inc, sweep>>
      /\ \A e \in Archivers : deletion'[e].ids = deletion[e].ids
      /\ \A e \in Archivers : e # d => deletion'[e] = deletion[e]
      /\ deletion'[d].doomed = {m \in Messages : link[m] \in deletion[d].ids}
  <2>1. deletion' = [deletion EXCEPT ![d] = [deletion[d] EXCEPT !.pc = "alerts",
                        !.doomed = {m \in Messages : link[m] \in deletion[d].ids}]]
    BY DEF DeleteAlerts
  <2>2. /\ d \in DOMAIN deletion /\ Archivers \subseteq DOMAIN deletion
        /\ deletion[d] \in [pc: {"idle", "selected", "alerts"}, ids: SUBSET Ids,
                             doomed: SUBSET Messages]
    BY <1>1 DEF EngineInv, TypeOK, Deleters
  <2>3. /\ \A e \in Archivers : e # d => deletion'[e] = deletion[e]
        /\ deletion'[d].ids = deletion[d].ids
        /\ deletion'[d].doomed = {m \in Messages : link[m] \in deletion[d].ids}
    BY <2>1, <2>2
  <2> QED
    BY <2>3 DEF DeleteAlerts, tables
<1>3. \A i \in Ids : Reopens(i)' <=> Reopens(i)
  BY <1>2 DEF Reopens, TaskReopens, SweepReopens
<1>4. Selected'
  BY <1>1, <1>2, <1>3 DEF Selected
<1>5. Doomed'
  BY <1>1, <1>2 DEF Doomed
<1>6. Young'
  BY <1>1, <1>2, <1>3 DEF Young
<1>7. GroupedLive' /\ NoOrphanAlerts'
  BY <1>1, <1>2 DEF GroupedLive, NoOrphanAlerts
<1> QED
  BY <1>4, <1>5, <1>6, <1>7 DEF ArchiveInv

(* The incidents go together with all their alerts, and no task is at one. *)
LEMMA ArchiveDeletes ==
    ASSUME OneArchiver, ArchiveInv, EngineInv', NEW d \in Archivers, DeleteIncidents(d)
    PROVE  ArchiveInv'
<1> DEFINE ids == deletion[d].ids
<1>1. /\ GroupedLive /\ Young /\ Selected /\ Doomed /\ NoOrphanAlerts /\ EngineInv
      /\ d \in Deleters /\ live \subseteq Ids
  BY DEF ArchiveInv, Deleters, EngineInv, TypeOK
<1>2. /\ UNCHANGED <<task, sweep>>
      /\ live' = live \ ids
      /\ \A i \in Ids : i \notin ids => inc'[i] = inc[i]
      /\ deletion'[d] = IdleDeletion
      /\ \A m \in Messages : link'[m] = IF link[m] \in ids THEN NoInc ELSE link[m]
  BY <1>1 DEF DeleteIncidents, Doomed, EngineInv, TypeOK
<1>3. \A i \in Ids : Reopens(i)' <=> Reopens(i)
  BY <1>2 DEF Reopens, TaskReopens, SweepReopens
<1>4. \A m \in Messages : task[m].pc \in InGrouping => task[m].id \notin ids
  BY <1>1 DEF Selected, Reopens, TaskReopens
<1>5. GroupedLive'
  BY <1>1, <1>2, <1>4 DEF GroupedLive
<1>6. Young'
  BY <1>1, <1>2, <1>3 DEF Young
<1>7. \A e \in Archivers : e = d
  BY DEF OneArchiver
<1>8. Selected' /\ Doomed'
  BY <1>2, <1>7 DEF Selected, Doomed, IdleDeletion
<1>9. NoOrphanAlerts'
  BY <1>1, <1>2 DEF NoOrphanAlerts
<1> QED
  BY <1>5, <1>6, <1>8, <1>9 DEF ArchiveInv

(* Every step but those of people keeps what the archiver selected.        *)
LEMMA ArchiveStep ==
    ASSUME Analysts = {}, Patchers = {}, Purgers = {}, OneArchiver, ArchiveInv, [Next]_vars
    PROVE  ArchiveInv'
<1>1. EngineInv /\ EngineInv' /\ live \subseteq Ids /\ Deleters = Archivers
  BY EngineStep DEF ArchiveInv, EngineInv, TypeOK, Deleters
<1>2. ASSUME TablesRest, UNCHANGED <<sweep, deletion>>
      PROVE  ArchiveInv'
  <2>1. ReopensLess
    BY <1>2, TasksReopenLess DEF TablesRest, ReopensLess, Reopens, SweepReopens
  <2> QED
    BY <1>1, <1>2, <2>1, ArchiveRests
<1>3. CASE UNCHANGED vars
  BY <1>2, <1>3, RequestRests DEF vars, requests
<1>4. ASSUME NEW m \in Messages, TaskStep(m)
      PROVE  ArchiveInv'
  <2>1. CASE Start(m) \/ Suppress(m) \/ Fail(m) \/ RejectDuplicate(m) \/ MergeStale(m)
    <3>1. UNCHANGED <<sweep, deletion>>
      BY <2>1 DEF Start, Suppress, Fail, RejectDuplicate, MergeStale, requests
    <3> QED
      BY <1>1, <1>2, <2>1, <3>1, TaskRests
  <2>2. CASE GroupingStep(m)
    BY <1>1, <2>2, ArchiveGrouping
  <2>3. CASE CommitStepOf(m)
    BY <1>1, <2>3, ArchiveCommit
  <2> QED
    BY <1>4, <2>1, <2>2, <2>3 DEF TaskStep, TaskProgress, Grouping, Merging, CommitSome,
                                  GroupingStep, CommitStepOf
<1>5. ASSUME NEW batch \in SUBSET Messages, Drain(batch)
      PROVE  ArchiveInv'
  BY <1>1, <1>2, <1>5, DrainRests DEF Drain, requests
<1>6. ASSUME NEW c \in CaseOpeners, NEW i \in Ids, OpenCaseRead(c, i)
      PROVE  ArchiveInv'
  BY <1>2, <1>6, RequestRests DEF OpenCaseRead
<1>7. ASSUME UNCHANGED <<task, link, live, sweep, deletion>>,
             \A i \in live : /\ inc'[i].status = inc[i].status
                             /\ inc'[i].age \in {0, inc[i].age} \/ ~Reopens(i)
      PROVE  ArchiveInv'
  <2>1. ReopensLess
    BY <1>7, TasksReopenLess DEF ReopensLess, Reopens, SweepReopens
  <2> QED
    BY <1>1, <1>7, <2>1, ArchiveRows
<1>8. ASSUME NEW c \in CaseOpeners, OpenCaseWrite(c)
      PROVE  ArchiveInv'
  <2>1. \A i \in live : inc'[i].status = inc[i].status /\ inc'[i].age \in {0, inc[i].age}
    <3>1. inc \in [Ids -> IncidentRow]
      BY <1>1 DEF EngineInv, TypeOK
    <3>2. CASE opener[c].id \in live
      <4>1. inc' = [inc EXCEPT ![opener[c].id].hasCase = TRUE, ![opener[c].id].age = 0]
        BY <1>8, <3>2 DEF OpenCaseWrite
      <4>2. \A i \in Ids : inc'[i].status = inc[i].status /\ (inc'[i].age = 0 \/ inc'[i] = inc[i])
        BY <3>1, <4>1 DEF IncidentRow
      <4> QED
        BY <1>1, <4>2
    <3>3. CASE opener[c].id \notin live
      BY <1>8, <3>3 DEF OpenCaseWrite
    <3> QED
      BY <3>2, <3>3
  <2> QED
    BY <1>7, <1>8, <2>1 DEF OpenCaseWrite
<1>9. ASSUME NEW i \in Ids, Quiesce(i)
      PROVE  ArchiveInv'
  <2>1. ~Reopens(i)
    BY <1>9 DEF Quiesce, InUse, Reopens, TaskReopens, SweepReopens
  <2>2. \A j \in live : inc'[j].status = inc[j].status /\ (j # i => inc'[j].age = inc[j].age)
    BY <1>1, <1>9 DEF Quiesce, IncidentRow, EngineInv, TypeOK
  <2> QED
    BY <1>7, <1>9, <2>1, <2>2 DEF Quiesce, requests
<1>10. ASSUME NEW w \in Sweepers, SweepBegin(w) \/ SweepStep(w)
       PROVE  ArchiveInv'
  BY <1>1, <1>10, ArchiveBulkRead, ArchiveSweepCommit, ArchiveSweepRests DEF SweepStep
<1>11. ASSUME NEW d \in Archivers, DeletionBegin(d) \/ DeletionStep(d)
       PROVE  ArchiveInv'
  BY <1>1, <1>11, ArchiveSelects, ArchiveDeleteAlerts, ArchiveDeletes
     DEF DeletionBegin, PurgeSelect, DeletionStep
<1>12. CASE Crash
  <2>1. ReopensLess
    <3>1. \A m \in Messages : task'[m].pc \notin InGrouping
      BY <1>12, EndedFacts DEF Crash, FinalPcs, InGrouping
    <3>2. \A w \in Sweepers : sweep'[w].pc = "idle"
      BY <1>12 DEF Crash, IdleSweep
    <3> QED
      BY <3>1, <3>2 DEF ReopensLess, Reopens, TaskReopens, SweepReopens
  <2>2. \A d \in Archivers : deletion'[d] = IdleDeletion
    BY <1>1, <1>12 DEF Crash
  <2> QED
    BY <1>1, <1>12, <2>1, <2>2, CrashRests, ArchiveRests
<1>13. CASE AllDone
  BY <1>3, <1>13 DEF AllDone
<1> QED
  BY <1>1, <1>3, <1>4, <1>5, <1>6, <1>8, <1>9, <1>10, <1>11, <1>12, <1>13 DEF Next

(* Nothing is selected or grouped at first.                                *)
LEMMA ArchiveInit == Init => ArchiveInv
<1> SUFFICES ASSUME Init
             PROVE  ArchiveInv
  OBVIOUS
<1>1. /\ \A m \in Messages : task[m].pc \notin InGrouping /\ link[m] = NoInc
      /\ live = {}
      /\ \A d \in Archivers : deletion[d] = IdleDeletion
  BY DEF Init, NewTask, InGrouping, Deleters
<1> QED
  BY <1>1, EngineInit DEF ArchiveInv, GroupedLive, Young, Selected, Doomed, NoOrphanAlerts, IdleDeletion

(* Deleting incidents deletes their alerts, whatever ingest tasks, bulk    *)
(* updates and crashes the archiver races (ArchiveSelect, DeleteAlerts,    *)
(* DeleteIncidents): only people can bring an alert to a doomed incident.  *)
THEOREM ArchiverLeavesNoOrphans ==
    ASSUME Analysts = {}, Patchers = {}, Purgers = {}, OneArchiver
    PROVE  Spec => []NoOrphanAlerts
<1>1. ArchiveInv /\ [Next]_vars => ArchiveInv'
  BY ArchiveStep
<1>2. ArchiveInv => NoOrphanAlerts
  BY DEF ArchiveInv
<1> QED
  BY <1>1, <1>2, ArchiveInit, PTL DEF Spec

(* What the archiver deletes is closed or resolved at that moment,         *)
(* although it compared the status when it selected (DeleteIncidents).     *)
THEOREM ArchiverDeletesSettled ==
    ASSUME Analysts = {}, Patchers = {}, Purgers = {}, OneArchiver
    PROVE  Spec => ArchiveOnlySettled
<1>1. ArchiveInv /\ [Next]_vars => ArchiveInv'
  BY ArchiveStep
<1>2. ArchiveInv /\ [Next]_vars =>
        [\A d \in Archivers, i \in live :
            DeleteIncidents(d) /\ i \notin live' => inc[i].status \in {"closed", "resolved"}]_vars
  BY DEF ArchiveInv, Selected, ArchivedStatuses, DeleteIncidents
<1> QED
  BY <1>1, <1>2, ArchiveInit, PTL DEF Spec, ArchiveOnlySettled

-----------------------------------------------------------------------------
(* The archiver beside the count and the case.                             *)

(* What was selected is free of tasks, and so are its alerts.              *)
LEMMA ArchiverDeletesWhole ==
    ASSUME Purgers = {}, ArchiveInv
    PROVE  DeletesWhole
  BY DEF DeletesWhole, ArchiveInv, Selected, Doomed, Reopens, TaskReopens, Deleters,
         DeleteIncidents

(* The archiver does not disturb the counts: the alerts it deletes are     *)
(* those of the incidents it deletes (DeleteAlerts, DeleteIncidents).      *)
THEOREM ArchiverKeepsCounts ==
    ASSUME Analysts = {}, Patchers = {}, Purgers = {}, OneArchiver
    PROVE  Spec => []CountMatchesLinks
<1>1. Init => CountInv /\ ArchiveInv
  BY CountInit, ArchiveInit
<1>2. CountInv /\ ArchiveInv /\ [Next]_vars => (CountInv /\ ArchiveInv)'
  BY ArchiverDeletesWhole, CountStep, ArchiveStep
<1>3. CountInv /\ ArchiveInv => CountMatchesLinks
  BY DEF CountInv
<1> QED
  BY <1>1, <1>2, <1>3, PTL DEF Spec

(* A number the archiver freed begins again without a case or a comment    *)
(* (DeleteIncidents, NextId, Commit).                                      *)
THEOREM ArchiverKeepsCases ==
    ASSUME Analysts = {}, Patchers = {}, CaseOpeners = {}, Purgers = {}, OneArchiver
    PROVE  Spec => []CaseOpenedOnce
<1>1. Init => CaseInv /\ ArchiveInv
  BY CaseInit, ArchiveInit
<1>2. CaseInv /\ ArchiveInv /\ [Next]_vars => (CaseInv /\ ArchiveInv)'
  BY ArchiverDeletesWhole, CaseStep, ArchiveStep
<1>3. CaseInv /\ ArchiveInv => CaseOpenedOnce
  BY DEF CaseInv
<1> QED
  BY <1>1, <1>2, <1>3, PTL DEF Spec

-----------------------------------------------------------------------------
(* Rows and their alerts.                                                  *)

(* What the alerts of an incident say of its row.                          *)
RowsOfAlerts ==
    /\ \A m \in Messages :
          link[m] \in live => /\ EntitiesOf(m) \subseteq inc[link[m]].entities
                              /\ Alert[m].time <= inc[link[m]].last
    /\ \A i \in live :
          /\ \A x \in inc[i].entities : \E m \in Messages : link[m] = i /\ x \in EntitiesOf(m)
          /\ \E m \in Messages : link[m] = i /\ Alert[m].time = inc[i].first
          /\ \E m \in Messages : link[m] = i /\ Alert[m].time = inc[i].last

(* What a merge makes of last_seen.                                        *)
LastSeen(m, last) == IF Alert[m].time > last THEN Alert[m].time ELSE last

(* The row a task publishes is the row it read with its alert added.       *)
ReadOf(m, t) ==
    /\ t.pc = "matched" => /\ t.row.first = inc[t.id].first
                           /\ t.row.last = inc[t.id].last
                           /\ t.row.entities = inc[t.id].entities
    /\ t.pc = "written" /\ ~t.created =>
          /\ t.row.first = inc[t.id].first
          /\ t.row.last = LastSeen(m, inc[t.id].last)
          /\ t.row.entities = inc[t.id].entities \cup EntitiesOf(m)
    /\ t.pc = "written" /\ t.created =>
          /\ t.row.first = Alert[m].time /\ t.row.last = Alert[m].time
          /\ t.row.entities = EntitiesOf(m)

RowRead == \A m \in Messages : ReadOf(m, task[m])

RowsInv == ArchiveInv /\ RowsOfAlerts /\ RowRead

(* Two rows that say the same.                                             *)
LEMMA RowsKept ==
    ASSUME RowsInv, ArchiveInv', UNCHANGED <<link, live>>, \A i \in Ids : SameAlerts(i),
           \A m \in Messages : task'[m].pc \in InGrouping => task'[m] = task[m]
    PROVE  RowsInv'
<1>1. RowsOfAlerts /\ RowRead /\ EngineInv /\ live \subseteq Ids
  BY DEF RowsInv, ArchiveInv, EngineInv, TypeOK
<1>2. \A i \in Ids : /\ inc'[i].first = inc[i].first /\ inc'[i].last = inc[i].last
                     /\ inc'[i].entities = inc[i].entities
  BY DEF SameAlerts
<1>3. RowsOfAlerts'
  BY <1>1, <1>2 DEF RowsOfAlerts
<1>4. \A m \in Messages : task'[m].pc \in InGrouping => task[m].id \in Ids /\ task'[m] = task[m]
  BY <1>1 DEF EngineInv, Ownership, GroupedFresh
<1>5. ASSUME NEW m \in Messages
      PROVE  ReadOf(m, task[m])'
  <2>1. CASE task'[m].pc \in InGrouping
    <3>1. task'[m] = task[m] /\ task[m].id \in Ids /\ ReadOf(m, task[m])
      BY <1>1, <1>4, <2>1 DEF RowRead
    <3> QED
      BY <1>2, <3>1 DEF ReadOf, LastSeen
  <2>2. CASE task'[m].pc \notin InGrouping
    BY <2>2 DEF ReadOf, InGrouping
  <2> QED
    BY <2>1, <2>2
<1> QED
  BY <1>3, <1>5 DEF RowsInv, RowRead

(* What a merge publishes.                                                 *)
LEMMA MergedFields ==
    ASSUME NEW m \in Messages, NEW row \in IncidentRow
    PROVE  LET new == MergedRow(m, row)
           IN /\ new.first = row.first /\ new.last = LastSeen(m, row.last)
              /\ new.entities = row.entities \cup EntitiesOf(m)
              /\ new.status = row.status
  BY DEF MergedRow, IncidentRow, LastSeen

(* A task reads the row as it is.                                          *)
LEMMA RowsGrouping ==
    ASSUME RowsInv, ArchiveInv', NEW m \in Messages, GroupingStep(m)
    PROVE  RowsInv'
<1>1. /\ RowsOfAlerts /\ RowRead /\ EngineInv /\ GroupedLive
  BY DEF RowsInv, ArchiveInv
<1>2. /\ UNCHANGED <<link, live, inc>>
      /\ \A n \in Messages : task'[n].pc \in InGrouping => n = m
  BY <1>1, GroupingTasks DEF tables
<1>3. RowsOfAlerts'
  BY <1>1, <1>2 DEF RowsOfAlerts
<1>4. ReadOf(m, task[m])'
  <2>1. CASE GroupMatch(m)
    BY <1>1, <1>2, <2>1, MatchReads DEF ReadOf
  <2>2. CASE GroupCreate(m)
    <3>1. /\ CreatedRow(m).first = Alert[m].time /\ CreatedRow(m).last = Alert[m].time
          /\ CreatedRow(m).entities = EntitiesOf(m)
      BY DEF CreatedRow
    <3>2. task'[m].pc = "written" /\ task'[m].created /\ task'[m].row = CreatedRow(m)
      BY <1>1, <2>2, CreateReads
    <3> QED
      BY <3>1, <3>2 DEF ReadOf
  <2>3. CASE MergeFlush(m)
    <3> DEFINE i == task[m].id
               row == task[m].row
    <3>1. /\ task[m].pc = "matched" /\ task[m].pc \in InGrouping
          /\ ~task[m].created /\ i \in live /\ row \in IncidentRow
      BY <1>1, <2>3 DEF MergeFlush, InGrouping, GroupedLive, EngineInv, TypeOK, TaskType
    <3>2. /\ row.first = inc[i].first /\ row.last = inc[i].last
          /\ row.entities = inc[i].entities
      BY <1>1, <3>1 DEF RowRead, ReadOf
    <3>3. /\ task'[m].pc = "written" /\ ~task'[m].created /\ task'[m].id = i
          /\ task'[m].row.first = row.first /\ task'[m].row.last = LastSeen(m, row.last)
          /\ task'[m].row.entities = row.entities \cup EntitiesOf(m)
      BY <1>1, <2>3, <3>1, FlushReads, MergedFields
    <3> HIDE DEF i, row
    <3> QED
      BY <1>2, <3>2, <3>3 DEF ReadOf
  <2> QED
    BY <2>1, <2>2, <2>3 DEF GroupingStep
<1>5. \A n \in Messages : ReadOf(n, task[n])'
  BY <1>2, <1>4 DEF ReadOf, InGrouping
<1> QED
  BY <1>3, <1>5 DEF RowsInv, RowRead

(* What a commit publishes of the alerts.                                  *)
LEMMA CommitPublishes ==
    ASSUME EngineInv, NEW m \in Messages, CommitStepOf(m)
    PROVE  /\ task[m].pc = "written" /\ task[m].pc \in InGrouping /\ task[m].id \in Ids
           /\ task[m].row \in IncidentRow /\ link[m] = NoInc /\ SameEvent(m) = {}
           /\ live' = live \cup {task[m].id} /\ link' = [link EXCEPT ![m] = task[m].id]
           /\ \A j \in Ids : j # task[m].id => inc'[j] = inc[j]
           /\ inc'[task[m].id].first = task[m].row.first
           /\ inc'[task[m].id].last = task[m].row.last
           /\ inc'[task[m].id].entities = task[m].row.entities
<1>1. PICK fp \in Scores, e \in RuleSeverities : Commit(m, fp, e)
  BY DEF CommitStepOf
<1>2. /\ task[m].id \in Ids /\ task[m].pc = "written" /\ task[m].pc \in InGrouping
      /\ task[m].row \in IncidentRow /\ SameEvent(m) = {} /\ inc \in [Ids -> IncidentRow]
  BY <1>1 DEF Commit, InGrouping, EngineInv, Ownership, GroupedFresh, TypeOK, TaskType
<1>3. link[m] = NoInc
  BY <1>2 DEF SameEvent
<1>4. /\ inc'[task[m].id].first = task[m].row.first
      /\ inc'[task[m].id].last = task[m].row.last
      /\ inc'[task[m].id].entities = task[m].row.entities
  BY <1>1, <1>2 DEF Commit, IncidentRow
<1> QED
  BY <1>1, <1>2, <1>3, <1>4 DEF Commit

(* A commit adds its alert to the row.                                     *)
LEMMA RowsCommit ==
    ASSUME RowsInv, ArchiveInv', NEW m \in Messages, CommitStepOf(m)
    PROVE  RowsInv'
<1>1. /\ RowsOfAlerts /\ RowRead /\ EngineInv /\ GroupedLive /\ NoOrphanAlerts
      /\ live \subseteq Ids /\ inc \in [Ids -> IncidentRow]
      /\ link \in [Messages -> Ids \cup {NoInc}]
  BY DEF RowsInv, ArchiveInv, EngineInv, TypeOK
<1>2. PICK i \in Ids : i = task[m].id
  BY <1>1, CommitPublishes
<1>3. /\ task[m].pc = "written" /\ task[m].pc \in InGrouping /\ link[m] = NoInc
      /\ live' = live \cup {i} /\ link' = [link EXCEPT ![m] = i]
      /\ \A j \in Ids : j # i => inc'[j] = inc[j]
      /\ inc'[i].first = task[m].row.first /\ inc'[i].last = task[m].row.last
      /\ inc'[i].entities = task[m].row.entities
  BY <1>1, <1>2, CommitPublishes
<1>4. /\ \A n \in Messages : link'[n] = IF n = m THEN i ELSE link[n]
      /\ \A j \in Ids : j # NoInc
  BY <1>1, <1>3 DEF Ids, NoInc
<1>5. \A n \in Messages : ReadOf(n, task[n])'
  BY <1>1, CommitTasks DEF ReadOf, InGrouping
<1>6. \A n \in Messages : Alert[n].time \in Nat
  BY AlertAssumption DEF AlertType
<1>7. \A j \in live : j # i =>
         /\ \A x \in inc'[j].entities : \E n \in Messages : link'[n] = j /\ x \in EntitiesOf(n)
         /\ \E n \in Messages : link'[n] = j /\ Alert[n].time = inc'[j].first
         /\ \E n \in Messages : link'[n] = j /\ Alert[n].time = inc'[j].last
  BY <1>1, <1>3, <1>4 DEF RowsOfAlerts
<1>8. ASSUME NEW n \in Messages, n # m, link'[n] \in live', link'[n] # i
      PROVE  /\ EntitiesOf(n) \subseteq inc'[link'[n]].entities
             /\ Alert[n].time <= inc'[link'[n]].last
  BY <1>1, <1>3, <1>4, <1>8 DEF RowsOfAlerts
<1>9. CASE ~task[m].created
  <2>1. /\ i \in live /\ inc'[i].first = inc[i].first
        /\ inc'[i].last = LastSeen(m, inc[i].last) /\ inc[i].last \in Nat
        /\ inc'[i].entities = inc[i].entities \cup EntitiesOf(m)
    BY <1>1, <1>2, <1>3, <1>9 DEF GroupedLive, RowRead, ReadOf, IncidentRow
  <2>2. inc[i].last <= inc'[i].last /\ Alert[m].time <= inc'[i].last
    BY <1>6, <2>1 DEF LastSeen
  <2>3. ASSUME NEW n \in Messages, link'[n] = i
        PROVE  EntitiesOf(n) \subseteq inc'[i].entities /\ Alert[n].time <= inc'[i].last
    <3>1. CASE n = m
      BY <2>1, <2>2, <3>1
    <3>2. CASE n # m
      <4>1. /\ EntitiesOf(n) \subseteq inc[i].entities /\ Alert[n].time <= inc[i].last
        BY <1>1, <1>4, <2>1, <2>3, <3>2 DEF RowsOfAlerts
      <4>2. inc'[i].last \in Nat
        BY <1>6, <2>1 DEF LastSeen
      <4> QED
        BY <1>6, <2>1, <2>2, <4>1, <4>2
    <3> QED
      BY <3>1, <3>2
  <2>4. \A n \in Messages : link[n] = i => link'[n] = i
    BY <1>3, <1>4
  <2>5. ASSUME NEW x \in inc'[i].entities
        PROVE  \E n \in Messages : link'[n] = i /\ x \in EntitiesOf(n)
    <3>1. CASE x \in inc[i].entities
      BY <1>1, <2>1, <2>4, <3>1 DEF RowsOfAlerts
    <3>2. CASE x \in EntitiesOf(m)
      BY <1>4, <3>2
    <3> QED
      BY <2>1, <3>1, <3>2
  <2>6. \E n \in Messages : link'[n] = i /\ Alert[n].time = inc'[i].first
    BY <1>1, <2>1, <2>4 DEF RowsOfAlerts
  <2>7. \E n \in Messages : link'[n] = i /\ Alert[n].time = inc'[i].last
    <3>1. CASE Alert[m].time > inc[i].last
      BY <1>4, <2>1, <3>1 DEF LastSeen
    <3>2. CASE ~(Alert[m].time > inc[i].last)
      BY <1>1, <2>1, <2>4, <3>2 DEF RowsOfAlerts, LastSeen
    <3> QED
      BY <3>1, <3>2
  <2>8. \A n \in Messages : link'[n] \in live' =>
           /\ EntitiesOf(n) \subseteq inc'[link'[n]].entities
           /\ Alert[n].time <= inc'[link'[n]].last
    BY <1>4, <1>8, <2>3
  <2>9. RowsOfAlerts'
    BY <1>3, <1>7, <2>5, <2>6, <2>7, <2>8 DEF RowsOfAlerts
  <2> QED
    BY <1>5, <2>9 DEF RowsInv, RowRead
<1>10. CASE task[m].created
  <2>1. /\ i \notin live /\ inc'[i].first = Alert[m].time /\ inc'[i].last = Alert[m].time
        /\ inc'[i].entities = EntitiesOf(m)
        /\ \A n \in Messages : link[n] # i
    BY <1>1, <1>2, <1>3, <1>4, <1>10 DEF GroupedLive, RowRead, ReadOf, NoOrphanAlerts
  <2>2. \A n \in Messages : link'[n] = i => n = m
    BY <1>4, <2>1
  <2>3. link'[m] = i /\ Alert[m].time <= Alert[m].time
    BY <1>4, <1>6
  <2>4. \A n \in Messages : link'[n] \in live' =>
           /\ EntitiesOf(n) \subseteq inc'[link'[n]].entities
           /\ Alert[n].time <= inc'[link'[n]].last
    BY <1>8, <2>1, <2>2, <2>3
  <2>5. RowsOfAlerts'
    BY <1>3, <1>7, <2>1, <2>3, <2>4 DEF RowsOfAlerts
  <2> QED
    BY <1>5, <2>5 DEF RowsInv, RowRead
<1> QED
  BY <1>9, <1>10

(* Incidents that are deleted take all their alerts with them.             *)
LEMMA DeletesTake ==
    ASSUME ArchiveInv, NEW d \in Archivers, DeleteIncidents(d)
    PROVE  LET ids == deletion[d].ids
           IN /\ task' = task /\ live' = live \ ids
              /\ \A i \in ids : i \in live /\ inc[i].status \in ArchivedStatuses
              /\ link' = [m \in Messages |-> IF link[m] \in ids THEN NoInc ELSE link[m]]
              /\ \A i \in live' : i \in live /\ i \in Ids /\ i # NoInc /\ inc'[i] = inc[i]
              /\ \A m \in Messages, i \in live' : link'[m] = i <=> link[m] = i
              /\ \A m \in Messages : task[m].pc \in InGrouping =>
                    task[m].id \notin ids /\ task[m].id \in Ids
<1> DEFINE ids == deletion[d].ids
<1>1. /\ EngineInv /\ Selected /\ Doomed /\ live \subseteq Ids /\ d \in Deleters
  BY DEF ArchiveInv, EngineInv, TypeOK, Deleters
<1>2. deletion[d].doomed = {m \in Messages : link[m] \in ids}
  BY <1>1 DEF DeleteIncidents, Doomed
<1>3. /\ task' = task /\ live' = live \ ids
      /\ \A i \in Ids : i \notin ids => inc'[i] = inc[i]
      /\ link' = [m \in Messages |-> IF link[m] \in ids THEN NoInc ELSE link[m]]
  <2>1. link' = [m \in Messages |-> IF m \in deletion[d].doomed THEN NoInc ELSE link[m]]
    BY DEF DeleteIncidents
  <2>2. link' = [m \in Messages |-> IF link[m] \in ids THEN NoInc ELSE link[m]]
    BY <1>2, <2>1
  <2> QED
    BY <2>2 DEF DeleteIncidents
<1>4. \A m \in Messages :
         task[m].pc \in InGrouping => task[m].id \notin ids /\ task[m].id \in Ids
  BY <1>1 DEF Selected, Reopens, TaskReopens, EngineInv, Ownership, GroupedFresh
<1>5. \A i \in Ids : i # NoInc
  BY DEF Ids, NoInc
<1>6. \A i \in live' : i \in live /\ i \in Ids /\ i # NoInc /\ i \notin ids /\ inc'[i] = inc[i]
  BY <1>1, <1>3, <1>5
<1>7. \A m \in Messages, i \in live' : link'[m] = i <=> link[m] = i
  BY <1>3, <1>6
<1>8. \A i \in ids : i \in live /\ inc[i].status \in ArchivedStatuses
  BY <1>1 DEF Selected
<1> QED
  BY <1>3, <1>4, <1>6, <1>7, <1>8

LEMMA RowsDelete ==
    ASSUME RowsInv, ArchiveInv', NEW d \in Archivers, DeleteIncidents(d)
    PROVE  RowsInv'
<1>1. RowsOfAlerts /\ RowRead /\ ArchiveInv
  BY DEF RowsInv
<1>2. /\ task' = task
      /\ \A i \in live' : i \in live /\ i \in Ids /\ inc'[i] = inc[i]
      /\ \A m \in Messages, i \in live' : link'[m] = i <=> link[m] = i
  BY <1>1, DeletesTake
<1>3. RowsOfAlerts'
  <2>1. ASSUME NEW m \in Messages, link'[m] \in live'
        PROVE  /\ EntitiesOf(m) \subseteq inc'[link'[m]].entities
               /\ Alert[m].time <= inc'[link'[m]].last
    <3>1. PICK i \in live' : i = link'[m]
      BY <2>1
    <3>2. link[m] = i /\ i \in live /\ inc'[i] = inc[i]
      BY <1>2, <3>1
    <3> QED
      BY <1>1, <3>1, <3>2 DEF RowsOfAlerts
  <2>2. ASSUME NEW i \in live'
        PROVE  /\ \A x \in inc'[i].entities :
                     \E m \in Messages : link'[m] = i /\ x \in EntitiesOf(m)
               /\ \E m \in Messages : link'[m] = i /\ Alert[m].time = inc'[i].first
               /\ \E m \in Messages : link'[m] = i /\ Alert[m].time = inc'[i].last
    <3>1. i \in live /\ inc'[i] = inc[i] /\ \A m \in Messages : link'[m] = i <=> link[m] = i
      BY <1>2
    <3> QED
      BY <1>1, <3>1 DEF RowsOfAlerts
  <2> QED
    BY <2>1, <2>2 DEF RowsOfAlerts
<1>4. ASSUME NEW m \in Messages
      PROVE  ReadOf(m, task[m])'
  <2>1. CASE task[m].pc \in InGrouping
    <3>1. task[m].id \in Ids /\ inc'[task[m].id] = inc[task[m].id] /\ ReadOf(m, task[m])
      BY <1>1, <2>1, DeletesTake DEF RowRead, DeleteIncidents
    <3> QED
      BY <1>2, <3>1 DEF ReadOf, LastSeen
  <2>2. CASE task[m].pc \notin InGrouping
    BY <1>2, <2>2 DEF ReadOf, InGrouping
  <2> QED
    BY <2>1, <2>2
<1> QED
  BY <1>3, <1>4 DEF RowsInv, RowRead

LEMMA RowsStep ==
    ASSUME Analysts = {}, Patchers = {}, Purgers = {}, OneArchiver, RowsInv, [Next]_vars
    PROVE  RowsInv'
<1>1. ArchiveInv /\ ArchiveInv' /\ EngineInv /\ Deleters = Archivers
  BY ArchiveStep DEF RowsInv, ArchiveInv, Deleters
<1>2. CASE TablesRest
  BY <1>1, <1>2, RowsKept DEF TablesRest, tables, SameAlerts
<1>3. CASE RowsUpdated
  <2>1. /\ \A i \in Ids : SameAlerts(i)
        /\ UNCHANGED <<task, link, live>>
    BY <1>3 DEF RowsUpdated
  <2> QED
    BY <1>1, <2>1, RowsKept
<1>4. ASSUME NEW m \in Messages, GroupingStep(m)
      PROVE  RowsInv'
  BY <1>1, <1>4, RowsGrouping
<1>5. ASSUME NEW m \in Messages, CommitStepOf(m)
      PROVE  RowsInv'
  BY <1>1, <1>5, RowsCommit
<1>6. ASSUME NEW d \in Deleters, DeleteIncidents(d)
      PROVE  RowsInv'
  BY <1>1, <1>6, RowsDelete
<1> QED
  BY <1>1, <1>2, <1>3, <1>4, <1>5, <1>6, Kinds

LEMMA RowsInit == Init => RowsInv
  BY ArchiveInit DEF Init, RowsInv, RowsOfAlerts, RowRead, ReadOf, NewTask
-----------------------------------------------------------------------------
(* Incidents of one host.                                                  *)

(* The hosts of two agents share neither address nor user.                 *)
HostsApart ==
    \A m, n \in Messages :
        Alert[m].agent # Alert[n].agent =>
            ({Alert[m].agent, Alert[m].src, Alert[m].user} \ {NoValue}) \cap EntitiesOf(n) = {}

(* Every candidate of an alert is on the page it reads.                    *)
PageHoldsAll == \A m \in Messages : Cardinality(Eligible(m)) <= CandidateLimit

OneAgent ==
    \A m, n \in Messages :
        link[m] # NoInc /\ link[m] = link[n] => Alert[m].agent = Alert[n].agent

(* A task merges into an incident of its host.                             *)
HostRead ==
    \A m, n \in Messages :
        /\ task[m].pc \in InGrouping /\ ~task[m].created /\ link[n] = task[m].id
        => Alert[n].agent = Alert[m].agent

(* m begins incident i.                                                    *)
Begins(m, i) == link[m] = i /\ Alert[m].time = inc[i].first

MergedInto(i) ==
    \E m \in Messages : task[m].pc \in InGrouping /\ ~task[m].created /\ task[m].id = i

(* The commit of a merge may make its incident active again.               *)
Groupable(i) == i \in live /\ (inc[i].status \in ActiveStatuses \/ MergedInto(i))

BeginApart ==
    \A m, n \in Messages : \A i, j \in live :
        /\ i # j /\ Groupable(i) /\ Groupable(j)
        /\ Begins(m, i) /\ Begins(n, j) /\ Alert[m].agent = Alert[n].agent
        => \/ Alert[m].time > Alert[n].time + Window
           \/ Alert[n].time > Alert[m].time + Window

(* A new incident begins after the windows of those that are active.       *)
NewApart ==
    \A m, n \in Messages : \A i \in live :
        /\ task[m].pc = "written" /\ task[m].created
        /\ Groupable(i) /\ Begins(n, i) /\ Alert[m].agent = Alert[n].agent
        => Alert[m].time > Alert[n].time + Window

HostInv == RowsInv /\ OneAgent /\ HostRead /\ BeginApart /\ NewApart

(* Among any rows one was seen last.                                       *)
LEMMA LatestRow ==
    ASSUME NEW S \in SUBSET Ids, S # {}, NEW f \in [Ids -> Nat]
    PROVE  \E i \in S : \A j \in S : f[j] <= f[i]
<1> DEFINE Upto(n) == {i \in S : i <= n}
           Latest(n) == \E i \in Upto(n) : \A j \in Upto(n) : f[j] <= f[i]
           C == {n \in Nat : Upto(n) # {} /\ ~Latest(n)}
           R == OpToRel(<, Nat)
<1>1. MaxIncidents \in Nat /\ \A i \in S : i \in Nat /\ 1 <= i /\ i <= MaxIncidents /\ f[i] \in Nat
  BY BoundsAssumption DEF Ids
<1>2. Upto(MaxIncidents) = S
  BY <1>1
<1>3. \A k \in Nat, n \in Nat : k < n => <<k, n>> \in R
  BY DEF OpToRel
<1>4. IsWellFoundedOn(R, Nat)
  BY NatLessThanWellFounded
<1>5. ASSUME NEW n \in C, \A k \in C : <<k, n>> \notin R
      PROVE  FALSE
  <2>1. n \in Nat /\ Upto(n) # {} /\ ~Latest(n)
    BY <1>5
  <2>2. n # 0
    BY <1>1, <2>1
  <2>3. n - 1 \in Nat /\ n - 1 < n
    BY <2>1, <2>2
  <2>4. n - 1 \notin C
    BY <1>3, <1>5, <2>1, <2>3
  <2>5. Upto(n) = IF n \in S THEN Upto(n - 1) \cup {n} ELSE Upto(n - 1)
    BY <1>1, <2>1
  <2>6. CASE Upto(n - 1) = {}
    <3>1. Upto(n) = {n}
      BY <2>1, <2>5, <2>6
    <3> QED
      BY <1>1, <2>1, <3>1
  <2>7. CASE Upto(n - 1) # {}
    <3>1. PICK i \in Upto(n - 1) : \A j \in Upto(n - 1) : f[j] <= f[i]
      BY <2>3, <2>4, <2>7
    <3>2. CASE n \notin S
      BY <2>1, <2>5, <3>1, <3>2
    <3>3. CASE n \in S /\ f[n] <= f[i]
      <4>1. \A j \in Upto(n) : f[j] <= f[i]
        BY <2>5, <3>1, <3>3
      <4> QED
        BY <2>1, <2>5, <3>1, <3>3, <4>1
    <3>4. CASE n \in S /\ ~(f[n] <= f[i])
      <4>1. \A j \in Upto(n) : f[j] <= f[n]
        BY <1>1, <2>5, <3>1, <3>4
      <4> QED
        BY <2>1, <2>5, <3>4, <4>1
    <3> QED
      BY <3>2, <3>3, <3>4
  <2> QED
    BY <2>6, <2>7
<1>6. C = {}
  <2> HIDE DEF C, R
  <2>1. C \subseteq Nat
    BY DEF C
  <2> QED
    BY <1>4, <1>5, <2>1, WFMin
<1>7. Latest(MaxIncidents)
  BY <1>1, <1>2, <1>6
<1> QED
  BY <1>2, <1>7

(* A page with room for every candidate is all of them.                    *)
LEMMA PageWhole ==
    ASSUME EngineInv, PageHoldsAll, NEW m \in Messages, NEW page \in Page(Eligible(m))
    PROVE  page = Eligible(m)
<1>1. Eligible(m) \subseteq Ids
  BY DEF Eligible, EngineInv, TypeOK
<1>2. IsFiniteSet(Ids)
  BY BoundsAssumption, FS_Interval DEF Ids
<1>3. IsFiniteSet(Eligible(m))
  BY <1>1, <1>2, FS_Subset
<1>4. page \subseteq Eligible(m) /\ Cardinality(page) <= CandidateLimit
      /\ (Cardinality(page) < CandidateLimit => page = Eligible(m))
  BY DEF Page
<1>5. /\ Cardinality(page) \in Nat /\ Cardinality(Eligible(m)) \in Nat
      /\ Cardinality(page) <= Cardinality(Eligible(m))
      /\ Cardinality(page) = Cardinality(Eligible(m)) => page = Eligible(m)
  BY <1>3, <1>4, FS_Subset, FS_CardinalityType
<1>6. Cardinality(Eligible(m)) <= CandidateLimit /\ CandidateLimit \in Nat
  BY BoundsAssumption DEF PageHoldsAll
<1> QED
  BY <1>4, <1>5, <1>6

(* An alert that shares an entity with a candidate has a first match.      *)
LEMMA MatchExists ==
    ASSUME EngineInv, NEW m \in Messages, NEW page \in SUBSET live,
           NEW i \in page, SharesEntity(m, i)
    PROVE  FirstMatches(m, page) # {}
<1> DEFINE S == {j \in page : SharesEntity(m, j)}
           f == [j \in Ids |-> inc[j].last]
<1>1. S \subseteq Ids /\ i \in S /\ f \in [Ids -> Nat]
  BY DEF EngineInv, TypeOK, IncidentRow
<1>2. PICK j \in S : \A k \in S : f[k] <= f[j]
  BY <1>1, LatestRow
<1>3. \A k \in S : inc[k].last <= inc[j].last
  BY <1>1, <1>2
<1>4. \A k \in Ids : inc[k].last \in Nat
  BY DEF EngineInv, TypeOK, IncidentRow
<1>5. j \in FirstMatches(m, page)
  BY <1>1, <1>3, <1>4 DEF FirstMatches
<1> QED
  BY <1>5

(* Steps that group nothing and publish nothing.                           *)
LEMMA HostKept ==
    ASSUME HostInv, RowsInv', UNCHANGED <<link, live>>, \A i \in Ids : SameAlerts(i),
           \A i \in Ids : inc'[i].status \in ActiveStatuses => inc[i].status \in ActiveStatuses,
           \A m \in Messages : task'[m].pc \in InGrouping => task'[m] = task[m]
    PROVE  HostInv'
<1>1. /\ OneAgent /\ HostRead /\ BeginApart /\ NewApart /\ live \subseteq Ids
  BY DEF HostInv, RowsInv, ArchiveInv, EngineInv, TypeOK
<1>2. \A i \in Ids : Groupable(i)' => Groupable(i)
  BY DEF Groupable, MergedInto
<1>3. \A m \in Messages, i \in Ids : Begins(m, i)' <=> Begins(m, i)
  BY DEF Begins, SameAlerts
<1>4. OneAgent'
  BY <1>1 DEF OneAgent
<1>5. HostRead'
  BY <1>1 DEF HostRead
<1>6. BeginApart'
  BY <1>1, <1>2, <1>3 DEF BeginApart
<1>7. NewApart'
  <2>1. \A m \in Messages : task'[m].pc = "written" => task'[m] = task[m]
    BY DEF InGrouping
  <2> QED
    BY <1>1, <1>2, <1>3, <2>1 DEF NewApart
<1> QED
  BY <1>4, <1>5, <1>6, <1>7 DEF HostInv

(* An alert that shares an entity with an incident is of its host.         *)
LEMMA SharedHost ==
    ASSUME HostsApart, RowsOfAlerts, OneAgent, NEW m \in Messages, NEW i \in live, i # NoInc,
           SharesEntity(m, i)
    PROVE  \A n \in Messages : link[n] = i => Alert[n].agent = Alert[m].agent
<1>1. PICK x \in {Alert[m].agent, Alert[m].src, Alert[m].user} \ {NoValue} : x \in inc[i].entities
  <2>1. Alert[m].agent # NoValue
    BY AlertAssumption DEF AlertType
  <2> QED
    BY <2>1 DEF SharesEntity
<1>2. PICK n \in Messages : link[n] = i /\ x \in EntitiesOf(n)
  BY <1>1 DEF RowsOfAlerts
<1>3. Alert[n].agent = Alert[m].agent
  BY <1>1, <1>2 DEF HostsApart
<1> QED
  BY <1>2, <1>3 DEF OneAgent

(* An alert that no candidate fits comes after the window of every active  *)
(* incident its host began.                                                *)
LEMMA CreateApart ==
    ASSUME EngineInv, RowsOfAlerts, PageHoldsAll, NEW m \in Messages, GroupCreate(m),
           NEW n \in Messages, NEW i \in live, inc[i].status \in ActiveStatuses,
           Begins(n, i), Alert[m].agent = Alert[n].agent
    PROVE  Alert[m].time > Alert[n].time + Window
<1>1. /\ i \in Ids /\ inc[i].first \in Nat /\ inc[i].last \in Nat
      /\ inc[i].first <= inc[i].last
      /\ Alert[n].time = inc[i].first /\ Alert[m].time \in Nat
      /\ Window \in Nat /\ MaxAge \in Nat /\ Window <= MaxAge
  BY BoundsAssumption, AlertAssumption
     DEF EngineInv, TypeOK, IncidentRow, RowsOfAlerts, Begins, AlertType
<1>2. SharesEntity(m, i)
  <2>1. Alert[n].agent \in EntitiesOf(n)
    BY AlertAssumption DEF AlertType, EntitiesOf
  <2> QED
    BY <2>1 DEF RowsOfAlerts, Begins, SharesEntity
<1>3. i \notin Eligible(m)
  <2>1. PICK page \in Page(Eligible(m)) : FirstMatches(m, page) = {}
    BY DEF GroupCreate
  <2>2. page = Eligible(m)
    BY PageWhole
  <2>3. page \in SUBSET live
    BY <2>2 DEF Eligible
  <2>4. i \notin page
    BY <1>2, <2>1, <2>3, MatchExists
  <2> QED
    BY <2>2, <2>4
<1>4. \/ ~(Alert[m].time <= inc[i].last + Window)
      \/ ~(Alert[m].time <= inc[i].first + MaxAge)
  BY <1>3 DEF Eligible
<1> QED
  BY <1>1, <1>4

(* A task joins the incident of its host, or begins one outside the        *)
(* windows of the others.                                                  *)
LEMMA HostGrouping ==
    ASSUME HostsApart, PageHoldsAll, HostInv, RowsInv', NEW m \in Messages, GroupingStep(m)
    PROVE  HostInv'
<1>1. /\ RowsOfAlerts /\ OneAgent /\ HostRead /\ BeginApart /\ NewApart
      /\ EngineInv /\ GroupedLive /\ live \subseteq Ids
  BY DEF HostInv, RowsInv, ArchiveInv, EngineInv, TypeOK
<1>2. /\ UNCHANGED <<link, live, inc>>
      /\ \A n \in Messages : task'[n].pc \in InGrouping => n = m
  BY <1>1, GroupingTasks DEF tables
<1>3. OneAgent'
  BY <1>1, <1>2 DEF OneAgent
<1>4. MergeFlush(m) => /\ task[m].pc = "matched" /\ task[m].pc \in InGrouping
                       /\ ~task[m].created /\ task[m].id \in live
  BY <1>1 DEF MergeFlush, InGrouping, GroupedLive
<1>5. \A i \in live : Groupable(i)' => Groupable(i)
  <2> SUFFICES ASSUME NEW i \in live, MergedInto(i)'
               PROVE  Groupable(i)
    BY <1>2 DEF Groupable
  <2>1. ~task'[m].created /\ task'[m].id = i
    BY <1>2 DEF MergedInto
  <2>2. CASE GroupMatch(m)
    BY <1>1, <2>1, <2>2, MatchReads DEF Eligible, Groupable
  <2>3. CASE GroupCreate(m)
    BY <1>1, <2>1, <2>3, CreateReads
  <2>4. CASE MergeFlush(m)
    BY <1>1, <1>4, <2>1, <2>4, FlushReads DEF Groupable, MergedInto
  <2> QED
    BY <2>2, <2>3, <2>4 DEF GroupingStep
<1>6. \A n \in Messages, i \in Ids : Begins(n, i)' <=> Begins(n, i)
  BY <1>2 DEF Begins
<1>7. BeginApart'
  BY <1>1, <1>2, <1>5, <1>6 DEF BeginApart
<1>8. HostRead'
  <2> SUFFICES ASSUME NEW n \in Messages, ~task'[m].created, link[n] = task'[m].id
               PROVE  Alert[n].agent = Alert[m].agent
    BY <1>2 DEF HostRead
  <2>1. CASE GroupMatch(m)
    <3>1. task'[m].id # NoInc
      BY <1>1, <2>1, MatchReads DEF Ids, NoInc
    <3> QED
      BY <1>1, <2>1, <3>1, MatchReads, SharedHost
  <2>2. CASE GroupCreate(m)
    BY <1>1, <2>2, CreateReads
  <2>3. CASE MergeFlush(m)
    BY <1>1, <1>4, <2>3, FlushReads DEF HostRead
  <2> QED
    BY <2>1, <2>2, <2>3 DEF GroupingStep
<1>9. NewApart'
  <2> SUFFICES ASSUME NEW n \in Messages, NEW i \in live,
                      task'[m].pc = "written", task'[m].created,
                      Groupable(i)', Begins(n, i), Alert[m].agent = Alert[n].agent
               PROVE  Alert[m].time > Alert[n].time + Window
    BY <1>1, <1>2, <1>6 DEF NewApart, InGrouping
  <2>1. GroupCreate(m)
    BY <1>1, <1>4, MatchReads, FlushReads DEF GroupingStep
  <2>2. inc[i].status \in ActiveStatuses
    BY <1>2 DEF Groupable, MergedInto
  <2> QED
    BY <1>1, <2>1, <2>2, CreateApart
<1> QED
  BY <1>3, <1>7, <1>8, <1>9 DEF HostInv

(* A commit adds its alert to the incident of its host, or begins one.     *)
LEMMA HostCommit ==
    ASSUME HostInv, RowsInv', NEW m \in Messages, CommitStepOf(m)
    PROVE  HostInv'
<1>1. /\ RowsOfAlerts /\ RowRead /\ OneAgent /\ HostRead /\ BeginApart /\ NewApart
      /\ EngineInv /\ GroupedLive /\ NoOrphanAlerts /\ live \subseteq Ids
      /\ link \in [Messages -> Ids \cup {NoInc}]
  BY DEF HostInv, RowsInv, ArchiveInv, EngineInv, TypeOK
<1>2. PICK i \in Ids : i = task[m].id
  BY <1>1, CommitPublishes
<1>3. /\ task[m].pc = "written" /\ task[m].pc \in InGrouping /\ link[m] = NoInc
      /\ live' = live \cup {i} /\ link' = [link EXCEPT ![m] = i]
      /\ \A j \in Ids : j # i => inc'[j] = inc[j]
      /\ inc'[i].first = task[m].row.first
  BY <1>1, <1>2, CommitPublishes
<1>4. \A n \in Messages : link'[n] = IF n = m THEN i ELSE link[n]
  BY <1>1, <1>3
<1>5. \A j \in Ids : j # NoInc
  BY DEF Ids, NoInc
<1>6. \A n \in Messages : task'[n].pc \notin InGrouping
  BY <1>1, CommitTasks
<1>7. HostRead' /\ NewApart'
  BY <1>6 DEF HostRead, NewApart, InGrouping
<1>8. \A j \in live : j # i /\ Groupable(j)' => Groupable(j)
  BY <1>1, <1>3, <1>6 DEF Groupable, MergedInto
<1>9. \A n \in Messages, j \in Ids : n # m /\ j # i => (Begins(n, j)' <=> Begins(n, j))
  BY <1>3, <1>4 DEF Begins
<1>10. CASE ~task[m].created
  <2>1. /\ i \in live /\ live' = live
        /\ inc'[i].first = inc[i].first
        /\ \A n \in Messages : link[n] = i => Alert[n].agent = Alert[m].agent
    BY <1>1, <1>2, <1>3, <1>10 DEF GroupedLive, RowRead, ReadOf, HostRead
  <2>2. OneAgent'
    BY <1>1, <1>4, <2>1 DEF OneAgent
  <2>3. \A j \in live : Groupable(j)' => Groupable(j)
    BY <1>2, <1>3, <1>8, <1>10, <2>1 DEF Groupable, MergedInto
  <2>4. ASSUME NEW n \in Messages, NEW j \in live, Begins(n, j)'
        PROVE  \E p \in Messages : /\ Begins(p, j) /\ Alert[p].agent = Alert[n].agent
                                   /\ Alert[p].time = Alert[n].time
    <3>1. CASE n # m
      BY <1>1, <1>3, <1>4, <2>1, <2>4, <3>1 DEF Begins
    <3>2. CASE n = m
      <4>1. j = i /\ Alert[m].time = inc[i].first
        BY <1>4, <2>1, <2>4, <3>2 DEF Begins
      <4>2. PICK p \in Messages : link[p] = i /\ Alert[p].time = inc[i].first
        BY <1>1, <2>1 DEF RowsOfAlerts
      <4> QED
        BY <2>1, <3>2, <4>1, <4>2 DEF Begins
    <3> QED
      BY <3>1, <3>2
  <2>5. BeginApart'
    <3> SUFFICES ASSUME NEW n \in Messages, NEW q \in Messages, NEW j \in live, NEW k \in live,
                        j # k, Groupable(j)', Groupable(k)', Begins(n, j)', Begins(q, k)',
                        Alert[n].agent = Alert[q].agent
                 PROVE  \/ Alert[n].time > Alert[q].time + Window
                        \/ Alert[q].time > Alert[n].time + Window
      BY <2>1 DEF BeginApart
    <3>1. PICK p \in Messages : /\ Begins(p, j) /\ Alert[p].agent = Alert[n].agent
                                /\ Alert[p].time = Alert[n].time
      BY <2>4
    <3>2. PICK r \in Messages : /\ Begins(r, k) /\ Alert[r].agent = Alert[q].agent
                                /\ Alert[r].time = Alert[q].time
      BY <2>4
    <3>3. Groupable(j) /\ Groupable(k)
      BY <2>3
    <3>4. \/ Alert[p].time > Alert[r].time + Window
          \/ Alert[r].time > Alert[p].time + Window
      BY <1>1, <3>1, <3>2, <3>3 DEF BeginApart
    <3> QED
      BY <3>1, <3>2, <3>4
  <2> QED
    BY <1>7, <2>2, <2>5 DEF HostInv
<1>11. CASE task[m].created
  <2>1. /\ i \notin live
        /\ \A n \in Messages : link[n] # i
    BY <1>1, <1>2, <1>3, <1>5, <1>11 DEF GroupedLive, NoOrphanAlerts
  <2>2. OneAgent'
    BY <1>1, <1>4, <2>1 DEF OneAgent
  <2>3. \A n \in Messages : Begins(n, i)' => n = m
    BY <1>4, <2>1 DEF Begins
  <2>4. \A j \in live : ~Begins(m, j)'
    BY <1>4, <2>1 DEF Begins
  <2>5. ASSUME NEW n \in Messages, NEW j \in live, Groupable(j)', Begins(n, j)',
               Alert[m].agent = Alert[n].agent
        PROVE  Alert[m].time > Alert[n].time + Window
    BY <1>1, <1>3, <1>8, <1>9, <1>11, <2>1, <2>4, <2>5 DEF NewApart
  <2>6. BeginApart'
    <3> SUFFICES ASSUME NEW n \in Messages, NEW q \in Messages, NEW j \in live', NEW k \in live',
                        j # k, Groupable(j)', Groupable(k)', Begins(n, j)', Begins(q, k)',
                        Alert[n].agent = Alert[q].agent
                 PROVE  \/ Alert[n].time > Alert[q].time + Window
                        \/ Alert[q].time > Alert[n].time + Window
      BY DEF BeginApart
    <3>1. CASE j = i
      <4>1. n = m /\ k \in live
        BY <1>3, <2>3, <3>1
      <4> QED
        BY <2>5, <4>1
    <3>2. CASE k = i
      <4>1. q = m /\ j \in live
        BY <1>3, <2>3, <3>2
      <4> QED
        BY <2>5, <4>1
    <3>3. CASE j # i /\ k # i
      <4>1. j \in live /\ k \in live /\ j \in Ids /\ k \in Ids
        BY <1>1, <1>3, <3>3
      <4>2. n # m /\ q # m
        BY <2>4, <4>1
      <4>3. Groupable(j) /\ Groupable(k) /\ Begins(n, j) /\ Begins(q, k)
        BY <1>8, <1>9, <3>3, <4>1, <4>2
      <4> QED
        BY <1>1, <4>1, <4>3 DEF BeginApart
    <3> QED
      BY <3>1, <3>2, <3>3
  <2> QED
    BY <1>7, <2>2, <2>6 DEF HostInv
<1> QED
  BY <1>10, <1>11

(* Incidents that are deleted take all their alerts with them.             *)
LEMMA HostDelete ==
    ASSUME HostInv, RowsInv', NEW d \in Archivers, DeleteIncidents(d)
    PROVE  HostInv'
<1>1. /\ OneAgent /\ HostRead /\ BeginApart /\ NewApart /\ ArchiveInv
  BY DEF HostInv, RowsInv
<1>2. /\ task' = task
      /\ \A i \in live' : i \in live /\ inc'[i] = inc[i]
      /\ \A m \in Messages, i \in live' : link'[m] = i <=> link[m] = i
      /\ \A m \in Messages : link'[m] = NoInc \/ link'[m] = link[m]
      /\ \A m \in Messages : task[m].pc \in InGrouping => task[m].id # NoInc
  BY <1>1, DeletesTake DEF Ids, NoInc
<1>3. OneAgent'
  BY <1>1, <1>2 DEF OneAgent
<1>4. HostRead'
  BY <1>1, <1>2 DEF HostRead
<1>5. \A i \in live' : Groupable(i)' => Groupable(i)
  BY <1>2 DEF Groupable, MergedInto
<1>6. \A m \in Messages, i \in live' : Begins(m, i)' => Begins(m, i)
  BY <1>2 DEF Begins
<1>7. BeginApart'
  BY <1>1, <1>2, <1>5, <1>6 DEF BeginApart
<1>8. NewApart'
  BY <1>1, <1>2, <1>5, <1>6 DEF NewApart
<1> QED
  BY <1>3, <1>4, <1>7, <1>8 DEF HostInv

(* What keeps the hosts apart is kept by every step but those of people.   *)
LEMMA HostStep ==
    ASSUME Analysts = {}, Patchers = {}, Purgers = {}, OneArchiver, HostsApart,
           PageHoldsAll, HostInv, [Next]_vars
    PROVE  HostInv'
<1>1. RowsInv' /\ EngineInv /\ Deleters = Archivers
  BY RowsStep DEF HostInv, RowsInv, ArchiveInv, Deleters
<1>2. CASE TablesRest
  BY <1>1, <1>2, HostKept DEF TablesRest, tables, SameAlerts
<1>3. CASE RowsUpdated
  <2>1. \A i \in Ids : SameAlerts(i)
    BY <1>3 DEF RowsUpdated
  <2>2. \A i \in Ids : inc'[i].status \in ActiveStatuses => inc[i].status \in ActiveStatuses
    BY <1>3 DEF RowsUpdated
  <2>3. UNCHANGED <<task, link, live>>
    BY <1>3 DEF RowsUpdated
  <2> QED
    BY <1>1, <2>1, <2>2, <2>3, HostKept
<1>4. ASSUME NEW m \in Messages, GroupingStep(m)
      PROVE  HostInv'
  BY <1>1, <1>4, HostGrouping
<1>5. ASSUME NEW m \in Messages, CommitStepOf(m)
      PROVE  HostInv'
  BY <1>1, <1>5, HostCommit
<1>6. ASSUME NEW d \in Deleters, DeleteIncidents(d)
      PROVE  HostInv'
  BY <1>1, <1>6, HostDelete
<1> QED
  BY <1>1, <1>2, <1>3, <1>4, <1>5, <1>6, Kinds

(* Two active incidents of a host do not begin within one window, however  *)
(* alert tasks, sweeps, the archiver and crashes race (GroupMatch,         *)
(* GroupCreate, Commit): provided the addresses and users of two hosts are *)
(* disjoint and the 20 candidates read hold every active incident in range *)
(* (grouper.py:128).  Without either the engine may split a host's alerts. *)
THEOREM HostAlertsGroup ==
    ASSUME Analysts = {}, Patchers = {}, Purgers = {}, OneArchiver, HostsApart
    PROVE  Spec /\ []PageHoldsAll => []SameHostGroups
<1>1. Init => HostInv
  BY RowsInit DEF Init, HostInv, OneAgent, HostRead, BeginApart, NewApart, NewTask, InGrouping
<1>2. HostInv /\ PageHoldsAll /\ [Next]_vars => HostInv'
  BY HostStep
<1>3. HostInv => SameHostGroups
  BY DEF HostInv, BeginApart, SameHostGroups, Groupable, Begins
<1> QED
  BY <1>1, <1>2, <1>3, PTL DEF Spec
-----------------------------------------------------------------------------
(* The incident table.                                                     *)

(* The status a merge read is that of the row when it is published.        *)
StatusRead ==
    \A m \in Messages :
        task[m].pc \in InGrouping /\ ~task[m].created =>
            task[m].row.status = inc[task[m].id].status

Fitting(m) == {i \in Eligible(m) : SharesEntity(m, i)}

(* The candidates that come before i on a page, or may.                    *)
Ahead(m, i) == {j \in Eligible(m) \ {i} : inc[j].last >= inc[i].last}

(* What a task chose is still its choice when the commit publishes it.     *)
FirstFit(m, i) ==
    i \in Fitting(m) /\ \A j \in Fitting(m) : inc[j].last <= inc[i].last
NoneFits(m) == \A i \in Fitting(m) : Cardinality(Ahead(m, i)) >= CandidateLimit

Chosen ==
    \A m \in Messages :
        task[m].pc \in InGrouping =>
            IF task[m].created THEN NoneFits(m) ELSE FirstFit(m, task[m].id)

TableInv == RowsInv /\ StatusRead /\ Chosen

ActiveRows == {i \in live : inc[i].status \in ActiveStatuses}

(* The candidates stay as they were.                                       *)
SameCandidates ==
    /\ ActiveRows' = ActiveRows
    /\ \A i \in ActiveRows : SameAlerts(i) /\ inc'[i].status = inc[i].status

LEMMA CandidatesKept ==
    ASSUME SameCandidates, NEW m \in Messages
    PROVE  /\ Eligible(m)' = Eligible(m)
           /\ Fitting(m)' = Fitting(m)
           /\ \A i \in Eligible(m) : Ahead(m, i)' = Ahead(m, i)
           /\ \A i \in Eligible(m) : /\ inc'[i].last = inc[i].last
                                     /\ inc'[i].status = inc[i].status
<1>1. /\ \A i : i \in live' /\ inc'[i].status \in ActiveStatuses <=>
                i \in live /\ inc[i].status \in ActiveStatuses
      /\ \A i \in live : inc[i].status \in ActiveStatuses =>
            /\ inc'[i].first = inc[i].first /\ inc'[i].last = inc[i].last
            /\ inc'[i].entities = inc[i].entities /\ inc'[i].status = inc[i].status
  BY DEF SameCandidates, ActiveRows, SameAlerts
<1>2. Eligible(m)' = Eligible(m)
  BY <1>1 DEF Eligible
<1>3. \A i \in Eligible(m) : /\ inc'[i].last = inc[i].last
                             /\ inc'[i].entities = inc[i].entities
                             /\ inc'[i].status = inc[i].status
  BY <1>1 DEF Eligible
<1>4. Fitting(m)' = Fitting(m)
  BY <1>2, <1>3 DEF Fitting, SharesEntity
<1>5. \A i \in Eligible(m) : Ahead(m, i)' = Ahead(m, i)
  BY <1>2, <1>3 DEF Ahead
<1> QED
  BY <1>2, <1>3, <1>4, <1>5

LEMMA ChoiceKept ==
    ASSUME StatusRead, Chosen, SameCandidates,
           \A m \in Messages : task'[m].pc \in InGrouping => task'[m] = task[m]
    PROVE  (StatusRead /\ Chosen)'
<1> SUFFICES ASSUME NEW m \in Messages, task'[m].pc \in InGrouping
             PROVE  /\ ~task'[m].created => task'[m].row.status = inc'[task'[m].id].status
                    /\ IF task'[m].created THEN NoneFits(m)' ELSE FirstFit(m, task[m].id)'
  BY DEF StatusRead, Chosen
<1>1. task'[m] = task[m] /\ task[m].pc \in InGrouping
  OBVIOUS
<1>2. CASE task[m].created
  <2>1. NoneFits(m)
    BY <1>1, <1>2 DEF Chosen
  <2>2. NoneFits(m)'
    BY <2>1, CandidatesKept DEF NoneFits, Fitting
  <2> QED
    BY <1>1, <1>2, <2>2
<1>3. CASE ~task[m].created
  <2>1. FirstFit(m, task[m].id) /\ task[m].row.status = inc[task[m].id].status
    BY <1>1, <1>3 DEF Chosen, StatusRead
  <2>2. FirstFit(m, task[m].id)' /\ inc'[task[m].id].status = inc[task[m].id].status
    BY <1>1, <2>1, CandidatesKept DEF FirstFit, Fitting
  <2> QED
    BY <1>1, <1>3, <2>1, <2>2
<1> QED
  BY <1>2, <1>3

(* The first match on a page is the first of all candidates.               *)
LEMMA MatchIsFirst ==
    ASSUME EngineInv, NEW m \in Messages, NEW page \in Page(Eligible(m)),
           NEW i \in FirstMatches(m, page)
    PROVE  FirstFit(m, i)
<1>1. page \subseteq Eligible(m) /\ \A j \in page, k \in Eligible(m) \ page : inc[j].last >= inc[k].last
  BY DEF Page
<1>2. i \in page /\ SharesEntity(m, i)
      /\ \A j \in page : SharesEntity(m, j) => inc[i].last >= inc[j].last
  BY DEF FirstMatches
<1>3. \A j \in Eligible(m) : inc[j].last \in Nat
  BY DEF EngineInv, TypeOK, IncidentRow, Eligible
<1>4. \A j \in Fitting(m) : inc[j].last <= inc[i].last
  BY <1>1, <1>2, <1>3 DEF Fitting
<1> QED
  BY <1>1, <1>2, <1>4 DEF FirstFit, Fitting

(* A page without a match is full of candidates that come before those     *)
(* that fit.                                                               *)
LEMMA PageHides ==
    ASSUME EngineInv, NEW m \in Messages, NEW page \in Page(Eligible(m)),
           FirstMatches(m, page) = {}
    PROVE  NoneFits(m)
<1> SUFFICES ASSUME NEW i \in Fitting(m)
             PROVE  Cardinality(Ahead(m, i)) >= CandidateLimit
  BY DEF NoneFits
<1>1. /\ page \subseteq Eligible(m)
      /\ Cardinality(page) <= CandidateLimit
      /\ Cardinality(page) < CandidateLimit => page = Eligible(m)
      /\ \A j \in page, k \in Eligible(m) \ page : inc[j].last >= inc[k].last
  BY DEF Page
<1>2. page \in SUBSET live /\ i \in Eligible(m) /\ SharesEntity(m, i)
  BY <1>1 DEF Fitting, Eligible
<1>3. i \notin page
  BY <1>2, MatchExists
<1>4. page \subseteq Ahead(m, i)
  BY <1>1, <1>2, <1>3 DEF Ahead
<1>5. IsFiniteSet(Ahead(m, i))
  <2>1. Ahead(m, i) \subseteq Ids
    BY DEF Ahead, Eligible, EngineInv, TypeOK
  <2>2. IsFiniteSet(Ids)
    BY BoundsAssumption, FS_Interval DEF Ids
  <2> QED
    BY <2>1, <2>2, FS_Subset
<1>6. /\ Cardinality(page) \in Nat /\ Cardinality(Ahead(m, i)) \in Nat
      /\ Cardinality(page) <= Cardinality(Ahead(m, i))
  BY <1>4, <1>5, FS_Subset, FS_CardinalityType
<1>7. Cardinality(page) = CandidateLimit
  BY <1>1, <1>2, <1>3, <1>6, BoundsAssumption
<1> QED
  BY <1>6, <1>7

LEMMA ChoiceMade ==
    ASSUME RowsInv, StatusRead, Chosen, NEW m \in Messages, GroupingStep(m)
    PROVE  (StatusRead /\ Chosen)'
<1>1. EngineInv /\ GroupedLive
  BY DEF RowsInv, ArchiveInv
<1>2. /\ UNCHANGED <<link, live, inc>>
      /\ \A n \in Messages : task'[n].pc \in InGrouping => n = m
  BY <1>1, GroupingTasks DEF tables
<1> SUFFICES /\ ~task'[m].created => task'[m].row.status = inc[task'[m].id].status
             /\ task'[m].created => NoneFits(m)
             /\ ~task'[m].created => \E i \in Ids : i = task'[m].id /\ FirstFit(m, i)
  <2>1. \A i \in Ids : FirstFit(m, i)' <=> FirstFit(m, i)
    BY <1>2 DEF FirstFit, Fitting, Eligible, SharesEntity
  <2>2. NoneFits(m)' <=> NoneFits(m)
    BY <1>2 DEF NoneFits, Ahead, Fitting, Eligible, SharesEntity
  <2>3. StatusRead'
    BY <1>2 DEF StatusRead
  <2>4. IF task'[m].created THEN NoneFits(m)' ELSE FirstFit(m, task[m].id)'
    BY <2>1, <2>2
  <2> QED
    BY <1>2, <2>3, <2>4 DEF Chosen
<1>3. CASE GroupMatch(m)
  <2>1. PICK page \in Page(Eligible(m)) : \E i \in FirstMatches(m, page) :
           task' = [task EXCEPT ![m] = [pc |-> "matched", id |-> i, created |-> FALSE,
                                        row |-> inc[i]]]
    BY <1>3 DEF GroupMatch
  <2> PICK i \in FirstMatches(m, page) :
         task' = [task EXCEPT ![m] = [pc |-> "matched", id |-> i, created |-> FALSE,
                                      row |-> inc[i]]]
    BY <2>1
  <2>2. /\ task'[m].id = i /\ ~task'[m].created /\ task'[m].row = inc[i]
    BY <1>1, <2>1 DEF EngineInv, TypeOK
  <2>3. FirstFit(m, i)
    BY <1>1, MatchIsFirst
  <2>4. i \in Ids
    BY <1>1, <2>3 DEF FirstFit, Fitting, Eligible, EngineInv, TypeOK
  <2> QED
    BY <2>2, <2>3, <2>4
<1>4. CASE GroupCreate(m)
  BY <1>1, <1>4, CreateReads, PageHides DEF GroupCreate
<1>5. CASE MergeFlush(m)
  <2>1. /\ task[m].pc = "matched" /\ task[m].pc \in InGrouping
        /\ ~task[m].created /\ task[m].id \in Ids /\ task[m].row \in IncidentRow
    BY <1>1, <1>5 DEF MergeFlush, InGrouping, GroupedLive, EngineInv, TypeOK, TaskType
  <2>2. /\ task'[m].created = task[m].created /\ task'[m].id = task[m].id
        /\ task'[m].row.status = task[m].row.status
    BY <1>1, <1>5, <2>1, FlushReads, MergedFields
  <2> QED
    BY <2>1, <2>2 DEF StatusRead, Chosen
<1> QED
  BY <1>3, <1>4, <1>5 DEF GroupingStep

LEMMA TableInvStep ==
    ASSUME Analysts = {}, Patchers = {}, Sweepers = {}, Purgers = {}, OneArchiver,
           TableInv, [Next]_vars
    PROVE  TableInv'
<1>1. RowsInv' /\ RowsInv /\ StatusRead /\ Chosen
  BY RowsStep DEF TableInv
<1>2. EngineInv /\ ArchiveInv /\ Deleters = Archivers /\ live \subseteq Ids
  BY <1>1 DEF RowsInv, ArchiveInv, Deleters, EngineInv, TypeOK
<1>3. CASE TablesRest
  <2>1. SameCandidates
    BY <1>3 DEF TablesRest, tables, SameCandidates, ActiveRows, SameAlerts
  <2> QED
    BY <1>1, <1>3, <2>1, ChoiceKept DEF TablesRest, TableInv
<1>4. CASE RowsUpdated
  <2>1. /\ UNCHANGED <<task, live>>
        /\ \A i \in Ids : SameAlerts(i) /\ inc'[i].status = inc[i].status
    BY <1>4 DEF RowsUpdated
  <2>2. SameCandidates
    BY <1>2, <2>1 DEF SameCandidates, ActiveRows
  <2> QED
    BY <1>1, <2>1, <2>2, ChoiceKept DEF TableInv
<1>5. ASSUME NEW m \in Messages, GroupingStep(m)
      PROVE  TableInv'
  BY <1>1, <1>5, ChoiceMade DEF TableInv
<1>6. ASSUME NEW m \in Messages, CommitStepOf(m)
      PROVE  TableInv'
  <2>1. StatusRead' /\ Chosen'
    BY <1>2, <1>6, CommitTasks DEF StatusRead, Chosen
  <2> QED
    BY <1>1, <2>1 DEF TableInv
<1>7. ASSUME NEW d \in Deleters, DeleteIncidents(d)
      PROVE  TableInv'
  <2> DEFINE ids == deletion[d].ids
  <2>1. /\ task' = task /\ live' = live \ ids
        /\ \A i \in ids : i \in live /\ inc[i].status \in ArchivedStatuses
        /\ \A i \in live' : inc'[i] = inc[i]
    BY <1>2, <1>7, DeletesTake
  <2>2. \A i \in ActiveRows : i \in live' /\ inc'[i] = inc[i]
    BY <2>1 DEF ActiveRows, ArchivedStatuses, ActiveStatuses
  <2>3. SameCandidates
    BY <2>1, <2>2 DEF SameCandidates, ActiveRows, SameAlerts
  <2> QED
    BY <1>1, <2>1, <2>3, ChoiceKept DEF TableInv
<1> QED
  BY <1>2, <1>3, <1>4, <1>5, <1>6, <1>7, Kinds

LEMMA TableInvInit == Init => TableInv
  BY RowsInit DEF Init, TableInv, StatusRead, Chosen, NewTask, InGrouping

(* The table's words for the rows.                                         *)
LEMMA TableRules ==
    /\ Table!ActiveStatuses = ActiveStatuses
    /\ \A s, fp : Table!BandStatus(s, fp, FpThreshold) = BandStatus(s, fp, FpThreshold)
    /\ \A S : Table!Cardinality(S) = Cardinality(S)
<1>1. Table!ActiveStatuses = ActiveStatuses
  BY DEF Table!ActiveStatuses, ActiveStatuses
<1>2. ASSUME NEW s, NEW fp
      PROVE  Table!BandStatus(s, fp, FpThreshold) = BandStatus(s, fp, FpThreshold)
  BY DEF Table!BandStatus, BandStatus, Table!SettledForBands, SettledForBands
<1>3. ASSUME NEW S
      PROVE  Table!Cardinality(S) = Cardinality(S)
  BY DEF Table!Cardinality, Cardinality
<1> QED
  BY <1>1, <1>2, <1>3

LEMMA TableSays ==
    ASSUME RowsOfAlerts, NEW i \in live, NEW x
    PROVE  Table!Says(i, x) <=> x \in inc[i].entities
<1>1. ASSUME Table!Says(i, x)
      PROVE  x \in inc[i].entities
  <2>1. PICK n \in Messages : /\ link[n] = i /\ x # NoValue
                              /\ x \in {Alert[n].agent, Alert[n].src, Alert[n].user, Alert[n].cat}
    BY <1>1 DEF Table!Says, Table!Alerts
  <2> QED
    BY <2>1 DEF RowsOfAlerts, EntitiesOf
<1>2. ASSUME x \in inc[i].entities
      PROVE  Table!Says(i, x)
  <2>1. PICK n \in Messages : link[n] = i /\ x \in EntitiesOf(n)
    BY <1>2 DEF RowsOfAlerts
  <2> QED
    BY <2>1 DEF EntitiesOf, Table!Says, Table!Alerts
<1> QED
  BY <1>1, <1>2

LEMMA TableShares ==
    ASSUME RowsOfAlerts, NEW m \in Messages, NEW i \in live
    PROVE  Table!Shares(m, i) <=> SharesEntity(m, i)
<1>1. NoValue \notin inc[i].entities
  BY DEF RowsOfAlerts, EntitiesOf
<1> QED
  BY <1>1, TableSays DEF Table!Shares, SharesEntity

(* last_seen is the time of the latest alert.                              *)
LEMMA TableTimes ==
    ASSUME RowsOfAlerts, NEW i \in live
    PROVE  /\ \E n \in Messages : link[n] = i /\ Alert[n].time = inc[i].last
           /\ \A n \in Messages : link[n] = i => Alert[n].time <= inc[i].last
           /\ \A n \in Messages : Alert[n].time \in Nat
           /\ inc[i].last \in Nat
<1>1. \A n \in Messages : Alert[n].time \in Nat
  BY AlertAssumption DEF AlertType
<1> QED
  BY <1>1 DEF RowsOfAlerts

LEMMA TableRange ==
    ASSUME RowsOfAlerts, NEW m \in Messages, NEW i \in Ids
    PROVE  Table!InRange(m, i) <=> i \in Eligible(m)
<1>1. CASE i \notin live
  BY <1>1, TableRules DEF Table!InRange, Eligible, ActiveStatuses
<1>2. CASE i \in live
  <2>1. (\E n \in Messages : link[n] = i /\ Alert[m].time <= Alert[n].time + Window)
           <=> Alert[m].time <= inc[i].last + Window
    <3>1. Window \in Nat
      BY BoundsAssumption
    <3> QED
      BY <1>2, <3>1, TableTimes
  <2> QED
    BY <1>2, <2>1, TableRules DEF Table!InRange, Table!Alerts, Eligible
<1> QED
  BY <1>1, <1>2

LEMMA TableNewer ==
    ASSUME RowsOfAlerts, NEW i \in live, NEW j \in live
    PROVE  Table!Newer(i, j) <=> inc[i].last > inc[j].last
<1>1. Table!Newer(i, j) <=>
        \E n \in Messages : /\ link[n] = i
                            /\ \A k \in Messages : link[k] = j => Alert[n].time > Alert[k].time
  BY DEF Table!Newer, Table!Alerts
<1>2. ASSUME NEW n \in Messages, link[n] = i,
             \A k \in Messages : link[k] = j => Alert[n].time > Alert[k].time
      PROVE  inc[i].last > inc[j].last
  <2>1. PICK k \in Messages : link[k] = j /\ Alert[k].time = inc[j].last
    BY TableTimes
  <2>2. Alert[n].time > inc[j].last /\ Alert[n].time <= inc[i].last
    BY <1>2, <2>1, TableTimes
  <2> QED
    BY <2>2, TableTimes
<1>3. ASSUME inc[i].last > inc[j].last
      PROVE  \E n \in Messages :
                /\ link[n] = i
                /\ \A k \in Messages : link[k] = j => Alert[n].time > Alert[k].time
  <2>1. PICK n \in Messages : link[n] = i /\ Alert[n].time = inc[i].last
    BY TableTimes
  <2>2. ASSUME NEW k \in Messages, link[k] = j
        PROVE  Alert[n].time > Alert[k].time
    <3>1. Alert[k].time <= inc[j].last /\ inc[i].last \in Nat /\ inc[j].last \in Nat
          /\ Alert[k].time \in Nat
      BY <2>2, TableTimes
    <3> QED
      BY <1>3, <2>1, <3>1
  <2> QED
    BY <2>1, <2>2
<1> QED
  BY <1>1, <1>2, <1>3

LEMMA TableFits ==
    ASSUME EngineInv, RowsOfAlerts, NEW m \in Messages, NEW i \in Ids
    PROVE  Table!Fits(m, i) <=> i \in Fitting(m)
<1>1. Table!InRange(m, i) <=> i \in Eligible(m)
  BY TableRange
<1>2. i \in Eligible(m) => (Table!Shares(m, i) <=> SharesEntity(m, i))
  BY TableShares DEF Eligible
<1> QED
  BY <1>1, <1>2 DEF Table!Fits, Fitting

LEMMA TableHidden ==
    ASSUME EngineInv, RowsOfAlerts, NEW m \in Messages, NEW i \in Eligible(m)
    PROVE  Table!Hidden(m, i) <=> Cardinality(Ahead(m, i)) >= CandidateLimit
<1>1. live \subseteq Ids /\ i \in live /\ \A j \in live : inc[j].last \in Nat
  BY DEF EngineInv, TypeOK, IncidentRow, Eligible
<1>2. ASSUME NEW j \in Ids
      PROVE  Table!InRange(m, j) /\ ~Table!Newer(i, j) <=>
               j \in Eligible(m) /\ inc[j].last >= inc[i].last
  <2>1. Table!InRange(m, j) <=> j \in Eligible(m)
    BY TableRange
  <2>2. j \in Eligible(m) => (Table!Newer(i, j) <=> inc[i].last > inc[j].last)
    BY <1>1, TableNewer DEF Eligible
  <2>3. j \in Eligible(m) => inc[j].last \in Nat /\ inc[i].last \in Nat
    BY <1>1 DEF Eligible
  <2> QED
    BY <2>1, <2>2, <2>3
<1>3. {j \in Ids \ {i} : Table!InRange(m, j) /\ ~Table!Newer(i, j)} = Ahead(m, i)
  BY <1>1, <1>2 DEF Ahead, Eligible
<1>4. Table!Hidden(m, i) <=>
        Table!Cardinality({j \in Ids \ {i} : Table!InRange(m, j) /\ ~Table!Newer(i, j)})
           >= CandidateLimit
  BY DEF Table!Hidden
<1> QED
  BY <1>3, <1>4, TableRules

(* What a commit publishes of the status.                                  *)
LEMMA CommitBands ==
    ASSUME EngineInv, StatusRead, NEW m \in Messages, CommitStepOf(m)
    PROVE  LET i == task[m].id
               seen == IF task[m].created THEN "investigating" ELSE inc[i].status
           IN \E fp \in Scores : inc'[i].status = BandStatus(seen, fp, FpThreshold)
<1> DEFINE t == task[m]
           i == t.id
           seen == IF t.created THEN "investigating" ELSE inc[i].status
<1>1. PICK fp \in Scores, e \in RuleSeverities : Commit(m, fp, e)
  BY DEF CommitStepOf
<1>2. /\ i \in Ids /\ t.pc \in InGrouping /\ t.row \in IncidentRow
      /\ inc \in [Ids -> IncidentRow]
  BY CommitPublishes DEF EngineInv, TypeOK
<1>3. SeenStatus(t) = seen
  BY <1>2 DEF SeenStatus, StatusRead
<1>4. inc'[i].status = WrittenStatus(t, BandStatus(SeenStatus(t), fp, FpThreshold), inc[i].status)
  <2> DEFINE next == BandStatus(SeenStatus(t), fp, FpThreshold)
             severity == SoftCap(HigherSeverity(t.row.severity, e), fp)
             opens == BandOpensCase(t.row.hasCase, severity, fp, FpThreshold)
  <2>1. inc' = [inc EXCEPT ![i] =
                 [t.row EXCEPT
                     !.status = WrittenStatus(t, next, inc[i].status),
                     !.severity = severity,
                     !.hasCase = opens \/ (~t.created /\ inc[i].hasCase)]]
    BY <1>1 DEF Commit
  <2> HIDE DEF next, severity, opens, t, i
  <2> QED
    BY <1>2, <2>1 DEF IncidentRow, next
<1>5. inc'[i].status = BandStatus(seen, fp, FpThreshold)
  <2> DEFINE next == BandStatus(seen, fp, FpThreshold)
  <2>1. inc'[i].status = WrittenStatus(t, next, inc[i].status)
    BY <1>3, <1>4
  <2>2. SeenStatus(t) = seen /\ (~t.created => seen = inc[i].status)
    BY <1>3
  <2> HIDE DEF next, seen
  <2> QED
    BY <2>1, <2>2 DEF WrittenStatus, next
<1> QED
  BY <1>5

LEMMA TableUnknown ==
    ASSUME EngineInv, NEW m \in Messages, CommitStepOf(m)
    PROVE  Table!Unknown(m)
  BY CommitPublishes DEF Table!Unknown, SameEvent, NoInc

(* Steps that leave the rows of the table as they are.                     *)
LEMMA TableStutters ==
    ASSUME live \subseteq Ids, UNCHANGED <<link, live>>,
           \A i \in Ids : inc'[i].first = inc[i].first /\ inc'[i].status = inc[i].status
    PROVE  UNCHANGED Table!vars
  BY DEF Table!vars

(* The commit of a merge is a Join.                                        *)
LEMMA TableJoins ==
    ASSUME TableInv, NEW m \in Messages, CommitStepOf(m), ~task[m].created
    PROVE  \E i \in Ids : Table!Join(m, i)
<1>1. /\ EngineInv /\ GroupedLive /\ RowsOfAlerts /\ RowRead /\ StatusRead /\ Chosen
      /\ live \subseteq Ids /\ inc \in [Ids -> IncidentRow]
  BY DEF TableInv, RowsInv, ArchiveInv, EngineInv, TypeOK
<1>2. PICK i \in Ids : i = task[m].id
  BY <1>1, CommitPublishes
<1>3. /\ i \in live /\ live' = live /\ link' = [link EXCEPT ![m] = i]
      /\ \A j \in Ids : j # i => inc'[j] = inc[j]
      /\ inc'[i].first = inc[i].first
  <2>1. task[m].pc = "written" /\ task[m].pc \in InGrouping
    BY <1>1, CommitPublishes
  <2>2. task[m].row.first = inc[i].first
    BY <1>1, <1>2, <2>1 DEF RowRead, ReadOf
  <2>3. i \in live
    BY <1>1, <1>2, <2>1 DEF GroupedLive
  <2> QED
    BY <1>1, <1>2, <2>2, <2>3, CommitPublishes
<1>4. FirstFit(m, i)
  BY <1>1, <1>2, CommitPublishes DEF Chosen
<1>5. Table!Fits(m, i)
  BY <1>1, <1>4, TableFits DEF FirstFit
<1>6. ASSUME NEW j \in Ids, Table!Fits(m, j)
      PROVE  ~Table!Newer(j, i)
  <2>1. j \in live /\ inc[j].last <= inc[i].last
    BY <1>1, <1>4, <1>6, TableFits DEF FirstFit, Fitting, Eligible
  <2>2. inc[j].last \in Nat /\ inc[i].last \in Nat
    BY <1>1 DEF IncidentRow
  <2> QED
    BY <1>1, <1>3, <2>1, <2>2, TableNewer
<1>7. PICK fp \in Scores : inc'[i].status = BandStatus(inc[i].status, fp, FpThreshold)
  BY <1>1, <1>2, CommitBands
<1> DEFINE status == [j \in Ids |-> IF j \in live THEN inc[j].status ELSE "none"]
<1>8. \E s \in Table!AfterBand(status[i]) : status' = [status EXCEPT ![i] = s]
  <2>1. status[i] = inc[i].status
    BY <1>3
  <2>2. inc'[i].status \in Table!AfterBand(status[i])
    BY <1>7, <2>1, TableRules DEF Table!AfterBand
  <2>3. status' = [status EXCEPT ![i] = inc'[i].status]
    BY <1>3
  <2> QED
    BY <2>2, <2>3
<1>9. UNCHANGED [j \in Ids |-> IF j \in live THEN inc[j].first ELSE 0]
  BY <1>3
<1>10. Table!Join(m, i)
  BY <1>1, <1>2, <1>3, <1>5, <1>6, <1>8, <1>9, TableUnknown DEF Table!Join
<1> QED
  BY <1>10

(* The commit of a new incident is a Begin.                                *)
LEMMA TableBegins ==
    ASSUME TableInv, NEW m \in Messages, CommitStepOf(m), task[m].created
    PROVE  \E i \in Ids : Table!Begin(m, i)
<1>1. /\ EngineInv /\ GroupedLive /\ RowsOfAlerts /\ RowRead /\ StatusRead /\ Chosen
      /\ live \subseteq Ids /\ inc \in [Ids -> IncidentRow]
  BY DEF TableInv, RowsInv, ArchiveInv, EngineInv, TypeOK
<1>2. PICK i \in Ids : i = task[m].id
  BY <1>1, CommitPublishes
<1>3. /\ i \notin live /\ live' = live \cup {i} /\ link' = [link EXCEPT ![m] = i]
      /\ \A j \in Ids : j # i => inc'[j] = inc[j]
      /\ inc'[i].first = Alert[m].time
  <2>1. task[m].pc = "written" /\ task[m].pc \in InGrouping
    BY <1>1, CommitPublishes
  <2>2. task[m].row.first = Alert[m].time
    BY <1>1, <2>1 DEF RowRead, ReadOf
  <2>3. i \notin live
    BY <1>1, <1>2, <2>1 DEF GroupedLive
  <2> QED
    BY <1>1, <1>2, <2>2, <2>3, CommitPublishes
<1>4. NoneFits(m)
  BY <1>1, CommitPublishes DEF Chosen
<1>5. \A j \in Ids : Table!Fits(m, j) => Table!Hidden(m, j)
  BY <1>1, <1>4, TableFits, TableHidden DEF NoneFits, Fitting
<1>6. PICK fp \in Scores : inc'[i].status = BandStatus("investigating", fp, FpThreshold)
  BY <1>1, <1>2, CommitBands
<1> DEFINE status == [j \in Ids |-> IF j \in live THEN inc[j].status ELSE "none"]
           first == [j \in Ids |-> IF j \in live THEN inc[j].first ELSE 0]
<1>7. \E s \in Table!AfterBand("investigating") : status' = [status EXCEPT ![i] = s]
  <2>1. inc'[i].status \in Table!AfterBand("investigating")
    BY <1>6, TableRules DEF Table!AfterBand
  <2>2. status' = [status EXCEPT ![i] = inc'[i].status]
    BY <1>3
  <2> QED
    BY <2>1, <2>2
<1>8. first' = [first EXCEPT ![i] = Alert[m].time]
  BY <1>3
<1>9. status[i] = "none"
  BY <1>3
<1>10. Table!Begin(m, i)
  BY <1>1, <1>2, <1>3, <1>5, <1>7, <1>8, <1>9, TableUnknown DEF Table!Begin
<1> QED
  BY <1>10

(* A run of the archiver is an Archive.                                    *)
LEMMA TableArchives ==
    ASSUME ArchiveInv, NEW d \in Archivers, DeleteIncidents(d)
    PROVE  \E S \in SUBSET Table!Settled : Table!Archive(S)
<1>1. live \subseteq Ids
  BY DEF ArchiveInv, EngineInv, TypeOK
<1>2. PICK S \in SUBSET Ids : S = deletion[d].ids
  BY <1>1, DeletesTake
<1>3. /\ live' = live \ S
      /\ \A i \in S : i \in live /\ inc[i].status \in ArchivedStatuses
      /\ link' = [m \in Messages |-> IF link[m] \in S THEN NoInc ELSE link[m]]
      /\ \A i \in live' : inc'[i] = inc[i]
  BY <1>2, DeletesTake
<1>4. S \in SUBSET Table!Settled
  BY <1>1, <1>3 DEF Table!Settled, ArchivedStatuses
<1> DEFINE status == [i \in Ids |-> IF i \in live THEN inc[i].status ELSE "none"]
           first == [i \in Ids |-> IF i \in live THEN inc[i].first ELSE 0]
<1>5. status' = [i \in Ids |-> IF i \in S THEN "none" ELSE status[i]]
  BY <1>3
<1>6. first' = [i \in Ids |-> IF i \in S THEN 0 ELSE first[i]]
  BY <1>3
<1>7. Table!Archive(S)
  BY <1>3, <1>5, <1>6 DEF Table!Archive, NoInc
<1> QED
  BY <1>4, <1>7

LEMMA TableStep ==
    ASSUME Analysts = {}, Patchers = {}, Sweepers = {}, Purgers = {},
           TableInv, [Next]_vars
    PROVE  [Table!Next]_(Table!vars)
<1>1. EngineInv /\ ArchiveInv /\ Deleters = Archivers /\ live \subseteq Ids
  BY DEF TableInv, RowsInv, ArchiveInv, Deleters, EngineInv, TypeOK
<1>2. CASE TablesRest
  BY <1>1, <1>2, TableStutters DEF TablesRest, tables
<1>3. CASE RowsUpdated
  <2>1. \A i \in Ids : inc'[i].first = inc[i].first /\ inc'[i].status = inc[i].status
    BY <1>3 DEF RowsUpdated, SameAlerts
  <2>2. UNCHANGED <<link, live>>
    BY <1>3 DEF RowsUpdated
  <2> QED
    BY <1>1, <2>1, <2>2, TableStutters
<1>4. ASSUME NEW m \in Messages, GroupingStep(m)
      PROVE  UNCHANGED Table!vars
  BY <1>1, <1>4, GroupingTasks, TableStutters DEF tables
<1>5. ASSUME NEW m \in Messages, CommitStepOf(m)
      PROVE  Table!Next
  <2>1. \E i \in Ids : Table!Join(m, i) \/ Table!Begin(m, i)
    BY <1>5, TableJoins, TableBegins
  <2> QED
    BY <2>1 DEF Table!Next
<1>6. ASSUME NEW d \in Deleters, DeleteIncidents(d)
      PROVE  Table!Next
  BY <1>1, <1>6, TableArchives DEF Table!Next
<1> QED
  BY <1>1, <1>2, <1>3, <1>4, <1>5, <1>6, Kinds

LEMMA TableInit == Init => Table!Init
  BY DEF Init, Table!Init, NoInc

(* As long as nobody but the engine and its archiver changes the           *)
(* incidents, the tasks, locks, transactions, failures and crashes of      *)
(* ingest implement the table that groups each alert in one step: the      *)
(* advisory lock of group_alert is enough.  A commit joins the latest      *)
(* incident that fits, or begins one when none does that the page of       *)
(* candidates shows (grouper.py:128), by what is stored when it publishes. *)
THEOREM EngineImplementsTable ==
    ASSUME Analysts = {}, Patchers = {}, Sweepers = {}, Purgers = {}, OneArchiver
    PROVE  Spec => TableSpec
<1>1. Init => TableInv /\ Table!Init
  BY TableInvInit, TableInit
<1>2. TableInv /\ [Next]_vars => TableInv'
  BY TableInvStep
<1>3. TableInv /\ [Next]_vars => [Table!Next]_(Table!vars)
  BY TableStep
<1> QED
  BY <1>1, <1>2, <1>3, PTL DEF Spec, TableSpec, Table!Spec
=============================================================================
