---------------------------- MODULE IncidentEngine ----------------------------
(***************************************************************************)
(* The incident lifecycle of the correlation engine: alert tasks that      *)
(* group alerts into incidents, analysts, schedulers and admins that       *)
(* change or delete the same rows, over one PostgreSQL database at READ    *)
(* COMMITTED.                                                              *)
(*                                                                         *)
(* A transaction is modelled by its reads (a step that copies what it      *)
(* read), its first row write (a step that waits for the row lock) and its *)
(* commit (a step that publishes every column the transaction wrote, and   *)
(* only those).  Enrichment (UEBA, risk, CyTIM, LLM, SOAR) reaches this    *)
(* state only through the FP probability and the severity that Commit      *)
(* takes from Scores and RuleSeverities.                                   *)
(***************************************************************************)
EXTENDS IncidentRules, FiniteSets, Sequences

CONSTANTS
    Messages,       \* raw alerts on the Redis list, one ingest task each
    Alert,          \* Alert[m]: the normalised alert of message m
    CloudSources,   \* categories grouped per identity
    NoValue,        \* an absent src_ip, username or category; also "no owner"
    Window,         \* CORRELATION_WINDOW_MINUTES
    MaxAge,         \* INCIDENT_MAX_AGE_MINUTES
    CandidateLimit, \* candidates read per alert (20 in the code)
    MaxTasks,       \* permits of _PROCESS_SEM (6 in the code)
    BatchSize,      \* alerts drained from Redis per cycle (10 in the code)
    FpThreshold,    \* fpThreshold of the settings (90 by default)
    Scores,         \* FP probabilities an alert may produce
    RuleSeverities, \* severities of the correlation rules that may fire, 0 for none
    Analysts, Patchers, CaseOpeners,  \* callers of the three row-writing APIs
    Sweepers,       \* batch-close, bulk-false-positive, FP auto-close runs
    Archivers, Purgers,  \* auto-archive and purge runs
    MaxIncidents,   \* bound: incident numbers used
    MaxOps,         \* bound: operations of people and schedulers
    MaxCrashes      \* bound: crashes of the engine process

AlertType == [wid: STRING, agent: STRING, src: STRING \cup {NoValue},
              user: STRING \cup {NoValue}, cat: STRING \cup {NoValue},
              time: Nat, score: Nat]

ASSUME BoundsAssumption ==
    /\ {MaxIncidents, MaxOps, MaxCrashes} \subseteq Nat
    /\ {Window, MaxAge, FpThreshold} \subseteq Nat
    /\ {CandidateLimit, MaxTasks, BatchSize} \subseteq Nat \ {0}
    /\ Window <= MaxAge

ASSUME AlertAssumption ==
    /\ Messages # {}
    /\ \A m \in Messages : Alert[m] \in AlertType
    /\ Scores \subseteq Nat
    /\ RuleSeverities \subseteq Severities
    /\ CloudSources \subseteq STRING
    /\ NoValue \notin STRING

(* An owner of a lock is told from another, and from none.                 *)
ASSUME OwnersAssumption ==
    /\ NoValue \notin Messages \cup Sweepers
    /\ Messages \cap Sweepers = {}

VARIABLES
    task,      \* ingest task of each message
    advisory,  \* holder of pg_advisory_xact_lock(20260617)
    link,      \* incident_id of each stored alert row, 0 without a row
    live,      \* numbers of the rows in table incidents
    inc,       \* the incident rows
    audit,     \* audit_log: entries of each incident id with a to_status, oldest first
    comments,  \* "case opened" system comments of each incident
    rowLock,   \* transaction holding the row lock of each incident
    analyst,   \* a /transition request of each analyst
    opener,    \* an open_case request of each case opener
    sweep,     \* a multi-row status update
    deletion,  \* a multi-row delete
    ops, crashes

tables == <<link, live, inc, audit, comments>>
requests == <<analyst, opener, sweep, deletion>>
vars == <<task, advisory, tables, rowLock, requests, ops, crashes>>

Deleters == Archivers \cup Purgers

Ids == 1..MaxIncidents
NoInc == 0
Entities == (UNION {{Alert[m].agent, Alert[m].src, Alert[m].user, Alert[m].cat} :
                       m \in Messages}) \ {NoValue}

(* A row of table incidents: the columns the lifecycle decides on.  The    *)
(* arrays affected_agents, src_ips, affected_users and categories hold     *)
(* disjoint kinds of strings and are kept as one set of entities.  age     *)
(* abstracts now() - updated_at: 0, over 7 days (1), over 30 days (2).     *)
IncidentRow == [status: Statuses, severity: Severities, count: Nat,
                first: Nat, last: Nat, entities: SUBSET Entities,
                hasCase: BOOLEAN, age: 0..2]

NoRow == [status |-> "open", severity |-> 0, count |-> 0, first |-> 0, last |-> 0,
          entities |-> {}, hasCase |-> FALSE, age |-> 0]

(* queued: on the Redis list; spawned: popped, an asyncio task waiting for *)
(* a permit; running: holds a permit; matched: holds the advisory lock and *)
(* has read the incident it will merge into; written: has flushed its      *)
(* incident row; the last three are final.                                 *)
FinalPcs == {"stored", "suppressed", "dropped"}
TaskPcs == {"queued", "spawned", "running", "matched", "written"} \cup FinalPcs
InGrouping == {"matched", "written"}

NewTask == [pc |-> "queued", id |-> NoInc, created |-> FALSE, row |-> NoRow]
Ended(how) == [NewTask EXCEPT !.pc = how]

IdleRequest == [pc |-> "idle", id |-> NoInc, from |-> "open", to |-> "open"]
IdleOpener == [pc |-> "idle", id |-> NoInc]
IdleSweep == [pc |-> "idle", kind |-> "none", todo |-> <<>>,
              from |-> [i \in Ids |-> "none"], to |-> "closed"]
IdleDeletion == [pc |-> "idle", ids |-> {}, doomed |-> {}]

Init ==
    /\ task = [m \in Messages |-> NewTask]
    /\ advisory = NoValue
    /\ link = [m \in Messages |-> NoInc]
    /\ live = {}
    /\ inc = [i \in Ids |-> NoRow]
    /\ audit = [i \in Ids |-> <<>>]
    /\ comments = [i \in Ids |-> 0]
    /\ rowLock = [i \in Ids |-> NoValue]
    /\ analyst = [a \in Analysts |-> IdleRequest]
    /\ opener = [c \in CaseOpeners |-> IdleOpener]
    /\ sweep = [w \in Sweepers |-> IdleSweep]
    /\ deletion = [d \in Deleters |-> IdleDeletion]
    /\ ops = 0
    /\ crashes = 0

Unlocked(i) == rowLock[i] = NoValue

(* Every person or scheduler operation counts against MaxOps.              *)
Spend == ops < MaxOps /\ ops' = ops + 1

(* write_audit; an entry without a from_status has "none" there.           *)
AppendAudit(log, i, from, to) ==
    [log EXCEPT ![i] = Append(@, [from |-> from, to |-> to])]

-----------------------------------------------------------------------------
(* The ingest loop and the first steps of an alert task.                   *)

(* BLPOP and the LPOP pipeline take alerts off the list before anything is *)
(* stored; every popped alert becomes a task at once.                      *)
Drain(batch) ==
    /\ batch # {}
    /\ Cardinality(batch) <= BatchSize
    /\ \A m \in batch : task[m].pc = "queued"
    /\ task' = [m \in Messages |-> IF m \in batch THEN [task[m] EXCEPT !.pc = "spawned"]
                                                  ELSE task[m]]
    /\ UNCHANGED <<advisory, tables, rowLock, requests, ops, crashes>>

RunningLeaked == {m \in Messages : task[m].pc \notin {"queued", "spawned"}}
Running == {m \in Messages : task[m].pc \in {"running", "matched", "written"}}

Start(m) ==
    /\ task[m].pc = "spawned"
    /\ Cardinality(Running) < MaxTasks
    /\ task' = [task EXCEPT ![m].pc = "running"]
    /\ UNCHANGED <<advisory, tables, rowLock, requests, ops, crashes>>

(* The alert matches a learned FP pattern: audited, not stored.            *)
Suppress(m) ==
    /\ task[m].pc = "running"
    /\ task' = [task EXCEPT ![m] = Ended("suppressed")]
    /\ UNCHANGED <<advisory, tables, rowLock, requests, ops, crashes>>

-----------------------------------------------------------------------------
(* group_alert: under the advisory lock, insert the alert, find or create. *)

SameEventUnconstrained(m) == {}
SameEvent(m) == {n \in Messages : link[n] # NoInc /\ Alert[n].wid = Alert[m].wid}

EligibleNewOnly(m) ==
    {i \in live : /\ inc[i].status \in {"open", "investigating"}
                  /\ Alert[m].time <= inc[i].last + Window
                  /\ Alert[m].time <= inc[i].first + MaxAge}
EligibleAnyStatus(m) ==
    {i \in live : /\ Alert[m].time <= inc[i].last + Window
                  /\ Alert[m].time <= inc[i].first + MaxAge}
Eligible(m) ==
    {i \in live : /\ inc[i].status \in ActiveStatuses
                  /\ Alert[m].time <= inc[i].last + Window
                  /\ Alert[m].time <= inc[i].first + MaxAge}

(* ORDER BY last_seen DESC LIMIT CandidateLimit; ties in any order.        *)
Page(rows) ==
    {p \in SUBSET rows :
        /\ Cardinality(p) <= CandidateLimit
        /\ Cardinality(p) < CandidateLimit => p = rows
        /\ \A i \in p, j \in rows \ p : inc[i].last >= inc[j].last}

SharesEntity(m, i) ==
    \/ Alert[m].agent \in inc[i].entities
    \/ Alert[m].src # NoValue /\ Alert[m].src \in inc[i].entities
    \/ /\ Alert[m].user # NoValue
       /\ Alert[m].cat \in CloudSources
       /\ {Alert[m].user, Alert[m].cat} \subseteq inc[i].entities

FirstMatchesUnordered(m, page) == {i \in page : SharesEntity(m, i)}
FirstMatches(m, page) ==
    {i \in page : /\ SharesEntity(m, i)
                  /\ \A j \in page : SharesEntity(m, j) => inc[i].last >= inc[j].last}

EntitiesOf(m) == {Alert[m].agent, Alert[m].src, Alert[m].user, Alert[m].cat} \ {NoValue}

CreatedRow(m) ==
    [status |-> "open", severity |-> ScoreSeverity(Alert[m].score), count |-> 1,
     first |-> Alert[m].time, last |-> Alert[m].time, entities |-> EntitiesOf(m),
     hasCase |-> FALSE, age |-> 0]

MergedRow(m, row) ==
    [row EXCEPT !.count = @ + 1,
                !.last = IF Alert[m].time > @ THEN Alert[m].time ELSE @,
                !.entities = @ \cup EntitiesOf(m),
                !.severity = HigherSeverity(@, ScoreSeverity(Alert[m].score)),
                !.age = 0]

NextId == 1 + (IF live = {} THEN 0 ELSE CHOOSE i \in live : \A j \in live : j <= i)

(* The unique wazuh_id is already stored: the INSERT fails, the            *)
(* transaction rolls back and the alert is dropped.                        *)
RejectDuplicate(m) ==
    /\ task[m].pc = "running"
    /\ advisory = NoValue
    /\ SameEvent(m) # {}
    /\ task' = [task EXCEPT ![m] = Ended("dropped")]
    /\ UNCHANGED <<advisory, tables, rowLock, requests, ops, crashes>>

GroupMatchUnserialised(m) ==
    /\ task[m].pc = "running"
    /\ SameEvent(m) = {}
    /\ \E page \in Page(Eligible(m)) : \E i \in FirstMatches(m, page) :
          task' = [task EXCEPT ![m] = [pc |-> "matched", id |-> i, created |-> FALSE,
                                       row |-> inc[i]]]
    /\ UNCHANGED <<advisory, tables, rowLock, requests, ops, crashes>>
GroupMatch(m) ==
    /\ task[m].pc = "running"
    /\ advisory = NoValue
    /\ SameEvent(m) = {}
    /\ \E page \in Page(Eligible(m)) : \E i \in FirstMatches(m, page) :
          task' = [task EXCEPT ![m] = [pc |-> "matched", id |-> i, created |-> FALSE,
                                       row |-> inc[i]]]
    /\ advisory' = m
    /\ UNCHANGED <<tables, rowLock, requests, ops, crashes>>

GroupCreate(m) ==
    /\ task[m].pc = "running"
    /\ advisory = NoValue
    /\ SameEvent(m) = {}
    /\ \E page \in Page(Eligible(m)) : FirstMatches(m, page) = {}
    /\ NextId \in Ids
    /\ task' = [task EXCEPT ![m] = [pc |-> "written", id |-> NextId, created |-> TRUE,
                                    row |-> CreatedRow(m)]]
    /\ advisory' = m
    /\ UNCHANGED <<tables, rowLock, requests, ops, crashes>>

(* merge_alert_into_incident flushes the UPDATE: it waits for the row      *)
(* lock and writes values computed from the row as it was read.            *)
MergeFlush(m) ==
    /\ task[m].pc = "matched"
    /\ task[m].id \in live
    /\ Unlocked(task[m].id)
    /\ rowLock' = [rowLock EXCEPT ![task[m].id] = m]
    /\ task' = [task EXCEPT ![m].pc = "written", ![m].row = MergedRow(m, task[m].row)]
    /\ UNCHANGED <<advisory, tables, requests, ops, crashes>>

(* The row was deleted after the SELECT: the UPDATE touches no row,        *)
(* StaleDataError rolls the task back and the alert is dropped.            *)
MergeStale(m) ==
    /\ task[m].pc = "matched"
    /\ task[m].id \notin live
    /\ advisory' = NoValue
    /\ task' = [task EXCEPT ![m] = Ended("dropped")]
    /\ UNCHANGED <<tables, rowLock, requests, ops, crashes>>

(* prev_status of the bands: a new incident is "investigating" by then.    *)
SeenStatus(t) == IF t.created THEN "investigating" ELSE t.row.status

(* The UPDATE names column status only when the ORM copy changed it;       *)
(* otherwise the row keeps the status it has now.                          *)
WrittenStatusAlways(t, next, current) == next
WrittenStatus(t, next, current) ==
    IF t.created \/ next # SeenStatus(t) THEN next ELSE current

(* The rest of the pipeline and the commit.  The columns written are those *)
(* the ORM copy changed: status only when a band moved it, case_opened_at  *)
(* only when band 3 opened a case.  Correlation may raise the severity.    *)
(* Opening the case is audited last, with to_status "open" and no          *)
(* from_status (case_auto_opened), whatever status the row then has.       *)
Commit(m, fp, escalation) ==
    /\ task[m].pc = "written"
    /\ LET t == task[m]
           i == t.id
           seen == SeenStatus(t)
           next == BandStatus(seen, fp, FpThreshold)
           severity == SoftCap(HigherSeverity(t.row.severity, escalation), fp)
           opens == BandOpensCase(t.row.hasCase, severity, fp, FpThreshold)
           started == IF t.created THEN AppendAudit(audit, i, "open", "investigating")
                                   ELSE audit
           moved == IF next # seen THEN AppendAudit(started, i, seen, next) ELSE started
       IN /\ inc' = [inc EXCEPT ![i] =
                [t.row EXCEPT
                    !.status = WrittenStatus(t, next, inc[i].status),
                    !.severity = severity,
                    !.hasCase = opens \/ (~t.created /\ inc[i].hasCase)]]
          /\ audit' = IF opens THEN AppendAudit(moved, i, "none", "open") ELSE moved
          /\ comments' = [comments EXCEPT ![i] = IF opens THEN @ + 1 ELSE @]
          /\ live' = live \cup {i}
          /\ link' = [link EXCEPT ![m] = i]
          /\ rowLock' = [rowLock EXCEPT ![i] = NoValue]
    /\ advisory' = NoValue
    /\ task' = [task EXCEPT ![m] = Ended("stored")]
    /\ UNCHANGED <<requests, ops, crashes>>

ReleasedNever(owner) == rowLock
Released(owner) == [i \in Ids |-> IF rowLock[i] = owner THEN NoValue ELSE rowLock[i]]

(* Any exception inside the transaction: rollback, and the alert is gone.  *)
Fail(m) ==
    /\ m \in Running
    /\ advisory' = IF advisory = m THEN NoValue ELSE advisory
    /\ rowLock' = Released(m)
    /\ task' = [task EXCEPT ![m] = Ended("dropped")]
    /\ UNCHANGED <<tables, requests, ops, crashes>>

-----------------------------------------------------------------------------
(* POST /incidents/{id}/transition: the status is validated when read and  *)
(* written later, without a row lock in between.                           *)

TransitionRead(a, i, to) ==
    /\ Spend
    /\ analyst[a].pc = "idle"
    /\ i \in live
    /\ to \in AllowedTransitions[inc[i].status]
    /\ analyst' = [analyst EXCEPT ![a] = [pc |-> "validated", id |-> i,
                                          from |-> inc[i].status, to |-> to]]
    /\ UNCHANGED <<task, advisory, tables, rowLock, opener, sweep, deletion, crashes>>

TransitionWrite(a) ==
    /\ analyst[a].pc = "validated"
    /\ LET r == analyst[a]
       IN IF r.id \in live
          THEN /\ Unlocked(r.id)
               /\ inc' = [inc EXCEPT ![r.id].status = r.to, ![r.id].age = 0]
               /\ audit' = AppendAudit(audit, r.id, r.from, r.to)
          ELSE UNCHANGED <<inc, audit>>     \* StaleDataError, the request fails
    /\ analyst' = [analyst EXCEPT ![a] = IdleRequest]
    /\ UNCHANGED <<task, advisory, link, live, comments, rowLock, opener, sweep,
                   deletion, ops, crashes>>

(* PATCH /incidents/{id}: any status, unvalidated and unaudited, and a     *)
(* case_opened_at if the body has one.                                     *)
PatchIncident(p, i, to, opens) ==
    /\ Spend
    /\ p \in Patchers
    /\ i \in live
    /\ Unlocked(i)
    /\ inc' = [inc EXCEPT ![i].status = to, ![i].hasCase = @ \/ opens, ![i].age = 0]
    /\ UNCHANGED <<task, advisory, link, live, audit, comments, rowLock, requests, crashes>>

(* cases/service.py open_case, in the Flask process.                       *)
OpenCaseRead(c, i) ==
    /\ Spend
    /\ opener[c].pc = "idle"
    /\ i \in live
    /\ ~inc[i].hasCase
    /\ opener' = [opener EXCEPT ![c] = [pc |-> "checked", id |-> i]]
    /\ UNCHANGED <<task, advisory, tables, rowLock, analyst, sweep, deletion, crashes>>

OpenCaseWrite(c) ==
    /\ opener[c].pc = "checked"
    /\ LET i == opener[c].id
       IN IF i \in live
          THEN /\ Unlocked(i)
               /\ inc' = [inc EXCEPT ![i].hasCase = TRUE, ![i].age = 0]
               /\ comments' = [comments EXCEPT ![i] = @ + 1]
          ELSE UNCHANGED <<inc, comments>>  \* the comment's foreign key fails
    /\ opener' = [opener EXCEPT ![c] = IdleOpener]
    /\ UNCHANGED <<task, advisory, link, live, audit, rowLock, analyst, sweep,
                   deletion, ops, crashes>>

-----------------------------------------------------------------------------
(* Multi-row updates: POST /incidents/batch-close, the FP auto-close       *)
(* scheduler and POST /incidents/bulk-false-positive.  The first two read  *)
(* all their rows in one SELECT, the last reads each row just before it    *)
(* writes it.  Rows stay locked until the one commit at the end.           *)

Selects(kind) ==
    CASE kind = "batch_close" ->
            {i \in live : inc[i].status \in {"false_positive", "resolved"}}
      [] kind = "fp_auto_close" ->
            {i \in live : inc[i].status = "false_positive" /\ inc[i].age >= 1}

Orders(S) == {s \in [1..Cardinality(S) -> S] : \A j, k \in DOMAIN s : s[j] = s[k] => j = k}

SweepSelect(w, kind) ==
    /\ Spend
    /\ sweep[w].pc = "idle"
    /\ Selects(kind) # {}
    /\ \E order \in Orders(Selects(kind)) :
          sweep' = [sweep EXCEPT ![w] =
              [pc |-> "writing", kind |-> kind, todo |-> order, to |-> "closed",
               from |-> [i \in Ids |-> IF i \in Selects(kind) THEN inc[i].status ELSE "none"]]]
    /\ UNCHANGED <<task, advisory, tables, rowLock, analyst, opener, deletion, crashes>>

BulkRequest(w, wanted) ==
    /\ Spend
    /\ sweep[w].pc = "idle"
    /\ wanted # {} /\ wanted \subseteq live
    /\ \E order \in Orders(wanted) :
          sweep' = [sweep EXCEPT ![w] = [IdleSweep EXCEPT !.pc = "writing", !.kind = "bulk_fp",
                                         !.todo = order, !.to = "false_positive"]]
    /\ UNCHANGED <<task, advisory, tables, rowLock, analyst, opener, deletion, crashes>>

SweepReads(w) == /\ sweep[w].todo # <<>>
                 /\ sweep[w].from[Head(sweep[w].todo)] = "none"

BulkRead(w) ==
    /\ SweepReads(w)
    /\ LET i == Head(sweep[w].todo)
       IN sweep' = [sweep EXCEPT ![w] =
              IF i \in live /\ inc[i].status \notin {"resolved", "false_positive", "closed"}
              THEN [sweep[w] EXCEPT !.from[i] = inc[i].status]
              ELSE [sweep[w] EXCEPT !.todo = Tail(sweep[w].todo)]]
    /\ UNCHANGED <<task, advisory, tables, rowLock, analyst, opener, deletion, ops, crashes>>

SweepFlush(w) ==
    /\ sweep[w].todo # <<>> /\ ~SweepReads(w)
    /\ LET i == Head(sweep[w].todo)
       IN /\ i \in live
          /\ Unlocked(i)
          /\ rowLock' = [rowLock EXCEPT ![i] = w]
    /\ sweep' = [sweep EXCEPT ![w].todo = Tail(@)]
    /\ UNCHANGED <<task, advisory, tables, analyst, opener, deletion, ops, crashes>>

SweepCommit(w) ==
    /\ sweep[w].pc = "writing"
    /\ sweep[w].todo = <<>>
    /\ LET s == sweep[w]
           done == {i \in Ids : rowLock[i] = w}
       IN /\ inc' = [i \in Ids |-> IF i \in done
                                   THEN [inc[i] EXCEPT !.status = s.to, !.age = 0]
                                   ELSE inc[i]]
          /\ audit' = [i \in Ids |-> IF i \in done
                                     THEN Append(audit[i], [from |-> s.from[i], to |-> s.to])
                                     ELSE audit[i]]
    /\ rowLock' = Released(w)
    /\ sweep' = [sweep EXCEPT ![w] = IdleSweep]
    /\ UNCHANGED <<task, advisory, link, live, comments, analyst, opener, deletion,
                   ops, crashes>>

WaitsFor(w, v) ==
    /\ sweep[w].todo # <<>> /\ ~SweepReads(w)
    /\ rowLock[Head(sweep[w].todo)] = v

(* A row is gone (StaleDataError) or two sweeps wait for each other and    *)
(* PostgreSQL picks a victim: the whole update is rolled back.             *)
SweepAbortRetries(w) ==
    /\ sweep[w].todo # <<>> /\ ~SweepReads(w)
    /\ \/ Head(sweep[w].todo) \notin live
       \/ \E v \in Sweepers \ {w} : WaitsFor(w, v) /\ WaitsFor(v, w)
    /\ rowLock' = Released(w)
    /\ UNCHANGED <<task, advisory, tables, requests, ops, crashes>>
SweepAbort(w) ==
    /\ sweep[w].todo # <<>> /\ ~SweepReads(w)
    /\ \/ Head(sweep[w].todo) \notin live
       \/ \E v \in Sweepers \ {w} : WaitsFor(w, v) /\ WaitsFor(v, w)
    /\ rowLock' = Released(w)
    /\ sweep' = [sweep EXCEPT ![w] = IdleSweep]
    /\ UNCHANGED <<task, advisory, tables, analyst, opener, deletion, ops, crashes>>

-----------------------------------------------------------------------------
(* Hard deletes: SELECT ids, DELETE the alerts, DELETE the incidents.      *)

DeleteSelect(d, ids) ==
    /\ Spend
    /\ deletion[d].pc = "idle"
    /\ ids # {}
    /\ deletion' = [deletion EXCEPT ![d] = [pc |-> "selected", ids |-> ids, doomed |-> {}]]
    /\ UNCHANGED <<task, advisory, tables, rowLock, analyst, opener, sweep, crashes>>

(* The auto-archive scheduler.                                             *)
ArchiveSelectAnyStatus(d) ==
    /\ d \in Archivers
    /\ DeleteSelect(d, {i \in live : inc[i].age = 2})
ArchiveSelect(d) ==
    /\ d \in Archivers
    /\ DeleteSelect(d, {i \in live : inc[i].status \in {"closed", "resolved"} /\ inc[i].age = 2})

(* DELETE /incidents?status=...; no status means every incident.           *)
PurgeSelect(d, statuses) ==
    /\ d \in Purgers
    /\ DeleteSelect(d, {i \in live : inc[i].status \in statuses})

DeleteAlertsSkipped(d) ==
    /\ deletion[d].pc = "selected"
    /\ deletion' = [deletion EXCEPT ![d].pc = "alerts"]
    /\ UNCHANGED <<task, advisory, tables, rowLock, analyst, opener, sweep, ops, crashes>>
DeleteAlerts(d) ==
    /\ deletion[d].pc = "selected"
    /\ deletion' = [deletion EXCEPT ![d].pc = "alerts",
                        ![d].doomed = {m \in Messages : link[m] \in deletion[d].ids}]
    /\ UNCHANGED <<task, advisory, tables, rowLock, analyst, opener, sweep, ops, crashes>>

(* The second DELETE waits for the row locks, then the commit publishes    *)
(* both.  Only the ids are compared: the status is not looked at again.    *)
DeleteIncidents(d) ==
    /\ deletion[d].pc = "alerts"
    /\ LET ids == deletion[d].ids
       IN /\ \A i \in ids : Unlocked(i)
          /\ live' = live \ ids
          /\ inc' = [i \in Ids |-> IF i \in ids THEN NoRow ELSE inc[i]]
          /\ comments' = [i \in Ids |-> IF i \in ids THEN 0 ELSE comments[i]]
    /\ link' = [m \in Messages |-> IF m \in deletion[d].doomed THEN NoInc ELSE link[m]]
    /\ deletion' = [deletion EXCEPT ![d] = IdleDeletion]
    /\ UNCHANGED <<task, advisory, audit, rowLock, analyst, opener, sweep, ops, crashes>>

-----------------------------------------------------------------------------
(* Time and crashes.                                                       *)

InUse(i) ==
    \/ \E m \in Messages : task[m].pc \in InGrouping /\ task[m].id = i
    \/ \E a \in Analysts : analyst[a].pc # "idle" /\ analyst[a].id = i
    \/ \E c \in CaseOpeners : opener[c].pc # "idle" /\ opener[c].id = i
    \/ \E w \in Sweepers : sweep[w].pc # "idle"

(* Days pass without a write to row i.                                     *)
Quiesce(i) ==
    /\ i \in live
    /\ inc[i].age < 2
    /\ ~InUse(i)
    /\ inc' = [inc EXCEPT ![i].age = @ + 1]
    /\ UNCHANGED <<task, advisory, link, live, audit, comments, rowLock, requests,
                   ops, crashes>>

(* The engine process dies.  PostgreSQL rolls back its transactions; the   *)
(* alerts it had popped were only in its memory.  The Flask process and    *)
(* the Redis list go on.                                                   *)
Crash ==
    /\ crashes < MaxCrashes
    /\ crashes' = crashes + 1
    /\ task' = [m \in Messages |-> IF task[m].pc \in FinalPcs \cup {"queued"}
                                   THEN task[m] ELSE Ended("dropped")]
    /\ advisory' = NoValue
    /\ rowLock' = [i \in Ids |-> NoValue]
    /\ analyst' = [a \in Analysts |-> IdleRequest]
    /\ sweep' = [w \in Sweepers |-> IdleSweep]
    /\ deletion' = [d \in Deleters |-> IdleDeletion]
    /\ UNCHANGED <<tables, opener, ops>>

Quiet ==
    /\ \A m \in Messages : task[m].pc \in FinalPcs
    /\ \A a \in Analysts : analyst[a].pc = "idle"
    /\ \A c \in CaseOpeners : opener[c].pc = "idle"
    /\ \A w \in Sweepers : sweep[w].pc = "idle"
    /\ \A d \in Deleters : deletion[d].pc = "idle"

(* Nothing in flight is the only way for the model to stop.                *)
AllDone == Quiet /\ UNCHANGED vars

CommitSome(m) == \E fp \in Scores, e \in RuleSeverities : Commit(m, fp, e)
Grouping(m) == RejectDuplicate(m) \/ GroupMatch(m) \/ GroupCreate(m)
Merging(m) == MergeFlush(m) \/ MergeStale(m)
TaskProgress(m) == Start(m) \/ Grouping(m) \/ Merging(m) \/ CommitSome(m)
TaskStep(m) == TaskProgress(m) \/ Suppress(m) \/ Fail(m)

SweepStep(w) == BulkRead(w) \/ SweepFlush(w) \/ SweepCommit(w) \/ SweepAbort(w)
SweepBegin(w) ==
    \/ \E kind \in {"batch_close", "fp_auto_close"} : SweepSelect(w, kind)
    \/ \E wanted \in SUBSET live : BulkRequest(w, wanted)
DeletionStep(d) == DeleteAlerts(d) \/ DeleteIncidents(d)
DeletionBegin(d) ==
    ArchiveSelect(d) \/ \E statuses \in SUBSET Statuses : PurgeSelect(d, statuses)

Next ==
    \/ \E batch \in SUBSET Messages : Drain(batch)
    \/ \E m \in Messages : TaskStep(m)
    \/ \E a \in Analysts, i \in Ids, to \in Statuses : TransitionRead(a, i, to)
    \/ \E a \in Analysts : TransitionWrite(a)
    \/ \E p \in Patchers, i \in Ids, to \in Statuses, opens \in BOOLEAN :
          PatchIncident(p, i, to, opens)
    \/ \E c \in CaseOpeners, i \in Ids : OpenCaseRead(c, i)
    \/ \E c \in CaseOpeners : OpenCaseWrite(c)
    \/ \E w \in Sweepers : SweepBegin(w) \/ SweepStep(w)
    \/ \E d \in Deleters : DeletionBegin(d) \/ DeletionStep(d)
    \/ \E i \in Ids : Quiesce(i)
    \/ Crash
    \/ AllDone

Spec == Init /\ [][Next]_vars

(* The event loop runs every task, PostgreSQL grants every lock that       *)
(* becomes free, and a request that was started is carried on.  Nothing    *)
(* makes people act, exceptions happen or the process crash.               *)
Fairness ==
    /\ WF_vars(\E batch \in SUBSET Messages : Drain(batch))
    /\ \A m \in Messages : WF_vars(TaskProgress(m))
    /\ \A a \in Analysts : WF_vars(TransitionWrite(a))
    /\ \A c \in CaseOpeners : WF_vars(OpenCaseWrite(c))
    /\ \A w \in Sweepers : WF_vars(SweepStep(w))
    /\ \A d \in Deleters : WF_vars(DeletionStep(d))

FairSpec == Spec /\ Fairness

-----------------------------------------------------------------------------
(* Properties.                                                             *)

TaskType == [pc: TaskPcs, id: Ids \cup {NoInc}, created: BOOLEAN, row: IncidentRow]
AuditEntry == [from: Statuses \cup {"none"}, to: Statuses]

(* Every variable keeps its shape.                                         *)
TypeOK ==
    /\ task \in [Messages -> TaskType]
    /\ advisory \in Messages \cup {NoValue}
    /\ link \in [Messages -> Ids \cup {NoInc}]
    /\ live \subseteq Ids
    /\ inc \in [Ids -> IncidentRow]
    /\ audit \in [Ids -> Seq(AuditEntry)]
    /\ comments \in [Ids -> Nat]
    /\ rowLock \in [Ids -> Messages \cup Sweepers \cup {NoValue}]
    /\ analyst \in [Analysts -> [pc: {"idle", "validated"}, id: Ids \cup {NoInc},
                                 from: Statuses, to: Statuses]]
    /\ opener \in [CaseOpeners -> [pc: {"idle", "checked"}, id: Ids \cup {NoInc}]]
    /\ sweep \in [Sweepers -> [pc: {"idle", "writing"},
                     kind: {"none", "batch_close", "fp_auto_close", "bulk_fp"},
                     todo: Seq(Ids), to: {"closed", "false_positive"},
                     from: [Ids -> Statuses \cup {"none"}]]]
    /\ deletion \in [Deleters -> [pc: {"idle", "selected", "alerts"}, ids: SUBSET Ids,
                                  doomed: SUBSET Messages]]
    /\ ops \in 0..MaxOps
    /\ crashes \in 0..MaxCrashes

(* The advisory lock is held by exactly the task between find and commit,  *)
(* so group_alert runs for one alert at a time.                            *)
GroupingSerialised ==
    \A m \in Messages : task[m].pc \in InGrouping <=> advisory = m

(* A row lock belongs to a transaction that will still release it: the     *)
(* ingest task that flushed the row, or a sweep that is still writing.     *)
LocksOwned ==
    \A i \in Ids :
        /\ rowLock[i] \in Messages =>
              /\ task[rowLock[i]].pc = "written"
              /\ task[rowLock[i]].id = i
        /\ rowLock[i] \in Sweepers => sweep[rowLock[i]].pc = "writing"

(* alert_count is the number of alert rows linked to the incident,         *)
(* although each task adds one to a count it read earlier.                 *)
CountMatchesLinks ==
    \A i \in live : inc[i].count = Cardinality({m \in Messages : link[m] = i})

(* One wazuh_id is stored at most once.                                    *)
OneRowPerEvent ==
    \A m, n \in Messages :
        m # n /\ link[m] # NoInc /\ link[n] # NoInc => Alert[m].wid # Alert[n].wid

(* Two active incidents of the same host do not begin within one           *)
(* correlation window ("alerts from the same host always group").          *)
SameHostGroups ==
    \A m, n \in Messages :
        LET i == link[m]
            j == link[n]
        IN /\ {i, j} \subseteq live /\ i # j
           /\ {inc[i].status, inc[j].status} \subseteq ActiveStatuses
           /\ Alert[m].agent = Alert[n].agent
           /\ Alert[m].time = inc[i].first /\ Alert[n].time = inc[j].first
           => \/ Alert[m].time > Alert[n].time + Window
              \/ Alert[n].time > Alert[m].time + Window

(* The last status change of a trail, an entry with a from_status as the   *)
(* portal lists them, goes to this status.                                 *)
EndsIn(log, status) ==
    \E n \in DOMAIN log :
        /\ log[n].from # "none" /\ log[n].to = status
        /\ \A k \in DOMAIN log : k > n => log[k].from = "none"

(* The last status change of the audit trail names the status the incident *)
(* has: no writer that races another leaves a status that no entry, or     *)
(* only an older one, names.  The entry that band 3 writes when it opens a *)
(* case is no status change: it says "open" of an incident in review.      *)
(* This is about the writers of the engine; the portal's chat repeats the  *)
(* entry of its transitions in a request of its own, which is not modelled.*)
AuditTail == \A i \in live : EndsIn(audit[i], inc[i].status)

(* An analyst's transition is allowed from the status it replaces.         *)
AnalystsFollowGraph ==
    [][\A a \in Analysts :
          LET i == analyst[a].id
          IN TransitionWrite(a) /\ i \in live
             => analyst[a].to \in AllowedTransitions[inc[i].status]]_vars

(* A stored alert belongs to an incident that exists: deleting incidents   *)
(* deletes their alerts.                                                   *)
NoOrphanAlerts == \A m \in Messages : link[m] # NoInc => link[m] \in live

(* The archiver deletes only incidents that are closed or resolved.        *)
ArchiveOnlySettled ==
    [][\A d \in Archivers, i \in live :
          DeleteIncidents(d) /\ i \notin live' => inc[i].status \in {"closed", "resolved"}]_vars

(* A case is opened once, with one comment saying so.                      *)
CaseOpenedOnce == \A i \in live : comments[i] = IF inc[i].hasCase THEN 1 ELSE 0

(* The incidents are those of IncidentTable: concurrent tasks that read    *)
(* rows, wait for locks and publish later group as if each alert were      *)
(* grouped in one step, and a row says what its alerts say.                *)
Table == INSTANCE IncidentTable WITH
    first <- [i \in Ids |-> IF i \in live THEN inc[i].first ELSE 0],
    status <- [i \in Ids |-> IF i \in live THEN inc[i].status ELSE "none"]

TableSpec == Table!Spec

(* Every alert taken from Redis or still on it reaches a final outcome:    *)
(* no set of row locks, advisory lock and permits blocks a task for ever.  *)
EveryAlertSettles == <>(\A m \in Messages : task[m].pc \in FinalPcs)

(* A request that was started ends.                                        *)
EveryRequestEnds ==
    /\ \A a \in Analysts : analyst[a].pc = "validated" ~> analyst[a].pc = "idle"
    /\ \A w \in Sweepers : sweep[w].pc = "writing" ~> sweep[w].pc = "idle"
    /\ \A d \in Deleters : deletion[d].pc = "selected" ~> deletion[d].pc = "idle"
=============================================================================
