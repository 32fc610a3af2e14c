# TLA+ models of Cy360

Cy360 is a security operations platform: a Flask backend, a SIEM correlation
engine, endpoint agents, connectors to other vendors' products, a data lake and a
web portal. These modules model the parts whose behaviour depends on
interleavings, failures and stale reads. TLC checks them on small instances;
TLAPS proves what matters most for every size.

    tlc -config ingest.cfg MCIncidentEngine.tla     # a run: PROJECT.json names them all
    tlapm EdrCommandsProofs.tla                     # the proofs of one module

Paths below are relative to `src/backend/` unless they begin with `agent/`
or `docs/`, which are relative to `src/`; `CE/` stands for `cysiemstack/correlation_engine/` and `edr/`
for `blueprints/edr/`.

## 1. The system

| Component | State it keeps | Operations and interactions | Hard behaviour |
|---|---|---|---|
| Connectors (`cysiemstack/connectors`, `connector_bridge.py`, `dedup.py`, `blueprints/connectors`) | `last_cursor` of each connector, dedup keys in Redis | a 60 s dispatcher and "pull now" requests pull a page, guard it against duplicates, push it on the alert list, save the cursor | overlapping pulls, a cursor saved whatever became of its page, a key set before the push |
| Ingest loop (`CE/ingestor.py`) | Redis alert list, asyncio tasks, `_PROCESS_SEM` (6 permits) | pops up to 10 alerts, one task each; a task runs group, enrich, bands, commit in one transaction | alerts leave Redis before they are stored; tasks interleave at every `await` |
| Grouper (`CE/grouper.py`) | tables `alerts`, `incidents` | advisory lock, insert alert, find or create incident, merge | read-modify-write of `alert_count`; first candidate by `last_seen` wins |
| Triage API and schedulers (`CE/main.py`) | `incidents`, `audit_log` | transition, PATCH, batch close, bulk false positive, FP auto-close, auto-archive, purge | status validated before it is locked; ids selected before they are deleted; rows locked in different orders |
| Cases (`blueprints/cases/service.py`) | `case_opened_at`, `case_comments` | `open_case`, acknowledge, checklist, comments | a second process writes the engine's rows |
| Rule cache (`CE/rule_cache.py`) | one in-process cache, `loaded_at` | reload in three awaited SELECTs, `invalidate()` | invalidation during a reload |
| Data lake worker (`cysiemstack/ingest_worker.py`, `clickhouse_store.py`) | Kafka position, batch in memory, ClickHouse client, Parquet files | consumer thread: batch and insert; cold-storage thread: export and delete aged rows | auto-committed positions, a client decided once, two `now()` of one export |
| EDR command queue (`edr/response_orchestrator.py`, `edr/routes.py`) | `edr_response_commands`, `edr_agents.isolation_state` | queue, poll (select and acknowledge), complete | lost responses, overlapping polls, late reports |
| EDR policies (`edr/policy_engine.py`) | `edr_policies`, assignments, groups | update, assign, delete; queues `APPLY_POLICY` | concurrent edit and assignment; order of delivery |
| Enrolment (`edr/policy_engine.py`, `edr/routes.py`, `blueprints/collector`, both agents) | deployment tokens, rows of agents and collectors, identities on the hosts | install, self-enrol, heartbeat and recovery, removal | check and increment apart, lost answers, hosts that share a name or a UUID |
| CyEDR agent (`agent/cyedr_agent.py`) | `config.json`, `policy_state.json`, firewall, batch in memory | poll, execute, report; collectors | timeouts, restarts, isolation cuts its own channel |
| Scheduler (`blueprints/scheduler`, schedules of `blueprints/system`) | `schedules.json`, APScheduler's jobs, crontab | create, delete, switch; the system page's save; start of the process | two writers of one file, truncate then write, file against memory |
| FP patterns, feedback (`CE/fp_pattern_store.py`, `CE/feedback_store.py`) | `fp_patterns` | count closures per fingerprint, promote to `auto_close`, suppress | counter without a lock, a task on a finished request's session |
| Other bridges, ASM, enrichment, scoring, normalising, compliance, ITAM, auth, portal | mostly none beyond CRUD rows | compute, call external services, render | data, not control |

How they interact: connectors and agents push events; the guard in Redis drops
repeated ones; the Redis list feeds the ingest loop, Kafka the data lake worker. The
engine, the Flask process and the schedulers share one PostgreSQL. The queue
and the policies are polled by the agents, which the enrolment let in.

What makes each of them correct:

* **Connectors.** No event that the vendor showed is passed by the saved cursor
  without being listed or named as dropped or cut off; no event twice while the guard knows
  it; every event is listed in the end.
* **Incidents.** One row per event however often it is delivered; the alerts of a
  host within a window in one active incident; at most one alert behind the closing of its incident; `alert_count` equal to the linked
  alerts; a status that the last status change of the audit trail names; a case opened once; no alert
  without its incident; nothing active archived; every alert and request ends.
* **Rule cache.** A write is visible after `invalidate()`, and in the end in any case.
* **Data lake.** Every event is stored or its loss has a name; once per run of the
  worker; an aged row moves to a file and is never in neither place.
* **EDR commands.** At most one execution; every command is taken and reported;
  agent and database agree on policy and isolation.
* **Enrolment.** A deployment token is used as often as it allows, every row was
  paid for, and a host that was answered holds the token of its row.
* **Scheduler.** What is enabled in the file and accepted by APScheduler runs, and nothing else; a helper job does not
  outlive what it helps.

`PROJECT.json` lists every component with its sources and every hazard with its line.

## 2. Modules

| Module | Models | Lines of the code |
|---|---|---|
| `IncidentRules` | severity scale, status graph, FP bands, soft cap: pure operators | `CE/grouper.py`, `CE/ingestor.py`, `CE/main.py` |
| `IncidentTable` | abstract: alerts grouped one at a time; an incident is its alerts, its beginning and its status | what `group_alert` promises under its lock |
| `IncidentEngine` | EXTENDS `IncidentRules`: ingest tasks, grouping, commits, triage requests, bulk updates, deletions, crashes over one database; INSTANCE of `IncidentTable` | the same and `CE/models.py`, `blueprints/cases/service.py` |
| `IncidentLate` | EXTENDS `IncidentEngine` with a history variable: alerts that joined an incident after it was settled | the same |
| `RuleCache` | the cache, reloading tasks, writing routes | `CE/rule_cache.py`, `CE/main.py` |
| `CommandLife` | abstract: what a command may live through | what the queue promises |
| `EdrCommands` | rows, polls, agent thread, reports, policy transactions; INSTANCE of `CommandLife` | `edr/*.py`, `agent/cyedr_agent.py` |
| `AgentEnrollment` | installers, agents, the self-enroll handlers of both blueprints, operators | `edr/routes.py`, `edr/policy_engine.py`, `blueprints/collector`, both agents |
| `ConnectorFeed` | one connector of any of nine vendors: pulls, the guard, the push, the cursor | `cysiemstack/connectors/*.py`, `connector_bridge.py`, `dedup.py`, `blueprints/connectors/routes.py` |
| `DataLake` | the ingest worker's two threads, ClickHouse and the files | `ingest_worker.py`, `clickhouse_store.py`, `kafka_bridge.py` |
| `Scheduler` | the requests of two blueprints over one file, and restarts | `blueprints/scheduler/routes.py`, `blueprints/system/routes.py` |
| `*Proofs` | the theorems of the module they are named after; `IncidentRowsProofs` those about the incident rows | |
| `MC*` | alert sets, names, symmetry and first states for TLC | |

### State and actions

**IncidentEngine.** PostgreSQL at READ COMMITTED. A transaction is split where
others can see a difference: its reads copy values into the actor's record
(`GroupMatch`, `TransitionRead`, `SweepSelect`, `DeleteSelect`), its first write to
a row takes the row lock (`MergeFlush`, `SweepFlush`), its commit publishes what it
wrote (`Commit`, `SweepCommit`, `DeleteIncidents`). `Commit` writes the columns
the ORM copy changed, so an unchanged status does not overwrite a newer one
(`WrittenStatus`), and adds its audit entries in the order of the code: the status change, then `case_auto_opened`,
whose to_status is "open". `advisory` is `pg_advisory_xact_lock(20260617)`. Enrichment, UEBA,
risk, correlation and LLM calls read and write other tables; what comes back to
this state is an FP probability and a severity, inputs of `Commit`.
Incident numbers are the row's identity: the highest live one plus one, so
a number comes back after the newest incident is deleted. `age` counts the
thresholds (7 and 30 days) an untouched row has passed. `Table` maps it to `IncidentTable`: the links stay, beginning and status are
the columns of the rows, and whatever a row says of its alerts (`last`, `entities`), or a task, a lock
or a transaction holds, the table derives from the alerts or does not have.

**RuleCache.** Tasks and routes share an event loop: a step lasts from one `await` to
the next, a SELECT's snapshot is a step of its own, and `MarkFresh` follows the close of the session. The contents of a
table is a version number.

**EdrCommands.** `PollSelect` and `PollUpdate` are the two statements of
`get_pending_commands`, `RecordResult` and `SyncIsolation` the two transactions of
`command_complete`. Handlers belong to requests, not to agents: an agent
that timed out (`PollGiveUp`, `ReportGiveUp`) or restarted polls again while the
old handler still runs. `issued` is `NOW()` of the inserting transaction, which
PostgreSQL fixes when the transaction starts. One policy of one type stands for
all, and it is the isolation exceptions: `Reaching` are the configurations under
which an isolated host still reaches the platform, and `wall = "cut"` is a host that
does not. A cut host's requests time out without any fault; the report of the
ISOLATE itself may leave on a connection that is still open.

**AgentEnrollment.** A host is an installer and an agent with an identity on disk and one in
memory; `kind` says whether it runs CyEDR or the collector, whose requests, tables and files
differ (`Send`, `Retoken`, `Saved`, `Accepted`). A self-enroll handler is five statements,
`Check`, `Count`, `MatchUuid`, `MatchName`, `Insert`, each a transaction of its own, and the row
of another host may change between any two. `Commit` is a statement under the unique index on
the UUID: a violation is answered 500. A host that gives up (`GiveUp`) leaves its handler
running. The operator inserts rows, removes hosts and revokes the token.

**ConnectorFeed.** A pull is `Start` (the row is read), `Pull` (the page, and the cursor after
it), `Dedup` of one event after the other, `Push` (one pipeline) and `Save`. `QueryOf` is what tells the
vendors apart: the first window, whether the cursor's own time is asked for again, whether a
page is capped, and whether it is sorted. The scheduler's thread and a request may pull at the same time:
`max_instances=1` covers the dispatcher only. `missed`, `cut`, `lost` and `windows` are history: events no query returns (shown too late, or older than the first
window), events that matched but were cut off a full page and have its last stamp, keys taken by pulls that failed
before their push, and how often the guard let a key in.

**DataLake.** `consumer` is the consumer thread: the position behind the last event it was handed, and its
batch. Kafka's client commits that position by itself while it polls (`AutoCommit`), so a batch in memory
may be behind it. A flush writes vendor by vendor (`Write`). `cold` is the export: `ColdSelect`, `ColdWrite`,
`ColdDelete`, with rows ageing in between. `Client` is decided by the first call of either thread.

**Scheduler.** A request is `Load`, `Truncate`, `Write`, `Apply`: `write_text` opens the file, which empties it, and then
writes. `NextOf` and `Recalc` are the second round for the wordlist companion. `form` says whose
format the file has: a list of jobs or the system page's dictionary; each reader takes the other's for nothing.
`Refused` is a cron expression that no route checks and CronTrigger raises on: `Registered` leaves APScheduler as it is, and the request goes on.
`Restart` may cut requests off anywhere.

## 3. Runs

| Run | Instance | Shows |
|---|---|---|
| `ingest` | 4 alerts of one host, one redelivered, one after the window; 3 permits, an archiver, a crash | `OneRowPerEvent`, `SameHostGroups`, `NoOrphanAlerts`, `ArchiveOnlySettled`, `TableSpec` (refinement of `IncidentTable`) |
| `triage` | a burst of 3 alerts, an analyst, a bulk update | `CountMatchesLinks`, `AuditTail`, `CaseOpenedOnce`, `OneLateJoin` (`IncidentLate`) |
| `all_actors` | 2 alerts of one host that merge or not as they come, 1 permit, 2 bulk updates, an analyst, PATCH, `open_case`, a purge, `FairSpec` | `TypeOK`, `LocksOwned`, `EveryAlertSettles`, `EveryRequestEnds` |
| `edr_commands` | 3 commands, 2 polls, 1 editor, 1 fault | `TypeOK`, `AtMostOnce`, `PolicyDelivered`, `IsolationInSync`, `LifeSpec` (refinement of `CommandLife`) |
| `edr_live` | 2 commands, 1 fault, every configuration reaches the platform, `FairSpec` | `CommandsLeaveQueue`, `CommandsReported` |
| `rule_cache` | 2 tasks, 2 routes, 2 writes, `FairSpec` | `TypeOK`, `SeesQuietWrites`, `HealsEventually` |
| `connectors` | Wazuh, SentinelOne and Office 365; 2 events each, of one stamp for Wazuh and a minute apart for the others, 2 threads, pages of one event, 1 fault, `FairSpec` | `TypeOK`, `NothingSkipped`, `OncePerWindow`, `EventuallyListed` |
| `lake` | 2 events of 2 vendors, batches of 2, 2 runs of the worker, 1 fault, `FairSpec` | `TypeOK`, `Accounted`, `OncePerRun`, `RowsSurvive`, `AgedRowsLeave` |
| `enrolment` | 2 hosts of either kind, 2 names, 1 UUID, 2 threads, a token for one use, 3 operations, 1 fault, `FairSpec` | `TypeOK`, `OverrunBounded`, `RowsPaid`, `TokenHeld`, `CallsEnd` |
| `scheduler` | 2 scans, 1 task of the system page, 2 intervals, cron expressions accepted and refused, 2 threads, 3 requests, restarts anywhere | `TypeOK`, `RunsWhatIsStored`, `CompanionHasScan` |
| `never_heals` | 2 hosts of one name, no limit of uses, no fault, `FairSpec` | violates `SelfHeals` |
| `restart_keeps` | 1 thread, 2 requests | violates `RestartKeepsScans` |

Every property of a passing run has a mutant in `PROJECT.json`: the model with one
plausible bug (`...Always`, `...Retries`, `...Unserialised` and so on beside the
definition it replaces) that violates it under the same configuration.

**Bounds.** `MaxIncidents`, `MaxOps`, `MaxCrashes`, `MaxFaults`, `MaxWrites`, `MaxClock`, `MaxWindows`, `MaxOffset` and
`MaxRuns` cap what would grow for ever. Four alerts are the least that give a merge, a second incident
after the window and a redelivery at once; three of one host give two
concurrent merges after a create. Two permits (one in the liveness run, where a
leaked one must hurt) and three are enough for every pair of tasks to overlap.
A candidate limit of two is reached, never exceeded. Two overlapping polls
and three commands give a stale page beside a new one, and a page that is not
the whole queue; one fault is enough to abandon a request at any point.
Two events and pages of one give a page that is not the whole answer, and one that ends between two events of one stamp; two pulling threads a cursor
that goes back; `MaxWindows` lets a key expire once and be opened again. Two runs of the
worker give a restart before and after a commit. Two hosts, one name and one UUID are the least that
take each other's row; two threads that pass the check together. Two scans are the least of which one remains.
`CandidateLimit`, `MaxTasks`, `BatchSize` and `PageSize` are parameters: 20, 6, 10
and 20 in the engine and the queue, 500 in the worker, 500 to 2000 per vendor.
Commands and polls are interchangeable (symmetry, safety runs only); `FirstNamed` gives the first host the
first name, since names are alike.

**Properties under a premise.** `PolicyDelivered`, `IsolationInSync` and
`CommandsReported` say what holds when nothing failed (`faults = 0`); with a fault they do not
hold, since nothing in the code repeats a command or a report. `SeesQuietWrites`
excludes an `invalidate()` during a reload. `AuditTail` and `CaseOpenedOnce` are
checked without PATCH, the former also without the chat's own entries (section 7), and the latter without the second process that opens cases, `CountMatchesLinks` without deletes, `NoOrphanAlerts`
with the archiver but without a purge of active incidents: section 5 says what breaks them. `NothingSkipped` and `EventuallyListed` exclude a capped query
without an order (CloudTrail is asked for none, and a cap may cut off older events) and the events in `cut` (the run has
some), and `EventuallyListed`
also a full page of one modification time asked for again and again (`PageMoves`: Palo Alto with 500
incidents of one time). `OncePerWindow` needs `faults = 0`: the guard fails open and a failed pipeline is repeated.
`AgedRowsLeave` ends with the process or with a client that failed. `TokenHeld` is about hosts that heard
every answer and whose row nobody else enrolled on since. `RunsWhatIsStored` and `CompanionHasScan` exclude
overlapping requests, and the former the system page: each of the two erases the other's jobs. `RunsWhatIsStored` also excludes
the enabled jobs that APScheduler refused (the run has some). `AuditTail` is about status changes: the entry of an opened case is none.

**Deadlock** is checked in every run but `lake`, `enrolment` and `never_heals`. `AllDone` of `IncidentEngine` stutters only when
nothing is in flight; agents, caches, connectors and the scheduler never stop by themselves. The worker may
be stopped for good, and hosts need not do anything after they are enrolled.

## 4. Fairness

* `IncidentEngine`: weak fairness of draining, of the progress of each task, and of the
  rest of each request that was started. The event loop runs every ready task, and
  PostgreSQL grants a lock in the order of the waiters and aborts one of two that wait for
  each other. Starting a request, failing and crashing are not fair.
* `RuleCache`: a SELECT is answered or fails, a route that committed calls `invalidate()`,
  the TTL passes. No alert need arrive.
* `EdrCommands`: handlers of requests that arrived run to their end, and the poller
  thread keeps polling, executing and reporting. Faults and people are not fair.
* `ConnectorFeed`: the dispatcher runs every 60 s (`Start(Dispatcher)`), and a thread that began a pull goes
  on (`Work`). Requests, the vendor and the clock owe nothing.
* `DataLake`: both threads run, and ClickHouse comes back. Signals, restarts and events owe nothing.
* `AgentEnrollment`: server threads run, answers arrive, and an installed service starts (systemd and the watchdog): weak
  fairness. `Recover` is strongly fair: the heartbeat repeats for ever, but another request of the host
  disables it in between.
* `Scheduler`: none; it has only safety properties.

## 5. Where code and documentation disagree

Two runs show disagreements that need several steps of several actors:

* `never_heals`: `agent/cyedr_agent.py:3613` says that an agent whose token became stale recovers with the deployment token. A
  second host with the same name takes over the row and its token (`edr/routes.py:2201`); from then on the
  first one's heartbeats are refused, and so is each recovery, because `ensure_enrolled` (`:4812`) sends no deployment token.
* `restart_keeps`: `docs/SCHEDULER.md:32` says that on each restart all enabled jobs are reloaded from the file. A save of the
  system page (`blueprints/system/routes.py:4476`) replaces the list of scans in the same file; they run on
  until the restart and are gone after it.

The following also fail; no run of the project is spent on them. The definition is in the module named, and the
constants beside it, in the configuration of the run (with the messages of its alert set), make TLC show it:

| Definition | Run, with | Code, and what it is said to do |
|---|---|---|
| `AnalystsFollowGraph` (`IncidentEngine`) | `triage`, `TwoAlerts`, `Sweepers = {}`, `MaxOps = 1` | `CE/main.py:1217` validates a transition against a status read without a lock; docstring `:1202` |
| `ArchiveOnlySettled` | `ingest`, `TwoAlerts`, `Analysts = {a1}`, `MaxOps = 2` | `CE/main.py:173` deletes by ids selected earlier, an incident reopened since included; comment `:152` |
| `SameHostGroups` | `ingest`, `SharedSource`, no archiver, `MaxIncidents = 3` | `CE/grouper.py:138` takes the first candidate that shares the host *or* the address; comment `:133` |
| `AuditTail` | `triage`, `Patchers = {a1}` | PATCH (`CE/main.py:1066`) sets a status without an audit entry |
| `CaseOpenedOnce` | `triage`, `CaseOpeners = {c1}` | `open_case` updates without looking again |
| `NoLateJoin` (`IncidentLate`) | `triage` | `CE/grouper.py:125` selects active incidents, but neither the merge nor `CE/ingestor.py:387` looks again: an alert joins an incident that an analyst, PATCH or a bulk update settled meanwhile, and is not seen among the active ones; `OneLateJoin` says that no second one follows |
| `NothingCut` (`ConnectorFeed`) | `connectors` | `wazuh_connector.py:49-51,64`, `sentinelone_connector.py:48,71-74`, `gcp_connector.py:63,76-84`: a full page (for SentinelOne, the last of its pages) that ends between events of one timestamp, which is then asked for with "greater than"; the rest is never pulled, and no call failed |
| `EnabledJobsRun` (`Scheduler`) | `scheduler` | `blueprints/scheduler/routes.py:337` logs what CronTrigger raises on a field nobody checked (`:675`): POST answers 201, the job stays enabled in the file and never runs; `docs/SCHEDULER.md:32` |
| `NoOrphanAlerts` | `ingest`, `Purgers = {d1}` | an alert merged between the two DELETEs loses its incident |
| `PolicyDelivered` (`EdrCommands`) | `edr_commands`, `Editors = {e1, e2}`, `Actions = {}`, `MaxFaults = 0` | `edr/policy_engine.py:391`: assignment and edit do not see each other's rows, and commands are ordered by the start of their transactions; docstring `:385` |
| `CommandsReported` | `edr_live`, `Reaching = {}`, `MaxFaults = 0` | nobody passes the `management_ip` that ISOLATE needs (`edr/routes.py:1010`, `agent/cyedr_agent.py:2132`): the host is off the platform for good, UNISOLATE included; `edr/response_orchestrator.py:12` |
| `OnlySameEventCollapses` (`MCConnectorFeed`) | `connectors`, `Vendors = {"qradar"}`, `SameDesc`, `MaxFaults = 0` | `connector_bridge.py:86` stamps the minute of the pull, so different events of one page collapse; `dedup.py:15` |
| `StorageRetried` (`DataLake`) | `lake` | `clickhouse_store.py:74` decides once; `docs/CYDATALAKE_MIGRATION_PLAN.md:433` says it retries every 60 s |

The rule cache promises that "the very next alert processed sees the change"
(`CE/rule_cache.py:8`); a reload that was running when `invalidate()` came
undoes it for up to 30 seconds: the premise of `SeesQuietWrites`.

What the models take over from the code although it may surprise a reader:

* Audit trail: after band 3 its last entry says "open" (the case, `CE/ingestor.py:379`) while the incident is in review.
* Connectors: five vendors' queries ask again for the cursor's own time at every pull, and after the guard's TTL push its events
  again; a page of which one event cannot be normalised is dropped whole and its cursor saved; a crash between
  the key and the push suppresses the event when it is pulled again; an empty pull of AWS or Office 365 moves
  the cursor to now, where `base.py:64` says unchanged.
* Worker: a failed Kafka start is never repeated, and an event of which no row can be made ends the consumer thread
  although `write_events` "never raises".
* Enrolment: the collector never saves its enrolment token and is refused after a restart; a removed host that is installed
  again gets a token that is never accepted, because its row stays removed; a match by name takes over any row with the
  name; a UUID written to several rows of one name violates the index and the use is spent.
* Scheduler: a created job gives the companion its own interval rather than the shortest
  (`docs/SCHEDULER.md:63`); a request that reads the file between `Truncate` and `Write` of another saves a
  list without the other's jobs.

## 6. Proofs

All theorems hold for every value of the constants that satisfies the modules' named assumptions: limits are natural numbers,
alerts, stamps and vendors are well formed, ids and the owners of locks are told from each other and from none,
and the sets that are counted are finite. `PROJECT.json` lists the theorems; each rests on an invariant that is
inductive, with a lemma for every action, and each listed property is a conjunct or a consequence of it.

**IncidentEngineProofs.** `EngineTypes` (`[]TypeOK`), `AlertsGroupedOneByOne` (`[]GroupingSerialised`),
`LocksReleased` (`[]LocksOwned`) and `EventsStoredOnce` (`[]OneRowPerEvent`), for any alerts, people, sweeps,
deletes, failures and crashes. They need each other: a sweep's audit entry has a type because it
has read every row it locked, and a second copy of an event is refused because nobody
else commits an alert between its check and its own commit. `EngineInv` is `TypeOK` and `Ownership`, which
adds to the three properties

* `GroupedFresh`: an alert being grouped has an incident number and its event is not stored;
* `SweepsRead`: a sweep with rows to do is writing, and knows the status of every row it locked.

Steps that share a shape rest on one lemma:
`GroupingBegins` takes the advisory lock, `GroupingEnds` gives everything back (commit, stale row,
failure), `SweepBegins` and `SweepEnds` do the same for sweeps, and `OwnershipKept` is for steps that
touch no lock.

**IncidentRowsProofs** builds on it: what the rows say. `Kinds` sorts every step into those that leave the tables (`TablesRest`),
update rows in place (`RowsUpdated`), group an alert, commit one, or delete.

* `TrailEndsInStatus` (`[]AuditTail`, if nobody may PATCH; the last *status change* of the trail, since the entry of an opened case
  is written after it): a merge that keeps the status does not know what it has become since, but
  it does not write it either; and it holds the lock of a row that exists (`MergesHold`).
* `CountsFollowLinks` (`[]CountMatchesLinks`, if nobody deletes) and `ArchiverKeepsCounts` (the same, if only one archiver does): the count a merge read is still the row's when it commits
  (`CountRead`), since only the holder of the advisory lock changes counts; a new incident's number is
  above all others (`NextIdNew`) and so has no links yet.
* `EngineOpensOnce` (`[]CaseOpenedOnce`, if nobody deletes, may PATCH or opens cases from the other process) and
  `ArchiverKeepsCases` (if only one archiver deletes): the same of the case (`CaseRead`), and an unused number has no comments
  (`NoComments`). Both pairs share their steps, which ask of a delete only that it takes no incident a task has chosen and
  all alerts of those it takes (`DeletesWhole`).
* `OneAlertJoinsLate` (`LateSpec => []OneLateJoin`, no premise): the candidate was active when its task read it under the advisory lock
  (`LateInv`), so no alert has joined it since it was settled, and until that task's commit no other task has a candidate.
* `ArchiverLeavesNoOrphans` (`[]NoOrphanAlerts`) and `ArchiverDeletesSettled` (`ArchiveOnlySettled`), for one archiver beside any
  ingest, sweeps and crashes, if nobody transitions, PATCHes or purges. The archiver compares ids only, and takes alerts and
  incidents by two statements. `ArchiveInv` is why that is enough: a row that is old and settled is neither being merged into nor about to be
  marked a false positive (`Young`), so what was selected stays settled (`Selected`) and gets no alert between
  the statements (`Doomed`). A second archiver could delete a number that has been used again.
* `HostAlertsGroup` (`[]SameHostGroups`, under the same premises): two incidents of a host that are active, or that a merge may make
  active again, begin more than a window apart (`BeginApart`), and so does the incident a task is about to publish (`NewApart`); `Groupable` says which
  those are. It rests on `RowsInv`: entities, first and last of a row are those of its alerts
  (`RowsOfAlerts`), and the row a task publishes is the current one with its alert added (`RowRead`). Two premises are about the data,
  and the code fails without either: two hosts share no address or user (`HostsApart`; section 5 has the run that shows it), and
  at each moment the candidates in range fit on the page of 20 (`PageHoldsAll`, `CE/grouper.py:128`).
* `EngineImplementsTable` (`Spec => TableSpec`, with no analyst, PATCH, sweep or purge): the refinement. A commit is
  a `Join` or a `Begin`, the archiver's second DELETE an `Archive`, everything else a stutter. What a task chose several steps earlier must still be
  the choice by the alerts stored when it publishes: `Chosen` says that the incident is the latest that fits, or that whatever fits is
  `Hidden` behind a page of others (no premise on pages or hosts), and `SameCandidates` that no step in between changes the candidates.
  `TableFits`, `TableNewer` and `TableHidden` translate what is read off rows into what is read off alerts.

**EdrCommandsProofs.** `CommandTypes` (`[]TypeOK`), `CommandsRunOnce` (`[]AtMostOnce`),
`QueueImplementsLife` (`Spec => LifeSpec`), `IsolationShown` (`[]IsolationInSync`) and `PolicyReachesHosts`
(`[]PolicyDelivered`). `AtMostOnce` is not inductive: a poll that was given
up still marks its page acknowledged, pages of two polls overlap, and a batch is read from the
answer, not from the table. `DeliveryInv` adds what keeps a second execution
away:

* `ConfigsKnown`: a decided policy command has a configuration (for types);
* `WaitingFresh`: a command the table still offers has not run, and there is a report only of
  a command that ran;
* `PagesKnown`: a page holds rows of the polling agent, and an answered page is offered no more;
* `AwaitedFresh`: no command in the poll the agent *awaits* has run. Other polls may hold such
  commands, and it is the agent's never reading an abandoned answer that saves it;
* `BatchFresh`: what an agent still holds has not run, and what it reports has.

For the refinement, `LifeStep` maps every action to `Issue`, `Take`, `Run`,
`Report` or a stutter of `CommandLife`.

`IsolationInSync` speaks of hosts at rest. `SyncInv` says, while nothing has failed, that a handler still to set `isolation_state` is that of the command
the host waits for (`ReportsTell`), and that the state is right for every host no handler is about to change
(`OtherwiseInSync`); a host that cut itself off is the case with no answer to wait for.

`PolicyDelivered` speaks of agents that have run their commands. `PolicyInv` says what the commands still to run will do: each is in the table, in the
answer the agent waits for, or in its batch (`NothingLost`), those on their way are older than those in the table (`OldestFirst`), and the last one
carries the policy of the database (`PolicyDue`). `EditsOrdered` is what commits owe: the transaction of an edit
begins after every command there is. It needs `OneEditor`; with two the property fails, as section 5 shows.

**RuleCacheProofs.** `RuleCacheTypes` (`[]TypeOK`) and `QuietWritesSeen` (`[]SeesQuietWrites`), for any
number of tasks, routes and writes. `QuietInv` strengthens the latter: acknowledged and
written versions are in the tables and a task at rest holds no old read (`Grounded`), and as
long as nothing raced, what a running reload has read or assigned is no older than what was
acknowledged (`ReadsCurrent`).

**AgentEnrollmentProofs.** `TypeCorrect`; `OverrunIsBounded` (`[]OverrunBounded`): the uses counted and the threads between check and increment
together stay under the limit plus the threads (`OverrunInv`), so check-then-increment costs at most one use per other
thread; `EveryRowPaid` (`[]RowsPaid`), by counting rows and matches on their way; `HostsHoldTheirToken` (`[]TokenHeld`):
`CredentialInv` says that a host that waits is served by its own handler (`CallsMatch`) and that the token of a row it
enrolled is held or in an answer on its way to it (`HeldOrGranted`). That is what a lost answer breaks, and why
`unheard` hosts are the exception.

**ConnectorFeedProofs.** `TypeCorrect`, `CursorSkipsNothing` (`[]NothingSkipped`) and `GuardHolds` (`[]OncePerWindow`), for any vendor, page size, threads and
faults. A cursor is *settled* if it passes no event without an account (listed, on its way, lost, or in `missed` or `cut`, which are
`Passed`): the theorem says that there is no sixth way, not that the fifth is harmless. The saved cursor is (`CursorSettled`),
and each pull's old and new cursor are, but for the events it still has to look at (`PullsSettle`); so it does no harm that
overlapping pulls save in any order. A key the guard holds is accounted for (`KeysAccounted`), which is what an event it drops relies
on. `GuardHolds` counts the pushes made and the events let through but not yet pushed against the windows opened (`Paid`).

**DataLakeProofs.** `TypeCorrect`, `EveryEventAccounted` (`[]Accounted`), `InsertedOncePerRun` (`[]OncePerRun`) and `ExportLosesNoRow` (`[]RowsSurvive`). `Placed` follows every event
from the position to the batch, the table or a named loss, also through commits ahead of the batch; `NotYetThisRun` says
that what this run has not yet written was written at most once by each run before; `HeldTwice` that picked rows are in the file and the table until
the DELETE.

**SchedulerProofs.** `TypeCorrect`, `StoredRuns` (`[]RunsWhatIsStored`) and `CompanionKept` (`[]CompanionHasScan`). While requests do not overlap one thread is busy at most (`OneAtATime`), and `InStep`
relates memory to the file the request is about to leave (`Matches`) step by step; a refused trigger comes with a new id only
(`IdsUsed`), so that leaving APScheduler as it is agrees with the file's accepted jobs. `KeptInStep` does the same for the companion: the file keeps a scan for it, or a recalculation follows (`Settles`).

Every invariant and action property of the passing runs is stated by a theorem. Where the theorem has premises, the run has them too;
section 3 names those of the properties, and the table of section 5 lists what is known to fail without them. Only model-checked is what a prover of safety cannot say, the liveness properties
(fairness and ENABLED are out of its reach): `EveryAlertSettles`, `EveryRequestEnds`, `CommandsLeaveQueue`, `CommandsReported`,
`HealsEventually`, `EventuallyListed`, `AgedRowsLeave`, `CallsEnd`. No module with a theorem uses a RECURSIVE operator.

## 7. Abstractions

* Texts, scores of enrichment, LLM answers, JSON payloads, timestamps beyond their order and the two age
  thresholds, and the contents of rules are left out. Alert times are small numbers;
  `Window` and `MaxAge` are in the same unit.
* The columns `affected_agents`, `src_ips`, `affected_users` and `categories` are one set
  of entities: their values are of different kinds.
* An agent has one configuration of one policy type; commands other than
  ISOLATE, UNISOLATE, APPLY_POLICY and BLOCK_HASH are `"OTHER"`, which may succeed or fail.
* Polls of a host that is cut off may still reach the platform; their answers never arrive.
* `ConnectorFeed`: time is in minutes, the resolution of the guard's key; a key's 120 s are any time. An event's entity and description are
  `Desc`. A vendor may show an event late; one whose time was passed before is `missed`.
* `IncidentEngine`: the chat's actions in the portal transition an incident and then write a second `status_change` entry through `/audit`
  (`blueprints/system/routes.py:2643,2685`, `CE/main.py:1720`), two requests apart. These entries are not modelled: another transition between
  the two would leave a trail whose last status change is the older one, so `AuditTail` speaks of the engine's own writers only.
* `DataLake`: connecting and the DDL are one step (`Client`), although `clickhouse_store.py:66-74` makes the client visible
  to the other thread before the tables are there. An insert in between loses its events like one that ClickHouse does not answer.
* `DataLake`: the eight Kafka topics are one log, one partition, and its positions are offsets. Tables and files are
  counts per event. The row that cannot be made and the raised DDL are one fault (`WriteRaises`).
* `AgentEnrollment`: a deployment token is valid or not: its expiry is a revocation. Groups, policies and licences that an enrolment
  assigns on the way are left out; `os_type` of a token is not enforced by the code and not modelled.
* `Scheduler`: cron expressions are two values, accepted and refused; a PUT changes the enabled flag of one task, so that the page's tasks keep
  their commands and known types (the skips of `blueprints/scheduler/routes.py:308-315` are not reached); an interval of the chat that is no
  number, and a write of the file that fails, are not modelled.

## 8. Not modelled

* FP patterns and feedback: `submit_feedback` hands the request's `AsyncSession` to a background task (`CE/feedback_store.py:54`), and what
  happens then is decided inside SQLAlchemy and asyncpg; the lost increments of `CE/fp_pattern_store.py:104` are listed as a hazard.
* Groups, and the deletion of policies: they change who is in a policy's scope without any command; listed as hazards.
* The collector and EDR bridges and the file tail: the guard and the push are `ConnectorFeed`'s; their own state is a file offset.
* Scoring, normalising, UEBA, risk, Sigma rules, compliance, ITAM, platform control,
  authentication, ASM and the portal compute over data or do pure I/O and keep no state that
  interleavings could break; `PROJECT.json` gives the reason for each. Settings routes, campaigns, SSE
  events and the unreachable status `held` of the engine are left out.

## 9. Plan

1. `IncidentTable` with the changes of people as actions of its own, so that transitions, PATCH, sweeps and purges refine it too.
2. `ConnectorFeed` composed with the list of `IncidentEngine`: an event that is listed is stored once.
3. FP patterns with a session model of their own, the collector bridge's file tail, and ASM's scan slots.
