------------------------------ MODULE Scheduler -------------------------------
(***************************************************************************)
(* The scan scheduler: the job routes (blueprints/scheduler) and the       *)
(* system page (blueprints/system) rewrite one file, schedules.json, from  *)
(* the threads of one process; the in-process scheduler (APScheduler) is   *)
(* filled from it when the process starts.  No request checks the fields   *)
(* of a cron expression: APScheduler refuses a bad one when the stored job *)
(* is registered, which is only logged.                                    *)
(***************************************************************************)
EXTENDS Integers, FiniteSets

CONSTANTS
    Jobs,        \* ids of created scans (uuid4)
    Tasks,       \* tasks of the system page (_DEFAULT_SCHEDULES)
    Companion,   \* _WORDLIST_AUTOSYNC_ID
    Seconds,     \* intervals of a Continuous Sync
    Handlers,    \* request threads
    MaxOps       \* bound: requests

Ids == Jobs \cup Tasks \cup {Companion}
ASSUME IdsAssumption == Companion \notin Jobs \cup Tasks /\ Jobs \cap Tasks = {}
ASSUME SecondsAssumption == Seconds \subseteq Nat \ {0}
ASSUME MaxOpsAssumption == MaxOps \in Nat

VARIABLES
    form,        \* what the file holds: "list", "dict", "none" or "torn"
    stored,      \* the jobs a reader of the file gets
    defaults,    \* _DEFAULT_SCHEDULES: the enabled flag of each task
    running,     \* jobs registered with APScheduler: their trigger
    crontab,     \* tasks with a line in the crontab
    req,         \* the request each thread serves
    used,        \* ids handed out
    ops,         \* requests so far
    disturbed,   \* requests overlapped, or the page saved, since the start (history)
    broken       \* requests overlapped or were cut off by a restart (history)

file == <<form, stored>>
history == <<disturbed, broken>>
vars == <<file, defaults, running, crontab, req, used, ops, history>>

Cron == 0       \* a cron expression APScheduler takes, ...
Refused == -1   \* ... and one CronTrigger raises on (an hour of 25)
Accepted == Seconds \cup {Cron}
Every == Accepted \cup {Refused}
Empty == [j \in {} |-> Cron]
Idle == [pc |-> "idle", do |-> "none", id |-> Companion, on |-> FALSE,
         every |-> Cron, sync |-> FALSE, copy |-> Empty]

Init ==
    /\ form = "none"
    /\ stored = Empty
    /\ defaults = [t \in Tasks |-> FALSE]
    /\ running = Empty
    /\ crontab = {}
    /\ req = [h \in Handlers |-> Idle]
    /\ used = {}
    /\ ops = 0
    /\ disturbed = FALSE
    /\ broken = FALSE

Busy(h) == req[h].pc # "idle"
Quiet == \A h \in Handlers : ~Busy(h)

With(f, j, e) == [i \in DOMAIN f \cup {j} |-> IF i = j THEN e ELSE f[i]]
Without(f, j) == [i \in DOMAIN f \ {j} |-> f[i]]
Job(on, every) == [on |-> on, every |-> every]
EveryOf(j) == IF j \in DOMAIN stored THEN stored[j].every ELSE Cron

(* The jobs init_scheduler gets registered: of the enabled ones, those     *)
(* whose trigger APScheduler takes; it goes on after one it refuses.       *)
Enabled(jobs) ==
    [j \in {i \in DOMAIN jobs : jobs[i].on /\ jobs[i].every # Refused} |-> jobs[j].every]

(* Enabled Continuous Sync jobs.                                           *)
Active(jobs) == {j \in DOMAIN jobs \ {Companion} :
                    jobs[j].on /\ jobs[j].every \in Seconds}
Shortest(jobs) == CHOOSE e \in {jobs[j].every : j \in Active(jobs)} :
                      \A i \in Active(jobs) : e <= jobs[i].every
-----------------------------------------------------------------------------
(* A request enters thread h.                                              *)
Open(h, do, id, on, every, sync) ==
    /\ ~Busy(h)
    /\ ops < MaxOps
    /\ ops' = ops + 1
    /\ req' = [req EXCEPT ![h] =
                 [pc |-> "load", do |-> do, id |-> id, on |-> on,
                  every |-> every, sync |-> sync, copy |-> Empty]]
    /\ disturbed' = (disturbed \/ ~Quiet \/ do = "put")
    /\ broken' = (broken \/ ~Quiet)
    /\ UNCHANGED <<file, defaults, running, crontab>>

(* POST /jobs; a cron expression is stored as it comes.                    *)
Create(h, j, every) ==
    /\ j \notin used
    /\ used' = used \cup {j}
    /\ Open(h, "add", j, TRUE, every, every \in Seconds)

(* The chat's add_schedule action: it leaves the companion alone.          *)
AddInternal(h, j, every) ==
    /\ j \notin used
    /\ used' = used \cup {j}
    /\ Open(h, "add", j, TRUE, every, FALSE)

(* DELETE /jobs/<id> looks at the dying job before it loads the file again.*)
Delete(h, j) ==
    /\ Open(h, "remove", j, FALSE, EveryOf(j),
            j # Companion /\ EveryOf(j) \in Seconds)
    /\ UNCHANGED used

Patch(h, j, on) ==
    /\ Open(h, "switch", j, on, Cron, FALSE)
    /\ UNCHANGED used

(* PUT /api/system/schedules with a change of one task.                    *)
PutSchedules(h, t, on) ==
    /\ Open(h, "put", t, on, Cron, FALSE)
    /\ UNCHANGED used

(* The page's view: the file if it is a dict, else the module's defaults.  *)
LoadSchedulesAnyForm == stored
LoadSchedules ==
    IF form = "dict" THEN stored ELSE [t \in Tasks |-> Job(defaults[t], Cron)]

(* What the request will save.                                             *)
Edited(r) ==
    CASE r.do = "add"    -> With(stored, r.id, Job(TRUE, r.every))
      [] r.do = "switch" -> With(stored, r.id, Job(r.on, EveryOf(r.id)))
      [] r.do = "put"    -> With(LoadSchedules, r.id, Job(r.on, Cron))
      [] OTHER           -> Without(stored, r.id)

Missing(r) == r.do \in {"remove", "switch", "drop"} /\ r.id \notin DOMAIN stored

(* The request reads the file and edits its copy.  Without the job it      *)
(* answers 404, or goes on to unregister the companion.                    *)
Load(h) ==
    LET r == req[h] IN
    /\ r.pc = "load"
    /\ IF Missing(r)
       THEN req' = [req EXCEPT ![h] = IF r.do = "drop"
                                      THEN [r EXCEPT !.pc = "apply"] ELSE Idle]
       ELSE req' = [req EXCEPT ![h] = [r EXCEPT !.pc = "open", !.copy = Edited(r)]]
    /\ defaults' = IF r.do = "put" /\ form # "dict"
                   THEN [defaults EXCEPT ![r.id] = r.on] ELSE defaults
    /\ UNCHANGED <<file, running, crontab, used, ops, history>>

(* write_text opens the file, which empties it, ...                        *)
Truncate(h) ==
    /\ req[h].pc = "open"
    /\ form' = "none"
    /\ stored' = Empty
    /\ req' = [req EXCEPT ![h].pc = "write"]
    /\ UNCHANGED <<defaults, running, crontab, used, ops, history>>

(* ... and writes from its start; over another thread's text the rest of a *)
(* longer one stays behind.                                                *)
Write(h) ==
    /\ req[h].pc = "write"
    /\ \/ /\ form' = IF req[h].do = "put" THEN "dict" ELSE "list"
          /\ stored' = req[h].copy
       \/ /\ form # "none"
          /\ form' = "torn"
          /\ stored' = Empty
    /\ req' = [req EXCEPT ![h].pc = "apply"]
    /\ UNCHANGED <<defaults, running, crontab, used, ops, history>>

(* _add_to_apscheduler: what a refused trigger raises is logged, and the   *)
(* request goes on.  The jobs here have a known type, and a command where  *)
(* they need one: its early returns are for others.                        *)
Registered(id, every) == IF every = Refused THEN running ELSE With(running, id, every)
Unregistered(id) == Without(running, id)
EveryIn(r) == IF r.do = "add" THEN r.every ELSE r.copy[r.id].every
AppliedAnyway(r) ==
    IF r.do \in {"add", "switch"} THEN Registered(r.id, EveryIn(r))
    ELSE IF r.do = "put" THEN running
    ELSE Unregistered(r.id)
Applied(r) ==
    IF r.do = "add" \/ (r.do = "switch" /\ r.on)
    THEN Registered(r.id, EveryIn(r))
    ELSE IF r.do = "put" THEN running
    ELSE Unregistered(r.id)

(* What follows: the companion takes the interval of a created job; after  *)
(* a Continuous Sync was removed or switched it is recalculated.           *)
NextSkipsRecalc(r) ==
    IF r.do = "add" /\ r.sync
    THEN [r EXCEPT !.pc = "load", !.id = Companion, !.sync = FALSE, !.copy = Empty]
    ELSE Idle
NextOf(r) ==
    IF r.do = "add" /\ r.sync
    THEN [r EXCEPT !.pc = "load", !.id = Companion, !.sync = FALSE, !.copy = Empty]
    ELSE IF \/ r.do = "remove" /\ r.sync
            \/ r.do = "switch" /\ r.id # Companion /\ r.copy[r.id].every \in Seconds
    THEN [Idle EXCEPT !.pc = "recalc"]
    ELSE Idle

(* The scheduler, or the crontab, is brought in line with the saved copy.  *)
Apply(h) ==
    LET r == req[h] IN
    /\ r.pc = "apply"
    /\ running' = Applied(r)
    /\ crontab' = IF r.do = "put" THEN {t \in Tasks : r.copy[t].on} ELSE crontab
    /\ req' = [req EXCEPT ![h] = NextOf(r)]
    /\ UNCHANGED <<file, defaults, used, ops, history>>

(* _recalc_wordlist_schedule reads the file once more.                     *)
Recalc(h) ==
    /\ req[h].pc = "recalc"
    /\ req' = [req EXCEPT ![h] =
                 IF Active(stored) = {}
                 THEN [Idle EXCEPT !.pc = "load", !.do = "drop"]
                 ELSE [Idle EXCEPT !.pc = "load", !.do = "add", !.on = TRUE,
                                   !.every = Shortest(stored)]]
    /\ UNCHANGED <<file, defaults, running, crontab, used, ops, history>>

(* The process ends at any point, or is restarted, and registers the       *)
(* enabled jobs of the file.                                               *)
Restart ==
    /\ running' = Enabled(stored)
    /\ defaults' = [t \in Tasks |-> FALSE]
    /\ req' = [h \in Handlers |-> Idle]
    /\ disturbed' = FALSE
    /\ broken' = (broken \/ ~Quiet)
    /\ UNCHANGED <<file, crontab, used, ops>>

Step(h) == Load(h) \/ Truncate(h) \/ Write(h) \/ Apply(h) \/ Recalc(h)

Next ==
    \/ \E h \in Handlers, j \in Jobs, e \in Every : Create(h, j, e) \/ AddInternal(h, j, e)
    \/ \E h \in Handlers, j \in Ids : Delete(h, j)
    \/ \E h \in Handlers, j \in Ids, on \in BOOLEAN : Patch(h, j, on)
    \/ \E h \in Handlers, t \in Tasks, on \in BOOLEAN : PutSchedules(h, t, on)
    \/ \E h \in Handlers : Step(h)
    \/ Restart

Spec == Init /\ [][Next]_vars
-----------------------------------------------------------------------------
JobMaps == UNION {[S -> [on: BOOLEAN, every: Every]] : S \in SUBSET Ids}

(* Types of the variables.                                                 *)
TypeOK ==
    /\ form \in {"none", "torn", "list", "dict"}
    /\ stored \in JobMaps
    /\ form = "dict" => DOMAIN stored = Tasks
    /\ defaults \in [Tasks -> BOOLEAN]
    /\ running \in UNION {[S -> Accepted] : S \in SUBSET Ids}
    /\ crontab \subseteq Tasks
    /\ req \in [Handlers -> [pc: {"idle", "load", "open", "write", "apply", "recalc"},
                             do: {"none", "add", "remove", "switch", "put", "drop"},
                             id: Ids, on: BOOLEAN, every: Every, sync: BOOLEAN,
                             copy: JobMaps]]
    /\ used \subseteq Jobs
    /\ ops \in Nat
    /\ disturbed \in BOOLEAN
    /\ broken \in BOOLEAN

(* The process runs exactly the enabled jobs of the file whose trigger     *)
(* APScheduler takes, unless requests overlapped or the system page saved  *)
(* since it started: a job of them that is created, switched or deleted,   *)
(* and a restart in the middle of a save, lets the two agree again         *)
(* (scheduler_jobs_create, _delete, _patch, init_scheduler).               *)
RunsWhatIsStored == Quiet /\ ~disturbed => running = Enabled(stored)

(* Stronger, and false: an enabled job runs.  One POST with an hour of 25  *)
(* is answered 201 and its scan never runs.                                *)
EnabledJobsRun ==
    Quiet /\ ~disturbed => DOMAIN running = {j \in DOMAIN stored : stored[j].on}

(* The wordlist companion never outlives the last Continuous Sync, as long *)
(* as requests neither overlap nor are cut off (_recalc_wordlist_schedule).*)
CompanionHasScan ==
    Quiet /\ ~broken /\ Companion \in DOMAIN stored => Active(stored) # {}

(* docs/SCHEDULER.md:32: "On each restart, all enabled jobs are reloaded   *)
(* from this file": the scans the idle process runs survive a restart.     *)
RestartKeepsScans ==
    [][Restart /\ Quiet => DOMAIN running \cap Jobs \subseteq DOMAIN running']_vars
=============================================================================
