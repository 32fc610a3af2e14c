---------------------------- MODULE SchedulerProofs ----------------------------
(***************************************************************************)
(* For any number of threads, scans, tasks, intervals and restarts: types, *)
(* an undisturbed process runs the enabled jobs of the file whose trigger  *)
(* APScheduler takes, and the companion of a scheduler whose requests do   *)
(* not overlap has a Continuous Sync.                                      *)
(***************************************************************************)
EXTENDS Scheduler, WellFoundedInduction, TLAPS

Entry == [on: BOOLEAN, every: Every]
Runs == UNION {[S -> Accepted] : S \in SUBSET Ids}
Requests == [pc: {"idle", "load", "open", "write", "apply", "recalc"},
             do: {"none", "add", "remove", "switch", "put", "drop"},
             id: Ids, on: BOOLEAN, every: Every, sync: BOOLEAN, copy: JobMaps]

(* What a request's copy holds.                                            *)
CopyOK(r) ==
    /\ r.pc \in {"open", "write", "apply"} /\ r.do \in {"add", "switch", "put"}
           => r.id \in DOMAIN r.copy
    /\ r.do = "put" => r.id \in Tasks
    /\ r.do = "put" /\ r.pc \in {"open", "write"} => DOMAIN r.copy = Tasks
    /\ r.sync => r.every \in Seconds
CopiesOK == \A h \in Handlers : CopyOK(req[h])
TypeInv == TypeOK /\ CopiesOK

(* While no request overlaps another, at most one thread is busy.          *)
OneAtATime == \A g, h \in Handlers : Busy(g) /\ Busy(h) => g = h

(* How the process, the file and the request's copy agree at each of its   *)
(* steps: applying the request now yields the enabled jobs of the copy, or *)
(* of the file it has written.  A refused trigger comes with a new id only.*)
Matches(r) ==
    /\ r.do # "put"
    /\ r.pc \in {"load", "recalc"} => running = Enabled(stored)
    /\ r.pc = "load" /\ r.do = "add" => r.every # Refused \/ r.id \notin DOMAIN stored
    /\ r.pc \in {"open", "write"} => Applied(r) = Enabled(r.copy)
    /\ r.pc = "write" => form = "none"
    /\ r.pc = "apply" => Applied(r) = Enabled(stored)

InStep ==
    ~disturbed => /\ OneAtATime
                  /\ Quiet => running = Enabled(stored)
                  /\ \A h \in Handlers : Busy(h) => Matches(req[h])

(* A companion has an enabled Continuous Sync.                             *)
Kept(f) == Companion \in DOMAIN f => Active(f) # {}

(* The request will recalculate the companion after its save.              *)
Follows(r) ==
    \/ r.do = "remove" /\ r.sync
    \/ r.do = "switch" /\ r.id # Companion /\ r.copy[r.id].every \in Seconds

(* What the companion can rely on at each step of a request: the file, or  *)
(* the copy about to be written, keeps it, or a recalculation follows.     *)
Settles(r) ==
    /\ r.do = "none" => r.pc = "recalc"
    /\ r.pc = "load" =>
         /\ r.do \in {"remove", "switch", "put"} => Kept(stored)
         /\ r.do = "remove" => r.sync = (r.id # Companion /\ EveryOf(r.id) \in Seconds)
         /\ r.do = "add" /\ r.id = Companion => Active(stored) # {} /\ ~r.sync
         /\ r.do = "add" /\ r.id # Companion =>
                /\ Kept(stored)
                /\ r.id \notin DOMAIN stored
                /\ r.sync => r.every \in Seconds
         /\ r.do = "drop" => r.id = Companion
    /\ r.pc \in {"open", "write"} =>
         /\ Follows(r) \/ Kept(r.copy)
         /\ r.do = "add" /\ r.sync => Active(r.copy) # {}
    /\ r.pc = "write" => form = "none"
    /\ r.pc = "apply" =>
         /\ Follows(r) \/ Kept(stored)
         /\ r.do = "add" /\ r.sync => Active(stored) # {}

KeptInStep ==
    ~broken => /\ OneAtATime
               /\ Quiet => Kept(stored)
               /\ \A h \in Handlers : Busy(h) => Settles(req[h])

(* The file and the copies hold scans of ids handed out only.              *)
Known(f) == DOMAIN f \cap Jobs \subseteq used
IdsUsed ==
    /\ Known(stored)
    /\ \A h \in Handlers :
         /\ Known(req[h].copy)
         /\ req[h].do = "add" => req[h].id \in used \cup {Companion}
-----------------------------------------------------------------------------
(* Maps of jobs.                                                           *)
LEMMA JobMapElim ==
    ASSUME NEW f \in JobMaps
    PROVE  /\ DOMAIN f \subseteq Ids
           /\ \A j \in DOMAIN f : f[j] \in Entry
  BY DEF JobMaps, Entry

LEMMA RunElim ==
    ASSUME NEW f \in Runs
    PROVE  /\ DOMAIN f \subseteq Ids
           /\ \A j \in DOMAIN f : f[j] \in Accepted
  BY DEF Runs

LEMMA Triggers ==
    /\ Cron \in Every /\ Cron \notin Seconds
    /\ Refused \notin Seconds
    /\ Accepted = {e \in Every : e # Refused}
    /\ Seconds \subseteq Accepted
  BY SecondsAssumption DEF Every, Accepted, Cron, Refused

LEMMA EmptyType == Empty \in JobMaps /\ Empty \in Runs /\ DOMAIN Empty = {}
  <1>1. Empty \in [{} -> [on: BOOLEAN, every: Every]] /\ Empty \in [{} -> Accepted]
    BY DEF Empty
  <1>2. DOMAIN Empty = {}
    BY DEF Empty
  <1> QED  BY <1>1, <1>2 DEF JobMaps, Runs

LEMMA WithFacts ==
    ASSUME NEW f, NEW j, NEW e
    PROVE  /\ DOMAIN With(f, j, e) = DOMAIN f \cup {j}
           /\ With(f, j, e)[j] = e
           /\ \A i \in DOMAIN f : i # j => With(f, j, e)[i] = f[i]
           /\ With(f, j, e) = [i \in DOMAIN f \cup {j} |-> With(f, j, e)[i]]
  BY DEF With

LEMMA WithoutFacts ==
    ASSUME NEW f, NEW j
    PROVE  /\ DOMAIN Without(f, j) = DOMAIN f \ {j}
           /\ \A i \in DOMAIN f \ {j} : Without(f, j)[i] = f[i]
           /\ Without(f, j) = [i \in DOMAIN f \ {j} |-> Without(f, j)[i]]
  BY DEF Without

LEMMA JobType ==
    ASSUME NEW on \in BOOLEAN, NEW e \in Every
    PROVE  /\ Job(on, e) \in Entry
           /\ Job(on, e).on = on
           /\ Job(on, e).every = e
  BY DEF Job, Entry

LEMMA WithJob ==
    ASSUME NEW f \in JobMaps, NEW j \in Ids, NEW e \in Entry
    PROVE  With(f, j, e) \in JobMaps
  <1>1. DOMAIN f \cup {j} \in SUBSET Ids
    BY JobMapElim
  <1>2. With(f, j, e) \in [DOMAIN f \cup {j} -> Entry]
    BY JobMapElim DEF With
  <1> QED  BY <1>1, <1>2 DEF JobMaps, Entry

LEMMA WithoutJob ==
    ASSUME NEW f \in JobMaps, NEW j
    PROVE  Without(f, j) \in JobMaps
  <1>1. DOMAIN f \ {j} \in SUBSET Ids
    BY JobMapElim
  <1>2. Without(f, j) \in [DOMAIN f \ {j} -> Entry]
    BY JobMapElim DEF Without
  <1> QED  BY <1>1, <1>2 DEF JobMaps, Entry

LEMMA WithRun ==
    ASSUME NEW f \in Runs, NEW j \in Ids, NEW e \in Accepted
    PROVE  With(f, j, e) \in Runs
  <1>1. DOMAIN f \cup {j} \in SUBSET Ids
    BY RunElim
  <1>2. With(f, j, e) \in [DOMAIN f \cup {j} -> Accepted]
    BY RunElim DEF With
  <1> QED  BY <1>1, <1>2 DEF Runs

LEMMA WithoutRun ==
    ASSUME NEW f \in Runs, NEW j
    PROVE  Without(f, j) \in Runs
  <1>1. DOMAIN f \ {j} \in SUBSET Ids
    BY RunElim
  <1>2. Without(f, j) \in [DOMAIN f \ {j} -> Accepted]
    BY RunElim DEF Without
  <1> QED  BY <1>1, <1>2 DEF Runs

(* The jobs that run.                                                      *)
On(f) == {i \in DOMAIN f : f[i].on /\ f[i].every # Refused}

LEMMA EnabledFacts ==
    ASSUME NEW f
    PROVE  /\ Enabled(f) = [i \in On(f) |-> f[i].every]
           /\ DOMAIN Enabled(f) = On(f)
           /\ \A i \in On(f) : Enabled(f)[i] = f[i].every
  BY DEF Enabled, On

LEMMA EnabledRun ==
    ASSUME NEW f \in JobMaps
    PROVE  Enabled(f) \in Runs
  <1>1. On(f) \in SUBSET Ids
    BY JobMapElim DEF On
  <1>2. \A i \in On(f) : f[i].every \in Accepted
    BY JobMapElim, Triggers DEF On, Entry
  <1>3. Enabled(f) \in [On(f) -> Accepted]
    BY <1>2, EnabledFacts
  <1> QED  BY <1>1, <1>3 DEF Runs

(* Registering a job and unregistering one follow the file; a job that is  *)
(* refused changes nothing.                                                *)
LEMMA EnabledOn ==
    ASSUME NEW f \in JobMaps, NEW j \in Ids, NEW e \in Accepted
    PROVE  Enabled(With(f, j, Job(TRUE, e))) = With(Enabled(f), j, e)
  <1> DEFINE g == With(f, j, Job(TRUE, e))
  <1>1. /\ DOMAIN g = DOMAIN f \cup {j}
        /\ g[j].on /\ g[j].every = e
        /\ \A i \in DOMAIN f : i # j => g[i] = f[i]
    BY DEF With, Job
  <1> HIDE DEF g
  <1>2. On(g) = On(f) \cup {j}
    BY <1>1, Triggers DEF On
  <1>3. Enabled(g) = [i \in On(f) \cup {j} |-> g[i].every]
    BY <1>2, EnabledFacts
  <1>4. With(Enabled(f), j, e)
            = [i \in On(f) \cup {j} |-> IF i = j THEN e ELSE Enabled(f)[i]]
    BY EnabledFacts DEF With
  <1>5. \A i \in On(f) \cup {j} : g[i].every = IF i = j THEN e ELSE Enabled(f)[i]
    <2>1. \A i \in On(f) : Enabled(f)[i] = f[i].every /\ i \in DOMAIN f
      BY EnabledFacts DEF On
    <2> QED  BY <1>1, <2>1
  <1>6. Enabled(g) = With(Enabled(f), j, e)
    BY <1>3, <1>4, <1>5
  <1> QED  BY <1>6 DEF g

LEMMA EnabledOff ==
    ASSUME NEW f \in JobMaps, NEW j, NEW g \in JobMaps,
           DOMAIN g \ {j} = DOMAIN f \ {j}, \A i \in DOMAIN g \ {j} : g[i] = f[i],
           j \notin On(g)
    PROVE  Enabled(g) = Without(Enabled(f), j)
  <1>1. On(g) = On(f) \ {j}
    BY DEF On
  <1>2. Enabled(g) = [i \in On(f) \ {j} |-> g[i].every]
    BY <1>1, EnabledFacts
  <1>3. Without(Enabled(f), j) = [i \in On(f) \ {j} |-> Enabled(f)[i]]
    BY EnabledFacts DEF Without
  <1>4. \A i \in On(f) \ {j} : g[i].every = Enabled(f)[i]
    <2>1. \A i \in On(f) : Enabled(f)[i] = f[i].every
      BY EnabledFacts
    <2>2. \A i \in On(f) \ {j} : g[i] = f[i]
      BY DEF On
    <2> QED  BY <2>1, <2>2
  <1> QED  BY <1>2, <1>3, <1>4

LEMMA WithoutMissing ==
    ASSUME NEW f \in JobMaps, NEW j, j \notin On(f)
    PROVE  Without(Enabled(f), j) = Enabled(f)
  <1>1. On(f) \ {j} = On(f)
    OBVIOUS
  <1>2. Without(Enabled(f), j) = [i \in On(f) |-> Enabled(f)[i]]
    BY <1>1, EnabledFacts DEF Without
  <1>3. \A i \in On(f) : Enabled(f)[i] = f[i].every
    BY EnabledFacts
  <1> QED  BY <1>2, <1>3, EnabledFacts

LEMMA EveryOfType ==
    ASSUME stored \in JobMaps, NEW j
    PROVE  EveryOf(j) \in Every
  BY JobMapElim, Triggers DEF EveryOf, Entry

(* An interval can be recomputed whenever a Continuous Sync is enabled.    *)
LEMMA ShortestType ==
    ASSUME NEW f \in JobMaps, Active(f) # {}
    PROVE  Shortest(f) \in Seconds
  <1> DEFINE T == {f[j].every : j \in Active(f)}
             R == OpToRel(<, Nat)
  <1>1. T \subseteq Nat /\ T # {} /\ T \subseteq Seconds
    <2>1. T # {}
      OBVIOUS
    <2>2. \A j \in Active(f) : f[j].every \in Seconds
      BY DEF Active
    <2> QED  BY <2>1, <2>2, SecondsAssumption
  <1>2. IsWellFoundedOn(R, Nat)
    BY NatLessThanWellFounded
  <1>3. \A k \in Nat, n \in Nat : k < n => <<k, n>> \in R
    BY DEF OpToRel
  <1>4. \E n \in T : \A k \in T : ~(<<k, n>> \in R)
    <2> HIDE DEF T, R
    <2> QED  BY <1>1, <1>2, WFMin
  <1>5. PICK n \in T : \A k \in T : ~(<<k, n>> \in R)
    BY <1>4
  <1>6. \A k \in T : n <= k
    <2> HIDE DEF R
    <2> TAKE k \in T
    <2>1. n \in Nat /\ k \in Nat
      BY <1>1
    <2>2. ~(k < n)
      BY <2>1, <1>3, <1>5
    <2> QED  BY <2>1, <2>2
  <1>7. \A i \in Active(f) : n <= f[i].every
    BY <1>6
  <1>8. Shortest(f) \in T
    BY <1>7 DEF Shortest
  <1> QED  BY <1>1, <1>8
-----------------------------------------------------------------------------
(* Types.                                                                  *)
LEMMA Types ==
    ASSUME TypeInv
    PROVE  /\ form \in {"none", "torn", "list", "dict"}
           /\ stored \in JobMaps
           /\ form = "dict" => DOMAIN stored = Tasks
           /\ defaults \in [Tasks -> BOOLEAN]
           /\ running \in Runs
           /\ crontab \subseteq Tasks
           /\ req \in [Handlers -> Requests]
           /\ used \subseteq Jobs /\ ops \in Nat
           /\ disturbed \in BOOLEAN /\ broken \in BOOLEAN
           /\ \A h \in Handlers : req[h] \in Requests /\ CopyOK(req[h])
  <1>1. req \in [Handlers -> Requests]
    BY DEF TypeInv, TypeOK, Requests
  <1>2. running \in Runs
    BY DEF TypeInv, TypeOK, Runs
  <1> QED  BY <1>1, <1>2 DEF TypeInv, TypeOK, CopiesOK

(* The converse, for the next state.                                       *)
LEMMA TypesBack ==
    ASSUME form' \in {"none", "torn", "list", "dict"},
           stored' \in JobMaps,
           form' = "dict" => DOMAIN stored' = Tasks,
           defaults' \in [Tasks -> BOOLEAN],
           running' \in Runs,
           crontab' \subseteq Tasks,
           req' \in [Handlers -> Requests],
           used' \subseteq Jobs, ops' \in Nat,
           disturbed' \in BOOLEAN, broken' \in BOOLEAN,
           \A h \in Handlers : CopyOK(req'[h])
    PROVE  TypeInv'
  BY DEF TypeInv, TypeOK, CopiesOK, Runs, Requests

LEMMA IdleType == Idle \in Requests /\ CopyOK(Idle)
  BY EmptyType, Triggers DEF Idle, Requests, CopyOK, Ids

LEMMA TypeInit == Init => TypeInv
  <1> SUFFICES ASSUME Init PROVE TypeInv
    OBVIOUS
  <1>1. req \in [Handlers -> Requests] /\ \A h \in Handlers : CopyOK(req[h])
    BY IdleType DEF Init
  <1>2. stored \in JobMaps /\ running \in Runs
    BY EmptyType DEF Init
  <1> QED  BY <1>1, <1>2 DEF Init, TypeInv, TypeOK, CopiesOK, Runs, Requests

(* A new request.                                                          *)
LEMMA OpenType ==
    ASSUME TypeInv, NEW h \in Handlers, NEW do \in {"add", "remove", "switch", "put"},
           NEW id \in Ids, NEW on \in BOOLEAN, NEW every \in Every,
           NEW sync \in BOOLEAN, do = "put" => id \in Tasks, sync => every \in Seconds,
           Open(h, do, id, on, every, sync), used' \subseteq Jobs
    PROVE  TypeInv'
  <1> DEFINE r == [pc |-> "load", do |-> do, id |-> id, on |-> on,
                   every |-> every, sync |-> sync, copy |-> Empty]
  <1>1. r \in Requests
    BY EmptyType DEF Requests
  <1>2. CopyOK(r)
    BY DEF CopyOK
  <1>3. req' = [req EXCEPT ![h] = r]
    BY DEF Open
  <1>4. ops' \in Nat /\ disturbed' \in BOOLEAN /\ broken' \in BOOLEAN
    BY Types DEF Open
  <1>5. UNCHANGED <<form, stored, defaults, running, crontab>>
    BY DEF Open, file
  <1> HIDE DEF r
  <1>6. req' \in [Handlers -> Requests] /\ \A g \in Handlers : CopyOK(req'[g])
    BY <1>1, <1>2, <1>3, Types
  <1> QED  BY <1>4, <1>5, <1>6, Types, TypesBack

(* What Load puts into a copy.                                             *)
LEMMA EditedType ==
    ASSUME TypeInv, NEW r \in Requests, CopyOK(r)
    PROVE  /\ Edited(r) \in JobMaps
           /\ r.do \in {"add", "switch", "put"} => r.id \in DOMAIN Edited(r)
           /\ r.do = "put" => DOMAIN Edited(r) = Tasks
  <1>1. r.id \in Ids /\ r.every \in Every /\ r.on \in BOOLEAN
    BY DEF Requests
  <1>2. stored \in JobMaps
    BY Types
  <1>3. CASE r.do = "add"
    <2>1. Edited(r) = With(stored, r.id, Job(TRUE, r.every))
      BY <1>3 DEF Edited
    <2>2. Job(TRUE, r.every) \in Entry
      BY <1>1, JobType
    <2> QED  BY <1>1, <1>2, <1>3, <2>1, <2>2, WithJob DEF With
  <1>4. CASE r.do = "switch"
    <2>1. Edited(r) = With(stored, r.id, Job(r.on, EveryOf(r.id)))
      BY <1>4 DEF Edited
    <2>2. Job(r.on, EveryOf(r.id)) \in Entry
      BY <1>1, <1>2, JobType, EveryOfType
    <2> QED  BY <1>1, <1>2, <1>4, <2>1, <2>2, WithJob DEF With
  <1>5. CASE r.do = "put"
    <2>1. Edited(r) = With(LoadSchedules, r.id, Job(r.on, Cron))
      BY <1>5 DEF Edited
    <2>2. LoadSchedules \in JobMaps /\ DOMAIN LoadSchedules = Tasks
      <3>1. CASE form = "dict"
        BY <3>1, Types DEF LoadSchedules
      <3>2. CASE form # "dict"
        <4>1. [t \in Tasks |-> Job(defaults[t], Cron)] \in [Tasks -> Entry]
          BY Types, JobType, Triggers
        <4>2. Tasks \in SUBSET Ids
          BY DEF Ids
        <4> QED  BY <3>2, <4>1, <4>2 DEF LoadSchedules, JobMaps, Entry
      <3> QED  BY <3>1, <3>2
    <2>3. Job(r.on, Cron) \in Entry
      BY <1>1, JobType, Triggers
    <2>4. r.id \in Tasks
      BY <1>5 DEF CopyOK
    <2> QED  BY <1>1, <1>5, <2>1, <2>2, <2>3, <2>4, WithJob DEF With
  <1>6. CASE r.do \notin {"add", "switch", "put"}
    <2>1. Edited(r) = Without(stored, r.id)
      BY <1>6 DEF Edited
    <2> QED  BY <1>2, <1>6, <2>1, WithoutJob
  <1> QED  BY <1>3, <1>4, <1>5, <1>6

LEMMA LoadType ==
    ASSUME TypeInv, NEW h \in Handlers, Load(h)
    PROVE  TypeInv'
  <1> DEFINE r == req[h]
  <1>1. r \in Requests /\ CopyOK(r)
    BY Types
  <1>2. PICK s : /\ req' = [req EXCEPT ![h] = s]
                 /\ s \in Requests /\ CopyOK(s)
    <2>1. CASE Missing(r) /\ r.do = "drop"
      <3>1. req' = [req EXCEPT ![h] = [r EXCEPT !.pc = "apply"]]
        BY <2>1 DEF Load
      <3>2. [r EXCEPT !.pc = "apply"] \in Requests /\ CopyOK([r EXCEPT !.pc = "apply"])
        BY <1>1, <2>1 DEF Requests, CopyOK
      <3> QED  BY <3>1, <3>2
    <2>2. CASE Missing(r) /\ r.do # "drop"
      <3>1. req' = [req EXCEPT ![h] = Idle]
        BY <2>2 DEF Load
      <3> QED  BY <3>1, IdleType
    <2>3. CASE ~Missing(r)
      <3> DEFINE c == Edited(r)
                 s == [r EXCEPT !.pc = "open", !.copy = c]
      <3>1. req' = [req EXCEPT ![h] = s]
        BY <2>3 DEF Load
      <3>2. /\ c \in JobMaps
            /\ r.do \in {"add", "switch", "put"} => r.id \in DOMAIN c
            /\ r.do = "put" => DOMAIN c = Tasks
        BY <1>1, EditedType
      <3> HIDE DEF c
      <3>3. s \in Requests /\ CopyOK(s)
        BY <1>1, <3>2 DEF Requests, CopyOK
      <3> QED  BY <3>1, <3>3
    <2> QED  BY <2>1, <2>2, <2>3
  <1>3. defaults' \in [Tasks -> BOOLEAN]
    BY <1>1, Types DEF Load, Requests
  <1>4. UNCHANGED <<form, stored, running, crontab, used, ops, disturbed, broken>>
    BY DEF Load, file, history
  <1>5. req' \in [Handlers -> Requests] /\ \A g \in Handlers : CopyOK(req'[g])
    BY <1>2, Types
  <1> QED  BY <1>3, <1>4, <1>5, Types, TypesBack

LEMMA TruncateType ==
    ASSUME TypeInv, NEW h \in Handlers, Truncate(h)
    PROVE  TypeInv'
  <1>1. req[h] \in Requests /\ CopyOK(req[h]) /\ req[h].pc = "open"
    BY Types DEF Truncate
  <1>2. /\ [req[h] EXCEPT !.pc = "write"] \in Requests
        /\ CopyOK([req[h] EXCEPT !.pc = "write"])
    BY <1>1 DEF Requests, CopyOK
  <1>3. req' = [req EXCEPT ![h] = [req[h] EXCEPT !.pc = "write"]]
    BY DEF Truncate
  <1>4. /\ UNCHANGED <<defaults, running, crontab, used, ops, disturbed, broken>>
        /\ form' = "none" /\ stored' = Empty
    BY DEF Truncate, history
  <1>5. req' \in [Handlers -> Requests] /\ \A g \in Handlers : CopyOK(req'[g])
    BY <1>2, <1>3, Types
  <1> QED  BY <1>4, <1>5, Types, TypesBack, EmptyType

LEMMA WriteType ==
    ASSUME TypeInv, NEW h \in Handlers, Write(h)
    PROVE  TypeInv'
  <1>1. req[h] \in Requests /\ CopyOK(req[h]) /\ req[h].pc = "write"
    BY Types DEF Write
  <1>2. /\ [req[h] EXCEPT !.pc = "apply"] \in Requests
        /\ CopyOK([req[h] EXCEPT !.pc = "apply"])
    BY <1>1 DEF Requests, CopyOK
  <1>3. req' = [req EXCEPT ![h] = [req[h] EXCEPT !.pc = "apply"]]
    BY DEF Write
  <1>4. UNCHANGED <<defaults, running, crontab, used, ops, disturbed, broken>>
    BY DEF Write, history
  <1>5. req' \in [Handlers -> Requests] /\ \A g \in Handlers : CopyOK(req'[g])
    BY <1>2, <1>3, Types
  <1>6. /\ form' \in {"none", "torn", "list", "dict"}
        /\ stored' \in JobMaps
        /\ form' = "dict" => DOMAIN stored' = Tasks
    BY <1>1, EmptyType DEF Write, Requests, CopyOK
  <1> QED  BY <1>4, <1>5, <1>6, Types, TypesBack

LEMMA EveryInType ==
    ASSUME NEW r \in Requests, CopyOK(r), r.pc = "apply", r.do \in {"add", "switch"}
    PROVE  EveryIn(r) \in Every
  <1>1. r.id \in DOMAIN r.copy /\ r.copy \in JobMaps /\ r.every \in Every
    BY DEF CopyOK, Requests
  <1> QED  BY <1>1, JobMapElim DEF EveryIn, Entry

LEMMA RegisteredType ==
    ASSUME running \in Runs, NEW j \in Ids, NEW e \in Every
    PROVE  Registered(j, e) \in Runs
  BY WithRun, Triggers DEF Registered

LEMMA AppliedType ==
    ASSUME TypeInv, NEW r \in Requests, CopyOK(r), r.pc = "apply"
    PROVE  Applied(r) \in Runs
  <1>1. running \in Runs /\ r.id \in Ids
    BY Types DEF Requests
  <1>2. CASE r.do = "add" \/ (r.do = "switch" /\ r.on)
    <2>1. Applied(r) = Registered(r.id, EveryIn(r))
      BY <1>2 DEF Applied
    <2>2. EveryIn(r) \in Every
      BY <1>2, EveryInType
    <2> QED  BY <1>1, <2>1, <2>2, RegisteredType
  <1>3. CASE r.do = "put"
    BY <1>1, <1>3 DEF Applied
  <1>4. CASE ~(r.do = "add" \/ (r.do = "switch" /\ r.on)) /\ r.do # "put"
    BY <1>1, <1>4, WithoutRun DEF Applied, Unregistered
  <1> QED  BY <1>2, <1>3, <1>4

LEMMA NextOfType ==
    ASSUME NEW r \in Requests
    PROVE  NextOf(r) \in Requests /\ CopyOK(NextOf(r))
  <1>1. CASE r.do = "add" /\ r.sync
    <2> DEFINE s == [r EXCEPT !.pc = "load", !.id = Companion, !.sync = FALSE,
                              !.copy = Empty]
    <2>1. NextOf(r) = s
      BY <1>1 DEF NextOf
    <2>2. s \in Requests /\ CopyOK(s)
      BY <1>1, EmptyType DEF Requests, CopyOK, Ids
    <2> QED  BY <2>1, <2>2
  <1>2. CASE ~(r.do = "add" /\ r.sync)
    <2>1. NextOf(r) \in {[Idle EXCEPT !.pc = "recalc"], Idle}
      BY <1>2 DEF NextOf
    <2>2. /\ [Idle EXCEPT !.pc = "recalc"] \in Requests
          /\ CopyOK([Idle EXCEPT !.pc = "recalc"])
      BY EmptyType, Triggers DEF Idle, Requests, CopyOK, Ids
    <2> QED  BY <2>1, <2>2, IdleType
  <1> QED  BY <1>1, <1>2

LEMMA ApplyType ==
    ASSUME TypeInv, NEW h \in Handlers, Apply(h)
    PROVE  TypeInv'
  <1>1. req[h] \in Requests /\ CopyOK(req[h]) /\ req[h].pc = "apply"
    BY Types DEF Apply
  <1>2. running' \in Runs
    BY <1>1, AppliedType DEF Apply
  <1>3. crontab' \subseteq Tasks
    BY Types DEF Apply
  <1>4. req' = [req EXCEPT ![h] = NextOf(req[h])]
    BY DEF Apply
  <1>5. req' \in [Handlers -> Requests] /\ \A g \in Handlers : CopyOK(req'[g])
    BY <1>1, <1>4, NextOfType, Types
  <1>6. UNCHANGED <<form, stored, defaults, used, ops, disturbed, broken>>
    BY DEF Apply, file, history
  <1> QED  BY <1>2, <1>3, <1>5, <1>6, Types, TypesBack

(* The two requests a recalculation may go on as.                          *)
Dropping == [Idle EXCEPT !.pc = "load", !.do = "drop"]
Following(e) == [Idle EXCEPT !.pc = "load", !.do = "add", !.on = TRUE, !.every = e]

LEMMA FollowUpType ==
    /\ Dropping \in Requests /\ CopyOK(Dropping)
    /\ \A e \in Every : Following(e) \in Requests /\ CopyOK(Following(e))
  BY EmptyType, Triggers DEF Dropping, Following, Idle, Requests, CopyOK, Ids

LEMMA RecalcType ==
    ASSUME TypeInv, NEW h \in Handlers, Recalc(h)
    PROVE  TypeInv'
  <1>1. PICK s : /\ req' = [req EXCEPT ![h] = s]
                 /\ s \in Requests /\ CopyOK(s)
    <2>1. CASE Active(stored) = {}
      <3>1. req' = [req EXCEPT ![h] = Dropping]
        BY <2>1 DEF Recalc, Dropping
      <3> QED  BY <3>1, FollowUpType
    <2>2. CASE Active(stored) # {}
      <3>1. req' = [req EXCEPT ![h] = Following(Shortest(stored))]
        BY <2>2 DEF Recalc, Following
      <3>2. Shortest(stored) \in Every
        BY <2>2, Types, ShortestType, Triggers
      <3> QED  BY <3>1, <3>2, FollowUpType
    <2> QED  BY <2>1, <2>2
  <1>2. req' \in [Handlers -> Requests] /\ \A g \in Handlers : CopyOK(req'[g])
    BY <1>1, Types
  <1>3. UNCHANGED <<form, stored, defaults, running, crontab, used, ops, disturbed,
                    broken>>
    BY DEF Recalc, file, history
  <1> QED  BY <1>2, <1>3, Types, TypesBack

LEMMA RestartType ==
    ASSUME TypeInv, Restart
    PROVE  TypeInv'
  <1>1. running' \in Runs
    BY Types, EnabledRun DEF Restart
  <1>2. req' \in [Handlers -> Requests] /\ \A g \in Handlers : CopyOK(req'[g])
    BY IdleType DEF Restart
  <1>3. /\ UNCHANGED <<form, stored, crontab, used, ops>>
        /\ defaults' \in [Tasks -> BOOLEAN]
        /\ disturbed' \in BOOLEAN /\ broken' \in BOOLEAN
    BY Types DEF Restart, file
  <1> QED  BY <1>1, <1>2, <1>3, Types, TypesBack

LEMMA TypeNext ==
    ASSUME TypeInv, [Next]_vars
    PROVE  TypeInv'
  <1>1. ASSUME NEW h \in Handlers, NEW j \in Jobs, NEW e \in Every,
               Create(h, j, e) \/ AddInternal(h, j, e)
        PROVE  TypeInv'
    <2>1. \E y \in BOOLEAN : Open(h, "add", j, TRUE, e, y) /\ (y => e \in Seconds)
      <3>1. CASE Create(h, j, e)
        <4> WITNESS (e \in Seconds) \in BOOLEAN
        <4> QED  BY <3>1 DEF Create
      <3>2. CASE AddInternal(h, j, e)
        <4> WITNESS FALSE \in BOOLEAN
        <4> QED  BY <3>2 DEF AddInternal
      <3> QED  BY <1>1, <3>1, <3>2
    <2>2. used' \subseteq Jobs
      BY <1>1, Types DEF Create, AddInternal
    <2>3. j \in Ids
      BY DEF Ids
    <2> QED  BY <2>1, <2>2, <2>3, OpenType
  <1>2. ASSUME NEW h \in Handlers, NEW j \in Ids, Delete(h, j)
        PROVE  TypeInv'
    <2> DEFINE y == j # Companion /\ EveryOf(j) \in Seconds
    <2>1. Open(h, "remove", j, FALSE, EveryOf(j), y)
      BY <1>2 DEF Delete
    <2>2. used' \subseteq Jobs
      BY <1>2, Types DEF Delete
    <2>3. EveryOf(j) \in Every
      BY Types, EveryOfType
    <2> QED  BY <2>1, <2>2, <2>3, OpenType
  <1>3. ASSUME NEW h \in Handlers, NEW j \in Ids, NEW on \in BOOLEAN, Patch(h, j, on)
        PROVE  TypeInv'
    <2>1. Open(h, "switch", j, on, Cron, FALSE) /\ used' \subseteq Jobs
      BY <1>3, Types DEF Patch
    <2> QED  BY <2>1, Triggers, OpenType
  <1>4. ASSUME NEW h \in Handlers, NEW t \in Tasks, NEW on \in BOOLEAN,
               PutSchedules(h, t, on)
        PROVE  TypeInv'
    <2>1. Open(h, "put", t, on, Cron, FALSE) /\ used' \subseteq Jobs /\ t \in Ids
      BY <1>4, Types DEF PutSchedules, Ids
    <2> QED  BY <2>1, Triggers, OpenType
  <1>5. ASSUME NEW h \in Handlers, Step(h)
        PROVE  TypeInv'
    BY <1>5, LoadType, TruncateType, WriteType, ApplyType, RecalcType DEF Step
  <1>6. CASE Restart
    BY <1>6, RestartType
  <1>7. CASE UNCHANGED vars
    BY <1>7, Types, TypesBack DEF vars, file, history
  <1> QED  BY <1>1, <1>2, <1>3, <1>4, <1>5, <1>6, <1>7 DEF Next

(* Types of the variables, for every instance.                             *)
THEOREM TypeCorrect == Spec => []TypeOK
  <1>1. Init => TypeInv
    BY TypeInit
  <1>2. TypeInv /\ [Next]_vars => TypeInv'
    BY TypeNext
  <1>3. TypeInv => TypeOK
    BY DEF TypeInv
  <1> QED  BY <1>1, <1>2, <1>3, PTL DEF Spec
-----------------------------------------------------------------------------
(* Ids.                                                                    *)
LEMMA KnownEmpty == Known(Empty)
  BY EmptyType DEF Known

LEMMA KnownEdited ==
    ASSUME TypeInv, Known(stored), NEW r \in Requests, CopyOK(r), ~Missing(r),
           r.do = "add" => r.id \in used \cup {Companion}
    PROVE  Known(Edited(r))
  <1>1. CASE r.do = "add"
    <2>1. DOMAIN Edited(r) = DOMAIN stored \cup {r.id}
      BY <1>1 DEF Edited, With
    <2> QED  BY <1>1, <2>1, IdsAssumption DEF Known
  <1>2. CASE r.do = "switch"
    <2>1. DOMAIN Edited(r) = DOMAIN stored \cup {r.id}
      BY <1>2 DEF Edited, With
    <2>2. r.id \in DOMAIN stored
      BY <1>2 DEF Missing
    <2> QED  BY <2>1, <2>2 DEF Known
  <1>3. CASE r.do = "put"
    <2>1. DOMAIN Edited(r) = Tasks
      BY <1>3, EditedType
    <2> QED  BY <2>1, IdsAssumption DEF Known
  <1>4. CASE r.do \notin {"add", "switch", "put"}
    <2>1. DOMAIN Edited(r) \subseteq DOMAIN stored
      BY <1>4 DEF Edited, Without
    <2> QED  BY <2>1 DEF Known
  <1> QED  BY <1>1, <1>2, <1>3, <1>4

LEMMA IdsInit == Init => IdsUsed
  BY KnownEmpty DEF Init, IdsUsed, Idle

(* A step of one thread.                                                   *)
LEMMA StepIds ==
    ASSUME TypeInv, IdsUsed, NEW h \in Handlers, NEW s, req' = [req EXCEPT ![h] = s],
           used \subseteq used', Known(stored'), Known(s.copy),
           s.do = "add" => s.id \in used' \cup {Companion}
    PROVE  IdsUsed'
  <1>1. req'[h] = s /\ \A g \in Handlers \ {h} : req'[g] = req[g]
    BY Types
  <1> QED  BY <1>1 DEF IdsUsed, Known

LEMMA IdsNext ==
    ASSUME TypeInv, IdsUsed, [Next]_vars
    PROVE  IdsUsed'
  <1>1. ASSUME NEW h \in Handlers, NEW do, NEW id, NEW on, NEW every, NEW sync,
               Open(h, do, id, on, every, sync), used \subseteq used',
               do = "add" => id \in used' \cup {Companion}
        PROVE  IdsUsed'
    <2> DEFINE s == [pc |-> "load", do |-> do, id |-> id, on |-> on,
                     every |-> every, sync |-> sync, copy |-> Empty]
    <2>1. req' = [req EXCEPT ![h] = s] /\ stored' = stored
      BY <1>1 DEF Open, file
    <2>2. s.copy = Empty /\ s.do = do /\ s.id = id
      OBVIOUS
    <2> HIDE DEF s
    <2> QED  BY <1>1, <2>1, <2>2, KnownEmpty, StepIds DEF IdsUsed
  <1>2. ASSUME NEW h \in Handlers, NEW j \in Jobs, NEW e \in Every,
               Create(h, j, e) \/ AddInternal(h, j, e)
        PROVE  IdsUsed'
    <2>1. used' = used \cup {j} /\ \E y : Open(h, "add", j, TRUE, e, y)
      BY <1>2 DEF Create, AddInternal
    <2> QED  BY <1>1, <2>1
  <1>3. ASSUME NEW h \in Handlers, NEW j \in Ids, Delete(h, j)
        PROVE  IdsUsed'
    BY <1>1, <1>3 DEF Delete
  <1>4. ASSUME NEW h \in Handlers, NEW j \in Ids, NEW on \in BOOLEAN, Patch(h, j, on)
        PROVE  IdsUsed'
    BY <1>1, <1>4 DEF Patch
  <1>5. ASSUME NEW h \in Handlers, NEW t \in Tasks, NEW on \in BOOLEAN,
               PutSchedules(h, t, on)
        PROVE  IdsUsed'
    BY <1>1, <1>5 DEF PutSchedules
  <1>6. ASSUME NEW h \in Handlers, Load(h)
        PROVE  IdsUsed'
    <2>1. req[h] \in Requests /\ CopyOK(req[h]) /\ Known(req[h].copy) /\ Known(stored)
      BY Types DEF IdsUsed
    <2>2. UNCHANGED <<stored, used>>
      BY <1>6 DEF Load, file
    <2>3. req[h].do = "add" => req[h].id \in used \cup {Companion}
      BY DEF IdsUsed
    <2>4. PICK s : /\ req' = [req EXCEPT ![h] = s] /\ Known(s.copy)
                   /\ s.do = "add" => s.id \in used \cup {Companion}
      <3>1. CASE Missing(req[h]) /\ req[h].do = "drop"
        <4>1. PICK s : s = [req[h] EXCEPT !.pc = "apply"]
          OBVIOUS
        <4>2. req' = [req EXCEPT ![h] = s]
          BY <1>6, <3>1, <4>1 DEF Load
        <4>3. s.copy = req[h].copy /\ s.do = req[h].do /\ s.id = req[h].id
          BY <2>1, <4>1 DEF Requests
        <4> QED  BY <2>1, <2>3, <4>2, <4>3
      <3>2. CASE Missing(req[h]) /\ req[h].do # "drop"
        <4>1. req' = [req EXCEPT ![h] = Idle]
          BY <1>6, <3>2 DEF Load
        <4>2. Idle.copy = Empty /\ Idle.do = "none"
          BY DEF Idle
        <4> QED  BY <4>1, <4>2, KnownEmpty
      <3>3. CASE ~Missing(req[h])
        <4>1. PICK c : c = Edited(req[h])
          OBVIOUS
        <4>2. PICK s : s = [req[h] EXCEPT !.pc = "open", !.copy = c]
          OBVIOUS
        <4>3. req' = [req EXCEPT ![h] = s]
          BY <1>6, <3>3, <4>1, <4>2 DEF Load
        <4>4. Known(c)
          BY <2>1, <2>3, <3>3, <4>1, KnownEdited
        <4>5. s.copy = c /\ s.do = req[h].do /\ s.id = req[h].id
          BY <2>1, <4>2 DEF Requests
        <4> QED  BY <2>3, <4>3, <4>4, <4>5
      <3> QED  BY <3>1, <3>2, <3>3
    <2> QED  BY <2>1, <2>2, <2>4, StepIds
  <1>7. ASSUME NEW h \in Handlers, Truncate(h) \/ Write(h)
        PROVE  IdsUsed'
    <2>1. req[h] \in Requests /\ Known(req[h].copy) /\ Known(stored)
      BY Types DEF IdsUsed
    <2>2. PICK y : req' = [req EXCEPT ![h] = [req[h] EXCEPT !.pc = y]]
      BY <1>7 DEF Truncate, Write
    <2>3. Known(stored') /\ used' = used
      BY <1>7, <2>1, KnownEmpty DEF Truncate, Write
    <2>4. PICK s : s = [req[h] EXCEPT !.pc = y]
      OBVIOUS
    <2>5. s.copy = req[h].copy /\ s.do = req[h].do /\ s.id = req[h].id
      BY <2>1, <2>4 DEF Requests
    <2> QED  BY <2>1, <2>2, <2>3, <2>4, <2>5, StepIds DEF IdsUsed
  <1>8. ASSUME NEW h \in Handlers, Apply(h)
        PROVE  IdsUsed'
    <2>1. UNCHANGED <<stored, used>> /\ Known(stored) /\ req[h] \in Requests
      BY <1>8, Types DEF Apply, file, IdsUsed
    <2>2. PICK s : s = NextOf(req[h])
      OBVIOUS
    <2>3. s.copy = Empty /\ (s.do = "add" => s.id = Companion)
      BY <2>1, <2>2 DEF NextOf, Idle, Requests
    <2>4. req' = [req EXCEPT ![h] = s]
      BY <1>8, <2>2 DEF Apply
    <2> QED  BY <2>1, <2>3, <2>4, KnownEmpty, StepIds
  <1>9. ASSUME NEW h \in Handlers, Recalc(h)
        PROVE  IdsUsed'
    <2>1. UNCHANGED <<stored, used>> /\ Known(stored)
      BY <1>9 DEF Recalc, file, IdsUsed
    <2>2. PICK s : req' = [req EXCEPT ![h] = s] /\ s.copy = Empty /\ s.id = Companion
      <3>1. req' = [req EXCEPT ![h] = IF Active(stored) = {} THEN Dropping
                                      ELSE Following(Shortest(stored))]
        BY <1>9 DEF Recalc, Dropping, Following
      <3>2. /\ Dropping.copy = Empty /\ Dropping.id = Companion
            /\ \A e : Following(e).copy = Empty /\ Following(e).id = Companion
        BY DEF Dropping, Following, Idle
      <3> QED  BY <3>1, <3>2
    <2> QED  BY <2>1, <2>2, KnownEmpty, StepIds
  <1>10. CASE Restart
    BY <1>10, KnownEmpty DEF Restart, file, IdsUsed, Idle, Known
  <1>11. CASE UNCHANGED vars
    BY <1>11 DEF vars, file, IdsUsed, Known
  <1> QED  BY <1>2, <1>3, <1>4, <1>5, <1>6, <1>7, <1>8, <1>9, <1>10, <1>11 DEF Next, Step
-----------------------------------------------------------------------------
(* The process runs what the file holds.                                   *)

(* Applying a request to the enabled jobs of the file gives the enabled    *)
(* jobs of its edited copy.                                                *)
LEMMA EnabledSwitchedOn ==
    ASSUME NEW f \in JobMaps, NEW j \in Ids, NEW e \in Every, running = Enabled(f),
           e # Refused \/ j \notin On(f)
    PROVE  Registered(j, e) = Enabled(With(f, j, Job(TRUE, e)))
  <1> DEFINE g == With(f, j, Job(TRUE, e))
  <1>1. CASE e # Refused
    <2>1. e \in Accepted
      BY <1>1, Triggers
    <2> QED  BY <1>1, <2>1, EnabledOn DEF Registered
  <1>2. CASE e = Refused
    <2>1. g \in JobMaps
      BY JobType, WithJob
    <2>2. /\ DOMAIN g \ {j} = DOMAIN f \ {j}
          /\ \A i \in DOMAIN g \ {j} : g[i] = f[i]
          /\ j \notin On(g)
      BY <1>2 DEF With, Job, On
    <2> HIDE DEF g
    <2>3. Enabled(g) = Without(Enabled(f), j)
      BY <2>1, <2>2, EnabledOff
    <2>4. Without(Enabled(f), j) = Enabled(f)
      BY <1>2, WithoutMissing
    <2>5. Registered(j, e) = Enabled(g)
      BY <1>2, <2>3, <2>4 DEF Registered
    <2> QED  BY <2>5 DEF g
  <1> QED  BY <1>1, <1>2

LEMMA EnabledSwitchedOff ==
    ASSUME NEW f \in JobMaps, NEW j \in Ids, NEW e \in Every, running = Enabled(f)
    PROVE  Unregistered(j) = Enabled(With(f, j, Job(FALSE, e)))
  <1> DEFINE g == With(f, j, Job(FALSE, e))
  <1>1. g \in JobMaps
    BY JobType, WithJob
  <1>2. /\ DOMAIN g \ {j} = DOMAIN f \ {j}
        /\ \A i \in DOMAIN g \ {j} : g[i] = f[i]
        /\ j \notin On(g)
    BY DEF With, Job, On
  <1> HIDE DEF g
  <1>3. Enabled(g) = Without(Enabled(f), j)
    BY <1>1, <1>2, EnabledOff
  <1> QED  BY <1>3 DEF g, Unregistered

LEMMA EnabledGone ==
    ASSUME NEW f \in JobMaps, NEW j, running = Enabled(f)
    PROVE  Unregistered(j) = Enabled(Without(f, j))
  <1> DEFINE g == Without(f, j)
  <1>1. g \in JobMaps
    BY WithoutJob
  <1>2. /\ DOMAIN g \ {j} = DOMAIN f \ {j}
        /\ \A i \in DOMAIN g \ {j} : g[i] = f[i]
        /\ j \notin On(g)
    BY DEF Without, On
  <1> HIDE DEF g
  <1>3. Enabled(g) = Without(Enabled(f), j)
    BY <1>1, <1>2, EnabledOff
  <1> QED  BY <1>3 DEF g, Unregistered

LEMMA EditedApplied ==
    ASSUME TypeInv, NEW r \in Requests, CopyOK(r), r.pc = "load", ~Missing(r), Matches(r),
           NEW s, s = [r EXCEPT !.pc = "open", !.copy = Edited(r)]
    PROVE  Applied(s) = Enabled(s.copy)
  <1>1. /\ s.do = r.do /\ s.id = r.id /\ s.on = r.on /\ s.every = r.every
        /\ s.copy = Edited(r) /\ stored \in JobMaps
        /\ r.id \in Ids /\ r.every \in Every /\ r.on \in BOOLEAN
        /\ running = Enabled(stored) /\ r.do # "put"
    BY Types DEF Requests, Matches
  <1>2. CASE r.do = "add"
    <2>1. Edited(r) = With(stored, r.id, Job(TRUE, r.every))
      BY <1>2 DEF Edited
    <2>2. Applied(s) = Registered(r.id, r.every)
      BY <1>1, <1>2 DEF Applied, EveryIn
    <2>3. r.every # Refused \/ r.id \notin On(stored)
      BY <1>2 DEF Matches, On
    <2> QED  BY <1>1, <2>1, <2>2, <2>3, EnabledSwitchedOn
  <1>3. CASE r.do = "switch"
    <2>1. r.id \in DOMAIN stored
      BY <1>3 DEF Missing
    <2>2. PICK e \in Every : e = stored[r.id].every
      BY <1>1, <2>1, JobMapElim DEF Entry
    <2>3. Edited(r) = With(stored, r.id, Job(r.on, e))
      BY <1>3, <2>1, <2>2 DEF Edited, EveryOf
    <2>4. s.copy[r.id].every = e
      BY <1>1, <2>3 DEF With, Job
    <2>5. CASE r.on = TRUE
      <3>1. Applied(s) = Registered(r.id, e)
        BY <1>1, <1>3, <2>4, <2>5 DEF Applied, EveryIn
      <3>2. e # Refused \/ r.id \notin On(stored)
        BY <2>2 DEF On
      <3>3. Edited(r) = With(stored, r.id, Job(TRUE, e))
        BY <2>3, <2>5
      <3> QED  BY <1>1, <3>1, <3>2, <3>3, EnabledSwitchedOn
    <2>6. CASE r.on = FALSE
      <3>1. Applied(s) = Unregistered(r.id)
        BY <1>1, <1>3, <2>6 DEF Applied
      <3>2. Edited(r) = With(stored, r.id, Job(FALSE, e))
        BY <2>3, <2>6
      <3> QED  BY <1>1, <3>1, <3>2, EnabledSwitchedOff
    <2> QED  BY <1>1, <2>5, <2>6
  <1>4. CASE r.do \notin {"add", "switch"}
    <2>1. Edited(r) = Without(stored, r.id)
      BY <1>1, <1>4 DEF Edited
    <2>2. Applied(s) = Unregistered(r.id)
      BY <1>1, <1>4 DEF Applied
    <2> QED  BY <1>1, <2>1, <2>2, EnabledGone
  <1> QED  BY <1>2, <1>3, <1>4

LEMMA InStepInit == Init => InStep
  <1> SUFFICES ASSUME Init PROVE InStep
    OBVIOUS
  <1>1. \A h \in Handlers : ~Busy(h)
    BY DEF Init, Busy, Idle
  <1>2. running = Enabled(stored)
    <2>1. On(Empty) = {}
      BY EmptyType DEF On
    <2>2. Enabled(Empty) = [j \in {} |-> Empty[j].every]
      BY <2>1, EnabledFacts
    <2>3. [j \in {} |-> Empty[j].every] = Empty
      BY DEF Empty
    <2> QED  BY <2>2, <2>3 DEF Init
  <1> QED  BY <1>1, <1>2 DEF InStep, OneAtATime

LEMMA OpenInStep ==
    ASSUME TypeInv, InStep, NEW h \in Handlers, NEW do, NEW id, NEW on, NEW every,
           NEW sync, Open(h, do, id, on, every, sync),
           do = "add" => id \notin DOMAIN stored
    PROVE  InStep'
  <1> SUFFICES ASSUME ~disturbed' PROVE /\ OneAtATime' /\ (Quiet => running = Enabled(stored))'
                                        /\ (\A g \in Handlers : Busy(g) => Matches(req[g]))'
    BY DEF InStep
  <1>1. ~disturbed /\ Quiet /\ do # "put"
    BY DEF Open
  <1>2. UNCHANGED <<running, stored, form>> /\ running = Enabled(stored)
    BY <1>1 DEF Open, file, InStep
  <1>3. /\ \A g \in Handlers \ {h} : req'[g] = req[g]
        /\ req'[h].pc = "load" /\ req'[h].do = do /\ req'[h].id = id
    BY Types DEF Open
  <1>4. \A g \in Handlers \ {h} : ~Busy(g)'
    BY <1>1, <1>3 DEF Quiet, Busy
  <1>5. Matches(req[h])'
    BY <1>1, <1>2, <1>3 DEF Matches
  <1> QED  BY <1>2, <1>4, <1>5 DEF OneAtATime

(* A step of the only busy thread.                                         *)
LEMMA StepInStep ==
    ASSUME TypeInv, InStep, NEW h \in Handlers, Busy(h), NEW s,
           req' = [req EXCEPT ![h] = s], UNCHANGED disturbed,
           ~disturbed /\ Matches(req[h]) =>
                IF s.pc = "idle" THEN running' = Enabled(stored') ELSE Matches(s)'
    PROVE  InStep'
  <1> SUFFICES ASSUME ~disturbed PROVE /\ OneAtATime' /\ (Quiet => running = Enabled(stored))'
                                       /\ (\A g \in Handlers : Busy(g) => Matches(req[g]))'
    BY DEF InStep
  <1>1. \A g \in Handlers \ {h} : req'[g] = req[g] /\ ~Busy(g)
    BY Types DEF InStep, OneAtATime
  <1>2. req'[h] = s
    BY Types
  <1>3. Matches(req[h])
    BY DEF InStep
  <1>4. \A g \in Handlers \ {h} : ~Busy(g)'
    BY <1>1 DEF Busy
  <1>5. CASE s.pc = "idle"
    BY <1>2, <1>3, <1>4, <1>5 DEF Busy, OneAtATime
  <1>6. CASE s.pc # "idle"
    <2>1. Matches(req[h])'
      BY <1>2, <1>3, <1>6
    <2>2. Busy(h)'
      BY <1>2, <1>6 DEF Busy
    <2> QED  BY <1>4, <2>1, <2>2 DEF OneAtATime, Quiet
  <1> QED  BY <1>5, <1>6

LEMMA LoadInStep ==
    ASSUME TypeInv, InStep, NEW h \in Handlers, Load(h)
    PROVE  InStep'
  <1>1. req[h] \in Requests /\ CopyOK(req[h]) /\ req[h].pc = "load" /\ Busy(h)
    BY Types DEF Load, Busy
  <1>2. UNCHANGED <<form, stored, running, disturbed>>
    BY DEF Load, file, history
  <1>3. CASE Missing(req[h]) /\ req[h].do = "drop"
    <2>1. PICK s : s = [req[h] EXCEPT !.pc = "apply"]
      OBVIOUS
    <2>2. req' = [req EXCEPT ![h] = s]
      BY <1>3, <2>1 DEF Load
    <2>3. s.pc = "apply" /\ s.do = "drop" /\ s.id = req[h].id /\ s.id \notin DOMAIN stored
      BY <1>1, <1>3, <2>1 DEF Requests, Missing
    <2>4. ASSUME ~disturbed, Matches(req[h])
          PROVE  Matches(s)'
      <3>1. running = Enabled(stored)
        BY <1>1, <2>4 DEF Matches
      <3>2. Applied(s)' = Without(running, s.id)
        BY <1>2, <2>3 DEF Applied, Unregistered
      <3>3. Without(Enabled(stored), s.id) = Enabled(stored)
        BY <2>3, Types, WithoutMissing DEF On
      <3> QED  BY <1>2, <2>3, <3>1, <3>2, <3>3 DEF Matches
    <2> QED  BY <1>1, <1>2, <2>2, <2>3, <2>4, StepInStep
  <1>4. CASE Missing(req[h]) /\ req[h].do # "drop"
    <2>1. PICK s : s = Idle
      OBVIOUS
    <2>2. req' = [req EXCEPT ![h] = s] /\ s.pc = "idle"
      BY <1>4, <2>1 DEF Load, Idle
    <2>3. ASSUME Matches(req[h]) PROVE running' = Enabled(stored')
      BY <1>1, <1>2, <2>3 DEF Matches
    <2> QED  BY <1>1, <1>2, <2>2, <2>3, StepInStep
  <1>5. CASE ~Missing(req[h])
    <2>1. PICK s : s = [req[h] EXCEPT !.pc = "open", !.copy = Edited(req[h])]
      OBVIOUS
    <2>2. req' = [req EXCEPT ![h] = s]
      BY <1>5, <2>1 DEF Load
    <2>3. s.pc = "open" /\ s.do = req[h].do
      BY <1>1, <2>1 DEF Requests
    <2>4. ASSUME Matches(req[h])
          PROVE  Matches(s)'
      <3>1. running = Enabled(stored) /\ req[h].do # "put"
        BY <1>1, <2>4 DEF Matches
      <3>2. Applied(s) = Enabled(s.copy)
        BY <1>1, <1>5, <2>1, <2>4, EditedApplied
      <3>3. Applied(s)' = Applied(s)
        BY <1>2 DEF Applied, Registered, Unregistered
      <3> QED  BY <2>3, <3>1, <3>2, <3>3 DEF Matches
    <2> QED  BY <1>1, <1>2, <2>2, <2>3, <2>4, StepInStep
  <1> QED  BY <1>3, <1>4, <1>5

LEMMA TruncateInStep ==
    ASSUME TypeInv, InStep, NEW h \in Handlers, Truncate(h)
    PROVE  InStep'
  <1>1. req[h] \in Requests /\ req[h].pc = "open" /\ Busy(h)
    BY Types DEF Truncate, Busy
  <1>2. UNCHANGED <<running, disturbed>> /\ form' = "none"
    BY DEF Truncate, history
  <1>3. PICK s : s = [req[h] EXCEPT !.pc = "write"]
    OBVIOUS
  <1>4. req' = [req EXCEPT ![h] = s]
    BY <1>3 DEF Truncate
  <1>5. /\ s.pc = "write" /\ s.do = req[h].do /\ s.id = req[h].id /\ s.on = req[h].on
        /\ s.every = req[h].every /\ s.copy = req[h].copy
    BY <1>1, <1>3 DEF Requests
  <1>6. ASSUME Matches(req[h])
        PROVE  Matches(s)'
    <2>1. Applied(req[h]) = Enabled(s.copy) /\ s.do # "put"
      BY <1>1, <1>5, <1>6 DEF Matches
    <2>2. Applied(s)' = Applied(req[h])
      BY <1>2, <1>5 DEF Applied, Registered, Unregistered, EveryIn
    <2> QED  BY <1>2, <1>5, <2>1, <2>2 DEF Matches
  <1> QED  BY <1>1, <1>2, <1>4, <1>5, <1>6, StepInStep

LEMMA WriteInStep ==
    ASSUME TypeInv, InStep, NEW h \in Handlers, Write(h)
    PROVE  InStep'
  <1>1. req[h] \in Requests /\ req[h].pc = "write" /\ Busy(h)
    BY Types DEF Write, Busy
  <1>2. UNCHANGED <<running, disturbed>>
    BY DEF Write, history
  <1>3. PICK s : s = [req[h] EXCEPT !.pc = "apply"]
    OBVIOUS
  <1>4. req' = [req EXCEPT ![h] = s]
    BY <1>3 DEF Write
  <1>5. /\ s.pc = "apply" /\ s.do = req[h].do /\ s.id = req[h].id /\ s.on = req[h].on
        /\ s.every = req[h].every /\ s.copy = req[h].copy
    BY <1>1, <1>3 DEF Requests
  <1>6. ASSUME Matches(req[h])
        PROVE  Matches(s)'
    <2>1. Applied(req[h]) = Enabled(s.copy) /\ s.do # "put" /\ form = "none"
      BY <1>1, <1>5, <1>6 DEF Matches
    <2>2. Applied(s)' = Applied(req[h])
      BY <1>2, <1>5 DEF Applied, Registered, Unregistered, EveryIn
    <2>3. stored' = s.copy
      BY <1>5, <2>1 DEF Write
    <2> QED  BY <1>5, <2>1, <2>2, <2>3 DEF Matches
  <1> QED  BY <1>1, <1>2, <1>4, <1>5, <1>6, StepInStep

LEMMA ApplyInStep ==
    ASSUME TypeInv, InStep, NEW h \in Handlers, Apply(h)
    PROVE  InStep'
  <1>1. req[h] \in Requests /\ CopyOK(req[h]) /\ req[h].pc = "apply" /\ Busy(h)
    BY Types DEF Apply, Busy
  <1>2. UNCHANGED <<form, stored, disturbed>> /\ running' = Applied(req[h])
    BY DEF Apply, file, history
  <1>3. PICK s : s = NextOf(req[h])
    OBVIOUS
  <1>4. req' = [req EXCEPT ![h] = s]
    BY <1>3 DEF Apply
  <1>5. /\ s.pc \in {"idle", "load", "recalc"} /\ s.do \in {"none", "add"}
        /\ s.do = "add" => s.every # Refused
    BY <1>1, <1>3, Triggers DEF NextOf, Idle, Requests, CopyOK
  <1>6. ASSUME Matches(req[h])
        PROVE  running' = Enabled(stored') /\ Matches(s)'
    <2>1. running' = Enabled(stored')
      BY <1>1, <1>2, <1>6 DEF Matches
    <2> QED  BY <1>5, <2>1 DEF Matches
  <1> QED  BY <1>1, <1>2, <1>4, <1>6, StepInStep

LEMMA RecalcInStep ==
    ASSUME TypeInv, InStep, NEW h \in Handlers, Recalc(h)
    PROVE  InStep'
  <1>1. req[h].pc = "recalc" /\ Busy(h)
    BY DEF Recalc, Busy
  <1>2. UNCHANGED <<form, stored, running, disturbed>>
    BY DEF Recalc, file, history
  <1>3. PICK s : /\ req' = [req EXCEPT ![h] = s]
                 /\ s.pc = "load" /\ s.do # "put"
                 /\ s.do = "add" => s.every # Refused
    <2>1. CASE Active(stored) = {}
      <3>1. req' = [req EXCEPT ![h] = Dropping]
        BY <2>1 DEF Recalc, Dropping
      <3>2. Dropping.pc = "load" /\ Dropping.do = "drop"
        BY DEF Dropping, Idle
      <3> QED  BY <3>1, <3>2
    <2>2. CASE Active(stored) # {}
      <3>1. PICK e : e = Shortest(stored)
        OBVIOUS
      <3>2. req' = [req EXCEPT ![h] = Following(e)]
        BY <2>2, <3>1 DEF Recalc, Following
      <3>3. e # Refused
        BY <2>2, <3>1, Types, ShortestType, Triggers
      <3>4. /\ Following(e).pc = "load" /\ Following(e).do = "add"
            /\ Following(e).every = e
        BY DEF Following, Idle
      <3> QED  BY <3>2, <3>3, <3>4
    <2> QED  BY <2>1, <2>2
  <1>4. ASSUME Matches(req[h])
        PROVE  Matches(s)'
    BY <1>1, <1>2, <1>3, <1>4 DEF Matches
  <1> QED  BY <1>1, <1>2, <1>3, <1>4, StepInStep

LEMMA RestartInStep ==
    ASSUME TypeInv, Restart
    PROVE  InStep'
  <1>1. \A h \in Handlers : ~Busy(h)'
    BY DEF Restart, Busy, Idle
  <1>2. running' = Enabled(stored')
    BY DEF Restart, file
  <1> QED  BY <1>1, <1>2 DEF InStep, OneAtATime

LEMMA InStepNext ==
    ASSUME TypeInv, IdsUsed, InStep, [Next]_vars
    PROVE  InStep'
  <1>1. ASSUME NEW h \in Handlers, NEW j \in Jobs, NEW e \in Every,
               Create(h, j, e) \/ AddInternal(h, j, e)
        PROVE  InStep'
    <2>1. j \notin DOMAIN stored
      BY <1>1 DEF Create, AddInternal, IdsUsed, Known
    <2> QED  BY <1>1, <2>1, OpenInStep DEF Create, AddInternal
  <1>2. ASSUME NEW h \in Handlers, NEW j \in Ids, Delete(h, j)
        PROVE  InStep'
    BY <1>2, OpenInStep DEF Delete
  <1>3. ASSUME NEW h \in Handlers, NEW j \in Ids, NEW on \in BOOLEAN, Patch(h, j, on)
        PROVE  InStep'
    BY <1>3, OpenInStep DEF Patch
  <1>4. ASSUME NEW h \in Handlers, NEW t \in Tasks, NEW on \in BOOLEAN,
               PutSchedules(h, t, on)
        PROVE  InStep'
    BY <1>4, OpenInStep DEF PutSchedules
  <1>5. ASSUME NEW h \in Handlers, Step(h)
        PROVE  InStep'
    BY <1>5, LoadInStep, TruncateInStep, WriteInStep, ApplyInStep, RecalcInStep DEF Step
  <1>6. CASE Restart
    BY <1>6, RestartInStep
  <1>7. CASE UNCHANGED vars
    <2>1. UNCHANGED <<form, stored, running, req, disturbed>>
      BY <1>7 DEF vars, file, history
    <2> QED  BY <2>1 DEF InStep, OneAtATime, Quiet, Busy, Matches, Applied, Registered,
                         Unregistered, EveryIn
  <1> QED  BY <1>1, <1>2, <1>3, <1>4, <1>5, <1>6, <1>7 DEF Next

(* Unless requests overlapped or the page saved since the start, the idle  *)
(* process runs exactly those enabled jobs of the file whose trigger       *)
(* APScheduler takes.                                                      *)
THEOREM StoredRuns == Spec => []RunsWhatIsStored
  <1>1. Init => TypeInv /\ IdsUsed /\ InStep
    BY TypeInit, IdsInit, InStepInit
  <1>2. TypeInv /\ IdsUsed /\ InStep /\ [Next]_vars => TypeInv' /\ IdsUsed' /\ InStep'
    BY TypeNext, IdsNext, InStepNext
  <1>3. InStep => RunsWhatIsStored
    BY DEF InStep, RunsWhatIsStored
  <1> QED  BY <1>1, <1>2, <1>3, PTL DEF Spec
-----------------------------------------------------------------------------
(* The companion.                                                          *)
LEMMA ActiveFacts ==
    ASSUME NEW f, NEW j
    PROVE  j \in Active(f) <=> /\ j \in DOMAIN f /\ j # Companion
                               /\ f[j].on /\ f[j].every \in Seconds
  BY DEF Active

(* A new scan leaves the others; an enabled interval scan is active.       *)
LEMMA KeptWithNew ==
    ASSUME NEW f \in JobMaps, NEW j, NEW e, j # Companion, j \notin DOMAIN f, Kept(f)
    PROVE  Kept(With(f, j, e))
  <1>1. \A i \in Active(f) : i \in Active(With(f, j, e))
    BY DEF Active, With
  <1>2. Companion \in DOMAIN With(f, j, e) => Companion \in DOMAIN f
    BY DEF With
  <1> QED  BY <1>1, <1>2 DEF Kept

LEMMA ActiveNew ==
    ASSUME NEW f, NEW j, NEW e \in Seconds, j # Companion
    PROVE  j \in Active(With(f, j, Job(TRUE, e)))
  BY DEF Active, With, Job

LEMMA KeptWithCompanion ==
    ASSUME NEW f, NEW e, Active(f) # {}
    PROVE  Kept(With(f, Companion, e))
  <1>1. \A i \in Active(f) : i \in Active(With(f, Companion, e))
    BY DEF Active, With
  <1> QED  BY <1>1 DEF Kept

LEMMA KeptWithoutCompanion ==
    ASSUME NEW f
    PROVE  Kept(Without(f, Companion))
  BY DEF Kept, Without

(* A scan without an interval keeps no companion.                          *)
LEMMA KeptWithoutCron ==
    ASSUME NEW f, NEW j, f[j].every \notin Seconds, Kept(f)
    PROVE  Kept(Without(f, j))
  <1>1. \A i \in Active(f) : i \in Active(Without(f, j))
    BY DEF Active, Without
  <1>2. Companion \in DOMAIN Without(f, j) => Companion \in DOMAIN f
    BY DEF Without
  <1> QED  BY <1>1, <1>2 DEF Kept

LEMMA KeptSwitched ==
    ASSUME NEW f, NEW j \in DOMAIN f, NEW on, Kept(f),
           j = Companion \/ f[j].every \notin Seconds
    PROVE  Kept(With(f, j, Job(on, f[j].every)))
  <1>1. \A i \in Active(f) : i \in Active(With(f, j, Job(on, f[j].every)))
    BY DEF Active, With
  <1>2. DOMAIN With(f, j, Job(on, f[j].every)) = DOMAIN f
    BY DEF With
  <1> QED  BY <1>1, <1>2 DEF Kept

LEMMA KeptTasks ==
    ASSUME NEW f, DOMAIN f = Tasks
    PROVE  Kept(f)
  BY IdsAssumption DEF Kept

LEMMA KeptInit == Init => KeptInStep
  BY EmptyType DEF Init, KeptInStep, OneAtATime, Busy, Idle, Kept

(* A step of the only busy thread.                                         *)
LEMMA StepKept ==
    ASSUME TypeInv, KeptInStep, NEW h \in Handlers, Busy(h), NEW s,
           req' = [req EXCEPT ![h] = s], UNCHANGED broken,
           ~broken /\ Settles(req[h]) =>
                IF s.pc = "idle" THEN Kept(stored)' ELSE Settles(s)'
    PROVE  KeptInStep'
  <1> SUFFICES ASSUME ~broken PROVE /\ OneAtATime' /\ (Quiet => Kept(stored))'
                                    /\ (\A g \in Handlers : Busy(g) => Settles(req[g]))'
    BY DEF KeptInStep
  <1>1. \A g \in Handlers \ {h} : req'[g] = req[g] /\ ~Busy(g)
    BY Types DEF KeptInStep, OneAtATime
  <1>2. req'[h] = s
    BY Types
  <1>3. Settles(req[h])
    BY DEF KeptInStep
  <1>4. \A g \in Handlers \ {h} : ~Busy(g)'
    BY <1>1 DEF Busy
  <1>5. CASE s.pc = "idle"
    BY <1>2, <1>3, <1>4, <1>5 DEF Busy, OneAtATime
  <1>6. CASE s.pc # "idle"
    <2>1. Settles(req[h])'
      BY <1>2, <1>3, <1>6
    <2>2. Busy(h)'
      BY <1>2, <1>6 DEF Busy
    <2> QED  BY <1>4, <2>1, <2>2 DEF OneAtATime, Quiet
  <1> QED  BY <1>5, <1>6

LEMMA OpenKept ==
    ASSUME TypeInv, KeptInStep, NEW h \in Handlers,
           NEW do \in {"add", "remove", "switch", "put"}, NEW id, NEW on, NEW every,
           NEW sync, Open(h, do, id, on, every, sync),
           do = "remove" => sync = (id # Companion /\ EveryOf(id) \in Seconds),
           do = "add" => id # Companion /\ id \notin DOMAIN stored /\ (sync => every \in Seconds)
    PROVE  KeptInStep'
  <1> SUFFICES ASSUME ~broken' PROVE /\ OneAtATime' /\ (Quiet => Kept(stored))'
                                     /\ (\A g \in Handlers : Busy(g) => Settles(req[g]))'
    BY DEF KeptInStep
  <1>1. ~broken /\ Quiet
    BY DEF Open
  <1>2. UNCHANGED <<stored, form>> /\ Kept(stored)
    BY <1>1 DEF Open, file, KeptInStep
  <1>3. /\ \A g \in Handlers \ {h} : req'[g] = req[g]
        /\ req'[h].pc = "load" /\ req'[h].do = do /\ req'[h].id = id
        /\ req'[h].every = every /\ req'[h].sync = sync
    BY Types DEF Open
  <1>4. \A g \in Handlers \ {h} : ~Busy(g)'
    BY <1>1, <1>3 DEF Quiet, Busy
  <1>5. Settles(req[h])'
    BY <1>2, <1>3 DEF Settles, Kept, EveryOf, Active
  <1>6. Busy(h)'
    BY <1>3 DEF Busy
  <1> QED  BY <1>4, <1>5, <1>6 DEF OneAtATime, Quiet

(* The copy a request saves keeps the companion, or it recalculates.       *)
LEMMA EditedKept ==
    ASSUME TypeInv, NEW r \in Requests, CopyOK(r), r.pc = "load", Settles(r), ~Missing(r),
           NEW s, s = [r EXCEPT !.pc = "open", !.copy = Edited(r)]
    PROVE  /\ Follows(s) \/ Kept(s.copy)
           /\ s.do = "add" /\ s.sync => Active(s.copy) # {}
  <1>1. /\ s.do = r.do /\ s.id = r.id /\ s.sync = r.sync /\ s.copy = Edited(r)
        /\ stored \in JobMaps
    BY Types DEF Requests
  <1>2. CASE r.do = "add"
    <2>1. Edited(r) = With(stored, r.id, Job(TRUE, r.every))
      BY <1>2 DEF Edited
    <2>2. CASE r.id = Companion
      <3>1. Active(stored) # {} /\ ~r.sync
        BY <1>2, <2>2 DEF Settles
      <3>2. Kept(With(stored, Companion, Job(TRUE, r.every)))
        BY <3>1, KeptWithCompanion
      <3> QED  BY <1>1, <2>1, <2>2, <3>1, <3>2
    <2>3. CASE r.id # Companion
      <3>1. Kept(stored) /\ r.id \notin DOMAIN stored /\ (r.sync => r.every \in Seconds)
        BY <1>2, <2>3 DEF Settles
      <3>2. Kept(With(stored, r.id, Job(TRUE, r.every)))
        BY <1>1, <2>3, <3>1, KeptWithNew
      <3>3. r.sync => r.id \in Active(With(stored, r.id, Job(TRUE, r.every)))
        BY <2>3, <3>1, ActiveNew
      <3> QED  BY <1>1, <2>1, <3>2, <3>3
    <2> QED  BY <2>2, <2>3
  <1>3. CASE r.do = "switch"
    <2>1. Kept(stored) /\ r.id \in DOMAIN stored
      BY <1>3 DEF Settles, Missing
    <2>2. Edited(r) = With(stored, r.id, Job(r.on, stored[r.id].every))
      BY <1>3, <2>1 DEF Edited, EveryOf
    <2>3. CASE r.id = Companion \/ stored[r.id].every \notin Seconds
      <3>1. Kept(With(stored, r.id, Job(r.on, stored[r.id].every)))
        BY <2>1, <2>3, KeptSwitched
      <3> QED  BY <1>1, <1>3, <2>2, <3>1
    <2>4. CASE r.id # Companion /\ stored[r.id].every \in Seconds
      <3>1. s.copy[r.id].every = stored[r.id].every
        BY <1>1, <2>2 DEF With, Job
      <3> QED  BY <1>1, <1>3, <2>4, <3>1 DEF Follows
    <2> QED  BY <2>3, <2>4
  <1>4. CASE r.do = "put"
    BY <1>1, <1>4, EditedType, KeptTasks
  <1>5. CASE r.do = "remove"
    <2>1. /\ Kept(stored) /\ r.id \in DOMAIN stored
          /\ r.sync = (r.id # Companion /\ stored[r.id].every \in Seconds)
      BY <1>5 DEF Settles, Missing, EveryOf
    <2>2. Edited(r) = Without(stored, r.id)
      BY <1>5 DEF Edited
    <2>3. CASE r.sync
      BY <1>1, <1>5, <2>3 DEF Follows
    <2>4. CASE ~r.sync
      <3>1. Kept(Without(stored, r.id))
        BY <2>1, <2>4, KeptWithoutCompanion, KeptWithoutCron
      <3> QED  BY <1>1, <1>5, <2>2, <3>1
    <2> QED  BY <2>3, <2>4
  <1>6. CASE r.do = "drop"
    <2>1. Edited(r) = Without(stored, Companion)
      BY <1>6 DEF Edited, Settles
    <2> QED  BY <1>1, <1>6, <2>1, KeptWithoutCompanion
  <1>7. r.do \in {"add", "switch", "put", "remove", "drop"}
    BY DEF Settles, Requests
  <1> QED  BY <1>2, <1>3, <1>4, <1>5, <1>6, <1>7

LEMMA LoadKept ==
    ASSUME TypeInv, KeptInStep, NEW h \in Handlers, Load(h)
    PROVE  KeptInStep'
  <1>1. req[h] \in Requests /\ CopyOK(req[h]) /\ req[h].pc = "load" /\ Busy(h)
    BY Types DEF Load, Busy
  <1>2. UNCHANGED <<form, stored, broken>>
    BY DEF Load, file, history
  <1>3. CASE Missing(req[h]) /\ req[h].do = "drop"
    <2>1. PICK s : s = [req[h] EXCEPT !.pc = "apply"]
      OBVIOUS
    <2>2. req' = [req EXCEPT ![h] = s]
      BY <1>3, <2>1 DEF Load
    <2>3. s.pc = "apply" /\ s.do = "drop" /\ s.id = req[h].id /\ s.id \notin DOMAIN stored
      BY <1>1, <1>3, <2>1 DEF Requests, Missing
    <2>4. ASSUME Settles(req[h])
          PROVE  Settles(s)'
      <3>1. req[h].id = Companion
        BY <1>1, <1>3, <2>4 DEF Settles
      <3>2. Kept(stored')
        BY <1>2, <2>3, <3>1 DEF Kept
      <3> QED  BY <2>3, <3>2 DEF Settles
    <2> QED  BY <1>1, <1>2, <2>2, <2>3, <2>4, StepKept
  <1>4. CASE Missing(req[h]) /\ req[h].do # "drop"
    <2>1. PICK s : s = Idle
      OBVIOUS
    <2>2. req' = [req EXCEPT ![h] = s] /\ s.pc = "idle"
      BY <1>4, <2>1 DEF Load, Idle
    <2>3. ASSUME Settles(req[h]) PROVE Kept(stored)'
      <3>1. Kept(stored)
        BY <1>1, <1>4, <2>3 DEF Settles, Missing
      <3> QED  BY <1>2, <3>1 DEF Kept, Active
    <2> QED  BY <1>1, <1>2, <2>2, <2>3, StepKept
  <1>5. CASE ~Missing(req[h])
    <2>1. PICK s : s = [req[h] EXCEPT !.pc = "open", !.copy = Edited(req[h])]
      OBVIOUS
    <2>2. req' = [req EXCEPT ![h] = s]
      BY <1>5, <2>1 DEF Load
    <2>3. s.pc = "open" /\ s.do = req[h].do
      BY <1>1, <2>1 DEF Requests
    <2>4. ASSUME Settles(req[h])
          PROVE  Settles(s)'
      <3>1. /\ Follows(s) \/ Kept(s.copy)
            /\ s.do = "add" /\ s.sync => Active(s.copy) # {}
        BY <1>1, <1>5, <2>1, <2>4, EditedKept
      <3>2. s.do # "none"
        BY <1>1, <2>3, <2>4 DEF Settles
      <3> QED  BY <2>3, <3>1, <3>2 DEF Settles
    <2> QED  BY <1>1, <1>2, <2>2, <2>3, <2>4, StepKept
  <1> QED  BY <1>3, <1>4, <1>5

LEMMA TruncateKept ==
    ASSUME TypeInv, KeptInStep, NEW h \in Handlers, Truncate(h)
    PROVE  KeptInStep'
  <1>1. req[h] \in Requests /\ req[h].pc = "open" /\ Busy(h)
    BY Types DEF Truncate, Busy
  <1>2. UNCHANGED broken /\ form' = "none"
    BY DEF Truncate, history
  <1>3. PICK s : s = [req[h] EXCEPT !.pc = "write"]
    OBVIOUS
  <1>4. req' = [req EXCEPT ![h] = s]
    BY <1>3 DEF Truncate
  <1>5. /\ s.pc = "write" /\ s.do = req[h].do /\ s.id = req[h].id
        /\ s.sync = req[h].sync /\ s.copy = req[h].copy
    BY <1>1, <1>3 DEF Requests
  <1>6. ASSUME Settles(req[h])
        PROVE  Settles(s)'
    <2>1. /\ Follows(s) \/ Kept(s.copy)
          /\ s.do = "add" /\ s.sync => Active(s.copy) # {}
          /\ s.do # "none"
      BY <1>1, <1>5, <1>6 DEF Settles, Follows
    <2> QED  BY <1>2, <1>5, <2>1 DEF Settles
  <1> QED  BY <1>1, <1>2, <1>4, <1>5, <1>6, StepKept

LEMMA WriteKept ==
    ASSUME TypeInv, KeptInStep, NEW h \in Handlers, Write(h)
    PROVE  KeptInStep'
  <1>1. req[h] \in Requests /\ req[h].pc = "write" /\ Busy(h)
    BY Types DEF Write, Busy
  <1>2. UNCHANGED broken
    BY DEF Write, history
  <1>3. PICK s : s = [req[h] EXCEPT !.pc = "apply"]
    OBVIOUS
  <1>4. req' = [req EXCEPT ![h] = s]
    BY <1>3 DEF Write
  <1>5. /\ s.pc = "apply" /\ s.do = req[h].do /\ s.id = req[h].id
        /\ s.sync = req[h].sync /\ s.copy = req[h].copy
    BY <1>1, <1>3 DEF Requests
  <1>6. ASSUME Settles(req[h])
        PROVE  Settles(s)'
    <2>1. /\ Follows(s) \/ Kept(s.copy)
          /\ s.do = "add" /\ s.sync => Active(s.copy) # {}
          /\ s.do # "none" /\ form = "none"
      BY <1>1, <1>5, <1>6 DEF Settles, Follows
    <2>2. stored' = s.copy
      BY <1>5, <2>1 DEF Write
    <2>3. /\ Follows(s) \/ Kept(stored')
          /\ s.do = "add" /\ s.sync => Active(stored') # {}
      BY <2>1, <2>2
    <2> QED  BY <1>5, <2>1, <2>3 DEF Settles
  <1> QED  BY <1>1, <1>2, <1>4, <1>5, <1>6, StepKept

LEMMA ApplyKept ==
    ASSUME TypeInv, KeptInStep, NEW h \in Handlers, Apply(h)
    PROVE  KeptInStep'
  <1>1. req[h] \in Requests /\ req[h].pc = "apply" /\ Busy(h)
    BY Types DEF Apply, Busy
  <1>2. UNCHANGED <<form, stored, broken>>
    BY DEF Apply, file, history
  <1>3. PICK s : s = NextOf(req[h])
    OBVIOUS
  <1>4. req' = [req EXCEPT ![h] = s]
    BY <1>3 DEF Apply
  <1>5. CASE req[h].do = "add" /\ req[h].sync
    <2>1. s.pc = "load" /\ s.do = "add" /\ s.id = Companion /\ ~s.sync
      BY <1>1, <1>3, <1>5 DEF NextOf, Requests
    <2>2. ASSUME Settles(req[h])
          PROVE  Settles(s)'
      <3>1. Active(stored') # {}
        BY <1>1, <1>2, <1>5, <2>2 DEF Settles
      <3> QED  BY <2>1, <3>1 DEF Settles
    <2> QED  BY <1>1, <1>2, <1>4, <2>1, <2>2, StepKept
  <1>6. CASE ~(req[h].do = "add" /\ req[h].sync) /\ Follows(req[h])
    <2>1. s = [Idle EXCEPT !.pc = "recalc"]
      BY <1>3, <1>6 DEF NextOf, Follows
    <2>2. s.pc = "recalc" /\ s.do = "none"
      BY <2>1 DEF Idle
    <2>3. Settles(s)'
      BY <2>2 DEF Settles
    <2> QED  BY <1>1, <1>2, <1>4, <2>2, <2>3, StepKept
  <1>7. CASE ~(req[h].do = "add" /\ req[h].sync) /\ ~Follows(req[h])
    <2>1. s = Idle
      BY <1>3, <1>7 DEF NextOf, Follows
    <2>2. s.pc = "idle"
      BY <2>1 DEF Idle
    <2>3. ASSUME Settles(req[h]) PROVE Kept(stored)'
      <3>1. Kept(stored)
        BY <1>1, <1>7, <2>3 DEF Settles
      <3> QED  BY <1>2, <3>1 DEF Kept, Active
    <2> QED  BY <1>1, <1>2, <1>4, <2>2, <2>3, StepKept
  <1> QED  BY <1>5, <1>6, <1>7

LEMMA RecalcKept ==
    ASSUME TypeInv, KeptInStep, NEW h \in Handlers, Recalc(h)
    PROVE  KeptInStep'
  <1>1. req[h].pc = "recalc" /\ Busy(h)
    BY DEF Recalc, Busy
  <1>2. UNCHANGED <<form, stored, broken>>
    BY DEF Recalc, file, history
  <1>3. CASE Active(stored) = {}
    <2>1. PICK s : s = Dropping
      OBVIOUS
    <2>2. req' = [req EXCEPT ![h] = s]
      BY <1>3, <2>1 DEF Recalc, Dropping
    <2>3. s.pc = "load" /\ s.do = "drop" /\ s.id = Companion
      BY <2>1 DEF Dropping, Idle
    <2>4. Settles(s)'
      BY <2>3 DEF Settles
    <2> QED  BY <1>1, <1>2, <2>2, <2>3, <2>4, StepKept
  <1>4. CASE Active(stored) # {}
    <2>1. PICK s : s = Following(Shortest(stored))
      OBVIOUS
    <2>2. req' = [req EXCEPT ![h] = s]
      BY <1>4, <2>1 DEF Recalc, Following
    <2>3. s.pc = "load" /\ s.do = "add" /\ s.id = Companion /\ ~s.sync
      BY <2>1 DEF Following, Idle
    <2>4. Active(stored') # {}
      BY <1>2, <1>4
    <2>5. Settles(s)'
      BY <2>3, <2>4 DEF Settles
    <2> QED  BY <1>1, <1>2, <2>2, <2>3, <2>5, StepKept
  <1> QED  BY <1>3, <1>4

LEMMA RestartKept ==
    ASSUME TypeInv, KeptInStep, Restart
    PROVE  KeptInStep'
  <1>1. \A h \in Handlers : ~Busy(h)'
    BY DEF Restart, Busy, Idle
  <1>2. ~broken' => Kept(stored)
    BY DEF Restart, KeptInStep
  <1>3. stored' = stored
    BY DEF Restart, file
  <1>4. ~broken' => Kept(stored')
    BY <1>2, <1>3
  <1> QED  BY <1>1, <1>4 DEF KeptInStep, OneAtATime

LEMMA KeptNext ==
    ASSUME TypeInv, IdsUsed, KeptInStep, [Next]_vars
    PROVE  KeptInStep'
  <1>1. ASSUME NEW h \in Handlers, NEW j \in Jobs, NEW e \in Every,
               Create(h, j, e) \/ AddInternal(h, j, e)
        PROVE  KeptInStep'
    <2>1. j # Companion /\ j \notin DOMAIN stored
      BY <1>1, IdsAssumption DEF Create, AddInternal, IdsUsed, Known
    <2>2. \E y \in BOOLEAN : Open(h, "add", j, TRUE, e, y) /\ (y => e \in Seconds)
      <3>1. CASE Create(h, j, e)
        <4> WITNESS (e \in Seconds) \in BOOLEAN
        <4> QED  BY <3>1 DEF Create
      <3>2. CASE AddInternal(h, j, e)
        <4> WITNESS FALSE \in BOOLEAN
        <4> QED  BY <3>2 DEF AddInternal
      <3> QED  BY <1>1, <3>1, <3>2
    <2> QED  BY <2>1, <2>2, OpenKept
  <1>2. ASSUME NEW h \in Handlers, NEW j \in Ids, Delete(h, j)
        PROVE  KeptInStep'
    BY <1>2, OpenKept DEF Delete
  <1>3. ASSUME NEW h \in Handlers, NEW j \in Ids, NEW on \in BOOLEAN, Patch(h, j, on)
        PROVE  KeptInStep'
    BY <1>3, OpenKept DEF Patch
  <1>4. ASSUME NEW h \in Handlers, NEW t \in Tasks, NEW on \in BOOLEAN,
               PutSchedules(h, t, on)
        PROVE  KeptInStep'
    BY <1>4, OpenKept DEF PutSchedules
  <1>5. ASSUME NEW h \in Handlers, Step(h)
        PROVE  KeptInStep'
    BY <1>5, LoadKept, TruncateKept, WriteKept, ApplyKept, RecalcKept DEF Step
  <1>6. CASE Restart
    BY <1>6, RestartKept
  <1>7. CASE UNCHANGED vars
    <2>1. UNCHANGED <<form, stored, req, broken>>
      BY <1>7 DEF vars, file, history
    <2>2. \A h \in Handlers : Settles(req[h]) => Settles(req[h])'
      BY <2>1 DEF Settles, Kept, Follows, Active, EveryOf
    <2> QED  BY <2>1, <2>2 DEF KeptInStep, OneAtATime, Quiet, Busy, Kept, Active
  <1> QED  BY <1>1, <1>2, <1>3, <1>4, <1>5, <1>6, <1>7 DEF Next

(* As long as requests neither overlap nor are cut off, a stored companion *)
(* has an enabled Continuous Sync.                                         *)
THEOREM CompanionKept == Spec => []CompanionHasScan
  <1>1. Init => TypeInv /\ IdsUsed /\ KeptInStep
    BY TypeInit, IdsInit, KeptInit
  <1>2. TypeInv /\ IdsUsed /\ KeptInStep /\ [Next]_vars
            => TypeInv' /\ IdsUsed' /\ KeptInStep'
    BY TypeNext, IdsNext, KeptNext
  <1>3. KeptInStep => CompanionHasScan
    BY DEF KeptInStep, CompanionHasScan, Kept
  <1> QED  BY <1>1, <1>2, <1>3, PTL DEF Spec
=============================================================================
