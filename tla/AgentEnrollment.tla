--------------------------- MODULE AgentEnrollment ---------------------------
(***************************************************************************)
(* How a host gets and keeps its credential: the CyEDR installer and both  *)
(* agents enrol with a deployment token, the platform matches the host to  *)
(* a row by hardware UUID or host name and mints a new enrolment token,    *)
(* and every later call is accepted only with the token of that row.       *)
(***************************************************************************)
EXTENDS Integers, Sequences, FiniteSets

CONSTANTS
    Machines,     \* hosts with an agent
    Names,        \* host names
    Uuids,        \* hardware UUIDs
    Handlers,     \* server threads that may serve self-enroll
    None,         \* no UUID, no host, no handler
    MaxUses,      \* max_uses of the deployment token, 0 for no limit
    MaxOps,       \* bound: installs, restarts and operator actions
    MaxFaults     \* bound: failed calls and timeouts

ASSUME NoneAssumption == None \notin Machines \union Uuids \union Handlers
ASSUME HandlersAssumption == IsFiniteSet(Handlers) /\ Handlers # {}
ASSUME BoundsAssumption == MaxUses \in Nat /\ MaxOps \in Nat /\ MaxFaults \in Nat

VARIABLES
    kind,      \* the agent each host runs: "edr" or "collector"
    uuid,      \* the hardware UUID each host reports, if it finds one
    name,      \* each host's name
    disk,      \* agent_id and enrollment_token in each host's config.json
    mem,       \* the same in the running agent
    call,      \* the self-enroll request each host waits for
    req,       \* the request each handler serves
    used,      \* used_count of the deployment token
    valid,     \* the deployment token is neither revoked nor expired
    rows,      \* edr_agents and collector_agents; an id is a place
    minted,    \* enrolment tokens made so far (token_urlsafe)
    unheard,   \* hosts that gave up waiting for a reply (history)
    ops,
    faults

host == <<kind, uuid>>
vars == <<kind, uuid, name, disk, mem, call, req, used, valid, rows, minted,
          unheard, ops, faults>>

(* Id 0 stands for none; token 0 for the deployment token, which config    *)
(* yields where it has no enrollment_token and no row ever carries.        *)
Ident(id, token) == [id |-> id, token |-> token]
Unknown == Ident(0, 0)
Down == Ident(-1, 0)

NoCall == [by |-> "nobody", handler |-> None]
Idle == [pc |-> "idle", for |-> None, name |-> None, dep |-> FALSE,
         reply |-> Unknown]

Init ==
    /\ kind \in [Machines -> {"edr", "collector"}]
    /\ uuid \in [Machines -> Uuids \union {None}]
    /\ \A m \in Machines : kind[m] = "collector" => uuid[m] # None
    /\ name \in [Machines -> Names]
    /\ disk = [m \in Machines |-> Unknown]
    /\ mem = [m \in Machines |-> Down]
    /\ call = [m \in Machines |-> NoCall]
    /\ req = [h \in Handlers |-> Idle]
    /\ used = 0
    /\ valid = TRUE
    /\ rows = <<>>
    /\ minted = 0
    /\ unheard = {}
    /\ ops = 0
    /\ faults = 0

Op == ops < MaxOps /\ ops' = ops + 1
Fault == faults < MaxFaults /\ faults' = faults + 1

Waiting(m) == call[m] # NoCall

(* Whether the agent's requests are answered: CyEDR's name their row, the  *)
(* collector's are looked up by token.                                     *)
Accepted(m) ==
    \E i \in DOMAIN rows :
        /\ rows[i].table = kind[m]
        /\ rows[i].token = mem[m].token
        /\ rows[i].active
        /\ kind[m] = "edr" => i = mem[m].id

(* A request goes to a free thread; they are alike.                        *)
Free == {h \in Handlers : req[h] = Idle}
Send(m, by, dep) ==
    /\ ~Waiting(m)
    /\ Free # {}
    /\ LET h == CHOOSE f \in Handlers : f \in Free IN
       /\ call' = [call EXCEPT ![m] = [by |-> by, handler |-> h]]
       /\ req' = [req EXCEPT ![h] = [pc |-> "check", for |-> m, name |-> name[m],
                                     dep |-> dep, reply |-> Unknown]]

(***************************************************************************)
(* The host.                                                               *)
(***************************************************************************)

(* The installer writes a config without an identity, then always enrols.  *)
Install(m) ==
    /\ kind[m] = "edr"
    /\ Op
    /\ Send(m, "installer", TRUE)
    /\ disk' = [disk EXCEPT ![m] = Unknown]
    /\ UNCHANGED <<host, name, mem, used, valid, rows, minted, unheard, faults>>

(* A process with an agent_id in its config starts without enrolling.      *)
Start(m) ==
    /\ ~Waiting(m)
    /\ disk[m].id # 0
    /\ mem' = [mem EXCEPT ![m] = disk[m]]
    /\ UNCHANGED <<host, name, disk, call, req, used, valid, rows, minted,
                   unheard, ops, faults>>

(* One without tries once; only the collector's request carries the token. *)
StartFresh(m) ==
    /\ disk[m].id = 0
    /\ Op
    /\ Send(m, "agent", kind[m] = "collector")
    /\ mem' = [mem EXCEPT ![m] = Unknown]
    /\ UNCHANGED <<host, name, disk, used, valid, rows, minted, unheard, faults>>

(* A CyEDR heartbeat that is refused calls ensure_enrolled(force=True).    *)
Recover(m) ==
    /\ kind[m] = "edr"
    /\ mem[m].id > 0
    /\ ~Accepted(m)
    /\ Send(m, "agent", FALSE)
    /\ UNCHANGED <<host, name, disk, mem, used, valid, rows, minted, unheard,
                   ops, faults>>

SavedIdOnly(m, by, got) == Ident(got.id, disk[m].token)
Saved(m, by, got) ==
    IF kind[m] = "edr" THEN got ELSE Ident(got.id, disk[m].token)

(* The reply arrives: the installer or the agent keeps the identity.  Only *)
(* CyEDR's is complete on disk.                                            *)
Receive(m) ==
    /\ Waiting(m)
    /\ LET h == call[m].handler
           got == req[h].reply IN
       /\ req[h].pc = "reply"
       /\ req' = [req EXCEPT ![h] = Idle]
       /\ IF got = Unknown THEN UNCHANGED <<disk, mem>>
          ELSE /\ disk' = [disk EXCEPT ![m] = Saved(m, call[m].by, got)]
               /\ mem' = IF call[m].by = "agent" THEN [mem EXCEPT ![m] = got]
                         ELSE mem
    /\ call' = [call EXCEPT ![m] = NoCall]
    /\ UNCHANGED <<host, name, used, valid, rows, minted, unheard, ops, faults>>

(* The request times out, or the caller dies: the handler goes on.         *)
GiveUp(m) ==
    /\ Waiting(m)
    /\ Fault
    /\ LET h == call[m].handler IN
       req' = IF req[h].pc = "reply" THEN [req EXCEPT ![h] = Idle] ELSE req
    /\ call' = [call EXCEPT ![m] = NoCall]
    /\ unheard' = unheard \union {m}
    /\ UNCHANGED <<host, name, disk, mem, used, valid, rows, minted, ops>>

Rename(m) ==
    /\ Op
    /\ \E n \in Names \ {name[m]} : name' = [name EXCEPT ![m] = n]
    /\ ~Waiting(m)
    /\ UNCHANGED <<host, disk, mem, call, req, used, valid, rows, minted,
                   unheard, faults>>

(***************************************************************************)
(* The server: self_enroll_agent, in both blueprints.                      *)
(***************************************************************************)

At(h, pc) == req[h].pc = pc
Goto(h, pc) == req' = [req EXCEPT ![h].pc = pc]

(* A reply that no one waits for is lost.                                  *)
Reply(h, ident) ==
    req' = [req EXCEPT ![h] =
              IF \E m \in Machines : call[m].handler = h
              THEN [req[h] EXCEPT !.pc = "reply", !.reply = ident]
              ELSE Idle]

HasUsesOff == MaxUses = 0 \/ used <= MaxUses
HasUses == MaxUses = 0 \/ used < MaxUses

(* validate_deployment_token reads the row ...                             *)
Check(h) ==
    /\ At(h, "check")
    /\ IF req[h].dep /\ valid /\ HasUses THEN Goto(h, "count")
       ELSE Reply(h, Unknown)
    /\ UNCHANGED <<host, name, disk, mem, call, used, valid, rows, minted,
                   unheard, ops, faults>>

CountCapped(h) ==
    /\ At(h, "count")
    /\ Goto(h, "uuid")
    /\ used' = IF MaxUses > 0 /\ used >= MaxUses THEN used ELSE used + 1
    /\ UNCHANGED <<host, name, disk, mem, call, valid, rows, minted, unheard,
                   ops, faults>>

(* ... and increments used_count in a later statement, without a condition.*)
Count(h) ==
    /\ At(h, "count")
    /\ Goto(h, "uuid")
    /\ used' = used + 1
    /\ UNCHANGED <<host, name, disk, mem, call, valid, rows, minted, unheard,
                   ops, faults>>

Table(h) == kind[req[h].for]
Row(t, n, u, token, by) ==
    [table |-> t, name |-> n, uuid |-> u, token |-> token, active |-> TRUE,
     by |-> by, self |-> by # None]

(* What an UPDATE of a matched row sets: the EDR's leaves status alone.    *)
Retoken(r, h) ==
    [r EXCEPT !.token = minted + 1, !.by = req[h].for,
              !.active = r.active \/ Table(h) = "collector"]

(* Pass 1: the row with the host's UUID also takes its name.               *)
ByUuidSets(r, h) == [Retoken(r, h) EXCEPT !.name = req[h].name]

(* Pass 2: a row with the host's name takes its UUID if it has none.       *)
ByNameSets(r, h) ==
    [Retoken(r, h) EXCEPT !.uuid = IF r.uuid = None THEN uuid[req[h].for] ELSE r.uuid]

HasUuid(r, h) == r.table = Table(h) /\ r.uuid # None /\ r.uuid = uuid[req[h].for]
HasName(r, h) == r.table = Table(h) /\ r.name = req[h].name

(* The unique index on hardware_uuid of each table.                        *)
Unique(rs) ==
    \A i, j \in DOMAIN rs :
        (rs[i].table = rs[j].table /\ rs[i].uuid = rs[j].uuid /\ i # j)
            => rs[i].uuid = None

(* A statement that changes rows commits and answers; one that violates    *)
(* the index is answered 500.                                              *)
CommitRetried(h, new, id) ==
    /\ Unique(new)
    /\ rows' = new
    /\ minted' = minted + 1
    /\ Reply(h, Ident(id, minted + 1))
Commit(h, new, id) ==
    IF Unique(new)
    THEN /\ rows' = new
         /\ minted' = minted + 1
         /\ Reply(h, Ident(id, minted + 1))
    ELSE /\ Reply(h, Unknown)
         /\ UNCHANGED <<rows, minted>>

MatchUuid(h) ==
    /\ At(h, "uuid")
    /\ LET hit == {i \in DOMAIN rows : HasUuid(rows[i], h)} IN
       \/ hit = {} /\ Goto(h, "name") /\ UNCHANGED <<rows, minted>>
       \/ \E id \in hit :
            Commit(h, [i \in DOMAIN rows |->
                         IF i \in hit THEN ByUuidSets(rows[i], h) ELSE rows[i]], id)
    /\ UNCHANGED <<host, name, disk, mem, call, used, valid, unheard, ops, faults>>

(* Every row with the name is updated; the first returned is answered.     *)
MatchName(h) ==
    /\ At(h, "name")
    /\ LET hit == {i \in DOMAIN rows : HasName(rows[i], h)} IN
       \/ hit = {} /\ Goto(h, "insert") /\ UNCHANGED <<rows, minted>>
       \/ \E id \in hit :
            Commit(h, [i \in DOMAIN rows |->
                         IF i \in hit THEN ByNameSets(rows[i], h) ELSE rows[i]], id)
    /\ UNCHANGED <<host, name, disk, mem, call, used, valid, unheard, ops, faults>>

InsertIdOff(h) ==
    /\ At(h, "insert")
    /\ LET m == req[h].for
           new == Append(rows, Row(Table(h), req[h].name, uuid[m], minted + 1, m)) IN
       Commit(h, new, Len(new) + 1)
    /\ UNCHANGED <<host, name, disk, mem, call, used, valid, unheard, ops, faults>>
Insert(h) ==
    /\ At(h, "insert")
    /\ LET m == req[h].for
           new == Append(rows, Row(Table(h), req[h].name, uuid[m], minted + 1, m)) IN
       Commit(h, new, Len(new))
    /\ UNCHANGED <<host, name, disk, mem, call, used, valid, unheard, ops, faults>>

(* The database or the worker fails before the commit.                     *)
RequestFails(h) ==
    /\ req[h].pc \in {"check", "count", "uuid", "name", "insert"}
    /\ Fault
    /\ Reply(h, Unknown)
    /\ UNCHANGED <<host, name, disk, mem, call, used, valid, rows, minted,
                   unheard, ops>>

(***************************************************************************)
(* The operator.                                                           *)
(***************************************************************************)

(* POST /agents/enroll always inserts a row, without a UUID.               *)
AdminEnroll(n) ==
    /\ Op
    /\ rows' = Append(rows, Row("edr", n, None, minted + 1, None))
    /\ minted' = minted + 1
    /\ UNCHANGED <<host, name, disk, mem, call, req, used, valid, unheard, faults>>

(* DELETE /hosts/<id> only marks the row.                                  *)
Remove(i) ==
    /\ i \in DOMAIN rows
    /\ Op
    /\ rows' = [rows EXCEPT ![i].active = FALSE]
    /\ UNCHANGED <<host, name, disk, mem, call, req, used, valid, minted,
                   unheard, faults>>

(* The token is revoked, or expires.                                       *)
Revoke ==
    /\ valid
    /\ Op
    /\ valid' = FALSE
    /\ UNCHANGED <<host, name, disk, mem, call, req, used, rows, minted,
                   unheard, faults>>

HostStep(m) ==
    \/ Install(m) \/ Start(m) \/ StartFresh(m) \/ Recover(m)
    \/ Receive(m) \/ GiveUp(m) \/ Rename(m)

HandlerStep(h) ==
    \/ Check(h) \/ Count(h) \/ MatchUuid(h) \/ MatchName(h) \/ Insert(h)

Next ==
    \/ \E m \in Machines : HostStep(m)
    \/ \E h \in Handlers : HandlerStep(h) \/ RequestFails(h)
    \/ \E n \in Names : AdminEnroll(n)
    \/ \E i \in DOMAIN rows : Remove(i)
    \/ Revoke

Spec == Init /\ [][Next]_vars

(* Server threads run, replies arrive, services start (systemd and the     *)
(* watchdog) and the heartbeat repeats; nobody has to act on purpose.      *)
Fairness ==
    /\ \A h \in Handlers : WF_vars(HandlerStep(h))
    /\ \A m \in Machines :
         /\ WF_vars(Receive(m))
         /\ WF_vars(Start(m))
         /\ SF_vars(Recover(m))

FairSpec == Spec /\ Fairness

(***************************************************************************)
(* Properties.                                                             *)
(***************************************************************************)

(* Every enrolment token and row that was made.                            *)
Idents == [id : 0..Len(rows), token : 0..minted]
RowType == [table : {"edr", "collector"}, name : Names, uuid : Uuids \union {None},
            token : 1..minted, active : BOOLEAN, by : Machines \union {None},
            self : BOOLEAN]
Calls == [by : {"installer", "agent"}, handler : Handlers] \union {NoCall}
Steps == {"idle", "check", "count", "uuid", "name", "insert", "reply"}
Requests == [pc : Steps, for : Machines \union {None}, name : Names \union {None},
             dep : BOOLEAN, reply : Idents]

(* Types: every identity that is held or answered names a row and a token  *)
(* that were made, and a busy handler serves a host.                       *)
TypeOK ==
    /\ kind \in [Machines -> {"edr", "collector"}]
    /\ uuid \in [Machines -> Uuids \union {None}]
    /\ name \in [Machines -> Names]
    /\ disk \in [Machines -> Idents]
    /\ mem \in [Machines -> Idents \union {Down}]
    /\ call \in [Machines -> Calls]
    /\ req \in [Handlers -> Requests]
    /\ \A h \in Handlers :
         req[h].pc # "idle" => req[h].for \in Machines /\ req[h].name \in Names
    /\ used \in Nat
    /\ valid \in BOOLEAN
    /\ rows \in Seq(RowType)
    /\ minted \in Nat
    /\ unheard \in SUBSET Machines
    /\ ops \in Nat
    /\ faults \in Nat

(* The check of max_uses and the increment are two statements: the token   *)
(* is overrun, but never by more than the other threads that may be        *)
(* between the two.                                                        *)
OverrunBounded ==
    MaxUses > 0 => used <= MaxUses + Cardinality(Handlers) - 1

(* Every row a host enrolled itself, and every enrolment on its way to     *)
(* one, was paid with a use of the deployment token of its own.            *)
SelfEnrolled == {i \in DOMAIN rows : rows[i].self}
Matching == {h \in Handlers : req[h].pc \in {"uuid", "name", "insert"}}
RowsPaid == Cardinality(SelfEnrolled) + Cardinality(Matching) <= used

(* A host whose requests were all answered, and whose row no one else has  *)
(* enrolled on since, holds that row's token: CyEDR in its config, across  *)
(* restarts, the collector in its process.                                 *)
Held(m) == IF kind[m] = "edr" THEN disk[m] ELSE mem[m]
Holder(m) ==
    /\ m \notin unheard
    /\ Held(m).id \in DOMAIN rows
    /\ rows[Held(m).id].by = m
    /\ kind[m] = "edr" \/ mem[m].token # 0
TokenHeld ==
    \A m \in Machines :
        Holder(m) /\ ~Waiting(m) => rows[Held(m).id].token = Held(m).token

(* Every self-enroll request of the installer or an agent is answered, or  *)
(* given up.                                                               *)
CallsEnd == \A m \in Machines : Waiting(m) ~> ~Waiting(m)

(* The comment on CyEDR's recovery: an agent whose token is stale heals    *)
(* itself with the still valid deployment token.                           *)
LockedOut(m) ==
    /\ kind[m] = "edr"
    /\ mem[m].id \in DOMAIN rows
    /\ rows[mem[m].id].active
    /\ ~Accepted(m)
SelfHeals ==
    \A m \in Machines :
        (LockedOut(m) /\ valid /\ HasUses) ~> (Accepted(m) \/ ~valid \/ ~HasUses)

=============================================================================
