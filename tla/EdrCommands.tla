----------------------------- MODULE EdrCommands -----------------------------
(***************************************************************************)
(* The CyEDR response commands: the table edr_response_commands that       *)
(* analysts, automatic responses and the policy engine fill, the HTTP      *)
(* requests by which an agent polls it and reports results, the agent that *)
(* executes the commands, and the policy edits and assignments that queue  *)
(* APPLY_POLICY commands.                                                  *)
(*                                                                         *)
(* A request handler is modelled by the statements of its transactions, so *)
(* that handlers of requests the agent has given up on still run.  One     *)
(* policy of one type stands for all: the agent keeps one configuration    *)
(* per policy type.  It is the one an ISOLATE reads its exceptions from: no *)
(* caller of the queue passes the management_ip the agent would allow, so   *)
(* the exceptions alone decide whether an isolated host is cut off.         *)
(***************************************************************************)
EXTENDS Naturals, FiniteSets

CONSTANTS
    Agents,
    Commands,       \* uuids of command rows
    Polls,          \* poll requests that may be in progress together
    Editors,        \* concurrent update_policy and assign_policy calls
    Configs,        \* configurations a policy may get
    DefaultConfig,  \* configuration at the start, on both sides
    Reaching,       \* configurations whose isolation exceptions let an
                    \* isolated agent reach the platform
    Actions,        \* actions people and automatic responses may queue
    None,
    PageSize,       \* LIMIT of a poll (20 in the code)
    MaxOps,         \* bound: commands queued, edits and assignments
    MaxFaults       \* bound: timeouts, lost requests and agent restarts

ASSUME BoundsAssumption ==
    /\ {MaxOps, MaxFaults} \subseteq Nat
    /\ PageSize \in Nat \ {0}
    /\ DefaultConfig \in Configs
    /\ Reaching \subseteq Configs

ASSUME ValuesAssumption ==
    /\ None \notin Polls \cup Commands \cup Configs \cup Agents
    /\ Actions \subseteq {"ISOLATE", "UNISOLATE", "BLOCK_HASH", "OTHER"}

VARIABLES
    row,        \* the rows of edr_response_commands
    poll,       \* GET .../pending requests
    agent,      \* the command poller thread of each agent
    report,     \* POST .../complete request of each command
    executed,   \* how often each command was executed (history)
    wall,       \* firewall state of each host
    applied,    \* policy_state of each agent, in memory and on disk
    isolation,  \* edr_agents.isolation_state
    policy,     \* the configuration in edr_policies
    assigned,   \* the agents in edr_policy_assignments
    editor,     \* open transactions of the policy engine
    clock, ops, faults

queue == <<row, executed>>
host == <<wall, applied>>
engine == <<policy, assigned, editor, clock, ops>>
vars == <<row, poll, agent, report, executed, wall, applied, isolation,
          policy, assigned, editor, clock, ops, faults>>

(* Command ids not yet in the table have status "none"; issued is the      *)
(* NOW() of the inserting transaction, which is the time it began.         *)
Row == [status: {"none", "pending", "acknowledged", "completed", "failed"},
        agent: Agents \cup {None},
        action: Actions \cup {"APPLY_POLICY", "none"},
        config: Configs \cup {None},
        issued: Nat]
NoRow == [status |-> "none", agent |-> None, action |-> "none", config |-> None, issued |-> 0]

IdlePoll == [pc |-> "idle", agent |-> None, page |-> {}]
IdleAgent == [pc |-> "idle", poll |-> None, batch |-> {}, at |-> None]
NoReport == [pc |-> "none", ok |-> FALSE]
IdleEditor == [pc |-> "idle", kind |-> "none", config |-> None, targets |-> {}, issued |-> 0]

Init ==
    /\ row = [c \in Commands |-> NoRow]
    /\ poll = [p \in Polls |-> IdlePoll]
    /\ agent = [a \in Agents |-> IdleAgent]
    /\ report = [c \in Commands |-> NoReport]
    /\ executed = [c \in Commands |-> 0]
    /\ wall = [a \in Agents |-> "open"]
    /\ applied = [a \in Agents |-> DefaultConfig]
    /\ isolation = [a \in Agents |-> "normal"]
    /\ policy = DefaultConfig
    /\ assigned = {}
    /\ editor = [e \in Editors |-> IdleEditor]
    /\ clock = 0
    /\ ops = 0
    /\ faults = 0

Spend == ops < MaxOps /\ ops' = ops + 1
Fault == faults < MaxFaults /\ faults' = faults + 1
Unused == {c \in Commands : row[c].status = "none"}
PendingAfterFirst(a) ==
    {c \in Commands : row[c].status = "pending" /\ row[c].agent = a /\ row[c].issued > 0}
Pending(a) == {c \in Commands : row[c].status = "pending" /\ row[c].agent = a}

-----------------------------------------------------------------------------
(* Commands of people and of auto_respond: one INSERT, one transaction.    *)

Queue(c, a, action) ==
    /\ Spend
    /\ c \in Unused
    /\ row' = [row EXCEPT ![c] = [status |-> "pending", agent |-> a, action |-> action,
                                  config |-> None, issued |-> clock]]
    /\ clock' = clock + 1
    /\ UNCHANGED <<poll, agent, report, executed, host, isolation, policy, assigned,
                   editor, faults>>

-----------------------------------------------------------------------------
(* Policy edits and assignments.  A transaction starts, then locks and     *)
(* rewrites the policy row (edit) or reads it (assign), then commits its   *)
(* change together with one APPLY_POLICY command per agent in scope.       *)

EditStart(e, config) ==
    /\ Spend
    /\ editor[e].pc = "idle"
    /\ editor' = [editor EXCEPT ![e] = [pc |-> "started", kind |-> "edit", config |-> config,
                                        targets |-> {}, issued |-> clock]]
    /\ clock' = clock + 1
    /\ UNCHANGED <<queue, poll, agent, report, host, isolation, policy, assigned, faults>>

AssignStart(e, targets) ==
    /\ Spend
    /\ editor[e].pc = "idle"
    /\ targets # {}
    /\ editor' = [editor EXCEPT ![e] = [pc |-> "started", kind |-> "assign", config |-> None,
                                        targets |-> targets, issued |-> clock]]
    /\ clock' = clock + 1
    /\ UNCHANGED <<queue, poll, agent, report, host, isolation, policy, assigned, faults>>

PolicyLocked == \E e \in Editors : editor[e].kind = "edit" /\ editor[e].pc = "ready"

(* The agents an edit is sent to are those assigned when it looks.         *)
ScopeIgnored == {}
Scope == assigned

EditWrite(e) ==
    /\ editor[e].pc = "started" /\ editor[e].kind = "edit"
    /\ ~PolicyLocked
    /\ editor' = [editor EXCEPT ![e].pc = "ready", ![e].targets = Scope]
    /\ UNCHANGED <<queue, poll, agent, report, host, isolation, policy, assigned,
                   clock, ops, faults>>

AssignReadForgotten(e) ==
    /\ editor[e].pc = "started" /\ editor[e].kind = "assign"
    /\ editor' = [editor EXCEPT ![e].pc = "ready"]
    /\ UNCHANGED <<queue, poll, agent, report, host, isolation, policy, assigned,
                   clock, ops, faults>>
AssignRead(e) ==
    /\ editor[e].pc = "started" /\ editor[e].kind = "assign"
    /\ editor' = [editor EXCEPT ![e].pc = "ready", ![e].config = policy]
    /\ UNCHANGED <<queue, poll, agent, report, host, isolation, policy, assigned,
                   clock, ops, faults>>

PolicyCommand(a, e) ==
    [status |-> "pending", agent |-> a, action |-> "APPLY_POLICY",
     config |-> editor[e].config, issued |-> editor[e].issued]

(* id[a] is the fresh uuid of agent a's command.                           *)
PolicyCommit(e, id) ==
    /\ editor[e].pc = "ready"
    /\ id \in [editor[e].targets -> Unused]
    /\ \A a, b \in editor[e].targets : id[a] = id[b] => a = b
    /\ row' = [c \in Commands |->
                  IF \E a \in editor[e].targets : id[a] = c
                  THEN PolicyCommand(CHOOSE a \in editor[e].targets : id[a] = c, e)
                  ELSE row[c]]
    /\ IF editor[e].kind = "edit"
       THEN policy' = editor[e].config /\ UNCHANGED assigned
       ELSE assigned' = assigned \cup editor[e].targets /\ UNCHANGED policy
    /\ editor' = [editor EXCEPT ![e] = IdleEditor]
    /\ UNCHANGED <<poll, agent, report, executed, host, isolation, clock, ops, faults>>

-----------------------------------------------------------------------------
(* Polling: GET .../pending selects the oldest pending commands and marks  *)
(* them acknowledged in the same transaction, by id.                       *)

PollSend(a, p) ==
    /\ agent[a].pc = "idle"
    /\ poll[p].pc = "idle"
    /\ agent' = [agent EXCEPT ![a].pc = "polling", ![a].poll = p]
    /\ poll' = [poll EXCEPT ![p] = [pc |-> "sent", agent |-> a, page |-> {}]]
    /\ UNCHANGED <<queue, report, host, isolation, engine, faults>>

Cut(a) == wall[a] = "cut"

Oldest(page, pending) ==
    \A c \in page, d \in pending \ page : row[c].issued <= row[d].issued

PollSelect(p, page) ==
    /\ poll[p].pc = "sent"
    /\ LET pending == Pending(poll[p].agent)
       IN /\ page \subseteq pending
          /\ Cardinality(page) <= PageSize
          /\ Cardinality(page) < PageSize => page = pending
          /\ Oldest(page, pending)
    /\ poll' = [poll EXCEPT ![p].pc = "selected", ![p].page = page]
    /\ UNCHANGED <<queue, agent, report, host, isolation, engine, faults>>

Awaited(p) == \E a \in Agents : agent[a].poll = p

(* An agent that has given up never reads the answer.                      *)
Answered(p) == IF Awaited(p) THEN [poll[p] EXCEPT !.pc = "answered"] ELSE IdlePoll

PollUpdateNothing(p) ==
    /\ poll[p].pc = "selected"
    /\ poll' = [poll EXCEPT ![p] = Answered(p)]
    /\ UNCHANGED <<queue, agent, report, host, isolation, engine, faults>>
PollUpdate(p) ==
    /\ poll[p].pc = "selected"
    /\ row' = [c \in Commands |-> IF c \in poll[p].page
                                  THEN [row[c] EXCEPT !.status = "acknowledged"]
                                  ELSE row[c]]
    /\ poll' = [poll EXCEPT ![p] = Answered(p)]
    /\ UNCHANGED <<agent, report, executed, host, isolation, engine, faults>>

PollReceive(a) ==
    /\ agent[a].pc = "polling"
    /\ ~Cut(a)
    /\ poll[agent[a].poll].pc = "answered"
    /\ LET page == poll[agent[a].poll].page
       IN agent' = [agent EXCEPT ![a] =
              IF page = {} THEN IdleAgent
              ELSE [pc |-> "executing", poll |-> None, batch |-> page, at |-> None]]
    /\ poll' = [poll EXCEPT ![agent[a].poll] = IdlePoll]
    /\ UNCHANGED <<queue, report, host, isolation, engine, faults>>

(* The request p is lost on its way, is still being handled, or has an     *)
(* answer nobody reads any more.                                           *)
Abandoned(p, lost) ==
    IF poll[p].pc = "answered" \/ (lost /\ poll[p].pc = "sent") THEN IdlePoll ELSE poll[p]

(* A timeout of the poll: the thread waits for its interval and polls      *)
(* again.  A host that is cut off gets no answer at all.                   *)
StopPolling(a, lost) ==
    /\ agent[a].pc = "polling"
    /\ agent' = [agent EXCEPT ![a] = IdleAgent]
    /\ poll' = [poll EXCEPT ![agent[a].poll] = Abandoned(agent[a].poll, lost)]
    /\ UNCHANGED <<queue, report, host, isolation, engine>>

PollGiveUp(a, lost) == Fault /\ StopPolling(a, lost)
PollUnanswered(a, lost) == Cut(a) /\ StopPolling(a, lost) /\ UNCHANGED faults

-----------------------------------------------------------------------------
(* Execution.  The firewall is "partial" or "cut" when rules of an ISOLATE *)
(* are missing, and "cut" when no exception lets the platform through.  No *)
(* handler is registered for BLOCK_HASH.                                   *)

Effect(ok, w, config) == [ok |-> ok, wall |-> w, applied |-> config]
Isolated(a) == IF applied[a] \in Reaching THEN "isolated" ELSE "cut"
Effects(a, c) ==
    CASE row[c].action = "ISOLATE" ->
            {Effect(TRUE, Isolated(a), applied[a]), Effect(FALSE, wall[a], applied[a])}
      [] row[c].action = "UNISOLATE" -> {Effect(TRUE, "open", applied[a])}
      [] row[c].action = "APPLY_POLICY" -> {Effect(TRUE, wall[a], row[c].config)}
      [] row[c].action = "BLOCK_HASH" -> {Effect(FALSE, wall[a], applied[a])}
      [] OTHER -> {Effect(TRUE, wall[a], applied[a]), Effect(FALSE, wall[a], applied[a])}

(* ISOLATE may stop halfway; on Windows, like UNISOLATE anywhere, it does  *)
(* not look at the exit codes of its firewall commands.  A policy handler  *)
(* may raise.                                                              *)
Misfires(a, c) ==
    CASE row[c].action = "ISOLATE" ->
            {Effect(ok, w, applied[a]) : ok \in BOOLEAN, w \in {wall[a], "partial", "cut"}}
      [] row[c].action = "UNISOLATE" -> {Effect(TRUE, wall[a], applied[a])}
      [] row[c].action = "APPLY_POLICY" -> {Effect(FALSE, wall[a], applied[a])}
      [] OTHER -> {}

(* Runs the next command of the batch and posts its result, which may      *)
(* leave a host that is now cut off only on a connection it has open.      *)
Perform(a, c, effect, arrives) ==
    /\ agent[a].pc = "executing"
    /\ c \in agent[a].batch
    /\ \A d \in agent[a].batch : row[c].issued <= row[d].issued
    /\ arrives \/ effect.wall = "cut"
    /\ executed' = [executed EXCEPT ![c] = @ + 1]
    /\ wall' = [wall EXCEPT ![a] = effect.wall]
    /\ applied' = [applied EXCEPT ![a] = effect.applied]
    /\ agent' = [agent EXCEPT ![a].pc = "reporting", ![a].batch = @ \ {c}, ![a].at = c]
    /\ report' = IF arrives THEN [report EXCEPT ![c] = [pc |-> "sent", ok |-> effect.ok]]
                 ELSE report
    /\ UNCHANGED <<row, poll, isolation, engine>>

Execute(a, c) ==
    /\ \E effect \in Effects(a, c), arrives \in BOOLEAN : Perform(a, c, effect, arrives)
    /\ UNCHANGED faults
ExecuteBadly(a, c) ==
    /\ Fault
    /\ \E effect \in Misfires(a, c), arrives \in BOOLEAN : Perform(a, c, effect, arrives)

-----------------------------------------------------------------------------
(* POST .../complete: two transactions, then the answer.                   *)

RecordSuccessOnly(c) ==
    /\ report[c].pc = "sent"
    /\ row' = IF report[c].ok THEN [row EXCEPT ![c].status = "completed"] ELSE row
    /\ report' = [report EXCEPT ![c].pc = "recorded"]
    /\ UNCHANGED <<poll, agent, executed, host, isolation, engine, faults>>
RecordResult(c) ==
    /\ report[c].pc = "sent"
    /\ row' = [row EXCEPT ![c].status = IF report[c].ok THEN "completed" ELSE "failed"]
    /\ report' = [report EXCEPT ![c].pc = "recorded"]
    /\ UNCHANGED <<poll, agent, executed, host, isolation, engine, faults>>

SyncedAlways(c) == row[c].action \in {"ISOLATE", "UNISOLATE"}
Synced(c) == report[c].ok /\ row[c].action \in {"ISOLATE", "UNISOLATE"}

SyncIsolation(c) ==
    /\ report[c].pc = "recorded"
    /\ isolation' = IF Synced(c)
                    THEN [isolation EXCEPT ![row[c].agent] =
                             IF row[c].action = "ISOLATE" THEN "isolated" ELSE "normal"]
                    ELSE isolation
    /\ report' = [report EXCEPT ![c].pc = "answered"]
    /\ UNCHANGED <<queue, poll, agent, host, engine, faults>>

AfterReportRetries(a) == [agent[a] EXCEPT !.pc = "executing", !.at = None,
                                          !.batch = @ \cup {agent[a].at}]
AfterReport(a) == IF agent[a].batch = {} THEN IdleAgent
                  ELSE [agent[a] EXCEPT !.pc = "executing", !.at = None]

ReportAnswered(a) ==
    /\ agent[a].pc = "reporting"
    /\ ~Cut(a)
    /\ report[agent[a].at].pc = "answered"
    /\ agent' = [agent EXCEPT ![a] = AfterReport(a)]
    /\ UNCHANGED <<queue, poll, report, host, isolation, engine, faults>>

LoseReport(c, lost) ==
    IF lost /\ report[c].pc = "sent" THEN [report EXCEPT ![c].pc = "none"] ELSE report

(* A failed POST is logged and not repeated.                               *)
StopReporting(a, lost) ==
    /\ agent[a].pc = "reporting"
    /\ agent' = [agent EXCEPT ![a] = AfterReport(a)]
    /\ report' = LoseReport(agent[a].at, lost)
    /\ UNCHANGED <<queue, poll, host, isolation, engine>>

ReportGiveUp(a, lost) == Fault /\ StopReporting(a, lost)
ReportUnanswered(a) ==
    /\ Cut(a)
    /\ StopReporting(a, FALSE)
    /\ report[agent[a].at].pc \in {"none", "answered"}
    /\ UNCHANGED faults

(* The agent process restarts: its batch existed only in memory.           *)
Restart(a, lost) ==
    /\ Fault
    /\ agent[a].pc # "idle"
    /\ agent' = [agent EXCEPT ![a] = IdleAgent]
    /\ poll' = IF agent[a].pc = "polling"
               THEN [poll EXCEPT ![agent[a].poll] = Abandoned(agent[a].poll, lost)] ELSE poll
    /\ report' = IF agent[a].pc = "reporting" THEN LoseReport(agent[a].at, lost) ELSE report
    /\ UNCHANGED <<queue, host, isolation, engine>>

-----------------------------------------------------------------------------

ConsoleStep ==
    \/ \E c \in Commands, a \in Agents, action \in Actions : Queue(c, a, action)
    \/ \E e \in Editors, config \in Configs : EditStart(e, config)
    \/ \E e \in Editors, targets \in SUBSET Agents : AssignStart(e, targets)

EditorStep(e) ==
    \/ EditWrite(e)
    \/ AssignRead(e)
    \/ \E id \in [editor[e].targets -> Unused] : PolicyCommit(e, id)

PollHandler(p) == PollUpdate(p) \/ \E page \in SUBSET Commands : PollSelect(p, page)
ReportHandler(c) == RecordResult(c) \/ SyncIsolation(c)

AgentStep(a) ==
    \/ \E p \in Polls : PollSend(a, p)
    \/ PollReceive(a)
    \/ \E c \in Commands : Execute(a, c)
    \/ ReportAnswered(a)
    \/ ReportUnanswered(a)
    \/ \E lost \in BOOLEAN : PollUnanswered(a, lost)

AgentFault(a) ==
    \/ \E lost \in BOOLEAN : PollGiveUp(a, lost) \/ ReportGiveUp(a, lost) \/ Restart(a, lost)
    \/ \E c \in Commands : ExecuteBadly(a, c)

Next ==
    \/ ConsoleStep
    \/ \E e \in Editors : EditorStep(e)
    \/ \E p \in Polls : PollHandler(p)
    \/ \E c \in Commands : ReportHandler(c)
    \/ \E a \in Agents : AgentStep(a) \/ AgentFault(a)

Spec == Init /\ [][Next]_vars

(* Handlers run to their end and the poller thread keeps polling; nothing  *)
(* makes a person act or a fault happen.                                   *)
Fairness ==
    /\ \A e \in Editors : WF_vars(EditorStep(e))
    /\ \A p \in Polls : WF_vars(PollHandler(p))
    /\ \A c \in Commands : WF_vars(ReportHandler(c))
    /\ \A a \in Agents : WF_vars(AgentStep(a))

FairSpec == Spec /\ Fairness

-----------------------------------------------------------------------------
(* Properties.                                                             *)

Walls == {"open", "isolated", "partial", "cut"}
PollRecord == [pc: {"idle", "sent", "selected", "answered"},
               agent: Agents \cup {None}, page: SUBSET Commands]
AgentRecord == [pc: {"idle", "polling", "executing", "reporting"},
                poll: Polls \cup {None}, batch: SUBSET Commands, at: Commands \cup {None}]
ReportRecord == [pc: {"none", "sent", "recorded", "answered"}, ok: BOOLEAN]
EditorRecord == [pc: {"idle", "started", "ready"}, kind: {"none", "edit", "assign"},
                 config: Configs \cup {None}, targets: SUBSET Agents, issued: Nat]

(* Every variable keeps its shape.                                         *)
TypeOK ==
    /\ row \in [Commands -> Row]
    /\ poll \in [Polls -> PollRecord]
    /\ agent \in [Agents -> AgentRecord]
    /\ report \in [Commands -> ReportRecord]
    /\ executed \in [Commands -> Nat]
    /\ wall \in [Agents -> Walls]
    /\ applied \in [Agents -> Configs]
    /\ isolation \in [Agents -> {"normal", "isolated"}]
    /\ policy \in Configs
    /\ assigned \subseteq Agents
    /\ editor \in [Editors -> EditorRecord]
    /\ clock \in Nat
    /\ ops \in Nat
    /\ faults \in Nat

(* No command is executed twice, however polls, timeouts and restarts      *)
(* overlap.                                                                *)
AtMostOnce == \A c \in Commands : executed[c] <= 1

(* Nothing is under way for agent a.                                       *)
Settled(a) ==
    /\ agent[a].batch = {} /\ agent[a].pc # "reporting"
    /\ Pending(a) = {}
    /\ \A p \in Polls : poll[p].page = {}
    /\ \A e \in Editors : editor[e].pc = "idle"

(* Unless something failed on the way, the configuration of every assigned *)
(* agent that is not cut off is the one in the database once its commands  *)
(* are executed ("this agent's local policy_state.json should now match    *)
(* the DB").                                                               *)
PolicyDelivered ==
    faults = 0 => \A a \in assigned : Settled(a) /\ ~Cut(a) => applied[a] = policy

(* Unless something failed on the way, isolation_state is the state of the *)
(* host's firewall, hosts that are cut off aside.                          *)
IsolationInSync ==
    faults = 0 => \A a \in Agents :
        Settled(a) => (wall[a] = "open" => isolation[a] = "normal")
                      /\ (wall[a] = "isolated" => isolation[a] = "isolated")

(* A command does not stay in the queue, whatever fails, unless its host   *)
(* is cut off; without faults it gets a result ("ISOLATE - block all       *)
(* network except EDR management channel").                                *)
CommandsLeaveQueue ==
    \A c \in Commands :
        row[c].status = "pending" ~>
            row[c].status # "pending" \/ \E a \in Agents : row[c].agent = a /\ Cut(a)
CommandsReported ==
    \A c \in Commands :
        row[c].status = "pending" ~> row[c].status \in {"completed", "failed"} \/ faults > 0

(* The queue implements CommandLife.                                       *)
Phase(c) == CASE row[c].status = "none" -> "none"
              [] row[c].status = "pending" -> "queued"
              [] OTHER -> "taken"
Outcome(c) == IF report[c].pc \in {"recorded", "answered"}
              THEN IF report[c].ok THEN "completed" ELSE "failed"
              ELSE "none"

Life == INSTANCE CommandLife WITH
            phase <- [c \in Commands |-> Phase(c)],
            runs <- executed,
            outcome <- [c \in Commands |-> Outcome(c)]
LifeSpec == Life!Spec
=============================================================================
