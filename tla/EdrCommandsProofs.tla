-------------------------- MODULE EdrCommandsProofs --------------------------
(***************************************************************************)
(* For any agents, commands, overlapping polls, editors, timeouts and      *)
(* restarts: no command is executed twice, and the queue implements        *)
(* CommandLife.  While nothing fails: isolation_state follows the firewall *)
(* and, policies being edited one at a time, the policy reaches its hosts. *)
(***************************************************************************)
EXTENDS EdrCommands, TLAPS

Waiting(c) == row[c].status \in {"none", "pending"}

(* A policy command carries a configuration from the moment it is decided. *)
ConfigsKnown ==
    /\ \A c \in Commands : row[c].action = "APPLY_POLICY" => row[c].config \in Configs
    /\ \A e \in Editors :
          editor[e].kind = "edit" \/ editor[e].pc = "ready" => editor[e].config \in Configs

(* A command the table still offers has not been executed, and results are *)
(* only of executed commands.                                              *)
WaitingFresh ==
    \A c \in Commands :
        /\ executed[c] \in {0, 1}
        /\ Waiting(c) => executed[c] = 0
        /\ executed[c] = 0 => report[c].pc = "none"

(* A page belongs to the polling agent and is in the table; once answered  *)
(* it is no longer offered.                                                *)
PagesKnown ==
    \A p \in Polls : \A c \in poll[p].page :
        /\ row[c].status # "none"
        /\ row[c].agent = poll[p].agent
        /\ poll[p].pc = "answered" => ~Waiting(c)

(* The one poll an agent awaits holds no executed command: this is what an *)
(* abandoned poll may violate, and why its page must never be received.    *)
AwaitedFresh ==
    \A a \in Agents :
        /\ agent[a].pc = "polling" <=> agent[a].poll # None
        /\ agent[a].poll # None =>
              /\ poll[agent[a].poll].agent = a
              /\ poll[agent[a].poll].pc # "idle"
              /\ \A c \in poll[agent[a].poll].page : executed[c] = 0

BatchFresh ==
    \A a \in Agents :
        /\ agent[a].batch # {} => agent[a].pc \in {"executing", "reporting"}
        /\ \A c \in agent[a].batch : ~Waiting(c) /\ row[c].agent = a /\ executed[c] = 0
        /\ agent[a].pc = "reporting" => agent[a].at \in Commands /\ executed[agent[a].at] = 1

(* AtMostOnce is not inductive: what an agent holds, or may yet receive,   *)
(* must not have run.                                                      *)
DeliveryInv ==
    /\ TypeOK
    /\ ConfigsKnown
    /\ WaitingFresh
    /\ PagesKnown
    /\ AwaitedFresh
    /\ BatchFresh

(* The records the handlers and the poller thread write have their shape.  *)
LEMMA PollingType ==
    ASSUME NEW r \in AgentRecord, NEW p \in Polls
    PROVE  [r EXCEPT !.pc = "polling", !.poll = p] \in AgentRecord
  BY DEF AgentRecord

(* The page a poll SELECTs.                                                *)
LEMMA SelectedType ==
    ASSUME NEW r \in PollRecord, NEW page \in SUBSET Commands
    PROVE  [r EXCEPT !.pc = "selected", !.page = page] \in PollRecord
  BY DEF PollRecord

(* The poller after a report: the next command of the batch, or its sleep. *)
LEMMA AfterReportType ==
    ASSUME TypeOK, NEW a \in Agents
    PROVE  AfterReport(a) \in AgentRecord
  BY DEF TypeOK, AfterReport, IdleAgent, AgentRecord

(* A report cut off, whether or not its request arrives.                   *)
LEMMA LoseReportType ==
    ASSUME TypeOK, NEW c \in Commands, NEW lost \in BOOLEAN
    PROVE  LoseReport(c, lost) \in [Commands -> ReportRecord]
  BY DEF TypeOK, LoseReport, ReportRecord

(* One lemma per action. Queueing inserts a row for an unused command: it  *)
(* has not run, and no page or batch holds it.                             *)
LEMMA QueueStep ==
    ASSUME DeliveryInv, NEW c \in Commands, NEW a \in Agents,
           NEW action \in Actions, Queue(c, a, action)
    PROVE  DeliveryInv'
<1>1. TypeOK'
  BY DEF DeliveryInv, TypeOK, Row, Queue, host, Spend
<1>2. ConfigsKnown'
  BY ValuesAssumption DEF DeliveryInv, ConfigsKnown, Queue
<1>3. WaitingFresh'
  BY DEF Waiting, DeliveryInv, WaitingFresh, Queue, Unused
<1>4. PagesKnown'
  BY DEF Waiting, DeliveryInv, PagesKnown, Queue, Unused
<1>5. AwaitedFresh'
  BY DEF DeliveryInv, AwaitedFresh, Queue
<1>6. BatchFresh'
  BY DEF Waiting, DeliveryInv, BatchFresh, Queue, Unused
<1> QED
  BY <1>1, <1>2, <1>3, <1>4, <1>5, <1>6 DEF DeliveryInv

(* An edit decides its configuration; nothing is offered yet.              *)
LEMMA EditStartStep ==
    ASSUME DeliveryInv, NEW e \in Editors, NEW config \in Configs,
           EditStart(e, config)
    PROVE  DeliveryInv'
<1>1. TypeOK'
  BY DEF DeliveryInv, TypeOK, EditorRecord, EditStart, queue, host, Spend
<1>2. ConfigsKnown'
  BY DEF DeliveryInv, ConfigsKnown, EditStart, queue
<1>3. WaitingFresh'
  BY DEF Waiting, DeliveryInv, WaitingFresh, EditStart, queue
<1>4. PagesKnown'
  BY DEF Waiting, DeliveryInv, PagesKnown, EditStart, queue
<1>5. AwaitedFresh'
  BY DEF DeliveryInv, AwaitedFresh, EditStart, queue
<1>6. BatchFresh'
  BY DEF Waiting, DeliveryInv, BatchFresh, EditStart, queue
<1> QED
  BY <1>1, <1>2, <1>3, <1>4, <1>5, <1>6 DEF DeliveryInv

(* An assignment decides its targets before it reads the policy.           *)
LEMMA AssignStartStep ==
    ASSUME DeliveryInv, NEW e \in Editors, NEW targets \in SUBSET Agents,
           AssignStart(e, targets)
    PROVE  DeliveryInv'
<1>1. TypeOK'
  BY DEF DeliveryInv, TypeOK, EditorRecord, AssignStart, queue, host, Spend
<1>2. ConfigsKnown'
  BY DEF DeliveryInv, ConfigsKnown, AssignStart, queue
<1>3. WaitingFresh'
  BY DEF Waiting, DeliveryInv, WaitingFresh, AssignStart, queue
<1>4. PagesKnown'
  BY DEF Waiting, DeliveryInv, PagesKnown, AssignStart, queue
<1>5. AwaitedFresh'
  BY DEF DeliveryInv, AwaitedFresh, AssignStart, queue
<1>6. BatchFresh'
  BY DEF Waiting, DeliveryInv, BatchFresh, AssignStart, queue
<1> QED
  BY <1>1, <1>2, <1>3, <1>4, <1>5, <1>6 DEF DeliveryInv

(* The edit commits the policy row, before its fan-out.                    *)
LEMMA EditWriteStep ==
    ASSUME DeliveryInv, NEW e \in Editors, EditWrite(e)
    PROVE  DeliveryInv'
<1>1. TypeOK'
  <2>1. [editor[e] EXCEPT !.pc = "ready", !.targets = Scope] \in EditorRecord
    BY DEF DeliveryInv, TypeOK, EditorRecord, Scope
  <2>2. editor' = [editor EXCEPT ![e] = [editor[e] EXCEPT !.pc = "ready", !.targets = Scope]]
    BY DEF EditWrite
  <2> QED
    BY <2>1, <2>2 DEF DeliveryInv, TypeOK, EditWrite, queue, host
<1>2. ConfigsKnown'
  BY DEF DeliveryInv, TypeOK, ConfigsKnown, EditWrite, queue
<1>3. WaitingFresh'
  BY DEF Waiting, DeliveryInv, WaitingFresh, EditWrite, queue
<1>4. PagesKnown'
  BY DEF Waiting, DeliveryInv, PagesKnown, EditWrite, queue
<1>5. AwaitedFresh'
  BY DEF DeliveryInv, AwaitedFresh, EditWrite, queue
<1>6. BatchFresh'
  BY DEF Waiting, DeliveryInv, BatchFresh, EditWrite, queue
<1> QED
  BY <1>1, <1>2, <1>3, <1>4, <1>5, <1>6 DEF DeliveryInv

(* The assignment reads the configuration it will send.                    *)
LEMMA AssignReadStep ==
    ASSUME DeliveryInv, NEW e \in Editors, AssignRead(e)
    PROVE  DeliveryInv'
<1>1. TypeOK'
  <2>1. [editor[e] EXCEPT !.pc = "ready", !.config = policy] \in EditorRecord
    BY DEF DeliveryInv, TypeOK, EditorRecord
  <2>2. editor' = [editor EXCEPT ![e] = [editor[e] EXCEPT !.pc = "ready", !.config = policy]]
    BY DEF AssignRead
  <2> QED
    BY <2>1, <2>2 DEF DeliveryInv, TypeOK, AssignRead, queue, host
<1>2. ConfigsKnown'
  BY DEF DeliveryInv, TypeOK, ConfigsKnown, AssignRead, queue
<1>3. WaitingFresh'
  BY DEF Waiting, DeliveryInv, WaitingFresh, AssignRead, queue
<1>4. PagesKnown'
  BY DEF Waiting, DeliveryInv, PagesKnown, AssignRead, queue
<1>5. AwaitedFresh'
  BY DEF DeliveryInv, AwaitedFresh, AssignRead, queue
<1>6. BatchFresh'
  BY DEF Waiting, DeliveryInv, BatchFresh, AssignRead, queue
<1> QED
  BY <1>1, <1>2, <1>3, <1>4, <1>5, <1>6 DEF DeliveryInv

(* The fan-out inserts unused commands, each with the configuration read.  *)
LEMMA PolicyCommitStep ==
    ASSUME DeliveryInv, NEW e \in Editors,
           NEW id \in [editor[e].targets -> Unused], PolicyCommit(e, id)
    PROVE  DeliveryInv'
<1>1. TypeOK'
  BY DEF DeliveryInv, TypeOK, Row, EditorRecord, ConfigsKnown, PolicyCommit, host,
         PolicyCommand, IdleEditor
<1>2. ConfigsKnown'
  BY DEF DeliveryInv, ConfigsKnown, PolicyCommit, PolicyCommand, IdleEditor
<1>3. WaitingFresh'
  BY DEF Waiting, DeliveryInv, WaitingFresh, PolicyCommit, Unused
<1>4. PagesKnown'
  BY DEF Waiting, DeliveryInv, TypeOK, PollRecord, PagesKnown, PolicyCommit, Unused
<1>5. AwaitedFresh'
  BY DEF DeliveryInv, AwaitedFresh, PolicyCommit
<1>6. BatchFresh'
  BY DEF Waiting, DeliveryInv, TypeOK, AgentRecord, BatchFresh, PolicyCommit, Unused
<1> QED
  BY <1>1, <1>2, <1>3, <1>4, <1>5, <1>6 DEF DeliveryInv

(* The agent awaits one poll: an idle one, whose page is empty.            *)
LEMMA PollSendStep ==
    ASSUME DeliveryInv, NEW a \in Agents, NEW p \in Polls, PollSend(a, p)
    PROVE  DeliveryInv'
<1>1. TypeOK'
  <2>1. [agent[a] EXCEPT !.pc = "polling", !.poll = p] \in AgentRecord
    BY PollingType DEF DeliveryInv, TypeOK
  <2>2. agent' = [agent EXCEPT ![a] = [agent[a] EXCEPT !.pc = "polling", !.poll = p]]
    BY DEF PollSend
  <2>3. poll' \in [Polls -> PollRecord]
    BY DEF DeliveryInv, TypeOK, PollRecord, PollSend
  <2> QED
    BY <2>1, <2>2, <2>3 DEF DeliveryInv, TypeOK, PollSend, queue, host, engine
<1>2. ConfigsKnown'
  BY DEF DeliveryInv, ConfigsKnown, PollSend, queue, engine
<1>3. WaitingFresh'
  BY DEF Waiting, DeliveryInv, WaitingFresh, PollSend, queue
<1>4. PagesKnown'
  BY DEF Waiting, DeliveryInv, PagesKnown, PollSend, queue
<1>5. AwaitedFresh'
  BY ValuesAssumption DEF DeliveryInv, TypeOK, AwaitedFresh, PollSend, queue
<1>6. BatchFresh'
  <2>1. agent' = [agent EXCEPT ![a] = [agent[a] EXCEPT !.pc = "polling", !.poll = p]]
    BY DEF PollSend
  <2>2. agent[a].batch = {}
    BY DEF DeliveryInv, BatchFresh, PollSend
  <2> QED
    BY <2>1, <2>2 DEF Waiting, DeliveryInv, TypeOK, AgentRecord, BatchFresh, PollSend, queue
<1> QED
  BY <1>1, <1>2, <1>3, <1>4, <1>5, <1>6 DEF DeliveryInv

(* The SELECT takes pending commands of the agent: none has run, whoever   *)
(* awaits the poll.                                                        *)
LEMMA PollSelectStep ==
    ASSUME DeliveryInv, NEW p \in Polls, NEW page \in SUBSET Commands,
           PollSelect(p, page)
    PROVE  DeliveryInv'
<1>1. TypeOK'
  <2>1. [poll[p] EXCEPT !.pc = "selected", !.page = page] \in PollRecord
    BY SelectedType DEF DeliveryInv, TypeOK
  <2>2. poll' = [poll EXCEPT ![p] = [poll[p] EXCEPT !.pc = "selected", !.page = page]]
    BY DEF PollSelect
  <2> QED
    BY <2>1, <2>2 DEF DeliveryInv, TypeOK, PollSelect, queue, host, engine
<1>2. ConfigsKnown'
  BY DEF DeliveryInv, ConfigsKnown, PollSelect, queue, engine
<1>3. WaitingFresh'
  BY DEF Waiting, DeliveryInv, WaitingFresh, PollSelect, queue
<1>4. PagesKnown'
  BY DEF Waiting, DeliveryInv, TypeOK, PagesKnown, PollSelect, queue, Pending
<1>5. AwaitedFresh'
  BY DEF Waiting, DeliveryInv, TypeOK, Row, AgentRecord, AwaitedFresh, WaitingFresh,
         PollSelect, queue, Pending
<1>6. BatchFresh'
  BY DEF Waiting, DeliveryInv, BatchFresh, PollSelect, queue
<1> QED
  BY <1>1, <1>2, <1>3, <1>4, <1>5, <1>6 DEF DeliveryInv

(* The UPDATE acknowledges the page. Pages of two overlapping polls may    *)
(* meet here; only the awaited one will be received.                       *)
LEMMA PollUpdateStep ==
    ASSUME DeliveryInv, NEW p \in Polls, PollUpdate(p)
    PROVE  DeliveryInv'
<1>1. TypeOK'
  <2>1. \A c \in Commands : [row[c] EXCEPT !.status = "acknowledged"] \in Row
    BY DEF DeliveryInv, TypeOK, Row
  <2>2. row' \in [Commands -> Row]
    BY <2>1 DEF DeliveryInv, TypeOK, PollUpdate
  <2>3. poll' \in [Polls -> PollRecord]
    BY DEF DeliveryInv, TypeOK, PollRecord, PollUpdate, Answered, IdlePoll
  <2> QED
    BY <2>1, <2>2, <2>3 DEF DeliveryInv, TypeOK, PollUpdate, host, engine
<1>2. ConfigsKnown'
  BY DEF DeliveryInv, ConfigsKnown, PollUpdate, engine
<1>3. WaitingFresh'
  BY DEF Waiting, DeliveryInv, WaitingFresh, PollUpdate
<1>4. PagesKnown'
  BY DEF Waiting, DeliveryInv, TypeOK, PollRecord, PagesKnown, PollUpdate, Answered,
         IdlePoll
<1>5. AwaitedFresh'
  BY DEF DeliveryInv, AwaitedFresh, PollUpdate, Answered, Awaited
<1>6. BatchFresh'
  BY DEF Waiting, DeliveryInv, TypeOK, AgentRecord, BatchFresh, PollUpdate
<1> QED
  BY <1>1, <1>2, <1>3, <1>4, <1>5, <1>6 DEF DeliveryInv

(* The awaited page becomes the batch, fresh by AwaitedFresh.              *)
LEMMA PollReceiveStep ==
    ASSUME DeliveryInv, NEW a \in Agents, PollReceive(a)
    PROVE  DeliveryInv'
<1>1. TypeOK'
  <2>1. agent' \in [Agents -> AgentRecord]
    BY DEF DeliveryInv, TypeOK, AgentRecord, PollReceive, IdleAgent, PollRecord,
           AwaitedFresh
  <2>2. poll' \in [Polls -> PollRecord]
    BY DEF DeliveryInv, TypeOK, PollRecord, PollReceive, IdlePoll
  <2> QED
    BY <2>1, <2>2 DEF DeliveryInv, TypeOK, PollReceive, queue, host, engine
<1>2. ConfigsKnown'
  BY DEF DeliveryInv, ConfigsKnown, PollReceive, queue, engine
<1>3. WaitingFresh'
  BY DEF Waiting, DeliveryInv, WaitingFresh, PollReceive, queue
<1>4. PagesKnown'
  BY DEF Waiting, DeliveryInv, PagesKnown, PollReceive, queue, IdlePoll
<1>5. AwaitedFresh'
  BY DEF DeliveryInv, TypeOK, AwaitedFresh, PollReceive, queue, IdleAgent
<1>6. BatchFresh'
  BY DEF Waiting, DeliveryInv, TypeOK, PollRecord, AgentRecord, BatchFresh, AwaitedFresh,
         PagesKnown, PollReceive, queue, IdleAgent
<1> QED
  BY <1>1, <1>2, <1>3, <1>4, <1>5, <1>6 DEF DeliveryInv

(* The agent stops awaiting: the page is received by nobody.               *)
LEMMA StopPollingStep ==
    ASSUME DeliveryInv, NEW a \in Agents, NEW lost \in BOOLEAN,
           faults' \in Nat, StopPolling(a, lost)
    PROVE  DeliveryInv'
<1>1. TypeOK'
  <2>1. agent' \in [Agents -> AgentRecord]
    BY DEF DeliveryInv, TypeOK, AgentRecord, StopPolling, IdleAgent
  <2>2. poll' \in [Polls -> PollRecord]
    BY DEF DeliveryInv, TypeOK, PollRecord, StopPolling, Abandoned, IdlePoll
  <2> QED
    BY <2>1, <2>2 DEF DeliveryInv, TypeOK, StopPolling, queue, host, engine
<1>2. ConfigsKnown'
  BY DEF DeliveryInv, ConfigsKnown, StopPolling, queue, engine
<1>3. WaitingFresh'
  BY DEF Waiting, DeliveryInv, WaitingFresh, StopPolling, queue
<1>4. PagesKnown'
  BY DEF Waiting, DeliveryInv, PagesKnown, StopPolling, queue, Abandoned, IdlePoll
<1>5. AwaitedFresh'
  BY DEF DeliveryInv, TypeOK, AwaitedFresh, StopPolling, queue, IdleAgent
<1>6. BatchFresh'
  BY DEF Waiting, DeliveryInv, BatchFresh, StopPolling, queue, IdleAgent
<1> QED
  BY <1>1, <1>2, <1>3, <1>4, <1>5, <1>6 DEF DeliveryInv

(* A command runs and leaves the batch: it was fresh, and no awaited page  *)
(* of another agent holds it.                                              *)
LEMMA PerformStep ==
    ASSUME DeliveryInv, NEW a \in Agents, NEW c \in Commands,
           NEW effect \in Effects(a, c) \cup Misfires(a, c),
           NEW arrives \in BOOLEAN, faults' \in Nat,
           Perform(a, c, effect, arrives)
    PROVE  DeliveryInv'
<1>1. TypeOK'
  BY BoundsAssumption, ValuesAssumption
     DEF DeliveryInv, TypeOK, Row, AgentRecord, ConfigsKnown, Perform
<1>2. ConfigsKnown'
  BY DEF DeliveryInv, ConfigsKnown, Perform, engine
<1>3. WaitingFresh'
  BY DEF Waiting, DeliveryInv, TypeOK, WaitingFresh, BatchFresh, Perform
<1>4. PagesKnown'
  BY DEF DeliveryInv, TypeOK, Row, PollRecord, AgentRecord, ReportRecord, PagesKnown,
         WaitingFresh, BatchFresh, Perform
<1>5. AwaitedFresh'
  BY ValuesAssumption
     DEF Waiting, DeliveryInv, TypeOK, Row, AgentRecord, ReportRecord, EditorRecord,
         AwaitedFresh, PagesKnown, WaitingFresh, BatchFresh, Perform
<1>6. BatchFresh'
  BY DEF DeliveryInv, TypeOK, Row, AgentRecord, EditorRecord, BatchFresh, AwaitedFresh,
         PagesKnown, WaitingFresh, Perform, engine
<1> QED
  BY <1>1, <1>2, <1>3, <1>4, <1>5, <1>6 DEF DeliveryInv

(* The server records a result: the command has run.                       *)
LEMMA RecordResultStep ==
    ASSUME DeliveryInv, NEW c \in Commands, RecordResult(c)
    PROVE  DeliveryInv'
<1>1. TypeOK'
  <2>1. \A v \in {"completed", "failed"} : [row[c] EXCEPT !.status = v] \in Row
    BY BoundsAssumption, ValuesAssumption DEF DeliveryInv, TypeOK, Row
  <2>2. row' \in [Commands -> Row]
    BY <2>1 DEF DeliveryInv, TypeOK, RecordResult
  <2>3. report' \in [Commands -> ReportRecord]
    BY <2>1, <2>2 DEF DeliveryInv, TypeOK, ReportRecord, RecordResult
  <2> QED
    BY <2>1, <2>2, <2>3 DEF DeliveryInv, TypeOK, RecordResult, host, engine
<1>2. ConfigsKnown'
  BY DEF DeliveryInv, ConfigsKnown, RecordResult, engine
<1>3. WaitingFresh'
  BY DEF Waiting, DeliveryInv, WaitingFresh, RecordResult
<1>4. PagesKnown'
  BY DEF Waiting, DeliveryInv, PagesKnown, RecordResult
<1>5. AwaitedFresh'
  BY DEF DeliveryInv, AwaitedFresh, RecordResult
<1>6. BatchFresh'
  BY DEF Waiting, DeliveryInv, BatchFresh, RecordResult
<1> QED
  BY <1>1, <1>2, <1>3, <1>4, <1>5, <1>6 DEF DeliveryInv

(* The isolation flag of the host follows the result.                      *)
LEMMA SyncIsolationStep ==
    ASSUME DeliveryInv, NEW c \in Commands, SyncIsolation(c)
    PROVE  DeliveryInv'
<1>1. TypeOK'
  <2>1. report' \in [Commands -> ReportRecord]
    BY DEF DeliveryInv, TypeOK, ReportRecord, SyncIsolation
  <2>2. isolation' \in [Agents -> {"normal", "isolated"}]
    BY DEF DeliveryInv, TypeOK, SyncIsolation
  <2> QED
    BY <2>1, <2>2 DEF DeliveryInv, TypeOK, SyncIsolation, queue, host, engine
<1>2. ConfigsKnown'
  BY DEF DeliveryInv, ConfigsKnown, SyncIsolation, queue, engine
<1>3. WaitingFresh'
  BY DEF Waiting, DeliveryInv, WaitingFresh, SyncIsolation, queue
<1>4. PagesKnown'
  BY DEF Waiting, DeliveryInv, PagesKnown, SyncIsolation, queue
<1>5. AwaitedFresh'
  BY DEF DeliveryInv, AwaitedFresh, SyncIsolation, queue
<1>6. BatchFresh'
  BY DEF Waiting, DeliveryInv, BatchFresh, SyncIsolation, queue
<1> QED
  BY <1>1, <1>2, <1>3, <1>4, <1>5, <1>6 DEF DeliveryInv

(* The poller continues with the rest of its batch.                        *)
LEMMA ReportAnsweredStep ==
    ASSUME DeliveryInv, NEW a \in Agents, ReportAnswered(a)
    PROVE  DeliveryInv'
<1>1. TypeOK'
  <2>1. AfterReport(a) \in AgentRecord
    BY AfterReportType DEF DeliveryInv
  <2> QED
    BY <2>1 DEF DeliveryInv, TypeOK, ReportAnswered, queue, host, engine
<1>2. ConfigsKnown'
  BY DEF DeliveryInv, ConfigsKnown, ReportAnswered, queue, engine
<1>3. WaitingFresh'
  BY DEF Waiting, DeliveryInv, WaitingFresh, ReportAnswered, queue
<1>4. PagesKnown'
  BY DEF Waiting, DeliveryInv, PagesKnown, ReportAnswered, queue
<1>5. AwaitedFresh'
  BY DEF DeliveryInv, AwaitedFresh, ReportAnswered, queue, AfterReport, IdleAgent
<1>6. BatchFresh'
  BY DEF Waiting, DeliveryInv, BatchFresh, ReportAnswered, queue, AfterReport, IdleAgent
<1> QED
  BY <1>1, <1>2, <1>3, <1>4, <1>5, <1>6 DEF DeliveryInv

(* The poller gives the report up and continues with its batch.            *)
LEMMA StopReportingStep ==
    ASSUME DeliveryInv, NEW a \in Agents, NEW lost \in BOOLEAN,
           faults' \in Nat, StopReporting(a, lost)
    PROVE  DeliveryInv'
<1>1. TypeOK'
  <2>1. AfterReport(a) \in AgentRecord
    BY AfterReportType DEF DeliveryInv
  <2>2. agent[a].at \in Commands
    BY DEF DeliveryInv, BatchFresh, StopReporting
  <2>3. LoseReport(agent[a].at, lost) \in [Commands -> ReportRecord]
    BY <2>2, LoseReportType DEF DeliveryInv
  <2> QED
    BY <2>1, <2>2, <2>3 DEF DeliveryInv, TypeOK, StopReporting, queue, host, engine
<1>2. ConfigsKnown'
  BY DEF DeliveryInv, ConfigsKnown, StopReporting, queue, engine
<1>3. WaitingFresh'
  BY DEF Waiting, DeliveryInv, WaitingFresh, StopReporting, queue, LoseReport
<1>4. PagesKnown'
  BY DEF Waiting, DeliveryInv, PagesKnown, StopReporting, queue
<1>5. AwaitedFresh'
  BY DEF DeliveryInv, AwaitedFresh, StopReporting, queue, AfterReport, IdleAgent
<1>6. BatchFresh'
  BY DEF Waiting, DeliveryInv, BatchFresh, StopReporting, queue, AfterReport, IdleAgent
<1> QED
  BY <1>1, <1>2, <1>3, <1>4, <1>5, <1>6 DEF DeliveryInv

(* A restart drops what the agent held; requests in flight may arrive.     *)
LEMMA RestartStep ==
    ASSUME DeliveryInv, NEW a \in Agents, NEW lost \in BOOLEAN,
           Restart(a, lost)
    PROVE  DeliveryInv'
<1>1. TypeOK'
  <2>1. agent' \in [Agents -> AgentRecord]
    BY DEF DeliveryInv, TypeOK, AgentRecord, IdleAgent, Restart
  <2>2. poll' \in [Polls -> PollRecord]
    BY DEF DeliveryInv, TypeOK, PollRecord, Restart, Abandoned, IdlePoll
  <2>3. agent[a].pc = "reporting" => LoseReport(agent[a].at, lost) \in [Commands -> ReportRecord]
    BY LoseReportType DEF DeliveryInv, BatchFresh
  <2>4. report' \in [Commands -> ReportRecord]
    BY <2>1, <2>2, <2>3 DEF DeliveryInv, TypeOK, Restart
  <2> QED
    BY <2>1, <2>2, <2>3, <2>4 DEF DeliveryInv, TypeOK, Restart, queue, host, engine, Fault
<1>2. ConfigsKnown'
  BY DEF DeliveryInv, ConfigsKnown, Restart, queue, engine
<1>3. WaitingFresh'
  BY DEF Waiting, DeliveryInv, WaitingFresh, Restart, queue, LoseReport
<1>4. PagesKnown'
  BY DEF Waiting, DeliveryInv, PagesKnown, Restart, queue, IdlePoll, Abandoned
<1>5. AwaitedFresh'
  BY DEF DeliveryInv, TypeOK, AwaitedFresh, Restart, queue, IdleAgent
<1>6. BatchFresh'
  BY DEF Waiting, DeliveryInv, BatchFresh, Restart, queue, IdleAgent
<1> QED
  BY <1>1, <1>2, <1>3, <1>4, <1>5, <1>6 DEF DeliveryInv

(* Initially nothing is queued and nothing is held.                        *)
LEMMA DeliveryInit == Init => DeliveryInv
<1> SUFFICES ASSUME Init
             PROVE  DeliveryInv
  OBVIOUS
<1>1. TypeOK
  <2>1. NoRow \in Row /\ IdleEditor \in EditorRecord
    BY DEF NoRow, Row, IdleEditor, EditorRecord
  <2>2. IdlePoll \in PollRecord /\ IdleAgent \in AgentRecord /\ NoReport \in ReportRecord
    BY DEF IdlePoll, PollRecord, IdleAgent, AgentRecord, NoReport, ReportRecord
  <2> QED
    BY <2>1, <2>2, BoundsAssumption DEF Init, TypeOK, Walls
<1>2. ConfigsKnown /\ WaitingFresh /\ PagesKnown
  BY DEF Init, ConfigsKnown, WaitingFresh, PagesKnown, NoRow, IdlePoll, NoReport, IdleEditor
<1>3. AwaitedFresh /\ BatchFresh
  BY DEF Init, AwaitedFresh, BatchFresh, IdleAgent
<1> QED
  BY <1>1, <1>2, <1>3 DEF DeliveryInv

(* A step that changes nothing.                                            *)
LEMMA DeliveryStutter == DeliveryInv /\ UNCHANGED vars => DeliveryInv'
  BY DEF DeliveryInv, TypeOK, ConfigsKnown, WaitingFresh, PagesKnown, AwaitedFresh,
         BatchFresh, Waiting, vars

(* Every step keeps the invariant.                                         *)
LEMMA DeliveryStep == DeliveryInv /\ [Next]_vars => DeliveryInv'
<1> SUFFICES ASSUME DeliveryInv, Next
             PROVE  DeliveryInv'
  BY DeliveryStutter
<1>1. CASE ConsoleStep
  BY <1>1, QueueStep, EditStartStep, AssignStartStep DEF ConsoleStep
<1>2. CASE \E e \in Editors : EditorStep(e)
  BY <1>2, EditWriteStep, AssignReadStep, PolicyCommitStep DEF EditorStep
<1>3. CASE \E p \in Polls : PollHandler(p)
  BY <1>3, PollSelectStep, PollUpdateStep DEF PollHandler
<1>4. CASE \E c \in Commands : ReportHandler(c)
  BY <1>4, RecordResultStep, SyncIsolationStep DEF ReportHandler
<1>5. ASSUME NEW a \in Agents, AgentStep(a)
      PROVE  DeliveryInv'
  <2>1. ASSUME NEW c \in Commands, Execute(a, c)
        PROVE  DeliveryInv'
    <3>1. faults' \in Nat
      BY <2>1 DEF Execute, DeliveryInv, TypeOK
    <3> QED
      BY <2>1, <3>1, PerformStep DEF Execute
  <2>2. ASSUME NEW lost \in BOOLEAN, PollUnanswered(a, lost) \/ ReportUnanswered(a)
        PROVE  DeliveryInv'
    <3>1. faults' \in Nat
      BY <2>2 DEF PollUnanswered, ReportUnanswered, DeliveryInv, TypeOK
    <3> QED
      BY <2>2, <3>1, StopPollingStep, StopReportingStep DEF PollUnanswered, ReportUnanswered
  <2> QED
    BY <1>5, <2>1, <2>2, PollSendStep, PollReceiveStep, ReportAnsweredStep DEF AgentStep
<1>6. ASSUME NEW a \in Agents, AgentFault(a)
      PROVE  DeliveryInv'
  <2>1. ASSUME NEW c \in Commands, ExecuteBadly(a, c)
        PROVE  DeliveryInv'
    <3>1. faults' \in Nat
      BY <2>1 DEF ExecuteBadly, Fault, DeliveryInv, TypeOK
    <3> QED
      BY <2>1, <3>1, PerformStep DEF ExecuteBadly
  <2>2. ASSUME NEW lost \in BOOLEAN, PollGiveUp(a, lost) \/ ReportGiveUp(a, lost)
        PROVE  DeliveryInv'
    <3>1. faults' \in Nat
      BY <2>2 DEF PollGiveUp, ReportGiveUp, Fault, DeliveryInv, TypeOK
    <3> QED
      BY <2>2, <3>1, StopPollingStep, StopReportingStep DEF PollGiveUp, ReportGiveUp
  <2> QED
    BY <1>6, <2>1, <2>2, RestartStep DEF AgentFault
<1> QED
  BY <1>1, <1>2, <1>3, <1>4, <1>5, <1>6 DEF Next

(* The strengthening holds in every reachable state.                       *)
THEOREM DeliveryInvariant == Spec => []DeliveryInv
  BY DeliveryInit, DeliveryStep, PTL DEF Spec

(* Every table, request and thread keeps its shape.                        *)
THEOREM CommandTypes == Spec => []TypeOK
<1>1. DeliveryInv => TypeOK
  BY DEF DeliveryInv
<1> QED
  BY <1>1, DeliveryInvariant, PTL

(* No command runs twice on its host, for any number of overlapping polls, *)
(* lost answers and agent restarts.                                        *)
THEOREM CommandsRunOnce == Spec => []AtMostOnce
<1>1. DeliveryInv => AtMostOnce
  BY DEF DeliveryInv, WaitingFresh, AtMostOnce
<1> QED
  BY <1>1, DeliveryInvariant, PTL

-----------------------------------------------------------------------------
(* The queue implements CommandLife: each step is one of its steps or      *)
(* changes nothing it sees.                                                *)

(* A step that touches no row, no execution count and no recorded result   *)
(* is a stutter of CommandLife.                                            *)
LEMMA LifeStutter ==
    ASSUME UNCHANGED queue, \A c \in Commands : Outcome(c)' = Outcome(c)
    PROVE  UNCHANGED Life!vars
  BY DEF queue, Life!vars, Phase

(* Inserting commands issues them.                                         *)
LEMMA LifeIssue ==
    ASSUME NEW S \in SUBSET Commands, \A c \in S : row[c].status = "none",
           \A c \in Commands : row'[c].status = IF c \in S THEN "pending" ELSE row[c].status,
           UNCHANGED <<executed, report>>
    PROVE  Life!Issue(S)
  BY DEF Life!Issue, Phase, Outcome

(* An insert by an operator issues one command.                            *)
LEMMA LifeQueue ==
    ASSUME DeliveryInv, NEW c \in Commands, NEW a \in Agents,
           NEW action \in Actions,
           Queue(c, a, action)
    PROVE  Life!Next
<1>1. /\ \A d \in {c} : row[d].status = "none"
      /\ \A d \in Commands : row'[d].status = IF d \in {c} THEN "pending" ELSE row[d].status
      /\ UNCHANGED <<executed, report>>
  BY DEF Queue, Unused, DeliveryInv, TypeOK
<1>2. Life!Issue({c})
  BY <1>1, LifeIssue
<1> QED
  BY <1>2 DEF Life!Next

(* A fan-out issues one command per target, or none.                       *)
LEMMA LifePolicyCommit ==
    ASSUME DeliveryInv, NEW e \in Editors,
           NEW id \in [editor[e].targets -> Unused],
           PolicyCommit(e, id)
    PROVE  Life!Next
<1> DEFINE S == {c \in Commands : \E a \in editor[e].targets : id[a] = c}
<1>1. \A c \in S : row[c].status = "none"
  BY DEF Unused
<1>2. \A c \in Commands : row'[c].status = IF c \in S THEN "pending" ELSE row[c].status
  BY DEF PolicyCommit, PolicyCommand
<1>3. UNCHANGED <<executed, report>>
  BY DEF PolicyCommit
<1>4. Life!Issue(S)
  BY <1>1, <1>2, <1>3, LifeIssue
<1> QED
  BY <1>4 DEF Life!Next

(* Marking a page acknowledged takes it, commands another poll has taken   *)
(* included.                                                               *)
LEMMA LifePollUpdate ==
    ASSUME DeliveryInv, NEW p \in Polls, PollUpdate(p)
    PROVE  Life!Next
<1>1. poll[p].page \in SUBSET Commands
  BY DEF DeliveryInv, TypeOK, PollRecord
<1>2. Life!Take(poll[p].page)
  BY <1>1 DEF PollUpdate, Life!Take, DeliveryInv, PagesKnown, Phase, Outcome
<1> QED
  BY <1>1, <1>2 DEF Life!Next

(* Running a command executes it, for the first time.                      *)
LEMMA LifePerform ==
    ASSUME DeliveryInv, NEW a \in Agents, NEW c \in Commands,
           NEW effect \in Effects(a, c) \cup Misfires(a, c), NEW arrives \in BOOLEAN,
           Perform(a, c, effect, arrives)
    PROVE  Life!Next
<1>1. executed[c] = 0 /\ ~Waiting(c) /\ report[c].pc = "none"
  BY DEF Perform, DeliveryInv, BatchFresh, WaitingFresh
<1>2. \A d \in Commands : Outcome(d)' = Outcome(d)
  BY <1>1 DEF Perform, Outcome
<1>3. Life!Run(c)
  BY <1>1, <1>2 DEF Perform, Life!Run, Phase, Waiting
<1> QED
  BY <1>3 DEF Life!Next

(* The first transaction of POST .../complete reports the command.         *)
LEMMA LifeRecordResult ==
    ASSUME DeliveryInv, NEW c \in Commands, RecordResult(c)
    PROVE  Life!Next
<1> DEFINE verdict == IF report[c].ok THEN "completed" ELSE "failed"
<1>1. executed[c] = 1
  BY DEF RecordResult, DeliveryInv, WaitingFresh
<1>2. row[c].status \notin {"none", "pending"}
  BY <1>1 DEF DeliveryInv, WaitingFresh, Waiting
<1>3. \A d \in Commands : Phase(d)' = Phase(d)
  BY <1>2 DEF RecordResult, Phase
<1>4. /\ Outcome(c) = "none"
      /\ \A d \in Commands : Outcome(d)' = IF d = c THEN verdict ELSE Outcome(d)
  BY DEF RecordResult, Outcome, DeliveryInv, TypeOK
<1>5. Life!Report(c, verdict)
  BY <1>1, <1>3, <1>4 DEF RecordResult, Life!Report
<1> QED
  BY <1>5 DEF Life!Next

(* A lost report was not recorded.                                         *)
LEMMA LostUnseen ==
    ASSUME DeliveryInv, NEW d \in Commands, NEW lost \in BOOLEAN,
           report' = LoseReport(d, lost)
    PROVE  \A c \in Commands : Outcome(c)' = Outcome(c)
  BY DEF LoseReport, Outcome

(* Giving a poll or a report up, or restarting, changes nothing it sees.    *)
LEMMA LifeAgentStops ==
    ASSUME DeliveryInv, NEW a \in Agents, NEW lost \in BOOLEAN,
           StopPolling(a, lost) \/ StopReporting(a, lost) \/ Restart(a, lost)
    PROVE  UNCHANGED Life!vars
<1>1. agent[a].pc = "reporting" => agent[a].at \in Commands
  BY DEF DeliveryInv, BatchFresh
<1>2. report' = report \/ (agent[a].pc = "reporting" /\ report' = LoseReport(agent[a].at, lost))
  BY DEF StopPolling, StopReporting, Restart
<1>3. \A c \in Commands : Outcome(c)' = Outcome(c)
  <2>1. CASE report' = report
    BY <2>1 DEF Outcome
  <2>2. CASE agent[a].pc = "reporting" /\ report' = LoseReport(agent[a].at, lost)
    BY <1>1, <2>2, LostUnseen
  <2> QED
    BY <1>2, <2>1, <2>2
<1>4. UNCHANGED queue
  BY DEF StopPolling, StopReporting, Restart
<1> QED
  BY <1>3, <1>4, LifeStutter

(* Every step maps to a step or a stutter.                                 *)
LEMMA LifeStep == DeliveryInv /\ [Next]_vars => [Life!Next]_(Life!vars)
<1> SUFFICES ASSUME DeliveryInv, [Next]_vars
             PROVE  Life!Next \/ UNCHANGED Life!vars
  OBVIOUS
<1>0. ASSUME UNCHANGED <<queue, report>>
      PROVE  UNCHANGED Life!vars
  BY <1>0, LifeStutter DEF Outcome
<1>1. CASE ConsoleStep
  <2>1. ASSUME NEW e \in Editors, NEW config \in Configs, EditStart(e, config)
        PROVE  UNCHANGED <<queue, report>>
    BY <2>1 DEF EditStart
  <2>2. ASSUME NEW e \in Editors, NEW targets \in SUBSET Agents, AssignStart(e, targets)
        PROVE  UNCHANGED <<queue, report>>
    BY <2>2 DEF AssignStart
  <2> QED
    BY <1>0, <1>1, <2>1, <2>2, LifeQueue DEF ConsoleStep
<1>2. ASSUME NEW e \in Editors, EditorStep(e)
      PROVE  Life!Next \/ UNCHANGED Life!vars
  <2>1. ASSUME EditWrite(e) \/ AssignRead(e)
        PROVE  UNCHANGED <<queue, report>>
    BY <2>1 DEF EditWrite, AssignRead
  <2> QED
    BY <1>0, <1>2, <2>1, LifePolicyCommit DEF EditorStep
<1>3. ASSUME NEW p \in Polls, PollHandler(p)
      PROVE  Life!Next \/ UNCHANGED Life!vars
  <2>1. ASSUME NEW page \in SUBSET Commands, PollSelect(p, page)
        PROVE  UNCHANGED <<queue, report>>
    BY <2>1 DEF PollSelect
  <2> QED
    BY <1>0, <1>3, <2>1, LifePollUpdate DEF PollHandler
<1>4. ASSUME NEW c \in Commands, ReportHandler(c)
      PROVE  Life!Next \/ UNCHANGED Life!vars
  <2>1. CASE SyncIsolation(c)
    <3>1. \A d \in Commands : Outcome(d)' = Outcome(d)
      BY <2>1 DEF SyncIsolation, Outcome
    <3>2. UNCHANGED queue
      BY <2>1 DEF SyncIsolation
    <3> QED
      BY <3>1, <3>2, LifeStutter
  <2> QED
    BY <1>4, <2>1, LifeRecordResult DEF ReportHandler
<1>5. ASSUME NEW a \in Agents, AgentStep(a)
      PROVE  Life!Next \/ UNCHANGED Life!vars
  <2>1. ASSUME NEW p \in Polls, PollSend(a, p)
        PROVE  UNCHANGED <<queue, report>>
    BY <2>1 DEF PollSend
  <2>2. ASSUME PollReceive(a) \/ ReportAnswered(a)
        PROVE  UNCHANGED <<queue, report>>
    BY <2>2 DEF PollReceive, ReportAnswered
  <2>3. ASSUME NEW c \in Commands, Execute(a, c)
        PROVE  Life!Next
    BY <2>3, LifePerform DEF Execute
  <2> QED
    BY <1>0, <1>5, <2>1, <2>2, <2>3, LifeAgentStops
       DEF AgentStep, PollUnanswered, ReportUnanswered
<1>6. ASSUME NEW a \in Agents, AgentFault(a)
      PROVE  Life!Next \/ UNCHANGED Life!vars
  <2>1. ASSUME NEW c \in Commands, ExecuteBadly(a, c)
        PROVE  Life!Next
    BY <2>1, LifePerform DEF ExecuteBadly
  <2> QED
    BY <1>6, <2>1, LifeAgentStops DEF AgentFault, PollGiveUp, ReportGiveUp
<1>7. CASE UNCHANGED vars
  BY <1>0, <1>7 DEF vars, queue
<1> QED
  BY <1>1, <1>2, <1>3, <1>4, <1>5, <1>6, <1>7 DEF Next

(* The initial states map to initial states.                               *)
LEMMA LifeInit == Init => Life!Init
  BY DEF Init, Life!Init, Phase, Outcome, NoRow, NoReport

(* The table, the polls, the agents and their failures together implement  *)
(* the life of a command: taken before it runs, run at most once, reported *)
(* at most once and only after it ran.                                     *)
THEOREM QueueImplementsLife == Spec => LifeSpec
  BY LifeInit, LifeStep, DeliveryInvariant, PTL DEF Spec, LifeSpec, Life!Spec

-----------------------------------------------------------------------------
(* While nothing fails, isolation_state follows the firewall.              *)

InSync(a) ==
    /\ wall[a] = "open" => isolation[a] = "normal"
    /\ wall[a] = "isolated" => isolation[a] = "isolated"

(* A report that arrived and is not answered yet.                          *)
Underway(c) == report[c].pc \in {"sent", "recorded"}
Reports(a, c) == agent[a].pc = "reporting" /\ agent[a].at = c

(* What SyncIsolation will write agrees with the firewall.                 *)
SyncAgrees(a, c) ==
    /\ row[c].action = "ISOLATE" => wall[a] # "open"
    /\ row[c].action = "UNISOLATE" => wall[a] # "isolated"

(* The host waits for the answer to its report, so a handler still to sync *)
(* is that of the last command, and the firewall is as that command left   *)
(* it.  A host that is cut off goes on without the answer, but only when   *)
(* the report never arrived or its handler has ended.                      *)
ReportsTell ==
    \A a \in Agents, c \in Commands :
        /\ Reports(a, c) => row[c].agent = a
        /\ Underway(c) /\ row[c].agent = a => Reports(a, c)
        /\ Reports(a, c) /\ Underway(c) /\ Synced(c) => SyncAgrees(a, c)

OtherwiseInSync ==
    \A a \in Agents :
        (\A c \in Commands : Reports(a, c) => ~(Underway(c) /\ Synced(c))) => InSync(a)

SyncInv == DeliveryInv /\ (faults = 0 => ReportsTell /\ OtherwiseInSync)

(* Rows are written once; later only their status changes.                 *)
RowsStay ==
    \A c \in Commands : row[c].status # "none" =>
        /\ row'[c].agent = row[c].agent /\ row'[c].action = row[c].action
        /\ row'[c].config = row[c].config /\ row'[c].issued = row[c].issued
        /\ row'[c].status # "none"

(* New rows take unused ids.                                               *)
LEMMA InsertsStay ==
    ASSUME DeliveryInv,
           \/ \E c \in Commands, a \in Agents, action \in Actions : Queue(c, a, action)
           \/ \E e \in Editors : \E id \in [editor[e].targets -> Unused] : PolicyCommit(e, id)
    PROVE  RowsStay
<1>1. ASSUME NEW c \in Commands, NEW a \in Agents, NEW action \in Actions, Queue(c, a, action)
      PROVE  RowsStay
  BY <1>1 DEF Queue, Unused, RowsStay, DeliveryInv, TypeOK
<1>2. ASSUME NEW e \in Editors, NEW id \in [editor[e].targets -> Unused], PolicyCommit(e, id)
      PROVE  RowsStay
  BY <1>2 DEF PolicyCommit, Unused, RowsStay
<1> QED
  BY <1>1, <1>2

(* The handlers of polls and reports change the status alone.              *)
LEMMA StatusStay ==
    ASSUME DeliveryInv,
           \/ \E p \in Polls : PollUpdate(p)
           \/ \E c \in Commands : RecordResult(c)
    PROVE  RowsStay
<1>1. row \in [Commands -> Row]
  BY DEF DeliveryInv, TypeOK
<1>2. ASSUME NEW p \in Polls, PollUpdate(p)
      PROVE  RowsStay
  BY <1>1, <1>2 DEF PollUpdate, RowsStay, Row
<1>3. ASSUME NEW c \in Commands, RecordResult(c)
      PROVE  RowsStay
  BY <1>1, <1>3 DEF RecordResult, RowsStay, Row
<1> QED
  BY <1>2, <1>3

(* What a report tells of is a command that ran.                           *)
LEMMA ToldRan ==
    ASSUME DeliveryInv, NEW a \in Agents, NEW c \in Commands, Reports(a, c) \/ Underway(c)
    PROVE  executed[c] = 1 /\ row[c].status # "none"
  BY DEF DeliveryInv, Reports, Underway, BatchFresh, WaitingFresh, Waiting

SameReports ==
    \A a \in Agents, c \in Commands : Reports(a, c)' <=> Reports(a, c)

(* Steps that neither run a command nor end a report.                      *)
LEMMA SyncRests ==
    ASSUME SyncInv, DeliveryInv', RowsStay, UNCHANGED <<wall, isolation, faults>>, SameReports,
           \A c \in Commands : (Underway(c)' <=> Underway(c)) /\ report'[c].ok = report[c].ok
    PROVE  SyncInv'
<1> SUFFICES ASSUME faults = 0
             PROVE  ReportsTell' /\ OtherwiseInSync'
  BY DEF SyncInv
<1>1. ReportsTell /\ OtherwiseInSync /\ DeliveryInv
  BY DEF SyncInv
<1>3. ASSUME NEW a \in Agents, NEW c \in Commands, Reports(a, c) \/ Underway(c)
      PROVE  /\ row'[c].agent = row[c].agent
             /\ Synced(c)' <=> Synced(c)
             /\ SyncAgrees(a, c)' <=> SyncAgrees(a, c)
  <2>1. row'[c].agent = row[c].agent /\ row'[c].action = row[c].action
    BY <1>1, <1>3, ToldRan DEF RowsStay
  <2> QED
    BY <2>1 DEF Synced, SyncAgrees
<1>4. ReportsTell'
  BY <1>1, <1>3 DEF ReportsTell, SameReports
<1>5. OtherwiseInSync'
  BY <1>1, <1>3 DEF OtherwiseInSync, SameReports, InSync
<1> QED
  BY <1>4, <1>5

(* A command that runs: the report it sends, if any, tells of it.          *)
LEMMA SyncPerform ==
    ASSUME SyncInv, DeliveryInv', NEW a \in Agents, NEW c \in Commands,
           NEW effect \in Effects(a, c), NEW arrives \in BOOLEAN,
           Perform(a, c, effect, arrives), UNCHANGED faults
    PROVE  SyncInv'
<1> SUFFICES ASSUME faults = 0
             PROVE  ReportsTell' /\ OtherwiseInSync'
  BY DEF SyncInv
<1>1. ReportsTell /\ OtherwiseInSync /\ DeliveryInv
  BY DEF SyncInv
<1>2. /\ agent[a].pc = "executing" /\ row[c].agent = a /\ executed[c] = 0
      /\ ~Underway(c)
  BY <1>1 DEF Perform, DeliveryInv, BatchFresh, WaitingFresh, Underway
<1>3. /\ row' = row /\ isolation' = isolation
      /\ \A b \in Agents : wall'[b] = IF b = a THEN effect.wall ELSE wall[b]
      /\ \A d \in Commands : Reports(a, d)' <=> d = c
      /\ \A b \in Agents, d \in Commands : b # a => (Reports(b, d)' <=> Reports(b, d))
      /\ \A d \in Commands : ~Reports(a, d)
  BY <1>1, <1>2 DEF Perform, Reports, DeliveryInv, TypeOK, AgentRecord
<1>4. /\ \A d \in Commands : d # c => report'[d] = report[d]
      /\ Underway(c)' => arrives /\ report'[c].ok = effect.ok
  BY <1>1, <1>2 DEF Perform, Underway, DeliveryInv, TypeOK
<1>5. \A d \in Commands : d # c =>
         (Underway(d)' <=> Underway(d)) /\ (Synced(d)' <=> Synced(d))
  BY <1>3, <1>4 DEF Underway, Synced
<1>6. InSync(a)
  BY <1>1, <1>3 DEF OtherwiseInSync
<1>7. \/ effect.wall = wall[a] /\ ~(effect.ok /\ row[c].action \in {"ISOLATE", "UNISOLATE"})
      \/ effect.ok /\ row[c].action = "ISOLATE" /\ effect.wall \in {"isolated", "cut"}
      \/ effect.ok /\ row[c].action = "UNISOLATE" /\ effect.wall = "open"
  BY DEF Effects, Effect, Isolated
<1>8. Underway(c)' /\ Synced(c)' => SyncAgrees(a, c)'
  BY <1>3, <1>4, <1>7 DEF Synced, SyncAgrees
<1>9. ~(Underway(c)' /\ Synced(c)') => InSync(a)'
  <2>1. CASE ~arrives
    <3>1. effect.wall = "cut"
      BY <2>1 DEF Perform
    <3> QED
      BY <1>3, <3>1 DEF InSync
  <2>2. CASE arrives
    <3>1. Underway(c)' /\ report'[c].ok = effect.ok
      BY <1>1, <2>2 DEF Perform, Underway, DeliveryInv, TypeOK
    <3>2. CASE effect.ok /\ row[c].action \in {"ISOLATE", "UNISOLATE"}
      BY <1>3, <3>1, <3>2 DEF Synced
    <3>3. CASE ~(effect.ok /\ row[c].action \in {"ISOLATE", "UNISOLATE"})
      BY <1>3, <1>6, <1>7, <3>3 DEF InSync
    <3> QED
      BY <3>2, <3>3
  <2> QED
    BY <2>1, <2>2
<1>10. ReportsTell'
  <2> SUFFICES ASSUME NEW b \in Agents, NEW d \in Commands
               PROVE  /\ Reports(b, d)' => row'[d].agent = b
                      /\ Underway(d)' /\ row'[d].agent = b => Reports(b, d)'
                      /\ Reports(b, d)' /\ Underway(d)' /\ Synced(d)' => SyncAgrees(b, d)'
    BY DEF ReportsTell
  <2>1. CASE d = c
    BY <1>1, <1>2, <1>3, <1>8, <2>1 DEF ReportsTell
  <2>2. /\ Reports(b, d) => row[d].agent = b
        /\ Underway(d) /\ row[d].agent = b => Reports(b, d)
        /\ Reports(b, d) /\ Underway(d) /\ Synced(d) => SyncAgrees(b, d)
    BY <1>1 DEF ReportsTell
  <2>3. row'[d].agent = row[d].agent
    BY <1>3
  <2>4. CASE d # c /\ b = a
    <3>1. ~Reports(b, d) /\ ~Reports(b, d)' /\ (Underway(d)' <=> Underway(d))
      BY <1>3, <1>5, <2>4
    <3> QED
      BY <2>2, <2>3, <3>1
  <2>5. CASE d # c /\ b # a
    <3>1. SyncAgrees(b, d)' <=> SyncAgrees(b, d)
      BY <1>3, <2>5 DEF SyncAgrees
    <3>2. /\ Reports(b, d)' <=> Reports(b, d)
          /\ Underway(d)' <=> Underway(d)
          /\ Synced(d)' <=> Synced(d)
      BY <1>3, <1>5, <2>5
    <3> QED
      BY <2>2, <2>3, <3>1, <3>2
  <2> QED
    BY <2>1, <2>4, <2>5
<1>11. OtherwiseInSync'
  <2> SUFFICES ASSUME NEW b \in Agents,
                      \A d \in Commands : Reports(b, d)' => ~(Underway(d)' /\ Synced(d)')
               PROVE  InSync(b)'
    BY DEF OtherwiseInSync
  <2>1. CASE b = a
    BY <1>3, <1>9, <2>1
  <2>2. CASE b # a
    <3>1. \A d \in Commands : Reports(b, d) => d # c
      BY <1>1, <1>2, <2>2 DEF ReportsTell
    <3>2. InSync(b)
      BY <1>1, <1>3, <1>5, <2>2, <3>1 DEF OtherwiseInSync
    <3> QED
      BY <1>3, <2>2, <3>2 DEF InSync
  <2> QED
    BY <2>1, <2>2
<1> QED
  BY <1>10, <1>11

(* The host goes on after a report nobody handles any more.                *)
LEMMA SyncReportEnds ==
    ASSUME SyncInv, DeliveryInv', NEW a \in Agents, agent[a].pc = "reporting",
           ~Underway(agent[a].at), agent' = [agent EXCEPT ![a] = AfterReport(a)],
           UNCHANGED <<row, report, wall, isolation, faults>>
    PROVE  SyncInv'
<1> SUFFICES ASSUME faults = 0
             PROVE  ReportsTell' /\ OtherwiseInSync'
  BY DEF SyncInv
<1>1. ReportsTell /\ OtherwiseInSync /\ DeliveryInv
  BY DEF SyncInv
<1>2. AfterReport(a).pc # "reporting"
  BY <1>1 DEF AfterReport, IdleAgent, DeliveryInv, TypeOK, AgentRecord
<1>3. \A b \in Agents, c \in Commands :
         Reports(b, c)' <=> b # a /\ Reports(b, c)
  BY <1>1, <1>2 DEF Reports, DeliveryInv, TypeOK
<1>4. \A c \in Commands :
         /\ Underway(c)' <=> Underway(c)
         /\ Synced(c)' <=> Synced(c)
         /\ Reports(a, c) => ~Underway(c)
  BY DEF Underway, Synced, Reports
<1>5. ReportsTell'
  BY <1>1, <1>3, <1>4 DEF ReportsTell, SyncAgrees
<1>6. OtherwiseInSync'
  BY <1>1, <1>3, <1>4 DEF OtherwiseInSync, InSync
<1> QED
  BY <1>5, <1>6

(* The handler of a report writes what the firewall of its host is.        *)
LEMMA SyncHandled ==
    ASSUME SyncInv, DeliveryInv', NEW c \in Commands, SyncIsolation(c)
    PROVE  SyncInv'
<1> SUFFICES ASSUME faults = 0
             PROVE  ReportsTell' /\ OtherwiseInSync'
  BY DEF SyncInv, SyncIsolation
<1>1. ReportsTell /\ OtherwiseInSync /\ DeliveryInv
  BY DEF SyncInv
<1>2. /\ Underway(c) /\ ~Underway(c)'
      /\ \A d \in Commands : d # c => (Underway(d)' <=> Underway(d)) /\ (Synced(d)' <=> Synced(d))
      /\ \A b \in Agents, d \in Commands : Reports(b, d)' <=> Reports(b, d)
      /\ row' = row /\ wall' = wall
  BY <1>1 DEF SyncIsolation, Underway, Synced, Reports, DeliveryInv, TypeOK, queue, host
<1>3. ReportsTell'
  BY <1>1, <1>2 DEF ReportsTell, SyncAgrees
<1>4. ASSUME NEW b \in Agents,
             \A d \in Commands : Reports(b, d)' => ~(Underway(d)' /\ Synced(d)')
      PROVE  InSync(b)'
  <2>1. CASE row[c].agent = b /\ Synced(c)
    <3>1. SyncAgrees(b, c)
      BY <1>1, <1>2, <2>1 DEF ReportsTell
    <3>2. isolation'[b] = IF row[c].action = "ISOLATE" THEN "isolated" ELSE "normal"
      BY <1>1, <2>1 DEF SyncIsolation, DeliveryInv, TypeOK
    <3> QED
      BY <1>2, <2>1, <3>1, <3>2 DEF SyncAgrees, InSync, Synced
  <2>2. CASE ~(row[c].agent = b /\ Synced(c))
    <3>1. isolation'[b] = isolation[b]
      BY <1>1, <2>2 DEF SyncIsolation, DeliveryInv, TypeOK
    <3>2. InSync(b)
      BY <1>1, <1>2, <1>4, <2>2 DEF OtherwiseInSync, ReportsTell
    <3> QED
      BY <1>2, <3>1, <3>2 DEF InSync
  <2> QED
    BY <2>1, <2>2
<1> QED
  BY <1>3, <1>4 DEF OtherwiseInSync

(* A fault ends what is promised of runs without one.                      *)
LEMMA FaultCounted == DeliveryInv /\ Fault => faults' # 0
  BY DEF DeliveryInv, TypeOK, Fault

(* Every step keeps what reports and firewalls say of each other.          *)
LEMMA SyncStep == SyncInv /\ [Next]_vars => SyncInv'
<1> SUFFICES ASSUME SyncInv, [Next]_vars
             PROVE  SyncInv'
  OBVIOUS
<1>1. DeliveryInv /\ DeliveryInv'
  BY DeliveryStep DEF SyncInv
<1>2. ASSUME UNCHANGED <<row, report, wall, isolation, faults>>, SameReports
      PROVE  SyncInv'
  BY <1>1, <1>2, SyncRests DEF RowsStay, Underway
<1>3. ASSUME faults' # 0
      PROVE  SyncInv'
  BY <1>1, <1>3 DEF SyncInv
<1>4. CASE UNCHANGED vars
  BY <1>2, <1>4 DEF vars, SameReports, Reports
<1>5. ASSUME NEW c \in Commands, NEW a \in Agents, NEW action \in Actions, Queue(c, a, action)
      PROVE  SyncInv'
  <2>1. RowsStay
    BY <1>1, <1>5, InsertsStay
  <2> QED
    BY <1>1, <1>5, <2>1, SyncRests DEF Queue, host, SameReports, Reports, Underway
<1>6. ASSUME NEW e \in Editors, NEW id \in [editor[e].targets -> Unused], PolicyCommit(e, id)
      PROVE  SyncInv'
  <2>1. RowsStay
    BY <1>1, <1>6, InsertsStay
  <2> QED
    BY <1>1, <1>6, <2>1, SyncRests DEF PolicyCommit, host, SameReports, Reports, Underway
<1>7. ASSUME NEW e \in Editors,
             \/ EditWrite(e) \/ AssignRead(e)
             \/ \E config \in Configs : EditStart(e, config)
             \/ \E targets \in SUBSET Agents : AssignStart(e, targets)
      PROVE  SyncInv'
  <2>1. UNCHANGED <<row, agent, report, wall, isolation, faults>>
    BY <1>7 DEF EditWrite, AssignRead, EditStart, AssignStart, queue, host
  <2> QED
    BY <1>2, <2>1 DEF SameReports, Reports
<1>8. ASSUME NEW p \in Polls, PollHandler(p)
      PROVE  SyncInv'
  <2>1. UNCHANGED <<agent, report, wall, isolation, faults>>
    BY <1>8 DEF PollHandler, PollUpdate, PollSelect, queue, host
  <2>2. RowsStay
    <3>1. CASE PollUpdate(p)
      BY <1>1, <3>1, StatusStay
    <3>2. ASSUME NEW page \in SUBSET Commands, PollSelect(p, page)
          PROVE  RowsStay
      BY <3>2 DEF PollSelect, queue, RowsStay
    <3> QED
      BY <1>8, <3>1, <3>2 DEF PollHandler
  <2> QED
    BY <1>1, <2>1, <2>2, SyncRests DEF SameReports, Reports, Underway
<1>9. ASSUME NEW c \in Commands, RecordResult(c)
      PROVE  SyncInv'
  <2>1. RowsStay
    BY <1>1, <1>9, StatusStay
  <2>2. \A d \in Commands : (Underway(d)' <=> Underway(d)) /\ report'[d].ok = report[d].ok
    BY <1>1, <1>9 DEF RecordResult, Underway, DeliveryInv, TypeOK, ReportRecord
  <2> QED
    BY <1>1, <1>9, <2>1, <2>2, SyncRests DEF RecordResult, host, SameReports, Reports
<1>10. ASSUME NEW a \in Agents,
              \/ \E p \in Polls : PollSend(a, p)
              \/ PollReceive(a)
              \/ \E lost \in BOOLEAN : PollUnanswered(a, lost)
       PROVE  SyncInv'
  <2>1. UNCHANGED <<row, report, wall, isolation, faults>>
    BY <1>10 DEF PollSend, PollReceive, PollUnanswered, StopPolling, queue, host
  <2>2. agent[a].pc # "reporting" /\ agent'[a].pc # "reporting"
        /\ \A b \in Agents : b # a => agent'[b] = agent[b]
    BY <1>1, <1>10 DEF PollSend, PollReceive, PollUnanswered, StopPolling, IdleAgent,
                       DeliveryInv, TypeOK, AgentRecord
  <2>3. SameReports
    BY <2>2 DEF SameReports, Reports
  <2> QED
    BY <1>2, <2>1, <2>3
<1>11. ASSUME NEW a \in Agents, ReportAnswered(a) \/ ReportUnanswered(a)
       PROVE  SyncInv'
  <2>1. /\ agent[a].pc = "reporting" /\ ~Underway(agent[a].at)
        /\ agent' = [agent EXCEPT ![a] = AfterReport(a)]
        /\ UNCHANGED <<row, report, wall, isolation, faults>>
    BY <1>11 DEF ReportAnswered, ReportUnanswered, StopReporting, LoseReport, Underway, queue, host
  <2> QED
    BY <1>1, <2>1, SyncReportEnds
<1>12. ASSUME NEW a \in Agents, AgentFault(a)
       PROVE  SyncInv'
  <2>1. Fault
    BY <1>12 DEF AgentFault, PollGiveUp, ReportGiveUp, Restart, ExecuteBadly
  <2> QED
    BY <1>1, <1>3, <2>1, FaultCounted
<1>13. ASSUME NEW a \in Agents, NEW c \in Commands, Execute(a, c)
       PROVE  SyncInv'
  BY <1>1, <1>13, SyncPerform DEF Execute
<1> QED
  BY <1>1, <1>4, <1>5, <1>6, <1>7, <1>8, <1>9, <1>10, <1>11, <1>12, <1>13, SyncHandled
     DEF Next, ConsoleStep, EditorStep, ReportHandler, AgentStep

(* As long as nothing fails on the way, what the console shows of a host   *)
(* at rest is its firewall, for any interleaving of polls, reports, edits  *)
(* and commands (Execute, SyncIsolation).                                  *)
THEOREM IsolationShown == Spec => []IsolationInSync
<1>1. Init => SyncInv
  <2> SUFFICES ASSUME Init
               PROVE  ReportsTell /\ OtherwiseInSync
    BY DeliveryInit DEF SyncInv
  <2>1. /\ \A a \in Agents : InSync(a) /\ agent[a].pc = "idle"
        /\ \A c \in Commands : ~Underway(c)
    BY DEF Init, Underway, InSync, IdleAgent, NoReport
  <2> QED
    BY <2>1 DEF ReportsTell, OtherwiseInSync, Reports
<1>2. SyncInv /\ [Next]_vars => SyncInv'
  BY SyncStep
<1>3. SyncInv => IsolationInSync
  <2> SUFFICES ASSUME SyncInv, faults = 0, NEW a \in Agents, Settled(a)
               PROVE  InSync(a)
    BY DEF IsolationInSync, InSync
  <2>1. \A c \in Commands : ~Reports(a, c)
    BY DEF Settled, Reports
  <2> QED
    BY <2>1 DEF SyncInv, OtherwiseInSync
<1> QED
  BY <1>1, <1>2, <1>3, PTL DEF Spec

-----------------------------------------------------------------------------
(* While nothing fails, the last policy command decided for an agent is    *)
(* the last one it executes.                                               *)

(* With two editors PolicyDelivered fails: an edit and an assignment do    *)
(* not see each other's rows, and commands are ordered by the start of     *)
(* their transactions, not by their commits.                               *)
OneEditor == \A e, f \in Editors : e = f

PolicyCommands(a) ==
    {c \in Commands : /\ row[c].status # "none" /\ row[c].agent = a
                      /\ row[c].action = "APPLY_POLICY"}
Due(a) == {c \in PolicyCommands(a) : executed[c] = 0}

(* Nothing this agent does opens its firewall any more.                    *)
Stuck(a) == Cut(a) /\ agent[a].batch = {}

(* What the agent has, or is being sent.                                   *)
Held(a) ==
    agent[a].batch \cup (IF agent[a].poll = None THEN {} ELSE poll[agent[a].poll].page)

(* The commands of one agent are ordered as they were decided, and an open *)
(* transaction knows the scope or the policy that is still the current one. *)
EditsOrdered ==
    /\ \A a \in Agents : \A c, d \in PolicyCommands(a) :
          row[c].issued = row[d].issued => c = d
    /\ \A a \in Agents : \A c \in PolicyCommands(a) :
          /\ row[c].issued < clock
          /\ \A e \in Editors : editor[e].pc # "idle" => row[c].issued < editor[e].issued
    /\ \A e \in Editors :
          /\ editor[e].pc # "idle" => editor[e].issued < clock
          /\ editor[e].pc = "ready" =>
                IF editor[e].kind = "edit" THEN editor[e].targets = assigned
                ELSE editor[e].config = policy

(* No poll is open that the agent has given up.                            *)
PollsAwaited ==
    \A a \in Agents, p \in Polls :
        ~Stuck(a) /\ poll[p].agent = a => agent[a].poll = p

(* A policy command still to run waits in the table, or is with its agent  *)
(* or in the answer the agent waits for.                                   *)
NothingLost ==
    \A a \in Agents : \A c \in Due(a) :
        ~Stuck(a) /\ row[c].status # "pending" =>
            \/ c \in agent[a].batch
            \/ /\ agent[a].poll # None
               /\ poll[agent[a].poll].pc = "answered"
               /\ c \in poll[agent[a].poll].page

(* Policy commands that wait are younger than those the agent has.         *)
OldestFirst ==
    \A a \in Agents : \A c \in Due(a) \cap Held(a), d \in Due(a) \ Held(a) :
        ~Stuck(a) => row[c].issued < row[d].issued

(* The last command of an agent carries the policy; with none left it has  *)
(* been applied.                                                           *)
Last(a, c) == c \in Due(a) /\ \A d \in Due(a) : row[d].issued <= row[c].issued
PolicyDue ==
    \A a \in assigned :
        ~Stuck(a) => /\ Due(a) = {} => applied[a] = policy
                     /\ \A c \in Commands : Last(a, c) => row[c].config = policy

Flow == PollsAwaited /\ NothingLost /\ OldestFirst /\ PolicyDue

(* PolicyDelivered speaks of agents at rest; this speaks of every command  *)
(* that is still to run.                                                   *)
PolicyInv == DeliveryInv /\ EditsOrdered /\ (faults = 0 => Flow)

(* No policy command is added and none changes but in its status.          *)
CommandsStay ==
    \A a \in Agents :
        /\ PolicyCommands(a)' = PolicyCommands(a)
        /\ \A c \in PolicyCommands(a) :
              row'[c].issued = row[c].issued /\ row'[c].config = row[c].config

(* Commands of people are no policy commands.                              *)
LEMMA QueueCommands ==
    ASSUME DeliveryInv, NEW c \in Commands, NEW a \in Agents, NEW action \in Actions,
           Queue(c, a, action)
    PROVE  /\ CommandsStay
           /\ \A b \in Agents : \A d \in PolicyCommands(b) : row'[d] = row[d]
<1>1. action # "APPLY_POLICY"
  BY ValuesAssumption
<1>2. /\ row[c].status = "none"
      /\ row'[c].action = action
      /\ \A d \in Commands : d # c => row'[d] = row[d]
  BY DEF Queue, Unused, DeliveryInv, TypeOK
<1>3. \A b \in Agents : PolicyCommands(b)' = PolicyCommands(b)
  BY <1>1, <1>2 DEF PolicyCommands
<1>4. \A b \in Agents : \A d \in PolicyCommands(b) : d # c
  BY <1>2 DEF PolicyCommands
<1> QED
  BY <1>2, <1>3, <1>4 DEF CommandsStay, PolicyCommands

(* Nor does an acknowledgement or a result change one.                     *)
LEMMA StatusCommands ==
    ASSUME DeliveryInv,
           \/ \E p \in Polls : PollUpdate(p)
           \/ \E c \in Commands : RecordResult(c)
    PROVE  CommandsStay
<1>1. RowsStay
  BY StatusStay
<1>2. \A c \in Commands : row[c].status = "none" => row'[c].status = "none"
  <2>1. ASSUME NEW p \in Polls, PollUpdate(p), NEW c \in Commands, row[c].status = "none"
        PROVE  row'[c].status = "none"
    <3>1. c \notin poll[p].page
      BY <2>1 DEF DeliveryInv, PagesKnown
    <3> QED
      BY <2>1, <3>1 DEF PollUpdate
  <2>2. ASSUME NEW d \in Commands, RecordResult(d), NEW c \in Commands, row[c].status = "none"
        PROVE  row'[c].status = "none"
    <3>1. c # d
      BY <2>2 DEF RecordResult, DeliveryInv, WaitingFresh, Waiting
    <3> QED
      BY <2>2, <3>1 DEF RecordResult, DeliveryInv, TypeOK
  <2> QED
    BY <2>1, <2>2
<1>3. \A a \in Agents : PolicyCommands(a)' = PolicyCommands(a)
  BY <1>1, <1>2 DEF RowsStay, PolicyCommands
<1> QED
  BY <1>1, <1>3 DEF RowsStay, CommandsStay, PolicyCommands

(* What the transaction of an edit or an assignment inserts.               *)
LEMMA CommitCommands ==
    ASSUME DeliveryInv, NEW e \in Editors, NEW id \in [editor[e].targets -> Unused],
           PolicyCommit(e, id)
    PROVE  /\ \A a \in editor[e].targets :
                 /\ row'[id[a]] = PolicyCommand(a, e)
                 /\ row[id[a]].status = "none" /\ executed[id[a]] = 0 /\ id[a] \in Commands
           /\ \A a \in Agents : PolicyCommands(a)' =
                 PolicyCommands(a) \cup (IF a \in editor[e].targets THEN {id[a]} ELSE {})
           /\ \A a \in Agents : \A c \in PolicyCommands(a) :
                 row'[c] = row[c] /\ \A b \in editor[e].targets : id[b] # c
<1>1. \A a \in editor[e].targets :
         row[id[a]].status = "none" /\ executed[id[a]] = 0 /\ id[a] \in Commands
  BY DEF Unused, DeliveryInv, WaitingFresh, Waiting
<1>2. ASSUME NEW a \in editor[e].targets
      PROVE  row'[id[a]] = PolicyCommand(a, e)
  <2>1. \A b \in editor[e].targets : id[b] = id[a] => b = a
    BY DEF PolicyCommit
  <2>2. (CHOOSE b \in editor[e].targets : id[b] = id[a]) = a
    BY <2>1
  <2> QED
    BY <1>1, <2>2 DEF PolicyCommit
<1>3. \A c \in Commands : (\A b \in editor[e].targets : id[b] # c) => row'[c] = row[c]
  BY DEF PolicyCommit
<1>4. \A a \in Agents : \A c \in PolicyCommands(a) :
         row'[c] = row[c] /\ \A b \in editor[e].targets : id[b] # c
  BY <1>1, <1>3 DEF PolicyCommands
<1>5. \A b \in editor[e].targets :
         /\ row'[id[b]].status = "pending" /\ row'[id[b]].agent = b
         /\ row'[id[b]].action = "APPLY_POLICY"
  <2> SUFFICES ASSUME NEW b \in editor[e].targets
               PROVE  /\ row'[id[b]].status = "pending" /\ row'[id[b]].agent = b
                      /\ row'[id[b]].action = "APPLY_POLICY"
    OBVIOUS
  <2>1. row'[id[b]] = PolicyCommand(b, e)
    BY <1>2
  <2> QED
    BY <2>1 DEF PolicyCommand
<1>6. ASSUME NEW a \in Agents, NEW c \in Commands
      PROVE  c \in PolicyCommands(a)' <=>
                c \in PolicyCommands(a) \/ (a \in editor[e].targets /\ c = id[a])
  <2>1. CASE \E b \in editor[e].targets : id[b] = c
    BY <1>1, <1>5, <2>1 DEF PolicyCommands
  <2>2. CASE \A b \in editor[e].targets : id[b] # c
    BY <1>3, <2>2 DEF PolicyCommands
  <2> QED
    BY <2>1, <2>2
<1>7. \A a \in Agents : PolicyCommands(a) \subseteq Commands /\ PolicyCommands(a)' \subseteq Commands
  BY DEF PolicyCommands
<1> QED
  BY <1>1, <1>2, <1>4, <1>6, <1>7

(* Steps that leave the policy and its transactions alone.                 *)
LEMMA EditsRest ==
    ASSUME EditsOrdered, CommandsStay, UNCHANGED <<editor, policy, assigned>>,
           clock \in Nat, clock' = clock \/ clock' = clock + 1, DeliveryInv
    PROVE  EditsOrdered'
<1>1. /\ \A c \in Commands : row[c].issued \in Nat
      /\ \A e \in Editors : editor[e].issued \in Nat
  BY DEF DeliveryInv, TypeOK, Row, EditorRecord
<1>2. \A a \in Agents : PolicyCommands(a) \subseteq Commands
  BY DEF PolicyCommands
<1> QED
  BY <1>1, <1>2 DEF EditsOrdered, CommandsStay

(* A transaction begins after every command decided so far.                *)
LEMMA EditsBegin ==
    ASSUME OneEditor, DeliveryInv, EditsOrdered, NEW e \in Editors,
           \/ \E config \in Configs : EditStart(e, config)
           \/ \E targets \in SUBSET Agents : AssignStart(e, targets)
    PROVE  EditsOrdered'
<1>1. /\ editor'[e].pc = "started" /\ editor'[e].issued = clock
      /\ clock' = clock + 1 /\ row' = row
  BY DEF EditStart, AssignStart, DeliveryInv, TypeOK, queue
<1>2. \A f \in Editors : f = e
  BY DEF OneEditor
<1>3. clock \in Nat /\ \A c \in Commands : row[c].issued \in Nat
  BY DEF DeliveryInv, TypeOK, Row
<1>4. \A a \in Agents :
         PolicyCommands(a)' = PolicyCommands(a) /\ PolicyCommands(a) \subseteq Commands
  BY <1>1 DEF PolicyCommands
<1>5. \A a \in Agents : \A c \in PolicyCommands(a) : row[c].issued < clock'
  BY <1>1, <1>3, <1>4 DEF EditsOrdered
<1> QED
  BY <1>1, <1>2, <1>3, <1>4, <1>5 DEF EditsOrdered

(* It reads the scope or the policy that is current.                       *)
LEMMA EditsRead ==
    ASSUME OneEditor, DeliveryInv, EditsOrdered, NEW e \in Editors,
           EditWrite(e) \/ AssignRead(e)
    PROVE  EditsOrdered'
<1>1. /\ editor[e].pc # "idle"
      /\ editor'[e].issued = editor[e].issued
      /\ editor'[e].kind = editor[e].kind
      /\ IF editor[e].kind = "edit" THEN editor'[e].targets = assigned
         ELSE editor'[e].config = policy
      /\ UNCHANGED <<clock, row, policy, assigned>>
  BY DEF EditWrite, AssignRead, Scope, DeliveryInv, TypeOK, EditorRecord, queue
<1>2. \A f \in Editors : f = e
  BY DEF OneEditor
<1>3. \A a \in Agents : PolicyCommands(a)' = PolicyCommands(a)
  BY <1>1 DEF PolicyCommands
<1> QED
  BY <1>1, <1>2, <1>3 DEF EditsOrdered

(* Its commands are the last of their agents.                              *)
LEMMA EditsCommit ==
    ASSUME OneEditor, DeliveryInv, EditsOrdered,
           NEW e \in Editors, NEW id \in [editor[e].targets -> Unused], PolicyCommit(e, id)
    PROVE  EditsOrdered'
<1>1. /\ editor[e].pc = "ready" /\ clock' = clock
      /\ \A f \in Editors : editor'[f].pc = "idle"
  BY DEF PolicyCommit, OneEditor, IdleEditor, DeliveryInv, TypeOK
<1>2. \A a \in editor[e].targets : row'[id[a]].issued = editor[e].issued
  <2> SUFFICES ASSUME NEW a \in editor[e].targets
               PROVE  row'[id[a]].issued = editor[e].issued
    OBVIOUS
  <2>1. row'[id[a]] = PolicyCommand(a, e)
    BY CommitCommands
  <2> QED
    BY <2>1 DEF PolicyCommand
<1>3. ASSUME NEW a \in Agents, NEW c \in PolicyCommands(a)'
      PROVE  \/ /\ c \in PolicyCommands(a) /\ row'[c].issued = row[c].issued
                /\ row[c].issued < clock /\ row[c].issued < editor[e].issued
             \/ /\ a \in editor[e].targets /\ c = id[a]
                /\ row'[c].issued = editor[e].issued
  BY <1>1, <1>2, CommitCommands DEF EditsOrdered
<1>4. /\ editor[e].issued < clock /\ editor[e].issued \in Nat
      /\ \A c \in Commands : row[c].issued \in Nat
  BY <1>1 DEF EditsOrdered, DeliveryInv, TypeOK, Row, EditorRecord
<1>5. ASSUME NEW a \in Agents, NEW c \in PolicyCommands(a)', NEW d \in PolicyCommands(a)',
             row'[c].issued = row'[d].issued
      PROVE  c = d
  <2>1. CASE c \in PolicyCommands(a) /\ d \in PolicyCommands(a)
    BY <1>3, <1>5, <2>1, CommitCommands DEF EditsOrdered
  <2>2. CASE c \notin PolicyCommands(a) /\ d \notin PolicyCommands(a)
    BY <1>3, <2>2
  <2>3. c \in Commands /\ d \in Commands
    BY DEF PolicyCommands
  <2> QED
    BY <1>3, <1>4, <1>5, <2>1, <2>2, <2>3
<1> QED
  BY <1>1, <1>3, <1>4, <1>5 DEF EditsOrdered

(* A host that is cut off and has nothing left to run stays so.            *)
StuckStays == \A a \in Agents : Stuck(a) => Stuck(a)'

(* Steps that touch neither polls, nor what agents hold, nor policies.     *)
LEMMA FlowRests ==
    ASSUME DeliveryInv, Flow, CommandsStay,
           UNCHANGED <<poll, executed, wall, applied, policy, assigned>>,
           \A a \in Agents : agent'[a].batch = agent[a].batch /\ agent'[a].poll = agent[a].poll,
           \A a \in Agents : \A c \in Due(a) : row'[c].status = row[c].status
    PROVE  Flow'
<1>1. \A a \in Agents :
         /\ Due(a)' = Due(a) /\ Held(a)' = Held(a) /\ (Stuck(a)' <=> Stuck(a))
         /\ Due(a) \subseteq PolicyCommands(a) /\ Due(a) \subseteq Commands
  BY DEF CommandsStay, Due, Held, Stuck, Cut, PolicyCommands
<1>2. \A a \in Agents : \A c \in Due(a) :
         row'[c].issued = row[c].issued /\ row'[c].config = row[c].config
  BY <1>1 DEF CommandsStay
<1>3. PollsAwaited'
  BY <1>1 DEF Flow, PollsAwaited
<1>4. NothingLost'
  BY <1>1 DEF Flow, NothingLost
<1>5. OldestFirst'
  BY <1>1, <1>2 DEF Flow, OldestFirst
<1>6. \A a \in Agents, c \in Commands : Last(a, c)' <=> Last(a, c)
  BY <1>1, <1>2 DEF Last
<1>7. PolicyDue'
  BY <1>1, <1>2, <1>6 DEF Flow, PolicyDue, Last, DeliveryInv, TypeOK
<1> QED
  BY <1>3, <1>4, <1>5, <1>7 DEF Flow

(* A poll is on its way.                                                   *)
LEMMA FlowPollSend ==
    ASSUME DeliveryInv, Flow, NEW a \in Agents, NEW p \in Polls, PollSend(a, p)
    PROVE  Flow'
<1>1. /\ agent[a].poll = None /\ agent'[a].poll = p /\ agent'[a].batch = agent[a].batch
      /\ \A b \in Agents : b # a => agent'[b] = agent[b]
      /\ poll'[p].page = {} /\ poll'[p].agent = a /\ poll'[p].pc = "sent"
      /\ \A q \in Polls : q # p => poll'[q] = poll[q]
      /\ \A b \in Agents : b # a => agent[b].poll # p
      /\ None \notin Polls
      /\ \A b \in Agents : agent[b].poll \in Polls \cup {None}
      /\ UNCHANGED <<row, executed, wall, applied, policy, assigned>>
  BY ValuesAssumption DEF PollSend, DeliveryInv, AwaitedFresh, TypeOK, AgentRecord, PollRecord,
     queue, host, engine
<1>2. \A b \in Agents : Held(b)' = Held(b) /\ (Stuck(b)' <=> Stuck(b))
  BY <1>1 DEF Held, Stuck, Cut
<1>3. \A b \in Agents : PolicyCommands(b)' = PolicyCommands(b) /\ Due(b)' = Due(b)
  BY <1>1 DEF Due, PolicyCommands
<1>4. PollsAwaited'
  BY <1>1, <1>2 DEF Flow, PollsAwaited
<1>5. NothingLost'
  <2> SUFFICES ASSUME NEW b \in Agents, NEW c \in Due(b), ~Stuck(b), row[c].status # "pending"
               PROVE  \/ c \in agent'[b].batch
                      \/ /\ agent'[b].poll # None
                         /\ poll'[agent'[b].poll].pc = "answered"
                         /\ c \in poll'[agent'[b].poll].page
    BY <1>1, <1>2, <1>3 DEF NothingLost
  <2> QED
    BY <1>1 DEF Flow, NothingLost
<1>6. OldestFirst'
  BY <1>1, <1>2, <1>3 DEF Flow, OldestFirst
<1>7. PolicyDue'
  BY <1>1, <1>2, <1>3 DEF Flow, PolicyDue, Last, DeliveryInv, TypeOK
<1> QED
  BY <1>4, <1>5, <1>6, <1>7 DEF Flow

(* The page of a poll is the oldest of what waits, and what waits is all   *)
(* that is due.                                                            *)
LEMMA FlowPollSelect ==
    ASSUME DeliveryInv, EditsOrdered, Flow, NEW p \in Polls, NEW page \in SUBSET Commands,
           PollSelect(p, page)
    PROVE  Flow'
<1>1. /\ poll[p].pc = "sent"
      /\ poll'[p].page = page /\ poll'[p].agent = poll[p].agent
      /\ \A q \in Polls : q # p => poll'[q] = poll[q]
      /\ None \notin Polls
      /\ \A b \in Agents : agent[b].poll \in Polls \cup {None}
      /\ UNCHANGED <<row, agent, executed, wall, applied, policy, assigned>>
  BY ValuesAssumption DEF PollSelect, DeliveryInv, TypeOK, AgentRecord, PollRecord,
     queue, host, engine
<1>2. \A b \in Agents : Stuck(b)' <=> Stuck(b)
  BY <1>1 DEF Stuck, Cut
<1>3. \A b \in Agents : PolicyCommands(b)' = PolicyCommands(b) /\ Due(b)' = Due(b)
  BY <1>1 DEF Due, PolicyCommands
<1>4. PollsAwaited'
  BY <1>1, <1>2 DEF Flow, PollsAwaited
<1>5. NothingLost'
  <2> SUFFICES ASSUME NEW b \in Agents, NEW c \in Due(b), ~Stuck(b), row[c].status # "pending"
               PROVE  \/ c \in agent[b].batch
                      \/ /\ agent[b].poll # None
                         /\ poll'[agent[b].poll].pc = "answered"
                         /\ c \in poll'[agent[b].poll].page
    BY <1>1, <1>2, <1>3 DEF NothingLost
  <2> QED
    BY <1>1 DEF Flow, NothingLost
<1>6. OldestFirst'
  <2> SUFFICES ASSUME NEW b \in Agents, ~Stuck(b),
                      NEW c \in Due(b), c \in Held(b)', NEW d \in Due(b), d \notin Held(b)'
               PROVE  row[c].issued < row[d].issued
    BY <1>1, <1>2, <1>3 DEF OldestFirst
  <2>1. CASE agent[b].poll # p
    <3>1. Held(b)' = Held(b)
      BY <1>1, <2>1 DEF Held
    <3> QED
      BY <3>1 DEF Flow, OldestFirst
  <2>2. CASE agent[b].poll = p
    <3>1. poll[p].agent = b /\ agent[b].batch = {}
      BY <1>1, <2>2 DEF DeliveryInv, AwaitedFresh, BatchFresh
    <3>2. Held(b)' = page
      BY <1>1, <2>2, <3>1 DEF Held
    <3>3. d \in Pending(b)
      BY <1>1, <2>2, <3>1 DEF Flow, NothingLost, Pending, Due, PolicyCommands
    <3>4. c \in page /\ d \in Pending(b) \ page
      BY <3>2, <3>3
    <3>5. row[c].issued <= row[d].issued
      BY <3>1, <3>4 DEF PollSelect, Oldest
    <3>6. row[c].issued # row[d].issued
      BY <3>4 DEF EditsOrdered, Due
    <3> QED
      <4>1. c \in Commands /\ d \in Commands
        BY DEF Due, PolicyCommands
      <4>2. row[c].issued \in Nat /\ row[d].issued \in Nat
        BY <4>1 DEF DeliveryInv, TypeOK, Row
      <4> QED
        BY <3>5, <3>6, <4>2
  <2> QED
    BY <2>1, <2>2
<1>7. PolicyDue'
  BY <1>1, <1>2, <1>3 DEF Flow, PolicyDue, Last, DeliveryInv, TypeOK
<1> QED
  BY <1>4, <1>5, <1>6, <1>7 DEF Flow

(* What is acknowledged is on its way to an agent that awaits it.          *)
LEMMA FlowPollUpdate ==
    ASSUME DeliveryInv, Flow, NEW p \in Polls, PollUpdate(p)
    PROVE  Flow'
<1>1. /\ poll[p].pc = "selected"
      /\ \A q \in Polls : q # p => poll'[q] = poll[q]
      /\ poll'[p] = Answered(p)
      /\ None \notin Polls /\ None \notin Agents
      /\ \A b \in Agents : agent[b].poll \in Polls \cup {None}
      /\ UNCHANGED <<agent, executed, wall, applied, policy, assigned>>
  BY ValuesAssumption DEF PollUpdate, DeliveryInv, TypeOK, AgentRecord, PollRecord, host, engine
<1>2. \A b \in Agents : agent[b].poll = p =>
         poll'[p].pc = "answered" /\ poll'[p].page = poll[p].page /\ poll'[p].agent = poll[p].agent
  BY <1>1 DEF Answered, Awaited, DeliveryInv, TypeOK, PollRecord
<1>3. poll'[p].agent = poll[p].agent \/ poll'[p].agent = None
  BY <1>1 DEF Answered, IdlePoll, DeliveryInv, TypeOK, PollRecord
<1>4. \A b \in Agents : Held(b)' = Held(b) /\ (Stuck(b)' <=> Stuck(b))
  BY <1>1, <1>2 DEF Held, Stuck, Cut
<1>5. CommandsStay
  BY StatusCommands
<1>6. \A b \in Agents :
         /\ Due(b)' = Due(b) /\ Due(b) \subseteq PolicyCommands(b) /\ Due(b) \subseteq Commands
  BY <1>1, <1>5 DEF CommandsStay, Due, PolicyCommands
<1>7. \A b \in Agents : \A c \in Due(b) :
         row'[c].issued = row[c].issued /\ row'[c].config = row[c].config
  BY <1>5, <1>6 DEF CommandsStay
<1>8. PollsAwaited'
  BY <1>1, <1>3, <1>4 DEF Flow, PollsAwaited
<1>9. NothingLost'
  <2> SUFFICES ASSUME NEW b \in Agents, NEW c \in Due(b), ~Stuck(b), row'[c].status # "pending"
               PROVE  \/ c \in agent[b].batch
                      \/ /\ agent[b].poll # None
                         /\ poll'[agent[b].poll].pc = "answered"
                         /\ c \in poll'[agent[b].poll].page
    BY <1>1, <1>4, <1>6 DEF NothingLost
  <2>1. CASE c \in poll[p].page
    <3>1. poll[p].agent = b
      BY <2>1 DEF DeliveryInv, PagesKnown, Due, PolicyCommands
    <3>2. agent[b].poll = p
      BY <3>1 DEF Flow, PollsAwaited
    <3> QED
      BY <1>1, <1>2, <2>1, <3>2
  <2>2. CASE c \notin poll[p].page
    <3>1. row[c].status # "pending"
      BY <1>6, <2>2 DEF PollUpdate
    <3>2. agent[b].poll # p \/ c \in agent[b].batch
      BY <1>1, <3>1 DEF Flow, NothingLost
    <3> QED
      BY <1>1, <3>1, <3>2 DEF Flow, NothingLost
  <2> QED
    BY <2>1, <2>2
<1>10. OldestFirst'
  BY <1>4, <1>6, <1>7 DEF Flow, OldestFirst
<1>11. \A a \in Agents, c \in Commands : Last(a, c)' <=> Last(a, c)
  BY <1>6, <1>7 DEF Last
<1>12. PolicyDue'
  BY <1>1, <1>4, <1>6, <1>7, <1>11 DEF Flow, PolicyDue, Last, DeliveryInv, TypeOK
<1> QED
  BY <1>8, <1>9, <1>10, <1>12 DEF Flow

(* The agent has the page it was sent.                                     *)
LEMMA FlowPollReceive ==
    ASSUME DeliveryInv, Flow, NEW a \in Agents, PollReceive(a)
    PROVE  Flow'
<1> DEFINE p == agent[a].poll
<1>1. /\ p \in Polls /\ poll[p].agent = a /\ agent[a].batch = {}
      /\ agent'[a].batch = poll[p].page /\ agent'[a].poll = None
      /\ poll[p].pc = "answered"
      /\ ~Cut(a)
  <2>1. /\ agent[a].pc = "polling" /\ poll[p].pc = "answered" /\ ~Cut(a)
        /\ agent' = [agent EXCEPT ![a] =
              IF poll[p].page = {} THEN IdleAgent
              ELSE [pc |-> "executing", poll |-> None, batch |-> poll[p].page, at |-> None]]
    BY DEF PollReceive
  <2>2. agent[a].poll # None /\ poll[p].agent = a /\ agent[a].batch = {}
    BY <2>1 DEF DeliveryInv, AwaitedFresh, BatchFresh
  <2>3. p \in Polls
    BY <2>2 DEF DeliveryInv, TypeOK, AgentRecord
  <2>4. agent'[a].batch = poll[p].page /\ agent'[a].poll = None
    BY <2>1 DEF IdleAgent, DeliveryInv, TypeOK
  <2> QED
    BY <2>1, <2>2, <2>3, <2>4
<1>2. /\ \A b \in Agents : b # a => agent'[b] = agent[b] /\ agent[b].poll # p
      /\ \A q \in Polls : q # p => poll'[q] = poll[q]
      /\ poll'[p].agent = None
      /\ None \notin Polls /\ None \notin Agents
      /\ \A b \in Agents : agent[b].poll \in Polls \cup {None}
      /\ UNCHANGED <<row, executed, wall, applied, policy, assigned>>
  BY <1>1, ValuesAssumption DEF PollReceive, IdlePoll, DeliveryInv, AwaitedFresh, TypeOK, AgentRecord,
     queue, host, engine
<1>3. \A b \in Agents : PolicyCommands(b)' = PolicyCommands(b) /\ Due(b)' = Due(b)
  BY <1>2 DEF Due, PolicyCommands
<1>4. \A b \in Agents : Held(b)' = Held(b)
  BY <1>1, <1>2 DEF Held
<1>5. \A b \in Agents : Stuck(b)' <=> Stuck(b)
  BY <1>1, <1>2 DEF Stuck, Cut
<1>6. PollsAwaited'
  BY <1>1, <1>2, <1>5 DEF Flow, PollsAwaited
<1>7. NothingLost'
  <2> SUFFICES ASSUME NEW b \in Agents, NEW c \in Due(b), ~Stuck(b), row[c].status # "pending"
               PROVE  \/ c \in agent'[b].batch
                      \/ /\ agent'[b].poll # None
                         /\ poll'[agent'[b].poll].pc = "answered"
                         /\ c \in poll'[agent'[b].poll].page
    BY <1>2, <1>3, <1>5 DEF NothingLost
  <2>1. \/ c \in agent[b].batch
        \/ /\ agent[b].poll # None
           /\ poll[agent[b].poll].pc = "answered"
           /\ c \in poll[agent[b].poll].page
    BY DEF Flow, NothingLost
  <2> QED
    BY <1>1, <1>2, <2>1
<1>8. OldestFirst'
  BY <1>2, <1>3, <1>4, <1>5 DEF Flow, OldestFirst
<1>9. PolicyDue'
  BY <1>2, <1>3, <1>5 DEF Flow, PolicyDue, Last, DeliveryInv, TypeOK
<1> QED
  BY <1>6, <1>7, <1>8, <1>9 DEF Flow

(* An agent executes its commands in the order they were decided.          *)
LEMMA FlowPerform ==
    ASSUME DeliveryInv, EditsOrdered, Flow, NEW a \in Agents, NEW c \in Commands,
           NEW effect \in Effects(a, c), NEW arrives \in BOOLEAN,
           Perform(a, c, effect, arrives)
    PROVE  Flow'
<1>1. /\ agent[a].pc = "executing" /\ c \in agent[a].batch
      /\ agent[a].poll = None
      /\ row[c].agent = a /\ executed[c] = 0 /\ row[c].status # "none"
      /\ \A d \in agent[a].batch : row[c].issued <= row[d].issued
  BY DEF Perform, DeliveryInv, AwaitedFresh, BatchFresh, Waiting
<1>2. /\ agent'[a].batch = agent[a].batch \ {c} /\ agent'[a].poll = None
      /\ \A b \in Agents : b # a =>
            agent'[b] = agent[b] /\ wall'[b] = wall[b] /\ applied'[b] = applied[b]
      /\ executed'[c] = 1
      /\ \A d \in Commands : d # c => executed'[d] = executed[d]
      /\ applied'[a] = effect.applied
      /\ UNCHANGED <<row, poll, policy, assigned>>
  BY <1>1 DEF Perform, DeliveryInv, TypeOK, AgentRecord, engine
<1>3. /\ \A b \in Agents : PolicyCommands(b)' = PolicyCommands(b)
      /\ \A b \in Agents : Due(b)' = Due(b) \ {c}
      /\ \A b \in Agents : b # a => c \notin Due(b)
      /\ c \in Due(a) <=> row[c].action = "APPLY_POLICY"
  BY <1>1, <1>2 DEF Due, PolicyCommands
<1>4. effect.applied = IF c \in Due(a) THEN row[c].config ELSE applied[a]
  BY <1>3 DEF Effects, Effect
<1>5. Held(a) = agent[a].batch /\ Held(a)' = agent[a].batch \ {c}
      /\ \A b \in Agents : b # a => Held(b)' = Held(b)
  BY <1>1, <1>2 DEF Held
<1>6. ~Stuck(a) /\ \A b \in Agents : b # a => (Stuck(b)' <=> Stuck(b))
  BY <1>1, <1>2 DEF Stuck, Cut
<1>7. \A b \in Agents : agent'[b].poll = agent[b].poll
  BY <1>1, <1>2
<1>8. PollsAwaited'
  BY <1>2, <1>6, <1>7 DEF Flow, PollsAwaited
<1>9. NothingLost'
  <2> SUFFICES ASSUME NEW b \in Agents, NEW d \in Due(b), d # c, ~Stuck(b),
                      row[d].status # "pending"
               PROVE  \/ d \in agent'[b].batch
                      \/ /\ agent[b].poll # None
                         /\ poll[agent[b].poll].pc = "answered"
                         /\ d \in poll[agent[b].poll].page
    BY <1>2, <1>3, <1>6, <1>7 DEF NothingLost
  <2> QED
    BY <1>1, <1>2 DEF Flow, NothingLost
<1>10. OldestFirst'
  <2> SUFFICES ASSUME NEW b \in Agents, ~Stuck(b),
                      NEW d \in Due(b), d \in Held(b)', d # c,
                      NEW f \in Due(b), f \notin Held(b)', f # c
               PROVE  row[d].issued < row[f].issued
    BY <1>2, <1>3, <1>6 DEF OldestFirst
  <2> QED
    BY <1>5 DEF Flow, OldestFirst
<1>11. PolicyDue'
  <2> SUFFICES ASSUME NEW b \in Agents, b \in assigned, ~Stuck(b)
               PROVE  /\ Due(b)' = {} => applied'[b] = policy
                      /\ \A d \in Commands : Last(b, d)' => row[d].config = policy
    BY <1>2, <1>6 DEF PolicyDue, DeliveryInv, TypeOK
  <2>1. /\ Due(b) = {} => applied[b] = policy
        /\ \A d \in Commands : Last(b, d) => row[d].config = policy
    BY DEF Flow, PolicyDue
  <2>2. CASE c \notin Due(b)
    <3>1. Due(b)' = Due(b)
      BY <1>3, <2>2
    <3>2. applied'[b] = applied[b]
      BY <1>2, <1>4, <2>2
    <3> QED
      BY <1>2, <2>1, <3>1, <3>2 DEF Last
  <2>3. CASE c \in Due(b)
    <3>1. b = a /\ applied'[b] = row[c].config
      BY <1>2, <1>3, <1>4, <2>3
    <3>2. \A d \in Due(b) : row[c].issued <= row[d].issued
      <4> SUFFICES ASSUME NEW d \in Due(b)
                   PROVE  row[c].issued <= row[d].issued
        OBVIOUS
      <4>1. CASE d \in agent[a].batch
        BY <1>1, <4>1
      <4>2. CASE d \notin agent[a].batch
        <5>1. row[c].issued < row[d].issued
          BY <1>1, <1>5, <1>6, <2>3, <3>1, <4>2 DEF Flow, OldestFirst
        <5>2. row[c].issued \in Nat /\ row[d].issued \in Nat
          BY DEF Due, PolicyCommands, DeliveryInv, TypeOK, Row
        <5> QED
          BY <5>1, <5>2
      <4> QED
        BY <4>1, <4>2
    <3>3. ASSUME Due(b)' = {}
          PROVE  applied'[b] = policy
      <4>1. Due(b) = {c}
        BY <1>3, <2>3, <3>3
      <4>2. row[c].issued \in Nat
        BY DEF DeliveryInv, TypeOK, Row
      <4>3. Last(b, c)
        BY <4>1, <4>2 DEF Last
      <4> QED
        BY <2>1, <3>1, <4>3
    <3>4. ASSUME NEW d \in Commands, Last(b, d)'
          PROVE  row[d].config = policy
      <4>1. d \in Due(b) /\ \A f \in Due(b) \ {c} : row[f].issued <= row[d].issued
        BY <1>2, <1>3, <3>4 DEF Last
      <4>2. Last(b, d)
        BY <3>2, <4>1 DEF Last
      <4> QED
        BY <2>1, <4>2
    <3> QED
      BY <3>3, <3>4
  <2> QED
    BY <2>2, <2>3
<1> QED
  BY <1>8, <1>9, <1>10, <1>11 DEF Flow

(* The new commands are the last of their agents and carry the policy.     *)
LEMMA FlowCommit ==
    ASSUME OneEditor, DeliveryInv, EditsOrdered, Flow,
           NEW e \in Editors, NEW id \in [editor[e].targets -> Unused], PolicyCommit(e, id)
    PROVE  Flow'
<1> DEFINE T == editor[e].targets
<1>1. /\ editor[e].pc = "ready"
      /\ UNCHANGED <<poll, agent, executed, wall, applied>>
  BY DEF PolicyCommit, host
<1>2. /\ \A a \in T : /\ row'[id[a]] = PolicyCommand(a, e)
                      /\ row[id[a]].status = "none" /\ executed[id[a]] = 0
                      /\ id[a] \in Commands
      /\ \A a \in Agents : PolicyCommands(a)' =
            PolicyCommands(a) \cup (IF a \in T THEN {id[a]} ELSE {})
      /\ \A a \in Agents : \A c \in PolicyCommands(a) :
            row'[c] = row[c] /\ \A b \in T : id[b] # c
  BY CommitCommands
<1>3. \A a \in T : /\ row'[id[a]].status = "pending"
                   /\ row'[id[a]].config = editor[e].config
                   /\ row'[id[a]].issued = editor[e].issued
  <2> SUFFICES ASSUME NEW a \in T
               PROVE  /\ row'[id[a]].status = "pending"
                      /\ row'[id[a]].config = editor[e].config
                      /\ row'[id[a]].issued = editor[e].issued
    OBVIOUS
  <2>1. row'[id[a]] = PolicyCommand(a, e)
    BY <1>2
  <2> QED
    BY <2>1 DEF PolicyCommand
<1>4. \A a \in Agents :
         /\ Due(a) \subseteq PolicyCommands(a) /\ Due(a) \subseteq Commands
         /\ Due(a)' = Due(a) \cup (IF a \in T THEN {id[a]} ELSE {})
  BY <1>1, <1>2 DEF Due, PolicyCommands
<1>5. \A a \in Agents : Held(a)' = Held(a) /\ (Stuck(a)' <=> Stuck(a))
  BY <1>1 DEF Held, Stuck, Cut
<1>6. \A a \in Agents : \A b \in T : id[b] \notin Held(a)
  BY <1>2, ValuesAssumption DEF Held, DeliveryInv, TypeOK, AgentRecord, PagesKnown, BatchFresh, Waiting
<1>7. \A a \in Agents : \A c \in Due(a) :
         row'[c] = row[c] /\ row[c].issued < editor[e].issued /\ row[c].issued \in Nat
  BY <1>1, <1>2, <1>4 DEF EditsOrdered, DeliveryInv, TypeOK, Row
<1>8. editor[e].issued \in Nat
  BY DEF DeliveryInv, TypeOK, EditorRecord
<1>9. PollsAwaited'
  BY <1>1, <1>5 DEF Flow, PollsAwaited
<1>10. NothingLost'
  BY <1>1, <1>3, <1>4, <1>5, <1>7 DEF Flow, NothingLost
<1>11. OldestFirst'
  <2> SUFFICES ASSUME NEW a \in Agents, ~Stuck(a),
                      NEW c \in Due(a)', c \in Held(a), NEW d \in Due(a)', d \notin Held(a)
               PROVE  row'[c].issued < row'[d].issued
    BY <1>5 DEF OldestFirst
  <2>1. c \in Due(a)
    BY <1>4, <1>6
  <2>2. CASE d \in Due(a)
    BY <1>7, <2>1, <2>2 DEF Flow, OldestFirst
  <2>3. CASE d \notin Due(a)
    BY <1>3, <1>4, <1>7, <2>1, <2>3
  <2> QED
    BY <2>2, <2>3
<1>12. PolicyDue'
  <2> SUFFICES ASSUME NEW a \in Agents, a \in assigned', ~Stuck(a)
               PROVE  /\ Due(a)' = {} => applied[a] = policy'
                      /\ \A c \in Commands : Last(a, c)' => row'[c].config = policy'
    <3>1. assigned' \subseteq Agents
      BY DEF PolicyCommit, DeliveryInv, TypeOK, EditorRecord
    <3> QED
      BY <1>1, <1>5, <3>1 DEF PolicyDue
  <2>1. \/ /\ editor[e].kind = "edit" /\ T = assigned
           /\ policy' = editor[e].config /\ assigned' = assigned
        \/ /\ editor[e].config = policy
           /\ assigned' = assigned \cup T /\ policy' = policy
    BY <1>1 DEF PolicyCommit, EditsOrdered
  <2>2. CASE a \in T
    <3>1. policy' = editor[e].config /\ id[a] \in Due(a)'
      BY <1>4, <2>1, <2>2
    <3>2. ASSUME NEW c \in Commands, Last(a, c)'
          PROVE  c = id[a]
      <4>1. c \in Due(a)' /\ row'[id[a]].issued <= row'[c].issued
        BY <3>1, <3>2 DEF Last
      <4>2. CASE c \in Due(a)
        BY <1>3, <1>7, <1>8, <2>2, <4>1, <4>2
      <4> QED
        BY <1>4, <4>1, <4>2
    <3> QED
      BY <1>3, <2>2, <3>1, <3>2
  <2>3. CASE a \notin T
    <3>1. a \in assigned /\ policy' = policy
      BY <2>1, <2>3
    <3>2. Due(a)' = Due(a)
      BY <1>4, <2>3
    <3>3. \A c \in Commands : Last(a, c)' => Last(a, c) /\ row'[c] = row[c]
      BY <1>7, <3>2 DEF Last
    <3> QED
      BY <3>1, <3>2, <3>3 DEF Flow, PolicyDue
  <2> QED
    BY <2>2, <2>3
<1> QED
  BY <1>9, <1>10, <1>11, <1>12 DEF Flow

(* An agent that stops waiting without a fault is cut off for good.        *)
LEMMA FlowUnanswered ==
    ASSUME DeliveryInv, Flow, NEW a \in Agents, NEW lost \in BOOLEAN, PollUnanswered(a, lost)
    PROVE  Flow'
<1> DEFINE p == agent[a].poll
<1>1. /\ agent[a].pc = "polling" /\ Cut(a)
      /\ p \in Polls /\ poll[p].agent = a /\ agent[a].batch = {}
  BY DEF PollUnanswered, StopPolling, DeliveryInv, AwaitedFresh, BatchFresh, TypeOK, AgentRecord
<1>2. /\ \A b \in Agents : b # a => agent'[b] = agent[b] /\ agent[b].poll # p
      /\ \A q \in Polls : q # p => poll'[q] = poll[q]
      /\ poll'[p].agent = a \/ poll'[p].agent = None
      /\ None \notin Polls /\ None \notin Agents
      /\ \A b \in Agents : agent[b].poll \in Polls \cup {None}
      /\ UNCHANGED <<row, executed, wall, applied, policy, assigned>>
  BY <1>1, ValuesAssumption DEF PollUnanswered, StopPolling, Abandoned, IdlePoll, DeliveryInv,
     AwaitedFresh, TypeOK, AgentRecord, queue, host, engine
<1>3. agent'[a].batch = {}
  BY DEF PollUnanswered, StopPolling, IdleAgent, DeliveryInv, TypeOK
<1>4. \A b \in Agents : PolicyCommands(b)' = PolicyCommands(b) /\ Due(b)' = Due(b)
  BY <1>2 DEF Due, PolicyCommands
<1>5. \A b \in Agents : ~Stuck(b)' => b # a /\ ~Stuck(b)
  BY <1>1, <1>2, <1>3 DEF Stuck, Cut
<1>6. \A b \in Agents : b # a => Held(b)' = Held(b)
  BY <1>1, <1>2 DEF Held
<1>7. PollsAwaited'
  BY <1>1, <1>2, <1>5 DEF Flow, PollsAwaited
<1>8. NothingLost'
  BY <1>2, <1>4, <1>5 DEF Flow, NothingLost
<1>9. OldestFirst'
  BY <1>2, <1>4, <1>5, <1>6 DEF Flow, OldestFirst
<1>10. PolicyDue'
  BY <1>2, <1>4, <1>5 DEF Flow, PolicyDue, Last, DeliveryInv, TypeOK
<1> QED
  BY <1>7, <1>8, <1>9, <1>10 DEF Flow

(* Every step keeps the order of policy commands and their way to the host. *)
LEMMA PolicyStep == OneEditor /\ PolicyInv /\ [Next]_vars => PolicyInv'
<1> SUFFICES ASSUME OneEditor, PolicyInv, [Next]_vars
             PROVE  PolicyInv'
  OBVIOUS
<1>1. /\ DeliveryInv /\ EditsOrdered /\ (faults = 0 => Flow)
      /\ DeliveryInv' /\ clock \in Nat
  BY DeliveryStep DEF PolicyInv, Flow, DeliveryInv, TypeOK
<1>2. EditsOrdered' /\ (faults' = 0 => Flow') => PolicyInv'
  BY <1>1 DEF PolicyInv, Flow
<1>3. ASSUME row' = row
      PROVE  CommandsStay /\ \A a \in Agents : \A c \in Due(a) : row'[c].status = row[c].status
  BY <1>3 DEF CommandsStay, PolicyCommands, Due
<1>4. ASSUME UNCHANGED <<row, poll, executed, wall, applied, policy, assigned, faults>>,
             \A a \in Agents : agent'[a].batch = agent[a].batch /\ agent'[a].poll = agent[a].poll,
             EditsOrdered'
      PROVE  PolicyInv'
  BY <1>1, <1>2, <1>3, <1>4, FlowRests
<1>5. ASSUME CommandsStay, UNCHANGED <<editor, policy, assigned, clock>>
      PROVE  EditsOrdered'
  BY <1>1, <1>5, EditsRest
<1>6. CASE UNCHANGED vars
  <2>1. EditsOrdered'
    BY <1>3, <1>5, <1>6 DEF vars
  <2> QED
    BY <1>4, <1>6, <2>1 DEF vars
<1>7. ASSUME NEW c \in Commands, NEW a \in Agents, NEW action \in Actions, Queue(c, a, action)
      PROVE  PolicyInv'
  <2>1. /\ CommandsStay
        /\ \A b \in Agents : \A d \in PolicyCommands(b) : row'[d] = row[d]
    BY <1>1, <1>7, QueueCommands
  <2>2. /\ UNCHANGED <<poll, agent, executed, wall, applied, policy, assigned, editor, faults>>
        /\ clock' = clock + 1
    BY <1>7 DEF Queue, host
  <2>3. EditsOrdered'
    BY <1>1, <2>1, <2>2, EditsRest
  <2>4. \A b \in Agents : \A d \in Due(b) : row'[d].status = row[d].status
    BY <2>1 DEF Due
  <2> QED
    BY <1>1, <1>2, <2>1, <2>2, <2>3, <2>4, FlowRests
<1>8. ASSUME NEW e \in Editors,
             \/ EditWrite(e) \/ AssignRead(e)
             \/ \E config \in Configs : EditStart(e, config)
             \/ \E targets \in SUBSET Agents : AssignStart(e, targets)
      PROVE  PolicyInv'
  <2>1. UNCHANGED <<row, agent, poll, executed, wall, applied, policy, assigned, faults>>
    BY <1>8 DEF EditWrite, AssignRead, EditStart, AssignStart, queue, host
  <2>2. EditsOrdered'
    BY <1>1, <1>8, EditsBegin, EditsRead
  <2> QED
    BY <1>4, <2>1, <2>2
<1>9. ASSUME NEW e \in Editors, NEW id \in [editor[e].targets -> Unused], PolicyCommit(e, id)
      PROVE  PolicyInv'
  BY <1>1, <1>2, <1>9, EditsCommit, FlowCommit DEF PolicyCommit
<1>10. ASSUME NEW p \in Polls, PollUpdate(p)
       PROVE  PolicyInv'
  <2>1. CommandsStay /\ UNCHANGED <<editor, policy, assigned, clock, faults>>
    BY <1>1, <1>10, StatusCommands DEF PollUpdate, engine
  <2> QED
    BY <1>1, <1>2, <1>5, <1>10, <2>1, FlowPollUpdate
<1>11. ASSUME NEW p \in Polls, NEW page \in SUBSET Commands, PollSelect(p, page)
       PROVE  PolicyInv'
  <2>1. UNCHANGED <<row, editor, policy, assigned, clock, faults>>
    BY <1>11 DEF PollSelect, engine, queue
  <2> QED
    BY <1>1, <1>2, <1>3, <1>5, <1>11, <2>1, FlowPollSelect
<1>12. ASSUME NEW c \in Commands, RecordResult(c)
       PROVE  PolicyInv'
  <2>1. /\ CommandsStay
        /\ UNCHANGED <<poll, agent, executed, wall, applied, policy, assigned, editor, clock, faults>>
    BY <1>1, <1>12, StatusCommands DEF RecordResult, host, engine
  <2>2. executed[c] # 0
    BY <1>1, <1>12 DEF RecordResult, DeliveryInv, WaitingFresh
  <2>3. \A a \in Agents : \A d \in Due(a) : row'[d].status = row[d].status
    BY <1>12, <2>2 DEF RecordResult, Due, PolicyCommands
  <2> QED
    BY <1>1, <1>2, <1>5, <2>1, <2>3, FlowRests
<1>13. ASSUME NEW c \in Commands, SyncIsolation(c)
       PROVE  PolicyInv'
  <2>1. UNCHANGED <<row, poll, agent, executed, wall, applied, policy, assigned, editor, clock, faults>>
    BY <1>13 DEF SyncIsolation, queue, host, engine
  <2> QED
    BY <1>3, <1>4, <1>5, <2>1
<1>14. ASSUME NEW a \in Agents, NEW p \in Polls, PollSend(a, p)
       PROVE  PolicyInv'
  <2>1. UNCHANGED <<row, editor, policy, assigned, clock, faults>>
    BY <1>14 DEF PollSend, engine, queue
  <2> QED
    BY <1>1, <1>2, <1>3, <1>5, <1>14, <2>1, FlowPollSend
<1>15. ASSUME NEW a \in Agents, PollReceive(a)
       PROVE  PolicyInv'
  <2>1. UNCHANGED <<row, editor, policy, assigned, clock, faults>>
    BY <1>15 DEF PollReceive, engine, queue
  <2> QED
    BY <1>1, <1>2, <1>3, <1>5, <1>15, <2>1, FlowPollReceive
<1>16. ASSUME NEW a \in Agents, NEW lost \in BOOLEAN, PollUnanswered(a, lost)
       PROVE  PolicyInv'
  <2>1. UNCHANGED <<row, editor, policy, assigned, clock, faults>>
    BY <1>16 DEF PollUnanswered, StopPolling, engine, queue
  <2> QED
    BY <1>1, <1>2, <1>3, <1>5, <1>16, <2>1, FlowUnanswered
<1>17. ASSUME NEW a \in Agents, ReportAnswered(a) \/ ReportUnanswered(a)
       PROVE  PolicyInv'
  <2>1. /\ agent[a].pc = "reporting" /\ agent' = [agent EXCEPT ![a] = AfterReport(a)]
        /\ UNCHANGED <<row, poll, executed, wall, applied, policy, assigned, editor, clock, faults>>
    BY <1>17 DEF ReportAnswered, ReportUnanswered, StopReporting, queue, host, engine
  <2>2. agent[a].poll = None
    BY <1>1, <2>1 DEF DeliveryInv, AwaitedFresh
  <2>3. AfterReport(a).batch = agent[a].batch /\ AfterReport(a).poll = None
    <3>1. agent[a] \in AgentRecord
      BY <1>1 DEF DeliveryInv, TypeOK
    <3>2. CASE agent[a].batch = {}
      BY <3>2 DEF AfterReport, IdleAgent
    <3>3. CASE agent[a].batch # {}
      BY <2>2, <3>1, <3>3 DEF AfterReport, AgentRecord
    <3> QED
      BY <3>2, <3>3
  <2>4. \A b \in Agents : agent'[b].batch = agent[b].batch /\ agent'[b].poll = agent[b].poll
    BY <1>1, <2>1, <2>2, <2>3 DEF DeliveryInv, TypeOK
  <2> QED
    BY <1>3, <1>4, <1>5, <2>1, <2>4
<1>18. ASSUME NEW a \in Agents, NEW c \in Commands, Execute(a, c)
       PROVE  PolicyInv'
  <2>1. UNCHANGED <<row, editor, policy, assigned, clock, faults>>
    BY <1>18 DEF Execute, Perform, engine
  <2>2. faults' = 0 => Flow'
    BY <1>1, <1>18, FlowPerform DEF Execute
  <2> QED
    BY <1>2, <1>3, <1>5, <2>1, <2>2
<1>19. ASSUME NEW a \in Agents, AgentFault(a)
       PROVE  PolicyInv'
  <2>1. /\ Fault
        /\ UNCHANGED <<row, editor, policy, assigned, clock>>
    BY <1>19 DEF AgentFault, PollGiveUp, ReportGiveUp, StopPolling, StopReporting, Restart,
                 ExecuteBadly, Perform, queue, engine
  <2> QED
    BY <1>1, <1>2, <1>3, <1>5, <2>1, FaultCounted
<1> QED
  BY <1>6, <1>7, <1>8, <1>9, <1>10, <1>11, <1>12, <1>13, <1>14, <1>15, <1>16, <1>17, <1>18, <1>19
     DEF Next, ConsoleStep, EditorStep, PollHandler, ReportHandler, AgentStep

(* As long as nothing fails and policies are edited one at a time, every   *)
(* assigned agent that has run its commands and can be reached has the     *)
(* configuration of the database, however many agents, commands, polls and *)
(* pages there are (PollSelect, Perform, PolicyCommit).                    *)
THEOREM PolicyReachesHosts ==
    ASSUME OneEditor
    PROVE  Spec => []PolicyDelivered
<1>1. Init => PolicyInv
  <2> SUFFICES ASSUME Init
               PROVE  EditsOrdered /\ Flow
    BY DeliveryInit DEF PolicyInv, Flow
  <2>1. /\ \A a \in Agents : PolicyCommands(a) = {} /\ Due(a) = {}
        /\ \A e \in Editors : editor[e].pc = "idle"
        /\ assigned = {}
    BY DEF Init, PolicyCommands, Due, NoRow, IdleEditor
  <2>2. \A p \in Polls : poll[p].agent \notin Agents
    BY ValuesAssumption DEF Init, IdlePoll
  <2>3. EditsOrdered
    BY <2>1 DEF EditsOrdered
  <2> QED
    BY <2>1, <2>2, <2>3 DEF Flow, PollsAwaited, NothingLost, OldestFirst, PolicyDue
<1>2. PolicyInv /\ [Next]_vars => PolicyInv'
  BY PolicyStep
<1>3. PolicyInv => PolicyDelivered
  <2> SUFFICES ASSUME PolicyInv, faults = 0, NEW a \in assigned, Settled(a), ~Cut(a)
               PROVE  applied[a] = policy
    BY DEF PolicyDelivered
  <2>1. a \in Agents
    BY DEF PolicyInv, DeliveryInv, TypeOK
  <2>2. ~Stuck(a)
    BY DEF Stuck
  <2>3. Due(a) = {}
    <3> SUFFICES ASSUME NEW c \in Due(a)
                 PROVE  FALSE
      OBVIOUS
    <3>1. row[c].status # "pending"
      BY DEF Settled, Pending, Due, PolicyCommands
    <3>2. agent[a].poll # None => agent[a].poll \in Polls
      BY <2>1 DEF PolicyInv, DeliveryInv, TypeOK, AgentRecord
    <3> QED
      BY <2>1, <2>2, <3>1, <3>2 DEF PolicyInv, Flow, NothingLost, Settled
  <2> QED
    BY <2>2, <2>3 DEF PolicyInv, Flow, PolicyDue
<1> QED
  BY <1>1, <1>2, <1>3, PTL DEF Spec
=============================================================================
