------------------------------- MODULE DataLake -------------------------------
(***************************************************************************)
(* The CyDataLake ingest worker: one process whose consumer thread copies  *)
(* the raw Kafka topics into ClickHouse in batches and whose cold-storage  *)
(* thread moves aged rows into Parquet files.  The topics are one log.     *)
(***************************************************************************)
EXTENDS Integers, FiniteSets

CONSTANTS
    MaxOffset,   \* bound: events published
    Vendors,     \* vendors: a batch is written vendor by vendor
    VendorOf,    \* vendor of the event at each offset
    BatchSize,   \* events that force a flush (500)
    MaxRuns,     \* bound: starts of the process
    MaxFaults    \* bound: outages, raised and lost calls

Offsets == 1..MaxOffset
ASSUME VendorOfAssumption == VendorOf \in [Offsets -> Vendors]
ASSUME BoundsAssumption ==
    /\ MaxOffset \in Nat
    /\ BatchSize \in Nat \ {0}
    /\ MaxRuns \in Nat
    /\ MaxFaults \in Nat

VARIABLES
    tail,        \* last offset published
    committed,   \* the group's committed position, or NoCommit
    consumer,    \* the consumer thread: pc, position, batch, flush due
    cold,        \* the cold-storage thread: pc and the rows it has read
    client,      \* the process's ClickHouse client: "none", "ready", "failed"
    reachable,   \* ClickHouse answers
    stop,        \* _STOP
    runs,        \* starts of the process
    young,       \* rows per offset younger than the cold-storage age
    old,         \* rows per offset older than it
    archive,     \* rows per offset in Parquet files
    written,     \* rows per offset ever inserted (history)
    slipped,     \* rows deleted that aged after the SELECT (history)
    gone,        \* committed offsets whose batch was never inserted (history)
    skipped,     \* offset up to which a start at "latest" passed (history)
    faults

rows == <<young, old, archive, written, slipped>>
vars == <<tail, committed, consumer, cold, client, reachable, stop, runs, rows,
          gone, skipped, faults>>

NoCommit == -1
None == [o \in Offsets |-> 0]
Stopped == [pc |-> "off", pos |-> 0, batch |-> {}, due |-> FALSE]
AtRest == [pc |-> "off", picked |-> None]

Init ==
    /\ tail = 0
    /\ committed = NoCommit
    /\ consumer = Stopped
    /\ cold = AtRest
    /\ client = "none"
    /\ reachable = TRUE
    /\ stop = FALSE
    /\ runs = 0
    /\ young = None /\ old = None /\ archive = None
    /\ written = None /\ slipped = None
    /\ gone = {}
    /\ skipped = 0
    /\ faults = 0

Running == consumer.pc # "off"
Fault == faults < MaxFaults /\ faults' = faults + 1
Count(S) == [o \in Offsets |-> IF o \in S THEN 1 ELSE 0]
Plus(f, g) == [o \in Offsets |-> f[o] + g[o]]
Minus(f, g) == [o \in Offsets |-> IF f[o] > g[o] THEN f[o] - g[o] ELSE 0]

(* A bridge publishes an event.                                            *)
Publish ==
    /\ tail < MaxOffset
    /\ tail' = tail + 1
    /\ UNCHANGED <<committed, consumer, cold, client, reachable, stop, runs,
                   rows, gone, skipped, faults>>

ReachableChanges ==
    /\ reachable' = ~reachable
    /\ IF reachable THEN Fault ELSE UNCHANGED faults
    /\ UNCHANGED <<tail, committed, consumer, cold, client, stop, runs, rows,
                   gone, skipped>>

(* Without a committed position the group begins at the end of the topics. *)
BeginUnset == committed
Begin == IF committed = NoCommit THEN tail ELSE committed

(* Both threads start; a broker that cannot be reached leaves the consumer *)
(* idle for the life of the process.                                       *)
StartProcess ==
    /\ ~Running
    /\ runs < MaxRuns
    /\ runs' = runs + 1
    /\ client' = "none"
    /\ stop' = FALSE
    /\ cold' = [AtRest EXCEPT !.pc = "wait"]
    /\ \/ /\ consumer' = [Stopped EXCEPT !.pc = "poll", !.pos = Begin]
          /\ skipped' = IF committed = NoCommit THEN tail ELSE skipped
          /\ UNCHANGED faults
       \/ /\ Fault
          /\ consumer' = [Stopped EXCEPT !.pc = "idle",
                            !.pos = IF committed = NoCommit THEN 0 ELSE committed]
          /\ UNCHANGED skipped
    /\ UNCHANGED <<tail, committed, reachable, rows, gone>>

(* The client commits, as it polls, the position behind every event it has *)
(* handed out.                                                             *)
AutoCommitTail ==
    /\ consumer.pc = "poll"
    /\ committed' = tail
    /\ UNCHANGED <<tail, consumer, cold, client, reachable, stop, runs, rows,
                   gone, skipped, faults>>
AutoCommit ==
    /\ consumer.pc = "poll"
    /\ committed' = consumer.pos
    /\ UNCHANGED <<tail, consumer, cold, client, reachable, stop, runs, rows,
                   gone, skipped, faults>>

(* Five seconds since the last flush.                                      *)
FlushDue ==
    /\ consumer.pc = "poll"
    /\ ~consumer.due
    /\ consumer' = [consumer EXCEPT !.due = TRUE]
    /\ UNCHANGED <<tail, committed, cold, client, reachable, stop, runs, rows,
                   gone, skipped, faults>>

(* A message: appended to the batch, which is flushed when it is due, or   *)
(* dropped with the thread's loop when the process is stopping.            *)
Receive ==
    /\ consumer.pc = "poll"
    /\ consumer.pos < tail
    /\ LET o == consumer.pos + 1
           batch == consumer.batch \union {o} IN
       consumer' =
         IF stop THEN [consumer EXCEPT !.pc = "done", !.pos = o, !.batch = consumer.batch \union {o}]
         ELSE [consumer EXCEPT !.pos = o, !.batch = batch,
                 !.pc = IF consumer.due \/ Cardinality(batch) >= BatchSize
                        THEN "flush" ELSE "poll"]
    /\ UNCHANGED <<tail, committed, cold, client, reachable, stop, runs, rows,
                   gone, skipped, faults>>

(* The first call of either thread decides for the life of the process;    *)
(* connecting and the DDL are taken as one step.                           *)
Client == IF client # "none" THEN client ELSE IF reachable THEN "ready" ELSE "failed"

Of(v) == {o \in consumer.batch : VendorOf[o] = v}
FlushedKept(v) ==
    [consumer EXCEPT !.pc = "poll", !.due = FALSE]
Flushed(v) ==
    LET left == consumer.batch \ Of(v) IN
    [consumer EXCEPT !.batch = left,
                     !.pc = IF left = {} THEN "poll" ELSE "flush",
                     !.due = left # {} /\ consumer.due]

(* write_events: a vendor's events are inserted, or dropped if the client  *)
(* is disabled or ClickHouse does not answer.                              *)
Write(v) ==
    /\ consumer.pc = "flush"
    /\ Of(v) # {}
    /\ client' = Client
    /\ consumer' = Flushed(v)
    /\ IF Client = "ready" /\ reachable
       THEN /\ written' = Plus(written, Count(Of(v)))
            /\ young' = Plus(young, Count(Of(v)))
            /\ UNCHANGED gone
       ELSE gone' = gone \union Of(v) /\ UNCHANGED <<written, young>>
    /\ UNCHANGED <<tail, committed, cold, reachable, stop, runs, old, archive,
                   slipped, skipped, faults>>

(* An event write_events cannot make a row of raises out of the loop: the  *)
(* thread ends, the process stays.                                         *)
WriteRaises(v) ==
    /\ consumer.pc = "flush"
    /\ Of(v) # {}
    /\ Client = "ready"
    /\ client' = Client
    /\ Fault
    /\ consumer' = [consumer EXCEPT !.pc = "done"]
    /\ UNCHANGED <<tail, committed, cold, reachable, stop, runs, rows, gone,
                   skipped>>

(* A row passes the cold-storage age.                                      *)
Age(o) ==
    /\ young[o] > 0
    /\ young' = [young EXCEPT ![o] = young[o] - 1]
    /\ old' = [old EXCEPT ![o] = old[o] + 1]
    /\ UNCHANGED <<tail, committed, consumer, cold, client, reachable, stop,
                   runs, archive, written, slipped, gone, skipped, faults>>

(* The daily export reads the old rows ...                                 *)
ColdSelect ==
    /\ cold.pc = "wait"
    /\ ~stop
    /\ client' = Client
    /\ cold' = IF Client = "ready" /\ reachable /\ old # None
               THEN [pc |-> "export", picked |-> old] ELSE cold
    /\ UNCHANGED <<tail, committed, consumer, reachable, stop, runs, rows, gone,
                   skipped, faults>>

(* ... writes them to a file of their own ...                              *)
ColdWrite ==
    /\ cold.pc = "export"
    /\ archive' = Plus(archive, cold.picked)
    /\ cold' = [cold EXCEPT !.pc = "delete"]
    /\ UNCHANGED <<tail, committed, consumer, client, reachable, stop, runs,
                   young, old, written, slipped, gone, skipped, faults>>

ColdWriteFailsDeletes ==
    /\ cold.pc = "export"
    /\ Fault
    /\ cold' = [cold EXCEPT !.pc = "delete"]
    /\ UNCHANGED <<tail, committed, consumer, client, reachable, stop, runs,
                   rows, gone, skipped>>
ColdWriteFailsDies ==
    /\ cold.pc = "export"
    /\ Fault
    /\ cold' = AtRest
    /\ UNCHANGED <<tail, committed, consumer, client, reachable, stop, runs,
                   rows, gone, skipped>>
ColdWriteFails ==
    /\ cold.pc = "export"
    /\ Fault
    /\ cold' = [AtRest EXCEPT !.pc = "wait"]
    /\ UNCHANGED <<tail, committed, consumer, client, reachable, stop, runs,
                   rows, gone, skipped>>

(* ... and deletes what is old by the time of the DELETE.                  *)
ColdDelete ==
    /\ cold.pc = "delete"
    /\ cold' = [AtRest EXCEPT !.pc = "wait"]
    /\ IF reachable
       THEN old' = None /\ slipped' = Plus(slipped, Minus(old, cold.picked))
       ELSE UNCHANGED <<old, slipped>>
    /\ UNCHANGED <<tail, committed, consumer, client, reachable, stop, runs,
                   young, archive, written, gone, skipped, faults>>

(* SIGTERM.                                                                *)
HandleSignal ==
    /\ Running
    /\ ~stop
    /\ stop' = TRUE
    /\ UNCHANGED <<tail, committed, consumer, cold, client, reachable, runs,
                   rows, gone, skipped, faults>>

(* The process ends with its daemon threads wherever they are: within a    *)
(* second of the signal, or by a crash.                                    *)
Exit ==
    /\ Running
    /\ IF stop THEN UNCHANGED faults ELSE Fault
    /\ gone' = gone \union {o \in consumer.batch : o <= committed}
    /\ consumer' = Stopped
    /\ cold' = AtRest
    /\ UNCHANGED <<tail, committed, client, reachable, stop, runs, rows, skipped>>

ColdStep == ColdSelect \/ ColdWrite \/ ColdDelete

Next ==
    \/ Publish \/ ReachableChanges
    \/ StartProcess \/ HandleSignal \/ Exit
    \/ AutoCommit \/ FlushDue \/ Receive
    \/ \E v \in Vendors : Write(v) \/ WriteRaises(v)
    \/ \E o \in Offsets : Age(o)
    \/ ColdStep \/ ColdWriteFails

Spec == Init /\ [][Next]_vars

(* Both threads run, ClickHouse comes back; signals, restarts and events   *)
(* owe nothing.                                                            *)
FairSpec ==
    /\ Spec
    /\ WF_vars(ColdStep)
    /\ WF_vars(Receive)
    /\ \A v \in Vendors : WF_vars(Write(v))
    /\ WF_vars(~reachable /\ ReachableChanges)
-----------------------------------------------------------------------------
Rows == [Offsets -> Nat]

(* Types of the variables.                                                 *)
TypeOK ==
    /\ tail \in 0..MaxOffset
    /\ committed \in -1..MaxOffset
    /\ consumer \in [pc: {"off", "idle", "poll", "flush", "done"},
                     pos: 0..MaxOffset, batch: SUBSET Offsets, due: BOOLEAN]
    /\ cold \in [pc: {"off", "wait", "export", "delete"}, picked: Rows]
    /\ client \in {"none", "ready", "failed"}
    /\ reachable \in BOOLEAN
    /\ stop \in BOOLEAN
    /\ runs \in Nat
    /\ young \in Rows /\ old \in Rows /\ archive \in Rows
    /\ written \in Rows /\ slipped \in Rows
    /\ gone \subseteq Offsets
    /\ skipped \in 0..MaxOffset
    /\ faults \in Nat

(* Where the worker will not read again.                                   *)
Reached == IF Running THEN consumer.pos ELSE committed

(* An event behind the worker's position is in ClickHouse's history, in    *)
(* the batch in memory, or was lost in one of three ways: its insert was   *)
(* dropped, its committed batch died with the process, or the group began  *)
(* behind it (_consume_loop, write_events).                                *)
Accounted ==
    \A o \in Offsets : skipped < o /\ o <= Reached =>
        written[o] > 0 \/ o \in consumer.batch \/ o \in gone

(* An event is inserted at most once by each run of the process: only a    *)
(* restart before the commit inserts it again.                             *)
OncePerRun == \A o \in Offsets : written[o] <= runs

(* A row once inserted is in the table or in a Parquet file, except rows   *)
(* that pass the age between the export's SELECT and its DELETE            *)
(* (export_and_purge_older_than evaluates now() twice).                    *)
RowsSurvive ==
    \A o \in Offsets : written[o] <= young[o] + old[o] + archive[o] + slipped[o]

(* An aged row leaves the table while the worker runs with a client        *)
(* (_cold_storage_loop).                                                   *)
AgedRowsLeave ==
    \A o \in Offsets :
        old[o] > 0 ~> (old[o] = 0 \/ stop \/ ~Running \/ client = "failed")

(* CYDATALAKE_MIGRATION_PLAN.md:433: the worker "idles safely (retries     *)
(* every 60s, never crashes)" while ClickHouse is unreachable.             *)
StorageRetried == client = "failed" ~> (client = "ready" \/ stop \/ ~Running)
=============================================================================
