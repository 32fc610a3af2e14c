------------------------------ MODULE RuleCache ------------------------------
(***************************************************************************)
(* The in-process cache of rule toggles and custom rules: alert tasks and  *)
(* the rule routes share one event loop, so a step runs from one await to  *)
(* the next.  The contents of a table is its version number.               *)
(***************************************************************************)
EXTENDS Naturals

CONSTANTS
    Tasks,      \* alert tasks that may read the cache together
    Writers,    \* requests to the rule routes
    MaxWrites   \* bound: writes to the rule tables

ASSUME MaxWritesAssumption == MaxWrites \in Nat

(* A reload runs one SELECT after the other; the first fills both          *)
(* disabled_correlation and disabled_ueba.                                 *)
Tables == {"rule_toggles", "custom_correlation_rules", "custom_ueba_rules"}
Step == [rule_toggles |-> 1, custom_correlation_rules |-> 2, custom_ueba_rules |-> 3]

VARIABLES
    stored,   \* committed version of each table
    acked,    \* version whose write handler has called invalidate()
    cache,    \* version each cache field was built from
    loaded,   \* loaded_at: "never" (0.0), "fresh", or "expired" (over the TTL)
    task,     \* a getter call of each task
    writer,   \* a write handler
    raced,    \* an invalidate() fell into the latest overlapping reloads (history)
    writes

vars == <<stored, acked, cache, loaded, task, writer, raced, writes>>

Write == [table: Tables, version: Nat]
NoWrite == [table |-> "rule_toggles", version |-> 0]

(* step 1 to 3: waits for that SELECT; result is the version it will       *)
(* return, once the database has taken its snapshot.  Then the session is  *)
(* closed.                                                                 *)
IdleTask == [pc |-> "idle", step |-> 1, taken |-> FALSE, result |-> 0]

Init ==
    /\ stored = [t \in Tables |-> 0]
    /\ acked = [t \in Tables |-> 0]
    /\ cache = [t \in Tables |-> 0]
    /\ loaded = "never"
    /\ task = [k \in Tasks |-> IdleTask]
    /\ writer = [w \in Writers |-> NoWrite]
    /\ raced = FALSE
    /\ writes = 0

Reloading(k) == task[k].pc = "reloading"

(* A getter finds the cache stale and reloads it; several tasks may do so  *)
(* at once.                                                                *)
ReloadBegin(k) ==
    /\ task[k].pc = "idle"
    /\ loaded # "fresh"
    /\ task' = [task EXCEPT ![k].pc = "reloading"]
    /\ raced' = (raced /\ \E j \in Tasks : Reloading(j))
    /\ UNCHANGED <<stored, acked, cache, loaded, writer, writes>>

(* The database takes the snapshot of the next SELECT.                     *)
Snapshot(k) ==
    /\ Reloading(k)
    /\ ~task[k].taken
    /\ \E t \in Tables :
          /\ Step[t] = task[k].step
          /\ task' = [task EXCEPT ![k].taken = TRUE, ![k].result = stored[t]]
    /\ UNCHANGED <<stored, acked, cache, loaded, writer, raced, writes>>

(* The rows arrive: the field is assigned and the task goes on to its next *)
(* await.                                                                  *)
AssignField(k) ==
    /\ Reloading(k)
    /\ task[k].taken
    /\ \E t \in Tables :
          /\ Step[t] = task[k].step
          /\ cache' = [cache EXCEPT ![t] = task[k].result]
    /\ task' = [task EXCEPT ![k].step = @ + 1, ![k].taken = FALSE]
    /\ UNCHANGED <<stored, acked, loaded, writer, raced, writes>>

(* The session is closed: loaded_at is set, whatever happened since the    *)
(* reload began.                                                           *)
Closing == 4
MarkFreshAndGoOn(k) ==
    /\ Reloading(k)
    /\ task[k].step >= Closing
    /\ task' = [task EXCEPT ![k].step = @ + 1]
    /\ loaded' = "fresh"
    /\ UNCHANGED <<stored, acked, cache, writer, raced, writes>>
MarkFresh(k) ==
    /\ Reloading(k)
    /\ task[k].step = Closing
    /\ task' = [task EXCEPT ![k] = IdleTask]
    /\ loaded' = "fresh"
    /\ UNCHANGED <<stored, acked, cache, writer, raced, writes>>

(* The database fails, or the session does not close: the exception leaves *)
(* the getter, fields assigned so far stay.                                *)
ReloadFail(k) ==
    /\ Reloading(k)
    /\ task' = [task EXCEPT ![k] = IdleTask]
    /\ UNCHANGED <<stored, acked, cache, loaded, writer, raced, writes>>

(* A rule route commits its write ...                                      *)
WriteCommit(w, t) ==
    /\ writes < MaxWrites
    /\ writer[w] = NoWrite
    /\ stored' = [stored EXCEPT ![t] = @ + 1]
    /\ writer' = [writer EXCEPT ![w] = [table |-> t, version |-> stored[t] + 1]]
    /\ writes' = writes + 1
    /\ UNCHANGED <<acked, cache, loaded, task, raced>>

(* ... and calls invalidate().                                             *)
ForgottenInvalidate == loaded
Invalidated == "never"
Invalidate(w) ==
    /\ writer[w] # NoWrite
    /\ LET t == writer[w].table
           v == writer[w].version
       IN acked' = [acked EXCEPT ![t] = IF v > @ THEN v ELSE @]
    /\ loaded' = Invalidated
    /\ raced' = (raced \/ \E k \in Tasks : Reloading(k))
    /\ writer' = [writer EXCEPT ![w] = NoWrite]
    /\ UNCHANGED <<stored, cache, task, writes>>

(* Thirty seconds pass after a reload.                                     *)
ExpireNever ==
    /\ loaded = "fresh"
    /\ UNCHANGED vars
Expire ==
    /\ loaded = "fresh"
    /\ loaded' = "expired"
    /\ UNCHANGED <<stored, acked, cache, task, writer, raced, writes>>

ReloadStep(k) == Snapshot(k) \/ AssignField(k) \/ MarkFresh(k)

Next ==
    \/ \E k \in Tasks : ReloadBegin(k) \/ ReloadStep(k) \/ ReloadFail(k)
    \/ \E w \in Writers : Invalidate(w) \/ \E t \in Tables : WriteCommit(w, t)
    \/ Expire

Spec == Init /\ [][Next]_vars

(* The event loop resumes every task, handlers go on to invalidate(), time *)
(* passes.  No alert need arrive and no reload need begin.                 *)
Fairness ==
    /\ \A k \in Tasks : WF_vars(ReloadStep(k))
    /\ \A w \in Writers : WF_vars(Invalidate(w))
    /\ WF_vars(Expire)

FairSpec == Spec /\ Fairness

-----------------------------------------------------------------------------
(* Properties.                                                             *)

(* Every variable keeps its shape; a reload stays within its three SELECTs *)
(* and the close.                                                          *)
TypeOK ==
    /\ stored \in [Tables -> Nat]
    /\ acked \in [Tables -> Nat]
    /\ cache \in [Tables -> Nat]
    /\ loaded \in {"never", "fresh", "expired"}
    /\ task \in [Tasks -> [pc: {"idle", "reloading"}, step: 1..Closing, taken: BOOLEAN, result: Nat]]
    /\ writer \in [Writers -> Write]
    /\ raced \in BOOLEAN
    /\ writes \in Nat

UpToDate == loaded = "fresh" => \A t \in Tables : cache[t] >= acked[t]

(* Once a rule route has called invalidate(), the next alert sees its      *)
(* write ("the very next alert processed sees the change"), provided that  *)
(* no invalidate() came while reloads were running: the loaded_at that such *)
(* a reload sets undoes it.                                                *)
SeesQuietWrites == ~raced => UpToDate

(* When writes stop, the TTL makes every task use the stored rules in the  *)
(* end, lost invalidations included.                                       *)
HealsEventually == <>[](loaded = "fresh" => cache = stored)
=============================================================================
