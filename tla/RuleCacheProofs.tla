--------------------------- MODULE RuleCacheProofs ---------------------------
(***************************************************************************)
(* For any number of alert tasks and rule routes: the shapes of the        *)
(* variables, and that a write is seen by the next alert when its          *)
(* invalidate() fell into no reload.                                       *)
(***************************************************************************)
EXTENDS RuleCache, TLAPS

(* Nothing acknowledged is missing in the tables, and a task at rest has   *)
(* forgotten its last reload.                                              *)
Grounded ==
    /\ \A t \in Tables : acked[t] <= stored[t]
    /\ \A w \in Writers : writer[w].version <= stored[writer[w].table]
    /\ \A k \in Tasks : ~Reloading(k) => task[k] = IdleTask

(* What task k has read so far is no older than what was acknowledged.     *)
ReadsCurrent(k) ==
    \A t \in Tables :
        /\ Step[t] < task[k].step => cache[t] >= acked[t]
        /\ Step[t] = task[k].step /\ task[k].taken => task[k].result >= acked[t]

(* SeesQuietWrites is not inductive: a reload in progress must keep its    *)
(* promise for the fields it has already assigned.                         *)
QuietInv ==
    /\ TypeOK
    /\ Grounded
    /\ ~raced => UpToDate /\ \A k \in Tasks : Reloading(k) => ReadsCurrent(k)

TaskRecord == [pc: {"idle", "reloading"}, step: 1..Closing, taken: BOOLEAN, result: Nat]

USE DEF Tables, Step, Closing, Invalidated

(* The fields of a task at rest, for the steps that would otherwise expand *)
(* the whole record.                                                       *)
LEMMA IdleFields == /\ IdleTask \in TaskRecord
                    /\ IdleTask.pc = "idle" /\ IdleTask.step = 1 /\ ~IdleTask.taken
  BY DEF IdleTask, TaskRecord

(* The fields of a route that is writing nothing.                          *)
LEMMA NoWriteFields == /\ NoWrite \in Write
                       /\ NoWrite.table \in Tables /\ NoWrite.version = 0
  BY DEF NoWrite, Write

(* Initially the cache is stale and nobody reloads it.                     *)
LEMMA QuietInit == Init => QuietInv
<1> SUFFICES ASSUME Init PROVE QuietInv
  OBVIOUS
<1>1. TypeOK
  BY IdleFields, NoWriteFields DEF Init, TypeOK, TaskRecord
<1>2. Grounded
  BY IdleFields, NoWriteFields DEF Init, Grounded
<1>3. loaded # "fresh" /\ \A k \in Tasks : ~Reloading(k)
  BY IdleFields DEF Init, Reloading
<1> QED
  BY <1>1, <1>2, <1>3 DEF QuietInv, UpToDate

(* Every step keeps the shapes and the versions grounded in the tables.    *)
LEMMA TypeStep == TypeOK /\ Grounded /\ [Next]_vars => TypeOK' /\ Grounded'
<1> SUFFICES ASSUME TypeOK, Grounded, [Next]_vars PROVE TypeOK' /\ Grounded'
  OBVIOUS
<1> USE IdleFields, NoWriteFields DEF TypeOK, Grounded, Reloading
<1>1. ASSUME NEW k \in Tasks, ReloadBegin(k) PROVE TypeOK' /\ Grounded'
  BY <1>1 DEF ReloadBegin
<1>2. ASSUME NEW k \in Tasks, Snapshot(k) PROVE TypeOK' /\ Grounded'
  <2>1. PICK t \in Tables : task' = [task EXCEPT ![k].taken = TRUE, ![k].result = stored[t]]
    BY <1>2 DEF Snapshot
  <2>2. task' \in [Tasks -> TaskRecord]
    BY <2>1 DEF TaskRecord
  <2>3. Grounded'
    BY <1>2, <2>1 DEF Snapshot
  <2> QED
    BY <1>2, <2>2, <2>3 DEF Snapshot, TaskRecord
<1>3. ASSUME NEW k \in Tasks, AssignField(k) PROVE TypeOK' /\ Grounded'
  <2>1. task' \in [Tasks -> TaskRecord]
    BY <1>3 DEF AssignField, TaskRecord
  <2>2. Grounded'
    BY <1>3 DEF AssignField
  <2>3. cache' \in [Tables -> Nat]
    BY <1>3 DEF AssignField
  <2> QED
    BY <1>3, <2>1, <2>2, <2>3 DEF AssignField, TaskRecord
<1>4. ASSUME NEW k \in Tasks, ReloadFail(k) PROVE TypeOK' /\ Grounded'
  <2>1. task' \in [Tasks -> TaskRecord]
    BY <1>4 DEF ReloadFail, TaskRecord
  <2>2. \A j \in Tasks : task'[j].pc # "reloading" => task'[j] = IdleTask
    BY <1>4 DEF ReloadFail
  <2> QED
    BY <1>4, <2>1, <2>2 DEF ReloadFail, TaskRecord
<1>5. ASSUME NEW w \in Writers, NEW t \in Tables, WriteCommit(w, t)
      PROVE TypeOK' /\ Grounded'
  <2>1. /\ writer' = [writer EXCEPT ![w] = [table |-> t, version |-> stored[t] + 1]]
        /\ stored' = [stored EXCEPT ![t] = @ + 1]
    BY <1>5 DEF WriteCommit
  <2>2. writer' \in [Writers -> Write] /\ stored' \in [Tables -> Nat] /\ writes' \in Nat
    BY <1>5 DEF WriteCommit, Write
  <2>3. \A v \in Writers : writer'[v].version <= stored'[writer'[v].table]
    BY <2>1 DEF Write
  <2> QED
    BY <1>5, <2>1, <2>2, <2>3 DEF WriteCommit
<1>6. ASSUME NEW w \in Writers, Invalidate(w) PROVE TypeOK' /\ Grounded'
  <2>1. /\ writer' = [writer EXCEPT ![w] = NoWrite]
        /\ UNCHANGED stored
    BY <1>6 DEF Invalidate
  <2>2. writer[w] \in Write
    OBVIOUS
  <2>3. acked' \in [Tables -> Nat] /\ \A t \in Tables : acked'[t] <= stored'[t]
    BY <1>6, <2>2 DEF Invalidate, Write
  <2>4. \A v \in Writers : writer'[v].version <= stored'[writer'[v].table]
    BY <2>1 DEF Write
  <2> QED
    BY <1>6, <2>1, <2>3, <2>4 DEF Invalidate
<1>7. CASE Expire
  BY <1>7 DEF Expire
<1>8. CASE UNCHANGED vars
  BY <1>8 DEF vars
<1>9. ASSUME NEW k \in Tasks, MarkFresh(k) PROVE TypeOK' /\ Grounded'
  <2>1. task' \in [Tasks -> TaskRecord]
    BY <1>9 DEF MarkFresh, TaskRecord
  <2>2. \A j \in Tasks : task'[j].pc # "reloading" => task'[j] = IdleTask
    BY <1>9 DEF MarkFresh
  <2> QED
    BY <1>9, <2>1, <2>2 DEF MarkFresh, TaskRecord
<1> QED
  BY <1>1, <1>2, <1>3, <1>4, <1>5, <1>6, <1>7, <1>8, <1>9 DEF Next, ReloadStep

(* Every step keeps the promise; only an invalidate() among reloads breaks *)
(* it, and then raced is true.                                             *)
LEMMA QuietStep == QuietInv /\ [Next]_vars => QuietInv'
<1> SUFFICES ASSUME QuietInv, [Next]_vars PROVE QuietInv'
  OBVIOUS
<1> DEFINE Kept == ~raced' => UpToDate' /\ \A j \in Tasks : Reloading(j)' => ReadsCurrent(j)'
<1>0. TypeOK' /\ Grounded'
  BY TypeStep DEF QuietInv
<1>0a. TypeOK /\ Grounded /\ (~raced => UpToDate /\ \A j \in Tasks : Reloading(j) => ReadsCurrent(j))
  BY DEF QuietInv
<1> SUFFICES Kept
  BY <1>0 DEF QuietInv
<1> USE IdleFields, NoWriteFields DEF TypeOK, Grounded, Reloading, ReadsCurrent, UpToDate
<1>1. ASSUME NEW k \in Tasks, ReloadBegin(k) PROVE Kept
  BY <1>1, <1>0a DEF ReloadBegin
<1>2. ASSUME NEW k \in Tasks, Snapshot(k) PROVE Kept
  BY <1>2, <1>0a DEF Snapshot
<1>3. ASSUME NEW k \in Tasks, AssignField(k) PROVE Kept
  BY <1>3, <1>0a DEF AssignField
<1>4. ASSUME NEW k \in Tasks, ReloadFail(k) PROVE Kept
  BY <1>4, <1>0a DEF ReloadFail
<1>5. ASSUME NEW w \in Writers, NEW t \in Tables, WriteCommit(w, t) PROVE Kept
  BY <1>5, <1>0a DEF WriteCommit
<1>6. ASSUME NEW w \in Writers, Invalidate(w) PROVE Kept
  BY <1>6, <1>0a DEF Invalidate
<1>7. CASE Expire
  BY <1>7, <1>0a DEF Expire
<1>8. CASE UNCHANGED vars
  BY <1>8, <1>0a DEF vars
<1>9. ASSUME NEW k \in Tasks, MarkFresh(k) PROVE Kept
  BY <1>9, <1>0a DEF MarkFresh
<1> QED
  BY <1>1, <1>2, <1>3, <1>4, <1>5, <1>6, <1>7, <1>8, <1>9 DEF Next, ReloadStep

(* The strengthening holds in every reachable state.                       *)
LEMMA QuietInvariant == Spec => []QuietInv
  BY QuietInit, QuietStep, PTL DEF Spec

(* Every reachable state has the shape TypeOK says; a reload never leaves  *)
(* its three SELECTs and the close.                                        *)
THEOREM RuleCacheTypes == Spec => []TypeOK
<1>1. QuietInv => TypeOK
  BY DEF QuietInv
<1> QED
  BY QuietInvariant, <1>1, PTL

(* A write whose invalidate() met no running reload is seen by the next    *)
(* alert, for any number of tasks, routes and writes.                      *)
THEOREM QuietWritesSeen == Spec => []SeesQuietWrites
<1>1. QuietInv => SeesQuietWrites
  BY DEF QuietInv, SeesQuietWrites
<1> QED
  BY QuietInvariant, <1>1, PTL
=============================================================================
