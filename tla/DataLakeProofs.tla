---------------------------- MODULE DataLakeProofs ----------------------------
(***************************************************************************)
(* For any number of events, vendors, restarts and failures: types, no     *)
(* event unaccounted for, no event inserted twice by one run, no row lost  *)
(* by the export except one that ages between its SELECT and its DELETE.   *)
(***************************************************************************)
EXTENDS DataLake, TLAPS

Consumers == [pc: {"off", "idle", "poll", "flush", "done"}, pos: 0..MaxOffset,
              batch: SUBSET Offsets, due: BOOLEAN]
Colds == [pc: {"off", "wait", "export", "delete"}, picked: Rows]

(* The worker's place: never behind the commit, past everything in its     *)
(* batch; a stopped process holds nothing.                                 *)
Placed ==
    /\ Running => committed <= consumer.pos
    /\ \A o \in consumer.batch : o <= consumer.pos
    /\ ~Running => consumer = Stopped

(* What this run has not inserted yet was inserted at most once by each of *)
(* the runs before it.                                                     *)
NotYetThisRun ==
    Running => /\ runs > 0
               /\ \A o \in Offsets :
                    o > consumer.pos \/ o \in consumer.batch => written[o] <= runs - 1

(* Between the file and the DELETE the picked rows are held twice.         *)
HeldTwice ==
    cold.pc = "delete" => \A o \in Offsets :
        written[o] + cold.picked[o] <= young[o] + old[o] + archive[o] + slipped[o]

IInv ==
    /\ TypeOK
    /\ Placed
    /\ Accounted
    /\ NotYetThisRun
    /\ OncePerRun
    /\ HeldTwice
    /\ RowsSurvive
-----------------------------------------------------------------------------
(* Helpers.                                                                *)
LEMMA Naturals ==
    /\ MaxOffset \in Nat /\ BatchSize \in Nat /\ MaxRuns \in Nat /\ MaxFaults \in Nat
    /\ VendorOf \in [Offsets -> Vendors]
  BY BoundsAssumption, VendorOfAssumption

LEMMA NoneType == None \in Rows /\ \A o \in Offsets : None[o] = 0
  BY DEF None, Rows

LEMMA CountType ==
    ASSUME NEW S
    PROVE  /\ Count(S) \in Rows
           /\ \A o \in Offsets : Count(S)[o] = IF o \in S THEN 1 ELSE 0
  BY DEF Count, Rows

LEMMA PlusType ==
    ASSUME NEW f \in Rows, NEW g \in Rows
    PROVE  /\ Plus(f, g) \in Rows
           /\ \A o \in Offsets : Plus(f, g)[o] = f[o] + g[o]
  BY DEF Plus, Rows

LEMMA MinusType ==
    ASSUME NEW f \in Rows, NEW g \in Rows
    PROVE  /\ Minus(f, g) \in Rows
           /\ \A o \in Offsets :
                Minus(f, g)[o] = IF f[o] > g[o] THEN f[o] - g[o] ELSE 0
  <1>1. \A o \in Offsets : f[o] \in Nat /\ g[o] \in Nat
    BY DEF Rows
  <1> QED BY <1>1 DEF Minus, Rows

LEMMA StoppedType == Stopped \in Consumers /\ AtRest \in Colds
  BY Naturals, NoneType DEF Stopped, AtRest, Consumers, Colds

LEMMA BatchType ==
    ASSUME TypeOK, NEW v
    PROVE  Of(v) \subseteq consumer.batch /\ Of(v) \subseteq Offsets
  BY DEF Of, TypeOK

LEMMA InitHolds == Init => IInv
  <1> SUFFICES ASSUME Init PROVE IInv
    OBVIOUS
  <1> USE DEF Init
  <1>1. TypeOK
    <2>1. consumer \in Consumers /\ cold \in Colds
      BY StoppedType
    <2>2. 0 \in 0..MaxOffset /\ -1 \in -1..MaxOffset
      BY Naturals
    <2> QED BY <2>1, <2>2, NoneType DEF TypeOK, Consumers, Colds, NoCommit
  <1>2. consumer = Stopped /\ ~Running /\ cold.pc = "off"
    BY DEF Stopped, Running, AtRest
  <1>3. Placed
    BY <1>2 DEF Placed, Stopped
  <1>4. Accounted
    BY <1>2, Naturals DEF Accounted, Reached, NoCommit, Offsets
  <1>5. NotYetThisRun /\ HeldTwice
    BY <1>2 DEF NotYetThisRun, HeldTwice
  <1>6. OncePerRun /\ RowsSurvive
    BY NoneType DEF OncePerRun, RowsSurvive
  <1> QED BY <1>1, <1>3, <1>4, <1>5, <1>6 DEF IInv
-----------------------------------------------------------------------------
(* Types, action by action.                                                *)
LEMMA TypesPublish == TypeOK /\ Publish => TypeOK'
  BY Naturals DEF TypeOK, Publish, rows
LEMMA TypesReachable == TypeOK /\ ReachableChanges => TypeOK'
  BY Naturals DEF TypeOK, ReachableChanges, Fault, rows
LEMMA TypesStart == TypeOK /\ StartProcess => TypeOK'
  <1> SUFFICES ASSUME TypeOK, StartProcess PROVE TypeOK'
    OBVIOUS
  <1>1. Begin \in 0..MaxOffset
    BY Naturals DEF TypeOK, Begin, NoCommit
  <1>2. consumer' \in Consumers
    <2>1. CASE consumer' = [Stopped EXCEPT !.pc = "poll", !.pos = Begin]
      BY <2>1, <1>1 DEF Stopped, Consumers
    <2>2. CASE consumer' = [Stopped EXCEPT !.pc = "idle",
                             !.pos = IF committed = NoCommit THEN 0 ELSE committed]
      <3>1. (IF committed = NoCommit THEN 0 ELSE committed) \in 0..MaxOffset
        BY Naturals DEF TypeOK, NoCommit
      <3> QED BY <2>2, <3>1 DEF Stopped, Consumers
    <2> QED BY <2>1, <2>2 DEF StartProcess
  <1>3. cold' \in Colds
    BY NoneType DEF StartProcess, AtRest, Colds
  <1>4. skipped' \in 0..MaxOffset /\ faults' \in Nat /\ runs' \in Nat
    BY Naturals DEF StartProcess, TypeOK, Fault
  <1>5. client' \in {"none", "ready", "failed"} /\ stop' \in BOOLEAN
    BY DEF StartProcess
  <1> QED BY <1>2, <1>3, <1>4, <1>5 DEF StartProcess, TypeOK, Consumers, Colds, rows
LEMMA TypesCommit == TypeOK /\ AutoCommit => TypeOK'
  BY Naturals DEF TypeOK, AutoCommit, rows
LEMMA TypesDue == TypeOK /\ FlushDue => TypeOK'
  BY Naturals DEF TypeOK, FlushDue, rows
LEMMA TypesReceive == TypeOK /\ Receive => TypeOK'
  <1> SUFFICES ASSUME TypeOK, Receive PROVE TypeOK'
    OBVIOUS
  <1> DEFINE o == consumer.pos + 1
  <1>1. o \in 0..MaxOffset /\ o \in Offsets
    BY Naturals DEF TypeOK, Receive, Offsets
  <1>2. consumer.batch \union {o} \in SUBSET Offsets /\ consumer \in Consumers
    BY <1>1 DEF TypeOK, Consumers
  <1>3. consumer' \in Consumers
    <2>1. CASE stop
      BY <2>1, <1>1, <1>2 DEF Receive, Consumers
    <2>2. CASE ~stop
      BY <2>2, <1>1, <1>2 DEF Receive, Consumers
    <2> QED BY <2>1, <2>2
  <1> QED BY <1>3 DEF Receive, TypeOK, Consumers, rows
LEMMA ClientType == TypeOK => Client \in {"none", "ready", "failed"}
  BY DEF TypeOK, Client
LEMMA FlushedType ==
    ASSUME TypeOK, NEW v
    PROVE  Flushed(v) \in Consumers
  <1> DEFINE left == consumer.batch \ Of(v)
  <1>1. consumer \in Consumers /\ left \in SUBSET Offsets
    BY DEF TypeOK, Consumers
  <1>2. (left # {} /\ consumer.due) \in BOOLEAN
    OBVIOUS
  <1>3. (IF left = {} THEN "poll" ELSE "flush") \in {"off", "idle", "poll", "flush", "done"}
    OBVIOUS
  <1> QED BY <1>1, <1>2, <1>3 DEF Flushed, Consumers
LEMMA TypesWrite == ASSUME NEW v \in Vendors PROVE TypeOK /\ Write(v) => TypeOK'
  <1> SUFFICES ASSUME TypeOK, Write(v) PROVE TypeOK'
    OBVIOUS
  <1>1. client' \in {"none", "ready", "failed"} /\ consumer' \in Consumers
    BY ClientType, FlushedType DEF Write
  <1>2. written \in Rows /\ young \in Rows /\ gone \subseteq Offsets
    BY DEF TypeOK
  <1>3. written' \in Rows /\ young' \in Rows
    BY <1>2, CountType, PlusType DEF Write
  <1>4. gone' \subseteq Offsets
    BY <1>2, BatchType DEF Write
  <1> QED BY <1>1, <1>3, <1>4 DEF Write, TypeOK, Consumers
LEMMA TypesRaise == ASSUME NEW v \in Vendors PROVE TypeOK /\ WriteRaises(v) => TypeOK'
  BY ClientType, Naturals DEF TypeOK, WriteRaises, Fault, rows
LEMMA TypesAge == ASSUME NEW o \in Offsets PROVE TypeOK /\ Age(o) => TypeOK'
  BY DEF TypeOK, Age, Rows
LEMMA TypesCold == TypeOK /\ ColdStep => TypeOK'
  <1> SUFFICES ASSUME TypeOK, ColdStep PROVE TypeOK'
    OBVIOUS
  <1>1. cold \in Colds /\ old \in Rows /\ archive \in Rows /\ slipped \in Rows
    BY DEF TypeOK, Colds
  <1>2. cold.picked \in Rows
    BY <1>1 DEF Colds
  <1>3. CASE ColdSelect
    <2>1. cold' \in Colds
      BY <1>1, <1>3 DEF ColdSelect, Colds
    <2> QED BY <1>3, <2>1, ClientType DEF ColdSelect, TypeOK, Colds, rows
  <1>4. CASE ColdWrite
    <2>1. cold' \in Colds /\ archive' \in Rows
      BY <1>1, <1>2, <1>4, PlusType DEF ColdWrite, Colds
    <2> QED BY <1>4, <2>1 DEF ColdWrite, TypeOK, Colds
  <1>5. CASE ColdDelete
    <2>1. cold' \in Colds
      BY <1>5, NoneType DEF ColdDelete, AtRest, Colds
    <2>2. old' \in Rows /\ slipped' \in Rows
      BY <1>1, <1>2, <1>5, NoneType, MinusType, PlusType DEF ColdDelete
    <2> QED BY <1>5, <2>1, <2>2 DEF ColdDelete, TypeOK, Colds
  <1> QED BY <1>3, <1>4, <1>5 DEF ColdStep
LEMMA TypesColdFails == TypeOK /\ ColdWriteFails => TypeOK'
  <1> SUFFICES ASSUME TypeOK, ColdWriteFails PROVE TypeOK'
    OBVIOUS
  <1>1. cold' \in Colds /\ faults' \in Nat
    BY NoneType DEF ColdWriteFails, AtRest, Colds, Fault, TypeOK
  <1> QED BY <1>1 DEF ColdWriteFails, TypeOK, Colds, rows
LEMMA TypesSignal == TypeOK /\ HandleSignal => TypeOK'
  BY DEF TypeOK, HandleSignal, rows
LEMMA TypesExit == TypeOK /\ Exit => TypeOK'
  <1> SUFFICES ASSUME TypeOK, Exit PROVE TypeOK'
    OBVIOUS
  <1>1. gone' \subseteq Offsets /\ faults' \in Nat
    BY DEF Exit, TypeOK, Fault
  <1>2. consumer' \in Consumers /\ cold' \in Colds
    BY StoppedType DEF Exit
  <1> QED BY <1>1, <1>2 DEF Exit, TypeOK, Consumers, Colds, rows

LEMMA TypesStep == TypeOK /\ [Next]_vars => TypeOK'
  <1> SUFFICES ASSUME TypeOK, [Next]_vars PROVE TypeOK'
    OBVIOUS
  <1>1. CASE UNCHANGED vars
    BY <1>1 DEF TypeOK, vars, rows
  <1> QED
    BY <1>1, TypesPublish, TypesReachable, TypesStart, TypesCommit, TypesDue,
       TypesReceive, TypesWrite, TypesRaise, TypesAge, TypesCold, TypesColdFails,
       TypesSignal, TypesExit DEF Next
-----------------------------------------------------------------------------
(* What each action does to the parts of the invariant.                    *)
LEMMA RunningIs == ASSUME TypeOK PROVE consumer.pc \in {"idle", "poll", "flush", "done"} <=> Running
  BY DEF TypeOK, Running

LEMMA PlacedStep ==
    ASSUME TypeOK, Placed, [Next]_vars, TypeOK'
    PROVE  Placed'
  <1>1. consumer \in Consumers /\ consumer.pos \in 0..MaxOffset /\ committed \in -1..MaxOffset
    BY DEF TypeOK, Consumers
  <1>2. CASE StartProcess
    <2>1. Begin \in 0..MaxOffset /\ committed <= Begin
      BY <1>1, Naturals DEF Begin, NoCommit, TypeOK
    <2>2. CASE consumer' = [Stopped EXCEPT !.pc = "poll", !.pos = Begin]
      BY <1>2, <2>1, <2>2 DEF Stopped, Placed, Running, StartProcess
    <2>3. CASE consumer' = [Stopped EXCEPT !.pc = "idle",
                             !.pos = IF committed = NoCommit THEN 0 ELSE committed]
      BY <1>1, <1>2, <2>3 DEF Stopped, Placed, Running, StartProcess, NoCommit
    <2> QED BY <1>2, <2>2, <2>3 DEF StartProcess
  <1>3. CASE AutoCommit
    BY <1>1, <1>3 DEF AutoCommit, Placed, Running
  <1>4. CASE FlushDue
    BY <1>1, <1>4 DEF FlushDue, Placed, Running, Consumers
  <1>5. CASE Receive
    <2> DEFINE o == consumer.pos + 1
    <2>1. /\ consumer'.pos = o /\ consumer'.batch = consumer.batch \union {o}
          /\ consumer'.pc # "off" /\ Running /\ committed' = committed
      BY <1>1, <1>5 DEF Receive, Consumers, Running
    <2>2. \A x \in consumer.batch : x <= consumer.pos /\ x \in Int
      BY DEF Placed, TypeOK, Offsets
    <2> QED BY <1>1, <2>1, <2>2 DEF Placed, Running
  <1>6. ASSUME NEW v \in Vendors, Write(v) PROVE Placed'
    BY <1>1, <1>6 DEF Write, Flushed, Placed, Running, Consumers
  <1>7. ASSUME NEW v \in Vendors, WriteRaises(v) PROVE Placed'
    BY <1>1, <1>7 DEF WriteRaises, Placed, Running, Consumers
  <1>8. CASE Exit
    BY <1>8 DEF Exit, Stopped, Placed, Running
  <1>9. ASSUME consumer' = consumer, committed' = committed PROVE Placed'
    BY <1>9 DEF Placed, Running
  <1> QED
    BY <1>2, <1>3, <1>4, <1>5, <1>6, <1>7, <1>8, <1>9
    DEF Next, Publish, ReachableChanges, Age, ColdStep, ColdSelect, ColdWrite,
        ColdDelete, ColdWriteFails, HandleSignal, vars

LEMMA AccountedStep ==
    ASSUME TypeOK, Placed, Accounted, [Next]_vars, TypeOK'
    PROVE  Accounted'
  <1>1. /\ consumer \in Consumers /\ consumer.pos \in 0..MaxOffset
        /\ committed \in -1..MaxOffset /\ skipped \in 0..MaxOffset
        /\ written \in Rows /\ written' \in Rows
    BY DEF TypeOK, Consumers
  <1>2. CASE StartProcess
    <2>1. consumer.batch = {} /\ ~Running /\ Reached = committed
      BY <1>2 DEF StartProcess, Placed, Stopped, Reached
    <2>2. written' = written /\ gone' = gone
      BY <1>2 DEF StartProcess, rows
    <2>3. CASE consumer' = [Stopped EXCEPT !.pc = "poll", !.pos = Begin]
               /\ skipped' = IF committed = NoCommit THEN tail ELSE skipped
      <3>1. Reached' = Begin
        BY <2>3 DEF Reached, Running, Stopped
      <3>2. committed = NoCommit => Reached' = skipped'
        BY <2>3, <3>1 DEF Begin
      <3>3. committed # NoCommit => Reached' = Reached /\ skipped' = skipped
        BY <2>1, <2>3, <3>1 DEF Begin
      <3> QED BY <1>1, <2>1, <2>2, <3>2, <3>3, Naturals DEF Accounted, Offsets, TypeOK
    <2>4. CASE consumer' = [Stopped EXCEPT !.pc = "idle",
                             !.pos = IF committed = NoCommit THEN 0 ELSE committed]
               /\ skipped' = skipped
      <3>1. Reached' = IF committed = NoCommit THEN 0 ELSE committed
        BY <2>4 DEF Reached, Running, Stopped
      <3> QED BY <1>1, <2>1, <2>2, <2>4, <3>1, Naturals DEF Accounted, Offsets, NoCommit
    <2> QED BY <1>2, <2>3, <2>4 DEF StartProcess
  <1>3. CASE Receive
    <2> DEFINE o == consumer.pos + 1
    <2>1. /\ consumer'.pos = o /\ consumer'.batch = consumer.batch \union {o}
          /\ Running /\ Running' /\ UNCHANGED <<written, gone, skipped>>
      BY <1>1, <1>3 DEF Receive, Consumers, Running, rows
    <2>2. Reached = consumer.pos /\ Reached' = o
      BY <2>1 DEF Reached
    <2>3. \A x \in Offsets : x <= o => x <= consumer.pos \/ x = o
      BY <1>1 DEF Offsets
    <2> QED BY <2>1, <2>2, <2>3 DEF Accounted
  <1>4. ASSUME NEW v \in Vendors, Write(v) PROVE Accounted'
    <2>1. /\ consumer'.pos = consumer.pos /\ consumer'.batch = consumer.batch \ Of(v)
          /\ Running /\ Running' /\ UNCHANGED skipped
      BY <1>1, <1>4 DEF Write, Flushed, Running, Consumers
    <2>2. Reached' = Reached
      BY <2>1 DEF Reached
    <2>3. CASE /\ written' = Plus(written, Count(Of(v)))
               /\ gone' = gone
      <3>1. \A o \in Offsets : written'[o] >= written[o] /\ (o \in Of(v) => written'[o] > 0)
        BY <1>1, <2>3, CountType, PlusType DEF Rows
      <3> QED BY <1>1, <2>1, <2>2, <2>3, <3>1 DEF Accounted, Rows
    <2>4. CASE gone' = gone \union Of(v) /\ written' = written
      BY <2>1, <2>2, <2>4 DEF Accounted
    <2> QED BY <1>4, <2>3, <2>4 DEF Write
  <1>5. CASE Exit
    <2>1. Running /\ ~Running' /\ Reached = consumer.pos /\ Reached' = committed
      BY <1>5 DEF Exit, Running, Reached, Stopped
    <2>2. /\ gone' = gone \union {o \in consumer.batch : o <= committed}
          /\ written' = written /\ skipped' = skipped
      BY <1>5 DEF Exit, rows
    <2>3. \A o \in Offsets : o <= committed => o <= consumer.pos
      BY <1>1, <2>1 DEF Placed, Offsets
    <2> QED BY <2>1, <2>2, <2>3 DEF Accounted
  <1>6. ASSUME Reached' = Reached, consumer'.batch = consumer.batch,
               UNCHANGED <<written, gone, skipped>>
        PROVE  Accounted'
    BY <1>6 DEF Accounted
  <1>7. CASE AutoCommit
    BY <1>6, <1>7 DEF AutoCommit, Reached, Running, rows
  <1>8. CASE FlushDue
    BY <1>1, <1>6, <1>8 DEF FlushDue, Reached, Running, rows, Consumers
  <1>9. ASSUME NEW v \in Vendors, WriteRaises(v) PROVE Accounted'
    BY <1>1, <1>6, <1>9 DEF WriteRaises, Reached, Running, rows, Consumers
  <1>10. ASSUME UNCHANGED <<consumer, committed, written, gone, skipped>>
         PROVE  Accounted'
    BY <1>6, <1>10 DEF Reached, Running
  <1> QED
    BY <1>2, <1>3, <1>4, <1>5, <1>7, <1>8, <1>9, <1>10
    DEF Next, Publish, ReachableChanges, Age, ColdStep, ColdSelect, ColdWrite,
        ColdDelete, ColdWriteFails, HandleSignal, vars, rows

LEMMA OnceStep ==
    ASSUME TypeOK, Placed, NotYetThisRun, OncePerRun, [Next]_vars, TypeOK'
    PROVE  NotYetThisRun' /\ OncePerRun'
  <1>1. /\ consumer \in Consumers /\ consumer.pos \in 0..MaxOffset
        /\ runs \in Nat /\ written \in Rows /\ \A o \in Offsets : written[o] \in Nat
    BY DEF TypeOK, Consumers, Rows
  <1>2. CASE StartProcess
    <2>1. runs' = runs + 1 /\ written' = written /\ ~Running
      BY <1>2 DEF StartProcess, rows
    <2> QED BY <1>1, <2>1 DEF NotYetThisRun, OncePerRun
  <1>3. CASE Receive
    <2> DEFINE o == consumer.pos + 1
    <2>1. /\ consumer'.pos = o /\ consumer'.batch = consumer.batch \union {o}
          /\ Running /\ Running' /\ UNCHANGED <<written, runs>>
      BY <1>1, <1>3 DEF Receive, Consumers, Running, rows
    <2>2. \A x \in Offsets : x > o => x > consumer.pos
      BY <1>1 DEF Offsets
    <2>3. o > consumer.pos
      BY <1>1
    <2> QED BY <2>1, <2>2, <2>3 DEF NotYetThisRun, OncePerRun
  <1>4. ASSUME NEW v \in Vendors, Write(v) PROVE NotYetThisRun' /\ OncePerRun'
    <2>1. /\ consumer'.pos = consumer.pos /\ consumer'.batch = consumer.batch \ Of(v)
          /\ Running /\ Running' /\ runs' = runs
      BY <1>1, <1>4 DEF Write, Flushed, Running, Consumers
    <2>2. CASE written' = Plus(written, Count(Of(v)))
      <3>1. \A o \in Offsets : written'[o] = written[o] + IF o \in Of(v) THEN 1 ELSE 0
        BY <1>1, <2>2, CountType, PlusType
      <3>2. \A o \in Offsets : o \in Of(v) => o \in consumer.batch /\ o <= consumer.pos
        BY BatchType DEF Placed
      <3>3. \A o \in Offsets : o \in Of(v) => ~(o > consumer.pos)
        BY <1>1, <3>2 DEF Offsets
      <3> QED BY <1>1, <2>1, <3>1, <3>2, <3>3 DEF NotYetThisRun, OncePerRun
    <2>3. CASE written' = written
      BY <2>1, <2>3 DEF NotYetThisRun, OncePerRun
    <2> QED BY <1>4, <2>2, <2>3 DEF Write
  <1>5. CASE Exit
    BY <1>5 DEF Exit, Running, Stopped, rows, NotYetThisRun, OncePerRun
  <1>6. ASSUME UNCHANGED <<runs, written>>, consumer'.pos = consumer.pos,
               consumer'.batch = consumer.batch, Running' = Running
        PROVE  NotYetThisRun' /\ OncePerRun'
    BY <1>6 DEF NotYetThisRun, OncePerRun
  <1>7. CASE FlushDue
    BY <1>1, <1>6, <1>7 DEF FlushDue, Running, rows, Consumers
  <1>8. ASSUME NEW v \in Vendors, WriteRaises(v) PROVE NotYetThisRun' /\ OncePerRun'
    BY <1>1, <1>6, <1>8 DEF WriteRaises, Running, rows, Consumers
  <1>9. ASSUME UNCHANGED <<consumer, runs, written>>
        PROVE  NotYetThisRun' /\ OncePerRun'
    BY <1>6, <1>9 DEF Running
  <1> QED
    BY <1>2, <1>3, <1>4, <1>5, <1>7, <1>8, <1>9
    DEF Next, Publish, ReachableChanges, AutoCommit, Age, ColdStep, ColdSelect,
        ColdWrite, ColdDelete, ColdWriteFails, HandleSignal, vars, rows

LEMMA RowsStep ==
    ASSUME TypeOK, HeldTwice, RowsSurvive, [Next]_vars, TypeOK'
    PROVE  HeldTwice' /\ RowsSurvive'
  <1>1. /\ young \in Rows /\ old \in Rows /\ archive \in Rows /\ written \in Rows
        /\ slipped \in Rows /\ cold \in Colds /\ cold.picked \in Rows
    BY DEF TypeOK, Colds
  <1>2. \A o \in Offsets :
          /\ young[o] \in Nat /\ old[o] \in Nat /\ archive[o] \in Nat
          /\ written[o] \in Nat /\ slipped[o] \in Nat /\ cold.picked[o] \in Nat
    BY <1>1 DEF Rows
  <1>3. ASSUME NEW v \in Vendors, Write(v) PROVE HeldTwice' /\ RowsSurvive'
    <2>1. cold' = cold /\ UNCHANGED <<old, archive, slipped>>
      BY <1>3 DEF Write
    <2>2. CASE /\ written' = Plus(written, Count(Of(v)))
               /\ young' = Plus(young, Count(Of(v)))
      <3>1. \A o \in Offsets :
              /\ written'[o] = written[o] + Count(Of(v))[o]
              /\ young'[o] = young[o] + Count(Of(v))[o]
              /\ Count(Of(v))[o] \in Nat
        BY <1>1, <2>2, CountType, PlusType
      <3> QED BY <1>2, <2>1, <3>1 DEF HeldTwice, RowsSurvive
    <2>3. CASE UNCHANGED <<written, young>>
      BY <2>1, <2>3 DEF HeldTwice, RowsSurvive
    <2> QED BY <1>3, <2>2, <2>3 DEF Write
  <1>4. ASSUME NEW o \in Offsets, Age(o) PROVE HeldTwice' /\ RowsSurvive'
    <2>1. UNCHANGED <<cold, archive, slipped, written>>
      BY <1>4 DEF Age
    <2>2. \A x \in Offsets : young'[x] + old'[x] = young[x] + old[x]
                             /\ young'[x] \in Nat /\ old'[x] \in Nat
      BY <1>1, <1>2, <1>4 DEF Age, Rows
    <2> QED BY <1>2, <2>1, <2>2 DEF HeldTwice, RowsSurvive
  <1>5. CASE ColdSelect
    <2>1. cold'.pc # "delete"
      BY <1>1, <1>5 DEF ColdSelect, Colds
    <2> QED BY <1>5, <2>1 DEF ColdSelect, rows, HeldTwice, RowsSurvive
  <1>6. CASE ColdWrite
    <2>1. cold'.picked = cold.picked /\ UNCHANGED <<young, old, written, slipped>>
      BY <1>1, <1>6 DEF ColdWrite, Colds
    <2>2. \A o \in Offsets : archive'[o] = archive[o] + cold.picked[o]
      BY <1>1, <1>6, PlusType DEF ColdWrite
    <2> QED BY <1>2, <2>1, <2>2 DEF HeldTwice, RowsSurvive
  <1>7. CASE ColdDelete
    <2>1. cold'.pc # "delete" /\ UNCHANGED <<young, archive, written>>
      BY <1>7 DEF ColdDelete, AtRest
    <2>2. CASE old' = None /\ slipped' = Plus(slipped, Minus(old, cold.picked))
      <3>1. \A o \in Offsets :
              /\ old'[o] = 0
              /\ slipped'[o] = slipped[o]
                   + IF old[o] > cold.picked[o] THEN old[o] - cold.picked[o] ELSE 0
        BY <1>1, <2>2, NoneType, MinusType, PlusType
      <3>2. \A o \in Offsets :
              written[o] + cold.picked[o] <= young[o] + old[o] + archive[o] + slipped[o]
        BY <1>7 DEF ColdDelete, HeldTwice
      <3>3. \A o \in Offsets : written[o] <= young[o] + old'[o] + archive[o] + slipped'[o]
        BY <1>2, <3>1, <3>2
      <3> QED BY <2>1, <3>3 DEF HeldTwice, RowsSurvive
    <2>3. CASE UNCHANGED <<old, slipped>>
      BY <2>1, <2>3 DEF HeldTwice, RowsSurvive
    <2> QED BY <1>7, <2>2, <2>3 DEF ColdDelete
  <1>8. ASSUME cold'.pc # "delete" \/ cold' = cold,
               UNCHANGED <<young, old, archive, written, slipped>>
        PROVE  HeldTwice' /\ RowsSurvive'
    BY <1>8 DEF HeldTwice, RowsSurvive
  <1>9. CASE StartProcess \/ Exit \/ ColdWriteFails
    <2>1. cold'.pc # "delete"
      BY <1>9 DEF StartProcess, Exit, ColdWriteFails, AtRest
    <2> QED BY <1>8, <1>9, <2>1 DEF StartProcess, Exit, ColdWriteFails, rows
  <1> QED
    BY <1>3, <1>4, <1>5, <1>6, <1>7, <1>8, <1>9
    DEF Next, Publish, ReachableChanges, AutoCommit, FlushDue, Receive,
        WriteRaises, ColdStep, HandleSignal, vars, rows

LEMMA Inductive == IInv /\ [Next]_vars => IInv'
  BY TypesStep, PlacedStep, AccountedStep, OnceStep, RowsStep DEF IInv
-----------------------------------------------------------------------------
(* IInv holds in every reachable state.                                    *)
LEMMA Invariance == Spec => []IInv
  BY InitHolds, Inductive, PTL DEF Spec

(* Types hold for any log and any number of runs and failures.             *)
THEOREM TypeCorrect == Spec => []TypeOK
  <1>1. IInv => TypeOK
    BY DEF IInv
  <1> QED BY <1>1, Invariance, PTL

(* Behind the worker's position every event is inserted, in memory or lost *)
(* in one of the three ways Accounted names (_consume_loop, write_events). *)
THEOREM EveryEventAccounted == Spec => []Accounted
  <1>1. IInv => Accounted
    BY DEF IInv
  <1> QED BY <1>1, Invariance, PTL

(* A run of the process inserts an event at most once, whatever is         *)
(* committed when (write_events, the consumer's auto-commit).              *)
THEOREM InsertedOncePerRun == Spec => []OncePerRun
  <1>1. IInv => OncePerRun
    BY DEF IInv
  <1> QED BY <1>1, Invariance, PTL

(* The export loses no row but those that age between its SELECT and its   *)
(* DELETE (export_and_purge_older_than).                                   *)
THEOREM ExportLosesNoRow == Spec => []RowsSurvive
  <1>1. IInv => RowsSurvive
    BY DEF IInv
  <1> QED BY <1>1, Invariance, PTL
=============================================================================
