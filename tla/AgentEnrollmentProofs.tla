------------------------ MODULE AgentEnrollmentProofs ------------------------
(***************************************************************************)
(* For any hosts, names, UUIDs, handler threads, timeouts and failures:    *)
(* types, the bound on overrun deployment tokens, and that a host whose    *)
(* requests were answered holds the token of its row.                      *)
(***************************************************************************)
EXTENDS AgentEnrollment, FiniteSetTheorems, TLAPS

(* What a row may be after the next enrolment.                             *)
NextRow == [table : {"edr", "collector"}, name : Names, uuid : Uuids \union {None},
            token : 1..(minted + 1), active : BOOLEAN, by : Machines \union {None},
            self : BOOLEAN]

(* The parts of TypeOK that an action leaves alone.                        *)
FixedTypes ==
    /\ kind \in [Machines -> {"edr", "collector"}]
    /\ uuid \in [Machines -> Uuids \union {None}]
CountTypes ==
    /\ used \in Nat
    /\ valid \in BOOLEAN
    /\ unheard \in SUBSET Machines
    /\ ops \in Nat
    /\ faults \in Nat
HostTypes ==
    /\ name \in [Machines -> Names]
    /\ disk \in [Machines -> Idents]
    /\ mem \in [Machines -> Idents \union {Down}]
    /\ call \in [Machines -> Calls]
RequestTypes ==
    /\ req \in [Handlers -> Requests]
    /\ \A h \in Handlers :
         req[h].pc # "idle" => req[h].for \in Machines /\ req[h].name \in Names
RowTypes == rows \in Seq(RowType) /\ minted \in Nat

LEMMA TypeParts ==
    TypeOK <=> FixedTypes /\ CountTypes /\ HostTypes /\ RequestTypes /\ RowTypes
  BY DEF TypeOK, FixedTypes, CountTypes, HostTypes, RequestTypes, RowTypes

LEMMA TypesHold ==
    ASSUME FixedTypes', CountTypes', HostTypes', RequestTypes', RowTypes'
    PROVE  TypeOK'
  BY DEF TypeOK, FixedTypes, CountTypes, HostTypes, RequestTypes, RowTypes

(* The records the steps build.                                            *)
LEMMA IdentTypes ==
    ASSUME RowTypes
    PROVE  /\ Unknown \in Idents
           /\ Idle \in Requests
           /\ NoCall \in Calls
  BY DEF RowTypes, Unknown, Ident, Idents, Idle, Requests, Steps, NoCall, Calls

LEMMA SentType ==
    ASSUME NEW m \in Machines, NEW n \in Names, NEW dep \in BOOLEAN, RowTypes
    PROVE  [pc |-> "check", for |-> m, name |-> n, dep |-> dep, reply |-> Unknown]
             \in Requests
  BY IdentTypes DEF Requests, Steps

LEMMA CallType ==
    ASSUME NEW by \in {"installer", "agent"}, NEW h \in Handlers
    PROVE  [by |-> by, handler |-> h] \in Calls /\ [by |-> by, handler |-> h] # NoCall
  BY NoneAssumption DEF Calls, NoCall

LEMMA GotoType ==
    ASSUME NEW r \in Requests, NEW pc \in Steps
    PROVE  [r EXCEPT !.pc = pc] \in Requests
  BY DEF Requests

LEMMA RepliedType ==
    ASSUME NEW r \in Requests, NEW ident \in Idents
    PROVE  [r EXCEPT !.pc = "reply", !.reply = ident] \in Requests
  BY DEF Requests, Steps

LEMMA SavedType ==
    ASSUME HostTypes, RowTypes, NEW m \in Machines, NEW by, NEW got \in Idents
    PROVE  Saved(m, by, got) \in Idents
  BY DEF HostTypes, RowTypes, Saved, Ident, Idents

LEMMA NewRowType ==
    ASSUME RowTypes, NEW t \in {"edr", "collector"}, NEW n \in Names,
           NEW u \in Uuids \union {None}, NEW by \in Machines \union {None}
    PROVE  Row(t, n, u, minted + 1, by) \in NextRow
  BY DEF RowTypes, Row, NextRow

LEMMA RowsAreNextRows == RowTypes => RowType \subseteq NextRow
  BY DEF RowTypes, RowType, NextRow

LEMMA RetokenType ==
    ASSUME RowTypes, NEW r \in RowType, NEW h \in Handlers, req[h].for \in Machines
    PROVE  Retoken(r, h) \in NextRow
  <1> DEFINE on == r.active \/ Table(h) = "collector"
  <1>1. on \in BOOLEAN
    OBVIOUS
  <1>2. r \in NextRow /\ minted + 1 \in 1..(minted + 1)
    BY RowsAreNextRows DEF RowTypes
  <1> HIDE DEF on
  <1>3. [r EXCEPT !.token = minted + 1, !.by = req[h].for, !.active = on] \in NextRow
    BY <1>1, <1>2 DEF NextRow
  <1> QED
    BY <1>3 DEF Retoken, on

LEMMA ByUuidType ==
    ASSUME RowTypes, RequestTypes, NEW r \in RowType, NEW h \in Handlers,
           req[h].pc # "idle"
    PROVE  ByUuidSets(r, h) \in NextRow
  <1>1. req[h].for \in Machines /\ req[h].name \in Names
    BY DEF RequestTypes
  <1>2. Retoken(r, h) \in NextRow
    BY <1>1, RetokenType
  <1> QED
    BY <1>1, <1>2 DEF ByUuidSets, NextRow

LEMMA ByNameType ==
    ASSUME RowTypes, RequestTypes, FixedTypes, NEW r \in RowType, NEW h \in Handlers,
           req[h].pc # "idle"
    PROVE  ByNameSets(r, h) \in NextRow
  <1>1. req[h].for \in Machines
    BY DEF RequestTypes
  <1>2. Retoken(r, h) \in NextRow
    BY <1>1, RetokenType
  <1>3. (IF r.uuid = None THEN uuid[req[h].for] ELSE r.uuid) \in Uuids \union {None}
    BY <1>1 DEF FixedTypes, RowType
  <1> QED
    BY <1>2, <1>3 DEF ByNameSets, NextRow

(* Rows are only added, and tokens only made.                              *)
LEMMA TypesGrow ==
    ASSUME RowTypes, RowTypes', Len(rows) <= Len(rows'), minted <= minted'
    PROVE  Idents \subseteq Idents' /\ Requests \subseteq Requests'
  <1>1. Len(rows) \in Nat /\ Len(rows') \in Nat /\ minted \in Nat /\ minted' \in Nat
    BY DEF RowTypes
  <1>2. Idents \subseteq Idents'
    BY <1>1 DEF Idents
  <1> QED
    BY <1>2 DEF Requests

LEMMA HostTypesGrow ==
    ASSUME HostTypes, Idents \subseteq Idents', UNCHANGED <<name, disk, mem, call>>
    PROVE  HostTypes'
  <1>1. disk' \in [Machines -> Idents'] /\ mem' \in [Machines -> Idents' \union {Down}]
    BY DEF HostTypes
  <1> QED
    BY <1>1 DEF HostTypes, Calls

(* A request sent by a host.                                               *)
LEMMA SendTypes ==
    ASSUME TypeOK, NEW m \in Machines, NEW by \in {"installer", "agent"},
           NEW dep \in BOOLEAN, Send(m, by, dep), UNCHANGED <<rows, minted>>
    PROVE  /\ RequestTypes'
           /\ call' \in [Machines -> Calls]
  <1> DEFINE h == CHOOSE f \in Handlers : f \in Free
             new == [pc |-> "check", for |-> m, name |-> name[m], dep |-> dep,
                     reply |-> Unknown]
  <1>1. h \in Handlers
    BY DEF Send, Free
  <1>2. name[m] \in Names /\ RowTypes
    BY DEF TypeOK, RowTypes
  <1>3. new \in Requests
    BY <1>2, SentType
  <1>4. Requests' = Requests
    BY DEF Requests, Idents
  <1>5. req' = [req EXCEPT ![h] = new] /\ call' = [call EXCEPT ![m] = [by |-> by, handler |-> h]]
    BY DEF Send
  <1>6. [by |-> by, handler |-> h] \in Calls
    BY <1>1, CallType
  <1> HIDE DEF h
  <1> QED
    BY <1>1, <1>2, <1>3, <1>4, <1>5, <1>6 DEF TypeOK, RequestTypes

(* A handler moves on or answers.                                          *)
LEMMA GotoTypes ==
    ASSUME RequestTypes, NEW h \in Handlers, req[h].pc # "idle", NEW pc \in Steps,
           Goto(h, pc), UNCHANGED <<rows, minted>>
    PROVE  RequestTypes'
  <1>1. Requests' = Requests
    BY DEF Requests, Idents
  <1>2. [req[h] EXCEPT !.pc = pc] \in Requests
    BY GotoType DEF RequestTypes
  <1>3. req' = [req EXCEPT ![h] = [req[h] EXCEPT !.pc = pc]]
    BY DEF Goto, RequestTypes
  <1> QED
    BY <1>1, <1>2, <1>3 DEF RequestTypes, Requests

LEMMA ReplyTypes ==
    ASSUME RowTypes, RowTypes', RequestTypes, Requests \subseteq Requests',
           NEW h \in Handlers, req[h].pc # "idle", NEW ident \in Idents', Reply(h, ident)
    PROVE  RequestTypes'
  <1>1. Idle \in Requests'
    BY IdentTypes
  <1>2. req[h] \in Requests'
    BY DEF RequestTypes
  <1>3. [req[h] EXCEPT !.pc = "reply", !.reply = ident] \in Requests'
    BY <1>2 DEF Requests, Steps
  <1> DEFINE new == IF \E m \in Machines : call[m].handler = h
                    THEN [req[h] EXCEPT !.pc = "reply", !.reply = ident] ELSE Idle
  <1>4. new \in Requests' /\ req' = [req EXCEPT ![h] = new]
    BY <1>1, <1>3 DEF Reply
  <1>5. new.pc # "idle" => new.for = req[h].for /\ new.name = req[h].name
    BY DEF Idle, RequestTypes, Requests
  <1> HIDE DEF new
  <1> QED
    BY <1>4, <1>5 DEF RequestTypes

(* A statement of the match that changes rows.                             *)
LEMMA CommitTypes ==
    ASSUME TypeOK, NEW h \in Handlers, req[h].pc # "idle",
           NEW new \in Seq(NextRow), Len(rows) <= Len(new), NEW id \in 1..Len(new),
           Commit(h, new, id), UNCHANGED <<name, disk, mem, call>>
    PROVE  HostTypes' /\ RequestTypes' /\ RowTypes'
  <1>0. HostTypes /\ RequestTypes /\ RowTypes
    BY TypeParts
  <1>1. CASE Unique(new)
    <2>1. rows' = new /\ minted' = minted + 1 /\ Reply(h, Ident(id, minted + 1))
      BY <1>1 DEF Commit
    <2>2. RowType' = NextRow
      BY <2>1 DEF RowType, NextRow
    <2>3. RowTypes'
      BY <1>0, <2>1, <2>2 DEF RowTypes
    <2>4. Idents \subseteq Idents' /\ Requests \subseteq Requests'
      BY <1>0, <2>1, <2>3, TypesGrow DEF RowTypes
    <2>5. Ident(id, minted + 1) \in Idents'
      BY <1>0, <2>1 DEF Ident, Idents, RowTypes
    <2>6. RequestTypes'
      BY <1>0, <2>1, <2>3, <2>4, <2>5, ReplyTypes
    <2> QED
      BY <1>0, <2>3, <2>4, <2>6, HostTypesGrow
  <1>2. CASE ~Unique(new)
    <2>1. UNCHANGED <<rows, minted>> /\ Reply(h, Unknown)
      BY <1>2 DEF Commit
    <2>2. RowTypes' /\ Idents' = Idents /\ Requests' = Requests
      BY <1>0, <2>1 DEF RowTypes, RowType, Idents, Requests
    <2>3. RequestTypes'
      BY <1>0, <2>1, <2>2, ReplyTypes, IdentTypes
    <2> QED
      BY <1>0, <2>2, <2>3, HostTypesGrow
  <1> QED
    BY <1>1, <1>2

LEMMA InitTypes == Init => TypeOK
  <1> SUFFICES ASSUME Init PROVE TypeOK
    OBVIOUS
  <1>1. RowTypes
    BY DEF Init, RowTypes
  <1>2. FixedTypes /\ CountTypes
    BY DEF Init, FixedTypes, CountTypes
  <1>3. HostTypes
    BY <1>1, IdentTypes DEF Init, HostTypes
  <1>4. RequestTypes
    BY <1>1, IdentTypes DEF Init, RequestTypes, Idle
  <1> QED
    BY <1>1, <1>2, <1>3, <1>4, TypeParts

(* Steps that make no row and no token.                                    *)
LEMMA QuietTypes ==
    ASSUME TypeOK, UNCHANGED <<rows, minted>>
    PROVE  /\ RowTypes'
           /\ Idents' = Idents
           /\ Requests' = Requests
           /\ UNCHANGED <<disk, mem, name, call>> => HostTypes'
           /\ UNCHANGED req => RequestTypes'
  BY DEF TypeOK, RowTypes, RowType, Idents, Requests, Calls, HostTypes, RequestTypes

LEMMA HostStepTypes ==
    ASSUME TypeOK, NEW m \in Machines, HostStep(m)
    PROVE  TypeOK'
  <1>0. FixedTypes /\ CountTypes /\ HostTypes /\ RequestTypes /\ RowTypes
    BY TypeParts
  <1>1. UNCHANGED <<kind, uuid, rows, minted>>
    BY DEF HostStep, Install, Start, StartFresh, Recover, Receive, GiveUp, Rename, host
  <1>2. FixedTypes' /\ RowTypes' /\ Idents' = Idents /\ Requests' = Requests
    BY <1>0, <1>1, QuietTypes DEF FixedTypes
  <1>3. CountTypes'
    <2>1. UNCHANGED <<used, valid>> /\ ops' \in {ops, ops + 1} /\ faults' \in {faults, faults + 1}
      BY DEF HostStep, Install, Start, StartFresh, Recover, Receive, GiveUp, Rename, Op, Fault
    <2>2. unheard' = unheard \/ unheard' = unheard \union {m}
      BY DEF HostStep, Install, Start, StartFresh, Recover, Receive, GiveUp, Rename
    <2> QED
      BY <1>0, <2>1, <2>2 DEF CountTypes
  <1>4. HostTypes' /\ RequestTypes'
    <2>1. CASE Install(m)
      <3>1. RequestTypes' /\ call' \in [Machines -> Calls]
        BY <1>1, <2>1, SendTypes DEF Install
      <3> QED
        BY <1>0, <1>2, <2>1, <3>1, IdentTypes DEF Install, HostTypes, Calls
    <2>2. CASE Start(m)
      BY <1>0, <1>1, <1>2, <2>2, QuietTypes DEF Start, HostTypes, Calls
    <2>3. CASE StartFresh(m)
      <3>1. (kind[m] = "collector") \in BOOLEAN
        OBVIOUS
      <3>2. RequestTypes' /\ call' \in [Machines -> Calls]
        BY <1>1, <2>3, <3>1, SendTypes DEF StartFresh
      <3> QED
        BY <1>0, <1>2, <2>3, <3>2, IdentTypes DEF StartFresh, HostTypes, Calls
    <2>4. CASE Recover(m)
      <3>1. RequestTypes' /\ call' \in [Machines -> Calls]
        BY <1>1, <2>4, SendTypes DEF Recover
      <3> QED
        BY <1>0, <1>2, <2>4, <3>1 DEF Recover, HostTypes, Calls
    <2>5. CASE Receive(m)
      <3> DEFINE h == call[m].handler
                 got == req[h].reply
                 by == call[m].by
      <3>1. h \in Handlers
        BY <1>0, <2>5 DEF HostTypes, Calls, Receive, Waiting
      <3>2. RequestTypes'
        BY <1>0, <1>2, <2>5, IdentTypes DEF Receive, RequestTypes, Idle
      <3>3. call' \in [Machines -> Calls]
        BY <1>0, <2>5, IdentTypes DEF Receive, HostTypes
      <3>4. name' = name
        BY <2>5 DEF Receive
      <3>5. disk' \in [Machines -> Idents] /\ mem' \in [Machines -> Idents \union {Down}]
        <4>1. CASE got = Unknown
          BY <1>0, <2>5, <4>1 DEF Receive, HostTypes
        <4>2. CASE got # Unknown
          <5>1. /\ disk' = [disk EXCEPT ![m] = Saved(m, by, got)]
                /\ mem' = IF by = "agent" THEN [mem EXCEPT ![m] = got] ELSE mem
            BY <2>5, <4>2 DEF Receive
          <5>2. got \in Idents
            BY <1>0, <3>1 DEF RequestTypes, Requests
          <5>3. Saved(m, by, got) \in Idents
            BY <1>0, <5>2, SavedType
          <5> HIDE DEF got, by
          <5> QED
            BY <1>0, <5>1, <5>2, <5>3 DEF HostTypes
        <4> QED
          BY <4>1, <4>2
      <3> QED
        BY <1>0, <1>2, <3>2, <3>3, <3>4, <3>5 DEF HostTypes, Calls
    <2>6. CASE GiveUp(m)
      <3>1. call' \in [Machines -> Calls]
        BY <1>0, <2>6, IdentTypes DEF GiveUp, HostTypes
      <3>2. RequestTypes'
        BY <1>0, <1>2, <2>6, IdentTypes DEF GiveUp, RequestTypes, Idle
      <3> QED
        BY <1>0, <1>2, <2>6, <3>1, <3>2 DEF GiveUp, HostTypes, Calls
    <2>7. CASE Rename(m)
      BY <1>0, <1>1, <1>2, <2>7, QuietTypes DEF Rename, HostTypes, Calls
    <2> QED
      BY <2>1, <2>2, <2>3, <2>4, <2>5, <2>6, <2>7 DEF HostStep
  <1> QED
    BY <1>2, <1>3, <1>4, TypesHold

LEMMA HandlerStepTypes ==
    ASSUME TypeOK, NEW h \in Handlers, HandlerStep(h) \/ RequestFails(h)
    PROVE  TypeOK'
  <1>0. FixedTypes /\ CountTypes /\ HostTypes /\ RequestTypes /\ RowTypes
    BY TypeParts
  <1>1. UNCHANGED <<kind, uuid, name, disk, mem, call>>
    BY DEF HandlerStep, Check, Count, MatchUuid, MatchName, Insert, RequestFails, host
  <1>2. req[h].pc # "idle" /\ req[h].for \in Machines /\ req[h].name \in Names
    BY <1>0 DEF HandlerStep, Check, Count, MatchUuid, MatchName, Insert, RequestFails, At,
       RequestTypes
  <1>3. FixedTypes'
    BY <1>0, <1>1 DEF FixedTypes
  <1>4. CountTypes'
    <2>1. /\ UNCHANGED <<valid, unheard, ops>>
          /\ faults' \in {faults, faults + 1}
          /\ used' \in {used, used + 1}
      BY DEF HandlerStep, Check, Count, MatchUuid, MatchName, Insert, RequestFails, Fault
    <2> QED
      BY <1>0, <2>1 DEF CountTypes
  <1>5. HostTypes' /\ RequestTypes' /\ RowTypes'
    <2>1. ASSUME UNCHANGED <<rows, minted>>, Reply(h, Unknown)
          PROVE  HostTypes' /\ RequestTypes' /\ RowTypes'
      <3>1. RowTypes' /\ HostTypes' /\ Idents' = Idents /\ Requests' = Requests
        BY <1>1, <2>1, QuietTypes
      <3> QED
        BY <1>0, <1>2, <2>1, <3>1, ReplyTypes, IdentTypes
    <2>2. ASSUME UNCHANGED <<rows, minted>>, NEW pc \in Steps, Goto(h, pc)
          PROVE  HostTypes' /\ RequestTypes' /\ RowTypes'
      <3>1. RowTypes' /\ HostTypes'
        BY <1>1, <2>2, QuietTypes
      <3> QED
        BY <1>0, <1>2, <2>2, <3>1, GotoTypes
    <2>3. RowType \subseteq NextRow /\ Len(rows) \in Nat /\ DOMAIN rows = 1..Len(rows)
      BY <1>0, RowsAreNextRows DEF RowTypes
    <2>4. ASSUME NEW new \in [DOMAIN rows -> NextRow], NEW id \in DOMAIN rows,
                 Commit(h, new, id)
          PROVE  HostTypes' /\ RequestTypes' /\ RowTypes'
      <3>1. new \in Seq(NextRow) /\ Len(new) = Len(rows)
        BY <2>3, <2>4
      <3> QED
        BY <1>1, <1>2, <2>3, <2>4, <3>1, CommitTypes
    <2>5. \A i \in DOMAIN rows : rows[i] \in RowType
      BY <1>0 DEF RowTypes
    <2>6. CASE Check(h)
      BY <2>1, <2>2, <2>6 DEF Check, Steps
    <2>7. CASE Count(h)
      BY <2>2, <2>7 DEF Count, Steps
    <2>8. CASE RequestFails(h)
      BY <2>1, <2>8 DEF RequestFails
    <2>9. CASE MatchUuid(h)
      <3> DEFINE hit == {i \in DOMAIN rows : HasUuid(rows[i], h)}
                 new == [i \in DOMAIN rows |->
                           IF i \in hit THEN ByUuidSets(rows[i], h) ELSE rows[i]]
      <3>1. new \in [DOMAIN rows -> NextRow]
        BY <1>0, <1>2, <2>3, <2>5, ByUuidType
      <3>2. \/ Goto(h, "name") /\ UNCHANGED <<rows, minted>>
            \/ \E id \in DOMAIN rows : Commit(h, new, id)
        BY <2>9 DEF MatchUuid
      <3> HIDE DEF new
      <3> QED
        BY <2>2, <2>4, <3>1, <3>2 DEF Steps
    <2>10. CASE MatchName(h)
      <3> DEFINE hit == {i \in DOMAIN rows : HasName(rows[i], h)}
                 new == [i \in DOMAIN rows |->
                           IF i \in hit THEN ByNameSets(rows[i], h) ELSE rows[i]]
      <3>1. new \in [DOMAIN rows -> NextRow]
        BY <1>0, <1>2, <2>3, <2>5, ByNameType
      <3>2. \/ Goto(h, "insert") /\ UNCHANGED <<rows, minted>>
            \/ \E id \in DOMAIN rows : Commit(h, new, id)
        BY <2>10 DEF MatchName
      <3> HIDE DEF new
      <3> QED
        BY <2>2, <2>4, <3>1, <3>2 DEF Steps
    <2>11. CASE Insert(h)
      <3> DEFINE m == req[h].for
                 row == Row(Table(h), req[h].name, uuid[m], minted + 1, m)
                 new == Append(rows, row)
      <3>1. Table(h) \in {"edr", "collector"} /\ uuid[m] \in Uuids \union {None}
        BY <1>0, <1>2 DEF FixedTypes, Table
      <3>2. row \in NextRow
        BY <1>0, <1>2, <3>1, NewRowType
      <3>3. rows \in Seq(NextRow)
        BY <1>0, <2>3 DEF RowTypes
      <3>4. Commit(h, new, Len(new))
        BY <2>11 DEF Insert
      <3> HIDE DEF row
      <3>5. new \in Seq(NextRow) /\ Len(new) = Len(rows) + 1
        BY <3>2, <3>3
      <3> HIDE DEF new
      <3> QED
        BY <1>1, <1>2, <2>3, <3>4, <3>5, CommitTypes
    <2> QED
      BY <2>6, <2>7, <2>8, <2>9, <2>10, <2>11 DEF HandlerStep
  <1> QED
    BY <1>3, <1>4, <1>5, TypesHold

LEMMA OperatorTypes ==
    ASSUME TypeOK, \/ \E n \in Names : AdminEnroll(n)
                   \/ \E i \in DOMAIN rows : Remove(i)
                   \/ Revoke
    PROVE  TypeOK'
  <1>0. FixedTypes /\ CountTypes /\ HostTypes /\ RequestTypes /\ RowTypes
    BY TypeParts
  <1>1. UNCHANGED <<kind, uuid, name, disk, mem, call, req>>
    BY DEF AdminEnroll, Remove, Revoke, host
  <1>2. FixedTypes' /\ CountTypes'
    <2>1. UNCHANGED <<used, unheard, faults>> /\ ops' = ops + 1 /\ valid' \in {valid, FALSE}
      BY DEF AdminEnroll, Remove, Revoke, Op
    <2>2. FixedTypes'
      BY <1>0, <1>1 DEF FixedTypes
    <2>3. valid' \in BOOLEAN
      BY <1>0, <2>1 DEF CountTypes
    <2> QED
      BY <1>0, <2>1, <2>2, <2>3 DEF CountTypes
  <1>3. RowTypes' /\ Len(rows) <= Len(rows') /\ minted <= minted'
    <2>1. CASE \E n \in Names : AdminEnroll(n)
      <3>1. PICK n \in Names : AdminEnroll(n)
        BY <2>1
      <3> DEFINE row == Row("edr", n, None, minted + 1, None)
      <3>2. row \in NextRow
        BY <1>0, NewRowType
      <3>3. rows' = Append(rows, row) /\ minted' = minted + 1
        BY <3>1 DEF AdminEnroll
      <3>4. RowType' = NextRow
        BY <3>3 DEF RowType, NextRow
      <3>5. rows \in Seq(NextRow)
        BY <1>0, RowsAreNextRows DEF RowTypes
      <3> HIDE DEF row
      <3> QED
        BY <1>0, <3>2, <3>3, <3>4, <3>5 DEF RowTypes
    <2>2. CASE \E i \in DOMAIN rows : Remove(i)
      <3>1. PICK i \in DOMAIN rows : Remove(i)
        BY <2>2
      <3>2. rows' = [rows EXCEPT ![i] = [rows[i] EXCEPT !.active = FALSE]] /\ minted' = minted
        BY <3>1 DEF Remove
      <3>3. [rows[i] EXCEPT !.active = FALSE] \in RowType
        <4>1. rows[i] \in RowType
          BY <1>0 DEF RowTypes
        <4> QED
          BY <4>1 DEF RowType
      <3>4. RowType' = RowType
        BY <3>2 DEF RowType
      <3> QED
        BY <1>0, <3>2, <3>3, <3>4 DEF RowTypes
    <2>3. CASE Revoke
      BY <1>0, <2>3 DEF Revoke, RowTypes, RowType
    <2> QED
      BY <2>1, <2>2, <2>3
  <1>4. Idents \subseteq Idents' /\ Requests \subseteq Requests'
    BY <1>0, <1>3, TypesGrow
  <1>5. HostTypes' /\ RequestTypes'
    BY <1>0, <1>1, <1>4, HostTypesGrow DEF RequestTypes
  <1> QED
    BY <1>2, <1>3, <1>5, TypesHold

LEMMA StepTypes == TypeOK /\ [Next]_vars => TypeOK'
  <1> SUFFICES ASSUME TypeOK, [Next]_vars PROVE TypeOK'
    OBVIOUS
  <1>1. CASE Next
    BY <1>1, HostStepTypes, HandlerStepTypes, OperatorTypes DEF Next
  <1>2. CASE UNCHANGED vars
    BY <1>2 DEF vars, TypeOK, Idents, RowType, Requests, Calls
  <1> QED
    BY <1>1, <1>2

(* Types hold throughout: an identity always names a row and a token that  *)
(* were made.                                                              *)
THEOREM TypeCorrect == Spec => []TypeOK
  BY InitTypes, StepTypes, PTL DEF Spec

(***************************************************************************)
(* The deployment token.                                                   *)
(***************************************************************************)

(* Handlers that found the token usable and have not counted their use:    *)
(* the check bounds them all at once, the increment takes one away.        *)
Counting == {h \in Handlers : req[h].pc = "count"}
OverrunInv ==
    MaxUses > 0 => used + Cardinality(Counting) <= MaxUses + Cardinality(Handlers) - 1

LEMMA CountingFinite ==
    /\ IsFiniteSet(Counting) /\ Cardinality(Counting) \in Nat
    /\ Cardinality(Counting) <= Cardinality(Handlers)
    /\ Cardinality(Handlers) \in Nat /\ Cardinality(Handlers) > 0
  <1>1. Counting \subseteq Handlers
    BY DEF Counting
  <1>2. Cardinality(Handlers) # 0
    BY HandlersAssumption, FS_EmptySet
  <1> QED
    BY <1>1, <1>2, HandlersAssumption, FS_Subset, FS_CardinalityType

LEMMA CountingFinitePrime ==
    /\ IsFiniteSet(Counting') /\ Cardinality(Counting') \in Nat
    /\ Cardinality(Counting') <= Cardinality(Handlers)
  <1>1. Counting' \subseteq Handlers
    BY DEF Counting
  <1> QED
    BY <1>1, HandlersAssumption, FS_Subset, FS_CardinalityType

(* A step that counts no use and lets no handler past the check.           *)
LEMMA OverrunQuiet ==
    ASSUME TypeOK, OverrunInv, used' = used, Counting' \subseteq Counting
    PROVE  OverrunInv'
  <1>1. Cardinality(Counting') <= Cardinality(Counting)
    BY CountingFinite, FS_Subset
  <1> QED
    BY <1>1, CountingFinite, CountingFinitePrime, BoundsAssumption DEF OverrunInv, TypeOK

LEMMA StepOverrun == TypeOK /\ OverrunInv /\ [Next]_vars => OverrunInv'
  <1> SUFFICES ASSUME TypeOK, OverrunInv, [Next]_vars PROVE OverrunInv'
    OBVIOUS
  <1>0. req \in [Handlers -> Requests] /\ used \in Nat
    BY DEF TypeOK
  <1>1. ASSUME NEW h \in Handlers, Check(h) PROVE OverrunInv'
    <2>1. CASE req[h].dep /\ valid /\ HasUses
      <3>1. used' = used /\ (MaxUses = 0 \/ used < MaxUses)
        BY <1>1, <2>1 DEF Check, HasUses
      <3> QED
        BY <1>0, <3>1, CountingFinite, CountingFinitePrime, BoundsAssumption DEF OverrunInv
    <2>2. CASE ~(req[h].dep /\ valid /\ HasUses)
      <3>1. Reply(h, Unknown) /\ used' = used
        BY <1>1, <2>2 DEF Check
      <3>2. Counting' \subseteq Counting
        BY <1>0, <3>1 DEF Reply, Counting, Idle
      <3> QED
        BY <3>1, <3>2, OverrunQuiet
    <2> QED
      BY <2>1, <2>2
  <1>2. ASSUME NEW h \in Handlers, Count(h) PROVE OverrunInv'
    <2>1. h \in Counting /\ Counting' = Counting \ {h} /\ used' = used + 1
      BY <1>0, <1>2 DEF Count, Counting, At, Goto
    <2>2. Cardinality(Counting') = Cardinality(Counting) - 1
      BY <2>1, CountingFinite, FS_RemoveElement
    <2> QED
      BY <1>0, <2>1, <2>2, CountingFinite, BoundsAssumption DEF OverrunInv
  <1>3. ASSUME NEW h \in Handlers,
               MatchUuid(h) \/ MatchName(h) \/ Insert(h) \/ RequestFails(h)
        PROVE  OverrunInv'
    <2>1. used' = used
      BY <1>3 DEF MatchUuid, MatchName, Insert, RequestFails
    <2>2. \/ \E ident : Reply(h, ident)
          \/ \E pc \in {"name", "insert"} : Goto(h, pc)
      BY <1>3 DEF MatchUuid, MatchName, Insert, RequestFails, Commit
    <2>3. CASE \E ident : Reply(h, ident)
      <3>1. Counting' \subseteq Counting
        BY <1>0, <2>3 DEF Reply, Counting, Idle
      <3> QED
        BY <2>1, <3>1, OverrunQuiet
    <2>4. CASE \E pc \in {"name", "insert"} : Goto(h, pc)
      <3>1. Counting' \subseteq Counting
        BY <1>0, <2>4 DEF Goto, Counting
      <3> QED
        BY <2>1, <3>1, OverrunQuiet
    <2> QED
      BY <2>2, <2>3, <2>4
  <1>4. ASSUME NEW m \in Machines, HostStep(m) PROVE OverrunInv'
    <2>1. used' = used
      BY <1>4 DEF HostStep, Install, Start, StartFresh, Recover, Receive, GiveUp, Rename
    <2>2. \/ req' = req
          \/ \E by, dep : Send(m, by, dep)
          \/ \E h : req' = [req EXCEPT ![h] = Idle]
      BY <1>4 DEF HostStep, Install, Start, StartFresh, Recover, Receive, GiveUp, Rename
    <2>3. CASE \E by, dep : Send(m, by, dep)
      <3>1. PICK by, dep : Send(m, by, dep)
        BY <2>3
      <3> DEFINE h == CHOOSE f \in Handlers : f \in Free
      <3>2. req' = [req EXCEPT ![h] = [pc |-> "check", for |-> m, name |-> name[m],
                                       dep |-> dep, reply |-> Unknown]]
        BY <3>1 DEF Send
      <3> HIDE DEF h
      <3>3. Counting' \subseteq Counting
        BY <1>0, <3>2 DEF Counting
      <3> QED
        BY <2>1, <3>3, OverrunQuiet
    <2>4. CASE req' = req \/ \E h : req' = [req EXCEPT ![h] = Idle]
      <3>1. Counting' \subseteq Counting
        BY <1>0, <2>4 DEF Counting, Idle
      <3> QED
        BY <2>1, <3>1, OverrunQuiet
    <2> QED
      BY <2>2, <2>3, <2>4
  <1>5. CASE \/ \E n \in Names : AdminEnroll(n)
             \/ \E i \in DOMAIN rows : Remove(i)
             \/ Revoke
             \/ UNCHANGED vars
    <2>1. used' = used /\ req' = req
      BY <1>5 DEF AdminEnroll, Remove, Revoke, vars
    <2> QED
      BY <2>1, OverrunQuiet DEF Counting
  <1> QED
    BY <1>1, <1>2, <1>3, <1>4, <1>5 DEF Next, HandlerStep

LEMMA InitOverrun == Init => OverrunInv
  <1> SUFFICES ASSUME Init PROVE OverrunInv
    OBVIOUS
  <1>1. Counting = {}
    BY DEF Init, Counting, Idle
  <1>2. Cardinality(Counting) = 0 /\ used = 0
    BY <1>1, FS_EmptySet DEF Init
  <1> QED
    BY <1>2, CountingFinite, BoundsAssumption DEF OverrunInv

(* However many requests race, a deployment token is used at most once     *)
(* more than max_uses for every other handler thread.                      *)
THEOREM OverrunIsBounded == Spec => []OverrunBounded
  <1>1. TypeOK /\ OverrunInv => OverrunBounded
    BY CountingFinite, BoundsAssumption DEF OverrunInv, OverrunBounded, TypeOK
  <1> QED
    BY <1>1, InitTypes, StepTypes, InitOverrun, StepOverrun, PTL DEF Spec

(* Self-enrolled rows and enrolments under way are finitely many.          *)
LEMMA PaidFinite ==
    ASSUME RowTypes
    PROVE  /\ IsFiniteSet(SelfEnrolled) /\ Cardinality(SelfEnrolled) \in Nat
           /\ IsFiniteSet(Matching) /\ Cardinality(Matching) \in Nat
  <1>1. Matching \subseteq Handlers /\ SelfEnrolled \subseteq 1..Len(rows) /\ Len(rows) \in Nat
    BY DEF Matching, SelfEnrolled, RowTypes
  <1>2. IsFiniteSet(1..Len(rows))
    BY <1>1, FS_Interval
  <1> QED
    BY <1>1, <1>2, HandlersAssumption, FS_Subset, FS_CardinalityType

LEMMA PaidFinitePrime ==
    ASSUME RowTypes'
    PROVE  /\ IsFiniteSet(SelfEnrolled') /\ Cardinality(SelfEnrolled') \in Nat
           /\ IsFiniteSet(Matching') /\ Cardinality(Matching') \in Nat
  <1>1. /\ Matching' \subseteq Handlers /\ SelfEnrolled' \subseteq 1..Len(rows')
        /\ Len(rows') \in Nat
    BY DEF Matching, SelfEnrolled, RowTypes
  <1>2. IsFiniteSet(1..Len(rows'))
    BY <1>1, FS_Interval
  <1> QED
    BY <1>1, <1>2, HandlersAssumption, FS_Subset, FS_CardinalityType

LEMMA PaidQuiet ==
    ASSUME TypeOK, TypeOK', RowsPaid, used' = used,
           SelfEnrolled' \subseteq SelfEnrolled, Matching' \subseteq Matching
    PROVE  RowsPaid'
  <1>1. /\ Cardinality(SelfEnrolled') <= Cardinality(SelfEnrolled)
        /\ Cardinality(Matching') <= Cardinality(Matching)
    BY PaidFinite, FS_Subset DEF TypeOK, RowTypes
  <1> QED
    BY <1>1, PaidFinite, PaidFinitePrime DEF RowsPaid, TypeOK, RowTypes

(* Updates and removals change neither which rows there are nor who        *)
(* inserted them.                                                          *)
LEMMA SameRowsSameSelf ==
    ASSUME DOMAIN rows' = DOMAIN rows, \A i \in DOMAIN rows : rows'[i].self = rows[i].self
    PROVE  SelfEnrolled' = SelfEnrolled
  BY DEF SelfEnrolled

LEMMA UpdateKeepsSelf ==
    ASSUME NEW r \in RowType, NEW h
    PROVE  ByUuidSets(r, h).self = r.self /\ ByNameSets(r, h).self = r.self
  BY DEF RowType, ByUuidSets, ByNameSets, Retoken

LEMMA HandlerPaid ==
    ASSUME TypeOK, TypeOK', RowsPaid, NEW h \in Handlers, HandlerStep(h) \/ RequestFails(h)
    PROVE  RowsPaid'
  <1>0. /\ req \in [Handlers -> Requests] /\ used \in Nat /\ rows \in Seq(RowType)
        /\ RowTypes /\ RowTypes' /\ DOMAIN rows = 1..Len(rows) /\ Len(rows) \in Nat
        /\ \A i \in DOMAIN rows : rows[i] \in RowType
    BY DEF TypeOK, RowTypes
  <1>1. ASSUME NEW ident, Reply(h, ident)
        PROVE  Matching' = Matching \ {h}
    BY <1>0, <1>1 DEF Reply, Matching, Idle
  <1>2. CASE Check(h) \/ RequestFails(h)
    <2>1. /\ UNCHANGED <<used, rows>>
          /\ (\E ident : Reply(h, ident)) \/ Goto(h, "count")
      BY <1>2 DEF Check, RequestFails
    <2>2. SelfEnrolled' = SelfEnrolled
      BY <2>1 DEF SelfEnrolled
    <2>3. CASE Goto(h, "count")
      <3>1. Matching' \subseteq Matching
        BY <1>0, <2>3 DEF Goto, Matching
      <3> QED
        BY <2>1, <2>2, <3>1, PaidQuiet
    <2> QED
      BY <1>1, <2>1, <2>2, <2>3, PaidQuiet
  <1>3. CASE Count(h)
    <2>1. h \notin Matching /\ Matching' = Matching \union {h}
      BY <1>0, <1>3 DEF Count, At, Goto, Matching
    <2>2. Cardinality(Matching') = Cardinality(Matching) + 1
      BY <1>0, <2>1, PaidFinite, FS_AddElement
    <2>3. SelfEnrolled' = SelfEnrolled /\ used' = used + 1
      BY <1>3 DEF Count, SelfEnrolled
    <2> QED
      BY <1>0, <2>2, <2>3, PaidFinite DEF RowsPaid
  <1>4. ASSUME NEW new \in [DOMAIN rows -> NextRow],
               \A i \in DOMAIN rows : new[i].self = rows[i].self,
               NEW id, Commit(h, new, id), used' = used
        PROVE  RowsPaid'
    <2>1. rows' = new \/ rows' = rows
      BY <1>4 DEF Commit
    <2>2. SelfEnrolled' = SelfEnrolled
      BY <1>4, <2>1, SameRowsSameSelf
    <2>3. Matching' \subseteq Matching
      BY <1>1, <1>4 DEF Commit
    <2> QED
      BY <1>4, <2>2, <2>3, PaidQuiet
  <1>5. ASSUME NEW pc \in {"name", "insert"}, Goto(h, pc), req[h].pc \in {"uuid", "name"},
               UNCHANGED <<used, rows>>
        PROVE  RowsPaid'
    <2>1. Matching' \subseteq Matching /\ SelfEnrolled' = SelfEnrolled
      BY <1>0, <1>5 DEF Goto, Matching, SelfEnrolled
    <2> QED
      BY <1>5, <2>1, PaidQuiet
  <1>6. req[h].pc # "idle" => req[h].for \in Machines /\ req[h].name \in Names
    BY DEF TypeOK
  <1>7. FixedTypes /\ RequestTypes
    BY TypeParts
  <1>8. RowType \subseteq NextRow
    BY <1>0, RowsAreNextRows
  <1>9. CASE MatchUuid(h)
    <2> DEFINE hit == {i \in DOMAIN rows : HasUuid(rows[i], h)}
               new == [i \in DOMAIN rows |->
                         IF i \in hit THEN ByUuidSets(rows[i], h) ELSE rows[i]]
    <2>1. used' = used /\ req[h].pc = "uuid"
      BY <1>9 DEF MatchUuid, At
    <2>2. new \in [DOMAIN rows -> NextRow]
      BY <1>0, <1>7, <1>8, <2>1, ByUuidType
    <2>3. \A i \in DOMAIN rows : new[i].self = rows[i].self
      BY <1>0, UpdateKeepsSelf
    <2>4. \/ Goto(h, "name") /\ UNCHANGED rows
          \/ \E id : Commit(h, new, id)
      BY <1>9 DEF MatchUuid
    <2> HIDE DEF new
    <2> QED
      BY <1>4, <1>5, <2>1, <2>2, <2>3, <2>4
  <1>10. CASE MatchName(h)
    <2> DEFINE hit == {i \in DOMAIN rows : HasName(rows[i], h)}
               new == [i \in DOMAIN rows |->
                         IF i \in hit THEN ByNameSets(rows[i], h) ELSE rows[i]]
    <2>1. used' = used /\ req[h].pc = "name"
      BY <1>10 DEF MatchName, At
    <2>2. new \in [DOMAIN rows -> NextRow]
      BY <1>0, <1>7, <1>8, <2>1, ByNameType
    <2>3. \A i \in DOMAIN rows : new[i].self = rows[i].self
      BY <1>0, UpdateKeepsSelf
    <2>4. \/ Goto(h, "insert") /\ UNCHANGED rows
          \/ \E id : Commit(h, new, id)
      BY <1>10 DEF MatchName
    <2> HIDE DEF new
    <2> QED
      BY <1>4, <1>5, <2>1, <2>2, <2>3, <2>4
  <1>11. CASE Insert(h)
    <2>1. used' = used /\ h \in Matching /\ Matching' = Matching \ {h}
      BY <1>0, <1>1, <1>11 DEF Insert, Commit, At, Matching
    <2>2. Cardinality(Matching') = Cardinality(Matching) - 1
      BY <1>0, <2>1, PaidFinite, FS_RemoveElement
    <2>3. \/ rows' = rows
          \/ \E row : rows' = Append(rows, row)
      BY <1>11 DEF Insert, Commit
    <2>4. SelfEnrolled' \subseteq SelfEnrolled \union {Len(rows) + 1}
      BY <1>0, <2>3 DEF SelfEnrolled
    <2>5. Len(rows) + 1 \notin SelfEnrolled
      BY <1>0 DEF SelfEnrolled
    <2>6. /\ IsFiniteSet(SelfEnrolled \union {Len(rows) + 1})
          /\ Cardinality(SelfEnrolled \union {Len(rows) + 1}) = Cardinality(SelfEnrolled) + 1
      BY <1>0, <2>5, PaidFinite, FS_AddElement
    <2>7. Cardinality(SelfEnrolled') <= Cardinality(SelfEnrolled) + 1
      BY <2>4, <2>6, FS_Subset
    <2> QED
      BY <1>0, <2>1, <2>2, <2>7, PaidFinite, PaidFinitePrime DEF RowsPaid
  <1> QED
    BY <1>2, <1>3, <1>9, <1>10, <1>11 DEF HandlerStep

LEMMA StepPaid == TypeOK /\ TypeOK' /\ RowsPaid /\ [Next]_vars => RowsPaid'
  <1> SUFFICES ASSUME TypeOK, TypeOK', RowsPaid, [Next]_vars PROVE RowsPaid'
    OBVIOUS
  <1>0. req \in [Handlers -> Requests] /\ DOMAIN rows = 1..Len(rows) /\ Len(rows) \in Nat
    BY DEF TypeOK
  <1>1. ASSUME NEW m \in Machines, HostStep(m) PROVE RowsPaid'
    <2>1. used' = used /\ rows' = rows
      BY <1>1 DEF HostStep, Install, Start, StartFresh, Recover, Receive, GiveUp, Rename
    <2>2. \/ req' = req
          \/ \E by, dep : Send(m, by, dep)
          \/ \E h : req' = [req EXCEPT ![h] = Idle]
      BY <1>1 DEF HostStep, Install, Start, StartFresh, Recover, Receive, GiveUp, Rename
    <2>3. SelfEnrolled' = SelfEnrolled
      BY <2>1 DEF SelfEnrolled
    <2>4. CASE \E by, dep : Send(m, by, dep)
      <3>1. PICK by, dep : Send(m, by, dep)
        BY <2>4
      <3> DEFINE h == CHOOSE f \in Handlers : f \in Free
      <3>2. req' = [req EXCEPT ![h] = [pc |-> "check", for |-> m, name |-> name[m],
                                       dep |-> dep, reply |-> Unknown]]
        BY <3>1 DEF Send
      <3> HIDE DEF h
      <3>3. Matching' \subseteq Matching
        BY <1>0, <3>2 DEF Matching
      <3> QED
        BY <2>1, <2>3, <3>3, PaidQuiet
    <2>5. CASE req' = req \/ \E h : req' = [req EXCEPT ![h] = Idle]
      <3>1. Matching' \subseteq Matching
        BY <1>0, <2>5 DEF Matching, Idle
      <3> QED
        BY <2>1, <2>3, <3>1, PaidQuiet
    <2> QED
      BY <2>2, <2>4, <2>5
  <1>2. ASSUME NEW n \in Names, AdminEnroll(n) PROVE RowsPaid'
    <2> DEFINE row == Row("edr", n, None, minted + 1, None)
    <2>1. used' = used /\ req' = req /\ rows' = Append(rows, row) /\ ~row.self
      BY <1>2 DEF AdminEnroll, Row
    <2> HIDE DEF row
    <2>2. SelfEnrolled' \subseteq SelfEnrolled
      BY <1>0, <2>1 DEF SelfEnrolled, TypeOK
    <2> QED
      BY <2>1, <2>2, PaidQuiet DEF Matching
  <1>3. ASSUME NEW i \in DOMAIN rows, Remove(i) PROVE RowsPaid'
    <2>1. used' = used /\ req' = req
      BY <1>3 DEF Remove
    <2>2. rows' = [rows EXCEPT ![i] = [rows[i] EXCEPT !.active = FALSE]]
      BY <1>3 DEF Remove
    <2>3. rows[i] \in RowType
      BY <1>0 DEF TypeOK
    <2>4. [rows[i] EXCEPT !.active = FALSE].self = rows[i].self
      BY <2>3 DEF RowType
    <2>5. SelfEnrolled' = SelfEnrolled
      BY <1>0, <2>2, <2>4 DEF SelfEnrolled
    <2> QED
      BY <2>1, <2>5, PaidQuiet DEF Matching
  <1>4. CASE Revoke \/ UNCHANGED vars
    <2>1. UNCHANGED <<used, req, rows>>
      BY <1>4 DEF Revoke, vars
    <2> QED
      BY <2>1, PaidQuiet DEF Matching, SelfEnrolled
  <1> QED
    BY <1>1, <1>2, <1>3, <1>4, HandlerPaid DEF Next

(* However requests race, fail and overrun the token, every self-enrolled  *)
(* row has a counted use of its own.                                       *)
THEOREM EveryRowPaid == Spec => []RowsPaid
  <1>1. Init => RowsPaid
    <2> SUFFICES ASSUME Init PROVE RowsPaid
      OBVIOUS
    <2>1. SelfEnrolled = {} /\ Matching = {} /\ used = 0
      BY DEF Init, SelfEnrolled, Matching, Idle
    <2> QED
      BY <2>1, FS_EmptySet DEF RowsPaid
  <1> QED
    BY <1>1, InitTypes, StepTypes, StepPaid, PTL DEF Spec

(***************************************************************************)
(* The credential.                                                         *)
(***************************************************************************)

(* Who waits for which request.                                            *)
CallsMatch ==
    /\ \A m \in Machines : Waiting(m) =>
         /\ req[call[m].handler].pc # "idle"
         /\ req[call[m].handler].for = m
         /\ call[m].by = "installer" => kind[m] = "edr"
    /\ \A h \in Handlers : req[h].pc # "idle" /\ req[h].for \notin unheard =>
         Waiting(req[h].for) /\ call[req[h].for].handler = h

(* A host's token is that of its row, unless the answer with a newer one   *)
(* is on its way to it.                                                    *)
Granted(m) ==
    /\ Waiting(m)
    /\ req[call[m].handler].pc = "reply"
    /\ req[call[m].handler].reply # Unknown
TokenKnown(m) ==
    IF Granted(m)
    THEN LET got == req[call[m].handler].reply IN
         m \notin unheard /\ got.id \in DOMAIN rows /\ rows[got.id].by = m
           => rows[got.id].token = got.token
    ELSE Holder(m) => rows[Held(m).id].token = Held(m).token
HeldOrGranted == \A m \in Machines : TokenKnown(m)

CredentialInv ==
    /\ CallsMatch
    /\ \A m \in Machines : kind[m] = "collector" => disk[m].token = 0
    /\ HeldOrGranted

(* Two hosts never wait for one handler.                                   *)
LEMMA OwnHandler ==
    ASSUME TypeOK, CallsMatch, NEW m \in Machines, Waiting(m)
    PROVE  /\ call[m].handler \in Handlers
           /\ req[call[m].handler].for = m
           /\ req[call[m].handler].pc # "idle"
           /\ \A h \in Handlers : call[m].handler = h => req[h].for = m
  BY DEF TypeOK, Calls, CallsMatch, Waiting

LEMMA HandlerWaits ==
    ASSUME TypeOK, NEW m \in Machines, NEW h \in Handlers, call[m].handler = h
    PROVE  Waiting(m)
  BY NoneAssumption DEF Waiting, NoCall

(* What a server step does to rows: nothing, or an enrolment of its host.  *)
Enrolled(h, id) ==
    /\ id \in DOMAIN rows'
    /\ rows'[id].by = req[h].for
    /\ rows'[id].token = minted + 1
    /\ \A i \in DOMAIN rows' :
         rows'[i].by = req[h].for \/ (i \in DOMAIN rows /\ rows'[i] = rows[i])
    /\ Reply(h, Ident(id, minted + 1))

LEMMA RetokenSets ==
    ASSUME NEW r \in RowType, NEW h
    PROVE  /\ ByUuidSets(r, h).by = req[h].for /\ ByUuidSets(r, h).token = minted + 1
           /\ ByNameSets(r, h).by = req[h].for /\ ByNameSets(r, h).token = minted + 1
  BY DEF RowType, ByUuidSets, ByNameSets, Retoken

LEMMA HandlerEffect ==
    ASSUME TypeOK, NEW h \in Handlers, HandlerStep(h) \/ RequestFails(h)
    PROVE  /\ UNCHANGED <<host, disk, mem, call, unheard>>
           /\ req[h].pc \notin {"idle", "reply"}
           /\ \/ UNCHANGED rows /\ Reply(h, Unknown)
              \/ UNCHANGED rows /\ \E pc \in Steps \ {"idle", "reply"} : Goto(h, pc)
              \/ \E id : Enrolled(h, id)
  <1>0. /\ rows \in Seq(RowType) /\ DOMAIN rows = 1..Len(rows) /\ Len(rows) \in Nat
        /\ \A i \in DOMAIN rows : rows[i] \in RowType
    BY DEF TypeOK
  <1>1. UNCHANGED <<host, disk, mem, call, unheard>> /\ req[h].pc \notin {"idle", "reply"}
    BY DEF HandlerStep, Check, Count, MatchUuid, MatchName, Insert, RequestFails, At
  <1>2. CASE Check(h) \/ Count(h) \/ RequestFails(h)
    BY <1>1, <1>2 DEF Check, Count, RequestFails, Steps
  <1>3. CASE MatchUuid(h)
    <2> DEFINE hit == {i \in DOMAIN rows : HasUuid(rows[i], h)}
               new == [i \in DOMAIN rows |->
                         IF i \in hit THEN ByUuidSets(rows[i], h) ELSE rows[i]]
    <2>1. \/ Goto(h, "name") /\ UNCHANGED rows
          \/ \E id \in hit : Commit(h, new, id)
      BY <1>3 DEF MatchUuid
    <2>2. ASSUME NEW id \in hit, Commit(h, new, id), rows' = new,
                 Reply(h, Ident(id, minted + 1))
          PROVE  Enrolled(h, id)
      BY <1>0, <2>2, RetokenSets DEF Enrolled
    <2> QED
      BY <1>1, <2>1, <2>2 DEF Commit, Steps
  <1>4. CASE MatchName(h)
    <2> DEFINE hit == {i \in DOMAIN rows : HasName(rows[i], h)}
               new == [i \in DOMAIN rows |->
                         IF i \in hit THEN ByNameSets(rows[i], h) ELSE rows[i]]
    <2>1. \/ Goto(h, "insert") /\ UNCHANGED rows
          \/ \E id \in hit : Commit(h, new, id)
      BY <1>4 DEF MatchName
    <2>2. ASSUME NEW id \in hit, Commit(h, new, id), rows' = new,
                 Reply(h, Ident(id, minted + 1))
          PROVE  Enrolled(h, id)
      BY <1>0, <2>2, RetokenSets DEF Enrolled
    <2> QED
      BY <1>1, <2>1, <2>2 DEF Commit, Steps
  <1>5. CASE Insert(h)
    <2> DEFINE m == req[h].for
               row == Row(Table(h), req[h].name, uuid[m], minted + 1, m)
               new == Append(rows, row)
    <2>1. Commit(h, new, Len(new))
      BY <1>5 DEF Insert
    <2>2. row.by = m /\ row.token = minted + 1
      BY DEF Row
    <2>3. ASSUME rows' = new, Reply(h, Ident(Len(new), minted + 1))
          PROVE  Enrolled(h, Len(new))
      <3> HIDE DEF row
      <3> QED
        BY <1>0, <2>2, <2>3 DEF Enrolled
    <2> HIDE DEF new
    <2> QED
      BY <1>1, <2>1, <2>3 DEF Commit
  <1> QED
    BY <1>2, <1>3, <1>4, <1>5, <1>1 DEF HandlerStep

(* A server step keeps the waiting hosts and their requests together.      *)
LEMMA HandlerKeepsCalls ==
    ASSUME TypeOK, CallsMatch, NEW h \in Handlers, req[h].pc \notin {"idle", "reply"},
           UNCHANGED <<host, call, unheard>>,
           \/ \E ident : Reply(h, ident)
           \/ \E pc \in Steps \ {"idle", "reply"} : Goto(h, pc)
    PROVE  CallsMatch'
  <1>0. req \in [Handlers -> Requests]
    BY DEF TypeOK
  <1>1. \A m \in Machines : Waiting(m) => call[m].handler \in Handlers
    BY OwnHandler
  <1>2. \A g \in Handlers : g # h => req'[g] = req[g]
    BY <1>0 DEF Reply, Goto
  <1>3. CASE \E pc \in Steps \ {"idle", "reply"} : Goto(h, pc)
    <2>1. req'[h].for = req[h].for /\ req'[h].pc # "idle"
      BY <1>0, <1>3 DEF Goto, Requests
    <2> QED
      BY <1>1, <1>2, <2>1 DEF CallsMatch, Waiting, host
  <1>4. CASE \E ident : Reply(h, ident)
    <2>1. CASE \E m \in Machines : call[m].handler = h
      <3>1. req'[h].for = req[h].for /\ req'[h].pc # "idle"
        <4>1. PICK ident : req' = [req EXCEPT ![h] =
                                     [req[h] EXCEPT !.pc = "reply", !.reply = ident]]
          BY <1>4, <2>1 DEF Reply
        <4> QED
          BY <1>0, <4>1 DEF Requests
      <3> QED
        BY <1>1, <1>2, <3>1 DEF CallsMatch, Waiting, host
    <2>2. CASE ~\E m \in Machines : call[m].handler = h
      <3>1. req'[h] = Idle
        BY <1>0, <1>4, <2>2 DEF Reply
      <3> QED
        BY <1>1, <1>2, <2>2, <3>1 DEF CallsMatch, Waiting, host, Idle
    <2> QED
      BY <2>1, <2>2
  <1> QED
    BY <1>3, <1>4

(* What a host holds and who waits do not change when a handler works; an  *)
(* answer with a token brings the one its row has.                         *)
LEMMA HandlerKeepsTokens ==
    ASSUME TypeOK, CredentialInv, NEW h \in Handlers, HandlerStep(h) \/ RequestFails(h)
    PROVE  HeldOrGranted'
  <1>0. /\ UNCHANGED <<kind, uuid, disk, mem, call, unheard>>
        /\ req[h].pc \notin {"idle", "reply"}
        /\ CallsMatch /\ HeldOrGranted
    BY HandlerEffect DEF CredentialInv, host
  <1>1. req \in [Handlers -> Requests]
    BY DEF TypeOK
  <1> SUFFICES ASSUME NEW m \in Machines
               PROVE  IF Granted(m)'
                      THEN LET got == req'[call'[m].handler].reply IN
                           m \notin unheard' /\ got.id \in DOMAIN rows' /\ rows'[got.id].by = m
                             => rows'[got.id].token = got.token
                      ELSE Holder(m)' => rows'[Held(m)'.id].token = Held(m)'.token
    BY DEF HeldOrGranted, TokenKnown
  <1>2. Held(m)' = Held(m) /\ Waiting(m)' = Waiting(m)
    BY <1>0 DEF Held, Waiting
  <1>3. ASSUME req[h].for # m PROVE Waiting(m) => req'[call[m].handler] = req[call[m].handler]
    <2>1. Waiting(m) => call[m].handler \in Handlers /\ call[m].handler # h
      BY <1>0, <1>3, OwnHandler
    <2>2. \A g \in Handlers : g # h => req'[g] = req[g]
      <3>1. \/ \E ident : Reply(h, ident)
            \/ \E pc \in Steps \ {"idle", "reply"} : Goto(h, pc)
        BY HandlerEffect DEF Enrolled
      <3>2. \E r : req' = [req EXCEPT ![h] = r]
        BY <1>1, <3>1 DEF Reply, Goto
      <3> QED
        BY <1>1, <3>2
    <2> QED
      BY <2>1, <2>2
  <1>4. CASE req[h].for # m
    <2>1. Granted(m)' = Granted(m)
      BY <1>0, <1>2, <1>3, <1>4 DEF Granted
    <2>2. ASSUME NEW i \in DOMAIN rows', rows'[i].by = m
          PROVE  i \in DOMAIN rows /\ rows'[i] = rows[i]
      BY <1>4, <2>2, HandlerEffect DEF Enrolled
    <2>3. CASE Granted(m)
      <3> DEFINE got == req[call[m].handler].reply
      <3>1. req'[call'[m].handler].reply = got
        BY <1>0, <1>3, <1>4, <2>3 DEF Granted
      <3>2. m \notin unheard /\ got.id \in DOMAIN rows /\ rows[got.id].by = m
              => rows[got.id].token = got.token
        BY <1>0, <2>3 DEF HeldOrGranted, TokenKnown
      <3> HIDE DEF got
      <3> QED
        BY <1>0, <2>1, <2>2, <2>3, <3>1, <3>2
    <2>4. CASE ~Granted(m)
      <3>1. Holder(m) => rows[Held(m).id].token = Held(m).token
        BY <1>0, <2>4 DEF HeldOrGranted, TokenKnown
      <3>2. Holder(m)' => Holder(m) /\ rows'[Held(m).id] = rows[Held(m).id]
        BY <1>0, <1>2, <2>2 DEF Holder
      <3> QED
        BY <1>2, <2>1, <2>4, <3>1, <3>2
    <2> QED
      BY <2>3, <2>4
  <1>5. CASE req[h].for = m /\ m \notin unheard
    <2>1. Waiting(m) /\ call[m].handler = h
      BY <1>0, <1>5 DEF CallsMatch
    <2>2. ~Granted(m)
      BY <1>0, <2>1 DEF Granted
    <2>3. Holder(m) => rows[Held(m).id].token = Held(m).token
      BY <1>0, <2>2 DEF HeldOrGranted, TokenKnown
    <2>4. ASSUME NEW ident, Reply(h, ident)
          PROVE  req'[h].pc = "reply" /\ req'[h].reply = ident
      <3>1. req' = [req EXCEPT ![h] = [req[h] EXCEPT !.pc = "reply", !.reply = ident]]
        BY <2>1, <2>4 DEF Reply
      <3> QED
        BY <1>1, <3>1 DEF Requests
    <2>5. CASE \/ UNCHANGED rows /\ Reply(h, Unknown)
               \/ UNCHANGED rows /\ \E pc \in Steps \ {"idle", "reply"} : Goto(h, pc)
      <3>1. \/ req'[h].pc = "reply" /\ req'[h].reply = Unknown
            \/ req'[h].pc # "reply"
        <4>1. CASE Reply(h, Unknown)
          BY <2>4, <4>1
        <4>2. CASE \E pc \in Steps \ {"idle", "reply"} : Goto(h, pc)
          BY <1>1, <4>2 DEF Goto, Requests
        <4> QED
          BY <2>5, <4>1, <4>2
      <3>2. ~Granted(m)'
        BY <1>0, <2>1, <3>1 DEF Granted
      <3>3. Holder(m)' = Holder(m) /\ rows' = rows
        BY <1>0, <1>2, <2>5 DEF Holder
      <3> QED
        BY <1>2, <2>3, <3>2, <3>3
    <2>6. CASE \E id : Enrolled(h, id)
      <3>1. PICK id : Enrolled(h, id)
        BY <2>6
      <3>2. req'[h].pc = "reply" /\ req'[h].reply = Ident(id, minted + 1)
        BY <2>4, <3>1 DEF Enrolled
      <3>3. Ident(id, minted + 1) # Unknown
        BY DEF Ident, Unknown, TypeOK
      <3>4. Granted(m)'
        BY <1>0, <1>2, <2>1, <3>2, <3>3 DEF Granted
      <3>5. rows'[id].token = minted + 1
        BY <3>1 DEF Enrolled
      <3> QED
        BY <1>0, <2>1, <3>2, <3>4, <3>5 DEF Ident
    <2> QED
      BY <2>5, <2>6, HandlerEffect
  <1>6. CASE m \in unheard
    BY <1>0, <1>6 DEF Holder
  <1> QED
    BY <1>4, <1>5, <1>6

LEMMA HandlerKeepsCredential ==
    ASSUME TypeOK, CredentialInv, NEW h \in Handlers, HandlerStep(h) \/ RequestFails(h)
    PROVE  CredentialInv'
  <1>1. UNCHANGED <<kind, uuid, disk, mem, call, unheard>> /\ req[h].pc \notin {"idle", "reply"}
    BY HandlerEffect DEF host
  <1>2. \/ \E ident : Reply(h, ident)
        \/ \E pc \in Steps \ {"idle", "reply"} : Goto(h, pc)
    BY HandlerEffect DEF Enrolled
  <1>3. CallsMatch'
    BY <1>1, <1>2, HandlerKeepsCalls DEF CredentialInv, host
  <1> QED
    BY <1>1, <1>3, HandlerKeepsTokens DEF CredentialInv

(* A host that no step touched.                                            *)
LEMMA KeepsToken ==
    ASSUME NEW m, TokenKnown(m), rows' = rows, unheard \subseteq unheard',
           Granted(m)' = Granted(m),
           Granted(m) => req'[call'[m].handler].reply = req[call[m].handler].reply,
           Holder(m)' => Holder(m) /\ Held(m)' = Held(m)
    PROVE  TokenKnown(m)'
  BY DEF TokenKnown

LEMMA SendKeepsCalls ==
    ASSUME TypeOK, CallsMatch, NEW m \in Machines, NEW by \in {"installer", "agent"}, NEW dep,
           Send(m, by, dep), by = "installer" => kind[m] = "edr",
           UNCHANGED <<host, unheard>>
    PROVE  /\ CallsMatch'
           /\ ~Granted(m) /\ ~Granted(m)'
           /\ \A n \in Machines \ {m} :
                /\ Granted(n)' = Granted(n)
                /\ Granted(n) => req'[call'[n].handler] = req[call[n].handler]
  <1> DEFINE h == CHOOSE f \in Handlers : f \in Free
             new == [pc |-> "check", for |-> m, name |-> name[m], dep |-> dep,
                     reply |-> Unknown]
  <1>1. h \in Handlers /\ req[h] = Idle
    BY DEF Send, Free
  <1>2. /\ req' = [req EXCEPT ![h] = new]
        /\ call' = [call EXCEPT ![m] = [by |-> by, handler |-> h]]
        /\ ~Waiting(m)
    BY DEF Send
  <1>3. new.pc = "check" /\ new.for = m
    OBVIOUS
  <1> HIDE DEF h, new
  <1>4. req \in [Handlers -> Requests] /\ call \in [Machines -> Calls] /\ req[h].pc = "idle"
    BY <1>1 DEF TypeOK, Idle
  <1>5. /\ req'[h] = new /\ call'[m].by = by /\ call'[m].handler = h
        /\ \A g \in Handlers \ {h} : req'[g] = req[g]
        /\ \A n \in Machines \ {m} : call'[n] = call[n]
    BY <1>1, <1>2, <1>4
  <1>6. \A n \in Machines \ {m} : Waiting(n)' = Waiting(n)
    BY <1>5 DEF Waiting
  <1>7. \A n \in Machines : Waiting(n) =>
          call[n].handler \in Handlers \ {h} /\ req[call[n].handler].for = n
    BY <1>4, OwnHandler
  <1>8. Waiting(m)'
    <2>1. [by |-> by, handler |-> h] # NoCall
      BY <1>1, CallType
    <2> QED
      BY <1>2, <1>4, <2>1 DEF Waiting, NoCall
  <1>9. CallsMatch'
    <2>1. ASSUME NEW n \in Machines, Waiting(n)'
          PROVE  /\ req'[call'[n].handler].pc # "idle"
                 /\ req'[call'[n].handler].for = n
                 /\ call'[n].by = "installer" => kind'[n] = "edr"
      BY <1>3, <1>5, <1>6, <1>7, <2>1 DEF CallsMatch, host
    <2>2. ASSUME NEW g \in Handlers, req'[g].pc # "idle", req'[g].for \notin unheard'
          PROVE  call'[req'[g].for] # NoCall /\ call'[req'[g].for].handler = g
      <3>1. CASE g = h
        BY <1>3, <1>5, <1>8, <3>1 DEF Waiting, NoCall
      <3>2. CASE g # h
        <4>1. req'[g] = req[g]
          BY <1>5, <3>2
        <4>2. Waiting(req[g].for) /\ call[req[g].for].handler = g
          BY <2>2, <4>1 DEF CallsMatch, host
        <4>3. req[g].for \in Machines \ {m}
          BY <1>2, <2>2, <4>1, <4>2 DEF TypeOK
        <4> QED
          BY <1>5, <4>1, <4>2, <4>3 DEF Waiting
      <3> QED
        BY <3>1, <3>2
    <2> QED
      BY <2>1, <2>2 DEF CallsMatch, Waiting, NoCall
  <1>10. ~Granted(m) /\ ~Granted(m)'
    BY <1>2, <1>3, <1>5 DEF Granted
  <1>11. ASSUME NEW n \in Machines \ {m}
         PROVE  /\ Granted(n)' = Granted(n)
                /\ Granted(n) => req'[call'[n].handler] = req[call[n].handler]
    BY <1>5, <1>6, <1>7 DEF Granted
  <1> QED
    BY <1>9, <1>10, <1>11

(* A request a host sends, having at most dropped what it held.            *)
LEMMA SendKeepsTokens ==
    ASSUME TypeOK, CredentialInv, NEW m \in Machines, NEW by \in {"installer", "agent"},
           NEW dep, Send(m, by, dep), by = "installer" => kind[m] = "edr",
           UNCHANGED <<host, unheard, rows>>,
           \A n \in Machines : Holder(n)' => Held(n)' = Held(n)
    PROVE  CallsMatch' /\ HeldOrGranted'
  <1>1. CallsMatch /\ HeldOrGranted
    BY DEF CredentialInv
  <1>2. ASSUME NEW n \in Machines PROVE Holder(n)' => Holder(n)
    <2>1. Holder(n)' => Held(n)' = Held(n)
      OBVIOUS
    <2> QED
      BY <2>1 DEF Holder, Held, host
  <1>3. ASSUME NEW n \in Machines PROVE TokenKnown(n)'
    <2>1. TokenKnown(n)
      BY <1>1 DEF HeldOrGranted
    <2>2. Granted(n)' = Granted(n)
      <3>1. CASE n = m
        BY <1>1, <3>1, SendKeepsCalls DEF Granted
      <3>2. CASE n # m
        BY <1>1, <3>2, SendKeepsCalls
      <3> QED
        BY <3>1, <3>2
    <2>3. Granted(n) => req'[call'[n].handler].reply = req[call[n].handler].reply
      BY <1>1, SendKeepsCalls
    <2> QED
      BY <1>2, <2>1, <2>2, <2>3, KeepsToken
  <1> QED
    BY <1>1, <1>3, SendKeepsCalls DEF HeldOrGranted

LEMMA ReceiveKeepsCredential ==
    ASSUME TypeOK, CredentialInv, NEW m \in Machines, Receive(m)
    PROVE  CredentialInv'
  <1> DEFINE h == call[m].handler
             got == req[h].reply
  <1>0. /\ CallsMatch /\ HeldOrGranted
        /\ disk \in [Machines -> Idents] /\ mem \in [Machines -> Idents \union {Down}]
        /\ call \in [Machines -> Calls] /\ req \in [Handlers -> Requests]
        /\ kind \in [Machines -> {"edr", "collector"}]
    BY DEF CredentialInv, TypeOK
  <1>1. Waiting(m) /\ h \in Handlers /\ req[h].pc = "reply"
    BY <1>0, OwnHandler DEF Receive
  <1>2. /\ UNCHANGED <<kind, uuid, rows, unheard>>
        /\ req' = [req EXCEPT ![h] = Idle]
        /\ call' = [call EXCEPT ![m] = NoCall]
    BY DEF Receive, host
  <1>3. ~Waiting(m)' /\ \A n \in Machines \ {m} : call'[n] = call[n]
    BY <1>0, <1>2 DEF Waiting, NoCall
  <1>4. /\ req'[h].pc = "idle"
        /\ \A g \in Handlers \ {h} : req'[g] = req[g]
    BY <1>0, <1>1, <1>2 DEF Idle
  <1>5. \A n \in Machines \ {m} : Waiting(n) =>
          call[n].handler \in Handlers \ {h} /\ req[call[n].handler].for = n
    BY <1>0, <1>1, OwnHandler
  <1>6. req[h].for = m
    BY <1>0, <1>1, OwnHandler
  <1>7. /\ \A n \in Machines \ {m} : disk'[n] = disk[n] /\ mem'[n] = mem[n]
        /\ got = Unknown => disk' = disk /\ mem' = mem
        /\ got # Unknown =>
             /\ disk'[m] = Saved(m, call[m].by, got)
             /\ mem'[m] = IF call[m].by = "agent" THEN got ELSE mem[m]
    BY <1>0 DEF Receive
  <1> HIDE DEF h, got
  <1>8. CallsMatch'
    <2>1. ASSUME NEW n \in Machines, Waiting(n)'
          PROVE  /\ req'[call'[n].handler].pc # "idle"
                 /\ req'[call'[n].handler].for = n
                 /\ call'[n].by = "installer" => kind'[n] = "edr"
      BY <1>0, <1>2, <1>3, <1>4, <1>5, <2>1 DEF CallsMatch, Waiting
    <2>2. ASSUME NEW g \in Handlers, req'[g].pc # "idle", req'[g].for \notin unheard'
          PROVE  call'[req'[g].for] # NoCall /\ call'[req'[g].for].handler = g
      <3>1. g # h /\ req'[g] = req[g]
        BY <1>4, <2>2
      <3>2. call[req[g].for] # NoCall /\ call[req[g].for].handler = g /\ req[g].for \in Machines
        BY <1>0, <1>2, <2>2, <3>1 DEF CallsMatch, Waiting, TypeOK
      <3>3. req[g].for # m
        BY <3>1, <3>2 DEF h
      <3> QED
        BY <1>3, <3>1, <3>2, <3>3
    <2> QED
      BY <2>1, <2>2 DEF CallsMatch, Waiting, NoCall
  <1>9. \A n \in Machines : kind'[n] = "collector" => disk'[n].token = 0
    <2>1. kind[m] = "collector" => Saved(m, call[m].by, got).token = disk[m].token
      BY DEF Saved, Ident
    <2> QED
      BY <1>2, <1>7, <2>1 DEF CredentialInv
  <1>10. ASSUME NEW n \in Machines PROVE TokenKnown(n)'
    <2>0. TokenKnown(n)
      BY <1>0 DEF HeldOrGranted
    <2>1. CASE n # m
      <3>1. Granted(n)' = Granted(n)
        BY <1>3, <1>4, <1>5, <2>1 DEF Granted, Waiting, NoCall
      <3>2. Granted(n) => req'[call'[n].handler].reply = req[call[n].handler].reply
        BY <1>3, <1>4, <1>5, <2>1 DEF Granted
      <3>3. Holder(n)' => Holder(n) /\ Held(n)' = Held(n)
        BY <1>2, <1>7, <2>1 DEF Holder, Held
      <3> QED
        BY <1>2, <2>0, <3>1, <3>2, <3>3, KeepsToken
    <2>2. CASE n = m /\ got = Unknown
      <3>1. ~Granted(m) /\ ~Granted(m)'
        BY <1>3, <2>2 DEF Granted, got, h
      <3>2. Holder(m)' => Holder(m) /\ Held(m)' = Held(m)
        BY <1>2, <1>7, <2>2 DEF Holder, Held
      <3> QED
        BY <1>2, <2>0, <2>2, <3>1, <3>2 DEF TokenKnown
    <2>3. CASE n = m /\ got # Unknown
      <3>1. Granted(m) /\ ~Granted(m)'
        BY <1>1, <1>3, <2>3 DEF Granted, got, h
      <3>2. m \notin unheard /\ got.id \in DOMAIN rows /\ rows[got.id].by = m
              => rows[got.id].token = got.token
        BY <2>0, <2>3, <3>1 DEF TokenKnown, got, h
      <3>3. Held(m)' = got
        <4>1. CASE kind[m] = "edr"
          BY <1>2, <1>7, <2>3, <4>1 DEF Held, Saved
        <4>2. CASE kind[m] # "edr"
          <5>1. call[m].by = "agent"
            BY <1>0, <1>1, <4>2 DEF CallsMatch, Calls, Waiting
          <5> QED
            BY <1>2, <1>7, <2>3, <4>2, <5>1 DEF Held
        <4> QED
          BY <4>1, <4>2
      <3> QED
        BY <1>2, <2>3, <3>1, <3>2, <3>3 DEF TokenKnown, Holder
    <2> QED
      BY <2>1, <2>2, <2>3
  <1> QED
    BY <1>8, <1>9, <1>10 DEF CredentialInv, HeldOrGranted

LEMMA GiveUpKeepsCredential ==
    ASSUME TypeOK, CredentialInv, NEW m \in Machines, GiveUp(m)
    PROVE  CredentialInv'
  <1> DEFINE h == call[m].handler
  <1>0. /\ CallsMatch /\ HeldOrGranted
        /\ call \in [Machines -> Calls] /\ req \in [Handlers -> Requests]
    BY DEF CredentialInv, TypeOK
  <1>1. Waiting(m) /\ h \in Handlers
    BY <1>0, OwnHandler DEF GiveUp
  <1>2. /\ UNCHANGED <<kind, uuid, rows, disk, mem>>
        /\ call' = [call EXCEPT ![m] = NoCall]
        /\ unheard' = unheard \union {m}
        /\ req' = req \/ req' = [req EXCEPT ![h] = Idle]
    BY DEF GiveUp, host
  <1>3. ~Waiting(m)' /\ \A n \in Machines \ {m} : call'[n] = call[n]
    BY <1>0, <1>2 DEF Waiting, NoCall
  <1>4. /\ req'[h] = req[h] \/ req'[h].pc = "idle"
        /\ \A g \in Handlers \ {h} : req'[g] = req[g]
    BY <1>0, <1>1, <1>2 DEF Idle
  <1>5. \A n \in Machines \ {m} : Waiting(n) =>
          call[n].handler \in Handlers \ {h} /\ req[call[n].handler].for = n
    BY <1>0, <1>1, OwnHandler
  <1>6. req[h].for = m
    BY <1>0, <1>1, OwnHandler
  <1> HIDE DEF h
  <1>7. CallsMatch'
    <2>1. ASSUME NEW n \in Machines, Waiting(n)'
          PROVE  /\ req'[call'[n].handler].pc # "idle"
                 /\ req'[call'[n].handler].for = n
                 /\ call'[n].by = "installer" => kind'[n] = "edr"
      BY <1>0, <1>2, <1>3, <1>4, <1>5, <2>1 DEF CallsMatch, Waiting
    <2>2. ASSUME NEW g \in Handlers, req'[g].pc # "idle", req'[g].for \notin unheard'
          PROVE  call'[req'[g].for] # NoCall /\ call'[req'[g].for].handler = g
      <3>1. g # h /\ req'[g] = req[g]
        BY <1>2, <1>4, <1>6, <2>2
      <3>2. call[req[g].for] # NoCall /\ call[req[g].for].handler = g /\ req[g].for \in Machines
        BY <1>0, <1>2, <2>2, <3>1 DEF CallsMatch, Waiting, TypeOK
      <3>3. req[g].for # m
        BY <1>2, <2>2, <3>1
      <3> QED
        BY <1>3, <3>1, <3>2, <3>3
    <2> QED
      BY <2>1, <2>2 DEF CallsMatch, Waiting, NoCall
  <1>8. ASSUME NEW n \in Machines PROVE TokenKnown(n)'
    <2>1. CASE n = m
      BY <1>2, <1>3, <2>1 DEF TokenKnown, Granted, Holder
    <2>2. CASE n # m
      <3>0. TokenKnown(n)
        BY <1>0 DEF HeldOrGranted
      <3>1. Granted(n)' = Granted(n)
        BY <1>3, <1>4, <1>5, <2>2 DEF Granted, Waiting, NoCall
      <3>2. Granted(n) => req'[call'[n].handler].reply = req[call[n].handler].reply
        BY <1>3, <1>4, <1>5, <2>2 DEF Granted
      <3>3. Holder(n)' => Holder(n) /\ Held(n)' = Held(n)
        BY <1>2 DEF Holder, Held
      <3> QED
        BY <1>2, <3>0, <3>1, <3>2, <3>3, KeepsToken
    <2> QED
      BY <2>1, <2>2
  <1> QED
    BY <1>2, <1>7, <1>8 DEF CredentialInv, HeldOrGranted

(* Steps that touch neither calls nor requests, and no row's token.        *)
LEMMA QuietKeepsCredential ==
    ASSUME TypeOK, CredentialInv, UNCHANGED <<kind, disk, call, req, unheard>>,
           \A n \in Machines : Holder(n)' => Held(n)' = Held(n),
           \A i \in DOMAIN rows' :
             rows'[i].by \notin Machines \/
               (i \in DOMAIN rows /\ rows'[i].by = rows[i].by /\ rows'[i].token = rows[i].token)
    PROVE  CredentialInv'
  <1>0. HeldOrGranted /\ CallsMatch
    BY DEF CredentialInv
  <1>1. CallsMatch'
    BY <1>0 DEF CallsMatch, Waiting, NoCall
  <1>2. ASSUME NEW n \in Machines PROVE TokenKnown(n)'
    <2>1. TokenKnown(n)
      BY <1>0 DEF HeldOrGranted
    <2>2. Granted(n)' = Granted(n)
      BY DEF Granted, Waiting, NoCall, Unknown, Ident
    <2>3. CASE Granted(n)
      BY <2>1, <2>2, <2>3 DEF TokenKnown
    <2>4. CASE ~Granted(n)
      <3>1. Holder(n)' => Held(n)' = Held(n)
        OBVIOUS
      <3>2. Holder(n)' => Holder(n) /\ rows'[Held(n).id].token = rows[Held(n).id].token
        BY <3>1 DEF Holder, Held
      <3> QED
        BY <2>1, <2>2, <2>4, <3>1, <3>2 DEF TokenKnown
    <2> QED
      BY <2>3, <2>4
  <1> QED
    BY <1>1, <1>2 DEF CredentialInv, HeldOrGranted

LEMMA HostKeepsCredential ==
    ASSUME TypeOK, CredentialInv, NEW m \in Machines, HostStep(m)
    PROVE  CredentialInv'
  <1>0. /\ disk \in [Machines -> Idents] /\ mem \in [Machines -> Idents \union {Down}]
        /\ DOMAIN rows = 1..Len(rows)
        /\ \A n \in Machines : kind[n] = "collector" => disk[n].token = 0
    BY DEF TypeOK, CredentialInv
  <1>1. CASE Install(m)
    <2>1. /\ UNCHANGED <<host, mem, rows, unheard>> /\ Send(m, "installer", TRUE)
          /\ kind[m] = "edr" /\ disk' = [disk EXCEPT ![m] = Unknown]
      BY <1>1 DEF Install
    <2>2. \A n \in Machines : Holder(n)' => Held(n)' = Held(n)
      BY <1>0, <2>1 DEF Holder, Held, host, Unknown, Ident
    <2>3. CallsMatch' /\ HeldOrGranted'
      BY <2>1, <2>2, SendKeepsTokens
    <2> QED
      BY <1>0, <2>1, <2>3 DEF CredentialInv, host
  <1>2. CASE Start(m)
    <2>1. /\ UNCHANGED <<kind, disk, call, req, unheard, rows>>
          /\ mem' = [mem EXCEPT ![m] = disk[m]]
      BY <1>2 DEF Start, host
    <2>2. \A n \in Machines : Holder(n)' => Held(n)' = Held(n)
      <3>1. \A n \in Machines \ {m} : mem'[n] = mem[n]
        BY <1>0, <2>1
      <3>2. mem'[m] = disk[m]
        BY <1>0, <2>1
      <3>3. kind[m] # "edr" => kind[m] = "collector"
        BY DEF TypeOK
      <3> QED
        BY <1>0, <2>1, <3>1, <3>2, <3>3 DEF Holder, Held
    <2> QED
      BY <2>1, <2>2, QuietKeepsCredential
  <1>3. CASE StartFresh(m)
    <2>1. /\ UNCHANGED <<host, disk, rows, unheard>>
          /\ Send(m, "agent", kind[m] = "collector")
          /\ mem' = [mem EXCEPT ![m] = Unknown]
      BY <1>3 DEF StartFresh
    <2>2. \A n \in Machines : Holder(n)' => Held(n)' = Held(n)
      BY <1>0, <2>1 DEF Holder, Held, host, Unknown, Ident
    <2>3. CallsMatch' /\ HeldOrGranted'
      BY <2>1, <2>2, SendKeepsTokens
    <2> QED
      BY <1>0, <2>1, <2>3 DEF CredentialInv, host
  <1>4. CASE Recover(m)
    <2>1. UNCHANGED <<host, disk, mem, rows, unheard>> /\ Send(m, "agent", FALSE)
      BY <1>4 DEF Recover
    <2>2. \A n \in Machines : Holder(n)' => Held(n)' = Held(n)
      BY <2>1 DEF Held, host
    <2>3. CallsMatch' /\ HeldOrGranted'
      BY <2>1, <2>2, SendKeepsTokens
    <2> QED
      BY <1>0, <2>1, <2>3 DEF CredentialInv, host
  <1>5. CASE Rename(m)
    <2>1. UNCHANGED <<kind, disk, mem, call, req, unheard, rows>>
      BY <1>5 DEF Rename, host
    <2>2. \A n \in Machines : Holder(n)' => Held(n)' = Held(n)
      BY <2>1 DEF Held
    <2> QED
      BY <2>1, <2>2, QuietKeepsCredential
  <1> QED
    BY <1>1, <1>2, <1>3, <1>4, <1>5, ReceiveKeepsCredential, GiveUpKeepsCredential DEF HostStep

LEMMA StepCredential == TypeOK /\ CredentialInv /\ [Next]_vars => CredentialInv'
  <1> SUFFICES ASSUME TypeOK, CredentialInv, [Next]_vars PROVE CredentialInv'
    OBVIOUS
  <1>1. ASSUME NEW n \in Names, AdminEnroll(n) PROVE CredentialInv'
    <2> DEFINE row == Row("edr", n, None, minted + 1, None)
    <2>1. /\ UNCHANGED <<kind, disk, mem, call, req, unheard>>
          /\ rows' = Append(rows, row)
      BY <1>1 DEF AdminEnroll, host
    <2>2. row.by \notin Machines
      BY NoneAssumption DEF Row
    <2> HIDE DEF row
    <2>3. \A i \in DOMAIN rows' : rows'[i].by \notin Machines \/
            (i \in DOMAIN rows /\ rows'[i].by = rows[i].by /\ rows'[i].token = rows[i].token)
      BY <2>1, <2>2 DEF TypeOK
    <2>4. \A m \in Machines : Holder(m)' => Held(m)' = Held(m)
      BY <2>1 DEF Held
    <2> QED
      BY <2>1, <2>3, <2>4, QuietKeepsCredential
  <1>2. ASSUME NEW i \in DOMAIN rows, Remove(i) PROVE CredentialInv'
    <2>1. /\ UNCHANGED <<kind, disk, mem, call, req, unheard>>
          /\ rows' = [rows EXCEPT ![i] = [rows[i] EXCEPT !.active = FALSE]]
      BY <1>2 DEF Remove, host
    <2>2. rows[i] \in RowType
      BY DEF TypeOK
    <2>3. /\ [rows[i] EXCEPT !.active = FALSE].by = rows[i].by
          /\ [rows[i] EXCEPT !.active = FALSE].token = rows[i].token
      BY <2>2 DEF RowType
    <2>4. \A j \in DOMAIN rows' : rows'[j].by \notin Machines \/
            (j \in DOMAIN rows /\ rows'[j].by = rows[j].by /\ rows'[j].token = rows[j].token)
      BY <2>1, <2>3 DEF TypeOK
    <2>5. \A m \in Machines : Holder(m)' => Held(m)' = Held(m)
      BY <2>1 DEF Held
    <2> QED
      BY <2>1, <2>4, <2>5, QuietKeepsCredential
  <1>3. CASE Revoke \/ UNCHANGED vars
    <2>1. UNCHANGED <<kind, disk, mem, call, req, unheard, rows>>
      BY <1>3 DEF Revoke, vars, host
    <2>2. \A m \in Machines : Holder(m)' => Held(m)' = Held(m)
      BY <2>1 DEF Held
    <2> QED
      BY <2>1, <2>2, QuietKeepsCredential
  <1> QED
    BY <1>1, <1>2, <1>3, HostKeepsCredential, HandlerKeepsCredential DEF Next

LEMMA InitCredential == Init => CredentialInv
  <1> SUFFICES ASSUME Init PROVE CredentialInv
    OBVIOUS
  <1>1. CallsMatch
    BY DEF Init, CallsMatch, Waiting, Idle
  <1>2. \A m \in Machines : disk[m].token = 0 /\ ~Granted(m) /\ ~Holder(m)
    BY DEF Init, Unknown, Ident, Granted, Waiting, Holder
  <1> QED
    BY <1>1, <1>2 DEF CredentialInv, HeldOrGranted, TokenKnown

(* A host that got all its answers, and whose row nobody enrolled on       *)
(* after it, holds the token the platform checks, whatever the order in    *)
(* which requests, installs, removals and restarts came.                   *)
THEOREM HostsHoldTheirToken == Spec => []TokenHeld
  <1>1. CredentialInv => TokenHeld
    BY DEF CredentialInv, HeldOrGranted, TokenKnown, Granted, TokenHeld
  <1> QED
    BY <1>1, InitTypes, StepTypes, InitCredential, StepCredential, PTL DEF Spec

=============================================================================
