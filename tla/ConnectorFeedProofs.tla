-------------------------- MODULE ConnectorFeedProofs --------------------------
(***************************************************************************)
(* For any events, vendor, threads, page sizes and failures: types, that   *)
(* the saved cursor passes no event but those accounted for or cut off a   *)
(* full page of one stamp, and that the guard lets a key be pushed once    *)
(* for each of its windows.                                                *)
(***************************************************************************)
EXTENDS ConnectorFeed, FiniteSetTheorems, WellFoundedInduction, TLAPS

QueryTypes ==
    /\ QueryOf.first \in -1..MaxClock
    /\ QueryOf.again \in BOOLEAN
    /\ QueryOf.capped \in BOOLEAN
    /\ QueryOf.sorted \in BOOLEAN
    /\ vendor = "office365" => ~QueryOf.capped /\ QueryOf.again

Accounts == Listed \union InFlight \union lost

(* Only a pull at its page holds events, none later than its minute.       *)
Holdings ==
    \A p \in Pullers :
        /\ proc[p].pc # "dedup" => proc[p].todo = {} /\ proc[p].fresh = {}
        /\ proc[p].pc = "started" => proc[p].next = proc[p].at
        /\ \A e \in proc[p].todo \union proc[p].fresh : Stamp[e] <= proc[p].minute

SeenByNow == \A e \in seen : Stamp[e] <= clock

(* The guard holds only keys that are accounted for.                       *)
KeysAccounted == keys \subseteq Accounts

(* The events that may be passed, those left that no account covers, and   *)
(* the cursors that pass none of these.                                    *)
Covered == {e \in Events : CoveredBy(e, Accounts)}
Passed == missed \union cut
Open == seen \ (Passed \union Covered)
Settled == {c \in -1..MaxClock : \A e \in Open : ~Past(c, Stamp[e])}

(* What a pull has passed, or will pass when it saves.                     *)
PullsSettle ==
    QueryOf.sorted => \A p \in Pullers : Busy(p) =>
        /\ proc[p].at \in Settled
        /\ \A e \in Open \ proc[p].todo : ~Past(proc[p].next, Stamp[e])

CursorSettled == QueryOf.sorted => cursor \in Settled

IInv ==
    /\ TypeOK
    /\ Holdings
    /\ SeenByNow
    /\ KeysAccounted
    /\ PullsSettle
    /\ CursorSettled
-----------------------------------------------------------------------------
(* Constants and queries.                                                  *)
LEMMA Constants ==
    /\ PageSize \in Nat /\ PageSize > 0 /\ Lookback \in Nat /\ Span \in Nat /\ Span > 0
    /\ MaxClock \in Nat
    /\ Stamp \in [Events -> 0..MaxClock]
    /\ IsFiniteSet(Events) /\ IsFiniteSet(Pullers)
  BY BoundsAssumption, StampAssumption, FiniteAssumption

LEMMA VendorKnown == TypeOK => vendor \in KnownVendors
  BY VendorsAssumption DEF TypeOK

LEMMA QueryTypesHold == TypeOK => QueryTypes
  <1> SUFFICES ASSUME TypeOK PROVE QueryTypes
    OBVIOUS
  <1>1. clock \in 0..MaxClock /\ Back \in 0..MaxClock /\ NoCursor \in -1..MaxClock
    BY Constants DEF TypeOK, Back, NoCursor
  <1>2. vendor \in {"wazuh", "splunk", "qradar", "sentinelone", "paloalto",
                    "office365", "azure", "aws", "gcp"}
    BY VendorKnown DEF KnownVendors
  <1>3. CASE vendor = "wazuh"
    <2>1. QueryOf = Wazuh
      BY <1>3 DEF QueryOf
    <2> QED BY <1>1, <1>3, <2>1 DEF QueryTypes, Query, Wazuh
  <1>4. CASE vendor = "splunk"
    <2>1. QueryOf = Splunk
      BY <1>4 DEF QueryOf
    <2> QED BY <1>1, <1>4, <2>1 DEF QueryTypes, Query, Splunk
  <1>5. CASE vendor = "qradar"
    <2>1. QueryOf = QRadar
      BY <1>5 DEF QueryOf
    <2> QED BY <1>1, <1>5, <2>1 DEF QueryTypes, Query, QRadar
  <1>6. CASE vendor = "sentinelone"
    <2>1. QueryOf = SentinelOne
      BY <1>6 DEF QueryOf
    <2> QED BY <1>1, <1>6, <2>1 DEF QueryTypes, Query, SentinelOne
  <1>7. CASE vendor = "paloalto"
    <2>1. QueryOf = PaloAlto
      BY <1>7 DEF QueryOf
    <2> QED BY <1>1, <1>7, <2>1 DEF QueryTypes, Query, PaloAlto
  <1>8. CASE vendor = "office365"
    <2>1. QueryOf = Office365
      BY <1>8 DEF QueryOf
    <2> QED BY <1>1, <1>8, <2>1 DEF QueryTypes, Query, Office365
  <1>9. CASE vendor = "azure"
    <2>1. QueryOf = Azure
      BY <1>9 DEF QueryOf
    <2> QED BY <1>1, <1>9, <2>1 DEF QueryTypes, Query, Azure
  <1>10. CASE vendor = "aws"
    <2>1. QueryOf = Aws
      BY <1>10 DEF QueryOf
    <2> QED BY <1>1, <1>10, <2>1 DEF QueryTypes, Query, Aws
  <1>11. CASE vendor = "gcp"
    <2>1. QueryOf = Gcp
      BY <1>11 DEF QueryOf
    <2> QED BY <1>1, <1>11, <2>1 DEF QueryTypes, Query, Gcp
  <1> QED
    BY <1>2, <1>3, <1>4, <1>5, <1>6, <1>7, <1>8, <1>9, <1>10, <1>11

(* A query's kind is its vendor's, whatever the clock.                     *)
LEMMA QueryStays ==
    ASSUME vendor \in KnownVendors, vendor' = vendor
    PROVE  /\ QueryOf.again' = QueryOf.again
           /\ QueryOf.sorted' = QueryOf.sorted
           /\ \A c, s : Past(c, s)' <=> Past(c, s)
  <1> USE DEF QueryOf, Query
  <1>1. QueryOf.again' = QueryOf.again /\ QueryOf.sorted' = QueryOf.sorted
    <2>1. CASE vendor = "wazuh" BY <2>1 DEF Wazuh
    <2>2. CASE vendor = "splunk" BY <2>2 DEF Splunk
    <2>3. CASE vendor = "qradar" BY <2>3 DEF QRadar
    <2>4. CASE vendor = "sentinelone" BY <2>4 DEF SentinelOne
    <2>5. CASE vendor = "paloalto" BY <2>5 DEF PaloAlto
    <2>6. CASE vendor = "office365" BY <2>6 DEF Office365
    <2>7. CASE vendor = "azure" BY <2>7 DEF Azure
    <2>8. CASE vendor = "aws" BY <2>8 DEF Aws
    <2>9. CASE vendor = "gcp" BY <2>9 DEF Gcp
    <2> QED
      BY <2>1, <2>2, <2>3, <2>4, <2>5, <2>6, <2>7, <2>8, <2>9 DEF KnownVendors
  <1> HIDE DEF QueryOf, Query
  <1> QED BY <1>1 DEF Past

LEMMA GreatestStamp ==
    ASSUME NEW S \in SUBSET (0..MaxClock), S # {}
    PROVE  \E s \in S : \A t \in S : t <= s
  <1> DEFINE T == {MaxClock - s : s \in S}
  <1>1. T \subseteq Nat /\ T # {}
    <2>1. MaxClock \in Nat
      BY Constants
    <2>2. \A s \in S : MaxClock - s \in Nat
      BY <2>1
    <2> QED BY <2>2
  <1>2. PICK n \in T : \A k \in T : n <= k
    <2> DEFINE R == OpToRel(<, Nat)
    <2>1. IsWellFoundedOn(R, Nat)
      BY NatLessThanWellFounded
    <2>2. \A k \in Nat, n \in Nat : k < n => <<k, n>> \in R
      BY DEF OpToRel
    <2> HIDE DEF T, R
    <2>3. \E n \in T : \A k \in T : ~(<<k, n>> \in R)
      BY <1>1, <2>1, WFMin
    <2>4. \A n \in T, k \in T : ~(<<k, n>> \in R) => n <= k
      <3> TAKE n \in T, k \in T
      <3>1. n \in Nat /\ k \in Nat
        BY <1>1
      <3>2. k < n => <<k, n>> \in R
        BY <2>2, <3>1
      <3> QED BY <3>1, <3>2
    <2>5. \E n \in T : \A k \in T : n <= k
      BY <2>3, <2>4
    <2> QED BY <2>5
  <1>3. PICK s \in S : n = MaxClock - s
    BY <1>2
  <1>4. \A t \in S : n <= MaxClock - t
    BY <1>2
  <1> QED BY <1>3, <1>4, Constants

LEMMA NewestIs ==
    ASSUME NEW page \in SUBSET Events, page # {}
    PROVE  /\ Newest(page) \in 0..MaxClock
           /\ \A e \in page : Stamp[e] <= Newest(page)
           /\ \E e \in page : Newest(page) = Stamp[e]
  <1> DEFINE S == {Stamp[e] : e \in page}
  <1>1. S \in SUBSET (0..MaxClock) /\ S # {}
    BY Constants
  <1>2. \E s \in S : \A t \in S : t <= s
    BY <1>1, GreatestStamp
  <1>3. \E s \in S : \A e \in page : Stamp[e] <= s
    BY <1>2
  <1>4. Newest(page) \in S /\ \A e \in page : Stamp[e] <= Newest(page)
    BY <1>3 DEF Newest
  <1> QED BY <1>1, <1>4

LEMMA KeyType ==
    ASSUME TypeOK, NEW p \in Pullers, NEW e \in Events
    PROVE  /\ KeyOf(p, e) \in Key
           /\ KeyOf(p, e).desc = Desc[e]
           /\ Stamp[e] <= proc[p].minute => KeyOf(p, e).minute >= Stamp[e]
  <1>1. Stamp[e] \in 0..MaxClock /\ Desc[e] \in Descs
    BY Constants DEF Descs
  <1>2. proc[p].minute \in 0..MaxClock
    BY DEF TypeOK, PullType
  <1>3. (IF vendor = "wazuh" THEN Stamp[e] ELSE proc[p].minute) \in 0..MaxClock
    BY <1>1, <1>2
  <1> QED BY <1>1, <1>2, <1>3 DEF KeyOf, Key

LEMMA PushedType ==
    ASSUME TypeOK, NEW p \in Pullers, NEW page \in SUBSET Events,
           NEW from \in [Key -> Nat]
    PROVE  /\ Pushed(p, page, from) \in [Key -> Nat]
           /\ \A k \in Key : Pushed(p, page, from)[k] >= from[k]
           /\ \A k \in Key : k \in KeysOf(p, page) => Pushed(p, page, from)[k] > 0
  <1> DEFINE Same(k) == {e \in page : KeyOf(p, e) = k}
  <1>1. \A k \in Key : IsFiniteSet(Same(k)) /\ Cardinality(Same(k)) \in Nat
    <2> TAKE k \in Key
    <2>1. Same(k) \in SUBSET Events
      OBVIOUS
    <2>2. IsFiniteSet(Same(k))
      BY <2>1, Constants, FS_Subset, Zenon
    <2> QED BY <2>2, FS_CardinalityType
  <1>2. \A k \in Key : Pushed(p, page, from)[k] = from[k] + Cardinality(Same(k))
    BY DEF Pushed
  <1>3. \A k \in Key : k \in KeysOf(p, page) => Same(k) # {}
    BY DEF KeysOf
  <1>4. \A k \in Key : Same(k) # {} => Cardinality(Same(k)) > 0
    BY <1>1, FS_EmptySet
  <1>5. Pushed(p, page, from) = [k \in Key |-> from[k] + Cardinality(Same(k))]
    BY DEF Pushed
  <1> HIDE DEF Same
  <1>6. \A k \in Key : from[k] \in Nat
    OBVIOUS
  <1>7. \A k \in Key : from[k] + Cardinality(Same(k)) \in Nat
    BY <1>1, <1>6
  <1>8. Pushed(p, page, from) \in [Key -> Nat]
    BY <1>5, <1>7
  <1> QED BY <1>1, <1>2, <1>3, <1>4, <1>6, <1>8
-----------------------------------------------------------------------------
(* Types.                                                                  *)
LEMMA IdleType == Idle \in PullType
  BY Constants DEF Idle, PullType, NoCursor

LEMMA SinceType == ASSUME TypeOK, NEW at \in -1..MaxClock PROVE Since(at) \in -1..MaxClock
  BY QueryTypesHold DEF QueryTypes, Since

LEMMA EndType ==
    ASSUME TypeOK, NEW since \in -1..MaxClock
    PROVE  End(since) \in 0..MaxClock /\ End(since) <= clock
  BY Constants DEF TypeOK, End, LeastOf

LEMMA PagesType ==
    ASSUME TypeOK, NEW found \in SUBSET seen, NEW page \in Pages(found)
    PROVE  page \subseteq found /\ page \subseteq Events
  <1>1. page \subseteq found
    BY DEF Pages
  <1> QED BY <1>1 DEF TypeOK

LEMMA MatchingType ==
    ASSUME NEW since PROVE Matching(since) \in SUBSET seen
  BY DEF Matching

LEMMA NextType ==
    ASSUME TypeOK, NEW at \in -1..MaxClock, NEW page \in SUBSET Events
    PROVE  /\ NextCursor(at, page) \in -1..MaxClock
           /\ vendor = "office365" => NextCursor(at, page) = End(Since(at))
           /\ vendor # "office365" /\ page # {} => NextCursor(at, page) = Newest(page)
  <1>1. Since(at) \in -1..MaxClock /\ End(Since(at)) \in 0..MaxClock
    BY SinceType, EndType
  <1>2. clock \in 0..MaxClock
    BY DEF TypeOK
  <1>3. CASE vendor = "office365"
    <2>1. NextCursor(at, page) = End(Since(at))
      BY <1>3 DEF NextCursor
    <2> QED BY <1>1, <1>3, <2>1
  <1>4. CASE vendor # "office365" /\ page # {}
    <2>1. NextCursor(at, page) = Newest(page)
      BY <1>4 DEF NextCursor
    <2>2. Newest(page) \in 0..MaxClock
      BY <1>4, NewestIs
    <2> QED BY <1>4, <2>1, <2>2
  <1>5. CASE vendor # "office365" /\ page = {}
    <2>1. CASE vendor = "aws"
      <3>1. NextCursor(at, page) = clock
        BY <1>5, <2>1 DEF NextCursor
      <3> QED BY <1>2, <1>5, <3>1
    <2>2. CASE vendor = "splunk"
      <3>1. NextCursor(at, page) = at
        BY <1>5, <2>2 DEF NextCursor
      <3> QED BY <1>5, <3>1
    <2>3. CASE vendor # "aws" /\ vendor # "splunk"
      <3>1. NextCursor(at, page) = Since(at)
        BY <1>5, <2>3 DEF NextCursor
      <3> QED BY <1>1, <1>5, <3>1
    <2> QED BY <2>1, <2>2, <2>3
  <1> QED BY <1>3, <1>4, <1>5

(* A step of one pull changes that pull alone.                             *)
LEMMA PullParts ==
    ASSUME TypeOK, NEW p \in Pullers
    PROVE  /\ proc[p] \in PullType
           /\ proc[p].at \in -1..MaxClock /\ proc[p].next \in -1..MaxClock
           /\ proc[p].minute \in 0..MaxClock
           /\ proc[p].todo \in SUBSET Events /\ proc[p].fresh \in SUBSET Events
  BY DEF TypeOK, PullType

LEMMA TypesTick == TypeOK /\ Tick => TypeOK'
  BY Constants DEF TypeOK, Tick
LEMMA TypesAppear == ASSUME NEW e \in Events PROVE TypeOK /\ Appear(e) => TypeOK'
  BY DEF TypeOK, Appear
LEMMA TypesStart == ASSUME NEW p \in Pullers PROVE TypeOK /\ Start(p) => TypeOK'
  <1> SUFFICES ASSUME TypeOK, Start(p) PROVE TypeOK'
    OBVIOUS
  <1>1. [Idle EXCEPT !.pc = "started", !.at = cursor, !.next = cursor] \in PullType
    BY IdleType DEF TypeOK, PullType
  <1> QED BY <1>1 DEF TypeOK, Start
LEMMA TypesPull == ASSUME NEW p \in Pullers PROVE TypeOK /\ Pull(p) => TypeOK'
  <1> SUFFICES ASSUME TypeOK, Pull(p) PROVE TypeOK'
    OBVIOUS
  <1> DEFINE at == proc[p].at
  <1>1. PICK page \in Pages(Matching(Since(at))) :
          /\ proc' = [proc EXCEPT ![p].pc = "dedup", ![p].todo = page,
                        ![p].next = NextCursor(at, page), ![p].minute = clock]
          /\ missed' = missed \union LeftBehind(at)
          /\ cut' = cut \union CutOff(at, page, NextCursor(at, page))
    BY DEF Pull
  <1>2. page \in SUBSET Events
    BY MatchingType, PagesType
  <1>3. NextCursor(at, page) \in -1..MaxClock
    BY <1>2, NextType, PullParts
  <1>4. /\ LeftBehind(at) \subseteq Events
        /\ CutOff(at, page, NextCursor(at, page)) \subseteq Events
    BY MatchingType DEF LeftBehind, CutOff, TypeOK
  <1>5. proc' \in [Pullers -> PullType]
    <2> DEFINE r == [proc[p] EXCEPT !.pc = "dedup", !.todo = page,
                                    !.next = NextCursor(at, page), !.minute = clock]
    <2>1. r \in PullType
      BY <1>2, <1>3, PullParts DEF TypeOK, PullType
    <2>2. proc' = [proc EXCEPT ![p] = r]
      BY <1>1
    <2> HIDE DEF r
    <2> QED BY <2>1, <2>2 DEF TypeOK
  <1>6. missed' \subseteq Events /\ cut' \subseteq Events
    BY <1>1, <1>4 DEF TypeOK
  <1> QED BY <1>5, <1>6 DEF TypeOK, Pull
LEMMA TypesFails ==
    ASSUME NEW p \in Pullers
    PROVE  TypeOK /\ (PullFails(p) \/ BlobFails(p) \/ SaveFails(p)) => TypeOK'
  <1> SUFFICES ASSUME TypeOK, PullFails(p) \/ BlobFails(p) \/ SaveFails(p) PROVE TypeOK'
    OBVIOUS
  <1>1. proc' \in [Pullers -> PullType]
    <2>1. CASE PullFails(p)
      BY <2>1 DEF PullFails, TypeOK, PullType
    <2>2. CASE BlobFails(p)
      BY <2>2 DEF BlobFails, TypeOK, PullType
    <2>3. CASE SaveFails(p)
      BY <2>3, IdleType DEF SaveFails, TypeOK
    <2> QED BY <2>1, <2>2, <2>3
  <1>2. missed' \subseteq Events /\ faults' \in Nat
    BY PullParts DEF PullFails, BlobFails, SaveFails, Fault, TypeOK
  <1> QED BY <1>1, <1>2 DEF PullFails, BlobFails, SaveFails, TypeOK
LEMMA TypesDedup ==
    ASSUME NEW p \in Pullers, NEW e \in Events
    PROVE  TypeOK /\ (Dedup(p, e) \/ DedupFailsOpen(p, e)) => TypeOK'
  <1> SUFFICES ASSUME TypeOK, Dedup(p, e) \/ DedupFailsOpen(p, e) PROVE TypeOK'
    OBVIOUS
  <1>1. KeyOf(p, e) \in Key
    BY KeyType
  <1>2. CASE Dedup(p, e)
    <2>1. windows' \in [Key -> Nat] /\ keys' \subseteq Key
      BY <1>1, <1>2 DEF Dedup, TypeOK
    <2>2. (IF KeyOf(p, e) \notin keys THEN proc[p].fresh \union {e} ELSE proc[p].fresh)
             \in SUBSET Events
      BY PullParts
    <2> DEFINE fresh == IF KeyOf(p, e) \notin keys THEN proc[p].fresh \union {e}
                        ELSE proc[p].fresh
               r == [proc[p] EXCEPT !.todo = proc[p].todo \ {e}, !.fresh = fresh]
    <2>3. proc' \in [Pullers -> PullType]
      <3>1. proc' = [proc EXCEPT ![p] = r]
        BY <1>2 DEF Dedup
      <3>2. r \in PullType
        BY <2>2, PullParts DEF PullType
      <3> HIDE DEF r
      <3> QED BY <3>1, <3>2 DEF TypeOK
    <2> HIDE DEF fresh, r
    <2> QED BY <1>2, <2>1, <2>3 DEF Dedup, TypeOK
  <1>3. CASE DedupFailsOpen(p, e)
    <2>1. keys' \subseteq Key /\ faults' \in Nat
      BY <1>1, <1>3 DEF DedupFailsOpen, Fault, TypeOK
    <2>2. proc' \in [Pullers -> PullType]
      BY <1>3, PullParts DEF DedupFailsOpen, TypeOK, PullType
    <2> QED BY <1>3, <2>1, <2>2 DEF DedupFailsOpen, TypeOK
  <1> QED BY <1>2, <1>3
LEMMA KeysOfType ==
    ASSUME TypeOK, NEW p \in Pullers, NEW page \in SUBSET Events
    PROVE  KeysOf(p, page) \subseteq Key
  BY KeyType DEF KeysOf
LEMMA TypesPage == ASSUME NEW p \in Pullers PROVE TypeOK /\ PageFails(p) => TypeOK'
  <1> SUFFICES ASSUME TypeOK, PageFails(p) PROVE TypeOK'
    OBVIOUS
  <1>1. KeysOf(p, proc[p].todo \union proc[p].fresh) \subseteq Key
    BY PullParts, KeysOfType
  <1>2. proc' \in [Pullers -> PullType]
    BY DEF PageFails, TypeOK, PullType
  <1>3. lost' \subseteq Key /\ faults' \in Nat
    <2>1. lost' = lost \union KeysOf(p, proc[p].todo \union proc[p].fresh) /\ Fault
      BY DEF PageFails
    <2>2. lost \subseteq Key /\ faults \in Nat
      BY DEF TypeOK
    <2>3. lost' \subseteq Key
      BY <1>1, <2>1, <2>2
    <2>4. faults' \in Nat
      BY <2>1, <2>2 DEF Fault
    <2> QED BY <2>3, <2>4
  <1>4. UNCHANGED <<vendor, clock, seen, cursor, keys, pushes, windows, missed, cut>>
    BY DEF PageFails
  <1> QED BY <1>2, <1>3, <1>4 DEF TypeOK
LEMMA TypesPush == ASSUME NEW p \in Pullers PROVE TypeOK /\ Push(p) => TypeOK'
  <1> SUFFICES ASSUME TypeOK, Push(p) PROVE TypeOK'
    OBVIOUS
  <1>1. pushes' \in [Key -> Nat]
    BY PushedType, PullParts DEF Push, TypeOK
  <1>2. proc' \in [Pullers -> PullType]
    BY DEF Push, TypeOK, PullType
  <1> QED BY <1>1, <1>2 DEF Push, TypeOK
LEMMA TypesPushFails == ASSUME NEW p \in Pullers PROVE TypeOK /\ PushFails(p) => TypeOK'
  <1> SUFFICES ASSUME TypeOK, PushFails(p) PROVE TypeOK'
    OBVIOUS
  <1>1. PICK applied \in BOOLEAN, landed \in SUBSET proc[p].fresh :
          /\ pushes' = Pushed(p, landed, IF applied THEN Pushed(p, proc[p].fresh, pushes)
                                         ELSE pushes)
          /\ lost' = lost \union IF applied THEN {} ELSE KeysOf(p, proc[p].fresh \ landed)
    BY DEF PushFails
  <1>2. landed \in SUBSET Events /\ proc[p].fresh \in SUBSET Events
    BY PullParts
  <1>3. (IF applied THEN Pushed(p, proc[p].fresh, pushes) ELSE pushes) \in [Key -> Nat]
    BY <1>2, PushedType DEF TypeOK
  <1>4. pushes' \in [Key -> Nat]
    BY <1>1, <1>2, <1>3, PushedType
  <1>5. lost' \subseteq Key
    BY <1>1, <1>2, KeysOfType DEF TypeOK
  <1>6. proc' \in [Pullers -> PullType]
    BY DEF PushFails, TypeOK, PullType
  <1>7. faults' \in Nat
    BY DEF PushFails, Fault, TypeOK
  <1> QED BY <1>4, <1>5, <1>6, <1>7 DEF PushFails, TypeOK
LEMMA TypesSave == ASSUME NEW p \in Pullers PROVE TypeOK /\ Save(p) => TypeOK'
  BY IdleType, PullParts DEF Save, TypeOK
LEMMA TypesCrash == TypeOK /\ Crash => TypeOK'
  <1> SUFFICES ASSUME TypeOK, Crash PROVE TypeOK'
    OBVIOUS
  <1>1. \A p \in Pullers : KeysOf(p, proc[p].fresh) \subseteq Key
    BY PullParts, KeysOfType
  <1>2. lost' \subseteq Key
    BY <1>1 DEF Crash, TypeOK
  <1>3. proc' \in [Pullers -> PullType]
    BY IdleType DEF Crash
  <1> QED BY <1>2, <1>3 DEF Crash, Fault, TypeOK
LEMMA TypesExpire == ASSUME NEW k \in Key PROVE TypeOK /\ KeyExpires(k) => TypeOK'
  BY DEF TypeOK, KeyExpires

LEMMA TypesStep == TypeOK /\ [Next]_vars => TypeOK'
  <1> SUFFICES ASSUME TypeOK, [Next]_vars PROVE TypeOK'
    OBVIOUS
  <1>1. CASE UNCHANGED vars
    BY <1>1 DEF TypeOK, vars
  <1> QED
    BY <1>1, TypesTick, TypesAppear, TypesStart, TypesPull, TypesFails, TypesDedup,
       TypesPage, TypesPush, TypesPushFails, TypesSave, TypesCrash, TypesExpire
    DEF Next, Work, Fails
-----------------------------------------------------------------------------
(* What each step does to the pulls: one of them changes, the others stay. *)
Others(p) == \A q \in Pullers \ {p} : proc'[q] = proc[q]

LEMMA PullDoes ==
    ASSUME TypeOK, NEW p \in Pullers, Pull(p)
    PROVE  /\ Others(p)
           /\ proc[p].pc = "started" /\ proc'[p].pc = "dedup"
           /\ proc'[p].at = proc[p].at /\ proc'[p].fresh = proc[p].fresh
           /\ proc'[p].minute = clock
           /\ proc'[p].todo \in Pages(Matching(Since(proc[p].at)))
           /\ proc'[p].next = NextCursor(proc[p].at, proc'[p].todo)
           /\ missed' = missed \union LeftBehind(proc[p].at)
           /\ cut' = cut \union CutOff(proc[p].at, proc'[p].todo, proc'[p].next)
           /\ UNCHANGED <<vendor, clock, seen, cursor, keys, pushes, lost>>
  <1> DEFINE at == proc[p].at
  <1>1. PICK page \in Pages(Matching(Since(at))) :
          /\ proc' = [proc EXCEPT ![p].pc = "dedup", ![p].todo = page,
                        ![p].next = NextCursor(at, page), ![p].minute = clock]
          /\ missed' = missed \union LeftBehind(at)
          /\ cut' = cut \union CutOff(at, page, NextCursor(at, page))
    BY DEF Pull
  <1> DEFINE r == [proc[p] EXCEPT !.pc = "dedup", !.todo = page,
                                  !.next = NextCursor(at, page), !.minute = clock]
  <1>2. proc' = [proc EXCEPT ![p] = r]
    BY <1>1
  <1>3. /\ r.pc = "dedup" /\ r.at = at /\ r.fresh = proc[p].fresh /\ r.minute = clock
        /\ r.todo = page /\ r.next = NextCursor(at, page)
    BY PullParts DEF PullType
  <1> HIDE DEF r
  <1>4. Others(p) /\ proc'[p] = r
    BY <1>2 DEF Others, TypeOK
  <1> QED BY <1>1, <1>3, <1>4 DEF Pull

LEMMA DedupDoes ==
    ASSUME TypeOK, NEW p \in Pullers, NEW e \in Events, Dedup(p, e) \/ DedupFailsOpen(p, e)
    PROVE  /\ Others(p)
           /\ proc[p].pc = "dedup" /\ proc'[p].pc = "dedup" /\ e \in proc[p].todo
           /\ proc'[p].at = proc[p].at /\ proc'[p].next = proc[p].next
           /\ proc'[p].minute = proc[p].minute
           /\ proc'[p].todo = proc[p].todo \ {e}
           /\ \/ proc'[p].fresh = proc[p].fresh \union {e}
              \/ proc'[p].fresh = proc[p].fresh /\ KeyOf(p, e) \in keys
           /\ KeyOf(p, e) \notin keys => proc'[p].fresh = proc[p].fresh \union {e}
           /\ keys' \subseteq keys \union {KeyOf(p, e)}
           /\ KeyOf(p, e) \in keys => keys' = keys
           /\ UNCHANGED <<vendor, clock, seen, cursor, pushes, missed, cut, lost>>
  <1> DEFINE both == proc[p].fresh \union {e}
             fresh == IF Dedup(p, e) /\ KeyOf(p, e) \in keys THEN proc[p].fresh ELSE both
             r == [proc[p] EXCEPT !.todo = proc[p].todo \ {e}, !.fresh = fresh]
  <1>1. proc' = [proc EXCEPT ![p] = r]
    <2>1. CASE Dedup(p, e)
      <3>1. fresh = IF KeyOf(p, e) \notin keys THEN both ELSE proc[p].fresh
        BY <2>1
      <3> QED BY <2>1, <3>1 DEF Dedup
    <2>2. CASE ~Dedup(p, e)
      BY <2>2 DEF DedupFailsOpen
    <2> QED BY <2>1, <2>2
  <1>2. /\ r.pc = proc[p].pc /\ r.at = proc[p].at /\ r.next = proc[p].next
        /\ r.minute = proc[p].minute /\ r.todo = proc[p].todo \ {e} /\ r.fresh = fresh
    BY PullParts DEF PullType
  <1> HIDE DEF r
  <1>3. Others(p) /\ proc'[p] = r
    BY <1>1 DEF Others, TypeOK
  <1>4. proc[p].pc = "dedup" /\ e \in proc[p].todo
    BY DEF Dedup, DedupFailsOpen, NextOf
  <1>5. /\ keys' \subseteq keys \union {KeyOf(p, e)}
        /\ KeyOf(p, e) \in keys => keys' = keys
        /\ UNCHANGED <<vendor, clock, seen, cursor, pushes, missed, cut, lost>>
    BY DEF Dedup, DedupFailsOpen
  <1> QED BY <1>2, <1>3, <1>4, <1>5

(* The steps that let go of what a pull holds, and where it goes.          *)
LEMMA LetsGo ==
    ASSUME TypeOK, NEW p \in Pullers, PageFails(p) \/ Push(p) \/ PushFails(p)
    PROVE  /\ Others(p)
           /\ proc[p].pc = "dedup" /\ proc'[p].pc = "save"
           /\ proc'[p].at = proc[p].at /\ proc'[p].next = proc[p].next
           /\ proc'[p].minute = proc[p].minute
           /\ proc'[p].todo = {} /\ proc'[p].fresh = {}
           /\ Listed \subseteq Listed' /\ lost \subseteq lost'
           /\ KeysOf(p, proc[p].fresh) \subseteq Listed' \union lost'
           /\ proc[p].todo = {} \/ KeysOf(p, proc[p].todo) \subseteq lost'
           /\ UNCHANGED <<vendor, clock, seen, cursor, keys, missed, cut>>
  <1>1. proc[p] \in PullType
    BY PullParts
  <1>2. /\ Others(p)
        /\ proc[p].pc = "dedup" /\ proc'[p].pc = "save"
        /\ proc'[p].at = proc[p].at /\ proc'[p].next = proc[p].next
        /\ proc'[p].minute = proc[p].minute
        /\ proc'[p].fresh = {}
    BY <1>1 DEF PageFails, Push, PushFails, TypeOK, PullType, Others
  <1>3. proc'[p].todo = {}
    <2>1. CASE PageFails(p)
      BY <1>1, <2>1 DEF PageFails, TypeOK, PullType
    <2>2. CASE Push(p) \/ PushFails(p)
      BY <1>1, <2>2 DEF Push, PushFails, TypeOK, PullType
    <2> QED BY <2>1, <2>2
  <1>4. \A k \in Key : pushes[k] \in Nat
    BY DEF TypeOK
  <1>5. proc[p].fresh \in SUBSET Events /\ KeysOf(p, proc[p].fresh) \subseteq Key
    BY PullParts, KeysOfType
  <1>6. UNCHANGED <<vendor, clock, seen, cursor, keys, missed, cut>>
    BY DEF PageFails, Push, PushFails
  <1>7. CASE PageFails(p)
    <2>1. UNCHANGED pushes /\ lost' = lost \union KeysOf(p, proc[p].todo \union proc[p].fresh)
      BY <1>7 DEF PageFails
    <2>2. Listed' = Listed
      BY <2>1 DEF Listed
    <2>3. /\ KeysOf(p, proc[p].fresh) \subseteq lost'
          /\ KeysOf(p, proc[p].todo) \subseteq lost'
      BY <2>1 DEF KeysOf
    <2> QED BY <1>2, <1>3, <1>6, <2>1, <2>2, <2>3
  <1>8. CASE Push(p)
    <2>1. /\ pushes' = Pushed(p, proc[p].fresh, pushes)
          /\ lost' = lost /\ proc[p].todo = {}
      BY <1>8 DEF Push
    <2>2. /\ \A k \in Key : pushes'[k] >= pushes[k] /\ pushes'[k] \in Nat
          /\ \A k \in Key : k \in KeysOf(p, proc[p].fresh) => pushes'[k] > 0
      BY <1>5, <2>1, PushedType DEF TypeOK
    <2>3. Listed \subseteq Listed'
      BY <1>4, <2>2 DEF Listed
    <2>4. KeysOf(p, proc[p].fresh) \subseteq Listed'
      BY <1>5, <2>2 DEF Listed
    <2> QED BY <1>2, <1>3, <1>6, <2>1, <2>3, <2>4
  <1>9. CASE PushFails(p)
    <2>1. PICK applied \in BOOLEAN, landed \in SUBSET proc[p].fresh :
            /\ pushes' = Pushed(p, landed, IF applied THEN Pushed(p, proc[p].fresh, pushes)
                                           ELSE pushes)
            /\ lost' = lost \union IF applied THEN {} ELSE KeysOf(p, proc[p].fresh \ landed)
      BY <1>9 DEF PushFails
    <2> DEFINE mid == IF applied THEN Pushed(p, proc[p].fresh, pushes) ELSE pushes
    <2>2. mid \in [Key -> Nat] /\ \A k \in Key : mid[k] >= pushes[k]
      BY <1>4, <1>5, PushedType DEF TypeOK
    <2>3. applied => \A k \in Key : k \in KeysOf(p, proc[p].fresh) => mid[k] > 0
      BY <1>5, PushedType DEF TypeOK
    <2> HIDE DEF mid
    <2>4. landed \in SUBSET Events /\ pushes' = Pushed(p, landed, mid)
      BY <1>5, <2>1 DEF mid
    <2>5. /\ \A k \in Key : pushes'[k] >= mid[k] /\ pushes'[k] \in Nat
          /\ \A k \in Key : k \in KeysOf(p, landed) => pushes'[k] > 0
      BY <2>2, <2>4, PushedType
    <2>6. \A k \in Key : pushes'[k] >= pushes[k] /\ mid[k] \in Nat
      BY <1>4, <2>2, <2>5
    <2>7. Listed \subseteq Listed' /\ lost \subseteq lost'
      BY <1>4, <2>1, <2>5, <2>6 DEF Listed
    <2>8. KeysOf(p, proc[p].fresh) \subseteq Listed' \union lost'
      <3>1. CASE applied
        BY <1>5, <2>3, <2>5, <2>6, <3>1 DEF Listed
      <3>2. CASE ~applied
        <4>1. KeysOf(p, landed) \subseteq Listed'
          BY <1>5, <2>5, KeysOfType, <2>4 DEF Listed
        <4>2. KeysOf(p, proc[p].fresh \ landed) \subseteq lost'
          BY <2>1, <3>2
        <4> QED BY <4>1, <4>2 DEF KeysOf
      <3> QED BY <3>1, <3>2
    <2>9. proc[p].todo = {}
      BY <1>9 DEF PushFails
    <2> QED BY <1>2, <1>3, <1>6, <2>7, <2>8, <2>9
  <1> QED BY <1>7, <1>8, <1>9

(* The steps that begin or end a pull, or stop it before its page is in.   *)
LEMMA TurnDoes ==
    ASSUME TypeOK, NEW p \in Pullers, Start(p) \/ PullFails(p) \/ Save(p) \/ SaveFails(p)
    PROVE  /\ Others(p)
           /\ proc[p].pc # "dedup" /\ proc'[p].pc # "dedup"
           /\ Start(p) => proc'[p].todo = {} /\ proc'[p].fresh = {}
                /\ proc'[p].at = cursor /\ proc'[p].next = cursor
           /\ PullFails(p) => proc[p].pc = "started" /\ proc'[p].pc = "save"
                /\ proc'[p].todo = proc[p].todo /\ proc'[p].fresh = proc[p].fresh
                /\ proc'[p].at = proc[p].at /\ proc'[p].next = proc[p].next
           /\ Save(p) \/ SaveFails(p) => proc'[p] = Idle /\ Busy(p)
           /\ Save(p) => cursor' = proc[p].next
           /\ ~Save(p) => cursor' = cursor
           /\ UNCHANGED <<vendor, clock, seen, keys, pushes, missed, cut, lost>>
  <1>1. proc[p] \in PullType
    BY PullParts
  <1>2. CASE Start(p)
    <2>1. ~Save(p) /\ ~SaveFails(p) /\ ~PullFails(p)
      BY <1>2 DEF Start, Busy, Save, SaveFails, PullFails
    <2> QED BY <1>1, <1>2, <2>1 DEF Start, Idle, Others, TypeOK, Busy
  <1>3. CASE PullFails(p)
    <2>1. ~Save(p) /\ ~SaveFails(p) /\ ~Start(p)
      BY <1>3 DEF Start, Busy, Save, SaveFails, PullFails
    <2> QED BY <1>1, <1>3, <2>1 DEF PullFails, Others, TypeOK, PullType
  <1>4. CASE Save(p) \/ SaveFails(p)
    <2>1. proc[p].pc = "save" /\ ~PullFails(p) /\ ~Start(p) /\ Busy(p)
      BY <1>4 DEF Start, Busy, Save, SaveFails, PullFails
    <2>2. proc' = [proc EXCEPT ![p] = Idle]
      BY <1>4 DEF Save, SaveFails
    <2>3. UNCHANGED <<vendor, clock, seen, keys, pushes, missed, cut, lost>>
      BY <1>4 DEF Save, SaveFails
    <2>4. Others(p) /\ proc'[p] = Idle /\ Idle.pc # "dedup"
      BY <2>2 DEF Others, TypeOK, Idle
    <2> QED BY <1>4, <2>1, <2>3, <2>4 DEF Save, SaveFails
  <1> QED BY <1>2, <1>3, <1>4

LEMMA BlobDoes ==
    ASSUME TypeOK, NEW p \in Pullers, BlobFails(p)
    PROVE  /\ Others(p)
           /\ proc[p].pc = "dedup" /\ proc'[p].pc = "dedup"
           /\ proc'[p].at = proc[p].at /\ proc'[p].next = proc[p].next
           /\ proc'[p].minute = proc[p].minute /\ proc'[p].fresh = proc[p].fresh
           /\ \E e \in proc[p].todo : /\ proc'[p].todo = proc[p].todo \ {e}
                                      /\ missed' = missed \union {e}
           /\ UNCHANGED <<vendor, clock, seen, cursor, keys, pushes, cut, lost>>
  <1>1. proc[p] \in PullType
    BY PullParts
  <1>2. PICK e \in proc[p].todo : /\ proc' = [proc EXCEPT ![p].todo = proc[p].todo \ {e}]
                                  /\ missed' = missed \union {e}
    BY DEF BlobFails
  <1> QED BY <1>1, <1>2 DEF BlobFails, Others, TypeOK, PullType
-----------------------------------------------------------------------------
(* Accounts only grow.                                                     *)
LEMMA KeyOfStays ==
    ASSUME NEW p \in Pullers, vendor' = vendor, proc'[p].minute = proc[p].minute
    PROVE  \A e : KeyOf(p, e)' = KeyOf(p, e)
  BY DEF KeyOf

LEMMA Fresh == ASSUME NEW p \in Pullers PROVE KeysOf(p, proc[p].fresh) \subseteq InFlight
  BY DEF InFlight

LEMMA FreshNext ==
    ASSUME NEW p \in Pullers, NEW e \in proc'[p].fresh
    PROVE  KeyOf(p, e)' \in InFlight'
  BY DEF InFlight, KeysOf

LEMMA FlightParts ==
    ASSUME NEW k \in InFlight
    PROVE  \E p \in Pullers : \E e \in proc[p].fresh : k = KeyOf(p, e)
  BY DEF InFlight, KeysOf

(* A pull of which the step says nothing else keeps what it holds.         *)
LEMMA FlightStays ==
    ASSUME NEW p \in Pullers, vendor' = vendor, proc'[p].minute = proc[p].minute,
           proc[p].fresh \subseteq proc'[p].fresh
    PROVE  KeysOf(p, proc[p].fresh) \subseteq InFlight'
  <1>1. \A e \in proc[p].fresh : KeyOf(p, e) \in InFlight'
    BY FreshNext, KeyOfStays
  <1> QED BY <1>1 DEF KeysOf

LEMMA Grow ==
    ASSUME TypeOK, Holdings, [Next]_vars
    PROVE  Accounts \subseteq Accounts' /\ vendor' = vendor /\ Passed \subseteq Passed'
  <1>1. ASSUME vendor' = vendor, missed \subseteq missed', cut \subseteq cut',
               Listed \subseteq Listed', lost \subseteq lost',
               \A p \in Pullers : KeysOf(p, proc[p].fresh) \subseteq Accounts'
        PROVE  Accounts \subseteq Accounts' /\ vendor' = vendor /\ Passed \subseteq Passed'
    BY <1>1 DEF Accounts, InFlight, Passed
  <1>2. ASSUME UNCHANGED <<vendor, pushes, lost, proc>>, missed \subseteq missed', cut \subseteq cut'
        PROVE  Accounts \subseteq Accounts' /\ vendor' = vendor /\ Passed \subseteq Passed'
    <2>1. \A p \in Pullers : KeysOf(p, proc[p].fresh) \subseteq InFlight'
      BY <1>2, FlightStays
    <2>2. Listed' = Listed
      BY <1>2 DEF Listed
    <2> QED BY <1>1, <1>2, <2>1, <2>2 DEF Accounts
  <1>3. ASSUME NEW p \in Pullers, Others(p), UNCHANGED <<vendor, pushes, lost>>,
               missed \subseteq missed', cut \subseteq cut',
               proc[p].fresh = {} \/ (/\ proc'[p].minute = proc[p].minute
                                      /\ proc[p].fresh \subseteq proc'[p].fresh)
        PROVE  Accounts \subseteq Accounts' /\ vendor' = vendor /\ Passed \subseteq Passed'
    <2>1. \A q \in Pullers \ {p} : KeysOf(q, proc[q].fresh) \subseteq InFlight'
      BY <1>3, FlightStays DEF Others
    <2>2. KeysOf(p, proc[p].fresh) \subseteq InFlight'
      <3>1. CASE proc[p].fresh = {}
        BY <3>1 DEF KeysOf
      <3>2. CASE proc[p].fresh # {}
        BY <1>3, <3>2, FlightStays
      <3> QED BY <3>1, <3>2
    <2>3. Listed' = Listed
      BY <1>3 DEF Listed
    <2> QED BY <1>1, <1>3, <2>1, <2>2, <2>3 DEF Accounts
  <1>4. ASSUME NEW p \in Pullers, PageFails(p) \/ Push(p) \/ PushFails(p)
        PROVE  Accounts \subseteq Accounts' /\ vendor' = vendor /\ Passed \subseteq Passed'
    <2>1. \A q \in Pullers \ {p} : KeysOf(q, proc[q].fresh) \subseteq InFlight'
      BY <1>4, LetsGo, FlightStays DEF Others
    <2> QED BY <1>1, <1>4, <2>1, LetsGo DEF Accounts
  <1>5. CASE Crash
    <2>1. Listed' = Listed
      BY <1>5 DEF Crash, Listed
    <2>2. \A p \in Pullers : KeysOf(p, proc[p].fresh) \subseteq lost'
      BY <1>5 DEF Crash
    <2> QED BY <1>1, <1>5, <2>1, <2>2 DEF Crash, Accounts
  <1>6. ASSUME NEW p \in Pullers, Start(p) \/ PullFails(p) \/ Save(p) \/ SaveFails(p)
        PROVE  Accounts \subseteq Accounts' /\ vendor' = vendor /\ Passed \subseteq Passed'
    <2>1. proc[p].fresh = {}
      BY <1>6, TurnDoes DEF Holdings
    <2> QED BY <1>3, <1>6, <2>1, TurnDoes
  <1>7. ASSUME NEW p \in Pullers, NEW e \in Events, Dedup(p, e) \/ DedupFailsOpen(p, e)
        PROVE  Accounts \subseteq Accounts' /\ vendor' = vendor /\ Passed \subseteq Passed'
    BY <1>3, <1>7, DedupDoes
  <1>8. ASSUME NEW p \in Pullers, Pull(p)
        PROVE  Accounts \subseteq Accounts' /\ vendor' = vendor /\ Passed \subseteq Passed'
    <2>1. proc[p].fresh = {}
      BY <1>8, PullDoes DEF Holdings
    <2> QED BY <1>3, <1>8, <2>1, PullDoes
  <1>9. ASSUME NEW p \in Pullers, BlobFails(p)
        PROVE  Accounts \subseteq Accounts' /\ vendor' = vendor /\ Passed \subseteq Passed'
    BY <1>3, <1>9, BlobDoes
  <1>10. CASE Tick \/ (\E e \in Events : Appear(e)) \/ (\E k \in Key : KeyExpires(k))
              \/ UNCHANGED vars
    BY <1>2, <1>10 DEF Tick, Appear, KeyExpires, vars
  <1> QED
    BY <1>4, <1>5, <1>6, <1>7, <1>8, <1>9, <1>10 DEF Next, Work, Fails
-----------------------------------------------------------------------------
(* The parts of the invariant that say what pulls and the guard hold.      *)
LEMMA SeenStep ==
    ASSUME TypeOK, SeenByNow, [Next]_vars
    PROVE  SeenByNow'
  <1>1. clock \in Nat /\ \A e \in seen : Stamp[e] \in Nat
    BY Constants DEF TypeOK
  <1>2. ASSUME UNCHANGED <<seen, clock>> PROVE SeenByNow'
    BY <1>2 DEF SeenByNow
  <1>3. CASE Tick
    BY <1>1, <1>3 DEF Tick, SeenByNow
  <1>4. ASSUME NEW e \in Events, Appear(e) PROVE SeenByNow'
    BY <1>4 DEF Appear, SeenByNow
  <1>5. ASSUME NEW p \in Pullers, Work(p) \/ Fails(p) \/ Start(p) PROVE UNCHANGED <<seen, clock>>
    BY <1>5 DEF Work, Fails, Start, Pull, Push, Save, Dedup, PullFails, BlobFails,
                PageFails, PushFails, SaveFails, DedupFailsOpen
  <1> QED
    BY <1>2, <1>3, <1>4, <1>5 DEF Next, Crash, KeyExpires, vars

LEMMA HoldingsStep ==
    ASSUME TypeOK, SeenByNow, Holdings, [Next]_vars, TypeOK'
    PROVE  Holdings'
  <1> DEFINE H(r) == /\ r.pc # "dedup" => r.todo = {} /\ r.fresh = {}
                     /\ r.pc = "started" => r.next = r.at
                     /\ \A e \in r.todo \union r.fresh : Stamp[e] <= r.minute
  <1>1. \A p \in Pullers : H(proc[p])
    BY DEF Holdings
  <1>2. ASSUME \A p \in Pullers : H(proc'[p]) PROVE Holdings'
    BY <1>2 DEF Holdings
  <1>3. ASSUME NEW p \in Pullers, Others(p), H(proc'[p]) PROVE Holdings'
    BY <1>1, <1>2, <1>3 DEF Others
  <1>4. H(Idle)
    BY DEF Idle
  <1>5. ASSUME NEW p \in Pullers, Pull(p) PROVE Holdings'
    <2>1. /\ Others(p) /\ proc'[p].pc = "dedup" /\ proc'[p].fresh = {}
          /\ proc'[p].minute = clock
      BY <1>1, <1>5, PullDoes
    <2>2. proc'[p].todo \subseteq seen
      BY <1>5, PullDoes, MatchingType, PagesType
    <2>3. H(proc'[p])
      BY <2>1, <2>2 DEF SeenByNow
    <2> QED BY <1>3, <2>1, <2>3
  <1>6. ASSUME NEW p \in Pullers, NEW e \in Events, Dedup(p, e) \/ DedupFailsOpen(p, e)
        PROVE  Holdings'
    <2>1. H(proc'[p])
      BY <1>1, <1>6, DedupDoes
    <2> QED BY <1>3, <1>6, <2>1, DedupDoes
  <1>7. ASSUME NEW p \in Pullers, PageFails(p) \/ Push(p) \/ PushFails(p) PROVE Holdings'
    <2>1. H(proc'[p])
      BY <1>7, LetsGo
    <2> QED BY <1>3, <1>7, <2>1, LetsGo
  <1>8. ASSUME NEW p \in Pullers, BlobFails(p) PROVE Holdings'
    <2>1. H(proc'[p])
      BY <1>1, <1>8, BlobDoes
    <2> QED BY <1>3, <1>8, <2>1, BlobDoes
  <1>9. ASSUME NEW p \in Pullers, Start(p) \/ PullFails(p) \/ Save(p) \/ SaveFails(p)
        PROVE  Holdings'
    <2>1. H(proc'[p])
      <3>1. CASE Start(p)
        BY <1>9, <3>1, TurnDoes
      <3>2. CASE PullFails(p)
        <4>1. proc[p].todo = {} /\ proc[p].fresh = {}
          BY <1>1, <1>9, TurnDoes
        <4> QED BY <1>9, <3>2, <4>1, TurnDoes
      <3>3. CASE Save(p) \/ SaveFails(p)
        <4>1. proc'[p] = Idle
          BY <1>9, <3>3, TurnDoes
        <4> QED BY <1>4, <4>1
      <3> QED BY <1>9, <3>1, <3>2, <3>3
    <2>2. Others(p)
      BY <1>9, TurnDoes
    <2> QED BY <1>3, <2>1, <2>2
  <1>10. CASE Crash
    <2>1. \A p \in Pullers : proc'[p] = Idle
      BY <1>10 DEF Crash
    <2> QED BY <1>2, <1>4, <2>1
  <1>11. CASE proc' = proc
    BY <1>1, <1>2, <1>11
  <1> QED
    BY <1>5, <1>6, <1>7, <1>8, <1>9, <1>10, <1>11
    DEF Next, Work, Fails, Tick, Appear, KeyExpires, vars

LEMMA KeysStep ==
    ASSUME TypeOK, Holdings, KeysAccounted, [Next]_vars, TypeOK'
    PROVE  KeysAccounted'
  <1>1. Accounts \subseteq Accounts'
    BY Grow
  <1>2. ASSUME keys' \subseteq keys PROVE KeysAccounted'
    BY <1>1, <1>2 DEF KeysAccounted
  <1>3. ASSUME NEW p \in Pullers, NEW e \in Events, Dedup(p, e) \/ DedupFailsOpen(p, e)
        PROVE  KeysAccounted'
    <2>1. CASE KeyOf(p, e) \in keys
      BY <1>2, <1>3, <2>1, DedupDoes
    <2>2. CASE KeyOf(p, e) \notin keys
      <3>1. e \in proc'[p].fresh
        BY <1>3, <2>2, DedupDoes
      <3>2. KeyOf(p, e) \in InFlight'
        BY <1>3, <3>1, DedupDoes, FreshNext, KeyOfStays
      <3> QED BY <1>1, <1>3, <3>2, DedupDoes DEF KeysAccounted, Accounts
    <2> QED BY <2>1, <2>2
  <1>4. ASSUME NEW p \in Pullers, Pull(p) \/ PageFails(p) \/ Push(p) \/ PushFails(p)
                   \/ BlobFails(p) \/ Start(p) \/ PullFails(p) \/ Save(p) \/ SaveFails(p)
        PROVE  keys' = keys
    BY <1>4 DEF Pull, PageFails, Push, PushFails, BlobFails, Start, PullFails, Save, SaveFails
  <1>5. CASE Tick \/ Crash \/ (\E e \in Events : Appear(e)) \/ (\E k \in Key : KeyExpires(k))
             \/ UNCHANGED vars
    <2>1. keys' \subseteq keys
      BY <1>5 DEF Tick, Crash, Appear, KeyExpires, vars
    <2> QED BY <1>2, <2>1
  <1> QED BY <1>2, <1>3, <1>4, <1>5 DEF Next, Work, Fails
-----------------------------------------------------------------------------
(* No cursor, saved or of a pull, passes an open event.                    *)
LEMMA KeyCovers ==
    ASSUME TypeOK, Holdings, NEW p \in Pullers, NEW e \in proc[p].todo \union proc[p].fresh,
           KeyOf(p, e) \in Accounts'
    PROVE  e \in Covered'
  <1>1. e \in Events /\ Stamp[e] <= proc[p].minute
    BY PullParts DEF Holdings
  <1>2. KeyOf(p, e).desc = Desc[e] /\ KeyOf(p, e).minute >= Stamp[e]
    BY <1>1, KeyType
  <1> QED BY <1>1, <1>2 DEF Covered, CoveredBy

LEMMA OpenShrinks ==
    ASSUME TypeOK, Accounts \subseteq Accounts', Passed \subseteq Passed', vendor' = vendor
    PROVE  /\ Open' \subseteq Open \union (seen' \ seen)
           /\ seen' = seen => Settled \subseteq Settled'
           /\ \A c, s : Past(c, s)' <=> Past(c, s)
           /\ QueryOf.sorted' = QueryOf.sorted
  <1>1. Covered \subseteq Covered'
    BY DEF Covered, CoveredBy
  <1>2. Open' \subseteq Open \union (seen' \ seen)
    BY <1>1 DEF Open
  <1>3. /\ \A c, s : Past(c, s)' <=> Past(c, s)
        /\ QueryOf.sorted' = QueryOf.sorted
    BY VendorKnown, QueryStays
  <1>4. ASSUME seen' = seen PROVE Settled \subseteq Settled'
    <2>1. Open' \subseteq Open
      BY <1>2, <1>4
    <2> QED BY <2>1, <1>3 DEF Settled
  <1> QED BY <1>2, <1>3, <1>4

(* A page leaves no event open that its next cursor passes.                *)
LEMMA PullSettles ==
    ASSUME TypeOK, Holdings, SeenByNow, PullsSettle, QueryOf.sorted,
           NEW p \in Pullers, Pull(p)
    PROVE  \A e \in Open \ (proc'[p].todo \union Passed') : ~Past(proc'[p].next, Stamp[e])
  <1> DEFINE at == proc[p].at
             page == proc'[p].todo
             next == proc'[p].next
             found == Matching(Since(at))
  <1>1. /\ proc[p].pc = "started" /\ page \in Pages(found)
        /\ next = NextCursor(at, page)
        /\ missed' = missed \union LeftBehind(at)
        /\ cut' = cut \union CutOff(at, page, next)
    BY PullDoes
  <1>2. at \in Settled /\ at \in -1..MaxClock
    BY <1>1, PullParts DEF PullsSettle, Busy
  <1>3. page \subseteq found /\ page \in SUBSET Events
    BY <1>1, MatchingType, PagesType
  <1>4. /\ Since(at) \in -1..MaxClock
        /\ End(Since(at)) \in 0..MaxClock
        /\ next \in -1..MaxClock
        /\ vendor = "office365" => next = End(Since(at))
        /\ vendor # "office365" /\ page # {} => next = Newest(page)
    BY <1>1, <1>2, <1>3, SinceType, EndType, NextType
  <1> HIDE DEF at, page, next
  <1> SUFFICES ASSUME NEW e \in Open, e \notin page, e \notin Passed', Past(next, Stamp[e])
               PROVE  FALSE
    BY DEF page, next
  <1>5. /\ e \in seen /\ e \in Events /\ Stamp[e] \in 0..MaxClock
        /\ Stamp[e] <= clock /\ clock \in 0..MaxClock
        /\ ~Past(at, Stamp[e])
    BY <1>2, Constants DEF Open, TypeOK, SeenByNow, Settled
  <1>6. e \notin LeftBehind(at) /\ e \notin CutOff(at, page, next)
    BY <1>1 DEF Passed
  <1>7. ~Past(Since(at), Stamp[e])
    <2>1. CASE at = NoCursor
      BY <1>5, <1>6, <2>1 DEF LeftBehind
    <2>2. CASE at # NoCursor
      BY <1>5, <2>2 DEF Since
    <2> QED BY <2>1, <2>2
  <1>8. CASE Stamp[e] > End(Since(at))
    <2>1. CASE vendor = "office365"
      <3>1. QueryOf.again
        BY <2>1, QueryTypesHold DEF QueryTypes
      <3> QED BY <1>4, <1>5, <1>8, <2>1, <3>1 DEF Past
    <2>2. CASE vendor # "office365"
      <3>1. End(Since(at)) = clock
        BY <2>2 DEF End
      <3> QED BY <1>5, <1>8, <3>1
    <2> QED BY <2>1, <2>2
  <1>9. CASE ~(Stamp[e] > End(Since(at)))
    <2>1. e \in found \ page
      BY <1>4, <1>5, <1>7, <1>9 DEF Matching
    <2>2. QueryOf.capped /\ Cardinality(page) = PageSize /\ OldestFirst(page, found)
      BY <1>1, <2>1 DEF Pages
    <2>3. vendor # "office365"
      BY <2>2, QueryTypesHold DEF QueryTypes
    <2>4. page # {}
      BY <2>2, FS_EmptySet, Constants
    <2>5. next = Newest(page) /\ next \in 0..MaxClock
      BY <1>3, <1>4, <2>3, <2>4, NewestIs
    <2>6. PICK g \in page : next = Stamp[g]
      BY <1>3, <2>4, <2>5, NewestIs
    <2>7. next <= Stamp[e]
      BY <2>1, <2>2, <2>6 DEF OldestFirst
    <2>8. Stamp[e] = next
      BY <1>5, <2>5, <2>7 DEF Past
    <2> QED BY <1>5, <1>6, <2>1, <2>8 DEF CutOff
  <1> QED BY <1>8, <1>9

LEMMA SettleStep ==
    ASSUME TypeOK, Holdings, SeenByNow, KeysAccounted, PullsSettle, CursorSettled,
           [Next]_vars, TypeOK'
    PROVE  PullsSettle' /\ CursorSettled'
  <1>1. Accounts \subseteq Accounts' /\ vendor' = vendor /\ Passed \subseteq Passed'
    BY Grow
  <1>2. /\ Open' \subseteq Open \union (seen' \ seen)
        /\ seen' = seen => Settled \subseteq Settled'
        /\ \A c, s : Past(c, s)' <=> Past(c, s)
        /\ QueryOf.sorted' = QueryOf.sorted
    BY <1>1, OpenShrinks
  <1> SUFFICES ASSUME QueryOf.sorted PROVE PullsSettle' /\ CursorSettled'
    BY <1>2 DEF PullsSettle, CursorSettled
  <1>3. cursor \in Settled
    BY DEF CursorSettled
  <1>4. \A q \in Pullers : proc[q].pc # "idle" =>
          /\ proc[q].at \in Settled
          /\ \A e \in Open \ proc[q].todo : ~Past(proc[q].next, Stamp[e])
    BY DEF PullsSettle, Busy
  <1> DEFINE Good(q) == proc'[q].pc # "idle" =>
                          /\ proc'[q].at \in Settled'
                          /\ \A e \in Open' \ proc'[q].todo : ~Past(proc'[q].next, Stamp[e])
  <1>5. ASSUME \A q \in Pullers : Good(q), cursor' \in Settled'
        PROVE  PullsSettle' /\ CursorSettled'
    <2>1. \A q \in Pullers : Busy(q)' <=> proc'[q].pc # "idle"
      BY DEF Busy
    <2>2. \A q \in Pullers : Busy(q)' =>
            \A e \in Open' \ proc'[q].todo : ~Past(proc[q].next, Stamp[e])'
      BY <1>2, <1>5, <2>1
    <2> QED BY <1>5, <2>1, <2>2 DEF PullsSettle, CursorSettled
  <1>6. ASSUME seen' = seen, NEW q \in Pullers, proc'[q] = proc[q] PROVE Good(q)
    <2>1. Open' \subseteq Open /\ Settled \subseteq Settled'
      BY <1>2, <1>6
    <2> QED BY <1>4, <1>6, <2>1
  <1>7. ASSUME seen' = seen, NEW p \in Pullers, Others(p), Good(p), cursor' \in Settled'
        PROVE  PullsSettle' /\ CursorSettled'
    <2>1. \A q \in Pullers : Good(q)
      BY <1>6, <1>7 DEF Others
    <2> QED BY <1>5, <1>7, <2>1
  <1>8. ASSUME NEW p \in Pullers, NEW e \in Events, Dedup(p, e) \/ DedupFailsOpen(p, e)
        PROVE  PullsSettle' /\ CursorSettled'
    <2>1. /\ seen' = seen /\ cursor' = cursor /\ Others(p) /\ e \in proc[p].todo
          /\ proc'[p].at = proc[p].at /\ proc'[p].next = proc[p].next
          /\ proc'[p].todo = proc[p].todo \ {e} /\ proc[p].pc # "idle"
          /\ proc'[p].minute = proc[p].minute
      BY <1>8, DedupDoes
    <2>2. KeyOf(p, e) \in Accounts'
      <3>1. CASE KeyOf(p, e) \in keys
        BY <1>1, <3>1 DEF KeysAccounted
      <3>2. CASE KeyOf(p, e) \notin keys
        <4>1. e \in proc'[p].fresh
          BY <1>8, <3>2, DedupDoes
        <4> QED BY <1>1, <2>1, <4>1, FreshNext, KeyOfStays DEF Accounts
      <3> QED BY <3>1, <3>2
    <2>3. e \notin Open'
      BY <2>1, <2>2, KeyCovers DEF Open
    <2>4. Open' \subseteq Open /\ Settled \subseteq Settled'
      BY <1>2, <2>1
    <2>5. Good(p)
      BY <1>4, <2>1, <2>3, <2>4
    <2> QED BY <1>3, <1>7, <2>1, <2>4, <2>5
  <1>9. ASSUME NEW p \in Pullers, PageFails(p) \/ Push(p) \/ PushFails(p)
        PROVE  PullsSettle' /\ CursorSettled'
    <2>1. /\ seen' = seen /\ cursor' = cursor /\ Others(p) /\ proc[p].pc # "idle"
          /\ proc'[p].at = proc[p].at /\ proc'[p].next = proc[p].next
          /\ proc[p].todo = {} \/ KeysOf(p, proc[p].todo) \subseteq lost'
      BY <1>9, LetsGo
    <2>2. \A e \in proc[p].todo : KeyOf(p, e) \in Accounts'
      BY <2>1 DEF KeysOf, Accounts
    <2>3. \A e \in proc[p].todo : e \notin Open'
      BY <2>2, KeyCovers DEF Open
    <2>4. Open' \subseteq Open /\ Settled \subseteq Settled'
      BY <1>2, <2>1
    <2>5. Good(p)
      BY <1>4, <2>1, <2>3, <2>4
    <2> QED BY <1>3, <1>7, <2>1, <2>4, <2>5
  <1>10. ASSUME NEW p \in Pullers, BlobFails(p) PROVE PullsSettle' /\ CursorSettled'
    <2>1. /\ seen' = seen /\ cursor' = cursor /\ Others(p) /\ proc[p].pc # "idle"
          /\ proc'[p].at = proc[p].at /\ proc'[p].next = proc[p].next
      BY <1>10, BlobDoes
    <2>2. PICK e \in proc[p].todo : /\ proc'[p].todo = proc[p].todo \ {e}
                                    /\ missed' = missed \union {e}
      BY <1>10, BlobDoes
    <2>3. e \notin Open'
      BY <2>2 DEF Open, Passed
    <2>4. Open' \subseteq Open /\ Settled \subseteq Settled'
      BY <1>2, <2>1
    <2>5. Good(p)
      BY <1>4, <2>1, <2>2, <2>3, <2>4
    <2> QED BY <1>3, <1>7, <2>1, <2>4, <2>5
  <1>11. ASSUME NEW p \in Pullers, Pull(p) PROVE PullsSettle' /\ CursorSettled'
    <2>1. /\ seen' = seen /\ cursor' = cursor /\ Others(p) /\ proc[p].pc = "started"
          /\ proc'[p].at = proc[p].at
      BY <1>11, PullDoes
    <2>2. Open' \subseteq Open /\ Settled \subseteq Settled' /\ Open' \cap Passed' = {}
      BY <1>2, <2>1 DEF Open
    <2>3. Good(p)
      BY <1>4, <1>11, <2>1, <2>2, PullSettles
    <2> QED BY <1>3, <1>7, <2>1, <2>2, <2>3
  <1>12. ASSUME NEW p \in Pullers, Start(p) \/ PullFails(p) \/ Save(p) \/ SaveFails(p)
         PROVE  PullsSettle' /\ CursorSettled'
    <2>1. seen' = seen /\ Others(p) /\ proc[p].todo = {}
      BY <1>12, TurnDoes DEF Holdings
    <2>2. Open' \subseteq Open /\ Settled \subseteq Settled'
      BY <1>2, <2>1
    <2>3. CASE Start(p)
      <3>1. /\ cursor' = cursor /\ proc'[p].at = cursor /\ proc'[p].next = cursor
        BY <2>3, TurnDoes DEF Start
      <3>2. Good(p)
        BY <1>3, <2>2, <3>1 DEF Settled
      <3> QED BY <1>3, <1>7, <2>1, <2>2, <3>1, <3>2
    <2>4. CASE PullFails(p)
      <3>1. /\ cursor' = cursor /\ proc[p].pc = "started" /\ proc'[p].todo = proc[p].todo
            /\ proc'[p].at = proc[p].at /\ proc'[p].next = proc[p].next
        BY <2>4, TurnDoes DEF PullFails
      <3>2. Good(p)
        BY <1>4, <2>2, <3>1
      <3> QED BY <1>3, <1>7, <2>1, <2>2, <3>1, <3>2
    <2>5. CASE Save(p) \/ SaveFails(p)
      <3>1. proc'[p] = Idle /\ proc[p].pc # "idle"
        BY <2>5, TurnDoes DEF Busy
      <3>2. Good(p)
        BY <3>1 DEF Idle
      <3>3. cursor' \in Settled
        <4>1. CASE Save(p)
          <5>1. cursor' = proc[p].next /\ cursor' \in -1..MaxClock
            BY <4>1, TurnDoes, PullParts
          <5> QED BY <1>4, <2>1, <3>1, <5>1 DEF Settled
        <4>2. CASE ~Save(p)
          BY <1>3, <1>12, <4>2, TurnDoes
        <4> QED BY <4>1, <4>2
      <3> QED BY <1>7, <2>1, <2>2, <3>2, <3>3
    <2> QED BY <1>12, <2>3, <2>4, <2>5
  <1>13. CASE Crash
    <2>1. seen' = seen /\ cursor' = cursor /\ \A q \in Pullers : proc'[q] = Idle
      BY <1>13 DEF Crash
    <2>2. \A q \in Pullers : Good(q)
      BY <2>1 DEF Idle
    <2> QED BY <1>2, <1>3, <1>5, <2>1, <2>2
  <1>14. ASSUME NEW a \in Events, Appear(a) PROVE PullsSettle' /\ CursorSettled'
    <2>1. /\ proc' = proc /\ cursor' = cursor /\ seen' = seen \union {a}
      BY <1>14 DEF Appear
    <2>2. /\ Past(cursor, Stamp[a]) => a \in Passed'
          /\ \A q \in Pullers : proc[q].pc # "idle" /\ Past(proc[q].at, Stamp[a]) => a \in Passed'
          /\ \A q \in Pullers : proc[q].pc # "idle" /\ Past(proc[q].next, Stamp[a]) => a \in Passed'
      BY <1>14 DEF Appear, Busy, Passed
    <2>3. Open' \subseteq Open \union {a} /\ Open' \cap Passed' = {}
      BY <1>2, <2>1 DEF Open
    <2>4. \A c \in Settled : (Past(c, Stamp[a]) => a \in Passed') => c \in Settled'
      BY <1>2, <2>3 DEF Settled
    <2>5. \A q \in Pullers : Good(q)
      BY <1>4, <2>1, <2>2, <2>3, <2>4
    <2> QED BY <1>3, <1>5, <2>1, <2>2, <2>4, <2>5
  <1>15. CASE Tick \/ (\E k \in Key : KeyExpires(k)) \/ UNCHANGED vars
    <2>1. seen' = seen /\ cursor' = cursor /\ proc' = proc
      BY <1>15 DEF Tick, KeyExpires, vars
    <2>2. \A q \in Pullers : Good(q)
      BY <1>6, <2>1
    <2> QED BY <1>2, <1>3, <1>5, <2>1, <2>2
  <1> QED
    BY <1>8, <1>9, <1>10, <1>11, <1>12, <1>13, <1>14, <1>15 DEF Next, Work, Fails
-----------------------------------------------------------------------------
LEMMA InitHolds == Init => IInv
  <1> SUFFICES ASSUME Init PROVE IInv
    OBVIOUS
  <1>1. TypeOK
    <2>1. 0 \in 0..MaxClock /\ NoCursor \in -1..MaxClock
      BY Constants DEF NoCursor
    <2> QED BY <2>1, IdleType DEF Init, TypeOK
  <1>2. \A p \in Pullers : proc[p].pc = "idle" /\ proc[p].todo = {} /\ proc[p].fresh = {}
    BY DEF Init, Idle
  <1>3. Holdings /\ SeenByNow /\ KeysAccounted
    BY <1>2 DEF Init, Holdings, SeenByNow, KeysAccounted
  <1>4. PullsSettle
    BY <1>2 DEF PullsSettle, Busy
  <1>5. CursorSettled
    BY <1>1 DEF CursorSettled, Settled, Open, Init, TypeOK
  <1> QED BY <1>1, <1>3, <1>4, <1>5 DEF IInv

LEMMA Inductive == IInv /\ [Next]_vars => IInv'
  BY TypesStep, HoldingsStep, SeenStep, KeysStep, SettleStep DEF IInv

LEMMA Invariance == Spec => []IInv
  BY InitHolds, Inductive, PTL DEF Spec

LEMMA SettledSkipsNothing == TypeOK /\ CursorSettled => NothingSkipped
  <1> SUFFICES ASSUME TypeOK, QueryOf.sorted, cursor \in Settled,
                      NEW e \in seen \ (missed \union cut), Past(cursor, Stamp[e])
               PROVE  CoveredBy(e, Accounts)
    BY DEF CursorSettled, NothingSkipped, Accounts
  <1>1. e \notin Open
    BY DEF Settled
  <1> QED BY <1>1 DEF Open, Passed, Covered

(* Types hold for any vendor, events, threads and failures.                *)
THEOREM TypeCorrect == Spec => []TypeOK
  <1>1. IInv => TypeOK
    BY DEF IInv
  <1> QED BY <1>1, Invariance, PTL

(* Whatever pulls overlap, crash or fail, the saved cursor passes an event *)
(* the queries asked for only if it is listed, on its way there, dropped   *)
(* by a failed call, or, with no call failed, was cut off a full page      *)
(* whose last stamp it has (run_connector_pull); AWS's pages have no order *)
(* and are not claimed about.                                              *)
THEOREM CursorSkipsNothing == Spec => []NothingSkipped
  <1>1. IInv => NothingSkipped
    BY SettledSkipsNothing DEF IInv
  <1> QED BY <1>1, Invariance, PTL
-----------------------------------------------------------------------------
(* A key's windows pay for its pushes and for the events that will push it *)
(* as long as no call has failed.                                          *)
Claims(k) == {x \in Pullers \X Events :
                 x[2] \in proc[x[1]].fresh /\ KeyOf(x[1], x[2]) = k}
Paid == faults = 0 =>
    \A k \in Key : pushes[k] + Cardinality(Claims(k)) <= windows[k]

LEMMA ClaimsFinite ==
    \A k : IsFiniteSet(Claims(k)) /\ Cardinality(Claims(k)) \in Nat
  <1> TAKE k
  <1>1. IsFiniteSet(Pullers \X Events)
    BY Constants, FS_Product
  <1>2. Claims(k) \in SUBSET (Pullers \X Events)
    BY DEF Claims
  <1>3. IsFiniteSet(Claims(k))
    BY <1>1, <1>2, FS_Subset, Zenon
  <1> QED BY <1>3, FS_CardinalityType

LEMMA Counts ==
    ASSUME TypeOK
    PROVE  \A k \in Key : pushes[k] \in Nat /\ windows[k] \in Nat
  BY DEF TypeOK

(* Steps that add no claim and open no window.                             *)
LEMMA PaidStays ==
    ASSUME TypeOK, Paid, faults' = 0 => faults = 0,
           \A k \in Key : pushes'[k] = pushes[k] /\ windows'[k] = windows[k],
           \A k \in Key : Claims(k)' \subseteq Claims(k)
    PROVE  Paid'
  <1> SUFFICES ASSUME faults' = 0, NEW k \in Key
               PROVE  pushes'[k] + Cardinality(Claims(k)') <= windows'[k]
    BY DEF Paid
  <1>1. Claims(k)' \in SUBSET Claims(k)
    OBVIOUS
  <1>2. /\ Cardinality(Claims(k)') <= Cardinality(Claims(k))
        /\ IsFiniteSet(Claims(k)')
    BY <1>1, ClaimsFinite, FS_Subset, Zenon
  <1>3. Cardinality(Claims(k)') \in Nat /\ Cardinality(Claims(k)) \in Nat
    BY <1>2, ClaimsFinite, FS_CardinalityType
  <1>4. pushes[k] + Cardinality(Claims(k)) <= windows[k]
    BY DEF Paid
  <1> QED BY <1>2, <1>3, <1>4, Counts

LEMMA ClaimsOfOthers ==
    ASSUME NEW p \in Pullers, Others(p), vendor' = vendor, proc'[p].fresh = {}
    PROVE  \A k : Claims(k)' = {x \in Claims(k) : x[1] # p}
  <1>1. \A q \in Pullers \ {p} : proc'[q] = proc[q] /\ \A e : KeyOf(q, e)' = KeyOf(q, e)
    BY KeyOfStays DEF Others
  <1> QED BY <1>1 DEF Claims

LEMMA PaidPush ==
    ASSUME TypeOK, Paid, NEW p \in Pullers, Push(p)
    PROVE  Paid'
  <1> SUFFICES ASSUME faults' = 0, NEW k \in Key
               PROVE  pushes'[k] + Cardinality(Claims(k)') <= windows'[k]
    BY DEF Paid
  <1> DEFINE Same == {e \in proc[p].fresh : KeyOf(p, e) = k}
             Mine == {p} \X Same
             Rest == {x \in Claims(k) : x[1] # p}
  <1>1. faults' = faults /\ windows' = windows /\ pushes'[k] = pushes[k] + Cardinality(Same)
    BY DEF Push, Pushed
  <1>2. Claims(k)' = Rest
    BY LetsGo, ClaimsOfOthers
  <1>3. Claims(k) = Rest \union Mine /\ Rest \cap Mine = {}
    BY PullParts DEF Claims
  <1>4. Same \in SUBSET Events
    BY PullParts
  <1>5. IsFiniteSet(Same) /\ Cardinality(Same) \in Nat
    <2>1. IsFiniteSet(Same)
      BY <1>4, Constants, FS_Subset, Zenon
    <2> QED BY <2>1, FS_CardinalityType
  <1>6. IsFiniteSet({p}) /\ Cardinality({p}) = 1
    BY FS_Singleton
  <1> HIDE DEF Same
  <1>7. IsFiniteSet(Mine) /\ Cardinality(Mine) = Cardinality(Same)
    <2>1. IsFiniteSet(Mine) /\ Cardinality(Mine) = Cardinality({p}) * Cardinality(Same)
      BY <1>5, <1>6, FS_Product
    <2> QED BY <1>5, <1>6, <2>1
  <1>8. IsFiniteSet(Rest) /\ Cardinality(Rest) \in Nat
    <2>1. Rest \in SUBSET Claims(k)
      OBVIOUS
    <2>2. IsFiniteSet(Rest)
      BY <2>1, ClaimsFinite, FS_Subset, Zenon
    <2> QED BY <2>2, FS_CardinalityType
  <1> HIDE DEF Mine, Rest
  <1>9. Cardinality(Claims(k)) = Cardinality(Rest) + Cardinality(Same)
    <2>1. Cardinality(Rest \union Mine)
            = Cardinality(Rest) + Cardinality(Mine) - Cardinality(Rest \cap Mine)
      BY <1>7, <1>8, FS_Union
    <2> QED BY <1>3, <1>5, <1>7, <1>8, <2>1, FS_EmptySet
  <1>10. pushes[k] + Cardinality(Claims(k)) <= windows[k]
    BY <1>1 DEF Paid
  <1> QED BY <1>1, <1>2, <1>5, <1>8, <1>9, <1>10, Counts

LEMMA PaidDedup ==
    ASSUME TypeOK, Paid, NEW p \in Pullers, NEW e \in Events, Dedup(p, e)
    PROVE  Paid'
  <1>1. /\ Others(p) /\ vendor' = vendor /\ pushes' = pushes
        /\ proc'[p].minute = proc[p].minute
    BY DedupDoes
  <1>2. faults' = faults
    BY DEF Dedup
  <1>3. \A q \in Pullers : \A f : KeyOf(q, f)' = KeyOf(q, f)
    BY <1>1, KeyOfStays DEF Others
  <1>4. CASE KeyOf(p, e) \in keys
    <2>1. proc'[p].fresh = proc[p].fresh /\ windows' = windows
      <3>1. windows' = windows
        BY <1>4 DEF Dedup
      <3>2. proc'[p] = [proc[p] EXCEPT !.todo = proc[p].todo \ {e}, !.fresh = proc[p].fresh]
        BY <1>4 DEF Dedup, TypeOK
      <3> QED BY <3>1, <3>2, PullParts DEF PullType
    <2>2. \A k \in Key : Claims(k)' \subseteq Claims(k)
      BY <1>1, <1>3, <2>1 DEF Claims, Others
    <2> QED BY <1>1, <1>2, <2>1, <2>2, PaidStays
  <1>5. CASE KeyOf(p, e) \notin keys
    <2>1. proc'[p].fresh = proc[p].fresh \union {e}
      BY <1>5, DedupDoes
    <2>2. windows' = [windows EXCEPT ![KeyOf(p, e)] = windows[KeyOf(p, e)] + 1]
      BY <1>5 DEF Dedup
    <2> SUFFICES ASSUME faults' = 0, NEW k \in Key
                 PROVE  pushes'[k] + Cardinality(Claims(k)') <= windows'[k]
      BY DEF Paid
    <2>3. pushes[k] + Cardinality(Claims(k)) <= windows[k]
      BY <1>2 DEF Paid
    <2>4. CASE k = KeyOf(p, e)
      <3>1. Claims(k)' = Claims(k) \union {<<p, e>>}
        BY <1>1, <1>3, <2>1, <2>4 DEF Claims, Others
      <3>2. Cardinality(Claims(k)') <= Cardinality(Claims(k)) + 1
            /\ Cardinality(Claims(k)') \in Nat
        <4>1. IsFiniteSet(Claims(k)) /\ Cardinality(Claims(k)) \in Nat
          BY ClaimsFinite
        <4>2. Cardinality(Claims(k) \union {<<p, e>>})
                = IF <<p, e>> \in Claims(k) THEN Cardinality(Claims(k))
                  ELSE Cardinality(Claims(k)) + 1
          BY <4>1, FS_AddElement
        <4> QED BY <3>1, <4>1, <4>2
      <3>3. windows'[k] = windows[k] + 1
        BY <2>2, <2>4 DEF TypeOK
      <3> QED BY <1>1, <2>3, <3>2, <3>3, ClaimsFinite, Counts
    <2>5. CASE k # KeyOf(p, e)
      <3>1. Claims(k)' = Claims(k)
        BY <1>1, <1>3, <2>1, <2>5 DEF Claims, Others
      <3>2. windows'[k] = windows[k]
        BY <2>2, <2>5 DEF TypeOK
      <3> QED BY <1>1, <2>3, <3>1, <3>2
    <2> QED BY <2>4, <2>5
  <1> QED BY <1>4, <1>5

LEMMA PaidStep ==
    ASSUME TypeOK, Holdings, Paid, [Next]_vars
    PROVE  Paid'
  <1>1. ASSUME faults' = faults + 1 PROVE Paid'
    <2>1. faults' # 0
      BY <1>1 DEF TypeOK
    <2> QED BY <2>1 DEF Paid
  <1>2. ASSUME NEW p \in Pullers, Pull(p) \/ Start(p) \/ Save(p) PROVE Paid'
    <2>1. /\ Others(p) /\ vendor' = vendor /\ proc[p].fresh = {} /\ proc'[p].fresh = {}
      <3>1. CASE Pull(p)
        BY <3>1, PullDoes DEF Holdings
      <3>2. CASE Start(p)
        BY <3>2, TurnDoes DEF Holdings
      <3>3. CASE Save(p)
        BY <3>3, TurnDoes DEF Holdings, Idle
      <3> QED BY <1>2, <3>1, <3>2, <3>3
    <2>2. \A k \in Key : Claims(k)' \subseteq Claims(k)
      BY <2>1, ClaimsOfOthers
    <2>3. UNCHANGED <<faults, pushes, windows>>
      BY <1>2 DEF Pull, Start, Save
    <2> QED BY <2>2, <2>3, PaidStays
  <1>3. CASE Tick \/ (\E e \in Events : Appear(e)) \/ (\E k \in Key : KeyExpires(k))
             \/ UNCHANGED vars
    <2>1. UNCHANGED <<vendor, proc, faults, pushes, windows>>
      BY <1>3 DEF Tick, Appear, KeyExpires, vars
    <2>2. \A k \in Key : Claims(k)' \subseteq Claims(k)
      BY <2>1 DEF Claims, KeyOf
    <2> QED BY <2>1, <2>2, PaidStays
  <1>4. ASSUME NEW p \in Pullers, Fails(p) PROVE faults' = faults + 1
    BY <1>4 DEF Fails, PullFails, BlobFails, PageFails, PushFails, SaveFails,
                DedupFailsOpen, Fault
  <1>5. CASE Crash
    BY <1>1, <1>5 DEF Crash, Fault
  <1> QED
    BY <1>1, <1>2, <1>3, <1>4, <1>5, PaidPush, PaidDedup DEF Next, Work

(* While nothing fails, overlapping pulls push a key at most once for each *)
(* time the guard let it in (is_duplicate, push_connector_events).         *)
THEOREM GuardHolds == Spec => []OncePerWindow
  <1>1. Init => Paid
    <2> SUFFICES ASSUME Init, NEW k \in Key PROVE pushes[k] + Cardinality(Claims(k)) <= windows[k]
      BY DEF Paid
    <2>1. Claims(k) = {}
      BY DEF Init, Claims, Idle
    <2> QED BY <2>1, FS_EmptySet DEF Init
  <1>2. IInv /\ Paid /\ [Next]_vars => Paid'
    BY PaidStep DEF IInv
  <1>3. IInv /\ Paid => OncePerWindow
    <2> SUFFICES ASSUME TypeOK, Paid, faults = 0, NEW k \in Key
                 PROVE  pushes[k] <= windows[k]
      BY DEF IInv, OncePerWindow
    <2>1. pushes[k] + Cardinality(Claims(k)) <= windows[k]
      BY DEF Paid
    <2> QED BY <2>1, ClaimsFinite, Counts
  <1> QED BY <1>1, <1>2, <1>3, Invariance, PTL DEF Spec
=============================================================================
