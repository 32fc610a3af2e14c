---------------------------- MODULE ConnectorFeed ----------------------------
(***************************************************************************)
(* One SIEM connector: pulls of a vendor's events after a saved cursor by  *)
(* the 60 s dispatcher and by "pull now" requests, the Redis guard against *)
(* duplicates, and the push onto the alert list.  Time is in minutes, the  *)
(* resolution of the guard's key.                                          *)
(***************************************************************************)
EXTENDS Integers, FiniteSets

CONSTANTS
    Vendors,      \* vendors the connector may belong to
    Events,       \* vendor events
    EventsOf,     \* EventsOf[v]: the events that vendor v may have
    Stamp,        \* the vendor's time of each event
    Desc,         \* entity and description of each event: the rest of the key
    Pullers,      \* threads that may run a pull
    Dispatcher,   \* the scheduler's thread, one of Pullers
    PageSize,     \* most events one pull returns, for the vendors with a cap
    Lookback,     \* how far back the first window of some vendors reaches
    Span,         \* longest window of an Office 365 pull (24 h)
    MaxClock,     \* bound: minutes
    MaxWindows,   \* bound: keys expire until keys were opened so often
    MaxFaults     \* bound: failed calls and process crashes

KnownVendors == {"wazuh", "splunk", "qradar", "sentinelone", "paloalto",
                 "office365", "azure", "aws", "gcp"}

ASSUME VendorsAssumption == Vendors \subseteq KnownVendors
ASSUME BoundsAssumption ==
    /\ PageSize \in Nat \ {0}
    /\ Lookback \in Nat
    /\ Span \in Nat \ {0}
    /\ MaxClock \in Nat
    /\ MaxWindows \in Nat
    /\ MaxFaults \in Nat
ASSUME EventsAssumption == EventsOf \in [Vendors -> SUBSET Events]
ASSUME StampAssumption == Stamp \in [Events -> 0..MaxClock]
ASSUME DispatcherAssumption == Dispatcher \in Pullers
ASSUME FiniteAssumption == IsFiniteSet(Events) /\ IsFiniteSet(Pullers)

VARIABLES
    vendor,
    clock,
    seen,      \* events the vendor has made visible
    cursor,    \* last_cursor of the connector's row
    keys,      \* keys of the guard that are set in Redis
    proc,      \* a pull of each thread
    pushes,    \* RPUSHes under each key (history)
    windows,   \* times each key was set while absent (history)
    missed,    \* events no query asks for: too late, too old, unreadable (history)
    cut,       \* events cut off a full page whose last stamp they have (history)
    lost,      \* keys claimed by a pull that failed before its push (history)
    faults

vars == <<vendor, clock, seen, cursor, keys, proc, pushes, windows, missed,
          cut, lost, faults>>

NoCursor == -1
Descs == {Desc[e] : e \in Events}
Key == [desc: Descs, minute: 0..MaxClock]

Idle == [pc |-> "idle", at |-> NoCursor, todo |-> {}, fresh |-> {},
         next |-> NoCursor, minute |-> 0]

Init ==
    /\ vendor \in Vendors
    /\ clock = 0
    /\ seen = {}
    /\ cursor = NoCursor
    /\ keys = {}
    /\ proc = [p \in Pullers |-> Idle]
    /\ pushes = [k \in Key |-> 0]
    /\ windows = [k \in Key |-> 0]
    /\ missed = {}
    /\ cut = {}
    /\ lost = {}
    /\ faults = 0

Busy(p) == proc[p].pc # "idle"

LeastOf(a, b) == IF a <= b THEN a ELSE b
Back == IF clock < Lookback THEN 0 ELSE clock - Lookback

(* Each vendor's query: where it starts without a cursor, whether the      *)
(* cursor's own time is asked for again, whether the pull is capped, and   *)
(* whether the oldest events come first.                                   *)
Query(first, again, capped, sorted) ==
    [first |-> first, again |-> again, capped |-> capped, sorted |-> sorted]

Wazuh == Query(clock, FALSE, TRUE, TRUE)
Splunk == Query(Back, TRUE, FALSE, TRUE)
QRadar == Query(NoCursor, FALSE, FALSE, TRUE)
SentinelOne == Query(NoCursor, FALSE, TRUE, TRUE)
PaloAlto == Query(NoCursor, TRUE, TRUE, TRUE)
Office365 == Query(Back, TRUE, FALSE, TRUE)
Azure == Query(clock, TRUE, FALSE, TRUE)
Aws == Query(Back, TRUE, TRUE, FALSE)   \* CloudTrail is asked for no order
Gcp == Query(Back, FALSE, TRUE, TRUE)

QueryOf ==
    CASE vendor = "wazuh" -> Wazuh
      [] vendor = "splunk" -> Splunk
      [] vendor = "qradar" -> QRadar
      [] vendor = "sentinelone" -> SentinelOne
      [] vendor = "paloalto" -> PaloAlto
      [] vendor = "office365" -> Office365
      [] vendor = "azure" -> Azure
      [] vendor = "aws" -> Aws
      [] vendor = "gcp" -> Gcp

Past(c, s) == s < c \/ (s = c /\ ~QueryOf.again)
Since(at) == IF at = NoCursor THEN QueryOf.first ELSE at

EndBeyondNow(since) == IF vendor = "office365" THEN since + Span ELSE clock
End(since) ==
    IF vendor = "office365" THEN LeastOf(clock, since + Span) ELSE clock

Matching(since) ==
    {e \in seen : ~Past(since, Stamp[e]) /\ Stamp[e] <= End(since)}

OldestFirst(page, found) ==
    \A e \in page, f \in found \ page : Stamp[e] <= Stamp[f]

PagesUnsorted(found) ==
    IF ~QueryOf.capped \/ Cardinality(found) <= PageSize THEN {found}
    ELSE {page \in SUBSET found : Cardinality(page) = PageSize}
Pages(found) ==
    IF ~QueryOf.capped \/ Cardinality(found) <= PageSize THEN {found}
    ELSE {page \in SUBSET found :
            Cardinality(page) = PageSize /\ (QueryOf.sorted => OldestFirst(page, found))}

Newest(page) == CHOOSE s \in {Stamp[e] : e \in page} :
                    \A e \in page : Stamp[e] <= s

NextCursorKept(at, page) == Since(at)
NextCursor(at, page) ==
    CASE vendor = "office365" -> End(Since(at))
      [] vendor # "office365" /\ page # {} -> Newest(page)
      [] vendor = "aws" /\ page = {} -> clock
      [] vendor = "splunk" /\ page = {} -> at   \* the literal "-15m" is saved
      [] OTHER -> Since(at)

(* The bridge's envelope carries the minute of the pull; only Wazuh's own  *)
(* documents keep the event's.                                             *)
KeyOf(p, e) ==
    [desc |-> Desc[e],
     minute |-> IF vendor = "wazuh" THEN Stamp[e] ELSE proc[p].minute]
KeysOf(p, page) == {KeyOf(p, e) : e \in page}

Pushed(p, page, from) ==
    [k \in Key |-> from[k] + Cardinality({e \in page : KeyOf(p, e) = k})]

Tick ==
    /\ clock < MaxClock
    /\ clock' = clock + 1
    /\ UNCHANGED <<vendor, seen, cursor, keys, proc, pushes, windows, missed,
                   cut, lost, faults>>

(* An event appears, at once or late: one that a pull has already passed   *)
(* is missed.                                                              *)
Appear(e) ==
    /\ e \in EventsOf[vendor] \ seen
    /\ Stamp[e] <= clock
    /\ seen' = seen \union {e}
    /\ missed' = IF \/ Past(cursor, Stamp[e])
                    \/ \E p \in Pullers : Busy(p) /\ \/ Past(proc[p].at, Stamp[e])
                                                     \/ Past(proc[p].next, Stamp[e])
                 THEN missed \union {e} ELSE missed
    /\ UNCHANGED <<vendor, clock, cursor, keys, proc, pushes, windows, cut,
                   lost, faults>>

(* The dispatcher or a request reads the connector's row.                  *)
Start(p) ==
    /\ ~Busy(p)
    /\ proc' = [proc EXCEPT ![p] = [Idle EXCEPT !.pc = "started",
                                                !.at = cursor, !.next = cursor]]
    /\ UNCHANGED <<vendor, clock, seen, cursor, keys, pushes, windows, missed,
                   cut, lost, faults>>

(* Events before the first window of a connector without a cursor.         *)
LeftBehind(at) == {e \in seen : at = NoCursor /\ Past(Since(at), Stamp[e])}

(* Events that matched but were cut off a full page and share its last     *)
(* stamp: a cursor that is asked for with "greater than" passes them.      *)
CutOff(at, page, next) ==
    {e \in Matching(Since(at)) \ page : Stamp[e] = next /\ Past(next, Stamp[e])}

Pull(p) ==
    /\ proc[p].pc = "started"
    /\ \E page \in Pages(Matching(Since(proc[p].at))) :
         LET next == NextCursor(proc[p].at, page) IN
         /\ proc' = [proc EXCEPT ![p].pc = "dedup", ![p].todo = page,
                                 ![p].next = next, ![p].minute = clock]
         /\ missed' = missed \union LeftBehind(proc[p].at)
         /\ cut' = cut \union CutOff(proc[p].at, page, next)
    /\ UNCHANGED <<vendor, clock, seen, cursor, keys, pushes, windows, lost,
                   faults>>

Fault == faults < MaxFaults /\ faults' = faults + 1

(* connector.pull raises: next_cursor is still the row's own.              *)
PullFails(p) ==
    /\ proc[p].pc = "started"
    /\ Fault
    /\ proc' = [proc EXCEPT ![p].pc = "save"]
    /\ UNCHANGED <<vendor, clock, seen, cursor, keys, pushes, windows, missed,
                   cut, lost>>

(* An Office 365 blob that cannot be read is passed over.                  *)
BlobFails(p) ==
    /\ proc[p].pc = "dedup"
    /\ vendor = "office365"
    /\ Fault
    /\ \E e \in proc[p].todo :
         /\ proc' = [proc EXCEPT ![p].todo = proc[p].todo \ {e}]
         /\ missed' = missed \union {e}
    /\ UNCHANGED <<vendor, clock, seen, cursor, keys, pushes, windows, cut,
                   lost>>

NextOf(p, e) ==
    /\ proc[p].pc = "dedup"
    /\ e \in proc[p].todo
    /\ \A f \in proc[p].todo : Stamp[e] <= Stamp[f]

DedupWithoutNX(p, e) ==
    /\ NextOf(p, e)
    /\ proc' = [proc EXCEPT ![p].todo = proc[p].todo \ {e},
                            ![p].fresh = proc[p].fresh \union {e}]
    /\ LET k == KeyOf(p, e) IN
       /\ windows' = IF k \in keys THEN windows ELSE [windows EXCEPT ![k] = windows[k] + 1]
       /\ keys' = keys \union {k}
    /\ UNCHANGED <<vendor, clock, seen, cursor, pushes, missed, cut, lost,
                   faults>>

(* SET key NX EX 120: an event whose key is present is dropped.            *)
Dedup(p, e) ==
    /\ NextOf(p, e)
    /\ LET k == KeyOf(p, e)
           new == k \notin keys IN
       /\ proc' = [proc EXCEPT ![p].todo = proc[p].todo \ {e},
                               ![p].fresh = IF new THEN proc[p].fresh \union {e}
                                            ELSE proc[p].fresh]
       /\ windows' = IF new THEN [windows EXCEPT ![k] = windows[k] + 1] ELSE windows
       /\ keys' = keys \union {k}
    /\ UNCHANGED <<vendor, clock, seen, cursor, pushes, missed, cut, lost,
                   faults>>

(* The SET fails, or its reply is lost: the event passes.                  *)
DedupFailsOpen(p, e) ==
    /\ NextOf(p, e)
    /\ Fault
    /\ proc' = [proc EXCEPT ![p].todo = proc[p].todo \ {e},
                            ![p].fresh = proc[p].fresh \union {e}]
    /\ keys' \in {keys, keys \union {KeyOf(p, e)}}
    /\ UNCHANGED <<vendor, clock, seen, cursor, pushes, windows, missed, cut,
                   lost>>

(* An event that cannot be normalised or keyed raises: the page is         *)
(* dropped, and next_cursor is already the one after it.                   *)
PageFails(p) ==
    /\ proc[p].pc = "dedup"
    /\ proc[p].todo # {}
    /\ Fault
    /\ lost' = lost \union KeysOf(p, proc[p].todo \union proc[p].fresh)
    /\ proc' = [proc EXCEPT ![p].pc = "save", ![p].todo = {}, ![p].fresh = {}]
    /\ UNCHANGED <<vendor, clock, seen, cursor, keys, pushes, windows, missed,
                   cut>>

(* One pipeline of RPUSHes.                                                *)
Push(p) ==
    /\ proc[p].pc = "dedup"
    /\ proc[p].todo = {}
    /\ pushes' = Pushed(p, proc[p].fresh, pushes)
    /\ proc' = [proc EXCEPT ![p].pc = "save", ![p].fresh = {}]
    /\ UNCHANGED <<vendor, clock, seen, cursor, keys, windows, missed, cut,
                   lost, faults>>

(* The pipeline raises, applied or not; every event is pushed again, each  *)
(* may be dropped.                                                         *)
PushFails(p) ==
    /\ proc[p].pc = "dedup"
    /\ proc[p].todo = {}
    /\ Fault
    /\ \E applied \in BOOLEAN, landed \in SUBSET proc[p].fresh :
         /\ pushes' = Pushed(p, landed, IF applied THEN Pushed(p, proc[p].fresh, pushes)
                                        ELSE pushes)
         /\ lost' = lost \union IF applied THEN {} ELSE KeysOf(p, proc[p].fresh \ landed)
    /\ proc' = [proc EXCEPT ![p].pc = "save", ![p].fresh = {}]
    /\ UNCHANGED <<vendor, clock, seen, cursor, keys, windows, missed, cut>>

(* UPDATE siem_connectors SET last_cursor, whatever it has become since.   *)
Save(p) ==
    /\ proc[p].pc = "save"
    /\ cursor' = proc[p].next
    /\ proc' = [proc EXCEPT ![p] = Idle]
    /\ UNCHANGED <<vendor, clock, seen, keys, pushes, windows, missed, cut,
                   lost, faults>>

SaveFails(p) ==
    /\ proc[p].pc = "save"
    /\ Fault
    /\ proc' = [proc EXCEPT ![p] = Idle]
    /\ UNCHANGED <<vendor, clock, seen, cursor, keys, pushes, windows, missed,
                   cut, lost>>

(* The backend process dies: the keys its pulls had set stay.              *)
Crash ==
    /\ \E p \in Pullers : Busy(p)
    /\ Fault
    /\ lost' = lost \union UNION {KeysOf(p, proc[p].fresh) : p \in Pullers}
    /\ proc' = [p \in Pullers |-> Idle]
    /\ UNCHANGED <<vendor, clock, seen, cursor, keys, pushes, windows, missed,
                   cut>>

(* Each time a key was opened.                                             *)
Opened == {w \in Key \X (1..MaxWindows) : w[2] <= windows[w[1]]}

(* A key's TTL runs out (at any time: the 120 s are not modelled).         *)
KeyExpires(k) ==
    /\ k \in keys
    /\ Cardinality(Opened) < MaxWindows
    /\ keys' = keys \ {k}
    /\ UNCHANGED <<vendor, clock, seen, cursor, proc, pushes, windows, missed,
                   cut, lost, faults>>

Work(p) ==
    \/ Pull(p)
    \/ Push(p)
    \/ Save(p)
    \/ \E e \in Events : Dedup(p, e)

Fails(p) ==
    \/ PullFails(p)
    \/ BlobFails(p)
    \/ PageFails(p)
    \/ PushFails(p)
    \/ SaveFails(p)
    \/ \E e \in Events : DedupFailsOpen(p, e)

Next ==
    \/ Tick
    \/ \E e \in Events : Appear(e)
    \/ \E p \in Pullers : Start(p) \/ Work(p) \/ Fails(p)
    \/ Crash
    \/ \E k \in Key : KeyExpires(k)

Spec == Init /\ [][Next]_vars

(* The dispatcher runs every minute, and a thread that has started a pull  *)
(* runs on; requests, the vendor and the clock owe nothing.                *)
FairSpec ==
    /\ Spec
    /\ WF_vars(Start(Dispatcher))
    /\ \A p \in Pullers : WF_vars(Work(p))
-----------------------------------------------------------------------------
PullType ==
    [pc: {"idle", "started", "dedup", "save"}, at: -1..MaxClock,
     todo: SUBSET Events, fresh: SUBSET Events, next: -1..MaxClock,
     minute: 0..MaxClock]

(* Types of the variables.                                                 *)
TypeOK ==
    /\ vendor \in Vendors
    /\ clock \in 0..MaxClock
    /\ seen \subseteq Events
    /\ cursor \in -1..MaxClock
    /\ keys \subseteq Key
    /\ proc \in [Pullers -> PullType]
    /\ pushes \in [Key -> Nat]
    /\ windows \in [Key -> Nat]
    /\ missed \subseteq Events
    /\ cut \subseteq Events
    /\ lost \subseteq Key
    /\ faults \in Nat

Listed == {k \in Key : pushes[k] > 0}
InFlight == UNION {KeysOf(p, proc[p].fresh) : p \in Pullers}

(* A key of the event's description, of a minute no earlier than it.       *)
CoveredBy(e, accounted) ==
    \E k \in accounted : k.desc = Desc[e] /\ k.minute >= Stamp[e]

(* Once the saved cursor has passed an event that the vendor's queries     *)
(* asked for, the event, or one the guard took for it, is on the alert     *)
(* list, on its way there, or was dropped by a failed call                 *)
(* (run_connector_pull saves the cursor of the page whatever became of the *)
(* page).  The cursor passes silently, with no call failed, only what it   *)
(* cut off a full page with the page's last stamp (Wazuh, SentinelOne and  *)
(* GCP), and the older events of a capped query without an order (AWS).    *)
NothingSkipped ==
    QueryOf.sorted =>
        \A e \in seen \ (missed \union cut) : Past(cursor, Stamp[e]) =>
            CoveredBy(e, Listed \union InFlight \union lost)

(* Not so: no full page ends between two events of one stamp that a cursor *)
(* asked for with "greater than" then passes together.                     *)
NothingCut == cut = {}

(* While no call fails, a key is pushed at most once for each time the     *)
(* guard let it in, however pulls overlap and cursors go back              *)
(* (is_duplicate before the push).                                         *)
OncePerWindow == faults = 0 => \A k \in Key : pushes[k] <= windows[k]

(* A capped page from the cursor's own time on holds a later event too.    *)
PageMoves ==
    QueryOf.capped /\ QueryOf.again =>
        \A s \in 0..MaxClock : Cardinality({e \in Events : Stamp[e] = s}) < PageSize

(* Every event that the vendor's queries ask for and no full page cuts off *)
(* is listed or dropped by a failed call in the end: overlapping pulls     *)
(* that put the cursor back do not stop the feed (_poll_due_connectors).   *)
EventuallyListed ==
    QueryOf.sorted /\ PageMoves =>
        \A e \in Events :
            e \in seen ~> (e \in missed \union cut \/ CoveredBy(e, Listed \union lost))
=============================================================================
