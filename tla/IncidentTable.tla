---------------------------- MODULE IncidentTable ----------------------------
(***************************************************************************)
(* What ingest and the archiver promise together of the incidents: alerts  *)
(* are grouped one at a time, each in one step that sees all those before  *)
(* it.  An incident is its alerts, the time it began and its status; there *)
(* are no rows that summarise the alerts, no tasks, locks or transactions. *)
(***************************************************************************)
EXTENDS IncidentRules, FiniteSets

CONSTANTS Messages, Alert, CloudSources, NoValue, Window, MaxAge, CandidateLimit,
          FpThreshold, Scores, Ids

VARIABLES
    link,    \* incident of each stored alert, 0 for none
    first,   \* time of the alert that began each incident
    status   \* of each incident, "none" where there is no incident

vars == <<link, first, status>>

Init ==
    /\ link = [m \in Messages |-> 0]
    /\ first = [i \in Ids |-> 0]
    /\ status = [i \in Ids |-> "none"]

Alerts(i) == {m \in Messages : link[m] = i}

Says(i, x) ==
    x # NoValue /\ \E n \in Alerts(i) : x \in {Alert[n].agent, Alert[n].src,
                                               Alert[n].user, Alert[n].cat}

Shares(m, i) ==
    \/ Says(i, Alert[m].agent)
    \/ Says(i, Alert[m].src)
    \/ Alert[m].cat \in CloudSources /\ Says(i, Alert[m].user) /\ Says(i, Alert[m].cat)

InRange(m, i) ==
    /\ status[i] \in ActiveStatuses
    /\ \E n \in Alerts(i) : Alert[m].time <= Alert[n].time + Window
    /\ Alert[m].time <= first[i] + MaxAge

Fits(m, i) == InRange(m, i) /\ Shares(m, i)

(* i was seen later than j.                                                *)
Newer(i, j) == \E n \in Alerts(i) : \A k \in Alerts(j) : Alert[n].time > Alert[k].time

(* A page of other candidates comes before i.                              *)
Hidden(m, i) ==
    Cardinality({j \in Ids \ {i} : InRange(m, j) /\ ~Newer(i, j)}) >= CandidateLimit

Unknown(m) == \A n \in Messages : link[n] # 0 => Alert[n].wid # Alert[m].wid

AfterBand(s) == {BandStatus(s, fp, FpThreshold) : fp \in Scores}

Join(m, i) ==
    /\ link' = [link EXCEPT ![m] = i]
    /\ Unknown(m)
    /\ Fits(m, i)
    /\ \A j \in Ids : Fits(m, j) => ~Newer(j, i)
    /\ \E s \in AfterBand(status[i]) : status' = [status EXCEPT ![i] = s]
    /\ UNCHANGED first

Begin(m, i) ==
    /\ link' = [link EXCEPT ![m] = i]
    /\ Unknown(m)
    /\ status[i] = "none"
    /\ \A j \in Ids : Fits(m, j) => Hidden(m, j)
    /\ \E s \in AfterBand("investigating") : status' = [status EXCEPT ![i] = s]
    /\ first' = [first EXCEPT ![i] = Alert[m].time]

Settled == {i \in Ids : status[i] \in {"closed", "resolved"}}

(* Settled incidents go with all their alerts.                             *)
Archive(S) ==
    /\ link' = [m \in Messages |-> IF link[m] \in S THEN 0 ELSE link[m]]
    /\ status' = [i \in Ids |-> IF i \in S THEN "none" ELSE status[i]]
    /\ first' = [i \in Ids |-> IF i \in S THEN 0 ELSE first[i]]

Next ==
    \/ \E m \in Messages, i \in Ids : Join(m, i) \/ Begin(m, i)
    \/ \E S \in SUBSET Settled : Archive(S)

Spec == Init /\ [][Next]_vars
=============================================================================
