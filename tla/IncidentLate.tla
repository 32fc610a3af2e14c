----------------------------- MODULE IncidentLate -----------------------------
(***************************************************************************)
(* IncidentEngine with a history variable for the alerts that reach an     *)
(* incident too late.  find_matching_incident selects active incidents     *)
(* only, but neither the merge nor the commit looks at the status again:   *)
(* an analyst, a PATCH or a bulk update may settle the incident between    *)
(* the SELECT and the commit, and the alert then joins a settled incident. *)
(***************************************************************************)
EXTENDS IncidentEngine

VARIABLE late   \* alerts that joined each incident since it was settled

LateInit == Init /\ late = [i \in Ids |-> 0]

SettledIn(rows, i) == rows[i].status \notin ActiveStatuses

Joining(i) == {m \in Messages : link'[m] = i /\ link[m] # i}

LateNext ==
    /\ Next
    /\ late' = [i \in Ids |->
          IF i \notin live' \/ ~SettledIn(inc', i) THEN 0
          ELSE IF i \in live /\ SettledIn(inc, i) THEN late[i] + Cardinality(Joining(i))
          ELSE 0]

LateSpec == LateInit /\ [][LateNext]_<<vars, late>>

-----------------------------------------------------------------------------

(* At most one alert joins an incident after it was settled, whoever       *)
(* settles it: only the task that had selected it before can, and the      *)
(* advisory lock makes every other one select again.                       *)
OneLateJoin == \A i \in live : late[i] <= 1

(* Stronger, and false: no alert joins an incident after it was settled.   *)
NoLateJoin == \A i \in live : late[i] = 0
=============================================================================
