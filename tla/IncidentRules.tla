---------------------------- MODULE IncidentRules ----------------------------
(***************************************************************************)
(* The pure decisions of the correlation engine's incident lifecycle: the  *)
(* severity scale, the status graph analysts may follow, and what the      *)
(* false-positive (FP) probability of an alert does to its incident.       *)
(* No state: IncidentEngine applies these operators in its actions.        *)
(***************************************************************************)
EXTENDS Integers

(* low, medium, high, critical: sev_order of the code, as indices. *)
Severities == 0..3

(* Normalised alert scores are tenths of a point: 82 stands for 8.2. *)
ScoreSeverity(score) ==
    CASE score >= 82 -> 3
      [] score >= 76 /\ score < 82 -> 2
      [] score >= 60 /\ score < 76 -> 1
      [] OTHER -> 0

Statuses == {"open", "investigating", "in_review", "held",
             "resolved", "false_positive", "closed"}

(* The statuses an incident may have to take in one more alert. *)
ActiveStatuses == {"open", "investigating", "in_review", "held"}

(* What an analyst may do from each status. *)
AllowedTransitions ==
    [open           |-> {"investigating", "in_review", "resolved", "false_positive", "closed"},
     investigating  |-> {"in_review", "resolved", "false_positive", "closed"},
     in_review      |-> {"resolved", "false_positive", "closed", "investigating"},
     held           |-> {"investigating", "in_review", "resolved", "false_positive", "closed"},
     resolved       |-> {"investigating", "in_review", "closed"},
     false_positive |-> {"investigating", "closed"},
     closed         |-> {"investigating"}]

HigherSeverity(a, b) == IF a > b THEN a ELSE b

(* One band down for an incident that is probably noise. *)
SoftCapUnguarded(severity, fp) == IF fp >= 75 THEN severity - 1 ELSE severity
SoftCap(severity, fp) == IF fp >= 75 /\ severity > 0 THEN severity - 1 ELSE severity

(* The statuses that bands 2 and 3 leave alone. *)
SettledForBands == {"closed", "false_positive", "in_review", "resolved"}

BandStatus(status, fp, threshold) ==
    IF fp >= threshold THEN "closed"
    ELSE IF status \in SettledForBands THEN status
    ELSE IF fp >= 40 THEN "investigating" ELSE "in_review"

(* Band 3 opens a case for a severe incident that has none, whatever its   *)
(* status.                                                                 *)
BandOpensCaseAgain(hasCase, severity, fp, threshold) ==
    /\ fp < threshold /\ fp < 40
    /\ severity >= 2
BandOpensCase(hasCase, severity, fp, threshold) ==
    /\ fp < threshold /\ fp < 40
    /\ ~hasCase
    /\ severity >= 2
=============================================================================
