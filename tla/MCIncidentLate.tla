---------------------------- MODULE MCIncidentLate ----------------------------
(* The alert sets of MCIncidentEngine with the history of late joins.      *)
EXTENDS MCIncidentEngine, IncidentLate
=============================================================================
