--------------------------- MODULE MCConnectorFeed ---------------------------
(* Small instances of ConnectorFeed.                                       *)
EXTENDS ConnectorFeed, FiniteSetsExt

(* Two events a minute apart, of one description or of two; those of Wazuh *)
(* have one stamp.                                                         *)
MCStamp == [e \in Events |-> IF e = "e1" THEN 0 ELSE 1]
MCEventsOf ==
    [v \in Vendors |-> IF v = "wazuh" THEN {"e2", "e3"} ELSE {"e1", "e2"}]
SameDesc == [e \in Events |-> "d1"]
OwnDesc == [e \in Events |-> e]

(* dedup.py:15 says the guard collapses "duplicates of the *same* event    *)
(* (same vendor, same entity, same description, same rounded-to-the-minute *)
(* timestamp)".  So, with nothing failed or passed and no pull under way,  *)
(* a description was pushed at least once for each minute its events came  *)
(* from (is_duplicate).                                                    *)
OnlySameEventCollapses ==
    faults = 0 /\ missed = {} /\ cut = {} /\ (\A p \in Pullers : ~Busy(p)) =>
        \A d \in Descs :
            LET passed == {e \in seen : Desc[e] = d /\ Past(cursor, Stamp[e])} IN
            MapThenSumSet(LAMBDA k : pushes[k], {k \in Key : k.desc = d})
                >= Cardinality({Stamp[e] : e \in passed})
=============================================================================
