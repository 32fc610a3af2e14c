--------------------------- MODULE MCIncidentEngine ---------------------------
(* Alert sets and small values for the runs of IncidentEngine.             *)
EXTENDS IncidentEngine, TLC

CONSTANTS m1, m2, m3, m4,              \* messages
          a1, c1, w1, w2, d1, None     \* actors, and the absent value

MCCloud == {"azure"}

Make(wid, agent, src, cat, time, score) ==
    [wid |-> wid, agent |-> agent, src |-> src, user |-> None, cat |-> cat,
     time |-> time, score |-> score]

(* One host: an alert, a second one in the window, one after the window    *)
(* and the first one delivered again.                                      *)
OneHost ==
    (m1 :> Make("w1", "h1", None, None, 0, 80)) @@
    (m2 :> Make("w2", "h1", None, None, 1, 50)) @@
    (m3 :> Make("w3", "h1", None, None, 4, 85)) @@
    (m4 :> Make("w1", "h1", None, None, 0, 80))

(* Two alerts of one host: the second begins another incident after the   *)
(* first, and the first joins the second's when it is grouped after it.    *)
Apart ==
    (m1 :> Make("w1", "h1", None, None, 0, 80)) @@
    (m2 :> Make("w2", "h1", None, None, 3, 30))

(* Two hosts, then a third alert of the first one with the source address  *)
(* seen at the second.                                                     *)
SharedSource ==
    (m1 :> Make("w1", "h1", "ip1", None, 0, 80)) @@
    (m2 :> Make("w2", "h2", "ip2", None, 1, 50)) @@
    (m3 :> Make("w3", "h1", "ip2", None, 1, 85))

(* A burst of three alerts of one host.                                    *)
Burst ==
    (m1 :> Make("w1", "h1", None, None, 0, 80)) @@
    (m2 :> Make("w2", "h1", None, None, 1, 50)) @@
    (m3 :> Make("w3", "h1", None, None, 2, 85))

(* Two alerts of one host.                                                 *)
TwoAlerts ==
    (m1 :> Make("w1", "h1", None, None, 0, 80)) @@
    (m2 :> Make("w2", "h1", None, None, 1, 50))

=============================================================================
