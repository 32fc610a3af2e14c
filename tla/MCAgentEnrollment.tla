------------------------- MODULE MCAgentEnrollment -------------------------
(* Two hosts with the agents, names and UUIDs that the initial states give *)
(* them.                                                                   *)
EXTENDS AgentEnrollment

(* Names are alike: the first host may as well begin with the first name.  *)
FirstInit == Init /\ name["a"] = "x"
FirstNamed == FirstInit /\ [][Next]_vars /\ Fairness

=============================================================================
