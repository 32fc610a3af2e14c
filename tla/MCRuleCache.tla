---------------------------- MODULE MCRuleCache ----------------------------
(* Two alert tasks and two rule routes.                                    *)
EXTENDS RuleCache

CONSTANTS t1, t2, w1, w2
=============================================================================
