---------------------------- MODULE MCEdrCommands ----------------------------
(* Names of agents, commands, requests and configurations.                 *)
EXTENDS EdrCommands, TLC

CONSTANTS g1, g2, k1, k2, k3, p1, p2, e1, e2, x, y

Interchangeable == Permutations({k1, k2, k3}) \cup Permutations({p1, p2})
=============================================================================
