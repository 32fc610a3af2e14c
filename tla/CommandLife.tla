----------------------------- MODULE CommandLife -----------------------------
(***************************************************************************)
(* What the EDR command queue promises of each command, whatever happens   *)
(* to requests, responses and agents: it is taken from the queue once, by  *)
(* the agent it was issued to, run at most once and only after it was      *)
(* taken, and its outcome is reported only after it ran.                   *)
(***************************************************************************)
EXTENDS Naturals

CONSTANT Commands

VARIABLES
    phase,    \* "none", "queued" or "taken"
    runs,     \* how often the agent executed the command
    outcome   \* "none", "completed" or "failed", as reported by the agent

vars == <<phase, runs, outcome>>

TypeOK ==
    /\ phase \in [Commands -> {"none", "queued", "taken"}]
    /\ runs \in [Commands -> 0..1]
    /\ outcome \in [Commands -> {"none", "completed", "failed"}]

Init ==
    /\ phase = [c \in Commands |-> "none"]
    /\ runs = [c \in Commands |-> 0]
    /\ outcome = [c \in Commands |-> "none"]

Issue(S) ==
    /\ \A c \in S : phase[c] = "none"
    /\ phase' = [c \in Commands |-> IF c \in S THEN "queued" ELSE phase[c]]
    /\ UNCHANGED <<runs, outcome>>

(* A poll takes a whole page of commands.                                  *)
Take(S) ==
    /\ \A c \in S : phase[c] # "none"
    /\ phase' = [c \in Commands |-> IF c \in S THEN "taken" ELSE phase[c]]
    /\ UNCHANGED <<runs, outcome>>

Run(c) ==
    /\ phase[c] = "taken"
    /\ runs[c] = 0
    /\ runs' = [runs EXCEPT ![c] = 1]
    /\ UNCHANGED <<phase, outcome>>

Report(c, verdict) ==
    /\ runs[c] = 1
    /\ outcome[c] = "none"
    /\ outcome' = [outcome EXCEPT ![c] = verdict]
    /\ UNCHANGED <<phase, runs>>

Next ==
    \/ \E S \in SUBSET Commands : Issue(S) \/ Take(S)
    \/ \E c \in Commands : Run(c)
    \/ \E c \in Commands, verdict \in {"completed", "failed"} : Report(c, verdict)

Spec == Init /\ [][Next]_vars
=============================================================================
