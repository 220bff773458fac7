-------------------------- MODULE MCAgentLifecycle --------------------------
(* Instances of AgentLifecycle small enough for TLC.                        *)
EXTENDS AgentLifecycle, TLC

\* Callers, workers and heartbeat requests are interchangeable.
Symmetry == Permutations(Caller) \union Permutations(Worker) \union Permutations(Beat)
=============================================================================
