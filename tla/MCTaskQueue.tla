---------------------------- MODULE MCTaskQueue ----------------------------
(* Instances of TaskQueue small enough for TLC.                             *)
EXTENDS TaskQueue, TLC

\* Webhook payloads, and workers, are interchangeable.
Symmetry == Permutations(Webhook) \union Permutations(Worker)
=============================================================================
