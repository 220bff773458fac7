----------------------------- MODULE MCTaskBoard -----------------------------
(* Instances of TaskBoard small enough for TLC.                             *)
EXTENDS TaskBoard, TLC

\* Requests, tasks, approvals and workers are interchangeable.
Symmetry == Permutations(Session) \union Permutations(Task)
            \union Permutations(Approval) \union Permutations(Worker)
=============================================================================
