---------------------------- MODULE TaskContract ----------------------------
(* What the task queue promises its producers, whatever Redis commands and    *)
(* worker steps it takes: an accepted task is handled, or given up after its  *)
(* retries; it is lost only if a failure took it from a worker, and each      *)
(* failure takes one task at most.                                            *)
EXTENDS Naturals

CONSTANTS Task, MaxRetries

VARIABLES
    fate,    \* what became of each task
    fails,   \* failed handler runs per task
    hurt,    \* the tasks that a failure took from a worker
    faults   \* failures of the infrastructure so far

Init ==
    /\ fate = [t \in Task |-> "new"]
    /\ fails = [t \in Task |-> 0]
    /\ hurt = {}
    /\ faults = 0

Becomes(t, what) == fate' = [fate EXCEPT ![t] = what]

Accept(t) ==
    /\ fate[t] = "new" /\ Becomes(t, "pending")
    /\ UNCHANGED <<fails, hurt, faults>>

\* A duplicate of a dropped task may still succeed.
Succeed(t) ==
    /\ fate[t] \in {"pending", "dropped"} /\ Becomes(t, "done")
    /\ UNCHANGED <<fails, hurt, faults>>

Fail(t) ==
    /\ fate[t] # "new"
    /\ fails' = [fails EXCEPT ![t] = @ + 1]
    /\ UNCHANGED <<fate, hurt, faults>>

Drop(t) ==
    /\ fate[t] = "pending" /\ fails[t] > MaxRetries /\ Becomes(t, "dropped")
    /\ UNCHANGED <<fails, hurt, faults>>

\* A drain that read tasks of S before they were removed brings back those that
\* were lost since; the removal that follows takes away what was put back.
Wanders(S) ==
    /\ fate' \in [Task -> {"new", "pending", "done", "dropped", "lost"}]
    /\ \A t \in Task : \/ fate'[t] = fate[t]
                       \/ t \in S /\ {fate[t], fate'[t]} = {"pending", "lost"}

Wander == Wanders(hurt) /\ UNCHANGED <<fails, hurt, faults>>

Disrupt ==
    /\ faults' = faults + 1
    /\ hurt' = hurt \/ \E t \in Task : fate[t] # "new" /\ hurt' = hurt \union {t}
    /\ Wanders(hurt')
    /\ UNCHANGED fails

Next == \/ \E t \in Task : Accept(t) \/ Succeed(t) \/ Fail(t) \/ Drop(t)
        \/ Wander \/ Disrupt

Spec == Init /\ [][Next]_<<fate, fails, hurt, faults>>

Settles == \A t \in Task : fate[t] = "pending" ~> fate[t] # "pending"
=============================================================================
