------------------------------ MODULE TaskBoard ------------------------------
(***************************************************************************)
(* One board: its tasks, their dependencies and the approvals linked to     *)
(* them, as the requests of workers, the board lead and users change them   *)
(* (api/tasks.py, api/agent.py, api/approvals.py).                          *)
(*                                                                          *)
(* Requests run concurrently, each in a database session.  A PATCH loads    *)
(* its task, decides from what it loaded and from what it then reads,       *)
(* flushes -- which takes the row lock, and writes the columns that differ  *)
(* from the loaded ones --, checks the board's rules, commits, and then     *)
(* logs the change and resets dependents in a second transaction.           *)
(***************************************************************************)
EXTENDS Naturals, FiniteSets

CONSTANTS
    Session,      \* requests that may be open at once
    Task, Approval,
    Worker,       \* agents of the board that are not its lead
    Lead, User,   \* the board lead; a user with write access
    Op,           \* kinds of request, a subset of AllOps
    Field,        \* fields a PATCH may give, a subset of AllFields
    MaxFields,    \* bound: fields one PATCH gives
    RuleSets,     \* what rules the board may have switched on
    MaxRequests,  \* bound: requests in one behaviour
    MaxCrashes,   \* bound: requests that die half way
    NoOne, Free, Absent

AllOps == {"patch", "create", "delete", "ask", "decide"}
AllFields == {"status", "who", "deps"}
AllRules == {"approval", "review", "pending", "leadonly"}
Actor == Worker \union {Lead, User}

ASSUME BoardAssumption ==
    /\ Op \subseteq AllOps /\ Field \subseteq AllFields /\ RuleSets \subseteq SUBSET AllRules
    /\ MaxFields \in Nat /\ MaxRequests \in Nat /\ MaxCrashes \in Nat
    /\ Lead \notin Worker /\ User \notin Worker /\ Lead # User
    /\ NoOne \notin Actor /\ Free \notin Session
    /\ Absent \notin Actor \union {NoOne}

VARIABLES
    rules,      \* the board's rules
    task,       \* the committed tasks rows
    deps,       \* task_dependencies: what each task depends on
    approval,   \* approvals with their links
    lock,       \* holder of each task's row lock
    event,      \* activity log: the worker last logged as moving a task to review
    ses,        \* what each request is doing
    mover,      \* history: the worker who last moved a task to review
    waived,     \* history: running tasks whose dependencies the lead edited
    opened,     \* requests so far
    crashes

vars == <<rules, task, deps, approval, lock, event, ses, mover, waived, opened, crashes>>

Status == {"inbox", "in_progress", "review", "done"}
Running == {"in_progress", "review"}
Row == [status: Status \union {"new", "gone"}, who: Worker \union {Lead, NoOne}]
Decision == {"pending", "approved", "rejected"}

Live == {t \in Task : task[t].status \in Status}
Asked == {a \in Approval : approval[a].status \in Decision}
Unasked == {a \in Approval : approval[a].status = "none"}

\* A request at rest.
Idle == [pc |-> "idle", actor |-> User, task |-> Absent,
         old |-> [status |-> "new", who |-> NoOne],
         new |-> [status |-> "new", who |-> NoOne],
         asked |-> FALSE, cut |-> {}, add |-> {}, plan |-> <<>>,
         approval |-> Absent, was |-> "none", links |-> {}]

PC == {"idle", "loaded", "guarded", "checked", "committed", "logged",
       "creating", "asking", "deciding"}

Request == [pc: PC, actor: Actor, task: Task \union {Absent}, old: Row, new: Row,
            asked: BOOLEAN, cut: SUBSET Task, add: SUBSET Task,
            plan: UNION {[S -> Row] : S \in SUBSET Task},
            approval: Approval \union {Absent}, was: Decision \union {"none"},
            links: SUBSET Task]

TypeOK ==
    /\ rules \in RuleSets
    /\ task \in [Task -> Row]
    /\ deps \in [Task -> SUBSET Task]
    /\ approval \in [Approval -> [status: Decision \union {"none", "gone"}, tasks: SUBSET Task]]
    /\ lock \in [Task -> Session \union {Free}]
    /\ event \in [Task -> Worker \union {NoOne}]
    /\ ses \in [Session -> Request]
    /\ mover \in [Task -> Worker \union {NoOne}]
    /\ waived \subseteq Task /\ opened \in Nat /\ crashes \in Nat

Init ==
    /\ rules \in RuleSets
    /\ task = [t \in Task |-> [status |-> IF "create" \in Op THEN "new" ELSE "inbox",
                               who |-> NoOne]]
    /\ deps = [t \in Task |-> {}]
    /\ approval = [a \in Approval |-> [status |-> "none", tasks |-> {}]]
    /\ lock = [t \in Task |-> Free]
    /\ event = [t \in Task |-> NoOne]
    /\ ses = [s \in Session |-> Idle]
    /\ mover = [t \in Task |-> NoOne] /\ waived = {} /\ opened = 0 /\ crashes = 0

-----------------------------------------------------------------------------
(* Sessions.                                                                *)

\* The columns an UPDATE writes: those that differ from the loaded ones.
Merge(cur, loaded, mine) ==
    [status |-> IF mine.status # loaded.status THEN mine.status ELSE cur.status,
     who    |-> IF mine.who    # loaded.who    THEN mine.who    ELSE cur.who]

\* The request ends; what it has not committed is rolled back.
Unlocked(s) == [t \in Task |-> IF lock[t] = s THEN Free ELSE lock[t]]
Closed(s) == /\ ses' = [ses EXCEPT ![s] = Idle]
             /\ lock' = Unlocked(s)

\* Rows that reference t and are not committed yet keep t from being deleted.
Referenced(t) ==
    \E s \in Session :
        \/ t \in ses[s].add
        \/ ses[s].add # {} /\ ses[s].task = t
        \/ ses[s].pc = "logged" /\ ses[s].task = t

data == <<rules, task, deps, approval, event, mover, waived>>
bounds == <<opened, crashes>>

\* A request of kind o arrives.
Arrives(o) == o \in Op /\ opened < MaxRequests /\ opened' = opened + 1

-----------------------------------------------------------------------------
(* Dependencies: services/task_dependencies.py.                             *)

\* _has_cycle finds no cycle in the board's graph g.
NoCycle(g) == \A S \in SUBSET Task : S # {} => \E t \in S : g[t] \intersect S = {}

\* validate_dependency_update
Valid(t, D) == t \notin D /\ D \subseteq Live /\ NoCycle([deps EXCEPT ![t] = D])

\* blocked_by_dependency_ids is not empty.
Unfinished(D) == \E d \in D : task[d].status # "done"

\* What the task depends on once the request p is through.
Effective(t, p) == IF p.deps = Absent THEN deps[t] ELSE p.deps

-----------------------------------------------------------------------------
(* What a PATCH writes, by actor; m is the row it loaded, p the request.    *)

Given(p, f) == IF f = "status" THEN p.status # Absent
               ELSE IF f = "who" THEN p.who # Absent ELSE p.deps # Absent

Payload ==
    {p \in [status: Status \union {Absent}, who: Worker \union {Lead, NoOne, Absent},
            deps: (SUBSET Task) \union {Absent}] :
        /\ {f \in AllFields : Given(p, f)} \subseteq Field
        /\ Cardinality({f \in AllFields : Given(p, f)}) <= MaxFields}

\* mutant: a task in review is assigned to whoever is allowed to approve it
ToLead_User(m, r) ==
    IF r.status = "review" /\ m.status # "review" THEN [r EXCEPT !.who = User] ELSE r

\* _assign_review_task_to_lead: the board has a lead
ToLead(m, r) ==
    IF r.status = "review" /\ m.status # "review" THEN [r EXCEPT !.who = Lead] ELSE r

\* _apply_non_lead_agent_task_rules: status changes on one's own or on
\* unassigned tasks, not away from the inbox while a dependency is unfinished.
WorkerMay(w, m, p, t) ==
    /\ ~Given(p, "who") /\ ~Given(p, "deps")
    /\ Given(p, "status") =>
          /\ m.who \in {NoOne, w}
          /\ "leadonly" \notin rules
          /\ p.status # "inbox" => ~Unfinished(deps[t])

WorkerWrites(w, m, p) ==
    IF ~Given(p, "status") THEN m
    ELSE ToLead(m, [status |-> p.status,
                    who |-> IF p.status \in {"inbox", "review"} THEN NoOne ELSE w])

\* _apply_admin_task_rules: a blocked task goes back to the inbox, whatever the
\* request says, unless it is done and stays done.
UserMay(m, p, t) ==
    Given(p, "deps") => m.status # "done" /\ Valid(t, p.deps)

UserWrites(m, p, blocked) ==
    LET st == IF Given(p, "status") THEN p.status ELSE m.status
        forced == blocked /\ ~(m.status = "done" /\ st = "done")
    IN  ToLead(m, [status |-> IF forced THEN "inbox" ELSE st,
                   who |-> IF forced THEN NoOne
                           ELSE IF Given(p, "who") THEN p.who
                           ELSE IF Given(p, "status") /\ st \in {"inbox", "review"} THEN NoOne
                           ELSE m.who])

\* _apply_lead_task_update: start an inbox task with a worker, accept or send
\* back a task in review; nothing while a dependency is unfinished.
LeadMay(m, p, t) ==
    /\ Given(p, "deps") => m.status # "done" /\ Valid(t, p.deps)
    /\ Unfinished(Effective(t, p)) => ~Given(p, "who") /\ ~Given(p, "status")
    /\ p.who # Lead
    /\ \/ ~Given(p, "status")
       \/ m.status = "inbox" /\ p.status = "in_progress" /\ p.who \in Worker
       \/ m.status = "review" /\ p.status \in {"done", "inbox"}

\* mutant: sent back to whoever has it
LeadWrites_KeepsAssignee(m, p, t) ==
    [status |-> IF Given(p, "status") THEN p.status ELSE m.status,
     who |-> IF Given(p, "who") THEN p.who ELSE m.who]

\* Sent back, a task returns to the worker the activity log names.
LeadWrites(m, p, t) ==
    [status |-> IF Given(p, "status") THEN p.status ELSE m.status,
     who |-> IF m.status = "review" /\ p.status = "inbox" THEN event[t]
             ELSE IF Given(p, "who") THEN p.who ELSE m.who]

-----------------------------------------------------------------------------
(* The board's rules, checked against the status the request loaded.        *)

Pending(t) == \E a \in Asked : approval[a].status = "pending" /\ t \in approval[a].tasks
Approved(t) == \E a \in Asked : approval[a].status = "approved" /\ t \in approval[a].tasks

\* _require_no_pending_approval_for_status_change_when_enabled
PendingAllows(x) ==
    "pending" \in rules /\ x.asked /\ x.new.status # x.old.status => ~Pending(x.task)

\* _require_review_before_done_when_enabled,
\* _require_approved_linked_approval_for_done
DoneAllowed_NoReview(x) ==
    x.new.status = "done" /\ x.old.status # "done" =>
        ("approval" \in rules => Approved(x.task))

DoneAllowed(x) ==
    x.new.status = "done" /\ x.old.status # "done" =>
        /\ "review" \in rules => x.old.status = "review"
        /\ "approval" \in rules => Approved(x.task)

-----------------------------------------------------------------------------
(* PATCH of a task.                                                         *)

\* The task is loaded; previous_status is its status now.
Load(s) ==
    /\ ses[s].pc = "idle" /\ Arrives("patch")
    /\ \E who \in Actor, t \in Live :
          ses' = [ses EXCEPT ![s] = [Idle EXCEPT !.pc = "loaded", !.actor = who, !.task = t,
                                                !.old = task[t], !.new = task[t]]]
    /\ UNCHANGED <<data, lock, crashes>>

\* The actor's rules decide what is written; replace_task_dependencies deletes
\* the edges it finds and inserts the new ones.  What they refuse is rolled
\* back, as if it had not been sent.
Guard(s) ==
    LET x == ses[s]
        m == x.old
    IN  /\ x.pc = "loaded"
        /\ \E p \in Payload :
              /\ \/ x.actor \in Worker /\ WorkerMay(x.actor, m, p, x.task)
                 \/ x.actor = User /\ UserMay(m, p, x.task)
                 \/ x.actor = Lead /\ LeadMay(m, p, x.task)
              /\ ses' = [ses EXCEPT
                    ![s].pc = "guarded",
                    ![s].new = IF x.actor = User
                               THEN UserWrites(m, p, Unfinished(Effective(x.task, p)))
                               ELSE IF x.actor = Lead THEN LeadWrites(m, p, x.task)
                               ELSE WorkerWrites(x.actor, m, p),
                    ![s].asked = Given(p, "status") /\ p.status # m.status,
                    ![s].cut = IF Given(p, "deps") THEN deps[x.task] ELSE {},
                    ![s].add = IF Given(p, "deps") THEN p.deps ELSE {}]
        /\ UNCHANGED <<data, lock, bounds>>

\* mutant: the rules are checked before the row is flushed
Flushed_Late(s) == UNCHANGED lock

\* A changed row is flushed, which waits for its lock, before the rules are
\* looked up.
Flushed(s) ==
    IF ses[s].new = ses[s].old THEN UNCHANGED lock
    ELSE /\ lock[ses[s].task] = Free
         /\ lock' = [lock EXCEPT ![ses[s].task] = s]

\* The rules hold ...
Check(s) ==
    /\ ses[s].pc = "guarded" /\ ses[s].task \in Live
    /\ Flushed(s)
    /\ PendingAllows(ses[s]) /\ DoneAllowed(ses[s])
    /\ ses' = [ses EXCEPT ![s].pc = "checked"]
    /\ UNCHANGED <<data, bounds>>

\* ... or the request is refused, also when the row or an edge is not what the
\* session expects (StaleDataError, IntegrityError).
Refuse(s) ==
    /\ \/ ses[s].pc = "loaded"
       \/ ses[s].pc = "guarded" /\ ~(PendingAllows(ses[s]) /\ DoneAllowed(ses[s]))
       \/ ses[s].pc \in {"guarded", "checked", "committed"} /\ ses[s].task \notin Live
       \/ /\ ses[s].pc = "checked"
          /\ ses[s].add \intersect (deps[ses[s].task] \ ses[s].cut) # {}
       \/ /\ ses[s].pc = "logged"
          /\ \E d \in DOMAIN ses[s].plan : d \notin Live
    /\ Closed(s)
    /\ UNCHANGED <<data, bounds>>

\* Edges this request replaced are no longer there for others to delete.
Committed(s) ==
    [u \in Session |->
        IF u = s THEN IF ses[s].actor = Lead THEN Idle
                      ELSE [ses[s] EXCEPT !.pc = "committed", !.cut = {}, !.add = {}]
        ELSE IF ses[u].task = ses[s].task THEN [ses[u] EXCEPT !.cut = @ \ ses[s].cut]
        ELSE ses[u]]

\* A waiver ends when the task no longer runs or its dependencies are done.
Waiver(more) ==
    waived' = {t \in waived \union more :
                  task'[t].status \in Running /\ \E d \in deps'[t] : task'[d].status # "done"}

\* The first transaction commits; for the lead, who never reopens a task, it
\* is the only one that changes tasks.
Commit(s) ==
    LET x == ses[s]
        t == x.task
        kept == deps[t] \ x.cut
        row == Merge(task[t], x.old, x.new)
    IN  /\ x.pc = "checked" /\ t \in Live
        /\ lock[t] \in {Free, s}
        /\ x.add \intersect kept = {}
        /\ task' = [task EXCEPT ![t] = row]
        /\ deps' = [deps EXCEPT ![t] = kept \union x.add]
        /\ mover' = IF x.actor \in Worker /\ row.status = "review" /\ task[t].status # "review"
                    THEN [mover EXCEPT ![t] = x.actor] ELSE mover
        /\ ses' = Committed(s)
        /\ lock' = Unlocked(s)
        /\ UNCHANGED <<rules, approval, event, bounds>>
        /\ Waiver(IF x.actor = Lead /\ x.add # {} THEN {t} ELSE {})

\* mutant: only tasks in progress go back
Returns_Working(r) == r.status = "in_progress"

\* should_reset, but for a row that has nothing but its in_progress_at to reset
Returns(r) == r.status \in Running \/ (r.status = "inbox" /\ r.who # NoOne)

\* refresh, and _reconcile_dependents_for_dependency_toggle reads the dependents
\* of a task that is no longer done.
Reread(s) ==
    LET x == ses[s]
        t == x.task
        reopened == x.old.status = "done" /\ task[t].status # "done"
        dependents == {d \in Live : reopened /\ t \in deps[d] /\ Returns(task[d])}
    IN  /\ x.pc = "committed" /\ t \in Live
        /\ ses' = [ses EXCEPT ![s].pc = "logged", ![s].new = task[t],
                              ![s].plan = [d \in dependents |-> task[d]]]
        /\ UNCHANGED <<data, lock, bounds>>

\* The log says that a worker moved the task to review.
Logs(x) == x.actor \in Worker /\ x.new.status = "review" /\ x.old.status # "review"

\* The second transaction: the log entry and the dependents' reset.
CommitDependents(s) ==
    LET x == ses[s]
        reset == [status |-> "inbox", who |-> NoOne]
    IN  /\ x.pc = "logged"
        /\ \A d \in DOMAIN x.plan : d \in Live /\ lock[d] = Free
        /\ task' = [t \in Task |-> IF t \in DOMAIN x.plan
                                   THEN Merge(task[t], x.plan[t], reset) ELSE task[t]]
        /\ event' = IF Logs(x) THEN [event EXCEPT ![x.task] = x.actor] ELSE event
        /\ Closed(s)
        /\ UNCHANGED <<rules, deps, approval, mover, bounds>>
        /\ Waiver({})

-----------------------------------------------------------------------------
(* Creation and deletion.                                                   *)

\* The request with which who creates t.
Creating(who, t, D, row) == [Idle EXCEPT !.pc = "creating", !.actor = who, !.task = t,
                                         !.add = D, !.new = row]

\* create_task, for users and for the lead: dependencies are validated and
\* looked up; the board's rules for status changes do not apply.
Create(s) ==
    /\ ses[s].pc = "idle" /\ Arrives("create")
    /\ \E t \in Task, who \in {User, Lead}, st \in Status,
          owner \in Worker \union {Lead, NoOne}, D \in SUBSET Live :
          /\ task[t].status = "new" /\ \A u \in Session : ses[u].task # t
          /\ Unfinished(D) => owner = NoOne /\ st = "inbox"
          /\ who = Lead => owner # Lead
          /\ ses' = [ses EXCEPT ![s] = Creating(who, t, D, [status |-> st, who |-> owner])]
    /\ UNCHANGED <<data, lock, crashes>>

CommitCreate(s) ==
    LET x == ses[s] IN
    /\ x.pc = "creating"
    /\ task' = [task EXCEPT ![x.task] = x.new]
    /\ deps' = [deps EXCEPT ![x.task] = x.add]
    /\ Closed(s)
    /\ UNCHANGED <<rules, approval, event, mover, waived, bounds>>

\* delete_task_and_related_records, in one transaction: edges, links and log
\* entries go with the task, and approvals left without a task too.
Delete(t) ==
    /\ Arrives("delete") /\ t \in Live
    /\ lock[t] = Free /\ ~Referenced(t)
    /\ task' = [task EXCEPT ![t] = [status |-> "gone", who |-> NoOne]]
    /\ deps' = [u \in Task |-> IF u = t THEN {} ELSE deps[u] \ {t}]
    /\ approval' = [a \in Approval |->
          IF approval[a].tasks = {t} THEN [status |-> "gone", tasks |-> {}]
          ELSE [approval[a] EXCEPT !.tasks = @ \ {t}]]
    /\ event' = [event EXCEPT ![t] = NoOne]
    /\ mover' = [mover EXCEPT ![t] = NoOne]
    /\ Waiver({})
    /\ UNCHANGED <<rules, lock, ses, crashes>>

-----------------------------------------------------------------------------
(* Approvals: api/approvals.py.                                             *)

\* mutant: the locks of lock_tasks_for_approval are not taken
LocksTasks_Not(s, S) == UNCHANGED lock

\* lock_tasks_for_approval
LocksTasks(s, S) ==
    /\ \A t \in S : lock[t] = Free /\ ~Referenced(t)
    /\ lock' = [t \in Task |-> IF t \in S THEN s ELSE lock[t]]

\* _ensure_no_pending_approval_conflicts, with a itself left out
Conflicts(a, S) ==
    \E b \in Asked \ {a} : approval[b].status = "pending" /\ approval[b].tasks \intersect S # {}

\* create_approval; a pending one is checked against others under the locks.
Ask(s) ==
    /\ ses[s].pc = "idle" /\ Arrives("ask")
    /\ \E a \in Unasked, S \in SUBSET Live :
          /\ S # {} /\ \A u \in Session : ses[u].approval # a
          /\ LocksTasks(s, S) /\ ~Conflicts(a, S)
          /\ ses' = [ses EXCEPT ![s] = [Idle EXCEPT !.pc = "asking", !.approval = a,
                                                   !.links = S]]
    /\ UNCHANGED <<data, crashes>>

\* A resolved one is not.
AskResolved ==
    /\ Arrives("ask")
    /\ \E a \in Unasked, S \in SUBSET Live, st \in {"approved", "rejected"} :
          /\ S # {} /\ \A u \in Session : ses[u].approval # a
          /\ approval' = [approval EXCEPT ![a] = [status |-> st, tasks |-> S]]
    /\ UNCHANGED <<rules, task, deps, lock, event, ses, mover, waived, crashes>>

\* update_approval loads the approval and keeps its prior status.
LoadApproval(s) ==
    /\ ses[s].pc = "idle" /\ Arrives("decide")
    /\ \E a \in Asked :
          ses' = [ses EXCEPT ![s] = [Idle EXCEPT !.pc = "deciding", !.approval = a,
                     !.was = approval[a].status]]
    /\ UNCHANGED <<data, lock, crashes>>

\* Whether the UPDATE contains the status: it differs from the loaded one.
Writes(x, st) == st # x.was

\* Resolved, or set to pending while it was pending when loaded.
Decide(s) ==
    LET x == ses[s] IN
    /\ x.pc = "deciding"
    /\ \/ /\ x.approval \in Asked
          /\ \E st \in Decision :
                /\ st = "pending" => x.was = "pending"
                /\ \/ /\ Writes(x, st)
                      /\ approval' = [approval EXCEPT ![x.approval].status = st]
                   \/ ~Writes(x, st) /\ UNCHANGED approval
       \/ x.approval \notin Asked /\ UNCHANGED approval
    /\ Closed(s)
    /\ UNCHANGED <<rules, task, deps, event, mover, waived, bounds>>

\* Set to pending again: the conflict check, under the locks of its tasks.
Reopen(s) ==
    LET x == ses[s]
        S == approval[x.approval].tasks
    IN  /\ x.pc = "deciding" /\ x.was # "pending" /\ x.approval \in Asked
        /\ LocksTasks(s, S) /\ ~Conflicts(x.approval, S)
        /\ ses' = [ses EXCEPT ![s].pc = "asking", ![s].links = S]
        /\ UNCHANGED <<data, bounds>>

CommitPending(s) ==
    LET x == ses[s] IN
    /\ x.pc = "asking"
    /\ approval' = [approval EXCEPT ![x.approval] = [status |-> "pending", tasks |-> x.links]]
    /\ Closed(s)
    /\ UNCHANGED <<rules, task, deps, event, mover, waived, bounds>>

-----------------------------------------------------------------------------
\* The process dies, or the request is cancelled, between two steps.
Crash(s) ==
    /\ ses[s].pc # "idle" /\ crashes < MaxCrashes
    /\ crashes' = crashes + 1
    /\ Closed(s)
    /\ UNCHANGED <<data, opened>>

Patch(s) == Load(s) \/ Guard(s) \/ Check(s) \/ Refuse(s) \/ Commit(s) \/ Reread(s)
            \/ CommitDependents(s)
Approve(s) == Ask(s) \/ LoadApproval(s) \/ Decide(s) \/ Reopen(s) \/ CommitPending(s)

Next == \/ \E s \in Session : Patch(s) \/ Create(s) \/ CommitCreate(s) \/ Approve(s) \/ Crash(s)
        \/ \E t \in Task : Delete(t)
        \/ AskResolved

Spec == Init /\ [][Next]_vars

-----------------------------------------------------------------------------
(* Properties.                                                              *)

AllIdle == \A s \in Session : ses[s].pc = "idle"

\* Requests one after the other: no task runs while something it depends on is
\* unfinished -- the task is not started, it goes back to the inbox when a
\* dependency is reopened or added by a user -- unless the lead gave a running
\* task an unfinished dependency.
BlockedTasksWait ==
    AllIdle => \A t \in Live :
        task[t].status \in Running /\ Unfinished(deps[t]) => t \in waived

\* Requests one after the other: a task becomes done from review, and with an
\* approval, on a board with these rules, whoever moves it and on whatever path.
DoneEarned ==
    [][\A t \in Live : task[t].status # "done" /\ task'[t].status = "done" =>
          /\ "review" \in rules => task[t].status = "review"
          /\ "approval" \in rules => Approved(t)]_vars

\* Requests one after the other: a task the lead sends back from review returns
\* to the worker who handed it in, which the lead's request learns from the
\* log entry of an earlier request's second transaction.
ReworkReturns ==
    [][\A s \in Session, t \in Task :
          /\ ses[s].pc = "checked" /\ ses[s].actor = Lead /\ ses[s].task = t
          /\ task[t].status = "review" /\ task'[t].status = "inbox"
          => task'[t].who = mover[t]]_vars

\* However requests interleave, no task has two pending approvals: the conflict
\* check of a request and its commit are under the locks of the tasks.
OnePending ==
    \A a, b \in Asked :
        a # b /\ approval[a].status = "pending" /\ approval[b].status = "pending"
            => approval[a].tasks \intersect approval[b].tasks = {}

\* However requests interleave, a requested status change is not committed
\* while an approval of the task is pending, on a board with this rule.
PendingBlocks ==
    [][\A s \in Session :
          LET t == ses[s].task IN
          /\ ses[s].pc = "checked" /\ ses'[s].pc \in {"committed", "idle"}
          /\ ses[s].asked /\ "pending" \in rules /\ t \in Live
          /\ task'[t].status # task[t].status
          => ~Pending(t)]_vars

\* A worker moves or takes unassigned tasks and its own only.
OwnTasksOnly ==
    [][\A s \in Session :
          LET x == ses[s] IN
          /\ x.pc = "checked" /\ ses'[s].pc = "committed"
          /\ x.actor \in Worker /\ task'[x.task] # task[x.task]
          => task[x.task].who \in {NoOne, x.actor}]_vars

\* The dependencies form no cycle.
Acyclic == NoCycle(deps)
=============================================================================
