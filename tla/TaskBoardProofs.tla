--------------------------- MODULE TaskBoardProofs ---------------------------
(* Theorems about TaskBoard, for any number of concurrent requests, tasks,    *)
(* approvals and workers, and any set of rules.                               *)
EXTENDS TaskBoard, TLAPS

-----------------------------------------------------------------------------
(* Types of what the handlers compute.                                      *)

\* A flush makes a row out of rows.
LEMMA MergeType ==
    ASSUME NEW a \in Row, NEW b \in Row, NEW c \in Row
    PROVE  Merge(a, b, c) \in Row
  BY DEF Merge, Row

\* A request at rest holds nothing of the wrong type.
LEMMA IdleType == Idle \in Request
<1>1. <<>> \in [{} -> Row]
  OBVIOUS
<1>2. <<>> \in UNION {[S -> Row] : S \in SUBSET Task}
  BY <1>1
<1> QED
  BY <1>2 DEF Idle, Request, PC, Row, Actor

\* Assigning a review to the lead gives a row.
LEMMA ToLeadType ==
    ASSUME NEW m \in Row, NEW r \in Row
    PROVE  ToLead(m, r) \in Row
  BY DEF ToLead, Row

\* A row made of a status and an owner that a PATCH or the row itself has.
LEMMA RowType ==
    ASSUME NEW st \in Status \union {"new", "gone"}, NEW who \in Worker \union {Lead, NoOne}
    PROVE  [status |-> st, who |-> who] \in Row
  BY DEF Row

\* What a worker's request writes is a row ...
LEMMA WorkerWritesType ==
    ASSUME NEW w \in Worker, NEW m \in Row, NEW p \in Payload
    PROVE  WorkerWrites(w, m, p) \in Row
<1>1. CASE ~Given(p, "status")
  BY <1>1 DEF WorkerWrites
<1>2. CASE Given(p, "status")
  <2> DEFINE who == IF p.status \in {"inbox", "review"} THEN NoOne ELSE w
  <2>1. p.status \in Status /\ who \in Worker \union {Lead, NoOne}
    BY <1>2 DEF Payload, Given
  <2>2. [status |-> p.status, who |-> who] \in Row
    BY <2>1, RowType
  <2>3. ToLead(m, [status |-> p.status, who |-> who]) \in Row
    BY <2>2, ToLeadType
  <2> QED
    BY <1>2, <2>3 DEF WorkerWrites
<1> QED
  BY <1>1, <1>2

\* ... and so is what a user's writes ...
LEMMA UserWritesType ==
    ASSUME NEW m \in Row, NEW p \in Payload, NEW blocked \in BOOLEAN
    PROVE  UserWrites(m, p, blocked) \in Row
<1> DEFINE st == IF Given(p, "status") THEN p.status ELSE m.status
           forced == blocked /\ ~(m.status = "done" /\ st = "done")
           status == IF forced THEN "inbox" ELSE st
           who == IF forced THEN NoOne
                  ELSE IF Given(p, "who") THEN p.who
                  ELSE IF Given(p, "status") /\ st \in {"inbox", "review"} THEN NoOne
                  ELSE m.who
<1>1. st \in Status \union {"new", "gone"}
  BY DEF Payload, Given, Row
<1>2. status \in Status \union {"new", "gone"}
  BY <1>1 DEF Status
<1>3. Given(p, "who") => p.who \in Worker \union {Lead, NoOne}
  BY DEF Payload, Given
<1>4. who \in Worker \union {Lead, NoOne}
  BY <1>3 DEF Row
<1>5. ToLead(m, [status |-> status, who |-> who]) \in Row
  BY <1>2, <1>4, RowType, ToLeadType
<1> QED
  BY <1>5 DEF UserWrites

\* ... and the lead's.
LEMMA LeadWritesType ==
    ASSUME event \in [Task -> Worker \union {NoOne}],
           NEW m \in Row, NEW p \in Payload, NEW t \in Task
    PROVE  LeadWrites(m, p, t) \in Row
<1> DEFINE status == IF Given(p, "status") THEN p.status ELSE m.status
           who == IF m.status = "review" /\ p.status = "inbox" THEN event[t]
                  ELSE IF Given(p, "who") THEN p.who ELSE m.who
<1>1. status \in Status \union {"new", "gone"}
  BY DEF Payload, Given, Row
<1>2. Given(p, "who") => p.who \in Worker \union {Lead, NoOne}
  BY DEF Payload, Given
<1>3. who \in Worker \union {Lead, NoOne}
  BY <1>2 DEF Row
<1> QED
  BY <1>1, <1>3, RowType DEF LeadWrites

-----------------------------------------------------------------------------
(* Type correctness.  A request that has loaded a task keeps it.            *)

AtTask == \A s \in Session :
    ses[s].pc \in {"loaded", "guarded", "checked", "committed", "logged"} => ses[s].task \in Task

TypeInv == TypeOK /\ AtTask

\* The parts of a request that other definitions read.
LEMMA RequestParts ==
    ASSUME TypeOK, NEW s \in Session
    PROVE  /\ ses[s] \in Request /\ ses[s].pc \in PC /\ ses[s].actor \in Actor
           /\ ses[s].task \in Task \union {Absent}
           /\ ses[s].old \in Row /\ ses[s].new \in Row
           /\ ses[s].cut \subseteq Task /\ ses[s].add \subseteq Task
           /\ ses[s].links \subseteq Task
  BY DEF TypeOK, Request

\* Ending a request keeps the types of locks and requests.
LEMMA ClosedType ==
    ASSUME TypeInv, NEW s \in Session, Closed(s)
    PROVE  /\ lock' \in [Task -> Session \union {Free}]
           /\ ses' \in [Session -> Request] /\ AtTask'
<1>1. lock' \in [Task -> Session \union {Free}]
  BY DEF TypeInv, TypeOK, Closed, Unlocked
<1>2. ses' \in [Session -> Request]
  BY IdleType DEF TypeInv, TypeOK, Closed
<1>3. AtTask'
  <2> SUFFICES ASSUME NEW u \in Session,
                      ses'[u].pc \in {"loaded", "guarded", "checked", "committed", "logged"}
               PROVE  ses'[u].task \in Task
    BY DEF AtTask
  <2>1. u # s
    BY DEF TypeInv, TypeOK, Closed, Idle
  <2> QED
    BY <2>1 DEF TypeInv, TypeOK, Closed, AtTask
<1> QED
  BY <1>1, <1>2, <1>3

\* The initial state is of the right type.
LEMMA InitType == Init => TypeInv
<1> SUFFICES ASSUME Init
             PROVE  TypeInv
  OBVIOUS
<1>1. ses \in [Session -> Request]
  BY IdleType DEF Init
<1>2. AtTask
  BY DEF Init, AtTask, Idle
<1>3. task \in [Task -> Row]
  BY DEF Init, Row, Status
<1> QED
  BY <1>1, <1>2, <1>3 DEF Init, TypeInv, TypeOK

\* The first step of a PATCH.
LEMMA LoadTypes ==
    ASSUME TypeInv, NEW s \in Session, Load(s)
    PROVE  TypeInv'
<1>1. PICK who \in Actor, t \in Live :
         ses' = [ses EXCEPT ![s] = [Idle EXCEPT !.pc = "loaded", !.actor = who, !.task = t,
                                               !.old = task[t], !.new = task[t]]]
  BY DEF Load
<1> DEFINE x == [Idle EXCEPT !.pc = "loaded", !.actor = who, !.task = t,
                            !.old = task[t], !.new = task[t]]
<1>2. t \in Task /\ task[t] \in Row
  BY DEF TypeInv, TypeOK, Live
<1>3. x \in Request /\ x.task \in Task
  BY <1>2, IdleType DEF Request, PC
<1>4. ses' = [ses EXCEPT ![s] = x]
  BY <1>1
<1> HIDE DEF x
<1>5. ses' \in [Session -> Request] /\ AtTask'
  BY <1>3, <1>4 DEF TypeInv, TypeOK, AtTask
<1> QED
  BY <1>5 DEF Load, Arrives, TypeInv, TypeOK, data

\* The step that decides what to write.
LEMMA GuardTypes ==
    ASSUME TypeInv, NEW s \in Session, Guard(s)
    PROVE  TypeInv' /\ ses'[s].pc = "guarded"
<1> DEFINE x == ses[s]
<1>1. /\ x \in Request /\ x.pc = "loaded" /\ x.task \in Task /\ x.old \in Row
      /\ x.actor \in Actor
  BY RequestParts DEF Guard, TypeInv, AtTask
<1>2. PICK p \in Payload :
        /\ \/ x.actor \in Worker /\ WorkerMay(x.actor, x.old, p, x.task)
           \/ x.actor = User /\ UserMay(x.old, p, x.task)
           \/ x.actor = Lead /\ LeadMay(x.old, p, x.task)
        /\ ses' = [ses EXCEPT
              ![s].pc = "guarded",
              ![s].new = IF x.actor = User
                         THEN UserWrites(x.old, p, Unfinished(Effective(x.task, p)))
                         ELSE IF x.actor = Lead THEN LeadWrites(x.old, p, x.task)
                         ELSE WorkerWrites(x.actor, x.old, p),
              ![s].asked = Given(p, "status") /\ p.status # x.old.status,
              ![s].cut = IF Given(p, "deps") THEN deps[x.task] ELSE {},
              ![s].add = IF Given(p, "deps") THEN p.deps ELSE {}]
  BY DEF Guard
<1> DEFINE n == IF x.actor = User
                THEN UserWrites(x.old, p, Unfinished(Effective(x.task, p)))
                ELSE IF x.actor = Lead THEN LeadWrites(x.old, p, x.task)
                ELSE WorkerWrites(x.actor, x.old, p)
           k == Given(p, "status") /\ p.status # x.old.status
           c == IF Given(p, "deps") THEN deps[x.task] ELSE {}
           d == IF Given(p, "deps") THEN p.deps ELSE {}
<1>3. n \in Row
  <2>1. CASE x.actor = User
    <3>1. Unfinished(Effective(x.task, p)) \in BOOLEAN
      BY DEF Unfinished
    <3> QED
      BY <1>1, <2>1, <3>1, UserWritesType
  <2>2. CASE x.actor = Lead
    BY <1>1, <2>2, LeadWritesType, BoardAssumption DEF TypeInv, TypeOK
  <2>3. CASE x.actor \in Worker
    BY <1>1, <2>3, WorkerWritesType, BoardAssumption
  <2> QED
    BY <1>2, <2>1, <2>2, <2>3
<1>4. k \in BOOLEAN
  OBVIOUS
<1>5. c \subseteq Task
  BY <1>1 DEF TypeInv, TypeOK
<1>6. d \subseteq Task
  BY DEF Payload, Given
<1>7. ses' = [ses EXCEPT ![s] = [x EXCEPT !.pc = "guarded", !.new = n, !.asked = k,
                                         !.cut = c, !.add = d]]
  BY <1>2, ZenonT(40) DEF TypeInv, TypeOK
<1> HIDE DEF n, k, c, d
<1> DEFINE y == [x EXCEPT !.pc = "guarded", !.new = n, !.asked = k, !.cut = c, !.add = d]
<1>8. y \in Request /\ y.task \in Task /\ y.pc = "guarded"
  BY <1>1, <1>3, <1>4, <1>5, <1>6 DEF Request, PC
<1> HIDE DEF x, y
<1>9. ses' \in [Session -> Request] /\ AtTask' /\ ses'[s].pc = "guarded"
  BY <1>7, <1>8 DEF TypeInv, TypeOK, AtTask, y
<1> QED
  BY <1>9 DEF Guard, TypeInv, TypeOK, data, bounds

\* The rules hold: only the lock and the request's position change.
LEMMA CheckTypes ==
    ASSUME TypeInv, NEW s \in Session, Check(s)
    PROVE  TypeInv'
<1>1. ses[s] \in Request /\ ses[s].task \in Task
  BY RequestParts DEF Check, TypeInv, AtTask
<1>2. lock' \in [Task -> Session \union {Free}]
  BY <1>1 DEF Check, Flushed, TypeInv, TypeOK
<1>3. ses' = [ses EXCEPT ![s] = [ses[s] EXCEPT !.pc = "checked"]]
  BY DEF Check, TypeInv, TypeOK
<1> DEFINE y == [ses[s] EXCEPT !.pc = "checked"]
<1>4. y \in Request /\ y.task \in Task
  BY <1>1 DEF Request, PC
<1>5. ses' \in [Session -> Request] /\ AtTask'
  BY <1>3, <1>4 DEF TypeInv, TypeOK, AtTask
<1> QED
  BY <1>2, <1>5 DEF Check, TypeInv, TypeOK, data, bounds

\* The first commit of a PATCH.
LEMMA CommitTypes ==
    ASSUME TypeInv, NEW s \in Session, Commit(s)
    PROVE  TypeInv'
<1> DEFINE x == ses[s]
           t == x.task
           row == Merge(task[t], x.old, x.new)
<1>1. t \in Task /\ x \in Request /\ x.old \in Row /\ x.new \in Row /\ x.add \subseteq Task
  BY RequestParts DEF Commit, TypeInv, Live
<1>2. row \in Row
  BY <1>1, MergeType DEF TypeInv, TypeOK
<1>3. task' \in [Task -> Row]
  BY <1>1, <1>2 DEF Commit, TypeInv, TypeOK
<1>4. deps' \in [Task -> SUBSET Task]
  BY <1>1 DEF Commit, TypeInv, TypeOK
<1>5. mover' \in [Task -> Worker \union {NoOne}]
  BY <1>1 DEF Commit, TypeInv, TypeOK
<1>6. lock' \in [Task -> Session \union {Free}]
  BY DEF Commit, Unlocked, TypeInv, TypeOK
<1>7. waived' \subseteq Task
  BY <1>1 DEF Commit, Waiver, TypeInv, TypeOK
<1>8. ASSUME NEW u \in Session
      PROVE  /\ ses'[u] \in Request
             /\ ses'[u].pc # "idle" => ses'[u].task = ses[u].task
             /\ u # s => ses'[u].pc = ses[u].pc
             /\ ses'[s].pc \in {"idle", "committed"}
  <2>1. ses' = Committed(s) /\ ses[u] \in Request
    BY RequestParts DEF Commit, TypeInv
  <2>2. ses'[u] = IF u = s THEN IF ses[s].actor = Lead THEN Idle
                                ELSE [ses[s] EXCEPT !.pc = "committed", !.cut = {}, !.add = {}]
                  ELSE IF ses[u].task = ses[s].task
                       THEN [ses[u] EXCEPT !.cut = @ \ ses[s].cut]
                       ELSE ses[u]
    BY <2>1 DEF Committed
  <2>3. CASE u = s /\ ses[s].actor = Lead
    BY <2>2, <2>3, IdleType DEF Idle
  <2>4. CASE u = s /\ ses[s].actor # Lead
    <3>1. ses'[u] = [ses[u] EXCEPT !.pc = "committed", !.cut = {}, !.add = {}]
      BY <2>2, <2>4
    <3>2. "committed" \in PC /\ {} \in SUBSET Task
      BY DEF PC
    <3>3. ses'[u] \in Request /\ ses'[u].pc = "committed" /\ ses'[u].task = ses[u].task
      BY <2>1, <3>1, <3>2 DEF Request
    <3> QED
      BY <2>4, <3>3
  <2>5. CASE u # s /\ ses[u].task = ses[s].task
    <3>1. ses'[u] = [ses[u] EXCEPT !.cut = ses[u].cut \ ses[s].cut]
      BY <2>1, <2>2, <2>5 DEF Request
    <3>2. ses[u].cut \ ses[s].cut \in SUBSET Task
      BY <2>1 DEF Request
    <3>3. ses'[s].pc \in {"idle", "committed"}
      BY <2>1, <1>1 DEF Committed, Idle, Request
    <3> QED
      BY <2>1, <2>5, <3>1, <3>2, <3>3 DEF Request
  <2>6. CASE u # s /\ ses[u].task # ses[s].task
    <3>1. ses'[s].pc \in {"idle", "committed"}
      BY <2>1, <1>1 DEF Committed, Idle, Request
    <3> QED
      BY <2>1, <2>2, <2>6, <3>1
  <2> QED
    BY <2>3, <2>4, <2>5, <2>6
<1>9. ses' \in [Session -> Request]
  BY <1>8 DEF Commit, Committed
<1>10. AtTask'
  <2> SUFFICES ASSUME NEW u \in Session,
                      ses'[u].pc \in {"loaded", "guarded", "checked", "committed", "logged"}
               PROVE  ses'[u].task \in Task
    BY DEF AtTask
  <2> QED
    BY <1>1, <1>8 DEF TypeInv, AtTask
<1> QED
  BY <1>3, <1>4, <1>5, <1>6, <1>7, <1>9, <1>10 DEF Commit, TypeInv, TypeOK, bounds

\* The task and its dependents are read again.
LEMMA RereadTypes ==
    ASSUME TypeInv, NEW s \in Session, Reread(s)
    PROVE  TypeInv'
<1> DEFINE x == ses[s]
           t == x.task
           reopened == x.old.status = "done" /\ task[t].status # "done"
           D == {d \in Live : reopened /\ t \in deps[d] /\ Returns(task[d])}
           plan == [d \in D |-> task[d]]
<1>1. t \in Task /\ x \in Request /\ D \in SUBSET Task
  BY RequestParts DEF Reread, TypeInv, Live
<1>2. plan \in [D -> Row]
  BY <1>1 DEF TypeInv, TypeOK
<1>3. plan \in UNION {[S -> Row] : S \in SUBSET Task}
  BY <1>1, <1>2
<1>4. ses' = [ses EXCEPT ![s] = [x EXCEPT !.pc = "logged", !.new = task[t], !.plan = plan]]
  BY DEF Reread, TypeInv, TypeOK
<1>5. task[t] \in Row
  BY <1>1 DEF TypeInv, TypeOK
<1> HIDE DEF plan, D
<1> DEFINE y == [x EXCEPT !.pc = "logged", !.new = task[t], !.plan = plan]
<1>6. y \in Request /\ y.task \in Task
  BY <1>1, <1>3, <1>5 DEF Request, PC
<1>7. ses' = [ses EXCEPT ![s] = y]
  BY <1>4
<1> HIDE DEF x, y
<1>8. ses' \in [Session -> Request] /\ AtTask'
  BY <1>6, <1>7 DEF TypeInv, TypeOK, AtTask
<1> QED
  BY <1>8 DEF Reread, TypeInv, TypeOK, data, bounds

\* The second transaction of a PATCH.
LEMMA CommitDependentsTypes ==
    ASSUME TypeInv, NEW s \in Session, CommitDependents(s)
    PROVE  TypeInv'
<1> DEFINE x == ses[s]
           reset == [status |-> "inbox", who |-> NoOne]
<1>1. x \in Request /\ reset \in Row
  BY RequestParts DEF TypeInv, Row, Status
<1>2. PICK S \in SUBSET Task : x.plan \in [S -> Row]
  BY <1>1 DEF Request
<1>3. ASSUME NEW t \in Task
      PROVE  task'[t] \in Row
  <2>1. task[t] \in Row
    BY DEF TypeInv, TypeOK
  <2>2. t \in DOMAIN x.plan => x.plan[t] \in Row
    BY <1>2
  <2>3. task'[t] = IF t \in DOMAIN x.plan THEN Merge(task[t], x.plan[t], reset) ELSE task[t]
    BY DEF CommitDependents
  <2> QED
    BY <1>1, <2>1, <2>2, <2>3, MergeType
<1>4. task' \in [Task -> Row]
  BY <1>3 DEF CommitDependents
<1>5. event' \in [Task -> Worker \union {NoOne}]
  BY DEF CommitDependents, Logs, TypeInv, TypeOK
<1>6. waived' \subseteq Task
  BY DEF CommitDependents, Waiver, TypeInv, TypeOK
<1> QED
  BY <1>4, <1>5, <1>6, ClosedType DEF CommitDependents, TypeInv, TypeOK, bounds

\* A request that is refused or dies changes no row.
LEMMA EndTypes ==
    ASSUME TypeInv, NEW s \in Session, Refuse(s) \/ Crash(s)
    PROVE  TypeInv'
<1>1. lock' \in [Task -> Session \union {Free}] /\ ses' \in [Session -> Request] /\ AtTask'
  BY ClosedType DEF Refuse, Crash
<1> QED
  BY <1>1 DEF Refuse, Crash, TypeInv, TypeOK, data, bounds

\* Creation and deletion of a task.
LEMMA CreateTypes ==
    ASSUME TypeInv, NEW s \in Session, Create(s)
    PROVE  /\ TypeInv' /\ ses'[s].pc = "creating"
           /\ \A u \in Session \ {s} : ses'[u] = ses[u]
<1>1. PICK t \in Task, who \in {User, Lead}, st \in Status,
          owner \in Worker \union {Lead, NoOne}, D \in SUBSET Live :
         /\ task[t].status = "new" /\ \A u \in Session : ses[u].task # t
         /\ Unfinished(D) => owner = NoOne /\ st = "inbox"
         /\ who = Lead => owner # Lead
         /\ ses' = [ses EXCEPT ![s] = Creating(who, t, D, [status |-> st, who |-> owner])]
  BY DEF Create
<1> DEFINE r == [status |-> st, who |-> owner]
           y == Creating(who, t, D, r)
<1>2. r \in Row /\ D \in SUBSET Task /\ who \in Actor
  BY RowType DEF Live, Actor
<1>3. ses' = [ses EXCEPT ![s] = y]
  BY <1>1
<1> HIDE DEF r
<1>4. y \in Request /\ y.pc = "creating"
  BY <1>2, IdleType DEF Creating, Request, PC
<1> HIDE DEF y
<1>5. /\ ses' \in [Session -> Request] /\ AtTask' /\ ses'[s].pc = "creating"
      /\ \A u \in Session \ {s} : ses'[u] = ses[u]
  BY <1>3, <1>4 DEF TypeInv, TypeOK, AtTask
<1> QED
  BY <1>5 DEF Create, Arrives, TypeInv, TypeOK, data

LEMMA CommitCreateTypes ==
    ASSUME TypeInv, NEW s \in Session, CommitCreate(s)
    PROVE  TypeInv'
<1>1. ses[s].new \in Row /\ ses[s].add \in SUBSET Task
  BY RequestParts DEF TypeInv
<1>2. task' \in [Task -> Row] /\ deps' \in [Task -> SUBSET Task]
  BY <1>1 DEF CommitCreate, TypeInv, TypeOK
<1> QED
  BY <1>2, ClosedType DEF CommitCreate, TypeInv, TypeOK, bounds

LEMMA DeleteTypes ==
    ASSUME TypeInv, NEW t \in Task, Delete(t)
    PROVE  TypeInv'
<1>1. [status |-> "gone", who |-> NoOne] \in Row
  BY DEF Row
<1>2. task' \in [Task -> Row]
  BY <1>1 DEF Delete, TypeInv, TypeOK
<1>3. deps' \in [Task -> SUBSET Task]
  BY DEF Delete, TypeInv, TypeOK
<1>4. approval' \in [Approval -> [status: Decision \union {"none", "gone"}, tasks: SUBSET Task]]
  BY DEF Delete, TypeInv, TypeOK
<1>5. /\ event' \in [Task -> Worker \union {NoOne}]
      /\ mover' \in [Task -> Worker \union {NoOne}]
      /\ waived' \subseteq Task
  BY DEF Delete, Waiver, TypeInv, TypeOK
<1> QED
  BY <1>2, <1>3, <1>4, <1>5 DEF Delete, Arrives, TypeInv, TypeOK, AtTask

\* A request that takes the locks of its approval's tasks.
LEMMA LocksType ==
    ASSUME TypeInv, NEW s \in Session, NEW S \in SUBSET Task, LocksTasks(s, S)
    PROVE  lock' \in [Task -> Session \union {Free}]
  BY DEF LocksTasks, TypeInv, TypeOK

\* The handlers of approvals.
LEMMA ApprovalTypes ==
    ASSUME TypeInv, \/ AskResolved
                    \/ \E s \in Session : Approve(s)
    PROVE  TypeInv'
<1>1. CASE AskResolved
  <2>1. PICK a \in Unasked, S \in SUBSET Live, st \in {"approved", "rejected"} :
          approval' = [approval EXCEPT ![a] = [status |-> st, tasks |-> S]]
    BY <1>1 DEF AskResolved
  <2>2. [status |-> st, tasks |-> S] \in
            [status: Decision \union {"none", "gone"}, tasks: SUBSET Task]
    BY DEF Decision, Live
  <2>3. approval' \in [Approval -> [status: Decision \union {"none", "gone"}, tasks: SUBSET Task]]
    BY <2>1, <2>2 DEF TypeInv, TypeOK
  <2> QED
    BY <1>1, <2>3 DEF AskResolved, Arrives, TypeInv, TypeOK, AtTask
<1>2. ASSUME NEW s \in Session, Ask(s)
      PROVE  TypeInv'
  <2>1. PICK a \in Unasked, S \in SUBSET Live :
          /\ LocksTasks(s, S)
          /\ ses' = [ses EXCEPT ![s] = [Idle EXCEPT !.pc = "asking", !.approval = a, !.links = S]]
    BY <1>2 DEF Ask
  <2> DEFINE y == [Idle EXCEPT !.pc = "asking", !.approval = a, !.links = S]
  <2>2. a \in Approval /\ S \in SUBSET Task
    BY DEF Unasked, Live
  <2>3. y \in Request /\ y.pc = "asking"
    BY <2>2, IdleType DEF Request, PC
  <2>4. ses' = [ses EXCEPT ![s] = y]
    BY <2>1
  <2> HIDE DEF y
  <2>5. ses' \in [Session -> Request] /\ AtTask'
    BY <2>3, <2>4 DEF TypeInv, TypeOK, AtTask
  <2>6. lock' \in [Task -> Session \union {Free}]
    BY <2>1, <2>2, LocksType
  <2> QED
    BY <1>2, <2>5, <2>6 DEF Ask, Arrives, TypeInv, TypeOK, data
<1>3. ASSUME NEW s \in Session, LoadApproval(s)
      PROVE  TypeInv'
  <2>1. PICK a \in Asked :
          ses' = [ses EXCEPT ![s] = [Idle EXCEPT !.pc = "deciding", !.approval = a,
                                                !.was = approval[a].status]]
    BY <1>3 DEF LoadApproval
  <2> DEFINE y == [Idle EXCEPT !.pc = "deciding", !.approval = a, !.was = approval[a].status]
  <2>2. a \in Approval /\ approval[a].status \in Decision
    BY DEF Asked
  <2>3. y \in Request /\ y.pc = "deciding"
    BY <2>2, IdleType DEF Request, PC
  <2>4. ses' = [ses EXCEPT ![s] = y]
    BY <2>1
  <2> HIDE DEF y
  <2>5. ses' \in [Session -> Request] /\ AtTask'
    BY <2>3, <2>4 DEF TypeInv, TypeOK, AtTask
  <2> QED
    BY <1>3, <2>5 DEF LoadApproval, Arrives, TypeInv, TypeOK, data
<1>4. ASSUME NEW s \in Session, Decide(s)
      PROVE  TypeInv'
  <2>1. approval' \in [Approval -> [status: Decision \union {"none", "gone"}, tasks: SUBSET Task]]
    <3>1. CASE UNCHANGED approval
      BY <3>1 DEF TypeInv, TypeOK
    <3>2. ASSUME NEW st \in Decision,
                 approval' = [approval EXCEPT ![ses[s].approval].status = st]
          PROVE  approval' \in [Approval ->
                     [status: Decision \union {"none", "gone"}, tasks: SUBSET Task]]
      BY <3>2, ZenonT(40) DEF TypeInv, TypeOK
    <3> QED
      BY <1>4, <3>1, <3>2 DEF Decide
  <2> QED
    BY <1>4, <2>1, ClosedType DEF Decide, TypeInv, TypeOK, bounds
<1>5. ASSUME NEW s \in Session, Reopen(s)
      PROVE  TypeInv'
  <2> DEFINE S == approval[ses[s].approval].tasks
             y == [ses[s] EXCEPT !.pc = "asking", !.links = S]
  <2>1. S \in SUBSET Task
    BY <1>5 DEF Reopen, Asked, TypeInv, TypeOK
  <2>2. y \in Request /\ y.pc = "asking"
    BY <2>1, RequestParts, ZenonT(40) DEF TypeInv, Request, PC
  <2>3. ses' = [ses EXCEPT ![s] = y]
    BY <1>5 DEF Reopen, TypeInv, TypeOK
  <2>4. lock' \in [Task -> Session \union {Free}]
    BY <1>5, <2>1, LocksType DEF Reopen
  <2> HIDE DEF y
  <2>5. ses' \in [Session -> Request] /\ AtTask'
    BY <2>2, <2>3 DEF TypeInv, TypeOK, AtTask
  <2> QED
    BY <1>5, <2>4, <2>5 DEF Reopen, TypeInv, TypeOK, data, bounds
<1>6. ASSUME NEW s \in Session, CommitPending(s)
      PROVE  TypeInv'
  <2> DEFINE r == [status |-> "pending", tasks |-> ses[s].links]
  <2>1. r \in [status: Decision \union {"none", "gone"}, tasks: SUBSET Task]
    BY RequestParts DEF TypeInv, Decision
  <2>2. approval' \in [Approval -> [status: Decision \union {"none", "gone"}, tasks: SUBSET Task]]
    BY <1>6, <2>1 DEF CommitPending, TypeInv, TypeOK
  <2> QED
    BY <1>6, <2>2, ClosedType DEF CommitPending, TypeInv, TypeOK, bounds
<1> QED
  BY <1>1, <1>2, <1>3, <1>4, <1>5, <1>6 DEF Approve

\* No step leaves the types.
LEMMA TypeStep ==
    ASSUME TypeInv, [Next]_vars
    PROVE  TypeInv'
<1>1. CASE UNCHANGED vars
  BY <1>1 DEF vars, TypeInv, TypeOK, AtTask
<1>2. ASSUME NEW s \in Session, Patch(s)
      PROVE  TypeInv'
  BY <1>2, LoadTypes, GuardTypes, CheckTypes, EndTypes, CommitTypes, RereadTypes,
     CommitDependentsTypes DEF Patch
<1>3. ASSUME NEW s \in Session, Create(s) \/ CommitCreate(s) \/ Crash(s)
      PROVE  TypeInv'
  BY <1>3, CreateTypes, CommitCreateTypes, EndTypes
<1>4. ASSUME NEW t \in Task, Delete(t)
      PROVE  TypeInv'
  BY <1>4, DeleteTypes
<1> QED
  BY <1>1, <1>2, <1>3, <1>4, ApprovalTypes DEF Next

\* Every row, edge, approval, lock and request stays of its type, and a PATCH
\* keeps the task it loaded.
THEOREM BoardTypes == Spec => []TypeInv
  BY InitType, TypeStep, PTL DEF Spec

\* The type invariant the runs check.
THEOREM BoardTypeCorrect == Spec => []TypeOK
<1>1. TypeInv => TypeOK
  BY DEF TypeInv
<1> QED
  BY <1>1, BoardTypes, PTL

-----------------------------------------------------------------------------
(* Pending approvals.                                                       *)

PendingNow == {a \in Approval : approval[a].status = "pending"}

\* A request about to commit a pending approval has the locks of its tasks,
\* none of which another approval waits for.
AskHold(s) ==
    ses[s].pc = "asking" =>
        /\ ses[s].approval \in Approval
        /\ \A t \in ses[s].links : t \in Task /\ lock[t] = s
        /\ \A b \in PendingNow \ {ses[s].approval} :
              approval[b].tasks \intersect ses[s].links = {}

\* A PATCH that is about to commit a requested status change, on a board where
\* a pending approval forbids it, has the lock of its task, and none is pending.
CheckHold(s) ==
    /\ ses[s].pc = "checked" /\ ses[s].asked /\ "pending" \in rules
    /\ ses[s].new.status # ses[s].old.status
    => lock[ses[s].task] = s /\ ~Pending(ses[s].task)

PendingInv ==
    /\ \A s \in Session : AskHold(s) /\ CheckHold(s)
    /\ OnePending

\* What a step may do to the other requests and to the approvals so that the
\* invariant survives: locks are taken from nobody, requests that hold locks
\* stay as they are, and no approval becomes pending or gets a pending task.
Quiet(S) ==
    /\ \A t \in Task : lock[t] \in S => lock'[t] = lock[t]
    /\ \A s \in S : /\ ses'[s].pc = ses[s].pc /\ ses'[s].approval = ses[s].approval
                    /\ ses'[s].links = ses[s].links /\ ses'[s].asked = ses[s].asked
                    /\ ses'[s].old = ses[s].old /\ ses'[s].new = ses[s].new
                    /\ ses'[s].task = ses[s].task
    /\ rules' = rules

Settled ==
    \A a \in Approval : approval'[a].status = "pending" =>
        approval[a].status = "pending" /\ approval'[a].tasks \subseteq approval[a].tasks

\* Such a step keeps the invariant for the requests in S.
LEMMA QuietOthers ==
    ASSUME TypeInv, PendingInv, NEW S \in SUBSET Session, Quiet(S), Settled
    PROVE  OnePending' /\ \A s \in S : AskHold(s)' /\ CheckHold(s)'
<1>1. ASSUME NEW s \in S, ses'[s].pc = "asking"
      PROVE  /\ ses'[s].approval \in Approval
             /\ \A t \in ses'[s].links : t \in Task /\ lock'[t] = s
             /\ \A b \in PendingNow' \ {ses'[s].approval} :
                   approval'[b].tasks \intersect ses'[s].links = {}
  <2>1. /\ ses[s].pc = "asking" /\ ses'[s].approval = ses[s].approval
        /\ ses'[s].links = ses[s].links
    BY <1>1 DEF Quiet
  <2>2. /\ ses[s].approval \in Approval
        /\ \A t \in ses[s].links : t \in Task /\ lock[t] = s
        /\ \A b \in PendingNow \ {ses[s].approval} :
              approval[b].tasks \intersect ses[s].links = {}
    BY <2>1 DEF PendingInv, AskHold
  <2>3. \A b \in PendingNow' : b \in PendingNow /\ approval'[b].tasks \subseteq approval[b].tasks
    BY DEF PendingNow, Settled
  <2> QED
    BY <2>1, <2>2, <2>3 DEF Quiet
<1>2. ASSUME NEW s \in S, ses'[s].pc = "checked", ses'[s].asked,
             "pending" \in rules', ses'[s].new.status # ses'[s].old.status
      PROVE  lock'[ses'[s].task] = s /\ ~Pending(ses[s].task)' /\ ses'[s].task = ses[s].task
  <2>1. lock[ses[s].task] = s /\ ~Pending(ses[s].task) /\ ses'[s].task = ses[s].task
    BY <1>2 DEF Quiet, PendingInv, CheckHold
  <2>2. ses[s].task \in Task
    BY <1>2 DEF Quiet, TypeInv, AtTask
  <2>3. ~Pending(ses[s].task)'
    BY <2>1 DEF Pending, Asked, Decision, Settled, Quiet
  <2> QED
    BY <2>1, <2>2, <2>3 DEF Quiet
<1>3. OnePending'
  BY DEF PendingInv, OnePending, Asked, Decision, Settled
<1>4. \A s \in S : AskHold(s)'
  BY <1>1 DEF AskHold
<1>5. \A s \in S : CheckHold(s)'
  BY <1>2 DEF CheckHold, Pending
<1> QED
  BY <1>3, <1>4, <1>5

\* A step of one request that makes nothing pending, and ends neither asking
\* nor checked, keeps the invariant.
LEMMA QuietStep ==
    ASSUME TypeInv, PendingInv, NEW S \in SUBSET Session, Quiet(S), Settled,
           \A s \in Session \ S : ses'[s].pc \notin {"asking", "checked"}
    PROVE  PendingInv'
<1>1. OnePending' /\ \A s \in S : AskHold(s)' /\ CheckHold(s)'
  BY QuietOthers
<1>2. \A s \in Session \ S : AskHold(s)' /\ CheckHold(s)'
  BY DEF AskHold, CheckHold
<1> QED
  BY <1>1, <1>2 DEF PendingInv

\* Ending a request leaves the others alone.
LEMMA ClosedQuiet ==
    ASSUME TypeInv, NEW s \in Session, Closed(s), UNCHANGED rules
    PROVE  Quiet(Session \ {s}) /\ ses'[s].pc = "idle"
<1>1. \A u \in Session \ {s} : ses'[u] = ses[u]
  BY DEF Closed, TypeInv, TypeOK
<1>2. \A t \in Task : lock[t] # s => lock'[t] = lock[t]
  BY DEF Closed, Unlocked, TypeInv, TypeOK
<1>3. ses'[s] = Idle
  BY DEF Closed, TypeInv, TypeOK
<1> QED
  BY <1>1, <1>2, <1>3 DEF Quiet, Idle

\* So does a request that changes only itself.
LEMMA OwnQuiet ==
    ASSUME TypeInv, NEW s \in Session, UNCHANGED <<rules, lock>>, NEW y, ses' = [ses EXCEPT ![s] = y]
    PROVE  Quiet(Session \ {s}) /\ ses'[s] = y
  BY DEF Quiet, TypeInv, TypeOK

\* The steps of a PATCH up to its check, its refusal and its end.
LEMMA PatchPending ==
    ASSUME TypeInv, PendingInv, NEW s \in Session,
           \/ Load(s) \/ Guard(s) \/ Refuse(s) \/ Crash(s) \/ Reread(s) \/ CommitDependents(s)
    PROVE  PendingInv'
<1>1. UNCHANGED <<rules, approval>>
  BY DEF Load, Guard, Refuse, Crash, Reread, CommitDependents, data
<1>2. Settled
  BY <1>1 DEF Settled
<1>3. Quiet(Session \ {s}) /\ ses'[s].pc \notin {"asking", "checked"}
  <2>1. CASE Load(s)
    <3>1. PICK who \in Actor, t \in Live :
            ses' = [ses EXCEPT ![s] = [Idle EXCEPT !.pc = "loaded", !.actor = who, !.task = t,
                                                  !.old = task[t], !.new = task[t]]]
      BY <2>1 DEF Load
    <3> DEFINE y == [Idle EXCEPT !.pc = "loaded", !.actor = who, !.task = t,
                                !.old = task[t], !.new = task[t]]
    <3>2. y.pc = "loaded"
      BY IdleType DEF Request
    <3>3. ses' = [ses EXCEPT ![s] = y]
      BY <3>1
    <3> HIDE DEF y
    <3> QED
      BY <2>1, <1>1, <3>2, <3>3, OwnQuiet DEF Load
  <2>2. CASE Guard(s)
    <3>1. ses'[s].pc = "guarded"
      BY <2>2, GuardTypes
    <3>2. \A u \in Session \ {s} : ses'[u] = ses[u]
      BY <2>2 DEF Guard, TypeInv, TypeOK
    <3> QED
      BY <2>2, <1>1, <3>1, <3>2 DEF Guard, Quiet
  <2>3. CASE Reread(s)
    <3>1. ses[s] \in Request
      BY RequestParts DEF TypeInv
    <3>2. \A u \in Session \ {s} : ses'[u] = ses[u]
      BY <2>3 DEF Reread, TypeInv, TypeOK
    <3>3. ses'[s].pc = "logged"
      BY <2>3, <3>1 DEF Reread, TypeInv, TypeOK, Request
    <3> QED
      BY <2>3, <1>1, <3>2, <3>3 DEF Reread, Quiet
  <2>4. CASE Refuse(s) \/ Crash(s) \/ CommitDependents(s)
    BY <2>4, <1>1, ClosedQuiet DEF Refuse, Crash, CommitDependents
  <2> QED
    BY <2>1, <2>2, <2>3, <2>4
<1> QED
  BY <1>2, <1>3, QuietStep

\* The commit of a PATCH: of the other requests it changes only the edges they
\* would delete.
LEMMA CommitPending1 ==
    ASSUME TypeInv, PendingInv, NEW s \in Session, Commit(s)
    PROVE  PendingInv'
<1>1. Settled
  BY DEF Commit, Settled
<1>2. ASSUME NEW u \in Session \ {s}
      PROVE  /\ ses'[u].pc = ses[u].pc /\ ses'[u].approval = ses[u].approval
             /\ ses'[u].links = ses[u].links /\ ses'[u].asked = ses[u].asked
             /\ ses'[u].old = ses[u].old /\ ses'[u].new = ses[u].new
             /\ ses'[u].task = ses[u].task
  <2>1. ses[u] \in Request
    BY RequestParts DEF TypeInv
  <2>2. \/ ses'[u] = ses[u]
        \/ \E c : ses'[u] = [ses[u] EXCEPT !.cut = c]
    BY DEF Commit, Committed
  <2> QED
    BY <2>1, <2>2 DEF Request
<1>3. \A t \in Task : lock[t] # s => lock'[t] = lock[t]
  BY DEF Commit, Unlocked, TypeInv, TypeOK
<1>4. Quiet(Session \ {s})
  BY <1>2, <1>3 DEF Quiet, Commit
<1>5. ses'[s].pc \in {"idle", "committed"}
  <2>1. ses[s] \in Request
    BY RequestParts DEF TypeInv
  <2> QED
    BY <2>1 DEF Commit, Committed, Idle, Request
<1> QED
  BY <1>1, <1>4, <1>5, QuietStep

\* Creation, deletion and decisions make nothing pending.
LEMMA OtherPending ==
    ASSUME TypeInv, PendingInv,
           \/ \E s \in Session : Create(s) \/ CommitCreate(s) \/ LoadApproval(s) \/ Decide(s)
           \/ \E t \in Task : Delete(t)
           \/ AskResolved
    PROVE  PendingInv'
<1>1. ASSUME NEW s \in Session, Create(s)
      PROVE  PendingInv'
  <2>1. ses'[s].pc = "creating" /\ \A u \in Session \ {s} : ses'[u] = ses[u]
    BY <1>1, CreateTypes
  <2>2. UNCHANGED <<rules, lock, approval>>
    BY <1>1 DEF Create, data
  <2>3. Quiet(Session \ {s}) /\ Settled
    BY <2>1, <2>2 DEF Quiet, Settled
  <2> QED
    BY <2>1, <2>3, QuietStep
<1>2. ASSUME NEW s \in Session, CommitCreate(s)
      PROVE  PendingInv'
  BY <1>2, ClosedQuiet, QuietStep DEF CommitCreate, Settled
<1>3. ASSUME NEW s \in Session, LoadApproval(s)
      PROVE  PendingInv'
  <2>1. PICK y : ses' = [ses EXCEPT ![s] = y] /\ y.pc = "deciding"
    <3>1. PICK a \in Asked :
            ses' = [ses EXCEPT ![s] = [Idle EXCEPT !.pc = "deciding", !.approval = a,
                                                  !.was = approval[a].status]]
      BY <1>3 DEF LoadApproval
    <3>2. [Idle EXCEPT !.pc = "deciding", !.approval = a, !.was = approval[a].status].pc
              = "deciding"
      BY IdleType DEF Request
    <3> QED
      BY <3>1, <3>2
  <2>2. UNCHANGED <<rules, lock, approval>>
    BY <1>3 DEF LoadApproval, data
  <2> QED
    BY <2>1, <2>2, OwnQuiet, QuietStep DEF Settled
<1>4. ASSUME NEW s \in Session, Decide(s)
      PROVE  PendingInv'
  <2>1. Settled
    <3>1. CASE UNCHANGED approval
      BY <3>1 DEF Settled
    <3>2. ASSUME NEW st \in Decision, st # "pending",
                 approval' = [approval EXCEPT ![ses[s].approval].status = st]
          PROVE  Settled
      BY <3>2 DEF Settled, TypeInv, TypeOK
    <3> QED
      BY <1>4, <3>1, <3>2 DEF Decide, Writes
  <2> QED
    BY <1>4, <2>1, ClosedQuiet, QuietStep DEF Decide
<1>5. ASSUME NEW t \in Task, Delete(t)
      PROVE  PendingInv'
  <2>1. Settled
    BY <1>5 DEF Delete, Settled, TypeInv, TypeOK
  <2>2. Quiet(Session)
    BY <1>5 DEF Delete, Quiet
  <2> QED
    BY <2>1, <2>2, QuietStep
<1>6. CASE AskResolved
  <2>1. Settled
    BY <1>6 DEF AskResolved, Settled, TypeInv, TypeOK
  <2>2. Quiet(Session)
    BY <1>6 DEF AskResolved, Quiet
  <2> QED
    BY <2>1, <2>2, QuietStep
<1> QED
  BY <1>1, <1>2, <1>3, <1>4, <1>5, <1>6

\* A PATCH that passes the check has locked its row if it changes it.
LEMMA CheckPending ==
    ASSUME TypeInv, PendingInv, NEW s \in Session, Check(s)
    PROVE  PendingInv'
<1> DEFINE t == ses[s].task
<1>1. ses[s] \in Request /\ t \in Task
  BY RequestParts DEF Check, TypeInv, AtTask
<1>2. \A u \in Session \ {s} : ses'[u] = ses[u]
  BY DEF Check, TypeInv, TypeOK
<1>3. ses'[s] = [ses[s] EXCEPT !.pc = "checked"]
  BY DEF Check, TypeInv, TypeOK
<1>4. /\ ses'[s].pc = "checked" /\ ses'[s].asked = ses[s].asked /\ ses'[s].task = t
      /\ ses'[s].new = ses[s].new /\ ses'[s].old = ses[s].old
  BY <1>1, <1>3 DEF Request
<1>5. UNCHANGED <<rules, approval>>
  BY DEF Check, data
<1>6. Quiet(Session \ {s})
  <2>1. \A v \in Task : lock[v] \in Session => lock'[v] = lock[v]
    BY BoardAssumption DEF Check, Flushed, TypeInv, TypeOK
  <2> QED
    BY <1>2, <1>5, <2>1 DEF Quiet
<1>7. AskHold(s)'
  BY <1>4 DEF AskHold
<1>8. ASSUME ses[s].asked, "pending" \in rules, ses[s].new.status # ses[s].old.status
      PROVE  lock'[t] = s /\ ~Pending(t) /\ \A a \in Approval : approval'[a] = approval[a]
  <2>1. lock'[t] = s
    BY <1>1, <1>8 DEF Check, Flushed, TypeInv, TypeOK
  <2>2. ~Pending(t)
    BY <1>8 DEF Check, PendingAllows
  <2> QED
    BY <1>5, <2>1, <2>2
<1>9. CheckHold(s)'
  <2>1. ASSUME ses'[s].asked, "pending" \in rules', ses'[s].new.status # ses'[s].old.status
        PROVE  lock'[ses'[s].task] = s /\ ~(\E a \in Asked' :
                  approval'[a].status = "pending" /\ ses'[s].task \in approval'[a].tasks)
    <3>1. ses'[s].task = t /\ lock'[t] = s /\ ~Pending(t)
      BY <2>1, <1>4, <1>5, <1>8
    <3> HIDE DEF t
    <3> QED
      BY <3>1, <1>5 DEF Pending, Asked
  <2> QED
    BY <2>1 DEF CheckHold, Pending
<1> QED
  BY <1>5, <1>6, <1>7, <1>9, QuietOthers DEF PendingInv, Settled

\* A request that asks for an approval has locked the tasks and found no other.
LEMMA AskPending ==
    ASSUME TypeInv, PendingInv, NEW s \in Session, Ask(s) \/ Reopen(s)
    PROVE  PendingInv'
<1>1. PICK a \in Approval, S \in SUBSET Task :
        /\ LocksTasks(s, S) /\ ~Conflicts(a, S)
        /\ ses'[s].pc = "asking" /\ ses'[s].approval = a /\ ses'[s].links = S
        /\ \A u \in Session \ {s} : ses'[u] = ses[u]
        /\ UNCHANGED <<rules, approval>>
  <2>1. CASE Ask(s)
    <3>1. PICK a \in Unasked, S \in SUBSET Live :
            /\ LocksTasks(s, S) /\ ~Conflicts(a, S)
            /\ ses' = [ses EXCEPT ![s] = [Idle EXCEPT !.pc = "asking", !.approval = a,
                                                      !.links = S]]
      BY <2>1 DEF Ask
    <3> DEFINE y == [Idle EXCEPT !.pc = "asking", !.approval = a, !.links = S]
    <3>2. y.pc = "asking" /\ y.approval = a /\ y.links = S
      BY IdleType DEF Request
    <3>3. ses' = [ses EXCEPT ![s] = y]
      BY <3>1
    <3> HIDE DEF y
    <3>4. ses'[s] = y /\ \A u \in Session \ {s} : ses'[u] = ses[u]
      BY <3>3 DEF TypeInv, TypeOK
    <3>5. a \in Approval /\ S \in SUBSET Task /\ UNCHANGED <<rules, approval>>
      BY <2>1 DEF Ask, data, Unasked, Live
    <3> QED
      BY <3>1, <3>2, <3>4, <3>5
  <2>2. CASE Reopen(s)
    <3> DEFINE a == ses[s].approval
               S == approval[a].tasks
    <3>1. a \in Approval /\ S \in SUBSET Task /\ UNCHANGED <<rules, approval>>
      BY <2>2 DEF Reopen, data, Asked, TypeInv, TypeOK
    <3>2. ses' = [ses EXCEPT ![s] = [ses[s] EXCEPT !.pc = "asking", !.links = S]]
      BY <2>2 DEF Reopen, TypeInv, TypeOK
    <3> HIDE DEF S
    <3>3. /\ ses'[s] = [ses[s] EXCEPT !.pc = "asking", !.links = S]
          /\ \A u \in Session \ {s} : ses'[u] = ses[u]
      BY <3>2 DEF TypeInv, TypeOK
    <3>4. ses'[s].pc = "asking" /\ ses'[s].approval = a /\ ses'[s].links = S
      BY <3>3, RequestParts DEF TypeInv, Request
    <3>5. LocksTasks(s, S) /\ ~Conflicts(a, S)
      BY <2>2 DEF Reopen, S
    <3> QED
      BY <3>1, <3>3, <3>4, <3>5
  <2> QED
    BY <2>1, <2>2
<1>2. /\ \A t \in S : lock'[t] = s
      /\ \A t \in Task : lock[t] \in Session => lock'[t] = lock[t]
  BY <1>1, BoardAssumption DEF LocksTasks
<1>3. Quiet(Session \ {s}) /\ Settled
  BY <1>1, <1>2 DEF Quiet, Settled
<1>4. AskHold(s)'
  <2>1. \A b \in PendingNow' \ {a} : approval'[b].tasks \intersect S = {}
    BY <1>1 DEF PendingNow, Conflicts, Asked, Decision
  <2> QED
    BY <1>1, <1>2, <2>1 DEF AskHold
<1>5. CheckHold(s)'
  BY <1>1 DEF CheckHold
<1> QED
  BY <1>3, <1>4, <1>5, QuietOthers DEF PendingInv

\* Its commit makes the approval pending: its tasks were locked, so that no
\* request with a lock of its own has one of them, and no other approval waits
\* for one.
LEMMA CommitPendingStep ==
    ASSUME TypeInv, PendingInv, NEW s \in Session, CommitPending(s)
    PROVE  PendingInv'
<1> DEFINE a == ses[s].approval
           S == ses[s].links
<1>1. /\ a \in Approval /\ S \subseteq Task /\ \A t \in S : lock[t] = s
      /\ \A b \in PendingNow \ {a} : approval[b].tasks \intersect S = {}
  BY RequestParts DEF CommitPending, PendingInv, AskHold, TypeInv
<1>2. /\ approval'[a].status = "pending" /\ approval'[a].tasks = S
      /\ \A b \in Approval \ {a} : approval'[b] = approval[b]
  BY <1>1 DEF CommitPending, TypeInv, TypeOK
<1>3. Quiet(Session \ {s}) /\ ses'[s].pc = "idle" /\ UNCHANGED rules
  BY ClosedQuiet DEF CommitPending
<1> HIDE DEF a, S
<1>4. \A b \in PendingNow' \ {a} : b \in PendingNow /\ approval'[b] = approval[b]
  BY <1>2 DEF PendingNow
<1>5. OnePending'
  <2> SUFFICES ASSUME NEW b \in PendingNow', NEW c \in PendingNow', b # c
               PROVE  approval'[b].tasks \intersect approval'[c].tasks = {}
    BY DEF OnePending, PendingNow, Asked
  <2>1. CASE b = a \/ c = a
    BY <2>1, <1>1, <1>2, <1>4
  <2>2. CASE b # a /\ c # a
    BY <2>2, <1>4 DEF PendingInv, OnePending, PendingNow, Asked, Decision
  <2> QED
    BY <2>1, <2>2
<1>6. ASSUME NEW u \in Session \ {s}, ses'[u].pc = "asking"
      PROVE  /\ ses'[u].approval \in Approval
             /\ \A t \in ses'[u].links : t \in Task /\ lock'[t] = u
             /\ \A b \in PendingNow' \ {ses'[u].approval} :
                   approval'[b].tasks \intersect ses'[u].links = {}
  <2>1. /\ ses[u].pc = "asking" /\ ses'[u].approval = ses[u].approval
        /\ ses'[u].links = ses[u].links
    BY <1>3, <1>6 DEF Quiet
  <2>2. /\ ses[u].approval \in Approval
        /\ \A t \in ses[u].links : t \in Task /\ lock[t] = u
        /\ \A b \in PendingNow \ {ses[u].approval} :
              approval[b].tasks \intersect ses[u].links = {}
    BY <2>1 DEF PendingInv, AskHold
  <2>3. \A t \in ses[u].links : lock'[t] = u
    BY <1>3, <2>2 DEF Quiet
  <2>4. S \intersect ses[u].links = {}
    BY <1>1, <2>2
  <2> QED
    BY <1>2, <1>4, <2>1, <2>2, <2>3, <2>4
<1>7. ASSUME NEW u \in Session \ {s}, ses'[u].pc = "checked", ses'[u].asked,
             "pending" \in rules', ses'[u].new.status # ses'[u].old.status
      PROVE  lock'[ses'[u].task] = u /\ ~Pending(ses[u].task)' /\ ses'[u].task = ses[u].task
  <2>1. lock[ses[u].task] = u /\ ~Pending(ses[u].task) /\ ses'[u].task = ses[u].task
    BY <1>3, <1>7 DEF Quiet, PendingInv, CheckHold
  <2>2. ses[u].task \in Task /\ ses[u].task \notin S
    BY <1>1, <1>3, <1>7, <2>1 DEF Quiet, TypeInv, AtTask
  <2>3. \A b \in PendingNow' : ses[u].task \notin approval'[b].tasks
    BY <1>2, <1>4, <2>1, <2>2 DEF Pending, PendingNow, Asked, Decision
  <2>4. ~Pending(ses[u].task)'
    BY <2>1, <2>3 DEF Pending, PendingNow, Asked
  <2> QED
    BY <1>3, <2>1, <2>2, <2>4 DEF Quiet
<1>8. \A u \in Session \ {s} : AskHold(u)'
  BY <1>6 DEF AskHold
<1>9. \A u \in Session \ {s} : CheckHold(u)'
  BY <1>7 DEF CheckHold, Pending
<1>10. AskHold(s)' /\ CheckHold(s)'
  BY <1>3 DEF AskHold, CheckHold
<1> QED
  BY <1>5, <1>8, <1>9, <1>10 DEF PendingInv

\* At first nothing is asked and nothing pending.
LEMMA InitPending == Init => PendingInv
  BY DEF Init, Idle, PendingInv, AskHold, CheckHold, OnePending, Asked, Decision

\* Every step keeps the invariant.
LEMMA PendingStep ==
    ASSUME TypeInv, PendingInv, [Next]_vars
    PROVE  PendingInv'
<1>1. CASE UNCHANGED vars
  BY <1>1, QuietStep DEF vars, Quiet, Settled
<1>2. ASSUME NEW s \in Session, Patch(s) \/ Crash(s)
      PROVE  PendingInv'
  BY <1>2, PatchPending, CheckPending, CommitPending1 DEF Patch
<1>3. ASSUME NEW s \in Session, Create(s) \/ CommitCreate(s)
      PROVE  PendingInv'
  BY <1>3, OtherPending
<1>4. ASSUME NEW s \in Session, Approve(s)
      PROVE  PendingInv'
  BY <1>4, OtherPending, AskPending, CommitPendingStep DEF Approve
<1>5. ASSUME NEW t \in Task, Delete(t)
      PROVE  PendingInv'
  BY <1>5, OtherPending
<1>6. CASE AskResolved
  BY <1>6, OtherPending
<1> QED
  BY <1>1, <1>2, <1>3, <1>4, <1>5, <1>6 DEF Next

\* The locks and the conflict check hold together in every reachable state.
LEMMA PendingCorrect == Spec => [](TypeInv /\ PendingInv)
<1>1. Init => TypeInv /\ PendingInv
  BY InitType, InitPending
<1>2. TypeInv /\ PendingInv /\ [Next]_vars => TypeInv' /\ PendingInv'
  BY TypeStep, PendingStep
<1> QED
  BY <1>1, <1>2, PTL DEF Spec

\* No task has two pending approvals, however many requests create, resolve and
\* reopen approvals at once.
THEOREM OnePendingApproval == Spec => []OnePending
<1>1. PendingInv => OnePending
  BY DEF PendingInv
<1> QED
  BY <1>1, PendingCorrect, PTL

-----------------------------------------------------------------------------
(* A pending approval holds up status changes.                              *)

\* The step PendingBlocks speaks of.
Unpended(s) ==
    LET t == ses[s].task IN
    /\ ses[s].pc = "checked" /\ ses'[s].pc \in {"committed", "idle"}
    /\ ses[s].asked /\ "pending" \in rules /\ t \in Live
    /\ task'[t].status # task[t].status
    => ~Pending(t)

\* The steps that leave the request alone, or the tasks, or that are no step
\* from its check.
LEMMA StepUnpended ==
    ASSUME TypeInv, PendingInv, [Next]_vars, NEW s \in Session
    PROVE  Unpended(s)
<1> SUFFICES ASSUME ses[s].pc = "checked", ses'[s].pc \in {"committed", "idle"},
                    ses[s].asked, "pending" \in rules,
                    task'[ses[s].task].status # task[ses[s].task].status
             PROVE  ~Pending(ses[s].task)
  BY DEF Unpended
<1>1. ~UNCHANGED task /\ ~UNCHANGED ses
  OBVIOUS
<1>2. \E u \in Session : Commit(u) \/ CommitDependents(u) \/ CommitCreate(u)
  <2>1. ASSUME NEW u \in Session, Patch(u)
        PROVE  Commit(u) \/ CommitDependents(u)
    BY <1>1, <2>1 DEF Patch, Load, Guard, Check, Refuse, Reread, data
  <2>2. ~(\E u \in Session : Create(u) \/ Approve(u) \/ Crash(u))
    BY <1>1 DEF Create, Approve, Ask, LoadApproval, Decide, Reopen, CommitPending, Crash, data
  <2>3. ~(AskResolved \/ \E t \in Task : Delete(t))
    BY <1>1 DEF AskResolved, Delete
  <2>4. Next
    BY <1>1 DEF vars
  <2> QED
    BY <2>1, <2>2, <2>3, <2>4 DEF Next
<1> PICK u \in Session : Commit(u) \/ CommitDependents(u) \/ CommitCreate(u)
  BY <1>2
<1>3. CASE u # s
  <2>1. ses'[s].pc = ses[s].pc
    <3>1. CASE Commit(u)
      <4>1. \/ ses'[s] = ses[s]
            \/ \E c : ses'[s] = [ses[s] EXCEPT !.cut = c]
        BY <1>3, <3>1 DEF Commit, Committed
      <4> QED
        BY <4>1, RequestParts DEF TypeInv, Request
    <3>2. CASE CommitDependents(u) \/ CommitCreate(u)
      BY <1>3, <3>2 DEF CommitDependents, CommitCreate, Closed, TypeInv, TypeOK
    <3> QED
      BY <3>1, <3>2
  <2> QED
    BY <2>1
<1>4. CASE u = s
  <2>1. Commit(s)
    BY <1>4 DEF CommitDependents, CommitCreate
  <2>2. task'[ses[s].task] = Merge(task[ses[s].task], ses[s].old, ses[s].new)
    BY <2>1 DEF Commit, TypeInv, TypeOK, Live
  <2>3. ses[s].new.status # ses[s].old.status
    BY <2>2 DEF Merge
  <2> QED
    BY <2>3 DEF PendingInv, CheckHold
<1> QED
  BY <1>3, <1>4

\* No status change that a request asked for is committed while an approval of
\* the task is pending, however requests interleave.
THEOREM PendingApprovalBlocks == Spec => PendingBlocks
<1>1. TypeInv /\ PendingInv /\ [Next]_vars =>
         [\A s \in Session :
             LET t == ses[s].task IN
             /\ ses[s].pc = "checked" /\ ses'[s].pc \in {"committed", "idle"}
             /\ ses[s].asked /\ "pending" \in rules /\ t \in Live
             /\ task'[t].status # task[t].status
             => ~Pending(t)]_vars
  BY StepUnpended DEF Unpended
<1> QED
  BY <1>1, PendingCorrect, PTL DEF Spec, PendingBlocks

-----------------------------------------------------------------------------
(* Requests that keep out of each other's way.  The remaining properties      *)
(* break when requests on one task interleave; they hold as long as no two    *)
(* open requests are about the same task, however many are open.              *)

\* The tasks a request works on: its own, the dependents it is about to reset,
\* and those of the approval it decides or makes pending.
Touches(s) ==
    ({ses[s].task} \intersect Task) \union DOMAIN ses[s].plan \union ses[s].links
    \union UNION {approval[a].tasks : a \in {ses[s].approval} \intersect Approval}

Apart == \A s, u \in Session : s # u => Touches(s) \intersect Touches(u) = {}

\* What a request does to the others, at most.
RequestStep(u) == Patch(u) \/ Create(u) \/ CommitCreate(u) \/ Approve(u) \/ Crash(u)

Kept(s) ==
    /\ ses'[s].pc = ses[s].pc /\ ses'[s].actor = ses[s].actor /\ ses'[s].task = ses[s].task
    /\ ses'[s].old = ses[s].old /\ ses'[s].new = ses[s].new /\ ses'[s].add = ses[s].add
    /\ ses'[s].plan = ses[s].plan

\* One request leaves the others as they are, but for the edges a commit on
\* the same task took from them.
LEMMA OthersKept ==
    ASSUME TypeInv, NEW u \in Session, NEW s \in Session \ {u}, RequestStep(u)
    PROVE  Kept(s) /\ (ses[s].task # ses[u].task => ses'[s].cut = ses[s].cut)
<1>1. ses[s] \in Request
  BY RequestParts DEF TypeInv
<1>2. CASE Commit(u)
  <2>1. ses'[s] = IF ses[s].task = ses[u].task
                  THEN [ses[s] EXCEPT !.cut = ses[s].cut \ ses[u].cut] ELSE ses[s]
    BY <1>1, <1>2 DEF Commit, Committed
  <2>2. CASE ses[s].task = ses[u].task
    <3>1. ses'[s] = [ses[s] EXCEPT !.cut = ses[s].cut \ ses[u].cut]
      BY <2>1, <2>2
    <3> QED
      BY <1>1, <2>2, <3>1 DEF Request, Kept
  <2>3. CASE ses[s].task # ses[u].task
    BY <2>1, <2>3 DEF Kept
  <2> QED
    BY <2>2, <2>3
<1>3. CASE ~Commit(u)
  <2>1. ses'[s] = ses[s]
    <3>1. CASE Patch(u) /\ ~Commit(u)
      <4>1. CASE Load(u)
        BY <4>1 DEF Load, TypeInv, TypeOK
      <4>2. CASE Guard(u)
        BY <4>2 DEF Guard, TypeInv, TypeOK
      <4>3. CASE Check(u) \/ Reread(u)
        BY <4>3 DEF Check, Reread, TypeInv, TypeOK
      <4>4. CASE Refuse(u) \/ CommitDependents(u)
        BY <4>4 DEF Refuse, CommitDependents, Closed, TypeInv, TypeOK
      <4> QED
        BY <3>1, <4>1, <4>2, <4>3, <4>4 DEF Patch
    <3>2. CASE Create(u)
      BY <3>2 DEF Create, TypeInv, TypeOK
    <3>3. CASE CommitCreate(u) \/ Crash(u)
      BY <3>3 DEF CommitCreate, Crash, Closed, TypeInv, TypeOK
    <3>4. CASE Approve(u)
      <4>1. CASE Ask(u)
        BY <4>1 DEF Ask, TypeInv, TypeOK
      <4>2. CASE LoadApproval(u) \/ Reopen(u)
        BY <4>2 DEF LoadApproval, Reopen, TypeInv, TypeOK
      <4>3. CASE Decide(u) \/ CommitPending(u)
        BY <4>3 DEF Decide, CommitPending, Closed, TypeInv, TypeOK
      <4> QED
        BY <3>4, <4>1, <4>2, <4>3 DEF Approve
    <3> QED
      BY <1>3, <3>1, <3>2, <3>3, <3>4 DEF RequestStep
  <2> QED
    BY <2>1 DEF Kept
<1> QED
  BY <1>2, <1>3

\* A request changes the rows of the tasks it is about, and edges, log entry
\* and history of its own task only.
LEMMA WhereRowsChange ==
    ASSUME TypeInv, NEW u \in Session, RequestStep(u), NEW t \in Task
    PROVE  /\ task'[t] # task[t] => t \in Touches(u)
           /\ t # ses[u].task => /\ deps'[t] = deps[t] /\ event'[t] = event[t]
                                 /\ mover'[t] = mover[t]
<1>1. CASE Commit(u)
  BY <1>1 DEF Commit, Touches, TypeInv, TypeOK
<1>2. CASE CommitDependents(u)
  <2>1. t \notin DOMAIN ses[u].plan => task'[t] = task[t]
    BY <1>2 DEF CommitDependents
  <2>2. DOMAIN ses[u].plan \subseteq Touches(u)
    BY DEF Touches
  <2>3. deps' = deps /\ mover' = mover
    BY <1>2 DEF CommitDependents
  <2>4. t # ses[u].task => event'[t] = event[t]
    BY <1>2 DEF CommitDependents, TypeInv, TypeOK
  <2> QED
    BY <2>1, <2>2, <2>3, <2>4
<1>3. CASE CommitCreate(u)
  <2>1. t # ses[u].task => task'[t] = task[t] /\ deps'[t] = deps[t]
    BY <1>3 DEF CommitCreate, TypeInv, TypeOK
  <2>2. event' = event /\ mover' = mover
    BY <1>3 DEF CommitCreate
  <2>3. t = ses[u].task => t \in Touches(u)
    BY DEF Touches
  <2> QED
    BY <2>1, <2>2, <2>3
<1>4. CASE ~(Commit(u) \/ CommitDependents(u) \/ CommitCreate(u))
  <2>1. UNCHANGED <<task, deps, event, mover>>
    BY <1>4 DEF RequestStep, Patch, Load, Guard, Check, Refuse, Reread, Create, Crash,
                Approve, Ask, LoadApproval, Decide, Reopen, CommitPending, data
  <2> QED
    BY <2>1
<1> QED
  BY <1>1, <1>2, <1>3, <1>4

\* So it changes nothing of a task that another one is about.
LEMMA ElsewhereKept ==
    ASSUME TypeInv, Apart, NEW u \in Session, NEW s \in Session \ {u}, RequestStep(u),
           NEW t \in Task, t \in Touches(s)
    PROVE  /\ task'[t] = task[t] /\ deps'[t] = deps[t] /\ event'[t] = event[t]
           /\ mover'[t] = mover[t] /\ ses[u].task # t
<1>1. t \notin Touches(u)
  BY DEF Apart
<1>2. t # ses[u].task
  BY <1>1 DEF Touches
<1> QED
  BY <1>1, <1>2, WhereRowsChange

\* The rules of the board do not change.
LEMMA RulesKept ==
    ASSUME [Next]_vars
    PROVE  rules' = rules
<1>1. ASSUME NEW u \in Session, RequestStep(u)
      PROVE  rules' = rules
  BY <1>1 DEF RequestStep, Patch, Load, Guard, Check, Refuse, Commit, Reread, CommitDependents,
              Create, CommitCreate, Crash, Approve, Ask, LoadApproval, Decide, Reopen,
              CommitPending, data
<1>2. ASSUME NEW t \in Task, Delete(t)
      PROVE  rules' = rules
  BY <1>2 DEF Delete
<1>3. AskResolved => rules' = rules
  BY DEF AskResolved
<1>4. (UNCHANGED vars) => rules' = rules
  BY DEF vars
<1> QED
  BY <1>1, <1>2, <1>3, <1>4 DEF Next, RequestStep

\* Where each step leaves its request, which tells what the last step was.
LEMMA LastStep ==
    ASSUME TypeInv, NEW u \in Session, RequestStep(u)
    PROVE  /\ ses'[u].pc = "loaded" => Load(u)
           /\ ses'[u].pc = "guarded" => Guard(u)
           /\ ses'[u].pc = "checked" => Check(u)
           /\ ses'[u].pc = "committed" => Commit(u)
           /\ ses'[u].pc = "logged" => Reread(u)
           /\ ses'[u].pc = "creating" => Create(u)
<1>0. ses[u] \in Request
  BY RequestParts DEF TypeInv
<1>1. CASE Load(u)
  <2>1. PICK who \in Actor, t \in Live :
          ses' = [ses EXCEPT ![u] = [Idle EXCEPT !.pc = "loaded", !.actor = who, !.task = t,
                                                !.old = task[t], !.new = task[t]]]
    BY <1>1 DEF Load
  <2>2. ses'[u].pc = "loaded"
    BY <2>1 DEF TypeInv, TypeOK, Idle
  <2> QED
    BY <1>1, <2>2
<1>2. CASE Guard(u)
  BY <1>2, GuardTypes
<1>3. CASE Check(u)
  <2>1. ses'[u].pc = "checked"
    BY <1>0, <1>3 DEF Check, TypeInv, TypeOK, Request
  <2> QED
    BY <1>3, <2>1
<1>4. CASE Commit(u)
  <2>1. ses'[u].pc \in {"idle", "committed"}
    BY <1>0, <1>4 DEF Commit, Committed, Idle, Request
  <2> QED
    BY <1>4, <2>1
<1>5. CASE Reread(u)
  <2>1. ses'[u].pc = "logged"
    BY <1>0, <1>5 DEF Reread, TypeInv, TypeOK, Request
  <2> QED
    BY <1>5, <2>1
<1>6. CASE Create(u)
  BY <1>6, CreateTypes
<1>7. CASE Refuse(u) \/ CommitDependents(u) \/ CommitCreate(u) \/ Crash(u) \/ Decide(u)
           \/ CommitPending(u)
  <2>1. ses'[u].pc = "idle"
    BY <1>7 DEF Refuse, CommitDependents, CommitCreate, Crash, Decide, CommitPending,
                Closed, TypeInv, TypeOK, Idle
  <2> QED
    BY <2>1
<1>8. CASE Ask(u) \/ LoadApproval(u) \/ Reopen(u)
  <2>1. CASE Ask(u)
    <3>1. PICK a \in Unasked, S \in SUBSET Live :
            ses' = [ses EXCEPT ![u] = [Idle EXCEPT !.pc = "asking", !.approval = a, !.links = S]]
      BY <2>1 DEF Ask
    <3>2. ses'[u].pc = "asking"
      BY <3>1 DEF TypeInv, TypeOK, Idle
    <3> QED
      BY <3>2
  <2>2. CASE LoadApproval(u)
    <3>1. PICK a \in Asked :
            ses' = [ses EXCEPT ![u] = [Idle EXCEPT !.pc = "deciding", !.approval = a,
                                                  !.was = approval[a].status]]
      BY <2>2 DEF LoadApproval
    <3>2. ses'[u].pc = "deciding"
      BY <3>1 DEF TypeInv, TypeOK, Idle
    <3> QED
      BY <3>2
  <2>3. CASE Reopen(u)
    <3>1. ses'[u].pc = "asking"
      BY <1>0, <2>3 DEF Reopen, TypeInv, TypeOK, Request
    <3> QED
      BY <3>1
  <2> QED
    BY <1>8, <2>1, <2>2, <2>3
<1> QED
  BY <1>1, <1>2, <1>3, <1>4, <1>5, <1>6, <1>7, <1>8 DEF RequestStep, Patch, Approve

\* What a step to the check carries over, and what it starts from.
LEMMA LoadSets ==
    ASSUME TypeInv, NEW u \in Session, Load(u)
    PROVE  /\ ses'[u].task \in Live /\ ses'[u].old = task[ses'[u].task] /\ UNCHANGED data
           /\ ses'[u].new = ses'[u].old /\ ses'[u].pc = "loaded"
<1>1. PICK who \in Actor, t \in Live :
        ses' = [ses EXCEPT ![u] = [Idle EXCEPT !.pc = "loaded", !.actor = who, !.task = t,
                                              !.old = task[t], !.new = task[t]]]
  BY DEF Load
<1>2. /\ ses'[u].task = t /\ ses'[u].old = task[t] /\ ses'[u].new = task[t]
      /\ ses'[u].pc = "loaded"
  BY <1>1 DEF TypeInv, TypeOK, Idle
<1> QED
  BY <1>2 DEF Load

\* What the actor's rules allow and the request then writes.
LEMMA GuardSets ==
    ASSUME TypeInv, NEW u \in Session, Guard(u)
    PROVE  /\ ses'[u].task = ses[u].task /\ ses'[u].old = ses[u].old
           /\ ses'[u].actor = ses[u].actor
           /\ \E p \in Payload :
                 LET x == ses[u] IN
                 /\ \/ x.actor \in Worker /\ WorkerMay(x.actor, x.old, p, x.task)
                    \/ x.actor = User /\ UserMay(x.old, p, x.task)
                    \/ x.actor = Lead /\ LeadMay(x.old, p, x.task)
                 /\ ses'[u].new = IF x.actor = User
                          THEN UserWrites(x.old, p, Unfinished(Effective(x.task, p)))
                          ELSE IF x.actor = Lead THEN LeadWrites(x.old, p, x.task)
                          ELSE WorkerWrites(x.actor, x.old, p)
                 /\ ses'[u].cut = IF Given(p, "deps") THEN deps[x.task] ELSE {}
                 /\ ses'[u].add = IF Given(p, "deps") THEN p.deps ELSE {}
<1> DEFINE x == ses[u]
<1>1. x \in Request
  BY RequestParts DEF TypeInv
<1>2. PICK p \in Payload :
        /\ \/ x.actor \in Worker /\ WorkerMay(x.actor, x.old, p, x.task)
           \/ x.actor = User /\ UserMay(x.old, p, x.task)
           \/ x.actor = Lead /\ LeadMay(x.old, p, x.task)
        /\ ses' = [ses EXCEPT
              ![u].pc = "guarded",
              ![u].new = IF x.actor = User
                         THEN UserWrites(x.old, p, Unfinished(Effective(x.task, p)))
                         ELSE IF x.actor = Lead THEN LeadWrites(x.old, p, x.task)
                         ELSE WorkerWrites(x.actor, x.old, p),
              ![u].asked = Given(p, "status") /\ p.status # x.old.status,
              ![u].cut = IF Given(p, "deps") THEN deps[x.task] ELSE {},
              ![u].add = IF Given(p, "deps") THEN p.deps ELSE {}]
  BY DEF Guard
<1> DEFINE n == IF x.actor = User
                THEN UserWrites(x.old, p, Unfinished(Effective(x.task, p)))
                ELSE IF x.actor = Lead THEN LeadWrites(x.old, p, x.task)
                ELSE WorkerWrites(x.actor, x.old, p)
           k == Given(p, "status") /\ p.status # x.old.status
           c == IF Given(p, "deps") THEN deps[x.task] ELSE {}
           d == IF Given(p, "deps") THEN p.deps ELSE {}
<1>3. ses' = [ses EXCEPT ![u] = [x EXCEPT !.pc = "guarded", !.new = n, !.asked = k,
                                         !.cut = c, !.add = d]]
  BY <1>2, ZenonT(40) DEF TypeInv, TypeOK
<1> HIDE DEF n, k, c, d
<1>4. /\ ses'[u].task = x.task /\ ses'[u].old = x.old /\ ses'[u].actor = x.actor
      /\ ses'[u].new = n /\ ses'[u].cut = c /\ ses'[u].add = d
  BY <1>1, <1>3 DEF TypeInv, TypeOK, Request
<1> QED
  BY <1>2, <1>4 DEF n, c, d

LEMMA CheckSets ==
    ASSUME TypeInv, NEW u \in Session, Guard(u) \/ Check(u)
    PROVE  /\ ses'[u].task = ses[u].task /\ ses'[u].old = ses[u].old
           /\ ses'[u].actor = ses[u].actor /\ UNCHANGED data
           /\ Check(u) => /\ ses'[u].new = ses[u].new /\ ses'[u].add = ses[u].add
                          /\ ses'[u].cut = ses[u].cut
<1>0. ses[u] \in Request
  BY RequestParts DEF TypeInv
<1>1. CASE Check(u)
  <2>1. ses' = [ses EXCEPT ![u] = [ses[u] EXCEPT !.pc = "checked"]]
    BY <1>1 DEF Check, TypeInv, TypeOK
  <2> QED
    BY <1>0, <1>1, <2>1 DEF Check, TypeInv, TypeOK, Request
<1>2. CASE Guard(u)
  <2>1. ses[u].pc = "loaded" /\ UNCHANGED data
    BY <1>2 DEF Guard
  <2>2. /\ ses'[u].task = ses[u].task /\ ses'[u].old = ses[u].old
        /\ ses'[u].actor = ses[u].actor
    BY <1>2, GuardSets
  <2> QED
    BY <2>1, <2>2 DEF Check
<1> QED
  BY <1>1, <1>2

\* What is created was new.
LEMMA CreateSets ==
    ASSUME TypeInv, NEW u \in Session, Create(u)
    PROVE  /\ ses'[u].task \in Task /\ task[ses'[u].task].status = "new" /\ UNCHANGED data
           /\ ses'[u].new.status \in Status /\ ses'[u].add \subseteq Live
           /\ Unfinished(ses'[u].add) => ses'[u].new.status = "inbox"
<1>1. PICK t \in Task, who \in {User, Lead}, st \in Status,
          owner \in Worker \union {Lead, NoOne}, D \in SUBSET Live :
         /\ task[t].status = "new" /\ \A v \in Session : ses[v].task # t
         /\ Unfinished(D) => owner = NoOne /\ st = "inbox"
         /\ who = Lead => owner # Lead
         /\ ses' = [ses EXCEPT ![u] = Creating(who, t, D, [status |-> st, who |-> owner])]
  BY DEF Create
<1>2. ses'[u] = Creating(who, t, D, [status |-> st, who |-> owner])
  BY <1>1 DEF TypeInv, TypeOK
<1>3. /\ ses'[u].task = t /\ ses'[u].new = [status |-> st, who |-> owner] /\ ses'[u].add = D
  BY <1>2 DEF Creating, Idle
<1> QED
  BY <1>1, <1>3 DEF Create

-----------------------------------------------------------------------------
(* Done is earned.                                                          *)

\* What a PATCH loaded is still there, and what is being created is not yet.
AsLoaded(s) ==
    /\ ses[s].pc = "creating" => ses[s].task \in Task /\ task[ses[s].task].status = "new"
    /\ ses[s].pc \in {"loaded", "guarded", "checked"} /\ ses[s].task \in Live
       => task[ses[s].task] = ses[s].old

\* What the check found out still holds.
Checked(s) == ses[s].pc = "checked" /\ ses[s].task \in Live => DoneAllowed(ses[s])

EarnedInv == \A s \in Session : AsLoaded(s) /\ Checked(s)

\* An approval of a task another request is about stays.
LEMMA ApprovalKept ==
    ASSUME TypeInv, Apart, NEW u \in Session, NEW s \in Session \ {u}, RequestStep(u),
           NEW t \in Touches(s), Approved(t)
    PROVE  Approved(t)'
<1>1. PICK a \in Asked : approval[a].status = "approved" /\ t \in approval[a].tasks
  BY DEF Approved
<1>2. a \in Approval /\ t \notin Touches(u)
  BY DEF Asked, Apart
<1>3. a # ses[u].approval
  BY <1>1, <1>2 DEF Touches
<1>4. approval'[a] = approval[a]
  <2>1. CASE Decide(u)
    BY <1>2, <1>3, <2>1 DEF Decide, TypeInv, TypeOK
  <2>2. CASE CommitPending(u)
    BY <1>2, <1>3, <2>2 DEF CommitPending, TypeInv, TypeOK
  <2>3. CASE ~(Decide(u) \/ CommitPending(u))
    BY <2>3 DEF RequestStep, Patch, Load, Guard, Check, Refuse, Commit, Reread,
                CommitDependents, Create, CommitCreate, Crash, Approve, Ask, LoadApproval,
                Reopen, data
  <2> QED
    BY <2>1, <2>2, <2>3
<1> QED
  BY <1>1, <1>2, <1>4 DEF Approved, Asked

\* No other request, no deletion of other tasks and no new approval matters.
LEMMA EarnedOthers ==
    ASSUME TypeInv, EarnedInv, Apart, NEW u \in Session, NEW s \in Session \ {u},
           RequestStep(u), rules' = rules
    PROVE  AsLoaded(s)' /\ Checked(s)'
<1>1. Kept(s)
  BY OthersKept
<1>2. ASSUME ses[s].task \in Task
      PROVE  /\ ses[s].task \in Touches(s) /\ task'[ses[s].task] = task[ses[s].task]
             /\ ses[s].task \in Live' <=> ses[s].task \in Live
  <2>1. ses[s].task \in Touches(s)
    BY <1>2 DEF Touches
  <2> QED
    BY <1>2, <2>1, ElsewhereKept DEF Live
<1>3. AsLoaded(s)'
  BY <1>1, <1>2 DEF EarnedInv, AsLoaded, Kept, TypeInv, AtTask
<1>4. Checked(s)'
  <2> SUFFICES ASSUME ses'[s].pc = "checked", ses'[s].task \in Live'
               PROVE  DoneAllowed(ses[s])'
    BY <1>1 DEF Checked, DoneAllowed, Kept
  <2>1. ses[s].pc = "checked" /\ ses'[s].task = ses[s].task /\ ses[s].task \in Task
    BY <1>1 DEF Kept, TypeInv, AtTask
  <2>2. DoneAllowed(ses[s])
    BY <2>1, <1>2 DEF EarnedInv, Checked
  <2>3. Approved(ses[s].task) => Approved(ses[s].task)'
    BY <2>1, <1>2, ApprovalKept
  <2> QED
    BY <1>1, <2>1, <2>2, <2>3 DEF DoneAllowed, Kept, Approved
<1> QED
  BY <1>3, <1>4

\* The request's own steps.
LEMMA EarnedOwn ==
    ASSUME TypeInv, EarnedInv, NEW u \in Session, RequestStep(u), rules' = rules
    PROVE  AsLoaded(u)' /\ Checked(u)'
<1>1. CASE Load(u)
  BY <1>1, LoadSets DEF AsLoaded, Checked, data
<1>2. CASE Guard(u)
  <2>1. ses[u].pc = "loaded" /\ ses'[u].pc = "guarded"
    BY <1>2, GuardTypes DEF Guard
  <2> QED
    BY <1>2, <2>1, CheckSets DEF EarnedInv, AsLoaded, Checked, data, Live
<1>3. CASE Check(u)
  <2>1. ses[u].pc = "guarded" /\ DoneAllowed(ses[u]) /\ ses'[u].pc # "creating"
    BY <1>3, LastStep, RequestParts DEF Check, TypeInv, TypeOK, Request
  <2>2. Approved(ses[u].task) => Approved(ses[u].task)'
    BY <1>3, CheckSets DEF Approved, Asked, data
  <2>3. AsLoaded(u)'
    BY <1>3, <2>1, CheckSets DEF EarnedInv, AsLoaded, data, Live
  <2>4. DoneAllowed(ses[u])'
    BY <1>3, <2>1, <2>2, CheckSets DEF DoneAllowed, Approved
  <2> QED
    BY <2>3, <2>4 DEF Checked, DoneAllowed, Approved
<1>4. CASE Create(u)
  <2>1. ses'[u].pc = "creating"
    BY <1>4, CreateTypes
  <2> QED
    BY <1>4, <2>1, CreateSets DEF AsLoaded, Checked, data
<1>5. CASE ~(Load(u) \/ Guard(u) \/ Check(u) \/ Create(u))
  <2>1. ses'[u].pc \notin {"loaded", "guarded", "checked", "creating"}
    BY <1>5, LastStep
  <2> QED
    BY <2>1 DEF AsLoaded, Checked
<1> QED
  BY <1>1, <1>2, <1>3, <1>4, <1>5

LEMMA EarnedStep ==
    ASSUME TypeInv, EarnedInv, Apart, [Next]_vars
    PROVE  EarnedInv'
<1>1. rules' = rules
  BY RulesKept
<1>2. ASSUME NEW u \in Session, RequestStep(u)
      PROVE  EarnedInv'
  <2>1. \A s \in Session \ {u} : AsLoaded(s)' /\ Checked(s)'
    BY <1>1, <1>2, EarnedOthers
  <2>2. AsLoaded(u)' /\ Checked(u)'
    BY <1>1, <1>2, EarnedOwn
  <2> QED
    BY <2>1, <2>2 DEF EarnedInv
<1>3. ASSUME NEW t \in Task, Delete(t)
      PROVE  EarnedInv'
  <2> SUFFICES ASSUME NEW s \in Session
               PROVE  AsLoaded(s)' /\ Checked(s)'
    BY DEF EarnedInv
  <2>1. ses' = ses /\ t \in Live /\ task'[t].status = "gone"
    BY <1>3 DEF Delete, TypeInv, TypeOK
  <2>2. \A r \in Task \ {t} : task'[r] = task[r]
    BY <1>3 DEF Delete, TypeInv, TypeOK
  <2>3. t \notin Live'
    BY <2>1 DEF Live, Status
  <2>4. \A r \in Task \ {t} : Approved(r) => Approved(r)'
    <3> SUFFICES ASSUME NEW r \in Task \ {t}, Approved(r)
                 PROVE  Approved(r)'
      OBVIOUS
    <3>1. PICK a \in Asked : approval[a].status = "approved" /\ r \in approval[a].tasks
      BY DEF Approved
    <3>2. a \in Approval /\ approval[a].tasks # {t}
      BY <3>1 DEF Asked
    <3>3. approval'[a] = [approval[a] EXCEPT !.tasks = approval[a].tasks \ {t}]
      BY <1>3, <3>2 DEF Delete, TypeInv, TypeOK
    <3>4. approval'[a].status = "approved" /\ r \in approval'[a].tasks
      BY <3>1, <3>2, <3>3 DEF TypeInv, TypeOK
    <3> QED
      BY <3>2, <3>4 DEF Approved, Asked, Decision
  <2>5. AsLoaded(s)'
    BY <2>1, <2>2, <2>3 DEF EarnedInv, AsLoaded, Live, Status
  <2>6. Checked(s)'
    <3> SUFFICES ASSUME ses[s].pc = "checked", ses[s].task \in Live'
                 PROVE  DoneAllowed(ses[s])'
      BY <2>1 DEF Checked, DoneAllowed
    <3>1. ses[s].task \in Task \ {t} /\ ses[s].task \in Live
      BY <2>2, <2>3 DEF Live
    <3> QED
      BY <1>1, <2>1, <2>4, <3>1 DEF EarnedInv, Checked, DoneAllowed, Approved
  <2> QED
    BY <2>5, <2>6
<1>4. CASE AskResolved
  <2>1. PICK a \in Unasked, S \in SUBSET Live, st \in {"approved", "rejected"} :
          approval' = [approval EXCEPT ![a] = [status |-> st, tasks |-> S]]
    BY <1>4 DEF AskResolved
  <2>2. \A b \in Asked : approval'[b] = approval[b]
    BY <2>1 DEF Asked, Unasked, Decision, TypeInv, TypeOK
  <2>3. \A t : Approved(t) => Approved(t)'
    BY <2>2 DEF Approved, Asked
  <2>4. UNCHANGED <<task, ses>>
    BY <1>4 DEF AskResolved
  <2> QED
    BY <1>1, <2>3, <2>4 DEF EarnedInv, AsLoaded, Checked, DoneAllowed, Live, Approved
<1>5. CASE UNCHANGED vars
  BY <1>5 DEF vars, EarnedInv, AsLoaded, Checked, DoneAllowed, Live, Approved, Asked
<1> QED
  BY <1>2, <1>3, <1>4, <1>5 DEF Next, RequestStep

\* The step DoneEarned speaks of: from any row, only the commit of a PATCH
\* makes a task done, and it writes what its check allowed.
LEMMA DoneStep ==
    ASSUME TypeInv, EarnedInv, [Next]_vars, NEW t \in Live,
           task[t].status # "done", task'[t].status = "done"
    PROVE  /\ "review" \in rules => task[t].status = "review"
           /\ "approval" \in rules => Approved(t)
<1>1. t \in Task /\ task[t].status \in Status
  BY DEF Live
<1>2. ~(\E r \in Task : Delete(r))
  BY <1>1 DEF Delete, TypeInv, TypeOK
<1>3. ~(AskResolved \/ UNCHANGED vars)
  BY DEF AskResolved, vars
<1>4. PICK u \in Session : RequestStep(u)
  BY <1>2, <1>3 DEF Next, RequestStep
<1>5. ~CommitDependents(u)
  <2>1. CASE t \in DOMAIN ses[u].plan /\ CommitDependents(u)
    BY <1>1, <2>1 DEF CommitDependents, Merge
  <2>2. CASE t \notin DOMAIN ses[u].plan /\ CommitDependents(u)
    BY <1>1, <2>2 DEF CommitDependents
  <2> QED
    BY <2>1, <2>2
<1>6. ~CommitCreate(u)
  BY <1>1 DEF CommitCreate, EarnedInv, AsLoaded, TypeInv, TypeOK, Status
<1>7. Commit(u)
  BY <1>4, <1>5, <1>6 DEF RequestStep, Patch, Load, Guard, Check, Refuse, Reread, Create, Crash,
              Approve, Ask, LoadApproval, Decide, Reopen, CommitPending, data
<1>8. t = ses[u].task /\ ses[u].pc = "checked"
  BY <1>1, <1>7 DEF Commit, TypeInv, TypeOK
<1>9. task'[t] = Merge(task[t], ses[u].old, ses[u].new)
  BY <1>1, <1>7, <1>8 DEF Commit, TypeInv, TypeOK
<1>10. task[t] = ses[u].old /\ DoneAllowed(ses[u])
  BY <1>8 DEF EarnedInv, AsLoaded, Checked
<1>11. ses[u].new.status = "done"
  BY <1>9, <1>10 DEF Merge
<1> QED
  BY <1>8, <1>10, <1>11 DEF DoneAllowed

LEMMA InitEarned == Init => EarnedInv
  BY DEF Init, Idle, EarnedInv, AsLoaded, Checked

LEMMA EarnedCorrect == Spec /\ []Apart => [](TypeInv /\ EarnedInv)
<1>1. Init => TypeInv /\ EarnedInv
  BY InitType, InitEarned
<1>2. TypeInv /\ EarnedInv /\ Apart /\ [Next]_vars => TypeInv' /\ EarnedInv'
  BY TypeStep, EarnedStep
<1> QED
  BY <1>1, <1>2, PTL DEF Spec

\* As long as no two open requests are about the same task, a task becomes done
\* from review, and approved, on a board with these rules -- whatever is
\* deleted, resolved or cut off meanwhile.
THEOREM DoneIsEarned == Spec /\ []Apart => DoneEarned
<1>1. TypeInv /\ EarnedInv /\ [Next]_vars =>
         [\A t \in Live : task[t].status # "done" /\ task'[t].status = "done" =>
             /\ "review" \in rules => task[t].status = "review"
             /\ "approval" \in rules => Approved(t)]_vars
  BY DoneStep
<1> QED
  BY <1>1, EarnedCorrect, PTL DEF Spec, DoneEarned

-----------------------------------------------------------------------------
(* Nothing is cut off.  The log entry and the reset of dependents are a       *)
(* second transaction: when the process dies before it, or when one of the    *)
(* dependents is deleted before it commits, what it should write is lost.     *)
(* What follows needs that neither happens.                                   *)

NothingCutOff == MaxCrashes = 0 /\ "delete" \notin Op

\* The tasks a request is about exist, and it writes statuses of existing ones.
Steady(s) ==
    /\ ses[s].pc \in {"loaded", "guarded", "checked", "committed", "logged"}
       => ses[s].task \in Live
    /\ ses[s].pc = "loaded" => ses[s].old.status \in Status
    /\ ses[s].pc \in {"guarded", "checked", "creating"} => ses[s].new.status \in Status
    /\ ses[s].pc = "logged" => DOMAIN ses[s].plan \subseteq Live

SteadyInv == \A s \in Session : Steady(s)

\* What the two commits of a PATCH carry over.
LEMMA CommitSets ==
    ASSUME TypeInv, NEW u \in Session, Commit(u)
    PROVE  /\ ses[u].task \in Task /\ ses[u].task \in Live
           /\ task'[ses[u].task] = Merge(task[ses[u].task], ses[u].old, ses[u].new)
           /\ \A t \in Task : t # ses[u].task => task'[t] = task[t]
           /\ ses[u].actor = Lead => ses'[u].pc = "idle"
           /\ ses[u].actor # Lead =>
                 /\ ses'[u].pc = "committed" /\ ses'[u].task = ses[u].task
                 /\ ses'[u].actor = ses[u].actor
                 /\ ses'[u].old = ses[u].old /\ ses'[u].new = ses[u].new
<1>1. ses[u] \in Request
  BY RequestParts DEF TypeInv
<1>2. ses[u].task \in Task
  BY DEF Commit, Live
<1>3. ses'[u] = IF ses[u].actor = Lead THEN Idle
                ELSE [ses[u] EXCEPT !.pc = "committed", !.cut = {}, !.add = {}]
  BY DEF Commit, Committed
<1>4. ses[u].actor = Lead => ses'[u].pc = "idle"
  BY <1>3 DEF Idle
<1>5. ses[u].actor # Lead => /\ ses'[u].pc = "committed" /\ ses'[u].task = ses[u].task
                             /\ ses'[u].actor = ses[u].actor
                             /\ ses'[u].old = ses[u].old /\ ses'[u].new = ses[u].new
  BY <1>1, <1>3 DEF Request
<1>6. /\ task'[ses[u].task] = Merge(task[ses[u].task], ses[u].old, ses[u].new)
      /\ \A t \in Task : t # ses[u].task => task'[t] = task[t]
  BY <1>2 DEF Commit, TypeInv, TypeOK
<1> QED
  BY <1>2, <1>4, <1>5, <1>6 DEF Commit

LEMMA RereadSets ==
    ASSUME TypeInv, NEW u \in Session, Reread(u)
    PROVE  /\ ses'[u].pc = "logged" /\ ses'[u].task = ses[u].task
           /\ ses'[u].actor = ses[u].actor /\ ses'[u].old = ses[u].old
           /\ ses'[u].new = task[ses[u].task] /\ UNCHANGED data
           /\ ses'[u].plan =
                 [d \in {d \in Live : /\ ses[u].old.status = "done"
                                      /\ task[ses[u].task].status # "done"
                                      /\ ses[u].task \in deps[d] /\ Returns(task[d])}
                      |-> task[d]]
<1> DEFINE D == {d \in Live : (ses[u].old.status = "done" /\ task[ses[u].task].status # "done")
                              /\ ses[u].task \in deps[d] /\ Returns(task[d])}
           plan == [d \in D |-> task[d]]
<1>1. ses[u] \in Request
  BY RequestParts DEF TypeInv
<1>2. ses' = [ses EXCEPT ![u] = [ses[u] EXCEPT !.pc = "logged", !.new = task[ses[u].task],
                                              !.plan = plan]]
  BY DEF Reread, TypeInv, TypeOK
<1> HIDE DEF plan
<1>3. /\ ses'[u].pc = "logged" /\ ses'[u].task = ses[u].task
      /\ ses'[u].actor = ses[u].actor /\ ses'[u].old = ses[u].old
      /\ ses'[u].new = task[ses[u].task] /\ ses'[u].plan = plan
  BY <1>1, <1>2 DEF TypeInv, TypeOK, Request
<1> QED
  BY <1>3 DEF Reread, plan

\* Every actor writes the status of a task that exists.
LEMMA StatusWritten ==
    ASSUME TypeInv, NEW u \in Session, Guard(u), ses[u].old.status \in Status
    PROVE  ses'[u].new.status \in Status
<1> DEFINE x == ses[u]
<1>1. PICK p \in Payload :
        ses'[u].new = IF x.actor = User
                      THEN UserWrites(x.old, p, Unfinished(Effective(x.task, p)))
                      ELSE IF x.actor = Lead THEN LeadWrites(x.old, p, x.task)
                      ELSE WorkerWrites(x.actor, x.old, p)
  BY GuardSets
<1>2. Given(p, "status") => p.status \in Status
  BY DEF Payload, Given
<1>3. \A m, r : ToLead(m, r).status = r.status \/ ToLead(m, r) = [r EXCEPT !.who = Lead]
  BY DEF ToLead
<1>4. \A m : \A st, who : ToLead(m, [status |-> st, who |-> who]).status = st
  BY <1>3
<1>5. UserWrites(x.old, p, Unfinished(Effective(x.task, p))).status \in Status
  BY <1>2, <1>4 DEF UserWrites, Status
<1>6. LeadWrites(x.old, p, x.task).status \in Status
  BY <1>2 DEF LeadWrites
<1>7. WorkerWrites(x.actor, x.old, p).status \in Status
  BY <1>2, <1>4 DEF WorkerWrites
<1> QED
  BY <1>1, <1>5, <1>6, <1>7

\* No task is deleted, and no request dies between its two transactions ...
LEMMA NoneDeleted ==
    ASSUME NothingCutOff, NEW t \in Task
    PROVE  ~Delete(t)
  BY DEF NothingCutOff, Delete, Arrives

LEMMA NoneCutOff ==
    ASSUME NothingCutOff, TypeInv, SteadyInv, NEW u \in Session
    PROVE  /\ ~Crash(u)
           /\ Refuse(u) => ses[u].pc \notin {"committed", "logged"}
<1>1. ~Crash(u)
  BY DEF NothingCutOff, Crash, TypeInv, TypeOK
<1>2. Refuse(u) => ses[u].pc \notin {"committed", "logged"}
  BY DEF Refuse, SteadyInv, Steady
<1> QED
  BY <1>1, <1>2

\* ... and no task goes.
LEMMA LiveGrows ==
    ASSUME NothingCutOff, TypeInv, SteadyInv, [Next]_vars
    PROVE  Live \subseteq Live'
<1> SUFFICES ASSUME NEW t \in Task, task[t].status \in Status, task'[t] # task[t]
             PROVE  task'[t].status \in Status
  BY DEF Live
<1>1. ~(AskResolved \/ UNCHANGED vars)
  BY DEF AskResolved, vars
<1>2. PICK u \in Session : RequestStep(u)
  BY <1>1, NoneDeleted DEF Next, RequestStep
<1>3. CASE Commit(u)
  <2>1. t = ses[u].task /\ task'[t] = Merge(task[t], ses[u].old, ses[u].new)
    BY <1>3, CommitSets
  <2>2. ses[u].new.status \in Status
    BY <1>3 DEF Commit, SteadyInv, Steady
  <2> QED
    BY <2>1, <2>2 DEF Merge
<1>4. CASE CommitDependents(u)
  <2>1. task'[t] = Merge(task[t], ses[u].plan[t], [status |-> "inbox", who |-> NoOne])
    BY <1>4 DEF CommitDependents
  <2> QED
    BY <2>1 DEF Merge, Status
<1>5. CASE CommitCreate(u)
  <2>1. task'[t] = ses[u].new /\ ses[u].pc = "creating"
    BY <1>5 DEF CommitCreate, TypeInv, TypeOK
  <2> QED
    BY <2>1 DEF SteadyInv, Steady
<1>6. CASE ~(Commit(u) \/ CommitDependents(u) \/ CommitCreate(u))
  BY <1>2, <1>6 DEF RequestStep, Patch, Load, Guard, Check, Refuse, Reread, Create, Crash,
              Approve, Ask, LoadApproval, Decide, Reopen, CommitPending, data
<1> QED
  BY <1>3, <1>4, <1>5, <1>6

LEMMA SteadyStep ==
    ASSUME NothingCutOff, TypeInv, SteadyInv, [Next]_vars
    PROVE  SteadyInv'
<1>1. Live \subseteq Live'
  BY LiveGrows
<1>2. CASE AskResolved \/ UNCHANGED vars
  BY <1>1, <1>2 DEF AskResolved, vars, SteadyInv, Steady
<1>3. ASSUME NEW u \in Session, RequestStep(u)
      PROVE  SteadyInv'
  <2>1. \A s \in Session \ {u} : Steady(s)'
    BY <1>1, <1>3, OthersKept DEF Kept, SteadyInv, Steady
  <2>2. Steady(u)'
    <3>1. CASE Load(u)
      <4>1. ses'[u].pc = "loaded" /\ ses'[u].task \in Live /\ ses'[u].old = task[ses'[u].task]
        BY <3>1, LoadSets
      <4>2. ses'[u].old.status \in Status
        BY <4>1 DEF Live
      <4> QED
        BY <1>1, <4>1, <4>2 DEF Steady
    <3>2. CASE Guard(u)
      <4>1. ses[u].pc = "loaded" /\ ses'[u].pc = "guarded"
        BY <3>2, GuardTypes DEF Guard
      <4>2. ses'[u].task \in Live /\ ses'[u].new.status \in Status
        BY <3>2, <4>1, CheckSets, StatusWritten DEF SteadyInv, Steady
      <4> QED
        BY <1>1, <4>1, <4>2 DEF Steady
    <3>3. CASE Check(u)
      <4>1. ses[u].pc = "guarded" /\ ses'[u].pc = "checked"
        BY <3>3, RequestParts DEF Check, TypeInv, TypeOK, Request
      <4>2. ses'[u].task \in Live /\ ses'[u].new.status \in Status
        BY <3>3, <4>1, CheckSets DEF SteadyInv, Steady
      <4> QED
        BY <1>1, <4>1, <4>2 DEF Steady
    <3>4. CASE Commit(u)
      <4>1. \/ ses'[u].pc = "idle"
            \/ ses'[u].pc = "committed" /\ ses'[u].task \in Live
        BY <3>4, CommitSets
      <4> QED
        BY <1>1, <4>1 DEF Steady
    <3>5. CASE Reread(u)
      <4>1. ses'[u].pc = "logged" /\ ses'[u].task = ses[u].task /\ ses[u].pc = "committed"
        BY <3>5, RereadSets DEF Reread
      <4>2. DOMAIN ses'[u].plan \subseteq Live
        BY <3>5, RereadSets
      <4> QED
        BY <1>1, <4>1, <4>2 DEF SteadyInv, Steady
    <3>6. CASE Create(u)
      <4>1. ses'[u].pc = "creating" /\ ses'[u].new.status \in Status
        BY <3>6, CreateTypes, CreateSets
      <4> QED
        BY <4>1 DEF Steady
    <3>7. CASE ~(Load(u) \/ Guard(u) \/ Check(u) \/ Commit(u) \/ Reread(u) \/ Create(u))
      <4>1. ses'[u].pc \notin {"loaded", "guarded", "checked", "committed", "logged", "creating"}
        BY <1>3, <3>7, LastStep
      <4> QED
        BY <4>1 DEF Steady
    <3> QED
      BY <3>1, <3>2, <3>3, <3>4, <3>5, <3>6, <3>7
  <2> QED
    BY <2>1, <2>2 DEF SteadyInv
<1> QED
  BY <1>2, <1>3, NoneDeleted DEF Next, RequestStep

LEMMA InitSteady == Init => SteadyInv
  BY DEF Init, Idle, SteadyInv, Steady

-----------------------------------------------------------------------------
(* Rework returns.                                                          *)

\* A PATCH between its two transactions.
Logging(s, t) == ses[s].pc \in {"committed", "logged"} /\ ses[s].task = t

\* The log names whoever last handed the task in, unless the PATCH that did so
\* is still to write its entry.
Noted(t) ==
    /\ (\A s \in Session : ~Logging(s, t)) => mover[t] = event[t]
    /\ \A s \in Session : Logging(s, t) =>
          mover[t] = IF Logs(ses[s]) THEN ses[s].actor ELSE event[t]

\* What the lead is about to send back goes to that worker.
HandedIn(s) ==
    /\ /\ ses[s].pc \in {"guarded", "checked"} /\ ses[s].actor = Lead
       /\ ses[s].old.status = "review" /\ ses[s].new.status = "inbox"
       => ses[s].new.who = mover[ses[s].task]
    /\ ses[s].pc = "committed" => task[ses[s].task] = ses[s].new

HandInv == (\A s \in Session : HandedIn(s)) /\ \A t \in Task : Noted(t)

\* A request about t is the only one.
LEMMA OnlyOneAt ==
    ASSUME TypeInv, Apart, NEW u \in Session, NEW s \in Session,
           ses[u].task \in Task, ses[s].task = ses[u].task
    PROVE  s = u
  BY DEF Apart, Touches

\* Other requests.
LEMMA HandedOthers ==
    ASSUME TypeInv, HandInv, Apart, NEW u \in Session, NEW s \in Session \ {u}, RequestStep(u)
    PROVE  HandedIn(s)'
<1>1. Kept(s)
  BY OthersKept
<1>2. ses[s].pc \in {"guarded", "checked", "committed"} => ses[s].task \in Touches(s) \intersect Task
  BY DEF Touches, TypeInv, AtTask
<1>3. ses[s].pc \in {"guarded", "checked", "committed"} =>
         /\ task'[ses[s].task] = task[ses[s].task]
         /\ mover'[ses[s].task] = mover[ses[s].task]
  BY <1>2, ElsewhereKept
<1> QED
  BY <1>1, <1>3 DEF HandInv, HandedIn, Kept

\* The request itself: the lead reads the log while no other request is about
\* the task.
LEMMA HandedOwn ==
    ASSUME TypeInv, EarnedInv, HandInv, Apart, NEW u \in Session, RequestStep(u)
    PROVE  HandedIn(u)'
<1>1. CASE Guard(u)
  <2> DEFINE x == ses[u]
  <2>1. x.pc = "loaded" /\ ses'[u].pc = "guarded" /\ x.task \in Task
    BY <1>1, GuardTypes DEF Guard, TypeInv, AtTask
  <2>2. mover[x.task] = event[x.task]
    <3>1. \A s \in Session : ~Logging(s, x.task)
      BY <2>1, OnlyOneAt DEF Logging
    <3> QED
      BY <2>1, <3>1 DEF HandInv, Noted
  <2>3. ASSUME x.actor = Lead, x.old.status = "review", ses'[u].new.status = "inbox"
        PROVE  ses'[u].new.who = mover[x.task]
    <3>1. PICK p \in Payload : ses'[u].new = LeadWrites(x.old, p, x.task)
      BY <1>1, <2>3, GuardSets, BoardAssumption
    <3>2. p.status = "inbox"
      BY <2>3, <3>1 DEF LeadWrites
    <3> QED
      BY <2>2, <2>3, <3>1, <3>2 DEF LeadWrites
  <2> QED
    BY <1>1, <2>1, <2>3, CheckSets DEF HandedIn, data
<1>2. CASE Check(u)
  <2>1. ses[u].pc = "guarded" /\ ses'[u].pc = "checked"
    BY <1>2, RequestParts DEF Check, TypeInv, TypeOK, Request
  <2> QED
    BY <1>2, <2>1, CheckSets DEF HandInv, HandedIn, data
<1>3. CASE Commit(u)
  <2>1. ses[u].pc = "checked" /\ ses[u].task \in Task /\ ses[u].task \in Live
    BY <1>3, CommitSets DEF Commit
  <2>2. task[ses[u].task] = ses[u].old
    BY <2>1 DEF EarnedInv, AsLoaded
  <2>3. ses[u].old \in Row /\ ses[u].new \in Row
    BY RequestParts DEF TypeInv
  <2>4. Merge(ses[u].old, ses[u].old, ses[u].new) = ses[u].new
    BY <2>3 DEF Merge, Row
  <2> QED
    BY <1>3, <2>2, <2>4, CommitSets DEF HandedIn
<1>4. CASE ~(Guard(u) \/ Check(u) \/ Commit(u))
  <2>1. ses'[u].pc \notin {"guarded", "checked", "committed"}
    BY <1>4, LastStep
  <2> QED
    BY <2>1 DEF HandedIn
<1> QED
  BY <1>1, <1>2, <1>3, <1>4

\* Which requests are between their transactions.
LEMMA NotedElsewhere ==
    ASSUME TypeInv, HandInv, NEW u \in Session, RequestStep(u),
           NEW t \in Task, t # ses[u].task, ~Logging(u, t)'
    PROVE  Noted(t)'
<1>1. mover'[t] = mover[t] /\ event'[t] = event[t]
  BY WhereRowsChange
<1>2. \A s \in Session \ {u} : /\ Logging(s, t)' <=> Logging(s, t)
                               /\ Logs(ses[s])' <=> Logs(ses[s])
                               /\ ses'[s].actor = ses[s].actor
  BY OthersKept DEF Kept, Logging, Logs
<1>3. ~Logging(u, t)
  BY DEF Logging
<1> QED
  BY <1>1, <1>2, <1>3 DEF HandInv, Noted

LEMMA NotedAt ==
    ASSUME NothingCutOff, TypeInv, SteadyInv, EarnedInv, HandInv, Apart,
           NEW u \in Session, RequestStep(u), NEW t \in Task, t = ses[u].task
    PROVE  Noted(t)'
<1>1. \A s \in Session \ {u} : ~Logging(s, t) /\ ~Logging(s, t)'
  BY OnlyOneAt, OthersKept DEF Kept, Logging
<1>2. CASE Commit(u)
  <2>1. mover[t] = event[t]
    BY <1>1, <1>2 DEF Commit, Logging, HandInv, Noted
  <2>2. event' = event
    BY <1>2 DEF Commit
  <2>3. /\ task[t] = ses[u].old
        /\ task'[t] = Merge(task[t], ses[u].old, ses[u].new)
    BY <1>2, CommitSets DEF Commit, EarnedInv, AsLoaded
  <2>4. ses[u].old \in Row /\ ses[u].new \in Row
    BY RequestParts DEF TypeInv
  <2>5. Merge(task[t], ses[u].old, ses[u].new).status = ses[u].new.status
    BY <2>3, <2>4 DEF Merge, Row
  <2>6. mover'[t] = IF Logs(ses[u]) THEN ses[u].actor ELSE mover[t]
    <3>1. mover' = IF /\ ses[u].actor \in Worker
                      /\ Merge(task[t], ses[u].old, ses[u].new).status = "review"
                      /\ task[t].status # "review"
                   THEN [mover EXCEPT ![t] = ses[u].actor] ELSE mover
      BY <1>2 DEF Commit
    <3> QED
      BY <2>3, <2>5, <3>1 DEF Logs, TypeInv, TypeOK
  <2>7. CASE ses[u].actor = Lead
    BY <1>1, <1>2, <2>1, <2>2, <2>6, <2>7, CommitSets, BoardAssumption
       DEF Noted, Logging, Logs
  <2>8. CASE ses[u].actor # Lead
    <3>1. Logs(ses[u])' <=> Logs(ses[u])
      BY <1>2, <2>8, CommitSets DEF Logs
    <3>2. Logging(u, t)' /\ ses'[u].actor = ses[u].actor
      BY <1>2, <2>8, CommitSets DEF Logging
    <3> QED
      BY <1>1, <2>1, <2>2, <2>6, <3>1, <3>2 DEF Noted
  <2> QED
    BY <2>7, <2>8
<1>3. CASE Reread(u)
  <2>1. Logging(u, t) /\ Logging(u, t)' /\ ses'[u].actor = ses[u].actor
    BY <1>3, RereadSets DEF Logging, Reread
  <2>2. Logs(ses[u])' <=> Logs(ses[u])
    <3>1. ses'[u].new = ses[u].new
      BY <1>3, RereadSets DEF Reread, HandInv, HandedIn
    <3> QED
      BY <1>3, <3>1, RereadSets DEF Logs
  <2>3. mover' = mover /\ event' = event
    BY <1>3 DEF Reread, data
  <2> QED
    BY <1>1, <2>1, <2>2, <2>3 DEF HandInv, Noted
<1>4. CASE CommitDependents(u)
  <2>1. ses'[u].pc = "idle"
    BY <1>4 DEF CommitDependents, Closed, TypeInv, TypeOK, Idle
  <2>2. Logging(u, t) /\ ~Logging(u, t)'
    BY <1>4, <2>1 DEF CommitDependents, Logging
  <2>3. event'[t] = IF Logs(ses[u]) THEN ses[u].actor ELSE event[t]
    BY <1>4 DEF CommitDependents, TypeInv, TypeOK
  <2>4. mover' = mover
    BY <1>4 DEF CommitDependents
  <2> QED
    BY <1>1, <2>2, <2>3, <2>4 DEF HandInv, Noted
<1>5. CASE ~(Commit(u) \/ Reread(u) \/ CommitDependents(u))
  <2>1. ~Crash(u) /\ (Refuse(u) => ses[u].pc \notin {"committed", "logged"})
    BY NoneCutOff
  <2>2. ses[u].pc \notin {"committed", "logged"}
    BY <1>5, <2>1 DEF RequestStep, Patch, Load, Guard, Check, Refuse, Create, CommitCreate,
                Approve, Ask, LoadApproval, Decide, Reopen, CommitPending
  <2>3. ses'[u].pc \notin {"committed", "logged"}
    BY <1>5, LastStep
  <2>4. mover' = mover /\ event' = event
    BY <1>5 DEF RequestStep, Patch, Load, Guard, Check, Refuse, Create, CommitCreate, Crash,
                Approve, Ask, LoadApproval, Decide, Reopen, CommitPending, data
  <2> QED
    BY <1>1, <2>2, <2>3, <2>4 DEF HandInv, Noted, Logging
<1> QED
  BY <1>2, <1>3, <1>4, <1>5

LEMMA HandStep ==
    ASSUME NothingCutOff, TypeInv, SteadyInv, EarnedInv, HandInv, Apart, [Next]_vars
    PROVE  HandInv'
<1>1. CASE AskResolved \/ UNCHANGED vars
  BY <1>1 DEF AskResolved, vars, HandInv, HandedIn, Noted, Logging, Logs
<1>2. ASSUME NEW u \in Session, RequestStep(u)
      PROVE  HandInv'
  <2>1. \A s \in Session : HandedIn(s)'
    BY <1>2, HandedOthers, HandedOwn
  <2>2. ASSUME NEW t \in Task
        PROVE  Noted(t)'
    <3>1. CASE t = ses[u].task
      BY <1>2, <3>1, NotedAt
    <3>2. CASE t # ses[u].task
      <4>1. ~Logging(u, t)'
        BY <1>2, <3>2, LastStep, CommitSets, RereadSets DEF Logging
      <4> QED
        BY <1>2, <3>2, <4>1, NotedElsewhere
    <3> QED
      BY <3>1, <3>2
  <2> QED
    BY <2>1, <2>2 DEF HandInv
<1> QED
  BY <1>1, <1>2, NoneDeleted DEF Next, RequestStep

LEMMA InitHand == Init => HandInv
  BY DEF Init, Idle, HandInv, HandedIn, Noted, Logging

LEMMA HandCorrect ==
    ASSUME NothingCutOff
    PROVE  Spec /\ []Apart => [](TypeInv /\ SteadyInv /\ EarnedInv /\ HandInv)
<1>1. Init => TypeInv /\ SteadyInv /\ EarnedInv /\ HandInv
  BY InitType, InitSteady, InitEarned, InitHand
<1>2. TypeInv /\ SteadyInv /\ EarnedInv /\ HandInv /\ Apart /\ [Next]_vars
         => TypeInv' /\ SteadyInv' /\ EarnedInv' /\ HandInv'
  BY TypeStep, SteadyStep, EarnedStep, HandStep
<1> QED
  BY <1>1, <1>2, PTL DEF Spec

\* The step ReworkReturns speaks of.
LEMMA ReworkStep ==
    ASSUME TypeInv, EarnedInv, HandInv, Apart, [Next]_vars, NEW s \in Session, NEW t \in Task,
           ses[s].pc = "checked", ses[s].actor = Lead, ses[s].task = t,
           task[t].status = "review", task'[t].status = "inbox"
    PROVE  task'[t].who = mover[t]
<1>1. ~(AskResolved \/ UNCHANGED vars) /\ ~Delete(t)
  BY DEF AskResolved, vars, Delete, TypeInv, TypeOK
<1>2. \A r \in Task : r # t => ~Delete(r)
  BY DEF Delete, TypeInv, TypeOK
<1>3. PICK u \in Session : RequestStep(u)
  BY <1>1, <1>2 DEF Next, RequestStep
<1>4. t \in Touches(s)
  BY DEF Touches
<1>5. u = s
  BY <1>3, <1>4, ElsewhereKept
<1>6. Commit(s)
  BY <1>3, <1>5 DEF RequestStep, Patch, Load, Guard, Check, Refuse, Reread, CommitDependents,
              Create, CommitCreate, Crash, Approve, Ask, LoadApproval, Decide, Reopen,
              CommitPending, data
<1>7. task'[t] = Merge(task[t], ses[s].old, ses[s].new) /\ task[t] = ses[s].old
  BY <1>6, CommitSets DEF EarnedInv, AsLoaded
<1>8. ses[s].new.status = "inbox" /\ ses[s].old.status = "review" /\ task'[t].who = ses[s].new.who
  BY <1>7 DEF Merge
<1> QED
  BY <1>8 DEF HandInv, HandedIn

\* As long as no two open requests are about the same task, and no request is
\* cut off between its transactions, a task the lead sends back goes to the
\* worker who last handed it in.
THEOREM ReworkIsReturned ==
    ASSUME NothingCutOff
    PROVE  Spec /\ []Apart => ReworkReturns
<1>1. TypeInv /\ EarnedInv /\ HandInv /\ Apart /\ [Next]_vars =>
         [\A s \in Session, t \in Task :
             /\ ses[s].pc = "checked" /\ ses[s].actor = Lead /\ ses[s].task = t
             /\ task[t].status = "review" /\ task'[t].status = "inbox"
             => task'[t].who = mover[t]]_vars
  BY ReworkStep
<1> QED
  BY <1>1, HandCorrect, PTL DEF Spec, ReworkReturns

-----------------------------------------------------------------------------
(* Blocked tasks wait.  Here a request reads the statuses of other tasks: the *)
(* dependencies its task has or is to get.                                    *)

Consults(s) ==
    Touches(s) \union ses[s].add \union UNION {deps[t] : t \in {ses[s].task} \intersect Task}

FarApart == \A s, u \in Session : s # u => Consults(s) \intersect Consults(u) = {}

LEMMA FarIsApart == FarApart => Apart
  BY DEF FarApart, Apart, Consults

\* One request after the other is the simplest case.
LEMMA OneSessionIsFarApart ==
    ASSUME NEW s, Session = {s}
    PROVE  FarApart
  BY DEF FarApart

\* What the task depends on once the request commits.
After(s) == (deps[ses[s].task] \ ses[s].cut) \union ses[s].add

\* A request that leaves its task running while a dependency is unfinished
\* found it so, or is the lead's and gives it one.
Careful(s) ==
    /\ ses[s].pc \in {"guarded", "checked", "creating"} =>
          ses[s].task \notin ses[s].add /\ ses[s].add \subseteq Live
    /\ /\ ses[s].pc \in {"guarded", "checked"}
       /\ ses[s].new.status \in Running /\ Unfinished(After(s))
       => \/ ses[s].old.status \in Running /\ Unfinished(deps[ses[s].task])
          \/ ses[s].actor = Lead /\ ses[s].add # {}
    /\ ses[s].pc \in {"guarded", "checked"} /\ ses[s].actor = Lead /\ ses[s].old.status = "done"
       => ses[s].new.status = "done"
    /\ ses[s].pc = "creating" /\ Unfinished(ses[s].add) => ses[s].new.status = "inbox"
    /\ ses[s].pc = "logged" =>
          \A d \in DOMAIN ses[s].plan : ses[s].plan[d] = task[d] /\ Returns(task[d])

\* A running task has its dependencies done, or the lead took them on ...
Clear(t) == task[t].status \in Running /\ Unfinished(deps[t]) => t \in waived

\* ... or a request that reopened one of them is still to send it back.
Behind(s, t) ==
    \/ /\ ses[s].pc = "committed" /\ ses[s].task \in deps[t]
       /\ ses[s].old.status = "done" /\ task[ses[s].task].status # "done"
    \/ ses[s].pc = "logged" /\ t \in DOMAIN ses[s].plan

GraphInv == \A t \in Task : t \notin deps[t] /\ deps[t] \subseteq Live

WaitInv ==
    /\ GraphInv
    /\ \A s \in Session : Careful(s)
    /\ \A t \in Live : Clear(t) \/ \E s \in Session : Behind(s, t)

\* A task that is left running and blocked stays waived.
LEMMA WaiverStays ==
    ASSUME NothingCutOff, TypeInv, [Next]_vars,
           NEW t \in waived, task'[t].status \in Running, Unfinished(deps[t])'
    PROVE  t \in waived'
<1>1. UNCHANGED waived \/ \E more \in SUBSET Task : Waiver(more)
  <2>1. ASSUME NEW u \in Session, RequestStep(u)
        PROVE  UNCHANGED waived \/ \E more \in SUBSET Task : Waiver(more)
    <3>1. CASE Commit(u)
      <4>1. Waiver({}) \/ Waiver({ses[u].task})
        BY <3>1 DEF Commit
      <4>2. {ses[u].task} \in SUBSET Task /\ {} \in SUBSET Task
        BY <3>1 DEF Commit, Live
      <4> QED
        BY <4>1, <4>2
    <3>2. CASE CommitDependents(u)
      <4>1. Waiver({})
        BY <3>2 DEF CommitDependents
      <4> QED
        BY <4>1
    <3>3. CASE ~(Commit(u) \/ CommitDependents(u))
      BY <2>1, <3>3 DEF RequestStep, Patch, Load, Guard, Check, Refuse, Reread, Create,
                  CommitCreate, Crash, Approve, Ask, LoadApproval, Decide, Reopen,
                  CommitPending, data
    <3> QED
      BY <3>1, <3>2, <3>3
  <2>2. CASE AskResolved \/ UNCHANGED vars
    BY <2>2 DEF AskResolved, vars
  <2> QED
    BY <2>1, <2>2, NoneDeleted DEF Next, RequestStep
<1> QED
  BY <1>1 DEF Waiver, Unfinished

\* The dependencies form no loop of one, and exist.
LEMMA GraphStep ==
    ASSUME NothingCutOff, TypeInv, SteadyInv, EarnedInv, WaitInv, [Next]_vars
    PROVE  GraphInv'
<1>1. Live \subseteq Live'
  BY LiveGrows
<1> SUFFICES ASSUME NEW t \in Task
             PROVE  t \notin deps'[t] /\ deps'[t] \subseteq Live'
  BY DEF GraphInv
<1>2. t \notin deps[t] /\ deps[t] \subseteq Live
  BY DEF WaitInv, GraphInv
<1>3. CASE UNCHANGED deps
  BY <1>1, <1>2, <1>3
<1>4. ASSUME NEW u \in Session, Commit(u)
      PROVE  t \notin deps'[t] /\ deps'[t] \subseteq Live'
  <2>1. deps' = [deps EXCEPT ![ses[u].task] = After(u)]
    BY <1>4 DEF Commit, After
  <2>2. ses[u].task \notin ses[u].add /\ ses[u].add \subseteq Live
    BY <1>4 DEF Commit, WaitInv, Careful
  <2> QED
    BY <1>1, <1>2, <2>1, <2>2 DEF After, TypeInv, TypeOK
<1>5. ASSUME NEW u \in Session, CommitCreate(u)
      PROVE  t \notin deps'[t] /\ deps'[t] \subseteq Live'
  <2>1. deps' = [deps EXCEPT ![ses[u].task] = ses[u].add]
    BY <1>5 DEF CommitCreate
  <2>2. ses[u].task \notin ses[u].add /\ ses[u].add \subseteq Live
    BY <1>5 DEF CommitCreate, WaitInv, Careful
  <2> QED
    BY <1>1, <1>2, <2>1, <2>2 DEF TypeInv, TypeOK
<1>6. ASSUME NEW u \in Session, RequestStep(u), ~(Commit(u) \/ CommitCreate(u))
      PROVE  UNCHANGED deps
  BY <1>6 DEF RequestStep, Patch, Load, Guard, Check, Refuse, Reread, CommitDependents, Create,
              Crash, Approve, Ask, LoadApproval, Decide, Reopen, CommitPending, data
<1>7. AskResolved \/ UNCHANGED vars => UNCHANGED deps
  BY DEF AskResolved, vars
<1> QED
  BY <1>3, <1>4, <1>5, <1>6, <1>7, NoneDeleted DEF Next, RequestStep

\* No other request changes what a request reads.
LEMMA ConsultedKept ==
    ASSUME TypeInv, FarApart, NEW u \in Session, NEW s \in Session \ {u}, RequestStep(u),
           NEW D \in SUBSET Task, D \subseteq Consults(s)
    PROVE  /\ \A d \in D : task'[d] = task[d]
           /\ Unfinished(D)' <=> Unfinished(D)
<1>1. \A d \in D : d \notin Touches(u)
  BY DEF FarApart, Consults
<1>2. \A d \in D : task'[d] = task[d]
  BY <1>1, WhereRowsChange
<1> QED
  BY <1>2 DEF Unfinished

LEMMA CarefulOthers ==
    ASSUME NothingCutOff, TypeInv, SteadyInv, WaitInv, FarApart, [Next]_vars,
           NEW u \in Session, NEW s \in Session \ {u}, RequestStep(u)
    PROVE  Careful(s)'
<1> DEFINE x == ses[s]
<1>1. Kept(s) /\ Careful(s) /\ Live \subseteq Live' /\ Apart
  BY OthersKept, LiveGrows, FarIsApart DEF WaitInv
<1>2. x.add \subseteq Task /\ x.add \subseteq Consults(s)
  BY RequestParts DEF TypeInv, Consults
<1>3. Unfinished(x.add)' <=> Unfinished(x.add)
  <2>1. Unfinished(x.add)' <=> \E d \in x.add : task'[d].status # "done"
    BY <1>1 DEF Unfinished, Kept
  <2>2. \A d \in x.add : task'[d] = task[d]
    BY <1>2, ConsultedKept
  <2> QED
    BY <2>1, <2>2 DEF Unfinished
<1>4. ASSUME x.pc \in {"guarded", "checked"}
      PROVE  /\ Unfinished(After(s))' <=> Unfinished(After(s))
             /\ Unfinished(deps[x.task])' <=> Unfinished(deps[x.task])
  <2>1. x.task \in Task /\ x.task \in Touches(s)
    BY <1>4 DEF TypeInv, AtTask, Touches
  <2>2. deps'[x.task] = deps[x.task] /\ ses[u].task # x.task
    BY <1>1, <2>1, ElsewhereKept
  <2>3. ses'[s].cut = x.cut /\ ses'[s].task = x.task /\ ses'[s].add = x.add
    BY <1>1, <2>2, OthersKept DEF Kept
  <2>4. deps[x.task] \subseteq Task /\ deps[x.task] \subseteq Consults(s)
    BY <2>1 DEF TypeInv, TypeOK, Consults
  <2>5. After(s)' = After(s) /\ After(s) \subseteq Task /\ After(s) \subseteq Consults(s)
    BY <1>2, <2>2, <2>3, <2>4 DEF After
  <2>6. \A d \in After(s) \union deps[x.task] : task'[d] = task[d]
    BY <2>4, <2>5, ConsultedKept
  <2>7. Unfinished(After(s))' <=> \E d \in After(s) : task'[d].status # "done"
    BY <2>5 DEF Unfinished
  <2>8. Unfinished(deps[x.task])' <=> \E d \in deps[x.task] : task'[d].status # "done"
    BY <2>2, <2>3 DEF Unfinished
  <2> QED
    BY <2>6, <2>7, <2>8 DEF Unfinished
<1>5. \A d \in DOMAIN x.plan \intersect Task : task'[d] = task[d]
  BY <1>1, ElsewhereKept DEF Touches
<1>6. x.pc = "logged" => DOMAIN x.plan \subseteq Task
  BY DEF SteadyInv, Steady, Live
<1>7. /\ ses'[s].pc = x.pc /\ ses'[s].actor = x.actor /\ ses'[s].task = x.task
      /\ ses'[s].old = x.old /\ ses'[s].new = x.new /\ ses'[s].add = x.add
      /\ ses'[s].plan = x.plan
  BY <1>1 DEF Kept
<1>8. ses'[s].pc \in {"guarded", "checked", "creating"} =>
          ses'[s].task \notin ses'[s].add /\ ses'[s].add \subseteq Live'
  BY <1>1, <1>7 DEF Careful
<1>9. /\ ses'[s].pc \in {"guarded", "checked"}
      /\ ses'[s].new.status \in Running /\ Unfinished(After(s))'
      => \/ ses'[s].old.status \in Running /\ Unfinished(deps[ses[s].task])'
         \/ ses'[s].actor = Lead /\ ses'[s].add # {}
  BY <1>1, <1>4, <1>7 DEF Careful
<1>10. ses'[s].pc \in {"guarded", "checked"} /\ ses'[s].actor = Lead
       /\ ses'[s].old.status = "done" => ses'[s].new.status = "done"
  BY <1>1, <1>7 DEF Careful
<1>11. ses'[s].pc = "creating" /\ Unfinished(ses[s].add)' => ses'[s].new.status = "inbox"
  BY <1>1, <1>3, <1>7 DEF Careful
<1>12. ses'[s].pc = "logged" =>
          \A d \in DOMAIN ses'[s].plan : ses'[s].plan[d] = task'[d] /\ Returns(task[d])'
  BY <1>1, <1>5, <1>6, <1>7 DEF Careful, Returns
<1> QED
  BY <1>8, <1>9, <1>10, <1>11, <1>12 DEF Careful

\* What each actor's rules guarantee of the row it writes.
LEMMA GuardCareful ==
    ASSUME TypeInv, SteadyInv, WaitInv, NEW u \in Session, Guard(u)
    PROVE  LET x == ses[u]
               y == ses'[u]
               D == (deps[x.task] \ y.cut) \union y.add
           IN  /\ x.task \notin y.add /\ y.add \subseteq Live
               /\ y.new.status \in Running /\ Unfinished(D)
                  => \/ x.old.status \in Running /\ Unfinished(deps[x.task])
                     \/ x.actor = Lead /\ y.add # {}
               /\ x.actor = Lead /\ x.old.status = "done" => y.new.status = "done"
<1> DEFINE x == ses[u]
           y == ses'[u]
           D == (deps[x.task] \ y.cut) \union y.add
<1>1. PICK p \in Payload :
        /\ \/ x.actor \in Worker /\ WorkerMay(x.actor, x.old, p, x.task)
           \/ x.actor = User /\ UserMay(x.old, p, x.task)
           \/ x.actor = Lead /\ LeadMay(x.old, p, x.task)
        /\ y.new = IF x.actor = User
                   THEN UserWrites(x.old, p, Unfinished(Effective(x.task, p)))
                   ELSE IF x.actor = Lead THEN LeadWrites(x.old, p, x.task)
                   ELSE WorkerWrites(x.actor, x.old, p)
        /\ y.cut = IF Given(p, "deps") THEN deps[x.task] ELSE {}
        /\ y.add = IF Given(p, "deps") THEN p.deps ELSE {}
  BY GuardSets
<1>2. D = Effective(x.task, p)
  BY <1>1 DEF Given, Effective
<1>3. x.task \notin y.add /\ y.add \subseteq Live
  BY <1>1 DEF WorkerMay, UserMay, LeadMay, Valid
<1>4. \A m : \A st, who : ToLead(m, [status |-> st, who |-> who]).status = st
  BY DEF ToLead
<1>5. CASE x.actor \in Worker
  <2>1. y.new = WorkerWrites(x.actor, x.old, p) /\ WorkerMay(x.actor, x.old, p, x.task)
    BY <1>1, <1>5, BoardAssumption
  <2>2. D = deps[x.task]
    BY <1>2, <2>1 DEF WorkerMay, Effective, Given
  <2>3. CASE Given(p, "status")
    <3>1. y.new.status = p.status
      BY <1>4, <2>1, <2>3 DEF WorkerWrites
    <3>2. y.new.status \in Running => ~Unfinished(D)
      BY <2>1, <2>2, <2>3, <3>1 DEF WorkerMay, Running
    <3> QED
      BY <1>3, <1>5, <3>2, BoardAssumption
  <2>4. CASE ~Given(p, "status")
    <3>1. y.new = x.old
      BY <2>1, <2>4 DEF WorkerWrites
    <3> QED
      BY <1>3, <1>5, <2>2, <3>1, BoardAssumption
  <2> QED
    BY <2>3, <2>4
<1>6. CASE x.actor = User
  <2>1. y.new = UserWrites(x.old, p, Unfinished(D))
    BY <1>1, <1>2, <1>6
  <2>2. Unfinished(D) => y.new.status \notin Running
    BY <1>4, <2>1 DEF UserWrites, Running
  <2> QED
    BY <1>3, <1>6, <2>2, BoardAssumption
<1>7. CASE x.actor = Lead
  <2>1. y.new = LeadWrites(x.old, p, x.task) /\ LeadMay(x.old, p, x.task)
    BY <1>1, <1>7, BoardAssumption
  <2>2. x.old.status = "done" => y.new.status = "done"
    BY <2>1 DEF LeadMay, LeadWrites
  <2>3. ASSUME y.new.status \in Running, Unfinished(D)
        PROVE  \/ x.old.status \in Running /\ Unfinished(deps[x.task])
               \/ y.add # {}
    <3>1. ~Given(p, "status")
      BY <1>2, <2>1, <2>3 DEF LeadMay
    <3>2. y.new.status = x.old.status
      BY <2>1, <3>1 DEF LeadWrites
    <3>3. CASE Given(p, "deps")
      BY <1>1, <2>3, <3>3 DEF Unfinished
    <3>4. CASE ~Given(p, "deps")
      BY <1>1, <2>3, <3>2, <3>4
    <3> QED
      BY <3>3, <3>4
  <2> QED
    BY <1>3, <1>7, <2>2, <2>3
<1> QED
  BY <1>1, <1>5, <1>6, <1>7

LEMMA CarefulOwn ==
    ASSUME NothingCutOff, TypeInv, SteadyInv, EarnedInv, WaitInv, [Next]_vars,
           NEW u \in Session, RequestStep(u)
    PROVE  Careful(u)'
<1>1. Live \subseteq Live'
  BY LiveGrows
<1>2. CASE Guard(u)
  <2>1. ses'[u].pc = "guarded" /\ task' = task /\ deps' = deps
    BY <1>2, GuardTypes DEF Guard, data
  <2>2. Unfinished(After(u))' <=> Unfinished((deps[ses[u].task] \ ses'[u].cut) \union ses'[u].add)
    BY <1>2, <2>1, GuardSets DEF Unfinished, After
  <2>3. Unfinished(deps[ses[u].task])' <=> Unfinished(deps[ses[u].task])
    BY <1>2, <2>1, GuardSets DEF Unfinished
  <2>4. /\ ses'[u].task = ses[u].task /\ ses'[u].old = ses[u].old
        /\ ses'[u].actor = ses[u].actor
    BY <1>2, GuardSets
  <2> QED
    BY <1>1, <1>2, <2>1, <2>2, <2>3, <2>4, GuardCareful DEF Careful
<1>3. CASE Check(u)
  <2>1. ses[u].pc = "guarded" /\ ses'[u].pc = "checked" /\ task' = task /\ deps' = deps
    BY <1>3, RequestParts DEF Check, TypeInv, TypeOK, Request, data
  <2>2. /\ ses'[u].task = ses[u].task /\ ses'[u].old = ses[u].old /\ ses'[u].new = ses[u].new
        /\ ses'[u].actor = ses[u].actor /\ ses'[u].add = ses[u].add /\ ses'[u].cut = ses[u].cut
    BY <1>3, CheckSets
  <2>3. Unfinished(After(u))' <=> Unfinished(After(u))
    BY <2>1, <2>2 DEF Unfinished, After
  <2>4. Unfinished(deps[ses[u].task])' <=> Unfinished(deps[ses[u].task])
    BY <2>1, <2>2 DEF Unfinished
  <2> QED
    BY <1>1, <2>1, <2>2, <2>3, <2>4 DEF WaitInv, Careful
<1>4. CASE Create(u)
  <2>1. ses'[u].pc = "creating" /\ task' = task
    BY <1>4, CreateTypes, CreateSets DEF data
  <2>2. ses'[u].task \notin ses'[u].add
    BY <1>4, CreateSets DEF Live, Status
  <2>3. Unfinished(ses[u].add)' <=> Unfinished(ses'[u].add)
    BY <2>1 DEF Unfinished
  <2> QED
    BY <1>1, <1>4, <2>1, <2>2, <2>3, CreateSets DEF Careful
<1>5. CASE Reread(u)
  <2>1. ses'[u].pc = "logged" /\ task' = task
    BY <1>5, RereadSets DEF data
  <2>2. \A d \in DOMAIN ses'[u].plan : ses'[u].plan[d] = task[d] /\ Returns(task[d])
    BY <1>5, RereadSets
  <2> QED
    BY <2>1, <2>2 DEF Careful, Returns
<1>6. CASE ~(Guard(u) \/ Check(u) \/ Create(u) \/ Reread(u))
  <2>1. ses'[u].pc \notin {"guarded", "checked", "creating", "logged"}
    BY <1>6, LastStep
  <2> QED
    BY <2>1 DEF Careful
<1> QED
  BY <1>2, <1>3, <1>4, <1>5, <1>6

\* A task that was clear stays so unless it starts to run, or a dependency it
\* found done is done no more.
LEMMA ClearStays ==
    ASSUME NothingCutOff, TypeInv, [Next]_vars, NEW t \in Task, Clear(t),
           task'[t].status \in Running => task[t].status \in Running,
           Unfinished(deps[t])' => Unfinished(deps[t])
    PROVE  Clear(t)'
  BY WaiverStays DEF Clear

\* A reset that is still to come is so after the step of another request.
LEMMA BehindStays ==
    ASSUME NothingCutOff, TypeInv, SteadyInv, FarApart, NEW u \in Session,
           NEW v \in Session \ {u}, RequestStep(u), NEW t \in Task, Behind(v, t),
           deps'[t] = deps[t]
    PROVE  Behind(v, t)'
<1>1. Kept(v)
  BY OthersKept
<1>2. CASE ses[v].pc = "committed"
  <2>1. ses[v].task \in Task /\ ses[v].task \in Touches(v)
    BY <1>2 DEF TypeInv, AtTask, Touches
  <2>2. task'[ses[v].task] = task[ses[v].task]
    BY <2>1, ElsewhereKept, FarIsApart
  <2> QED
    BY <1>1, <1>2, <2>2 DEF Behind, Kept
<1>3. CASE ses[v].pc = "logged"
  BY <1>1, <1>3 DEF Behind, Kept
<1> QED
  BY <1>2, <1>3 DEF Behind

\* The first commit of a PATCH: its own task ...
LEMMA CommitClear ==
    ASSUME NothingCutOff, TypeInv, SteadyInv, EarnedInv, WaitInv, FarApart, [Next]_vars,
           NEW u \in Session, Commit(u), NEW t \in Task, t = ses[u].task
    PROVE  Clear(t)'
<1> DEFINE x == ses[u]
<1>1. /\ x.pc = "checked" /\ t \in Live /\ task[t] = x.old
      /\ x.old \in Row /\ x.new \in Row
  BY CommitSets, RequestParts DEF Commit, EarnedInv, AsLoaded, TypeInv
<1>2. task'[t].status = x.new.status
  BY <1>1, CommitSets DEF Merge, Row
<1>3. deps'[t] = After(u) /\ t \notin After(u)
  BY <1>1 DEF Commit, After, WaitInv, Careful, GraphInv, TypeInv, TypeOK
<1>4. After(u) \subseteq Task
  BY <1>1, RequestParts DEF After, TypeInv, TypeOK
<1>5. \A d \in After(u) : task'[d] = task[d]
  BY <1>3, <1>4, CommitSets
<1>6. Clear(t)
  <2> SUFFICES ASSUME NEW v \in Session, Behind(v, t)
               PROVE  FALSE
    BY <1>1 DEF WaitInv
  <2>1. v # u /\ t \in Touches(u)
    BY <1>1 DEF Behind, Touches
  <2>2. CASE ses[v].pc = "committed"
    <3>1. ses[v].task \in Task /\ ses[v].task \in deps[t]
      BY <2>2 DEF Behind, TypeInv, AtTask
    <3>2. ses[v].task \in Consults(v) /\ ses[v].task \in Consults(u)
      BY <1>1, <3>1 DEF Consults, Touches
    <3> QED
      BY <2>1, <3>2 DEF FarApart
  <2>3. CASE ses[v].pc = "logged"
    <3>1. t \in Consults(v) /\ t \in Consults(u)
      BY <2>1, <2>3 DEF Behind, Consults, Touches
    <3> QED
      BY <2>1, <3>1 DEF FarApart
  <2> QED
    BY <2>2, <2>3 DEF Behind
<1> SUFFICES ASSUME task'[t].status \in Running, Unfinished(deps[t])'
             PROVE  t \in waived'
  BY DEF Clear
<1>7. x.new.status \in Running /\ Unfinished(After(u))
  BY <1>2, <1>3, <1>5 DEF Unfinished
<1>8. CASE x.old.status \in Running /\ Unfinished(deps[t])
  BY <1>1, <1>6, <1>8, WaiverStays DEF Clear
<1>9. CASE x.actor = Lead /\ x.add # {}
  <2>1. Waiver({t})
    BY <1>9 DEF Commit
  <2> QED
    BY <2>1 DEF Waiver, Unfinished
<1> QED
  BY <1>1, <1>7, <1>8, <1>9 DEF WaitInv, Careful

\* ... and the others: those that depend on it are clear, or it was reopened and
\* its request goes on to look for them.
LEMMA CommitOthers ==
    ASSUME NothingCutOff, TypeInv, SteadyInv, EarnedInv, WaitInv, FarApart, [Next]_vars,
           NEW u \in Session, Commit(u), NEW t \in Live, t # ses[u].task
    PROVE  Clear(t)' \/ \E s \in Session : Behind(s, t)'
<1> DEFINE x == ses[u]
<1>1. /\ x.pc = "checked" /\ x.task \in Task /\ x.task \in Live /\ task[x.task] = x.old
      /\ x.old \in Row /\ x.new \in Row /\ t \in Task
  BY CommitSets, RequestParts DEF Commit, EarnedInv, AsLoaded, TypeInv, Live
<1>2. RequestStep(u) /\ task'[t] = task[t] /\ deps'[t] = deps[t] /\ deps[t] \subseteq Task
  <2>1. RequestStep(u)
    BY DEF RequestStep, Patch
  <2> QED
    BY <1>1, <2>1, CommitSets, WhereRowsChange DEF TypeInv, TypeOK
<1>3. ASSUME NEW v \in Session, Behind(v, t)
      PROVE  \E s \in Session : Behind(s, t)'
  <2>1. v # u
    BY <1>1, <1>3 DEF Behind
  <2> QED
    BY <1>1, <1>2, <1>3, <2>1, BehindStays
<1>4. CASE Clear(t)
  <2>1. CASE Unfinished(deps[t])' => Unfinished(deps[t])
    BY <1>1, <1>2, <1>4, <2>1, ClearStays
  <2>2. CASE Unfinished(deps[t])' /\ ~Unfinished(deps[t])
    <3>1. PICK d \in deps[t] : task'[d].status # "done" /\ task[d].status = "done"
      BY <1>2, <2>2 DEF Unfinished
    <3>2. d = x.task
      BY <1>2, <3>1, CommitSets
    <3>3. x.old.status = "done" /\ x.new.status # "done"
      <4>1. task'[x.task] = Merge(x.old, x.old, x.new)
        BY <1>1, CommitSets
      <4>2. Merge(x.old, x.old, x.new).status =
               IF x.new.status # x.old.status THEN x.new.status ELSE x.old.status
        BY DEF Merge
      <4> QED
        BY <1>1, <3>1, <3>2, <4>1, <4>2
    <3>4. x.actor # Lead
      BY <1>1, <3>3 DEF WaitInv, Careful
    <3>5. /\ ses'[u].pc = "committed" /\ ses'[u].task = x.task /\ ses'[u].old = x.old
      BY <3>4, CommitSets
    <3> QED
      BY <1>2, <3>1, <3>2, <3>3, <3>5 DEF Behind
  <2> QED
    BY <2>1, <2>2
<1> QED
  BY <1>3, <1>4 DEF WaitInv

\* The second transaction sends the dependents it found back; what others
\* depend on is not done before either.
LEMMA ResetClears ==
    ASSUME NothingCutOff, TypeInv, SteadyInv, EarnedInv, WaitInv, FarApart, [Next]_vars,
           NEW u \in Session, CommitDependents(u), NEW t \in Live
    PROVE  Clear(t)' \/ \E s \in Session : Behind(s, t)'
<1> DEFINE x == ses[u]
           reset == [status |-> "inbox", who |-> NoOne]
<1>1. RequestStep(u) /\ x.pc = "logged" /\ t \in Task /\ deps' = deps /\ deps[t] \subseteq Task
  BY DEF RequestStep, Patch, CommitDependents, Live, TypeInv, TypeOK
<1>2. \A d \in DOMAIN x.plan : x.plan[d] = task[d] /\ Returns(task[d])
  BY <1>1 DEF WaitInv, Careful
<1>3. \A d \in Task \intersect DOMAIN x.plan : task'[d] = Merge(task[d], x.plan[d], reset)
  BY DEF CommitDependents
<1>4. \A d \in Task \ DOMAIN x.plan : task'[d] = task[d]
  BY DEF CommitDependents
<1>5. \A d \in Task \intersect DOMAIN x.plan :
         task'[d].status = "inbox" /\ task[d].status # "done"
  <2> SUFFICES ASSUME NEW d \in Task \intersect DOMAIN x.plan
               PROVE  task'[d].status = "inbox" /\ task[d].status # "done"
    OBVIOUS
  <2>1. task'[d] = Merge(task[d], task[d], reset)
    BY <1>2, <1>3
  <2>2. Merge(task[d], task[d], reset).status =
           IF "inbox" # task[d].status THEN "inbox" ELSE task[d].status
    BY DEF Merge
  <2>3. task[d].status \in {"in_progress", "review", "inbox"}
    BY <1>2 DEF Returns, Running
  <2> QED
    BY <2>1, <2>2, <2>3
<1>6. CASE t \in DOMAIN x.plan
  BY <1>1, <1>5, <1>6 DEF Clear, Running
<1>7. CASE t \notin DOMAIN x.plan
  <2>1. task'[t] = task[t]
    BY <1>1, <1>4, <1>7
  <2>2. CASE Clear(t)
    <3>1. Unfinished(deps[t])' => Unfinished(deps[t])
      BY <1>1, <1>4, <1>5 DEF Unfinished
    <3> QED
      BY <1>1, <2>1, <2>2, <3>1, ClearStays
  <2>3. ASSUME NEW v \in Session, Behind(v, t)
        PROVE  \E s \in Session : Behind(s, t)'
    <3>1. v # u
      BY <1>1, <1>7, <2>3 DEF Behind
    <3> QED
      BY <1>1, <2>3, <3>1, BehindStays
  <2> QED
    BY <2>2, <2>3 DEF WaitInv
<1> QED
  BY <1>6, <1>7

\* A created task is clear, and no task depends on it yet.
LEMMA CreationClear ==
    ASSUME NothingCutOff, TypeInv, SteadyInv, EarnedInv, WaitInv, FarApart, [Next]_vars,
           NEW u \in Session, CommitCreate(u), NEW t \in Live'
    PROVE  Clear(t)' \/ \E s \in Session : Behind(s, t)'
<1> DEFINE x == ses[u]
<1>1. /\ RequestStep(u) /\ x.pc = "creating" /\ t \in Task
      /\ x.task \in Task /\ x.task \notin Live /\ x.add \subseteq Live /\ x.task \notin x.add
  BY DEF RequestStep, CommitCreate, Live, Status, EarnedInv, AsLoaded, WaitInv, Careful
<1>2. /\ task' = [task EXCEPT ![x.task] = x.new] /\ deps' = [deps EXCEPT ![x.task] = x.add]
  BY DEF CommitCreate
<1>3. \A d \in Live : d \in Task /\ task'[d] = task[d]
  BY <1>1, <1>2 DEF Live, TypeInv, TypeOK
<1>4. CASE t = x.task
  <2>1. task'[t] = x.new /\ deps'[t] = x.add
    BY <1>2, <1>4, <1>1 DEF TypeInv, TypeOK
  <2>2. Unfinished(deps[t])' => Unfinished(x.add)
    BY <1>1, <1>3, <2>1 DEF Unfinished
  <2>3. Unfinished(x.add) => x.new.status = "inbox"
    BY <1>1 DEF WaitInv, Careful
  <2> QED
    BY <2>1, <2>2, <2>3 DEF Clear, Running
<1>5. CASE t # x.task
  <2>1. task'[t] = task[t] /\ deps'[t] = deps[t] /\ t \in Live
    BY <1>1, <1>2, <1>5 DEF TypeInv, TypeOK, Live
  <2>2. CASE Clear(t)
    <3>1. deps[t] \subseteq Live
      BY <1>1 DEF WaitInv, GraphInv
    <3>2. Unfinished(deps[t])' => Unfinished(deps[t])
      BY <1>3, <2>1, <3>1 DEF Unfinished
    <3> QED
      BY <1>1, <2>1, <2>2, <3>2, ClearStays
  <2>3. ASSUME NEW v \in Session, Behind(v, t)
        PROVE  \E s \in Session : Behind(s, t)'
    <3>1. v # u
      BY <1>1, <2>3 DEF Behind
    <3> QED
      BY <1>1, <2>1, <2>3, <3>1, BehindStays
  <2> QED
    BY <2>1, <2>2, <2>3 DEF WaitInv
<1> QED
  BY <1>4, <1>5

\* Rereading finds every dependent that was left running.
LEMMA RereadFinds ==
    ASSUME NothingCutOff, TypeInv, SteadyInv, WaitInv, FarApart, [Next]_vars,
           NEW u \in Session, Reread(u), NEW t \in Live
    PROVE  Clear(t)' \/ \E s \in Session : Behind(s, t)'
<1>1. RequestStep(u) /\ t \in Task
  BY DEF RequestStep, Patch, Live
<1>2. task' = task /\ deps' = deps /\ waived' = waived
  BY DEF Reread, data
<1>3. CASE Clear(t)
  BY <1>2, <1>3 DEF Clear, Unfinished
<1>4. ASSUME NEW v \in Session \ {u}, Behind(v, t)
      PROVE  \E s \in Session : Behind(s, t)'
  BY <1>1, <1>2, <1>4, BehindStays
<1>5. CASE ~Clear(t) /\ Behind(u, t)
  <2>1. /\ ses[u].task \in deps[t] /\ ses[u].old.status = "done"
        /\ task[ses[u].task].status # "done"
    BY <1>5 DEF Behind, Reread
  <2>2. Returns(task[t])
    BY <1>5 DEF Clear, Returns
  <2>3. t \in DOMAIN ses'[u].plan /\ ses'[u].pc = "logged"
    BY <2>1, <2>2, RereadSets
  <2> QED
    BY <2>3 DEF Behind
<1> QED
  BY <1>3, <1>4, <1>5 DEF WaitInv

\* The other steps change no task.
LEMMA WaitQuiet ==
    ASSUME NothingCutOff, TypeInv, SteadyInv, WaitInv, FarApart, [Next]_vars,
           NEW u \in Session, RequestStep(u),
           ~(Commit(u) \/ Reread(u) \/ CommitDependents(u) \/ CommitCreate(u)), NEW t \in Live
    PROVE  Clear(t)' \/ \E s \in Session : Behind(s, t)'
<1>1. t \in Task
  BY DEF Live
<1>2. task' = task /\ deps' = deps /\ waived' = waived
  BY DEF RequestStep, Patch, Load, Guard, Check, Refuse, Create, Crash, Approve, Ask,
         LoadApproval, Decide, Reopen, CommitPending, data
<1>3. ses[u].pc \notin {"committed", "logged"}
  BY NoneCutOff DEF RequestStep, Patch, Load, Guard, Check, Refuse, Create, Approve, Ask,
         LoadApproval, Decide, Reopen, CommitPending
<1>4. CASE Clear(t)
  BY <1>2, <1>4 DEF Clear, Unfinished
<1>5. ASSUME NEW v \in Session, Behind(v, t)
      PROVE  \E s \in Session : Behind(s, t)'
  <2>1. v # u
    BY <1>3, <1>5 DEF Behind
  <2> QED
    BY <1>1, <1>2, <1>5, <2>1, BehindStays
<1> QED
  BY <1>4, <1>5 DEF WaitInv

LEMMA WaitStep ==
    ASSUME NothingCutOff, TypeInv, SteadyInv, EarnedInv, WaitInv, FarApart, [Next]_vars
    PROVE  WaitInv'
<1>1. GraphInv'
  BY GraphStep
<1>2. CASE AskResolved \/ UNCHANGED vars
  <2>1. UNCHANGED <<task, deps, waived, ses>>
    BY <1>2 DEF AskResolved, vars
  <2>2. Live' = Live
    BY <2>1 DEF Live
  <2>3. \A D : Unfinished(D)' <=> Unfinished(D)
    BY <2>1 DEF Unfinished
  <2>4. \A s \in Session : Careful(s)'
    <3> SUFFICES ASSUME NEW s \in Session
                 PROVE  Careful(s)'
      OBVIOUS
    <3>1. Unfinished(After(s))' <=> Unfinished(After(s))
      BY <2>1 DEF Unfinished, After
    <3>2. Unfinished(deps[ses[s].task])' <=> Unfinished(deps[ses[s].task])
      BY <2>1 DEF Unfinished
    <3>3. Unfinished(ses[s].add)' <=> Unfinished(ses[s].add)
      BY <2>1 DEF Unfinished
    <3> QED
      BY <2>1, <2>2, <3>1, <3>2, <3>3 DEF WaitInv, Careful, Returns
  <2>5. ASSUME NEW t \in Live
        PROVE  Clear(t)' \/ \E s \in Session : Behind(s, t)'
    <3>1. Clear(t)' <=> Clear(t)
      BY <2>1 DEF Clear, Unfinished
    <3>2. \A s \in Session : Behind(s, t)' <=> Behind(s, t)
      BY <2>1 DEF Behind
    <3> QED
      BY <3>1, <3>2 DEF WaitInv
  <2> QED
    BY <1>1, <2>2, <2>4, <2>5 DEF WaitInv
<1>3. ASSUME NEW u \in Session, RequestStep(u)
      PROVE  WaitInv'
  <2>1. \A s \in Session : Careful(s)'
    BY <1>3, CarefulOthers, CarefulOwn
  <2>2. ASSUME NEW t \in Live'
        PROVE  Clear(t)' \/ \E s \in Session : Behind(s, t)'
    <3>1. ~CommitCreate(u) => t \in Live
      <4>1. t \in Task
        BY DEF Live
      <4>2. CASE Commit(u)
        BY <4>1, <4>2, CommitSets DEF Live
      <4>3. CASE CommitDependents(u)
        <5>1. t \in DOMAIN ses[u].plan => t \in Live
          BY <4>3 DEF CommitDependents
        <5>2. t \notin DOMAIN ses[u].plan => task'[t] = task[t]
          BY <4>1, <4>3 DEF CommitDependents
        <5> QED
          BY <4>1, <5>1, <5>2 DEF Live
      <4>4. CASE ~(Commit(u) \/ CommitDependents(u) \/ CommitCreate(u))
        <5>1. task' = task
          BY <1>3, <4>4 DEF RequestStep, Patch, Load, Guard, Check, Refuse, Reread, Create,
                      Crash, Approve, Ask, LoadApproval, Decide, Reopen, CommitPending, data
        <5> QED
          BY <5>1 DEF Live
      <4> QED
        BY <4>2, <4>3, <4>4
    <3>2. CASE CommitCreate(u)
      BY <3>2, CreationClear
    <3>3. CASE Commit(u)
      <4>1. t \in Live /\ t \in Task
        BY <3>1, <3>3 DEF Live, Commit, CommitCreate
      <4>2. CASE t = ses[u].task
        BY <3>3, <4>1, <4>2, CommitClear
      <4>3. CASE t # ses[u].task
        BY <3>3, <4>1, <4>3, CommitOthers
      <4> QED
        BY <4>2, <4>3
    <3>4. CASE ~CommitCreate(u) /\ ~Commit(u)
      BY <1>3, <3>1, <3>4, ResetClears, RereadFinds, WaitQuiet
    <3> QED
      BY <3>2, <3>3, <3>4
  <2> QED
    BY <1>1, <2>1, <2>2 DEF WaitInv
<1> QED
  BY <1>2, <1>3, NoneDeleted DEF Next, RequestStep

LEMMA InitWait == Init => WaitInv
<1> SUFFICES ASSUME Init
             PROVE  WaitInv
  OBVIOUS
<1>1. \A t \in Task : deps[t] = {} /\ task[t].status \in {"new", "inbox"}
  BY DEF Init
<1>2. \A s \in Session : Careful(s)
  BY DEF Init, Idle, Careful
<1>3. GraphInv
  BY <1>1 DEF GraphInv
<1>4. \A t \in Live : Clear(t)
  BY <1>1 DEF Clear, Running, Live
<1> QED
  BY <1>2, <1>3, <1>4 DEF WaitInv

LEMMA WaitCorrect ==
    ASSUME NothingCutOff
    PROVE  Spec /\ []FarApart => [](TypeInv /\ SteadyInv /\ EarnedInv /\ WaitInv)
<1>1. Init => TypeInv /\ SteadyInv /\ EarnedInv /\ WaitInv
  BY InitType, InitSteady, InitEarned, InitWait
<1>2. TypeInv /\ SteadyInv /\ EarnedInv /\ WaitInv /\ FarApart /\ [Next]_vars
         => TypeInv' /\ SteadyInv' /\ EarnedInv' /\ WaitInv'
  BY TypeStep, SteadyStep, EarnedStep, WaitStep, FarIsApart
<1> QED
  BY <1>1, <1>2, PTL DEF Spec

\* As long as no two open requests are about the same tasks and dependencies,
\* and no request is cut off between its transactions, no task is left running
\* while something it depends on is unfinished, unless the lead wanted it so.
THEOREM BlockedTasksAreHeld ==
    ASSUME NothingCutOff
    PROVE  Spec /\ []FarApart => []BlockedTasksWait
<1>1. WaitInv => BlockedTasksWait
  BY DEF WaitInv, BlockedTasksWait, AllIdle, Clear, Behind
<1> QED
  BY <1>1, WaitCorrect, PTL
=============================================================================
