------------------------ MODULE AgentLifecycleProofs ------------------------
(* Theorems about AgentLifecycle, for any number of requests, workers and     *)
(* heartbeats and any set of failures.                                        *)
EXTENDS AgentLifecycle, TLAPS

-----------------------------------------------------------------------------
(* Types of what the code computes on a row.                                *)

\* A flush makes a row out of rows.
LEMMA MergeType ==
    ASSUME NEW a \in Row, NEW b \in Row, NEW c \in Row
    PROVE  Merge(a, b, c) \in Row
  BY DEF Merge, Row

\* The row run_lifecycle asks for.
LEMMA RequestedType ==
    ASSUME NEW r \in Row, NEW o, NEW t \in Nat, NEW k \in Nat
    PROVE  Requested(r, o, t, k) \in Row
<1> DEFINE s == IF o \in {"create", "main"} THEN "provisioning" ELSE "updating"
           d == IF Wakes(o) THEN t + Grace ELSE None
           n == IF Wakes(o) THEN r.wakes + 1 ELSE r.wakes
           w == IF Wakes(o) THEN t ELSE r.wakeAt
<1>1. s \in Status /\ r.gen + 1 \in Nat
  BY DEF Status, Row
<1>2. d \in Nat /\ n \in Nat /\ w \in Nat
  BY ConstantsAssumption DEF Row, None
<1> QED
  BY <1>1, <1>2 DEF Requested, Row

\* The row of a run that ended well.
LEMMA CompletedType ==
    ASSUME NEW r \in Row, NEW o, now \in Nat
    PROVE  Completed(r, o) \in Row
<1>1. (IF Wakes(o) THEN now + Grace ELSE None) \in Nat
  BY ConstantsAssumption DEF None
<1> QED
  BY <1>1 DEF Completed, Row, Status

\* The row the worker gives up on.
LEMMA GivenUpType ==
    ASSUME NEW r \in Row
    PROVE  GivenUp(r) \in Row
  BY DEF GivenUp, Row, Status, None

\* The row after a presence touch.
LEMMA TouchedType ==
    ASSUME NEW r \in Row, NEW t \in Nat
    PROVE  Touched(r, t) \in Row
  BY DEF Touched, Row, Status

\* The row after a heartbeat.
LEMMA HeartbeatenType ==
    ASSUME NEW r \in Row, NEW t \in Nat, NEW given \in BOOLEAN
    PROVE  Heartbeaten(r, t, given) \in Row
  BY DEF Heartbeaten, Row, Status, None

\* The row with another token.
LEMMA TokenRowType ==
    ASSUME NEW r \in Row, NEW k \in Nat
    PROVE  [r EXCEPT !.token = k] \in Row
  BY DEF Row

\* The row of a new agent.
LEMMA NewRowType ==
    ASSUME NEW k \in Nat
    PROVE  NewRow(k) \in Row
  BY DEF NewRow, Row, Status, None

-----------------------------------------------------------------------------
(* Closing a session, and failing out of one, keep the types of the session. *)

SessionOK ==
    /\ pc \in [Proc -> PC]
    /\ op \in [Proc -> AllOps \union {"reconcile", "heartbeat", "touch", "none"}]
    /\ mem \in [Proc -> Row] /\ draft \in [Proc -> Row]
    /\ tok \in [Proc -> Nat]
    /\ hand \in [Proc -> Message] /\ post \in [Proc -> Message]

\* A closed session holds nothing of the wrong type.
LEMMA ClosedType ==
    ASSUME SessionOK, NEW p \in Proc, Closed(p)
    PROVE  SessionOK'
  BY NewRowType DEF SessionOK, Closed, PC, NoMessage, Message

\* Neither does one whose handler raised.
LEMMA RaisedType ==
    ASSUME SessionOK, NEW p \in Proc, Raised(p)
    PROVE  SessionOK'
  BY ClosedType DEF SessionOK, Raised, PC

-----------------------------------------------------------------------------
(* Type correctness.                                                        *)

\* The initial state is of the right type.
LEMMA InitType == Init => TypeOK
  BY NewRowType DEF Init, TypeOK, Runner, Proc, NoMessage, Message, PC

\* Every API operation keeps the types.
LEMMA RequestType ==
    ASSUME TypeOK, NEW c \in Caller, Request(c) \/ DeleteRow(c)
    PROVE  TypeOK'
<1> c \in Proc /\ c \in Runner
  BY DEF Runner, Proc
<1> USE DEF TypeOK, Goto, store, session, Fails
<1>1. CASE Create(c)
  <2>1. row' \in Row /\ minted' \in Nat
    BY <1>1, NewRowType DEF Create
  <2> QED
    BY <1>1, <2>1 DEF Create, PC, AllOps
<1>2. CASE Update(c)
  <2>1. row' \in Row /\ minted' \in Nat
    BY <1>2, TokenRowType DEF Update, CommitToken
  <2> QED
    BY <1>2, <2>1 DEF Update, CommitToken, PC, AllOps
<1>3. CASE ProvisionMain(c)
  BY <1>3 DEF ProvisionMain, PC, AllOps
<1>4. CASE SyncTemplates(c)
  <2>1. \/ UNCHANGED <<row, minted>>
        \/ minted' = minted + 1 /\ row' = [row EXCEPT !.token = minted']
    BY <1>4 DEF SyncTemplates, CommitToken
  <2>2. minted' \in Nat
    BY <2>1
  <2>3. row' \in Row
    BY <2>1, <2>2, TokenRowType
  <2> QED
    BY <1>4, <2>2, <2>3 DEF SyncTemplates, CommitToken, PC, AllOps
<1>5. CASE DeleteOnGateway(c)
  <2>1. CASE Closed(c)
    BY <1>5, <2>1, ClosedType DEF DeleteOnGateway, SessionOK
  <2>2. CASE ~Closed(c)
    BY <1>5, <2>2 DEF DeleteOnGateway, PC, AllOps
  <2> QED
    BY <2>1, <2>2
<1>6. CASE DeleteRow(c)
  BY <1>6, ClosedType DEF DeleteRow, SessionOK
<1> QED
  BY <1>1, <1>2, <1>3, <1>4, <1>5, <1>6 DEF Request

\* Every step of run_lifecycle keeps the types.
LEMMA RunType ==
    ASSUME TypeOK, NEW p \in Runner, Run(p) \/ Reject(p)
    PROVE  TypeOK'
<1> p \in Proc
  BY DEF Proc
<1> USE DEF TypeOK, Goto, store, session, Fails
<1>1. CASE LockAndFlush(p)
  <2> DEFINE k == IF tok[p] = 0 THEN minted + 1 ELSE tok[p]
             t == IF Wakes(op[p]) THEN now + 1 ELSE now
             r == Requested(mem[p], op[p], t, IF tok[p] = 0 THEN k ELSE mem[p].token)
  <2>1. k \in Nat /\ t \in Nat /\ mem[p] \in Row /\ mem[p].token \in Nat
    BY DEF Row
  <2>2. r \in Row
    BY <2>1, RequestedType
  <2>3. Merge(row, mem[p], r) \in Row
    BY <2>1, <2>2, MergeType
  <2>4. /\ lock' = p /\ now' = t /\ tok' = [tok EXCEPT ![p] = k]
        /\ minted' = IF tok[p] = 0 THEN k ELSE minted
        /\ mem' = [mem EXCEPT ![p] = r]
        /\ draft' = [draft EXCEPT ![p] = Merge(row, mem[p], r)]
        /\ pc' = [pc EXCEPT ![p] = "locked"]
        /\ UNCHANGED <<life, row, gwToken, queue, op, hand, post, beats, faults, sent>>
    BY <1>1 DEF LockAndFlush
  <2> HIDE DEF k, t, r
  <2> QED
    BY <2>1, <2>2, <2>3, <2>4 DEF PC
<1>2. CASE LockMissing(p)
  BY <1>2, RaisedType DEF LockMissing, SessionOK
<1>3. CASE Apply(p)
  BY <1>3 DEF Apply, PC
<1>4. CASE Reject(p)
  BY <1>4, ConstantsAssumption DEF Reject, PC
<1>5. CASE CommitApplied(p)
  <2>1. row' \in Row
    BY <1>5, CompletedType, MergeType DEF CommitApplied
  <2>2. CASE Closed(p)
    BY <1>5, <2>1, <2>2, ClosedType DEF CommitApplied, SessionOK
  <2>3. CASE ~Closed(p)
    BY <1>5, <2>1, <2>3 DEF CommitApplied, PC
  <2> QED
    BY <2>2, <2>3
<1>6. CASE CommitRejected(p)
  <2> DEFINE mine == [mem[p] EXCEPT !.err = TRUE]
  <2>1. mine \in Row
    BY DEF Row
  <2>2. row' \in Row
    BY <1>6, <2>1, MergeType DEF CommitRejected
  <2>3. CASE Raised(p)
    BY <1>6, <2>2, <2>3, RaisedType DEF CommitRejected, SessionOK
  <2>4. CASE ~Raised(p)
    BY <1>6, <2>2, <2>4 DEF CommitRejected, PC
  <2> QED
    BY <2>3, <2>4
<1>7. CASE Refresh(p)
  <2>1. CASE Closed(p)
    BY <1>7, <2>1, ClosedType DEF Refresh, SessionOK
  <2>2. CASE Raised(p)
    BY <1>7, <2>2, RaisedType DEF Refresh, SessionOK
  <2> DEFINE m == [gen |-> row.gen, deadline |-> row.deadline, attempts |-> 0,
                   due |-> row.deadline]
  <2>3. m \in Message
    BY DEF Message, Row
  <2>4. CASE /\ post' = [post EXCEPT ![p] = m]
             /\ pc' = [pc EXCEPT ![p] = "enqueue"]
             /\ UNCHANGED <<op, mem, draft, tok, hand>>
    <3> HIDE DEF m
    <3> QED
      BY <1>7, <2>3, <2>4 DEF Refresh, PC
  <2> QED
    BY <1>7, <2>1, <2>2, <2>4 DEF Refresh
<1>8. CASE Enqueue(p)
  <2>1. queue' \subseteq Message /\ faults' \in Nat
    BY <1>8 DEF Enqueue
  <2> QED
    BY <1>8, <2>1, ClosedType DEF Enqueue, SessionOK
<1> QED
  BY <1>1, <1>2, <1>3, <1>4, <1>5, <1>6, <1>7, <1>8 DEF Run

\* Every step of the queue worker keeps the types.
LEMMA ReconcileType ==
    ASSUME TypeOK, NEW w \in Worker, Reconcile(w) \/ TimeOut(w)
    PROVE  TypeOK'
<1> w \in Proc /\ w \in Runner
  BY DEF Proc, Runner
<1> USE DEF TypeOK, Goto, store, session, Fails
<1>1. CASE Pop(w)
  BY <1>1 DEF Pop, PC
<1>2. CASE Skip(w)
  BY <1>2, ClosedType DEF Skip, SessionOK
<1>3. CASE Defer(w)
  <2>1. DeadlineOf(hand[w]) \in Nat
    BY DEF DeadlineOf, Row, Message
  <2>2. [hand[w] EXCEPT !.due = DeadlineOf(hand[w])] \in Message
    BY <2>1 DEF Message
  <2>3. queue' \subseteq Message /\ faults' \in Nat
    BY <1>3, <2>2 DEF Defer
  <2>4. CASE Closed(w)
    BY <1>3, <2>3, <2>4, ClosedType DEF Defer, SessionOK
  <2>5. CASE Raised(w)
    BY <1>3, <2>3, <2>5, RaisedType DEF Defer, SessionOK
  <2> QED
    BY <1>3, <2>4, <2>5 DEF Defer
<1>4. CASE Decide(w)
  BY <1>4 DEF Decide, PC
<1>5. CASE GiveUp(w)
  <2>1. row' \in Row
    BY <1>5, GivenUpType, MergeType DEF GiveUp
  <2>2. CASE Closed(w)
    BY <1>5, <2>1, <2>2, ClosedType DEF GiveUp, SessionOK
  <2>3. CASE Raised(w)
    BY <1>5, <2>1, <2>3, RaisedType DEF GiveUp, SessionOK
  <2> QED
    BY <1>5, <2>2, <2>3 DEF GiveUp
<1>6. CASE Requeue(w)
  <2>1. [hand[w] EXCEPT !.attempts = @ + 1, !.due = now + RetryDelay] \in Message
    <3>1. now + RetryDelay \in Nat /\ hand[w].attempts + 1 \in Nat /\ hand[w] \in Message
      BY ConstantsAssumption DEF Message
    <3> QED
      BY <3>1 DEF Message
  <2>2. queue' \subseteq Message /\ faults' \in Nat
    BY <1>6, <2>1 DEF Requeue
  <2> QED
    BY <1>6, <2>2, ClosedType DEF Requeue, SessionOK
<1>7. CASE TimeOut(w)
  <2>1. gwToken' \in Nat /\ lock' \in Runner \union {Free} /\ faults' \in Nat
    BY <1>7 DEF TimeOut, Interrupted
  <2> QED
    BY <1>7, <2>1, RaisedType DEF TimeOut, SessionOK
<1> QED
  BY <1>1, <1>2, <1>3, <1>4, <1>5, <1>6, <1>7 DEF Reconcile

\* Heartbeats, crashes and the clock keep the types.
LEMMA RestType ==
    ASSUME TypeOK,
           \/ \E p \in Runner : Crash(p)
           \/ \E b \in Beat : BeatLoad(b) \/ BeatCommit(b)
           \/ Tick
    PROVE  TypeOK'
<1> USE DEF TypeOK, Goto, store, session, Fails
<1>1. ASSUME NEW p \in Runner, Crash(p)
      PROVE  TypeOK'
  <2> p \in Proc
    BY DEF Proc
  <2>1. gwToken' \in Nat /\ lock' \in Runner \union {Free} /\ faults' \in Nat
    BY <1>1 DEF Crash, Interrupted
  <2> QED
    BY <1>1, <2>1, ClosedType DEF Crash, SessionOK
<1>2. ASSUME NEW b \in Beat, BeatLoad(b)
      PROVE  TypeOK'
  BY <1>2 DEF BeatLoad, PC, AllOps, Proc
<1>3. ASSUME NEW b \in Beat, BeatCommit(b)
      PROVE  TypeOK'
  <2> b \in Proc
    BY DEF Proc
  <2>1. \A mine \in BeatRows(b) : mine \in Row
    <3>1. mem[b] \in Row /\ tok[b] \in Nat /\ now \in Nat
      OBVIOUS
    <3>2. tok[b] .. now \subseteq Nat
      BY <3>1
    <3>3. Touched(mem[b], tok[b]) \in Row
      BY <3>1, TouchedType
    <3>4. \A r \in Row, t \in Nat, given \in BOOLEAN : Heartbeaten(r, t, given) \in Row
      BY HeartbeatenType
    <3>5. ASSUME NEW mine \in BeatRows(b) PROVE mine \in Row
      <4>1. \/ mine = Touched(mem[b], tok[b])
            \/ \E r \in {mem[b], Touched(mem[b], tok[b])}, t \in tok[b] .. now, given \in BOOLEAN :
                  mine = Heartbeaten(r, t, given)
        BY <3>5 DEF BeatRows
      <4> QED
        BY <3>1, <3>2, <3>3, <3>4, <4>1, Zenon
    <3> QED
      BY <3>5
  <2>2. row' \in Row
    BY <1>3, <2>1, MergeType DEF BeatCommit
  <2> QED
    BY <1>3, <2>2, ClosedType DEF BeatCommit, SessionOK
<1>4. CASE Tick
  BY <1>4 DEF Tick
<1> QED
  BY <1>1, <1>2, <1>3, <1>4

\* Every reachable state has the types of the columns, the queue and the
\* sessions.
THEOREM TypeCorrect == Spec => []TypeOK
<1>1. TypeOK /\ [Next]_vars => TypeOK'
  <2> SUFFICES ASSUME TypeOK, [Next]_vars
               PROVE  TypeOK'
    OBVIOUS
  <2>1. CASE Next
    BY <2>1, RequestType, RunType, ReconcileType, RestType DEF Next
  <2>2. CASE UNCHANGED vars
    BY <2>2 DEF vars, TypeOK
  <2> QED
    BY <2>1, <2>2
<1> QED
  BY InitType, <1>1, PTL DEF Spec
-----------------------------------------------------------------------------
(* The lock, and what it gives.                                             *)

\* Every step keeps the row lock with the one run that is at the gateway.
LEMMA ExclusiveRunStep ==
    ASSUME TypeOK, ExclusiveRun, [Next]_vars
    PROVE  ExclusiveRun'
<1> Free \notin Runner /\ Runner \subseteq Proc
  BY ConstantsAssumption DEF Proc
<1> Caller \subseteq Runner /\ Worker \subseteq Runner /\ Beat \intersect Runner = {}
  BY ConstantsAssumption DEF Runner
<1> pc \in [Proc -> PC]
  BY DEF TypeOK
<1> USE DEF ExclusiveRun, Goto, store, session
<1>1. ASSUME NEW c \in Caller, Request(c) \/ DeleteRow(c)
      PROVE  ExclusiveRun'
  BY <1>1 DEF Request, Create, Update, CommitToken, ProvisionMain, SyncTemplates,
              DeleteOnGateway, DeleteRow, Closed
<1>2. ASSUME NEW p \in Runner, LockAndFlush(p)
      PROVE  ExclusiveRun'
  <2>1. /\ lock = Free /\ life = "live" /\ life' = life /\ lock' = p
        /\ pc[p] = "prepared" /\ pc' = [pc EXCEPT ![p] = "locked"]
    BY <1>2 DEF LockAndFlush, Lockable
  <2> QED
    BY <2>1
<1>3. ASSUME NEW p \in Runner, Apply(p) \/ Reject(p)
      PROVE  ExclusiveRun'
  BY <1>3 DEF Apply, Reject
<1>4. ASSUME NEW p \in Runner, LockMissing(p) \/ Refresh(p) \/ Enqueue(p)
      PROVE  ExclusiveRun'
  BY <1>4 DEF LockMissing, Refresh, Enqueue, Raised, Closed
<1>5. ASSUME NEW p \in Runner, CommitApplied(p)
      PROVE  ExclusiveRun'
  BY <1>5 DEF CommitApplied, Closed
<1>6. ASSUME NEW p \in Runner, CommitRejected(p)
      PROVE  ExclusiveRun'
  BY <1>6 DEF CommitRejected, Raised, Closed
<1>7. ASSUME NEW p \in Runner, Crash(p)
      PROVE  ExclusiveRun'
  BY <1>7 DEF Crash, Closed
<1>8. ASSUME NEW w \in Worker, Reconcile(w)
      PROVE  ExclusiveRun'
  BY <1>8 DEF Reconcile, Pop, Skip, Defer, Decide, GiveUp, Requeue, Raised, Closed
<1>9. ASSUME NEW w \in Worker, TimeOut(w)
      PROVE  ExclusiveRun'
  BY <1>9 DEF TimeOut, Raised
<1>10. ASSUME NEW b \in Beat, BeatLoad(b) \/ BeatCommit(b)
       PROVE  ExclusiveRun'
  BY <1>10 DEF BeatLoad, BeatCommit, Closed
<1>11. CASE Tick \/ UNCHANGED vars
  BY <1>11 DEF Tick, vars
<1> QED
  BY <1>1, <1>2, <1>3, <1>4, <1>5, <1>6, <1>7, <1>8, <1>9, <1>10, <1>11 DEF Next, Run

\* Runs for one agent take turns at the gateway.
THEOREM RunsTakeTurns == Spec => []ExclusiveRun
<1>1. Init => ExclusiveRun
  BY ConstantsAssumption DEF Init, ExclusiveRun, Runner, Proc
<1>2. TypeOK /\ ExclusiveRun /\ [Next]_vars => ExclusiveRun'
  BY ExclusiveRunStep
<1> QED
  BY <1>1, <1>2, TypeCorrect, PTL DEF Spec

\* A deleted agent is never provisioned again: the gateway is written to only by
\* a run that holds the lock on an existing row, and by the deletion itself.
THEOREM DeletedAgentsStayDeleted == Spec => DeletedStaysClean
<1>1. TypeOK /\ ExclusiveRun /\ [Next]_vars => (life = "gone" => gwToken' = gwToken)
  <2> SUFFICES ASSUME TypeOK, ExclusiveRun, [Next]_vars, life = "gone"
               PROVE  gwToken' = gwToken
    OBVIOUS
  <2>1. \A p \in Runner : pc[p] \notin {"locked", "applied", "rejected"}
    BY ConstantsAssumption DEF ExclusiveRun, Proc
  <2>2. ASSUME NEW c \in Caller, Request(c) \/ DeleteRow(c)
        PROVE  gwToken' = gwToken
    BY <2>2 DEF Request, Create, Update, ProvisionMain, SyncTemplates,
                DeleteOnGateway, DeleteRow
  <2>3. ASSUME NEW p \in Runner, Run(p) \/ Reject(p) \/ Crash(p)
        PROVE  gwToken' = gwToken
    BY <2>1, <2>3 DEF Run, LockAndFlush, Lockable, LockMissing, Apply, CommitApplied,
                CommitRejected, Refresh, Enqueue, Reject, Crash, Interrupted
  <2>4. ASSUME NEW w \in Worker, Reconcile(w) \/ TimeOut(w)
        PROVE  gwToken' = gwToken
    <3> w \in Runner
      BY DEF Runner
    <3> QED
      BY <2>1, <2>4 DEF Reconcile, Pop, Skip, Defer, Decide, GiveUp, Requeue,
                TimeOut, Interrupted
  <2>5. ASSUME NEW b \in Beat, BeatLoad(b) \/ BeatCommit(b)
        PROVE  gwToken' = gwToken
    BY <2>5 DEF BeatLoad, BeatCommit
  <2>6. CASE Tick \/ UNCHANGED vars
    BY <2>6 DEF Tick, vars
  <2> QED
    BY <2>2, <2>3, <2>4, <2>5, <2>6 DEF Next
<1> QED
  BY <1>1, TypeCorrect, RunsTakeTurns, PTL DEF Spec, DeletedStaysClean

-----------------------------------------------------------------------------
(* How often the agent is woken.                                            *)

\* What a process does that leads to a wake of the agent.
Waking(p) == op[p] \in {"create", "update", "main", "reconcile"}

\* Which operation a process performs, by the position it is in.
Posted ==
    /\ \A p \in Runner :
          /\ pc[p] \in {"idle", "done"} => op[p] = "none"
          /\ pc[p] \in {"prepared", "locked", "applied", "rejected"} =>
                Waking(p) \/ op[p] \in {"sync", "rotate"}
          /\ pc[p] \in {"refresh", "enqueue"} => Waking(p)
          /\ pc[p] = "unlinked" => op[p] = "delete"
          /\ pc[p] # "beating"
    /\ \A w \in Worker : op[w] = IF pc[w] = "idle" THEN "none" ELSE "reconcile"
    /\ \A c \in Caller : /\ op[c] \in Op \union {"none"}
                         /\ pc[c] \notin {"popped", "giveup", "raised"}

\* Every step leaves each process with the operation of its position.
LEMMA PostedStep ==
    ASSUME TypeOK, Posted, [Next]_vars
    PROVE  Posted'
<1> /\ Runner \subseteq Proc /\ Caller \subseteq Runner /\ Worker \subseteq Runner
    /\ Beat \subseteq Proc /\ Beat \intersect Runner = {} /\ Caller \intersect Worker = {}
    /\ Runner = Caller \union Worker
  BY ConstantsAssumption DEF Proc, Runner
<1> /\ pc \in [Proc -> PC]
    /\ op \in [Proc -> AllOps \union {"reconcile", "heartbeat", "touch", "none"}]
  BY DEF TypeOK
<1> USE DEF Posted, Waking, Goto, store, session
<1>1. ASSUME NEW c \in Caller, Request(c) \/ DeleteRow(c)
      PROVE  Posted'
  BY <1>1 DEF Request, Create, Update, CommitToken, ProvisionMain, SyncTemplates,
              DeleteOnGateway, DeleteRow, Closed
<1>2. ASSUME NEW p \in Runner, LockAndFlush(p) \/ Apply(p) \/ Reject(p)
      PROVE  Posted'
  <2>1. /\ op' = op
        /\ \/ pc[p] = "prepared" /\ pc' = [pc EXCEPT ![p] = "locked"]
           \/ pc[p] = "locked" /\ pc' = [pc EXCEPT ![p] = "applied"]
           \/ pc[p] = "locked" /\ pc' = [pc EXCEPT ![p] = "rejected"]
    BY <1>2 DEF LockAndFlush, Apply, Reject
  <2> QED
    BY <2>1
<1>3. ASSUME NEW p \in Runner, Raised(p), pc[p] \notin {"idle", "done"}
      PROVE  Posted'
  BY <1>3 DEF Raised, Closed
<1>4. ASSUME NEW p \in Runner, Closed(p)
      PROVE  Posted'
  BY <1>4 DEF Closed
<1>5. ASSUME NEW p \in Runner, CommitApplied(p) \/ CommitRejected(p) \/ Refresh(p)
      PROVE  Posted'
  <2>1. CASE Closed(p) \/ Raised(p)
    BY <1>3, <1>4, <1>5, <2>1 DEF CommitApplied, CommitRejected, Refresh
  <2>2. CASE ~Closed(p) /\ ~Raised(p)
    BY <1>5, <2>2 DEF CommitApplied, CommitRejected, Refresh, Wakes
  <2> QED
    BY <2>1, <2>2
<1>6. ASSUME NEW p \in Runner, LockMissing(p) \/ Enqueue(p) \/ Crash(p)
      PROVE  Posted'
  BY <1>3, <1>4, <1>6 DEF LockMissing, Enqueue, Crash
<1>7. ASSUME NEW w \in Worker, Reconcile(w) \/ TimeOut(w)
      PROVE  Posted'
  <2>1. CASE Closed(w) \/ Raised(w)
    BY <1>3, <1>4, <1>7, <2>1
       DEF Reconcile, Pop, Skip, Defer, Decide, GiveUp, Requeue, TimeOut
  <2>2. CASE Pop(w) \/ Decide(w)
    BY <2>2 DEF Pop, Decide
  <2> QED
    BY <1>7, <2>1, <2>2 DEF Reconcile, Skip, Defer, GiveUp, Requeue, TimeOut
<1>8. ASSUME NEW b \in Beat, BeatLoad(b) \/ BeatCommit(b)
      PROVE  Posted'
  <2>1. \A p \in Runner : pc'[p] = pc[p] /\ op'[p] = op[p]
    BY <1>8 DEF BeatLoad, BeatCommit, Closed
  <2> QED
    BY <2>1
<1>9. CASE Tick \/ UNCHANGED vars
  BY <1>9 DEF Tick, vars
<1> QED
  BY <1>1, <1>2, <1>5, <1>6, <1>7, <1>8, <1>9 DEF Next, Run

\* Only one worker takes messages.
LoneWorker == \A v, w \in Worker : v = w

\* There is one run that wakes the agent or one message that asks for one; a lone
\* worker may find messages of older runs besides.
OneChain ==
    /\ \A p, q \in Runner : Waking(p) /\ Waking(q) => p = q
    /\ \A p \in Runner : Waking(p) /\ (p \in Caller \/ ~LoneWorker) => queue = {}
    /\ ~LoneWorker => \A m, n \in queue : m = n
    /\ life = "none" => queue = {} /\ sent = 0 /\ \A p \in Runner : ~Waking(p)

\* The agent is woken by its creation only, and no message is delivered to two workers.
OneWakeAtATime ==
    /\ Op \intersect {"update", "main"} = {}
    /\ LoneWorker \/ "duplicate" \notin Fault

\* One run at a time wakes the agent.
LEMMA OneChainStep ==
    ASSUME OneWakeAtATime, TypeOK, ExclusiveRun, Posted, OneChain, [Next]_vars
    PROVE  OneChain'
<1> /\ Runner \subseteq Proc /\ Caller \subseteq Runner /\ Worker \subseteq Runner
    /\ Beat \intersect Runner = {} /\ Caller \intersect Worker = {}
    /\ Runner = Caller \union Worker
  BY ConstantsAssumption DEF Proc, Runner
<1> /\ pc \in [Proc -> PC]
    /\ op \in [Proc -> AllOps \union {"reconcile", "heartbeat", "touch", "none"}]
  BY DEF TypeOK
<1> USE DEF Goto, store, session, OneWakeAtATime
<1> DEFINE Kept == life' # "none" \/ UNCHANGED <<life, sent>>
\* A process that ends stops waking; one that goes on keeps its operation.
<1>1. ASSUME NEW p \in Runner, UNCHANGED queue, Kept,
             Closed(p) \/ op' = op \/ Raised(p)
      PROVE  OneChain'
  <2>1. \A q \in Runner : Waking(q)' => Waking(q)
    BY <1>1 DEF Closed, Raised, Waking
  <2> QED
    BY <1>1, <2>1 DEF OneChain
<1>2. ASSUME NEW p \in Runner, Waking(p), Closed(p), NEW m, queue' = queue \union {m}, Kept
      PROVE  OneChain'
  <2>1. \A q \in Runner : ~Waking(q)'
    BY <1>2 DEF OneChain, Closed, Waking
  <2>2. ~LoneWorker => queue = {}
    BY <1>2 DEF OneChain
  <2>3. life # "none"
    BY <1>2 DEF OneChain
  <2> QED
    BY <1>2, <2>1, <2>2, <2>3 DEF OneChain
<1>3. ASSUME NEW c \in Caller, Create(c)
      PROVE  OneChain'
  <2>1. \A q \in Runner : Waking(q)' => q = c
    BY <1>3 DEF Create, OneChain, Waking
  <2> QED
    BY <1>3, <2>1 DEF Create, OneChain
<1>4. ASSUME NEW c \in Caller, Request(c), ~Create(c)
      PROVE  OneChain'
  <2>1. op[c] = "none" /\ op'[c] \notin {"create", "update", "main", "reconcile"}
    BY <1>4 DEF Request, Update, ProvisionMain, SyncTemplates, DeleteOnGateway, Closed, Posted
  <2>2. \A q \in Runner : q # c => op'[q] = op[q]
    BY <1>4 DEF Request, Update, ProvisionMain, SyncTemplates, DeleteOnGateway, Closed
  <2>3. \A q \in Runner : Waking(q)' => Waking(q)
    BY <2>1, <2>2 DEF Waking
  <2>4. UNCHANGED <<queue, sent>> /\ life' = life
    BY <1>4 DEF Request, Update, ProvisionMain, SyncTemplates, DeleteOnGateway
  <2> QED
    BY <2>3, <2>4 DEF OneChain
<1>5. ASSUME NEW c \in Caller, DeleteRow(c)
      PROVE  OneChain'
  BY <1>1, <1>5 DEF DeleteRow
<1>6. ASSUME NEW p \in Runner, \/ LockAndFlush(p) \/ LockMissing(p) \/ Apply(p) \/ Reject(p)
                               \/ CommitApplied(p) \/ CommitRejected(p) \/ Refresh(p)
                               \/ Crash(p)
      PROVE  OneChain'
  <2>1. UNCHANGED <<queue, life>> /\ (Closed(p) \/ op' = op \/ Raised(p))
    BY <1>6 DEF LockAndFlush, LockMissing, Apply, Reject, CommitApplied, CommitRejected,
                Refresh, Crash
  <2>2. CASE Apply(p)
    <3>1. life' = "live"
      BY <2>2, ConstantsAssumption DEF Apply, ExclusiveRun, Proc
    <3> QED
      BY <1>1, <2>1, <3>1
  <2>3. CASE ~Apply(p)
    <3>1. UNCHANGED <<life, sent>>
      BY <1>6, <2>3 DEF LockAndFlush, LockMissing, Reject, CommitApplied, CommitRejected,
                        Refresh, Crash
    <3> QED
      BY <1>1, <2>1, <3>1
  <2> QED
    BY <2>2, <2>3
<1>7. ASSUME NEW p \in Runner, Enqueue(p)
      PROVE  OneChain'
  <2>1. Waking(p) /\ Closed(p) /\ Kept
    BY <1>7 DEF Enqueue, Posted
  <2> QED
    BY <1>1, <1>2, <1>7, <2>1 DEF Enqueue
<1>8. ASSUME NEW w \in Worker, Pop(w)
      PROVE  OneChain'
  <2>1. queue # {} /\ life # "none"
    BY <1>8 DEF Pop, OneChain
  <2>2. ASSUME NEW q \in Runner, Waking(q)'
        PROVE  q = w
    <3>1. CASE q \in Caller
      BY <1>8, <2>1, <2>2, <3>1 DEF Pop, OneChain, Waking
    <3>2. CASE q \in Worker /\ q # w
      BY <1>8, <2>1, <2>2, <3>2 DEF Pop, OneChain, Waking, LoneWorker
    <3> QED
      BY <3>1, <3>2
  <2>3. queue' \subseteq queue /\ (~LoneWorker => queue' = {})
    BY <1>8 DEF Pop, OneChain, Fails
  <2>4. life' = life
    BY <1>8 DEF Pop
  <2> QED
    BY <2>1, <2>2, <2>3, <2>4 DEF OneChain
<1>9. ASSUME NEW w \in Worker, Skip(w) \/ Decide(w) \/ GiveUp(w) \/ TimeOut(w)
      PROVE  OneChain'
  <2>1. /\ UNCHANGED queue /\ (Closed(w) \/ op' = op \/ Raised(w))
        /\ UNCHANGED <<life, sent>>
    BY <1>9 DEF Skip, Decide, GiveUp, TimeOut
  <2> QED
    BY <1>1, <2>1
<1>10. ASSUME NEW w \in Worker, Defer(w) \/ Requeue(w)
       PROVE  OneChain'
  <2>1. Waking(w) /\ Kept
    BY <1>10 DEF Defer, Requeue, Posted, Waking
  <2>2. \/ UNCHANGED queue /\ (Closed(w) \/ Raised(w))
        \/ Closed(w) /\ \E m : queue' = queue \union {m}
    BY <1>10 DEF Defer, Requeue
  <2> QED
    BY <1>1, <1>2, <2>1, <2>2
<1>11. ASSUME NEW b \in Beat, BeatLoad(b) \/ BeatCommit(b)
       PROVE  OneChain'
  <2>1. \A q \in Runner : op'[q] = op[q]
    BY <1>11 DEF BeatLoad, BeatCommit, Closed
  <2>2. UNCHANGED <<queue, life>> /\ (sent' = sent \/ sent' = 0)
    BY <1>11 DEF BeatLoad, BeatCommit
  <2> QED
    BY <2>1, <2>2 DEF OneChain, Waking
<1>12. CASE Tick \/ UNCHANGED vars
  BY <1>12 DEF Tick, vars, OneChain, Waking
<1> QED
  BY <1>3, <1>4, <1>5, <1>6, <1>7, <1>8, <1>9, <1>10, <1>11, <1>12 DEF Next, Run, Reconcile

-----------------------------------------------------------------------------
(* The count of the wakes.                                                  *)

\* What the operations on rows do to the count of wakes.
LEMMA MergeWakes ==
    ASSUME NEW a, NEW b, NEW c
    PROVE  Merge(a, b, c).wakes = IF c.wakes # b.wakes THEN c.wakes ELSE a.wakes
  BY DEF Merge

LEMMA RowWakes ==
    ASSUME NEW r \in Row, NEW o, NEW t, NEW k
    PROVE  /\ Requested(r, o, t, k).wakes = IF Wakes(o) THEN r.wakes + 1 ELSE r.wakes
           /\ Completed(r, o).wakes = r.wakes
           /\ GivenUp(r).wakes = r.wakes
           /\ [r EXCEPT !.err = TRUE].wakes = r.wakes
           /\ [r EXCEPT !.token = k].wakes = r.wakes
  BY DEF Row, Requested, Completed, GivenUp

LEMMA BeatWakes ==
    ASSUME NEW b \in Beat, TypeOK, NEW mine \in BeatRows(b)
    PROVE  mine.wakes \in {0, mem[b].wakes}
<1>1. mem[b] \in Row
  BY DEF TypeOK, Proc
<1>2. \A t : Touched(mem[b], t).wakes = mem[b].wakes
  BY <1>1 DEF Touched, Row
<1>3. \A r, t, given : r = mem[b] \/ (\E u : r = Touched(mem[b], u))
                          => Heartbeaten(r, t, given).wakes = 0
  BY <1>1 DEF Heartbeaten, Touched, Row
<1> QED
  BY <1>2, <1>3 DEF BeatRows

\* The wakes sent since the last check-in are counted in the row, or by the run that
\* sent one and has not committed, or failures account for them. The latter are the
\* ones that undid the count of a wake.
Counted ==
    /\ row.wakes <= MaxWake
    /\ \/ sent <= row.wakes + faults
       \/ /\ sent <= row.wakes + faults + 1
          /\ \E p \in Runner : Waking(p) /\ pc[p] = "applied"

\* The run under way is allowed its wake, counts it, and has not read a count lower than
\* the wakes sent: who could have changed the row meanwhile reset both.
AllowedRun(p) ==
    /\ pc[p] = "prepared" => mem[p].wakes < MaxWake /\ sent <= mem[p].wakes + faults
    /\ pc[p] = "locked" => sent < mem[p].wakes + faults
    /\ pc[p] \in {"locked", "applied", "rejected"} =>
          /\ mem[p].wakes <= MaxWake /\ sent <= mem[p].wakes + faults
          /\ draft[p].wakes = mem[p].wakes

\* The other runs leave the count alone.
NeutralRun(p) ==
    pc[p] \in {"locked", "applied", "rejected"} => draft[p].wakes = row.wakes

Allowed == \A p \in Runner : IF Waking(p) THEN AllowedRun(p) ELSE NeutralRun(p)

EscalationInv == ExclusiveRun /\ Posted /\ OneChain /\ Counted /\ Allowed


\* What a step of one run leaves of the others.
Others(p) ==
    \A q \in Runner \ {p} : /\ pc'[q] = pc[q] /\ op'[q] = op[q]
                            /\ mem'[q] = mem[q] /\ draft'[q] = draft[q]

\* The other runs are as allowed as they were, unless the count changes under them; but
\* then they do not hold the lock.
LEMMA OthersAllowed ==
    ASSUME TypeOK, EscalationInv, NEW p \in Runner, Others(p),
           faults' \in Nat, faults' >= faults,
           sent' = sent \/ sent' = 0 \/ (Waking(p) /\ sent' = sent + 1),
           row'.wakes = row.wakes \/ lock \in {Free, p}
    PROVE  \A q \in Runner \ {p} :
              IF Waking(q)' THEN AllowedRun(q)' ELSE NeutralRun(q)'
<1> TAKE q \in Runner \ {p}
<1>1. /\ sent \in Nat /\ faults \in Nat /\ mem[q].wakes \in Nat /\ q # Free
      /\ Waking(q)' = Waking(q)
  BY ConstantsAssumption DEF TypeOK, Row, Proc, Others, Waking
<1>2. CASE Waking(q)
  <2>1. ~Waking(p)
    BY <1>2 DEF EscalationInv, OneChain
  <2> QED
    BY <1>1, <1>2, <2>1 DEF EscalationInv, Allowed, AllowedRun, Others
<1>3. CASE ~Waking(q)
  <2>1. NeutralRun(q)
    BY <1>3 DEF EscalationInv, Allowed
  <2> QED
    BY <1>1, <1>3, <2>1 DEF EscalationInv, ExclusiveRun, NeutralRun, Others
<1> QED
  BY <1>2, <1>3

\* A process that ends, or that fails, has no run left to be allowed.
LEMMA EndsAllowed ==
    ASSUME TypeOK, Posted, NEW p \in Runner, Closed(p) \/ (Raised(p) /\ pc[p] \notin {"idle", "done"})
    PROVE  /\ Others(p)
           /\ IF Waking(p)' THEN AllowedRun(p)' ELSE NeutralRun(p)'
           /\ pc'[p] \notin {"prepared", "locked", "applied", "rejected"}
  BY DEF TypeOK, Proc, Closed, Raised, Others, AllowedRun, NeutralRun, Posted

\* The count is right while it and the wakes stand still, unless a run ended that had
\* sent a wake and did not count it.
LEMMA StillCounted ==
    ASSUME TypeOK, EscalationInv, NEW p \in Runner, Others(p),
           faults' \in Nat, faults' >= faults, row'.wakes = row.wakes, sent' = sent,
           pc[p] # "applied" \/ faults' = faults + 1
    PROVE  Counted'
<1>1. sent \in Nat /\ faults \in Nat /\ row.wakes \in Nat
  BY DEF TypeOK, Row
<1>2. CASE sent <= row.wakes + faults \/ faults' = faults + 1
  BY <1>1, <1>2 DEF EscalationInv, Counted
<1>3. CASE \E q \in Runner : Waking(q) /\ pc[q] = "applied" /\ q # p
  <2>1. \E q \in Runner : Waking(q)' /\ pc'[q] = "applied"
    BY <1>3 DEF Others, Waking
  <2> QED
    BY <1>1, <2>1 DEF EscalationInv, Counted
<1> QED
  BY <1>2, <1>3 DEF EscalationInv, Counted


\* A request starts: the creation with a row that was not woken yet, the others with one
\* that they do not wake.
LEMMA EscalationRequest ==
    ASSUME OneWakeAtATime, TypeOK, EscalationInv, NEW c \in Caller, Request(c) \/ DeleteRow(c)
    PROVE  Counted' /\ Allowed'
<1> c \in Runner /\ c \notin Worker /\ c \notin Beat /\ Runner \subseteq Proc
  BY ConstantsAssumption DEF Runner, Proc
<1>0. /\ row \in Row /\ row.wakes \in Nat /\ sent \in Nat /\ faults \in Nat
      /\ faults' \in Nat /\ faults' >= faults
  BY DEF TypeOK, Row, Request, DeleteRow, Create, Update, ProvisionMain, SyncTemplates,
         DeleteOnGateway, Fails
<1>1. CASE Create(c)
  <2>1. row'.wakes = 0 /\ mem'[c] = row' /\ op'[c] = "create" /\ pc'[c] = "prepared"
    BY <1>1 DEF Create, Goto, NewRow, TypeOK
  <2>2. Others(c) /\ sent' = sent /\ faults' = faults /\ sent = 0
    BY <1>1 DEF Create, Goto, Others, EscalationInv, OneChain, TypeOK
  <2>3. lock = Free
    BY <1>1 DEF Create, EscalationInv, ExclusiveRun
  <2>4. IF Waking(c)' THEN AllowedRun(c)' ELSE NeutralRun(c)'
    BY <1>0, <2>1, <2>2, ConstantsAssumption DEF AllowedRun, Waking
  <2>5. Counted'
    BY <1>0, <2>1, <2>2, ConstantsAssumption DEF Counted
  <2> QED
    BY <1>0, <2>2, <2>3, <2>4, <2>5, OthersAllowed DEF Allowed
<1>2. CASE ~Create(c)
  <2>1. row'.wakes = row.wakes /\ sent' = sent
    <3>1. [row EXCEPT !.token = minted'].wakes = row.wakes
      BY <1>0, RowWakes
    <3>2. row' = row \/ row' = [row EXCEPT !.token = minted']
      BY <1>2 DEF Request, Update, CommitToken, ProvisionMain, SyncTemplates,
                  DeleteOnGateway, DeleteRow, store
    <3>3. sent' = sent
      BY <1>2 DEF Request, Update, ProvisionMain, SyncTemplates, DeleteOnGateway, DeleteRow
    <3> QED
      BY <3>1, <3>2, <3>3
  <2>2. /\ Others(c) /\ pc[c] # "applied"
        /\ pc'[c] \notin {"locked", "applied", "rejected"}
        /\ ~Waking(c)'
    <3>1. CASE Closed(c) /\ (DeleteRow(c) \/ DeleteOnGateway(c))
      BY <3>1 DEF DeleteRow, DeleteOnGateway, Closed, Others, Waking, TypeOK
    <3>2. CASE SyncTemplates(c) \/ (DeleteOnGateway(c) /\ ~Closed(c))
      BY <3>2 DEF SyncTemplates, DeleteOnGateway, CommitToken, Goto, Others, Waking, TypeOK
    <3> QED
      BY <1>2, <3>1, <3>2 DEF Request, Update, ProvisionMain, DeleteRow, OneWakeAtATime
  <2>3. IF Waking(c)' THEN AllowedRun(c)' ELSE NeutralRun(c)'
    BY <2>2 DEF NeutralRun
  <2> QED
    BY <1>0, <2>1, <2>2, <2>3, OthersAllowed, StillCounted DEF Allowed
<1> QED
  BY <1>1, <1>2

\* A run flushes: one that wakes adds one to a count below MaxWake.
LEMMA EscalationFlush ==
    ASSUME TypeOK, EscalationInv, NEW p \in Runner, LockAndFlush(p)
    PROVE  Counted' /\ Allowed'
<1> p \in Proc /\ Runner \subseteq Proc
  BY DEF Proc
<1> DEFINE k == IF tok[p] = 0 THEN minted + 1 ELSE tok[p]
           t == IF Wakes(op[p]) THEN now + 1 ELSE now
           r == Requested(mem[p], op[p], t, IF tok[p] = 0 THEN k ELSE mem[p].token)
<1>1. /\ mem[p] \in Row /\ mem[p].wakes \in Nat /\ row.wakes \in Nat
      /\ sent \in Nat /\ faults \in Nat
  BY DEF TypeOK, Row
<1>2. r.wakes = IF Wakes(op[p]) THEN mem[p].wakes + 1 ELSE mem[p].wakes
  BY <1>1, RowWakes
<1>3. Merge(row, mem[p], r).wakes = IF r.wakes # mem[p].wakes THEN r.wakes ELSE row.wakes
  BY MergeWakes
<1>4. /\ mem' = [mem EXCEPT ![p] = r]
      /\ draft' = [draft EXCEPT ![p] = Merge(row, mem[p], r)]
      /\ pc[p] = "prepared" /\ pc' = [pc EXCEPT ![p] = "locked"]
      /\ UNCHANGED <<row, op, faults, sent>>
  BY <1>1 DEF LockAndFlush, Goto
<1>5. Wakes(op[p]) <=> Waking(p)
  BY <1>4 DEF Wakes, Waking, EscalationInv, Posted
<1> HIDE DEF k, t, r
<1>6. mem'[p] = r /\ draft'[p] = Merge(row, mem[p], r) /\ pc'[p] = "locked" /\ Others(p)
  BY <1>4 DEF TypeOK, Others
<1>7. CASE Waking(p)
  <2>1. mem[p].wakes < MaxWake /\ sent <= mem[p].wakes + faults
    BY <1>4, <1>7 DEF EscalationInv, Allowed, AllowedRun
  <2>2. /\ r.wakes = mem[p].wakes + 1 /\ draft'[p].wakes = r.wakes
    BY <1>1, <1>2, <1>3, <1>5, <1>6, <1>7
  <2>3. AllowedRun(p)' /\ Waking(p)'
    BY <1>1, <1>4, <1>6, <1>7, <2>1, <2>2, ConstantsAssumption DEF AllowedRun, Waking
  <2> QED
    BY <1>1, <1>4, <1>6, <2>3, OthersAllowed, StillCounted DEF Allowed
<1>8. CASE ~Waking(p)
  <2>1. NeutralRun(p)' /\ ~Waking(p)'
    BY <1>2, <1>3, <1>4, <1>5, <1>6, <1>8 DEF NeutralRun, Waking
  <2> QED
    BY <1>1, <1>4, <1>6, <2>1, OthersAllowed, StillCounted DEF Allowed
<1> QED
  BY <1>7, <1>8

\* The gateway is done with a run, and woke the agent or failed.
LEMMA EscalationGateway ==
    ASSUME TypeOK, EscalationInv, NEW p \in Runner, Apply(p) \/ Reject(p)
    PROVE  Counted' /\ Allowed'
<1> p \in Proc /\ Runner \subseteq Proc
  BY DEF Proc
<1>1. /\ mem[p].wakes \in Nat /\ row.wakes \in Nat /\ sent \in Nat /\ faults \in Nat
  BY DEF TypeOK, Row
<1>2. /\ pc[p] = "locked" /\ Others(p) /\ UNCHANGED <<row, op, mem, draft>>
      /\ pc'[p] \in {"applied", "rejected"}
  BY DEF Apply, Reject, Goto, session, store, Others, TypeOK
<1>3. Wakes(op[p]) <=> Waking(p)
  BY <1>2 DEF Wakes, Waking, EscalationInv, Posted
<1>4. CASE Waking(p) /\ Apply(p)
  <2>1. sent' = sent + 1 /\ pc'[p] = "applied" /\ faults' = faults /\ Waking(p)'
    BY <1>2, <1>3, <1>4 DEF Apply, Goto, Waking, TypeOK
  <2>2. AllowedRun(p)'
    BY <1>1, <1>2, <1>4, <2>1 DEF AllowedRun, EscalationInv, Allowed
  <2>3. sent <= row.wakes + faults
    BY <1>2, <1>4 DEF EscalationInv, Counted, OneChain
  <2>4. Counted'
    BY <1>1, <1>2, <1>4, <2>1, <2>3 DEF EscalationInv, Counted
  <2> QED
    BY <1>1, <1>2, <1>4, <2>1, <2>2, <2>4, OthersAllowed DEF Allowed
<1>5. CASE ~Waking(p) \/ Reject(p)
  <2>1. sent' = sent /\ faults' \in Nat /\ faults' >= faults /\ Waking(p)' = Waking(p)
    BY <1>1, <1>2, <1>3, <1>5 DEF Apply, Reject, Fails, Waking
  <2>2. pc'[p] = "applied" => ~Waking(p)
    BY <1>5 DEF Reject, Goto, TypeOK
  <2>3. IF Waking(p)' THEN AllowedRun(p)' ELSE NeutralRun(p)'
    BY <1>1, <1>2, <2>1 DEF AllowedRun, NeutralRun, EscalationInv, Allowed
  <2> QED
    BY <1>1, <1>2, <2>1, <2>3, OthersAllowed, StillCounted DEF Allowed
<1> QED
  BY <1>4, <1>5


\* A run commits: with it the count of its wake.
LEMMA EscalationCommit ==
    ASSUME TypeOK, EscalationInv, NEW p \in Runner, CommitApplied(p) \/ CommitRejected(p)
    PROVE  Counted' /\ Allowed'
<1> p \in Proc /\ Runner \subseteq Proc
  BY DEF Proc
<1> DEFINE mine == IF CommitApplied(p) THEN Completed(mem[p], op[p])
                                       ELSE [mem[p] EXCEPT !.err = TRUE]
<1>1. /\ mem[p] \in Row /\ mem[p].wakes \in Nat /\ row.wakes \in Nat
      /\ sent \in Nat /\ faults \in Nat
  BY DEF TypeOK, Row
<1>2. row' = Merge(draft[p], mem[p], mine)
  BY DEF CommitApplied, CommitRejected
<1>3. mine.wakes = mem[p].wakes
  BY <1>1, RowWakes
<1> HIDE DEF mine
<1>4. row'.wakes = draft[p].wakes
  BY <1>2, <1>3, MergeWakes
<1>5. pc[p] \in {"applied", "rejected"} /\ lock = p /\ UNCHANGED <<sent, faults>>
  BY DEF CommitApplied, CommitRejected, EscalationInv, ExclusiveRun
<1>6. Others(p) /\ (IF Waking(p)' THEN AllowedRun(p)' ELSE NeutralRun(p)')
  <2>1. CASE Closed(p) \/ Raised(p)
    BY <1>5, <2>1, EndsAllowed DEF EscalationInv
  <2>2. CASE ~Closed(p) /\ ~Raised(p)
    <3>1. /\ Others(p) /\ pc'[p] \in {"refresh", "prepared"}
          /\ pc'[p] = "prepared" => op[p] \in {"sync", "rotate"} /\ op' = op
      BY <2>2 DEF CommitApplied, CommitRejected, Goto, session, Others, TypeOK
    <3> QED
      BY <3>1 DEF AllowedRun, NeutralRun, Waking
  <2> QED
    BY <2>1, <2>2
<1>7. \A q \in Runner \ {p} : IF Waking(q)' THEN AllowedRun(q)' ELSE NeutralRun(q)'
  BY <1>1, <1>5, <1>6, OthersAllowed
<1>8. CASE Waking(p)
  BY <1>1, <1>4, <1>5, <1>6, <1>7, <1>8 DEF EscalationInv, Allowed, AllowedRun, Counted
<1>9. CASE ~Waking(p)
  <2>1. row'.wakes = row.wakes
    BY <1>4, <1>5, <1>9 DEF EscalationInv, Allowed, NeutralRun
  <2>2. \A q \in Runner : Waking(q) /\ pc[q] = "applied"
                            => Waking(q)' /\ pc'[q] = "applied"
    BY <1>6, <1>9 DEF Others, Waking
  <2> QED
    BY <1>1, <1>5, <1>6, <1>7, <2>1, <2>2 DEF Allowed, EscalationInv, Counted
<1> QED
  BY <1>8, <1>9

\* A step that ends or fails a process, with what it does to the queue.
LEMMA EscalationEnds ==
    ASSUME TypeOK, EscalationInv, NEW p \in Runner, Closed(p) \/ Raised(p),
           pc[p] \notin {"idle", "done"}, UNCHANGED <<row, sent>>,
           faults' \in Nat, faults' >= faults,
           pc[p] # "applied" \/ faults' = faults + 1
    PROVE  Counted' /\ Allowed'
  BY EndsAllowed, OthersAllowed, StillCounted DEF EscalationInv, Allowed

\* Crashes, timeouts, and the steps of a run that has committed or did not begin.
LEMMA EscalationRest ==
    ASSUME TypeOK, EscalationInv, NEW p \in Runner,
           \/ LockMissing(p) \/ Refresh(p) \/ Enqueue(p) \/ Crash(p)
           \/ p \in Worker /\ TimeOut(p)
    PROVE  Counted' /\ Allowed'
<1> p \in Proc /\ Runner \subseteq Proc
  BY DEF Proc
<1>1. /\ sent \in Nat /\ faults \in Nat /\ faults' \in Nat /\ faults' >= faults
      /\ UNCHANGED <<row, sent>>
      /\ pc[p] = "applied" => faults' = faults + 1
      /\ pc[p] \notin {"idle", "done"}
  BY DEF TypeOK, LockMissing, Refresh, Enqueue, Crash, TimeOut, Fails, store
<1>2. CASE Closed(p) \/ Raised(p)
  BY <1>1, <1>2, EscalationEnds
<1>3. CASE ~Closed(p) /\ ~Raised(p)
  <2>1. Refresh(p) /\ Others(p) /\ pc'[p] = "enqueue" /\ pc[p] = "refresh"
    BY <1>3 DEF LockMissing, Refresh, Enqueue, Crash, TimeOut, Goto, Others, TypeOK
  <2>2. IF Waking(p)' THEN AllowedRun(p)' ELSE NeutralRun(p)'
    BY <2>1 DEF AllowedRun, NeutralRun
  <2> QED
    BY <1>1, <2>1, <2>2, OthersAllowed, StillCounted DEF Allowed
<1> QED
  BY <1>2, <1>3

\* The worker decides from the row it reads: it runs again only below MaxWake.
LEMMA EscalationReconcile ==
    ASSUME TypeOK, EscalationInv, NEW w \in Worker, Reconcile(w)
    PROVE  Counted' /\ Allowed'
<1> w \in Runner /\ w \in Proc /\ Runner \subseteq Proc
  BY DEF Runner, Proc
<1>0. /\ row \in Row /\ row.wakes \in Nat /\ mem[w] \in Row
      /\ sent \in Nat /\ faults \in Nat /\ faults' \in Nat /\ faults' >= faults
      /\ UNCHANGED sent
  BY DEF TypeOK, Row, Reconcile, Pop, Skip, Defer, Decide, GiveUp, Requeue, Fails
<1>1. CASE Pop(w)
  <2>1. Others(w) /\ pc'[w] = "popped" /\ pc[w] = "idle" /\ row' = row
    BY <1>1 DEF Pop, Goto, Others, TypeOK, store
  <2>2. IF Waking(w)' THEN AllowedRun(w)' ELSE NeutralRun(w)'
    BY <2>1 DEF AllowedRun, NeutralRun
  <2> QED
    BY <1>0, <2>1, <2>2, OthersAllowed, StillCounted DEF Allowed
<1>2. CASE Skip(w) \/ Defer(w) \/ Requeue(w)
  BY <1>0, <1>2, EscalationEnds DEF Skip, Defer, Requeue, store
<1>3. CASE Decide(w)
  <2>1. /\ Others(w) /\ pc[w] = "popped" /\ row' = row /\ op' = op /\ mem'[w] = row
        /\ pc'[w] = IF Exhausted(row) THEN "giveup" ELSE "prepared"
        /\ faults' = faults
    BY <1>3 DEF Decide, Goto, Others, TypeOK, store
  <2>2. op[w] = "reconcile"
    BY <2>1 DEF EscalationInv, Posted
  <2>3. sent <= row.wakes + faults
    BY <2>1, <2>2 DEF EscalationInv, Counted, OneChain, Waking
  <2>4. IF Waking(w)' THEN AllowedRun(w)' ELSE NeutralRun(w)'
    BY <1>0, <2>1, <2>3, ConstantsAssumption DEF AllowedRun, NeutralRun, Exhausted
  <2> QED
    BY <1>0, <2>1, <2>4, OthersAllowed, StillCounted DEF Allowed
<1>4. CASE GiveUp(w)
  <2>1. Closed(w) \/ Raised(w)
    BY <1>4 DEF GiveUp
  <2>2. row'.wakes = row.wakes
    BY <1>0, <1>4, RowWakes, MergeWakes DEF GiveUp
  <2>3. pc[w] = "giveup" /\ faults' = faults
    BY <1>4 DEF GiveUp
  <2> QED
    BY <1>0, <2>1, <2>2, <2>3, EndsAllowed, OthersAllowed, StillCounted
       DEF EscalationInv, Allowed
<1> QED
  BY <1>1, <1>2, <1>3, <1>4 DEF Reconcile

\* A check-in forgets the wakes and, unless it found none, their count.
LEMMA EscalationBeat ==
    ASSUME TypeOK, EscalationInv,
           (\E b \in Beat : BeatLoad(b) \/ BeatCommit(b)) \/ Tick \/ UNCHANGED vars
    PROVE  Counted' /\ Allowed'
<1>0. /\ row.wakes \in Nat /\ sent \in Nat /\ faults \in Nat
      /\ Beat \intersect Runner = {}
  BY ConstantsAssumption DEF TypeOK, Row
<1> Runner \subseteq Proc /\ Beat \subseteq Proc
  BY DEF Proc
<1>1. /\ faults' = faults
      /\ \A p \in Runner : /\ pc'[p] = pc[p] /\ op'[p] = op[p] /\ mem'[p] = mem[p]
                           /\ draft'[p] = draft[p]
  BY <1>0 DEF TypeOK, BeatLoad, BeatCommit, Closed, Tick, vars, Goto, store, session
<1>2. \A p \in Runner : Waking(p)' <=> Waking(p)
  BY <1>1 DEF Waking
<1>3. CASE UNCHANGED <<row, sent>>
  BY <1>1, <1>2, <1>3 DEF EscalationInv, Counted, Allowed, AllowedRun, NeutralRun
<1>4. ASSUME NEW b \in Beat, BeatCommit(b), life = "live"
      PROVE  Counted' /\ Allowed'
  <2>1. row'.wakes \in {0, row.wakes} /\ lock = Free /\ sent' = 0
    <3>1. PICK mine \in BeatRows(b) : row' = Merge(row, mem[b], mine)
      BY <1>4 DEF BeatCommit
    <3>2. lock = Free /\ sent' = 0
      BY <1>4 DEF BeatCommit
    <3> QED
      BY <3>1, <3>2, BeatWakes, MergeWakes
  <2>2. \A p \in Runner : pc[p] \notin {"locked", "applied", "rejected"}
    BY <2>1, ConstantsAssumption DEF EscalationInv, ExclusiveRun, Proc
  <2>3. \A p \in Runner : mem[p].wakes \in Nat
    BY DEF TypeOK, Row, Proc
  <2> QED
    BY <1>0, <1>1, <1>2, <1>4, <2>1, <2>2, <2>3, ConstantsAssumption
       DEF EscalationInv, Counted, Allowed, AllowedRun, NeutralRun
<1> QED
  BY <1>3, <1>4 DEF BeatLoad, BeatCommit, Tick, vars, store

\* The agent is woken MaxWake times at most between two check-ins, and once more for
\* each failure, for any number of requests, heartbeats and failures, if its creation
\* and its reconciles are what wakes it (an update wakes it whatever the count is), and
\* if no message is delivered to two workers, who would each count from the row they
\* found.
THEOREM WakesAreBounded ==
    ASSUME OneWakeAtATime
    PROVE  Spec => []EscalationBounded
<1>1. Init => EscalationInv
  <2> SUFFICES ASSUME Init PROVE EscalationInv
    OBVIOUS
  <2>1. ExclusiveRun
    BY ConstantsAssumption DEF Init, ExclusiveRun, Runner, Proc
  <2>2. Posted /\ OneChain
    BY DEF Init, Posted, OneChain, Waking, Runner, Proc
  <2>3. Counted /\ Allowed
    BY ConstantsAssumption
       DEF Init, Counted, Allowed, AllowedRun, NeutralRun, NewRow, Runner, Proc
  <2> QED
    BY <2>1, <2>2, <2>3 DEF EscalationInv
<1>2. TypeOK /\ EscalationInv /\ [Next]_vars => EscalationInv'
  <2> SUFFICES ASSUME TypeOK, EscalationInv, [Next]_vars PROVE EscalationInv'
    OBVIOUS
  <2>1. ExclusiveRun' /\ Posted' /\ OneChain'
    BY OneWakeAtATime, ExclusiveRunStep, PostedStep, OneChainStep DEF EscalationInv
  <2>2. Counted' /\ Allowed'
    <3> Worker \subseteq Runner
      BY DEF Runner
    <3> QED
      BY OneWakeAtATime, EscalationRequest, EscalationFlush, EscalationGateway,
         EscalationCommit, EscalationRest, EscalationReconcile, EscalationBeat
         DEF Next, Run
  <2> QED
    BY <2>1, <2>2 DEF EscalationInv
<1>3. TypeOK /\ EscalationInv => EscalationBounded
  <2> SUFFICES ASSUME TypeOK, EscalationInv PROVE EscalationBounded
    OBVIOUS
  <2>1. sent \in Nat /\ faults \in Nat /\ row.wakes \in Nat /\ MaxWake \in Nat
    BY ConstantsAssumption DEF TypeOK, Row
  <2>2. CASE sent <= row.wakes + faults
    BY <2>1, <2>2 DEF EscalationInv, Counted, EscalationBounded
  <2>3. ASSUME NEW p \in Runner, Waking(p), pc[p] = "applied"
        PROVE  EscalationBounded
    <3>1. mem[p].wakes \in Nat
      BY DEF TypeOK, Row, Proc
    <3> QED
      BY <2>1, <2>3, <3>1 DEF EscalationInv, Allowed, AllowedRun, EscalationBounded
  <2> QED
    BY <2>2, <2>3 DEF EscalationInv, Counted
<1> QED
  BY <1>1, <1>2, <1>3, TypeCorrect, PTL DEF Spec

-----------------------------------------------------------------------------
(* Who watches a wake.                                                      *)

\* Each column of a flush is the session's if it changed it, and otherwise what is there.
LEMMA MergeColumns ==
    ASSUME NEW a, NEW b, NEW c
    PROVE  /\ c.gen = b.gen => Merge(a, b, c).gen = a.gen
           /\ c.seenAt = b.seenAt => Merge(a, b, c).seenAt = a.seenAt
           /\ c.seenAt # b.seenAt => Merge(a, b, c).seenAt = c.seenAt
           /\ c.wakeAt = b.wakeAt => Merge(a, b, c).wakeAt = a.wakeAt
           /\ c.deadline = b.deadline => Merge(a, b, c).deadline = a.deadline
           /\ c.deadline # b.deadline => Merge(a, b, c).deadline = c.deadline
  BY DEF Merge

\* What the operations on rows do to the columns that say whether a check-in is awaited.
LEMMA RowColumns ==
    ASSUME NEW r \in Row, NEW o, NEW t, NEW k
    PROVE  /\ Requested(r, o, t, k).seenAt = r.seenAt
           /\ Completed(r, o).seenAt = r.seenAt
           /\ GivenUp(r).gen = r.gen /\ GivenUp(r).seenAt = r.seenAt
           /\ GivenUp(r).wakeAt = r.wakeAt /\ GivenUp(r).deadline = None
           /\ [r EXCEPT !.token = k].gen = r.gen
           /\ [r EXCEPT !.token = k].seenAt = r.seenAt
           /\ [r EXCEPT !.token = k].wakeAt = r.wakeAt
           /\ [r EXCEPT !.token = k].deadline = r.deadline
  BY DEF Row, Requested, Completed, GivenUp

LEMMA BeatColumns ==
    ASSUME NEW b \in Beat, TypeOK, NEW mine \in BeatRows(b)
    PROVE  /\ mine.gen = mem[b].gen /\ mine.wakeAt = mem[b].wakeAt
           /\ mine.seenAt \in {tok[b]} \union tok[b] .. now
           /\ mine.deadline \in {None, mem[b].deadline}
<1> DEFINE touched == Touched(mem[b], tok[b])
<1>1. mem[b] \in Row /\ tok[b] \in Nat /\ now \in Nat
  BY DEF TypeOK, Proc
<1>2. touched \in Row
  BY <1>1, TouchedType
<1>3. /\ touched.gen = mem[b].gen /\ touched.seenAt = tok[b]
      /\ touched.wakeAt = mem[b].wakeAt /\ touched.deadline = mem[b].deadline
  BY <1>1 DEF Touched, Row
<1>4. ASSUME NEW r \in Row, NEW t \in Nat, NEW given \in BOOLEAN
      PROVE  /\ Heartbeaten(r, t, given).gen = r.gen
             /\ Heartbeaten(r, t, given).seenAt = t
             /\ Heartbeaten(r, t, given).wakeAt = r.wakeAt
             /\ Heartbeaten(r, t, given).deadline = None
  BY DEF Heartbeaten, Row
<1>5. \/ mine = touched
      \/ \E r \in {mem[b], touched}, t \in tok[b] .. now, given \in BOOLEAN :
            mine = Heartbeaten(r, t, given)
  BY DEF BeatRows
<1> HIDE DEF touched
<1>6. CASE mine = touched
  BY <1>3, <1>6
<1>7. ASSUME NEW r \in {mem[b], touched}, NEW t \in tok[b] .. now, NEW given \in BOOLEAN,
             mine = Heartbeaten(r, t, given)
      PROVE  /\ mine.gen = mem[b].gen /\ mine.wakeAt = mem[b].wakeAt
             /\ mine.seenAt \in {tok[b]} \union tok[b] .. now
             /\ mine.deadline \in {None, mem[b].deadline}
  <2>1. t \in Nat /\ r \in Row
    BY <1>1, <1>2
  <2> QED
    BY <1>3, <1>4, <1>7, <2>1
<1> QED
  BY <1>5, <1>6, <1>7

\* A process that keeps the row's wake in sight. One that is about to give up does so only
\* if it clears the deadline it read.
Covering(p) == Responsible(p) /\ (pc[p] = "giveup" => mem[p].deadline # None)

\* An awaited check-in has a message of its generation, or such a process.
Tracked ==
    Awaited => \/ \E m \in queue : m.gen = row.gen
               \/ \E p \in Runner : Covering(p)

\* The time of the last check-in does not go back.
SeenInOrder ==
    /\ row.seenAt <= now
    /\ \A b \in Beat : pc[b] = "beating" =>
          /\ life # "none" /\ mem[b].seenAt = row.seenAt
          /\ row.seenAt <= tok[b] /\ tok[b] <= now
    /\ \A p \in Runner :
          /\ pc[p] \in {"locked", "applied"} => draft[p].seenAt = row.seenAt
          /\ pc[p] # "rejected"

\* Every run is a wake, none is cut off, and check-ins do not overlap.
WatchedWakes ==
    /\ Op \subseteq {"create", "update", "main", "delete"}
    /\ Fault \subseteq {"duplicate"}
    /\ \A a, b \in Beat : a = b

\* An awaited check-in stays tracked by a step of one process that neither changes the
\* generation nor begins to await, if that process was not the one to see to it.
LEMMA StillTracked ==
    ASSUME NEW p \in Runner, Tracked,
           \A q \in Runner \ {p} : /\ pc'[q] = pc[q] /\ hand'[q] = hand[q]
                                   /\ post'[q] = post[q] /\ mem'[q] = mem[q],
           row'.gen = row.gen, Awaited' => Awaited,
           \A m \in queue : m.gen = row.gen =>
              (\E n \in queue' : n.gen = row.gen) \/ Covering(p)',
           Awaited' /\ Covering(p) =>
              Covering(p)' \/ \E m \in queue' : m.gen = row.gen
    PROVE  Tracked'
<1> SUFFICES ASSUME Awaited'
             PROVE  \/ \E m \in queue' : m.gen = row'.gen
                    \/ \E q \in Runner : Covering(q)'
  BY DEF Tracked
<1>1. CASE \E m \in queue : m.gen = row.gen
  BY <1>1
<1>2. ASSUME NEW q \in Runner, Covering(q), q # p
      PROVE  Covering(q)'
  BY <1>2 DEF Covering, Responsible
<1> QED
  BY <1>1, <1>2 DEF Tracked


\* Only a heartbeat writes the time of the last check-in.
LEMMA SeenInOrderStep ==
    ASSUME WatchedWakes, TypeOK, ExclusiveRun, Posted, SeenInOrder, [Next]_vars
    PROVE  SeenInOrder'
<1> /\ Runner \subseteq Proc /\ Caller \subseteq Runner /\ Worker \subseteq Runner
    /\ Beat \subseteq Proc /\ Beat \intersect Runner = {} /\ Free \notin Runner
  BY ConstantsAssumption DEF Proc, Runner
<1>0. /\ row \in Row /\ row.seenAt \in Nat /\ now \in Nat
      /\ \A p \in Proc : mem[p] \in Row /\ draft[p] \in Row
  BY DEF TypeOK, Row
\* A step of a process other than a heartbeat that leaves the time as it is.
<1>1. ASSUME NEW p \in Runner, row'.seenAt = row.seenAt, now' \in {now, now + 1},
             life = "none" => lock = Free, life' # "none" \/ life' = life,
             \A q \in Proc \ {p} : /\ pc'[q] = pc[q] /\ mem'[q] = mem[q]
                                   /\ draft'[q] = draft[q] /\ tok'[q] = tok[q],
             pc'[p] # "rejected",
             pc'[p] \in {"locked", "applied"} => draft'[p].seenAt = row.seenAt
      PROVE  SeenInOrder'
  <2>1. row'.seenAt <= now'
    BY <1>0, <1>1 DEF SeenInOrder
  <2>2. ASSUME NEW b \in Beat, pc'[b] = "beating"
        PROVE  /\ life' # "none" /\ mem'[b].seenAt = row'.seenAt
               /\ row'.seenAt <= tok'[b] /\ tok'[b] <= now'
    <3>1. b \in Proc \ {p} /\ tok[b] \in Nat
      BY DEF TypeOK
    <3> QED
      BY <1>0, <1>1, <2>2, <3>1 DEF SeenInOrder
  <2>3. ASSUME NEW q \in Runner
        PROVE  /\ pc'[q] \in {"locked", "applied"} => draft'[q].seenAt = row'.seenAt
               /\ pc'[q] # "rejected"
    BY <1>1 DEF SeenInOrder
  <2> QED
    BY <2>1, <2>2, <2>3 DEF SeenInOrder
<1>2. ASSUME NEW c \in Caller, Create(c)
      PROVE  SeenInOrder'
  <2>1. /\ \A b \in Beat : pc'[b] # "beating"
        /\ \A q \in Runner : pc'[q] \notin {"locked", "applied", "rejected"}
        /\ row'.seenAt = 0 /\ now' = now
    BY <1>2 DEF Create, Goto, SeenInOrder, ExclusiveRun, NewRow, None, TypeOK
  <2> QED
    BY <1>0, <2>1 DEF SeenInOrder
<1>3. ASSUME NEW c \in Caller, Request(c) \/ DeleteRow(c), ~Create(c)
      PROVE  SeenInOrder'
  <2>1. row' = row \/ row' = [row EXCEPT !.token = minted']
    BY <1>3 DEF Request, Update, CommitToken, ProvisionMain, SyncTemplates, DeleteOnGateway,
                DeleteRow, store
  <2>2. row'.seenAt = row.seenAt
    <3>1. [row EXCEPT !.token = minted'].seenAt = row.seenAt
      BY <1>0, RowColumns
    <3> QED
      BY <2>1, <3>1
  <2>3. /\ now' = now /\ (life = "none" => lock = Free) /\ life' # "none"
        /\ \A q \in Proc \ {c} : /\ pc'[q] = pc[q] /\ mem'[q] = mem[q]
                                 /\ draft'[q] = draft[q] /\ tok'[q] = tok[q]
        /\ pc'[c] \notin {"locked", "applied", "rejected"}
    <3>1. CASE DeleteOnGateway(c) \/ DeleteRow(c)
      BY <3>1 DEF DeleteOnGateway, DeleteRow, Closed, Goto, store, TypeOK, ExclusiveRun
    <3>2. CASE Update(c) \/ ProvisionMain(c) \/ SyncTemplates(c)
      BY <3>2 DEF Update, CommitToken, ProvisionMain, SyncTemplates, Goto, store, TypeOK
    <3> QED
      BY <1>3, <3>1, <3>2 DEF Request
  <2> QED
    BY <1>1, <2>2, <2>3
<1>4. ASSUME NEW p \in Runner, LockAndFlush(p)
      PROVE  SeenInOrder'
  <2> DEFINE k == IF tok[p] = 0 THEN minted + 1 ELSE tok[p]
             t == IF Wakes(op[p]) THEN now + 1 ELSE now
             r == Requested(mem[p], op[p], t, IF tok[p] = 0 THEN k ELSE mem[p].token)
  <2>1. /\ Merge(row, mem[p], r).seenAt = row.seenAt
        /\ t \in {now, now + 1}
    <3>1. r.seenAt = mem[p].seenAt
      BY <1>0, RowColumns
    <3> QED
      BY <3>1, MergeColumns
  <2>2. /\ row' = row /\ life' = life /\ now' = t /\ life = "live"
        /\ pc' = [pc EXCEPT ![p] = "locked"] /\ mem' = [mem EXCEPT ![p] = r]
        /\ tok' = [tok EXCEPT ![p] = k]
        /\ draft' = [draft EXCEPT ![p] = Merge(row, mem[p], r)]
    BY <1>4 DEF LockAndFlush, Lockable, Goto
  <2> HIDE DEF k, t, r
  <2> QED
    BY <1>1, <2>1, <2>2 DEF TypeOK
<1>5. ASSUME NEW p \in Runner, Closed(p) \/ Raised(p), row'.seenAt = row.seenAt,
             UNCHANGED <<now, life>>, life # "none" \/ pc[p] \notin {"idle", "done"}
      PROVE  SeenInOrder'
  <2>1. /\ \A q \in Proc \ {p} : /\ pc'[q] = pc[q] /\ mem'[q] = mem[q]
                                 /\ draft'[q] = draft[q] /\ tok'[q] = tok[q]
        /\ pc'[p] \notin {"locked", "applied", "rejected"}
    BY <1>5 DEF Closed, Raised, TypeOK
  <2>2. life = "none" => lock = Free
    BY DEF ExclusiveRun
  <2> QED
    BY <1>1, <1>5, <2>1, <2>2
<1>6. ASSUME NEW p \in Runner, CommitApplied(p)
      PROVE  SeenInOrder'
  <2>1. row' = Merge(draft[p], mem[p], Completed(mem[p], op[p]))
    BY <1>6 DEF CommitApplied
  <2>2. row'.seenAt = draft[p].seenAt
    BY <1>0, <2>1, MergeColumns, RowColumns
  <2>3. row'.seenAt = row.seenAt /\ pc[p] = "applied" /\ UNCHANGED <<now, life>>
    BY <1>6, <2>2 DEF CommitApplied, SeenInOrder
  <2>4. CASE Closed(p)
    BY <1>5, <2>3, <2>4
  <2>5. CASE Goto(p, "refresh") /\ UNCHANGED session
    <3>1. life = "none" => lock = Free
      BY DEF ExclusiveRun
    <3> QED
      BY <1>1, <2>3, <2>5, <3>1 DEF Goto, session, TypeOK
  <2> QED
    BY <1>6, <2>4, <2>5 DEF CommitApplied
<1>7. ASSUME NEW p \in Runner, \/ LockMissing(p) \/ Apply(p) \/ Refresh(p) \/ Enqueue(p)
                               \/ p \in Worker /\ Reconcile(p)
      PROVE  SeenInOrder'
  <2>1. /\ UNCHANGED <<now, life>> /\ (life = "none" => lock = Free)
        /\ pc[p] = "idle" => Pop(p)
    BY <1>7 DEF LockMissing, Apply, Refresh, Enqueue, Reconcile, Pop, Skip, Defer, Decide,
                GiveUp, Requeue, store, ExclusiveRun
  <2>2. row'.seenAt = row.seenAt
    <3>1. CASE GiveUp(p)
      BY <1>0, <3>1, MergeColumns, RowColumns DEF GiveUp
    <3>2. CASE ~GiveUp(p)
      BY <1>7, <3>2 DEF LockMissing, Apply, Refresh, Enqueue, Reconcile, Pop, Skip, Defer,
                        Decide, Requeue, store
    <3> QED
      BY <3>1, <3>2
  <2>3. CASE (Closed(p) \/ Raised(p)) /\ ~Pop(p)
    <3>1. pc[p] \notin {"idle", "done"}
      BY <1>7, <2>3 DEF LockMissing, Apply, Refresh, Enqueue, Reconcile, Skip, Defer, Decide,
                        GiveUp, Requeue
    <3> QED
      BY <1>5, <2>1, <2>2, <2>3, <3>1
  <2>4. CASE Pop(p) \/ Decide(p) \/ Apply(p) \/ (Refresh(p) /\ ~Closed(p) /\ ~Raised(p))
    <3>1. /\ \A q \in Proc \ {p} : /\ pc'[q] = pc[q] /\ mem'[q] = mem[q]
                                   /\ draft'[q] = draft[q] /\ tok'[q] = tok[q]
          /\ pc'[p] \in {"popped", "giveup", "prepared", "applied", "enqueue"}
          /\ pc'[p] = "applied" => pc[p] = "locked" /\ draft' = draft
      BY <2>4 DEF Pop, Decide, Apply, Refresh, Goto, session, TypeOK
    <3> QED
      BY <1>1, <2>1, <2>2, <3>1 DEF SeenInOrder
  <2> QED
    BY <1>7, <2>3, <2>4
       DEF LockMissing, Refresh, Enqueue, Reconcile, Skip, Defer, GiveUp, Requeue
<1>8. \A p \in Runner : ~Reject(p) /\ ~CommitRejected(p) /\ ~Crash(p) /\ ~TimeOut(p)
  BY DEF Reject, CommitRejected, Crash, TimeOut, Fails, SeenInOrder, WatchedWakes
<1>9. ASSUME NEW b \in Beat, BeatLoad(b)
      PROVE  SeenInOrder'
  <2>1. /\ \A a \in Beat : a = b
        /\ pc'[b] = "beating" /\ mem'[b] = row /\ tok'[b] = now + 1 /\ now' = now + 1
        /\ row' = row /\ life' = life /\ life = "live"
        /\ \A q \in Runner : pc'[q] = pc[q] /\ draft'[q] = draft[q]
    BY <1>9 DEF BeatLoad, Goto, store, TypeOK, WatchedWakes
  <2> QED
    BY <1>0, <2>1 DEF SeenInOrder
<1>10. ASSUME NEW b \in Beat, BeatCommit(b)
       PROVE  SeenInOrder'
  <2>1. /\ \A a \in Beat : pc'[a] # "beating"
        /\ \A q \in Runner : pc'[q] = pc[q] /\ draft'[q] = draft[q]
        /\ now' = now
    BY <1>10 DEF BeatCommit, Closed, TypeOK, WatchedWakes
  <2>2. CASE life = "live"
    <3>1. PICK mine \in BeatRows(b) : row' = Merge(row, mem[b], mine)
      BY <1>10, <2>2 DEF BeatCommit
    <3>2. /\ tok[b] \in Nat /\ now \in Nat /\ pc[b] = "beating" /\ lock = Free
      BY <1>10, <2>2 DEF BeatCommit, TypeOK
    <3>3. row'.seenAt \in {row.seenAt, tok[b]} \union tok[b] .. now
      BY <3>1, BeatColumns, MergeColumns
    <3>4. row'.seenAt <= now
      BY <3>2, <3>3 DEF SeenInOrder
    <3> QED
      BY <2>1, <3>2, <3>4 DEF SeenInOrder, ExclusiveRun
  <2>3. CASE life = "gone" /\ row' = row
    BY <2>1, <2>3 DEF SeenInOrder
  <2> QED
    BY <1>10, <2>2, <2>3 DEF BeatCommit
<1>11. CASE Tick \/ UNCHANGED vars
  <2>1. /\ now' \in {now, now + 1} /\ UNCHANGED <<row, life, pc, mem, draft, tok>>
    BY <1>11 DEF Tick, vars, store, session
  <2>2. \A b \in Beat : tok[b] \in Nat
    BY DEF TypeOK
  <2> QED
    BY <1>0, <2>1, <2>2 DEF SeenInOrder
<1> QED
  BY <1>2, <1>3, <1>4, <1>6, <1>7, <1>8, <1>9, <1>10, <1>11 DEF Next, Run


\* What a session keeps when it is another one's turn.
Apart(p) ==
    \A q \in Runner \ {p} : /\ pc'[q] = pc[q] /\ hand'[q] = hand[q]
                            /\ post'[q] = post[q] /\ mem'[q] = mem[q]

\* A process that ends leaves the others as they are, and covers nothing more.
LEMMA EndsApart ==
    ASSUME TypeOK, NEW p \in Runner, Closed(p) \/ Raised(p)
    PROVE  Apart(p)
  BY DEF TypeOK, Proc, Closed, Raised, Apart

\* The requests: none of them begins to await a check-in before it runs.
LEMMA TrackedRequest ==
    ASSUME TypeOK, Posted, Tracked, NEW c \in Caller, Request(c) \/ DeleteRow(c)
    PROVE  Tracked'
<1> c \in Runner /\ Runner \subseteq Proc
  BY DEF Runner, Proc
<1>1. row \in Row
  BY DEF TypeOK
<1>2. CASE Create(c) \/ DeleteRow(c)
  BY <1>2 DEF Create, DeleteRow, NewRow, Tracked, Awaited
<1>3. CASE Update(c) \/ ProvisionMain(c) \/ SyncTemplates(c) \/ DeleteOnGateway(c)
  <2>1. /\ pc[c] = "idle" /\ queue' = queue /\ life' = life
        /\ row' = row \/ row' = [row EXCEPT !.token = minted']
    BY <1>3 DEF Update, ProvisionMain, SyncTemplates, DeleteOnGateway, CommitToken, store
  <2>2. /\ [row EXCEPT !.token = minted'].gen = row.gen
        /\ [row EXCEPT !.token = minted'].seenAt = row.seenAt
        /\ [row EXCEPT !.token = minted'].wakeAt = row.wakeAt
        /\ [row EXCEPT !.token = minted'].deadline = row.deadline
    BY <1>1, RowColumns
  <2>3. row'.gen = row.gen /\ (Awaited' => Awaited)
    BY <2>1, <2>2 DEF Awaited, CheckedIn
  <2>4. Apart(c)
    BY <1>3 DEF Update, ProvisionMain, SyncTemplates, DeleteOnGateway, CommitToken, Closed,
                Goto, Apart, TypeOK
  <2>5. ~Covering(c)
    BY <2>1 DEF Covering, Responsible
  <2> QED
    BY <2>1, <2>3, <2>4, <2>5, StillTracked DEF Apart
<1> QED
  BY <1>2, <1>3 DEF Request

\* A run covers its wake from the flush to the message it queues.
LEMMA TrackedRun ==
    ASSUME WatchedWakes, TypeOK, Posted, SeenInOrder, Tracked, NEW p \in Runner, Run(p)
    PROVE  Tracked'
<1> p \in Proc /\ Runner \subseteq Proc
  BY DEF Proc
<1>1. CASE LockAndFlush(p) \/ Apply(p)
  <2>1. pc'[p] \in {"locked", "applied"}
    BY <1>1 DEF LockAndFlush, Apply, Goto, TypeOK
  <2> QED
    BY <2>1 DEF Tracked, Covering, Responsible
<1>2. CASE CommitApplied(p)
  <2>1. Wakes(op[p])
    BY <1>2, ConstantsAssumption
       DEF CommitApplied, Posted, Waking, Wakes, WatchedWakes, Runner
  <2>2. pc'[p] = "refresh"
    BY <1>2, <2>1 DEF CommitApplied, Goto, TypeOK
  <2> QED
    BY <2>2 DEF Tracked, Covering, Responsible
<1>3. CASE LockMissing(p)
  BY <1>3 DEF LockMissing, store, Tracked, Awaited
<1>4. CASE Refresh(p)
  <2>1. CASE life = "gone" \/ row.deadline = None
    BY <1>4, <2>1 DEF Refresh, store, Tracked, Awaited
  <2>2. CASE life # "gone" /\ row.deadline # None
    <3>1. /\ pc'[p] = "enqueue" /\ post'[p].gen = row.gen /\ row' = row
      BY <1>4, <2>2 DEF Refresh, store, Goto, TypeOK
    <3> QED
      BY <3>1 DEF Tracked, Covering, Responsible
  <2> QED
    BY <2>1, <2>2
<1>5. CASE Enqueue(p)
  <2>1. /\ pc[p] = "enqueue" /\ queue' = queue \union {post[p]} /\ UNCHANGED <<row, life>>
    BY <1>5 DEF Enqueue, store, Fails, WatchedWakes
  <2>2. Covering(p) => post[p].gen = row.gen
    BY <2>1 DEF Covering, Responsible
  <2>3. Apart(p)
    BY <1>5, EndsApart DEF Enqueue
  <2> QED
    BY <2>1, <2>2, <2>3, StillTracked DEF Apart, Awaited
<1>6. CASE CommitRejected(p)
  BY <1>6 DEF CommitRejected, SeenInOrder
<1> QED
  BY <1>1, <1>2, <1>3, <1>4, <1>5, <1>6 DEF Run

\* A worker takes over the wake of the message it pops, and drops it only when another
\* generation or a check-in made it void.
LEMMA TrackedReconcile ==
    ASSUME WatchedWakes, TypeOK, Tracked, NEW w \in Worker, Reconcile(w)
    PROVE  Tracked'
<1> w \in Runner /\ w \in Proc /\ Runner \subseteq Proc
  BY DEF Runner, Proc
<1>1. CASE Pop(w)
  <2>1. PICK m \in queue : /\ hand' = [hand EXCEPT ![w] = m]
                           /\ queue' = queue \ {m} \/ queue' = queue
    BY <1>1 DEF Pop
  <2>2. /\ pc[w] = "idle" /\ pc'[w] = "popped" /\ hand'[w] = m /\ Apart(w)
        /\ UNCHANGED <<row, life>>
    BY <1>1, <2>1 DEF Pop, Goto, Apart, store, TypeOK
  <2>3. m.gen = row.gen => Covering(w)'
    BY <2>2 DEF Covering, Responsible
  <2>4. ~Covering(w)
    BY <2>2 DEF Covering, Responsible
  <2> QED
    BY <2>1, <2>2, <2>3, <2>4, StillTracked DEF Apart, Awaited
<1>2. CASE Skip(w)
  <2>1. /\ pc[w] = "popped" /\ UNCHANGED <<row, life, queue>> /\ Apart(w)
    BY <1>2, EndsApart DEF Skip, store
  <2>2. Awaited' /\ Covering(w) => FALSE
    BY <1>2, <2>1 DEF Skip, Ignorable, Awaited, Covering, Responsible
  <2> QED
    BY <2>1, <2>2, StillTracked DEF Apart, Awaited
<1>3. CASE Defer(w)
  <2>1. /\ pc[w] = "popped" /\ UNCHANGED <<row, life>> /\ Apart(w)
        /\ queue' = queue \union {[hand[w] EXCEPT !.due = DeadlineOf(hand[w])]}
    BY <1>3, EndsApart DEF Defer, store, Fails, WatchedWakes
  <2>2. [hand[w] EXCEPT !.due = DeadlineOf(hand[w])].gen = hand[w].gen
    BY DEF TypeOK, Message
  <2>3. Covering(w) => hand[w].gen = row.gen
    BY <2>1 DEF Covering, Responsible
  <2> QED
    BY <2>1, <2>2, <2>3, StillTracked DEF Apart, Awaited
<1>4. CASE Decide(w)
  <2>1. /\ pc[w] = "popped" /\ UNCHANGED <<row, life, queue, hand>> /\ Apart(w)
        /\ mem'[w] = row /\ pc'[w] \in {"giveup", "prepared"}
        /\ hand[w].gen = row.gen
    BY <1>4 DEF Decide, Ignorable, Goto, Apart, store, TypeOK
  <2>2. Awaited' => Covering(w)'
    BY <2>1 DEF Awaited, Covering, Responsible
  <2> QED
    BY <2>1, <2>2, StillTracked DEF Apart, Awaited
<1>5. CASE GiveUp(w) /\ life = "live"
  <2>1. /\ pc[w] = "giveup" /\ UNCHANGED <<life, queue>> /\ Apart(w)
        /\ row' = Merge(row, mem[w], GivenUp(mem[w]))
    BY <1>5, EndsApart DEF GiveUp
  <2>2. mem[w] \in Row
    BY DEF TypeOK
  <2>3. /\ row'.gen = row.gen /\ row'.seenAt = row.seenAt /\ row'.wakeAt = row.wakeAt
        /\ mem[w].deadline # None => row'.deadline = None
        /\ row'.deadline \in {None, row.deadline}
    BY <2>1, <2>2, RowColumns, MergeColumns
  <2>4. /\ Awaited' => Awaited
        /\ ~(Awaited' /\ Covering(w))
    BY <2>1, <2>3 DEF Awaited, CheckedIn, Covering
  <2> QED
    BY <2>1, <2>3, <2>4, StillTracked DEF Apart
<1>6. CASE GiveUp(w) /\ life # "live"
  BY <1>6 DEF GiveUp, Tracked, Awaited
<1>7. CASE Requeue(w)
  <2>1. /\ pc[w] = "raised" /\ UNCHANGED <<row, life>> /\ Apart(w) /\ queue \subseteq queue'
    BY <1>7, EndsApart DEF Requeue, store
  <2>2. ~Covering(w)
    BY <2>1 DEF Covering, Responsible
  <2> QED
    BY <2>1, <2>2, StillTracked DEF Apart, Awaited
<1> QED
  BY <1>1, <1>2, <1>3, <1>4, <1>5, <1>6, <1>7 DEF Reconcile

\* A check-in ends the waiting; it never begins it again.
LEMMA TrackedBeat ==
    ASSUME TypeOK, ExclusiveRun, SeenInOrder, Tracked,
           (\E b \in Beat : BeatLoad(b) \/ BeatCommit(b)) \/ Tick \/ UNCHANGED vars
    PROVE  Tracked'
<1> Runner \subseteq Proc /\ Beat \subseteq Proc /\ Beat \intersect Runner = {}
  BY ConstantsAssumption DEF Proc
<1>1. /\ UNCHANGED <<queue, life>>
      /\ \A p \in Runner : /\ pc'[p] = pc[p] /\ hand'[p] = hand[p] /\ post'[p] = post[p]
                           /\ mem'[p] = mem[p]
  BY DEF TypeOK, BeatLoad, BeatCommit, Closed, Tick, vars, Goto, store, session
<1>2. row'.gen = row.gen /\ (Awaited' => Awaited)
  <2>1. CASE row' = row
    BY <1>1, <2>1 DEF Awaited
  <2>2. ASSUME NEW b \in Beat, BeatCommit(b), row' # row
        PROVE  row'.gen = row.gen /\ (Awaited' => Awaited)
    <3>1. PICK mine \in BeatRows(b) : row' = Merge(row, mem[b], mine)
      BY <2>2 DEF BeatCommit
    <3>2. /\ row'.gen = row.gen /\ row'.wakeAt = row.wakeAt
          /\ row'.seenAt \in {row.seenAt, tok[b]} \union tok[b] .. now
          /\ row'.deadline \in {None, row.deadline}
      BY <3>1, BeatColumns, MergeColumns
    <3>3. /\ row.seenAt \in Nat /\ tok[b] \in Nat /\ row.wakeAt \in Nat /\ now \in Nat
          /\ row.seenAt <= tok[b]
      BY <2>2 DEF TypeOK, Row, SeenInOrder, BeatCommit
    <3>4. CheckedIn(row) => CheckedIn(row')
      BY <3>2, <3>3 DEF CheckedIn, None
    <3> QED
      BY <1>1, <3>2, <3>4 DEF Awaited
  <2> QED
    BY <2>1, <2>2 DEF BeatLoad, Tick, vars, store
<1>3. \A p \in Runner : Covering(p) => Covering(p)'
  BY <1>1, <1>2 DEF Covering, Responsible
<1> QED
  BY <1>1, <1>2, <1>3 DEF Tracked

\* A wake that waits for its check-in is never forgotten, for any number of creations,
\* updates, deletions and workers, whatever message is delivered twice: a reconcile
\* message of the row's generation is queued, or some process is about to see to it. What
\* may not happen is that a run is cut off or fails at the gateway, that a template sync
\* changes the generation (it queues nothing), or that two check-ins overlap: the later
\* commit may then take the time of the last one back.
THEOREM WakesAreCovered ==
    ASSUME WatchedWakes
    PROVE  Spec => []Covered
<1> DEFINE Inv == ExclusiveRun /\ Posted /\ SeenInOrder /\ Tracked
<1>1. Init => Inv
  <2>1. Init => ExclusiveRun
    BY ConstantsAssumption DEF Init, ExclusiveRun, Runner, Proc
  <2>2. Init => Posted
    BY DEF Init, Posted, Waking, Runner, Proc
  <2>3. Init => SeenInOrder /\ Tracked
    BY DEF Init, SeenInOrder, Tracked, Awaited, NewRow, Runner, Proc, None
  <2> QED
    BY <2>1, <2>2, <2>3
<1>2. TypeOK /\ Inv /\ [Next]_vars => Inv'
  <2> SUFFICES ASSUME TypeOK, Inv, [Next]_vars PROVE Inv'
    OBVIOUS
  <2>1. ExclusiveRun' /\ Posted' /\ SeenInOrder'
    BY WatchedWakes, ExclusiveRunStep, PostedStep, SeenInOrderStep
  <2>2. \A p \in Runner : ~Reject(p) /\ ~Crash(p) /\ ~TimeOut(p)
    BY WatchedWakes DEF Reject, Crash, TimeOut, Fails, WatchedWakes
  <2>3. Tracked'
    BY <2>2, WatchedWakes, TrackedRequest, TrackedRun, TrackedReconcile, TrackedBeat
       DEF Next, Runner
  <2> QED
    BY <2>1, <2>3
<1>3. Inv => Covered
  BY DEF Tracked, Covered, Covering
<1> QED
  BY <1>1, <1>2, <1>3, TypeCorrect, PTL DEF Spec

-----------------------------------------------------------------------------
(* The tokens.                                                              *)

\* Which token a flush leaves in the row.
LEMMA MergeToken ==
    ASSUME NEW a, NEW b, NEW c
    PROVE  /\ c.token = b.token => Merge(a, b, c).token = a.token
           /\ Merge(a, b, c).token \in {a.token, c.token}
           /\ c.token # b.token => Merge(a, b, c).token = c.token
  BY DEF Merge

LEMMA RowToken ==
    ASSUME NEW r \in Row, NEW o, NEW t, NEW k
    PROVE  /\ Requested(r, o, t, k).token = k
           /\ Completed(r, o).token = r.token
           /\ GivenUp(r).token = r.token
           /\ [r EXCEPT !.err = TRUE].token = r.token
           /\ [r EXCEPT !.token = k].token = k
  BY DEF Row, Requested, Completed, GivenUp

LEMMA BeatToken ==
    ASSUME NEW b \in Beat, TypeOK, NEW mine \in BeatRows(b)
    PROVE  mine.token = mem[b].token
<1>1. mem[b] \in Row
  BY DEF TypeOK, Proc
<1>2. \A t : Touched(mem[b], t).token = mem[b].token
  BY <1>1 DEF Touched, Row
<1>3. \A r, t, given : r = mem[b] \/ (\E u : r = Touched(mem[b], u))
                          => Heartbeaten(r, t, given).token = mem[b].token
  BY <1>1, <1>2 DEF Heartbeaten, Touched, Row
<1> QED
  BY <1>2, <1>3 DEF BeatRows

AtGateway(p) == pc[p] \in {"locked", "applied", "rejected"}

\* While the token of a rotation is the newest one, the row has it, and so has the row
\* any run is about to commit. A run at the gateway has left its token there, or somebody
\* took the agent off the gateway since.
RotationInv ==
    /\ \A c \in Runner : op[c] = "rotate" =>
          /\ tok[c] # 0 /\ tok[c] <= minted
          /\ tok[c] = minted =>
                row.token = minted /\ \A p \in Runner : AtGateway(p) => draft[p].token = minted
    /\ \A p \in Runner : pc[p] = "applied" => gwToken \in {0, tok[p]}

\* A step of p that leaves the row's token, the counter and the rotations as they are.
LEMMA RotationQuiet ==
    ASSUME TypeOK, RotationInv, NEW p \in Runner,
           row'.token = row.token, minted' = minted,
           \A q \in Runner \ {p} : /\ pc'[q] = pc[q] /\ op'[q] = op[q]
                                   /\ tok'[q] = tok[q] /\ draft'[q] = draft[q],
           op'[p] = "rotate" => op[p] = "rotate" /\ tok'[p] = tok[p],
           AtGateway(p)' => (AtGateway(p) /\ draft'[p] = draft[p])
                            \/ draft'[p].token = row.token,
           \A q \in Runner : pc'[q] = "applied" => gwToken' \in {0, tok'[q]}
    PROVE  RotationInv'
<1>1. ASSUME NEW c \in Runner, op'[c] = "rotate"
      PROVE  op[c] = "rotate" /\ tok'[c] = tok[c]
  BY <1>1
<1>2. ASSUME NEW q \in Runner, AtGateway(q)'
      PROVE  (AtGateway(q) /\ draft'[q] = draft[q]) \/ draft'[q].token = row.token
  BY <1>2 DEF AtGateway
<1> QED
  BY <1>1, <1>2 DEF RotationInv

\* A step of p that mints a token: every rotation's is then an older one, except its own,
\* and nobody else is at the gateway.
LEMMA RotationMints ==
    ASSUME TypeOK, RotationInv, NEW p \in Runner, minted' = minted + 1,
           \A q \in Runner \ {p} : /\ pc'[q] = pc[q] /\ op'[q] = op[q] /\ tok'[q] = tok[q],
           op'[p] = "rotate" => tok'[p] = minted' /\ row'.token = minted'
                                /\ \A q \in Runner : ~AtGateway(q)',
           \A q \in Runner : pc'[q] = "applied" => gwToken' \in {0, tok'[q]}
    PROVE  RotationInv'
<1>1. minted \in Nat /\ \A q \in Runner : tok[q] \in Nat
  BY DEF TypeOK, Proc
<1>2. ASSUME NEW c \in Runner, op'[c] = "rotate"
      PROVE  /\ tok'[c] # 0 /\ tok'[c] <= minted'
             /\ tok'[c] = minted' => row'.token = minted' /\ \A q \in Runner : ~AtGateway(q)'
  BY <1>1, <1>2 DEF RotationInv
<1> QED
  BY <1>2 DEF RotationInv

\* Every step keeps the newest rotation's token in the row.
LEMMA RotationStep ==
    ASSUME TypeOK, ExclusiveRun, Posted, RotationInv, [Next]_vars
    PROVE  RotationInv'
<1> /\ Runner \subseteq Proc /\ Caller \subseteq Runner /\ Worker \subseteq Runner
    /\ Beat \subseteq Proc /\ Beat \intersect Runner = {} /\ Free \notin Runner
  BY ConstantsAssumption DEF Proc, Runner
<1>0. /\ row \in Row /\ minted \in Nat
      /\ \A p \in Proc : mem[p] \in Row /\ draft[p] \in Row /\ tok[p] \in Nat
      /\ \A p, q \in Runner : AtGateway(p) /\ AtGateway(q) => p = q
      /\ \A p \in Runner : AtGateway(p) => lock = p
  BY DEF TypeOK, ExclusiveRun, AtGateway
<1>1. ASSUME NEW c \in Caller, Request(c) \/ DeleteRow(c)
      PROVE  RotationInv'
  <2>1. /\ \A q \in Runner \ {c} : /\ pc'[q] = pc[q] /\ op'[q] = op[q]
                                   /\ tok'[q] = tok[q] /\ draft'[q] = draft[q]
        /\ ~AtGateway(c)' /\ gwToken' \in {0, gwToken}
    <3>1. CASE DeleteOnGateway(c) \/ DeleteRow(c)
      BY <3>1 DEF DeleteOnGateway, DeleteRow, Closed, Goto, store, TypeOK, AtGateway
    <3>2. CASE Create(c) \/ Update(c) \/ ProvisionMain(c) \/ SyncTemplates(c)
      BY <3>2 DEF Create, Update, CommitToken, ProvisionMain, SyncTemplates, Goto, store,
                  TypeOK, AtGateway
    <3> QED
      BY <1>1, <3>1, <3>2 DEF Request
  <2>2. \A q \in Runner : pc'[q] = "applied" => gwToken' \in {0, tok'[q]}
    BY <2>1 DEF RotationInv, AtGateway
  <2>3. CASE minted' = minted + 1
    <3>1. /\ row'.token = minted' /\ tok'[c] = minted' /\ lock = Free
      <4>1. CASE Create(c)
        BY <4>1 DEF Create, NewRow, ExclusiveRun, TypeOK
      <4>2. CASE CommitToken(c)
        BY <4>2, <1>0, RowToken DEF CommitToken, TypeOK
      <4> QED
        BY <1>0, <1>1, <2>3, <4>1, <4>2 DEF Request, Update, ProvisionMain, SyncTemplates,
           DeleteOnGateway, DeleteRow
    <3>2. \A q \in Runner : ~AtGateway(q)'
      BY <1>0, <2>1, <3>1 DEF AtGateway
    <3> QED
      BY <2>1, <2>2, <2>3, <3>1, <3>2, RotationMints
  <2>4. CASE minted' # minted + 1
    <3>1. row' = row /\ minted' = minted /\ op'[c] # "rotate"
      BY <1>1, <2>4 DEF Request, Create, Update, CommitToken, ProvisionMain, SyncTemplates,
                        DeleteOnGateway, DeleteRow, Closed, store, TypeOK
    <3> QED
      BY <2>1, <2>2, <3>1, RotationQuiet
  <2> QED
    BY <2>3, <2>4
<1>2. ASSUME NEW p \in Runner, LockAndFlush(p)
      PROVE  RotationInv'
  <2> DEFINE k == IF tok[p] = 0 THEN minted + 1 ELSE tok[p]
             t == IF Wakes(op[p]) THEN now + 1 ELSE now
             r == Requested(mem[p], op[p], t, IF tok[p] = 0 THEN k ELSE mem[p].token)
  <2>1. tok[p] # 0 => Merge(row, mem[p], r).token = row.token
    <3>1. r.token = IF tok[p] = 0 THEN k ELSE mem[p].token
      BY <1>0, RowToken
    <3> QED
      BY <3>1, MergeToken
  <2>2. /\ row' = row /\ op' = op /\ gwToken' = gwToken /\ lock = Free
        /\ minted' = (IF tok[p] = 0 THEN minted + 1 ELSE minted)
        /\ pc' = [pc EXCEPT ![p] = "locked"] /\ tok' = [tok EXCEPT ![p] = k]
        /\ draft' = [draft EXCEPT ![p] = Merge(row, mem[p], r)]
    BY <1>2 DEF LockAndFlush, Lockable, Goto
  <2>3. /\ \A q \in Runner \ {p} : /\ pc'[q] = pc[q] /\ op'[q] = op[q]
                                   /\ tok'[q] = tok[q] /\ draft'[q] = draft[q]
        /\ \A q \in Runner : pc'[q] # "applied"
        /\ tok'[p] = k /\ draft'[p] = Merge(row, mem[p], r)
    BY <1>0, <2>2 DEF TypeOK, AtGateway
  <2> HIDE DEF t, r
  <2>4. CASE tok[p] = 0
    <3>1. op[p] # "rotate"
      BY <2>4 DEF RotationInv
    <3> QED
      BY <2>2, <2>3, <2>4, <3>1, RotationMints
  <2>5. CASE tok[p] # 0
    BY <2>1, <2>2, <2>3, <2>5, RotationQuiet
  <2> QED
    BY <2>4, <2>5
<1>3. ASSUME NEW p \in Runner, Apply(p) \/ Reject(p)
      PROVE  RotationInv'
  <2>1. /\ AtGateway(p) /\ UNCHANGED <<row, minted, op, tok, draft>>
        /\ \A q \in Runner \ {p} : pc'[q] = pc[q]
        /\ pc'[p] = "applied" => gwToken' = tok[p]
    BY <1>3 DEF Apply, Reject, AtGateway, Goto, store, session, TypeOK
  <2>2. \A q \in Runner : pc'[q] = "applied" => gwToken' \in {0, tok'[q]}
    BY <1>0, <2>1 DEF AtGateway
  <2> QED
    BY <2>1, <2>2, RotationQuiet
<1>4. ASSUME NEW p \in Runner, Closed(p) \/ Raised(p), row'.token = row.token,
             minted' = minted, gwToken' = gwToken \/ AtGateway(p)
      PROVE  RotationInv'
  <2>1. /\ \A q \in Runner \ {p} : /\ pc'[q] = pc[q] /\ op'[q] = op[q]
                                   /\ tok'[q] = tok[q] /\ draft'[q] = draft[q]
        /\ op'[p] = "rotate" => op[p] = "rotate" /\ tok'[p] = tok[p]
        /\ ~AtGateway(p)'
    BY <1>4 DEF Closed, Raised, TypeOK, AtGateway
  <2>2. \A q \in Runner : pc'[q] = "applied" => gwToken' \in {0, tok'[q]}
    BY <1>0, <1>4, <2>1 DEF RotationInv, AtGateway
  <2> QED
    BY <1>4, <2>1, <2>2, RotationQuiet
<1>5. ASSUME NEW p \in Runner, CommitApplied(p) \/ CommitRejected(p)
      PROVE  RotationInv'
  <2> DEFINE mine == IF CommitApplied(p) THEN Completed(mem[p], op[p])
                                         ELSE [mem[p] EXCEPT !.err = TRUE]
  <2>1. row' = Merge(draft[p], mem[p], mine) /\ AtGateway(p)
    BY <1>5 DEF CommitApplied, CommitRejected, AtGateway
  <2>2. row'.token = draft[p].token
    <3>1. mine.token = mem[p].token
      BY <1>0, RowToken
    <3> HIDE DEF mine
    <3> QED
      BY <2>1, <3>1, MergeToken
  <2>3. /\ minted' = minted /\ gwToken' = gwToken
        /\ \A q \in Runner \ {p} : /\ pc'[q] = pc[q] /\ op'[q] = op[q] /\ tok'[q] = tok[q]
        /\ op'[p] = "rotate" => op[p] = "rotate" /\ tok'[p] = tok[p]
        /\ ~AtGateway(p)'
    <3>1. CASE Closed(p) \/ Raised(p)
      BY <1>5, <3>1 DEF CommitApplied, CommitRejected, Closed, Raised, TypeOK, AtGateway
    <3>2. CASE ~Closed(p) /\ ~Raised(p)
      BY <1>5, <3>2 DEF CommitApplied, CommitRejected, Goto, session, TypeOK, AtGateway
    <3> QED
      BY <3>1, <3>2
  <2>4. \A q \in Runner : ~AtGateway(q)'
    BY <1>0, <2>1, <2>3 DEF AtGateway
  <2>5. ASSUME NEW c \in Runner, op'[c] = "rotate"
        PROVE  /\ tok'[c] # 0 /\ tok'[c] <= minted'
               /\ tok'[c] = minted' => row'.token = minted'
    BY <2>1, <2>2, <2>3, <2>5 DEF RotationInv
  <2> QED
    BY <2>4, <2>5 DEF RotationInv, AtGateway
<1>6. ASSUME NEW p \in Runner, \/ LockMissing(p) \/ Refresh(p) \/ Enqueue(p) \/ Crash(p)
                               \/ p \in Worker /\ TimeOut(p)
      PROVE  RotationInv'
  <2>1. /\ UNCHANGED <<row, minted>> /\ (gwToken' = gwToken \/ AtGateway(p))
    BY <1>6 DEF LockMissing, Refresh, Enqueue, Crash, TimeOut, Interrupted, store, AtGateway
  <2>2. CASE Closed(p) \/ Raised(p)
    BY <1>4, <2>1, <2>2
  <2>3. CASE ~Closed(p) /\ ~Raised(p)
    <3>1. /\ UNCHANGED <<op, tok, draft, gwToken>> /\ pc'[p] = "enqueue"
          /\ \A q \in Runner \ {p} : pc'[q] = pc[q]
      BY <1>6, <2>3 DEF LockMissing, Refresh, Enqueue, Crash, TimeOut, Goto, TypeOK
    <3>2. \A q \in Runner : pc'[q] = "applied" => gwToken' \in {0, tok'[q]}
      BY <3>1 DEF RotationInv
    <3> QED
      BY <2>1, <3>1, <3>2, RotationQuiet DEF AtGateway
  <2> QED
    BY <2>2, <2>3
<1>7. ASSUME NEW w \in Worker, Reconcile(w)
      PROVE  RotationInv'
  <2>1. minted' = minted /\ gwToken' = gwToken /\ row'.token = row.token
    <3>1. CASE GiveUp(w)
      BY <1>0, <3>1, RowToken, MergeToken DEF GiveUp
    <3>2. CASE ~GiveUp(w)
      BY <1>7, <3>2 DEF Reconcile, Pop, Skip, Defer, Decide, Requeue, store
    <3> QED
      BY <1>7, <3>1, <3>2 DEF GiveUp, Reconcile, Pop, Skip, Defer, Decide, Requeue
  <2>2. CASE Closed(w) \/ Raised(w)
    BY <1>4, <2>1, <2>2
  <2>3. CASE ~Closed(w) /\ ~Raised(w)
    <3>1. /\ UNCHANGED <<tok, draft>> /\ pc'[w] \in {"popped", "giveup", "prepared"}
          /\ op'[w] # "rotate"
          /\ \A q \in Runner \ {w} : pc'[q] = pc[q] /\ op'[q] = op[q]
      BY <1>7, <2>3 DEF Reconcile, Pop, Skip, Defer, Decide, GiveUp, Requeue, Goto, TypeOK,
                        Posted
    <3>2. \A q \in Runner : pc'[q] = "applied" => gwToken' \in {0, tok'[q]}
      BY <2>1, <3>1 DEF RotationInv
    <3> QED
      BY <2>1, <3>1, <3>2, RotationQuiet DEF AtGateway
  <2> QED
    BY <2>2, <2>3
<1>8. ASSUME (\E b \in Beat : BeatLoad(b) \/ BeatCommit(b)) \/ Tick \/ UNCHANGED vars
      PROVE  RotationInv'
  <2>1. /\ minted' = minted /\ gwToken' = gwToken
        /\ \A q \in Runner : /\ pc'[q] = pc[q] /\ op'[q] = op[q]
                             /\ tok'[q] = tok[q] /\ draft'[q] = draft[q]
    BY <1>8 DEF BeatLoad, BeatCommit, Closed, Tick, vars, Goto, store, session, TypeOK
  <2>2. row'.token = row.token
    <3>1. ASSUME NEW b \in Beat, BeatCommit(b), row' # row
          PROVE  row'.token = row.token
      BY <3>1, BeatToken, MergeToken DEF BeatCommit
    <3> QED
      BY <1>8, <3>1 DEF BeatLoad, Tick, vars, store
  <2> QED
    BY <2>1, <2>2 DEF RotationInv, AtGateway
<1> QED
  BY <1>1, <1>2, <1>3, <1>5, <1>6, <1>7, <1>8 DEF Next, Run

\* A template sync that rotates tokens and ends well leaves the same token on both sides,
\* or none at the gateway, for any number of requests, workers and failures beside it, if
\* nobody minted a token after it did.
THEOREM RotationEndsWell == Spec => RotationRepairs
<1> DEFINE Inv == ExclusiveRun /\ Posted /\ RotationInv
<1>1. Init => Inv
  <2>1. Init => ExclusiveRun
    BY ConstantsAssumption DEF Init, ExclusiveRun, Runner, Proc
  <2>2. Init => Posted
    BY DEF Init, Posted, Waking, Runner, Proc
  <2>3. Init => RotationInv
    BY DEF Init, RotationInv, Runner, Proc
  <2> QED
    BY <2>1, <2>2, <2>3
<1>2. TypeOK /\ Inv /\ [Next]_vars => Inv'
  BY ExclusiveRunStep, PostedStep, RotationStep
<1>3. ASSUME TypeOK, Inv, [Next]_vars, NEW c \in Caller, op[c] = "rotate", pc[c] = "applied",
             pc'[c] = "done", tok[c] = minted, faults' = faults
      PROVE  gwToken' \in {0, row'.token}
  <2> c \in Runner /\ Runner \subseteq Proc /\ c \notin Worker /\ Beat \intersect Runner = {}
    BY ConstantsAssumption DEF Runner, Proc
  <2>1. CommitApplied(c)
    <3>1. ASSUME NEW p \in Proc, p # c, UNCHANGED pc \/ \E x : pc' = [pc EXCEPT ![p] = x]
          PROVE  FALSE
      BY <1>3, <3>1 DEF TypeOK
    <3>2. ASSUME NEW p \in Proc, p # c, Closed(p) \/ Raised(p)
          PROVE  FALSE
      BY <3>1, <3>2 DEF Closed, Raised
    <3>3. ASSUME NEW d \in Caller, Request(d) \/ DeleteRow(d)
          PROVE  FALSE
      <4>1. d # c
        BY <1>3, <3>3 DEF Request, Create, Update, ProvisionMain, SyncTemplates,
                          DeleteOnGateway, DeleteRow
      <4>2. d \in Proc
        BY DEF Proc, Runner
      <4> QED
        BY <3>1, <3>2, <3>3, <4>1, <4>2 DEF Request, Create, Update, ProvisionMain,
           SyncTemplates, DeleteOnGateway, DeleteRow, Goto
    <3>4. ASSUME NEW p \in Runner, Run(p) \/ Reject(p) \/ Crash(p), ~CommitApplied(c)
          PROVE  FALSE
      <4>1. p # c
        BY <1>3, <3>4 DEF Run, LockAndFlush, LockMissing, Apply, CommitRejected, Refresh,
                          Enqueue, Reject, Crash, Fails, TypeOK
      <4> QED
        BY <3>1, <3>2, <3>4, <4>1 DEF Run, LockAndFlush, LockMissing, Apply, CommitApplied,
           CommitRejected, Refresh, Enqueue, Reject, Crash, Goto
    <3>5. ASSUME NEW w \in Worker, Reconcile(w) \/ TimeOut(w)
          PROVE  FALSE
      <4>1. w # c /\ w \in Proc
        BY DEF Proc, Runner
      <4> QED
        BY <3>1, <3>2, <3>5, <4>1 DEF Reconcile, Pop, Skip, Defer, Decide, GiveUp, Requeue,
           TimeOut, Goto
    <3>6. ASSUME NEW b \in Beat, BeatLoad(b) \/ BeatCommit(b)
          PROVE  FALSE
      <4>1. b # c /\ b \in Proc
        BY DEF Proc
      <4> QED
        BY <3>1, <3>2, <3>6, <4>1 DEF BeatLoad, BeatCommit, Goto
    <3>7. ~Tick /\ ~UNCHANGED vars
      BY <1>3 DEF Tick, vars
    <3> QED
      BY <1>3, <3>3, <3>4, <3>5, <3>6, <3>7 DEF Next
  <2>2. /\ row' = Merge(draft[c], mem[c], Completed(mem[c], op[c])) /\ gwToken' = gwToken
    BY <2>1 DEF CommitApplied
  <2>3. row'.token = draft[c].token
    <3>1. mem[c] \in Row
      BY <1>3 DEF TypeOK
    <3> QED
      BY <2>2, <3>1, RowToken, MergeToken
  <2> QED
    BY <1>3, <2>2, <2>3 DEF RotationInv, AtGateway
<1>4. TypeOK /\ Inv /\ [Next]_vars =>
        \A c \in Caller :
           op[c] = "rotate" /\ pc[c] = "applied" /\ pc'[c] = "done" /\ tok[c] = minted
              => (faults' = faults => gwToken' \in {0, row'.token})
  BY <1>3
<1> QED
  BY <1>1, <1>2, <1>4, TypeCorrect, PTL DEF Spec, RotationRepairs


\* The agent is created and woken, nothing else is done to it, and no run is cut off or
\* refused by the gateway.
OnlyCreated == Op \subseteq {"create"} /\ Fault \subseteq {"redis", "duplicate"}

\* Nobody else runs for the agent until the run of its creation has ended.
CreationFirst ==
    /\ \A c \in Caller : Waking(c) => queue = {} /\ \A q \in Runner : Waking(q) => q = c
    /\ life = "none" => queue = {} /\ \A q \in Runner : ~Waking(q)

LEMMA CreationFirstStep ==
    ASSUME OnlyCreated, TypeOK, Posted, CreationFirst, [Next]_vars
    PROVE  CreationFirst'
<1> /\ Runner \subseteq Proc /\ Runner = Caller \union Worker /\ Beat \subseteq Proc
    /\ Beat \intersect Runner = {} /\ Caller \intersect Worker = {}
  BY ConstantsAssumption DEF Proc, Runner
<1>1. ASSUME NEW c \in Caller, Request(c) \/ DeleteRow(c)
      PROVE  CreationFirst'
  <2>1. Create(c) \/ DeleteRow(c)
    BY <1>1 DEF Request, Update, ProvisionMain, SyncTemplates, DeleteOnGateway, OnlyCreated
  <2>2. CASE Create(c)
    BY <2>2 DEF Create, CreationFirst, Waking, TypeOK
  <2>3. CASE DeleteRow(c)
    BY <2>3 DEF DeleteRow, CreationFirst, Waking, Closed, TypeOK
  <2> QED
    BY <2>1, <2>2, <2>3
<1>2. ASSUME NEW p \in Runner, \/ queue' = queue
                               \/ Waking(p) /\ Closed(p),
             life' = life, Closed(p) \/ Raised(p) \/ op' = op
      PROVE  CreationFirst'
  <2>1. \A q \in Runner : Waking(q)' => Waking(q)
    BY <1>2 DEF Closed, Raised, Waking, TypeOK
  <2>2. Closed(p) => ~Waking(p)'
    BY DEF Closed, Waking, TypeOK
  <2>3. CASE queue' = queue
    BY <1>2, <2>1, <2>3 DEF CreationFirst
  <2>4. CASE Waking(p) /\ Closed(p)
    <3>1. \A c \in Caller : ~Waking(c)'
      BY <2>1, <2>2, <2>4 DEF CreationFirst
    <3>2. life' # "none"
      BY <1>2, <2>4 DEF CreationFirst
    <3> QED
      BY <3>1, <3>2 DEF CreationFirst
  <2> QED
    BY <1>2, <2>3, <2>4
<1>3. ASSUME NEW p \in Runner, Run(p) \/ Reject(p) \/ Crash(p)
      PROVE  CreationFirst'
  <2>1. CASE Enqueue(p)
    BY <1>2, <2>1 DEF Enqueue, store, Posted
  <2>2. CASE ~Enqueue(p)
    <3>1. queue' = queue /\ life' = life /\ (Closed(p) \/ Raised(p) \/ op' = op)
      BY <1>3, <2>2 DEF Run, LockAndFlush, LockMissing, Apply, CommitApplied,
         CommitRejected, Refresh, Reject, Crash, store, session
    <3> QED
      BY <1>2, <3>1
  <2> QED
    BY <2>1, <2>2
<1>4. ASSUME NEW w \in Worker, Reconcile(w) \/ TimeOut(w)
      PROVE  CreationFirst'
  <2>1. CASE Pop(w)
    <3>1. \A c \in Caller : ~Waking(c)
      BY <2>1 DEF Pop, CreationFirst
    <3>2. life # "none" /\ life' = life /\ \A c \in Caller : op'[c] = op[c]
      BY <2>1 DEF Pop, CreationFirst, store, TypeOK
    <3> QED
      BY <3>1, <3>2 DEF CreationFirst, Waking
  <2>2. CASE Defer(w) \/ Requeue(w)
    <3>1. Waking(w) /\ life' = life
      BY <2>2 DEF Defer, Requeue, Posted, Waking, store
    <3>2. queue' = queue \/ Closed(w)
      BY <2>2 DEF Defer, Requeue
    <3>3. Closed(w) \/ Raised(w)
      BY <2>2 DEF Defer, Requeue
    <3> QED
      BY <1>2, <3>1, <3>2, <3>3
  <2>3. CASE Skip(w) \/ Decide(w) \/ GiveUp(w) \/ TimeOut(w)
    <3>1. queue' = queue /\ life' = life /\ (Closed(w) \/ Raised(w) \/ op' = op)
      BY <2>3 DEF Skip, Decide, GiveUp, TimeOut, store
    <3> QED
      BY <1>2, <3>1
  <2> QED
    BY <1>4, <2>1, <2>2, <2>3 DEF Reconcile
<1>5. ASSUME (\E b \in Beat : BeatLoad(b) \/ BeatCommit(b)) \/ Tick \/ UNCHANGED vars
      PROVE  CreationFirst'
  <2>1. UNCHANGED <<queue, life>> /\ \A q \in Runner : op'[q] = op[q]
    BY <1>5 DEF BeatLoad, BeatCommit, Closed, Tick, vars, store, session, TypeOK
  <2> QED
    BY <2>1 DEF CreationFirst, Waking
<1> QED
  BY <1>1, <1>3, <1>4, <1>5 DEF Next

\* Tokens in rows were minted.
Minted ==
    /\ row.token <= minted
    /\ \A p \in Runner : mem[p].token <= minted /\ draft[p].token <= minted

\* Every run at the gateway is about to commit the token it leaves there; a reconcile has
\* not chosen one before it has the lock, and the creation's is in the row.
RunTokens ==
    /\ \A p \in Runner :
          /\ pc[p] = "prepared" => tok[p] = IF p \in Worker THEN 0 ELSE row.token
          /\ AtGateway(p) => draft[p].token = tok[p]
          /\ pc[p] = "applied" => gwToken = tok[p]
          /\ pc[p] # "rejected"
    /\ \A w \in Worker : pc[w] \in {"idle", "popped", "giveup"} => tok[w] = 0
    /\ \A c \in Caller : pc[c] = "prepared" => row.token # 0
    /\ life = "live" => \/ gwToken = row.token
                        \/ \E p \in Runner : \/ pc[p] = "applied"
                                             \/ p \in Caller /\ pc[p] \in {"prepared", "locked"}

TokenInv == ExclusiveRun /\ Posted /\ CreationFirst /\ Minted /\ RunTokens


\* A step of p that leaves the row and the gateway alone, and does not begin or end p's
\* time at the gateway.
LEMMA TokensQuiet ==
    ASSUME TypeOK, TokenInv, NEW p \in Runner, UNCHANGED <<row, gwToken, life, minted>>,
           \A q \in Runner \ {p} : /\ pc'[q] = pc[q] /\ tok'[q] = tok[q]
                                   /\ mem'[q] = mem[q] /\ draft'[q] = draft[q],
           mem'[p].token <= minted, draft'[p].token <= minted,
           ~AtGateway(p), ~AtGateway(p)', pc[p] = "prepared" => life # "live",
           pc'[p] = "prepared" => p \in Worker /\ tok'[p] = 0,
           p \in Worker /\ pc'[p] \in {"idle", "popped", "giveup"} => tok'[p] = 0
    PROVE  Minted' /\ RunTokens'
<1>1. Minted'
  BY DEF TokenInv, Minted
<1>2. ASSUME NEW q \in Runner, q # p
      PROVE  /\ pc'[q] = "prepared" => tok'[q] = IF q \in Worker THEN 0 ELSE row'.token
             /\ AtGateway(q)' => draft'[q].token = tok'[q]
             /\ pc'[q] = "applied" => gwToken' = tok'[q]
             /\ pc'[q] # "rejected"
             /\ q \in Worker /\ pc'[q] \in {"idle", "popped", "giveup"} => tok'[q] = 0
             /\ q \in Caller /\ pc'[q] = "prepared" => row'.token # 0
  BY <1>2 DEF TokenInv, RunTokens, AtGateway
<1>3. Caller \subseteq Runner /\ Worker \subseteq Runner /\ Caller \intersect Worker = {}
  BY ConstantsAssumption DEF Runner
<1>4. life' = "live" => \/ gwToken' = row'.token
                        \/ \E q \in Runner : \/ pc'[q] = "applied"
                                             \/ q \in Caller /\ pc'[q] \in {"prepared", "locked"}
  BY DEF TokenInv, RunTokens, AtGateway
<1> QED
  BY <1>1, <1>2, <1>3, <1>4 DEF RunTokens, AtGateway

\* The creation starts with the token it stored.
LEMMA TokensCreate ==
    ASSUME OnlyCreated, TypeOK, TokenInv, NEW c \in Caller, Request(c) \/ DeleteRow(c)
    PROVE  Minted' /\ RunTokens'
<1> /\ c \in Runner /\ c \in Proc /\ Runner \subseteq Proc /\ c \notin Worker
    /\ Worker \subseteq Runner /\ Caller \subseteq Runner /\ Free \notin Runner
  BY ConstantsAssumption DEF Runner, Proc
<1>0. /\ minted \in Nat /\ \A p \in Runner : mem[p] \in Row /\ draft[p] \in Row
      /\ \A p \in Runner : mem[p].token \in Nat /\ draft[p].token \in Nat
  BY DEF TypeOK, Row
<1>1. Create(c)
  <2>1. ~DeleteRow(c)
    <3>1. op[c] \in {"create", "none"}
      BY DEF TokenInv, Posted, OnlyCreated
    <3> QED
      BY <3>1 DEF DeleteRow, TokenInv, Posted
  <2> QED
    BY <2>1 DEF Request, Update, ProvisionMain, SyncTemplates, DeleteOnGateway, OnlyCreated
<1>2. /\ minted' = minted + 1 /\ row' = NewRow(minted') /\ life = "none" /\ life' = "live"
      /\ pc' = [pc EXCEPT ![c] = "prepared"] /\ mem' = [mem EXCEPT ![c] = row']
      /\ tok' = [tok EXCEPT ![c] = minted'] /\ draft' = draft /\ gwToken' = gwToken
  BY <1>1 DEF Create, Goto
<1>3. row'.token = minted' /\ mem'[c] = row' /\ tok'[c] = minted' /\ pc'[c] = "prepared"
  BY <1>2 DEF NewRow, TypeOK
<1>4. ASSUME NEW q \in Runner, q # c
      PROVE  /\ pc'[q] = pc[q] /\ tok'[q] = tok[q] /\ mem'[q] = mem[q]
             /\ ~AtGateway(q) /\ pc[q] # "prepared"
  <2>1. ~Waking(q) /\ lock = Free
    BY <1>2 DEF TokenInv, CreationFirst, ExclusiveRun
  <2>2. op[q] \notin {"sync", "rotate"}
    BY ConstantsAssumption DEF TokenInv, Posted, OnlyCreated, Runner
  <2>3. ~AtGateway(q) /\ pc[q] # "prepared"
    BY <2>1, <2>2 DEF TokenInv, Posted, AtGateway
  <2> QED
    BY <1>2, <1>4, <2>3 DEF TypeOK
<1>5. Minted'
  BY <1>0, <1>2, <1>3, <1>4 DEF Minted, TokenInv
<1>6. RunTokens'
  BY <1>0, <1>2, <1>3, <1>4 DEF RunTokens, AtGateway, TokenInv
<1> QED
  BY <1>5, <1>6

\* The flush: a reconcile mints the token it commits and leaves at the gateway.
LEMMA TokensFlush ==
    ASSUME OnlyCreated, TypeOK, TokenInv, NEW p \in Runner, LockAndFlush(p)
    PROVE  Minted' /\ RunTokens'
<1> /\ p \in Proc /\ Runner \subseteq Proc /\ Free \notin Runner
    /\ Worker \subseteq Runner /\ Caller \subseteq Runner
    /\ Runner = Caller \union Worker /\ Caller \intersect Worker = {}
  BY ConstantsAssumption DEF Runner, Proc
<1> DEFINE k == IF tok[p] = 0 THEN minted + 1 ELSE tok[p]
           t == IF Wakes(op[p]) THEN now + 1 ELSE now
           n == IF tok[p] = 0 THEN k ELSE mem[p].token
           r == Requested(mem[p], op[p], t, n)
<1>0. /\ minted \in Nat /\ \A q \in Runner : mem[q] \in Row /\ draft[q] \in Row
      /\ \A q \in Runner : mem[q].token \in Nat /\ draft[q].token \in Nat
      /\ row \in Row /\ row.token \in Nat
  BY DEF TypeOK, Row
<1>1. /\ row' = row /\ life' = life /\ gwToken' = gwToken /\ pc[p] = "prepared" /\ lock = Free
      /\ minted' = IF tok[p] = 0 THEN k ELSE minted
      /\ pc' = [pc EXCEPT ![p] = "locked"] /\ mem' = [mem EXCEPT ![p] = r]
      /\ tok' = [tok EXCEPT ![p] = k]
      /\ draft' = [draft EXCEPT ![p] = Merge(row, mem[p], r)]
  BY DEF LockAndFlush, Lockable, Goto
<1>2. r.token = n
  BY <1>0, RowToken
<1>3. /\ n = mem[p].token => Merge(row, mem[p], r).token = row.token
      /\ n # mem[p].token => Merge(row, mem[p], r).token = n
  BY <1>2, MergeToken
<1>4. mem[p].token <= minted /\ row.token <= minted
  BY DEF TokenInv, Minted
<1>5. /\ pc'[p] = "locked" /\ mem'[p] = r /\ tok'[p] = k
      /\ draft'[p] = Merge(row, mem[p], r)
      /\ \A q \in Runner \ {p} : /\ pc'[q] = pc[q] /\ tok'[q] = tok[q]
                                 /\ mem'[q] = mem[q] /\ draft'[q] = draft[q]
  BY <1>1 DEF TypeOK
<1>6. CASE tok[p] = 0
  <2>1. minted' = minted + 1 /\ k = minted + 1 /\ n = k
    BY <1>1, <1>6
  <2>2. draft'[p].token = k /\ mem'[p].token = k
    BY <1>0, <1>2, <1>3, <1>4, <1>5, <2>1
  <2>3. p \in Worker
    BY <1>1, <1>6 DEF TokenInv, RunTokens
  <2> HIDE DEF k, n, r, t
  <2>4. Minted'
    BY <1>0, <1>1, <1>5, <2>1, <2>2 DEF TokenInv, Minted
  <2>5. RunTokens'
    BY <1>1, <1>5, <2>1, <2>2, <2>3 DEF TokenInv, RunTokens, AtGateway
  <2> QED
    BY <2>4, <2>5
<1>7. CASE tok[p] # 0
  <2>1. minted' = minted /\ k = tok[p] /\ n = mem[p].token
    BY <1>1, <1>7
  <2>2. p \in Caller /\ tok[p] = row.token
    BY <1>1, <1>7 DEF TokenInv, RunTokens
  <2>3. draft'[p].token = k /\ mem'[p].token <= minted
    BY <1>2, <1>3, <1>4, <1>5, <2>1, <2>2
  <2> HIDE DEF k, n, r, t
  <2>4. Minted'
    BY <1>0, <1>1, <1>4, <1>5, <2>1, <2>2, <2>3 DEF TokenInv, Minted
  <2>5. RunTokens'
    BY <1>1, <1>5, <2>1, <2>2, <2>3 DEF TokenInv, RunTokens, AtGateway
  <2> QED
    BY <2>4, <2>5
<1> QED
  BY <1>6, <1>7

\* The gateway takes the token, and the commit makes it the accepted one.
LEMMA TokensCommit ==
    ASSUME OnlyCreated, TypeOK, TokenInv, NEW p \in Runner, Apply(p) \/ CommitApplied(p)
    PROVE  Minted' /\ RunTokens'
<1> /\ p \in Proc /\ Runner \subseteq Proc /\ Free \notin Runner
    /\ Worker \subseteq Runner /\ Caller \subseteq Runner
    /\ Runner = Caller \union Worker /\ Caller \intersect Worker = {}
  BY ConstantsAssumption DEF Runner, Proc
<1>0. /\ minted \in Nat /\ \A q \in Runner : mem[q] \in Row /\ draft[q] \in Row
      /\ \A q \in Runner : mem[q].token \in Nat /\ draft[q].token \in Nat
      /\ row \in Row /\ row.token \in Nat
      /\ \A q \in Runner \ {p} : AtGateway(p) => ~AtGateway(q)
  BY DEF TypeOK, Row, TokenInv, ExclusiveRun, AtGateway
<1>1. CASE Apply(p)
  <2>1. /\ pc[p] = "locked" /\ gwToken' = tok[p] /\ pc' = [pc EXCEPT ![p] = "applied"]
        /\ UNCHANGED <<row, life, minted, tok, mem, draft>>
    BY <1>1 DEF Apply, Goto, store, session
  <2>2. pc'[p] = "applied" /\ \A q \in Runner \ {p} : pc'[q] = pc[q] /\ pc[q] # "applied"
    BY <1>0, <2>1 DEF TypeOK, AtGateway
  <2> QED
    BY <2>1, <2>2 DEF TokenInv, Minted, RunTokens, AtGateway
<1>2. CASE CommitApplied(p)
  <2>1. /\ pc[p] = "applied" /\ UNCHANGED <<gwToken, life, minted, tok, mem, draft>>
        /\ pc' = [pc EXCEPT ![p] = "refresh"]
        /\ row' = Merge(draft[p], mem[p], Completed(mem[p], op[p]))
    <3>1. Wakes(op[p])
      BY <1>2 DEF CommitApplied, Wakes, TokenInv, Posted, OnlyCreated
    <3> QED
      BY <1>2, <3>1 DEF CommitApplied, Goto, session
  <2>2. row'.token = draft[p].token
    <3>1. Completed(mem[p], op[p]).token = mem[p].token
      BY <1>0, RowToken
    <3> QED
      BY <2>1, <3>1, MergeToken
  <2>3. row'.token = gwToken' /\ row'.token <= minted
    BY <2>1, <2>2 DEF TokenInv, RunTokens, AtGateway, Minted
  <2>4. /\ pc'[p] = "refresh"
        /\ \A q \in Runner \ {p} : pc'[q] = pc[q] /\ ~AtGateway(q)
    BY <1>0, <2>1 DEF TypeOK, AtGateway
  <2>5. \A c \in Caller : pc'[c] # "prepared"
    <3>1. ASSUME NEW c \in Caller, pc[c] = "prepared"
          PROVE  FALSE
      <4>1. Waking(c) /\ Waking(p)
        BY <2>1, <3>1 DEF TokenInv, Posted, OnlyCreated, Waking
      <4> QED
        BY <2>1, <3>1, <4>1 DEF TokenInv, CreationFirst
    <3> QED
      BY <2>4, <3>1
  <2>6. Minted'
    BY <2>1, <2>3 DEF TokenInv, Minted
  <2>7. RunTokens'
    BY <2>1, <2>3, <2>4, <2>5 DEF TokenInv, RunTokens, AtGateway
  <2> QED
    BY <2>6, <2>7
<1> QED
  BY <1>1, <1>2

\* The other steps.
LEMMA TokensRest ==
    ASSUME OnlyCreated, TypeOK, TokenInv, NEW p \in Runner,
           \/ LockMissing(p) \/ Refresh(p) \/ Enqueue(p)
           \/ p \in Worker /\ Reconcile(p)
    PROVE  Minted' /\ RunTokens'
<1> /\ p \in Proc /\ Runner \subseteq Proc /\ Free \notin Runner
    /\ Worker \subseteq Runner /\ Caller \subseteq Runner
    /\ Runner = Caller \union Worker /\ Caller \intersect Worker = {}
  BY ConstantsAssumption DEF Runner, Proc
<1>0. /\ minted \in Nat /\ mem[p].token <= minted /\ draft[p].token <= minted
      /\ row.token <= minted /\ row \in Row /\ mem[p] \in Row
  BY DEF TypeOK, TokenInv, Minted
<1>1. /\ UNCHANGED <<gwToken, life, minted>> /\ ~AtGateway(p)
      /\ pc[p] = "prepared" => life # "live"
  BY DEF LockMissing, Refresh, Enqueue, Reconcile, Pop, Skip, Defer, Decide, GiveUp, Requeue,
         store, AtGateway
<1>2. CASE (Closed(p) \/ Raised(p)) /\ row' = row
  <2>1. /\ \A q \in Runner \ {p} : /\ pc'[q] = pc[q] /\ tok'[q] = tok[q]
                                   /\ mem'[q] = mem[q] /\ draft'[q] = draft[q]
        /\ pc'[p] \in {"idle", "done", "raised"}
        /\ \/ mem'[p] = NewRow(0) /\ draft'[p] = NewRow(0) /\ tok'[p] = 0
           \/ mem'[p] = mem[p] /\ draft'[p] = draft[p] /\ pc'[p] = "raised"
    BY <1>2 DEF Closed, Raised, TypeOK
  <2>2. mem'[p].token <= minted /\ draft'[p].token <= minted
    BY <1>0, <2>1 DEF NewRow
  <2> QED
    BY <1>1, <1>2, <2>1, <2>2, TokensQuiet DEF AtGateway
<1>3. CASE GiveUp(p) /\ row' # row
  <2>1. row'.token = row.token
    BY <1>0, <1>3, RowToken, MergeToken DEF GiveUp
  <2>2. /\ \A q \in Runner \ {p} : /\ pc'[q] = pc[q] /\ tok'[q] = tok[q]
                                   /\ mem'[q] = mem[q] /\ draft'[q] = draft[q]
        /\ pc'[p] = "idle" /\ tok'[p] = 0 /\ p \in Worker /\ pc[p] = "giveup"
        /\ mem'[p].token = 0 /\ draft'[p].token = 0
    <3>1. Closed(p) /\ p \in Worker /\ pc[p] = "giveup"
      BY <1>3, ConstantsAssumption DEF GiveUp, TokenInv, Posted
    <3> QED
      BY <3>1 DEF Closed, TypeOK, NewRow
  <2>3. Minted'
    BY <1>0, <1>1, <2>1, <2>2 DEF TokenInv, Minted
  <2>4. RunTokens'
    BY <1>1, <2>1, <2>2 DEF TokenInv, RunTokens, AtGateway
  <2> QED
    BY <2>3, <2>4
<1>4. CASE Pop(p) \/ Decide(p)
  <2>1. p \in Worker /\ pc[p] \in {"idle", "popped"}
    BY <1>4 DEF LockMissing, Refresh, Enqueue, Pop, Decide
  <2>2. tok[p] = 0
    BY <2>1 DEF TokenInv, RunTokens
  <2>3. /\ UNCHANGED <<row, tok, draft>> /\ mem'[p] \in {mem[p], row}
        /\ pc'[p] \in {"popped", "giveup", "prepared"}
        /\ \A q \in Runner \ {p} : pc'[q] = pc[q] /\ mem'[q] = mem[q]
    BY <1>4 DEF Pop, Decide, Goto, store, TypeOK
  <2> QED
    BY <1>0, <1>1, <2>1, <2>2, <2>3, TokensQuiet DEF AtGateway
<1>5. CASE Refresh(p) /\ ~Closed(p) /\ ~Raised(p)
  <2>1. /\ UNCHANGED <<row, tok, mem, draft>> /\ pc'[p] = "enqueue"
        /\ \A q \in Runner \ {p} : pc'[q] = pc[q]
    BY <1>5 DEF Refresh, Goto, store, TypeOK
  <2> QED
    BY <1>0, <1>1, <2>1, TokensQuiet DEF AtGateway
<1> QED
  BY <1>2, <1>3, <1>4, <1>5
     DEF LockMissing, Refresh, Enqueue, Reconcile, Skip, Defer, GiveUp, Requeue, store


\* Heartbeats and the clock leave the tokens alone.
LEMMA TokensBeat ==
    ASSUME TypeOK, TokenInv,
           (\E b \in Beat : BeatLoad(b) \/ BeatCommit(b)) \/ Tick \/ UNCHANGED vars
    PROVE  Minted' /\ RunTokens'
<1> /\ Runner \subseteq Proc /\ Beat \subseteq Proc /\ Beat \intersect Runner = {}
    /\ Worker \subseteq Runner /\ Caller \subseteq Runner
  BY ConstantsAssumption DEF Proc, Runner
<1>1. /\ UNCHANGED <<minted, gwToken, life>>
      /\ \A q \in Runner : /\ pc'[q] = pc[q] /\ tok'[q] = tok[q]
                           /\ mem'[q] = mem[q] /\ draft'[q] = draft[q]
  BY DEF TypeOK, BeatLoad, BeatCommit, Closed, Tick, vars, Goto, store, session
<1>2. row'.token = row.token
  <2>1. ASSUME NEW b \in Beat, BeatCommit(b), row' # row
        PROVE  row'.token = row.token
    BY <2>1, BeatToken, MergeToken DEF BeatCommit
  <2> QED
    BY <2>1 DEF BeatLoad, Tick, vars, store
<1> QED
  BY <1>1, <1>2 DEF TokenInv, Minted, RunTokens, AtGateway

\* Whenever no run is under way the token in the agent's file is the one the backend
\* accepts, for any number of workers and heartbeats and whatever message is lost or
\* delivered twice: as long as the agent is only created and woken, every run commits the
\* token it left at the gateway. (A request that carries a token it took before it had
\* the lock may leave an older one there.)
THEOREM TokensAgree ==
    ASSUME OnlyCreated
    PROVE  Spec => []TokenAgreement
<1>1. Init => TokenInv
  <2>1. Init => ExclusiveRun
    BY ConstantsAssumption DEF Init, ExclusiveRun, Runner, Proc
  <2>2. Init => Posted /\ CreationFirst
    BY DEF Init, Posted, CreationFirst, Waking, Runner, Proc
  <2>3. Init => Minted /\ RunTokens
    BY DEF Init, Minted, RunTokens, AtGateway, NewRow, Runner, Proc
  <2> QED
    BY <2>1, <2>2, <2>3 DEF TokenInv
<1>2. TypeOK /\ TokenInv /\ [Next]_vars => TokenInv'
  <2> SUFFICES ASSUME TypeOK, TokenInv, [Next]_vars PROVE TokenInv'
    OBVIOUS
  <2>1. ExclusiveRun' /\ Posted' /\ CreationFirst'
    BY OnlyCreated, ExclusiveRunStep, PostedStep, CreationFirstStep DEF TokenInv
  <2>2. \A p \in Runner : ~Reject(p) /\ ~Crash(p) /\ ~TimeOut(p) /\ ~CommitRejected(p)
    BY OnlyCreated DEF Reject, Crash, TimeOut, CommitRejected, Fails, OnlyCreated,
       TokenInv, RunTokens
  <2>3. Minted' /\ RunTokens'
    <3> Worker \subseteq Runner
      BY DEF Runner
    <3> QED
      BY <2>2, OnlyCreated, TokensCreate, TokensFlush, TokensCommit, TokensRest, TokensBeat
         DEF Next, Run
  <2> QED
    BY <2>1, <2>3 DEF TokenInv
<1>3. TokenInv => TokenAgreement
  BY DEF TokenInv, RunTokens, TokenAgreement, Runner
<1> QED
  BY <1>1, <1>2, <1>3, TypeCorrect, PTL DEF Spec
=============================================================================
