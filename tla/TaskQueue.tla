------------------------------ MODULE TaskQueue ------------------------------
(***************************************************************************)
(* The Redis queue of services/queue.py and the worker loop of              *)
(* services/queue_worker.py, one Redis command per step: a list of ready    *)
(* envelopes, pushed at the left and popped at the right; a sorted set of   *)
(* scheduled ones; and workers that drain the second into the first, block  *)
(* on the first, run a handler and requeue what failed.                     *)
(***************************************************************************)
EXTENDS Naturals, Sequences, FiniteSets, SequencesExt

CONSTANTS
    Webhook,       \* tasks queued at once by the webhook ingest
    Lifecycle,     \* tasks queued with a delay, which a handler may defer
    Worker,
    MaxRetries,    \* settings.rq_dispatch_max_retries
    Base, Cap,     \* settings.rq_dispatch_retry_base_seconds, ..._max_seconds
    Jitter,        \* largest jitter added to a retry delay
    Block,         \* _WORKER_BLOCK_TIMEOUT_SECONDS
    Batch,         \* _DRY_RUN_BATCH_SIZE
    Delay,         \* delay of a lifecycle task, and of its deferrals
    MaxDefers,     \* bound: deferrals in one behaviour
    Fault,         \* kinds of failure that may happen
    MaxFaults      \* bound: failures in one behaviour

Task == Webhook \union Lifecycle
AllFaults == {"crash", "redis", "ingest"}

ASSUME QueueAssumption ==
    /\ Webhook \intersect Lifecycle = {}
    /\ MaxRetries \in Nat /\ Base \in Nat \ {0} /\ Cap \in Nat \ {0}
    /\ Jitter \in Nat /\ Block \in Nat \ {0} /\ Batch \in Nat \ {0}
    /\ Delay \in Nat \ {0} /\ MaxDefers \in Nat /\ MaxFaults \in Nat
    /\ Fault \subseteq AllFaults

VARIABLES
    now,
    produced,   \* where the producer of each task is
    ready,      \* the Redis list; its last element is popped first
    sched,      \* the Redis sorted set: a score for each member
    pc,         \* where each worker is
    clock,      \* the time a worker took at the start of its drain
    trailing,   \* whether the drain is the one after BRPOP timed out
    batch,      \* the envelopes a drain read
    until,      \* when BRPOP times out; 0 is never
    hand,       \* the envelope a worker popped
    defers,     \* deferrals so far; makes a deferred envelope's created_at new
    done,       \* tasks some handler run succeeded for
    dropped,    \* tasks given up
    fails,      \* failed handler runs of each task
    notBefore,  \* history: the time each task was last put off to
    hurt,       \* history: the tasks that a failure took from a worker
    faults,
    order       \* history: webhook tasks in the order they were queued

vars == <<now, produced, ready, sched, pc, clock, trailing, batch, until, hand,
          defers, done, dropped, fails, notBefore, hurt, faults, order>>

\* QueuedTask; created_at matters only in that a deferral takes a new one.
Envelope == [task : Task, attempts : Nat, stamp : Nat]

\* mutant: an envelope without created_at, as legacy producers wrote it
First_Legacy(t) == [task |-> t, attempts |-> 0]

\* The envelope of a task queued for the first time.
First(t) == [task |-> t, attempts |-> 0, stamp |-> 0]
Nothing == [task |-> "none", attempts |-> 0, stamp |-> 0]

TypeOK ==
    /\ now \in Nat
    /\ produced \in [Task -> {"new", "stored", "accepted", "refused", "notified"}]
    /\ ready \in Seq(Envelope)
    /\ DOMAIN sched \subseteq Envelope /\ \A e \in DOMAIN sched : sched[e] \in Nat
    /\ pc \in [Worker -> {"read", "push", "remove", "next", "block", "handling", "failed"}]
    /\ clock \in [Worker -> Nat] /\ trailing \in [Worker -> BOOLEAN]
    /\ batch \in [Worker -> Seq(Envelope)] /\ until \in [Worker -> Nat]
    /\ hand \in [Worker -> Envelope \union {Nothing}]
    /\ defers \in Nat /\ done \subseteq Task /\ dropped \subseteq Task
    /\ fails \in [Task -> Nat] /\ notBefore \in [Task -> Nat]
    /\ hurt \subseteq Task /\ faults \in Nat
    /\ order \in Seq(Webhook)

Init ==
    /\ now = 1
    /\ produced = [t \in Task |-> "new"]
    /\ ready = <<>> /\ sched = <<>>
    /\ pc = [w \in Worker |-> "read"]
    /\ clock = [w \in Worker |-> 0] /\ trailing = [w \in Worker |-> FALSE]
    /\ batch = [w \in Worker |-> <<>>] /\ until = [w \in Worker |-> 0]
    /\ hand = [w \in Worker |-> Nothing]
    /\ defers = 0 /\ done = {} /\ dropped = {}
    /\ fails = [t \in Task |-> 0] /\ notBefore = [t \in Task |-> 0]
    /\ hurt = {} /\ faults = 0 /\ order = <<>>

-----------------------------------------------------------------------------
(* Redis commands.                                                          *)

Least(a, b) == IF a <= b THEN a ELSE b

\* mutant: RPUSH
Lpush_AtTheRight(e) == ready' = Append(ready, e)

\* LPUSH of one element
Lpush(e) == ready' = <<e>> \o ready

\* ZADD: a member that is there gets the new score.
Zadd(e, score) ==
    sched' = [x \in DOMAIN sched \union {e} |-> IF x = e THEN score ELSE sched[x]]

\* mutant: the drained members stay
Zrem_Nothing(S) == S \subseteq S /\ sched' = sched

\* ZREM
Zrem(S) == sched' = [x \in DOMAIN sched \ S |-> sched[x]]

\* The members with a score up to t, least score first, as ZRANGEBYSCORE
\* returns them (members of the same score in either order).
Due_TooEarly(t) == {e \in DOMAIN sched : sched[e] <= t + 1}
Due(t) == {e \in DOMAIN sched : sched[e] <= t}
Ranges(S) == {s \in [1..Cardinality(S) -> S] :
                 \A i, j \in DOMAIN s : i < j => s[i] # s[j] /\ sched[s[i]] <= sched[s[j]]}

Fails(f) == f \in Fault /\ faults < MaxFaults /\ faults' = faults + 1

Goto(w, where) == pc' = [pc EXCEPT ![w] = where]

worker == <<pc, clock, trailing, batch, until, hand>>
outcome == <<done, dropped, fails, hurt, order>>

-----------------------------------------------------------------------------
(* Producers.                                                               *)

\* ingest_board_webhook commits the payload; the orchestrator its row.
Store(t) ==
    /\ produced[t] = "new"
    /\ produced' = [produced EXCEPT ![t] = "stored"]
    /\ UNCHANGED <<now, ready, sched, worker, defers, outcome, notBefore, faults>>

\* enqueue_task and enqueue_task_with_delay report a Redis error as False ...
EnqueueOk(t) ==
    /\ produced[t] = "stored"
    /\ \/ /\ t \in Webhook /\ Lpush(First(t))
          /\ order' = Append(order, t)
          /\ UNCHANGED <<sched, notBefore>>
       \/ /\ t \in Lifecycle /\ Zadd(First(t), now + Delay)
          /\ notBefore' = [notBefore EXCEPT ![t] = now + Delay]
          /\ UNCHANGED <<ready, order>>
    /\ produced' = [produced EXCEPT ![t] = "accepted"]
    /\ UNCHANGED <<now, worker, defers, done, dropped, fails, hurt, faults>>

\* ... which enqueue_webhook_delivery does not look at: it returns True.
DeliveryQueued(pushed) == TRUE

\* The queue refuses: ingest_board_webhook notifies the lead itself if it was
\* told so; a lifecycle producer does not look at the answer.
EnqueueFails(t) ==
    /\ produced[t] = "stored"
    /\ Fails("redis")
    /\ produced' = [produced EXCEPT ![t] =
          IF t \in Webhook /\ ~DeliveryQueued(FALSE) THEN "notified" ELSE "refused"]
    /\ UNCHANGED <<now, ready, sched, worker, defers, outcome, notBefore>>

-----------------------------------------------------------------------------
(* dequeue_task(block=True).                                                *)

\* _drain_ready_scheduled_tasks takes the time and reads what is due by it.
DrainRead(w) ==
    /\ pc[w] = "read"
    /\ \E s \in Ranges(Due(now)) :
          batch' = [batch EXCEPT ![w] = SubSeq(s, 1, Least(Batch, Len(s)))]
    /\ clock' = [clock EXCEPT ![w] = now]
    /\ Goto(w, IF batch'[w] = <<>> THEN "next" ELSE "push")
    /\ UNCHANGED <<now, produced, ready, sched, trailing, until, hand, defers,
                   outcome, notBefore, faults>>

\* LPUSH of the batch, which ends up in the list in reverse ...
DrainPush(w) ==
    /\ pc[w] = "push"
    /\ ready' = Reverse(batch[w]) \o ready
    /\ Goto(w, "remove")
    /\ UNCHANGED <<now, produced, sched, clock, trailing, batch, until, hand, defers,
                   outcome, notBefore, faults>>

\* ... and ZREM of its members, by value.
DrainRemove(w) ==
    /\ pc[w] = "remove"
    /\ Zrem(ToSet(batch[w]))
    /\ batch' = [batch EXCEPT ![w] = <<>>]
    /\ Goto(w, "next")
    /\ UNCHANGED <<now, produced, ready, clock, trailing, until, hand, defers,
                   outcome, notBefore, faults>>

\* The members still scheduled for the drain's time or later.
Coming(t) == {sched[e] : e \in {x \in DOMAIN sched : sched[x] >= t}}

\* mutant: the caller's block timeout is ignored
Timeout_Endless(t) ==
    IF Coming(t) = {} THEN 0
    ELSE (CHOOSE s \in Coming(t) : \A r \in Coming(t) : s <= r) - t

\* How long BRPOP may wait: until the next member is due, at most Block.
Timeout(t) ==
    IF Coming(t) = {} THEN Block
    ELSE Least(Block, (CHOOSE s \in Coming(t) : \A r \in Coming(t) : s <= r) - t)

\* The drain ends; before BRPOP it decides for how long, after it the worker
\* loop starts over.  A timeout of 0 waits for ever.
DrainNext(w) ==
    /\ pc[w] = "next"
    /\ trailing' = [trailing EXCEPT ![w] = FALSE]
    /\ IF trailing[w]
       THEN Goto(w, "read") /\ UNCHANGED until
       ELSE /\ Goto(w, "block")
            /\ LET d == Timeout(clock[w]) IN
               until' = [until EXCEPT ![w] = IF d = 0 THEN 0 ELSE now + d]
    /\ UNCHANGED <<now, produced, ready, sched, clock, batch, hand, defers, outcome,
                   notBefore, faults>>

\* BRPOP returns the oldest element ...
Pop(w) ==
    /\ pc[w] = "block" /\ ready # <<>>
    /\ hand' = [hand EXCEPT ![w] = Last(ready)]
    /\ ready' = Front(ready)
    /\ Goto(w, "handling")
    /\ UNCHANGED <<now, produced, sched, clock, trailing, batch, until, defers,
                   outcome, notBefore, faults>>

\* ... or nothing.
PopTimeout(w) ==
    /\ pc[w] = "block" /\ ready = <<>>
    /\ until[w] # 0 /\ now >= until[w]
    /\ trailing' = [trailing EXCEPT ![w] = TRUE]
    /\ Goto(w, "read")
    /\ UNCHANGED <<now, produced, ready, sched, clock, batch, until, hand, defers,
                   outcome, notBefore, faults>>

-----------------------------------------------------------------------------
(* flush_queue with a task.                                                 *)

\* The task leaves the worker, which goes for the next one.
Released(w) ==
    /\ hand' = [hand EXCEPT ![w] = Nothing]
    /\ batch' = [batch EXCEPT ![w] = <<>>]
    /\ Goto(w, "read")

\* The handler returns.
Succeed(w) ==
    /\ pc[w] = "handling"
    /\ done' = done \union {hand[w].task}
    /\ Released(w)
    /\ UNCHANGED <<now, produced, ready, sched, clock, trailing, until, defers, dropped,
                   fails, hurt, order, notBefore, faults>>

\* The reconcile handler comes too early: defer_lifecycle_reconcile queues a
\* new envelope with the same number of attempts.
Defer(w) ==
    LET e == hand[w] IN
    /\ pc[w] = "handling" /\ e.task \in Lifecycle
    /\ defers < MaxDefers /\ defers' = defers + 1
    /\ Zadd([e EXCEPT !.stamp = defers'], now + Delay)
    /\ notBefore' = [notBefore EXCEPT ![e.task] = now + Delay]
    /\ Released(w)
    /\ UNCHANGED <<now, produced, ready, clock, trailing, until, outcome, faults>>

\* The handler raises.
Fail(w) ==
    /\ pc[w] = "handling"
    /\ fails' = [fails EXCEPT ![hand[w].task] = @ + 1]
    /\ Goto(w, "failed")
    /\ UNCHANGED <<now, produced, ready, sched, clock, trailing, batch, until, hand,
                   defers, done, dropped, hurt, order, notBefore, faults>>

\* attempts_to_delay: exponential, capped.
Backoff(attempts) == Least(Base * 2 ^ attempts, Cap)

\* mutant: one run too few
Exhausted_OneLess(e) == e.attempts + 1 >= MaxRetries

\* The retry cap of requeue_if_failed.
Exhausted(e) == e.attempts + 1 > MaxRetries

\* requeue_if_failed
Requeue(w) ==
    /\ pc[w] = "failed" /\ ~Exhausted(hand[w])
    /\ \E j \in 0..Jitter :
          LET score == now + Backoff(hand[w].attempts) + j IN
          /\ Zadd([hand[w] EXCEPT !.attempts = @ + 1], score)
          /\ notBefore' = [notBefore EXCEPT ![hand[w].task] = score]
    /\ Released(w)
    /\ UNCHANGED <<now, produced, ready, clock, trailing, until, defers, outcome, faults>>

GiveUp(w) ==
    /\ pc[w] = "failed" /\ Exhausted(hand[w])
    /\ dropped' = dropped \union {hand[w].task}
    /\ Released(w)
    /\ UNCHANGED <<now, produced, ready, sched, clock, trailing, until, defers, done,
                   fails, hurt, order, notBefore, faults>>

-----------------------------------------------------------------------------
(* Failures and time.                                                       *)

\* A worker dies and is started again, or a Redis error unwinds its loop in
\* the drain or in the requeue: what it held is gone. (A BRPOP whose reply is lost
\* after Redis popped is a Pop and then this.)
Crash(w) ==
    /\ \/ Fails("crash")
       \/ pc[w] \in {"push", "remove", "next"} /\ Fails("redis")
       \/ pc[w] = "failed" /\ ~Exhausted(hand[w]) /\ Fails("redis")
    /\ hurt' = IF pc[w] \in {"handling", "failed"} THEN hurt \union {hand[w].task} ELSE hurt
    /\ trailing' = [trailing EXCEPT ![w] = FALSE]
    /\ Released(w)
    /\ UNCHANGED <<now, produced, ready, sched, clock, until, defers, done, dropped, fails,
                   order, notBefore>>

\* The API process dies between its commit and the enqueue.
IngestCrash(t) ==
    /\ produced[t] = "stored"
    /\ Fails("ingest")
    /\ produced' = [produced EXCEPT ![t] = "refused"]
    /\ UNCHANGED <<now, ready, sched, worker, defers, outcome, notBefore>>

\* Redis answers without delay and BRPOP keeps its timeout, so time passes only
\* while every worker waits or runs a handler; it need not pass when every
\* scheduled task is overdue by more than Block.
Tick ==
    /\ DOMAIN sched # {}
    /\ \A w \in Worker :
          \/ pc[w] = "handling"
          \/ pc[w] = "block" /\ ready = <<>> /\ (until[w] = 0 \/ now < until[w])
    /\ \/ \E e \in DOMAIN sched : now <= sched[e] + Block
       \/ \E w \in Worker : pc[w] = "block" /\ until[w] > now
    /\ now' = now + 1
    /\ UNCHANGED <<produced, ready, sched, worker, defers, outcome, notBefore, faults>>

-----------------------------------------------------------------------------
Produce(t) == Store(t) \/ EnqueueOk(t)
Dequeue(w) == DrainRead(w) \/ DrainPush(w) \/ DrainRemove(w) \/ DrainNext(w)
              \/ Pop(w) \/ PopTimeout(w)
Flush(w) == Succeed(w) \/ Defer(w) \/ Fail(w) \/ Requeue(w) \/ GiveUp(w)

Next == \/ \E t \in Task : Produce(t) \/ EnqueueFails(t) \/ IngestCrash(t)
        \/ \E w \in Worker : Dequeue(w) \/ Flush(w) \/ Crash(w)
        \/ Tick

Spec == Init /\ [][Next]_vars

\* The worker loop and the clock go on; a handler returns or raises.
FairSpec == Spec /\ \A w \in Worker : WF_vars(Dequeue(w)) /\ WF_vars(Flush(w))
                 /\ WF_vars(Tick)

-----------------------------------------------------------------------------
(* Properties.                                                              *)

\* Where a task still is.  What a drain has pushed and is about to remove from
\* the sorted set no longer counts there.
Moving == UNION {ToSet(batch[w]) : w \in {x \in Worker : pc[x] = "remove"}}
Waiting == ToSet(ready) \union (DOMAIN sched \ Moving)
Queued == {e.task : e \in Waiting}
Pushed == {e.task : e \in UNION {ToSet(batch[w]) : w \in {x \in Worker : pc[x] = "push"}}}
Held == {hand[w].task : w \in {x \in Worker : pc[x] \in {"handling", "failed"}}}

Fate(t) ==
    IF t \in done THEN "done"
    ELSE IF t \in dropped THEN "dropped"
    ELSE IF t \in Queued \union Pushed \union Held THEN "pending"
    ELSE IF produced[t] = "accepted" THEN "lost" ELSE "new"

\* The queue implements its contract: a task once accepted is neither lost
\* between the list and the sorted set nor dropped before MaxRetries + 1 runs
\* of it failed, except when a crash or a Redis error took it from a worker.
Contract == INSTANCE TaskContract WITH fate <- [t \in Task |-> Fate(t)]
KeepsContract == Contract!Spec

\* Every accepted task is settled in the end, however its handler behaves.
EveryTaskSettles == Contract!Settles

\* One worker, nothing failing: a task is never in two places, so no handler
\* runs twice for one attempt and none after the task is settled.
NoDuplicate ==
    /\ Cardinality(ToSet(ready)) = Len(ready)
    /\ ToSet(ready) \intersect (DOMAIN sched \ Moving) = {}
    /\ \A e, f \in Waiting : e.task = f.task => e = f
    /\ Held \intersect Queued = {}
    /\ (done \union dropped) \intersect (Queued \union Held) = {}

\* A retried, deferred or delayed task is not handled before its time.
NeverEarly ==
    \A w \in Worker : pc[w] = "handling" => now >= notBefore[hand[w].task]

\* A worker that waits wakes up for a scheduled task within Block of its time,
\* even when it was scheduled while the worker already waited.
WakesInTime ==
    \A w \in Worker : pc[w] = "block" /\ ready = <<>> =>
        \A e \in DOMAIN sched : now <= sched[e] + Block

\* Webhook payloads are first handled in the order they were queued: while one
\* is still in the list untried, so are those queued after it.
InOrder ==
    \A i, j \in DOMAIN order :
        i < j /\ First(order[i]) \in ToSet(ready) => First(order[j]) \in ToSet(ready)
=============================================================================
