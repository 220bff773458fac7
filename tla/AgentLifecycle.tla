--------------------------- MODULE AgentLifecycle ---------------------------
(***************************************************************************)
(* The life of one agent: API requests and queue workers that run           *)
(* AgentLifecycleOrchestrator.run_lifecycle, the agent's own heartbeats,    *)
(* the row they share, the token file on the gateway, and the delayed       *)
(* reconcile messages that escalate a wake nobody answered.                 *)
(*                                                                          *)
(* What is kept exactly is who reads the row when.  A database session      *)
(* keeps the object it loaded first: the SELECT ... FOR UPDATE of           *)
(* _lock_agent waits for the row lock but hands back that object as it was, *)
(* and a flush writes only the columns whose value differs from the loaded  *)
(* one.  `mem' is the session's object, `Merge' the flush.                  *)
(***************************************************************************)
EXTENDS Naturals, FiniteSets

CONSTANTS
    Caller,       \* API requests; each performs one operation of Op
    Worker,       \* queue worker processes
    Beat,         \* heartbeat requests the agent may have open at once
    Op,           \* operations callers may perform, a subset of AllOps
    MaxWake,      \* MAX_WAKE_ATTEMPTS_WITHOUT_CHECKIN
    Grace,        \* CHECKIN_DEADLINE_AFTER_WAKE, in clock ticks
    RetryDelay,   \* delay of a requeued message, in clock ticks
    MaxRetries,   \* settings.rq_dispatch_max_retries
    Fault,        \* kinds of failure that may happen, a subset of AllFaults
    MaxFaults,    \* bound: failures in one behaviour
    MaxBeats,     \* bound: heartbeats in one behaviour
    Free          \* "nobody holds the row lock"

AllOps == {"create", "update", "main", "sync", "rotate", "delete"}
AllFaults == {"gateway", "timeout", "crash", "redis", "duplicate"}
Runner == Caller \union Worker
Proc == Runner \union Beat

ASSUME ConstantsAssumption ==
    /\ MaxWake \in Nat \ {0} /\ Grace \in Nat \ {0} /\ RetryDelay \in Nat
    /\ MaxRetries \in Nat /\ MaxFaults \in Nat /\ MaxBeats \in Nat
    /\ Op \subseteq AllOps /\ Fault \subseteq AllFaults
    /\ Caller \intersect Worker = {} /\ Runner \intersect Beat = {}
    /\ Free \notin Proc

VARIABLES
    now,      \* the clock; a wake and a touch get a value of their own
    life,     \* whether the row does not exist yet, exists, or was deleted
    row,      \* the committed agents row
    lock,     \* holder of the row lock
    gwToken,  \* AUTH_TOKEN in the agent's TOOLS.md, 0 when there is none
    minted,   \* number of tokens minted so far; a token is its number
    queue,    \* reconcile messages waiting in Redis
    pc,       \* where each process is
    op,       \* what it is doing
    mem,      \* the row as its session remembers it
    draft,    \* the row version it has flushed but not committed
    tok,      \* the raw token it installs, 0 when it is to mint one
    hand,     \* the message a worker has popped
    post,     \* the message a run is about to queue
    beats,    \* heartbeats started
    faults,   \* failures so far
    sent      \* history: wake messages delivered since the last check-in

vars == <<now, life, row, lock, gwToken, minted, queue, pc, op, mem, draft,
          tok, hand, post, beats, faults, sent>>

Status == {"provisioning", "updating", "online", "offline"}
None == 0   \* a timestamp column that is NULL

Row == [status: Status, gen: Nat, wakes: Nat, seenAt: Nat, wakeAt: Nat,
        deadline: Nat, err: BOOLEAN, token: Nat]

\* QueuedAgentLifecycleReconcile with the score its envelope has in Redis.
Message == [gen: Nat, deadline: Nat, attempts: Nat, due: Nat]

PC == {"idle", "done", "popped", "giveup", "prepared", "locked", "applied",
       "rejected", "refresh", "enqueue", "raised", "unlinked", "beating"}

NewRow(token) ==
    [status |-> "provisioning", gen |-> 0, wakes |-> 0, seenAt |-> None,
     wakeAt |-> None, deadline |-> None, err |-> FALSE, token |-> token]

NoMessage == [gen |-> 0, deadline |-> 0, attempts |-> 0, due |-> 0]

TypeOK ==
    /\ now \in Nat /\ life \in {"none", "live", "gone"}
    /\ row \in Row /\ lock \in Runner \union {Free}
    /\ gwToken \in Nat /\ minted \in Nat
    /\ queue \in SUBSET Message
    /\ pc \in [Proc -> PC]
    /\ op \in [Proc -> AllOps \union {"reconcile", "heartbeat", "touch", "none"}]
    /\ mem \in [Proc -> Row] /\ draft \in [Proc -> Row]
    /\ tok \in [Proc -> Nat]
    /\ hand \in [Proc -> Message] /\ post \in [Proc -> Message]
    /\ beats \in Nat /\ faults \in Nat /\ sent \in Nat

Init ==
    /\ now = 1 /\ life = "none" /\ row = NewRow(0) /\ lock = Free
    /\ gwToken = 0 /\ minted = 0 /\ queue = {}
    /\ pc = [p \in Proc |-> "idle"] /\ op = [p \in Proc |-> "none"]
    /\ mem = [p \in Proc |-> NewRow(0)] /\ draft = [p \in Proc |-> NewRow(0)]
    /\ tok = [p \in Proc |-> 0]
    /\ hand = [p \in Proc |-> NoMessage] /\ post = [p \in Proc |-> NoMessage]
    /\ beats = 0 /\ faults = 0 /\ sent = 0

-----------------------------------------------------------------------------
(* What the code computes on a row.                                         *)

\* The columns a flush writes: those the session changed since it loaded them.
Merge(cur, loaded, mine) ==
    [status   |-> IF mine.status   # loaded.status   THEN mine.status   ELSE cur.status,
     gen      |-> IF mine.gen      # loaded.gen      THEN mine.gen      ELSE cur.gen,
     wakes    |-> IF mine.wakes    # loaded.wakes    THEN mine.wakes    ELSE cur.wakes,
     seenAt   |-> IF mine.seenAt   # loaded.seenAt   THEN mine.seenAt   ELSE cur.seenAt,
     wakeAt   |-> IF mine.wakeAt   # loaded.wakeAt   THEN mine.wakeAt   ELSE cur.wakeAt,
     deadline |-> IF mine.deadline # loaded.deadline THEN mine.deadline ELSE cur.deadline,
     err      |-> IF mine.err      # loaded.err      THEN mine.err      ELSE cur.err,
     token    |-> IF mine.token    # loaded.token    THEN mine.token    ELSE cur.token]

\* The wake budget of process_lifecycle_queue_task.
Exhausted_OneMore(r) == r.wakes > MaxWake
Exhausted(r) == r.wakes >= MaxWake

\* _has_checked_in_since_wake
CheckedIn(r) == r.seenAt # None /\ r.seenAt >= r.wakeAt

Wakes(o) == o \notin {"sync", "rotate"}

\* mutant: a minted token is installed on the gateway but not stored
Requested_KeepsToken(r, o, t, k) ==
    [r EXCEPT !.status = IF o \in {"create", "main"} THEN "provisioning" ELSE "updating",
              !.gen = @ + 1, !.err = FALSE,
              !.deadline = IF Wakes(o) THEN t + Grace ELSE None,
              !.wakes = IF Wakes(o) THEN @ + 1 ELSE @,
              !.wakeAt = IF Wakes(o) THEN t ELSE @]

\* run_lifecycle up to its flush, at time t with token k
Requested(r, o, t, k) ==
    [r EXCEPT !.status = IF o \in {"create", "main"} THEN "provisioning" ELSE "updating",
              !.gen = @ + 1,
              !.err = FALSE,
              !.token = k,
              !.deadline = IF Wakes(o) THEN t + Grace ELSE None,
              !.wakes = IF Wakes(o) THEN @ + 1 ELSE @,
              !.wakeAt = IF Wakes(o) THEN t ELSE @]

\* mutant: the column gets a status that does not exist
Completed_Misspelt(r, o) ==
    [r EXCEPT !.status = "provisioned", !.err = FALSE,
              !.deadline = IF Wakes(o) THEN now + Grace ELSE None]

\* mark_provision_complete and the assignments after it
Completed(r, o) ==
    [r EXCEPT !.status = "online", !.err = FALSE,
              !.deadline = IF Wakes(o) THEN now + Grace ELSE None]

\* mutant: the deadline stays although nobody watches it any more
GivenUp_KeepsDeadline(r) == [r EXCEPT !.status = "offline", !.err = TRUE]

\* the max-attempts branch of process_lifecycle_queue_task
GivenUp(r) == [r EXCEPT !.status = "offline", !.deadline = None, !.err = TRUE]

\* _touch_agent_presence, when last_seen_at is old enough
Touched(r, t) ==
    [r EXCEPT !.seenAt = t,
              !.status = IF @ = "updating" THEN @ ELSE "online"]

\* commit_heartbeat; `given' is payload.status = "online"
Heartbeaten(r, t, given) ==
    [r EXCEPT !.status = IF given \/ @ = "provisioning" THEN "online" ELSE @,
              !.seenAt = t, !.wakes = 0, !.deadline = None, !.err = FALSE]

-----------------------------------------------------------------------------
(* Sessions, failures and tokens.                                           *)

\* The request or task ends; its session is closed and forgets everything.
Closed(p) ==
    /\ pc' = [pc EXCEPT ![p] = IF p \in Worker \union Beat THEN "idle" ELSE "done"]
    /\ op' = [op EXCEPT ![p] = "none"]
    /\ mem' = [mem EXCEPT ![p] = NewRow(0)]
    /\ draft' = [draft EXCEPT ![p] = NewRow(0)]
    /\ tok' = [tok EXCEPT ![p] = 0]
    /\ hand' = [hand EXCEPT ![p] = NoMessage]
    /\ post' = [post EXCEPT ![p] = NoMessage]

\* An exception leaves the handler: the worker requeues the message it holds,
\* an API request answers with an error.
Raised(p) ==
    IF p \in Worker
    THEN /\ pc' = [pc EXCEPT ![p] = "raised"]
         /\ UNCHANGED <<op, mem, draft, tok, hand, post>>
    ELSE Closed(p)

\* One failure of kind f happens.
Fails(f) == /\ f \in Fault
            /\ faults < MaxFaults
            /\ faults' = faults + 1

Goto(p, where) == pc' = [pc EXCEPT ![p] = where]

session == <<op, mem, draft, tok, hand, post>>
store == <<life, row, lock>>

-----------------------------------------------------------------------------
(* API operations up to their call of run_lifecycle.                        *)

\* create_agent: persist_new_agent commits a row with a fresh token.
Create(c) ==
    /\ pc[c] = "idle" /\ "create" \in Op
    /\ life = "none"
    /\ life' = "live"
    /\ minted' = minted + 1
    /\ row' = NewRow(minted')
    /\ mem' = [mem EXCEPT ![c] = row']
    /\ tok' = [tok EXCEPT ![c] = minted']
    /\ op' = [op EXCEPT ![c] = "create"]
    /\ Goto(c, "prepared")
    /\ UNCHANGED <<now, lock, gwToken, queue, draft, hand, post, beats, faults, sent>>

\* mutant: the new token is handed to the gateway but not committed
CommitToken_NotStored(p) ==
    /\ lock = Free
    /\ minted' = minted + 1
    /\ row' = row
    /\ mem' = [mem EXCEPT ![p] = row]
    /\ tok' = [tok EXCEPT ![p] = minted']

\* A session mints a token, commits it and reads the row back.
CommitToken(p) ==
    /\ lock = Free
    /\ minted' = minted + 1
    /\ row' = [row EXCEPT !.token = minted']
    /\ mem' = [mem EXCEPT ![p] = row']
    /\ tok' = [tok EXCEPT ![p] = minted']

\* update_agent: mark_agent_update_pending and its commit.
Update(c) ==
    /\ pc[c] = "idle" /\ "update" \in Op
    /\ life = "live"
    /\ CommitToken(c)
    /\ op' = [op EXCEPT ![c] = "update"]
    /\ Goto(c, "prepared")
    /\ UNCHANGED <<now, life, lock, gwToken, queue, draft, hand, post, beats, faults, sent>>

\* provision_main_agent_record: no token is given, run_lifecycle mints one.
ProvisionMain(c) ==
    /\ pc[c] = "idle" /\ "main" \in Op
    /\ life = "live"
    /\ mem' = [mem EXCEPT ![c] = row]
    /\ op' = [op EXCEPT ![c] = "main"]
    /\ Goto(c, "prepared")
    /\ UNCHANGED <<now, store, gwToken, minted, queue, draft, tok, hand, post,
                   beats, faults, sent>>

\* _sync_one_agent: _resolve_agent_auth_token takes the token from the gateway
\* file, or mints and commits one when the file has none or a wrong one and
\* the caller asked for rotation.
SyncTemplates(c) ==
    /\ pc[c] = "idle"
    /\ life = "live"
    /\ \/ /\ "sync" \in Op /\ gwToken # 0
          /\ mem' = [mem EXCEPT ![c] = row]
          /\ tok' = [tok EXCEPT ![c] = gwToken]
          /\ op' = [op EXCEPT ![c] = "sync"]
          /\ UNCHANGED <<row, minted>>
       \/ /\ "rotate" \in Op /\ gwToken # row.token
          /\ CommitToken(c)
          /\ op' = [op EXCEPT ![c] = "rotate"]
    /\ Goto(c, "prepared")
    /\ UNCHANGED <<now, life, lock, gwToken, queue, draft, hand, post, beats, faults, sent>>

\* _delete_agent_record: delete_agent_lifecycle on the gateway first, which may fail
\* before or after it removed the files ...
DeleteOnGateway(c) ==
    /\ pc[c] = "idle" /\ "delete" \in Op
    /\ life = "live"
    /\ \/ /\ gwToken' = 0
          /\ op' = [op EXCEPT ![c] = "delete"]
          /\ Goto(c, "unlinked")
          /\ UNCHANGED <<mem, draft, tok, hand, post, faults>>
       \/ Fails("gateway") /\ Closed(c) /\ gwToken' \in {gwToken, 0}
    /\ UNCHANGED <<now, store, minted, queue, beats, sent>>

\* ... then the row.
DeleteRow(c) ==
    /\ pc[c] = "unlinked"
    /\ lock = Free
    /\ life' = "gone"
    /\ Closed(c)
    /\ UNCHANGED <<now, row, lock, gwToken, minted, queue, beats, faults, sent>>

-----------------------------------------------------------------------------
(* run_lifecycle.                                                           *)

\* mutant: the row is not looked up again under the lock
Lockable_Unchecked == lock = Free

\* SELECT ... FOR UPDATE finds the row and nobody else holds it.
Lockable == life = "live" /\ lock = Free

\* _lock_agent, the mutations and the flush.  The row lock is held from here;
\* the values come from the session's object, which may be out of date.
LockAndFlush(p) ==
    LET k == IF tok[p] = 0 THEN minted + 1 ELSE tok[p]
        t == IF Wakes(op[p]) THEN now + 1 ELSE now
        r == Requested(mem[p], op[p], t, IF tok[p] = 0 THEN k ELSE mem[p].token)
    IN  /\ pc[p] = "prepared"
        /\ Lockable
        /\ lock' = p
        /\ now' = t
        /\ minted' = IF tok[p] = 0 THEN k ELSE minted
        /\ tok' = [tok EXCEPT ![p] = k]
        /\ mem' = [mem EXCEPT ![p] = r]
        /\ draft' = [draft EXCEPT ![p] = Merge(row, mem[p], r)]
        /\ Goto(p, "locked")
        /\ UNCHANGED <<life, row, gwToken, queue, op, hand, post, beats, faults, sent>>

\* The row is gone: 404.
LockMissing(p) ==
    /\ pc[p] = "prepared" /\ life = "gone"
    /\ Raised(p)
    /\ UNCHANGED <<now, store, gwToken, minted, queue, beats, faults, sent>>

\* apply_agent_lifecycle succeeds: the files hold the token and, if asked, the
\* agent's session got the wake message.
Apply(p) ==
    /\ pc[p] = "locked"
    /\ gwToken' = tok[p]
    /\ sent' = IF Wakes(op[p]) THEN sent + 1 ELSE sent
    /\ Goto(p, "applied")
    /\ UNCHANGED <<now, store, minted, queue, session, beats, faults>>

\* The gateway fails, before or after it stored the files.
Reject(p) ==
    /\ pc[p] = "locked"
    /\ Fails("gateway")
    /\ gwToken' \in {gwToken, tok[p]}
    /\ Goto(p, "rejected")
    /\ UNCHANGED <<now, store, minted, queue, session, beats, sent>>

\* What the gateway may hold when a run ends while it is talking to it.
Interrupted(p) == IF pc[p] = "locked" THEN {gwToken, tok[p]} ELSE {gwToken}

\* asyncio.wait_for gives up on the run, wherever it waits: an open transaction is
\* rolled back.
TimeOut(w) ==
    /\ pc[w] \in {"prepared", "locked", "applied", "rejected", "refresh"} /\ w \in Worker
    /\ Fails("timeout")
    /\ gwToken' \in Interrupted(w)
    /\ lock' = IF lock = w THEN Free ELSE lock
    /\ Raised(w)
    /\ UNCHANGED <<now, life, row, minted, queue, beats, sent>>

CommitApplied(p) ==
    /\ pc[p] = "applied"
    /\ row' = Merge(draft[p], mem[p], Completed(mem[p], op[p]))
    /\ lock' = Free
    /\ IF Wakes(op[p])
       THEN Goto(p, "refresh") /\ UNCHANGED session
       ELSE Closed(p)
    /\ UNCHANGED <<now, life, gwToken, minted, queue, beats, faults, sent>>

\* The gateway error is recorded and raised; a template sync may retry.
CommitRejected(p) ==
    LET mine == [mem[p] EXCEPT !.err = TRUE] IN
    /\ pc[p] = "rejected"
    /\ row' = Merge(draft[p], mem[p], mine)
    /\ lock' = Free
    /\ \/ Raised(p)
       \/ /\ op[p] \in {"sync", "rotate"}
          /\ mem' = [mem EXCEPT ![p] = row']
          /\ Goto(p, "prepared")
          /\ UNCHANGED <<op, draft, tok, hand, post>>
    /\ UNCHANGED <<now, life, gwToken, minted, queue, beats, faults, sent>>

\* session.refresh reads the row back; the message is made from what it finds.
Refresh(p) ==
    /\ pc[p] = "refresh"
    /\ \/ /\ life = "live" /\ row.deadline # None
          /\ post' = [post EXCEPT ![p] =
                [gen |-> row.gen, deadline |-> row.deadline, attempts |-> 0,
                 due |-> row.deadline]]
          /\ Goto(p, "enqueue")
          /\ UNCHANGED <<op, mem, draft, tok, hand>>
       \/ life = "live" /\ row.deadline = None /\ Closed(p)
       \/ life = "gone" /\ Raised(p)
    /\ UNCHANGED <<now, store, gwToken, minted, queue, beats, faults, sent>>

\* enqueue_lifecycle_reconcile; its result is not looked at.
Enqueue(p) ==
    /\ pc[p] = "enqueue"
    /\ \/ queue' = queue \union {post[p]} /\ UNCHANGED faults
       \/ Fails("redis") /\ UNCHANGED queue
    /\ Closed(p)
    /\ UNCHANGED <<now, store, gwToken, minted, beats, sent>>

-----------------------------------------------------------------------------
(* The queue worker.                                                        *)

\* dequeue_task; after a lost ZREM the same message is delivered again.
Pop(w) ==
    /\ pc[w] = "idle"
    /\ \E m \in queue :
          /\ m.due <= now
          /\ hand' = [hand EXCEPT ![w] = m]
          /\ \/ queue' = queue \ {m} /\ UNCHANGED faults
             \/ Fails("duplicate") /\ UNCHANGED queue
    /\ op' = [op EXCEPT ![w] = "reconcile"]
    /\ Goto(w, "popped")
    /\ UNCHANGED <<now, store, gwToken, minted, mem, draft, tok, post, beats, sent>>

\* mutant: the current generation counts as stale
Ignorable_OffByOne(m) == \/ life = "gone"
                         \/ row.gen >= m.gen
                         \/ CheckedIn(row)

\* The messages process_lifecycle_queue_task ignores.
Ignorable(m) == \/ life = "gone"
                \/ row.gen # m.gen
                \/ CheckedIn(row)

DeadlineOf(m) == IF row.deadline # None THEN row.deadline ELSE m.deadline

\* process_lifecycle_queue_task reads the row and decides.
Skip(w) ==
    /\ pc[w] = "popped" /\ Ignorable(hand[w])
    /\ Closed(w)
    /\ UNCHANGED <<now, store, gwToken, minted, queue, beats, faults, sent>>

\* Too early: defer_lifecycle_reconcile, which raises when Redis refuses.
Defer(w) ==
    LET m == hand[w] IN
    /\ pc[w] = "popped" /\ ~Ignorable(m)
    /\ now < DeadlineOf(m)
    /\ \/ /\ queue' = queue \union {[m EXCEPT !.due = DeadlineOf(m)]}
          /\ Closed(w)
          /\ UNCHANGED faults
       \/ Fails("redis") /\ Raised(w) /\ UNCHANGED queue
    /\ UNCHANGED <<now, store, gwToken, minted, beats, sent>>

\* Overdue: give up after the last wake, otherwise run the lifecycle again.
Decide(w) ==
    /\ pc[w] = "popped" /\ ~Ignorable(hand[w])
    /\ now >= DeadlineOf(hand[w])
    /\ mem' = [mem EXCEPT ![w] = row]
    /\ Goto(w, IF Exhausted(row) THEN "giveup" ELSE "prepared")
    /\ UNCHANGED <<now, store, gwToken, minted, queue, op, draft, tok, hand, post,
                   beats, faults, sent>>

\* The max-attempts branch commits what it computed from the row it read.
GiveUp(w) ==
    /\ pc[w] = "giveup"
    /\ \/ /\ life = "live" /\ lock = Free
          /\ row' = Merge(row, mem[w], GivenUp(mem[w]))
          /\ Closed(w)
       \/ life = "gone" /\ Raised(w) /\ UNCHANGED row
    /\ UNCHANGED <<now, life, lock, gwToken, minted, queue, beats, faults, sent>>

\* requeue_if_failed: capped retries; a Redis error escapes and the task is lost.
Requeue(w) ==
    LET m == hand[w] IN
    /\ pc[w] = "raised"
    /\ \/ /\ m.attempts + 1 > MaxRetries
          /\ UNCHANGED <<queue, faults>>
       \/ /\ m.attempts + 1 <= MaxRetries
          /\ queue' = queue \union
                {[m EXCEPT !.attempts = @ + 1, !.due = now + RetryDelay]}
          /\ UNCHANGED faults
       \/ /\ m.attempts + 1 <= MaxRetries
          /\ Fails("redis") /\ UNCHANGED queue
    /\ Closed(w)
    /\ UNCHANGED <<now, store, gwToken, minted, beats, sent>>

\* A process dies: its transaction is rolled back, what it held is forgotten.
Crash(p) ==
    /\ pc[p] \notin {"idle", "done"}
    /\ Fails("crash")
    /\ gwToken' \in Interrupted(p)
    /\ lock' = IF lock = p THEN Free ELSE lock
    /\ Closed(p)
    /\ UNCHANGED <<now, life, row, minted, queue, beats, sent>>

-----------------------------------------------------------------------------
(* The agent, and time.                                                     *)

\* A request with X-Agent-Token: it is accepted when the token in the agent's
\* file is the committed one.  It loads the row and takes the time of the touch.
BeatLoad(b) ==
    /\ pc[b] = "idle" /\ beats < MaxBeats
    /\ life = "live" /\ gwToken # 0 /\ gwToken = row.token
    /\ beats' = beats + 1
    /\ now' = now + 1
    /\ mem' = [mem EXCEPT ![b] = row]
    /\ tok' = [tok EXCEPT ![b] = now']
    /\ \E kind \in {"heartbeat", "touch"} : op' = [op EXCEPT ![b] = kind]
    /\ Goto(b, "beating")
    /\ UNCHANGED <<store, gwToken, minted, queue, draft, hand, post, faults, sent>>

\* What the request leaves in its session; a heartbeat may come with or without
\* a status, and with or without the presence touch before it.  commit_heartbeat
\* takes its timestamp before its UPDATE waits for the row lock.
BeatRows(b) ==
    LET touched == Touched(mem[b], tok[b])
    IN  IF op[b] = "touch" THEN {touched}
        ELSE {Heartbeaten(r, t, given) : r \in {mem[b], touched},
                                         t \in tok[b] .. now, given \in BOOLEAN}

\* commit_heartbeat (or the touch) commits.
BeatCommit(b) ==
    /\ pc[b] = "beating"
    /\ \/ /\ life = "live" /\ lock = Free
          /\ \E mine \in BeatRows(b) : row' = Merge(row, mem[b], mine)
          /\ sent' = 0
       \/ life = "gone" /\ UNCHANGED <<row, sent>>
    /\ Closed(b)
    /\ UNCHANGED <<now, life, lock, gwToken, minted, queue, beats, faults>>

\* The clock advances while some message waits for it.
Tick ==
    /\ \E m \in queue : m.due > now
    /\ now' = now + 1
    /\ UNCHANGED <<store, gwToken, minted, queue, pc, session, beats, faults, sent>>

-----------------------------------------------------------------------------
Run(p) == \/ LockAndFlush(p) \/ LockMissing(p) \/ Apply(p) \/ CommitApplied(p)
          \/ CommitRejected(p) \/ Refresh(p) \/ Enqueue(p)

Request(c) == Create(c) \/ Update(c) \/ ProvisionMain(c) \/ SyncTemplates(c)
              \/ DeleteOnGateway(c)

Reconcile(w) == Pop(w) \/ Skip(w) \/ Defer(w) \/ Decide(w) \/ GiveUp(w) \/ Requeue(w)

Next == \/ \E c \in Caller : Request(c) \/ DeleteRow(c)
        \/ \E p \in Runner : Run(p) \/ Reject(p) \/ Crash(p)
        \/ \E w \in Worker : Reconcile(w) \/ TimeOut(w)
        \/ \E b \in Beat : BeatLoad(b) \/ BeatCommit(b)
        \/ Tick

Spec == Init /\ [][Next]_vars

\* The worker loop, a request once started, and the clock do not stop; that a
\* request arrives, that the agent answers and that something fails is free.
Fairness ==
    /\ \A p \in Runner : WF_vars(Run(p))
    /\ \A c \in Caller : WF_vars(DeleteRow(c))
    /\ \A w \in Worker : WF_vars(Reconcile(w))
    /\ \A b \in Beat : WF_vars(BeatCommit(b))
    /\ WF_vars(Tick)

FairSpec == Spec /\ Fairness

-----------------------------------------------------------------------------
(* Properties.                                                              *)

\* p will commit a newer generation or queue a message for the current one.
Responsible(p) ==
    \/ pc[p] \in {"locked", "applied", "refresh"}
    \/ pc[p] = "enqueue" /\ post[p].gen = row.gen
    \/ pc[p] \in {"popped", "prepared", "giveup"} /\ hand[p].gen = row.gen

\* The agent was woken and its check-in is still awaited.
Awaited == life = "live" /\ row.deadline # None /\ ~CheckedIn(row)

\* Only the run that holds the row lock is between its flush and its commit, so
\* runs for one agent take turns at the gateway, and the row they provision
\* cannot be deleted under them.
ExclusiveRun ==
    /\ \A p \in Runner : pc[p] \in {"locked", "applied", "rejected"} <=> lock = p
    /\ lock # Free => life = "live"

\* A wake that waits for its check-in is never forgotten: a reconcile message
\* for the row's generation is queued, or some process is about to see to it.
\* (run_lifecycle queues only after its commit, from a row it reads back, and
\* the worker drops messages of other generations.)
Covered ==
    Awaited => \/ \E m \in queue : m.gen = row.gen
               \/ \E p \in Runner : Responsible(p)

\* The agent is not woken more than MaxWake times without a check-in, except
\* that a failure may repeat a wake whose transaction it undid.
EscalationBounded == sent <= MaxWake + faults

\* When no run is under way the token in the agent's file is the one
\* get_agent_auth_context accepts.
TokenAgreement ==
    (life = "live" /\ \A p \in Runner :
                         pc[p] \notin {"prepared", "locked", "applied", "rejected"})
        => gwToken = row.token

\* Once the row of a deleted agent is gone, nothing still in the queue or in
\* flight puts the agent back on the gateway: run_lifecycle talks to the
\* gateway only while it holds the row's lock. (A run that comes between the
\* deletion at the gateway and the deletion of the row may put it back.)
DeletedStaysClean == [][life = "gone" => gwToken' = gwToken]_vars

\* The provisioning policy converges: every provisioning, update or retried
\* wake ends with the agent online and its check-in seen or no longer awaited,
\* or with the agent offline.
Converges ==
    life = "live" ~> \/ life = "gone"
                     \/ row.status \in {"online", "offline"} /\ ~Awaited

\* A template sync that rotates tokens and ends well leaves the token it wrote
\* to the gateway's file as the one the backend accepts, whatever else ran
\* between its two commits, unless that minted another token or deletes the
\* agent's files.
RotationRepairs ==
    [][\A c \in Caller :
         op[c] = "rotate" /\ pc[c] = "applied" /\ pc'[c] = "done" /\ tok[c] = minted
            => (faults' = faults => gwToken' \in {0, row'.token})]_vars
=============================================================================
