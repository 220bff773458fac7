# Verification of OpenClaw Mission Control

TLA+ models of the backend's stateful core (`src/backend/app`) and of the web
console's pages that keep state across requests (`src/frontend/src`), the TLC
configurations that check them, and theorems checked by TLAPS. Paths below are
relative to `src/backend/app/` unless they start with `src/` or name a file of the
frontend (`.tsx`, `.ts`), which are relative to `src/frontend/src/`.

## 1. Inventory

Mission Control is a FastAPI backend over PostgreSQL (SQLAlchemy, READ
COMMITTED), a Redis queue with a worker process, OpenClaw gateways reached over
WebSocket, and a Next.js frontend that calls the API. Every API request has a
database session of its own; the worker opens one per message. A page of the
frontend is one thread, but its requests, streams, timers, permission prompts and
effects end in any order, and what they find then is often not what they began
with: refs follow the state one effect later, closures keep the state of a render,
and handlers of what was cancelled still run.

| Component | State | Operations | Interacts with | Hard behaviour | What makes it correct |
|---|---|---|---|---|---|
| Agent lifecycle: `services/openclaw/lifecycle_*`, `provisioning_db.py`, `db_agent_state.py`, `admin_service.py`, `core/agent_auth.py` | an `agents` row (status, generation, wake attempts, deadlines, token hash), AUTH_TOKEN in the agent's gateway file | create, update, provision main, template sync, token rotation, delete, heartbeat, reconcile | gateway RPC inside a row lock; reconcile messages through the queue | rows loaded before the lock, runs cut off by timeouts, crashes, messages of old generations | runs take turns; the escalation is bounded and ends; both sides agree on the token; a deleted agent stays deleted |
| Task queue: `services/queue.py`, `queue_worker.py`, `services/webhooks` | a Redis list, a sorted set, envelopes in workers' hands | enqueue, enqueue with delay, drain, BRPOP, handle, requeue, defer, give up | producers (webhook ingest, lifecycle), handlers | multi-command moves without a transaction, two workers, crashes, Redis errors, blocking pop against timers | accepted means handled, given up after its retries, or lost to one failure; nothing early; nothing twice without a failure |
| Board webhooks ingest: `api/board_webhooks.py` | `board_webhook_payloads` | store, enqueue, fall back to a direct notification | queue, gateway | failure between commit and enqueue | a stored payload reaches the lead |
| Task board: `api/tasks.py`, `api/agent.py`, `services/task_dependencies.py` | `tasks`, `task_dependencies`, activity events | create, update by worker / lead / user, delete, reset of dependents | approvals, activity log, agent notifications | decisions on rows loaded before other requests committed; two transactions per update | running tasks are unblocked; done is earned; rework returns to its author; dependencies form a DAG |
| Approvals: `api/approvals.py`, `services/approval_task_links.py` | `approvals`, `approval_task_links` | create, resolve, set to pending again | row locks of tasks | check-then-insert | one pending approval per task; no status change under a pending one |
| Organizations: `services/organizations.py`, `api/organizations.py` | organizations, members, invites, access rows | bootstrap a member, invite, accept, change role, remove | users' row lock | concurrent bootstrap, last owner | a user has one membership; an organization keeps an owner |
| Authentication: `core/auth.py`, `core/agent_tokens.py`, `api/deps.py` | users, token hashes | resolve an actor | all APIs | user creation on first login | -- |
| Rate limiting: `core/rate_limit.py` | a window of timestamps per key, in memory or in Redis | allow, sweep | API dependencies | two implementations, Redis failure | at most `max` per window |
| Gateway RPC and provisioning files: `services/openclaw/gateway_rpc.py`, `provisioning.py`, `session_service.py` | the gateway's agents, files and sessions (external) | calls | agent lifecycle | retries, partial writes | -- |
| Board page: event streams, chat: `app/boards/[boardId]/page.tsx`, `hooks/usePageActive.ts`, `api/board_memory.py` | one connection per stream with its reconnect timer; the messages shown, the badge, sets of ids sent and announced; the server's cursor | connect, read, reconnect, pause while hidden; post, receive, announce, open and close the chat | every run of an effect leaves its asynchronous tail behind; the server polls and sends again | aborts, late answers, cut batches, refs that lag | one connection, none while hidden; connected again; each message shown, counted and announced once |
| Board onboarding: `components/BoardOnboardingChat.tsx`, `api/board_onboarding.py` | the session row; the dialog's copy and the reply it waits for | start, answer, agent's question or draft, confirm, poll | the agent's updates, the dialog's polls | read-wait-write without a lock, overlapping polls | a confirmed goal stays confirmed; the dialog does not wait for what is there |
| List pages: `lib/list-delete.ts`, the agents, boards, groups and gateways pages | the cached list, deletions under way | optimistic removal, rollback, refetch | react-query | deletions outlive the page, refetches read earlier states | at rest the list is the server's |
| Voice room: `app/jarvis-live/page.tsx` | a WebRTC peer, two microphones, recognisers, utterances, restart timers | realtime start and stop; listen, speak, interrupt, restart; routes; leave | browser permission prompts, speech events, the backend's realtime session | prompts and sessions answered after Stop, late end events | microphones are released; one recogniser; the room does not go deaf |
| Coordination, lead policy | board memory | message relays | gateway | -- | pure policy functions |
| Boards, groups, memory, snapshots | single rows | CRUD, cascaded delete | all | delete order | -- |
| Activity log and event streams: `api/activity.py`, `services/activity_log.py` | activity events; a cursor and a seen-set per stream | append, poll | every API | equal timestamps, late commits | a stream shows each event once |
| Tags, custom fields, metrics, skills marketplace, souls directory, gateways API, users | single rows, files | CRUD, aggregation, import | -- | -- | -- |
| Codex bridge: `services/codex55_bridge.py` | a file of processed ids | poll, process, trim | gateway | restart, trimming | a message is processed once |
| Jarvis, Polymarket | in-memory and file state | feeds, scores | external APIs | -- | -- |
| Other frontend pages, generated API client, installer, scripts, migrations | -- | -- | -- | -- | -- |

`PROJECT.json` lists each component with its status, and each hazard with the
line where it bites.

## 2. Modules

| Module | Models |
|---|---|
| `AgentLifecycle` | one agent: requests, workers, heartbeats, its row, its token file, its reconcile messages |
| `AgentLifecycleProofs` | theorems about it |
| `TaskQueue` | Redis list and sorted set, producers, worker loop |
| `TaskContract` | abstract specification of the queue, implemented by `TaskQueue` |
| `TaskQueueProofs` | theorems about the queue, among them that it implements the contract |
| `TaskBoard` | one board: tasks, dependencies, approvals, concurrent requests |
| `TaskBoardProofs` | theorems about it |
| `LinkContract` | abstract specification of a page's stream: up or down, hidden or visible |
| `LiveLink` | the effect that keeps a stream; implements `LinkContract` |
| `BoardChat` | the chat and its server, on top of `LinkContract` |
| `Onboarding` | the onboarding session, the agent and the dialog |
| `ListDelete` | a list with optimistic deletions |
| `VoiceLine` | the voice room's peers and microphones |
| `VoiceTalk` | the voice room's listening and speaking |
| `Console` | the pages above as views of one application |
| `LiveLinkProofs`, `BoardChatProofs`, `OnboardingProofs`, `VoiceLineProofs`, `ConsoleProofs` | theorems about them |
| `MCAgentLifecycle`, `MCTaskQueue`, `MCTaskBoard` | symmetry for TLC; the bounds are in the `.cfg` files |

### AgentLifecycle

What is modelled exactly is who reads the row when. `mem[p]` is the row as p's
session first loaded it, `draft[p]` what it has flushed, `row` what is committed.
`_lock_agent`'s `SELECT ... FOR UPDATE` waits for the row lock (`LockAndFlush`) but
does not refresh an object the session already has (`lifecycle_orchestrator.py:47`),
and an UPDATE sets only the columns that differ from the loaded values (`Merge`).
`run_lifecycle` is `LockAndFlush`, the gateway calls (`Apply`, or `Reject` on an
error, or `Crash`/`TimeOut` when cut off), `CommitApplied`/`CommitRejected`, `Refresh`
and `Enqueue`; each is a step others may come between. Callers do the six
operations that lead to a run or to a deletion. The worker's
`process_lifecycle_queue_task` is `Pop`, then `Skip`, `Defer`, `GiveUp` or a run
(`Decide`), and `Requeue` when it raised. A heartbeat (`commit_heartbeat`, or only the
presence touch of the token check) is two steps: load and commit. A presence touch has
the time of its load; a heartbeat's `last_seen_at` is any time from there to the commit,
since its UPDATE may wait for the row lock after it took the time. `TimeOut` may cut a
worker's run off wherever it waits: for the lock, the gateway, or a commit. A deletion
that fails at the gateway may have removed the files or not.

Abstractions: a token is its number, its hash is the token; each timestamp read
takes a fresh value of an integer clock; `Grace` and `RetryDelay` are in ticks;
the worker's queue is a set of messages with due times (its commands are
`TaskQueue`'s subject); moving an agent to another board or gateway, heartbeats sent by
users or that create an agent, a gateway without a URL
(`lifecycle_orchestrator.py:103`), a missing owner (422) and files other than AUTH_TOKEN
are left out. A provisioning of a main agent always wakes it, while the
same call at the start of a gateway-wide template sync does not (`admin_service.py:282`).
`SyncTemplates` loads the row and reads the gateway's token file in one step.

### TaskQueue and TaskContract

One Redis command per step. Producers store their row and then queue
(`Store`, `EnqueueOk`, `EnqueueFails`, `IngestCrash`). `dequeue_task` is `DrainRead`
(ZRANGEBYSCORE), `DrainPush` (LPUSH), `DrainRemove` (ZREM), `DrainNext` (the wait time)
and `Pop`/`PopTimeout` (BRPOP). A drain error unwinds the worker's loop like a crash.
Redis is atomic per command and either applies a command and answers or does
neither; a reply of BRPOP lost after Redis popped the task is `Pop` followed by `Crash`,
which loses the task in the worker's hand. `TaskContract` says what producers may rely
on; `Fate` is the refinement mapping, and `KeepsContract` the implementation property. A task may be recovered
after it was lost: a drain read its envelope before, and pushes it; and a drain that
removes what it read takes away what another one has put back. Both need a failure that
took the task from a worker, so the contract names those tasks (`hurt`, a history
variable of both modules) and lets only them wander between pending and lost. The
contract once let each failure lose one task and nothing else; with three workers that is
false, as the proof of `ContractStep` found, and TLC then showed.

### TaskBoard

A request is a session `ses[s]` that goes through the steps of its handler. PATCH:
`Load`; `Guard` (the actor's rules, on the loaded row and on dependencies read
now); `Check` (autoflush, which takes the row lock when the row changed, then the
board's rules); `Commit`; and for workers and users `Reread` and
`CommitDependents`, the second transaction with the log entry and the dependents'
reset. The lead has one transaction. `Refuse` stands for every refusal and database
error; from `loaded` it is always possible, since any request may be one the rules
refuse. Approvals: `Ask` and `Reopen` lock the tasks and check for conflicts,
`CommitPending` commits; `Decide` resolves without a lock.

Abstractions: the board's four rules are fixed in a behaviour (any set of
`RuleSets`); the board has a lead (without one nobody would be told or assigned at
`tasks.py:2565`); the timestamps of a task and the rule that a
review needs a comment are left out (a refusal is always possible anyway), and with them
the reset of a dependent that has nothing but its `in_progress_at` to reset (`tasks.py:499`); the
log is reduced to the one entry something reads, the last worker who moved a task
to review; locks of several rows are taken in one step (the code takes them in
id order, and deadlocks of updates of dependents are not modelled); a deletion is
one step; `DELETE` of edges by two requests does not wait but has the same result:
the edges the first one removed are gone for the second. Removing an agent, which
unassigns its tasks, is not modelled.

### LinkContract, LiveLink and BoardChat

The board page's four streams share one pattern, which `LiveLink` models at its
purest, in the chat's effect. A run of the effect (`run[e]`) has its own cancelled
flag, abort controller and timer; its `connect()` may still be `fetching` or `reading`
when its cleanup ran, and goes on in `Resume`. What a chat may rely on is
`LinkContract`: a stream is up or down, never up while hidden, and two connections
never overlap. `LiveLink` implements it (`KeepsLink`) and `BoardChat` is written against
it: it extends `LinkContract` and composes its steps with its own. The tab may be
hidden from the start.

In `BoardChat` a message is the number its timestamp has in the order of stamping;
`Write`/`Receive` stamp it and `Commit` stores it later, so a reader can see message 2
before 1. `Emit` is the poll of `stream_board_memory`, which sends rows stamped at the
cursor or later, the newest again each time. `ByTime` stands for the
page's sort by time. `Read` handles one event of the stream as
the page does: insert by id and time, announce unless the ids in the ref, the own or
the announced ones have it, count. `SyncRef` is the effect that copies the state into
the ref. One post is under way at a time; the page has two forms with a guard each
(`isChatSending`, `isAgentsControlSending`), so there one of each may be.

### Onboarding

The session row, reduced to its status, the agent's last message and whether there is a
draft; the handlers that write it, each with its load and its commit apart; and the
dialog, with the fingerprint of the reply it waits for. The dialog's POSTs are numbered
(`handler[h]`): it waits for the last one, and when it sees that one fail (`Fail`) the handler
may still commit, while the dialog sends the next. The agent's updates under way are a
set (`updates`), since nothing in `agent_onboarding_update` keeps two apart, a retry and its
first try included. Polls overlap too and answer in any order. An answer adds a message of
the user's, which nothing reads: what it does to the row is put the agent's last
message back to the one it loaded.

### ListDelete

`createOptimisticListDeleteMutation` with react-query's part as the pages use it:
`Confirm` cancels the refetch under way, keeps the list it found and removes the item;
`Settle` rolls back on an error and invalidates; a page that is left aborts its refetch
and not its deletion, and the page opened next refetches (`Enter`). The dialog of an item
stays open when a refetch removes the item, so `Confirm` does not ask whether it is in the list;
an item has one deletion under way at most.

### VoiceLine and VoiceTalk

Both model the voice room page, for the parts of its state that do not meet:
`VoiceLine` the realtime call (`startRealtimeVoice` as a start that waits for its
session, the permission prompt and the SDP exchange) and the level monitor (whose
audio graph may fail to come up after the microphone was opened, `MonitorFails`);
`VoiceTalk` the browser route's recognisers and utterances. In `VoiceTalk`, `stop()` and
`cancel()` take effect at once and report later (`StoppedEnds`, `Finishes`), whichever
recogniser or utterance was begun since; `timers` counts the pending restarts of the two
kinds, of which only those of `onend` look at `speechPauseRef`. `start()` is taken not
to throw. A barge-in is possible whenever the page checks its level for one.

### Console

The router shows one page at a time, and a page that is left loses its state. So
`Console` picks the view at the start and lets only that page act; each page's module
is an INSTANCE. One run then checks the pages together, and `ConsoleProofs` carries
their theorems over.

## 3. Runs

All pass within a minute or so on two workers, `Console` within three, except
`*GatewayDown`, `BoardDoubleClaim` and `BoardCycle`, which are expected to be violated
(section 5). Deadlock is not checked: requests, heartbeats and failures are bounded,
so every model ends.

| Run | Bounds | Shows |
|---|---|---|
| `LifecycleEscalation` | 1 create, 1 worker, 3 wakes, 2 heartbeats, no failures | the escalation is bounded, both sides agree on the token whenever nothing is under way, and (with fairness) it ends |
| `LifecycleFaults` | 1 create, 2 wakes, 2 failures of any kind | each failure repeats at most one wake |
| `LifecycleSync` | 3 requests among create, main, sync, rotate, delete; gateway errors and crashes, 2 of them | runs exclude each other; a rotation that ends well leaves one token on both sides; deletion is final once the row is gone |
| `LifecycleRaces` | 3 requests among create, update, delete, a worker, a heartbeat | an awaited check-in always has a message or a process that sees to it |
| `QueueOneWorker` | 2 webhook tasks, 1 lifecycle task deferred at most once, 1 worker, 1 retry | no duplicates, nothing early, timely wake-up, order, every task settles |
| `QueueFaults` | 2 workers, 2 tasks, one failure | the queue implements `TaskContract` |
| `BoardRules` | 1 request at a time, 5 requests, 2 tasks, 2 workers, lead, user, three sets of rules | the board's rules hold along every path |
| `BoardRaces` | 2 concurrent requests, 4 in all, 2 tasks, 2 approvals, one crash | approvals and status changes are serialised by the row lock |
| `Console` | stream: 4 runs of the effect, 3 failures; chat: 3 messages, 1 lost connection; onboarding: 2 messages of the agent, 2 posts after `/start`, 2 polls at once; list: 2 items; voice: 2 starts, 2 monitors; talk: 3 recognisers, utterances and timers under way, 2 replies | the sixteen properties of `Console`: each is stated and explained in its page's module, and the four liveness properties (`Reconnects`, `Delivered`, `WaitEnds`, `ListensAgain`) say in `Console` that the page's state predicate (`Connected`, `CaughtUp`, `WaitOver`, `Attentive`) comes about again and again while that page is shown |

Why the bounds suffice. Two concurrent actors show every check-then-act window of
a pair, and a third request (`LifecycleRaces`, `LifecycleSync`) the windows that need
a setup: create, then two that race. One failure is enough for each single-failure
scenario and two for a failure during recovery. `MaxWake` 3 is the code's value; 1
and 2 reach the give-up branch sooner. Five requests are the shortest sequence that
takes two tasks through create, create, finish, start and reopen, and rework
through create, review, approve or send back. `BoardRules` has a
single session because its properties are about sequences of complete requests:
concurrent ones break them (section 5). In `Console`, a run of the effect that was
cleaned up, the one that follows and its cleanup need three, the fourth reconnects;
three chat messages are one behind, at and after the cursor; the dialog's wait needs a
question, an answer, the reply and a stale poll beside a fresh one; a rollback is
overtaken by a second deletion; a lost start needs a second one to hide it; and a
recogniser that is listening, one that is ending and a pending timer are three. The
talk's bound counts what is under way and refuses only what people do and new replies,
so it never stops what must go on.

Fairness. `FairSpec` of `AgentLifecycle` assumes that a request once started, the
worker loop and the clock do not stop: uvicorn and the worker run them to the end
when nothing fails, and `asyncio.wait_for` bounds the gateway calls. Nothing is
assumed of requests' arrival, the agent's heartbeats, or failures. `FairSpec` of
`TaskQueue` assumes that the worker loop goes on and that a handler returns or
raises, for the same reasons; not which of them it does. `FairSpec` of `Console` has one
weak fairness condition on the progress of the page shown: responses arrive, timers
fire, React runs effects, the stream's generator and the dialog's interval go on,
recognisers and utterances that were told to end report it, an utterance begins and
ends. Nobody has to write, click, speak or come back to the tab, and nothing has to
fail.

Some properties hold under a condition that is part of them: `Delivered` as long as the
chat's cursor holds, `MicReachable` as long as no start was lost sight of,
`ConfirmedStays` as long as no two updates with a draft overlapped that both found none,
`MonitorReleased` except for a monitor whose audio graph failed. Section 5
says what goes wrong otherwise; the conditions are as weak as TLC allows, and the
mutants show that what is left can still be broken.

Symmetry is used only in runs without liveness properties.

## 4. Proofs

`AgentLifecycleProofs` proves for every number of callers, workers and heartbeats,
unbounded clocks, and every set of failures except where a hypothesis is named:

1. `TypeCorrect`: `Spec => []TypeOK`. One lemma per function on rows (`MergeType`,
   `RequestedType`, ...), then one per group of actions.
2. `RunsTakeTurns`: `Spec => []ExclusiveRun`. `ExclusiveRun` relates the lock to the
   position of every process and the lock to the life of the row; it is inductive on
   top of `TypeOK` because every action that leaves the locked section frees the lock
   in the same step, and `DeleteRow` needs the lock free.
3. `DeletedAgentsStayDeleted`: `Spec => DeletedStaysClean`. The gateway's files are
   written by a run, which holds the lock on an existing row, and by a creation's or
   a deletion's own steps while the row exists; `ExclusiveRun` gives the first. It says
   nothing of the time before `DeleteRow` (section 5).
4. `WakesAreBounded`: `EscalationBounded`, from `EscalationInv`. It follows the count of
   wakes through a run: one run at a time wakes the agent, and while it lives no message
   asks for another (`OneChain`); what was sent is what the row counts, one more if a run
   has sent and not committed, and one for each failure (`Counted`); and the run under way
   has read a count that allows its wake, which no other process changes (`Allowed`).
5. `WakesAreCovered`: `Covered`. An awaited check-in has a message of the row's generation or
   a process that is about to queue one or to take back the wait (`Tracked`); a reconcile
   that skips because the agent checked in needs that check-ins are committed in the order
   they are read in (`SeenInOrder`).
6. `RotationEndsWell`: `RotationRepairs`. While the token of a rotation is the newest, the row
   and every run at the gateway have it (`RotationInv`).
7. `TokensAgree`: `TokenAgreement`, from `TokenInv`: no one runs for the agent before the run
   of its creation has ended (`CreationFirst`), and each run commits the token it leaves at
   the gateway (`RunTokens`).

The first three and the sixth assume only `ConstantsAssumption` (ranges of the constants,
and that callers, workers, heartbeats and the value `Free` are distinct). The others have
hypotheses that are necessary: TLC finds a counterexample when any one operation or
failure is let in that they leave out, and section 5 says what it means for the code.

- `OneWakeAtATime` (for 4): no update and no provisioning of a main agent, which wake the
  agent whatever the count is; and with several workers no message delivered twice. Crashes,
  timeouts, gateway and Redis errors are allowed, syncs, rotations and deletions too.
- `WatchedWakes` (for 5): no run cut off or refused at the gateway, no message lost to a Redis
  error, no template sync, no rotation, and heartbeats one at a time. Requests, workers and
  duplicates in any number.
- `OnlyCreated` (for 7): creations and reconciles only; Redis errors and duplicates may occur.

The runs that check these properties satisfy the hypotheses: `LifecycleEscalation` and
`LifecycleFaults` those of 4, `LifecycleRaces` that of 5, `LifecycleEscalation` that of 7.

`TaskQueueProofs` proves for every number of tasks and workers, every batch size, delay,
back-off and number of retries:

1. `QueueTypeCorrect`, for any failures.
2. `QueueKeepsContract`: `Spec => KeepsContract`, for any failures. The inductive invariant
   `QueueInv` is about every place an envelope can be in: the list, the sorted set, a hand, a
   drain. An accepted task is settled (`Settled`: handled, dropped or hurt) or has a copy
   that counts, in the list, in the sorted set or with a worker (`Kept`). What a drain has
   read does not count, but is traced (`Traced`): its task is settled, or a copy that
   counts has been retried and deferred at least as often.
   From there the proof takes one lemma per step of the contract. The step that needs
   thought is a drain's push and removal, which are two commands: between them another
   worker may have popped, handled, requeued or lost what is about to be removed.
3. `QueueInOrder`, for any failures, from `OrderInv`: what is scheduled or drained of the
   webhooks has failed before, and the untried payloads in the list are in the order of
   their ingest.
4. `QueueWakesInTime`, one worker, any failures, from `WakeInv`: what was due at the time the
   drain read is in the list before the worker waits, so it never waits for ever while
   something is scheduled.
5. `QueueNoDuplicate` and `QueueNeverEarly`, one worker and no failures, from `OneInv`: a task has
   one copy, except while a drain has pushed and not removed it, no copy once it is settled,
   and it is in the list or in a hand only after the time it was put off to.

The back-off and the wait time need the least element of a set of naturals
(`LeastNat`). (4) is false with two workers, and (5) with two workers or one failure: delivery is
then at least once. `QueueOneWorker` is the run of (3), (4) and
(5), `QueueFaults` that of (1) and (2).

`TaskBoardProofs` proves for every number of concurrent requests, tasks, approvals
and workers, every set of rules, and unbounded requests and crashes:

1. `BoardTypeCorrect`: `Spec => []TypeOK`. `TypeOK` is not inductive: what a step does
   to a request's task needs that a PATCH keeps a task it loaded. `TypeInv` adds
   that (`AtTask`).
2. `OnePendingApproval`: `Spec => []OnePending`. The window is between the conflict
   check of a request (`Ask`, `Reopen`) and its `CommitPending`. The inductive
   invariant `PendingInv` says what the locks guarantee in it (`AskHold`): the
   request holds the locks of all the tasks it links, and no other pending approval
   has one of them. Another request cannot break it: whoever commits a pending
   approval meanwhile holds the locks of *its* tasks, which are therefore others.
3. `PendingApprovalBlocks`: `Spec => PendingBlocks`, from the other half of
   `PendingInv` (`CheckHold`): a PATCH past its check with a changed status holds its
   task's lock -- the flush before the lookup took it -- and no approval of the task
   is pending. This is why the mutant that looks before it flushes (`Flushed_Late`)
   is caught.
4. `DoneIsEarned`: `Spec /\ []Apart => DoneEarned`. `EarnedInv`: what a request loaded is
   still the row's, and what its check found out (the review, an approval, the
   dependencies) still holds when it commits.
5. `ReworkIsReturned`: `Spec /\ []Apart => ReworkReturns`, under `NothingCutOff`. `HandInv`
   relates the log, the history variable that remembers who handed a task in, and the
   author a lead's request found; the second transaction is what makes the log lag.
6. `BlockedTasksAreHeld`: `Spec /\ []FarApart => []BlockedTasksWait`, under `NothingCutOff`.
   `WaitInv`: a running task's dependencies are done, or the lead waived them, or the
   request that reopened one is between its transactions and will send it back (`Behind`).

`Apart` says that no two open requests touch the same task (the one they are about, their
approvals' and the dependents they reset), `FarApart` that they do not consult the same ones
either (dependencies), and `NothingCutOff` that no request crashes or deletes. These are
the conditions under which the code's decisions on rows it loaded before are sound: it
takes no lock for them, and TLC breaks each of the three properties without its condition
(section 5). Requests about different tasks may be open in any number and interleave
freely. One session satisfies them (`OneSessionIsFarApart`), which is what `BoardRules` checks;
`Spec` itself allows every overlap.

Most actions fall under one lemma, `QuietStep`: a step that takes no lock away,
changes no other request and makes nothing pending keeps `PendingInv`. The proofs
assume only `BoardAssumption`; of it they use that the lead, the user and the workers
are distinct and that the value `Free` is no request.

The console's modules are proved in two layers. Each page's Proofs module works on the
page alone:

1. `LiveLinkProofs`: `AtMostOneConnection` and `LinkImplementsContract`, from
   `LinkInv`: at most one run is live, a live run needs a visible tab, and a socket
   belongs to a live run that is reading. Cleaned-up runs keep going, so it is the
   cancelled flag, not the run's end, that carries the argument.
2. `BoardChatProofs`: `AnnouncedOnce`, from `ChatInv`: what the stream brings was stored,
   what is stored was stamped, stamps are `1 .. k` (so whose a message is never
   changes), and whatever was announced is in the set of announced ids. Neither the ref
   nor the order of the stream is used: this is why a lagging ref cannot announce twice.
   `BadgeIsRight` and `ChatIsInOrder` are from `PageInv`, which adds what ties the page's sets to
   each other: what is shown is shown once, stored and known, one's own messages are in
   the set of own ids before they are shown or on their way from the server, and an open
   chat has read everything. Its lemma about the data is `ByTimeOrders`: the sort of an
   ordered sequence and one more message exists, has the same messages and is in order.
3. `OnboardingProofs`: `ConfirmedForGood`, from `DraftInv`: the row has a draft exactly
   when it is completed or confirmed (`DraftMeansDone`); whoever else holds a draft (the
   dialog, a poll, a handler) has it from the row (`DraftsAreRows`); an update that found a
   draft found one that is still there (`UpdatesFound`); and as long as two first drafts
   never overlapped, at most one update with a draft that found none is under way, and
   while it is the row has none (`FirstAlone`). So an update that overlaps a
   confirmation has seen `completed`, and keeps the status. The answers, confirmations
   and failed requests that go on are any number.
4. `VoiceLineProofs`: `MonitorIsReleased`, from `MonitorInv` (at most one run of the
   monitor's effect is not cancelled, and only in the room; whatever the failed ones leave
   open), and `MicIsReachable`, from
   `CallInv`: as long as no start is lost sight of, an open peer is the one in the ref,
   one that waits for its session is alone, and microphones belong to open peers.

`ChatTypeCorrect`, `DialogTypeCorrect` and `VoiceTypeCorrect` are their type invariants.

`ConsoleProofs` shows that every step of the console is a step or a stutter of each
page (`LinkRuns`, `ChatRuns`, ...) and concludes `ConsoleOneConnection`, `ConsoleKeepsLink`,
`ConsoleNotifiedOnce`, `ConsoleUnreadRight`, `ConsoleInOrder`, `ConsoleConfirmedStays`,
`ConsoleMonitorReleased` and `ConsoleMicReachable`. Two pages are proved there directly:

- The list: `ConsoleListRight`, from `ListInv`: only an open page fetches; with no deletion
  pending, what a refetch has read is still the server's, and a list that is not stale is.
  The last deletion to settle makes the entry stale, whatever it rolled back to.
- The talk: `TalkInv` is `OneRecogniser` and `RoomSilent` with the types of the two variables
  they are about, and is inductive because every start stops the recogniser of the ref
  first (`StartListeningKeeps`) and leaving the room stops the only one there is
  (`StopKeeps`); `ConsoleOneRecogniser` and `ConsoleRoomSilent` follow.

`ConsoleTypeCorrect` is the type invariant of the whole. It is more than types for the
talk: that a restart finds a free recogniser is an invariant of its own (`FitsIn`: the
recognisers in use and everything under way that may start one are never more than there
are), so the bound of the model holds back people and never the page.
`ConsoleAssumption` repeats what the pages' modules assume; that `Rec` is finite and not
empty, and `MaxReplies` not zero, are bounds of the model and used by `ConsoleTypeCorrect` only.

Model-checked only: the six liveness properties (`Converges`, `EveryTaskSettles`, `Reconnects`,
`Delivered`, `WaitEnds`, `ListensAgain`), which need fairness and ENABLED and are out of
the prover's reach. Every invariant and action property of a passing run is a theorem,
some under the hypotheses named above. The bounds of the models (`MaxRequests`, `MaxMsgs` and
the like) are arbitrary numbers in the theorems.

## 5. Divergences

Checked, with a run that shows them:

- `LifecycleGatewayDown` / `Converges`: a gateway error in an escalation run
  commits the next generation with a deadline and queues nothing for it
  (`lifecycle_orchestrator.py:122`); the message the worker then requeues is of the
  old generation and is dropped (`lifecycle_reconcile.py:44`). The agent stays
  `updating`, although the troubleshooting guide says escalation ends with `offline`.
- `BoardDoubleClaim` / `OwnTasksOnly`: two workers can claim one unassigned task; the
  later commit wins and both were told they succeeded.
- `BoardCycle` / `Acyclic`: two dependency updates validated concurrently can commit
  a cycle.

Met while modelling, and without a run of its own:

- `update_agent` does not reset `wake_attempts`, so after an exhausted escalation an
  operator's update wakes the agent once and then gives up, although
  `docs/troubleshooting/gateway-agent-provisioning.md:92` says that re-running an update
  starts a new attempt cycle. (The same missing reset is why `WakesAreBounded` needs
  `OneWakeAtATime`: an update wakes the agent beyond the bound.)

The others contradict no statement of the repository:

- A heartbeat whose object was loaded with `wake_attempts = 0` writes no reset when a
  run incremented the column meanwhile; a give-up based on an older read can overwrite a
  heartbeat's `online`.
- Two runs whose sessions loaded the row before either committed both write the
  same generation, which then does not tell them apart.
- A rotation and a worker's run that mints a token may interleave so that the file
  has the one and the row the other; hence the exception in `RotationRepairs`.
- With gateway errors `Covered` fails for the reason of `LifecycleGatewayDown`.
- A reconcile message delivered to two workers (a drain read twice) lets both decide from
  the same count: each wakes the agent, and only one wake is counted. So the agent may be
  woken more than `MAX_WAKE_ATTEMPTS_WITHOUT_CHECKIN` times.
- A heartbeat takes its `last_seen_at` before its UPDATE waits for the row lock, and a presence
  touch before its commit. Of two that overlap, the later
  commit may take it back behind the last wake, after the reconcile of that wake was
  skipped because the agent had checked in; nothing then watches the agent.
- A template sync whose session loaded the row before a creation's run committed writes
  the next generation and queues nothing, and the creation's reconcile is then of an old
  generation (`lifecycle_reconcile.py:44`): a wake without a check-in goes unnoticed.
- A provisioning of a main agent, or another request that runs, beside a creation that is
  still at the gateway leaves the token of one of them in the file and the hash of the
  other in the row.
- A deletion cleans the gateway up before it removes the row. A run between the two
  (`DeleteOnGateway`, `DeleteRow`) writes the agent's files again, and nothing removes them then.
- `dequeue_task` waits in BRPOP until the next scheduled task. When that one is due at this
  very second the timeout is 0, which Redis takes for no timeout. A lone worker then has
  what its drain pushed in the list; with two, the other one may have popped it, and the
  first waits until somebody queues a task at once.
- An UPDATE of a dependent that was deleted meanwhile raises, and the second transaction
  of the request is rolled back as a whole: the other dependents are not reset either,
  and the log entry that the lead's rework looks for is missing.
- `CommitDependents` is a second transaction: a crash before it, or a worker that
  starts a dependent between the two, leaves a task running on a reopened dependency.
- A user may create a task that is already `done`, whatever the board's rules.
- `enqueue_webhook_delivery` ignores the `False` of `enqueue_task`
  (`services/webhooks/queue.py:76`), so the ingest's fallback never runs.
- `update_org_member` and the removal of a member count the owners without a lock
  (`api/organizations.py:486`, `548`): two owners who demote or remove each other leave
  none, although line 558 says an organization must have at least one. Organizations
  are not modelled, so this has no run.
- `answer_onboarding` waits for the gateway between reading the messages and writing
  them (`api/board_onboarding.py:351`): an agent's message stored meanwhile is
  overwritten, and the dialog waits until the user answers again. This is why `WaitEnds`
  is about a reply the server still has.
- Two overlapping updates of the onboarding's agent with a draft (a retry and its first
  try, say) may both load `active` (`api/board_onboarding.py:379`, no lock and no version).
  One commits `completed`, the user confirms, and the other one commits `completed` over
  `confirmed`. `ConfirmedStays` excepts this (the ghost `overlap`).
- A stale poll may put the question the user answered back on the screen, with the
  waiting over: `WaitOver` holds then too, and no poll is sent until the user answers again.
- The chat asks from the newest message it shows. A message stamped before that one and
  committed after it, one of others older than one's own just posted before the
  stream was up, and all when the chat is empty at a reconnect are not sent
  again (`CursorHolds` says exactly this); a reload brings them.
- A realtime start that waits for its session is not told that it was stopped
  (`app/jarvis-live/page.tsx:897`): after Stop or on another page it still makes its
  peer and opens the microphone, which nothing then releases (the ghost `astray`). In
  the state `error` the microphone may be open with no Stop button shown.
- The level monitor's `catch` (`app/jarvis-live/page.tsx:1151`) also takes what
  `new AudioContext()`, `createMediaStreamSource` and `connect` throw (1085-1090), after the
  permission was given and before a ref has the stream. It stops no track: the microphone
  stays open, and nothing can release it. `MonitorReleased` excepts such a run (`failed`).
- Leaving the voice page with its room on does not end the listening: the unmount stops
  the recogniser, its `onend` finds the room's ref still set, and a timer starts another
  one, whose results are sent (`app/jarvis-live/page.tsx:1230`, `1422`). `VoiceTalk` has
  these steps; `RoomSilent` is about a room that was switched off.
- A recogniser's `onend` does not look whether another one was started: the one that was
  replaced schedules a restart, which replaces the next one, and so on every 220 ms.
  The same event clears `isListening` while the new recogniser listens, so a reply that is
  spoken then is heard by it.
- `handleTaskMove` puts back the whole list it found when its PATCH fails
  (`app/boards/[boardId]/page.tsx:2922`), and a PATCH response older than an event of
  the stream overwrites it (2916); `handleCreateTask` adds the created task without
  looking whether the stream brought it (2076); the comments of one task may arrive
  under another (2434). The next snapshot repairs them; the cards are not modelled.

## 6. Not modelled, and the plan

Not modelled, and why:

- `api/generated` of the frontend, about half of its code: generated functions that
  build a request each and keep no state.
- Pages that show one response or edit one form (boards, groups, gateways, skills, tags,
  custom fields, settings): the server decides, and react-query's cache is `ListDelete`'s
  subject. The board's cards, comments and approvals on the board page are fed by streams
  like the chat's, without its bookkeeping; what goes wrong there is listed in section 5.
- The dashboard, Polymarket and Jarvis pages other than the voice room: polling of
  external feeds and numeric scores.
- Authentication, the gateway's protocol, migrations, scripts: I/O with external parties;
  their outcomes are inputs of the models.
- CRUD with a single row and no rule across rows.

The models cover a small share of the repository's lines for these reasons; they
aim at the parts where orders of events matter.

What would come next, in this order:

1. `Organizations`: membership bootstrap under the user's row lock, invites accepted
   twice, role changes and removals; the last owner, with a violation run for section 5.
2. `BoardCards`: the task list against its stream, optimistic moves and creations.
3. `DependencyGraph`: the depth-first search of `_has_cycle` against `NoCycle` on all
   graphs of up to four tasks.
4. `RateLimit` and `CodexBridge`: both limiters against a reference sliding window;
   processed ids across restarts and trimming.

Composition: `AgentLifecycle` uses the queue as a set of due messages with retries,
duplicates and losses; that abstraction is what `TaskQueue` implements for lifecycle
tasks, and what the refinement to `TaskContract` shows is what it relies on: an accepted
message is handled, given up or lost to a failure. `BoardChat` uses a stream
through `LinkContract`, which `LiveLink` is proved to implement.
