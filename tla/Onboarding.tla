----------------------------- MODULE Onboarding -----------------------------
(* A board's onboarding: the session row on the server, the gateway's agent *)
(* that asks questions and drafts the goal, and the dialog that polls the   *)
(* row, answers and confirms.                                               *)
(*                                                                          *)
(* The server's handlers load the row and write it later, without a lock:   *)
(* an answer waits for the gateway in between, and a handler goes on when   *)
(* the dialog has seen its request fail. The agent's updates may overlap, a *)
(* retry and the first try of one included. So may polls, which answer out  *)
(* of order.                                                                *)
EXTENDS Naturals

CONSTANTS
    Poll,           \* polls under way at once
    MaxMsgs,        \* bound: messages ever sent by the agent
    MaxPosts        \* bound: answers and confirmations ever sent by the dialog

VARIABLES
    row,        \* the BoardOnboardingSession, or NoRow
    sent,       \* the agent's messages so far: each has a time of its own
    handler,    \* handler[h]: the dialog's POSTs, in order, and the rows they loaded
    posts,      \* the last of them; the first is /start
    loading,    \* the dialog waits for its response
    before,     \* fingerprintBefore: the reply that it answers
    updates,    \* the agent's POSTs under way and the rows they loaded
    poll,       \* poll[p]: how far it is, and what it read
    session,    \* the row as the dialog holds it, or NoRow
    awaiting,   \* awaitingAssistantFingerprint, or NoReply
    closed,     \* the dialog was confirmed and closed
    overlap     \* ghost: two updates with a draft were under way, and found none

dialog == <<session, awaiting, closed>>
client == <<posts, loading, before>>
onboardingVars == <<row, sent, handler, posts, loading, before, updates, poll, session,
                    awaiting, closed, overlap>>

\* lastAssistantFingerprint: time and content of the agent's last message. Nothing else
\* of the messages is read: an answer adds one of the user's and keeps the fingerprint.
NoReply == <<0, "none">>
Reply == Nat \X {"none", "question", "complete"}

\* draft: there is a draft_goal.
Row == [status : {"none", "active", "completed", "confirmed"}, reply : Reply, draft : BOOLEAN]

NoRow == [status |-> "none", reply |-> NoReply, draft |-> FALSE]
Asked == [NoRow EXCEPT !.status = "active"]

IdleHandler == [kind |-> "none", at |-> "idle", saved |-> NoRow]
Posted(kind) == [kind |-> kind, at |-> "sent", saved |-> NoRow]

IdlePoll == [at |-> "idle", row |-> NoRow]

Update == [says : {"question", "complete"}, at : Nat, found : {"active", "completed"}]

TypeOK ==
    /\ row \in Row /\ session \in Row /\ sent \in Nat
    /\ posts \in Nat /\ loading \in BOOLEAN /\ before \in Reply
    /\ handler \in [0..MaxPosts -> [kind : {"none", "start", "answer", "confirm"},
                                   at : {"idle", "sent", "loaded", "committed"},
                                   saved : Row]]
    /\ updates \in SUBSET Update
    /\ poll \in [Poll -> [at : {"idle", "sent", "read"}, row : Row]]
    /\ awaiting \in Reply /\ closed \in BOOLEAN /\ overlap \in BOOLEAN

\* The dialog has opened and its /start has looked for an active session: there is
\* none, or one whose agent has not answered yet and is asked again.
Init ==
    /\ row \in {NoRow, Asked} /\ sent = 0
    /\ posts = 0 /\ loading = TRUE /\ before = NoReply
    /\ handler = [h \in 0..MaxPosts |->
                     IF h = 0 THEN [kind |-> "start", at |-> "loaded", saved |-> row]
                     ELSE IdleHandler]
    /\ updates = {} /\ overlap = FALSE
    /\ poll = [p \in Poll |-> IdlePoll]
    /\ session = NoRow /\ awaiting = NoReply
    /\ closed = FALSE

(* ------------------------------ the server ------------------------------ *)

\* The dialog waits for this handler.
Awaited(h) == loading /\ h = posts

\* The handler has committed and answers with r, if the dialog still waits for it.
Committed(h, r) ==
    handler' = [handler EXCEPT ![h] =
        IF Awaited(h) THEN [@ EXCEPT !.at = "committed", !.saved = r] ELSE IdleHandler]

\* start_onboarding, after the gateway took the prompt.
CommitStart(h) ==
    /\ handler[h].kind = "start" /\ handler[h].at = "loaded"
    /\ row' = IF handler[h].saved = NoRow THEN Asked ELSE row
    /\ Committed(h, row')
    /\ UNCHANGED <<sent, client, updates, poll, dialog, overlap>>

\* answer_onboarding copies the messages and adds the answer; confirm_onboarding reads
\* the row. Both then wait for the gateway.
Load(h) ==
    /\ handler[h].at = "sent" /\ row # NoRow
    /\ handler' = [handler EXCEPT ![h].at = "loaded", ![h].saved = row]
    /\ UNCHANGED <<row, sent, client, updates, poll, dialog, overlap>>

\* The answer's copy replaces the messages.
CommitAnswer(h) ==
    /\ handler[h].kind = "answer" /\ handler[h].at = "loaded"
    /\ row' = [row EXCEPT !.reply = handler[h].saved.reply]
    /\ Committed(h, row')
    /\ UNCHANGED <<sent, client, updates, poll, dialog, overlap>>

\* Only a status that changed is written; the response holds no session.
CommitConfirm(h) ==
    /\ handler[h].kind = "confirm" /\ handler[h].at = "loaded"
    /\ row' = IF handler[h].saved.status = "confirmed" THEN row
              ELSE [row EXCEPT !.status = "confirmed"]
    /\ Committed(h, NoRow)
    /\ UNCHANGED <<sent, client, updates, poll, dialog, overlap>>

Handle(h) == CommitStart(h) \/ Load(h) \/ CommitAnswer(h) \/ CommitConfirm(h)

\* Updates with a draft, under way, that found none.
FirstDrafts == {u \in updates : u.says = "complete" /\ u.found = "active"}

\* agent_onboarding_update loads the row; it refuses a confirmed one.
AgentLoad(says) ==
    /\ row.status \notin {"none", "confirmed"}
    /\ sent < MaxMsgs /\ sent' = sent + 1
    /\ updates' = updates \union {[says |-> says, at |-> sent + 1, found |-> row.status]}
    /\ overlap' = (overlap \/ (/\ says = "complete" /\ row.status = "active"
                              /\ FirstDrafts # {}))
    /\ UNCHANGED <<row, handler, client, poll, dialog>>

\* Mutant: the status is written whatever it was.
Updated_Always(u) ==
    [row EXCEPT
        !.reply = <<u.at, u.says>>, !.draft = @ \/ u.says = "complete",
        !.status = IF u.says = "complete" THEN "completed" ELSE u.found]

\* The agent's update of the row: its message comes after those it loaded, and a
\* column that did not change is not written.
Updated(u) ==
    [row EXCEPT
        !.reply = <<u.at, u.says>>, !.draft = @ \/ u.says = "complete",
        !.status = IF u.says = "complete" /\ u.found # "completed"
                     THEN "completed" ELSE @]

AgentCommit(u) ==
    /\ u \in updates
    /\ row' = Updated(u)
    /\ updates' = updates \ {u}
    /\ UNCHANGED <<sent, handler, client, poll, dialog, overlap>>

(* ------------------------------ the dialog ------------------------------ *)

IsAwaiting == awaiting # NoReply /\ session.reply = awaiting
HasQuestion == session.reply[2] = "question"
HasDraft == session.draft

\* The effect after a render drops a fingerprint that is not the last one any more.
StillAwaited(r, f) == IF r.reply = f THEN f ELSE NoReply

Press == ~closed /\ ~loading /\ ~IsAwaiting

\* The request leaves, and the dialog waits for its response.
Sends(kind, reply) ==
    /\ posts < MaxPosts /\ posts' = posts + 1
    /\ handler' = [handler EXCEPT ![posts + 1] = Posted(kind)]
    /\ loading' = TRUE /\ before' = reply

\* handleAnswer, on a question, or submitExtraContext, on a draft.
Answer ==
    /\ Press /\ (HasQuestion \/ HasDraft)
    /\ Sends("answer", session.reply)
    /\ awaiting' = NoReply
    /\ UNCHANGED <<row, sent, updates, poll, session, closed, overlap>>

\* confirmGoal.
Confirm ==
    /\ Press /\ HasDraft
    /\ Sends("confirm", NoReply)
    /\ UNCHANGED <<row, sent, updates, poll, dialog, overlap>>

\* The response with status 200. A confirmed session closes the dialog, and nothing
\* reads the answers of its last polls (they are dropped here at once).
Succeed(h) ==
    /\ Awaited(h) /\ handler[h].at = "committed"
    /\ IF handler[h].kind = "confirm"
         THEN /\ closed' = TRUE /\ poll' = [p \in Poll |-> IdlePoll]
              /\ session' = NoRow /\ awaiting' = NoReply
         ELSE /\ session' = handler[h].saved
              /\ awaiting' = IF handler[h].kind = "answer"
                               THEN StillAwaited(handler[h].saved, before)
                               ELSE awaiting
              /\ UNCHANGED <<closed, poll>>
    /\ loading' = FALSE /\ before' = NoReply
    /\ handler' = [handler EXCEPT ![h] = IdleHandler]
    /\ UNCHANGED <<row, sent, posts, updates, overlap>>

\* A handler that has nothing to write any more that anyone reads.
Written(h) ==
    \/ handler[h].at = "committed"
    \/ handler[h].kind = "start" /\ handler[h].saved # NoRow

\* The gateway, the commit, the lead's provisioning or the response fails. The
\* handler may go on, with nobody waiting for it, or takes no step any more.
Fail(h) ==
    /\ Awaited(h)
    /\ loading' = FALSE /\ before' = NoReply
    /\ handler' = IF Written(h) THEN [handler EXCEPT ![h] = IdleHandler]
                  ELSE handler
    /\ UNCHANGED <<row, sent, posts, updates, poll, dialog, overlap>>

\* Mutant: polling stops when the answer is in.
ShouldPoll_NotAwaiting == loading \/ (~HasQuestion /\ ~HasDraft)

\* While the tab is visible: a hidden one may leave out any poll.
ShouldPoll == loading \/ IsAwaiting \/ (~HasQuestion /\ ~HasDraft)

\* refreshSession: at once when polling begins, and every two seconds.
PollSend(p) ==
    /\ ~closed /\ ShouldPoll /\ poll[p].at = "idle"
    /\ poll' = [poll EXCEPT ![p].at = "sent"]
    /\ UNCHANGED <<row, sent, handler, client, updates, dialog, overlap>>

\* get_onboarding.
PollRead(p) ==
    /\ poll[p].at = "sent"
    /\ poll' = [poll EXCEPT ![p] = IF row = NoRow THEN IdlePoll ELSE [at |-> "read", row |-> row]]
    /\ UNCHANGED <<row, sent, handler, client, updates, dialog, overlap>>

PollArrive(p) ==
    /\ ~closed /\ poll[p].at = "read"
    /\ session' = poll[p].row
    /\ awaiting' = StillAwaited(poll[p].row, awaiting)
    /\ poll' = [poll EXCEPT ![p] = IdlePoll]
    /\ UNCHANGED <<row, sent, handler, client, updates, closed, overlap>>

PollStep(p) == PollSend(p) \/ PollRead(p) \/ PollArrive(p)

Next ==
    \/ \E h \in 0..MaxPosts : Handle(h) \/ Succeed(h) \/ Fail(h)
    \/ \E says \in {"question", "complete"} : AgentLoad(says)
    \/ \E u \in updates : AgentCommit(u)
    \/ Answer \/ Confirm
    \/ \E p \in Poll : PollStep(p)

Spec == Init /\ [][Next]_onboardingVars

(* --------------------------- What must hold ----------------------------- *)

\* Once a goal is confirmed the session stays confirmed: an update the agent began
\* before the confirmation and commits after it does not reopen the session, nor does
\* a request the dialog gave up on. That is so as long as no two updates with a draft
\* overlapped that both found the session without one (a retry and its first try, say):
\* of two such updates the second commits "completed" over "confirmed".
ConfirmedStays ==
    [][~overlap /\ row.status = "confirmed" => row'.status = "confirmed"]_onboardingVars

\* The dialog does not wait, or the server does not have the reply it waits for yet.
\* This comes about again and again after an answer: replies with the same words as
\* the question before, and polls that overlap and answer out of order included. (A
\* stale poll may end the waiting too: the dialog then shows the old question.)
WaitOver == awaiting = NoReply \/ row.reply = awaiting
=============================================================================
