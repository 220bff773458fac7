-------------------------- MODULE OnboardingProofs --------------------------
(* A confirmed onboarding stays confirmed, for any number of messages, of     *)
(* requests the dialog gave up on, of overlapping updates and polls.          *)
EXTENDS Onboarding, TLAPS

(* Why it holds: a goal can only be confirmed when there is a draft, which    *)
(* came with the status "completed"; an update with a draft that is under way *)
(* then has found that status already, and does not write it again. The one   *)
(* that brought the first draft is the only one that had not found it, unless *)
(* two such updates overlapped.                                               *)

Post == 0..MaxPosts

HandlerType == [kind : {"none", "start", "answer", "confirm"},
                at : {"idle", "sent", "loaded", "committed"}, saved : Row]
PollType == [at : {"idle", "sent", "read"}, row : Row]

\* Whoever holds a draft has it from the row, which never loses it.
DraftsAreRows ==
    (\/ session.draft \/ \E p \in Poll : poll[p].row.draft
     \/ \E h \in Post : handler[h].saved.draft \/ handler[h].kind = "confirm")
        => row.draft

\* A draft is there from the moment the status is "completed".
DraftMeansDone == row.draft <=> row.status \in {"completed", "confirmed"}

\* The updates under way have found a row, and a draft only if there is one.
UpdatesFound ==
    \A u \in updates : row.status # "none" /\ (u.found = "completed" => row.draft)

\* When there is a draft, every update that brings one has found it.
FirstAlone ==
    ~overlap => /\ \A u, v \in FirstDrafts : u = v
                /\ row.draft => FirstDrafts = {}

\* Only the first request creates a row, and nobody writes before.
StartIsFirst ==
    /\ row.status = "none" => row = NoRow
    /\ \A h \in Post :
         /\ handler[h].kind = "start" =>
              h = 0 /\ (handler[h].at = "loaded" /\ handler[h].saved = NoRow => row = NoRow)
         /\ handler[h].at = "loaded" /\ handler[h].kind # "start" => row.status # "none"

DraftInv ==
    TypeOK /\ DraftsAreRows /\ DraftMeansDone /\ UpdatesFound /\ FirstAlone /\ StartIsFirst

LEMMA BlankTypes ==
    /\ NoReply \in Reply
    /\ NoRow \in Row /\ NoRow.draft = FALSE /\ NoRow.status = "none"
    /\ Asked \in Row /\ Asked.draft = FALSE /\ Asked.status = "active"
    /\ IdleHandler \in HandlerType /\ IdleHandler.kind = "none" /\ IdleHandler.at = "idle"
    /\ IdleHandler.saved = NoRow
    /\ IdlePoll \in PollType /\ IdlePoll.row = NoRow
<1>1. NoReply \in Reply
  BY DEF NoReply, Reply
<1>2. NoRow \in Row /\ NoRow.draft = FALSE /\ NoRow.status = "none"
  BY <1>1 DEF NoRow, Row
<1>3. Asked \in Row /\ Asked.draft = FALSE /\ Asked.status = "active"
  BY <1>1 DEF Asked, NoRow, Row
<1> QED
  BY <1>1, <1>2, <1>3 DEF IdleHandler, IdlePoll, HandlerType, PollType

\* What the agent's update leaves in the row.
LEMMA UpdatedRow ==
    ASSUME TypeOK, NEW u \in updates
    PROVE  /\ Updated(u) \in Row
           /\ Updated(u).draft <=> (row.draft \/ u.says = "complete")
           /\ Updated(u).status = IF u.says = "complete" /\ u.found = "active"
                                    THEN "completed" ELSE row.status
<1>1. u \in Update /\ row \in Row
  BY DEF TypeOK
<1>2. <<u.at, u.says>> \in Reply
  BY <1>1 DEF Update, Reply
<1> QED
  BY <1>1, <1>2 DEF Updated, Row, Update

LEMMA DraftInit == Init => DraftInv
<1> SUFFICES ASSUME Init PROVE DraftInv
  OBVIOUS
<1>1. row \in {NoRow, Asked} /\ session = NoRow /\ updates = {} /\ poll = [p \in Poll |-> IdlePoll]
  BY DEF Init
<1>2. /\ handler \in [Post -> HandlerType]
      /\ \A h \in Post : /\ h = 0 => handler[h] = [kind |-> "start", at |-> "loaded", saved |-> row]
                         /\ h # 0 => handler[h] = IdleHandler
  <2>1. [kind |-> "start", at |-> "loaded", saved |-> row] \in HandlerType
    BY <1>1, BlankTypes DEF HandlerType
  <2> QED
    BY <2>1, BlankTypes DEF Init, Post
<1>3. TypeOK
  BY <1>1, <1>2, BlankTypes DEF Init, TypeOK, Post, HandlerType, PollType
<1>4. DraftsAreRows
  BY <1>1, <1>2, BlankTypes DEF DraftsAreRows
<1>5. StartIsFirst
  BY <1>1, <1>2, BlankTypes DEF StartIsFirst
<1> QED
  BY <1>1, <1>3, <1>4, <1>5, BlankTypes
  DEF DraftInv, DraftMeansDone, UpdatesFound, FirstAlone, FirstDrafts

\* What a commit of the server leaves alone, and what a request does.
CommitFrame ==
    /\ sent' = sent /\ posts' = posts /\ loading' = loading /\ before' = before
    /\ updates' = updates /\ poll' = poll /\ session' = session /\ awaiting' = awaiting
    /\ closed' = closed /\ overlap' = overlap
RequestFrame == row' = row /\ sent' = sent /\ updates' = updates /\ overlap' = overlap

\* What a request may do to the dialog.
DialogStep ==
    /\ posts' \in Nat /\ loading' \in BOOLEAN /\ before' \in Reply
    /\ awaiting' \in Reply /\ closed' \in BOOLEAN
    /\ poll' \in [Poll -> PollType] /\ \A p \in Poll : poll'[p].row \in {NoRow, poll[p].row}
    /\ session' \in Row /\ (session'.draft => row.draft)

\* A handler that becomes g, when the row becomes r.
LEMMA HandlerStep ==
    ASSUME DraftInv, NEW h \in Post, NEW g \in HandlerType,
           handler' = [handler EXCEPT ![h] = g], row' \in Row,
           CommitFrame
    PROVE  /\ TypeOK'
           /\ \A k \in Post : handler'[k] = IF k = h THEN g ELSE handler[k]
  BY DEF DraftInv, TypeOK, Post, HandlerType, CommitFrame

\* A handler has committed: what becomes of it.
LEMMA CommittedStep ==
    ASSUME DraftInv, NEW h \in Post, NEW r \in Row, Committed(h, r)
    PROVE  \E g \in HandlerType :
              /\ handler' = [handler EXCEPT ![h] = g]
              /\ g.at # "loaded" /\ g.kind \in {"none", handler[h].kind}
              /\ g.saved \in {NoRow, r}
<1>1. handler[h] \in HandlerType
  BY DEF DraftInv, TypeOK, Post, HandlerType
<1>2. CASE Awaited(h)
  <2> DEFINE g == [handler[h] EXCEPT !.at = "committed", !.saved = r]
  <2>1. g \in HandlerType /\ g.at = "committed" /\ g.kind = handler[h].kind /\ g.saved = r
    BY <1>1 DEF HandlerType
  <2> QED
    BY <1>2, <2>1 DEF Committed
<1>3. CASE ~Awaited(h)
  BY <1>3, BlankTypes DEF Committed
<1> QED
  BY <1>2, <1>3

\* A commit of the server.
LEMMA CommitStep ==
    ASSUME DraftInv, NEW h \in Post, CommitStart(h) \/ CommitAnswer(h) \/ CommitConfirm(h)
    PROVE  DraftInv' /\ (row.status = "confirmed" => row'.status = "confirmed")
<1>0. handler[h] \in HandlerType /\ row \in Row
  BY DEF DraftInv, TypeOK, Post, HandlerType
<1>1. /\ row' \in Row /\ (row'.draft <=> row.draft)
      /\ row'.status = "none" => (row.status = "none" /\ row' = row)
      /\ row = NoRow => handler[h].kind = "start"
      /\ row' # row => handler[h].at = "loaded"
      /\ row'.status \in {row.status, "confirmed"} \/ (row = NoRow /\ row'.status = "active")
      /\ row'.status = "confirmed" => (row.status = "confirmed" \/ row.draft)
      /\ row.status = "confirmed" => row'.status = "confirmed"
  <2>1. CASE CommitStart(h)
    <3>1. handler[h].saved = NoRow => row = NoRow
      BY <2>1 DEF CommitStart, DraftInv, StartIsFirst
    <3>2. /\ handler[h].kind = "start" /\ handler[h].at = "loaded"
          /\ row' = IF handler[h].saved = NoRow THEN Asked ELSE row
      BY <2>1 DEF CommitStart
    <3> QED
      BY <1>0, <3>1, <3>2, BlankTypes
  <2>2. CASE CommitAnswer(h)
    <3>1. handler[h].saved.reply \in Reply
      BY <1>0 DEF HandlerType, Row
    <3>2. /\ row' = [row EXCEPT !.reply = handler[h].saved.reply]
          /\ handler[h].at = "loaded" /\ handler[h].kind = "answer"
      BY <2>2 DEF CommitAnswer
    <3>3. row' \in Row /\ row'.draft = row.draft /\ row'.status = row.status
      BY <1>0, <3>1, <3>2 DEF Row
    <3>4. row.status # "none"
      BY <3>2 DEF DraftInv, StartIsFirst
    <3> QED
      BY <3>2, <3>3, <3>4, BlankTypes
  <2>3. CASE CommitConfirm(h)
    <3>1. /\ row' = IF handler[h].saved.status = "confirmed" THEN row
                    ELSE [row EXCEPT !.status = "confirmed"]
          /\ handler[h].at = "loaded" /\ handler[h].kind = "confirm"
      BY <2>3 DEF CommitConfirm
    <3>2. row' \in Row /\ row'.draft = row.draft /\ row'.status \in {row.status, "confirmed"}
          /\ (row'.status = "confirmed" \/ row' = row)
      BY <1>0, <3>1 DEF Row
    <3>3. row.draft
      BY <3>1 DEF DraftInv, DraftsAreRows
    <3>4. row.status # "none"
      BY <3>1 DEF DraftInv, StartIsFirst
    <3> QED
      BY <3>1, <3>2, <3>3, <3>4, BlankTypes
  <2> QED
    BY <2>1, <2>2, <2>3
<1>2. PICK g \in HandlerType :
        /\ handler' = [handler EXCEPT ![h] = g]
        /\ g.at # "loaded" /\ g.kind \in {"none", handler[h].kind}
        /\ g.saved \in {NoRow, row'}
  BY <1>1, CommittedStep, BlankTypes DEF CommitStart, CommitAnswer, CommitConfirm
<1>3. CommitFrame
  BY DEF CommitStart, CommitAnswer, CommitConfirm, dialog, client, CommitFrame
<1>4. TypeOK' /\ \A k \in Post : handler'[k] = IF k = h THEN g ELSE handler[k]
  BY <1>1, <1>2, <1>3, HandlerStep
<1>5. DraftsAreRows'
  BY <1>1, <1>2, <1>3, <1>4, BlankTypes DEF DraftInv, DraftsAreRows, CommitFrame
<1>6. DraftMeansDone'
  BY <1>1, BlankTypes DEF DraftInv, DraftMeansDone
<1>7. UpdatesFound' /\ FirstAlone'
  BY <1>1, <1>3, BlankTypes DEF DraftInv, UpdatesFound, FirstAlone, FirstDrafts, CommitFrame
<1>8. StartIsFirst'
  <2>1. ASSUME NEW k \in Post, handler'[k].kind = "start"
        PROVE  k = 0 /\ (handler'[k].at = "loaded" /\ handler'[k].saved = NoRow => row' = NoRow)
    <3>1. CASE k = h
      BY <1>2, <1>4, <2>1, <3>1 DEF DraftInv, StartIsFirst
    <3>2. CASE k # h
      <4>1. handler'[k] = handler[k] /\ k = 0
        BY <1>4, <2>1, <3>2 DEF DraftInv, StartIsFirst
      <4>2. handler[h].kind # "start"
        BY <3>2, <4>1 DEF DraftInv, StartIsFirst
      <4>3. row # NoRow
        BY <1>1, <4>2
      <4> QED
        BY <2>1, <4>1, <4>3 DEF DraftInv, StartIsFirst
    <3> QED
      BY <3>1, <3>2
  <2>2. ASSUME NEW k \in Post, handler'[k].at = "loaded", handler'[k].kind # "start"
        PROVE  row'.status # "none"
    BY <1>1, <1>2, <1>4, <2>2 DEF DraftInv, StartIsFirst
  <2>3. row'.status = "none" => row' = NoRow
    BY <1>1 DEF DraftInv, StartIsFirst
  <2> QED
    BY <2>1, <2>2, <2>3 DEF StartIsFirst
<1> QED
  BY <1>1, <1>4, <1>5, <1>6, <1>7, <1>8 DEF DraftInv

\* A step of a handler that leaves the row alone: it holds the row or nothing.
LEMMA QuietStep ==
    ASSUME DraftInv, NEW h \in Post, NEW g \in HandlerType,
           handler' = [handler EXCEPT ![h] = g],
           g.saved \in {NoRow, row}, g.kind # "start" \/ g.kind = handler[h].kind,
           g.at = "loaded" => row # NoRow /\ g.saved = row, g.kind = "confirm" => row.draft,
           RequestFrame, DialogStep
    PROVE  DraftInv'
<1>1. /\ handler' \in [Post -> HandlerType]
      /\ \A k \in Post : handler'[k] = IF k = h THEN g ELSE handler[k]
  BY DEF DraftInv, TypeOK, Post, HandlerType
<1>2. TypeOK'
  BY <1>1 DEF DraftInv, TypeOK, Post, HandlerType, PollType, RequestFrame, DialogStep
<1>3. DraftsAreRows'
  BY <1>1, BlankTypes DEF DraftInv, DraftsAreRows, RequestFrame, DialogStep
<1>4. StartIsFirst'
  BY <1>1, BlankTypes DEF DraftInv, StartIsFirst, RequestFrame
<1> QED
  BY <1>2, <1>3, <1>4
  DEF DraftInv, DraftMeansDone, UpdatesFound, FirstAlone, FirstDrafts, RequestFrame

\* A step that leaves the row and the handlers alone.
LEMMA IdleStep ==
    ASSUME DraftInv, handler' = handler, RequestFrame, DialogStep
    PROVE  DraftInv'
<1>1. TypeOK'
  BY DEF DraftInv, TypeOK, PollType, RequestFrame, DialogStep
<1>2. DraftsAreRows'
  BY BlankTypes DEF DraftInv, DraftsAreRows, RequestFrame, DialogStep
<1> QED
  BY <1>1, <1>2
  DEF DraftInv, DraftMeansDone, UpdatesFound, FirstAlone, FirstDrafts, StartIsFirst,
      RequestFrame

\* The handler reads the row; the dialog sends; a response arrives or fails.
LEMMA RequestStep ==
    ASSUME DraftInv,
           \/ Answer \/ Confirm
           \/ \E h \in Post : Load(h) \/ Succeed(h) \/ Fail(h)
    PROVE  DraftInv' /\ UNCHANGED row
<1>0. /\ \A h \in Post : handler[h] \in HandlerType
      /\ row \in Row /\ session \in Row /\ awaiting \in Reply /\ before \in Reply
      /\ loading \in BOOLEAN /\ closed \in BOOLEAN /\ posts \in Nat
      /\ poll \in [Poll -> PollType] /\ (session.draft => row.draft)
  BY DEF DraftInv, TypeOK, Post, HandlerType, PollType, DraftsAreRows
<1>1. ASSUME NEW h \in Post, Load(h)
      PROVE  DraftInv' /\ UNCHANGED row
  <2> DEFINE g == [handler[h] EXCEPT !.at = "loaded", !.saved = row]
  <2>1. g \in HandlerType /\ g.at = "loaded" /\ g.saved = row /\ g.kind = handler[h].kind
    BY <1>0 DEF HandlerType
  <2>2. handler' = [handler EXCEPT ![h] = g] /\ row # NoRow
    BY <1>1 DEF Load, DraftInv, TypeOK
  <2>3. g.kind = "confirm" => row.draft
    BY <2>1 DEF DraftInv, DraftsAreRows
  <2>4. RequestFrame
    BY <1>1 DEF Load, RequestFrame
  <2>5. UNCHANGED <<posts, loading, before, awaiting, closed, poll, session>>
    BY <1>1 DEF Load, dialog, client
  <2>6. DialogStep
    BY <1>0, <2>5 DEF DialogStep
  <2> HIDE DEF g
  <2> QED
    BY <2>1, <2>2, <2>3, <2>4, <2>6, QuietStep DEF RequestFrame
<1>2. CASE Answer \/ Confirm
  <2>1. PICK kind \in {"answer", "confirm"} :
           /\ handler' = [handler EXCEPT ![posts + 1] = Posted(kind)]
           /\ kind = "confirm" => session.draft
           /\ posts' = posts + 1 /\ loading' = TRUE /\ before' \in Reply
           /\ awaiting' \in {awaiting, NoReply}
           /\ UNCHANGED <<row, sent, updates, poll, session, closed, overlap>>
    BY <1>0, <1>2, BlankTypes DEF Answer, Confirm, Sends, HasDraft, dialog, Row
  <2>2. /\ Posted(kind) \in HandlerType /\ Posted(kind).kind = kind
        /\ Posted(kind).saved = NoRow /\ Posted(kind).at = "sent"
    BY BlankTypes DEF Posted, HandlerType
  <2>3. RequestFrame
    BY <2>1 DEF RequestFrame
  <2>4. DialogStep
    BY <1>0, <2>1, BlankTypes DEF DialogStep
  <2>5. CASE posts + 1 \in Post
    <3>1. kind # "start" /\ Posted(kind).at # "loaded" /\ (kind = "confirm" => row.draft)
      BY <1>0, <2>1, <2>2
    <3> QED
      BY <2>1, <2>2, <2>3, <2>4, <2>5, <3>1, QuietStep DEF RequestFrame
  <2>6. CASE posts + 1 \notin Post
    <3>1. handler' = handler
      BY <2>1, <2>6 DEF DraftInv, TypeOK, Post
    <3> QED
      BY <2>3, <2>4, <3>1, IdleStep DEF RequestFrame
  <2> QED
    BY <2>5, <2>6
<1>3. ASSUME NEW h \in Post, Succeed(h)
      PROVE  DraftInv' /\ UNCHANGED row
  <2>1. /\ handler' = [handler EXCEPT ![h] = IdleHandler]
        /\ UNCHANGED <<row, sent, updates, overlap, posts>> /\ loading' = FALSE
        /\ before' = NoReply /\ closed' \in {closed, TRUE}
        /\ awaiting' \in {awaiting, before, NoReply}
        /\ session' \in {NoRow, handler[h].saved}
        /\ poll' = poll \/ poll' = [p \in Poll |-> IdlePoll]
    BY <1>3 DEF Succeed, StillAwaited
  <2>2. handler[h].saved \in Row /\ (handler[h].saved.draft => row.draft)
    BY <1>0 DEF HandlerType, DraftInv, DraftsAreRows
  <2>3. /\ poll' \in [Poll -> PollType]
        /\ \A p \in Poll : poll'[p].row \in {NoRow, poll[p].row}
    <3>1. CASE poll' = poll
      BY <1>0, <3>1
    <3>2. CASE poll' = [p \in Poll |-> IdlePoll]
      BY <3>2, BlankTypes
    <3> QED
      BY <2>1, <3>1, <3>2
  <2>4. RequestFrame
    BY <2>1 DEF RequestFrame
  <2>5. DialogStep
    BY <1>0, <2>1, <2>2, <2>3, BlankTypes DEF DialogStep
  <2> QED
    BY <2>1, <2>4, <2>5, BlankTypes, QuietStep DEF RequestFrame
<1>4. ASSUME NEW h \in Post, Fail(h)
      PROVE  DraftInv' /\ UNCHANGED row
  <2>1. /\ handler' = [handler EXCEPT ![h] = IdleHandler] \/ handler' = handler
        /\ UNCHANGED <<row, sent, posts, updates, poll, session, awaiting, closed, overlap>>
        /\ loading' = FALSE /\ before' = NoReply
    BY <1>4 DEF Fail, dialog
  <2>2. RequestFrame
    BY <2>1 DEF RequestFrame
  <2>3. DialogStep
    BY <1>0, <2>1, BlankTypes DEF DialogStep
  <2>4. CASE handler' = [handler EXCEPT ![h] = IdleHandler]
    BY <2>2, <2>3, <2>4, BlankTypes, QuietStep DEF RequestFrame
  <2>5. CASE handler' = handler
    BY <2>2, <2>3, <2>5, IdleStep DEF RequestFrame
  <2> QED
    BY <2>1, <2>4, <2>5
<1> QED
  BY <1>1, <1>2, <1>3, <1>4

\* The agent's update finds the row.
LEMMA AgentLoadStep ==
    ASSUME DraftInv, NEW says \in {"question", "complete"}, AgentLoad(says)
    PROVE  DraftInv' /\ UNCHANGED row
<1> DEFINE u == [says |-> says, at |-> sent + 1, found |-> row.status]
<1>1. /\ updates' = updates \union {u} /\ sent' = sent + 1
      /\ row.status \notin {"none", "confirmed"}
      /\ overlap' = (overlap \/ (says = "complete" /\ row.status = "active" /\ FirstDrafts # {}))
      /\ UNCHANGED <<row, handler, posts, loading, before, poll, session, awaiting, closed>>
  BY DEF AgentLoad, dialog, client
<1>2. row.status \in {"active", "completed"} /\ sent \in Nat
  BY <1>1 DEF DraftInv, TypeOK, Row
<1>3. u \in Update /\ u.says = says /\ u.found = row.status
  BY <1>2 DEF Update
<1>4. TypeOK'
  BY <1>1, <1>2, <1>3 DEF DraftInv, TypeOK
<1>5. UpdatesFound'
  BY <1>1, <1>2, <1>3 DEF DraftInv, UpdatesFound, DraftMeansDone
<1>6. FirstAlone'
  <2> SUFFICES ASSUME ~overlap'
               PROVE  /\ \A a, b \in FirstDrafts' : a = b
                      /\ row.draft => FirstDrafts' = {}
    BY <1>1 DEF FirstAlone
  <2>1. ~overlap /\ ~(says = "complete" /\ row.status = "active" /\ FirstDrafts # {})
    BY <1>1
  <2>2. CASE says = "complete" /\ row.status = "active"
    <3>1. FirstDrafts' = {u} /\ ~row.draft
      BY <1>1, <1>3, <2>1, <2>2 DEF FirstDrafts, DraftInv, DraftMeansDone
    <3> QED
      BY <3>1
  <2>3. CASE ~(says = "complete" /\ row.status = "active")
    <3>1. FirstDrafts' = FirstDrafts
      BY <1>1, <1>3, <2>3 DEF FirstDrafts
    <3> QED
      BY <2>1, <3>1 DEF DraftInv, FirstAlone
  <2> QED
    BY <2>2, <2>3
<1> HIDE DEF u
<1> QED
  BY <1>1, <1>4, <1>5, <1>6
  DEF DraftInv, DraftsAreRows, DraftMeansDone, StartIsFirst

\* The agent's update writes the row.
LEMMA AgentCommitStep ==
    ASSUME DraftInv, NEW u \in updates, AgentCommit(u)
    PROVE  /\ DraftInv'
           /\ ~overlap /\ row.status = "confirmed" => row'.status = "confirmed"
<1>1. /\ row' = Updated(u) /\ updates' = updates \ {u}
      /\ UNCHANGED <<sent, handler, posts, loading, before, poll, session, awaiting, closed,
                     overlap>>
  BY DEF AgentCommit, dialog, client
<1>2. /\ row' \in Row
      /\ row'.draft <=> (row.draft \/ u.says = "complete")
      /\ row'.status = IF u.says = "complete" /\ u.found = "active"
                         THEN "completed" ELSE row.status
  BY <1>1, UpdatedRow DEF DraftInv
<1>3. u \in Update /\ row.status # "none" /\ (u.found = "completed" => row.draft)
  BY DEF DraftInv, TypeOK, UpdatesFound
<1>4. u.found \in {"active", "completed"}
  BY <1>3 DEF Update
<1>5. TypeOK'
  BY <1>1, <1>2 DEF DraftInv, TypeOK
<1>6. DraftsAreRows'
  BY <1>1, <1>2 DEF DraftInv, DraftsAreRows
<1>7. DraftMeansDone'
  BY <1>2, <1>3, <1>4 DEF DraftInv, DraftMeansDone
<1>8. UpdatesFound'
  BY <1>1, <1>2, <1>3 DEF DraftInv, UpdatesFound
<1>9. FirstAlone'
  <2> SUFFICES ASSUME ~overlap
               PROVE  /\ \A a, b \in FirstDrafts' : a = b
                      /\ row'.draft => FirstDrafts' = {}
    BY <1>1 DEF FirstAlone
  <2>1. FirstDrafts' = FirstDrafts \ {u}
    BY <1>1 DEF FirstDrafts
  <2>2. CASE u \in FirstDrafts
    BY <2>1, <2>2 DEF DraftInv, FirstAlone
  <2>3. CASE u \notin FirstDrafts
    <3>1. u.says = "complete" => row.draft
      BY <1>3, <1>4, <2>3 DEF FirstDrafts
    <3> QED
      BY <1>2, <2>1, <3>1 DEF DraftInv, FirstAlone
  <2> QED
    BY <2>2, <2>3
<1>10. StartIsFirst'
  BY <1>1, <1>2, <1>3, BlankTypes DEF DraftInv, StartIsFirst
<1>11. ~overlap /\ row.status = "confirmed" => row'.status = "confirmed"
  BY <1>2 DEF DraftInv, DraftMeansDone, FirstAlone, FirstDrafts
<1> QED
  BY <1>5, <1>6, <1>7, <1>8, <1>9, <1>10, <1>11 DEF DraftInv

\* A poll reads the row, and the dialog takes what a poll has read.
LEMMA PollsStep ==
    ASSUME DraftInv, NEW p \in Poll, PollStep(p)
    PROVE  DraftInv' /\ UNCHANGED row
<1>0. poll \in [Poll -> PollType] /\ row \in Row
  BY DEF DraftInv, TypeOK, PollType
<1>1. PICK q \in PollType :
        /\ poll' = [poll EXCEPT ![p] = q]
        /\ q.row \in {NoRow, row, poll[p].row}
        /\ session' \in {session, poll[p].row} /\ awaiting' \in {awaiting, NoReply}
        /\ UNCHANGED <<row, sent, handler, posts, loading, before, updates, closed, overlap>>
  <2>1. CASE PollSend(p)
    <3> DEFINE q == [poll[p] EXCEPT !.at = "sent"]
    <3>1. q \in PollType /\ q.row = poll[p].row
      BY <1>0 DEF PollType
    <3>2. poll' = [poll EXCEPT ![p] = q]
      BY <1>0, <2>1 DEF PollSend, PollType
    <3>3. UNCHANGED <<row, sent, handler, posts, loading, before, updates, closed, overlap,
                      session, awaiting>>
      BY <2>1 DEF PollSend, dialog, client
    <3> QED
      BY <3>1, <3>2, <3>3
  <2>2. CASE PollRead(p)
    <3> DEFINE q == IF row = NoRow THEN IdlePoll ELSE [at |-> "read", row |-> row]
    <3>1. q \in PollType /\ q.row \in {NoRow, row}
      BY <1>0, BlankTypes DEF PollType
    <3>2. poll' = [poll EXCEPT ![p] = q]
      BY <2>2 DEF PollRead
    <3>3. UNCHANGED <<row, sent, handler, posts, loading, before, updates, closed, overlap,
                      session, awaiting>>
      BY <2>2 DEF PollRead, dialog, client
    <3> QED
      BY <3>1, <3>2, <3>3
  <2>3. CASE PollArrive(p)
    <3>1. /\ poll' = [poll EXCEPT ![p] = IdlePoll] /\ session' = poll[p].row
          /\ awaiting' \in {awaiting, NoReply}
          /\ UNCHANGED <<row, sent, handler, posts, loading, before, updates, closed, overlap>>
      BY <2>3 DEF PollArrive, StillAwaited, client
    <3> QED
      BY <3>1, BlankTypes
  <2> QED
    BY <2>1, <2>2, <2>3 DEF PollStep
<1>2. /\ poll' \in [Poll -> PollType] /\ poll[p].row \in Row
      /\ \A r \in Poll : poll'[r].row \in {NoRow, row, poll[r].row}
  BY <1>0, <1>1 DEF PollType
<1>3. TypeOK'
  BY <1>1, <1>2, BlankTypes DEF DraftInv, TypeOK, PollType
<1>4. DraftsAreRows'
  BY <1>1, <1>2, BlankTypes DEF DraftInv, DraftsAreRows
<1> QED
  BY <1>1, <1>3, <1>4
  DEF DraftInv, DraftMeansDone, UpdatesFound, FirstAlone, FirstDrafts, StartIsFirst

\* Every step keeps the invariant, and without an overlap a confirmed row.
LEMMA DraftStep ==
    ASSUME DraftInv, [Next]_onboardingVars
    PROVE  DraftInv' /\ (~overlap /\ row.status = "confirmed" => row'.status = "confirmed")
<1>1. ASSUME NEW h \in 0..MaxPosts, Handle(h) \/ Succeed(h) \/ Fail(h)
      PROVE  DraftInv' /\ (row.status = "confirmed" => row'.status = "confirmed")
  BY <1>1, CommitStep, RequestStep DEF Handle, Post
<1>2. CASE Answer \/ Confirm
  BY <1>2, RequestStep
<1>3. CASE \E says \in {"question", "complete"} : AgentLoad(says)
  BY <1>3, AgentLoadStep
<1>4. CASE \E u \in updates : AgentCommit(u)
  BY <1>4, AgentCommitStep
<1>5. CASE \E p \in Poll : PollStep(p)
  BY <1>5, PollsStep
<1>6. CASE UNCHANGED onboardingVars
  BY <1>6 DEF onboardingVars, DraftInv, TypeOK, DraftsAreRows, DraftMeansDone,
              UpdatesFound, FirstAlone, FirstDrafts, StartIsFirst
<1> QED
  BY <1>1, <1>2, <1>3, <1>4, <1>5, <1>6 DEF Next

\* Once a goal is confirmed the session stays confirmed, whichever updates of the agent
\* and requests of the dialog were under way, as long as no two updates with a draft
\* overlapped that had both found none (confirm_onboarding, agent_onboarding_update).
THEOREM ConfirmedForGood == Spec => ConfirmedStays
<1>1. DraftInv /\ [Next]_onboardingVars
        => DraftInv' /\ (~overlap /\ row.status = "confirmed" => row'.status = "confirmed")
  BY DraftStep
<1> QED
  BY <1>1, DraftInit, PTL DEF Spec, ConfirmedStays

\* Every reachable state of the onboarding is well typed, for any number of polls.
THEOREM DialogTypeCorrect == Spec => []TypeOK
<1>1. DraftInv /\ [Next]_onboardingVars => DraftInv'
  BY DraftStep
<1>2. DraftInv => TypeOK
  BY DEF DraftInv
<1> QED
  BY <1>1, <1>2, DraftInit, PTL DEF Spec
=============================================================================
