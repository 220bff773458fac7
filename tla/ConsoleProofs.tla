---------------------------- MODULE ConsoleProofs ---------------------------
(* What the page modules' proofs establish, carried over to the console, and *)
(* the proofs about the lists and the recognisers.                           *)
(*                                                                          *)
(* Console reaches a page through an INSTANCE of its module, this module    *)
(* through an INSTANCE of its proofs (LinkFacts, ...). Both name the same   *)
(* definitions of the page, which the steps below expand on either side.    *)
EXTENDS Console, FiniteSetTheorems, TLAPS

(* ------------------------------- the stream ----------------------------- *)

LinkFacts == INSTANCE LiveLinkProofs WITH active <- tabActive

\* The console's steps are steps or stutters of the stream's effect.
LEMMA LinkRuns == Spec => LinkFacts!Spec
<1>1. Link!Init => LinkFacts!Init
  BY DEF Link!Init, LinkFacts!Init, Link!Started, LinkFacts!Started, Link!Fresh,
      LinkFacts!Fresh
<1>2. Link!Next => LinkFacts!Next
  BY Zenon DEF Link!Next, LinkFacts!Next, Link!Deactivate, LinkFacts!Deactivate,
      Link!Activate, LinkFacts!Activate, Link!Rerun, LinkFacts!Rerun, Link!Opened, LinkFacts!Opened,
      Link!Fails, LinkFacts!Fails, Link!Resume, LinkFacts!Resume, Link!Fire,
      LinkFacts!Fire, Link!CleanedRuns, LinkFacts!CleanedRuns, Link!Started,
      LinkFacts!Started, Link!AfterEnd, LinkFacts!AfterEnd, Link!Live, LinkFacts!Live,
      Link!CleanedUp, LinkFacts!CleanedUp
<1>3. [Next]_vars => [LinkFacts!Next]_(LinkFacts!linkState)
  BY <1>2 DEF Next, OnStream, OnChat, OnDialog, OnList, OnVoice, OnTalk, vars, linkVars,
      chatVars, dialogVars, listVars, voiceVars, talkVars, LinkFacts!linkState
<1> QED
  BY <1>1, <1>3, PTL DEF Spec, Init, LinkFacts!Spec

\* Whatever page is shown, a stream has at most one connection and a hidden tab
\* none, for any number of effect runs, failures and changes of visibility.
THEOREM ConsoleOneConnection == Spec => []OneConnection
<1>1. LinkFacts!OneConnection <=> OneConnection
  BY Zenon DEF OneConnection, Link!OneConnection, LinkFacts!OneConnection, Link!Sockets,
      LinkFacts!Sockets, Link!Cardinality, LinkFacts!Cardinality
<1> QED
  BY <1>1, LinkRuns, LinkFacts!AtMostOneConnection, PTL

\* The effect implements the contract that the chat is written against: connections
\* do not overlap, and hiding the tab ends one in the same step.
THEOREM ConsoleKeepsLink == Spec => KeepsLink
<1>1. LinkFacts!KeepsLink => KeepsLink
  BY PTL DEF KeepsLink, LinkFacts!KeepsLink, LinkFacts!Contract!LinkSpec,
      Link!Contract!LinkInit, LinkFacts!Contract!LinkInit,
      Link!Contract!LinkNext, LinkFacts!Contract!LinkNext,
      Link!Contract!LinkUp, LinkFacts!Contract!LinkUp,
      Link!Contract!LinkBreak, LinkFacts!Contract!LinkBreak,
      Link!Contract!Hide, LinkFacts!Contract!Hide,
      Link!Contract!Show, LinkFacts!Contract!Show,
      Link!Contract!linkVars, LinkFacts!Contract!linkVars, Link!Sockets, LinkFacts!Sockets
<1> QED
  BY <1>1, LinkRuns, LinkFacts!LinkImplementsContract, PTL

(* -------------------------------- the chat ------------------------------ *)

ChatFacts == INSTANCE BoardChatProofs WITH MaxMsgs <- ChatMsgs

\* The console's steps are steps or stutters of the chat.
LEMMA ChatRuns == Spec => ChatFacts!Spec
<1>1. Chat!Init => ChatFacts!Init
  BY DEF Chat!Init, ChatFacts!Init, Chat!LinkInit, ChatFacts!LinkInit, Chat!Msg,
      ChatFacts!Msg, Chat!Idle, ChatFacts!Idle, Chat!Cardinality, ChatFacts!Cardinality,
      Chat!SetToSeq, ChatFacts!SetToSeq, Chat!IsInjective, ChatFacts!IsInjective
<1>2. Chat!Next => ChatFacts!Next
  BY Zenon DEF Chat!Next, ChatFacts!Next, Chat!Write, ChatFacts!Write, Chat!Receive,
      ChatFacts!Receive, Chat!Msg, ChatFacts!Msg, Chat!Commit, ChatFacts!Commit,
      Chat!Emit, ChatFacts!Emit, Chat!Connect, ChatFacts!Connect, Chat!Drop,
      ChatFacts!Drop, Chat!Return, ChatFacts!Return, Chat!Read, ChatFacts!Read,
      Chat!SyncRef, ChatFacts!SyncRef, Chat!Send, ChatFacts!Send, Chat!Sent,
      ChatFacts!Sent, Chat!SendFails, ChatFacts!SendFails, Chat!OpenChat,
      ChatFacts!OpenChat, Chat!CloseChat, ChatFacts!CloseChat, Chat!Now,
      ChatFacts!Now, Chat!linkVars, ChatFacts!linkVars, Chat!stream, ChatFacts!stream,
      Chat!page, ChatFacts!page, Chat!Sending, ChatFacts!Sending, Chat!Rows,
      ChatFacts!Rows, Chat!Latest, ChatFacts!Latest, Chat!server, ChatFacts!server,
      Chat!LinkUp, ChatFacts!LinkUp, Chat!Since, ChatFacts!Since, Chat!LinkBreak,
      ChatFacts!LinkBreak, Chat!Hide, ChatFacts!Hide, Chat!Show, ChatFacts!Show,
      Chat!Inserted, ChatFacts!Inserted, Chat!ByTime, ChatFacts!ByTime, Chat!Announced, ChatFacts!Announced,
      Chat!Shown, ChatFacts!Shown, Chat!Idle, ChatFacts!Idle, Chat!Cardinality,
      ChatFacts!Cardinality, Chat!ToSet, ChatFacts!ToSet
<1>3. [Next]_vars => [ChatFacts!Next]_(ChatFacts!chatVars)
  BY <1>2 DEF Next, OnStream, OnChat, OnDialog, OnList, OnVoice, OnTalk, vars, linkVars,
      chatVars, dialogVars, listVars, voiceVars, talkVars, ChatFacts!chatVars
<1> QED
  BY <1>1, <1>3, PTL DEF Spec, Init, ChatFacts!Spec

\* No chat message is announced twice and one's own never, for any number of
\* messages, polls, reconnects and lagging refs.
THEOREM ConsoleNotifiedOnce == Spec => []NotifiedOnce
<1>1. ChatFacts!NotifiedOnce <=> NotifiedOnce
  BY Zenon DEF NotifiedOnce, Chat!NotifiedOnce, ChatFacts!NotifiedOnce,
      Chat!Msg, ChatFacts!Msg
<1> QED
  BY <1>1, ChatRuns, ChatFacts!AnnouncedOnce, PTL

\* The badge counts the messages of others that came while the chat was closed.
THEOREM ConsoleUnreadRight == Spec => []UnreadRight
<1>1. ChatFacts!UnreadRight <=> UnreadRight
  BY Zenon DEF UnreadRight, Chat!UnreadRight, ChatFacts!UnreadRight, Chat!Shown,
      ChatFacts!Shown, Chat!ToSet, ChatFacts!ToSet, Chat!Cardinality,
      ChatFacts!Cardinality
<1> QED
  BY <1>1, ChatRuns, ChatFacts!BadgeIsRight, PTL

\* The page shows no message twice, and all in the order of their timestamps.
THEOREM ConsoleInOrder == Spec => []InOrder
<1>1. ChatFacts!InOrder <=> InOrder
  BY Zenon DEF InOrder, Chat!InOrder, ChatFacts!InOrder
<1> QED
  BY <1>1, ChatRuns, ChatFacts!ChatIsInOrder, PTL

(* ------------------------------- onboarding ----------------------------- *)

DialogFacts == INSTANCE OnboardingProofs

\* The console's steps are steps or stutters of the dialog and its session.
LEMMA DialogRuns == Spec => DialogFacts!Spec
<1>1. Dialog!Init => DialogFacts!Init
  BY DEF Dialog!Init, DialogFacts!Init, Dialog!NoRow, DialogFacts!NoRow, Dialog!Asked,
      DialogFacts!Asked, Dialog!NoReply, DialogFacts!NoReply,
      Dialog!IdleHandler, DialogFacts!IdleHandler, Dialog!IdlePoll,
      DialogFacts!IdlePoll
<1>2. Dialog!Next => DialogFacts!Next
  BY Zenon DEF Dialog!Next, DialogFacts!Next, Dialog!Handle, DialogFacts!Handle,
      Dialog!CommitStart, DialogFacts!CommitStart, Dialog!Load,
      DialogFacts!Load, Dialog!CommitAnswer, DialogFacts!CommitAnswer,
      Dialog!CommitConfirm, DialogFacts!CommitConfirm, Dialog!Committed,
      DialogFacts!Committed, Dialog!Awaited, DialogFacts!Awaited,
      Dialog!AgentLoad, DialogFacts!AgentLoad, Dialog!FirstDrafts,
      DialogFacts!FirstDrafts, Dialog!AgentCommit, DialogFacts!AgentCommit,
      Dialog!Updated, DialogFacts!Updated, Dialog!Answer, DialogFacts!Answer,
      Dialog!Confirm, DialogFacts!Confirm, Dialog!Sends, DialogFacts!Sends,
      Dialog!Posted, DialogFacts!Posted, Dialog!Press, DialogFacts!Press,
      Dialog!HasQuestion, DialogFacts!HasQuestion, Dialog!HasDraft,
      DialogFacts!HasDraft, Dialog!Succeed, DialogFacts!Succeed, Dialog!Fail,
      DialogFacts!Fail, Dialog!Written, DialogFacts!Written,
      Dialog!StillAwaited, DialogFacts!StillAwaited, Dialog!IsAwaiting,
      DialogFacts!IsAwaiting, Dialog!ShouldPoll, DialogFacts!ShouldPoll,
      Dialog!PollStep, DialogFacts!PollStep, Dialog!PollSend,
      DialogFacts!PollSend, Dialog!PollRead, DialogFacts!PollRead,
      Dialog!PollArrive, DialogFacts!PollArrive, Dialog!NoRow,
      DialogFacts!NoRow, Dialog!Asked, DialogFacts!Asked, Dialog!NoReply,
      DialogFacts!NoReply, Dialog!IdleHandler, DialogFacts!IdleHandler,
      Dialog!IdlePoll, DialogFacts!IdlePoll, Dialog!dialog,
      DialogFacts!dialog, Dialog!client, DialogFacts!client
<1>3. [Next]_vars => [DialogFacts!Next]_(DialogFacts!onboardingVars)
  BY <1>2 DEF Next, OnStream, OnChat, OnDialog, OnList, OnVoice, OnTalk, vars, linkVars,
      chatVars, dialogVars, listVars, voiceVars, talkVars, DialogFacts!onboardingVars
<1> QED
  BY <1>1, <1>3, PTL DEF Spec, Init, DialogFacts!Spec

\* No request, poll or agent update, however it overlaps the confirmation, takes
\* an onboarding session out of "confirmed", as long as no two updates with a draft
\* overlapped that both found none: for any number of polls, messages and posts, and
\* handlers that go on after the dialog gave up on them.
THEOREM ConsoleConfirmedStays == Spec => ConfirmedStays
<1> QED
  BY DialogRuns, DialogFacts!ConfirmedForGood, PTL
  DEF ConfirmedStays, Dialog!ConfirmedStays, DialogFacts!ConfirmedStays,
      Dialog!onboardingVars, DialogFacts!onboardingVars

(* -------------------------------- the lists ----------------------------- *)

(* Why it holds: only an open page fetches; what a fetch has read while no    *)
(* deletion is pending is still so; and when the last deletion settles the    *)
(* entry is stale, whatever the list was rolled back to.                      *)

FetchIsMounted == fetch.at # "none" => listMounted
FetchIsFresh == List!Pending = {} /\ fetch.at = "read" => fetch.items = server
RestIsRight == List!Pending = {} /\ ~stale => list = server

ListInv == List!TypeOK /\ FetchIsMounted /\ FetchIsFresh /\ RestIsRight

\* The list page has just loaded.
LEMMA ListInitial == List!Init => ListInv
<1> SUFFICES ASSUME List!Init PROVE ListInv
  OBVIOUS
<1>1. List!NoFetch \in [at : {"none", "sent", "read"}, items : SUBSET Item]
  BY DEF List!NoFetch
<1>2. List!NoDeletion \in [at : {"none", "sent", "deleted", "refused"}, previous : SUBSET Item]
  BY DEF List!NoDeletion
<1>3. List!TypeOK
  BY <1>1, <1>2 DEF List!Init, List!TypeOK
<1> QED
  BY <1>3 DEF List!Init, ListInv, FetchIsMounted, FetchIsFresh, RestIsRight, List!NoFetch

\* A deletion that is confirmed or goes on is pending.
LEMMA StillPending ==
    ASSUME List!TypeOK, NEW i \in Item, deletion'[i].at # "none"
    PROVE  List!Pending' # {}
  BY DEF List!Pending

\* Every step of the list keeps the types.
LEMMA ListTypes ==
    ASSUME List!TypeOK, [List!Next]_(List!listVars)
    PROVE  List!TypeOK'
<1>1. ASSUME NEW i \in Item, List!Confirm(i) PROVE List!TypeOK'
  BY <1>1 DEF List!Confirm, List!TypeOK, List!NoFetch
<1>2. ASSUME NEW i \in Item, List!Delete(i) PROVE List!TypeOK'
  <2>1. deletion[i] \in [at : {"none", "sent", "deleted", "refused"}, previous : SUBSET Item]
    BY <1>2 DEF List!TypeOK
  <2>2. PICK x \in {"deleted", "refused"} : deletion' = [deletion EXCEPT ![i].at = x]
    BY <1>2 DEF List!Delete
  <2> DEFINE d == [deletion[i] EXCEPT !.at = x]
  <2>3. d \in [at : {"none", "sent", "deleted", "refused"}, previous : SUBSET Item]
    BY <2>1
  <2>4. deletion' = [deletion EXCEPT ![i] = d]
    BY <2>2
  <2> HIDE DEF d
  <2>5. deletion' \in [Item -> [at : {"none", "sent", "deleted", "refused"},
                                previous : SUBSET Item]]
    BY <2>3, <2>4 DEF List!TypeOK
  <2>6. server' \in SUBSET Item
    BY <1>2 DEF List!Delete, List!TypeOK
  <2> QED
    BY <1>2, <2>5, <2>6 DEF List!Delete, List!TypeOK
<1>3. ASSUME NEW i \in Item, List!Settle(i) PROVE List!TypeOK'
  <2>1. list' \in SUBSET Item
    BY <1>3 DEF List!Settle, List!TypeOK
  <2>2. deletion' \in [Item -> [at : {"none", "sent", "deleted", "refused"},
                                previous : SUBSET Item]]
    BY <1>3 DEF List!Settle, List!TypeOK, List!NoDeletion
  <2> QED
    BY <1>3, <2>1, <2>2 DEF List!Settle, List!Invalidated, List!Refetch, List!TypeOK
<1>4. CASE List!StartFetch \/ List!ReadList \/ List!FetchArrives \/ List!FetchFails \/ List!Leave \/ List!Enter
  <2>1. list' \in SUBSET Item
    BY <1>4 DEF List!StartFetch, List!ReadList, List!FetchArrives, List!FetchFails, List!Leave, List!Enter, List!TypeOK
  <2>2. fetch' \in [at : {"none", "sent", "read"}, items : SUBSET Item]
    BY <1>4 DEF List!StartFetch, List!ReadList, List!FetchArrives, List!FetchFails, List!Leave, List!Enter, List!Refetch,
                List!NoFetch, List!TypeOK
  <2>3. stale' \in BOOLEAN /\ listMounted' \in BOOLEAN
    BY <1>4 DEF List!StartFetch, List!ReadList, List!FetchArrives, List!FetchFails, List!Leave, List!Enter, List!TypeOK
  <2>4. confirming' \in Item \union {None} /\ UNCHANGED <<server, deletion>>
    BY <1>4 DEF List!StartFetch, List!ReadList, List!FetchArrives, List!FetchFails, List!Leave, List!Enter, List!TypeOK
  <2> QED
    BY <2>1, <2>2, <2>3, <2>4 DEF List!TypeOK
<1>5. CASE UNCHANGED List!listVars
  BY <1>5 DEF List!listVars, List!TypeOK
<1> QED
  BY <1>1, <1>2, <1>3, <1>4, <1>5 DEF List!Next

\* Every step of the list keeps the invariant.
LEMMA ListStep ==
    ASSUME ListInv, [List!Next]_(List!listVars)
    PROVE  ListInv'
<1>1. List!TypeOK /\ List!TypeOK'
  BY ListTypes DEF ListInv
<1>2. ASSUME NEW i \in Item, List!Confirm(i) PROVE ListInv'
  <2>1. deletion'[i].at # "none" /\ fetch' = List!NoFetch
    BY <1>2, <1>1 DEF List!Confirm, List!TypeOK
  <2> QED
    BY <1>1, <2>1, StillPending
    DEF ListInv, FetchIsMounted, FetchIsFresh, RestIsRight, List!NoFetch
<1>3. ASSUME NEW i \in Item, List!Delete(i) PROVE ListInv'
  <2>1. deletion'[i].at # "none" /\ UNCHANGED <<fetch, listMounted>>
    BY <1>3, <1>1 DEF List!Delete, List!TypeOK
  <2> QED
    BY <1>1, <2>1, StillPending DEF ListInv, FetchIsMounted, FetchIsFresh, RestIsRight
<1>4. ASSUME NEW i \in Item, List!Settle(i) PROVE ListInv'
  <2>1. /\ stale' = TRUE /\ listMounted' = listMounted
        /\ IF listMounted THEN fetch'.at = "sent" ELSE fetch' = fetch
    BY <1>4 DEF List!Settle, List!Invalidated, List!Refetch
  <2> QED
    BY <1>1, <2>1 DEF ListInv, FetchIsMounted, FetchIsFresh, RestIsRight, List!TypeOK
<1>5. ASSUME UNCHANGED deletion, List!Next PROVE List!Pending' = List!Pending
  BY <1>5 DEF List!Pending
<1>6. CASE List!StartFetch \/ List!ReadList \/ List!FetchArrives \/ List!FetchFails \/ List!Leave \/ List!Enter
  <2>1. List!Pending' = List!Pending /\ UNCHANGED server
    BY <1>6, <1>5 DEF List!Next, List!StartFetch, List!ReadList, List!FetchArrives, List!FetchFails, List!Leave, List!Enter
  <2> QED
    BY <1>1, <1>6, <2>1
    DEF List!StartFetch, List!ReadList, List!FetchArrives, List!FetchFails, List!Leave, List!Enter, List!Refetch, List!NoFetch,
        ListInv, FetchIsMounted, FetchIsFresh, RestIsRight, List!TypeOK
<1>7. CASE UNCHANGED List!listVars
  BY <1>7, <1>1 DEF List!listVars, ListInv, FetchIsMounted, FetchIsFresh, RestIsRight, List!Pending
<1> QED
  BY <1>2, <1>3, <1>4, <1>6, <1>7 DEF List!Next

\* No step of the console disturbs ListInv.
LEMMA ListRuns == Spec => []ListInv
<1>1. Init => ListInv
  BY ListInitial DEF Init
<1>2. ListInv /\ [Next]_vars => ListInv'
  BY ListStep DEF Next, OnStream, OnChat, OnDialog, OnList, OnVoice, OnTalk, vars, linkVars,
      chatVars, dialogVars, listVars, voiceVars, talkVars, List!listVars
<1> QED
  BY <1>1, <1>2, PTL DEF Spec

\* A list with no deletion and no refetch to come is the server's, for any items
\* and however many deletions, rollbacks and refetches overlapped.
THEOREM ConsoleListRight == Spec => []ListRight
<1>1. ListInv => ListRight
  BY DEF ListInv, RestIsRight, ListRight, List!ListRight
<1> QED
  BY <1>1, ListRuns, PTL

(* ----------------------------- the microphones -------------------------- *)

VoiceFacts == INSTANCE VoiceLineProofs WITH closed <- peersClosed

\* The console's steps are steps or stutters of the voice room.
LEMMA VoiceRuns == Spec => VoiceFacts!Spec
<1>1. Voice!Init => VoiceFacts!Init
  BY DEF Voice!Init, VoiceFacts!Init
<1>2. Voice!Next => VoiceFacts!Next
  BY Zenon DEF Voice!Next, VoiceFacts!Next, Voice!PressStart, VoiceFacts!PressStart,
      Voice!SessionArrives, VoiceFacts!SessionArrives, Voice!SessionUnavailable,
      VoiceFacts!SessionUnavailable, Voice!StartFails, VoiceFacts!StartFails,
      Voice!MicOpens, VoiceFacts!MicOpens, Voice!AnswerArrives,
      VoiceFacts!AnswerArrives, Voice!PeerChanges, VoiceFacts!PeerChanges,
      Voice!MonitorOpens, VoiceFacts!MonitorOpens, Voice!MonitorDenied,
      VoiceFacts!MonitorDenied, Voice!MonitorFails, VoiceFacts!MonitorFails,
      Voice!PressStop, VoiceFacts!PressStop,
      Voice!ToggleCall, VoiceFacts!ToggleCall, Voice!Route, VoiceFacts!Route,
      Voice!SetRoute, VoiceFacts!SetRoute, Voice!Leave, VoiceFacts!Leave,
      Voice!realtime, VoiceFacts!realtime, Voice!CanStop, VoiceFacts!CanStop,
      Voice!Cleanup, VoiceFacts!Cleanup, Voice!InSession, VoiceFacts!InSession,
      Voice!room, VoiceFacts!room, Voice!monitors, VoiceFacts!monitors, Voice!Shows,
      VoiceFacts!Shows, Voice!Caught, VoiceFacts!Caught, Voice!Rerun,
      VoiceFacts!Rerun, Voice!MonitorStopped, VoiceFacts!MonitorStopped,
      Voice!Cancelled, VoiceFacts!Cancelled
<1>3. [Next]_vars => [VoiceFacts!Next]_(VoiceFacts!voiceVars)
  BY <1>2 DEF Next, OnStream, OnChat, OnDialog, OnList, OnVoice, OnTalk, vars, linkVars,
      chatVars, dialogVars, listVars, voiceVars, talkVars, VoiceFacts!voiceVars
<1> QED
  BY <1>1, <1>3, PTL DEF Spec, Init, VoiceFacts!Spec

\* The level monitor's microphone is open only while the voice room is on, whichever
\* prompts are answered after it was left; a run of its effect that failed after its
\* microphone opened is the exception that the property states.
THEOREM ConsoleMonitorReleased == Spec => []MonitorReleased
<1>1. VoiceFacts!MonitorReleased <=> MonitorReleased
  BY Zenon DEF MonitorReleased, Voice!MonitorReleased, VoiceFacts!MonitorReleased
<1> QED
  BY <1>1, VoiceRuns, VoiceFacts!MonitorIsReleased, PTL

\* The realtime microphone is open only on its route and within reach of the next
\* cleanup, for any number of starts none of which was lost sight of.
THEOREM ConsoleMicReachable == Spec => []MicReachable
<1>1. VoiceFacts!MicReachable <=> MicReachable
  BY Zenon DEF MicReachable, Voice!MicReachable, VoiceFacts!MicReachable
<1> QED
  BY <1>1, VoiceRuns, VoiceFacts!MicIsReachable, PTL

(* ---------------------------- the recognisers --------------------------- *)

RecTypes ==
    /\ rec \in [Rec -> [at : {"free", "live", "stopping"}, auto : BOOLEAN]]
    /\ recRef \in Rec \union {None}

\* What every step of the talk preserves. RoomSilent needs OneRecogniser: leaving the
\* room stops the recogniser of recRef and no other.
TalkInv == RecTypes /\ OneRecogniser /\ RoomSilent

\* Stopping the recogniser of recRef leaves none that listens.
LEMMA RefStoppedEndsAll ==
  ASSUME RecTypes, OneRecogniser
  PROVE  /\ Talk!RefStopped \in [Rec -> [at : {"free", "live", "stopping"}, auto : BOOLEAN]]
         /\ \A r \in Rec : Talk!RefStopped[r].at # "live"
<1>1. \A r \in Rec : rec[r].at = "live" => r = recRef
  BY DEF OneRecogniser, Talk!OneRecogniser, Talk!Live
<1> QED
  BY <1>1 DEF RecTypes, Talk!RefStopped, Talk!Live

\* startSpeechInput makes the recogniser it starts the only one that listens.
LEMMA StartListeningKeeps ==
  ASSUME RecTypes, OneRecogniser, NEW autoRestart \in BOOLEAN,
         Talk!StartListening(autoRestart), autoRestart => room'
  PROVE  RecTypes' /\ OneRecogniser' /\ (room' => RoomSilent')
           /\ (~autoRestart => RoomSilent')
<1>1. PICK r \in Rec :
          /\ rec' = [Talk!RefStopped EXCEPT ![r] = [at |-> "live", auto |-> autoRestart]]
          /\ recRef' = r
  BY DEF Talk!StartListening
<1>2. RecTypes'
  BY <1>1, RefStoppedEndsAll DEF RecTypes
<1>3. \A q \in Rec : rec'[q].at = "live" => q = r /\ rec'[q].auto = autoRestart
  BY <1>1, RefStoppedEndsAll
<1> QED
  BY <1>1, <1>2, <1>3 DEF OneRecogniser, Talk!OneRecogniser, RoomSilent, Talk!RoomSilent,
      Talk!Live

\* stop() of the recogniser of recRef makes the page silent.
LEMMA StopKeeps ==
  ASSUME RecTypes, OneRecogniser, rec' = Talk!RefStopped, recRef' = recRef
  PROVE  TalkInv'
<1>1. \A r \in Rec : rec'[r].at # "live"
  BY RefStoppedEndsAll
<1> QED
  BY <1>1, RefStoppedEndsAll
  DEF TalkInv, RecTypes, OneRecogniser, Talk!OneRecogniser, RoomSilent, Talk!RoomSilent,
      Talk!Live

\* A recogniser that ends, by itself or after stop(), and one that fails no longer
\* listen; the others go on.
LEMMA EndKeeps ==
  ASSUME TalkInv, NEW r \in Rec, recRef' = recRef, room' = room,
         \/ rec' = [rec EXCEPT ![r] = Talk!Idle]
         \/ rec' = [rec EXCEPT ![r].at = "stopping"]
  PROVE  TalkInv'
<1>1. rec \in [Rec -> [at : {"free", "live", "stopping"}, auto : BOOLEAN]]
  BY DEF TalkInv, RecTypes
<1>2. PICK after \in [at : {"free", "stopping"}, auto : BOOLEAN] :
        rec' = [rec EXCEPT ![r] = after]
  <2>1. CASE rec' = [rec EXCEPT ![r] = Talk!Idle]
    BY <2>1 DEF Talk!Idle
  <2>2. CASE rec' = [rec EXCEPT ![r].at = "stopping"]
    <3>1. [rec[r] EXCEPT !.at = "stopping"] \in [at : {"free", "stopping"}, auto : BOOLEAN]
      BY <1>1
    <3> QED
      BY <2>2, <3>1
  <2> QED
    BY <2>1, <2>2
<1>3. RecTypes'
  BY <1>1, <1>2 DEF TalkInv, RecTypes
<1>4. \A q \in Rec : rec'[q].at = "live" => rec'[q] = rec[q]
  BY <1>1, <1>2
<1> QED
  BY <1>3, <1>4 DEF TalkInv, RecTypes, OneRecogniser, Talk!OneRecogniser, RoomSilent,
      Talk!RoomSilent, Talk!Live

\* A step that leaves the recognisers and the room's switch alone, or turns the room
\* on.
LEMMA NoChangeKeeps ==
  ASSUME TalkInv, rec' = rec, recRef' = recRef, room' = room \/ room' = TRUE
  PROVE  TalkInv'
BY DEF TalkInv, RecTypes, OneRecogniser, Talk!OneRecogniser, RoomSilent,
    Talk!RoomSilent, Talk!Live

\* Every step of the talk preserves TalkInv.
LEMMA TalkStep ==
  ASSUME TalkInv, Talk!Next
  PROVE  TalkInv'
<1> USE DEF TalkInv
<1>1. CASE \E r \in Rec : Talk!StoppedEnds(r) \/ Talk!EndsItself(r) \/ Talk!ListenFails(r)
  BY <1>1, EndKeeps DEF Talk!StoppedEnds, Talk!EndsItself, Talk!Ended, Talk!ListenFails,
      Talk!page
<1>2. ASSUME NEW kind \in DOMAIN timers, Talk!Fire(kind)
      PROVE  TalkInv'
  <2>1. room' = room
    BY <1>2 DEF Talk!Fire, Talk!page
  <2>2. CASE Talk!Restarts(kind)
    BY <1>2, <2>1, <2>2, StartListeningKeeps DEF Talk!Fire, Talk!Restarts
  <2>3. CASE ~Talk!Restarts(kind)
    BY <1>2, <2>1, <2>3, NoChangeKeeps DEF Talk!Fire, Talk!listening
  <2> QED
    BY <2>2, <2>3
<1>3. CASE Talk!PressTalk
  BY <1>3, StopKeeps, StartListeningKeeps DEF Talk!PressTalk, Talk!StopListening
<1>4. CASE Talk!Reply \/ Talk!Begins \/ Talk!Finishes \/ Talk!StopSpeakingNow \/ Talk!SyncRef
  BY <1>4, NoChangeKeeps DEF Talk!Reply, Talk!Begins, Talk!Finishes, Talk!StopSpeakingNow,
      Talk!SyncRef, Talk!page, Talk!listening
<1>5. CASE Talk!Speak
  BY <1>5, StopKeeps, NoChangeKeeps DEF Talk!Speak, Talk!StopListening, Talk!page,
      Talk!listening
<1>6. CASE Talk!EnterRoom \/ Talk!ToggleTts
  BY <1>6, NoChangeKeeps DEF Talk!EnterRoom, Talk!ToggleTts, Talk!listening
<1>7. CASE Talk!LeaveRoom \/ Talk!SetRoute \/ Talk!Leave
  BY <1>7, StopKeeps DEF Talk!LeaveRoom, Talk!SetRoute, Talk!Leave, Talk!StopListening
<1> QED
  BY <1>1, <1>2, <1>3, <1>4, <1>5, <1>6, <1>7 DEF Talk!Next

\* No step of the console disturbs TalkInv.
LEMMA TalkRuns == Spec => []TalkInv
<1>1. Init => TalkInv
  BY DEF Init, Talk!Init, TalkInv, RecTypes, OneRecogniser, Talk!OneRecogniser, RoomSilent,
      Talk!RoomSilent, Talk!Live, Talk!Idle
<1>2. TalkInv /\ [Next]_vars => TalkInv'
  BY TalkStep, NoChangeKeeps DEF Next, OnStream, OnChat, OnDialog, OnList, OnVoice, OnTalk,
      vars, linkVars, chatVars, dialogVars, listVars, voiceVars, talkVars
<1> QED
  BY <1>1, <1>2, PTL DEF Spec

\* The recogniser the page can stop is the only one that listens, for any number of
\* recognisers, replies and timers.
THEOREM ConsoleOneRecogniser == Spec => []OneRecogniser
BY TalkRuns, PTL DEF TalkInv

\* Outside of the voice room no recogniser listens that a timer started, for any
\* number of timers pending when it was left.
THEOREM ConsoleRoomSilent == Spec => []RoomSilent
BY TalkRuns, PTL DEF TalkInv


\* The types of the talk that RecTypes leaves out, without the bounds.
TalkTypes ==
    /\ talkMounted \in BOOLEAN /\ browser \in BOOLEAN /\ room \in BOOLEAN /\ tts \in BOOLEAN
    /\ isListening \in BOOLEAN /\ isSpeaking \in BOOLEAN /\ speakRef \in BOOLEAN
    /\ pause \in BOOLEAN /\ noRestart \in BOOLEAN
    /\ timers \in [{"end", "other"} -> Nat]
    /\ utterance \in {"none", "queued", "heard"} /\ cancelled \in Nat
    /\ reply \in 0 .. MaxReplies /\ said \in 0 .. MaxReplies

\* What is under way: recognisers, and what else may end in one.
Busy == {r \in Rec : rec[r] # Talk!Idle}
Coming ==
    timers["end"] + timers["other"] + cancelled
    + (IF utterance = "none" THEN 0 ELSE 1) + (IF reply = said THEN 0 ELSE 1)

\* The bound on it is never met by what nobody can hold back: a restart, an answer to a
\* cancelled utterance, the effect of a reply.
FitsIn == Cardinality(Busy) + Coming <= Cardinality(Rec)

RoomInv == RecTypes /\ TalkTypes /\ FitsIn

LEMMA BusyIsFinite ==
    IsFiniteSet(Busy) /\ Cardinality(Busy) \in Nat /\ Cardinality(Rec) \in Nat
<1>1. Busy \in SUBSET Rec /\ IsFiniteSet(Rec)
  BY ConsoleAssumption DEF Busy
<1> QED
  BY <1>1, FS_Subset, FS_CardinalityType

LEMMA UnderWayIs ==
  ASSUME TalkTypes
  PROVE  Talk!UnderWay = Cardinality(Busy) + Coming /\ Coming \in Nat
<1>1. Talk!UnderWay = Cardinality(Busy) + timers["end"] + timers["other"] + cancelled
        + (IF utterance = "none" THEN 0 ELSE 1) + (IF reply = said THEN 0 ELSE 1)
  BY DEF Talk!UnderWay, Busy, Talk!Cardinality, Cardinality
<1>2. /\ timers["end"] \in Nat /\ timers["other"] \in Nat /\ cancelled \in Nat
      /\ Cardinality(Busy) \in Nat
  BY BusyIsFinite DEF TalkTypes
<1> QED
  BY <1>1, <1>2 DEF Coming

\* stop() frees no recogniser, and none that is free is stopped.
LEMMA StoppedIsBusy ==
  ASSUME RecTypes, NEW q \in Rec
  PROVE  /\ rec[q].at = "live" => rec[q] # Talk!Idle
         /\ [rec[q] EXCEPT !.at = "stopping"] # Talk!Idle
         /\ Talk!RefStopped[q] = Talk!Idle <=> rec[q] = Talk!Idle
<1>1. rec[q] \in [at : {"free", "live", "stopping"}, auto : BOOLEAN]
  BY DEF RecTypes
<1>2. Talk!Idle.at = "free"
  BY DEF Talk!Idle
<1>3. rec[q].at = "live" => rec[q] # Talk!Idle
  BY <1>2
<1>4. [rec[q] EXCEPT !.at = "stopping"] # Talk!Idle
  <2>1. [rec[q] EXCEPT !.at = "stopping"].at = "stopping"
    BY <1>1
  <2> QED
    BY <1>2, <2>1
<1>5. \/ Talk!RefStopped[q] = rec[q]
      \/ rec[q].at = "live" /\ Talk!RefStopped[q] = [rec[q] EXCEPT !.at = "stopping"]
  BY DEF Talk!RefStopped, Talk!Live
<1> QED
  BY <1>3, <1>4, <1>5

\* A recogniser that is started was free, one that ends was not, and telling one to stop
\* frees none.
LEMMA BusyStarts ==
  ASSUME RecTypes, NEW autoRestart \in BOOLEAN, Talk!StartListening(autoRestart)
  PROVE  RecTypes' /\ Cardinality(Busy') = Cardinality(Busy) + 1
<1>1. PICK r \in Rec :
        /\ rec[r] = Talk!Idle
        /\ rec' = [Talk!RefStopped EXCEPT ![r] = [at |-> "live", auto |-> autoRestart]]
        /\ recRef' = r
  BY DEF Talk!StartListening
<1>2. \A q \in Rec : rec'[q] = IF q = r THEN [at |-> "live", auto |-> autoRestart]
                               ELSE Talk!RefStopped[q]
  BY <1>1 DEF Talk!RefStopped
<1>3. \A q \in Rec : Talk!RefStopped[q] = Talk!Idle <=> rec[q] = Talk!Idle
  BY StoppedIsBusy
<1>4. Busy' = Busy \union {r} /\ r \notin Busy
  BY <1>1, <1>2, <1>3 DEF Busy, Talk!Idle
<1>5. RecTypes'
  <2>1. Talk!RefStopped \in [Rec -> [at : {"free", "live", "stopping"}, auto : BOOLEAN]]
    BY DEF Talk!RefStopped, RecTypes
  <2> QED
    BY <1>1, <2>1 DEF RecTypes
<1> QED
  BY <1>4, <1>5, BusyIsFinite, FS_AddElement

LEMMA BusyEnds ==
  ASSUME RecTypes, NEW r \in Rec, rec[r] # Talk!Idle, rec' = [rec EXCEPT ![r] = Talk!Idle],
         recRef' = recRef
  PROVE  RecTypes' /\ Cardinality(Busy') = Cardinality(Busy) - 1
<1>1. Busy' = Busy \ {r} /\ r \in Busy
  BY DEF Busy, RecTypes
<1>2. RecTypes'
  BY DEF RecTypes, Talk!Idle
<1> QED
  BY <1>1, <1>2, BusyIsFinite, FS_RemoveElement

LEMMA BusyStays ==
  ASSUME RecTypes, recRef' = recRef,
         \/ rec' = rec
         \/ rec' = Talk!RefStopped
         \/ \E r \in Rec : rec[r].at = "live" /\ rec' = [rec EXCEPT ![r].at = "stopping"]
  PROVE  RecTypes' /\ Busy' = Busy
<1>1. CASE rec' = rec
  BY <1>1 DEF RecTypes, Busy
<1>2. CASE rec' = Talk!RefStopped
  <2>1. \A q \in Rec : Talk!RefStopped[q] = Talk!Idle <=> rec[q] = Talk!Idle
    BY StoppedIsBusy
  <2>2. Talk!RefStopped \in [Rec -> [at : {"free", "live", "stopping"}, auto : BOOLEAN]]
    BY DEF Talk!RefStopped, RecTypes
  <2> QED
    BY <1>2, <2>1, <2>2 DEF RecTypes, Busy
<1>3. ASSUME NEW r \in Rec, rec[r].at = "live", rec' = [rec EXCEPT ![r].at = "stopping"]
      PROVE  RecTypes' /\ Busy' = Busy
  <2>1. /\ rec'[r].at = "stopping" /\ \A q \in Rec : q # r => rec'[q] = rec[q]
        /\ rec' \in [Rec -> [at : {"free", "live", "stopping"}, auto : BOOLEAN]]
    BY <1>3 DEF RecTypes
  <2>2. \A q \in Rec : rec'[q] # Talk!Idle <=> rec[q] # Talk!Idle
    <3>1. rec'[r] = [rec[r] EXCEPT !.at = "stopping"]
      BY <1>3 DEF RecTypes
    <3>2. rec'[r] # Talk!Idle /\ rec[r] # Talk!Idle
      BY <1>3, <3>1, StoppedIsBusy
    <3> QED
      BY <2>1, <3>2
  <2> QED
    BY <2>1, <2>2 DEF RecTypes, Busy
<1> QED
  BY <1>1, <1>2, <1>3


\* The numbers of a state, for the solver.
LEMMA Numbers ==
  ASSUME TalkTypes
  PROVE  /\ timers["end"] \in Nat /\ timers["other"] \in Nat /\ cancelled \in Nat
         /\ Cardinality(Busy) \in Nat /\ Cardinality(Rec) \in Nat
         /\ DOMAIN timers = {"end", "other"}
  BY BusyIsFinite DEF TalkTypes

\* One more timer of a kind, and one of a kind that fires.
LEMMA TimerCounts ==
  ASSUME TalkTypes, NEW kind \in {"end", "other"}
  PROVE  /\ Talk!Later(kind) => /\ timers' \in [{"end", "other"} -> Nat]
                                /\ timers'["end"] + timers'["other"]
                                     = timers["end"] + timers["other"] + 1
         /\ timers[kind] > 0 /\ timers' = [timers EXCEPT ![kind] = @ - 1]
              => /\ timers' \in [{"end", "other"} -> Nat]
                 /\ timers'["end"] + timers'["other"] = timers["end"] + timers["other"] - 1
<1>1. timers \in [{"end", "other"} -> Nat]
  BY DEF TalkTypes
<1>2. kind = "end" \/ kind = "other"
  OBVIOUS
<1>3. ASSUME Talk!Later(kind)
      PROVE  /\ timers' \in [{"end", "other"} -> Nat]
             /\ timers'["end"] + timers'["other"] = timers["end"] + timers["other"] + 1
  <2>1. timers' = [timers EXCEPT ![kind] = timers[kind] + 1]
    BY <1>1, <1>3 DEF Talk!Later
  <2> QED
    BY <1>1, <1>2, <2>1
<1>4. ASSUME timers[kind] > 0, timers' = [timers EXCEPT ![kind] = @ - 1]
      PROVE  /\ timers' \in [{"end", "other"} -> Nat]
             /\ timers'["end"] + timers'["other"] = timers["end"] + timers["other"] - 1
  BY <1>1, <1>2, <1>4
<1> QED
  BY <1>3, <1>4

\* An utterance that is cancelled reports it later: nothing is lost and nothing added.
LEMMA CancelCounts ==
  ASSUME TalkTypes, Talk!Cancel, NEW next \in {"none", "queued"}, utterance' = next
  PROVE  /\ cancelled' \in Nat /\ utterance' \in {"none", "queued", "heard"}
         /\ cancelled' + (IF utterance' = "none" THEN 0 ELSE 1)
              = cancelled + (IF utterance = "none" THEN 0 ELSE 1)
                  + (IF next = "none" THEN 0 ELSE 1)
<1>1. cancelled \in Nat
  BY DEF TalkTypes
<1> QED
  BY <1>1 DEF Talk!Cancel

Speaking == cancelled + (IF utterance = "none" THEN 0 ELSE 1)
Unsaid == IF reply = said THEN 0 ELSE 1

LEMMA SpeakingCounts == TalkTypes => Speaking \in Nat
  BY DEF TalkTypes, Speaking

\* What a step may add, when people do it, and what it must not, when nobody does.
LEMMA StillFits ==
  ASSUME TalkTypes, TalkTypes', FitsIn, NEW b \in Int, NEW t \in Int, NEW u \in Int,
         NEW n \in Int,
         Cardinality(Busy') = Cardinality(Busy) + b,
         timers'["end"] + timers'["other"] = timers["end"] + timers["other"] + t,
         Speaking' = Speaking + u, Unsaid' = Unsaid + n,
         b + t + u + n <= 0 \/ (Talk!HasRoom /\ b + t + u + n <= 1)
  PROVE  FitsIn'
<1>1. /\ timers["end"] \in Nat /\ timers["other"] \in Nat /\ Speaking \in Nat /\ Unsaid \in Nat
      /\ Cardinality(Busy) \in Nat /\ Cardinality(Rec) \in Nat
  BY Numbers DEF Speaking, Unsaid
<1>2. timers'["end"] \in Nat /\ timers'["other"] \in Nat /\ Speaking' \in Nat /\ Unsaid' \in Nat
  <2>1. timers' \in [{"end", "other"} -> Nat] /\ cancelled' \in Nat
    BY DEF TalkTypes
  <2>2. Speaking' \in Nat
    <3>1. TalkTypes' => (Speaking \in Nat)'
      BY SpeakingCounts, PTL
    <3> QED
      BY <3>1
  <2>3. Unsaid' \in Nat
    BY DEF Unsaid
  <2> QED
    BY <2>1, <2>2, <2>3
<1>3. Coming = timers["end"] + timers["other"] + Speaking + Unsaid
  BY <1>1, Numbers DEF Coming, Speaking, Unsaid
<1>4. Coming' = timers'["end"] + timers'["other"] + Speaking' + Unsaid'
  <2>1. cancelled' \in Nat
    BY DEF TalkTypes
  <2> QED
    BY <1>2, <2>1 DEF Coming, Speaking, Unsaid
<1>5. Talk!HasRoom => Cardinality(Busy) + Coming < Cardinality(Rec)
  BY UnderWayIs DEF Talk!HasRoom, Talk!Cardinality, Cardinality
<1>6. Cardinality(Busy') + Coming' = Cardinality(Busy) + Coming + (b + t + u + n)
  <2>1. Coming' = Coming + (t + u + n)
    BY <1>1, <1>2, <1>3, <1>4
  <2> QED
    BY <1>1, <1>2, <1>3, <2>1
<1> QED
  BY <1>1, <1>2, <1>3, <1>5, <1>6 DEF FitsIn

\* Every step of the talk keeps the types and the bound.
LEMMA RoomStep ==
  ASSUME RoomInv, Talk!Next
  PROVE  RoomInv'
<1> USE DEF RoomInv
<1>1. timers \in [{"end", "other"} -> Nat]
  BY DEF TalkTypes
<1>2. ASSUME NEW r \in Rec, Talk!StoppedEnds(r) \/ Talk!EndsItself(r) PROVE RoomInv'
  <2>1. Talk!Ended(r) /\ rec[r] # Talk!Idle
    BY <1>2 DEF Talk!StoppedEnds, Talk!EndsItself, Talk!Idle
  <2>2. RecTypes' /\ Cardinality(Busy') = Cardinality(Busy) + (-1)
    BY <2>1, BusyEnds, Numbers DEF Talk!Ended
  <2>3. Talk!Later("end") \/ UNCHANGED timers
    BY <2>1 DEF Talk!Ended
  <2>4. /\ isListening' = FALSE
        /\ UNCHANGED <<talkMounted, browser, room, tts, noRestart, isSpeaking, speakRef, pause,
                       utterance, cancelled, reply, said>>
    BY <2>1 DEF Talk!Ended, Talk!page, Talk!speaking
  <2>5. TalkTypes'
    <3>1. timers' \in [{"end", "other"} -> Nat]
      BY <1>1, <2>3, TimerCounts
    <3> QED
      BY <2>4, <3>1 DEF TalkTypes
  <2>6. Speaking' = Speaking + 0 /\ Unsaid' = Unsaid + 0
    BY <2>4, Numbers DEF Speaking, Unsaid
  <2>7. CASE Talk!Later("end")
    <3>1. timers'["end"] + timers'["other"] = timers["end"] + timers["other"] + 1
      BY <2>7, TimerCounts
    <3> QED
      BY <2>2, <2>5, <2>6, <3>1, StillFits
  <2>8. CASE UNCHANGED timers
    <3>1. timers'["end"] + timers'["other"] = timers["end"] + timers["other"] + 0
      BY <2>8, Numbers
    <3> QED
      BY <2>2, <2>5, <2>6, <3>1, StillFits
  <2> QED
    BY <2>3, <2>7, <2>8
<1>3. ASSUME NEW r \in Rec, Talk!ListenFails(r) PROVE RoomInv'
  <2>1. RecTypes' /\ Busy' = Busy
    BY <1>3, BusyStays DEF Talk!ListenFails
  <2>2. /\ isListening' = FALSE
        /\ UNCHANGED <<talkMounted, browser, room, tts, noRestart, isSpeaking, speakRef, pause,
                       timers, utterance, cancelled, reply, said>>
    BY <1>3 DEF Talk!ListenFails, Talk!page, Talk!speaking
  <2> QED
    BY <2>1, <2>2 DEF TalkTypes, FitsIn, Coming
<1>4. ASSUME NEW kind \in {"end", "other"}, Talk!Fire(kind) PROVE RoomInv'
  <2>1. /\ timers' \in [{"end", "other"} -> Nat]
        /\ timers'["end"] + timers'["other"] = timers["end"] + timers["other"] + (-1)
    BY <1>1, <1>4, TimerCounts, Numbers DEF Talk!Fire
  <2>2. UNCHANGED <<talkMounted, browser, room, tts, isSpeaking, speakRef, pause, utterance,
                    cancelled, reply, said>>
    BY <1>4 DEF Talk!Fire, Talk!page, Talk!speaking
  <2>3. Speaking' = Speaking + 0 /\ Unsaid' = Unsaid + 0
    BY <2>2, Numbers DEF Speaking, Unsaid
  <2>4. CASE Talk!StartListening(TRUE)
    <3>1. RecTypes' /\ Cardinality(Busy') = Cardinality(Busy) + 1
      BY <2>4, BusyStarts
    <3>2. TalkTypes'
      BY <2>1, <2>2, <2>4 DEF TalkTypes, Talk!StartListening
    <3> QED
      BY <2>1, <2>3, <3>1, <3>2, StillFits
  <2>5. CASE UNCHANGED <<rec, recRef, isListening, noRestart>>
    <3>1. RecTypes' /\ Cardinality(Busy') = Cardinality(Busy) + 0
      BY <2>5, BusyStays, Numbers
    <3>2. TalkTypes'
      BY <2>1, <2>2, <2>5 DEF TalkTypes
    <3> QED
      BY <2>1, <2>3, <3>1, <3>2, StillFits
  <2> QED
    BY <1>4, <2>4, <2>5 DEF Talk!Fire, Talk!listening
<1>5. CASE Talk!PressTalk
  <2>1. UNCHANGED <<talkMounted, browser, room, tts, isSpeaking, speakRef, pause, timers,
                    utterance, cancelled, reply, said>> /\ Talk!HasRoom
    BY <1>5 DEF Talk!PressTalk, Talk!page, Talk!speaking
  <2>2. /\ Speaking' = Speaking + 0 /\ Unsaid' = Unsaid + 0
        /\ timers'["end"] + timers'["other"] = timers["end"] + timers["other"] + 0
    BY <2>1, Numbers DEF Speaking, Unsaid
  <2>3. CASE Talk!StartListening(FALSE)
    <3>1. RecTypes' /\ Cardinality(Busy') = Cardinality(Busy) + 1
      BY <2>3, BusyStarts
    <3>2. TalkTypes'
      BY <2>1, <2>3 DEF TalkTypes, Talk!StartListening
    <3> QED
      BY <2>1, <2>2, <3>1, <3>2, StillFits
  <2>4. CASE Talk!StopListening /\ noRestart' = TRUE
    <3>1. RecTypes' /\ Cardinality(Busy') = Cardinality(Busy) + 0
      BY <2>4, BusyStays, Numbers DEF Talk!StopListening
    <3>2. TalkTypes'
      BY <2>1, <2>4 DEF TalkTypes, Talk!StopListening
    <3> QED
      BY <2>1, <2>2, <3>1, <3>2, StillFits
  <2> QED
    BY <1>5, <2>3, <2>4 DEF Talk!PressTalk
<1>6. CASE Talk!Reply
  <2>1. /\ UNCHANGED <<talkMounted, browser, room, tts, rec, recRef, isListening, noRestart,
                       isSpeaking, speakRef, pause, timers, utterance, cancelled, said>>
        /\ Talk!HasRoom /\ reply' = reply + 1 /\ reply < MaxReplies
    BY <1>6 DEF Talk!Reply, Talk!page, Talk!listening, Talk!speaking
  <2>2. RecTypes' /\ Cardinality(Busy') = Cardinality(Busy) + 0
    BY <2>1, BusyStays, Numbers
  <2>3. TalkTypes'
    BY <2>1, ConsoleAssumption DEF TalkTypes
  <2>4. /\ Speaking' = Speaking + 0
        /\ timers'["end"] + timers'["other"] = timers["end"] + timers["other"] + 0
    BY <2>1, Numbers DEF Speaking
  <2>5. \E n \in {0, 1, -1} : Unsaid' = Unsaid + n
    BY DEF Unsaid
  <2> QED
    BY <2>1, <2>2, <2>3, <2>4, <2>5, StillFits
<1>7. CASE Talk!Speak
  <2>1. /\ reply # said /\ said' = reply /\ Talk!Cancel /\ utterance' = "queued"
        /\ UNCHANGED <<talkMounted, browser, room, tts, isSpeaking, speakRef, timers, reply>>
        /\ \/ Talk!StopListening /\ noRestart' = TRUE /\ pause' = TRUE
           \/ UNCHANGED <<rec, recRef, isListening, noRestart, pause>>
    BY <1>7 DEF Talk!Speak, Talk!page, Talk!listening
  <2>2. RecTypes' /\ Cardinality(Busy') = Cardinality(Busy) + 0
    BY <2>1, BusyStays, Numbers DEF Talk!StopListening
  <2>3. /\ cancelled' \in Nat /\ utterance' \in {"none", "queued", "heard"}
        /\ Speaking' = Speaking + 1
    BY <2>1, CancelCounts DEF Speaking
  <2>4. isListening' \in BOOLEAN /\ noRestart' \in BOOLEAN /\ pause' \in BOOLEAN
    BY <2>1 DEF TalkTypes, Talk!StopListening
  <2>5. TalkTypes'
    <3>1. /\ talkMounted' \in BOOLEAN /\ browser' \in BOOLEAN
          /\ room' \in BOOLEAN /\ tts' \in BOOLEAN
      BY <2>1 DEF TalkTypes
    <3>2. /\ isSpeaking' \in BOOLEAN /\ speakRef' \in BOOLEAN
          /\ timers' \in [{"end", "other"} -> Nat]
      BY <2>1 DEF TalkTypes
    <3>3. reply' \in 0 .. MaxReplies /\ said' \in 0 .. MaxReplies
      BY <2>1 DEF TalkTypes
    <3> QED
      BY <2>3, <2>4, <3>1, <3>2, <3>3 DEF TalkTypes
  <2>6. /\ Unsaid' = Unsaid + (-1)
        /\ timers'["end"] + timers'["other"] = timers["end"] + timers["other"] + 0
    BY <2>1, Numbers DEF Unsaid
  <2> QED
    BY <2>2, <2>3, <2>5, <2>6, StillFits
<1>8. CASE Talk!Begins \/ Talk!SyncRef
  <2>1. /\ UNCHANGED <<talkMounted, browser, room, tts, rec, recRef, isListening, noRestart,
                       pause, timers, cancelled, reply, said>>
        /\ isSpeaking' \in {isSpeaking, TRUE} /\ speakRef' \in {speakRef, isSpeaking}
        /\ utterance' \in {utterance, "heard"} /\ (utterance' = "none" <=> utterance = "none")
    BY <1>8 DEF Talk!Begins, Talk!SyncRef, Talk!page, Talk!listening
  <2>2. RecTypes' /\ Busy' = Busy
    BY <2>1, BusyStays
  <2>3. TalkTypes'
    <3>1. /\ isSpeaking' \in BOOLEAN /\ speakRef' \in BOOLEAN
          /\ utterance' \in {"none", "queued", "heard"}
      BY <2>1 DEF TalkTypes
    <3> QED
      BY <2>1, <3>1 DEF TalkTypes
  <2> QED
    BY <2>1, <2>2, <2>3 DEF FitsIn, Coming
<1>9. CASE Talk!Finishes
  <2>1. /\ UNCHANGED <<talkMounted, browser, room, tts, rec, recRef, isListening, noRestart,
                       speakRef, reply, said>>
        /\ isSpeaking' = FALSE /\ pause' = FALSE
        /\ Talk!Later("other") \/ UNCHANGED timers
        /\ \/ utterance # "none" /\ utterance' = "none" /\ UNCHANGED cancelled
           \/ cancelled > 0 /\ cancelled' = cancelled - 1 /\ UNCHANGED utterance
    BY <1>9 DEF Talk!Finishes, Talk!Resume, Talk!page, Talk!listening
  <2>2. RecTypes' /\ Cardinality(Busy') = Cardinality(Busy) + 0
    BY <2>1, BusyStays, Numbers
  <2>3. cancelled' \in Nat /\ utterance' \in {"none", "queued", "heard"}
    BY <2>1 DEF TalkTypes
  <2>4. Speaking' = Speaking + (-1)
    BY <2>1, Numbers DEF Speaking
  <2>5. TalkTypes'
    BY <1>1, <2>1, <2>3, TimerCounts DEF TalkTypes
  <2>6. Unsaid' = Unsaid + 0
    BY <2>1 DEF Unsaid
  <2>7. \E t \in {0, 1} : timers'["end"] + timers'["other"] = timers["end"] + timers["other"] + t
    BY <2>1, TimerCounts, Numbers
  <2> QED
    BY <2>2, <2>4, <2>5, <2>6, <2>7, StillFits
<1>10. CASE Talk!StopSpeakingNow \/ Talk!EnterRoom
  <2>1. /\ UNCHANGED <<talkMounted, browser, tts, rec, recRef, isListening, noRestart,
                       reply, said>> /\ Talk!HasRoom
        /\ room' \in {room, TRUE} /\ isSpeaking' \in {isSpeaking, FALSE}
        /\ pause' \in {pause, FALSE} /\ speakRef' \in {speakRef, isSpeaking}
        /\ Talk!Later("other") \/ UNCHANGED timers
        /\ \/ Talk!Cancel /\ utterance' = "none"
           \/ UNCHANGED <<cancelled, utterance>>
    BY <1>10 DEF Talk!StopSpeakingNow, Talk!EnterRoom, Talk!Silence, Talk!Resume, Talk!page,
                 Talk!listening
  <2>2. RecTypes' /\ Cardinality(Busy') = Cardinality(Busy) + 0
    BY <2>1, BusyStays, Numbers
  <2>3. /\ cancelled' \in Nat /\ utterance' \in {"none", "queued", "heard"}
        /\ Speaking' = Speaking + 0
    BY <2>1, CancelCounts, Numbers DEF TalkTypes, Speaking
  <2>4. TalkTypes'
    <3>1. room' \in BOOLEAN /\ isSpeaking' \in BOOLEAN /\ pause' \in BOOLEAN /\ speakRef' \in BOOLEAN
      BY <2>1 DEF TalkTypes
    <3>2. timers' \in [{"end", "other"} -> Nat]
      BY <1>1, <2>1, TimerCounts
    <3> QED
      BY <2>1, <2>3, <3>1, <3>2 DEF TalkTypes
  <2>5. Unsaid' = Unsaid + 0
    BY <2>1 DEF Unsaid
  <2>6. \E t \in {0, 1} : timers'["end"] + timers'["other"] = timers["end"] + timers["other"] + t
    BY <2>1, TimerCounts, Numbers
  <2> QED
    BY <2>1, <2>2, <2>3, <2>4, <2>5, <2>6, StillFits
<1>11. CASE Talk!LeaveRoom \/ Talk!ToggleTts \/ Talk!SetRoute \/ Talk!Leave
  <2>1. /\ UNCHANGED <<timers, reply, said>>
        /\ talkMounted' \in {talkMounted, FALSE} /\ browser' \in {browser, ~browser}
        /\ room' \in {room, FALSE} /\ tts' \in {tts, ~tts}
        /\ isListening' \in {isListening, FALSE} /\ noRestart' \in {noRestart, TRUE}
        /\ isSpeaking' \in {isSpeaking, FALSE} /\ pause' \in {pause, FALSE}
        /\ recRef' = recRef /\ rec' \in {rec, Talk!RefStopped}
        /\ \/ Talk!Cancel /\ utterance' = "none"
           \/ UNCHANGED <<cancelled, utterance>>
    BY <1>11 DEF Talk!LeaveRoom, Talk!ToggleTts, Talk!SetRoute, Talk!Leave,
                 Talk!StopListening, Talk!Silence, Talk!listening, TalkTypes
  <2>2. speakRef' \in BOOLEAN
    BY <1>11, <2>1 DEF Talk!LeaveRoom, Talk!ToggleTts, Talk!SetRoute, Talk!Leave, TalkTypes
  <2>3. RecTypes' /\ Cardinality(Busy') = Cardinality(Busy) + 0
    BY <2>1, BusyStays, Numbers
  <2>4. /\ cancelled' \in Nat /\ utterance' \in {"none", "queued", "heard"}
        /\ Speaking' = Speaking + 0
    BY <2>1, CancelCounts, Numbers DEF TalkTypes, Speaking
  <2>5. TalkTypes'
    <3>1. talkMounted' \in BOOLEAN /\ browser' \in BOOLEAN
      BY <2>1 DEF TalkTypes
    <3>2. room' \in BOOLEAN /\ tts' \in BOOLEAN
      BY <2>1 DEF TalkTypes
    <3>3. isListening' \in BOOLEAN /\ noRestart' \in BOOLEAN
      BY <2>1 DEF TalkTypes
    <3>4. isSpeaking' \in BOOLEAN /\ pause' \in BOOLEAN
      BY <2>1 DEF TalkTypes
    <3>5. timers' \in [{"end", "other"} -> Nat] /\ reply' \in 0 .. MaxReplies /\ said' \in 0 .. MaxReplies
      BY <2>1 DEF TalkTypes
    <3> QED
      BY <2>2, <2>4, <3>1, <3>2, <3>3, <3>4, <3>5 DEF TalkTypes
  <2>6. /\ Unsaid' = Unsaid + 0
        /\ timers'["end"] + timers'["other"] = timers["end"] + timers["other"] + 0
    BY <2>1, Numbers DEF Unsaid
  <2> QED
    BY <2>3, <2>4, <2>5, <2>6, StillFits
<1>12. DOMAIN timers = {"end", "other"}
  BY <1>1
<1> QED
  BY <1>2, <1>3, <1>4, <1>5, <1>6, <1>7, <1>8, <1>9, <1>10, <1>11, <1>12 DEF Talk!Next

\* No step of the console disturbs RoomInv.
LEMMA RoomRuns == Spec => []RoomInv
<1>1. Init => RoomInv
  <2> SUFFICES ASSUME Init PROVE RoomInv
    OBVIOUS
  <2>1. RecTypes /\ TalkTypes
    <3>1. reply \in 0 .. MaxReplies /\ 0 \in 0 .. MaxReplies
      <4>1. reply \in 0 .. 1 /\ MaxReplies \in Nat /\ MaxReplies # 0
        BY ConsoleAssumption DEF Init, Talk!Init
      <4> QED
        BY <4>1
    <3>2. timers \in [{"end", "other"} -> Nat]
      BY DEF Init, Talk!Init
    <3>3. RecTypes
      BY DEF Init, Talk!Init, RecTypes, Talk!Idle
    <3> QED
      BY <3>1, <3>2, <3>3 DEF Init, Talk!Init, TalkTypes
  <2>2. Busy = {}
    BY DEF Init, Talk!Init, Busy
  <2>3. Cardinality(Busy) = 0 /\ Coming \in {0, 1}
    BY <2>2, FS_EmptySet DEF Init, Talk!Init, Coming
  <2>4. Cardinality(Rec) \in Nat \ {0}
    BY ConsoleAssumption, BusyIsFinite, FS_EmptySet
  <2> QED
    BY <2>1, <2>3, <2>4 DEF RoomInv, FitsIn
<1>2. RoomInv /\ [Next]_vars => RoomInv'
  <2> SUFFICES ASSUME RoomInv, [Next]_vars PROVE RoomInv'
    OBVIOUS
  <2>1. CASE OnTalk(Talk!Next)
    BY <2>1, RoomStep DEF OnTalk
  <2>2. CASE ~OnTalk(Talk!Next)
    <3>1. UNCHANGED talkVars
      BY <2>2 DEF Next, OnStream, OnChat, OnDialog, OnList, OnVoice, vars
    <3> QED
      BY <3>1 DEF talkVars, RoomInv, RecTypes, TalkTypes, FitsIn, Coming, Busy
  <2> QED
    BY <2>1, <2>2
<1> QED
  BY <1>1, <1>2, PTL DEF Spec

(* ------------------------------- the types ------------------------------ *)

\* What is shown is well typed, on every page and for any bounds: the chat's cursor is a
\* time that was or will be stamped, and a restart always finds a free recogniser.
THEOREM ConsoleTypeCorrect == Spec => []TypeOK
<1>1. Spec => []Link!TypeOK
  <2>1. LinkFacts!LinkInv => Link!TypeOK
    BY DEF LinkFacts!LinkInv, LinkFacts!TypeOK, Link!TypeOK, LinkFacts!Run, Link!Run,
       LinkFacts!Phase, Link!Phase
  <2> QED
    BY <2>1, LinkRuns, LinkFacts!LinkInvariant, PTL
<1>2. Spec => []Chat!TypeOK
  <2>1. ChatFacts!TypeOK => Chat!TypeOK
    BY Zenon DEF ChatFacts!TypeOK, Chat!TypeOK, ChatFacts!Msg, Chat!Msg, ChatFacts!Idle,
        Chat!Idle, ChatFacts!Sending, Chat!Sending
  <2>2. ChatMsgs \in Nat /\ MaxDrops \in Nat
    BY ConsoleAssumption
  <2> QED
    BY <2>1, <2>2, ChatRuns, ChatFacts!ChatTypeCorrect, PTL
<1>3. Spec => []Dialog!TypeOK
  <2>1. DialogFacts!TypeOK => Dialog!TypeOK
    BY Zenon DEF DialogFacts!TypeOK, Dialog!TypeOK, DialogFacts!Row, Dialog!Row,
        DialogFacts!Reply, Dialog!Reply, DialogFacts!Update, Dialog!Update
  <2> QED
    BY <2>1, DialogRuns, DialogFacts!DialogTypeCorrect, PTL
<1>4. Spec => []Voice!TypeOK
  <2>1. VoiceFacts!TypeOK => Voice!TypeOK
    BY Zenon DEF VoiceFacts!TypeOK, Voice!TypeOK, VoiceFacts!Route, Voice!Route
  <2> QED
    BY <2>1, VoiceRuns, VoiceFacts!VoiceTypeCorrect, PTL
<1>5. RoomInv => Talk!TypeOK
  <2> SUFFICES ASSUME RoomInv PROVE Talk!TypeOK
    OBVIOUS
  <2>1. /\ timers["end"] <= Cardinality(Rec) /\ timers["other"] <= Cardinality(Rec)
        /\ cancelled <= Cardinality(Rec)
    BY Numbers DEF RoomInv, FitsIn, Coming
  <2>2. Talk!Cardinality(Rec) = Cardinality(Rec)
    BY DEF Talk!Cardinality, Cardinality
  <2>3. /\ timers \in [{"end", "other"} -> 0 .. Cardinality(Rec)]
        /\ cancelled \in 0 .. Cardinality(Rec)
    BY <2>1, Numbers DEF RoomInv, TalkTypes
  <2> QED
    BY <2>2, <2>3 DEF RoomInv, RecTypes, TalkTypes, Talk!TypeOK
<1>6. ListInv => List!TypeOK
  BY DEF ListInv
<1> DEFINE ViewOK == view \in {"stream", "chat", "onboarding", "list", "voice", "talk"}
<1>7. Spec => []ViewOK
  <2>1. Init => ViewOK
    BY DEF Init
  <2>2. ViewOK /\ [Next]_vars => ViewOK'
    BY DEF Next, OnStream, OnChat, OnDialog, OnList, OnVoice, OnTalk, vars
  <2> QED
    BY <2>1, <2>2, PTL DEF Spec
<1>8. ViewOK /\ Link!TypeOK /\ Chat!TypeOK /\ Dialog!TypeOK /\ List!TypeOK
        /\ Voice!TypeOK /\ Talk!TypeOK => TypeOK
  BY DEF TypeOK
<1> QED
  BY <1>1, <1>2, <1>3, <1>4, <1>5, <1>6, <1>7, <1>8, ListRuns, RoomRuns, PTL
=============================================================================
