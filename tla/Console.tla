------------------------------ MODULE Console -------------------------------
(* The pages of the web console. The router shows one page at a time, and a *)
(* page that is left takes its state with it, so the pages do not meet: the *)
(* view is chosen at the start, and only that page and what it talks to act.*)
EXTENDS Naturals, Sequences, FiniteSets

CONSTANTS
    Effect, MaxBreaks,                              \* LiveLink
    ChatMsgs, MaxDrops,                             \* BoardChat
    Poll, MaxMsgs, MaxPosts,                        \* Onboarding
    Item, None,                                     \* ListDelete
    Start, Monitor,                                 \* VoiceLine, with None
    Rec, MaxReplies                                 \* VoiceTalk, with None

ASSUME ConsoleAssumption ==
    /\ Effect # {} /\ Poll # {}
    /\ None \notin Item \union Start \union Monitor \union Rec
    /\ {MaxBreaks, ChatMsgs, MaxDrops, MaxMsgs, MaxPosts, MaxReplies} \subseteq Nat
    /\ Rec # {} /\ IsFiniteSet(Rec) /\ MaxReplies # 0

VARIABLES
    view,
    tabActive, run, breaks,
    visible, link, author, stored, post, cursor, wire, chat, ref, local, notified,
    toasts, open, unread, read, drops,
    row, sent, handler, posts, loading, before, updates, poll, session, awaiting, closed,
    overlap,
    server, list, stale, fetch, deletion, listMounted, confirming,
    mounted, route, call, conn, start, peersClosed, mic, peerRef, micRef, monitor,
    listening, monRef, astray,
    talkMounted, browser, room, tts, rec, recRef, isListening, isSpeaking, speakRef,
    pause, noRestart, timers, utterance, cancelled, reply, said

Link == INSTANCE LiveLink WITH active <- tabActive
Chat == INSTANCE BoardChat WITH MaxMsgs <- ChatMsgs
Dialog == INSTANCE Onboarding
List == INSTANCE ListDelete WITH mounted <- listMounted
Voice == INSTANCE VoiceLine WITH closed <- peersClosed
Talk == INSTANCE VoiceTalk WITH mounted <- talkMounted

linkVars == <<tabActive, run, breaks>>
chatVars == <<visible, link, author, stored, post, cursor, wire, chat, ref, local,
              notified, toasts, open, unread, read, drops>>
dialogVars == <<row, sent, handler, posts, loading, before, updates, poll, session,
                awaiting, closed, overlap>>
listVars == <<server, list, stale, fetch, deletion, listMounted, confirming>>
voiceVars == <<mounted, route, call, conn, start, peersClosed, mic, peerRef, micRef,
               monitor, listening, monRef, astray>>
talkVars == <<talkMounted, browser, room, tts, rec, recRef, isListening, isSpeaking,
              speakRef, pause, noRestart, timers, utterance, cancelled, reply, said>>
vars == <<view, linkVars, chatVars, dialogVars, listVars, voiceVars, talkVars>>

\* A page that is not shown has one of its initial states.
Init ==
    /\ view \in {"stream", "chat", "onboarding", "list", "voice", "talk"}
    /\ Link!Init /\ Chat!Init /\ Dialog!Init /\ List!Init /\ Voice!Init /\ Talk!Init
    /\ view # "stream" => tabActive
    /\ view # "chat" => visible /\ stored = {}
    /\ view # "onboarding" => row = Dialog!NoRow
    /\ view # "talk" => reply = 0

\* One page acts, the others stay as they are.
OnStream(A) ==
    /\ view = "stream" /\ A
    /\ UNCHANGED <<view, chatVars, dialogVars, listVars, voiceVars, talkVars>>
OnChat(A) ==
    /\ view = "chat" /\ A
    /\ UNCHANGED <<view, linkVars, dialogVars, listVars, voiceVars, talkVars>>
OnDialog(A) ==
    /\ view = "onboarding" /\ A
    /\ UNCHANGED <<view, linkVars, chatVars, listVars, voiceVars, talkVars>>
OnList(A) ==
    /\ view = "list" /\ A
    /\ UNCHANGED <<view, linkVars, chatVars, dialogVars, voiceVars, talkVars>>
OnVoice(A) ==
    /\ view = "voice" /\ A
    /\ UNCHANGED <<view, linkVars, chatVars, dialogVars, listVars, talkVars>>
OnTalk(A) ==
    /\ view = "talk" /\ A
    /\ UNCHANGED <<view, linkVars, chatVars, dialogVars, listVars, voiceVars>>

Next ==
    \/ OnStream(Link!Next)
    \/ OnChat(Chat!Next)
    \/ OnDialog(Dialog!Next)
    \/ OnList(List!Next)
    \/ OnVoice(Voice!Next)
    \/ OnTalk(Talk!Next)

Spec == Init /\ [][Next]_vars

\* The network answers, timers fire, effects run, the stream's generator and the
\* dialog's interval go on. Nobody has to write, click, or come back to the tab.
Progress ==
    \/ OnStream(\E e \in Effect : Link!Progress(e))
    \/ OnChat(Chat!Progress)
    \/ OnDialog(\E p \in Poll : Dialog!PollStep(p))
    \/ OnTalk(Talk!Progress)

FairSpec == Spec /\ WF_vars(Progress)

(* ------------- What must hold, stated in the pages' modules ------------- *)

TypeOK ==
    CASE view = "stream" -> Link!TypeOK
      [] view = "chat" -> Chat!TypeOK
      [] view = "onboarding" -> Dialog!TypeOK
      [] view = "list" -> List!TypeOK
      [] view = "voice" -> Voice!TypeOK
      [] view = "talk" -> Talk!TypeOK

\* A page holds at most one connection of a stream, and none while it is hidden.
OneConnection == Link!OneConnection

\* The effect that keeps a stream implements LinkContract. A view that shows no
\* stream takes no step of it (OnChat, ... leave linkVars unchanged).
KeepsLink ==
    /\ Link!Contract!LinkInit
    /\ [][view = "stream" => Link!Contract!LinkNext]_(Link!Contract!linkVars)

\* A visible page is connected again and again.
Reconnects == []<>(view = "stream" => Link!Connected)

\* No chat message is announced twice, none of one's own at all.
NotifiedOnce == Chat!NotifiedOnce

\* The chat's badge counts what arrived unseen.
UnreadRight == Chat!UnreadRight

\* No chat message is shown twice or out of order.
InOrder == Chat!InOrder

\* Every chat message reaches the page as long as its cursor holds.
Delivered ==
    [](view = "chat" => Chat!CursorHolds) => []<>(view = "chat" => Chat!CaughtUp)

\* A confirmed onboarding stays confirmed.
ConfirmedStays == Dialog!ConfirmedStays

\* The onboarding dialog does not wait for ever for a reply that the server has.
WaitEnds == []<>(view = "onboarding" => Dialog!WaitOver)

\* A list that is not about to change is the server's.
ListRight == List!ListRight

\* Stop, another route or leaving the page releases the realtime microphone.
MicReachable == Voice!MicReachable

\* The level monitor's microphone is closed when its room is.
MonitorReleased == Voice!MonitorReleased

\* No recogniser goes on listening out of the page's reach.
OneRecogniser == Talk!OneRecogniser

\* Outside of the voice room only a press listens.
RoomSilent == Talk!RoomSilent

\* The voice room does not go deaf for good.
ListensAgain == []<>(view = "talk" => Talk!Attentive)
=============================================================================
