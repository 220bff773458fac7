----------------------------- MODULE VoiceTalk ------------------------------
(* The talk of the voice room page on its browser route: recognisers that   *)
(* listen, replies that are spoken, and the timers that turn listening on   *)
(* again.                                                                   *)
(*                                                                          *)
(* A recogniser that was stopped ends later, and an utterance that was      *)
(* cancelled reports it later; both events come to handlers that look at    *)
(* refs, whoever set them since. isSpeakingRef follows isSpeaking one       *)
(* effect later (SyncRef).                                                  *)
EXTENDS FiniteSets, Naturals

CONSTANTS
    Rec,            \* the SpeechRecognition objects alive at once
    None,
    MaxReplies      \* bound: replies

VARIABLES
    mounted, browser,   \* the page is open, on its browser route
    room, tts,          \* callModeEnabled, ttsEnabled
    rec,                \* rec[r]: what each recogniser does
    recRef,             \* recognitionRef
    isListening, isSpeaking, speakRef,
    pause, noRestart,   \* speechPauseRef, preventAutoRestartRef
    timers,             \* how many restart timers of each kind are pending
    utterance,          \* the utterance handed to the synthesiser
    cancelled,          \* how many cancelled utterances have not reported it yet
    reply, said         \* replies arrived, and the last one that was spoken

page == <<mounted, browser, room, tts>>
listening == <<rec, recRef, isListening, noRestart>>
speaking == <<isSpeaking, speakRef, pause, utterance, cancelled>>
talkVars == <<page, listening, speaking, timers, reply, said>>

Idle == [at |-> "free", auto |-> FALSE]

TypeOK ==
    /\ mounted \in BOOLEAN /\ browser \in BOOLEAN /\ room \in BOOLEAN /\ tts \in BOOLEAN
    /\ rec \in [Rec -> [at : {"free", "live", "stopping"}, auto : BOOLEAN]]
    /\ recRef \in Rec \union {None}
    /\ isListening \in BOOLEAN /\ isSpeaking \in BOOLEAN /\ speakRef \in BOOLEAN
    /\ pause \in BOOLEAN /\ noRestart \in BOOLEAN
    /\ timers \in [{"end", "other"} -> 0 .. Cardinality(Rec)]
    /\ utterance \in {"none", "queued", "heard"} /\ cancelled \in 0 .. Cardinality(Rec)
    /\ reply \in 0 .. MaxReplies /\ said \in 0 .. MaxReplies

\* The page has loaded on the realtime route; a reply of an earlier talk may be there.
Init ==
    /\ mounted = TRUE /\ browser = FALSE /\ room = FALSE /\ tts = FALSE
    /\ rec = [r \in Rec |-> Idle] /\ recRef = None
    /\ isListening = FALSE /\ isSpeaking = FALSE /\ speakRef = FALSE
    /\ pause = FALSE /\ noRestart = TRUE
    /\ timers = [kind \in {"end", "other"} |-> 0]
    /\ utterance = "none" /\ cancelled = 0
    /\ reply \in 0 .. 1 /\ said = 0

\* Bound: what is under way and may end in a recogniser. The people at the page and
\* new replies add to it only while Rec is large enough for all of it.
UnderWay ==
    Cardinality({r \in Rec : rec[r] # Idle}) + timers["end"] + timers["other"] + cancelled
    + (IF utterance = "none" THEN 0 ELSE 1) + (IF reply = said THEN 0 ELSE 1)

HasRoom == UnderWay < Cardinality(Rec)

Live == {r \in Rec : rec[r].at = "live"}

(* ------------------------------- listening ------------------------------ *)

\* recognitionRef.current?.stop(): the end event follows.
RefStopped ==
    [r \in Rec |-> IF r = recRef /\ r \in Live THEN [rec[r] EXCEPT !.at = "stopping"]
                   ELSE rec[r]]

StopListening == rec' = RefStopped /\ isListening' = FALSE /\ UNCHANGED recRef

\* Mutant: the last recogniser is left alone.
StartListening_Keeps(autoRestart) ==
    \E r \in Rec :
        /\ rec[r] = Idle
        /\ rec' = [rec EXCEPT ![r] = [at |-> "live", auto |-> autoRestart]]
        /\ recRef' = r /\ isListening' = TRUE /\ noRestart' = FALSE

\* Mutant: preventAutoRestartRef is not set back.
StartListening_NoReset(autoRestart) ==
    \E r \in Rec :
        /\ rec[r] = Idle
        /\ rec' = [RefStopped EXCEPT ![r] = [at |-> "live", auto |-> autoRestart]]
        /\ recRef' = r /\ isListening' = TRUE /\ noRestart' = TRUE

\* startSpeechInput after its early returns: the last recogniser is stopped.
StartListening(autoRestart) ==
    \E r \in Rec :
        /\ rec[r] = Idle
        /\ rec' = [RefStopped EXCEPT ![r] = [at |-> "live", auto |-> autoRestart]]
        /\ recRef' = r /\ isListening' = TRUE /\ noRestart' = FALSE

\* setTimeout.
Later(kind) == timers' = [timers EXCEPT ![kind] = @ + 1]

\* onend, after stop(), an error, or by itself. isListening is not looked at, nor
\* whether another recogniser has been started.
Ended(r) ==
    /\ rec' = [rec EXCEPT ![r] = Idle]
    /\ isListening' = FALSE
    /\ IF room /\ ~noRestart /\ ~pause /\ ~speakRef THEN Later("end") ELSE UNCHANGED timers
    /\ UNCHANGED <<page, recRef, noRestart, speaking, reply, said>>

StoppedEnds(r) == rec[r].at = "stopping" /\ Ended(r)
EndsItself(r) == rec[r].at = "live" /\ Ended(r)

\* onerror, which the end event follows.
ListenFails(r) ==
    /\ rec[r].at = "live"
    /\ rec' = [rec EXCEPT ![r].at = "stopping"]
    /\ isListening' = FALSE
    /\ UNCHANGED <<page, recRef, noRestart, speaking, timers, reply, said>>

\* Mutant: the timer does not look whether the room is still on.
Restarts_Anywhere(kind) ==
    browser /\ ~speakRef /\ (kind = "end" => ~pause)

\* A restart timer, 220 ms later: the effects of the renders before have run.
Restarts(kind) ==
    room /\ browser /\ ~speakRef /\ (kind = "end" => ~pause)

Fire(kind) ==
    /\ timers[kind] > 0 /\ (mounted => isSpeaking = speakRef)
    /\ timers' = [timers EXCEPT ![kind] = @ - 1]
    /\ IF Restarts(kind) THEN StartListening(TRUE) ELSE UNCHANGED listening
    /\ UNCHANGED <<page, speaking, reply, said>>

\* "Start voice input" and "Stop listening", outside the voice room.
PressTalk ==
    /\ HasRoom /\ mounted /\ browser /\ ~room /\ ~speakRef
    /\ IF isListening THEN StopListening /\ noRestart' = TRUE ELSE StartListening(FALSE)
    /\ UNCHANGED <<page, speaking, timers, reply, said>>

(* -------------------------------- speaking ------------------------------ *)

\* speechSynthesis.cancel(): the utterance's error event follows.
Cancel == cancelled' = IF utterance = "none" THEN cancelled ELSE cancelled + 1
Silence == Cancel /\ utterance' = "none" /\ isSpeaking' = FALSE /\ pause' = FALSE

\* A timer that listens again, if the room is on.
Resume == IF room THEN Later("other") ELSE UNCHANGED timers

Reply ==
    /\ HasRoom /\ mounted /\ reply < MaxReplies
    /\ reply' = reply + 1
    /\ UNCHANGED <<page, listening, speaking, timers, said>>

\* The effect of a new reply: the recogniser is stopped if the state says there is one.
Speak ==
    /\ mounted /\ browser /\ (room \/ tts) /\ reply # said
    /\ said' = reply
    /\ IF room /\ isListening
         THEN StopListening /\ noRestart' = TRUE /\ pause' = TRUE
         ELSE UNCHANGED <<listening, pause>>
    /\ Cancel /\ utterance' = "queued"
    /\ UNCHANGED <<page, isSpeaking, speakRef, timers, reply>>

Begins ==
    /\ utterance = "queued"
    /\ utterance' = "heard" /\ isSpeaking' = TRUE
    /\ UNCHANGED <<page, listening, speakRef, pause, cancelled, timers, reply, said>>

\* finishSpeaking: the end or the error of the utterance, or of a cancelled one.
Finishes ==
    /\ \/ utterance # "none" /\ utterance' = "none" /\ UNCHANGED cancelled
       \/ cancelled > 0 /\ cancelled' = cancelled - 1 /\ UNCHANGED utterance
    /\ isSpeaking' = FALSE /\ pause' = FALSE
    /\ Resume
    /\ UNCHANGED <<page, listening, speakRef, reply, said>>

\* stopSpeakingNow, by the button or by barging in.
StopSpeakingNow ==
    /\ HasRoom /\ mounted /\ (isSpeaking \/ (room /\ speakRef))
    /\ Silence /\ Resume
    /\ UNCHANGED <<page, listening, speakRef, reply, said>>

SyncRef ==
    /\ mounted /\ speakRef # isSpeaking
    /\ speakRef' = isSpeaking
    /\ UNCHANGED <<page, listening, isSpeaking, pause, utterance, cancelled, timers, reply,
                   said>>

(* ------------------------------- the page ------------------------------- *)

\* The effects of a click run before the next event.
EnterRoom ==
    /\ HasRoom /\ mounted /\ browser /\ ~room
    /\ room' = TRUE
    /\ speakRef' = isSpeaking
    /\ IF isSpeaking THEN UNCHANGED timers ELSE Later("other")
    /\ UNCHANGED <<mounted, browser, tts, listening, isSpeaking, pause, utterance,
                   cancelled, reply, said>>

LeaveRoom ==
    /\ mounted /\ room
    /\ room' = FALSE
    /\ StopListening /\ noRestart' = TRUE
    /\ IF tts THEN pause' = FALSE /\ UNCHANGED <<isSpeaking, utterance, cancelled>>
       ELSE Silence
    /\ speakRef' = isSpeaking
    /\ UNCHANGED <<mounted, browser, tts, timers, reply, said>>

ToggleTts ==
    /\ mounted /\ browser
    /\ tts' = ~tts
    /\ IF tts /\ ~room THEN Silence ELSE UNCHANGED <<isSpeaking, pause, utterance, cancelled>>
    /\ UNCHANGED <<mounted, browser, room, listening, speakRef, timers, reply, said>>

\* To another route, which ends the room, or back.
SetRoute ==
    /\ mounted /\ browser' = ~browser
    /\ room' = FALSE
    /\ StopListening /\ noRestart' = TRUE
    /\ Silence
    /\ UNCHANGED <<mounted, tts, speakRef, timers, reply, said>>

\* The unmount's cleanup. The refs, the timers and the handlers live on.
Leave ==
    /\ mounted /\ mounted' = FALSE
    /\ rec' = RefStopped
    /\ Cancel /\ utterance' = "none"
    /\ UNCHANGED <<browser, room, tts, recRef, isListening, noRestart, isSpeaking, speakRef,
                   pause, timers, reply, said>>

Next ==
    \/ \E r \in Rec : StoppedEnds(r) \/ EndsItself(r) \/ ListenFails(r)
    \/ \E kind \in DOMAIN timers : Fire(kind)
    \/ PressTalk \/ Reply \/ Speak \/ Begins \/ Finishes \/ StopSpeakingNow \/ SyncRef
    \/ EnterRoom \/ LeaveRoom \/ ToggleTts \/ SetRoute \/ Leave

Spec == Init /\ [][Next]_talkVars

\* Recognisers and utterances that were told to end do, timers fire, effects run.
Progress ==
    \/ \E r \in Rec : StoppedEnds(r)
    \/ \E kind \in DOMAIN timers : Fire(kind)
    \/ Speak \/ Begins \/ Finishes \/ SyncRef

FairSpec == Spec /\ WF_talkVars(Progress)

(* ------------------------------ properties ------------------------------ *)

\* No recogniser goes on listening out of reach: the one the page can stop is the
\* only one that was not told to stop, whichever timers and buttons started it.
OneRecogniser == \A r \in Live : r = recRef

\* Outside of the voice room only a press listens: a recogniser that a timer started
\* does not outlive the room, nor does a timer start one after it was left.
RoomSilent == ~room => \A r \in Live : ~rec[r].auto

\* What the voice room does again and again, whatever was cancelled, interrupted or
\* ended by itself: it listens or speaks.
Attentive == ~mounted \/ ~room \/ Live # {} \/ utterance # "none"
=============================================================================
