-------------------------- MODULE VoiceLineProofs ---------------------------
(* The voice room page releases its microphones, for any number of calls of   *)
(* startRealtimeVoice and of runs of the monitor's effect.                    *)
EXTENDS VoiceLine, TLAPS

-----------------------------------------------------------------------------
(* The monitor: one run at a time waits or listens, while the room is on.     *)

RoomOn == mounted /\ call /\ route = "browser"

MonitorTypes ==
    monitor \in [Monitor -> {"unused", "prompt", "running", "cancelled", "failed", "over"}]
OneRun ==
    \A m, n \in Monitor : {monitor[m], monitor[n]} \subseteq {"prompt", "running"} => m = n
RunsInRoom == \A m \in Monitor : monitor[m] \in {"prompt", "running"} => RoomOn
ListensByRef ==
    listening \subseteq {m \in Monitor : \/ monitor[m] = "running" /\ m = monRef
                                       \/ monitor[m] = "failed"}

MonitorInv == MonitorTypes /\ OneRun /\ RunsInRoom /\ ListensByRef

\* An effect that runs again ends the last run first.
LEMMA RerunStep ==
    ASSUME MonitorInv, NEW on, Rerun(on), on => RoomOn'
    PROVE  MonitorInv'
<1>1. /\ Cancelled \in [Monitor -> {"unused", "cancelled", "failed", "over"}]
      /\ \A m \in Monitor : monitor[m] = "failed" => Cancelled[m] = "failed"
  <2>1. ASSUME NEW m \in Monitor
        PROVE  (CASE monitor[m] = "prompt" -> "cancelled"
                  [] monitor[m] = "running" -> "over"
                  [] OTHER -> monitor[m]) \in {"unused", "cancelled", "failed", "over"}
    BY DEF MonitorInv, MonitorTypes
  <2> QED
    BY <2>1 DEF Cancelled
<1>2. \A m \in listening' : m \in Monitor /\ monitor[m] = "failed"
  BY DEF Rerun, MonitorStopped, MonitorInv, ListensByRef
<1>3. CASE on
  <2>1. PICK m \in Monitor :
           monitor[m] = "unused" /\ monitor' = [Cancelled EXCEPT ![m] = "prompt"]
    BY <1>3 DEF Rerun
  <2> HIDE DEF Cancelled
  <2>2. \A n \in Monitor : monitor'[n] \in {"prompt", "running"} => n = m
    BY <1>1, <2>1
  <2>3. ListensByRef'
    BY <1>1, <1>2, <2>1 DEF ListensByRef
  <2> QED
    BY <1>1, <1>3, <2>1, <2>2, <2>3
    DEF MonitorInv, MonitorTypes, OneRun, RunsInRoom
<1>4. CASE ~on
  <2>1. monitor' = Cancelled
    BY <1>4 DEF Rerun
  <2> HIDE DEF Cancelled
  <2>2. ListensByRef'
    BY <1>1, <1>2, <2>1 DEF ListensByRef
  <2> QED
    BY <1>1, <2>1, <2>2 DEF MonitorInv, MonitorTypes, OneRun, RunsInRoom
<1> QED
  BY <1>3, <1>4

LEMMA MonitorStep ==
    ASSUME MonitorInv, [Next]_voiceVars
    PROVE  MonitorInv'
<1>1. CASE ToggleCall
  <2>1. Rerun(call') /\ (call' => RoomOn')
    BY <1>1 DEF ToggleCall, RoomOn
  <2> QED
    BY <2>1, RerunStep
<1>2. CASE (\E r \in Route : SetRoute(r)) \/ Leave
  <2>1. Rerun(FALSE)
    BY <1>2 DEF SetRoute, Leave
  <2> QED
    BY <2>1, RerunStep
<1>3. ASSUME NEW m \in Monitor, MonitorOpens(m) PROVE MonitorInv'
  <2>1. UNCHANGED <<mounted, route, call>>
    BY <1>3 DEF MonitorOpens, room
  <2>2. CASE /\ monitor[m] = "prompt" /\ monitor' = [monitor EXCEPT ![m] = "running"]
             /\ listening' = listening \union {m} /\ monRef' = m
    <3>1. \A n \in listening : monitor[n] = "failed"
      BY <2>2 DEF MonitorInv, OneRun, ListensByRef
    <3> QED
      BY <2>1, <2>2, <3>1
      DEF MonitorInv, MonitorTypes, OneRun, RunsInRoom, ListensByRef, RoomOn
  <2>3. CASE /\ monitor[m] = "cancelled" /\ monitor' = [monitor EXCEPT ![m] = "over"]
             /\ UNCHANGED <<listening, monRef>>
    BY <2>1, <2>3 DEF MonitorInv, MonitorTypes, OneRun, RunsInRoom, ListensByRef, RoomOn
  <2> QED
    BY <1>3, <2>2, <2>3 DEF MonitorOpens
<1>4. ASSUME NEW m \in Monitor, MonitorDenied(m) PROVE MonitorInv'
  BY <1>4 DEF MonitorDenied, room, MonitorInv, MonitorTypes, OneRun, RunsInRoom,
              ListensByRef, RoomOn
<1>9. ASSUME NEW m \in Monitor, MonitorFails(m) PROVE MonitorInv'
  BY <1>9 DEF MonitorFails, room, MonitorInv, MonitorTypes, OneRun, RunsInRoom,
              ListensByRef, RoomOn
<1>5. CASE UNCHANGED <<room, monitors>>
  BY <1>5 DEF room, monitors, MonitorInv, MonitorTypes, OneRun, RunsInRoom, ListensByRef,
              RoomOn
<1>6. ASSUME NEW s \in Start,
             \/ PressStart(s) \/ SessionArrives(s) \/ SessionUnavailable(s) \/ StartFails(s)
             \/ MicOpens(s) \/ AnswerArrives(s) \/ PeerChanges(s)
      PROVE  UNCHANGED <<room, monitors>>
  BY <1>6 DEF PressStart, SessionArrives, SessionUnavailable, StartFails, MicOpens,
              AnswerArrives, PeerChanges, Caught
<1>7. PressStop => UNCHANGED <<room, monitors>>
  BY DEF PressStop
<1>8. UNCHANGED voiceVars => UNCHANGED <<room, monitors>>
  BY DEF voiceVars, room, monitors
<1> QED
  BY <1>1, <1>2, <1>3, <1>4, <1>5, <1>6, <1>7, <1>8, <1>9 DEF Next

\* The monitor's microphone is open only while the voice room is on, whichever
\* permission prompts are answered after the room was left (the cancelled flag of the
\* monitor's effect); a run that failed after its microphone opened excepted.
THEOREM MonitorIsReleased == Spec => []MonitorReleased
<1>1. Init => MonitorInv
  BY DEF Init, MonitorInv, MonitorTypes, OneRun, RunsInRoom, ListensByRef
<1>2. MonitorInv /\ [Next]_voiceVars => MonitorInv'
  BY MonitorStep
<1>3. MonitorInv => MonitorReleased
  BY DEF MonitorInv, RunsInRoom, ListensByRef, RoomOn, MonitorReleased
<1> QED
  BY <1>1, <1>2, <1>3, PTL DEF Spec

-----------------------------------------------------------------------------
(* The call: as long as no start was lost sight of while it waited for its    *)
(* session, only the peer in the ref is open, and only it sends.              *)

HasPeer(s) == start[s] \in {"prompt", "exchange", "up"} /\ s \notin closed

StartTypes ==
    /\ start \in [Start -> {"unused", "session", "prompt", "exchange", "up", "over"}]
    /\ mic \subseteq Start
OpenIsRef ==
    \A s \in Start : HasPeer(s) => peerRef = s /\ mounted /\ route = "realtime"
SessionIsAlone ==
    \A s, t \in Start : start[s] = "session" =>
                            mounted /\ ~HasPeer(t) /\ (start[t] = "session" => s = t)
OnlyPeersSend ==
    \A s \in mic : start[s] \in {"exchange", "up"} /\ s \notin closed

CallInv == StartTypes /\ (~astray => OpenIsRef /\ SessionIsAlone /\ OnlyPeersSend)

\* After a cleanup of what the refs hold no peer is open and nobody sends, if only the
\* peer in the ref was.
LEMMA CleanupEnds ==
    ASSUME StartTypes, OpenIsRef, OnlyPeersSend, NEW m, Cleanup(peerRef, m)
    PROVE  /\ mic' = {}
           /\ \A s \in Start : start[s] \in {"prompt", "exchange", "up"} => s \in closed'
<1>1. \A s \in Start : start[s] \in {"prompt", "exchange", "up"} => s \in closed'
  BY DEF Cleanup, OpenIsRef, HasPeer
<1>2. \A s \in mic : s = peerRef
  BY DEF StartTypes, OpenIsRef, OnlyPeersSend, HasPeer
<1> QED
  BY <1>1, <1>2 DEF Cleanup

\* A cleanup, after which no start gets further than waiting for its session.
LEMMA CleanupStep ==
    ASSUME CallInv, ~astray' => ~astray, StartTypes',
           NEW m, Cleanup(peerRef, m),
           \A s \in Start : start'[s] \in {start[s], "session", "over"},
           ~astray' => \A s, t \in Start :
                  start'[s] = "session" => mounted' /\ (start'[t] = "session" => s = t)
    PROVE  CallInv'
<1> SUFFICES ASSUME ~astray' PROVE (OpenIsRef /\ SessionIsAlone /\ OnlyPeersSend)'
  BY DEF CallInv
<1>1. mic' = {} /\ \A s \in Start : start[s] \in {"prompt", "exchange", "up"} => s \in closed'
  BY CleanupEnds DEF CallInv
<1>2. \A s \in Start : ~HasPeer(s)'
  BY <1>1 DEF HasPeer
<1> QED
  BY <1>1, <1>2 DEF OpenIsRef, SessionIsAlone, OnlyPeersSend

\* A start fails: whatever the refs hold is cleaned up.
LEMMA CaughtStep ==
    ASSUME CallInv, NEW s \in Start, NEW m, Caught(s, m)
    PROVE  CallInv'
<1>1. /\ start' = [start EXCEPT ![s] = "over"] /\ Cleanup(peerRef, m)
      /\ UNCHANGED <<mounted, astray>>
  BY DEF Caught, room
<1>2. StartTypes'
  BY <1>1 DEF CallInv, StartTypes, Cleanup
<1>3. \A t \in Start : start'[t] = IF t = s THEN "over" ELSE start[t]
  BY <1>1 DEF CallInv, StartTypes
<1>4. ~astray' => \A t, u \in Start :
                  start'[t] = "session" => mounted' /\ (start'[u] = "session" => t = u)
  BY <1>1, <1>3 DEF CallInv, SessionIsAlone
<1> QED
  BY <1>1, <1>2, <1>3, <1>4, CleanupStep

LEMMA CallStep ==
    ASSUME CallInv, [Next]_voiceVars
    PROVE  CallInv'
<1> USE DEF CallInv
<1>1. ASSUME NEW s \in Start, PressStart(s) PROVE CallInv'
  <2>1. /\ start[s] = "unused" /\ start' = [start EXCEPT ![s] = "session"]
        /\ Cleanup(peerRef, micRef) /\ astray' = (astray \/ InSession # {})
        /\ mounted /\ UNCHANGED mounted
    BY <1>1 DEF PressStart, room
  <2>2. StartTypes'
    BY <2>1 DEF StartTypes, Cleanup
  <2>3. \A t \in Start : start'[t] = IF t = s THEN "session" ELSE start[t]
    BY <2>1 DEF StartTypes
  <2>4. ~astray' => ~astray /\ \A t \in Start : start[t] # "session"
    BY <2>1 DEF InSession
  <2> QED
    BY <2>1, <2>2, <2>3, <2>4, CleanupStep
<1>2. ASSUME NEW s \in Start, SessionArrives(s) PROVE CallInv'
  <2>1. /\ start[s] = "session" /\ start' = [start EXCEPT ![s] = "prompt"]
        /\ UNCHANGED <<mounted, route, astray>>
    BY <1>2 DEF SessionArrives, room
  <2>2. \A t \in Start : start'[t] = IF t = s THEN "prompt" ELSE start[t]
    BY <2>1 DEF StartTypes
  <2>3. \/ mounted /\ route # "realtime" /\ Cleanup(s, micRef)
        \/ (~mounted \/ route = "realtime") /\ peerRef' = s /\ UNCHANGED <<closed, mic>>
    BY <1>2 DEF SessionArrives
  <2>4. StartTypes'
    BY <2>1, <2>3 DEF StartTypes, Cleanup
  <2>5. ASSUME ~astray PROVE  /\ mounted
                             /\ \A t \in Start : ~HasPeer(t) /\ (start[t] = "session" => t = s)
    BY <2>1, <2>5 DEF SessionIsAlone
  <2>6. ASSUME ~astray PROVE mic = {}
    BY <2>5, <2>6 DEF OnlyPeersSend, StartTypes, HasPeer
  <2>7. ASSUME ~astray', mounted /\ route # "realtime" /\ Cleanup(s, micRef)
        PROVE  (OpenIsRef /\ SessionIsAlone /\ OnlyPeersSend)'
    <3>1. mic' = {} /\ \A t \in Start : ~HasPeer(t)'
      BY <2>1, <2>2, <2>5, <2>6, <2>7 DEF Cleanup, HasPeer
    <3>2. \A t \in Start : start'[t] # "session"
      BY <2>1, <2>2, <2>5, <2>7
    <3> QED
      BY <3>1, <3>2 DEF OpenIsRef, SessionIsAlone, OnlyPeersSend
  <2>8. ASSUME ~astray', route = "realtime", peerRef' = s, UNCHANGED <<closed, mic>>
        PROVE  (OpenIsRef /\ SessionIsAlone /\ OnlyPeersSend)'
    <3>1. \A t \in Start : (HasPeer(t)' => t = s) /\ start'[t] # "session"
      BY <2>1, <2>2, <2>5, <2>8 DEF HasPeer
    <3> QED
      BY <2>1, <2>5, <2>6, <2>8, <3>1 DEF OpenIsRef, SessionIsAlone, OnlyPeersSend
  <2> QED
    BY <2>1, <2>3, <2>4, <2>5, <2>7, <2>8
<1>3. ASSUME NEW s \in Start, SessionUnavailable(s) PROVE CallInv'
  <2>1. /\ start[s] = "session" /\ start' = [start EXCEPT ![s] = "over"]
        /\ UNCHANGED <<mounted, route, closed, mic, peerRef, astray>>
    BY <1>3 DEF SessionUnavailable, room
  <2> QED
    BY <2>1 DEF StartTypes, OpenIsRef, SessionIsAlone, OnlyPeersSend, HasPeer
<1>4. ASSUME NEW s \in Start, StartFails(s) PROVE CallInv'
  BY <1>4, CaughtStep DEF StartFails
<1>5. ASSUME NEW s \in Start, MicOpens(s) PROVE CallInv'
  <2>1. CASE Caught(s, s)
    BY <2>1, CaughtStep
  <2>2. CASE /\ s \notin closed /\ start[s] = "prompt"
             /\ start' = [start EXCEPT ![s] = "exchange"] /\ mic' = mic \union {s}
             /\ UNCHANGED <<mounted, route, closed, peerRef, astray>>
    BY <2>2 DEF StartTypes, OpenIsRef, SessionIsAlone, OnlyPeersSend, HasPeer
  <2> QED
    BY <1>5, <2>1, <2>2 DEF MicOpens, room
<1>6. ASSUME NEW s \in Start, AnswerArrives(s) PROVE CallInv'
  <2>1. CASE Caught(s, micRef)
    BY <2>1, CaughtStep
  <2>2. CASE /\ s \notin closed /\ start[s] = "exchange"
             /\ start' = [start EXCEPT ![s] = "up"]
             /\ UNCHANGED <<mounted, route, closed, mic, peerRef, astray>>
    BY <2>2 DEF StartTypes, OpenIsRef, SessionIsAlone, OnlyPeersSend, HasPeer
  <2> QED
    BY <1>6, <2>1, <2>2 DEF AnswerArrives, room
<1>7. CASE /\ UNCHANGED <<mounted, start, astray>> /\ Cleanup(peerRef, micRef)
  <2>1. StartTypes'
    BY <1>7 DEF StartTypes, Cleanup
  <2> QED
    BY <1>7, <2>1, CleanupStep DEF SessionIsAlone
<1>8. CASE PressStop
  BY <1>7, <1>8 DEF PressStop, room
<1>9. ASSUME NEW r \in Route, SetRoute(r) PROVE CallInv'
  <2>1. CASE r = "realtime"
    <3>1. /\ route # "realtime" /\ route' = "realtime"
          /\ UNCHANGED <<mounted, start, closed, mic, peerRef, astray>>
      BY <1>9, <2>1 DEF SetRoute
    <3> QED
      BY <3>1 DEF StartTypes, OpenIsRef, SessionIsAlone, OnlyPeersSend, HasPeer
  <2>2. CASE r # "realtime"
    BY <1>7, <1>9, <2>2 DEF SetRoute
  <2> QED
    BY <2>1, <2>2
<1>10. CASE Leave
  <2>1. /\ UNCHANGED start /\ Cleanup(peerRef, micRef)
        /\ astray' = (astray \/ InSession # {})
    BY <1>10 DEF Leave
  <2>2. StartTypes'
    BY <2>1 DEF StartTypes, Cleanup
  <2>3. ~astray' => ~astray /\ \A t \in Start : start[t] # "session"
    BY <2>1 DEF InSession
  <2> QED
    BY <2>1, <2>2, <2>3, CleanupStep
<1>11. CASE UNCHANGED <<mounted, route, start, closed, mic, peerRef, astray>>
  BY <1>11 DEF StartTypes, OpenIsRef, SessionIsAlone, OnlyPeersSend, HasPeer
<1>12. ASSUME \/ UNCHANGED voiceVars \/ ToggleCall
              \/ \E s \in Start : PeerChanges(s)
              \/ \E m \in Monitor : MonitorOpens(m) \/ MonitorDenied(m) \/ MonitorFails(m)
       PROVE  UNCHANGED <<mounted, route, start, closed, mic, peerRef, astray>>
  BY <1>12 DEF voiceVars, ToggleCall, PeerChanges, MonitorOpens, MonitorDenied,
               MonitorFails, room, realtime
<1> QED
  BY <1>1, <1>2, <1>3, <1>4, <1>5, <1>6, <1>8, <1>9, <1>10, <1>11, <1>12 DEF Next

\* Stop, another route or leaving the page releases the realtime microphone: whatever
\* is open is held by a ref, as long as no start is lost sight of while it waits for its
\* session (cleanupRealtimeResources, startRealtimeVoice).
THEOREM MicIsReachable == Spec => []MicReachable
<1>1. Init => CallInv
  BY DEF Init, CallInv, StartTypes, OpenIsRef, SessionIsAlone, OnlyPeersSend, HasPeer
<1>2. CallInv /\ [Next]_voiceVars => CallInv'
  BY CallStep
<1>3. CallInv => MicReachable
  BY DEF CallInv, StartTypes, OpenIsRef, OnlyPeersSend, HasPeer, MicReachable
<1> QED
  BY <1>1, <1>2, <1>3, PTL DEF Spec


-----------------------------------------------------------------------------
(* The types of what is left.                                                 *)

RoomTypes ==
    /\ mounted \in BOOLEAN /\ call \in BOOLEAN /\ astray \in BOOLEAN
    /\ route \in Route
    /\ conn \in {"unavailable", "requesting-session", "connecting", "live", "error"}
    /\ closed \in SUBSET Start
    /\ peerRef \in Start \union {None} /\ micRef \in Start \union {None}
    /\ monRef \in Monitor \union {None}

LEMMA RoomStep ==
    ASSUME RoomTypes, [Next]_voiceVars
    PROVE  RoomTypes'
<1>1. closed' \in SUBSET Start /\ peerRef' \in Start \union {None}
      /\ micRef' \in Start \union {None}
  BY DEF RoomTypes, Next, PressStart, SessionArrives, SessionUnavailable, StartFails, Caught,
         MicOpens, AnswerArrives, PeerChanges, PressStop, MonitorOpens, MonitorDenied,
         MonitorFails, ToggleCall, SetRoute, Leave, Cleanup, realtime, voiceVars
<1>2. conn' \in {"unavailable", "requesting-session", "connecting", "live", "error"}
  BY DEF RoomTypes, Next, PressStart, SessionArrives, SessionUnavailable, StartFails, Caught,
         MicOpens, AnswerArrives, PeerChanges, PressStop, MonitorOpens, MonitorDenied,
         MonitorFails, ToggleCall, SetRoute, Leave, Shows, realtime, voiceVars
<1>3. mounted' \in BOOLEAN /\ call' \in BOOLEAN /\ astray' \in BOOLEAN /\ route' \in Route
  BY DEF RoomTypes, Next, PressStart, SessionArrives, SessionUnavailable, StartFails, Caught,
         MicOpens, AnswerArrives, PeerChanges, PressStop, MonitorOpens, MonitorDenied,
         MonitorFails, ToggleCall, SetRoute, Leave, room, voiceVars
<1>4. monRef' \in Monitor \union {None}
  BY DEF RoomTypes, Next, PressStart, SessionArrives, SessionUnavailable, StartFails, Caught,
         MicOpens, AnswerArrives, PeerChanges, PressStop, MonitorOpens, MonitorDenied,
         MonitorFails, ToggleCall, SetRoute, Leave, Rerun, MonitorStopped, monitors, voiceVars
<1> QED
  BY <1>1, <1>2, <1>3, <1>4 DEF RoomTypes

\* Every reachable state of the voice room is well typed, for any number of starts and
\* of runs of the monitor's effect.
THEOREM VoiceTypeCorrect == Spec => []TypeOK
<1>1. Init => RoomTypes /\ MonitorInv /\ CallInv
  BY DEF Init, RoomTypes, Route, MonitorInv, MonitorTypes, OneRun, RunsInRoom, ListensByRef,
         CallInv, StartTypes, OpenIsRef, SessionIsAlone, OnlyPeersSend, HasPeer
<1>2. RoomTypes /\ MonitorInv /\ CallInv /\ [Next]_voiceVars
        => (RoomTypes /\ MonitorInv /\ CallInv)'
  BY RoomStep, MonitorStep, CallStep
<1>3. RoomTypes /\ MonitorInv /\ CallInv => TypeOK
  BY DEF RoomTypes, MonitorInv, MonitorTypes, ListensByRef, CallInv, StartTypes, TypeOK
<1> QED
  BY <1>1, <1>2, <1>3, PTL DEF Spec
=============================================================================
