----------------------------- MODULE VoiceLine ------------------------------
(* The microphones of the voice room page: the realtime call (a WebRTC peer *)
(* and the microphone it sends) and the level monitor of the browser route. *)
(*                                                                          *)
(* startRealtimeVoice awaits the session, the permission prompt and the SDP *)
(* exchange, and is never told that it was stopped meanwhile: Stop closes   *)
(* the peer that the ref holds, and a start whose peer is closed fails at   *)
(* its next use of it and cleans up. An effect's run of the monitor has a   *)
(* cancelled flag instead. React runs the effects of a change before the    *)
(* next event, so they are part of the action that causes them.             *)
EXTENDS FiniteSets, Naturals

CONSTANTS
    Start,          \* calls of startRealtimeVoice
    Monitor,        \* runs of the monitor's effect
    None

VARIABLES
    mounted, route, call,   \* the page, activeVoiceRoute, callModeEnabled
    conn,           \* realtimeConnectionState
    start,          \* start[s]: what each call of startRealtimeVoice awaits
    closed,         \* the peers that are closed
    mic,            \* the realtime microphones that are open
    peerRef, micRef,
    monitor,        \* monitor[m]: what each run of the effect awaits
    listening,      \* the monitors' streams that are open
    monRef,         \* micLevelStreamRef
    astray          \* ghost: a start was lost sight of while it had no peer yet

room == <<mounted, route, call>>
realtime == <<conn, start, closed, mic, peerRef, micRef>>
monitors == <<monitor, listening, monRef>>
voiceVars == <<mounted, route, call, conn, start, closed, mic, peerRef, micRef, monitor,
               listening, monRef, astray>>

Route == {"realtime", "browser", "other"}
CanStop == conn \in {"live", "connecting", "requesting-session"}

TypeOK ==
    /\ mounted \in BOOLEAN /\ call \in BOOLEAN /\ astray \in BOOLEAN
    /\ route \in Route
    /\ conn \in {"unavailable", "requesting-session", "connecting", "live", "error"}
    /\ start \in [Start -> {"unused", "session", "prompt", "exchange", "up", "over"}]
    /\ closed \in SUBSET Start /\ mic \in SUBSET Start
    /\ peerRef \in Start \union {None} /\ micRef \in Start \union {None}
    /\ monitor \in [Monitor ->
                    {"unused", "prompt", "running", "cancelled", "failed", "over"}]
    /\ listening \in SUBSET Monitor /\ monRef \in Monitor \union {None}

Init ==
    /\ mounted = TRUE /\ route = "realtime" /\ call = FALSE
    /\ conn = "unavailable"
    /\ start = [s \in Start |-> "unused"]
    /\ closed = {} /\ mic = {} /\ peerRef = None /\ micRef = None
    /\ monitor = [m \in Monitor |-> "unused"]
    /\ listening = {} /\ monRef = None
    /\ astray = FALSE

(* ---------------------------- the realtime call ------------------------- *)

\* Mutant: only the ref's microphone is stopped.
Cleanup_RefOnly(p, m) ==
    /\ mic' = mic \ {m}
    /\ closed' = closed \union ({p} \intersect Start)
    /\ peerRef' = None /\ micRef' = None

\* cleanupRealtimeResources, when the refs hold p and m: the peer's senders are
\* stopped, the peer closed, the microphone stopped.
Cleanup(p, m) ==
    /\ mic' = mic \ {p, m}
    /\ closed' = closed \union ({p} \intersect Start)
    /\ peerRef' = None /\ micRef' = None

\* A state set off the realtime route is undone by the route's effect; one set
\* after the page was left goes nowhere.
Shows(state) ==
    conn' = IF ~mounted THEN conn ELSE IF route = "realtime" THEN state ELSE "unavailable"

InSession == {s \in Start : start[s] = "session"}

PressStart(s) ==
    /\ mounted /\ route = "realtime" /\ ~CanStop
    /\ start[s] = "unused"
    /\ Cleanup(peerRef, micRef)
    /\ start' = [start EXCEPT ![s] = "session"]
    /\ conn' = "requesting-session"
    /\ astray' = (astray \/ InSession # {})
    /\ UNCHANGED <<room, monitors>>

\* The backend's client secret arrives: the peer is made, the browser asks for the
\* microphone. Off the route the effect closes the peer at once.
SessionArrives(s) ==
    /\ start[s] = "session"
    /\ start' = [start EXCEPT ![s] = "prompt"]
    /\ IF mounted /\ route # "realtime" THEN Cleanup(s, micRef)
       ELSE peerRef' = s /\ UNCHANGED <<closed, mic, micRef>>
    /\ Shows("connecting")
    /\ UNCHANGED <<room, monitors, astray>>

SessionUnavailable(s) ==
    /\ start[s] = "session"
    /\ start' = [start EXCEPT ![s] = "over"]
    /\ Shows("unavailable")
    /\ UNCHANGED <<room, closed, mic, peerRef, micRef, monitors, astray>>

\* The catch block: whatever the refs hold is cleaned up, also another start's.
Caught(s, m) ==
    /\ start' = [start EXCEPT ![s] = "over"]
    /\ Cleanup(peerRef, m)
    /\ Shows("error")
    /\ UNCHANGED <<room, monitors, astray>>

\* The request, the permission or the SDP exchange fails.
StartFails(s) ==
    /\ start[s] \in {"session", "prompt", "exchange"}
    /\ Caught(s, micRef)

\* The microphone opens: the ref takes it, and the peer, which refuses if closed.
MicOpens(s) ==
    /\ start[s] = "prompt"
    /\ IF s \in closed THEN Caught(s, s)
       ELSE /\ start' = [start EXCEPT ![s] = "exchange"]
            /\ mic' = mic \union {s} /\ micRef' = s
            /\ UNCHANGED <<room, conn, closed, peerRef, monitors, astray>>

\* The answer is set on the peer, which refuses if closed.
AnswerArrives(s) ==
    /\ start[s] = "exchange"
    /\ IF s \in closed THEN Caught(s, micRef)
       ELSE /\ start' = [start EXCEPT ![s] = "up"]
            /\ UNCHANGED <<room, conn, closed, mic, peerRef, micRef, monitors, astray>>

\* onconnectionstatechange, a handler that closing the peer removes.
PeerChanges(s) ==
    /\ start[s] = "up" /\ s \notin closed
    /\ \E state \in {"live", "error"} : Shows(state)
    /\ UNCHANGED <<room, start, closed, mic, peerRef, micRef, monitors, astray>>

\* stopRealtimeVoice, by the button.
PressStop ==
    /\ mounted /\ CanStop
    /\ Cleanup(peerRef, micRef) /\ conn' = "unavailable"
    /\ UNCHANGED <<room, start, monitors, astray>>

(* --------------------------- the level monitor -------------------------- *)

\* The cleanup of the last run: cancelled, and stopMicLevelMonitor.
Cancelled ==
    [m \in Monitor |-> CASE monitor[m] = "prompt" -> "cancelled"
                         [] monitor[m] = "running" -> "over"
                         [] OTHER -> monitor[m]]
MonitorStopped == listening' = listening \ {monRef} /\ monRef' = None

\* The monitor's effect runs again: a new run if the voice room is on.
Rerun(on) ==
    /\ MonitorStopped
    /\ IF on THEN \E m \in Monitor : /\ monitor[m] = "unused"
                                     /\ monitor' = [Cancelled EXCEPT ![m] = "prompt"]
       ELSE monitor' = Cancelled

ToggleCall ==
    /\ mounted /\ route = "browser"
    /\ call' = ~call /\ Rerun(call')
    /\ UNCHANGED <<mounted, route, realtime, astray>>

\* Mutant: the cancelled flag is not looked at.
MonitorOpens_Unchecked(m) ==
    /\ monitor[m] \in {"prompt", "cancelled"}
    /\ monitor' = [monitor EXCEPT ![m] = "running"]
    /\ listening' = listening \union {m} /\ monRef' = m
    /\ UNCHANGED <<room, realtime, astray>>

\* The microphone opens for the monitor, or for a run cancelled meanwhile.
MonitorOpens(m) ==
    /\ \/ /\ monitor[m] = "prompt"
          /\ monitor' = [monitor EXCEPT ![m] = "running"]
          /\ listening' = listening \union {m} /\ monRef' = m
       \/ /\ monitor[m] = "cancelled"
          /\ monitor' = [monitor EXCEPT ![m] = "over"]
          /\ UNCHANGED <<listening, monRef>>
    /\ UNCHANGED <<room, realtime, astray>>

\* The prompt is denied, or there is no AudioContext: the stream, if any, is stopped.
MonitorDenied(m) ==
    /\ monitor[m] = "prompt"
    /\ monitor' = [monitor EXCEPT ![m] = "over"]
    /\ UNCHANGED <<room, realtime, listening, monRef, astray>>

\* The microphone opens, but the audio graph cannot be built on it (new AudioContext,
\* createMediaStreamSource, connect): the catch block stops no track, and no ref
\* holds the stream yet.
MonitorFails(m) ==
    /\ monitor[m] = "prompt"
    /\ monitor' = [monitor EXCEPT ![m] = "failed"]
    /\ listening' = listening \union {m}
    /\ UNCHANGED <<room, realtime, monRef, astray>>

(* ------------------------------- the page ------------------------------- *)

\* Another route: the realtime call ends, and so does the voice room.
SetRoute(r) ==
    /\ mounted /\ r # route
    /\ route' = r /\ call' = (call /\ r = "browser")
    /\ IF r = "realtime" THEN UNCHANGED <<conn, closed, mic, peerRef, micRef>>
       ELSE Cleanup(peerRef, micRef) /\ conn' = "unavailable"
    /\ Rerun(FALSE)
    /\ UNCHANGED <<mounted, start, astray>>

Leave ==
    /\ mounted /\ mounted' = FALSE
    /\ Cleanup(peerRef, micRef)
    /\ Rerun(FALSE)
    /\ astray' = (astray \/ InSession # {})
    /\ UNCHANGED <<route, call, conn, start>>

Next ==
    \/ \E s \in Start :
          \/ PressStart(s) \/ SessionArrives(s) \/ SessionUnavailable(s) \/ StartFails(s)
          \/ MicOpens(s) \/ AnswerArrives(s) \/ PeerChanges(s)
    \/ \E m \in Monitor : MonitorOpens(m) \/ MonitorDenied(m) \/ MonitorFails(m)
    \/ PressStop \/ ToggleCall \/ (\E r \in Route : SetRoute(r)) \/ Leave

Spec == Init /\ [][Next]_voiceVars

(* --------------------------- What must hold ----------------------------- *)

\* A microphone of the realtime call is open only on its route, and a ref that the
\* next cleanup goes through leads to it, so Stop, another route or leaving the page
\* releases it: however prompts, late sessions, failures and restarts interleave, as
\* long as no start is lost sight of while it waits for its session.
MicReachable ==
    ~astray => \A s \in mic : mounted /\ route = "realtime" /\ s \in {peerRef, micRef}

\* The monitor's microphone is open only while the voice room is on, whichever
\* prompts are answered after the room was left. A run whose audio graph could not be
\* built is the exception: its microphone stays open, and nothing in the page closes it.
MonitorReleased ==
    \A m \in listening :
        monitor[m] # "failed" => mounted /\ call /\ route = "browser" /\ m = monRef
=============================================================================
