------------------------------ MODULE LiveLink ------------------------------
(* One server-sent-event stream of a page: the effect that opens it, reads  *)
(* it, reconnects after a delay, and is torn down when the tab is hidden or *)
(* a dependency of the effect changes.                                      *)
(*                                                                          *)
(* Every run of the effect has a cancelled flag, an abort controller and at *)
(* most one timer of its own, and an asynchronous connect() that may still  *)
(* be waiting for the network after its effect was cleaned up.              *)
EXTENDS Naturals, FiniteSets

CONSTANTS
    Effect,         \* the runs of the effect
    MaxBreaks       \* bound: failed connects and lost connections

VARIABLES
    active,         \* isPageActive
    run,            \* what each run of the effect is doing
    breaks

linkState == <<active, run, breaks>>

\* connect() waits for the response ("fetching") or for bytes ("reading"), or
\* the run waits for its timer. "unused" runs have not been started.
Phase == {"unused", "fetching", "reading", "timer", "over"}

Run == [phase: Phase, cancelled: BOOLEAN, socket: BOOLEAN]

TypeOK ==
    /\ active \in BOOLEAN
    /\ run \in [Effect -> Run]
    /\ breaks \in Nat

Fresh == [phase |-> "unused", cancelled |-> FALSE, socket |-> FALSE]
Started == [phase |-> "fetching", cancelled |-> FALSE, socket |-> FALSE]

\* The effect runs at once if the page opens in a tab that is visible and focused.
Init ==
    /\ active \in BOOLEAN
    /\ LET first == CHOOSE e \in Effect : TRUE
       IN  run = [e \in Effect |-> IF active /\ e = first THEN Started ELSE Fresh]
    /\ breaks = 0

Live(e) == run[e].phase # "unused" /\ ~run[e].cancelled

\* Mutant: the connection is left to end by itself.
CleanedUp_NoAbort(r) ==
    [r EXCEPT !.cancelled = TRUE, !.phase = IF @ = "timer" THEN "over" ELSE @]

\* The cleanup of an effect: isCancelled, abort() and clearTimeout(). The abort
\* closes the socket at once; what connect() awaits rejects later (Resume).
CleanedUp(r) ==
    [r EXCEPT !.cancelled = TRUE, !.socket = FALSE,
              !.phase = IF @ = "timer" THEN "over" ELSE @]

\* Mutant: an effect without a cleanup.
CleanedRuns_Not == run

CleanedRuns == [e \in Effect |-> IF Live(e) THEN CleanedUp(run[e]) ELSE run[e]]

\* visibilitychange or blur.
Deactivate ==
    /\ active
    /\ active' = FALSE
    /\ run' = CleanedRuns
    /\ UNCHANGED breaks

\* visibilitychange or focus: the effect runs again.
Activate ==
    /\ ~active
    /\ \E e \in Effect : /\ run[e].phase = "unused"
                         /\ run' = [run EXCEPT ![e] = Started]
    /\ active' = TRUE
    /\ UNCHANGED breaks

\* A dependency changed (the board was loaded again, a callback is new): the
\* cleanup of the last run, then the effect.
Rerun ==
    /\ active
    /\ \E e \in Effect : /\ run[e].phase = "unused"
                         /\ run' = [CleanedRuns EXCEPT ![e] = Started]
    /\ UNCHANGED <<active, breaks>>

\* The response arrives with status 200.
Opened(e) ==
    /\ run[e].phase = "fetching" /\ ~run[e].cancelled
    /\ run' = [run EXCEPT ![e].phase = "reading", ![e].socket = TRUE]
    /\ UNCHANGED <<active, breaks>>

\* Mutant: no reconnect.
AfterEnd_GivesUp(r) == [r EXCEPT !.phase = "over", !.socket = FALSE]

\* Mutant: a phase that no other step knows.
AfterEnd_Misspelt(r) == [r EXCEPT !.phase = "waiting", !.socket = FALSE]

\* After connect() failed or the stream ended: a timer, unless cancelled.
AfterEnd(r) ==
    [r EXCEPT !.phase = IF r.cancelled THEN "over" ELSE "timer", !.socket = FALSE]

\* The connect fails, or the open stream ends or breaks.
Fails(e) ==
    /\ run[e].phase \in {"fetching", "reading"} /\ ~run[e].cancelled
    /\ breaks < MaxBreaks
    /\ breaks' = breaks + 1
    /\ run' = [run EXCEPT ![e] = AfterEnd(run[e])]
    /\ UNCHANGED active

\* What an aborted connect() awaited rejects, or its loop sees isCancelled.
Resume(e) ==
    /\ run[e].phase \in {"fetching", "reading"} /\ run[e].cancelled
    /\ run' = [run EXCEPT ![e].phase = "over"]
    /\ UNCHANGED <<active, breaks>>

\* The reconnect timer calls connect() again.
Fire(e) ==
    /\ run[e].phase = "timer"
    /\ run' = [run EXCEPT ![e].phase = "fetching"]
    /\ UNCHANGED <<active, breaks>>

Next ==
    \/ Deactivate \/ Activate \/ Rerun
    \/ \E e \in Effect : Opened(e) \/ Fails(e) \/ Resume(e) \/ Fire(e)

Spec == Init /\ [][Next]_linkState

\* The network answers and timers fire; nobody has to come back to the tab.
Progress(e) == Opened(e) \/ Resume(e) \/ Fire(e)

(* --------------------------- What it promises --------------------------- *)

Sockets == {e \in Effect : run[e].socket}

\* The page's stream as its users see it.
Contract == INSTANCE LinkContract
    WITH visible <- active, link <- IF Sockets = {} THEN "down" ELSE "up"

\* The page holds at most one connection of this stream, and none while the tab
\* is hidden (usePageActive.ts: background tabs should not keep them), however
\* aborts, late answers and timers of earlier runs interleave.
OneConnection ==
    /\ Cardinality(Sockets) <= 1
    /\ ~active => Sockets = {}

\* The effect implements the contract: connections do not overlap, renewing one
\* ends the old one first, and hiding the tab ends it in the same step.
KeepsLink == Contract!LinkSpec

\* What a visible page has again and again, whatever breaks: there is no way through
\* errors, aborts and timers after which nobody reconnects.
Connected == ~active \/ Sockets # {}
=============================================================================
