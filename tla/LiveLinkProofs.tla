--------------------------- MODULE LiveLinkProofs ---------------------------
(* LiveLink implements LinkContract, for any number of effect runs and any    *)
(* number of lost connections.                                                *)
EXTENDS LiveLink, FiniteSetTheorems, TLAPS

(* The runs that are not cleaned up are at most one, and it belongs to the    *)
(* visible tab; only it, while it reads, has a socket.                        *)

OneLive == \A e, f \in Effect : Live(e) /\ Live(f) => e = f
LiveIsActive == \A e \in Effect : Live(e) => active
SocketReads == \A e \in Effect : run[e].socket => Live(e) /\ run[e].phase = "reading"

LinkInv == TypeOK /\ OneLive /\ LiveIsActive /\ SocketReads

\* A run of the effect stays well typed through what the code does to it.
LEMMA RunTypes ==
    ASSUME NEW r \in Run
    PROVE  /\ CleanedUp(r) \in Run /\ AfterEnd(r) \in Run
           /\ Started \in Run /\ Fresh \in Run
  BY DEF CleanedUp, AfterEnd, Started, Fresh, Run, Phase

\* After the cleanup no run is live and no run has a socket.
LEMMA CleanedRunsEnd ==
    ASSUME LinkInv, NEW r, r = CleanedRuns
    PROVE  /\ r \in [Effect -> Run]
           /\ \A e \in Effect : ~r[e].socket /\ (r[e].phase = "unused" \/ r[e].cancelled)
           /\ \A e \in Effect : (r[e].phase = "unused") = (run[e].phase = "unused")
<1>1. r \in [Effect -> Run]
  BY RunTypes DEF LinkInv, TypeOK, CleanedRuns
<1>2. ASSUME NEW e \in Effect
      PROVE  /\ ~r[e].socket /\ (r[e].phase = "unused" \/ r[e].cancelled)
             /\ (r[e].phase = "unused") = (run[e].phase = "unused")
  <2>1. run[e] \in Run
    BY DEF LinkInv, TypeOK
  <2>2. CASE Live(e)
    <3>1. r[e] = CleanedUp(run[e])
      BY <2>2 DEF CleanedRuns
    <3> QED
      BY <2>1, <2>2, <3>1 DEF CleanedUp, Live, Run
  <2>3. CASE ~Live(e)
    <3>1. r[e] = run[e] /\ ~run[e].socket
      BY <2>3, <2>1 DEF CleanedRuns, LinkInv, SocketReads, Run
    <3> QED
      BY <2>3, <3>1, <2>1 DEF Live, Run
  <2> QED
    BY <2>2, <2>3
<1> QED
  BY <1>1, <1>2

\* The page opens with one run of the effect, or in a hidden tab with none.
LEMMA LinkInitInv == Init => LinkInv
<1> SUFFICES ASSUME Init PROVE LinkInv
  OBVIOUS
<1> DEFINE first == CHOOSE e \in Effect : TRUE
<1>1. run = [e \in Effect |-> IF active /\ e = first THEN Started ELSE Fresh]
  BY DEF Init
<1>2. TypeOK
  BY <1>1 DEF Init, TypeOK, Run, Phase, Started, Fresh
<1>3. \A e \in Effect : (Live(e) => active /\ e = first) /\ ~run[e].socket
  BY <1>1 DEF Live, Started, Fresh
<1>4. OneLive /\ SocketReads
  BY <1>3 DEF OneLive, SocketReads
<1>5. LiveIsActive
  BY <1>3 DEF LiveIsActive
<1> QED
  BY <1>2, <1>4, <1>5 DEF LinkInv

\* What a step of one run does to it.
LEMMA OneRunStep ==
    ASSUME LinkInv, NEW e \in Effect, NEW r \in Run,
           run' = [run EXCEPT ![e] = r], active' = active, breaks' \in Nat,
           run[e].phase # "unused", r.cancelled = run[e].cancelled, r.phase # "unused",
           r.socket => ~r.cancelled /\ r.phase = "reading"
    PROVE  LinkInv'
<1>1. TypeOK'
  BY DEF LinkInv, TypeOK
<1>2. \A f \in Effect : run'[f] = IF f = e THEN r ELSE run[f]
  BY DEF LinkInv, TypeOK
<1>3. \A f \in Effect : Live(f)' = Live(f)
  BY <1>2 DEF Live
<1>4. OneLive' /\ LiveIsActive'
  BY <1>3 DEF LinkInv, OneLive, LiveIsActive
<1>5. ASSUME NEW f \in Effect, run'[f].socket
      PROVE  Live(f)' /\ run'[f].phase = "reading"
  BY <1>2, <1>5 DEF LinkInv, SocketReads, Live
<1> QED
  BY <1>1, <1>4, <1>5 DEF LinkInv, SocketReads

\* A run that starts when no other is live.
LEMMA StartStep ==
    ASSUME LinkInv, NEW runs \in [Effect -> Run], NEW e \in Effect,
           \A f \in Effect : ~runs[f].socket /\ (runs[f].phase = "unused" \/ runs[f].cancelled),
           run' = [runs EXCEPT ![e] = Started], active' = TRUE, UNCHANGED breaks
    PROVE  LinkInv' /\ Sockets' = {}
<1>1. \A f \in Effect : run'[f] = IF f = e THEN Started ELSE runs[f]
  OBVIOUS
<1>2. TypeOK'
  BY RunTypes DEF LinkInv, TypeOK, Started, Run, Phase
<1>3. \A f \in Effect : (Live(f)' => f = e) /\ ~run'[f].socket
  BY <1>1 DEF Live, Started
<1> QED
  BY <1>2, <1>3 DEF LinkInv, OneLive, LiveIsActive, SocketReads, Sockets

\* When the tab is hidden no run is live.
LEMMA HiddenIsIdle ==
    ASSUME LinkInv, ~active
    PROVE  /\ \A f \in Effect : ~run[f].socket /\ (run[f].phase = "unused" \/ run[f].cancelled)
           /\ Sockets = {}
  BY DEF LinkInv, LiveIsActive, SocketReads, Live, Sockets

\* Every step of the page keeps the invariant and is a step of the contract.
LEMMA LinkStep ==
    ASSUME LinkInv, [Next]_linkState
    PROVE  LinkInv' /\ [Contract!LinkNext]_(Contract!linkVars)
<1>1. CASE Deactivate
  <2>1. /\ run' \in [Effect -> Run] /\ active' = FALSE
        /\ \A e \in Effect : ~run'[e].socket /\ (run'[e].phase = "unused" \/ run'[e].cancelled)
    BY <1>1, CleanedRunsEnd DEF Deactivate
  <2>2. LinkInv'
    BY <1>1, <2>1 DEF Deactivate, LinkInv, TypeOK, OneLive, LiveIsActive, SocketReads, Live
  <2>3. Sockets' = {}
    BY <2>1 DEF Sockets
  <2> QED
    BY <1>1, <2>2, <2>3 DEF Deactivate, Contract!LinkNext, Contract!Hide, Contract!linkVars
<1>2. CASE Activate
  <2>1. PICK e \in Effect : run' = [run EXCEPT ![e] = Started]
    BY <1>2 DEF Activate
  <2>2. LinkInv' /\ Sockets' = {} /\ Sockets = {}
    <3>1. run \in [Effect -> Run]
      BY DEF LinkInv, TypeOK
    <3> QED
      BY <1>2, <2>1, <3>1, StartStep, HiddenIsIdle DEF Activate
  <2> QED
    BY <1>2, <2>2 DEF Activate, Contract!LinkNext, Contract!Show, Contract!linkVars
<1>3. CASE Rerun
  <2>1. PICK e \in Effect : run' = [CleanedRuns EXCEPT ![e] = Started]
    BY <1>3 DEF Rerun
  <2>2. active /\ active' = TRUE /\ UNCHANGED breaks
    BY <1>3 DEF Rerun, LinkInv, TypeOK
  <2>3. LinkInv' /\ Sockets' = {}
    BY <2>1, <2>2, CleanedRunsEnd, StartStep
  <2> QED
    BY <2>2, <2>3 DEF Contract!LinkNext, Contract!LinkBreak, Contract!linkVars
<1>4. ASSUME NEW e \in Effect, Opened(e)
      PROVE  LinkInv' /\ [Contract!LinkNext]_(Contract!linkVars)
  <2> DEFINE r == [run[e] EXCEPT !.phase = "reading", !.socket = TRUE]
  <2>1. run[e] \in Run /\ run \in [Effect -> Run]
    BY DEF LinkInv, TypeOK
  <2>2. run' = [run EXCEPT ![e] = r] /\ r \in Run /\ Live(e)
    BY <1>4, <2>1 DEF Opened, Run, Phase, Live
  <2>3. LinkInv'
    <3>1. /\ r.phase = "reading" /\ ~r.cancelled /\ ~run[e].cancelled
          /\ r.cancelled = run[e].cancelled /\ run[e].phase # "unused"
      BY <1>4, <2>1 DEF Opened, Run
    <3>2. active' = active /\ breaks' \in Nat
      BY <1>4 DEF Opened, LinkInv, TypeOK
    <3> HIDE DEF r
    <3> QED
      BY <2>2, <3>1, <3>2, OneRunStep
  <2>4. Sockets = {} /\ Sockets' # {}
    <3>1. e \in Sockets'
      BY <2>1, <2>2 DEF Sockets, Run
    <3>2. Sockets = {}
      BY <1>4, <2>2 DEF Opened, LinkInv, OneLive, SocketReads, Sockets
    <3> QED
      BY <3>1, <3>2
  <2>5. active
    BY <2>2 DEF LinkInv, LiveIsActive
  <2> QED
    BY <1>4, <2>3, <2>4, <2>5
    DEF Opened, Contract!LinkNext, Contract!LinkUp, Contract!linkVars
<1>5. ASSUME NEW e \in Effect, Fails(e)
      PROVE  LinkInv' /\ [Contract!LinkNext]_(Contract!linkVars)
  <2>1. run[e] \in Run /\ run \in [Effect -> Run] /\ AfterEnd(run[e]) \in Run
    BY RunTypes DEF LinkInv, TypeOK
  <2>2. LinkInv'
    <3>1. breaks' \in Nat
      BY <1>5 DEF Fails, LinkInv, TypeOK
    <3>2. /\ ~AfterEnd(run[e]).socket /\ AfterEnd(run[e]).phase # "unused"
          /\ AfterEnd(run[e]).cancelled = run[e].cancelled
      BY <2>1 DEF AfterEnd, Run
    <3> QED
      BY <1>5, <2>1, <3>1, <3>2, OneRunStep DEF Fails
  <2>3. Sockets' = Sockets \ {e}
    BY <1>5, <2>1 DEF Fails, Sockets, AfterEnd, Run
  <2>4. Sockets = {} \/ Sockets' = {}
    BY <1>5, <2>3 DEF Fails, Live, LinkInv, OneLive, SocketReads, Sockets
  <2> QED
    BY <1>5, <2>2, <2>3, <2>4
    DEF Fails, Contract!LinkNext, Contract!LinkBreak, Contract!linkVars
<1>6. ASSUME NEW e \in Effect, Resume(e) \/ Fire(e)
      PROVE  LinkInv' /\ [Contract!LinkNext]_(Contract!linkVars)
  <2>1. run[e] \in Run /\ run \in [Effect -> Run]
    BY DEF LinkInv, TypeOK
  <2>2. ~run[e].socket /\ run[e].phase # "unused" /\ UNCHANGED <<active, breaks>>
    BY <1>6, <2>1 DEF Resume, Fire, LinkInv, SocketReads, Live, Run
  <2>3. PICK ph \in {"over", "fetching"} : run' = [run EXCEPT ![e].phase = ph]
    BY <1>6 DEF Resume, Fire
  <2>4. LinkInv'
    <3> DEFINE r == [run[e] EXCEPT !.phase = ph]
    <3>1. /\ run' = [run EXCEPT ![e] = r] /\ r \in Run
          /\ ~r.socket /\ r.phase # "unused" /\ r.cancelled = run[e].cancelled
      BY <2>1, <2>2, <2>3 DEF Run, Phase
    <3>2. breaks' \in Nat /\ active' = active
      BY <2>2 DEF LinkInv, TypeOK
    <3> HIDE DEF r
    <3> QED
      BY <2>2, <3>1, <3>2, OneRunStep
  <2>5. Sockets' = Sockets
    BY <2>1, <2>3 DEF Sockets, Run
  <2> QED
    BY <2>2, <2>4, <2>5 DEF Contract!linkVars
<1>7. CASE UNCHANGED linkState
  <2>1. LinkInv'
    BY <1>7 DEF linkState, LinkInv, TypeOK, OneLive, LiveIsActive, SocketReads, Live
  <2> QED
    BY <1>7, <2>1 DEF linkState, Contract!linkVars, Sockets
<1> QED
  BY <1>1, <1>2, <1>3, <1>4, <1>5, <1>6, <1>7 DEF Next

\* The page holds at most one connection, and none while it is hidden.
LEMMA InvMeansOne ==
    ASSUME LinkInv
    PROVE  OneConnection
<1>1. \A e, f \in Sockets : e = f
  BY DEF LinkInv, OneLive, SocketReads, Sockets
<1>2. Cardinality(Sockets) <= 1
  <2>1. CASE Sockets = {}
    BY <2>1, FS_EmptySet
  <2>2. CASE Sockets # {}
    <3>1. PICK e : Sockets = {e}
      BY <1>1, <2>2
    <3>2. Cardinality({e}) = 1
      BY FS_Singleton
    <3> QED
      BY <3>1, <3>2
  <2> QED
    BY <2>1, <2>2
<1> QED
  BY <1>2, HiddenIsIdle DEF OneConnection

LEMMA LinkInvariant == Spec => []LinkInv
<1>1. LinkInv /\ [Next]_linkState => LinkInv'
  BY LinkStep
<1> QED
  BY <1>1, LinkInitInv, PTL DEF Spec

\* However aborts, late answers and timers of earlier effect runs interleave, the
\* page holds at most one connection of a stream, and none while it is hidden.
THEOREM AtMostOneConnection == Spec => []OneConnection
<1>1. LinkInv => OneConnection
  BY InvMeansOne
<1> QED
  BY <1>1, LinkInvariant, PTL

\* The effect implements the contract that the board's chat relies on.
THEOREM LinkImplementsContract == Spec => KeepsLink
<1>1. Init => Contract!LinkInit
  <2>1. ASSUME Init PROVE Sockets = {}
    BY <2>1 DEF Init, Sockets, Started, Fresh
  <2> QED
    BY <2>1 DEF Init, Contract!LinkInit
<1>2. LinkInv /\ [Next]_linkState => [Contract!LinkNext]_(Contract!linkVars)
  BY LinkStep
<1> QED
  BY <1>1, <1>2, LinkInvariant, PTL DEF Spec, KeepsLink, Contract!LinkSpec
=============================================================================
