------------------------- MODULE IdleWatcherProofs -------------------------
(* Proofs of the invariants of IdleWatcher, for any requests and bounds. *)
EXTENDS IdleWatcher, TLAPS

(***************************************************************************)
(* What the daemon appends to the event queue.                              *)
(***************************************************************************)

\* Emit keeps the queue well typed and, unless the event is missed, puts the
\* last emitted event at its end.
LEMMA EmitLemma ==
    ASSUME TypeOK, NEW es \in Seq(Events), es # <<>>, Emit(es)
    PROVE  /\ evQ' \in Seq(Events)
           /\ conn' \in BOOLEAN /\ missed' \in BOOLEAN
           /\ ~missed' => /\ ~missed
                          /\ evQ' # <<>>
                          /\ evQ'[Len(evQ')] = es[Len(es)]
<1>1. evQ \in Seq(Events) /\ conn \in BOOLEAN /\ missed \in BOOLEAN
  BY DEF TypeOK
<1>2. Len(es) \in Nat /\ Len(es) > 0
  OBVIOUS
<1>3. evQ \o es \in Seq(Events) /\ Len(evQ \o es) = Len(evQ) + Len(es)
  BY <1>1
<1>4. (evQ \o es)[Len(evQ) + Len(es)] = es[Len(es)]
  <2>1. Len(evQ) \in Nat
    BY <1>1
  <2>2. \A i \in 1..Len(evQ) + Len(es) :
           (evQ \o es)[i] = IF i <= Len(evQ) THEN evQ[i] ELSE es[i - Len(evQ)]
    BY <1>1
  <2> QED BY <1>2, <2>1, <2>2
<1>5. CASE conn
  <2>1. evQ' = evQ \o es /\ missed' = missed
    BY <1>1, <1>5 DEF Emit
  <2>2. evQ' # <<>>
    BY <1>1, <1>2, <1>3, <2>1
  <2> QED BY <1>1, <1>3, <1>4, <2>1, <2>2 DEF Emit
<1>6. CASE ~conn
  <2>1. evQ' = evQ /\ missed' = TRUE /\ conn' = conn
    BY <1>6, Zenon DEF Emit
  <2> QED BY <1>1, <2>1
<1> QED BY <1>1, <1>5, <1>6

\* Every operation on the container ends with the event that tells of it.
LEMMA OperationsLemma ==
    \A o \in Operations :
        /\ o[1] \in Containers /\ o[2] \in Containers
        /\ o[3] \in Seq(Events) /\ o[3] # <<>>
        /\ Matches(o[3][Len(o[3])], o[2])
<1> SUFFICES ASSUME NEW o \in Operations
             PROVE  /\ o[1] \in Containers /\ o[2] \in Containers
                    /\ o[3] \in Seq(Events) /\ o[3] # <<>>
                    /\ Matches(o[3][Len(o[3])], o[2])
  OBVIOUS
<1> USE DEF Containers, Events, Matches
<1>1. CASE o = <<"stopped", "running", <<"start">>>>
  <2>1. o[1] = "stopped" /\ o[2] = "running" /\ o[3] = <<"start">>
    BY <1>1
  <2> QED BY <2>1
<1>2. CASE o = <<"running", "stopping", <<"kill">>>>
  <2>1. o[1] = "running" /\ o[2] = "stopping" /\ o[3] = <<"kill">>
    BY <1>2
  <2> QED BY <2>1
<1>3. CASE o = <<"running", "stopped", <<"die">>>>
  <2>1. o[1] = "running" /\ o[2] = "stopped" /\ o[3] = <<"die">>
    BY <1>3
  <2> QED BY <2>1
<1>4. CASE o = <<"running", "paused", <<"pause">>>>
  <2>1. o[1] = "running" /\ o[2] = "paused" /\ o[3] = <<"pause">>
    BY <1>4
  <2> QED BY <2>1
<1>5. CASE o = <<"paused", "running", <<"unpause">>>>
  <2>1. o[1] = "paused" /\ o[2] = "running" /\ o[3] = <<"unpause">>
    BY <1>5
  <2> QED BY <2>1
<1>6. CASE o = <<"running", "gone", <<"die", "destroy">>>>
  <2>1. o[1] = "running" /\ o[2] = "gone" /\ o[3] = <<"die", "destroy">>
    BY <1>6
  <2> QED BY <2>1
<1>7. CASE o = <<"stopped", "gone", <<"destroy">>>>
  <2>1. o[1] = "stopped" /\ o[2] = "gone" /\ o[3] = <<"destroy">>
    BY <1>7
  <2> QED BY <2>1
<1> QED BY <1>1, <1>2, <1>3, <1>4, <1>5, <1>6, <1>7, Zenon DEF Operations

(***************************************************************************)
(* Types.                                                                   *)
(***************************************************************************)

\* The state NewWatcher builds is well typed.
LEMMA TypeInit == Init => TypeOK
<1> SUFFICES ASSUME Init PROVE TypeOK
  OBVIOUS
<1>1. container \in Containers /\ state \in States /\ seen \in States
  BY DEF Init, Containers, States, Statuses, Unseen, ContainerStatus
<1>2. /\ evQ \in Seq(Events) /\ req \in [Reqs -> Pcs]
      /\ ops \in 0..MaxOps /\ drops \in 0..MaxDrops
      /\ reloads \in 0..MaxReloads /\ stopFails \in 0..MaxStopFails
  BY BoundsAssumption DEF Init, Pcs
<1>3. /\ conn \in BOOLEAN /\ missed \in BOOLEAN
      /\ overdue \in BOOLEAN /\ urlSet \in BOOLEAN
      /\ idleOn \in BOOLEAN /\ healthOn \in BOOLEAN
      /\ notify \in BOOLEAN /\ closed \in BOOLEAN /\ taskDone \in BOOLEAN
  BY Zenon DEF Init
<1> QED BY <1>1, <1>2, <1>3 DEF Init, TypeOK

\* Every step of the loop, of a request, of a reload and of docker keeps the types.
LEMMA TypeNext == TypeOK /\ [Next]_vars => TypeOK'
<1> SUFFICES ASSUME TypeOK, [Next]_vars PROVE TypeOK'
  OBVIOUS
<1> USE DEF dockerVars, tickers, chan, loopVars, reqVars, reloadVars, bounds
<1>1. CASE Operate
  <2>1. PICK o \in Operations : container' = o[2] /\ Emit(o[3])
    BY <1>1 DEF Operate
  <2>2. evQ' \in Seq(Events) /\ conn' \in BOOLEAN /\ missed' \in BOOLEAN
    BY <2>1, OperationsLemma, EmitLemma
  <2> QED BY <1>1, <2>1, <2>2, OperationsLemma, BoundsAssumption, SMTT(30) DEF Operate, TypeOK
<1>2. CASE Die
  <2>1. <<"die">> \in Seq(Events) /\ <<"die">> # <<>>
    BY DEF Events
  <2>2. evQ' \in Seq(Events) /\ conn' \in BOOLEAN /\ missed' \in BOOLEAN
    BY <1>2, <2>1, EmitLemma, Zenon DEF Die
  <2> QED BY <1>2, <2>2 DEF Die, TypeOK, Containers
<1>3. CASE Subscribe
  BY <1>3 DEF Subscribe, TypeOK
<1>4. CASE Disconnect
  <2>1. conn' \in BOOLEAN /\ missed' \in BOOLEAN
    BY <1>4, Zenon DEF Disconnect, TypeOK
  <2>2. evQ' \in Seq(Events)
    <3>1. evQ' = evQ \/ evQ' = <<>>
      BY <1>4 DEF Disconnect
    <3>2. evQ \in Seq(Events) /\ <<>> \in Seq(Events)
      BY DEF TypeOK
    <3> QED BY <3>1, <3>2, Zenon
  <2>3. drops' \in 0..MaxDrops
    BY <1>4, BoundsAssumption DEF Disconnect, TypeOK
  <2> QED BY <1>4, <2>1, <2>2, <2>3 DEF Disconnect, TypeOK
<1>5. CASE WakeTimeoutElapses
  BY <1>5 DEF WakeTimeoutElapses, TypeOK
<1>6. CASE TaskCancelled
  BY <1>6, BoundsAssumption DEF TaskCancelled, TypeOK
<1>7. CASE ReloadNext
  <2>1. CASE ReloadBegin
    BY <2>1, BoundsAssumption DEF ReloadBegin, TypeOK
  <2>2. CASE ReloadRead
    BY <2>2 DEF ReloadRead, TypeOK, ContainerStatus, Containers, Statuses
  <2>3. CASE ReloadStore
    <3>1. state' \in States
      BY <2>3 DEF ReloadStore, TypeOK, States
    <3> QED BY <2>3, <3>1 DEF ReloadStore, TypeOK
  <2> QED BY <1>7, <2>1, <2>2, <2>3 DEF ReloadNext
<1>8. CASE LoopNext
  <2>1. CASE RecvEvent
    <3>1. evQ' \in Seq(Events) /\ Head(evQ) \in Events
      BY <2>1 DEF RecvEvent, TypeOK
    <3>2. CASE Head(evQ) = "destroy"
      <4>1. loop' = "exiting" /\ UNCHANGED <<state, overdue, idleOn, healthOn>>
        BY <2>1, <3>2 DEF RecvEvent
      <4> QED BY <2>1, <3>1, <4>1 DEF RecvEvent, TypeOK
    <3>3. CASE Head(evQ) \in {"start", "unpause"}
      <4>1. setStarting /\ overdue' = FALSE /\ idleOn' = TRUE /\ healthOn' = TRUE
            /\ loop' = loop
        BY <2>1, <3>3 DEF RecvEvent
      <4>2. state' \in States
        BY <4>1 DEF setStarting, States, Statuses
      <4>3. overdue' \in BOOLEAN /\ idleOn' \in BOOLEAN /\ healthOn' \in BOOLEAN
        BY <4>1, Zenon
      <4> QED BY <2>1, <3>1, <4>1, <4>2, <4>3 DEF RecvEvent, TypeOK
    <3>4. CASE Head(evQ) \in {"kill", "die", "pause"}
      <4>1. /\ \E s \in Statuses : setNapping(s)
            /\ overdue' = FALSE /\ idleOn' = FALSE /\ healthOn' = FALSE
            /\ loop' = loop
        BY <2>1, <3>4 DEF RecvEvent, Statuses
      <4>2. state' \in States
        BY <4>1 DEF setNapping, States
      <4>3. overdue' \in BOOLEAN /\ idleOn' \in BOOLEAN /\ healthOn' \in BOOLEAN
        BY <4>1, Zenon
      <4> QED BY <2>1, <3>1, <4>1, <4>2, <4>3 DEF RecvEvent, TypeOK
    <3> QED BY <3>1, <3>2, <3>3, <3>4 DEF Events
  <2>2. CASE HealthTick
    <3>1. state' \in States
      <4>1. setError => state' \in States
        BY DEF setError, States, Statuses
      <4> QED BY <2>2, <4>1, Zenon DEF HealthTick, TypeOK
    <3>4. seen' \in States
      BY <2>2, Zenon DEF HealthTick, TypeOK
    <3>2. overdue' \in BOOLEAN /\ healthOn' \in BOOLEAN
      BY <2>2, Zenon DEF HealthTick, TypeOK
    <3>3. loop' \in {loop, "probing"}
      BY <2>2, Zenon DEF HealthTick
    <3> QED BY <2>2, <3>1, <3>2, <3>3, <3>4 DEF HealthTick, TypeOK
  <2>3. CASE CheckHealth
    BY <2>3 DEF CheckHealth, TypeOK
  <2>4. CASE checkUpdateState
    <3>1. seen' \in States
      BY <2>4 DEF checkUpdateState, Unseen, States, Statuses
    <3>2. CASE probe = "healthy"
      <4>1. setReady /\ overdue' = FALSE /\ loop' = "ready" /\ healthOn' = healthOn
        BY <2>4, <3>2 DEF checkUpdateState
      <4>2. state' \in States
        BY <4>1 DEF setReady, States, Statuses
      <4>3. overdue' \in BOOLEAN /\ notify' \in BOOLEAN
        BY <4>1, Zenon DEF setReady
      <4> QED BY <2>4, <3>1, <4>1, <4>2, <4>3 DEF checkUpdateState, TypeOK
    <3>3. CASE probe = "error"
      <4>1. setError /\ overdue' = FALSE /\ loop' = "select" /\ healthOn' = FALSE
            /\ notify' = notify
        BY <2>4, <3>3 DEF checkUpdateState
      <4>2. state' \in States
        BY <4>1 DEF setError, States, Statuses
      <4>3. overdue' \in BOOLEAN /\ healthOn' \in BOOLEAN
        BY <4>1, Zenon
      <4> QED BY <2>4, <3>1, <4>1, <4>2, <4>3 DEF checkUpdateState, TypeOK
    <3>4. CASE probe = "unhealthy"
      BY <2>4, <3>1, <3>4 DEF checkUpdateState, TypeOK
    <3> QED BY <2>4, <3>2, <3>3, <3>4 DEF checkUpdateState
  <2>5. CASE BecameReady
    <3>1. /\ healthOn' \in BOOLEAN /\ notify' \in BOOLEAN /\ idleOn' \in BOOLEAN
          /\ loop' = "select"
      BY <2>5, Zenon DEF BecameReady
    <3> QED BY <2>5, <3>1 DEF BecameReady, TypeOK
  <2>6. CASE IdleTick
    <3>1. idleOn' \in BOOLEAN /\ loop' \in {"select", "stopping"}
      BY <2>6, Zenon DEF IdleTick
    <3> QED BY <2>6, <3>1 DEF IdleTick, TypeOK
  <2>7. CASE stopByMethod
    <3>1. /\ <<"pause">> \in Seq(Events) /\ <<"pause">> # <<>>
          /\ <<"kill">> \in Seq(Events) /\ <<"kill">> # <<>>
      BY DEF Events
    <3>2. evQ' \in Seq(Events) /\ conn' \in BOOLEAN /\ missed' \in BOOLEAN
      <4>1. CASE UNCHANGED dockerVars
        BY <4>1 DEF TypeOK
      <4>2. CASE Emit(<<"pause">>)
        BY <4>2, <3>1, EmitLemma, Zenon
      <4>3. CASE Emit(<<"kill">>)
        BY <4>3, <3>1, EmitLemma, Zenon
      <4> QED BY <2>7, <4>1, <4>2, <4>3 DEF stopByMethod
    <3> QED BY <2>7, <3>2 DEF stopByMethod, TypeOK, Containers
  <2>8. CASE StopReturns
    BY <2>8 DEF StopReturns, TypeOK
  <2>9. CASE StopFails
    BY <2>9, BoundsAssumption DEF StopFails, TypeOK
  <2>10. CASE LoopCancelled
    BY <2>10 DEF LoopCancelled, TypeOK
  <2>11. CASE LoopExit
    <3>1. /\ idleOn' \in BOOLEAN /\ healthOn' \in BOOLEAN
          /\ closed' \in BOOLEAN /\ taskDone' \in BOOLEAN
      BY <2>11, Zenon DEF LoopExit, TypeOK
    <3>2. loop' = "done"
      BY <2>11 DEF LoopExit
    <3> QED BY <2>11, <3>1, <3>2 DEF LoopExit, TypeOK
  <2> QED BY <1>8, <2>1, <2>2, <2>3, <2>4, <2>5, <2>6, <2>7, <2>8, <2>9, <2>10, <2>11 DEF LoopNext
<1>9. ASSUME NEW p \in Reqs, ReqNext(p) PROVE TypeOK'
  <2> USE DEF Goto
  <2>1. CASE Arrive(p)
    BY <2>1 DEF Arrive, TypeOK, Pcs
  <2>2. CASE Answered(p)
    BY <2>2 DEF Answered, TypeOK, Pcs
  <2>3. CASE CheckReady(p)
    BY <2>3 DEF CheckReady, TypeOK, Pcs
  <2>4. CASE Wake(p)
    <3>1. wakeOp' \in {wakeOp, "start", "unpause"}
      BY <2>4, Zenon DEF Wake
    <3>2. \E pc \in Pcs : Goto(p, pc)
      BY <2>4 DEF Wake, AfterWake, Pcs
    <3>3. req' \in [Reqs -> Pcs]
      BY <3>2 DEF TypeOK
    <3> QED BY <2>4, <3>1, <3>3 DEF Wake, TypeOK
  <2>5. CASE WakeReturns(p)
    <3>1. evQ' \in Seq(Events) /\ conn' \in BOOLEAN /\ missed' \in BOOLEAN
      <4>1. CASE UNCHANGED dockerVars
        BY <4>1 DEF TypeOK
      <4>2. CASE Emit(<<wakeOp>>)
        <5>1. <<wakeOp>> \in Seq(Events) /\ <<wakeOp>> # <<>>
          BY <2>5 DEF WakeReturns, WakeOpValid, Events
        <5> QED BY <4>2, <5>1, EmitLemma, Zenon
      <4> QED BY <2>5, <4>1, <4>2 DEF WakeReturns
    <3>2. req' \in [Reqs -> Pcs] /\ wakeOp' = "none"
      BY <2>5 DEF WakeReturns, EndFlight, AfterWake, TypeOK, Pcs
    <3> QED BY <2>5, <3>1, <3>2 DEF WakeReturns, TypeOK, Containers
  <2>6. CASE WakeFails(p)
    BY <2>6 DEF WakeFails, TypeOK, Pcs, EndFlight, AfterWake
  <2>7. CASE WaitForReady(p)
    <3>1. req' \in [Reqs -> Pcs]
      BY <2>7 DEF WaitForReady, TypeOK, Pcs
    <3>2. idleOn' \in BOOLEAN /\ notify' \in BOOLEAN
      BY <2>7, Zenon DEF WaitForReady, TypeOK, chan
    <3> QED BY <2>7, <3>1, <3>2 DEF WaitForReady, TypeOK
  <2>8. CASE Notified(p)
    <3>1. req' \in [Reqs -> Pcs]
      BY <2>8 DEF Notified, TypeOK, Pcs
    <3>2. idleOn' \in BOOLEAN /\ notify' \in BOOLEAN
      BY <2>8, Zenon DEF Notified, TypeOK, chan
    <3> QED BY <2>8, <3>1, <3>2 DEF Notified, TypeOK
  <2>9. CASE CtxDone(p)
    BY <2>9 DEF CtxDone, TypeOK, Pcs
  <2>10. CASE onRead(p)
    BY <2>10 DEF onRead, TypeOK, Pcs
  <2>11. CASE RequestEnds(p)
    BY <2>11 DEF RequestEnds, TypeOK, Pcs
  <2> QED BY <1>9, <2>1, <2>2, <2>3, <2>4, <2>5, <2>6, <2>7, <2>8, <2>9, <2>10, <2>11 DEF ReqNext
<1>10. CASE UNCHANGED vars
  BY <1>10 DEF vars, TypeOK
<1> QED BY <1>1, <1>2, <1>3, <1>4, <1>5, <1>6, <1>7, <1>8, <1>9, <1>10 DEF Next, DockerNext

\* Every variable keeps its type, for every set of requests and every bound.
THEOREM TypeCorrect == Spec => []TypeOK
BY TypeInit, TypeNext, PTL DEF Spec

(***************************************************************************)
(* The inductive invariant.                                                 *)
(***************************************************************************)

\* The newest event that waits tells what the container is (LastMatches): a
\* change of the container comes with its event, and receiving an event does
\* not change which one is the newest.
LEMMA LastNext ==
    ASSUME TypeOK, LastMatches, [Next]_vars
    PROVE  LastMatches'
<1> USE DEF dockerVars
<1>1. ASSUME NEW es \in Seq(Events), es # <<>>, Emit(es),
             Matches(es[Len(es)], container')
      PROVE  LastMatches'
  BY <1>1, EmitLemma DEF LastMatches
<1>2. /\ \A e \in Events : <<e>> \in Seq(Events) /\ <<e>> # <<>>
      /\ \A e : Len(<<e>>) = 1 /\ <<e>>[1] = e
  OBVIOUS
<1>3. CASE UNCHANGED dockerVars
  BY <1>3 DEF LastMatches
<1>4. CASE Operate
  <2>1. PICK o \in Operations : container' = o[2] /\ Emit(o[3])
    BY <1>4 DEF Operate
  <2>2. Matches(o[3][Len(o[3])], container')
    BY <2>1, OperationsLemma
  <2> QED BY <1>1, <2>1, <2>2, OperationsLemma
<1>5. CASE Die
  BY <1>1, <1>2, <1>5, Zenon DEF Die, Matches, Events
<1>6. CASE Subscribe
  BY <1>6 DEF Subscribe, LastMatches
<1>7. CASE Disconnect
  BY <1>7 DEF Disconnect, LastMatches
<1>8. CASE RecvEvent
  <2>1. evQ' = Tail(evQ) /\ container' = container /\ missed' = missed
    BY <1>8 DEF RecvEvent
  <2>2. evQ' # <<>> => evQ # <<>> /\ evQ'[Len(evQ')] = evQ[Len(evQ)]
    BY <1>8, <2>1 DEF RecvEvent, TypeOK
  <2> QED BY <2>1, <2>2 DEF LastMatches
<1>9. CASE stopByMethod
  <2>1. CASE container' = "paused" /\ Emit(<<"pause">>)
    BY <1>1, <1>2, <2>1, Zenon DEF Matches, Events
  <2>2. CASE container' = "stopping" /\ Emit(<<"kill">>)
    BY <1>1, <1>2, <2>2, Zenon DEF Matches, Events
  <2> QED BY <1>3, <1>9, <2>1, <2>2 DEF stopByMethod
<1>10. ASSUME NEW p \in Reqs, WakeReturns(p) PROVE LastMatches'
  <2>1. CASE container' = "running" /\ Emit(<<wakeOp>>)
    <3>1. wakeOp \in {"start", "unpause"}
      BY <1>10 DEF WakeReturns, WakeOpValid
    <3>2. Matches(<<wakeOp>>[Len(<<wakeOp>>)], container')
      BY <1>2, <2>1, <3>1, Zenon DEF Matches
    <3> QED BY <1>1, <1>2, <2>1, <3>1, <3>2 DEF Events
  <2> QED BY <1>3, <1>10, <2>1 DEF WakeReturns
<1>11. ASSUME NEW p \in Reqs, ReqNext(p) PROVE LastMatches'
  <2>1. WakeReturns(p) \/ UNCHANGED dockerVars
    BY <1>11, Zenon DEF ReqNext, Arrive, Answered, CheckReady, Wake, WakeFails,
                 WaitForReady, Notified, CtxDone, onRead, RequestEnds
  <2> QED BY <1>3, <1>10, <2>1
<1>12. LoopNext => RecvEvent \/ stopByMethod \/ UNCHANGED dockerVars
  BY DEF LoopNext, HealthTick, CheckHealth, checkUpdateState, BecameReady,
         IdleTick, StopReturns, StopFails, LoopCancelled, LoopExit
<1>13. WakeTimeoutElapses \/ TaskCancelled \/ ReloadNext \/ UNCHANGED vars
         => UNCHANGED dockerVars
  BY DEF WakeTimeoutElapses, TaskCancelled, ReloadNext, ReloadBegin, ReloadRead,
         ReloadStore, vars
<1> QED BY <1>3, <1>4, <1>5, <1>6, <1>7, <1>8, <1>9, <1>11, <1>12, <1>13
        DEF Next, DockerNext

\* What the other parts of the invariant talk about.
core == <<container, evQ, missed, state, healthOn, loop, seen, probe, reload, reloads>>

\* Every step keeps the inductive invariant of the loop, the events and the state.
LEMMA IInvNext ==
    ASSUME TypeOK, IInv, [Next]_vars
    PROVE  IInv'
<1>1. LastMatches'
  BY LastNext, SMTT(30) DEF IInv
<1> USE DEF dockerVars, tickers, chan, loopVars, reloadVars, bounds
<1> USE DEF DrainedAgrees, ProbeSteady, ReloadCounted, StatusAgrees, StartingIsProbed
<1> DEFINE Rest == DrainedAgrees /\ ProbeSteady /\ ReloadCounted /\ StatusAgrees
                   /\ StartingIsProbed
<1>2. CASE UNCHANGED core
  <2>1. Rest'
    BY <1>2 DEF core, IInv, Alive, Running
  <2> QED BY <1>1, <2>1 DEF IInv
\* A change of the container is not yet known to the loop.
<1>3. ASSUME NEW es \in Seq(Events), es # <<>>, Emit(es),
             UNCHANGED <<state, healthOn, seen, probe, reload, reloads>>,
             loop' = loop \/ (loop = "stopping" /\ loop' = "stopWait")
      PROVE  IInv'
  <2>1. ~missed' => evQ' # <<>>
    BY <1>3, EmitLemma
  <2>2. Rest'
    BY <1>3, <2>1 DEF IInv, Alive, Running
  <2> QED BY <1>1, <2>2 DEF IInv
<1>4. \A e \in Events : <<e>> \in Seq(Events) /\ <<e>> # <<>>
  OBVIOUS
<1>5. CASE DockerNext
  <2>1. CASE Operate
    <3>1. PICK o \in Operations : Emit(o[3])
      BY <2>1 DEF Operate
    <3> QED BY <1>3, <2>1, <3>1, OperationsLemma DEF Operate
  <2>2. CASE Die
    BY <1>3, <1>4, <2>2, Zenon DEF Die, Events
  <2>3. CASE Subscribe
    BY <1>2, <2>3 DEF Subscribe, core
  <2>4. CASE Disconnect
    <3>1. Rest'
      BY <2>4 DEF Disconnect, IInv, Alive, Running
    <3> QED BY <1>1, <3>1 DEF IInv
  <2> QED BY <1>5, <2>1, <2>2, <2>3, <2>4, SMTT(30) DEF DockerNext
<1>6. CASE RecvEvent
  <2> DEFINE e == Head(evQ)
  <2>1. /\ loop = "select" /\ evQ # <<>> /\ evQ' = Tail(evQ) /\ e \in Events
        /\ evQ' = <<>> => e = evQ[Len(evQ)]
        /\ UNCHANGED <<container, missed, seen, probe, reload, reloads>>
    <3>1. evQ \in Seq(Events) /\ evQ # <<>> /\ evQ' = Tail(evQ)
      BY <1>6 DEF RecvEvent, TypeOK
    <3>2. e \in Events /\ e = evQ[1] /\ Len(evQ') = Len(evQ) - 1
      BY <3>1
    <3>3. evQ' = <<>> => Len(evQ) = 1
      <4>1. Len(evQ) \in Nat /\ Len(<<>>) = 0
        BY <3>1
      <4> QED BY <3>2, <4>1
    <3> QED BY <1>6, <3>1, <3>2, <3>3 DEF RecvEvent
  <2>2. ~missed /\ evQ' = <<>> => Matches(e, container)
    BY <2>1 DEF IInv, LastMatches
  <2>3. CASE e = "destroy"
    <3>1. loop' = "exiting"
      BY <1>6, <2>3 DEF RecvEvent
    <3>2. Rest'
      BY <2>1, <3>1 DEF IInv, Alive
    <3> QED BY <1>1, <3>2 DEF IInv
  <2>4. CASE e \in {"start", "unpause"}
    <3>1. /\ loop' = loop /\ healthOn' = TRUE
          /\ state' = [status |-> "running", ready |-> FALSE, starting |-> TRUE]
      BY <1>6, <2>4 DEF RecvEvent, setStarting
    <3>2. ~missed /\ evQ' = <<>> => container = "running"
      BY <2>2, <2>4, Zenon DEF Matches
    <3>3. Rest'
      BY <2>1, <3>1, <3>2 DEF IInv, Alive, Running, Agrees
    <3> QED BY <1>1, <3>3 DEF IInv
  <2>5. CASE e \in {"kill", "die"}
    <3>1. /\ loop' = loop /\ healthOn' = FALSE
          /\ state' = [status |-> "stopped", ready |-> FALSE, starting |-> FALSE]
      BY <1>6, <2>5 DEF RecvEvent, setNapping
    <3>2. ~missed /\ evQ' = <<>> => container \in {"stopped", "stopping"}
      BY <2>2, <2>5, Zenon DEF Matches
    <3>3. Rest'
      BY <2>1, <3>1, <3>2 DEF IInv, Alive, Running, Agrees
    <3> QED BY <1>1, <3>3 DEF IInv
  <2>6. CASE e = "pause"
    <3>1. /\ loop' = loop /\ healthOn' = FALSE
          /\ state' = [status |-> "paused", ready |-> FALSE, starting |-> FALSE]
      BY <1>6, <2>6 DEF RecvEvent, setNapping
    <3>2. ~missed /\ evQ' = <<>> => container = "paused"
      BY <2>2, <2>6, Zenon DEF Matches
    <3>3. Rest'
      BY <2>1, <3>1, <3>2 DEF IInv, Alive, Running, Agrees
    <3> QED BY <1>1, <3>3 DEF IInv
  <2> QED BY <2>1, <2>3, <2>4, <2>5, <2>6 DEF Events
<1>7. CASE HealthTick
  <2>1. /\ loop = "select" /\ healthOn /\ Running /\ ~state.ready
        /\ UNCHANGED <<container, evQ, missed, probe, reload, reloads>>
    BY <1>7 DEF HealthTick
  <2>2. CASE state.starting /\ overdue
    <3>1. /\ loop' = loop /\ healthOn' = FALSE
          /\ state' = [status |-> "error", ready |-> FALSE, starting |-> FALSE]
      BY <1>7, <2>2 DEF HealthTick, setError
    <3>2. Rest'
      BY <2>1, <3>1 DEF IInv, Alive, Running, Agrees
    <3> QED BY <1>1, <3>2 DEF IInv
  <2>3. CASE ~(state.starting /\ overdue)
    <3>1. loop' = "probing" /\ seen' = state /\ state' = state /\ healthOn' = healthOn
      BY <1>7, <2>3, Zenon DEF HealthTick
    <3>2. Rest'
      BY <2>1, <3>1 DEF IInv, Alive, Running
    <3> QED BY <1>1, <3>2 DEF IInv
  <2> QED BY <2>2, <2>3
<1>8. CASE CheckHealth
  <2>1. /\ loop = "probing" /\ loop' = "probed"
        /\ probe' = "healthy" => container \in {"running", "stopping"}
        /\ UNCHANGED <<container, evQ, missed, state, healthOn, seen, reload, reloads>>
    BY <1>8 DEF CheckHealth
  <2>2. Rest'
    BY <2>1 DEF IInv, Alive, Running
  <2> QED BY <1>1, <2>2 DEF IInv
<1>9. CASE checkUpdateState
  <2>1. /\ loop = "probed"
        /\ UNCHANGED <<container, evQ, missed, reload, reloads>>
    BY <1>9 DEF checkUpdateState
  <2>2. CASE probe = "healthy"
    <3>1. /\ loop' = "ready" /\ healthOn' = healthOn
          /\ state' = [status |-> "running", ready |-> TRUE, starting |-> FALSE]
      BY <1>9, <2>2 DEF checkUpdateState, setReady
    <3>2. Rest'
      BY <2>1, <2>2, <3>1 DEF IInv, Alive, Running, Agrees
    <3> QED BY <1>1, <3>2 DEF IInv
  <2>3. CASE probe = "error"
    <3>1. /\ loop' = "select" /\ healthOn' = FALSE
          /\ state' = [status |-> "error", ready |-> FALSE, starting |-> FALSE]
      BY <1>9, <2>3 DEF checkUpdateState, setError
    <3>2. Rest'
      BY <2>1, <3>1, Zenon DEF IInv, Alive, Running, Agrees
    <3> QED BY <1>1, <3>2 DEF IInv
  <2>4. CASE probe = "unhealthy"
    <3>1. loop' = "select" /\ healthOn' = healthOn /\ state' = seen
      BY <1>9, <2>4 DEF checkUpdateState
    <3>2. Rest'
      BY <2>1, <3>1 DEF IInv, Alive, Running
    <3> QED BY <1>1, <3>2 DEF IInv
  <2> QED BY <1>9, <2>2, <2>3, <2>4 DEF checkUpdateState
<1>10. CASE BecameReady
  <2>1. /\ loop = "ready" /\ loop' = "select" /\ healthOn' = FALSE
        /\ UNCHANGED <<container, evQ, missed, state, seen, probe, reload, reloads>>
    BY <1>10 DEF BecameReady
  <2>2. Rest'
    BY <2>1 DEF IInv, Alive, Running
  <2> QED BY <1>1, <2>2 DEF IInv
<1>11. CASE stopByMethod
  <2>1. CASE Emit(<<"pause">>)
    BY <1>3, <1>4, <1>11, <2>1, Zenon DEF stopByMethod, Events
  <2>2. CASE Emit(<<"kill">>)
    BY <1>3, <1>4, <1>11, <2>2, Zenon DEF stopByMethod, Events
  <2>3. CASE UNCHANGED dockerVars
    <3>1. Rest'
      BY <1>11, <2>3 DEF stopByMethod, IInv, Alive, Running
    <3> QED BY <1>1, <3>1 DEF IInv
  <2> QED BY <1>11, <2>1, <2>2, <2>3 DEF stopByMethod
<1>12. CASE IdleTick \/ StopReturns \/ StopFails \/ LoopCancelled
  <2>1. /\ loop \in {"select", "stopping", "stopWait"}
        /\ loop' \in {"select", "stopping", "exiting"}
        /\ UNCHANGED <<container, evQ, missed, state, healthOn, seen, probe, reload,
                       reloads>>
    BY <1>12 DEF IdleTick, StopReturns, StopFails, LoopCancelled
  <2>2. Rest'
    BY <2>1 DEF IInv, Alive, Running
  <2> QED BY <1>1, <2>2 DEF IInv
<1>13. CASE LoopExit
  <2>1. Rest'
    BY <1>13 DEF LoopExit, IInv, Alive
  <2> QED BY <1>1, <2>1 DEF IInv
<1>14. CASE ReloadNext
  <2>1. CASE ReloadBegin
    <3>1. reloads' > 0 /\ reloads' # 0
      BY <2>1 DEF ReloadBegin, TypeOK
    <3>2. Rest'
      BY <2>1, <3>1 DEF ReloadBegin, IInv, Alive, Running
    <3> QED BY <1>1, <3>2 DEF IInv
  <2>2. CASE ReloadRead
    <3>1. Rest'
      BY <2>2, SMTT(30) DEF ReloadRead, IInv, Alive, Running
    <3> QED BY <1>1, <3>1 DEF IInv
  <2>3. CASE ReloadStore
    <3>1. reloads # 0
      BY <2>3, SMTT(30) DEF ReloadStore, IInv, TypeOK
    <3>2. Rest'
      BY <2>3, <3>1 DEF ReloadStore, IInv, Alive, Running
    <3> QED BY <1>1, <3>2 DEF IInv
  <2> QED BY <1>14, <2>1, <2>2, <2>3 DEF ReloadNext
<1>15. ASSUME NEW p \in Reqs, ReqNext(p) PROVE IInv'
  <2>1. CASE WakeReturns(p)
    <3>1. CASE Emit(<<wakeOp>>)
      <4>1. wakeOp \in Events
        BY <2>1 DEF WakeReturns, WakeOpValid, Events
      <4> QED BY <1>3, <1>4, <2>1, <3>1, <4>1, Zenon DEF WakeReturns
    <3>2. CASE UNCHANGED dockerVars
      BY <1>2, <2>1, <3>2 DEF WakeReturns, core
    <3> QED BY <2>1, <3>1, <3>2 DEF WakeReturns
  <2>2. WakeReturns(p) \/ UNCHANGED core
    BY <1>15, Zenon DEF ReqNext, Arrive, Answered, CheckReady, Wake, WakeFails,
                 WaitForReady, Notified, CtxDone, onRead, RequestEnds, core
  <2> QED BY <1>2, <2>1, <2>2
<1>16. WakeTimeoutElapses \/ TaskCancelled \/ UNCHANGED vars => UNCHANGED core
  BY DEF WakeTimeoutElapses, TaskCancelled, vars, core
<1> QED BY <1>2, <1>5, <1>6, <1>7, <1>8, <1>9, <1>10, <1>11, <1>12, <1>13, <1>14,
           <1>15, <1>16 DEF Next, LoopNext

\* A new watcher agrees with its container, and probes.
LEMMA IInvInit == Init => IInv
<1> SUFFICES ASSUME Init PROVE IInv
  OBVIOUS
<1>1. state.status = container /\ ~state.ready /\ container # "stopping"
  BY DEF Init, ContainerStatus
<1>2. StatusAgrees /\ StartingIsProbed
  BY <1>1, Zenon DEF Init, StatusAgrees, StartingIsProbed, Agrees
<1>3. LastMatches /\ DrainedAgrees /\ ProbeSteady /\ ReloadCounted
  BY <1>1 DEF Init, LastMatches, DrainedAgrees, ProbeSteady, ReloadCounted
<1> QED BY <1>2, <1>3 DEF IInv

\* IInv is inductive.
THEOREM Inductive == Spec => [](TypeOK /\ IInv)
BY TypeInit, TypeNext, IInvInit, IInvNext, PTL DEF Spec

\* With no event missed and no reload, a loop that has handled every event knows
\* what the container is.
THEOREM StatusCorrect == Spec => []StatusAgrees
<1>1. IInv => StatusAgrees
  BY DEF IInv
<1> QED BY Inductive, <1>1, PTL

\* Without a reload, a starting container is always being probed.
THEOREM ProbingCorrect == Spec => []StartingIsProbed
<1>1. IInv => StartingIsProbed
  BY DEF IInv
<1> QED BY Inductive, <1>1, PTL

\* Requests are passed through only while the container runs or the event that
\* says otherwise is waiting, reloads included.
THEOREM ReadyCorrect == Spec => []ReadyAgrees
<1>1. TypeOK /\ IInv => ReadyAgrees
  <2> SUFFICES ASSUME TypeOK, IInv, Alive, ~missed, state.ready,
                      container # "running"
               PROVE  DownQueued
    BY DEF ReadyAgrees
  <2>1. evQ # <<>>
    BY DEF IInv, DrainedAgrees
  <2>2. Len(evQ) \in 1..Len(evQ) /\ evQ[Len(evQ)] \in Events
    BY <2>1 DEF TypeOK
  <2>3. evQ[Len(evQ)] \in Downs
    BY <2>1, <2>2, Zenon DEF IInv, LastMatches, Matches, Downs, Events
  <2> QED BY <2>2, <2>3 DEF DownQueued
<1> QED BY Inductive, <1>1, PTL

=============================================================================
