---------------------------- MODULE IdleWatcher ----------------------------
(***************************************************************************)
(* One idlewatcher.Watcher (internal/idlewatcher): the goroutine that runs  *)
(* watchUntilDestroy, the HTTP and stream requests that wake the container, *)
(* the reload of the watcher by a route update, and the docker daemon that  *)
(* owns the container and reports on it through an event stream.            *)
(*                                                                          *)
(* Abstractions.  Durations are gone: an armed ticker may tick at any time, *)
(* "overdue" says that WakeTimeout has elapsed since startedAt.  A tick     *)
(* that has fired but was not received is discarded by Reset and Stop (the  *)
(* semantics of Go 1.23 and later), so an armed ticker is one Boolean.      *)
(* containerState.err is non-nil exactly when the status is "error";        *)
(* healthTries only feeds log lines.  The ActionForceReload event is        *)
(* ignored by the loop before it touches anything, so it is not queued.     *)
(* Dependencies of the watcher are not part of this module.                 *)
(***************************************************************************)
EXTENDS Naturals, Sequences

CONSTANTS
    HttpReqs,          \* HTTP requests that reach Watcher.ServeHTTP
    StreamReqs,        \* connections that reach Watcher.wakeFromStream
    StopMethod,        \* cfg.StopMethod
    MaxOps,            \* bound: container operations by others than the watcher
    MaxDrops,          \* bound: losses of the docker event stream
    MaxReloads,        \* bound: NewWatcher calls that find the watcher running
    MaxStopFails,      \* bound: stop calls that fail
    MaxLag             \* bound: events waiting when the idle ticker ticks

Reqs == HttpReqs \cup StreamReqs

ASSUME ReqsAssumption == HttpReqs \cap StreamReqs = {}
ASSUME StopMethodAssumption == StopMethod \in {"stop", "kill", "pause"}
ASSUME BoundsAssumption ==
    {MaxOps, MaxDrops, MaxReloads, MaxStopFails, MaxLag} \subseteq Nat

VARIABLES
    container,  \* what the docker daemon knows about the container
    evQ,        \* events emitted by the daemon and not yet received by the loop
    conn,       \* the event stream is open
    missed,     \* history: an event was emitted and will never be received
    state,      \* w.state
    overdue,    \* time.Since(state.startedAt) > WakeTimeout
    urlSet,     \* w.hc.URL().Host # ""
    idleOn,     \* w.idleTicker is armed
    healthOn,   \* w.healthTicker is armed
    notify,     \* w.readyNotifyCh (capacity 1) holds a token
    closed,     \* w.readyNotifyCh is closed
    taskDone,   \* w.task.Context() is done
    loop,       \* where the goroutine of the watcher is
    seen,       \* the state checkUpdateState loaded before CheckHealth
    probe,      \* what CheckHealth returned
    req,        \* where each request is
    wakeOp,     \* the docker call of the singleflight leader
    reload,     \* where a reload of the watcher is
    reloadStatus, \* the status the reload read
    ops, drops, reloads, stopFails  \* how much of each bound is used

dockerVars == <<container, evQ, conn, missed>>
tickers == <<idleOn, healthOn>>
chan == <<notify, closed>>
loopVars == <<loop, seen, probe>>
reqVars == <<req, wakeOp>>
reloadVars == <<reload, reloadStatus>>
bounds == <<ops, drops, reloads, stopFails>>
vars == <<dockerVars, state, overdue, urlSet, tickers, chan, taskDone, loopVars,
          reqVars, reloadVars, bounds>>

Containers == {"running", "stopping", "stopped", "paused", "gone"}
Events == {"start", "unpause", "kill", "die", "pause", "destroy"}
Statuses == {"running", "stopped", "paused", "error"}
States == [status : Statuses, ready : BOOLEAN, starting : BOOLEAN]

\* The value of "seen" outside of checkUpdateState.
Unseen == [status |-> "stopped", ready |-> FALSE, starting |-> FALSE]

(***************************************************************************)
(* The docker daemon (external).                                            *)
(***************************************************************************)

\* Mutant: the daemon's own word for the state is stored.
ContainerStatusRaw(c) == c

\* What ContainerStatus reports; a container being stopped still runs.
ContainerStatus(c) ==
    CASE c = "stopping" -> "running"
      [] c = "gone" -> "error"
      [] OTHER -> c

\* The daemon reports es to whoever is subscribed.
Emit(es) ==
    /\ evQ' = IF conn THEN evQ \o es ELSE evQ
    /\ missed' = (missed \/ ~conn)
    /\ UNCHANGED conn

\* Operations of people and of the container itself: from, to, events.
Operations ==
    { <<"stopped", "running", <<"start">>>>,
      <<"running", "stopping", <<"kill">>>>,
      <<"running", "stopped", <<"die">>>>,
      <<"running", "paused", <<"pause">>>>,
      <<"paused", "running", <<"unpause">>>>,
      <<"running", "gone", <<"die", "destroy">>>>,
      <<"stopped", "gone", <<"destroy">>>> }

Operate ==
    /\ ops < MaxOps
    /\ ops' = ops + 1
    /\ \E o \in Operations :
          /\ container = o[1]
          /\ container' = o[2]
          /\ Emit(o[3])
    /\ UNCHANGED <<state, overdue, urlSet, tickers, chan, taskDone, loopVars,
                   reqVars, reloadVars, drops, reloads, stopFails>>

\* A container that was told to stop exits.
Die ==
    /\ container = "stopping"
    /\ container' = "stopped"
    /\ Emit(<<"die">>)
    /\ UNCHANGED <<state, overdue, urlSet, tickers, chan, taskDone, loopVars,
                   reqVars, reloadVars, bounds>>

\* EventsWithOptions opens (or reopens) the stream, some time after
\* NewWatcher has read the status of the container.
Subscribe ==
    /\ ~conn
    /\ conn' = TRUE
    /\ UNCHANGED <<container, evQ, missed, state, overdue, urlSet, tickers, chan,
                   taskDone, loopVars, reqVars, reloadVars, bounds>>

\* The stream breaks; what it still holds may be lost.
Disconnect ==
    /\ conn
    /\ drops < MaxDrops
    /\ drops' = drops + 1
    /\ conn' = FALSE
    /\ \/ UNCHANGED <<evQ, missed>>
       \/ /\ evQ # <<>>
          /\ evQ' = <<>>
          /\ missed' = TRUE
    /\ UNCHANGED <<container, state, overdue, urlSet, tickers, chan, taskDone,
                   loopVars, reqVars, reloadVars, ops, reloads, stopFails>>

-----------------------------------------------------------------------------
(***************************************************************************)
(* state.go                                                                 *)
(***************************************************************************)
Running == state.status = "running"

\* Mutant: setStarting leaves the status to the start event.
setStartingOnly == state' = [state EXCEPT !.starting = TRUE]

setStarting == state' = [status |-> "running", ready |-> FALSE, starting |-> TRUE]

\* Mutant: the fast path stays ready.
setNappingReady(s) == state' = [status |-> s, ready |-> state.ready, starting |-> FALSE]

setNapping(s) == state' = [status |-> s, ready |-> FALSE, starting |-> FALSE]

\* Mutants: the status survives an error; an error does not end the start.
setErrorStatus == state' = [state EXCEPT !.ready = FALSE, !.starting = FALSE]

setErrorStarting == state' = [status |-> "error", ready |-> FALSE, starting |-> state.starting]

setError == state' = [status |-> "error", ready |-> FALSE, starting |-> FALSE]

\* The store of setReady; the send on readyNotifyCh does not block.
setReady ==
    /\ state' = [status |-> "running", ready |-> TRUE, starting |-> FALSE]
    /\ notify' = TRUE

(***************************************************************************)
(* watchUntilDestroy                                                        *)
(***************************************************************************)
Init ==
    /\ container \in {"running", "stopped", "paused"}
    /\ state = [status |-> ContainerStatus(container), ready |-> FALSE,
                starting |-> FALSE]
    /\ urlSet \in BOOLEAN /\ (container = "running" => urlSet)
    /\ evQ = <<>> /\ conn = FALSE /\ missed = FALSE
    /\ overdue = FALSE
    /\ idleOn = TRUE /\ healthOn = TRUE
    /\ notify = FALSE /\ closed = FALSE /\ taskDone = FALSE
    /\ loop = "select" /\ seen = Unseen /\ probe = "none"
    /\ req = [p \in Reqs |-> "idle"] /\ wakeOp = "none"
    /\ reload = "none" /\ reloadStatus = "none"
    /\ ops = 0 /\ drops = 0 /\ reloads = 0 /\ stopFails = 0

\* case e := <-eventCh
RecvEvent ==
    /\ loop = "select"
    /\ evQ # <<>>
    /\ evQ' = Tail(evQ)
    /\ \/ /\ Head(evQ) = "destroy"
          /\ loop' = "exiting"
          /\ UNCHANGED <<state, overdue, tickers>>
       \/ /\ Head(evQ) \in {"start", "unpause"}
          /\ setStarting
          /\ overdue' = FALSE
          /\ idleOn' = TRUE
          /\ healthOn' = TRUE
          /\ UNCHANGED loop
       \/ /\ Head(evQ) \in {"kill", "die", "pause"}
          /\ setNapping(IF Head(evQ) = "pause" THEN "paused" ELSE "stopped")
          /\ overdue' = FALSE
          /\ idleOn' = FALSE
          /\ healthOn' = FALSE
          /\ UNCHANGED loop
    /\ UNCHANGED <<container, conn, missed, urlSet, chan, taskDone, seen, probe,
                   reqVars, reloadVars, bounds>>

WakeTimeoutElapses ==
    /\ state.starting
    /\ ~overdue
    /\ overdue' = TRUE
    /\ UNCHANGED <<dockerVars, state, urlSet, tickers, chan, taskDone, loopVars,
                   reqVars, reloadVars, bounds>>

\* case <-w.healthTicker.C, up to the call of CheckHealth.  A tick that finds
\* the container not starting, or no host to probe yet, changes nothing.
HealthTick ==
    /\ loop = "select"
    /\ healthOn
    /\ Running /\ ~state.ready /\ urlSet
    /\ IF state.starting /\ overdue
       THEN /\ setError
            /\ overdue' = FALSE
            /\ healthOn' = FALSE
            /\ UNCHANGED <<loop, seen>>
       ELSE /\ loop' = "probing"
            /\ seen' = state
            /\ UNCHANGED <<state, overdue, healthOn>>
    /\ UNCHANGED <<dockerVars, urlSet, idleOn, chan, taskDone, probe,
                   reqVars, reloadVars, bounds>>

\* CheckHealth (external) answers; only a live container is found healthy.
CheckHealth ==
    /\ loop = "probing"
    /\ loop' = "probed"
    /\ probe' \in {"unhealthy", "error"}
                  \cup IF container \in {"running", "stopping"}
                       THEN {"healthy"} ELSE {}
    /\ UNCHANGED <<dockerVars, state, overdue, urlSet, tickers, chan, taskDone,
                   seen, reqVars, reloadVars, bounds>>

\* The rest of checkUpdateState.
checkUpdateState ==
    /\ loop = "probed"
    /\ \/ /\ probe = "healthy"
          /\ setReady
          /\ overdue' = FALSE
          /\ loop' = "ready"
          /\ UNCHANGED healthOn
       \/ /\ probe = "error"
          /\ setError
          /\ overdue' = FALSE
          /\ healthOn' = FALSE
          /\ loop' = "select"
          /\ UNCHANGED notify
       \/ /\ probe = "unhealthy"
          /\ state' = seen
          /\ loop' = "select"
          /\ UNCHANGED <<overdue, healthOn, notify>>
    /\ seen' = Unseen
    /\ probe' = "none"
    /\ UNCHANGED <<dockerVars, urlSet, idleOn, closed, taskDone, reqVars, reloadVars, bounds>>

\* The loop after checkUpdateState returned ready: a second notification.
BecameReady ==
    /\ loop = "ready"
    /\ loop' = "select"
    /\ healthOn' = FALSE
    /\ notify' = TRUE
    /\ idleOn' = TRUE
    /\ UNCHANGED <<dockerVars, state, overdue, urlSet, closed, taskDone, seen,
                   probe, reqVars, reloadVars, bounds>>

\* Mutant: only a container found ready is stopped.
IdleTickReady ==
    /\ loop = "select"
    /\ idleOn
    /\ Len(evQ) <= MaxLag
    /\ idleOn' = FALSE
    /\ loop' = IF state.ready THEN "stopping" ELSE "select"
    /\ UNCHANGED <<dockerVars, state, overdue, urlSet, healthOn, chan, taskDone,
                   seen, probe, reqVars, reloadVars, bounds>>

\* case <-w.idleTicker.C, up to the docker call of stopByMethod.
IdleTick ==
    /\ loop = "select"
    /\ idleOn
    /\ Len(evQ) <= MaxLag
    /\ idleOn' = FALSE
    /\ loop' = IF Running THEN "stopping" ELSE "select"
    /\ UNCHANGED <<dockerVars, state, overdue, urlSet, healthOn, chan, taskDone,
                   seen, probe, reqVars, reloadVars, bounds>>

\* The daemon executes the call of stopByMethod.
stopByMethod ==
    /\ loop = "stopping"
    /\ loop' = "stopWait"
    /\ IF container = "running"
       THEN IF StopMethod = "pause"
            THEN container' = "paused" /\ Emit(<<"pause">>)
            ELSE container' = "stopping" /\ Emit(<<"kill">>)
       ELSE UNCHANGED dockerVars
    /\ UNCHANGED <<state, overdue, urlSet, tickers, chan, taskDone, seen, probe,
                   reqVars, reloadVars, bounds>>

\* ContainerStop returns when the container has exited, the others at once.
StopReturns ==
    /\ loop = "stopWait"
    /\ StopMethod = "stop" => container # "stopping"
    /\ loop' = "select"
    /\ UNCHANGED <<dockerVars, state, overdue, urlSet, tickers, chan, taskDone,
                   seen, probe, reqVars, reloadVars, bounds>>

\* The call fails or times out, before or after it had its effect; the loop
\* logs it and goes on.
StopFails ==
    /\ loop \in {"stopping", "stopWait"}
    /\ stopFails < MaxStopFails
    /\ stopFails' = stopFails + 1
    /\ loop' = "select"
    /\ UNCHANGED <<dockerVars, state, overdue, urlSet, tickers, chan, taskDone,
                   seen, probe, reqVars, reloadVars, ops, drops, reloads>>

\* The provider of the route is stopped: its task tree is cancelled.
TaskCancelled ==
    /\ ~taskDone
    /\ ops < MaxOps
    /\ ops' = ops + 1
    /\ taskDone' = TRUE
    /\ UNCHANGED <<dockerVars, state, overdue, urlSet, tickers, chan, loopVars,
                   reqVars, reloadVars, drops, reloads, stopFails>>

\* case <-w.task.Context().Done()
LoopCancelled ==
    /\ loop = "select"
    /\ taskDone
    /\ loop' = "exiting"
    /\ UNCHANGED <<dockerVars, state, overdue, urlSet, tickers, chan, taskDone,
                   seen, probe, reqVars, reloadVars, bounds>>

\* Mutant: readyNotifyCh is not closed.
LoopExitOpen ==
    /\ loop = "exiting"
    /\ loop' = "done"
    /\ idleOn' = FALSE
    /\ healthOn' = FALSE
    /\ taskDone' = TRUE
    /\ UNCHANGED <<dockerVars, state, overdue, urlSet, chan, seen, probe,
                   reqVars, reloadVars, bounds>>

\* What the goroutine does after watchUntilDestroy returned.
LoopExit ==
    /\ loop = "exiting"
    /\ loop' = "done"
    /\ idleOn' = FALSE
    /\ healthOn' = FALSE
    /\ closed' = TRUE
    /\ taskDone' = TRUE
    /\ UNCHANGED <<dockerVars, state, overdue, urlSet, notify, seen, probe,
                   reqVars, reloadVars, bounds>>

-----------------------------------------------------------------------------
(***************************************************************************)
(* Requests: handle_http.go, handle_stream.go, Wake and waitForReady.       *)
(***************************************************************************)
Pcs == {"idle", "arrived", "wake", "waking", "joined", "waitReady", "blocked",
        "unready", "proxy"}

Goto(p, pc) == req' = [req EXCEPT ![p] = pc]

\* A request arrives, or a connection is accepted: resetIdleTimer.
Arrive(p) ==
    /\ req[p] = "idle"
    /\ Goto(p, "arrived")
    /\ idleOn' = TRUE
    /\ UNCHANGED <<dockerVars, state, overdue, urlSet, healthOn, chan, taskDone,
                   loopVars, wakeOp, reloadVars, bounds>>

\* Static paths are served, other paths than the start endpoint refused.
Answered(p) ==
    /\ req[p] = "arrived"
    /\ p \in HttpReqs
    /\ Goto(p, "idle")
    /\ UNCHANGED <<dockerVars, state, overdue, urlSet, tickers, chan, taskDone,
                   loopVars, wakeOp, reloadVars, bounds>>

CheckReady(p) ==
    /\ req[p] = "arrived"
    /\ Goto(p, IF state.ready THEN "proxy" ELSE "wake")
    /\ UNCHANGED <<dockerVars, state, overdue, urlSet, tickers, chan, taskDone,
                   loopVars, wakeOp, reloadVars, bounds>>

\* Where a request goes when Wake returns: an HTTP request is answered with
\* the loading page or a status, a stream goes on only without an error.
AfterWake(p, ok) == IF p \in StreamReqs /\ ok THEN "waitReady" ELSE "idle"

Flying == \E p \in Reqs : req[p] = "waking"

\* Wake up to the docker call: wakeInProgress, singleFlight.Do, wakeIfStopped.
Wake(p) ==
    /\ req[p] = "wake"
    /\ \/ /\ state.starting
          /\ Goto(p, AfterWake(p, TRUE))
          /\ UNCHANGED wakeOp
       \/ /\ ~state.starting /\ Flying
          /\ Goto(p, "joined")
          /\ UNCHANGED wakeOp
       \/ /\ ~state.starting /\ ~Flying
          /\ state.status \in {"running", "error"}
          /\ Goto(p, AfterWake(p, Running))
          /\ UNCHANGED wakeOp
       \/ /\ ~state.starting /\ ~Flying
          /\ state.status \in {"stopped", "paused"}
          /\ Goto(p, "waking")
          /\ wakeOp' = IF state.status = "stopped" THEN "start" ELSE "unpause"
    /\ UNCHANGED <<dockerVars, state, overdue, urlSet, tickers, chan, taskDone,
                   loopVars, reloadVars, bounds>>

\* The daemon accepts a start of a container that runs, and does nothing.
WakeOpValid ==
    \/ wakeOp = "start" /\ container \in {"stopped", "running", "stopping"}
    \/ wakeOp = "unpause" /\ container = "paused"

\* The flight ends for the leader p and everyone who joined it.
EndFlight(p, ok) ==
    /\ req' = [q \in Reqs |-> IF q = p \/ req[q] = "joined" THEN AfterWake(q, ok)
                                                            ELSE req[q]]
    /\ wakeOp' = "none"

\* ContainerStart or ContainerUnpause is executed; the answer may be lost to
\* WakeTimeout or to the end of the leader's request.
WakeReturns(p) ==
    /\ req[p] = "waking"
    /\ WakeOpValid
    /\ IF container \in {"stopped", "paused"}
       THEN container' = "running" /\ Emit(<<wakeOp>>)
       ELSE UNCHANGED dockerVars
    /\ \E ok \in BOOLEAN : EndFlight(p, ok)
    /\ UNCHANGED <<state, overdue, urlSet, tickers, chan, taskDone, loopVars,
                   reloadVars, bounds>>

\* The call fails without an effect.
WakeFails(p) ==
    /\ req[p] = "waking"
    /\ EndFlight(p, FALSE)
    /\ UNCHANGED <<dockerVars, state, overdue, urlSet, tickers, chan, taskDone,
                   loopVars, reloadVars, bounds>>

\* waitForReady: the first look at the state.
WaitForReady(p) ==
    /\ req[p] = "waitReady"
    /\ IF state.ready
       THEN Goto(p, "proxy") /\ idleOn' = TRUE
       ELSE Goto(p, "blocked") /\ UNCHANGED idleOn
    /\ UNCHANGED <<dockerVars, state, overdue, urlSet, healthOn, chan, taskDone,
                   loopVars, wakeOp, reloadVars, bounds>>

\* waitForReady: the receive from readyNotifyCh and the second look.
Notified(p) ==
    /\ req[p] = "blocked"
    /\ notify \/ closed
    /\ notify' = FALSE
    /\ IF state.ready
       THEN Goto(p, "proxy") /\ idleOn' = TRUE
       ELSE Goto(p, "unready") /\ UNCHANGED idleOn
    /\ UNCHANGED <<dockerVars, state, overdue, urlSet, healthOn, closed, taskDone,
                   loopVars, wakeOp, reloadVars, bounds>>

\* waitForReady, waitStarted: the context of the stream is done.
CtxDone(p) ==
    /\ req[p] \in {"waitReady", "blocked"}
    /\ Goto(p, "idle")
    /\ UNCHANGED <<dockerVars, state, overdue, urlSet, tickers, chan, taskDone,
                   loopVars, wakeOp, reloadVars, bounds>>

\* Traffic of a stream resets the idle timer; HTTP traffic does not.
onRead(p) ==
    /\ req[p] = "proxy"
    /\ p \in StreamReqs
    /\ idleOn' = TRUE
    /\ UNCHANGED <<dockerVars, state, overdue, urlSet, healthOn, chan, taskDone,
                   loopVars, reqVars, reloadVars, bounds>>

\* The request is done; one that came back from waitForReady without the
\* container being ready is dialled all the same.
RequestEnds(p) ==
    /\ req[p] \in {"proxy", "unready"}
    /\ Goto(p, "idle")
    /\ UNCHANGED <<dockerVars, state, overdue, urlSet, tickers, chan, taskDone,
                   loopVars, wakeOp, reloadVars, bounds>>

-----------------------------------------------------------------------------
(***************************************************************************)
(* NewWatcher for a container that has a watcher already: the route of the  *)
(* container was updated.  It runs in the goroutine of the route provider.  *)
(***************************************************************************)
ReloadBegin ==
    /\ reload = "none"
    /\ reloads < MaxReloads
    /\ loop # "done"
    /\ reloads' = reloads + 1
    /\ reload' = "begun"
    /\ idleOn' = TRUE
    /\ urlSet' \in BOOLEAN /\ (container = "running" => urlSet')
    /\ UNCHANGED <<dockerVars, state, overdue, healthOn, chan, taskDone, loopVars,
                   reqVars, reloadStatus, ops, drops, stopFails>>

\* p.ContainerStatus; when it fails the state is left as it was.
ReloadRead ==
    /\ reload = "begun"
    /\ \/ /\ container # "gone"
          /\ reload' = "read"
          /\ reloadStatus' = ContainerStatus(container)
       \/ /\ reload' = "none"
          /\ UNCHANGED reloadStatus
    /\ UNCHANGED <<dockerVars, state, overdue, urlSet, tickers, chan, taskDone,
                   loopVars, reqVars, bounds>>

\* w.state.Store(&containerState{status: status})
ReloadStore ==
    /\ reload = "read"
    /\ reload' = "none"
    /\ reloadStatus' = "none"
    /\ state' = [status |-> reloadStatus, ready |-> FALSE, starting |-> FALSE]
    /\ UNCHANGED <<dockerVars, overdue, urlSet, tickers, chan, taskDone, loopVars,
                   reqVars, bounds>>

-----------------------------------------------------------------------------
DockerNext == Operate \/ Die \/ Subscribe \/ Disconnect

LoopNext ==
    \/ RecvEvent \/ HealthTick \/ CheckHealth \/ checkUpdateState \/ BecameReady
    \/ IdleTick \/ stopByMethod \/ StopReturns \/ StopFails
    \/ LoopCancelled \/ LoopExit

ReqNext(p) ==
    \/ Arrive(p) \/ Answered(p) \/ CheckReady(p) \/ Wake(p) \/ WakeReturns(p)
    \/ WakeFails(p) \/ WaitForReady(p) \/ Notified(p) \/ CtxDone(p) \/ onRead(p)
    \/ RequestEnds(p)

ReloadNext == ReloadBegin \/ ReloadRead \/ ReloadStore

Next ==
    \/ DockerNext \/ LoopNext \/ WakeTimeoutElapses \/ TaskCancelled \/ ReloadNext
    \/ \E p \in Reqs : ReqNext(p)

Spec == Init /\ [][Next]_vars

Quiet == \A p \in Reqs : req[p] = "idle"

\* The goroutines run and time passes.  Go's select picks at random among the
\* ready cases, so no case that keeps being ready is passed over for ever.  The
\* idle ticker is only sure to tick while no request resets it.  A started
\* docker call or health check returns because each has a timeout.
Fairness ==
    /\ SF_vars(RecvEvent) /\ SF_vars(HealthTick) /\ SF_vars(LoopCancelled)
    /\ SF_vars(Quiet /\ IdleTick)
    /\ WF_vars(CheckHealth) /\ WF_vars(checkUpdateState) /\ WF_vars(BecameReady)
    /\ WF_vars(stopByMethod) /\ WF_vars(StopReturns) /\ WF_vars(LoopExit)
    /\ WF_vars(WakeTimeoutElapses) /\ WF_vars(Die) /\ WF_vars(Subscribe)
    /\ WF_vars(ReloadRead) /\ WF_vars(ReloadStore)
    /\ \A p \in Reqs :
          /\ WF_vars(CheckReady(p)) /\ WF_vars(Wake(p)) /\ WF_vars(WakeReturns(p))
          /\ WF_vars(WaitForReady(p)) /\ SF_vars(Notified(p))

FairSpec == Spec /\ Fairness

-----------------------------------------------------------------------------
\* Every variable has its type.
TypeOK ==
    /\ container \in Containers
    /\ evQ \in Seq(Events)
    /\ conn \in BOOLEAN /\ missed \in BOOLEAN
    /\ overdue \in BOOLEAN /\ urlSet \in BOOLEAN
    /\ idleOn \in BOOLEAN /\ healthOn \in BOOLEAN
    /\ notify \in BOOLEAN /\ closed \in BOOLEAN /\ taskDone \in BOOLEAN
    /\ state \in States
    /\ seen \in States
    /\ loop \in {"select", "probing", "probed", "ready", "stopping", "stopWait",
                 "exiting", "done"}
    /\ probe \in {"none", "healthy", "unhealthy", "error"}
    /\ req \in [Reqs -> Pcs]
    /\ wakeOp \in {"none", "start", "unpause"}
    /\ reload \in {"none", "begun", "read"}
    /\ reloadStatus \in {"none"} \cup Statuses
    /\ reload = "read" => reloadStatus # "none"
    /\ ops \in 0..MaxOps /\ drops \in 0..MaxDrops
    /\ reloads \in 0..MaxReloads /\ stopFails \in 0..MaxStopFails

Alive == loop \notin {"exiting", "done"}

Downs == {"kill", "die", "pause", "destroy"}
DownQueued == \E i \in 1..Len(evQ) : evQ[i] \in Downs

\* Requests are passed through (w.ready()) only while the container runs or the
\* news that it does not is on its way to the loop, however the route updates,
\* health checks and operator actions interleave, as long as the event stream
\* lost nothing.
ReadyAgrees == Alive /\ ~missed /\ state.ready => container = "running" \/ DownQueued

\* What the status the loop works with may mean.  A container whose health
\* check failed is in status "error" and runs on.
Agrees(status, c) ==
    CASE status = "running" -> c = "running"
      [] status = "error" -> c = "running"
      [] status = "paused" -> c = "paused"
      [] status = "stopped" -> c \in {"stopped", "stopping"}

\* Once the loop has handled every event its status is that of the container,
\* provided nothing was missed and no reload overwrote the status.
StatusAgrees ==
    Alive /\ ~missed /\ reloads = 0 /\ evQ = <<>> => Agrees(state.status, container)

\* What the inductive invariant adds.  The newest event that waits tells what the
\* container is now.
Matches(e, c) ==
    CASE e \in {"start", "unpause"} -> c = "running"
      [] e = "kill" -> c = "stopping"
      [] e = "die" -> c = "stopped"
      [] e = "pause" -> c = "paused"
      [] e = "destroy" -> c = "gone"

LastMatches == ~missed /\ evQ # <<>> => Matches(evQ[Len(evQ)], container)

\* With nothing waiting, what is ready, was found healthy or is still to be
\* probed is not about to stop.
DrainedAgrees ==
    Alive /\ ~missed /\ evQ = <<>> =>
        /\ state.ready => container = "running"
        /\ loop = "probed" /\ probe = "healthy" => container = "running"
        /\ healthOn => container # "stopping"

\* A health check in flight leaves the ticker armed, and nothing but a reload
\* changes the state under it.
ProbeSteady ==
    /\ loop \in {"probing", "probed"} =>
          /\ healthOn
          /\ ~seen.ready
          /\ reloads = 0 => seen = state /\ Running
    /\ loop = "ready" /\ reloads = 0 => state.ready

ReloadCounted == reload # "none" => reloads > 0

\* "If not ready yet, keep checking on next tick": a watcher that believes the
\* container is starting has its health ticker armed, or nothing would ever
\* make it ready.  Without reloads.
StartingIsProbed ==
    Alive /\ reloads = 0 /\ Running /\ ~state.ready => healthOn

IInv == /\ LastMatches /\ DrainedAgrees /\ ProbeSteady /\ ReloadCounted
        /\ StatusAgrees /\ StartingIsProbed

\* The same, reloads included.
StartingAlwaysProbed == Alive /\ reload = "none" /\ Running /\ ~state.ready => healthOn

\* "waits for the container to become ready": when the container has become
\* ready, and the loop has sent its notifications, a waiter is not left behind
\* with nothing in the channel to wake it.
NoWaiterLeftBehind ==
    loop = "select" /\ state.ready /\ (\E p \in StreamReqs : req[p] = "blocked")
        => notify

\* A container that was started becomes ready, fails with an error, or naps
\* again: it is not left in "starting" for ever once its address is known.
StartingResolves == state.starting /\ urlSet ~> ~state.starting \/ ~urlSet \/ ~Alive

\* "When the idle timer fires, the container is stopped": when requests stop
\* coming, a running container is stopped in the end, so the idle timer is armed
\* whenever it has to be.  Not so after a failed health check (the loop then
\* holds the container not running), a failed stop, a reload or a missed event.
IdleIsStopped ==
    <>[](Quiet /\ stopFails = 0 /\ reloads = 0 /\ ~missed)
        => <>[](container # "running" \/ state.status = "error" \/ ~Alive)

\* The end of the watcher releases every connection blocked in waitForReady.
ExitReleasesWaiters ==
    \A p \in StreamReqs : (loop = "done" /\ req[p] = "blocked") ~> req[p] # "blocked"

=============================================================================
