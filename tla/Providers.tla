------------------------------ MODULE Providers ------------------------------
(***************************************************************************)
(* Docker providers (internal/route/provider) that follow their daemons:    *)
(* the watcher of the event stream (internal/watcher/docker_watcher.go),    *)
(* the event queue (internal/watcher/events/event_queue.go), the handler of *)
(* a batch of events, and the pool of HTTP routes they all share            *)
(* (internal/utils/pool, internal/route/routes).                            *)
(*                                                                          *)
(* Abstractions.  A container is the number of its creation; its name is    *)
(* the alias of its one route.  A batch of events is a set: nothing depends *)
(* on their order.  Routes are ReverseProxyRoutes that are not excluded.    *)
(* The daemon and package task are not part of the source.                  *)
(***************************************************************************)
EXTENDS Naturals, Sequences, FiniteSets

CONSTANTS
    Hosted,      \* the names of the containers of each provider's daemon
    Configs,     \* the sets of providers a configuration may have
    Invalid,     \* the containers with labels that Validate refuses
    Limits       \* bounds for each configuration: the containers created, and the
                 \* faults (broken streams, failed listings, failed starts)

Providers == DOMAIN Hosted

Aliases == UNION {Hosted[p] : p \in Providers}

None == 0
Containers == Nat \ {None}

ASSUME ProvidersAssumption ==
    /\ Limits \in [Configs -> [created : Nat, faults : Nat]]
    /\ "reload" \notin Aliases
    /\ Configs \subseteq SUBSET Providers

VARIABLES
    present,    \* the providers of the configuration
    cont,       \* what each daemon runs under each name, or None
    created,    \* containers created so far
    stream,     \* the event stream of each daemon: "closed", "open", "broken"
    msgs,       \* messages of the stream that were not received yet
    watcher,    \* where the goroutine of DockerWatcher.Events is
    sending,    \* the event it sends
    queue,      \* EventQueue.queue
    loop,       \* where the goroutine of EventQueue.Start is
    batch,      \* the events being handled
    old, new,   \* oldRoutes and newRoutes of EventHandler.Handle
    todo,       \* the aliases its loop has not reached
    start,      \* where startRoute is for each alias: "no", "check", "add"
    routes,     \* Provider.routes
    running,    \* the routes whose task runs, as <<provider, alias, container>>
    pool,       \* routes.HTTP
    cancelled,  \* the providers whose task was cancelled
    faults,     \* faults so far
    stale,      \* history: since its last load over an open stream, the provider had a
                \* load or a start fail, or there was a change after it was last told
                \* to reload and before it subscribed
    lost        \* history: the provider has missed an event

daemon == <<present, cont, created>>
watcherVars == <<stream, msgs, watcher, sending>>
handlerVars == <<batch, old, new, todo>>
routeVars == <<start, routes, running, pool>>
history == <<stale, lost>>
vars == <<daemon, watcherVars, queue, loop, handlerVars, routeVars, cancelled, faults, history>>

NoRoute == <<>>
Empty == [a \in Aliases |-> None]

\* The aliases of a map.
Keys(m) == {a \in Aliases : m[a] # None}

Fault == faults < Limits[present].faults /\ faults' = faults + 1

Miss(p) == stale' = [stale EXCEPT ![p] = TRUE] /\ lost' = [lost EXCEPT ![p] = TRUE]

\* loadRoutes, when the daemon answers: a route per container that validates.
Loaded(p) == [a \in Aliases |-> IF cont[p][a] \in Invalid THEN None ELSE cont[p][a]]

\* One daemon has a container.  Init of the configuration has loaded the routes, and
\* Start has made a goroutine for each.
Init ==
    /\ present \in Configs
    /\ created = 1
    /\ \E p \in present : \E a \in Hosted[p] :
          cont = [q \in Providers |-> IF q = p THEN [Empty EXCEPT ![a] = 1] ELSE Empty]
    /\ stream = [p \in Providers |-> "closed"]
    /\ msgs = [p \in Providers |-> <<>>]
    /\ watcher = [p \in Providers |-> "off"]
    /\ sending = [p \in Providers |-> "reload"]
    /\ queue = [p \in Providers |-> {}]
    /\ loop = [p \in Providers |-> "start"]
    /\ batch = [p \in Providers |-> {}]
    /\ old = [p \in Providers |-> Empty]
    /\ new = [p \in Providers |-> Loaded(p)]
    /\ todo = [p \in Providers |-> {}]
    /\ routes = [p \in Providers |-> Loaded(p)]
    /\ start = [p \in Providers |-> [a \in Aliases |->
                   IF Loaded(p)[a] = None THEN "no" ELSE "check"]]
    /\ running = {}
    /\ pool = [a \in Aliases |-> NoRoute]
    /\ cancelled = {}
    /\ faults = 0
    /\ stale = [p \in Providers |-> FALSE]
    /\ lost = [p \in Providers |-> FALSE]

-----------------------------------------------------------------------------
(***************************************************************************)
(* The daemon                                                               *)
(***************************************************************************)
\* An open stream carries a message of every change.
Emit(p, a) ==
    \/ /\ stream[p] = "open"
       /\ msgs' = [msgs EXCEPT ![p] = Append(@, a)]
       /\ UNCHANGED history
    \/ /\ stream[p] # "open"
       /\ lost' = [lost EXCEPT ![p] = TRUE]
       /\ stale' = [stale EXCEPT ![p] = @ \/ watcher[p] \in {"off", "subscribe"}]
       /\ UNCHANGED msgs

\* A container is created, in the place of another of that name or not ...
Create(p, a) ==
    /\ created < Limits[present].created
    /\ created' = created + 1
    /\ cont' = [cont EXCEPT ![p][a] = created + 1] /\ UNCHANGED present
    /\ Emit(p, a)
    /\ UNCHANGED <<stream, watcher, sending, queue, loop, handlerVars, routeVars,
                   cancelled, faults>>

\* ... or destroyed.
Destroy(p, a) ==
    /\ cont[p][a] # None
    /\ cont' = [cont EXCEPT ![p][a] = None] /\ UNCHANGED present
    /\ Emit(p, a)
    /\ UNCHANGED <<created, stream, watcher, sending, queue, loop, handlerVars, routeVars,
                   cancelled, faults>>

\* The connection is lost, and with it what was not received.
StreamBreaks(p) ==
    /\ stream[p] = "open"
    /\ Fault
    /\ stream' = [stream EXCEPT ![p] = "broken"]
    /\ msgs' = [msgs EXCEPT ![p] = <<>>]
    /\ lost' = [lost EXCEPT ![p] = @ \/ msgs[p] # <<>>]
    /\ UNCHANGED <<daemon, watcher, sending, queue, loop, handlerVars, routeVars, cancelled,
                   stale>>

-----------------------------------------------------------------------------
(***************************************************************************)
(* DockerWatcher.EventsWithOptions.  Both channels are unbuffered.          *)
(***************************************************************************)
others == <<daemon, handlerVars, routeVars, cancelled, faults>>

\* chs = client.Events(ctx, options)
Subscribe(p) ==
    /\ watcher[p] = "subscribe"
    /\ stream' = [stream EXCEPT ![p] = "open"]
    /\ watcher' = [watcher EXCEPT ![p] = "select"]
    /\ UNCHANGED <<msgs, sending, queue, loop, others, history>>

\* case msg := <-chs.Messages: handleEvent
RecvMessage(p) ==
    /\ watcher[p] = "select" /\ msgs[p] # <<>>
    /\ msgs' = [msgs EXCEPT ![p] = Tail(@)]
    /\ sending' = [sending EXCEPT ![p] = Head(msgs[p])]
    /\ watcher' = [watcher EXCEPT ![p] = "event"]
    /\ UNCHANGED <<stream, queue, loop, others, history>>

\* Mutant: an error only makes the watcher connect again.
RecvErrorNoReload(p) ==
    /\ watcher[p] = "select" /\ stream[p] = "broken"
    /\ watcher' = [watcher EXCEPT ![p] = "subscribe"]
    /\ sending' = [sending EXCEPT ![p] = "reload"]
    /\ UNCHANGED <<stream, msgs, queue, loop, others, history>>

\* Mutant: what was sent last is sent again in the place of the trigger.
RecvErrorSameEvent(p) ==
    /\ watcher[p] = "select" /\ stream[p] = "broken"
    /\ watcher' = [watcher EXCEPT ![p] = "error"]
    /\ UNCHANGED <<sending, stream, msgs, queue, loop, others, history>>

\* case err := <-chs.Err: the error is sent, and then the trigger of a reload.
RecvError(p) ==
    /\ watcher[p] = "select" /\ stream[p] = "broken"
    /\ watcher' = [watcher EXCEPT ![p] = "error"]
    /\ sending' = [sending EXCEPT ![p] = "reload"]
    /\ UNCHANGED <<stream, msgs, queue, loop, others, history>>

\* case <-retry.C: checkConnection
CheckConnection(p) ==
    /\ watcher[p] = "retry"
    /\ watcher' = [watcher EXCEPT ![p] = "reload"]
    /\ UNCHANGED <<stream, msgs, sending, queue, loop, others, history>>

\* case <-ctx.Done(), in either select: the channels and the client are closed.
WatcherDone(p) ==
    /\ watcher[p] \in {"select", "retry"} /\ p \in cancelled
    /\ watcher' = [watcher EXCEPT ![p] = "off"]
    /\ stream' = [stream EXCEPT ![p] = "closed"]
    /\ msgs' = [msgs EXCEPT ![p] = <<>>]
    /\ UNCHANGED <<sending, queue, loop, others, history>>

-----------------------------------------------------------------------------
(***************************************************************************)
(* EventQueue.Start                                                         *)
(***************************************************************************)
\* What the watcher does when its send is received.
AfterSend == [event |-> "select", clear |-> "retry", reload |-> "subscribe"]

\* case event := <-eventCh
RecvEvent(p) ==
    /\ loop[p] = "select" /\ watcher[p] \in DOMAIN AfterSend
    /\ queue' = [queue EXCEPT ![p] = @ \cup {sending[p]}]
    /\ watcher' = [watcher EXCEPT ![p] = AfterSend[@]]
    /\ UNCHANGED <<stream, msgs, sending, loop, others, history>>

\* case err := <-errCh: onError logs it.
RecvErr(p) ==
    /\ loop[p] = "select" /\ watcher[p] = "error"
    /\ watcher' = [watcher EXCEPT ![p] = "clear"]
    /\ UNCHANGED <<stream, msgs, sending, queue, loop, others, history>>

\* case <-ticker.C: the queue is cloned and cleared, and Handle clones the routes.
Flush(p) ==
    /\ loop[p] = "select" /\ queue[p] # {}
    /\ batch' = [batch EXCEPT ![p] = queue[p]]
    /\ queue' = [queue EXCEPT ![p] = {}]
    /\ old' = [old EXCEPT ![p] = routes[p]]
    /\ loop' = [loop EXCEPT ![p] = "load"]
    /\ UNCHANGED <<daemon, watcherVars, new, todo, routeVars, cancelled, faults, history>>

\* case <-task.Context().Done(), or eventCh is closed
QueueDone(p) ==
    /\ loop[p] = "select" /\ p \in cancelled
    /\ loop' = [loop EXCEPT ![p] = "off"]
    /\ UNCHANGED <<daemon, watcherVars, queue, handlerVars, routeVars, cancelled, faults, history>>

-----------------------------------------------------------------------------
(***************************************************************************)
(* EventHandler.Handle                                                      *)
(***************************************************************************)
\* err != nil
LoadErrors(p) == \E a \in Aliases : cont[p][a] \in Invalid

\* With an error and no route at all, only a forced reload goes on.
Proceed(p, m, failed) ==
    IF failed /\ Keys(m) = {} /\ "reload" \notin batch[p]
    THEN /\ loop' = [loop EXCEPT ![p] = "select"]
         /\ UNCHANGED <<new, todo>>
    ELSE /\ loop' = [loop EXCEPT ![p] = "old"]
         /\ new' = [new EXCEPT ![p] = m]
         /\ todo' = [todo EXCEPT ![p] = Keys(old[p])]

Load(p) ==
    /\ loop[p] = "load"
    /\ Proceed(p, Loaded(p), LoadErrors(p))
    /\ stale' = [stale EXCEPT ![p] = @ /\ stream[p] # "open"]
    /\ UNCHANGED <<daemon, watcherVars, queue, batch, old, routeVars, cancelled, faults, lost>>

\* The daemon does not answer in time.
LoadFails(p) ==
    /\ loop[p] = "load"
    /\ Fault
    /\ Proceed(p, Empty, TRUE)
    /\ Miss(p)
    /\ UNCHANGED <<daemon, watcherVars, queue, batch, old, routeVars, cancelled>>

\* Mutant: the container id alone is compared.
MatchAnyId(p, a) == a \in batch[p] /\ new[p][a] = old[p][a]

\* match: an event of the batch has the name (or id) of the route's container.
MatchAny(p, a) == a \in batch[p]

\* Mutant: the callbacks run, the task goes on.
FinishCallbacks(p, a) ==
    /\ pool' = IF <<p, a, old[p][a]>> \in running THEN [pool EXCEPT ![a] = NoRoute] ELSE pool
    /\ routes' = [routes EXCEPT ![p][a] = None]
    /\ UNCHANGED running

\* The task of a route ends, and its callbacks take it out of the pool and of the
\* provider, both by its alias.
Finish(p, a) ==
    /\ running' = running \ {<<p, a, old[p][a]>>}
    /\ pool' = IF <<p, a, old[p][a]>> \in running THEN [pool EXCEPT ![a] = NoRoute] ELSE pool
    /\ routes' = [routes EXCEPT ![p][a] = None]

Idle(p) == \A a \in Aliases : start[p][a] = "no"

\* Remove: FinishAndWait.
Remove(p, a) ==
    /\ loop[p] = "old" /\ Idle(p) /\ a \in todo[p]
    /\ new[p][a] = None
    /\ Finish(p, a)
    /\ todo' = [todo EXCEPT ![p] = @ \ {a}]
    /\ UNCHANGED <<daemon, watcherVars, queue, loop, batch, old, new, start, cancelled,
                   faults, history>>

\* Mutant: the old route is not finished.
UpdateNoFinish(p, a) ==
    /\ loop[p] = "old" /\ Idle(p) /\ a \in todo[p]
    /\ new[p][a] # None /\ MatchAny(p, a)
    /\ start' = [start EXCEPT ![p][a] = "check"]
    /\ todo' = [todo EXCEPT ![p] = @ \ {a}]
    /\ UNCHANGED <<daemon, watcherVars, queue, loop, batch, old, new, cancelled,
                   routes, running, pool, faults, history>>

\* matchAny and Update: FinishAndWait, then startRoute.
Update(p, a) ==
    /\ loop[p] = "old" /\ Idle(p) /\ a \in todo[p]
    /\ new[p][a] # None /\ MatchAny(p, a)
    /\ Finish(p, a)
    /\ start' = [start EXCEPT ![p][a] = "check"]
    /\ todo' = [todo EXCEPT ![p] = @ \ {a}]
    /\ UNCHANGED <<daemon, watcherVars, queue, loop, batch, old, new, cancelled,
                   faults, history>>

\* No event is about this route; the trigger of a reload is about none.
Keep(p, a) ==
    /\ loop[p] = "old" /\ Idle(p) /\ a \in todo[p]
    /\ new[p][a] # None /\ ~MatchAny(p, a)
    /\ todo' = [todo EXCEPT ![p] = @ \ {a}]
    /\ UNCHANGED <<daemon, watcherVars, queue, loop, batch, old, new, routeVars, cancelled,
                   faults, history>>

\* The second loop: the routes that are new.
OldDone(p) ==
    /\ loop[p] = "old" /\ Idle(p) /\ todo[p] = {}
    /\ todo' = [todo EXCEPT ![p] = Keys(new[p]) \ Keys(old[p])]
    /\ loop' = [loop EXCEPT ![p] = "new"]
    /\ UNCHANGED <<daemon, watcherVars, queue, batch, old, new, routeVars, cancelled,
                   faults, history>>

Add(p, a) ==
    /\ loop[p] = "new" /\ Idle(p) /\ a \in todo[p]
    /\ start' = [start EXCEPT ![p][a] = "check"]
    /\ todo' = [todo EXCEPT ![p] = @ \ {a}]
    /\ UNCHANGED <<daemon, watcherVars, queue, loop, batch, old, new, routes, running, pool,
                   cancelled, faults, history>>

HandleDone(p) ==
    /\ loop[p] = "new" /\ Idle(p) /\ todo[p] = {}
    /\ loop' = [loop EXCEPT ![p] = "select"]
    /\ UNCHANGED <<daemon, watcherVars, queue, handlerVars, routeVars, cancelled, faults, history>>

-----------------------------------------------------------------------------
(***************************************************************************)
(* Provider.Start and startRoute                                            *)
(***************************************************************************)
\* wg.Wait() is over: the event queue is started with the watcher.
Started(p) ==
    /\ loop[p] = "start" /\ Idle(p)
    /\ loop' = [loop EXCEPT ![p] = "select"]
    /\ watcher' = [watcher EXCEPT ![p] = "subscribe"]
    /\ UNCHANGED <<daemon, stream, msgs, sending, queue, handlerVars, routeVars, cancelled,
                   faults, history>>

\* Route.start: checkExists finds no other route of that key ...
CheckExists(p, a) ==
    /\ start[p][a] = "check"
    /\ pool[a] = NoRoute
    /\ start' = [start EXCEPT ![p][a] = "add"]
    /\ UNCHANGED <<daemon, watcherVars, queue, loop, handlerVars, routes, running, pool,
                   cancelled, faults, history>>

\* ... or one, or the start of the implementation fails: lockDeleteRoute.
StartFails(p, a) ==
    /\ \/ start[p][a] = "check" /\ pool[a] # NoRoute /\ UNCHANGED faults
       \/ start[p][a] = "add" /\ Fault
    /\ start' = [start EXCEPT ![p][a] = "no"]
    /\ routes' = [routes EXCEPT ![p][a] = None]
    /\ Miss(p)
    /\ UNCHANGED <<daemon, watcherVars, queue, loop, handlerVars, running, pool, cancelled>>

\* routes.HTTP.Add (a docker route without rules is preferred over another) and
\* lockAddRoute; under a task that was cancelled both are taken back at once.
AddRoute(p, a) ==
    /\ start[p][a] = "add"
    /\ start' = [start EXCEPT ![p][a] = "no"]
    /\ IF p \in cancelled
       THEN /\ routes' = [routes EXCEPT ![p][a] = None]
            /\ pool' = [pool EXCEPT ![a] = NoRoute]
            /\ UNCHANGED running
       ELSE /\ routes' = [routes EXCEPT ![p][a] = new[p][a]]
            /\ running' = running \cup {<<p, a, new[p][a]>>}
            /\ pool' = [pool EXCEPT ![a] = <<p, a, new[p][a]>>]
    /\ UNCHANGED <<daemon, watcherVars, queue, loop, handlerVars, cancelled, faults, history>>

\* Mutant: the callbacks do not take the route out of the pool.
CancelKeepsPool(p) ==
    /\ p \notin cancelled
    /\ cancelled' = cancelled \cup {p}
    /\ running' = {r \in running : r[1] # p}
    /\ routes' = [routes EXCEPT ![p] = [a \in Aliases |->
                     IF <<p, a, routes[p][a]>> \in running THEN None ELSE routes[p][a]]]
    /\ UNCHANGED <<daemon, watcherVars, queue, loop, handlerVars, start, pool, faults, history>>

\* A reload cancels the provider, and with it its routes.
Cancel(p) ==
    /\ p \notin cancelled
    /\ cancelled' = cancelled \cup {p}
    /\ running' = {r \in running : r[1] # p}
    /\ pool' = [a \in Aliases |->
                   IF \E r \in running : r[1] = p /\ r[2] = a THEN NoRoute ELSE pool[a]]
    /\ routes' = [routes EXCEPT ![p] = [a \in Aliases |->
                     IF <<p, a, routes[p][a]>> \in running THEN None ELSE routes[p][a]]]
    /\ UNCHANGED <<daemon, watcherVars, queue, loop, handlerVars, start, faults, history>>

-----------------------------------------------------------------------------
DaemonNext(p) ==
    \/ \E a \in Hosted[p] : Create(p, a) \/ Destroy(p, a)
    \/ StreamBreaks(p) \/ Cancel(p)

WatcherNext(p) ==
    \/ Subscribe(p) \/ RecvMessage(p) \/ RecvError(p) \/ CheckConnection(p) \/ WatcherDone(p)

QueueNext(p) == RecvEvent(p) \/ RecvErr(p) \/ Flush(p) \/ QueueDone(p)

HandlerNext(p) ==
    \/ Load(p) \/ LoadFails(p) \/ OldDone(p) \/ HandleDone(p) \/ Started(p)
    \/ \E a \in Aliases : Remove(p, a) \/ Update(p, a) \/ Keep(p, a) \/ Add(p, a)

StartNext(p) == \E a \in Aliases : CheckExists(p, a) \/ StartFails(p, a) \/ AddRoute(p, a)

Next ==
    \E p \in present :
        \/ DaemonNext(p) \/ WatcherNext(p) \/ QueueNext(p) \/ HandlerNext(p)
        \/ StartNext(p)

Spec == Init /\ [][Next]_vars

\* The goroutines run, the ticker of the queue fires, and the daemon can be
\* reached again after a fault.
FairSpec ==
    /\ Spec
    /\ \A p \in Providers :
          /\ WF_vars(p \in present /\ WatcherNext(p))
          /\ WF_vars(p \in present /\ (QueueNext(p) \/ HandlerNext(p)))
          /\ WF_vars(p \in present /\ StartNext(p))

-----------------------------------------------------------------------------
Routes == Providers \X Aliases \X Containers

\* Every variable has its type: a route of the pool or of a provider is one of a container of
\* its daemon.
TypeOK ==
    /\ cont \in [Providers -> [Aliases -> {None} \cup Containers]]
    /\ created \in Containers /\ faults \in Nat
    /\ stream \in [Providers -> {"closed", "open", "broken"}]
    /\ watcher \in [Providers -> {"off", "subscribe", "select", "event", "error", "clear",
                                  "retry", "reload"}]
    /\ sending \in [Providers -> Aliases \cup {"reload"}]
    /\ \A p \in Providers : watcher[p] \in {"clear", "reload"} => sending[p] = "reload"
    /\ queue \in [Providers -> SUBSET (Aliases \cup {"reload"})]
    /\ loop \in [Providers -> {"start", "select", "load", "old", "new", "off"}]
    /\ routes \in [Providers -> [Aliases -> {None} \cup Containers]]
    /\ start \in [Providers -> [Aliases -> {"no", "check", "add"}]]
    /\ running \subseteq Routes
    /\ pool \in [Aliases -> {NoRoute} \cup Routes]

\* The pool never serves a route whose task has ended: what a request finds by
\* its host (entrypoint.go) is running.
ServedIsRunning == \A a \in Aliases : pool[a] # NoRoute => pool[a] \in running

\* A route that runs is found in the pool, unless another provider has a container
\* of the same name: checkExists and Add are two steps, Del looks at the key only.
RunningIsServed ==
    \A r \in running : (\A p \in present : r[2] \in Hosted[p] => p = r[1]) => pool[r[2]] = r

\* Between two batches Provider.routes holds the routes that run, and no container
\* has two of them.
RoutesAreRunning ==
    \A p \in Providers : loop[p] = "select" =>
        {r \in running : r[1] = p} = {<<p, a, routes[p][a]>> : a \in Keys(routes[p])}

\* What nothing but the daemon of p can keep from starting.
Own(p) == {a \in Hosted[p] : \A q \in present : a \in Hosted[q] => q = p}

\* When the containers have stopped changing, a provider has a route for just the
\* containers there are, in spite of broken streams and failures it had a reload
\* after; a load that finds nothing but errors keeps the routes there were.
RoutesConverge ==
    \A p \in Providers :
        <>[](\/ p \notin present \/ stale[p] \/ p \in cancelled \/ (LoadErrors(p) /\ Keys(Loaded(p)) = {})
             \/ Keys(routes[p]) \cap Own(p) = Keys(Loaded(p)) \cap Own(p))

\* A provider that never missed an event ends with the routes of the containers
\* there are, not of ones they have replaced.
RoutesFollow ==
    \A p \in Providers :
        <>[](\/ p \notin present \/ lost[p] \/ p \in cancelled \/ (LoadErrors(p) /\ Keys(Loaded(p)) = {})
             \/ \A a \in Own(p) : routes[p][a] = Loaded(p)[a])
=============================================================================
