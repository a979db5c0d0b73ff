-------------------------- MODULE ProvidersProofs --------------------------
(***************************************************************************)
(* Proofs about the docker providers: the routes of a provider, the tasks   *)
(* of its routes and the pool that all providers share agree, for any       *)
(* number of providers, containers and events, through failed loads and     *)
(* starts and a cancelled provider.                                         *)
(*                                                                          *)
(* EventHandler.Handle works on a clone of the routes, in steps that        *)
(* interleave with a cancellation.  HandlerInv says where the clone still   *)
(* tells the truth, RouteInv relates the tasks that run to Provider.routes, *)
(* and PoolInv to the pool.                                                 *)
(***************************************************************************)
EXTENDS Providers, TLAPS

Maps == [Providers -> [Aliases -> {None} \cup Containers]]

HandlerTypes ==
    /\ present \in Configs
    /\ msgs \in [Providers -> Seq(Aliases)]
    /\ \A p \in Providers : watcher[p] \in {"error", "clear", "retry", "reload"} => sending[p] = "reload"
    /\ old \in Maps /\ new \in Maps
    /\ todo \in [Providers -> SUBSET Aliases]

\* A provider knows only containers of its own daemon.
HostInv ==
    \A p \in Providers, a \in Aliases :
        cont[p][a] # None \/ new[p][a] # None => a \in Hosted[p]

\* A route is started from Start or from the two loops of Handle, which have passed it.
HandlerInv ==
    /\ \A p \in Providers, a \in Aliases : start[p][a] # "no" =>
          /\ p \in present /\ loop[p] \in {"start", "old", "new"} /\ new[p][a] # None
          /\ loop[p] = "old" => old[p][a] # None
          /\ loop[p] \in {"old", "new"} => a \notin todo[p]
    /\ \A p \in Providers, a \in Aliases : a \in todo[p] =>
          /\ loop[p] = "old" => old[p][a] # None
          /\ loop[p] = "new" => new[p][a] # None /\ old[p][a] = None

\* The tasks that run are those of the routes that were started, and what the loops of
\* Handle have not reached runs as it did when the routes were cloned, or not any more.
RouteInv ==
    /\ \A p \in Providers, a \in Aliases, c \in Containers : <<p, a, c>> \in running =>
          /\ p \in present /\ a \in Hosted[p] /\ start[p][a] = "no" /\ routes[p][a] = c
          /\ loop[p] = "load" => old[p][a] = c
          /\ loop[p] = "old" => old[p][a] # None /\ (a \in todo[p] => old[p][a] = c)
          /\ loop[p] = "new" => a \notin todo[p]
    /\ \A p \in Providers, a \in Aliases :
          start[p][a] = "no" /\ routes[p][a] # None => <<p, a, routes[p][a]>> \in running

\* The pool has routes that run, by their alias, and all but those two providers have.
PoolInv ==
    /\ \A a \in Aliases : pool[a] # NoRoute =>
          \E p \in Providers, c \in Containers : pool[a] = <<p, a, c>> /\ <<p, a, c>> \in running
    /\ \A p \in Providers, a \in Aliases, c \in Containers :
          <<p, a, c>> \in running /\ (\A q \in present : a \in Hosted[q] => q = p) => pool[a] = <<p, a, c>>

-----------------------------------------------------------------------------
\* The providers of a configuration have daemons, and their containers aliases.
LEMMA PresentProviders ==
    /\ \A s \in Configs : s \subseteq Providers
    /\ \A p \in Providers : \A a \in Hosted[p] : a \in Aliases
<1>1. \A s \in Configs : s \subseteq Providers
  BY ProvidersAssumption
<1>2. \A p \in Providers : \A a \in Hosted[p] : a \in Aliases
  BY DEF Aliases
<1> QED BY <1>1, <1>2
\* What loadRoutes finds is a map of the provider's own containers.
LEMMA LoadedMaps ==
    ASSUME TypeOK
    PROVE  /\ Empty \in [Aliases -> {None} \cup Containers] /\ Keys(Empty) = {}
           /\ \A p \in Providers : Loaded(p) \in [Aliases -> {None} \cup Containers]
           /\ \A p \in Providers, a \in Aliases : Loaded(p)[a] # None => cont[p][a] # None
<1>1. Empty \in [Aliases -> {None} \cup Containers] /\ Keys(Empty) = {}
  BY DEF Empty, Keys
<1>2. ASSUME NEW p \in Providers PROVE Loaded(p) \in [Aliases -> {None} \cup Containers]
  <2>1. \A a \in Aliases : cont[p][a] \in {None} \cup Containers
    BY DEF TypeOK
  <2> QED BY <2>1 DEF Loaded
<1>3. ASSUME NEW p \in Providers, NEW a \in Aliases, Loaded(p)[a] # None PROVE cont[p][a] # None
  BY <1>3 DEF Loaded
<1> QED BY <1>1, <1>2, <1>3

\* The configuration has been loaded and no route is started.
LEMMA Initially == Init => TypeOK /\ HandlerTypes /\ HostInv /\ HandlerInv /\ RouteInv /\ PoolInv
<1> SUFFICES ASSUME Init PROVE TypeOK /\ HandlerTypes /\ HostInv /\ HandlerInv /\ RouteInv /\ PoolInv
  OBVIOUS
<1>1. Empty \in [Aliases -> {None} \cup Containers] /\ \A a \in Aliases : Empty[a] = None
  BY DEF Empty
<1>2. PICK p0 \in present : \E a \in Hosted[p0] :
          cont = [q \in Providers |-> IF q = p0 THEN [Empty EXCEPT ![a] = 1] ELSE Empty]
  BY Zenon DEF Init
<1>3. PICK a0 \in Hosted[p0] :
          cont = [q \in Providers |-> IF q = p0 THEN [Empty EXCEPT ![a0] = 1] ELSE Empty]
  BY <1>2, SMTT(30)
<1>4. p0 \in Providers /\ a0 \in Aliases /\ 1 \in Containers /\ present \in Configs
  BY PresentProviders DEF Init, Containers, None
<1>5. [Empty EXCEPT ![a0] = 1] \in [Aliases -> {None} \cup Containers]
  BY <1>1, <1>4
<1>6. cont \in Maps
  BY <1>1, <1>3, <1>5 DEF Maps
<1>7. \A p \in Providers, a \in Aliases : cont[p][a] # None => a \in Hosted[p]
  BY <1>1, <1>3, <1>4
<1>8. \A p \in Providers : Loaded(p) \in [Aliases -> {None} \cup Containers]
  <2> SUFFICES ASSUME NEW p \in Providers PROVE Loaded(p) \in [Aliases -> {None} \cup Containers]
    OBVIOUS
  <2>1. \A a \in Aliases : cont[p][a] \in {None} \cup Containers
    BY <1>6 DEF Maps
  <2> QED BY <2>1 DEF Loaded
<1>9. \A p \in Providers, a \in Aliases : Loaded(p)[a] # None => cont[p][a] # None
  BY DEF Loaded
<1>10. /\ new = [p \in Providers |-> Loaded(p)] /\ routes = [p \in Providers |-> Loaded(p)]
       /\ start = [p \in Providers |-> [a \in Aliases |-> IF Loaded(p)[a] = None THEN "no" ELSE "check"]]
       /\ old = [p \in Providers |-> Empty] /\ todo = [p \in Providers |-> {}]
       /\ loop = [p \in Providers |-> "start"] /\ running = {} /\ pool = [a \in Aliases |-> NoRoute]
  BY DEF Init
<1>11. new \in Maps /\ routes \in Maps /\ old \in Maps /\ todo \in [Providers -> SUBSET Aliases]
  BY <1>1, <1>8, <1>10 DEF Maps
<1>12. HandlerTypes
  <2>1. <<>> \in Seq(Aliases)
    OBVIOUS
  <2>2. msgs \in [Providers -> Seq(Aliases)]
    BY <2>1 DEF Init
  <2>3. \A p \in Providers : watcher[p] = "off"
    BY DEF Init
  <2> QED BY <1>4, <1>11, <2>2, <2>3 DEF HandlerTypes
<1>13. HostInv
  BY <1>7, <1>9, <1>10 DEF HostInv
<1>14. RouteInv /\ PoolInv
  BY <1>10 DEF RouteInv, PoolInv
<1>15. TypeOK
  <2>1. start \in [Providers -> [Aliases -> {"no", "check", "add"}]]
    BY <1>10
  <2>2. created \in Containers /\ faults \in Nat
    BY <1>4 DEF Init
  <2>3. /\ stream \in [Providers -> {"closed", "open", "broken"}]
        /\ watcher \in [Providers -> {"off", "subscribe", "select", "event", "error", "clear", "retry", "reload"}]
        /\ sending \in [Providers -> Aliases \cup {"reload"}]
        /\ \A p \in Providers : watcher[p] = "off"
        /\ queue \in [Providers -> SUBSET (Aliases \cup {"reload"})]
        /\ loop \in [Providers -> {"start", "select", "load", "old", "new", "off"}]
    BY DEF Init
  <2> QED BY <1>6, <1>10, <1>11, <2>1, <2>2, <2>3 DEF TypeOK, Maps
<1>16. HandlerInv
  <2>1. \A p \in Providers, a \in Aliases : cont[p][a] # None => p \in present
    BY <1>1, <1>3, <1>4
  <2>2. \A p \in Providers, a \in Aliases : start[p][a] # "no" => Loaded(p)[a] # None
    BY <1>10
  <2> QED BY <1>9, <1>10, <2>1, <2>2 DEF HandlerInv
<1> QED BY <1>12, <1>13, <1>14, <1>15, <1>16
-----------------------------------------------------------------------------
\* The steps of the daemon, the watcher and the event queue that no handler sees.
Outside ==
    \/ \E p \in present : \E a \in Hosted[p] : Create(p, a) \/ Destroy(p, a)
    \/ \E p \in present : StreamBreaks(p) \/ WatcherNext(p) \/ RecvEvent(p) \/ RecvErr(p)

\* Types under the steps outside the handler.
LEMMA OutsideTypes ==
    ASSUME TypeOK, HandlerTypes, HostInv, Outside
    PROVE  TypeOK' /\ HandlerTypes' /\ HostInv'
<1> DEFINE WatcherStates == {"off", "subscribe", "select", "event", "error", "clear", "retry", "reload"}
           Names == Aliases \cup {"reload"}
<1>p. \A p \in present : p \in Providers
  BY PresentProviders DEF HandlerTypes
<1>u. UNCHANGED <<present, loop, old, new, todo, start, routes, running, pool>>
  BY DEF Outside, Create, Destroy, StreamBreaks, WatcherNext, Subscribe, RecvMessage, RecvError, CheckConnection,
         WatcherDone, RecvEvent, RecvErr, others, daemon, handlerVars, routeVars
<1>t. /\ watcher \in [Providers -> WatcherStates] /\ sending \in [Providers -> Names]
      /\ \A p \in Providers : watcher[p] \in {"error", "clear", "retry", "reload"} => sending[p] = "reload"
      /\ stream \in [Providers -> {"closed", "open", "broken"}] /\ msgs \in [Providers -> Seq(Aliases)]
      /\ queue \in [Providers -> SUBSET Names] /\ cont \in Maps
      /\ created \in Nat /\ created # 0 /\ faults \in Nat
  BY DEF TypeOK, HandlerTypes, Maps, Containers, None
\* What is left to show of a step.
<1>1. ASSUME cont' \in Maps, created' \in Containers, faults' \in Nat,
             stream' \in [Providers -> {"closed", "open", "broken"}],
             watcher' \in [Providers -> WatcherStates], sending' \in [Providers -> Names],
             \A p \in Providers : watcher'[p] \in {"error", "clear", "retry", "reload"} => sending'[p] = "reload",
             queue' \in [Providers -> SUBSET Names], msgs' \in [Providers -> Seq(Aliases)],
             \A p \in Providers, a \in Aliases : cont'[p][a] # None => cont[p][a] # None \/ a \in Hosted[p]
      PROVE  TypeOK' /\ HandlerTypes' /\ HostInv'
  <2>1. TypeOK'
    BY <1>1, <1>u DEF TypeOK, Maps
  <2>2. HandlerTypes'
    BY <1>1, <1>u DEF HandlerTypes, Maps
  <2>3. HostInv'
    BY <1>1, <1>u DEF HostInv
  <2> QED BY <2>1, <2>2, <2>3
<1>2. ASSUME NEW p \in present, NEW a \in Hosted[p], Create(p, a) \/ Destroy(p, a)
      PROVE  TypeOK' /\ HandlerTypes' /\ HostInv'
  <2>1. p \in Providers /\ a \in Aliases
    BY <1>p, PresentProviders
  <2>2. PICK n \in {None} \cup Containers : cont' = [cont EXCEPT ![p][a] = n]
    <3>1. created + 1 \in Containers
      BY <1>t DEF Containers, None
    <3> QED BY <1>2, <3>1 DEF Create, Destroy
  <2>3. created' \in Containers
    BY <1>2, <1>t DEF Create, Destroy, Containers, None
  <2>4. cont' \in Maps
    BY <1>t, <2>1, <2>2 DEF Maps
  <2>5. \A q \in Providers, b \in Aliases : cont'[q][b] # None => cont[q][b] # None \/ b \in Hosted[q]
    BY <1>t, <2>1, <2>2 DEF Maps
  <2>6. msgs' \in [Providers -> Seq(Aliases)]
    <3>1. msgs[p] \in Seq(Aliases)
      BY <1>t, <2>1
    <3>2. Append(msgs[p], a) \in Seq(Aliases)
      BY <2>1, <3>1
    <3>3. msgs' = msgs \/ msgs' = [msgs EXCEPT ![p] = Append(msgs[p], a)]
      BY <1>2 DEF Create, Destroy, Emit
    <3> QED BY <1>t, <2>1, <3>2, <3>3, Zenon
  <2>7. UNCHANGED <<stream, watcher, sending, queue, faults>>
    BY <1>2 DEF Create, Destroy
  <2> HIDE DEF WatcherStates, Names
  <2> QED BY <1>1, <1>t, <2>3, <2>4, <2>5, <2>6, <2>7
<1>3. ASSUME NEW p \in present, StreamBreaks(p) PROVE TypeOK' /\ HandlerTypes' /\ HostInv'
  <2>1. UNCHANGED <<cont, created, watcher, sending, queue>>
    BY <1>3 DEF StreamBreaks, daemon
  <2>2. faults' \in Nat
    BY <1>3, <1>t DEF StreamBreaks, Fault
  <2>3. stream' \in [Providers -> {"closed", "open", "broken"}]
    BY <1>3, <1>t, Zenon DEF StreamBreaks
  <2>4. msgs' \in [Providers -> Seq(Aliases)]
    <3>1. <<>> \in Seq(Aliases)
      OBVIOUS
    <3> QED BY <1>3, <1>t, <3>1, Zenon DEF StreamBreaks
  <2>5. created \in Containers
    BY DEF TypeOK
  <2> HIDE DEF WatcherStates, Names
  <2> QED BY <1>1, <1>t, <2>1, <2>2, <2>3, <2>4, <2>5
<1>4. ASSUME NEW p \in present, WatcherNext(p) \/ RecvEvent(p) \/ RecvErr(p)
      PROVE  TypeOK' /\ HandlerTypes' /\ HostInv'
  <2>1. p \in Providers
    BY <1>p
  <2>2. UNCHANGED <<cont, created, faults>> /\ created \in Containers
    BY <1>4 DEF WatcherNext, Subscribe, RecvMessage, RecvError, CheckConnection, WatcherDone, RecvEvent, RecvErr,
                others, daemon, TypeOK
  <2>3. /\ watcher' \in [Providers -> WatcherStates] /\ sending' \in [Providers -> Names]
        /\ \A q \in Providers : watcher'[q] \in {"error", "clear", "retry", "reload"} => sending'[q] = "reload"
        /\ queue' \in [Providers -> SUBSET Names]
        /\ stream' \in [Providers -> {"closed", "open", "broken"}] /\ msgs' \in [Providers -> Seq(Aliases)]
    <3>1. CASE Subscribe(p)
      BY <1>t, <2>1, <3>1 DEF Subscribe
    <3>2. CASE RecvMessage(p)
      <4>1. msgs[p] \in Seq(Aliases) /\ msgs[p] # <<>>
        BY <1>t, <2>1, <3>2 DEF RecvMessage
      <4>2. Head(msgs[p]) \in Aliases /\ Tail(msgs[p]) \in Seq(Aliases)
        BY <4>1
      <4> QED BY <1>t, <2>1, <3>2, <4>2 DEF RecvMessage
    <3>3. CASE RecvError(p)
      BY <1>t, <2>1, <3>3 DEF RecvError
    <3>4. CASE CheckConnection(p)
      BY <1>t, <2>1, <3>4 DEF CheckConnection
    <3>5. CASE WatcherDone(p)
      <4>1. <<>> \in Seq(Aliases)
        OBVIOUS
      <4>2. msgs' \in [Providers -> Seq(Aliases)]
        BY <1>t, <2>1, <3>5, <4>1, Zenon DEF WatcherDone
      <4> QED BY <1>t, <2>1, <3>5, <4>2 DEF WatcherDone
    <3>6. CASE RecvEvent(p)
      <4>1. PICK w \in {"select", "retry", "subscribe"} :
               watcher' = [watcher EXCEPT ![p] = w] /\ (w = "retry" => sending[p] = "reload")
        <5>1. watcher[p] \in {"event", "clear", "reload"}
          BY <3>6 DEF RecvEvent, AfterSend
        <5>2. AfterSend["event"] = "select" /\ AfterSend["clear"] = "retry" /\ AfterSend["reload"] = "subscribe"
          BY DEF AfterSend
        <5>3. /\ AfterSend[watcher[p]] \in {"select", "retry", "subscribe"}
              /\ AfterSend[watcher[p]] = "retry" => sending[p] = "reload"
          BY <1>t, <2>1, <5>1, <5>2
        <5>4. watcher' = [watcher EXCEPT ![p] = AfterSend[watcher[p]]]
          BY <3>6 DEF RecvEvent
        <5> QED BY <5>3, <5>4, Zenon
      <4>2. queue' \in [Providers -> SUBSET Names]
        BY <1>t, <2>1, <3>6 DEF RecvEvent
      <4> QED BY <1>t, <2>1, <3>6, <4>1, <4>2 DEF RecvEvent
    <3>7. CASE RecvErr(p)
      BY <1>t, <2>1, <3>7 DEF RecvErr
    <3> QED BY <1>4, <3>1, <3>2, <3>3, <3>4, <3>5, <3>6, <3>7 DEF WatcherNext
  <2> HIDE DEF WatcherStates, Names
  <2> QED BY <1>1, <1>t, <2>2, <2>3
<1> QED BY <1>2, <1>3, <1>4 DEF Outside
-----------------------------------------------------------------------------
\* The steps of the event queue that move the handler, of the handler and of Start, of a
\* route that is started, and the cancellation.
Inside(p) == Flush(p) \/ QueueDone(p) \/ HandlerNext(p) \/ StartNext(p) \/ Cancel(p)

LoopStates == {"start", "select", "load", "old", "new", "off"}
StartStates == {"no", "check", "add"}

\* Types under the steps of the handler and of the routes.
LEMMA InsideTypes ==
    ASSUME TypeOK, HandlerTypes, HostInv, HandlerInv, NEW p \in present, Inside(p)
    PROVE  TypeOK' /\ HandlerTypes' /\ HostInv'
<1>p. p \in Providers
  BY PresentProviders DEF HandlerTypes
<1>t. /\ loop \in [Providers -> LoopStates] /\ start \in [Providers -> [Aliases -> StartStates]]
      /\ routes \in Maps /\ old \in Maps /\ new \in Maps /\ todo \in [Providers -> SUBSET Aliases]
      /\ queue \in [Providers -> SUBSET (Aliases \cup {"reload"})] /\ faults \in Nat
      /\ running \subseteq Routes /\ pool \in [Aliases -> {NoRoute} \cup Routes]
  BY DEF TypeOK, HandlerTypes, Maps, LoopStates, StartStates
<1>m. /\ Loaded(p) \in [Aliases -> {None} \cup Containers] /\ Empty \in [Aliases -> {None} \cup Containers]
      /\ \A a \in Aliases : Empty[a] = None /\ (Loaded(p)[a] # None => a \in Hosted[p])
  BY <1>p, LoadedMaps DEF HostInv, Empty
<1>u. UNCHANGED <<present, cont, created, stream, msgs, sending>>
  BY Zenon DEF Inside, Flush, QueueDone, HandlerNext, Load, LoadFails, OldDone, HandleDone, Started, Remove, Update, Keep,
         Add, StartNext, CheckExists, StartFails, AddRoute, Cancel, daemon, watcherVars
<1>w. watcher' = watcher \/ watcher' = [watcher EXCEPT ![p] = "subscribe"]
  BY Zenon DEF Inside, Flush, QueueDone, HandlerNext, Load, LoadFails, OldDone, HandleDone, Started, Remove, Update, Keep,
         Add, StartNext, CheckExists, StartFails, AddRoute, Cancel, watcherVars
\* What is left to show of a step.
<1>1. ASSUME loop' \in [Providers -> LoopStates], start' \in [Providers -> [Aliases -> StartStates]],
             routes' \in Maps, old' \in Maps, new' \in Maps, todo' \in [Providers -> SUBSET Aliases],
             queue' \in [Providers -> SUBSET (Aliases \cup {"reload"})], faults' \in Nat,
             running' \subseteq Routes, pool' \in [Aliases -> {NoRoute} \cup Routes],
             \A q \in Providers, a \in Aliases : new'[q][a] # None => a \in Hosted[q]
      PROVE  TypeOK' /\ HandlerTypes' /\ HostInv'
  <2>1. TypeOK'
    BY <1>1, <1>p, <1>u, <1>w, ZenonT(30) DEF TypeOK, Maps, LoopStates, StartStates
  <2>2. HandlerTypes'
    BY <1>1, <1>p, <1>u, <1>w DEF HandlerTypes, TypeOK
  <2>3. HostInv'
    BY <1>1, <1>u DEF HostInv
  <2> QED BY <2>1, <2>2, <2>3
<1>h. \A q \in Providers, a \in Aliases : new[q][a] # None => a \in Hosted[q]
  BY DEF HostInv
<1>2. CASE Flush(p)
  <2>1. old' \in Maps
    BY <1>2, <1>p, <1>t DEF Flush, Maps
  <2>2. loop' \in [Providers -> LoopStates]
    BY <1>2, <1>p, <1>t DEF Flush, LoopStates
  <2>3. queue' \in [Providers -> SUBSET (Aliases \cup {"reload"})]
    BY <1>2, <1>p, <1>t DEF Flush
  <2>4. UNCHANGED <<new, todo, start, routes, running, pool, faults>>
    BY <1>2, SMTT(30) DEF Flush, routeVars
  <2> QED BY <1>1, <1>t, <1>h, <2>1, <2>2, <2>3, <2>4
<1>3. CASE QueueDone(p) \/ HandleDone(p) \/ Started(p)
  <2>1. loop' \in [Providers -> LoopStates]
    BY <1>3, <1>p, <1>t, SMTT(30) DEF QueueDone, HandleDone, Started, LoopStates
  <2>2. UNCHANGED <<queue, old, new, todo, start, routes, running, pool, faults>>
    BY <1>3 DEF QueueDone, HandleDone, Started, handlerVars, routeVars
  <2> QED BY <1>1, <1>t, <1>h, <2>1, <2>2
<1>4. ASSUME NEW m \in [Aliases -> {None} \cup Containers], \A a \in Aliases : m[a] # None => a \in Hosted[p],
             NEW e, Proceed(p, m, e), faults' \in Nat, UNCHANGED <<queue, old, start, routes, running, pool>>
      PROVE  TypeOK' /\ HandlerTypes' /\ HostInv'
  <2>1. loop' \in [Providers -> LoopStates]
    BY <1>4, <1>p, <1>t, Zenon DEF Proceed, LoopStates
  <2>2. new' \in Maps /\ \A q \in Providers, a \in Aliases : new'[q][a] # None => a \in Hosted[q]
    BY <1>4, <1>p, <1>t, <1>h, Zenon DEF Proceed, Maps
  <2>3. todo' \in [Providers -> SUBSET Aliases]
    BY <1>4, <1>p, <1>t DEF Proceed, Keys
  <2> QED BY <1>1, <1>4, <1>t, <2>1, <2>2, <2>3
<1>5. CASE Load(p)
  <2>1. faults' \in Nat /\ UNCHANGED <<queue, old, start, routes, running, pool>> /\ Proceed(p, Loaded(p), LoadErrors(p))
    BY <1>5, <1>t DEF Load, routeVars
  <2> QED BY <1>4, <1>m, <2>1
<1>6. CASE LoadFails(p)
  <2>1. faults' \in Nat
    BY <1>6, <1>t DEF LoadFails, Fault
  <2>2. UNCHANGED <<queue, old, start, routes, running, pool>> /\ Proceed(p, Empty, TRUE)
    BY <1>6, Zenon DEF LoadFails, routeVars
  <2> QED BY <1>4, <1>m, <2>1, <2>2, Zenon
<1>7. CASE OldDone(p)
  <2>1. loop' \in [Providers -> LoopStates]
    BY <1>7, <1>p, <1>t DEF OldDone, LoopStates
  <2>2. todo' \in [Providers -> SUBSET Aliases]
    BY <1>7, <1>p, <1>t DEF OldDone, Keys
  <2>3. UNCHANGED <<queue, old, new, start, routes, running, pool, faults>>
    BY <1>7 DEF OldDone, routeVars
  <2> QED BY <1>1, <1>t, <1>h, <2>1, <2>2, <2>3
<1>8. ASSUME NEW a \in Aliases, Finish(p, a)
      PROVE  /\ running' \subseteq Routes /\ pool' \in [Aliases -> {NoRoute} \cup Routes] /\ routes' \in Maps
  BY <1>8, <1>p, <1>t DEF Finish, Maps
<1>9. ASSUME NEW a \in Aliases, Remove(p, a) \/ Update(p, a) \/ Keep(p, a) \/ Add(p, a)
      PROVE  TypeOK' /\ HandlerTypes' /\ HostInv'
  <2>1. running' \subseteq Routes /\ pool' \in [Aliases -> {NoRoute} \cup Routes] /\ routes' \in Maps
    BY <1>8, <1>9, <1>t, SMTT(30) DEF Remove, Update, Keep, Add, routeVars
  <2>2. start' \in [Providers -> [Aliases -> StartStates]]
    BY <1>9, <1>p, <1>t, SMTT(30) DEF Remove, Update, Keep, Add, routeVars, StartStates
  <2>3. todo' \in [Providers -> SUBSET Aliases]
    BY <1>9, <1>p, <1>t, ZenonT(30) DEF Remove, Update, Keep, Add
  <2>4. UNCHANGED <<queue, loop, old, new, faults>>
    BY <1>9 DEF Remove, Update, Keep, Add
  <2> QED BY <1>1, <1>t, <1>h, <2>1, <2>2, <2>3, <2>4, SMTT(30)
<1>10. ASSUME NEW a \in Aliases, CheckExists(p, a) \/ StartFails(p, a)
       PROVE  TypeOK' /\ HandlerTypes' /\ HostInv'
  <2>1. start' \in [Providers -> [Aliases -> StartStates]]
    BY <1>10, <1>p, <1>t DEF CheckExists, StartFails, StartStates
  <2>2. routes' \in Maps
    <3>1. routes' = routes \/ routes' = [routes EXCEPT ![p][a] = None]
      BY <1>10 DEF CheckExists, StartFails
    <3>2. CASE routes' = [routes EXCEPT ![p][a] = None]
      <4>1. PICK c \in {None} \cup Containers : routes' = [routes EXCEPT ![p][a] = c]
        BY <3>2, Zenon
      <4> QED BY <1>p, <1>t, <4>1 DEF Maps
    <3> QED BY <1>t, <3>1, <3>2
  <2>3. faults' \in Nat
    BY <1>10, <1>t DEF CheckExists, StartFails, Fault
  <2>4. UNCHANGED <<queue, loop, old, new, todo, running, pool>>
    BY <1>10 DEF CheckExists, StartFails, handlerVars
  <2> QED BY <1>1, <1>t, <1>h, <2>1, <2>2, <2>3, <2>4
<1>11. ASSUME NEW a \in Aliases, AddRoute(p, a) PROVE TypeOK' /\ HandlerTypes' /\ HostInv'
  <2>1. new[p][a] \in Containers
    BY <1>11, <1>p, <1>t DEF AddRoute, HandlerInv, Maps
  <2>2. start' \in [Providers -> [Aliases -> StartStates]]
    BY <1>11, <1>p, <1>t DEF AddRoute, StartStates
  <2>3. routes' \in Maps
    <3>1. PICK c \in {None} \cup Containers : routes' = [routes EXCEPT ![p][a] = c]
      BY <1>11, <2>1 DEF AddRoute
    <3> QED BY <1>p, <1>t, <3>1 DEF Maps
  <2>4. <<p, a, new[p][a]>> \in Routes
    BY <1>p, <2>1 DEF Routes
  <2>5. running' \subseteq Routes /\ pool' \in [Aliases -> {NoRoute} \cup Routes]
    BY <1>11, <1>t, <2>4, Zenon DEF AddRoute
  <2>6. UNCHANGED <<queue, loop, old, new, todo, faults>>
    BY <1>11 DEF AddRoute, handlerVars
  <2> QED BY <1>1, <1>t, <1>h, <2>2, <2>3, <2>5, <2>6
<1>12. CASE Cancel(p)
  <2>1. routes' \in Maps
    <3> DEFINE m == [a \in Aliases |-> IF <<p, a, routes[p][a]>> \in running THEN None ELSE routes[p][a]]
    <3>1. \A a \in Aliases : routes[p][a] \in {None} \cup Containers
      BY <1>p, <1>t DEF Maps
    <3>2. m \in [Aliases -> {None} \cup Containers]
      BY <3>1
    <3>3. routes' = [routes EXCEPT ![p] = m]
      BY <1>12 DEF Cancel
    <3> HIDE DEF m
    <3> QED BY <1>p, <1>t, <3>2, <3>3 DEF Maps
  <2>2. running' \subseteq Routes /\ pool' \in [Aliases -> {NoRoute} \cup Routes]
    BY <1>12, <1>t DEF Cancel
  <2>3. UNCHANGED <<queue, loop, old, new, todo, start, faults>>
    BY <1>12 DEF Cancel, handlerVars
  <2> QED BY <1>1, <1>t, <1>h, <2>1, <2>2, <2>3
<1> QED
  BY <1>2, <1>3, <1>5, <1>6, <1>7, <1>9, <1>10, <1>11, <1>12 DEF Inside, HandlerNext, StartNext
\* The steps outside the handler touch neither a route nor what the handler works on.
LEMMA OutsideKeeps ==
    ASSUME HandlerInv, RouteInv, PoolInv, UNCHANGED <<present, loop, old, new, todo, start, routes, running, pool>>
    PROVE  HandlerInv' /\ RouteInv' /\ PoolInv'
<1>1. HandlerInv'
  BY DEF HandlerInv
<1>2. RouteInv'
  BY DEF RouteInv
<1>3. PoolInv'
  BY DEF PoolInv
<1> QED BY <1>1, <1>2, <1>3

\* The handler's loops and the starts of routes.
LEMMA HandlerStep ==
    ASSUME TypeOK, HandlerTypes, HandlerInv, NEW p \in present, Inside(p)
    PROVE  HandlerInv'
<1>p. p \in Providers
  BY PresentProviders DEF HandlerTypes
<1>t. /\ loop \in [Providers -> LoopStates] /\ start \in [Providers -> [Aliases -> StartStates]]
      /\ old \in Maps /\ new \in Maps /\ todo \in [Providers -> SUBSET Aliases]
  BY DEF TypeOK, HandlerTypes, LoopStates, StartStates
<1>i. loop[p] \in {"select", "load", "off"} => Idle(p)
  BY <1>p, SMTT(30) DEF HandlerInv, Idle
<1>u. present' = present
  BY Zenon DEF Inside, Flush, QueueDone, HandlerNext, Load, LoadFails, OldDone, HandleDone, Started, Remove, Update, Keep,
         Add, StartNext, CheckExists, StartFails, AddRoute, Cancel, daemon
\* The handler moves while no route of it is being started.
<1>1. ASSUME Idle(p), start' = start, NEW l \in LoopStates, loop' = [loop EXCEPT ![p] = l],
             \A q \in Providers : q # p => old'[q] = old[q] /\ new'[q] = new[q] /\ todo'[q] = todo[q],
             \A a \in Aliases : a \in todo'[p] =>
                /\ l = "old" => old'[p][a] # None
                /\ l = "new" => new'[p][a] # None /\ old'[p][a] = None
      PROVE  HandlerInv'
  <2>1. \A a \in Aliases : start'[p][a] = "no"
    BY <1>1 DEF Idle
  <2>2. loop'[p] = l /\ \A q \in Providers : q # p => loop'[q] = loop[q]
    BY <1>1, <1>p, <1>t, SMTT(30)
  <2> QED BY <1>1, <1>u, <2>1, <2>2, SMTT(30) DEF HandlerInv
<1>2. CASE Flush(p)
  <2>1. \A q \in Providers : q # p => old'[q] = old[q] /\ new'[q] = new[q] /\ todo'[q] = todo[q]
    BY <1>2, <1>t DEF Flush, Maps
  <2>2. Idle(p) /\ start' = start /\ loop' = [loop EXCEPT ![p] = "load"]
    BY <1>2, <1>i DEF Flush, routeVars
  <2> QED BY <1>1, <2>1, <2>2, SMTT(30) DEF LoopStates
<1>3. CASE QueueDone(p) \/ HandleDone(p) \/ Started(p)
  <2>1. Idle(p) /\ UNCHANGED <<start, old, new, todo>>
    BY <1>3, <1>i, SMTT(30) DEF QueueDone, HandleDone, Started, handlerVars, routeVars
  <2>2. PICK l \in {"off", "select"} : loop' = [loop EXCEPT ![p] = l]
    BY <1>3, SMTT(30) DEF QueueDone, HandleDone, Started
  <2> QED BY <1>1, <2>1, <2>2, Zenon DEF LoopStates
<1>4. ASSUME loop[p] = "load", NEW m, NEW e, Proceed(p, m, e), UNCHANGED <<old, start>>
      PROVE  HandlerInv'
  <2>1. CASE loop' = [loop EXCEPT ![p] = "select"] /\ UNCHANGED <<new, todo>>
    BY <1>1, <1>4, <1>i, <2>1, SMTT(30) DEF LoopStates
  <2>2. CASE /\ loop' = [loop EXCEPT ![p] = "old"] /\ new' = [new EXCEPT ![p] = m]
             /\ todo' = [todo EXCEPT ![p] = Keys(old[p])]
    <3>1. \A q \in Providers : q # p => old'[q] = old[q] /\ new'[q] = new[q] /\ todo'[q] = todo[q]
      BY <1>4, <1>t, <2>2 DEF Maps
    <3>2. todo'[p] = Keys(old[p])
      BY <1>p, <1>t, <2>2
    <3>3. \A a \in Aliases : a \in todo'[p] => old'[p][a] # None
      BY <1>4, <3>2 DEF Keys
    <3> QED BY <1>1, <1>4, <1>i, <2>2, <3>1, <3>3 DEF LoopStates
  <2> QED BY <1>4, <2>1, <2>2 DEF Proceed
<1>5. CASE Load(p) \/ LoadFails(p)
  BY <1>4, <1>5, Zenon DEF Load, LoadFails, routeVars
<1>6. CASE OldDone(p)
  <2>1. Idle(p) /\ UNCHANGED <<start, old, new>> /\ loop' = [loop EXCEPT ![p] = "new"]
    BY <1>6 DEF OldDone, routeVars
  <2>2. \A q \in Providers : q # p => todo'[q] = todo[q]
    BY <1>6, <1>t DEF OldDone
  <2>3. todo'[p] = Keys(new[p]) \ Keys(old[p])
    BY <1>6, <1>p, <1>t DEF OldDone
  <2>4. \A a \in Aliases : a \in todo'[p] => new'[p][a] # None /\ old'[p][a] = None
    BY <2>1, <2>3, SMTT(30) DEF Keys
  <2> QED BY <1>1, <2>1, <2>2, <2>4, SMTT(30) DEF LoopStates
<1>7. ASSUME NEW a \in Aliases, Remove(p, a) \/ Keep(p, a) PROVE HandlerInv'
  <2>1. Idle(p) /\ UNCHANGED <<start, old, new, loop>> /\ todo' = [todo EXCEPT ![p] = todo[p] \ {a}]
    BY <1>7 DEF Remove, Keep, routeVars
  <2>2. \A q \in Providers : todo'[q] \subseteq todo[q]
    BY <1>p, <1>t, <2>1
  <2> QED BY <1>u, <2>1, <2>2, SMTT(30) DEF HandlerInv
<1>8. ASSUME NEW a \in Aliases, Update(p, a) \/ Add(p, a) PROVE HandlerInv'
  <2>1. /\ UNCHANGED <<old, new, loop>> /\ todo' = [todo EXCEPT ![p] = todo[p] \ {a}]
        /\ start' = [start EXCEPT ![p][a] = "check"] /\ loop[p] \in {"old", "new"}
        /\ a \in todo[p] /\ (loop[p] = "old" => new[p][a] # None)
    BY <1>8 DEF Update, Add
  <2>2. \A q \in Providers : todo'[q] \subseteq todo[q] /\ a \notin todo'[p]
    BY <1>p, <1>t, <2>1
  <2>3. \A q \in Providers, b \in Aliases : start'[q][b] # "no" => start[q][b] # "no" \/ (q = p /\ b = a)
    BY <1>p, <1>t, <2>1, SMTT(30)
  <2> QED BY <1>p, <1>u, <2>1, <2>2, <2>3 DEF HandlerInv
<1>9. ASSUME NEW a \in Aliases, CheckExists(p, a) \/ StartFails(p, a) \/ AddRoute(p, a) PROVE HandlerInv'
  <2>1. /\ UNCHANGED <<old, new, loop, todo>> /\ start[p][a] # "no"
    BY <1>9 DEF CheckExists, StartFails, AddRoute, handlerVars
  <2>2. PICK n \in {"add", "no"} : start' = [start EXCEPT ![p][a] = n]
    BY <1>9 DEF CheckExists, StartFails, AddRoute
  <2>3. \A q \in Providers, b \in Aliases : start'[q][b] # "no" => start[q][b] # "no"
    BY <1>p, <1>t, <2>1, <2>2, SMTT(30)
  <2> QED BY <1>u, <2>1, <2>3 DEF HandlerInv
<1>10. CASE Cancel(p)
  BY <1>10, <1>u DEF Cancel, HandlerInv, handlerVars
<1> QED
  BY <1>2, <1>3, <1>5, <1>6, <1>7, <1>8, <1>9, <1>10 DEF Inside, HandlerNext, StartNext
\* Provider.routes and the tasks that run.
LEMMA RouteStep ==
    ASSUME TypeOK, HandlerTypes, HostInv, HandlerInv, RouteInv, NEW p \in present, Inside(p)
    PROVE  RouteInv'
<1> USE DEF Containers
<1>p. p \in Providers
  BY PresentProviders DEF HandlerTypes
<1>t. /\ loop \in [Providers -> LoopStates] /\ start \in [Providers -> [Aliases -> StartStates]]
      /\ old \in Maps /\ new \in Maps /\ todo \in [Providers -> SUBSET Aliases] /\ routes \in Maps
      /\ running \subseteq Routes
  BY SMTT(30) DEF TypeOK, HandlerTypes, LoopStates, StartStates, Maps
<1>u. present' = present
  BY Zenon DEF Inside, Flush, QueueDone, HandlerNext, Load, LoadFails, OldDone, HandleDone, Started, Remove, Update, Keep,
         Add, StartNext, CheckExists, StartFails, AddRoute, Cancel, daemon
\* The handler moves, and no route changes.
<1>1. ASSUME UNCHANGED <<start, routes, running>>, NEW l \in LoopStates, loop' = [loop EXCEPT ![p] = l],
             \A q \in Providers : q # p => old'[q] = old[q] /\ todo'[q] = todo[q],
             \A a \in Aliases, c \in Containers : <<p, a, c>> \in running =>
                /\ l = "load" => old'[p][a] = c
                /\ l = "old" => old'[p][a] # None /\ (a \in todo'[p] => old'[p][a] = c)
                /\ l = "new" => a \notin todo'[p]
      PROVE  RouteInv'
  <2>1. loop'[p] = l /\ \A q \in Providers : q # p => loop'[q] = loop[q]
    BY <1>1, <1>p, <1>t
  <2> QED BY <1>1, <1>u, <2>1, SMTT(30) DEF RouteInv
<1>2. CASE Flush(p)
  <2>1. \A q \in Providers : q # p => old'[q] = old[q] /\ todo'[q] = todo[q]
    BY <1>2, <1>t DEF Flush, Maps
  <2>2. old'[p] = routes[p]
    BY <1>2, <1>p, <1>t DEF Flush, Maps
  <2>3. UNCHANGED <<start, routes, running>> /\ loop' = [loop EXCEPT ![p] = "load"]
    BY <1>2, SMTT(30) DEF Flush, routeVars
  <2>4. \A a \in Aliases, c \in Containers : <<p, a, c>> \in running => old'[p][a] = c
    BY <1>p, <2>2 DEF RouteInv
  <2> QED BY <1>1, <2>1, <2>3, <2>4 DEF LoopStates
<1>3. CASE QueueDone(p) \/ HandleDone(p) \/ Started(p)
  <2>1. UNCHANGED <<start, routes, running, old, todo>>
    BY <1>3, SMTT(30) DEF QueueDone, HandleDone, Started, handlerVars, routeVars
  <2>2. PICK l \in {"off", "select"} : loop' = [loop EXCEPT ![p] = l]
    BY <1>3, SMTT(30) DEF QueueDone, HandleDone, Started
  <2> QED BY <1>1, <2>1, <2>2, Zenon DEF LoopStates
<1>4. ASSUME loop[p] = "load", NEW m, NEW e, Proceed(p, m, e), UNCHANGED <<old, start, routes, running>>
      PROVE  RouteInv'
  <2>1. CASE loop' = [loop EXCEPT ![p] = "select"] /\ UNCHANGED <<new, todo>>
    BY <1>1, <1>4, <2>1, SMTT(30) DEF LoopStates
  <2>2. CASE loop' = [loop EXCEPT ![p] = "old"] /\ todo' = [todo EXCEPT ![p] = Keys(old[p])]
    <3>1. \A q \in Providers : q # p => old'[q] = old[q] /\ todo'[q] = todo[q]
      BY <1>4, <1>t, <2>2, SMTT(30)
    <3>2. \A a \in Aliases, c \in Containers : <<p, a, c>> \in running => old'[p][a] = c /\ old'[p][a] # None
      BY <1>4, <1>p DEF RouteInv
    <3> QED BY <1>1, <1>4, <2>2, <3>1, <3>2 DEF LoopStates
  <2> QED BY <1>4, <2>1, <2>2 DEF Proceed
<1>5. CASE Load(p) \/ LoadFails(p)
  BY <1>4, <1>5, Zenon DEF Load, LoadFails, routeVars
<1>6. CASE OldDone(p)
  <2>1. UNCHANGED <<start, routes, running, old>> /\ loop' = [loop EXCEPT ![p] = "new"]
    BY <1>6 DEF OldDone, routeVars
  <2>2. \A q \in Providers : q # p => todo'[q] = todo[q]
    BY <1>6, <1>t DEF OldDone
  <2>3. todo'[p] = Keys(new[p]) \ Keys(old[p])
    BY <1>6, <1>p, <1>t, SMTT(30) DEF OldDone
  <2>4. \A a \in Aliases, c \in Containers : <<p, a, c>> \in running => a \notin todo'[p]
    BY <1>6, <1>p, <2>3, SMTT(30) DEF RouteInv, OldDone, Keys
  <2> QED BY <1>1, <2>1, <2>2, <2>4, SMTT(30) DEF LoopStates
\* A route that has no task moves, and no task that runs ends.
<1>7. ASSUME NEW a \in Aliases, NEW n \in StartStates, NEW r \in {None} \cup Containers,
             \A c \in Containers : <<p, a, c>> \notin running', running' \subseteq running,
             \A q \in Providers, b \in Aliases, c \in Containers :
                <<q, b, c>> \in running /\ ~(q = p /\ b = a) => <<q, b, c>> \in running',
             start' = [start EXCEPT ![p][a] = n], routes' = [routes EXCEPT ![p][a] = r],
             n = "no" => r = None,
             UNCHANGED <<loop, old>>, \A q \in Providers : todo'[q] \subseteq todo[q]
      PROVE  RouteInv'
  <2>1. \A q \in Providers, b \in Aliases : ~(q = p /\ b = a) => start'[q][b] = start[q][b] /\ routes'[q][b] = routes[q][b]
    BY <1>7, <1>p, <1>t, SMTT(30) DEF Maps
  <2>2. start'[p][a] = n /\ routes'[p][a] = r
    BY <1>7, <1>p, <1>t, SMTT(30) DEF Maps
  <2>3. ASSUME NEW q \in Providers, NEW b \in Aliases, NEW c \in Containers, <<q, b, c>> \in running'
        PROVE  /\ q \in present' /\ b \in Hosted[q] /\ start'[q][b] = "no" /\ routes'[q][b] = c
               /\ loop'[q] = "load" => old'[q][b] = c
               /\ loop'[q] = "old" => old'[q][b] # None /\ (b \in todo'[q] => old'[q][b] = c)
               /\ loop'[q] = "new" => b \notin todo'[q]
    <3>1. ~(q = p /\ b = a) /\ <<q, b, c>> \in running
      BY <1>7, <2>3
    <3> QED BY <1>7, <1>u, <2>1, <3>1 DEF RouteInv
  <2>4. ASSUME NEW q \in Providers, NEW b \in Aliases, start'[q][b] = "no", routes'[q][b] # None
        PROVE  <<q, b, routes'[q][b]>> \in running'
    <3>1. ~(q = p /\ b = a)
      BY <1>7, <2>2, <2>4, SMTT(30)
    <3>2. routes'[q][b] = routes[q][b] /\ routes[q][b] \in Containers /\ <<q, b, routes[q][b]>> \in running
      BY <1>t, <1>u, <2>1, <2>4, <3>1 DEF RouteInv, Maps
    <3> QED BY <1>7, <3>1, <3>2
  <2> QED BY <2>3, <2>4, SMTT(30) DEF RouteInv
\* The loop over the old routes ends the task of one of them.
<1>8. ASSUME NEW a \in Aliases, Finish(p, a), a \in todo[p], loop[p] = "old"
      PROVE  /\ \A c \in Containers : <<p, a, c>> \notin running'
             /\ running' \subseteq running /\ routes' = [routes EXCEPT ![p][a] = None]
             /\ \A q \in Providers, b \in Aliases, c \in Containers :
                   <<q, b, c>> \in running /\ ~(q = p /\ b = a) => <<q, b, c>> \in running'
  BY <1>8, <1>p DEF Finish, RouteInv
<1>9. ASSUME NEW a \in Aliases, Remove(p, a) PROVE RouteInv'
  <2>1. /\ loop[p] = "old" /\ a \in todo[p] /\ Finish(p, a) /\ start[p][a] = "no" /\ start' = start
        /\ UNCHANGED <<loop, old>> /\ todo' = [todo EXCEPT ![p] = todo[p] \ {a}]
    BY <1>9 DEF Remove, Idle
  <2>2. start' = [start EXCEPT ![p][a] = "no"]
    BY <1>p, <1>t, <2>1
  <2>3. \A q \in Providers : todo'[q] \subseteq todo[q]
    BY <1>p, <1>t, <2>1
  <2> QED BY <1>7, <1>8, <2>1, <2>2, <2>3, Zenon DEF StartStates
<1>10. ASSUME NEW a \in Aliases, Update(p, a) PROVE RouteInv'
  <2>1. /\ loop[p] = "old" /\ a \in todo[p] /\ Finish(p, a) /\ start' = [start EXCEPT ![p][a] = "check"]
        /\ UNCHANGED <<loop, old>> /\ todo' = [todo EXCEPT ![p] = todo[p] \ {a}]
    BY <1>10 DEF Update
  <2>2. \A q \in Providers : todo'[q] \subseteq todo[q]
    BY <1>p, <1>t, <2>1, SMTT(30)
  <2> QED BY <1>7, <1>8, <2>1, <2>2, Zenon DEF StartStates
<1>11. ASSUME NEW a \in Aliases, Keep(p, a) PROVE RouteInv'
  <2>1. UNCHANGED <<loop, old, start, routes, running>> /\ todo' = [todo EXCEPT ![p] = todo[p] \ {a}]
    BY <1>11, Zenon DEF Keep, routeVars
  <2>2. \A q \in Providers : todo'[q] \subseteq todo[q]
    BY <1>p, <1>t, <2>1
  <2> QED BY <1>u, <2>1, <2>2 DEF RouteInv
<1>12. ASSUME NEW a \in Aliases, Add(p, a) PROVE RouteInv'
  <2>1. /\ loop[p] = "new" /\ a \in todo[p] /\ start' = [start EXCEPT ![p][a] = "check"]
        /\ UNCHANGED <<loop, old, routes, running>> /\ todo' = [todo EXCEPT ![p] = todo[p] \ {a}]
    BY <1>12 DEF Add
  <2>2. \A q \in Providers : todo'[q] \subseteq todo[q]
    BY <1>p, <1>t, <2>1
  <2>3. \A c \in Containers : <<p, a, c>> \notin running
    BY <1>p, <2>1 DEF RouteInv
  <2>4. routes' = [routes EXCEPT ![p][a] = routes[p][a]] /\ routes[p][a] \in {None} \cup Containers
    BY <1>p, <1>t, <2>1, SMTT(30) DEF Maps
  <2> QED BY <1>7, <2>1, <2>2, <2>3, <2>4, Zenon DEF StartStates<1>13. ASSUME NEW a \in Aliases, start[p][a] # "no" PROVE \A c \in Containers : <<p, a, c>> \notin running
  BY <1>13, <1>p DEF RouteInv
<1>14. ASSUME NEW a \in Aliases, CheckExists(p, a) PROVE RouteInv'
  <2>1. /\ start[p][a] # "no" /\ start' = [start EXCEPT ![p][a] = "add"]
        /\ UNCHANGED <<loop, old, todo, routes, running>>
    BY <1>14 DEF CheckExists, handlerVars
  <2>2. routes' = [routes EXCEPT ![p][a] = routes[p][a]] /\ routes[p][a] \in {None} \cup Containers
    BY <1>p, <1>t, <2>1 DEF Maps
  <2> QED BY <1>7, <1>13, <2>1, <2>2, Zenon DEF StartStates
<1>15. ASSUME NEW a \in Aliases, StartFails(p, a) PROVE RouteInv'
  <2>1. /\ start[p][a] # "no" /\ start' = [start EXCEPT ![p][a] = "no"]
        /\ routes' = [routes EXCEPT ![p][a] = None] /\ UNCHANGED <<loop, old, todo, running>>
    BY <1>15 DEF StartFails, handlerVars
  <2> QED BY <1>7, <1>13, <2>1, Zenon DEF StartStates
<1>16. ASSUME NEW a \in Aliases, AddRoute(p, a) PROVE RouteInv'
  <2>1. /\ start[p][a] = "add" /\ start' = [start EXCEPT ![p][a] = "no"] /\ UNCHANGED <<loop, old, new, todo>>
    BY <1>16 DEF AddRoute, handlerVars
  <2>2. CASE routes' = [routes EXCEPT ![p][a] = None] /\ running' = running
    BY <1>7, <1>13, <2>1, <2>2, Zenon DEF StartStates
  <2>3. CASE routes' = [routes EXCEPT ![p][a] = new[p][a]] /\ running' = running \cup {<<p, a, new[p][a]>>}
    <3>1. /\ new[p][a] # None /\ new[p][a] \in Containers /\ loop[p] \in {"start", "old", "new"}
          /\ loop[p] = "old" => old[p][a] # None
          /\ loop[p] \in {"old", "new"} => a \notin todo[p]
      BY <1>p, <1>t, <2>1, SMTT(30) DEF HandlerInv, Maps
    <3>2. a \in Hosted[p]
      BY <1>p, <3>1 DEF HostInv
    <3>3. \A q \in Providers, b \in Aliases : ~(q = p /\ b = a) => start'[q][b] = start[q][b] /\ routes'[q][b] = routes[q][b]
      BY <1>p, <1>t, <2>1, <2>3 DEF Maps
    <3>4. start'[p][a] = "no" /\ routes'[p][a] = new[p][a]
      BY <1>p, <1>t, <2>1, <2>3 DEF Maps
    <3>5. \A c \in Containers : <<p, a, c>> \notin running
      BY <1>13, <2>1, SMTT(30)
    <3>6. ASSUME NEW q \in Providers, NEW b \in Aliases, NEW c \in Containers, <<q, b, c>> \in running'
          PROVE  /\ q \in present' /\ b \in Hosted[q] /\ start'[q][b] = "no" /\ routes'[q][b] = c
                 /\ loop'[q] = "load" => old'[q][b] = c
                 /\ loop'[q] = "old" => old'[q][b] # None /\ (b \in todo'[q] => old'[q][b] = c)
                 /\ loop'[q] = "new" => b \notin todo'[q]
      <4>1. CASE q = p /\ b = a
        <5>1. c = new[p][a]
          BY <2>3, <3>5, <3>6, <4>1, SMTT(30)
        <5> QED BY <1>u, <2>1, <3>1, <3>2, <3>4, <4>1, <5>1
      <4>2. CASE ~(q = p /\ b = a)
        <5>1. <<q, b, c>> \in running
          BY <2>3, <3>6, <4>2, SMTT(30)
        <5> QED BY <1>u, <2>1, <3>3, <4>2, <5>1 DEF RouteInv
      <4> QED BY <4>1, <4>2
    <3>7. ASSUME NEW q \in Providers, NEW b \in Aliases, start'[q][b] = "no", routes'[q][b] # None
          PROVE  <<q, b, routes'[q][b]>> \in running'
      BY <1>u, <2>3, <3>3, <3>4, <3>7, SMTT(30) DEF RouteInv
    <3> QED BY <3>6, <3>7, Zenon DEF RouteInv
  <2> QED BY <1>16, <2>2, <2>3 DEF AddRoute
<1>17. CASE Cancel(p)
  <2>1. /\ running' = {r \in running : r[1] # p} /\ UNCHANGED <<loop, old, todo, start>>
        /\ routes' = [routes EXCEPT ![p] = [a \in Aliases |->
                         IF <<p, a, routes[p][a]>> \in running THEN None ELSE routes[p][a]]]
    BY <1>17 DEF Cancel, handlerVars
  <2>2. \A q \in Providers, b \in Aliases, c \in Containers :
            <<q, b, c>> \in running' <=> <<q, b, c>> \in running /\ q # p
    BY <2>1
  <2>3. /\ \A q \in Providers : q # p => routes'[q] = routes[q]
        /\ \A b \in Aliases : routes'[p][b] = IF <<p, b, routes[p][b]>> \in running THEN None ELSE routes[p][b]
    BY <1>p, <1>t, <2>1 DEF Maps
  <2>4. \A q \in Providers, b \in Aliases : routes[q][b] \in {None} \cup Containers
    BY <1>t, SMTT(30) DEF Maps
  <2>5. ASSUME NEW q \in Providers, NEW b \in Aliases, NEW c \in Containers, <<q, b, c>> \in running'
        PROVE  /\ q \in present' /\ b \in Hosted[q] /\ start'[q][b] = "no" /\ routes'[q][b] = c
               /\ loop'[q] = "load" => old'[q][b] = c
               /\ loop'[q] = "old" => old'[q][b] # None /\ (b \in todo'[q] => old'[q][b] = c)
               /\ loop'[q] = "new" => b \notin todo'[q]
    <3>1. <<q, b, c>> \in running /\ q # p
      BY <2>2, <2>5
    <3> QED BY <1>u, <2>1, <2>3, <3>1, SMTT(30) DEF RouteInv
  <2>6. ASSUME NEW q \in Providers, NEW b \in Aliases, start'[q][b] = "no", routes'[q][b] # None
        PROVE  <<q, b, routes'[q][b]>> \in running'
    <3>1. start[q][b] = "no"
      BY <2>1, <2>6, SMTT(30)
    <3>2. CASE q = p
      <4>1. <<p, b, routes[p][b]>> \notin running /\ routes[p][b] # None
        BY <2>3, <2>6, <3>2
      <4> QED BY <1>p, <3>1, <3>2, <4>1 DEF RouteInv
    <3>3. CASE q # p
      <4>1. routes'[q][b] = routes[q][b] /\ routes[q][b] \in Containers
        BY <2>3, <2>4, <2>6, <3>3, SMTT(30)
      <4>2. <<q, b, routes[q][b]>> \in running
        BY <2>6, <3>1, <4>1 DEF RouteInv
      <4> QED BY <2>2, <3>3, <4>1, <4>2
    <3> QED BY <3>2, <3>3
  <2> QED BY <2>5, <2>6 DEF RouteInv
<1> QED
  BY <1>2, <1>3, <1>5, <1>6, <1>9, <1>10, <1>11, <1>12, <1>14, <1>15, <1>16, <1>17
  DEF Inside, HandlerNext, StartNext
\* The pool and the tasks that run.
LEMMA PoolStep ==
    ASSUME TypeOK, HandlerTypes, HostInv, HandlerInv, RouteInv, PoolInv, NEW p \in present, Inside(p)
    PROVE  PoolInv'
<1> DEFINE Alone(q, a) == \A o \in present : a \in Hosted[o] => o = q
<1>p. p \in Providers
  BY PresentProviders DEF HandlerTypes
<1>t. /\ new \in Maps /\ running \subseteq Routes /\ pool \in [Aliases -> {NoRoute} \cup Routes]
  BY SMTT(30) DEF TypeOK, HandlerTypes
<1>u. present' = present
  BY ZenonT(30) DEF Inside, Flush, QueueDone, HandlerNext, Load, LoadFails, OldDone, HandleDone, Started, Remove, Update, Keep,
         Add, StartNext, CheckExists, StartFails, AddRoute, Cancel, daemon
<1>1. CASE UNCHANGED <<running, pool>>
  BY <1>1, <1>u, Zenon DEF PoolInv
\* The task of a route ends: its alias served it, or the route of another provider.
<1>2. ASSUME NEW a \in Aliases, Finish(p, a), a \in todo[p], loop[p] = "old" PROVE PoolInv'
  <2>1. CASE <<p, a, old[p][a]>> \notin running
    <3>1. running' = running /\ pool' = pool
      BY <1>2, <2>1 DEF Finish
    <3> QED BY <1>1, <3>1
  <2>2. CASE <<p, a, old[p][a]>> \in running
    <3>1. running' = running \ {<<p, a, old[p][a]>>} /\ pool' = [pool EXCEPT ![a] = NoRoute]
      BY <1>2, <2>2 DEF Finish
    <3>2. a \in Hosted[p]
      <4>1. old[p][a] \in Containers
        BY <1>t, <2>2, SMTT(30) DEF Routes
      <4> QED BY <1>p, <2>2, <4>1, SMTT(30) DEF RouteInv
    <3>3. \A c \in Containers : <<p, a, c>> \notin running'
      BY <1>2, <1>p, <3>1 DEF RouteInv
    <3>4. pool'[a] = NoRoute /\ \A b \in Aliases : b # a => pool'[b] = pool[b]
      BY <1>t, <3>1
    <3>5. ASSUME NEW b \in Aliases, pool'[b] # NoRoute
          PROVE  \E q \in Providers, c \in Containers : pool'[b] = <<q, b, c>> /\ <<q, b, c>> \in running'
      <4>1. b # a /\ pool'[b] = pool[b]
        BY <3>4, <3>5
      <4>2. PICK q \in Providers, c \in Containers : pool[b] = <<q, b, c>> /\ <<q, b, c>> \in running
        BY <3>5, <4>1, Zenon DEF PoolInv
      <4>3. <<q, b, c>> \in running'
        BY <3>1, <4>1, <4>2
      <4> QED BY <4>1, <4>2, <4>3
    <3>6. ASSUME NEW q \in Providers, NEW b \in Aliases, NEW c \in Containers, <<q, b, c>> \in running', Alone(q, b)
          PROVE  pool'[b] = <<q, b, c>>
      <4>1. <<q, b, c>> \in running
        BY <3>1, <3>6
      <4>2. b # a
        BY <3>2, <3>3, <3>6
      <4> QED BY <3>4, <3>6, <4>1, <4>2 DEF PoolInv
    <3> QED BY <1>u, <3>5, <3>6, Zenon DEF PoolInv
  <2> QED BY <2>1, <2>2
<1>3. ASSUME NEW a \in Aliases, Remove(p, a) \/ Update(p, a) PROVE PoolInv'
  BY <1>2, <1>3 DEF Remove, Update
<1>4. ASSUME NEW a \in Aliases, AddRoute(p, a) PROVE PoolInv'
  <2>1. new[p][a] \in Containers /\ a \in Hosted[p] /\ start[p][a] # "no"
    <3>1. start[p][a] = "add" /\ new[p][a] # None
      BY <1>4, <1>p, SMTT(30) DEF AddRoute, HandlerInv
    <3> QED BY <1>p, <1>t, <3>1, SMTT(30) DEF HostInv, Maps
  <2>2. \A c \in Containers : <<p, a, c>> \notin running
    BY <1>p, <2>1, Zenon DEF RouteInv
  <2>3. CASE running' = running /\ pool' = [pool EXCEPT ![a] = NoRoute]
    <3>1. pool'[a] = NoRoute /\ \A b \in Aliases : b # a => pool'[b] = pool[b]
      BY <1>t, <2>3, SMTT(30)
    <3>2. ASSUME NEW b \in Aliases, pool'[b] # NoRoute
          PROVE  \E q \in Providers, c \in Containers : pool'[b] = <<q, b, c>> /\ <<q, b, c>> \in running'
      BY <2>3, <3>1, <3>2, SMTT(30) DEF PoolInv
    <3>3. ASSUME NEW q \in Providers, NEW b \in Aliases, NEW c \in Containers, <<q, b, c>> \in running', Alone(q, b)
          PROVE  pool'[b] = <<q, b, c>>
      <4>1. b # a
        BY <2>1, <2>2, <2>3, <3>3
      <4> QED BY <2>3, <3>1, <3>3, <4>1 DEF PoolInv
    <3> QED BY <1>u, <3>2, <3>3, Zenon DEF PoolInv
  <2>4. CASE /\ running' = running \cup {<<p, a, new[p][a]>>}
             /\ pool' = [pool EXCEPT ![a] = <<p, a, new[p][a]>>]
    <3>1. pool'[a] = <<p, a, new[p][a]>> /\ \A b \in Aliases : b # a => pool'[b] = pool[b]
      BY <1>t, <2>4
    <3>2. ASSUME NEW b \in Aliases, pool'[b] # NoRoute
          PROVE  \E q \in Providers, c \in Containers : pool'[b] = <<q, b, c>> /\ <<q, b, c>> \in running'
      <4>1. CASE b = a
        BY <1>p, <2>1, <2>4, <3>1, <4>1
      <4>2. CASE b # a
        BY <2>4, <3>1, <3>2, <4>2, Zenon DEF PoolInv
      <4> QED BY <4>1, <4>2, Zenon
    <3>3. ASSUME NEW q \in Providers, NEW b \in Aliases, NEW c \in Containers, <<q, b, c>> \in running', Alone(q, b)
          PROVE  pool'[b] = <<q, b, c>>
      <4>1. CASE <<q, b, c>> = <<p, a, new[p][a]>>
        BY <3>1, <4>1, SMTT(30)
      <4>2. CASE <<q, b, c>> \in running
        <5>1. b # a
          BY <2>1, <2>2, <3>3, <4>2
        <5> QED BY <3>1, <3>3, <4>2, <5>1 DEF PoolInv
      <4> QED BY <2>4, <3>3, <4>1, <4>2
    <3> QED BY <1>u, <3>2, <3>3 DEF PoolInv
  <2> QED BY <1>4, <2>3, <2>4, SMTT(30) DEF AddRoute
<1>5. CASE Cancel(p)
  <2>1. /\ running' = {r \in running : r[1] # p}
        /\ pool' = [a \in Aliases |-> IF \E r \in running : r[1] = p /\ r[2] = a THEN NoRoute ELSE pool[a]]
    BY <1>5 DEF Cancel
  <2>2. \A q \in Providers, b \in Aliases, c \in Containers :
            <<q, b, c>> \in running' <=> <<q, b, c>> \in running /\ q # p
    BY <2>1, SMTT(30)
  <2>3. \A b \in Aliases : pool'[b] = IF \E r \in running : r[1] = p /\ r[2] = b THEN NoRoute ELSE pool[b]
    BY <2>1, SMTT(30)
  <2>4. ASSUME NEW b \in Aliases, pool'[b] # NoRoute
        PROVE  \E q \in Providers, c \in Containers : pool'[b] = <<q, b, c>> /\ <<q, b, c>> \in running'
    <3>1. pool'[b] = pool[b] /\ ~(\E r \in running : r[1] = p /\ r[2] = b)
      BY <2>3, <2>4, SMTT(30)
    <3>2. PICK q \in Providers, c \in Containers : pool[b] = <<q, b, c>> /\ <<q, b, c>> \in running
      BY <2>4, <3>1 DEF PoolInv
    <3>3. q # p
      BY <3>1, <3>2, SMTT(30)
    <3> QED BY <2>2, <3>1, <3>2, <3>3
  <2>5. ASSUME NEW q \in Providers, NEW b \in Aliases, NEW c \in Containers, <<q, b, c>> \in running', Alone(q, b)
        PROVE  pool'[b] = <<q, b, c>>
    <3>1. <<q, b, c>> \in running /\ q # p
      BY <2>2, <2>5
    <3>2. b \notin Hosted[p]
      BY <2>5, <3>1
    <3>3. ~(\E r \in running : r[1] = p /\ r[2] = b)
      <4> SUFFICES ASSUME NEW r \in running, r[1] = p, r[2] = b PROVE FALSE
        OBVIOUS
      <4>1. PICK d \in Containers : r = <<p, b, d>>
        BY <1>t, SMTT(30) DEF Routes
      <4> QED BY <1>p, <3>2, <4>1 DEF RouteInv
    <3> QED BY <2>3, <2>5, <3>1, <3>3 DEF PoolInv
  <2> QED BY <1>u, <2>4, <2>5, Zenon DEF PoolInv
<1>6. CASE Flush(p) \/ QueueDone(p) \/ Load(p) \/ LoadFails(p) \/ OldDone(p) \/ HandleDone(p) \/ Started(p)
  BY <1>1, <1>6, Zenon DEF Flush, QueueDone, Load, LoadFails, OldDone, HandleDone, Started, routeVars
<1>7. ASSUME NEW a \in Aliases, Keep(p, a) \/ Add(p, a) \/ CheckExists(p, a) \/ StartFails(p, a) PROVE PoolInv'
  BY <1>1, <1>7 DEF Keep, Add, CheckExists, StartFails, routeVars
<1> QED BY <1>3, <1>4, <1>5, <1>6, <1>7 DEF Inside, HandlerNext, StartNext
-----------------------------------------------------------------------------
\* Every step keeps the inductive invariant.
LEMMA ProvidersStep ==
    ASSUME TypeOK, HandlerTypes, HostInv, HandlerInv, RouteInv, PoolInv, [Next]_vars
    PROVE  (TypeOK /\ HandlerTypes /\ HostInv /\ HandlerInv /\ RouteInv /\ PoolInv)'
<1>1. CASE Outside
  <2>1. UNCHANGED <<present, loop, old, new, todo, start, routes, running, pool>>
    BY <1>1 DEF Outside, Create, Destroy, StreamBreaks, WatcherNext, Subscribe, RecvMessage, RecvError,
                CheckConnection, WatcherDone, RecvEvent, RecvErr, others, daemon, handlerVars, routeVars
  <2> QED BY <1>1, <2>1, OutsideTypes, OutsideKeeps, SMTT(30)
<1>2. ASSUME NEW p \in present, Inside(p)
      PROVE  (TypeOK /\ HandlerTypes /\ HostInv /\ HandlerInv /\ RouteInv /\ PoolInv)'
  BY <1>2, InsideTypes, HandlerStep, RouteStep, PoolStep
<1>3. CASE UNCHANGED vars
  <2>1. UNCHANGED <<present, cont, created, stream, msgs, watcher, sending, queue, loop, old, new, todo,
                    start, routes, running, pool, faults>>
    BY <1>3 DEF vars, daemon, watcherVars, handlerVars, routeVars
  <2>2. HandlerInv' /\ RouteInv' /\ PoolInv'
    BY <2>1, OutsideKeeps, SMTT(30)
  <2>3. TypeOK'
    BY <2>1, SMTT(30) DEF TypeOK
  <2>4. HandlerTypes' /\ HostInv'
    BY <2>1, ZenonT(30) DEF HandlerTypes, HostInv
  <2> QED BY <2>2, <2>3, <2>4
<1>4. Next => Outside \/ \E p \in present : Inside(p)
  BY Zenon DEF Next, Outside, Inside, DaemonNext, QueueNext
<1> QED BY <1>1, <1>2, <1>3, <1>4

\* The inductive invariant, for any daemons, configurations, containers and faults.
LEMMA ProvidersCorrect == Spec => [](TypeOK /\ HandlerTypes /\ HostInv /\ HandlerInv /\ RouteInv /\ PoolInv)
<1>1. TypeOK /\ HandlerTypes /\ HostInv /\ HandlerInv /\ RouteInv /\ PoolInv /\ [Next]_vars
        => (TypeOK /\ HandlerTypes /\ HostInv /\ HandlerInv /\ RouteInv /\ PoolInv)'
  BY ProvidersStep
<1> QED BY <1>1, Initially, PTL DEF Spec

\* The pool never serves a route whose task has ended, while handlers, starts and a reload's
\* cancellation interleave.
THEOREM PoolServesRunning == Spec => []ServedIsRunning
<1>1. PoolInv => ServedIsRunning
  BY Zenon DEF PoolInv, ServedIsRunning
<1> QED BY <1>1, ProvidersCorrect, PTL

\* A route that runs is served, unless another provider of the configuration has a container of
\* that name.
THEOREM PoolServesAll == Spec => []RunningIsServed
<1>1. TypeOK /\ PoolInv => RunningIsServed
  <2> SUFFICES ASSUME TypeOK, PoolInv, NEW r \in running, \A p \in present : r[2] \in Hosted[p] => p = r[1]
               PROVE  pool[r[2]] = r
    BY DEF RunningIsServed
  <2>1. PICK p \in Providers, a \in Aliases, c \in Containers : r = <<p, a, c>>
    BY DEF TypeOK, Routes
  <2> QED BY <2>1 DEF PoolInv
<1> QED BY <1>1, ProvidersCorrect, PTL

\* Between two batches Provider.routes is exactly the routes of the provider that run.
THEOREM ProviderRoutesAreRunning == Spec => []RoutesAreRunning
<1>1. TypeOK /\ HandlerInv /\ RouteInv => RoutesAreRunning
  <2> SUFFICES ASSUME TypeOK, HandlerInv, RouteInv, NEW p \in Providers, loop[p] = "select"
               PROVE  {r \in running : r[1] = p} = {<<p, a, routes[p][a]>> : a \in Keys(routes[p])}
    BY DEF RoutesAreRunning
  <2>1. \A a \in Aliases : start[p][a] = "no"
    BY DEF HandlerInv
  <2>2. ASSUME NEW r \in running, r[1] = p PROVE r \in {<<p, a, routes[p][a]>> : a \in Keys(routes[p])}
    <3>1. PICK a \in Aliases, c \in Containers : r = <<p, a, c>>
      BY <2>2 DEF TypeOK, Routes
    <3>2. routes[p][a] = c /\ c # None
      BY <3>1 DEF RouteInv, Containers
    <3> QED BY <3>1, <3>2 DEF Keys
  <2>3. ASSUME NEW a \in Keys(routes[p]) PROVE <<p, a, routes[p][a]>> \in running
    BY <2>1 DEF RouteInv, Keys
  <2> QED BY <2>2, <2>3
<1> QED BY <1>1, ProvidersCorrect, PTL
=============================================================================
