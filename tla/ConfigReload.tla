---------------------------- MODULE ConfigReload ----------------------------
(***************************************************************************)
(* Reloading the configuration (internal/config/events.go, state.go) while  *)
(* the parts of the program notify (internal/notif/dispatcher.go).  Every   *)
(* configuration state owns a task; the route providers, the proxy servers  *)
(* and the notification dispatcher are its subtasks.  The dispatcher is     *)
(* reached through a package variable.                                      *)
(*                                                                          *)
(* Abstractions.  A state is the number of its load; state 0 is the one     *)
(* Load made.  Of what Init does, only the dispatcher is kept.  Messages    *)
(* are counted, not named; their delivery and its retries are left out.     *)
(***************************************************************************)
EXTENDS Naturals

CONSTANTS
    Notifiers,   \* goroutines that call Notify
    QueueCap,    \* capacity of logCh (100 in the code)
    MaxReloads   \* bound: reloads

ASSUME ReloadAssumption ==
    QueueCap \in Nat /\ QueueCap > 0 /\ MaxReloads \in Nat /\ "reload" \notin Notifiers

States == 0..MaxReloads

\* Reload calls Notify too.
Callers == Notifiers \cup {"reload"}

VARIABLES
    notif,     \* the states whose configuration has notification providers
    active,    \* ActiveState
    task,      \* the task of each state: "new", "running", "cancelled", "finished"
    proxy,     \* the states whose proxy servers run
    dispatcher,  \* the package variable: a state, or NoState
    disp,      \* the goroutine of each dispatcher: "off", "running", "closed", "gone"
    queue,     \* messages in each logCh
    reload,    \* where Reload is
    loading,   \* the state of the last Reload
    caller,    \* where each caller is in Notify
    logCh,     \* the channel a caller sends to, or NoState
    panicked   \* a goroutine without a recover has panicked

vars == <<notif, active, task, proxy, dispatcher, disp, queue, reload,
          loading, caller, logCh, panicked>>
notifyVars == <<caller, logCh>>
dispVars == <<dispatcher, disp, queue>>

NoState == MaxReloads + 1

Init ==
    /\ notif \in SUBSET States
    /\ active = 0 /\ loading = 0
    /\ task = [s \in States |-> IF s = 0 THEN "running" ELSE "new"]
    /\ proxy = {0}
    /\ dispatcher = IF 0 \in notif THEN 0 ELSE NoState
    /\ disp = [s \in States |-> IF s = 0 /\ 0 \in notif THEN "running" ELSE "off"]
    /\ queue = [s \in States |-> 0]
    /\ reload = "idle"
    /\ caller = [n \in Callers |-> "idle"]
    /\ logCh = [n \in Callers |-> NoState]
    /\ panicked = FALSE

-----------------------------------------------------------------------------
(***************************************************************************)
(* Reload                                                                   *)
(***************************************************************************)
Goto(pc) == reload' = pc

\* Nothing happens in a program that has panicked.
Alive == ~panicked

\* The file changed or the API asked; reloadMu is taken.  The file does not
\* parse, and nothing has been started ...
ParseFails ==
    /\ Alive
    /\ reload = "idle" /\ loading < MaxReloads
    /\ loading' = loading + 1
    /\ task' = [task EXCEPT ![loading + 1] = "cancelled"]
    /\ Goto("dropNew")
    /\ UNCHANGED <<notif, active, proxy, dispVars, notifyVars, panicked>>

\* ... or Init runs, and initNotification starts a dispatcher.  Parts of Init may
\* fail, and the others are there all the same.
InitState ==
    /\ Alive
    /\ reload = "idle" /\ loading < MaxReloads
    /\ loading' = loading + 1
    /\ IF loading + 1 \in notif
       THEN /\ dispatcher' = loading + 1
            /\ disp' = [disp EXCEPT ![loading + 1] = "running"]
       ELSE UNCHANGED <<dispatcher, disp>>
    /\ \/ /\ task' = [task EXCEPT ![loading + 1] = "cancelled"]   \* an error
          /\ Goto("dropNew")
       \/ /\ task' = [task EXCEPT ![loading + 1] = "running", ![active] = "cancelled"]
          /\ Goto("dropOld")
    /\ UNCHANGED <<notif, active, proxy, queue, notifyVars, panicked>>

\* FinishAndWait returns when every subtask has finished.
Finished(s) == task[s] = "cancelled" /\ disp[s] # "running" /\ s \notin proxy

\* Mutant: Finish without the wait.
DropNewNoWait ==
    /\ Alive
    /\ reload = "dropNew"
    /\ task' = [task EXCEPT ![loading] = "finished"]
    /\ Goto("notify")
    /\ caller' = [caller EXCEPT !["reload"] = "called"]
    /\ UNCHANGED <<notif, active, proxy, dispVars, loading, logCh, panicked>>

\* newState.Task().FinishAndWait(err), then logNotifyError: "using last config".
DropNew ==
    /\ Alive
    /\ reload = "dropNew"
    /\ Finished(loading)
    /\ task' = [task EXCEPT ![loading] = "finished"]
    /\ Goto("notify")
    /\ caller' = [caller EXCEPT !["reload"] = "called"]
    /\ UNCHANGED <<notif, active, proxy, dispVars, loading, logCh, panicked>>

\* Mutant: the new state replaces an old one that is still finishing.
DropOldNoWait ==
    /\ Alive
    /\ reload = "dropOld"
    /\ active' = loading
    /\ Goto("start")
    /\ UNCHANGED <<notif, task, proxy, dispVars, loading, notifyVars, panicked>>

\* GetState().Task().FinishAndWait, SetState.
DropOld ==
    /\ Alive
    /\ reload = "dropOld"
    /\ Finished(active)
    /\ task' = [task EXCEPT ![active] = "finished"]
    /\ active' = loading
    /\ Goto("start")
    /\ UNCHANGED <<notif, proxy, dispVars, loading, notifyVars, panicked>>

\* StartProviders without an error, and StartProxyServers.
StartProviders ==
    /\ Alive
    /\ reload = "start"
    /\ proxy' = proxy \cup {active}
    /\ Goto("idle")
    /\ UNCHANGED <<notif, active, task, dispVars, loading, notifyVars, panicked>>

\* StartProviders with an error of one provider: logNotifyError, return.
StartProvidersFails ==
    /\ Alive
    /\ reload = "start"
    /\ Goto("notify")
    /\ caller' = [caller EXCEPT !["reload"] = "called"]
    /\ UNCHANGED <<notif, active, task, proxy, dispVars, loading, logCh, panicked>>

\* Reload returns, or the event queue recovers the panic of its Notify.
ReloadReturns ==
    /\ Alive
    /\ reload = "notify"
    /\ caller["reload"] = "idle"
    /\ Goto("idle")
    /\ UNCHANGED <<notif, active, task, proxy, dispVars, loading, notifyVars, panicked>>

\* A proxy server shuts down when its task is cancelled (external).
ServerStops(s) ==
    /\ Alive
    /\ s \in proxy /\ task[s] = "cancelled"
    /\ proxy' = proxy \ {s}
    /\ UNCHANGED <<notif, active, task, dispVars, reload, loading, notifyVars, panicked>>

-----------------------------------------------------------------------------
(***************************************************************************)
(* Dispatcher.start                                                         *)
(***************************************************************************)
\* Mutant: a dispatcher that was replaced does not read its channel.
ReceiveCurrent(s) ==
    /\ Alive
    /\ disp[s] = "running" /\ queue[s] > 0 /\ dispatcher = s
    /\ queue' = [queue EXCEPT ![s] = @ - 1]
    /\ UNCHANGED <<notif, active, task, proxy, dispatcher, disp, reload,
                   loading, notifyVars, panicked>>

Receive(s) ==
    /\ Alive
    /\ disp[s] = "running" /\ queue[s] > 0
    /\ queue' = [queue EXCEPT ![s] = @ - 1]
    /\ UNCHANGED <<notif, active, task, proxy, dispatcher, disp, reload,
                   loading, notifyVars, panicked>>

\* Mutant: only the dispatcher of the package variable ends.
CloseChCurrent(s) ==
    /\ Alive
    /\ disp[s] = "running" /\ task[s] = "cancelled"
    /\ dispatcher = s
    /\ disp' = [disp EXCEPT ![s] = "closed"]
    /\ UNCHANGED <<notif, active, task, proxy, dispatcher, queue, reload,
                   loading, notifyVars, panicked>>

\* The task is done: close(disp.logCh), disp.task.Finish ...
CloseCh(s) ==
    /\ Alive
    /\ disp[s] = "running" /\ task[s] = "cancelled"
    /\ disp' = [disp EXCEPT ![s] = "closed"]
    /\ UNCHANGED <<notif, active, task, proxy, dispatcher, queue, reload,
                   loading, notifyVars, panicked>>

\* ... and dispatcher = nil, whichever dispatcher that is by now.
ClearDispatcher(s) ==
    /\ Alive
    /\ disp[s] = "closed"
    /\ disp' = [disp EXCEPT ![s] = "gone"]
    /\ dispatcher' = NoState
    /\ UNCHANGED <<notif, active, task, proxy, queue, reload, loading,
                   notifyVars, panicked>>

-----------------------------------------------------------------------------
(***************************************************************************)
(* Notify                                                                   *)
(***************************************************************************)
Step(n, pc) == caller' = [caller EXCEPT ![n] = pc]

rest == <<notif, active, task, proxy, dispatcher, disp, reload, loading>>

Notify(n) ==
    /\ Alive
    /\ n \in Notifiers
    /\ caller[n] = "idle"
    /\ Step(n, "called")
    /\ UNCHANGED <<rest, queue, logCh, panicked>>

\* if dispatcher == nil
CheckNil(n) ==
    /\ Alive
    /\ caller[n] = "called"
    /\ Step(n, IF dispatcher = NoState THEN "idle" ELSE "select")
    /\ UNCHANGED <<rest, queue, logCh, panicked>>

\* A panic ends the program, unless it is that of Reload.
Panic(n) ==
    /\ Step(n, "idle")
    /\ logCh' = [logCh EXCEPT ![n] = NoState]
    /\ panicked' = (panicked \/ n # "reload")

\* case <-dispatcher.task.Context().Done(), or dispatcher.logCh is taken.
CheckDone(n) ==
    /\ Alive
    /\ caller[n] = "select"
    /\ \/ /\ dispatcher = NoState
          /\ Panic(n)
       \/ /\ dispatcher # NoState
          /\ task[dispatcher] # "running"
          /\ Step(n, "idle")
          /\ UNCHANGED <<logCh, panicked>>
       \/ /\ dispatcher # NoState
          /\ task[dispatcher] = "running"
          /\ Step(n, "send")
          /\ logCh' = [logCh EXCEPT ![n] = dispatcher]
          /\ UNCHANGED panicked
    /\ UNCHANGED <<rest, queue>>

\* Mutant: the send does not wait for room in the channel.
SendOver(n) ==
    /\ Alive
    /\ caller[n] = "send"
    /\ disp[logCh[n]] = "running"
    /\ queue' = [queue EXCEPT ![logCh[n]] = @ + 1]
    /\ Step(n, "idle")
    /\ logCh' = [logCh EXCEPT ![n] = NoState]
    /\ UNCHANGED <<rest, panicked>>

\* dispatcher.logCh <- msg
SendLog(n) ==
    /\ Alive
    /\ caller[n] = "send"
    /\ disp[logCh[n]] = "running" /\ queue[logCh[n]] < QueueCap
    /\ queue' = [queue EXCEPT ![logCh[n]] = @ + 1]
    /\ Step(n, "idle")
    /\ logCh' = [logCh EXCEPT ![n] = NoState]
    /\ UNCHANGED <<rest, panicked>>

SendClosed(n) ==
    /\ Alive
    /\ caller[n] = "send"
    /\ disp[logCh[n]] \in {"closed", "gone"}
    /\ Panic(n)
    /\ UNCHANGED <<rest, queue>>

-----------------------------------------------------------------------------
ReloadNext ==
    \/ DropNew \/ DropOld \/ StartProviders \/ StartProvidersFails \/ ReloadReturns

StateNext(s) == ServerStops(s) \/ Receive(s) \/ CloseCh(s) \/ ClearDispatcher(s)

CallerNext(n) == CheckNil(n) \/ CheckDone(n) \/ SendLog(n) \/ SendClosed(n)

Next ==
    \/ ParseFails \/ InitState \/ ReloadNext
    \/ \E s \in States : StateNext(s)
    \/ \E n \in Callers : Notify(n) \/ CallerNext(n)

Spec == Init /\ [][Next]_vars

\* Every goroutine runs; a channel serves its blocked senders in turn.
FairSpec ==
    /\ Spec
    /\ WF_vars(ReloadNext)
    /\ \A s \in States : /\ WF_vars(ServerStops(s)) /\ WF_vars(Receive(s))
                         /\ WF_vars(CloseCh(s) \/ ClearDispatcher(s))
    /\ \A n \in Callers : SF_vars(CallerNext(n))

-----------------------------------------------------------------------------
\* Every variable has its type: what is active, running or registered is a state that was
\* loaded.
TypeOK ==
    /\ notif \subseteq States /\ proxy \subseteq States
    /\ active \in States /\ loading \in States
    /\ task \in [States -> {"new", "running", "cancelled", "finished"}]
    /\ dispatcher \in States \cup {NoState}
    /\ disp \in [States -> {"off", "running", "closed", "gone"}]
    /\ queue \in [States -> 0..QueueCap]
    /\ reload \in {"idle", "dropNew", "dropOld", "start", "notify"}
    /\ caller \in [Callers -> {"idle", "called", "select", "send"}]
    /\ logCh \in [Callers -> States \cup {NoState}]
    /\ \A n \in Callers : caller[n] = "send" => logCh[n] # NoState
    /\ panicked \in BOOLEAN

\* Reload waits for the old proxy servers: two states never have theirs on the
\* same addresses, and no state but the active one has any.
OneProxy == proxy \subseteq {active}

\* Between reloads exactly one state has a task, the active one: a state whose
\* Init failed leaves nothing running, a dispatcher included.
NoOrphans ==
    reload = "idle" =>
        \A s \in States : /\ task[s] = "running" <=> s = active
                          /\ disp[s] = "running" => s = active

\* What the inductive invariant adds: which state has a task, and which may have
\* a dispatcher, while Reload holds two states.
Owner == IF reload = "dropOld" THEN loading ELSE active

Replacing == reload \in {"dropNew", "dropOld"}

Owners ==
    /\ active <= loading
    /\ Replacing => active # loading
    /\ \A s \in States : /\ task[s] = "running" <=> s = Owner
                         /\ disp[s] = "running" => s = active \/ (Replacing /\ s = loading)

IInv == TypeOK /\ OneProxy /\ Owners

\* Every Reload comes to its end, and releases reloadMu.
ReloadEnds == (reload # "idle") ~> (reload = "idle" \/ panicked)

\* Whoever called Notify gets out of it.
NotifyReturns == \A n \in Callers : (caller[n] # "idle") ~> (caller[n] = "idle" \/ panicked)

\* "cancel all current subtasks -> wait -> replace config -> start new subtasks":
\* what a reload started is in force when the old state's subtasks have ended.
DispatcherInForce ==
    reload = "idle" /\ (\A s \in States : disp[s] # "closed") /\ active \in notif
        => dispatcher = active

\* "return nil // continue": a reload that goes on after an error of a provider
\* ends with the proxy servers running.
ProxyInForce == reload = "idle" => active \in proxy

=============================================================================
