------------------------------- MODULE Health -------------------------------
(***************************************************************************)
(* Health monitors (internal/watcher/health/monitor): a loop that checks a  *)
(* service, keeps its status and announces outages and recoveries.  A       *)
(* docker route asks the docker daemon and falls back on the check of the   *)
(* service itself.  A check, the swap of the status and what follows from   *)
(* it are one step: nobody else writes what it writes.                      *)
(***************************************************************************)
EXTENDS Integers

CONSTANTS
    HRetries,   \* values of config.Retries, after newMonitor
    MaxConsec   \* bound: failed checks in a row

\* Retries is a number, negative when an outage is to be announced at once.
ASSUME HealthAssumption == HRetries \subseteq Int

VARIABLES
    hKind,      \* "http", "raw", "file" or "agent"
    hDocker,    \* the monitor asks docker first
    hPort,      \* the URL has a port
    hRetries,   \* config.Retries
    hStage,     \* "new", "refused", "idle", "first", "loop", "leave", "ended"
    hStatus,    \* mon.status
    hConsec,    \* numConsecFailures
    hSent,      \* downNotificationSent
    hFailures,  \* failures, the local of the loop
    hSaid,      \* what the last check announced
    hDockFails, \* numDockerFailures
    hCut,       \* the inspect response is intercepted
    hCancelled  \* the task of the route was cancelled

hVars == <<hKind, hDocker, hPort, hRetries, hStage, hStatus, hConsec, hSent, hFailures, hSaid,
           hDockFails, hCut, hCancelled>>
hConfig == <<hKind, hDocker, hPort, hRetries>>

dockerFailuresThreshold == 3
MaxTrials == 5

\* newMonitor: a file server has no URL, hence no port.
HInit ==
    /\ hKind \in {"http", "raw", "file", "agent"}
    /\ hDocker \in IF hKind = "file" THEN {FALSE} ELSE BOOLEAN
    /\ hPort \in IF hKind = "file" THEN {FALSE} ELSE BOOLEAN
    /\ hRetries \in HRetries
    /\ hStage = "new"
    /\ hStatus = IF hPort THEN "healthy" ELSE "unknown"
    /\ hConsec = 0 /\ hSent = FALSE /\ hFailures = 0 /\ hSaid = "nothing"
    /\ hDockFails = 0 /\ hCut = FALSE /\ hCancelled = FALSE

\* Start: an interval that is not positive is an error, and without a port there is
\* nothing to check.
StartMonitor ==
    /\ hStage = "new"
    /\ \/ hStage' = "refused"
       \/ hStage' = IF hPort THEN "first" ELSE "idle"
    /\ UNCHANGED <<hConfig, hStatus, hConsec, hSent, hFailures, hSaid, hDockFails, hCut, hCancelled>>

\* DockerHealthMonitor.Start intercepts the responses after the loop was started.
Intercept ==
    /\ hDocker /\ ~hCut /\ hStage \in {"first", "loop", "leave"}
    /\ hCut' = TRUE
    /\ UNCHANGED <<hConfig, hStage, hStatus, hConsec, hSent, hFailures, hSaid, hDockFails, hCancelled>>

-----------------------------------------------------------------------------
\* What CheckHealth of each kind can return: only HTTP has an answer for every error.
CheckHealth(kind) == IF kind = "http" THEN {"good", "bad"} ELSE {"good", "bad", "error"}

\* DockerHealthMonitor.CheckHealth for an answer of the daemon: the failures counted
\* after it, and the possible results.
Inspect(answer) ==
    CASE answer = "failed" -> [dock |-> hDockFails + 1, results |-> CheckHealth(hKind)]
      [] answer = "down" -> [dock |-> 0, results |-> {"bad"}]
      [] answer = "nohealth" -> [dock |-> dockerFailuresThreshold + 1, results |-> CheckHealth(hKind)]
      [] answer = "healthy" -> [dock |-> 0, results |-> {"good"}]
      [] answer = "unhealthy" -> [dock |-> 0, results |-> {"bad"}]

\* Too many failures: the fallback for ever.
UseFallback == ~hDocker \/ hDockFails > dockerFailuresThreshold

Checks ==
    IF UseFallback THEN {[dock |-> hDockFails, results |-> CheckHealth(hKind)]}
    ELSE {Inspect(a) : a \in IF hCut THEN {"failed", "down", "nohealth", "healthy", "unhealthy"} ELSE {"failed"}}

\* Mutant: the notification state is kept when the service comes back.
UpdateHealthKeepsSent(result) ==
    LET good == result = "good"
        changed == good # (hStatus = "healthy")
        immediate == changed /\ ~good /\ hRetries < 0
        consec == IF good THEN IF changed THEN 0 ELSE hConsec
                  ELSE IF hRetries >= 0 THEN hConsec + 1 ELSE hConsec
        delayed == ~good /\ hRetries >= 0 /\ consec >= hRetries /\ ~hSent
    IN  /\ consec <= MaxConsec
        /\ hStatus' = CASE good -> "healthy" [] result = "bad" -> "unhealthy" [] OTHER -> "error"
        /\ hConsec' = consec
        /\ hSent' = (hSent \/ immediate \/ delayed)
        /\ hSaid' = CASE changed /\ good -> "up" [] immediate \/ delayed -> "down" [] OTHER -> "nothing"

\* checkUpdateHealth
UpdateHealth(result) ==
    LET good == result = "good"
        changed == good # (hStatus = "healthy")
        immediate == changed /\ ~good /\ hRetries < 0
        consec == IF good THEN IF changed THEN 0 ELSE hConsec
                  ELSE IF hRetries >= 0 THEN hConsec + 1 ELSE hConsec
        delayed == ~good /\ hRetries >= 0 /\ consec >= hRetries /\ ~hSent
    IN  /\ consec <= MaxConsec
        /\ hStatus' = CASE good -> "healthy" [] result = "bad" -> "unhealthy" [] OTHER -> "error"
        /\ hConsec' = consec
        /\ hSent' = ((hSent /\ ~(good /\ changed)) \/ immediate \/ delayed)
        /\ hSaid' = CASE changed /\ good -> "up" [] immediate \/ delayed -> "down" [] OTHER -> "nothing"

\* The check before the first tick: an error counts, and there is no other test.
FirstCheck ==
    /\ hStage = "first"
    /\ \E c \in Checks : \E r \in c.results :
          /\ UpdateHealth(r)
          /\ hDockFails' = c.dock
          /\ hFailures' = IF r = "error" THEN 1 ELSE 0
    /\ hStage' = "loop"
    /\ UNCHANGED <<hConfig, hCut, hCancelled>>

\* A tick.  After five errors in a row the task is finished.
TickCheck ==
    /\ hStage = "loop"
    /\ \E c \in Checks : \E r \in c.results :
          /\ UpdateHealth(r)
          /\ hDockFails' = c.dock
          /\ hFailures' = IF r = "error" THEN hFailures + 1 ELSE 0
    /\ hStage' = IF hFailures' >= MaxTrials THEN "leave" ELSE "loop"
    /\ UNCHANGED <<hConfig, hCut, hCancelled>>

\* The task of the route, and with it that of the monitor, is cancelled.
CancelMonitor ==
    /\ hStage \in {"first", "loop"} /\ ~hCancelled
    /\ hCancelled' = TRUE
    /\ UNCHANGED <<hConfig, hStage, hStatus, hConsec, hSent, hFailures, hSaid, hDockFails, hCut>>

SeeCancelled ==
    /\ hStage = "loop" /\ hCancelled
    /\ hStage' = "leave"
    /\ UNCHANGED <<hConfig, hStatus, hConsec, hSent, hFailures, hSaid, hDockFails, hCut, hCancelled>>

\* Mutant: the status stays what it was.
LeaveAsIs ==
    /\ hStage = "leave"
    /\ hStage' = "ended"
    /\ UNCHANGED <<hConfig, hStatus, hConsec, hSent, hFailures, hSaid, hDockFails, hCut, hCancelled>>

\* The deferred end of the loop.
Leave ==
    /\ hStage = "leave"
    /\ hStatus' = IF hStatus # "error" THEN "unhealthy" ELSE hStatus
    /\ hStage' = "ended"
    /\ UNCHANGED <<hConfig, hConsec, hSent, hFailures, hSaid, hDockFails, hCut, hCancelled>>

HNext ==
    \/ StartMonitor \/ Intercept \/ FirstCheck \/ TickCheck
    \/ CancelMonitor \/ SeeCancelled \/ Leave

HSpec == HInit /\ [][HNext]_hVars

-----------------------------------------------------------------------------
AtLeast1(n) == IF n > 1 THEN n ELSE 1
Threshold == AtLeast1(hRetries)
UpTo(n, max) == IF n < max THEN n ELSE max

Promise == INSTANCE HealthPromise WITH
    MaxErrors <- MaxTrials,
    threshold <- Threshold,
    fails <- IF hRetries < 0 THEN (IF hSent THEN 1 ELSE 0) ELSE UpTo(hConsec, Threshold),
    told <- hSent,
    errs <- hFailures,
    said <- hSaid,
    over <- hStage \in {"leave", "ended"}

\* The status, the counters and the flags of a monitor keep the promise: one
\* announcement for each outage that lasts long enough, one for each recovery, and no
\* end before five errors in a row (checkUpdateHealth and the loop of Start).
HealthImplements == Promise!PromiseSpec

\* A monitor that has ended never says healthy: a load balancer that still asks it
\* does not choose its server.
EndedIsNotHealthy == hStage = "ended" => hStatus \in {"unhealthy", "error"}
=============================================================================
