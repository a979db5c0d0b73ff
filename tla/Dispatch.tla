------------------------------ MODULE Dispatch ------------------------------
(***************************************************************************)
(* The notification dispatcher (internal/notif/dispatcher.go): messages are *)
(* queued, sent to every provider they are for by a goroutine each, and     *)
(* tried again by the loop itself while sending fails.  ConfigReload has    *)
(* the start and the end of dispatchers; this module has what one of them   *)
(* does with its messages.                                                  *)
(***************************************************************************)
EXTENDS Naturals, Sequences, FiniteSets

CONSTANTS
    NMessages,   \* messages
    NProviders,  \* registered providers
    Recipients,  \* the providers a message is for: To, or all
    MaxRetries,  \* maxRetries of the level of each message
    NCap         \* capacity of logCh

\* Every level of the maxRetries table has a retry (retry_message.go:16).
ASSUME DispatchAssumption == MaxRetries \in [NMessages -> Nat \ {0}]

VARIABLES
    nMsg,     \* each message: "new", "blocked", "queued", "dispatched", "dropped"
    logCh,    \* queued messages
    nDone,    \* the task of the dispatcher was cancelled
    nLoop,    \* "select", "retry" or "closed"
    batch,    \* readyMessages still to be tried again
    del,      \* each delivery: [at, trials]
    tries,    \* attempts made for each delivery
    acked     \* good answers for each delivery

nVars == <<nMsg, logCh, nDone, nLoop, batch, del, tries, acked>>
Deliveries == NMessages \X NProviders

NInit ==
    /\ nMsg = [m \in NMessages |-> "new"]
    /\ logCh = <<>> /\ nDone = FALSE /\ nLoop = "select" /\ batch = {}
    /\ del = [d \in Deliveries |-> [at |-> "none", trials |-> 0]]
    /\ tries = [d \in Deliveries |-> 0]
    /\ acked = [d \in Deliveries |-> 0]

\* Notify: nothing after the cancellation, and else a send that waits for room.
NotifyMsg(m) ==
    /\ nMsg[m] = "new"
    /\ nMsg' = [nMsg EXCEPT ![m] = IF nDone THEN "dropped" ELSE "blocked"]
    /\ UNCHANGED <<logCh, nDone, nLoop, batch, del, tries, acked>>

Enqueue(m) ==
    /\ nMsg[m] = "blocked" /\ Len(logCh) < NCap /\ nLoop # "closed"
    /\ nMsg' = [nMsg EXCEPT ![m] = "queued"]
    /\ logCh' = Append(logCh, m)
    /\ UNCHANGED <<nDone, nLoop, batch, del, tries, acked>>

\* start: a message is received, and dispatch starts a goroutine for each recipient.
ReceiveMsg ==
    /\ nLoop = "select" /\ logCh # <<>>
    /\ LET m == Head(logCh) IN
       /\ nMsg' = [nMsg EXCEPT ![m] = "dispatched"]
       /\ del' = [d \in Deliveries |-> IF d[1] = m /\ d[2] \in Recipients[m]
                                       THEN [at |-> "sending", trials |-> 0] ELSE del[d]]
    /\ logCh' = Tail(logCh)
    /\ UNCHANGED <<nDone, nLoop, batch, tries, acked>>

\* notify: the answer is good, or it is another status, an error or a timeout; a
\* cancelled context makes it fail.
Attempt(d, ok) ==
    /\ ok => ~nDone
    /\ tries' = [tries EXCEPT ![d] = @ + 1]
    /\ acked' = IF ok THEN [acked EXCEPT ![d] = @ + 1] ELSE acked

\* The goroutine of dispatch: a failure is kept for a retry.
SendFirst(d) ==
    /\ del[d].at = "sending"
    /\ \E ok \in BOOLEAN :
          /\ Attempt(d, ok)
          /\ del' = [del EXCEPT ![d] = [at |-> IF ok THEN "sent" ELSE "waiting", trials |-> 0]]
    /\ UNCHANGED <<nMsg, logCh, nDone, nLoop, batch>>

\* processRetries: what is due is taken out of the map.
ProcessRetries ==
    /\ nLoop = "select"
    /\ \E due \in SUBSET {d \in Deliveries : del[d].at = "waiting"} :
          /\ due # {}
          /\ batch' = due
          /\ del' = [d \in Deliveries |-> IF d \in due THEN [del[d] EXCEPT !.at = "ready"] ELSE del[d]]
    /\ nLoop' = "retry"
    /\ UNCHANGED <<nMsg, logCh, nDone, tries, acked>>

\* Mutant: a success is kept for a retry.
AfterRetrySent(d, ok) ==
    [at |-> IF del[d].trials + 1 >= MaxRetries[d[1]] THEN "lost" ELSE "waiting", trials |-> del[d].trials + 1]

\* Mutant: one retry too many.
AfterRetryMore(d, ok) ==
    LET n == del[d].trials + 1
    IN  IF ok THEN [at |-> "sent", trials |-> n - 1]
        ELSE [at |-> IF n > MaxRetries[d[1]] THEN "lost" ELSE "waiting", trials |-> n]

\* What becomes of a message that was tried again.
AfterRetry(d, ok) ==
    LET n == del[d].trials + 1
    IN  IF ok THEN [at |-> "sent", trials |-> n - 1]
        ELSE [at |-> IF n >= MaxRetries[d[1]] THEN "lost" ELSE "waiting", trials |-> n]

\* Mutant: the first message of a batch ends it.
RestOfFirst(d) == {}

RestOf(d) == batch \ {d}

\* retry, one message of the batch after the other.
Retry(d) ==
    /\ nLoop = "retry" /\ d \in batch
    /\ \E ok \in BOOLEAN :
          /\ Attempt(d, ok)
          /\ del' = [del EXCEPT ![d] = AfterRetry(d, ok)]
    /\ batch' = RestOf(d)
    /\ nLoop' = IF batch' = {} THEN "select" ELSE "retry"
    /\ UNCHANGED <<nMsg, logCh, nDone>>

CancelDispatcher ==
    /\ ~nDone /\ nDone' = TRUE
    /\ UNCHANGED <<nMsg, logCh, nLoop, batch, del, tries, acked>>

\* The loop sees its context: what is queued or waits for a retry is left.
DispatcherEnds ==
    /\ nLoop = "select" /\ nDone
    /\ nLoop' = "closed"
    /\ UNCHANGED <<nMsg, logCh, nDone, batch, del, tries, acked>>

NNext ==
    \/ \E m \in NMessages : NotifyMsg(m) \/ Enqueue(m)
    \/ ReceiveMsg \/ ProcessRetries \/ CancelDispatcher \/ DispatcherEnds
    \/ \E d \in Deliveries : SendFirst(d) \/ Retry(d)

NSpec == NInit /\ [][NNext]_nVars

\* The loop and the goroutines run, and a request ends within its timeout.  A ticker
\* that is due and a message that is queued are both chosen again and again.
NFair ==
    /\ \A m \in NMessages : WF_nVars(Enqueue(m))
    /\ SF_nVars(ReceiveMsg)
    /\ SF_nVars(ProcessRetries)
    /\ \A d \in Deliveries : WF_nVars(SendFirst(d)) /\ WF_nVars(Retry(d))
                             /\ SF_nVars(ProcessRetries /\ d \in batch')

-----------------------------------------------------------------------------
\* A message is given up after one attempt and as many retries as its level has, and
\* never tried more often (maxRetries and Trials in retry).
RetriesExact ==
    \A d \in Deliveries :
        /\ tries[d] <= 1 + MaxRetries[d[1]]
        /\ del[d].at = "lost" => tries[d] = 1 + MaxRetries[d[1]]

\* A message whose provider has acknowledged it is not sent again: it is in none of
\* the places a retry is taken from (dispatch, processRetries, retry).
AckedOnce ==
    \A d \in Deliveries : acked[d] = IF del[d].at = "sent" THEN 1 ELSE 0

\* Every message that is handed over is delivered to, or given up for, each of its
\* recipients, unless the dispatcher is cancelled: neither the full channel nor the
\* retries in the loop keep it back for ever.
DeliveryEnds ==
    \A m \in NMessages :
        nMsg[m] = "blocked"
        ~> (nDone \/ \A p \in Recipients[m] : del[<<m, p>>].at \in {"sent", "lost"})
=============================================================================
