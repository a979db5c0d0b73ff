--------------------------- MODULE DeliveryProofs ---------------------------
(***************************************************************************)
(* Proofs about what is delivered: the retries of the notification          *)
(* dispatcher (Dispatch) and the lines of the access loggers (AccessLog),   *)
(* for any messages, providers, levels, loggers and bounds.                 *)
(***************************************************************************)
EXTENDS Dispatch, AccessLog, SequenceTheorems, WellFoundedInduction, TLAPS

-----------------------------------------------------------------------------
(***************************************************************************)
(* Dispatch                                                                 *)
(***************************************************************************)
NTypeOK ==
    /\ nMsg \in [NMessages -> {"new", "blocked", "queued", "dispatched", "dropped"}]
    /\ logCh \in Seq(NMessages)
    /\ nDone \in BOOLEAN
    /\ nLoop \in {"select", "retry", "closed"}
    /\ batch \in SUBSET Deliveries
    /\ del \in [Deliveries -> [at : {"none", "sending", "waiting", "ready", "sent", "lost"},
                               trials : Nat]]
    /\ tries \in [Deliveries -> Nat]
    /\ acked \in [Deliveries -> Nat]

\* A message is in the channel once, and only before it is dispatched.
QueuedOnce ==
    /\ \A i \in 1..Len(logCh) : nMsg[logCh[i]] = "queued"
    /\ \A i, j \in 1..Len(logCh) : logCh[i] = logCh[j] => i = j

\* No goroutine has a message that the loop has not received yet.
NoneBefore == \A d \in Deliveries : nMsg[d[1]] # "dispatched" => del[d].at = "none"

BatchReady == \A d \in batch : del[d].at = "ready"

\* Where a delivery is tells how often it was tried: Trials counts the retries, the
\* first attempt comes before them.
TriesOf(d) ==
    /\ del[d].at \in {"none", "sending"} => tries[d] = 0 /\ acked[d] = 0
    /\ del[d].at \in {"waiting", "ready"} =>
          /\ tries[d] = 1 + del[d].trials /\ acked[d] = 0
          /\ del[d].trials < MaxRetries[d[1]]
    /\ del[d].at = "sent" => tries[d] <= 1 + MaxRetries[d[1]] /\ acked[d] = 1
    /\ del[d].at = "lost" => tries[d] = 1 + MaxRetries[d[1]] /\ acked[d] = 0

DispatchInv ==
    NTypeOK /\ QueuedOnce /\ NoneBefore /\ BatchReady /\ \A d \in Deliveries : TriesOf(d)

\* At the start nothing is queued, tried or acknowledged (newNotificationDispatcher).
LEMMA DispatchInitially == NInit => DispatchInv
<1> SUFFICES ASSUME NInit PROVE DispatchInv
  OBVIOUS
<1>1. NTypeOK
  <2>1. logCh \in Seq(NMessages)
    BY DEF NInit
  <2>2. /\ del \in [Deliveries -> [at : {"none", "sending", "waiting", "ready", "sent", "lost"},
                                   trials : Nat]]
        /\ tries \in [Deliveries -> Nat] /\ acked \in [Deliveries -> Nat]
    BY DEF NInit
  <2> QED BY <2>1, <2>2, Zenon DEF NInit, NTypeOK
<1>2. QueuedOnce
  BY DEF NInit, QueuedOnce
<1>3. NoneBefore /\ BatchReady
  BY DEF NInit, NoneBefore, BatchReady
<1>4. \A d \in Deliveries : TriesOf(d)
  BY DEF NInit, TriesOf
<1> QED BY <1>1, <1>2, <1>3, <1>4 DEF DispatchInv

\* Notify changes no more than where its message is, and a message it hands over has
\* not been dispatched before.
LEMMA NotifyKeeps ==
    ASSUME DispatchInv, NEW m \in NMessages, NotifyMsg(m)
    PROVE  DispatchInv'
<1> USE DEF DispatchInv
<1>1. NTypeOK'
  BY DEF NTypeOK, NotifyMsg
<1>2. QueuedOnce'
  BY DEF NTypeOK, QueuedOnce, NotifyMsg
<1>3. NoneBefore' /\ BatchReady' /\ (\A d \in Deliveries : TriesOf(d))'
  BY DEF NTypeOK, NoneBefore, BatchReady, TriesOf, NotifyMsg, Deliveries
<1> QED BY <1>1, <1>2, <1>3

\* The send to logCh puts a message behind others, which are not the same one.
LEMMA EnqueueKeeps ==
    ASSUME DispatchInv, NEW m \in NMessages, Enqueue(m)
    PROVE  DispatchInv'
<1> USE DEF DispatchInv
<1>1. /\ Len(logCh') = Len(logCh) + 1 /\ logCh' \in Seq(NMessages)
      /\ \A i \in 1..Len(logCh) : logCh'[i] = logCh[i]
      /\ logCh'[Len(logCh) + 1] = m
  BY DEF NTypeOK, Enqueue
<1>2. NTypeOK'
  BY <1>1 DEF NTypeOK, Enqueue
<1>3. \A i \in 1..Len(logCh) : logCh[i] # m /\ logCh[i] \in NMessages
  BY DEF QueuedOnce, NTypeOK, Enqueue
<1>4. QueuedOnce'
  <2>1. \A i \in 1..Len(logCh') : nMsg'[logCh'[i]] = "queued"
    BY <1>1, <1>3 DEF QueuedOnce, NTypeOK, Enqueue
  <2>2. \A i, j \in 1..Len(logCh') : logCh'[i] = logCh'[j] => i = j
    <3> SUFFICES ASSUME NEW i \in 1..Len(logCh'), NEW j \in 1..Len(logCh'), logCh'[i] = logCh'[j]
                 PROVE  i = j
      OBVIOUS
    <3>1. Len(logCh) \in Nat
      BY DEF NTypeOK
    <3>2. CASE i \in 1..Len(logCh) /\ j \in 1..Len(logCh)
      BY <1>1, <3>2 DEF QueuedOnce
    <3>3. CASE ~(i \in 1..Len(logCh) /\ j \in 1..Len(logCh))
      BY <1>1, <1>3, <3>1, <3>3
    <3> QED BY <3>2, <3>3
  <2> QED BY <2>1, <2>2 DEF QueuedOnce
<1>5. NoneBefore' /\ BatchReady' /\ (\A d \in Deliveries : TriesOf(d))'
  BY DEF NTypeOK, NoneBefore, BatchReady, TriesOf, Enqueue, Deliveries
<1> QED BY <1>2, <1>4, <1>5

\* dispatch starts its goroutines for a message that none of them has: the message was
\* queued, and it leaves the channel.
LEMMA ReceiveKeeps ==
    ASSUME DispatchInv, ReceiveMsg
    PROVE  DispatchInv'
<1> USE DEF DispatchInv
<1> DEFINE m == Head(logCh)
<1>1. /\ m \in NMessages /\ m = logCh[1] /\ Len(logCh) > 0
      /\ logCh' \in Seq(NMessages) /\ Len(logCh') = Len(logCh) - 1
      /\ \A i \in 1..Len(logCh') : logCh'[i] = logCh[i + 1]
  BY DEF NTypeOK, ReceiveMsg
<1>2. nMsg[m] = "queued"
  BY <1>1 DEF QueuedOnce, NTypeOK
<1>3. /\ nMsg' = [nMsg EXCEPT ![m] = "dispatched"]
      /\ del' = [d \in Deliveries |-> IF d[1] = m /\ d[2] \in Recipients[m]
                                      THEN [at |-> "sending", trials |-> 0] ELSE del[d]]
      /\ UNCHANGED <<nDone, nLoop, batch, tries, acked>>
  BY DEF ReceiveMsg
<1> HIDE DEF m
<1>4. NTypeOK'
  BY <1>1, <1>3 DEF NTypeOK
<1>5. QueuedOnce'
  <2>1. Len(logCh) \in Nat
    BY DEF NTypeOK
  <2>2. \A i \in 1..Len(logCh') : i + 1 \in 1..Len(logCh) /\ i + 1 # 1
    BY <1>1, <2>1
  <2>3. \A i \in 1..Len(logCh') : nMsg'[logCh'[i]] = "queued"
    <3> SUFFICES ASSUME NEW i \in 1..Len(logCh') PROVE nMsg'[logCh'[i]] = "queued"
      OBVIOUS
    <3>1. logCh'[i] = logCh[i + 1] /\ 1 \in 1..Len(logCh)
      BY <1>1, <2>1
    <3>2. logCh[i + 1] # m /\ logCh[i + 1] \in NMessages /\ nMsg[logCh[i + 1]] = "queued"
      BY <1>1, <2>2, <3>1 DEF QueuedOnce, NTypeOK
    <3> QED BY <1>3, <3>1, <3>2 DEF NTypeOK
  <2>4. \A i, j \in 1..Len(logCh') : logCh'[i] = logCh'[j] => i = j
    <3> SUFFICES ASSUME NEW i \in 1..Len(logCh'), NEW j \in 1..Len(logCh'), logCh'[i] = logCh'[j]
                 PROVE  i = j
      OBVIOUS
    <3>1. logCh[i + 1] = logCh[j + 1] /\ i + 1 \in 1..Len(logCh) /\ j + 1 \in 1..Len(logCh)
      BY <1>1, <2>2
    <3>2. \A k, l \in 1..Len(logCh) : logCh[k] = logCh[l] => k = l
      BY DEF QueuedOnce
    <3>3. i + 1 = j + 1
      BY <3>1, <3>2
    <3> QED BY <3>3
  <2> QED BY <2>3, <2>4 DEF QueuedOnce
<1>6. \A d \in Deliveries : d[1] = m => del[d].at = "none"
  BY <1>1, <1>2 DEF NoneBefore
<1>7. NoneBefore'
  BY <1>1, <1>3, <1>6 DEF NoneBefore, NTypeOK, Deliveries
<1>8. BatchReady'
  BY <1>3, <1>6 DEF BatchReady, NTypeOK
<1>9. (\A d \in Deliveries : TriesOf(d))'
  BY <1>3, <1>6 DEF TriesOf, NTypeOK
<1> QED BY <1>4, <1>5, <1>7, <1>8, <1>9

\* An attempt counts one try, and one acknowledgement when the answer is good (notify).
LEMMA AttemptCounts ==
    ASSUME NTypeOK, NEW d \in Deliveries, NEW ok \in BOOLEAN, Attempt(d, ok)
    PROVE  /\ tries' \in [Deliveries -> Nat] /\ acked' \in [Deliveries -> Nat]
           /\ tries'[d] = tries[d] + 1
           /\ ok => acked'[d] = acked[d] + 1
           /\ ~ok => acked'[d] = acked[d]
           /\ \A e \in Deliveries \ {d} : tries'[e] = tries[e] /\ acked'[e] = acked[e]
  BY DEF NTypeOK, Attempt

\* The goroutine of dispatch makes the first attempt; a failure waits with no trial.
LEMMA SendFirstKeeps ==
    ASSUME DispatchInv, NEW d \in Deliveries, SendFirst(d)
    PROVE  DispatchInv'
<1> USE DEF DispatchInv
<1>1. PICK ok \in BOOLEAN :
         /\ Attempt(d, ok)
         /\ del' = [del EXCEPT ![d] = [at |-> IF ok THEN "sent" ELSE "waiting", trials |-> 0]]
  BY Zenon DEF SendFirst
<1>2. /\ del[d].at = "sending"
      /\ UNCHANGED <<nMsg, logCh, nDone, nLoop, batch>>
  BY DEF SendFirst
<1>3. NTypeOK'
  BY <1>1, <1>2, AttemptCounts DEF NTypeOK
<1>4. QueuedOnce'
  BY <1>2 DEF QueuedOnce
<1>5. NoneBefore' /\ BatchReady'
  BY <1>1, <1>2 DEF NoneBefore, BatchReady, NTypeOK
<1>6. (\A e \in Deliveries : TriesOf(e))'
  <2> SUFFICES ASSUME NEW e \in Deliveries PROVE TriesOf(e)'
    OBVIOUS
  <2>1. CASE e = d
    <3>1. tries[d] = 0 /\ acked[d] = 0
      BY <1>2 DEF TriesOf
    <3>2. MaxRetries[d[1]] \in Nat /\ MaxRetries[d[1]] > 0
      BY DispatchAssumption DEF Deliveries
    <3>3. tries'[d] = 1 /\ acked'[d] = IF ok THEN 1 ELSE 0
      BY <1>1, <3>1, AttemptCounts
    <3>4. del'[d] = [at |-> IF ok THEN "sent" ELSE "waiting", trials |-> 0]
      BY <1>1 DEF NTypeOK
    <3> QED BY <2>1, <3>2, <3>3, <3>4 DEF TriesOf
  <2>2. CASE e # d
    BY <1>1, <2>2, AttemptCounts DEF TriesOf, NTypeOK
  <2> QED BY <2>1, <2>2
<1> QED BY <1>3, <1>4, <1>5, <1>6

\* processRetries moves what waits into the batch, with its trials.
LEMMA ProcessRetriesKeeps ==
    ASSUME DispatchInv, ProcessRetries
    PROVE  DispatchInv'
<1> USE DEF DispatchInv
<1>1. PICK due \in SUBSET {d \in Deliveries : del[d].at = "waiting"} :
         /\ batch' = due
         /\ del' = [d \in Deliveries |-> IF d \in due THEN [del[d] EXCEPT !.at = "ready"] ELSE del[d]]
  BY DEF ProcessRetries
<1>2. nLoop' = "retry" /\ UNCHANGED <<nMsg, logCh, nDone, tries, acked>>
  BY DEF ProcessRetries
<1>3. NTypeOK'
  BY <1>1, <1>2, Zenon DEF NTypeOK
<1>4. QueuedOnce'
  BY <1>2 DEF QueuedOnce
<1>5. NoneBefore' /\ BatchReady'
  BY <1>1, <1>2 DEF NoneBefore, BatchReady, NTypeOK
<1>6. (\A d \in Deliveries : TriesOf(d))'
  BY <1>1, <1>2 DEF TriesOf, NTypeOK
<1> QED BY <1>3, <1>4, <1>5, <1>6

\* retry: a failure makes one more trial, and the last one its level has is given up.
LEMMA RetryKeeps ==
    ASSUME DispatchInv, NEW d \in Deliveries, Retry(d)
    PROVE  DispatchInv'
<1> USE DEF DispatchInv
<1>1. PICK ok \in BOOLEAN : Attempt(d, ok) /\ del' = [del EXCEPT ![d] = AfterRetry(d, ok)]
  BY Zenon DEF Retry
<1>2. /\ nLoop' \in {"select", "retry"} /\ d \in batch /\ batch' = batch \ {d}
      /\ UNCHANGED <<nMsg, logCh, nDone>>
  BY DEF Retry, RestOf
<1>3. del[d].at = "ready" /\ del[d].trials \in Nat
  BY <1>2 DEF BatchReady, NTypeOK
<1>4. /\ AfterRetry(d, ok).at \in {"sent", "lost", "waiting"}
      /\ AfterRetry(d, ok) \in [at : {"none", "sending", "waiting", "ready", "sent", "lost"},
                                trials : Nat]
  BY <1>3 DEF AfterRetry
<1>5. NTypeOK'
  BY <1>1, <1>2, <1>4, AttemptCounts DEF NTypeOK
<1>6. QueuedOnce'
  BY <1>2 DEF QueuedOnce
<1>7. NoneBefore' /\ BatchReady'
  BY <1>1, <1>2, <1>3, SMTT(30) DEF NoneBefore, BatchReady, NTypeOK
<1>8. (\A e \in Deliveries : TriesOf(e))'
  <2> SUFFICES ASSUME NEW e \in Deliveries PROVE TriesOf(e)'
    OBVIOUS
  <2>1. CASE e = d
    <3>1. /\ tries[d] = 1 + del[d].trials /\ acked[d] = 0
          /\ del[d].trials < MaxRetries[d[1]]
      BY <1>3 DEF TriesOf
    <3>2. MaxRetries[d[1]] \in Nat
      BY DispatchAssumption DEF Deliveries
    <3>3. tries'[d] = 2 + del[d].trials /\ acked'[d] = IF ok THEN 1 ELSE 0
      BY <1>1, <1>3, <3>1, AttemptCounts
    <3>4. del'[d] = AfterRetry(d, ok)
      BY <1>1 DEF NTypeOK
    <3> QED BY <1>3, <2>1, <3>1, <3>2, <3>3, <3>4 DEF TriesOf, AfterRetry
  <2>2. CASE e # d
    BY <1>1, <2>2, AttemptCounts DEF TriesOf, NTypeOK
  <2> QED BY <2>1, <2>2
<1> QED BY <1>5, <1>6, <1>7, <1>8

\* Every step of the dispatcher keeps the invariant.
LEMMA DispatchStep == DispatchInv /\ [NNext]_nVars => DispatchInv'
<1> SUFFICES ASSUME DispatchInv, [NNext]_nVars PROVE DispatchInv'
  OBVIOUS
<1>1. CASE \E m \in NMessages : NotifyMsg(m) \/ Enqueue(m)
  BY <1>1, NotifyKeeps, EnqueueKeeps
<1>2. CASE ReceiveMsg
  BY <1>2, ReceiveKeeps
<1>3. CASE ProcessRetries
  BY <1>3, ProcessRetriesKeeps
<1>4. CASE \E d \in Deliveries : SendFirst(d) \/ Retry(d)
  BY <1>4, SendFirstKeeps, RetryKeeps
<1>5. CASE CancelDispatcher \/ DispatcherEnds \/ UNCHANGED nVars
  <2>1. /\ UNCHANGED <<nMsg, logCh, batch, del, tries, acked>>
        /\ nDone' \in BOOLEAN /\ nLoop' \in {"select", "retry", "closed"}
    BY <1>5, Zenon DEF CancelDispatcher, DispatcherEnds, nVars, DispatchInv, NTypeOK
  <2>2. NTypeOK'
    BY <2>1 DEF DispatchInv, NTypeOK
  <2> QED BY <2>1, <2>2 DEF DispatchInv, QueuedOnce, NoneBefore, BatchReady, TriesOf
<1> QED BY <1>1, <1>2, <1>3, <1>4, <1>5 DEF NNext

\* The counts of attempts follow where each delivery is, whatever the interleaving of
\* the loop, its goroutines and the cancellation.
LEMMA DispatchCorrect == NSpec => []DispatchInv
  BY DispatchInitially, DispatchStep, PTL DEF NSpec

\* For any messages, providers and numbers of retries: a notification is given up after
\* exactly one attempt and its level's retries, and never tried more often.
THEOREM DispatchRetriesExact == NSpec => []RetriesExact
<1>1. DispatchInv => RetriesExact
  <2> SUFFICES ASSUME DispatchInv, NEW d \in Deliveries
               PROVE  /\ tries[d] <= 1 + MaxRetries[d[1]]
                      /\ del[d].at = "lost" => tries[d] = 1 + MaxRetries[d[1]]
    BY DEF RetriesExact
  <2>1. MaxRetries[d[1]] \in Nat /\ tries[d] \in Nat /\ del[d].trials \in Nat
    BY DispatchAssumption DEF Deliveries, DispatchInv, NTypeOK
  <2>2. TriesOf(d) /\ del[d].at \in {"none", "sending", "waiting", "ready", "sent", "lost"}
    BY DEF DispatchInv, NTypeOK
  <2> QED BY <2>1, <2>2 DEF TriesOf
<1> QED BY <1>1, DispatchCorrect, PTL

\* A notification its provider has acknowledged is acknowledged once and never sent
\* again: dispatch, processRetries and retry take it from nowhere.
THEOREM DispatchAckedOnce == NSpec => []AckedOnce
<1>1. DispatchInv => AckedOnce
  <2> SUFFICES ASSUME DispatchInv, NEW d \in Deliveries
               PROVE  acked[d] = IF del[d].at = "sent" THEN 1 ELSE 0
    BY DEF AckedOnce
  <2>1. TriesOf(d) /\ del[d].at \in {"none", "sending", "waiting", "ready", "sent", "lost"}
    BY DEF DispatchInv, NTypeOK
  <2> QED BY <2>1 DEF TriesOf
<1> QED BY <1>1, DispatchCorrect, PTL

-----------------------------------------------------------------------------
(***************************************************************************)
(* AccessLog                                                                *)
(***************************************************************************)
\* Lines d on disk, b in the buffers, of the accepted ones acc, the n-th logged last:
\* they are accepted lines, a number is of one logger, and the lines of one logger are in
\* the order they were logged, on disk, in its buffer, and on disk before its buffer.
InOrder(d, b, acc, n) ==
    /\ n \in Nat /\ d \in Seq(Nat) /\ b \in [Loggers -> Seq(Nat)]
    /\ acc \in SUBSET (Loggers \X Nat)
    /\ \A l, k \in Loggers : \A x \in Nat : <<l, x>> \in acc /\ <<k, x>> \in acc => l = k
    /\ \A l \in Loggers : \A x \in Nat : <<l, x>> \in acc => x <= n
    /\ \A i \in 1..Len(d) : \E l \in Loggers : <<l, d[i]>> \in acc
    /\ \A l \in Loggers : \A i \in 1..Len(b[l]) : <<l, b[l][i]>> \in acc
    /\ \A l \in Loggers : \A i, j \in 1..Len(d) :
          i < j /\ <<l, d[i]>> \in acc /\ <<l, d[j]>> \in acc => d[i] < d[j]
    /\ \A l \in Loggers : \A i, j \in 1..Len(b[l]) : i < j => b[l][i] < b[l][j]
    /\ \A l \in Loggers : \A i \in 1..Len(d) : \A j \in 1..Len(b[l]) :
          <<l, d[i]>> \in acc => d[i] < b[l][j]

\* LinesAccounted of such lines, of those f that failed and of those up to a that aged.
Accounted(d, b, acc, f, a) ==
    \A p \in acc :
        \/ p[2] <= a
        \/ p[2] \in f
        \/ \E i \in 1..Len(d) : d[i] = p[2]
        \/ \E i \in 1..Len(b[p[1]]) : b[p[1]][i] = p[2]
        \/ \E q \in acc : q[1] # p[1] /\ q[2] <= a

LineState(d, b, acc, f, n, a) ==
    InOrder(d, b, acc, n) /\ Accounted(d, b, acc, f, a) /\ a \in Nat

\* BufferedWriter.Flush keeps the lines of the logger behind those it has flushed before.
LEMMA FlushLines ==
    ASSUME NEW d, NEW b, NEW acc, NEW f, NEW n, NEW a, LineState(d, b, acc, f, n, a),
           NEW l \in Loggers
    PROVE  LineState(d \o b[l], [b EXCEPT ![l] = <<>>], acc, f, n, a)
<1> DEFINE e == d \o b[l]
           c == [b EXCEPT ![l] = <<>>]
<1>1. /\ d \in Seq(Nat) /\ b \in [Loggers -> Seq(Nat)] /\ Len(d) \in Nat
      /\ b[l] \in Seq(Nat) /\ Len(b[l]) \in Nat
  BY DEF LineState, InOrder
<1>2. /\ e \in Seq(Nat) /\ Len(e) = Len(d) + Len(b[l])
      /\ \A i \in 1..Len(d) : i \in 1..Len(e) /\ e[i] = d[i]
      /\ \A i \in 1..Len(b[l]) : Len(d) + i \in 1..Len(e) /\ e[Len(d) + i] = b[l][i]
      /\ \A i \in 1..Len(e) : i \notin 1..Len(d) =>
            i - Len(d) \in 1..Len(b[l]) /\ e[i] = b[l][i - Len(d)]
  BY <1>1, ConcatProperties
<1>3. /\ c \in [Loggers -> Seq(Nat)] /\ 1..Len(c[l]) = {}
      /\ \A k \in Loggers : k # l => c[k] = b[k]
  BY <1>1
<1> HIDE DEF e, c
<1>4. InOrder(e, c, acc, n)
  <2>1. \A i \in 1..Len(e) : \E k \in Loggers : <<k, e[i]>> \in acc
    BY <1>2, Zenon DEF LineState, InOrder
  <2>2. \A k \in Loggers : \A i \in 1..Len(c[k]) : <<k, c[k][i]>> \in acc
    <3> SUFFICES ASSUME NEW k \in Loggers, NEW i \in 1..Len(c[k]) PROVE <<k, c[k][i]>> \in acc
      OBVIOUS
    <3>1. k # l /\ c[k] = b[k]
      BY <1>3
    <3> QED BY <3>1 DEF LineState, InOrder
  <2>3. \A k \in Loggers : \A i, j \in 1..Len(e) :
           i < j /\ <<k, e[i]>> \in acc /\ <<k, e[j]>> \in acc => e[i] < e[j]
    <3> SUFFICES ASSUME NEW k \in Loggers, NEW i \in 1..Len(e), NEW j \in 1..Len(e), i < j,
                        <<k, e[i]>> \in acc, <<k, e[j]>> \in acc
                 PROVE  e[i] < e[j]
      OBVIOUS
    <3>1. CASE j \in 1..Len(d)
      <4>1. i \in 1..Len(d)
        BY <1>1, <1>2, <3>1
      <4> QED BY <1>2, <3>1, <4>1, Zenon DEF LineState, InOrder
    <3>2. CASE j \notin 1..Len(d)
      <4>1. j - Len(d) \in 1..Len(b[l]) /\ e[j] = b[l][j - Len(d)] /\ e[j] \in Nat
        BY <1>1, <1>2, <3>2, SMTT(30)
      <4>2. k = l
        <5>1. <<l, e[j]>> \in acc
          BY <4>1 DEF LineState, InOrder
        <5> QED BY <4>1, <5>1 DEF LineState, InOrder
      <4>3. CASE i \in 1..Len(d)
        <5>1. e[i] = d[i] /\ <<l, d[i]>> \in acc
          BY <1>2, <4>2, <4>3, Zenon
        <5>2. \A x \in 1..Len(d) : \A y \in 1..Len(b[l]) : <<l, d[x]>> \in acc => d[x] < b[l][y]
          BY Zenon DEF LineState, InOrder
        <5> QED BY <4>1, <4>3, <5>1, <5>2
      <4>4. CASE i \notin 1..Len(d)
        <5>1. i - Len(d) \in 1..Len(b[l]) /\ e[i] = b[l][i - Len(d)] /\ i - Len(d) < j - Len(d)
          BY <1>1, <1>2, <4>4, SMTT(30)
        <5>2. \A x, y \in 1..Len(b[l]) : x < y => b[l][x] < b[l][y]
          BY DEF LineState, InOrder
        <5> QED BY <4>1, <5>1, <5>2
      <4> QED BY <4>3, <4>4
    <3> QED BY <3>1, <3>2
  <2>4. \A k \in Loggers : \A i, j \in 1..Len(c[k]) : i < j => c[k][i] < c[k][j]
    <3> SUFFICES ASSUME NEW k \in Loggers, NEW i \in 1..Len(c[k]), NEW j \in 1..Len(c[k]), i < j
                 PROVE  c[k][i] < c[k][j]
      OBVIOUS
    <3>1. k # l /\ c[k] = b[k]
      BY <1>3, SMTT(30)
    <3> QED BY <3>1 DEF LineState, InOrder
  <2>5. \A k \in Loggers : \A i \in 1..Len(e) : \A j \in 1..Len(c[k]) :
           <<k, e[i]>> \in acc => e[i] < c[k][j]
    <3> SUFFICES ASSUME NEW k \in Loggers, NEW i \in 1..Len(e), NEW j \in 1..Len(c[k]),
                        <<k, e[i]>> \in acc
                 PROVE  e[i] < c[k][j]
      OBVIOUS
    <3>1. k # l /\ c[k] = b[k]
      BY <1>3, Zenon
    <3>2. CASE i \in 1..Len(d)
      BY <1>2, <3>1, <3>2, Zenon DEF LineState, InOrder
    <3>3. CASE i \notin 1..Len(d)
      <4>1. <<l, e[i]>> \in acc /\ e[i] \in Nat
        BY <1>1, <1>2, <3>3, Zenon DEF LineState, InOrder
      <4> QED BY <3>1, <4>1 DEF LineState, InOrder
    <3> QED BY <3>2, <3>3
  <2> QED BY <1>2, <1>3, <2>1, <2>2, <2>3, <2>4, <2>5, Zenon DEF LineState, InOrder
<1>5. Accounted(e, c, acc, f, a)
  <2> SUFFICES ASSUME NEW p \in acc
               PROVE  \/ p[2] <= a
                      \/ p[2] \in f
                      \/ \E i \in 1..Len(e) : e[i] = p[2]
                      \/ \E i \in 1..Len(c[p[1]]) : c[p[1]][i] = p[2]
                      \/ \E q \in acc : q[1] # p[1] /\ q[2] <= a
    BY DEF Accounted
  <2>1. p[1] \in Loggers
    BY DEF LineState, InOrder
  <2>2. CASE \E i \in 1..Len(b[p[1]]) : b[p[1]][i] = p[2]
    <3>1. CASE p[1] = l
      <4>1. PICK i \in 1..Len(b[l]) : b[l][i] = p[2]
        BY <2>2, <3>1
      <4>2. Len(d) + i \in 1..Len(e) /\ e[Len(d) + i] = p[2]
        BY <1>2, <4>1
      <4> QED BY <4>2
    <3>2. CASE p[1] # l
      BY <1>3, <2>1, <2>2, <3>2
    <3> QED BY <3>1, <3>2
  <2>3. CASE ~(\E i \in 1..Len(b[p[1]]) : b[p[1]][i] = p[2])
    BY <1>2, <2>3 DEF LineState, Accounted
  <2> QED BY <2>2, <2>3
<1> QED BY <1>4, <1>5 DEF LineState, e, c

\* A line is taken: the next number, at the end of the buffer.
LEMMA AcceptLine ==
    ASSUME NEW d, NEW b, NEW acc, NEW f, NEW n, NEW a, LineState(d, b, acc, f, n, a),
           NEW l \in Loggers
    PROVE  LineState(d, [b EXCEPT ![l] = Append(@, n + 1)], acc \cup {<<l, n + 1>>}, f, n + 1, a)
<1> DEFINE c == [b EXCEPT ![l] = Append(@, n + 1)]
           new == acc \cup {<<l, n + 1>>}
<1>1. /\ n \in Nat /\ d \in Seq(Nat) /\ b \in [Loggers -> Seq(Nat)]
      /\ acc \in SUBSET (Loggers \X Nat)
      /\ b[l] \in Seq(Nat) /\ Len(b[l]) \in Nat
  BY DEF LineState, InOrder
<1>2. /\ c \in [Loggers -> Seq(Nat)] /\ Len(c[l]) = Len(b[l]) + 1
      /\ c[l][Len(b[l]) + 1] = n + 1
      /\ \A i \in 1..Len(b[l]) : i \in 1..Len(c[l]) /\ c[l][i] = b[l][i]
      /\ \A i \in 1..Len(c[l]) : i \notin 1..Len(b[l]) => i = Len(b[l]) + 1
      /\ \A k \in Loggers : k # l => c[k] = b[k]
  BY <1>1
<1>3. /\ new \in SUBSET (Loggers \X Nat)
      /\ \A k \in Loggers : \A x \in Nat : <<k, x>> \in new <=> <<k, x>> \in acc \/ (k = l /\ x = n + 1)
  BY <1>1
<1>4. \A k \in Loggers : \A x \in Nat : <<k, x>> \in acc => x < n + 1
  BY <1>1 DEF LineState, InOrder
<1>5. /\ \A i \in 1..Len(d) : d[i] \in Nat /\ d[i] < n + 1
      /\ \A k \in Loggers : \A i \in 1..Len(b[k]) : b[k][i] \in Nat /\ b[k][i] < n + 1
  <2>1. \A i \in 1..Len(d) : d[i] \in Nat /\ \E k \in Loggers : <<k, d[i]>> \in acc
    <3>1. \A i \in 1..Len(d) : \E k \in Loggers : <<k, d[i]>> \in acc
      BY Zenon DEF LineState, InOrder
    <3> QED BY <1>1, <3>1, Zenon
  <2>2. \A k \in Loggers : \A i \in 1..Len(b[k]) : b[k][i] \in Nat /\ <<k, b[k][i]>> \in acc
    BY <1>1 DEF LineState, InOrder
  <2> QED BY <1>4, <2>1, <2>2, Zenon
<1> HIDE DEF c, new
<1>6. InOrder(d, c, new, n + 1)
  <2>1. \A k, m \in Loggers : \A x \in Nat : <<k, x>> \in new /\ <<m, x>> \in new => k = m
    <3>1. \A k, m \in Loggers : \A x \in Nat : <<k, x>> \in acc /\ <<m, x>> \in acc => k = m
      BY DEF LineState, InOrder
    <3> QED BY <1>1, <1>3, <1>4, <3>1, SMTT(30)
  <2>2. \A k \in Loggers : \A x \in Nat : <<k, x>> \in new => x <= n + 1
    BY <1>1, <1>3, <1>4
  <2>3. \A i \in 1..Len(d) : \E k \in Loggers : <<k, d[i]>> \in new
    <3>1. \A i \in 1..Len(d) : \E k \in Loggers : <<k, d[i]>> \in acc
      BY Zenon DEF LineState, InOrder
    <3> QED BY <1>3, <1>5, <3>1, SMTT(30)
  <2>4. \A k \in Loggers : \A i \in 1..Len(c[k]) : <<k, c[k][i]>> \in new
    <3> SUFFICES ASSUME NEW k \in Loggers, NEW i \in 1..Len(c[k]) PROVE <<k, c[k][i]>> \in new
      OBVIOUS
    <3>1. \A m \in Loggers : \A j \in 1..Len(b[m]) : <<m, b[m][j]>> \in acc
      BY DEF LineState, InOrder
    <3>2. CASE k # l
      BY <1>2, <1>3, <1>5, <3>1, <3>2, SMTT(30)
    <3>3. CASE k = l /\ i \in 1..Len(b[l])
      BY <1>2, <1>3, <1>5, <3>1, <3>3, SMTT(30)
    <3>4. CASE k = l /\ i \notin 1..Len(b[l])
      BY <1>1, <1>2, <1>3, <3>4
    <3> QED BY <3>2, <3>3, <3>4
  <2>5. \A k \in Loggers : \A i, j \in 1..Len(d) :
           i < j /\ <<k, d[i]>> \in new /\ <<k, d[j]>> \in new => d[i] < d[j]
    <3>1. \A k \in Loggers : \A i \in 1..Len(d) : <<k, d[i]>> \in new => <<k, d[i]>> \in acc
      BY <1>1, <1>3, <1>5
    <3>2. \A k \in Loggers : \A i, j \in 1..Len(d) :
             i < j /\ <<k, d[i]>> \in acc /\ <<k, d[j]>> \in acc => d[i] < d[j]
      BY SMTT(30) DEF LineState, InOrder
    <3> QED BY <3>1, <3>2
  <2>6. \A k \in Loggers : \A i, j \in 1..Len(c[k]) : i < j => c[k][i] < c[k][j]
    <3> SUFFICES ASSUME NEW k \in Loggers, NEW i \in 1..Len(c[k]), NEW j \in 1..Len(c[k]), i < j
                 PROVE  c[k][i] < c[k][j]
      OBVIOUS
    <3>1. \A m \in Loggers : \A x, y \in 1..Len(b[m]) : x < y => b[m][x] < b[m][y]
      BY DEF LineState, InOrder
    <3>2. CASE k # l
      BY <1>2, <3>1, <3>2, Zenon
    <3>3. CASE k = l /\ j \in 1..Len(b[l])
      <4>1. i \in 1..Len(b[l])
        BY <1>1, <1>2, <3>3, SMTT(30)
      <4> QED BY <1>2, <3>1, <3>3, <4>1, Zenon
    <3>4. CASE k = l /\ j \notin 1..Len(b[l])
      <4>1. j = Len(b[l]) + 1 /\ i \in 1..Len(b[l])
        BY <1>1, <1>2, <3>4, SMTT(30)
      <4> QED BY <1>2, <1>5, <3>4, <4>1, SMTT(30)
    <3> QED BY <3>2, <3>3, <3>4
  <2>7. \A k \in Loggers : \A i \in 1..Len(d) : \A j \in 1..Len(c[k]) :
           <<k, d[i]>> \in new => d[i] < c[k][j]
    <3> SUFFICES ASSUME NEW k \in Loggers, NEW i \in 1..Len(d), NEW j \in 1..Len(c[k]),
                        <<k, d[i]>> \in new
                 PROVE  d[i] < c[k][j]
      OBVIOUS
    <3>1. <<k, d[i]>> \in acc
      BY <1>1, <1>3, <1>5, SMTT(30)
    <3>2. \A m \in Loggers : \A x \in 1..Len(d) : \A y \in 1..Len(b[m]) :
             <<m, d[x]>> \in acc => d[x] < b[m][y]
      BY Zenon DEF LineState, InOrder
    <3>3. CASE k # l \/ j \in 1..Len(b[l])
      BY <1>2, <3>1, <3>2, <3>3, Zenon
    <3>4. CASE k = l /\ j \notin 1..Len(b[l])
      BY <1>2, <1>5, <3>4, SMTT(30)
    <3> QED BY <3>3, <3>4
  <2>8. n + 1 \in Nat /\ d \in Seq(Nat) /\ c \in [Loggers -> Seq(Nat)] /\ new \in SUBSET (Loggers \X Nat)
    BY <1>1, <1>2, <1>3
  <2> QED BY <2>1, <2>2, <2>3, <2>4, <2>5, <2>6, <2>7, <2>8, Zenon DEF InOrder
<1>7. Accounted(d, c, new, f, a)
  <2> SUFFICES ASSUME NEW p \in new
               PROVE  \/ p[2] <= a
                      \/ p[2] \in f
                      \/ \E i \in 1..Len(d) : d[i] = p[2]
                      \/ \E i \in 1..Len(c[p[1]]) : c[p[1]][i] = p[2]
                      \/ \E q \in new : q[1] # p[1] /\ q[2] <= a
    BY DEF Accounted
  <2>1. CASE p = <<l, n + 1>>
    <3>1. Len(b[l]) + 1 \in 1..Len(c[l])
      BY <1>1, <1>2, SMTT(30)
    <3> QED BY <1>2, <2>1, <3>1
  <2>2. CASE p \in acc
    <3>1. p[1] \in Loggers
      BY <1>1, <2>2, SMTT(30)
    <3>2. CASE \E i \in 1..Len(b[p[1]]) : b[p[1]][i] = p[2]
      BY <1>2, <3>1, <3>2, Zenon
    <3>3. CASE ~(\E i \in 1..Len(b[p[1]]) : b[p[1]][i] = p[2])
      BY <2>2, <3>3 DEF LineState, Accounted, new
    <3> QED BY <3>2, <3>3
  <2> QED BY <2>1, <2>2, SMTT(30) DEF new
<1> QED BY <1>1, <1>6, <1>7 DEF LineState, c, new

\* A write or a flush that fails loses the buffer, and its lines have failed.
LEMMA LoseLines ==
    ASSUME NEW d, NEW b, NEW acc, NEW f, NEW n, NEW a, LineState(d, b, acc, f, n, a),
           NEW l \in Loggers, NEW g, f \subseteq g, \A i \in 1..Len(b[l]) : b[l][i] \in g
    PROVE  LineState(d, [b EXCEPT ![l] = <<>>], acc, g, n, a)
<1> DEFINE c == [b EXCEPT ![l] = <<>>]
<1>1. b \in [Loggers -> Seq(Nat)] /\ acc \in SUBSET (Loggers \X Nat)
  BY DEF LineState, InOrder
<1>2. /\ c \in [Loggers -> Seq(Nat)] /\ 1..Len(c[l]) = {}
      /\ \A k \in Loggers : k # l => c[k] = b[k]
  BY <1>1
<1> HIDE DEF c
<1>3. InOrder(d, c, acc, n)
  <2>1. \A k \in Loggers : \A i \in 1..Len(c[k]) : k # l /\ c[k] = b[k]
    BY <1>2, Zenon
  <2>2. \A k \in Loggers : \A i \in 1..Len(c[k]) : <<k, c[k][i]>> \in acc
    <3>1. \A k \in Loggers : \A i \in 1..Len(b[k]) : <<k, b[k][i]>> \in acc
      BY DEF LineState, InOrder
    <3> QED BY <2>1, <3>1
  <2>3. \A k \in Loggers : \A i, j \in 1..Len(c[k]) : i < j => c[k][i] < c[k][j]
    <3>1. \A k \in Loggers : \A i, j \in 1..Len(b[k]) : i < j => b[k][i] < b[k][j]
      BY DEF LineState, InOrder
    <3> QED BY <2>1, <3>1
  <2>4. \A k \in Loggers : \A i \in 1..Len(d) : \A j \in 1..Len(c[k]) :
           <<k, d[i]>> \in acc => d[i] < c[k][j]
    <3>1. \A k \in Loggers : \A i \in 1..Len(d) : \A j \in 1..Len(b[k]) :
             <<k, d[i]>> \in acc => d[i] < b[k][j]
      BY SMTT(30) DEF LineState, InOrder
    <3> QED BY <2>1, <3>1
  <2> QED BY <1>2, <2>2, <2>3, <2>4, Zenon DEF LineState, InOrder
<1>4. Accounted(d, c, acc, g, a)
  <2> SUFFICES ASSUME NEW p \in acc
               PROVE  \/ p[2] <= a
                      \/ p[2] \in g
                      \/ \E i \in 1..Len(d) : d[i] = p[2]
                      \/ \E i \in 1..Len(c[p[1]]) : c[p[1]][i] = p[2]
                      \/ \E q \in acc : q[1] # p[1] /\ q[2] <= a
    BY DEF Accounted
  <2>1. p[1] \in Loggers
    BY <1>1
  <2>2. CASE \E i \in 1..Len(b[p[1]]) : b[p[1]][i] = p[2]
    BY <1>2, <2>1, <2>2
  <2>3. CASE ~(\E i \in 1..Len(b[p[1]]) : b[p[1]][i] = p[2])
    BY <2>3 DEF LineState, Accounted
  <2> QED BY <2>2, <2>3
<1> QED BY <1>3, <1>4 DEF LineState, c

\* A set of positions that is not empty has a last one.
LEMMA LastPosition ==
    ASSUME NEW n \in Nat, NEW T \in SUBSET (1..n), T # {}
    PROVE  \E i \in T : \A j \in T : j <= i
<1> DEFINE U == {n - i : i \in T}
<1>1. U \subseteq Nat /\ U # {}
  <2>1. \A i \in T : i \in Int /\ 1 <= i /\ i <= n
    OBVIOUS
  <2>2. \A i \in T : n - i \in Nat
    BY <2>1
  <2> QED BY <2>2, Zenon
<1>2. PICK x \in U : \A y \in U : ~(<<y, x>> \in OpToRel(<, Nat))
  BY <1>1, NatLessThanWellFounded, WFMin
<1>3. PICK i \in T : x = n - i
  OBVIOUS
<1>4. \A j \in T : j <= i
  <2> SUFFICES ASSUME NEW j \in T, i < j PROVE FALSE
    OBVIOUS
  <2>1. n - j \in U /\ n - j \in Nat /\ x \in Nat /\ n - j < x
    BY <1>3
  <2> QED BY <1>2, <2>1, Zenon DEF OpToRel
<1> QED BY <1>4

\* What rotation keeps is the end of the file, from behind the last line that is too old.
LEMMA KeptLinesAre ==
    ASSUME NEW d \in Seq(Nat), aged \in Nat
    PROVE  \E k \in 0..Len(d) :
             /\ KeptLines(d) \in Seq(Nat) /\ Len(KeptLines(d)) = Len(d) - k
             /\ \A i \in 1..(Len(d) - k) : KeptLines(d)[i] = d[k + i]
             /\ k > 0 => d[k] <= aged
<1> DEFINE old == {i \in DOMAIN d : d[i] <= aged}
<1>1. Len(d) \in Nat /\ DOMAIN d = 1..Len(d) /\ \A i \in 1..Len(d) : d[i] \in Nat
  OBVIOUS
<1>2. CASE old = {}
  <2>1. KeptLines(d) = d
    BY <1>2 DEF KeptLines
  <2>2. /\ KeptLines(d) \in Seq(Nat) /\ Len(KeptLines(d)) = Len(d) - 0
        /\ \A i \in 1..(Len(d) - 0) : KeptLines(d)[i] = d[0 + i]
    BY <1>1, <2>1
  <2>3. 0 \in 0..Len(d) /\ ~(0 > 0)
    BY <1>1
  <2> QED BY <2>2, <2>3
<1>3. CASE old # {}
  <2> DEFINE k == CHOOSE i \in old : \A j \in old : j <= i
  <2>1. k \in old
    <3>1. old \in SUBSET (1..Len(d))
      BY <1>1
    <3>2. \E i \in old : \A j \in old : j <= i
      BY <1>1, <1>3, <3>1, LastPosition, Zenon
    <3> QED BY <3>2
  <2>2. KeptLines(d) = SubSeq(d, 1 + k, Len(d))
    BY <1>3, Zenon DEF KeptLines
  <2> HIDE DEF k
  <2>3. k \in 1..Len(d) /\ d[k] <= aged
    BY <1>1, <2>1
  <2>4. 1 + k \in Int /\ Len(d) \in Int /\ \A i \in (1 + k)..Len(d) : d[i] \in Nat
    BY <1>1, <2>3
  <2>5. /\ KeptLines(d) \in Seq(Nat)
        /\ Len(KeptLines(d)) = IF 1 + k <= Len(d) THEN Len(d) - (1 + k) + 1 ELSE 0
        /\ \A i \in 1..(Len(d) - (1 + k) + 1) : KeptLines(d)[i] = d[1 + k + i - 1]
    BY <2>2, <2>4, SubSeqProperties
  <2>6. Len(KeptLines(d)) = Len(d) - k
    <3>1. CASE 1 + k <= Len(d)
      BY <1>1, <2>3, <2>5, <3>1
    <3>2. CASE ~(1 + k <= Len(d))
      <4>1. k \in Int /\ Len(d) \in Int /\ k <= Len(d)
        BY <1>1, <2>3
      <4>2. k = Len(d)
        BY <3>2, <4>1
      <4> QED BY <1>1, <2>5, <3>2, <4>2
    <3> QED BY <3>1, <3>2
  <2>7. \A i \in 1..(Len(d) - k) : KeptLines(d)[i] = d[k + i]
    <3> SUFFICES ASSUME NEW i \in 1..(Len(d) - k) PROVE KeptLines(d)[i] = d[k + i]
      OBVIOUS
    <3>1. i \in 1..(Len(d) - (1 + k) + 1) /\ 1 + k + i - 1 = k + i
      BY <1>1, <2>3
    <3> QED BY <2>5, <3>1
  <2>8. k \in 0..Len(d)
    BY <1>1, <2>3
  <2> QED BY <2>3, <2>5, <2>6, <2>7, <2>8, Zenon
<1> QED BY <1>2, <1>3

\* Rotation drops a line that is not too old only where a line that is too old was put
\* behind it: one of another logger, since the lines of one are in their order.
LEMMA RotateLines ==
    ASSUME NEW d, NEW b, NEW acc, NEW f, NEW n, LineState(d, b, acc, f, n, aged)
    PROVE  LineState(KeptLines(d), b, acc, f, n, aged)
<1> DEFINE e == KeptLines(d)
<1>1. aged \in Nat /\ d \in Seq(Nat) /\ Len(d) \in Nat /\ acc \in SUBSET (Loggers \X Nat)
  BY DEF LineState, InOrder
<1>2. PICK k \in 0..Len(d) :
         /\ e \in Seq(Nat) /\ Len(e) = Len(d) - k
         /\ \A i \in 1..(Len(d) - k) : e[i] = d[k + i]
         /\ k > 0 => d[k] <= aged
  BY <1>1, KeptLinesAre
<1> HIDE DEF e
<1>3. \A i \in 1..Len(e) : k + i \in 1..Len(d) /\ e[i] = d[k + i]
  BY <1>1, <1>2
<1>4. InOrder(e, b, acc, n)
  <2>1. \A i \in 1..Len(e) : \E l \in Loggers : <<l, e[i]>> \in acc
    <3>1. \A i \in 1..Len(d) : \E l \in Loggers : <<l, d[i]>> \in acc
      BY Zenon DEF LineState, InOrder
    <3> QED BY <1>3, <3>1
  <2>2. \A l \in Loggers : \A i, j \in 1..Len(e) :
           i < j /\ <<l, e[i]>> \in acc /\ <<l, e[j]>> \in acc => e[i] < e[j]
    <3> SUFFICES ASSUME NEW l \in Loggers, NEW i \in 1..Len(e), NEW j \in 1..Len(e), i < j,
                        <<l, e[i]>> \in acc, <<l, e[j]>> \in acc
                 PROVE  e[i] < e[j]
      OBVIOUS
    <3>1. /\ k + i \in 1..Len(d) /\ e[i] = d[k + i]
          /\ k + j \in 1..Len(d) /\ e[j] = d[k + j]
      BY <1>3
    <3>2. k + i < k + j
      BY <1>2
    <3>3. \A x, y \in 1..Len(d) :
             x < y /\ <<l, d[x]>> \in acc /\ <<l, d[y]>> \in acc => d[x] < d[y]
      BY Zenon DEF LineState, InOrder
    <3>4. <<l, d[k + i]>> \in acc /\ <<l, d[k + j]>> \in acc
      BY <3>1
    <3>5. d[k + i] < d[k + j]
      BY <3>1, <3>2, <3>3, <3>4, SMTT(30)
    <3> QED BY <3>1, <3>5
  <2>3. \A l \in Loggers : \A i \in 1..Len(e) : \A j \in 1..Len(b[l]) :
           <<l, e[i]>> \in acc => e[i] < b[l][j]
    <3>1. \A l \in Loggers : \A i \in 1..Len(d) : \A j \in 1..Len(b[l]) :
             <<l, d[i]>> \in acc => d[i] < b[l][j]
      BY SMTT(30) DEF LineState, InOrder
    <3> QED BY <1>3, <3>1
  <2> QED BY <1>2, <2>1, <2>2, <2>3, Zenon DEF LineState, InOrder
<1>5. Accounted(e, b, acc, f, aged)
  <2> SUFFICES ASSUME NEW p \in acc, p[2] > aged, NEW i \in 1..Len(d), d[i] = p[2],
                      ~(\E j \in 1..Len(e) : e[j] = p[2])
               PROVE  \E q \in acc : q[1] # p[1] /\ q[2] <= aged
    <3>1. \A p \in acc : p[2] \in Nat
      BY <1>1
    <3> QED BY <1>1, <3>1, SMTT(30) DEF LineState, Accounted
  <2>1. i <= k
    <3> SUFFICES ASSUME k < i PROVE FALSE
      BY <1>2
    <3>1. i - k \in 1..(Len(d) - k) /\ k + (i - k) = i
      BY <1>1, <1>2
    <3>2. i - k \in 1..Len(e) /\ e[i - k] = d[k + (i - k)]
      BY <1>2, <3>1
    <3> QED BY <3>1, <3>2
  <2>2. k \in 1..Len(d) /\ d[k] <= aged
    BY <1>1, <1>2, <2>1
  <2>3. d[k] \in Nat /\ d[i] \in Nat /\ i # k /\ i < k
    BY <1>1, <1>2, <2>1, <2>2, SMTT(30)
  <2>4. PICK l \in Loggers : <<l, d[k]>> \in acc
    BY <2>2, Zenon DEF LineState, InOrder
  <2>5. l # p[1]
    <3> SUFFICES ASSUME l = p[1] PROVE FALSE
      OBVIOUS
    <3>1. p = <<l, d[i]>>
      BY <1>1
    <3>2. \A x, y \in 1..Len(d) :
             x < y /\ <<l, d[x]>> \in acc /\ <<l, d[y]>> \in acc => d[x] < d[y]
      BY Zenon DEF LineState, InOrder
    <3>3. d[i] < d[k]
      BY <2>2, <2>3, <2>4, <3>1, <3>2, SMTT(30)
    <3> QED BY <1>1, <2>2, <2>3, <3>3
  <2> QED BY <2>2, <2>4, <2>5, SMTT(30)
<1> QED BY <1>1, <1>4, <1>5 DEF LineState, e

\* The lines logged so far become too old.
LEMMA AgeLines ==
    ASSUME NEW d, NEW b, NEW acc, NEW f, NEW n, NEW a, LineState(d, b, acc, f, n, a)
    PROVE  LineState(d, b, acc, f, n, n)
<1>1. n \in Nat /\ acc \in SUBSET (Loggers \X Nat)
      /\ \A l \in Loggers : \A x \in Nat : <<l, x>> \in acc => x <= n
  BY DEF LineState, InOrder
<1>2. \A p \in acc : p[2] <= n
  BY <1>1
<1> QED BY <1>1, <1>2 DEF LineState, Accounted

LoggerStates == [at : {"none", "loop", "rotate", "ending", "closed"}, file : Nat, buf : Seq(Nat),
                 done : BOOLEAN]
FileStates == [refs : Nat, at : {"open", "deleted", "closed"}]

LogTypeOK ==
    /\ afiles \in Seq(FileStates)
    /\ openedFile \in 0..Len(afiles)
    /\ alog \in [Loggers -> LoggerStates]

Bufs == [l \in Loggers |-> alog[l].buf]

\* A logger that is not there has no lines; the lines are in order and accounted for.
LogInv ==
    /\ LogTypeOK
    /\ \A l \in Loggers : alog[l].at \in {"none", "closed"} => alog[l].buf = <<>>
    /\ LineState(disk, Bufs, accepted, failed, logged, aged)

\* What a change of one field makes of a logger: the buffer,
LEMMA LoggerBuf ==
    ASSUME NEW x \in LoggerStates, NEW s \in Seq(Nat)
    PROVE  /\ [x EXCEPT !.buf = s] \in LoggerStates
           /\ [x EXCEPT !.buf = s].buf = s /\ [x EXCEPT !.buf = s].at = x.at
  BY DEF LoggerStates

\* where the logger is,
LEMMA LoggerAt ==
    ASSUME NEW x \in LoggerStates, NEW at \in {"none", "loop", "rotate", "ending", "closed"}
    PROVE  /\ [x EXCEPT !.at = at] \in LoggerStates
           /\ [x EXCEPT !.at = at].at = at /\ [x EXCEPT !.at = at].buf = x.buf
  BY DEF LoggerStates

\* its task,
LEMMA LoggerDone ==
    ASSUME NEW x \in LoggerStates, NEW done \in BOOLEAN
    PROVE  /\ [x EXCEPT !.done = done] \in LoggerStates
           /\ [x EXCEPT !.done = done].at = x.at /\ [x EXCEPT !.done = done].buf = x.buf
  BY DEF LoggerStates

\* its file.
LEMMA LoggerFile ==
    ASSUME NEW x \in LoggerStates, NEW g \in Nat
    PROVE  /\ [x EXCEPT !.file = g] \in LoggerStates
           /\ [x EXCEPT !.file = g].at = x.at /\ [x EXCEPT !.file = g].buf = x.buf
  BY SMTT(30) DEF LoggerStates

\* Flushed leaves an empty buffer and moves nothing else.
LEMMA FlushedLogger ==
    ASSUME NEW x \in LoggerStates
    PROVE  Flushed(x) \in LoggerStates /\ Flushed(x).buf = <<>> /\ Flushed(x).at = x.at
<1>1. <<>> \in Seq(Nat)
  OBVIOUS
<1> QED BY <1>1, LoggerBuf, Zenon DEF Flushed

\* A buffer takes a line at its end.
LEMMA TookLogger ==
    ASSUME NEW x \in LoggerStates, NEW n \in Nat
    PROVE  Took(x, n) \in LoggerStates /\ Took(x, n).buf = Append(x.buf, n) /\ Took(x, n).at = x.at
<1>1. Append(x.buf, n) \in Seq(Nat)
  BY DEF LoggerStates
<1> QED BY <1>1, LoggerBuf, Zenon DEF Took

\* A logger in another state has another buffer; the others keep theirs.
LEMMA LoggerChanges ==
    ASSUME LogTypeOK, NEW l \in Loggers, NEW x \in LoggerStates, alog' = [alog EXCEPT ![l] = x]
    PROVE  /\ alog' \in [Loggers -> LoggerStates]
           /\ alog'[l] = x /\ \A k \in Loggers : k # l => alog'[k] = alog[k]
           /\ Bufs' = [Bufs EXCEPT ![l] = x.buf]
<1>1. /\ alog' \in [Loggers -> LoggerStates] /\ alog'[l] = x
      /\ \A k \in Loggers : k # l => alog'[k] = alog[k]
  BY DEF LogTypeOK
<1> QED BY <1>1, Zenon DEF Bufs

\* At the start there is no logger and no line.
LEMMA LogInitially == AInit => LogInv
<1> SUFFICES ASSUME AInit PROVE LogInv
  OBVIOUS
<1>1. LogTypeOK /\ \A l \in Loggers : alog[l].buf = <<>>
  <2>1. NoLogger \in LoggerStates
    BY DEF NoLogger, LoggerStates
  <2>2. \A l \in Loggers : alog[l] = NoLogger
    BY DEF AInit
  <2>3. alog \in [Loggers -> LoggerStates]
    BY <2>1 DEF AInit
  <2>4. afiles \in Seq(FileStates) /\ openedFile \in 0..Len(afiles)
    BY DEF AInit
  <2> QED BY <2>2, <2>3, <2>4 DEF LogTypeOK, NoLogger
<1>2. /\ disk = <<>> /\ accepted = {} /\ logged = 0 /\ aged = 0 /\ Len(disk) = 0 /\ disk \in Seq(Nat)
  BY DEF AInit
<1>3. Bufs \in [Loggers -> Seq(Nat)] /\ \A l \in Loggers : Len(Bufs[l]) = 0
  <2>1. <<>> \in Seq(Nat) /\ Len(<<>>) = 0
    OBVIOUS
  <2>2. Bufs = [l \in Loggers |-> <<>>]
    BY <1>1 DEF Bufs
  <2> QED BY <2>1, <2>2
<1>4. InOrder(disk, Bufs, accepted, logged)
  BY <1>2, <1>3, SMTT(30) DEF InOrder
<1> QED BY <1>1, <1>2, <1>4 DEF LogInv, LineState, Accounted

\* A new logger, and one that found its File about to be closed: NewFileIO.
LEMMA NewLoggerKeeps ==
    ASSUME LogInv, NEW l \in Loggers, NewAccessLogger(l)
    PROVE  LogInv'
<1> USE DEF LogInv
<1> DEFINE new == [NoLogger EXCEPT !.at = "loop",
                                   !.file = IF openedFile = 0 THEN Len(afiles) + 1 ELSE openedFile]
<1>1. Len(afiles) \in Nat /\ openedFile \in Nat
  BY DEF LogTypeOK
<1>2. new \in LoggerStates /\ new.buf = <<>> /\ alog[l].buf = <<>>
  <2> DEFINE y == [NoLogger EXCEPT !.at = "loop"]
             g == IF openedFile = 0 THEN Len(afiles) + 1 ELSE openedFile
  <2>1. NoLogger \in LoggerStates /\ NoLogger.buf = <<>>
    BY DEF NoLogger, LoggerStates
  <2>2. y \in LoggerStates /\ y.buf = <<>>
    <3>1. "loop" \in {"none", "loop", "rotate", "ending", "closed"}
      OBVIOUS
    <3> QED BY <2>1, <3>1, LoggerAt, Zenon
  <2>6. g \in Nat
    BY <1>1
  <2>4. new = [y EXCEPT !.file = g]
    OBVIOUS
  <2> HIDE DEF y, g, new
  <2>5. new \in LoggerStates /\ new.buf = <<>>
    BY <2>2, <2>4, <2>6, LoggerFile, Zenon
  <2>3. alog[l].buf = <<>>
    BY DEF NewAccessLogger, Running
  <2> QED BY <2>3, <2>5
<1>3. UNCHANGED <<disk, accepted, failed, logged, aged>>
  BY DEF NewAccessLogger
<1>4. afiles' \in Seq(FileStates) /\ openedFile' \in 0..Len(afiles')
  <2>1. CASE openedFile = 0 /\ afiles' = Append(afiles, [refs |-> 1, at |-> "open"])
             /\ openedFile' = Len(afiles) + 1
    BY <2>1 DEF LogTypeOK, FileStates
  <2>2. CASE openedFile # 0 /\ afiles' = [afiles EXCEPT ![openedFile].refs = @ + 1]
             /\ UNCHANGED openedFile
    <3>1. openedFile \in 1..Len(afiles) /\ afiles[openedFile] \in FileStates
      BY <2>2 DEF LogTypeOK
    <3>2. [afiles[openedFile] EXCEPT !.refs = @ + 1] \in FileStates
      BY <3>1 DEF FileStates
    <3>3. afiles' = [afiles EXCEPT ![openedFile] = [afiles[openedFile] EXCEPT !.refs = @ + 1]]
      BY <2>2
    <3>4. afiles' \in Seq(FileStates) /\ Len(afiles') = Len(afiles)
      BY <3>1, <3>2, <3>3, ExceptSeq DEF LogTypeOK
    <3> QED BY <2>2, <3>4 DEF LogTypeOK
  <2> QED BY <2>1, <2>2, SMTT(30) DEF NewAccessLogger
<1>5. alog' = [alog EXCEPT ![l] = new] \/ alog' = alog
  BY SMTT(30) DEF NewAccessLogger
<1> HIDE DEF new
<1>6. CASE alog' = [alog EXCEPT ![l] = new]
  <2>1. /\ alog' \in [Loggers -> LoggerStates]
        /\ alog'[l] = new /\ \A k \in Loggers : k # l => alog'[k] = alog[k]
        /\ Bufs' = [Bufs EXCEPT ![l] = new.buf]
    BY <1>2, <1>6, LoggerChanges, Zenon
  <2>2. Bufs' = Bufs
    BY <1>2, <2>1, SMTT(30) DEF Bufs
  <2> QED BY <1>2, <1>3, <1>4, <2>1, <2>2, SMTT(30) DEF LogTypeOK
<1>7. CASE alog' = alog
  BY <1>3, <1>4, <1>7, SMTT(30) DEF LogTypeOK, Bufs
<1> QED BY <1>5, <1>6, <1>7

\* closeOnZero touches no logger and no line.
LEMMA CloseOnZeroKeeps ==
    ASSUME LogInv, NEW g \in DOMAIN afiles, CloseOnZero(g)
    PROVE  LogInv'
<1> USE DEF LogInv
<1>1. UNCHANGED <<alog, disk, accepted, failed, logged, aged>>
  BY DEF CloseOnZero
<1>2. g \in 1..Len(afiles) /\ afiles[g] \in FileStates
  BY DEF LogTypeOK
<1>3. PICK at \in {"deleted", "closed"} : afiles' = [afiles EXCEPT ![g].at = at]
  BY DEF CloseOnZero
<1>4. [afiles[g] EXCEPT !.at = at] \in FileStates
  BY <1>2 DEF FileStates
<1>5. afiles' \in Seq(FileStates) /\ Len(afiles') = Len(afiles)
  <2>1. afiles' = [afiles EXCEPT ![g] = [afiles[g] EXCEPT !.at = at]]
    BY <1>3
  <2> QED BY <1>2, <1>4, <2>1, ExceptSeq DEF LogTypeOK
<1>6. openedFile' \in 0..Len(afiles')
  BY <1>5, SMTT(30) DEF CloseOnZero, LogTypeOK
<1> QED BY <1>1, <1>5, <1>6 DEF LogTypeOK, Bufs

\* Flush of a logger that goes on as `at': the lines reach the disk, or they have failed.
LEMMA FlushToKeeps ==
    ASSUME LogInv, NEW l \in Loggers, NEW at \in {"loop", "rotate", "ending"}, FlushTo(l, at),
           UNCHANGED <<afiles, openedFile, accepted, logged, aged>>
    PROVE  LogInv'
<1> USE DEF LogInv
<1> DEFINE x == [Flushed(alog[l]) EXCEPT !.at = at]
<1>1. alog[l] \in LoggerStates /\ alog[l].buf \in Seq(Nat) /\ Bufs[l] = alog[l].buf
  BY DEF LogTypeOK, LoggerStates, Bufs
<1>2. x \in LoggerStates /\ x.buf = <<>> /\ x.at = at
  <2>1. at \in {"none", "loop", "rotate", "ending", "closed"}
    OBVIOUS
  <2>2. Flushed(alog[l]) \in LoggerStates /\ Flushed(alog[l]).buf = <<>>
    BY <1>1, FlushedLogger, Zenon
  <2> QED BY <2>1, <2>2, LoggerAt, Zenon
<1>3. alog' = [alog EXCEPT ![l] = x]
  BY DEF FlushTo
<1> HIDE DEF x
<1>4. /\ alog' \in [Loggers -> LoggerStates]
      /\ alog'[l] = x /\ \A k \in Loggers : k # l => alog'[k] = alog[k]
      /\ Bufs' = [Bufs EXCEPT ![l] = <<>>]
  BY <1>2, <1>3, LoggerChanges, Zenon
<1>5. LineState(disk, Bufs, accepted, failed, logged, aged)'
  <2>1. CASE disk' = disk \o alog[l].buf /\ UNCHANGED failed
    <3>1. LineState(disk \o Bufs[l], [Bufs EXCEPT ![l] = <<>>], accepted, failed, logged, aged)
      BY FlushLines, SMTT(30)
    <3> QED BY <1>1, <1>4, <2>1, <3>1, SMTT(30)
  <2>2. CASE failed' = failed \cup Range(alog[l].buf) /\ UNCHANGED disk
    <3>1. failed \subseteq failed' /\ \A i \in 1..Len(Bufs[l]) : Bufs[l][i] \in failed'
      BY <1>1, <2>2, SMTT(30) DEF Range
    <3>2. LineState(disk, [Bufs EXCEPT ![l] = <<>>], accepted, failed', logged, aged)
      BY <3>1, LoseLines, SMTT(30)
    <3> QED BY <1>4, <2>2, <3>2, SMTT(30)
  <2> QED BY <2>1, <2>2 DEF FlushTo
<1> QED BY <1>2, <1>4, <1>5, SMTT(30) DEF LogTypeOK

\* write: the line is taken by the buffer, or by the buffer after it flushed itself, or it
\* fails with what was in the buffer.
LEMMA WriteKeeps ==
    ASSUME LogInv, NEW l \in Loggers, Write(l)
    PROVE  LogInv'
<1> USE DEF LogInv
<1>1. /\ alog[l] \in LoggerStates /\ alog[l].buf \in Seq(Nat) /\ Bufs[l] = alog[l].buf
      /\ Bufs \in [Loggers -> Seq(Nat)] /\ logged \in Nat
  BY DEF LogTypeOK, LoggerStates, Bufs, LineState, InOrder
<1>2. logged' = logged + 1 /\ UNCHANGED <<afiles, openedFile, aged>>
  BY SMTT(30) DEF Write
<1>3. CASE alog[l].at = "closed" /\ UNCHANGED <<alog, disk, accepted, failed>>
  <2>1. LineState(disk, Bufs, accepted, failed, logged + 1, aged)
    <3>1. InOrder(disk, Bufs, accepted, logged + 1)
      <4>1. \A k \in Loggers : \A y \in Nat : <<k, y>> \in accepted => y <= logged
        BY DEF LineState, InOrder
      <4>2. logged + 1 \in Nat /\ \A k \in Loggers : \A y \in Nat : <<k, y>> \in accepted => y <= logged + 1
        BY <1>1, <4>1, SMTT(30)
      <4> QED BY <4>2, Zenon DEF LineState, InOrder
    <3> QED BY <3>1 DEF LineState
  <2> QED BY <1>2, <1>3, <2>1, SMTT(30) DEF LogTypeOK, Bufs
<1>4. CASE Running(l) /\ accepted' = accepted \cup {<<l, logged'>>}
           /\ alog' = [alog EXCEPT ![l] = Took(alog[l], logged')] /\ UNCHANGED <<disk, failed>>
  <2> DEFINE x == Took(alog[l], logged + 1)
  <2>1. x \in LoggerStates /\ x.buf = Append(Bufs[l], logged + 1) /\ x.at = alog[l].at
    <3>1. logged + 1 \in Nat
      BY <1>1
    <3> QED BY <1>1, <3>1, TookLogger, ZenonT(30)
  <2>2. alog' = [alog EXCEPT ![l] = x]
    BY <1>2, <1>4, SMTT(30)
  <2> HIDE DEF x
  <2>3. /\ alog' \in [Loggers -> LoggerStates]
        /\ alog'[l] = x /\ \A k \in Loggers : k # l => alog'[k] = alog[k]
        /\ Bufs' = [Bufs EXCEPT ![l] = x.buf]
    BY <2>1, <2>2, LoggerChanges, Zenon
  <2>4. LineState(disk, [Bufs EXCEPT ![l] = Append(@, logged + 1)], accepted \cup {<<l, logged + 1>>},
                  failed, logged + 1, aged)
    BY AcceptLine, ZenonT(30)
  <2>5. LineState(disk, Bufs, accepted, failed, logged, aged)'
    BY <1>1, <1>2, <1>4, <2>1, <2>3, <2>4, Zenon
  <2> QED BY <1>2, <1>4, <2>1, <2>3, <2>5 DEF LogTypeOK, Running
<1>5. CASE Running(l) /\ accepted' = accepted \cup {<<l, logged'>>} /\ disk' = disk \o alog[l].buf
           /\ alog' = [alog EXCEPT ![l] = Took(Flushed(alog[l]), logged')]
           /\ UNCHANGED failed
  <2> DEFINE x == Took(Flushed(alog[l]), logged + 1)
             c == [Bufs EXCEPT ![l] = <<>>]
  <2>1. x \in LoggerStates /\ x.buf = Append(<<>>, logged + 1) /\ x.at = alog[l].at
    <3>1. logged + 1 \in Nat
      BY <1>1
    <3>2. /\ Flushed(alog[l]) \in LoggerStates /\ Flushed(alog[l]).buf = <<>>
          /\ Flushed(alog[l]).at = alog[l].at
      BY <1>1, FlushedLogger, Zenon
    <3> QED BY <3>1, <3>2, TookLogger, Zenon
  <2>2. alog' = [alog EXCEPT ![l] = x]
    BY <1>2, <1>5, SMTT(30)
  <2> HIDE DEF x
  <2>3. /\ alog' \in [Loggers -> LoggerStates]
        /\ alog'[l] = x /\ \A k \in Loggers : k # l => alog'[k] = alog[k]
        /\ Bufs' = [Bufs EXCEPT ![l] = x.buf]
    BY <2>1, <2>2, LoggerChanges, Zenon
  <2>4. LineState(disk \o Bufs[l], c, accepted, failed, logged, aged)
    BY FlushLines
  <2>5. [c EXCEPT ![l] = Append(@, logged + 1)] = Bufs'
    BY <1>1, <2>1, <2>3, Zenon
  <2> HIDE DEF c
  <2>6. LineState(disk \o Bufs[l], [c EXCEPT ![l] = Append(@, logged + 1)],
                  accepted \cup {<<l, logged + 1>>}, failed, logged + 1, aged)
    BY <2>4, AcceptLine, Zenon
  <2>7. LineState(disk, Bufs, accepted, failed, logged, aged)'
    BY <1>1, <1>2, <1>5, <2>5, <2>6, Zenon
  <2> QED BY <1>2, <1>5, <2>1, <2>3, <2>7 DEF LogTypeOK, Running
<1>6. CASE Running(l) /\ accepted' = accepted \cup {<<l, logged'>>}
           /\ failed' = failed \cup Range(alog[l].buf) \cup {logged'} /\ UNCHANGED disk
           /\ \E stop \in BOOLEAN : alog' = [alog EXCEPT ![l].buf = <<>>, ![l].done = @ \/ stop]
  <2>1. PICK stop \in BOOLEAN : alog' = [alog EXCEPT ![l].buf = <<>>, ![l].done = @ \/ stop]
    BY <1>6, Zenon
  <2> DEFINE y == [alog[l] EXCEPT !.buf = <<>>]
             done == alog[l].done \/ stop
             x == [y EXCEPT !.done = done]
             c == [Bufs EXCEPT ![l] = Append(@, logged + 1)]
  <2>2. x \in LoggerStates /\ x.buf = <<>>
    <3>1. <<>> \in Seq(Nat)
      OBVIOUS
    <3>2. y \in LoggerStates /\ y.buf = <<>>
      BY <1>1, <3>1, LoggerBuf, Zenon
    <3>3. done \in BOOLEAN
      BY <1>1 DEF LoggerStates
    <3> HIDE DEF y, done
    <3> QED BY <3>2, <3>3, LoggerDone, Zenon
  <2>9. alog' = [alog EXCEPT ![l] = x]
    BY <1>1, <2>1, Zenon DEF LogTypeOK, LoggerStates
  <2> HIDE DEF x
  <2>3. /\ alog' \in [Loggers -> LoggerStates]
        /\ alog'[l] = x /\ \A k \in Loggers : k # l => alog'[k] = alog[k]
        /\ Bufs' = [Bufs EXCEPT ![l] = <<>>]
    BY <2>2, <2>9, LoggerChanges, Zenon
  <2>4. LineState(disk, c, accepted \cup {<<l, logged + 1>>}, failed, logged + 1, aged)
    BY AcceptLine, Zenon
  <2>5. [c EXCEPT ![l] = <<>>] = Bufs' /\ c[l] = Append(alog[l].buf, logged + 1)
    BY <1>1, <2>3, ZenonT(30)
  <2> HIDE DEF c
  <2>6. failed \subseteq failed' /\ \A i \in 1..Len(c[l]) : c[l][i] \in failed'
    BY <1>1, <1>2, <1>6, <2>5, SMTT(30) DEF Range
  <2>7. LineState(disk, [c EXCEPT ![l] = <<>>], accepted \cup {<<l, logged + 1>>}, failed', logged + 1, aged)
    BY <2>4, <2>6, LoseLines
  <2>8. LineState(disk, Bufs, accepted, failed, logged, aged)'
    BY <1>2, <1>6, <2>5, <2>7, ZenonT(30)
  <2> QED BY <1>2, <2>2, <2>3, <2>8 DEF LogTypeOK
<1> QED BY <1>3, <1>4, <1>5, <1>6, SMTT(30) DEF Write

\* rotate rewrites the file with the lines that are kept.
LEMMA RotateFileKeeps ==
    ASSUME LogInv, NEW l \in Loggers, RotateFile(l)
    PROVE  LogInv'
<1> USE DEF LogInv
<1> DEFINE x == [alog[l] EXCEPT !.at = "loop"]
<1>1. alog[l] \in LoggerStates /\ Bufs[l] = alog[l].buf /\ Bufs \in [Loggers -> Seq(Nat)]
  BY Zenon DEF LogTypeOK, LoggerStates, Bufs
<1>2. x \in LoggerStates /\ x.buf = alog[l].buf /\ x.at = "loop"
  <2>1. "loop" \in {"none", "loop", "rotate", "ending", "closed"}
    OBVIOUS
  <2> QED BY <1>1, <2>1, LoggerAt, Zenon
<1>3. /\ alog' = [alog EXCEPT ![l] = x] /\ disk' = KeptLines(disk)
      /\ UNCHANGED <<afiles, openedFile, accepted, failed, logged, aged>>
  BY SMTT(30) DEF RotateFile
<1> HIDE DEF x
<1>4. /\ alog' \in [Loggers -> LoggerStates]
      /\ alog'[l] = x /\ \A k \in Loggers : k # l => alog'[k] = alog[k]
      /\ Bufs' = [Bufs EXCEPT ![l] = x.buf]
  BY <1>2, <1>3, LoggerChanges, ZenonT(30)
<1>5. Bufs' = Bufs
  BY <1>1, <1>2, <1>4, SMTT(30)
<1>6. LineState(KeptLines(disk), Bufs, accepted, failed, logged, aged)
  BY RotateLines, SMTT(30)
<1>7. LineState(disk, Bufs, accepted, failed, logged, aged)'
  BY <1>3, <1>5, <1>6, SMTT(30)
<1> QED BY <1>2, <1>3, <1>4, <1>7, Zenon DEF LogTypeOK

\* The end of a logger's task moves no line.
LEMMA FinishTaskKeeps ==
    ASSUME LogInv, NEW l \in Loggers, FinishTask(l)
    PROVE  LogInv'
<1> USE DEF LogInv
<1> DEFINE x == [alog[l] EXCEPT !.done = TRUE]
<1>1. alog[l] \in LoggerStates /\ Bufs[l] = alog[l].buf /\ Bufs \in [Loggers -> Seq(Nat)]
  BY DEF LogTypeOK, LoggerStates, Bufs
<1>2. x \in LoggerStates /\ x.buf = alog[l].buf /\ x.at = alog[l].at
  <2>1. TRUE \in BOOLEAN
    OBVIOUS
  <2> QED BY <1>1, <2>1, LoggerDone, Zenon
<1>3. /\ alog' = [alog EXCEPT ![l] = x]
      /\ UNCHANGED <<afiles, openedFile, disk, accepted, failed, logged, aged>>
  BY DEF FinishTask
<1> HIDE DEF x
<1>4. /\ alog' \in [Loggers -> LoggerStates]
      /\ alog'[l] = x /\ \A k \in Loggers : k # l => alog'[k] = alog[k]
      /\ Bufs' = [Bufs EXCEPT ![l] = x.buf]
  BY <1>2, <1>3, LoggerChanges, ZenonT(30)
<1>5. Bufs' = Bufs
  BY <1>1, <1>2, <1>4, SMTT(30)
<1> QED BY <1>2, <1>3, <1>4, <1>5, SMTT(30) DEF LogTypeOK

\* Close flushes the last lines before it gives the File up.
LEMMA CloseKeeps ==
    ASSUME LogInv, NEW l \in Loggers, Close(l)
    PROVE  LogInv'
<1> USE DEF LogInv
<1> DEFINE x == [NoLogger EXCEPT !.at = "closed"]
           g == alog[l].file
<1>1. alog[l] \in LoggerStates /\ alog[l].buf \in Seq(Nat) /\ Bufs[l] = alog[l].buf /\ g \in Nat
  BY DEF LogTypeOK, LoggerStates, Bufs
<1>2. x \in LoggerStates /\ x.buf = <<>> /\ x.at = "closed"
  <2>1. NoLogger \in LoggerStates /\ NoLogger.buf = <<>>
    BY DEF NoLogger, LoggerStates
  <2>2. "closed" \in {"none", "loop", "rotate", "ending", "closed"}
    OBVIOUS
  <2> QED BY <2>1, <2>2, LoggerAt, Zenon
<1>3. /\ alog' = [alog EXCEPT ![l] = x] /\ disk' = disk \o alog[l].buf
      /\ afiles' = [afiles EXCEPT ![g] = [afiles[g] EXCEPT !.refs = Sub(afiles[g].refs)]]
      /\ UNCHANGED <<openedFile, accepted, failed, logged, aged>>
  BY DEF Close, LastLines
<1>4. afiles' \in Seq(FileStates) /\ Len(afiles') = Len(afiles)
  <2>1. CASE g \in 1..Len(afiles)
    <3>1. afiles[g] \in FileStates
      BY <2>1 DEF LogTypeOK
    <3>2. [afiles[g] EXCEPT !.refs = Sub(afiles[g].refs)] \in FileStates
      BY <3>1 DEF FileStates, Sub
    <3> QED BY <1>3, <2>1, <3>2, ExceptSeq, SMTT(30) DEF LogTypeOK
  <2>2. CASE g \notin 1..Len(afiles)
    <3>1. afiles' = afiles
      BY <1>3, <2>2 DEF LogTypeOK
    <3> QED BY <3>1 DEF LogTypeOK
  <2> QED BY <2>1, <2>2
<1> HIDE DEF x
<1>5. /\ alog' \in [Loggers -> LoggerStates]
      /\ alog'[l] = x /\ \A k \in Loggers : k # l => alog'[k] = alog[k]
      /\ Bufs' = [Bufs EXCEPT ![l] = <<>>]
  BY <1>2, <1>3, LoggerChanges, Zenon
<1>6. LineState(disk \o Bufs[l], [Bufs EXCEPT ![l] = <<>>], accepted, failed, logged, aged)
  BY FlushLines
<1>7. LineState(disk, Bufs, accepted, failed, logged, aged)'
  BY <1>1, <1>3, <1>5, <1>6
<1>8. LogTypeOK'
  BY <1>3, <1>4, <1>5, SMTT(30) DEF LogTypeOK
<1> QED BY <1>2, <1>5, <1>7, <1>8, SMTT(30)

\* Lines grow old.
LEMMA LinesAgeKeeps ==
    ASSUME LogInv, LinesAge
    PROVE  LogInv'
<1> USE DEF LogInv
<1>1. aged' = logged /\ UNCHANGED <<afiles, openedFile, alog, disk, accepted, failed, logged>>
  BY DEF LinesAge
<1>2. LineState(disk, Bufs, accepted, failed, logged, logged)
  BY AgeLines, SMTT(30)
<1>3. Bufs' = Bufs /\ LogTypeOK'
  BY <1>1 DEF Bufs, LogTypeOK
<1> QED BY <1>1, <1>2, <1>3, SMTT(30)

\* Every step keeps the lines in order and accounted for.
LEMMA LogStep == LogInv /\ [ANext]_alogVars => LogInv'
<1> SUFFICES ASSUME LogInv, [ANext]_alogVars PROVE LogInv'
  OBVIOUS
<1>1. ASSUME NEW l \in Loggers, NewAccessLogger(l) PROVE LogInv'
  BY <1>1, NewLoggerKeeps
<1>2. ASSUME NEW l \in Loggers, Write(l) PROVE LogInv'
  BY <1>2, WriteKeeps, SMTT(30)
<1>3. ASSUME NEW l \in Loggers, AdjustBuffer(l) PROVE LogInv'
  BY <1>3, FlushToKeeps DEF AdjustBuffer
<1>4. ASSUME NEW l \in Loggers, RotateFlush(l) PROVE LogInv'
  BY <1>4, FlushToKeeps, SMTT(30) DEF RotateFlush
<1>5. ASSUME NEW l \in Loggers, RotateFile(l) PROVE LogInv'
  BY <1>5, RotateFileKeeps
<1>6. ASSUME NEW l \in Loggers, FinishTask(l) PROVE LogInv'
  BY <1>6, FinishTaskKeeps
<1>7. ASSUME NEW l \in Loggers, StartDone(l) PROVE LogInv'
  BY <1>7, FlushToKeeps DEF StartDone
<1>8. ASSUME NEW l \in Loggers, Close(l) PROVE LogInv'
  BY <1>8, CloseKeeps
<1>9. ASSUME NEW g \in DOMAIN afiles, CloseOnZero(g) PROVE LogInv'
  BY <1>9, CloseOnZeroKeeps, SMTT(30)
<1>10. CASE LinesAge
  BY <1>10, LinesAgeKeeps
<1>11. CASE UNCHANGED alogVars
  BY <1>11, SMTT(30) DEF alogVars, LogInv, LogTypeOK, Bufs
<1> QED BY <1>1, <1>2, <1>3, <1>4, <1>5, <1>6, <1>7, <1>8, <1>9, <1>10, <1>11, SMTT(30) DEF ANext

\* The access logger's invariant holds of every behaviour.
LEMMA LogCorrect == ASpec => []LogInv
  BY LogInitially, LogStep, PTL DEF ASpec

\* No line within the retention is lost on its way through the buffers, the flushes, the
\* rotations and the closing of the loggers of a path, however many there are.
THEOREM LogLinesAccounted == ASpec => []LinesAccounted
<1>1. LogInv => LinesAccounted
  <2> SUFFICES ASSUME LogInv, NEW p \in accepted
               PROVE  \/ p[2] <= aged
                      \/ p[2] \in failed
                      \/ p[2] \in Range(disk)
                      \/ p[2] \in Range(alog[p[1]].buf)
                      \/ \E q \in accepted : q[1] # p[1] /\ q[2] <= aged
    BY DEF LinesAccounted
  <2>1. /\ disk \in Seq(Nat) /\ accepted \in SUBSET (Loggers \X Nat)
        /\ Accounted(disk, Bufs, accepted, failed, aged)
    BY DEF LogInv, LineState, InOrder
  <2>2. p[1] \in Loggers /\ Bufs[p[1]] = alog[p[1]].buf /\ alog[p[1]].buf \in Seq(Nat)
    BY <2>1 DEF LogInv, LogTypeOK, LoggerStates, Bufs
  <2>3. \A i \in 1..Len(disk) : disk[i] \in Range(disk)
    BY <2>1 DEF Range
  <2>4. \A i \in 1..Len(alog[p[1]].buf) : alog[p[1]].buf[i] \in Range(alog[p[1]].buf)
    BY <2>2 DEF Range
  <2> QED BY <2>1, <2>2, <2>3, <2>4, SMTT(30) DEF Accounted
<1> QED BY <1>1, LogCorrect, PTL
=============================================================================
