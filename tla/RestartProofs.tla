---------------------------- MODULE RestartProofs ----------------------------
(***************************************************************************)
(* Proofs about what is replaced and what is kept: of a reload of the       *)
(* configuration, for any number of reloads and notifiers, nothing but the  *)
(* new state is left; of the metrics, for rings of any size and any number  *)
(* of polls, saves, crashes and starts, the newest are kept.                *)
(***************************************************************************)
EXTENDS ConfigReload, Metrics, WellFoundedInduction, TLAPS

(***************************************************************************)
(* ConfigReload.  Each step of Reload hands the tasks of two states over in *)
(* a fixed order, which Owners records.                                     *)
(***************************************************************************)
\* The state Load leaves behind.
LEMMA IInvInit ==
    ASSUME Init
    PROVE  IInv
<1> USE ReloadAssumption DEF Init, States, NoState
<1>1. panicked \in BOOLEAN
  BY Zenon
<1>2. /\ disp \in [States -> {"off", "running", "closed", "gone"}]
      /\ task \in [States -> {"new", "running", "cancelled", "finished"}]
      /\ queue \in [States -> 0..QueueCap]
  OBVIOUS
<1>3. /\ caller \in [Callers -> {"idle", "called", "select", "send"}]
      /\ logCh \in [Callers -> States \cup {NoState}]
      /\ \A n \in Callers : caller[n] = "send" => logCh[n] # NoState
  OBVIOUS
<1>4. TypeOK
  BY <1>1, <1>2, <1>3 DEF TypeOK
<1>5. OneProxy /\ Owners
  BY DEF OneProxy, Owners, Owner, Replacing
<1> QED
  BY <1>4, <1>5 DEF IInv

\* A new state is none of those there are, the active one least of all.
LEMMA LoadNext ==
    ASSUME IInv, ParseFails \/ InitState
    PROVE  IInv'
<1> USE ReloadAssumption DEF States, NoState
<1>1. /\ loading + 1 \in States /\ loading' = loading + 1
      /\ active' = active /\ proxy' = proxy /\ active # loading + 1
      /\ reload = "idle"
  BY DEF IInv, TypeOK, Owners, ParseFails, InitState
<1>2. task' \in [States -> {"new", "running", "cancelled", "finished"}]
  BY <1>1, Zenon DEF IInv, TypeOK, ParseFails, InitState
<1>3. disp' \in [States -> {"off", "running", "closed", "gone"}]
  BY <1>1 DEF IInv, TypeOK, ParseFails, InitState, dispVars
<1>4. dispatcher' \in States \cup {NoState}
  BY <1>1, Zenon DEF IInv, TypeOK, ParseFails, InitState, dispVars
<1>5. panicked' \in BOOLEAN
  BY DEF IInv, TypeOK, ParseFails, InitState
<1>6. TypeOK'
  BY <1>1, <1>2, <1>3, <1>4, <1>5, Zenon
     DEF IInv, TypeOK, ParseFails, InitState, Goto, dispVars, notifyVars
<1>7. OneProxy'
  BY <1>1 DEF IInv, OneProxy
<1>8. ASSUME NEW s \in States
      PROVE  /\ (task[s] = "running" <=> s = Owner)'
             /\ (disp[s] = "running" => s = active \/ (Replacing /\ s = loading))'
  <2>1. /\ task[s] = "running" <=> s = active
        /\ disp[s] = "running" => s = active
    BY <1>1 DEF IInv, Owners, Owner, Replacing
  <2>2. CASE ParseFails
    BY <1>1, <2>1, <2>2 DEF ParseFails, Goto, dispVars, Owner, IInv, TypeOK
  <2>3. CASE InitState
    <3>1. (disp[s] = "running" => s = active \/ (Replacing /\ s = loading))'
      BY <1>1, <2>1, <2>3 DEF InitState, Goto, Replacing, IInv, TypeOK
    <3>2. (task[s] = "running" <=> s = Owner)'
      BY <1>1, <2>1, <2>3 DEF InitState, Goto, Owner, IInv, TypeOK
    <3> QED
      BY <3>1, <3>2
  <2> QED
    BY <2>2, <2>3
<1> QED
  BY <1>1, <1>6, <1>7, <1>8 DEF IInv, TypeOK, Owners

\* FinishAndWait returns when the state has no dispatcher and no server left, so
\* the other one can take over.
LEMMA ReloadKeeps ==
    ASSUME IInv, ReloadNext
    PROVE  IInv'
<1> USE ReloadAssumption DEF States, NoState
<1>1. CASE DropNew
  <2>1. /\ task' \in [States -> {"new", "running", "cancelled", "finished"}]
        /\ caller' \in [Callers -> {"idle", "called", "select", "send"}]
    BY <1>1, Zenon DEF DropNew, IInv, TypeOK
  <2>2. panicked' \in BOOLEAN
    BY <1>1 DEF DropNew, IInv, TypeOK
  <2>3. TypeOK'
    BY <1>1, <2>1, <2>2 DEF DropNew, Goto, dispVars, IInv, TypeOK
  <2>4. OneProxy' /\ Owners'
    BY <1>1 DEF DropNew, Goto, dispVars, Finished, IInv, TypeOK, OneProxy, Owners, Owner,
       Replacing
  <2> QED
    BY <2>3, <2>4 DEF IInv
<1>2. CASE DropOld
  <2>1. task' \in [States -> {"new", "running", "cancelled", "finished"}]
    BY <1>2 DEF DropOld, IInv, TypeOK
  <2>2. panicked' \in BOOLEAN
    BY <1>2 DEF DropOld, IInv, TypeOK
  <2>3. TypeOK'
    BY <1>2, <2>1, <2>2 DEF DropOld, Goto, dispVars, notifyVars, IInv, TypeOK
  <2>4. OneProxy'
    BY <1>2 DEF DropOld, Finished, IInv, OneProxy
  <2>5. Owners'
    BY <1>2 DEF DropOld, Goto, dispVars, Finished, IInv, TypeOK, Owners, Owner, Replacing
  <2> QED
    BY <2>3, <2>4, <2>5 DEF IInv
<1>3. CASE StartProviders
  <2>1. panicked' \in BOOLEAN
    BY <1>3 DEF StartProviders, IInv, TypeOK
  <2>2. TypeOK'
    BY <1>3, <2>1 DEF StartProviders, Goto, dispVars, notifyVars, IInv, TypeOK
  <2>3. OneProxy' /\ Owners'
    BY <1>3 DEF StartProviders, Goto, dispVars, IInv, TypeOK, OneProxy, Owners, Owner,
       Replacing
  <2> QED
    BY <2>2, <2>3 DEF IInv
<1>4. CASE StartProvidersFails \/ ReloadReturns
  <2>1. panicked' \in BOOLEAN
    BY <1>4 DEF StartProvidersFails, ReloadReturns, IInv, TypeOK
  <2>2. caller' \in [Callers -> {"idle", "called", "select", "send"}]
    BY <1>4 DEF StartProvidersFails, ReloadReturns, notifyVars, IInv, TypeOK
  <2>3. TypeOK'
    BY <1>4, <2>1, <2>2, Zenon DEF StartProvidersFails, ReloadReturns, Goto, dispVars,
       notifyVars, IInv, TypeOK
  <2>4. OneProxy' /\ Owners'
    BY <1>4, Zenon DEF StartProvidersFails, ReloadReturns, Goto, dispVars, IInv, TypeOK, OneProxy,
       Owners, Owner, Replacing
  <2> QED
    BY <2>3, <2>4 DEF IInv
<1> QED
  BY <1>1, <1>2, <1>3, <1>4 DEF ReloadNext

\* The goroutines of a state only take away from what runs.
LEMMA StateKeeps ==
    ASSUME IInv, NEW s \in States, StateNext(s)
    PROVE  IInv'
<1> USE ReloadAssumption
<1>1. panicked' \in BOOLEAN
  BY DEF IInv, TypeOK, StateNext, ServerStops, Receive, CloseCh, ClearDispatcher
<1>2. queue' \in [States -> 0..QueueCap]
  <2>1. queue \in [States -> 0..QueueCap]
    BY DEF IInv, TypeOK
  <2>2. queue' = queue \/ (queue[s] > 0 /\ queue' = [queue EXCEPT ![s] = queue[s] - 1])
    BY DEF StateNext, ServerStops, Receive, CloseCh, ClearDispatcher, dispVars
  <2>3. queue[s] > 0 => queue[s] - 1 \in 0..QueueCap
    BY <2>1
  <2> QED
    BY <2>1, <2>2, <2>3
<1>3. disp' \in [States -> {"off", "running", "closed", "gone"}]
  BY DEF IInv, TypeOK, StateNext, ServerStops, Receive, CloseCh, ClearDispatcher, dispVars
<1>4. /\ proxy' \subseteq proxy
      /\ dispatcher' \in {dispatcher, NoState}
      /\ UNCHANGED <<notif, active, task, reload, loading, notifyVars>>
  BY DEF StateNext, ServerStops, Receive, CloseCh, ClearDispatcher, dispVars
<1>5. TypeOK'
  BY <1>1, <1>2, <1>3, <1>4 DEF IInv, TypeOK, notifyVars
<1>6. OneProxy'
  BY <1>4 DEF IInv, OneProxy
<1>7. \A t \in States : disp'[t] = "running" => disp[t] = "running"
  BY DEF IInv, TypeOK, StateNext, ServerStops, Receive, CloseCh, ClearDispatcher, dispVars
<1>8. Owners'
  BY <1>4, <1>7 DEF IInv, Owners, Owner, Replacing
<1> QED
  BY <1>5, <1>6, <1>8 DEF IInv

\* A caller of Notify changes a channel's length and nothing of the states; it
\* sends only to a channel it has read from the package variable.
LEMMA CallerKeeps ==
    ASSUME IInv, NEW n \in Callers, Notify(n) \/ CallerNext(n)
    PROVE  IInv'
<1> USE ReloadAssumption
<1>1. UNCHANGED rest
  BY DEF Notify, CallerNext, CheckNil, CheckDone, SendLog, SendClosed
<1>2. panicked' \in BOOLEAN
  BY Zenon DEF IInv, TypeOK, Notify, CallerNext, CheckNil, CheckDone, SendLog, SendClosed, Panic
<1>3. PICK pc \in {"idle", "called", "select", "send"} : Step(n, pc)
  BY DEF Notify, CallerNext, CheckNil, CheckDone, SendLog, SendClosed, Panic
<1>4. caller' \in [Callers -> {"idle", "called", "select", "send"}]
  BY <1>3 DEF IInv, TypeOK, Step
<1>5. logCh' \in [Callers -> States \cup {NoState}]
  BY DEF IInv, TypeOK, Notify, CallerNext, CheckNil, CheckDone, SendLog, SendClosed, Panic
<1>6. \A m \in Callers : caller'[m] = "send" => logCh'[m] # NoState
  BY DEF IInv, TypeOK, Notify, CallerNext, CheckNil, CheckDone, SendLog, SendClosed, Panic, Step
<1>7. queue' \in [States -> 0..QueueCap]
  <2>1. queue \in [States -> 0..QueueCap]
    BY DEF IInv, TypeOK
  <2>2. CASE SendLog(n)
    <3>1. logCh[n] \in States
      BY <2>2 DEF IInv, TypeOK, SendLog
    <3>2. queue[logCh[n]] + 1 \in 0..QueueCap
      BY <2>1, <2>2, <3>1 DEF SendLog
    <3> QED
      BY <2>1, <2>2, <3>1, <3>2 DEF SendLog
  <2>3. CASE ~SendLog(n)
    BY <2>1, <2>3 DEF Notify, CallerNext, CheckNil, CheckDone, SendClosed
  <2> QED
    BY <2>2, <2>3
<1>8. TypeOK'
  BY <1>1, <1>2, <1>4, <1>5, <1>6, <1>7 DEF IInv, TypeOK, rest
<1>9. OneProxy' /\ Owners'
  BY <1>1 DEF IInv, OneProxy, Owners, Owner, Replacing, rest
<1> QED
  BY <1>8, <1>9 DEF IInv

\* IInv is inductive.
LEMMA IInvNext ==
    ASSUME IInv, [Next]_vars
    PROVE  IInv'
<1>1. CASE UNCHANGED vars
  <2>1. panicked' \in BOOLEAN
    BY <1>1 DEF IInv, TypeOK, vars
  <2>2. TypeOK'
    BY <1>1, <2>1 DEF IInv, TypeOK, vars
  <2>3. OneProxy' /\ Owners'
    BY <1>1 DEF IInv, OneProxy, Owners, Owner, Replacing, vars
  <2> QED
    BY <2>2, <2>3 DEF IInv
<1>2. CASE ParseFails \/ InitState
  BY <1>2, LoadNext
<1>3. CASE ReloadNext
  BY <1>3, ReloadKeeps
<1>4. CASE \E s \in States : StateNext(s)
  BY <1>4, StateKeeps
<1>5. CASE \E n \in Callers : Notify(n) \/ CallerNext(n)
  BY <1>5, CallerKeeps
<1> QED
  BY <1>1, <1>2, <1>3, <1>4, <1>5 DEF Next

\* The types of events.go, state.go and dispatcher.go hold; in particular no
\* channel holds more than QueueCap messages.
THEOREM ReloadTypeCorrect == Spec => []TypeOK
<1>1. IInv => TypeOK
  BY DEF IInv
<1> QED
  BY <1>1, IInvInit, IInvNext, PTL DEF Spec

\* Only the active state ever has proxy servers: Reload waits for the old ones.
THEOREM ReloadOneProxy == Spec => []OneProxy
<1>1. IInv => OneProxy
  BY DEF IInv
<1> QED
  BY <1>1, IInvInit, IInvNext, PTL DEF Spec

\* Between reloads no state but the active one has a task or a dispatcher,
\* however many reloads failed in whichever way.
THEOREM ReloadNoOrphans == Spec => []NoOrphans
<1>1. IInv => NoOrphans
  BY DEF IInv, Owners, Owner, Replacing, NoOrphans
<1> QED
  BY <1>1, IInvInit, IInvNext, PTL DEF Spec

(***************************************************************************)
(* Metrics.  A ring is read from its oldest entry, so what it holds is said *)
(* relative to that place.  The file is what the rings held when it was     *)
(* saved, and a start adds it to new rings, so a ring holds the newest of   *)
(* all results the file or the memory has kept.                             *)
(***************************************************************************)
EntryStates ==
    [entries : [0 .. MaxEntries - 1 -> Nat], index : 0 .. MaxEntries - 1, count : 0 .. MaxEntries,
     interval : Int, lastAdd : Int]

\* The ring e holds the newest of the results s, oldest first from where Get starts to read.
Ring(e, s) ==
    /\ e \in EntryStates /\ s \in Seq(Nat)
    /\ e.count = IF Len(s) < MaxEntries THEN Len(s) ELSE MaxEntries
    /\ e.count < MaxEntries => e.index = e.count
    /\ \A i \in 1 .. e.count : e.entries[(Oldest(e) + i - 1) % MaxEntries] = s[Len(s) - e.count + i]

\* The remainder by MaxEntries of a place up to once around the ring.
LEMMA AroundTheRing ==
    ASSUME NEW x \in Nat
    PROVE  /\ x < MaxEntries => x % MaxEntries = x
           /\ MaxEntries <= x /\ x < MaxEntries + MaxEntries => x % MaxEntries = x - MaxEntries
<1>1. MaxEntries \in Nat \ {0}
  BY MetricsAssumption
<1>2. ASSUME x < MaxEntries PROVE x % MaxEntries = x
  BY <1>1, <1>2
<1>3. ASSUME MaxEntries <= x, x < MaxEntries + MaxEntries PROVE x % MaxEntries = x - MaxEntries
  BY <1>1, <1>3
<1> QED BY <1>2, <1>3

\* addWithTime puts a result behind the others, and in the place of the oldest of a full ring.
LEMMA AddToRing ==
    ASSUME NEW e, NEW s, Ring(e, s), NEW t \in Int, NEW x \in Nat
    PROVE  Ring(AddWithTime(e, t, x), Append(s, x))
<1> DEFINE d == AddWithTime(e, t, x)
           r == Append(s, x)
           M == MaxEntries
<1>1. M \in Nat /\ M > 0
  BY MetricsAssumption
<1>2. /\ e \in EntryStates /\ s \in Seq(Nat) /\ e.index \in 0 .. M - 1 /\ e.count \in 0 .. M
      /\ e.entries \in [0 .. M - 1 -> Nat]
  BY DEF Ring, EntryStates
<1>3. r \in Seq(Nat) /\ Len(r) = Len(s) + 1 /\ Len(s) \in Nat /\ r[Len(s) + 1] = x
      /\ \A i \in 1 .. Len(s) : r[i] = s[i]
  BY <1>2
<1>4. (e.index + 1) % M \in 0 .. M - 1
  BY <1>1, <1>2
<1>5. /\ d.entries = [e.entries EXCEPT ![e.index] = x] /\ d.index = (e.index + 1) % M
      /\ d.count = IF e.count < M THEN e.count + 1 ELSE e.count
      /\ d \in EntryStates
  <2>1. (IF e.count < M THEN e.count + 1 ELSE e.count) \in 0 .. M
    BY <1>1, <1>2, SMTT(30)
  <2>2. [e.entries EXCEPT ![e.index] = x] \in [0 .. M - 1 -> Nat]
    BY <1>2
  <2> QED BY <1>2, <1>4, <2>1, <2>2, Zenon DEF AddWithTime, EntryStates
<1> HIDE DEF d, r
<1>6. d.count = IF Len(r) < M THEN Len(r) ELSE M
  BY <1>1, <1>2, <1>3, <1>5 DEF Ring
<1>7. d.count < M => d.index = d.count
  <2> SUFFICES ASSUME d.count < M PROVE d.index = d.count
    OBVIOUS
  <2>1. e.count < M /\ e.index = e.count /\ d.count = e.count + 1
    BY <1>1, <1>2, <1>5 DEF Ring
  <2>2. (e.index + 1) % M = e.index + 1
    <3>1. PICK j \in Nat : j = e.index + 1 /\ j < M
      BY <1>1, <1>2, <1>5, <2>1
    <3>2. j % M = j
      BY <3>1, AroundTheRing
    <3> QED BY <3>1, <3>2
  <2> QED BY <1>5, <2>1, <2>2
<1>8. ASSUME NEW i \in 1 .. d.count
      PROVE  d.entries[(Oldest(d) + i - 1) % M] = r[Len(r) - d.count + i]
  <2>0. i \in Nat /\ i >= 1 /\ i <= d.count /\ d.count \in Nat /\ d.count <= M
    <3>1. d.count \in 0 .. M
      BY <1>5 DEF EntryStates
    <3> QED BY <1>1, <1>8, <3>1
  <2>1. CASE e.count < M
    <3>1. e.index = e.count /\ d.count = e.count + 1 /\ Oldest(e) = 0 /\ Len(s) = e.count
      BY <1>1, <1>2, <1>3, <1>5, <2>1 DEF Ring, Oldest
    <3>2. Oldest(d) = 0
      <4>1. CASE d.count < M
        BY <4>1 DEF Oldest
      <4>2. CASE d.count = M
        <5>1. e.index + 1 = M
          BY <3>1, <4>2
        <5>2. M % M = 0
          BY <1>1, AroundTheRing
        <5> QED BY <1>5, <4>2, <5>1, <5>2, <1>1 DEF Oldest
      <4> QED BY <2>0, <1>1, <4>1, <4>2
    <3>3. (0 + i - 1) % M = i - 1
      <4>1. i - 1 \in Nat /\ i - 1 < M /\ 0 + i - 1 = i - 1
        BY <1>1, <2>0
      <4> QED BY <4>1, AroundTheRing
    <3>4. CASE i = d.count
      <4>1. d.entries[e.index] = x
        BY <1>2, <1>5, Zenon
      <4>2. i - 1 = e.index /\ Len(r) - d.count + i = Len(s) + 1
        BY <1>2, <1>3, <2>0, <3>1, <3>4
      <4>3. (Oldest(d) + i - 1) % M = i - 1
        BY <3>2, <3>3
      <4> QED BY <1>3, <4>1, <4>2, <4>3
    <3>5. CASE i < d.count
      <4>1. i \in 1 .. e.count /\ i - 1 \in 0 .. M - 1 /\ i - 1 # e.index
        BY <1>1, <1>2, <2>0, <3>1, <3>5, SMTT(30)
      <4>2. e.entries[i - 1] = s[i]
        <5>1. e.entries[(Oldest(e) + i - 1) % M] = s[Len(s) - e.count + i]
          BY <4>1 DEF Ring
        <5>2. Len(s) - e.count + i = i
          BY <1>2, <1>3, <2>0, <3>1
        <5> QED BY <3>1, <3>3, <5>1, <5>2
      <4>3. d.entries[i - 1] = e.entries[i - 1]
        BY <1>2, <1>5, <4>1
      <4>4. r[Len(r) - d.count + i] = s[i]
        <5>1. Len(r) - d.count + i = i /\ i \in 1 .. Len(s)
          BY <1>2, <1>3, <2>0, <3>1, <4>1
        <5> QED BY <1>3, <5>1, SMTT(30)
      <4>5. (Oldest(d) + i - 1) % M = i - 1
        BY <3>2, <3>3
      <4> QED BY <4>2, <4>3, <4>4, <4>5, Zenon
    <3>6. i = d.count \/ i < d.count
      BY <2>0
    <3> QED BY <3>4, <3>5, <3>6, Zenon
  <2>2. CASE e.count = M
    <3>1. d.count = M /\ Oldest(e) = e.index /\ Oldest(d) = (e.index + 1) % M /\ Len(s) >= M
      BY <1>1, <1>2, <1>3, <1>5, <2>2, SMTT(30) DEF Ring, Oldest
    <3> DEFINE k == e.index
    <3>2. k \in Nat /\ k < M
      BY <1>1, <1>2
    <3>3. (k + 1) % M = IF k + 1 < M THEN k + 1 ELSE 0
      <4>1. CASE k + 1 < M
        BY <3>2, <4>1, AroundTheRing
      <4>2. CASE k + 1 = M
        <5>1. M % M = 0
          BY <1>1, AroundTheRing
        <5> QED BY <1>1, <4>2, <5>1
      <4> QED BY <1>1, <3>2, <4>1, <4>2
    <3> DEFINE o == (k + 1) % M
    <3>4. o \in Nat /\ o < M /\ o + i - 1 \in Nat /\ o + i - 1 < M + M
      BY <1>1, <2>0, <3>1, <3>2, <3>3, SMTT(30)
    <3>5. CASE i = M
      <4>1. (o + i - 1) % M = k
        <5>1. CASE k + 1 < M
          <6>1. o + i - 1 = k + M
            BY <1>1, <3>2, <3>3, <3>5, <5>1
          <6>2. (k + M) % M = k
            BY <1>1, <3>2, AroundTheRing
          <6> QED BY <6>1, <6>2
        <5>2. CASE k + 1 = M
          <6>1. o + i - 1 = k
            BY <1>1, <3>2, <3>3, <3>5, <5>2
          <6>2. k % M = k
            BY <3>2, AroundTheRing
          <6> QED BY <6>1, <6>2
        <5> QED BY <1>1, <3>2, <5>1, <5>2
      <4>2. d.entries[k] = x
        BY <1>2, <1>5, Zenon
      <4>3. Len(r) - d.count + i = Len(s) + 1
        BY <1>1, <1>3, <3>1, <3>5
      <4> QED BY <1>3, <3>1, <4>1, <4>2, <4>3
    <3>6. CASE i < M
      <4>1. (o + i - 1) % M = (k + (i + 1) - 1) % M
        <5>1. CASE k + 1 < M
          <6>1. o + i - 1 = k + (i + 1) - 1
            BY <1>1, <2>0, <3>2, <3>3, <5>1
          <6> QED BY <6>1
        <5>2. CASE k + 1 = M
          <6>1. o + i - 1 = i - 1 /\ i - 1 \in Nat /\ i - 1 < M
            BY <1>1, <2>0, <3>2, <3>3, <3>6, <5>2
          <6>2. PICK j \in Nat : j = k + (i + 1) - 1 /\ M <= j /\ j < M + M /\ j - M = i - 1
            BY <1>1, <2>0, <3>2, <3>6, <5>2
          <6>3. (i - 1) % M = i - 1
            BY <6>1, AroundTheRing
          <6>4. j % M = j - M
            BY <6>2, AroundTheRing
          <6>5. (k + (i + 1) - 1) % M = j % M
            BY <6>2, Zenon
          <6>6. (o + i - 1) % M = (i - 1) % M
            BY <6>1, Zenon
          <6> QED BY <6>2, <6>3, <6>4, <6>5, <6>6
        <5> QED BY <1>1, <3>2, <5>1, <5>2
      <4>2. e.entries[(k + (i + 1) - 1) % M] = s[Len(s) - M + (i + 1)]
        <5>1. i + 1 \in 1 .. e.count
          BY <1>1, <2>0, <2>2, <3>6
        <5> QED BY <2>2, <3>1, <5>1, SMTT(30) DEF Ring
      <4>3. (o + i - 1) % M \in 0 .. M - 1 /\ (o + i - 1) % M # k
        <5>1. CASE o + i - 1 < M
          <6>1. (o + i - 1) % M = o + i - 1
            BY <3>4, <5>1, AroundTheRing
          <6>2. o + i - 1 # k
            BY <1>1, <2>0, <3>2, <3>3, <3>6
          <6> QED BY <1>1, <3>4, <5>1, <6>1, <6>2
        <5>2. CASE M <= o + i - 1
          <6>1. PICK j \in Nat : j = o + i - 1 /\ M <= j /\ j < M + M
            BY <3>4, <5>2
          <6>2. j % M = j - M
            BY <6>1, AroundTheRing
          <6>3. j - M # k /\ j - M \in 0 .. M - 1
            BY <1>1, <2>0, <3>2, <3>3, <3>6, <6>1
          <6>4. (o + i - 1) % M = j % M
            BY <6>1, Zenon
          <6> QED BY <6>2, <6>3, <6>4, Zenon
        <5> QED BY <1>1, <3>4, <5>1, <5>2
      <4>4. d.entries[(o + i - 1) % M] = e.entries[(o + i - 1) % M]
        BY <1>2, <1>5, <4>3
      <4>5. r[Len(r) - d.count + i] = s[Len(s) - M + (i + 1)]
        <5>1. Len(r) - d.count + i = Len(s) - M + (i + 1)
          BY <1>1, <1>3, <2>0, <3>1
        <5>2. Len(s) - M + (i + 1) \in 1 .. Len(s)
          BY <1>1, <1>3, <2>0, <3>1, <3>6
        <5> QED BY <1>3, <5>1, <5>2
      <4>6. (Oldest(d) + i - 1) % M = (o + i - 1) % M
        BY <3>1
      <4> QED BY <4>1, <4>2, <4>4, <4>5, <4>6, Zenon
    <3>7. i = M \/ i < M
      BY <1>1, <2>0
    <3> QED BY <3>5, <3>6, <3>7, Zenon
  <2>3. e.count < M \/ e.count = M
    BY <1>1, <1>2
  <2> QED BY <2>1, <2>2, <2>3, Zenon
<1>9. \A i \in 1 .. d.count : d.entries[(Oldest(d) + i - 1) % M] = r[Len(r) - d.count + i]
  BY <1>8
<1>10. Ring(d, r)
  BY <1>3, <1>5, <1>6, <1>7, <1>9 DEF Ring
<1> QED BY <1>10 DEF d, r

\* Induction over the numbers, as a property of sets of them.
LEMMA SetInduction ==
    ASSUME NEW S, S \subseteq Nat, 0 \in S, \A n \in S : n + 1 \in S
    PROVE  \A n \in Nat : n \in S
<1> SUFFICES ASSUME NEW m \in Nat, m \notin S PROVE FALSE
  OBVIOUS
<1> DEFINE T == Nat \ S
<1>1. PICK k \in T : \A y \in T : <<y, k>> \notin OpToRel(<, Nat)
  <2>1. T \subseteq Nat /\ T # {}
    OBVIOUS
  <2> HIDE DEF T
  <2> QED BY <2>1, NatLessThanWellFounded, WFMin, Zenon
<1>2. k \in Nat /\ k # 0 /\ k - 1 \in Nat
  OBVIOUS
<1>3. <<k - 1, k>> \in OpToRel(<, Nat)
  BY <1>2 DEF OpToRel
<1>4. k - 1 \in S
  BY <1>1, <1>2, <1>3
<1>5. (k - 1) + 1 \in S
  BY <1>4
<1> QED BY <1>2, <1>5

\* What Newest keeps of a sequence: its last MaxEntries elements.
LEMMA NewestOf ==
    ASSUME NEW s \in Seq(Nat)
    PROVE  /\ Newest(s) \in Seq(Nat)
           /\ Len(Newest(s)) = IF Len(s) < MaxEntries THEN Len(s) ELSE MaxEntries
           /\ \A i \in 1 .. Len(Newest(s)) : Newest(s)[i] = s[Len(s) - Len(Newest(s)) + i]
<1>1. MaxEntries \in Nat /\ MaxEntries > 0 /\ Len(s) \in Nat
  BY MetricsAssumption
<1>2. CASE Len(s) <= MaxEntries
  BY <1>1, <1>2 DEF Newest
<1>3. CASE MaxEntries < Len(s)
  <2> DEFINE a == Len(s) - MaxEntries + 1
  <2>1. Newest(s) = SubSeq(s, a, Len(s))
    BY <1>1, <1>3 DEF Newest
  <2>2. a \in 1 .. Len(s) /\ Len(s) - a + 1 = MaxEntries
    BY <1>1, <1>3
  <2>3. SubSeq(s, a, Len(s)) \in Seq(Nat) /\ Len(SubSeq(s, a, Len(s))) = MaxEntries
    BY <1>1, <2>2
  <2>4. ASSUME NEW i \in 1 .. MaxEntries PROVE SubSeq(s, a, Len(s))[i] = s[Len(s) - MaxEntries + i]
    BY <1>1, <1>3
  <2> HIDE DEF a
  <2>5. Newest(s) \in Seq(Nat) /\ Len(Newest(s)) = MaxEntries
    BY <2>1, <2>3, Zenon
  <2>6. \A i \in 1 .. Len(Newest(s)) : Newest(s)[i] = s[Len(s) - Len(Newest(s)) + i]
    BY <2>1, <2>4, <2>5, Zenon
  <2>7. ~(Len(s) < MaxEntries)
    BY <1>1, <1>3
  <2> QED BY <2>5, <2>6, <2>7
<1> QED BY <1>1, <1>2, <1>3

\* What Get reads from a ring that holds the newest of s.
LEMMA RingRead ==
    ASSUME NEW e, NEW s, Ring(e, s)
    PROVE  Get(e) = Newest(s)
<1>1. s \in Seq(Nat) /\ e.count \in Nat
  BY MetricsAssumption DEF Ring, EntryStates
<1>2. Newest(s) \in Seq(Nat) /\ Len(Newest(s)) = e.count
  BY <1>1, NewestOf DEF Ring
<1>3. Newest(s) = [i \in 1 .. e.count |-> Newest(s)[i]]
  BY <1>2
<1>4. ASSUME NEW i \in 1 .. e.count
      PROVE  Newest(s)[i] = e.entries[(Oldest(e) + i - 1) % MaxEntries]
  <2>1. Newest(s)[i] = s[Len(s) - e.count + i]
    BY <1>1, <1>2, NewestOf, Zenon
  <2> QED BY <2>1 DEF Ring
<1> QED BY <1>3, <1>4, Zenon DEF Get

\* A ring that holds what was kept of s holds the newest of s.
LEMMA RingOfNewest ==
    ASSUME NEW e, NEW s \in Seq(Nat), Ring(e, Newest(s))
    PROVE  Ring(e, s)
<1> DEFINE w == Newest(s)
<1>1. MaxEntries \in Nat /\ MaxEntries > 0 /\ Len(s) \in Nat
  BY MetricsAssumption
<1>2. w \in Seq(Nat) /\ Len(w) = IF Len(s) < MaxEntries THEN Len(s) ELSE MaxEntries
  BY NewestOf
<1>3. e.count = Len(w) /\ e.count \in Nat
  BY <1>1, <1>2 DEF Ring
<1>4. ASSUME NEW i \in 1 .. e.count
      PROVE  e.entries[(Oldest(e) + i - 1) % MaxEntries] = s[Len(s) - e.count + i]
  <2>1. e.entries[(Oldest(e) + i - 1) % MaxEntries] = w[Len(w) - e.count + i]
    BY DEF Ring
  <2>2. Len(w) - e.count + i = i
    BY <1>3
  <2>3. w[i] = s[Len(s) - e.count + i]
    BY <1>3, NewestOf
  <2> QED BY <2>1, <2>2, <2>3
<1>5. e.count = IF Len(s) < MaxEntries THEN Len(s) ELSE MaxEntries
  BY <1>2, <1>3
<1>6. e \in EntryStates /\ (e.count < MaxEntries => e.index = e.count)
  BY DEF Ring
<1> QED BY <1>4, <1>5, <1>6, Zenon DEF Ring

\* UnmarshalJSON's additions, oldest first: an empty ring comes to hold the newest of them,
\* and the last is added as of now.
LEMMA AddAllToRing ==
    ASSUME NEW e, Ring(e, <<>>), NEW infos \in Seq(Nat), now \in Int
    PROVE  /\ Ring(AddAll(e, infos), infos)
           /\ infos # <<>> => AddAll(e, infos).lastAdd = now
<1> DEFINE L == Len(infos)
           Due(n) == now - (L - n) * e.interval
           Eq(g, m) == g = [n \in 0 .. m |-> IF n = 0 THEN e ELSE AddWithTime(g[n - 1], Due(n), infos[n])]
           u == CHOOSE g : Eq(g, L)
<1>1. L \in Nat /\ e.interval \in Int /\ \A n \in 1 .. L : infos[n] \in Nat
  BY DEF Ring, EntryStates
<1>2. ASSUME NEW n \in Nat PROVE Due(n) \in Int
  BY <1>1
<1> HIDE DEF Due, L
<1>3. \A m \in Nat : \E g : Eq(g, m)
  <2> DEFINE S == {m \in Nat : \E g : Eq(g, m)}
  <2>1. 0 \in S
    <3>1. Eq([n \in 0 .. 0 |-> e], 0)
      OBVIOUS
    <3> QED BY <3>1, Zenon
  <2>2. ASSUME NEW m \in S PROVE m + 1 \in S
    <3>1. m \in Nat /\ m + 1 \in Nat
      OBVIOUS
    <3>2. PICK g : Eq(g, m)
      OBVIOUS
    <3> DEFINE h == [n \in 0 .. m + 1 |-> IF n = m + 1 THEN AddWithTime(g[m], Due(m + 1), infos[m + 1]) ELSE g[n]]
    <3>3. ASSUME NEW n \in 0 .. m + 1
          PROVE  h[n] = IF n = 0 THEN e ELSE AddWithTime(h[n - 1], Due(n), infos[n])
      <4>1. CASE n = m + 1
        <5>1. n # 0 /\ n - 1 = m /\ m \in 0 .. m + 1 /\ m # m + 1
          BY <3>1, <4>1
        <5>2. h[m] = g[m]
          BY <5>1
        <5> HIDE DEF h
        <5> QED BY <4>1, <5>1, <5>2 DEF h
      <4>2. CASE n = 0
        <5>1. 0 \in 0 .. m /\ 0 # m + 1
          BY <3>1
        <5> QED BY <3>2, <4>2, <5>1
      <4>3. CASE n # 0 /\ n # m + 1
        <5>1. n \in 0 .. m /\ n - 1 \in 0 .. m + 1 /\ n - 1 # m + 1
          BY <3>1, <4>3
        <5>2. h[n] = g[n] /\ h[n - 1] = g[n - 1]
          BY <4>3, <5>1
        <5>3. g[n] = AddWithTime(g[n - 1], Due(n), infos[n])
          BY <3>2, <4>3, <5>1
        <5> HIDE DEF h
        <5> QED BY <4>3, <5>2, <5>3
      <4> QED BY <4>1, <4>2, <4>3
    <3>4. Eq(h, m + 1)
      <4>1. h = [n \in 0 .. m + 1 |-> h[n]]
        OBVIOUS
      <4> HIDE DEF h
      <4> QED BY <3>3, <4>1, Zenon
    <3> QED BY <3>1, <3>4, Zenon
  <2>3. S \subseteq Nat
    OBVIOUS
  <2>4. \A m \in Nat : m \in S
    <3> HIDE DEF S
    <3> QED BY <2>1, <2>2, <2>3, SetInduction, Zenon
  <2> QED BY <2>4, Zenon
<1>4. Eq(u, L)
  BY <1>1, <1>3, Zenon
<1>5. AddAll(e, infos) = u[L]
  BY DEF AddAll, L, Due
<1> HIDE DEF u
<1>6. u[0] = e /\ \A n \in 1 .. L : u[n] = AddWithTime(u[n - 1], Due(n), infos[n])
  BY <1>1, <1>4
<1> HIDE DEF Eq
<1>7. \A m \in Nat : m <= L => Ring(u[m], SubSeq(infos, 1, m))
  <2> DEFINE S == {m \in Nat : m <= L => Ring(u[m], SubSeq(infos, 1, m))}
  <2>1. 0 \in S
    <3>1. SubSeq(infos, 1, 0) = <<>>
      OBVIOUS
    <3>2. Ring(u[0], SubSeq(infos, 1, 0))
      BY <1>6, <3>1, Zenon
    <3> QED BY <3>2
  <2>2. ASSUME NEW m \in S PROVE m + 1 \in S
    <3>1. m \in Nat /\ m + 1 \in Nat
      OBVIOUS
    <3>2. ASSUME m + 1 <= L PROVE Ring(u[m + 1], SubSeq(infos, 1, m + 1))
      <4>1. m <= L /\ m + 1 \in 1 .. L /\ (m + 1) - 1 = m
        BY <1>1, <3>1, <3>2
      <4>2. Ring(u[m], SubSeq(infos, 1, m))
        BY <4>1
      <4>3. infos[m + 1] \in Nat /\ Due(m + 1) \in Int
        BY <1>1, <1>2, <3>1, <4>1
      <4>4. u[m + 1] = AddWithTime(u[m], Due(m + 1), infos[m + 1])
        BY <1>6, <4>1
      <4>5. SubSeq(infos, 1, m + 1) = Append(SubSeq(infos, 1, m), infos[m + 1])
        BY <1>1, <3>1, <4>1 DEF L
      <4>6. Ring(AddWithTime(u[m], Due(m + 1), infos[m + 1]), Append(SubSeq(infos, 1, m), infos[m + 1]))
        BY <4>2, <4>3, AddToRing
      <4> QED BY <4>4, <4>5, <4>6, Zenon
    <3> QED BY <3>1, <3>2
  <2>3. S \subseteq Nat
    OBVIOUS
  <2>4. \A m \in Nat : m \in S
    <3> HIDE DEF S
    <3> QED BY <2>1, <2>2, <2>3, SetInduction, Zenon
  <2> QED BY <2>4
<1>8. Ring(u[L], SubSeq(infos, 1, L))
  BY <1>1, <1>7
<1>9. SubSeq(infos, 1, L) = infos
  BY DEF L
<1>10. ASSUME infos # <<>> PROVE u[L].lastAdd = now
  <2>1. L \in 1 .. L /\ L - 1 \in Nat /\ L - 1 <= L /\ L \in Nat
    BY <1>1, <1>10 DEF L
  <2>2. u[L] = AddWithTime(u[L - 1], Due(L), infos[L])
    BY <1>6, <2>1
  <2>3. u[L - 1] \in EntryStates
    BY <1>7, <2>1 DEF Ring
  <2>4. Due(L) = now
    BY <1>1 DEF Due
  <2> QED BY <2>2, <2>3, <2>4 DEF AddWithTime, EntryStates
<1> QED BY <1>5, <1>8, <1>9, <1>10, Zenon

\* The interval of a period is a number of seconds.
LEMMA IntervalTypes ==
    ASSUME NEW f \in Filters
    PROVE  IntervalOf(f) \in Int
<1>1. Duration[f] \in Nat /\ MaxEntries \in Nat \ {0}
  BY MetricsAssumption
<1>2. Duration[f] \div MaxEntries \in Int
  BY <1>1
<1> QED BY <1>2 DEF IntervalOf, Maximum

\* A ring nothing was added to yet, whatever its interval and time.
LEMMA BlankRing ==
    ASSUME NEW v \in Int, NEW t \in Int
    PROVE  Ring([entries |-> Blank, index |-> 0, count |-> 0, interval |-> v, lastAdd |-> t], <<>>)
<1> DEFINE b == [entries |-> Blank, index |-> 0, count |-> 0, interval |-> v, lastAdd |-> t]
<1>1. MaxEntries \in Nat /\ MaxEntries > 0
  BY MetricsAssumption
<1>2. 0 \in 0 .. MaxEntries - 1 /\ 0 \in 0 .. MaxEntries
  BY <1>1
<1>3. Blank \in [0 .. MaxEntries - 1 -> Nat]
  BY DEF Blank
<1>4. b \in EntryStates /\ b.count = 0 /\ b.index = 0
  BY <1>2, <1>3 DEF EntryStates
<1> HIDE DEF b
<1>5. <<>> \in Seq(Nat) /\ Len(<<>>) = 0
  OBVIOUS
<1>6. Ring(b, <<>>)
  BY <1>1, <1>4, <1>5 DEF Ring
<1> QED BY <1>6 DEF b

\* ValidateAndFixIntervals sets the interval of a period and leaves its entries alone.
LEMMA FixIntervalKeeps ==
    ASSUME NEW f \in Filters, NEW e, NEW s, Ring(e, s)
    PROVE  /\ Ring(FixInterval(f, e), s)
           /\ FixInterval(f, e).interval = IntervalOf(f)
           /\ FixInterval(f, e).lastAdd = e.lastAdd
<1> DEFINE d == FixInterval(f, e)
<1>1. e \in EntryStates
  BY DEF Ring
<1>2. /\ d \in EntryStates /\ d.entries = e.entries /\ d.index = e.index /\ d.count = e.count
      /\ d.interval = IntervalOf(f) /\ d.lastAdd = e.lastAdd
  BY <1>1, IntervalTypes, SMTT(30) DEF FixInterval, EntryStates
<1>3. Oldest(d) = Oldest(e)
  BY <1>2 DEF Oldest
<1> HIDE DEF d
<1>4. Ring(d, s)
  BY <1>2, <1>3 DEF Ring
<1> QED BY <1>2, <1>4 DEF d

\* UnmarshalJSON makes of what was saved of s a ring that holds the newest of s,
\* last added to as of now.
LEMMA LoadedRing ==
    ASSUME NEW s \in Seq(Nat), NEW d, d.entries = Newest(s), d.interval \in Int, now \in Int
    PROVE  /\ Ring(UnmarshalJSON(d), s)
           /\ s # <<>> => UnmarshalJSON(d).lastAdd = now
           /\ s = <<>> => UnmarshalJSON(d).lastAdd = 0
<1> DEFINE zero == [entries |-> Blank, index |-> 0, count |-> 0, interval |-> 0, lastAdd |-> 0]
           fresh == [entries |-> Blank, index |-> 0, count |-> 0, interval |-> d.interval, lastAdd |-> 0]
<1>0. d.entries \in Seq(Nat) /\ (d.entries = <<>> <=> s = <<>>)
  <2>1. Len(s) \in Nat /\ MaxEntries \in Nat \ {0} /\ d.entries \in Seq(Nat)
    BY NewestOf, MetricsAssumption
  <2>2. Len(d.entries) = IF Len(s) < MaxEntries THEN Len(s) ELSE MaxEntries
    BY NewestOf, Zenon
  <2>3. Len(d.entries) = 0 <=> Len(s) = 0
    BY <2>1, <2>2
  <2>4. \A t \in Seq(Nat) : Len(t) = 0 <=> t = <<>>
    OBVIOUS
  <2> QED BY <2>1, <2>3, <2>4
<1>1. CASE s = <<>>
  <2>1. d.entries = <<>>
    BY <1>0, <1>1
  <2>2. UnmarshalJSON(d) = zero
    BY <2>1 DEF UnmarshalJSON
  <2>3. Ring(zero, <<>>) /\ zero.lastAdd = 0
    BY BlankRing
  <2> QED BY <1>1, <2>2, <2>3, Zenon
<1>2. CASE s # <<>>
  <2>1. d.entries # <<>>
    BY <1>0, <1>2
  <2>2. [zero EXCEPT !.interval = d.interval] = fresh
    BY SMTT(30)
  <2>3. UnmarshalJSON(d) = AddAll(fresh, d.entries)
    BY <2>1, <2>2 DEF UnmarshalJSON
  <2>4. Ring(fresh, <<>>)
    BY BlankRing
  <2> HIDE DEF fresh
  <2>5. Ring(AddAll(fresh, d.entries), d.entries) /\ AddAll(fresh, d.entries).lastAdd = now
    BY <1>0, <2>1, <2>4, AddAllToRing
  <2>6. Ring(UnmarshalJSON(d), Newest(s)) /\ UnmarshalJSON(d).lastAdd = now
    BY <2>3, <2>5, Zenon
  <2> QED BY <1>2, <2>6, RingOfNewest
<1> QED BY <1>1, <1>2

\* The inductive invariant: while the poller is up every ring holds the newest
\* of what was added to it, and a complete file holds the newest of what had
\* been added at the save that wrote it.
RingsHold == poller.at # "down" => \A f \in Filters : Ring(rings[f], added[f])

FileHolds ==
    /\ \A f \in Filters : savedAdded[f] \in Seq(Nat)
    /\ metricsFile.ok /\ metricsFile.data # NoFile =>
         \A f \in Filters : /\ metricsFile.data[f].entries = Newest(savedAdded[f])
                            /\ metricsFile.data[f].interval \in Int

MetricsInv == now \in Nat /\ RingsHold /\ FileHolds

\* A poll adds its result to every ring it is not too soon for.
LEMMA PollKeeps ==
    ASSUME MetricsInv, poller.at # "down", PollWithTimeout
    PROVE  \A f \in Filters : Ring(rings'[f], added'[f])
<1>1. now \in Nat /\ now \in Int /\ \A f \in Filters : Ring(rings[f], added[f])
  BY DEF MetricsInv, RingsHold
<1>2. CASE UNCHANGED <<rings, added>>
  BY <1>1, <1>2
<1>3. CASE /\ rings' = [f \in Filters |-> Add(rings[f], now, now)]
           /\ added' = [f \in Filters |-> IF TooSoon(rings[f], now) THEN added[f] ELSE Append(added[f], now)]
  <2> SUFFICES ASSUME NEW f \in Filters PROVE Ring(rings'[f], added'[f])
    OBVIOUS
  <2>1. CASE TooSoon(rings[f], now)
    <3>1. rings'[f] = rings[f] /\ added'[f] = added[f]
      BY <1>3, <2>1 DEF Add
    <3> QED BY <1>1, <3>1, SMTT(30)
  <2>2. CASE ~TooSoon(rings[f], now)
    <3>1. rings'[f] = AddWithTime(rings[f], now, now) /\ added'[f] = Append(added[f], now)
      BY <1>3, <2>2 DEF Add
    <3>2. Ring(AddWithTime(rings[f], now, now), Append(added[f], now))
      BY <1>1, AddToRing
    <3> QED BY <3>1, <3>2, Zenon
  <2> QED BY <2>1, <2>2
<1> QED BY <1>2, <1>3 DEF PollWithTimeout

\* Every step of the poller, a crash and a start included, keeps the invariant.
LEMMA MetricsStep ==
    ASSUME MetricsInv, [MetricsNext]_metricsVars
    PROVE  MetricsInv'
<1> USE DEF MetricsInv
<1>1. CASE PollerStart
  <2>1. now' \in Nat /\ FileHolds'
    BY <1>1, Zenon DEF PollerStart, FileHolds
  <2>2. RingsHold'
    <3> SUFFICES ASSUME NEW f \in Filters PROVE Ring(rings'[f], added'[f])
      BY DEF RingsHold
    <3>0. now \in Int
      OBVIOUS
    <3>1. CASE metricsFile.ok /\ metricsFile.data # NoFile
      <4>1. rings'[f] = FixInterval(f, UnmarshalJSON(metricsFile.data[f])) /\ added'[f] = savedAdded[f]
        BY <1>1, <3>1 DEF PollerStart
      <4>2. /\ savedAdded[f] \in Seq(Nat) /\ metricsFile.data[f].entries = Newest(savedAdded[f])
            /\ metricsFile.data[f].interval \in Int
        BY <3>1, SMTT(30) DEF FileHolds
      <4>3. Ring(UnmarshalJSON(metricsFile.data[f]), savedAdded[f])
        BY <3>0, <4>2, LoadedRing, SMTT(30)
      <4>4. Ring(FixInterval(f, UnmarshalJSON(metricsFile.data[f])), savedAdded[f])
        BY <4>3, FixIntervalKeeps
      <4> QED BY <4>1, <4>4, Zenon
    <3>2. CASE ~(metricsFile.ok /\ metricsFile.data # NoFile)
      <4>1. rings'[f] = NewEntries(f) /\ added'[f] = <<>>
        BY <1>1, <3>2 DEF PollerStart
      <4>2. Ring(NewEntries(f), <<>>)
        BY <3>0, IntervalTypes, BlankRing, SMTT(30) DEF NewEntries
      <4> QED BY <4>1, <4>2, Zenon
    <3> QED BY <3>1, <3>2
  <2> QED BY <2>1, <2>2, SMTT(30)
<1>2. CASE FirstPoll \/ Poll
  <2>1. poller.at # "down" /\ PollWithTimeout /\ UNCHANGED <<now, metricsFile, savedAdded>>
    BY <1>2 DEF FirstPoll, Poll
  <2>2. RingsHold'
    BY <2>1, PollKeeps, SMTT(30) DEF RingsHold
  <2> QED BY <2>1, <2>2 DEF FileHolds
<1>3. CASE PollerTick
  <2>1. poller.at # "down" /\ UNCHANGED <<rings, added, metricsFile, savedAdded>> /\ now' = now + 1
    BY <1>3, SMTT(30) DEF PollerTick
  <2> QED BY <2>1 DEF RingsHold, FileHolds
<1>4. CASE PollerDone
  <2>1. poller.at # "down" /\ UNCHANGED <<now, rings, added, metricsFile, savedAdded>>
    BY <1>4, SMTT(30) DEF PollerDone
  <2> QED BY <2>1 DEF RingsHold, FileHolds
<1>5. CASE SaveOpen
  <2>1. poller.at # "down" /\ UNCHANGED <<now, rings, added, savedAdded>>
    BY <1>5 DEF SaveOpen
  <2>2. metricsFile'.ok = FALSE \/ UNCHANGED metricsFile
    BY <1>5 DEF SaveOpen
  <2> QED BY <2>1, <2>2 DEF RingsHold, FileHolds
<1>6. CASE SaveEncode
  <2>1. poller.at # "down" /\ UNCHANGED <<now, rings, added>>
    BY <1>6 DEF SaveEncode
  <2>2. RingsHold'
    BY <2>1 DEF RingsHold
  <2>3. CASE UNCHANGED <<metricsFile, savedAdded>>
    BY <2>1, <2>2, <2>3 DEF FileHolds
  <2>4. CASE /\ metricsFile' = [ok |-> TRUE, data |-> [f \in Filters |-> [entries |-> Get(rings[f]), interval |-> rings[f].interval]]]
             /\ savedAdded' = added
    <3>1. ASSUME NEW f \in Filters
          PROVE  /\ savedAdded'[f] \in Seq(Nat) /\ metricsFile'.data[f].entries = Newest(savedAdded'[f])
                 /\ metricsFile'.data[f].interval \in Int
      <4>1. Ring(rings[f], added[f])
        BY <2>1 DEF RingsHold
      <4>2. added[f] \in Seq(Nat) /\ rings[f].interval \in Int
        BY <4>1 DEF Ring, EntryStates
      <4>3. Get(rings[f]) = Newest(added[f])
        BY <4>1, RingRead
      <4> QED BY <2>4, <4>2, <4>3
    <3>2. FileHolds'
      BY <3>1, SMTT(30) DEF FileHolds, Newest
    <3> QED BY <2>1, <2>2, <3>2, SMTT(30)
  <2> QED BY <1>6, <2>3, <2>4 DEF SaveEncode
<1>7. CASE PollerCrash
  <2>1. poller'.at = "down" /\ UNCHANGED <<now, metricsFile, savedAdded>>
    BY <1>7, SMTT(30) DEF PollerCrash
  <2> QED BY <2>1, Zenon DEF RingsHold, FileHolds
<1>8. CASE UNCHANGED metricsVars
  BY <1>8 DEF metricsVars, RingsHold, FileHolds
<1> QED BY <1>1, <1>2, <1>3, <1>4, <1>5, <1>6, <1>7, <1>8 DEF MetricsNext

\* The poller's invariant holds of every behaviour.
LEMMA MetricsCorrect == MetricsSpec => []MetricsInv
<1>1. MetricsInit => MetricsInv
  BY DEF MetricsInit, MetricsInv, RingsHold, FileHolds
<1> QED BY <1>1, MetricsStep, PTL DEF MetricsSpec

\* What Entries.Get returns for a period are the newest MaxEntries results added
\* to it, oldest first, however often the ring wrapped, the metrics were saved
\* and the process exited, crashed and started.
THEOREM RingsExact == MetricsSpec => []RingExact
<1>1. MetricsInv => RingExact
  BY RingRead DEF MetricsInv, RingsHold, RingExact
<1> QED BY <1>1, MetricsCorrect, PTL

\* The results of s are at least the interval of f apart, none of them later than t.
Apart(f, s, t) ==
    /\ s \in Seq(Nat)
    /\ \A i \in 1 .. Len(s) - 1 : s[i + 1] - s[i] >= IntervalOf(f)
    /\ s # <<>> => s[Len(s)] <= t

\* Spaced's inductive invariant: while the poller is up, a ring has the interval
\* of its period and was last added to no earlier than its last result.
SpacedInv ==
    /\ \A f \in Filters : Apart(f, added[f], now) /\ Apart(f, savedAdded[f], now)
    /\ poller.at # "down" =>
         \A f \in Filters : /\ rings[f].interval = IntervalOf(f) /\ rings[f].lastAdd \in Int
                            /\ rings[f].lastAdd <= now /\ Apart(f, added[f], rings[f].lastAdd)

\* The results stay apart when time passes.
LEMMA ApartLater ==
    ASSUME NEW f \in Filters, NEW s, NEW t \in Int, NEW v \in Int, t <= v, Apart(f, s, t)
    PROVE  Apart(f, s, v)
<1>1. s \in Seq(Nat)
  BY DEF Apart
<1>2. ASSUME s # <<>> PROVE s[Len(s)] <= v
  <2>1. s[Len(s)] \in Nat /\ s[Len(s)] <= t
    BY <1>1, <1>2 DEF Apart
  <2> QED BY <2>1
<1> QED BY <1>2 DEF Apart

\* A result that is not too soon after the last one is apart from it.
LEMMA ApartAppend ==
    ASSUME NEW f \in Filters, NEW s, NEW t \in Int, NEW x \in Nat, x - t >= IntervalOf(f), Apart(f, s, t)
    PROVE  Apart(f, Append(s, x), x)
<1> DEFINE r == Append(s, x)
<1>1. s \in Seq(Nat) /\ Len(s) \in Nat /\ IntervalOf(f) \in Int
  BY IntervalTypes DEF Apart
<1>2. /\ r \in Seq(Nat) /\ Len(r) = Len(s) + 1 /\ r[Len(s) + 1] = x
      /\ \A i \in 1 .. Len(s) : r[i] = s[i]
  BY <1>1
<1> HIDE DEF r
<1>3. ASSUME NEW i \in 1 .. Len(r) - 1 PROVE r[i + 1] - r[i] >= IntervalOf(f)
  <2>1. CASE i < Len(s)
    <3>1. i \in 1 .. Len(s) - 1 /\ i + 1 \in 1 .. Len(s) /\ i \in 1 .. Len(s)
      BY <1>1, <2>1
    <3>2. r[i + 1] = s[i + 1] /\ r[i] = s[i] /\ s[i + 1] - s[i] >= IntervalOf(f)
      BY <1>2, <3>1 DEF Apart
    <3> QED BY <3>2
  <2>2. CASE i = Len(s)
    <3>1. i \in 1 .. Len(s) /\ s # <<>>
      BY <1>1, <2>2
    <3>2. r[i + 1] = x /\ r[i] = s[Len(s)] /\ s[Len(s)] \in Nat
      BY <1>1, <1>2, <2>2, <3>1, SMTT(30)
    <3>3. s[Len(s)] <= t
      BY <3>1 DEF Apart
    <3> QED BY <1>1, <3>2, <3>3, SMTT(30)
  <2> QED BY <1>1, <1>2, <2>1, <2>2
<1>4. r[Len(r)] <= x
  BY <1>1, <1>2
<1>5. Apart(f, r, x)
  BY <1>2, <1>3, <1>4 DEF Apart
<1> QED BY <1>5 DEF r

\* An empty period has nothing to keep apart.
LEMMA ApartEmpty ==
    ASSUME NEW f \in Filters, NEW t
    PROVE  Apart(f, <<>>, t)
<1>1. <<>> \in Seq(Nat) /\ Len(<<>>) = 0
  OBVIOUS
<1> QED BY <1>1 DEF Apart

\* Every step of the poller keeps the results apart.
LEMMA SpacedStep ==
    ASSUME MetricsInv, SpacedInv, [MetricsNext]_metricsVars
    PROVE  SpacedInv'
<1>0. now \in Nat /\ now \in Int /\ \A f \in Filters : Apart(f, added[f], now) /\ Apart(f, savedAdded[f], now)
  BY SMTT(30) DEF MetricsInv, SpacedInv
<1>k. ASSUME now' = now,
             \A f \in Filters : Apart(f, added'[f], now) /\ Apart(f, savedAdded'[f], now),
             poller'.at # "down" =>
               \A f \in Filters : /\ rings'[f].interval = IntervalOf(f) /\ rings'[f].lastAdd \in Int
                                  /\ rings'[f].lastAdd <= now /\ Apart(f, added'[f], rings'[f].lastAdd)
      PROVE  SpacedInv'
  BY <1>k, ZenonT(30) DEF SpacedInv, Apart, IntervalOf
<1>1. CASE PollerStart
  <2>1. now' = now /\ savedAdded' = savedAdded
    BY <1>1, SMTT(30) DEF PollerStart
  <2>2. ASSUME NEW f \in Filters
        PROVE  /\ rings'[f].interval = IntervalOf(f) /\ rings'[f].lastAdd \in Int
               /\ rings'[f].lastAdd <= now /\ Apart(f, added'[f], rings'[f].lastAdd) /\ Apart(f, added'[f], now)
    <3>1. CASE metricsFile.ok /\ metricsFile.data # NoFile
      <4> DEFINE d == UnmarshalJSON(metricsFile.data[f])
      <4>1. rings'[f] = FixInterval(f, d) /\ added'[f] = savedAdded[f]
        BY <1>1, <3>1, SMTT(30) DEF PollerStart
      <4>2. /\ savedAdded[f] \in Seq(Nat) /\ metricsFile.data[f].entries = Newest(savedAdded[f])
            /\ metricsFile.data[f].interval \in Int
        BY <3>1, SMTT(30) DEF MetricsInv, FileHolds
      <4>3. /\ Ring(d, savedAdded[f])
            /\ savedAdded[f] # <<>> => d.lastAdd = now
            /\ savedAdded[f] = <<>> => d.lastAdd = 0
        BY <1>0, <4>2, LoadedRing
      <4> HIDE DEF d
      <4>4. rings'[f].interval = IntervalOf(f) /\ rings'[f].lastAdd = d.lastAdd
        BY <4>1, <4>3, FixIntervalKeeps, Zenon
      <4>5. CASE savedAdded[f] # <<>>
        <5>1. rings'[f].lastAdd = now
          BY <4>3, <4>4, <4>5, SMTT(30)
        <5> QED BY <1>0, <4>1, <4>4, <5>1, SMTT(30)
      <4>6. CASE savedAdded[f] = <<>>
        <5>1. rings'[f].lastAdd = 0 /\ added'[f] = <<>>
          BY <4>1, <4>3, <4>4, <4>6
        <5>2. Apart(f, added'[f], 0) /\ Apart(f, added'[f], now)
          BY <5>1, ApartEmpty, Zenon
        <5> QED BY <1>0, <4>4, <5>1, <5>2, SMTT(30)
      <4> QED BY <4>5, <4>6
    <3>2. CASE ~(metricsFile.ok /\ metricsFile.data # NoFile)
      <4>1. rings'[f] = NewEntries(f) /\ added'[f] = <<>>
        BY <1>1, <3>2, SMTT(30) DEF PollerStart
      <4>2. rings'[f].interval = IntervalOf(f) /\ rings'[f].lastAdd = now
        BY <4>1 DEF NewEntries
      <4>3. Apart(f, added'[f], now)
        BY <4>1, ApartEmpty, ZenonT(30)
      <4> QED BY <1>0, <4>2, <4>3
    <3> QED BY <3>1, <3>2, SMTT(30)
  <2> QED BY <1>0, <1>k, <2>1, <2>2, Zenon
<1>2. CASE FirstPoll \/ Poll
  <2>1. poller.at # "down" /\ PollWithTimeout /\ UNCHANGED <<now, metricsFile, savedAdded>>
    BY <1>2, SMTT(30) DEF FirstPoll, Poll
  <2>2. ASSUME NEW f \in Filters
        PROVE  /\ rings'[f].interval = IntervalOf(f) /\ rings'[f].lastAdd \in Int
               /\ rings'[f].lastAdd <= now /\ Apart(f, added'[f], rings'[f].lastAdd) /\ Apart(f, added'[f], now)
    <3>1. /\ rings[f].interval = IntervalOf(f) /\ rings[f].lastAdd \in Int
          /\ rings[f].lastAdd <= now /\ Apart(f, added[f], rings[f].lastAdd)
      BY <2>1, Zenon DEF SpacedInv
    <3>2. \/ rings'[f] = rings[f] /\ added'[f] = added[f]
          \/ /\ ~TooSoon(rings[f], now)
             /\ rings'[f] = AddWithTime(rings[f], now, now) /\ added'[f] = Append(added[f], now)
      BY <2>1, SMTT(30) DEF PollWithTimeout, Add
    <3>3. CASE rings'[f] = rings[f] /\ added'[f] = added[f]
      BY <1>0, <3>1, <3>3
    <3>4. CASE /\ ~TooSoon(rings[f], now)
               /\ rings'[f] = AddWithTime(rings[f], now, now) /\ added'[f] = Append(added[f], now)
      <4>1. rings[f] \in EntryStates
        BY <2>1 DEF MetricsInv, RingsHold, Ring
      <4>2. rings'[f].interval = IntervalOf(f) /\ rings'[f].lastAdd = now
        BY <3>1, <3>4, <4>1, SMTT(30) DEF AddWithTime, EntryStates
      <4>3. now - rings[f].lastAdd >= IntervalOf(f)
        BY <1>0, <3>1, <3>4, IntervalTypes, SMTT(30) DEF TooSoon
      <4>4. Apart(f, Append(added[f], now), now)
        BY <1>0, <3>1, <4>3, ApartAppend
      <4>5. Apart(f, added'[f], now)
        BY <3>4, <4>4, ZenonT(30)
      <4> QED BY <1>0, <4>2, <4>5
    <3> QED BY <3>2, <3>3, <3>4, ZenonT(30)
  <2> QED BY <1>0, <1>k, <2>1, <2>2
<1>3. CASE PollerTick
  <2>1. poller.at # "down" /\ UNCHANGED <<rings, added, savedAdded>> /\ now' = now + 1
    BY <1>3 DEF PollerTick
  <2>2. now' \in Int /\ now <= now'
    BY <1>0, <2>1, SMTT(30)
  <2>3. ASSUME NEW f \in Filters PROVE Apart(f, added[f], now') /\ Apart(f, savedAdded[f], now')
    BY <1>0, <2>2, ApartLater, SMTT(30)
  <2>4. ASSUME NEW f \in Filters
        PROVE  /\ rings[f].interval = IntervalOf(f) /\ rings[f].lastAdd \in Int
               /\ rings[f].lastAdd <= now' /\ Apart(f, added[f], rings[f].lastAdd)
    <3>1. /\ rings[f].interval = IntervalOf(f) /\ rings[f].lastAdd \in Int
          /\ rings[f].lastAdd <= now /\ Apart(f, added[f], rings[f].lastAdd)
      BY <2>1, SMTT(30) DEF SpacedInv
    <3> QED BY <1>0, <2>1, <3>1, SMTT(30)
  <2> QED BY <2>1, <2>3, <2>4, Zenon DEF SpacedInv, Apart, IntervalOf
<1>4. CASE PollerDone \/ SaveOpen \/ SaveEncode
  <2>1. poller.at # "down" /\ UNCHANGED <<now, rings, added>> /\ (savedAdded' = savedAdded \/ savedAdded' = added)
    BY <1>4, SMTT(30) DEF PollerDone, SaveOpen, SaveEncode
  <2>2. \A f \in Filters : /\ rings[f].interval = IntervalOf(f) /\ rings[f].lastAdd \in Int
                           /\ rings[f].lastAdd <= now /\ Apart(f, added[f], rings[f].lastAdd)
    BY <2>1, Zenon DEF SpacedInv
  <2> QED BY <1>0, <1>k, <2>1, <2>2
<1>5. CASE PollerCrash
  <2>1. poller'.at = "down" /\ UNCHANGED <<now, added, savedAdded>>
    BY <1>5, SMTT(30) DEF PollerCrash
  <2> QED BY <1>0, <1>k, <2>1
<1>6. CASE UNCHANGED metricsVars
  BY <1>6, Zenon DEF metricsVars, SpacedInv, Apart, IntervalOf
<1> QED BY <1>1, <1>2, <1>3, <1>4, <1>5, <1>6, SMTT(30) DEF MetricsNext

\* Two results kept of a period are at least its interval apart, also when one
\* was polled before a restart and the other after it: the load sets the time of
\* the last addition to the start, and Add waits from there.
THEOREM ResultsSpaced == MetricsSpec => []Spaced
<1>1. MetricsInit => SpacedInv
  BY ApartEmpty, SMTT(30) DEF MetricsInit, SpacedInv
<1>2. SpacedInv => Spaced
  BY DEF SpacedInv, Spaced, Apart
<1> QED BY <1>1, <1>2, MetricsCorrect, SpacedStep, PTL DEF MetricsSpec
=============================================================================
