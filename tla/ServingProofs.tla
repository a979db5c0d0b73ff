---------------------------- MODULE ServingProofs ----------------------------
(***************************************************************************)
(* Proofs about what serves a request, for any number of checks, requests   *)
(* and routes: a health monitor implements what HealthPromise promises, a   *)
(* rate limiter never lets more than its burst through, and a load          *)
(* balancer's link leads to the routes that run behind it.                  *)
(***************************************************************************)
EXTENDS Health, Middleware, LoadBalance, FiniteSetTheorems, TLAPS

(***************************************************************************)
(* Health: the counters and flags of a monitor.  While it checks, a healthy *)
(* service has no failures and no announced outage.  For a bad one the      *)
(* failures say whether the outage was announced; without retries           *)
(* (hRetries < 0) it was announced with the first failure.                  *)
(***************************************************************************)
Checking == hStage \in {"first", "loop"}

HealthInv ==
    /\ hRetries \in Int /\ hConsec \in Nat /\ hSent \in BOOLEAN /\ hFailures \in Nat
    /\ hStage = "new" => hConsec = 0 /\ hSent = FALSE /\ hFailures = 0 /\ (hPort => hStatus = "healthy")
    /\ hStage = "first" => hFailures = 0
    /\ Checking => hFailures < MaxTrials
    /\ Checking /\ hStatus = "healthy" => hConsec = 0 /\ hSent = FALSE
    /\ Checking /\ hStatus # "healthy" /\ hRetries >= 0 => hConsec >= 1 /\ hSent = (hConsec >= Threshold)
    /\ Checking /\ hStatus # "healthy" /\ hRetries < 0 => hConsec = 0 /\ hSent = TRUE

\* A monitor starts without failures and without announcements.
LEMMA HealthInitially == HInit => HealthInv
<1> SUFFICES ASSUME HInit PROVE HealthInv
  OBVIOUS
<1>1. /\ hRetries \in Int /\ hConsec = 0 /\ hSent = FALSE /\ hFailures = 0 /\ hStage = "new"
      /\ hPort => hStatus = "healthy"
  BY HealthAssumption DEF HInit
<1> QED BY <1>1, Zenon DEF HealthInv, Checking

\* The results of a check, whoever was asked.
LEMMA CheckResults ==
    ASSUME NEW c \in Checks, NEW r \in c.results
    PROVE  r \in {"good", "bad", "error"}
<1>1. \A kind : CheckHealth(kind) \subseteq {"good", "bad", "error"}
  BY DEF CheckHealth
<1>2. CASE UseFallback
  BY <1>1, <1>2 DEF Checks
<1>3. CASE ~UseFallback
  <2>1. PICK a \in {"failed", "down", "nohealth", "healthy", "unhealthy"} : c = Inspect(a)
    BY <1>3 DEF Checks
  <2> QED BY <1>1, <2>1 DEF Inspect
<1> QED BY <1>2, <1>3

\* A check that finds the service well: the failures are forgotten and the recovery is
\* announced if there was something to recover from.
LEMMA GoodUpdate ==
    ASSUME HealthInv, Checking, UpdateHealth("good")
    PROVE  /\ hStatus' = "healthy" /\ hConsec' = 0 /\ hSent' = FALSE
           /\ hSaid' = IF hStatus = "healthy" THEN "nothing" ELSE "up"
  BY Zenon DEF HealthInv, UpdateHealth

\* A check that does not, with retries: one more failure, announced at the threshold.
LEMMA BadUpdateRetries ==
    ASSUME HealthInv, Checking, hRetries >= 0, NEW r \in {"bad", "error"}, UpdateHealth(r)
    PROVE  /\ hStatus' # "healthy" /\ hConsec' = hConsec + 1
           /\ hSent' = (hConsec + 1 >= Threshold)
           /\ hSaid' = IF hConsec + 1 >= Threshold /\ ~hSent THEN "down" ELSE "nothing"
<1>1. /\ hStatus' # "healthy" /\ hConsec' = hConsec + 1
      /\ hSent' = (hSent \/ (hConsec + 1 >= hRetries /\ ~hSent))
      /\ hSaid' = IF hConsec + 1 >= hRetries /\ ~hSent THEN "down" ELSE "nothing"
  BY DEF HealthInv, UpdateHealth
<1>2. hConsec + 1 >= hRetries <=> hConsec + 1 >= Threshold
  BY DEF HealthInv, Threshold, AtLeast1
<1>3. hSent => hConsec + 1 >= Threshold
  <2>1. hConsec \in Int /\ Threshold \in Int
    BY DEF HealthInv, Threshold, AtLeast1
  <2>2. CASE hStatus = "healthy"
    BY <2>2 DEF HealthInv
  <2>3. CASE hStatus # "healthy"
    <3>1. hSent => hConsec >= Threshold
      BY <2>3, Zenon DEF HealthInv
    <3> QED BY <2>1, <3>1
  <2> QED BY <2>2, <2>3
<1> QED BY <1>1, <1>2, <1>3

\* The same without retries: announced when the service was well before.
LEMMA BadUpdateAtOnce ==
    ASSUME HealthInv, Checking, hRetries < 0, NEW r \in {"bad", "error"}, UpdateHealth(r)
    PROVE  /\ hStatus' # "healthy" /\ hConsec' = 0 /\ hSent' = TRUE
           /\ hSaid' = IF hSent THEN "nothing" ELSE "down"
<1>1. hRetries \in Int /\ ~(hRetries >= 0) /\ hConsec = 0 /\ hSent = (hStatus # "healthy")
  BY DEF HealthInv
<1>2. /\ hStatus' # "healthy" /\ hConsec' = hConsec
      /\ hSent' = (hSent \/ hStatus = "healthy")
      /\ hSaid' = IF hStatus = "healthy" THEN "down" ELSE "nothing"
  BY <1>1 DEF UpdateHealth
<1> QED BY <1>1, <1>2, Zenon

\* Every step of a monitor keeps that.
LEMMA HealthStep == HealthInv /\ [HNext]_hVars => HealthInv'
<1> SUFFICES ASSUME HealthInv, [HNext]_hVars PROVE HealthInv'
  OBVIOUS
<1>1. ASSUME Checking, NEW r \in {"good", "bad", "error"}, UpdateHealth(r), UNCHANGED hConfig,
             hFailures' = (IF r = "error" THEN hFailures + 1 ELSE 0),
             hStage' = (IF hFailures' >= MaxTrials THEN "leave" ELSE "loop")
      PROVE  HealthInv'
  <2>1. Checking' => hFailures' < MaxTrials
    BY <1>1 DEF HealthInv, Checking, MaxTrials
  <2>2. hFailures' \in Nat /\ hStage' \notin {"new", "first"} /\ hRetries' = hRetries /\ Threshold' = Threshold
    BY <1>1 DEF HealthInv, hConfig, Threshold
  <2>3. CASE r = "good"
    <3>1. hStatus' = "healthy" /\ hConsec' = 0 /\ hSent' = FALSE
      BY <1>1, <2>3, GoodUpdate
    <3> QED BY <2>1, <2>2, <3>1, Zenon DEF HealthInv
  <2>4. CASE r # "good" /\ hRetries >= 0
    <3>1. hStatus' # "healthy" /\ hConsec' = hConsec + 1 /\ hSent' = (hConsec + 1 >= Threshold)
      BY <1>1, <2>4, BadUpdateRetries
    <3>2. hConsec' \in Nat /\ hConsec' >= 1
      BY <3>1 DEF HealthInv
    <3>3. hSent' \in BOOLEAN /\ hSent' = (hConsec' >= Threshold')
      BY <2>2, <3>1
    <3>4. hRetries \in Int /\ ~(hRetries < 0)
      BY <2>4 DEF HealthInv
    <3> QED BY <2>1, <2>2, <3>1, <3>2, <3>3, <3>4 DEF HealthInv
  <2>5. CASE r # "good" /\ hRetries < 0
    <3>1. hStatus' # "healthy" /\ hConsec' = 0 /\ hSent' = TRUE
      BY <1>1, <2>5, BadUpdateAtOnce, Zenon
    <3>2. hRetries \in Int /\ ~(hRetries >= 0)
      BY <2>5 DEF HealthInv
    <3> QED BY <2>1, <2>2, <3>1, <3>2 DEF HealthInv
  <2>6. hRetries >= 0 \/ hRetries < 0
    BY DEF HealthInv
  <2> QED BY <2>3, <2>4, <2>5, <2>6
<1>2. CASE StartMonitor
  <2>1. UNCHANGED <<hRetries, hPort, hStatus, hConsec, hSent, hFailures>>
    BY <1>2 DEF StartMonitor, hConfig
  <2>2. hConsec = 0 /\ hSent = FALSE /\ hFailures = 0 /\ hRetries \in Int
    BY <1>2 DEF StartMonitor, HealthInv
  <2>3. hStage' # "new" /\ (Checking' => hStatus = "healthy")
    BY <1>2 DEF StartMonitor, HealthInv, Checking
  <2> QED BY <2>1, <2>2, <2>3 DEF HealthInv, MaxTrials
<1>3. CASE FirstCheck
  <2>1. PICK c \in Checks : \E r \in c.results :
           UpdateHealth(r) /\ hFailures' = (IF r = "error" THEN 1 ELSE 0)
    BY <1>3 DEF FirstCheck
  <2>2. PICK r \in c.results : UpdateHealth(r) /\ hFailures' = (IF r = "error" THEN 1 ELSE 0)
    BY <2>1
  <2>3. r \in {"good", "bad", "error"}
    BY CheckResults
  <2>4. Checking /\ hFailures = 0 /\ UNCHANGED hConfig /\ hStage' = "loop"
    BY <1>3 DEF FirstCheck, HealthInv, Checking
  <2>5. hFailures' = (IF r = "error" THEN hFailures + 1 ELSE 0) /\ ~(hFailures' >= MaxTrials)
    BY <2>2, <2>4 DEF MaxTrials
  <2> QED BY <1>1, <2>2, <2>3, <2>4, <2>5
<1>4. CASE TickCheck
  <2>1. PICK c \in Checks : \E r \in c.results :
           UpdateHealth(r) /\ hFailures' = (IF r = "error" THEN hFailures + 1 ELSE 0)
    BY <1>4 DEF TickCheck
  <2>2. PICK r \in c.results : UpdateHealth(r) /\ hFailures' = (IF r = "error" THEN hFailures + 1 ELSE 0)
    BY <2>1
  <2>3. r \in {"good", "bad", "error"}
    BY CheckResults
  <2>4. Checking /\ UNCHANGED hConfig /\ hStage' = (IF hFailures' >= MaxTrials THEN "leave" ELSE "loop")
    BY <1>4 DEF TickCheck, Checking
  <2> QED BY <1>1, <2>2, <2>3, <2>4
<1>5. CASE SeeCancelled \/ Leave
  <2>1. UNCHANGED <<hRetries, hConsec, hSent, hFailures>> /\ hStage' \in {"leave", "ended"}
    BY <1>5 DEF SeeCancelled, Leave, hConfig
  <2> QED BY <2>1 DEF HealthInv, Checking
<1>6. CASE Intercept \/ CancelMonitor \/ UNCHANGED hVars
  <2>1. UNCHANGED <<hRetries, hPort, hStage, hStatus, hConsec, hSent, hFailures>>
    BY <1>6 DEF Intercept, CancelMonitor, hConfig, hVars
  <2> QED BY <2>1 DEF HealthInv, Checking, Threshold
<1> QED BY <1>2, <1>3, <1>4, <1>5, <1>6 DEF HNext

\* The monitor's invariant holds of every behaviour.
LEMMA HealthCorrect == HSpec => []HealthInv
  BY HealthInitially, HealthStep, PTL DEF HSpec

(***************************************************************************)
(* The refinement mapping of Promise: failures are counted up to the        *)
(* threshold.                                                               *)
(***************************************************************************)
Fails == IF hRetries < 0 THEN (IF hSent THEN 1 ELSE 0) ELSE UpTo(hConsec, Threshold)
Over == hStage \in {"leave", "ended"}

\* What the failures of the promise are: none for a healthy service, some for another one,
\* as many as the threshold when the outage was announced.
LEMMA FailsAre ==
    ASSUME HealthInv, Checking
    PROVE  /\ Threshold \in Nat \ {0} /\ Fails \in 0..Threshold
           /\ hStatus = "healthy" <=> Fails = 0
           /\ hSent <=> Fails = Threshold
<1>1. hRetries \in Int /\ hConsec \in Nat /\ hSent \in BOOLEAN
  BY DEF HealthInv
<1>2. Threshold \in Nat \ {0} /\ (hRetries < 0 => Threshold = 1)
  BY <1>1 DEF Threshold, AtLeast1
<1>3. CASE hStatus = "healthy"
  <2>1. hConsec = 0 /\ hSent = FALSE
    BY <1>3 DEF HealthInv
  <2> QED BY <1>1, <1>2, <1>3, <2>1 DEF Fails, UpTo
<1>4. CASE hStatus # "healthy" /\ hRetries < 0
  <2>1. hConsec = 0 /\ hSent = TRUE
    BY <1>4 DEF HealthInv
  <2> QED BY <1>1, <1>2, <1>4, <2>1 DEF Fails
<1>5. CASE hStatus # "healthy" /\ ~(hRetries < 0)
  <2>1. hConsec >= 1 /\ hSent = (hConsec >= Threshold)
    BY <1>1, <1>5 DEF HealthInv
  <2>2. Fails = IF hConsec < Threshold THEN hConsec ELSE Threshold
    BY <1>5 DEF Fails, UpTo
  <2>3. Fails \in 1..Threshold /\ (hConsec >= Threshold <=> Fails = Threshold)
    BY <1>1, <1>2, <2>1, <2>2
  <2>4. Fails \in 0..Threshold /\ Fails # 0
    BY <1>2, <2>3
  <2>5. hSent <=> Fails = Threshold
    BY <1>1, <2>1, <2>3, Zenon
  <2> QED BY <1>2, <1>5, <2>4, <2>5, Zenon
<1> QED BY <1>3, <1>4, <1>5

\* A check of a monitor is a Good or a Bad of the promise.
LEMMA CheckIsPromised ==
    ASSUME HealthInv, HealthInv', Checking, NEW r \in {"good", "bad", "error"}, UpdateHealth(r),
           UNCHANGED hConfig, hFailures' = (IF r = "error" THEN hFailures + 1 ELSE 0),
           hStage' = (IF hFailures' >= MaxTrials THEN "leave" ELSE "loop")
    PROVE  Promise!Good \/ Promise!Bad
<1>1. /\ ~Over /\ Threshold' = Threshold /\ hRetries' = hRetries /\ hRetries \in Int
      /\ hFailures \in Nat /\ hFailures' \in Nat
  BY DEF Over, Checking, Threshold, hConfig, HealthInv
<1>2. Over' = (hFailures' >= MaxTrials)
  BY DEF Over
<1>3. /\ Threshold \in Nat \ {0} /\ Fails \in 0..Threshold
      /\ hStatus = "healthy" <=> Fails = 0
      /\ hSent <=> Fails = Threshold
  BY FailsAre
<1>4. CASE r = "good"
  <2>1. /\ hConsec' = 0 /\ hSent' = FALSE
        /\ hSaid' = IF hStatus = "healthy" THEN "nothing" ELSE "up"
    BY <1>4, GoodUpdate
  <2>2. Fails' = 0
    BY <1>1, <1>3, <2>1 DEF Fails, UpTo
  <2>3. hSaid' = IF Fails > 0 THEN "up" ELSE "nothing"
    BY <1>3, <2>1
  <2>4. hFailures' = 0 /\ Over' = FALSE /\ Over = FALSE
    BY <1>1, <1>2, <1>4, SMTT(30) DEF MaxTrials, Over
  <2> QED BY <1>1, <2>1, <2>2, <2>3, <2>4, SMTT(30) DEF Promise!Good, Fails, Over
<1>5. CASE r # "good"
  <2>1. /\ Fails' = IF Fails < Threshold THEN Fails + 1 ELSE Threshold
        /\ hSaid' = IF ~hSent /\ Fails' = Threshold THEN "down" ELSE "nothing"
        /\ hSent' = (hSent \/ hSaid' = "down")
    <3>1. CASE hRetries < 0
      <4>1. hSent' = TRUE /\ hSaid' = IF hSent THEN "nothing" ELSE "down"
        BY <1>5, <3>1, BadUpdateAtOnce, Zenon
      <4>2. Threshold = 1 /\ Fails' = 1
        BY <1>1, <3>1, <4>1 DEF Threshold, AtLeast1, Fails
      <4>3. 1 = IF Fails < 1 THEN Fails + 1 ELSE 1
        BY <1>3, <4>2
      <4> QED BY <4>1, <4>2, <4>3, Zenon
    <3>2. CASE ~(hRetries < 0)
      <4>1. /\ hConsec' = hConsec + 1 /\ hConsec \in Nat
            /\ hSent' = (hConsec + 1 >= Threshold)
            /\ hSaid' = IF hConsec + 1 >= Threshold /\ ~hSent THEN "down" ELSE "nothing"
        <5>1. hRetries >= 0 /\ r \in {"bad", "error"} /\ hConsec \in Nat
          BY <1>1, <1>5, <3>2 DEF HealthInv
        <5> QED BY <5>1, BadUpdateRetries, Zenon
      <4>2. /\ Fails = IF hConsec < Threshold THEN hConsec ELSE Threshold
            /\ Fails' = IF hConsec + 1 < Threshold THEN hConsec + 1 ELSE Threshold
        BY <1>1, <3>2, <4>1 DEF Fails, UpTo
      <4>3. hConsec + 1 >= Threshold <=> Fails' = Threshold
        BY <1>3, <4>1, <4>2, SMTT(30)
      <4>4. Fails' = IF Fails < Threshold THEN Fails + 1 ELSE Threshold
        BY <1>3, <4>1, <4>2
      <4>5. hSent => Fails' = Threshold
        BY <1>3, <4>4
      <4> QED BY <4>1, <4>3, <4>4, <4>5, SMTT(30)
    <3> QED BY <3>1, <3>2
  <2>2. hFailures' = hFailures + 1 \/ hFailures' = 0
    OBVIOUS
  <2> QED BY <1>1, <1>2, <2>1, <2>2, SMTT(30) DEF Promise!Bad, Fails, Over
<1> QED BY <1>4, <1>5

\* A health monitor keeps the promise of HealthPromise: one announcement for each outage
\* that lasts for the threshold, one for each recovery, and no end before five errors in a
\* row, for any number of retries and of checks.
THEOREM HealthKeepsPromise == HSpec => HealthImplements
<1>1. HInit => Promise!PromiseInit
  <2> SUFFICES ASSUME HInit PROVE Promise!PromiseInit
    OBVIOUS
  <2>1. /\ hRetries \in Int /\ hConsec = 0 /\ hSent = FALSE /\ hFailures = 0
        /\ hSaid = "nothing" /\ hStage = "new"
    BY HealthAssumption DEF HInit
  <2>2. Threshold \in Nat \ {0}
    BY <2>1 DEF Threshold, AtLeast1
  <2>3. Fails = 0
    BY <2>1, <2>2 DEF Fails, UpTo
  <2> QED BY <2>1, <2>2, <2>3 DEF Promise!PromiseInit, Fails
<1>2. HealthInv /\ HealthInv' /\ [HNext]_hVars => [Promise!PromiseNext]_(Promise!promiseVars)
  <2> SUFFICES ASSUME HealthInv, HealthInv', [HNext]_hVars
               PROVE  Promise!PromiseNext \/ UNCHANGED Promise!promiseVars
    OBVIOUS
  <2>1. CASE FirstCheck
    <3>1. PICK c \in Checks : \E r \in c.results :
             UpdateHealth(r) /\ hFailures' = (IF r = "error" THEN 1 ELSE 0)
      BY <2>1 DEF FirstCheck
    <3>2. PICK r \in c.results : UpdateHealth(r) /\ hFailures' = (IF r = "error" THEN 1 ELSE 0)
      BY <3>1
    <3>3. r \in {"good", "bad", "error"}
      BY CheckResults
    <3>4. Checking /\ hFailures = 0 /\ UNCHANGED hConfig /\ hStage' = "loop"
      BY <2>1 DEF FirstCheck, HealthInv, Checking
    <3>5. hFailures' = (IF r = "error" THEN hFailures + 1 ELSE 0) /\ ~(hFailures' >= MaxTrials)
      BY <3>2, <3>4 DEF MaxTrials
    <3> QED BY <3>2, <3>3, <3>4, <3>5, CheckIsPromised, SMTT(30) DEF Promise!PromiseNext
  <2>2. CASE TickCheck
    <3>1. PICK c \in Checks : \E r \in c.results :
             UpdateHealth(r) /\ hFailures' = (IF r = "error" THEN hFailures + 1 ELSE 0)
      BY <2>2 DEF TickCheck
    <3>2. PICK r \in c.results : UpdateHealth(r) /\ hFailures' = (IF r = "error" THEN hFailures + 1 ELSE 0)
      BY <3>1
    <3>3. r \in {"good", "bad", "error"}
      BY CheckResults
    <3>4. Checking /\ UNCHANGED hConfig /\ hStage' = (IF hFailures' >= MaxTrials THEN "leave" ELSE "loop")
      BY <2>2 DEF TickCheck, Checking
    <3> QED BY <3>2, <3>3, <3>4, CheckIsPromised DEF Promise!PromiseNext
  <2>3. CASE SeeCancelled
    <3>1. UNCHANGED <<hRetries, hConsec, hSent, hFailures, hSaid>> /\ hStage' = "leave"
      BY <2>3 DEF SeeCancelled, hConfig
    <3>2. Promise!Cancelled
      BY <3>1 DEF Promise!Cancelled, Threshold
    <3> QED BY <3>2 DEF Promise!PromiseNext
  <2>4. CASE StartMonitor \/ Intercept \/ CancelMonitor \/ Leave \/ UNCHANGED hVars
    <3>1. UNCHANGED <<hRetries, hConsec, hSent, hFailures, hSaid>> /\ Over' = Over
      BY <2>4 DEF StartMonitor, Intercept, CancelMonitor, Leave, hVars, hConfig, Over
    <3> QED BY <3>1 DEF Promise!promiseVars, Threshold, Over
  <2> QED BY <2>1, <2>2, <2>3, <2>4 DEF HNext
<1> QED BY <1>1, <1>2, HealthCorrect, PTL DEF HSpec, HealthImplements, Promise!PromiseSpec
(***************************************************************************)
(* Rate limiters: what a limiter has left and what it has let through make  *)
(* up its burst.                                                            *)
(***************************************************************************)
LimiterInv ==
    /\ \A k \in DOMAIN tokens : tokens[k] \in 0..Burst
    /\ \A k \in DOMAIN passed : /\ k \in DOMAIN tokens
                                /\ passed[k] \in Nat
                                /\ tokens[k] + passed[k] <= Burst

\* There are no limiters at first.
LEMMA LimiterInitially == MInit => LimiterInv
  BY DEF MInit, LimiterInv

\* A request takes a token of its limiter, if there is one.
LEMMA RateLimitKeeps ==
    ASSUME LimiterInv, NEW r \in MRequests, RateLimit(r)
    PROVE  LimiterInv'
<1> DEFINE key == <<Current(r).id, mq[r].addr.ip>>
           left == Limiter(key)
           was == Value(passed, key, 0)
<1>1. Burst \in Nat
  BY BurstAssumption, SMTT(30)
<1>2. left \in 0..Burst
  BY <1>1, SMTT(30) DEF LimiterInv, Limiter, Value
<1>3. was \in Nat /\ left + was <= Burst
  BY <1>1, <1>2, SMTT(30) DEF LimiterInv, Limiter, Value
<1>4. \/ UNCHANGED <<tokens, passed>>
      \/ left > 0 /\ tokens' = Stored(tokens, key, left - 1) /\ passed' = Stored(passed, key, was + 1)
      \/ left = 0 /\ tokens' = Stored(tokens, key, 0) /\ UNCHANGED passed
  BY SMTT(30) DEF RateLimit
<1>5. CASE UNCHANGED <<tokens, passed>>
  BY <1>5 DEF LimiterInv
<1> HIDE DEF left, was, key
<1>6. CASE left > 0 /\ tokens' = Stored(tokens, key, left - 1) /\ passed' = Stored(passed, key, was + 1)
  <2>1. /\ DOMAIN tokens' = DOMAIN tokens \cup {key} /\ tokens'[key] = left - 1
        /\ \A k \in DOMAIN tokens : k # key => tokens'[k] = tokens[k]
        /\ DOMAIN passed' = DOMAIN passed \cup {key} /\ passed'[key] = was + 1
        /\ \A k \in DOMAIN passed : k # key => passed'[k] = passed[k]
    BY <1>6 DEF Stored
  <2>2. left - 1 \in 0..Burst /\ was + 1 \in Nat /\ (left - 1) + (was + 1) <= Burst
    BY <1>1, <1>2, <1>3, <1>6, SMTT(30)
  <2> QED BY <2>1, <2>2 DEF LimiterInv
<1>7. CASE left = 0 /\ tokens' = Stored(tokens, key, 0) /\ UNCHANGED passed
  <2>1. /\ DOMAIN tokens' = DOMAIN tokens \cup {key} /\ tokens'[key] = 0
        /\ \A k \in DOMAIN tokens : k # key => tokens'[k] = tokens[k]
    BY <1>7 DEF Stored
  <2>2. 0 \in 0..Burst /\ (key \in DOMAIN passed => was = passed[key])
    BY <1>1 DEF was, Value
  <2> QED BY <1>3, <1>7, <2>1, <2>2, SMTT(30) DEF LimiterInv
<1> QED BY <1>4, <1>5, <1>6, <1>7

\* Refill fills every limiter and starts the counting again.
LEMMA RefillKeeps ==
    ASSUME LimiterInv, Refill
    PROVE  LimiterInv'
<1>1. tokens' = [k \in DOMAIN tokens |-> Burst] /\ passed' = <<>> /\ Burst \in 0..Burst
  BY BurstAssumption DEF Refill
<1> QED BY <1>1 DEF LimiterInv

\* Every request, and time passing, keeps the limiter's counts within what was refilled.
LEMMA LimiterStep == LimiterInv /\ [MNext]_mwVars => LimiterInv'
<1> SUFFICES ASSUME LimiterInv, [MNext]_mwVars PROVE LimiterInv'
  OBVIOUS
<1>1. ASSUME NEW r \in MRequests, RateLimit(r) PROVE LimiterInv'
  BY <1>1, RateLimitKeeps
<1>2. CASE Refill
  BY <1>2, RefillKeeps, SMTT(30)
<1>3. ASSUME NEW r \in MRequests, MStep(r), ~RateLimit(r) PROVE UNCHANGED <<tokens, passed>>
  BY <1>3, Zenon DEF MStep, Arrive, Bypass, RealIP, CloudflareRealIP, CidrWhitelist, SetXForwarded, ModifyRequest,
              RedirectHTTP, ForwardAuth, Captcha, Oidc, ErrorPage, ModifyHTML, Upstream, ModifyResponse, Respond
<1>4. CASE HourPasses \/ (\E s \in DOMAIN sessions : Expire(s)) \/ UNCHANGED mwVars
  BY <1>4, SMTT(30) DEF HourPasses, Expire, mwVars, LimiterInv
<1>5. UNCHANGED <<tokens, passed>> => LimiterInv'
  BY DEF LimiterInv
<1> QED BY <1>1, <1>2, <1>3, <1>4, <1>5, SMTT(30) DEF MNext

\* Between two refills a limiter lets no more than its burst of requests through, however
\* many requests of a host are in the middlewares at the same time (rateLimiter.limit).
THEOREM LimiterRateBound == MSpec => []RateBound
<1>1. LimiterInv => RateBound
  <2> SUFFICES ASSUME LimiterInv, NEW k \in DOMAIN passed PROVE passed[k] <= Burst
    BY DEF RateBound
  <2>1. Burst \in Nat /\ tokens[k] \in 0..Burst /\ passed[k] \in Nat /\ tokens[k] + passed[k] <= Burst
    BY BurstAssumption DEF LimiterInv
  <2> QED BY <2>1
<1> QED BY <1>1, LimiterInitially, LimiterStep, PTL DEF MSpec
(***************************************************************************)
(* The link of a load balancer.  Every balancer was made by a route of its  *)
(* own, and the link is that of the one whose maker has not gone yet: a     *)
(* second one is made only when the first maker has taken the link away.    *)
(***************************************************************************)
LinkInv ==
    /\ made \in Nat /\ linked \in 0..made /\ made <= Cardinality(LBRoutes)
    /\ creator \in [Balancers -> LBRoutes \cup {"none"}]
    /\ stage \in [LBRoutes -> {"new", "add", "track", "running", "untrack", "finish", "gone"}]
    /\ joined \in [LBRoutes -> 0..made]
    /\ DOMAIN members = Balancers
    /\ \A r \in LBRoutes : stage[r] # "new" => joined[r] \in 1..made
    /\ \A b \in 1..made : creator[b] \in LBRoutes /\ joined[creator[b]] = b /\ stage[creator[b]] # "new"
    /\ \A b \in 1..made : stage[creator[b]] # "gone" => linked = b
    /\ \A r \in LBRoutes : stage[r] \in {"track", "running"} =>
          HostOf[r] \in DOMAIN members[joined[r]] /\ members[joined[r]][HostOf[r]] = r

\* The URL of every route has a host of its own.  Of two routes with the same host and the
\* same link the second replaces the server of the first.
OwnHosts == \A r, s \in LBRoutes : HostOf[r] = HostOf[s] => r = s

\* No balancer and no link at first.
LEMMA LinkInitially == LBInit => LinkInv
<1> SUFFICES ASSUME LBInit PROVE LinkInv
  OBVIOUS
<1>1. Cardinality(LBRoutes) \in Nat
  BY LBRoutesAssumption, FS_CardinalityType, SMTT(30)
<1>2. /\ linked = 0 /\ made = 0 /\ creator = [b \in Balancers |-> "none"]
      /\ stage = [r \in LBRoutes |-> "new"] /\ joined = [r \in LBRoutes |-> 0]
      /\ members = [b \in Balancers |-> <<>>]
  BY DEF LBInit
<1> QED BY <1>1, <1>2 DEF LinkInv

\* A route that has made no balancer yet leaves room for one: the makers differ.
LEMMA RoomForBalancer ==
    ASSUME LinkInv, NEW r \in LBRoutes, stage[r] = "new"
    PROVE  made + 1 <= Cardinality(LBRoutes)
<1>1. Cardinality(LBRoutes) \in Nat /\ made \in Nat
  BY LBRoutesAssumption, FS_CardinalityType DEF LinkInv
<1> SUFFICES ASSUME Cardinality(LBRoutes) < made + 1 PROVE FALSE
  BY <1>1
<1> DEFINE f == [b \in 1..(made + 1) |-> IF b = made + 1 THEN r ELSE creator[b]]
<1>2. IsFiniteSet(1..(made + 1)) /\ Cardinality(1..(made + 1)) = made + 1
  BY <1>1, FS_Interval
<1>3. \A b \in 1..(made + 1) : b = made + 1 \/ b \in 1..made
  BY <1>1
<1>4. f \in [1..(made + 1) -> LBRoutes]
  BY <1>3 DEF LinkInv
<1>5. PICK b, c \in 1..(made + 1) : b # c /\ f[b] = f[c]
  <2> HIDE DEF f
  <2> QED BY <1>2, <1>4, LBRoutesAssumption, FS_PigeonHole, ZenonT(30)
<1>6. \A d \in 1..made : f[d] = creator[d] /\ creator[d] # r /\ joined[creator[d]] = d
  BY <1>1 DEF LinkInv
<1>7. f[made + 1] = r
  BY <1>1
<1> HIDE DEF f
<1> QED BY <1>3, <1>5, <1>6, <1>7, SMTT(30)

\* A route makes the balancer: the link was free, so the makers of the others are gone.
LEMMA CreateKeeps ==
    ASSUME LinkInv, NEW r \in LBRoutes, CreateBalancer(r)
    PROVE  LinkInv'
<1>1. /\ stage[r] = "new" /\ linked = 0 /\ made' = made + 1 /\ linked' = made + 1
      /\ creator' = [creator EXCEPT ![made + 1] = r]
      /\ joined' = [joined EXCEPT ![r] = made + 1]
      /\ stage' = [stage EXCEPT ![r] = "add"] /\ members' = members
  BY SMTT(30) DEF CreateBalancer
<1>2. made \in Nat /\ made + 1 <= Cardinality(LBRoutes) /\ Cardinality(LBRoutes) \in Nat
  BY <1>1, RoomForBalancer, LBRoutesAssumption, FS_CardinalityType, SMTT(30) DEF LinkInv
<1>3. made + 1 \in Balancers /\ made + 1 \in 1..(made + 1) /\ 1..made \subseteq Balancers
  BY <1>2 DEF Balancers
<1>4. \A b \in 1..(made + 1) : b = made + 1 \/ (b \in 1..made /\ b # made + 1)
  BY <1>2, SMTT(30)
<1>5. /\ creator' \in [Balancers -> LBRoutes \cup {"none"}] /\ creator'[made + 1] = r
      /\ \A b \in 1..made : creator'[b] = creator[b]
  BY <1>1, <1>2, <1>3, SMTT(30) DEF LinkInv
<1>6. /\ stage' \in [LBRoutes -> {"new", "add", "track", "running", "untrack", "finish", "gone"}]
      /\ stage'[r] = "add" /\ \A s \in LBRoutes : s # r => stage'[s] = stage[s]
  BY <1>1 DEF LinkInv
<1>7. /\ joined' \in [LBRoutes -> 0..(made + 1)]
      /\ joined'[r] = made + 1 /\ \A s \in LBRoutes : s # r => joined'[s] = joined[s]
  BY <1>1, <1>2, SMTT(30) DEF LinkInv
<1>8. \A b \in 1..made : creator[b] \in LBRoutes /\ creator[b] # r /\ stage[creator[b]] = "gone"
  BY <1>1, <1>2, SMTT(30) DEF LinkInv
<1>9. \A s \in LBRoutes : stage'[s] # "new" => joined'[s] \in 1..(made + 1)
  BY <1>2, <1>3, <1>6, <1>7, SMTT(30) DEF LinkInv
<1>10. \A b \in 1..(made + 1) : creator'[b] \in LBRoutes /\ joined'[creator'[b]] = b /\ stage'[creator'[b]] # "new"
  BY <1>4, <1>5, <1>6, <1>7, <1>8, SMTT(30) DEF LinkInv
<1>11. \A b \in 1..(made + 1) : stage'[creator'[b]] # "gone" => b = made + 1
  BY <1>4, <1>5, <1>6, <1>8, SMTT(30)
<1>12. \A s \in LBRoutes : stage'[s] \in {"track", "running"} =>
          HostOf[s] \in DOMAIN members'[joined'[s]] /\ members'[joined'[s]][HostOf[s]] = s
  BY <1>1, <1>6, <1>7, SMTT(30) DEF LinkInv
<1>13. linked' \in 0..made' /\ made' \in Nat /\ made' <= Cardinality(LBRoutes) /\ DOMAIN members' = Balancers
  BY <1>1, <1>2, SMTT(30) DEF LinkInv
<1> QED BY <1>1, <1>5, <1>6, <1>7, <1>9, <1>10, <1>11, <1>12, <1>13, SMTT(30) DEF LinkInv, Balancers

\* A route finds the balancer that is linked.
LEMMA FindKeeps ==
    ASSUME LinkInv, NEW r \in LBRoutes, FindBalancer(r)
    PROVE  LinkInv'
<1>1. /\ stage[r] = "new" /\ linked # 0 /\ UNCHANGED <<made, linked, creator, members>>
      /\ joined' = [joined EXCEPT ![r] = linked]
      /\ stage' = [stage EXCEPT ![r] = "add"]
  BY DEF FindBalancer
<1>2. linked \in 1..made /\ linked \in 0..made
  BY <1>1 DEF LinkInv
<1>3. /\ stage' \in [LBRoutes -> {"new", "add", "track", "running", "untrack", "finish", "gone"}]
      /\ stage'[r] = "add" /\ \A s \in LBRoutes : s # r => stage'[s] = stage[s]
      /\ joined' \in [LBRoutes -> 0..made]
      /\ joined'[r] = linked /\ \A s \in LBRoutes : s # r => joined'[s] = joined[s]
  BY <1>1, <1>2, SMTT(30) DEF LinkInv
<1>4. \A b \in 1..made : creator[b] \in LBRoutes /\ creator[b] # r
  BY <1>1, SMTT(30) DEF LinkInv
<1> QED BY <1>1, <1>2, <1>3, <1>4, SMTT(30) DEF LinkInv

\* A step of a route after it has joined, that leaves the link alone or takes it away with
\* its maker, and that changes no server but its own.
LEMMA RouteMoves ==
    ASSUME LinkInv, NEW r \in LBRoutes, stage[r] \notin {"new", "gone"},
           NEW to \in {"track", "running", "untrack", "finish", "gone"},
           stage' = [stage EXCEPT ![r] = to], UNCHANGED <<made, creator, joined>>,
           linked' = (IF to = "gone" /\ creator[joined[r]] = r THEN 0 ELSE linked),
           DOMAIN members' = Balancers,
           \A s \in LBRoutes : s # r /\ stage[s] \in {"track", "running"} =>
              HostOf[s] \in DOMAIN members'[joined[s]] /\ members'[joined[s]][HostOf[s]] = s,
           to \in {"track", "running"} =>
              HostOf[r] \in DOMAIN members'[joined[r]] /\ members'[joined[r]][HostOf[r]] = r
    PROVE  LinkInv'
<1>1. /\ stage' \in [LBRoutes -> {"new", "add", "track", "running", "untrack", "finish", "gone"}]
      /\ stage'[r] = to /\ \A s \in LBRoutes : s # r => stage'[s] = stage[s]
  BY DEF LinkInv
<1>2. linked' \in 0..made'
  BY DEF LinkInv
<1>3. \A b \in 1..made : creator[b] \in LBRoutes /\ joined[creator[b]] = b
  BY SMTT(30) DEF LinkInv
<1>4. \A b \in 1..made : stage'[creator[b]] # "gone" => linked' = b
  <2> SUFFICES ASSUME NEW b \in 1..made, stage'[creator[b]] # "gone" PROVE linked' = b
    BY SMTT(30)
  <2>1. stage[creator[b]] # "gone" /\ (creator[b] = r => to # "gone")
    BY <1>1, <1>3, SMTT(30)
  <2>2. linked = b /\ b # 0
    BY <2>1, SMTT(30) DEF LinkInv
  <2>3. CASE to = "gone" /\ creator[joined[r]] = r
    <3>1. joined[r] \in 1..made /\ stage[r] # "gone"
      BY <2>3, SMTT(30) DEF LinkInv
    <3>2. linked = joined[r]
      BY <2>3, <3>1, SMTT(30) DEF LinkInv
    <3> QED BY <2>1, <2>2, <2>3, <3>2, SMTT(30)
  <2> QED BY <2>2, <2>3, SMTT(30)
<1> QED BY <1>1, <1>2, <1>3, <1>4, ZenonT(30) DEF LinkInv

\* The balancer a route has joined is one of those there may be.
LEMMA JoinedBalancer ==
    ASSUME LinkInv, NEW r \in LBRoutes, stage[r] # "new"
    PROVE  joined[r] \in Balancers
<1>1. Cardinality(LBRoutes) \in Nat
  BY LBRoutesAssumption, FS_CardinalityType
<1>2. joined[r] \in 1..made /\ made \in Nat /\ made <= Cardinality(LBRoutes)
  BY Zenon DEF LinkInv
<1> QED BY <1>1, <1>2 DEF Balancers

\* AddServer puts the route's server into the pool; another key keeps its server.
LEMMA AddServerKeeps ==
    ASSUME OwnHosts, LinkInv, NEW r \in LBRoutes, AddServer(r)
    PROVE  LinkInv'
<1> DEFINE b == joined[r]
<1>1. /\ stage[r] = "add" /\ stage' = [stage EXCEPT ![r] = "track"]
      /\ members' = [members EXCEPT ![b] = With(members[b], HostOf[r], r)]
      /\ UNCHANGED <<made, linked, creator, joined>>
  BY ZenonT(30) DEF AddServer
<1>2. b \in Balancers /\ DOMAIN members' = Balancers
      /\ members'[b] = With(members[b], HostOf[r], r)
      /\ \A c \in Balancers : c # b => members'[c] = members[c]
  <2>1. b \in Balancers
    <3>1. stage[r] # "new"
      BY <1>1
    <3> QED BY <3>1, JoinedBalancer, SMTT(30)
  <2>2. DOMAIN members = Balancers
    BY Zenon DEF LinkInv
  <2> QED BY <1>1, <2>1, <2>2, SMTT(30)
<1>3. /\ HostOf[r] \in DOMAIN members'[b] /\ members'[b][HostOf[r]] = r
      /\ \A k \in DOMAIN members[b] : k # HostOf[r] => k \in DOMAIN members'[b] /\ members'[b][k] = members[b][k]
  BY <1>2, SMTT(30) DEF With
<1>4. ASSUME NEW s \in LBRoutes, s # r, stage[s] \in {"track", "running"}
      PROVE  HostOf[s] \in DOMAIN members'[joined[s]] /\ members'[joined[s]][HostOf[s]] = s
  <2>1. /\ joined[s] \in Balancers /\ HostOf[s] # HostOf[r]
        /\ HostOf[s] \in DOMAIN members[joined[s]] /\ members[joined[s]][HostOf[s]] = s
    <3>1. stage[s] # "new"
      BY <1>4, SMTT(30)
    <3>2. joined[s] \in Balancers
      BY <3>1, JoinedBalancer
    <3> QED BY <1>4, <3>2, Zenon DEF LinkInv, OwnHosts
  <2> QED BY <1>2, <1>3, <2>1, SMTT(30)
<1> QED BY <1>1, <1>2, <1>3, <1>4, RouteMoves, Zenon

\* RemoveServer takes the route's server out of the pool.
LEMMA RemoveServerKeeps ==
    ASSUME OwnHosts, LinkInv, NEW r \in LBRoutes, RemoveServer(r)
    PROVE  LinkInv'
<1> DEFINE b == joined[r]
<1>1. /\ stage[r] = "running" /\ UNCHANGED <<made, linked, creator, joined>>
      /\ \/ stage' = [stage EXCEPT ![r] = "untrack"] /\ members' = [members EXCEPT ![b] = Drop(members[b], HostOf[r])]
         \/ stage' = [stage EXCEPT ![r] = "finish"] /\ members' = members
  BY ZenonT(30) DEF RemoveServer
<1>2. /\ b \in Balancers /\ DOMAIN members' = Balancers
      /\ \A c \in Balancers : c # b => members'[c] = members[c]
      /\ members'[b] \in {members[b], Drop(members[b], HostOf[r])}
  <2>1. b \in Balancers
    <3>1. stage[r] # "new"
      BY <1>1, SMTT(30)
    <3> QED BY <3>1, JoinedBalancer
  <2>2. DOMAIN members = Balancers
    BY Zenon DEF LinkInv
  <2> QED BY <1>1, <2>1, <2>2, SMTT(30)
<1>3. \A k \in DOMAIN members[b] : k # HostOf[r] => k \in DOMAIN members'[b] /\ members'[b][k] = members[b][k]
  BY <1>2, SMTT(30) DEF Drop
<1>4. ASSUME NEW s \in LBRoutes, s # r, stage[s] \in {"track", "running"}
      PROVE  HostOf[s] \in DOMAIN members'[joined[s]] /\ members'[joined[s]][HostOf[s]] = s
  <2>0. stage[s] # "new"
    BY <1>4
  <2>1. joined[s] \in Balancers
    BY <2>0, JoinedBalancer
  <2>2. /\ HostOf[s] # HostOf[r]
        /\ HostOf[s] \in DOMAIN members[joined[s]] /\ members[joined[s]][HostOf[s]] = s
    BY <1>4, Zenon DEF LinkInv, OwnHosts
  <2> QED BY <1>2, <1>3, <2>1, <2>2
<1> QED BY <1>1, <1>2, <1>4, RouteMoves, Zenon

\* The other steps of a route move no server.
LEMMA RouteStepKeeps ==
    ASSUME LinkInv, NEW r \in LBRoutes, OnAddServer(r) \/ OnRemoveServer(r) \/ Finished(r)
    PROVE  LinkInv'
<1>1. /\ DOMAIN members = Balancers
      /\ \A s \in LBRoutes : stage[s] \in {"track", "running"} =>
            HostOf[s] \in DOMAIN members[joined[s]] /\ members[joined[s]][HostOf[s]] = s
  BY SMTT(30) DEF LinkInv
<1>2. CASE OnAddServer(r)
  <2>1. stage[r] = "track" /\ stage' = [stage EXCEPT ![r] = "running"]
        /\ UNCHANGED <<made, linked, creator, joined, members>>
    BY <1>2 DEF OnAddServer
  <2> QED BY <1>1, <2>1, RouteMoves, ZenonT(30)
<1>3. CASE OnRemoveServer(r)
  <2>1. stage[r] = "untrack" /\ stage' = [stage EXCEPT ![r] = "finish"]
        /\ UNCHANGED <<made, linked, creator, joined, members>>
    BY <1>3, SMTT(30) DEF OnRemoveServer
  <2> QED BY <1>1, <2>1, RouteMoves, ZenonT(30)
<1>4. CASE Finished(r)
  <2>1. stage[r] = "finish" /\ stage' = [stage EXCEPT ![r] = "gone"]
        /\ linked' = (IF creator[joined[r]] = r THEN 0 ELSE linked)
        /\ UNCHANGED <<made, creator, joined, members>>
    BY <1>4, Zenon DEF Finished
  <2> QED BY <1>1, <2>1, RouteMoves, ZenonT(30)
<1> QED BY <1>2, <1>3, <1>4, Zenon

\* Every start and finish of a route keeps the links and the balancers' members in step.
LEMMA LinkStep ==
    ASSUME OwnHosts, LinkInv, [LBNext]_lbVars
    PROVE  LinkInv'
<1>1. ASSUME NEW r \in LBRoutes, CreateBalancer(r) \/ FindBalancer(r) PROVE LinkInv'
  BY <1>1, CreateKeeps, FindKeeps
<1>2. ASSUME NEW r \in LBRoutes, AddServer(r) \/ RemoveServer(r) PROVE LinkInv'
  BY <1>2, AddServerKeeps, RemoveServerKeeps
<1>3. ASSUME NEW r \in LBRoutes, OnAddServer(r) \/ OnRemoveServer(r) \/ Finished(r) PROVE LinkInv'
  BY <1>3, RouteStepKeeps, SMTT(30)
<1>4. CASE \/ \E r \in LBRoutes : HealthChanges(r)
           \/ \E q \in LBRequests : Avail(q) \/ ChooseServer(q) \/ Count(q) \/ Done(q)
           \/ UNCHANGED lbVars
  <2>1. UNCHANGED <<made, linked, creator, stage, joined, members>>
    BY <1>4, Zenon DEF HealthChanges, Avail, ChooseServer, Count, Done, reqOnly, lbRouteVars, lbVars
  <2> QED BY <2>1, SMTT(30) DEF LinkInv
<1> QED BY <1>1, <1>2, <1>3, <1>4 DEF LBNext

\* As long as the route that made the balancer runs, a route that runs is reached by the
\* link, in whatever order any number of routes join, leave and come after each other
\* (addToLoadBalancer and its OnFinished).
THEOREM LinkLeadsToRoutes ==
    ASSUME OwnHosts
    PROVE  LBSpec => []LinkReaches
<1>1. LinkInv /\ [LBNext]_lbVars => LinkInv'
  BY LinkStep, SMTT(30)
<1>2. LinkInv => LinkReaches
  <2> SUFFICES ASSUME LinkInv, NEW r \in LBRoutes, stage[r] = "running",
                      stage[creator[joined[r]]] = "running"
               PROVE  linked = joined[r] /\ members[joined[r]][HostOf[r]] = r
    BY SMTT(30) DEF LinkReaches
  <2>1. joined[r] \in 1..made
    BY DEF LinkInv
  <2> QED BY <2>1, SMTT(30) DEF LinkInv
<1> QED BY <1>1, <1>2, LinkInitially, PTL DEF LBSpec
=============================================================================
