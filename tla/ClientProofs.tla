---------------------------- MODULE ClientProofs ----------------------------
(***************************************************************************)
(* Proofs about the clients the proxy keeps.                                *)
(*                                                                          *)
(* The ACME client of AutoCert, for any callers, cooldowns and bounds: the  *)
(* pair of files, the cooldown of failed attempts across crashes, and the   *)
(* certificate served.  All three rest on attempts that come one after the  *)
(* other.  `overlap' tells when they do not; Alone says what it rules out   *)
(* while it is false, Files what the two files hold in the middle of an     *)
(* attempt, and Cooled what the last-failure file and its copy in memory    *)
(* know of the attempt that failed last.                                    *)
(*                                                                          *)
(* The shared clients of DockerClient, for any finite set of holders and    *)
(* any bounds: the reference count is exact, a client obtained from         *)
(* NewClient stays open until it is closed, and an unused client carries    *)
(* the time of its last Close.                                              *)
(***************************************************************************)
EXTENDS AutoCert, DockerClient, FiniteSetTheorems, TLAPS

PCs == {"idle", "check", "mark", "request", "sent", "saveKey", "saveCert", "publish"}

\* A caller that is not idle is the only one, unless attempts overlapped; "main" is in
\* ObtainCert only from Setup and from the scheduler's renewal.
Alone ==
    /\ ~up => main = "setup" /\ \A a \in Callers : certPc[a] = "idle"
    /\ main = "setup" => \A a \in Renewers : certPc[a] = "idle"
    /\ main \in {"wait", "reset", "failed"} => certPc["main"] = "idle"
    /\ ~overlap =>
         /\ \A a, b \in Callers : certPc[a] # "idle" /\ certPc[b] # "idle" => a = b
         /\ main = "reset" => \A a \in Callers : certPc[a] = "idle"

\* The files while attempts neither overlap nor end between two writes.
Files ==
    ~torn /\ ~overlap =>
        /\ \A a \in Callers : certPc[a] = "saveCert" => keyFile = cert[a]
        /\ \A a \in Callers : certPc[a] = "publish" => certFile = cert[a]
        /\ keyFile = certFile \/ \E a \in Callers : certPc[a] = "saveCert"
        /\ tlsCert # 0 => certFile = tlsCert \/ \E a \in Callers : certPc[a] = "publish"

\* The scheduler runs with a certificate.
Serving == main \in {"wait", "renew", "reset"} => tlsCert # 0

\* An attempt marks its beginning in memory and in the file; what the next one reads is
\* no older than the attempt that failed last, or that one is past its cooldown.
Marked == {"request", "sent", "saveKey", "saveCert", "publish"}
Passed == failed >= RequestCooldown

Cooled ==
    /\ \A a \in Callers : certPc[a] \notin Marked => mark[a] = NoTime
    /\ ~overlap =>
         /\ \A a \in Callers : certPc[a] \in Marked => failureFile = mark[a] /\ lastFailure = mark[a]
         /\ \A a \in Callers : certPc[a] \in Marked \cup {"mark"} => Passed
         /\ main = "reset" => Passed
         /\ Passed \/ (failureFile <= failed /\ GetLastFailure <= failed)

-----------------------------------------------------------------------------
\* Ages stay ages.
LEMMA AgeTypes ==
    /\ 0 \in Ages /\ NoTime \in Ages /\ Ages \subseteq Nat
    /\ \A t \in Ages : Older(t) \in Ages
    /\ \A s, t \in Ages : Latest(s, t) \in Ages /\ Latest(s, t) <= s /\ Latest(s, t) <= t
  BY CooldownAssumption DEF Ages, NoTime, Older, Latest

\* The process is not running at first and there are no files.
LEMMA Initially == CertInit => CertTypeOK /\ Alone /\ Files /\ Serving /\ Cooled
<1> SUFFICES ASSUME CertInit PROVE CertTypeOK /\ Alone /\ Files /\ Serving /\ Cooled
  OBVIOUS
<1> USE CooldownAssumption, AutoCertBounds
<1>1. CertTypeOK
  <2>1. certPc \in [Callers -> PCs] /\ \A a \in Callers : certPc[a] = "idle"
    BY DEF CertInit, PCs
  <2>2. cert \in [Callers -> 0..MaxIssued] /\ mark \in [Callers -> Ages]
    BY AgeTypes DEF CertInit
  <2>3. {timer, tlsCert, keyFile, certFile, issued} \subseteq 0..MaxIssued /\ due \subseteq Certs
    BY DEF CertInit
  <2>4. {lastFailure, failureFile, failed} \subseteq Ages
    BY AgeTypes DEF CertInit
  <2>5. certFails \in 0..MaxCertFails /\ crashes \in 0..MaxCrashes
    BY DEF CertInit
  <2> QED BY <2>1, <2>2, <2>3, <2>4, <2>5, Zenon DEF CertInit, CertTypeOK, PCs
<1>2. Alone /\ Files /\ Serving
  BY DEF CertInit, Alone, Files, Serving, Callers
<1>3. Cooled
  BY DEF CertInit, Cooled, Passed, NoTime, GetLastFailure, Marked
<1> QED BY <1>1, <1>2, <1>3

\* Every step keeps the types, and a caller past the ACME server its certificate.
LEMMA TypeStep ==
    ASSUME CertTypeOK, [CertNext]_certVars
    PROVE  CertTypeOK'
<1> USE CooldownAssumption, AutoCertBounds, AgeTypes
<1>0. lastFailure \in Ages /\ failureFile \in Ages /\ failed \in Ages /\ GetLastFailure \in Ages
  BY DEF CertTypeOK, GetLastFailure
<1>m. "main" \in Callers
  BY DEF Callers
<1>1. CASE Start
  BY <1>1 DEF CertTypeOK, Start, call, disk, hist, bounds
<1>2. CASE LoadCert
  BY <1>2, <1>m DEF CertTypeOK, LoadCert, Enter, disk, hist, bounds
<1>3. CASE TimerFires
  <2>1. overlap' \in BOOLEAN
    BY <1>3 DEF TimerFires, Overlap
  <2>2. main' \in {"setup", "wait", "renew", "reset", "failed"} /\ timer' \in 0..MaxIssued
    BY <1>3 DEF CertTypeOK, TimerFires
  <2>3. /\ certPc' \in [Callers -> PCs]
        /\ \A a \in Callers : certPc'[a] = certPc[a] \/ certPc'[a] = "check"
    BY <1>3, <1>m DEF CertTypeOK, PCs, TimerFires, Enter
  <2>4. lastFailure' \in Ages /\ failureFile' = failureFile
    BY <1>0, <1>3 DEF TimerFires
  <2>5. UNCHANGED <<up, cert, mark, tlsCert, keyFile, certFile, due, failed, torn, issued, certFails, crashes>>
    BY <1>3 DEF TimerFires, bounds
  <2> QED BY <2>1, <2>2, <2>3, <2>4, <2>5 DEF CertTypeOK, PCs
<1>4. CASE TimerFiresRenewed
  BY <1>0, <1>4 DEF CertTypeOK, TimerFiresRenewed, Overlap, call, disk, bounds
<1>5. CASE TimerFiresUnread
  BY <1>5 DEF CertTypeOK, TimerFiresUnread, call, disk, hist
<1>6. CASE ResetTimer
  BY <1>6 DEF CertTypeOK, ResetTimer, ClearLastFailure, call, hist, bounds
<1>7. CASE Tick
  BY <1>0, <1>7, Zenon DEF CertTypeOK, Tick, proc, bounds
<1>8. CASE Crash
  <2>1. failed' \in Ages
    BY <1>0, <1>8 DEF CertTypeOK, Crash
  <2>2. certPc' \in [Callers -> PCs] /\ \A a \in Callers : certPc'[a] = "idle"
    BY <1>8 DEF Crash, PCs
  <2>3. cert' \in [Callers -> 0..MaxIssued] /\ mark' \in [Callers -> Ages]
    BY <1>8 DEF Crash
  <2>4. torn' \in BOOLEAN /\ crashes' \in 0..MaxCrashes
    BY <1>8 DEF Crash, CertTypeOK
  <2>5. /\ up' = FALSE /\ main' = "setup" /\ timer' = 0 /\ tlsCert' = 0 /\ lastFailure' = NoTime
        /\ UNCHANGED <<failureFile, keyFile, certFile, due, overlap, issued, certFails>>
    BY <1>8 DEF Crash, disk
  <2>6. {timer, tlsCert, keyFile, certFile, issued}' \subseteq 0..MaxIssued /\ due' \subseteq Certs
    BY <2>5 DEF CertTypeOK
  <2>7. {lastFailure, failureFile, failed}' \subseteq Ages
    BY <1>0, <2>1, <2>5
  <2> QED BY <2>2, <2>3, <2>4, <2>5, <2>6, <2>7, Zenon DEF CertTypeOK, PCs
<1>9. ASSUME NEW a \in Callers, Renew(a) PROVE CertTypeOK'
  BY <1>9 DEF CertTypeOK, Renew, Enter, Overlap, proc, disk, bounds
<1>10. ASSUME NEW a \in Callers, CheckCooldown(a) PROVE CertTypeOK'
  BY <1>0, <1>10 DEF CertTypeOK, CheckCooldown, Return, UpdateLastFailure, hist, bounds
<1>11. ASSUME NEW a \in Callers, Mark(a) PROVE CertTypeOK'
  BY <1>11 DEF CertTypeOK, Mark, UpdateLastFailure, proc, hist, bounds
<1>12. ASSUME NEW a \in Callers, Send(a) PROVE CertTypeOK'
  BY <1>12 DEF CertTypeOK, Send, proc, disk, hist, bounds
<1>13. ASSUME NEW a \in Callers, Issue(a) PROVE CertTypeOK'
  BY <1>13 DEF CertTypeOK, Issue, proc, disk, hist
<1>14. ASSUME NEW a \in Callers, SaveKey(a) PROVE CertTypeOK'
  BY <1>14 DEF CertTypeOK, SaveKey, proc, hist, bounds
<1>15. ASSUME NEW a \in Callers, SaveCert(a) PROVE CertTypeOK'
  BY <1>15 DEF CertTypeOK, SaveCert, proc, hist, bounds
<1>16. ASSUME NEW a \in Callers, Publish(a) PROVE CertTypeOK'
  BY <1>16 DEF CertTypeOK, Publish, Return, UpdateLastFailure, ClearLastFailure, hist, bounds
<1>17. ASSUME NEW a \in Callers, AttemptFails(a) PROVE CertTypeOK'
  <2>1. failed' \in Ages
    <3>1. mark[a] \in Ages /\ failed' = Latest(failed, mark[a])
      BY <1>17 DEF CertTypeOK, AttemptFails
    <3> QED BY <1>0, <3>1, Zenon
  <2>2. lastFailure' \in Ages /\ failureFile' \in Ages
    BY <1>0, <1>17 DEF AttemptFails, RecordFailure, UpdateLastFailure
  <2>3. /\ certPc' \in [Callers -> PCs] /\ certPc'[a] = "idle"
        /\ \A b \in Callers : b # a => certPc'[b] = certPc[b] /\ cert'[b] = cert[b]
        /\ cert' \in [Callers -> 0..MaxIssued] /\ mark' \in [Callers -> Ages]
    BY <1>17 DEF CertTypeOK, AttemptFails, Return, PCs
  <2>4. main' \in {"setup", "wait", "renew", "reset", "failed"} /\ timer' \in 0..MaxIssued /\ tlsCert' = tlsCert
    BY <1>17 DEF CertTypeOK, AttemptFails, Return
  <2>5. torn' \in BOOLEAN /\ certFails' \in 0..MaxCertFails
    BY <1>17 DEF AttemptFails, CertTypeOK
  <2>6. UNCHANGED <<up, keyFile, certFile, due, overlap, issued, crashes>>
    BY <1>17 DEF AttemptFails
  <2> QED BY <2>1, <2>2, <2>3, <2>4, <2>5, <2>6 DEF CertTypeOK, PCs
<1>18. ASSUME NEW c \in Certs, BecomesDue(c) PROVE CertTypeOK'
  BY <1>18 DEF CertTypeOK, BecomesDue, proc, call, disk, hist, bounds
<1>19. CASE UNCHANGED certVars
  BY <1>19 DEF CertTypeOK, certVars
<1> QED
  BY <1>1, <1>2, <1>3, <1>4, <1>5, <1>6, <1>7, <1>8, <1>9, <1>10, <1>11, <1>12, <1>13, <1>14,
     <1>15, <1>16, <1>17, <1>18, <1>19 DEF CertNext, CallerNext

\* Every step keeps attempts apart, or `overlap' tells.
LEMMA AloneStep ==
    ASSUME CertTypeOK, Alone, [CertNext]_certVars
    PROVE  Alone'
<1>m. "main" \in Callers /\ Renewers \subseteq Callers /\ Callers = Renewers \cup {"main"}
  BY DEF Callers
<1>p. certPc \in [Callers -> PCs]
  BY DEF CertTypeOK, PCs
<1> USE RenewersAssumption
<1>1. CASE Start
  BY <1>1 DEF Alone, Start, call, hist
<1>2. CASE LoadCert
  BY <1>2, <1>m, <1>p DEF Alone, LoadCert, Enter, hist
<1>3. CASE TimerFires
  <2>1. ~overlap' => ~overlap /\ \A b \in Callers \ {"main"} : certPc[b] = "idle"
    BY <1>3, Zenon DEF TimerFires, Overlap
  <2>2. up /\ up' /\ main = "wait" /\ certPc["main"] = "idle"
    BY <1>3 DEF Alone, TimerFires
  <2>3. CASE main' = main /\ certPc' = certPc
    BY <2>1, <2>2, <2>3 DEF Alone
  <2>4. CASE main' = "renew" /\ certPc' = [certPc EXCEPT !["main"] = "check"]
    BY <2>1, <2>2, <2>4, <1>m, <1>p DEF Alone
  <2> QED BY <1>3, <2>3, <2>4 DEF TimerFires, Enter
<1>4. CASE TimerFiresRenewed
  BY <1>4, <1>m, <1>p, Zenon DEF Alone, TimerFiresRenewed, Overlap, call
<1>5. CASE TimerFiresUnread
  BY <1>5 DEF Alone, TimerFiresUnread, call, hist
<1>6. CASE ResetTimer
  BY <1>6 DEF Alone, ResetTimer, call, hist
<1>7. CASE Tick
  BY <1>7 DEF Alone, Tick, proc
<1>8. CASE Crash
  BY <1>8, <1>m DEF Alone, Crash
<1>9. ASSUME NEW a \in Callers, Renew(a) PROVE Alone'
  BY <1>9, <1>m, <1>p, Zenon DEF Alone, Renew, Enter, Overlap, proc
<1>10. ASSUME NEW a \in Callers, certPc[a] # "idle", NEW q \in PCs \ {"idle"}, certPc' = [certPc EXCEPT ![a] = q],
              UNCHANGED <<up, main, overlap>>
       PROVE  Alone'
  BY <1>10, <1>m, <1>p DEF Alone
<1>11. ASSUME NEW a \in Callers, certPc[a] # "idle", NEW ok \in BOOLEAN, Return(a, ok), UNCHANGED <<up, overlap>>
       PROVE  Alone'
  BY <1>11, <1>m, <1>p DEF Alone, Return
<1>12. ASSUME NEW a \in Callers, CallerNext(a) PROVE Alone'
  <2>1. CASE CheckCooldown(a)
    BY <2>1, <1>10, <1>11, Zenon DEF CheckCooldown, PCs, hist
  <2>2. CASE Mark(a)
    BY <2>2, <1>10, Zenon DEF Mark, PCs, proc, hist
  <2>3. CASE Send(a)
    BY <2>3, <1>10, Zenon DEF Send, PCs, proc, hist
  <2>4. CASE Issue(a)
    BY <2>4, <1>10, Zenon DEF Issue, PCs, proc, hist
  <2>5. CASE SaveKey(a)
    BY <2>5, <1>10, Zenon DEF SaveKey, PCs, proc, hist
  <2>6. CASE SaveCert(a)
    BY <2>6, <1>10, Zenon DEF SaveCert, PCs, proc, hist
  <2>7. CASE Publish(a)
    BY <2>7, <1>11, Zenon DEF Publish, hist
  <2> QED BY <1>12, <2>1, <2>2, <2>3, <2>4, <2>5, <2>6, <2>7 DEF CallerNext
<1>13. ASSUME NEW a \in Callers, AttemptFails(a) PROVE Alone'
  BY <1>13, <1>11, Zenon DEF AttemptFails
<1>14. ASSUME NEW c \in Certs, BecomesDue(c) PROVE Alone'
  BY <1>14 DEF Alone, BecomesDue, proc, call, hist
<1>15. CASE UNCHANGED certVars
  BY <1>15 DEF Alone, certVars
<1> QED
  BY <1>1, <1>2, <1>3, <1>4, <1>5, <1>6, <1>7, <1>8, <1>9, <1>12, <1>13, <1>14, <1>15 DEF CertNext
\* The files, the certificate served and the history of a torn write under every step.
LEMMA FilesStep ==
    ASSUME CertTypeOK, Alone, Files, [CertNext]_certVars
    PROVE  Files'
<1>m. "main" \in Callers
  BY DEF Callers
<1>p. certPc \in [Callers -> PCs] /\ cert \in [Callers -> 0..MaxIssued]
  BY DEF CertTypeOK, PCs
<1> DEFINE Same == UNCHANGED <<keyFile, certFile>>
<1>1. ASSUME NEW a \in Callers, certPc[a] = "idle", certPc' = [certPc EXCEPT ![a] = "check"], cert' = cert,
             tlsCert' \in {tlsCert, certFile}, Same, torn' = torn, ~overlap' => ~overlap
      PROVE  Files'
  BY <1>1, <1>p DEF Files
<1>2. ASSUME UNCHANGED <<certPc, cert, keyFile, certFile, torn>>, tlsCert' \in {tlsCert, certFile},
             ~overlap' => ~overlap
      PROVE  Files'
  BY <1>2 DEF Files
<1>3. CASE Start
  BY <1>2, <1>3 DEF Start, call, disk, hist
<1>4. CASE LoadCert
  BY <1>1, <1>2, <1>4, <1>m DEF LoadCert, Enter, disk, hist
<1>5. CASE TimerFires
  <2>1. ~overlap' => ~overlap
    BY <1>5, Zenon DEF TimerFires, Overlap
  <2>2. certPc["main"] = "idle"
    BY <1>5 DEF TimerFires, Alone
  <2> QED BY <1>1, <1>2, <1>5, <2>1, <2>2, <1>m DEF TimerFires, Enter
<1>6. CASE TimerFiresRenewed
  <2>1. ~overlap' => ~overlap
    BY <1>6, Zenon DEF TimerFiresRenewed, Overlap
  <2> QED BY <1>2, <1>6, <2>1 DEF TimerFiresRenewed, call, disk
<1>7. CASE TimerFiresUnread
  BY <1>2, <1>7 DEF TimerFiresUnread, call, disk, hist
<1>8. CASE ResetTimer
  BY <1>2, <1>8 DEF ResetTimer, call, hist
<1>9. CASE Tick
  BY <1>2, <1>9 DEF Tick
<1>10. CASE Crash
  BY <1>10, <1>p, Zenon DEF Crash, Files, disk
<1>11. ASSUME NEW a \in Callers, Renew(a) PROVE Files'
  <2>1. ~overlap' => ~overlap
    BY <1>11, Zenon DEF Renew, Overlap
  <2> QED BY <1>1, <1>11, <2>1, Zenon DEF Renew, Enter, disk
<1>12. ASSUME NEW a \in Callers, certPc[a] \in {"check", "mark", "request", "sent"},
              NEW q \in {"mark", "request", "sent", "saveKey", "idle"},
              certPc' = [certPc EXCEPT ![a] = q], \A b \in Callers : b # a => cert'[b] = cert[b],
              UNCHANGED <<tlsCert, keyFile, certFile, torn, overlap>>
       PROVE  Files'
  BY <1>12, <1>p DEF Files
<1>13. ASSUME NEW a \in Callers, CheckCooldown(a) PROVE Files'
  <2>1. PICK q \in {"mark", "idle"} : certPc' = [certPc EXCEPT ![a] = q]
    BY <1>13 DEF CheckCooldown, Return
  <2>2. \A b \in Callers : b # a => cert'[b] = cert[b]
    BY <1>13, <1>p DEF CheckCooldown, Return
  <2>3. certPc[a] = "check" /\ UNCHANGED <<tlsCert, keyFile, certFile, torn, overlap>>
    BY <1>13, Zenon DEF CheckCooldown, hist
  <2> QED BY <1>12, <2>1, <2>2, <2>3, Zenon
<1>14. ASSUME NEW a \in Callers, Mark(a) PROVE Files'
  BY <1>12, <1>14, Zenon DEF Mark, hist
<1>15. ASSUME NEW a \in Callers, Send(a) PROVE Files'
  BY <1>12, <1>15, Zenon DEF Send, disk, hist
<1>16. ASSUME NEW a \in Callers, Issue(a) PROVE Files'
  <2>1. \A b \in Callers : b # a => cert'[b] = cert[b]
    BY <1>16, <1>p DEF Issue
  <2>2. certPc[a] = "sent" /\ certPc' = [certPc EXCEPT ![a] = "saveKey"] /\ UNCHANGED <<tlsCert, keyFile, certFile, torn, overlap>>
    BY <1>16 DEF Issue, disk, hist
  <2> QED BY <1>12, <2>1, <2>2, Zenon
<1>17. ASSUME NEW a \in Callers, SaveKey(a) PROVE Files'
  BY <1>17, <1>p DEF SaveKey, Files, Alone, hist
<1>18. ASSUME NEW a \in Callers, SaveCert(a) PROVE Files'
  BY <1>18, <1>p DEF SaveCert, Files, Alone, hist
<1>19. ASSUME NEW a \in Callers, Publish(a) PROVE Files'
  <2>1. certPc[a] = "publish" /\ tlsCert' = cert[a] /\ certPc' = [certPc EXCEPT ![a] = "idle"]
        /\ UNCHANGED <<keyFile, certFile, torn, overlap>>
    BY <1>19 DEF Publish, Return, hist
  <2> SUFFICES ASSUME ~torn, ~overlap PROVE Files'
    BY <2>1 DEF Files
  <2>2. certFile = cert[a] /\ \A b \in Callers : b # a => certPc[b] = "idle"
    BY <2>1 DEF Files, Alone
  <2>3. keyFile = certFile
    BY <2>1, <2>2 DEF Files
  <2>4. \A b \in Callers : certPc'[b] = "idle"
    BY <1>p, <2>1, <2>2
  <2> QED BY <2>1, <2>2, <2>3, <2>4 DEF Files
<1>20. ASSUME NEW a \in Callers, AttemptFails(a) PROVE Files'
  <2>1. /\ certPc[a] \in {"check", "mark", "sent", "saveKey", "saveCert"} /\ certPc' = [certPc EXCEPT ![a] = "idle"]
        /\ UNCHANGED <<tlsCert, keyFile, certFile, overlap>>
        /\ ~torn' => ~torn /\ certPc[a] # "saveCert"
    BY <1>20, Zenon DEF AttemptFails, Return
  <2>2. \A b \in Callers : b # a => cert'[b] = cert[b]
    BY <1>20, <1>p DEF AttemptFails, Return
  <2> QED BY <2>1, <2>2, <1>p DEF Files
<1>21. ASSUME NEW c \in Certs, BecomesDue(c) PROVE Files'
  BY <1>2, <1>21 DEF BecomesDue, call, disk, hist
<1>22. CASE UNCHANGED certVars
  BY <1>2, <1>22 DEF certVars
<1> QED
  BY <1>3, <1>4, <1>5, <1>6, <1>7, <1>8, <1>9, <1>10, <1>11, <1>13, <1>14, <1>15, <1>16, <1>17,
     <1>18, <1>19, <1>20, <1>21, <1>22 DEF CertNext, CallerNext
\* Setup starts the scheduler with a certificate, and none is ever taken back but by a crash.
LEMMA ServingStep ==
    ASSUME CertTypeOK, Alone, Serving, [CertNext]_certVars
    PROVE  Serving'
<1>1. ASSUME NEW a \in Callers, CheckCooldown(a) PROVE Serving'
  BY <1>1 DEF CheckCooldown, Return, Serving
<1>2. ASSUME NEW a \in Callers, Publish(a) PROVE Serving'
  <2>1. tlsCert' = cert[a] /\ cert[a] # 0
    BY <1>2 DEF Publish, CertTypeOK
  <2> QED BY <2>1 DEF Serving
<1>3. ASSUME NEW a \in Callers, AttemptFails(a) PROVE Serving'
  BY <1>3 DEF AttemptFails, Return, Serving
<1>4. ASSUME NEW a \in Callers, Renew(a) \/ Mark(a) \/ Send(a) \/ Issue(a) \/ SaveKey(a) \/ SaveCert(a)
      PROVE  Serving'
  BY <1>4 DEF Renew, Mark, Send, Issue, SaveKey, SaveCert, proc, Serving
<1>5. CASE Start \/ TimerFires \/ TimerFiresRenewed \/ TimerFiresUnread \/ ResetTimer \/ Tick
  BY <1>5 DEF Start, TimerFires, TimerFiresRenewed, TimerFiresUnread, ResetTimer, Tick, proc, Serving
<1>6. CASE LoadCert
  BY <1>6 DEF LoadCert, Serving
<1>7. CASE Crash
  BY <1>7 DEF Crash, Serving
<1>8. ASSUME NEW c \in Certs, BecomesDue(c) PROVE Serving'
  BY <1>8 DEF BecomesDue, proc, Serving
<1>9. CASE UNCHANGED certVars
  BY <1>9 DEF certVars, Serving
<1> QED BY <1>1, <1>2, <1>3, <1>4, <1>5, <1>6, <1>7, <1>8, <1>9 DEF CertNext, CallerNext

\* Time passes for the marks, the files and the history alike, and never backwards.
LEMMA OlderGrows ==
    /\ \A s, t \in Ages : s <= t => Older(s) <= Older(t)
    /\ \A t \in Ages : Older(t) >= t
    /\ Older(NoTime) = NoTime
    /\ \A t \in Ages : Older(t) = NoTime => t = NoTime
  BY CooldownAssumption DEF Ages, NoTime, Older

\* The marks are where the attempts are, the next attempt reads a failure that is no older
\* than the last one, or that one is past its cooldown.
LEMMA CooledStep ==
    ASSUME CertTypeOK, Alone, Cooled, [CertNext]_certVars
    PROVE  Cooled'
<1>m. "main" \in Callers
  BY DEF Callers
<1>p. certPc \in [Callers -> PCs] /\ mark \in [Callers -> Ages]
  BY DEF CertTypeOK, PCs
<1>a. /\ lastFailure \in Ages /\ failureFile \in Ages /\ failed \in Ages /\ GetLastFailure \in Ages
      /\ 0 \in Ages /\ NoTime \in Ages /\ Ages \subseteq Nat
  BY AgeTypes DEF CertTypeOK, GetLastFailure
<1>c. RequestCooldown \in Nat /\ RenewalCooldown \in Nat /\ RequestCooldown <= RenewalCooldown
  BY CooldownAssumption
<1>g. GetLastFailure = IF lastFailure = NoTime THEN failureFile ELSE lastFailure
  BY DEF GetLastFailure
<1>h. GetLastFailure' = IF lastFailure' = NoTime THEN failureFile' ELSE lastFailure'
  BY DEF GetLastFailure, NoTime
\* A step that leaves the marks, and the failures they speak of, where they are.
<1>1. ASSUME UNCHANGED <<certPc, mark, failureFile, lastFailure, failed>>, ~overlap' => ~overlap,
             main' = "reset" => main = "reset"
      PROVE  Cooled'
  BY <1>1 DEF Cooled, Passed, GetLastFailure, NoTime
\* An attempt begins.
<1>2. ASSUME NEW a \in Callers, certPc[a] = "idle", certPc' = [certPc EXCEPT ![a] = "check"],
             UNCHANGED <<mark, failureFile, failed>>, lastFailure' \in {lastFailure, GetLastFailure},
             ~overlap' => ~overlap /\ \A b \in Callers \ {a} : certPc[b] = "idle",
             main' = "reset" => main = "reset"
      PROVE  Cooled'
  <2>1. \A b \in Callers : certPc'[b] \notin Marked => mark'[b] = NoTime
    BY <1>2, <1>p DEF Cooled, Marked
  <2>2. ~overlap' => \A b \in Callers : certPc'[b] \in {"idle", "check"}
    BY <1>2, <1>p
  <2>3. GetLastFailure' = GetLastFailure
    BY <1>2, <1>g, <1>h
  <2> QED BY <1>2, <2>1, <2>2, <2>3 DEF Cooled, Passed, Marked, NoTime
<1>3. CASE Start
  BY <1>1, <1>3 DEF Start, call, disk, hist
<1>4. CASE LoadCert
  <2>1. ~overlap' => ~overlap /\ \A b \in Callers \ {"main"} : certPc[b] = "idle"
    BY <1>4 DEF LoadCert, Alone, hist, Callers
  <2> QED BY <1>1, <1>2, <1>4, <1>m, <2>1 DEF LoadCert, Enter, disk, hist
<1>5. CASE TimerFires
  <2>1. ~overlap' => ~overlap /\ \A b \in Callers \ {"main"} : certPc[b] = "idle"
    BY <1>5, Zenon DEF TimerFires, Overlap
  <2>2. certPc["main"] = "idle" /\ main' # "reset"
    BY <1>5 DEF TimerFires, Alone
  <2>3. CASE certPc' = certPc
    <3>1. ~overlap' => \A b \in Callers : certPc'[b] = "idle"
      BY <2>1, <2>2, <2>3
    <3>2. UNCHANGED <<mark, failureFile, failed>> /\ GetLastFailure' = GetLastFailure
      BY <1>5, <1>g, <1>h DEF TimerFires
    <3> QED BY <2>1, <2>2, <2>3, <3>1, <3>2 DEF Cooled, Passed, Marked, NoTime
  <2>4. CASE certPc' = [certPc EXCEPT !["main"] = "check"]
    BY <1>2, <1>5, <1>m, <2>1, <2>2, <2>4, Zenon DEF TimerFires
  <2> QED BY <1>5, <2>3, <2>4 DEF TimerFires, Enter
<1>6. CASE TimerFiresRenewed
  <2>1. ~overlap' => ~overlap /\ \A b \in Callers \ {"main"} : certPc[b] = "idle"
    BY <1>6, Zenon DEF TimerFiresRenewed, Overlap
  <2>2. certPc["main"] = "idle" /\ UNCHANGED <<certPc, mark, failureFile, failed>>
    BY <1>6 DEF TimerFiresRenewed, Alone, call, disk
  <2>3. ~overlap' => \A b \in Callers : certPc'[b] = "idle"
    BY <2>1, <2>2
  <2>4. GetLastFailure >= RenewalCooldown /\ GetLastFailure' = GetLastFailure
    BY <1>6, <1>g, <1>h, <2>2 DEF TimerFiresRenewed
  <2>5. ~overlap => Passed
    BY <1>a, <1>c, <2>4 DEF Cooled, Passed
  <2>6. Passed' <=> Passed
    BY <2>2 DEF Passed
  <2> QED BY <2>1, <2>2, <2>3, <2>4, <2>5, <2>6 DEF Cooled, Marked, NoTime
<1>7. CASE TimerFiresUnread
  BY <1>1, <1>7 DEF TimerFiresUnread, call, disk, hist
<1>8. CASE ResetTimer
  <2>1. main = "reset" /\ main' = "wait" /\ UNCHANGED <<certPc, mark, failed, overlap>>
    BY <1>8 DEF ResetTimer, call, hist
  <2>2. ~overlap => Passed /\ \A b \in Callers : certPc[b] = "idle"
    BY <2>1 DEF Cooled, Alone
  <2>3. Passed' <=> Passed
    BY <2>1 DEF Passed
  <2> QED BY <2>1, <2>2, <2>3 DEF Cooled, Marked, NoTime
<1>9. CASE Tick
  <2>1. /\ lastFailure' = Older(lastFailure) /\ failureFile' = Older(failureFile) /\ failed' = Older(failed)
        /\ mark' = [a \in Callers |-> Older(mark[a])] /\ UNCHANGED <<main, certPc, overlap>>
    BY <1>9 DEF Tick, proc
  <2>2. \A a \in Callers : certPc'[a] \notin Marked => mark'[a] = NoTime
    BY <2>1, OlderGrows DEF Cooled
  <2>3. ~overlap => \A a \in Callers : certPc'[a] \in Marked => failureFile' = mark'[a] /\ lastFailure' = mark'[a]
    BY <2>1 DEF Cooled
  <2>4. Passed => Passed'
    <3>1. failed' >= failed /\ failed' \in Ages
      BY <1>a, <2>1, OlderGrows, AgeTypes
    <3> QED BY <1>a, <1>c, <3>1 DEF Passed
  <2>5. failureFile <= failed => failureFile' <= failed'
    BY <1>a, <2>1, OlderGrows
  <2>6. GetLastFailure <= failed => GetLastFailure' <= failed'
    <3>1. GetLastFailure' = Older(GetLastFailure)
      BY <1>a, <1>g, <1>h, <2>1, OlderGrows
    <3> QED BY <1>a, <2>1, <3>1, OlderGrows
  <2> HIDE <1>p, <1>a, <1>c, <1>g, <1>h
  <2> QED BY <2>1, <2>2, <2>3, <2>4, <2>5, <2>6 DEF Cooled, NoTime
<1>10. CASE Crash
  <2>1. /\ \A a \in Callers : certPc'[a] = "idle" /\ mark'[a] = NoTime
        /\ main' = "setup" /\ lastFailure' = NoTime /\ UNCHANGED <<failureFile, overlap>>
    BY <1>10 DEF Crash, disk
  <2>2. PICK t \in {failed} \cup {mark[a] : a \in {b \in Callers :
                    certPc[b] \in {"sent", "saveKey", "saveCert", "publish"}}} : t <= failed /\ failed' = t
    BY <1>10 DEF Crash
  <2>3. ~overlap => Passed' \/ failureFile <= failed'
    <3>1. CASE t = failed
      BY <2>2, <3>1 DEF Cooled, Passed
    <3>2. ASSUME NEW a \in Callers, certPc[a] \in {"sent", "saveKey", "saveCert", "publish"}, t = mark[a], ~overlap
          PROVE  failureFile <= failed'
      <4>1. failureFile = mark[a]
        BY <3>2 DEF Cooled, Marked
      <4> QED BY <1>a, <2>2, <3>2, <4>1
    <3> QED BY <2>2, <3>1, <3>2
  <2>4. GetLastFailure' = failureFile'
    BY <1>h, <2>1
  <2> QED BY <2>1, <2>3, <2>4 DEF Cooled, Marked, NoTime
<1>11. ASSUME NEW a \in Callers, Renew(a) PROVE Cooled'
  <2>1. ~overlap' => ~overlap /\ \A b \in Callers \ {a} : certPc[b] = "idle"
    BY <1>11, Zenon DEF Renew, Overlap
  <2> QED BY <1>2, <1>11, <2>1, Zenon DEF Renew, Enter, proc, disk
\* An attempt returns: its mark is dropped, and what the next one reads is as young as it.
<1>12. ASSUME NEW a \in Callers, certPc[a] # "idle", certPc' = [certPc EXCEPT ![a] = "idle"],
              mark' = [mark EXCEPT ![a] = NoTime], overlap' = overlap,
              ~overlap /\ main' = "reset" => Passed',
              ~overlap => Passed' \/ (failureFile' <= failed' /\ GetLastFailure' <= failed')
       PROVE  Cooled'
  <2>1. ~overlap => \A b \in Callers : certPc'[b] = "idle"
    BY <1>12, <1>p DEF Alone
  <2>2. \A b \in Callers : certPc'[b] \notin Marked => mark'[b] = NoTime
    BY <1>12, <1>p DEF Cooled, Marked
  <2> HIDE <1>p, <1>a, <1>c, <1>g, <1>h
  <2> QED BY <1>12, <2>1, <2>2 DEF Cooled, Marked, NoTime
<1>13. ASSUME NEW a \in Callers, CheckCooldown(a) PROVE Cooled'
  <2>1. certPc[a] = "check" /\ UNCHANGED <<overlap, failed>>
    BY <1>13 DEF CheckCooldown, hist
  <2>2. CASE GetLastFailure >= RequestCooldown /\ certPc' = [certPc EXCEPT ![a] = "mark"]
             /\ lastFailure' = GetLastFailure /\ UNCHANGED <<main, mark, failureFile>>
    <3>1. ~overlap => Passed
      <4>1. GetLastFailure \in Nat /\ failed \in Nat /\ GetLastFailure >= RequestCooldown
        BY <1>a, <2>2
      <4>2. ~overlap => Passed \/ GetLastFailure <= failed
        BY DEF Cooled
      <4> HIDE DEF GetLastFailure
      <4> QED BY <1>c, <4>1, <4>2 DEF Passed
    <3>2. ~overlap => \A b \in Callers : b # a => certPc'[b] = "idle"
      BY <2>1, <2>2, <1>p DEF Alone
    <3>3. Passed' <=> Passed
      BY <2>1 DEF Passed
    <3>4. \A b \in Callers : certPc'[b] \notin Marked => mark'[b] = NoTime
      BY <2>1, <2>2, <1>p DEF Cooled, Marked
    <3>5. certPc'[a] = "mark"
      BY <2>2, <1>p
    <3> HIDE <1>p, <1>a, <1>c, <1>g, <1>h
    <3> QED BY <2>1, <2>2, <3>1, <3>2, <3>3, <3>4, <3>5 DEF Cooled, Marked, NoTime
  <2>3. CASE Return(a, FALSE) /\ (IF a = "main" /\ main = "renew" THEN UpdateLastFailure
                                  ELSE lastFailure' = GetLastFailure /\ UNCHANGED failureFile)
    <3>1. main' # "reset" \/ main' = main
      BY <2>3 DEF Return
    <3>2. ~overlap => Passed' \/ (failureFile' <= failed' /\ GetLastFailure' <= failed')
      <4>1. CASE lastFailure' = 0 /\ failureFile' = 0
        BY <4>1, <1>a, <1>c, <1>h, <2>1 DEF NoTime
      <4>2. CASE lastFailure' = GetLastFailure /\ failureFile' = failureFile
        <5>1. GetLastFailure' = GetLastFailure
          BY <4>2, <1>g, <1>h
        <5> QED BY <4>2, <5>1, <2>1 DEF Cooled, Passed
      <4> QED BY <2>3, <4>1, <4>2 DEF UpdateLastFailure
    <3>3. certPc' = [certPc EXCEPT ![a] = "idle"] /\ mark' = [mark EXCEPT ![a] = NoTime]
      BY <2>3 DEF Return
    <3>4. ~overlap /\ main' = "reset" => Passed'
      BY <2>1, <3>1 DEF Cooled, Passed
    <3> QED BY <1>12, <2>1, <3>2, <3>3, <3>4, Zenon
  <2> QED BY <1>13, <2>2, <2>3, Zenon DEF CheckCooldown
<1>14. ASSUME NEW a \in Callers, Mark(a) PROVE Cooled'
  <2>1. /\ certPc[a] = "mark" /\ certPc' = [certPc EXCEPT ![a] = "request"] /\ mark' = [mark EXCEPT ![a] = 0]
        /\ lastFailure' = 0 /\ failureFile' = 0 /\ UNCHANGED <<main, failed, overlap>>
    BY <1>14 DEF Mark, UpdateLastFailure, proc, hist
  <2>2. ~overlap => Passed /\ \A b \in Callers : b # a => certPc'[b] = "idle"
    BY <2>1, <1>p DEF Cooled, Alone
  <2>3. \A b \in Callers : certPc'[b] \notin Marked => mark'[b] = NoTime
    BY <2>1, <1>p DEF Cooled, Marked
  <2>4. certPc'[a] = "request" /\ mark'[a] = 0
    BY <2>1, <1>p
  <2>5. Passed' <=> Passed
    BY <2>1 DEF Passed
  <2> HIDE <1>p, <1>a, <1>c, <1>g, <1>h
  <2> QED BY <2>1, <2>2, <2>3, <2>4, <2>5 DEF Cooled, Marked, NoTime
\* A marked attempt goes on.
<1>15. ASSUME NEW a \in Callers, certPc[a] \in Marked, NEW q \in Marked, certPc' = [certPc EXCEPT ![a] = q],
              UNCHANGED <<main, mark, lastFailure, failureFile, failed, overlap>>
       PROVE  Cooled'
  <2>1. \A b \in Callers : certPc'[b] = IF b = a THEN q ELSE certPc[b]
    BY <1>15, <1>p
  <2>2. GetLastFailure' = GetLastFailure /\ (Passed' <=> Passed)
    BY <1>15, <1>g, <1>h DEF Passed
  <2> HIDE <1>p, <1>a, <1>c, <1>g, <1>h
  <2> QED BY <1>15, <2>1, <2>2 DEF Cooled, NoTime
<1>16. ASSUME NEW a \in Callers, Send(a) \/ Issue(a) \/ SaveKey(a) \/ SaveCert(a) PROVE Cooled'
  BY <1>15, <1>16 DEF Send, Issue, SaveKey, SaveCert, Marked, proc, disk, hist
<1>17. ASSUME NEW a \in Callers, Publish(a) PROVE Cooled'
  <2>1. /\ certPc[a] = "publish" /\ certPc' = [certPc EXCEPT ![a] = "idle"] /\ mark' = [mark EXCEPT ![a] = NoTime]
        /\ UNCHANGED <<failed, overlap>>
    BY <1>17 DEF Publish, Return, hist
  <2>2. ~overlap => Passed'
    BY <2>1 DEF Cooled, Passed, Marked
  <2> QED BY <1>12, <2>1, <2>2, ZenonT(30)
<1>18. ASSUME NEW a \in Callers, AttemptFails(a) PROVE Cooled'
  <2>1. /\ certPc[a] \in {"check", "mark", "sent", "saveKey", "saveCert"} /\ certPc' = [certPc EXCEPT ![a] = "idle"]
        /\ mark' = [mark EXCEPT ![a] = NoTime] /\ overlap' = overlap
        /\ failed' = Latest(failed, mark[a]) /\ (main' # "reset" \/ main' = main)
    BY <1>18 DEF AttemptFails, Return
  <2>2. mark[a] \in Ages
    BY <1>p
  <2>3. CASE certPc[a] \in {"check", "mark"}
    <3>1. failed' = failed
      BY <2>1, <2>3, <1>a DEF Cooled, Marked, Latest, Ages, NoTime
    <3>2. ~overlap => Passed' \/ (failureFile' <= failed' /\ GetLastFailure' <= failed')
      <4>1. CASE lastFailure' = 0 /\ failureFile' = 0
        BY <4>1, <1>a, <1>h, <3>1 DEF NoTime
      <4>2. CASE UNCHANGED <<lastFailure, failureFile>>
        BY <4>2, <1>g, <1>h, <3>1 DEF Cooled, Passed
      <4>3. CASE certPc[a] = "mark"
        BY <4>3, <3>1 DEF Cooled, Passed, Marked
      <4> QED BY <1>18, <4>1, <4>2, <4>3 DEF AttemptFails, RecordFailure, UpdateLastFailure
    <3>3. ~overlap /\ main' = "reset" => Passed'
      BY <2>1, <3>1 DEF Cooled, Passed
    <3> QED BY <1>12, <2>1, <3>2, <3>3, Zenon
  <2>4. CASE certPc[a] \in {"sent", "saveKey", "saveCert"}
    <3>1. ~overlap => Passed /\ failureFile = mark[a] /\ lastFailure = mark[a]
      BY <2>4 DEF Cooled, Marked
    <3>2. failed' = failed \/ failed' = mark[a]
      BY <2>1 DEF Latest
    <3>3. CASE failed' = failed
      <4>1. ~overlap => Passed'
        BY <3>1, <3>3 DEF Passed
      <4> QED BY <1>12, <2>1, <4>1, Zenon
    <3>4. CASE failed' = mark[a]
      <4>1. ~overlap => failureFile' <= failed' /\ GetLastFailure' <= failed'
        <5>1. CASE lastFailure' = 0 /\ failureFile' = 0
          <6>1. failed' \in Nat /\ GetLastFailure' = 0
            BY <5>1, <1>a, <1>h, <2>2, <3>4, Zenon
          <6> QED BY <5>1, <6>1
        <5>2. CASE UNCHANGED <<lastFailure, failureFile>>
          BY <5>2, <1>a, <1>h, <2>2, <3>1, <3>4
        <5> QED BY <1>18, <2>4, <5>1, <5>2 DEF AttemptFails, RecordFailure, UpdateLastFailure
      <4>2. ~overlap => main' # "reset"
        BY <2>1, <2>4 DEF Alone
      <4> QED BY <1>12, <2>1, <2>4, <4>1, <4>2, Zenon
    <3> QED BY <3>2, <3>3, <3>4
  <2> QED BY <2>1, <2>3, <2>4
<1>19. ASSUME NEW c \in Certs, BecomesDue(c) PROVE Cooled'
  BY <1>1, <1>19 DEF BecomesDue, proc, call, disk, hist
<1>20. CASE UNCHANGED certVars
  BY <1>1, <1>20 DEF certVars
<1> QED
  BY <1>3, <1>4, <1>5, <1>6, <1>7, <1>8, <1>9, <1>10, <1>11, <1>13, <1>14, <1>16, <1>17, <1>18,
     <1>19, <1>20 DEF CertNext, CallerNext

-----------------------------------------------------------------------------
\* The inductive invariant, for any number of callers, any cooldowns and any bounds.
LEMMA Correct == CertSpec => [](CertTypeOK /\ Alone /\ Files /\ Serving /\ Cooled)
<1>1. CertTypeOK /\ Alone /\ Files /\ Serving /\ Cooled /\ [CertNext]_certVars
        => (CertTypeOK /\ Alone /\ Files /\ Serving /\ Cooled)'
  BY TypeStep, AloneStep, FilesStep, ServingStep, CooledStep
<1> QED BY <1>1, Initially, PTL DEF CertSpec

\* The key on disk belongs to the certificate on disk, whatever fails or crashes, but for a
\* write that is under way or was interrupted and attempts at once.
THEOREM AutoCertPairMatches == CertSpec => []PairMatches
<1>1. Files => PairMatches
  BY DEF Files, PairMatches
<1> QED BY <1>1, Correct, PTL

\* What the process serves is what a restart of it finds on disk, under the same proviso.
THEOREM AutoCertServedIsSaved == CertSpec => []ServedIsSaved
<1>1. Files => ServedIsSaved
  BY DEF Files, ServedIsSaved
<1> QED BY <1>1, Correct, PTL

\* ShouldRenewOn never panics: the scheduler runs with a certificate.
THEOREM AutoCertNeverPanics == CertSpec => []RenewOnNeverPanics
<1>1. Serving => RenewOnNeverPanics
  BY DEF Serving, RenewOnNeverPanics
<1> QED BY <1>1, Correct, PTL

\* No request goes to the ACME server within the cooldown of an attempt that failed or died
\* with its process, as long as attempts come one after the other.
THEOREM AutoCertSentAfterCooldown == CertSpec => SentAfterCooldown
<1> DEFINE Sent == \A a \in Callers : certPc[a] = "request" /\ certPc'[a] = "sent" /\ ~overlap
                      => failed >= RequestCooldown
<1>1. Cooled => [Sent]_certVars
  BY DEF Cooled, Passed, Marked
<1> QED BY <1>1, Correct, PTL DEF SentAfterCooldown

\* The count of a set grows by one with a new element, shrinks by one without
\* one of its own, and is 0 only when it is empty: what refCount.Add needs.
LEMMA CountLemma ==
    ASSUME NEW S \in SUBSET Holders, NEW u \in Holders
    PROVE  /\ Cardinality(S) \in Nat
           /\ Cardinality(S) = 0 <=> S = {}
           /\ u \notin S => Cardinality(S \cup {u}) = Cardinality(S) + 1
           /\ u \in S => Cardinality(S \ {u}) = Cardinality(S) - 1
<1>1. IsFiniteSet(S)
  BY HoldersAssumption, FS_Subset
<1>2. Cardinality(S) \in Nat
  BY <1>1, FS_CardinalityType
<1>3. Cardinality(S) = 0 <=> S = {}
  BY <1>1, FS_EmptySet
<1>4. u \notin S => Cardinality(S \cup {u}) = Cardinality(S) + 1
  BY <1>1, FS_AddElement
<1>5. u \in S => Cardinality(S \ {u}) = Cardinality(S) - 1
  BY <1>1, FS_RemoveElement
<1> QED
  BY <1>2, <1>3, <1>4, <1>5


\* Who is counted follows from where the holders are.
LEMMA CountedSubset == \A c : Counted(c) \in SUBSET Holders
  BY DEF Counted, Referencing

\* A holder that moves enters or leaves the count of one client.
LEMMA CountedMove ==
    ASSUME Typed, NEW u \in Holders, NEW c \in Clients,
           NEW k, pc' = [pc EXCEPT ![u] = k],
           NEW h, held' = [held EXCEPT ![u] = h]
    PROVE  Counted(c)' = IF h = c /\ k \in {"added", "using", "stamped"}
                         THEN Counted(c) \cup {u} ELSE Counted(c) \ {u}
  BY DEF Typed, Counted, Referencing

\* Initially there is no client and nobody holds one.
LEMMA TypedInit ==
    ASSUME Init
    PROVE  Typed /\ Shape
<1>1. exited \in BOOLEAN
  BY Zenon DEF Init
<1>2. Typed
  BY <1>1, DockerBounds DEF Init, Typed, Clients
<1>3. Shape
  BY <1>2, DockerBounds DEF Init, Typed, Shape
<1> QED
  BY <1>2, <1>3

\* Each step keeps the types, the client of the map open, and the cleaner on it.
LEMMA TypedNext ==
    ASSUME Typed, Shape, [Next]_vars
    PROVE  Typed' /\ Shape'
<1> USE DockerBounds DEF Clients
<1>1. ASSUME NEW u \in Holders, NewClient(u) PROVE Typed' /\ Shape'
  <2>1. CASE entry # 0
    <3>1. Typed'
      <4>1. ref' \in [Clients -> Int] /\ age' \in [Clients -> {"zero", "recent", "old"}]
        BY <1>1, <2>1, SMTT(30) DEF NewClient, Typed
      <4>2. pc' \in [Holders -> {"idle", "snapped", "added", "using", "stamped"}]
        BY <1>1 DEF NewClient, Typed
      <4>3. held' \in [Holders -> 0..MaxClients]
        BY <1>1, <2>1, Zenon DEF NewClient, Typed
      <4> QED
        BY <1>1, <2>1, <4>1, <4>2, <4>3, Zenon DEF NewClient, Typed
    <3> QED
      BY <1>1, <2>1, <3>1, SMTT(30) DEF NewClient, Typed, Shape, Unlocked
  <2>2. CASE entry = 0
    <3>1. created + 1 \in 1..MaxClients
      BY <1>1, <2>2 DEF NewClient, Typed
    <3>2. Typed'
      <4>1. ref' \in [Clients -> Int]
        BY <1>1, <2>2 DEF NewClient, Typed
      <4>2. pc' \in [Holders -> {"idle", "snapped", "added", "using", "stamped"}]
        BY <1>1 DEF NewClient, Typed
      <4>3. held' \in [Holders -> 0..MaxClients]
        BY <1>1, <2>2, <3>1 DEF NewClient, Typed
      <4>4. open' \subseteq Clients
        BY <1>1, <2>2, <3>1, Zenon DEF NewClient, Typed
      <4> QED
        BY <1>1, <2>2, <3>1, <4>1, <4>2, <4>3, <4>4 DEF NewClient, Typed
    <3>3. open' \subseteq 1..created'
      <4>1. open' = open \cup {created + 1} /\ created' = created + 1
        BY <1>1, <2>2 DEF NewClient
      <4>2. open \subseteq 1..created /\ created \in Nat
        BY DEF Shape, Typed
      <4> QED
        BY <4>1, <4>2
    <3> QED
      BY <1>1, <2>2, <3>1, <3>2, <3>3, SMTT(30) DEF NewClient, Typed, Shape, Unlocked
  <2> QED
    BY <2>1, <2>2
<1>2. ASSUME NEW u \in Holders, Snapshot(u) PROVE Typed' /\ Shape'
  BY <1>2 DEF Snapshot, Typed, Shape, Unlocked
<1>3. ASSUME NEW u \in Holders, AddRef(u) PROVE Typed' /\ Shape'
  <2>1. held[u] \in Clients
    BY <1>3 DEF AddRef, Typed, Shape
  <2>2. ref' \in [Clients -> Int] /\ age' \in [Clients -> {"zero", "recent", "old"}]
    BY <1>3, <2>1 DEF AddRef, Typed
  <2>3. pc' \in [Holders -> {"idle", "snapped", "added", "using", "stamped"}]
    BY <1>3 DEF AddRef, Typed
  <2>4. Typed'
    BY <1>3, <2>2, <2>3 DEF AddRef, Typed
  <2>5. Shape'
    BY <1>3, <2>1 DEF AddRef, Typed, Shape
  <2> QED
    BY <2>4, <2>5
<1>31. ASSUME NEW u \in Holders, ResetClosedOn(u) PROVE Typed' /\ Shape'
  BY <1>31 DEF ResetClosedOn, Typed, Shape
<1>4. ASSUME NEW u \in Holders, CloseStamp(u) PROVE Typed' /\ Shape'
  BY <1>4 DEF CloseStamp, Typed, Shape
<1>5. ASSUME NEW u \in Holders, CloseDrop(u) PROVE Typed' /\ Shape'
  BY <1>5, SMTT(30) DEF CloseDrop, Typed, Shape
<1>6. ASSUME NEW u \in Holders, Reload(u) PROVE Typed' /\ Shape'
  BY <1>6 DEF Reload, Typed, Shape
<1>7. ASSUME NEW u \in Holders, ReloadFails(u) PROVE Typed' /\ Shape'
  BY <1>7 DEF ReloadFails, Typed, Shape
<1>8. ASSUME NEW c \in Clients, Elapse(c) PROVE Typed' /\ Shape'
  BY <1>8 DEF Elapse, Typed, Shape
<1>9. ASSUME CleanerLook PROVE Typed' /\ Shape'
  BY <1>9 DEF CleanerLook, Typed, Shape, Unlocked
<1>10. ASSUME CleanerClose PROVE Typed' /\ Shape'
  <2>1. Typed'
    <3>1. entry' \in 0..MaxClients
      BY <1>10 DEF CleanerClose, Typed
    <3>2. open' \subseteq open
      BY <1>10 DEF CleanerClose
    <3> QED
      BY <1>10, <3>1, <3>2 DEF CleanerClose, Typed
  <2>2. CASE age[cleaner] = "recent"
    BY <1>10, <2>1, <2>2 DEF CleanerClose, Typed, Shape
  <2>3. CASE age[cleaner] # "recent"
    BY <1>10, <2>1, <2>3 DEF CleanerClose, Typed, Shape
  <2> QED
    BY <2>1, <2>2, <2>3
<1>11. ASSUME Exit PROVE Typed' /\ Shape'
  <2>1. exited' \in BOOLEAN
    BY <1>11 DEF Exit
  <2> QED
    BY <1>11, <2>1 DEF Exit, Typed, Shape, Unlocked
<1>12. ASSUME UNCHANGED vars PROVE Typed' /\ Shape'
  BY <1>12 DEF vars, Typed, Shape
<1> QED
  BY <1>1, <1>2, <1>3, <1>31, <1>4, <1>5, <1>6, <1>7, <1>8, <1>9, <1>10, <1>11, <1>12
     DEF Next, HolderNext

\* No failed reload is ever taken back, so what holds as long as there was none
\* needs only the steps that keep it so.
LEMMA FailsNext ==
    ASSUME Typed, [Next]_vars, fails' = 0
    PROVE  fails = 0
<1>1. ASSUME NEW u \in Holders, ReloadFails(u) PROVE fails = 0
  BY <1>1, DockerBounds DEF ReloadFails, Typed
<1>2. ASSUME NEW u \in Holders, NewClient(u) \/ Snapshot(u) \/ AddRef(u) \/ ResetClosedOn(u)
      PROVE  fails = 0
  BY <1>2, Zenon DEF NewClient, Snapshot, AddRef, ResetClosedOn
<1>3. ASSUME NEW u \in Holders, CloseStamp(u) \/ CloseDrop(u) \/ Reload(u)
      PROVE  fails = 0
  BY <1>3, Zenon DEF CloseStamp, CloseDrop, Reload
<1>4. ASSUME NEW c \in Clients, Elapse(c) PROVE fails = 0
  BY <1>4, Zenon DEF Elapse
<1>5. CASE CleanerLook \/ CleanerClose \/ Exit \/ UNCHANGED vars
  BY <1>5, Zenon DEF CleanerLook, CleanerClose, Exit, vars
<1> QED
  BY <1>1, <1>2, <1>3, <1>4, <1>5, Zenon DEF Next, HolderNext

\* refCount stays exact: a step counts a holder in or out of both sides.
LEMMA ExactNext ==
    ASSUME Typed, Shape, RefCountExact, [Next]_vars
    PROVE  RefCountExact'
<1> SUFFICES ASSUME fails' = 0, NEW c \in Clients
             PROVE  ref'[c] = Cardinality(Counted(c)')
  BY DEF RefCountExact, Counted, Referencing
<1>0. fails = 0 /\ ref[c] = Cardinality(Counted(c)) /\ Counted(c) \in SUBSET Holders
  <2>1. fails = 0
    BY FailsNext
  <2> QED
    BY <2>1, CountedSubset DEF RefCountExact
<1>1. ASSUME NEW u \in Holders, NewClient(u) PROVE ref'[c] = Cardinality(Counted(c)')
  <2>0. u \notin Counted(c)
    BY <1>1 DEF NewClient, Counted, Referencing
  <2>1. CASE entry # 0
    <3>1. Counted(c)' = IF entry = c THEN Counted(c) \cup {u} ELSE Counted(c) \ {u}
      BY <1>1, <2>1, CountedMove, Zenon DEF NewClient
    <3> QED
      <4>1. CASE entry = c
        <5>1. Cardinality(Counted(c)') = Cardinality(Counted(c)) + 1
          BY <1>0, <2>0, <3>1, <4>1, CountLemma
        <5> QED
          BY <1>0, <1>1, <2>1, <4>1, <5>1 DEF NewClient, Typed
      <4>2. CASE entry # c
        <5>1. Counted(c)' = Counted(c)
          BY <2>0, <3>1, <4>2
        <5> QED
          BY <1>0, <1>1, <2>1, <4>2, <5>1 DEF NewClient, Typed
      <4> QED
        BY <4>1, <4>2
  <2>2. CASE entry = 0
    <3>1. Counted(c)' = IF created + 1 = c THEN Counted(c) \cup {u} ELSE Counted(c) \ {u}
      BY <1>1, <2>2, CountedMove, Zenon DEF NewClient
    <3>2. c = created + 1 => Counted(c) = {}
      BY DEF Shape, Typed, Counted, Referencing
    <3> QED
      <4>1. CASE created + 1 = c
        <5>1. Cardinality(Counted(c)') = Cardinality(Counted(c)) + 1
          BY <1>0, <2>0, <3>1, <4>1, CountLemma
        <5>2. Cardinality(Counted(c)) = 0
          BY <1>0, <3>2, <4>1, CountLemma, Zenon
        <5> QED
          BY <1>1, <2>2, <4>1, <5>1, <5>2 DEF NewClient, Typed
      <4>2. CASE created + 1 # c
        <5>1. Counted(c)' = Counted(c)
          BY <2>0, <3>1, <4>2
        <5> QED
          BY <1>0, <1>1, <2>2, <4>2, <5>1 DEF NewClient, Typed
      <4> QED
        BY <4>1, <4>2
  <2> QED
    BY <2>1, <2>2
<1>2. ASSUME NEW u \in Holders, Snapshot(u) PROVE ref'[c] = Cardinality(Counted(c)')
  <2>1. Counted(c)' = Counted(c)
    BY <1>2 DEF Snapshot, Typed, Counted, Referencing
  <2> QED
    BY <1>0, <1>2, <2>1 DEF Snapshot
<1>3. ASSUME NEW u \in Holders, AddRef(u) PROVE ref'[c] = Cardinality(Counted(c)')
  <2>0. u \notin Counted(c)
    BY <1>3 DEF AddRef, Counted, Referencing
  <2>1. Counted(c)' = IF held[u] = c THEN Counted(c) \cup {u} ELSE Counted(c)
    BY <1>3 DEF AddRef, Typed, Counted, Referencing
  <2> QED
    BY <1>0, <1>3, <2>0, <2>1, CountLemma DEF AddRef, Typed
<1>31. ASSUME NEW u \in Holders, ResetClosedOn(u) PROVE ref'[c] = Cardinality(Counted(c)')
  <2>1. Counted(c)' = Counted(c)
    BY <1>31 DEF ResetClosedOn, Typed, Counted, Referencing
  <2> QED
    BY <1>0, <1>31, <2>1 DEF ResetClosedOn
<1>4. ASSUME NEW u \in Holders, CloseStamp(u) PROVE ref'[c] = Cardinality(Counted(c)')
  <2>1. Counted(c)' = Counted(c)
    BY <1>4 DEF CloseStamp, Typed, Counted, Referencing
  <2> QED
    BY <1>0, <1>4, <2>1 DEF CloseStamp
<1>5. ASSUME NEW u \in Holders, CloseDrop(u) PROVE ref'[c] = Cardinality(Counted(c)')
  <2>1. Counted(c)' = Counted(c) \ {u}
    BY <1>5 DEF CloseDrop, Typed, Counted, Referencing
  <2>2. u \in Counted(c) <=> held[u] = c
    BY <1>5 DEF CloseDrop, Counted, Referencing
  <2>3. CASE held[u] = c
    <3>1. Cardinality(Counted(c)') = Cardinality(Counted(c)) - 1
      BY <1>0, <2>1, <2>2, <2>3, CountLemma
    <3> QED
      BY <1>0, <1>5, <2>3, <3>1 DEF CloseDrop, Typed
  <2>4. CASE held[u] # c
    <3>1. Counted(c)' = Counted(c)
      BY <2>1, <2>2, <2>4
    <3> QED
      BY <1>0, <1>5, <2>4, <3>1 DEF CloseDrop, Typed
  <2> QED
    BY <2>3, <2>4
<1>6. CASE UNCHANGED <<ref, pc, held>>
  <2>1. Counted(c)' = Counted(c)
    BY <1>6 DEF Counted, Referencing
  <2> QED
    BY <1>0, <1>6, <2>1
<1>7. ASSUME NEW u \in Holders, ReloadFails(u) PROVE FALSE
  BY <1>0, <1>7 DEF ReloadFails
<1> QED
  BY <1>1, <1>2, <1>3, <1>31, <1>4, <1>5, <1>6, <1>7
     DEF Next, HolderNext, Reload, Elapse, CleanerLook, CleanerClose, Exit, vars

\* A client whose references are all being dropped stays stamped: a holder
\* that resets closedOn has just counted itself in.
LEMMA StampedNext ==
    ASSUME Typed, Shape, DroppingIsStamped, [Next]_vars, fails' = 0
    PROVE  DroppingIsStamped'
<1> USE DockerBounds DEF Clients
<1> DEFINE Dropping(c) == \A u \in Holders :
                held[u] = c /\ pc[u] \in {"added", "using", "stamped"} => pc[u] = "stamped"
<1>0. DroppingIsStamped <=> \A c \in 1..created : Dropping(c) => age[c] # "zero"
  BY DEF DroppingIsStamped, Counted, Referencing
<1>00. DroppingIsStamped' <=> \A c \in 1..created' : Dropping(c)' => age'[c] # "zero"
  BY DEF DroppingIsStamped, Counted, Referencing
<1> SUFFICES ASSUME NEW c \in 1..created', Dropping(c)' PROVE age'[c] # "zero"
  BY <1>00
<1>1. ASSUME NEW u \in Holders, NewClient(u) PROVE age'[c] # "zero"
  <2>1. held'[u] # c
    BY <1>1 DEF NewClient, Typed
  <2>2. c \in 1..created
    BY <1>1, <2>1 DEF NewClient, Typed
  <2>3. Dropping(c)
    BY <1>1, <2>1 DEF NewClient, Typed
  <2>4. age'[c] = age[c]
    BY <1>1, <2>1, <2>2 DEF NewClient, Typed
  <2> QED
    BY <1>0, <2>2, <2>3, <2>4
<1>2. ASSUME NEW u \in Holders, Snapshot(u) PROVE age'[c] # "zero"
  <2>1. Dropping(c)
    BY <1>2, Zenon DEF Snapshot, Typed
  <2> QED
    BY <1>0, <1>2, <2>1 DEF Snapshot
<1>3. ASSUME NEW u \in Holders, AddRef(u) PROVE age'[c] # "zero"
  <2>1. held[u] # c
    BY <1>3 DEF AddRef, Typed
  <2>2. Dropping(c) /\ age'[c] = age[c] /\ created' = created
    BY <1>3, <2>1 DEF AddRef, Typed
  <2> QED
    BY <1>0, <2>2
<1>31. ASSUME NEW u \in Holders, ResetClosedOn(u) PROVE age'[c] # "zero"
  <2>1. held[u] # c
    BY <1>31 DEF ResetClosedOn, Typed
  <2>2. Dropping(c) /\ age'[c] = age[c] /\ created' = created
    BY <1>31, <2>1 DEF ResetClosedOn, Typed
  <2> QED
    BY <1>0, <2>2
<1>4. ASSUME NEW u \in Holders, CloseStamp(u) PROVE age'[c] # "zero"
  <2>1. CASE held[u] = c
    BY <1>4, <2>1 DEF CloseStamp, Typed
  <2>2. CASE held[u] # c
    <3>1. Dropping(c) /\ age'[c] = age[c] /\ created' = created
      BY <1>4, <2>2 DEF CloseStamp, Typed
    <3> QED
      BY <1>0, <3>1
  <2> QED
    BY <2>1, <2>2
<1>5. ASSUME NEW u \in Holders, CloseDrop(u) PROVE age'[c] # "zero"
  <2>1. Dropping(c) /\ age' = age /\ created' = created
    BY <1>5, SMTT(30) DEF CloseDrop, Typed
  <2> QED
    BY <1>0, <2>1
<1>6. ASSUME NEW u \in Holders, Reload(u) PROVE age'[c] # "zero"
  <2>1. held[u] # c
    BY <1>6 DEF Reload, Typed
  <2>2. Dropping(c) /\ age'[c] = age[c] /\ created' = created
    BY <1>6, <2>1 DEF Reload, Typed
  <2> QED
    BY <1>0, <2>2
<1>7. ASSUME NEW u \in Holders, ReloadFails(u) PROVE age'[c] # "zero"
  BY <1>7 DEF ReloadFails, Typed
<1>8. ASSUME NEW d \in Clients, Elapse(d) PROVE age'[c] # "zero"
  <2>1. Dropping(c) /\ created' = created
    BY <1>8 DEF Elapse
  <2> QED
    BY <1>0, <1>8, <2>1 DEF Elapse, Typed
<1>9. CASE UNCHANGED <<pc, held, age, created>>
  <2>1. Dropping(c)
    BY <1>9
  <2> QED
    BY <1>0, <1>9, <2>1
<1> QED
  BY <1>1, <1>2, <1>3, <1>31, <1>4, <1>5, <1>6, <1>7, <1>8, <1>9
     DEF Next, HolderNext, CleanerLook, CleanerClose, Exit, vars

\* What a caller of NewClient holds is the client of the map, and never the one
\* the cleaner looks at: a client with refCount 0 has no such holder, and the
\* lock keeps new ones out until the cleaner is done with it.
LEMMA ReservedNext ==
    ASSUME Typed, Shape, RefCountExact, Reserved, [Next]_vars, fails = 0, fails' = 0
    PROVE  Reserved'
<1> USE DockerBounds DEF Clients
<1> DEFINE U == Users \cup Watchers
<1>0. U \subseteq Holders /\ \A u \in U : u \notin Listers
  BY HoldersAssumption DEF Holders
<1> SUFFICES ASSUME NEW v \in U, Referencing(v)', ~exited'
             PROVE  held'[v] = entry' /\ held'[v] # cleaner'
  BY DEF Reserved
<1>1. v \in Holders /\ v \notin Listers
  BY <1>0
<1>2. Referencing(v) /\ ~exited => held[v] = entry /\ held[v] # cleaner
  BY DEF Reserved
<1>3. pc'[v] \in {"added", "using", "stamped"}
  BY DEF Referencing
<1> HIDE DEF U
<1>4. ASSUME NEW u \in Holders, NewClient(u) PROVE held'[v] = entry' /\ held'[v] # cleaner'
  <2>1. CASE u = v
    BY <1>4, <2>1 DEF NewClient, Typed, Unlocked
  <2>2. CASE u # v
    <3>1. pc'[v] = pc[v] /\ held'[v] = held[v] /\ ~exited /\ cleaner' = cleaner
      BY <1>4, <2>2, <1>1 DEF NewClient, Typed, Unlocked
    <3>2. held[v] = entry /\ held[v] # cleaner
      BY <1>2, <1>3, <3>1 DEF Referencing
    <3>3. held[v] # 0
      BY <1>1, <1>3, <3>1 DEF Shape
    <3> QED
      BY <1>4, <3>1, <3>2, <3>3 DEF NewClient
  <2> QED
    BY <2>1, <2>2
<1>5. ASSUME NEW u \in Holders, \/ Snapshot(u) \/ AddRef(u) \/ ResetClosedOn(u)
                                \/ CloseStamp(u) \/ CloseDrop(u) \/ Reload(u)
      PROVE held'[v] = entry' /\ held'[v] # cleaner'
  <2>1. /\ pc[v] \in {"added", "using", "stamped"} /\ held'[v] = held[v]
        /\ entry' = entry /\ cleaner' = cleaner /\ exited' = exited
    <3>1. CASE Snapshot(u)
      BY <1>1, <1>3, <3>1 DEF Snapshot, Typed
    <3>2. CASE AddRef(u)
      BY <1>1, <1>3, <3>2 DEF AddRef, Typed, Shape
    <3>21. CASE ResetClosedOn(u)
      BY <1>1, <1>3, <3>21 DEF ResetClosedOn, Typed
    <3>3. CASE CloseStamp(u)
      BY <1>1, <1>3, <3>3 DEF CloseStamp, Typed
    <3>4. CASE CloseDrop(u)
      BY <1>1, <1>3, <3>4 DEF CloseDrop, Typed
    <3>5. CASE Reload(u)
      BY <1>1, <1>3, <3>5 DEF Reload, Typed
    <3> QED
      BY <1>5, <3>1, <3>2, <3>21, <3>3, <3>4, <3>5
  <2> QED
    BY <1>2, <2>1 DEF Referencing
<1>6. ASSUME NEW u \in Holders, ReloadFails(u) PROVE FALSE
  BY <1>6 DEF ReloadFails, Typed
<1>7. CASE CleanerLook
  <2>1. ref[entry] = Cardinality(Counted(entry)) /\ ref[entry] = 0
    BY <1>7 DEF CleanerLook, RefCountExact, Typed
  <2>2. Counted(entry) = {}
    BY <1>1, <2>1, CountLemma, CountedSubset, Zenon
  <2>3. held[v] # entry
    BY <1>1, <1>3, <1>7, <2>2 DEF CleanerLook, Counted, Referencing
  <2> QED
    BY <1>2, <1>3, <1>7, <2>3 DEF CleanerLook, Referencing, Unlocked
<1>8. CASE CleanerClose
  <2>1. held[v] = entry /\ held[v] # cleaner
    BY <1>2, <1>3, <1>8 DEF CleanerClose, Referencing
  <2>2. cleaner = entry
    BY <1>8 DEF CleanerClose, Shape
  <2> QED
    BY <2>1, <2>2
<1>9. CASE Exit
  BY <1>9 DEF Exit
<1>10. CASE UNCHANGED <<pc, held, entry, cleaner, exited>>
  BY <1>2, <1>3, <1>10 DEF Referencing
<1> QED
  BY <1>4, <1>5, <1>6, <1>7, <1>8, <1>9, <1>10 DEF Next, HolderNext, Elapse, vars

\* Initially nobody is counted and every refCount is 0.
LEMMA IInvInit ==
    ASSUME Init
    PROVE  IInv
<1>1. Typed /\ Shape
  BY TypedInit
<1>2. \A c \in Clients : Counted(c) = {}
  BY DEF Init, Counted, Referencing
<1>3. RefCountExact
  <2>1. \A c \in Clients : ref[c] = 0
    BY DEF Init
  <2> QED
    BY <1>2, <2>1, FS_EmptySet DEF RefCountExact
<1>4. DroppingIsStamped
  BY DEF Init, DroppingIsStamped
<1>5. Reserved
  BY DEF Init, Reserved, Referencing, Holders
<1> QED
  BY <1>1, <1>3, <1>4, <1>5 DEF IInv

\* Each step of a holder, of the cleaner or of time keeps the invariant.
LEMMA IInvNext ==
    ASSUME IInv, [Next]_vars
    PROVE  IInv'
<1>1. Typed /\ Shape
  BY DEF IInv
<1>2. Typed' /\ Shape'
  BY <1>1, TypedNext
<1>3. ASSUME fails' = 0 PROVE RefCountExact' /\ DroppingIsStamped' /\ Reserved'
  <2>1. fails = 0
    BY <1>1, <1>3, FailsNext
  <2>2. RefCountExact /\ DroppingIsStamped /\ Reserved
    BY <2>1 DEF IInv
  <2> QED
    BY <1>1, <1>3, <2>1, <2>2, ExactNext, StampedNext, ReservedNext
<1> QED
  BY <1>2, <1>3 DEF IInv

\* What the invariant says of the states: the four properties of the runs.
LEMMA IInvImplies ==
    ASSUME IInv
    PROVE  TypeOK /\ RefCountExact /\ NewClientStaysOpen /\ UnusedIsStamped
<1>1. RefCountExact
  BY DEF IInv, RefCountExact
<1>2. ASSUME fails = 0, NEW c \in Clients
      PROVE  ref[c] \in Nat /\ (ref[c] = 0 => Counted(c) = {})
  <2>1. IsFiniteSet(Counted(c))
    BY HoldersAssumption, CountedSubset, FS_Subset
  <2>2. Cardinality(Counted(c)) \in Nat /\ (Cardinality(Counted(c)) = 0 => Counted(c) = {})
    BY <2>1, FS_CardinalityType, FS_EmptySet
  <2>3. ref[c] = Cardinality(Counted(c))
    BY <1>1, <1>2 DEF RefCountExact
  <2> QED
    BY <2>2, <2>3
<1>3. TypeOK
  BY <1>2 DEF IInv, TypeOK
<1>4. NewClientStaysOpen
  <2> SUFFICES ASSUME fails = 0, ~exited, NEW u \in Users \cup Watchers, pc[u] = "using"
               PROVE  held[u] \in open
    BY DEF NewClientStaysOpen
  <2>1. u \in Holders
    BY DEF Holders
  <2>2. held[u] = entry
    BY DEF IInv, Reserved, Referencing
  <2>3. held[u] # 0
    BY <2>1 DEF IInv, Shape
  <2> QED
    BY <2>2, <2>3 DEF IInv, Shape
<1>5. UnusedIsStamped
  <2> SUFFICES ASSUME fails = 0, NEW c \in 1..created, ref[c] = 0
               PROVE  age[c] # "zero"
    BY DEF UnusedIsStamped
  <2>1. c \in Clients
    BY DockerBounds DEF IInv, Typed, Clients
  <2>2. Counted(c) = {}
    BY <1>2, <2>1
  <2> QED
    BY <2>2 DEF IInv, DroppingIsStamped
<1> QED
  BY <1>1, <1>3, <1>4, <1>5

\* Every reachable state satisfies the inductive invariant.
THEOREM Inductive == Spec => []IInv
  BY IInvInit, IInvNext, PTL DEF Spec

\* Every variable keeps its type, and refCount is never negative unless an
\* idlewatcher closed its provider twice.
THEOREM TypeCorrect == Spec => []TypeOK
  BY Inductive, IInvImplies, PTL

\* refCount is the number of callers between NewClient or Clients and Close.
THEOREM RefCountCorrect == Spec => []RefCountExact
  BY Inductive, IInvImplies, PTL

\* The cleaner never closes a client under a caller of NewClient.
THEOREM NewClientCorrect == Spec => []NewClientStaysOpen
  BY Inductive, IInvImplies, PTL

\* The cleaner never mistakes the reset value of closedOn for an old time.
THEOREM StampCorrect == Spec => []UnusedIsStamped
  BY Inductive, IInvImplies, PTL

=============================================================================
