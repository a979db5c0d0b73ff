------------------------------ MODULE AutoCert ------------------------------
(***************************************************************************)
(* The certificate provider (internal/autocert/provider.go, setup.go): the  *)
(* Setup of a starting process, the renewal scheduler, ObtainCert called    *)
(* from both and from the API's renew handler, the last-failure file that   *)
(* keeps a restarted process away from the ACME server, and crashes.        *)
(*                                                                          *)
(* Abstractions.  A certificate and its key are the number of their issue;  *)
(* "due" are those that certState finds expired or not matching the         *)
(* configured domains.  A time is its age, saturated at RenewalCooldown;    *)
(* NoTime is the zero time and a missing file.  legoCert is never assigned  *)
(* before it is found non-nil, so every renewal is an Obtain.  The fraction *)
(* of a second that RFC 3339 drops from the file is below the resolution of *)
(* the clock.  From the store of the new certificate on, ObtainCert and the *)
(* scheduler after it are one step.                                         *)
(***************************************************************************)
EXTENDS Naturals

CONSTANTS
    Renewers,         \* callers of the API's renew handler
    RequestCooldown,  \* requestCooldownDuration
    RenewalCooldown,  \* renewalCooldownDuration
    MaxIssued,        \* bound: certificates issued
    MaxCertFails,         \* bound: failures of the ACME server or of a file write
    MaxCrashes        \* bound: crashes

ASSUME CooldownAssumption ==
    /\ RequestCooldown \in Nat /\ RenewalCooldown \in Nat
    /\ 0 < RequestCooldown /\ RequestCooldown <= RenewalCooldown
ASSUME AutoCertBounds == MaxIssued \in Nat /\ MaxCertFails \in Nat /\ MaxCrashes \in Nat
ASSUME RenewersAssumption == "main" \notin Renewers

\* "main" runs Setup, and then is the scheduler's goroutine.
Callers == Renewers \cup {"main"}

VARIABLES
    up,        \* the process runs
    main,      \* what "main" does: "setup", "wait", "renew", "reset" or "failed"
    timer,     \* the certificate whose renewal time the timer waits for, or 0
    certPc,        \* where each caller is in ObtainCert
    cert,      \* the certificate each caller was issued, or 0
    mark,      \* the age of each caller's UpdateLastFailure
    tlsCert,   \* the certificate served, or 0
    lastFailure,  \* in memory
    failureFile,  \* LastFailureFile
    keyFile, certFile,  \* the files, 0 when missing
    due,       \* certificates to be renewed
    failed,    \* history: the age of the last attempt that failed or crashed
    torn,      \* history: an attempt ended between the writes of the two files
    overlap,   \* history: one attempt began while another one ran
    issued, certFails, crashes

disk == <<failureFile, keyFile, certFile>>
proc == <<up, main, timer>>
call == <<certPc, cert, mark>>
hist == <<failed, torn, overlap>>
bounds == <<issued, certFails, crashes>>
certVars == <<up, main, timer, certPc, cert, mark, tlsCert, lastFailure, failureFile,
          keyFile, certFile, due, failed, torn, overlap, issued, certFails, crashes>>

NoTime == RenewalCooldown + 1
Ages == 0..NoTime
Certs == 1..MaxIssued

Latest(a, b) == IF a < b THEN a ELSE b

CertInit ==
    /\ up = FALSE /\ main = "setup" /\ timer = 0
    /\ certPc = [a \in Callers |-> "idle"]
    /\ cert = [a \in Callers |-> 0]
    /\ mark = [a \in Callers |-> NoTime]
    /\ tlsCert = 0 /\ lastFailure = NoTime
    /\ failureFile = NoTime /\ keyFile = 0 /\ certFile = 0
    /\ due = {} /\ failed = NoTime /\ torn = FALSE
    /\ overlap = FALSE
    /\ issued = 0 /\ certFails = 0 /\ crashes = 0

-----------------------------------------------------------------------------
\* GetLastFailure: what is in memory, or else in the file.
GetLastFailure == IF lastFailure = NoTime THEN failureFile ELSE lastFailure

\* Mutant: the failure is kept in memory only.
UpdateLastFailureMemory == lastFailure' = 0 /\ failureFile' = failureFile

UpdateLastFailure == lastFailure' = 0 /\ failureFile' = 0

ClearLastFailure == lastFailure' = NoTime /\ failureFile' = NoTime

\* ObtainCert begins: a caller goes to the cooldown check.
Enter(a) == certPc' = [certPc EXCEPT ![a] = "check"]

\* The history is kept of an attempt that does not run alone.
Overlap(a) == overlap' = (overlap \/ main = "reset" \/ \E b \in Callers \ {a} : certPc[b] # "idle")

\* ObtainCert returns.  Setup starts the scheduler or certFails for good; the
\* scheduler goes on to reset its timer on success and on nothing else.
Return(a, ok) ==
    /\ certPc' = [certPc EXCEPT ![a] = "idle"]
    /\ cert' = [cert EXCEPT ![a] = 0]
    /\ mark' = [mark EXCEPT ![a] = NoTime]
    /\ \/ a # "main" /\ UNCHANGED <<main, timer>>
       \/ a = "main" /\ ok /\ main = "setup" /\ main' = "wait" /\ timer' = tlsCert'
       \/ a = "main" /\ ok /\ main = "renew" /\ main' = "reset" /\ UNCHANGED timer
       \/ a = "main" /\ ~ok /\ main = "setup" /\ main' = "failed" /\ UNCHANGED timer
       \/ a = "main" /\ ~ok /\ main = "renew" /\ main' = "wait" /\ UNCHANGED timer

\* What a failed attempt leaves in the last-failure file and in memory.
RecordFailure(a) ==
    IF a = "main" /\ main = "renew"
    THEN UpdateLastFailure ELSE UNCHANGED <<lastFailure, failureFile>>

-----------------------------------------------------------------------------
Start ==
    /\ ~up
    /\ up' = TRUE
    /\ main' = "setup"
    /\ UNCHANGED <<timer, call, tlsCert, lastFailure, disk, due, hist, bounds>>

\* Mutant: Setup goes on without a certificate.
LoadCertAnyway ==
    /\ up /\ main = "setup" /\ certPc["main"] = "idle"
    /\ tlsCert' = IF keyFile = certFile THEN certFile ELSE 0
    /\ main' = "wait"
    /\ timer' = tlsCert'
    /\ UNCHANGED <<up, call, lastFailure, disk, due, hist, bounds>>

\* Setup: LoadCert, and ObtainCert when there is no certificate or it is due.
\* A pair that does not match is an error, and not os.ErrNotExist.
LoadCert ==
    /\ up /\ main = "setup" /\ certPc["main"] = "idle"
    /\ \/ /\ certFile = 0 \/ keyFile = 0
          /\ Enter("main")
          /\ UNCHANGED <<main, timer, tlsCert>>
       \/ /\ certFile # 0 /\ keyFile # 0 /\ certFile # keyFile
          /\ main' = "failed"
          /\ UNCHANGED <<certPc, timer, tlsCert>>
       \/ /\ certFile # 0 /\ keyFile = certFile /\ certFile \notin due
          /\ tlsCert' = certFile
          /\ main' = "wait"
          /\ timer' = certFile
          /\ UNCHANGED certPc
       \/ /\ certFile # 0 /\ keyFile = certFile /\ certFile \in due
          /\ tlsCert' = certFile
          /\ Enter("main")
          /\ UNCHANGED <<main, timer>>
    /\ UNCHANGED <<up, cert, mark, lastFailure, disk, due, hist, bounds>>

\* case <-timer.C: a channel that fires once.
TimerFires ==
    /\ up /\ main = "wait"
    /\ timer # 0 /\ timer \in due
    /\ lastFailure' = GetLastFailure
    /\ \/ /\ GetLastFailure < RenewalCooldown   \* "continue"
          /\ timer' = 0
          /\ UNCHANGED <<main, certPc, failureFile>>
       \/ /\ GetLastFailure >= RenewalCooldown /\ tlsCert \in due
          /\ timer' = 0
          /\ main' = "renew"
          /\ Enter("main")
          /\ UNCHANGED failureFile
    /\ Overlap("main")
    /\ UNCHANGED <<up, cert, mark, tlsCert, keyFile, certFile, due, failed, torn,
                   bounds>>

\* The same when the API renewed the certificate before the timer fired.
TimerFiresRenewed ==
    /\ up /\ main = "wait"
    /\ timer # 0 /\ timer \in due
    /\ GetLastFailure >= RenewalCooldown /\ tlsCert \notin due
    /\ lastFailure' = GetLastFailure
    /\ main' = "reset" /\ timer' = 0
    /\ Overlap("main")
    /\ UNCHANGED <<up, call, tlsCert, disk, due, failed, torn, bounds>>

\* Mutant: the timer is not reset.
ResetTimerNot ==
    /\ up /\ main = "reset"
    /\ ClearLastFailure
    /\ main' = "wait"
    /\ UNCHANGED <<up, timer, call, tlsCert, keyFile, certFile, due, hist, bounds>>

\* "Reset on success", after the notification: the mark of an attempt the API
\* has begun in the meantime is cleared with it.
ResetTimer ==
    /\ up /\ main = "reset"
    /\ ClearLastFailure
    /\ main' = "wait" /\ timer' = tlsCert
    /\ UNCHANGED <<up, call, tlsCert, keyFile, certFile, due, hist, bounds>>

\* The same when the last-failure file cannot be read: "continue".
TimerFiresUnread ==
    /\ up /\ main = "wait"
    /\ timer # 0 /\ timer \in due
    /\ lastFailure = NoTime
    /\ certFails < MaxCertFails
    /\ certFails' = certFails + 1
    /\ timer' = 0
    /\ UNCHANGED <<up, main, call, tlsCert, lastFailure, disk, due, hist, issued,
                   crashes>>

\* Renew, the API handler, on the active provider.
Renew(a) ==
    /\ up /\ main # "setup"
    /\ a \in Renewers
    /\ certPc[a] = "idle"
    /\ Enter(a)
    /\ Overlap(a)
    /\ UNCHANGED <<proc, cert, mark, tlsCert, lastFailure, disk, due, failed, torn,
                   bounds>>

\* time.Since(lastFailure) < requestCooldownDuration
CheckCooldown(a) ==
    /\ certPc[a] = "check"
    /\ \/ /\ GetLastFailure >= RequestCooldown
          /\ certPc' = [certPc EXCEPT ![a] = "mark"]
          /\ lastFailure' = GetLastFailure
          /\ UNCHANGED <<main, timer, cert, mark, tlsCert, failureFile>>
       \/ /\ GetLastFailure < RequestCooldown
          /\ UNCHANGED tlsCert
          /\ Return(a, FALSE)
          /\ IF a = "main" /\ main = "renew" THEN UpdateLastFailure
             ELSE lastFailure' = GetLastFailure /\ UNCHANGED failureFile
    /\ UNCHANGED <<up, keyFile, certFile, due, hist, bounds>>

\* "mark it as failed first, clear it later if successful"
Mark(a) ==
    /\ certPc[a] = "mark"
    /\ certPc' = [certPc EXCEPT ![a] = "request"]
    /\ mark' = [mark EXCEPT ![a] = 0]
    /\ UpdateLastFailure
    /\ UNCHANGED <<proc, cert, tlsCert, keyFile, certFile, due, hist, bounds>>

\* Mutant: a failed renewal falls through to saveCert.
IssueNothing(a) ==
    /\ certPc[a] = "sent"
    /\ certPc' = [certPc EXCEPT ![a] = "saveKey"]
    /\ UNCHANGED <<proc, cert, mark, tlsCert, lastFailure, disk, due, hist, bounds>>

\* registerACME and Obtain: the request goes to the ACME server ...
Send(a) ==
    /\ certPc[a] = "request"
    /\ certPc' = [certPc EXCEPT ![a] = "sent"]
    /\ UNCHANGED <<proc, cert, mark, tlsCert, lastFailure, disk, due, hist, bounds>>

\* ... which answers with a certificate.
Issue(a) ==
    /\ certPc[a] = "sent"
    /\ issued < MaxIssued
    /\ issued' = issued + 1
    /\ cert' = [cert EXCEPT ![a] = issued + 1]
    /\ certPc' = [certPc EXCEPT ![a] = "saveKey"]
    /\ UNCHANGED <<proc, mark, tlsCert, lastFailure, disk, due, hist, certFails, crashes>>

\* The attempt certFails: the last-failure file cannot be read or written, there is
\* no client, the server refuses, or a certificate file cannot be written.
AttemptFails(a) ==
    /\ certPc[a] \in {"check", "mark", "sent", "saveKey", "saveCert"}
    /\ certPc[a] = "check" => lastFailure = NoTime
    /\ certFails < MaxCertFails
    /\ certFails' = certFails + 1
    /\ failed' = Latest(failed, mark[a])
    /\ torn' = (torn \/ certPc[a] = "saveCert")
    /\ UNCHANGED <<tlsCert, overlap>>
    /\ Return(a, FALSE)
    /\ \/ RecordFailure(a)
       \/ certPc[a] = "mark" /\ lastFailure' = 0 /\ UNCHANGED failureFile
    /\ UNCHANGED <<up, keyFile, certFile, due, issued, crashes>>

\* Mutant: the key of a first certificate is kept.
SaveKeyOnce(a) ==
    /\ certPc[a] = "saveKey"
    /\ keyFile' = IF keyFile = 0 THEN cert[a] ELSE keyFile
    /\ certPc' = [certPc EXCEPT ![a] = "saveCert"]
    /\ UNCHANGED <<proc, cert, mark, tlsCert, lastFailure, failureFile, certFile,
                   due, hist, bounds>>

\* saveCert
SaveKey(a) ==
    /\ certPc[a] = "saveKey"
    /\ keyFile' = cert[a]
    /\ certPc' = [certPc EXCEPT ![a] = "saveCert"]
    /\ UNCHANGED <<proc, cert, mark, tlsCert, lastFailure, failureFile, certFile,
                   due, hist, bounds>>

SaveCert(a) ==
    /\ certPc[a] = "saveCert"
    /\ certFile' = cert[a]
    /\ certPc' = [certPc EXCEPT ![a] = "publish"]
    /\ UNCHANGED <<proc, cert, mark, tlsCert, lastFailure, failureFile, keyFile,
                   due, hist, bounds>>

\* Mutant: the certificate is served from the next start on.
PublishLater(a) ==
    /\ certPc[a] = "publish"
    /\ tlsCert' = IF tlsCert = 0 THEN cert[a] ELSE tlsCert
    /\ Return(a, TRUE)
    /\ ClearLastFailure
    /\ UNCHANGED <<up, keyFile, certFile, due, hist, bounds>>

\* The rest of ObtainCert.  Removing a last-failure file another attempt has
\* removed is an error.
Publish(a) ==
    /\ certPc[a] = "publish"
    /\ tlsCert' = cert[a]
    /\ \/ failureFile # NoTime /\ Return(a, TRUE) /\ ClearLastFailure
       \/ failureFile = NoTime /\ Return(a, FALSE)
          /\ IF a = "main" /\ main = "renew" THEN UpdateLastFailure ELSE ClearLastFailure
    /\ UNCHANGED <<up, keyFile, certFile, due, hist, bounds>>

\* A certificate comes within a month of its expiry, or the configuration of a
\* process not yet started names other domains; older ones have done so before.
BecomesDue(c) ==
    /\ c \in 1..issued /\ c \notin due
    /\ 1..(c - 1) \subseteq due
    /\ due' = due \cup {c}
    /\ UNCHANGED <<proc, call, tlsCert, lastFailure, disk, hist, bounds>>

Older(t) == IF t < RenewalCooldown THEN t + 1 ELSE t

Tick ==
    /\ lastFailure' = Older(lastFailure)
    /\ failureFile' = Older(failureFile)
    /\ failed' = Older(failed)
    /\ mark' = [a \in Callers |-> Older(mark[a])]
    /\ UNCHANGED <<proc, certPc, cert, tlsCert, keyFile, certFile, due, torn, overlap,
                   bounds>>

\* The process dies or is restarted; the disk stays.
Crash ==
    /\ up
    /\ crashes < MaxCrashes
    /\ crashes' = crashes + 1
    /\ up' = FALSE /\ main' = "setup" /\ timer' = 0
    /\ certPc' = [a \in Callers |-> "idle"]
    /\ cert' = [a \in Callers |-> 0]
    /\ mark' = [a \in Callers |-> NoTime]
    /\ tlsCert' = 0 /\ lastFailure' = NoTime
    /\ \E t \in {failed} \cup {mark[a] : a \in {b \in Callers :
                    certPc[b] \in {"sent", "saveKey", "saveCert", "publish"}}} :
          /\ \A a \in Callers : certPc[a] \in {"sent", "saveKey", "saveCert", "publish"}
                => t <= mark[a]
          /\ t <= failed
          /\ failed' = t
    /\ torn' = (torn \/ \E a \in Callers : certPc[a] = "saveCert")
    /\ UNCHANGED <<disk, due, overlap, issued, certFails>>

CallerNext(a) ==
    \/ CheckCooldown(a) \/ Mark(a) \/ Send(a) \/ Issue(a) \/ SaveKey(a)
    \/ SaveCert(a) \/ Publish(a)

CertNext ==
    \/ Start \/ LoadCert \/ TimerFires \/ TimerFiresRenewed \/ TimerFiresUnread \/ ResetTimer
    \/ Tick \/ Crash
    \/ \E a \in Callers : Renew(a) \/ CallerNext(a) \/ AttemptFails(a)
    \/ \E c \in Certs : BecomesDue(c)

CertSpec == CertInit /\ [][CertNext]_certVars

\* Goroutines run, timers fire, time passes, and the ACME server answers.
CertFairSpec ==
    /\ CertSpec
    /\ WF_certVars(Start) /\ WF_certVars(LoadCert) /\ WF_certVars(Tick)
    /\ WF_certVars(TimerFires) /\ WF_certVars(TimerFiresRenewed) /\ WF_certVars(ResetTimer)
    /\ \A a \in Callers : WF_certVars(CallerNext(a))

-----------------------------------------------------------------------------
\* Every variable has its type, and an attempt that got past the ACME server
\* holds a certificate: a failed renewal never falls through to saveCert.
CertTypeOK ==
    /\ up \in BOOLEAN /\ torn \in BOOLEAN /\ overlap \in BOOLEAN
    /\ main \in {"setup", "wait", "renew", "reset", "failed"}
    /\ certPc \in [Callers -> {"idle", "check", "mark", "request", "sent", "saveKey",
                           "saveCert", "publish"}]
    /\ cert \in [Callers -> 0..MaxIssued]
    /\ mark \in [Callers -> Ages]
    /\ {lastFailure, failureFile, failed} \subseteq Ages
    /\ {timer, tlsCert, keyFile, certFile, issued} \subseteq 0..MaxIssued
    /\ due \subseteq Certs
    /\ certFails \in 0..MaxCertFails /\ crashes \in 0..MaxCrashes
    /\ \A a \in Callers : certPc[a] \in {"saveKey", "saveCert", "publish"} => cert[a] # 0

\* "in case the process crashed / failed to renew, we put it on a cooldown":
\* no request goes out within requestCooldownDuration of the last attempt that
\* failed, whether the process that made it is still there or not, as long as
\* the attempts come one after the other.
SentAfterCooldown ==
    [][\A a \in Callers : certPc[a] = "request" /\ certPc'[a] = "sent" /\ ~overlap
          => failed >= RequestCooldown]_certVars

\* The key on disk belongs to the certificate on disk, except while both are
\* written and after that was interrupted or done twice at once.
PairMatches ==
    torn \/ overlap \/ keyFile = certFile \/ \E a \in Callers : certPc[a] = "saveCert"

\* "this line should never be reached": the scheduler asks ShouldRenewOn only
\* when there is a certificate.
RenewOnNeverPanics == main \in {"wait", "renew", "reset"} => tlsCert # 0

\* What the process serves is what it finds on disk when it restarts.
ServedIsSaved ==
    tlsCert # 0 /\ ~torn /\ ~overlap =>
        certFile = tlsCert \/ \E a \in Callers : certPc[a] = "publish"

\* A certificate that is due is renewed, when nothing certFails.
DueIsRenewed ==
    (up /\ main = "wait" /\ tlsCert \in due)
        ~> (tlsCert \notin due \/ issued = MaxIssued \/ certFails + crashes > 0 \/ overlap)

\* "Retry after 1 hour on failure": the scheduler whose renewal failed tries
\* again while the certificate is due.
RetriesAfterFailure ==
    (up /\ main = "wait" /\ tlsCert \in due /\ failed # NoTime)
        ~> (~up \/ main = "renew" \/ tlsCert \notin due)

=============================================================================
