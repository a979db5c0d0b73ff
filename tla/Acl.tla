-------------------------------- MODULE Acl --------------------------------
(***************************************************************************)
(* internal/acl over the country database of MaxMind: the listeners that   *)
(* ask IPAllowed for every connection and packet, the cache of verdicts,   *)
(* and the loop that logs and counts them.                                 *)
(***************************************************************************)
EXTENDS MaxMind, Sequences, FiniteSets, FiniteSetsExt

CONSTANTS AclIPs,       \* the addresses that connect
          AclKind,      \* AclKind[ip]: "loopback", "private" or "public"
          Country,      \* Country[ip]: its country in the database
          AclConfigs,   \* the configurations: [default, allowLocal, allow, deny, log, notify, notifyAllowed]
          AclWorkers,   \* the goroutines that ask; "udp" reads and answers packets
          AclCap,       \* bound: capacity of logNotifyCh (100 in the code)
          MaxAsked      \* bound: calls of IPAllowed

VARIABLES
  acl,        \* the Config
  ipCache,    \* ipCache[ip]: "none" or [allow, city, expired]
  cityCache,  \* the addresses whose city was looked up
  logNotifyCh,
  loopOn,     \* logNotifyLoop runs
  loopStopped,
  counts,     \* [allowed, blocked]: allowedCount and blockedCount, per address
  totals,     \* [allowed, blocked]: totalAllowedCount and totalBlockedCount
  reported,   \* [allowed, blocked]: what the summaries sent so far add up to
  ask,        \* ask[w]: the IPAllowed that worker w is in
  asked, verdicts, resent

aclVars == <<acl, ipCache, cityCache, logNotifyCh, loopOn, loopStopped, counts, totals, reported, ask, asked, verdicts, resent>>

NoRecord == [allow |-> FALSE, city |-> FALSE, expired |-> TRUE, saw |-> {}]
NoAsk == [at |-> "idle", ip |-> "", allow |-> FALSE, city |-> FALSE, store |-> FALSE, reply |-> FALSE, saw |-> {}]
Zero == [ip \in AclIPs |-> 0]

\* Validate: a configuration that can never allow anything is refused.
AclValid(c) == ~(~c.allowLocal /\ c.default = "deny" /\ c.allow = {})

NeedNotify(c) == c.notify
NeedLog(c) == c.log

\* Mutant: the loop runs for notifications only.
NeedLogOrNotifyOnly(c) == NeedNotify(c)

\* Start: logNotifyLoop runs when verdicts are logged or notified.
NeedLogOrNotify(c) == NeedLog(c) \/ NeedNotify(c)

AclInit ==
  /\ MMInit
  /\ acl \in {c \in AclConfigs : AclValid(c)}
  /\ ipCache = [ip \in AclIPs |-> NoRecord] /\ cityCache = {} /\ logNotifyCh = <<>>
  /\ loopOn = NeedLogOrNotify(acl) /\ loopStopped = FALSE
  /\ counts = [allowed |-> Zero, blocked |-> Zero]
  /\ totals = [allowed |-> 0, blocked |-> 0] /\ reported = totals
  /\ ask = [w \in AclWorkers |-> NoAsk] /\ asked = 0 /\ verdicts = totals /\ resent = FALSE

-----------------------------------------------------------------------------

\* LookupCity: the address knows its city, or an instance with a reader finds it
\* in the cache or in the open database.
LookupCity(ip, known) == known \/ (HasInstance /\ reader # None /\ (ip \in cityCache \/ ~readerClosed))

\* matchIP and matchCIDR, matchISOCode, matchTimeZone (the Country database has
\* no time zones). found: the city could be looked up.
Matches(m, ip, found) ==
  \/ m.type \in {"ip", "cidr"} /\ ip \in m.val
  \/ m.type = "country" /\ found /\ Country[ip] \in m.val
  \/ m.type = "tz" /\ found /\ "" \in m.val

Geo(ms) == \E m \in ms : m.type \in {"country", "tz"}
Match(ms, ip, found) == \E m \in ms : Matches(m, ip, found)

\* Mutant: a record serves for ever.
ExpiredNever(r) == r = NoRecord

Expired(r) == r.expired

\* The part of IPAllowed before the rules: loopback is allowed unlogged, private
\* addresses when allowLocal, and a record that has not expired decides.
IPAllowed(ip, reply) ==
  LET a == [NoAsk EXCEPT !.ip = ip, !.reply = reply]
      r == ipCache[ip]
  IN CASE AclKind[ip] = "loopback" -> [a EXCEPT !.at = "answer", !.allow = TRUE]
       [] AclKind[ip] = "private" /\ acl.allowLocal -> [a EXCEPT !.at = "log", !.allow = TRUE]
       [] AclKind[ip] # "loopback" /\ ~(AclKind[ip] = "private" /\ acl.allowLocal) /\ ~Expired(r)
            -> [a EXCEPT !.at = "log", !.allow = r.allow, !.city = r.city, !.saw = r.saw]
       [] OTHER -> [a EXCEPT !.at = "allow"]

\* A rules step of IPAllowed: the rules ms decide verdict v, or the next step does.
\* A lookup that succeeds stays with the address and in the city cache.
Consult(w, ms, v, next) ==
  LET a == ask[w]
      found == LookupCity(a.ip, a.city)
      looked == [a EXCEPT !.city = a.city \/ (Geo(ms) /\ found), !.saw = @ \cup (IF Geo(ms) THEN {found} ELSE {})]
  IN /\ ask' = [ask EXCEPT ![w] = IF Match(ms, a.ip, found)
                                    THEN [looked EXCEPT !.at = "log", !.allow = v, !.store = TRUE]
                                    ELSE [looked EXCEPT !.at = next, !.allow = (acl.default = "allow"), !.store = TRUE]]
     /\ cityCache' = IF Geo(ms) /\ found THEN cityCache \cup {a.ip} ELSE cityCache

\* TCPListener.Accept and UDPListener.ReadFrom get a connection or a packet.
Ask(w, ip) ==
  /\ ask[w].at = "idle" /\ asked < MaxAsked /\ asked' = asked + 1
  /\ ask' = [ask EXCEPT ![w] = IPAllowed(ip, FALSE)]
  /\ UNCHANGED <<acl, ipCache, cityCache, logNotifyCh, loopOn, loopStopped, counts, totals, reported, verdicts, resent>>

AllowRules(w) ==
  /\ ask[w].at = "allow" /\ Consult(w, acl.allow, TRUE, "deny")
  /\ UNCHANGED <<acl, ipCache, logNotifyCh, loopOn, loopStopped, counts, totals, reported, asked, verdicts, resent>>

DenyRules(w) ==
  /\ ask[w].at = "deny" /\ Consult(w, acl.deny, FALSE, "log")
  /\ UNCHANGED <<acl, ipCache, logNotifyCh, loopOn, loopStopped, counts, totals, reported, asked, verdicts, resent>>

Field(allow) == IF allow THEN "allowed" ELSE "blocked"

\* logAndNotify: the send blocks while the channel is full.
LogAndNotify(w) ==
  LET a == ask[w] IN
  /\ a.at = "log"
  /\ IF acl.log \/ acl.notify
       THEN /\ Len(logNotifyCh) < AclCap
            /\ logNotifyCh' = Append(logNotifyCh, [ip |-> a.ip, allow |-> a.allow])
            /\ verdicts' = [verdicts EXCEPT ![Field(a.allow)] = @ + 1]
       ELSE UNCHANGED <<logNotifyCh, verdicts>>
  /\ ask' = [ask EXCEPT ![w].at = IF a.store THEN "store" ELSE "answer"]
  /\ UNCHANGED <<acl, ipCache, cityCache, loopOn, loopStopped, counts, totals, reported, asked, resent>>

CacheRecord(w) ==
  LET a == ask[w] IN
  /\ a.at = "store"
  /\ ipCache' = [ipCache EXCEPT ![a.ip] = [allow |-> a.allow, city |-> a.city, expired |-> FALSE, saw |-> a.saw]]
  /\ ask' = [ask EXCEPT ![w].at = "answer"]
  /\ UNCHANGED <<acl, cityCache, logNotifyCh, loopOn, loopStopped, counts, totals, reported, asked, verdicts, resent>>

\* What the caller does with the verdict. A connection or packet that is not
\* allowed is dropped. An allowed packet is answered by WriteTo, which writes
\* before it asks, and writes again when the address is not allowed.
Answer(w) ==
  LET a == ask[w] IN
  /\ a.at = "answer"
  /\ \/ ask' = [ask EXCEPT ![w] = NoAsk] /\ (a.reply => a.allow) /\ UNCHANGED <<asked, resent>>
     \/ /\ w = "udp" /\ (a.reply # a.allow) /\ asked < MaxAsked /\ asked' = asked + 1
        /\ ask' = [ask EXCEPT ![w] = IPAllowed(a.ip, TRUE)] /\ resent' = (resent \/ a.reply)
  /\ UNCHANGED <<acl, ipCache, cityCache, logNotifyCh, loopOn, loopStopped, counts, totals, reported, verdicts>>

\* created.Add(cacheTTL) has passed.
Age(ip) ==
  /\ ipCache[ip] # NoRecord /\ ~ipCache[ip].expired
  /\ ipCache' = [ipCache EXCEPT ![ip].expired = TRUE, ![ip].saw = {}]
  /\ UNCHANGED <<acl, cityCache, logNotifyCh, loopOn, loopStopped, counts, totals, reported, ask, asked, verdicts, resent>>

-----------------------------------------------------------------------------

\* logNotifyLoop receives a verdict: it logs it and counts it.
Counted(e) == NeedNotify(acl) /\ (e.allow => acl.notifyAllowed)
LoopReceive ==
  /\ loopOn /\ logNotifyCh # <<>> /\ logNotifyCh' = Tail(logNotifyCh)
  /\ LET e == Head(logNotifyCh)
         n == IF Counted(e) THEN 1 ELSE 0
     IN /\ counts' = [counts EXCEPT ![Field(e.allow)][e.ip] = @ + n]
        /\ totals' = [totals EXCEPT ![Field(e.allow)] = @ + n]
  /\ UNCHANGED <<acl, ipCache, cityCache, loopOn, loopStopped, reported, ask, asked, verdicts, resent>>

SumOf(c) == [k \in {"allowed", "blocked"} |-> FoldSet(LAMBDA ip, n : n + c[k][ip], 0, AclIPs)]

\* Mutant: only the blocked addresses are cleared.
ClearBlocked(c) == [c EXCEPT !.blocked = Zero]

Clear(c) == [allowed |-> Zero, blocked |-> Zero]

\* The ticker: the summary is sent, then the counts per address are cleared.
LoopTick ==
  /\ loopOn /\ NeedNotify(acl) /\ (counts.allowed # Zero \/ counts.blocked # Zero)
  /\ reported' = [k \in DOMAIN reported |-> reported[k] + SumOf(counts)[k]]
  /\ counts' = Clear(counts)
  /\ UNCHANGED <<acl, ipCache, cityCache, logNotifyCh, loopOn, loopStopped, totals, ask, asked, verdicts, resent>>

\* The parent task is done.
LoopStop ==
  /\ loopOn /\ loopOn' = FALSE /\ loopStopped' = TRUE
  /\ UNCHANGED <<acl, ipCache, cityCache, logNotifyCh, counts, totals, reported, ask, asked, verdicts, resent>>

AclStep(w) == AllowRules(w) \/ DenyRules(w) \/ LogAndNotify(w) \/ CacheRecord(w) \/ Answer(w)

AclNext ==
  \/ /\ ~mmPanic /\ UNCHANGED mmVars
     /\ \/ \E w \in AclWorkers : AclStep(w)
        \/ \E w \in AclWorkers, ip \in AclIPs : Ask(w, ip)
        \/ \E ip \in AclIPs : Age(ip)
        \/ LoopReceive \/ LoopTick \/ LoopStop
  \/ /\ UNCHANGED aclVars
     /\ LoadMaxMindDB \/ CheckLastest \/ Fetch \/ Replace \/ Swap \/ StopUpdate

AclSpec == AclInit /\ [][AclNext]_<<aclVars, mmVars>>

\* The goroutines of the program run.
AclFair ==
  /\ \A w \in AclWorkers : WF_aclVars(~mmPanic /\ AclStep(w) /\ UNCHANGED mmVars)
  /\ WF_aclVars(~mmPanic /\ LoopReceive /\ UNCHANGED mmVars)

-----------------------------------------------------------------------------

\* The verdict of the rules, when the lookups of the allow rules found the city
\* (f) and those of the deny rules did (g).
Verdict(ip, f, g) ==
  \/ Match(acl.allow, ip, f)
  \/ ~Match(acl.deny, ip, g) /\ acl.default = "allow"

\* The answer of IPAllowed for an address that is neither loopback nor let in by
\* allow_local is the verdict of the rules, allow before deny before default,
\* under the lookups made for it; a record of the cache stands in for them no
\* longer than cacheTTL, so a verdict given while the database was missing does
\* not outlive it.
VerdictHolds ==
  \A w \in AclWorkers :
    LET a == ask[w]
        ruled == AclKind[a.ip] = "public" \/ (AclKind[a.ip] = "private" /\ ~acl.allowLocal)
    IN (a.at = "answer" /\ ruled) =>
         \E f, g \in (IF a.saw = {} THEN {TRUE} ELSE a.saw) : a.allow = Verdict(a.ip, f, g)

\* Every verdict handed to logNotifyLoop is counted once, and every count goes
\* into exactly one summary: what was reported and what is still held for the
\* next summary add up to the totals the summary prints.
CountsExact ==
  /\ \A k \in {"allowed", "blocked"} : totals[k] = reported[k] + SumOf(counts)[k]
  /\ NeedNotify(acl) =>
       verdicts.blocked = totals.blocked + Len(SelectSeq(logNotifyCh, LAMBDA e : ~e.allow))

\* Until logNotifyLoop is stopped (or the process dies), every IPAllowed comes to its verdict: the
\* channel fills up but is drained.
ChecksReturn ==
  \A w \in AclWorkers : ask[w].at \notin {"idle", "answer"} ~> (ask[w].at = "answer" \/ loopStopped \/ mmPanic)

\* UDPListener.WriteTo says "Drop packet to disallowed IP": nothing is sent to an
\* address that is not allowed.
DisallowedGetsNothing == ~resent
=============================================================================
