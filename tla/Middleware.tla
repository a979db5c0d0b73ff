------------------------------ MODULE Middleware ------------------------------
(***************************************************************************)
(* Requests on their way through the middlewares of their routes            *)
(* (internal/net/gphttp/middleware).  A route's middlewares are sorted by   *)
(* priority when it is built; a request passes their `before' functions one *)
(* after the other, then the upstream, then their `modifyResponse'          *)
(* functions.  Requests run at the same time and share what the middlewares *)
(* keep: rate limiters, the whitelist's cache, the ranges of Cloudflare,    *)
(* captcha sessions and the OIDC provider made on first use.                *)
(*                                                                          *)
(* An address is an IP with or without a port; a body is its length.        *)
(***************************************************************************)
EXTENDS Integers, Sequences, FiniteSets

CONSTANTS
    MConfigs,      \* functions from the routes to the sets of their middlewares
    MRequests,     \* names of the requests
    MInputs,       \* what a request may be
    Trusted,       \* IPs the real_ip middlewares trust
    Allowed,       \* IPs of the whitelist
    Burst          \* size of a rate limiter

\* RateLimiterOpts: a burst is validated to be positive.
ASSUME BurstAssumption == Burst \in Nat \ {0}

VARIABLES
    mchain,        \* route -> the sorted middlewares
    mq,            \* the requests
    tokens,        \* <<limiter, ip>> -> tokens left, for the limiters made
    passed,        \* <<limiter, ip>> -> requests let through since the last refill
    cidrCache,     \* <<whitelist, addr>> -> allowed
    cfFresh,       \* the last update of the ranges is less than an hour old
    cfFrom,        \* middlewares that have the ranges
    sessions,      \* captcha session -> live or expired
    oidcInit       \* middleware -> new, failed or ready

mwVars == <<mchain, mq, tokens, passed, cidrCache, cfFresh, cfFrom, sessions, oidcInit>>

Idle == [at |-> "new", i |-> 1, route |-> "", addr |-> [ip |-> "", port |-> TRUE], peer |-> "", real |-> <<>>,
         path |-> "", asked |-> "", tls |-> FALSE, accept |-> "", post |-> FALSE, cookie |-> "", token |-> "", xff |-> "",
         wrote |-> FALSE, captcha |-> TRUE, status |-> 0, body |-> 0, length |-> 0]

Unset == 0 - 1

\* commonOptions: a middleware without the option has the zero value.
Priority(m) == IF m.priority = Unset THEN 0 ELSE m.priority

\* compileMiddlewares and patchReverseProxy: sort.Sort leaves equal ones in any order.
Sorted(ms) ==
    {s \in [1..Cardinality(ms) -> ms] :
        \A i, j \in DOMAIN s : i < j => s[i] # s[j] /\ Priority(s[i]) <= Priority(s[j])}

MInit ==
    /\ \E c \in MConfigs : mchain \in {f \in [DOMAIN c -> UNION {Sorted(c[r]) : r \in DOMAIN c}] :
                                          \A r \in DOMAIN c : f[r] \in Sorted(c[r])}
    /\ mq = [r \in MRequests |-> Idle]
    /\ tokens = <<>> /\ passed = <<>>
    /\ cidrCache = <<>>
    /\ cfFresh = FALSE /\ cfFrom = {}
    /\ sessions = <<>>
    /\ oidcInit = <<>>

Stored(f, k, v) == [x \in DOMAIN f \cup {k} |-> IF x = k THEN v ELSE f[x]]
Value(f, k, default) == IF k \in DOMAIN f THEN f[k] ELSE default

-----------------------------------------------------------------------------
Arrive(r) ==
    /\ mq[r].at = "new"
    /\ \E in \in MInputs :
          mq' = [mq EXCEPT ![r] = [Idle EXCEPT !.at = "before", !.route = in.route, !.addr.ip = in.ip, !.peer = in.ip,
                                      !.real = in.real, !.path = in.path, !.asked = in.path, !.tls = in.tls, !.accept = in.accept,
                                      !.post = in.post, !.cookie = in.cookie, !.token = in.token]]
    /\ UNCHANGED <<mchain, tokens, passed, cidrCache, cfFresh, cfFrom, sessions, oidcInit>>

Chain(r) == mchain[mq[r].route]
Current(r) == Chain(r)[mq[r].i]

\* The request is at a middleware of this kind.
At(r, kind) == mq[r].at = "before" /\ mq[r].i <= Len(Chain(r)) /\ Current(r).kind = kind

\* ShouldBypass: the paths the option names, except those under the OIDC base path.
Bypassed(m, path) == path \in m.bypass /\ ~(m.kind = "oidc" /\ path = "auth")

Proceed(r, q) == mq' = [mq EXCEPT ![r] = [q EXCEPT !.i = @ + 1]]
Refuse(r, status) ==
    mq' = [mq EXCEPT ![r].at = "done", ![r].wrote = TRUE, ![r].status = status, ![r].body = 1, ![r].length = 1]

Bypass(r) ==
    /\ mq[r].at = "before" /\ mq[r].i <= Len(Chain(r))
    /\ Bypassed(Current(r), mq[r].path)
    /\ Proceed(r, mq[r])
    /\ UNCHANGED <<mchain, tokens, passed, cidrCache, cfFresh, cfFrom, sessions, oidcInit>>

\* The middleware is called, its bypass does not apply.
Called(r, kind) == At(r, kind) /\ ~Bypassed(Current(r), mq[r].path)

-----------------------------------------------------------------------------
\* Mutant: whoever sends the header is believed.
IsTrustedAnyone(ip, from) == TRUE

IsTrusted(ip, from) == ip \in from

\* setRealIP: the new address has no port.
SetRealIP(q, from, recursive) ==
    LET untrusted(ip) == ip \notin from
        ips == IF recursive THEN SelectSeq(q.real, untrusted) ELSE q.real
    IN  IF ~IsTrusted(q.addr.ip, from) \/ ips = <<>> THEN q
        ELSE [q EXCEPT !.addr = [ip |-> ips[Len(ips)], port |-> FALSE]]

RealIP(r) ==
    /\ Called(r, "real_ip")
    /\ Proceed(r, SetRealIP(mq[r], Trusted, Current(r).recursive))
    /\ UNCHANGED <<mchain, tokens, passed, cidrCache, cfFresh, cfFrom, sessions, oidcInit>>

\* cloudflareRealIP.before, tryFetchCFCIDR: under the lock, one request fetches the ranges
\* and only its middleware gets them; a failure is tried again by the next request.
CloudflareRealIP(r) ==
    /\ Called(r, "cloudflare")
    /\ \/ cfFresh /\ UNCHANGED <<cfFresh, cfFrom>>
       \/ ~cfFresh /\ UNCHANGED <<cfFresh, cfFrom>>
       \/ ~cfFresh /\ cfFresh' = TRUE /\ cfFrom' = cfFrom \cup {Current(r).id}
    /\ Proceed(r, SetRealIP(mq[r], IF Current(r).id \in cfFrom' THEN Trusted ELSE {}, TRUE))
    /\ UNCHANGED <<mchain, tokens, passed, cidrCache, sessions, oidcInit>>

\* checkIP: the answer is kept for the address as it is, with its port.
CidrWhitelist(r) ==
    /\ Called(r, "cidr_whitelist")
    /\ LET key == <<Current(r).id, mq[r].addr>>
           allow == Value(cidrCache, key, mq[r].addr.ip \in Allowed)
       IN  /\ cidrCache' = Stored(cidrCache, key, allow)
           /\ IF allow THEN Proceed(r, mq[r]) ELSE Refuse(r, 403)
    /\ UNCHANGED <<mchain, tokens, passed, cfFresh, cfFrom, sessions, oidcInit>>

\* Mutant: every request gets a limiter of its own.
LimiterNew(key) == Burst

\* The limiter of the host, made on its first request.
Limiter(key) == Value(tokens, key, Burst)

\* limit: an address without a port is an internal error.
RateLimit(r) ==
    /\ Called(r, "rate_limit")
    /\ LET key == <<Current(r).id, mq[r].addr.ip>>
           left == Limiter(key)
       IN  \/ /\ ~mq[r].addr.port
              /\ Refuse(r, 500)
              /\ UNCHANGED <<tokens, passed>>
           \/ /\ mq[r].addr.port /\ left > 0
              /\ tokens' = Stored(tokens, key, left - 1)
              /\ passed' = Stored(passed, key, Value(passed, key, 0) + 1)
              /\ Proceed(r, mq[r])
           \/ /\ mq[r].addr.port /\ left = 0
              /\ tokens' = Stored(tokens, key, 0)
              /\ Refuse(r, 429)
              /\ UNCHANGED passed
    /\ UNCHANGED <<mchain, cidrCache, cfFresh, cfFrom, sessions, oidcInit>>

\* setXForwarded: the header is removed, and set again when the address has a port.
SetXForwarded(r) ==
    /\ Called(r, "set_x_forwarded")
    /\ Proceed(r, [mq[r] EXCEPT !.xff = IF mq[r].addr.port THEN mq[r].addr.ip ELSE ""])
    /\ UNCHANGED <<mchain, tokens, passed, cidrCache, cfFresh, cfFrom, sessions, oidcInit>>

\* modifyRequest: the path gets the prefix.
ModifyRequest(r) ==
    /\ Called(r, "modify_request")
    /\ Proceed(r, [mq[r] EXCEPT !.path = "prefixed"])
    /\ UNCHANGED <<mchain, tokens, passed, cidrCache, cfFresh, cfFrom, sessions, oidcInit>>

RedirectHTTP(r) ==
    /\ Called(r, "redirect_http")
    /\ IF mq[r].tls THEN Proceed(r, mq[r]) ELSE Refuse(r, 308)
    /\ UNCHANGED <<mchain, tokens, passed, cidrCache, cfFresh, cfFrom, sessions, oidcInit>>

\* forwardAuthMiddleware.before: the auth route is missing or does not answer, it refuses,
\* or it lets the request through.
ForwardAuth(r) ==
    /\ Called(r, "forward_auth")
    /\ \/ \E status \in {500, 401} : Refuse(r, status)
       \/ Proceed(r, mq[r])
    /\ UNCHANGED <<mchain, tokens, passed, cidrCache, cfFresh, cfFrom, sessions, oidcInit>>

-----------------------------------------------------------------------------
\* Mutant: a session found is a session good for all time.
LiveFound(s) == s \in DOMAIN sessions

\* CaptchaSession.expired
Live(s) == Value(sessions, s, "none") = "live"

\* Mutant: the page is answered with a redirect, and forwarded.
VerifiedGoesOn(r) == Proceed(r, [mq[r] EXCEPT !.wrote = TRUE])

Verified(r) == Refuse(r, 302)

\* PreRequest: a live session passes, an expired one is deleted; then the challenge, or
\* the answer to it, which makes a session.
Captcha(r) ==
    /\ Called(r, "hcaptcha")
    /\ LET q == mq[r]
       IN  \/ Live(q.cookie) /\ Proceed(r, [q EXCEPT !.captcha = (Value(sessions, q.cookie, "none") = "live")])
                             /\ UNCHANGED sessions
           \/ /\ ~Live(q.cookie)
              /\ \/ /\ q.accept = "html" /\ q.post
                    /\ sessions' = Stored(sessions, r, "live")
                    /\ Verified(r)
                 \/ /\ sessions' = [s \in DOMAIN sessions \ {q.cookie} |-> sessions[s]]
                    /\ Refuse(r, IF q.accept # "html" THEN 403 ELSE IF q.post THEN 401 ELSE 200)
    /\ UNCHANGED <<mchain, tokens, passed, cidrCache, cfFresh, cfFrom, oidcInit>>

\* oidcMiddleware.before.  The provider is made once; when that fails the middleware counts
\* as initialized all the same, and the next request calls a provider that is not there.
\* The logout path is answered and the request goes on.
Oidc(r) ==
    /\ Called(r, "oidc")
    /\ LET m == Current(r).id
           q == mq[r]
           init == Value(oidcInit, m, "new")
       IN  \/ init = "new" /\ oidcInit' = Stored(oidcInit, m, "failed") /\ Refuse(r, 500)
           \/ init = "failed" /\ Refuse(r, 502) /\ UNCHANGED oidcInit
           \/ /\ init \in {"new", "ready"}
              /\ oidcInit' = Stored(oidcInit, m, "ready")
              /\ CASE q.path = "logout" -> Proceed(r, [q EXCEPT !.wrote = TRUE])
                   [] q.path # "logout" /\ q.token = "valid" -> Proceed(r, q)
                   [] q.path # "logout" /\ q.token = "none" -> Refuse(r, 302)
                   [] q.path # "logout" /\ q.token = "other" -> Refuse(r, 403)
    /\ UNCHANGED <<mchain, tokens, passed, cidrCache, cfFresh, cfFrom, sessions>>

\* customErrorPage.before serves the files of the error pages; modifyHTML.before only sets
\* Accept-Encoding.
ErrorPage(r) ==
    /\ Called(r, "error_page")
    /\ IF mq[r].path = "error_file" THEN Refuse(r, 200) ELSE Proceed(r, mq[r])
    /\ UNCHANGED <<mchain, tokens, passed, cidrCache, cfFresh, cfFrom, sessions, oidcInit>>

ModifyHTML(r) ==
    /\ Called(r, "modify_html")
    /\ Proceed(r, mq[r])
    /\ UNCHANGED <<mchain, tokens, passed, cidrCache, cfFresh, cfFrom, sessions, oidcInit>>

-----------------------------------------------------------------------------
\* The upstream answers with a body of 2, or with an error page of its own.
Upstream(r) ==
    /\ mq[r].at = "before" /\ mq[r].i > Len(Chain(r))
    /\ \E status \in {200, 500} :
          mq' = [mq EXCEPT ![r].at = "after", ![r].i = 1, ![r].status = status, ![r].body = 2, ![r].length = 2]
    /\ UNCHANGED <<mchain, tokens, passed, cidrCache, cfFresh, cfFrom, sessions, oidcInit>>

\* Mutant: the page replaces the body and Content-Length stays.
ErrorBodyOnly(q) == [q EXCEPT !.body = 4]

\* customErrorPage.modifyResponse of an error response.
ErrorBody(q) == [q EXCEPT !.body = 4, !.length = 4]

\* modifyHTML.modifyResponse: the body cannot be read, the target is missing, the new page
\* is written, or building it fails and the response is given up.
HtmlBodies(q) ==
    { [q EXCEPT !.body = 0, !.length = 0], q, [q EXCEPT !.body = @ + 3, !.length = q.body + 3],
      [q EXCEPT !.at = "done", !.status = 502, !.body = 1, !.length = 1] }

\* One modifyResponse of the chain; the bypass is asked again, of the request as it is now.
ModifyResponse(r) ==
    /\ mq[r].at = "after" /\ mq[r].i <= Len(Chain(r))
    /\ LET m == Current(r)
           q == [mq[r] EXCEPT !.i = @ + 1]
           on == ~Bypassed(m, q.path)
       IN  \E new \in CASE m.kind = "error_page" /\ on /\ q.status >= 400 -> {ErrorBody(q)}
                        [] m.kind = "modify_html" /\ on -> HtmlBodies(q)
                        [] OTHER -> {q} :
              mq' = [mq EXCEPT ![r] = new]
    /\ UNCHANGED <<mchain, tokens, passed, cidrCache, cfFresh, cfFrom, sessions, oidcInit>>

Respond(r) ==
    /\ mq[r].at = "after" /\ mq[r].i > Len(Chain(r))
    /\ mq' = [mq EXCEPT ![r].at = "done"]
    /\ UNCHANGED <<mchain, tokens, passed, cidrCache, cfFresh, cfFrom, sessions, oidcInit>>

-----------------------------------------------------------------------------
\* Time: the limiters fill up, the ranges grow old, a session expires.
Refill ==
    /\ \E k \in DOMAIN tokens : tokens[k] < Burst
    /\ tokens' = [k \in DOMAIN tokens |-> Burst] /\ passed' = <<>>
    /\ UNCHANGED <<mchain, mq, cidrCache, cfFresh, cfFrom, sessions, oidcInit>>

HourPasses ==
    /\ cfFresh /\ cfFresh' = FALSE
    /\ UNCHANGED <<mchain, mq, tokens, passed, cidrCache, cfFrom, sessions, oidcInit>>

Expire(s) ==
    /\ sessions[s] = "live"
    /\ sessions' = [sessions EXCEPT ![s] = "expired"]
    /\ UNCHANGED <<mchain, mq, tokens, passed, cidrCache, cfFresh, cfFrom, oidcInit>>

MStep(r) ==
    \/ Arrive(r) \/ Bypass(r) \/ RealIP(r) \/ CloudflareRealIP(r) \/ CidrWhitelist(r) \/ RateLimit(r)
    \/ SetXForwarded(r) \/ ModifyRequest(r) \/ RedirectHTTP(r) \/ ForwardAuth(r) \/ Captcha(r) \/ Oidc(r)
    \/ ErrorPage(r) \/ ModifyHTML(r) \/ Upstream(r) \/ ModifyResponse(r) \/ Respond(r)

MNext ==
    \/ \E r \in MRequests : MStep(r)
    \/ Refill \/ HourPasses
    \/ \E s \in DOMAIN sessions : Expire(s)

MSpec == MInit /\ [][MNext]_mwVars

-----------------------------------------------------------------------------
Forwarded(r) == mq[r].at = "after"

\* A request that a middleware has answered goes no further: what reaches the upstream was
\* not answered before.  The logout path of OIDC is the exception.
AnsweredNotForwarded == \A r \in MRequests : Forwarded(r) /\ mq[r].wrote => mq[r].asked = "logout"

\* Whatever the interleaving of the requests of a host, one limiter lets no more than
\* Burst of them through between two refills.
RateBound == \A k \in DOMAIN passed : passed[k] <= Burst

\* The address a request has after the middlewares is the one it came from, unless that
\* one is trusted; through any number of real_ip middlewares nobody else can set it.
PeerKept == \A r \in MRequests : mq[r].at # "new" /\ mq[r].peer \notin Trusted => mq[r].addr.ip = mq[r].peer

\* Whatever the middlewares did to it, a response's Content-Length is the length of its body.
LengthMatches == \A r \in MRequests : mq[r].length = mq[r].body

\* A captcha lets a request through only while its session lives.
CaptchaLive == \A r \in MRequests : mq[r].captcha

\* middleware.go:32: "Default is 10, 0 is the highest": a middleware with a smaller priority
\* than 10 comes before those without one.
DefaultPriorityIsTen ==
    \A r \in DOMAIN mchain : \A i, j \in DOMAIN mchain[r] :
        i < j /\ mchain[r][i].priority = Unset /\ mchain[r][j].priority # Unset => mchain[r][j].priority >= 10
=============================================================================
