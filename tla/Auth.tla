------------------------------- MODULE Auth -------------------------------
(***************************************************************************)
(* OIDC sessions (internal/auth/oidc.go, oauth_refresh.go) of one browser,  *)
(* kept in a json store (internal/jsonstore).  A login gives the browser a  *)
(* session; when its id token is gone, a request trades the session for a   *)
(* new one with the refresh token of the identity provider.  Requests of a  *)
(* page do so at the same time: the first takes the session's lock and      *)
(* calls the provider, the others are given its result.  The old session is *)
(* deleted a few seconds later.                                             *)
(***************************************************************************)
EXTENDS Integers, Sequences, FiniteSets

CONSTANTS
    AReqs,           \* the requests a browser has open at a time
    MaxSid,          \* bound on the sessions made
    MaxRestarts      \* bound on the restarts of the process

VARIABLES
    atok,            \* sequence of refresh tokens made: result, err, calls to the provider
    astore,          \* sessions in oauthRefreshTokens
    asaved,          \* sessions in the file of the store
    ared,            \* sessions the goroutines of doRefreshToken will delete
    browser,         \* its cookies
    areq,            \* its requests
    agone,           \* sessions that were logged out or expired
    restarts

authVars == <<atok, astore, asaved, ared, browser, areq, agone, restarts>>

NoReq == [at |-> "idle", session |-> 0, result |-> 0]
NewToken == [result |-> 0, err |-> FALSE, calls |-> 0]
NoCookies == [session |-> 0, state |-> FALSE]

AuthInit ==
    /\ atok = <<>>
    /\ astore = {} /\ asaved = {} /\ ared = {}
    /\ browser = NoCookies
    /\ areq = [r \in AReqs |-> NoReq]
    /\ agone = {}
    /\ restarts = 0

-----------------------------------------------------------------------------
\* PostAuthCallbackHandler: the state cookie must match, and stays; the code is exchanged,
\* and a session is stored and given to the browser, unless the exchange fails or gives no
\* refresh token.
Callback ==
    /\ browser.state
    /\ \/ UNCHANGED <<atok, astore, browser>>
       \/ /\ Len(atok) < MaxSid
          /\ atok' = Append(atok, NewToken)
          /\ astore' = astore \cup {Len(atok) + 1}
          /\ browser' = [browser EXCEPT !.session = Len(atok) + 1]
    /\ UNCHANGED <<asaved, ared, areq, agone, restarts>>

\* The browser sends a request without an id token, with the session it has now.
Send(r) ==
    /\ areq[r].at = "idle"
    /\ areq' = [areq EXCEPT ![r] = [NoReq EXCEPT !.at = "sent", !.session = browser.session]]
    /\ UNCHANGED <<atok, astore, asaved, ared, browser, agone, restarts>>

\* LoginHandler without a session: over the rate limit, or off to the provider.
Login(r) ==
    /\ areq[r].at = "sent" /\ areq[r].session = 0
    /\ areq' = [areq EXCEPT ![r] = NoReq]
    /\ \/ UNCHANGED browser
       \/ browser' = [browser EXCEPT !.state = TRUE]
    /\ UNCHANGED <<atok, astore, asaved, ared, agone, restarts>>

\* Mutant: the entry stays.
DeletedNone(s) == astore

\* invalidateOAuthRefreshToken
Deleted(s) == astore \ {s}

\* LoginHandler and TryRefreshToken with a session: the token's JWT is not valid any more,
\* the session is not in the store or its user not allowed; its refresh token is a month
\* old and deleted (getOAuthRefreshToken); or it is to be refreshed.
TryRefreshToken(r) ==
    /\ areq[r].at = "sent" /\ areq[r].session # 0
    /\ \/ areq' = [areq EXCEPT ![r].at = "reply"] /\ UNCHANGED <<astore, agone>>
       \/ /\ areq[r].session \in astore
          /\ areq' = [areq EXCEPT ![r].at = "reply"]
          /\ astore' = Deleted(areq[r].session)
          /\ agone' = agone \cup {areq[r].session}
       \/ areq[r].session \in astore /\ areq' = [areq EXCEPT ![r].at = "refresh"] /\ UNCHANGED <<astore, agone>>
    /\ UNCHANGED <<atok, asaved, ared, browser, restarts>>

\* Mutant: only a result is kept, a failure is tried again.
AlreadyRefreshedOk(t) == t.result # 0

\* already refreshed
AlreadyRefreshed(t) == t.result # 0 \/ t.err

\* doRefreshToken with the lock: what an earlier request found, ...
Refreshed(r) ==
    LET s == areq[r].session
    IN  /\ areq[r].at = "refresh"
        /\ ~ \E o \in AReqs : areq[o].at = "calling" /\ areq[o].session = s
        /\ AlreadyRefreshed(atok[s])
        /\ areq' = [areq EXCEPT ![r].at = "reply", ![r].result = atok[s].result]
        /\ UNCHANGED <<atok, astore, asaved, ared, browser, agone, restarts>>

\* ... or a call of the provider, ...
CallProvider(r) ==
    LET s == areq[r].session
    IN  /\ areq[r].at = "refresh"
        /\ ~ \E o \in AReqs : areq[o].at = "calling" /\ areq[o].session = s
        /\ ~AlreadyRefreshed(atok[s])
        /\ atok' = [atok EXCEPT ![s].calls = @ + 1]
        /\ areq' = [areq EXCEPT ![r].at = "calling"]
        /\ UNCHANGED <<astore, asaved, ared, browser, agone, restarts>>

\* Mutant: the new session goes, not the old one.
OldSessionNew(old, new) == new

\* The session the goroutine deletes.
OldSession(old, new) == old

\* ... which fails, for this request and for every later one, also when only the request
\* was given up, or gives a new token: a new session is stored and the old one is to go.
ProviderAnswers(r) ==
    LET s == areq[r].session
        new == Len(atok) + 1
    IN  /\ areq[r].at = "calling"
        /\ \/ /\ atok' = [atok EXCEPT ![s].err = TRUE]
              /\ areq' = [areq EXCEPT ![r].at = "reply"]
              /\ UNCHANGED <<astore, ared>>
           \/ /\ new <= MaxSid
              /\ atok' = Append([atok EXCEPT ![s].result = new], NewToken)
              /\ astore' = astore \cup {new}
              /\ ared' = ared \cup {OldSession(s, new)}
              /\ areq' = [areq EXCEPT ![r].at = "reply", ![r].result = new]
        /\ UNCHANGED <<asaved, browser, agone, restarts>>

\* The reply reaches the browser: the new session, or cleared cookies.
Reply(r) ==
    /\ areq[r].at = "reply"
    /\ browser' = [browser EXCEPT !.session = areq[r].result]
    /\ areq' = [areq EXCEPT ![r] = NoReq]
    /\ UNCHANGED <<atok, astore, asaved, ared, agone, restarts>>

\* The goroutine of doRefreshToken, after sessionInvalidateDelay.
Invalidate(s) ==
    /\ s \in ared
    /\ ared' = ared \ {s}
    /\ astore' = Deleted(s)
    /\ UNCHANGED <<atok, asaved, browser, areq, agone, restarts>>

\* LogoutHandler: the session of the cookie is deleted, when its JWT is still valid, and the
\* cookies are cleared.
Logout ==
    /\ browser.session # 0
    /\ astore' \in {Deleted(browser.session), astore}
    /\ agone' = agone \cup {browser.session}
    /\ browser' = [browser EXCEPT !.session = 0]
    /\ UNCHANGED <<atok, asaved, ared, areq, restarts>>

\* The process ends and starts again: save writes the stores on a clean exit, a crash
\* leaves the file as it was.  What a refresh found is not saved, nor is what was to go.
Restart ==
    /\ restarts < MaxRestarts
    /\ restarts' = restarts + 1
    /\ \/ asaved' = astore
       \/ UNCHANGED asaved
    /\ astore' = asaved'
    /\ atok' = [s \in DOMAIN atok |-> NewToken]
    /\ ared' = {}
    /\ areq' = [r \in AReqs |-> NoReq]
    /\ UNCHANGED <<browser, agone>>

AuthNext ==
    \/ Callback \/ Logout \/ Restart
    \/ \E r \in AReqs : \/ Send(r) \/ Login(r) \/ TryRefreshToken(r) \/ Refreshed(r) \/ CallProvider(r)
                        \/ ProviderAnswers(r) \/ Reply(r)
    \/ \E s \in DOMAIN atok : Invalidate(s)

AuthSpec == AuthInit /\ [][AuthNext]_authVars

\* The timer of the goroutine fires.
AuthFair == \A s \in 1..MaxSid : WF_authVars(Invalidate(s))

-----------------------------------------------------------------------------
\* However many requests of a session find it out of date, the provider is asked once with
\* its refresh token in a run of the process: providers that rotate tokens take a second use
\* for theft.
ProviderAskedOnce == \A s \in DOMAIN atok : atok[s].calls <= 1

\* The session a browser was left with can be used: it is in the store, unless it was
\* logged out or expired, a later refresh replaced it, or the process restarted.
CookieUsable ==
    browser.session # 0 /\ restarts = 0 =>
        \/ browser.session \in astore
        \/ browser.session \in agone
        \/ atok[browser.session].result # 0

\* A session that was traded for a new one is deleted in the end, unless the process
\* restarts before that.
OldSessionGoes == \A s \in 1..MaxSid : (s \in ared) ~> (s \notin astore \/ restarts > 0)
=============================================================================
