-------------------------- MODULE BackgroundProofs --------------------------
(***************************************************************************)
(* Proofs about OIDC sessions, access control and the country database, for *)
(* any number of requests, sessions, connections, downloads and restarts: a *)
(* refresh token is used once, the verdict on an address is the verdict of  *)
(* the rules, and the database is never replaced by one that does not open. *)
(***************************************************************************)
EXTENDS Auth, Acl, SequenceTheorems, TLAPS

(***************************************************************************)
(* Auth.  A token the provider was called with has its result or its        *)
(* failure, or a request is still calling with the session's lock.          *)
(***************************************************************************)
Tokens == [result : Nat, err : BOOLEAN, calls : Nat]
Sids == 0..Len(atok)

AuthTypeOK ==
    /\ atok \in Seq(Tokens)
    /\ browser \in [session : Sids, state : BOOLEAN]
    /\ areq \in [AReqs -> [at : {"idle", "sent", "refresh", "calling", "reply"}, session : Sids, result : Sids]]

AuthInv ==
    /\ AuthTypeOK
    /\ \A r \in AReqs : areq[r].at \in {"refresh", "calling"} => areq[r].session \in 1..Len(atok)
    /\ \A s \in 1..Len(atok) :
          /\ atok[s].result <= Len(atok)
          /\ atok[s].calls <= 1
          /\ atok[s].calls = 1 => \/ AlreadyRefreshed(atok[s])
                                  \/ \E r \in AReqs : areq[r].at = "calling" /\ areq[r].session = s

\* No session and no request at first.
LEMMA AuthInitially == AuthInit => AuthInv
  BY DEF AuthInit, AuthInv, AuthTypeOK, Sids, NoCookies, NoReq

\* A token of its own for a new session.
LEMMA NewTokenAppended ==
    ASSUME NEW t \in Seq(Tokens)
    PROVE  /\ Append(t, NewToken) \in Seq(Tokens) /\ Len(Append(t, NewToken)) = Len(t) + 1
           /\ \A s \in 1..Len(t) : Append(t, NewToken)[s] = t[s]
           /\ Append(t, NewToken)[Len(t) + 1] = NewToken
<1>1. NewToken \in Tokens
  BY DEF NewToken, Tokens
<1> QED BY <1>1

\* A step that changes no token and lets no request begin or end a call.
LEMMA RequestMoves ==
    ASSUME AuthInv, NEW r \in AReqs, areq[r].at # "calling", atok' = atok,
           NEW q \in [at : {"idle", "sent", "refresh", "reply"}, session : Sids, result : Sids],
           areq' = [areq EXCEPT ![r] = q], q.at = "refresh" => q.session \in 1..Len(atok),
           browser' \in [session : Sids, state : BOOLEAN]
    PROVE  AuthInv'
<1>1. /\ areq' \in [AReqs -> [at : {"idle", "sent", "refresh", "calling", "reply"}, session : Sids, result : Sids]]
      /\ areq'[r] = q /\ \A o \in AReqs : o # r => areq'[o] = areq[o]
  BY DEF AuthInv, AuthTypeOK
<1>2. Sids' = Sids
  BY DEF Sids
<1>3. AuthTypeOK'
  BY <1>1, <1>2 DEF AuthInv, AuthTypeOK
<1>4. \A o \in AReqs : areq'[o].at \in {"refresh", "calling"} => areq'[o].session \in 1..Len(atok')
  BY <1>1 DEF AuthInv
<1>5. \A o \in AReqs : areq[o].at = "calling" => areq'[o] = areq[o]
  BY <1>1
<1> QED BY <1>3, <1>4, <1>5 DEF AuthInv, AlreadyRefreshed

\* The steps of requests before and after the call.
LEMMA RequestStepKeeps ==
    ASSUME AuthInv, NEW r \in AReqs,
           Send(r) \/ Login(r) \/ TryRefreshToken(r) \/ Refreshed(r) \/ Reply(r)
    PROVE  AuthInv'
<1>1. /\ areq[r] \in [at : {"idle", "sent", "refresh", "calling", "reply"}, session : Sids, result : Sids]
      /\ browser \in [session : Sids, state : BOOLEAN]
      /\ atok \in Seq(Tokens) /\ Len(atok) \in Nat /\ 0 \in Sids
  BY SMTT(30) DEF AuthInv, AuthTypeOK, Sids
<1>2. NoReq \in [at : {"idle", "sent", "refresh", "reply"}, session : Sids, result : Sids] /\ NoReq.at = "idle"
  BY <1>1 DEF NoReq
<1>3. CASE Send(r)
  <2> DEFINE q == [NoReq EXCEPT !.at = "sent", !.session = browser.session]
  <2>1. q \in [at : {"idle", "sent", "refresh", "reply"}, session : Sids, result : Sids] /\ q.at = "sent"
    BY <1>1, <1>2, Zenon
  <2>2. areq' = [areq EXCEPT ![r] = q] /\ atok' = atok /\ browser' = browser /\ areq[r].at # "calling"
    BY <1>3 DEF Send
  <2> QED BY <1>1, <2>1, <2>2, RequestMoves, Zenon
<1>4. CASE Login(r)
  <2>1. areq' = [areq EXCEPT ![r] = NoReq] /\ atok' = atok /\ areq[r].at # "calling"
    BY <1>4 DEF Login
  <2>2. browser' \in [session : Sids, state : BOOLEAN]
    BY <1>1, <1>4, Zenon DEF Login
  <2> QED BY <1>2, <2>1, <2>2, RequestMoves, Zenon
<1>5. CASE TryRefreshToken(r)
  <2>1. PICK at \in {"reply", "refresh"} : areq' = [areq EXCEPT ![r].at = at]
    BY <1>5 DEF TryRefreshToken
  <2> DEFINE q == [areq[r] EXCEPT !.at = at]
  <2>2. q \in [at : {"idle", "sent", "refresh", "reply"}, session : Sids, result : Sids]
        /\ q.at = at /\ q.session = areq[r].session
    BY <1>1
  <2>3. areq' = [areq EXCEPT ![r] = q] /\ atok' = atok /\ browser' = browser /\ areq[r].at # "calling"
    BY <1>5, <2>1 DEF TryRefreshToken
  <2>4. areq[r].session \in 1..Len(atok)
    BY <1>1, <1>5 DEF TryRefreshToken, Sids
  <2> QED BY <1>1, <2>2, <2>3, <2>4, RequestMoves, Zenon
<1>6. CASE Refreshed(r)
  <2>1. areq[r].session \in 1..Len(atok)
    BY <1>6 DEF Refreshed, AuthInv
  <2>2. atok[areq[r].session].result \in Sids
    <3>1. atok[areq[r].session] \in Tokens /\ atok[areq[r].session].result <= Len(atok)
      BY <1>1, <2>1 DEF AuthInv
    <3>2. atok[areq[r].session].result \in Nat
      BY <3>1 DEF Tokens
    <3> QED BY <1>1, <3>1, <3>2 DEF Sids
  <2> DEFINE q == [areq[r] EXCEPT !.at = "reply", !.result = atok[areq[r].session].result]
  <2>3. q \in [at : {"idle", "sent", "refresh", "reply"}, session : Sids, result : Sids] /\ q.at = "reply"
    BY <1>1, <2>2, Zenon
  <2>4. areq' = [areq EXCEPT ![r] = q] /\ atok' = atok /\ browser' = browser /\ areq[r].at # "calling"
    BY <1>6, Zenon DEF Refreshed
  <2> QED BY <1>1, <2>3, <2>4, RequestMoves, Zenon
<1>7. CASE Reply(r)
  <2>1. areq' = [areq EXCEPT ![r] = NoReq] /\ atok' = atok /\ areq[r].at # "calling"
    BY <1>7 DEF Reply
  <2>2. browser' \in [session : Sids, state : BOOLEAN]
    BY <1>1, <1>7 DEF Reply
  <2> QED BY <1>2, <2>1, <2>2, RequestMoves, Zenon
<1> QED BY <1>3, <1>4, <1>5, <1>6, <1>7, SMTT(30)
\* A request that finds the session unlocked and not refreshed calls the provider; nobody
\* has done so before.
LEMMA CallProviderKeeps ==
    ASSUME AuthInv, NEW r \in AReqs, CallProvider(r)
    PROVE  AuthInv'
<1> DEFINE s == areq[r].session
           u == [atok[s] EXCEPT !.calls = @ + 1]
           q == [areq[r] EXCEPT !.at = "calling"]
<1>1. /\ areq[r].at = "refresh" /\ ~ \E o \in AReqs : areq[o].at = "calling" /\ areq[o].session = s
      /\ ~AlreadyRefreshed(atok[s]) /\ atok' = [atok EXCEPT ![s] = u]
      /\ areq' = [areq EXCEPT ![r] = q] /\ browser' = browser
  BY DEF CallProvider
<1>2. /\ s \in 1..Len(atok) /\ atok \in Seq(Tokens) /\ Len(atok) \in Nat /\ atok[s] \in Tokens
      /\ atok[s].calls = 0
  <2>1. s \in 1..Len(atok) /\ atok \in Seq(Tokens)
    BY <1>1 DEF AuthInv, AuthTypeOK
  <2>2. atok[s] \in Tokens /\ Len(atok) \in Nat
    BY <2>1
  <2>3. atok[s].calls \in Nat
    BY <2>2 DEF Tokens
  <2>4. atok[s].calls <= 1 /\ atok[s].calls # 1
    BY <1>1, <2>1 DEF AuthInv
  <2> QED BY <2>1, <2>2, <2>3, <2>4
<1>3. u \in Tokens /\ u.calls = 1 /\ u.result = atok[s].result
  <2>1. u = [atok[s] EXCEPT !.calls = 1]
    BY <1>2 DEF Tokens
  <2> QED BY <1>2, <2>1, SMTT(30) DEF Tokens
<1>4. q \in [at : {"idle", "sent", "refresh", "calling", "reply"}, session : Sids, result : Sids]
      /\ q.at = "calling" /\ q.session = s
  BY DEF AuthInv, AuthTypeOK
<1> HIDE DEF s, u, q
<1>5. /\ atok' \in Seq(Tokens) /\ Len(atok') = Len(atok) /\ atok'[s] = u
      /\ \A t \in 1..Len(atok) : t # s => atok'[t] = atok[t]
  BY <1>1, <1>2, <1>3, ExceptSeq
<1>6. /\ areq' \in [AReqs -> [at : {"idle", "sent", "refresh", "calling", "reply"}, session : Sids, result : Sids]]
      /\ areq'[r] = q /\ \A o \in AReqs : o # r => areq'[o] = areq[o]
  BY <1>1, <1>4 DEF AuthInv, AuthTypeOK
<1>7. AuthTypeOK'
  <2>1. Sids' = Sids
    BY <1>5 DEF Sids
  <2> QED BY <1>1, <1>5, <1>6, <2>1 DEF AuthInv, AuthTypeOK
<1>8. \A o \in AReqs : areq'[o].at \in {"refresh", "calling"} => areq'[o].session \in 1..Len(atok')
  BY <1>2, <1>4, <1>5, <1>6, Zenon DEF AuthInv
<1>9. ASSUME NEW t \in 1..Len(atok')
      PROVE  /\ atok'[t].result <= Len(atok')
             /\ atok'[t].calls <= 1
             /\ atok'[t].calls = 1 => \/ AlreadyRefreshed(atok'[t])
                                      \/ \E o \in AReqs : areq'[o].at = "calling" /\ areq'[o].session = t
  <2>1. CASE t = s
    <3>1. atok'[t] = u /\ areq'[r].at = "calling" /\ areq'[r].session = t
      BY <1>4, <1>5, <1>6, <2>1
    <3>2. u.result <= Len(atok')
      BY <1>2, <1>3, <1>5 DEF AuthInv
    <3> QED BY <1>3, <3>1, <3>2
  <2>2. CASE t # s
    <3>1. t \in 1..Len(atok) /\ atok'[t] = atok[t]
      BY <1>5, <2>2
    <3>2. \A o \in AReqs : areq[o].at = "calling" => areq'[o] = areq[o]
      BY <1>1, <1>6
    <3> QED BY <1>5, <3>1, <3>2 DEF AuthInv, AlreadyRefreshed
  <2> QED BY <2>1, <2>2
<1> QED BY <1>7, <1>8, <1>9 DEF AuthInv, AlreadyRefreshed

\* The failure is remembered, or the new session as the result of the old one.
LEMMA ProviderAnswersKeeps ==
    ASSUME AuthInv, NEW r \in AReqs, ProviderAnswers(r)
    PROVE  AuthInv'
<1> DEFINE s == areq[r].session
           n == Len(atok) + 1
           QS == [at : {"idle", "sent", "refresh", "calling", "reply"}, session : 0..n, result : 0..n]
<1>1. /\ areq[r].at = "calling" /\ browser' = browser /\ atok \in Seq(Tokens) /\ Len(atok) \in Nat
      /\ s \in 1..Len(atok) /\ atok[s] \in Tokens /\ areq \in [AReqs -> QS]
      /\ browser \in [session : 0..n, state : BOOLEAN]
  BY DEF ProviderAnswers, AuthInv, AuthTypeOK, Sids
<1>2. ASSUME NEW u \in Tokens, u.result <= n, AlreadyRefreshed(u), u.calls = atok[s].calls,
             NEW t \in Seq(Tokens), Len(t) \in {Len(atok), n}, u.result <= Len(t), t[s] = u,
             \A i \in 1..Len(atok) : i # s => t[i] = atok[i],
             \A i \in 1..Len(t) : i \notin 1..Len(atok) => t[i] = NewToken,
             atok' = t, NEW q \in QS, q.session = s, q.result <= Len(t), q.at = "reply",
             areq' = [areq EXCEPT ![r] = q]
      PROVE  AuthInv'
  <2>1. areq' \in [AReqs -> QS] /\ areq'[r] = q /\ \A o \in AReqs : o # r => areq'[o] = areq[o]
    BY <1>1, <1>2
  <2>2. Len(t) \in Nat /\ Len(atok) <= Len(t) /\ 0..Len(atok) \subseteq 0..Len(t) /\ 1..Len(atok) \subseteq 1..Len(t)
    BY <1>1, <1>2
  <2>3. /\ areq' \in [AReqs -> [at : {"idle", "sent", "refresh", "calling", "reply"},
                                session : 0..Len(t), result : 0..Len(t)]]
        /\ browser \in [session : 0..Len(t), state : BOOLEAN]
    <3>1. /\ \A o \in AReqs : areq[o].session \in 0..Len(t) /\ areq[o].result \in 0..Len(t)
          /\ browser \in [session : 0..Len(t), state : BOOLEAN]
      BY <2>2, SMTT(30) DEF AuthInv, AuthTypeOK, Sids
    <3>2. \A o \in AReqs : areq'[o] \in QS /\ areq'[o].session \in 0..Len(t) /\ areq'[o].result \in 0..Len(t)
      BY <1>1, <1>2, <2>1, <2>2, <3>1
    <3> QED BY <2>1, <3>1, <3>2, SMTT(30)
  <2>4. AuthTypeOK'
    BY <1>1, <1>2, <2>3, SMTT(30) DEF AuthTypeOK, Sids
  <2>5. \A o \in AReqs : areq'[o].at \in {"refresh", "calling"} => areq'[o].session \in 1..Len(atok')
    BY <1>2, <2>1, <2>2 DEF AuthInv
  <2>6. ASSUME NEW i \in 1..Len(t)
        PROVE  /\ t[i].result <= Len(t)
               /\ t[i].calls <= 1
               /\ t[i].calls = 1 => \/ AlreadyRefreshed(t[i])
                                    \/ \E o \in AReqs : areq'[o].at = "calling" /\ areq'[o].session = i
    <3>1. CASE i = s
      <4>1. u.calls <= 1
        BY <1>1, <1>2, SMTT(30) DEF AuthInv
      <4> QED BY <1>2, <3>1, <4>1
    <3>2. CASE i # s /\ i \in 1..Len(atok)
      <4>1. t[i] = atok[i] /\ atok[i] \in Tokens
        BY <1>1, <1>2, <3>2
      <4>2. \A o \in AReqs : areq[o].session = i => areq'[o] = areq[o]
        BY <2>1, <3>2
      <4>3. t[i].result \in Nat /\ t[i].result <= Len(atok)
        BY <3>2, <4>1, SMTT(30) DEF AuthInv, Tokens
      <4>4. t[i].result <= Len(t)
        BY <1>1, <2>2, <4>3
      <4> QED BY <3>2, <4>1, <4>2, <4>4, SMTT(30) DEF AuthInv
    <3>3. CASE i \notin 1..Len(atok)
      BY <1>2, <2>2, <3>3 DEF NewToken
    <3> QED BY <3>1, <3>2, <3>3, SMTT(30)
  <2> QED BY <1>2, <2>4, <2>5, <2>6 DEF AuthInv
<1>3. CASE atok' = [atok EXCEPT ![s].err = TRUE] /\ areq' = [areq EXCEPT ![r].at = "reply"]
  <2> DEFINE u == [atok[s] EXCEPT !.err = TRUE]
             q == [areq[r] EXCEPT !.at = "reply"]
  <2>1. u \in Tokens /\ u.result = atok[s].result /\ u.calls = atok[s].calls /\ u.err
    BY <1>1, Zenon DEF Tokens
  <2>2. q \in QS /\ q.session = s /\ q.at = "reply" /\ q.result = areq[r].result
    BY <1>1
  <2>3. u.result \in Nat /\ u.result <= Len(atok) /\ areq[r].result \in 0..Len(atok)
    BY <1>1, <2>1, SMTT(30) DEF AuthInv, AuthTypeOK, Sids, Tokens
  <2>4. atok' = [atok EXCEPT ![s] = u] /\ areq' = [areq EXCEPT ![r] = q]
    BY <1>3
  <2> HIDE DEF u, q
  <2>5. /\ atok' \in Seq(Tokens) /\ Len(atok') = Len(atok) /\ atok'[s] = u
        /\ \A i \in 1..Len(atok) : i # s => atok'[i] = atok[i]
    BY <1>1, <2>1, <2>4, ExceptSeq
  <2>6. AlreadyRefreshed(u)
    BY <2>1 DEF AlreadyRefreshed
  <2> HIDE DEF s, n, QS
  <2>7. u.result <= n /\ q.result <= Len(atok)
    BY <1>1, <2>2, <2>3 DEF n
  <2> QED BY <1>2, <2>1, <2>2, <2>3, <2>4, <2>5, <2>6, <2>7, Zenon
<1>4. CASE /\ atok' = Append([atok EXCEPT ![s].result = n], NewToken)
           /\ areq' = [areq EXCEPT ![r].at = "reply", ![r].result = n]
  <2> DEFINE u == [atok[s] EXCEPT !.result = n]
             q == [areq[r] EXCEPT !.at = "reply", !.result = n]
             v == [atok EXCEPT ![s] = u]
             t == Append(v, NewToken)
  <2>0. n \in Nat /\ n # 0 /\ n \in 0..n
    BY <1>1
  <2>1. u \in Tokens /\ u.result = n /\ u.calls = atok[s].calls /\ AlreadyRefreshed(u)
    BY <1>1, <2>0, Zenon DEF Tokens, AlreadyRefreshed
  <2>2. q \in QS /\ q.session = s /\ q.at = "reply" /\ q.result = n
    BY <1>1, <2>0, Zenon
  <2>3. atok' = t /\ areq' = [areq EXCEPT ![r] = q]
    BY <1>4, Zenon
  <2> HIDE DEF u, q
  <2>4. v \in Seq(Tokens) /\ Len(v) = Len(atok) /\ v[s] = u /\ \A i \in 1..Len(atok) : i # s => v[i] = atok[i]
    BY <1>1, <2>1, ExceptSeq
  <2> HIDE DEF v
  <2>5. /\ t \in Seq(Tokens) /\ Len(t) = n
        /\ \A i \in 1..Len(atok) : t[i] = v[i]
        /\ t[n] = NewToken
    BY <2>4, NewTokenAppended
  <2> HIDE DEF t
  <2>6. /\ t[s] = u /\ \A i \in 1..Len(atok) : i # s => t[i] = atok[i]
        /\ \A i \in 1..Len(t) : i \notin 1..Len(atok) => t[i] = NewToken
    BY <1>1, <2>4, <2>5
  <2>7. u.result <= n /\ q.result <= Len(t) /\ u.result <= Len(t)
    BY <2>0, <2>1, <2>2, <2>5
  <2> HIDE DEF s, n, QS
  <2> QED BY <1>2, <2>1, <2>2, <2>3, <2>5, <2>6, <2>7, Zenon
<1> QED BY <1>3, <1>4 DEF ProviderAnswers
\* A login makes a session that nobody has refreshed.
LEMMA CallbackKeeps ==
    ASSUME AuthInv, Callback
    PROVE  AuthInv'
<1>1. atok \in Seq(Tokens) /\ Len(atok) \in Nat /\ areq' = areq
  BY DEF AuthInv, AuthTypeOK, Callback
<1>2. CASE UNCHANGED <<atok, browser>>
  BY <1>1, <1>2 DEF AuthInv, AuthTypeOK, Sids, AlreadyRefreshed
<1>3. CASE atok' = Append(atok, NewToken) /\ browser' = [browser EXCEPT !.session = Len(atok) + 1]
  <2>1. /\ atok' \in Seq(Tokens) /\ Len(atok') = Len(atok) + 1
        /\ \A s \in 1..Len(atok) : atok'[s] = atok[s]
        /\ atok'[Len(atok) + 1] = NewToken
    BY <1>1, <1>3, NewTokenAppended
  <2>2. /\ Sids \subseteq Sids' /\ Len(atok) + 1 \in Sids' /\ 1..Len(atok) \subseteq 1..Len(atok')
        /\ \A s \in 1..Len(atok') : s \in 1..Len(atok) \/ s = Len(atok) + 1
    BY <1>1, <2>1 DEF Sids
  <2>3. AuthTypeOK'
    <3>1. browser' \in [session : Sids', state : BOOLEAN]
      BY <1>3, <2>2 DEF AuthInv, AuthTypeOK
    <3>2. areq \in [AReqs -> [at : {"idle", "sent", "refresh", "calling", "reply"}, session : Sids', result : Sids']]
      BY <2>2 DEF AuthInv, AuthTypeOK
    <3> QED BY <1>1, <2>1, <3>1, <3>2 DEF AuthTypeOK
  <2>4. \A r \in AReqs : areq'[r].at \in {"refresh", "calling"} => areq'[r].session \in 1..Len(atok')
    BY <1>1, <2>2 DEF AuthInv
  <2>5. ASSUME NEW s \in 1..Len(atok')
        PROVE  /\ atok'[s].result <= Len(atok')
               /\ atok'[s].calls <= 1
               /\ atok'[s].calls = 1 => \/ AlreadyRefreshed(atok'[s])
                                        \/ \E r \in AReqs : areq'[r].at = "calling" /\ areq'[r].session = s
    <3>1. CASE s = Len(atok) + 1
      BY <1>1, <2>1, <3>1 DEF NewToken
    <3>2. CASE s \in 1..Len(atok)
      <4>1. atok'[s] = atok[s] /\ atok[s] \in Tokens
        BY <1>1, <2>1, <3>2
      <4>2. atok[s].result \in Nat /\ atok[s].result <= Len(atok)
        BY <3>2, <4>1 DEF AuthInv, Tokens
      <4>3. atok[s].result <= Len(atok')
        BY <1>1, <2>1, <4>2
      <4> QED BY <1>1, <3>2, <4>1, <4>3 DEF AuthInv
    <3> QED BY <2>2, <3>1, <3>2
  <2> QED BY <2>3, <2>4, <2>5 DEF AuthInv, AlreadyRefreshed
<1> QED BY <1>2, <1>3 DEF Callback

\* A restart forgets the requests, and what was refreshed.
LEMMA RestartKeeps ==
    ASSUME AuthInv, Restart
    PROVE  AuthInv'
<1>1. atok \in Seq(Tokens) /\ Len(atok) \in Nat /\ browser' = browser
  BY DEF AuthInv, AuthTypeOK, Restart
<1>2. atok' = [s \in 1..Len(atok) |-> NewToken] /\ areq' = [r \in AReqs |-> NoReq]
  BY <1>1 DEF Restart
<1>3. NewToken \in Tokens /\ NewToken.result = 0 /\ NewToken.calls = 0
  BY DEF NewToken, Tokens
<1>4. atok' \in Seq(Tokens) /\ Len(atok') = Len(atok) /\ \A s \in 1..Len(atok) : atok'[s] = NewToken
  BY <1>1, <1>2, <1>3
<1>5. NoReq \in [at : {"idle", "sent", "refresh", "calling", "reply"}, session : Sids, result : Sids]
      /\ NoReq.at = "idle" /\ Sids' = Sids
  BY <1>1, <1>4 DEF NoReq, Sids
<1>6. AuthTypeOK'
  BY <1>1, <1>2, <1>4, <1>5 DEF AuthInv, AuthTypeOK
<1> QED BY <1>1, <1>2, <1>3, <1>4, <1>5, <1>6, SMTT(30) DEF AuthInv

\* Every step of the sign-in, refresh and logout handlers keeps the invariant of Auth.
LEMMA AuthStep == AuthInv /\ [AuthNext]_authVars => AuthInv'
<1> SUFFICES ASSUME AuthInv, [AuthNext]_authVars PROVE AuthInv'
  OBVIOUS
<1>1. CASE Callback
  BY <1>1, CallbackKeeps
<1>2. CASE Restart
  BY <1>2, RestartKeeps
<1>3. ASSUME NEW r \in AReqs, Send(r) \/ Login(r) \/ TryRefreshToken(r) \/ Refreshed(r) \/ Reply(r)
      PROVE  AuthInv'
  BY <1>3, RequestStepKeeps
<1>4. ASSUME NEW r \in AReqs, CallProvider(r) PROVE AuthInv'
  BY <1>4, CallProviderKeeps
<1>5. ASSUME NEW r \in AReqs, ProviderAnswers(r) PROVE AuthInv'
  BY <1>5, ProviderAnswersKeeps
<1>6. CASE Logout \/ (\E s \in DOMAIN atok : Invalidate(s)) \/ UNCHANGED authVars
  <2>1. UNCHANGED <<atok, areq>>
    BY <1>6 DEF Logout, Invalidate, authVars
  <2>2. browser' = browser \/ browser' = [browser EXCEPT !.session = 0]
    BY <1>6 DEF Logout, Invalidate, authVars
  <2>3. Len(atok) \in Nat /\ 0 \in Sids /\ Sids' = Sids
    BY <2>1 DEF AuthInv, AuthTypeOK, Sids
  <2>4. AuthTypeOK'
    BY <2>1, <2>2, <2>3 DEF AuthInv, AuthTypeOK
  <2> QED BY <2>1, <2>4 DEF AuthInv
<1> QED BY <1>1, <1>2, <1>3, <1>4, <1>5, <1>6 DEF AuthNext

\* The provider is asked once with the refresh token of a session, however many requests
\* find the session out of date, in whatever order they come (doRefreshToken).
THEOREM RefreshTokenUsedOnce == AuthSpec => []ProviderAskedOnce
<1>1. AuthInv => ProviderAskedOnce
  BY SMTT(30) DEF AuthInv, AuthTypeOK, ProviderAskedOnce
<1> QED BY <1>1, AuthInitially, AuthStep, PTL DEF AuthSpec

(***************************************************************************)
(* Access control.  Whoever is on its way with a verdict on an address that *)
(* the rules decide, or finds one in the cache, has the verdict of the      *)
(* rules under lookups that were made for it.                               *)
(***************************************************************************)
Ruled(ip) == AclKind[ip] = "public" \/ (AclKind[ip] = "private" /\ ~acl.allowLocal)

Seen(saw) == IF saw = {} THEN {TRUE} ELSE saw

\* `allow' is the verdict of the rules under lookups that were seen.
Decided(ip, allow, saw) == \E f, g \in Seen(saw) : allow = Verdict(ip, f, g)

AskStates ==
    [at : {"idle", "allow", "deny", "log", "store", "answer"}, ip : AclIPs \cup {""}, allow : BOOLEAN,
     city : BOOLEAN, store : BOOLEAN, reply : BOOLEAN, saw : SUBSET BOOLEAN]
RecordStates == [allow : BOOLEAN, city : BOOLEAN, expired : BOOLEAN, saw : SUBSET BOOLEAN]

AskInv(a) ==
    /\ a \in AskStates
    /\ a.at # "idle" => a.ip \in AclIPs
    /\ a.at = "allow" => a.saw = {}
    /\ a.at = "deny" => \E f \in BOOLEAN : ~Match(acl.allow, a.ip, f) /\ (Geo(acl.allow) => f \in a.saw)
    /\ a.at \in {"log", "store", "answer"} /\ Ruled(a.ip) => Decided(a.ip, a.allow, a.saw)

RecordInv(ip, r) ==
    /\ r \in RecordStates
    /\ ~r.expired /\ Ruled(ip) => Decided(ip, r.allow, r.saw)

AclInv ==
    /\ ask \in [AclWorkers -> AskStates] /\ ipCache \in [AclIPs -> RecordStates]
    /\ \A w \in AclWorkers : AskInv(ask[w])
    /\ \A ip \in AclIPs : RecordInv(ip, ipCache[ip])

\* Nobody asks at first, and every record of the cache has expired.
LEMMA AclInitially == AclInit => AclInv
<1> SUFFICES ASSUME AclInit PROVE AclInv
  OBVIOUS
<1>1. ipCache = [ip \in AclIPs |-> NoRecord] /\ ask = [w \in AclWorkers |-> NoAsk]
  BY DEF AclInit
<1>2. NoRecord \in RecordStates /\ NoRecord.expired
  BY DEF NoRecord, RecordStates
<1>3. NoAsk \in AskStates /\ NoAsk.at = "idle"
  BY DEF NoAsk, AskStates
<1> QED BY <1>1, <1>2, <1>3, Zenon DEF AclInv, AskInv, RecordInv

\* Rules without a country or a time zone need no lookup.
LEMMA MatchNeedsNoLookup ==
    ASSUME NEW ms, ~Geo(ms), NEW ip, NEW f, NEW g
    PROVE  Match(ms, ip, f) <=> Match(ms, ip, g)
  BY DEF Geo, Match, Matches

\* A lookup that was seen can stand for one that no rule needed.
LEMMA SeenFor ==
    ASSUME NEW ms, NEW ip, NEW saw \in SUBSET BOOLEAN, NEW f \in BOOLEAN, Geo(ms) => f \in saw
    PROVE  \E e \in Seen(saw) : Match(ms, ip, e) <=> Match(ms, ip, f)
<1>1. PICK e \in Seen(saw) : TRUE
  BY Zenon DEF Seen
<1>2. CASE Geo(ms)
  BY <1>2, Zenon DEF Seen
<1>3. CASE ~Geo(ms)
  BY <1>1, <1>3, MatchNeedsNoLookup
<1> QED BY <1>2, <1>3

\* IPAllowed as it begins: what it takes from the cache was decided by the rules.
LEMMA IPAllowedBegins ==
    ASSUME AclInv, NEW ip \in AclIPs, NEW reply \in BOOLEAN
    PROVE  AskInv(IPAllowed(ip, reply))
<1> DEFINE a == [NoAsk EXCEPT !.ip = ip, !.reply = reply]
           r == ipCache[ip]
           b == IPAllowed(ip, reply)
<1>1. a \in AskStates /\ a.ip = ip /\ a.saw = {}
  BY DEF NoAsk, AskStates
<1>2. r \in RecordStates /\ (~r.expired /\ Ruled(ip) => Decided(ip, r.allow, r.saw))
  BY SMTT(30) DEF AclInv, RecordInv
<1>3. CASE AclKind[ip] = "loopback"
  <2>1. b = [a EXCEPT !.at = "answer", !.allow = TRUE]
    BY <1>3 DEF IPAllowed
  <2>2. b \in AskStates /\ b.at = "answer" /\ b.ip = ip /\ ~Ruled(ip)
    BY <1>1, <1>3, <2>1, ZenonT(30) DEF AskStates, Ruled
  <2> QED BY <2>2 DEF AskInv
<1>4. CASE AclKind[ip] = "private" /\ acl.allowLocal
  <2>1. b = [a EXCEPT !.at = "log", !.allow = TRUE]
    BY <1>4 DEF IPAllowed
  <2>2. b \in AskStates /\ b.at = "log" /\ b.ip = ip /\ ~Ruled(ip)
    BY <1>1, <1>4, <2>1, ZenonT(30) DEF AskStates, Ruled
  <2> QED BY <2>2 DEF AskInv
<1>5. CASE AclKind[ip] # "loopback" /\ ~(AclKind[ip] = "private" /\ acl.allowLocal) /\ ~r.expired
  <2>1. b = [a EXCEPT !.at = "log", !.allow = r.allow, !.city = r.city, !.saw = r.saw]
    BY <1>5 DEF IPAllowed, Expired
  <2>2. /\ b \in AskStates /\ b.at = "log" /\ b.ip = ip /\ b.allow = r.allow /\ b.saw = r.saw
    BY <1>1, <1>2, <2>1 DEF AskStates, RecordStates
  <2> QED BY <1>2, <1>5, <2>2, Zenon DEF AskInv
<1>6. CASE AclKind[ip] # "loopback" /\ ~(AclKind[ip] = "private" /\ acl.allowLocal) /\ r.expired
  <2>1. b = [a EXCEPT !.at = "allow"]
    BY <1>6 DEF IPAllowed, Expired
  <2>2. b \in AskStates /\ b.at = "allow" /\ b.ip = ip /\ b.saw = {}
    BY <1>1, <2>1 DEF AskStates
  <2> QED BY <2>2 DEF AskInv
<1> QED BY <1>3, <1>4, <1>5, <1>6

\* One worker moves on, and nothing else changes.
LEMMA WorkerMoves ==
    ASSUME AclInv, NEW w \in AclWorkers, NEW b, AskInv(b), ask' = [ask EXCEPT ![w] = b],
           UNCHANGED <<acl, ipCache>>
    PROVE  AclInv'
<1>1. b \in AskStates
  BY DEF AskInv
<1>2. /\ ask' \in [AclWorkers -> AskStates] /\ ask'[w] = b
      /\ \A v \in AclWorkers : v # w => ask'[v] = ask[v]
  BY <1>1 DEF AclInv
<1>3. \A ip : Ruled(ip)' <=> Ruled(ip)
  BY DEF Ruled
<1>4. \A ip, allow, saw : Decided(ip, allow, saw)' <=> Decided(ip, allow, saw)
  BY SMTT(30) DEF Decided, Verdict
<1>5. \A v \in AclWorkers : AskInv(ask[v])'
  BY <1>2, <1>3, <1>4, Zenon DEF AclInv, AskInv
<1>6. \A ip \in AclIPs : RecordInv(ip, ipCache[ip])'
  BY <1>3, <1>4 DEF AclInv, RecordInv
<1> QED BY <1>2, <1>5, <1>6 DEF AclInv

\* The allow rules: a match decides, and otherwise the lookup they made is remembered.
LEMMA AllowRulesKeep ==
    ASSUME AclInv, NEW w \in AclWorkers, AllowRules(w)
    PROVE  AclInv'
<1> DEFINE a == ask[w]
           ms == acl.allow
           found == LookupCity(a.ip, a.city)
           saw == a.saw \cup (IF Geo(ms) THEN {found} ELSE {})
           looked == [a EXCEPT !.city = a.city \/ (Geo(ms) /\ found), !.saw = saw]
           b == IF Match(ms, a.ip, found)
                THEN [looked EXCEPT !.at = "log", !.allow = TRUE, !.store = TRUE]
                ELSE [looked EXCEPT !.at = "deny", !.allow = (acl.default = "allow"), !.store = TRUE]
<1>1. a \in AskStates /\ a.at = "allow" /\ a.ip \in AclIPs /\ a.saw = {}
  BY Zenon DEF AclInv, AskInv, AllowRules
<1>2. ask' = [ask EXCEPT ![w] = b] /\ UNCHANGED <<acl, ipCache>>
  BY DEF AllowRules, Consult
<1>3. found \in BOOLEAN /\ saw \in SUBSET BOOLEAN /\ (Geo(ms) => found \in saw)
  BY <1>1 DEF LookupCity
<1>4. looked \in AskStates /\ looked.ip = a.ip /\ looked.saw = saw
  BY <1>1, <1>3 DEF AskStates
<1> HIDE DEF found, saw, looked
<1>5. CASE Match(ms, a.ip, found)
  <2>1. b = [looked EXCEPT !.at = "log", !.allow = TRUE, !.store = TRUE]
    BY <1>5
  <2>2. b \in AskStates /\ b.at = "log" /\ b.ip = a.ip /\ b.saw = saw /\ b.allow = TRUE
    BY <1>4, <2>1 DEF AskStates
  <2>3. PICK e \in Seen(saw) : Match(ms, a.ip, e)
    BY <1>3, <1>5, SeenFor
  <2>4. Decided(a.ip, TRUE, saw)
    BY <2>3 DEF Decided, Verdict
  <2> HIDE DEF b
  <2> QED BY <1>1, <1>2, <2>2, <2>4, WorkerMoves, Zenon DEF AskInv
<1>6. CASE ~Match(ms, a.ip, found)
  <2>1. b = [looked EXCEPT !.at = "deny", !.allow = (acl.default = "allow"), !.store = TRUE]
    BY <1>6
  <2>2. b \in AskStates /\ b.at = "deny" /\ b.ip = a.ip /\ b.saw = saw
    BY <1>4, <2>1, ZenonT(30) DEF AskStates
  <2> HIDE DEF b
  <2> QED BY <1>1, <1>2, <1>3, <1>6, <2>2, WorkerMoves, Zenon DEF AskInv
<1> QED BY <1>5, <1>6, SMTT(30)

\* The deny rules and the default, after allow rules that did not match.
LEMMA DenyRulesKeep ==
    ASSUME AclInv, NEW w \in AclWorkers, DenyRules(w)
    PROVE  AclInv'
<1> DEFINE a == ask[w]
           ms == acl.deny
           found == LookupCity(a.ip, a.city)
           saw == a.saw \cup (IF Geo(ms) THEN {found} ELSE {})
           looked == [a EXCEPT !.city = a.city \/ (Geo(ms) /\ found), !.saw = saw]
           allow == IF Match(ms, a.ip, found) THEN FALSE ELSE acl.default = "allow"
           b == [looked EXCEPT !.at = "log", !.allow = allow, !.store = TRUE]
<1>1. a \in AskStates /\ a.at = "deny" /\ a.ip \in AclIPs
  BY Zenon DEF AclInv, AskInv, DenyRules
<1>2. ask' = [ask EXCEPT ![w] = b] /\ UNCHANGED <<acl, ipCache>>
  BY ZenonT(30) DEF DenyRules, Consult
<1>3. PICK f \in BOOLEAN : ~Match(acl.allow, a.ip, f) /\ (Geo(acl.allow) => f \in a.saw)
  BY <1>1, ZenonT(30) DEF AclInv, AskInv
<1>4. /\ found \in BOOLEAN /\ saw \in SUBSET BOOLEAN /\ (Geo(ms) => found \in saw)
      /\ (Geo(acl.allow) => f \in saw)
  BY <1>1, <1>3 DEF LookupCity, AskStates
<1>5. allow \in BOOLEAN
  BY ZenonT(30)
<1>6. PICK e \in Seen(saw) : ~Match(acl.allow, a.ip, e)
  <2> HIDE DEF saw
  <2> QED BY <1>3, <1>4, SeenFor, SMTT(30)
<1>7. PICK g \in Seen(saw) : Match(ms, a.ip, g) <=> Match(ms, a.ip, found)
  <2> HIDE DEF saw, found
  <2> QED BY <1>4, SeenFor
<1>8. allow = Verdict(a.ip, e, g)
  BY <1>6, <1>7, Zenon DEF Verdict
<1>9. Decided(a.ip, allow, saw)
  BY <1>8, Zenon DEF Decided
<1>10. looked \in AskStates /\ looked.ip = a.ip /\ looked.saw = saw
  BY <1>1, <1>4 DEF AskStates
<1> HIDE DEF allow, saw, looked
<1>11. b \in AskStates /\ b.at = "log" /\ b.ip = a.ip /\ b.saw = saw /\ b.allow = allow
  BY <1>5, <1>10 DEF AskStates
<1> HIDE DEF b
<1> QED BY <1>1, <1>2, <1>9, <1>11, WorkerMoves, Zenon DEF AskInv
\* logAndNotify sends the verdict or not; the verdict itself stays.
LEMMA LogAndNotifyKeeps ==
    ASSUME AclInv, NEW w \in AclWorkers, LogAndNotify(w)
    PROVE  AclInv'
<1> DEFINE a == ask[w]
           to == IF a.store THEN "store" ELSE "answer"
           b == [a EXCEPT !.at = to]
<1>1. AskInv(a) /\ a.at = "log"
  BY DEF AclInv, LogAndNotify
<1>2. ask' = [ask EXCEPT ![w] = b] /\ UNCHANGED <<acl, ipCache>>
  BY DEF LogAndNotify
<1>3. to \in {"store", "answer"}
  OBVIOUS
<1> HIDE DEF to
<1>4. b \in AskStates /\ b.at = to /\ b.ip = a.ip /\ b.saw = a.saw /\ b.allow = a.allow
  BY <1>1, <1>3, ZenonT(30) DEF AskInv, AskStates
<1> HIDE DEF b
<1>5. AskInv(b)
  BY <1>1, <1>3, <1>4, Zenon DEF AskInv
<1> QED BY <1>2, <1>5, WorkerMoves, Zenon

\* The record that IPAllowed caches holds the verdict and the lookups it rests on.
LEMMA CacheRecordKeeps ==
    ASSUME AclInv, NEW w \in AclWorkers, CacheRecord(w)
    PROVE  AclInv'
<1> DEFINE a == ask[w]
           b == [a EXCEPT !.at = "answer"]
           r == [allow |-> a.allow, city |-> a.city, expired |-> FALSE, saw |-> a.saw]
<1>1. AskInv(a) /\ a.at = "store" /\ a.ip \in AclIPs /\ a \in AskStates
  BY DEF AclInv, CacheRecord, AskInv
<1>2. /\ ask' = [ask EXCEPT ![w] = b]
      /\ ipCache' = [ipCache EXCEPT ![a.ip] = r] /\ acl' = acl
  BY DEF CacheRecord
<1>3. b \in AskStates /\ b.at = "answer" /\ b.ip = a.ip /\ b.saw = a.saw /\ b.allow = a.allow
  BY <1>1 DEF AskStates
<1>4. r \in RecordStates /\ r.allow = a.allow /\ r.saw = a.saw
  BY <1>1, ZenonT(30) DEF AskStates, RecordStates
<1> HIDE DEF b, r
<1>5. AskInv(b) /\ RecordInv(a.ip, r)
  BY <1>1, <1>3, <1>4, Zenon DEF AskInv, RecordInv
<1>6. \A ip : Ruled(ip)' <=> Ruled(ip)
  BY <1>2 DEF Ruled
<1>7. \A ip, allow, saw : Decided(ip, allow, saw)' <=> Decided(ip, allow, saw)
  BY <1>2 DEF Decided, Verdict
<1>8. /\ ask' \in [AclWorkers -> AskStates]
      /\ \A v \in AclWorkers : ask'[v] = IF v = w THEN b ELSE ask[v]
  BY <1>2, <1>3, SMTT(30) DEF AclInv
<1>9. \A v \in AclWorkers : AskInv(ask[v])'
  BY <1>2, <1>5, <1>6, <1>7, <1>8, ZenonT(30) DEF AclInv, AskInv
<1>10. /\ ipCache' \in [AclIPs -> RecordStates]
       /\ \A ip \in AclIPs : ipCache'[ip] = IF ip = a.ip THEN r ELSE ipCache[ip]
  BY <1>1, <1>2, <1>4 DEF AclInv
<1>11. \A ip \in AclIPs : RecordInv(ip, ipCache[ip])'
  BY <1>5, <1>6, <1>7, <1>10 DEF AclInv, RecordInv
<1> QED BY <1>8, <1>9, <1>10, <1>11 DEF AclInv

\* After the answer the worker is idle, or asks again to reply to the packet.
LEMMA AnswerKeeps ==
    ASSUME AclInv, NEW w \in AclWorkers, Answer(w)
    PROVE  AclInv'
<1>1. ask[w].ip \in AclIPs /\ UNCHANGED <<acl, ipCache>>
  BY Zenon DEF AclInv, AskInv, Answer
<1>2. CASE ask' = [ask EXCEPT ![w] = NoAsk]
  <2>1. NoAsk \in AskStates /\ NoAsk.at = "idle"
    BY SMTT(30) DEF NoAsk, AskStates
  <2>2. AskInv(NoAsk)
    BY <2>1 DEF AskInv
  <2> QED BY <1>1, <1>2, <2>2, WorkerMoves, Zenon
<1>3. CASE ask' = [ask EXCEPT ![w] = IPAllowed(ask[w].ip, TRUE)]
  <2>1. AskInv(IPAllowed(ask[w].ip, TRUE))
    BY <1>1, IPAllowedBegins, Zenon
  <2> QED BY <1>1, <1>3, <2>1, WorkerMoves, Zenon
<1> QED BY <1>2, <1>3, ZenonT(30) DEF Answer

\* A record that has expired decides nothing.
LEMMA AgeKeeps ==
    ASSUME AclInv, NEW ip \in AclIPs, Age(ip)
    PROVE  AclInv'
<1> DEFINE r == [ipCache[ip] EXCEPT !.expired = TRUE, !.saw = {}]
<1>1. ipCache' = [ipCache EXCEPT ![ip] = r] /\ UNCHANGED <<acl, ask>>
  BY Zenon DEF Age
<1>2. ipCache[ip] \in RecordStates
  BY DEF AclInv
<1>3. r \in RecordStates /\ r.expired
  BY <1>2, Zenon DEF RecordStates
<1> HIDE DEF r
<1>4. \A i : Ruled(i)' <=> Ruled(i)
  BY <1>1 DEF Ruled
<1>5. \A i, allow, saw : Decided(i, allow, saw)' <=> Decided(i, allow, saw)
  BY <1>1 DEF Decided, Verdict
<1>6. /\ ipCache' \in [AclIPs -> RecordStates]
      /\ \A i \in AclIPs : ipCache'[i] = IF i = ip THEN r ELSE ipCache[i]
  BY <1>1, <1>3 DEF AclInv
<1>7. \A i \in AclIPs : RecordInv(i, ipCache[i])'
  BY <1>3, <1>4, <1>5, <1>6, SMTT(30) DEF AclInv, RecordInv
<1>8. \A v \in AclWorkers : AskInv(ask[v])'
  BY <1>1, <1>4, <1>5, Zenon DEF AclInv, AskInv
<1> QED BY <1>1, <1>6, <1>7, <1>8 DEF AclInv

\* The steps of logNotifyLoop and of the database touch neither a verdict nor a record.
LEMMA AclInvUnchanged ==
    ASSUME AclInv, UNCHANGED <<acl, ask, ipCache>>
    PROVE  AclInv'
<1>1. \A i : Ruled(i)' <=> Ruled(i)
  BY DEF Ruled
<1>2. \A i, allow, saw : Decided(i, allow, saw)' <=> Decided(i, allow, saw)
  BY SMTT(30) DEF Decided, Verdict
<1>3. \A v \in AclWorkers : AskInv(ask[v])'
  BY <1>1, <1>2, Zenon DEF AclInv, AskInv
<1>4. \A i \in AclIPs : RecordInv(i, ipCache[i])'
  BY <1>1, <1>2 DEF AclInv, RecordInv
<1> QED BY <1>3, <1>4 DEF AclInv

\* Every step of the ACL and of the database it looks in keeps the invariant.
LEMMA AclStepKeeps ==
    ASSUME AclInv, [AclNext]_<<aclVars, mmVars>>
    PROVE  AclInv'
<1>1. ASSUME NEW w \in AclWorkers, AclStep(w) PROVE AclInv'
  BY <1>1, AllowRulesKeep, DenyRulesKeep, LogAndNotifyKeeps, CacheRecordKeeps, AnswerKeeps DEF AclStep
<1>2. ASSUME NEW w \in AclWorkers, NEW ip \in AclIPs, Ask(w, ip) PROVE AclInv'
  <2>1. AskInv(IPAllowed(ip, FALSE))
    BY IPAllowedBegins, Zenon
  <2>2. ask' = [ask EXCEPT ![w] = IPAllowed(ip, FALSE)] /\ UNCHANGED <<acl, ipCache>>
    BY <1>2 DEF Ask
  <2> QED BY <2>1, <2>2, WorkerMoves, Zenon
<1>3. ASSUME LoopReceive \/ LoopTick \/ LoopStop PROVE AclInv'
  BY <1>3, AclInvUnchanged DEF LoopReceive, LoopTick, LoopStop
<1>4. ASSUME UNCHANGED aclVars PROVE AclInv'
  BY <1>4, AclInvUnchanged DEF aclVars
<1> QED BY <1>1, <1>2, <1>3, <1>4, AgeKeeps DEF AclNext

\* The access control list's invariant holds of every behaviour.
LEMMA AclCorrect == AclSpec => []AclInv
<1>1. AclInv /\ [AclNext]_<<aclVars, mmVars>> => AclInv'
  BY AclStepKeeps
<1> QED BY <1>1, AclInitially, PTL DEF AclSpec

\* What IPAllowed answers is the verdict of the rules under the lookups made for it, through
\* the cache and while the database comes and goes, for any rules, addresses and listeners.
THEOREM AclVerdictHolds == AclSpec => []VerdictHolds
<1>1. AclInv => VerdictHolds
  <2> SUFFICES ASSUME AclInv, NEW w \in AclWorkers, ask[w].at = "answer", Ruled(ask[w].ip)
               PROVE  Decided(ask[w].ip, ask[w].allow, ask[w].saw)
    BY Zenon DEF VerdictHolds, Ruled, Decided, Seen
  <2> QED BY ZenonT(30) DEF AclInv, AskInv
<1> QED BY <1>1, AclCorrect, PTL

(***************************************************************************)
(* The country database.  What is on disk after a download is what was      *)
(* fetched, and was tested before.  The date an update is compared with is  *)
(* that of the version on disk, or older than what the vendor serves.       *)
(***************************************************************************)
MMStates ==
    [at : {"load", "check", "download", "test", "swap", "idle", "loaded", "failed", "stopped", "dead"},
     got : Nat, dated : BOOLEAN, scheduled : BOOLEAN]

MMTypeOK ==
    /\ remote \in Nat /\ dbFile \in [db : Int, mtime : Nat] /\ tmpFile \in Int
    /\ lastUpdate \in Nat /\ mm \in MMStates

MMInv ==
    /\ MMTypeOK
    /\ dbFile.db <= remote /\ lastUpdate <= remote
    /\ dbFile.mtime # 0 => dbFile.mtime = dbFile.db
    /\ lastUpdate = 0 \/ lastUpdate = dbFile.db \/ lastUpdate < remote
    /\ mm.at = "load" => lastUpdate = 0
    /\ mm.at \in {"download", "test", "swap"} => lastUpdate = 0 \/ lastUpdate < remote
    /\ mm.at = "test" => mm.got <= remote /\ (tmpFile > 0 => tmpFile = mm.got)
    /\ mm.at = "swap" => dbFile.db = mm.got

\* At a start, with whatever file there is.
LEMMA MMInitially == MMInit => MMInv
  BY DEF MMInit, MMInv, MMTypeOK, MMStates, Loading, None, Invalid

\* Where an update leaves off.
LEMMA RestIs ==
    ASSUME mm \in MMStates
    PROVE  /\ Rest \in MMStates
           /\ Rest.at \in {"idle", "failed", "loaded"}
<1>1. None \in Nat
  BY DEF None
<1> QED BY <1>1, Zenon DEF Rest, MMStates

\* Every step of the loading, the updates and the vendor keeps that.
LEMMA MMStep == MMInv /\ [MMNext]_mmVars => MMInv'
<1> SUFFICES ASSUME MMInv, [MMNext]_mmVars PROVE MMInv'
  OBVIOUS
<1> USE DEF MMInv, MMTypeOK
<1>0. Rest \in MMStates /\ Rest.at \in {"idle", "failed", "loaded"}
  BY RestIs
<1>1. CASE Publish
  <2>1. remote' = remote + 1 /\ UNCHANGED <<dbFile, tmpFile, lastUpdate, mm>>
    BY <1>1 DEF Publish
  <2>2. dbFile.db \in Int /\ mm.got \in Int
    BY DEF MMStates
  <2> QED BY <2>1, <2>2
<1>2. CASE LoadMaxMindDB
  <2>1. UNCHANGED <<remote, dbFile, tmpFile>> /\ mm.at = "load" /\ lastUpdate = 0
    BY <1>2 DEF LoadMaxMindDB
  <2>2. CASE lastUpdate' = dbFile.mtime /\ mm' = [mm EXCEPT !.at = "check", !.scheduled = TRUE]
    <3>1. mm' \in MMStates /\ mm'.at = "check"
      BY <2>2, Zenon DEF MMStates
    <3>2. dbFile.mtime \in Nat /\ dbFile.db \in Int /\ dbFile.mtime <= remote
      OBVIOUS
    <3> QED BY <2>1, <2>2, <3>1, <3>2, SMTT(30)
  <2>3. CASE lastUpdate' = lastUpdate /\ \E at \in {"download", "failed"} : mm' = [mm EXCEPT !.at = at]
    <3>1. mm' \in MMStates /\ mm'.at \in {"download", "failed"}
      BY <2>3 DEF MMStates
    <3> QED BY <2>1, <2>3, <3>1
  <2> QED BY <1>2, <2>2, <2>3 DEF LoadMaxMindDB
<1>3. CASE CheckLastest
  <2>1. UNCHANGED <<remote, dbFile, tmpFile, lastUpdate>> /\ mm.at = "check"
    BY <1>3 DEF CheckLastest
  <2>2. CASE mm' = Rest \/ mm' = [mm EXCEPT !.at = "dead"]
    <3>1. mm' \in MMStates /\ mm'.at \in {"idle", "failed", "loaded", "dead"}
      BY <1>0, <2>2 DEF MMStates
    <3> QED BY <2>1, <3>1
  <2>3. CASE remote # lastUpdate /\ mm' = [mm EXCEPT !.at = "download"]
    <3>1. mm' \in MMStates /\ mm'.at = "download"
      BY <2>3, SMTT(30) DEF MMStates
    <3> QED BY <2>1, <2>3, <3>1
  <2> QED BY <1>3, <2>2, <2>3 DEF CheckLastest
<1>4. CASE Fetch
  <2>1. UNCHANGED <<remote, dbFile, lastUpdate>> /\ mm.at = "download"
    BY <1>4, Zenon DEF Fetch
  <2>2. CASE mm' = Rest /\ tmpFile' \in LeftBehind
    <3>1. tmpFile' \in Int
      BY <2>2 DEF LeftBehind, Invalid
    <3> QED BY <1>0, <2>1, <2>2, <3>1, SMTT(30)
  <2>3. ASSUME NEW d \in BOOLEAN, NEW t \in Extracted,
               mm' = [mm EXCEPT !.at = "test", !.got = remote, !.dated = d], tmpFile' = t
        PROVE  MMInv'
    <3>1. mm' \in MMStates /\ mm'.at = "test" /\ mm'.got = remote
      BY <2>3, Zenon DEF MMStates
    <3>2. tmpFile' \in Int /\ (tmpFile' > 0 => tmpFile' = remote)
      BY <2>3 DEF Extracted, Invalid
    <3> QED BY <2>1, <3>1, <3>2
  <2> QED BY <1>4, <2>2, <2>3, ZenonT(30) DEF Fetch
<1>5. CASE Replace
  BY <1>0, <1>5 DEF Replace, Install, MMStates, None
<1>6. CASE Swap
  <2>1. UNCHANGED <<remote, tmpFile>> /\ mm.at = "swap" /\ mm.got \in Nat /\ dbFile.db = mm.got
    BY <1>6 DEF Swap, MMStates
  <2>2. mm' \in MMStates /\ mm'.at \in {"idle", "failed", "loaded"}
    BY <1>0, <1>6 DEF Swap, MMStates
  <2>3. CASE UNCHANGED <<dbFile, lastUpdate>>
    BY <2>1, <2>2, <2>3
  <2>4. CASE lastUpdate' = mm.got /\ dbFile' = [dbFile EXCEPT !.mtime = mm.got]
    <3>1. dbFile' \in [db : Int, mtime : Nat] /\ dbFile'.db = mm.got /\ dbFile'.mtime = mm.got
      BY <2>1, <2>4
    <3> QED BY <2>1, <2>2, <2>4, <3>1
  <2> QED BY <1>6, <2>3, <2>4 DEF Swap, DateOf
<1>7. CASE TickUpdate \/ StopUpdate
  BY <1>7 DEF TickUpdate, StopUpdate, MMStates
<1>8. CASE Crash
  BY <1>8 DEF Crash, Loading, None, MMStates
<1>9. CASE UNCHANGED mmVars
  BY <1>9 DEF mmVars
<1> QED BY <1>1, <1>2, <1>3, <1>4, <1>5, <1>6, <1>7, <1>8, <1>9, Zenon DEF MMNext

\* The database's invariant holds of every behaviour.
LEMMA MMCorrect == MMSpec => []MMInv
  BY MMInitially, MMStep, PTL DEF MMSpec

\* The file of the database is only ever replaced by one that opens, whatever fails or
\* crashes on the way (download tests the -tmp file before os.Rename).
THEOREM MaxMindDatabaseKept == MMSpec => DatabaseKept
<1>1. MMInv /\ [MMNext]_mmVars => [dbFile.db > 0 => dbFile'.db > 0]_dbFile
  <2> SUFFICES ASSUME MMInv, [MMNext]_mmVars, dbFile.db > 0 PROVE dbFile'.db > 0 \/ UNCHANGED dbFile
    OBVIOUS
  <2>1. CASE Replace
    BY <2>1 DEF Replace, Install
  <2>2. CASE Swap
    BY <2>2, SMTT(30) DEF Swap, MMInv, MMTypeOK
  <2>3. CASE ~Replace /\ ~Swap
    BY <2>3, Zenon DEF MMNext, mmVars, Publish, LoadMaxMindDB, CheckLastest, Fetch, TickUpdate, StopUpdate, Crash
  <2> QED BY <2>1, <2>2, <2>3
<1> QED BY <1>1, MMCorrect, PTL DEF MMSpec, DatabaseKept

\* No published version is skipped: an update compares the vendor's date with that of the
\* version on disk, or with one that is no longer served (update, download).
THEOREM MaxMindUpdateNotMissed == MMSpec => []UpdateNotMissed
<1>1. MMInv => UpdateNotMissed
  BY DEF MMInv, MMTypeOK, UpdateNotMissed, None
<1> QED BY <1>1, MMCorrect, PTL

=============================================================================
