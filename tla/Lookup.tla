-------------------------------- MODULE Lookup --------------------------------
(***************************************************************************)
(* What the host of a request decides: the route it is for                  *)
(* (internal/entrypoint/entrypoint.go) and the domain its cookies are set   *)
(* for (internal/auth/utils.go).  A host is the sequence of its labels; a   *)
(* domain that starts with a dot is the sequence of the labels after it.    *)
(***************************************************************************)
EXTENDS Naturals, Sequences

NoRoute == <<"no route">>

\* The key if there is a route with it.
Registered(routes, key) == IF key \in routes THEN key ELSE NoRoute

\* findRouteAnyDomain: the first label, then the whole host.
findRouteAnyDomain(routes, host) ==
    IF Len(host) > 1 /\ Registered(routes, <<host[1]>>) # NoRoute THEN <<host[1]>> ELSE Registered(routes, host)

HasSuffix(host, domain) ==
    Len(domain) <= Len(host) /\ SubSeq(host, Len(host) - Len(domain) + 1, Len(host)) = domain
CutSuffix(host, domain) == SubSeq(host, 1, Len(host) - Len(domain))

\* Mutant: only the first domain that fits is tried.
TriedFirst(fitting) == {i \in fitting : \A j \in fitting : i <= j}

\* The domains to try, by their places.
Tried(fitting) == fitting

\* findRouteByDomains: the first domain that leaves the name of a route, then the whole
\* host.
findRouteByDomains(routes, domains, host) ==
    LET fitting == {i \in DOMAIN domains : HasSuffix(host, domains[i]) /\ Len(domains[i]) < Len(host)}
        found == {i \in Tried(fitting) : CutSuffix(host, domains[i]) \in routes}
        first == CHOOSE i \in found : \A j \in found : i <= j
    IN  IF found # {} THEN CutSuffix(host, domains[first]) ELSE Registered(routes, host)

\* SetFindRouteDomains
FindRoute(routes, domains, host) ==
    IF domains = <<>> THEN findRouteAnyDomain(routes, host) ELSE findRouteByDomains(routes, domains, host)

-----------------------------------------------------------------------------
\* Mutant: the first label stays.
StripFirstKeep(host) == IF Len(host) < 2 THEN <<>> ELSE host

\* parts[0] = "": a name of one label has no domain.
StripFirst(host) == IF Len(host) < 2 THEN <<>> ELSE Tail(host)

\* cookieDomain; <<>> is the empty string, for cookies of this host only.
cookieDomain(host) ==
    IF Len(host) >= 2 /\ host[Len(host)] \in {"internal", "localhost", "local"} THEN <<host[Len(host)]>>
    ELSE IF host = <<"10", "0", "0", "1">> THEN <<>>
    ELSE StripFirst(host)
=============================================================================
