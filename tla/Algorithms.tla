----------------------------- MODULE Algorithms -----------------------------
(***************************************************************************)
(* The algorithms that decide where a request goes, each taking one input   *)
(* of any size: the route made of a container or of a file (RouteConfig),   *)
(* the weights of a load balancer (Rebalance), the chains of the compose    *)
(* files (ComposeFiles) and the route of a host (Lookup).  A step takes an  *)
(* input and computes what the code makes of it.                            *)
(***************************************************************************)
EXTENDS RouteConfig, Rebalance, ComposeFiles, Lookup

CONSTANTS
    RouteInputs,    \* [c, alias, port]: a container, the alias and the port its labels give a route
    FileRoutes,     \* routes that are written in a file
    WeightInputs,   \* the weights of the servers of a load balancer
    ComposeInputs,  \* lists of compose files
    LookupInputs    \* [host, routes, domains]

\* The route of an alias of a container whose labels set at most its port.
NewRoute(alias, port, cont) ==
    [ alias |-> alias, scheme |-> "none", host |-> "", lport |-> 0, pport |-> port, rules |-> FALSE,
      ruleFile |-> "none", healthcheck |-> "nil", link |-> "", idle |-> "none", cont |-> cont, agent |-> FALSE,
      agentName |-> "", proxmox |-> "no", provider |-> "docker", valErr |-> FALSE, excluded |-> FALSE,
      reason |-> "none" ]

ASSUME AlgorithmsAssumption ==
    /\ "" \in DOMAIN Normal /\ Normal[""] = ""
    /\ \A x \in RouteInputs : DOMAIN x.c.ports = 1..Len(x.c.ports) /\ Len(x.c.ports) \in Nat
    /\ \A r \in FileRoutes : /\ DOMAIN r = DOMAIN NewRoute("", 0, NoContainer)
                             /\ ~r.excluded /\ r.reason = "none" /\ r.cont = NoContainer
                             /\ r.ruleFile \in {"none", "ok", "bad"}
                             /\ r.proxmox \in {"no", "ok", "incomplete", "unreachable"}
    /\ WeightInputs \subseteq Seq(Nat)
    /\ \A x \in ComposeInputs : DOMAIN x = 1..Len(x) /\ Len(x) \in Nat
    /\ \A x \in LookupInputs : /\ x.host \in Seq(STRING) \ {<<>>} /\ x.domains \in Seq(Seq(STRING))
                               /\ x.routes \subseteq Seq(STRING) \ {<<>>, NoRoute}

VARIABLES
    part,  \* the algorithm
    in,    \* its input
    out    \* the set of its possible results, empty before the step

-----------------------------------------------------------------------------
\* A container with an error gives no route.
ContainerRoutes(x) == UNION {Validate(NewRoute(x.alias, x.port, c)) : c \in {c \in FromDocker(x.c) : ~c.err}}

TakeStart == part = "algorithms" /\ in = <<>> /\ out = {}

Take ==
    /\ part = "algorithms"
    /\ \/ part' = "container" /\ in' \in RouteInputs /\ out' = ContainerRoutes(in')
       \/ part' = "file" /\ in' \in FileRoutes /\ out' = Validate(in')
       \/ part' = "weights" /\ in' \in WeightInputs /\ out' = DoRebalance(in', Total(in'))
       \/ part' = "compose" /\ in' \in ComposeInputs /\ out' = {LoadComposeFiles({"builtin"}, in')}
       \/ part' = "lookup" /\ in' \in LookupInputs /\ out' = {FindRoute(in'.routes, in'.domains, in'.host)}

TakeSpec == TakeStart /\ [][Take]_<<part, in, out>>

-----------------------------------------------------------------------------
\* A valid route to a container that is not excluded leads to an address and a port the
\* container has: its address in one of its networks with a private port, or the public
\* address of its host with a published port (Finalize, setPrivateHostname,
\* setPublicHostname).  No port is given for it by a label, its image or its alias.
RouteEndpoint ==
    part = "container" =>
        \A r \in out :
            (/\ ~r.valErr /\ ~r.excluded /\ ~UseIdleWatcher(r) /\ r.cont.running /\ ~in.c.hostNet
             /\ in.port = 0 /\ in.c.image \notin DOMAIN ImagePort /\ Normal[in.alias] \notin DOMAIN AliasPort)
            => \E i \in DOMAIN in.c.ports :
                  \/ r.host \in {in.c.nets[n] : n \in DOMAIN in.c.nets} /\ r.pport = in.c.ports[i].priv
                  \/ r.host = r.cont.publicHost /\ r.pport = in.c.ports[i].pub /\ r.pport # 0

\* An excluded route has a reason, and only an excluded route (ShouldExclude and
\* findExcludedReason are two lists of the same conditions).
ExcludedHasReason ==
    part \in {"container", "file"} =>
        \A r \in out : ~r.valErr => (r.excluded <=> r.reason # "none") /\ (r.excluded => findExcludedReason(r) = r.reason)

\* The weights become shares of 100 exactly and none of them negative (rebalance).
RebalanceExact ==
    part = "weights" =>
        \A r \in out : /\ in # <<>> => Total(r.weights) = maxWeight
                       /\ \A i \in DOMAIN r.weights : r.weights[i] >= 0

\* Loading the compose files twice resolves every reference to a chain that itself only
\* uses built-in middlewares, whichever file each is in, and loads no chain that uses one
\* that is not there.
ComposeResolves ==
    part = "compose" =>
        LET uses(i, n) == {in[i][n][j] : j \in DOMAIN in[i][n]}
            plain == {n \in UNION {DOMAIN in[i] : i \in DOMAIN in} :
                         \E i \in DOMAIN in : n \in DOMAIN in[i] /\ uses(i, n) \subseteq {"builtin"}}
        IN  \A o \in out :
               /\ \A i \in DOMAIN in : \A n \in DOMAIN in[i] :
                     uses(i, n) \subseteq (plain \cup {"builtin"}) \ {""} => n \in o
               /\ \A n \in o \ {"builtin"} :
                     \E i \in DOMAIN in : n \in DOMAIN in[i] /\ uses(i, n) \subseteq o

\* The routes a host may be for: one whose name is the host, or the host without one of
\* the match domains; without match domains, its first label.
RoutesOfHost(x) ==
    LET cut(d) == {t \in x.routes : t \o d = x.host}
        byDomain == UNION {cut(x.domains[i]) : i \in DOMAIN x.domains}
        byLabel == {<<x.host[1]>>} \cap x.routes
    IN  (IF x.domains = <<>> THEN byLabel ELSE byDomain) \cup ({x.host} \cap x.routes)

\* A host finds a route exactly when there is one it may be for, and then one of those
\* (findRouteAnyDomain, findRouteByDomains).
LookupExact ==
    part = "lookup" =>
        \A o \in out : IF RoutesOfHost(in) = {} THEN o = NoRoute ELSE o \in RoutesOfHost(in)
=============================================================================
