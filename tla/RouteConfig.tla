----------------------------- MODULE RouteConfig -----------------------------
(***************************************************************************)
(* How a route is made of its configuration and of its container:           *)
(* docker.FromDocker (internal/docker/container.go), Route.Finalize,        *)
(* Route.validate, the reasons of exclusion and the keys of the pools       *)
(* (internal/route/route.go, port_selection.go).                            *)
(*                                                                          *)
(* Names are strings of small sets: Normal stands for ToLower(TrimSpace()), *)
(* and the names with a given beginning or end are a set.  What depends on  *)
(* the order of a Go map is the set of its possible results.                *)
(***************************************************************************)
EXTENDS Integers, Sequences

CONSTANTS
    Normal,           \* a name to the name without blanks and in lower case
    OldNames,         \* names that end with "-old"
    BuildxNames,      \* names that begin with "buildx_"
    ImagePort,        \* an image name to its [scheme, port]
    AliasPort,        \* an alias to its [scheme, port]
    BlacklistNames,   \* imageBlacklist
    BlacklistAuthors, \* authorBlacklist
    OwnPorts          \* the ports GoDoxy itself listens on

NoContainer == [name |-> ""]
HasContainer(r) == r.cont # NoContainer

-----------------------------------------------------------------------------
(***************************************************************************)
(* Containers                                                               *)
(***************************************************************************)
\* A later entry of c.Ports replaces an earlier one of the same key.
Mapping(ports, key(_)) ==
    LET at(k) == {i \in DOMAIN ports : key(ports[i]) = k}
        last(k) == CHOOSE i \in at(k) : \A j \in at(k) : j <= i
    IN  [k \in {key(ports[i]) : i \in DOMAIN ports} |-> ports[last(k)]]

getPublicPortMapping(c) ==
    LET key(p) == p.pub
        m == Mapping(c.ports, key)
    IN  [k \in DOMAIN m \ {0} |-> m[k]]

getPrivatePortMapping(c) == LET key(p) == p.priv IN Mapping(c.ports, key)

\* Under the host network every exposed port is published as itself.
UpdatePorts(c, m) ==
    [k \in DOMAIN m \cup c.exposed |->
        IF k \in c.exposed THEN [pub |-> k, priv |-> k, type |-> "tcp"] ELSE m[k]]

\* The possible private addresses: that of the network the label names, alone or
\* after the name of the compose project, or else that of any network; "?" stands
\* for a named network that is not found.
setPrivateHostname(c) ==
    LET addr(n) == IF n \in DOMAIN c.nets THEN c.nets[n] ELSE "" IN
    CASE ~c.local /\ ~c.agent -> {""}
      [] c.network # "" /\ addr(c.network) # "" -> {addr(c.network)}
      [] c.network # "" /\ addr(c.network) = "" ->
            IF addr(c.composed) # "" THEN {addr(c.composed)} ELSE {"?"}
      [] OTHER -> LET valid == {addr(n) : n \in DOMAIN c.nets} \ {""}
                  IN  IF valid = {} THEN {""} ELSE valid

setPublicHostname(c) == IF ~c.running THEN "" ELSE IF c.local THEN "127.0.0.1" ELSE c.dockerHost

isDatabase(c) ==
    \/ c.dbMount
    \/ \E i \in DOMAIN c.ports : c.ports[i].priv \in {5432, 3306, 6379, 11211, 27017}

IsBlacklisted(c) == c.image \in BlacklistNames \/ c.author \in BlacklistAuthors \/ isDatabase(c)

\* FromDocker and, under the host network, UpdatePorts: what a route keeps of its
\* container.  A container with an error gives no route.
FromDocker(c) ==
    { [ name |-> c.name, id |-> c.id, image |-> c.image, running |-> c.running,
        hostNet |-> c.hostNet, explicit |-> c.explicit, excluded |-> c.excluded,
        blacklisted |-> IsBlacklisted(c), idle |-> c.idle, agent |-> c.agent,
        publicPorts |-> IF c.hostNet THEN UpdatePorts(c, getPublicPortMapping(c))
                                     ELSE getPublicPortMapping(c),
        privatePorts |-> getPrivatePortMapping(c),
        publicHost |-> setPublicHostname(c), privateHost |-> h,
        err |-> \/ h = "?" \/ c.idle = "invalid"
                \/ h = "" /\ setPublicHostname(c) = "" /\ c.running ]
      : h \in setPrivateHostname(c) }

-----------------------------------------------------------------------------
(***************************************************************************)
(* What a route uses                                                        *)
(***************************************************************************)
UseLoadBalance(r) == r.link # ""
UseIdleWatcher(r) == r.idle = "valid"
IsAgent(r) == r.agent \/ (HasContainer(r) /\ r.cont.agent)
IsZeroPort(r) == r.pport = 0

UseHealthCheck(r) ==
    /\ HasContainer(r) => /\ r.cont.image # "godoxy-agent"
                          /\ r.cont.running \/ UseIdleWatcher(r)
                          /\ r.cont.name \notin BuildxNames
    /\ r.healthcheck # "disable"

\* r.IsZeroPort() && !r.UseIdleWatcher()
NoPortContainer(r) == IsZeroPort(r) /\ ~UseIdleWatcher(r)

ShouldExclude(r) ==
    \/ r.valErr
    \/ r.excluded
    \/ HasContainer(r) /\ \/ r.cont.excluded
                          \/ NoPortContainer(r)
                          \/ ~r.cont.explicit /\ r.cont.blacklisted
                          \/ r.cont.name \in BuildxNames
    \/ ~HasContainer(r) /\ IsZeroPort(r) /\ r.scheme # "fileserver"
    \/ r.alias \in OldNames

\* Mutant: the name of the container is not looked at.
ContainerReasonNotName(r) ==
    CASE r.cont.excluded -> "manual"
      [] ~r.cont.excluded /\ NoPortContainer(r) -> "no port in container"
      [] OTHER -> "none"

\* The switch of findExcludedReason, its cases in the order of the code.
ContainerReason(r) ==
    IF r.cont.excluded THEN "manual"
    ELSE IF NoPortContainer(r) THEN "no port in container"
    ELSE IF ~r.cont.explicit /\ r.cont.blacklisted THEN "blacklisted"
    ELSE IF r.cont.name \in BuildxNames THEN "buildx"
    ELSE "none"

findExcludedReason(r) ==
    IF r.valErr THEN "error"
    ELSE IF r.reason # "none" THEN r.reason
    ELSE IF HasContainer(r) /\ ContainerReason(r) # "none" THEN ContainerReason(r)
    ELSE IF ~HasContainer(r) /\ IsZeroPort(r) /\ r.scheme # "fileserver" THEN "no port"
    ELSE IF r.alias \in OldNames THEN "old"
    ELSE "none"

\* The key in the pools: the alias, or provider:alias[-container].
Key(r) ==
    IF UseLoadBalance(r) \/ ShouldExclude(r)
    THEN IF HasContainer(r) THEN <<r.provider, r.alias, r.cont.id>> ELSE <<r.provider, r.alias>>
    ELSE <<r.alias>>

\* Mutant: only rules count.
PreferOverRules(r, o) == r.rules \/ ~o.rules

\* Rules first, then a route that is not from docker, then the newer.
PreferOver(r, o) ==
    IF r.rules # o.rules THEN r.rules
    ELSE HasContainer(r) # HasContainer(o) => ~HasContainer(r)

\* Pool.AddKey
AddKey(pool, r) ==
    LET k == Key(r) IN
    IF k \in DOMAIN pool /\ ~PreferOver(r, pool[k]) THEN pool
    ELSE [j \in DOMAIN pool \cup {k} |-> IF j = k THEN r ELSE pool[j]]

-----------------------------------------------------------------------------
(***************************************************************************)
(* Finalize                                                                 *)
(***************************************************************************)
preferredPortOrder == <<80, 8080, 3000, 8000, 443, 8443>>

\* The first of the preferred ports, or one that stands for the lowest private port.
preferredPort(m) ==
    LET preferred == {i \in DOMAIN preferredPortOrder : preferredPortOrder[i] \in DOMAIN m}
        first == CHOOSE i \in preferred : \A j \in preferred : i <= j
        lowest == {k \in DOMAIN m : /\ m[k].priv < 65535
                                    /\ \A j \in DOMAIN m : m[k].priv <= m[j].priv}
    IN  IF preferred # {} THEN {preferredPortOrder[first]}
        ELSE IF lowest # {} THEN lowest ELSE {0}

FinalHost(r) ==
    CASE Normal[r.host] # "" -> Normal[r.host]
      [] ~HasContainer(r) -> "localhost"
      [] r.cont.privateHost # "" -> r.cont.privateHost
      [] OTHER -> r.cont.publicHost

\* The scheme and port of the image, where none is given, and then of the alias.
ByTable(table, key, sp) ==
    IF key \notin DOMAIN table THEN sp
    ELSE [scheme |-> IF sp.scheme = "none" THEN table[key].scheme ELSE sp.scheme,
          port |-> IF sp.port = 0 THEN table[key].port ELSE sp.port]

Known(r) ==
    LET given == [scheme |-> r.scheme, port |-> r.pport]
        image == IF HasContainer(r) THEN ByTable(ImagePort, r.cont.image, given) ELSE given
    IN  ByTable(AliasPort, Normal[r.alias], image)

\* The possible ports, where none is known.
DefaultPort(r, scheme) ==
    CASE HasContainer(r) -> preferredPort(IF r.cont.hostNet THEN r.cont.publicPorts
                                                             ELSE r.cont.privatePorts)
      [] scheme = "https" -> {443}
      [] OTHER -> {80}

\* Mutant: ports are not translated for the public address.
TranslatePrivate(r, host, port) ==
    IF port \in DOMAIN r.cont.publicPorts THEN r.cont.publicPorts[port].priv ELSE port

\* The port that goes with the host: a public one on the public address, else a
\* private one.
Translate(r, host, port) ==
    IF host = r.cont.publicHost
    THEN IF port \in DOMAIN r.cont.privatePorts THEN r.cont.privatePorts[port].pub ELSE port
    ELSE IF port \in DOMAIN r.cont.publicPorts THEN r.cont.publicPorts[port].priv ELSE port

FinalScheme(r, scheme, before, port) ==
    CASE scheme # "none" -> scheme
      [] /\ HasContainer(r)
         /\ \E k \in DOMAIN r.cont.publicPorts :
               r.cont.publicPorts[k].priv = before /\ r.cont.publicPorts[k].type = "udp" -> "udp"
      [] r.lport # 0 -> "tcp"
      [] port % 1000 = 443 -> "https"
      [] OTHER -> "http"

Finalize(r) ==
    LET known == Known(r)
        host == FinalHost(r)
        final(before) ==
            LET port == IF HasContainer(r) THEN Translate(r, host, before) ELSE before
            IN  [r EXCEPT !.alias = Normal[r.alias], !.host = host, !.pport = port,
                          !.scheme = FinalScheme(r, known.scheme, before, port),
                          !.healthcheck = IF @ = "nil" THEN "default" ELSE @]
    IN  {final(p) : p \in IF known.port # 0 THEN {known.port} ELSE DefaultPort(r, known.scheme)}

-----------------------------------------------------------------------------
(***************************************************************************)
(* validate                                                                 *)
(***************************************************************************)
Failed(r) == [r EXCEPT !.valErr = TRUE]

\* A proxmox container behind localhost: the first of its addresses that answers on
\* the port, after it was started if need be.
ResolveProxmox(r) ==
    CASE r.proxmox = "no" -> r
      [] r.proxmox = "incomplete" -> Failed(r)
      [] r.proxmox = "ok" /\ r.host # "localhost" -> r
      [] r.proxmox = "ok" /\ r.host = "localhost" -> [r EXCEPT !.host = "10.0.0.9"]
      [] r.proxmox = "unreachable" -> IF r.host = "localhost" THEN Failed(r) ELSE r

Reserved(r) ==
    /\ ~IsAgent(r)
    /\ r.host \in {"localhost", "127.0.0.1"} /\ r.pport \in OwnPorts
    /\ r.scheme \in {"http", "https", "tcp"}

\* Rules come from the preset of the frontend, or from a file that is not given
\* along with rules.
ValidateRules(r) ==
    CASE HasContainer(r) -> [r EXCEPT !.rules = @ \/ r.cont.image = "godoxy-frontend"]
      [] ~HasContainer(r) /\ r.ruleFile = "none" -> r
      [] ~HasContainer(r) /\ r.ruleFile = "bad" -> Failed(r)
      [] ~HasContainer(r) /\ r.ruleFile = "ok" -> IF r.rules THEN Failed(r) ELSE [r EXCEPT !.rules = TRUE]

\* Mutant: the reserved ports are not checked.
CheckedNotReserved(r) ==
    \/ r.scheme \in {"http", "https"} /\ r.lport # 0
    \/ ~UseHealthCheck(r) /\ (UseLoadBalance(r) \/ UseIdleWatcher(r))

\* The checks that end with an error.
Checked(r) ==
    \/ Reserved(r)
    \/ r.scheme \in {"http", "https"} /\ r.lport # 0
    \/ ~UseHealthCheck(r) /\ (UseLoadBalance(r) \/ UseIdleWatcher(r))

\* One result of validate for each of Finalize.
ValidateFinal(r) ==
    LET p == ResolveProxmox(r)
        i == IF HasContainer(p) /\ p.cont.idle = "valid" THEN [p EXCEPT !.idle = "valid"] ELSE p
        v == ValidateRules(i)
        f == IF v.scheme = "fileserver" THEN [v EXCEPT !.host = "", !.pport = 0] ELSE v
    IN  IF p.valErr \/ v.valErr \/ Checked(f) THEN Failed(f)
        ELSE [f EXCEPT !.excluded = ShouldExclude(f),
                       !.reason = IF ShouldExclude(f) THEN findExcludedReason(f) ELSE "none"]

Validate(r) ==
    IF r.agentName # "" /\ (HasContainer(r) \/ r.agentName = "unknown") THEN {Failed(r)}
    ELSE {ValidateFinal(f) : f \in Finalize([r EXCEPT !.agent = r.agentName # ""])}
=============================================================================
