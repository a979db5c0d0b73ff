----------------------------- MODULE LoadBalance -----------------------------
(***************************************************************************)
(* Routes that share a load balancer by its link                            *)
(* (internal/route/reverse_proxy.go, addToLoadBalancer), the pool and the   *)
(* strategies of the balancer (internal/net/gphttp/loadbalancer), and the   *)
(* requests it serves.                                                      *)
(*                                                                          *)
(* A route that joins or leaves holds poolMu; requests do not.  The pool is *)
(* a concurrent map that is ranged over in any order.  A server is named    *)
(* after its route; its key is the host of its URL.  Sticky cookies and     *)
(* hashes of addresses choose any server they can name.                     *)
(***************************************************************************)
EXTENDS Integers, Sequences, FiniteSets

CONSTANTS
    LBRoutes,    \* routes with the same link
    LBRequests,  \* requests for the link
    MaxHealth,   \* bound: changes of a health status
    HostOf       \* the host of the URL of each route: the key of its server

ASSUME LBRoutesAssumption == IsFiniteSet(LBRoutes)

VARIABLES
    mode,      \* the strategy: "rr" (round robin), "least" (leastConn), "iphash"
    linked,    \* the balancer under the link in routes.HTTP, 0 when there is none
    made,      \* balancers made so far
    creator,   \* the route that made each balancer
    stage,     \* where each route is
    joined,    \* the balancer of each route
    poolMu,    \* who holds the lock of each balancer, "free" when nobody does
    members,   \* the pool of each balancer: a key to its server
    tracked,   \* the servers the strategy knows, in the order they were added
    nConn,     \* the counters of leastConn
    ended,     \* the balancers whose task has ended
    good,      \* routes with a good health status
    turns,     \* changes of a health status so far
    req,       \* where each request is: [at, lb, srvs, srv]
    panicked   \* slices.Delete was called with a range that does not exist

lbRouteVars == <<linked, made, creator, stage, joined>>
lbVars == <<mode, linked, made, creator, stage, joined, poolMu, members, tracked, nConn, ended,
            good, turns, req, panicked>>

Balancers == 1..Cardinality(LBRoutes)
Idle0 == [at |-> "idle", lb |-> 0, srvs |-> {}, srv |-> "none"]

Members(b) == {members[b][k] : k \in DOMAIN members[b]}
Tracked(b) == {tracked[b][i] : i \in DOMAIN tracked[b]}

LBInit ==
    /\ mode \in {"rr", "least", "iphash"}
    /\ linked = 0 /\ made = 0
    /\ creator = [b \in Balancers |-> "none"]
    /\ stage = [r \in LBRoutes |-> "new"]
    /\ joined = [r \in LBRoutes |-> 0]
    /\ poolMu = [b \in Balancers |-> "free"]
    /\ members = [b \in Balancers |-> <<>>]
    /\ tracked = [b \in Balancers |-> <<>>]
    /\ nConn = [b \in Balancers |-> [r \in LBRoutes |-> 0]]
    /\ ended = {} /\ good = LBRoutes /\ turns = 0
    /\ req = [q \in LBRequests |-> Idle0]
    /\ panicked = FALSE

Drop(f, k) == [x \in DOMAIN f \ {k} |-> f[x]]
With(f, k, v) == [x \in DOMAIN f \cup {k} |-> IF x = k THEN v ELSE f[x]]

-----------------------------------------------------------------------------
(***************************************************************************)
(* addToLoadBalancer                                                        *)
(***************************************************************************)
\* Under lbLock: there is no link yet, a balancer is made and stored.
CreateBalancer(r) ==
    /\ stage[r] = "new" /\ linked = 0
    /\ made' = made + 1
    /\ linked' = made + 1
    /\ creator' = [creator EXCEPT ![made + 1] = r]
    /\ joined' = [joined EXCEPT ![r] = made + 1]
    /\ stage' = [stage EXCEPT ![r] = "add"]
    /\ UNCHANGED <<mode, poolMu, members, tracked, nConn, ended, good, turns, req, panicked>>

\* There is one; the lock is released before the server is added.
FindBalancer(r) ==
    /\ stage[r] = "new" /\ linked # 0
    /\ joined' = [joined EXCEPT ![r] = linked]
    /\ stage' = [stage EXCEPT ![r] = "add"]
    /\ UNCHANGED <<mode, linked, made, creator, poolMu, members, tracked, nConn, ended, good,
                   turns, req, panicked>>

Untrack(seq, r) == LET keep(s) == s # r IN SelectSeq(seq, keep)

\* Mutant: the strategy is not told.
OnRemoveUntold(b, r) == UNCHANGED <<tracked, panicked>>

\* OnRemoveServer of the strategy.  ipHash calls slices.Delete(pool, i, 1), which takes
\* the range from i to 1: the first server is deleted, the second is not, and for a
\* later one the program panics.
OnRemove(b, r) ==
    IF mode # "iphash" \/ r \notin Tracked(b) \/ tracked[b][1] = r
    THEN tracked' = [tracked EXCEPT ![b] = Untrack(@, r)] /\ UNCHANGED panicked
    ELSE UNCHANGED tracked /\ panicked' = (panicked \/ tracked[b][2] # r)

\* AddServer up to OnAddServer: a server of the same key is replaced.
AddServer(r) ==
    LET b == joined[r]
        k == HostOf[r]
    IN  /\ stage[r] = "add" /\ poolMu[b] = "free"
        /\ poolMu' = [poolMu EXCEPT ![b] = r]
        /\ IF k \in DOMAIN members[b] THEN OnRemove(b, members[b][k]) ELSE UNCHANGED <<tracked, panicked>>
        /\ members' = [members EXCEPT ![b] = With(@, k, r)]
        /\ stage' = [stage EXCEPT ![r] = "track"]
        /\ UNCHANGED <<mode, linked, made, creator, joined, nConn, ended, good, turns, req>>

\* impl.OnAddServer: a new counter; then the callback of the route's task is set.
OnAddServer(r) ==
    LET b == joined[r]
    IN  /\ stage[r] = "track"
        /\ tracked' = [tracked EXCEPT ![b] = Append(@, r)]
        /\ nConn' = [nConn EXCEPT ![b][r] = 0]
        /\ poolMu' = [poolMu EXCEPT ![b] = "free"]
        /\ stage' = [stage EXCEPT ![r] = "running"]
        /\ UNCHANGED <<mode, linked, made, creator, joined, members, ended, good, turns, req, panicked>>

\* The task of a route is cancelled: RemoveServer up to OnRemoveServer.
RemoveServer(r) ==
    LET b == joined[r]
    IN  /\ stage[r] = "running" /\ poolMu[b] = "free"
        /\ IF HostOf[r] \in DOMAIN members[b]
           THEN /\ members' = [members EXCEPT ![b] = Drop(@, HostOf[r])]
                /\ poolMu' = [poolMu EXCEPT ![b] = r]
                /\ stage' = [stage EXCEPT ![r] = "untrack"]
           ELSE /\ stage' = [stage EXCEPT ![r] = "finish"]
                /\ UNCHANGED <<members, poolMu>>
        /\ UNCHANGED <<mode, linked, made, creator, joined, tracked, nConn, ended, good, turns, req, panicked>>

\* Mutant: the balancer does not end with its last server.
OnRemoveServerNoEnd(r) ==
    LET b == joined[r]
    IN  /\ stage[r] = "untrack"
        /\ OnRemove(b, r)
        /\ poolMu' = [poolMu EXCEPT ![b] = "free"]
        /\ stage' = [stage EXCEPT ![r] = "finish"]
        /\ UNCHANGED <<mode, linked, made, creator, joined, members, nConn, ended, good, turns, req>>

\* impl.OnRemoveServer, and the end of the balancer when no server is left.
OnRemoveServer(r) ==
    LET b == joined[r]
    IN  /\ stage[r] = "untrack"
        /\ OnRemove(b, r)
        /\ ended' = IF members[b] = <<>> THEN ended \cup {b} ELSE ended
        /\ poolMu' = [poolMu EXCEPT ![b] = "free"]
        /\ stage' = [stage EXCEPT ![r] = "finish"]
        /\ UNCHANGED <<mode, linked, made, creator, joined, members, nConn, good, turns, req>>

\* Mutant: every route removes the link when it finishes.
FinishedAll(r) ==
    /\ stage[r] = "finish"
    /\ stage' = [stage EXCEPT ![r] = "gone"]
    /\ linked' = 0
    /\ UNCHANGED <<mode, made, creator, joined, poolMu, members, tracked, nConn, ended, good, turns, req,
                   panicked>>

\* OnFinished: the route that made the balancer deletes the link.
Finished(r) ==
    /\ stage[r] = "finish"
    /\ stage' = [stage EXCEPT ![r] = "gone"]
    /\ linked' = IF creator[joined[r]] = r THEN 0 ELSE linked
    /\ UNCHANGED <<mode, made, creator, joined, poolMu, members, tracked, nConn, ended, good, turns, req,
                   panicked>>

HealthChanges(r) ==
    /\ turns < MaxHealth /\ turns' = turns + 1
    /\ good' = IF r \in good THEN good \ {r} ELSE good \cup {r}
    /\ UNCHANGED <<mode, lbRouteVars, poolMu, members, tracked, nConn, ended, req, panicked>>

-----------------------------------------------------------------------------
(***************************************************************************)
(* LoadBalancer.ServeHTTP                                                   *)
(***************************************************************************)
reqOnly == <<mode, lbRouteVars, poolMu, members, tracked, ended, good, turns, panicked>>

\* availServers; with none the answer is 503.
Avail(q) ==
    /\ req[q].at = "idle" /\ linked # 0
    /\ LET srvs == Members(linked) \cap good
       IN  req' = [req EXCEPT ![q] = [at |-> IF srvs = {} THEN "503" ELSE "choose", lb |-> linked,
                                      srvs |-> srvs, srv |-> "none"]]
    /\ UNCHANGED <<nConn, reqOnly>>

\* Mutant: a server without a counter ends the search.
LeastOfFirst(b, srvs) ==
    IF srvs \subseteq Tracked(b)
    THEN {s \in srvs : \A t \in srvs : nConn[b][s] <= nConn[b][t]} ELSE {}

\* The servers leastConn.ChooseServer can choose: those with a counter that is least.
LeastOf(b, srvs) ==
    LET counted == srvs \cap Tracked(b)
    IN  {s \in counted : \A t \in counted : nConn[b][s] <= nConn[b][t]}

\* ChooseServer: round robin and a sticky cookie name one of the snapshot, ipHash one
\* of its own pool that is not bad now.
ChooseServer(q) ==
    /\ req[q].at = "choose"
    /\ LET b == req[q].lb
           can == CASE mode = "rr" -> req[q].srvs
                    [] mode = "least" -> LeastOf(b, req[q].srvs)
                    [] mode = "iphash" -> Tracked(b)
       IN  \/ /\ can = {}
              /\ req' = [req EXCEPT ![q].at = "503"]
           \/ \E s \in can :
                 req' = [req EXCEPT ![q].srv = s,
                                    ![q].at = CASE mode = "least" -> "count"
                                                [] mode = "rr" -> "serve"
                                                [] mode = "iphash" -> IF s \in good THEN "serve" ELSE "503"]
    /\ UNCHANGED <<nConn, reqOnly>>

\* Mutant: the counter is not taken back.
DoneKeep(q) ==
    /\ req[q].at = "serve"
    /\ req' = [req EXCEPT ![q].at = "done"]
    /\ UNCHANGED <<nConn, reqOnly>>

\* leastConn.ServeHTTP: the counter is looked up again; it may be gone.
Count(q) ==
    /\ req[q].at = "count"
    /\ IF req[q].srv \in Tracked(req[q].lb)
       THEN /\ nConn' = [nConn EXCEPT ![req[q].lb][req[q].srv] = @ + 1]
            /\ req' = [req EXCEPT ![q].at = "serve"]
       ELSE /\ req' = [req EXCEPT ![q].at = "500"]
            /\ UNCHANGED nConn
    /\ UNCHANGED reqOnly

\* The server has answered, and the counter goes back.
Done(q) ==
    /\ req[q].at = "serve"
    /\ req' = [req EXCEPT ![q].at = "done"]
    /\ nConn' = IF mode = "least" THEN [nConn EXCEPT ![req[q].lb][req[q].srv] = @ - 1] ELSE nConn
    /\ UNCHANGED reqOnly

LBNext ==
    \/ \E r \in LBRoutes : \/ CreateBalancer(r) \/ FindBalancer(r) \/ AddServer(r) \/ OnAddServer(r)
                           \/ RemoveServer(r) \/ OnRemoveServer(r) \/ Finished(r) \/ HealthChanges(r)
    \/ \E q \in LBRequests : Avail(q) \/ ChooseServer(q) \/ Count(q) \/ Done(q)

LBSpec == LBInit /\ [][LBNext]_lbVars

-----------------------------------------------------------------------------
\* What the strategy knows is what is in the pool, whenever nobody holds the lock;
\* ipHash is left out, whose OnRemoveServer does not remove every server.
StrategyAgrees ==
    mode # "iphash" =>
        \A b \in Balancers : poolMu[b] = "free" => Tracked(b) = Members(b)

\* A counter of leastConn counts the requests its server is serving.
ConnCountExact ==
    mode = "least" =>
        \A b \in Balancers : \A s \in LBRoutes :
            nConn[b][s] = Cardinality({q \in LBRequests :
                             req[q].at = "serve" /\ req[q].lb = b /\ req[q].srv = s})

\* A route that runs can be reached by the link as long as the route that made the
\* balancer runs too: nobody else deletes the link, and a balancer is not left with
\* a link to it that another one has taken over.
LinkReaches ==
    \A r \in LBRoutes :
        (stage[r] = "running" /\ stage[creator[joined[r]]] = "running")
        => linked = joined[r] /\ members[joined[r]][HostOf[r]] = r

\* leastConn finds no server to choose from only when none of those that were good when
\* the request came is running any more, although it looks at the counters without the
\* lock of the pool.
UnavailableIsTrue ==
    \A q \in LBRequests :
        (req[q].at = "choose" /\ mode = "least" /\ LeastOf(req[q].lb, req[q].srvs) = {})
        => \A s \in req[q].srvs : stage[s] # "running"

\* When the last route is gone, so are the link and the tasks of all balancers.
NoBalancerLeft ==
    (\A r \in LBRoutes : stage[r] = "gone") => linked = 0 /\ ended = 1..made
=============================================================================
