------------------------------ MODULE MCServing ------------------------------
(***************************************************************************)
(* Small instances of what a request meets (the load balancer, the rules    *)
(* and the middlewares of its route) and of what is measured, checked and   *)
(* updated beside it (health monitors, metrics, the country database), with *)
(* the algorithms of MCAlgorithms. They share no state: `part' is chosen at *)
(* the start and only that part moves.                                      *)
(***************************************************************************)
EXTENDS MCAlgorithms, LoadBalance, Rules, Middleware, Metrics, MaxMind, Health

MCHostOf == [r \in LBRoutes |-> r]

-----------------------------------------------------------------------------
Cmd(op, f) == [op |-> op, field |-> f]
On(on, neg) == [on |-> on, neg |-> neg]

RuleOns ==
    { <<>>, << <<On("query", FALSE)>>, <<On("cookie", TRUE)>> >>,
      << <<On("header", FALSE), On("basic_auth", FALSE)>> >>,
      << <<On("status", FALSE), On("resp_header", TRUE)>> >>,
      << <<On("method", TRUE), On("form", FALSE)>>, <<On("postform", FALSE), On("path", TRUE)>> >> }
RuleDos ==
    { <<Cmd("pass", "")>>, <<Cmd("set", "header"), Cmd("pass", "")>>, <<Cmd("set", "query"), Cmd("add", "cookie")>>,
      <<Cmd("remove", "query"), Cmd("remove", "cookie")>>, <<Cmd("error", "")>>, <<Cmd("rewrite", ""), Cmd("log", "")>>,
      <<Cmd("require_auth", ""), Cmd("set", "status")>>, <<Cmd("set", "resp_body"), Cmd("proxy", "")>>,
      <<Cmd("add", "status")>>, <<Cmd("error", ""), Cmd("log", "")>>, <<>>, <<Cmd("set", "body"), Cmd("rewrite", "")>> }
SomeRules ==
    {[name |-> "default", on |-> <<>>, do |-> do] : do \in RuleDos}
        \cup {[name |-> "r", on |-> on, do |-> do] : on \in RuleOns, do \in RuleDos}
MCRuleLists == {<<>>} \cup {<<a>> : a \in SomeRules} \cup {<<a, b>> : a, b \in SomeRules}
MCRuleReqs ==
    {[query |-> q, cookies |-> c, header |-> <<>>, auth |-> FALSE, fixed |-> {"method"}, posted |-> q = <<>>]
        : q \in {<<>>, <<"v">>}, c \in {<<>>, <<"v", "w">>}}

-----------------------------------------------------------------------------
Mid(kind, p) == [id |-> kind, kind |-> kind, priority |-> p, bypass |-> {}, recursive |-> FALSE]
Mids ==
    {Mid(k, Unset) : k \in {"real_ip", "rate_limit", "set_x_forwarded", "redirect_http", "forward_auth",
                            "hcaptcha", "oidc", "error_page"}}
        \cup {[Mid("cidr_whitelist", 5) EXCEPT !.bypass = {"app"}], Mid("modify_request", 20),
              [Mid("modify_html", 5) EXCEPT !.bypass = {"prefixed"}],
              [Mid("real_ip", 0) EXCEPT !.id = "real_ip2", !.recursive = TRUE], Mid("cloudflare", 0)}

\* Any two middlewares on the route a; another instance of the Cloudflare one on b.
MCMConfigs ==
    {("a" :> ms) @@ ("b" :> {[Mid("cloudflare", 0) EXCEPT !.id = "cloudflare2"]})
        : ms \in {x \in SUBSET Mids : Cardinality(x) <= 2}}
Asks(route, ip, real, path, tls, accept, post, cookie, token) ==
    [route |-> route, ip |-> ip, real |-> real, path |-> path, tls |-> tls, accept |-> accept, post |-> post,
     cookie |-> cookie, token |-> token]
MCMInputs ==
    { Asks("a", "client", <<"other">>, "app", TRUE, "html", FALSE, "q1", "valid"),
      Asks("a", "proxy", <<"client", "proxy">>, "app", FALSE, "html", TRUE, "", "none"),
      Asks("a", "client", <<>>, "logout", TRUE, "json", FALSE, "q1", "other"),
      Asks("a", "proxy", <<>>, "error_file", FALSE, "html", FALSE, "", "other"),
      Asks("b", "proxy", <<"client">>, "app", TRUE, "html", FALSE, "", "none") }

-----------------------------------------------------------------------------
MCDuration == [a |-> 3, b |-> 6]
MCHRetries == {-1, 0, 1, 3}

serving == <<lbVars, ruleVars, mwVars, metricsVars, mmVars, hVars>>

\* Only the part that moves has a choice of initial states.
Pinned(p, choice) == part # p => choice
NoInput == out = {} /\ in = <<>> /\ labels = NoLabels /\ aliases = <<>> /\ LabelsStart

MCInit ==
    /\ \/ AlgInit
       \/ part \in {"balance", "rules", "middleware", "metrics", "maxmind", "health"} /\ NoInput
    /\ Pinned("balance", mode = "rr")
    /\ Pinned("rules", rules = <<>>)
    /\ Pinned("middleware", mchain = ("a" :> <<>>) @@ ("b" :> <<[Mid("cloudflare", 0) EXCEPT !.id = "cloudflare2"]>>))
    /\ Pinned("maxmind", dbFile = [db |-> 1, mtime |-> 1])
    /\ Pinned("health", hKind = "file" /\ hRetries = 0)
    /\ LBInit /\ MetricsInit /\ MMInit /\ HInit /\ MInit /\ RuleInit
    /\ Pinned("rules", rs.query = <<>> /\ rs.cookies = <<>>)

MCNext ==
    \/ part = "balance" /\ LBNext /\ UNCHANGED <<algVars, ruleVars, mwVars, metricsVars, mmVars, hVars>>
    \/ part = "rules" /\ RuleNext /\ UNCHANGED <<algVars, lbVars, mwVars, metricsVars, mmVars, hVars>>
    \/ part = "middleware" /\ MNext /\ UNCHANGED <<algVars, lbVars, ruleVars, metricsVars, mmVars, hVars>>
    \/ part = "metrics" /\ MetricsNext /\ UNCHANGED <<algVars, lbVars, ruleVars, mwVars, mmVars, hVars>>
    \/ part = "maxmind" /\ MMNext /\ UNCHANGED <<algVars, lbVars, ruleVars, mwVars, metricsVars, hVars>>
    \/ part = "health" /\ HNext /\ UNCHANGED <<algVars, lbVars, ruleVars, mwVars, metricsVars, mmVars>>
    \/ AlgNext /\ UNCHANGED serving

MCSpec == MCInit /\ [][MCNext]_<<algVars, serving>>
=============================================================================
