-------------------------------- MODULE Rules --------------------------------
(***************************************************************************)
(* The rules of a route (internal/route/rules): how a list of rules is      *)
(* turned into a handler (Rules.BuildHandler) and what one request goes     *)
(* through in it: the commands and checks, the response that is held back   *)
(* by the ResponseModifier, and the values of the request that are kept     *)
(* parsed in its Cache.                                                     *)
(*                                                                          *)
(* A check is [on, neg], a line of checks is satisfied by one of them, all  *)
(* lines must be.  A command is [op, field].  There is one query key and    *)
(* one cookie name.  Values of templates, matchers and texts are left out;  *)
(* a template, a proxy without an upstream or a log file may fail.          *)
(***************************************************************************)
EXTENDS Naturals, Sequences, FiniteSets

CONSTANTS
    RuleLists,  \* lists of rules: [name, on, do]
    RuleReqs    \* requests: [query, cookies, header, auth, fixed, posted]

\* The directives of do.go with the fields they can be parsed with.
ModFields == {"header", "resp_header", "query", "cookie", "body", "resp_body", "status"}
OtherOps == {"pass", "serve", "redirect", "error", "require_basic_auth", "proxy", "require_auth", "rewrite", "log",
             "notify"}
RuleCommands == [op : {"set", "add", "remove"}, field : ModFields] \cup [op : OtherOps, field : {""}]
RuleChecks == [on : STRING, neg : BOOLEAN]

ASSUME RulesAssumption ==
    /\ RuleLists \subseteq Seq([name : STRING, on : Seq(Seq(RuleChecks)), do : Seq(RuleCommands)])
    /\ RuleReqs \subseteq [query : Seq(STRING), cookies : Seq(STRING), header : Seq(STRING), auth : BOOLEAN,
                            fixed : SUBSET STRING, posted : BOOLEAN]

VARIABLES
    rules,       \* the rules of the route
    rAt,         \* where the request is in the handler
    rTodo,       \* places of the preRules or postRules still to be looked at
    should,      \* shouldCallUpstream
    preMatched,  \* a rule of preRules matched
    rs,          \* the request, the cache and the response
    ran,         \* the commands that were run, and where
    upCalls,     \* calls of the upstream handler
    stopped      \* a rule has ended the request before the upstream was called

ruleVars == <<rules, rAt, rTodo, should, preMatched, rs, ran, upCalls, stopped>>

-----------------------------------------------------------------------------
(***************************************************************************)
(* Commands                                                                 *)
(***************************************************************************)
\* OnResponseCommand: log, notify and set resp_body.
IsOnResponse(c) == c.op \in {"log", "notify"} \/ c.field = "resp_body"
IsTerminating(c) == c.op \in {"serve", "redirect", "error", "require_basic_auth", "proxy"}
IsBypassCommand(c) == c.op = "pass"

\* buildCmd: only the last command may return.
buildCmd(cmds) ==
    \A i \in 1..(Len(cmds) - 1) : ~IsTerminating(cmds[i]) /\ ~IsBypassCommand(cmds[i])

\* validateModField: which fields can be set, added to and removed.
validateModField(c) ==
    \/ c.op = "set"
    \/ c.op \in {"add", "remove"} /\ c.field \in {"header", "resp_header", "query", "cookie"}

\* Command.Parse
ParseDo(cmds) ==
    /\ \A i \in DOMAIN cmds : cmds[i].op \in {"set", "add", "remove"} => validateModField(cmds[i])
    /\ buildCmd(cmds)

\* Mutant: only the first command is looked at.
IsResponseHandlerFirst(cmds) == cmds # <<>> /\ IsOnResponse(cmds[1])

IsResponseHandler(cmds) == \E i \in DOMAIN cmds : IsOnResponse(cmds[i])

\* isTerminatingHandler and isBypass look at the last command.
isTerminatingHandler(cmds) == cmds # <<>> /\ IsTerminating(cmds[Len(cmds)])
isBypass(cmds) == cmds # <<>> /\ IsBypassCommand(cmds[Len(cmds)])

IsResponseChecker(on) == \E i \in DOMAIN on : \E j \in DOMAIN on[i] : on[i][j].on \in {"resp_header", "status"}
IsResponseRule(rule) == IsResponseChecker(rule.on) \/ IsResponseHandler(rule.do)

-----------------------------------------------------------------------------
(***************************************************************************)
(* The cache of a request.  An entry is [set, v].                           *)
(***************************************************************************)
NoEntry == [set |-> FALSE, v |-> <<>>]
Cached(v) == [set |-> TRUE, v |-> v]

GetQueries(s) == IF s.cq.set THEN s ELSE [s EXCEPT !.cq = Cached(s.query)]
GetCookies(s) == IF s.cc.set THEN s ELSE [s EXCEPT !.cc = Cached(s.cookies)]

\* The second time the entry is there, holds nil and is asserted to be a *Credentials:
\* the program panics.
GetBasicAuth(s) ==
    IF s.auth THEN s
    ELSE IF s.ca.set THEN [s EXCEPT !.panic = TRUE] ELSE [s EXCEPT !.ca = Cached(<<>>)]

\* Mutant: the request is not encoded again.
UpdateQueriesCacheOnly(s, v) == [s EXCEPT !.cq = Cached(v)]

\* The cached values are changed, and the request is encoded from them.
UpdateQueries(s, v) == [s EXCEPT !.cq = Cached(v), !.query = v]
UpdateCookies(s, v) == [s EXCEPT !.cc = Cached(v), !.cookies = v]

-----------------------------------------------------------------------------
(***************************************************************************)
(* Checks.  Evaluating one may fill the cache.                              *)
(***************************************************************************)
\* FormValue and PostFormValue parse the request the first time: the body of a form is
\* read, and does not reach the upstream.  FormValue also looks at the query.
ParseForm(s) ==
    IF s.parsed THEN s
    ELSE [s EXCEPT !.parsed = TRUE, !.reqBody = IF s.posted THEN "read" ELSE @,
                   !.forms = (IF s.posted /\ s.reqBody = "client" THEN {"form", "postform"} ELSE {})
                             \cup (IF s.query # <<>> THEN {"form"} ELSE {})]

StatusHolds(s) == s.status >= 400
BasicAuthHolds(s) == s.auth
PathHolds(s) == s.path = "asked"

\* Method, host, remote address and route stay what they are while the rules are run.
FixedHolds(c, s) == c.on \in s.fixed

Evaluate(c, s) ==
    LET t == CASE c.on = "query" -> GetQueries(s)
               [] c.on = "cookie" -> GetCookies(s)
               [] c.on = "basic_auth" -> GetBasicAuth(s)
               [] c.on \in {"form", "postform"} -> ParseForm(s)
               [] OTHER -> s
        holds == CASE c.on = "query" -> t.cq.v # <<>>
                   [] c.on = "cookie" -> t.cc.v # <<>>
                   [] c.on = "header" -> t.header # <<>>
                   [] c.on = "resp_header" -> t.rheader # <<>>
                   [] c.on \in {"form", "postform"} -> c.on \in t.forms
                   [] c.on = "basic_auth" -> BasicAuthHolds(t)
                   [] c.on = "status" -> StatusHolds(t)
                   [] c.on = "path" -> PathHolds(t)
                   [] OTHER -> FixedHolds(c, t)
    IN  [s |-> t, ok |-> holds # c.neg]

\* CheckMatchSingle ends with the first check that holds, CheckMatchAll with the first
\* line that does not.
NextCheck(c, acc) == IF acc.ok \/ acc.s.panic THEN acc ELSE Evaluate(c, acc.s)
CheckLine(line, s) ==
    LET after[i \in 0..Len(line)] ==
            IF i = 0 THEN [s |-> s, ok |-> FALSE] ELSE NextCheck(line[i], after[i - 1])
    IN  after[Len(line)]

NextLine(l, acc) == IF acc.ok /\ ~acc.s.panic THEN CheckLine(l, acc.s) ELSE acc
Check(rule, s) ==
    LET after[i \in 0..Len(rule.on)] ==
            IF i = 0 THEN [s |-> s, ok |-> TRUE] ELSE NextLine(rule.on[i], after[i - 1])
    IN  after[Len(rule.on)]

-----------------------------------------------------------------------------
(***************************************************************************)
(* Running a command: the state after it and "none", "term" (errTerminated) *)
(* or "fail".                                                               *)
(***************************************************************************)
Out(s, e) == [s |-> s, err |-> e]
\* Headers and queries: all values are replaced or removed.
Modified(op, old) ==
    CASE op = "set" -> <<"set">> [] op = "add" -> Append(old, "added") [] op = "remove" -> <<>>

\* Of several cookies with the name only the first is set or removed.
ModifiedCookie(op, old) ==
    CASE op = "set" -> <<"set">> \o (IF old = <<>> THEN <<>> ELSE Tail(old))
      [] op = "add" -> Append(old, "added")
      [] op = "remove" -> IF old = <<>> THEN <<>> ELSE Tail(old)

ModQuery(op, s) == LET g == GetQueries(s) IN UpdateQueries(g, Modified(op, g.cq.v))

ModField(c, s) ==
    CASE c.field = "header" -> [s EXCEPT !.header = Modified(c.op, @)]
      [] c.field = "resp_header" -> [s EXCEPT !.rheader = Modified(c.op, @)]
      [] c.field = "query" -> ModQuery(c.op, s)
      [] c.field = "cookie" -> LET g == GetCookies(s) IN UpdateCookies(g, ModifiedCookie(c.op, g.cc.v))
      [] c.field = "body" -> [s EXCEPT !.reqBody = "rule"]
      [] c.field = "resp_body" -> [s EXCEPT !.body = <<"rule">>]
      [] c.field = "status" -> [s EXCEPT !.status = 418]

Write(s, text) == [s EXCEPT !.body = Append(@, text)]

\* The error command empties the body first.
RunTerminating(c, s) ==
    CASE c.op = "error" -> {Out([s EXCEPT !.status = 403, !.body = <<"error">>], "term")}
      [] c.op = "redirect" -> {Out(Write([s EXCEPT !.status = 307], "redirect"), "term")}
      [] c.op = "serve" -> {Out(Write([s EXCEPT !.status = n], "file"), "term") : n \in {200, 404}}
      [] c.op = "require_basic_auth" -> {Out(Write([s EXCEPT !.status = 401], "unauthorized"), "term")}
      [] c.op = "proxy" -> {Out(Write([s EXCEPT !.status = 200], "proxied"), "term"), Out(s, "fail")}

\* log and notify: a template or the file may fail.
RunOnResponse(s) == {Out(s, "none"), Out(s, "fail")}

RunModify(c, s) == {Out(ModField(c, s), "none")}

RunCommand(c, s) ==
    IF IsTerminating(c) THEN RunTerminating(c, s)
    ELSE CASE c.op = "pass" -> {Out(s, "term")}
           [] c.op = "require_auth" -> {Out(s, "none"), Out(Write([s EXCEPT !.status = 403], "login"), "term")}
           [] c.op = "rewrite" -> {Out([s EXCEPT !.path = "rewritten"], "none")}
           [] c.op \in {"log", "notify"} -> RunOnResponse(s)
           [] c.op \in {"set", "add", "remove"} -> RunModify(c, s)

\* Commands.Handle; a command that is not there (exec is nil) panics.
NextCommand(c, outs) ==
    UNION {IF o.err = "none"
           THEN {Out([p.s EXCEPT !.done = Append(@, c)], p.err) : p \in RunCommand(c, o.s)} ELSE {o} : o \in outs}
HandleRule(rule, s) ==
    LET outs[i \in 0..Len(rule.do)] ==
            IF i = 0 THEN {Out([s EXCEPT !.done = <<>>], "none")} ELSE NextCommand(rule.do[i], outs[i - 1])
    IN  IF rule.do = <<>> THEN {Out([s EXCEPT !.done = <<>>, !.panic = TRUE], "fail")} ELSE outs[Len(rule.do)]

-----------------------------------------------------------------------------
(***************************************************************************)
(* BuildHandler                                                             *)
(***************************************************************************)
IsDefault(rule) == rule.name = "default"
IsOther(rule) == ~IsDefault(rule)
IsPre(rule) == IsOther(rule) /\ ~IsResponseRule(rule)
IsPost(rule) == IsOther(rule) /\ IsResponseRule(rule)

\* The last rule of that name; pass when there is none.
HasDefault == \E i \in DOMAIN rules : IsDefault(rules[i])
LastDefault ==
    CHOOSE i \in DOMAIN rules : IsDefault(rules[i]) /\ \A j \in DOMAIN rules : IsDefault(rules[j]) => j <= i
DefaultRule ==
    IF HasDefault THEN rules[LastDefault]
    ELSE [name |-> "default", on |-> <<>>, do |-> <<[op |-> "pass", field |-> ""]>>]

\* preRules and postRules, by their places in the list.
PreRules == {i \in DOMAIN rules : IsPre(rules[i])}
PostRules == {i \in DOMAIN rules : IsPost(rules[i])}
First(places) == CHOOSE i \in places : \A j \in places : i <= j
NoOthers == \A i \in DOMAIN rules : IsDefault(rules[i])
DefaultPost == HasDefault /\ IsResponseRule(DefaultRule)

RuleInit ==
    /\ rules \in RuleLists
    /\ \E q \in RuleReqs :
          rs = [query |-> q.query, cookies |-> q.cookies, header |-> q.header, auth |-> q.auth, path |-> "asked",
                fixed |-> q.fixed, posted |-> q.posted, parsed |-> FALSE, forms |-> {}, reqBody |-> "client",
                cq |-> NoEntry, cc |-> NoEntry, ca |-> NoEntry, status |-> 0, body |-> <<>>, rheader |-> <<>>, done |-> <<>>, panic |-> FALSE]
    /\ rAt = "parse" /\ rTodo = {} /\ should = TRUE /\ preMatched = FALSE
    /\ ran = <<>> /\ upCalls = 0 /\ stopped = FALSE

\* The rules are parsed; without rules, or with a default rule that only passes, the
\* handler is the upstream itself.
BuildHandler ==
    /\ rAt = "parse"
    /\ rAt' = IF \E i \in DOMAIN rules : ~ParseDo(rules[i].do) THEN "invalid"
              ELSE IF rules = <<>> \/ (NoOthers /\ isBypass(DefaultRule.do)) THEN "direct"
              ELSE IF NoOthers /\ IsResponseRule(DefaultRule) THEN "upstream"
              ELSE IF NoOthers THEN "only" ELSE "default"
    /\ UNCHANGED <<rules, rTodo, should, preMatched, rs, ran, upCalls, stopped>>

\* A rule is run: its commands are recorded, and a panic ends the request.
Ran(o, where, next) ==
    /\ rs' = o.s
    /\ ran' = Append(ran, [at |-> where, ops |-> o.s.done, err |-> o.err])
    /\ rAt' = IF o.s.panic THEN "panic" ELSE next

\* Mutant: a rule that ends the request lets the upstream answer too.
GoesOnAlways(err) == TRUE

\* The upstream is called only when the rules so far have returned no error.
GoesOn(err) == err = "none"

\* A default rule that is not the only one, does not return and is no response rule
\* comes before the others.
DefaultFirst ==
    /\ rAt = "default"
    /\ IF HasDefault /\ ~DefaultPost /\ ~isTerminatingHandler(DefaultRule.do) /\ ~isBypass(DefaultRule.do)
       THEN \E o \in HandleRule(DefaultRule, rs) :
               /\ Ran(o, "pre", "pre")
               /\ should' = GoesOn(o.err) /\ stopped' = (o.err # "none")
       ELSE rAt' = "pre" /\ UNCHANGED <<should, rs, ran, stopped>>
    /\ rTodo' = PreRules
    /\ UNCHANGED <<rules, preMatched, upCalls>>

\* Mutant: a rule that passes skips the response rules too.
AfterBypassDone == "done"

\* "post rules should still execute"
AfterBypass == "last"

\* The next rule of preRules; the loop is left after the first that passes or fails.
PreRule ==
    /\ rAt = "pre" /\ should /\ rTodo # {}
    /\ rTodo' = rTodo \ {First(rTodo)}
    /\ LET rule == rules[First(rTodo)]
           c == Check(rule, rs)
       IN  IF c.s.panic THEN rAt' = "panic" /\ rs' = c.s /\ UNCHANGED <<should, preMatched, ran, stopped>>
           ELSE IF ~c.ok THEN rs' = c.s /\ UNCHANGED <<rAt, should, preMatched, ran, stopped>>
           ELSE /\ preMatched' = TRUE
                /\ IF isBypass(rule.do)
                   THEN rAt' = AfterBypass /\ rs' = c.s /\ UNCHANGED <<should, ran, stopped>>
                   ELSE \E o \in HandleRule(rule, c.s) :
                           /\ Ran(o, "pre", IF o.err = "none" THEN "pre" ELSE "last")
                           /\ should' = GoesOn(o.err) /\ stopped' = (o.err # "none")
    /\ UNCHANGED <<rules, upCalls>>

PreDone ==
    /\ rAt = "pre" /\ (~should \/ rTodo = {})
    /\ rAt' = "last"
    /\ UNCHANGED <<rules, rTodo, should, preMatched, rs, ran, upCalls, stopped>>

\* A default rule that returns comes when no other has matched; when it fails, the
\* response rules are skipped.
DefaultLast ==
    /\ rAt = "last"
    /\ IF HasDefault /\ ~DefaultPost /\ isTerminatingHandler(DefaultRule.do) /\ should /\ ~preMatched
       THEN \E o \in HandleRule(DefaultRule, rs) :
               /\ Ran(o, "pre", IF o.err = "fail" THEN "done" ELSE "upstream")
               /\ should' = GoesOn(o.err) /\ stopped' = (o.err # "none")
       ELSE rAt' = "upstream" /\ UNCHANGED <<should, rs, ran, stopped>>
    /\ UNCHANGED <<rules, rTodo, preMatched, upCalls>>

\* The handler of a lone default rule that is no response rule.
DefaultOnly ==
    /\ rAt = "only"
    /\ \E o \in HandleRule(DefaultRule, rs) :
          /\ Ran(o, "pre", "upstream")
          /\ should' = GoesOn(o.err) /\ stopped' = (o.err # "none")
    /\ UNCHANGED <<rules, rTodo, preMatched, upCalls>>

\* The upstream answers with any status, with or without the header.
CallUpstream ==
    /\ rAt = "upstream"
    /\ IF should
       THEN /\ upCalls' = upCalls + 1
            /\ \E status \in {200, 502} : \E h \in {<<>>, <<"up">>} :
                  rs' = Write([rs EXCEPT !.status = status, !.rheader = @ \o h], "upstream")
       ELSE UNCHANGED <<upCalls, rs>>
    /\ rTodo' = PostRules /\ rAt' = "post"
    /\ UNCHANGED <<rules, should, preMatched, ran, stopped>>

PostRule ==
    /\ rAt = "post" /\ rTodo # {}
    /\ rTodo' = rTodo \ {First(rTodo)}
    /\ LET rule == rules[First(rTodo)]
           c == Check(rule, rs)
       IN  IF c.s.panic THEN rAt' = "panic" /\ rs' = c.s /\ UNCHANGED ran
           ELSE IF ~c.ok THEN rs' = c.s /\ UNCHANGED <<rAt, ran>>
           ELSE \E o \in HandleRule(rule, c.s) : Ran(o, "post", IF o.err = "none" THEN "post" ELSE "done")
    /\ UNCHANGED <<rules, should, preMatched, upCalls, stopped>>

PostDone ==
    /\ rAt = "post" /\ rTodo = {}
    /\ IF DefaultPost THEN \E o \in HandleRule(DefaultRule, rs) : Ran(o, "post", "done")
       ELSE rAt' = "done" /\ UNCHANGED <<rs, ran>>
    /\ UNCHANGED <<rules, rTodo, should, preMatched, upCalls, stopped>>

\* FlushRelease: the status is 200 when nobody has set one, and the cache is released.
FlushRelease ==
    /\ rAt = "done"
    /\ rs' = [rs EXCEPT !.status = IF @ = 0 THEN 200 ELSE @, !.cq = NoEntry, !.cc = NoEntry, !.ca = NoEntry]
    /\ rAt' = "flushed"
    /\ UNCHANGED <<rules, rTodo, should, preMatched, ran, upCalls, stopped>>

RuleNext == \/ BuildHandler \/ DefaultFirst \/ PreRule \/ PreDone \/ DefaultLast \/ DefaultOnly
            \/ CallUpstream \/ PostRule \/ PostDone \/ FlushRelease

RuleSpec == RuleInit /\ [][RuleNext]_ruleVars

-----------------------------------------------------------------------------
\* The upstream never sees a request that a rule has answered, refused or failed on.
StoppedNotForwarded == stopped => upCalls = 0

\* Commands that need the response (log, notify, set resp_body) are run after the
\* upstream has answered or was left out for good, whatever other commands their rule
\* has before them.
ResponseCommandsLast ==
    \A i \in DOMAIN ran : ran[i].at = "pre" =>
        \A j \in DOMAIN ran[i].ops : ~IsOnResponse(ran[i].ops[j])

\* The first response rule is run whenever it has no condition, also for requests a
\* bypass rule has let through and for those a rule has answered; only a terminating
\* default rule that fails leaves it out.
ResponseRuleRuns ==
    (/\ rAt = "flushed" /\ PostRules # {} /\ rules[First(PostRules)].on = <<>>
     /\ ~(preMatched = FALSE /\ stopped /\ \E i \in DOMAIN ran : ran[i].err = "fail"))
        => \E i \in DOMAIN ran : ran[i].at = "post" /\ ran[i].ops # <<>>

\* The parsed values in the cache are those of the request, after any commands.
CacheFresh == /\ rs.cq.set => rs.cq.v = rs.query
              /\ rs.cc.set => rs.cc.v = rs.cookies

\* "If r does not have basic auth, nil is returned": a check for it never panics.
BasicAuthAnswers == rAt = "panic" => \E i \in DOMAIN rules : rules[i].do = <<>>

\* "NonTerminatingCommand will run then proceed to next command or reverse proxy": the
\* commands before a pass are run when their rule matches.
CommandsBeforePassRun ==
    (rAt = "flushed" /\ rules[1].on = <<>> /\ IsPre(rules[1]) /\ Len(rules[1].do) > 1 /\ ~HasDefault)
        => \E i \in DOMAIN ran : ran[i].at = "pre" /\ ran[i].ops[1] = rules[1].do[1]
=============================================================================
