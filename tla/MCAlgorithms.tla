---------------------------- MODULE MCAlgorithms ----------------------------
(***************************************************************************)
(* The pure algorithms over bounded inputs: a step takes one input and      *)
(* computes what the code makes of it.                                      *)
(***************************************************************************)
EXTENDS Algorithms, DockerLabels, RuleSyntax, LogRotate, Aggregate, Serialization, TLC

algVars == <<part, in, out, labVars>>

-----------------------------------------------------------------------------
MCNormal == [n \in {"", "app", " App", "db", "app-old", "web"} |-> IF n = " App" THEN "app" ELSE n]
MCImagePort == [i \in {"nginx", "postgres"} |->
                  IF i = "nginx" THEN [scheme |-> "http", port |-> 80] ELSE [scheme |-> "tcp", port |-> 5432]]
MCAliasPort == [a \in {"web"} |-> [scheme |-> "https", port |-> 8443]]

P(pub, priv, type) == [pub |-> pub, priv |-> priv, type |-> type]
PortLists == { <<>>, <<P(8080, 80, "tcp")>>, <<P(0, 3000, "tcp"), P(9000, 3001, "tcp")>>,
               <<P(53, 5353, "udp"), P(0, 8443, "tcp")>> }

Containers ==
    { [ name |-> n, id |-> "c1", image |-> im, author |-> "", running |-> run, hostNet |-> hn,
        explicit |-> ex, excluded |-> FALSE, local |-> where = "local", agent |-> where = "agent",
        network |-> "", composed |-> "", nets |-> IF hn THEN <<>> ELSE ("bridge" :> "172.17.0.2"),
        ports |-> IF hn THEN <<>> ELSE ps, exposed |-> IF hn /\ ps # <<>> THEN {ps[1].priv} ELSE {}, dbMount |-> FALSE,
        idle |-> idl, dockerHost |-> "192.168.0.2" ]
      : n \in {"app", "buildx_1"}, im \in {"nginx", "other", "postgres"}, run \in BOOLEAN, hn \in BOOLEAN,
        ex \in BOOLEAN, where \in {"local", "agent", "remote"}, ps \in PortLists, idl \in {"none", "valid"} }

MCRouteInputs == [c : Containers, alias : {" App", "web"}, port : {0, 80, 8080}]

\* Routes that are written in a file.
MCFileRoutes ==
    { [ NewRoute(a, p, NoContainer) EXCEPT !.scheme = s, !.host = h, !.lport = lp, !.link = l,
            !.healthcheck = hc, !.ruleFile = rf, !.agentName = an, !.proxmox = px ]
      : a \in {" App", "app-old", "web"}, p \in {0, 80, 8443}, s \in {"none", "http", "tcp", "fileserver"},
        h \in {"", "app"}, lp \in {0, 53}, l \in {"", "link"}, hc \in {"nil", "disable"},
        rf \in {"none", "ok", "bad"}, an \in {"", "agent", "unknown"}, px \in {"no", "ok", "unreachable"} }

\* Routes of one alias from several providers, or two of them with a link.
PoolInputs ==
    { {[NewRoute("app", 80, NoContainer) EXCEPT !.provider = p, !.rules = ru, !.link = l,
           !.cont = IF p = "docker" THEN [name |-> "app", id |-> "c1", excluded |-> FALSE, explicit |-> TRUE,
                                          blacklisted |-> FALSE] ELSE NoContainer] : p \in ps}
      : ps \in SUBSET {"docker", "file", "agent"} \ {{}}, ru \in BOOLEAN, l \in {""} }

MCWeightInputs == UNION {[1..n -> {0, 1, 3, 50, 100}] : n \in 0..3}

\* Labels of a container with the aliases a and b.
LabelKeys == { <<"proxy", "a", "port">>, <<"proxy", "a">>, <<"proxy", "#1", "port">>, <<"proxy", "$2", "host">>,
               <<"proxy", "#3", "host">>, <<"proxy", "*", "port">>, <<"proxy", "*", "host">>, <<"proxy", "*">>,
               <<"proxy", "c", "host">>, <<"other", "a", "port">> }
LabelInputs == { [labels |-> [l \in ls |-> IF Len(l) = 2 /\ yaml THEN Yaml(<<"port">> :> "yaml") ELSE Scalar(l[2])],
                  aliases |-> as]
                 : ls \in {s \in SUBSET LabelKeys : Cardinality(s) <= 3}, as \in {<<"a", "b">>, <<"a">>},
                   yaml \in BOOLEAN }

\* Conditions with quotes, brackets, a backslash, pipes and ands.
Lines(chars, n) == UNION {[1..i -> chars] : i \in 0..n}
LineInputs == Lines({"a", "'", "quote", "\\", "(", ")", "|"}, 5) \cup Lines({"a", " ", "&"}, 6)

\* Templates, by their tokens; a name followed by a letter would be another name.
Tokens == { <<".">>, <<"$", "s">>, <<"$", "$">>, <<"$", "d", "(", "a", ")">>, <<"$", "d", "(", "'", ")", "'", " ", ")">> }
TemplateInputs == Lines(Tokens, 3)
Expansion(t) == CASE t = <<".">> -> <<".">>
                  [] t = <<"$", "s">> -> <<"S">>
                  [] t = <<"$", "$">> -> <<"$">>
                  [] t = <<"$", "d", "(", "a", ")">> -> <<"D", "a">>
                  [] OTHER -> <<"D", ")">>

\* Log files of up to four lines, each of them ended by a newline and not empty.
LogLines == { <<"new">>, <<"old", "b">>, <<"bad">> }
FileOf(ls) == FlattenSeq([i \in DOMAIN ls |-> Append(ls[i], NL)])
Policies == {[kind |-> "last", n |-> n] : n \in 1..2} \cup {[kind |-> "days", n |-> 1]}
LogInputs == {[lines |-> ls, policy |-> p, chunk |-> c] : ls \in Lines(LogLines, 4), p \in Policies, c \in 1..4}

\* Two compose files with four chains between them, each using up to two middlewares.
ChainNames == {"a", "b", "c", "d"}
Uses == {<<"builtin">>, <<"unknown">>} \cup {<<n>> : n \in ChainNames} \cup {<<n, "builtin">> : n \in ChainNames}
MCComposeInputs == {<<[n \in {"a", "b"} |-> f[n]], [n \in {"c", "d"} |-> f[n]]>> : f \in [ChainNames -> Uses]}

\* Hosts of up to three labels, routes named after one label or a whole host, domains of
\* which one is part of another.
HostLabels == {"app", "sub", "com"}
Hosts == Lines(HostLabels, 3) \ {<<>>}
MCLookupInputs == {[host |-> h, routes |-> rs, domains |-> ds] :
                    h \in Hosts, rs \in SUBSET {<<"app">>, <<"app", "sub">>, <<"app", "com">>},
                    ds \in {<<>>, << <<"com">> >>, << <<"com">>, <<"sub", "com">> >>, << <<"sub", "com">>, <<"com">> >>}}
CookieInputs == Hosts \cup {<<"app", "local">>, <<"app", "sub", "internal">>, <<"localhost">>, <<"10", "0", "0", "1">>}

\* Three polls of the routes 1 to 3, and of the collectors.
Polled == {[r \in rs |-> IF r = 1 THEN st ELSE "healthy"] : rs \in SUBSET (1..3), st \in {"unknown", "napping", "error"}}
UptimeInputs == {[entries |-> <<a, b>>, limit |-> l] : a \in Polled, b \in Polled, l \in 1..3}
SystemInputs == {[enabled |-> en, polls |-> <<[c \in Collectors |-> IF c = "sensors" THEN "warning" ELSE o[c]], o>>, mode |-> m] :
                    en \in {Collectors, {"cpu", "disk"}}, o \in [Collectors -> {"ok", "error"}],
                    m \in {"cpu_average", "disk_usage", "sensor_temperature", "unknown"}}

\* Documents of up to three levels, and types with and without tags, in pointers, slices
\* and maps. A struct needs its field ab, the keys a_b and aB name it.
Scalars == {Nil, Str("x"), Str("1,x"), Num(0), Num(1)}
Flat == Scalars \cup {Str(""), Str("1"), Str("- 1"), Str("a: 1")}
Maps(keys, vals) == UNION {{MapOf(f) : f \in [ks -> vals]} : ks \in SUBSET keys}
Level2 == Maps({"a", "a_b", "z"}, Scalars) \cup {SliceOf(xs) : xs \in Lines(Scalars, 2)}
Records == Maps({"a", "aB"}, {Num(1), Str("x")})
Level3 == Maps({"a"}, Level2) \cup {SliceOf(xs) : xs \in Lines(Records \cup {Num(1), Nil}, 2)}
          \cup Maps({"a"}, {SliceOf(xs) : xs \in Lines(Records, 2)} \cup Maps({"a"}, Records))
Tagged == StructT([a |-> IntT, ab |-> StringT], {"ab"})
Untagged == StructT([a |-> IntT, ab |-> StringT], {})
Holders == {StructT([a |-> t], r) : t \in {PtrT(Tagged), SliceT(Tagged), MapT(Tagged), Tagged}, r \in {{}, {"a"}}}
ConvertInputs ==
    [src : Flat \cup Level2 \cup Level3,
     t : {IntT, StringT, SliceT(IntT), MapT(StringT), Tagged, Untagged, PtrT(Tagged), MapT(Tagged), SliceT(PtrT(Untagged))} \cup Holders]

-----------------------------------------------------------------------------
\* The part "algorithms" takes one input of one algorithm; the labels are handled in steps.
AlgInit ==
    /\ out = {}
    /\ \/ part = "algorithms" /\ in = <<>> /\ labels = NoLabels /\ aliases = <<>>
       \/ part = "labels" /\ in \in LabelInputs /\ labels = in.labels /\ aliases = in.aliases
    /\ LabelsStart

Input ==
    \/ part' = "pool" /\ in' \in PoolInputs
    \/ part' = "line" /\ in' \in LineInputs
    \/ part' = "template" /\ in' \in TemplateInputs
    \/ part' = "log" /\ in' \in LogInputs
    \/ part' = "cookie" /\ in' \in CookieInputs
    \/ part' = "uptime" /\ in' \in UptimeInputs
    \/ part' = "convert" /\ in' \in ConvertInputs
    \/ part' = "system" /\ in' \in SystemInputs

\* What the algorithm p may make of the input x.
Result(p, x) ==
    CASE p = "pool" -> {FoldLeft(AddKey, <<>>, order) : order \in SetToSeqs(x)}
      [] p = "line" -> {[whole |-> parse(x), ors |-> parseOn(x), ands |-> splitAnd(x)]}
      [] p = "template" -> {ExpandVars(FlattenSeq(x))}
      [] p = "cookie" -> {cookieDomain(x)}
      [] p = "convert" -> {Convert(x.src, x.t, Zero1(x.t), TRUE)}
      [] p = "uptime" -> {[whole |-> aggregate(x.entries, 0, 0),
                           pages |-> FlattenSeq([k \in 1..3 |-> aggregate(x.entries, x.limit, (k - 1) * x.limit)])]}
      [] p = "system" -> LET kept == SelectSeq([i \in DOMAIN x.polls |-> i], LAMBDA i : getSystemInfo(x.enabled, x.polls[i]) # {})
                             got == [i \in DOMAIN kept |-> CHOOSE d \in getSystemInfo(x.enabled, x.polls[kept[i]]) : TRUE]
                         IN {[kept |-> kept, series |-> aggregateSystem(got, x.mode)]}
      [] p = "log" -> {[scan |-> BackScan(FileOf(x.lines), x.chunk),
                        rotated |-> rotateLogFile(FileOf(x.lines), x.policy, x.chunk)]}

AlgNext ==
    \/ Take /\ UNCHANGED labVars
    \/ part = "algorithms" /\ Input /\ out' = Result(part', in') /\ UNCHANGED labVars
    \/ part = "labels" /\ LabelsNext /\ UNCHANGED <<part, in, out>>

-----------------------------------------------------------------------------
\* Of the routes of one alias the pool keeps one with rules if there is one, and of
\* those one that is not from docker, in whatever order they are added (PreferOver).
PoolPrefers ==
    part = "pool" =>
        \A pool \in out : \A k \in DOMAIN pool :
            LET rivals == {r \in in : Key(r) = k} IN
            /\ (\E r \in rivals : r.rules) => pool[k].rules
            /\ (\E r \in rivals : r.rules = pool[k].rules /\ ~HasContainer(r)) => ~HasContainer(pool[k])

\* A route never leads to a port of GoDoxy itself on this host.
NotOwnPort ==
    part \in {"container", "file"} =>
        \A r \in out : (~r.valErr /\ ~IsAgent(r) /\ r.host \in {"localhost", "127.0.0.1"}
                         /\ r.scheme \in {"http", "https", "tcp"}) => r.pport \notin OwnPorts

\* The aliases a label is for, and whether no two labels are for the same field and
\* no reference is out of range.
Sources(l) == IF l[2] = "*" THEN Range(in.aliases) ELSE {Target(l[2])}
OneSource ==
    /\ \A l \in DOMAIN in.labels : Len(l) = 3 /\ (l[2] = "*" \/ ~IsRef(Target(l[2])))
    /\ \A l, m \in DOMAIN in.labels :
          (l # m /\ l[1] = "proxy" /\ m[1] = "proxy" /\ l[3] = m[3]) => Sources(l) \cap Sources(m) = {}

\* When no field of an alias is given twice, by its name, by a reference or by a
\* wildcard, every label reaches the routes it is for in whatever order Go ranges over
\* the maps (ExpandWildcard, ParseLabels, routesFromContainerLabels).
LabelsReach ==
    (part = "labels" /\ labAt = "done" /\ OneSource) =>
        \A l \in DOMAIN in.labels : l[1] = "proxy" =>
            \A a \in Sources(l) : /\ a \in DOMAIN routes /\ <<l[3]>> \in DOMAIN routes[a]
                                   /\ routes[a][<<l[3]>>] = in.labels[l]

\* A wildcard label overrides the label an alias has of its own.
WildcardOverrides ==
    (/\ part = "labels" /\ labAt = "done"
     /\ {<<"proxy", "a", "port">>, <<"proxy", "*", "port">>} = DOMAIN in.labels)
        => routes["a"][<<"port">>] = in.labels[<<"proxy", "*", "port">>]

\* splitPipe and parse agree on what is quoted: when a condition can be parsed as a
\* whole, so can each of the alternatives it is split into.
PipesRespectQuotes ==
    part = "line" => \A o \in out : o.whole.err = "none" => \A i \in DOMAIN o.ors : o.ors[i].err = "none"

\* splitAnd gives the segments between the separators that are not blank, trimmed and
\* in order: nothing else is lost.
AndsExact ==
    part = "line" =>
        \A o \in out :
            LET notAnd(c) == c \notin {"&", " "}
                text == FlattenSeq(o.ands)
                bounds == {0, Len(in) + 1} \cup {i \in DOMAIN in : in[i] = "&"}
                segments == {Trim(SubSeq(in, b + 1, e - 1)) : b \in bounds, e \in bounds}
            IN  /\ SelectSeq(text, notAnd) = SelectSeq(in, notAnd)
                /\ Range(o.ands) = {s \in segments : s # <<>> /\ "&" \notin Range(s)}

\* A template expands to the expansions of its parts one after another (ExpandVars).
ExpandExact ==
    part = "template" =>
        \A o \in out : ~o.err /\ o.out = FlattenSeq([i \in DOMAIN in |-> Expansion(in[i])])

\* A cookie is set for the host alone or for a domain the host belongs to; a browser
\* takes no other.
CookieCoversHost == part = "cookie" => \A o \in out : o = <<>> \/ (IsSuffix(o, in) /\ o # in)

\* utils.go:47: "example.com" -> "" (same domain only).
ApexIsHostOnly == part = "cookie" => \A o \in out : Len(in) = 2 /\ Last(in) = "com" => o = <<>>

\* Whatever the size of the chunks, the file is read backwards line by line.
BackScanExact == part = "log" => \A o \in out : o.scan = Reverse(in.lines)

\* Rotation moves the kept lines within the file they are read from and nothing is cut
\* or mixed up: the new file holds the lines with a time from some point on, among them
\* every line the policy keeps.
RotateExact ==
    part = "log" =>
        \A o \in out :
            LET timed == SelectSeq(in.lines, HasTime)
                from(k) == SubSeq(timed, k, Len(timed))
                old == {k \in DOMAIN timed : timed[k][1] = "old"}
            IN  \E k \in 1..(Len(timed) + 1) :
                    /\ o.rotated = FileOf(from(k))
                    /\ in.policy.kind = "last" => k <= 1 \/ Len(from(k)) >= in.policy.n
                    /\ in.policy.kind = "days" => \A j \in old : j < k
                    /\ in.policy.kind = "days" => k = 1 \/ k - 1 \in old

\* The pages of the uptime of the routes, asked for one after the other, show every
\* route of the period once and in order, whatever the size of a page
\* (CalculateBeginEnd, aggregate).
PagesPartition == part = "uptime" => \A o \in out : o.pages = o.whole

\* A series of the system information only has rows of polls in which no enabled
\* collector failed: a partly collected result never gets into a period
\* (getSystemInfo, aggregate).
SeriesHonest ==
    part = "system" =>
        \A o \in out : \A i \in DOMAIN o.series.rows : \A c \in in.enabled :
            in.polls[o.kept[o.series.rows[i]]][c] # "error"

\* A configuration value that is converted without an error has no struct that breaks its
\* own required tags, at any depth, except in a slice of a struct that has tags itself
\* (mapUnmarshalValidate decides at each level who validates).
TagsChecked == part = "convert" => \A o \in out : ~o.err => Unchecked(in.t, o.val, FALSE) = {}

\* Nothing of a document is dropped in silence: without an error every scalar of it that is
\* not zero is in the value (Convert, ConvertString, mapUnmarshalValidate).
NothingDropped == part = "convert" => \A o \in out : (~o.err /\ in.t # StringT) => LeavesOf(o.val) >= Leaves(in.src)

\* "shrink to number of elements that were successfully converted": the slice holds the
\* elements that could be converted, each as it is in the document.
SliceKeepsConverted ==
    (part = "convert" /\ in.t.t = "slice" /\ in.src.k = "slice") =>
        \A o \in out :
            LET one == [i \in DOMAIN in.src.xs |-> Convert(in.src.xs[i], in.t.elem, Zero1(in.t.elem), TRUE)]
                good == SelectSeq(one, LAMBDA r : ~r.err)
            IN o.val.xs = [i \in DOMAIN good |-> good[i].val]
=============================================================================
