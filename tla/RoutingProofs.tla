---------------------------- MODULE RoutingProofs ----------------------------
(***************************************************************************)
(* Proofs about what decides where a request goes and how it is answered:   *)
(* the routes of the containers and files and how a host finds one, the     *)
(* weights of the load balancers and the middleware chains, for inputs of   *)
(* any size, and the rules of a route, for any list of rules and any        *)
(* request.                                                                 *)
(***************************************************************************)
EXTENDS Rules, Algorithms, WellFoundedInduction, TLAPS

(***************************************************************************)
(* What the proofs know of numbers and of loops over a list: induction, the *)
(* lowest and the last of some numbers, that the values of a loop exist,    *)
(* and that they stay in a set its body stays in.                           *)
(***************************************************************************)
\* A set of numbers with 0 and the successors of its elements has them all.
LEMMA SetOfNat ==
    ASSUME NEW S, S \subseteq Nat, 0 \in S, \A n \in S : n + 1 \in S
    PROVE  \A n \in Nat : n \in S
<1> SUFFICES ASSUME NEW m \in Nat, m \notin S PROVE FALSE
  OBVIOUS
<1> DEFINE T == Nat \ S
<1>1. PICK k \in T : \A y \in T : <<y, k>> \notin OpToRel(<, Nat)
  <2>1. T \subseteq Nat /\ T # {}
    OBVIOUS
  <2> HIDE DEF T
  <2> QED BY <2>1, NatLessThanWellFounded, WFMin, Zenon
<1>2. k \in Nat /\ k # 0 /\ k - 1 \in Nat
  OBVIOUS
<1>3. <<k - 1, k>> \in OpToRel(<, Nat)
  BY <1>2 DEF OpToRel
<1>4. k - 1 \in S
  BY <1>1, <1>2, <1>3
<1>5. (k - 1) + 1 \in S
  BY <1>4
<1> QED BY <1>2, <1>5

\* The values of a loop of L rounds from b, whose round n takes x to f[n][x].
Rounds(f, b, L, g) == g[0] = b /\ \A n \in 1..L : g[n] = f[n][g[n - 1]]

\* A loop has its values, in the set its body stays in.
LEMMA LoopRuns ==
    ASSUME NEW T, NEW b \in T, NEW f \in [Nat -> [T -> T]]
    PROVE  \A L \in Nat : \E g \in [0..L -> T] : Rounds(f, b, L, g)
<1> DEFINE S == {L \in Nat : \E g \in [0..L -> T] : Rounds(f, b, L, g)}
<1>1. 0 \in S
  <2> DEFINE g == [n \in 0..0 |-> b]
  <2>1. g \in [0..0 -> T] /\ Rounds(f, b, 0, g)
    BY DEF Rounds
  <2> QED BY <2>1
<1>2. ASSUME NEW L \in S PROVE L + 1 \in S
  <2>1. PICK g \in [0..L -> T] : Rounds(f, b, L, g)
    OBVIOUS
  <2>2. L \in Nat /\ L + 1 \in Nat /\ L \in 0..L /\ 0 \in 0..L /\ 0 \in 0..L + 1
    OBVIOUS
  <2> DEFINE h == [n \in 0..L + 1 |-> IF n = L + 1 THEN f[n][g[L]] ELSE g[n]]
  <2>3. \A n \in 0..L : h[n] = g[n] /\ n \in 0..L + 1
    BY <2>2
  <2>4. h[L + 1] = f[L + 1][g[L]]
    BY <2>2
  <2>5. f[L + 1][g[L]] \in T
    BY <2>1, <2>2
  <2>6. h \in [0..L + 1 -> T]
    BY <2>1, <2>2, <2>5
  <2> HIDE DEF h
  <2>7. ASSUME NEW n \in 1..L + 1 PROVE h[n] = f[n][h[n - 1]]
    <3>1. CASE n = L + 1
      <4>1. n - 1 = L
        BY <2>2, <3>1
      <4> QED BY <2>2, <2>3, <2>4, <3>1, <4>1
    <3>2. CASE n # L + 1
      <4>1. n \in 1..L /\ n \in 0..L /\ n - 1 \in 0..L
        BY <2>2, <3>2
      <4>2. g[n] = f[n][g[n - 1]]
        BY <2>1, <4>1 DEF Rounds
      <4> QED BY <2>3, <4>1, <4>2
    <3> QED BY <3>1, <3>2
  <2>8. Rounds(f, b, L + 1, h)
    BY <2>1, <2>2, <2>3, <2>7 DEF Rounds
  <2> QED BY <2>2, <2>6, <2>8
<1>3. S \subseteq Nat
  OBVIOUS
<1>4. \A n \in Nat : n \in S
  <2> HIDE DEF S
  <2> QED BY <1>1, <1>2, <1>3, SetOfNat, Zenon
<1> QED BY <1>4

\* What starts in a set and is kept in it by every round stays in it.
LEMMA LoopStays ==
    ASSUME NEW T, NEW L \in Nat, NEW g, g[0] \in T, \A n \in 1..L : g[n - 1] \in T => g[n] \in T
    PROVE  \A n \in 0..L : g[n] \in T
<1> DEFINE S == {n \in Nat : n <= L => g[n] \in T}
<1>1. 0 \in S
  OBVIOUS
<1>2. ASSUME NEW n \in S PROVE n + 1 \in S
  <2>1. CASE n + 1 <= L
    <3>1. n + 1 \in 1..L /\ (n + 1) - 1 = n /\ g[n] \in T
      BY <2>1
    <3> QED BY <3>1
  <2> QED BY <2>1
<1>3. S \subseteq Nat
  OBVIOUS
<1>4. \A n \in Nat : n \in S
  <2> HIDE DEF S
  <2> QED BY <1>1, <1>2, <1>3, SetOfNat, Zenon
<1> QED BY <1>4

\* The lowest of some numbers.
Lowest(S) == CHOOSE i \in S : \A j \in S : i <= j

\* A set of numbers that is not empty has a lowest one.
LEMMA LowestIn ==
    ASSUME NEW S, S \subseteq Nat, S # {}
    PROVE  Lowest(S) \in S /\ \A j \in S : Lowest(S) <= j
<1>1. PICK k \in S : \A y \in S : <<y, k>> \notin OpToRel(<, Nat)
  BY NatLessThanWellFounded, WFMin, Zenon
<1>2. \A y \in S : k <= y
  <2> SUFFICES ASSUME NEW y \in S, y < k PROVE FALSE
    OBVIOUS
  <2>1. <<y, k>> \in OpToRel(<, Nat)
    BY DEF OpToRel
  <2> QED BY <1>1, <2>1
<1> QED BY <1>2, Zenon DEF Lowest

\* A set of positions that is not empty has a last one.
LEMMA LastPosition ==
    ASSUME NEW n \in Nat, NEW T \in SUBSET (1..n), T # {}
    PROVE  \E i \in T : \A j \in T : j <= i
<1> DEFINE U == {n - i : i \in T}
<1>1. U \subseteq Nat /\ U # {}
  <2>1. \A i \in T : i \in Int /\ 1 <= i /\ i <= n
    OBVIOUS
  <2>2. \A i \in T : n - i \in Nat
    BY <2>1
  <2> QED BY <2>2, Zenon
<1>2. PICK x \in U : \A y \in U : ~(<<y, x>> \in OpToRel(<, Nat))
  BY <1>1, NatLessThanWellFounded, WFMin
<1>3. PICK i \in T : x = n - i
  OBVIOUS
<1>4. \A j \in T : j <= i
  <2> SUFFICES ASSUME NEW j \in T, i < j PROVE FALSE
    OBVIOUS
  <2>1. n - j \in U /\ n - j \in Nat /\ x \in Nat /\ n - j < x
    BY <1>3
  <2> QED BY <1>2, <2>1, Zenon DEF OpToRel
<1> QED BY <1>4

(***************************************************************************)
(* Rules.  A request with its cache and response; fresh when what the cache *)
(* has parsed is what the request says.  D is a set the commands its rule   *)
(* has run come from.                                                       *)
(***************************************************************************)
\* Strings; the provers do not know of a literal that it is one.
Texts == STRING \cup {"", "asked", "rewritten", "client", "read", "rule", "set", "added", "upstream", "up", "error",
                      "redirect", "file", "unauthorized", "proxied", "login", "form", "postform",
                      "pass", "serve", "require_basic_auth", "proxy", "require_auth", "rewrite", "log", "notify",
                      "add", "remove"}
Entries == [set : BOOLEAN, v : Seq(Texts)]
ReqStates(D) ==
    [query : Seq(Texts), cookies : Seq(Texts), header : Seq(Texts), auth : BOOLEAN, path : Texts,
     fixed : SUBSET Texts, posted : BOOLEAN, parsed : BOOLEAN, forms : SUBSET Texts, reqBody : Texts,
     cq : Entries, cc : Entries, ca : Entries, status : Nat, body : Seq(Texts), rheader : Seq(Texts),
     done : Seq(D), panic : BOOLEAN]

Fresh(s) == /\ s.cq.set => s.cq.v = s.query
            /\ s.cc.set => s.cc.v = s.cookies
FreshStates(D) == {s \in ReqStates(D) : Fresh(s)}

\* What a change of one field makes of a request that was fresh: nothing else moves.
LEMMA FreshFields ==
    ASSUME NEW D, NEW s \in FreshStates(D)
    PROVE  /\ \A x \in Seq(Texts) : [s EXCEPT !.header = x] \in FreshStates(D)
           /\ \A x \in Seq(Texts) : [s EXCEPT !.rheader = x] \in FreshStates(D)
           /\ \A x \in Seq(Texts) : [s EXCEPT !.body = x] \in FreshStates(D)
           /\ \A E : \A x \in Seq(E) : [s EXCEPT !.done = x] \in FreshStates(E)
           /\ \A x \in Texts : [s EXCEPT !.path = x] \in FreshStates(D)
           /\ \A x \in Texts : [s EXCEPT !.reqBody = x] \in FreshStates(D)
           /\ [s EXCEPT !.panic = TRUE] \in FreshStates(D)
           /\ [s EXCEPT !.ca = Cached(<<>>)] \in FreshStates(D)
<1>1. Cached(<<>>) \in Entries
  BY DEF Cached, Entries
<1> QED BY <1>1, Zenon DEF FreshStates, ReqStates, Fresh

\* Another status.
LEMMA FreshStatus ==
    ASSUME NEW D, NEW s \in FreshStates(D), NEW n \in Nat
    PROVE  [s EXCEPT !.status = n] \in FreshStates(D)
BY Zenon DEF FreshStates, ReqStates, Fresh

\* GetQueries and GetCookies fill the cache with what the request says.
LEMMA FreshGet ==
    ASSUME NEW D, NEW s \in FreshStates(D)
    PROVE  /\ GetQueries(s) \in FreshStates(D) /\ GetQueries(s).cq.v \in Seq(Texts)
           /\ GetCookies(s) \in FreshStates(D) /\ GetCookies(s).cc.v \in Seq(Texts)
<1>1. ASSUME NEW v \in Seq(Texts) PROVE Cached(v) \in Entries /\ Cached(v).v = v
  BY DEF Cached, Entries
<1>2. s \in ReqStates(D) /\ s.query \in Seq(Texts) /\ s.cookies \in Seq(Texts) /\ s.cq \in Entries /\ s.cc \in Entries
  BY DEF FreshStates, ReqStates
<1>3. s.cq.v \in Seq(Texts) /\ s.cc.v \in Seq(Texts)
  BY <1>2 DEF Entries
<1>4. Cached(s.query) \in Entries /\ Cached(s.query).v = s.query /\ Cached(s.cookies) \in Entries /\ Cached(s.cookies).v = s.cookies
  BY <1>1, <1>2
<1>5. [s EXCEPT !.cq = Cached(s.query)] \in FreshStates(D) /\ [s EXCEPT !.cq = Cached(s.query)].cq.v \in Seq(Texts)
  BY <1>2, <1>4, Zenon DEF FreshStates, ReqStates, Fresh
<1>6. [s EXCEPT !.cc = Cached(s.cookies)] \in FreshStates(D) /\ [s EXCEPT !.cc = Cached(s.cookies)].cc.v \in Seq(Texts)
  BY <1>2, <1>4, Zenon DEF FreshStates, ReqStates, Fresh
<1> QED BY <1>3, <1>5, <1>6 DEF GetQueries, GetCookies

\* UpdateQueries and UpdateCookies change the cache and encode the request from it.
LEMMA FreshUpdate ==
    ASSUME NEW D, NEW s \in FreshStates(D), NEW v \in Seq(Texts)
    PROVE  UpdateQueries(s, v) \in FreshStates(D) /\ UpdateCookies(s, v) \in FreshStates(D)
<1>1. Cached(v) \in Entries /\ Cached(v).v = v
  BY DEF Cached, Entries
<1> QED BY <1>1, Zenon DEF FreshStates, ReqStates, Fresh, UpdateQueries, UpdateCookies

\* The outcomes of a check.
CheckResults(D) == [s : FreshStates(D), ok : BOOLEAN]

\* Evaluating a check leaves the request fresh, whatever it fills the cache with.
LEMMA FreshEvaluate ==
    ASSUME NEW c \in RuleChecks, NEW D, NEW s \in FreshStates(D)
    PROVE  Evaluate(c, s) \in CheckResults(D)
<1>1. GetQueries(s) \in FreshStates(D) /\ GetCookies(s) \in FreshStates(D)
  BY FreshGet
<1>2. GetBasicAuth(s) \in FreshStates(D)
  BY FreshFields, Zenon DEF GetBasicAuth
<1>3. ParseForm(s) \in FreshStates(D)
  <2> DEFINE fs == (IF s.posted /\ s.reqBody = "client" THEN {"form", "postform"} ELSE {})
                   \cup (IF s.query # <<>> THEN {"form"} ELSE {})
             rb == IF s.posted THEN "read" ELSE s.reqBody
  <2>1. fs \in SUBSET Texts /\ rb \in Texts
    <3>1. {"form", "postform"} \subseteq Texts /\ fs \subseteq {"form", "postform"}
      BY DEF Texts
    <3>2. s.reqBody \in Texts
      BY DEF FreshStates, ReqStates
    <3>3. rb \in Texts
      BY <3>2 DEF Texts
    <3> HIDE DEF fs
    <3> QED BY <3>1, <3>3
  <2>2. ParseForm(s) = IF s.parsed THEN s ELSE [s EXCEPT !.parsed = TRUE, !.reqBody = rb, !.forms = fs]
    BY DEF ParseForm
  <2> HIDE DEF fs, rb
  <2> QED BY <2>1, <2>2, Zenon DEF FreshStates, ReqStates, Fresh
<1> DEFINE t == CASE c.on = "query" -> GetQueries(s)
                  [] c.on = "cookie" -> GetCookies(s)
                  [] c.on = "basic_auth" -> GetBasicAuth(s)
                  [] c.on \in {"form", "postform"} -> ParseForm(s)
                  [] OTHER -> s
<1>4. t \in FreshStates(D)
  BY <1>1, <1>2, <1>3
<1>5. PICK b : Evaluate(c, s) = [s |-> t, ok |-> b] /\ b \in BOOLEAN
  BY Zenon DEF Evaluate
<1> HIDE DEF t
<1> QED BY <1>4, <1>5 DEF CheckResults

\* CheckMatchSingle and CheckMatchAll leave the request fresh.
LEMMA FreshCheckLine ==
    ASSUME NEW line \in Seq(RuleChecks), NEW D, NEW s \in FreshStates(D)
    PROVE  CheckLine(line, s) \in CheckResults(D)
<1> DEFINE L == Len(line)
           b == [s |-> s, ok |-> FALSE]
           f == [n \in Nat |-> [x \in CheckResults(D) |-> IF n \in 1..L THEN NextCheck(line[n], x) ELSE x]]
           after == CHOOSE h : h = [i \in 0..L |-> IF i = 0 THEN b ELSE NextCheck(line[i], h[i - 1])]
<1>1. L \in Nat /\ b \in CheckResults(D)
  BY DEF CheckResults
<1>2. ASSUME NEW n \in 1..L, NEW x \in CheckResults(D) PROVE NextCheck(line[n], x) \in CheckResults(D)
  <2>1. line[n] \in RuleChecks /\ x.s \in FreshStates(D)
    BY DEF CheckResults
  <2> QED BY <2>1, FreshEvaluate DEF NextCheck
<1>3. f \in [Nat -> [CheckResults(D) -> CheckResults(D)]]
  BY <1>2
<1>4. PICK g \in [0..L -> CheckResults(D)] : Rounds(f, b, L, g)
  <2> HIDE DEF L, b, f
  <2> QED BY <1>1, <1>3, LoopRuns, Zenon
<1>5. g = [i \in 0..L |-> IF i = 0 THEN b ELSE NextCheck(line[i], g[i - 1])]
  <2>1. ASSUME NEW i \in 1..L PROVE g[i] = NextCheck(line[i], g[i - 1])
    <3>1. i \in Nat /\ i - 1 \in 0..L
      BY <1>1
    <3>2. g[i] = f[i][g[i - 1]]
      BY <1>4, Zenon DEF Rounds
    <3> QED BY <1>4, <3>1, <3>2
  <2>2. g[0] = b /\ \A i \in 0..L : i = 0 \/ i \in 1..L
    BY <1>1, <1>4 DEF Rounds
  <2> HIDE DEF L, b, f
  <2> QED BY <1>4, <2>1, <2>2
<1>6. after = [i \in 0..L |-> IF i = 0 THEN b ELSE NextCheck(line[i], after[i - 1])]
  <2> HIDE DEF L, b, f
  <2> QED BY <1>5, Zenon
<1>7. CheckLine(line, s) = after[L]
  BY Zenon DEF CheckLine
<1>8. \A n \in 0..L : after[n] \in CheckResults(D)
  <2>1. after[0] \in CheckResults(D) /\ \A n \in 1..L : after[n] = NextCheck(line[n], after[n - 1])
    <3> HIDE DEF L, after
    <3>1. 0 \in 0..L /\ \A n \in 1..L : n \in 0..L /\ n # 0
      BY <1>1
    <3> HIDE DEF b
    <3> QED BY <1>1, <1>6, <3>1
  <2> HIDE DEF L, after
  <2> QED BY <1>1, <1>2, <2>1, LoopStays, Zenon
<1>9. L \in 0..L
  BY <1>1
<1> HIDE DEF L, after
<1> QED BY <1>7, <1>8, <1>9

\* Checking the lines of a rule, as far as the loop comes, leaves the request fresh.
LEMMA FreshCheck ==
    ASSUME NEW rule, rule.on \in Seq(Seq(RuleChecks)), NEW D, NEW s \in FreshStates(D)
    PROVE  Check(rule, s) \in CheckResults(D)
<1> DEFINE L == Len(rule.on)
           b == [s |-> s, ok |-> TRUE]
           f == [n \in Nat |-> [x \in CheckResults(D) |-> IF n \in 1..L THEN NextLine(rule.on[n], x) ELSE x]]
           after == CHOOSE h : h = [i \in 0..L |-> IF i = 0 THEN b ELSE NextLine(rule.on[i], h[i - 1])]
<1>1. L \in Nat /\ b \in CheckResults(D)
  BY DEF CheckResults
<1>2. ASSUME NEW n \in 1..L, NEW x \in CheckResults(D) PROVE NextLine(rule.on[n], x) \in CheckResults(D)
  <2>1. rule.on[n] \in Seq(RuleChecks) /\ x.s \in FreshStates(D)
    BY DEF CheckResults
  <2> QED BY <2>1, FreshCheckLine DEF NextLine
<1>3. f \in [Nat -> [CheckResults(D) -> CheckResults(D)]]
  BY <1>2
<1>4. PICK g \in [0..L -> CheckResults(D)] : Rounds(f, b, L, g)
  <2> HIDE DEF L, b, f
  <2> QED BY <1>1, <1>3, LoopRuns, Zenon
<1>5. g = [i \in 0..L |-> IF i = 0 THEN b ELSE NextLine(rule.on[i], g[i - 1])]
  <2>1. ASSUME NEW i \in 1..L PROVE g[i] = NextLine(rule.on[i], g[i - 1])
    <3>1. i \in Nat /\ i - 1 \in 0..L
      BY <1>1
    <3>2. g[i] = f[i][g[i - 1]]
      BY <1>4, Zenon DEF Rounds
    <3> QED BY <1>4, <3>1, <3>2, Zenon
  <2>2. g[0] = b /\ \A i \in 0..L : i = 0 \/ i \in 1..L
    BY <1>1, <1>4 DEF Rounds
  <2> HIDE DEF L, b, f
  <2> QED BY <1>4, <2>1, <2>2
<1>6. after = [i \in 0..L |-> IF i = 0 THEN b ELSE NextLine(rule.on[i], after[i - 1])]
  <2> HIDE DEF L, b, f
  <2> QED BY <1>5, Zenon
<1>7. Check(rule, s) = after[L]
  BY Zenon DEF Check
<1>8. \A n \in 0..L : after[n] \in CheckResults(D)
  <2>1. after[0] \in CheckResults(D) /\ \A n \in 1..L : after[n] = NextLine(rule.on[n], after[n - 1])
    <3> HIDE DEF L, after
    <3>1. 0 \in 0..L /\ \A n \in 1..L : n \in 0..L /\ n # 0
      BY <1>1
    <3> HIDE DEF b
    <3> QED BY <1>1, <1>6, <3>1
  <2> HIDE DEF L, after
  <2> QED BY <1>1, <1>2, <2>1, LoopStays, Zenon
<1>9. L \in 0..L
  BY <1>1
<1> HIDE DEF L, after
<1> QED BY <1>7, <1>8, <1>9

(***************************************************************************)
(* Commands.                                                                *)
(***************************************************************************)
\* What a field is changed to.
LEMMA ModifiedText ==
    ASSUME NEW op \in {"set", "add", "remove"}, NEW old \in Seq(Texts)
    PROVE  Modified(op, old) \in Seq(Texts) /\ ModifiedCookie(op, old) \in Seq(Texts)
<1>1. "set" \in Texts /\ "added" \in Texts
  BY DEF Texts
<1>2. <<"set">> \in Seq(Texts) /\ Append(old, "added") \in Seq(Texts) /\ <<>> \in Seq(Texts)
  BY <1>1
<1>3. old # <<>> => Tail(old) \in Seq(Texts)
  OBVIOUS
<1>4. (<<"set">> \o (IF old = <<>> THEN <<>> ELSE Tail(old))) \in Seq(Texts)
  BY <1>2, <1>3
<1> QED BY <1>2, <1>3, <1>4 DEF Modified, ModifiedCookie

\* set, add and remove leave the request fresh: a query or a cookie is changed in the
\* cache and in the request.
LEMMA FreshModField ==
    ASSUME NEW c \in RuleCommands, c.op \in {"set", "add", "remove"}, NEW D, NEW s \in FreshStates(D)
    PROVE  ModField(c, s) \in FreshStates(D)
<1>1. s.header \in Seq(Texts) /\ s.rheader \in Seq(Texts)
  BY DEF FreshStates, ReqStates
<1>2. Modified(c.op, s.header) \in Seq(Texts) /\ Modified(c.op, s.rheader) \in Seq(Texts)
  BY <1>1, ModifiedText
<1>3. [s EXCEPT !.header = Modified(c.op, s.header)] \in FreshStates(D)
      /\ [s EXCEPT !.rheader = Modified(c.op, s.rheader)] \in FreshStates(D)
  BY <1>2, FreshFields, Zenon
<1>4. ModQuery(c.op, s) \in FreshStates(D)
  <2>1. GetQueries(s) \in FreshStates(D) /\ Modified(c.op, GetQueries(s).cq.v) \in Seq(Texts)
    BY FreshGet, ModifiedText
  <2> QED BY <2>1, FreshUpdate DEF ModQuery
<1>5. UpdateCookies(GetCookies(s), ModifiedCookie(c.op, GetCookies(s).cc.v)) \in FreshStates(D)
  <2>1. GetCookies(s) \in FreshStates(D) /\ ModifiedCookie(c.op, GetCookies(s).cc.v) \in Seq(Texts)
    BY FreshGet, ModifiedText
  <2> QED BY <2>1, FreshUpdate
<1>6. [s EXCEPT !.reqBody = "rule"] \in FreshStates(D) /\ [s EXCEPT !.body = <<"rule">>] \in FreshStates(D)
      /\ [s EXCEPT !.status = 418] \in FreshStates(D)
  <2>1. "rule" \in Texts /\ <<"rule">> \in Seq(Texts) /\ 418 \in Nat
    BY DEF Texts
  <2>2. [s EXCEPT !.reqBody = "rule"] \in FreshStates(D)
    BY <2>1, FreshFields, Zenon
  <2>3. [s EXCEPT !.body = <<"rule">>] \in FreshStates(D)
    BY <2>1, FreshFields, Zenon
  <2>4. [s EXCEPT !.status = 418] \in FreshStates(D)
    BY <2>1, FreshStatus, Zenon
  <2> QED BY <2>2, <2>3, <2>4
<1>7. c.field \in ModFields
  BY DEF RuleCommands, OtherOps
<1> QED BY <1>3, <1>4, <1>5, <1>6, <1>7 DEF ModField, ModFields

\* What the commands of a rule come out with.
Outs(D) == [s : FreshStates(D), err : {"none", "term", "fail"}]

\* The answer of a command: a status and a text.
LEMMA FreshAnswer ==
    ASSUME NEW D, NEW s \in FreshStates(D), NEW n \in Nat, NEW x \in Texts
    PROVE  Write([s EXCEPT !.status = n], x) \in FreshStates(D)
<1> DEFINE t == [s EXCEPT !.status = n]
<1>1. t \in FreshStates(D)
  BY FreshStatus
<1> HIDE DEF t
<1>2. Append(t.body, x) \in Seq(Texts)
  BY <1>1 DEF FreshStates, ReqStates
<1>3. [t EXCEPT !.body = Append(t.body, x)] \in FreshStates(D)
  BY <1>1, <1>2, FreshFields, Zenon
<1> QED BY <1>3 DEF Write, t

\* A fresh request with a verdict is an outcome of a command.
LEMMA OutsHave ==
    ASSUME NEW D, NEW s \in FreshStates(D), NEW e \in {"none", "term", "fail"}
    PROVE  Out(s, e) \in Outs(D)
BY DEF Out, Outs

\* A command that ends the request writes a response and leaves the request fresh.
LEMMA FreshRunTerminating ==
    ASSUME NEW D, NEW s \in FreshStates(D), NEW c \in RuleCommands, IsTerminating(c)
    PROVE  RunTerminating(c, s) \subseteq Outs(D)
<1>1. 200 \in Nat /\ 307 \in Nat /\ 401 \in Nat /\ 403 \in Nat /\ 404 \in Nat
  OBVIOUS
<1>2. "redirect" \in Texts /\ "file" \in Texts /\ "unauthorized" \in Texts /\ "proxied" \in Texts
  BY DEF Texts
<1>3. <<"error">> \in Seq(Texts)
  BY DEF Texts
<1>4. [s EXCEPT !.status = 403, !.body = <<"error">>] \in FreshStates(D)
  <2> DEFINE t == [s EXCEPT !.status = 403]
  <2>1. t \in FreshStates(D)
    BY <1>1, FreshStatus, Zenon
  <2> HIDE DEF t
  <2>2. [t EXCEPT !.body = <<"error">>] \in FreshStates(D)
    BY <1>3, <2>1, FreshFields, Zenon
  <2> QED BY <2>2 DEF t
<1>5. Out([s EXCEPT !.status = 403, !.body = <<"error">>], "term") \in Outs(D)
  BY <1>4, OutsHave
<1>6. Out(Write([s EXCEPT !.status = 307], "redirect"), "term") \in Outs(D)
  <2>1. Write([s EXCEPT !.status = 307], "redirect") \in FreshStates(D)
    BY <1>1, <1>2, FreshAnswer, Zenon
  <2> QED BY <2>1, OutsHave
<1>7. Out(Write([s EXCEPT !.status = 200], "file"), "term") \in Outs(D)
      /\ Out(Write([s EXCEPT !.status = 404], "file"), "term") \in Outs(D)
  <2>1. Write([s EXCEPT !.status = 200], "file") \in FreshStates(D)
    BY <1>1, <1>2, FreshAnswer, Zenon
  <2>2. Write([s EXCEPT !.status = 404], "file") \in FreshStates(D)
    BY <1>1, <1>2, FreshAnswer, Zenon
  <2> QED BY <2>1, <2>2, OutsHave
<1>8. Out(Write([s EXCEPT !.status = 401], "unauthorized"), "term") \in Outs(D)
  <2>1. Write([s EXCEPT !.status = 401], "unauthorized") \in FreshStates(D)
    BY <1>1, <1>2, FreshAnswer, Zenon
  <2> QED BY <2>1, OutsHave
<1>9. Out(Write([s EXCEPT !.status = 200], "proxied"), "term") \in Outs(D) /\ Out(s, "fail") \in Outs(D)
  <2>1. Write([s EXCEPT !.status = 200], "proxied") \in FreshStates(D)
    BY <1>1, <1>2, FreshAnswer, Zenon
  <2> QED BY <2>1, OutsHave
<1>10. c.op \in {"error", "redirect", "serve", "require_basic_auth", "proxy"}
  BY DEF IsTerminating
<1>11. CASE c.op = "error"
  BY <1>5, <1>11 DEF RunTerminating
<1>12. CASE c.op = "redirect"
  BY <1>6, <1>12 DEF RunTerminating
<1>13. CASE c.op = "serve"
  BY <1>7, <1>13 DEF RunTerminating
<1>14. CASE c.op = "require_basic_auth"
  BY <1>8, <1>14 DEF RunTerminating
<1>15. CASE c.op = "proxy"
  BY <1>9, <1>15 DEF RunTerminating
<1> QED BY <1>10, <1>11, <1>12, <1>13, <1>14, <1>15

\* Every command leaves the request fresh, whichever way it ends.
LEMMA FreshRunCommand ==
    ASSUME NEW D, NEW s \in FreshStates(D), NEW c \in RuleCommands
    PROVE  RunCommand(c, s) \subseteq Outs(D)
<1>1. CASE IsTerminating(c)
  BY <1>1, FreshRunTerminating DEF RunCommand
<1>2. CASE ~IsTerminating(c)
  <2>1. Out(s, "none") \in Outs(D) /\ Out(s, "term") \in Outs(D) /\ Out(s, "fail") \in Outs(D)
    BY OutsHave
  <2>2. Out(Write([s EXCEPT !.status = 403], "login"), "term") \in Outs(D)
    <3>1. 403 \in Nat /\ "login" \in Texts
      BY DEF Texts
    <3>2. Write([s EXCEPT !.status = 403], "login") \in FreshStates(D)
      BY <3>1, FreshAnswer, Zenon
    <3> QED BY <3>2, OutsHave
  <2>3. Out([s EXCEPT !.path = "rewritten"], "none") \in Outs(D)
    <3>1. "rewritten" \in Texts
      BY DEF Texts
    <3>2. [s EXCEPT !.path = "rewritten"] \in FreshStates(D)
      BY <3>1, FreshFields, Zenon
    <3> QED BY <3>2, OutsHave
  <2>4. c.op \in {"pass", "require_auth", "rewrite", "log", "notify", "set", "add", "remove"}
    BY <1>2 DEF RuleCommands, OtherOps, IsTerminating
  <2>5. CASE c.op = "pass"
    BY <1>2, <2>1, <2>5 DEF RunCommand
  <2>6. CASE c.op = "require_auth"
    BY <1>2, <2>1, <2>2, <2>6 DEF RunCommand
  <2>7. CASE c.op = "rewrite"
    BY <1>2, <2>3, <2>7 DEF RunCommand
  <2>8. CASE c.op \in {"log", "notify"}
    BY <1>2, <2>1, <2>8 DEF RunCommand, RunOnResponse
  <2>9. CASE c.op \in {"set", "add", "remove"}
    <3>1. Out(ModField(c, s), "none") \in Outs(D)
      BY <2>9, FreshModField, OutsHave
    <3> QED BY <1>2, <2>9, <3>1 DEF RunCommand, RunModify
  <2> QED BY <2>4, <2>5, <2>6, <2>7, <2>8, <2>9
<1> QED BY <1>1, <1>2

\* One round of Commands.Handle: outcomes that are fresh stay fresh.
LEMMA FreshNextCommand ==
    ASSUME NEW D, NEW c \in RuleCommands, c \in D, NEW outs \in SUBSET Outs(D)
    PROVE  NextCommand(c, outs) \in SUBSET Outs(D)
<1>1. ASSUME NEW o \in outs, NEW p \in RunCommand(c, o.s)
      PROVE  Out([p.s EXCEPT !.done = Append(@, c)], p.err) \in Outs(D)
  <2>1. o.s \in FreshStates(D)
    BY DEF Outs
  <2>2. p \in Outs(D)
    BY <2>1, FreshRunCommand
  <2>3. p.s \in FreshStates(D) /\ p.err \in {"none", "term", "fail"}
    BY <2>2 DEF Outs
  <2>4. Append(p.s.done, c) \in Seq(D)
    BY <2>3 DEF FreshStates, ReqStates
  <2>5. [p.s EXCEPT !.done = Append(p.s.done, c)] \in FreshStates(D)
    BY <2>3, <2>4, FreshFields, Zenon
  <2> QED BY <2>3, <2>5, OutsHave
<1>2. ASSUME NEW o \in outs
      PROVE  (IF o.err = "none" THEN {Out([p.s EXCEPT !.done = Append(@, c)], p.err) : p \in RunCommand(c, o.s)}
              ELSE {o}) \subseteq Outs(D)
  BY <1>1, Zenon
<1> QED BY <1>2, Zenon DEF NextCommand

\* Commands.Handle leaves the request fresh and has run commands of the rule only.
LEMMA FreshHandleRule ==
    ASSUME NEW D, NEW E, NEW s \in FreshStates(E), NEW rule, rule.do \in Seq(RuleCommands),
           \A i \in DOMAIN rule.do : rule.do[i] \in D
    PROVE  HandleRule(rule, s) \in SUBSET Outs(D)
<1> DEFINE L == Len(rule.do)
           T == SUBSET Outs(D)
           b == {Out([s EXCEPT !.done = <<>>], "none")}
           f == [n \in Nat |-> [x \in T |-> IF n \in 1..L THEN NextCommand(rule.do[n], x) ELSE x]]
           after == CHOOSE h : h = [i \in 0..L |-> IF i = 0 THEN b ELSE NextCommand(rule.do[i], h[i - 1])]
<1>1. L \in Nat /\ b \in T
  <2>1. <<>> \in Seq(D)
    OBVIOUS
  <2>2. [s EXCEPT !.done = <<>>] \in FreshStates(D)
    BY <2>1, FreshFields, Zenon
  <2>3. Out([s EXCEPT !.done = <<>>], "none") \in Outs(D)
    BY <2>2, OutsHave
  <2> QED BY <2>3
<1>2. ASSUME NEW n \in 1..L, NEW x \in T PROVE NextCommand(rule.do[n], x) \in T
  <2>1. rule.do[n] \in RuleCommands /\ rule.do[n] \in D
    OBVIOUS
  <2> QED BY <2>1, FreshNextCommand
<1>3. f \in [Nat -> [T -> T]]
  <2> HIDE DEF T
  <2> QED BY <1>2
<1>4. PICK g \in [0..L -> T] : Rounds(f, b, L, g)
  <2> HIDE DEF L, b, f, T
  <2> QED BY <1>1, <1>3, LoopRuns, Zenon
<1>5. g = [i \in 0..L |-> IF i = 0 THEN b ELSE NextCommand(rule.do[i], g[i - 1])]
  <2>1. ASSUME NEW i \in 1..L PROVE g[i] = NextCommand(rule.do[i], g[i - 1])
    <3>1. i \in Nat /\ i - 1 \in 0..L
      BY <1>1
    <3>2. g[i] = f[i][g[i - 1]]
      BY <1>4, Zenon DEF Rounds
    <3> HIDE DEF T
    <3> QED BY <1>4, <3>1, <3>2
  <2>2. g[0] = b /\ \A i \in 0..L : i = 0 \/ i \in 1..L
    BY <1>1, <1>4 DEF Rounds
  <2> HIDE DEF L, b, f, T
  <2> QED BY <1>4, <2>1, <2>2
<1>6. after = [i \in 0..L |-> IF i = 0 THEN b ELSE NextCommand(rule.do[i], after[i - 1])]
  <2> HIDE DEF L, b, f, T
  <2> QED BY <1>5, Zenon
<1>7. rule.do # <<>> => HandleRule(rule, s) = after[L]
  BY Zenon DEF HandleRule
<1>8. \A n \in 0..L : after[n] \in T
  <2>1. after[0] \in T /\ \A n \in 1..L : after[n] = NextCommand(rule.do[n], after[n - 1])
    <3> HIDE DEF L, after
    <3>1. 0 \in 0..L /\ \A n \in 1..L : n \in 0..L /\ n # 0
      BY <1>1
    <3> HIDE DEF b, T
    <3> QED BY <1>1, <1>6, <3>1
  <2> HIDE DEF L, after, T
  <2> QED BY <1>1, <1>2, <2>1, LoopStays, Zenon
<1>9. L \in 0..L
  BY <1>1
<1>10. CASE rule.do = <<>>
  <2>1. <<>> \in Seq(D)
    OBVIOUS
  <2> DEFINE t == [s EXCEPT !.done = <<>>]
  <2>2. t \in FreshStates(D)
    BY <2>1, FreshFields, Zenon
  <2> HIDE DEF t
  <2>3. [t EXCEPT !.panic = TRUE] \in FreshStates(D)
    BY <2>2, FreshFields, SMTT(30)
  <2>4. Out([t EXCEPT !.panic = TRUE], "fail") \in Outs(D)
    BY <2>3, OutsHave
  <2> QED BY <1>10, <2>4 DEF HandleRule, t
<1> HIDE DEF L, after
<1> QED BY <1>7, <1>8, <1>9, <1>10

(***************************************************************************)
(* The handler of a route.                                                  *)
(***************************************************************************)
\* The commands that do not need the response.
PreCommands == {c \in RuleCommands : ~IsOnResponse(c)}
RuleErrs == {"none", "term", "fail"}
RanEntries == [at : {"pre"}, ops : Seq(PreCommands), err : RuleErrs]
                  \cup [at : {"post"}, ops : Seq(RuleCommands), err : RuleErrs]

\* Before the upstream is called a request that was stopped will not be forwarded, and
\* the rules that are looked at need no response.
RuleInv ==
    /\ rules \in RuleLists
    /\ rTodo \subseteq DOMAIN rules
    /\ rAt = "pre" => rTodo \subseteq PreRules
    /\ rs \in FreshStates(RuleCommands)
    /\ ran \in Seq(RanEntries)
    /\ should \in BOOLEAN /\ stopped \in BOOLEAN
    /\ stopped => ~should /\ upCalls = 0
    /\ rAt \in {"parse", "default", "pre", "last", "only", "upstream"} => upCalls = 0
    /\ rAt = "only" => ~IsResponseRule(DefaultRule)

\* The lowest place of some places.
LEMMA FirstIn ==
    ASSUME NEW places, places \subseteq Nat, places # {}
    PROVE  First(places) \in places /\ \A j \in places : First(places) <= j
BY LowestIn, Zenon DEF First, Lowest

\* A list of one element.
LEMMA OneElement ==
    ASSUME NEW S, NEW x \in S
    PROVE  <<x>> \in Seq(S)
OBVIOUS

\* What the list of rules gives the proofs: the rule at a place, and the default rule.
LEMMA RuleAt ==
    ASSUME RuleInv, NEW i \in DOMAIN rules
    PROVE  /\ rules[i].on \in Seq(Seq(RuleChecks)) /\ rules[i].do \in Seq(RuleCommands)
           /\ i \in Nat
<1> DEFINE R == [name : STRING, on : Seq(Seq(RuleChecks)), do : Seq(RuleCommands)]
<1>1. rules \in Seq(R)
  BY RulesAssumption, Zenon DEF RuleInv
<1>2. i \in 1..Len(rules) /\ rules[i] \in R
  <2> HIDE DEF R
  <2> QED BY <1>1
<1> QED BY <1>2

\* The default rule, written in the list or not, has commands that do.go can parse.
LEMMA DefaultRuleDo ==
    ASSUME RuleInv
    PROVE  DefaultRule.do \in Seq(RuleCommands)
<1>1. CASE HasDefault
  <2> DEFINE D == {i \in DOMAIN rules : IsDefault(rules[i])}
  <2>1. rules \in Seq([name : STRING, on : Seq(Seq(RuleChecks)), do : Seq(RuleCommands)])
    BY RulesAssumption, Zenon DEF RuleInv
  <2>2. \E i \in DOMAIN rules : IsDefault(rules[i]) /\ \A j \in DOMAIN rules : IsDefault(rules[j]) => j <= i
    <3> DEFINE Gap == {Len(rules) - i : i \in D}
    <3>1. Gap \subseteq Nat /\ Gap # {}
      BY <1>1, <2>1 DEF HasDefault
    <3>2. PICK i \in D : First(Gap) = Len(rules) - i
      BY <3>1, FirstIn, Zenon
    <3>3. \A j \in D : Len(rules) - i <= Len(rules) - j
      <4> SUFFICES ASSUME NEW j \in D PROVE Len(rules) - i <= Len(rules) - j
        OBVIOUS
      <4>1. Len(rules) - j \in Gap
        OBVIOUS
      <4> HIDE DEF Gap, D
      <4>2. \A g \in Gap : First(Gap) <= g
        BY <3>1, FirstIn, Zenon
      <4> QED BY <3>2, <4>1, <4>2
    <3>4. Len(rules) \in Nat /\ \A j \in DOMAIN rules : j \in Nat
      BY <2>1
    <3>5. \A j \in D : j <= i
      BY <3>3, <3>4
    <3> QED BY <3>2, <3>5
  <2>3. LastDefault \in DOMAIN rules
    BY <2>2, Zenon DEF LastDefault
  <2> QED BY <1>1, <2>3, RuleAt DEF DefaultRule
<1>2. CASE ~HasDefault
  <2>1. [op |-> "pass", field |-> ""] \in RuleCommands
    BY DEF RuleCommands, OtherOps
  <2>2. <<[op |-> "pass", field |-> ""]>> \in Seq(RuleCommands)
    BY <2>1, OneElement, Zenon
  <2> QED BY <1>2, <2>2 DEF DefaultRule
<1> QED BY <1>1, <1>2

\* A list of commands without those that need the response.
LEMMA PreCommandsOf ==
    ASSUME NEW rule, rule.do \in Seq(RuleCommands), ~IsResponseRule(rule)
    PROVE  \A i \in DOMAIN rule.do : rule.do[i] \in PreCommands
<1>1. \A i \in DOMAIN rule.do : rule.do[i] \in RuleCommands
  OBVIOUS
<1> QED BY <1>1 DEF PreCommands, IsResponseRule, IsResponseHandler

\* A fresh request stays fresh when its rule may run more commands.
LEMMA FreshMono ==
    ASSUME NEW D, NEW E, D \subseteq E, NEW s \in FreshStates(D)
    PROVE  s \in FreshStates(E)
<1>1. s.done \in Seq(D) => s.done \in Seq(E)
  OBVIOUS
<1> QED BY <1>1 DEF FreshStates, ReqStates

\* A rule that was run leaves a fresh request and an entry for its commands.
LEMMA RanPre ==
    ASSUME RuleInv, NEW rule, rule.do \in Seq(RuleCommands), ~IsResponseRule(rule),
           NEW s \in FreshStates(RuleCommands), NEW o \in HandleRule(rule, s), NEW next, Ran(o, "pre", next)
    PROVE  rs' \in FreshStates(RuleCommands) /\ ran' \in Seq(RanEntries) /\ o.err \in RuleErrs
<1>1. o \in Outs(PreCommands)
  BY FreshHandleRule, PreCommandsOf
<1>2. o.s \in FreshStates(PreCommands) /\ o.err \in RuleErrs
  BY <1>1 DEF Outs, RuleErrs
<1>3. o.s \in FreshStates(RuleCommands)
  BY <1>2, FreshMono, SMTT(30) DEF PreCommands
<1>4. o.s.done \in Seq(PreCommands)
  BY <1>2 DEF FreshStates, ReqStates
<1> DEFINE entry == [at |-> "pre", ops |-> o.s.done, err |-> o.err]
<1>5. entry \in RanEntries
  BY <1>2, <1>4 DEF RanEntries
<1> HIDE DEF entry
<1>6. Append(ran, entry) \in Seq(RanEntries)
  BY <1>5 DEF RuleInv
<1> QED BY <1>2, <1>3, <1>6 DEF Ran, entry

\* The same for a rule after the upstream, whose commands may be any.
LEMMA RanPost ==
    ASSUME RuleInv, NEW rule, rule.do \in Seq(RuleCommands),
           NEW s \in FreshStates(RuleCommands), NEW o \in HandleRule(rule, s), NEW next, Ran(o, "post", next)
    PROVE  rs' \in FreshStates(RuleCommands) /\ ran' \in Seq(RanEntries)
<1>1. o \in Outs(RuleCommands)
  BY FreshHandleRule
<1>2. o.s \in FreshStates(RuleCommands) /\ o.err \in RuleErrs
  BY <1>1, SMTT(30) DEF Outs, RuleErrs
<1>3. o.s.done \in Seq(RuleCommands)
  BY <1>2 DEF FreshStates, ReqStates
<1> DEFINE entry == [at |-> "post", ops |-> o.s.done, err |-> o.err]
<1>4. entry \in RanEntries
  BY <1>2, <1>3 DEF RanEntries
<1> HIDE DEF entry
<1>5. Append(ran, entry) \in Seq(RanEntries)
  BY <1>4 DEF RuleInv
<1> QED BY <1>2, <1>5 DEF Ran, entry

\* What depends on the list of rules only.
LEMMA RulesStay ==
    ASSUME rules' = rules
    PROVE  PreRules' = PreRules /\ PostRules' = PostRules /\ DefaultRule' = DefaultRule
<1>1. PreRules' = PreRules /\ PostRules' = PostRules
  BY DEF PreRules, PostRules
<1>2. LastDefault' = LastDefault /\ HasDefault' = HasDefault
  BY Zenon DEF LastDefault, HasDefault
<1>3. DefaultRule' = DefaultRule
  BY <1>2, Zenon DEF DefaultRule
<1> QED BY <1>1, <1>3

\* A list over a set is one over a larger set.
LEMMA SeqMono ==
    ASSUME NEW S, NEW T, S \subseteq T, NEW x \in Seq(S)
    PROVE  x \in Seq(T)
OBVIOUS

\* A request that arrives has an empty cache and no history.
LEMMA RuleInit_Inv == RuleInit => RuleInv
<1> SUFFICES ASSUME RuleInit PROVE RuleInv
  OBVIOUS
<1>1. PICK q \in RuleReqs :
          rs = [query |-> q.query, cookies |-> q.cookies, header |-> q.header, auth |-> q.auth, path |-> "asked",
                fixed |-> q.fixed, posted |-> q.posted, parsed |-> FALSE, forms |-> {}, reqBody |-> "client",
                cq |-> NoEntry, cc |-> NoEntry, ca |-> NoEntry, status |-> 0, body |-> <<>>, rheader |-> <<>>, done |-> <<>>, panic |-> FALSE]
  BY Zenon DEF RuleInit
<1>2. /\ q.query \in Seq(STRING) /\ q.cookies \in Seq(STRING) /\ q.header \in Seq(STRING) /\ q.auth \in BOOLEAN
      /\ q.fixed \in SUBSET STRING /\ q.posted \in BOOLEAN
  BY RulesAssumption
<1>3. \A x \in Seq(STRING) : x \in Seq(Texts)
  <2>1. STRING \subseteq Texts
    BY DEF Texts
  <2> QED BY <2>1, SeqMono, Zenon
<1>4. q.query \in Seq(Texts) /\ q.cookies \in Seq(Texts) /\ q.header \in Seq(Texts) /\ q.fixed \in SUBSET Texts
  BY <1>2, <1>3 DEF Texts
<1>5. NoEntry \in Entries /\ NoEntry.set = FALSE
  BY DEF NoEntry, Entries
<1>6. "asked" \in Texts /\ "client" \in Texts
  BY DEF Texts
<1>7. rs \in FreshStates(RuleCommands)
  BY <1>1, <1>2, <1>4, <1>5, <1>6 DEF FreshStates, ReqStates, Fresh
<1>8. rAt = "parse" /\ rTodo = {} /\ should = TRUE /\ stopped = FALSE /\ upCalls = 0 /\ ran = <<>> /\ rules \in RuleLists
  BY DEF RuleInit
<1>9. ran \in Seq(RanEntries)
  BY <1>8
<1> QED BY <1>7, <1>8, <1>9, Zenon DEF RuleInv

\* Steps that leave the request and what was run alone.
LEMMA InvBuildHandler == RuleInv /\ BuildHandler => RuleInv'
<1> SUFFICES ASSUME RuleInv, BuildHandler PROVE RuleInv'
  OBVIOUS
<1>1. rules' = rules /\ DefaultRule' = DefaultRule
  BY RulesStay DEF BuildHandler
<1>2. rAt' = "only" => ~IsResponseRule(DefaultRule)
  BY DEF BuildHandler
<1>3. rAt' # "pre"
  BY DEF BuildHandler
<1>4. upCalls = 0
  BY DEF BuildHandler, RuleInv
<1> QED BY <1>1, <1>2, <1>3, <1>4 DEF BuildHandler, RuleInv

\* Leaving the loop over the preRules changes nothing the invariant is about.
LEMMA InvPreDone == RuleInv /\ PreDone => RuleInv'
BY DEF RuleInv, PreDone

\* The default rule before the others, after them, or alone: no response rule.
LEMMA InvDefaultFirst == RuleInv /\ DefaultFirst => RuleInv'
<1> SUFFICES ASSUME RuleInv, DefaultFirst PROVE RuleInv'
  OBVIOUS
<1>1. rules' = rules /\ PreRules' = PreRules
  BY RulesStay DEF DefaultFirst
<1>2. upCalls' = 0 /\ rules' \in RuleLists /\ rTodo' = PreRules
  BY DEF RuleInv, DefaultFirst
<1>3. rTodo' \subseteq DOMAIN rules' /\ rTodo' \subseteq PreRules'
  BY <1>1, <1>2 DEF PreRules
<1>4. /\ rs' \in FreshStates(RuleCommands) /\ ran' \in Seq(RanEntries)
      /\ should' \in BOOLEAN /\ stopped' \in BOOLEAN /\ (stopped' => ~should') /\ rAt' \in {"pre", "panic"}
  <2>1. CASE HasDefault /\ ~DefaultPost /\ ~isTerminatingHandler(DefaultRule.do) /\ ~isBypass(DefaultRule.do)
    <3>1. PICK o \in HandleRule(DefaultRule, rs) :
              Ran(o, "pre", "pre") /\ should' = GoesOn(o.err) /\ stopped' = (o.err # "none")
      BY <2>1 DEF DefaultFirst
    <3>2. ~IsResponseRule(DefaultRule) /\ DefaultRule.do \in Seq(RuleCommands)
      BY <2>1, DefaultRuleDo DEF DefaultPost
    <3>3. rs' \in FreshStates(RuleCommands) /\ ran' \in Seq(RanEntries)
      BY <3>1, <3>2, RanPre DEF RuleInv
    <3>4. rAt' \in {"pre", "panic"}
      BY <3>1 DEF Ran
    <3> QED BY <3>1, <3>3, <3>4, Zenon DEF GoesOn
  <2>2. CASE ~(HasDefault /\ ~DefaultPost /\ ~isTerminatingHandler(DefaultRule.do) /\ ~isBypass(DefaultRule.do))
    BY <2>2 DEF DefaultFirst, RuleInv
  <2> QED BY <2>1, <2>2
<1> QED BY <1>2, <1>3, <1>4 DEF RuleInv

\* The default rule after the preRules is no response rule either.
LEMMA InvDefaultLast == RuleInv /\ DefaultLast => RuleInv'
<1> SUFFICES ASSUME RuleInv, DefaultLast PROVE RuleInv'
  OBVIOUS
<1>1. upCalls' = 0 /\ rules' \in RuleLists /\ rTodo' \subseteq DOMAIN rules'
  BY DEF RuleInv, DefaultLast
<1>2. /\ rs' \in FreshStates(RuleCommands) /\ ran' \in Seq(RanEntries)
      /\ should' \in BOOLEAN /\ stopped' \in BOOLEAN /\ (stopped' => ~should') /\ rAt' \in {"upstream", "done", "panic"}
  <2>1. CASE HasDefault /\ ~DefaultPost /\ isTerminatingHandler(DefaultRule.do) /\ should /\ ~preMatched
    <3>1. PICK o \in HandleRule(DefaultRule, rs) :
              /\ Ran(o, "pre", IF o.err = "fail" THEN "done" ELSE "upstream")
              /\ should' = GoesOn(o.err) /\ stopped' = (o.err # "none")
      BY <2>1 DEF DefaultLast
    <3>2. ~IsResponseRule(DefaultRule) /\ DefaultRule.do \in Seq(RuleCommands)
      BY <2>1, DefaultRuleDo DEF DefaultPost
    <3>3. rs' \in FreshStates(RuleCommands) /\ ran' \in Seq(RanEntries)
      BY <3>1, <3>2, RanPre DEF RuleInv
    <3>4. rAt' \in {"upstream", "done", "panic"}
      BY <3>1 DEF Ran
    <3> QED BY <3>1, <3>3, <3>4, Zenon DEF GoesOn
  <2>2. CASE ~(HasDefault /\ ~DefaultPost /\ isTerminatingHandler(DefaultRule.do) /\ should /\ ~preMatched)
    BY <2>2 DEF DefaultLast, RuleInv
  <2> QED BY <2>1, <2>2
<1> QED BY <1>1, <1>2 DEF RuleInv

\* A lone default rule is run before the upstream.
LEMMA InvDefaultOnly == RuleInv /\ DefaultOnly => RuleInv'
<1> SUFFICES ASSUME RuleInv, DefaultOnly PROVE RuleInv'
  OBVIOUS
<1>1. upCalls' = 0 /\ rules' \in RuleLists /\ rTodo' \subseteq DOMAIN rules'
  BY DEF RuleInv, DefaultOnly
<1>2. PICK o \in HandleRule(DefaultRule, rs) :
          Ran(o, "pre", "upstream") /\ should' = GoesOn(o.err) /\ stopped' = (o.err # "none")
  BY DEF DefaultOnly
<1>3. ~IsResponseRule(DefaultRule) /\ DefaultRule.do \in Seq(RuleCommands)
  BY DefaultRuleDo DEF DefaultOnly, RuleInv
<1>4. rs' \in FreshStates(RuleCommands) /\ ran' \in Seq(RanEntries)
  BY <1>2, <1>3, RanPre DEF RuleInv
<1>5. rAt' \in {"upstream", "panic"}
  BY <1>2 DEF Ran
<1> QED BY <1>1, <1>2, <1>4, <1>5 DEF RuleInv, GoesOn

\* The next rule that is looked at.
LEMMA InvPreRule == RuleInv /\ PreRule => RuleInv'
<1> SUFFICES ASSUME RuleInv, PreRule PROVE RuleInv'
  OBVIOUS
<1> DEFINE i == First(rTodo)
           rule == rules[i]
           c == Check(rule, rs)
<1>1. i \in rTodo /\ i \in DOMAIN rules /\ i \in PreRules
  <2>1. rTodo \subseteq DOMAIN rules /\ rTodo \subseteq PreRules /\ rTodo # {}
    BY DEF RuleInv, PreRule
  <2>2. \A j \in DOMAIN rules : j \in Nat
    BY RuleAt
  <2> QED BY <2>1, <2>2, FirstIn
<1>2. rule.on \in Seq(Seq(RuleChecks)) /\ rule.do \in Seq(RuleCommands) /\ ~IsResponseRule(rule)
  BY <1>1, RuleAt DEF PreRules, IsPre
<1>3. c.s \in FreshStates(RuleCommands)
  BY <1>2, FreshCheck DEF RuleInv, CheckResults
<1>4. rules' = rules /\ PreRules' = PreRules /\ rTodo' \subseteq rTodo /\ upCalls' = 0 /\ should = TRUE
  BY RulesStay, SMTT(30) DEF PreRule, RuleInv
<1>5. rTodo' \subseteq DOMAIN rules' /\ rTodo' \subseteq PreRules'
  BY <1>4 DEF RuleInv, PreRule
<1>6. /\ rs' \in FreshStates(RuleCommands) /\ ran' \in Seq(RanEntries)
      /\ should' \in BOOLEAN /\ stopped' \in BOOLEAN /\ (stopped' => ~should') /\ rAt' \in {"pre", "last", "panic"}
  <2>1. CASE c.s.panic \/ ~c.ok
    BY <1>3, <2>1, Zenon DEF PreRule, RuleInv
  <2>2. CASE ~c.s.panic /\ c.ok /\ isBypass(rule.do)
    BY <1>3, <2>2 DEF PreRule, RuleInv, AfterBypass
  <2>3. CASE ~c.s.panic /\ c.ok /\ ~isBypass(rule.do)
    <3>1. PICK o \in HandleRule(rule, c.s) :
              /\ Ran(o, "pre", IF o.err = "none" THEN "pre" ELSE "last")
              /\ should' = GoesOn(o.err) /\ stopped' = (o.err # "none")
      BY <2>3 DEF PreRule
    <3>2. rs' \in FreshStates(RuleCommands) /\ ran' \in Seq(RanEntries)
      BY <1>2, <1>3, <3>1, RanPre
    <3>3. rAt' \in {"pre", "last", "panic"}
      BY <3>1 DEF Ran
    <3> QED BY <3>1, <3>2, <3>3, Zenon DEF GoesOn
  <2> QED BY <2>1, <2>2, <2>3, SMTT(30)
<1> HIDE DEF i, rule, c
<1> QED BY <1>4, <1>5, <1>6 DEF RuleInv

\* A response rule is run when the upstream was called or skipped.
LEMMA InvPostRule == RuleInv /\ PostRule => RuleInv'
<1> SUFFICES ASSUME RuleInv, PostRule PROVE RuleInv'
  OBVIOUS
<1> DEFINE i == First(rTodo)
           rule == rules[i]
           c == Check(rule, rs)
<1>1. i \in DOMAIN rules
  <2>1. rTodo \subseteq DOMAIN rules /\ rTodo # {}
    BY DEF RuleInv, PostRule
  <2>2. \A j \in DOMAIN rules : j \in Nat
    BY RuleAt
  <2> QED BY <2>1, <2>2, FirstIn
<1>2. rule.on \in Seq(Seq(RuleChecks)) /\ rule.do \in Seq(RuleCommands)
  BY <1>1, RuleAt, SMTT(30)
<1>3. c.s \in FreshStates(RuleCommands)
  BY <1>2, FreshCheck, SMTT(30) DEF RuleInv, CheckResults
<1>4. rules' = rules /\ rTodo' \subseteq DOMAIN rules' /\ should' = should /\ stopped' = stopped /\ upCalls' = upCalls
  BY DEF PostRule, RuleInv
<1>5. rs' \in FreshStates(RuleCommands) /\ ran' \in Seq(RanEntries) /\ rAt' \in {"post", "done", "panic"}
  <2>1. CASE c.s.panic \/ ~c.ok
    BY <1>3, <2>1 DEF PostRule, RuleInv
  <2>2. CASE ~c.s.panic /\ c.ok
    <3>1. PICK o \in HandleRule(rule, c.s) : Ran(o, "post", IF o.err = "none" THEN "post" ELSE "done")
      BY <2>2 DEF PostRule
    <3>2. rAt' \in {"post", "done", "panic"}
      BY <3>1 DEF Ran
    <3> QED BY <1>2, <1>3, <3>1, <3>2, RanPost, SMTT(30)
  <2> QED BY <2>1, <2>2, SMTT(30)
<1> HIDE DEF i, rule, c
<1> QED BY <1>4, <1>5 DEF RuleInv

\* The upstream is called for a request that was not stopped.
LEMMA InvCallUpstream == RuleInv /\ CallUpstream => RuleInv'
<1> SUFFICES ASSUME RuleInv, CallUpstream PROVE RuleInv'
  OBVIOUS
<1>1. rs' \in FreshStates(RuleCommands)
  <2>1. CASE should
    <3>1. PICK n \in {200, 502}, h \in {<<>>, <<"up">>} :
              rs' = Write([rs EXCEPT !.status = n, !.rheader = @ \o h], "upstream")
      BY <2>1 DEF CallUpstream
    <3> DEFINE t == [rs EXCEPT !.status = n]
    <3>2. rs \in FreshStates(RuleCommands) /\ n \in Nat
      BY DEF RuleInv
    <3>3. t \in FreshStates(RuleCommands)
      BY <3>2, FreshStatus
    <3>4. t.rheader = rs.rheader
      BY <3>2 DEF FreshStates, ReqStates
    <3>5. rs' = Write([t EXCEPT !.rheader = rs.rheader \o h], "upstream")
      BY <3>1
    <3> HIDE DEF t
    <3>6. rs.rheader \in Seq(Texts) /\ h \in Seq(Texts) /\ "upstream" \in Texts
      <4>1. "up" \in Texts /\ "upstream" \in Texts
        BY DEF Texts
      <4>2. rs.rheader \in Seq(Texts)
        BY <3>2 DEF FreshStates, ReqStates
      <4>3. <<>> \in Seq(Texts) /\ <<"up">> \in Seq(Texts)
        BY <4>1, OneElement
      <4> QED BY <4>1, <4>2, <4>3, Zenon
    <3>7. rs.rheader \o h \in Seq(Texts)
      BY <3>6
    <3> DEFINE v == [t EXCEPT !.rheader = rs.rheader \o h]
    <3>8. v \in FreshStates(RuleCommands)
      BY <3>3, <3>7, FreshFields, Zenon
    <3> HIDE DEF v
    <3>9. Append(v.body, "upstream") \in Seq(Texts)
      BY <3>6, <3>8 DEF FreshStates, ReqStates
    <3>10. [v EXCEPT !.body = Append(v.body, "upstream")] \in FreshStates(RuleCommands)
      BY <3>8, <3>9, FreshFields, Zenon
    <3> QED BY <3>5, <3>10 DEF Write, v
  <2>2. CASE ~should
    BY <2>2 DEF CallUpstream, RuleInv
  <2> QED BY <2>1, <2>2
<1>2. rules' = rules /\ rTodo' \subseteq DOMAIN rules' /\ rAt' = "post"
  BY DEF CallUpstream, PostRules
<1>3. stopped' => ~should' /\ upCalls' = 0
  BY DEF CallUpstream, RuleInv
<1> QED BY <1>1, <1>2, <1>3 DEF CallUpstream, RuleInv

\* So is a default rule that is a response rule.
LEMMA InvPostDone == RuleInv /\ PostDone => RuleInv'
<1> SUFFICES ASSUME RuleInv, PostDone PROVE RuleInv'
  OBVIOUS
<1>1. rs' \in FreshStates(RuleCommands) /\ ran' \in Seq(RanEntries) /\ rAt' \in {"done", "panic"}
  <2>1. CASE DefaultPost
    <3>1. PICK o \in HandleRule(DefaultRule, rs) : Ran(o, "post", "done")
      BY <2>1 DEF PostDone
    <3>2. rAt' \in {"done", "panic"}
      BY <3>1 DEF Ran
    <3> QED BY <3>1, <3>2, DefaultRuleDo, RanPost DEF RuleInv
  <2>2. CASE ~DefaultPost
    BY <2>2 DEF PostDone, RuleInv
  <2> QED BY <2>1, <2>2
<1> QED BY <1>1 DEF PostDone, RuleInv

\* FlushRelease empties the cache, which stays fresh.
LEMMA InvFlushRelease == RuleInv /\ FlushRelease => RuleInv'
<1> SUFFICES ASSUME RuleInv, FlushRelease PROVE RuleInv'
  OBVIOUS
<1>1. rs' \in FreshStates(RuleCommands)
  <2>1. NoEntry \in Entries /\ NoEntry.set = FALSE
    BY DEF NoEntry, Entries
  <2>2. rs \in ReqStates(RuleCommands)
    BY DEF RuleInv, FreshStates
  <2> DEFINE n == IF rs.status = 0 THEN 200 ELSE rs.status
  <2>3. n \in Nat
    BY <2>2 DEF ReqStates
  <2>4. rs' = [rs EXCEPT !.status = n, !.cq = NoEntry, !.cc = NoEntry, !.ca = NoEntry]
    BY DEF FlushRelease
  <2> HIDE DEF n
  <2> QED BY <2>1, <2>2, <2>3, <2>4, Zenon DEF FreshStates, ReqStates, Fresh
<1> QED BY <1>1 DEF FlushRelease, RuleInv

\* The invariant of the handler.
THEOREM RuleInvariant == RuleSpec => []RuleInv
<1>1. RuleInv /\ [RuleNext]_ruleVars => RuleInv'
  <2> SUFFICES ASSUME RuleInv, [RuleNext]_ruleVars PROVE RuleInv'
    OBVIOUS
  <2>1. CASE UNCHANGED ruleVars
    <3>1. rules' = rules /\ PreRules' = PreRules /\ DefaultRule' = DefaultRule
      BY <2>1, RulesStay DEF ruleVars
    <3> QED BY <2>1, <3>1 DEF RuleInv, ruleVars
  <2> QED BY <2>1, InvBuildHandler, InvDefaultFirst, InvPreRule, InvPreDone, InvDefaultLast, InvDefaultOnly,
             InvCallUpstream, InvPostRule, InvPostDone, InvFlushRelease DEF RuleNext
<1> QED BY <1>1, RuleInit_Inv, PTL DEF RuleSpec

\* What the cache of a request holds parsed is what the request says, whatever the rules
\* have set, added and removed (GetQueries, UpdateQueries, GetCookies, UpdateCookies).
THEOREM CacheIsFresh == RuleSpec => []CacheFresh
<1>1. RuleInv => CacheFresh
  BY DEF RuleInv, FreshStates, Fresh, CacheFresh
<1> QED BY <1>1, RuleInvariant, PTL

\* A request that a rule has answered, refused or failed on is not forwarded.
THEOREM StoppedStays == RuleSpec => []StoppedNotForwarded
<1>1. RuleInv => StoppedNotForwarded
  BY DEF RuleInv, StoppedNotForwarded
<1> QED BY <1>1, RuleInvariant, PTL

\* A command that needs the response is never run among the rules before the upstream.
THEOREM ResponseCommandsWait == RuleSpec => []ResponseCommandsLast
<1>1. RuleInv => ResponseCommandsLast
  <2> SUFFICES ASSUME RuleInv, NEW i \in DOMAIN ran, ran[i].at = "pre", NEW j \in DOMAIN ran[i].ops
               PROVE  ~IsOnResponse(ran[i].ops[j])
    BY DEF ResponseCommandsLast
  <2>1. ran[i] \in RanEntries
    BY DEF RuleInv
  <2>2. ran[i].ops \in Seq(PreCommands)
    BY <2>1 DEF RanEntries
  <2>3. ran[i].ops[j] \in PreCommands
    BY <2>2
  <2> QED BY <2>3 DEF PreCommands
<1> QED BY <1>1, RuleInvariant, PTL

(***************************************************************************)
(* Lookup: the route of a host.                                             *)
(***************************************************************************)
\* Lists of the same length with the same elements are the same.
LEMMA SameList ==
    ASSUME NEW S, NEW s \in Seq(S), NEW t \in Seq(S), Len(s) = Len(t), \A i \in 1..Len(s) : s[i] = t[i]
    PROVE  s = t
OBVIOUS

\* A host is what is left of it without a suffix, followed by the suffix.
LEMMA CutJoin ==
    ASSUME NEW S, NEW host \in Seq(S), NEW d \in Seq(S), HasSuffix(host, d)
    PROVE  CutSuffix(host, d) \in Seq(S) /\ CutSuffix(host, d) \o d = host
<1> DEFINE n == Len(host)
           m == Len(d)
           t == CutSuffix(host, d)
<1>1. n \in Nat /\ m \in Nat /\ m <= n
  BY DEF HasSuffix
<1>2. t \in Seq(S) /\ Len(t) = n - m /\ \A i \in 1..(n - m) : t[i] = host[i]
  BY <1>1 DEF CutSuffix
<1>3. \A i \in 1..m : d[i] = host[n - m + i]
  <2> SUFFICES ASSUME NEW i \in 1..m PROVE d[i] = host[n - m + i]
    OBVIOUS
  <2>1. d = SubSeq(host, n - m + 1, n)
    BY DEF HasSuffix
  <2>2. SubSeq(host, n - m + 1, n)[i] = host[(n - m + 1) + i - 1]
    BY <1>1
  <2> QED BY <1>1, <2>1, <2>2
<1> HIDE DEF n, m, t
<1>4. t \o d \in Seq(S) /\ Len(t \o d) = n
  BY <1>1, <1>2 DEF m
<1>5. \A i \in 1..n : (t \o d)[i] = host[i]
  <2> SUFFICES ASSUME NEW i \in 1..n PROVE (t \o d)[i] = host[i]
    BY Zenon
  <2>1. CASE i <= n - m
    BY <1>1, <1>2, <2>1
  <2>2. CASE i > n - m
    <3>1. (t \o d)[i] = d[i - (n - m)]
      BY <1>1, <1>2, <2>2 DEF m
    <3>2. i - (n - m) \in 1..m /\ n - m + (i - (n - m)) = i
      BY <1>1, <2>2
    <3> QED BY <1>3, <3>1, <3>2
  <2>3. i <= n - m \/ i > n - m
    BY <1>1
  <2> QED BY <2>1, <2>2, <2>3, Zenon
<1>6. t \o d = host
  BY <1>4, <1>5, SameList, Zenon DEF n
<1> QED BY <1>2, <1>6 DEF t

\* A host that is a name followed by a domain is cut back into the two.
LEMMA JoinCut ==
    ASSUME NEW S, NEW host \in Seq(S), NEW d \in Seq(S), NEW t \in Seq(S), t \o d = host
    PROVE  HasSuffix(host, d) /\ CutSuffix(host, d) = t /\ Len(host) = Len(t) + Len(d)
<1>1. Len(host) = Len(t) + Len(d) /\ Len(t) \in Nat /\ Len(d) \in Nat
  OBVIOUS
<1> DEFINE u == SubSeq(host, Len(t) + 1, Len(host))
           v == SubSeq(host, 1, Len(t))
<1>2. u \in Seq(S) /\ Len(u) = Len(d) /\ v \in Seq(S) /\ Len(v) = Len(t)
  BY <1>1
<1>3. \A i \in 1..Len(d) : u[i] = d[i]
  <2> SUFFICES ASSUME NEW i \in 1..Len(d) PROVE u[i] = d[i]
    OBVIOUS
  <2>1. u[i] = host[Len(t) + i]
    BY <1>1
  <2>2. (t \o d)[Len(t) + i] = d[i]
    BY <1>1
  <2> QED BY <2>1, <2>2
<1>4. \A i \in 1..Len(t) : v[i] = t[i]
  BY <1>1
<1>5. u = d /\ v = t
  <2> HIDE DEF u, v
  <2> QED BY <1>2, <1>3, <1>4, SameList
<1>6. Len(host) - Len(d) + 1 = Len(t) + 1 /\ Len(host) - Len(d) = Len(t) /\ Len(d) <= Len(host)
  BY <1>1, SMTT(30)
<1> QED BY <1>1, <1>5, <1>6 DEF HasSuffix, CutSuffix

\* What FindRoute finds.
LEMMA FindsRoute ==
    ASSUME NEW x \in LookupInputs
    PROVE  IF RoutesOfHost(x) = {} THEN FindRoute(x.routes, x.domains, x.host) = NoRoute
           ELSE FindRoute(x.routes, x.domains, x.host) \in RoutesOfHost(x)
<1> DEFINE S == STRING
           host == x.host
           routes == x.routes
           domains == x.domains
<1>1. /\ host \in Seq(S) /\ host # <<>> /\ domains \in Seq(Seq(S))
      /\ \A t \in routes : t \in Seq(S) /\ t # <<>> /\ t # NoRoute
  BY AlgorithmsAssumption
<1>2. CASE domains = <<>>
  <2>1. RoutesOfHost(x) = ({<<host[1]>>} \cap routes) \cup ({host} \cap routes)
    BY <1>2 DEF RoutesOfHost
  <2>2. FindRoute(routes, domains, host) = findRouteAnyDomain(routes, host)
    BY <1>2 DEF FindRoute
  <2>3. Len(host) \in Nat /\ (Len(host) <= 1 => host = <<host[1]>>)
    <3> HIDE DEF S
    <3> QED BY <1>1
  <2> HIDE DEF host, routes, domains
  <2>4. CASE Len(host) > 1 /\ <<host[1]>> \in routes
    <3>1. findRouteAnyDomain(routes, host) = <<host[1]>>
      BY <1>1, <2>4 DEF findRouteAnyDomain, Registered
    <3>2. <<host[1]>> \in RoutesOfHost(x)
      BY <2>1, <2>4, SMTT(30)
    <3> QED BY <2>2, <3>1, <3>2 DEF host, routes, domains
  <2>5. CASE ~(Len(host) > 1 /\ <<host[1]>> \in routes)
    <3>1. findRouteAnyDomain(routes, host) = Registered(routes, host)
      BY <2>5 DEF findRouteAnyDomain, Registered
    <3>2. <<host[1]>> \in routes => host = <<host[1]>>
      BY <2>3, <2>5, SMTT(30)
    <3> QED BY <1>1, <2>1, <2>2, <3>1, <3>2 DEF Registered, host, routes, domains
  <2> QED BY <2>4, <2>5 DEF host, routes, domains
<1>3. CASE domains # <<>>
  <2> DEFINE fitting == {i \in DOMAIN domains : HasSuffix(host, domains[i]) /\ Len(domains[i]) < Len(host)}
             found == {i \in fitting : CutSuffix(host, domains[i]) \in routes}
             byDomain == UNION {{t \in routes : t \o domains[i] = host} : i \in DOMAIN domains}
  <2>1. RoutesOfHost(x) = byDomain \cup ({host} \cap routes)
    BY <1>3 DEF RoutesOfHost
  <2>2. FindRoute(routes, domains, host) =
            IF found # {} THEN CutSuffix(host, domains[Lowest(found)]) ELSE Registered(routes, host)
    BY <1>3, Zenon DEF FindRoute, findRouteByDomains, Tried, Lowest
  <2>3. \A i \in DOMAIN domains : domains[i] \in Seq(S) /\ i \in Nat
    <3> HIDE DEF S
    <3> QED BY <1>1
  <2>4. CASE found # {}
    <3>1. Lowest(found) \in found
      BY <2>3, <2>4, LowestIn, Zenon
    <3> DEFINE i == Lowest(found)
               t == CutSuffix(host, domains[i])
    <3>2. i \in DOMAIN domains /\ HasSuffix(host, domains[i]) /\ t \in routes
      BY <3>1
    <3>3. t \o domains[i] = host
      <4> HIDE DEF i, t, S
      <4> QED BY <1>1, <2>3, <3>2, CutJoin, Zenon DEF t
    <3> HIDE DEF i
    <3>4. t \in byDomain
      <4> HIDE DEF t, host, routes, domains
      <4> QED BY <3>2, <3>3
    <3>5. FindRoute(routes, domains, host) = t
      BY <2>2, <2>4 DEF i
    <3> HIDE DEF t, byDomain, host, routes, domains
    <3>6. t \in RoutesOfHost(x)
      BY <2>1, <3>4
    <3> QED BY <3>5, <3>6, SMTT(30) DEF host, routes, domains
  <2>5. CASE found = {}
    <3>1. byDomain = {}
      <4> SUFFICES ASSUME NEW i \in DOMAIN domains, NEW t \in routes, t \o domains[i] = host PROVE FALSE
        OBVIOUS
      <4>1. domains[i] \in Seq(S) /\ t \in Seq(S) /\ t # <<>> /\ host \in Seq(S)
        BY <1>1, <2>3
      <4>2. HasSuffix(host, domains[i]) /\ CutSuffix(host, domains[i]) = t /\ Len(host) = Len(t) + Len(domains[i])
        <5> HIDE DEF S, host, domains, routes
        <5> QED BY <4>1, JoinCut, Zenon
      <4>3. Len(domains[i]) < Len(host)
        <5> HIDE DEF S
        <5>1. Len(t) > 0 /\ Len(t) \in Nat /\ Len(domains[i]) \in Nat
          BY <4>1
        <5> QED BY <4>2, <5>1
      <4>4. i \in found
        BY <4>2, <4>3
      <4> QED BY <2>5, <4>4
    <3>2. FindRoute(routes, domains, host) = Registered(routes, host)
      BY <2>2, <2>5
    <3> HIDE DEF byDomain, host, routes, domains
    <3>3. RoutesOfHost(x) = {host} \cap routes
      BY <2>1, <3>1
    <3> QED BY <3>2, <3>3, SMTT(30) DEF Registered, host, routes, domains
  <2> QED BY <2>4, <2>5
<1> QED BY <1>2, <1>3

(***************************************************************************)
(* The weights of a load balancer.                                          *)
(***************************************************************************)
\* Division by a positive number.
LEMMA DivMod ==
    ASSUME NEW p \in Nat, NEW d \in Nat \ {0}
    PROVE  /\ p \div d \in Nat /\ p % d \in 0..(d - 1) /\ p = (p \div d) * d + (p % d)
           /\ p > 0 /\ p % d = 0 => p \div d > 0
<1>1. p % d \in 0..(d - 1)
  OBVIOUS
<1>2. p = d * (p \div d) + (p % d) /\ p \div d \in Int
  OBVIOUS
<1>3. p \div d >= 0
  <2> DEFINE q == p \div d
             r == p % d
  <2> HIDE DEF q, r
  <2> SUFFICES ASSUME q < 0 PROVE FALSE
    BY <1>2 DEF q
  <2>1. q \in Int /\ q <= -1 /\ r \in 0..(d - 1) /\ p = d * q + r
    BY <1>1, <1>2 DEF q, r
  <2>2. d * q <= -d
    BY <2>1
  <2> QED BY <2>1, <2>2
<1>4. d * (p \div d) = (p \div d) * d
  BY <1>2
<1>5. p > 0 /\ p % d = 0 => p \div d # 0
  BY <1>2
<1> QED BY <1>1, <1>2, <1>3, <1>4, <1>5

\* The total of a list is the last of its partial sums.
LEMMA TotalOf ==
    ASSUME NEW w \in Seq(Int)
    PROVE  \E g \in [0..Len(w) -> Int] :
              g[0] = 0 /\ (\A i \in 1..Len(w) : g[i] = g[i - 1] + w[i]) /\ Total(w) = g[Len(w)]
<1> DEFINE L == Len(w)
           f == [i \in Nat |-> [x \in Int |-> IF i \in 1..L THEN x + w[i] ELSE x]]
           body(h) == [i \in 0..L |-> IF i = 0 THEN 0 ELSE h[i - 1] + w[i]]
           sum == CHOOSE h : h = body(h)
<1>1. L \in Nat /\ \A i \in 1..L : w[i] \in Int
  OBVIOUS
<1>2. f \in [Nat -> [Int -> Int]]
  BY <1>1
<1>3. PICK g \in [0..L -> Int] : Rounds(f, 0, L, g)
  <2>1. 0 \in Int
    OBVIOUS
  <2> HIDE DEF f, L
  <2>2. \A m \in Nat : \E g \in [0..m -> Int] : Rounds(f, 0, m, g)
    BY <1>2, <2>1, LoopRuns, Zenon
  <2> QED BY <1>1, <2>2, Zenon
<1>4. g[0] = 0 /\ \A i \in 1..L : g[i] = g[i - 1] + w[i]
  <2>1. \A i \in 1..L : i \in Nat /\ i - 1 \in 0..L
    BY <1>1
  <2> QED BY <1>3, <2>1, Zenon DEF Rounds
<1>5. g = body(g)
  <2>1. \A i \in 0..L : i # 0 => i \in 1..L
    BY <1>1
  <2> QED BY <1>3, <1>4, <2>1
<1>6. sum = body(sum)
  <2> HIDE DEF body
  <2> QED BY <1>5, Zenon
<1> HIDE DEF sum
<1>7. sum[0] = 0 /\ \A i \in 1..L : sum[i] = sum[i - 1] + w[i]
  <2>1. \A i \in 1..L : i \in 0..L /\ i # 0
    BY <1>1
  <2>2. 0 \in 0..L
    BY <1>1
  <2> QED BY <1>6, <2>1, <2>2, SMTT(30)
<1>8. \A i \in 0..L : sum[i] \in Int
  <2>1. \A i \in 1..L : sum[i - 1] \in Int => sum[i] \in Int
    BY <1>1, <1>7, SMTT(30)
  <2>2. sum[0] \in Int
    BY <1>7
  <2> HIDE DEF L
  <2> QED BY <1>1, <2>1, <2>2, LoopStays, Zenon
<1>9. sum \in [0..L -> Int]
  BY <1>6, <1>8, SMTT(30)
<1>10. Total(w) = sum[L]
  BY Zenon DEF Total, sum
<1> QED BY <1>7, <1>9, <1>10

\* A list whose partial sums are known has their last as its total.
LEMMA TotalIs ==
    ASSUME NEW w \in Seq(Int), NEW v \in [0..Len(w) -> Int], v[0] = 0,
           \A i \in 1..Len(w) : v[i] = v[i - 1] + w[i]
    PROVE  Total(w) = v[Len(w)]
<1>1. PICK g \in [0..Len(w) -> Int] :
         g[0] = 0 /\ (\A i \in 1..Len(w) : g[i] = g[i - 1] + w[i]) /\ Total(w) = g[Len(w)]
  BY TotalOf, SMTT(30)
<1> DEFINE d == [i \in 0..Len(w) |-> g[i] - v[i]]
<1>2. Len(w) \in Nat
  OBVIOUS
<1>3. d[0] \in {0}
  BY <1>1, <1>2
<1>4. \A i \in 1..Len(w) : d[i - 1] \in {0} => d[i] \in {0}
  <2> SUFFICES ASSUME NEW i \in 1..Len(w), d[i - 1] = 0 PROVE d[i] = 0
    BY Zenon
  <2>1. i - 1 \in 0..Len(w) /\ i \in 0..Len(w) /\ w[i] \in Int
    BY <1>2
  <2>2. g[i] = g[i - 1] + w[i] /\ v[i] = v[i - 1] + w[i] /\ g[i - 1] \in Int /\ v[i - 1] \in Int
    BY <1>1, <2>1, Zenon
  <2>3. d[i - 1] = g[i - 1] - v[i - 1] /\ d[i] = g[i] - v[i]
    BY <2>1
  <2> HIDE DEF d
  <2> QED BY <2>1, <2>2, <2>3, SMTT(30)
<1>5. \A i \in 0..Len(w) : d[i] \in {0}
  <2> DEFINE Z == {0}
             L == Len(w)
  <2>1. L \in Nat /\ d[0] \in Z /\ \A i \in 1..L : d[i - 1] \in Z => d[i] \in Z
    BY <1>2, <1>3, <1>4, Zenon
  <2> HIDE DEF d, Z, L
  <2>2. \A i \in 0..L : d[i] \in Z
    BY <2>1, LoopStays, Zenon
  <2> QED BY <2>2 DEF Z, L
<1> QED BY <1>1, <1>2, <1>5, SMTT(30)

\* Scaling loses less than one for each server.
LEMMA ScaledOne ==
    ASSUME NEW x \in Nat, NEW sum \in Nat \ {0}, NEW cut \in {0, 1},
           cut = 1 => x * maxWeight > 0 /\ (x * maxWeight) % sum = 0
    PROVE  LET s == (x * maxWeight) \div sum - cut
           IN  s \in Nat /\ s * sum <= maxWeight * x /\ s * sum + sum >= maxWeight * x
<1> DEFINE p == x * maxWeight
           q == p \div sum
           r == p % sum
<1>1. p \in Nat /\ p = maxWeight * x
  BY DEF maxWeight
<1> HIDE DEF p
<1>2. q \in Nat /\ r \in 0..(sum - 1) /\ p = q * sum + r /\ (p > 0 /\ r = 0 => q > 0)
  BY <1>1, DivMod, Zenon
<1>3. cut = 1 => p > 0 /\ r = 0
  BY DEF p
<1> HIDE DEF q, r
<1>4. CASE cut = 0
  <2>1. (q - cut) = q
    BY <1>2, <1>4
  <2>2. q * sum \in Nat
    BY <1>2
  <2>3. q * sum <= p /\ q * sum + sum >= p
    BY <1>1, <1>2, <2>2
  <2> QED BY <1>1, <1>2, <2>1, <2>3 DEF p, q
<1>5. CASE cut = 1
  <2>1. (q - cut) \in Nat
    BY <1>2, <1>3, <1>5
  <2>2. (q - cut) * sum = q * sum - sum
    BY <1>2, <1>5
  <2>3. q * sum = p
    BY <1>1, <1>2, <1>3, <1>5
  <2> HIDE DEF p
  <2>4. (q - cut) * sum <= p /\ (q - cut) * sum + sum >= p
    BY <1>1, <2>2, <2>3
  <2> QED BY <1>1, <2>1, <2>4 DEF p, q
<1> QED BY <1>4, <1>5

\* A function on 1..n is a list of length n.
LEMMA ListOf ==
    ASSUME NEW S, NEW n \in Nat, NEW f \in [1..n -> S]
    PROVE  f \in Seq(S) /\ Len(f) = n
BY SMTT(30)

\* The total of the scaled weights is below 100 by at most one for each server.
LEMMA ScaledTotal ==
    ASSUME NEW w \in Seq(Nat), NEW low, Total(w) \in Nat \ {0}
    PROVE  LET s == Scaled(w, Total(w), low)
           IN  /\ s \in Seq(Nat) /\ Len(s) = Len(w)
               /\ Total(s) \in Int /\ maxWeight - Total(s) \in 0..Len(w)
<1> DEFINE sum == Total(w)
           s == Scaled(w, sum, low)
           L == Len(w)
<1>1. L \in Nat /\ DOMAIN w = 1..L /\ w \in Seq(Int) /\ \A i \in 1..L : w[i] \in Nat
  OBVIOUS
<1>2. \A i \in 1..L : s[i] \in Nat /\ s[i] * sum <= maxWeight * w[i] /\ s[i] * sum + sum >= maxWeight * w[i]
  <2> SUFFICES ASSUME NEW i \in 1..L
               PROVE  s[i] \in Nat /\ s[i] * sum <= maxWeight * w[i] /\ s[i] * sum + sum >= maxWeight * w[i]
    OBVIOUS
  <2> DEFINE x == w[i]
             cut == IF i \in low /\ x * maxWeight > 0 /\ (x * maxWeight) % sum = 0 THEN 1 ELSE 0
  <2>1. s[i] = (x * maxWeight) \div sum - cut
    BY <1>1 DEF Scaled
  <2>2. x \in Nat /\ sum \in Nat \ {0} /\ cut \in {0, 1} /\ (cut = 1 => x * maxWeight > 0 /\ (x * maxWeight) % sum = 0)
    BY <1>1
  <2> HIDE DEF cut, x, sum, s
  <2> QED BY <2>1, <2>2, ScaledOne, Zenon DEF x
<1>3. s \in [1..L -> Nat]
  BY <1>1, <1>2 DEF Scaled
<1>4. s \in Seq(Nat) /\ Len(s) = L
  <2> HIDE DEF s, L
  <2> QED BY <1>1, <1>3, ListOf, Zenon
<1> HIDE DEF s
<1>5. s \in Seq(Int)
  BY <1>4
<1>6. PICK g \in [0..L -> Int] : g[0] = 0 /\ (\A i \in 1..L : g[i] = g[i - 1] + w[i]) /\ sum = g[L]
  BY <1>1, TotalOf, Zenon
<1>7. PICK h \in [0..L -> Int] : h[0] = 0 /\ (\A i \in 1..L : h[i] = h[i - 1] + s[i]) /\ Total(s) = h[L]
  BY <1>4, <1>5, TotalOf, Zenon
<1> HIDE DEF sum, L
<1> DEFINE S == {i \in Nat : i <= L => h[i] * sum <= maxWeight * g[i] /\ h[i] * sum + i * sum >= maxWeight * g[i]}
<1>8. sum \in Nat \ {0}
  BY DEF sum
<1>9. 0 \in S
  BY <1>1, <1>6, <1>7, <1>8 DEF maxWeight
<1>10. ASSUME NEW i \in S PROVE i + 1 \in S
  <2> SUFFICES ASSUME i + 1 <= L
               PROVE  h[i + 1] * sum <= maxWeight * g[i + 1] /\ h[i + 1] * sum + (i + 1) * sum >= maxWeight * g[i + 1]
    OBVIOUS
  <2> DEFINE a == h[i]
             b == g[i]
             x == w[i + 1]
             y == s[i + 1]
  <2>1. i \in Nat /\ i + 1 \in 1..L /\ (i + 1) - 1 = i /\ i \in 0..L
    BY <1>1
  <2>2. h[i + 1] = a + y /\ g[i + 1] = b + x /\ a \in Int /\ b \in Int /\ x \in Nat /\ y \in Nat
    BY <1>1, <1>2, <1>6, <1>7, <2>1, Zenon
  <2>3. a * sum <= maxWeight * b /\ a * sum + i * sum >= maxWeight * b
    BY <2>1
  <2>4. y * sum <= maxWeight * x /\ y * sum + sum >= maxWeight * x
    BY <1>2, <2>1
  <2> HIDE DEF a, b, x, y, S
  <2>5. (a + y) * sum = a * sum + y * sum /\ (i + 1) * sum = i * sum + sum /\ a * sum \in Int /\ y * sum \in Int /\ i * sum \in Int
    BY <1>8, <2>1, <2>2
  <2>6. maxWeight * (b + x) = maxWeight * b + maxWeight * x /\ maxWeight * b \in Int /\ maxWeight * x \in Int
    BY <2>2 DEF maxWeight
  <2> QED BY <1>8, <2>2, <2>3, <2>4, <2>5, <2>6, SMTT(30)
<1>11. \A i \in Nat : i \in S
  <2>1. S \subseteq Nat
    BY SMTT(30)
  <2> HIDE DEF S
  <2> QED BY <1>9, <1>10, <2>1, SetOfNat, Zenon
<1>12. h[L] * sum <= maxWeight * sum /\ h[L] * sum + L * sum >= maxWeight * sum /\ h[L] \in Int
  BY <1>1, <1>6, <1>7, <1>11, SMTT(30)
<1> DEFINE e == h[L]
<1>13. e \in Int /\ e * sum <= maxWeight * sum /\ (e + L) * sum >= maxWeight * sum
  <2> HIDE DEF S
  <2> QED BY <1>1, <1>8, <1>12
<1> HIDE DEF S, e
<1>14. e <= maxWeight
  <2> SUFFICES ASSUME e >= maxWeight + 1 PROVE FALSE
    BY <1>13 DEF maxWeight
  <2>1. e * sum >= (maxWeight + 1) * sum
    BY <1>8, <1>13, SMTT(30) DEF maxWeight
  <2> QED BY <1>8, <1>13, <2>1 DEF maxWeight
<1>15. e + L >= maxWeight
  <2> SUFFICES ASSUME e + L + 1 <= maxWeight PROVE FALSE
    BY <1>1, <1>13 DEF maxWeight
  <2>1. (e + L + 1) * sum <= maxWeight * sum
    BY <1>1, <1>8, <1>13 DEF maxWeight
  <2>2. (e + L + 1) * sum = (e + L) * sum + sum
    BY <1>1, <1>8, <1>13, SMTT(30)
  <2> QED BY <1>1, <1>8, <1>13, <2>1, <2>2, SMTT(30) DEF maxWeight
<1>16. maxWeight - e \in 0..L
  BY <1>1, <1>13, <1>14, <1>15, SMTT(30) DEF maxWeight
<1> QED BY <1>4, <1>7, <1>13, <1>16 DEF s, sum, L, e

\* What is missing goes to the first servers.
LEMMA SpreadTotal ==
    ASSUME NEW s \in Seq(Nat), NEW d \in 0..Len(s)
    PROVE  Spread(s, d) \in Seq(Nat) /\ Total(Spread(s, d)) = Total(s) + d
<1> DEFINE L == Len(s)
           t == Spread(s, d)
<1>1. L \in Nat /\ DOMAIN s = 1..L /\ s \in Seq(Int) /\ d \in Nat /\ d <= L /\ \A i \in 1..L : s[i] \in Nat
  OBVIOUS
<1>2. \A i \in 1..L : t[i] = s[i] + (IF i <= d THEN 1 ELSE 0)
  BY <1>1 DEF Spread
<1>3. t \in [1..L -> Nat]
  BY <1>1, <1>2 DEF Spread
<1>4. t \in Seq(Nat) /\ Len(t) = L
  <2> HIDE DEF t, L
  <2> QED BY <1>1, <1>3, ListOf, Zenon
<1>5. PICK h \in [0..L -> Int] : h[0] = 0 /\ (\A i \in 1..L : h[i] = h[i - 1] + s[i]) /\ Total(s) = h[L]
  BY <1>1, TotalOf, Zenon
<1> HIDE DEF t, L
<1> DEFINE v == [i \in 0..L |-> h[i] + (IF i <= d THEN i ELSE d)]
<1>6. v \in [0..L -> Int] /\ v[0] = 0 /\ v[L] = h[L] + d
  BY <1>1, <1>5
<1>7. \A i \in 1..L : v[i] = v[i - 1] + t[i]
  <2> SUFFICES ASSUME NEW i \in 1..L PROVE v[i] = v[i - 1] + t[i]
    BY Zenon
  <2>1. i \in 0..L /\ i - 1 \in 0..L /\ h[i - 1] \in Int /\ s[i] \in Int
    BY <1>1, <1>5, SMTT(30)
  <2>2. v[i] = h[i] + (IF i <= d THEN i ELSE d) /\ v[i - 1] = h[i - 1] + (IF i - 1 <= d THEN i - 1 ELSE d)
    BY <2>1
  <2> HIDE DEF v
  <2>3. h[i] = h[i - 1] + s[i] /\ t[i] = s[i] + (IF i <= d THEN 1 ELSE 0)
    BY <1>2, <1>5
  <2>4. CASE i <= d
    BY <1>1, <2>1, <2>2, <2>3, <2>4, SMTT(30)
  <2>5. CASE ~(i <= d)
    <3>1. (IF i - 1 <= d THEN i - 1 ELSE d) = d
      BY <1>1, <2>1, <2>5, SMTT(30)
    <3>2. v[i] = h[i] + d /\ v[i - 1] = h[i - 1] + d /\ t[i] = s[i] + 0
      BY <2>2, <2>3, <2>5, <3>1
    <3> QED BY <1>1, <2>1, <2>3, <3>2, SMTT(30)
  <2> QED BY <2>4, <2>5
<1>8. t \in Seq(Int)
  BY <1>4
<1> HIDE DEF v
<1>9. Total(t) = v[L]
  BY <1>4, <1>6, <1>7, <1>8, TotalIs, Zenon
<1> QED BY <1>4, <1>5, <1>6, <1>9 DEF t

\* Even shares.
LEMMA EvenTotal ==
    ASSUME NEW n \in Nat \ {0}
    PROVE  LET t == Evenly(n).weights IN t \in Seq(Nat) /\ Total(t) = maxWeight
<1> DEFINE t == Evenly(n).weights
           q == maxWeight \div n
           r == maxWeight % n
<1>1. q \in Nat /\ r \in 0..(n - 1) /\ maxWeight = q * n + r
  <2>1. maxWeight \in Nat
    BY DEF maxWeight
  <2> HIDE DEF maxWeight
  <2> QED BY <2>1, DivMod, Zenon
<1>2. t = [i \in 1..n |-> q + (IF i <= r THEN 1 ELSE 0)]
  BY DEF Evenly
<1> HIDE DEF q, r, t
<1>3. t \in [1..n -> Nat]
  BY <1>1, <1>2
<1>4. t \in Seq(Nat) /\ Len(t) = n
  BY <1>3, ListOf, Zenon
<1>5. t \in Seq(Int)
  BY <1>4
<1> DEFINE v == [i \in 0..n |-> i * q + (IF i <= r THEN i ELSE r)]
<1>6. v \in [0..n -> Int] /\ v[0] = 0 /\ v[n] = maxWeight
  <2>1. \A i \in 0..n : i * q \in Int
    BY <1>1
  <2>2. 0 * q = 0 /\ n * q = q * n
    BY <1>1
  <2> QED BY <1>1, <2>1, <2>2
<1>7. \A i \in 1..n : v[i] = v[i - 1] + t[i]
  <2> SUFFICES ASSUME NEW i \in 1..n PROVE v[i] = v[i - 1] + t[i]
    BY Zenon
  <2>1. i \in 0..n /\ i - 1 \in 0..n /\ i * q = (i - 1) * q + q /\ (i - 1) * q \in Int
    BY <1>1
  <2>2. v[i] = i * q + (IF i <= r THEN i ELSE r) /\ v[i - 1] = (i - 1) * q + (IF i - 1 <= r THEN i - 1 ELSE r)
    BY <2>1
  <2>3. t[i] = q + (IF i <= r THEN 1 ELSE 0)
    BY <1>2
  <2> HIDE DEF v
  <2> QED BY <1>1, <2>1, <2>2, <2>3, SMTT(30)
<1> HIDE DEF v
<1>8. Total(t) = v[n]
  BY <1>4, <1>5, <1>6, <1>7, TotalIs, Zenon
<1> QED BY <1>4, <1>6, <1>8 DEF t

\* rebalance on any weights.
LEMMA Rebalances ==
    ASSUME NEW w \in Seq(Nat), NEW r \in DoRebalance(w, Total(w))
    PROVE  /\ w # <<>> => Total(r.weights) = maxWeight
           /\ \A i \in DOMAIN r.weights : r.weights[i] >= 0
<1>1. Total(w) \in Nat
  <2>1. PICK g \in [0..Len(w) -> Int] :
           g[0] = 0 /\ (\A i \in 1..Len(w) : g[i] = g[i - 1] + w[i]) /\ Total(w) = g[Len(w)]
    <3>1. w \in Seq(Int)
      OBVIOUS
    <3> QED BY <3>1, TotalOf
  <2> DEFINE L == Len(w)
  <2>2. L \in Nat /\ \A i \in 1..L : w[i] \in Nat
    OBVIOUS
  <2>3. g[0] \in Nat /\ \A i \in 1..L : g[i - 1] \in Nat => g[i] \in Nat
    BY <2>1, <2>2, SMTT(30)
  <2> HIDE DEF L
  <2>4. \A i \in 0..L : g[i] \in Nat
    BY <2>2, <2>3, LoopStays, Zenon
  <2>5. g[L] \in Nat
    BY <2>2, <2>4
  <2> QED BY <2>1, <2>5 DEF L
<1>2. \A t \in Seq(Nat) : \A i \in DOMAIN t : t[i] >= 0
  OBVIOUS
<1>3. CASE Total(w) = maxWeight \/ w = <<>>
  <2>1. r = [weights |-> w, sum |-> Total(w)]
    <3>1. ~(Total(w) = 0 /\ w # <<>>)
      BY <1>3, SMTT(30) DEF maxWeight
    <3> QED BY <1>3, <3>1, Zenon DEF DoRebalance
  <2> QED BY <1>2, <1>3, <2>1
<1>4. CASE Total(w) # maxWeight /\ w # <<>> /\ Total(w) = 0
  <2>1. r = Evenly(Len(w))
    BY <1>4 DEF DoRebalance, maxWeight
  <2>2. Len(w) \in Nat \ {0}
    BY <1>4
  <2> QED BY <1>2, <2>1, <2>2, EvenTotal
<1>5. CASE Total(w) # maxWeight /\ w # <<>> /\ Total(w) # 0
  <2>1. PICK low : r.weights = LET s == Scaled(w, Total(w), low) IN Spread(s, maxWeight - Total(s))
    BY <1>5, SMTT(30) DEF DoRebalance
  <2> DEFINE s == Scaled(w, Total(w), low)
             d == maxWeight - Total(s)
  <2>2. s \in Seq(Nat) /\ Len(s) = Len(w) /\ Total(s) \in Int /\ d \in 0..Len(w)
    BY <1>1, <1>5, ScaledTotal, SMTT(30)
  <2>3. r.weights = Spread(s, d)
    BY <2>1
  <2>4. Spread(s, d) \in Seq(Nat) /\ Total(Spread(s, d)) = Total(s) + d
    <3> HIDE DEF s, d
    <3> QED BY <2>2, SpreadTotal
  <2>5. Total(s) + d = maxWeight
    <3> HIDE DEF s
    <3> QED BY <2>2 DEF maxWeight
  <2> HIDE DEF s, d
  <2> QED BY <1>2, <2>3, <2>4, <2>5
<1> QED BY <1>3, <1>4, <1>5

(***************************************************************************)
(* The compose files.                                                       *)
(***************************************************************************)
\* What is known only grows, and then builds at least the same chains.
LEMMA BuildsMore ==
    ASSUME NEW chain, NEW K, NEW P, K \subseteq P, Builds(chain, K)
    PROVE  Builds(chain, P)
BY DEF Builds

\* What is known after each file of a pass.
Passes(K, files, g) ==
    /\ g[0] = K
    /\ \A i \in 1..Len(files) : g[i] = g[i - 1] \cup BuildFile(files[i], g[i - 1])
    /\ LoadPass(K, files) = g[Len(files)]

\* A pass goes from file to file.
LEMMA PassRuns ==
    ASSUME NEW K, NEW files, DOMAIN files = 1..Len(files), Len(files) \in Nat
    PROVE  \E g : Passes(K, files, g)
<1> DEFINE L == Len(files)
           U == K \cup UNION {DOMAIN files[i] : i \in 1..L}
           T == SUBSET U
           f == [i \in Nat |-> [x \in T |-> IF i \in 1..L THEN x \cup BuildFile(files[i], x) ELSE x]]
           body(h) == [i \in 0..L |-> IF i = 0 THEN K ELSE Register(h[i - 1], BuildFile(files[i], h[i - 1]))]
           after == CHOOSE h : h = body(h)
<1>1. L \in Nat /\ K \in T /\ \A i \in 1..L : i \in Nat /\ i # 0 /\ i \in 0..L /\ i - 1 \in 0..L
  OBVIOUS
<1>2. f \in [Nat -> [T -> T]]
  <2> SUFFICES ASSUME NEW i \in Nat, NEW x \in T, i \in 1..L PROVE x \cup BuildFile(files[i], x) \in T
    OBVIOUS
  <2> QED BY SMTT(30) DEF BuildFile
<1>3. PICK g \in [0..L -> T] : Rounds(f, K, L, g)
  <2> HIDE DEF f, T, L
  <2> QED BY <1>1, <1>2, LoopRuns, Zenon
<1>4. \A i \in 1..L : g[i - 1] \in T
  BY <1>1, <1>3, SMTT(30)
<1>5. g[0] = K /\ \A i \in 1..L : g[i] = g[i - 1] \cup BuildFile(files[i], g[i - 1])
  <2> HIDE DEF T
  <2> QED BY <1>1, <1>3, <1>4, Zenon DEF Rounds
<1>6. g = body(g)
  <2>1. \A i \in 0..L : i # 0 => i \in 1..L
    BY <1>1
  <2> HIDE DEF T, L
  <2> QED BY <1>3, <1>5, <2>1 DEF Register
<1>7. after = body(after)
  <2> HIDE DEF body
  <2> QED BY <1>6, Zenon
<1> HIDE DEF after
<1>8. after[0] = K /\ \A i \in 1..L : after[i] = after[i - 1] \cup BuildFile(files[i], after[i - 1])
  <2>1. 0 \in 0..L
    BY <1>1
  <2> HIDE DEF T, L
  <2> QED BY <1>1, <1>7, <2>1, Zenon DEF Register
<1>9. LoadPass(K, files) = after[L]
  BY Zenon DEF LoadPass, after
<1> QED BY <1>8, <1>9 DEF Passes

\* What one pass over the files does: it forgets nothing, it builds the chains that use
\* what was known before, and what it adds uses only what is known after.
LEMMA OnePass ==
    ASSUME NEW K, NEW files, DOMAIN files = 1..Len(files), Len(files) \in Nat
    PROVE  LET P == LoadPass(K, files) IN
           /\ K \subseteq P
           /\ \A i \in DOMAIN files : \A n \in DOMAIN files[i] : Builds(files[i][n], K) => n \in P
           /\ \A n \in P \ K : \E i \in DOMAIN files : n \in DOMAIN files[i] /\ Builds(files[i][n], P)
<1> DEFINE L == Len(files)
           P == LoadPass(K, files)
<1>0. PICK g : Passes(K, files, g)
  BY PassRuns, Zenon
<1>1. /\ g[0] = K
      /\ \A i \in 1..L : g[i] = g[i - 1] \cup BuildFile(files[i], g[i - 1])
      /\ P = g[L]
  BY <1>0 DEF Passes
<1>2. L \in Nat /\ DOMAIN files = 1..L
  OBVIOUS
<1> HIDE DEF L, P
<1>3. \A i, k \in Nat : i + k <= L => g[i] \subseteq g[i + k]
  <2> SUFFICES ASSUME NEW i \in Nat PROVE \A k \in Nat : i + k <= L => g[i] \subseteq g[i + k]
    BY Zenon
  <2> DEFINE S == {k \in Nat : i + k <= L => g[i] \subseteq g[i + k]}
  <2>1. 0 \in S
    OBVIOUS
  <2>2. ASSUME NEW k \in S PROVE k + 1 \in S
    <3> SUFFICES ASSUME i + (k + 1) <= L PROVE g[i] \subseteq g[i + (k + 1)]
      OBVIOUS
    <3>1. i + (k + 1) \in 1..L /\ (i + (k + 1)) - 1 = i + k /\ i + k <= L
      BY <1>2
    <3>2. g[i + k] \subseteq g[i + (k + 1)]
      BY <1>1, <3>1
    <3> QED BY <3>1, <3>2
  <2>3. S \subseteq Nat
    OBVIOUS
  <2>4. \A k \in Nat : k \in S
    <3> HIDE DEF S
    <3> QED BY <2>1, <2>2, <2>3, SetOfNat, Zenon
  <2> QED BY <2>4
<1>4. \A i \in 0..L : K \subseteq g[i] /\ g[i] \subseteq P
  <2> SUFFICES ASSUME NEW i \in 0..L PROVE K \subseteq g[i] /\ g[i] \subseteq P
    OBVIOUS
  <2>1. 0 \in Nat /\ i \in Nat /\ L - i \in Nat /\ 0 + i = i /\ i + (L - i) = L /\ i <= L /\ L <= L
    BY <1>2
  <2>2. g[0] \subseteq g[0 + i] /\ g[i] \subseteq g[i + (L - i)]
    BY <1>3, <2>1, Zenon
  <2> QED BY <1>1, <2>1, <2>2, SMTT(30)
<1>5. K \subseteq P
  BY <1>2, <1>4
<1>6. ASSUME NEW i \in DOMAIN files, NEW n \in DOMAIN files[i], Builds(files[i][n], K) PROVE n \in P
  <2>1. i \in 1..L /\ i \in 0..L /\ i - 1 \in 0..L
    BY <1>2
  <2>2. Builds(files[i][n], g[i - 1])
    BY <1>4, <1>6, <2>1, BuildsMore
  <2>3. n \in g[i]
    BY <1>1, <2>1, <2>2, SMTT(30) DEF BuildFile
  <2> QED BY <1>4, <2>1, <2>3
<1>7. \A n \in P \ K : \E i \in DOMAIN files : n \in DOMAIN files[i] /\ Builds(files[i][n], P)
  <2> DEFINE good == {n \in P : n \in K \/ \E i \in DOMAIN files : n \in DOMAIN files[i] /\ Builds(files[i][n], P)}
             T == SUBSET good
  <2>1. g[0] \in T
    BY <1>1, <1>5, SMTT(30)
  <2>2. ASSUME NEW i \in 1..L, g[i - 1] \in T PROVE g[i] \in T
    <3> SUFFICES ASSUME NEW n \in g[i] PROVE n \in good
      OBVIOUS
    <3>1. i \in 0..L /\ i - 1 \in 0..L
      BY <1>2
    <3>2. n \in P
      BY <1>4, <3>1
    <3>3. CASE n \in g[i - 1]
      BY <2>2, <3>3
    <3>4. CASE n \in BuildFile(files[i], g[i - 1])
      <4>1. n \in DOMAIN files[i] /\ Builds(files[i][n], g[i - 1])
        BY <3>4 DEF BuildFile
      <4>2. Builds(files[i][n], P)
        BY <1>4, <3>1, <4>1, BuildsMore
      <4> QED BY <1>2, <3>2, <4>1, <4>2, SMTT(30)
    <3> QED BY <1>1, <3>3, <3>4, SMTT(30)
  <2>3. \A i \in 0..L : g[i] \in T
    <3> HIDE DEF T
    <3> QED BY <1>2, <2>1, <2>2, LoopStays, Zenon
  <2>4. P \in T
    BY <1>1, <1>2, <2>3, SMTT(30)
  <2> QED BY <2>4, SMTT(30)
<1> QED BY <1>2, <1>5, <1>6, <1>7 DEF P, L

\* Two passes resolve the references of one level, in whichever order the files come.
LEMMA TwoPasses ==
    ASSUME NEW files, DOMAIN files = 1..Len(files), Len(files) \in Nat,
           NEW o, o = LoadComposeFiles({"builtin"}, files)
    PROVE  LET uses(i, n) == {files[i][n][j] : j \in DOMAIN files[i][n]}
               plain == {n \in UNION {DOMAIN files[i] : i \in DOMAIN files} :
                            \E i \in DOMAIN files : n \in DOMAIN files[i] /\ uses(i, n) \subseteq {"builtin"}}
           IN  /\ \A i \in DOMAIN files : \A n \in DOMAIN files[i] :
                     uses(i, n) \subseteq (plain \cup {"builtin"}) \ {""} => n \in o
               /\ \A n \in o \ {"builtin"} :
                     \E i \in DOMAIN files : n \in DOMAIN files[i] /\ uses(i, n) \subseteq o
<1> DEFINE K == {"builtin"}
           P == LoadPass(K, files)
           uses(i, n) == {files[i][n][j] : j \in DOMAIN files[i][n]}
           plain == {n \in UNION {DOMAIN files[i] : i \in DOMAIN files} :
                        \E i \in DOMAIN files : n \in DOMAIN files[i] /\ uses(i, n) \subseteq {"builtin"}}
<1>1. o = LoadPass(P, files)
  BY SMTT(30) DEF LoadComposeFiles
<1>2. /\ K \subseteq P
      /\ \A i \in DOMAIN files : \A n \in DOMAIN files[i] : Builds(files[i][n], K) => n \in P
      /\ \A n \in P \ K : \E i \in DOMAIN files : n \in DOMAIN files[i] /\ Builds(files[i][n], P)
  <2> HIDE DEF K
  <2> QED BY OnePass, SMTT(30)
<1> HIDE DEF P
<1>3. /\ P \subseteq o
      /\ \A i \in DOMAIN files : \A n \in DOMAIN files[i] : Builds(files[i][n], P) => n \in o
      /\ \A n \in o \ P : \E i \in DOMAIN files : n \in DOMAIN files[i] /\ Builds(files[i][n], o)
  BY <1>1, OnePass, SMTT(30)
<1>4. plain \subseteq P
  <2> SUFFICES ASSUME NEW n, NEW i \in DOMAIN files, n \in DOMAIN files[i], uses(i, n) \subseteq K PROVE n \in P
    BY Zenon
  <2>1. Builds(files[i][n], K)
    BY DEF Builds
  <2> QED BY <1>2, <2>1, SMTT(30)
<1>5. ASSUME NEW i \in DOMAIN files, NEW n \in DOMAIN files[i], uses(i, n) \subseteq (plain \cup K) \ {""} PROVE n \in o
  <2> HIDE DEF plain, K
  <2>1. Builds(files[i][n], P)
    BY <1>2, <1>4, <1>5 DEF Builds
  <2> QED BY <1>3, <2>1
<1>6. ASSUME NEW n \in o \ K PROVE \E i \in DOMAIN files : n \in DOMAIN files[i] /\ uses(i, n) \subseteq o
  <2>1. PICK i \in DOMAIN files : n \in DOMAIN files[i] /\ Builds(files[i][n], o)
    <3>1. CASE n \in P
      <4>1. PICK i \in DOMAIN files : n \in DOMAIN files[i] /\ Builds(files[i][n], P)
        BY <1>2, <3>1
      <4> QED BY <1>3, <4>1, BuildsMore, SMTT(30)
    <3>2. CASE n \notin P
      BY <1>3, <3>2
    <3> QED BY <3>1, <3>2
  <2> QED BY <2>1 DEF Builds
<1> QED BY <1>5, <1>6

(***************************************************************************)
(* The routes of containers and files.                                      *)
(***************************************************************************)
\* The last of some places.
LEMMA LastIn ==
    ASSUME NEW L \in Nat, NEW S, S \subseteq 1..L, S # {}
    PROVE  (CHOOSE i \in S : \A j \in S : j <= i) \in S
BY LastPosition, Zenon

\* Two port mappings with the L ports of c, by private and by public port.
PortsFrom(c, L, private, public) ==
    /\ \A k \in DOMAIN private : \E i \in 1..L : private[k] = c.ports[i] /\ c.ports[i].priv = k
    /\ \A k \in DOMAIN public : \E i \in 1..L : public[k] = c.ports[i] /\ c.ports[i].pub = k

\* Every port mapping holds ports of the container, under one of their numbers.
LEMMA PortMaps ==
    ASSUME NEW c, NEW L \in Nat, DOMAIN c.ports = 1..L
    PROVE  PortsFrom(c, L, getPrivatePortMapping(c), getPublicPortMapping(c))
<1> DEFINE last(S) == CHOOSE i \in S : \A j \in S : j <= i
           lastPriv(k) == last({i \in 1..L : c.ports[i].priv = k})
           lastPub(k) == last({i \in 1..L : c.ports[i].pub = k})
<1>1. getPrivatePortMapping(c) = [k \in {c.ports[i].priv : i \in 1..L} |-> c.ports[lastPriv(k)]]
  BY DEF getPrivatePortMapping, Mapping
<1>2. /\ DOMAIN getPublicPortMapping(c) = {c.ports[i].pub : i \in 1..L} \ {0}
      /\ \A k \in {c.ports[i].pub : i \in 1..L} \ {0} : getPublicPortMapping(c)[k] = c.ports[lastPub(k)]
  BY Zenon DEF getPublicPortMapping, Mapping
<1>3. \A k \in {c.ports[i].priv : i \in 1..L} : lastPriv(k) \in 1..L /\ c.ports[lastPriv(k)].priv = k
  <2> SUFFICES ASSUME NEW k \in {c.ports[i].priv : i \in 1..L}
               PROVE  lastPriv(k) \in {i \in 1..L : c.ports[i].priv = k}
    BY Zenon
  <2> DEFINE S == {i \in 1..L : c.ports[i].priv = k}
  <2>1. S \subseteq 1..L /\ S # {}
    OBVIOUS
  <2> HIDE DEF S
  <2>2. last(S) \in S
    BY <2>1, LastIn, Zenon
  <2> QED BY <2>2, SMTT(30) DEF S
<1>4. \A k \in {c.ports[i].pub : i \in 1..L} : lastPub(k) \in 1..L /\ c.ports[lastPub(k)].pub = k
  <2> SUFFICES ASSUME NEW k \in {c.ports[i].pub : i \in 1..L}
               PROVE  lastPub(k) \in {i \in 1..L : c.ports[i].pub = k}
    BY Zenon
  <2> DEFINE S == {i \in 1..L : c.ports[i].pub = k}
  <2>1. S \subseteq 1..L /\ S # {}
    OBVIOUS
  <2> HIDE DEF S
  <2>2. last(S) \in S
    BY <2>1, LastIn, Zenon
  <2> QED BY <2>2 DEF S
<1> HIDE DEF lastPriv, lastPub
<1>5. \A k \in DOMAIN getPrivatePortMapping(c) :
         getPrivatePortMapping(c)[k] = c.ports[lastPriv(k)] /\ k \in {c.ports[i].priv : i \in 1..L}
  BY <1>1
<1>6. \A k \in DOMAIN getPublicPortMapping(c) :
         getPublicPortMapping(c)[k] = c.ports[lastPub(k)] /\ k \in {c.ports[i].pub : i \in 1..L}
  BY <1>2
<1> QED BY <1>3, <1>4, <1>5, <1>6 DEF PortsFrom

\* The port taken for a container is one of its mapping, or none.
LEMMA PreferredIn ==
    ASSUME NEW m, NEW p \in preferredPort(m)
    PROVE  p \in DOMAIN m \/ p = 0
<1> DEFINE preferred == {i \in DOMAIN preferredPortOrder : preferredPortOrder[i] \in DOMAIN m}
<1>1. CASE preferred # {}
  <2>1. preferred \subseteq Nat
    BY SMTT(30) DEF preferredPortOrder
  <2>2. p = preferredPortOrder[Lowest(preferred)]
    BY <1>1 DEF preferredPort, Lowest
  <2>3. Lowest(preferred) \in preferred
    <3> HIDE DEF preferred
    <3> QED BY <1>1, <2>1, LowestIn, Zenon
  <2> QED BY <2>2, <2>3
<1>2. CASE preferred = {}
  BY <1>2 DEF preferredPort
<1> QED BY <1>1, <1>2

\* The fields of a route.
RouteFields ==
    {"alias", "scheme", "host", "lport", "pport", "rules", "ruleFile", "healthcheck", "link", "idle", "cont",
     "agent", "agentName", "proxmox", "provider", "valErr", "excluded", "reason"}

\* Two routes that differ at most in the fields that validate sets before its checks.
Close(f, v) == DOMAIN v = DOMAIN f /\ \A k \in DOMAIN f \ {"idle", "rules", "host", "pport"} : v[k] = f[k]

\* The route v on which validate decides about the exclusion of f.
Decides(f, v) ==
    /\ Close(f, v)
    /\ ValidateFinal(f) = [v EXCEPT !.excluded = ShouldExclude(v),
                                    !.reason = IF ShouldExclude(v) THEN findExcludedReason(v) ELSE "none"]
    /\ f.proxmox = "no" /\ f.scheme # "fileserver" => v.host = f.host /\ v.pport = f.pport

\* A route that validate accepts: what it decides about the exclusion, it decides on a
\* route close to the one Finalize left, with the same address.
LEMMA ValidateAccepts ==
    ASSUME NEW f, DOMAIN f = RouteFields, ~ValidateFinal(f).valErr,
           f.ruleFile \in {"none", "ok", "bad"}, f.proxmox \in {"no", "ok", "incomplete", "unreachable"}
    PROVE  \E v : Decides(f, v)
<1> DEFINE p == ResolveProxmox(f)
           i == IF HasContainer(p) /\ p.cont.idle = "valid" THEN [p EXCEPT !.idle = "valid"] ELSE p
           u == ValidateRules(i)
           v == IF u.scheme = "fileserver" THEN [u EXCEPT !.host = "", !.pport = 0] ELSE u
           good == [v EXCEPT !.excluded = ShouldExclude(v),
                             !.reason = IF ShouldExclude(v) THEN findExcludedReason(v) ELSE "none"]
<1>1. ValidateFinal(f) = IF p.valErr \/ u.valErr \/ Checked(v) THEN Failed(v) ELSE good
  BY DEF ValidateFinal
<1>2. p = f \/ p = [f EXCEPT !.host = "10.0.0.9"] \/ p = Failed(f)
  BY DEF ResolveProxmox
<1>3. f.proxmox = "no" => p = f
  BY DEF ResolveProxmox
<1> HIDE DEF p
<1>4. DOMAIN p = RouteFields /\ p.ruleFile \in {"none", "ok", "bad"}
  BY <1>2 DEF Failed, RouteFields
<1>5. DOMAIN i = RouteFields /\ i.ruleFile \in {"none", "ok", "bad"}
  BY <1>4 DEF RouteFields
<1>6. Close(p, i) /\ i.host = p.host /\ i.pport = p.pport
  BY <1>4, SMTT(30) DEF RouteFields, Close
<1> HIDE DEF i
<1>7. DOMAIN u = RouteFields /\ (u = Failed(i) \/ (Close(i, u) /\ u.host = i.host /\ u.pport = i.pport))
  <2>1. CASE HasContainer(i)
    <3>1. u = [i EXCEPT !.rules = @ \/ i.cont.image = "godoxy-frontend"]
      BY <2>1 DEF ValidateRules
    <3> HIDE DEF u
    <3> QED BY <1>5, <3>1 DEF RouteFields, Close
  <2>2. CASE ~HasContainer(i)
    <3>1. u = i \/ u = Failed(i) \/ u = [i EXCEPT !.rules = TRUE]
      BY <1>5, <2>2 DEF ValidateRules
    <3> HIDE DEF u
    <3> QED BY <1>5, <3>1 DEF RouteFields, Close, Failed
  <2> QED BY <2>1, <2>2
<1> HIDE DEF u
<1>8. DOMAIN v = RouteFields /\ Close(u, v) /\ (u.scheme # "fileserver" => v = u)
  BY <1>7, Zenon DEF RouteFields, Close
<1> HIDE DEF v
<1>9. Failed(v).valErr = TRUE
  BY <1>8 DEF Failed, RouteFields
<1>10. ~p.valErr /\ ~u.valErr /\ ValidateFinal(f) = good
  BY <1>1, <1>9
<1>11. p # Failed(f) /\ u # Failed(i)
  BY <1>5, <1>10 DEF Failed, RouteFields
<1>12. Close(f, p)
  BY <1>2, <1>11 DEF RouteFields, Close
<1>13. Close(i, u) /\ u.host = i.host /\ u.pport = i.pport
  BY <1>7, <1>11, SMTT(30)
<1>14. Close(f, v)
  BY <1>6, <1>8, <1>12, <1>13, Zenon DEF Close
<1>15. f.proxmox = "no" /\ f.scheme # "fileserver" => v.host = f.host /\ v.pport = f.pport
  <2>1. u.scheme = f.scheme
    BY <1>6, <1>12, <1>13 DEF Close, RouteFields
  <2> QED BY <1>3, <1>6, <1>8, <1>13, <2>1
<1> QED BY <1>10, <1>14, <1>15, Zenon DEF Decides

\* The conditions of ShouldExclude and of findExcludedReason are the same.
LEMMA ReasonsAgree ==
    ASSUME NEW v, ~v.valErr, ~v.excluded, v.reason = "none"
    PROVE  ShouldExclude(v) <=> findExcludedReason(v) # "none"
<1> DEFINE inContainer == \/ v.cont.excluded
                          \/ NoPortContainer(v)
                          \/ ~v.cont.explicit /\ v.cont.blacklisted
                          \/ v.cont.name \in BuildxNames
<1>1. inContainer <=> ContainerReason(v) # "none"
  BY DEF ContainerReason
<1>2. ShouldExclude(v) <=> \/ HasContainer(v) /\ inContainer
                           \/ ~HasContainer(v) /\ IsZeroPort(v) /\ v.scheme # "fileserver"
                           \/ v.alias \in OldNames
  BY DEF ShouldExclude
<1> HIDE DEF inContainer
<1> QED BY <1>1, <1>2 DEF findExcludedReason

\* What Finalize sets: the host, and the port and the scheme for one of the possible
\* ports.
LEMMA FinalizeSets ==
    ASSUME NEW g, DOMAIN g = RouteFields, NEW f \in Finalize(g)
    PROVE  /\ DOMAIN f = RouteFields
           /\ \A k \in RouteFields \ {"alias", "host", "pport", "scheme", "healthcheck"} : f[k] = g[k]
           /\ \E before \in IF Known(g).port # 0 THEN {Known(g).port} ELSE DefaultPort(g, Known(g).scheme) :
                 /\ f.host = FinalHost(g)
                 /\ f.pport = IF HasContainer(g) THEN Translate(g, FinalHost(g), before) ELSE before
                 /\ f.scheme = FinalScheme(g, Known(g).scheme, before, f.pport)
<1> DEFINE port(b) == IF HasContainer(g) THEN Translate(g, FinalHost(g), b) ELSE b
           scheme(b) == FinalScheme(g, Known(g).scheme, b, port(b))
<1>1. PICK b \in IF Known(g).port # 0 THEN {Known(g).port} ELSE DefaultPort(g, Known(g).scheme) :
         f = [g EXCEPT !.alias = Normal[g.alias], !.host = FinalHost(g), !.pport = port(b), !.scheme = scheme(b),
                       !.healthcheck = IF @ = "nil" THEN "default" ELSE @]
  BY Zenon DEF Finalize
<1> HIDE DEF port, scheme
<1>2. /\ DOMAIN f = RouteFields /\ f.host = FinalHost(g) /\ f.pport = port(b) /\ f.scheme = scheme(b)
      /\ \A k \in RouteFields \ {"alias", "host", "pport", "scheme", "healthcheck"} : f[k] = g[k]
  BY <1>1, Zenon DEF RouteFields
<1> QED BY <1>1, <1>2 DEF port, scheme

\* An excluded route has a reason, and only an excluded route.
LEMMA ValidateReasons ==
    ASSUME NEW g, DOMAIN g = RouteFields, ~g.excluded, g.reason = "none",
           g.ruleFile \in {"none", "ok", "bad"}, g.proxmox \in {"no", "ok", "incomplete", "unreachable"},
           NEW r \in Validate(g), ~r.valErr
    PROVE  (r.excluded <=> r.reason # "none") /\ (r.excluded => findExcludedReason(r) = r.reason)
<1> DEFINE h == [g EXCEPT !.agent = g.agentName # ""]
<1>1. DOMAIN h = RouteFields /\ \A k \in RouteFields \ {"agent"} : h[k] = g[k]
  BY DEF RouteFields
<1>2. Failed(g).valErr = TRUE
  BY DEF Failed, RouteFields
<1>3. PICK f \in Finalize(h) : r = ValidateFinal(f)
  BY <1>2 DEF Validate
<1> HIDE DEF h
<1>4. DOMAIN f = RouteFields /\ \A k \in {"excluded", "reason", "ruleFile", "proxmox"} : f[k] = g[k]
  BY <1>1, FinalizeSets DEF RouteFields
<1>5. PICK v : /\ Close(f, v)
               /\ r = [v EXCEPT !.excluded = ShouldExclude(v),
                                !.reason = IF ShouldExclude(v) THEN findExcludedReason(v) ELSE "none"]
  <2>1. PICK v : Decides(f, v)
    BY <1>3, <1>4, ValidateAccepts
  <2> QED BY <1>3, <2>1, Zenon DEF Decides
<1>6. DOMAIN v = RouteFields /\ v.excluded = g.excluded /\ v.reason = "none"
  BY <1>4, <1>5 DEF Close, RouteFields
<1>7. /\ r.excluded = ShouldExclude(v) /\ r.valErr = v.valErr
      /\ r.reason = IF ShouldExclude(v) THEN findExcludedReason(v) ELSE "none"
  BY <1>5, <1>6, SMTT(30) DEF RouteFields
<1>8. ShouldExclude(v) <=> findExcludedReason(v) # "none"
  BY <1>6, <1>7, ReasonsAgree, SMTT(30)
<1>9. r.excluded <=> r.reason # "none"
  BY <1>7, <1>8, SMTT(30)
<1> QED BY <1>7, <1>9 DEF findExcludedReason

\* The private address of a container without an error is none or one of its networks.
LEMMA PrivateHost ==
    ASSUME NEW c, NEW h \in setPrivateHostname(c), h # "?", h # ""
    PROVE  \E n \in DOMAIN c.nets : h = c.nets[n]
<1> DEFINE addr(n) == IF n \in DOMAIN c.nets THEN c.nets[n] ELSE ""
<1>1. \A n : addr(n) # "" => n \in DOMAIN c.nets /\ addr(n) = c.nets[n]
  OBVIOUS
<1>2. \E n : h = addr(n)
  BY DEF setPrivateHostname
<1> HIDE DEF addr
<1> QED BY <1>1, <1>2

\* What a route knows of its container.
LEMMA ContainerOf ==
    ASSUME NEW d, ~d.hostNet, NEW c \in FromDocker(d), ~c.err
    PROVE  /\ c # NoContainer /\ c.image = d.image /\ ~c.hostNet
           /\ c.publicPorts = getPublicPortMapping(d) /\ c.privatePorts = getPrivatePortMapping(d)
           /\ c.privateHost # "" => \E n \in DOMAIN d.nets : c.privateHost = d.nets[n]
<1>1. PICK h \in setPrivateHostname(d) :
         c = [ name |-> d.name, id |-> d.id, image |-> d.image, running |-> d.running,
               hostNet |-> d.hostNet, explicit |-> d.explicit, excluded |-> d.excluded,
               blacklisted |-> IsBlacklisted(d), idle |-> d.idle, agent |-> d.agent,
               publicPorts |-> IF d.hostNet THEN UpdatePorts(d, getPublicPortMapping(d))
                                            ELSE getPublicPortMapping(d),
               privatePorts |-> getPrivatePortMapping(d),
               publicHost |-> setPublicHostname(d), privateHost |-> h,
               err |-> \/ h = "?" \/ d.idle = "invalid"
                       \/ h = "" /\ setPublicHostname(d) = "" /\ d.running ]
  BY Zenon DEF FromDocker
<1>2. c.privateHost = h /\ c.image = d.image /\ ~c.hostNet /\ h # "?"
  BY <1>1
<1>3. c.publicPorts = getPublicPortMapping(d) /\ c.privatePorts = getPrivatePortMapping(d)
  BY <1>1
<1>4. "id" \in DOMAIN c /\ "id" \notin DOMAIN NoContainer
  BY <1>1, Zenon DEF NoContainer
<1> QED BY <1>2, <1>3, <1>4, PrivateHost

\* The address and the port of a route without an error that is not excluded.
LEMMA Endpoint ==
    ASSUME NEW x \in RouteInputs, NEW r \in ContainerRoutes(x),
           ~r.valErr, ~r.excluded, ~UseIdleWatcher(r), ~x.c.hostNet, x.port = 0,
           x.c.image \notin DOMAIN ImagePort, Normal[x.alias] \notin DOMAIN AliasPort
    PROVE  \E i \in DOMAIN x.c.ports :
              \/ r.host \in {x.c.nets[n] : n \in DOMAIN x.c.nets} /\ r.pport = x.c.ports[i].priv
              \/ r.host = r.cont.publicHost /\ r.pport = x.c.ports[i].pub /\ r.pport # 0
<1> DEFINE d == x.c
<1>1. PICK c \in FromDocker(d) : ~c.err /\ r \in Validate(NewRoute(x.alias, x.port, c))
  BY SMTT(30) DEF ContainerRoutes
<1>2. /\ c # NoContainer /\ c.image = d.image /\ ~c.hostNet
      /\ c.publicPorts = getPublicPortMapping(d) /\ c.privatePorts = getPrivatePortMapping(d)
      /\ c.privateHost # "" => \E n \in DOMAIN d.nets : c.privateHost = d.nets[n]
  BY <1>1, ContainerOf
<1> DEFINE L == Len(d.ports)
<1>3. L \in Nat /\ DOMAIN d.ports = 1..L
  BY AlgorithmsAssumption, Zenon
<1>4. PortsFrom(d, L, c.privatePorts, c.publicPorts)
  <2> HIDE DEF L, d
  <2>1. PortsFrom(d, L, getPrivatePortMapping(d), getPublicPortMapping(d))
    BY <1>3, PortMaps, Zenon
  <2> QED BY <1>2, <2>1
<1> DEFINE e == NewRoute(x.alias, x.port, c)
           g == [e EXCEPT !.agent = e.agentName # ""]
<1>5. DOMAIN e = RouteFields /\ e.agentName = ""
  BY Zenon DEF NewRoute, RouteFields
<1>6. PICK f \in Finalize(g) : r = ValidateFinal(f)
  <2> HIDE DEF g
  <2>1. r \in {ValidateFinal(f) : f \in Finalize(g)}
    BY <1>1, <1>5 DEF Validate, g
  <2> QED BY <2>1
<1>7. /\ DOMAIN g = RouteFields /\ g.cont = c /\ g.pport = 0 /\ g.scheme = "none" /\ g.host = "" /\ g.lport = 0
      /\ g.alias = x.alias /\ g.ruleFile = "none" /\ g.proxmox = "no"
  BY DEF NewRoute, RouteFields
<1> HIDE DEF g, e, L, d
<1>8. HasContainer(g)
  BY <1>2, <1>7 DEF HasContainer
<1>9. Known(g) = [scheme |-> "none", port |-> 0]
  BY <1>2, <1>7, <1>8, Zenon DEF Known, ByTable, d
<1>10. /\ DOMAIN f = RouteFields
       /\ \A k \in RouteFields \ {"alias", "host", "pport", "scheme", "healthcheck"} : f[k] = g[k]
       /\ \E before \in DefaultPort(g, "none") :
             /\ f.host = FinalHost(g)
             /\ f.pport = Translate(g, FinalHost(g), before)
             /\ f.scheme = FinalScheme(g, "none", before, f.pport)
  <2>1. Known(g).port = 0 /\ Known(g).scheme = "none"
    BY <1>9
  <2>2. /\ DOMAIN f = RouteFields
        /\ \A k \in RouteFields \ {"alias", "host", "pport", "scheme", "healthcheck"} : f[k] = g[k]
        /\ \E before \in IF Known(g).port # 0 THEN {Known(g).port} ELSE DefaultPort(g, Known(g).scheme) :
              /\ f.host = FinalHost(g)
              /\ f.pport = IF HasContainer(g) THEN Translate(g, FinalHost(g), before) ELSE before
              /\ f.scheme = FinalScheme(g, Known(g).scheme, before, f.pport)
    BY <1>6, <1>7, FinalizeSets, Zenon
  <2> QED BY <1>8, <2>1, <2>2, Zenon
<1>11. PICK before \in preferredPort(c.privatePorts) :
          /\ f.host = FinalHost(g)
          /\ f.pport = Translate(g, FinalHost(g), before)
          /\ f.scheme = FinalScheme(g, "none", before, f.pport)
  <2>1. DefaultPort(g, "none") = preferredPort(c.privatePorts)
    BY <1>2, <1>7, <1>8 DEF DefaultPort
  <2> QED BY <1>10, <2>1, Zenon
<1>12. f.scheme # "fileserver"
  BY <1>7, <1>11 DEF FinalScheme
<1>13. f.cont = c /\ f.ruleFile = "none" /\ f.proxmox = "no"
  BY <1>7, <1>10 DEF RouteFields
<1>14. PICK v : Decides(f, v)
  BY <1>6, <1>10, <1>13, ValidateAccepts, Zenon
<1>15. /\ DOMAIN v = RouteFields /\ v.host = f.host /\ v.pport = f.pport /\ v.cont = c
       /\ r = [v EXCEPT !.excluded = ShouldExclude(v),
                        !.reason = IF ShouldExclude(v) THEN findExcludedReason(v) ELSE "none"]
  <2>1. Close(f, v)
    BY <1>14, SMTT(30) DEF Decides
  <2>2. DOMAIN v = RouteFields /\ v.cont = c
    BY <1>10, <1>13, <2>1, Zenon DEF Close, RouteFields
  <2> QED BY <1>6, <1>12, <1>13, <1>14, <2>2, SMTT(30) DEF Decides
<1>16. r.host = f.host /\ r.pport = f.pport /\ r.cont = c /\ r.idle = v.idle /\ r.excluded = ShouldExclude(v)
  BY <1>15 DEF RouteFields
<1>17. r.pport # 0
  <2>1. HasContainer(v) /\ ~UseIdleWatcher(v)
    BY <1>2, <1>15, <1>16 DEF HasContainer, UseIdleWatcher
  <2>2. ~ShouldExclude(v)
    BY <1>16, SMTT(30)
  <2>3. ~IsZeroPort(v)
    BY <2>1, <2>2, SMTT(30) DEF ShouldExclude, NoPortContainer
  <2> QED BY <1>15, <1>16, <2>3, SMTT(30) DEF IsZeroPort
<1>18. before \in DOMAIN c.privatePorts \/ before = 0
  BY <1>11, PreferredIn, Zenon
<1>19. FinalHost(g) = IF c.privateHost # "" THEN c.privateHost ELSE c.publicHost
  BY <1>7, <1>8, AlgorithmsAssumption DEF FinalHost
<1>20. CASE FinalHost(g) = c.publicHost
  <2>1. f.pport = IF before \in DOMAIN c.privatePorts THEN c.privatePorts[before].pub ELSE before
    BY <1>7, <1>11, <1>20, Zenon DEF Translate
  <2>2. before \in DOMAIN c.privatePorts /\ r.pport = c.privatePorts[before].pub
    BY <1>16, <1>17, <1>18, <2>1, SMTT(30)
  <2>3. PICK i \in 1..L : c.privatePorts[before] = d.ports[i]
    BY <1>4, <2>2, SMTT(30) DEF PortsFrom
  <2> QED BY <1>3, <1>11, <1>16, <1>17, <1>20, <2>2, <2>3, Zenon DEF d
<1>21. CASE FinalHost(g) # c.publicHost
  <2>1. f.pport = IF before \in DOMAIN c.publicPorts THEN c.publicPorts[before].priv ELSE before
    BY <1>7, <1>11, <1>21 DEF Translate
  <2>2. r.host \in {d.nets[n] : n \in DOMAIN d.nets}
    BY <1>2, <1>11, <1>16, <1>19, <1>21, Zenon
  <2>3. \E i \in 1..L : r.pport = d.ports[i].priv
    <3>1. CASE before \in DOMAIN c.publicPorts
      <4>1. r.pport = c.publicPorts[before].priv
        BY <1>16, <2>1, <3>1, Zenon
      <4>2. PICK i \in 1..L : c.publicPorts[before] = d.ports[i]
        BY <1>4, <3>1, SMTT(30) DEF PortsFrom
      <4> QED BY <4>1, <4>2, Zenon
    <3>2. CASE before \notin DOMAIN c.publicPorts
      <4>1. r.pport = before /\ before \in DOMAIN c.privatePorts
        BY <1>16, <1>17, <1>18, <2>1, <3>2, SMTT(30)
      <4> QED BY <1>4, <4>1 DEF PortsFrom
    <3> QED BY <3>1, <3>2, SMTT(30)
  <2> QED BY <1>3, <2>2, <2>3, SMTT(30) DEF d
<1> QED BY <1>20, <1>21, Zenon

(***************************************************************************)
(* Each algorithm on any input.                                             *)
(***************************************************************************)
\* What is known of a step's result: it is what the algorithm makes of its input.
TakeInv ==
    /\ part = "container" => in \in RouteInputs /\ out = ContainerRoutes(in)
    /\ part = "file" => in \in FileRoutes /\ out = Validate(in)
    /\ part = "weights" => in \in WeightInputs /\ out = DoRebalance(in, Total(in))
    /\ part = "compose" => in \in ComposeInputs /\ out = {LoadComposeFiles({"builtin"}, in)}
    /\ part = "lookup" => in \in LookupInputs /\ out = {FindRoute(in.routes, in.domains, in.host)}

\* The result of an algorithm stays what it makes of its input.
LEMMA TakeInvariant == TakeSpec => []TakeInv
<1>1. TakeStart => TakeInv
  BY DEF TakeStart, TakeInv
<1>2. TakeInv /\ [Take]_<<part, in, out>> => TakeInv'
  <2> SUFFICES ASSUME TakeInv, [Take]_<<part, in, out>> PROVE TakeInv'
    BY SMTT(30)
  <2>1. CASE Take
    BY <2>1, SMTT(30) DEF Take, TakeInv
  <2>2. CASE UNCHANGED <<part, in, out>>
    BY <2>2, SMTT(30) DEF TakeInv
  <2> QED BY <2>1, <2>2
<1> QED BY <1>1, <1>2, PTL DEF TakeSpec

\* Whatever the containers, their networks, ports and labels: a route to a container that
\* is neither invalid nor excluded leads to an address of the container with one of its
\* private ports, or to the public address of its host with a published one.
THEOREM RoutesReachContainers == TakeSpec => []RouteEndpoint
<1>1. TakeInv => RouteEndpoint
  BY Endpoint, Zenon DEF TakeInv, RouteEndpoint
<1> QED BY <1>1, TakeInvariant, PTL

\* Whatever the containers and the routes of files: a valid route is excluded exactly when
\* it has a reason, the one that findExcludedReason gives for it afterwards, too.
THEOREM ReasonsOfExcluded == TakeSpec => []ExcludedHasReason
<1>1. TakeInv => ExcludedHasReason
  <2> SUFFICES ASSUME TakeInv, part \in {"container", "file"}, NEW r \in out, ~r.valErr
               PROVE  (r.excluded <=> r.reason # "none") /\ (r.excluded => findExcludedReason(r) = r.reason)
    BY SMTT(30) DEF ExcludedHasReason
  <2>1. CASE part = "container"
    <3>1. PICK c : r \in Validate(NewRoute(in.alias, in.port, c))
      BY <2>1, SMTT(30) DEF TakeInv, ContainerRoutes
    <3> DEFINE g == NewRoute(in.alias, in.port, c)
    <3>2. DOMAIN g = RouteFields /\ ~g.excluded /\ g.reason = "none" /\ g.ruleFile = "none" /\ g.proxmox = "no"
      BY Zenon DEF NewRoute, RouteFields
    <3> HIDE DEF g
    <3> QED BY <3>1, <3>2, ValidateReasons, SMTT(30) DEF g
  <2>2. CASE part = "file"
    <3>1. in \in FileRoutes /\ r \in Validate(in)
      BY <2>2, SMTT(30) DEF TakeInv
    <3>2. DOMAIN NewRoute("", 0, NoContainer) = RouteFields
      BY Zenon DEF NewRoute, RouteFields
    <3>3. /\ DOMAIN in = RouteFields /\ ~in.excluded /\ in.reason = "none"
          /\ in.ruleFile \in {"none", "ok", "bad"} /\ in.proxmox \in {"no", "ok", "incomplete", "unreachable"}
      BY <3>1, <3>2, AlgorithmsAssumption, Zenon
    <3> QED BY <3>1, <3>3, ValidateReasons, SMTT(30)
  <2> QED BY <2>1, <2>2
<1> QED BY <1>1, TakeInvariant, PTL

\* Whatever the number of servers and their weights, and however the products of
\* floating-point numbers are rounded: rebalance makes shares of exactly 100 of them, none
\* negative.
THEOREM SharesOfHundred == TakeSpec => []RebalanceExact
<1>1. TakeInv => RebalanceExact
  <2> SUFFICES ASSUME TakeInv, part = "weights", NEW r \in out
               PROVE  /\ in # <<>> => Total(r.weights) = maxWeight
                      /\ \A i \in DOMAIN r.weights : r.weights[i] >= 0
    BY SMTT(30) DEF RebalanceExact
  <2>1. in \in Seq(Nat) /\ r \in DoRebalance(in, Total(in))
    BY AlgorithmsAssumption DEF TakeInv
  <2> QED BY <2>1, Rebalances, SMTT(30)
<1> QED BY <1>1, TakeInvariant, PTL

\* Whatever the compose files and their order: two passes load every chain whose entries
\* are built in or use chains of built-in middlewares, and no chain that uses one that is
\* not loaded.
THEOREM ComposeChainsResolve == TakeSpec => []ComposeResolves
<1>1. TakeInv => ComposeResolves
  <2> SUFFICES ASSUME TakeInv, part = "compose" PROVE ComposeResolves
    BY DEF ComposeResolves
  <2>1. DOMAIN in = 1..Len(in) /\ Len(in) \in Nat /\ out = {LoadComposeFiles({"builtin"}, in)}
    BY AlgorithmsAssumption, Zenon DEF TakeInv
  <2> DEFINE o == LoadComposeFiles({"builtin"}, in)
  <2>2. out = {o}
    BY <2>1, SMTT(30)
  <2> HIDE DEF o
  <2> QED BY <2>1, <2>2, TwoPasses DEF ComposeResolves, o
<1> QED BY <1>1, TakeInvariant, PTL

\* Whatever the routes, the match domains and the host: the lookup finds a route exactly
\* when the host may be for one, and then one of those.
THEOREM HostFindsItsRoute == TakeSpec => []LookupExact
<1>1. TakeInv => LookupExact
  <2> SUFFICES ASSUME TakeInv, part = "lookup", NEW o \in out
               PROVE  IF RoutesOfHost(in) = {} THEN o = NoRoute ELSE o \in RoutesOfHost(in)
    BY SMTT(30) DEF LookupExact
  <2>1. in \in LookupInputs /\ o = FindRoute(in.routes, in.domains, in.host)
    BY DEF TakeInv
  <2> QED BY <2>1, FindsRoute, SMTT(30)
<1> QED BY <1>1, TakeInvariant, PTL
=============================================================================
