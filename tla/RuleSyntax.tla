----------------------------- MODULE RuleSyntax -----------------------------
(***************************************************************************)
(* The three hand-written scanners of the rules (internal/route/rules):     *)
(* parse (parser.go), which splits a line into a subject and arguments;     *)
(* splitAnd and splitPipe (on.go), which split conditions before parse sees *)
(* them; and ExpandVars with extractArgs (vars.go), which expands the       *)
(* variables of a template.                                                 *)
(*                                                                          *)
(* A line is a sequence of characters, one of each kind the scanners tell   *)
(* apart: two quotes, a backslash, brackets, braces, dollar, pipe, and,     *)
(* space and letters.                                                       *)
(***************************************************************************)
EXTENDS Naturals, Sequences, FiniteSets, SequencesExt

Quotes == {"'", "quote"}
EnvVars == { <<"x">> }  \* the variables of the environment; the value of x is "E"

-----------------------------------------------------------------------------
(***************************************************************************)
(* parse                                                                    *)
(***************************************************************************)
ParseStart == [subject |-> <<>>, args |-> <<>>, buf |-> <<>>, esc |-> FALSE, quote |-> "", br |-> 0,
               brace |-> FALSE, inEnv |-> FALSE, env |-> <<>>, err |-> "none"]

TrimLeft(s) == IF \E i \in DOMAIN s : s[i] # " "
               THEN SubSeq(s, CHOOSE i \in DOMAIN s : s[i] # " " /\ \A j \in 1..(i - 1) : s[j] = " ", Len(s))
               ELSE <<>>
Trim(s) == Reverse(TrimLeft(Reverse(TrimLeft(s))))

\* flush: what is in the buffer becomes the subject or an argument; spaces alone stay.
ParseFlush(st, quoted) ==
    LET part == IF quoted THEN st.buf ELSE TrimLeft(st.buf)
    IN  IF ~quoted /\ part = <<>> THEN st
        ELSE IF st.subject = <<>> THEN [st EXCEPT !.subject = part, !.buf = <<>>]
        ELSE [st EXCEPT !.args = Append(@, part), !.buf = <<>>]

Emit(st, ch) == [st EXCEPT !.buf = Append(@, ch)]

ParseQuote(st, ch) ==
    CASE st.quote = "" /\ st.br = 0 -> ParseFlush([st EXCEPT !.quote = ch], FALSE)
      [] st.quote = ch -> [ParseFlush(st, TRUE) EXCEPT !.quote = ""]
      [] OTHER -> Emit(st, ch)

ParseBrace(st, ch) ==
    CASE ch = "$" -> IF st.brace THEN Emit([st EXCEPT !.brace = FALSE], "$") ELSE [st EXCEPT !.brace = TRUE]
      [] ch = "{" -> IF st.brace THEN [st EXCEPT !.inEnv = TRUE, !.brace = FALSE, !.env = <<>>] ELSE Emit(st, ch)
      [] ch = "}" -> IF ~st.inEnv THEN Emit(st, ch)
                     ELSE IF st.env \in EnvVars THEN Emit([st EXCEPT !.inEnv = FALSE], "E")
                     ELSE [st EXCEPT !.inEnv = FALSE, !.err = "missing"]

\* Brackets count inside quotes too.
ParseOther(st, ch) ==
    CASE ch = "(" -> Emit([st EXCEPT !.br = @ + 1], ch)
      [] ch = ")" -> IF st.br = 0 THEN [st EXCEPT !.err = "brackets"] ELSE Emit([st EXCEPT !.br = @ - 1], ch)
      [] ch = " " -> IF st.quote = "" THEN ParseFlush(st, FALSE) ELSE Emit(st, ch)
      [] OTHER -> IF st.inEnv THEN [st EXCEPT !.env = Append(@, ch)] ELSE Emit(st, ch)

\* escapedChars; before any other character the backslash stays.
Escaped(ch) == IF ch \in Quotes \cup {"\\", " "} THEN <<ch>> ELSE <<"\\", ch>>

ParseChar(st, ch) ==
    LET plain == IF st.brace /\ ch \notin {"{", "$"} THEN Emit([st EXCEPT !.brace = FALSE], "$") ELSE st
    IN  CASE st.err = "brackets" -> st
          [] st.err # "brackets" /\ st.esc -> [st EXCEPT !.esc = FALSE, !.buf = @ \o Escaped(ch)]
          [] st.err # "brackets" /\ ~st.esc ->
                CASE ch \in Quotes -> ParseQuote(plain, ch)
                  [] ch = "\\" -> [plain EXCEPT !.esc = TRUE]
                  [] ch \in {"$", "{", "}"} -> ParseBrace(plain, ch)
                  [] OTHER -> ParseOther(plain, ch)

ParseEnd(st) ==
    CASE st.err = "brackets" -> st
      [] st.err # "brackets" ->
            LET e == IF st.brace THEN Emit(st, "$") ELSE st
            IN  IF e.quote # "" THEN [e EXCEPT !.err = "quotes"]
                ELSE IF e.br # 0 THEN [e EXCEPT !.err = "brackets"]
                ELSE IF e.inEnv THEN [e EXCEPT !.err = "env"]
                ELSE ParseFlush(e, FALSE)

parse(line) ==
    LET after[i \in 0..Len(line)] == IF i = 0 THEN ParseStart ELSE ParseChar(after[i - 1], line[i])
    IN  ParseEnd(after[Len(line)])

-----------------------------------------------------------------------------
(***************************************************************************)
(* splitAnd and splitPipe                                                   *)
(***************************************************************************)
\* Mutant: empty segments are kept.
AndPartsAll(parts, s) == Append(parts, Trim(s))

\* A segment without its spaces, if anything is left.
AndParts(parts, s) == IF Trim(s) = <<>> THEN parts ELSE Append(parts, Trim(s))

splitAnd(line) ==
    LET step(st, ch) == IF ch = "&" THEN [parts |-> AndParts(st.parts, st.cur), cur |-> <<>>]
                        ELSE [st EXCEPT !.cur = Append(@, ch)]
        after[i \in 0..Len(line)] ==
            IF i = 0 THEN [parts |-> <<>>, cur |-> <<>>] ELSE step(after[i - 1], line[i])
        end == after[Len(line)]
    IN  AndParts(end.parts, end.cur)

PipeStart == [parts |-> <<>>, cur |-> <<>>, esc |-> FALSE, quote |-> "", br |-> 0]

\* Mutant: any quote ends a quoted text.
PipeQuoteAny(st, ch) ==
    IF st.quote = "" /\ st.br = 0 THEN [st EXCEPT !.quote = ch] ELSE [st EXCEPT !.quote = ""]

PipeQuote(st, ch) ==
    IF st.quote = "" /\ st.br = 0 THEN [st EXCEPT !.quote = ch]
    ELSE IF st.quote = ch THEN [st EXCEPT !.quote = ""] ELSE st

PipeChar(st, ch) ==
    LET kept(t) == [t EXCEPT !.cur = Append(@, ch)]
    IN  CASE st.esc -> kept([st EXCEPT !.esc = FALSE])
          [] ~st.esc /\ ch = "\\" -> kept([st EXCEPT !.esc = TRUE])
          [] ~st.esc /\ ch \in Quotes -> kept(PipeQuote(st, ch))
          [] ~st.esc /\ ch = "(" -> kept([st EXCEPT !.br = @ + 1])
          [] ~st.esc /\ ch = ")" -> kept([st EXCEPT !.br = IF @ > 0 THEN @ - 1 ELSE 0])
          [] ~st.esc /\ ch = "|" /\ st.quote = "" /\ st.br = 0 ->
                [st EXCEPT !.parts = Append(@, Trim(st.cur)), !.cur = <<>>]
          [] OTHER -> kept(st)

splitPipe(line) ==
    LET after[i \in 0..Len(line)] == IF i = 0 THEN PipeStart ELSE PipeChar(after[i - 1], line[i])
        end == after[Len(line)]
    IN  IF end.cur = <<>> THEN end.parts ELSE Append(end.parts, Trim(end.cur))

\* parseOn: each alternative is parsed by itself, and an error of one is an error of
\* the condition.
parseOn(line) ==
    LET ors == splitPipe(line)
    IN  IF Len(ors) > 1 THEN [i \in DOMAIN ors |-> parse(ors[i])] ELSE <<parse(line)>>

-----------------------------------------------------------------------------
(***************************************************************************)
(* ExpandVars.  The letter s is the name of a static variable and d of one  *)
(* with arguments; d expands to D and the arguments, s to S.                *)
(***************************************************************************)
Letters == {"s", "d", "u"}

\* extractArgs: the arguments from the next "(", wherever it is, to its ")".
extractArgs(src, i) ==
    LET opens == {p \in i..Len(src) : src[p] = "("}
        open == CHOOSE p \in opens : \A q \in opens : p <= q
        step(st, ch) ==
            IF st.done THEN st
            ELSE LET n == [st EXCEPT !.next = @ + 1] IN
                 CASE st.quote # "" -> IF ch = st.quote
                                       THEN [n EXCEPT !.args = Append(@, st.arg), !.arg = <<>>, !.quote = ""]
                                       ELSE [n EXCEPT !.arg = Append(@, ch)]
                   [] st.quote = "" /\ ch \in Quotes -> [n EXCEPT !.quote = ch]
                   [] st.quote = "" /\ ch = ")" ->
                        [st EXCEPT !.done = TRUE, !.args = IF st.arg = <<>> THEN @ ELSE Append(@, st.arg)]
                   [] st.quote = "" /\ ch = " " -> n
                   [] OTHER -> [n EXCEPT !.arg = Append(@, ch)]
    IN  IF opens = {} THEN [done |-> FALSE, args |-> <<>>, next |-> 0]
        ELSE LET after[p \in open..Len(src)] ==
                     IF p = open THEN [done |-> FALSE, args |-> <<>>, arg |-> <<>>, quote |-> "", next |-> open + 1]
                     ELSE step(after[p - 1], src[p])
             IN  after[Len(src)]

NameEnd(src, j) == CHOOSE k \in j..(Len(src) + 1) :
                      (k > Len(src) \/ src[k] \notin Letters) /\ \A m \in j..(k - 1) : src[m] \in Letters

\* Mutant: the character after a static variable is skipped.
AfterStaticSkip(k) == k + 1

\* i = k - 1, and the loop adds one.
AfterStatic(k) == k

\* One round of the loop at position i: what is written, and where the next round is.
ExpandAt(src, i) ==
    LET j == i + 1
        k == NameEnd(src, j)
        name == SubSeq(src, j, k - 1)
        a == extractArgs(src, j)
        wrote(text, next) == [out |-> text, next |-> next, err |-> FALSE]
    IN  IF src[i] # "$" THEN wrote(<<src[i]>>, j)
        ELSE IF j <= Len(src) /\ src[j] = "$" THEN wrote(<<"$">>, j + 1)
        ELSE IF j <= Len(src) /\ src[j] = "{" THEN wrote(<<"$", "{">>, j + 1)
        ELSE IF name = <<"d">> /\ a.done /\ Len(a.args) \in {1, 2}
             THEN wrote(<<"D">> \o FlattenSeq(a.args), a.next + 1)
        ELSE IF name = <<"s">> THEN wrote(<<"S">>, AfterStatic(k))
        ELSE [out |-> <<>>, next |-> j, err |-> TRUE]

ExpandVars(src) ==
    LET from[i \in 1..(Len(src) + 2)] ==
            IF i > Len(src) THEN [out |-> <<>>, err |-> FALSE]
            ELSE LET now == ExpandAt(src, i)
                     rest == from[now.next]
                 IN  IF now.err THEN [out |-> <<>>, err |-> TRUE] ELSE [out |-> now.out \o rest.out, err |-> rest.err]
    IN  from[1]
=============================================================================
