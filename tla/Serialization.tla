--------------------------- MODULE Serialization ---------------------------
(***************************************************************************)
(* internal/serialization: how a decoded YAML document is converted to a    *)
(* typed configuration value and validated.                                *)
(*                                                                         *)
(* A source is [k, ...]: nil, a string, a number, a slice or a map. A type  *)
(* is [t, ...]; a struct has fields, some of them with a required tag. A    *)
(* value is [v, ...] after its type.                                       *)
(***************************************************************************)
LOCAL INSTANCE Integers
LOCAL INSTANCE Sequences
LOCAL INSTANCE FiniteSets
LOCAL INSTANCE SequencesExt

Nil == [k |-> "nil"]
Str(s) == [k |-> "str", s |-> s]
Num(n) == [k |-> "num", n |-> n]
SliceOf(xs) == [k |-> "slice", xs |-> xs]
MapOf(f) == [k |-> "map", f |-> f]

StringT == [t |-> "string"]
IntT == [t |-> "int"]
SliceT(elem) == [t |-> "slice", elem |-> elem]
MapT(elem) == [t |-> "map", elem |-> elem]
PtrT(elem) == [t |-> "ptr", elem |-> elem]
StructT(fields, required) == [t |-> "struct", fields |-> fields, required |-> required]

\* fnv1IgnoreCaseSnake: the keys that name the same field (the hash is taken to
\* be injective on them).
Normal1(key) == CASE key \in {"a_b", "aB", "A_B"} -> "ab" [] OTHER -> key

\* The strings of the instances: "" and "x" are text, "1" is a number, "1,x" a
\* list, and "- 1" and "a: 1" are YAML.
ParsesAsInt(s) == s = "1"
CommaSeparatedList(s) == IF s = "1,x" THEN <<"1", "x">> ELSE <<s>>
YamlSlice(s) == IF s = "- 1" THEN SliceOf(<<Num(1)>>) ELSE Nil
YamlMap(s) == IF s = "a: 1" THEN MapOf([key \in {"a"} |-> Num(1)]) ELSE Nil

RECURSIVE Zero1(_)
Zero1(t) ==
  CASE t.t = "string" -> [v |-> "string", s |-> ""]
    [] t.t = "int" -> [v |-> "int", n |-> 0]
    [] t.t = "slice" -> [v |-> "slice", xs |-> <<>>]
    [] t.t = "map" -> [v |-> "map", f |-> <<>>]
    [] t.t = "ptr" -> [v |-> "ptr", to |-> <<>>]
    [] t.t = "struct" -> [v |-> "struct", f |-> [x \in DOMAIN t.fields |-> Zero1(t.fields[x])]]

Ok(val) == [err |-> FALSE, val |-> val]
Err(val) == [err |-> TRUE, val |-> val]
HasValidateTag(t) == t.required # {}

\* ValidateWithFieldTags: the validator checks the required fields of a struct,
\* and of the structs it holds, also through a pointer, not through slices or maps.
RECURSIVE TagsHold(_, _)
TagsHold(t, val) ==
  CASE t.t = "struct" -> /\ \A x \in t.required : val.f[x] # Zero1(t.fields[x])
                         /\ \A x \in DOMAIN t.fields : TagsHold(t.fields[x], val.f[x])
    [] t.t = "ptr" /\ val.to # <<>> -> TagsHold(t.elem, val.to[1])
    [] OTHER -> TRUE

\* ConvertString: the value of a string, and whether the string was not the
\* form the type needs. A struct, map or slice of YAML text is converted in turn.
RECURSIVE ConvertString(_, _, _), Convert(_, _, _, _)
ConvertString(s, t, old) ==
  CASE t.t = "ptr" ->
         LET r == ConvertString(s, t.elem, IF old.to = <<>> THEN Zero1(t.elem) ELSE old.to[1])
         IN [r EXCEPT !.val = [v |-> "ptr", to |-> <<r.val>>]]
    [] t.t = "string" -> Ok([v |-> "string", s |-> s])
    [] s = "" -> Ok(Zero1(t))
    [] t.t = "int" -> IF ParsesAsInt(s) THEN Ok([v |-> "int", n |-> 1]) ELSE Err(old)
    [] t.t = "slice" /\ s # "- 1" ->
         LET rs == [i \in DOMAIN CommaSeparatedList(s) |-> ConvertString(CommaSeparatedList(s)[i], t.elem, Zero1(t.elem))]
         IN [err |-> \E i \in DOMAIN rs : rs[i].err, val |-> [v |-> "slice", xs |-> [i \in DOMAIN rs |-> rs[i].val]]]
    [] t.t = "slice" -> Convert(YamlSlice(s), t, old, TRUE)
    [] OTHER -> IF YamlMap(s) = Nil THEN Err(old) ELSE Convert(YamlMap(s), t, old, TRUE)

\* A key of the source map: the field it names.
FieldOf(t, key) == {x \in DOMAIN t.fields : x = Normal1(key)}
KeyFor(src, x) == {key \in DOMAIN src : Normal1(key) = x}

\* Mutant: a key that names no field is ignored.
UnknownFieldsNone(t, src) == {}

UnknownFields(t, src) == {key \in DOMAIN src : FieldOf(t, key) = {}}

\* Mutant: what a map holds is validated only when its holder is.
MapCheckPassed(check) == check

\* The entries of a map are validated, whatever holds the map.
MapCheck(check) == TRUE

\* Mutant: the fields of a struct are validated when it has tags itself.
FieldCheckTwice(t) == HasValidateTag(t)

\* The fields of a struct are validated on their own when it has no tags: its
\* own validation covers them otherwise.
FieldCheck(t) == ~HasValidateTag(t)

\* mapUnmarshalValidate. Keys that name the same field are left out of the
\* instances: the order of a Go map decides between them.
MapUnmarshal(src, t, old, check) ==
  IF t.t = "struct" THEN
    LET got == [x \in DOMAIN t.fields |->
                  IF KeyFor(src, x) = {} THEN Ok(old.f[x])
                  ELSE Convert(src[CHOOSE key \in KeyFor(src, x) : TRUE], t.fields[x], old.f[x], FieldCheck(t))]
        val == [v |-> "struct", f |-> [x \in DOMAIN got |-> got[x].val]]
    IN [val |-> val,
        err |-> \/ \E x \in DOMAIN got : got[x].err
                \/ UnknownFields(t, src) # {}
                \/ HasValidateTag(t) /\ check /\ ~TagsHold(t, val)]
  ELSE IF t.t = "map" THEN
    LET got == [key \in DOMAIN src |-> Convert(src[key], t.elem, Zero1(t.elem), MapCheck(check))]
    IN [val |-> [v |-> "map", f |-> [key \in DOMAIN got |-> got[key].val]], err |-> \E key \in DOMAIN got : got[key].err]
  ELSE Err(old)

\* The elements of a slice, in order: one that fails leaves its place, and what
\* it had set there, to the next.
ConvertSlice(xs, t, check) ==
  LET one(acc, x) ==
        LET i == acc.n + 1
            place == IF i <= Len(acc.xs) THEN acc.xs[i] ELSE Zero1(t.elem)
            r == Convert(x, t.elem, place, check)
        IN [n |-> IF r.err THEN acc.n ELSE i, err |-> acc.err \/ r.err,
            xs |-> IF i <= Len(acc.xs) THEN [acc.xs EXCEPT ![i] = r.val] ELSE Append(acc.xs, r.val)]
      res == FoldLeft(one, [n |-> 0, err |-> FALSE, xs |-> <<>>], xs)
  IN [err |-> res.err, val |-> [v |-> "slice", xs |-> SubSeq(res.xs, 1, res.n)]]

IsZeroSource(src) == src \in {Str(""), Num(0)}

\* Convert
Convert(src, t, old, check) ==
  CASE src = Nil -> Ok(Zero1(t))
    [] IsZeroSource(src) -> Ok(IF t.t = "ptr" THEN [v |-> "ptr", to |-> <<Zero1(t.elem)>>] ELSE Zero1(t))
    [] src # Nil /\ ~IsZeroSource(src) /\ t.t = "ptr" ->
         LET r == Convert(src, t.elem, IF old.to = <<>> THEN Zero1(t.elem) ELSE old.to[1], check)
         IN [r EXCEPT !.val = [v |-> "ptr", to |-> <<r.val>>]]
    [] src.k = "str" /\ ~IsZeroSource(src) /\ t.t # "ptr" -> ConvertString(src.s, t, old)
    [] src.k = "num" /\ ~IsZeroSource(src) /\ t.t # "ptr" ->
         IF t.t = "int" THEN Ok([v |-> "int", n |-> src.n]) ELSE ConvertString("1", t, old)
    [] src.k \in {"map", "slice"} /\ t.t = "string" -> Ok([v |-> "string", s |-> "formatted"])
    [] src.k = "map" /\ t.t \notin {"ptr", "string"} ->
         IF DOMAIN src.f = {} THEN Ok(old) ELSE MapUnmarshal(src.f, t, old, check)
    [] src.k = "slice" /\ t.t \notin {"ptr", "string"} ->
         IF src.xs = <<>> THEN Ok(Zero1(t))
         ELSE IF t.t # "slice" THEN Err(old) ELSE ConvertSlice(src.xs, t, check)

-----------------------------------------------------------------------------
\* The structs of a value, but for empty ones, that their own tags do not accept;
\* inTagged: held by a slice of a struct with tags.
RECURSIVE Unchecked(_, _, _)
Unchecked(t, val, inTagged) ==
  CASE t.t = "struct" ->
         (IF (\A x \in t.required : val.f[x] # Zero1(t.fields[x])) \/ inTagged \/ val = Zero1(t) THEN {} ELSE {val})
         \cup UNION {Unchecked(t.fields[x], val.f[x], HasValidateTag(t) /\ t.fields[x].t = "slice") : x \in DOMAIN t.fields}
    [] t.t = "ptr" /\ val.to # <<>> -> Unchecked(t.elem, val.to[1], inTagged)
    [] t.t = "slice" -> UNION {Unchecked(t.elem, val.xs[i], inTagged) : i \in DOMAIN val.xs}
    [] t.t = "map" -> UNION {Unchecked(t.elem, val.f[key], FALSE) : key \in DOMAIN val.f}
    [] OTHER -> {}

SumSeq(ns) == FoldLeft(LAMBDA a, n : a + n, 0, ns)
SumFun(f) == SumSeq([i \in 1 .. Cardinality(DOMAIN f) |-> f[SetToSeq(DOMAIN f)[i]]])

\* How many scalars that are not zero a source has, and a value (a string that a
\* slice or a map was formatted into holds all of them).
RECURSIVE Leaves(_), LeavesOf(_)
Leaves(src) ==
  CASE src.k = "nil" \/ IsZeroSource(src) -> 0
    [] src.k = "slice" -> SumSeq([i \in DOMAIN src.xs |-> Leaves(src.xs[i])])
    [] src.k = "map" -> SumFun([key \in DOMAIN src.f |-> Leaves(src.f[key])])
    [] OTHER -> 1
LeavesOf(val) ==
  CASE val.v = "string" -> IF val.s = "" THEN 0 ELSE IF val.s = "formatted" THEN 9 ELSE 1
    [] val.v = "int" -> IF val.n = 0 THEN 0 ELSE 1
    [] val.v = "ptr" -> SumSeq([i \in DOMAIN val.to |-> LeavesOf(val.to[i])])
    [] val.v = "slice" -> SumSeq([i \in DOMAIN val.xs |-> LeavesOf(val.xs[i])])
    [] OTHER -> SumFun([x \in DOMAIN val.f |-> LeavesOf(val.f[x])])
=============================================================================
