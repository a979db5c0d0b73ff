---------------------------- MODULE DockerLabels ----------------------------
(***************************************************************************)
(* From the labels of a container to the fields of its routes:              *)
(* docker.ParseLabels and ExpandWildcard (internal/docker/label.go) and     *)
(* routesFromContainerLabels (internal/route/provider/docker.go).           *)
(*                                                                          *)
(* A label is the sequence of the parts between its dots, a value is a      *)
(* scalar or a YAML mapping, given by its paths.  Go ranges over a map in   *)
(* any order: each of the three loops takes one of the entries that are     *)
(* left at a time.                                                          *)
(***************************************************************************)
EXTENDS Naturals, Sequences, FiniteSets, SequencesExt

VARIABLES
    labels,   \* container.Labels
    aliases,  \* container.Aliases
    labAt,    \* the loop: "expand", "parse", "apply", "done" or "panic"
    labTodo,  \* what the loop has not ranged over yet
    found,    \* ExpandWildcard: [index, wild], the numbers of the aliases and the wildcard fields
    parsed,   \* ParseLabels: [tree, cur, err]
    routes    \* an alias to its fields

labVars == <<labels, aliases, labAt, labTodo, found, parsed, routes>>

Scalar(v) == [kind |-> "scalar", text |-> v]
Yaml(m) == [kind |-> "yaml", map |-> m]
MapNode == [kind |-> "map"]
NoLabels == [l \in {} |-> ""]

Put(f, k, v) == [x \in DOMAIN f \cup {k} |-> IF x = k THEN v ELSE f[x]]
Merge(f, g) == [x \in DOMAIN f \cup DOMAIN g |-> IF x \in DOMAIN g THEN g[x] ELSE f[x]]

\* References to the aliases of a container by number, in both notations.
Refs == <<"#1", "#2", "#3", "#4">>
AltRefs == <<"$1", "$2", "$3", "$4">>
IsRef(a) == a \in Range(Refs) \cup Range(AltRefs)
RefIndex(a) == CHOOSE i \in DOMAIN Refs : Refs[i] = a \/ AltRefs[i] = a

-----------------------------------------------------------------------------
\* flattenMap: the scalars of a YAML mapping under their paths.
Flatten(v) == [p \in DOMAIN v.map |-> Scalar(v.map[p])]

IsWildcard(l) == Len(l) >= 2 /\ l[1] = "proxy" /\ l[2] = "*"

\* The index of a later alias replaces that of an earlier one of the same name.
AliasIndex ==
    [a \in Range(aliases) |-> CHOOSE i \in DOMAIN aliases :
        aliases[i] = a /\ \A j \in DOMAIN aliases : aliases[j] = a => j <= i]

LabelsStart ==
    /\ labAt = "expand" /\ labTodo = DOMAIN labels
    /\ found = [index |-> AliasIndex, wild |-> NoLabels]
    /\ parsed = [tree |-> NoLabels, cur |-> <<>>, err |-> FALSE]
    /\ routes = [a \in Range(aliases) |-> NoLabels]

\* One label in the first loop of ExpandWildcard.
Collect(l) ==
    CASE Len(l) < 2 \/ l[1] # "proxy" -> found
      [] IsWildcard(l) /\ labels[l].kind = "yaml" -> [found EXCEPT !.wild = Merge(@, Flatten(labels[l]))]
      [] IsWildcard(l) /\ labels[l].kind # "yaml" -> [found EXCEPT !.wild = Put(@, SubSeq(l, 3, Len(l)), labels[l])]
      [] OTHER -> IF l[2] \in DOMAIN found.index \cup Range(Refs) THEN found
                  ELSE [found EXCEPT !.index = Put(@, l[2], Cardinality(DOMAIN found.index) + 1)]

\* parts[2] of a wildcard without a suffix does not exist: the program panics, unless
\* the value is YAML.
Expanding ==
    /\ labAt = "expand"
    /\ \E l \in labTodo :
          /\ labTodo' = labTodo \ {l}
          /\ IF IsWildcard(l) /\ Len(l) = 2 /\ labels[l].kind # "yaml"
             THEN labAt' = "panic" /\ UNCHANGED found
             ELSE found' = Collect(l) /\ UNCHANGED labAt
    /\ UNCHANGED <<labels, aliases, parsed, routes>>

\* Mutant: one number for all aliases.
ExpandedFirst == {<<"proxy", Refs[1]>> \o s : s \in DOMAIN found.wild}

\* The second loop: every suffix for every alias, under the number of the alias.
Expanded == {<<"proxy", Refs[found.index[a]]>> \o s : a \in DOMAIN found.index, s \in DOMAIN found.wild}

ExpandWildcard ==
    /\ labAt = "expand" /\ labTodo = {}
    /\ LET own == {l \in DOMAIN labels : ~IsWildcard(l)}
       IN  labels' = Merge([l \in own |-> labels[l]],
                           [l \in Expanded |-> found.wild[SubSeq(l, 3, Len(l))]])
    /\ labAt' = "parse" /\ labTodo' = DOMAIN labels'
    /\ UNCHANGED <<aliases, found, parsed, routes>>

-----------------------------------------------------------------------------
Below(p, q) == Len(q) > Len(p) /\ SubSeq(q, 1, Len(p)) = p

\* One part of a label: the last one sets the value, in the place of a whole map if
\* there is one; another one goes into a map, or stays where it is with an error.
Descend(st, i, l, value) ==
    LET p == Append(st.cur, l[i])
        kept == [q \in {q \in DOMAIN st.tree : ~Below(p, q)} |-> st.tree[q]]
    IN  CASE i = Len(l) -> [st EXCEPT !.tree = Put(kept, p, value)]
          [] i # Len(l) /\ (p \notin DOMAIN st.tree \/ st.tree[p] = Scalar("")) ->
                [st EXCEPT !.tree = Put(@, p, MapNode), !.cur = p]
          [] i # Len(l) /\ p \in DOMAIN st.tree /\ st.tree[p] = MapNode -> [st EXCEPT !.cur = p]
          [] OTHER -> [st EXCEPT !.err = TRUE]

Insert(l) ==
    IF l[1] # "proxy" THEN parsed
    ELSE IF Len(l) = 1 THEN [parsed EXCEPT !.err = TRUE]
    ELSE LET descend(s, i) == Descend(s, i, l, labels[l])
         IN  FoldLeft(descend, [parsed EXCEPT !.cur = <<>>], [i \in 1..(Len(l) - 1) |-> i + 1])

\* The tree of the labels, as a function of paths.
ParseLabels ==
    /\ labAt = "parse"
    /\ \E l \in labTodo : parsed' = Insert(l) /\ labTodo' = labTodo \ {l}
    /\ UNCHANGED <<labels, aliases, labAt, found, routes>>

Parsed ==
    /\ labAt = "parse" /\ labTodo = {}
    /\ labAt' = "apply"
    /\ labTodo' = {p[1] : p \in {p \in DOMAIN parsed.tree : Len(p) = 1}}
    /\ UNCHANGED <<labels, aliases, found, parsed, routes>>

-----------------------------------------------------------------------------
\* The fields a top-level entry of the tree gives; a scalar is read as YAML, and one
\* that is not empty is not a mapping: the entry is left out with an error.
IsEntry(e) == e.kind # "scalar" \/ e = Scalar("")

EntryMap(tree, a) ==
    IF tree[<<a>>] = MapNode
    THEN LET leaves == {q \in DOMAIN tree : Below(<<a>>, q) /\ tree[q] # MapNode}
         IN  [p \in {Tail(q) : q \in leaves} |-> tree[<<a>> \o p]]
    ELSE IF tree[<<a>>].kind = "yaml" THEN Flatten(tree[<<a>>]) ELSE NoLabels

\* The alias an entry is for; a reference out of range is an error, and the entry is
\* then one for a route of that very name.
Target(a) == IF IsRef(a) /\ RefIndex(a) \in DOMAIN aliases THEN aliases[RefIndex(a)] ELSE a

\* routesFromContainerLabels: every alias has a route, and the entries are read into
\* the routes they are for.
Apply ==
    /\ labAt = "apply"
    /\ \E a \in labTodo :
          LET t == Target(a)
              before == IF t \in DOMAIN routes THEN routes[t] ELSE NoLabels
          IN  /\ routes' = IF IsEntry(parsed.tree[<<a>>])
                           THEN Put(routes, t, Merge(before, EntryMap(parsed.tree, a))) ELSE routes
              /\ labTodo' = labTodo \ {a}
    /\ UNCHANGED <<labels, aliases, labAt, found, parsed>>

Applied ==
    /\ labAt = "apply" /\ labTodo = {}
    /\ labAt' = "done"
    /\ UNCHANGED <<labels, aliases, labTodo, found, parsed, routes>>

LabelsNext == Expanding \/ ExpandWildcard \/ ParseLabels \/ Parsed \/ Apply \/ Applied
=============================================================================
