----------------------------- MODULE ComposeFiles -----------------------------
(***************************************************************************)
(* Loading the middleware compose files (internal/net/gphttp/middleware/    *)
(* middlewares.go, middleware_builder.go).  A file maps names to chains of  *)
(* entries that each use a middleware, built in or of a file.  All files    *)
(* are built twice, so that a chain may use one that is loaded later.       *)
(***************************************************************************)
EXTENDS Naturals, Sequences

\* BuildMiddlewareFromChainRaw: an entry without use or with an unknown one is an error,
\* and a chain with an error is not built.
Builds(chain, known) == \A i \in DOMAIN chain : chain[i] # "" /\ chain[i] \in known

\* BuildMiddlewaresFromYAML: the chains of one file, all built before any of them is
\* registered.
BuildFile(file, known) == {n \in DOMAIN file : Builds(file[n], known)}

\* Mutant: a file is left when one of its chains is there already.
RegisterUnlessAny(known, names) == IF names \cap known # {} THEN known ELSE known \cup names

\* A name already there is not replaced.
Register(known, names) == known \cup names

LoadPass(known, files) ==
    LET after[i \in 0..Len(files)] ==
            IF i = 0 THEN known ELSE Register(after[i - 1], BuildFile(files[i], after[i - 1]))
    IN  after[Len(files)]

\* LoadComposeFiles
LoadComposeFiles(builtin, files) == LoadPass(LoadPass(builtin, files), files)
=============================================================================
