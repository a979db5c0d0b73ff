---------------------------- MODULE DockerClient ----------------------------
(***************************************************************************)
(* The docker clients of one host, shared by reference counting             *)
(* (internal/docker/client.go): NewClient and Close of their users, the     *)
(* Clients() snapshot of the API handlers, the cleaner goroutine that       *)
(* closes what was unused for clientTTLSecs, and the way an idlewatcher     *)
(* replaces its provider when it is reloaded.                               *)
(*                                                                          *)
(* Abstractions.  A client object is a number in order of creation; "age"   *)
(* says what closedOn means to the cleaner: zero (never stamped, or reset), *)
(* recent or old (stamped longer ago than the TTL).  Clients made with      *)
(* unique = true never enter the map and have one owner: not modelled.      *)
(* NewClient is one step: only the cleaner reads closedOn, and the lock     *)
(* keeps it out between the reset of closedOn and the count.                *)
(***************************************************************************)
EXTENDS Integers, FiniteSets

CONSTANTS
    Users,       \* callers of NewClient
    Watchers,    \* idlewatchers: callers of NewClient that may be reloaded
    Listers,     \* callers of Clients
    MaxClients,  \* bound: client objects created
    MaxFails     \* bound: reloads of a watcher that fail

Holders == Users \cup Watchers \cup Listers

ASSUME HoldersAssumption ==
    /\ IsFiniteSet(Holders)
    /\ Listers \cap (Users \cup Watchers) = {}
ASSUME DockerBounds == MaxClients \in Nat /\ MaxFails \in Nat

Clients == 1..MaxClients

VARIABLES
    entry,    \* clientMap[host], 0 when there is none
    created,  \* the number of client objects made so far
    ref,      \* refCount of each
    age,      \* closedOn of each
    open,     \* the clients whose connection is open
    pc,       \* where each holder is
    held,     \* the client a holder has been given, 0 when none
    cleaner,  \* the client whose refCount the cleaner has seen to be 0, or 0
    exited,   \* the program is exiting
    fails     \* failed reloads so far

vars == <<entry, created, ref, age, open, pc, held, cleaner, exited, fails>>

Init ==
    /\ entry = 0 /\ created = 0 /\ cleaner = 0 /\ fails = 0
    /\ ref = [c \in Clients |-> 0]
    /\ age = [c \in Clients |-> "zero"]
    /\ open = {}
    /\ pc = [u \in Holders |-> "idle"]
    /\ held = [u \in Holders |-> 0]
    /\ exited = FALSE

\* clientMapMu is held by the cleaner while it looks at a client.
Unlocked == cleaner = 0 /\ ~exited

\* Mutant: NewClient takes no lock.
NewClientNoLock(u) ==
    /\ u \in Users \cup Watchers
    /\ pc[u] = "idle"
    /\ ~exited
    /\ entry # 0 \/ created < MaxClients
    /\ LET c == IF entry # 0 THEN entry ELSE created + 1
       IN  /\ created' = IF entry # 0 THEN created ELSE c
           /\ entry' = c
           /\ open' = open \cup {c}
           /\ held' = [held EXCEPT ![u] = c]
           /\ age' = [age EXCEPT ![c] = "zero"]
           /\ ref' = [ref EXCEPT ![c] = @ + 1]
    /\ pc' = [pc EXCEPT ![u] = "using"]
    /\ UNCHANGED <<cleaner, exited, fails>>

\* NewClient: the client of the map, or a new one.
NewClient(u) ==
    /\ u \in Users \cup Watchers
    /\ pc[u] = "idle"
    /\ Unlocked
    /\ pc' = [pc EXCEPT ![u] = "using"]
    /\ \/ /\ entry # 0
          /\ held' = [held EXCEPT ![u] = entry]
          /\ age' = [age EXCEPT ![entry] = "zero"]
          /\ ref' = [ref EXCEPT ![entry] = @ + 1]
          /\ UNCHANGED <<entry, created, open>>
       \/ /\ entry = 0
          /\ created < MaxClients
          /\ created' = created + 1
          /\ entry' = created + 1
          /\ held' = [held EXCEPT ![u] = created + 1]
          /\ ref' = [ref EXCEPT ![created + 1] = 1]
          /\ open' = open \cup {created + 1}
          /\ UNCHANGED age
    /\ UNCHANGED <<cleaner, exited, fails>>

\* Clients: the copy of the map, made under the lock ...
Snapshot(u) ==
    /\ u \in Listers
    /\ pc[u] = "idle"
    /\ Unlocked
    /\ entry # 0
    /\ pc' = [pc EXCEPT ![u] = "snapped"]
    /\ held' = [held EXCEPT ![u] = entry]
    /\ UNCHANGED <<entry, created, ref, age, open, cleaner, exited, fails>>

\* Mutant: only the first of several callers of Clients is counted.
AddRefOnce(u) ==
    /\ pc[u] = "snapped"
    /\ pc' = [pc EXCEPT ![u] = "using"]
    /\ ref' = IF ref[held[u]] = 0 THEN [ref EXCEPT ![held[u]] = 1] ELSE ref
    /\ UNCHANGED <<entry, created, age, open, held, cleaner, exited, fails>>

\* ... and the reference taken after it was released.
AddRef(u) ==
    /\ pc[u] = "snapped"
    /\ pc' = [pc EXCEPT ![u] = IF ref[held[u]] = 0 THEN "added" ELSE "using"]
    /\ ref' = [ref EXCEPT ![held[u]] = @ + 1]
    /\ UNCHANGED <<entry, created, age, open, held, cleaner, exited, fails>>

\* "last Close() has been called, reset closeOn"
ResetClosedOn(u) ==
    /\ pc[u] = "added"
    /\ pc' = [pc EXCEPT ![u] = "using"]
    /\ age' = [age EXCEPT ![held[u]] = "zero"]
    /\ UNCHANGED <<entry, created, ref, open, held, cleaner, exited, fails>>

\* Mutant: only the Close that sees the last reference stamps the client.
CloseStampLast(u) ==
    /\ pc[u] = "using"
    /\ pc' = [pc EXCEPT ![u] = "stamped"]
    /\ age' = IF ref[held[u]] = 1 THEN [age EXCEPT ![held[u]] = "recent"] ELSE age
    /\ UNCHANGED <<entry, created, ref, open, held, cleaner, exited, fails>>

\* Close: closedOn.Store, then refCount.Add(-1), without the lock.
CloseStamp(u) ==
    /\ pc[u] = "using"
    /\ pc' = [pc EXCEPT ![u] = "stamped"]
    /\ age' = [age EXCEPT ![held[u]] = "recent"]
    /\ UNCHANGED <<entry, created, ref, open, held, cleaner, exited, fails>>

\* Mutant: a caller that closes the client again after Close.
CloseDropTwice(u) ==
    /\ pc[u] = "stamped"
    /\ pc' = [pc EXCEPT ![u] = "using"]
    /\ ref' = [ref EXCEPT ![held[u]] = @ - 1]
    /\ UNCHANGED <<entry, created, age, open, held, cleaner, exited, fails>>

\* Mutant: Close keeps the reference.
CloseDropNothing(u) ==
    /\ pc[u] = "stamped"
    /\ pc' = [pc EXCEPT ![u] = "idle"]
    /\ held' = [held EXCEPT ![u] = 0]
    /\ UNCHANGED <<entry, created, ref, age, open, cleaner, exited, fails>>

CloseDrop(u) ==
    /\ pc[u] = "stamped"
    /\ pc' = [pc EXCEPT ![u] = "idle"]
    /\ held' = [held EXCEPT ![u] = 0]
    /\ ref' = [ref EXCEPT ![held[u]] = @ - 1]
    /\ UNCHANGED <<entry, created, age, open, cleaner, exited, fails>>

\* An idlewatcher is reloaded: it closes its provider and makes another one at
\* once, far within the TTL, which gives it the client it had.
Reload(u) ==
    /\ u \in Watchers
    /\ pc[u] = "using"
    /\ Unlocked
    /\ held[u] = entry
    /\ age' = [age EXCEPT ![held[u]] = "zero"]
    /\ UNCHANGED <<entry, created, ref, open, pc, held, cleaner, exited, fails>>

\* The reload fails after it closed the old provider, over a dependency or over
\* the status of the container.  The watcher goes on with a provider that was
\* closed, and closes it again when it ends.
ReloadFails(u) ==
    /\ u \in Watchers
    /\ pc[u] = "using"
    /\ fails < MaxFails
    /\ fails' = fails + 1
    /\ age' = [age EXCEPT ![held[u]] = "recent"]
    /\ ref' = [ref EXCEPT ![held[u]] = @ - 1]
    /\ UNCHANGED <<entry, created, open, pc, held, cleaner, exited>>

\* clientTTLSecs pass.
Elapse(c) ==
    /\ age[c] = "recent"
    /\ age' = [age EXCEPT ![c] = "old"]
    /\ UNCHANGED <<entry, created, ref, open, pc, held, cleaner, exited, fails>>

\* closeTimedOutClients: the lock is taken and refCount found to be 0 ...
CleanerLook ==
    /\ Unlocked
    /\ entry # 0
    /\ ref[entry] = 0
    /\ cleaner' = entry
    /\ UNCHANGED <<entry, created, ref, age, open, pc, held, exited, fails>>

\* ... then closedOn is compared with the TTL (0 is long ago).
CleanerClose ==
    /\ cleaner # 0
    /\ cleaner' = 0
    /\ \/ age[cleaner] # "recent" /\ entry' = 0 /\ open' = open \ {cleaner}
       \/ age[cleaner] = "recent" /\ UNCHANGED <<entry, open>>
    /\ UNCHANGED <<created, ref, age, pc, held, exited, fails>>

\* The program exits: the cleaner closes the clients whoever uses them.
Exit ==
    /\ Unlocked
    /\ exited' = TRUE
    /\ entry' = 0
    /\ open' = open \ {entry}
    /\ UNCHANGED <<created, ref, age, pc, held, cleaner, fails>>

HolderNext(u) ==
    \/ NewClient(u) \/ Snapshot(u) \/ AddRef(u) \/ ResetClosedOn(u)
    \/ CloseStamp(u) \/ CloseDrop(u) \/ Reload(u) \/ ReloadFails(u)

Next ==
    \/ \E u \in Holders : HolderNext(u)
    \/ \E c \in Clients : Elapse(c)
    \/ CleanerLook \/ CleanerClose \/ Exit

Spec == Init /\ [][Next]_vars

\* The cleaner ticks and time passes; Close returns once it was called.
FairSpec ==
    /\ Spec
    /\ SF_vars(CleanerLook) /\ WF_vars(CleanerClose)
    /\ \A c \in Clients : WF_vars(Elapse(c))
    /\ \A u \in Holders : WF_vars(CloseDrop(u)) /\ WF_vars(AddRef(u) \/ ResetClosedOn(u))

-----------------------------------------------------------------------------
Typed ==
    /\ entry \in 0..MaxClients /\ created \in 0..MaxClients
    /\ cleaner \in 0..MaxClients /\ fails \in 0..MaxFails
    /\ ref \in [Clients -> Int]
    /\ age \in [Clients -> {"zero", "recent", "old"}]
    /\ open \subseteq Clients
    /\ pc \in [Holders -> {"idle", "snapped", "added", "using", "stamped"}]
    /\ held \in [Holders -> 0..MaxClients]
    /\ exited \in BOOLEAN

\* Every variable has its type, and refCount is negative only after a watcher
\* closed its provider twice.
TypeOK == Typed /\ (fails = 0 => \A c \in Clients : ref[c] >= 0)

Referencing(u) == pc[u] \in {"added", "using", "stamped"}

\* The holders that have counted themselves in and not yet out.
Counted(c) == {u \in Holders : held[u] = c /\ Referencing(u)}

\* refCount is exactly the number of holders between their NewClient or Clients
\* and their Close, whatever the interleaving; every failed reload of an
\* idlewatcher breaks it.
RefCountExact == fails = 0 => \A c \in Clients : ref[c] = Cardinality(Counted(c))

\* A client obtained from NewClient stays open until its user closes it.
NewClientStaysOpen ==
    fails = 0 /\ ~exited =>
        \A u \in Users \cup Watchers : pc[u] = "using" => held[u] \in open

\* "add 1 ref count to prevent them from being closed before caller finished
\* using them": the same for a client obtained from Clients().
ClientsStaysOpen ==
    ~exited => \A u \in Listers : pc[u] = "using" => held[u] \in open

\* "for shared clients, if the client is still referenced, this is no-op": no
\* Close of one user takes the client away from another, failed reloads included.
CloseSparesOthers ==
    ~exited => \A u \in Users : pc[u] = "using" => held[u] \in open

\* The cleaner never takes the reset value 0 of closedOn for a time long ago:
\* a client without references was stamped by the last Close.
UnusedIsStamped ==
    fails = 0 => \A c \in 1..created : ref[c] = 0 => age[c] # "zero"

\* The inductive invariant behind the four.
Shape ==
    /\ entry <= created
    /\ open \subseteq 1..created
    /\ entry # 0 => entry \in open
    /\ cleaner # 0 => cleaner = entry /\ ~exited
    /\ \A u \in Holders :
          /\ held[u] <= created
          /\ pc[u] # "idle" => held[u] # 0
          /\ pc[u] \in {"snapped", "added"} => u \in Listers

\* A client whose references are all being dropped has been stamped.
DroppingIsStamped ==
    \A c \in 1..created :
        (\A u \in Counted(c) : pc[u] = "stamped") => age[c] # "zero"

\* The cleaner looks at a client no caller of NewClient holds, and what such a
\* caller holds is the client of the map.
Reserved ==
    \A u \in Users \cup Watchers : Referencing(u) /\ ~exited =>
        held[u] = entry /\ held[u] # cleaner

IInv == Typed /\ Shape /\ (fails = 0 => RefCountExact /\ DroppingIsStamped /\ Reserved)

\* An unused client does not stay open for ever.
UnusedIsClosed ==
    \A c \in Clients :
        (c \in open /\ Counted(c) = {} /\ fails = 0)
            ~> (c \notin open \/ Counted(c) # {} \/ exited)

=============================================================================
