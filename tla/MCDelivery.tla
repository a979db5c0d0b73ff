----------------------------- MODULE MCDelivery -----------------------------
(***************************************************************************)
(* Small instances of the notification dispatcher and of two access loggers *)
(* on one path, with the fairness of their goroutines.  They share no       *)
(* state: `part' is chosen at the start and only that part moves.           *)
(***************************************************************************)
EXTENDS Dispatch, AccessLog

VARIABLE part

MCRecipients == [m1 |-> NProviders, m2 |-> {"p1"}]
MCMaxRetries == [m1 |-> 1, m2 |-> 3]

MCInit == part \in {"dispatch", "accesslog"} /\ NInit /\ AInit

MCNext ==
    /\ UNCHANGED part
    /\ \/ part = "dispatch" /\ NNext /\ UNCHANGED alogVars
       \/ part = "accesslog" /\ ANext /\ UNCHANGED nVars

\* The fair actions of a part are not enabled before it has moved.
MCSpec == MCInit /\ [][MCNext]_<<part, nVars, alogVars>> /\ NFair /\ AFair
=============================================================================
