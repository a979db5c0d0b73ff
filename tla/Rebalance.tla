------------------------------ MODULE Rebalance ------------------------------
(***************************************************************************)
(* The weights of the servers of a load balancer                            *)
(* (LoadBalancer.rebalance in internal/net/gphttp/loadbalancer).  The pool  *)
(* is the sequence of the weights in the order it is ranged over.           *)
(***************************************************************************)
EXTENDS Integers, Sequences

maxWeight == 100

Total(w) ==
    LET sum[i \in 0..Len(w)] == IF i = 0 THEN 0 ELSE sum[i - 1] + w[i]
    IN  sum[Len(w)]

\* Nobody has a weight: the remainder goes to the first servers, and is not added to
\* the sum.
Evenly(n) ==
    [weights |-> [i \in 1..n |-> maxWeight \div n + (IF i <= maxWeight % n THEN 1 ELSE 0)],
     sum |-> n * (maxWeight \div n)]

\* int(float64(w) * scaleFactor): a product that should be whole may come out below
\* it, here for the servers of low.
Scaled(w, sum, low) ==
    [i \in DOMAIN w |-> LET p == w[i] * maxWeight
                        IN  p \div sum - (IF i \in low /\ p > 0 /\ p % sum = 0 THEN 1 ELSE 0)]

\* Mutant: what is missing is given to one server only.
SpreadOnce(w, delta) == [i \in DOMAIN w |-> w[i] + IF i = 1 /\ delta > 0 THEN 1 ELSE 0]

\* What is missing, or too much, one by one.
Spread(w, delta) ==
    LET d == IF delta < 0 THEN -delta ELSE delta
    IN  [i \in DOMAIN w |-> w[i] + IF i > d THEN 0 ELSE IF delta > 0 THEN 1 ELSE -1]

\* The possible results for a pool and the sum that was kept for it.
DoRebalance(w, sum) ==
    CASE sum = maxWeight \/ w = <<>> -> {[weights |-> w, sum |-> sum]}
      [] sum = 0 /\ w # <<>> -> {Evenly(Len(w))}
      [] OTHER -> { LET s == Scaled(w, sum, low)
                        new == Spread(s, maxWeight - Total(s))
                    IN  [weights |-> new, sum |-> Total(new)]
                    : low \in SUBSET (DOMAIN w) }
=============================================================================
