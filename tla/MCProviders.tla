---------------------------- MODULE MCProviders ----------------------------
(* One provider with two containers, or two that have one of the same name. *)
EXTENDS Providers

MCHosted == [p1 |-> {"a", "b"}, p2 |-> {"a"}, p3 |-> {"a"}]
MCConfigs == {{"p1"}, {"p2", "p3"}}
MCLimits == [s \in MCConfigs |-> IF Cardinality(s) = 1 THEN [created |-> 3, faults |-> 1]
                                                      ELSE [created |-> 2, faults |-> 0]]
=============================================================================
