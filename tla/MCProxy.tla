------------------------------ MODULE MCProxy ------------------------------
(* Instances of Proxy for TLC: a few requests of the three classes.          *)
EXTENDS Proxy, TLC

CONSTANTS c1, m1, m2, b1

MCPriority == [r \in Requests |-> CASE r = c1 -> 0 [] r \in {m1, m2} -> 1 [] r = b1 -> 2]

AllFaults == {"timeout", "disconnect", "crash"}
NoFaults == {}

\* The two moderate requests are interchangeable.
Moderate == Permutations({m1, m2})
=============================================================================
