------------------------------ MODULE MCRouter ------------------------------
(* Instances of Router for TLC: client x sends model a a request, y sends    *)
(* one to a or to b, and u unloads a.                                        *)
EXTENDS Router, TLC

CONSTANTS a, b, x, y, u

MCWants == [c \in Clients |-> IF c = y THEN {a, b} ELSE {a}]
=============================================================================
