-------------------------- MODULE MCServerQueue ---------------------------
(* Instances of ServerQueue for TLC: single completions a, b and d, an       *)
(* embedding e, a metrics task m, a slot action k, and a parent p with its   *)
(* child c.  Every task but c is a request of its own.                       *)
EXTENDS ServerQueue, TLC

CONSTANTS a, b, d, e, m, k, p, c

MCOwner == [t \in Tasks |-> IF t = c THEN p ELSE t]

MCKind ==
  [t \in Tasks |-> CASE t = e -> "embd" [] t = m -> "ctrl" [] t = k -> "slot"
                     [] t = d -> "lora" [] OTHER -> "cmpl"]

MCParent == [t \in Tasks |-> IF t = c THEN p ELSE NoTask]

\* b and the slot action ask for slot 1.
MCPin == [t \in Tasks |-> IF t \in {b, k} THEN 1 ELSE 0]
=============================================================================
