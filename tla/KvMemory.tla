----------------------------- MODULE KvMemory ------------------------------
(***************************************************************************)
(* What a unified KV cache is to its users: a set of entries, each with a  *)
(* position and the sequences that share it.  Module KvCache checks its    *)
(* cells, counters and search head against these operators; ServerBatch    *)
(* uses them for the memory of the slots.                                  *)
(***************************************************************************)
EXTENDS Integers, FiniteSets, FiniteSetsExt

CONSTANT Seqs  \* sequences; a slot of the server uses the one with its number

ASSUME MemoryAssumption == IsFiniteSet(Seqs)

Entries(m, s) == {e \in m : s \in e.seqs}
Positions(m, s) == {e.pos : e \in Entries(m, s)}
PosMin(m, s) == IF Entries(m, s) = {} THEN -1 ELSE Min(Positions(m, s))
PosMax(m, s) == IF Entries(m, s) = {} THEN -1 ELSE Max(Positions(m, s))

\* The entries of s with a position in [p0, p1).
Between(m, s, p0, p1) == {e \in Entries(m, s) : p0 <= e.pos /\ e.pos < p1}

Rm(m, s, p0, p1) ==
  LET hit == Between(m, s, p0, p1)
  IN  (m \ hit) \cup {[e EXCEPT !.seqs = @ \ {s}] : e \in {d \in hit : d.seqs # {s}}}

RmFrom(m, s, p0) == Rm(m, s, p0, PosMax(m, s) + 1)

Cp(m, a, b) ==
  (m \ Entries(m, a)) \cup {[e EXCEPT !.seqs = @ \cup {b}] : e \in Entries(m, a)}

Keep(m, s) == {[e EXCEPT !.seqs = {s}] : e \in Entries(m, s)}

\* The whole entry moves, for every sequence that shares it.
Shift(m, s, p0, p1, d) ==
  LET hit == Between(m, s, p0, p1)
  IN  (m \ hit) \cup {e \in {[e EXCEPT !.pos = @ + d] : e \in hit} : e.pos >= 0}
=============================================================================
