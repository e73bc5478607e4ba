------------------------------ MODULE KvProofs ------------------------------
(***************************************************************************)
(* Proofs about KvCache: what is kept beside the cells is exact, a pending *)
(* shift is what its key still has to be rotated, and every operation does *)
(* to the entries what KvMemory says.                                      *)
(*                                                                         *)
(* The loops over cells, sequences, tokens and ubatches are folds of the   *)
(* community modules.  What a fold returns is shown by an induction of     *)
(* first order: the fold is a function on the sets of the elements that    *)
(* are done (FoldExists: a smallest graph, total because a least           *)
(* counterexample would be an error), and a relation of its argument and   *)
(* its value that holds of nothing done and is kept by each element holds  *)
(* of all (FoldIn, FoldRule).  Each loop has its relation - RmDone,        *)
(* KeepDone, CpDone, MoveDone, PlacedIn, AllPlaced - and each lemma ends   *)
(* with the same steps, from the function to the fold.                     *)
(*                                                                         *)
(* A method of one cell changes what this cell counts for and leaves what  *)
(* the others count for (Only): then the counters stay exact (OnlySound).  *)
(***************************************************************************)
EXTENDS KvCache, FiniteSetTheorems, WellFoundedInduction, SequenceTheorems, TLAPS

-----------------------------------------------------------------------------
(* Folds.                                                                   *)

\* Of some subsets of a finite set, one is the least.
LEMMA LeastSubset ==
  ASSUME NEW S, IsFiniteSet(S), NEW B \in SUBSET SUBSET S, B # {}
  PROVE  \E s \in B : \A t \in B : t \subseteq s => t = s
<1>1. IsWellFoundedOn(StrictSubsetOrdering(S), SUBSET S)
  BY FS_StrictSubsetOrderingWellFounded, FS_FiniteSubsetsOfFinite
<1>2. PICK s \in B : \A t \in B : ~(<<t, s>> \in StrictSubsetOrdering(S))
  BY <1>1, WFMin
<1>3. \A t \in B : t \subseteq s => t = s
  BY <1>2 DEF StrictSubsetOrdering
<1> QED BY <1>3

\* ch chooses an element of each set of elements of S.
NonEmpty(S) == (SUBSET S) \ {{}}
Chooses(ch, S) ==
  /\ IsFiniteSet(S)
  /\ \A s \in NonEmpty(S) : ch[s] \in s

\* G has the empty set, and a set if it has the set without the element chosen.
Inductive(G, S, ch) ==
  /\ {} \in G
  /\ \A s \in NonEmpty(S) : s \ {ch[s]} \in G => s \in G

LEMMA ByChoice ==
  ASSUME NEW S, NEW ch, Chooses(ch, S), NEW G, Inductive(G, S, ch)
  PROVE  SUBSET S \subseteq G
<1> DEFINE B == (SUBSET S) \ G
<1> SUFFICES ASSUME B # {} PROVE FALSE
  OBVIOUS
<1>1. B \in SUBSET SUBSET S /\ IsFiniteSet(S)
  BY DEF Chooses
<1> HIDE DEF B
<1>2. PICK s \in B : \A t \in B : t \subseteq s => t = s
  BY <1>1, LeastSubset
<1>3. s \in NonEmpty(S) /\ s \notin G
  BY <1>2 DEF B, Inductive, NonEmpty
<1>4. s \ {ch[s]} \in SUBSET S /\ s \ {ch[s]} \subseteq s /\ s \ {ch[s]} # s
  BY <1>3 DEF Chooses, NonEmpty
<1>5. s \ {ch[s]} \notin B
  BY <1>2, <1>4
<1>6. s \ {ch[s]} \in G
  BY <1>4, <1>5 DEF B
<1> QED BY <1>3, <1>6 DEF Inductive

\* The graph of the function that a fold defines.
Closed(R, S, V, base, ch, F) ==
  /\ <<{}, base>> \in R
  /\ \A s \in NonEmpty(S), v \in V : <<s \ {ch[s]}, v>> \in R => <<s, F[<<s, v>>]>> \in R
FoldGraph(S, V, base, ch, F) ==
  {p \in (SUBSET S) \X V :
     \A R \in SUBSET ((SUBSET S) \X V) : Closed(R, S, V, base, ch, F) => p \in R}
IsFold(g, S, V, base, ch, F) ==
  /\ g \in [SUBSET S -> V]
  /\ g[{}] = base
  /\ \A s \in NonEmpty(S) : g[s] = F[<<s, g[s \ {ch[s]}]>>]

LEMMA FoldExists ==
  ASSUME NEW S, NEW V, NEW base \in V, NEW ch, Chooses(ch, S),
         NEW F, \A s \in NonEmpty(S), v \in V : F[<<s, v>>] \in V
  PROVE  \E g : IsFold(g, S, V, base, ch, F)
<1> DEFINE G == FoldGraph(S, V, base, ch, F)
           C(R) == Closed(R, S, V, base, ch, F)
           Value(s) == CHOOSE v \in V : <<s, v>> \in G
           Unique == {s \in SUBSET S : \E v \in V : \A w \in V : <<s, w>> \in G <=> w = v}
<1>1. G \subseteq (SUBSET S) \X V
  BY DEF FoldGraph
<1>2. C(G)
  <2>1. <<{}, base>> \in G
    BY DEF FoldGraph, Closed
  <2>2. ASSUME NEW s \in NonEmpty(S), NEW v \in V, <<s \ {ch[s]}, v>> \in G
        PROVE  <<s, F[<<s, v>>]>> \in G
    BY <2>2 DEF FoldGraph, Closed, NonEmpty
  <2> QED BY <2>1, <2>2 DEF Closed
<1>3. ASSUME NEW R, R \subseteq G, C(R) PROVE G \subseteq R
  BY <1>1, <1>3 DEF FoldGraph
<1>4. {} \in Unique
  <2>1. ASSUME NEW w \in V, <<{}, w>> \in G, w # base PROVE FALSE
    <3> DEFINE R == G \ {<<{}, w>>}
    <3>1. C(R)
      BY <1>2, <2>1 DEF Closed, NonEmpty
    <3>2. R \subseteq G /\ <<{}, w>> \notin R
      OBVIOUS
    <3> HIDE DEF R, C, G
    <3> QED BY <1>3, <2>1, <3>1, <3>2
  <2> QED BY <1>2, <2>1 DEF Closed
<1>5. ASSUME NEW s \in NonEmpty(S), s \ {ch[s]} \in Unique PROVE s \in Unique
  <2>1. PICK v \in V : \A w \in V : <<s \ {ch[s]}, w>> \in G <=> w = v
    BY <1>5
  <2>2. <<s, F[<<s, v>>]>> \in G /\ F[<<s, v>>] \in V
    BY <1>2, <2>1 DEF Closed
  <2>3. ASSUME NEW w \in V, <<s, w>> \in G, w # F[<<s, v>>] PROVE FALSE
    <3> DEFINE R == G \ {<<s, w>>}
    <3>1. <<{}, base>> \in R
      BY <1>2 DEF Closed, NonEmpty
    <3>2. ASSUME NEW t \in NonEmpty(S), NEW x \in V, <<t \ {ch[t]}, x>> \in R
          PROVE  <<t, F[<<t, x>>]>> \in R
      BY <1>2, <2>1, <2>3, <3>2 DEF Closed
    <3>3. C(R)
      BY <3>1, <3>2 DEF Closed
    <3>4. R \subseteq G /\ <<s, w>> \notin R
      OBVIOUS
    <3> HIDE DEF R, C, G
    <3> QED BY <1>3, <2>3, <3>3, <3>4
  <2> QED BY <2>2, <2>3 DEF NonEmpty
<1>6. SUBSET S \subseteq Unique
  <2>1. Inductive(Unique, S, ch)
    BY <1>4, <1>5 DEF Inductive
  <2> HIDE DEF Unique
  <2> QED BY <2>1, ByChoice
<1>7. \A s \in SUBSET S : Value(s) \in V /\ \A w \in V : <<s, w>> \in G <=> w = Value(s)
  BY <1>6
<1> DEFINE g == [s \in SUBSET S |-> Value(s)]
<1> HIDE DEF G, Value
<1>8. g \in [SUBSET S -> V]
  BY <1>7
<1>9. g[{}] = base
  BY <1>2, <1>7 DEF Closed
<1>10. ASSUME NEW s \in NonEmpty(S) PROVE g[s] = F[<<s, g[s \ {ch[s]}]>>]
  <2>1. s \ {ch[s]} \in SUBSET S /\ s \in SUBSET S
    BY DEF NonEmpty
  <2>2. <<s \ {ch[s]}, Value(s \ {ch[s]})>> \in G /\ Value(s \ {ch[s]}) \in V
    BY <1>7, <2>1
  <2>3. <<s, F[<<s, Value(s \ {ch[s]})>>]>> \in G
    BY <1>2, <2>2 DEF Closed
  <2> QED BY <1>7, <2>1, <2>2, <2>3
<1>11. IsFold(g, S, V, base, ch, F)
  BY <1>8, <1>9, <1>10 DEF IsFold
<1> QED BY <1>11

\* F takes a value for a set without the element chosen to one for the set.
Closes(F, S, V) == \A s \in NonEmpty(S), v \in V : F[<<s, v>>] \in V

\* it is computed by F, as far as its values are in V.
Follows(it, S, V, base, ch, F) ==
  /\ it[{}] = base
  /\ \A s \in NonEmpty(S) : it[s \ {ch[s]}] \in V => it[s] = F[<<s, it[s \ {ch[s]}]>>]

\* The pairs of H are of sets and what is computed for them.
Carries(H, S, V, base, ch, F) ==
  /\ <<{}, base>> \in H
  /\ \A s \in NonEmpty(S), v \in V : <<s \ {ch[s]}, v>> \in H => <<s, F[<<s, v>>]>> \in H

\* What a step of a fold keeps, the fold keeps.
LEMMA FoldRule ==
  ASSUME NEW S, NEW V, NEW base \in V, NEW ch, Chooses(ch, S), NEW F, Closes(F, S, V),
         NEW it, Follows(it, S, V, base, ch, F), NEW H, Carries(H, S, V, base, ch, F)
  PROVE  it[S] \in V /\ <<S, it[S]>> \in H
<1> DEFINE G == {s \in SUBSET S : it[s] \in V /\ <<s, it[s]>> \in H}
<1>1. {} \in G
  BY DEF Follows, Carries
<1>2. ASSUME NEW s \in NonEmpty(S), s \ {ch[s]} \in G PROVE s \in G
  BY <1>2 DEF Follows, Carries, Closes, NonEmpty
<1>3. Inductive(G, S, ch)
  BY <1>1, <1>2 DEF Inductive
<1>4. S \in G
  <2> HIDE DEF G
  <2> QED BY <1>3, ByChoice
<1> QED BY <1>4

\* F keeps H, the relation of the elements that are done with what became of base.
Keeps(H, S, V, base, ch, F) ==
  /\ H \subseteq (SUBSET S) \X V
  /\ <<{}, base>> \in H
  /\ \A s \in NonEmpty(S), v \in V : <<s \ {ch[s]}, v>> \in H => <<s, F[<<s, v>>]>> \in H

\* g is what F makes of base, element by element.
IsFoldIn(g, H, S, base, ch, F) ==
  /\ g = [s \in SUBSET S |-> g[s]] /\ g[{}] = base
  /\ \A s \in NonEmpty(S) : g[s] = F[<<s, g[s \ {ch[s]}]>>]
  /\ \A s \in SUBSET S : <<s, g[s]>> \in H

LEMMA FoldIn ==
  ASSUME NEW S, NEW V, NEW base \in V, NEW ch, Chooses(ch, S), NEW F, NEW H,
         Keeps(H, S, V, base, ch, F)
  PROVE  \E g : IsFoldIn(g, H, S, base, ch, F)
<1> DEFINE E == [p \in NonEmpty(S) \X V |-> IF F[p] \in V THEN F[p] ELSE base]
<1>1. \A s \in NonEmpty(S), v \in V :
        E[<<s, v>>] \in V /\ (F[<<s, v>>] \in V => E[<<s, v>>] = F[<<s, v>>])
  OBVIOUS
<1> HIDE DEF E
<1>2. PICK g : IsFold(g, S, V, base, ch, E)
  BY <1>1, FoldExists
<1> DEFINE G == {s \in SUBSET S : <<s, g[s]>> \in H}
<1>3. {} \in G
  BY <1>2 DEF IsFold, Keeps
<1>4. ASSUME NEW s \in NonEmpty(S), s \ {ch[s]} \in G PROVE s \in G /\ g[s] = F[<<s, g[s \ {ch[s]}]>>]
  <2>1. <<s \ {ch[s]}, g[s \ {ch[s]}]>> \in H /\ g[s \ {ch[s]}] \in V
    BY <1>4 DEF Keeps
  <2>2. <<s, F[<<s, g[s \ {ch[s]}]>>]>> \in H
    BY <2>1 DEF Keeps
  <2>3. F[<<s, g[s \ {ch[s]}]>>] \in V
    BY <2>2 DEF Keeps
  <2>4. g[s] = E[<<s, g[s \ {ch[s]}]>>]
    BY <1>2 DEF IsFold
  <2>5. g[s] = F[<<s, g[s \ {ch[s]}]>>]
    BY <1>1, <2>1, <2>3, <2>4
  <2> QED BY <2>2, <2>5 DEF NonEmpty
<1>5. SUBSET S \subseteq G
  <2>1. Inductive(G, S, ch)
    BY <1>3, <1>4 DEF Inductive
  <2> HIDE DEF G
  <2> QED BY <2>1, ByChoice
<1>6. \A s \in NonEmpty(S) : s \ {ch[s]} \in SUBSET S
  BY DEF NonEmpty
<1>7. g = [s \in SUBSET S |-> g[s]] /\ g[{}] = base
  BY <1>2 DEF IsFold
<1>8. \A s \in SUBSET S : <<s, g[s]>> \in H
  BY <1>5
<1>9. \A s \in NonEmpty(S) : g[s] = F[<<s, g[s \ {ch[s]}]>>]
  BY <1>4, <1>5, <1>6
<1>10. IsFoldIn(g, H, S, base, ch, F)
  BY <1>7, <1>8, <1>9 DEF IsFoldIn
<1> QED BY <1>10

\* Two functions that are computed in the same way are the same.
SameSteps(g, h, S, ch) ==
  /\ g[{}] = h[{}]
  /\ \A s \in NonEmpty(S) : g[s \ {ch[s]}] = h[s \ {ch[s]}] => g[s] = h[s]

LEMMA SameFold ==
  ASSUME NEW S, NEW ch, Chooses(ch, S), NEW g, NEW h, SameSteps(g, h, S, ch)
  PROVE  g[S] = h[S]
<1> DEFINE G == {s \in SUBSET S : g[s] = h[s]}
<1>1. Inductive(G, S, ch)
  BY DEF Inductive, SameSteps, NonEmpty
<1>2. S \in G
  <2> HIDE DEF G
  <2> QED BY <1>1, ByChoice
<1> QED BY <1>2

LEMMA AnyOfSet ==
  ASSUME NEW S, IsFiniteSet(S)
  PROVE  Chooses([s \in NonEmpty(S) |-> CHOOSE x \in s : TRUE], S)
BY DEF Chooses, NonEmpty

-----------------------------------------------------------------------------
(* Greatest and least numbers.                                              *)

LEMMA BoundedFinite ==
  ASSUME NEW a \in Int, NEW b \in Int, NEW C, C \subseteq a..b
  PROVE  C \in SUBSET Int /\ IsFiniteSet(C)
<1>1. IsFiniteSet(a..b)
  BY FS_Interval
<1>2. IsFiniteSet(C)
  BY <1>1, FS_Subset
<1> QED BY <1>2

LEMMA MaxIs ==
  ASSUME NEW S \in SUBSET Int, IsFiniteSet(S), S # {}
  PROVE  Max(S) \in S /\ \A y \in S : Max(S) >= y
<1> SUFFICES \E x \in S : \A y \in S : x >= y
  BY DEF Max
<1> DEFINE G == {s \in SUBSET S : s # {} => \E x \in s : \A y \in s : x >= y}
           ch == [s \in NonEmpty(S) |-> CHOOSE x \in s : TRUE]
<1>1. Chooses(ch, S)
  BY DEF Chooses, NonEmpty
<1> HIDE DEF ch
<1>2. ASSUME NEW s \in NonEmpty(S), s \ {ch[s]} \in G PROVE s \in G
  <2>1. ch[s] \in s /\ ch[s] \in Int /\ s \subseteq Int /\ s \in SUBSET S
    BY <1>1 DEF Chooses, NonEmpty
  <2>2. CASE s \ {ch[s]} = {}
    <3>1. s = {ch[s]}
      BY <2>1, <2>2
    <3> QED BY <2>1, <3>1
  <2>3. CASE s \ {ch[s]} # {}
    <3>1. PICK x \in s \ {ch[s]} : \A y \in s \ {ch[s]} : x >= y
      BY <1>2, <2>3
    <3>2. CASE x >= ch[s]
      BY <2>1, <3>1, <3>2
    <3>3. CASE ~(x >= ch[s])
      <4>1. \A y \in s : ch[s] >= y
        BY <2>1, <3>1, <3>3
      <4> QED BY <2>1, <4>1
    <3> QED BY <3>2, <3>3
  <2> QED BY <2>2, <2>3
<1>3. Inductive(G, S, ch)
  BY <1>2 DEF Inductive
<1>4. SUBSET S \subseteq G
  <2> HIDE DEF G
  <2> QED BY <1>1, <1>3, ByChoice
<1> QED BY <1>4

LEMMA MinIs ==
  ASSUME NEW S \in SUBSET Int, IsFiniteSet(S), S # {}
  PROVE  Min(S) \in S /\ \A y \in S : Min(S) <= y
<1> DEFINE N == {-x : x \in S}
<1>1. N \in SUBSET Int /\ N # {}
  <2>1. \A x \in S : -x \in N /\ -x \in Int
    OBVIOUS
  <2> QED BY <2>1
<1>2. IsFiniteSet(N)
  <2> DEFINE f == [x \in S |-> -x]
  <2>1. f \in Surjection(S, N)
    BY DEF Surjection
  <2> QED BY <2>1, FS_Surjection
<1>3. Max(N) \in N /\ \A y \in N : Max(N) >= y
  BY <1>1, <1>2, MaxIs
<1>4. -Max(N) \in S /\ \A y \in S : -Max(N) <= y
  <2>1. PICK x \in S : Max(N) = -x
    BY <1>3
  <2>2. \A y \in S : Max(N) >= -y
    BY <1>3
  <2> HIDE DEF N
  <2> QED BY <2>1, <2>2
<1> HIDE DEF N
<1>5. \E x \in S : \A y \in S : x <= y
  BY <1>4
<1> QED BY <1>5 DEF Min

LEMMA LastOf ==
  ASSUME NEW n \in Nat
  PROVE  Chooses([s \in NonEmpty(1..n) |-> Max(s)], 1..n)
<1>1. IsFiniteSet(1..n)
  BY FS_Interval
<1>2. ASSUME NEW s \in NonEmpty(1..n) PROVE Max(s) \in s
  <2>1. s \subseteq 1..n /\ s # {}
    BY DEF NonEmpty
  <2>2. s \in SUBSET Int /\ IsFiniteSet(s)
    <3>1. 1 \in Int /\ n \in Int
      OBVIOUS
    <3> QED BY <2>1, <3>1, BoundedFinite
  <2> QED BY <2>1, <2>2, MaxIs
<1> QED BY <1>1, <1>2 DEF Chooses

LEMMA LeastOfTwo ==
  ASSUME NEW m \in Int, NEW n \in Int
  PROVE  Min({m, n}) \in {m, n} /\ Min({m, n}) <= m /\ Min({m, n}) <= n
<1>1. {m, n} \in SUBSET Int /\ {m, n} # {} /\ {m, n} = {m} \cup {n}
  OBVIOUS
<1>2. IsFiniteSet({m, n})
  <2>1. IsFiniteSet({m}) /\ IsFiniteSet({n})
    BY FS_Singleton
  <2>2. IsFiniteSet({m} \cup {n})
    BY <2>1, FS_Union
  <2> QED BY <1>1, <2>2
<1> QED BY <1>1, <1>2, MinIs

-----------------------------------------------------------------------------
(* The cells of the KV cache: one cell.                                     *)

CellsRec ==
  [pos : [Cells -> Int], shift : [Cells -> Int], seq : [Cells -> SUBSET Seqs],
   used : SUBSET Cells, seqPos : [Seqs -> [0..MaxPos -> Int]]]

\* The cells that have position p of sequence s.
At(c, s, p) == {j \in Cells : s \in c.seq[j] /\ c.pos[j] = p}

\* What is kept beside the cells says what the cells say.
Exact(c) ==
  /\ c.used = {j \in Cells : ~IsEmpty(c, j)}
  /\ \A s \in Seqs, p \in 0..MaxPos : c.seqPos[s][p] = Cardinality(At(c, s, p))

\* A cell without a sequence has no position and no shift.
Settled(c) ==
  \A j \in Cells : /\ c.pos[j] \in -1..MaxPos
                   /\ (IsEmpty(c, j) <=> c.seq[j] = {})
                   /\ (IsEmpty(c, j) => c.shift[j] = 0)

SoundCells == {c \in CellsRec : Exact(c) /\ Settled(c)}

\* All is as it was in the cells other than i.
SameBut(c, d, i) ==
  \A j \in Cells \ {i} : d.pos[j] = c.pos[j] /\ d.shift[j] = c.shift[j] /\ d.seq[j] = c.seq[j]

\* What cell i counts for.
Here(c, i, s, p) == IF s \in c.seq[i] /\ c.pos[i] = p THEN 1 ELSE 0

\* The counters of all but cell i.
Others(c, i, s, p) == c.seqPos[s][p] - Here(c, i, s, p)

LEMMA CellsFinite == IsFiniteSet(Cells) /\ \A c, s, p : IsFiniteSet(At(c, s, p))
<1>1. IsFiniteSet(0..NCells - 1)
  BY CacheAssumption, FS_Interval
<1> QED BY <1>1, FS_Subset DEF Cells, At

LEMMA SizeWithout ==
  ASSUME NEW S, NEW i, IsFiniteSet(S), NEW h, h = IF i \in S THEN 1 ELSE 0
  PROVE  Cardinality(S \ {i}) = Cardinality(S) - h
BY FS_RemoveElement, FS_CardinalityType

\* If one cell changes, the counters are right when what it counted for is taken
\* off and what it counts for is added.
LEMMA OneCellChanges ==
  ASSUME NEW c \in CellsRec, NEW d \in CellsRec, NEW i \in Cells, Exact(c), SameBut(c, d, i),
         d.used \ {i} = c.used \ {i}, i \in d.used <=> ~IsEmpty(d, i),
         \A s \in Seqs, p \in 0..MaxPos : Others(d, i, s, p) = Others(c, i, s, p)
  PROVE  Exact(d)
<1>1. d.used = {j \in Cells : ~IsEmpty(d, j)}
  BY DEF CellsRec, Exact, IsEmpty, SameBut
<1>2. ASSUME NEW s \in Seqs, NEW p \in 0..MaxPos PROVE d.seqPos[s][p] = Cardinality(At(d, s, p))
  <2>1. At(c, s, p) \ {i} = At(d, s, p) \ {i}
    BY DEF At, SameBut
  <2>2. IsFiniteSet(At(c, s, p)) /\ IsFiniteSet(At(d, s, p))
    BY CellsFinite
  <2>3. Here(c, i, s, p) = IF i \in At(c, s, p) THEN 1 ELSE 0
    BY DEF At, Here
  <2>4. Here(d, i, s, p) = IF i \in At(d, s, p) THEN 1 ELSE 0
    BY DEF At, Here
  <2>5. Cardinality(At(c, s, p)) \in Int /\ Cardinality(At(d, s, p)) \in Int
    BY <2>2, FS_CardinalityType
  <2>6. Cardinality(At(c, s, p) \ {i}) = Cardinality(At(c, s, p)) - Here(c, i, s, p)
    BY <2>2, <2>3, SizeWithout
  <2>7. Cardinality(At(d, s, p) \ {i}) = Cardinality(At(d, s, p)) - Here(d, i, s, p)
    BY <2>2, <2>4, SizeWithout
  <2>8. c.seqPos[s][p] = Cardinality(At(c, s, p)) /\ d.seqPos[s][p] \in Int
    BY DEF Exact, CellsRec
  <2>9. d.seqPos[s][p] - Here(d, i, s, p) = c.seqPos[s][p] - Here(c, i, s, p)
    BY DEF Others
  <2>10. Here(c, i, s, p) \in Int /\ Here(d, i, s, p) \in Int
    BY DEF Here
  <2>11. Cardinality(At(c, s, p) \ {i}) = Cardinality(At(d, s, p) \ {i})
    BY <2>1
  <2> QED BY <2>5, <2>6, <2>7, <2>8, <2>9, <2>10, <2>11
<1> QED BY <1>1, <1>2 DEF Exact

LEMMA VacateIs ==
  ASSUME NEW c \in CellsRec, NEW i \in Cells
  PROVE  /\ Vacate(c, i) \in CellsRec /\ SameBut(c, Vacate(c, i), i)
         /\ Vacate(c, i).pos[i] = -1 /\ Vacate(c, i).shift[i] = 0 /\ Vacate(c, i).seq[i] = {}
         /\ Vacate(c, i).used = c.used \ {i} /\ Vacate(c, i).seqPos = c.seqPos
<1>1. PICK d : d = Vacate(c, i)
  OBVIOUS
<1>2. d.pos = [c.pos EXCEPT ![i] = -1]
  BY <1>1 DEF CellsRec, Vacate
<1>3. d.shift = [c.shift EXCEPT ![i] = 0]
  BY <1>1 DEF CellsRec, Vacate
<1>4. d.seq = [c.seq EXCEPT ![i] = {}]
  BY <1>1 DEF CellsRec, Vacate
<1>5. d.used = c.used \ {i}
  BY <1>1 DEF CellsRec, Vacate
<1>6. d.seqPos = c.seqPos
  BY <1>1 DEF CellsRec, Vacate
<1>7. d = [pos |-> d.pos, shift |-> d.shift, seq |-> d.seq, used |-> d.used, seqPos |-> d.seqPos]
  BY <1>1 DEF CellsRec, Vacate
<1>8. /\ d.pos \in [Cells -> Int] /\ d.shift \in [Cells -> Int] /\ d.seq \in [Cells -> SUBSET Seqs]
      /\ d.used \in SUBSET Cells /\ d.seqPos \in [Seqs -> [0..MaxPos -> Int]]
  BY <1>2, <1>3, <1>4, <1>5, <1>6 DEF CellsRec
<1>9. d \in CellsRec
  BY <1>7, <1>8 DEF CellsRec
<1>20. SameBut(c, d, i) /\ d.pos[i] = -1 /\ d.shift[i] = 0 /\ d.seq[i] = {}
  BY <1>2, <1>3, <1>4 DEF CellsRec, SameBut
<1> QED BY <1>1, <1>5, <1>6, <1>9, <1>20

LEMMA SeqPosAddNIs ==
  ASSUME NEW c \in CellsRec, NEW i \in Cells, NEW n \in Int
  PROVE  /\ SeqPosAddN(c, i, n) \in CellsRec
         /\ SeqPosAddN(c, i, n).pos = c.pos /\ SeqPosAddN(c, i, n).shift = c.shift
         /\ SeqPosAddN(c, i, n).seq = c.seq /\ SeqPosAddN(c, i, n).used = c.used
         /\ \A s \in Seqs, p \in 0..MaxPos :
              SeqPosAddN(c, i, n).seqPos[s][p] = c.seqPos[s][p] + n * Here(c, i, s, p)
<1> DEFINE f == [s \in Seqs |-> [p \in 0..MaxPos |->
                   IF s \in c.seq[i] /\ p = c.pos[i] THEN c.seqPos[s][p] + n ELSE c.seqPos[s][p]]]
<1>1. \A s \in Seqs, p \in 0..MaxPos : c.seqPos[s][p] \in Int
  BY DEF CellsRec
<1>2. f \in [Seqs -> [0..MaxPos -> Int]]
  BY <1>1
<1>3. \A s \in Seqs, p \in 0..MaxPos : f[s][p] = c.seqPos[s][p] + n * Here(c, i, s, p)
  BY <1>1 DEF Here
<1>4. SeqPosAddN(c, i, n) = [c EXCEPT !.seqPos = f]
  BY DEF SeqPosAddN
<1> HIDE DEF f
<1> QED BY <1>2, <1>3, <1>4 DEF CellsRec

\* From c to d cell i alone changes, and so do its counters.
Only(c, d, i) ==
  /\ d \in CellsRec /\ SameBut(c, d, i) /\ d.used \ {i} = c.used \ {i}
  /\ \A s \in Seqs, p \in 0..MaxPos : Others(d, i, s, p) = Others(c, i, s, p)

\* What cell i is.
CellIs(d, i, p, x, S) == d.pos[i] = p /\ d.shift[i] = x /\ d.seq[i] = S

LEMMA OnlySound ==
  ASSUME NEW c \in SoundCells, NEW d, NEW i \in Cells, Only(c, d, i), i \in d.used <=> ~IsEmpty(d, i),
         d.pos[i] \in -1..MaxPos, IsEmpty(d, i) <=> d.seq[i] = {}, IsEmpty(d, i) => d.shift[i] = 0
  PROVE  d \in SoundCells
<1>1. c \in CellsRec /\ Exact(c) /\ Settled(c) /\ d \in CellsRec
  BY DEF SoundCells, Only
<1>2. Exact(d)
  BY <1>1, OneCellChanges DEF Only
<1>3. Settled(d)
  BY <1>1 DEF Only, SameBut, Settled, IsEmpty
<1> QED BY <1>1, <1>2, <1>3 DEF SoundCells

LEMMA OnlyTwice ==
  ASSUME NEW c, NEW d, NEW e, NEW i \in Cells, Only(c, d, i), Only(d, e, i)
  PROVE  Only(c, e, i)
BY DEF Only, SameBut

LEMMA CountersTyped ==
  ASSUME NEW c \in CellsRec, NEW i \in Cells, NEW s \in Seqs, NEW p \in 0..MaxPos
  PROVE  c.seqPos[s][p] \in Int /\ Here(c, i, s, p) \in {0, 1} /\ Others(c, i, s, p) \in Int
<1>1. c.seqPos \in [Seqs -> [0..MaxPos -> Int]]
  BY DEF CellsRec
<1>2. c.seqPos[s][p] \in Int
  BY <1>1
<1>3. Here(c, i, s, p) \in {0, 1}
  BY DEF Here
<1> QED BY <1>2, <1>3 DEF Others

LEMMA RmCellIs ==
  ASSUME NEW c \in CellsRec, NEW i \in Cells
  PROVE  /\ Only(c, RmCell(c, i), i) /\ CellIs(RmCell(c, i), i, -1, 0, {})
         /\ RmCell(c, i).used = c.used \ {i}
<1>1. PICK r : r = SeqPosRm(c, i)
  OBVIOUS
<1>2. /\ r \in CellsRec /\ r.pos = c.pos /\ r.shift = c.shift /\ r.seq = c.seq /\ r.used = c.used
      /\ \A s \in Seqs, p \in 0..MaxPos : r.seqPos[s][p] = c.seqPos[s][p] + (-1) * Here(c, i, s, p)
  <2>1. -1 \in Int
    OBVIOUS
  <2> QED BY <1>1, <2>1, SeqPosAddNIs DEF SeqPosRm
<1>3. PICK d : d = Vacate(r, i)
  OBVIOUS
<1>4. /\ d \in CellsRec /\ SameBut(r, d, i) /\ CellIs(d, i, -1, 0, {})
      /\ d.used = r.used \ {i} /\ d.seqPos = r.seqPos
  BY <1>2, <1>3, VacateIs DEF CellIs
<1>5. ASSUME NEW s \in Seqs, NEW p \in 0..MaxPos PROVE Others(d, i, s, p) = Others(c, i, s, p)
  <2>1. Here(d, i, s, p) = 0
    BY <1>4 DEF CellIs, Here
  <2> QED BY <1>2, <1>4, <2>1, CountersTyped DEF Others
<1>6. SameBut(c, d, i)
  BY <1>2, <1>4 DEF SameBut
<1> QED BY <1>1, <1>2, <1>3, <1>4, <1>5, <1>6 DEF Only, RmCell

\* Sequence s leaves the cell, which is emptied if it was the last.
LEMMA SeqRmIs ==
  ASSUME NEW c \in SoundCells, NEW i \in Cells, NEW s \in c.seq[i]
  PROVE  /\ SeqRm(c, i, s) \in SoundCells /\ SameBut(c, SeqRm(c, i, s), i)
         /\ IF c.seq[i] = {s} THEN CellIs(SeqRm(c, i, s), i, -1, 0, {})
            ELSE CellIs(SeqRm(c, i, s), i, c.pos[i], c.shift[i], c.seq[i] \ {s})
<1>1. c \in CellsRec /\ s \in Seqs /\ c.pos[i] \in 0..MaxPos /\ c.seq[i] \in SUBSET Seqs
  BY DEF SoundCells, CellsRec, Settled, IsEmpty
<1>2. PICK d : d = [c EXCEPT !.seq[i] = @ \ {s}, !.seqPos[s][c.pos[i]] = @ - 1]
  OBVIOUS
<1>3. d.seq = [c.seq EXCEPT ![i] = @ \ {s}]
  BY <1>2 DEF CellsRec
<1>4. d.seqPos = [c.seqPos EXCEPT ![s][c.pos[i]] = @ - 1]
  BY <1>1, <1>2 DEF CellsRec
<1>5. d.pos = c.pos /\ d.shift = c.shift /\ d.used = c.used
  BY <1>1, <1>2 DEF CellsRec
<1>6. d = [pos |-> d.pos, shift |-> d.shift, seq |-> d.seq, used |-> d.used, seqPos |-> d.seqPos]
  BY <1>1, <1>2 DEF CellsRec
<1>7. d.seqPos \in [Seqs -> [0..MaxPos -> Int]]
  <2>1. c.seqPos \in [Seqs -> [0..MaxPos -> Int]]
    BY <1>1 DEF CellsRec
  <2>2. c.seqPos[s][c.pos[i]] \in Int
    BY <1>1, CountersTyped
  <2>3. c.seqPos[s][c.pos[i]] - 1 \in Int
    BY <2>2
  <2> QED BY <1>1, <1>4, <2>1, <2>3
<1>8. d.seq \in [Cells -> SUBSET Seqs] /\ d.seq[i] = c.seq[i] \ {s} /\ \A j \in Cells \ {i} : d.seq[j] = c.seq[j]
  BY <1>1, <1>3 DEF CellsRec
<1>9. d \in CellsRec
  BY <1>1, <1>5, <1>6, <1>7, <1>8 DEF CellsRec
<1>10. ASSUME NEW t \in Seqs, NEW p \in 0..MaxPos PROVE Others(d, i, t, p) = Others(c, i, t, p)
  <2>1. CASE t = s /\ p = c.pos[i]
    <3>1. Here(d, i, t, p) = 0 /\ Here(c, i, t, p) = 1
      BY <1>1, <1>5, <1>8, <2>1 DEF Here
    <3>2. d.seqPos[t][p] = c.seqPos[t][p] - 1
      <4>1. s \in DOMAIN c.seqPos /\ c.pos[i] \in DOMAIN c.seqPos[s]
        BY <1>1 DEF CellsRec
      <4> QED BY <1>4, <2>1, <4>1
    <3> QED BY <1>1, <3>1, <3>2, CountersTyped DEF Others
  <2>2. CASE ~(t = s /\ p = c.pos[i])
    <3>1. Here(d, i, t, p) = Here(c, i, t, p)
      BY <1>1, <1>5, <1>8, <2>2 DEF Here
    <3>2. d.seqPos[t][p] = c.seqPos[t][p]
      BY <1>1, <1>4, <2>2 DEF CellsRec
    <3> QED BY <3>1, <3>2 DEF Others
  <2> QED BY <2>1, <2>2
<1>11. Only(c, d, i)
  BY <1>5, <1>8, <1>9, <1>10 DEF Only, SameBut
<1>12. i \in c.used
  BY <1>1 DEF SoundCells, Exact, IsEmpty
<1>13. CASE c.seq[i] = {s}
  <2>1. PICK e : e = Vacate(d, i)
    OBVIOUS
  <2>2. /\ e \in CellsRec /\ SameBut(d, e, i) /\ CellIs(e, i, -1, 0, {})
        /\ e.used = d.used \ {i} /\ e.seqPos = d.seqPos
    BY <1>9, <2>1, VacateIs DEF CellIs
  <2>3. ASSUME NEW t \in Seqs, NEW p \in 0..MaxPos PROVE Others(e, i, t, p) = Others(d, i, t, p)
    <3>1. Here(e, i, t, p) = 0 /\ Here(d, i, t, p) = 0
      BY <1>8, <1>13, <2>2 DEF CellIs, Here
    <3> QED BY <2>2, <3>1 DEF Others
  <2>4. Only(c, e, i)
    BY <1>11, <2>2, <2>3, OnlyTwice DEF Only
  <2>5. e \in SoundCells
    <3>1. i \notin e.used /\ IsEmpty(e, i) /\ -1 \in -1..MaxPos
      BY <2>2, CacheAssumption DEF CellIs, IsEmpty
    <3> QED BY <2>2, <2>4, <3>1, OnlySound DEF CellIs
  <2>6. SeqRm(c, i, s) = e
    BY <1>2, <1>8, <1>13, <2>1 DEF SeqRm
  <2> QED BY <1>13, <2>2, <2>4, <2>5, <2>6 DEF Only
<1>14. CASE c.seq[i] # {s}
  <2>1. d.seq[i] # {}
    BY <1>8, <1>14
  <2>2. SeqRm(c, i, s) = d
    BY <1>2, <2>1 DEF SeqRm
  <2>3. CellIs(d, i, c.pos[i], c.shift[i], c.seq[i] \ {s})
    BY <1>5, <1>8 DEF CellIs
  <2>4. d \in SoundCells
    BY <1>1, <1>5, <1>11, <1>12, <2>1, OnlySound DEF IsEmpty
  <2> QED BY <1>11, <1>14, <2>2, <2>3, <2>4 DEF Only
<1> QED BY <1>13, <1>14

\* The cell is left to sequence s, if s has it, and emptied if not.
LEMMA SeqKeepIs ==
  ASSUME NEW c \in SoundCells, NEW i \in Cells, NEW s \in Seqs
  PROVE  /\ SeqKeep(c, i, s) \in SoundCells /\ SameBut(c, SeqKeep(c, i, s), i)
         /\ IF s \in c.seq[i] THEN CellIs(SeqKeep(c, i, s), i, c.pos[i], c.shift[i], {s})
            ELSE CellIs(SeqKeep(c, i, s), i, -1, 0, {})
<1>1. c \in CellsRec /\ c.pos[i] \in -1..MaxPos /\ MaxPos \in Nat
  BY CacheAssumption DEF SoundCells, Settled
<1>2. CASE s \in c.seq[i]
  <2>1. PICK r : r = SeqPosRm(c, i)
    OBVIOUS
  <2>2. /\ r \in CellsRec /\ r.pos = c.pos /\ r.shift = c.shift /\ r.seq = c.seq /\ r.used = c.used
        /\ \A t \in Seqs, p \in 0..MaxPos : r.seqPos[t][p] = c.seqPos[t][p] + (-1) * Here(c, i, t, p)
    <3>1. -1 \in Int
      OBVIOUS
    <3> QED BY <1>1, <2>1, <3>1, SeqPosAddNIs DEF SeqPosRm
  <2>3. PICK k : k = [r EXCEPT !.seq[i] = {s}]
    OBVIOUS
  <2>4. k.seq = [c.seq EXCEPT ![i] = {s}]
    BY <2>2, <2>3 DEF CellsRec
  <2>5. k.pos = c.pos /\ k.shift = c.shift /\ k.used = c.used /\ k.seqPos = r.seqPos
        /\ k = [pos |-> k.pos, shift |-> k.shift, seq |-> k.seq, used |-> k.used, seqPos |-> k.seqPos]
    BY <2>2, <2>3 DEF CellsRec
  <2>6. k.seq \in [Cells -> SUBSET Seqs] /\ k.seq[i] = {s} /\ \A j \in Cells \ {i} : k.seq[j] = c.seq[j]
    BY <1>1, <2>4 DEF CellsRec
  <2>7. k \in CellsRec
    BY <1>1, <2>2, <2>5, <2>6 DEF CellsRec
  <2>8. PICK d : d = SeqPosAdd(k, i)
    OBVIOUS
  <2>9. /\ d \in CellsRec /\ d.pos = k.pos /\ d.shift = k.shift /\ d.seq = k.seq /\ d.used = k.used
        /\ \A t \in Seqs, p \in 0..MaxPos : d.seqPos[t][p] = k.seqPos[t][p] + 1 * Here(k, i, t, p)
    BY <2>7, <2>8, SeqPosAddNIs DEF SeqPosAdd
  <2>10. ASSUME NEW t \in Seqs, NEW p \in 0..MaxPos PROVE Others(d, i, t, p) = Others(c, i, t, p)
    <3>1. Here(d, i, t, p) = Here(k, i, t, p)
      BY <2>9 DEF Here
    <3>2. d.seqPos[t][p] = r.seqPos[t][p] + 1 * Here(k, i, t, p)
      BY <2>5, <2>9
    <3>3. r.seqPos[t][p] = c.seqPos[t][p] + (-1) * Here(c, i, t, p)
      BY <2>2
    <3>4. Here(k, i, t, p) \in Int /\ Here(c, i, t, p) \in Int /\ c.seqPos[t][p] \in Int
      BY <1>1, <2>7, CountersTyped
    <3> QED BY <3>1, <3>2, <3>3, <3>4 DEF Others
  <2>11. SameBut(c, d, i) /\ CellIs(d, i, c.pos[i], c.shift[i], {s}) /\ d.used = c.used
    BY <2>5, <2>6, <2>9 DEF SameBut, CellIs
  <2>12. Only(c, d, i)
    BY <2>9, <2>10, <2>11 DEF Only
  <2>13. ~IsEmpty(c, i) /\ i \in c.used
    BY <1>2 DEF SoundCells, Settled, Exact
  <2>14. d \in SoundCells
    BY <1>1, <2>11, <2>12, <2>13, OnlySound DEF CellIs, IsEmpty
  <2>15. SeqKeep(c, i, s) = d
    BY <1>2, <2>1, <2>3, <2>8 DEF SeqKeep
  <2> QED BY <1>2, <2>11, <2>14, <2>15
<1>3. CASE s \notin c.seq[i] /\ c.seq[i] # {}
  <2>1. PICK d : d = RmCell(c, i)
    OBVIOUS
  <2>2. Only(c, d, i) /\ CellIs(d, i, -1, 0, {}) /\ d.used = c.used \ {i}
    BY <1>1, <2>1, RmCellIs
  <2>3. i \notin d.used /\ IsEmpty(d, i) /\ -1 \in -1..MaxPos
    BY <1>1, <2>2 DEF CellIs, IsEmpty
  <2>4. d \in SoundCells
    BY <2>2, <2>3, OnlySound DEF CellIs
  <2>5. SeqKeep(c, i, s) = d
    BY <1>3, <2>1 DEF SeqKeep
  <2> QED BY <1>3, <2>2, <2>4, <2>5 DEF Only
<1>4. CASE c.seq[i] = {}
  <2>1. SeqKeep(c, i, s) = c
    BY <1>4 DEF SeqKeep
  <2>2. CellIs(c, i, -1, 0, {})
    BY <1>4 DEF CellIs, SoundCells, Settled, IsEmpty
  <2> QED BY <1>4, <2>1, <2>2 DEF SameBut
<1> QED BY <1>2, <1>3, <1>4

\* One more sequence has the cell; its counters are right, whatever it is.
LEMMA SeqAddIs ==
  ASSUME NEW c \in CellsRec, NEW i \in Cells, NEW s \in Seqs \ c.seq[i], c.pos[i] \in 0..MaxPos
  PROVE  /\ Only(c, SeqAdd(c, i, s), i) /\ SeqAdd(c, i, s).used = c.used
         /\ CellIs(SeqAdd(c, i, s), i, c.pos[i], c.shift[i], c.seq[i] \cup {s})
<1>1. PICK d : d = SeqAdd(c, i, s)
  OBVIOUS
<1>2. d.seq = [c.seq EXCEPT ![i] = @ \cup {s}]
  BY <1>1 DEF CellsRec, SeqAdd
<1>3. d.seqPos = [c.seqPos EXCEPT ![s][c.pos[i]] = @ + 1]
  BY <1>1 DEF CellsRec, SeqAdd
<1>4. d.pos = c.pos /\ d.shift = c.shift /\ d.used = c.used
      /\ d = [pos |-> d.pos, shift |-> d.shift, seq |-> d.seq, used |-> d.used, seqPos |-> d.seqPos]
  BY <1>1 DEF CellsRec, SeqAdd
<1>5. d.seqPos \in [Seqs -> [0..MaxPos -> Int]]
  <2>1. c.seqPos \in [Seqs -> [0..MaxPos -> Int]]
    BY DEF CellsRec
  <2>2. c.seqPos[s][c.pos[i]] \in Int
    BY CountersTyped
  <2>3. c.seqPos[s][c.pos[i]] + 1 \in Int
    BY <2>2
  <2> QED BY <1>3, <2>1, <2>3
<1>6. d.seq \in [Cells -> SUBSET Seqs] /\ d.seq[i] = c.seq[i] \cup {s} /\ \A j \in Cells \ {i} : d.seq[j] = c.seq[j]
  BY <1>2 DEF CellsRec
<1>7. d \in CellsRec
  BY <1>4, <1>5, <1>6 DEF CellsRec
<1>8. ASSUME NEW t \in Seqs, NEW p \in 0..MaxPos PROVE Others(d, i, t, p) = Others(c, i, t, p)
  <2>1. CASE t = s /\ p = c.pos[i]
    <3>1. Here(d, i, t, p) = 1 /\ Here(c, i, t, p) = 0
      BY <1>4, <1>6, <2>1 DEF Here
    <3>2. d.seqPos[t][p] = c.seqPos[t][p] + 1
      <4>1. s \in DOMAIN c.seqPos /\ c.pos[i] \in DOMAIN c.seqPos[s]
        BY DEF CellsRec
      <4> QED BY <1>3, <2>1, <4>1
    <3> QED BY <3>1, <3>2, CountersTyped DEF Others
  <2>2. CASE ~(t = s /\ p = c.pos[i])
    <3>1. Here(d, i, t, p) = Here(c, i, t, p)
      BY <1>4, <1>6, <2>2 DEF Here
    <3>2. d.seqPos[t][p] = c.seqPos[t][p]
      BY <1>3, <2>2 DEF CellsRec
    <3> QED BY <3>1, <3>2 DEF Others
  <2> QED BY <2>1, <2>2
<1>9. SameBut(c, d, i) /\ CellIs(d, i, c.pos[i], c.shift[i], c.seq[i] \cup {s})
  BY <1>4, <1>6 DEF SameBut, CellIs
<1> QED BY <1>1, <1>4, <1>7, <1>8, <1>9 DEF Only

\* The cell moves by n, with a shift that is pending, and is emptied if it would
\* come before the first position.
LEMMA PosAddIs ==
  ASSUME NEW c \in SoundCells, NEW i \in Cells, ~IsEmpty(c, i), NEW n \in Int, n <= 0
  PROVE  /\ PosAdd(c, i, n) \in SoundCells /\ SameBut(c, PosAdd(c, i, n), i)
         /\ IF c.pos[i] + n < 0 THEN CellIs(PosAdd(c, i, n), i, -1, 0, {})
            ELSE CellIs(PosAdd(c, i, n), i, c.pos[i] + n, c.shift[i] + n, c.seq[i])
<1>1. c \in CellsRec /\ c.pos[i] \in 0..MaxPos /\ MaxPos \in Nat /\ c.shift[i] \in Int
  BY CacheAssumption DEF SoundCells, Settled, IsEmpty, CellsRec
<1>2. PICK r : r = SeqPosRm(c, i)
  OBVIOUS
<1>3. /\ r \in CellsRec /\ r.pos = c.pos /\ r.shift = c.shift /\ r.seq = c.seq /\ r.used = c.used
      /\ \A t \in Seqs, p \in 0..MaxPos : r.seqPos[t][p] = c.seqPos[t][p] + (-1) * Here(c, i, t, p)
  <2>1. -1 \in Int
    OBVIOUS
  <2> QED BY <1>1, <1>2, <2>1, SeqPosAddNIs DEF SeqPosRm
<1>4. PICK e : e = [r EXCEPT !.pos[i] = @ + n, !.shift[i] = @ + n]
  OBVIOUS
<1>5. e.pos = [c.pos EXCEPT ![i] = @ + n]
  BY <1>3, <1>4 DEF CellsRec
<1>6. e.shift = [c.shift EXCEPT ![i] = @ + n]
  BY <1>3, <1>4 DEF CellsRec
<1>7. e.seq = c.seq /\ e.used = c.used /\ e.seqPos = r.seqPos
      /\ e = [pos |-> e.pos, shift |-> e.shift, seq |-> e.seq, used |-> e.used, seqPos |-> e.seqPos]
  BY <1>3, <1>4 DEF CellsRec
<1>8. e.pos \in [Cells -> Int] /\ e.pos[i] = c.pos[i] + n /\ \A j \in Cells \ {i} : e.pos[j] = c.pos[j]
  BY <1>1, <1>5 DEF CellsRec
<1>9. e.shift \in [Cells -> Int] /\ e.shift[i] = c.shift[i] + n /\ \A j \in Cells \ {i} : e.shift[j] = c.shift[j]
  BY <1>1, <1>6 DEF CellsRec
<1>10. e \in CellsRec
  BY <1>1, <1>3, <1>7, <1>8, <1>9 DEF CellsRec
<1>11. SameBut(c, e, i)
  BY <1>7, <1>8, <1>9 DEF SameBut
<1>12. ASSUME NEW t \in Seqs, NEW p \in 0..MaxPos PROVE e.seqPos[t][p] = Others(c, i, t, p)
  BY <1>1, <1>3, <1>7, CountersTyped DEF Others
<1>13. CASE c.pos[i] + n < 0
  <2>1. PICK d : d = Vacate(e, i)
    OBVIOUS
  <2>2. /\ d \in CellsRec /\ SameBut(e, d, i) /\ CellIs(d, i, -1, 0, {})
        /\ d.used = e.used \ {i} /\ d.seqPos = e.seqPos
    BY <1>10, <2>1, VacateIs DEF CellIs
  <2>3. ASSUME NEW t \in Seqs, NEW p \in 0..MaxPos PROVE Others(d, i, t, p) = Others(c, i, t, p)
    <3>1. Here(d, i, t, p) = 0
      BY <2>2 DEF CellIs, Here
    <3>2. d.seqPos[t][p] = Others(c, i, t, p) /\ Others(c, i, t, p) \in Int
      BY <1>1, <1>12, <2>2, CountersTyped
    <3> QED BY <3>1, <3>2 DEF Others
  <2>4. Only(c, d, i)
    BY <1>7, <1>11, <2>2, <2>3 DEF Only, SameBut
  <2>5. i \notin d.used /\ IsEmpty(d, i) /\ -1 \in -1..MaxPos
    BY <1>1, <2>2 DEF CellIs, IsEmpty
  <2>6. d \in SoundCells
    BY <2>2, <2>4, <2>5, OnlySound DEF CellIs
  <2>7. PosAdd(c, i, n) = d
    BY <1>2, <1>4, <1>8, <1>13, <2>1 DEF PosAdd
  <2> QED BY <1>13, <2>2, <2>4, <2>6, <2>7 DEF Only
<1>14. CASE ~(c.pos[i] + n < 0)
  <2>1. PICK d : d = SeqPosAdd(e, i)
    OBVIOUS
  <2>2. /\ d \in CellsRec /\ d.pos = e.pos /\ d.shift = e.shift /\ d.seq = e.seq /\ d.used = e.used
        /\ \A t \in Seqs, p \in 0..MaxPos : d.seqPos[t][p] = e.seqPos[t][p] + 1 * Here(e, i, t, p)
    BY <1>10, <2>1, SeqPosAddNIs DEF SeqPosAdd
  <2>3. ASSUME NEW t \in Seqs, NEW p \in 0..MaxPos PROVE Others(d, i, t, p) = Others(c, i, t, p)
    <3>1. Here(d, i, t, p) = Here(e, i, t, p) /\ Here(e, i, t, p) \in Int
      BY <1>10, <2>2, CountersTyped DEF Here
    <3>2. d.seqPos[t][p] = Others(c, i, t, p) + 1 * Here(e, i, t, p) /\ Others(c, i, t, p) \in Int
      BY <1>1, <1>12, <2>2, CountersTyped
    <3> QED BY <3>1, <3>2 DEF Others
  <2>4. CellIs(d, i, c.pos[i] + n, c.shift[i] + n, c.seq[i]) /\ SameBut(c, d, i) /\ d.used = c.used
    BY <1>7, <1>8, <1>9, <1>11, <2>2 DEF CellIs, SameBut
  <2>5. Only(c, d, i)
    BY <2>2, <2>3, <2>4 DEF Only
  <2>6. d.pos[i] \in -1..MaxPos /\ ~IsEmpty(d, i) /\ i \in d.used /\ d.seq[i] # {}
    BY <1>1, <1>14, <2>4 DEF CellIs, IsEmpty, SoundCells, Exact, Settled
  <2>7. d \in SoundCells
    BY <2>5, <2>6, OnlySound
  <2>8. PosAdd(c, i, n) = d
    BY <1>2, <1>4, <1>8, <1>14, <2>1 DEF PosAdd
  <2> QED BY <1>14, <2>4, <2>7, <2>8
<1> QED BY <1>13, <1>14

\* What SeqRm has done to the cells of T.
RmDone(c, d, s, T) ==
  \A j \in Cells :
    IF j \notin T THEN CellIs(d, j, c.pos[j], c.shift[j], c.seq[j])
    ELSE IF c.seq[j] = {s} THEN CellIs(d, j, -1, 0, {})
    ELSE CellIs(d, j, c.pos[j], c.shift[j], c.seq[j] \ {s})

LEMMA RmDoneOne ==
  ASSUME NEW c \in SoundCells, NEW s \in Seqs, NEW T \in SUBSET Cells, NEW d \in SoundCells,
         RmDone(c, d, s, T), NEW i \in Cells \ T, s \in c.seq[i]
  PROVE  SeqRm(d, i, s) \in SoundCells /\ RmDone(c, SeqRm(d, i, s), s, T \cup {i})
<1>1. CellIs(d, i, c.pos[i], c.shift[i], c.seq[i])
  BY DEF RmDone
<1>2. PICK e : e = SeqRm(d, i, s)
  OBVIOUS
<1>3. e \in SoundCells /\ SameBut(d, e, i)
      /\ IF d.seq[i] = {s} THEN CellIs(e, i, -1, 0, {})
         ELSE CellIs(e, i, d.pos[i], d.shift[i], d.seq[i] \ {s})
  BY <1>1, <1>2, SeqRmIs DEF CellIs
<1>4. RmDone(c, e, s, T \cup {i})
  BY <1>1, <1>3 DEF RmDone, CellIs, SameBut
<1> QED BY <1>2, <1>3, <1>4

LEMMA CellsOfIs ==
  ASSUME NEW c \in CellsRec, NEW s, NEW p0, NEW p1
  PROVE  CellsOf(c, s, p0, p1) \in SUBSET Cells /\ IsFiniteSet(CellsOf(c, s, p0, p1))
         /\ \A i \in CellsOf(c, s, p0, p1) : s \in c.seq[i] /\ PosIn(c, i, p0, p1)
<1>1. CellsOf(c, s, p0, p1) \in SUBSET Cells
  BY DEF CellsOf
<1>2. IsFiniteSet(Cells)
  BY CellsFinite
<1> QED BY <1>1, <1>2, FS_Subset DEF CellsOf

\* seq_rm takes s0 out of its cells, and leaves the others as they are.
LEMMA AllSeqRmIs ==
  ASSUME NEW c \in SoundCells, NEW s0 \in Seqs, NEW p0, NEW p1
  PROVE  /\ AllSeqRm(c, s0, p0, p1) \in SoundCells
         /\ RmDone(c, AllSeqRm(c, s0, p0, p1), s0, CellsOf(c, s0, p0, p1))
<1> DEFINE S == CellsOf(c, s0, p0, p1)
           V == SoundCells
           ch == [s \in NonEmpty(S) |-> (CHOOSE x \in s : TRUE)]
           op(x, v) == SeqRm(v, x, s0)
           F == [p \in NonEmpty(S) \X V |-> op((CHOOSE x \in p[1] : TRUE), p[2])]
           H == {p \in (SUBSET S) \X V : RmDone(c, p[2], s0, p[1])}
           iter == CHOOSE h : h = [s \in SUBSET S |->
                     IF s = {} THEN c ELSE op((CHOOSE x \in s : TRUE), h[s \ {(CHOOSE x \in s : TRUE)}])]
<1>1. Chooses(ch, S) /\ c \in V
  <2>1. c \in CellsRec
    BY DEF SoundCells
  <2>2. IsFiniteSet(S)
    BY <2>1, CellsOfIs
  <2> HIDE DEF S
  <2> QED BY <2>2, AnyOfSet
<1>2. <<{}, c>> \in H
  BY <1>1 DEF RmDone, CellIs
<1>3. \A s \in NonEmpty(S), v \in V : F[<<s, v>>] = op((CHOOSE x \in s : TRUE), v)
  OBVIOUS
<1>4. ASSUME NEW s \in NonEmpty(S), NEW v \in V, <<s \ {ch[s]}, v>> \in H
      PROVE  <<s, op((CHOOSE x \in s : TRUE), v)>> \in H
  <2>1. s \in SUBSET S /\ ch[s] \in s /\ ch[s] = (CHOOSE x \in s : TRUE)
    BY <1>1 DEF Chooses, NonEmpty
  <2>2. ch[s] \in Cells \ (s \ {ch[s]}) /\ s0 \in c.seq[ch[s]] /\ s \ {ch[s]} \in SUBSET Cells
        /\ (s \ {ch[s]}) \cup {ch[s]} = s
    <3> HIDE DEF ch
    <3>1. c \in CellsRec
      BY DEF SoundCells
    <3> QED BY <2>1, <3>1, CellsOfIs
  <2>3. RmDone(c, v, s0, s \ {ch[s]})
    BY <1>4
  <2> HIDE DEF ch, S
  <2>4. SeqRm(v, ch[s], s0) \in SoundCells /\ RmDone(c, SeqRm(v, ch[s], s0), s0, (s \ {ch[s]}) \cup {ch[s]})
    BY <2>2, <2>3, RmDoneOne
  <2> QED BY <2>1, <2>2, <2>4
<1>5. Keeps(H, S, V, c, ch, F)
  <2>1. H \subseteq (SUBSET S) \X V
    OBVIOUS
  <2> HIDE DEF F, H, op, ch, S, V
  <2> QED BY <1>2, <1>3, <1>4, <2>1 DEF Keeps
<1>6. PICK g : IsFoldIn(g, H, S, c, ch, F)
  <2> HIDE DEF F, H, ch, S, V
  <2> QED BY <1>1, <1>5, FoldIn
<1>7. \A s \in NonEmpty(S) : ch[s] = (CHOOSE x \in s : TRUE)
  OBVIOUS
<1>8. \A s \in SUBSET S : g[s] = IF s = {} THEN c ELSE op((CHOOSE x \in s : TRUE), g[s \ {(CHOOSE x \in s : TRUE)}])
  <2> SUFFICES ASSUME NEW s \in SUBSET S, s # {} PROVE g[s] = op((CHOOSE x \in s : TRUE), g[s \ {(CHOOSE x \in s : TRUE)}])
    BY <1>6 DEF IsFoldIn
  <2>1. s \in NonEmpty(S) /\ s \ {ch[s]} \in SUBSET S
    BY DEF NonEmpty
  <2> HIDE DEF F, op, ch, S
  <2>2. <<s \ {ch[s]}, g[s \ {ch[s]}]>> \in H /\ g[s] = F[<<s, g[s \ {ch[s]}]>>]
    BY <1>6, <2>1 DEF IsFoldIn
  <2>3. g[s \ {ch[s]}] \in V
    BY <2>2
  <2> HIDE DEF H, V
  <2> QED BY <1>3, <1>7, <2>1, <2>2, <2>3
<1>9. g = [s \in SUBSET S |-> IF s = {} THEN c ELSE op((CHOOSE x \in s : TRUE), g[s \ {(CHOOSE x \in s : TRUE)}])]
  <2> DEFINE h == [s \in SUBSET S |-> IF s = {} THEN c ELSE op((CHOOSE x \in s : TRUE), g[s \ {(CHOOSE x \in s : TRUE)}])]
  <2>1. g = [s \in SUBSET S |-> g[s]]
    <3> HIDE DEF F, H, op, ch, S
    <3> QED BY <1>6 DEF IsFoldIn
  <2>2. h = [s \in SUBSET S |-> h[s]] /\ \A s \in SUBSET S : g[s] = h[s]
    <3> HIDE DEF F, H, op, ch, S, V
    <3> QED BY <1>8
  <2> HIDE DEF h
  <2>3. g = h
    BY <2>1, <2>2
  <2> QED BY <2>3 DEF h
<1>10. iter = [s \in SUBSET S |-> IF s = {} THEN c ELSE op((CHOOSE x \in s : TRUE), iter[s \ {(CHOOSE x \in s : TRUE)}])]
  BY <1>9
<1>11. AllSeqRm(c, s0, p0, p1) = iter[S]
  BY DEF AllSeqRm, FoldSet, MapThenFoldSet
<1> HIDE DEF iter
<1>12. iter[S] = g[S]
  <2>1. iter[{}] = g[{}]
    BY <1>6, <1>10 DEF IsFoldIn
  <2>2. ASSUME NEW s \in NonEmpty(S), iter[s \ {ch[s]}] = g[s \ {ch[s]}] PROVE iter[s] = g[s]
    <3>1. s \in SUBSET S /\ s # {}
      BY DEF NonEmpty
    <3> HIDE DEF F, H, op, ch, S, V
    <3>2. iter[s] = op((CHOOSE x \in s : TRUE), iter[s \ {(CHOOSE x \in s : TRUE)}])
      BY <1>10, <3>1
    <3>3. g[s] = op((CHOOSE x \in s : TRUE), g[s \ {(CHOOSE x \in s : TRUE)}])
      BY <1>8, <3>1
    <3>4. iter[s \ {(CHOOSE x \in s : TRUE)}] = g[s \ {(CHOOSE x \in s : TRUE)}]
      BY <1>7, <2>2
    <3> QED BY <3>2, <3>3, <3>4
  <2> HIDE DEF F, H, op, ch, S, V
  <2>3. Chooses(ch, S)
    BY <1>1
  <2>4. SameSteps(iter, g, S, ch)
    BY <2>1, <2>2 DEF SameSteps
  <2> QED BY <2>3, <2>4, SameFold
<1>13. <<S, g[S]>> \in H
  <2> HIDE DEF F, H, op, ch, S, V
  <2> QED BY <1>6 DEF IsFoldIn
<1> QED BY <1>11, <1>12, <1>13

\* What SeqKeep, SeqAdd and PosAdd have done to the cells of T.
KeepDone(c, d, s, T) ==
  \A j \in Cells :
    IF j \notin T THEN CellIs(d, j, c.pos[j], c.shift[j], c.seq[j])
    ELSE IF s \in c.seq[j] THEN CellIs(d, j, c.pos[j], c.shift[j], {s})
    ELSE CellIs(d, j, -1, 0, {})

CpDone(c, d, b, T) ==
  \A j \in Cells : CellIs(d, j, c.pos[j], c.shift[j], IF j \in T THEN c.seq[j] \cup {b} ELSE c.seq[j])

MoveDone(c, d, n, T) ==
  \A j \in Cells :
    IF j \notin T THEN CellIs(d, j, c.pos[j], c.shift[j], c.seq[j])
    ELSE IF c.pos[j] + n < 0 THEN CellIs(d, j, -1, 0, {})
    ELSE CellIs(d, j, c.pos[j] + n, c.shift[j] + n, c.seq[j])

LEMMA KeepDoneOne ==
  ASSUME NEW c \in SoundCells, NEW s \in Seqs, NEW T \in SUBSET Cells, NEW d \in SoundCells,
         KeepDone(c, d, s, T), NEW i \in Cells \ T
  PROVE  SeqKeep(d, i, s) \in SoundCells /\ KeepDone(c, SeqKeep(d, i, s), s, T \cup {i})
<1>1. CellIs(d, i, c.pos[i], c.shift[i], c.seq[i])
  BY DEF KeepDone
<1>2. PICK e : e = SeqKeep(d, i, s)
  OBVIOUS
<1>3. e \in SoundCells /\ SameBut(d, e, i)
      /\ IF s \in d.seq[i] THEN CellIs(e, i, d.pos[i], d.shift[i], {s}) ELSE CellIs(e, i, -1, 0, {})
  BY <1>2, SeqKeepIs
<1>4. KeepDone(c, e, s, T \cup {i})
  BY <1>1, <1>3 DEF KeepDone, CellIs, SameBut
<1> QED BY <1>2, <1>3, <1>4

LEMMA CpDoneOne ==
  ASSUME NEW c \in SoundCells, NEW b \in Seqs, NEW T \in SUBSET Cells, NEW d \in SoundCells,
         CpDone(c, d, b, T), NEW i \in Cells \ T, c.seq[i] # {} /\ b \notin c.seq[i]
  PROVE  SeqAdd(d, i, b) \in SoundCells /\ CpDone(c, SeqAdd(d, i, b), b, T \cup {i})
<1>1. CellIs(d, i, c.pos[i], c.shift[i], c.seq[i])
  BY DEF CpDone
<1>2. d.pos[i] \in 0..MaxPos /\ b \in Seqs \ d.seq[i] /\ d \in CellsRec /\ i \in d.used /\ ~IsEmpty(d, i)
  BY <1>1 DEF CellIs, SoundCells, Settled, Exact, IsEmpty
<1>3. PICK e : e = SeqAdd(d, i, b)
  OBVIOUS
<1>4. Only(d, e, i) /\ e.used = d.used /\ CellIs(e, i, d.pos[i], d.shift[i], d.seq[i] \cup {b})
  BY <1>2, <1>3, SeqAddIs
<1>5. e \in SoundCells
  <2>1. i \in e.used /\ ~IsEmpty(e, i) /\ e.pos[i] \in -1..MaxPos /\ e.seq[i] # {}
    BY <1>2, <1>4 DEF CellIs, IsEmpty
  <2> QED BY <1>4, <2>1, OnlySound
<1>6. CpDone(c, e, b, T \cup {i})
  BY <1>1, <1>4 DEF CpDone, CellIs, SameBut, Only
<1> QED BY <1>3, <1>5, <1>6

LEMMA MoveDoneOne ==
  ASSUME NEW c \in SoundCells, NEW n \in Int, n <= 0, NEW T \in SUBSET Cells, NEW d \in SoundCells,
         MoveDone(c, d, n, T), NEW i \in Cells \ T, c.seq[i] # {}
  PROVE  PosAdd(d, i, n) \in SoundCells /\ MoveDone(c, PosAdd(d, i, n), n, T \cup {i})
<1>1. CellIs(d, i, c.pos[i], c.shift[i], c.seq[i])
  BY DEF MoveDone
<1>2. ~IsEmpty(d, i)
  BY <1>1 DEF CellIs, SoundCells, Settled
<1>3. PICK e : e = PosAdd(d, i, n)
  OBVIOUS
<1>4. e \in SoundCells /\ SameBut(d, e, i)
      /\ IF d.pos[i] + n < 0 THEN CellIs(e, i, -1, 0, {})
         ELSE CellIs(e, i, d.pos[i] + n, d.shift[i] + n, d.seq[i])
  BY <1>2, <1>3, PosAddIs
<1>5. MoveDone(c, e, n, T \cup {i})
  BY <1>1, <1>4 DEF MoveDone, CellIs, SameBut
<1> QED BY <1>3, <1>4, <1>5

\* seq_keep leaves of every cell what s0 has of it.
LEMMA AllSeqKeepIs ==
  ASSUME NEW c \in SoundCells, NEW s0 \in Seqs
  PROVE  AllSeqKeep(c, s0) \in SoundCells /\ KeepDone(c, AllSeqKeep(c, s0), s0, Cells)
<1> DEFINE S == Cells
           V == SoundCells
           ch == [s \in NonEmpty(S) |-> (CHOOSE x \in s : TRUE)]
           op(x, v) == SeqKeep(v, x, s0)
           F == [p \in NonEmpty(S) \X V |-> op((CHOOSE x \in p[1] : TRUE), p[2])]
           H == {p \in (SUBSET S) \X V : KeepDone(c, p[2], s0, p[1])}
           iter == CHOOSE h : h = [s \in SUBSET S |->
                     IF s = {} THEN c ELSE op((CHOOSE x \in s : TRUE), h[s \ {(CHOOSE x \in s : TRUE)}])]
<1>1. Chooses(ch, S) /\ c \in V
  BY CellsFinite, AnyOfSet
<1>2. <<{}, c>> \in H
  BY <1>1 DEF KeepDone, CellIs
<1>3. \A s \in NonEmpty(S), v \in V : F[<<s, v>>] = op((CHOOSE x \in s : TRUE), v)
  OBVIOUS
<1>4. ASSUME NEW s \in NonEmpty(S), NEW v \in V, <<s \ {ch[s]}, v>> \in H
      PROVE  <<s, op((CHOOSE x \in s : TRUE), v)>> \in H
  <2>1. s \in SUBSET S /\ ch[s] \in s /\ ch[s] = (CHOOSE x \in s : TRUE)
    BY <1>1 DEF Chooses, NonEmpty
  <2>2. ch[s] \in Cells \ (s \ {ch[s]}) /\ s \ {ch[s]} \in SUBSET Cells
        /\ (s \ {ch[s]}) \cup {ch[s]} = s
    <3> HIDE DEF ch
    <3>1. c \in CellsRec
      BY DEF SoundCells
    <3> QED BY <2>1, <3>1, CellsOfIs
  <2>3. KeepDone(c, v, s0, s \ {ch[s]})
    BY <1>4
  <2> HIDE DEF ch, S
  <2>4. op(ch[s], v) \in SoundCells /\ KeepDone(c, op(ch[s], v), s0, (s \ {ch[s]}) \cup {ch[s]})
    BY <2>2, <2>3, KeepDoneOne
  <2> HIDE DEF op
  <2> QED BY <2>1, <2>2, <2>4
<1>5. Keeps(H, S, V, c, ch, F)
  <2>1. H \subseteq (SUBSET S) \X V
    OBVIOUS
  <2> HIDE DEF F, H, op, ch, S, V
  <2> QED BY <1>2, <1>3, <1>4, <2>1 DEF Keeps
<1>6. PICK g : IsFoldIn(g, H, S, c, ch, F)
  <2> HIDE DEF F, H, ch, S, V
  <2> QED BY <1>1, <1>5, FoldIn
<1>7. \A s \in NonEmpty(S) : ch[s] = (CHOOSE x \in s : TRUE)
  OBVIOUS
<1>8. \A s \in SUBSET S : g[s] = IF s = {} THEN c ELSE op((CHOOSE x \in s : TRUE), g[s \ {(CHOOSE x \in s : TRUE)}])
  <2> SUFFICES ASSUME NEW s \in SUBSET S, s # {} PROVE g[s] = op((CHOOSE x \in s : TRUE), g[s \ {(CHOOSE x \in s : TRUE)}])
    BY <1>6 DEF IsFoldIn
  <2>1. s \in NonEmpty(S) /\ s \ {ch[s]} \in SUBSET S
    BY DEF NonEmpty
  <2> HIDE DEF F, op, ch, S
  <2>2. <<s \ {ch[s]}, g[s \ {ch[s]}]>> \in H /\ g[s] = F[<<s, g[s \ {ch[s]}]>>]
    BY <1>6, <2>1 DEF IsFoldIn
  <2>3. g[s \ {ch[s]}] \in V
    BY <2>2
  <2> HIDE DEF H, V
  <2> QED BY <1>3, <1>7, <2>1, <2>2, <2>3
<1>9. g = [s \in SUBSET S |-> IF s = {} THEN c ELSE op((CHOOSE x \in s : TRUE), g[s \ {(CHOOSE x \in s : TRUE)}])]
  <2> DEFINE h == [s \in SUBSET S |-> IF s = {} THEN c ELSE op((CHOOSE x \in s : TRUE), g[s \ {(CHOOSE x \in s : TRUE)}])]
  <2>1. g = [s \in SUBSET S |-> g[s]]
    <3> HIDE DEF F, H, op, ch, S
    <3> QED BY <1>6 DEF IsFoldIn
  <2>2. h = [s \in SUBSET S |-> h[s]] /\ \A s \in SUBSET S : g[s] = h[s]
    <3> HIDE DEF F, H, op, ch, S, V
    <3> QED BY <1>8
  <2> HIDE DEF h
  <2>3. g = h
    BY <2>1, <2>2
  <2> QED BY <2>3 DEF h
<1>10. iter = [s \in SUBSET S |-> IF s = {} THEN c ELSE op((CHOOSE x \in s : TRUE), iter[s \ {(CHOOSE x \in s : TRUE)}])]
  BY <1>9
<1>11. AllSeqKeep(c, s0) = iter[S]
  BY DEF AllSeqKeep, FoldSet, MapThenFoldSet
<1> HIDE DEF iter
<1>12. iter[S] = g[S]
  <2>1. iter[{}] = g[{}]
    BY <1>6, <1>10 DEF IsFoldIn
  <2>2. ASSUME NEW s \in NonEmpty(S), iter[s \ {ch[s]}] = g[s \ {ch[s]}] PROVE iter[s] = g[s]
    <3>1. s \in SUBSET S /\ s # {}
      BY DEF NonEmpty
    <3> HIDE DEF F, H, op, ch, S, V
    <3>2. iter[s] = op((CHOOSE x \in s : TRUE), iter[s \ {(CHOOSE x \in s : TRUE)}])
      BY <1>10, <3>1
    <3>3. g[s] = op((CHOOSE x \in s : TRUE), g[s \ {(CHOOSE x \in s : TRUE)}])
      BY <1>8, <3>1
    <3>4. iter[s \ {(CHOOSE x \in s : TRUE)}] = g[s \ {(CHOOSE x \in s : TRUE)}]
      BY <1>7, <2>2
    <3> QED BY <3>2, <3>3, <3>4
  <2> HIDE DEF F, H, op, ch, S, V
  <2>3. Chooses(ch, S)
    BY <1>1
  <2>4. SameSteps(iter, g, S, ch)
    BY <2>1, <2>2 DEF SameSteps
  <2> QED BY <2>3, <2>4, SameFold
<1>13. <<S, g[S]>> \in H
  <2> HIDE DEF F, H, op, ch, S, V
  <2> QED BY <1>6 DEF IsFoldIn
<1> QED BY <1>11, <1>12, <1>13

\* seq_cp shares the cells of a with b, which has none.
LEMMA AllSeqCpIs ==
  ASSUME NEW c \in SoundCells, NEW a \in Seqs, NEW b \in Seqs, \A i \in Cells : b \notin c.seq[i]
  PROVE  /\ AllSeqCp(c, a, b) \in SoundCells
         /\ CpDone(c, AllSeqCp(c, a, b), b, CellsOf(c, a, 0, MaxPos + 1))
<1> DEFINE S == CellsOf(c, a, 0, MaxPos + 1)
           V == SoundCells
           ch == [s \in NonEmpty(S) |-> (CHOOSE x \in s : TRUE)]
           op(x, v) == SeqAdd(v, x, b)
           F == [p \in NonEmpty(S) \X V |-> op((CHOOSE x \in p[1] : TRUE), p[2])]
           H == {p \in (SUBSET S) \X V : CpDone(c, p[2], b, p[1])}
           iter == CHOOSE h : h = [s \in SUBSET S |->
                     IF s = {} THEN c ELSE op((CHOOSE x \in s : TRUE), h[s \ {(CHOOSE x \in s : TRUE)}])]
<1>1. Chooses(ch, S) /\ c \in V
  <2>1. c \in CellsRec
    BY DEF SoundCells
  <2>2. IsFiniteSet(S)
    BY <2>1, CellsOfIs
  <2> HIDE DEF S
  <2> QED BY <2>2, AnyOfSet
<1>2. <<{}, c>> \in H
  BY <1>1 DEF CpDone, CellIs
<1>3. \A s \in NonEmpty(S), v \in V : F[<<s, v>>] = op((CHOOSE x \in s : TRUE), v)
  OBVIOUS
<1>4. ASSUME NEW s \in NonEmpty(S), NEW v \in V, <<s \ {ch[s]}, v>> \in H
      PROVE  <<s, op((CHOOSE x \in s : TRUE), v)>> \in H
  <2>1. s \in SUBSET S /\ ch[s] \in s /\ ch[s] = (CHOOSE x \in s : TRUE)
    BY <1>1 DEF Chooses, NonEmpty
  <2>2. ch[s] \in Cells \ (s \ {ch[s]}) /\ c.seq[ch[s]] # {} /\ b \notin c.seq[ch[s]] /\ s \ {ch[s]} \in SUBSET Cells
        /\ (s \ {ch[s]}) \cup {ch[s]} = s
    <3> HIDE DEF ch
    <3>1. c \in CellsRec
      BY DEF SoundCells
    <3> QED BY <2>1, <3>1, CellsOfIs
  <2>3. CpDone(c, v, b, s \ {ch[s]})
    BY <1>4
  <2> HIDE DEF ch, S
  <2>4. op(ch[s], v) \in SoundCells /\ CpDone(c, op(ch[s], v), b, (s \ {ch[s]}) \cup {ch[s]})
    BY <2>2, <2>3, CpDoneOne
  <2> HIDE DEF op
  <2> QED BY <2>1, <2>2, <2>4
<1>5. Keeps(H, S, V, c, ch, F)
  <2>1. H \subseteq (SUBSET S) \X V
    OBVIOUS
  <2> HIDE DEF F, H, op, ch, S, V
  <2> QED BY <1>2, <1>3, <1>4, <2>1 DEF Keeps
<1>6. PICK g : IsFoldIn(g, H, S, c, ch, F)
  <2> HIDE DEF F, H, ch, S, V
  <2> QED BY <1>1, <1>5, FoldIn
<1>7. \A s \in NonEmpty(S) : ch[s] = (CHOOSE x \in s : TRUE)
  OBVIOUS
<1>8. \A s \in SUBSET S : g[s] = IF s = {} THEN c ELSE op((CHOOSE x \in s : TRUE), g[s \ {(CHOOSE x \in s : TRUE)}])
  <2> SUFFICES ASSUME NEW s \in SUBSET S, s # {} PROVE g[s] = op((CHOOSE x \in s : TRUE), g[s \ {(CHOOSE x \in s : TRUE)}])
    BY <1>6 DEF IsFoldIn
  <2>1. s \in NonEmpty(S) /\ s \ {ch[s]} \in SUBSET S
    BY DEF NonEmpty
  <2> HIDE DEF F, op, ch, S
  <2>2. <<s \ {ch[s]}, g[s \ {ch[s]}]>> \in H /\ g[s] = F[<<s, g[s \ {ch[s]}]>>]
    BY <1>6, <2>1 DEF IsFoldIn
  <2>3. g[s \ {ch[s]}] \in V
    BY <2>2
  <2> HIDE DEF H, V
  <2> QED BY <1>3, <1>7, <2>1, <2>2, <2>3
<1>9. g = [s \in SUBSET S |-> IF s = {} THEN c ELSE op((CHOOSE x \in s : TRUE), g[s \ {(CHOOSE x \in s : TRUE)}])]
  <2> DEFINE h == [s \in SUBSET S |-> IF s = {} THEN c ELSE op((CHOOSE x \in s : TRUE), g[s \ {(CHOOSE x \in s : TRUE)}])]
  <2>1. g = [s \in SUBSET S |-> g[s]]
    <3> HIDE DEF F, H, op, ch, S
    <3> QED BY <1>6 DEF IsFoldIn
  <2>2. h = [s \in SUBSET S |-> h[s]] /\ \A s \in SUBSET S : g[s] = h[s]
    <3> HIDE DEF F, H, op, ch, S, V
    <3> QED BY <1>8
  <2> HIDE DEF h
  <2>3. g = h
    BY <2>1, <2>2
  <2> QED BY <2>3 DEF h
<1>10. iter = [s \in SUBSET S |-> IF s = {} THEN c ELSE op((CHOOSE x \in s : TRUE), iter[s \ {(CHOOSE x \in s : TRUE)}])]
  BY <1>9
<1>11. AllSeqCp(c, a, b) = iter[S]
  BY DEF AllSeqCp, FoldSet, MapThenFoldSet
<1> HIDE DEF iter
<1>12. iter[S] = g[S]
  <2>1. iter[{}] = g[{}]
    BY <1>6, <1>10 DEF IsFoldIn
  <2>2. ASSUME NEW s \in NonEmpty(S), iter[s \ {ch[s]}] = g[s \ {ch[s]}] PROVE iter[s] = g[s]
    <3>1. s \in SUBSET S /\ s # {}
      BY DEF NonEmpty
    <3> HIDE DEF F, H, op, ch, S, V
    <3>2. iter[s] = op((CHOOSE x \in s : TRUE), iter[s \ {(CHOOSE x \in s : TRUE)}])
      BY <1>10, <3>1
    <3>3. g[s] = op((CHOOSE x \in s : TRUE), g[s \ {(CHOOSE x \in s : TRUE)}])
      BY <1>8, <3>1
    <3>4. iter[s \ {(CHOOSE x \in s : TRUE)}] = g[s \ {(CHOOSE x \in s : TRUE)}]
      BY <1>7, <2>2
    <3> QED BY <3>2, <3>3, <3>4
  <2> HIDE DEF F, H, op, ch, S, V
  <2>3. Chooses(ch, S)
    BY <1>1
  <2>4. SameSteps(iter, g, S, ch)
    BY <2>1, <2>2 DEF SameSteps
  <2> QED BY <2>3, <2>4, SameFold
<1>13. <<S, g[S]>> \in H
  <2> HIDE DEF F, H, op, ch, S, V
  <2> QED BY <1>6 DEF IsFoldIn
<1> QED BY <1>11, <1>12, <1>13

\* seq_add moves the cells of s0 back, and frees those that would be before the start.
LEMMA AllPosAddIs ==
  ASSUME NEW c \in SoundCells, NEW s0 \in Seqs, NEW p0, NEW p1, NEW n \in Int, n <= 0
  PROVE  /\ AllPosAdd(c, s0, p0, p1, n) \in SoundCells
         /\ MoveDone(c, AllPosAdd(c, s0, p0, p1, n), n, CellsOf(c, s0, p0, p1))
<1> DEFINE S == CellsOf(c, s0, p0, p1)
           V == SoundCells
           ch == [s \in NonEmpty(S) |-> (CHOOSE x \in s : TRUE)]
           op(x, v) == PosAdd(v, x, n)
           F == [p \in NonEmpty(S) \X V |-> op((CHOOSE x \in p[1] : TRUE), p[2])]
           H == {p \in (SUBSET S) \X V : MoveDone(c, p[2], n, p[1])}
           iter == CHOOSE h : h = [s \in SUBSET S |->
                     IF s = {} THEN c ELSE op((CHOOSE x \in s : TRUE), h[s \ {(CHOOSE x \in s : TRUE)}])]
<1>1. Chooses(ch, S) /\ c \in V
  <2>1. c \in CellsRec
    BY DEF SoundCells
  <2>2. IsFiniteSet(S)
    BY <2>1, CellsOfIs
  <2> HIDE DEF S
  <2> QED BY <2>2, AnyOfSet
<1>2. <<{}, c>> \in H
  BY <1>1 DEF MoveDone, CellIs
<1>3. \A s \in NonEmpty(S), v \in V : F[<<s, v>>] = op((CHOOSE x \in s : TRUE), v)
  OBVIOUS
<1>4. ASSUME NEW s \in NonEmpty(S), NEW v \in V, <<s \ {ch[s]}, v>> \in H
      PROVE  <<s, op((CHOOSE x \in s : TRUE), v)>> \in H
  <2>1. s \in SUBSET S /\ ch[s] \in s /\ ch[s] = (CHOOSE x \in s : TRUE)
    BY <1>1 DEF Chooses, NonEmpty
  <2>2. ch[s] \in Cells \ (s \ {ch[s]}) /\ c.seq[ch[s]] # {} /\ s \ {ch[s]} \in SUBSET Cells
        /\ (s \ {ch[s]}) \cup {ch[s]} = s
    <3> HIDE DEF ch
    <3>1. c \in CellsRec
      BY DEF SoundCells
    <3> QED BY <2>1, <3>1, CellsOfIs
  <2>3. MoveDone(c, v, n, s \ {ch[s]})
    BY <1>4
  <2> HIDE DEF ch, S
  <2>4. op(ch[s], v) \in SoundCells /\ MoveDone(c, op(ch[s], v), n, (s \ {ch[s]}) \cup {ch[s]})
    BY <2>2, <2>3, MoveDoneOne
  <2> HIDE DEF op
  <2> QED BY <2>1, <2>2, <2>4
<1>5. Keeps(H, S, V, c, ch, F)
  <2>1. H \subseteq (SUBSET S) \X V
    OBVIOUS
  <2> HIDE DEF F, H, op, ch, S, V
  <2> QED BY <1>2, <1>3, <1>4, <2>1 DEF Keeps
<1>6. PICK g : IsFoldIn(g, H, S, c, ch, F)
  <2> HIDE DEF F, H, ch, S, V
  <2> QED BY <1>1, <1>5, FoldIn
<1>7. \A s \in NonEmpty(S) : ch[s] = (CHOOSE x \in s : TRUE)
  OBVIOUS
<1>8. \A s \in SUBSET S : g[s] = IF s = {} THEN c ELSE op((CHOOSE x \in s : TRUE), g[s \ {(CHOOSE x \in s : TRUE)}])
  <2> SUFFICES ASSUME NEW s \in SUBSET S, s # {} PROVE g[s] = op((CHOOSE x \in s : TRUE), g[s \ {(CHOOSE x \in s : TRUE)}])
    BY <1>6 DEF IsFoldIn
  <2>1. s \in NonEmpty(S) /\ s \ {ch[s]} \in SUBSET S
    BY DEF NonEmpty
  <2> HIDE DEF F, op, ch, S
  <2>2. <<s \ {ch[s]}, g[s \ {ch[s]}]>> \in H /\ g[s] = F[<<s, g[s \ {ch[s]}]>>]
    BY <1>6, <2>1 DEF IsFoldIn
  <2>3. g[s \ {ch[s]}] \in V
    BY <2>2
  <2> HIDE DEF H, V
  <2> QED BY <1>3, <1>7, <2>1, <2>2, <2>3
<1>9. g = [s \in SUBSET S |-> IF s = {} THEN c ELSE op((CHOOSE x \in s : TRUE), g[s \ {(CHOOSE x \in s : TRUE)}])]
  <2> DEFINE h == [s \in SUBSET S |-> IF s = {} THEN c ELSE op((CHOOSE x \in s : TRUE), g[s \ {(CHOOSE x \in s : TRUE)}])]
  <2>1. g = [s \in SUBSET S |-> g[s]]
    <3> HIDE DEF F, H, op, ch, S
    <3> QED BY <1>6 DEF IsFoldIn
  <2>2. h = [s \in SUBSET S |-> h[s]] /\ \A s \in SUBSET S : g[s] = h[s]
    <3> HIDE DEF F, H, op, ch, S, V
    <3> QED BY <1>8
  <2> HIDE DEF h
  <2>3. g = h
    BY <2>1, <2>2
  <2> QED BY <2>3 DEF h
<1>10. iter = [s \in SUBSET S |-> IF s = {} THEN c ELSE op((CHOOSE x \in s : TRUE), iter[s \ {(CHOOSE x \in s : TRUE)}])]
  BY <1>9
<1>11. AllPosAdd(c, s0, p0, p1, n) = iter[S]
  BY DEF AllPosAdd, FoldSet, MapThenFoldSet
<1> HIDE DEF iter
<1>12. iter[S] = g[S]
  <2>1. iter[{}] = g[{}]
    BY <1>6, <1>10 DEF IsFoldIn
  <2>2. ASSUME NEW s \in NonEmpty(S), iter[s \ {ch[s]}] = g[s \ {ch[s]}] PROVE iter[s] = g[s]
    <3>1. s \in SUBSET S /\ s # {}
      BY DEF NonEmpty
    <3> HIDE DEF F, H, op, ch, S, V
    <3>2. iter[s] = op((CHOOSE x \in s : TRUE), iter[s \ {(CHOOSE x \in s : TRUE)}])
      BY <1>10, <3>1
    <3>3. g[s] = op((CHOOSE x \in s : TRUE), g[s \ {(CHOOSE x \in s : TRUE)}])
      BY <1>8, <3>1
    <3>4. iter[s \ {(CHOOSE x \in s : TRUE)}] = g[s \ {(CHOOSE x \in s : TRUE)}]
      BY <1>7, <2>2
    <3> QED BY <3>2, <3>3, <3>4
  <2> HIDE DEF F, H, op, ch, S, V
  <2>3. Chooses(ch, S)
    BY <1>1
  <2>4. SameSteps(iter, g, S, ch)
    BY <2>1, <2>2 DEF SameSteps
  <2> QED BY <2>3, <2>4, SameFold
<1>13. <<S, g[S]>> \in H
  <2> HIDE DEF F, H, op, ch, S, V
  <2> QED BY <1>6 DEF IsFoldIn
<1> QED BY <1>11, <1>12, <1>13

-----------------------------------------------------------------------------
(* The cells as a memory.                                                   *)

EntryOf(c, i) == [pos |-> c.pos[i], seqs |-> c.seq[i]]

LEMMA MemOfIs ==
  ASSUME NEW c, NEW e
  PROVE  e \in MemOf(c) <=> \E i \in Cells : ~IsEmpty(c, i) /\ e = EntryOf(c, i)
BY DEF MemOf, EntryOf

\* A cell is hit by an operation if its entry is.
LEMMA HitIs ==
  ASSUME NEW c \in SoundCells, NEW i \in Cells, ~IsEmpty(c, i), NEW s \in Seqs, NEW p0 \in Int, NEW p1 \in Int
  PROVE  /\ EntryOf(c, i) \in MemOf(c)
         /\ EntryOf(c, i) \in Entries(MemOf(c), s) <=> s \in c.seq[i]
         /\ EntryOf(c, i) \in Between(MemOf(c), s, p0, p1) <=> i \in CellsOf(c, s, p0, p1)
<1>1. EntryOf(c, i) \in MemOf(c)
  BY MemOfIs
<1>2. EntryOf(c, i) \in Entries(MemOf(c), s) <=> s \in c.seq[i]
  BY <1>1 DEF Entries, EntryOf
<1>3. c.pos[i] \in Int
  BY DEF SoundCells, CellsRec
<1>4. EntryOf(c, i) \in Between(MemOf(c), s, p0, p1)
        <=> EntryOf(c, i) \in Entries(MemOf(c), s) /\ p0 <= c.pos[i] /\ c.pos[i] < p1
  BY DEF Between, EntryOf
<1>5. i \in CellsOf(c, s, p0, p1) <=> c.pos[i] >= p0 /\ c.pos[i] < p1 /\ s \in c.seq[i]
  BY DEF CellsOf, PosIn
<1> QED BY <1>1, <1>2, <1>3, <1>4, <1>5

LEMMA EntriesOfMem ==
  ASSUME NEW c \in SoundCells, NEW s, NEW e \in Entries(MemOf(c), s)
  PROVE  \E i \in Cells : ~IsEmpty(c, i) /\ e = EntryOf(c, i) /\ s \in c.seq[i]
<1>1. e \in MemOf(c) /\ s \in e.seqs
  BY DEF Entries
<1>2. PICK i \in Cells : ~IsEmpty(c, i) /\ e = EntryOf(c, i)
  BY <1>1, MemOfIs
<1> QED BY <1>1, <1>2 DEF EntryOf

LEMMA RmAgrees ==
  ASSUME NEW c \in SoundCells, NEW s \in Seqs, NEW p0 \in Int, NEW p1 \in Int
  PROVE  MemOf(AllSeqRm(c, s, p0, p1)) = Rm(MemOf(c), s, p0, p1)
<1> DEFINE m == MemOf(c)
           T == CellsOf(c, s, p0, p1)
           hit == Between(m, s, p0, p1)
           Less(e) == [e EXCEPT !.seqs = @ \ {s}]
<1>1. PICK d : d = AllSeqRm(c, s, p0, p1)
  OBVIOUS
<1>2. d \in SoundCells /\ RmDone(c, d, s, T)
  BY <1>1, AllSeqRmIs
<1>3. Rm(m, s, p0, p1) = (m \ hit) \cup {Less(e) : e \in {f \in hit : f.seqs # {s}}}
  BY DEF Rm
<1>4. ASSUME NEW i \in Cells, ~IsEmpty(c, i) PROVE EntryOf(c, i) \in m /\ (EntryOf(c, i) \in hit <=> i \in T)
  BY <1>4, HitIs
<1>5. ASSUME NEW i \in T
      PROVE  ~IsEmpty(c, i) /\ i \in Cells /\ Less(EntryOf(c, i)) = [pos |-> c.pos[i], seqs |-> c.seq[i] \ {s}]
  BY DEF CellsOf, SoundCells, Settled, EntryOf
<1>6. ASSUME NEW e \in MemOf(d) PROVE e \in Rm(m, s, p0, p1)
  <2>1. PICK i \in Cells : ~IsEmpty(d, i) /\ e = EntryOf(d, i)
    BY MemOfIs
  <2>2. CASE i \notin T
    <3>1. CellIs(d, i, c.pos[i], c.shift[i], c.seq[i])
      BY <1>2, <2>2 DEF RmDone
    <3>2. ~IsEmpty(c, i) /\ e = EntryOf(c, i)
      BY <2>1, <3>1 DEF CellIs, IsEmpty, EntryOf
    <3>3. e \in m \ hit
      BY <1>4, <2>2, <3>2
    <3> QED BY <1>3, <3>3
  <2>3. CASE i \in T
    <3>1. c.seq[i] # {s} /\ CellIs(d, i, c.pos[i], c.shift[i], c.seq[i] \ {s})
      BY <1>2, <2>1, <2>3 DEF RmDone, CellIs, IsEmpty
    <3>2. e = Less(EntryOf(c, i)) /\ EntryOf(c, i) \in hit /\ EntryOf(c, i).seqs # {s}
      BY <1>4, <1>5, <2>1, <2>3, <3>1 DEF CellIs, EntryOf
    <3> HIDE DEF hit, m, T, Less
    <3> QED BY <1>3, <3>2
  <2> QED BY <2>2, <2>3
<1>7. ASSUME NEW e \in m \ hit PROVE e \in MemOf(d)
  <2>1. PICK i \in Cells : ~IsEmpty(c, i) /\ e = EntryOf(c, i)
    BY <1>7, MemOfIs
  <2>2. i \notin T
    BY <1>4, <1>7, <2>1
  <2>3. CellIs(d, i, c.pos[i], c.shift[i], c.seq[i])
    BY <1>2, <2>2 DEF RmDone
  <2>4. ~IsEmpty(d, i) /\ e = EntryOf(d, i)
    BY <2>1, <2>3 DEF CellIs, IsEmpty, EntryOf
  <2> QED BY <2>4, MemOfIs
<1>8. ASSUME NEW f \in hit, f.seqs # {s} PROVE Less(f) \in MemOf(d)
  <2>1. f \in Entries(m, s)
    BY DEF Between
  <2>2. PICK i \in Cells : ~IsEmpty(c, i) /\ f = EntryOf(c, i) /\ s \in c.seq[i]
    BY <2>1, EntriesOfMem
  <2>3. i \in T /\ c.seq[i] # {s}
    BY <1>4, <1>8, <2>2 DEF EntryOf
  <2>4. CellIs(d, i, c.pos[i], c.shift[i], c.seq[i] \ {s})
    BY <1>2, <2>3 DEF RmDone
  <2>5. ~IsEmpty(d, i) /\ Less(f) = EntryOf(d, i)
    BY <1>5, <2>2, <2>3, <2>4 DEF CellIs, IsEmpty, EntryOf
  <2> QED BY <2>5, MemOfIs
<1>9. MemOf(d) = Rm(m, s, p0, p1)
  <2> HIDE DEF m, hit, Less
  <2> QED BY <1>3, <1>6, <1>7, <1>8
<1> QED BY <1>1, <1>9

LEMMA KeepAgrees ==
  ASSUME NEW c \in SoundCells, NEW s \in Seqs
  PROVE  MemOf(AllSeqKeep(c, s)) = Keep(MemOf(c), s)
<1> DEFINE m == MemOf(c)
           Only1(e) == [e EXCEPT !.seqs = {s}]
<1>1. PICK d : d = AllSeqKeep(c, s)
  OBVIOUS
<1>2. d \in SoundCells /\ KeepDone(c, d, s, Cells)
  BY <1>1, AllSeqKeepIs
<1>3. Keep(m, s) = {Only1(e) : e \in Entries(m, s)}
  BY DEF Keep
<1>4. ASSUME NEW i \in Cells PROVE Only1(EntryOf(c, i)) = [pos |-> c.pos[i], seqs |-> {s}]
  BY DEF EntryOf
<1>5. ASSUME NEW e \in MemOf(d) PROVE e \in Keep(m, s)
  <2>1. PICK i \in Cells : ~IsEmpty(d, i) /\ e = EntryOf(d, i)
    BY MemOfIs
  <2>2. s \in c.seq[i] /\ CellIs(d, i, c.pos[i], c.shift[i], {s})
    BY <1>2, <2>1 DEF KeepDone, CellIs, IsEmpty
  <2>3. ~IsEmpty(c, i) /\ e = Only1(EntryOf(c, i))
    BY <1>4, <2>1, <2>2 DEF CellIs, EntryOf, IsEmpty
  <2>4. EntryOf(c, i) \in Entries(m, s)
    BY <2>2, <2>3, MemOfIs DEF Entries, EntryOf
  <2> HIDE DEF m, Only1
  <2> QED BY <1>3, <2>3, <2>4
<1>6. ASSUME NEW f \in Entries(m, s) PROVE Only1(f) \in MemOf(d)
  <2>1. PICK i \in Cells : ~IsEmpty(c, i) /\ f = EntryOf(c, i) /\ s \in c.seq[i]
    BY EntriesOfMem
  <2>2. CellIs(d, i, c.pos[i], c.shift[i], {s})
    BY <1>2, <2>1 DEF KeepDone
  <2>3. ~IsEmpty(d, i) /\ Only1(f) = EntryOf(d, i)
    BY <1>4, <2>1, <2>2 DEF CellIs, EntryOf, IsEmpty
  <2> QED BY <2>3, MemOfIs
<1>7. MemOf(d) = Keep(m, s)
  <2> HIDE DEF m, Only1
  <2> QED BY <1>3, <1>5, <1>6
<1> QED BY <1>1, <1>7

LEMMA CpAgrees ==
  ASSUME NEW c \in SoundCells, NEW a \in Seqs, NEW b \in Seqs, Entries(MemOf(c), b) = {}
  PROVE  MemOf(AllSeqCp(c, a, b)) = Cp(MemOf(c), a, b)
<1> DEFINE m == MemOf(c)
           T == CellsOf(c, a, 0, MaxPos + 1)
           More(e) == [e EXCEPT !.seqs = @ \cup {b}]
<1>1. PICK d : d = AllSeqCp(c, a, b)
  OBVIOUS
<1>2. \A i \in Cells : b \notin c.seq[i]
  <2> SUFFICES ASSUME NEW i \in Cells, b \in c.seq[i] PROVE FALSE
    OBVIOUS
  <2>1. ~IsEmpty(c, i)
    BY DEF SoundCells, Settled
  <2>2. EntryOf(c, i) \in Entries(m, b)
    BY <2>1, MemOfIs DEF Entries, EntryOf
  <2> QED BY <2>2
<1>3. d \in SoundCells /\ CpDone(c, d, b, T)
  BY <1>1, <1>2, AllSeqCpIs
<1>4. Cp(m, a, b) = (m \ Entries(m, a)) \cup {More(e) : e \in Entries(m, a)}
  BY DEF Cp
<1>5. ASSUME NEW i \in Cells PROVE More(EntryOf(c, i)) = [pos |-> c.pos[i], seqs |-> c.seq[i] \cup {b}]
  BY DEF EntryOf
<1>6. ASSUME NEW i \in Cells PROVE (IsEmpty(d, i) <=> IsEmpty(c, i)) /\ (i \in T <=> a \in c.seq[i])
  <2>1. d.pos[i] = c.pos[i]
    BY <1>3 DEF CpDone, CellIs
  <2>2. a \in c.seq[i] => c.pos[i] \in 0..MaxPos
    BY DEF SoundCells, Settled, IsEmpty
  <2>3. i \in T <=> a \in c.seq[i]
    BY <2>2, CacheAssumption DEF CellsOf, PosIn
  <2> QED BY <2>1, <2>3 DEF IsEmpty
<1>7. ASSUME NEW i \in Cells PROVE EntryOf(d, i) = IF a \in c.seq[i] THEN More(EntryOf(c, i)) ELSE EntryOf(c, i)
  <2>1. CellIs(d, i, c.pos[i], c.shift[i], IF a \in c.seq[i] THEN c.seq[i] \cup {b} ELSE c.seq[i])
    BY <1>3, <1>6 DEF CpDone
  <2> QED BY <1>5, <2>1 DEF CellIs, EntryOf
<1>8. ASSUME NEW i \in Cells, ~IsEmpty(c, i)
      PROVE  EntryOf(c, i) \in m /\ (EntryOf(c, i) \in Entries(m, a) <=> a \in c.seq[i])
  BY <1>8, MemOfIs DEF Entries, EntryOf
<1>9. ASSUME NEW e \in MemOf(d) PROVE e \in Cp(m, a, b)
  <2>1. PICK i \in Cells : ~IsEmpty(d, i) /\ e = EntryOf(d, i)
    BY MemOfIs
  <2>2. /\ EntryOf(c, i) \in m /\ (EntryOf(c, i) \in Entries(m, a) <=> a \in c.seq[i])
        /\ e = IF a \in c.seq[i] THEN More(EntryOf(c, i)) ELSE EntryOf(c, i)
    BY <1>6, <1>7, <1>8, <2>1
  <2> HIDE DEF m, More
  <2> QED BY <1>4, <2>2
<1>10. ASSUME NEW e \in m \ Entries(m, a) PROVE e \in MemOf(d)
  <2>1. PICK i \in Cells : ~IsEmpty(c, i) /\ e = EntryOf(c, i)
    BY <1>10, MemOfIs
  <2>2. ~IsEmpty(d, i) /\ e = EntryOf(d, i)
    BY <1>6, <1>7, <1>8, <1>10, <2>1
  <2> QED BY <2>2, MemOfIs
<1>11. ASSUME NEW f \in Entries(m, a) PROVE More(f) \in MemOf(d)
  <2>1. PICK i \in Cells : ~IsEmpty(c, i) /\ f = EntryOf(c, i) /\ a \in c.seq[i]
    BY EntriesOfMem
  <2>2. ~IsEmpty(d, i) /\ More(f) = EntryOf(d, i)
    BY <1>6, <1>7, <2>1
  <2> QED BY <2>2, MemOfIs
<1>12. MemOf(d) = Cp(m, a, b)
  <2> HIDE DEF m, More
  <2> QED BY <1>4, <1>9, <1>10, <1>11
<1> QED BY <1>1, <1>12

LEMMA ShiftAgrees ==
  ASSUME NEW c \in SoundCells, NEW s \in Seqs, NEW p0 \in Int, NEW p1 \in Int, NEW n \in Int, n <= 0
  PROVE  MemOf(AllPosAdd(c, s, p0, p1, n)) = Shift(MemOf(c), s, p0, p1, n)
<1> DEFINE m == MemOf(c)
           T == CellsOf(c, s, p0, p1)
           hit == Between(m, s, p0, p1)
           Moved(e) == [e EXCEPT !.pos = @ + n]
<1>1. PICK d : d = AllPosAdd(c, s, p0, p1, n)
  OBVIOUS
<1>2. d \in SoundCells /\ MoveDone(c, d, n, T)
  BY <1>1, AllPosAddIs
<1>3. Shift(m, s, p0, p1, n) = (m \ hit) \cup {e \in {Moved(f) : f \in hit} : e.pos >= 0}
  BY DEF Shift
<1>4. ASSUME NEW i \in Cells, ~IsEmpty(c, i) PROVE EntryOf(c, i) \in m /\ (EntryOf(c, i) \in hit <=> i \in T)
  BY <1>4, HitIs
<1>5. ASSUME NEW i \in T
      PROVE  /\ ~IsEmpty(c, i) /\ i \in Cells /\ c.pos[i] \in Int
             /\ Moved(EntryOf(c, i)) = [pos |-> c.pos[i] + n, seqs |-> c.seq[i]]
  BY DEF CellsOf, SoundCells, CellsRec, Settled, EntryOf
<1>6. ASSUME NEW e \in MemOf(d) PROVE e \in Shift(m, s, p0, p1, n)
  <2>1. PICK i \in Cells : ~IsEmpty(d, i) /\ e = EntryOf(d, i)
    BY MemOfIs
  <2>2. CASE i \notin T
    <3>1. CellIs(d, i, c.pos[i], c.shift[i], c.seq[i])
      BY <1>2, <2>2 DEF MoveDone
    <3>2. ~IsEmpty(c, i) /\ e = EntryOf(c, i)
      BY <2>1, <3>1 DEF CellIs, IsEmpty, EntryOf
    <3>3. e \in m \ hit
      BY <1>4, <2>2, <3>2
    <3> QED BY <1>3, <3>3
  <2>3. CASE i \in T
    <3>1. ~(c.pos[i] + n < 0) /\ CellIs(d, i, c.pos[i] + n, c.shift[i] + n, c.seq[i])
      BY <1>2, <2>1, <2>3 DEF MoveDone, CellIs, IsEmpty
    <3>2. e = Moved(EntryOf(c, i)) /\ EntryOf(c, i) \in hit
      BY <1>4, <1>5, <2>1, <2>3, <3>1 DEF CellIs, EntryOf
    <3>3. e.pos = c.pos[i] + n /\ c.pos[i] \in Int
      BY <1>5, <2>1, <2>3, <3>1 DEF CellIs, EntryOf
    <3>4. e.pos >= 0
      BY <3>1, <3>3
    <3> HIDE DEF hit, m, T, Moved
    <3> QED BY <1>3, <3>2, <3>4
  <2> QED BY <2>2, <2>3
<1>7. ASSUME NEW e \in m \ hit PROVE e \in MemOf(d)
  <2>1. PICK i \in Cells : ~IsEmpty(c, i) /\ e = EntryOf(c, i)
    BY <1>7, MemOfIs
  <2>2. i \notin T
    BY <1>4, <1>7, <2>1
  <2>3. CellIs(d, i, c.pos[i], c.shift[i], c.seq[i])
    BY <1>2, <2>2 DEF MoveDone
  <2>4. ~IsEmpty(d, i) /\ e = EntryOf(d, i)
    BY <2>1, <2>3 DEF CellIs, IsEmpty, EntryOf
  <2> QED BY <2>4, MemOfIs
<1>8. ASSUME NEW f \in hit, Moved(f).pos >= 0 PROVE Moved(f) \in MemOf(d)
  <2>1. f \in Entries(m, s)
    BY DEF Between
  <2>2. PICK i \in Cells : ~IsEmpty(c, i) /\ f = EntryOf(c, i) /\ s \in c.seq[i]
    BY <2>1, EntriesOfMem
  <2>3. i \in T /\ ~(c.pos[i] + n < 0)
    <3>1. i \in T
      BY <1>4, <2>2
    <3>2. Moved(f).pos = c.pos[i] + n /\ c.pos[i] \in Int
      BY <1>5, <2>2, <3>1
    <3> QED BY <1>8, <3>1, <3>2
  <2>4. CellIs(d, i, c.pos[i] + n, c.shift[i] + n, c.seq[i])
    BY <1>2, <2>3 DEF MoveDone
  <2>5. ~IsEmpty(d, i) /\ Moved(f) = EntryOf(d, i)
    BY <1>5, <2>2, <2>3, <2>4 DEF CellIs, IsEmpty, EntryOf
  <2> QED BY <2>5, MemOfIs
<1>9. MemOf(d) = Shift(m, s, p0, p1, n)
  <2> HIDE DEF m, hit, Moved
  <2> QED BY <1>3, <1>6, <1>7, <1>8
<1> QED BY <1>1, <1>9

-----------------------------------------------------------------------------
(* The cells of the KV cache: a ubatch is placed.                           *)

KvTokens == [pos : 0..MaxPos, seqs : (SUBSET Seqs) \ {{}}]

\* The cell that a token takes, before it has the sequences of the token.
Taken(c, i, p) == PosSet(IF IsEmpty(c, i) THEN c ELSE RmCell(c, i), i, p)

LEMMA TakenIs ==
  ASSUME NEW c \in SoundCells, NEW i \in Cells, NEW p \in 0..MaxPos
  PROVE  Only(c, Taken(c, i, p), i) /\ CellIs(Taken(c, i, p), i, p, 0, {}) /\ i \in Taken(c, i, p).used
<1>1. PICK b : b = IF IsEmpty(c, i) THEN c ELSE RmCell(c, i)
  OBVIOUS
<1>2. c \in CellsRec
  BY DEF SoundCells
<1>3. Only(c, b, i) /\ CellIs(b, i, -1, 0, {})
  <2>1. CASE IsEmpty(c, i)
    BY <1>1, <1>2, <2>1 DEF Only, SameBut, CellIs, SoundCells, Settled, IsEmpty
  <2>2. CASE ~IsEmpty(c, i)
    BY <1>1, <1>2, <2>2, RmCellIs
  <2> QED BY <2>1, <2>2
<1>4. b \in CellsRec
  BY <1>3 DEF Only
<1>5. PICK d : d = PosSet(b, i, p)
  OBVIOUS
<1>6. d.pos = [b.pos EXCEPT ![i] = p]
  BY <1>4, <1>5 DEF CellsRec, PosSet
<1>7. d.used = b.used \cup {i}
  BY <1>4, <1>5 DEF CellsRec, PosSet
<1>8. d.shift = b.shift /\ d.seq = b.seq /\ d.seqPos = b.seqPos
      /\ d = [pos |-> d.pos, shift |-> d.shift, seq |-> d.seq, used |-> d.used, seqPos |-> d.seqPos]
  BY <1>4, <1>5 DEF CellsRec, PosSet
<1>9. d.pos \in [Cells -> Int] /\ d.pos[i] = p /\ \A j \in Cells \ {i} : d.pos[j] = b.pos[j]
  BY <1>4, <1>6 DEF CellsRec
<1>10. d \in CellsRec
  BY <1>4, <1>7, <1>8, <1>9 DEF CellsRec
<1>11. ASSUME NEW s \in Seqs, NEW q \in 0..MaxPos PROVE Others(d, i, s, q) = Others(b, i, s, q)
  <2>1. Here(d, i, s, q) = 0 /\ Here(b, i, s, q) = 0
    BY <1>3, <1>8 DEF CellIs, Here
  <2> QED BY <1>8, <2>1 DEF Others
<1>12. Only(b, d, i) /\ CellIs(d, i, p, 0, {}) /\ i \in d.used
  BY <1>3, <1>7, <1>8, <1>9, <1>10, <1>11 DEF Only, SameBut, CellIs
<1>13. Taken(c, i, p) = d
  BY <1>1, <1>5 DEF Taken
<1> QED BY <1>3, <1>12, <1>13, OnlyTwice

\* A token is placed in its cell with its sequences, and in no other.
LEMMA PlaceTokenIs ==
  ASSUME NEW c \in SoundCells, NEW i \in Cells, NEW tok \in KvTokens
  PROVE  /\ PlaceToken(c, i, tok) \in SoundCells /\ SameBut(c, PlaceToken(c, i, tok), i)
         /\ CellIs(PlaceToken(c, i, tok), i, tok.pos, 0, tok.seqs)
<1> DEFINE d0 == Taken(c, i, tok.pos)
           S == tok.seqs
           V == CellsRec
           ch == [s \in NonEmpty(S) |-> (CHOOSE x \in s : TRUE)]
           op(x, v) == SeqAdd(v, i, x)
           F == [p \in NonEmpty(S) \X V |-> op((CHOOSE x \in p[1] : TRUE), p[2])]
           H == {p \in (SUBSET S) \X V : Only(d0, p[2], i) /\ CellIs(p[2], i, tok.pos, 0, p[1]) /\ p[2].used = d0.used}
           iter == CHOOSE h : h = [s \in SUBSET S |->
                     IF s = {} THEN d0 ELSE op((CHOOSE x \in s : TRUE), h[s \ {(CHOOSE x \in s : TRUE)}])]
<1>1. Chooses(ch, S) /\ d0 \in V
  <2>1. tok.pos \in 0..MaxPos /\ tok.seqs \in SUBSET Seqs
    BY DEF KvTokens
  <2>2. IsFiniteSet(tok.seqs)
    BY <2>1, MemoryAssumption, FS_Subset
  <2>3. d0 \in CellsRec
    BY <2>1, TakenIs DEF Only
  <2> HIDE DEF d0
  <2> QED BY <2>2, <2>3, AnyOfSet
<1>2. <<{}, d0>> \in H
  <2>1. tok.pos \in 0..MaxPos
    BY DEF KvTokens
  <2>2. CellIs(d0, i, tok.pos, 0, {}) /\ d0 \in CellsRec
    BY <2>1, TakenIs DEF Only
  <2>3. Only(d0, d0, i)
    BY <2>2 DEF Only, SameBut
  <2> HIDE DEF d0
  <2> QED BY <2>2, <2>3
<1>3. \A s \in NonEmpty(S), v \in V : F[<<s, v>>] = op((CHOOSE x \in s : TRUE), v)
  OBVIOUS
<1>4. ASSUME NEW s \in NonEmpty(S), NEW v \in V, <<s \ {ch[s]}, v>> \in H
      PROVE  <<s, op((CHOOSE x \in s : TRUE), v)>> \in H
  <2>1. s \in SUBSET S /\ ch[s] \in s /\ ch[s] = (CHOOSE x \in s : TRUE)
    BY <1>1 DEF Chooses, NonEmpty
  <2>2. Only(d0, v, i) /\ CellIs(v, i, tok.pos, 0, s \ {ch[s]}) /\ v.used = d0.used
    BY <1>4
  <2>3. ch[s] \in Seqs \ v.seq[i] /\ v.pos[i] \in 0..MaxPos /\ (s \ {ch[s]}) \cup {ch[s]} = s
    <3>1. S \in SUBSET Seqs /\ tok.pos \in 0..MaxPos
      BY DEF KvTokens
    <3> HIDE DEF ch, S, d0
    <3> QED BY <2>1, <2>2, <3>1 DEF CellIs
  <2> HIDE DEF ch, S, d0
  <2>4. PICK w : w = SeqAdd(v, i, ch[s])
    OBVIOUS
  <2>5. Only(v, w, i) /\ w.used = v.used /\ CellIs(w, i, v.pos[i], v.shift[i], v.seq[i] \cup {ch[s]})
    BY <2>3, <2>4, SeqAddIs
  <2>6. Only(d0, w, i) /\ CellIs(w, i, tok.pos, 0, s) /\ w.used = d0.used
    BY <2>2, <2>3, <2>5, OnlyTwice DEF CellIs
  <2>7. w \in CellsRec /\ s \in SUBSET S
    BY <2>1, <2>6 DEF Only
  <2>8. op(ch[s], v) = w
    BY <2>4
  <2> HIDE DEF op
  <2> QED BY <2>1, <2>6, <2>7, <2>8
<1>5. Keeps(H, S, V, d0, ch, F)
  <2>1. H \subseteq (SUBSET S) \X V
    OBVIOUS
  <2> HIDE DEF F, H, op, ch, S, V
  <2> QED BY <1>2, <1>3, <1>4, <2>1 DEF Keeps
<1>6. PICK g : IsFoldIn(g, H, S, d0, ch, F)
  <2> HIDE DEF F, H, ch, S, V
  <2> QED BY <1>1, <1>5, FoldIn
<1>7. \A s \in NonEmpty(S) : ch[s] = (CHOOSE x \in s : TRUE)
  OBVIOUS
<1>8. \A s \in SUBSET S : g[s] = IF s = {} THEN d0 ELSE op((CHOOSE x \in s : TRUE), g[s \ {(CHOOSE x \in s : TRUE)}])
  <2> SUFFICES ASSUME NEW s \in SUBSET S, s # {} PROVE g[s] = op((CHOOSE x \in s : TRUE), g[s \ {(CHOOSE x \in s : TRUE)}])
    BY <1>6 DEF IsFoldIn
  <2>1. s \in NonEmpty(S) /\ s \ {ch[s]} \in SUBSET S
    BY DEF NonEmpty
  <2> HIDE DEF F, op, ch, S
  <2>2. <<s \ {ch[s]}, g[s \ {ch[s]}]>> \in H /\ g[s] = F[<<s, g[s \ {ch[s]}]>>]
    BY <1>6, <2>1 DEF IsFoldIn
  <2>3. g[s \ {ch[s]}] \in V
    BY <2>2
  <2> HIDE DEF H, V
  <2> QED BY <1>3, <1>7, <2>1, <2>2, <2>3
<1>9. g = [s \in SUBSET S |-> IF s = {} THEN d0 ELSE op((CHOOSE x \in s : TRUE), g[s \ {(CHOOSE x \in s : TRUE)}])]
  <2> DEFINE h == [s \in SUBSET S |-> IF s = {} THEN d0 ELSE op((CHOOSE x \in s : TRUE), g[s \ {(CHOOSE x \in s : TRUE)}])]
  <2>1. g = [s \in SUBSET S |-> g[s]]
    <3> HIDE DEF F, H, op, ch, S
    <3> QED BY <1>6 DEF IsFoldIn
  <2>2. h = [s \in SUBSET S |-> h[s]] /\ \A s \in SUBSET S : g[s] = h[s]
    <3> HIDE DEF F, H, op, ch, S, V
    <3> QED BY <1>8
  <2> HIDE DEF h
  <2>3. g = h
    BY <2>1, <2>2
  <2> QED BY <2>3 DEF h
<1>10. iter = [s \in SUBSET S |-> IF s = {} THEN d0 ELSE op((CHOOSE x \in s : TRUE), iter[s \ {(CHOOSE x \in s : TRUE)}])]
  BY <1>9
<1>11. PlaceToken(c, i, tok) = iter[S]
  BY DEF PlaceToken, Taken, FoldSet, MapThenFoldSet
<1> HIDE DEF iter
<1>12. iter[S] = g[S]
  <2>1. iter[{}] = g[{}]
    BY <1>6, <1>10 DEF IsFoldIn
  <2>2. ASSUME NEW s \in NonEmpty(S), iter[s \ {ch[s]}] = g[s \ {ch[s]}] PROVE iter[s] = g[s]
    <3>1. s \in SUBSET S /\ s # {}
      BY DEF NonEmpty
    <3> HIDE DEF F, H, op, ch, S, V
    <3>2. iter[s] = op((CHOOSE x \in s : TRUE), iter[s \ {(CHOOSE x \in s : TRUE)}])
      BY <1>10, <3>1
    <3>3. g[s] = op((CHOOSE x \in s : TRUE), g[s \ {(CHOOSE x \in s : TRUE)}])
      BY <1>8, <3>1
    <3>4. iter[s \ {(CHOOSE x \in s : TRUE)}] = g[s \ {(CHOOSE x \in s : TRUE)}]
      BY <1>7, <2>2
    <3> QED BY <3>2, <3>3, <3>4
  <2> HIDE DEF F, H, op, ch, S, V
  <2>3. Chooses(ch, S)
    BY <1>1
  <2>4. SameSteps(iter, g, S, ch)
    BY <2>1, <2>2 DEF SameSteps
  <2> QED BY <2>3, <2>4, SameFold
<1>13. <<S, g[S]>> \in H
  <2> HIDE DEF F, H, op, ch, S, V
  <2> QED BY <1>6 DEF IsFoldIn
<1> QED 
  <2>1. PICK d : d = PlaceToken(c, i, tok)
    OBVIOUS
  <2>2. Only(d0, d, i) /\ CellIs(d, i, tok.pos, 0, tok.seqs) /\ d.used = d0.used
    <3> HIDE DEF d0
    <3> QED BY <1>11, <1>12, <1>13, <2>1
  <2>3. tok.pos \in 0..MaxPos /\ tok.seqs # {} /\ MaxPos \in Nat
    BY CacheAssumption DEF KvTokens
  <2>4. Only(c, d0, i) /\ i \in d0.used
    BY <2>3, TakenIs
  <2> HIDE DEF d0
  <2>5. Only(c, d, i) /\ i \in d.used
    BY <2>2, <2>4, OnlyTwice
  <2>6. ~IsEmpty(d, i) /\ d.pos[i] \in -1..MaxPos /\ d.seq[i] # {}
    BY <2>2, <2>3 DEF CellIs, IsEmpty
  <2>7. d \in SoundCells
    BY <2>5, <2>6, OnlySound
  <2> QED BY <2>1, <2>2, <2>5, <2>7 DEF Only

\* Some cells are taken, and no shift is pending for them; the others are as
\* they were, or empty.
PlacedIn(c, d, I) ==
  \A j \in Cells : IF j \in I THEN d.shift[j] = 0
                   ELSE d.pos[j] = -1 \/ (d.pos[j] = c.pos[j] /\ d.shift[j] = c.shift[j])

LEMMA PlaceAllIs ==
  ASSUME NEW c \in SoundCells, NEW ub \in Seq(KvTokens), NEW idxs \in Seq(Cells), Len(idxs) = Len(ub)
  PROVE  PlaceAll(c, idxs, ub) \in SoundCells /\ PlacedIn(c, PlaceAll(c, idxs, ub), Range(idxs))
<1> DEFINE id == [k \in 1..Len(ub) |-> k]
           S == DOMAIN id
           V == SoundCells
           ch == [s \in NonEmpty(S) |-> Max(s)]
           op(x, v) == PlaceToken(v, idxs[x], ub[x])
           F == [p \in NonEmpty(S) \X V |-> op(id[Max(p[1])], p[2])]
           H == {p \in (SUBSET S) \X V : PlacedIn(c, p[2], {idxs[m] : m \in p[1]})}
           iter == CHOOSE h : h = [s \in SUBSET S |->
                     IF s = {} THEN c ELSE op(id[Max(s)], h[s \ {Max(s)}])]
<1>1. Chooses(ch, S) /\ c \in V
  <2>1. Len(ub) \in Nat /\ DOMAIN id = 1..Len(ub)
    OBVIOUS
  <2> HIDE DEF id
  <2> QED BY <2>1, LastOf
<1>2. <<{}, c>> \in H
  <2>1. PlacedIn(c, c, {idxs[m] : m \in {}})
    BY DEF PlacedIn
  <2> QED BY <2>1
<1>3. \A s \in NonEmpty(S), v \in V : F[<<s, v>>] = op(id[Max(s)], v)
  OBVIOUS
<1>4. ASSUME NEW s \in NonEmpty(S), NEW v \in V, <<s \ {ch[s]}, v>> \in H
      PROVE  <<s, op(id[Max(s)], v)>> \in H
  <2>1. s \in SUBSET S /\ ch[s] \in s /\ ch[s] = Max(s)
    BY <1>1 DEF Chooses, NonEmpty
  <2>2. ch[s] \in 1..Len(ub) /\ id[Max(s)] = ch[s] /\ (s \ {ch[s]}) \cup {ch[s]} = s
    <3>1. DOMAIN id = 1..Len(ub) /\ \A k \in 1..Len(ub) : id[k] = k
      OBVIOUS
    <3> HIDE DEF ch, id
    <3> QED BY <2>1, <3>1
  <2>3. PlacedIn(c, v, {idxs[m] : m \in s \ {ch[s]}})
    BY <1>4
  <2> HIDE DEF ch, S, id
  <2>4. PICK i : i = idxs[ch[s]]
    OBVIOUS
  <2>5. i \in Cells /\ ub[ch[s]] \in KvTokens
    BY <2>2, <2>4
  <2>6. PICK w : w = PlaceToken(v, i, ub[ch[s]])
    OBVIOUS
  <2>7. w \in SoundCells /\ SameBut(v, w, i) /\ w.shift[i] = 0
    BY <2>5, <2>6, PlaceTokenIs DEF CellIs
  <2>8. {idxs[m] : m \in s} = {idxs[m] : m \in s \ {ch[s]}} \cup {i}
    BY <2>2, <2>4
  <2>9. PlacedIn(c, w, {idxs[m] : m \in s})
    <3> DEFINE J == {idxs[m] : m \in s \ {ch[s]}}
               K == {idxs[m] : m \in s}
    <3>1. K = J \cup {i} /\ PlacedIn(c, v, J)
      BY <2>3, <2>8
    <3> HIDE DEF J, K
    <3>2. PlacedIn(c, w, K)
      BY <2>7, <3>1 DEF PlacedIn, SameBut
    <3> QED BY <3>2 DEF K
  <2>10. op(id[Max(s)], v) = w
    BY <2>2, <2>4, <2>6
  <2> HIDE DEF op
  <2> QED BY <2>1, <2>7, <2>9, <2>10
<1>5. Keeps(H, S, V, c, ch, F)
  <2>1. H \subseteq (SUBSET S) \X V
    OBVIOUS
  <2> HIDE DEF F, H, op, ch, S, V, id
  <2>2. ASSUME NEW s \in NonEmpty(S), NEW v \in V, <<s \ {ch[s]}, v>> \in H PROVE <<s, F[<<s, v>>]>> \in H
    <3>1. <<s, op(id[Max(s)], v)>> \in H
      BY <1>4, <2>2
    <3>2. F[<<s, v>>] = op(id[Max(s)], v)
      BY <1>3
    <3> QED BY <3>1, <3>2
  <2> HIDE DEF iter
  <2> QED BY <1>2, <2>1, <2>2 DEF Keeps
<1>6. PICK g : IsFoldIn(g, H, S, c, ch, F)
  <2> HIDE DEF F, H, ch, S, V, id
  <2> QED BY <1>1, <1>5, FoldIn
<1>7. \A s \in NonEmpty(S) : ch[s] = Max(s)
  OBVIOUS
<1>8. \A s \in SUBSET S : g[s] = IF s = {} THEN c ELSE op(id[Max(s)], g[s \ {Max(s)}])
  <2> SUFFICES ASSUME NEW s \in SUBSET S, s # {} PROVE g[s] = op(id[Max(s)], g[s \ {Max(s)}])
    BY <1>6 DEF IsFoldIn
  <2>1. s \in NonEmpty(S) /\ s \ {ch[s]} \in SUBSET S
    BY DEF NonEmpty
  <2> HIDE DEF F, op, ch, S, id
  <2>2. <<s \ {ch[s]}, g[s \ {ch[s]}]>> \in H /\ g[s] = F[<<s, g[s \ {ch[s]}]>>]
    BY <1>6, <2>1 DEF IsFoldIn
  <2>3. g[s \ {ch[s]}] \in V
    BY <2>2
  <2> HIDE DEF H, V
  <2> QED BY <1>3, <1>7, <2>1, <2>2, <2>3
<1>9. g = [s \in SUBSET S |-> IF s = {} THEN c ELSE op(id[Max(s)], g[s \ {Max(s)}])]
  <2> DEFINE h == [s \in SUBSET S |-> IF s = {} THEN c ELSE op(id[Max(s)], g[s \ {Max(s)}])]
  <2>1. g = [s \in SUBSET S |-> g[s]]
    <3> HIDE DEF F, H, op, ch, S, id
    <3> QED BY <1>6 DEF IsFoldIn
  <2>2. h = [s \in SUBSET S |-> h[s]] /\ \A s \in SUBSET S : g[s] = h[s]
    <3> HIDE DEF F, H, op, ch, S, V, id
    <3> QED BY <1>8
  <2> HIDE DEF h
  <2>3. g = h
    BY <2>1, <2>2
  <2> QED BY <2>3 DEF h
<1>10. iter = [s \in SUBSET S |-> IF s = {} THEN c ELSE op(id[Max(s)], iter[s \ {Max(s)}])]
  BY <1>9
<1>11. PlaceAll(c, idxs, ub) = iter[S]
  BY DEF PlaceAll, FoldLeft, MapThenFoldSet
<1> HIDE DEF iter
<1>12. iter[S] = g[S]
  <2>1. iter[{}] = g[{}]
    BY <1>6, <1>10 DEF IsFoldIn
  <2>2. ASSUME NEW s \in NonEmpty(S), iter[s \ {ch[s]}] = g[s \ {ch[s]}] PROVE iter[s] = g[s]
    <3>1. s \in SUBSET S /\ s # {}
      BY DEF NonEmpty
    <3> HIDE DEF F, H, op, ch, S, V, id
    <3>2. iter[s] = op(id[Max(s)], iter[s \ {Max(s)}])
      BY <1>10, <3>1
    <3>3. g[s] = op(id[Max(s)], g[s \ {Max(s)}])
      BY <1>8, <3>1
    <3>4. iter[s \ {Max(s)}] = g[s \ {Max(s)}]
      BY <1>7, <2>2
    <3> QED BY <3>2, <3>3, <3>4
  <2> HIDE DEF F, H, op, ch, S, V, id
  <2>3. Chooses(ch, S)
    BY <1>1
  <2>4. SameSteps(iter, g, S, ch)
    BY <2>1, <2>2 DEF SameSteps
  <2> QED BY <2>3, <2>4, SameFold
<1>13. <<S, g[S]>> \in H
  <2> HIDE DEF F, H, op, ch, S, V, id
  <2> QED BY <1>6 DEF IsFoldIn
<1> QED 
  <2>1. S = 1..Len(idxs)
    OBVIOUS
  <2>2. {idxs[m] : m \in S} = Range(idxs)
    BY <2>1 DEF Range
  <2>3. PlacedIn(c, g[S], {idxs[m] : m \in S}) /\ g[S] \in SoundCells
    BY <1>13
  <2> HIDE DEF S
  <2> QED BY <1>11, <1>12, <2>2, <2>3

\* One sequence is purged after a ubatch.
Purged(c, idxs, s, d) ==
  IF Overwritten(c, idxs, s) # -1 THEN AllSeqRm(d, s, 0, Overwritten(c, idxs, s) + 1) ELSE d

LEMMA ApplyUbatchIs ==
  ASSUME NEW c \in SoundCells, NEW ub \in Seq(KvTokens), NEW idxs \in Seq(Cells), Len(idxs) = Len(ub)
  PROVE  ApplyUbatch(c, idxs, ub) \in SoundCells /\ PlacedIn(c, ApplyUbatch(c, idxs, ub), Range(idxs))
<1> DEFINE d0 == PlaceAll(c, idxs, ub)
           S == Seqs
           V == SoundCells
           ch == [s \in NonEmpty(S) |-> (CHOOSE x \in s : TRUE)]
           op(x, v) == Purged(c, idxs, x, v)
           F == [p \in NonEmpty(S) \X V |-> op((CHOOSE x \in p[1] : TRUE), p[2])]
           H == {p \in (SUBSET S) \X V : PlacedIn(c, p[2], Range(idxs))}
           iter == CHOOSE h : h = [s \in SUBSET S |->
                     IF s = {} THEN d0 ELSE op((CHOOSE x \in s : TRUE), h[s \ {(CHOOSE x \in s : TRUE)}])]
<1>1. Chooses(ch, S) /\ d0 \in V
  BY MemoryAssumption, PlaceAllIs, AnyOfSet
<1>2. <<{}, d0>> \in H
  BY PlaceAllIs
<1>3. \A s \in NonEmpty(S), v \in V : F[<<s, v>>] = op((CHOOSE x \in s : TRUE), v)
  OBVIOUS
<1>4. ASSUME NEW s \in NonEmpty(S), NEW v \in V, <<s \ {ch[s]}, v>> \in H
      PROVE  <<s, op((CHOOSE x \in s : TRUE), v)>> \in H
  <2>1. s \in SUBSET S /\ ch[s] \in s /\ ch[s] = (CHOOSE x \in s : TRUE)
    BY <1>1 DEF Chooses, NonEmpty
  <2>2. ch[s] \in Seqs
    BY <2>1
  <2>3. PlacedIn(c, v, Range(idxs))
    BY <1>4
  <2> HIDE DEF ch, S, d0
  <2>4. PICK w : w = AllSeqRm(v, ch[s], 0, Overwritten(c, idxs, ch[s]) + 1)
    OBVIOUS
  <2>5. w \in SoundCells /\ RmDone(v, w, ch[s], CellsOf(v, ch[s], 0, Overwritten(c, idxs, ch[s]) + 1))
    BY <2>2, <2>4, AllSeqRmIs
  <2>6. \A j \in Cells : (w.pos[j] = -1 /\ w.shift[j] = 0) \/ (w.pos[j] = v.pos[j] /\ w.shift[j] = v.shift[j])
    BY <2>5 DEF RmDone, CellIs
  <2>7. PlacedIn(c, w, Range(idxs))
    BY <2>3, <2>6 DEF PlacedIn
  <2>8. op(ch[s], v) \in {v, w}
    BY <2>4 DEF Purged
  <2>9. op(ch[s], v) \in SoundCells /\ PlacedIn(c, op(ch[s], v), Range(idxs))
    BY <2>3, <2>5, <2>7, <2>8
  <2> HIDE DEF op
  <2> QED BY <2>1, <2>9
<1>5. Keeps(H, S, V, d0, ch, F)
  <2>1. H \subseteq (SUBSET S) \X V
    OBVIOUS
  <2> HIDE DEF F, H, op, ch, S, V, d0
  <2>2. ASSUME NEW s \in NonEmpty(S), NEW v \in V, <<s \ {ch[s]}, v>> \in H PROVE <<s, F[<<s, v>>]>> \in H
    <3>1. <<s, op((CHOOSE x \in s : TRUE), v)>> \in H
      BY <1>4, <2>2
    <3>2. F[<<s, v>>] = op((CHOOSE x \in s : TRUE), v)
      BY <1>3
    <3> QED BY <3>1, <3>2
  <2> HIDE DEF iter
  <2> QED BY <1>2, <2>1, <2>2 DEF Keeps
<1>6. PICK g : IsFoldIn(g, H, S, d0, ch, F)
  <2> HIDE DEF F, H, ch, S, V, d0
  <2> QED BY <1>1, <1>5, FoldIn
<1>7. \A s \in NonEmpty(S) : ch[s] = (CHOOSE x \in s : TRUE)
  OBVIOUS
<1>8. \A s \in SUBSET S : g[s] = IF s = {} THEN d0 ELSE op((CHOOSE x \in s : TRUE), g[s \ {(CHOOSE x \in s : TRUE)}])
  <2> SUFFICES ASSUME NEW s \in SUBSET S, s # {} PROVE g[s] = op((CHOOSE x \in s : TRUE), g[s \ {(CHOOSE x \in s : TRUE)}])
    BY <1>6 DEF IsFoldIn
  <2>1. s \in NonEmpty(S) /\ s \ {ch[s]} \in SUBSET S
    BY DEF NonEmpty
  <2> HIDE DEF F, op, ch, S, d0
  <2>2. <<s \ {ch[s]}, g[s \ {ch[s]}]>> \in H /\ g[s] = F[<<s, g[s \ {ch[s]}]>>]
    BY <1>6, <2>1 DEF IsFoldIn
  <2>3. g[s \ {ch[s]}] \in V
    BY <2>2
  <2> HIDE DEF H, V
  <2> QED BY <1>3, <1>7, <2>1, <2>2, <2>3
<1>9. g = [s \in SUBSET S |-> IF s = {} THEN d0 ELSE op((CHOOSE x \in s : TRUE), g[s \ {(CHOOSE x \in s : TRUE)}])]
  <2> DEFINE h == [s \in SUBSET S |-> IF s = {} THEN d0 ELSE op((CHOOSE x \in s : TRUE), g[s \ {(CHOOSE x \in s : TRUE)}])]
  <2>1. g = [s \in SUBSET S |-> g[s]]
    <3> HIDE DEF F, H, op, ch, S, d0
    <3> QED BY <1>6 DEF IsFoldIn
  <2>2. h = [s \in SUBSET S |-> h[s]] /\ \A s \in SUBSET S : g[s] = h[s]
    <3> HIDE DEF F, H, op, ch, S, V, d0
    <3> QED BY <1>8
  <2> HIDE DEF h
  <2>3. g = h
    BY <2>1, <2>2
  <2> QED BY <2>3 DEF h
<1>10. iter = [s \in SUBSET S |-> IF s = {} THEN d0 ELSE op((CHOOSE x \in s : TRUE), iter[s \ {(CHOOSE x \in s : TRUE)}])]
  BY <1>9
<1>11. ApplyUbatch(c, idxs, ub) = iter[S]
  BY DEF ApplyUbatch, Purged, FoldSet, MapThenFoldSet
<1> HIDE DEF iter
<1>12. iter[S] = g[S]
  <2>1. iter[{}] = g[{}]
    BY <1>6, <1>10 DEF IsFoldIn
  <2>2. ASSUME NEW s \in NonEmpty(S), iter[s \ {ch[s]}] = g[s \ {ch[s]}] PROVE iter[s] = g[s]
    <3>1. s \in SUBSET S /\ s # {}
      BY DEF NonEmpty
    <3> HIDE DEF F, H, op, ch, S, V, d0
    <3>2. iter[s] = op((CHOOSE x \in s : TRUE), iter[s \ {(CHOOSE x \in s : TRUE)}])
      BY <1>10, <3>1
    <3>3. g[s] = op((CHOOSE x \in s : TRUE), g[s \ {(CHOOSE x \in s : TRUE)}])
      BY <1>8, <3>1
    <3>4. iter[s \ {(CHOOSE x \in s : TRUE)}] = g[s \ {(CHOOSE x \in s : TRUE)}]
      BY <1>7, <2>2
    <3> QED BY <3>2, <3>3, <3>4
  <2> HIDE DEF F, H, op, ch, S, V, d0
  <2>3. Chooses(ch, S)
    BY <1>1
  <2>4. SameSteps(iter, g, S, ch)
    BY <2>1, <2>2 DEF SameSteps
  <2> QED BY <2>3, <2>4, SameFold
<1>13. <<S, g[S]>> \in H
  <2> HIDE DEF F, H, op, ch, S, V, d0
  <2> QED BY <1>6 DEF IsFoldIn
<1> QED BY <1>11, <1>12, <1>13
Used(c, f, i) == IF CanUse(c, i) THEN Append(f, i) ELSE f

LEMMA UsableIs ==
  ASSUME NEW c, NEW tour \in [1..NCells -> Cells]
  PROVE  Usable(c, tour) \in Seq(Cells)
<1> DEFINE S == DOMAIN tour
           V == Seq(Cells)
           ch == [s \in NonEmpty(S) |-> Max(s)]
           op(x, v) == Used(c, v, x)
           F == [p \in NonEmpty(S) \X V |-> op(tour[Max(p[1])], p[2])]
           H == {p \in (SUBSET S) \X V : TRUE}
           iter == CHOOSE h : h = [s \in SUBSET S |->
                     IF s = {} THEN <<>> ELSE op(tour[Max(s)], h[s \ {Max(s)}])]
<1>1. Chooses(ch, S) /\ <<>> \in V
  <2>1. NCells \in Nat /\ DOMAIN tour = 1..NCells
    BY CacheAssumption
  <2> QED BY <2>1, LastOf
<1>2. <<{}, <<>>>> \in H
  <2> HIDE DEF op, V, S
  <2> QED BY <1>1
<1>3. \A s \in NonEmpty(S), v \in V : F[<<s, v>>] = op(tour[Max(s)], v)
  OBVIOUS
<1>4. ASSUME NEW s \in NonEmpty(S), NEW v \in V, <<s \ {ch[s]}, v>> \in H
      PROVE  <<s, op(tour[Max(s)], v)>> \in H
  <2>1. s \in SUBSET S /\ ch[s] \in s /\ ch[s] = Max(s)
    BY <1>1 DEF Chooses, NonEmpty
  <2>2. tour[Max(s)] \in Cells
    BY <2>1
  <2>3. op(tour[Max(s)], v) \in V
    BY <2>2 DEF Used
  <2> HIDE DEF op, V, S, ch
  <2> QED BY <2>1, <2>3
<1>5. Keeps(H, S, V, <<>>, ch, F)
  <2>1. H \subseteq (SUBSET S) \X V
    OBVIOUS
  <2> HIDE DEF F, H, op, ch, S, V
  <2>2. ASSUME NEW s \in NonEmpty(S), NEW v \in V, <<s \ {ch[s]}, v>> \in H PROVE <<s, F[<<s, v>>]>> \in H
    <3>1. <<s, op(tour[Max(s)], v)>> \in H
      BY <1>4, <2>2
    <3>2. F[<<s, v>>] = op(tour[Max(s)], v)
      BY <1>3
    <3> QED BY <3>1, <3>2
  <2> HIDE DEF iter
  <2> QED BY <1>2, <2>1, <2>2 DEF Keeps
<1>6. PICK g : IsFoldIn(g, H, S, <<>>, ch, F)
  <2> HIDE DEF F, H, ch, S, V
  <2> QED BY <1>1, <1>5, FoldIn
<1>7. \A s \in NonEmpty(S) : ch[s] = Max(s)
  OBVIOUS
<1>8. \A s \in SUBSET S : g[s] = IF s = {} THEN <<>> ELSE op(tour[Max(s)], g[s \ {Max(s)}])
  <2> SUFFICES ASSUME NEW s \in SUBSET S, s # {} PROVE g[s] = op(tour[Max(s)], g[s \ {Max(s)}])
    BY <1>6 DEF IsFoldIn
  <2>1. s \in NonEmpty(S) /\ s \ {ch[s]} \in SUBSET S
    BY DEF NonEmpty
  <2> HIDE DEF F, op, ch, S
  <2>2. <<s \ {ch[s]}, g[s \ {ch[s]}]>> \in H /\ g[s] = F[<<s, g[s \ {ch[s]}]>>]
    BY <1>6, <2>1 DEF IsFoldIn
  <2>3. g[s \ {ch[s]}] \in V
    BY <2>2
  <2> HIDE DEF H, V
  <2> QED BY <1>3, <1>7, <2>1, <2>2, <2>3
<1>9. g = [s \in SUBSET S |-> IF s = {} THEN <<>> ELSE op(tour[Max(s)], g[s \ {Max(s)}])]
  <2> DEFINE h == [s \in SUBSET S |-> IF s = {} THEN <<>> ELSE op(tour[Max(s)], g[s \ {Max(s)}])]
  <2>1. g = [s \in SUBSET S |-> g[s]]
    <3> HIDE DEF F, H, op, ch, S
    <3> QED BY <1>6 DEF IsFoldIn
  <2>2. h = [s \in SUBSET S |-> h[s]] /\ \A s \in SUBSET S : g[s] = h[s]
    <3> HIDE DEF F, H, op, ch, S, V
    <3> QED BY <1>8
  <2> HIDE DEF h
  <2>3. g = h
    BY <2>1, <2>2
  <2> QED BY <2>3 DEF h
<1>10. iter = [s \in SUBSET S |-> IF s = {} THEN <<>> ELSE op(tour[Max(s)], iter[s \ {Max(s)}])]
  BY <1>9
<1>11. Usable(c, tour) = iter[S]
  BY DEF Usable, Used, FoldLeft, MapThenFoldSet
<1> HIDE DEF iter
<1>12. iter[S] = g[S]
  <2>1. iter[{}] = g[{}]
    BY <1>6, <1>10 DEF IsFoldIn
  <2>2. ASSUME NEW s \in NonEmpty(S), iter[s \ {ch[s]}] = g[s \ {ch[s]}] PROVE iter[s] = g[s]
    <3>1. s \in SUBSET S /\ s # {}
      BY DEF NonEmpty
    <3> HIDE DEF F, H, op, ch, S, V
    <3>2. iter[s] = op(tour[Max(s)], iter[s \ {Max(s)}])
      BY <1>10, <3>1
    <3>3. g[s] = op(tour[Max(s)], g[s \ {Max(s)}])
      BY <1>8, <3>1
    <3>4. iter[s \ {Max(s)}] = g[s \ {Max(s)}]
      BY <1>7, <2>2
    <3> QED BY <3>2, <3>3, <3>4
  <2> HIDE DEF F, H, op, ch, S, V
  <2>3. Chooses(ch, S)
    BY <1>1
  <2>4. SameSteps(iter, g, S, ch)
    BY <2>1, <2>2 DEF SameSteps
  <2> QED BY <2>3, <2>4, SameFold
<1>13. <<S, g[S]>> \in H
  <2> HIDE DEF F, H, op, ch, S, V
  <2> QED BY <1>6 DEF IsFoldIn
<1> QED BY <1>11, <1>12, <1>13

\* A place for n tokens is n cells, or there is none.
LEMMA FindSlotIs ==
  ASSUME NEW c, NEW h \in 0..NCells, NEW n \in Nat \ {0}
  PROVE  FindSlot(c, h, n) = <<>> \/ (FindSlot(c, h, n) \in Seq(Cells) /\ Len(FindSlot(c, h, n)) = n)
<1>1. PICK start : start = IF h > Cardinality(c.used) + 2 * n THEN 0 ELSE h
  OBVIOUS
<1>2. start \in 0..NCells
  BY <1>1, CacheAssumption
<1>3. PICK tour : tour = [k \in 1..NCells |-> (start + k - 1) % NCells]
  OBVIOUS
<1>4. tour \in [1..NCells -> Cells]
  <2>1. ASSUME NEW k \in 1..NCells PROVE (start + k - 1) % NCells \in Cells
    <3>1. start + k - 1 \in Int /\ NCells \in Int /\ NCells > 0
      BY <1>2, CacheAssumption
    <3>2. (start + k - 1) % NCells \in 0..NCells - 1
      BY <3>1
    <3> QED BY <3>2 DEF Cells
  <2> QED BY <1>3, <2>1
<1>5. PICK free : free = Usable(c, tour)
  OBVIOUS
<1>6. free \in Seq(Cells)
  BY <1>4, <1>5, UsableIs
<1>7. FindSlot(c, h, n) = IF Len(free) < n THEN <<>> ELSE SubSeq(free, 1, n)
  BY <1>1, <1>3, <1>5 DEF FindSlot
<1>8. ~(Len(free) < n) => SubSeq(free, 1, n) \in Seq(Cells) /\ Len(SubSeq(free, 1, n)) = n
  BY <1>6
<1> QED BY <1>7, <1>8

-----------------------------------------------------------------------------
(* The cells of the KV cache: a batch is tried and taken back.              *)

\* No shift is pending.
Fresh == {c \in SoundCells : \A j \in Cells : c.shift[j] = 0}

LEMMA ApplyFresh ==
  ASSUME NEW c \in Fresh, NEW ub \in Seq(KvTokens), NEW idxs \in Seq(Cells), Len(idxs) = Len(ub)
  PROVE  ApplyUbatch(c, idxs, ub) \in Fresh
<1>1. PICK d : d = ApplyUbatch(c, idxs, ub)
  OBVIOUS
<1>2. d \in SoundCells /\ PlacedIn(c, d, Range(idxs))
  BY <1>1, ApplyUbatchIs DEF Fresh
<1>3. ASSUME NEW j \in Cells PROVE d.shift[j] = 0
  BY <1>2 DEF PlacedIn, Fresh, SoundCells, Settled, IsEmpty
<1> QED BY <1>1, <1>2, <1>3 DEF Fresh

LEMMA RestoreCellIs ==
  ASSUME NEW d \in Fresh, NEW old \in Fresh, NEW i \in Cells
  PROVE  RestoreCell(d, old, i) \in Fresh
<1>1. d \in CellsRec /\ d \in SoundCells /\ old \in CellsRec /\ old \in SoundCells
  BY DEF Fresh, SoundCells
<1>2. PICK e : e = IF IsEmpty(d, i) THEN d ELSE SeqPosRm(d, i)
  OBVIOUS
<1>3. /\ e \in CellsRec /\ e.pos = d.pos /\ e.shift = d.shift /\ e.seq = d.seq /\ e.used = d.used
      /\ \A s \in Seqs, p \in 0..MaxPos : e.seqPos[s][p] = Others(d, i, s, p)
  <2>1. CASE IsEmpty(d, i)
    <3>1. \A s \in Seqs, p \in 0..MaxPos : Here(d, i, s, p) = 0
      BY <1>1, <2>1 DEF SoundCells, Settled, Here
    <3>2. \A s \in Seqs, p \in 0..MaxPos : d.seqPos[s][p] = Others(d, i, s, p)
      BY <1>1, <3>1, CountersTyped DEF Others
    <3> QED BY <1>1, <1>2, <2>1, <3>2
  <2>2. CASE ~IsEmpty(d, i)
    <3>1. -1 \in Int /\ e = SeqPosAddN(d, i, -1)
      BY <1>2, <2>2 DEF SeqPosRm
    <3>2. /\ e \in CellsRec /\ e.pos = d.pos /\ e.shift = d.shift /\ e.seq = d.seq /\ e.used = d.used
          /\ \A s \in Seqs, p \in 0..MaxPos : e.seqPos[s][p] = d.seqPos[s][p] + (-1) * Here(d, i, s, p)
      BY <1>1, <3>1, SeqPosAddNIs
    <3>3. \A s \in Seqs, p \in 0..MaxPos : e.seqPos[s][p] = Others(d, i, s, p)
      BY <1>1, <3>2, CountersTyped DEF Others
    <3> QED BY <3>2, <3>3
  <2> QED BY <2>1, <2>2
<1>4. PICK f : f = [e EXCEPT !.pos[i] = old.pos[i], !.seq[i] = old.seq[i],
                             !.used = IF IsEmpty(old, i) THEN @ \ {i} ELSE @ \cup {i}]
  OBVIOUS
<1>5. f.pos = [d.pos EXCEPT ![i] = old.pos[i]]
  BY <1>1, <1>3, <1>4 DEF CellsRec
<1>6. f.seq = [d.seq EXCEPT ![i] = old.seq[i]]
  BY <1>1, <1>3, <1>4 DEF CellsRec
<1>7. f.used = IF IsEmpty(old, i) THEN d.used \ {i} ELSE d.used \cup {i}
  BY <1>1, <1>3, <1>4 DEF CellsRec
<1>8. f.shift = d.shift /\ f.seqPos = e.seqPos
      /\ f = [pos |-> f.pos, shift |-> f.shift, seq |-> f.seq, used |-> f.used, seqPos |-> f.seqPos]
  BY <1>1, <1>3, <1>4 DEF CellsRec
<1>9. f.pos \in [Cells -> Int] /\ f.pos[i] = old.pos[i] /\ \A j \in Cells \ {i} : f.pos[j] = d.pos[j]
  BY <1>1, <1>5 DEF CellsRec
<1>10. f.seq \in [Cells -> SUBSET Seqs] /\ f.seq[i] = old.seq[i] /\ \A j \in Cells \ {i} : f.seq[j] = d.seq[j]
  BY <1>1, <1>6 DEF CellsRec
<1>11. f.used \in SUBSET Cells
  BY <1>1, <1>7 DEF CellsRec
<1>12. f \in CellsRec
  BY <1>1, <1>3, <1>8, <1>9, <1>10, <1>11 DEF CellsRec
<1>13. PICK r : r = IF IsEmpty(old, i) THEN f ELSE SeqPosAdd(f, i)
  OBVIOUS
<1>14. /\ r \in CellsRec /\ r.pos = f.pos /\ r.shift = f.shift /\ r.seq = f.seq /\ r.used = f.used
       /\ \A s \in Seqs, p \in 0..MaxPos : r.seqPos[s][p] = f.seqPos[s][p] + Here(f, i, s, p)
  <2>1. CASE IsEmpty(old, i)
    <3>1. \A s \in Seqs, p \in 0..MaxPos : Here(f, i, s, p) = 0
      BY <1>1, <1>10, <2>1 DEF SoundCells, Settled, Here
    <3>2. \A s \in Seqs, p \in 0..MaxPos : f.seqPos[s][p] = f.seqPos[s][p] + Here(f, i, s, p)
      BY <1>12, <3>1, CountersTyped
    <3> QED BY <1>12, <1>13, <2>1, <3>2
  <2>2. CASE ~IsEmpty(old, i)
    <3>1. 1 \in Int /\ r = SeqPosAddN(f, i, 1)
      BY <1>13, <2>2 DEF SeqPosAdd
    <3>2. /\ r \in CellsRec /\ r.pos = f.pos /\ r.shift = f.shift /\ r.seq = f.seq /\ r.used = f.used
          /\ \A s \in Seqs, p \in 0..MaxPos : r.seqPos[s][p] = f.seqPos[s][p] + 1 * Here(f, i, s, p)
      BY <1>12, <3>1, SeqPosAddNIs
    <3>3. \A s \in Seqs, p \in 0..MaxPos : 1 * Here(f, i, s, p) = Here(f, i, s, p)
      BY <1>12, CountersTyped
    <3> QED BY <3>2, <3>3
  <2> QED BY <2>1, <2>2
<1>15. ASSUME NEW s \in Seqs, NEW p \in 0..MaxPos PROVE Others(r, i, s, p) = Others(d, i, s, p)
  <2>1. Here(r, i, s, p) = Here(f, i, s, p)
    BY <1>14 DEF Here
  <2>2. r.seqPos[s][p] = f.seqPos[s][p] + Here(f, i, s, p) /\ f.seqPos[s][p] = Others(d, i, s, p)
    BY <1>3, <1>8, <1>14
  <2>3. Here(f, i, s, p) \in Int /\ f.seqPos[s][p] \in Int
    BY <1>12, CountersTyped
  <2> QED BY <2>1, <2>2, <2>3 DEF Others
<1>16. Only(d, r, i)
  BY <1>7, <1>8, <1>9, <1>10, <1>14, <1>15 DEF Only, SameBut
<1>17. i \in r.used <=> ~IsEmpty(r, i)
  BY <1>7, <1>9, <1>14 DEF IsEmpty
<1>18. r.pos[i] \in -1..MaxPos /\ (IsEmpty(r, i) <=> r.seq[i] = {}) /\ r.shift = d.shift
  BY <1>1, <1>8, <1>9, <1>10, <1>14 DEF SoundCells, Settled, IsEmpty
<1>19. \A j \in Cells : d.shift[j] = 0
  BY DEF Fresh
<1>20. r \in SoundCells
  BY <1>1, <1>16, <1>17, <1>18, <1>19, OnlySound
<1>21. r \in Fresh
  BY <1>18, <1>19, <1>20 DEF Fresh
<1>22. RestoreCell(d, old, i) = r
  BY <1>2, <1>4, <1>13 DEF RestoreCell
<1> QED BY <1>21, <1>22

LEMMA RestoreIs ==
  ASSUME NEW c \in Fresh, NEW old \in Fresh, NEW idxs \in Seq(Cells)
  PROVE  Restore(c, old, idxs) \in Fresh
<1> DEFINE S == DOMAIN idxs
           V == Fresh
           ch == [s \in NonEmpty(S) |-> Max(s)]
           op(x, v) == RestoreCell(v, old, x)
           F == [p \in NonEmpty(S) \X V |-> op(idxs[Max(p[1])], p[2])]
           H == {p \in (SUBSET S) \X V : TRUE}
           iter == CHOOSE h : h = [s \in SUBSET S |->
                     IF s = {} THEN c ELSE op(idxs[Max(s)], h[s \ {Max(s)}])]
<1>1. Chooses(ch, S) /\ c \in V
  <2>1. Len(idxs) \in Nat /\ DOMAIN idxs = 1..Len(idxs)
    OBVIOUS
  <2> QED BY <2>1, LastOf
<1>2. <<{}, c>> \in H
  <2> HIDE DEF op, V, S
  <2> QED BY <1>1
<1>3. \A s \in NonEmpty(S), v \in V : F[<<s, v>>] = op(idxs[Max(s)], v)
  OBVIOUS
<1>4. ASSUME NEW s \in NonEmpty(S), NEW v \in V, <<s \ {ch[s]}, v>> \in H
      PROVE  <<s, op(idxs[Max(s)], v)>> \in H
  <2>1. s \in SUBSET S /\ ch[s] \in s /\ ch[s] = Max(s)
    BY <1>1 DEF Chooses, NonEmpty
  <2>2. idxs[Max(s)] \in Cells
    BY <2>1
  <2>3. op(idxs[Max(s)], v) \in V
    BY <2>2, RestoreCellIs
  <2> HIDE DEF op, V, S, ch
  <2> QED BY <2>1, <2>3
<1>5. Keeps(H, S, V, c, ch, F)
  <2>1. H \subseteq (SUBSET S) \X V
    OBVIOUS
  <2> HIDE DEF F, H, op, ch, S, V
  <2>2. ASSUME NEW s \in NonEmpty(S), NEW v \in V, <<s \ {ch[s]}, v>> \in H PROVE <<s, F[<<s, v>>]>> \in H
    <3>1. <<s, op(idxs[Max(s)], v)>> \in H
      BY <1>4, <2>2
    <3>2. F[<<s, v>>] = op(idxs[Max(s)], v)
      BY <1>3
    <3> QED BY <3>1, <3>2
  <2> HIDE DEF iter
  <2> QED BY <1>2, <2>1, <2>2 DEF Keeps
<1>6. PICK g : IsFoldIn(g, H, S, c, ch, F)
  <2> HIDE DEF F, H, ch, S, V
  <2> QED BY <1>1, <1>5, FoldIn
<1>7. \A s \in NonEmpty(S) : ch[s] = Max(s)
  OBVIOUS
<1>8. \A s \in SUBSET S : g[s] = IF s = {} THEN c ELSE op(idxs[Max(s)], g[s \ {Max(s)}])
  <2> SUFFICES ASSUME NEW s \in SUBSET S, s # {} PROVE g[s] = op(idxs[Max(s)], g[s \ {Max(s)}])
    BY <1>6 DEF IsFoldIn
  <2>1. s \in NonEmpty(S) /\ s \ {ch[s]} \in SUBSET S
    BY DEF NonEmpty
  <2> HIDE DEF F, op, ch, S
  <2>2. <<s \ {ch[s]}, g[s \ {ch[s]}]>> \in H /\ g[s] = F[<<s, g[s \ {ch[s]}]>>]
    BY <1>6, <2>1 DEF IsFoldIn
  <2>3. g[s \ {ch[s]}] \in V
    BY <2>2
  <2> HIDE DEF H, V
  <2> QED BY <1>3, <1>7, <2>1, <2>2, <2>3
<1>9. g = [s \in SUBSET S |-> IF s = {} THEN c ELSE op(idxs[Max(s)], g[s \ {Max(s)}])]
  <2> DEFINE h == [s \in SUBSET S |-> IF s = {} THEN c ELSE op(idxs[Max(s)], g[s \ {Max(s)}])]
  <2>1. g = [s \in SUBSET S |-> g[s]]
    <3> HIDE DEF F, H, op, ch, S
    <3> QED BY <1>6 DEF IsFoldIn
  <2>2. h = [s \in SUBSET S |-> h[s]] /\ \A s \in SUBSET S : g[s] = h[s]
    <3> HIDE DEF F, H, op, ch, S, V
    <3> QED BY <1>8
  <2> HIDE DEF h
  <2>3. g = h
    BY <2>1, <2>2
  <2> QED BY <2>3 DEF h
<1>10. iter = [s \in SUBSET S |-> IF s = {} THEN c ELSE op(idxs[Max(s)], iter[s \ {Max(s)}])]
  BY <1>9
<1>11. Restore(c, old, idxs) = iter[S]
  BY DEF Restore, FoldLeft, MapThenFoldSet
<1> HIDE DEF iter
<1>12. iter[S] = g[S]
  <2>1. iter[{}] = g[{}]
    BY <1>6, <1>10 DEF IsFoldIn
  <2>2. ASSUME NEW s \in NonEmpty(S), iter[s \ {ch[s]}] = g[s \ {ch[s]}] PROVE iter[s] = g[s]
    <3>1. s \in SUBSET S /\ s # {}
      BY DEF NonEmpty
    <3> HIDE DEF F, H, op, ch, S, V
    <3>2. iter[s] = op(idxs[Max(s)], iter[s \ {Max(s)}])
      BY <1>10, <3>1
    <3>3. g[s] = op(idxs[Max(s)], g[s \ {Max(s)}])
      BY <1>8, <3>1
    <3>4. iter[s \ {Max(s)}] = g[s \ {Max(s)}]
      BY <1>7, <2>2
    <3> QED BY <3>2, <3>3, <3>4
  <2> HIDE DEF F, H, op, ch, S, V
  <2>3. Chooses(ch, S)
    BY <1>1
  <2>4. SameSteps(iter, g, S, ch)
    BY <2>1, <2>2 DEF SameSteps
  <2> QED BY <2>3, <2>4, SameFold
<1>13. <<S, g[S]>> \in H
  <2> HIDE DEF F, H, op, ch, S, V
  <2> QED BY <1>6 DEF IsFoldIn
<1> QED BY <1>11, <1>12, <1>13
Places == Seq(Cells) \ {<<>>}
Ubatch == Seq(KvTokens) \ {<<>>}
Tries ==
  {a \in [c : Fresh, h : 0..NCells, ok : BOOLEAN, idxs : Seq(Places), saved : Seq(Fresh)] :
     Len(a.idxs) = Len(a.saved)}

\* If all went well, each of the first k ubatches has its place.
AllPlaced(a, ubs, k) ==
  a.ok => Len(a.idxs) = k /\ \A u \in 1..k : Len(a.idxs[u]) = Len(ubs[u])

\* A set of numbers from 1, without the last.
LEMMA LastOfFirst ==
  ASSUME NEW n \in Nat, NEW s \in NonEmpty(1..n), NEW k \in Nat, s = 1..k
  PROVE  k \in Nat \ {0} /\ Max(s) = k /\ s \ {Max(s)} = 1..(k - 1)
<1>1. k # 0
  BY DEF NonEmpty
<1>2. s \in SUBSET Int /\ IsFiniteSet(s) /\ s # {}
  <2>1. 1 \in Int /\ k \in Int
    OBVIOUS
  <2>2. IsFiniteSet(1..k)
    BY <2>1, FS_Interval
  <2> QED BY <2>1, <2>2 DEF NonEmpty
<1>3. Max(s) \in s /\ \A y \in s : Max(s) >= y
  BY <1>2, MaxIs
<1>4. Max(s) = k
  BY <1>1, <1>3
<1> QED BY <1>1, <1>4

LEMMA NextHeadIs ==
  ASSUME NEW idxs \in Places
  PROVE  NextHead(idxs) \in 0..NCells
<1>1. Len(idxs) \in 1..Len(idxs) /\ idxs[Len(idxs)] \in Cells
  BY DEF Places
<1> QED BY <1>1, CacheAssumption DEF NextHead, Last, Cells

LEMMA TryUbatchIs ==
  ASSUME NEW a \in Tries, NEW ub \in Ubatch
  PROVE  /\ TryUbatch(a, ub) \in Tries
         /\ \A ubs : \A k \in Nat \ {0} : AllPlaced(a, ubs, k - 1) /\ ubs[k] = ub => AllPlaced(TryUbatch(a, ub), ubs, k)
<1>1. PICK idxs : idxs = FindSlot(a.c, a.h, Len(ub))
  OBVIOUS
<1>2. a.c \in Fresh /\ a.h \in 0..NCells /\ a.ok \in BOOLEAN /\ a.idxs \in Seq(Places) /\ a.saved \in Seq(Fresh)
      /\ Len(a.idxs) = Len(a.saved)
      /\ a = [c |-> a.c, h |-> a.h, ok |-> a.ok, idxs |-> a.idxs, saved |-> a.saved]
  BY DEF Tries
<1>3. Len(ub) \in Nat \ {0} /\ ub \in Seq(KvTokens)
  BY DEF Ubatch
<1>4. CASE ~a.ok \/ idxs = <<>>
  <2>1. TryUbatch(a, ub) = [a EXCEPT !.ok = FALSE]
    BY <1>1, <1>4 DEF TryUbatch
  <2>2. PICK b : b = [a EXCEPT !.ok = FALSE]
    OBVIOUS
  <2>3. b.c = a.c /\ b.h = a.h /\ b.ok = FALSE /\ b.idxs = a.idxs /\ b.saved = a.saved
        /\ b = [c |-> b.c, h |-> b.h, ok |-> b.ok, idxs |-> b.idxs, saved |-> b.saved]
    BY <1>2, <2>2
  <2>4. b \in Tries
    BY <1>2, <2>3 DEF Tries
  <2> QED BY <2>1, <2>2, <2>3, <2>4 DEF AllPlaced
<1>5. CASE a.ok /\ idxs # <<>>
  <2>1. idxs \in Seq(Cells) /\ Len(idxs) = Len(ub)
    BY <1>1, <1>2, <1>3, <1>5, FindSlotIs
  <2>2. idxs \in Places
    BY <1>5, <2>1 DEF Places
  <2>3. PICK d : d = ApplyUbatch(a.c, idxs, ub)
    OBVIOUS
  <2>4. d \in Fresh
    BY <1>2, <1>3, <2>1, <2>3, ApplyFresh
  <2>5. PICK b : b = [c |-> d, h |-> NextHead(idxs), ok |-> TRUE,
                      idxs |-> Append(a.idxs, idxs), saved |-> Append(a.saved, a.c)]
    OBVIOUS
  <2>6. TryUbatch(a, ub) = b
    BY <1>1, <1>5, <2>3, <2>5 DEF TryUbatch
  <2>7. b.idxs = Append(a.idxs, idxs) /\ b.ok = TRUE
    BY <2>5
  <2>8. Append(a.idxs, idxs) \in Seq(Places) /\ Append(a.saved, a.c) \in Seq(Fresh)
        /\ Len(Append(a.idxs, idxs)) = Len(a.idxs) + 1 /\ Len(Append(a.saved, a.c)) = Len(a.saved) + 1
    BY <1>2, <2>2
  <2>9. b \in Tries
    BY <1>2, <2>2, <2>4, <2>5, <2>8, NextHeadIs DEF Tries
  <2>10. ASSUME NEW ubs, NEW k \in Nat \ {0}, AllPlaced(a, ubs, k - 1), ubs[k] = ub PROVE AllPlaced(b, ubs, k)
    <3>1. Len(a.idxs) = k - 1 /\ \A u \in 1..(k - 1) : Len(a.idxs[u]) = Len(ubs[u])
      BY <1>5, <2>10 DEF AllPlaced
    <3>2. Len(b.idxs) = k
      BY <1>2, <2>7, <2>8, <3>1
    <3>3. ASSUME NEW u \in 1..k PROVE Len(b.idxs[u]) = Len(ubs[u])
      <4>1. CASE u = k
        <5>1. b.idxs[u] = idxs
          BY <1>2, <2>7, <3>1, <4>1
        <5> QED BY <2>1, <2>10, <4>1, <5>1
      <4>2. CASE u # k
        <5>1. u \in 1..(k - 1) /\ b.idxs[u] = a.idxs[u]
          BY <1>2, <2>7, <3>1, <4>2
        <5> QED BY <3>1, <5>1
      <4> QED BY <4>1, <4>2
    <3> QED BY <3>2, <3>3 DEF AllPlaced
  <2> QED BY <2>6, <2>9, <2>10
<1> QED BY <1>2, <1>4, <1>5

\* Trying all ubatches leaves sound cells, and a place of the right size for each.
LEMMA TryAllIs ==
  ASSUME NEW c \in Fresh, NEW hd \in 0..NCells, NEW ubs \in Seq(Ubatch)
  PROVE  TryAll(c, hd, ubs) \in Tries /\ AllPlaced(TryAll(c, hd, ubs), ubs, Len(ubs))
<1> DEFINE first == [c |-> c, h |-> hd, ok |-> TRUE, idxs |-> <<>>, saved |-> <<>>]
           S == DOMAIN ubs
           V == Tries
           ch == [s \in NonEmpty(S) |-> Max(s)]
           op(x, v) == TryUbatch(v, x)
           F == [p \in NonEmpty(S) \X V |-> op(ubs[Max(p[1])], p[2])]
           H == {p \in (SUBSET S) \X V : \A k \in Nat : p[1] = 1..k => AllPlaced(p[2], ubs, k)}
           iter == CHOOSE h : h = [s \in SUBSET S |->
                     IF s = {} THEN first ELSE op(ubs[Max(s)], h[s \ {Max(s)}])]
<1>1. Chooses(ch, S) /\ first \in V
  <2>1. Len(ubs) \in Nat /\ DOMAIN ubs = 1..Len(ubs)
    OBVIOUS
  <2>2. first \in V
    BY DEF Tries
  <2> HIDE DEF first, V
  <2> QED BY <2>1, <2>2, LastOf
<1>2. <<{}, first>> \in H
  <2>1. ASSUME NEW k \in Nat, {} = 1..k PROVE AllPlaced(first, ubs, k)
    <3>1. k = 0
      BY <2>1
    <3>2. first.idxs = <<>>
      OBVIOUS
    <3> HIDE DEF first
    <3> QED BY <3>1, <3>2 DEF AllPlaced
  <2> HIDE DEF op, V, S, first
  <2> QED BY <1>1, <2>1
<1>3. \A s \in NonEmpty(S), v \in V : F[<<s, v>>] = op(ubs[Max(s)], v)
  OBVIOUS
<1>4. ASSUME NEW s \in NonEmpty(S), NEW v \in V, <<s \ {ch[s]}, v>> \in H
      PROVE  <<s, op(ubs[Max(s)], v)>> \in H
  <2>0. S = 1..Len(ubs) /\ Len(ubs) \in Nat
    OBVIOUS
  <2>1. s \in SUBSET S /\ ch[s] \in s /\ ch[s] = Max(s) /\ S = 1..Len(ubs) /\ Len(ubs) \in Nat
    BY <1>1, <2>0 DEF Chooses, NonEmpty
  <2>2. ubs[Max(s)] \in Ubatch
    BY <2>1
  <2>3. PICK w : w = TryUbatch(v, ubs[Max(s)])
    OBVIOUS
  <2>4. w \in V
    BY <2>2, <2>3, TryUbatchIs
  <2>5. ASSUME NEW k \in Nat, s = 1..k PROVE AllPlaced(w, ubs, k)
    <3>1. k \in Nat \ {0} /\ Max(s) = k /\ s \ {Max(s)} = 1..(k - 1)
      <4> HIDE DEF ch, S
      <4> QED BY <2>1, <2>5, LastOfFirst
    <3>2. k - 1 \in Nat /\ s \ {ch[s]} = 1..(k - 1)
      <4> HIDE DEF ch, S
      <4> QED BY <2>1, <3>1
    <3>3. AllPlaced(v, ubs, k - 1)
      <4>1. \A m \in Nat : s \ {ch[s]} = 1..m => AllPlaced(v, ubs, m)
        BY <1>4
      <4> HIDE DEF ch, S
      <4> QED BY <3>2, <4>1
    <3>4. ubs[k] = ubs[Max(s)]
      BY <3>1
    <3> HIDE DEF ch, S
    <3> QED BY <2>2, <2>3, <3>1, <3>3, <3>4, TryUbatchIs
  <2>6. op(ubs[Max(s)], v) = w
    BY <2>3
  <2> HIDE DEF op, V, S, ch
  <2> QED BY <2>1, <2>4, <2>5, <2>6
<1>5. Keeps(H, S, V, first, ch, F)
  <2>1. H \subseteq (SUBSET S) \X V
    OBVIOUS
  <2> HIDE DEF F, H, op, ch, S, V, first
  <2>2. ASSUME NEW s \in NonEmpty(S), NEW v \in V, <<s \ {ch[s]}, v>> \in H PROVE <<s, F[<<s, v>>]>> \in H
    <3>1. <<s, op(ubs[Max(s)], v)>> \in H
      BY <1>4, <2>2
    <3>2. F[<<s, v>>] = op(ubs[Max(s)], v)
      BY <1>3
    <3> QED BY <3>1, <3>2
  <2> HIDE DEF iter
  <2> QED BY <1>2, <2>1, <2>2 DEF Keeps
<1>6. PICK g : IsFoldIn(g, H, S, first, ch, F)
  <2> HIDE DEF F, H, ch, S, V, first
  <2> QED BY <1>1, <1>5, FoldIn
<1>7. \A s \in NonEmpty(S) : ch[s] = Max(s)
  OBVIOUS
<1>8. \A s \in SUBSET S : g[s] = IF s = {} THEN first ELSE op(ubs[Max(s)], g[s \ {Max(s)}])
  <2> SUFFICES ASSUME NEW s \in SUBSET S, s # {} PROVE g[s] = op(ubs[Max(s)], g[s \ {Max(s)}])
    BY <1>6 DEF IsFoldIn
  <2>1. s \in NonEmpty(S) /\ s \ {ch[s]} \in SUBSET S
    BY DEF NonEmpty
  <2> HIDE DEF F, op, ch, S, first
  <2>2. <<s \ {ch[s]}, g[s \ {ch[s]}]>> \in H /\ g[s] = F[<<s, g[s \ {ch[s]}]>>]
    BY <1>6, <2>1 DEF IsFoldIn
  <2>3. g[s \ {ch[s]}] \in V
    BY <2>2
  <2> HIDE DEF H, V
  <2> QED BY <1>3, <1>7, <2>1, <2>2, <2>3
<1>9. g = [s \in SUBSET S |-> IF s = {} THEN first ELSE op(ubs[Max(s)], g[s \ {Max(s)}])]
  <2> DEFINE h == [s \in SUBSET S |-> IF s = {} THEN first ELSE op(ubs[Max(s)], g[s \ {Max(s)}])]
  <2>1. g = [s \in SUBSET S |-> g[s]]
    <3> HIDE DEF F, H, op, ch, S, first
    <3> QED BY <1>6 DEF IsFoldIn
  <2>2. h = [s \in SUBSET S |-> h[s]] /\ \A s \in SUBSET S : g[s] = h[s]
    <3> HIDE DEF F, H, op, ch, S, V, first
    <3> QED BY <1>8
  <2> HIDE DEF h
  <2>3. g = h
    BY <2>1, <2>2
  <2> QED BY <2>3 DEF h
<1>10. iter = [s \in SUBSET S |-> IF s = {} THEN first ELSE op(ubs[Max(s)], iter[s \ {Max(s)}])]
  BY <1>9
<1>11. TryAll(c, hd, ubs) = iter[S]
  BY DEF TryAll, FoldLeft, MapThenFoldSet
<1> HIDE DEF iter
<1>12. iter[S] = g[S]
  <2>1. iter[{}] = g[{}]
    BY <1>6, <1>10 DEF IsFoldIn
  <2>2. ASSUME NEW s \in NonEmpty(S), iter[s \ {ch[s]}] = g[s \ {ch[s]}] PROVE iter[s] = g[s]
    <3>1. s \in SUBSET S /\ s # {}
      BY DEF NonEmpty
    <3> HIDE DEF F, H, op, ch, S, V, first
    <3>2. iter[s] = op(ubs[Max(s)], iter[s \ {Max(s)}])
      BY <1>10, <3>1
    <3>3. g[s] = op(ubs[Max(s)], g[s \ {Max(s)}])
      BY <1>8, <3>1
    <3>4. iter[s \ {Max(s)}] = g[s \ {Max(s)}]
      BY <1>7, <2>2
    <3> QED BY <3>2, <3>3, <3>4
  <2> HIDE DEF F, H, op, ch, S, V, first
  <2>3. Chooses(ch, S)
    BY <1>1
  <2>4. SameSteps(iter, g, S, ch)
    BY <2>1, <2>2 DEF SameSteps
  <2> QED BY <2>3, <2>4, SameFold
<1>13. <<S, g[S]>> \in H
  <2> HIDE DEF F, H, op, ch, S, V, first
  <2> QED BY <1>6 DEF IsFoldIn
<1> QED 
  <2>1. S = 1..Len(ubs) /\ Len(ubs) \in Nat
    OBVIOUS
  <2>2. g[S] \in V /\ \A k \in Nat : S = 1..k => AllPlaced(g[S], ubs, k)
    BY <1>13
  <2> HIDE DEF S
  <2> QED BY <1>11, <1>12, <2>1, <2>2

LEMMA FirstOf ==
  ASSUME NEW n \in Nat
  PROVE  Chooses([s \in NonEmpty(1..n) |-> Min(s)], 1..n)
<1>1. IsFiniteSet(1..n)
  BY FS_Interval
<1>2. ASSUME NEW s \in NonEmpty(1..n) PROVE Min(s) \in s
  <2>1. s \subseteq 1..n /\ s # {} /\ 1 \in Int /\ n \in Int
    BY DEF NonEmpty
  <2>2. s \in SUBSET Int /\ IsFiniteSet(s)
    BY <2>1, BoundedFinite
  <2> QED BY <2>1, <2>2, MinIs
<1> QED BY <1>1, <1>2 DEF Chooses

LEMMA TakeBackIs ==
  ASSUME NEW try \in Tries
  PROVE  TakeBack(try) \in Fresh
<1> DEFINE id == [k \in 1..Len(try.idxs) |-> k]
           S == DOMAIN id
           V == Fresh
           ch == [s \in NonEmpty(S) |-> Min(s)]
           op(x, v) == Restore(v, try.saved[x], try.idxs[x])
           F == [p \in NonEmpty(S) \X V |-> op(id[Min(p[1])], p[2])]
           H == {p \in (SUBSET S) \X V : TRUE}
           iter == CHOOSE h : h = [s \in SUBSET S |->
                     IF s = {} THEN try.c ELSE op(id[Min(s)], h[s \ {Min(s)}])]
<1>1. Chooses(ch, S) /\ try.c \in V
  <2>1. Len(try.idxs) \in Nat /\ DOMAIN id = 1..Len(try.idxs) /\ try.c \in Fresh
    BY DEF Tries
  <2> HIDE DEF id
  <2> QED BY <2>1, FirstOf
<1>2. <<{}, try.c>> \in H
  <2> HIDE DEF op, V, S
  <2> QED BY <1>1
<1>3. \A s \in NonEmpty(S), v \in V : F[<<s, v>>] = op(id[Min(s)], v)
  OBVIOUS
<1>4. ASSUME NEW s \in NonEmpty(S), NEW v \in V, <<s \ {ch[s]}, v>> \in H
      PROVE  <<s, op(id[Min(s)], v)>> \in H
  <2>1. s \in SUBSET S /\ ch[s] \in s /\ ch[s] = Min(s)
    BY <1>1 DEF Chooses, NonEmpty
  <2>2. id[Min(s)] = Min(s) /\ Min(s) \in 1..Len(try.idxs)
    <3>1. DOMAIN id = 1..Len(try.idxs) /\ \A k \in 1..Len(try.idxs) : id[k] = k
      OBVIOUS
    <3> HIDE DEF ch, id
    <3> QED BY <2>1, <3>1
  <2> HIDE DEF id, S, ch
  <2>3. try.saved[Min(s)] \in Fresh /\ try.idxs[Min(s)] \in Seq(Cells)
    BY <2>2 DEF Tries, Places
  <2>4. op(id[Min(s)], v) \in V
    BY <2>2, <2>3, RestoreIs
  <2> HIDE DEF op, V
  <2> QED BY <2>1, <2>4
<1>5. Keeps(H, S, V, try.c, ch, F)
  <2>1. H \subseteq (SUBSET S) \X V
    OBVIOUS
  <2> HIDE DEF F, H, op, ch, S, V, id
  <2>2. ASSUME NEW s \in NonEmpty(S), NEW v \in V, <<s \ {ch[s]}, v>> \in H PROVE <<s, F[<<s, v>>]>> \in H
    <3>1. <<s, op(id[Min(s)], v)>> \in H
      BY <1>4, <2>2
    <3>2. F[<<s, v>>] = op(id[Min(s)], v)
      BY <1>3
    <3> QED BY <3>1, <3>2
  <2> HIDE DEF iter
  <2> QED BY <1>2, <2>1, <2>2 DEF Keeps
<1>6. PICK g : IsFoldIn(g, H, S, try.c, ch, F)
  <2> HIDE DEF F, H, ch, S, V, id
  <2> QED BY <1>1, <1>5, FoldIn
<1>7. \A s \in NonEmpty(S) : ch[s] = Min(s)
  OBVIOUS
<1>8. \A s \in SUBSET S : g[s] = IF s = {} THEN try.c ELSE op(id[Min(s)], g[s \ {Min(s)}])
  <2> SUFFICES ASSUME NEW s \in SUBSET S, s # {} PROVE g[s] = op(id[Min(s)], g[s \ {Min(s)}])
    BY <1>6 DEF IsFoldIn
  <2>1. s \in NonEmpty(S) /\ s \ {ch[s]} \in SUBSET S
    BY DEF NonEmpty
  <2> HIDE DEF F, op, ch, S, id
  <2>2. <<s \ {ch[s]}, g[s \ {ch[s]}]>> \in H /\ g[s] = F[<<s, g[s \ {ch[s]}]>>]
    BY <1>6, <2>1 DEF IsFoldIn
  <2>3. g[s \ {ch[s]}] \in V
    BY <2>2
  <2> HIDE DEF H, V
  <2> QED BY <1>3, <1>7, <2>1, <2>2, <2>3
<1>9. g = [s \in SUBSET S |-> IF s = {} THEN try.c ELSE op(id[Min(s)], g[s \ {Min(s)}])]
  <2> DEFINE h == [s \in SUBSET S |-> IF s = {} THEN try.c ELSE op(id[Min(s)], g[s \ {Min(s)}])]
  <2>1. g = [s \in SUBSET S |-> g[s]]
    <3> HIDE DEF F, H, op, ch, S, id
    <3> QED BY <1>6 DEF IsFoldIn
  <2>2. h = [s \in SUBSET S |-> h[s]] /\ \A s \in SUBSET S : g[s] = h[s]
    <3> HIDE DEF F, H, op, ch, S, V, id
    <3> QED BY <1>8
  <2> HIDE DEF h
  <2>3. g = h
    BY <2>1, <2>2
  <2> QED BY <2>3 DEF h
<1>10. iter = [s \in SUBSET S |-> IF s = {} THEN try.c ELSE op(id[Min(s)], iter[s \ {Min(s)}])]
  BY <1>9
<1>11. TakeBack(try) = iter[S]
  BY DEF TakeBack, FoldRight, MapThenFoldSet
<1> HIDE DEF iter
<1>12. iter[S] = g[S]
  <2>1. iter[{}] = g[{}]
    BY <1>6, <1>10 DEF IsFoldIn
  <2>2. ASSUME NEW s \in NonEmpty(S), iter[s \ {ch[s]}] = g[s \ {ch[s]}] PROVE iter[s] = g[s]
    <3>1. s \in SUBSET S /\ s # {}
      BY DEF NonEmpty
    <3> HIDE DEF F, H, op, ch, S, V, id
    <3>2. iter[s] = op(id[Min(s)], iter[s \ {Min(s)}])
      BY <1>10, <3>1
    <3>3. g[s] = op(id[Min(s)], g[s \ {Min(s)}])
      BY <1>8, <3>1
    <3>4. iter[s \ {Min(s)}] = g[s \ {Min(s)}]
      BY <1>7, <2>2
    <3> QED BY <3>2, <3>3, <3>4
  <2> HIDE DEF F, H, op, ch, S, V, id
  <2>3. Chooses(ch, S)
    BY <1>1
  <2>4. SameSteps(iter, g, S, ch)
    BY <2>1, <2>2 DEF SameSteps
  <2> QED BY <2>3, <2>4, SameFold
<1>13. <<S, g[S]>> \in H
  <2> HIDE DEF F, H, op, ch, S, V, id
  <2> QED BY <1>6 DEF IsFoldIn
<1> QED BY <1>11, <1>12, <1>13

LEMMA AppliedIs ==
  ASSUME NEW prep, prep.c \in Fresh, NEW ubs, NEW k \in Nat,
         \A u \in 1..k : ubs[u] \in Seq(KvTokens) /\ prep.idxs[u] \in Seq(Cells) /\ Len(prep.idxs[u]) = Len(ubs[u])
  PROVE  Applied(prep, ubs, k) \in Fresh
<1> DEFINE id == [u \in 1..k |-> u]
           S == DOMAIN id
           V == Fresh
           ch == [s \in NonEmpty(S) |-> Max(s)]
           op(x, v) == ApplyUbatch(v, prep.idxs[x], ubs[x])
           F == [p \in NonEmpty(S) \X V |-> op(id[Max(p[1])], p[2])]
           H == {p \in (SUBSET S) \X V : TRUE}
           iter == CHOOSE h : h = [s \in SUBSET S |->
                     IF s = {} THEN prep.c ELSE op(id[Max(s)], h[s \ {Max(s)}])]
<1>1. Chooses(ch, S) /\ prep.c \in V
  <2>1. DOMAIN id = 1..k
    OBVIOUS
  <2> HIDE DEF id
  <2> QED BY <2>1, LastOf
<1>2. <<{}, prep.c>> \in H
  <2> HIDE DEF op, V, S
  <2> QED BY <1>1
<1>3. \A s \in NonEmpty(S), v \in V : F[<<s, v>>] = op(id[Max(s)], v)
  OBVIOUS
<1>4. ASSUME NEW s \in NonEmpty(S), NEW v \in V, <<s \ {ch[s]}, v>> \in H
      PROVE  <<s, op(id[Max(s)], v)>> \in H
  <2>1. s \in SUBSET S /\ ch[s] \in s /\ ch[s] = Max(s)
    BY <1>1 DEF Chooses, NonEmpty
  <2>2. id[Max(s)] = Max(s) /\ Max(s) \in 1..k
    <3>1. DOMAIN id = 1..k /\ \A u \in 1..k : id[u] = u
      OBVIOUS
    <3> HIDE DEF ch, id
    <3> QED BY <2>1, <3>1
  <2> HIDE DEF id, S, ch
  <2>3. ubs[Max(s)] \in Seq(KvTokens) /\ prep.idxs[Max(s)] \in Seq(Cells) /\ Len(prep.idxs[Max(s)]) = Len(ubs[Max(s)])
    BY <2>2
  <2>4. op(id[Max(s)], v) \in V
    BY <2>2, <2>3, ApplyFresh
  <2> HIDE DEF op, V
  <2> QED BY <2>1, <2>4
<1>5. Keeps(H, S, V, prep.c, ch, F)
  <2>1. H \subseteq (SUBSET S) \X V
    OBVIOUS
  <2> HIDE DEF F, H, op, ch, S, V, id
  <2>2. ASSUME NEW s \in NonEmpty(S), NEW v \in V, <<s \ {ch[s]}, v>> \in H PROVE <<s, F[<<s, v>>]>> \in H
    <3>1. <<s, op(id[Max(s)], v)>> \in H
      BY <1>4, <2>2
    <3>2. F[<<s, v>>] = op(id[Max(s)], v)
      BY <1>3
    <3> QED BY <3>1, <3>2
  <2> HIDE DEF iter
  <2> QED BY <1>2, <2>1, <2>2 DEF Keeps
<1>6. PICK g : IsFoldIn(g, H, S, prep.c, ch, F)
  <2> HIDE DEF F, H, ch, S, V, id
  <2> QED BY <1>1, <1>5, FoldIn
<1>7. \A s \in NonEmpty(S) : ch[s] = Max(s)
  OBVIOUS
<1>8. \A s \in SUBSET S : g[s] = IF s = {} THEN prep.c ELSE op(id[Max(s)], g[s \ {Max(s)}])
  <2> SUFFICES ASSUME NEW s \in SUBSET S, s # {} PROVE g[s] = op(id[Max(s)], g[s \ {Max(s)}])
    BY <1>6 DEF IsFoldIn
  <2>1. s \in NonEmpty(S) /\ s \ {ch[s]} \in SUBSET S
    BY DEF NonEmpty
  <2> HIDE DEF F, op, ch, S, id
  <2>2. <<s \ {ch[s]}, g[s \ {ch[s]}]>> \in H /\ g[s] = F[<<s, g[s \ {ch[s]}]>>]
    BY <1>6, <2>1 DEF IsFoldIn
  <2>3. g[s \ {ch[s]}] \in V
    BY <2>2
  <2> HIDE DEF H, V
  <2> QED BY <1>3, <1>7, <2>1, <2>2, <2>3
<1>9. g = [s \in SUBSET S |-> IF s = {} THEN prep.c ELSE op(id[Max(s)], g[s \ {Max(s)}])]
  <2> DEFINE h == [s \in SUBSET S |-> IF s = {} THEN prep.c ELSE op(id[Max(s)], g[s \ {Max(s)}])]
  <2>1. g = [s \in SUBSET S |-> g[s]]
    <3> HIDE DEF F, H, op, ch, S, id
    <3> QED BY <1>6 DEF IsFoldIn
  <2>2. h = [s \in SUBSET S |-> h[s]] /\ \A s \in SUBSET S : g[s] = h[s]
    <3> HIDE DEF F, H, op, ch, S, V, id
    <3> QED BY <1>8
  <2> HIDE DEF h
  <2>3. g = h
    BY <2>1, <2>2
  <2> QED BY <2>3 DEF h
<1>10. iter = [s \in SUBSET S |-> IF s = {} THEN prep.c ELSE op(id[Max(s)], iter[s \ {Max(s)}])]
  BY <1>9
<1>11. Applied(prep, ubs, k) = iter[S]
  BY DEF Applied, FoldLeft, MapThenFoldSet
<1> HIDE DEF iter
<1>12. iter[S] = g[S]
  <2>1. iter[{}] = g[{}]
    BY <1>6, <1>10 DEF IsFoldIn
  <2>2. ASSUME NEW s \in NonEmpty(S), iter[s \ {ch[s]}] = g[s \ {ch[s]}] PROVE iter[s] = g[s]
    <3>1. s \in SUBSET S /\ s # {}
      BY DEF NonEmpty
    <3> HIDE DEF F, H, op, ch, S, V, id
    <3>2. iter[s] = op(id[Max(s)], iter[s \ {Max(s)}])
      BY <1>10, <3>1
    <3>3. g[s] = op(id[Max(s)], g[s \ {Max(s)}])
      BY <1>8, <3>1
    <3>4. iter[s \ {Max(s)}] = g[s \ {Max(s)}]
      BY <1>7, <2>2
    <3> QED BY <3>2, <3>3, <3>4
  <2> HIDE DEF F, H, op, ch, S, V, id
  <2>3. Chooses(ch, S)
    BY <1>1
  <2>4. SameSteps(iter, g, S, ch)
    BY <2>1, <2>2 DEF SameSteps
  <2> QED BY <2>3, <2>4, SameFold
<1>13. <<S, g[S]>> \in H
  <2> HIDE DEF F, H, op, ch, S, V, id
  <2> QED BY <1>6 DEF IsFoldIn
<1> QED BY <1>11, <1>12, <1>13

-----------------------------------------------------------------------------
(* The cells of the KV cache: the operations.                               *)

LEMMA ProductGrows ==
  ASSUME NEW a \in Nat, NEW b \in Nat, NEW k \in Nat, a <= b
  PROVE  a * k \in Nat /\ b * k \in Nat /\ a * k <= b * k
<1>1. PICK x \in Nat : b = a + x
  <2>1. b - a \in Nat /\ b = a + (b - a)
    OBVIOUS
  <2> QED BY <2>1
<1>2. a * k \in Nat /\ x * k \in Nat /\ b * k = a * k + x * k
  BY <1>1
<1> QED BY <1>2

\* The tokens of a batch that ends by MaxPos, in ubatches that are not empty.
LEMMA SplitIs ==
  ASSUME NEW S \in (SUBSET Seqs) \ {{}}, NEW p0 \in Nat, NEW n \in Nat \ {0}, p0 + n - 1 <= MaxPos
  PROVE  Split(S, p0, n) \in Seq(Ubatch) /\ Len(Split(S, p0, n)) \in Nat \ {0}
<1>1. NUbatch \in Nat \ {0} /\ MaxPos \in Nat
  BY CacheAssumption
<1>2. PICK m : m = (n + NUbatch - 1) \div NUbatch
  OBVIOUS
<1>3. m \in Nat \ {0} /\ m * NUbatch <= n + NUbatch - 1
  BY <1>1, <1>2
<1> DEFINE size(u) == Min({NUbatch, n - (u - 1) * NUbatch})
           ub(u) == [k \in 1..size(u) |-> [pos |-> p0 + (u - 1) * NUbatch + k - 1, seqs |-> S]]
<1>4. ASSUME NEW u \in 1..m PROVE ub(u) \in Ubatch
  <2>1. PICK x : x = (u - 1) * NUbatch
    OBVIOUS
  <2>2. x \in Nat /\ x <= n - 1
    <3>1. u - 1 \in Nat /\ m - 1 \in Nat /\ u - 1 <= m - 1
      BY <1>3
    <3>2. x \in Nat /\ (m - 1) * NUbatch \in Nat /\ x <= (m - 1) * NUbatch
      BY <1>1, <2>1, <3>1, ProductGrows
    <3>3. (m - 1) * NUbatch = m * NUbatch - NUbatch /\ m * NUbatch \in Nat
      BY <1>1, <1>3
    <3> QED BY <1>1, <1>3, <3>2, <3>3
  <2>3. PICK l : l = Min({NUbatch, n - x})
    OBVIOUS
  <2>4. l \in {NUbatch, n - x} /\ l <= NUbatch /\ l <= n - x
    <3>1. NUbatch \in Int /\ n - x \in Int
      BY <1>1, <2>2
    <3> QED BY <2>3, <3>1, LeastOfTwo
  <2>5. l \in Nat \ {0}
    BY <1>1, <2>2, <2>4
  <2>6. ub(u) = [k \in 1..l |-> [pos |-> p0 + x + k - 1, seqs |-> S]]
    BY <2>1, <2>3
  <2>7. \A k \in 1..l : [pos |-> p0 + x + k - 1, seqs |-> S] \in KvTokens
    BY <1>1, <2>2, <2>4, <2>5 DEF KvTokens
  <2>8. PICK w : w = [k \in 1..l |-> [pos |-> p0 + x + k - 1, seqs |-> S]]
    OBVIOUS
  <2>9. w \in [1..l -> KvTokens]
    BY <2>7, <2>8
  <2>10. w \in Seq(KvTokens) /\ Len(w) = l
    BY <2>5, <2>9
  <2>11. w # <<>>
    BY <2>5, <2>10
  <2> QED BY <2>6, <2>8, <2>10, <2>11 DEF Ubatch
<1>5. Split(S, p0, n) = [u \in 1..m |-> ub(u)]
  BY <1>2 DEF Split
<1> HIDE DEF ub
<1>6. PICK w : w = [u \in 1..m |-> ub(u)]
  OBVIOUS
<1>7. w \in [1..m -> Ubatch]
  BY <1>4, <1>6
<1>8. w \in Seq(Ubatch) /\ Len(w) = m
  BY <1>3, <1>7
<1> QED BY <1>3, <1>5, <1>6, <1>8

LEMMA NextPosIs ==
  ASSUME NEW S \in (SUBSET Seqs) \ {{}}
  PROVE  NextPos(S) \in 0..MaxPos + 1
<1>1. PICK s : s = CHOOSE t \in S : TRUE
  OBVIOUS
<1>2. Counted(cells, s) \subseteq 0..MaxPos /\ 0 \in Int /\ MaxPos \in Nat
  BY CacheAssumption DEF Counted
<1>3. Counted(cells, s) \in SUBSET Int /\ IsFiniteSet(Counted(cells, s))
  BY <1>2, BoundedFinite
<1>4. Counted(cells, s) # {} => Max(Counted(cells, s)) \in Counted(cells, s)
  BY <1>3, MaxIs
<1>5. SeqPosMax(cells, s) \in -1..MaxPos
  BY <1>2, <1>4 DEF SeqPosMax
<1> QED BY <1>1, <1>2, <1>5 DEF NextPos

LEMMA FreedIs ==
  ASSUME NEW c, NEW d, Freed(c, d) # {}
  PROVE  Min(Freed(c, d)) \in 0..NCells
<1>1. Freed(c, d) \subseteq 0..NCells - 1 /\ 0 \in Int /\ NCells - 1 \in Int
  BY CacheAssumption DEF Freed, Cells
<1>2. Freed(c, d) \in SUBSET Int /\ IsFiniteSet(Freed(c, d))
  BY <1>1, BoundedFinite
<1>3. Min(Freed(c, d)) \in Freed(c, d)
  BY <1>2, MinIs
<1> QED BY <1>1, <1>3, CacheAssumption

LEMMA HeadAfterIs ==
  ASSUME NEW h \in 0..NCells, NEW c, NEW d
  PROVE  HeadAfter(h, c, d) \in 0..NCells
BY FreedIs DEF HeadAfter

\* The inductive invariant: what is kept beside the cells is exact, every pending
\* shift is back and is what its key still has to be rotated.
KvInv ==
  /\ cells \in SoundCells
  /\ \A i \in Cells : cells.shift[i] <= 0
  /\ rotated \in [Cells -> -1..MaxPos]
  /\ ShiftIsDelta
  /\ kvHead \in 0..NCells
  /\ ret \in {0, 1, -3, NoRet}

\* Cell j of d is empty, or keeps its key, and what it still has to be rotated is
\* how far it is from the key.
Drawn(c, d, j) ==
  \/ d.pos[j] = -1
  \/ c.pos[j] # -1 /\ d.shift[j] <= 0 /\ d.pos[j] - d.shift[j] = c.pos[j] - c.shift[j]

LEMMA KeysKept ==
  ASSUME KvInv, NEW d \in SoundCells, \A j \in Cells : Drawn(cells, d, j)
  PROVE  /\ \A j \in Cells : d.shift[j] <= 0
         /\ SameKeys(d) \in [Cells -> -1..MaxPos]
         /\ \A j \in Cells : ~IsEmpty(d, j) => SameKeys(d)[j] + d.shift[j] = d.pos[j]
<1>1. -1 \in -1..MaxPos
  BY CacheAssumption
<1>2. SameKeys(d) \in [Cells -> -1..MaxPos]
  BY <1>1 DEF KvInv, SameKeys
<1>3. ASSUME NEW j \in Cells PROVE d.shift[j] <= 0
  BY <1>3 DEF Drawn, SoundCells, Settled, IsEmpty
<1>4. ASSUME NEW j \in Cells, ~IsEmpty(d, j) PROVE SameKeys(d)[j] + d.shift[j] = d.pos[j]
  <2>1. SameKeys(d)[j] = rotated[j]
    BY <1>4 DEF SameKeys
  <2>2. ~IsEmpty(cells, j) /\ d.pos[j] - d.shift[j] = cells.pos[j] - cells.shift[j]
    BY <1>4 DEF Drawn, IsEmpty
  <2>3. rotated[j] + cells.shift[j] = cells.pos[j]
    BY <2>2 DEF KvInv, ShiftIsDelta
  <2>4. rotated[j] \in Int /\ cells.shift[j] \in Int /\ cells.pos[j] \in Int /\ d.shift[j] \in Int /\ d.pos[j] \in Int
    BY CacheAssumption DEF KvInv, SoundCells, CellsRec
  <2> QED BY <2>1, <2>2, <2>3, <2>4
<1> QED BY <1>2, <1>3, <1>4

LEMMA KeepsInv ==
  ASSUME KvInv, cells' \in SoundCells, \A j \in Cells : Drawn(cells, cells', j),
         rotated' = SameKeys(cells'), kvHead' \in 0..NCells, ret' \in {0, 1, -3, NoRet}
  PROVE  KvInv'
<1>1. PICK d : d = cells'
  OBVIOUS
<1>2. d \in SoundCells /\ rotated' = SameKeys(d) /\ \A j \in Cells : Drawn(cells, d, j)
  BY <1>1
<1>3. /\ \A j \in Cells : d.shift[j] <= 0
      /\ SameKeys(d) \in [Cells -> -1..MaxPos]
      /\ \A j \in Cells : ~IsEmpty(d, j) => SameKeys(d)[j] + d.shift[j] = d.pos[j]
  BY <1>2, KeysKept
<1>4. \A j \in Cells : cells'.shift[j] <= 0
  BY <1>1, <1>3
<1>5. \A j \in Cells : cells'.pos[j] # -1 => rotated'[j] + cells'.shift[j] = cells'.pos[j]
  BY <1>1, <1>2, <1>3 DEF IsEmpty
<1> QED BY <1>2, <1>3, <1>4, <1>5 DEF KvInv, ShiftIsDelta, IsEmpty

LEMMA FreshInv ==
  ASSUME cells' \in Fresh, rotated' = cells'.pos, kvHead' \in 0..NCells, ret' \in {0, 1, -3, NoRet}
  PROVE  KvInv'
<1>1. cells' \in SoundCells /\ \A j \in Cells : cells'.shift[j] = 0
  BY DEF Fresh
<1>2. cells'.pos \in [Cells -> -1..MaxPos]
  BY <1>1 DEF SoundCells, CellsRec, Settled
<1>3. \A j \in Cells : rotated'[j] + cells'.shift[j] = cells'.pos[j]
  BY <1>1, <1>2, CacheAssumption
<1> QED BY <1>1, <1>2, <1>3 DEF KvInv, ShiftIsDelta

LEMMA EmptyCellsFresh == EmptyCells \in Fresh /\ EmptyCells.pos = [i \in Cells |-> -1]
<1>1. PICK c : c = EmptyCells
  OBVIOUS
<1>2. /\ c.pos = [i \in Cells |-> -1] /\ c.shift = [i \in Cells |-> 0]
      /\ c.seq = [i \in Cells |-> {}] /\ c.used = {}
      /\ c.seqPos = [s \in Seqs |-> [p \in 0..MaxPos |-> 0]]
  BY <1>1 DEF EmptyCells
<1>3. c \in CellsRec
  <2>1. c = [pos |-> c.pos, shift |-> c.shift, seq |-> c.seq, used |-> c.used, seqPos |-> c.seqPos]
    BY <1>1 DEF EmptyCells
  <2>2. -1 \in Int /\ 0 \in Int
    OBVIOUS
  <2> QED BY <1>2, <2>1, <2>2 DEF CellsRec
<1>4. \A s \in Seqs, p \in 0..MaxPos : c.seqPos[s][p] = Cardinality(At(c, s, p))
  <2> SUFFICES ASSUME NEW s \in Seqs, NEW p \in 0..MaxPos PROVE c.seqPos[s][p] = Cardinality(At(c, s, p))
    OBVIOUS
  <2>1. At(c, s, p) = {}
    BY <1>2 DEF At
  <2> QED BY <1>2, <2>1, FS_EmptySet
<1>5. Exact(c) /\ Settled(c) /\ \A j \in Cells : c.shift[j] = 0
  BY <1>2, <1>4, CacheAssumption DEF Exact, Settled, IsEmpty
<1> QED BY <1>1, <1>2, <1>3, <1>5 DEF Fresh, SoundCells

LEMMA KvStarts == KvInit => KvInv
<1> SUFFICES ASSUME KvInit PROVE KvInv
  OBVIOUS
<1>1. cells \in Fresh /\ cells.pos = [i \in Cells |-> -1]
  BY EmptyCellsFresh DEF KvInit
<1>2. -1 \in -1..MaxPos /\ 0 \in 0..NCells
  BY CacheAssumption
<1>3. \A i \in Cells : IsEmpty(cells, i)
  BY <1>1 DEF IsEmpty
<1> QED BY <1>1, <1>2, <1>3 DEF KvInit, KvInv, Fresh, ShiftIsDelta

\* The cells that sequence s left.
LEMMA RmDrawn ==
  ASSUME KvInv, NEW s \in Seqs, NEW p0, NEW p1
  PROVE  /\ AllSeqRm(cells, s, p0, p1) \in SoundCells
         /\ \A j \in Cells : LET d == AllSeqRm(cells, s, p0, p1)
                             IN  \/ d.pos[j] = -1
                                 \/ d.pos[j] = cells.pos[j] /\ d.shift[j] = cells.shift[j] /\ cells.pos[j] # -1
<1>1. PICK d : d = AllSeqRm(cells, s, p0, p1)
  OBVIOUS
<1>2. d \in SoundCells /\ RmDone(cells, d, s, CellsOf(cells, s, p0, p1))
  BY <1>1, AllSeqRmIs DEF KvInv
<1>3. \A j \in Cells : \/ d.pos[j] = -1
                       \/ d.pos[j] = cells.pos[j] /\ d.shift[j] = cells.shift[j] /\ cells.pos[j] # -1
  BY <1>2 DEF RmDone, CellIs
<1> QED BY <1>1, <1>2, <1>3

LEMMA BecomeKeeps ==
  ASSUME KvInv, NEW c \in SoundCells, CellsBecome(c),
         \A j \in Cells : \/ c.pos[j] = -1
                          \/ c.pos[j] = cells.pos[j] /\ c.shift[j] = cells.shift[j] /\ cells.pos[j] # -1
  PROVE  KvInv'
<1>1. cells' = c /\ kvHead' = HeadAfter(kvHead, cells, c) /\ ret' = NoRet /\ rotated' = SameKeys(c)
  BY DEF CellsBecome
<1>2. kvHead' \in 0..NCells
  BY <1>1, HeadAfterIs DEF KvInv
<1>3. \A j \in Cells : cells.shift[j] <= 0
  BY DEF KvInv
<1>4. \A j \in Cells : Drawn(cells, c, j)
  BY <1>3 DEF Drawn
<1> QED BY <1>1, <1>2, <1>4, KeepsInv

LEMMA SeqRemoveKeeps ==
  ASSUME KvInv, NEW s \in Seqs, NEW p0, NEW p1, SeqRemove(s, p0, p1)
  PROVE  KvInv'
BY RmDrawn, BecomeKeeps DEF SeqRemove

LEMMA SeqKeepOnlyKeeps ==
  ASSUME KvInv, NEW s \in Seqs, SeqKeepOnly(s)
  PROVE  KvInv'
<1>1. PICK d : d = AllSeqKeep(cells, s)
  OBVIOUS
<1>2. d \in SoundCells /\ KeepDone(cells, d, s, Cells)
  BY <1>1, AllSeqKeepIs DEF KvInv
<1>3. cells \in SoundCells
  BY DEF KvInv
<1>4. \A j \in Cells : \/ d.pos[j] = -1
                       \/ d.pos[j] = cells.pos[j] /\ d.shift[j] = cells.shift[j] /\ cells.pos[j] # -1
  BY <1>2, <1>3 DEF KeepDone, CellIs
<1> QED BY <1>1, <1>2, <1>4, BecomeKeeps DEF SeqKeepOnly

LEMMA SeqCopyKeeps ==
  ASSUME KvInv, NEW a \in Seqs, NEW b \in Seqs, SeqCopy(a, b)
  PROVE  KvInv'
<1>1. PICK d : d = AllSeqCp(cells, a, b)
  OBVIOUS
<1>2. \A i \in Cells : b \notin cells.seq[i]
  BY DEF SeqCopy
<1>3. d \in SoundCells /\ CpDone(cells, d, b, CellsOf(cells, a, 0, MaxPos + 1))
  BY <1>1, <1>2, AllSeqCpIs DEF KvInv
<1>4. \A j \in Cells : \/ d.pos[j] = -1
                       \/ d.pos[j] = cells.pos[j] /\ d.shift[j] = cells.shift[j] /\ cells.pos[j] # -1
  BY <1>3 DEF CpDone, CellIs
<1> QED BY <1>1, <1>3, <1>4, BecomeKeeps DEF SeqCopy

LEMMA SeqShiftKeeps ==
  ASSUME KvInv, NEW s \in Seqs, NEW p0, NEW n \in 1..2, SeqShift(s, p0, n)
  PROVE  KvInv'
<1>1. PICK c : c = AllSeqRm(cells, s, p0 - n, p0)
  OBVIOUS
<1>2. c \in SoundCells
      /\ \A j \in Cells : \/ c.pos[j] = -1
                          \/ c.pos[j] = cells.pos[j] /\ c.shift[j] = cells.shift[j] /\ cells.pos[j] # -1
  BY <1>1, RmDrawn
<1>3. PICK e : e = AllPosAdd(c, s, p0, MaxPos + 1, -n)
  OBVIOUS
<1>4. PICK k : k = -n
  OBVIOUS
<1>5. k \in Int /\ k <= 0
  BY <1>4
<1>6. e \in SoundCells /\ MoveDone(c, e, k, CellsOf(c, s, p0, MaxPos + 1))
  BY <1>2, <1>3, <1>4, <1>5, AllPosAddIs
<1>7. cells' = e /\ ret' = NoRet /\ rotated' = SameKeys(e)
      /\ kvHead' = IF Freed(c, e) = {} THEN 0 ELSE Min(Freed(c, e))
  BY <1>1, <1>3 DEF SeqShift
<1>8. kvHead' \in 0..NCells
  BY <1>7, FreedIs, CacheAssumption
<1>9. ASSUME NEW j \in Cells PROVE Drawn(cells, e, j)
  <2>1. cells.shift[j] <= 0 /\ cells.shift[j] \in Int /\ c.shift[j] \in Int /\ c.pos[j] \in -1..MaxPos
        /\ s \in Seqs /\ MaxPos \in Int
    BY <1>2, CacheAssumption DEF KvInv, SoundCells, CellsRec, Settled
  <2>2. CASE j \notin CellsOf(c, s, p0, MaxPos + 1)
    <3>1. e.pos[j] = c.pos[j] /\ e.shift[j] = c.shift[j]
      BY <1>6, <2>2 DEF MoveDone, CellIs
    <3> QED BY <1>2, <2>1, <3>1 DEF Drawn
  <2>3. CASE j \in CellsOf(c, s, p0, MaxPos + 1) /\ e.pos[j] # -1
    <3>1. e.pos[j] = c.pos[j] + k /\ e.shift[j] = c.shift[j] + k
      BY <1>6, <2>3 DEF MoveDone, CellIs
    <3>2. c.pos[j] # -1
      BY <1>2, <2>3 DEF CellsOf, SoundCells, Settled, IsEmpty
    <3>3. c.pos[j] = cells.pos[j] /\ c.shift[j] = cells.shift[j] /\ cells.pos[j] # -1
      BY <1>2, <3>2
    <3> QED BY <1>5, <2>1, <3>1, <3>3 DEF Drawn
  <2> QED BY <2>2, <2>3 DEF Drawn
<1> QED BY <1>6, <1>7, <1>8, <1>9, KeepsInv

LEMMA ClearKeeps ==
  ASSUME KvInv, Clear
  PROVE  KvInv'
<1>1. EmptyCells \in SoundCells /\ \A j \in Cells : Drawn(cells, EmptyCells, j)
  BY EmptyCellsFresh DEF Fresh, Drawn
<1>2. 0 \in 0..NCells
  BY CacheAssumption
<1> QED BY <1>1, <1>2, KeepsInv DEF Clear

LEMMA StateReadKeeps ==
  ASSUME KvInv, NEW s \in Seqs, NEW n \in 1..MaxStore, StateRead(s, n)
  PROVE  KvInv'
<1>1. PICK c : c = AllSeqRm(cells, s, 0, MaxPos + 1)
  OBVIOUS
<1>2. c \in SoundCells
      /\ \A j \in Cells : \/ c.pos[j] = -1
                          \/ c.pos[j] = cells.pos[j] /\ c.shift[j] = cells.shift[j] /\ cells.pos[j] # -1
  BY <1>1, RmDrawn
<1>3. PICK h : h = HeadAfter(kvHead, cells, c)
  OBVIOUS
<1>4. h \in 0..NCells
  BY <1>3, HeadAfterIs DEF KvInv
<1>5. PICK idxs : idxs = FindSlot(c, h, n)
  OBVIOUS
<1>6. n \in Nat \ {0} /\ n <= MaxPos + 1 /\ MaxPos \in Nat
  BY CacheAssumption
<1>7. PICK saved : saved = [k \in 1..n |-> [pos |-> k - 1, seqs |-> {s}]]
  OBVIOUS
<1>8. saved \in Seq(KvTokens) /\ Len(saved) = n
  <2>1. \A k \in 1..n : [pos |-> k - 1, seqs |-> {s}] \in KvTokens
    BY <1>6 DEF KvTokens
  <2>2. saved \in [1..n -> KvTokens]
    BY <1>7, <2>1
  <2> QED BY <1>6, <2>2
<1>9. PICK d : d = IF idxs = <<>> THEN c ELSE ApplyUbatch(c, idxs, saved)
  OBVIOUS
<1>10. /\ cells' = d /\ ret' = NoRet
       /\ kvHead' = IF idxs = <<>> THEN h ELSE NextHead(idxs)
       /\ rotated' = [i \in Cells |-> IF i \in Range(idxs) THEN d.pos[i] ELSE SameKeys(d)[i]]
  BY <1>1, <1>3, <1>5, <1>7, <1>9 DEF StateRead
<1>11. d \in SoundCells /\ PlacedIn(c, d, Range(idxs))
  <2>1. CASE idxs = <<>>
    <3>1. Range(idxs) = {}
      BY <2>1 DEF Range
    <3> QED BY <1>2, <1>9, <2>1, <3>1 DEF PlacedIn
  <2>2. CASE idxs # <<>>
    <3>1. idxs \in Seq(Cells) /\ Len(idxs) = Len(saved)
      BY <1>4, <1>5, <1>6, <1>8, <2>2, FindSlotIs
    <3> QED BY <1>2, <1>8, <1>9, <2>2, <3>1, ApplyUbatchIs
  <2> QED BY <2>1, <2>2
<1>12. kvHead' \in 0..NCells
  <2>1. idxs # <<>> => idxs \in Places
    BY <1>4, <1>5, <1>6, FindSlotIs DEF Places
  <2> QED BY <1>4, <1>10, <2>1, NextHeadIs
<1>13. -1 \in -1..MaxPos /\ rotated \in [Cells -> -1..MaxPos] /\ d.pos \in [Cells -> Int] /\ d.shift \in [Cells -> Int]
       /\ \A i \in Cells : d.pos[i] \in -1..MaxPos
  BY <1>6, <1>11 DEF KvInv, SoundCells, CellsRec, Settled
<1>14. rotated' \in [Cells -> -1..MaxPos]
  BY <1>10, <1>13 DEF SameKeys
<1>15. ASSUME NEW j \in Cells
       PROVE  d.shift[j] <= 0 /\ (~IsEmpty(d, j) => rotated'[j] + d.shift[j] = d.pos[j])
  <2>1. CASE j \in Range(idxs)
    <3>1. d.shift[j] = 0 /\ rotated'[j] = d.pos[j]
      BY <1>10, <1>11, <2>1 DEF PlacedIn
    <3> QED BY <1>13, <3>1
  <2>2. CASE j \notin Range(idxs)
    <3>1. CASE d.pos[j] = -1
      BY <1>11, <3>1 DEF SoundCells, Settled, IsEmpty
    <3>2. CASE d.pos[j] # -1
      <4>1. d.pos[j] = cells.pos[j] /\ d.shift[j] = cells.shift[j] /\ cells.pos[j] # -1
        BY <1>2, <1>11, <2>2, <3>2 DEF PlacedIn
      <4>2. rotated'[j] = rotated[j]
        BY <1>10, <2>2, <3>2 DEF SameKeys, IsEmpty
      <4> QED BY <4>1, <4>2 DEF KvInv, ShiftIsDelta, IsEmpty
    <3> QED BY <3>1, <3>2
  <2> QED BY <2>1, <2>2
<1>16. /\ cells' \in SoundCells /\ ret' \in {0, 1, -3, NoRet}
       /\ \A j \in Cells : cells'.shift[j] <= 0
       /\ \A j \in Cells : cells'.pos[j] # -1 => rotated'[j] + cells'.shift[j] = cells'.pos[j]
  BY <1>10, <1>11, <1>15 DEF IsEmpty
<1> QED BY <1>12, <1>14, <1>16 DEF KvInv, ShiftIsDelta, IsEmpty

LEMMA UpdatedIs ==
  ASSUME KvInv
  PROVE  Updated \in Fresh
<1>1. PICK u : u = Updated
  OBVIOUS
<1>2. cells \in CellsRec /\ cells \in SoundCells
  BY DEF KvInv, SoundCells
<1>3. /\ u.shift = [i \in Cells |-> 0]
      /\ u.pos = cells.pos /\ u.seq = cells.seq /\ u.used = cells.used /\ u.seqPos = cells.seqPos
      /\ u = [pos |-> u.pos, shift |-> u.shift, seq |-> u.seq, used |-> u.used, seqPos |-> u.seqPos]
  BY <1>1, <1>2 DEF CellsRec, Updated
<1>4. u \in CellsRec
  BY <1>2, <1>3 DEF CellsRec
<1>5. \A s, p : At(u, s, p) = At(cells, s, p)
  BY <1>3 DEF At
<1>6. Exact(u) /\ Settled(u)
  BY <1>2, <1>3, <1>5 DEF SoundCells, Exact, Settled, IsEmpty
<1> QED BY <1>1, <1>3, <1>4, <1>6 DEF Fresh, SoundCells

LEMMA DecodeKeepsInv ==
  ASSUME KvInv, NEW S \in (SUBSET Seqs) \ {{}}, NEW n \in 1..MaxStore, Decode(S, n)
  PROVE  KvInv'
<1>1. PICK ubs : ubs = Split(S, NextPos(S), n)
  OBVIOUS
<1>2. NextPos(S) \in Nat /\ NextPos(S) + n - 1 <= MaxPos /\ n \in Nat \ {0}
  <2>1. NextPos(S) \in 0..MaxPos + 1
    BY NextPosIs
  <2> QED BY <2>1, CacheAssumption DEF Decode
<1>3. ubs \in Seq(Ubatch) /\ Len(ubs) \in Nat \ {0}
  BY <1>1, <1>2, SplitIs
<1>4. PICK try : try = TryAll(Updated, kvHead, ubs)
  OBVIOUS
<1>5. try \in Tries /\ AllPlaced(try, ubs, Len(ubs))
  BY <1>3, <1>4, TryAllIs, UpdatedIs DEF KvInv
<1>6. PICK prep : prep = [ok |-> try.ok, idxs |-> try.idxs, c |-> TakeBack(try)]
  OBVIOUS
<1>7. prep = Prepare(Updated, kvHead, ubs)
  BY <1>4, <1>6 DEF Prepare
<1>8. prep.c \in Fresh /\ prep.idxs = try.idxs /\ prep.ok = try.ok
  BY <1>5, <1>6, TakeBackIs
<1>9. rotated' = cells'.pos
  BY DEF Decode
<1>10. ASSUME prep.ok PROVE Len(prep.idxs) = Len(ubs) /\ \A u \in 1..Len(ubs) :
                /\ ubs[u] \in Seq(KvTokens) /\ prep.idxs[u] \in Seq(Cells)
                /\ Len(prep.idxs[u]) = Len(ubs[u]) /\ prep.idxs[u] \in Places
  <2>1. Len(prep.idxs) = Len(ubs) /\ \A u \in 1..Len(ubs) : Len(prep.idxs[u]) = Len(ubs[u])
    BY <1>5, <1>8, <1>10 DEF AllPlaced
  <2>2. prep.idxs \in Seq(Places)
    BY <1>5, <1>8 DEF Tries
  <2>3. \A u \in 1..Len(ubs) : prep.idxs[u] \in Places /\ ubs[u] \in Ubatch
    BY <1>3, <2>1, <2>2
  <2> QED BY <2>1, <2>3 DEF Places, Ubatch
<1>11. CASE ~prep.ok /\ cells' = prep.c /\ ret' = 1 /\ UNCHANGED kvHead
  <2>1. kvHead' \in 0..NCells
    BY <1>11 DEF KvInv
  <2> QED BY <1>8, <1>9, <1>11, <2>1, FreshInv
<1>12. CASE prep.ok /\ cells' = Applied(prep, ubs, Len(ubs)) /\ kvHead' = NextHead(Last(prep.idxs)) /\ ret' = 0
  <2>1. Len(ubs) \in Nat
    BY <1>3
  <2>2. Applied(prep, ubs, Len(ubs)) \in Fresh
    BY <1>8, <1>10, <1>12, <2>1, AppliedIs
  <2>3. Last(prep.idxs) \in Places
    BY <1>3, <1>10, <1>12 DEF Last
  <2>4. kvHead' \in 0..NCells
    BY <1>12, <2>3, NextHeadIs
  <2> QED BY <1>9, <1>12, <2>2, <2>4, FreshInv
<1>13. CASE /\ prep.ok
            /\ \E bad \in 1..Len(ubs), first \in S :
                 LET placed == Applied(prep, ubs, bad)
                     left == AllSeqRm(placed, first, ubs[bad][1].pos, MaxPos + 1)
                 IN  /\ cells' = left
                     /\ kvHead' = HeadAfter(NextHead(prep.idxs[bad]), placed, left)
            /\ ret' = -3
  <2>1. PICK bad \in 1..Len(ubs), first \in S :
                 LET placed == Applied(prep, ubs, bad)
                     left == AllSeqRm(placed, first, ubs[bad][1].pos, MaxPos + 1)
                 IN  /\ cells' = left
                     /\ kvHead' = HeadAfter(NextHead(prep.idxs[bad]), placed, left)
    BY <1>13
  <2>2. PICK placed : placed = Applied(prep, ubs, bad)
    OBVIOUS
  <2>3. bad \in Nat /\ \A u \in 1..bad : u \in 1..Len(ubs)
    BY <1>3
  <2>4. placed \in Fresh
    BY <1>8, <1>10, <1>13, <2>2, <2>3, AppliedIs
  <2>5. PICK left : left = AllSeqRm(placed, first, ubs[bad][1].pos, MaxPos + 1)
    OBVIOUS
  <2>6. left \in SoundCells /\ RmDone(placed, left, first, CellsOf(placed, first, ubs[bad][1].pos, MaxPos + 1))
    <3>1. placed \in SoundCells /\ first \in Seqs
      BY <2>4 DEF Fresh
    <3> QED BY <2>5, <3>1, AllSeqRmIs
  <2>7. \A j \in Cells : left.shift[j] = 0
    BY <2>4, <2>6 DEF Fresh, RmDone, CellIs
  <2>8. cells' = left /\ kvHead' = HeadAfter(NextHead(prep.idxs[bad]), placed, left)
    BY <2>1, <2>2, <2>5
  <2>9. kvHead' \in 0..NCells
    <3>1. NextHead(prep.idxs[bad]) \in 0..NCells
      BY <1>10, <1>13, NextHeadIs
    <3> QED BY <2>8, <3>1, HeadAfterIs
  <2> QED BY <1>9, <1>13, <2>6, <2>7, <2>8, <2>9, FreshInv DEF Fresh
<1> QED BY <1>1, <1>7, <1>11, <1>12, <1>13 DEF Decode

LEMMA KvSteps ==
  ASSUME KvInv, [KvNext]_kvVars
  PROVE  KvInv'
<1>1. ASSUME NEW s \in Seqs, NEW p0 \in 0..MaxPos, SeqRemove(s, p0, MaxPos + 1) PROVE KvInv'
  BY <1>1, SeqRemoveKeeps
<1>2. ASSUME NEW s \in Seqs, SeqKeepOnly(s) PROVE KvInv'
  BY <1>2, SeqKeepOnlyKeeps
<1>3. ASSUME NEW a \in Seqs, NEW b \in Seqs, SeqCopy(a, b) PROVE KvInv'
  BY <1>3, SeqCopyKeeps
<1>4. ASSUME NEW s \in Seqs, NEW p0 \in 1..MaxPos, NEW d \in 1..2, SeqShift(s, p0, d) PROVE KvInv'
  BY <1>4, SeqShiftKeeps
<1>5. CASE Clear
  BY <1>5, ClearKeeps
<1>6. ASSUME NEW s \in Seqs, NEW n \in 1..MaxStore, StateRead(s, n) PROVE KvInv'
  BY <1>6, StateReadKeeps
<1>7. ASSUME NEW S \in (SUBSET Seqs) \ {{}}, NEW n \in 1..MaxStore, Decode(S, n) PROVE KvInv'
  BY <1>7, DecodeKeepsInv
<1>8. CASE UNCHANGED kvVars
  BY <1>8 DEF kvVars, KvInv, ShiftIsDelta, IsEmpty
<1> QED BY <1>1, <1>2, <1>3, <1>4, <1>5, <1>6, <1>7, <1>8 DEF KvNext

LEMMA KvInvGives == KvInv => KvConsistent
<1> SUFFICES ASSUME KvInv PROVE KvConsistent
  OBVIOUS
<1>1. cells \in SoundCells /\ cells \in CellsRec /\ Exact(cells) /\ Settled(cells) /\ MaxPos \in Nat
  BY CacheAssumption DEF KvInv, SoundCells
<1>2. KvTypeOK
  <2>1. cells.pos \in [Cells -> -1..MaxPos] /\ cells.seq \in [Cells -> SUBSET Seqs]
    BY <1>1 DEF CellsRec, Settled
  <2>2. ASSUME NEW i \in Cells PROVE cells.shift[i] \in -MaxPos..0
    <3>1. cells.shift[i] \in Int /\ cells.shift[i] <= 0 /\ rotated[i] \in -1..MaxPos /\ cells.pos[i] \in -1..MaxPos
      BY <1>1 DEF CellsRec, Settled, KvInv
    <3>2. CASE IsEmpty(cells, i)
      BY <1>1, <3>2 DEF Settled
    <3>3. CASE ~IsEmpty(cells, i)
      BY <1>1, <3>1, <3>3 DEF KvInv, ShiftIsDelta, IsEmpty
    <3> QED BY <3>2, <3>3
  <2> QED BY <2>1, <2>2 DEF KvTypeOK, KvInv
<1>3. CountersExact
  BY <1>1 DEF CountersExact, Exact, Settled, At
<1>4. OperationsAgree
  <2>1. ASSUME NEW s \in Seqs PROVE MemOf(AllSeqKeep(cells, s)) = Keep(MemOf(cells), s)
    BY <1>1, KeepAgrees
  <2>2. ASSUME NEW s \in Seqs, NEW t \in Seqs, Entries(MemOf(cells), t) = {}
        PROVE  MemOf(AllSeqCp(cells, s, t)) = Cp(MemOf(cells), s, t)
    BY <1>1, <2>2, CpAgrees
  <2>3. ASSUME NEW s \in Seqs, NEW p0 \in 0..MaxPos, NEW p1 \in {p0 + 1, MaxPos + 1}
        PROVE  /\ MemOf(AllSeqRm(cells, s, p0, p1)) = Rm(MemOf(cells), s, p0, p1)
               /\ MemOf(AllPosAdd(cells, s, p0, p1, -2)) = Shift(MemOf(cells), s, p0, p1, -2)
    <3>1. p0 \in Int /\ p1 \in Int /\ -2 \in Int /\ -2 <= 0
      BY <1>1
    <3> QED BY <1>1, <3>1, RmAgrees, ShiftAgrees
  <2> QED BY <2>1, <2>2, <2>3 DEF OperationsAgree
<1> QED BY <1>2, <1>3, <1>4 DEF KvConsistent, KvInv

\* The cells, their counters and the pending shifts agree (llama_kv_cells,
\* prepare and apply_ubatch in llama-kv-cache.cpp), and every operation does to
\* them what KvMemory says, in every state that decodes, failed searches, shifts
\* and restored sequences can lead to.
THEOREM KvCorrect == KvSpec => []KvConsistent
<1>1. KvInit => KvInv
  BY KvStarts
<1>2. KvInv /\ [KvNext]_kvVars => KvInv'
  BY KvSteps
<1>3. KvInv => KvConsistent
  BY KvInvGives
<1> QED BY <1>1, <1>2, <1>3, PTL DEF KvSpec
=============================================================================
