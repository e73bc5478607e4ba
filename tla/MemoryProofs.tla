---------------------------- MODULE MemoryProofs ----------------------------
(***************************************************************************)
(* Proofs about the memory of a model server: the prompt cache, and the    *)
(* batches of update_slots with the KV cache.                              *)
(*                                                                         *)
(* The loops over slots and tokens are folds, shown by the lemmas of       *)
(* KvProofs.  Each loop has its relation - Erased, ReleasedIn, Shifted,    *)
(* Added, Copied, Activated, SampledTo - and the actions are shown from    *)
(* those.                                                                  *)
(***************************************************************************)
EXTENDS MCServerBatch, KvProofs, FiniteSetTheorems, WellFoundedInduction, SequenceTheorems, TLAPS

-----------------------------------------------------------------------------
(* The prompt cache.                                                        *)

Tokens == Seq(Int)
SlotPrompt == [toks : Tokens, mem : Tokens, task : Tokens]
CacheEntry == [toks : Tokens, data : Tokens]
Caches == [prompts : [PromptSlots -> SlotPrompt], states : Seq(CacheEntry), limit : Nat]

\* What MemoryIsOfTokens and NoEntryContained say, of any cache.
TrueCopies(c) ==
  /\ \A s \in PromptSlots : c.prompts[s].mem = c.prompts[s].toks
  /\ \A j \in 1..Len(c.states) : c.states[j].data = c.states[j].toks
NoneContained(q) == \A j, k \in 1..Len(q) : j # k => ~IsPrefix(q[j].toks, q[k].toks)
SoundCache(c) == c \in Caches /\ TrueCopies(c) /\ NoneContained(c.states)

\* What WithinLimits says.
InLimits(c) ==
  /\ Len(c.states) <= 1 \/ CacheSize(c.states) <= (IF c.limit > KvSize THEN c.limit ELSE KvSize)
  /\ Len(c.states) <= 1 \/ c.limit = 0 \/ CacheSize(c.states) <= c.limit

LEMMA SizeIsNat == ASSUME NEW q \in Seq(CacheEntry) PROVE CacheSize(q) \in Nat
<1> DEFINE S == DOMAIN q
           ch == [s \in NonEmpty(S) |-> Max(s)]
           F == [p \in NonEmpty(S) \X Nat |-> p[2] + Len(q[Max(p[1])].toks)]
           iter == CHOOSE h : h = [s \in SUBSET S |->
                     IF s = {} THEN 0 ELSE h[s \ {Max(s)}] + Len(q[Max(s)].toks)]
<1>1. S = 1..Len(q) /\ Len(q) \in Nat
  OBVIOUS
<1>2. Chooses(ch, S)
  BY <1>1, LastOf
<1>3. ASSUME NEW s \in NonEmpty(S) PROVE Len(q[Max(s)].toks) \in Nat
  <2>1. Max(s) \in S
    BY <1>2 DEF Chooses, NonEmpty
  <2>2. q[Max(s)] \in CacheEntry
    BY <1>1, <2>1
  <2> QED BY <2>2 DEF CacheEntry, Tokens
<1>4. \A s \in NonEmpty(S), v \in Nat : F[<<s, v>>] \in Nat
  BY <1>3
<1>5. PICK g : IsFold(g, S, Nat, 0, ch, F)
  <2> HIDE DEF F, ch, S
  <2> QED BY <1>2, <1>4, FoldExists
<1>6. g = [s \in SUBSET S |-> IF s = {} THEN 0 ELSE g[s \ {Max(s)}] + Len(q[Max(s)].toks)]
  BY <1>5 DEF IsFold, NonEmpty
<1>7. iter = [s \in SUBSET S |->
                IF s = {} THEN 0 ELSE iter[s \ {Max(s)}] + Len(q[Max(s)].toks)]
  BY <1>6
<1>8. CacheSize(q) = iter[S]
  BY DEF CacheSize, FoldLeft, MapThenFoldSet
<1> HIDE DEF iter
<1> DEFINE G == {s \in SUBSET S : iter[s] \in Nat}
<1>9. Inductive(G, S, ch)
  <2>1. {} \in G
    BY <1>7
  <2>2. ASSUME NEW s \in NonEmpty(S), s \ {ch[s]} \in G PROVE s \in G
    <3>1. s \in SUBSET S /\ s # {} /\ s \ {Max(s)} \in SUBSET S /\ ch[s] = Max(s)
      BY DEF NonEmpty
    <3>2. iter[s] = iter[s \ {Max(s)}] + Len(q[Max(s)].toks)
      BY <1>7, <3>1
    <3> QED BY <1>3, <2>2, <3>1, <3>2
  <2> QED BY <2>1, <2>2 DEF Inductive
<1>10. S \in G
  <2> HIDE DEF G, ch, S
  <2> QED BY <1>2, <1>9, ByChoice
<1> QED BY <1>8, <1>10

\* The longest common prefix is all of a if a is a prefix of b.
LEMMA LcpRange ==
  ASSUME NEW a \in Tokens, NEW b \in Tokens
  PROVE  /\ Lcp(a, b) \in 0..Len(a) /\ Lcp(a, b) <= Len(b)
         /\ SubSeq(a, 1, Lcp(a, b)) = SubSeq(b, 1, Lcp(a, b))
         /\ \A n \in 0..Len(a) :
              n <= Len(b) /\ SubSeq(a, 1, n) = SubSeq(b, 1, n) => n <= Lcp(a, b)
<1> DEFINE C == {n \in 0..Min({Len(a), Len(b)}) : SubSeq(a, 1, n) = SubSeq(b, 1, n)}
<1>1. Len(a) \in Nat /\ Len(b) \in Nat
  BY DEF Tokens
<1>2. Min({Len(a), Len(b)}) \in {Len(a), Len(b)} /\ Min({Len(a), Len(b)}) <= Len(a)
      /\ Min({Len(a), Len(b)}) <= Len(b)
  <2>1. Len(a) \in Int /\ Len(b) \in Int
    BY <1>1
  <2> QED BY <2>1, LeastOfTwo
<1>3. 0 \in C
  <2>1. SubSeq(a, 1, 0) = <<>> /\ SubSeq(b, 1, 0) = <<>>
    BY DEF Tokens
  <2> QED BY <1>1, <1>2, <2>1
<1>4. C \in SUBSET Int /\ IsFiniteSet(C)
  <2>1. Min({Len(a), Len(b)}) \in Int /\ 0 \in Int
    BY <1>1, <1>2
  <2>2. C \subseteq 0..Min({Len(a), Len(b)})
    OBVIOUS
  <2> HIDE DEF C
  <2> QED BY <2>1, <2>2, BoundedFinite
<1>6. Max(C) \in C /\ \A n \in C : n <= Max(C)
  <2> HIDE DEF C
  <2>1. Max(C) \in C /\ \A n \in C : Max(C) >= n
    BY <1>3, <1>4, MaxIs
  <2> QED BY <1>4, <2>1
<1>7. Lcp(a, b) = Max(C)
  BY DEF Lcp
<1> DEFINE m == Min({Len(a), Len(b)})
           x == Max(C)
<1>8. x \in 0..m /\ SubSeq(a, 1, x) = SubSeq(b, 1, x)
  BY <1>6
<1>9. \A n \in 0..Len(a) : n <= Len(b) /\ SubSeq(a, 1, n) = SubSeq(b, 1, n) => n \in C
  BY <1>1, <1>2
<1>10. \A n \in 0..Len(a) : n <= Len(b) /\ SubSeq(a, 1, n) = SubSeq(b, 1, n) => n <= x
  BY <1>6, <1>9
<1> HIDE DEF C, m, x
<1>11. m <= Len(a) /\ m <= Len(b) /\ m \in Nat
  BY <1>1, <1>2 DEF m
<1>12. Lcp(a, b) = x
  BY <1>7 DEF x
<1> QED BY <1>1, <1>8, <1>10, <1>11, <1>12

LEMMA LcpWhole ==
  ASSUME NEW a \in Tokens, NEW b \in Tokens
  PROVE  /\ Lcp(a, b) = Len(a) <=> IsPrefix(a, b)
         /\ Lcp(b, a) = Len(a) <=> IsPrefix(a, b)
<1>1. Len(a) \in Nat /\ Len(b) \in Nat
  BY DEF Tokens
<1>2. ASSUME IsPrefix(a, b) PROVE Lcp(a, b) = Len(a) /\ Lcp(b, a) = Len(a)
  <2>1. Len(a) <= Len(b) /\ SubSeq(a, 1, Len(a)) = SubSeq(b, 1, Len(a))
    BY <1>2 DEF IsPrefix
  <2>2. Lcp(a, b) \in 0..Len(a) /\ Len(a) <= Lcp(a, b)
    BY <1>1, <2>1, LcpRange
  <2>3. Lcp(b, a) \in 0..Len(b) /\ Lcp(b, a) <= Len(a) /\ Len(a) <= Lcp(b, a)
    BY <1>1, <2>1, LcpRange
  <2> QED BY <1>1, <2>2, <2>3
<1>3. ASSUME Lcp(a, b) = Len(a) PROVE IsPrefix(a, b)
  BY <1>1, <1>3, LcpRange DEF IsPrefix
<1>4. ASSUME Lcp(b, a) = Len(a) PROVE IsPrefix(a, b)
  <2>1. Lcp(b, a) <= Len(b) /\ SubSeq(b, 1, Lcp(b, a)) = SubSeq(a, 1, Lcp(b, a))
    BY <1>1, LcpRange
  <2> QED BY <1>4, <2>1 DEF IsPrefix
<1> QED BY <1>2, <1>3, <1>4

-----------------------------------------------------------------------------
(* The operations keep the entries and the slots true.                      *)

LEMMA BestRange ==
  ASSUME NEW q \in Seq(CacheEntry), NEW own \in Tokens, NEW t \in Tokens
  PROVE  Best(q, own, t) \in 0..Len(q)
<1> DEFINE n == Len(q)
           id == [k \in 1..Len(q) |-> k]
           S == DOMAIN id
           V == 0..n
           ch == [s \in NonEmpty(S) |-> Max(s)]
           op(best, k) == IF Better(q[k].toks, IF best = 0 THEN own ELSE q[best].toks, t) THEN k ELSE best
           F == [p \in NonEmpty(S) \X V |-> op(p[2], id[Max(p[1])])]
           iter == CHOOSE h : h = [s \in SUBSET S |->
                     IF s = {} THEN 0 ELSE op(h[s \ {Max(s)}], id[Max(s)])]
<1>1. S = 1..n /\ n \in Nat
  OBVIOUS
<1>2. Chooses(ch, S)
  BY <1>1, LastOf
<1>3. ASSUME NEW s \in NonEmpty(S) PROVE id[Max(s)] \in V
  <2>1. Max(s) \in S
    BY <1>2 DEF Chooses, NonEmpty
  <2> QED BY <1>1, <2>1
<1>4. \A s \in NonEmpty(S), v \in V : F[<<s, v>>] \in V
  BY <1>3
<1>5. PICK g : IsFold(g, S, V, 0, ch, F)
  <2>1. 0 \in V
    BY <1>1
  <2> HIDE DEF F, ch, S, V
  <2> QED BY <1>2, <1>4, <2>1, FoldExists
<1>6. g = [s \in SUBSET S |-> IF s = {} THEN 0 ELSE op(g[s \ {Max(s)}], id[Max(s)])]
  BY <1>5 DEF IsFold, NonEmpty
<1>7. iter = [s \in SUBSET S |-> IF s = {} THEN 0 ELSE op(iter[s \ {Max(s)}], id[Max(s)])]
  BY <1>6
<1>8. Best(q, own, t) = iter[S]
  BY DEF Best, FoldLeft, MapThenFoldSet
<1> HIDE DEF iter
<1> DEFINE G == {s \in SUBSET S : iter[s] \in V}
<1>9. Inductive(G, S, ch)
  <2>1. {} \in G
    BY <1>1, <1>7
  <2>2. ASSUME NEW s \in NonEmpty(S), s \ {ch[s]} \in G PROVE s \in G
    <3>1. s \in SUBSET S /\ s # {} /\ s \ {Max(s)} \in SUBSET S /\ ch[s] = Max(s)
      BY DEF NonEmpty
    <3>2. iter[s] = op(iter[s \ {Max(s)}], id[Max(s)])
      BY <1>7, <3>1
    <3> QED BY <1>3, <2>2, <3>1, <3>2
  <2> QED BY <2>1, <2>2 DEF Inductive
<1>10. S \in G
  <2> HIDE DEF G, ch, S
  <2> QED BY <1>2, <1>9, ByChoice
<1> QED BY <1>8, <1>10

LEMMA UncoveredIs ==
  ASSUME NEW q \in Seq(CacheEntry), NEW t \in Tokens, NoneContained(q)
  PROVE  /\ Uncovered(q, t) \in Seq(CacheEntry)
         /\ NoneContained(Uncovered(q, t))
         /\ \A m \in 1..Len(Uncovered(q, t)) :
              \E j \in 1..Len(q) : Uncovered(q, t)[m] = q[j] /\ ~IsPrefix(q[j].toks, t)
<1> DEFINE S == DOMAIN q
           V == Seq(CacheEntry)
           ch == [s \in NonEmpty(S) |-> Max(s)]
           op(r, e) == IF Lcp(e.toks, t) = Len(e.toks) THEN r ELSE Append(r, e)
           F == [p \in NonEmpty(S) \X V |-> op(p[2], q[Max(p[1])])]
           iter == CHOOSE h : h = [s \in SUBSET S |->
                     IF s = {} THEN <<>> ELSE op(h[s \ {Max(s)}], q[Max(s)])]
<1>1. S = 1..Len(q) /\ Len(q) \in Nat
  OBVIOUS
<1>2. Chooses(ch, S)
  BY <1>1, LastOf
<1>3. ASSUME NEW s \in NonEmpty(S) PROVE Max(s) \in s /\ q[Max(s)] \in CacheEntry
  <2>1. Max(s) \in s /\ Max(s) \in S
    BY <1>2 DEF Chooses, NonEmpty
  <2> QED BY <1>1, <2>1
<1>4. \A s \in NonEmpty(S), v \in V : F[<<s, v>>] \in V
  BY <1>3
<1>5. PICK g : IsFold(g, S, V, <<>>, ch, F)
  <2>1. <<>> \in V
    OBVIOUS
  <2> HIDE DEF F, ch, S, V
  <2> QED BY <1>2, <1>4, <2>1, FoldExists
<1>6. g = [s \in SUBSET S |-> IF s = {} THEN <<>> ELSE op(g[s \ {Max(s)}], q[Max(s)])]
  BY <1>5 DEF IsFold, NonEmpty
<1>7. iter = [s \in SUBSET S |-> IF s = {} THEN <<>> ELSE op(iter[s \ {Max(s)}], q[Max(s)])]
  BY <1>6
<1>8. Uncovered(q, t) = iter[S]
  BY DEF Uncovered, FoldLeft, MapThenFoldSet
<1> HIDE DEF iter
<1> DEFINE From(r, s) == \A m \in 1..Len(r) : \E j \in s : r[m] = q[j] /\ ~IsPrefix(q[j].toks, t)
           G == {s \in SUBSET S : iter[s] \in V /\ NoneContained(iter[s]) /\ From(iter[s], s)}
<1>9. Inductive(G, S, ch)
  <2>1. {} \in G
    <3>1. iter[{}] = <<>> /\ <<>> \in V /\ Len(<<>>) = 0
      BY <1>7
    <3> HIDE DEF V
    <3> QED BY <3>1 DEF NoneContained
  <2>2. ASSUME NEW s \in NonEmpty(S), s \ {ch[s]} \in G PROVE s \in G
    <3> DEFINE k == Max(s)
               r == iter[s \ {k}]
    <3>1. s \in SUBSET S /\ s # {} /\ s \ {k} \in SUBSET S /\ ch[s] = k
      BY DEF NonEmpty
    <3>2. iter[s] = op(r, q[k])
      BY <1>7, <3>1
    <3>3. k \in s /\ k \in 1..Len(q) /\ q[k] \in CacheEntry /\ q[k].toks \in Tokens
      BY <1>1, <1>3, <3>1 DEF CacheEntry
    <3>4. r \in V /\ NoneContained(r) /\ From(r, s \ {k})
      BY <2>2, <3>1
    <3> HIDE DEF k, r, V
    <3>5. CASE Lcp(q[k].toks, t) = Len(q[k].toks)
      BY <3>1, <3>2, <3>4, <3>5
    <3>6. CASE Lcp(q[k].toks, t) # Len(q[k].toks)
      <4>1. iter[s] = Append(r, q[k]) /\ ~IsPrefix(q[k].toks, t)
        BY <3>2, <3>3, <3>6, LcpWhole
      <4>2. Append(r, q[k]) \in V /\ Len(Append(r, q[k])) = Len(r) + 1 /\ Len(r) \in Nat
            /\ Append(r, q[k])[Len(r) + 1] = q[k]
            /\ \A m \in 1..Len(r) : Append(r, q[k])[m] = r[m]
        BY <3>3, <3>4 DEF V
      <4>3. From(iter[s], s)
        BY <3>1, <3>3, <3>4, <4>1, <4>2
      <4>4. ASSUME NEW m \in 1..Len(r)
            PROVE  ~IsPrefix(r[m].toks, q[k].toks) /\ ~IsPrefix(q[k].toks, r[m].toks)
        <5>1. PICK j \in s \ {k} : r[m] = q[j]
          BY <3>4
        <5>2. j \in 1..Len(q) /\ j # k
          BY <1>1, <3>1, <5>1
        <5> QED BY <3>3, <5>1, <5>2 DEF NoneContained
      <4>5. NoneContained(iter[s])
        BY <3>4, <4>1, <4>2, <4>4 DEF NoneContained
      <4> QED BY <3>1, <4>1, <4>2, <4>3, <4>5
    <3> QED BY <3>5, <3>6
  <2> QED BY <2>1, <2>2 DEF Inductive
<1>10. S \in G
  <2> HIDE DEF G, ch, S
  <2> QED BY <1>2, <1>9, ByChoice
<1>11. iter[S] \in V /\ NoneContained(iter[S]) /\ From(iter[S], S)
  BY <1>10
<1> HIDE DEF V
<1>12. Uncovered(q, t) \in V /\ NoneContained(Uncovered(q, t)) /\ From(Uncovered(q, t), 1..Len(q))
  BY <1>1, <1>8, <1>11
<1> QED BY <1>12 DEF V

\* What is left is the end of the queue, all of it if that was small enough.
LEMMA DropOldestIs ==
  ASSUME NEW q \in Seq(CacheEntry), NEW max \in Nat
  PROVE  LET d == DropOldest(q, max)
         IN  /\ \E k \in 0..Len(q) : d = SubSeq(q, k + 1, Len(q))
             /\ Len(d) <= 1 \/ CacheSize(d) <= max
             /\ Len(q) <= 1 \/ CacheSize(q) <= max => d = q
<1> DEFINE fits == {k \in 0..Len(q) : k >= Len(q) - 1 \/ CacheSize(SubSeq(q, k + 1, Len(q))) <= max}
           k == Min(fits)
           d == DropOldest(q, max)
<1>1. Len(q) \in Nat /\ SubSeq(q, 1, Len(q)) = q
  OBVIOUS
<1>2. CASE q = <<>>
  <2>1. d = q
    BY <1>2 DEF DropOldest
  <2>2. d = SubSeq(q, 0 + 1, Len(q)) /\ 0 \in 0..Len(q)
    BY <1>1, <2>1
  <2> QED BY <1>1, <1>2, <2>1, <2>2
<1>3. CASE q # <<>>
  <2>1. Len(q) \in fits
    BY <1>1
  <2>2. k \in fits /\ \A j \in fits : k <= j
    <3>1. fits \subseteq 0..Len(q) /\ 0 \in Int /\ Len(q) \in Int
      BY <1>1
    <3> HIDE DEF fits
    <3>2. fits \in SUBSET Int /\ IsFiniteSet(fits)
      BY <3>1, BoundedFinite
    <3> QED BY <2>1, <3>2, MinIs
  <2>3. d = SubSeq(q, k + 1, Len(q))
    BY <1>3 DEF DropOldest
  <2>4. k \in 0..Len(q) /\ (k >= Len(q) - 1 \/ CacheSize(SubSeq(q, k + 1, Len(q))) <= max)
    BY <2>2
  <2>5. ASSUME Len(q) <= 1 \/ CacheSize(q) <= max PROVE k = 0
    <3>1. 0 \in 0..Len(q) /\ SubSeq(q, 0 + 1, Len(q)) = q
      BY <1>1
    <3>2. 0 >= Len(q) - 1 \/ CacheSize(SubSeq(q, 0 + 1, Len(q))) <= max
      <4>1. CASE Len(q) <= 1
        BY <1>1, <4>1
      <4>2. CASE CacheSize(q) <= max
        BY <3>1, <4>2
      <4> QED BY <2>5, <4>1, <4>2
    <3>3. 0 \in fits
      BY <3>1, <3>2
    <3> HIDE DEF fits
    <3> QED BY <2>2, <2>4, <3>3
  <2> HIDE DEF k, d
  <2>6. Len(d) <= 1 \/ CacheSize(d) <= max
    <3>1. CASE k >= Len(q) - 1
      <4>1. Len(SubSeq(q, k + 1, Len(q))) = IF k + 1 <= Len(q) THEN Len(q) - k ELSE 0
        BY <1>1, <2>4
      <4> QED BY <1>1, <2>3, <2>4, <3>1, <4>1
    <3> QED BY <2>3, <2>4, <3>1
  <2>7. Len(q) <= 1 \/ CacheSize(q) <= max => d = q
    BY <1>1, <2>3, <2>5
  <2> QED BY <2>3, <2>4, <2>6, <2>7 DEF d
<1> QED BY <1>2, <1>3

\* A part of the entries is as sound as all.
LEMMA PartIsSound ==
  ASSUME NEW c, SoundCache(c), NEW k \in 0..Len(c.states)
  PROVE  SoundCache([c EXCEPT !.states = SubSeq(c.states, k + 1, Len(c.states))])
<1> DEFINE q == c.states
           e == SubSeq(q, k + 1, Len(q))
<1>1. c \in Caches /\ q \in Seq(CacheEntry) /\ Len(q) \in Nat
  BY DEF SoundCache, Caches
<1>2. e \in Seq(CacheEntry) /\ Len(e) \in Nat /\ \A m \in 1..Len(e) : k + m \in 1..Len(q) /\ e[m] = q[k + m]
  BY <1>1
<1>3. [c EXCEPT !.states = e] \in Caches
  BY <1>1, <1>2 DEF Caches
<1>4. [c EXCEPT !.states = e].states = e /\ [c EXCEPT !.states = e].prompts = c.prompts
  BY <1>1 DEF Caches
<1> HIDE DEF e
<1>5. TrueCopies([c EXCEPT !.states = e])
  <2>1. ASSUME NEW m \in 1..Len(e) PROVE e[m].data = e[m].toks
    BY <1>2 DEF SoundCache, TrueCopies
  <2> QED BY <1>4, <2>1 DEF SoundCache, TrueCopies
<1>6. NoneContained(e)
  <2> SUFFICES ASSUME NEW m \in 1..Len(e), NEW n \in 1..Len(e), m # n
               PROVE  ~IsPrefix(e[m].toks, e[n].toks)
    BY DEF NoneContained
  <2>1. k + m \in 1..Len(q) /\ k + n \in 1..Len(q) /\ k + m # k + n
    BY <1>2
  <2>2. e[m] = q[k + m] /\ e[n] = q[k + n]
    BY <1>2
  <2>3. NoneContained(q)
    BY DEF SoundCache
  <2> QED BY <2>1, <2>2, <2>3 DEF NoneContained
<1>7. SoundCache([c EXCEPT !.states = e])
  BY <1>3, <1>4, <1>5, <1>6 DEF SoundCache
<1> QED BY <1>7 DEF e

LEMMA UpdateKeeps ==
  ASSUME NEW c, SoundCache(c)
  PROVE  /\ SoundCache(UpdateCache(c)) /\ InLimits(UpdateCache(c))
         /\ UpdateCache(c).prompts = c.prompts
<1> DEFINE q == c.states
           bound == IF c.limit > KvSize THEN c.limit ELSE KvSize
           r == IF c.limit > 0 THEN DropOldest(q, c.limit) ELSE q
           d == DropOldest(r, bound)
           u == [c EXCEPT !.states = d]
<1>1. c \in Caches /\ q \in Seq(CacheEntry) /\ Len(q) \in Nat /\ c.limit \in Nat /\ bound \in Nat
      /\ SubSeq(q, 1, Len(q)) = q
  BY PromptCacheAssumption DEF SoundCache, Caches
<1>2. UpdateCache(c) = u
  BY DEF UpdateCache
<1>3. PICK k \in 0..Len(q) : r = SubSeq(q, k + 1, Len(q))
  <2>1. CASE c.limit > 0
    BY <1>1, <2>1, DropOldestIs
  <2>2. CASE ~(c.limit > 0)
    <3>1. r = SubSeq(q, 0 + 1, Len(q)) /\ 0 \in 0..Len(q)
      BY <1>1, <2>2
    <3> QED BY <3>1
  <2> QED BY <2>1, <2>2
<1>4. r \in Seq(CacheEntry) /\ Len(r) \in Nat
  <2>1. SubSeq(q, k + 1, Len(q)) \in Seq(CacheEntry)
    BY <1>1
  <2> HIDE DEF r
  <2> QED BY <1>3, <2>1
<1>5. c.limit > 0 => Len(r) <= 1 \/ CacheSize(r) <= c.limit
  BY <1>1, DropOldestIs
<1> DEFINE x == [c EXCEPT !.states = r]
<1>6. SoundCache(x) /\ x.states = r
  BY <1>1, <1>3, PartIsSound DEF Caches
<1> HIDE DEF r
<1>7. /\ \E j \in 0..Len(r) : d = SubSeq(r, j + 1, Len(r))
      /\ Len(d) <= 1 \/ CacheSize(d) <= bound
      /\ Len(r) <= 1 \/ CacheSize(r) <= bound => d = r
  BY <1>1, <1>4, DropOldestIs
<1>8. PICK j \in 0..Len(r) : d = SubSeq(r, j + 1, Len(r))
  BY <1>7
<1>9. u = [x EXCEPT !.states = SubSeq(r, j + 1, Len(r))]
  BY <1>1, <1>8 DEF Caches
<1>10. SoundCache(u)
  BY <1>6, <1>8, <1>9, PartIsSound
<1>11. u.states = d /\ u.limit = c.limit /\ u.prompts = c.prompts
  BY <1>1 DEF Caches
<1> HIDE DEF d, u
<1>12. c.limit > 0 => d = r
  <2> SUFFICES ASSUME c.limit > 0 PROVE Len(r) <= 1 \/ CacheSize(r) <= bound
    BY <1>7
  <2>1. CacheSize(r) \in Nat
    BY <1>4, SizeIsNat
  <2> QED BY <1>1, <1>5, <2>1
<1>13. InLimits(u)
  <2>1. Len(d) <= 1 \/ CacheSize(d) <= bound
    BY <1>7
  <2>2. Len(d) <= 1 \/ c.limit = 0 \/ CacheSize(d) <= c.limit
    BY <1>1, <1>5, <1>12
  <2> QED BY <1>11, <2>1, <2>2 DEF InLimits
<1> QED BY <1>2, <1>10, <1>11, <1>13

LEMMA SaveKeeps ==
  ASSUME NEW c, SoundCache(c), NEW s \in PromptSlots, NEW ok \in BOOLEAN
  PROVE  SoundCache(Save(c, s, ok)) /\ Save(c, s, ok).prompts = c.prompts
<1> DEFINE old == c.prompts[s]
           q == c.states
           kept == Uncovered(q, old.toks)
           e == [toks |-> old.toks, data |-> old.mem]
           known == old.toks = <<>> \/ \E x \in Range(q) : Lcp(x.toks, old.toks) = Len(old.toks)
           n == Max({1, (2 * CacheSize(kept)) \div 5})
           y == [c EXCEPT !.states = kept, !.limit = n]
           z == [c EXCEPT !.states = Append(kept, e)]
<1>1. /\ c \in Caches /\ q \in Seq(CacheEntry) /\ Len(q) \in Nat
      /\ old \in SlotPrompt /\ old.toks \in Tokens /\ old.mem = old.toks
  BY DEF SoundCache, Caches, SlotPrompt, TrueCopies
<1>2. e \in CacheEntry /\ e.data = e.toks /\ e.toks = old.toks
  BY <1>1 DEF CacheEntry
<1>3. Save(c, s, ok) = IF known THEN c ELSE IF ok THEN z ELSE UpdateCache(y)
  BY DEF Save
<1>4. /\ kept \in Seq(CacheEntry) /\ NoneContained(kept)
      /\ \A m \in 1..Len(kept) : \E j \in 1..Len(q) : kept[m] = q[j] /\ ~IsPrefix(q[j].toks, old.toks)
  BY <1>1, UncoveredIs DEF SoundCache
<1>5. Len(kept) \in Nat
  BY <1>4
<1> HIDE DEF kept
<1>6. \A m \in 1..Len(kept) : kept[m].data = kept[m].toks
  BY <1>4 DEF SoundCache, TrueCopies
<1>7. n \in Nat
  <2>1. CacheSize(kept) \in Nat
    BY <1>4, SizeIsNat
  <2> DEFINE v == (2 * CacheSize(kept)) \div 5
  <2>2. v \in Int /\ 1 \in Int
    BY <2>1
  <2>3. {1, v} \in SUBSET Int /\ {1, v} # {} /\ {1, v} = {1} \cup {v}
    BY <2>2
  <2>4. IsFiniteSet({1, v})
    <3>1. IsFiniteSet({1}) /\ IsFiniteSet({v})
      BY FS_Singleton
    <3>2. IsFiniteSet({1} \cup {v})
      BY <3>1, FS_Union
    <3> QED BY <2>3, <3>2
  <2>5. Max({1, v}) \in {1, v} /\ Max({1, v}) >= 1
    BY <2>3, <2>4, MaxIs
  <2> HIDE DEF v
  <2>6. Max({1, v}) \in Nat
    BY <2>2, <2>5
  <2> QED BY <2>6 DEF v
<1>8. SoundCache(y) /\ y.prompts = c.prompts
  <2>1. y \in Caches /\ y.states = kept /\ y.prompts = c.prompts
    BY <1>1, <1>4, <1>7 DEF Caches
  <2> QED BY <1>4, <1>6, <2>1 DEF SoundCache, TrueCopies
<1>9. SoundCache(UpdateCache(y)) /\ UpdateCache(y).prompts = c.prompts
  <2> HIDE DEF y
  <2> QED BY <1>8, UpdateKeeps
<1>10. ASSUME ~known PROVE SoundCache(z) /\ z.prompts = c.prompts
  <2> DEFINE a == Append(kept, e)
  <2>1. a \in Seq(CacheEntry) /\ Len(a) = Len(kept) + 1 /\ a[Len(kept) + 1] = e
        /\ \A m \in 1..Len(kept) : a[m] = kept[m]
    BY <1>2, <1>4
  <2>2. z \in Caches /\ z.states = a /\ z.prompts = c.prompts
    BY <1>1, <2>1 DEF Caches
  <2> HIDE DEF a, z, e
  <2>3. \A m \in 1..Len(a) : a[m].data = a[m].toks
    BY <1>2, <1>5, <1>6, <2>1
  <2>4. ASSUME NEW m \in 1..Len(kept)
        PROVE  ~IsPrefix(kept[m].toks, e.toks) /\ ~IsPrefix(e.toks, kept[m].toks)
    <3>1. PICK j \in 1..Len(q) : kept[m] = q[j] /\ ~IsPrefix(q[j].toks, old.toks)
      BY <1>4
    <3>2. q[j] \in Range(q) /\ q[j].toks \in Tokens
      <4>1. j \in DOMAIN q /\ q[j] \in CacheEntry
        BY <1>1
      <4> QED BY <4>1 DEF Range, CacheEntry
    <3>3. Lcp(q[j].toks, old.toks) # Len(old.toks)
      BY <1>10, <3>2
    <3>4. ~IsPrefix(old.toks, q[j].toks)
      BY <1>1, <3>2, <3>3, LcpWhole
    <3> QED BY <1>2, <3>1, <3>4
  <2>5. NoneContained(a)
    <3> SUFFICES ASSUME NEW m \in 1..Len(a), NEW k \in 1..Len(a), m # k
                 PROVE  ~IsPrefix(a[m].toks, a[k].toks)
      BY DEF NoneContained
    <3>1. CASE m = Len(kept) + 1
      <4>1. k \in 1..Len(kept)
        BY <1>5, <2>1, <3>1
      <4> QED BY <2>1, <2>4, <3>1, <4>1
    <3>2. CASE k = Len(kept) + 1
      <4>1. m \in 1..Len(kept)
        BY <1>5, <2>1, <3>2
      <4> QED BY <2>1, <2>4, <3>2, <4>1
    <3>3. CASE m \in 1..Len(kept) /\ k \in 1..Len(kept)
      BY <1>4, <2>1, <3>3 DEF NoneContained
    <3> QED BY <1>5, <2>1, <3>1, <3>2, <3>3
  <2> QED BY <2>2, <2>3, <2>5 DEF SoundCache, TrueCopies
<1> HIDE DEF y, z, known
<1> QED BY <1>3, <1>9, <1>10

LEMMA LoadKeeps ==
  ASSUME NEW c, SoundCache(c), NEW s \in PromptSlots, NEW t \in Tokens
  PROVE  SoundCache(Load(c, s, t))
<1> DEFINE q == c.states
           k == Best(q, c.prompts[s].toks, t)
           p == [toks |-> q[k].toks, mem |-> q[k].data, task |-> Idle]
           r == SubSeq(q, 1, k - 1) \o SubSeq(q, k + 1, Len(q))
           x == [c EXCEPT !.prompts[s] = p, !.states = r]
           y == [c EXCEPT !.prompts[s] = NoPrompt]
<1>1. /\ c \in Caches /\ q \in Seq(CacheEntry) /\ Len(q) \in Nat
      /\ c.prompts \in [PromptSlots -> SlotPrompt] /\ c.prompts[s].toks \in Tokens
  BY DEF SoundCache, Caches, SlotPrompt
<1>2. k \in 0..Len(q)
  BY <1>1, BestRange
<1>3. Load(c, s, t) = IF k = 0 THEN c
                      ELSE IF Occupied(c, s) + Len(q[k].data) <= KvSize THEN x ELSE y
  BY DEF Load, RemoveAt
<1> HIDE DEF k
<1>4. SoundCache(y)
  <2>1. NoPrompt \in SlotPrompt /\ NoPrompt.mem = NoPrompt.toks
    BY DEF NoPrompt, SlotPrompt, Tokens, Idle
  <2>2. y \in Caches /\ y.states = q /\ y.prompts = [c.prompts EXCEPT ![s] = NoPrompt]
    BY <1>1, <2>1 DEF Caches
  <2> HIDE DEF y
  <2> QED BY <1>1, <2>1, <2>2 DEF SoundCache, TrueCopies
<1>5. ASSUME k # 0 PROVE SoundCache(x)
  <2>1. k \in 1..Len(q) /\ q[k] \in CacheEntry
    BY <1>1, <1>2, <1>5
  <2>2. p \in SlotPrompt /\ p.mem = p.toks
    BY <1>1, <2>1 DEF SlotPrompt, CacheEntry, Tokens, Idle, SoundCache, TrueCopies
  <2>3. /\ r \in Seq(CacheEntry) /\ Len(r) = Len(q) - 1
        /\ \A m \in 1..Len(r) : r[m] = IF m < k THEN q[m] ELSE q[m + 1]
    <3> DEFINE u == SubSeq(q, 1, k - 1)
               w == SubSeq(q, k + 1, Len(q))
    <3>1. u \in Seq(CacheEntry) /\ Len(u) = k - 1 /\ \A m \in 1..k - 1 : u[m] = q[m]
      BY <1>1, <2>1
    <3>2. w \in Seq(CacheEntry) /\ Len(w) = Len(q) - k /\ \A m \in 1..Len(q) - k : w[m] = q[k + m]
      BY <1>1, <2>1
    <3> HIDE DEF u, w
    <3>3. u \o w \in Seq(CacheEntry) /\ Len(u \o w) = Len(q) - 1
      <4>1. u \o w \in Seq(CacheEntry) /\ Len(u \o w) = Len(u) + Len(w)
        BY <3>1, <3>2, ConcatProperties
      <4>2. k - 1 + (Len(q) - k) = Len(q) - 1
        BY <1>1, <2>1
      <4> QED BY <3>1, <3>2, <4>1, <4>2
    <3>4. ASSUME NEW m \in 1..Len(q) - 1 PROVE (u \o w)[m] = IF m < k THEN q[m] ELSE q[m + 1]
      <4>1. CASE m < k
        BY <1>1, <2>1, <3>1, <3>2, <4>1
      <4>2. CASE ~(m < k)
        <5>1. (u \o w)[m] = w[m - (k - 1)]
          <6>1. Len(q) \in Nat /\ k \in Int /\ m \in Int /\ k >= 1
            BY <1>1, <2>1
          <6>2. m > Len(u) /\ m <= Len(u) + Len(w) /\ m \in 1..Len(u) + Len(w)
            BY <6>1, <3>1, <3>2, <4>2
          <6>3. (u \o w)[m] = w[m - Len(u)]
            BY <3>1, <3>2, <6>2, ConcatProperties
          <6> QED BY <3>1, <6>3
        <5>2. m - (k - 1) \in 1..Len(q) - k /\ k + (m - (k - 1)) = m + 1
          BY <1>1, <2>1, <4>2
        <5> QED BY <3>2, <4>2, <5>1, <5>2
      <4> QED BY <4>1, <4>2
    <3>5. r = u \o w
      BY DEF u, w
    <3> HIDE DEF r
    <3> QED BY <3>3, <3>4, <3>5
  <2>4. x \in Caches /\ x.states = r /\ x.prompts = [c.prompts EXCEPT ![s] = p]
    BY <1>1, <2>2, <2>3 DEF Caches
  <2> HIDE DEF x, r, p
  <2>5. \A m \in 1..Len(r) : r[m].data = r[m].toks
    BY <1>1, <2>1, <2>3 DEF SoundCache, TrueCopies
  <2>6. NoneContained(r)
    <3> SUFFICES ASSUME NEW m \in 1..Len(r), NEW n \in 1..Len(r), m # n
                 PROVE  ~IsPrefix(r[m].toks, r[n].toks)
      BY DEF NoneContained
    <3> DEFINE f(i1) == IF i1 < k THEN i1 ELSE i1 + 1
    <3>1. f(m) \in 1..Len(q) /\ f(n) \in 1..Len(q) /\ f(m) # f(n)
      BY <1>1, <2>1, <2>3
    <3>2. r[m] = q[f(m)] /\ r[n] = q[f(n)]
      BY <2>3
    <3> HIDE DEF f
    <3> QED BY <3>1, <3>2 DEF SoundCache, NoneContained
  <2> QED BY <1>1, <2>2, <2>4, <2>5, <2>6 DEF SoundCache, TrueCopies
<1> HIDE DEF x, y
<1> QED BY <1>3, <1>4, <1>5

\* All idle slots saved and cleared, one after the other.
LEMMA SaveIdleKeeps ==
  ASSUME NEW c, SoundCache(c), InLimits(c), NEW ok \in BOOLEAN
  PROVE  SoundCache(SaveIdle(c, ok)) /\ InLimits(SaveIdle(c, ok))
<1> DEFINE id == [s \in PromptSlots |-> s]
           S == DOMAIN id
           V == {d \in Caches : SoundCache(d) /\ InLimits(d)}
           ch == [s \in NonEmpty(S) |-> Max(s)]
           op(d, s) == IF d.prompts[s].task # Idle \/ d.prompts[s].toks = <<>> THEN d
                       ELSE UpdateCache([Save(d, s, ok) EXCEPT !.prompts[s] = NoPrompt])
           F == [p \in NonEmpty(S) \X V |-> op(p[2], id[Max(p[1])])]
           iter == CHOOSE h : h = [s \in SUBSET S |->
                     IF s = {} THEN c ELSE op(h[s \ {Max(s)}], id[Max(s)])]
<1>1. S = 1..NSlotsOfCache /\ NSlotsOfCache \in Nat /\ c \in V
  BY PromptCacheAssumption DEF PromptSlots, SoundCache
<1>2. Chooses(ch, S)
  BY <1>1, LastOf
<1>3. ASSUME NEW d \in V, NEW s \in PromptSlots PROVE op(d, s) \in V
  <2>1. SoundCache(Save(d, s, ok))
    BY SaveKeeps
  <2> DEFINE e == Save(d, s, ok)
             f == [e EXCEPT !.prompts[s] = NoPrompt]
  <2> HIDE DEF e
  <2>2. SoundCache(f)
    <3>1. NoPrompt \in SlotPrompt /\ NoPrompt.mem = NoPrompt.toks
      BY DEF NoPrompt, SlotPrompt, Tokens, Idle
    <3>2. e \in Caches /\ e.prompts \in [PromptSlots -> SlotPrompt]
      BY <2>1 DEF SoundCache, Caches, e
    <3>3. f \in Caches /\ f.states = e.states /\ f.prompts = [e.prompts EXCEPT ![s] = NoPrompt]
      BY <3>1, <3>2 DEF Caches
    <3> HIDE DEF f
    <3> QED BY <2>1, <3>1, <3>2, <3>3 DEF SoundCache, TrueCopies, e
  <2>3. UpdateCache(f) \in V
    <3> HIDE DEF f
    <3>1. SoundCache(UpdateCache(f)) /\ InLimits(UpdateCache(f))
      BY <2>2, UpdateKeeps
    <3> QED BY <3>1 DEF SoundCache
  <2> QED BY <2>3 DEF e
<1>4. ASSUME NEW s \in NonEmpty(S) PROVE id[Max(s)] \in PromptSlots
  <2>1. Max(s) \in S
    BY <1>2 DEF Chooses, NonEmpty
  <2> QED BY <2>1
<1> HIDE DEF V
<1>5. \A s \in NonEmpty(S), v \in V : F[<<s, v>>] \in V
  <2> TAKE s \in NonEmpty(S), v \in V
  <2>1. F[<<s, v>>] = op(v, id[Max(s)])
    OBVIOUS
  <2> HIDE DEF F, op, id
  <2> QED BY <1>3, <1>4, <2>1
<1>6. PICK g : IsFold(g, S, V, c, ch, F)
  <2> HIDE DEF F, ch, S
  <2> QED BY <1>1, <1>2, <1>5, FoldExists
<1>7. g = [s \in SUBSET S |-> IF s = {} THEN c ELSE op(g[s \ {Max(s)}], id[Max(s)])]
  <2>1. g \in [SUBSET S -> V] /\ g[{}] = c
    BY <1>6 DEF IsFold
  <2>2. ASSUME NEW s \in NonEmpty(S) PROVE g[s] = op(g[s \ {Max(s)}], id[Max(s)])
    <3>1. ch[s] = Max(s) /\ g[s \ {Max(s)}] \in V
      BY <2>1 DEF NonEmpty
    <3>2. g[s] = F[<<s, g[s \ {Max(s)}]>>]
      BY <1>6, <3>1 DEF IsFold
    <3>3. ASSUME NEW v \in V PROVE F[<<s, v>>] = op(v, id[Max(s)])
      OBVIOUS
    <3> HIDE DEF F, op, id, ch
    <3> QED BY <3>1, <3>2, <3>3
  <2>3. \A s \in SUBSET S : s # {} => s \in NonEmpty(S)
    BY DEF NonEmpty
  <2> HIDE DEF op, id, F, S
  <2> DEFINE h == [s \in SUBSET S |-> IF s = {} THEN c ELSE op(g[s \ {Max(s)}], id[Max(s)])]
  <2>4. \A s \in SUBSET S : g[s] = h[s]
    BY <2>1, <2>2, <2>3
  <2>5. DOMAIN h = SUBSET S /\ h = [s \in SUBSET S |-> h[s]]
    OBVIOUS
  <2>6. g = [s \in SUBSET S |-> g[s]]
    BY <2>1
  <2>7. g = h
    <3> HIDE DEF h
    <3> QED BY <2>4, <2>5, <2>6
  <2> QED BY <2>7
<1>8. iter = [s \in SUBSET S |-> IF s = {} THEN c ELSE op(iter[s \ {Max(s)}], id[Max(s)])]
  BY <1>7
<1>9. SaveIdle(c, ok) = iter[S]
  BY DEF SaveIdle, FoldLeft, MapThenFoldSet
<1> HIDE DEF iter
<1> DEFINE G == {s \in SUBSET S : iter[s] \in V}
<1>10. Inductive(G, S, ch)
  <2>1. {} \in G
    BY <1>1, <1>8
  <2>2. ASSUME NEW s \in NonEmpty(S), s \ {ch[s]} \in G PROVE s \in G
    <3>1. s \in SUBSET S /\ s # {} /\ s \ {Max(s)} \in SUBSET S /\ ch[s] = Max(s)
      BY DEF NonEmpty
    <3>2. iter[s] = op(iter[s \ {Max(s)}], id[Max(s)])
      BY <1>8, <3>1
    <3> HIDE DEF op, id, S
    <3> QED BY <1>3, <1>4, <2>2, <3>1, <3>2
  <2> QED BY <2>1, <2>2 DEF Inductive
<1>11. S \in G
  <2> HIDE DEF G, ch, S
  <2> QED BY <1>2, <1>10, ByChoice
<1>12. SaveIdle(c, ok) \in V
  BY <1>9, <1>11
<1> QED BY <1>12 DEF V

-----------------------------------------------------------------------------
(* The actions.                                                             *)

Cache == [prompts |-> prompts, states |-> states, limit |-> limit]
CacheInv == SoundCache(Cache) /\ InLimits(Cache)

LEMMA CacheStart == CacheInit => CacheInv
<1> SUFFICES ASSUME CacheInit PROVE CacheInv
  OBVIOUS
<1>1. NoPrompt \in SlotPrompt /\ NoPrompt.mem = NoPrompt.toks
  BY DEF NoPrompt, SlotPrompt, Tokens, Idle
<1>2. prompts = [s \in PromptSlots |-> NoPrompt] /\ states = <<>> /\ limit \in Nat
  BY PromptCacheAssumption DEF CacheInit
<1>3. Len(states) = 0 /\ states \in Seq(CacheEntry)
  BY <1>2
<1> QED BY <1>1, <1>2, <1>3 DEF CacheInv, Cache, SoundCache, Caches, TrueCopies, NoneContained, InLimits

LEMMA AssignKeeps ==
  ASSUME CacheInv, NEW t \in Prompts, NEW s \in PromptSlots, NEW update \in BOOLEAN,
         NEW ok \in BOOLEAN, NEW starts \in BOOLEAN, Assign(t, s, update, ok, starts)
  PROVE  CacheInv'
<1> DEFINE c == Cache
           d == IF update THEN UpdateCache(Load(Save(c, s, ok), s, t)) ELSE c
           b == [d EXCEPT !.prompts[s].task = t]
           e == IF starts THEN SaveIdle(b, ok) ELSE d
<1>1. t \in Tokens
  BY PromptCacheAssumption DEF Tokens
<1>2. SoundCache(d) /\ InLimits(d)
  <2>1. SoundCache(c) /\ InLimits(c)
    BY DEF CacheInv
  <2> HIDE DEF c
  <2>2. SoundCache(Save(c, s, ok))
    BY <2>1, SaveKeeps
  <2>3. SoundCache(Load(Save(c, s, ok), s, t))
    BY <1>1, <2>2, LoadKeeps
  <2>4. SoundCache(UpdateCache(Load(Save(c, s, ok), s, t))) /\ InLimits(UpdateCache(Load(Save(c, s, ok), s, t)))
    BY <2>3, UpdateKeeps
  <2> QED BY <2>1, <2>4
<1>3. SetAll(e)
  BY DEF Assign, Cache
<1> HIDE DEF d
<1>4. SoundCache(b) /\ InLimits(b)
  <2>1. d \in Caches /\ d.prompts \in [PromptSlots -> SlotPrompt]
    BY <1>2 DEF SoundCache, Caches
  <2> DEFINE p == [d.prompts[s] EXCEPT !.task = t]
  <2>2. p \in SlotPrompt /\ p.mem = d.prompts[s].mem /\ p.toks = d.prompts[s].toks
    BY <1>1, <2>1 DEF SlotPrompt
  <2>3. b.prompts = [d.prompts EXCEPT ![s] = p] /\ b.states = d.states /\ b.limit = d.limit
    BY <2>1 DEF Caches
  <2> HIDE DEF p
  <2>4. b \in Caches
    BY <2>1, <2>2, <2>3 DEF Caches
  <2> HIDE DEF b
  <2> QED BY <1>2, <2>1, <2>2, <2>3, <2>4 DEF SoundCache, TrueCopies, InLimits
<1> HIDE DEF b
<1>5. SoundCache(e) /\ InLimits(e)
  BY <1>2, <1>4, SaveIdleKeeps
<1> HIDE DEF e
<1>6. prompts' = e.prompts /\ states' = e.states /\ limit' = e.limit
  BY <1>3 DEF SetAll
<1>7. Cache' = e
  <2>1. e \in Caches
    BY <1>5 DEF SoundCache
  <2> QED BY <1>6, <2>1 DEF Cache, Caches
<1> QED BY <1>5, <1>7 DEF CacheInv

\* A step that changes the slots only.
LEMMA SlotsKeep ==
  ASSUME CacheInv, UNCHANGED <<states, limit>>,
         prompts' \in [PromptSlots -> SlotPrompt],
         \A s \in PromptSlots : prompts'[s].mem = prompts'[s].toks
  PROVE  CacheInv'
BY DEF CacheInv, Cache, SoundCache, Caches, TrueCopies, InLimits

LEMMA OtherKeeps ==
  ASSUME CacheInv, NEW s \in PromptSlots, FinishTask(s) \/ PurgeOrFail(s)
  PROVE  CacheInv'
<1>1. prompts \in [PromptSlots -> SlotPrompt] /\ \A r \in PromptSlots : prompts[r].mem = prompts[r].toks
  BY DEF CacheInv, Cache, SoundCache, Caches, TrueCopies
<1>2. NoPrompt \in SlotPrompt /\ NoPrompt.mem = NoPrompt.toks
  BY DEF NoPrompt, SlotPrompt, Tokens, Idle
<1>3. UNCHANGED <<states, limit>>
  BY DEF FinishTask, PurgeOrFail
<1> DEFINE Fine == /\ prompts' \in [PromptSlots -> SlotPrompt]
                   /\ \A r \in PromptSlots : prompts'[r].mem = prompts'[r].toks
<1>4. CASE FinishTask(s)
  <2> DEFINE t == prompts[s].task
             p == [toks |-> t, mem |-> t, task |-> Idle]
  <2>1. t \in Tokens /\ Idle \in Tokens
    BY <1>1 DEF SlotPrompt, Tokens, Idle
  <2>2. CASE prompts' = [prompts EXCEPT ![s] = p]
    <3>1. p \in SlotPrompt /\ p.mem = p.toks
      BY <2>1 DEF SlotPrompt
    <3> HIDE DEF p
    <3>2. Fine
      BY <1>1, <2>2, <3>1
    <3> QED BY <1>3, <3>2, SlotsKeep
  <2>3. CASE prompts' = [prompts EXCEPT ![s].task = Idle]
    <3> DEFINE x == [prompts[s] EXCEPT !.task = Idle]
    <3>1. x \in SlotPrompt /\ x.mem = x.toks
      BY <1>1, <2>1 DEF SlotPrompt
    <3>2. prompts' = [prompts EXCEPT ![s] = x]
      BY <2>3
    <3> HIDE DEF x
    <3>3. Fine
      BY <1>1, <3>1, <3>2
    <3> QED BY <1>3, <3>3, SlotsKeep
  <2> QED BY <1>4, <2>2, <2>3 DEF FinishTask
<1>5. CASE PurgeOrFail(s)
  <2> DEFINE purged == {r \in IdleSlots : prompts[r].toks # <<>>}
  <2>1. prompts' = IF purged # {} THEN [prompts EXCEPT ![Min(purged)] = NoPrompt]
                   ELSE [r \in PromptSlots |-> IF prompts[r].task = Idle THEN prompts[r] ELSE NoPrompt]
    BY <1>5 DEF PurgeOrFail
  <2> HIDE DEF purged
  <2>2. \A r \in PromptSlots : prompts'[r] \in {prompts[r], NoPrompt}
    BY <1>1, <2>1
  <2>3. DOMAIN prompts' = PromptSlots /\ prompts' = [r \in PromptSlots |-> prompts'[r]]
    BY <1>1, <2>1
  <2>4. Fine
    BY <1>1, <1>2, <2>2, <2>3
  <2> QED BY <1>3, <2>4, SlotsKeep
<1> QED BY <1>4, <1>5

LEMMA CacheStep == ASSUME CacheInv, [CacheNext]_cacheVars PROVE CacheInv'
<1>1. CASE UNCHANGED cacheVars
  BY <1>1 DEF cacheVars, CacheInv, Cache, SoundCache, InLimits
<1>2. CASE CacheNext
  BY <1>2, AssignKeeps, OtherKeeps DEF CacheNext
<1> QED BY <1>1, <1>2

LEMMA CacheFact == CacheInv => CacheSound
<1> SUFFICES ASSUME CacheInv PROVE CacheSound
  OBVIOUS
<1>1. states \in Seq(CacheEntry) /\ limit \in Nat
  BY DEF CacheInv, Cache, SoundCache, Caches
<1>2. WithinLimits
  BY <1>1 DEF CacheInv, Cache, InLimits, WithinLimits
<1>3. MemoryIsOfTokens
  <2>1. \A e \in Range(states) : \E j \in 1..Len(states) : e = states[j]
    BY <1>1 DEF Range
  <2> QED BY <2>1 DEF CacheInv, Cache, SoundCache, TrueCopies, MemoryIsOfTokens
<1>4. NoEntryContained
  BY DEF CacheInv, Cache, SoundCache, NoneContained, NoEntryContained
<1> QED BY <1>2, <1>3, <1>4 DEF CacheSound

\* Prompts are saved, loaded and dropped, and allocations and restores fail: the
\* cache stays within its limits, no saved prompt is contained in another, and
\* what an entry or a slot has in memory is of its own tokens.
THEOREM CacheCorrect == CacheSpec => []CacheSound
BY CacheStart, CacheStep, CacheFact, PTL DEF CacheSpec

-----------------------------------------------------------------------------
(* The batches: what a slot, the memory and a batch are.                    *)

\* What the batches do; the proofs need no fairness.
Batching == BatchInit /\ [][BatchNext]_batchVars

SlotRec ==
  [state : {"idle", "started", "wait", "prompt", "done", "gen"}, kind : Kinds \cup {"none"},
   parent : 0..NSlots, len : Nat, prompt : Int, decoded : Nat, ibatch : Int]
Token == [slot : Slots, pos : Int]
Memory == {m \in SUBSET [pos : Int, seqs : (SUBSET Slots) \ {{}}] : IsFiniteSet(m)}
SlotsAndMemory == [sl : [Slots -> SlotRec], m : Memory]

BatchTyped ==
  /\ mix \in Mixes
  /\ slot \in [Slots -> SlotRec] /\ mem \in Memory
  /\ mpc \in {"take", "prompts", "decode"}
  /\ mpc = "prompts" => cur \in Slots
  /\ batch \in Seq(Token) /\ i \in 0..Len(batch) /\ nb \in 1..NBatch
  /\ mpc # "decode" => i = 0
  /\ mpc = "take" => batch = <<>>

\* The output of a slot is in what is left of the batch, from lo to hi - 1.
Due(x, lo, hi) == x.state \in {"done", "gen"} /\ lo <= x.ibatch /\ x.ibatch < hi

\* A slot with its prompt done is due, and a generating one is due or sampled.
Decided(x, lo, hi) ==
  /\ x.state = "done" => Due(x, lo, hi)
  /\ x.state = "gen" => x.ibatch = -1 \/ Due(x, lo, hi)

\* A prompt that is not done has tokens left.
Unfinished(x) ==
  /\ x.state \in {"started", "wait", "prompt"} => x.len > 0
  /\ x.state = "prompt" => x.prompt < x.len

\* The output of slot s is that of the last token of its prompt.
OwnToken(sl, b, s) == b[sl[s].ibatch + 1] = [slot |-> s, pos |-> sl[s].prompt - 1]

DecidedInv ==
  /\ BatchTyped
  /\ \A s \in Slots :
       /\ Decided(slot[s], i, Len(batch)) /\ Unfinished(slot[s])
       /\ Due(slot[s], i, Len(batch)) /\ slot[s].parent = 0 => OwnToken(slot, batch, s)

\* No completion but one is asked for.
NoEmbeddings == \A x \in Mixes : "embd" \notin x.kinds

Has(m, s) == \E e \in m : s \in e.seqs
FromZero(m) == \A e \in m : e.pos >= 0

\* The token at k of the batch is of a slot that is not sampled before.
Pending(sl, tok, k) ==
  /\ tok.pos >= 0
  /\ sl[tok.slot].prompt >= 1
  /\ sl[tok.slot].state \in {"prompt", "done", "gen"}
  /\ sl[tok.slot].state # "prompt" => sl[tok.slot].ibatch >= k - 1

\* What is said of slot s, as x, and of its memory in m.
SlotKept(x, m, s) ==
  /\ x.prompt >= 0 /\ x.kind # "embd"
  /\ x.state \in {"done", "gen"} => x.prompt >= 1
  /\ x.state # "idle" => mix.cells >= 2
  /\ x.prompt = 0 => ~Has(m, s)

KeptInv ==
  /\ DecidedInv
  /\ FromZero(mem)
  /\ \A s \in Slots : SlotKept(slot[s], mem, s)
  /\ \A k \in i + 1..Len(batch) : Pending(slot, batch[k], k)
  /\ mpc # "decode" => nb = NBatch
  /\ nb < NBatch => Purgeable = {}

\* Removing from the memory, moving and copying in it.
LEMMA RmKeeps ==
  ASSUME NEW m \in Memory, NEW s \in Slots, NEW p0 \in Int, NEW p1 \in Int
  PROVE  /\ Rm(m, s, p0, p1) \in Memory
         /\ FromZero(m) => FromZero(Rm(m, s, p0, p1))
         /\ \A r \in Slots : Has(Rm(m, s, p0, p1), r) => Has(m, r)
         /\ \A e \in Rm(m, s, p0, p1) : s \in e.seqs => ~(p0 <= e.pos /\ e.pos < p1)
<1> DEFINE hit == Between(m, s, p0, p1)
           cut == {d \in hit : d.seqs # {s}}
           f == [e \in cut |-> [e EXCEPT !.seqs = @ \ {s}]]
           left == {[e EXCEPT !.seqs = @ \ {s}] : e \in cut}
<1>1. hit \subseteq m /\ IsFiniteSet(m) /\ m \subseteq [pos : Int, seqs : (SUBSET Slots) \ {{}}]
  BY DEF Between, Entries, Memory
<1>2. IsFiniteSet(cut) /\ IsFiniteSet(m \ hit)
  BY <1>1, FS_Subset
<1>3. IsFiniteSet(left)
  <2>1. f \in Surjection(cut, left)
    BY DEF Surjection
  <2> QED BY <1>2, <2>1, FS_Surjection
<1>4. \A e \in left : \E d \in m : e \in [pos : Int, seqs : (SUBSET Slots) \ {{}}] /\ e.pos = d.pos
                                  /\ e.seqs = d.seqs \ {s}
  <2> SUFFICES ASSUME NEW d \in cut
               PROVE  LET e == [d EXCEPT !.seqs = @ \ {s}]
                      IN  e \in [pos : Int, seqs : (SUBSET Slots) \ {{}}] /\ e.pos = d.pos
                          /\ e.seqs = d.seqs \ {s}
    BY <1>1
  <2>1. d \in [pos : Int, seqs : (SUBSET Slots) \ {{}}] /\ d.seqs # {s}
    BY <1>1
  <2> QED BY <2>1
<1>5. Rm(m, s, p0, p1) = (m \ hit) \cup left
  BY DEF Rm
<1>6. IsFiniteSet((m \ hit) \cup left)
  BY <1>2, <1>3, FS_Union
<1>7. \A e \in m \ hit : s \in e.seqs => ~(p0 <= e.pos /\ e.pos < p1)
  BY DEF Between, Entries
<1> HIDE DEF hit, left
<1> QED BY <1>1, <1>4, <1>5, <1>6, <1>7 DEF Memory, FromZero, Has

LEMMA ShiftKeeps ==
  ASSUME NEW m \in Memory, NEW s \in Slots, NEW p0 \in Int, NEW p1 \in Int, NEW d \in Int
  PROVE  /\ Shift(m, s, p0, p1, d) \in Memory
         /\ FromZero(m) => FromZero(Shift(m, s, p0, p1, d))
         /\ \A r \in Slots : Has(Shift(m, s, p0, p1, d), r) => Has(m, r)
<1> DEFINE hit == Between(m, s, p0, p1)
           f == [e \in hit |-> [e EXCEPT !.pos = @ + d]]
           moved == {[e EXCEPT !.pos = @ + d] : e \in hit}
           left == {e \in moved : e.pos >= 0}
<1>1. hit \subseteq m /\ IsFiniteSet(m) /\ m \subseteq [pos : Int, seqs : (SUBSET Slots) \ {{}}]
  BY DEF Between, Entries, Memory
<1>2. IsFiniteSet(hit) /\ IsFiniteSet(m \ hit)
  BY <1>1, FS_Subset
<1>3. IsFiniteSet(moved)
  <2>1. f \in Surjection(hit, moved)
    BY DEF Surjection
  <2> QED BY <1>2, <2>1, FS_Surjection
<1>4. IsFiniteSet(left)
  BY <1>3, FS_Subset
<1>5. \A e \in moved : \E x \in m : e \in [pos : Int, seqs : (SUBSET Slots) \ {{}}]
                                    /\ e.seqs = x.seqs
  <2> SUFFICES ASSUME NEW x \in hit
               PROVE  LET e == [x EXCEPT !.pos = @ + d]
                      IN  e \in [pos : Int, seqs : (SUBSET Slots) \ {{}}] /\ e.seqs = x.seqs
    BY <1>1
  <2>1. x \in [pos : Int, seqs : (SUBSET Slots) \ {{}}]
    BY <1>1
  <2> QED BY <2>1
<1>6. Shift(m, s, p0, p1, d) = (m \ hit) \cup left
  BY DEF Shift
<1>7. IsFiniteSet((m \ hit) \cup left)
  BY <1>2, <1>4, FS_Union
<1> HIDE DEF hit, moved
<1> QED BY <1>1, <1>5, <1>6, <1>7 DEF Memory, FromZero, Has

LEMMA CpKeeps ==
  ASSUME NEW m \in Memory, NEW a \in Slots, NEW b \in Slots
  PROVE  /\ Cp(m, a, b) \in Memory
         /\ FromZero(m) => FromZero(Cp(m, a, b))
         /\ \A r \in Slots : r # b /\ Has(Cp(m, a, b), r) => Has(m, r)
<1> DEFINE hit == Entries(m, a)
           f == [e \in hit |-> [e EXCEPT !.seqs = @ \cup {b}]]
           left == {[e EXCEPT !.seqs = @ \cup {b}] : e \in hit}
<1>1. hit \subseteq m /\ IsFiniteSet(m) /\ m \subseteq [pos : Int, seqs : (SUBSET Slots) \ {{}}]
  BY DEF Entries, Memory
<1>2. IsFiniteSet(hit) /\ IsFiniteSet(m \ hit)
  BY <1>1, FS_Subset
<1>3. IsFiniteSet(left)
  <2>1. f \in Surjection(hit, left)
    BY DEF Surjection
  <2> QED BY <1>2, <2>1, FS_Surjection
<1>4. \A e \in left : \E x \in m : e \in [pos : Int, seqs : (SUBSET Slots) \ {{}}]
                                   /\ e.pos = x.pos /\ e.seqs = x.seqs \cup {b}
  <2> SUFFICES ASSUME NEW x \in hit
               PROVE  LET e == [x EXCEPT !.seqs = @ \cup {b}]
                      IN  e \in [pos : Int, seqs : (SUBSET Slots) \ {{}}] /\ e.pos = x.pos
                          /\ e.seqs = x.seqs \cup {b}
    BY <1>1
  <2>1. x \in [pos : Int, seqs : (SUBSET Slots) \ {{}}]
    BY <1>1
  <2> QED BY <2>1
<1>5. Cp(m, a, b) = (m \ hit) \cup left
  BY DEF Cp
<1>6. IsFiniteSet((m \ hit) \cup left)
  BY <1>2, <1>3, FS_Union
<1> HIDE DEF hit, left
<1> QED BY <1>1, <1>4, <1>5, <1>6 DEF Memory, FromZero, Has

\* The last position of a slot, and what is left when it is removed from p on.
LEMMA LastPosition ==
  ASSUME NEW m \in Memory, NEW s \in Slots
  PROVE  PosMax(m, s) \in Int /\ \A e \in m : s \in e.seqs => e.pos <= PosMax(m, s)
<1> DEFINE P == Positions(m, s)
           f == [e \in Entries(m, s) |-> e.pos]
<1>1. Entries(m, s) \subseteq m /\ IsFiniteSet(m) /\ \A e \in m : e.pos \in Int
  BY DEF Entries, Memory
<1>2. IsFiniteSet(P)
  <2>1. f \in Surjection(Entries(m, s), P)
    BY DEF Surjection, Positions
  <2>2. IsFiniteSet(Entries(m, s))
    BY <1>1, FS_Subset
  <2> QED BY <2>1, <2>2, FS_Surjection
<1>3. P \in SUBSET Int
  BY <1>1 DEF Positions
<1>4. CASE Entries(m, s) = {}
  BY <1>4 DEF PosMax, Entries
<1>5. CASE Entries(m, s) # {}
  <2>1. P # {}
    BY <1>5 DEF Positions
  <2>2. Max(P) \in P /\ \A y \in P : Max(P) >= y
    BY <1>2, <1>3, <2>1, MaxIs
  <2>3. PosMax(m, s) = Max(P)
    BY <1>5 DEF PosMax
  <2>4. \A e \in m : s \in e.seqs => e.pos \in P
    BY DEF Positions, Entries
  <2> HIDE DEF P
  <2> QED BY <1>3, <2>2, <2>3, <2>4
<1> QED BY <1>4, <1>5

LEMMA RmFromKeeps ==
  ASSUME NEW m \in Memory, NEW s \in Slots, NEW p \in Int
  PROVE  /\ RmFrom(m, s, p) \in Memory
         /\ FromZero(m) => FromZero(RmFrom(m, s, p))
         /\ \A r \in Slots : Has(RmFrom(m, s, p), r) => Has(m, r)
         /\ FromZero(m) /\ p = 0 => ~Has(RmFrom(m, s, p), s)
<1> DEFINE q == PosMax(m, s) + 1
           n == RmFrom(m, s, p)
<1>1. q \in Int /\ \A e \in m : s \in e.seqs => e.pos < q
  <2>1. PosMax(m, s) \in Int /\ \A e \in m : e.pos \in Int
    BY LastPosition DEF Memory
  <2>2. \A e \in m : s \in e.seqs => e.pos <= PosMax(m, s)
    BY LastPosition
  <2> QED BY <2>1, <2>2
<1>2. n = Rm(m, s, p, q)
  BY DEF RmFrom
<1>3. /\ n \in Memory
      /\ FromZero(m) => FromZero(n)
      /\ \A r \in Slots : Has(n, r) => Has(m, r)
      /\ \A e \in n : s \in e.seqs => ~(p <= e.pos /\ e.pos < q)
  BY <1>1, <1>2, RmKeeps
<1>4. \A e \in n : \E d \in m : e.pos = d.pos /\ (s \in e.seqs => s \in d.seqs)
  <2> DEFINE hit == Between(m, s, p, q)
  <2>1. n = (m \ hit) \cup {[e EXCEPT !.seqs = @ \ {s}] : e \in {d \in hit : d.seqs # {s}}}
    BY <1>2 DEF Rm
  <2>2. hit \subseteq m /\ \A d \in m : d \in [pos : Int, seqs : (SUBSET Slots) \ {{}}]
    BY DEF Between, Entries, Memory
  <2> HIDE DEF hit, n
  <2> QED BY <2>1, <2>2
<1>5. ASSUME FromZero(m), p = 0, Has(n, s) PROVE FALSE
  <2>1. PICK e \in n : s \in e.seqs
    BY <1>5 DEF Has
  <2>2. PICK d \in m : e.pos = d.pos /\ s \in d.seqs
    BY <1>4, <2>1
  <2>3. e.pos \in Int /\ e.pos >= 0 /\ e.pos < q
    BY <1>1, <1>5, <2>2 DEF FromZero, Memory
  <2> HIDE DEF n, q
  <2> QED BY <1>3, <1>5, <2>1, <2>3
<1> HIDE DEF n, q
<1> QED BY <1>3, <1>5 DEF n

-----------------------------------------------------------------------------
(* A memory in which nothing is shared.                                     *)

\* Each entry is of one slot.
Alone(m) == \A e \in m : \E s \in Slots : e.seqs = {s}

\* From m to n the memory of slot s alone changes, and is now at the positions P.
NowAt(m, n, s, P) ==
  /\ n \in Memory /\ Alone(n) /\ Positions(n, s) = P
  /\ \A r \in Slots \ {s} : Positions(n, r) = Positions(m, r)

LEMMA AtPositions == \A m, s, p : p \in Positions(m, s) <=> \E e \in m : s \in e.seqs /\ e.pos = p
BY DEF Positions, Entries

LEMMA SamePositions ==
  ASSUME NEW m, NEW n, NEW r, \A e \in m : r \in e.seqs => e \in n, \A e \in n : r \in e.seqs => e \in m
  PROVE  Positions(n, r) = Positions(m, r)
<1>1. Entries(n, r) = Entries(m, r)
  BY DEF Entries
<1> QED BY <1>1 DEF Positions

LEMMA AloneRm ==
  ASSUME NEW m \in Memory, Alone(m), NEW s \in Slots, NEW p0 \in Int, NEW p1 \in Int
  PROVE  NowAt(m, Rm(m, s, p0, p1), s, {p \in Positions(m, s) : ~(p0 <= p /\ p < p1)})
<1> DEFINE hit == Between(m, s, p0, p1)
           n == m \ hit
<1>1. \A e \in hit : e \in m /\ e.seqs = {s} /\ p0 <= e.pos /\ e.pos < p1
  BY DEF Between, Entries, Alone
<1>2. Rm(m, s, p0, p1) = n
  <2>1. {d \in hit : d.seqs # {s}} = {}
    BY <1>1
  <2>2. Rm(m, s, p0, p1) = n \cup {[e EXCEPT !.seqs = @ \ {s}] : e \in {d \in hit : d.seqs # {s}}}
    BY DEF Rm
  <2> HIDE DEF hit, n
  <2> QED BY <2>1, <2>2
<1>3. \A e \in m : s \in e.seqs /\ ~(p0 <= e.pos /\ e.pos < p1) => e \in n
  BY DEF Between, Entries
<1>4. \A e \in n : e \in m /\ (s \in e.seqs => ~(p0 <= e.pos /\ e.pos < p1))
  BY DEF Between, Entries
<1>5. ASSUME NEW r \in Slots \ {s} PROVE Positions(n, r) = Positions(m, r)
  <2>1. \A e \in m : r \in e.seqs => e \in n
    BY <1>1
  <2>2. \A e \in n : r \in e.seqs => e \in m
    BY <1>4
  <2> HIDE DEF n
  <2> QED BY <2>1, <2>2, SamePositions
<1>6. Positions(n, s) = {p \in Positions(m, s) : ~(p0 <= p /\ p < p1)}
  <2> HIDE DEF n
  <2> QED BY <1>3, <1>4, AtPositions
<1>7. n \in Memory /\ Alone(n)
  <2>1. n \in Memory
    BY <1>2, RmKeeps
  <2> QED BY <2>1 DEF Alone
<1> QED BY <1>2, <1>5, <1>6, <1>7 DEF NowAt

\* The positions P, with those from p0 to before p1 moved by d.
MovedBy(P, p0, p1, d) ==
  {p \in Int : \/ p \in P /\ ~(p0 <= p /\ p < p1)
               \/ p - d \in P /\ p0 <= p - d /\ p - d < p1 /\ p >= 0}

LEMMA AloneShift ==
  ASSUME NEW m \in Memory, Alone(m), NEW s \in Slots, NEW p0 \in Int, NEW p1 \in Int, NEW d \in Int
  PROVE  NowAt(m, Shift(m, s, p0, p1, d), s, MovedBy(Positions(m, s), p0, p1, d))
<1> DEFINE hit == Between(m, s, p0, p1)
           left == {e \in {[x EXCEPT !.pos = @ + d] : x \in hit} : e.pos >= 0}
           n == Shift(m, s, p0, p1, d)
<1>1. \A e \in m : e \in [pos : Int, seqs : (SUBSET Slots) \ {{}}]
  BY DEF Memory
<1>2. \A e \in hit : e \in m /\ e.seqs = {s} /\ p0 <= e.pos /\ e.pos < p1
  BY DEF Between, Entries, Alone
<1>3. n = (m \ hit) \cup left
  BY DEF Shift
<1>4. \A e \in left : \E x \in hit : e.seqs = {s} /\ e.pos = x.pos + d /\ e.pos >= 0
  BY <1>1, <1>2
<1>5. \A x \in hit : x.pos + d >= 0 => \E e \in left : e.seqs = {s} /\ e.pos = x.pos + d
  <2> SUFFICES ASSUME NEW x \in hit, x.pos + d >= 0 PROVE \E e \in left : e.seqs = {s} /\ e.pos = x.pos + d
    OBVIOUS
  <2>1. [x EXCEPT !.pos = @ + d].seqs = {s} /\ [x EXCEPT !.pos = @ + d].pos = x.pos + d
    BY <1>1, <1>2
  <2> HIDE DEF hit
  <2> QED BY <2>1
<1>6. \A e \in m : s \in e.seqs /\ p0 <= e.pos /\ e.pos < p1 <=> e \in hit
  BY DEF Between, Entries
<1>7. n \in Memory
  BY ShiftKeeps
<1>8. Alone(n)
  <2> HIDE DEF hit, left, n
  <2> QED BY <1>3, <1>4 DEF Alone
<1>9. ASSUME NEW r \in Slots \ {s} PROVE Positions(n, r) = Positions(m, r)
  <2> HIDE DEF hit, left, n
  <2>1. \A e \in m : r \in e.seqs => e \in n
    BY <1>2, <1>3
  <2>2. \A e \in n : r \in e.seqs => e \in m
    BY <1>3, <1>4
  <2> QED BY <2>1, <2>2, SamePositions
<1>10. ASSUME NEW p, p \in Positions(n, s)
       PROVE  /\ p \in Int
              /\ \/ p \in Positions(m, s) /\ ~(p0 <= p /\ p < p1)
                 \/ p - d \in Positions(m, s) /\ p0 <= p - d /\ p - d < p1 /\ p >= 0
  <2> HIDE DEF hit, left, n
  <2>1. PICK e \in n : s \in e.seqs /\ e.pos = p
    BY <1>10, AtPositions
  <2>2. CASE e \in m \ hit
    <3>1. p \in Int /\ p \in Positions(m, s)
      BY <1>1, <2>1, <2>2, AtPositions
    <3> QED BY <1>6, <2>1, <2>2, <3>1
  <2>3. CASE e \in left
    <3>1. PICK x \in hit : e.pos = x.pos + d /\ e.pos >= 0
      BY <1>4, <2>3
    <3>2. x \in m /\ s \in x.seqs /\ p0 <= x.pos /\ x.pos < p1 /\ x.pos \in Int
      BY <1>1, <1>2
    <3>3. x.pos = p - d /\ p \in Int /\ x.pos \in Positions(m, s)
      BY <2>1, <3>1, <3>2, AtPositions
    <3> QED BY <2>1, <3>1, <3>2, <3>3
  <2> QED BY <1>3, <2>2, <2>3
<1>11. ASSUME NEW p \in Int,
              \/ p \in Positions(m, s) /\ ~(p0 <= p /\ p < p1)
              \/ p - d \in Positions(m, s) /\ p0 <= p - d /\ p - d < p1 /\ p >= 0
       PROVE  p \in Positions(n, s)
  <2> HIDE DEF hit, left, n
  <2>1. CASE p \in Positions(m, s) /\ ~(p0 <= p /\ p < p1)
    <3>1. PICK e \in m : s \in e.seqs /\ e.pos = p
      BY <2>1, AtPositions
    <3>2. e \in n
      BY <1>3, <1>6, <2>1, <3>1
    <3> QED BY <3>1, <3>2, AtPositions
  <2>2. CASE p - d \in Positions(m, s) /\ p0 <= p - d /\ p - d < p1 /\ p >= 0
    <3>1. PICK x \in m : s \in x.seqs /\ x.pos = p - d
      BY <2>2, AtPositions
    <3>2. x \in hit /\ x.pos + d = p
      BY <1>6, <2>2, <3>1
    <3>3. PICK e \in left : e.seqs = {s} /\ e.pos = p
      BY <1>5, <2>2, <3>2
    <3> QED BY <1>3, <3>3, AtPositions
  <2> QED BY <1>11, <2>1, <2>2
<1>12. Positions(n, s) = MovedBy(Positions(m, s), p0, p1, d)
  <2> HIDE DEF n
  <2>1. Positions(n, s) \subseteq Int
    BY <1>10
  <2> QED BY <1>10, <1>11, <2>1 DEF MovedBy
<1> QED BY <1>7, <1>8, <1>9, <1>12 DEF NowAt

LEMMA AloneRmFrom ==
  ASSUME NEW m \in Memory, Alone(m), NEW s \in Slots, NEW p0 \in Int
  PROVE  NowAt(m, RmFrom(m, s, p0), s, {p \in Positions(m, s) : p < p0})
<1> DEFINE q == PosMax(m, s) + 1
<1>1. q \in Int /\ \A p \in Positions(m, s) : p \in Int /\ p < q
  <2>1. PosMax(m, s) \in Int /\ (\A e \in m : s \in e.seqs => e.pos <= PosMax(m, s)) /\ \A e \in m : e.pos \in Int
    BY LastPosition DEF Memory
  <2> QED BY <2>1, AtPositions
<1>2. RmFrom(m, s, p0) = Rm(m, s, p0, q)
  BY DEF RmFrom
<1> HIDE DEF q
<1>3. {p \in Positions(m, s) : ~(p0 <= p /\ p < q)} = {p \in Positions(m, s) : p < p0}
  BY <1>1
<1> QED BY <1>1, <1>2, <1>3, AloneRm

\* The last position of a memory without gaps, and how many entries it has.
LEMMA WholeMemory ==
  ASSUME NEW m \in Memory, Alone(m), NEW s \in Slots, NEW n \in Nat, Positions(m, s) = 0..n - 1
  PROVE  PosMax(m, s) = n - 1 /\ IsFiniteSet(Entries(m, s)) /\ Cardinality(Entries(m, s)) = n
<1>1. \A e \in m : e \in [pos : Int, seqs : (SUBSET Slots) \ {{}}]
  BY DEF Memory
<1>2. \A e \in Entries(m, s) : e = [pos |-> e.pos, seqs |-> {s}]
  BY <1>1 DEF Entries, Alone
<1> DEFINE f == [e \in Entries(m, s) |-> e.pos]
<1>3. f \in Bijection(Entries(m, s), 0..n - 1)
  <2>1. f \in Surjection(Entries(m, s), 0..n - 1)
    BY DEF Positions, Surjection
  <2>2. f \in Injection(Entries(m, s), 0..n - 1)
    BY <1>2, <2>1 DEF Surjection, Injection, IsInjective
  <2> QED BY <2>1, <2>2 DEF Bijection
<1>4. IsFiniteSet(0..n - 1) /\ Cardinality(0..n - 1) = n
  BY FS_Interval
<1>5. IsFiniteSet(Entries(m, s)) /\ Cardinality(Entries(m, s)) = n
  <2>1. IsFiniteSet(Entries(m, s))
    BY FS_Subset DEF Entries, Memory
  <2>2. ExistsBijection(Entries(m, s), 0..n - 1)
    BY <1>3 DEF ExistsBijection
  <2> QED BY <1>4, <2>1, <2>2, FS_Bijection
<1>6. PosMax(m, s) = n - 1
  <2>1. CASE n = 0
    <3>1. Entries(m, s) = {}
      <4>1. 0..n - 1 = {}
        BY <2>1
      <4> QED BY <4>1 DEF Positions
    <3> QED BY <2>1, <3>1 DEF PosMax
  <2>2. CASE n # 0
    <3>1. n - 1 \in Positions(m, s) /\ Positions(m, s) \in SUBSET Int /\ IsFiniteSet(Positions(m, s))
      BY <1>4, <2>2
    <3>2. Max(Positions(m, s)) \in Positions(m, s) /\ \A y \in Positions(m, s) : Max(Positions(m, s)) >= y
      BY <3>1, MaxIs
    <3>3. Max(Positions(m, s)) = n - 1
      BY <3>1, <3>2
    <3>4. Entries(m, s) # {}
      BY <3>1 DEF Positions
    <3> QED BY <3>3, <3>4 DEF PosMax
  <2> QED BY <2>1, <2>2
<1> QED BY <1>5, <1>6

-----------------------------------------------------------------------------
(* Slots are released.                                                      *)

\* Nothing comes to memory m.
Thinner(m, n) == (FromZero(m) => FromZero(n)) /\ \A r \in Slots : Has(n, r) => Has(m, r)

\* When nothing is shared, only the slots in T lose or move anything.
Apart(m, n, T) == Alone(m) => Alone(n) /\ \A r \in Slots \ T : Positions(n, r) = Positions(m, r)
Single(sl) == \A r \in Slots : sl[r].parent = 0

\* What a slot is after its release.
FreeSlot(x, p) == [IdleSlot EXCEPT !.prompt = p, !.ibatch = x.ibatch]
PromptLeft(x) == IF x.parent # 0 THEN 0 ELSE x.prompt

LEMMA FreeSlotTyped ==
  ASSUME NEW x \in SlotRec, NEW p \in Int
  PROVE  /\ FreeSlot(x, p) \in SlotRec
         /\ FreeSlot(x, p).state = "idle" /\ FreeSlot(x, p).prompt = p
         /\ FreeSlot(x, p).ibatch = x.ibatch /\ FreeSlot(x, p).parent = 0
         /\ FreeSlot(x, p).kind = "none"
<1>1. 0 \in 0..NSlots
  BY BatchAssumption
<1>2. IdleSlot \in SlotRec
  BY <1>1 DEF IdleSlot, SlotRec
<1>3. x.ibatch \in Int
  BY DEF SlotRec
<1>4. FreeSlot(x, p) \in SlotRec
  BY <1>2, <1>3 DEF FreeSlot, SlotRec
<1> QED BY <1>4 DEF FreeSlot, IdleSlot

LEMMA PromptClearIs ==
  ASSUME NEW st \in SlotsAndMemory, NEW s \in Slots
  PROVE  /\ PromptClear(st, s) \in SlotsAndMemory
         /\ PromptClear(st, s).sl = [st.sl EXCEPT ![s].prompt = 0]
         /\ Thinner(st.m, PromptClear(st, s).m)
         /\ FromZero(st.m) => ~Has(PromptClear(st, s).m, s)
         /\ Apart(st.m, PromptClear(st, s).m, {s})
<1>1. st.sl \in [Slots -> SlotRec] /\ st.m \in Memory
  BY DEF SlotsAndMemory
<1>2. /\ RmFrom(st.m, s, 0) \in Memory /\ Thinner(st.m, RmFrom(st.m, s, 0))
      /\ FromZero(st.m) => ~Has(RmFrom(st.m, s, 0), s)
      /\ Apart(st.m, RmFrom(st.m, s, 0), {s})
  BY <1>1, RmFromKeeps, AloneRmFrom DEF Thinner, Apart, NowAt
<1>3. [st.sl EXCEPT ![s].prompt = 0] \in [Slots -> SlotRec]
  BY <1>1 DEF SlotRec
<1> QED BY <1>2, <1>3 DEF PromptClear, SlotsAndMemory

LEMMA ReleaseIs ==
  ASSUME NEW st \in SlotsAndMemory, NEW s \in Slots
  PROVE  /\ Release(st, s) \in SlotsAndMemory
         /\ \A r \in Slots \ {s} : Release(st, s).sl[r] = st.sl[r]
         /\ Release(st, s).sl[s] = FreeSlot(st.sl[s], PromptLeft(st.sl[s]))
         /\ Thinner(st.m, Release(st, s).m)
         /\ FromZero(st.m) /\ st.sl[s].parent # 0 => ~Has(Release(st, s).m, s)
         /\ Apart(st.m, Release(st, s).m, {s})
         /\ st.sl[s].parent = 0 => Release(st, s).m = st.m
<1> DEFINE gone == [st EXCEPT !.sl[s] = [IdleSlot EXCEPT !.prompt = st.sl[s].prompt,
                                                        !.ibatch = st.sl[s].ibatch]]
<1>1. st.sl \in [Slots -> SlotRec] /\ st.m \in Memory /\ st.sl[s] \in SlotRec
      /\ st.sl[s].prompt \in Int
  BY DEF SlotsAndMemory, SlotRec
<1>2. FreeSlot(st.sl[s], st.sl[s].prompt) \in SlotRec
  BY <1>1, FreeSlotTyped
<1>3. gone \in SlotsAndMemory /\ gone.m = st.m
      /\ gone.sl = [st.sl EXCEPT ![s] = FreeSlot(st.sl[s], st.sl[s].prompt)]
  BY <1>1, <1>2 DEF SlotsAndMemory, FreeSlot
<1>4. Release(st, s) = IF IsChild(st.sl, s) THEN PromptClear(gone, s) ELSE gone
  BY DEF Release
<1> HIDE DEF gone
<1>5. CASE IsChild(st.sl, s)
  <2>1. /\ PromptClear(gone, s) \in SlotsAndMemory
        /\ PromptClear(gone, s).sl = [gone.sl EXCEPT ![s].prompt = 0]
        /\ Thinner(st.m, PromptClear(gone, s).m)
        /\ FromZero(st.m) => ~Has(PromptClear(gone, s).m, s)
        /\ Apart(st.m, PromptClear(gone, s).m, {s})
    BY <1>3, PromptClearIs
  <2>2. gone.sl[s] = FreeSlot(st.sl[s], st.sl[s].prompt)
        /\ \A r \in Slots \ {s} : gone.sl[r] = st.sl[r]
    BY <1>1, <1>3
  <2>3. [FreeSlot(st.sl[s], st.sl[s].prompt) EXCEPT !.prompt = 0] = FreeSlot(st.sl[s], 0)
    BY DEF FreeSlot, IdleSlot
  <2>4. DOMAIN gone.sl = Slots
    BY <1>1, <1>3
  <2>5. /\ PromptClear(gone, s).sl[s] = FreeSlot(st.sl[s], 0)
        /\ \A r \in Slots \ {s} : PromptClear(gone, s).sl[r] = st.sl[r]
    BY <2>1, <2>2, <2>3, <2>4
  <2> QED BY <1>4, <1>5, <2>1, <2>5 DEF IsChild, PromptLeft
<1>6. CASE ~IsChild(st.sl, s)
  <2>1. Thinner(st.m, gone.m) /\ Apart(st.m, gone.m, {s})
    BY <1>3 DEF Thinner, Apart
  <2> QED BY <1>1, <1>3, <1>4, <1>6, <2>1 DEF IsChild, PromptLeft
<1> QED BY <1>5, <1>6

\* The slots in T are released, and their memory is empty.
Erased(st, u, T) ==
  /\ Thinner(st.m, u.m) /\ Apart(st.m, u.m, T)
  /\ \A r \in Slots : IF r \in T THEN /\ u.sl[r] = FreeSlot(st.sl[r], 0)
                                      /\ FromZero(st.m) => ~Has(u.m, r)
                      ELSE u.sl[r] = st.sl[r]

LEMMA EraseOne ==
  ASSUME NEW st \in SlotsAndMemory, NEW u \in SlotsAndMemory, NEW T \in SUBSET Slots,
         Erased(st, u, T), NEW s \in Slots \ T
  PROVE  /\ PromptClear(Release(u, s), s) \in SlotsAndMemory
         /\ Erased(st, PromptClear(Release(u, s), s), T \cup {s})
<1> DEFINE v == Release(u, s)
           w == PromptClear(v, s)
<1>1. /\ v \in SlotsAndMemory
      /\ \A r \in Slots \ {s} : v.sl[r] = u.sl[r]
      /\ v.sl[s] = FreeSlot(u.sl[s], PromptLeft(u.sl[s]))
      /\ Thinner(u.m, v.m) /\ Apart(u.m, v.m, {s})
  BY ReleaseIs
<1> HIDE DEF v
<1>2. /\ w \in SlotsAndMemory /\ w.sl = [v.sl EXCEPT ![s].prompt = 0]
      /\ Thinner(v.m, w.m) /\ Apart(v.m, w.m, {s})
      /\ FromZero(v.m) => ~Has(w.m, s)
  BY <1>1, PromptClearIs
<1> HIDE DEF w
<1>3. v.sl \in [Slots -> SlotRec]
  BY <1>1 DEF SlotsAndMemory
<1>4. w.sl[s] = FreeSlot(st.sl[s], 0)
  <2>1. u.sl[s] = st.sl[s]
    BY DEF Erased
  <2>2. [FreeSlot(u.sl[s], PromptLeft(u.sl[s])) EXCEPT !.prompt = 0] = FreeSlot(u.sl[s], 0)
    BY DEF FreeSlot, IdleSlot
  <2> QED BY <1>1, <1>2, <1>3, <2>1, <2>2
<1>5. \A r \in Slots \ {s} : w.sl[r] = u.sl[r]
  BY <1>1, <1>2, <1>3
<1>6. Thinner(st.m, w.m) /\ (FromZero(st.m) => FromZero(v.m))
      /\ \A r \in Slots : Has(w.m, r) => Has(u.m, r)
  BY <1>1, <1>2 DEF Thinner, Erased
<1>7. Apart(st.m, w.m, T \cup {s})
  BY <1>1, <1>2 DEF Apart, Erased
<1>8. Erased(st, w, T \cup {s})
  BY <1>2, <1>4, <1>5, <1>6, <1>7 DEF Erased
<1> QED BY <1>2, <1>8 DEF w, v

\* Choosing any element of a set of slots.
LEMMA AnyOf ==
  ASSUME NEW C \in SUBSET Slots
  PROVE  Chooses([s \in NonEmpty(C) |-> CHOOSE x \in s : TRUE], C)
<1>1. NSlots \in Int /\ 1 \in Int
  BY BatchAssumption
<1>2. IsFiniteSet(C)
  BY <1>1, BoundedFinite DEF Slots
<1> QED BY <1>2 DEF Chooses, NonEmpty

\* An error releases and clears every slot that is processing.
LEMMA ErrorAllIs ==
  ASSUME NEW st \in SlotsAndMemory
  PROVE  /\ ErrorAll(st) \in SlotsAndMemory
         /\ Erased(st, ErrorAll(st), {s \in Slots : IsProcessing(st.sl, s)})
<1> DEFINE C == {s \in Slots : IsProcessing(st.sl, s)}
           V == SlotsAndMemory
           ch == [s \in NonEmpty(C) |-> CHOOSE x \in s : TRUE]
           op(u, s) == PromptClear(Release(u, s), s)
           F == [p \in NonEmpty(C) \X V |-> op(p[2], CHOOSE x \in p[1] : TRUE)]
           it == CHOOSE h : h = [s \in SUBSET C |->
                   IF s = {} THEN st ELSE op(h[s \ {CHOOSE x \in s : TRUE}], CHOOSE x \in s : TRUE)]
           H == {p \in (SUBSET C) \X V : Erased(st, p[2], p[1])}
<1>1. Chooses(ch, C) /\ C \in SUBSET Slots
  BY AnyOf
<1>2. \A s \in NonEmpty(C) : ch[s] = (CHOOSE x \in s : TRUE) /\ ch[s] \in s /\ ch[s] \in Slots
                           /\ s \ {ch[s]} \in SUBSET C /\ s \in SUBSET C
                           /\ s \ {ch[s]} \in SUBSET Slots /\ (s \ {ch[s]}) \cup {ch[s]} = s
  BY <1>1 DEF Chooses, NonEmpty
<1>3. ASSUME NEW u \in V, NEW s \in Slots PROVE op(u, s) \in V
  BY ReleaseIs, PromptClearIs
<1>4. \A s \in NonEmpty(C), v \in V : F[<<s, v>>] = op(v, ch[s])
  OBVIOUS
<1>5. Closes(F, C, V)
  <2> HIDE DEF F, C, op, ch
  <2> SUFFICES ASSUME NEW s \in NonEmpty(C), NEW v \in V PROVE F[<<s, v>>] \in V
    BY DEF Closes
  <2>1. F[<<s, v>>] = op(v, ch[s]) /\ ch[s] \in Slots
    BY <1>2, <1>4
  <2> QED BY <1>3, <2>1
<1>6. PICK g : IsFold(g, C, V, st, ch, F)
  <2> HIDE DEF F, C, ch
  <2> QED BY <1>1, <1>5, FoldExists DEF Closes
<1>7. g = [s \in SUBSET C |->
             IF s = {} THEN st ELSE op(g[s \ {CHOOSE x \in s : TRUE}], CHOOSE x \in s : TRUE)]
  <2>1. g \in [SUBSET C -> V] /\ g[{}] = st
    BY <1>6 DEF IsFold
  <2>2. \A s \in SUBSET C : s # {} => s \in NonEmpty(C)
    BY DEF NonEmpty
  <2>3. ASSUME NEW s \in NonEmpty(C)
        PROVE  g[s] = op(g[s \ {CHOOSE x \in s : TRUE}], CHOOSE x \in s : TRUE)
    <3> HIDE DEF F, op, ch, C
    <3>1. ch[s] = (CHOOSE x \in s : TRUE) /\ s \ {ch[s]} \in SUBSET C
      BY <1>2
    <3>2. g[s] = F[<<s, g[s \ {ch[s]}]>>]
      BY <1>6 DEF IsFold
    <3>3. g[s \ {ch[s]}] \in V
      BY <2>1, <3>1
    <3> HIDE DEF V
    <3>4. F[<<s, g[s \ {ch[s]}]>>] = op(g[s \ {ch[s]}], ch[s])
      BY <1>4, <3>3
    <3>5. g[s] = op(g[s \ {ch[s]}], ch[s])
      BY <3>2, <3>4
    <3> QED BY <3>1, <3>5
  <2> HIDE DEF op, F, C
  <2> DEFINE h == [s \in SUBSET C |->
               IF s = {} THEN st ELSE op(g[s \ {CHOOSE x \in s : TRUE}], CHOOSE x \in s : TRUE)]
  <2>4. \A s \in SUBSET C : g[s] = h[s]
    BY <2>1, <2>2, <2>3
  <2>5. h = [s \in SUBSET C |-> h[s]] /\ g = [s \in SUBSET C |-> g[s]]
    BY <2>1
  <2>6. g = h
    <3> HIDE DEF h
    <3> QED BY <2>4, <2>5
  <2> QED BY <2>6
<1>8. it = [s \in SUBSET C |->
              IF s = {} THEN st ELSE op(it[s \ {CHOOSE x \in s : TRUE}], CHOOSE x \in s : TRUE)]
  BY <1>7
<1>9. ErrorAll(st) = it[C]
  BY DEF ErrorAll, FoldSet, MapThenFoldSet
<1> HIDE DEF it
<1>10. Follows(it, C, V, st, ch, F)
  <2>1. it[{}] = st
    BY <1>8
  <2>2. ASSUME NEW s \in NonEmpty(C), it[s \ {ch[s]}] \in V
        PROVE  it[s] = F[<<s, it[s \ {ch[s]}]>>]
    <3>1. s # {}
      BY DEF NonEmpty
    <3> HIDE DEF F, op, ch, C
    <3>2. s \in SUBSET C /\ ch[s] = (CHOOSE x \in s : TRUE)
      BY <1>2
    <3>3. it[s] = op(it[s \ {CHOOSE x \in s : TRUE}], CHOOSE x \in s : TRUE)
      BY <1>8, <3>1, <3>2
    <3>4. it[s] = op(it[s \ {ch[s]}], ch[s])
      BY <3>2, <3>3
    <3>5. F[<<s, it[s \ {ch[s]}]>>] = op(it[s \ {ch[s]}], ch[s])
      BY <1>4, <2>2
    <3> QED BY <3>4, <3>5
  <2> HIDE DEF F, ch, C
  <2> QED BY <2>1, <2>2 DEF Follows
<1>11. Carries(H, C, V, st, ch, F)
  <2>1. <<{}, st>> \in H
    BY DEF Erased, Thinner, Apart
  <2>2. ASSUME NEW s \in NonEmpty(C), NEW v \in V, <<s \ {ch[s]}, v>> \in H
        PROVE  <<s, F[<<s, v>>]>> \in H
    <3>1. F[<<s, v>>] = op(v, ch[s]) /\ ch[s] \in Slots \ (s \ {ch[s]})
      BY <1>2, <1>4
    <3>2. Erased(st, v, s \ {ch[s]})
      BY <2>2
    <3>3. op(v, ch[s]) \in V /\ Erased(st, op(v, ch[s]), s)
      <4> HIDE DEF F, ch, C
      <4>1. s \in SUBSET Slots /\ ch[s] \in s
        BY <1>2 DEF C, NonEmpty
      <4>2. s \ {ch[s]} \in SUBSET Slots /\ (s \ {ch[s]}) \cup {ch[s]} = s
        BY <4>1
      <4>3. /\ op(v, ch[s]) \in V
            /\ Erased(st, op(v, ch[s]), (s \ {ch[s]}) \cup {ch[s]})
        BY <3>1, <3>2, <4>2, EraseOne
      <4> QED BY <4>2, <4>3
    <3> HIDE DEF F, ch, op, C
    <3> QED BY <1>2, <3>1, <3>3
  <2> HIDE DEF H, F, ch, C
  <2> QED BY <2>1, <2>2 DEF Carries
<1>12. it[C] \in V /\ <<C, it[C]>> \in H
  <2> HIDE DEF H, F, ch, C
  <2> QED BY <1>1, <1>5, <1>10, <1>11, FoldRule
<1> QED BY <1>9, <1>12

\* The slots in T are released.
ReleasedIn(st, u, T) ==
  /\ Thinner(st.m, u.m) /\ (Single(st.sl) => u.m = st.m)
  /\ \A r \in Slots : IF r \in T THEN /\ u.sl[r] = FreeSlot(st.sl[r], PromptLeft(st.sl[r]))
                                      /\ FromZero(st.m) /\ st.sl[r].parent # 0 => ~Has(u.m, r)
                      ELSE u.sl[r] = st.sl[r]

ReleaseSet(st, C) == FoldSet(LAMBDA c, t : Release(t, c), st, C)

LEMMA ReleaseOne ==
  ASSUME NEW st \in SlotsAndMemory, NEW u \in SlotsAndMemory, NEW T \in SUBSET Slots,
         ReleasedIn(st, u, T), NEW s \in Slots \ T
  PROVE  Release(u, s) \in SlotsAndMemory /\ ReleasedIn(st, Release(u, s), T \cup {s})
<1> DEFINE v == Release(u, s)
<1>1. /\ v \in SlotsAndMemory
      /\ \A r \in Slots \ {s} : v.sl[r] = u.sl[r]
      /\ v.sl[s] = FreeSlot(u.sl[s], PromptLeft(u.sl[s]))
      /\ Thinner(u.m, v.m)
      /\ FromZero(u.m) /\ u.sl[s].parent # 0 => ~Has(v.m, s)
      /\ u.sl[s].parent = 0 => v.m = u.m
  BY ReleaseIs
<1> HIDE DEF v
<1>2. u.sl[s] = st.sl[s] /\ (Single(st.sl) => u.sl[s].parent = 0 /\ u.m = st.m)
  BY DEF ReleasedIn, Single
<1>3. Thinner(st.m, v.m) /\ (FromZero(st.m) => FromZero(u.m))
      /\ \A r \in Slots : Has(v.m, r) => Has(u.m, r)
  BY <1>1 DEF Thinner, ReleasedIn
<1>4. ReleasedIn(st, v, T \cup {s})
  BY <1>1, <1>2, <1>3 DEF ReleasedIn
<1> QED BY <1>1, <1>4 DEF v

\* Of several slots, all are released.
LEMMA ReleaseSetIs ==
  ASSUME NEW st \in SlotsAndMemory, NEW D \in SUBSET Slots
  PROVE  ReleaseSet(st, D) \in SlotsAndMemory /\ ReleasedIn(st, ReleaseSet(st, D), D)
<1> DEFINE C == D
           V == SlotsAndMemory
           ch == [s \in NonEmpty(C) |-> (CHOOSE x \in s : TRUE)]
           op(u, s) == Release(u, s)
           F == [p \in NonEmpty(C) \X V |-> op(p[2], (CHOOSE x \in p[1] : TRUE))]
           it == CHOOSE h : h = [s \in SUBSET C |->
                   IF s = {} THEN st ELSE op(h[s \ {(CHOOSE x \in s : TRUE)}], (CHOOSE x \in s : TRUE))]
           H == {p \in (SUBSET C) \X V : ReleasedIn(st, p[2], p[1])}
<1>1. Chooses(ch, C) /\ C \in SUBSET Slots /\ st \in V
  BY AnyOf
<1>2. \A s \in NonEmpty(C) : ch[s] = (CHOOSE x \in s : TRUE) /\ ch[s] \in s /\ ch[s] \in Slots
                           /\ s \ {ch[s]} \in SUBSET C /\ s \in SUBSET C
                           /\ s \ {ch[s]} \in SUBSET Slots /\ (s \ {ch[s]}) \cup {ch[s]} = s
  <2>1. \A s \in NonEmpty(C) : ch[s] = (CHOOSE x \in s : TRUE)
    OBVIOUS
  <2> HIDE DEF ch
  <2>2. \A s \in NonEmpty(C) : ch[s] \in s /\ s \in SUBSET C
    BY <1>1 DEF Chooses, NonEmpty
  <2> HIDE DEF C
  <2> QED BY <1>1, <2>1, <2>2
<1>3. ASSUME NEW u \in V, NEW s \in Slots PROVE op(u, s) \in V
  BY ReleaseIs
<1>4. \A s \in NonEmpty(C), v \in V : F[<<s, v>>] = op(v, ch[s])
  <2> SUFFICES ASSUME NEW s \in NonEmpty(C), NEW v \in V PROVE F[<<s, v>>] = op(v, ch[s])
    OBVIOUS
  <2>1. F[<<s, v>>] = op(v, (CHOOSE x \in s : TRUE))
    OBVIOUS
  <2> HIDE DEF F, op, ch
  <2> QED BY <1>2, <2>1
<1>5. Closes(F, C, V)
  <2> HIDE DEF F, C, op, ch
  <2> SUFFICES ASSUME NEW s \in NonEmpty(C), NEW v \in V PROVE F[<<s, v>>] \in V
    BY DEF Closes
  <2>1. F[<<s, v>>] = op(v, ch[s]) /\ ch[s] \in Slots
    BY <1>2, <1>4
  <2> QED BY <1>3, <2>1
<1>6. PICK g : IsFold(g, C, V, st, ch, F)
  <2> HIDE DEF F, C, ch, V
  <2> QED BY <1>1, <1>5, FoldExists DEF Closes
<1>7. g = [s \in SUBSET C |-> IF s = {} THEN st ELSE op(g[s \ {(CHOOSE x \in s : TRUE)}], (CHOOSE x \in s : TRUE))]
  <2>1. g \in [SUBSET C -> V] /\ g[{}] = st
    BY <1>6 DEF IsFold
  <2>2. \A s \in SUBSET C : s # {} => s \in NonEmpty(C)
    BY DEF NonEmpty
  <2>3. ASSUME NEW s \in NonEmpty(C) PROVE g[s] = op(g[s \ {(CHOOSE x \in s : TRUE)}], (CHOOSE x \in s : TRUE))
    <3> HIDE DEF F, op, ch, C
    <3>1. ch[s] = (CHOOSE x \in s : TRUE) /\ ch[s] = (CHOOSE x \in s : TRUE) /\ s \ {ch[s]} \in SUBSET C
      BY <1>2
    <3>2. g[s] = F[<<s, g[s \ {ch[s]}]>>] /\ g[s \ {ch[s]}] \in V
      BY <1>6, <2>1, <3>1 DEF IsFold
    <3>3. g[s] = op(g[s \ {ch[s]}], ch[s])
      BY <1>4, <3>2
    <3> QED BY <3>1, <3>3
  <2> HIDE DEF op, F, C
  <2> DEFINE h == [s \in SUBSET C |-> IF s = {} THEN st ELSE op(g[s \ {(CHOOSE x \in s : TRUE)}], (CHOOSE x \in s : TRUE))]
  <2>4. \A s \in SUBSET C : g[s] = h[s]
    BY <2>1, <2>2, <2>3
  <2>5. h = [s \in SUBSET C |-> h[s]] /\ g = [s \in SUBSET C |-> g[s]]
    BY <2>1
  <2>6. g = h
    <3> HIDE DEF h
    <3> QED BY <2>4, <2>5
  <2> QED BY <2>6
<1>8. it = [s \in SUBSET C |-> IF s = {} THEN st ELSE op(it[s \ {(CHOOSE x \in s : TRUE)}], (CHOOSE x \in s : TRUE))]
  BY <1>7
<1>9. ReleaseSet(st, D) = it[C]
  BY DEF ReleaseSet, FoldSet, MapThenFoldSet
<1> HIDE DEF it
<1>10. Follows(it, C, V, st, ch, F)
  <2>1. it[{}] = st
    BY <1>8
  <2>2. ASSUME NEW s \in NonEmpty(C), it[s \ {ch[s]}] \in V
        PROVE  it[s] = F[<<s, it[s \ {ch[s]}]>>]
    <3>1. s # {}
      BY DEF NonEmpty
    <3> HIDE DEF F, op, ch, C
    <3>2. s \in SUBSET C
      BY <1>2
    <3>3. it[s] = op(it[s \ {(CHOOSE x \in s : TRUE)}], (CHOOSE x \in s : TRUE))
      BY <1>8, <3>1, <3>2
    <3>4. it[s] = op(it[s \ {ch[s]}], ch[s])
      BY <1>2, <3>3
    <3>5. F[<<s, it[s \ {ch[s]}]>>] = op(it[s \ {ch[s]}], ch[s])
      BY <1>4, <2>2
    <3> QED BY <3>4, <3>5
  <2> HIDE DEF F, ch, C
  <2> QED BY <2>1, <2>2 DEF Follows
<1>11. Carries(H, C, V, st, ch, F)
  <2>1. <<{}, st>> \in H
    BY <1>1 DEF ReleasedIn, Thinner
  <2>2. ASSUME NEW s \in NonEmpty(C), NEW v \in V, <<s \ {ch[s]}, v>> \in H
        PROVE  <<s, F[<<s, v>>]>> \in H
    <3>1. F[<<s, v>>] = op(v, ch[s]) /\ ch[s] \in Slots \ (s \ {ch[s]}) /\ ch[s] \in C \ (s \ {ch[s]})
      BY <1>2, <1>4
    <3>2. ReleasedIn(st, v, s \ {ch[s]})
      BY <2>2
    <3>3. op(v, ch[s]) \in V /\ ReleasedIn(st, op(v, ch[s]), s)
      <4> HIDE DEF ch, C
      <4>1. Release(v, ch[s]) \in SlotsAndMemory /\ ReleasedIn(st, Release(v, ch[s]), (s \ {ch[s]}) \cup {ch[s]})
        BY <1>2, <3>1, <3>2, ReleaseOne
      <4> QED BY <1>2, <4>1
    <3> HIDE DEF F, ch, op, C
    <3> QED BY <1>2, <3>1, <3>3
  <2> HIDE DEF H, F, ch, C
  <2> QED BY <2>1, <2>2 DEF Carries
<1>12. it[C] \in V /\ <<C, it[C]>> \in H
  <2> HIDE DEF H, F, ch, C, V
  <2> QED BY <1>1, <1>5, <1>10, <1>11, FoldRule
<1> QED BY <1>9, <1>12

-----------------------------------------------------------------------------
(* The batch is built.                                                      *)

\* What a shift may make of slot x, with memory m after it.
ShiftOf(x, y, m0, m, r) ==
  \/ y = x
  \/ /\ x.state = "gen"
     /\ \/ /\ y = FreeSlot(x, PromptLeft(x))
           /\ FromZero(m0) /\ x.parent # 0 => ~Has(m, r)
        \/ \E p \in Int : /\ y = [x EXCEPT !.prompt = p]
                          /\ x.prompt >= 1 /\ mix.cells >= 2 => p >= 0

\* A context that is not shared: as it was with room for a token, or given up, or
\* with its memory moved up as its prompt is, and room.
Refitted(x, y, P, Q) ==
  \/ y = x /\ Q = P /\ (x.state = "gen" => x.prompt + 1 < mix.cells)
  \/ y = FreeSlot(x, x.prompt) /\ Q = P
  \/ x.state = "gen" /\ y = [x EXCEPT !.prompt = y.prompt]
     /\ (x.prompt \in 1..mix.cells - 1 /\ P = 0..x.prompt - 1
           => y.prompt \in Nat /\ y.prompt + 1 < mix.cells /\ Q = 0..y.prompt - 1)

\* The memory of the slots in T is refitted, when nothing is shared.
RefittedIn(st, u, T) ==
  Alone(st.m) =>
    /\ Alone(u.m)
    /\ \A r \in Slots :
         IF r \in T THEN st.sl[r].parent = 0
                          => Refitted(st.sl[r], u.sl[r], Positions(st.m, r), Positions(u.m, r))
         ELSE Positions(u.m, r) = Positions(st.m, r)

Shifted(st, u, T) ==
  /\ Thinner(st.m, u.m) /\ RefittedIn(st, u, T)
  /\ \A r \in Slots : IF r \in T THEN ShiftOf(st.sl[r], u.sl[r], st.m, u.m, r)
                      ELSE u.sl[r] = st.sl[r]

LEMMA ShiftOne ==
  ASSUME BatchTyped, NEW u \in SlotsAndMemory, NEW s \in Slots
  PROVE  /\ ContextShift(u, s) \in SlotsAndMemory
         /\ Thinner(u.m, ContextShift(u, s).m)
         /\ \A r \in Slots \ {s} : ContextShift(u, s).sl[r] = u.sl[r]
         /\ ShiftOf(u.sl[s], ContextShift(u, s).sl[s], u.m, ContextShift(u, s).m, s)
<1>1. u.sl \in [Slots -> SlotRec] /\ u.m \in Memory /\ u.sl[s] \in SlotRec
      /\ u.sl[s].prompt \in Int
  BY DEF SlotsAndMemory, SlotRec
<1>2. mix.cells \in Nat \ {0}
  BY BatchAssumption DEF BatchTyped
<1>3. CASE u.sl[s].state # "gen" \/ u.sl[s].prompt + 1 < mix.cells
  BY <1>1, <1>3 DEF ContextShift, Thinner, ShiftOf
<1>4. CASE ~(u.sl[s].state # "gen" \/ u.sl[s].prompt + 1 < mix.cells)
           /\ (~mix.shift \/ IsParent(u.sl, s) \/ IsChild(u.sl, s))
  <2>1. ContextShift(u, s) = Release(u, s)
    BY <1>4 DEF ContextShift
  <2> DEFINE w == Release(u, s)
  <2>2. /\ w \in SlotsAndMemory /\ Thinner(u.m, w.m)
        /\ \A r \in Slots \ {s} : w.sl[r] = u.sl[r]
        /\ w.sl[s] = FreeSlot(u.sl[s], PromptLeft(u.sl[s]))
        /\ FromZero(u.m) /\ u.sl[s].parent # 0 => ~Has(w.m, s)
    BY ReleaseIs
  <2> HIDE DEF w
  <2>3. ShiftOf(u.sl[s], w.sl[s], u.m, w.m, s)
    BY <1>4, <2>2 DEF ShiftOf
  <2> QED BY <2>1, <2>2, <2>3 DEF w
<1>5. CASE ~(u.sl[s].state # "gen" \/ u.sl[s].prompt + 1 < mix.cells)
           /\ ~(~mix.shift \/ IsParent(u.sl, s) \/ IsChild(u.sl, s))
  <2> DEFINE n == (u.sl[s].prompt - NKeep) \div 2
             m == Rm(u.m, s, NKeep, NKeep + n)
             w == Shift(m, s, NKeep + n, u.sl[s].prompt, -n)
  <2>1. NKeep \in {mix.cells - 4, 1} /\ NKeep \in Int
    <3>1. mix.cells - 4 \in Int /\ 1 \in Int
      BY <1>2
    <3> QED BY <3>1, LeastOfTwo DEF NKeep
  <2>2. n \in Int /\ (u.sl[s].prompt >= 1 /\ mix.cells >= 2 => u.sl[s].prompt - n >= 0)
    <3>1. \A a \in Int : a \div 2 \in Int /\ 2 * (a \div 2) <= a
      OBVIOUS
    <3>2. u.sl[s].prompt - NKeep \in Int
      BY <1>1, <2>1
    <3>3. 2 * n <= u.sl[s].prompt - NKeep /\ n \in Int
      BY <3>1, <3>2
    <3> HIDE DEF n
    <3> QED BY <1>1, <1>2, <2>1, <3>3
  <2>3. ContextShift(u, s) = [sl |-> [u.sl EXCEPT ![s].prompt = @ - n], m |-> w]
    BY <1>5 DEF ContextShift, ShiftSlot
  <2> HIDE DEF n
  <2>4. m \in Memory /\ Thinner(u.m, m)
    BY <1>1, <2>1, <2>2, RmKeeps DEF Thinner
  <2> HIDE DEF m
  <2>5. w \in Memory /\ Thinner(m, w)
    BY <1>1, <2>1, <2>2, <2>4, ShiftKeeps DEF Thinner
  <2> HIDE DEF w
  <2>6. Thinner(u.m, w)
    BY <2>4, <2>5 DEF Thinner
  <2> DEFINE q == u.sl[s].prompt - n
             sl == [u.sl EXCEPT ![s].prompt = @ - n]
  <2>7. q \in Int /\ sl[s] = [u.sl[s] EXCEPT !.prompt = q] /\ sl \in [Slots -> SlotRec]
        /\ \A r \in Slots \ {s} : sl[r] = u.sl[r]
    BY <1>1, <2>2 DEF SlotRec
  <2>8. ContextShift(u, s).sl = sl /\ ContextShift(u, s).m = w
        /\ ContextShift(u, s) \in SlotsAndMemory
    BY <2>3, <2>5, <2>7 DEF SlotsAndMemory
  <2>9. u.sl[s].prompt >= 1 /\ mix.cells >= 2 => q >= 0
    BY <2>2
  <2> HIDE DEF q, sl
  <2> QED BY <1>5, <2>6, <2>7, <2>8, <2>9 DEF ShiftOf
<1> QED BY <1>3, <1>4, <1>5

LEMMA RefitOne ==
  ASSUME BatchTyped, NEW u \in SlotsAndMemory, NEW s \in Slots, Alone(u.m)
  PROVE  /\ Apart(u.m, ContextShift(u, s).m, {s})
         /\ u.sl[s].parent = 0 => Refitted(u.sl[s], ContextShift(u, s).sl[s],
                                           Positions(u.m, s), Positions(ContextShift(u, s).m, s))
<1>1. u.sl \in [Slots -> SlotRec] /\ u.m \in Memory /\ u.sl[s] \in SlotRec
      /\ u.sl[s].prompt \in Int
  BY DEF SlotsAndMemory, SlotRec
<1>2. mix.cells \in Nat \ {0}
  BY BatchAssumption DEF BatchTyped
<1>3. CASE u.sl[s].state # "gen" \/ u.sl[s].prompt + 1 < mix.cells
  BY <1>1, <1>3 DEF ContextShift, Apart, Refitted
<1>4. CASE ~(u.sl[s].state # "gen" \/ u.sl[s].prompt + 1 < mix.cells)
           /\ (~mix.shift \/ IsParent(u.sl, s) \/ IsChild(u.sl, s))
  <2>1. ContextShift(u, s) = Release(u, s)
    BY <1>4 DEF ContextShift
  <2> DEFINE w == Release(u, s)
  <2>2. /\ w.sl[s] = FreeSlot(u.sl[s], PromptLeft(u.sl[s]))
        /\ Apart(u.m, w.m, {s})
        /\ u.sl[s].parent = 0 => w.m = u.m
    BY ReleaseIs
  <2> HIDE DEF w
  <2>3. ASSUME u.sl[s].parent = 0
        PROVE  Refitted(u.sl[s], w.sl[s], Positions(u.m, s), Positions(w.m, s))
    BY <2>2, <2>3 DEF Refitted, PromptLeft
  <2> QED BY <2>1, <2>2, <2>3 DEF w
<1>5. CASE ~(u.sl[s].state # "gen" \/ u.sl[s].prompt + 1 < mix.cells)
           /\ ~(~mix.shift \/ IsParent(u.sl, s) \/ IsChild(u.sl, s))
  <2> DEFINE x == u.sl[s]
             n == (x.prompt - NKeep) \div 2
             m == Rm(u.m, s, NKeep, NKeep + n)
             w == Shift(m, s, NKeep + n, x.prompt, -n)
             q == x.prompt - n
  <2>1. NKeep \in {mix.cells - 4, 1} /\ NKeep \in Int /\ NKeep <= 1 /\ NKeep <= mix.cells - 4
    <3>1. mix.cells - 4 \in Int /\ 1 \in Int
      BY <1>2
    <3> QED BY <3>1, LeastOfTwo DEF NKeep
  <2>2. n \in Int /\ 2 * n <= x.prompt - NKeep /\ x.prompt - NKeep <= 2 * n + 1
    <3>1. \A a \in Int : a \div 2 \in Int /\ 2 * (a \div 2) <= a /\ a <= 2 * (a \div 2) + 1
      OBVIOUS
    <3>2. x.prompt - NKeep \in Int
      BY <1>1, <2>1
    <3> QED BY <3>1, <3>2
  <2>3. ContextShift(u, s) = [sl |-> [u.sl EXCEPT ![s].prompt = @ - n], m |-> w]
    BY <1>5 DEF ContextShift, ShiftSlot
  <2> HIDE DEF n
  <2>4. NowAt(u.m, m, s, {p \in Positions(u.m, s) : ~(NKeep <= p /\ p < NKeep + n)})
    <3>1. NKeep + n \in Int
      BY <2>1, <2>2
    <3> QED BY <1>1, <2>1, <3>1, AloneRm
  <2> HIDE DEF m
  <2>5. NowAt(m, w, s, MovedBy(Positions(m, s), NKeep + n, x.prompt, -n))
    <3>1. NKeep + n \in Int /\ -n \in Int /\ x.prompt \in Int
      BY <1>1, <2>1, <2>2
    <3>2. m \in Memory /\ Alone(m)
      BY <2>4 DEF NowAt
    <3> QED BY <3>1, <3>2, AloneShift
  <2> HIDE DEF w
  <2>6. Apart(u.m, w, {s})
    BY <2>4, <2>5 DEF NowAt, Apart
  <2>7. q \in Int /\ ContextShift(u, s).sl[s] = [x EXCEPT !.prompt = q] /\ ContextShift(u, s).m = w
    BY <1>1, <2>2, <2>3
  <2>8. ASSUME x.prompt \in 1..mix.cells - 1, Positions(u.m, s) = 0..x.prompt - 1
        PROVE  q \in Nat /\ q + 1 < mix.cells /\ Positions(w, s) = 0..q - 1
    <3>1. x.prompt = mix.cells - 1 /\ x.prompt \in Nat /\ x.prompt >= 1
      BY <1>2, <1>5, <2>8
    <3>2. n >= 1 /\ n <= x.prompt
      BY <1>2, <2>1, <2>2, <3>1
    <3>3. q \in Nat /\ q + 1 < mix.cells
      BY <1>2, <2>2, <3>1, <3>2
    <3>4. \A p \in Int : p \in Positions(m, s) <=> 0 <= p /\ p < x.prompt /\ ~(NKeep <= p /\ p < NKeep + n)
      BY <2>4, <2>8, <3>1 DEF NowAt
    <3>5. Positions(w, s) = MovedBy(Positions(m, s), NKeep + n, x.prompt, -n)
      BY <2>5 DEF NowAt
    <3>6. ASSUME NEW p \in Int PROVE p \in Positions(w, s) <=> 0 <= p /\ p < q
      <4>1. p + n \in Int /\ p - (-n) = p + n
        BY <2>2
      <4>2. p \in Positions(w, s) <=>
              \/ p \in Positions(m, s) /\ ~(NKeep + n <= p /\ p < x.prompt)
              \/ p + n \in Positions(m, s) /\ NKeep + n <= p + n /\ p + n < x.prompt /\ p >= 0
        BY <3>5, <4>1 DEF MovedBy
      <4> HIDE DEF x, q
      <4>3. p \in Positions(m, s) <=> 0 <= p /\ p < x.prompt /\ ~(NKeep <= p /\ p < NKeep + n)
        BY <3>4
      <4>4. p + n \in Positions(m, s) <=> 0 <= p + n /\ p + n < x.prompt /\ ~(NKeep <= p + n /\ p + n < NKeep + n)
        BY <3>4, <4>1
      <4>5. q = x.prompt - n /\ x.prompt \in Int /\ n \in Int
        BY <1>1, <2>2 DEF q, x
      <4>6. NKeep >= 2 => FALSE
        BY <2>1
      <4> QED BY <1>2, <2>1, <2>2, <3>1, <3>2, <4>2, <4>3, <4>4, <4>5
    <3>7. Positions(w, s) \subseteq Int
      BY <3>5 DEF MovedBy
    <3> HIDE DEF q
    <3>8. \A p \in Int : p \in 0..q - 1 <=> 0 <= p /\ p < q
      BY <3>3
    <3>9. 0..q - 1 \subseteq Int
      OBVIOUS
    <3>10. Positions(w, s) = 0..q - 1
      <4> DEFINE A == Positions(w, s)
                 B == 0..q - 1
      <4>1. \A p \in Int : p \in A <=> p \in B
        BY <3>6, <3>8
      <4> HIDE DEF A, B
      <4>2. A \subseteq Int /\ B \subseteq Int
        BY <3>7, <3>9 DEF A, B
      <4>3. A = B
        BY <4>1, <4>2
      <4> QED BY <4>3 DEF A, B
    <3> QED BY <3>3, <3>10
  <2> HIDE DEF q
  <2>9. [x EXCEPT !.prompt = q].prompt = q
    BY <1>1, <2>7 DEF SlotRec
  <2> QED BY <1>5, <2>6, <2>7, <2>8, <2>9 DEF Refitted
<1> QED BY <1>3, <1>4, <1>5

\* The contexts of all slots are shifted, one after the other.
ShiftedAll(st) == InSlotOrder(ContextShift, st)

LEMMA ShiftedAllIs ==
  ASSUME BatchTyped, NEW st \in SlotsAndMemory
  PROVE  ShiftedAll(st) \in SlotsAndMemory /\ Shifted(st, ShiftedAll(st), Slots)
<1>a. ASSUME NEW u \in SlotsAndMemory, NEW T \in SUBSET Slots, Shifted(st, u, T), NEW s \in Slots \ T
      PROVE  ContextShift(u, s) \in SlotsAndMemory /\ Shifted(st, ContextShift(u, s), T \cup {s})
  <2> DEFINE v == ContextShift(u, s)
  <2>1. /\ v \in SlotsAndMemory /\ Thinner(u.m, v.m)
        /\ \A r \in Slots \ {s} : v.sl[r] = u.sl[r]
        /\ ShiftOf(u.sl[s], v.sl[s], u.m, v.m, s)
    BY ShiftOne
  <2>0. ASSUME Alone(u.m)
        PROVE  /\ Apart(u.m, v.m, {s})
               /\ u.sl[s].parent = 0 => Refitted(u.sl[s], v.sl[s], Positions(u.m, s), Positions(v.m, s))
    BY <2>0, RefitOne
  <2> HIDE DEF v
  <2>2. u.sl[s] = st.sl[s] /\ Thinner(st.m, u.m)
    BY <1>a DEF Shifted
  <2>3. Thinner(st.m, v.m) /\ (FromZero(st.m) => FromZero(u.m))
        /\ \A r \in Slots : Has(v.m, r) => Has(u.m, r)
    BY <2>1, <2>2 DEF Thinner
  <2>4. ShiftOf(st.sl[s], v.sl[s], st.m, v.m, s)
    BY <2>1, <2>2, <2>3 DEF ShiftOf
  <2>5. ASSUME NEW r \in T PROVE ShiftOf(st.sl[r], v.sl[r], st.m, v.m, r)
    <3>1. ShiftOf(st.sl[r], u.sl[r], st.m, u.m, r) /\ v.sl[r] = u.sl[r]
      BY <1>a, <2>1 DEF Shifted
    <3> QED BY <2>3, <3>1 DEF ShiftOf
  <2>7. RefittedIn(st, v, T \cup {s})
    <3> SUFFICES ASSUME Alone(st.m)
                 PROVE  /\ Alone(v.m)
                        /\ \A r \in Slots :
                             IF r \in T \cup {s}
                             THEN st.sl[r].parent = 0
                                    => Refitted(st.sl[r], v.sl[r], Positions(st.m, r), Positions(v.m, r))
                             ELSE Positions(v.m, r) = Positions(st.m, r)
      BY DEF RefittedIn
    <3>1. /\ Alone(u.m)
          /\ \A r \in Slots :
               IF r \in T THEN st.sl[r].parent = 0
                                => Refitted(st.sl[r], u.sl[r], Positions(st.m, r), Positions(u.m, r))
               ELSE Positions(u.m, r) = Positions(st.m, r)
      BY <1>a DEF Shifted, RefittedIn
    <3>2. /\ Alone(v.m) /\ \A r \in Slots \ {s} : Positions(v.m, r) = Positions(u.m, r)
          /\ u.sl[s].parent = 0 => Refitted(u.sl[s], v.sl[s], Positions(u.m, s), Positions(v.m, s))
      BY <2>0, <3>1 DEF Apart
    <3>3. Positions(u.m, s) = Positions(st.m, s) /\ \A r \in T : v.sl[r] = u.sl[r]
      BY <1>a, <2>1, <3>1
    <3> QED BY <2>2, <3>1, <3>2, <3>3
  <2>6. Shifted(st, v, T \cup {s})
    BY <1>a, <2>1, <2>3, <2>4, <2>5, <2>7 DEF Shifted
  <2> QED BY <2>1, <2>6 DEF v
<1> DEFINE id == [s \in Slots |-> s]
           C == DOMAIN id
           V == SlotsAndMemory
           ch == [s \in NonEmpty(C) |-> Max(s)]
           op(u, s) == ContextShift(u, s)
           F == [p \in NonEmpty(C) \X V |-> op(p[2], id[Max(p[1])])]
           it == CHOOSE h : h = [s \in SUBSET C |->
                   IF s = {} THEN st ELSE op(h[s \ {Max(s)}], id[Max(s)])]
           H == {p \in (SUBSET C) \X V : Shifted(st, p[2], p[1])}
<1>1. Chooses(ch, C) /\ C \in SUBSET Slots /\ st \in V
  <2>1. C = 1..NSlots /\ NSlots \in Nat /\ C = Slots
    BY BatchAssumption DEF Slots
  <2>2. Chooses(ch, C)
    <3> HIDE DEF id
    <3> QED BY <2>1, LastOf
  <2> QED BY <2>1, <2>2
<1>2. \A s \in NonEmpty(C) : ch[s] = id[Max(s)] /\ ch[s] = Max(s) /\ ch[s] \in s /\ ch[s] \in Slots
                           /\ s \ {ch[s]} \in SUBSET C /\ s \in SUBSET C
                           /\ s \ {ch[s]} \in SUBSET Slots /\ (s \ {ch[s]}) \cup {ch[s]} = s
  <2>1. \A s \in NonEmpty(C) : ch[s] = Max(s)
    OBVIOUS
  <2> HIDE DEF ch
  <2>2. \A s \in NonEmpty(C) : ch[s] \in s /\ s \in SUBSET C
    BY <1>1 DEF Chooses, NonEmpty
  <2> HIDE DEF C
  <2> QED BY <1>1, <2>1, <2>2
<1>3. ASSUME NEW u \in V, NEW s \in Slots PROVE op(u, s) \in V
  BY ShiftOne
<1>4. \A s \in NonEmpty(C), v \in V : F[<<s, v>>] = op(v, ch[s])
  <2> SUFFICES ASSUME NEW s \in NonEmpty(C), NEW v \in V PROVE F[<<s, v>>] = op(v, ch[s])
    OBVIOUS
  <2>1. F[<<s, v>>] = op(v, id[Max(s)])
    OBVIOUS
  <2> HIDE DEF F, op, ch
  <2> QED BY <1>2, <2>1
<1>5. Closes(F, C, V)
  <2> HIDE DEF F, C, op, ch
  <2> SUFFICES ASSUME NEW s \in NonEmpty(C), NEW v \in V PROVE F[<<s, v>>] \in V
    BY DEF Closes
  <2>1. F[<<s, v>>] = op(v, ch[s]) /\ ch[s] \in Slots
    BY <1>2, <1>4
  <2> QED BY <1>3, <2>1
<1>6. PICK g : IsFold(g, C, V, st, ch, F)
  <2> HIDE DEF F, C, ch, V
  <2> QED BY <1>1, <1>5, FoldExists DEF Closes
<1>7. g = [s \in SUBSET C |-> IF s = {} THEN st ELSE op(g[s \ {Max(s)}], id[Max(s)])]
  <2>1. g \in [SUBSET C -> V] /\ g[{}] = st
    BY <1>6 DEF IsFold
  <2>2. \A s \in SUBSET C : s # {} => s \in NonEmpty(C)
    BY DEF NonEmpty
  <2>3. ASSUME NEW s \in NonEmpty(C) PROVE g[s] = op(g[s \ {Max(s)}], id[Max(s)])
    <3> HIDE DEF F, op, ch, C
    <3>1. ch[s] = Max(s) /\ ch[s] = id[Max(s)] /\ s \ {ch[s]} \in SUBSET C
      BY <1>2
    <3>2. g[s] = F[<<s, g[s \ {ch[s]}]>>] /\ g[s \ {ch[s]}] \in V
      BY <1>6, <2>1, <3>1 DEF IsFold
    <3>3. g[s] = op(g[s \ {ch[s]}], ch[s])
      BY <1>4, <3>2
    <3> QED BY <3>1, <3>3
  <2> HIDE DEF op, F, C
  <2> DEFINE h == [s \in SUBSET C |-> IF s = {} THEN st ELSE op(g[s \ {Max(s)}], id[Max(s)])]
  <2>4. \A s \in SUBSET C : g[s] = h[s]
    BY <2>1, <2>2, <2>3
  <2>5. h = [s \in SUBSET C |-> h[s]] /\ g = [s \in SUBSET C |-> g[s]]
    BY <2>1
  <2>6. g = h
    <3> HIDE DEF h
    <3> QED BY <2>4, <2>5
  <2> QED BY <2>6
<1>8. it = [s \in SUBSET C |-> IF s = {} THEN st ELSE op(it[s \ {Max(s)}], id[Max(s)])]
  BY <1>7
<1>9. ShiftedAll(st) = it[C]
  BY DEF ShiftedAll, InSlotOrder, FoldLeft, MapThenFoldSet
<1> HIDE DEF it
<1>10. Follows(it, C, V, st, ch, F)
  <2>1. it[{}] = st
    BY <1>8
  <2>2. ASSUME NEW s \in NonEmpty(C), it[s \ {ch[s]}] \in V
        PROVE  it[s] = F[<<s, it[s \ {ch[s]}]>>]
    <3>1. s # {}
      BY DEF NonEmpty
    <3> HIDE DEF F, op, ch, C
    <3>2. s \in SUBSET C
      BY <1>2
    <3>3. it[s] = op(it[s \ {Max(s)}], id[Max(s)])
      BY <1>8, <3>1, <3>2
    <3>4. it[s] = op(it[s \ {ch[s]}], ch[s])
      BY <1>2, <3>3
    <3>5. F[<<s, it[s \ {ch[s]}]>>] = op(it[s \ {ch[s]}], ch[s])
      BY <1>4, <2>2
    <3> QED BY <3>4, <3>5
  <2> HIDE DEF F, ch, C
  <2> QED BY <2>1, <2>2 DEF Follows
<1>11. Carries(H, C, V, st, ch, F)
  <2>1. <<{}, st>> \in H
    BY <1>1 DEF Shifted, Thinner, RefittedIn
  <2>2. ASSUME NEW s \in NonEmpty(C), NEW v \in V, <<s \ {ch[s]}, v>> \in H
        PROVE  <<s, F[<<s, v>>]>> \in H
    <3>1. F[<<s, v>>] = op(v, ch[s]) /\ ch[s] \in Slots \ (s \ {ch[s]}) /\ ch[s] \in C \ (s \ {ch[s]})
      BY <1>2, <1>4
    <3>2. Shifted(st, v, s \ {ch[s]})
      BY <2>2
    <3>3. op(v, ch[s]) \in V /\ Shifted(st, op(v, ch[s]), s)
      <4> HIDE DEF ch, C, id
      <4>1. ContextShift(v, ch[s]) \in SlotsAndMemory
            /\ Shifted(st, ContextShift(v, ch[s]), (s \ {ch[s]}) \cup {ch[s]})
        BY <1>a, <1>2, <3>1, <3>2
      <4> QED BY <1>2, <4>1
    <3> HIDE DEF F, ch, op, C
    <3> QED BY <1>2, <3>1, <3>3
  <2> HIDE DEF H, F, ch, C
  <2> QED BY <2>1, <2>2 DEF Carries
<1>12. it[C] \in V /\ <<C, it[C]>> \in H
  <2> HIDE DEF H, F, ch, C, V
  <2> QED BY <1>1, <1>5, <1>10, <1>11, FoldRule
<1> QED BY <1>9, <1>12

\* The slots of T have their tokens in the batch b.
Added(sl, u, T) ==
  /\ \A r \in Slots :
       IF r \in T /\ sl[r].state = "gen"
       THEN \E k \in 1..Len(u.b) : /\ u.sl[r] = [sl[r] EXCEPT !.prompt = @ + 1, !.ibatch = k - 1]
                                   /\ u.b[k] = [slot |-> r, pos |-> sl[r].prompt]
       ELSE u.sl[r] = sl[r]
  /\ \A k \in 1..Len(u.b) :
       /\ u.b[k].slot \in T /\ sl[u.b[k].slot].state = "gen"
       /\ u.b[k].pos = sl[u.b[k].slot].prompt /\ u.sl[u.b[k].slot].ibatch >= k - 1
  /\ \A j, k \in 1..Len(u.b) : j # k => u.b[j].slot # u.b[k].slot
SlotsAndBatch == [sl : [Slots -> SlotRec], b : Seq(Token)]
AddedAll(sl) == InSlotOrder(AddSampled, [sl |-> sl, b |-> <<>>])

LEMMA AddSampledTyped ==
  ASSUME NEW u \in SlotsAndBatch, NEW s \in Slots PROVE AddSampled(u, s) \in SlotsAndBatch
<1>1. u.sl \in [Slots -> SlotRec] /\ u.b \in Seq(Token) /\ u.sl[s].prompt \in Int /\ Len(u.b) \in Int
  BY DEF SlotsAndBatch, SlotRec
<1>2. [slot |-> s, pos |-> u.sl[s].prompt] \in Token
  BY <1>1 DEF Token
<1>3. Append(u.b, [slot |-> s, pos |-> u.sl[s].prompt]) \in Seq(Token)
  BY <1>1, <1>2
<1>4. [u.sl EXCEPT ![s] = [u.sl[s] EXCEPT !.prompt = @ + 1, !.ibatch = Len(u.b)]] \in [Slots -> SlotRec]
  <2>1. u.sl[s] \in SlotRec /\ u.sl[s].prompt + 1 \in Int
    BY <1>1
  <2>2. [u.sl[s] EXCEPT !.prompt = @ + 1, !.ibatch = Len(u.b)] \in SlotRec
    BY <1>1, <2>1 DEF SlotRec
  <2> QED BY <1>1, <2>2
<1>5. CASE u.sl[s].state = "gen"
  BY <1>1, <1>3, <1>4, <1>5 DEF AddSampled, SlotsAndBatch
<1> QED BY <1>5 DEF AddSampled

LEMMA AddSampledOne ==
  ASSUME NEW sl \in [Slots -> SlotRec], NEW u \in SlotsAndBatch, NEW T \in SUBSET Slots,
         Added(sl, u, T), NEW s \in Slots \ T
  PROVE  Added(sl, AddSampled(u, s), T \cup {s})
<1>1. u.sl \in [Slots -> SlotRec] /\ u.b \in Seq(Token) /\ u.sl[s].prompt \in Int /\ Len(u.b) \in Nat
      /\ u.sl[s] = sl[s]
  <2>1. u.sl \in [Slots -> SlotRec] /\ u.b \in Seq(Token)
    BY DEF SlotsAndBatch
  <2>2. u.sl[s] = sl[s]
    BY DEF Added
  <2>3. u.sl[s].prompt \in Int
    BY <2>1 DEF SlotRec
  <2> QED BY <2>1, <2>2, <2>3
<1>2. CASE u.sl[s].state # "gen"
  BY <1>1, <1>2 DEF AddSampled, Added
<1>3. CASE u.sl[s].state = "gen"
  <2> DEFINE tok == [slot |-> s, pos |-> sl[s].prompt]
             b == Append(u.b, tok)
             y == [sl[s] EXCEPT !.prompt = @ + 1, !.ibatch = Len(u.b)]
             v == AddSampled(u, s)
  <2>1. v.b = b /\ v.sl = [u.sl EXCEPT ![s] = y]
    BY <1>1, <1>3 DEF AddSampled, SlotsAndBatch
  <2>2. Len(b) = Len(u.b) + 1 /\ b[Len(u.b) + 1] = tok /\ \A k \in 1..Len(u.b) : b[k] = u.b[k]
    BY <1>1 DEF Token
  <2>3. v.sl[s] = y /\ y.ibatch = Len(u.b) /\ \A r \in Slots \ {s} : v.sl[r] = u.sl[r]
    BY <1>1, <2>1 DEF SlotRec
  <2> HIDE DEF v, b
  <2>4. ASSUME NEW r \in T, sl[r].state = "gen"
        PROVE  \E k \in 1..Len(b) : /\ v.sl[r] = [sl[r] EXCEPT !.prompt = @ + 1, !.ibatch = k - 1]
                                    /\ b[k] = [slot |-> r, pos |-> sl[r].prompt]
    <3>1. PICK k \in 1..Len(u.b) : /\ u.sl[r] = [sl[r] EXCEPT !.prompt = @ + 1, !.ibatch = k - 1]
                                   /\ u.b[k] = [slot |-> r, pos |-> sl[r].prompt]
      BY <2>4 DEF Added
    <3>2. k \in 1..Len(b) /\ v.sl[r] = u.sl[r] /\ b[k] = u.b[k]
      BY <1>1, <2>2, <2>3, <3>1
    <3> QED BY <3>1, <3>2
  <2>5. \E k \in 1..Len(b) : /\ v.sl[s] = [sl[s] EXCEPT !.prompt = @ + 1, !.ibatch = k - 1]
                             /\ b[k] = [slot |-> s, pos |-> sl[s].prompt]
    <3>1. Len(u.b) + 1 \in 1..Len(b) /\ (Len(u.b) + 1) - 1 = Len(u.b)
      BY <1>1, <2>2
    <3> QED BY <2>2, <2>3, <3>1
  <2>6. ASSUME NEW k \in 1..Len(b)
        PROVE  /\ b[k].slot \in T \cup {s} /\ sl[b[k].slot].state = "gen"
               /\ b[k].pos = sl[b[k].slot].prompt /\ v.sl[b[k].slot].ibatch >= k - 1
    <3>1. CASE k \in 1..Len(u.b)
      <4>1. /\ u.b[k].slot \in T /\ sl[u.b[k].slot].state = "gen" /\ u.b[k].slot # s
            /\ u.b[k].pos = sl[u.b[k].slot].prompt /\ u.sl[u.b[k].slot].ibatch >= k - 1
        BY <3>1 DEF Added
      <4>2. b[k] = u.b[k] /\ u.b[k].slot \in Slots
        BY <2>2, <3>1, <4>1
      <4>3. v.sl[u.b[k].slot] = u.sl[u.b[k].slot]
        BY <2>3, <4>1, <4>2
      <4> QED BY <4>1, <4>2, <4>3
    <3>2. CASE k = Len(u.b) + 1
      <4>1. b[k].slot = s /\ b[k].pos = sl[s].prompt
        BY <2>2, <3>2
      <4>2. v.sl[b[k].slot].ibatch >= k - 1
        <5>1. v.sl[b[k].slot].ibatch = Len(u.b)
          <6> HIDE DEF y
          <6> QED BY <2>3, <4>1
        <5>2. k - 1 = Len(u.b) /\ k - 1 <= Len(u.b)
          BY <1>1, <3>2
        <5> QED BY <5>1, <5>2
      <4> QED BY <1>1, <1>3, <4>1, <4>2
    <3> QED BY <1>1, <2>2, <3>1, <3>2
  <2>7. \A r \in Slots : ~(r \in T \cup {s} /\ sl[r].state = "gen") => v.sl[r] = sl[r]
    BY <1>1, <1>3, <2>3 DEF Added
  <2> HIDE DEF y, tok
  <2>8. Added(sl, v, T \cup {s})
    <3>1. v.b = b
      BY <2>1
    <3>2. \A r \in T \cup {s} : sl[r].state = "gen" =>
            \E k \in 1..Len(b) : /\ v.sl[r] = [sl[r] EXCEPT !.prompt = @ + 1, !.ibatch = k - 1]
                                /\ b[k] = [slot |-> r, pos |-> sl[r].prompt]
      BY <2>4, <2>5
    <3>3. ASSUME NEW j \in 1..Len(b), NEW k \in 1..Len(b), j # k PROVE b[j].slot # b[k].slot
      <4>1. \A h \in 1..Len(b) : IF h \in 1..Len(u.b) THEN b[h] = u.b[h] /\ u.b[h].slot # s
                                ELSE h = Len(u.b) + 1 /\ b[h].slot = s
        <5>1. b[Len(u.b) + 1].slot = s
          BY <2>2 DEF tok
        <5>2. \A h \in 1..Len(u.b) : b[h] = u.b[h] /\ u.b[h].slot # s
          BY <2>2 DEF Added
        <5>3. \A h \in 1..Len(b) : h \in 1..Len(u.b) \/ h = Len(u.b) + 1
          BY <1>1, <2>2
        <5>4. Len(u.b) + 1 \notin 1..Len(u.b)
          BY <1>1
        <5> QED BY <5>1, <5>2, <5>3, <5>4
      <4>2. \A h, g \in 1..Len(u.b) : h # g => u.b[h].slot # u.b[g].slot
        BY DEF Added
      <4> QED BY <3>3, <4>1, <4>2
    <3>4. /\ \A r \in Slots :
               IF r \in T \cup {s} /\ sl[r].state = "gen"
               THEN \E k \in 1..Len(v.b) : /\ v.sl[r] = [sl[r] EXCEPT !.prompt = @ + 1, !.ibatch = k - 1]
                                           /\ v.b[k] = [slot |-> r, pos |-> sl[r].prompt]
               ELSE v.sl[r] = sl[r]
      BY <2>7, <3>1, <3>2
    <3>5. \A k \in 1..Len(v.b) :
            /\ v.b[k].slot \in T \cup {s} /\ sl[v.b[k].slot].state = "gen"
            /\ v.b[k].pos = sl[v.b[k].slot].prompt /\ v.sl[v.b[k].slot].ibatch >= k - 1
      BY <2>6, <3>1
    <3>6. \A j, k \in 1..Len(v.b) : j # k => v.b[j].slot # v.b[k].slot
      BY <3>1, <3>3
    <3> QED BY <3>4, <3>5, <3>6 DEF Added
  <2> QED BY <2>8 DEF v
<1> QED BY <1>2, <1>3

LEMMA AddedAllIs ==
  ASSUME NEW sl \in [Slots -> SlotRec]
  PROVE  AddedAll(sl) \in SlotsAndBatch /\ Added(sl, AddedAll(sl), Slots)
<1> DEFINE st == [sl |-> sl, b |-> <<>>]
<1>a. st \in SlotsAndBatch /\ Added(sl, st, {})
  <2>1. <<>> \in Seq(Token) /\ Len(<<>>) = 0 /\ 1..0 = {}
    OBVIOUS
  <2> QED BY <2>1 DEF SlotsAndBatch, Added
<1>b. AddedAll(sl) = InSlotOrder(AddSampled, st)
  BY DEF AddedAll
<1> HIDE DEF st
<1> DEFINE id == [s \in Slots |-> s]
           C == DOMAIN id
           V == SlotsAndBatch
           ch == [s \in NonEmpty(C) |-> Max(s)]
           op(u, s) == AddSampled(u, s)
           F == [p \in NonEmpty(C) \X V |-> op(p[2], id[Max(p[1])])]
           it == CHOOSE h : h = [s \in SUBSET C |->
                   IF s = {} THEN st ELSE op(h[s \ {Max(s)}], id[Max(s)])]
           H == {p \in (SUBSET C) \X V : Added(sl, p[2], p[1])}
<1>1. Chooses(ch, C) /\ C \in SUBSET Slots /\ st \in V
  <2>1. C = 1..NSlots /\ NSlots \in Nat /\ C = Slots
    BY BatchAssumption DEF Slots
  <2>2. Chooses(ch, C)
    <3> HIDE DEF id
    <3> QED BY <2>1, LastOf
  <2> QED BY <1>a, <2>1, <2>2
<1>2. \A s \in NonEmpty(C) : ch[s] = id[Max(s)] /\ ch[s] = Max(s) /\ ch[s] \in s /\ ch[s] \in Slots
                           /\ s \ {ch[s]} \in SUBSET C /\ s \in SUBSET C
                           /\ s \ {ch[s]} \in SUBSET Slots /\ (s \ {ch[s]}) \cup {ch[s]} = s
  <2>1. \A s \in NonEmpty(C) : ch[s] = Max(s)
    OBVIOUS
  <2> HIDE DEF ch
  <2>2. \A s \in NonEmpty(C) : ch[s] \in s /\ s \in SUBSET C
    BY <1>1 DEF Chooses, NonEmpty
  <2> HIDE DEF C
  <2> QED BY <1>1, <2>1, <2>2
<1>3. ASSUME NEW u \in V, NEW s \in Slots PROVE op(u, s) \in V
  BY AddSampledTyped
<1>4. \A s \in NonEmpty(C), v \in V : F[<<s, v>>] = op(v, ch[s])
  <2> SUFFICES ASSUME NEW s \in NonEmpty(C), NEW v \in V PROVE F[<<s, v>>] = op(v, ch[s])
    OBVIOUS
  <2>1. F[<<s, v>>] = op(v, id[Max(s)])
    OBVIOUS
  <2> HIDE DEF F, op, ch
  <2> QED BY <1>2, <2>1
<1>5. Closes(F, C, V)
  <2> HIDE DEF F, C, op, ch
  <2> SUFFICES ASSUME NEW s \in NonEmpty(C), NEW v \in V PROVE F[<<s, v>>] \in V
    BY DEF Closes
  <2>1. F[<<s, v>>] = op(v, ch[s]) /\ ch[s] \in Slots
    BY <1>2, <1>4
  <2> QED BY <1>3, <2>1
<1>6. PICK g : IsFold(g, C, V, st, ch, F)
  <2> HIDE DEF F, C, ch, V
  <2> QED BY <1>1, <1>5, FoldExists DEF Closes
<1>7. g = [s \in SUBSET C |-> IF s = {} THEN st ELSE op(g[s \ {Max(s)}], id[Max(s)])]
  <2>1. g \in [SUBSET C -> V] /\ g[{}] = st
    BY <1>6 DEF IsFold
  <2>2. \A s \in SUBSET C : s # {} => s \in NonEmpty(C)
    BY DEF NonEmpty
  <2>3. ASSUME NEW s \in NonEmpty(C) PROVE g[s] = op(g[s \ {Max(s)}], id[Max(s)])
    <3> HIDE DEF F, op, ch, C
    <3>1. ch[s] = Max(s) /\ ch[s] = id[Max(s)] /\ s \ {ch[s]} \in SUBSET C
      BY <1>2
    <3>2. g[s] = F[<<s, g[s \ {ch[s]}]>>] /\ g[s \ {ch[s]}] \in V
      BY <1>6, <2>1, <3>1 DEF IsFold
    <3>3. g[s] = op(g[s \ {ch[s]}], ch[s])
      BY <1>4, <3>2
    <3> QED BY <3>1, <3>3
  <2> HIDE DEF op, F, C
  <2> DEFINE h == [s \in SUBSET C |-> IF s = {} THEN st ELSE op(g[s \ {Max(s)}], id[Max(s)])]
  <2>4. \A s \in SUBSET C : g[s] = h[s]
    BY <2>1, <2>2, <2>3
  <2>5. h = [s \in SUBSET C |-> h[s]] /\ g = [s \in SUBSET C |-> g[s]]
    BY <2>1
  <2>6. g = h
    <3> HIDE DEF h
    <3> QED BY <2>4, <2>5
  <2> QED BY <2>6
<1>8. it = [s \in SUBSET C |-> IF s = {} THEN st ELSE op(it[s \ {Max(s)}], id[Max(s)])]
  BY <1>7
<1>9. AddedAll(sl) = it[C]
  BY <1>b DEF InSlotOrder, FoldLeft, MapThenFoldSet
<1> HIDE DEF it
<1>10. Follows(it, C, V, st, ch, F)
  <2>1. it[{}] = st
    BY <1>8
  <2>2. ASSUME NEW s \in NonEmpty(C), it[s \ {ch[s]}] \in V
        PROVE  it[s] = F[<<s, it[s \ {ch[s]}]>>]
    <3>1. s # {}
      BY DEF NonEmpty
    <3> HIDE DEF F, op, ch, C
    <3>2. s \in SUBSET C
      BY <1>2
    <3>3. it[s] = op(it[s \ {Max(s)}], id[Max(s)])
      BY <1>8, <3>1, <3>2
    <3>4. it[s] = op(it[s \ {ch[s]}], ch[s])
      BY <1>2, <3>3
    <3>5. F[<<s, it[s \ {ch[s]}]>>] = op(it[s \ {ch[s]}], ch[s])
      BY <1>4, <2>2
    <3> QED BY <3>4, <3>5
  <2> HIDE DEF F, ch, C
  <2> QED BY <2>1, <2>2 DEF Follows
<1>11. Carries(H, C, V, st, ch, F)
  <2>1. <<{}, st>> \in H
    BY <1>1, <1>a
  <2>2. ASSUME NEW s \in NonEmpty(C), NEW v \in V, <<s \ {ch[s]}, v>> \in H
        PROVE  <<s, F[<<s, v>>]>> \in H
    <3>1. F[<<s, v>>] = op(v, ch[s]) /\ ch[s] \in Slots \ (s \ {ch[s]}) /\ ch[s] \in C \ (s \ {ch[s]})
      BY <1>2, <1>4
    <3>2. Added(sl, v, s \ {ch[s]})
      BY <2>2
    <3>3. op(v, ch[s]) \in V /\ Added(sl, op(v, ch[s]), s)
      <4> HIDE DEF ch, C, id
      <4>1. AddSampled(v, ch[s]) \in SlotsAndBatch
            /\ Added(sl, AddSampled(v, ch[s]), (s \ {ch[s]}) \cup {ch[s]})
        BY <1>2, <3>1, <3>2, AddSampledTyped, AddSampledOne
      <4> QED BY <1>2, <4>1
    <3> HIDE DEF F, ch, op, C
    <3> QED BY <1>2, <3>1, <3>3
  <2> HIDE DEF H, F, ch, C
  <2> QED BY <2>1, <2>2 DEF Carries
<1>12. it[C] \in V /\ <<C, it[C]>> \in H
  <2> HIDE DEF H, F, ch, C, V
  <2> QED BY <1>1, <1>5, <1>10, <1>11, FoldRule
<1> QED BY <1>9, <1>12

-----------------------------------------------------------------------------
(* A chunk is decoded.                                                      *)

\* What a child takes over from its parent y.
CopyOf(x, y) == [x EXCEPT !.state = "done", !.prompt = y.prompt, !.decoded = y.decoded,
                          !.ibatch = y.ibatch]

\* The slots in T have the state of slot p.
Copied(st, u, p, T) ==
  /\ \A r \in Slots : u.sl[r] = IF r \in T THEN CopyOf(st.sl[r], st.sl[p]) ELSE st.sl[r]
  /\ FromZero(st.m) => FromZero(u.m)
  /\ \A r \in Slots \ T : Has(u.m, r) => Has(st.m, r)
  /\ T = {} => u.m = st.m
CopySet(st, p, C) == FoldSet(LAMBDA c, t : CopyStateTo(t, p, c), st, C)

LEMMA CopyTyped ==
  ASSUME NEW u \in SlotsAndMemory, NEW p \in Slots, NEW c \in Slots
  PROVE  /\ CopyStateTo(u, p, c) \in SlotsAndMemory
         /\ CopyStateTo(u, p, c).sl = [u.sl EXCEPT ![c] = CopyOf(u.sl[c], u.sl[p])]
         /\ FromZero(u.m) => FromZero(CopyStateTo(u, p, c).m)
         /\ \A r \in Slots \ {c} : Has(CopyStateTo(u, p, c).m, r) => Has(u.m, r)
<1> DEFINE n == RmFrom(u.m, c, 0)
           m == Cp(n, p, c)
           sl == [u.sl EXCEPT ![c] = CopyOf(u.sl[c], u.sl[p])]
<1>1. u.sl \in [Slots -> SlotRec] /\ u.m \in Memory /\ u.sl[c] \in SlotRec /\ u.sl[p] \in SlotRec
  BY DEF SlotsAndMemory
<1>2. n \in Memory /\ (FromZero(u.m) => FromZero(n)) /\ \A r \in Slots : Has(n, r) => Has(u.m, r)
  BY <1>1, RmFromKeeps
<1>3. m \in Memory /\ (FromZero(n) => FromZero(m)) /\ \A r \in Slots : r # c /\ Has(m, r) => Has(n, r)
  <2> HIDE DEF n
  <2> QED BY <1>2, CpKeeps
<1>4. CopyOf(u.sl[c], u.sl[p]) \in SlotRec
  BY <1>1 DEF CopyOf, SlotRec
<1>5. CopyStateTo(u, p, c) = [sl |-> sl, m |-> m]
  BY <1>1 DEF CopyStateTo, CopyOf
<1> HIDE DEF n, m
<1>6. sl \in [Slots -> SlotRec]
  BY <1>1, <1>4
<1> QED BY <1>2, <1>3, <1>5, <1>6 DEF SlotsAndMemory

LEMMA CopyOne ==
  ASSUME NEW st \in SlotsAndMemory, NEW u \in SlotsAndMemory, NEW p \in Slots,
         NEW T \in SUBSET Slots, p \notin T, Copied(st, u, p, T), NEW c \in Slots \ T, c # p
  PROVE  Copied(st, CopyStateTo(u, p, c), p, T \cup {c})
<1> DEFINE v == CopyStateTo(u, p, c)
<1>1. /\ v.sl = [u.sl EXCEPT ![c] = CopyOf(u.sl[c], u.sl[p])]
      /\ FromZero(u.m) => FromZero(v.m)
      /\ \A r \in Slots \ {c} : Has(v.m, r) => Has(u.m, r)
  BY CopyTyped
<1> HIDE DEF v
<1>2. u.sl \in [Slots -> SlotRec] /\ u.sl[c] = st.sl[c] /\ u.sl[p] = st.sl[p]
  BY DEF SlotsAndMemory, Copied
<1>3. v.sl[c] = CopyOf(st.sl[c], st.sl[p]) /\ \A r \in Slots \ {c} : v.sl[r] = u.sl[r]
  BY <1>1, <1>2
<1>4. Copied(st, v, p, T \cup {c})
  BY <1>1, <1>3 DEF Copied
<1> QED BY <1>4 DEF v

LEMMA CopySetIs ==
  ASSUME NEW st \in SlotsAndMemory, NEW q \in Slots, NEW D \in SUBSET Slots, q \notin D
  PROVE  CopySet(st, q, D) \in SlotsAndMemory /\ Copied(st, CopySet(st, q, D), q, D)
<1> DEFINE C == D
           V == SlotsAndMemory
           ch == [s \in NonEmpty(C) |-> (CHOOSE x \in s : TRUE)]
           op(u, s) == CopyStateTo(u, q, s)
           F == [p \in NonEmpty(C) \X V |-> op(p[2], (CHOOSE x \in p[1] : TRUE))]
           it == CHOOSE h : h = [s \in SUBSET C |->
                   IF s = {} THEN st ELSE op(h[s \ {(CHOOSE x \in s : TRUE)}], (CHOOSE x \in s : TRUE))]
           H == {p \in (SUBSET C) \X V : Copied(st, p[2], q, p[1])}
<1>1. Chooses(ch, C) /\ C \in SUBSET Slots /\ st \in V
  BY AnyOf
<1>2. \A s \in NonEmpty(C) : ch[s] = (CHOOSE x \in s : TRUE) /\ ch[s] \in s /\ ch[s] \in Slots
                           /\ s \ {ch[s]} \in SUBSET C /\ s \in SUBSET C
                           /\ s \ {ch[s]} \in SUBSET Slots /\ (s \ {ch[s]}) \cup {ch[s]} = s
  <2>1. \A s \in NonEmpty(C) : ch[s] = (CHOOSE x \in s : TRUE)
    OBVIOUS
  <2> HIDE DEF ch
  <2>2. \A s \in NonEmpty(C) : ch[s] \in s /\ s \in SUBSET C
    BY <1>1 DEF Chooses, NonEmpty
  <2> HIDE DEF C
  <2> QED BY <1>1, <2>1, <2>2
<1>3. ASSUME NEW u \in V, NEW s \in Slots PROVE op(u, s) \in V
  BY CopyTyped
<1>4. \A s \in NonEmpty(C), v \in V : F[<<s, v>>] = op(v, ch[s])
  <2> SUFFICES ASSUME NEW s \in NonEmpty(C), NEW v \in V PROVE F[<<s, v>>] = op(v, ch[s])
    OBVIOUS
  <2>1. F[<<s, v>>] = op(v, (CHOOSE x \in s : TRUE))
    OBVIOUS
  <2> HIDE DEF F, op, ch
  <2> QED BY <1>2, <2>1
<1>5. Closes(F, C, V)
  <2> HIDE DEF F, C, op, ch
  <2> SUFFICES ASSUME NEW s \in NonEmpty(C), NEW v \in V PROVE F[<<s, v>>] \in V
    BY DEF Closes
  <2>1. F[<<s, v>>] = op(v, ch[s]) /\ ch[s] \in Slots
    BY <1>2, <1>4
  <2> QED BY <1>3, <2>1
<1>6. PICK g : IsFold(g, C, V, st, ch, F)
  <2> HIDE DEF F, C, ch, V
  <2> QED BY <1>1, <1>5, FoldExists DEF Closes
<1>7. g = [s \in SUBSET C |-> IF s = {} THEN st ELSE op(g[s \ {(CHOOSE x \in s : TRUE)}], (CHOOSE x \in s : TRUE))]
  <2>1. g \in [SUBSET C -> V] /\ g[{}] = st
    BY <1>6 DEF IsFold
  <2>2. \A s \in SUBSET C : s # {} => s \in NonEmpty(C)
    BY DEF NonEmpty
  <2>3. ASSUME NEW s \in NonEmpty(C) PROVE g[s] = op(g[s \ {(CHOOSE x \in s : TRUE)}], (CHOOSE x \in s : TRUE))
    <3> HIDE DEF F, op, ch, C
    <3>1. ch[s] = (CHOOSE x \in s : TRUE) /\ ch[s] = (CHOOSE x \in s : TRUE) /\ s \ {ch[s]} \in SUBSET C
      BY <1>2
    <3>2. g[s] = F[<<s, g[s \ {ch[s]}]>>] /\ g[s \ {ch[s]}] \in V
      BY <1>6, <2>1, <3>1 DEF IsFold
    <3>3. g[s] = op(g[s \ {ch[s]}], ch[s])
      BY <1>4, <3>2
    <3> QED BY <3>1, <3>3
  <2> HIDE DEF op, F, C
  <2> DEFINE h == [s \in SUBSET C |-> IF s = {} THEN st ELSE op(g[s \ {(CHOOSE x \in s : TRUE)}], (CHOOSE x \in s : TRUE))]
  <2>4. \A s \in SUBSET C : g[s] = h[s]
    BY <2>1, <2>2, <2>3
  <2>5. h = [s \in SUBSET C |-> h[s]] /\ g = [s \in SUBSET C |-> g[s]]
    BY <2>1
  <2>6. g = h
    <3> HIDE DEF h
    <3> QED BY <2>4, <2>5
  <2> QED BY <2>6
<1>8. it = [s \in SUBSET C |-> IF s = {} THEN st ELSE op(it[s \ {(CHOOSE x \in s : TRUE)}], (CHOOSE x \in s : TRUE))]
  BY <1>7
<1>9. CopySet(st, q, D) = it[C]
  BY DEF CopySet, FoldSet, MapThenFoldSet
<1> HIDE DEF it
<1>10. Follows(it, C, V, st, ch, F)
  <2>1. it[{}] = st
    BY <1>8
  <2>2. ASSUME NEW s \in NonEmpty(C), it[s \ {ch[s]}] \in V
        PROVE  it[s] = F[<<s, it[s \ {ch[s]}]>>]
    <3>1. s # {}
      BY DEF NonEmpty
    <3> HIDE DEF F, op, ch, C
    <3>2. s \in SUBSET C
      BY <1>2
    <3>3. it[s] = op(it[s \ {(CHOOSE x \in s : TRUE)}], (CHOOSE x \in s : TRUE))
      BY <1>8, <3>1, <3>2
    <3>4. it[s] = op(it[s \ {ch[s]}], ch[s])
      BY <1>2, <3>3
    <3>5. F[<<s, it[s \ {ch[s]}]>>] = op(it[s \ {ch[s]}], ch[s])
      BY <1>4, <2>2
    <3> QED BY <3>4, <3>5
  <2> HIDE DEF F, ch, C
  <2> QED BY <2>1, <2>2 DEF Follows
<1>11. Carries(H, C, V, st, ch, F)
  <2>1. <<{}, st>> \in H
    BY <1>1 DEF Copied
  <2>2. ASSUME NEW s \in NonEmpty(C), NEW v \in V, <<s \ {ch[s]}, v>> \in H
        PROVE  <<s, F[<<s, v>>]>> \in H
    <3>1. F[<<s, v>>] = op(v, ch[s]) /\ ch[s] \in Slots \ (s \ {ch[s]}) /\ ch[s] \in C \ (s \ {ch[s]})
      BY <1>2, <1>4
    <3>2. Copied(st, v, q, s \ {ch[s]}) /\ q \notin s /\ ch[s] # q
      <4>1. Copied(st, v, q, s \ {ch[s]})
        BY <2>2
      <4>2. q \notin C
        OBVIOUS
      <4> HIDE DEF ch, C
      <4>3. q \notin s /\ ch[s] # q
        BY <1>2, <4>2
      <4> QED BY <4>1, <4>3
    <3>3. op(v, ch[s]) \in V /\ Copied(st, op(v, ch[s]), q, s)
      <4> HIDE DEF ch, C
      <4>1. /\ CopyStateTo(v, q, ch[s]) \in SlotsAndMemory
            /\ Copied(st, CopyStateTo(v, q, ch[s]), q, (s \ {ch[s]}) \cup {ch[s]})
        BY <1>2, <3>1, <3>2, CopyTyped, CopyOne
      <4> QED BY <1>2, <4>1
    <3> HIDE DEF F, ch, op, C
    <3> QED BY <1>2, <3>1, <3>3
  <2> HIDE DEF H, F, ch, C
  <2> QED BY <2>1, <2>2 DEF Carries
<1>12. it[C] \in V /\ <<C, it[C]>> \in H
  <2> HIDE DEF H, F, ch, C, V
  <2> QED BY <1>1, <1>5, <1>10, <1>11, FoldRule
<1> QED BY <1>9, <1>12

\* Slots that waited have the state of one that was done, as children of a parent.
Activated(st, u) ==
  /\ \A r \in Slots :
       \/ u.sl[r] = st.sl[r]
       \/ /\ st.sl[r].state = "wait" /\ st.sl[r].parent # 0
          /\ \E p \in Slots : st.sl[p].state = "done" /\ u.sl[r] = CopyOf(st.sl[r], st.sl[p])
  /\ FromZero(st.m) => FromZero(u.m)
  /\ \A r \in Slots : u.sl[r] = st.sl[r] /\ Has(u.m, r) => Has(st.m, r)
  /\ Single(st.sl) => u.m = st.m
ActivatedAll(st) == InSlotOrder(ActivateChildren, st)

LEMMA ActivateTyped ==
  ASSUME NEW u \in SlotsAndMemory, NEW p \in Slots
  PROVE  /\ ActivateChildren(u, p) \in SlotsAndMemory
         /\ \/ ActivateChildren(u, p) = u
            \/ /\ u.sl[p].state = "done" /\ p \notin WaitingFor(u.sl, p)
               /\ Copied(u, ActivateChildren(u, p), p, WaitingFor(u.sl, p))
<1>1. WaitingFor(u.sl, p) \in SUBSET Slots
  BY DEF WaitingFor
<1>2. CASE u.sl[p].state = "done" /\ IsParent(u.sl, p)
  <2>1. p \notin WaitingFor(u.sl, p)
    BY <1>2 DEF WaitingFor
  <2>2. ActivateChildren(u, p) = CopySet(u, p, WaitingFor(u.sl, p))
    BY <1>2 DEF ActivateChildren, CopySet, FoldSet, MapThenFoldSet
  <2> QED BY <1>1, <1>2, <2>1, <2>2, CopySetIs
<1>3. CASE ~(u.sl[p].state = "done" /\ IsParent(u.sl, p))
  BY <1>3 DEF ActivateChildren
<1> QED BY <1>2, <1>3

LEMMA ActivateOne ==
  ASSUME NEW st \in SlotsAndMemory, NEW u \in SlotsAndMemory, Activated(st, u), NEW p \in Slots
  PROVE  Activated(st, ActivateChildren(u, p))
<1> DEFINE v == ActivateChildren(u, p)
           D == WaitingFor(u.sl, p)
<1>1. CASE v = u
  BY <1>1
<1>2. CASE u.sl[p].state = "done" /\ p \notin D /\ Copied(u, v, p, D)
  <2> HIDE DEF v
  <2>0. 0 \notin Slots
    BY BatchAssumption DEF Slots
  <2>1. PICK q \in Slots : /\ st.sl[q].state = "done"
                           /\ \A x \in SlotRec : CopyOf(x, u.sl[p]) = CopyOf(x, st.sl[q])
    <3>1. CASE u.sl[p] = st.sl[p]
      BY <1>2, <3>1
    <3>2. CASE u.sl[p] # st.sl[p]
      <4>1. PICK q \in Slots : st.sl[q].state = "done" /\ u.sl[p] = CopyOf(st.sl[p], st.sl[q])
        BY <3>2 DEF Activated
      <4>2. st.sl[p] \in SlotRec
        BY DEF SlotsAndMemory
      <4>3. /\ u.sl[p].prompt = st.sl[q].prompt /\ u.sl[p].decoded = st.sl[q].decoded
            /\ u.sl[p].ibatch = st.sl[q].ibatch
        BY <4>1, <4>2 DEF CopyOf, SlotRec
      <4>4. \A x \in SlotRec : CopyOf(x, u.sl[p]) = CopyOf(x, st.sl[q])
        BY <4>3 DEF CopyOf
      <4> QED BY <4>1, <4>4
    <3> QED BY <3>1, <3>2
  <2>2. ASSUME NEW r \in D
        PROVE  /\ r \in Slots /\ u.sl[r] = st.sl[r] /\ st.sl[r].state = "wait" /\ st.sl[r].parent # 0
               /\ v.sl[r] = CopyOf(st.sl[r], st.sl[q]) /\ v.sl[r] # st.sl[r]
    <3>1. r \in Slots /\ u.sl[r].state = "wait" /\ u.sl[r].parent = p
      BY DEF WaitingFor
    <3>2. st.sl[r] \in SlotRec
      BY <3>1 DEF SlotsAndMemory
    <3>3. \A y : CopyOf(st.sl[r], y).state = "done"
      BY <3>2 DEF CopyOf, SlotRec
    <3>4. u.sl[r] = st.sl[r]
      BY <3>1, <3>3 DEF Activated
    <3>5. v.sl[r] = CopyOf(st.sl[r], st.sl[q])
      BY <1>2, <2>1, <3>1, <3>2, <3>4 DEF Copied
    <3>6. v.sl[r] # st.sl[r]
      BY <3>1, <3>3, <3>4, <3>5
    <3> QED BY <2>0, <3>1, <3>4, <3>5, <3>6
  <2>3. \A r \in Slots \ D : v.sl[r] = u.sl[r] /\ (Has(v.m, r) => Has(u.m, r))
    BY <1>2 DEF Copied
  <2>4. FromZero(st.m) => FromZero(v.m)
    BY <1>2 DEF Copied, Activated
  <2>6. ASSUME Single(st.sl) PROVE v.m = st.m
    <3>1. \A r \in Slots : r \notin D
      BY <2>2, <2>6 DEF Single
    <3>2. D = {}
      BY <3>1 DEF WaitingFor
    <3> HIDE DEF D
    <3> QED BY <1>2, <2>6, <3>2 DEF Copied, Activated
  <2> HIDE DEF D
  <2>5. Activated(st, v)
    BY <2>1, <2>2, <2>3, <2>4, <2>6 DEF Activated
  <2> QED BY <2>5 DEF v
<1> QED BY <1>1, <1>2, ActivateTyped

LEMMA ActivatedAllIs ==
  ASSUME NEW st \in SlotsAndMemory
  PROVE  ActivatedAll(st) \in SlotsAndMemory /\ Activated(st, ActivatedAll(st))
<1> DEFINE id == [s \in Slots |-> s]
           C == DOMAIN id
           V == SlotsAndMemory
           ch == [s \in NonEmpty(C) |-> Max(s)]
           op(u, s) == ActivateChildren(u, s)
           F == [p \in NonEmpty(C) \X V |-> op(p[2], id[Max(p[1])])]
           it == CHOOSE h : h = [s \in SUBSET C |->
                   IF s = {} THEN st ELSE op(h[s \ {Max(s)}], id[Max(s)])]
           H == {p \in (SUBSET C) \X V : Activated(st, p[2])}
<1>1. Chooses(ch, C) /\ C \in SUBSET Slots /\ st \in V
  <2>1. C = 1..NSlots /\ NSlots \in Nat /\ C = Slots
    BY BatchAssumption DEF Slots
  <2>2. Chooses(ch, C)
    <3> HIDE DEF id
    <3> QED BY <2>1, LastOf
  <2> QED BY <2>1, <2>2
<1>2. \A s \in NonEmpty(C) : ch[s] = id[Max(s)] /\ ch[s] = Max(s) /\ ch[s] \in s /\ ch[s] \in Slots
                           /\ s \ {ch[s]} \in SUBSET C /\ s \in SUBSET C
                           /\ s \ {ch[s]} \in SUBSET Slots /\ (s \ {ch[s]}) \cup {ch[s]} = s
  <2>1. \A s \in NonEmpty(C) : ch[s] = Max(s)
    OBVIOUS
  <2> HIDE DEF ch
  <2>2. \A s \in NonEmpty(C) : ch[s] \in s /\ s \in SUBSET C
    BY <1>1 DEF Chooses, NonEmpty
  <2> HIDE DEF C
  <2> QED BY <1>1, <2>1, <2>2
<1>3. ASSUME NEW u \in V, NEW s \in Slots PROVE op(u, s) \in V
  BY ActivateTyped
<1>4. \A s \in NonEmpty(C), v \in V : F[<<s, v>>] = op(v, ch[s])
  <2> SUFFICES ASSUME NEW s \in NonEmpty(C), NEW v \in V PROVE F[<<s, v>>] = op(v, ch[s])
    OBVIOUS
  <2>1. F[<<s, v>>] = op(v, id[Max(s)])
    OBVIOUS
  <2> HIDE DEF F, op, ch
  <2> QED BY <1>2, <2>1
<1>5. Closes(F, C, V)
  <2> HIDE DEF F, C, op, ch
  <2> SUFFICES ASSUME NEW s \in NonEmpty(C), NEW v \in V PROVE F[<<s, v>>] \in V
    BY DEF Closes
  <2>1. F[<<s, v>>] = op(v, ch[s]) /\ ch[s] \in Slots
    BY <1>2, <1>4
  <2> QED BY <1>3, <2>1
<1>6. PICK g : IsFold(g, C, V, st, ch, F)
  <2> HIDE DEF F, C, ch, V
  <2> QED BY <1>1, <1>5, FoldExists DEF Closes
<1>7. g = [s \in SUBSET C |-> IF s = {} THEN st ELSE op(g[s \ {Max(s)}], id[Max(s)])]
  <2>1. g \in [SUBSET C -> V] /\ g[{}] = st
    BY <1>6 DEF IsFold
  <2>2. \A s \in SUBSET C : s # {} => s \in NonEmpty(C)
    BY DEF NonEmpty
  <2>3. ASSUME NEW s \in NonEmpty(C) PROVE g[s] = op(g[s \ {Max(s)}], id[Max(s)])
    <3> HIDE DEF F, op, ch, C
    <3>1. ch[s] = Max(s) /\ ch[s] = id[Max(s)] /\ s \ {ch[s]} \in SUBSET C
      BY <1>2
    <3>2. g[s] = F[<<s, g[s \ {ch[s]}]>>] /\ g[s \ {ch[s]}] \in V
      BY <1>6, <2>1, <3>1 DEF IsFold
    <3>3. g[s] = op(g[s \ {ch[s]}], ch[s])
      BY <1>4, <3>2
    <3> QED BY <3>1, <3>3
  <2> HIDE DEF op, F, C
  <2> DEFINE h == [s \in SUBSET C |-> IF s = {} THEN st ELSE op(g[s \ {Max(s)}], id[Max(s)])]
  <2>4. \A s \in SUBSET C : g[s] = h[s]
    BY <2>1, <2>2, <2>3
  <2>5. h = [s \in SUBSET C |-> h[s]] /\ g = [s \in SUBSET C |-> g[s]]
    BY <2>1
  <2>6. g = h
    <3> HIDE DEF h
    <3> QED BY <2>4, <2>5
  <2> QED BY <2>6
<1>8. it = [s \in SUBSET C |-> IF s = {} THEN st ELSE op(it[s \ {Max(s)}], id[Max(s)])]
  BY <1>7
<1>9. ActivatedAll(st) = it[C]
  BY DEF ActivatedAll, InSlotOrder, FoldLeft, MapThenFoldSet
<1> HIDE DEF it
<1>10. Follows(it, C, V, st, ch, F)
  <2>1. it[{}] = st
    BY <1>8
  <2>2. ASSUME NEW s \in NonEmpty(C), it[s \ {ch[s]}] \in V
        PROVE  it[s] = F[<<s, it[s \ {ch[s]}]>>]
    <3>1. s # {}
      BY DEF NonEmpty
    <3> HIDE DEF F, op, ch, C
    <3>2. s \in SUBSET C
      BY <1>2
    <3>3. it[s] = op(it[s \ {Max(s)}], id[Max(s)])
      BY <1>8, <3>1, <3>2
    <3>4. it[s] = op(it[s \ {ch[s]}], ch[s])
      BY <1>2, <3>3
    <3>5. F[<<s, it[s \ {ch[s]}]>>] = op(it[s \ {ch[s]}], ch[s])
      BY <1>4, <2>2
    <3> QED BY <3>4, <3>5
  <2> HIDE DEF F, ch, C
  <2> QED BY <2>1, <2>2 DEF Follows
<1>11. Carries(H, C, V, st, ch, F)
  <2>1. <<{}, st>> \in H
    BY <1>1 DEF Activated
  <2>2. ASSUME NEW s \in NonEmpty(C), NEW v \in V, <<s \ {ch[s]}, v>> \in H
        PROVE  <<s, F[<<s, v>>]>> \in H
    <3>1. F[<<s, v>>] = op(v, ch[s]) /\ ch[s] \in Slots \ (s \ {ch[s]}) /\ ch[s] \in C \ (s \ {ch[s]})
      BY <1>2, <1>4
    <3>2. Activated(st, v)
      BY <2>2
    <3>3. op(v, ch[s]) \in V /\ Activated(st, op(v, ch[s]))
      <4> HIDE DEF ch, C, id
      <4> QED BY <3>1, <3>2, ActivateTyped, ActivateOne
    <3> HIDE DEF F, ch, op, C
    <3> QED BY <1>2, <3>1, <3>3
  <2> HIDE DEF H, F, ch, C
  <2> QED BY <2>1, <2>2 DEF Carries
<1>12. it[C] \in V /\ <<C, it[C]>> \in H
  <2> HIDE DEF H, F, ch, C, V
  <2> QED BY <1>1, <1>5, <1>10, <1>11, FoldRule
<1> QED BY <1>9, <1>12

\* What sampling makes of slot x, with memory m after it.
SampleOf(x, y, m0, m, r) ==
  IF x.state \in {"done", "gen"} /\ InChunk(x.ibatch)
  THEN \/ /\ y = FreeSlot([x EXCEPT !.ibatch = -1], PromptLeft(x))
          /\ FromZero(m0) /\ x.parent # 0 => ~Has(m, r)
       \/ /\ y = [x EXCEPT !.ibatch = -1, !.state = "gen", !.decoded = @ + 1]
          /\ x.kind # "embd" /\ x.decoded + 1 < MaxDecoded
  ELSE y = x

SampledTo(st, u, T) ==
  /\ Thinner(st.m, u.m) /\ (Single(st.sl) => u.m = st.m)
  /\ \A r \in Slots : IF r \in T THEN SampleOf(st.sl[r], u.sl[r], st.m, u.m, r)
                      ELSE u.sl[r] = st.sl[r]
SampledAll(st, stops) == InSlotOrder(LAMBDA t, s : Sample(t, s, s \in stops), st)

LEMMA SampleOne ==
  ASSUME NEW u \in SlotsAndMemory, NEW s \in Slots, NEW stop \in BOOLEAN
  PROVE  /\ Sample(u, s, stop) \in SlotsAndMemory
         /\ Thinner(u.m, Sample(u, s, stop).m)
         /\ \A r \in Slots \ {s} : Sample(u, s, stop).sl[r] = u.sl[r]
         /\ SampleOf(u.sl[s], Sample(u, s, stop).sl[s], u.m, Sample(u, s, stop).m, s)
         /\ u.sl[s].parent = 0 => Sample(u, s, stop).m = u.m
<1> DEFINE out == [u EXCEPT !.sl[s].ibatch = -1]
           on == [out EXCEPT !.sl[s].state = "gen", !.sl[s].decoded = @ + 1]
           x == u.sl[s]
           y == [x EXCEPT !.ibatch = -1]
           z == [x EXCEPT !.ibatch = -1, !.state = "gen", !.decoded = @ + 1]
<1>1. u.sl \in [Slots -> SlotRec] /\ u.m \in Memory /\ x \in SlotRec /\ x.decoded \in Nat
  BY DEF SlotsAndMemory, SlotRec
<1>2. y \in SlotRec /\ z \in SlotRec /\ y.parent = x.parent /\ y.prompt = x.prompt
  <2>1. -1 \in Int /\ x.decoded + 1 \in Nat
    BY <1>1
  <2> QED BY <1>1, <2>1 DEF SlotRec
<1>3. out.m = u.m /\ out.sl = [u.sl EXCEPT ![s] = y]
  BY <1>1 DEF SlotsAndMemory
<1>4. out \in SlotsAndMemory
  BY <1>1, <1>2, <1>3 DEF SlotsAndMemory
<1>5. on.m = u.m /\ on.sl = [u.sl EXCEPT ![s] = z] /\ on \in SlotsAndMemory
  <2>1. on.sl = [u.sl EXCEPT ![s] = [y EXCEPT !.state = "gen", !.decoded = @ + 1]] /\ on.m = u.m
    <3>1. out.sl \in [Slots -> SlotRec] /\ out.sl[s] = y
      BY <1>1, <1>2, <1>3
    <3> HIDE DEF y
    <3>2. /\ on.m = out.m
          /\ on.sl = [out.sl EXCEPT ![s] = [out.sl[s] EXCEPT !.state = "gen", !.decoded = @ + 1]]
      <4> HIDE DEF out
      <4> QED BY <1>4, <3>1 DEF SlotsAndMemory
    <3>3. [out.sl EXCEPT ![s] = [y EXCEPT !.state = "gen", !.decoded = @ + 1]]
          = [u.sl EXCEPT ![s] = [y EXCEPT !.state = "gen", !.decoded = @ + 1]]
      BY <1>1, <1>3
    <3> HIDE DEF out, on
    <3> QED BY <1>3, <3>1, <3>2, <3>3
  <2>2. [y EXCEPT !.state = "gen", !.decoded = @ + 1] = z
    BY <1>1 DEF SlotRec
  <2> QED BY <1>1, <1>2, <1>4, <2>1, <2>2 DEF SlotsAndMemory
<1>6. Sample(u, s, stop) =
        IF x.state \notin {"done", "gen"} \/ ~InChunk(x.ibatch) THEN u
        ELSE IF stop \/ x.kind = "embd" \/ MustStop(x) THEN Release(out, s) ELSE on
  BY DEF Sample
<1>7. /\ Release(out, s) \in SlotsAndMemory
      /\ \A r \in Slots \ {s} : Release(out, s).sl[r] = u.sl[r]
      /\ Release(out, s).sl[s] = FreeSlot(y, PromptLeft(x))
      /\ Thinner(u.m, Release(out, s).m)
      /\ FromZero(u.m) /\ x.parent # 0 => ~Has(Release(out, s).m, s)
      /\ x.parent = 0 => Release(out, s).m = u.m
  <2> DEFINE v == Release(out, s)
  <2>1. out.sl[s] = y /\ \A r \in Slots \ {s} : out.sl[r] = u.sl[r]
    BY <1>1, <1>3
  <2> HIDE DEF out
  <2>2. /\ v \in SlotsAndMemory
        /\ \A r \in Slots \ {s} : v.sl[r] = out.sl[r]
        /\ v.sl[s] = FreeSlot(out.sl[s], PromptLeft(out.sl[s]))
        /\ Thinner(out.m, v.m)
        /\ FromZero(out.m) /\ out.sl[s].parent # 0 => ~Has(v.m, s)
        /\ out.sl[s].parent = 0 => v.m = out.m
    BY <1>4, ReleaseIs
  <2> HIDE DEF v
  <2>3. PromptLeft(y) = PromptLeft(x)
    BY <1>2 DEF PromptLeft
  <2>4. v \in SlotsAndMemory /\ \A r \in Slots \ {s} : v.sl[r] = u.sl[r]
    BY <2>1, <2>2
  <2>5. v.sl[s] = FreeSlot(y, PromptLeft(x))
    BY <2>1, <2>2, <2>3
  <2>6. Thinner(u.m, v.m) /\ (FromZero(u.m) /\ x.parent # 0 => ~Has(v.m, s))
        /\ (x.parent = 0 => v.m = u.m)
    BY <1>2, <1>3, <2>1, <2>2
  <2> QED BY <2>4, <2>5, <2>6 DEF v
<1>8. on.sl[s] = z /\ (\A r \in Slots \ {s} : on.sl[r] = u.sl[r]) /\ Thinner(u.m, on.m)
  BY <1>1, <1>5 DEF Thinner
<1>9. Thinner(u.m, u.m)
  BY DEF Thinner
<1>10. ~MustStop(x) => x.decoded + 1 < MaxDecoded
  BY <1>1, BatchAssumption DEF MustStop
<1> HIDE DEF out, on
<1> QED BY <1>5, <1>6, <1>7, <1>8, <1>9, <1>10 DEF SampleOf

LEMMA SampledAllIs ==
  ASSUME NEW st \in SlotsAndMemory, NEW stops \in SUBSET Slots
  PROVE  SampledAll(st, stops) \in SlotsAndMemory /\ SampledTo(st, SampledAll(st, stops), Slots)
<1>a. ASSUME NEW u \in SlotsAndMemory, NEW T \in SUBSET Slots, SampledTo(st, u, T), NEW s \in Slots \ T
      PROVE  /\ Sample(u, s, s \in stops) \in SlotsAndMemory
             /\ SampledTo(st, Sample(u, s, s \in stops), T \cup {s})
  <2> DEFINE v == Sample(u, s, s \in stops)
  <2>0. (s \in stops) \in BOOLEAN
    OBVIOUS
  <2>1. /\ v \in SlotsAndMemory /\ Thinner(u.m, v.m)
        /\ \A r \in Slots \ {s} : v.sl[r] = u.sl[r]
        /\ SampleOf(u.sl[s], v.sl[s], u.m, v.m, s)
        /\ u.sl[s].parent = 0 => v.m = u.m
    BY <2>0, SampleOne
  <2> HIDE DEF v
  <2>2. u.sl[s] = st.sl[s] /\ Thinner(st.m, u.m)
        /\ (Single(st.sl) => u.sl[s].parent = 0 /\ u.m = st.m)
    BY <1>a DEF SampledTo, Single
  <2>3. Thinner(st.m, v.m) /\ (FromZero(st.m) => FromZero(u.m))
        /\ \A r \in Slots : Has(v.m, r) => Has(u.m, r)
    BY <2>1, <2>2 DEF Thinner
  <2>4. SampleOf(st.sl[s], v.sl[s], st.m, v.m, s)
    BY <2>1, <2>2, <2>3 DEF SampleOf
  <2>5. ASSUME NEW r \in T PROVE SampleOf(st.sl[r], v.sl[r], st.m, v.m, r)
    <3>1. SampleOf(st.sl[r], u.sl[r], st.m, u.m, r) /\ v.sl[r] = u.sl[r]
      BY <1>a, <2>1 DEF SampledTo
    <3> QED BY <2>3, <3>1 DEF SampleOf
  <2>6. SampledTo(st, v, T \cup {s})
    BY <1>a, <2>1, <2>2, <2>3, <2>4, <2>5 DEF SampledTo
  <2> QED BY <2>1, <2>6 DEF v
<1>b. ASSUME NEW u \in SlotsAndMemory, NEW s \in Slots PROVE Sample(u, s, s \in stops) \in SlotsAndMemory
  <2>1. (s \in stops) \in BOOLEAN
    OBVIOUS
  <2> QED BY <2>1, SampleOne
<1> DEFINE id == [s \in Slots |-> s]
           C == DOMAIN id
           V == SlotsAndMemory
           ch == [s \in NonEmpty(C) |-> Max(s)]
           op(u, s) == Sample(u, s, s \in stops)
           F == [p \in NonEmpty(C) \X V |-> op(p[2], id[Max(p[1])])]
           it == CHOOSE h : h = [s \in SUBSET C |->
                   IF s = {} THEN st ELSE op(h[s \ {Max(s)}], id[Max(s)])]
           H == {p \in (SUBSET C) \X V : SampledTo(st, p[2], p[1])}
<1>1. Chooses(ch, C) /\ C \in SUBSET Slots /\ st \in V
  <2>1. C = 1..NSlots /\ NSlots \in Nat /\ C = Slots
    BY BatchAssumption DEF Slots
  <2>2. Chooses(ch, C)
    <3> HIDE DEF id
    <3> QED BY <2>1, LastOf
  <2> QED BY <2>1, <2>2
<1>2. \A s \in NonEmpty(C) : ch[s] = id[Max(s)] /\ ch[s] = Max(s) /\ ch[s] \in s /\ ch[s] \in Slots
                           /\ s \ {ch[s]} \in SUBSET C /\ s \in SUBSET C
                           /\ s \ {ch[s]} \in SUBSET Slots /\ (s \ {ch[s]}) \cup {ch[s]} = s
  <2>1. \A s \in NonEmpty(C) : ch[s] = Max(s)
    OBVIOUS
  <2> HIDE DEF ch
  <2>2. \A s \in NonEmpty(C) : ch[s] \in s /\ s \in SUBSET C
    BY <1>1 DEF Chooses, NonEmpty
  <2> HIDE DEF C
  <2> QED BY <1>1, <2>1, <2>2
<1>3. ASSUME NEW u \in V, NEW s \in Slots PROVE op(u, s) \in V
  BY <1>b
<1>4. \A s \in NonEmpty(C), v \in V : F[<<s, v>>] = op(v, ch[s])
  <2> SUFFICES ASSUME NEW s \in NonEmpty(C), NEW v \in V PROVE F[<<s, v>>] = op(v, ch[s])
    OBVIOUS
  <2>1. F[<<s, v>>] = op(v, id[Max(s)])
    OBVIOUS
  <2> HIDE DEF F, op, ch
  <2> QED BY <1>2, <2>1
<1>5. Closes(F, C, V)
  <2> HIDE DEF F, C, op, ch
  <2> SUFFICES ASSUME NEW s \in NonEmpty(C), NEW v \in V PROVE F[<<s, v>>] \in V
    BY DEF Closes
  <2>1. F[<<s, v>>] = op(v, ch[s]) /\ ch[s] \in Slots
    BY <1>2, <1>4
  <2> QED BY <1>3, <2>1
<1>6. PICK g : IsFold(g, C, V, st, ch, F)
  <2> HIDE DEF F, C, ch, V
  <2> QED BY <1>1, <1>5, FoldExists DEF Closes
<1>7. g = [s \in SUBSET C |-> IF s = {} THEN st ELSE op(g[s \ {Max(s)}], id[Max(s)])]
  <2>1. g \in [SUBSET C -> V] /\ g[{}] = st
    BY <1>6 DEF IsFold
  <2>2. \A s \in SUBSET C : s # {} => s \in NonEmpty(C)
    BY DEF NonEmpty
  <2>3. ASSUME NEW s \in NonEmpty(C) PROVE g[s] = op(g[s \ {Max(s)}], id[Max(s)])
    <3> HIDE DEF F, op, ch, C
    <3>1. ch[s] = Max(s) /\ ch[s] = id[Max(s)] /\ s \ {ch[s]} \in SUBSET C
      BY <1>2
    <3>2. g[s] = F[<<s, g[s \ {ch[s]}]>>] /\ g[s \ {ch[s]}] \in V
      BY <1>6, <2>1, <3>1 DEF IsFold
    <3>3. g[s] = op(g[s \ {ch[s]}], ch[s])
      BY <1>4, <3>2
    <3> QED BY <3>1, <3>3
  <2> HIDE DEF op, F, C
  <2> DEFINE h == [s \in SUBSET C |-> IF s = {} THEN st ELSE op(g[s \ {Max(s)}], id[Max(s)])]
  <2>4. \A s \in SUBSET C : g[s] = h[s]
    BY <2>1, <2>2, <2>3
  <2>5. h = [s \in SUBSET C |-> h[s]] /\ g = [s \in SUBSET C |-> g[s]]
    BY <2>1
  <2>6. g = h
    <3> HIDE DEF h
    <3> QED BY <2>4, <2>5
  <2> QED BY <2>6
<1>8. it = [s \in SUBSET C |-> IF s = {} THEN st ELSE op(it[s \ {Max(s)}], id[Max(s)])]
  BY <1>7
<1>9. SampledAll(st, stops) = it[C]
  BY DEF SampledAll, InSlotOrder, FoldLeft, MapThenFoldSet
<1> HIDE DEF it
<1>10. Follows(it, C, V, st, ch, F)
  <2>1. it[{}] = st
    BY <1>8
  <2>2. ASSUME NEW s \in NonEmpty(C), it[s \ {ch[s]}] \in V
        PROVE  it[s] = F[<<s, it[s \ {ch[s]}]>>]
    <3>1. s # {}
      BY DEF NonEmpty
    <3> HIDE DEF F, op, ch, C
    <3>2. s \in SUBSET C
      BY <1>2
    <3>3. it[s] = op(it[s \ {Max(s)}], id[Max(s)])
      BY <1>8, <3>1, <3>2
    <3>4. it[s] = op(it[s \ {ch[s]}], ch[s])
      BY <1>2, <3>3
    <3>5. F[<<s, it[s \ {ch[s]}]>>] = op(it[s \ {ch[s]}], ch[s])
      BY <1>4, <2>2
    <3> QED BY <3>4, <3>5
  <2> HIDE DEF F, ch, C
  <2> QED BY <2>1, <2>2 DEF Follows
<1>11. Carries(H, C, V, st, ch, F)
  <2>1. <<{}, st>> \in H
    BY <1>1 DEF SampledTo, Thinner
  <2>2. ASSUME NEW s \in NonEmpty(C), NEW v \in V, <<s \ {ch[s]}, v>> \in H
        PROVE  <<s, F[<<s, v>>]>> \in H
    <3>1. F[<<s, v>>] = op(v, ch[s]) /\ ch[s] \in Slots \ (s \ {ch[s]}) /\ ch[s] \in C \ (s \ {ch[s]})
      BY <1>2, <1>4
    <3>2. SampledTo(st, v, s \ {ch[s]})
      BY <2>2
    <3>3. op(v, ch[s]) \in V /\ SampledTo(st, op(v, ch[s]), s)
      <4> HIDE DEF ch, C, id
      <4>1. Sample(v, ch[s], ch[s] \in stops) \in SlotsAndMemory
            /\ SampledTo(st, Sample(v, ch[s], ch[s] \in stops), (s \ {ch[s]}) \cup {ch[s]})
        BY <1>a, <1>2, <3>1, <3>2
      <4> QED BY <1>2, <4>1
    <3> HIDE DEF F, ch, op, C
    <3> QED BY <1>2, <3>1, <3>3
  <2> HIDE DEF H, F, ch, C
  <2> QED BY <2>1, <2>2 DEF Carries
<1>12. it[C] \in V /\ <<C, it[C]>> \in H
  <2> HIDE DEF H, F, ch, C, V
  <2> QED BY <1>1, <1>5, <1>10, <1>11, FoldRule
<1> QED BY <1>9, <1>12

-----------------------------------------------------------------------------
(* DecidedInv, one lemma for each operation.  An index at which a slot is    *)
(* sampled is only given up by the chunk that has its token.                *)

IndexKept == \A s \in Slots : slot'[s].ibatch = slot[s].ibatch \/ slot'[s].ibatch >= 0

\* What SampledAtItsToken says of a step.
AtItsToken ==
  \A s \in Slots :
    slot[s].ibatch >= 0 /\ slot'[s].ibatch = -1 /\ ~IsChild(slot, s)
      => batch[slot[s].ibatch + 1].slot = s /\ InChunk(slot[s].ibatch)
         /\ slot[s].prompt - 1 \in PosOf(s)

LEMMA KeptIsAtItsToken == ASSUME IndexKept PROVE AtItsToken
<1> SUFFICES ASSUME NEW s \in Slots, slot[s].ibatch >= 0, slot'[s].ibatch = -1 PROVE FALSE
  BY DEF AtItsToken
<1> QED BY DEF IndexKept

\* The slots that are there, by their parts.
LEMMA SlotFacts ==
  ASSUME BatchTyped
  PROVE  /\ State \in SlotsAndMemory /\ State.sl = slot /\ State.m = mem
         /\ \A s \in Slots : /\ slot[s] \in SlotRec /\ slot[s].prompt \in Int
                             /\ slot[s].ibatch \in Int /\ slot[s].len \in Nat
         /\ mix.cells \in Nat \ {0} /\ mix.lens \subseteq Nat \ {0} /\ mix.kinds \subseteq Kinds
         /\ NSlots \in Nat \ {0} /\ NBatch \in Nat \ {0} /\ Len(batch) \in Nat /\ i \in Nat /\ nb \in Nat
<1>1. State \in SlotsAndMemory /\ State.sl = slot /\ State.m = mem
  BY DEF State, SlotsAndMemory, BatchTyped
<1>2. \A s \in Slots : /\ slot[s] \in SlotRec /\ slot[s].prompt \in Int
                       /\ slot[s].ibatch \in Int /\ slot[s].len \in Nat
  BY DEF BatchTyped, SlotRec
<1>3. mix.cells \in Nat \ {0} /\ mix.lens \subseteq Nat \ {0} /\ mix.kinds \subseteq Kinds
  BY BatchAssumption DEF BatchTyped
<1>4. Len(batch) \in Nat
  BY DEF BatchTyped
<1> QED BY <1>1, <1>2, <1>3, <1>4, BatchAssumption DEF BatchTyped

\* Between two iterations nothing is due.
LEMMA NothingDue ==
  ASSUME DecidedInv, mpc = "take"
  PROVE  /\ batch = <<>> /\ i = 0 /\ Len(batch) = 0
         /\ \A s \in Slots : slot[s].state # "done" /\ (slot[s].state = "gen" => slot[s].ibatch = -1)
<1>1. batch = <<>> /\ i = 0 /\ Len(batch) = 0
  BY DEF DecidedInv, BatchTyped
<1>2. ASSUME NEW s \in Slots PROVE ~Due(slot[s], i, Len(batch))
  BY <1>1, SlotFacts DEF Due, DecidedInv
<1> QED BY <1>1, <1>2 DEF DecidedInv, Decided

LEMMA DecidedLaunch ==
  ASSUME DecidedInv, NEW s \in Slots, NEW kind \in Kinds, NEW len, Launch(s, kind, len)
  PROVE  DecidedInv' /\ IndexKept
<1> DEFINE task == [IdleSlot EXCEPT !.state = "started", !.kind = kind, !.len = len,
                                    !.prompt = slot[s].prompt, !.ibatch = slot[s].ibatch]
           child(c) == [task EXCEPT !.state = "wait", !.parent = s,
                                    !.prompt = slot[c].prompt, !.ibatch = slot[c].ibatch]
<1>1. BatchTyped /\ mpc = "take" /\ len \in mix.lens
  BY DEF DecidedInv, Launch
<1>2. len \in Nat \ {0} /\ s \in 0..NSlots /\ 0 \in 0..NSlots
  BY <1>1, SlotFacts DEF Slots
<1>3. /\ task \in SlotRec /\ task.state = "started" /\ task.len = len
      /\ task.ibatch = slot[s].ibatch
  BY <1>1, <1>2, SlotFacts DEF IdleSlot, SlotRec
<1>4. \A c \in Slots : /\ child(c) \in SlotRec /\ child(c).state = "wait" /\ child(c).len = len
                       /\ child(c).ibatch = slot[c].ibatch
  BY <1>1, <1>2, SlotFacts DEF IdleSlot, SlotRec
<1>5. /\ slot' \in [Slots -> SlotRec]
      /\ \A r \in Slots : \/ slot'[r] = slot[r]
                          \/ /\ slot'[r].state \in {"started", "wait"} /\ slot'[r].len = len
                             /\ slot'[r].ibatch = slot[r].ibatch
  <2>1. slot \in [Slots -> SlotRec]
    BY <1>1 DEF BatchTyped
  <2>2. CASE slot' = [slot EXCEPT ![s] = task]
    <3> HIDE DEF task
    <3> QED BY <1>3, <2>1, <2>2
  <2>3. CASE \E c \in Slots \ {s} : slot' = [slot EXCEPT ![s] = task, ![c] = child(c)]
    <3> HIDE DEF task, child
    <3> QED BY <1>3, <1>4, <2>1, <2>3
  <2> QED BY <2>2, <2>3 DEF Launch
<1>6. UNCHANGED <<mix, mem, mpc, cur, batch, i, nb>>
  BY DEF Launch
<1>7. BatchTyped'
  BY <1>1, <1>5, <1>6 DEF BatchTyped
<1>8. \A r \in Slots : Due(slot'[r], i', Len(batch')) => slot'[r] = slot[r]
  BY <1>5, <1>6 DEF Due
<1>9. \A r \in Slots : /\ Decided(slot'[r], i', Len(batch')) /\ Unfinished(slot'[r])
                       /\ Due(slot'[r], i', Len(batch')) /\ slot'[r].parent = 0
                            => OwnToken(slot', batch', r)
  BY <1>2, <1>5, <1>6, <1>8 DEF DecidedInv, Decided, Unfinished, Due, OwnToken
<1> QED BY <1>5, <1>7, <1>9 DEF DecidedInv, IndexKept

LEMMA DecidedCancel ==
  ASSUME DecidedInv, NEW s \in Slots, Cancel(s)
  PROVE  DecidedInv' /\ IndexKept
<1> DEFINE v == Release(State, s)
           C == WaitingFor(slot, s)
           u == ReleaseSet(v, C)
<1>1. BatchTyped /\ mpc = "take" /\ C \in SUBSET Slots
  BY DEF DecidedInv, Cancel, WaitingFor
<1>2. slot' = u.sl /\ mem' = u.m
  BY DEF Cancel, Become, ReleaseSet, FoldSet, MapThenFoldSet
<1>3. /\ v \in SlotsAndMemory
      /\ \A r \in Slots \ {s} : v.sl[r] = slot[r]
      /\ v.sl[s] = FreeSlot(slot[s], PromptLeft(slot[s]))
  <2>1. State \in SlotsAndMemory /\ State.sl = slot
    BY <1>1, SlotFacts
  <2>2. /\ v \in SlotsAndMemory
        /\ \A r \in Slots \ {s} : v.sl[r] = State.sl[r]
        /\ v.sl[s] = FreeSlot(State.sl[s], PromptLeft(State.sl[s]))
    BY <2>1, ReleaseIs
  <2> QED BY <2>1, <2>2
<1> HIDE DEF v, C
<1>4. u \in SlotsAndMemory /\ ReleasedIn(v, u, C)
  BY <1>1, <1>3, ReleaseSetIs
<1> HIDE DEF u
<1>5. \A x \in SlotRec : PromptLeft(x) \in Int /\ FreeSlot(x, PromptLeft(x)).state = "idle"
                         /\ FreeSlot(x, PromptLeft(x)).ibatch = x.ibatch
  <2> SUFFICES ASSUME NEW x \in SlotRec
               PROVE  PromptLeft(x) \in Int /\ FreeSlot(x, PromptLeft(x)).state = "idle"
                      /\ FreeSlot(x, PromptLeft(x)).ibatch = x.ibatch
    OBVIOUS
  <2>1. PromptLeft(x) \in Int
    BY DEF PromptLeft, SlotRec
  <2> QED BY <2>1, FreeSlotTyped
<1>6. v.sl \in [Slots -> SlotRec] /\ u.sl \in [Slots -> SlotRec] /\ u.m \in Memory
  BY <1>3, <1>4 DEF SlotsAndMemory
<1>7. \A r \in Slots : slot'[r] = slot[r] \/ (slot'[r].state = "idle" /\ slot'[r].ibatch = slot[r].ibatch)
  <2> TAKE r \in Slots
  <2>1. v.sl[r] = slot[r] \/ (v.sl[r].state = "idle" /\ v.sl[r].ibatch = slot[r].ibatch)
    BY <1>1, <1>3, <1>5, SlotFacts
  <2>2. u.sl[r] = v.sl[r] \/ (u.sl[r].state = "idle" /\ u.sl[r].ibatch = v.sl[r].ibatch)
    BY <1>4, <1>5, <1>6 DEF ReleasedIn
  <2> QED BY <1>2, <2>1, <2>2
<1>8. UNCHANGED <<mix, mpc, cur, batch, i, nb>>
  BY DEF Cancel
<1>9. BatchTyped'
  BY <1>1, <1>2, <1>6, <1>8 DEF BatchTyped
<1>10. \A r \in Slots : /\ Decided(slot'[r], i', Len(batch')) /\ Unfinished(slot'[r])
                        /\ Due(slot'[r], i', Len(batch')) /\ slot'[r].parent = 0
                             => OwnToken(slot', batch', r)
  BY <1>7, <1>8 DEF DecidedInv, Decided, Unfinished, Due, OwnToken
<1> QED BY <1>7, <1>9, <1>10 DEF DecidedInv, IndexKept

LEMMA DecidedBegin == ASSUME DecidedInv, Begin PROVE DecidedInv' /\ IndexKept
<1> DEFINE st == ShiftedAll(State)
           x == AddedAll(st.sl)
<1>1. BatchTyped /\ mpc = "take"
  BY DEF DecidedInv, Begin
<1>2. /\ slot' = x.sl /\ mem' = st.m /\ batch' = x.b /\ cur' = 1 /\ mpc' = "prompts"
      /\ UNCHANGED <<mix, i, nb>>
  BY DEF Begin, ShiftedAll, AddedAll
<1>3. st \in SlotsAndMemory /\ Shifted(State, st, Slots)
  BY <1>1, SlotFacts, ShiftedAllIs
<1> HIDE DEF st
<1>4. st.sl \in [Slots -> SlotRec] /\ st.m \in Memory
  BY <1>3 DEF SlotsAndMemory
<1>5. x \in SlotsAndBatch /\ Added(st.sl, x, Slots)
  BY <1>4, AddedAllIs
<1> HIDE DEF x
<1>6. x.sl \in [Slots -> SlotRec] /\ x.b \in Seq(Token) /\ Len(x.b) \in Nat
  BY <1>5 DEF SlotsAndBatch
<1>7. ASSUME NEW r \in Slots
      PROVE  /\ st.sl[r].state # "done" /\ Unfinished(st.sl[r])
             /\ st.sl[r].ibatch = slot[r].ibatch
  <2>1. slot[r].state # "done" /\ Unfinished(slot[r])
    BY <1>1, NothingDue DEF DecidedInv
  <2>2. ShiftOf(slot[r], st.sl[r], mem, st.m, r)
    BY <1>1, <1>3, SlotFacts DEF Shifted
  <2>3. slot[r] \in SlotRec
    BY <1>1, SlotFacts
  <2>4. PromptLeft(slot[r]) \in Int
    BY <2>3 DEF PromptLeft, SlotRec
  <2>5. CASE st.sl[r] = FreeSlot(slot[r], PromptLeft(slot[r]))
    <3>1. st.sl[r].state = "idle" /\ st.sl[r].ibatch = slot[r].ibatch
      BY <2>3, <2>4, <2>5, FreeSlotTyped
    <3> QED BY <3>1 DEF Unfinished
  <2>6. CASE slot[r].state = "gen" /\ \E p \in Int : st.sl[r] = [slot[r] EXCEPT !.prompt = p]
    <3>1. st.sl[r].state = "gen" /\ st.sl[r].ibatch = slot[r].ibatch
      BY <2>3, <2>6 DEF SlotRec
    <3> QED BY <3>1 DEF Unfinished
  <2>7. \/ st.sl[r] = slot[r]
        \/ st.sl[r] = FreeSlot(slot[r], PromptLeft(slot[r]))
        \/ slot[r].state = "gen" /\ \E p \in Int : st.sl[r] = [slot[r] EXCEPT !.prompt = p]
    BY <2>2 DEF ShiftOf
  <2>8. CASE st.sl[r] = slot[r]
    BY <2>1, <2>8
  <2> QED BY <2>5, <2>6, <2>7, <2>8
<1>8. ASSUME NEW r \in Slots
      PROVE  /\ Decided(x.sl[r], 0, Len(x.b)) /\ Unfinished(x.sl[r])
             /\ Due(x.sl[r], 0, Len(x.b)) => OwnToken(x.sl, x.b, r)
             /\ x.sl[r].ibatch = slot[r].ibatch \/ x.sl[r].ibatch >= 0
  <2>1. CASE st.sl[r].state = "gen"
    <3>1. PICK k \in 1..Len(x.b) : /\ x.sl[r] = [st.sl[r] EXCEPT !.prompt = @ + 1, !.ibatch = k - 1]
                                   /\ x.b[k] = [slot |-> r, pos |-> st.sl[r].prompt]
      BY <1>5, <2>1 DEF Added
    <3>2. st.sl[r] \in SlotRec /\ st.sl[r].prompt \in Int
      BY <1>4 DEF SlotRec
    <3>3. /\ x.sl[r].state = "gen" /\ x.sl[r].ibatch = k - 1
          /\ x.sl[r].prompt = st.sl[r].prompt + 1
      BY <2>1, <3>1, <3>2 DEF SlotRec
    <3>4. 0 <= k - 1 /\ k - 1 < Len(x.b) /\ (k - 1) + 1 = k /\ (st.sl[r].prompt + 1) - 1 = st.sl[r].prompt
      BY <1>6, <3>1, <3>2
    <3> QED BY <3>1, <3>3, <3>4 DEF Decided, Due, Unfinished, OwnToken
  <2>2. CASE st.sl[r].state # "gen"
    <3>1. x.sl[r] = st.sl[r]
      BY <1>5, <2>2 DEF Added
    <3> QED BY <1>7, <2>2, <3>1 DEF Decided, Due
  <2> QED BY <2>1, <2>2
<1>9. i = 0 /\ 1 \in Slots
  BY <1>1, NothingDue, SlotFacts DEF Slots
<1>10. BatchTyped'
  BY <1>1, <1>2, <1>4, <1>6, <1>9 DEF BatchTyped
<1> QED BY <1>2, <1>8, <1>9, <1>10 DEF DecidedInv, IndexKept

\* The loop over prompts goes on.
LEMMA TurnTyped ==
  ASSUME BatchTyped, mpc = "prompts", NEW last, cur = NSlots => last, NextTurn(last)
  PROVE  mpc' \in {"prompts", "decode"} /\ (mpc' = "prompts" => cur' \in Slots)
<1>1. cur \in Slots /\ NSlots \in Nat
  BY SlotFacts DEF BatchTyped
<1> QED BY <1>1 DEF NextTurn, Slots

LEMMA DecidedSkip == ASSUME DecidedInv, SkipTurn PROVE DecidedInv' /\ IndexKept
<1>1. BatchTyped /\ mpc = "prompts" /\ UNCHANGED <<mix, slot, mem, batch, i, nb>>
  BY DEF DecidedInv, SkipTurn
<1>2. mpc' \in {"prompts", "decode"} /\ (mpc' = "prompts" => cur' \in Slots)
  <2> DEFINE last == \/ cur = NSlots
                     \/ slot[cur].state = "gen" /\ Compatible(slot, lead, cur) /\ Len(batch) >= NBatch
  <2>1. NextTurn(last) /\ (cur = NSlots => last)
    BY DEF SkipTurn
  <2> HIDE DEF last
  <2> QED BY <1>1, <2>1, TurnTyped
<1>3. BatchTyped'
  BY <1>1, <1>2 DEF BatchTyped
<1> QED BY <1>1, <1>3 DEF DecidedInv, IndexKept

\* The tokens of a prompt that are put into the batch, from p on.
PromptTokens(s, p, n) == [k \in 1..n |-> [slot |-> s, pos |-> p + k - 1]]

LEMMA MaxOfTwo ==
  ASSUME NEW m \in Int, NEW n \in Int
  PROVE  Max({m, n}) \in {m, n} /\ Max({m, n}) >= m /\ Max({m, n}) >= n
<1>1. {m, n} \in SUBSET Int /\ {m, n} # {} /\ {m, n} = {m} \cup {n}
  OBVIOUS
<1>2. IsFiniteSet({m, n})
  <2>1. IsFiniteSet({m}) /\ IsFiniteSet({n})
    BY FS_Singleton
  <2>2. IsFiniteSet({m} \cup {n})
    BY <2>1, FS_Union
  <2> QED BY <1>1, <2>2
<1> QED BY <1>1, <1>2, MaxIs

\* What AddPrompt makes of the slot, whose state is new.
AddPromptIs(s, p, n) ==
  /\ n \in Nat /\ p + n <= slot[s].len
  /\ batch' = batch \o PromptTokens(s, p, n)
  /\ batch' \in Seq(Token) /\ Len(batch') = Len(batch) + n
  /\ \A k \in 1..Len(batch) : batch'[k] = batch[k]
  /\ \A k \in 1..n : batch'[Len(batch) + k] = [slot |-> s, pos |-> p + k - 1]
  /\ slot' \in [Slots -> SlotRec] /\ \A r \in Slots \ {s} : slot'[r] = slot[r]
  /\ slot'[s].prompt = p + n /\ slot'[s].len = slot[s].len /\ slot'[s].parent = slot[s].parent
  /\ slot'[s].kind = slot[s].kind /\ slot'[s].decoded \in {0, slot[s].decoded}
  /\ n = 0 \/ Len(batch') <= NBatch
  /\ IF p + n = slot[s].len THEN slot'[s].state = "done" /\ slot'[s].ibatch = Len(batch') - 1 /\ n >= 1
     ELSE slot'[s].state = "prompt" /\ slot'[s].ibatch = slot[s].ibatch

LEMMA AddPromptDoes ==
  ASSUME BatchTyped, NEW s \in Slots, NEW p \in Int, p < slot[s].len, NEW m, AddPrompt(s, p, m)
  PROVE  \E n \in Nat : AddPromptIs(s, p, n)
<1> DEFINE n == Max({0, Min({slot[s].len - p, NBatch - Len(batch)})})
           toks == PromptTokens(s, p, n)
           b == batch \o toks
           done == p + n = slot[s].len
           y == [slot[s] EXCEPT !.prompt = p + n,
                                !.state = IF done THEN "done" ELSE "prompt",
                                !.decoded = IF done THEN 0 ELSE @,
                                !.ibatch = IF done THEN Len(b) - 1 ELSE @]
<1>1. batch \in Seq(Token) /\ slot[s] \in SlotRec /\ slot \in [Slots -> SlotRec]
      /\ slot[s].len \in Nat /\ slot[s].decoded \in Nat /\ slot[s].ibatch \in Int /\ Len(batch) \in Nat
      /\ NBatch \in Nat
  BY SlotFacts DEF BatchTyped, SlotRec
<1>2. n \in Nat /\ n <= slot[s].len - p /\ (n = 0 \/ n <= NBatch - Len(batch))
  <2> DEFINE k == Min({slot[s].len - p, NBatch - Len(batch)})
  <2>1. slot[s].len - p \in Int /\ NBatch - Len(batch) \in Int /\ slot[s].len - p > 0
    BY <1>1
  <2>2. k \in {slot[s].len - p, NBatch - Len(batch)} /\ k <= slot[s].len - p /\ k <= NBatch - Len(batch)
    BY <2>1, LeastOfTwo
  <2>3. k \in Int /\ 0 \in Int
    BY <2>1, <2>2
  <2>4. n = Max({0, k})
    OBVIOUS
  <2> HIDE DEF k, n
  <2>5. n \in {0, k} /\ n >= 0
    BY <2>3, <2>4, MaxOfTwo
  <2>6. n \in Nat /\ (n = 0 \/ n = k)
    BY <2>3, <2>5
  <2>7. CASE n = 0
    BY <2>1, <2>7
  <2>8. CASE n = k
    BY <2>1, <2>2, <2>6, <2>8
  <2> QED BY <2>6, <2>7, <2>8
<1>3. batch' = b /\ slot' = [slot EXCEPT ![s] = y]
  BY <1>1 DEF AddPrompt, PromptTokens, BatchTyped
<1> HIDE DEF n
<1>4. toks \in Seq(Token) /\ Len(toks) = n
      /\ \A k \in 1..n : toks[k] = [slot |-> s, pos |-> p + k - 1]
  <2>1. \A k \in 1..n : [slot |-> s, pos |-> p + k - 1] \in Token
    BY <1>2 DEF Token
  <2>2. n \in Nat
    BY <1>2
  <2> QED BY <2>1, <2>2 DEF PromptTokens
<1> HIDE DEF toks
<1>5. b \in Seq(Token) /\ Len(b) = Len(batch) + n
      /\ (\A k \in 1..Len(batch) : b[k] = batch[k])
      /\ \A k \in 1..n : b[Len(batch) + k] = [slot |-> s, pos |-> p + k - 1]
  <2>1. b \in Seq(Token) /\ Len(b) = Len(batch) + n
    BY <1>1, <1>4, ConcatProperties
  <2>2. \A k \in 1..Len(batch) : b[k] = batch[k]
    BY <1>1, <1>2, <1>4, <2>1, ConcatProperties
  <2>3. ASSUME NEW k \in 1..n PROVE b[Len(batch) + k] = [slot |-> s, pos |-> p + k - 1]
    <3>1. Len(batch) + k \in 1..Len(batch) + Len(toks) /\ Len(batch) + k > Len(batch)
          /\ (Len(batch) + k) - Len(batch) = k
      BY <1>1, <1>2, <1>4
    <3>2. b[Len(batch) + k] = toks[(Len(batch) + k) - Len(batch)]
      BY <1>1, <1>4, <3>1, ConcatProperties
    <3> QED BY <1>4, <3>1, <3>2
  <2> QED BY <2>1, <2>2, <2>3
<1> HIDE DEF b
<1>6. y \in SlotRec /\ y.prompt = p + n /\ y.len = slot[s].len /\ y.parent = slot[s].parent
      /\ y.kind = slot[s].kind /\ y.decoded \in {0, slot[s].decoded}
      /\ IF done THEN y.state = "done" /\ y.ibatch = Len(b) - 1
         ELSE y.state = "prompt" /\ y.ibatch = slot[s].ibatch
  <2>1. p + n \in Int /\ Len(b) - 1 \in Int /\ 0 \in Nat
    BY <1>1, <1>2, <1>5
  <2>2. (IF done THEN 0 ELSE slot[s].decoded) \in Nat
        /\ (IF done THEN Len(b) - 1 ELSE slot[s].ibatch) \in Int
    BY <1>1, <2>1
  <2>3. (IF done THEN "done" ELSE "prompt") \in {"done", "prompt"}
    OBVIOUS
  <2> HIDE DEF done
  <2> QED BY <1>1, <2>1, <2>2, <2>3 DEF SlotRec
<1> HIDE DEF y
<1>7. slot' \in [Slots -> SlotRec] /\ slot'[s] = y /\ \A r \in Slots \ {s} : slot'[r] = slot[r]
  BY <1>1, <1>3, <1>6
<1>8. p + n <= slot[s].len /\ (done => n >= 1)
  BY <1>1, <1>2
<1>9. batch' = batch \o PromptTokens(s, p, n)
  BY <1>3 DEF b, toks
<1> HIDE DEF done
<1>10. IF done THEN slot'[s].state = "done" /\ slot'[s].ibatch = Len(batch') - 1 /\ n >= 1
       ELSE slot'[s].state = "prompt" /\ slot'[s].ibatch = slot[s].ibatch
  BY <1>3, <1>6, <1>7, <1>8
<1> USE DEF done
<1>11. n = 0 \/ Len(batch') <= NBatch
  BY <1>1, <1>2, <1>3, <1>5
<1>12. AddPromptIs(s, p, n)
  BY <1>2, <1>3, <1>5, <1>6, <1>7, <1>8, <1>9, <1>10, <1>11 DEF AddPromptIs
<1> QED BY <1>2, <1>12

LEMMA DecidedAdd ==
  ASSUME DecidedInv, InTurn, NEW p \in Int, p < slot[cur].len, NEW m \in Memory,
         AddPrompt(cur, p, m), UNCHANGED <<mix, i, nb>>
  PROVE  DecidedInv' /\ IndexKept
<1>1. BatchTyped /\ mpc = "prompts" /\ cur \in Slots /\ i = 0 /\ Len(batch) \in Nat
      /\ slot[cur].state \in {"started", "prompt"}
  BY SlotFacts DEF DecidedInv, InTurn, BatchTyped
<1>2. PICK n \in Nat : AddPromptIs(cur, p, n)
  BY <1>1, AddPromptDoes
<1>3. mpc' \in {"prompts", "decode"} /\ (mpc' = "prompts" => cur' \in Slots)
  <2> DEFINE last == Len(batch \o [k \in 1..Max({0, Min({slot[cur].len - p, NBatch - Len(batch)})}) |->
                           [slot |-> cur, pos |-> p + k - 1]]) >= NBatch \/ cur = NSlots
  <2>1. NextTurn(last) /\ (cur = NSlots => last)
    BY DEF AddPrompt
  <2> HIDE DEF last
  <2> QED BY <1>1, <2>1, TurnTyped
<1>4. mem' \in Memory
  BY <1>1, RmFromKeeps DEF AddPrompt, Truncate
<1>5. BatchTyped'
  BY <1>1, <1>2, <1>3, <1>4 DEF BatchTyped, AddPromptIs
<1>6. ASSUME NEW r \in Slots \ {cur}
      PROVE  /\ Decided(slot[r], 0, Len(batch')) /\ Unfinished(slot[r])
             /\ Due(slot[r], 0, Len(batch')) /\ slot[r].parent = 0 => OwnToken(slot', batch', r)
  <2>1. Len(batch') >= Len(batch) /\ Len(batch') \in Nat
    BY <1>1, <1>2 DEF AddPromptIs
  <2>2. Decided(slot[r], 0, Len(batch)) /\ Unfinished(slot[r])
        /\ (Due(slot[r], 0, Len(batch)) /\ slot[r].parent = 0 => OwnToken(slot, batch, r))
    BY <1>1 DEF DecidedInv
  <2>3. slot[r].ibatch \in Int
    BY <1>1, SlotFacts
  <2>4. Due(slot[r], 0, Len(batch')) => Due(slot[r], 0, Len(batch))
    BY <1>1, <2>1, <2>2, <2>3 DEF Decided, Due
  <2>5. Due(slot[r], 0, Len(batch)) => slot[r].ibatch + 1 \in 1..Len(batch)
    BY <1>1, <2>3 DEF Due
  <2>6. Due(slot[r], 0, Len(batch)) => batch'[slot[r].ibatch + 1] = batch[slot[r].ibatch + 1]
    BY <1>2, <2>5 DEF AddPromptIs
  <2>7. slot'[r] = slot[r]
    BY <1>2 DEF AddPromptIs
  <2>8. Due(slot[r], 0, Len(batch)) => Due(slot[r], 0, Len(batch'))
    BY <1>1, <2>1, <2>3 DEF Due
  <2> QED BY <2>2, <2>4, <2>6, <2>7, <2>8 DEF Decided, OwnToken
<1>7. /\ Decided(slot'[cur], 0, Len(batch')) /\ Unfinished(slot'[cur])
      /\ Due(slot'[cur], 0, Len(batch')) => OwnToken(slot', batch', cur)
      /\ slot'[cur].ibatch = slot[cur].ibatch \/ slot'[cur].ibatch >= 0
  <2>1. slot[cur].len \in Nat
    BY <1>1, SlotFacts
  <2>2. CASE p + n = slot[cur].len
    <3>1. slot'[cur].state = "done" /\ slot'[cur].ibatch = Len(batch') - 1 /\ n >= 1
          /\ slot'[cur].prompt = p + n /\ Len(batch') = Len(batch) + n
      BY <1>2, <2>2 DEF AddPromptIs
    <3>2. batch'[Len(batch) + n] = [slot |-> cur, pos |-> p + n - 1]
      <4>1. n \in 1..n
        BY <3>1
      <4> QED BY <1>2, <4>1 DEF AddPromptIs
    <3>3. slot'[cur].ibatch >= 0 /\ slot'[cur].ibatch < Len(batch')
          /\ slot'[cur].ibatch + 1 = Len(batch) + n
      BY <1>1, <3>1
    <3> QED BY <3>1, <3>2, <3>3 DEF Decided, Due, Unfinished, OwnToken
  <2>3. CASE p + n # slot[cur].len
    <3>1. slot'[cur].state = "prompt" /\ slot'[cur].ibatch = slot[cur].ibatch
          /\ slot'[cur].prompt = p + n /\ slot'[cur].len = slot[cur].len /\ p + n <= slot[cur].len
      BY <1>2, <2>3 DEF AddPromptIs
    <3>2. p + n < slot[cur].len /\ slot[cur].len > 0
      <4>1. slot[cur].len > 0
        BY <1>1 DEF DecidedInv, Unfinished
      <4> QED BY <2>1, <2>3, <3>1, <4>1
    <3> QED BY <3>1, <3>2 DEF Decided, Due, Unfinished
  <2> QED BY <2>2, <2>3
<1>8. i' = 0 /\ \A r \in Slots \ {cur} : slot'[r] = slot[r]
  BY <1>1, <1>2 DEF AddPromptIs
<1> QED BY <1>5, <1>6, <1>7, <1>8 DEF DecidedInv, IndexKept

\* n_past is less than the prompt.
LEMMA NPastLess ==
  ASSUME BatchTyped, NEW s \in Slots, slot[s].len > 0,
         NEW c, c \in (IF CanSplit(s) THEN Cached(s) ELSE {[nPast |-> 0, m |-> mem]})
  PROVE  /\ c.nPast \in Int /\ c.nPast <= slot[s].len /\ (slot[s].prompt >= 0 => c.nPast >= 0)
         /\ c.m \in Memory /\ Thinner(mem, c.m)
<1>1. slot[s].len \in Nat /\ slot[s].prompt \in Int /\ mem \in Memory /\ mix.cells \in Nat
  BY SlotFacts DEF BatchTyped
<1>2. Thinner(mem, mem)
  BY DEF Thinner
<1>3. CASE c = [nPast |-> 0, m |-> mem]
  BY <1>1, <1>2, <1>3
<1>4. CASE c \in {[nPast |-> k, m |-> mem] : k \in 0..Min({slot[s].prompt, slot[s].len})}
  <2> DEFINE M == Min({slot[s].prompt, slot[s].len})
  <2>1. M \in {slot[s].prompt, slot[s].len} /\ M <= slot[s].len
    <3>1. slot[s].prompt \in Int /\ slot[s].len \in Int
      BY <1>1
    <3> QED BY <3>1, LeastOfTwo
  <2>2. PICK k \in 0..M : c = [nPast |-> k, m |-> mem]
    BY <1>4
  <2> HIDE DEF M
  <2>3. M \in Int
    BY <1>1, <2>1
  <2>4. k \in Int /\ k >= 0 /\ k <= slot[s].len
    BY <1>1, <2>1, <2>2, <2>3
  <2> QED BY <1>1, <1>2, <2>2, <2>4
<1>5. CASE c \in Cached(s) /\ c \notin {[nPast |-> k, m |-> mem] : k \in 0..Min({slot[s].prompt, slot[s].len})}
  <2>1. PICK r \in (0..mix.cells) \X (1..mix.cells) \X (1..mix.cells) :
          /\ r[1] + r[3] <= slot[s].len
          /\ c = [nPast |-> r[1] + r[3],
                  m |-> Shift(Rm(mem, s, r[1], r[2]), s, r[2], r[2] + r[3], r[1] - r[2])]
    BY <1>5 DEF Cached
  <2>2. r[1] \in Nat /\ r[2] \in Nat /\ r[3] \in Nat
    BY <1>1, <2>1
  <2> DEFINE n == Rm(mem, s, r[1], r[2])
  <2>3. n \in Memory /\ Thinner(mem, n)
    BY <1>1, <2>2, RmKeeps DEF Thinner
  <2>4. c.m = Shift(n, s, r[2], r[2] + r[3], r[1] - r[2]) /\ c.nPast = r[1] + r[3]
    BY <2>1
  <2> HIDE DEF n
  <2>5. c.m \in Memory /\ Thinner(n, c.m)
    <3>1. r[2] + r[3] \in Int /\ r[1] - r[2] \in Int /\ r[2] \in Int
      BY <2>2
    <3> QED BY <2>3, <2>4, <3>1, ShiftKeeps DEF Thinner
  <2>6. Thinner(mem, c.m)
    BY <2>3, <2>5 DEF Thinner
  <2> QED BY <2>1, <2>2, <2>4, <2>5, <2>6
<1> QED BY <1>3, <1>4, <1>5

LEMMA NPastIs ==
  ASSUME BatchTyped, NEW s \in Slots, slot[s].len > 0,
         NEW c, c \in (IF CanSplit(s) THEN Cached(s) ELSE {[nPast |-> 0, m |-> mem]})
  PROVE  NPast(s, c) \in Int /\ NPast(s, c) < slot[s].len /\ (slot[s].prompt >= 0 => NPast(s, c) >= 0)
<1>1. c.nPast \in Int /\ c.nPast <= slot[s].len /\ (slot[s].prompt >= 0 => c.nPast >= 0)
  BY NPastLess
<1>2. slot[s].len \in Nat
  BY SlotFacts
<1> DEFINE n == IF c.nPast > 0 /\ PosMin(c.m, s) >= Max({0, c.nPast - 1}) THEN 0 ELSE c.nPast
<1>3. n \in {0, c.nPast}
  OBVIOUS
<1>4. NPast(s, c) = IF n = slot[s].len THEN n - 1 ELSE n
  BY DEF NPast
<1> HIDE DEF n
<1> QED BY <1>1, <1>2, <1>3, <1>4

LEMMA DecidedStart == ASSUME DecidedInv, StartPrompt PROVE DecidedInv' /\ IndexKept
<1>1. BatchTyped /\ mpc = "prompts" /\ cur \in Slots /\ InTurn /\ slot[cur].state = "started"
      /\ UNCHANGED <<mix, i, nb>>
  BY DEF DecidedInv, StartPrompt, InTurn, BatchTyped
<1>2. slot[cur].len > 0
  BY <1>1 DEF DecidedInv, Unfinished
<1>3. PICK c \in (IF CanSplit(cur) THEN Cached(cur) ELSE {[nPast |-> 0, m |-> mem]}) :
        IF Fits(cur) THEN AddPrompt(cur, NPast(cur, c), c.m)
        ELSE /\ slot' = [slot EXCEPT ![cur].state = "prompt", ![cur].prompt = NPast(cur, c)]
             /\ NextTurn(cur = NSlots)
             /\ UNCHANGED <<mem, lead, batch>>
  BY DEF StartPrompt
<1>4. NPast(cur, c) \in Int /\ NPast(cur, c) < slot[cur].len /\ c.m \in Memory
  BY <1>1, <1>2, NPastLess, NPastIs
<1>5. CASE Fits(cur)
  BY <1>1, <1>3, <1>4, <1>5, DecidedAdd
<1>6. CASE ~Fits(cur)
  <2> DEFINE q == NPast(cur, c)
             y == [slot[cur] EXCEPT !.state = "prompt", !.prompt = q]
  <2>1. slot[cur] \in SlotRec /\ slot \in [Slots -> SlotRec]
    BY <1>1, SlotFacts DEF BatchTyped
  <2>2. slot' = [slot EXCEPT ![cur] = y] /\ NextTurn(cur = NSlots) /\ UNCHANGED <<mem, batch>>
    BY <1>3, <1>6, <2>1
  <2> HIDE DEF q
  <2>3. y \in SlotRec /\ y.state = "prompt" /\ y.prompt = q /\ y.len = slot[cur].len
        /\ y.ibatch = slot[cur].ibatch
    BY <1>4, <2>1 DEF SlotRec, q
  <2> HIDE DEF y
  <2>4. slot' \in [Slots -> SlotRec] /\ slot'[cur] = y /\ \A r \in Slots \ {cur} : slot'[r] = slot[r]
    BY <1>1, <2>1, <2>2, <2>3
  <2>5. mpc' \in {"prompts", "decode"} /\ (mpc' = "prompts" => cur' \in Slots)
    BY <1>1, <2>2, TurnTyped
  <2>6. BatchTyped'
    BY <1>1, <2>2, <2>4, <2>5 DEF BatchTyped
  <2>7. Unfinished(y) /\ Decided(y, i, Len(batch)) /\ ~Due(y, i, Len(batch))
    BY <1>2, <1>4, <2>3 DEF Unfinished, Decided, Due, q
  <2>8. \A r \in Slots : /\ Decided(slot'[r], i', Len(batch')) /\ Unfinished(slot'[r])
                         /\ Due(slot'[r], i', Len(batch')) /\ slot'[r].parent = 0
                              => OwnToken(slot', batch', r)
    BY <1>1, <2>2, <2>4, <2>7 DEF DecidedInv, OwnToken
  <2> QED BY <2>3, <2>4, <2>6, <2>8 DEF DecidedInv, IndexKept
<1> QED BY <1>5, <1>6

LEMMA DecidedContinue == ASSUME DecidedInv, ContinuePrompt PROVE DecidedInv' /\ IndexKept
<1>1. BatchTyped /\ mpc = "prompts" /\ cur \in Slots /\ InTurn /\ slot[cur].state = "prompt"
      /\ UNCHANGED <<mix, i, nb>> /\ mem \in Memory
  BY DEF DecidedInv, ContinuePrompt, InTurn, BatchTyped
<1>2. slot[cur].prompt \in Int /\ slot[cur].prompt < slot[cur].len
  BY <1>1, SlotFacts DEF DecidedInv, Unfinished
<1>3. CASE Fits(cur)
  BY <1>1, <1>2, <1>3, DecidedAdd DEF ContinuePrompt
<1>4. CASE ~Fits(cur)
  <2>1. NextTurn(cur = NSlots) /\ UNCHANGED <<slot, mem, batch>>
    BY <1>4 DEF ContinuePrompt
  <2>2. mpc' \in {"prompts", "decode"} /\ (mpc' = "prompts" => cur' \in Slots)
    BY <1>1, <2>1, TurnTyped
  <2>3. BatchTyped'
    BY <1>1, <2>1, <2>2 DEF BatchTyped
  <2> QED BY <1>1, <2>1, <2>3 DEF DecidedInv, IndexKept, Decided, Due, Unfinished, OwnToken
<1> QED BY <1>3, <1>4

\* An iteration that ends leaves nothing in the batch.
LEMMA EndTyped ==
  ASSUME BatchTyped, EndIteration, slot' \in [Slots -> SlotRec], mem' \in Memory
  PROVE  BatchTyped' /\ batch' = <<>> /\ i' = 0 /\ Len(batch') = 0 /\ mpc' = "take"
<1>1. batch' = <<>> /\ i' = 0 /\ Len(batch') = 0 /\ mpc' = "take" /\ nb' = NBatch /\ mix' = mix
  BY DEF EndIteration
<1>2. batch' \in Seq(Token) /\ i' \in 0..Len(batch') /\ nb' \in 1..NBatch
  BY <1>1, SlotFacts
<1> QED BY <1>1, <1>2 DEF BatchTyped

LEMMA DecidedEmpty == ASSUME DecidedInv, EmptyBatch PROVE DecidedInv' /\ IndexKept
<1>1. BatchTyped /\ EndIteration /\ UNCHANGED <<slot, mem>> /\ batch = <<>>
  BY DEF DecidedInv, EmptyBatch
<1>2. slot' \in [Slots -> SlotRec] /\ mem' \in Memory /\ Len(batch) = 0 /\ i = 0
  BY <1>1 DEF BatchTyped
<1>3. BatchTyped' /\ batch' = batch /\ i' = 0 /\ Len(batch') = 0
  BY <1>1, <1>2, EndTyped
<1> QED BY <1>1, <1>2, <1>3 DEF DecidedInv, IndexKept, Decided, Due, Unfinished, OwnToken

LEMMA DecidedFail == ASSUME DecidedInv, NEW e, FailWith(e) PROVE DecidedInv' /\ IndexKept
<1> DEFINE C == {s \in Slots : IsProcessing(State.sl, s)}
           u == ErrorAll(State)
<1>1. BatchTyped /\ EndIteration /\ slot' = u.sl /\ mem' = u.m
  BY DEF DecidedInv, FailWith, Become
<1>2. u \in SlotsAndMemory /\ Erased(State, u, C)
  BY <1>1, SlotFacts, ErrorAllIs
<1> HIDE DEF u
<1>3. slot' \in [Slots -> SlotRec] /\ mem' \in Memory
  BY <1>1, <1>2 DEF SlotsAndMemory
<1>4. BatchTyped' /\ batch' = <<>> /\ i' = 0 /\ Len(batch') = 0
  BY <1>1, <1>3, EndTyped
<1>5. ASSUME NEW r \in Slots PROVE slot'[r].state = "idle" /\ slot'[r].ibatch = slot[r].ibatch
  <2>1. slot[r] \in SlotRec /\ State.sl = slot /\ 0 \in Int
    BY <1>1, SlotFacts
  <2>2. CASE r \in C
    BY <1>1, <1>2, <2>1, <2>2, FreeSlotTyped DEF Erased
  <2>3. CASE r \notin C
    BY <1>1, <1>2, <2>1, <2>3 DEF Erased, IsProcessing
  <2> QED BY <2>2, <2>3
<1> QED BY <1>4, <1>5 DEF DecidedInv, IndexKept, Decided, Due, Unfinished

\* A retry purges a slot that is idle, or halves what a chunk may have.
LEMMA RetryIs ==
  ASSUME BatchTyped, Retry
  PROVE  /\ \/ /\ nb' = nb
               /\ \E s \in Purgeable : /\ slot' = [slot EXCEPT ![s].prompt = 0]
                                       /\ Thinner(mem, mem') /\ (FromZero(mem) => ~Has(mem', s))
                                       /\ Apart(mem, mem', {s})
            \/ Purgeable = {} /\ nb' = nb \div 2 /\ slot' = slot /\ mem' = mem
         /\ slot' \in [Slots -> SlotRec] /\ mem' \in Memory /\ nb' \in 1..NBatch
         /\ mpc = "decode" /\ UNCHANGED <<mix, mpc, cur, batch, i>>
<1>1. mpc = "decode" /\ UNCHANGED <<mix, mpc, cur, batch, i>> /\ nb # 1
  BY DEF Retry, Smallest
<1>2. nb \in 1..NBatch /\ slot \in [Slots -> SlotRec] /\ mem \in Memory /\ NBatch \in Nat /\ NSlots \in Nat
  BY SlotFacts DEF BatchTyped
<1>3. CASE Purgeable # {}
  <2> DEFINE s == Min(Purgeable)
             v == PromptClear(State, s)
  <2>1. slot' = v.sl /\ mem' = v.m /\ nb' = nb
    BY <1>3 DEF Retry, Become
  <2>2. s \in Purgeable /\ Purgeable \subseteq Slots
    <3>1. Purgeable \subseteq 1..NSlots /\ Purgeable \subseteq Int
      BY <1>2 DEF Purgeable, Slots
    <3>2. IsFiniteSet(Purgeable)
      <4>1. 1 \in Int /\ NSlots \in Int
        BY <1>2
      <4> QED BY <3>1, <4>1, BoundedFinite
    <3> QED BY <1>3, <3>1, <3>2, MinIs DEF Slots
  <2> HIDE DEF s
  <2>3. /\ v \in SlotsAndMemory /\ v.sl = [slot EXCEPT ![s].prompt = 0]
        /\ Thinner(mem, v.m) /\ (FromZero(mem) => ~Has(v.m, s)) /\ Apart(mem, v.m, {s})
    BY <2>2, SlotFacts, PromptClearIs
  <2> HIDE DEF v
  <2>4. slot' \in [Slots -> SlotRec] /\ mem' \in Memory
    BY <2>1, <2>3 DEF SlotsAndMemory
  <2> QED BY <1>1, <1>2, <2>1, <2>2, <2>3, <2>4
<1>4. CASE Purgeable = {}
  <2>1. nb' = nb \div 2 /\ slot' = slot /\ mem' = mem
    BY <1>4 DEF Retry
  <2>2. nb \div 2 \in 1..NBatch
    BY <1>1, <1>2
  <2> QED BY <1>1, <1>2, <1>4, <2>1, <2>2
<1> QED BY <1>3, <1>4

LEMMA DecidedRetry == ASSUME DecidedInv, Retry PROVE DecidedInv' /\ IndexKept
<1>1. BatchTyped
  BY DEF DecidedInv
<1>2. /\ slot' \in [Slots -> SlotRec] /\ mem' \in Memory /\ nb' \in 1..NBatch
      /\ mpc = "decode" /\ UNCHANGED <<mix, mpc, cur, batch, i>>
  BY <1>1, RetryIs
<1>3. BatchTyped'
  BY <1>1, <1>2 DEF BatchTyped
<1>4. ASSUME NEW r \in Slots
      PROVE  slot'[r] = slot[r] \/ (slot'[r].state = "idle" /\ slot'[r].ibatch = slot[r].ibatch)
  <2>1. slot \in [Slots -> SlotRec] /\ slot[r] \in SlotRec
    BY <1>1 DEF BatchTyped
  <2>2. CASE slot' = slot
    BY <2>2
  <2>3. CASE \E s \in Purgeable : slot' = [slot EXCEPT ![s].prompt = 0]
    <3>1. PICK s \in Purgeable : slot' = [slot EXCEPT ![s].prompt = 0]
      BY <2>3
    <3>2. s \in Slots /\ slot[s].state = "idle"
      BY DEF Purgeable, IsProcessing
    <3>3. slot'[r] = IF r = s THEN [slot[s] EXCEPT !.prompt = 0] ELSE slot[r]
      BY <2>1, <3>1, <3>2
    <3> QED BY <2>1, <3>2, <3>3 DEF SlotRec
  <2>4. slot' = slot \/ (\E s \in Purgeable : slot' = [slot EXCEPT ![s].prompt = 0])
    BY <1>1, RetryIs
  <2> QED BY <2>2, <2>3, <2>4
<1> QED BY <1>2, <1>3, <1>4 DEF DecidedInv, IndexKept, Decided, Due, Unfinished, OwnToken

\* The memory once a chunk is decoded.
Decoded == mem \cup {[pos |-> t.pos, seqs |-> {t.slot}] : t \in Chunk}

LEMMA ChunkLenIs ==
  ASSUME BatchTyped PROVE ChunkLen \in Int /\ i + ChunkLen <= Len(batch) /\ ChunkLen >= 0
<1>1. nb \in Int /\ Len(batch) - i \in Int /\ nb >= 0 /\ Len(batch) - i >= 0
  BY SlotFacts DEF BatchTyped
<1>2. ChunkLen \in {nb, Len(batch) - i} /\ ChunkLen <= Len(batch) - i
  BY <1>1, LeastOfTwo DEF ChunkLen
<1>3. ChunkLen \in Int /\ ChunkLen >= 0
  BY <1>1, <1>2
<1> QED BY <1>1, <1>2, <1>3, SlotFacts

LEMMA ChunkFinite ==
  ASSUME BatchTyped
  PROVE  IsFiniteSet(Chunk) /\ Chunk \subseteq Token
         /\ \A t \in Chunk : \E k \in i + 1..Len(batch) : t = batch[k]
<1> DEFINE K == {j \in 0..Len(batch) - 1 : InChunk(j)}
           f == [k \in K |-> batch[k + 1]]
<1>1. Len(batch) \in Nat /\ batch \in Seq(Token) /\ i \in Nat
  BY SlotFacts DEF BatchTyped
<1>2. K \subseteq 0..Len(batch) - 1 /\ 0 \in Int /\ Len(batch) - 1 \in Int
  BY <1>1
<1>3. IsFiniteSet(K)
  BY <1>2, BoundedFinite
<1>4. \A k \in K : k \in Int /\ k + 1 \in 1..Len(batch) /\ k + 1 >= i + 1
  BY <1>1 DEF InChunk
<1>5. Chunk = {batch[k + 1] : k \in K}
  BY DEF Chunk
<1> HIDE DEF K
<1>6. f \in Surjection(K, Chunk)
  BY <1>5 DEF Surjection
<1>7. IsFiniteSet(Chunk)
  BY <1>3, <1>6, FS_Surjection
<1>8. Chunk \subseteq Token
  BY <1>1, <1>4, <1>5
<1>9. ASSUME NEW t \in Chunk PROVE \E k \in i + 1..Len(batch) : t = batch[k]
  <2>1. PICK k \in K : t = batch[k + 1]
    BY <1>5
  <2>2. k + 1 \in i + 1..Len(batch)
    BY <1>1, <1>4
  <2> QED BY <2>1, <2>2
<1> QED BY <1>7, <1>8, <1>9

LEMMA DecodedTyped ==
  ASSUME BatchTyped
  PROVE  Decoded \in Memory /\ [sl |-> slot, m |-> Decoded] \in SlotsAndMemory
<1> DEFINE f == [t \in Chunk |-> [pos |-> t.pos, seqs |-> {t.slot}]]
           new == {[pos |-> t.pos, seqs |-> {t.slot}] : t \in Chunk}
<1>1. IsFiniteSet(Chunk) /\ Chunk \subseteq Token
  BY ChunkFinite
<1>2. f \in Surjection(Chunk, new)
  BY DEF Surjection
<1>3. IsFiniteSet(new)
  BY <1>1, <1>2, FS_Surjection
<1>4. mem \in Memory /\ slot \in [Slots -> SlotRec]
  BY DEF BatchTyped
<1>5. new \subseteq [pos : Int, seqs : (SUBSET Slots) \ {{}}]
  BY <1>1 DEF Token
<1>6. Decoded = mem \cup new
  BY DEF Decoded
<1> HIDE DEF new
<1>7. IsFiniteSet(mem \cup new)
  BY <1>3, <1>4, FS_Union DEF Memory
<1>8. Decoded \in Memory
  BY <1>4, <1>5, <1>6, <1>7 DEF Memory
<1> QED BY <1>4, <1>8 DEF SlotsAndMemory

\* A chunk is decoded: children are activated and slots are sampled.
ChunkIs(x) ==
  /\ x \in SlotsAndMemory /\ Activated([sl |-> slot, m |-> Decoded], x)
  /\ SampledTo(x, [sl |-> slot', m |-> mem'], Slots)

LEMMA ChunkDoes ==
  ASSUME BatchTyped, DecodeChunk
  PROVE  /\ \E x \in SlotsAndMemory : ChunkIs(x)
         /\ slot' \in [Slots -> SlotRec] /\ mem' \in Memory /\ mpc = "decode"
         /\ \/ i + ChunkLen = Len(batch) /\ EndIteration
            \/ i' = i + ChunkLen /\ nb' = NBatch /\ UNCHANGED <<mix, mpc, cur, batch>>
<1> DEFINE st == [State EXCEPT !.m = @ \cup {[pos |-> t.pos, seqs |-> {t.slot}] : t \in Chunk}]
           x == ActivatedAll(st)
<1>1. PICK stops \in SUBSET Slots : Become(SampledAll(x, stops))
  BY DEF DecodeChunk, SampledAll, ActivatedAll
<1>2. st = [sl |-> slot, m |-> Decoded]
  BY DEF State, Decoded
<1>3. st \in SlotsAndMemory
  BY <1>2, DecodedTyped
<1> HIDE DEF st
<1>4. x \in SlotsAndMemory /\ Activated(st, x)
  BY <1>3, ActivatedAllIs
<1> HIDE DEF x
<1> DEFINE u == SampledAll(x, stops)
<1>5. u \in SlotsAndMemory /\ SampledTo(x, u, Slots)
  BY <1>4, SampledAllIs
<1>6. slot' = u.sl /\ mem' = u.m
  BY <1>1 DEF Become
<1> HIDE DEF u
<1>7. slot' \in [Slots -> SlotRec] /\ mem' \in Memory
  BY <1>5, <1>6 DEF SlotsAndMemory
<1>8. SampledTo(x, [sl |-> slot', m |-> mem'], Slots)
  BY <1>5, <1>6 DEF SampledTo
<1>9. ChunkIs(x)
  BY <1>2, <1>4, <1>8 DEF ChunkIs
<1>10. /\ mpc = "decode"
       /\ \/ i + ChunkLen = Len(batch) /\ EndIteration
          \/ i' = i + ChunkLen /\ nb' = NBatch /\ UNCHANGED <<mix, mpc, cur, batch>>
  BY DEF DecodeChunk
<1> QED BY <1>4, <1>7, <1>9, <1>10

LEMMA DecidedChunk == ASSUME DecidedInv, DecodeChunk PROVE DecidedInv' /\ AtItsToken
<1> DEFINE hi == i + ChunkLen
<1>1. BatchTyped
  BY DEF DecidedInv
<1>2. PICK x \in SlotsAndMemory : ChunkIs(x)
  BY <1>1, ChunkDoes
<1>3. /\ slot' \in [Slots -> SlotRec] /\ mem' \in Memory /\ mpc = "decode"
      /\ \/ hi = Len(batch) /\ EndIteration
         \/ i' = hi /\ nb' = NBatch /\ UNCHANGED <<mix, mpc, cur, batch>>
  BY <1>1, ChunkDoes
<1>4. ChunkLen \in Int /\ i \in Nat /\ Len(batch) \in Nat /\ hi \in Nat /\ hi <= Len(batch) /\ hi >= i
  BY <1>1, ChunkLenIs, SlotFacts
<1> HIDE DEF hi
<1>5. ASSUME NEW r \in Slots
      PROVE  /\ x.sl[r] = slot[r] \/ (slot[r].state = "wait" /\ slot[r].parent # 0 /\ x.sl[r].parent # 0)
             /\ Decided(x.sl[r], i, Len(batch)) /\ Unfinished(x.sl[r]) /\ x.sl[r] \in SlotRec
  <2>1. slot[r] \in SlotRec /\ Decided(slot[r], i, Len(batch)) /\ Unfinished(slot[r])
    BY <1>1, SlotFacts DEF DecidedInv
  <2>2. CASE x.sl[r] = slot[r]
    BY <2>1, <2>2
  <2>3. CASE /\ slot[r].state = "wait" /\ slot[r].parent # 0
             /\ \E p \in Slots : slot[p].state = "done" /\ x.sl[r] = CopyOf(slot[r], slot[p])
    <3>1. PICK p \in Slots : slot[p].state = "done" /\ x.sl[r] = CopyOf(slot[r], slot[p])
      BY <2>3
    <3>2. slot[p] \in SlotRec /\ Due(slot[p], i, Len(batch))
      BY <1>1, <3>1, SlotFacts DEF DecidedInv, Decided
    <3>3. /\ x.sl[r].state = "done" /\ x.sl[r].ibatch = slot[p].ibatch /\ x.sl[r].parent = slot[r].parent
          /\ x.sl[r] \in SlotRec
      BY <2>1, <3>1, <3>2 DEF CopyOf, SlotRec
    <3> QED BY <2>3, <3>2, <3>3 DEF Decided, Due, Unfinished
  <2>4. \/ x.sl[r] = slot[r]
        \/ /\ slot[r].state = "wait" /\ slot[r].parent # 0
           /\ \E p \in Slots : slot[p].state = "done" /\ x.sl[r] = CopyOf(slot[r], slot[p])
    BY <1>2 DEF ChunkIs, Activated
  <2> QED BY <2>2, <2>3, <2>4
<1>6. ASSUME NEW r \in Slots
      PROVE  \/ slot'[r] = x.sl[r] /\ ~(x.sl[r].state \in {"done", "gen"} /\ InChunk(x.sl[r].ibatch))
             \/ /\ x.sl[r].state \in {"done", "gen"} /\ InChunk(x.sl[r].ibatch)
                /\ slot'[r].state \in {"idle", "gen"} /\ slot'[r].ibatch = -1
  <2>1. SampleOf(x.sl[r], slot'[r], x.m, mem', r) /\ x.sl[r] \in SlotRec
    BY <1>2, <1>5 DEF ChunkIs, SampledTo
  <2> DEFINE z == [x.sl[r] EXCEPT !.ibatch = -1]
  <2>2. z \in SlotRec /\ z.ibatch = -1 /\ PromptLeft(x.sl[r]) \in Int
    BY <2>1 DEF SlotRec, PromptLeft
  <2>3. CASE slot'[r] = FreeSlot(z, PromptLeft(x.sl[r]))
    <3> HIDE DEF z
    <3>1. slot'[r].state = "idle" /\ slot'[r].ibatch = -1
      BY <2>2, <2>3, FreeSlotTyped
    <3> QED BY <2>1, <2>3, <3>1 DEF SampleOf
  <2>4. CASE slot'[r] = [x.sl[r] EXCEPT !.ibatch = -1, !.state = "gen", !.decoded = @ + 1]
    <3>1. slot'[r].state = "gen" /\ slot'[r].ibatch = -1
      BY <2>1, <2>4 DEF SlotRec
    <3> QED BY <2>1, <2>4, <3>1 DEF SampleOf
  <2>5. CASE x.sl[r].state \in {"done", "gen"} /\ InChunk(x.sl[r].ibatch)
    <3>1. \/ slot'[r] = FreeSlot(z, PromptLeft(x.sl[r]))
          \/ slot'[r] = [x.sl[r] EXCEPT !.ibatch = -1, !.state = "gen", !.decoded = @ + 1]
      BY <2>1, <2>5 DEF SampleOf
    <3> QED BY <2>3, <2>4, <3>1
  <2>6. CASE ~(x.sl[r].state \in {"done", "gen"} /\ InChunk(x.sl[r].ibatch))
    BY <2>1, <2>6 DEF SampleOf
  <2> QED BY <2>5, <2>6
<1>7. ASSUME NEW r \in Slots
      PROVE  /\ Decided(slot'[r], hi, Len(batch)) /\ Unfinished(slot'[r])
             /\ Due(slot'[r], hi, Len(batch)) => slot'[r] = x.sl[r]
  <2>1. x.sl[r].ibatch \in Int
    BY <1>5 DEF SlotRec
  <2>2. CASE slot'[r] = x.sl[r] /\ ~(x.sl[r].state \in {"done", "gen"} /\ InChunk(x.sl[r].ibatch))
    <3>1. x.sl[r].state \in {"done", "gen"} => ~(i <= x.sl[r].ibatch /\ x.sl[r].ibatch < hi)
      BY <2>2 DEF InChunk, hi
    <3> QED BY <1>4, <1>5, <2>1, <2>2, <3>1 DEF Decided, Due
  <2>3. CASE slot'[r].state \in {"idle", "gen"} /\ slot'[r].ibatch = -1
    BY <1>4, <2>3 DEF Decided, Due, Unfinished
  <2> QED BY <1>6, <2>2, <2>3
<1>8. BatchTyped' /\ i' \in Nat
      /\ \/ i' = 0 /\ Len(batch') = 0
         \/ i' = hi /\ batch' = batch
  <2>1. CASE EndIteration
    BY <1>1, <1>3, <2>1, EndTyped
  <2>2. CASE i' = hi /\ nb' = NBatch /\ UNCHANGED <<mix, mpc, cur, batch>>
    <3>1. i' \in 0..Len(batch') /\ nb' \in 1..NBatch
      BY <1>1, <1>4, <2>2, SlotFacts
    <3>2. BatchTyped'
      BY <1>1, <1>3, <2>2, <3>1 DEF BatchTyped
    <3> QED BY <1>4, <2>2, <3>2
  <2> QED BY <1>3, <2>1, <2>2
<1>9. ASSUME NEW r \in Slots
      PROVE  /\ Decided(slot'[r], i', Len(batch'))
             /\ Due(slot'[r], i', Len(batch')) /\ slot'[r].parent = 0 => OwnToken(slot', batch', r)
  <2>1. CASE i' = hi /\ batch' = batch
    <3>1. SUFFICES ASSUME Due(slot'[r], hi, Len(batch)), slot'[r].parent = 0
                   PROVE  OwnToken(slot', batch, r)
      BY <1>7, <2>1
    <3>2. slot'[r] = slot[r]
      BY <1>5, <1>7, <3>1
    <3>3. slot[r].ibatch \in Int /\ Due(slot[r], i, Len(batch))
      BY <1>1, <1>4, <3>1, <3>2, SlotFacts DEF Due
    <3> QED BY <3>1, <3>2, <3>3 DEF DecidedInv, OwnToken
  <2>2. CASE i' = 0 /\ Len(batch') = 0
    <3>1. slot'[r].ibatch \in Int
      BY <1>3 DEF SlotRec
    <3>2. ~Due(slot'[r], hi, Len(batch)) \/ hi < Len(batch)
      BY <1>4, <3>1 DEF Due
    <3>3. ~Due(slot'[r], 0, 0)
      BY <3>1 DEF Due
    <3>4. hi = Len(batch) => slot'[r].state # "done" /\ (slot'[r].state = "gen" => slot'[r].ibatch = -1)
      BY <1>4, <1>7, <3>2 DEF Decided
    <3>5. CASE hi = Len(batch)
      BY <2>2, <3>3, <3>4, <3>5 DEF Decided
    <3>6. CASE hi # Len(batch)
      <4>1. i' = hi /\ batch' = batch
        BY <1>3, <3>6
      <4> QED BY <2>1, <4>1
    <3> QED BY <3>5, <3>6
  <2> QED BY <1>8, <2>1, <2>2
<1>10. ASSUME NEW s \in Slots, slot[s].ibatch >= 0, slot'[s].ibatch = -1, ~IsChild(slot, s)
       PROVE  batch[slot[s].ibatch + 1].slot = s /\ InChunk(slot[s].ibatch)
              /\ slot[s].prompt - 1 \in PosOf(s)
  <2> DEFINE k == slot[s].ibatch
  <2>1. x.sl[s] = slot[s] /\ k \in Int /\ k # -1
    BY <1>1, <1>5, <1>10, SlotFacts DEF IsChild
  <2>2. slot[s].state \in {"done", "gen"} /\ InChunk(k)
    BY <1>6, <1>10, <2>1
  <2>3. i <= k /\ k < hi /\ k \in 0..Len(batch) - 1
    BY <1>4, <2>1, <2>2 DEF InChunk, hi
  <2>4. batch[k + 1] = [slot |-> s, pos |-> slot[s].prompt - 1]
    <3>1. Due(slot[s], i, Len(batch)) /\ slot[s].parent = 0
      BY <1>4, <1>10, <2>1, <2>2, <2>3 DEF Due, IsChild
    <3> QED BY <3>1 DEF DecidedInv, OwnToken
  <2>5. batch[k + 1] \in Chunk
    BY <2>2, <2>3 DEF Chunk
  <2> HIDE DEF k
  <2>6. slot[s].prompt - 1 \in PosOf(s) /\ batch[k + 1].slot = s
    BY <2>4, <2>5 DEF PosOf
  <2> QED BY <2>2, <2>6 DEF k
<1> QED BY <1>7, <1>8, <1>9, <1>10 DEF DecidedInv, AtItsToken

LEMMA DecidedAtFirst == BatchInit => DecidedInv
<1> SUFFICES ASSUME BatchInit PROVE DecidedInv
  OBVIOUS
<1>1. 0 \in 0..NSlots /\ NSlots \in Nat /\ NBatch \in Nat \ {0}
  BY BatchAssumption
<1>2. IdleSlot \in SlotRec
  BY <1>1 DEF IdleSlot, SlotRec
<1>3. mem \in Memory
  BY FS_EmptySet DEF BatchInit, Memory
<1>4. batch = <<>> /\ i = 0 /\ batch \in Seq(Token) /\ Len(batch) = 0 /\ nb \in 1..NBatch
  BY <1>1 DEF BatchInit
<1>5. BatchTyped
  BY <1>2, <1>3, <1>4 DEF BatchInit, BatchTyped
<1>6. \A s \in Slots : slot[s].state = "idle"
  BY DEF BatchInit, IdleSlot
<1> QED BY <1>5, <1>6 DEF DecidedInv, Decided, Due, Unfinished

LEMMA DecidedStep ==
  ASSUME DecidedInv, [BatchNext]_batchVars PROVE DecidedInv' /\ AtItsToken
<1>1. ASSUME NEW s \in Slots, NEW kind \in Kinds, NEW len, Launch(s, kind, len)
      PROVE  DecidedInv' /\ AtItsToken
  BY <1>1, DecidedLaunch, KeptIsAtItsToken
<1>2. ASSUME NEW s \in Slots, Cancel(s) PROVE DecidedInv' /\ AtItsToken
  BY <1>2, DecidedCancel, KeptIsAtItsToken
<1>3. CASE Begin
  BY <1>3, DecidedBegin, KeptIsAtItsToken
<1>4. CASE SkipTurn
  BY <1>4, DecidedSkip, KeptIsAtItsToken
<1>5. CASE StartPrompt
  BY <1>5, DecidedStart, KeptIsAtItsToken
<1>6. CASE ContinuePrompt
  BY <1>6, DecidedContinue, KeptIsAtItsToken
<1>7. CASE EmptyBatch
  BY <1>7, DecidedEmpty, KeptIsAtItsToken
<1>8. ASSUME NEW e, FailWith(e) PROVE DecidedInv' /\ AtItsToken
  BY <1>8, DecidedFail, KeptIsAtItsToken
<1>9. CASE DecodeInvalid \/ ComputeError \/ ContextExceeded
  BY <1>8, <1>9 DEF DecodeInvalid, ComputeError, ContextExceeded
<1>10. CASE Retry
  BY <1>10, DecidedRetry, KeptIsAtItsToken
<1>11. CASE DecodeChunk
  BY <1>11, DecidedChunk
<1>12. CASE UNCHANGED batchVars
  <2>1. IndexKept
    BY <1>12 DEF IndexKept, batchVars
  <2>2. UNCHANGED <<mix, slot, mem, mpc, cur, batch, i, nb>>
    BY <1>12 DEF batchVars
  <2>3. DecidedInv'
    BY <2>2 DEF DecidedInv, BatchTyped, Decided, Due, Unfinished, OwnToken
  <2> QED BY <2>1, <2>3, KeptIsAtItsToken
<1>13. CASE UpdateSlots
  BY <1>3, <1>4, <1>5, <1>6, <1>7, <1>9, <1>10, <1>11, <1>13 DEF UpdateSlots
<1>14. CASE BatchNext
  BY <1>1, <1>2, <1>13, <1>14 DEF BatchNext
<1> QED BY <1>12, <1>14

\* However prompts are cut into chunks and chunks are retried, halved or refused,
\* with children activated and slots released on the way: a slot that has a token
\* in a batch is sampled (or released) before the iteration ends, and when it is,
\* the last token it put in has just been decoded.
THEOREM EverySlotSampledOnce == Batching => SampledOnce
<1>1. DecidedInv => SlotsDecided
  BY NothingDue DEF SlotsDecided
<1>2. DecidedInv /\ [BatchNext]_batchVars => DecidedInv'
  BY DecidedStep
<1>3. DecidedInv /\ [BatchNext]_batchVars
        => [\A s \in Slots :
              slot[s].ibatch >= 0 /\ slot'[s].ibatch = -1 /\ ~IsChild(slot, s)
                => batch[slot[s].ibatch + 1].slot = s /\ InChunk(slot[s].ibatch)
                   /\ slot[s].prompt - 1 \in PosOf(s)]_batchVars
  BY DecidedStep DEF AtItsToken
<1>4. Batching => []DecidedInv
  BY <1>2, DecidedAtFirst, PTL DEF Batching
<1>5. Batching => []SlotsDecided
  BY <1>1, <1>4, PTL
<1>6. Batching => SampledAtItsToken
  BY <1>3, <1>4, PTL DEF Batching, SampledAtItsToken
<1> QED BY <1>5, <1>6, PTL DEF SampledOnce

-----------------------------------------------------------------------------
(* What is in the memory belongs to a prompt.                               *)

LEMMA SameKept ==
  ASSUME NEW s \in Slots, NEW x, NEW m0, NEW m, SlotKept(x, m0, s), Has(m, s) => Has(m0, s)
  PROVE  SlotKept(x, m, s)
BY DEF SlotKept

LEMMA FreedKept ==
  ASSUME NEW s \in Slots, NEW x \in SlotRec, NEW m0, NEW m, SlotKept(x, m0, s), Thinner(m0, m),
         x.parent # 0 => ~Has(m, s)
  PROVE  SlotKept(FreeSlot(x, PromptLeft(x)), m, s)
<1>1. PromptLeft(x) \in Int /\ x.prompt \in Int
  BY DEF PromptLeft, SlotRec
<1>2. FreeSlot(x, PromptLeft(x)).state = "idle" /\ FreeSlot(x, PromptLeft(x)).kind = "none"
      /\ FreeSlot(x, PromptLeft(x)).prompt = PromptLeft(x)
  BY <1>1, FreeSlotTyped
<1>3. Has(m, s) => Has(m0, s)
  BY DEF Thinner
<1>4. PromptLeft(x) >= 0 /\ (PromptLeft(x) = 0 => ~Has(m, s))
  BY <1>1, <1>3 DEF PromptLeft, SlotKept
<1> QED BY <1>2, <1>4 DEF SlotKept

LEMMA TokenAt ==
  ASSUME NEW b \in Seq(Token), NEW k \in 1..Len(b) PROVE b[k].slot \in Slots
<1>1. b[k] \in Token
  OBVIOUS
<1> QED BY <1>1 DEF Token

LEMMA KeptFacts ==
  ASSUME KeptInv
  PROVE  /\ BatchTyped /\ DecidedInv /\ FromZero(mem) /\ \A s \in Slots : SlotKept(slot[s], mem, s)
         /\ mpc = "take" => nb = NBatch /\ batch = <<>> /\ i = 0 /\ Len(batch) = 0
BY NothingDue DEF KeptInv, DecidedInv

LEMMA KeptNext ==
  ASSUME DecidedInv', mix' = mix, FromZero(mem'), \A s \in Slots : SlotKept(slot'[s], mem', s),
         \A k \in i' + 1..Len(batch') : Pending(slot', batch'[k], k),
         mpc' # "decode" => nb' = NBatch, nb' < NBatch => (Purgeable = {})'
  PROVE  KeptInv'
<1>1. FromZero(mem)'
  BY DEF FromZero
<1>2. (\A s \in Slots : SlotKept(slot[s], mem, s))'
  BY DEF SlotKept, Has
<1>3. (\A k \in i + 1..Len(batch) : Pending(slot, batch[k], k))'
  BY DEF Pending
<1> QED BY <1>1, <1>2, <1>3 DEF KeptInv

\* Between two iterations, nothing is in a batch and nothing halved.
LEMMA KeptAtRest ==
  ASSUME DecidedInv', mix' = mix, FromZero(mem'), \A s \in Slots : SlotKept(slot'[s], mem', s),
         nb' = NBatch, Len(batch') = 0, i' = 0
  PROVE  KeptInv'
<1>1. NBatch \in Nat /\ i' + 1..Len(batch') = {} /\ ~(nb' < NBatch)
  BY BatchAssumption
<1> QED BY <1>1, KeptNext

LEMMA KeptLaunch ==
  ASSUME NoEmbeddings, KeptInv, NEW s \in Slots, NEW kind \in Kinds, NEW len, Launch(s, kind, len)
  PROVE  KeptInv'
<1> DEFINE task == [IdleSlot EXCEPT !.state = "started", !.kind = kind, !.len = len,
                                    !.prompt = slot[s].prompt, !.ibatch = slot[s].ibatch]
           child(c) == [task EXCEPT !.state = "wait", !.parent = s,
                                    !.prompt = slot[c].prompt, !.ibatch = slot[c].ibatch]
<1>1. BatchTyped /\ mpc = "take" /\ len \in mix.lens /\ kind \in mix.kinds /\ DecidedInv'
      /\ UNCHANGED <<mix, mem, mpc, cur, batch, i, nb>>
  BY KeptFacts, DecidedLaunch DEF Launch
<1>2. kind # "embd" /\ len < mix.cells /\ len \in Nat \ {0} /\ mix.cells \in Nat
  <2>1. kind # "embd"
    BY <1>1 DEF NoEmbeddings, BatchTyped
  <2> QED BY <1>1, <2>1, SlotFacts DEF Launch
<1>3. mix.cells >= 2
  BY <1>2
<1>4. slot \in [Slots -> SlotRec]
  BY <1>1 DEF BatchTyped
<1>5. task.state = "started" /\ task.kind = kind /\ task.prompt = slot[s].prompt
  BY DEF IdleSlot
<1>6. \A c \in Slots : child(c).state = "wait" /\ child(c).kind = kind /\ child(c).prompt = slot[c].prompt
  BY DEF IdleSlot
<1>7. \A r \in Slots : \/ slot'[r] = slot[r]
                       \/ /\ slot'[r].state \in {"started", "wait"} /\ slot'[r].kind = kind
                          /\ slot'[r].prompt = slot[r].prompt
  <2>1. CASE slot' = [slot EXCEPT ![s] = task]
    <3> HIDE DEF task
    <3> QED BY <1>4, <1>5, <2>1
  <2>2. CASE \E c \in Slots \ {s} : slot' = [slot EXCEPT ![s] = task, ![c] = child(c)]
    <3> HIDE DEF task, child
    <3> QED BY <1>4, <1>5, <1>6, <2>2
  <2> QED BY <2>1, <2>2 DEF Launch
<1>8. \A r \in Slots : SlotKept(slot'[r], mem', r)
  BY <1>1, <1>2, <1>3, <1>7, KeptFacts DEF SlotKept
<1>9. nb' = NBatch /\ Len(batch') = 0 /\ i' = 0 /\ FromZero(mem')
  BY <1>1, KeptFacts
<1> QED BY <1>1, <1>8, <1>9, KeptAtRest

LEMMA KeptCancel == ASSUME KeptInv, NEW s \in Slots, Cancel(s) PROVE KeptInv'
<1> DEFINE v == Release(State, s)
           C == WaitingFor(slot, s)
           u == ReleaseSet(v, C)
<1>1. BatchTyped /\ mpc = "take" /\ C \in SUBSET Slots /\ FromZero(mem)
      /\ UNCHANGED <<mix, mpc, cur, batch, i, nb>> /\ DecidedInv'
  BY KeptFacts, DecidedCancel DEF Cancel, WaitingFor
<1>2. slot' = u.sl /\ mem' = u.m
  BY DEF Cancel, Become, ReleaseSet, FoldSet, MapThenFoldSet
<1>3. /\ v \in SlotsAndMemory
      /\ \A r \in Slots \ {s} : v.sl[r] = slot[r]
      /\ v.sl[s] = FreeSlot(slot[s], PromptLeft(slot[s]))
      /\ Thinner(mem, v.m) /\ (FromZero(mem) /\ slot[s].parent # 0 => ~Has(v.m, s))
  <2>1. State \in SlotsAndMemory /\ State.sl = slot /\ State.m = mem
    BY <1>1, SlotFacts
  <2>2. /\ v \in SlotsAndMemory
        /\ \A r \in Slots \ {s} : v.sl[r] = State.sl[r]
        /\ v.sl[s] = FreeSlot(State.sl[s], PromptLeft(State.sl[s]))
        /\ Thinner(State.m, v.m) /\ (FromZero(State.m) /\ State.sl[s].parent # 0 => ~Has(v.m, s))
    BY <2>1, ReleaseIs
  <2> HIDE DEF v
  <2> QED BY <2>1, <2>2
<1> HIDE DEF v, C
<1>4. u \in SlotsAndMemory /\ ReleasedIn(v, u, C)
  BY <1>1, <1>3, ReleaseSetIs
<1> HIDE DEF u
<1>5. FromZero(v.m) /\ Thinner(v.m, u.m)
  BY <1>1, <1>3, <1>4 DEF Thinner, ReleasedIn
<1>6. ASSUME NEW r \in Slots PROVE SlotKept(v.sl[r], v.m, r)
  <2>1. SlotKept(slot[r], mem, r) /\ slot[r] \in SlotRec
    BY <1>1, KeptFacts, SlotFacts
  <2>2. CASE r = s
    BY <1>1, <1>3, <2>1, <2>2, FreedKept
  <2>3. CASE r # s
    BY <1>3, <2>1, <2>3, SameKept DEF Thinner
  <2> QED BY <2>2, <2>3
<1>7. ASSUME NEW r \in Slots PROVE SlotKept(u.sl[r], u.m, r)
  <2>1. SlotKept(v.sl[r], v.m, r) /\ v.sl[r] \in SlotRec
    BY <1>3, <1>6 DEF SlotsAndMemory
  <2>2. CASE r \in C
    BY <1>4, <1>5, <2>1, <2>2, FreedKept DEF ReleasedIn
  <2>3. CASE r \notin C
    <3>1. u.sl[r] = v.sl[r] /\ (Has(u.m, r) => Has(v.m, r))
      BY <1>4, <1>5, <2>3 DEF ReleasedIn, Thinner
    <3> QED BY <2>1, <3>1, SameKept
  <2> QED BY <2>2, <2>3
<1>8. nb' = NBatch /\ Len(batch') = 0 /\ i' = 0 /\ FromZero(mem')
  BY <1>1, <1>2, <1>5, KeptFacts DEF Thinner
<1> QED BY <1>1, <1>2, <1>7, <1>8, KeptAtRest

LEMMA KeptBegin == ASSUME KeptInv, Begin PROVE KeptInv'
<1> DEFINE st == ShiftedAll(State)
           x == AddedAll(st.sl)
<1>1. BatchTyped /\ mpc = "take" /\ FromZero(mem) /\ DecidedInv'
  BY KeptFacts, DecidedBegin DEF Begin
<1>2. /\ slot' = x.sl /\ mem' = st.m /\ batch' = x.b /\ cur' = 1 /\ mpc' = "prompts"
      /\ UNCHANGED <<mix, i, nb>>
  BY DEF Begin, ShiftedAll, AddedAll
<1>3. st \in SlotsAndMemory /\ Shifted(State, st, Slots)
  BY <1>1, SlotFacts, ShiftedAllIs
<1> HIDE DEF st
<1>4. st.sl \in [Slots -> SlotRec] /\ st.m \in Memory /\ Thinner(mem, st.m) /\ FromZero(st.m)
  BY <1>1, <1>3, SlotFacts DEF SlotsAndMemory, Shifted, Thinner
<1>5. x \in SlotsAndBatch /\ Added(st.sl, x, Slots)
  BY <1>4, AddedAllIs
<1> HIDE DEF x
<1>6. x.sl \in [Slots -> SlotRec] /\ x.b \in Seq(Token) /\ Len(x.b) \in Nat
  BY <1>5 DEF SlotsAndBatch
<1>7. ASSUME NEW r \in Slots
      PROVE  IF st.sl[r].state = "gen"
             THEN st.sl[r].prompt >= 0 /\ st.sl[r].kind # "embd" /\ mix.cells >= 2
             ELSE SlotKept(st.sl[r], st.m, r)
  <2>1. slot[r] \in SlotRec /\ SlotKept(slot[r], mem, r) /\ (Has(st.m, r) => Has(mem, r))
    BY <1>1, <1>4, KeptFacts, SlotFacts DEF Thinner
  <2>2. ShiftOf(slot[r], st.sl[r], mem, st.m, r)
    BY <1>1, <1>3, SlotFacts DEF Shifted
  <2>3. CASE st.sl[r] = slot[r]
    BY <2>1, <2>3, SameKept DEF SlotKept
  <2>4. CASE /\ st.sl[r] = FreeSlot(slot[r], PromptLeft(slot[r]))
             /\ FromZero(mem) /\ slot[r].parent # 0 => ~Has(st.m, r)
    <3>1. SlotKept(st.sl[r], st.m, r)
      BY <1>1, <1>4, <2>1, <2>4, FreedKept
    <3>2. PromptLeft(slot[r]) \in Int
      BY <2>1 DEF PromptLeft, SlotRec
    <3>3. st.sl[r].state = "idle"
      BY <2>1, <2>4, <3>2, FreeSlotTyped
    <3> QED BY <3>1, <3>3
  <2>5. CASE /\ slot[r].state = "gen"
             /\ \E p \in Int : /\ st.sl[r] = [slot[r] EXCEPT !.prompt = p]
                               /\ slot[r].prompt >= 1 /\ mix.cells >= 2 => p >= 0
    <3>1. PICK p \in Int : /\ st.sl[r] = [slot[r] EXCEPT !.prompt = p]
                           /\ slot[r].prompt >= 1 /\ mix.cells >= 2 => p >= 0
      BY <2>5
    <3>2. st.sl[r].prompt = p /\ st.sl[r].state = slot[r].state /\ st.sl[r].kind = slot[r].kind
      BY <2>1, <3>1 DEF SlotRec
    <3>3. slot[r].prompt >= 1 /\ mix.cells >= 2 /\ slot[r].kind # "embd"
      BY <2>1, <2>5 DEF SlotKept
    <3> QED BY <2>5, <3>1, <3>2, <3>3
  <2>6. \/ st.sl[r] = slot[r]
        \/ /\ st.sl[r] = FreeSlot(slot[r], PromptLeft(slot[r]))
           /\ FromZero(mem) /\ slot[r].parent # 0 => ~Has(st.m, r)
        \/ /\ slot[r].state = "gen"
           /\ \E p \in Int : /\ st.sl[r] = [slot[r] EXCEPT !.prompt = p]
                             /\ slot[r].prompt >= 1 /\ mix.cells >= 2 => p >= 0
    BY <2>2 DEF ShiftOf
  <2> QED BY <2>3, <2>4, <2>5, <2>6
<1>8. ASSUME NEW r \in Slots
      PROVE  SlotKept(x.sl[r], st.m, r) /\ (st.sl[r].state = "gen" => x.sl[r].state = "gen" /\ x.sl[r].prompt >= 1)
  <2>1. CASE st.sl[r].state = "gen"
    <3>1. PICK k \in 1..Len(x.b) : x.sl[r] = [st.sl[r] EXCEPT !.prompt = @ + 1, !.ibatch = k - 1]
      BY <1>5, <2>1 DEF Added
    <3>2. st.sl[r] \in SlotRec /\ st.sl[r].prompt \in Int
      BY <1>4 DEF SlotRec
    <3>3. /\ x.sl[r].state = "gen" /\ x.sl[r].kind = st.sl[r].kind
          /\ x.sl[r].prompt = st.sl[r].prompt + 1
      BY <2>1, <3>1, <3>2 DEF SlotRec
    <3>4. x.sl[r].prompt >= 1 /\ x.sl[r].kind # "embd" /\ mix.cells >= 2 /\ x.sl[r].prompt \in Int
      BY <1>7, <2>1, <3>2, <3>3
    <3> QED BY <3>3, <3>4 DEF SlotKept
  <2>2. CASE st.sl[r].state # "gen"
    <3>1. x.sl[r] = st.sl[r]
      BY <1>5, <2>2 DEF Added
    <3> QED BY <1>7, <2>2, <3>1
  <2> QED BY <2>1, <2>2
<1>9. ASSUME NEW k \in 1..Len(x.b) PROVE Pending(x.sl, x.b[k], k)
  <2> DEFINE r == x.b[k].slot
  <2>1. /\ r \in Slots /\ st.sl[r].state = "gen"
        /\ x.b[k].pos = st.sl[r].prompt /\ x.sl[r].ibatch >= k - 1
    BY <1>5 DEF Added
  <2>2. st.sl[r].prompt >= 0 /\ x.sl[r].state = "gen" /\ x.sl[r].prompt >= 1
    BY <1>7, <1>8, <2>1
  <2> QED BY <2>1, <2>2 DEF Pending
<1>10. i' = 0 /\ nb' = NBatch /\ NBatch \in Nat
  BY <1>1, <1>2, KeptFacts, BatchAssumption
<1>11. \A k \in i' + 1..Len(batch') : Pending(slot', batch'[k], k)
  BY <1>2, <1>6, <1>9, <1>10
<1>12. ~(nb' < NBatch)
  BY <1>10
<1> QED BY <1>1, <1>2, <1>4, <1>8, <1>10, <1>11, <1>12, KeptNext

LEMMA KeptSkip == ASSUME KeptInv, SkipTurn PROVE KeptInv'
<1>1. mpc = "prompts" /\ UNCHANGED <<mix, slot, mem, batch, i, nb>> /\ DecidedInv'
  BY KeptFacts, DecidedSkip DEF SkipTurn
<1> QED BY <1>1 DEF KeptInv, SlotKept, Pending, FromZero, Has, Purgeable, IsProcessing

\* The prompt of the slot goes on in the batch, with m of the memory.
LEMMA KeptAdd ==
  ASSUME KeptInv, DecidedInv', InTurn, NEW p \in Int, p >= 0, p < slot[cur].len, NEW m \in Memory,
         Thinner(mem, m), p >= slot[cur].prompt \/ slot[cur].state = "started",
         AddPrompt(cur, p, m), UNCHANGED <<mix, i, nb>>
  PROVE  KeptInv'
<1>1. BatchTyped /\ mpc = "prompts" /\ cur \in Slots /\ i = 0 /\ Len(batch) \in Nat
      /\ slot[cur].state \in {"started", "prompt"} /\ SlotKept(slot[cur], mem, cur)
  BY KeptFacts, SlotFacts DEF InTurn, BatchTyped
<1>2. PICK n \in Nat : AddPromptIs(cur, p, n)
  BY <1>1, AddPromptDoes
<1>3. mem' = RmFrom(m, cur, p) /\ FromZero(m)
  BY KeptFacts DEF AddPrompt, Truncate, Thinner
<1>4. FromZero(mem') /\ (p = 0 => ~Has(mem', cur)) /\ \A r \in Slots : Has(mem', r) => Has(mem, r)
  BY <1>1, <1>3, RmFromKeeps DEF Thinner
<1>5. /\ slot'[cur].prompt = p + n /\ slot'[cur].kind = slot[cur].kind /\ slot'[cur].len = slot[cur].len
      /\ slot'[cur].state \in {"prompt", "done"}
      /\ slot'[cur].state = "done" => p + n = slot[cur].len /\ slot'[cur].ibatch = Len(batch) + n - 1
  BY <1>2 DEF AddPromptIs
<1>6. slot[cur].len \in Nat /\ slot[cur].prompt \in Int
  BY <1>1, SlotFacts
<1>7. ASSUME NEW r \in Slots PROVE SlotKept(slot'[r], mem', r)
  <2>1. CASE r = cur
    <3>1. p + n >= 0 /\ (slot'[cur].state = "done" => p + n >= 1)
      BY <1>2, <1>5, <1>6
    <3>2. p + n = 0 => ~Has(mem', cur)
      BY <1>2, <1>4
    <3> QED BY <1>1, <1>5, <2>1, <3>1, <3>2 DEF SlotKept
  <2>2. CASE r # cur
    <3>1. slot'[r] = slot[r] /\ SlotKept(slot[r], mem, r)
      BY <1>2, <2>2, KeptFacts DEF AddPromptIs
    <3> QED BY <1>4, <3>1, SameKept
  <2> QED BY <2>1, <2>2
<1>8. ASSUME NEW k \in 1..Len(batch) PROVE Pending(slot', batch'[k], k)
  <2>1. Pending(slot, batch[k], k) /\ batch'[k] = batch[k]
    BY <1>1, <1>2 DEF KeptInv, AddPromptIs
  <2>2. batch[k].slot \in Slots
    BY <1>1, TokenAt DEF BatchTyped
  <2>3. CASE batch[k].slot = cur
    <3>1. slot[cur].state = "prompt" /\ slot[cur].prompt >= 1
      BY <1>1, <2>1, <2>3 DEF Pending
    <3>2. p + n >= 1 /\ (slot'[cur].state = "done" => slot'[cur].ibatch >= k - 1)
      BY <1>1, <1>2, <1>5, <1>6, <3>1
    <3> QED BY <1>5, <2>1, <2>3, <3>2 DEF Pending
  <2>4. CASE batch[k].slot # cur
    <3>1. slot'[batch[k].slot] = slot[batch[k].slot]
      BY <1>2, <2>2, <2>4 DEF AddPromptIs
    <3> QED BY <2>1, <3>1 DEF Pending
  <2> QED BY <2>3, <2>4
<1>9. ASSUME NEW k \in 1..n PROVE Pending(slot', batch'[Len(batch) + k], Len(batch) + k)
  <2>1. batch'[Len(batch) + k] = [slot |-> cur, pos |-> p + k - 1]
    BY <1>2 DEF AddPromptIs
  <2>2. p + k - 1 >= 0 /\ p + n >= 1 /\ Len(batch) + n - 1 >= Len(batch) + k - 1
    BY <1>1, <1>2
  <2> QED BY <1>5, <2>1, <2>2 DEF Pending
<1>10. i' = 0 /\ nb' = NBatch /\ NBatch \in Nat
  BY <1>1, BatchAssumption DEF KeptInv
<1>11. ASSUME NEW k \in i' + 1..Len(batch') PROVE Pending(slot', batch'[k], k)
  <2>1. Len(batch') = Len(batch) + n /\ k \in 1..Len(batch) + n
    BY <1>2, <1>10 DEF AddPromptIs
  <2>2. k \in 1..Len(batch) \/ (k - Len(batch) \in 1..n /\ k = Len(batch) + (k - Len(batch)))
    BY <1>1, <1>2, <2>1
  <2> QED BY <1>8, <1>9, <2>2
<1>12. ~(nb' < NBatch)
  BY <1>10
<1> QED BY <1>4, <1>7, <1>10, <1>11, <1>12, KeptNext

LEMMA KeptStart == ASSUME KeptInv, StartPrompt PROVE KeptInv'
<1>1. BatchTyped /\ DecidedInv' /\ cur \in Slots /\ InTurn /\ slot[cur].state = "started"
      /\ UNCHANGED <<mix, i, nb>>
  BY KeptFacts, DecidedStart DEF StartPrompt, InTurn, BatchTyped
<1>2. slot[cur].len > 0 /\ slot[cur].prompt >= 0 /\ slot[cur].kind # "embd"
  BY <1>1, KeptFacts DEF DecidedInv, Unfinished, SlotKept
<1>3. CanSplit(cur) /\ Fits(cur)
  BY <1>2 DEF CanSplit, Fits
<1>4. PICK c \in Cached(cur) : AddPrompt(cur, NPast(cur, c), c.m)
  BY <1>3 DEF StartPrompt
<1>5. /\ NPast(cur, c) \in Int /\ NPast(cur, c) < slot[cur].len /\ NPast(cur, c) >= 0
      /\ c.m \in Memory /\ Thinner(mem, c.m)
  BY <1>1, <1>2, <1>3, NPastLess, NPastIs
<1> QED BY <1>1, <1>4, <1>5, KeptAdd

LEMMA KeptContinue == ASSUME KeptInv, ContinuePrompt PROVE KeptInv'
<1>1. BatchTyped /\ DecidedInv' /\ cur \in Slots /\ InTurn /\ slot[cur].state = "prompt"
      /\ UNCHANGED <<mix, i, nb>> /\ mem \in Memory
  BY KeptFacts, DecidedContinue DEF ContinuePrompt, InTurn, BatchTyped
<1>2. /\ slot[cur].prompt \in Int /\ slot[cur].prompt < slot[cur].len /\ slot[cur].prompt >= 0
      /\ slot[cur].kind # "embd" /\ slot[cur].prompt >= slot[cur].prompt
  <2>1. slot[cur].prompt \in Int /\ slot[cur].prompt < slot[cur].len
    BY <1>1, KeptFacts, SlotFacts DEF DecidedInv, Unfinished
  <2>2. slot[cur].prompt >= 0 /\ slot[cur].kind # "embd"
    BY <1>1, KeptFacts DEF SlotKept
  <2> QED BY <2>1, <2>2
<1>3. Fits(cur) /\ Thinner(mem, mem)
  BY <1>2 DEF CanSplit, Fits, Thinner
<1>4. AddPrompt(cur, slot[cur].prompt, mem)
  BY <1>3 DEF ContinuePrompt
<1> QED BY <1>1, <1>2, <1>3, <1>4, KeptAdd

LEMMA KeptEmpty == ASSUME KeptInv, EmptyBatch PROVE KeptInv'
<1>1. DecidedInv' /\ UNCHANGED <<mix, slot, mem>> /\ nb' = NBatch /\ batch' = <<>> /\ i' = 0
  BY KeptFacts, DecidedEmpty DEF EmptyBatch, EndIteration
<1> QED BY <1>1, KeptFacts, KeptAtRest

LEMMA KeptFail == ASSUME KeptInv, NEW e, FailWith(e) PROVE KeptInv'
<1> DEFINE C == {s \in Slots : IsProcessing(State.sl, s)}
           u == ErrorAll(State)
<1>1. BatchTyped /\ DecidedInv' /\ EndIteration /\ slot' = u.sl /\ mem' = u.m /\ FromZero(mem)
  BY KeptFacts, DecidedFail DEF FailWith, Become
<1>2. u \in SlotsAndMemory /\ Erased(State, u, C) /\ State.sl = slot /\ State.m = mem
  BY <1>1, SlotFacts, ErrorAllIs
<1> HIDE DEF u, C
<1>3. FromZero(mem') /\ \A r \in Slots : Has(mem', r) => Has(mem, r)
  BY <1>1, <1>2 DEF Erased, Thinner
<1>4. ASSUME NEW r \in Slots PROVE SlotKept(slot'[r], mem', r)
  <2>1. slot[r] \in SlotRec /\ SlotKept(slot[r], mem, r) /\ 0 \in Int
    BY <1>1, KeptFacts, SlotFacts
  <2>2. CASE r \in C
    <3>1. slot'[r] = FreeSlot(slot[r], 0) /\ ~Has(mem', r)
      BY <1>1, <1>2, <2>2 DEF Erased
    <3>2. slot'[r].state = "idle" /\ slot'[r].prompt = 0 /\ slot'[r].kind = "none"
      BY <2>1, <3>1, FreeSlotTyped
    <3> QED BY <3>1, <3>2 DEF SlotKept
  <2>3. CASE r \notin C
    BY <1>1, <1>2, <1>3, <2>1, <2>3, SameKept DEF Erased
  <2> QED BY <2>2, <2>3
<1>5. mix' = mix /\ nb' = NBatch /\ batch' = <<>> /\ i' = 0
  BY <1>1 DEF EndIteration
<1> QED BY <1>1, <1>3, <1>4, <1>5, KeptAtRest

LEMMA KeptRetry == ASSUME KeptInv, Retry PROVE KeptInv'
<1>1. BatchTyped /\ DecidedInv' /\ FromZero(mem)
  BY KeptFacts, DecidedRetry
<1>2. mpc = "decode" /\ UNCHANGED <<mix, mpc, cur, batch, i>>
  BY <1>1, RetryIs
<1>3. slot \in [Slots -> SlotRec] /\ i \in Nat /\ batch \in Seq(Token)
  BY <1>1, SlotFacts DEF BatchTyped
<1>4. CASE Purgeable = {} /\ nb' = nb \div 2 /\ slot' = slot /\ mem' = mem
  <2>1. (Purgeable = {})'
    BY <1>4 DEF Purgeable, IsProcessing
  <2>2. \A k \in i' + 1..Len(batch') : Pending(slot', batch'[k], k)
    BY <1>2, <1>4 DEF KeptInv
  <2> QED BY <1>1, <1>2, <1>4, <2>1, <2>2, KeptFacts, KeptNext
<1>5. CASE /\ nb' = nb
           /\ \E s \in Purgeable : /\ slot' = [slot EXCEPT ![s].prompt = 0]
                                   /\ Thinner(mem, mem') /\ (FromZero(mem) => ~Has(mem', s))
  <2>1. PICK s \in Purgeable : /\ slot' = [slot EXCEPT ![s].prompt = 0]
                               /\ Thinner(mem, mem') /\ (FromZero(mem) => ~Has(mem', s))
    BY <1>5
  <2>2. s \in Slots /\ slot[s].state = "idle"
    BY DEF Purgeable, IsProcessing
  <2> DEFINE y == [slot[s] EXCEPT !.prompt = 0]
  <2>3. y.state = "idle" /\ y.prompt = 0 /\ y.kind = slot[s].kind
    BY <1>3, <2>2 DEF SlotRec
  <2>4. slot' = [slot EXCEPT ![s] = y]
    BY <2>1
  <2> HIDE DEF y
  <2>5. slot'[s] = y /\ \A r \in Slots \ {s} : slot'[r] = slot[r]
    BY <1>3, <2>2, <2>4
  <2>6. ASSUME NEW r \in Slots PROVE SlotKept(slot'[r], mem', r)
    <3>1. SlotKept(slot[r], mem, r) /\ (Has(mem', r) => Has(mem, r))
      BY <2>1, KeptFacts DEF Thinner
    <3>2. CASE r = s
      <4>1. ~Has(mem', s) /\ slot'[r] = y /\ y.kind # "embd"
        BY <1>1, <2>1, <2>3, <2>5, <3>1, <3>2 DEF SlotKept
      <4> QED BY <2>3, <3>2, <4>1 DEF SlotKept
    <3>3. CASE r # s
      BY <2>5, <3>1, <3>3, SameKept
    <3> QED BY <3>2, <3>3
  <2>7. ASSUME NEW k \in i' + 1..Len(batch') PROVE Pending(slot', batch'[k], k)
    <3>1. Pending(slot, batch[k], k) /\ batch'[k] = batch[k]
      BY <1>2 DEF KeptInv
    <3>2. k \in 1..Len(batch)
      BY <1>2, <1>3
    <3>3. batch[k].slot \in Slots \ {s}
      <4>1. batch[k].slot \in Slots
        BY <1>3, <3>2, TokenAt
      <4>2. slot[batch[k].slot].state # "idle"
        BY <3>1 DEF Pending
      <4> QED BY <2>2, <4>1, <4>2
    <3> QED BY <2>5, <3>1, <3>3 DEF Pending
  <2>8. ~(nb' < NBatch)
    BY <1>5, <2>1 DEF KeptInv
  <2>9. FromZero(mem')
    BY <1>1, <2>1 DEF Thinner
  <2> QED BY <1>1, <1>2, <2>6, <2>7, <2>8, <2>9, KeptNext
<1>6. \/ /\ nb' = nb
         /\ \E s \in Purgeable : /\ slot' = [slot EXCEPT ![s].prompt = 0]
                                 /\ Thinner(mem, mem') /\ (FromZero(mem) => ~Has(mem', s))
      \/ Purgeable = {} /\ nb' = nb \div 2 /\ slot' = slot /\ mem' = mem
  BY <1>1, RetryIs
<1> QED BY <1>4, <1>5, <1>6

LEMMA KeptChunk == ASSUME KeptInv, DecodeChunk PROVE KeptInv'
<1> DEFINE hi == i + ChunkLen
<1>1. BatchTyped /\ DecidedInv' /\ FromZero(mem) /\ slot \in [Slots -> SlotRec] /\ batch \in Seq(Token)
  BY KeptFacts, DecidedChunk DEF BatchTyped
<1>2. PICK x \in SlotsAndMemory : ChunkIs(x)
  BY <1>1, ChunkDoes
<1>3. /\ slot' \in [Slots -> SlotRec] /\ mpc = "decode"
      /\ \/ hi = Len(batch) /\ EndIteration
         \/ i' = hi /\ nb' = NBatch /\ UNCHANGED <<mix, mpc, cur, batch>>
  BY <1>1, ChunkDoes
<1>4. ChunkLen \in Int /\ i \in Nat /\ Len(batch) \in Nat /\ hi \in Nat /\ hi <= Len(batch) /\ hi >= i
  BY <1>1, ChunkLenIs, SlotFacts
<1> HIDE DEF hi
<1>5. FromZero(Decoded)
  <2>1. \A t \in Chunk : t.pos >= 0
    BY <1>1, ChunkFinite DEF KeptInv, Pending
  <2> QED BY <1>1, <2>1 DEF Decoded, FromZero
<1>6. ASSUME NEW r \in Slots PROVE SlotKept(slot[r], Decoded, r)
  <2>1. SlotKept(slot[r], mem, r)
    BY KeptFacts
  <2>2. (\E t \in Chunk : t.slot = r) => slot[r].prompt >= 1
    BY <1>1, ChunkFinite DEF KeptInv, Pending
  <2>3. Has(Decoded, r) => Has(mem, r) \/ \E t \in Chunk : t.slot = r
    BY DEF Decoded, Has
  <2> QED BY <2>1, <2>2, <2>3 DEF SlotKept
<1>7. FromZero(x.m)
  BY <1>2, <1>5 DEF ChunkIs, Activated
<1>8. ASSUME NEW r \in Slots
      PROVE  /\ SlotKept(x.sl[r], x.m, r) /\ x.sl[r] \in SlotRec
             /\ x.sl[r] = slot[r] \/ slot[r].state = "wait"
  <2>1. x.sl[r] \in SlotRec /\ slot[r] \in SlotRec
    BY <1>1 DEF SlotsAndMemory
  <2>2. CASE x.sl[r] = slot[r]
    <3>1. Has(x.m, r) => Has(Decoded, r)
      BY <1>2, <2>2 DEF ChunkIs, Activated
    <3> QED BY <1>6, <2>1, <2>2, <3>1, SameKept
  <2>3. CASE /\ slot[r].state = "wait"
             /\ \E p \in Slots : slot[p].state = "done" /\ x.sl[r] = CopyOf(slot[r], slot[p])
    <3>1. PICK p \in Slots : slot[p].state = "done" /\ x.sl[r] = CopyOf(slot[r], slot[p])
      BY <2>3
    <3>2. slot[p].prompt >= 1 /\ slot[r].kind # "embd" /\ mix.cells >= 2 /\ slot[p].prompt \in Int
      BY <1>1, <2>3, <3>1, KeptFacts, SlotFacts DEF SlotKept
    <3>3. /\ x.sl[r].state = "done" /\ x.sl[r].prompt = slot[p].prompt /\ x.sl[r].kind = slot[r].kind
      BY <2>1, <3>1 DEF CopyOf, SlotRec
    <3> QED BY <2>1, <2>3, <3>2, <3>3 DEF SlotKept
  <2>4. \/ x.sl[r] = slot[r]
        \/ /\ slot[r].state = "wait"
           /\ \E p \in Slots : slot[p].state = "done" /\ x.sl[r] = CopyOf(slot[r], slot[p])
    BY <1>2 DEF ChunkIs, Activated
  <2> QED BY <2>2, <2>3, <2>4
<1>9. Thinner(x.m, mem') /\ FromZero(mem')
  BY <1>2, <1>7 DEF ChunkIs, SampledTo, Thinner
<1>10. ASSUME NEW r \in Slots
       PROVE  /\ SlotKept(slot'[r], mem', r)
              /\ \/ slot'[r] = x.sl[r]
                 \/ x.sl[r].state \in {"done", "gen"} /\ InChunk(x.sl[r].ibatch)
  <2>1. SampleOf(x.sl[r], slot'[r], x.m, mem', r) /\ x.sl[r] \in SlotRec /\ SlotKept(x.sl[r], x.m, r)
    BY <1>2, <1>8 DEF ChunkIs, SampledTo
  <2> DEFINE z == [x.sl[r] EXCEPT !.ibatch = -1]
  <2>2. /\ z \in SlotRec /\ z.prompt = x.sl[r].prompt /\ z.kind = x.sl[r].kind /\ z.parent = x.sl[r].parent
        /\ z.state = x.sl[r].state
    BY <2>1 DEF SlotRec
  <2>3. CASE x.sl[r].state \in {"done", "gen"} /\ InChunk(x.sl[r].ibatch)
    <3>1. \/ /\ slot'[r] = FreeSlot(z, PromptLeft(x.sl[r]))
             /\ FromZero(x.m) /\ x.sl[r].parent # 0 => ~Has(mem', r)
          \/ slot'[r] = [x.sl[r] EXCEPT !.ibatch = -1, !.state = "gen", !.decoded = @ + 1]
      BY <2>1, <2>3 DEF SampleOf
    <3>2. SlotKept(z, x.m, r) /\ PromptLeft(z) = PromptLeft(x.sl[r])
      BY <2>1, <2>2 DEF SlotKept, PromptLeft
    <3>3. CASE /\ slot'[r] = FreeSlot(z, PromptLeft(x.sl[r]))
               /\ FromZero(x.m) /\ x.sl[r].parent # 0 => ~Has(mem', r)
      <4> HIDE DEF z
      <4>1. SlotKept(FreeSlot(z, PromptLeft(z)), mem', r)
        BY <1>7, <1>9, <2>2, <3>2, <3>3, FreedKept
      <4> QED BY <2>3, <3>2, <3>3, <4>1
    <3>4. CASE slot'[r] = [x.sl[r] EXCEPT !.ibatch = -1, !.state = "gen", !.decoded = @ + 1]
      <4>1. slot'[r].state = "gen" /\ slot'[r].prompt = x.sl[r].prompt /\ slot'[r].kind = x.sl[r].kind
        BY <2>1, <3>4 DEF SlotRec
      <4>2. x.sl[r].prompt >= 1 /\ mix.cells >= 2 /\ x.sl[r].kind # "embd" /\ x.sl[r].prompt \in Int
        BY <2>1, <2>3 DEF SlotKept, SlotRec
      <4>3. slot'[r].prompt >= 0 /\ slot'[r].prompt # 0
        BY <4>1, <4>2
      <4>4. SlotKept(slot'[r], mem', r)
        BY <4>1, <4>2, <4>3 DEF SlotKept
      <4> QED BY <2>3, <4>4
    <3> QED BY <3>1, <3>3, <3>4
  <2>4. CASE ~(x.sl[r].state \in {"done", "gen"} /\ InChunk(x.sl[r].ibatch))
    <3>1. slot'[r] = x.sl[r]
      BY <2>1, <2>4 DEF SampleOf
    <3> QED BY <1>9, <2>1, <3>1, SameKept DEF Thinner
  <2> QED BY <2>3, <2>4
<1>11. CASE EndIteration
  <2>1. mix' = mix /\ nb' = NBatch /\ Len(batch') = 0 /\ i' = 0
    BY <1>11 DEF EndIteration
  <2> QED BY <1>1, <1>9, <1>10, <2>1, KeptAtRest
<1>12. CASE i' = hi /\ nb' = NBatch /\ UNCHANGED <<mix, mpc, cur, batch>>
  <2>1. ASSUME NEW k \in i' + 1..Len(batch') PROVE Pending(slot', batch'[k], k)
    <3> DEFINE r == batch[k].slot
    <3>1. k \in i + 1..Len(batch) /\ k \in 1..Len(batch) /\ k - 1 >= hi /\ k \in Int
      BY <1>4, <1>12
    <3>2. Pending(slot, batch[k], k)
      BY <3>1 DEF KeptInv
    <3>3. r \in Slots
      BY <1>1, <3>1, TokenAt
    <3>4. x.sl[r] = slot[r] /\ slot[r].ibatch \in Int
      BY <1>1, <1>8, <3>2, <3>3, SlotFacts DEF Pending
    <3>5. slot'[r] = slot[r]
      <4>1. CASE x.sl[r].state \in {"done", "gen"} /\ InChunk(x.sl[r].ibatch)
        <5>1. slot[r].ibatch < hi /\ slot[r].ibatch >= k - 1
          BY <3>2, <3>4, <4>1 DEF InChunk, Pending, hi
        <5> QED BY <1>4, <3>1, <3>4, <5>1
      <4> QED BY <1>10, <3>3, <3>4, <4>1
    <3> QED BY <1>12, <3>2, <3>5 DEF Pending
  <2>2. ~(nb' < NBatch)
    BY <1>12, BatchAssumption
  <2> QED BY <1>1, <1>9, <1>10, <1>12, <2>1, <2>2, KeptNext
<1> QED BY <1>3, <1>11, <1>12

LEMMA KeptAtFirst == BatchInit => KeptInv
<1> SUFFICES ASSUME BatchInit PROVE KeptInv
  OBVIOUS
<1>1. mem = {} /\ batch = <<>> /\ i = 0 /\ nb = NBatch /\ NBatch \in Nat
  BY BatchAssumption DEF BatchInit
<1>2. \A s \in Slots : SlotKept(slot[s], mem, s)
  BY <1>1 DEF BatchInit, IdleSlot, SlotKept, Has
<1>3. i + 1..Len(batch) = {} /\ ~(nb < NBatch)
  BY <1>1
<1> QED BY <1>1, <1>2, <1>3, DecidedAtFirst DEF KeptInv, FromZero

LEMMA KeptStep == ASSUME NoEmbeddings, KeptInv, [BatchNext]_batchVars PROVE KeptInv'
<1>1. ASSUME NEW s \in Slots, NEW kind \in Kinds, NEW len, Launch(s, kind, len) PROVE KeptInv'
  BY <1>1, KeptLaunch
<1>2. ASSUME NEW s \in Slots, Cancel(s) PROVE KeptInv'
  BY <1>2, KeptCancel
<1>3. ASSUME NEW e, FailWith(e) PROVE KeptInv'
  BY <1>3, KeptFail
<1>4. CASE UpdateSlots
  BY <1>3, <1>4, KeptBegin, KeptSkip, KeptStart, KeptContinue, KeptEmpty, KeptRetry, KeptChunk
     DEF UpdateSlots, DecodeInvalid, ComputeError, ContextExceeded
<1>5. CASE UNCHANGED batchVars
  BY <1>5 DEF batchVars, KeptInv, DecidedInv, BatchTyped, Decided, Due, Unfinished, OwnToken,
     FromZero, SlotKept, Has, Pending, Purgeable, IsProcessing
<1> QED BY <1>1, <1>2, <1>4, <1>5 DEF BatchNext

\* The error that all get comes when a chunk of one token finds no room: by then
\* every idle slot has been purged.
LEMMA LastResort ==
  ASSUME NBatch > 1, KeptInv, [BatchNext]_batchVars, err' = "context", err = "none"
  PROVE  \A e \in mem : \E s \in e.seqs : IsProcessing(slot, s)
<1>1. ContextExceeded
  <2>1. err' # err
    OBVIOUS
  <2>2. BatchNext
    BY <2>1 DEF batchVars
  <2>3. UpdateSlots
    BY <2>1, <2>2 DEF BatchNext, Launch, Cancel
  <2> QED BY <2>1, <2>3
          DEF UpdateSlots, Begin, SkipTurn, StartPrompt, ContinuePrompt, EmptyBatch, DecodeInvalid,
              ComputeError, FailWith, Retry, DecodeChunk
<1>2. Purgeable = {}
  BY <1>1 DEF ContextExceeded, Smallest, KeptInv
<1>3. mem \in Memory /\ \A s \in Slots : SlotKept(slot[s], mem, s) /\ slot[s].prompt \in Int
  BY KeptFacts, SlotFacts DEF BatchTyped
<1>4. ASSUME NEW e \in mem PROVE \E s \in e.seqs : IsProcessing(slot, s)
  <2>1. PICK s \in e.seqs : s \in Slots
    BY <1>3 DEF Memory
  <2>2. slot[s].prompt > 0
    BY <1>3, <2>1 DEF SlotKept, Has
  <2> QED BY <1>2, <2>1, <2>2 DEF Purgeable
<1> QED BY <1>4

\* "Context size has been exceeded" comes only when nothing is in the cache but
\* the memory of slots that are processing.  With n_batch = 1 the first chunk is
\* the smallest already, and nothing is purged before the error; and the prompt of
\* an embedding that waits for room is forgotten while its memory stays, so that
\* what is left by its cancellation is not purged.
THEOREM NoErrorForIdleSlots ==
  ASSUME NBatch > 1, NoEmbeddings PROVE Batching => NoNeedlessError
<1>1. BatchInit => KeptInv
  BY KeptAtFirst
<1>2. KeptInv /\ [BatchNext]_batchVars => KeptInv'
  BY KeptStep
<1>3. KeptInv /\ [BatchNext]_batchVars
        => [err' = "context" /\ err = "none"
              => \A e \in mem : \E s \in e.seqs : IsProcessing(slot, s)]_batchVars
  BY LastResort
<1>4. Batching => []KeptInv
  BY <1>1, <1>2, PTL DEF Batching
<1> QED BY <1>3, <1>4, PTL DEF Batching, NoNeedlessError

-----------------------------------------------------------------------------
(* What is in the memory is the prompt.                                     *)

\* No prompt is shared.
NoCopies == "multi" \notin mix.kinds

\* The integers from a to before b.
Span(S, a, b) == S \subseteq Int /\ \A p \in Int : p \in S <=> a <= p /\ p < b

\* The positions a slot and a batch can have.
Top(mx) == Max({mx.cells, NBatch})
Wide == Max({NBatch, NSlots})

\* The positions of slot s in a batch from which lo tokens are decoded.
RestOf(b, lo, s) == {b[k].pos : k \in {j \in lo + 1..Len(b) : b[j].slot = s}}

\* What the fields of a slot may be, when no prompt is shared.
Sized(x, mx) ==
  /\ x.kind # "multi" /\ x.parent = 0 /\ x.state # "wait"
  /\ x.decoded <= MaxDecoded /\ x.ibatch \in -1..Wide - 1
  /\ x.len \in {0} \cup mx.lens
  /\ x.prompt \in 0..Top(mx)
  /\ x.state # "idle" => IF x.kind = "embd" THEN x.len <= NBatch ELSE x.len < mx.cells
  /\ x.state \in {"prompt", "done"} => x.prompt <= x.len
  /\ x.state = "done" => x.prompt >= 1
  /\ x.state = "gen" => x.kind # "embd" /\ 1 <= x.prompt /\ x.prompt < mx.cells

\* A slot that has lost its prompt, but not yet the memory of it.
Stale(x) == x.prompt = 0 /\ (x.state \in {"idle", "started"} \/ x.kind = "embd")

\* The prompt of x is first in the memory, at the positions P, then in the batch, at R.
Holds(x, P, R, mx) ==
  \E f \in 0..x.prompt :
    /\ Span(R, f, x.prompt)
    /\ Span(P, 0, f) \/ (Stale(x) /\ P \subseteq 0..Top(mx) - 1)

\* A slot with a token in the batch is at work, and its turn is over.
Carried(sl, t, pc, c) ==
  /\ sl[t.slot].state \in {"prompt", "done", "gen"}
  /\ pc = "prompts" /\ sl[t.slot].state = "prompt" => t.slot < c

\* The tokens of a slot are in the order of their positions.
InOrder(b, lo) ==
  \A j, k \in lo + 1..Len(b) : j < k /\ b[j].slot = b[k].slot => b[j].pos < b[k].pos

\* Beside DecidedInv, which has that a slot is sampled at its own last token.
SoundInv ==
  /\ Alone(mem)
  /\ \A s \in Slots : /\ Sized(slot[s], mix)
                      /\ Holds(slot[s], Positions(mem, s), RestOf(batch, i, s), mix)
  /\ \A k \in i + 1..Len(batch) : Carried(slot, batch[k], mpc, cur)
  /\ InOrder(batch, i)
  /\ Len(batch) <= Wide
  /\ cur \in 0..NSlots /\ lead \in 0..NSlots
  /\ err \in {"none", "compute", "context"}

LEMMA SpanIs ==
  ASSUME NEW S, NEW a \in Int, NEW b \in Int
  PROVE  Span(S, a, b) <=> S = a..b - 1
<1>1. \A p \in Int : p \in a..b - 1 <=> a <= p /\ p < b
  OBVIOUS
<1>2. a..b - 1 \subseteq Int
  OBVIOUS
<1> DEFINE T == a..b - 1
<1> HIDE DEF T
<1>3. T \subseteq Int /\ \A p \in Int : p \in T <=> a <= p /\ p < b
  BY <1>1, <1>2 DEF T
<1>4. ASSUME Span(S, a, b) PROVE S = T
  BY <1>3, <1>4 DEF Span
<1>5. ASSUME S = T PROVE Span(S, a, b)
  BY <1>3, <1>5 DEF Span
<1> QED BY <1>4, <1>5 DEF T

LEMMA TopFacts ==
  ASSUME BatchTyped
  PROVE  /\ Top(mix) \in Nat /\ Top(mix) >= mix.cells /\ Top(mix) >= NBatch
         /\ Wide \in Nat /\ Wide >= NBatch /\ Wide >= NSlots /\ mix.cells \in Nat \ {0}
         /\ NBatch \in Nat \ {0} /\ NSlots \in Nat \ {0}
<1>1. mix.cells \in Nat \ {0} /\ NBatch \in Nat \ {0} /\ NSlots \in Nat \ {0}
  BY SlotFacts, BatchAssumption
<1>2. mix.cells \in Int /\ NBatch \in Int /\ NSlots \in Int
  BY <1>1
<1>3. Top(mix) \in {mix.cells, NBatch} /\ Top(mix) >= mix.cells /\ Top(mix) >= NBatch
  BY <1>2, MaxOfTwo DEF Top
<1>4. Wide \in {NBatch, NSlots} /\ Wide >= NBatch /\ Wide >= NSlots
  BY <1>2, MaxOfTwo DEF Wide
<1> QED BY <1>1, <1>3, <1>4

\* A slot with nothing in the batch has all of its prompt in the memory.
LEMMA HoldsAll ==
  ASSUME NEW x, NEW P, NEW mx, x.prompt \in Nat
  PROVE  Holds(x, P, {}, mx) <=> Span(P, 0, x.prompt) \/ (Stale(x) /\ P \subseteq 0..Top(mx) - 1)
<1>1. ASSUME Holds(x, P, {}, mx)
      PROVE  Span(P, 0, x.prompt) \/ (Stale(x) /\ P \subseteq 0..Top(mx) - 1)
  <2>1. PICK f \in 0..x.prompt : /\ Span({}, f, x.prompt)
                                 /\ Span(P, 0, f) \/ (Stale(x) /\ P \subseteq 0..Top(mx) - 1)
    BY <1>1 DEF Holds
  <2>2. f = x.prompt
    BY <2>1 DEF Span
  <2> QED BY <2>1, <2>2
<1>2. Span({}, x.prompt, x.prompt) /\ x.prompt \in 0..x.prompt
  BY DEF Span
<1>3. ASSUME Span(P, 0, x.prompt) \/ (Stale(x) /\ P \subseteq 0..Top(mx) - 1)
      PROVE  Holds(x, P, {}, mx)
  BY <1>2, <1>3 DEF Holds
<1> QED BY <1>1, <1>3

\* Whatever its prompt, what a slot has in the memory is at positions that are used.
LEMMA HeldBelow ==
  ASSUME BatchTyped, NEW x, NEW P, NEW R, Holds(x, P, R, mix), x.prompt \in 0..Top(mix)
  PROVE  P \subseteq 0..Top(mix) - 1
<1>1. PICK f \in 0..x.prompt : Span(P, 0, f) \/ (Stale(x) /\ P \subseteq 0..Top(mix) - 1)
  BY DEF Holds
<1>2. ASSUME Span(P, 0, f) PROVE P \subseteq 0..Top(mix) - 1
  <2>1. Top(mix) \in Nat /\ f \in Int /\ f <= Top(mix)
    BY TopFacts
  <2> QED BY <1>2, <2>1 DEF Span
<1> QED BY <1>1, <1>2

\* The prompt and the memory stay, and the slot is still stale if it was.
LEMMA StillHolds ==
  ASSUME NEW x, NEW y, NEW P, NEW R, NEW mx, Holds(x, P, R, mx), y.prompt = x.prompt,
         Stale(x) => Stale(y)
  PROVE  Holds(y, P, R, mx)
BY DEF Holds

LEMMA NothingInBatch ==
  ASSUME NEW b, NEW lo, NEW s, \A k \in lo + 1..Len(b) : b[k].slot # s
  PROVE  RestOf(b, lo, s) = {}
BY DEF RestOf

LEMMA SoundFacts ==
  ASSUME DecidedInv, SoundInv
  PROVE  /\ BatchTyped /\ Alone(mem) /\ mem \in Memory /\ Single(slot) /\ FromZero(mem)
         /\ State \in SlotsAndMemory /\ State.sl = slot /\ State.m = mem
         /\ \A s \in Slots : /\ slot[s] \in SlotRec /\ Sized(slot[s], mix)
                             /\ slot[s].prompt \in Nat /\ slot[s].parent = 0
                             /\ Holds(slot[s], Positions(mem, s), RestOf(batch, i, s), mix)
                             /\ Positions(mem, s) \subseteq 0..Top(mix) - 1
                             /\ slot[s].state \notin {"prompt", "done", "gen"} => RestOf(batch, i, s) = {}
         /\ mpc = "take" => batch = <<>> /\ i = 0 /\ Len(batch) = 0 /\ \A s \in Slots : RestOf(batch, i, s) = {}
<1>1. BatchTyped /\ Alone(mem)
  BY DEF DecidedInv, SoundInv
<1>2. mem \in Memory /\ State \in SlotsAndMemory /\ State.sl = slot /\ State.m = mem
  BY <1>1, SlotFacts DEF BatchTyped
<1>3. ASSUME NEW s \in Slots
      PROVE  /\ slot[s] \in SlotRec /\ Sized(slot[s], mix)
             /\ slot[s].prompt \in Nat /\ slot[s].parent = 0
             /\ Holds(slot[s], Positions(mem, s), RestOf(batch, i, s), mix)
             /\ Positions(mem, s) \subseteq 0..Top(mix) - 1
             /\ slot[s].state \notin {"prompt", "done", "gen"} => RestOf(batch, i, s) = {}
  <2>1. slot[s] \in SlotRec /\ Sized(slot[s], mix)
        /\ Holds(slot[s], Positions(mem, s), RestOf(batch, i, s), mix)
    BY <1>1, SlotFacts DEF SoundInv
  <2>2. slot[s].parent = 0 /\ slot[s].prompt \in 0..Top(mix) /\ slot[s].prompt \in Nat
    <3>1. slot[s].parent = 0 /\ slot[s].prompt \in 0..Top(mix)
      BY <2>1 DEF Sized
    <3> QED BY <1>1, <3>1, TopFacts
  <2>3. Positions(mem, s) \subseteq 0..Top(mix) - 1
    BY <1>1, <2>1, <2>2, HeldBelow
  <2>4. slot[s].state \notin {"prompt", "done", "gen"} => RestOf(batch, i, s) = {}
    <3>1. \A k \in i + 1..Len(batch) : slot[batch[k].slot].state \in {"prompt", "done", "gen"}
      BY DEF SoundInv, Carried
    <3> QED BY <3>1, NothingInBatch
  <2> QED BY <2>1, <2>2, <2>3, <2>4
<1>4. FromZero(mem)
  <2> SUFFICES ASSUME NEW e \in mem PROVE e.pos >= 0
    BY DEF FromZero
  <2>1. PICK s \in Slots : s \in e.seqs
    BY <1>1 DEF Alone
  <2>2. e.pos \in Positions(mem, s)
    BY <2>1, AtPositions
  <2> QED BY <1>1, <1>3, <2>1, <2>2, TopFacts
<1>5. mpc = "take" => batch = <<>> /\ i = 0 /\ Len(batch) = 0 /\ \A s \in Slots : RestOf(batch, i, s) = {}
  <2> SUFFICES ASSUME mpc = "take"
               PROVE  batch = <<>> /\ i = 0 /\ Len(batch) = 0 /\ \A s \in Slots : RestOf(batch, i, s) = {}
    OBVIOUS
  <2>1. batch = <<>> /\ i = 0 /\ Len(batch) = 0 /\ 1..0 = {}
    BY NothingDue
  <2> QED BY <2>1, NothingInBatch
<1> QED BY <1>1, <1>2, <1>3, <1>4, <1>5 DEF Single

\* A step that leaves the memory and what is left of the batch, and changes a slot
\* only in what its prompt does not depend on.
LEMMA SoundSame ==
  ASSUME SoundInv, DecidedInv, mix' = mix, mem' = mem, batch' = batch, i' = i, err' = err,
         Len(batch) = 0 \/ slot' = slot,
         \A s \in Slots : /\ Sized(slot'[s], mix) /\ slot'[s].prompt = slot[s].prompt
                          /\ Stale(slot[s]) => Stale(slot'[s]),
         cur' \in 0..NSlots, lead' \in 0..NSlots, mpc' = "prompts" => mpc = "prompts" /\ cur' >= cur
  PROVE  SoundInv'
<1>1. Alone(mem') /\ Len(batch') <= Wide' /\ err' \in {"none", "compute", "context"}
      /\ InOrder(batch', i')
  BY DEF SoundInv, Wide
<1>2. ASSUME NEW s \in Slots
      PROVE  Sized(slot'[s], mix') /\ Holds(slot'[s], Positions(mem', s), RestOf(batch', i', s), mix')
  BY StillHolds DEF SoundInv
<1>3. ASSUME NEW k \in i' + 1..Len(batch') PROVE Carried(slot', batch'[k], mpc', cur')
  <2>1. k \in i + 1..Len(batch) /\ Carried(slot, batch[k], mpc, cur) /\ i \in Nat /\ Len(batch) \in Nat
    BY SlotFacts DEF SoundInv, DecidedInv
  <2>2. slot' = slot
    BY <2>1
  <2>3. batch[k].slot \in Int /\ cur \in Int /\ cur' \in Int
    <3>1. batch \in Seq(Token) /\ k \in 1..Len(batch) /\ NSlots \in Nat
      BY <2>1, SlotFacts DEF DecidedInv, BatchTyped
    <3>2. batch[k].slot \in Slots
      BY <3>1, TokenAt
    <3> QED BY <3>1, <3>2 DEF Slots, SoundInv
  <2> QED BY <2>1, <2>2, <2>3 DEF Carried
<1> QED BY <1>1, <1>2, <1>3 DEF SoundInv

LEMMA SoundLaunch ==
  ASSUME NoCopies, DecidedInv, SoundInv, NEW s \in Slots, NEW kind \in Kinds, NEW len, Launch(s, kind, len)
  PROVE  SoundInv'
<1> DEFINE task == [IdleSlot EXCEPT !.state = "started", !.kind = kind, !.len = len,
                                    !.prompt = slot[s].prompt, !.ibatch = slot[s].ibatch]
<1>1. /\ BatchTyped /\ Len(batch) = 0 /\ mpc = "take" /\ ~IsProcessing(slot, s) /\ len \in mix.lens
      /\ IF kind = "embd" THEN len <= NBatch ELSE len < mix.cells
  BY SoundFacts DEF Launch
<1>2. kind # "multi" /\ slot' = [slot EXCEPT ![s] = task]
  BY <1>1 DEF NoCopies, Launch, BatchTyped
<1>3. UNCHANGED <<mix, mem, mpc, cur, lead, batch, i, nb, err>>
  BY DEF Launch
<1>4. slot[s].state = "idle" /\ Sized(slot[s], mix) /\ slot[s] \in SlotRec
  BY <1>1, SoundFacts DEF IsProcessing
<1>5. /\ task.state = "started" /\ task.kind = kind /\ task.len = len /\ task.prompt = slot[s].prompt
      /\ task.ibatch = slot[s].ibatch /\ task.parent = 0 /\ task.decoded = 0
  BY DEF IdleSlot
<1> HIDE DEF task
<1>6. Sized(task, mix)
  <2>1. 0 <= MaxDecoded
    BY BatchAssumption
  <2> QED BY <1>1, <1>2, <1>4, <1>5, <2>1 DEF Sized
<1>7. Stale(slot[s]) => Stale(task)
  BY <1>5 DEF Stale
<1>8. ASSUME NEW r \in Slots
      PROVE  /\ Sized(slot'[r], mix) /\ slot'[r].prompt = slot[r].prompt
             /\ Stale(slot[r]) => Stale(slot'[r])
  <2>1. slot'[r] = IF r = s THEN task ELSE slot[r]
    BY <1>1, <1>2 DEF BatchTyped
  <2>2. Sized(slot[r], mix)
    BY DEF SoundInv
  <2> QED BY <1>5, <1>6, <1>7, <2>1, <2>2
<1>9. cur' \in 0..NSlots /\ lead' \in 0..NSlots
  BY <1>3 DEF SoundInv
<1> QED BY <1>1, <1>3, <1>8, <1>9, SoundSame

\* A slot that is released.
LEMMA FreeSized ==
  ASSUME BatchTyped, NEW x \in SlotRec, Sized(x, mix), NEW p \in Int, p \in {0, x.prompt}
  PROVE  /\ Sized(FreeSlot(x, p), mix) /\ FreeSlot(x, p).state = "idle" /\ FreeSlot(x, p).prompt = p
         /\ Stale(x) => Stale(FreeSlot(x, p))
<1>1. /\ FreeSlot(x, p).state = "idle" /\ FreeSlot(x, p).kind = "none" /\ FreeSlot(x, p).parent = 0
      /\ FreeSlot(x, p).len = 0 /\ FreeSlot(x, p).prompt = p /\ FreeSlot(x, p).decoded = 0
      /\ FreeSlot(x, p).ibatch = x.ibatch
  BY DEF FreeSlot, IdleSlot
<1>2. 0 <= MaxDecoded /\ 0 \in 0..Top(mix)
  BY TopFacts, BatchAssumption
<1>3. Sized(FreeSlot(x, p), mix)
  BY <1>1, <1>2 DEF Sized
<1> QED BY <1>1, <1>3 DEF Stale

LEMMA SoundCancel == ASSUME DecidedInv, SoundInv, NEW s \in Slots, Cancel(s) PROVE SoundInv'
<1> DEFINE v == Release(State, s)
           C == WaitingFor(slot, s)
           u == ReleaseSet(v, C)
<1>1. /\ BatchTyped /\ Len(batch) = 0 /\ mpc = "take" /\ Single(slot)
      /\ \A r \in Slots : slot[r] \in SlotRec /\ Sized(slot[r], mix) /\ slot[r].prompt \in Nat
                          /\ slot[r].parent = 0
      /\ State \in SlotsAndMemory /\ State.sl = slot /\ State.m = mem
  BY SoundFacts DEF Cancel
<1>2. slot' = u.sl /\ mem' = u.m /\ UNCHANGED <<mix, mpc, cur, lead, batch, i, nb, err>>
  BY DEF Cancel, Become, ReleaseSet, FoldSet, MapThenFoldSet
<1>3. C = {}
  BY <1>1 DEF WaitingFor, Sized
<1>4. /\ v \in SlotsAndMemory /\ v.m = mem
      /\ \A r \in Slots \ {s} : v.sl[r] = slot[r]
      /\ v.sl[s] = FreeSlot(slot[s], slot[s].prompt)
  <2>1. /\ v \in SlotsAndMemory
        /\ \A r \in Slots \ {s} : v.sl[r] = State.sl[r]
        /\ v.sl[s] = FreeSlot(State.sl[s], PromptLeft(State.sl[s]))
        /\ State.sl[s].parent = 0 => v.m = State.m
    BY <1>1, ReleaseIs
  <2> HIDE DEF v
  <2> QED BY <1>1, <2>1 DEF PromptLeft
<1> HIDE DEF v, C
<1>5. C \in SUBSET Slots
  BY <1>3
<1>6. u \in SlotsAndMemory /\ ReleasedIn(v, u, C)
  BY <1>4, <1>5, ReleaseSetIs
<1> HIDE DEF u
<1>7. \A r \in Slots : u.sl[r] = v.sl[r]
  BY <1>3, <1>6 DEF ReleasedIn
<1>8. /\ FreeSlot(slot[s], slot[s].prompt).prompt = slot[s].prompt
      /\ Sized(FreeSlot(slot[s], slot[s].prompt), mix)
      /\ Stale(slot[s]) => Stale(FreeSlot(slot[s], slot[s].prompt))
  BY <1>1, FreeSized
<1>9. Single(v.sl) => u.m = v.m
  BY <1>6 DEF ReleasedIn
<1>10. Single(v.sl)
  BY <1>1, <1>4, <1>8 DEF Single, Sized
<1>11. ASSUME NEW r \in Slots
       PROVE  /\ Sized(slot'[r], mix) /\ slot'[r].prompt = slot[r].prompt
              /\ Stale(slot[r]) => Stale(slot'[r])
  <2>1. slot'[r] = IF r = s THEN FreeSlot(slot[s], slot[s].prompt) ELSE slot[r]
    BY <1>2, <1>4, <1>7
  <2> QED BY <1>1, <1>8, <2>1
<1>12. mem' = mem /\ cur' \in 0..NSlots /\ lead' \in 0..NSlots
  BY <1>2, <1>4, <1>9, <1>10 DEF SoundInv
<1> QED BY <1>1, <1>2, <1>11, <1>12, SoundSame

LEMMA SoundSkip == ASSUME DecidedInv, SoundInv, SkipTurn PROVE SoundInv'
<1>1. BatchTyped /\ \A s \in Slots : Sized(slot[s], mix)
  BY SoundFacts
<1>2. UNCHANGED <<mix, slot, mem, lead, batch, i, nb, err>> /\ mpc = "prompts"
  BY DEF SkipTurn
<1>3. cur' \in 0..NSlots /\ (mpc' = "prompts" => cur' >= cur)
  <2>1. cur \in Slots /\ NSlots \in Nat
    BY <1>1, <1>2, SlotFacts DEF BatchTyped
  <2>2. (mpc' = "decode" /\ cur' = 0) \/ (cur # NSlots /\ cur' = cur + 1)
    BY DEF SkipTurn, NextTurn
  <2> QED BY <2>1, <2>2 DEF Slots
<1>4. lead' \in 0..NSlots
  BY <1>2 DEF SoundInv
<1> QED BY <1>1, <1>2, <1>3, <1>4, SoundSame

\* Added puts in one token of a slot, so that there are no more than slots.
LEMMA AddedShort ==
  ASSUME NEW b \in Seq(Token), \A j, k \in 1..Len(b) : j # k => b[j].slot # b[k].slot
  PROVE  Len(b) <= NSlots
<1> DEFINE f == [k \in 1..Len(b) |-> b[k].slot]
<1>1. NSlots \in Nat /\ Len(b) \in Nat /\ 1 \in Int /\ NSlots \in Int /\ Len(b) \in Int
  BY BatchAssumption
<1>2. \A k \in 1..Len(b) : b[k].slot \in 1..NSlots
  BY TokenAt DEF Slots
<1>3. f \in Injection(1..Len(b), 1..NSlots)
  BY <1>2 DEF Injection, IsInjective
<1>4. IsFiniteSet(1..NSlots) /\ Cardinality(1..NSlots) = NSlots /\ Cardinality(1..Len(b)) = Len(b)
  <2>1. ASSUME NEW n \in Nat PROVE IsFiniteSet(1..n) /\ Cardinality(1..n) = n
    <3>1. 1 \in Int /\ n \in Int
      OBVIOUS
    <3>2. IsFiniteSet(1..n) /\ Cardinality(1..n) = IF 1 > n THEN 0 ELSE n - 1 + 1
      BY <3>1, FS_Interval
    <3> QED BY <3>2
  <2> QED BY <1>1, <2>1
<1>5. Cardinality(1..Len(b)) <= Cardinality(1..NSlots)
  <2> HIDE DEF f
  <2>1. ExistsInjection(1..Len(b), 1..NSlots)
    BY <1>3 DEF ExistsInjection
  <2> QED BY <1>3, <1>4, FS_Injection
<1> QED BY <1>1, <1>4, <1>5

LEMMA SoundBegin == ASSUME DecidedInv, SoundInv, Begin PROVE SoundInv'
<1> DEFINE st == ShiftedAll(State)
           x == AddedAll(st.sl)
<1>1. /\ BatchTyped /\ mpc = "take" /\ Alone(mem) /\ i = 0
      /\ State \in SlotsAndMemory /\ State.sl = slot /\ State.m = mem
      /\ \A s \in Slots : /\ slot[s] \in SlotRec /\ Sized(slot[s], mix) /\ slot[s].prompt \in Nat
                          /\ slot[s].parent = 0 /\ Holds(slot[s], Positions(mem, s), {}, mix)
                          /\ slot[s].state # "done"
  BY SoundFacts, NothingDue DEF Begin
<1>2. /\ slot' = x.sl /\ mem' = st.m /\ batch' = x.b /\ cur' = 1 /\ mpc' = "prompts" /\ err' = "none"
      /\ lead' = (IF x.b = <<>> THEN 0 ELSE x.b[1].slot) /\ UNCHANGED <<mix, i, nb>>
  BY DEF Begin, ShiftedAll, AddedAll
<1>3. st \in SlotsAndMemory /\ Shifted(State, st, Slots)
  BY <1>1, ShiftedAllIs
<1> HIDE DEF st
<1>4. st.sl \in [Slots -> SlotRec] /\ st.m \in Memory
  BY <1>3 DEF SlotsAndMemory
<1>5. x \in SlotsAndBatch /\ Added(st.sl, x, Slots)
  BY <1>4, AddedAllIs
<1> HIDE DEF x
<1>6. x.sl \in [Slots -> SlotRec] /\ x.b \in Seq(Token) /\ Len(x.b) \in Nat
  BY <1>5 DEF SlotsAndBatch
<1>7. Alone(st.m) /\ \A r \in Slots : Refitted(slot[r], st.sl[r], Positions(mem, r), Positions(st.m, r))
  <2>1. RefittedIn(State, st, Slots)
    BY <1>3 DEF Shifted
  <2> QED BY <1>1, <2>1 DEF RefittedIn
<1>8. Len(x.b) <= NSlots
  <2>1. \A j, k \in 1..Len(x.b) : j # k => x.b[j].slot # x.b[k].slot
    BY <1>5 DEF Added
  <2> QED BY <1>6, <2>1, AddedShort
<1>9. NSlots \in Nat /\ Wide \in Nat /\ Wide >= NSlots /\ Top(mix) \in Nat /\ Top(mix) >= mix.cells
      /\ mix.cells \in Nat
  BY <1>1, TopFacts
\* A slot after the shifts: with room for a token where it generates.
<1>10. ASSUME NEW r \in Slots
       PROVE  \/ st.sl[r].state # "gen" /\ Sized(st.sl[r], mix) /\ Holds(st.sl[r], Positions(st.m, r), {}, mix)
              \/ /\ st.sl[r].state = "gen" /\ slot[r].state = "gen"
                 /\ st.sl[r] = [slot[r] EXCEPT !.prompt = st.sl[r].prompt]
                 /\ st.sl[r].prompt \in Nat /\ st.sl[r].prompt + 1 < mix.cells
                 /\ Span(Positions(st.m, r), 0, st.sl[r].prompt)
  <2> DEFINE y == st.sl[r]
             Q == Positions(st.m, r)
             P == Positions(mem, r)
  <2>1. /\ y \in SlotRec /\ slot[r] \in SlotRec /\ Sized(slot[r], mix) /\ slot[r].prompt \in Nat
        /\ Refitted(slot[r], y, P, Q)
        /\ Span(P, 0, slot[r].prompt) \/ (Stale(slot[r]) /\ P \subseteq 0..Top(mix) - 1)
    BY <1>1, <1>4, <1>7, HoldsAll
  <2>2. slot[r].state = "gen" => Span(P, 0, slot[r].prompt) /\ slot[r].prompt \in 1..mix.cells - 1
    BY <1>9, <2>1 DEF Sized, Stale
  <2> HIDE DEF y, Q, P
  <2> SUFFICES \/ y.state # "gen" /\ Sized(y, mix) /\ Holds(y, Q, {}, mix)
               \/ /\ y.state = "gen" /\ slot[r].state = "gen" /\ y = [slot[r] EXCEPT !.prompt = y.prompt]
                  /\ y.prompt \in Nat /\ y.prompt + 1 < mix.cells /\ Span(Q, 0, y.prompt)
    BY DEF y, Q
  <2>3. CASE y = slot[r] /\ Q = P /\ (slot[r].state = "gen" => slot[r].prompt + 1 < mix.cells)
    <3>1. [slot[r] EXCEPT !.prompt = slot[r].prompt] = slot[r]
      BY <2>1 DEF SlotRec
    <3>2. CASE slot[r].state = "gen"
      BY <2>1, <2>2, <2>3, <3>1, <3>2
    <3>3. CASE slot[r].state # "gen"
      BY <2>1, <2>3, <3>3, HoldsAll
    <3> QED BY <3>2, <3>3
  <2>4. CASE y = FreeSlot(slot[r], slot[r].prompt) /\ Q = P
    <3>1. /\ Sized(y, mix) /\ y.state = "idle" /\ y.prompt = slot[r].prompt
          /\ Stale(slot[r]) => Stale(y)
      BY <1>1, <2>1, <2>4, FreeSized
    <3>2. Holds(y, Q, {}, mix)
      BY <2>1, <2>4, <3>1, HoldsAll
    <3> QED BY <3>1, <3>2
  <2>5. CASE /\ slot[r].state = "gen" /\ y = [slot[r] EXCEPT !.prompt = y.prompt]
             /\ slot[r].prompt \in 1..mix.cells - 1 /\ P = 0..slot[r].prompt - 1
                  => y.prompt \in Nat /\ y.prompt + 1 < mix.cells /\ Q = 0..y.prompt - 1
    <3>1. P = 0..slot[r].prompt - 1
      BY <2>1, <2>2, <2>5, SpanIs
    <3>2. y.prompt \in Nat /\ y.prompt + 1 < mix.cells /\ Q = 0..y.prompt - 1
      BY <2>2, <2>5, <3>1
    <3>3. Span(Q, 0, y.prompt)
      BY <3>2, SpanIs
    <3>4. y.state = "gen"
      BY <2>1, <2>5 DEF SlotRec
    <3> QED BY <2>5, <3>2, <3>3, <3>4
  <2> QED BY <2>1, <2>3, <2>4, <2>5 DEF Refitted
\* ... and with that token in the batch.
<1>11. ASSUME NEW r \in Slots, st.sl[r].state = "gen"
       PROVE  /\ Sized(x.sl[r], mix) /\ x.sl[r].state = "gen"
              /\ Holds(x.sl[r], Positions(st.m, r), RestOf(x.b, 0, r), mix)
  <2> DEFINE y == st.sl[r]
             z == x.sl[r]
             Q == Positions(st.m, r)
             R == RestOf(x.b, 0, r)
  <2>1. PICK k \in 1..Len(x.b) : /\ z = [y EXCEPT !.prompt = @ + 1, !.ibatch = k - 1]
                                 /\ x.b[k] = [slot |-> r, pos |-> y.prompt]
    BY <1>5, <1>11 DEF Added
  <2>2. /\ y = [slot[r] EXCEPT !.prompt = y.prompt] /\ y.prompt \in Nat /\ y.prompt + 1 < mix.cells
        /\ Span(Q, 0, y.prompt) /\ y \in SlotRec /\ slot[r] \in SlotRec /\ Sized(slot[r], mix)
        /\ slot[r].state = "gen" /\ y.state = "gen"
    BY <1>1, <1>4, <1>10, <1>11
  <2>3. \A j \in 1..Len(x.b) : x.b[j].slot = r => x.b[j].pos = y.prompt
    BY <1>5 DEF Added
  <2>4. R = {y.prompt}
    <3>1. \A j \in 0 + 1..Len(x.b) : x.b[j].slot = r => x.b[j].pos = y.prompt
      BY <2>3
    <3>2. k \in 0 + 1..Len(x.b) /\ x.b[k].slot = r /\ x.b[k].pos = y.prompt
      BY <2>1
    <3> HIDE DEF y
    <3> QED BY <3>1, <3>2 DEF RestOf
  <2> HIDE DEF y, z, Q, R
  <2>5. /\ z.prompt = y.prompt + 1 /\ z.ibatch = k - 1 /\ z.state = "gen" /\ z.kind = slot[r].kind
        /\ z.parent = slot[r].parent /\ z.len = slot[r].len /\ z.decoded = slot[r].decoded
    BY <2>1, <2>2 DEF SlotRec
  <2>6. z.ibatch \in -1..Wide - 1 /\ z.prompt \in 0..Top(mix)
    BY <1>6, <1>8, <1>9, <2>2, <2>5
  <2>7. Sized(z, mix)
    BY <1>9, <2>2, <2>5, <2>6 DEF Sized
  <2>8. Span(R, y.prompt, z.prompt) /\ y.prompt \in 0..z.prompt
    BY <2>2, <2>4, <2>5 DEF Span
  <2>9. Holds(z, Q, R, mix)
    BY <2>2, <2>8 DEF Holds
  <2> QED BY <2>5, <2>7, <2>9 DEF z, Q, R
<1>12. ASSUME NEW r \in Slots, st.sl[r].state # "gen"
       PROVE  Sized(x.sl[r], mix) /\ Holds(x.sl[r], Positions(st.m, r), RestOf(x.b, 0, r), mix)
  <2>1. x.sl[r] = st.sl[r]
    BY <1>5, <1>12 DEF Added
  <2>2. \A k \in 0 + 1..Len(x.b) : x.b[k].slot # r
    <3>1. \A k \in 1..Len(x.b) : st.sl[x.b[k].slot].state = "gen"
      BY <1>5 DEF Added
    <3> QED BY <1>12, <3>1
  <2>3. RestOf(x.b, 0, r) = {}
    BY <2>2, NothingInBatch
  <2> QED BY <1>10, <1>12, <2>1, <2>3
<1>13. \A r \in Slots : Sized(slot'[r], mix') /\ Holds(slot'[r], Positions(mem', r), RestOf(batch', i', r), mix')
  BY <1>1, <1>2, <1>11, <1>12
<1>14. ASSUME NEW k \in i' + 1..Len(batch') PROVE Carried(slot', batch'[k], mpc', cur')
  <2>1. k \in 1..Len(x.b) /\ batch'[k] = x.b[k]
    BY <1>1, <1>2
  <2>2. x.b[k].slot \in Slots /\ st.sl[x.b[k].slot].state = "gen"
    BY <1>5, <2>1 DEF Added
  <2> QED BY <1>2, <1>11, <2>1, <2>2 DEF Carried
<1>15. InOrder(batch', i')
  <2>1. \A j, k \in 1..Len(x.b) : j # k => x.b[j].slot # x.b[k].slot
    BY <1>5 DEF Added
  <2> QED BY <1>1, <1>2, <1>6, <2>1 DEF InOrder
<1>16. Len(batch') <= Wide' /\ cur' \in 0..NSlots /\ lead' \in 0..NSlots /\ err' \in {"none", "compute", "context"}
  <2>1. Len(batch') <= Wide'
    BY <1>2, <1>6, <1>8, <1>9 DEF Wide
  <2>2. 1 \in 0..NSlots /\ 0 \in 0..NSlots
    BY BatchAssumption
  <2>3. x.b # <<>> => x.b[1].slot \in 0..NSlots
    <3>1. x.b # <<>> => 1 \in 1..Len(x.b)
      BY <1>6
    <3>2. x.b # <<>> => x.b[1].slot \in 1..NSlots
      BY <1>6, <3>1, TokenAt DEF Slots
    <3> QED BY <1>9, <3>2
  <2> QED BY <1>2, <2>1, <2>2, <2>3
<1>17. Alone(mem')
  BY <1>2, <1>7
<1> QED BY <1>13, <1>14, <1>15, <1>16, <1>17 DEF SoundInv

\* Memory m has the first p tokens of slot s, as far as they can be asked for, and
\* of the others what they had.
Kept(m, s, p) ==
  /\ m \in Memory /\ Alone(m) /\ p \in Nat
  /\ Positions(m, s) \subseteq Int
  /\ \A q \in Int : q < p => (q \in Positions(m, s) <=> 0 <= q)
  /\ \A r \in Slots \ {s} : Positions(m, r) = Positions(mem, r)

\* The next tokens of a prompt are put into the batch.
LEMMA SoundAdd ==
  ASSUME DecidedInv, SoundInv, InTurn, NEW p, NEW m, Kept(m, cur, p), p < slot[cur].len,
         AddPrompt(cur, p, m), UNCHANGED <<mix, i, nb, err>>
  PROVE  SoundInv'
<1>1. /\ BatchTyped /\ mpc = "prompts" /\ cur \in Slots /\ i = 0 /\ batch \in Seq(Token)
      /\ slot[cur].state \in {"started", "prompt"} /\ slot[cur] \in SlotRec /\ Sized(slot[cur], mix)
      /\ p \in Int /\ Len(batch) \in Nat /\ slot[cur].len \in Nat
  BY SoundFacts, SlotFacts DEF InTurn, BatchTyped, Kept
<1>2. PICK n \in Nat : AddPromptIs(cur, p, n)
  BY <1>1, AddPromptDoes
<1>3. /\ mem' = RmFrom(m, cur, p) /\ lead' = (IF lead = 0 THEN cur ELSE lead)
      /\ (mpc' = "decode" /\ cur' = 0) \/ (mpc' = mpc /\ cur' = cur + 1 /\ cur # NSlots)
  BY DEF AddPrompt, Truncate, NextTurn
<1>4. /\ NSlots \in Nat /\ Wide \in Nat /\ Wide >= NBatch /\ Top(mix) \in Nat /\ Top(mix) >= mix.cells
      /\ Top(mix) >= NBatch /\ mix.cells \in Nat /\ NBatch \in Nat
  BY <1>1, TopFacts
\* Nothing of this slot was in the batch.
<1>5. \A k \in 1..Len(batch) : batch[k].slot \in Slots \ {cur} /\ Carried(slot, batch[k], mpc, cur)
  <2> SUFFICES ASSUME NEW k \in 1..Len(batch)
               PROVE  batch[k].slot \in Slots \ {cur} /\ Carried(slot, batch[k], mpc, cur)
    OBVIOUS
  <2>1. Carried(slot, batch[k], mpc, cur) /\ batch[k].slot \in Slots
    BY <1>1, TokenAt DEF SoundInv
  <2>2. batch[k].slot # cur
    BY <1>1, <1>4, <2>1 DEF Carried, Slots
  <2> QED BY <2>1, <2>2
<1>6. /\ Alone(mem')
      /\ Positions(mem', cur) = {q \in Positions(m, cur) : q < p}
      /\ \A r \in Slots \ {cur} : Positions(mem', r) = Positions(mem, r)
  <2>1. NowAt(m, RmFrom(m, cur, p), cur, {q \in Positions(m, cur) : q < p})
    BY <1>1, AloneRmFrom DEF Kept
  <2> QED BY <1>3, <2>1 DEF NowAt, Kept
<1>7. Span(Positions(mem', cur), 0, p)
  <2>1. \A q \in Int : q \in Positions(mem', cur) <=> 0 <= q /\ q < p
    BY <1>6 DEF Kept
  <2> QED BY <1>6, <2>1 DEF Span, Kept
<1> DEFINE y == slot'[cur]
<1>8. /\ y.prompt = p + n /\ y.len = slot[cur].len /\ y.parent = slot[cur].parent
      /\ y.kind = slot[cur].kind /\ y.decoded \in {0, slot[cur].decoded}
      /\ IF p + n = slot[cur].len THEN y.state = "done" /\ y.ibatch = Len(batch') - 1 /\ n >= 1
         ELSE y.state = "prompt" /\ y.ibatch = slot[cur].ibatch
      /\ n = 0 \/ Len(batch') <= NBatch
      /\ Len(batch') = Len(batch) + n /\ p + n <= slot[cur].len
  BY <1>2 DEF AddPromptIs
<1>9. \A r \in Slots \ {cur} : slot'[r] = slot[r]
  BY <1>2 DEF AddPromptIs
<1> HIDE DEF y
<1>10. Len(batch') <= Wide
  BY <1>1, <1>4, <1>8 DEF SoundInv
<1>11. Sized(y, mix)
  <2>1. y.decoded <= MaxDecoded
    BY <1>1, <1>8, BatchAssumption DEF Sized
  <2>2. y.ibatch \in -1..Wide - 1
    BY <1>1, <1>4, <1>8, <1>10 DEF Sized
  <2>3. y.prompt \in 0..Top(mix)
    BY <1>1, <1>4, <1>8 DEF Sized, Kept
  <2>4. y.state \in {"done", "prompt"} /\ y.prompt <= y.len /\ (y.state = "done" => y.prompt >= 1)
    BY <1>1, <1>8 DEF Kept
  <2> QED BY <1>1, <1>8, <2>1, <2>2, <2>3, <2>4 DEF Sized
<1> DEFINE old(k) == k \in 1..Len(batch) /\ batch'[k] = batch[k] /\ batch'[k].slot # cur
           new(k) == k > Len(batch) /\ batch'[k].slot = cur /\ batch'[k].pos = p + (k - Len(batch)) - 1
<1>12. /\ \A k \in 1..Len(batch') : old(k) \/ new(k)
       /\ \A k \in 1..Len(batch) : old(k)
  <2>1. \A k \in 1..Len(batch) : old(k)
    BY <1>2, <1>5 DEF AddPromptIs
  <2>2. ASSUME NEW k \in 1..Len(batch'), k \notin 1..Len(batch) PROVE new(k)
    <3>1. k - Len(batch) \in 1..n /\ Len(batch) + (k - Len(batch)) = k /\ k > Len(batch)
      BY <1>1, <1>8, <2>2
    <3>2. batch'[Len(batch) + (k - Len(batch))] = [slot |-> cur, pos |-> p + (k - Len(batch)) - 1]
      BY <1>2, <3>1 DEF AddPromptIs
    <3>3. batch'[k] = [slot |-> cur, pos |-> p + (k - Len(batch)) - 1]
      BY <3>1, <3>2
    <3> QED BY <3>1, <3>3
  <2> HIDE DEF old, new
  <2> QED BY <2>1, <2>2
<1>13. RestOf(batch', 0, cur) = p..p + n - 1
  <2>1. \A q \in p..p + n - 1 :
          LET k == Len(batch) + (q - p + 1)
          IN  k \in 0 + 1..Len(batch') /\ batch'[k].slot = cur /\ batch'[k].pos = q
    <3> SUFFICES ASSUME NEW q \in p..p + n - 1
                 PROVE  /\ Len(batch) + (q - p + 1) \in 0 + 1..Len(batch')
                        /\ batch'[Len(batch) + (q - p + 1)].slot = cur
                        /\ batch'[Len(batch) + (q - p + 1)].pos = q
      OBVIOUS
    <3> DEFINE k == Len(batch) + (q - p + 1)
    <3>1. k \in 1..Len(batch') /\ k > Len(batch) /\ p + (k - Len(batch)) - 1 = q
      BY <1>1, <1>8
    <3> HIDE DEF k
    <3>2. new(k)
      <4>1. ~old(k)
        BY <1>1, <3>1
      <4> HIDE DEF old, new
      <4> QED BY <1>12, <3>1, <4>1
    <3>3. k \in 0 + 1..Len(batch') /\ batch'[k].slot = cur /\ batch'[k].pos = q
      BY <3>1, <3>2
    <3> QED BY <3>3 DEF k
  <2>2. \A k \in 0 + 1..Len(batch') : batch'[k].slot = cur => batch'[k].pos \in p..p + n - 1
    <3> SUFFICES ASSUME NEW k \in 1..Len(batch'), batch'[k].slot = cur
                 PROVE  batch'[k].pos \in p..p + n - 1
      OBVIOUS
    <3>1. new(k)
      BY <1>12
    <3> QED BY <1>1, <1>8, <3>1
  <2> DEFINE I == p..p + n - 1
  <2> HIDE DEF I
  <2>3. \A q \in I : \E k \in 0 + 1..Len(batch') : batch'[k].slot = cur /\ batch'[k].pos = q
    BY <2>1 DEF I
  <2>4. RestOf(batch', 0, cur) = I
    BY <2>2, <2>3 DEF RestOf, I
  <2> QED BY <2>4 DEF I
<1>14. ASSUME NEW r \in Slots \ {cur} PROVE RestOf(batch', 0, r) = RestOf(batch, 0, r)
  <2>1. ASSUME NEW k \in 1..Len(batch'), batch'[k].slot = r
        PROVE  k \in 1..Len(batch) /\ batch'[k] = batch[k]
    <3>1. ~new(k)
      BY <2>1
    <3>2. old(k)
      <4> HIDE DEF old, new
      <4> QED BY <1>12, <3>1
    <3> QED BY <3>2
  <2>2. \A k \in 0 + 1..Len(batch) : k \in 0 + 1..Len(batch') /\ batch'[k] = batch[k]
    BY <1>1, <1>2, <1>8 DEF AddPromptIs
  <2>3. {k \in 0 + 1..Len(batch') : batch'[k].slot = r} = {k \in 0 + 1..Len(batch) : batch[k].slot = r}
    BY <2>1, <2>2
  <2> QED BY <2>1, <2>2 DEF RestOf
<1>15. Holds(y, Positions(mem', cur), RestOf(batch', 0, cur), mix)
  <2>1. p \in 0..y.prompt /\ p \in Int /\ y.prompt \in Int /\ y.prompt - 1 = p + n - 1
    BY <1>1, <1>8 DEF Kept
  <2>2. Span(RestOf(batch', 0, cur), p, y.prompt)
    BY <1>13, <2>1, SpanIs
  <2> QED BY <1>7, <2>1, <2>2 DEF Holds
<1>16. \A r \in Slots : Sized(slot'[r], mix') /\ Holds(slot'[r], Positions(mem', r), RestOf(batch', i', r), mix')
  <2> SUFFICES ASSUME NEW r \in Slots
               PROVE  Sized(slot'[r], mix) /\ Holds(slot'[r], Positions(mem', r), RestOf(batch', 0, r), mix)
    BY <1>1
  <2>1. CASE r = cur
    BY <1>11, <1>15, <2>1 DEF y
  <2>2. CASE r # cur
    <3>1. Sized(slot[r], mix) /\ Holds(slot[r], Positions(mem, r), RestOf(batch, 0, r), mix)
      BY <1>1 DEF SoundInv
    <3> QED BY <1>6, <1>9, <1>14, <2>2, <3>1
  <2> QED BY <2>1, <2>2
<1>17. ASSUME NEW k \in i' + 1..Len(batch') PROVE Carried(slot', batch'[k], mpc', cur')
  <2>1. k \in 1..Len(batch') /\ cur \in Int
    BY <1>1 DEF Slots
  <2>2. CASE old(k)
    <3>1. batch[k].slot \in Slots \ {cur} /\ Carried(slot, batch[k], mpc, cur) /\ batch[k].slot \in Int
      BY <1>5, <2>2 DEF Slots
    <3> QED BY <1>1, <1>3, <1>9, <2>1, <2>2, <3>1 DEF Carried
  <2>3. CASE new(k)
    <3>1. y.state \in {"done", "prompt"}
      BY <1>8
    <3> QED BY <1>1, <1>3, <2>1, <2>3, <3>1 DEF Carried, y
  <2> HIDE DEF old, new
  <2> QED BY <1>12, <2>1, <2>2, <2>3
<1>18. InOrder(batch', i')
  <2> SUFFICES ASSUME NEW j \in 1..Len(batch'), NEW k \in 1..Len(batch'), j < k, batch'[j].slot = batch'[k].slot
               PROVE  batch'[j].pos < batch'[k].pos
    BY <1>1 DEF InOrder
  <2>1. (old(j) \/ new(j)) /\ (old(k) \/ new(k))
    <3> HIDE DEF old, new
    <3> QED BY <1>12
  <2>2. CASE new(j) /\ new(k)
    BY <1>1, <2>2
  <2>3. CASE old(j) /\ old(k)
    <3>1. InOrder(batch, 0)
      BY <1>1 DEF SoundInv
    <3> QED BY <2>3, <3>1 DEF InOrder
  <2> QED BY <2>1, <2>2, <2>3
<1>19. cur' \in 0..NSlots /\ lead' \in 0..NSlots /\ err' \in {"none", "compute", "context"}
  <2>1. cur \in 1..NSlots /\ lead \in 0..NSlots /\ err \in {"none", "compute", "context"}
    BY <1>1 DEF SoundInv, Slots
  <2> QED BY <1>3, <1>4, <2>1
<1>20. Wide' = Wide
  BY DEF Wide
<1> QED BY <1>6, <1>10, <1>16, <1>17, <1>18, <1>19, <1>20 DEF SoundInv

\* A part of the prompt that is in the memory, with nothing of it in the batch.
LEMMA KeptPart ==
  ASSUME DecidedInv, SoundInv, NEW s \in Slots, RestOf(batch, i, s) = {}, NEW k \in 0..slot[s].prompt
  PROVE  Kept(mem, s, k)
<1>1. /\ BatchTyped /\ Alone(mem) /\ mem \in Memory /\ slot[s].prompt \in Nat
      /\ Holds(slot[s], Positions(mem, s), {}, mix) /\ Positions(mem, s) \subseteq 0..Top(mix) - 1
  BY SoundFacts
<1>2. Span(Positions(mem, s), 0, slot[s].prompt) \/ (slot[s].prompt = 0 /\ Positions(mem, s) \subseteq 0..Top(mix) - 1)
  BY <1>1, HoldsAll DEF Stale
<1>3. \A q \in Positions(mem, s) : q \in Int /\ 0 <= q
  BY <1>1, TopFacts
<1>4. \A q \in Int : q < k => (q \in Positions(mem, s) <=> 0 <= q)
  BY <1>1, <1>2, <1>3 DEF Span
<1>5. k \in Nat
  BY <1>1
<1> QED BY <1>1, <1>3, <1>4, <1>5 DEF Kept

\* What reuse finds in the memory of slot s: of the r3 tokens from r2 on, moved up
\* to r1, all are there.
LEMMA KeptReuse ==
  ASSUME DecidedInv, SoundInv, NEW s \in Slots, RestOf(batch, i, s) = {},
         NEW r1 \in Nat, NEW r2 \in Nat, NEW r3 \in Nat, r1 < r2, r3 >= 1, r2 + r3 <= slot[s].prompt
  PROVE  Kept(Shift(Rm(mem, s, r1, r2), s, r2, r2 + r3, r1 - r2), s, r1 + r3)
<1> DEFINE P == Positions(mem, s)
           m == Rm(mem, s, r1, r2)
           n == Shift(m, s, r2, r2 + r3, r1 - r2)
<1>1. /\ BatchTyped /\ Alone(mem) /\ mem \in Memory /\ slot[s].prompt \in Nat
      /\ Holds(slot[s], P, {}, mix)
  BY SoundFacts
<1>2. Span(P, 0, slot[s].prompt)
  BY <1>1, HoldsAll DEF Stale
<1>3. NowAt(mem, m, s, {p \in P : ~(r1 <= p /\ p < r2)})
  <2>1. r1 \in Int /\ r2 \in Int
    OBVIOUS
  <2> QED BY <1>1, <2>1, AloneRm
<1> HIDE DEF m
<1>4. NowAt(m, n, s, MovedBy(Positions(m, s), r2, r2 + r3, r1 - r2))
  <2>1. r2 \in Int /\ r2 + r3 \in Int /\ r1 - r2 \in Int
    OBVIOUS
  <2>2. m \in Memory /\ Alone(m)
    BY <1>3 DEF NowAt
  <2> QED BY <2>1, <2>2, AloneShift
<1> HIDE DEF n
<1>5. /\ n \in Memory /\ Alone(n) /\ Positions(n, s) = MovedBy(Positions(m, s), r2, r2 + r3, r1 - r2)
      /\ \A r \in Slots \ {s} : Positions(n, r) = Positions(mem, r)
  BY <1>3, <1>4 DEF NowAt
<1>6. \A p \in Int : p \in Positions(m, s) <=> 0 <= p /\ p < slot[s].prompt /\ ~(r1 <= p /\ p < r2)
  BY <1>2, <1>3 DEF NowAt, Span
<1>7. Positions(n, s) \subseteq Int
  BY <1>5 DEF MovedBy
<1>8. ASSUME NEW q \in Int, q < r1 + r3 PROVE q \in Positions(n, s) <=> 0 <= q
  <2> DEFINE t == q - (r1 - r2)
  <2>1. t \in Int /\ t = q + r2 - r1
    OBVIOUS
  <2>2. q \in Positions(n, s) <=> \/ q \in Positions(m, s) /\ ~(r2 <= q /\ q < r2 + r3)
                                  \/ t \in Positions(m, s) /\ r2 <= t /\ t < r2 + r3 /\ q >= 0
    BY <1>5 DEF MovedBy
  <2> HIDE DEF t
  <2>3. q \in Positions(m, s) <=> 0 <= q /\ q < slot[s].prompt /\ ~(r1 <= q /\ q < r2)
    BY <1>6
  <2>4. t \in Positions(m, s) <=> 0 <= t /\ t < slot[s].prompt /\ ~(r1 <= t /\ t < r2)
    BY <1>6, <2>1
  <2>5. CASE q < r1
    BY <1>1, <1>8, <2>1, <2>2, <2>3, <2>4, <2>5
  <2>6. CASE q >= r1
    BY <1>1, <1>8, <2>1, <2>2, <2>3, <2>4, <2>6
  <2> QED BY <2>5, <2>6
<1> QED BY <1>5, <1>7, <1>8 DEF Kept, n, m

LEMMA CachedKept ==
  ASSUME DecidedInv, SoundInv, NEW s \in Slots, slot[s].state = "started", slot[s].len > 0,
         NEW c, c \in (IF CanSplit(s) THEN Cached(s) ELSE {[nPast |-> 0, m |-> mem]})
  PROVE  Kept(c.m, s, c.nPast)
<1>1. BatchTyped /\ slot[s].prompt \in Nat /\ RestOf(batch, i, s) = {} /\ slot[s].len \in Nat
      /\ mix.cells \in Nat
  BY SoundFacts, SlotFacts
<1>2. CASE c = [nPast |-> 0, m |-> mem]
  <2>1. 0 \in 0..slot[s].prompt
    BY <1>1
  <2> QED BY <1>1, <1>2, <2>1, KeptPart
<1>3. CASE c \in {[nPast |-> k, m |-> mem] : k \in 0..Min({slot[s].prompt, slot[s].len})}
  <2>1. PICK k \in 0..Min({slot[s].prompt, slot[s].len}) : c = [nPast |-> k, m |-> mem]
    BY <1>3
  <2>2. Min({slot[s].prompt, slot[s].len}) \in {slot[s].prompt, slot[s].len}
        /\ Min({slot[s].prompt, slot[s].len}) <= slot[s].prompt
    <3>1. slot[s].prompt \in Int /\ slot[s].len \in Int
      BY <1>1
    <3> QED BY <3>1, LeastOfTwo
  <2>3. k \in 0..slot[s].prompt
    <3> DEFINE M == Min({slot[s].prompt, slot[s].len})
    <3> HIDE DEF M
    <3>1. k \in 0..M /\ M \in {slot[s].prompt, slot[s].len} /\ M <= slot[s].prompt
      BY <2>1, <2>2 DEF M
    <3> QED BY <1>1, <3>1
  <2> QED BY <1>1, <2>1, <2>3, KeptPart
<1>4. CASE c \in Cached(s) /\ c \notin {[nPast |-> k, m |-> mem] : k \in 0..Min({slot[s].prompt, slot[s].len})}
  <2>1. PICK r \in (0..mix.cells) \X (1..mix.cells) \X (1..mix.cells) :
          /\ r[1] < r[2] /\ r[2] + r[3] <= slot[s].prompt
          /\ c = [nPast |-> r[1] + r[3],
                  m |-> Shift(Rm(mem, s, r[1], r[2]), s, r[2], r[2] + r[3], r[1] - r[2])]
    BY <1>4 DEF Cached
  <2>2. r[1] \in Nat /\ r[2] \in Nat /\ r[3] \in Nat /\ r[3] >= 1
    BY <1>1, <2>1
  <2>3. Kept(Shift(Rm(mem, s, r[1], r[2]), s, r[2], r[2] + r[3], r[1] - r[2]), s, r[1] + r[3])
    BY <1>1, <2>1, <2>2, KeptReuse
  <2> QED BY <2>1, <2>3
<1> QED BY <1>2, <1>3, <1>4

LEMMA LessKept == ASSUME NEW m, NEW s, NEW p, NEW q \in Nat, q <= p, Kept(m, s, p) PROVE Kept(m, s, q)
BY DEF Kept

\* The prompt waits for the next batch.
LEMMA SoundWait ==
  ASSUME DecidedInv, SoundInv, InTurn, NextTurn(cur = NSlots), UNCHANGED <<mix, i, nb, err, mem, lead, batch>>,
         NEW q \in Nat, slot' = [slot EXCEPT ![cur].state = "prompt", ![cur].prompt = q],
         q < slot[cur].len,
         slot[cur].state = "started" => q = 0 /\ slot[cur].kind = "embd",
         slot[cur].state = "prompt" => q = slot[cur].prompt
  PROVE  SoundInv'
<1> DEFINE y == [slot[cur] EXCEPT !.state = "prompt", !.prompt = q]
<1>1. /\ BatchTyped /\ mpc = "prompts" /\ cur \in Slots /\ i = 0 /\ slot[cur] \in SlotRec
      /\ slot[cur].state \in {"started", "prompt"} /\ Sized(slot[cur], mix) /\ slot \in [Slots -> SlotRec]
      /\ slot[cur].len \in Nat /\ Positions(mem, cur) \subseteq 0..Top(mix) - 1
      /\ Holds(slot[cur], Positions(mem, cur), RestOf(batch, i, cur), mix)
  BY SoundFacts, SlotFacts DEF InTurn, BatchTyped
<1>2. /\ y.state = "prompt" /\ y.prompt = q /\ y.kind = slot[cur].kind /\ y.parent = slot[cur].parent
      /\ y.len = slot[cur].len /\ y.decoded = slot[cur].decoded /\ y.ibatch = slot[cur].ibatch
  BY <1>1 DEF SlotRec
<1>3. slot' = [slot EXCEPT ![cur] = y]
  BY <1>1
<1> HIDE DEF y
<1>4. Sized(y, mix)
  <2>1. Top(mix) \in Nat /\ Top(mix) >= mix.cells /\ Top(mix) >= NBatch /\ mix.cells \in Nat /\ NBatch \in Nat
    BY <1>1, TopFacts
  <2>2. q \in 0..Top(mix)
    BY <1>1, <2>1 DEF Sized
  <2> QED BY <1>1, <1>2, <2>2 DEF Sized
<1>5. Holds(y, Positions(mem, cur), RestOf(batch, i, cur), mix)
  <2>1. CASE slot[cur].state = "prompt"
    <3>1. y.prompt = slot[cur].prompt /\ (Stale(slot[cur]) => Stale(y))
      BY <1>2, <2>1 DEF Stale
    <3> QED BY <1>1, <3>1, StillHolds
  <2>2. CASE slot[cur].state = "started"
    <3>1. RestOf(batch, i, cur) = {} /\ Stale(y) /\ y.prompt \in Nat
      BY <1>1, <1>2, <2>2, SoundFacts DEF Stale
    <3> QED BY <1>1, <3>1, HoldsAll
  <2> QED BY <1>1, <2>1, <2>2
<1>6. \A r \in Slots : slot'[r] = IF r = cur THEN y ELSE slot[r]
  BY <1>1, <1>3
<1>7. \A r \in Slots : Sized(slot'[r], mix') /\ Holds(slot'[r], Positions(mem', r), RestOf(batch', i', r), mix')
  BY <1>1, <1>4, <1>5, <1>6 DEF SoundInv
<1>8. (mpc' = "decode" /\ cur' = 0) \/ (mpc' = mpc /\ cur' = cur + 1 /\ cur # NSlots)
  BY DEF NextTurn
<1>9. cur \in Int /\ NSlots \in Nat /\ cur >= 1 /\ cur <= NSlots
  BY <1>1, TopFacts DEF Slots
<1>10. ASSUME NEW k \in i' + 1..Len(batch') PROVE Carried(slot', batch'[k], mpc', cur')
  <2>1. k \in 1..Len(batch) /\ Carried(slot, batch[k], mpc, cur) /\ batch[k].slot \in Slots
    <3>1. k \in i + 1..Len(batch) /\ k \in 1..Len(batch) /\ batch \in Seq(Token)
      BY <1>1 DEF BatchTyped
    <3> QED BY <3>1, TokenAt DEF SoundInv
  <2>2. batch[k].slot \in Int
    BY <2>1 DEF Slots
  <2>3. CASE batch[k].slot = cur
    BY <1>1, <1>2, <1>6, <1>8, <1>9, <2>1, <2>3 DEF Carried
  <2>4. CASE batch[k].slot # cur
    BY <1>1, <1>6, <1>8, <1>9, <2>1, <2>2, <2>4 DEF Carried
  <2> QED BY <2>3, <2>4
<1>11. cur' \in 0..NSlots
  BY <1>8, <1>9
<1> QED BY <1>7, <1>10, <1>11 DEF SoundInv, InOrder, Wide

LEMMA SoundStart == ASSUME DecidedInv, SoundInv, StartPrompt PROVE SoundInv'
<1>1. BatchTyped /\ mpc = "prompts" /\ cur \in Slots /\ InTurn /\ slot[cur].state = "started"
      /\ UNCHANGED <<mix, i, nb, err>> /\ slot[cur].prompt \in Nat
  BY SoundFacts DEF StartPrompt, InTurn, BatchTyped
<1>2. slot[cur].len > 0
  BY <1>1 DEF DecidedInv, Unfinished
<1>3. PICK c \in (IF CanSplit(cur) THEN Cached(cur) ELSE {[nPast |-> 0, m |-> mem]}) :
        IF Fits(cur) THEN AddPrompt(cur, NPast(cur, c), c.m)
        ELSE /\ slot' = [slot EXCEPT ![cur].state = "prompt", ![cur].prompt = NPast(cur, c)]
             /\ NextTurn(cur = NSlots)
             /\ UNCHANGED <<mem, lead, batch>>
  BY DEF StartPrompt
<1>4. NPast(cur, c) \in Nat /\ NPast(cur, c) < slot[cur].len /\ NPast(cur, c) <= c.nPast
  <2>1. NPast(cur, c) \in Int /\ NPast(cur, c) < slot[cur].len /\ NPast(cur, c) >= 0
    BY <1>1, <1>2, NPastIs
  <2>2. c.nPast \in Nat /\ slot[cur].len \in Nat
    BY <1>1, <1>2, NPastLess, SlotFacts
  <2> DEFINE n == IF c.nPast > 0 /\ PosMin(c.m, cur) >= Max({0, c.nPast - 1}) THEN 0 ELSE c.nPast
  <2>3. NPast(cur, c) = (IF n = slot[cur].len THEN n - 1 ELSE n) /\ n \in {0, c.nPast}
    BY DEF NPast
  <2> HIDE DEF n
  <2> QED BY <1>2, <2>1, <2>2, <2>3
<1>5. Kept(c.m, cur, NPast(cur, c))
  BY <1>1, <1>2, <1>4, CachedKept, LessKept
<1>6. CASE Fits(cur)
  BY <1>1, <1>3, <1>4, <1>5, <1>6, SoundAdd
<1>7. CASE ~Fits(cur)
  <2>1. slot[cur].kind = "embd" /\ c.nPast = 0
    BY <1>3, <1>7 DEF Fits, CanSplit
  <2>2. NPast(cur, c) = 0
    BY <1>4, <2>1
  <2> QED BY <1>1, <1>3, <1>4, <1>7, <2>1, <2>2, SoundWait
<1> QED BY <1>6, <1>7

LEMMA SoundContinue == ASSUME DecidedInv, SoundInv, ContinuePrompt PROVE SoundInv'
<1>1. BatchTyped /\ mpc = "prompts" /\ cur \in Slots /\ InTurn /\ slot[cur].state = "prompt"
      /\ UNCHANGED <<mix, i, nb, err>> /\ slot[cur].prompt \in Nat /\ slot[cur] \in SlotRec
      /\ slot \in [Slots -> SlotRec] /\ i = 0
  BY SoundFacts DEF ContinuePrompt, InTurn, BatchTyped
<1>2. slot[cur].prompt < slot[cur].len
  BY <1>1 DEF DecidedInv, Unfinished
<1>3. RestOf(batch, i, cur) = {}
  <2>1. \A k \in i + 1..Len(batch) : Carried(slot, batch[k], mpc, cur)
    BY DEF SoundInv
  <2>2. \A k \in i + 1..Len(batch) : batch[k].slot # cur
    BY <1>1, <2>1 DEF Carried, Slots
  <2> QED BY <2>2, NothingInBatch
<1>4. Kept(mem, cur, slot[cur].prompt)
  BY <1>1, <1>3, KeptPart
<1>5. CASE Fits(cur)
  BY <1>1, <1>2, <1>4, <1>5, SoundAdd DEF ContinuePrompt
<1>6. CASE ~Fits(cur)
  <2>1. NextTurn(cur = NSlots) /\ UNCHANGED <<slot, mem, lead, batch>>
    BY <1>6 DEF ContinuePrompt
  <2>2. slot = [slot EXCEPT ![cur].state = "prompt", ![cur].prompt = slot[cur].prompt]
    <3>1. [slot[cur] EXCEPT !.state = "prompt", !.prompt = slot[cur].prompt] = slot[cur]
      BY <1>1 DEF SlotRec
    <3> QED BY <1>1, <3>1
  <2> QED BY <1>1, <1>2, <2>1, <2>2, SoundWait
<1> QED BY <1>5, <1>6

LEMMA SoundEmpty == ASSUME DecidedInv, SoundInv, EmptyBatch PROVE SoundInv'
<1>1. BatchTyped /\ batch = <<>> /\ EndIteration /\ UNCHANGED <<slot, mem, err>>
  BY DEF DecidedInv, EmptyBatch
<1>2. Len(batch) = 0 /\ i = 0
  BY <1>1 DEF BatchTyped
<1>3. batch' = batch /\ i' = i /\ mix' = mix /\ cur' = cur /\ lead' = 0 /\ mpc' = "take"
  BY <1>1, <1>2 DEF EndIteration
<1>4. \A s \in Slots : Sized(slot[s], mix)
  BY DEF SoundInv
<1>5. cur' \in 0..NSlots /\ lead' \in 0..NSlots
  <2>1. 0 \in 0..NSlots
    BY BatchAssumption
  <2> QED BY <1>3, <2>1 DEF SoundInv
<1> QED BY <1>1, <1>2, <1>3, <1>4, <1>5, SoundSame

\* An interval in two parts, of which one is below the other.
LEMMA SpanSplit ==
  ASSUME NEW A, NEW B, NEW f \in Int, NEW n \in Int, f <= n, Span(A \cup B, f, n),
         \A a \in A, b \in B : a < b
  PROVE  \E g \in f..n : Span(A, f, g) /\ Span(B, g, n)
<1>1. A \subseteq Int /\ B \subseteq Int
  BY DEF Span
<1>2. CASE B = {}
  <2>1. Span(A, f, n) /\ Span(B, n, n) /\ n \in f..n
    BY <1>2 DEF Span
  <2> QED BY <2>1
<1>3. CASE B # {}
  <2>1. IsFiniteSet(B)
    <3>1. B \subseteq f..n
      BY <1>1 DEF Span
    <3> QED BY <3>1, BoundedFinite
  <2> DEFINE g == Min(B)
  <2>2. g \in B /\ \A b \in B : g <= b
    BY <1>1, <1>3, <2>1, MinIs
  <2> HIDE DEF g
  <2>3. g \in Int /\ g \in f..n
    BY <1>1, <2>2 DEF Span
  <2>4. \A p \in Int : p \in A <=> f <= p /\ p < g
    <3> SUFFICES ASSUME NEW p \in Int PROVE p \in A <=> f <= p /\ p < g
      OBVIOUS
    <3>1. p \in A \/ p \in B <=> f <= p /\ p < n
      BY DEF Span
    <3>2. p \in A => p < g
      BY <2>2
    <3>3. p \in B => g <= p
      BY <2>2
    <3> QED BY <2>3, <3>1, <3>2, <3>3
  <2>5. \A p \in Int : p \in B <=> g <= p /\ p < n
    <3> SUFFICES ASSUME NEW p \in Int PROVE p \in B <=> g <= p /\ p < n
      OBVIOUS
    <3>1. p \in A \/ p \in B <=> f <= p /\ p < n
      BY DEF Span
    <3>2. p \in A => p < g
      BY <2>2
    <3>3. p \in B => g <= p
      BY <2>2
    <3> QED BY <2>3, <3>1, <3>2, <3>3
  <2> QED BY <1>1, <2>3, <2>4, <2>5 DEF Span
<1> QED BY <1>2, <1>3

\* The first tokens of a slot that are left are in the chunk, the others after it.
LEMMA ChunkFirst ==
  ASSUME DecidedInv, SoundInv, NEW s \in Slots, NEW f \in Int, NEW n \in Int, f <= n,
         Span(RestOf(batch, i, s), f, n)
  PROVE  \E g \in f..n : Span(PosOf(s), f, g) /\ Span(RestOf(batch, i + ChunkLen, s), g, n)
<1> DEFINE hi == i + ChunkLen
           A == PosOf(s)
           B == RestOf(batch, hi, s)
<1>1. /\ BatchTyped /\ hi \in Int /\ hi <= Len(batch) /\ i <= hi /\ i \in Nat /\ Len(batch) \in Nat
  BY ChunkLenIs, SlotFacts DEF DecidedInv
<1>2. \A k : InChunk(k) <=> i <= k /\ k < hi
  BY DEF InChunk
<1> HIDE DEF hi
<1>3. A = {batch[k].pos : k \in {j \in i + 1..hi : batch[j].slot = s}}
  <2>1. ASSUME NEW p \in A
        PROVE  \E k \in i + 1..hi : batch[k].slot = s /\ batch[k].pos = p
    <3>1. PICK k \in 0..Len(batch) - 1 : InChunk(k) /\ batch[k + 1].slot = s /\ batch[k + 1].pos = p
      BY <2>1 DEF PosOf, Chunk
    <3>2. k + 1 \in i + 1..hi
      BY <1>1, <1>2, <3>1
    <3> QED BY <3>1, <3>2
  <2>2. ASSUME NEW k \in i + 1..hi, batch[k].slot = s PROVE batch[k].pos \in A
    <3>1. k - 1 \in 0..Len(batch) - 1 /\ InChunk(k - 1) /\ (k - 1) + 1 = k
      BY <1>1, <1>2
    <3>2. batch[(k - 1) + 1] \in Chunk
      BY <3>1 DEF Chunk
    <3>3. batch[k] \in Chunk
      BY <3>1, <3>2
    <3> QED BY <2>2, <3>3 DEF PosOf
  <2> HIDE DEF A
  <2> QED BY <2>1, <2>2
<1>4. A \cup B = RestOf(batch, i, s)
  <2>1. \A k : k \in i + 1..Len(batch) <=> k \in i + 1..hi \/ k \in hi + 1..Len(batch)
    BY <1>1
  <2> HIDE DEF A
  <2> QED BY <1>3, <2>1 DEF RestOf
<1>5. \A a \in A, b \in B : a < b
  <2> SUFFICES ASSUME NEW a \in A, NEW b \in B PROVE a < b
    OBVIOUS
  <2>1. PICK j \in i + 1..hi : batch[j].slot = s /\ batch[j].pos = a
    BY <1>3
  <2>2. PICK k \in hi + 1..Len(batch) : batch[k].slot = s /\ batch[k].pos = b
    BY DEF RestOf
  <2>3. j \in i + 1..Len(batch) /\ k \in i + 1..Len(batch) /\ j < k
    BY <1>1
  <2> QED BY <2>1, <2>2, <2>3 DEF SoundInv, InOrder
<1> HIDE DEF A, B
<1>6. Span(A \cup B, f, n)
  BY <1>4
<1>7. \E g \in f..n : Span(A, f, g) /\ Span(B, g, n)
  BY <1>5, <1>6, SpanSplit
<1> QED BY <1>7 DEF A, B, hi

\* What update_slots puts into a batch goes on where the memory ends.
LEMMA NeverInvalid == ASSUME DecidedInv, SoundInv PROVE ~InvalidInput
<1> SUFFICES ASSUME NEW s \in Slots, PosOf(s) # {} PROVE Min(PosOf(s)) = PosMax(mem, s) + 1
  BY DEF InvalidInput
<1>1. /\ BatchTyped /\ mem \in Memory /\ Alone(mem) /\ slot[s].prompt \in Nat
      /\ Holds(slot[s], Positions(mem, s), RestOf(batch, i, s), mix)
  BY SoundFacts
<1>2. PICK f \in 0..slot[s].prompt :
        /\ Span(RestOf(batch, i, s), f, slot[s].prompt)
        /\ Span(Positions(mem, s), 0, f) \/ (Stale(slot[s]) /\ Positions(mem, s) \subseteq 0..Top(mix) - 1)
  BY <1>1 DEF Holds
<1>3. f \in Nat /\ slot[s].prompt \in Int /\ f <= slot[s].prompt
  BY <1>1
<1>4. PICK g \in f..slot[s].prompt : Span(PosOf(s), f, g)
  <2> DEFINE n == slot[s].prompt
  <2>1. f \in Int /\ n \in Int /\ f <= n /\ Span(RestOf(batch, i, s), f, n)
    BY <1>2, <1>3
  <2> HIDE DEF n
  <2>2. \E g \in f..n : Span(PosOf(s), f, g) /\ Span(RestOf(batch, i + ChunkLen, s), g, n)
    BY <2>1, ChunkFirst
  <2> QED BY <2>2 DEF n
<1>5. f < g /\ f \in PosOf(s) /\ PosOf(s) \subseteq f..g - 1 /\ g \in Int
  <2>1. g \in Int /\ f \in Int /\ PosOf(s) \subseteq Int
        /\ \A p \in Int : p \in PosOf(s) <=> f <= p /\ p < g
    BY <1>3, <1>4 DEF Span
  <2>2. PICK q \in Int : q \in PosOf(s)
    BY <2>1
  <2>3. f < g
    BY <2>1, <2>2
  <2>4. \A p \in PosOf(s) : p \in f..g - 1
    BY <2>1
  <2> QED BY <2>1, <2>3, <2>4
<1>6. Span(Positions(mem, s), 0, f)
  BY <1>2, <1>3, <1>5 DEF Stale
<1>7. PosMax(mem, s) = f - 1
  <2>1. Positions(mem, s) = 0..f - 1
    BY <1>3, <1>6, SpanIs
  <2> QED BY <1>1, <1>3, <2>1, WholeMemory
<1>8. Min(PosOf(s)) = f
  <2>1. PosOf(s) \subseteq Int /\ IsFiniteSet(PosOf(s))
    <3>1. PosOf(s) \subseteq f..g /\ f \in Int
      BY <1>3, <1>5
    <3> QED BY <1>5, <3>1, BoundedFinite
  <2>2. Min(PosOf(s)) \in PosOf(s) /\ \A q \in PosOf(s) : Min(PosOf(s)) <= q
    BY <1>5, <2>1, MinIs
  <2> DEFINE M == Min(PosOf(s))
  <2> HIDE DEF M
  <2>3. M \in f..g - 1 /\ M <= f
    BY <1>5, <2>2 DEF M
  <2>4. M = f
    BY <1>3, <1>5, <2>3
  <2> QED BY <2>4 DEF M
<1> QED BY <1>3, <1>7, <1>8

\* An error for everybody leaves nothing of the slots that were at work.
LEMMA SoundFail ==
  ASSUME DecidedInv, SoundInv, NEW e \in {"compute", "context"}, FailWith(e) PROVE SoundInv'
<1> DEFINE C == {s \in Slots : IsProcessing(State.sl, s)}
           u == ErrorAll(State)
<1>1. /\ BatchTyped /\ Alone(mem) /\ FromZero(mem) /\ State \in SlotsAndMemory /\ State.sl = slot /\ State.m = mem
      /\ EndIteration /\ slot' = u.sl /\ mem' = u.m /\ err' = e
  BY SoundFacts DEF FailWith, Become
<1>2. u \in SlotsAndMemory /\ Erased(State, u, C)
  BY <1>1, ErrorAllIs
<1> HIDE DEF u
<1>3. /\ batch' = <<>> /\ i' = 0 /\ Len(batch') = 0 /\ lead' = 0 /\ cur' = cur /\ mix' = mix
  BY <1>1 DEF EndIteration
<1>4. Alone(mem')
  BY <1>1, <1>2 DEF Erased, Apart
<1>5. ASSUME NEW r \in Slots
      PROVE  Sized(slot'[r], mix) /\ Holds(slot'[r], Positions(mem', r), {}, mix)
  <2>1. /\ slot[r] \in SlotRec /\ Sized(slot[r], mix) /\ slot[r].prompt \in Nat
        /\ Holds(slot[r], Positions(mem, r), RestOf(batch, i, r), mix)
        /\ slot[r].state \notin {"prompt", "done", "gen"} => RestOf(batch, i, r) = {}
    BY SoundFacts
  <2>2. CASE r \in C
    <3>1. slot'[r] = FreeSlot(slot[r], 0) /\ ~Has(mem', r)
      BY <1>1, <1>2, <2>2 DEF Erased
    <3>2. Sized(FreeSlot(slot[r], 0), mix) /\ FreeSlot(slot[r], 0).prompt = 0
      <4>1. 0 \in Int /\ 0 \in {0, slot[r].prompt}
        OBVIOUS
      <4> QED BY <1>1, <2>1, <4>1, FreeSized
    <3>3. Positions(mem', r) = {}
      BY <3>1 DEF Has, Positions, Entries
    <3>4. Span({}, 0, 0) /\ slot'[r].prompt = 0
      BY <3>1, <3>2 DEF Span
    <3>5. Holds(slot'[r], {}, {}, mix)
      BY <3>4, HoldsAll
    <3> QED BY <3>1, <3>2, <3>3, <3>5
  <2>3. CASE r \notin C
    <3>1. slot'[r] = slot[r] /\ slot[r].state = "idle"
      BY <1>1, <1>2, <2>3 DEF Erased, IsProcessing
    <3>2. Positions(mem', r) = Positions(mem, r)
      BY <1>1, <1>2, <2>3 DEF Erased, Apart
    <3> QED BY <2>1, <3>1, <3>2
  <2> QED BY <2>2, <2>3
<1>6. \A r \in Slots : RestOf(batch', i', r) = {}
  <2>1. i' + 1..Len(batch') = {}
    BY <1>3
  <2> QED BY <2>1 DEF RestOf
<1>7. Len(batch') <= Wide' /\ cur' \in 0..NSlots /\ lead' \in 0..NSlots
  <2>1. Wide \in Nat /\ 0 \in 0..NSlots
    BY <1>1, TopFacts, BatchAssumption
  <2> QED BY <1>3, <2>1 DEF SoundInv, Wide
<1>8. InOrder(batch', i') /\ \A k \in i' + 1..Len(batch') : Carried(slot', batch'[k], mpc', cur')
  <2>1. i' + 1..Len(batch') = {}
    BY <1>3
  <2> QED BY <2>1 DEF InOrder
<1> QED BY <1>1, <1>3, <1>4, <1>5, <1>6, <1>7, <1>8 DEF SoundInv

\* A slot that is purged loses its prompt and its memory.
LEMMA SoundRetry == ASSUME DecidedInv, SoundInv, Retry PROVE SoundInv'
<1>1. /\ BatchTyped /\ Alone(mem) /\ FromZero(mem) /\ slot \in [Slots -> SlotRec]
      /\ mpc = "decode" /\ UNCHANGED <<mix, mpc, cur, batch, i>> /\ UNCHANGED <<lead, err>>
  BY SoundFacts, RetryIs DEF BatchTyped, Retry
<1>2. CASE slot' = slot /\ mem' = mem
  BY <1>1, <1>2 DEF SoundInv, InOrder, Wide
<1>3. CASE \E s \in Purgeable : /\ slot' = [slot EXCEPT ![s].prompt = 0]
                                /\ (FromZero(mem) => ~Has(mem', s))
                                /\ Apart(mem, mem', {s})
  <2>1. PICK s \in Purgeable : /\ slot' = [slot EXCEPT ![s].prompt = 0]
                               /\ ~Has(mem', s) /\ Apart(mem, mem', {s})
    BY <1>1, <1>3
  <2>2. s \in Slots /\ slot[s].state = "idle"
    BY DEF Purgeable, IsProcessing
  <2> DEFINE y == [slot[s] EXCEPT !.prompt = 0]
  <2>3. /\ Sized(slot[s], mix) /\ slot[s] \in SlotRec /\ RestOf(batch, i, s) = {}
    BY <2>2, SoundFacts
  <2>4. /\ y.state = "idle" /\ y.prompt = 0 /\ y.kind = slot[s].kind /\ y.parent = slot[s].parent
        /\ y.len = slot[s].len /\ y.decoded = slot[s].decoded /\ y.ibatch = slot[s].ibatch
    BY <2>2, <2>3 DEF SlotRec
  <2>5. \A r \in Slots : slot'[r] = IF r = s THEN y ELSE slot[r]
    BY <1>1, <2>1, <2>2
  <2> HIDE DEF y
  <2>6. Sized(y, mix)
    <3>1. 0 \in 0..Top(mix)
      BY <1>1, TopFacts
    <3> QED BY <2>3, <2>4, <3>1 DEF Sized
  <2>7. Holds(y, Positions(mem', s), RestOf(batch, i, s), mix)
    <3>1. Positions(mem', s) = {}
      BY <2>1 DEF Has, Positions, Entries
    <3>2. Span({}, 0, 0)
      BY DEF Span
    <3> QED BY <2>3, <2>4, <3>1, <3>2, HoldsAll
  <2>8. Alone(mem') /\ \A r \in Slots \ {s} : Positions(mem', r) = Positions(mem, r)
    BY <1>1, <2>1 DEF Apart
  <2>9. \A r \in Slots : Sized(slot'[r], mix') /\ Holds(slot'[r], Positions(mem', r), RestOf(batch', i', r), mix')
    BY <1>1, <2>5, <2>6, <2>7, <2>8 DEF SoundInv
  <2>10. \A k \in i' + 1..Len(batch') : Carried(slot', batch'[k], mpc', cur')
    <3> SUFFICES ASSUME NEW k \in i + 1..Len(batch) PROVE Carried(slot', batch[k], mpc, cur)
      BY <1>1
    <3>1. Carried(slot, batch[k], mpc, cur) /\ batch[k].slot \in Slots
      <4>1. k \in 1..Len(batch) /\ batch \in Seq(Token)
        BY <1>1, SlotFacts DEF BatchTyped
      <4> QED BY <4>1, TokenAt DEF SoundInv
    <3>2. batch[k].slot # s
      BY <2>2, <3>1 DEF Carried
    <3> QED BY <2>5, <3>1, <3>2 DEF Carried
  <2> QED BY <1>1, <2>8, <2>9, <2>10 DEF SoundInv, InOrder, Wide
<1>4. \/ slot' = slot /\ mem' = mem
      \/ \E s \in Purgeable : /\ slot' = [slot EXCEPT ![s].prompt = 0]
                              /\ (FromZero(mem) => ~Has(mem', s))
                              /\ Apart(mem, mem', {s})
  BY <1>1, RetryIs
<1> QED BY <1>2, <1>3, <1>4

\* A chunk that is decoded is in the memory.
LEMMA DecodedPositions ==
  ASSUME BatchTyped, Alone(mem)
  PROVE  /\ Alone(Decoded)
         /\ \A s \in Slots : Positions(Decoded, s) = Positions(mem, s) \cup PosOf(s)
<1>1. \A t \in Chunk : t.slot \in Slots
  BY ChunkFinite DEF Token
<1>2. Alone(Decoded)
  BY <1>1 DEF Alone, Decoded
<1>3. ASSUME NEW s \in Slots PROVE Positions(Decoded, s) = Positions(mem, s) \cup PosOf(s)
  <2>1. ASSUME NEW p \in Positions(Decoded, s) PROVE p \in Positions(mem, s) \cup PosOf(s)
    <3>1. PICK e \in Decoded : s \in e.seqs /\ e.pos = p
      BY <2>1, AtPositions
    <3>2. CASE e \in mem
      BY <3>1, <3>2, AtPositions
    <3>3. CASE e \notin mem
      <4>1. PICK t \in Chunk : e = [pos |-> t.pos, seqs |-> {t.slot}]
        BY <3>1, <3>3 DEF Decoded
      <4> QED BY <3>1, <4>1 DEF PosOf
    <3> QED BY <3>2, <3>3
  <2>2. ASSUME NEW p \in Positions(mem, s) PROVE p \in Positions(Decoded, s)
    <3>1. PICK e \in mem : s \in e.seqs /\ e.pos = p
      BY <2>2, AtPositions
    <3>2. e \in Decoded
      BY DEF Decoded
    <3> QED BY <3>1, <3>2, AtPositions
  <2>3. ASSUME NEW p \in PosOf(s) PROVE p \in Positions(Decoded, s)
    <3>1. PICK t \in Chunk : t.slot = s /\ t.pos = p
      BY <2>3 DEF PosOf
    <3> DEFINE e == [pos |-> t.pos, seqs |-> {t.slot}]
    <3>2. e \in Decoded /\ s \in e.seqs /\ e.pos = p
      BY <3>1 DEF Decoded
    <3> HIDE DEF e
    <3> QED BY <3>2, AtPositions
  <2> QED BY <2>1, <2>2, <2>3
<1> QED BY <1>2, <1>3

\* When a slot is sampled, nothing of it is left in the batch.
LEMMA NothingLeft ==
  ASSUME DecidedInv, SoundInv, NEW s \in Slots, slot[s].state \in {"done", "gen"}, InChunk(slot[s].ibatch)
  PROVE  \A k \in i + ChunkLen + 1..Len(batch) : batch[k].slot # s
<1> DEFINE hi == i + ChunkLen
           j == slot[s].ibatch + 1
<1>1. /\ BatchTyped /\ hi \in Int /\ hi <= Len(batch) /\ i <= hi /\ i \in Nat /\ Len(batch) \in Nat
      /\ slot[s].ibatch \in Int /\ slot[s].prompt \in Nat /\ slot[s].parent = 0
      /\ Holds(slot[s], Positions(mem, s), RestOf(batch, i, s), mix)
  BY SoundFacts, ChunkLenIs, SlotFacts
<1>2. i <= slot[s].ibatch /\ slot[s].ibatch < hi
  BY DEF InChunk
<1> HIDE DEF hi
<1>3. Due(slot[s], i, Len(batch))
  BY <1>1, <1>2 DEF Due
<1>4. batch[j] = [slot |-> s, pos |-> slot[s].prompt - 1]
  BY <1>1, <1>3 DEF DecidedInv, OwnToken
<1>5. j \in i + 1..Len(batch) /\ j <= hi
  BY <1>1, <1>2
<1> HIDE DEF j
<1> SUFFICES ASSUME NEW k \in hi + 1..Len(batch), batch[k].slot = s PROVE FALSE
  BY DEF hi
<1>6. k \in i + 1..Len(batch) /\ j < k
  BY <1>1, <1>5
<1>7. slot[s].prompt - 1 < batch[k].pos
  BY <1>4, <1>5, <1>6 DEF SoundInv, InOrder
<1>8. batch[k].pos \in RestOf(batch, i, s)
  BY <1>6 DEF RestOf
<1>9. batch[k].pos \in Int /\ batch[k].pos < slot[s].prompt
  <2>1. PICK f \in 0..slot[s].prompt : Span(RestOf(batch, i, s), f, slot[s].prompt)
    BY <1>1 DEF Holds
  <2> QED BY <1>8, <2>1 DEF Span
<1> QED BY <1>1, <1>7, <1>9

LEMMA SoundChunk == ASSUME DecidedInv, SoundInv, DecodeChunk PROVE SoundInv'
<1> DEFINE hi == i + ChunkLen
<1>1. /\ BatchTyped /\ Alone(mem) /\ mem \in Memory /\ Single(slot) /\ mpc = "decode" /\ err' = err
      /\ \A s \in Slots : /\ slot[s] \in SlotRec /\ Sized(slot[s], mix) /\ slot[s].prompt \in Nat
                          /\ Holds(slot[s], Positions(mem, s), RestOf(batch, i, s), mix)
      /\ hi \in Int /\ hi <= Len(batch) /\ i <= hi /\ i \in Nat /\ Len(batch) \in Nat
  <2>1. mpc = "decode" /\ err' = err
    BY DEF DecodeChunk
  <2>2. BatchTyped
    BY SoundFacts
  <2>3. hi \in Int /\ hi <= Len(batch) /\ i <= hi /\ i \in Nat /\ Len(batch) \in Nat
    BY <2>2, ChunkLenIs, SlotFacts
  <2> HIDE DEF hi
  <2> QED BY <2>1, <2>2, <2>3, SoundFacts
<1>2. PICK x \in SlotsAndMemory : ChunkIs(x)
  BY <1>1, ChunkDoes
<1>3. \/ hi = Len(batch) /\ EndIteration
      \/ i' = hi /\ UNCHANGED <<mix, mpc, cur, lead, batch>>
  BY DEF DecodeChunk
<1>4. x.m = Decoded /\ \A r \in Slots : x.sl[r] = slot[r]
  <2> DEFINE st == [sl |-> slot, m |-> Decoded]
  <2>1. Activated(st, x) /\ st.sl = slot /\ st.m = Decoded
    BY <1>2 DEF ChunkIs
  <2> HIDE DEF st
  <2> QED BY <1>1, <2>1 DEF Activated, Single
<1>5. mem' = Decoded /\ \A r \in Slots : SampleOf(slot[r], slot'[r], Decoded, mem', r)
  <2> DEFINE u == [sl |-> slot', m |-> mem']
  <2>1. SampledTo(x, u, Slots) /\ u.sl = slot' /\ u.m = mem'
    BY <1>2 DEF ChunkIs
  <2> HIDE DEF u
  <2>2. Single(x.sl)
    BY <1>1, <1>4 DEF Single
  <2> QED BY <1>4, <2>1, <2>2 DEF SampledTo
<1>6. Alone(mem') /\ \A r \in Slots : Positions(mem', r) = Positions(mem, r) \cup PosOf(r)
  BY <1>1, <1>5, DecodedPositions
\* What is decoded goes from the batch to the memory.
<1>7. ASSUME NEW r \in Slots
      PROVE  Holds(slot[r], Positions(mem', r), RestOf(batch, hi, r), mix)
  <2> DEFINE n == slot[r].prompt
             P == Positions(mem, r)
             A == PosOf(r)
             B == RestOf(batch, hi, r)
  <2>1. PICK f \in 0..n : /\ Span(RestOf(batch, i, r), f, n)
                          /\ Span(P, 0, f) \/ (Stale(slot[r]) /\ P \subseteq 0..Top(mix) - 1)
    BY <1>1 DEF Holds
  <2>2. f \in Nat /\ n \in Int /\ f <= n
    BY <1>1
  <2>3. PICK g \in f..n : Span(A, f, g) /\ Span(B, g, n)
    <3>1. f \in Int /\ Span(RestOf(batch, i, r), f, n)
      BY <2>1, <2>2
    <3> HIDE DEF n
    <3> QED BY <2>2, <3>1, ChunkFirst
  <2>4. Positions(mem', r) = P \cup A
    BY <1>6
  <2> HIDE DEF P, A, B
  <2>5. CASE Span(P, 0, f)
    <3>1. Span(P \cup A, 0, g) /\ g \in 0..n
      BY <2>2, <2>3, <2>5 DEF Span
    <3> QED BY <2>3, <2>4, <3>1 DEF Holds, B
  <2>6. CASE Stale(slot[r]) /\ P \subseteq 0..Top(mix) - 1
    <3>1. n = 0 /\ f = 0 /\ g = 0
      BY <2>2, <2>3, <2>6 DEF Stale
    <3>2. A = {}
      BY <2>3, <3>1 DEF Span
    <3>3. P \cup A = P
      BY <3>2
    <3> QED BY <2>3, <2>4, <2>6, <3>1, <3>3 DEF Holds, B
  <2> QED BY <2>1, <2>5, <2>6
\* A slot that is sampled generates, or is released with its prompt.
<1>8. ASSUME NEW r \in Slots
      PROVE  /\ Sized(slot'[r], mix) /\ slot'[r].prompt = slot[r].prompt
             /\ Stale(slot[r]) => Stale(slot'[r])
             /\ \/ slot'[r] = slot[r]
                \/ slot'[r].state = "gen"
                \/ slot[r].state \in {"done", "gen"} /\ InChunk(slot[r].ibatch)
  <2>1. /\ SampleOf(slot[r], slot'[r], Decoded, mem', r) /\ slot[r] \in SlotRec /\ Sized(slot[r], mix)
        /\ slot[r].prompt \in Nat /\ slot[r].parent = 0
    BY <1>1, <1>5 DEF Single
  <2>2. CASE slot'[r] = slot[r]
    BY <2>1, <2>2
  <2>3. CASE /\ slot[r].state \in {"done", "gen"} /\ InChunk(slot[r].ibatch)
             /\ slot'[r] = FreeSlot([slot[r] EXCEPT !.ibatch = -1], PromptLeft(slot[r]))
    <3> DEFINE z == [slot[r] EXCEPT !.ibatch = -1]
    <3>1. /\ z \in SlotRec /\ z.ibatch = -1 /\ z.state = slot[r].state /\ z.kind = slot[r].kind
          /\ z.parent = slot[r].parent /\ z.len = slot[r].len /\ z.decoded = slot[r].decoded
          /\ z.prompt = slot[r].prompt
      BY <2>1 DEF SlotRec
    <3>2. slot'[r] = FreeSlot(z, slot[r].prompt)
      BY <2>1, <2>3 DEF PromptLeft
    <3> HIDE DEF z
    <3>3. Sized(z, mix)
      <4>1. Wide \in Nat
        BY <1>1, TopFacts
      <4> QED BY <2>1, <3>1, <4>1 DEF Sized
    <3>4. /\ Sized(FreeSlot(z, slot[r].prompt), mix) /\ FreeSlot(z, slot[r].prompt).prompt = slot[r].prompt
          /\ Stale(z) => Stale(FreeSlot(z, slot[r].prompt))
      <4>1. slot[r].prompt \in Int /\ slot[r].prompt \in {0, z.prompt}
        BY <2>1, <3>1
      <4> QED BY <1>1, <3>1, <3>3, <4>1, FreeSized
    <3>5. Stale(slot[r]) => Stale(z)
      BY <3>1 DEF Stale
    <3> QED BY <2>3, <3>2, <3>4, <3>5
  <2>4. CASE /\ slot[r].state \in {"done", "gen"} /\ InChunk(slot[r].ibatch)
             /\ slot'[r] = [slot[r] EXCEPT !.ibatch = -1, !.state = "gen", !.decoded = @ + 1]
             /\ slot[r].kind # "embd" /\ slot[r].decoded + 1 < MaxDecoded
    <3> DEFINE z == [slot[r] EXCEPT !.ibatch = -1, !.state = "gen", !.decoded = @ + 1]
    <3>1. /\ z.ibatch = -1 /\ z.state = "gen" /\ z.kind = slot[r].kind /\ z.prompt = slot[r].prompt
          /\ z.parent = slot[r].parent /\ z.len = slot[r].len /\ z.decoded = slot[r].decoded + 1
      BY <2>1 DEF SlotRec
    <3>2. slot'[r] = z
      BY <2>4
    <3> HIDE DEF z
    <3>3. Sized(z, mix)
      <4>1. Wide \in Nat /\ mix.cells \in Nat /\ slot[r].len \in Nat
        BY <1>1, TopFacts, SlotFacts
      <4>2. 1 <= z.prompt /\ z.prompt < mix.cells
        BY <2>1, <2>4, <3>1, <4>1 DEF Sized
      <4>3. z.decoded <= MaxDecoded
        <5>1. slot[r].decoded \in Nat /\ MaxDecoded \in Nat
          BY <2>1, BatchAssumption DEF SlotRec
        <5> QED BY <2>4, <3>1, <5>1
      <4>4. IF z.kind = "embd" THEN z.len <= NBatch ELSE z.len < mix.cells
        BY <2>1, <2>4, <3>1 DEF Sized
      <4> QED BY <2>1, <2>4, <3>1, <4>1, <4>2, <4>3, <4>4 DEF Sized
    <3>4. ~Stale(slot[r])
      BY <2>4 DEF Stale
    <3> QED BY <3>1, <3>2, <3>3, <3>4
  <2> QED BY <2>1, <2>2, <2>3, <2>4 DEF SampleOf
<1>9. ASSUME NEW r \in Slots
      PROVE  Sized(slot'[r], mix) /\ Holds(slot'[r], Positions(mem', r), RestOf(batch, hi, r), mix)
  BY <1>7, <1>8, StillHolds
<1>10. CASE hi = Len(batch) /\ EndIteration
  <2>1. /\ batch' = <<>> /\ i' = 0 /\ Len(batch') = 0 /\ lead' = 0 /\ cur' = cur /\ mix' = mix
    BY <1>10 DEF EndIteration
  <2>2. i' + 1..Len(batch') = {} /\ hi + 1..Len(batch) = {}
    BY <1>1, <1>10, <2>1
  <2>3. \A r \in Slots : RestOf(batch', i', r) = RestOf(batch, hi, r)
    BY <2>2 DEF RestOf
  <2>4. InOrder(batch', i') /\ \A k \in i' + 1..Len(batch') : Carried(slot', batch'[k], mpc', cur')
    BY <2>2 DEF InOrder
  <2>5. Len(batch') <= Wide' /\ cur' \in 0..NSlots /\ lead' \in 0..NSlots
    <3>1. Wide \in Nat /\ 0 \in 0..NSlots
      BY <1>1, TopFacts, BatchAssumption
    <3> QED BY <2>1, <3>1 DEF SoundInv, Wide
  <2> HIDE DEF hi
  <2> QED BY <1>1, <1>6, <1>9, <2>1, <2>3, <2>4, <2>5 DEF SoundInv
<1>11. CASE i' = hi /\ UNCHANGED <<mix, mpc, cur, lead, batch>>
  <2> HIDE DEF hi
  <2>1. \A r \in Slots : Sized(slot'[r], mix') /\ Holds(slot'[r], Positions(mem', r), RestOf(batch', i', r), mix')
    BY <1>9, <1>11
  <2>2. InOrder(batch', i')
    <3>1. \A k : k \in hi + 1..Len(batch) => k \in i + 1..Len(batch)
      BY <1>1
    <3> QED BY <1>11, <3>1 DEF SoundInv, InOrder
  <2>3. ASSUME NEW k \in i' + 1..Len(batch') PROVE Carried(slot', batch'[k], mpc', cur')
    <3> DEFINE r == batch[k].slot
    <3>1. k \in hi + 1..Len(batch) /\ k \in i + 1..Len(batch) /\ k \in 1..Len(batch)
      BY <1>1, <1>11
    <3>2. r \in Slots /\ slot[r].state \in {"prompt", "done", "gen"}
      <4>1. batch \in Seq(Token)
        BY <1>1 DEF BatchTyped
      <4> QED BY <3>1, <4>1, TokenAt DEF SoundInv, Carried
    <3>3. ~(slot[r].state \in {"done", "gen"} /\ InChunk(slot[r].ibatch))
      BY <3>1, <3>2, NothingLeft DEF hi
    <3>4. slot'[r] = slot[r] \/ slot'[r].state = "gen"
      BY <1>8, <3>2, <3>3
    <3>5. slot'[r].state \in {"prompt", "done", "gen"}
      BY <3>2, <3>4
    <3> QED BY <1>1, <1>11, <3>5 DEF Carried
  <2>4. Len(batch') <= Wide' /\ cur' \in 0..NSlots /\ lead' \in 0..NSlots
    BY <1>11 DEF SoundInv, Wide
  <2> QED BY <1>1, <1>6, <2>1, <2>2, <2>3, <2>4 DEF SoundInv
<1> QED BY <1>3, <1>10, <1>11

LEMMA SoundAtFirst == BatchInit => SoundInv
<1> SUFFICES ASSUME BatchInit PROVE SoundInv
  OBVIOUS
<1>1. BatchTyped
  BY DecidedAtFirst DEF DecidedInv
<1>2. mem = {} /\ batch = <<>> /\ i = 0 /\ cur = 0 /\ lead = 0 /\ err = "none"
  BY DEF BatchInit
<1>3. Len(batch) = 0 /\ i + 1..Len(batch) = {}
  BY <1>2
<1>4. Wide \in Nat /\ NBatch >= 1 /\ Wide >= NBatch /\ 0 \in 0..Top(mix) /\ 0 \in 0..NSlots
  BY <1>1, TopFacts
<1>5. ASSUME NEW s \in Slots
      PROVE  Sized(slot[s], mix) /\ Holds(slot[s], Positions(mem, s), RestOf(batch, i, s), mix)
  <2>1. slot[s] = IdleSlot
    BY DEF BatchInit
  <2>2. /\ slot[s].state = "idle" /\ slot[s].kind = "none" /\ slot[s].parent = 0 /\ slot[s].len = 0
        /\ slot[s].prompt = 0 /\ slot[s].decoded = 0 /\ slot[s].ibatch = -1
    BY <2>1 DEF IdleSlot
  <2>3. Sized(slot[s], mix)
    BY <1>4, <2>2, BatchAssumption DEF Sized
  <2>4. Positions(mem, s) = {} /\ RestOf(batch, i, s) = {}
    BY <1>2, <1>3 DEF Positions, Entries, RestOf
  <2>5. Span({}, 0, 0)
    BY DEF Span
  <2> QED BY <2>2, <2>3, <2>4, <2>5, HoldsAll
<1> QED BY <1>2, <1>3, <1>4, <1>5 DEF SoundInv, Alone, InOrder

LEMMA SoundStep ==
  ASSUME NoCopies, DecidedInv, SoundInv, [BatchNext]_batchVars PROVE SoundInv'
<1>1. ASSUME NEW s \in Slots, NEW kind \in Kinds, NEW len, Launch(s, kind, len) PROVE SoundInv'
  BY <1>1, SoundLaunch
<1>2. ASSUME NEW s \in Slots, Cancel(s) PROVE SoundInv'
  BY <1>2, SoundCancel
<1>3. ~DecodeInvalid
  BY NeverInvalid DEF DecodeInvalid
<1>4. CASE ComputeError \/ ContextExceeded
  BY <1>4, SoundFail DEF ComputeError, ContextExceeded
<1>5. CASE UpdateSlots
  BY <1>3, <1>4, <1>5, SoundBegin, SoundSkip, SoundStart, SoundContinue, SoundEmpty, SoundRetry,
     SoundChunk DEF UpdateSlots
<1>6. CASE UNCHANGED batchVars
  BY <1>6 DEF batchVars, SoundInv, InOrder, Wide
<1>7. CASE BatchNext
  BY <1>1, <1>2, <1>5, <1>7 DEF BatchNext
<1> QED BY <1>6, <1>7

\* The memory of a slot has its prompt, once.
LEMMA SoundMemory == ASSUME DecidedInv, SoundInv PROVE PromptInMemory
<1> SUFFICES ASSUME mpc = "take", NEW s \in Slots
             PROVE  /\ 0..slot[s].prompt - 1 \subseteq Positions(mem, s)
                    /\ slot[s].state \in {"gen", "prompt"} /\ slot[s].kind # "embd" =>
                         /\ Positions(mem, s) = 0..slot[s].prompt - 1
                         /\ Cardinality(Entries(mem, s)) = slot[s].prompt
  BY DEF PromptInMemory
<1>1. /\ mem \in Memory /\ Alone(mem) /\ slot[s].prompt \in Nat
      /\ Holds(slot[s], Positions(mem, s), {}, mix)
  BY SoundFacts
<1>2. Span(Positions(mem, s), 0, slot[s].prompt) \/ Stale(slot[s])
  BY <1>1, HoldsAll
<1>3. CASE Span(Positions(mem, s), 0, slot[s].prompt)
  <2>1. Positions(mem, s) = 0..slot[s].prompt - 1
    BY <1>1, <1>3, SpanIs
  <2>2. Cardinality(Entries(mem, s)) = slot[s].prompt
    BY <1>1, <2>1, WholeMemory
  <2> QED BY <2>1, <2>2
<1>4. CASE Stale(slot[s])
  <2>1. slot[s].prompt = 0 /\ (slot[s].state \in {"idle", "started"} \/ slot[s].kind = "embd")
    BY <1>4 DEF Stale
  <2>2. 0..slot[s].prompt - 1 = {}
    BY <2>1
  <2> QED BY <2>1, <2>2
<1> QED BY <1>2, <1>3, <1>4

LEMMA SoundTypes == ASSUME DecidedInv, SoundInv PROVE BatchTypeOK
<1>1. /\ BatchTyped /\ slot \in [Slots -> SlotRec] /\ mem \in Memory /\ Alone(mem)
      /\ \A s \in Slots : /\ slot[s] \in SlotRec /\ Sized(slot[s], mix)
                          /\ Positions(mem, s) \subseteq 0..Top(mix) - 1
  BY SoundFacts DEF BatchTyped
<1> DEFINE R == [state : {"idle", "started", "wait", "prompt", "done", "gen"},
                 kind : Kinds \cup {"none"}, parent : 0..NSlots, len : {0} \cup mix.lens,
                 prompt : 0..Max({mix.cells, NBatch}), decoded : 0..MaxDecoded,
                 ibatch : -1..Max({NBatch, NSlots}) - 1]
<1>2. ASSUME NEW s \in Slots PROVE slot[s] \in R
  <2>1. slot[s] \in SlotRec /\ Sized(slot[s], mix)
    BY <1>1
  <2>2. slot[s].decoded \in 0..MaxDecoded
    <3>1. slot[s].decoded \in Nat /\ slot[s].decoded <= MaxDecoded /\ MaxDecoded \in Nat
      BY <2>1, BatchAssumption DEF SlotRec, Sized
    <3> QED BY <3>1
  <2>3. slot[s].prompt \in 0..Max({mix.cells, NBatch}) /\ slot[s].ibatch \in -1..Max({NBatch, NSlots}) - 1
        /\ slot[s].len \in {0} \cup mix.lens
    BY <2>1 DEF Sized, Top, Wide
  <2> QED BY <2>1, <2>2, <2>3 DEF SlotRec
<1>3. slot \in [Slots -> R]
  BY <1>1, <1>2
<1>4. ASSUME NEW e \in mem PROVE e.pos \in 0..Max({mix.cells, NBatch}) - 1 /\ e.seqs \in (SUBSET Slots) \ {{}}
  <2>1. e \in [pos : Int, seqs : (SUBSET Slots) \ {{}}]
    BY <1>1 DEF Memory
  <2>2. PICK s \in Slots : s \in e.seqs
    BY <1>1 DEF Alone
  <2>3. e.pos \in Positions(mem, s)
    BY <2>2, AtPositions
  <2> QED BY <1>1, <2>1, <2>3 DEF Top
<1>5. /\ mpc \in {"take", "prompts", "decode"} /\ nb \in 1..NBatch
      /\ cur \in 0..NSlots /\ lead \in 0..NSlots /\ err \in {"none", "invalid", "compute", "context"}
  BY <1>1 DEF BatchTyped, SoundInv
<1>6. Len(batch) <= Max({NBatch, NSlots}) /\ i \in 0..Max({NBatch, NSlots})
  <2>1. Len(batch) <= Wide /\ i \in 0..Len(batch) /\ Wide \in Nat /\ Len(batch) \in Nat
    BY <1>1, TopFacts, SlotFacts DEF SoundInv, BatchTyped
  <2>2. i \in 0..Wide
    BY <2>1
  <2> QED BY <2>1, <2>2 DEF Wide
<1> QED BY <1>3, <1>4, <1>5, <1>6 DEF BatchTypeOK

LEMMA SameMix == ASSUME [BatchNext]_batchVars PROVE mix' = mix
<1>1. ASSUME NEW s \in Slots, NEW kind, NEW len, Launch(s, kind, len) \/ Cancel(s) PROVE mix' = mix
  BY <1>1 DEF Launch, Cancel
<1>2. CASE Begin \/ SkipTurn \/ StartPrompt \/ ContinuePrompt \/ Retry
  BY <1>2 DEF Begin, SkipTurn, StartPrompt, ContinuePrompt, Retry
<1>3. ASSUME NEW e, FailWith(e) PROVE mix' = mix
  BY <1>3 DEF FailWith, EndIteration
<1>4. CASE EmptyBatch \/ DecodeInvalid \/ ComputeError \/ ContextExceeded
  BY <1>3, <1>4 DEF EmptyBatch, DecodeInvalid, ComputeError, ContextExceeded, EndIteration
<1>5. CASE DecodeChunk
  BY <1>5 DEF DecodeChunk, EndIteration
<1>6. CASE UNCHANGED batchVars
  BY <1>6 DEF batchVars
<1> QED BY <1>1, <1>2, <1>4, <1>5, <1>6 DEF BatchNext, UpdateSlots

\* Unless a prompt is shared, what the slots say of the memory is so: between two
\* iterations of update_slots the cache has every token of every slot's prompt, at
\* its position and once, through prompts in parts, reuse, shifts, purges and
\* errors; and no batch is refused as invalid, for any number of slots and cells.
THEOREM BatchCorrect == Batching /\ NoCopies => []BatchSound
<1>1. BatchInit => DecidedInv /\ SoundInv
  BY DecidedAtFirst, SoundAtFirst
<1>2. NoCopies /\ DecidedInv /\ SoundInv /\ [BatchNext]_batchVars => NoCopies' /\ DecidedInv' /\ SoundInv'
  BY DecidedStep, SoundStep, SameMix DEF NoCopies
<1>3. DecidedInv /\ SoundInv => BatchSound
  <2>1. ASSUME SoundInv PROVE NoInvalidBatch
    BY <2>1 DEF SoundInv, NoInvalidBatch
  <2> QED BY <2>1, SoundTypes, SoundMemory DEF BatchSound
<1> QED BY <1>1, <1>2, <1>3, PTL DEF Batching

-----------------------------------------------------------------------------
(* The parts together.                                                      *)

LEMMA MemorySteps ==
  ASSUME [MemoryNext]_memoryVars
  PROVE  [BatchNext]_batchVars /\ [KvNext]_kvVars /\ [CacheNext]_cacheVars
BY DEF MemoryNext, memoryVars, Batches, Celled, Saved

LEMMA MemoryStarts == MemoryInit => BatchInit /\ KvInit /\ CacheInit
BY DEF MemoryInit

\* In the composition that the run checks, the batches, the cells and the prompt
\* cache do what each does alone: what is proved of one, without fairness, holds there.
THEOREM MemoryComposes == MemorySpec => Batching /\ KvSpec /\ CacheSpec
<1>1. MemoryInit => BatchInit /\ KvInit /\ CacheInit
  BY MemoryStarts
<1>2. [MemoryNext]_memoryVars => [BatchNext]_batchVars /\ [KvNext]_kvVars /\ [CacheNext]_cacheVars
  BY MemorySteps
<1> QED BY <1>1, <1>2, PTL DEF MemorySpec, Batching, KvSpec, CacheSpec
=============================================================================
