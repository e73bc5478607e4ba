----------------------------- MODULE PromptCache -----------------------------
(***************************************************************************)
(* server_prompt_cache: prompts that lost their slot, with a copy of their *)
(* part of the KV cache, and how slots are chosen for tasks, saved to the  *)
(* cache and loaded from it.                                               *)
(*                                                                         *)
(* The data of a prompt is abstracted to the tokens it was computed for.   *)
(* The KV cache is unified (the default), so that idle slots are saved and *)
(* cleared when a task starts; there is no draft model.                    *)
(***************************************************************************)
EXTENDS Integers, SequencesExt

CONSTANTS
  NSlotsOfCache, \* slots
  Prompts,       \* bound: the prompts of tasks, sequences of tokens
  KvSize,        \* cells of the KV cache, which is also limit_tokens
  Similarity,    \* slot_prompt_similarity, in percent
  SizeLimits     \* values of limit_size to start with, 0 for no limit; a token
                 \* takes one unit

ASSUME PromptCacheAssumption ==
  /\ NSlotsOfCache \in Nat \ {0}
  /\ KvSize \in Nat /\ SizeLimits \subseteq Nat
  /\ \A p \in Prompts : p \in Seq(Int) /\ Len(p) \in 1..KvSize

VARIABLES
  prompts, \* of each slot: prompt.tokens, the tokens in its memory, and its task
  states,  \* states: the saved prompts, the oldest first
  limit,   \* limit_size
  noMemory \* history: the last step failed to allocate

cacheVars == <<prompts, states, limit, noMemory>>

PromptSlots == 1..NSlotsOfCache
Idle == <<>>
NoPrompt == [toks |-> <<>>, mem |-> <<>>, task |-> Idle]

CacheInit ==
  /\ prompts = [s \in PromptSlots |-> NoPrompt]
  /\ states = <<>>
  /\ limit \in SizeLimits
  /\ noMemory = FALSE

-----------------------------------------------------------------------------
(* The operations of the cache, on all three variables at once.            *)

\* get_common_prefix
Lcp(a, b) == Max({n \in 0..Min({Len(a), Len(b)}) : SubSeq(a, 1, n) = SubSeq(b, 1, n)})
CacheSize(q) == FoldLeft(LAMBDA n, e : n + Len(e.toks), 0, q)

\* The oldest entries go until the others are within `max'; one stays.
DropOldest(q, max) ==
  LET fits == {k \in 0..Len(q) : k >= Len(q) - 1 \/ CacheSize(SubSeq(q, k + 1, Len(q))) <= max}
  IN  IF q = <<>> THEN q ELSE SubSeq(q, Min(fits) + 1, Len(q))

\* update: the limit of size, then the one of tokens, which gives way to the size.
UpdateCache(c) ==
  LET q == IF c.limit > 0 THEN DropOldest(c.states, c.limit) ELSE c.states
  IN  [c EXCEPT !.states = DropOldest(q, IF c.limit > KvSize THEN c.limit ELSE KvSize)]

\* The entries of q that t does not contain.
Uncovered(q, t) ==
  FoldLeft(LAMBDA r, e : IF Lcp(e.toks, t) = Len(e.toks) THEN r ELSE Append(r, e), <<>>, q)

\* prompt_save and alloc: a prompt that an entry contains is not saved again, and
\* entries that it contains go.  If there is no memory (ok is FALSE) the limit
\* shrinks to 0.4 of what is there.
Save(c, s, ok) ==
  LET old == c.prompts[s]
      kept == Uncovered(c.states, old.toks)
  IN  IF old.toks = <<>> \/ \E e \in Range(c.states) : Lcp(e.toks, old.toks) = Len(old.toks) THEN c
      ELSE IF ok THEN [c EXCEPT !.states = Append(kept, [toks |-> old.toks, data |-> old.mem])]
      ELSE UpdateCache([c EXCEPT !.states = kept, !.limit = Max({1, (2 * CacheSize(kept)) \div 5})])

\* Mutant: better in one respect is enough.
BetterInOne(a, b, t) ==
  /\ 4 * Lcp(a, t) >= Len(a)
  /\ Lcp(b, t) < Lcp(a, t) \/ b = <<>> \/ Lcp(b, t) * Len(a) < Lcp(a, t) * Len(b)

\* Tokens a are a better start for t than b: more of them is kept (f_keep), and
\* more of t is there (sim); large prompts are not thrown away for a little.
Better(a, b, t) ==
  /\ 4 * Lcp(a, t) >= Len(a)
  /\ Lcp(b, t) < Lcp(a, t)
  /\ b = <<>> \/ Lcp(b, t) * Len(a) < Lcp(a, t) * Len(b)

\* The entry to load for t into a slot with tokens `own', 0 for none.
Best(q, own, t) ==
  FoldLeft(LAMBDA best, k : IF Better(q[k].toks, IF best = 0 THEN own ELSE q[best].toks, t)
                            THEN k ELSE best,
           0, [k \in 1..Len(q) |-> k])

\* The cells that the slots but s have.
Occupied(c, s) == FoldSet(LAMBDA r, n : n + Len(c.prompts[r].mem), 0, PromptSlots \ {s})

\* Mutant: a slot whose state could not be restored keeps its tokens.
LoadKeepsTokens(c, s, t) ==
  LET k == Best(c.states, c.prompts[s].toks, t)
  IN  IF k = 0 THEN c
      ELSE IF Occupied(c, s) + Len(c.states[k].data) <= KvSize
      THEN [c EXCEPT !.prompts[s] = [toks |-> c.states[k].toks, mem |-> c.states[k].data, task |-> Idle],
                     !.states = RemoveAt(@, k)]
      ELSE [c EXCEPT !.prompts[s].mem = <<>>]

\* prompt_load: the best entry moves to the slot.  If its data does not fit into
\* the KV cache, the slot has lost its own and is cleared.
Load(c, s, t) ==
  LET k == Best(c.states, c.prompts[s].toks, t)
  IN  IF k = 0 THEN c
      ELSE IF Occupied(c, s) + Len(c.states[k].data) <= KvSize
      THEN [c EXCEPT !.prompts[s] = [toks |-> c.states[k].toks, mem |-> c.states[k].data, task |-> Idle],
                     !.states = RemoveAt(@, k)]
      ELSE [c EXCEPT !.prompts[s] = NoPrompt]

\* slot_save_and_clear, for all idle slots.
SaveIdle(c, ok) ==
  FoldLeft(LAMBDA d, s :
             IF d.prompts[s].task # Idle \/ d.prompts[s].toks = <<>> THEN d
             ELSE UpdateCache([Save(d, s, ok) EXCEPT !.prompts[s] = NoPrompt]),
           c, [s \in PromptSlots |-> s])

-----------------------------------------------------------------------------
(* What the server does with its slots.                                    *)

IdleSlots == {s \in PromptSlots : prompts[s].task = Idle}

\* The idle slots that have most of t, if that is enough of it.
Similar(t) ==
  {s \in IdleSlots : /\ 100 * Lcp(prompts[s].toks, t) > Similarity * Len(t)
                     /\ \A r \in IdleSlots : Lcp(prompts[r].toks, t) <= Lcp(prompts[s].toks, t)}

\* get_available_slot: a similar slot, the cache being asked if it would lose more
\* than half of its prompt, or any idle slot (the least recently used).
Chosen(t, s, update) ==
  IF Similar(t) # {}
  THEN s = Min(Similar(t)) /\ update = (2 * Lcp(prompts[s].toks, t) < Len(prompts[s].toks))
  ELSE s \in IdleSlots /\ update = TRUE

SetAll(c) == prompts' = c.prompts /\ states' = c.states /\ limit' = c.limit

\* A completion gets its slot.  It may fail to start, and then the slot stays as
\* it is; if it starts, the other idle slots are saved and cleared.
Assign(t, s, update, ok, starts) ==
  /\ Chosen(t, s, update)
  /\ LET c == [prompts |-> prompts, states |-> states, limit |-> limit]
         d == IF update THEN UpdateCache(Load(Save(c, s, ok), s, t)) ELSE c
     IN  SetAll(IF starts THEN SaveIdle([d EXCEPT !.prompts[s].task = t], ok) ELSE d)
  /\ noMemory' = ~ok

\* The task has been computed, or is cancelled before it began.
FinishTask(s) ==
  /\ prompts[s].task # Idle
  /\ LET t == prompts[s].task
         c == [prompts |-> prompts]
     IN  \/ /\ Occupied(c, s) + Len(t) <= KvSize
            /\ prompts' = [prompts EXCEPT ![s] = [toks |-> t, mem |-> t, task |-> Idle]]
         \/ prompts' = [prompts EXCEPT ![s].task = Idle]
  /\ noMemory' = FALSE
  /\ UNCHANGED <<states, limit>>

NoRoomFor(s) == Occupied([prompts |-> prompts], s) + Len(prompts[s].task) > KvSize

\* A task finds no room: an idle slot is purged, or all that run have failed.
PurgeOrFail(s) ==
  /\ prompts[s].task # Idle
  /\ NoRoomFor(s)
  /\ LET purged == {r \in IdleSlots : prompts[r].toks # <<>>}
     IN  prompts' = IF purged # {} THEN [prompts EXCEPT ![Min(purged)] = NoPrompt]
                    ELSE [r \in PromptSlots |-> IF prompts[r].task = Idle THEN prompts[r] ELSE NoPrompt]
  /\ noMemory' = FALSE
  /\ UNCHANGED <<states, limit>>

CacheNext ==
  \/ \E t \in Prompts, s \in PromptSlots, update, ok, starts \in BOOLEAN :
       Assign(t, s, update, ok, starts)
  \/ \E s \in PromptSlots : FinishTask(s) \/ PurgeOrFail(s)

CacheSpec == CacheInit /\ [][CacheNext]_cacheVars

-----------------------------------------------------------------------------
(* Properties.                                                             *)

\* The cache is within its limits, or has one entry: "always keep at least one
\* state, regardless of the limits".
WithinLimits ==
  /\ limit \in Nat
  /\ Len(states) <= 1 \/ CacheSize(states) <= (IF limit > KvSize THEN limit ELSE KvSize)
  /\ Len(states) <= 1 \/ limit = 0 \/ CacheSize(states) <= limit

\* What a slot says is in its memory is there, and the copy an entry keeps is the
\* one of its tokens, through every save, load and failure to restore.
MemoryIsOfTokens ==
  /\ \A s \in PromptSlots : prompts[s].mem = prompts[s].toks
  /\ \A e \in Range(states) : e.data = e.toks

\* No entry is the start of another: it would take room and never be the best.
NoEntryContained ==
  \A j, k \in 1..Len(states) : j # k => ~IsPrefix(states[j].toks, states[k].toks)

\* The cache is what its entries and limits say.
CacheSound == WithinLimits /\ MemoryIsOfTokens /\ NoEntryContained

\* Slot s gets task t: its prompt is then what get_available_slot left it.
Starts(s, t) == prompts[s].task = Idle /\ prompts'[s].task = t
LoadFailed(s) == prompts'[s].mem = <<>>

\* A slot that comes out of get_available_slot has as much of the task as before.
CacheNeverHurts ==
  [][\A t \in Prompts, s \in PromptSlots :
       Starts(s, t) => Lcp(prompts'[s].mem, t) >= Lcp(prompts[s].mem, t) \/ LoadFailed(s)]_cacheVars

\* An entry that the task continues is used, or a longer start is: comparing with
\* the best so far in two respects does not lose it, since no other entry can be
\* wholly kept.  The slot's own tokens can (then they win although they are less).
CachedPrefixUsed ==
  [][\A t \in Prompts, s \in PromptSlots :
       /\ Starts(s, t) /\ ~noMemory'
       /\ Chosen(t, s, TRUE)
       /\ prompts[s].toks = <<>> \/ ~IsPrefix(prompts[s].toks, t)
       => \A e \in Range(states) :
            IsPrefix(e.toks, t) => Lcp(prompts'[s].mem, t) >= Len(e.toks) \/ LoadFailed(s)]_cacheVars

\* The tokens of a prompt are in the cache, or in slot s.
Covered(p, s) == \E q \in {e.toks : e \in Range(states')} \cup {prompts'[s].toks} : IsPrefix(p, q)

\* With room for all, a task that starts makes no idle slot's prompt disappear,
\* nor any saved one.
NothingLost ==
  [][\A t \in Prompts, s \in PromptSlots :
       /\ Starts(s, t) /\ ~noMemory'
       /\ limit = 0 /\ CacheSize(states) + CacheSize(prompts) <= KvSize
       => /\ \A r \in IdleSlots : Covered(prompts[r].toks, s)
          /\ \A e \in Range(states) : Covered(e.toks, s)]_cacheVars

\* What was computed before is kept and used.
CacheUseful == CacheNeverHurts /\ CachedPrefixUsed /\ NothingLost
=============================================================================
