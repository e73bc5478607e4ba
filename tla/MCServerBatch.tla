--------------------------- MODULE MCServerBatch ---------------------------
(***************************************************************************)
(* Instances for TLC of the memory of a model server: the batches of       *)
(* update_slots, the cells of the KV cache, and the prompt cache.  They    *)
(* share no variables: a behaviour is one of one part, chosen at the       *)
(* start, and the others stay as they are.                                 *)
(***************************************************************************)
EXTENDS ServerBatch, KvCache, PromptCache

CONSTANT Parts \* the parts that may be chosen

VARIABLE part \* the part that runs

memoryVars == <<part, batchVars, kvVars, cacheVars>>

Completions(lens, shift, reuse) ==
  [kinds |-> {"cmpl"}, lens |-> lens, cells |-> 5, shift |-> shift, reuse |-> reuse]
Roomy(kind) == [kinds |-> {"cmpl", kind}, lens |-> {1, 3}, cells |-> 9, shift |-> FALSE, reuse |-> FALSE]

\* Completions that fight for the cells, copies of a prompt, and embeddings; the
\* last two with room for all, see ChildGetsWholePrompt and EmbeddingWhole.
SoundMixes ==
  {Completions({1, 3}, FALSE, FALSE), Completions({2, 4}, TRUE, TRUE), Roomy("multi"), Roomy("embd")}

CopyMixes == {[Roomy("multi") EXCEPT !.cells = 5]}

TwoSlots == {1, 2}

\* Prompts that continue one another, and some that part after a few tokens.
MCPrompts == {<<0>>, <<0, 2>>, <<0, 1, 2>>, <<0, 1, 1, 1, 1>>}

MemoryInit ==
  /\ part \in Parts
  /\ BatchInit /\ KvInit /\ CacheInit
  /\ part # "batch" => mix = CHOOSE m \in Mixes : TRUE
  /\ part # "prompts" => limit = 0

Batches == part = "batch" /\ UNCHANGED <<part, kvVars, cacheVars>>
Celled == part = "cells" /\ UNCHANGED <<part, batchVars, cacheVars>>
Saved == part = "prompts" /\ UNCHANGED <<part, batchVars, kvVars>>

MemoryNext ==
  \/ Batches /\ BatchNext
  \/ Celled /\ KvNext
  \/ Saved /\ CacheNext

MemorySpec ==
  /\ MemoryInit /\ [][MemoryNext]_memoryVars
  /\ WF_memoryVars(Batches /\ UpdateSlots)
============================================================================
