---------------------------- MODULE ServerBatch ----------------------------
(***************************************************************************)
(* server_context::update_slots: the batch and the memory of the slots.    *)
(*                                                                         *)
(* An iteration shifts the contexts that are full, puts a token of every   *)
(* generating slot and as much as fits of every prompt into one batch, and *)
(* decodes it in chunks.  A chunk that finds no room in the KV cache is    *)
(* retried, first with an idle slot purged, then with half the tokens.     *)
(* Slots keep their prompt and its memory when they are released, and the  *)
(* next task reuses the prefix it shares with it.                          *)
(*                                                                         *)
(* Tokens are abstracted to their positions: a prompt is its length, and   *)
(* how much of it is cached is a choice.  The unified cache is that of     *)
(* KvMemory; ServerQueue has how tasks come to the slots.                  *)
(***************************************************************************)
EXTENDS KvMemory, Sequences, SequencesExt

CONSTANTS
  NSlots,     \* -np
  NBatch,     \* n_batch; embeddings make n_ubatch the same
  MaxDecoded, \* n_predict, and the bound of a generation
  Mixes       \* what is asked of the server, one of them in a behaviour:
              \* [kinds, lens (of prompts), cells, shift, reuse]

\* A completion, an embedding, a completion with n_cmpl = 2.
Kinds == {"cmpl", "embd", "multi"}

ASSUME BatchAssumption ==
  /\ NSlots \in Nat \ {0}
  /\ Seqs = 1..NSlots
  /\ NBatch \in Nat \ {0}
  /\ MaxDecoded \in Nat \ {0}
  /\ Mixes \subseteq [kinds : SUBSET Kinds, lens : SUBSET (Nat \ {0}), cells : Nat \ {0},
                   shift : BOOLEAN, reuse : BOOLEAN]

VARIABLES
  mix,    \* the mix, with the size of the cache and the options
  slot,   \* slots
  mem,    \* the KV cache
  mpc,    \* where update_slots is
  cur,    \* the slot the loop over prompts has reached
  lead,   \* slot_batched, 0 for none
  batch,  \* batch: of each token the slot and the position
  i,      \* the tokens decoded
  nb,     \* n_batch: the tokens a chunk may have
  err     \* the error of this iteration

batchVars == <<mix, slot, mem, mpc, cur, lead, batch, i, nb, err>>

Slots == 1..NSlots

\* kind and parent of the task, its n_tokens, the tokens of the prompt that are
\* in the cache or in the batch, n_decoded and i_batch.
IdleSlot ==
  [state |-> "idle", kind |-> "none", parent |-> 0, len |-> 0, prompt |-> 0,
   decoded |-> 0, ibatch |-> -1]

IsProcessing(sl, s) == sl[s].state # "idle"
IsChild(sl, s) == sl[s].parent # 0
IsParent(sl, s) == sl[s].kind = "multi" /\ ~IsChild(sl, s)
WaitingFor(sl, p) == {s \in Slots : sl[s].state = "wait" /\ sl[s].parent = p}

BatchInit ==
  /\ mix \in Mixes
  /\ slot = [s \in Slots |-> IdleSlot]
  /\ mem = {}
  /\ mpc = "take"
  /\ cur = 0 /\ lead = 0
  /\ batch = <<>> /\ i = 0 /\ nb = NBatch
  /\ err = "none"

-----------------------------------------------------------------------------
(* Slots and memory, as a pair st = [sl, m] that the loops pass on.        *)

State == [sl |-> slot, m |-> mem]
Become(st) == slot' = st.sl /\ mem' = st.m

\* Fault: the slot keeps the tokens that its memory has lost.
PromptClearMemoryOnly(st, s) == [st EXCEPT !.m = RmFrom(st.m, s, 0)]

PromptClear(st, s) == [sl |-> [st.sl EXCEPT ![s].prompt = 0], m |-> RmFrom(st.m, s, 0)]

\* server_slot::release: the prompt stays, but that of a child; so does i_batch.
Release(st, s) ==
  LET gone == [st EXCEPT !.sl[s] = [IdleSlot EXCEPT !.prompt = st.sl[s].prompt,
                                                   !.ibatch = st.sl[s].ibatch]]
  IN  IF IsChild(st.sl, s) THEN PromptClear(gone, s) ELSE gone

\* Every slot that is processing gets an error, and its prompt is cleared.
ErrorAll(st) ==
  FoldSet(LAMBDA s, t : PromptClear(Release(t, s), s), st,
          {s \in Slots : IsProcessing(st.sl, s)})

InSlotOrder(op(_, _), st) == FoldLeft(op, st, [s \in Slots |-> s])

-----------------------------------------------------------------------------
(* Between two iterations: tasks are launched and cancelled.               *)

\* A prompt of `len' tokens that fits (ServerQueue has those that do not) goes
\* to an idle slot; one for two completions takes a second slot, which waits.
Launch(s, kind, len) ==
  /\ mpc = "take"
  /\ ~IsProcessing(slot, s)
  /\ kind \in mix.kinds /\ len \in mix.lens
  /\ IF kind = "embd" THEN len <= NBatch ELSE len < mix.cells
  /\ LET task == [IdleSlot EXCEPT !.state = "started", !.kind = kind, !.len = len,
                                  !.prompt = slot[s].prompt, !.ibatch = slot[s].ibatch]
     IN  IF kind # "multi" THEN slot' = [slot EXCEPT ![s] = task]
         ELSE \E c \in Slots \ {s} :
                /\ ~IsProcessing(slot, c)
                /\ slot' = [slot EXCEPT
                     ![s] = task,
                     ![c] = [task EXCEPT !.state = "wait", !.parent = s,
                                         !.prompt = slot[c].prompt, !.ibatch = slot[c].ibatch]]
  /\ UNCHANGED <<mix, mem, mpc, cur, lead, batch, i, nb, err>>

\* A CANCEL; those of a parent and of the children that wait for it come together.
Cancel(s) ==
  /\ mpc = "take"
  /\ IsProcessing(slot, s) /\ slot[s].state # "wait"
  /\ Become(FoldSet(LAMBDA c, t : Release(t, c), Release(State, s), WaitingFor(slot, s)))
  /\ UNCHANGED <<mix, mpc, cur, lead, batch, i, nb, err>>

-----------------------------------------------------------------------------
(* The batch is built.                                                     *)

NKeep == Min({mix.cells - 4, 1})

\* Half of what follows the first tokens is dropped, and the rest moves up.
ShiftSlot(st, s) ==
  LET nDiscard == (st.sl[s].prompt - NKeep) \div 2
      m == Rm(st.m, s, NKeep, NKeep + nDiscard)
  IN  [sl |-> [st.sl EXCEPT ![s].prompt = @ - nDiscard],
       m |-> Shift(m, s, NKeep + nDiscard, st.sl[s].prompt, -nDiscard)]

\* A slot whose context is full: shifted, or refused (an error without a
\* shift, and for a shared prompt).
ContextShift(st, s) ==
  IF st.sl[s].state # "gen" \/ st.sl[s].prompt + 1 < mix.cells THEN st
  ELSE IF ~mix.shift \/ IsParent(st.sl, s) \/ IsChild(st.sl, s) THEN Release(st, s)
  ELSE ShiftSlot(st, s)

Compatible(sl, a, b) == (sl[a].kind = "embd") <=> (sl[b].kind = "embd")

\* update_batch: the token that slot s has sampled goes into the batch.
AddSampled(x, s) ==
  IF x.sl[s].state # "gen" THEN x
  ELSE [x EXCEPT !.sl[s].prompt = @ + 1, !.sl[s].ibatch = Len(x.b),
                 !.b = Append(@, [slot |-> s, pos |-> x.sl[s].prompt])]

\* The full contexts are shifted, then every generating slot puts in its token
\* (all generate from completions, and can share the batch with the first).
Begin ==
  LET st == InSlotOrder(ContextShift, State)
      x == InSlotOrder(AddSampled, [sl |-> st.sl, b |-> <<>>])
  IN  /\ mpc = "take"
      /\ \E s \in Slots : IsProcessing(slot, s)
      /\ slot' = x.sl /\ mem' = st.m /\ batch' = x.b
      /\ lead' = IF x.b = <<>> THEN 0 ELSE x.b[1].slot
      /\ cur' = 1 /\ mpc' = "prompts" /\ err' = "none"
      /\ UNCHANGED <<mix, i, nb>>

CanSplit(s) == slot[s].kind # "embd"

\* Fault: the loop does not go on to the next slot.
TurnStays(last) ==
  IF last THEN mpc' = "decode" /\ cur' = 0 ELSE UNCHANGED <<mpc, cur>>

\* The loop over prompts: the last slot, or one that finds the batch full.
NextTurn(last) ==
  IF last THEN mpc' = "decode" /\ cur' = 0 ELSE mpc' = mpc /\ cur' = cur + 1

\* What may be left of the prompt and the memory of slot s: a common prefix of k
\* tokens and, with cache reuse, a chunk of n tokens from c on that is moved up to it.
Cached(s) ==
  {[nPast |-> k, m |-> mem] : k \in 0..Min({slot[s].prompt, slot[s].len})}
  \cup
  {[nPast |-> r[1] + r[3],
    m |-> Shift(Rm(mem, s, r[1], r[2]), s, r[2], r[2] + r[3], r[1] - r[2])] :
   r \in {q \in (0..mix.cells) \X (1..mix.cells) \X (1..mix.cells) :
            mix.reuse /\ q[1] < q[2] /\ q[2] + q[3] <= slot[s].prompt /\ q[1] + q[3] <= slot[s].len}}

\* n_past: what is not there from the beginning is no use, and one token at least
\* has to be evaluated.
NPast(s, c) ==
  LET n == IF c.nPast > 0 /\ PosMin(c.m, s) >= Max({0, c.nPast - 1}) THEN 0 ELSE c.nPast
  IN  IF n = slot[s].len THEN n - 1 ELSE n

\* The memory is cut where the prompt goes on.
Truncate(m, s, p) == RmFrom(m, s, p)

\* The prompt of s as far as it fits, after p tokens that are cached in m.
AddPrompt(s, p, m) ==
  LET n == Max({0, Min({slot[s].len - p, NBatch - Len(batch)})})
      done == p + n = slot[s].len
      b == batch \o [k \in 1..n |-> [slot |-> s, pos |-> p + k - 1]]
  IN  /\ mem' = Truncate(m, s, p)
      /\ batch' = b
      /\ slot' = [slot EXCEPT
           ![s].prompt = p + n,
           ![s].state = IF done THEN "done" ELSE "prompt",
           ![s].decoded = IF done THEN 0 ELSE @,
           ![s].ibatch = IF done THEN Len(b) - 1 ELSE @]
      /\ lead' = IF lead = 0 THEN s ELSE lead
      /\ NextTurn(Len(b) >= NBatch \/ cur = NSlots)

\* A prompt that may not be split waits for a batch with room for all of it.
Fits(s) == CanSplit(s) \/ Len(batch) + slot[s].len <= NBatch

InTurn ==
  /\ mpc = "prompts"
  /\ slot[cur].state \in {"started", "prompt"}
  /\ lead # 0 => Compatible(slot, lead, cur)

\* Not its turn: idle, waiting for its parent, of another kind, or generating (it
\* is in the batch already, and alone of these looks whether that is full).
SkipTurn ==
  /\ mpc = "prompts" /\ ~InTurn
  /\ NextTurn(\/ cur = NSlots
              \/ slot[cur].state = "gen" /\ Compatible(slot, lead, cur) /\ Len(batch) >= NBatch)
  /\ UNCHANGED <<mix, slot, mem, lead, batch, i, nb, err>>

StartPrompt ==
  /\ InTurn /\ slot[cur].state = "started"
  /\ \E c \in (IF CanSplit(cur) THEN Cached(cur) ELSE {[nPast |-> 0, m |-> mem]}) :
       IF Fits(cur) THEN AddPrompt(cur, NPast(cur, c), c.m)
       ELSE /\ slot' = [slot EXCEPT ![cur].state = "prompt", ![cur].prompt = NPast(cur, c)]
            /\ NextTurn(cur = NSlots)
            /\ UNCHANGED <<mem, lead, batch>>
  /\ UNCHANGED <<mix, i, nb, err>>

ContinuePrompt ==
  /\ InTurn /\ slot[cur].state = "prompt"
  /\ IF Fits(cur) THEN AddPrompt(cur, slot[cur].prompt, mem)
     ELSE NextTurn(cur = NSlots) /\ UNCHANGED <<slot, mem, lead, batch>>
  /\ UNCHANGED <<mix, i, nb, err>>

-----------------------------------------------------------------------------
(* The batch is decoded, a chunk at a time.                                *)

ChunkLen == Min({nb, Len(batch) - i})
InChunk(k) == i <= k /\ k < i + ChunkLen
Chunk == {batch[k + 1] : k \in {j \in 0..Len(batch) - 1 : InChunk(j)}}
PosOf(s) == {t.pos : t \in {u \in Chunk : u.slot = s}}

\* llama_batch_allocr::init: a sequence goes on where its memory ends.
InvalidInput ==
  \E s \in Slots : PosOf(s) # {} /\ PosMax(mem, s) >= 0 /\ Min(PosOf(s)) # PosMax(mem, s) + 1

Full == Cardinality(mem) + ChunkLen > mix.cells

EndIteration ==
  /\ mpc' = "take" /\ lead' = 0 /\ batch' = <<>> /\ i' = 0 /\ nb' = NBatch
  /\ UNCHANGED <<mix, cur>>

\* Nothing to decode: the only slots are waiting for room.
EmptyBatch ==
  /\ mpc = "decode" /\ batch = <<>>
  /\ EndIteration
  /\ UNCHANGED <<slot, mem, err>>

\* The error is for all, and their memory goes.
FailWith(e) ==
  /\ mpc = "decode" /\ batch # <<>>
  /\ err' = e
  /\ Become(ErrorAll(State))
  /\ EndIteration

Smallest == nb = 1

DecodeInvalid == InvalidInput /\ FailWith("invalid")
ComputeError == ~InvalidInput /\ ~Full /\ FailWith("compute")
ContextExceeded == ~InvalidInput /\ Full /\ Smallest /\ FailWith("context")

\* Those a full cache can be cleared of, one at a time.
Purgeable == {s \in Slots : ~IsProcessing(slot, s) /\ slot[s].prompt > 0}

\* Fault: the batch is halved before anything is purged.
RetryHalvesFirst ==
  /\ mpc = "decode" /\ batch # <<>> /\ ~InvalidInput /\ Full /\ ~Smallest
  /\ nb' = nb \div 2
  /\ UNCHANGED <<mix, slot, mem, mpc, cur, lead, batch, i, err>>

\* try_clear_idle_slots, or else half the batch, from the same token.
Retry ==
  /\ mpc = "decode" /\ batch # <<>> /\ ~InvalidInput /\ Full /\ ~Smallest
  /\ IF Purgeable # {} THEN Become(PromptClear(State, Min(Purgeable))) /\ UNCHANGED nb
     ELSE nb' = nb \div 2 /\ UNCHANGED <<slot, mem>>
  /\ UNCHANGED <<mix, mpc, cur, lead, batch, i, err>>

\* Fault: what the child's slot had before is not removed.
CopyOverOldState(st, p, c) ==
  [sl |-> [st.sl EXCEPT ![c].state = "done", ![c].prompt = st.sl[p].prompt,
                        ![c].decoded = st.sl[p].decoded, ![c].ibatch = st.sl[p].ibatch],
   m |-> Cp(st.m, p, c)]

\* copy_state_to
CopyStateTo(st, p, c) ==
  [sl |-> [st.sl EXCEPT ![c].state = "done", ![c].prompt = st.sl[p].prompt,
                        ![c].decoded = st.sl[p].decoded, ![c].ibatch = st.sl[p].ibatch],
   m |-> Cp(RmFrom(st.m, c, 0), p, c)]

\* The parents whose prompt is done give it to their children.
ActivateChildren(st, p) ==
  IF st.sl[p].state = "done" /\ IsParent(st.sl, p)
  THEN FoldSet(LAMBDA c, t : CopyStateTo(t, p, c), st, WaitingFor(st.sl, p))
  ELSE st

MustStop(x) == x.decoded + 1 >= MaxDecoded \/ (~mix.shift /\ x.prompt + 1 >= mix.cells)

\* Fault: a slot is sampled by the index of its output in the whole batch.
SampleAnyChunk(st, s, stop) ==
  LET out == [st EXCEPT !.sl[s].ibatch = -1]
  IN  IF st.sl[s].state \notin {"done", "gen"} \/ st.sl[s].ibatch < i THEN st
      ELSE IF stop \/ st.sl[s].kind = "embd" \/ MustStop(st.sl[s]) THEN Release(out, s)
      ELSE [out EXCEPT !.sl[s].state = "gen", !.sl[s].decoded = @ + 1]

\* A slot with its output in this chunk is sampled; an embedding is sent. It
\* goes on to generate, or is released.
Sample(st, s, stop) ==
  LET out == [st EXCEPT !.sl[s].ibatch = -1]
  IN  IF st.sl[s].state \notin {"done", "gen"} \/ ~InChunk(st.sl[s].ibatch) THEN st
      ELSE IF stop \/ st.sl[s].kind = "embd" \/ MustStop(st.sl[s]) THEN Release(out, s)
      ELSE [out EXCEPT !.sl[s].state = "gen", !.sl[s].decoded = @ + 1]

\* A chunk is decoded: its tokens are in the memory, and what depended on them goes on.
DecodeChunk ==
  /\ mpc = "decode" /\ batch # <<>> /\ ~InvalidInput /\ ~Full
  /\ \E stops \in SUBSET Slots :
       LET st == [State EXCEPT !.m = @ \cup {[pos |-> t.pos, seqs |-> {t.slot}] : t \in Chunk}]
           active == InSlotOrder(ActivateChildren, st)
       IN  Become(InSlotOrder(LAMBDA t, s : Sample(t, s, s \in stops), active))
  /\ IF i + ChunkLen = Len(batch) THEN EndIteration
     ELSE /\ i' = i + ChunkLen /\ nb' = NBatch
          /\ UNCHANGED <<mix, mpc, cur, lead, batch>>
  /\ UNCHANGED err

UpdateSlots ==
  \/ Begin \/ SkipTurn \/ StartPrompt \/ ContinuePrompt
  \/ EmptyBatch \/ DecodeInvalid \/ ComputeError \/ ContextExceeded \/ Retry \/ DecodeChunk

BatchNext ==
  \/ \E s \in Slots, kind \in Kinds, len \in UNION {x.lens : x \in Mixes} : Launch(s, kind, len)
  \/ \E s \in Slots : Cancel(s)
  \/ UpdateSlots

BatchSpec == BatchInit /\ [][BatchNext]_batchVars /\ WF_batchVars(UpdateSlots)
-----------------------------------------------------------------------------
(* Properties.                                                             *)

BatchTypeOK ==
  /\ slot \in [Slots -> [state : {"idle", "started", "wait", "prompt", "done", "gen"},
                         kind : Kinds \cup {"none"}, parent : 0..NSlots, len : {0} \cup mix.lens,
                         prompt : 0..Max({mix.cells, NBatch}), decoded : 0..MaxDecoded,
                         ibatch : -1..Max({NBatch, NSlots}) - 1]]
  /\ \A e \in mem : e.pos \in 0..Max({mix.cells, NBatch}) - 1 /\ e.seqs \in (SUBSET Slots) \ {{}}
  /\ mpc \in {"take", "prompts", "decode"}
  /\ cur \in 0..NSlots /\ lead \in 0..NSlots
  /\ Len(batch) <= Max({NBatch, NSlots}) /\ i \in 0..Max({NBatch, NSlots})
  /\ nb \in 1..NBatch
  /\ err \in {"none", "invalid", "compute", "context"}

\* Between two iterations the memory of a slot has every token of its prompt, at
\* its position, once, through chunks, retries, shifts, reuse, copies and errors;
\* and nothing else once its prompt has been looked at.  A slot that waits has
\* what its last task left.
PromptInMemory ==
  mpc = "take" => \A s \in Slots :
    /\ 0..slot[s].prompt - 1 \subseteq Positions(mem, s)
    /\ slot[s].state \in {"gen", "prompt"} /\ slot[s].kind # "embd" =>
         /\ Positions(mem, s) = 0..slot[s].prompt - 1
         /\ Cardinality(Entries(mem, s)) = slot[s].prompt

\* What update_slots builds is never refused by llama_decode ("Invalid input
\* batch", which is an error for every slot).
NoInvalidBatch == err # "invalid"

\* What the slots say of the memory is so, and llama_decode accepts it.
BatchSound == BatchTypeOK /\ PromptInMemory /\ NoInvalidBatch

\* After an iteration every slot that was in the batch has been sampled or
\* released: none is left with its prompt done, or with an index to be sampled at
\* in the next batch.
SlotsDecided ==
  mpc = "take" => \A s \in Slots :
    slot[s].state # "done" /\ (slot[s].state = "gen" => slot[s].ibatch = -1)

\* "Context size has been exceeded" is an error for everybody: only with nothing
\* but the memory of slots at work in the cache.
NoNeedlessError ==
  [][err' = "context" /\ err = "none"
       => \A e \in mem : \E s \in e.seqs : IsProcessing(slot, s)]_batchVars

\* A slot is sampled when the last token of its prompt, or the one it has sampled
\* before, has just been decoded, and not before or after.
SampledAtItsToken ==
  [][\A s \in Slots :
       slot[s].ibatch >= 0 /\ slot'[s].ibatch = -1 /\ ~IsChild(slot, s)
         => batch[slot[s].ibatch + 1].slot = s /\ InChunk(slot[s].ibatch)
            /\ slot[s].prompt - 1 \in PosOf(s)]_batchVars

\* Each slot in a batch is sampled once, from the logits of its own last token.
SampledOnce == []SlotsDecided /\ SampledAtItsToken

\* The embedding of a prompt is computed from one chunk that holds all of it
\* (can_split: "we cannot split if the pooling would require any past tokens").
EmbeddingWhole ==
  [][\A s \in Slots :
       slot[s].kind = "embd" /\ slot[s].ibatch >= 0 /\ slot'[s].ibatch = -1
         => PosOf(s) = 0..slot[s].len - 1]_batchVars

\* A child starts with all of its parent's prompt ("when the main prompt is
\* processed, activate all child tasks too").
ChildGetsWholePrompt ==
  [][\A s \in Slots :
       slot[s].state = "wait" /\ slot'[s].state \in {"done", "gen"}
         => Positions(mem', s) = 0..slot'[s].prompt - 1]_batchVars

\* What is computed from a prompt is computed from all of it, however it is cut
\* into chunks.
WholePrompts == EmbeddingWhole /\ ChildGetsWholePrompt

\* An iteration ends, however often it is retried.
IterationEnds == (mpc # "take") ~> (mpc = "take")
=============================================================================
