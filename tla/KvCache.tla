----------------------------- MODULE KvCache -------------------------------
(***************************************************************************)
(* llama_kv_cache and llama_kv_cells: the cells of a unified KV cache      *)
(* (one stream), with their positions, pending shifts and sequences, the   *)
(* set of used cells and the per-sequence counters that are kept beside    *)
(* them, and the head where the search for free cells starts.              *)
(*                                                                         *)
(* Decode is llama_decode as far as the cells go: apply the pending shift, *)
(* cut the batch into ubatches, place them all to see whether they fit,    *)
(* put the cells back, then place and compute them one by one.  The data   *)
(* in a cell is abstracted to the position its key was rotated for.        *)
(***************************************************************************)
EXTENDS KvMemory, Sequences, SequencesExt

CONSTANTS
  NCells,  \* cells of the cache
  NSwa,    \* attention window, 0 for none: farther back nothing is looked at
  NUbatch, \* n_ubatch
  MaxPos,  \* bound: the last position a sequence may reach
  MaxStore \* bound: tokens in one batch

ASSUME CacheAssumption ==
  /\ NCells \in Nat \ {0}
  /\ NSwa \in Nat
  /\ NUbatch \in Nat \ {0}
  /\ MaxPos \in Nat
  /\ MaxStore \in 1..MaxPos + 1

VARIABLES
  cells,   \* llama_kv_cells
  kvHead,  \* v_heads[0]
  ret,     \* what the last llama_decode returned
  rotated  \* history: the position the key in each cell was rotated for

kvVars == <<cells, kvHead, ret, rotated>>

Cells == 0..NCells - 1

EmptyCells ==
  [pos    |-> [i \in Cells |-> -1],
   shift  |-> [i \in Cells |-> 0],
   seq    |-> [i \in Cells |-> {}],
   used   |-> {},
   seqPos |-> [s \in Seqs |-> [p \in 0..MaxPos |-> 0]]]

IsEmpty(c, i) == c.pos[i] = -1
PosIn(c, i, p0, p1) == c.pos[i] >= p0 /\ c.pos[i] < p1
Counted(c, s) == {p \in 0..MaxPos : c.seqPos[s][p] > 0}
SeqPosMin(c, s) == IF Counted(c, s) = {} THEN -1 ELSE Min(Counted(c, s))
SeqPosMax(c, s) == IF Counted(c, s) = {} THEN -1 ELSE Max(Counted(c, s))

-----------------------------------------------------------------------------
(* One cell: the methods of llama_kv_cells.                                *)

SeqPosAddN(c, i, n) ==
  [c EXCEPT !.seqPos =
     [s \in Seqs |-> [p \in 0..MaxPos |->
        IF s \in c.seq[i] /\ p = c.pos[i] THEN c.seqPos[s][p] + n ELSE c.seqPos[s][p]]]]
SeqPosRm(c, i) == SeqPosAddN(c, i, -1)
SeqPosAdd(c, i) == SeqPosAddN(c, i, 1)

\* Mutant: a shift that is pending stays with the empty cell.
VacateKeepsShift(c, i) == [c EXCEPT !.seq[i] = {}, !.pos[i] = -1, !.used = @ \ {i}]

\* The cell is emptied; its counters have been taken off already.
Vacate(c, i) ==
  [c EXCEPT !.seq[i] = {}, !.pos[i] = -1, !.shift[i] = 0, !.used = @ \ {i}]

RmCell(c, i) == Vacate(SeqPosRm(c, i), i)

SeqRm(c, i, s) ==
  LET d == [c EXCEPT !.seq[i] = @ \ {s}, !.seqPos[s][c.pos[i]] = @ - 1]
  IN  IF d.seq[i] = {} THEN Vacate(d, i) ELSE d

SeqKeep(c, i, s) ==
  IF s \in c.seq[i] THEN SeqPosAdd([SeqPosRm(c, i) EXCEPT !.seq[i] = {s}], i)
  ELSE IF c.seq[i] # {} THEN RmCell(c, i) ELSE c

SeqAdd(c, i, s) ==
  [c EXCEPT !.seq[i] = @ \cup {s}, !.seqPos[s][c.pos[i]] = @ + 1]

PosSet(c, i, p) == [c EXCEPT !.pos[i] = p, !.used = @ \cup {i}]

PosAdd(c, i, d) ==
  LET e == [SeqPosRm(c, i) EXCEPT !.pos[i] = @ + d, !.shift[i] = @ + d]
  IN  IF e.pos[i] < 0 THEN Vacate(e, i) ELSE SeqPosAdd(e, i)

-----------------------------------------------------------------------------
(* All cells: the loops of llama_kv_cache.                                 *)

\* The cells of s with a position in [p0, p1).
CellsOf(c, s, p0, p1) == {i \in Cells : PosIn(c, i, p0, p1) /\ s \in c.seq[i]}

AllSeqRm(c, s, p0, p1) == FoldSet(LAMBDA i, d : SeqRm(d, i, s), c, CellsOf(c, s, p0, p1))
AllSeqCp(c, a, b) == FoldSet(LAMBDA i, d : SeqAdd(d, i, b), c, CellsOf(c, a, 0, MaxPos + 1))
AllPosAdd(c, s, p0, p1, n) == FoldSet(LAMBDA i, d : PosAdd(d, i, n), c, CellsOf(c, s, p0, p1))
AllSeqKeep(c, s) == FoldSet(LAMBDA i, d : SeqKeep(d, i, s), c, Cells)

Freed(c, d) == {i \in Cells : ~IsEmpty(c, i) /\ IsEmpty(d, i)}

\* The head moves back to the first cell that was freed.
HeadAfter(h, c, d) ==
  IF Freed(c, d) # {} /\ Min(Freed(c, d)) < h THEN Min(Freed(c, d)) ELSE h

-----------------------------------------------------------------------------
(* Finding cells for a batch.  A token is a position and its sequences; a  *)
(* batch is a sequence of ubatches, each a sequence of tokens.             *)

\* The token after position `last' does not look at p (a standard window).
IsMasked(p, last) == NSwa # 0 /\ last + 1 - p >= NSwa

\* A cell may be taken when it is empty, or when its only sequence has gone
\* past its window.
CanUse(c, i) ==
  \/ IsEmpty(c, i)
  \/ \E s \in Seqs : c.seq[i] = {s} /\ IsMasked(c.pos[i], SeqPosMax(c, s))

\* The cells of a tour that can be used.
Usable(c, tour) == FoldLeft(LAMBDA f, i : IF CanUse(c, i) THEN Append(f, i) ELSE f, <<>>, tour)

\* The first n cells that can be used, in one tour from the head; <<>> if there
\* are not so many.
FindSlot(c, h, n) ==
  LET start == IF h > Cardinality(c.used) + 2 * n THEN 0 ELSE h
      free == Usable(c, [k \in 1..NCells |-> (start + k - 1) % NCells])
  IN  IF Len(free) < n THEN <<>> ELSE SubSeq(free, 1, n)

PlaceToken(c, i, tok) ==
  LET d == PosSet(IF IsEmpty(c, i) THEN c ELSE RmCell(c, i), i, tok.pos)
  IN  FoldSet(LAMBDA s, e : SeqAdd(e, i, s), d, tok.seqs)

\* The last position of s in the cells that are about to be overwritten.
Overwritten(c, idxs, s) ==
  Max({-1} \cup {c.pos[i] : i \in {j \in Range(idxs) : s \in c.seq[j]}})

\* Each token of a ubatch in its cell.
PlaceAll(c, idxs, ub) ==
  FoldLeft(LAMBDA d, k : PlaceToken(d, idxs[k], ub[k]), c, [k \in 1..Len(ub) |-> k])

\* Mutant: the positions before the ones overwritten are left.
ApplyWithoutPurge(c, idxs, ub) == PlaceAll(c, idxs, ub)

\* apply_ubatch: place the tokens, then purge each sequence up to the last
\* position it lost.
ApplyUbatch(c, idxs, ub) ==
  FoldSet(LAMBDA s, d : IF Overwritten(c, idxs, s) # -1
                        THEN AllSeqRm(d, s, 0, Overwritten(c, idxs, s) + 1)
                        ELSE d,
          PlaceAll(c, idxs, ub), Seqs)

\* The search after a batch starts behind its last cell.
NextHead(idxs) == Last(idxs) + 1

\* Cell i of d as it is in old.
RestoreCell(d, old, i) ==
  LET e == IF IsEmpty(d, i) THEN d ELSE SeqPosRm(d, i)
      f == [e EXCEPT !.pos[i] = old.pos[i], !.seq[i] = old.seq[i],
                     !.used = IF IsEmpty(old, i) THEN @ \ {i} ELSE @ \cup {i}]
  IN  IF IsEmpty(old, i) THEN f ELSE SeqPosAdd(f, i)

\* These cells as they were, and no others.
Restore(c, old, idxs) == FoldLeft(LAMBDA d, i : RestoreCell(d, old, i), c, idxs)

\* One more ubatch is placed, if there is a place for it and for those before it.
TryUbatch(a, ub) ==
  LET idxs == FindSlot(a.c, a.h, Len(ub))
  IN  IF ~a.ok \/ idxs = <<>> THEN [a EXCEPT !.ok = FALSE]
      ELSE [c |-> ApplyUbatch(a.c, idxs, ub), h |-> NextHead(idxs), ok |-> TRUE,
            idxs |-> Append(a.idxs, idxs), saved |-> Append(a.saved, a.c)]

TryAll(c, h, ubs) ==
  FoldLeft(TryUbatch, [c |-> c, h |-> h, ok |-> TRUE, idxs |-> <<>>, saved |-> <<>>], ubs)

\* The ubatches that were placed are taken back, the last one first.
TakeBack(try) ==
  FoldRight(LAMBDA k, d : Restore(d, try.saved[k], try.idxs[k]),
            [k \in 1..Len(try.idxs) |-> k], try.c)

\* prepare: place every ubatch, and take them all back.
Prepare(c, h, ubs) ==
  LET try == TryAll(c, h, ubs)
  IN  [ok |-> try.ok, idxs |-> try.idxs, c |-> TakeBack(try)]

-----------------------------------------------------------------------------
(* The operations.                                                         *)

NoRet == 99

KvInit ==
  /\ cells = EmptyCells
  /\ kvHead = 0
  /\ ret = NoRet
  /\ rotated = [i \in Cells |-> -1]

\* The keys stay as they are in the cells that are still in use.
SameKeys(c) == [i \in Cells |-> IF IsEmpty(c, i) THEN -1 ELSE rotated[i]]

\* A call that finds no cell changes nothing.
CellsBecome(c) ==
  /\ c # cells
  /\ cells' = c
  /\ kvHead' = HeadAfter(kvHead, cells, c)
  /\ ret' = NoRet
  /\ rotated' = SameKeys(c)

SeqRemove(s, p0, p1) == CellsBecome(AllSeqRm(cells, s, p0, p1))

SeqKeepOnly(s) == CellsBecome(AllSeqKeep(cells, s))

\* Every caller removes b first (server-context.cpp:534).
SeqCopy(a, b) ==
  /\ \A i \in Cells : b \notin cells.seq[i]
  /\ CellsBecome(AllSeqCp(cells, a, b))

\* A context shift or the reuse of a chunk: the callers remove the d positions
\* before p0, and move the rest back.  The next search starts at a cell that the
\* move freed, or from the beginning.
SeqShift(s, p0, d) ==
  LET c == AllSeqRm(cells, s, p0 - d, p0)
      e == AllPosAdd(c, s, p0, MaxPos + 1, -d)
  IN  /\ e # cells
      /\ cells' = e
      /\ kvHead' = IF Freed(c, e) = {} THEN 0 ELSE Min(Freed(c, e))
      /\ ret' = NoRet
      /\ rotated' = SameKeys(e)

Clear == cells' = EmptyCells /\ kvHead' = 0 /\ ret' = NoRet /\ rotated' = SameKeys(EmptyCells)

\* n tokens of the sequences S from position p0, in ubatches of at most NUbatch.
Split(S, p0, n) ==
  [u \in 1..((n + NUbatch - 1) \div NUbatch) |->
     [k \in 1..Min({NUbatch, n - (u - 1) * NUbatch}) |->
        [pos |-> p0 + (u - 1) * NUbatch + k - 1, seqs |-> S]]]

\* state_read_meta: the n entries of a saved sequence are put back, with their
\* keys, in the place of what s had.
StateRead(s, n) ==
  LET c == AllSeqRm(cells, s, 0, MaxPos + 1)
      h == HeadAfter(kvHead, cells, c)
      idxs == FindSlot(c, h, n)
      saved == [k \in 1..n |-> [pos |-> k - 1, seqs |-> {s}]]
      d == IF idxs = <<>> THEN c ELSE ApplyUbatch(c, idxs, saved)
  IN  /\ cells' = d
      /\ kvHead' = IF idxs = <<>> THEN h ELSE NextHead(idxs)
      /\ rotated' = [i \in Cells |-> IF i \in Range(idxs) THEN d.pos[i] ELSE SameKeys(d)[i]]
      /\ ret' = NoRet

\* Sequences that share the tokens of a batch must be alike (llama-batch.cpp).
Alike(c, S) ==
  \A s, t \in S : SeqPosMin(c, s) = SeqPosMin(c, t) /\ SeqPosMax(c, s) = SeqPosMax(c, t)

NextPos(S) == SeqPosMax(cells, CHOOSE s \in S : TRUE) + 1

\* memory_update: every key is rotated to where its cell says it is.
Updated == [cells EXCEPT !.shift = [i \in Cells |-> 0]]

\* The first k ubatches of a batch that fits.
Applied(prep, ubs, k) ==
  FoldLeft(LAMBDA d, u : ApplyUbatch(d, prep.idxs[u], ubs[u]), prep.c, [u \in 1..k |-> u])

\* llama_decode of n tokens for S.  It returns 1 when they do not fit.  If
\* ubatch `bad' cannot be computed, its positions are removed for the first
\* sequence of its tokens, and the ubatches after it are not placed.
Decode(S, n) ==
  LET ubs == Split(S, NextPos(S), n)
      prep == Prepare(Updated, kvHead, ubs)
  IN  /\ Alike(cells, S)
      /\ NextPos(S) + n - 1 <= MaxPos
      /\ \/ /\ ~prep.ok
            /\ cells' = prep.c
            /\ ret' = 1
            /\ UNCHANGED kvHead
         \/ /\ prep.ok
            /\ cells' = Applied(prep, ubs, Len(ubs))
            /\ kvHead' = NextHead(Last(prep.idxs))
            /\ ret' = 0
         \/ /\ prep.ok
            /\ \E bad \in 1..Len(ubs), first \in S :
                 LET placed == Applied(prep, ubs, bad)
                     left == AllSeqRm(placed, first, ubs[bad][1].pos, MaxPos + 1)
                 IN  /\ cells' = left
                     /\ kvHead' = HeadAfter(NextHead(prep.idxs[bad]), placed, left)
            /\ ret' = -3
      /\ rotated' = cells'.pos

KvNext ==
  \/ \E s \in Seqs, p0 \in 0..MaxPos : SeqRemove(s, p0, MaxPos + 1)
  \/ \E s \in Seqs : SeqKeepOnly(s)
  \/ \E a, b \in Seqs : SeqCopy(a, b)
  \/ \E s \in Seqs, p0 \in 1..MaxPos, d \in 1..2 : SeqShift(s, p0, d)
  \/ Clear
  \/ \E s \in Seqs, n \in 1..MaxStore : StateRead(s, n)
  \/ \E S \in (SUBSET Seqs) \ {{}}, n \in 1..MaxStore : Decode(S, n)

KvSpec == KvInit /\ [][KvNext]_kvVars

-----------------------------------------------------------------------------
(* Properties.                                                             *)

\* The entries the cells stand for.
MemOf(c) == {[pos |-> c.pos[i], seqs |-> c.seq[i]] : i \in {j \in Cells : ~IsEmpty(c, j)}}

\* The types; a shift only moves back, and no search starts behind the end.
KvTypeOK ==
  /\ cells.pos \in [Cells -> -1..MaxPos]
  /\ cells.seq \in [Cells -> SUBSET Seqs]
  /\ \A i \in Cells : cells.shift[i] \in -MaxPos..0
  /\ kvHead \in 0..NCells
  /\ ret \in {0, 1, -3, NoRet}

\* What is kept beside the cells says what the cells say: the used set, and how
\* often each position occurs in each sequence, from which the first and last
\* position of a sequence are read; an empty cell keeps nothing.
CountersExact ==
  /\ cells.used = {i \in Cells : ~IsEmpty(cells, i)}
  /\ \A s \in Seqs, p \in 0..MaxPos :
       cells.seqPos[s][p] = Cardinality({i \in Cells : s \in cells.seq[i] /\ cells.pos[i] = p})
  /\ \A i \in Cells : IsEmpty(cells, i) <=> cells.seq[i] = {}
  /\ \A i \in Cells : IsEmpty(cells, i) => cells.shift[i] = 0

\* Every removal, copy and shift does to the cells what KvMemory says it does
\* to the entries, whatever state the cells are in (when all are empty they have
\* nothing to act on).
OperationsAgree ==
  LET m == MemOf(cells)
  IN  cells.used # {} => \A s \in Seqs :
        /\ MemOf(AllSeqKeep(cells, s)) = Keep(m, s)
        /\ \A t \in Seqs : Entries(m, t) = {} => MemOf(AllSeqCp(cells, s, t)) = Cp(m, s, t)
        /\ \A p0 \in 0..MaxPos : \A p1 \in {p0 + 1, MaxPos + 1} :
             /\ MemOf(AllSeqRm(cells, s, p0, p1)) = Rm(m, s, p0, p1)
             /\ MemOf(AllPosAdd(cells, s, p0, p1, -2)) = Shift(m, s, p0, p1, -2)

\* The shift that is pending for a cell takes the key in it to the position of
\* the cell, through removals, reuse of the cell and restored sequences.
ShiftIsDelta ==
  \A i \in Cells : ~IsEmpty(cells, i) => rotated[i] + cells.shift[i] = cells.pos[i]

\* The cells are a memory as KvMemory says, through every sequence of decodes,
\* operations, purges and failed searches.
KvConsistent == KvTypeOK /\ CountersExact /\ OperationsAgree /\ ShiftIsDelta

\* llama_decode forgets a position only if no token to come looks at it, and
\* nothing at all without a window.
DecodeForgetsOnlyMasked ==
  [][ret' = 0 => \A s \in Seqs :
       \A p \in Positions(MemOf(cells), s) \ Positions(MemOf(cells'), s) :
         NSwa # 0 /\ p + NSwa <= PosMax(MemOf(cells'), s) + 1]_kvVars

Contiguous(c, s) ==
  Positions(MemOf(c), s) = IF Entries(MemOf(c), s) = {} THEN {}
                           ELSE PosMin(MemOf(c), s)..PosMax(MemOf(c), s)

\* "All positions between [pos_min, pos_max] for each sequence will be present"
\* (apply_ubatch): a decode that succeeds, or fails to compute, keeps it so,
\* although it may take the cells of any sequence in any order.
DecodeKeepsContiguous ==
  [][ret' \in {0, -3} /\ (\A s \in Seqs : Contiguous(cells, s))
       => \A s \in Seqs : Contiguous(cells', s)]_kvVars

\* A decode takes from the cache what it may take and nothing else.
DecodeKeeps == DecodeForgetsOnlyMasked /\ DecodeKeepsContiguous
=============================================================================
