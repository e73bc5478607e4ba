----------------------------- MODULE Threadpool -----------------------------
(***************************************************************************)
(* ggml_threadpool: the threads of the CPU backend that compute a graph    *)
(* node by node, built without OpenMP.  The calling thread, number 0,      *)
(* hands out the graphs and works on them too; the others poll for work,   *)
(* and then wait for it on a condition variable.                           *)
(*                                                                         *)
(* Every access to a shared atomic is one step, and so is what a thread    *)
(* does with the mutex held.  stop, pause and n_graph are only written     *)
(* then, so that a check which fails and the wait that follows it are one  *)
(* step; a thread that still polls is one that has not checked yet.  The   *)
(* memory is taken to be sequentially consistent.                          *)
(***************************************************************************)
EXTENDS Integers, Sequences

CONSTANTS
  PoolSize,  \* n_threads of the pool
  Ops,       \* the nodes of a graph: a view ("none"), an operation whose rows are
             \* split among the threads ("rows"), a matrix product ("mul_mat")
  RowChunks, \* nchunk0 * nchunk1: the pieces of a product, before they are counted
  MaxGraphs  \* bound: graphs computed

ASSUME PoolAssumption ==
  /\ PoolSize \in Nat \ {0} /\ RowChunks \in Nat \ {0} /\ MaxGraphs \in Nat
  /\ Ops \in Seq({"none", "rows", "mul_mat"})

VARIABLES
  graph,     \* n_graph: the number of the graph, and how many threads compute it
  nBarrier,  \* n_barrier
  nPassed,   \* n_barrier_passed
  nextChunk, \* current_chunk of the pool
  poolStop,  \* stop
  poolPause, \* pause
  abortAt,   \* abort
  at,        \* where each thread is
  after,     \* where it goes after the barrier it is in
  node,      \* node_n of each thread
  chunk,     \* current_chunk of each thread
  seen,      \* n_passed of each thread
  last,      \* last_graph of each thread, its number
  converted, \* history: of each node, who has put its part of the operand in wdata
  done       \* history: of each node and piece, how often it was computed

poolVars == <<graph, nBarrier, nPassed, nextChunk, poolStop, poolPause, abortAt,
              at, after, node, chunk, seen, last, converted, done>>
sharedVars == <<graph, nBarrier, nPassed, nextChunk, poolStop, poolPause, abortAt>>
localVars == <<after, node, chunk, seen, last>>
historyVars == <<converted, done>>

Threads == 0..PoolSize - 1
Nodes == 0..Len(Ops) - 1
Op(n) == Ops[n + 1]

\* The threads of the graph, and the pieces of a node: a product with too few of
\* them is cut anew, one for each thread.
Team == 0..graph.threads - 1
Pieces(n) ==
  IF Op(n) = "none" THEN 0
  ELSE IF Op(n) = "rows" \/ RowChunks < 4 * graph.threads THEN graph.threads
  ELSE RowChunks

PoolInit ==
  /\ graph = [number |-> 0, threads |-> 1]
  /\ nBarrier = 0 /\ nPassed = 0 /\ nextChunk = 0
  /\ poolStop = FALSE /\ poolPause \in BOOLEAN
  /\ abortAt = -1
  /\ at = [i \in Threads |-> IF i = 0 THEN "idle" ELSE "top"]
  /\ after = [i \in Threads |-> "end"]
  /\ node = [i \in Threads |-> 0] /\ chunk = [i \in Threads |-> 0]
  /\ seen = [i \in Threads |-> 0] /\ last = [i \in Threads |-> 0]
  /\ converted = [n \in Nodes |-> {}]
  /\ done = [n \in Nodes |-> {}]

Goto(i, pc) == at' = [at EXCEPT ![i] = pc]
SetLocal(f, i, v) == [f EXCEPT ![i] = v]

-----------------------------------------------------------------------------
(* ggml_barrier.                                                            *)

\* Where a thread goes on.
Leave(i) ==
  /\ Goto(i, CASE after[i] = "pieces" -> "piece"
               [] after[i] = "next" -> "head"
               [] after[i] = "end" -> IF i = 0 THEN "idle" ELSE "top")
  /\ chunk' = IF after[i] = "pieces" THEN SetLocal(chunk, i, i) ELSE chunk
  /\ node' = IF after[i] = "next" THEN SetLocal(node, i, node[i] + 1) ELSE node

Enter(i) ==
  /\ at[i] = "enter"
  /\ \/ /\ graph.threads = 1
        /\ Leave(i)
        /\ UNCHANGED seen
     \/ /\ graph.threads # 1
        /\ Goto(i, "arrive")
        /\ seen' = SetLocal(seen, i, nPassed)
        /\ UNCHANGED <<chunk, node>>
  /\ UNCHANGED <<sharedVars, after, last, historyVars>>

Arrive(i) ==
  /\ at[i] = "arrive"
  /\ Goto(i, IF nBarrier = graph.threads - 1 THEN "reset" ELSE "spin")
  /\ nBarrier' = nBarrier + 1
  /\ UNCHANGED <<graph, nPassed, nextChunk, poolStop, poolPause, abortAt, localVars, historyVars>>

\* The last thread to arrive.
Reset(i) ==
  /\ at[i] = "reset"
  /\ Goto(i, "pass")
  /\ nBarrier' = 0
  /\ UNCHANGED <<graph, nPassed, nextChunk, poolStop, poolPause, abortAt, localVars, historyVars>>

Pass(i) ==
  /\ at[i] = "pass"
  /\ nPassed' = nPassed + 1
  /\ Leave(i)
  /\ UNCHANGED <<graph, nBarrier, nextChunk, poolStop, poolPause, abortAt, after, seen, last,
                 historyVars>>

Spin(i) ==
  /\ at[i] = "spin" /\ nPassed # seen[i]
  /\ Leave(i)
  /\ UNCHANGED <<sharedVars, after, seen, last, historyVars>>

BarrierStep(i) == Enter(i) \/ Arrive(i) \/ Reset(i) \/ Pass(i) \/ Spin(i)

-----------------------------------------------------------------------------
(* ggml_graph_compute_thread, and the product of two matrices in it.        *)

ToBarrier(i, then) == Goto(i, "enter") /\ after' = SetLocal(after, i, then)

\* The head of the loop over the nodes.
NextNode(i) ==
  /\ at[i] = "head"
  /\ \/ /\ node[i] \notin Nodes \/ abortAt = node[i]
        /\ ToBarrier(i, "end")
        /\ UNCHANGED <<node, chunk>>
     \/ /\ node[i] \in Nodes /\ abortAt # node[i] /\ Op(node[i]) = "none"
        /\ node' = SetLocal(node, i, node[i] + 1)
        /\ UNCHANGED <<at, after, chunk>>
     \/ /\ node[i] \in Nodes /\ abortAt # node[i] /\ Op(node[i]) = "rows"
        /\ Goto(i, "piece")
        /\ chunk' = SetLocal(chunk, i, i)
        /\ UNCHANGED <<node, after>>
     \/ /\ node[i] \in Nodes /\ abortAt # node[i] /\ Op(node[i]) = "mul_mat"
        /\ Goto(i, "convert")
        /\ UNCHANGED <<node, after, chunk>>
  /\ UNCHANGED <<sharedVars, seen, last, historyVars>>

\* Each thread converts a part of the second operand; the pieces that follow the
\* first of each thread are handed out from number nth on.
Convert(i) ==
  /\ at[i] = "convert"
  /\ converted' = [converted EXCEPT ![node[i]] = @ \cup {i}]
  /\ nextChunk' = IF i = 0 THEN graph.threads ELSE nextChunk
  /\ ToBarrier(i, "pieces")
  /\ UNCHANGED <<graph, nBarrier, nPassed, poolStop, poolPause, abortAt, node, chunk, seen, last,
                 done>>

Compute(i) ==
  /\ at[i] = "piece"
  /\ done' = [done EXCEPT ![node[i]] = @ \cup {chunk[i]}]
  /\ Goto(i, IF graph.threads >= Pieces(node[i]) THEN "finished" ELSE "claim")
  /\ UNCHANGED <<sharedVars, localVars, converted>>

Claim(i) ==
  /\ at[i] = "claim"
  /\ chunk' = SetLocal(chunk, i, nextChunk)
  /\ nextChunk' = nextChunk + 1
  /\ Goto(i, IF nextChunk < Pieces(node[i]) THEN "piece" ELSE "finished")
  /\ UNCHANGED <<graph, nBarrier, nPassed, poolStop, poolPause, abortAt, after, node, seen, last,
                 historyVars>>

\* Mutant: the node just computed is named.
AbortThisNode(i) ==
  /\ at[i] = "finished"
  /\ abortAt' \in IF i = 0 THEN {abortAt, node[i]} ELSE {abortAt}
  /\ IF node[i] + 1 \in Nodes
     THEN ToBarrier(i, "next") /\ UNCHANGED node
     ELSE Goto(i, "head") /\ node' = SetLocal(node, i, node[i] + 1) /\ UNCHANGED after
  /\ UNCHANGED <<graph, nBarrier, nPassed, nextChunk, poolStop, poolPause, chunk, seen, last,
                 historyVars>>

\* The callback of the caller may abort the graph; a barrier unless this was the
\* last node.
EndNode(i) ==
  /\ at[i] = "finished"
  /\ abortAt' \in IF i = 0 THEN {abortAt, node[i] + 1} ELSE {abortAt}
  /\ IF node[i] + 1 \in Nodes
     THEN ToBarrier(i, "next") /\ UNCHANGED node
     ELSE Goto(i, "head") /\ node' = SetLocal(node, i, node[i] + 1) /\ UNCHANGED after
  /\ UNCHANGED <<graph, nBarrier, nPassed, nextChunk, poolStop, poolPause, chunk, seen, last,
                 historyVars>>

GraphStep(i) ==
  BarrierStep(i) \/ NextNode(i) \/ Convert(i) \/ Compute(i) \/ Claim(i) \/ EndNode(i)

-----------------------------------------------------------------------------
(* The calling thread.                                                      *)

\* ggml_cond_broadcast.
Woken(pcs) ==
  [i \in Threads |-> CASE pcs[i] = "wait work" -> "check"
                       [] pcs[i] = "wait pause" -> "top"
                       [] OTHER -> pcs[i]]

\* ggml_graph_compute with a pool: what the last graph has left is reset.
Prepare ==
  /\ at[0] = "idle" /\ graph.number < MaxGraphs
  /\ Goto(0, "kickoff")
  /\ nextChunk' = 0 /\ abortAt' = -1
  /\ converted' = [n \in Nodes |-> {}] /\ done' = [n \in Nodes |-> {}]
  /\ UNCHANGED <<graph, nBarrier, nPassed, poolStop, poolPause, localVars>>

NewGraph == \E n \in 1..PoolSize : graph' = [number |-> graph.number + 1, threads |-> n]

\* Mutant: the threads that wait are not told, unless the pool was paused.
KickoffQuietly ==
  /\ at[0] = "kickoff"
  /\ NewGraph
  /\ poolPause' = FALSE
  /\ LET begun == [at EXCEPT ![0] = "head"] IN at' = IF poolPause THEN Woken(begun) ELSE begun
  /\ node' = SetLocal(node, 0, 0)
  /\ UNCHANGED <<nBarrier, nPassed, nextChunk, poolStop, abortAt, after, chunk, seen, last,
                 historyVars>>

Kickoff ==
  /\ at[0] = "kickoff"
  /\ NewGraph
  /\ poolPause' = FALSE
  /\ at' = Woken([at EXCEPT ![0] = "head"])
  /\ node' = SetLocal(node, 0, 0)
  /\ UNCHANGED <<nBarrier, nPassed, nextChunk, poolStop, abortAt, after, chunk, seen, last,
                 historyVars>>

\* ggml_threadpool_pause and ggml_threadpool_resume.
PauseOrResume ==
  /\ at[0] = "idle"
  /\ poolPause' = ~poolPause
  /\ at' = Woken(at)
  /\ UNCHANGED <<graph, nBarrier, nPassed, nextChunk, poolStop, abortAt, localVars, historyVars>>

FreePool ==
  /\ at[0] = "idle"
  /\ poolStop' = TRUE /\ poolPause' = FALSE
  /\ at' = Woken([at EXCEPT ![0] = "join"])
  /\ UNCHANGED <<graph, nBarrier, nPassed, nextChunk, abortAt, localVars, historyVars>>

Joined ==
  /\ at[0] = "join" /\ \A i \in Threads \ {0} : at[i] = "ended"
  /\ Goto(0, "freed")
  /\ UNCHANGED <<sharedVars, localVars, historyVars>>

-----------------------------------------------------------------------------
(* ggml_graph_compute_secondary_thread.                                     *)

Top(i) ==
  /\ at[i] = "top"
  /\ Goto(i, IF poolPause THEN "wait pause" ELSE IF poolStop THEN "ended" ELSE "check")
  /\ UNCHANGED <<sharedVars, localVars, historyVars>>

\* ggml_graph_compute_thread_ready, in the polling loop or behind it.
CheckForWork(i) ==
  /\ at[i] = "check"
  /\ \/ /\ poolStop \/ poolPause
        /\ Goto(i, "top")
        /\ UNCHANGED <<last, node>>
     \/ /\ ~poolStop /\ ~poolPause /\ graph.number # last[i]
        /\ last' = SetLocal(last, i, graph.number)
        /\ IF i \in Team
           THEN Goto(i, "head") /\ node' = SetLocal(node, i, 0)
           ELSE UNCHANGED <<at, node>>
     \/ /\ ~poolStop /\ ~poolPause /\ graph.number = last[i]
        /\ Goto(i, "wait work")
        /\ UNCHANGED <<last, node>>
  /\ UNCHANGED <<sharedVars, after, chunk, seen, historyVars>>

-----------------------------------------------------------------------------
CallerStep == GraphStep(0) \/ Kickoff \/ Joined
WorkerStep(i) == GraphStep(i) \/ Top(i) \/ CheckForWork(i)

PoolNext ==
  \/ CallerStep \/ Prepare \/ PauseOrResume \/ FreePool
  \/ \E i \in Threads \ {0} : WorkerStep(i)

\* The threads run.
PoolFairness ==
  /\ WF_poolVars(CallerStep)
  /\ \A i \in Threads \ {0} : WF_poolVars(WorkerStep(i))

PoolSpec == PoolInit /\ [][PoolNext]_poolVars
FairPoolSpec == PoolSpec /\ PoolFairness

-----------------------------------------------------------------------------
(* Properties.                                                              *)

PoolPlaces ==
  {"idle", "kickoff", "join", "freed", "head", "convert", "piece", "claim", "finished",
   "enter", "arrive", "reset", "pass", "spin",
   "top", "check", "wait work", "wait pause", "ended"}

\* The types; and the barrier counts no more threads than there are.
PoolTypeOK ==
  /\ graph \in [number : 0..MaxGraphs, threads : 1..PoolSize]
  /\ nBarrier \in 0..graph.threads /\ nPassed \in Nat /\ nextChunk \in Nat
  /\ poolStop \in BOOLEAN /\ poolPause \in BOOLEAN
  /\ abortAt \in -1..Len(Ops)
  /\ at \in [Threads -> PoolPlaces]
  /\ after \in [Threads -> {"pieces", "next", "end"}]
  /\ node \in [Threads -> 0..Len(Ops)]
  /\ chunk \in [Threads -> Nat] /\ seen \in [Threads -> Nat] /\ last \in [Threads -> Nat]
  /\ converted \in [Nodes -> SUBSET Threads] /\ done \in [Nodes -> SUBSET Nat]

Whole(n) == done[n] = 0..Pieces(n) - 1

\* No piece is computed twice, although they are claimed from a counter that the
\* calling thread sets while others may still be at the node before.
PieceOnce ==
  \A i \in Threads : at[i] = "piece" =>
    /\ chunk[i] \in 0..Pieces(node[i]) - 1 \ done[node[i]]
    /\ \A j \in Threads \ {i} : at[j] = "piece" => chunk[i] # chunk[j]

\* A thread works on a node when the nodes before it are complete, and on a product
\* when all threads have converted their part of the operand.
NodesInOrder ==
  \A i \in Threads : at[i] \in {"piece", "convert"} =>
    /\ \A n \in 0..node[i] - 1 : Whole(n)
    /\ at[i] = "piece" /\ Op(node[i]) = "mul_mat" => converted[node[i]] = Team

\* "No worker threads should be accessing the parameters below at this stage"
\* (ggml-cpu.c:3323): between two graphs the others are out of the loop over the nodes.
CallerAlone ==
  at[0] \in {"idle", "kickoff", "join", "freed"} =>
    \A i \in Threads \ {0} :
      \/ at[i] \in {"top", "check", "wait work", "wait pause", "ended"}
      \/ at[i] = "spin" /\ after[i] = "end" /\ nPassed # seen[i]

\* What ggml_graph_compute returns: all nodes, or all before the one where the
\* graph was aborted, and nothing of the others: the threads stop at the same node.
ReturnsWhole ==
  at[0] = "idle" /\ graph.number > 0 =>
    \A n \in Nodes : IF abortAt = -1 \/ n < abortAt THEN Whole(n) ELSE done[n] = {}

\* A graph is computed as if by one thread, whatever the threads do between their
\* barriers, and however late they leave them.
PoolSound == PieceOnce /\ NodesInOrder /\ CallerAlone /\ ReturnsWhole

\* A graph that was begun returns, and freeing the pool ends its threads: no
\* thread misses the broadcast, however polling, pausing and stopping overlap.
PoolServes == at[0] \in {"kickoff", "head", "join"} ~> at[0] \in {"idle", "freed"}
=============================================================================
