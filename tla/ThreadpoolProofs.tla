-------------------------- MODULE ThreadpoolProofs --------------------------
(***************************************************************************)
(* Proof that a graph is computed as if by one thread, for every graph,    *)
(* every number of threads and every number of graphs.                     *)
(*                                                                         *)
(* A thread that the barrier has released but that still spins is where it *)
(* will go on, as far as the others can tell.  With that in mind the       *)
(* threads of a graph are always in the same region of it, between the     *)
(* same two barriers; PoolInv says so, and what is computed in a region.   *)
(***************************************************************************)
EXTENDS Threadpool, FiniteSets, FiniteSetTheorems, TLAPS

OutPlaces ==
  {"idle", "kickoff", "join", "freed", "top", "check", "wait work", "wait pause", "ended"}
BarrierPlaces == {"enter", "arrive", "reset", "pass", "spin"}

Stale(j) == at[j] = "spin" /\ seen[j] # nPassed

Behind(j) ==
  CASE after[j] = "pieces" -> "piece" [] after[j] = "next" -> "head" [] OTHER -> "out"

Kind(pc) ==
  IF pc \in OutPlaces THEN "out" ELSE IF pc \in BarrierPlaces THEN "barrier" ELSE pc

\* Where the threads are for one another; and their nodes and pieces there.
place == [j \in Threads |-> IF Stale(j) THEN Behind(j) ELSE Kind(at[j])]
nodeAt == [j \in Threads |-> IF Stale(j) /\ after[j] = "next" THEN node[j] + 1 ELSE node[j]]
piece == [j \in Threads |-> IF Stale(j) /\ after[j] = "pieces" THEN j ELSE chunk[j]]

Places == {"out", "barrier", "head", "convert", "piece", "claim", "finished"}

-----------------------------------------------------------------------------
(* Regions: from the head of the loop at a node to the next barrier, the    *)
(* pieces of a product behind its first barrier, and from the node where a  *)
(* graph is aborted to its end.                                             *)

Regions == [base : 0..Len(Ops), kind : {"head", "pieces", "abort"}]

NoWork(n, k) == \A l \in Nodes : n <= l /\ l < k => Op(l) = "none"

\* The node that is computed in a region, and whether its pieces are, or only
\* its operand is converted.
WorkNode(r, k) ==
  /\ k \in Nodes /\ r.base <= k
  /\ \/ r.kind = "pieces" /\ k = r.base /\ Op(k) = "mul_mat"
     \/ r.kind = "head" /\ NoWork(r.base, k) /\ Op(k) # "none"
Working(r, k) == WorkNode(r, k) /\ (r.kind = "pieces" \/ Op(k) = "rows")
Converting(r, k) == WorkNode(r, k) /\ r.kind = "head" /\ Op(k) = "mul_mat"

Skipping(r, k) ==
  \/ r.kind = "head" /\ k \in r.base..Len(Ops) /\ NoWork(r.base, k)
  \/ r.kind = "abort" /\ k = r.base
GraphOver(r, k) == k = Len(Ops) /\ Working(r, k - 1)

Ending(r, k) ==
  \/ r.kind = "abort" /\ k = r.base
  \/ r.kind = "head" /\ k = Len(Ops) /\ NoWork(r.base, k)
  \/ GraphOver(r, k)

Fits(j, r) ==
  /\ j # 0 => (last[j] = graph.number <=> place[j] # "out")
  /\ \/ place[j] = "out" /\ j # 0 /\ r.base = 0 /\ r.kind = "head"
     \/ place[j] = "head" /\ (Skipping(r, nodeAt[j]) \/ GraphOver(r, nodeAt[j]))
     \/ place[j] = "convert" /\ Converting(r, nodeAt[j])
     \/ place[j] \in {"piece", "finished"} /\ Working(r, nodeAt[j])
     \/ place[j] = "claim" /\ Working(r, nodeAt[j]) /\ Pieces(nodeAt[j]) > graph.threads
     \/ place[j] = "barrier" /\ after[j] = "pieces" /\ Converting(r, nodeAt[j])
     \/ place[j] = "barrier" /\ after[j] = "next" /\ Working(r, nodeAt[j]) /\ nodeAt[j] + 1 \in Nodes
     \/ place[j] = "barrier" /\ after[j] = "end" /\ Ending(r, nodeAt[j])

\* The graph is aborted behind the node that thread 0 has just ended, if at all.
AbortFits(r) ==
  \/ r.kind = "abort" /\ abortAt = r.base
  \/ r.kind # "abort" /\ abortAt = -1
  \/ /\ r.kind # "abort" /\ place[0] = "barrier" /\ after[0] = "next"
     /\ abortAt = nodeAt[0] + 1
  \/ r.kind # "abort" /\ GraphOver(r, nodeAt[0]) /\ abortAt = Len(Ops)

-----------------------------------------------------------------------------
(* The pieces of the node that is being computed.                           *)

NotYet(j, m) ==
  \/ place[j] = "out"
  \/ place[j] = "head" /\ nodeAt[j] <= m
  \/ place[j] = "piece" /\ piece[j] = j

\* A piece belongs to the thread of its number, or was claimed from the counter.
Handed(j, m) ==
  /\ piece[j] \in 0..Pieces(m) - 1
  /\ piece[j] \notin done[m]
  /\ piece[j] = j \/ (graph.threads <= piece[j] /\ piece[j] < nextChunk)

InHand(p) == \E j \in Team : place[j] = "piece" /\ piece[j] = p

PiecesFit(m) ==
  /\ \A p \in done[m] : p \in 0..Pieces(m) - 1 /\ (p < graph.threads \/ p < nextChunk)
  /\ \A j \in Team : j \in done[m] <=> ~NotYet(j, m)
  /\ \A j \in Team : place[j] = "piece" => Handed(j, m)
  /\ \A j, l \in Team :
       j # l /\ place[j] = "piece" /\ place[l] = "piece" => piece[j] # piece[l]
  /\ \A p \in graph.threads..Pieces(m) - 1 : p < nextChunk => p \in done[m] \/ InHand(p)
  /\ Pieces(m) > graph.threads =>
       /\ nextChunk >= graph.threads
       /\ \A j \in Team :
            place[j] \in {"finished", "barrier"} \/ nodeAt[j] > m => nextChunk >= Pieces(m)

DoneFits(r) ==
  \A l \in Nodes :
    /\ l < r.base => Whole(l)
    /\ l >= r.base /\ ~Working(r, l) => done[l] = {}
    /\ Working(r, l) => PiecesFit(l)

ConvertFits(r) ==
  /\ \A l \in Nodes : converted[l] \subseteq Team
  /\ \A j \in Team : place[j] = "barrier" /\ after[j] = "pieces" => j \in converted[nodeAt[j]]
  /\ r.kind = "pieces" => converted[r.base] = Team
  /\ place[0] = "barrier" /\ after[0] = "pieces" => nextChunk = graph.threads

-----------------------------------------------------------------------------
InRegion(r) ==
  /\ \A j \in Team : Fits(j, r)
  /\ AbortFits(r) /\ DoneFits(r) /\ ConvertFits(r)

Running ==
  /\ \A j \in Threads \ Team : place[j] = "out"
  /\ \E r \in Regions : InRegion(r)

ResultWhole ==
  \A n \in Nodes : IF abortAt = -1 \/ n < abortAt THEN Whole(n) ELSE done[n] = {}

Between ==
  /\ \A j \in Threads : place[j] = "out"
  /\ \A j \in Team \ {0} : last[j] = graph.number
  /\ at[0] = "kickoff" =>
       abortAt = -1 /\ \A n \in Nodes : converted[n] = {} /\ done[n] = {}
  /\ at[0] \notin {"kickoff", "join", "freed"} /\ graph.number > 0 => ResultWhole

\* The barrier counts those that wait, until the last one sets it back.
Waiters == {j \in Threads : at[j] = "spin" /\ seen[j] = nPassed}

BarrierInv ==
  /\ \A j \in Threads : seen[j] <= nPassed /\ (at[j] = "arrive" => seen[j] = nPassed)
  /\ \A j \in Threads : at[j] \in {"reset", "pass"} => Waiters = Team \ {j}
  /\ \A j \in Threads : at[j] = "pass" => nBarrier = 0
  /\ (\A j \in Threads : at[j] \notin {"reset", "pass"}) => nBarrier = Cardinality(Waiters)

CallerPlaces == {"idle", "kickoff", "join", "freed"}
WorkerPlaces == {"top", "check", "wait work", "wait pause", "ended"}

Typed ==
  /\ graph \in [number : Nat, threads : 1..PoolSize]
  /\ nBarrier \in Nat /\ nPassed \in Nat /\ nextChunk \in Nat
  /\ abortAt \in Int
  /\ at \in [Threads -> PoolPlaces]
  /\ after \in [Threads -> {"pieces", "next", "end"}]
  /\ node \in [Threads -> Nat]
  /\ chunk \in [Threads -> Nat] /\ seen \in [Threads -> Nat] /\ last \in [Threads -> Nat]
  /\ converted \in [Nodes -> SUBSET Threads] /\ done \in [Nodes -> SUBSET Nat]
  /\ \A j \in Threads : last[j] <= graph.number
  /\ at[0] \notin WorkerPlaces
  /\ \A j \in Threads \ {0} : at[j] \notin CallerPlaces

PoolInv ==
  /\ Typed /\ BarrierInv
  /\ IF place[0] = "out" THEN Between ELSE Running

-----------------------------------------------------------------------------
(* What the constants and the types give.                                   *)

LEMMA Constants ==
  /\ PoolSize \in Nat \ {0} /\ RowChunks \in Nat \ {0} /\ Len(Ops) \in Nat
  /\ 0 \in Threads /\ Threads \subseteq Nat
  /\ \A k : k \in Nodes <=> k \in Int /\ 0 <= k /\ k < Len(Ops)
  /\ \A k \in Nodes : Op(k) \in {"none", "rows", "mul_mat"}
BY PoolAssumption DEF Threads, Nodes, Op

LEMMA TeamIs ==
  ASSUME graph \in [number : Nat, threads : 1..PoolSize]
  PROVE  /\ graph.threads \in Nat \ {0} /\ graph.number \in Nat
         /\ Team \subseteq Threads /\ 0 \in Team
         /\ \A k : k \in Team <=> k \in Int /\ 0 <= k /\ k < graph.threads
         /\ IsFiniteSet(Team) /\ Cardinality(Team) = graph.threads
<1>1. graph.threads \in 1..PoolSize /\ graph.number \in Nat
  OBVIOUS
<1>2. IsFiniteSet(0..graph.threads - 1)
        /\ Cardinality(0..graph.threads - 1) =
             IF 0 > graph.threads - 1 THEN 0 ELSE graph.threads - 1 - 0 + 1
  <2>1. 0 \in Int /\ graph.threads - 1 \in Int
    BY <1>1, Constants
  <2> QED BY <2>1, FS_Interval
<1> QED BY <1>1, <1>2, Constants DEF Team, Threads

LEMMA PiecesAre ==
  ASSUME graph \in [number : Nat, threads : 1..PoolSize], NEW k \in Nodes
  PROVE  /\ Pieces(k) \in Nat
         /\ Op(k) = "none" => Pieces(k) = 0
         /\ Op(k) = "rows" => Pieces(k) = graph.threads
         /\ Op(k) # "none" => Pieces(k) >= graph.threads
BY TeamIs, Constants DEF Pieces

LEMMA Views ==
  ASSUME Typed
  PROVE  /\ place \in [Threads -> Places]
         /\ nodeAt \in [Threads -> Nat] /\ piece \in [Threads -> Nat]
<1>1. \A j \in Threads : Kind(at[j]) \in Places
  BY DEF Typed, Kind, Places, PoolPlaces, OutPlaces, BarrierPlaces
<1>2. \A j \in Threads : Behind(j) \in Places
  BY DEF Typed, Behind, Places
<1>3. place \in [Threads -> Places]
  BY <1>1, <1>2 DEF place
<1>4. nodeAt \in [Threads -> Nat]
  BY DEF Typed, nodeAt
<1>5. piece \in [Threads -> Nat]
  BY Constants DEF Typed, piece
<1> QED BY <1>3, <1>4, <1>5

-----------------------------------------------------------------------------
(* Types.                                                                   *)

LEMMA TypedStart == PoolInit => Typed
<1> SUFFICES ASSUME PoolInit PROVE Typed
  OBVIOUS
<1>1. graph \in [number : Nat, threads : 1..PoolSize]
  BY Constants DEF PoolInit
<1>2. at \in [Threads -> PoolPlaces] /\ at[0] \notin WorkerPlaces
        /\ \A j \in Threads \ {0} : at[j] \notin CallerPlaces
  BY Constants DEF PoolInit, PoolPlaces, WorkerPlaces, CallerPlaces
<1>3. converted \in [Nodes -> SUBSET Threads] /\ done \in [Nodes -> SUBSET Nat]
  <2>1. {} \in SUBSET Threads /\ {} \in SUBSET Nat
    OBVIOUS
  <2> QED BY <2>1 DEF PoolInit
<1> QED BY <1>1, <1>2, <1>3, Constants DEF PoolInit, Typed

\* A step that leaves the shared variables and the history alone.
LEMMA TypedLocal ==
  ASSUME Typed, UNCHANGED <<sharedVars, historyVars>>, NEW i \in Threads,
         NEW pc \in PoolPlaces, at' = [at EXCEPT ![i] = pc],
         i = 0 => pc \notin WorkerPlaces, i # 0 => pc \notin CallerPlaces,
         after' \in [Threads -> {"pieces", "next", "end"}],
         node' \in [Threads -> Nat], chunk' \in [Threads -> Nat], seen' \in [Threads -> Nat],
         last' \in [Threads -> Nat], \A j \in Threads : last'[j] <= graph.number
  PROVE  Typed'
<1>1. at' \in [Threads -> PoolPlaces] /\ at'[0] \notin WorkerPlaces
        /\ \A j \in Threads \ {0} : at'[j] \notin CallerPlaces
  BY Constants DEF Typed
<1> QED BY <1>1 DEF Typed, sharedVars, historyVars

LEMMA LeaveTypes ==
  ASSUME Typed, NEW i \in Threads, Leave(i)
  PROVE  /\ \E pc \in PoolPlaces :
              /\ at' = [at EXCEPT ![i] = pc]
              /\ pc = (IF after[i] = "end" THEN (IF i = 0 THEN "idle" ELSE "top") ELSE Behind(i))
              /\ i = 0 => pc \notin WorkerPlaces
              /\ i # 0 => pc \notin CallerPlaces
         /\ node' \in [Threads -> Nat] /\ chunk' \in [Threads -> Nat]
<1>1. after[i] \in {"pieces", "next", "end"} /\ i \in Nat /\ node[i] \in Nat
  BY Constants DEF Typed
<1>2. node' \in [Threads -> Nat] /\ chunk' \in [Threads -> Nat]
  BY <1>1 DEF Typed, Leave, SetLocal
<1>3. CASE after[i] = "pieces"
  BY <1>2, <1>3 DEF Leave, Goto, PoolPlaces, WorkerPlaces, CallerPlaces, Behind
<1>4. CASE after[i] = "next"
  BY <1>2, <1>4 DEF Leave, Goto, PoolPlaces, WorkerPlaces, CallerPlaces, Behind
<1>5. CASE after[i] = "end"
  BY <1>2, <1>5 DEF Leave, Goto, PoolPlaces, WorkerPlaces, CallerPlaces, Behind
<1> QED BY <1>1, <1>3, <1>4, <1>5

LEMMA TypedBarrier ==
  ASSUME Typed, NEW i \in Threads, BarrierStep(i) PROVE Typed'
<1>1. CASE Enter(i)
  <2>1. CASE graph.threads = 1 /\ Leave(i) /\ seen' = seen
    <3>1. UNCHANGED <<sharedVars, after, last, historyVars>>
      BY <1>1 DEF Enter
    <3> QED BY <2>1, <3>1, LeaveTypes, TypedLocal DEF Typed
  <2>2. CASE Goto(i, "arrive") /\ seen' = SetLocal(seen, i, nPassed) /\ UNCHANGED <<chunk, node>>
    <3>1. UNCHANGED <<sharedVars, after, last, historyVars>>
      BY <1>1 DEF Enter
    <3>2. "arrive" \in PoolPlaces /\ "arrive" \notin WorkerPlaces /\ "arrive" \notin CallerPlaces
      BY DEF PoolPlaces, WorkerPlaces, CallerPlaces
    <3>3. seen' \in [Threads -> Nat]
      BY <2>2 DEF Typed, SetLocal
    <3>4. at' = [at EXCEPT ![i] = "arrive"]
      BY <2>2 DEF Goto
    <3> QED BY <2>2, <3>1, <3>2, <3>3, <3>4, TypedLocal DEF Typed
  <2> QED BY <1>1, <2>1, <2>2 DEF Enter
<1>2. CASE Arrive(i)
  <2>1. PICK pc \in {"reset", "spin"} : at' = [at EXCEPT ![i] = pc]
    BY <1>2 DEF Arrive, Goto
  <2>2. at' \in [Threads -> PoolPlaces] /\ at'[0] \notin WorkerPlaces
          /\ \A j \in Threads \ {0} : at'[j] \notin CallerPlaces
    BY <2>1, Constants DEF Typed, PoolPlaces, WorkerPlaces, CallerPlaces
  <2> QED BY <1>2, <2>2 DEF Arrive, Typed, localVars, historyVars
<1>3. CASE Reset(i)
  <2>1. at' = [at EXCEPT ![i] = "pass"]
    BY <1>3 DEF Reset, Goto
  <2>2. at' \in [Threads -> PoolPlaces] /\ at'[0] \notin WorkerPlaces
          /\ \A j \in Threads \ {0} : at'[j] \notin CallerPlaces
    BY <2>1, Constants DEF Typed, PoolPlaces, WorkerPlaces, CallerPlaces
  <2> QED BY <1>3, <2>2 DEF Reset, Typed, localVars, historyVars
<1>4. CASE Pass(i)
  <2>1. PICK pc \in PoolPlaces : /\ at' = [at EXCEPT ![i] = pc]
                                 /\ i = 0 => pc \notin WorkerPlaces
                                 /\ i # 0 => pc \notin CallerPlaces
    BY <1>4, LeaveTypes DEF Pass
  <2>2. at' \in [Threads -> PoolPlaces] /\ at'[0] \notin WorkerPlaces
          /\ \A j \in Threads \ {0} : at'[j] \notin CallerPlaces
    BY <2>1, Constants DEF Typed
  <2>3. node' \in [Threads -> Nat] /\ chunk' \in [Threads -> Nat]
    BY <1>4, LeaveTypes DEF Pass
  <2> QED BY <1>4, <2>2, <2>3 DEF Pass, Typed, historyVars
<1>5. CASE Spin(i)
  <2>1. UNCHANGED <<sharedVars, after, seen, last, historyVars>>
    BY <1>5 DEF Spin
  <2> QED BY <1>5, <2>1, LeaveTypes, TypedLocal DEF Spin, Typed
<1> QED BY <1>1, <1>2, <1>3, <1>4, <1>5 DEF BarrierStep

LEMMA TypedGraphStep ==
  ASSUME Typed, NEW i \in Threads, NextNode(i) \/ Convert(i) \/ Compute(i) \/ Claim(i) \/ EndNode(i)
  PROVE  Typed'
<1> USE DEF Typed, SetLocal
<1>0. i \in Nat /\ node[i] \in Nat /\ graph.threads \in Nat /\ graph.number \in Nat
  BY Constants, TeamIs
<1>1. ASSUME NEW pc \in {"enter", "head", "convert", "piece", "claim", "finished"},
             at' = [at EXCEPT ![i] = pc]
      PROVE  /\ at' \in [Threads -> PoolPlaces] /\ at'[0] \notin WorkerPlaces
             /\ \A j \in Threads \ {0} : at'[j] \notin CallerPlaces
  BY <1>1, Constants DEF PoolPlaces, WorkerPlaces, CallerPlaces
<1>2. CASE NextNode(i)
  <2>1. UNCHANGED <<sharedVars, seen, last, historyVars>>
    BY <1>2 DEF NextNode
  <2>2. node' \in [Threads -> Nat] /\ chunk' \in [Threads -> Nat]
          /\ after' \in [Threads -> {"pieces", "next", "end"}]
    BY <1>0, <1>2 DEF NextNode, ToBarrier
  <2>3. at' = at \/ \E pc \in {"enter", "piece", "convert"} : at' = [at EXCEPT ![i] = pc]
    BY <1>2 DEF NextNode, ToBarrier, Goto
  <2> QED BY <1>1, <2>1, <2>2, <2>3 DEF sharedVars, historyVars
<1>3. CASE Convert(i)
  <2>1. at' = [at EXCEPT ![i] = "enter"] /\ after' \in [Threads -> {"pieces", "next", "end"}]
    BY <1>3 DEF Convert, ToBarrier, Goto
  <2>2. nextChunk' \in Nat /\ converted' \in [Nodes -> SUBSET Threads]
    BY <1>0, <1>3 DEF Convert
  <2> QED BY <1>1, <1>3, <2>1, <2>2 DEF Convert
<1>4. CASE Compute(i)
  <2>1. \E pc \in {"claim", "finished"} : at' = [at EXCEPT ![i] = pc]
    BY <1>4 DEF Compute, Goto
  <2>2. done' \in [Nodes -> SUBSET Nat]
    BY <1>0, <1>4 DEF Compute
  <2> QED BY <1>1, <1>4, <2>1, <2>2 DEF Compute, sharedVars, localVars
<1>5. CASE Claim(i)
  <2>1. \E pc \in {"piece", "finished"} : at' = [at EXCEPT ![i] = pc]
    BY <1>5 DEF Claim, Goto
  <2>2. chunk' \in [Threads -> Nat] /\ nextChunk' \in Nat
    BY <1>5 DEF Claim
  <2> QED BY <1>1, <1>5, <2>1, <2>2 DEF Claim, historyVars
<1>6. CASE EndNode(i)
  <2>1. \E pc \in {"enter", "head"} : at' = [at EXCEPT ![i] = pc]
    BY <1>6 DEF EndNode, ToBarrier, Goto
  <2>2. node' \in [Threads -> Nat] /\ after' \in [Threads -> {"pieces", "next", "end"}]
    BY <1>0, <1>6 DEF EndNode, ToBarrier
  <2>3. abortAt' \in Int
    BY <1>0, <1>6 DEF EndNode
  <2> QED BY <1>1, <1>6, <2>1, <2>2, <2>3 DEF EndNode, historyVars
<1> QED BY <1>2, <1>3, <1>4, <1>5, <1>6

\* ggml_cond_broadcast moves only those who wait.
LEMMA WokenKeeps ==
  ASSUME NEW pcs \in [Threads -> PoolPlaces], pcs[0] \notin WorkerPlaces,
         \A j \in Threads \ {0} : pcs[j] \notin CallerPlaces
  PROVE  /\ Woken(pcs) \in [Threads -> PoolPlaces] /\ Woken(pcs)[0] = pcs[0]
         /\ \A j \in Threads \ {0} : Woken(pcs)[j] \notin CallerPlaces
         /\ \A j \in Threads : Woken(pcs)[j] = pcs[j]
              \/ (pcs[j] \in WorkerPlaces /\ Woken(pcs)[j] \in WorkerPlaces)
BY Constants DEF Woken, PoolPlaces, WorkerPlaces, CallerPlaces

LEMMA TypedCaller ==
  ASSUME Typed, Prepare \/ Kickoff \/ PauseOrResume \/ FreePool \/ Joined PROVE Typed'
<1> USE DEF Typed
<1>1. ASSUME NEW pc \in {"kickoff", "head", "join", "freed"}, NEW pcs, pcs = [at EXCEPT ![0] = pc]
      PROVE  /\ pcs \in [Threads -> PoolPlaces] /\ pcs[0] = pc /\ pcs[0] \notin WorkerPlaces
             /\ \A j \in Threads \ {0} : pcs[j] \notin CallerPlaces
  BY <1>1, Constants DEF PoolPlaces, WorkerPlaces, CallerPlaces
<1>2. CASE Prepare
  <2>1. at' = [at EXCEPT ![0] = "kickoff"]
    BY <1>2 DEF Prepare, Goto
  <2>2. converted' \in [Nodes -> SUBSET Threads] /\ done' \in [Nodes -> SUBSET Nat]
    <3>1. {} \in SUBSET Threads /\ {} \in SUBSET Nat
      OBVIOUS
    <3> QED BY <1>2, <3>1 DEF Prepare
  <2> QED BY <1>1, <1>2, <2>1, <2>2 DEF Prepare, localVars
<1>3. CASE Kickoff
  <2>1. at' = Woken([at EXCEPT ![0] = "head"])
    BY <1>3 DEF Kickoff
  <2>2. at' \in [Threads -> PoolPlaces] /\ at'[0] \notin WorkerPlaces
          /\ \A j \in Threads \ {0} : at'[j] \notin CallerPlaces
    BY <1>1, <2>1, WokenKeeps
  <2>3. PICK n \in 1..PoolSize : graph' = [number |-> graph.number + 1, threads |-> n]
    BY <1>3 DEF Kickoff, NewGraph
  <2>4. graph' \in [number : Nat, threads : 1..PoolSize] /\ graph'.number = graph.number + 1
    BY <2>3
  <2>5. \A j \in Threads : last'[j] <= graph'.number
    BY <1>3, <2>4 DEF Kickoff
  <2>6. node' \in [Threads -> Nat]
    BY <1>3 DEF Kickoff, SetLocal
  <2> QED BY <1>3, <2>2, <2>4, <2>5, <2>6 DEF Kickoff, historyVars
<1>4. CASE PauseOrResume
  BY <1>4, WokenKeeps DEF PauseOrResume, localVars, historyVars
<1>5. CASE FreePool
  <2>1. at' = Woken([at EXCEPT ![0] = "join"])
    BY <1>5 DEF FreePool
  <2>2. at' \in [Threads -> PoolPlaces] /\ at'[0] \notin WorkerPlaces
          /\ \A j \in Threads \ {0} : at'[j] \notin CallerPlaces
    BY <1>1, <2>1, WokenKeeps
  <2> QED BY <1>5, <2>2 DEF FreePool, localVars, historyVars
<1>6. CASE Joined
  <2>1. at' = [at EXCEPT ![0] = "freed"]
    BY <1>6 DEF Joined, Goto
  <2> QED BY <1>1, <1>6, <2>1 DEF Joined, sharedVars, localVars, historyVars
<1> QED BY <1>2, <1>3, <1>4, <1>5, <1>6

LEMMA TypedWorker ==
  ASSUME Typed, NEW i \in Threads \ {0}, Top(i) \/ CheckForWork(i) PROVE Typed'
<1>1. CASE Top(i)
  <2>1. PICK pc \in {"wait pause", "ended", "check"} : at' = [at EXCEPT ![i] = pc]
    BY <1>1 DEF Top, Goto
  <2>2. pc \in PoolPlaces /\ pc \notin CallerPlaces
    BY DEF PoolPlaces, CallerPlaces
  <2> QED BY <1>1, <2>1, <2>2, TypedLocal DEF Top, Typed, localVars
<1>2. CASE CheckForWork(i)
  <2>1. \E pc \in {"top", "head", "wait work", "check"} : at' = [at EXCEPT ![i] = pc]
    BY <1>2 DEF CheckForWork, Goto, Typed
  <2>2. \A pc \in {"top", "head", "wait work", "check"} : pc \in PoolPlaces /\ pc \notin CallerPlaces
    BY DEF PoolPlaces, CallerPlaces
  <2>3. node' \in [Threads -> Nat] /\ last' \in [Threads -> Nat]
          /\ \A j \in Threads : last'[j] <= graph.number
    <3>1. graph.number \in Nat
      BY TeamIs DEF Typed
    <3>2. CASE last' = SetLocal(last, i, graph.number)
            /\ (node' = node \/ node' = SetLocal(node, i, 0))
      BY <3>1, <3>2 DEF Typed, SetLocal
    <3>3. CASE UNCHANGED <<last, node>>
      BY <3>3 DEF Typed
    <3> QED BY <1>2, <3>2, <3>3 DEF CheckForWork
  <2>4. UNCHANGED <<sharedVars, after, chunk, seen, historyVars>>
    BY <1>2 DEF CheckForWork
  <2> QED BY <2>1, <2>2, <2>3, <2>4, TypedLocal DEF Typed
<1> QED BY <1>1, <1>2

LEMMA TypedStep == ASSUME Typed, PoolNext PROVE Typed'
BY Constants, TypedBarrier, TypedGraphStep, TypedCaller, TypedWorker
   DEF PoolNext, CallerStep, WorkerStep, GraphStep

-----------------------------------------------------------------------------
(* What a step does to where the threads are for one another.               *)

LEMMA ViewOf ==
  ASSUME Typed, NEW i \in Threads
  PROVE  /\ ~Stale(i) => place[i] = Kind(at[i]) /\ nodeAt[i] = node[i] /\ piece[i] = chunk[i]
         /\ Stale(i) => /\ place[i] = Behind(i)
                        /\ nodeAt[i] = (IF after[i] = "next" THEN node[i] + 1 ELSE node[i])
                        /\ piece[i] = (IF after[i] = "pieces" THEN i ELSE chunk[i])
         /\ at[i] # "spin" => ~Stale(i)
BY DEF place, nodeAt, piece, Stale

SameView(j) == place'[j] = place[j] /\ nodeAt'[j] = nodeAt[j] /\ piece'[j] = piece[j]

LEMMA ViewKept ==
  ASSUME Typed, Typed', NEW j \in Threads, nPassed' = nPassed, at'[j] = at[j], after'[j] = after[j],
         node'[j] = node[j], chunk'[j] = chunk[j], seen'[j] = seen[j]
  PROVE  SameView(j)
BY DEF SameView, place, nodeAt, piece, Stale, Behind

LEMMA ViewNow ==
  ASSUME Typed, Typed', NEW i \in Threads, at'[i] = "spin" => seen'[i] = nPassed'
  PROVE  place'[i] = Kind(at'[i]) /\ nodeAt'[i] = node'[i] /\ piece'[i] = chunk'[i]
BY DEF place, nodeAt, piece, Stale, Kind

LEMMA KindIs ==
  /\ \A pc \in OutPlaces : Kind(pc) = "out"
  /\ \A pc \in BarrierPlaces : Kind(pc) = "barrier"
  /\ \A pc \in {"head", "convert", "piece", "claim", "finished"} : Kind(pc) = pc
BY DEF Kind, OutPlaces, BarrierPlaces

LEMMA KindInv ==
  ASSUME NEW pc \in PoolPlaces
  PROVE  /\ Kind(pc) = "out" => pc \in OutPlaces
         /\ Kind(pc) = "barrier" => pc \in BarrierPlaces
         /\ \A p \in {"head", "convert", "piece", "claim", "finished"} : Kind(pc) = p => pc = p
BY DEF Kind, OutPlaces, BarrierPlaces, PoolPlaces

\* Where a thread goes on that leaves the barrier.
LEMMA LeaveTo ==
  ASSUME Typed, NEW i \in Threads, Leave(i)
  PROVE  /\ \A j \in Threads \ {i} : at'[j] = at[j] /\ node'[j] = node[j] /\ chunk'[j] = chunk[j]
         /\ at'[i] \notin {"enter", "arrive", "reset", "pass", "spin", "kickoff", "join", "freed"}
         /\ Kind(at'[i]) = Behind(i)
         /\ node'[i] = (IF after[i] = "next" THEN node[i] + 1 ELSE node[i])
         /\ chunk'[i] = (IF after[i] = "pieces" THEN i ELSE chunk[i])
<1>1. after[i] \in {"pieces", "next", "end"}
  BY DEF Typed
<1>2. CASE after[i] = "pieces"
  BY <1>2, KindIs DEF Typed, Leave, Goto, SetLocal, Behind
<1>3. CASE after[i] = "next"
  BY <1>3, KindIs DEF Typed, Leave, Goto, SetLocal, Behind
<1>4. CASE after[i] = "end"
  BY <1>4, KindIs DEF Typed, Leave, Goto, SetLocal, Behind, OutPlaces
<1> QED BY <1>1, <1>2, <1>3, <1>4

LEMMA ArriveView ==
  ASSUME Typed, Typed', BarrierInv, NEW i \in Threads, Arrive(i) \/ Reset(i)
  PROVE  \A j \in Threads : SameView(j)
<1>1. /\ at[i] \in BarrierPlaces /\ ~Stale(i)
      /\ at'[i] \in BarrierPlaces /\ (at'[i] = "spin" => seen'[i] = nPassed')
  BY DEF Arrive, Reset, Goto, BarrierPlaces, Stale, BarrierInv, Typed, localVars
<1>2. nPassed' = nPassed /\ UNCHANGED localVars
  BY DEF Arrive, Reset
<1>3. \A j \in Threads \ {i} : at'[j] = at[j]
  BY DEF Arrive, Reset, Goto, Typed
<1>4. SameView(i)
  BY <1>1, <1>2, ViewOf, ViewNow, KindIs DEF SameView, localVars
<1>5. \A j \in Threads \ {i} : SameView(j)
  BY <1>2, <1>3, ViewKept DEF localVars
<1> QED BY <1>4, <1>5

LEMMA SpinView ==
  ASSUME Typed, Typed', NEW i \in Threads, Spin(i)
  PROVE  \A j \in Threads : SameView(j)
<1>1. Stale(i) /\ Leave(i) /\ UNCHANGED <<sharedVars, after, seen, last, historyVars>>
  BY DEF Spin, Stale
<1>2. SameView(i)
  BY <1>1, LeaveTo, ViewOf, ViewNow DEF SameView
<1>3. \A j \in Threads \ {i} : SameView(j)
  BY <1>1, LeaveTo, ViewKept DEF sharedVars
<1> QED BY <1>2, <1>3

LEMMA EnterView ==
  ASSUME Typed, Typed', NEW i \in Threads, Enter(i), graph.threads # 1
  PROVE  \A j \in Threads : SameView(j)
<1>1. /\ at[i] = "enter" /\ at' = [at EXCEPT ![i] = "arrive"] /\ seen' = [seen EXCEPT ![i] = nPassed]
      /\ UNCHANGED <<chunk, node, sharedVars, after>>
  BY DEF Enter, Goto, SetLocal
<1>2. at'[i] = "arrive" /\ \A j \in Threads \ {i} : at'[j] = at[j] /\ seen'[j] = seen[j]
  BY <1>1 DEF Typed
<1>3. SameView(i)
  BY <1>1, <1>2, ViewOf, ViewNow, KindIs DEF SameView, BarrierPlaces
<1>4. \A j \in Threads \ {i} : SameView(j)
  BY <1>1, <1>2, ViewKept DEF sharedVars
<1> QED BY <1>3, <1>4

\* The last to arrive lets all of them go on.
LEMMA PassView ==
  ASSUME Typed, Typed', BarrierInv, NEW i \in Threads, Pass(i)
  PROVE  /\ \A j \in Team \cup {i} :
              /\ place[j] = "barrier" /\ place'[j] = Behind(j)
              /\ nodeAt'[j] = (IF after[j] = "next" THEN nodeAt[j] + 1 ELSE nodeAt[j])
              /\ piece'[j] = (IF after[j] = "pieces" THEN j ELSE piece[j])
         /\ \A j \in Threads \ (Team \cup {i}) : SameView(j)
<1>1. /\ at[i] = "pass" /\ nPassed' = nPassed + 1 /\ Leave(i)
      /\ UNCHANGED <<graph, after, seen>>
  BY DEF Pass
<1>2. Waiters = Team \ {i}
  BY <1>1 DEF BarrierInv
<1>3. i \in Threads /\ Team \subseteq Threads /\ nPassed \in Nat
  BY TeamIs DEF Typed
<1>4. ASSUME NEW j \in Team \ {i}
      PROVE  /\ place[j] = "barrier" /\ place'[j] = Behind(j)
             /\ nodeAt'[j] = (IF after[j] = "next" THEN nodeAt[j] + 1 ELSE nodeAt[j])
             /\ piece'[j] = (IF after[j] = "pieces" THEN j ELSE piece[j])
  <2>1. at[j] = "spin" /\ seen[j] = nPassed /\ j \in Threads
    BY <1>2, <1>3, <1>4 DEF Waiters
  <2>2. /\ at'[j] = at[j] /\ node'[j] = node[j] /\ chunk'[j] = chunk[j]
        /\ after'[j] = after[j] /\ seen'[j] = seen[j]
    BY <1>1, <1>4, <2>1, LeaveTo
  <2>3. ~Stale(j) /\ Stale(j)'
    BY <1>1, <1>3, <2>1, <2>2 DEF Stale
  <2>4. place[j] = "barrier" /\ nodeAt[j] = node[j] /\ piece[j] = chunk[j]
    BY <2>1, <2>3, ViewOf, KindIs DEF BarrierPlaces
  <2>5. /\ place'[j] = Behind(j)
        /\ nodeAt'[j] = (IF after[j] = "next" THEN node[j] + 1 ELSE node[j])
        /\ piece'[j] = (IF after[j] = "pieces" THEN j ELSE chunk[j])
    BY <2>1, <2>2, <2>3 DEF place, nodeAt, piece, Behind
  <2> QED BY <2>4, <2>5
<1>5. /\ place[i] = "barrier" /\ place'[i] = Behind(i)
      /\ nodeAt'[i] = (IF after[i] = "next" THEN nodeAt[i] + 1 ELSE nodeAt[i])
      /\ piece'[i] = (IF after[i] = "pieces" THEN i ELSE piece[i])
  <2>1. place[i] = "barrier" /\ nodeAt[i] = node[i] /\ piece[i] = chunk[i]
    BY <1>1, ViewOf, KindIs DEF BarrierPlaces
  <2> QED BY <1>1, <2>1, LeaveTo, ViewNow
<1>6. ASSUME NEW j \in Threads \ (Team \cup {i}) PROVE SameView(j)
  <2>1. /\ at'[j] = at[j] /\ node'[j] = node[j] /\ chunk'[j] = chunk[j]
        /\ after'[j] = after[j] /\ seen'[j] = seen[j]
    BY <1>1, <1>6, LeaveTo
  <2>2. at[j] = "spin" => seen[j] # nPassed /\ seen[j] <= nPassed /\ seen[j] \in Nat
    BY <1>2, <1>6 DEF Waiters, BarrierInv, Typed
  <2>3. Stale(j)' <=> Stale(j)
    BY <1>1, <1>3, <2>1, <2>2 DEF Stale
  <2>4. Behind(j)' = Behind(j)
    BY <2>1 DEF Behind
  <2> QED BY <2>1, <2>3, <2>4 DEF SameView, place, nodeAt, piece
<1> QED BY <1>4, <1>5, <1>6

LEMMA AloneView ==
  ASSUME Typed, Typed', NEW i \in Threads, Enter(i), graph.threads = 1, i \in Team
  PROVE  /\ \A j \in Team :
              /\ place[j] = "barrier" /\ place'[j] = Behind(j)
              /\ nodeAt'[j] = (IF after[j] = "next" THEN nodeAt[j] + 1 ELSE nodeAt[j])
              /\ piece'[j] = (IF after[j] = "pieces" THEN j ELSE piece[j])
         /\ \A j \in Threads \ Team : SameView(j)
<1>1. at[i] = "enter" /\ Leave(i) /\ UNCHANGED <<seen, sharedVars, after>>
  BY DEF Enter
<1>2. Team = {i}
  <2>1. \A k : k \in Team <=> k \in Int /\ 0 <= k /\ k < 1
    BY TeamIs DEF Typed
  <2>2. \A k \in Int : 0 <= k /\ k < 1 <=> k = 0
    OBVIOUS
  <2>3. Team = {0}
    BY <2>1, <2>2
  <2> QED BY <2>3
<1>3. place[i] = "barrier" /\ nodeAt[i] = node[i] /\ piece[i] = chunk[i]
  BY <1>1, ViewOf, KindIs DEF BarrierPlaces
<1>4. \A j \in Threads \ {i} : SameView(j)
  BY <1>1, LeaveTo, ViewKept DEF sharedVars
<1> QED BY <1>1, <1>2, <1>3, <1>4, LeaveTo, ViewNow

-----------------------------------------------------------------------------
(* The barrier.                                                             *)

Counted == {"arrive", "reset", "pass", "spin"}

\* A step that has nothing to do with it.
LEMMA BarrierKept ==
  ASSUME Typed, Typed', BarrierInv, UNCHANGED <<nBarrier, nPassed, seen>>,
         \A j \in Threads :
           at'[j] = at[j] \/ (at'[j] \notin Counted /\ (at[j] \notin Counted \/ Stale(j))),
         graph' = graph \/ \A j \in Threads : at[j] \notin {"reset", "pass"}
  PROVE  BarrierInv'
<1>1. Waiters' = Waiters
  BY DEF Waiters, Counted, Stale
<1>2. \A j \in Threads : at'[j] \in {"reset", "pass"} <=> at[j] \in {"reset", "pass"}
  BY DEF Counted, Stale
<1>3. \A j \in Threads : at'[j] \in {"reset", "pass"} => Waiters' = Team' \ {j}
  BY <1>1, <1>2 DEF BarrierInv, Team
<1>4. \A j \in Threads : at'[j] = "pass" => nBarrier' = 0
  BY DEF BarrierInv, Counted
<1>5. \A j \in Threads : seen'[j] <= nPassed' /\ (at'[j] = "arrive" => seen'[j] = nPassed')
  BY DEF BarrierInv, Counted
<1>6. (\A j \in Threads : at'[j] \notin {"reset", "pass"}) => nBarrier' = Cardinality(Waiters')
  BY <1>1, <1>2 DEF BarrierInv
<1> QED BY <1>3, <1>4, <1>5, <1>6 DEF BarrierInv

\* Those in the barrier are threads of the graph.
LEMMA InTeam ==
  ASSUME Typed, PoolInv, NEW j \in Threads, place[j] # "out"
  PROVE  j \in Team /\ Running /\ place[0] # "out"
BY DEF PoolInv, Between, Running

LEMMA BarrierEnter ==
  ASSUME PoolInv, Typed', NEW i \in Threads, Enter(i) PROVE BarrierInv'
<1>1. Typed /\ BarrierInv /\ at[i] = "enter" /\ UNCHANGED sharedVars
  BY DEF PoolInv, Enter
<1>2. CASE graph.threads = 1 /\ Leave(i) /\ UNCHANGED seen
  <2>1. \A j \in Threads : at'[j] = at[j] \/ (at'[j] \notin Counted /\ at[j] \notin Counted)
    BY <1>1, <1>2, LeaveTo DEF Counted
  <2> QED BY <1>1, <1>2, <2>1, BarrierKept DEF sharedVars
<1>3. CASE Goto(i, "arrive") /\ seen' = SetLocal(seen, i, nPassed)
  <2>1. /\ at'[i] = "arrive" /\ seen'[i] = nPassed /\ nPassed \in Nat
        /\ \A j \in Threads \ {i} : at'[j] = at[j] /\ seen'[j] = seen[j]
    BY <1>1, <1>3 DEF Typed, Goto, SetLocal
  <2>2. Waiters' = Waiters
    BY <1>1, <2>1 DEF Waiters, sharedVars
  <2>3. Team' = Team /\ nBarrier' = nBarrier /\ nPassed' = nPassed
    BY <1>1 DEF Team, sharedVars
  <2> QED BY <1>1, <2>1, <2>2, <2>3 DEF BarrierInv
<1> QED BY <1>2, <1>3 DEF Enter

LEMMA BarrierArrive ==
  ASSUME PoolInv, Typed', NEW i \in Threads, Arrive(i) PROVE BarrierInv'
<1>1. /\ Typed /\ BarrierInv /\ at[i] = "arrive" /\ nBarrier' = nBarrier + 1
      /\ UNCHANGED <<graph, nPassed, seen>>
  BY DEF PoolInv, Arrive, localVars
<1>2. \A j \in Threads : at[j] \in Counted /\ ~Stale(j) => j \in Team
  BY <1>1, InTeam, ViewOf, KindIs DEF Counted, BarrierPlaces
<1>3. i \in Team
  BY <1>1, <1>2 DEF Counted, Stale
<1>4. \A j \in Threads : at[j] \notin {"reset", "pass"}
  BY <1>1, <1>3 DEF BarrierInv, Waiters
<1>5. nBarrier = Cardinality(Waiters)
  BY <1>1, <1>4 DEF BarrierInv
<1>6. Waiters \subseteq Team \ {i}
  BY <1>1, <1>2 DEF Waiters, Counted, Stale
<1>7. IsFiniteSet(Team) /\ Cardinality(Team) = graph.threads /\ graph.threads \in Nat
  BY <1>1, TeamIs DEF Typed
<1>8. IsFiniteSet(Team \ {i}) /\ Cardinality(Team \ {i}) = graph.threads - 1
  BY <1>3, <1>7, FS_RemoveElement
<1>9. IsFiniteSet(Waiters) /\ Cardinality(Waiters) \in Nat
  BY <1>6, <1>8, FS_Subset, FS_CardinalityType
<1>10. Team' = Team /\ \A j \in Threads \ {i} : at'[j] = at[j] /\ seen'[j] = seen[j]
  BY <1>1 DEF Team, Arrive, Goto, Typed
<1>11. seen'[i] = nPassed /\ \A j \in Threads : seen'[j] <= nPassed'
  BY <1>1 DEF BarrierInv
<1>12. CASE nBarrier = graph.threads - 1
  <2>1. at'[i] = "reset"
    BY <1>1, <1>12 DEF Arrive, Goto, Typed
  <2>2. Waiters = Team \ {i}
    BY <1>5, <1>6, <1>8, <1>12, FS_Subset
  <2>3. Waiters' = Waiters
    BY <1>1, <1>10, <2>1 DEF Waiters
  <2>4. \A j \in Threads : at'[j] \in {"reset", "pass"} => j = i
    BY <1>4, <1>10
  <2> QED BY <1>1, <1>10, <1>11, <2>1, <2>2, <2>3, <2>4 DEF BarrierInv
<1>13. CASE nBarrier # graph.threads - 1
  <2>1. at'[i] = "spin"
    BY <1>1, <1>13 DEF Arrive, Goto, Typed
  <2>2. Waiters' = Waiters \cup {i}
    BY <1>1, <1>10, <1>11, <2>1 DEF Waiters
  <2>3. Cardinality(Waiters') = Cardinality(Waiters) + 1
    <3>1. i \notin Waiters
      BY <1>6
    <3> QED BY <1>9, <2>2, <3>1, FS_AddElement
  <2>4. \A j \in Threads : at'[j] \notin {"reset", "pass"}
    BY <1>4, <1>10, <2>1
  <2> QED BY <1>1, <1>5, <1>10, <1>11, <2>1, <2>3, <2>4 DEF BarrierInv
<1> QED BY <1>12, <1>13

LEMMA BarrierReset ==
  ASSUME PoolInv, Typed', NEW i \in Threads, Reset(i) PROVE BarrierInv'
<1>1. /\ Typed /\ BarrierInv /\ at[i] = "reset" /\ at'[i] = "pass" /\ nBarrier' = 0
      /\ UNCHANGED <<graph, nPassed, seen>>
      /\ \A j \in Threads \ {i} : at'[j] = at[j]
  BY DEF PoolInv, Reset, localVars, Goto, Typed
<1>2. Waiters' = Waiters /\ Team' = Team
  BY <1>1 DEF Waiters, Team
<1> QED BY <1>1, <1>2 DEF BarrierInv

LEMMA BarrierPass ==
  ASSUME PoolInv, Typed', NEW i \in Threads, Pass(i) PROVE BarrierInv'
<1>1. /\ Typed /\ BarrierInv /\ at[i] = "pass" /\ nBarrier' = nBarrier /\ nPassed' = nPassed + 1
      /\ Leave(i) /\ UNCHANGED <<graph, seen>>
  BY DEF PoolInv, Pass
<1>2. Waiters = Team \ {i} /\ nBarrier = 0
  BY <1>1 DEF BarrierInv
<1>3. \A j \in Threads : at[j] \in Counted /\ ~Stale(j) => j \in Team
  BY <1>1, InTeam, ViewOf, KindIs DEF Counted, BarrierPlaces, PoolInv
<1>4. \A j \in Threads : at[j] \in {"arrive", "reset", "pass"} => j = i
  BY <1>1, <1>2, <1>3 DEF Counted, Stale, Waiters
<1>5. \A j \in Threads : at'[j] \notin {"arrive", "reset", "pass"}
  BY <1>1, <1>4, LeaveTo
<1>6. nPassed \in Nat /\ \A j \in Threads : seen[j] \in Nat /\ seen[j] <= nPassed
  BY <1>1 DEF Typed, BarrierInv
<1>7. Waiters' = {}
  BY <1>1, <1>6 DEF Waiters
<1>8. Cardinality(Waiters') = 0
  BY <1>7, FS_EmptySet
<1>9. \A j \in Threads : seen'[j] <= nPassed'
  BY <1>1, <1>6
<1> QED BY <1>1, <1>2, <1>5, <1>8, <1>9 DEF BarrierInv

LEMMA BarrierSpin ==
  ASSUME PoolInv, Typed', NEW i \in Threads, Spin(i) PROVE BarrierInv'
<1>1. /\ Typed /\ BarrierInv /\ Stale(i) /\ Leave(i) /\ UNCHANGED <<sharedVars, seen>>
  BY DEF PoolInv, Spin, Stale
<1>2. \A j \in Threads : at'[j] = at[j] \/ (at'[j] \notin Counted /\ Stale(j))
  BY <1>1, LeaveTo DEF Counted
<1> QED BY <1>1, <1>2, BarrierKept DEF sharedVars

\* The graph is computed, or the threads look for work: no barrier.
LEMMA BarrierElse ==
  ASSUME PoolInv, Typed', PoolNext, \A i \in Threads : ~BarrierStep(i)
  PROVE  BarrierInv'
<1> DEFINE Else(i) == NextNode(i) \/ Convert(i) \/ Compute(i) \/ Claim(i) \/ EndNode(i)
                        \/ Top(i) \/ CheckForWork(i)
<1>1. Typed /\ BarrierInv /\ UNCHANGED <<nBarrier, nPassed, seen>>
  BY Constants DEF PoolInv, PoolNext, CallerStep, WorkerStep, GraphStep, NextNode, Convert, Compute, Claim,
         EndNode, Prepare, Kickoff, PauseOrResume, FreePool, Joined, Top, CheckForWork, sharedVars,
         localVars
<1>2. CASE \E i \in Threads : Else(i)
  <2>1. PICK i \in Threads : Else(i)
    BY <1>2
  <2>2. graph' = graph
    BY <2>1 DEF NextNode, Convert, Compute, Claim, EndNode, Top, CheckForWork, sharedVars
  <2>3. at[i] \notin Counted /\ \A j \in Threads : at'[j] = at[j] \/ (j = i /\ at'[j] \notin Counted)
    BY <1>1, <2>1 DEF NextNode, Convert, Compute, Claim, EndNode, Top, CheckForWork, ToBarrier, Goto,
           Counted, Typed
  <2> HIDE DEF Else
  <2> QED BY <1>1, <2>2, <2>3, BarrierKept
<1>3. CASE Prepare \/ Joined
  <2>1. graph' = graph /\ at[0] \notin Counted /\ \E pc \in {"kickoff", "freed"} : at' = [at EXCEPT ![0] = pc]
    BY <1>3 DEF Prepare, Joined, Goto, sharedVars, Counted
  <2>2. \A j \in Threads : at'[j] = at[j] \/ (at'[j] \notin Counted /\ at[j] \notin Counted)
    BY <1>1, <2>1, Constants DEF Typed, Counted
  <2> QED BY <1>1, <2>1, <2>2, BarrierKept
<1>4. CASE Kickoff \/ PauseOrResume \/ FreePool
  <2>1. /\ at[0] \in {"idle", "kickoff"}
        /\ \E pc \in {"head", "idle", "join"} : at' = Woken([at EXCEPT ![0] = pc])
    <3>1. CASE PauseOrResume
      <4>1. at = [at EXCEPT ![0] = "idle"]
        BY <1>1, <3>1, Constants DEF PauseOrResume, Typed
      <4> QED BY <3>1, <4>1 DEF PauseOrResume
    <3> QED BY <1>4, <3>1 DEF Kickoff, FreePool
  <2>2. PICK pc \in {"head", "idle", "join"} : at' = Woken([at EXCEPT ![0] = pc])
    BY <2>1
  <2>3. \A j \in Threads : at'[j] = at[j] \/ (at'[j] \notin Counted /\ at[j] \notin Counted)
    BY <1>1, <2>1, <2>2, Constants DEF Woken, Typed, Counted
  <2>4. place[0] = "out"
    BY <1>1, <2>1, ViewOf, KindIs, Constants DEF OutPlaces
  <2>5. \A j \in Threads : at[j] \notin {"reset", "pass"}
    <3> SUFFICES ASSUME NEW j \in Threads, at[j] \in {"reset", "pass"} PROVE FALSE
      OBVIOUS
    <3>1. place[j] = "barrier"
      BY <1>1, ViewOf, KindIs DEF BarrierPlaces
    <3> QED BY <1>1, <2>4, <3>1, InTeam
  <2> QED BY <1>1, <2>3, <2>5, BarrierKept
<1> QED BY <1>2, <1>3, <1>4, Constants DEF PoolNext, CallerStep, WorkerStep, GraphStep

LEMMA BarrierKeeps ==
  ASSUME PoolInv, Typed', PoolNext PROVE BarrierInv'
BY BarrierEnter, BarrierArrive, BarrierReset, BarrierPass, BarrierSpin, BarrierElse DEF BarrierStep

-----------------------------------------------------------------------------
(* Regions.                                                                 *)

\* A region has one node to compute.
LEMMA OneNode ==
  ASSUME NEW r \in Regions, NEW k, NEW l, WorkNode(r, k), WorkNode(r, l)
  PROVE  k = l
BY Constants DEF WorkNode, NoWork, Regions

LEMMA NotBoth ==
  ASSUME NEW r \in Regions, NEW k, NEW l, Working(r, k)
  PROVE  ~Converting(r, l) /\ (Working(r, l) => k = l)
<1>1. ASSUME WorkNode(r, l) PROVE k = l
  BY <1>1, OneNode DEF Working
<1> QED BY <1>1 DEF Working, Converting, WorkNode

LEMMA WorkingIs ==
  ASSUME NEW r \in Regions, NEW k, Working(r, k)
  PROVE  /\ k \in Nodes /\ r.base <= k /\ Op(k) # "none"
         /\ r.kind # "abort" /\ r.kind \in {"head", "pieces"}
         /\ r.kind = "head" => Op(k) = "rows" /\ NoWork(r.base, k)
         /\ r.kind = "pieces" => Op(k) = "mul_mat" /\ k = r.base
BY DEF Working, WorkNode

LEMMA ConvertingIs ==
  ASSUME NEW r \in Regions, NEW k, Converting(r, k)
  PROVE  /\ k \in Nodes /\ r.base <= k /\ r.kind = "head" /\ Op(k) = "mul_mat" /\ NoWork(r.base, k)
         /\ \A l : ~Working(r, l)
BY NotBoth DEF Converting, WorkNode

\* The end of a graph has no node to compute before it, other than one that is over.
LEMMA EndingIs ==
  ASSUME NEW r \in Regions, NEW k, Ending(r, k)
  PROVE  /\ \A l : ~Converting(r, l)
         /\ \A l : Working(r, l) => GraphOver(r, k) /\ k = Len(Ops) /\ l = Len(Ops) - 1
<1>1. CASE r.kind = "abort"
  BY <1>1 DEF Converting, Working, WorkNode
<1>2. CASE r.kind = "head" /\ k = Len(Ops) /\ NoWork(r.base, k)
  BY <1>2, Constants DEF Converting, Working, WorkNode, NoWork
<1>3. CASE GraphOver(r, k)
  BY <1>3, NotBoth DEF GraphOver
<1> QED BY <1>1, <1>2, <1>3 DEF Ending

\* What one thread does in a region leaves the others as they are.
LEMMA FitsKept ==
  ASSUME Typed, Typed', graph' = graph, NEW r \in Regions, NEW j \in Team, Fits(j, r), SameView(j),
         after'[j] = after[j], last'[j] = last[j]
  PROVE  Fits(j, r)'
BY DEF Fits, SameView, Pieces

LEMMA RegionKept ==
  ASSUME Typed, Typed', graph' = graph, NEW r \in Regions, InRegion(r), NEW i \in Team,
         \A j \in Threads \ Team : place[j] = "out",
         \A j \in Threads \ {i} : SameView(j) /\ after'[j] = after[j] /\ last'[j] = last[j],
         Fits(i, r)', AbortFits(r)', DoneFits(r)', ConvertFits(r)'
  PROVE  Running'
<1>1. Team' = Team /\ Team \subseteq Threads
  BY TeamIs DEF Team, Typed
<1>2. \A j \in Team \ {i} : Fits(j, r)'
  BY <1>1, FitsKept DEF InRegion
<1>3. \A j \in Threads \ Team : place'[j] = "out"
  BY DEF SameView
<1> QED BY <1>1, <1>2, <1>3 DEF Running, InRegion

LoopPlaces == {"head", "convert", "piece", "claim", "finished"}

LEMMA LoopView ==
  ASSUME PoolInv, Typed', NEW i \in Threads,
         NextNode(i) \/ Convert(i) \/ Compute(i) \/ Claim(i) \/ EndNode(i)
  PROVE  /\ Typed /\ i \in Team /\ Running /\ place[0] # "out"
         /\ place[i] = at[i] /\ nodeAt[i] = node[i] /\ piece[i] = chunk[i]
         /\ place'[i] = Kind(at'[i]) /\ nodeAt'[i] = node'[i] /\ piece'[i] = chunk'[i]
         /\ place'[i] # "out" /\ (place'[0] # "out")
         /\ graph' = graph /\ Team' = Team /\ \A n : Pieces(n)' = Pieces(n)
         /\ \A j \in Threads \ {i} : SameView(j) /\ after'[j] = after[j] /\ last'[j] = last[j]
         /\ last' = last
<1>1. Typed
  BY DEF PoolInv
<1>2. /\ at[i] \in LoopPlaces /\ at'[i] \in LoopPlaces \cup {"enter"}
      /\ \A j \in Threads \ {i} : /\ at'[j] = at[j] /\ after'[j] = after[j] /\ node'[j] = node[j]
                                  /\ chunk'[j] = chunk[j]
      /\ UNCHANGED <<graph, seen, last, nPassed>>
  BY <1>1 DEF NextNode, Convert, Compute, Claim, EndNode, ToBarrier, Goto, SetLocal, sharedVars,
         localVars, LoopPlaces, Typed
<1>3. place[i] = at[i] /\ nodeAt[i] = node[i] /\ piece[i] = chunk[i]
  BY <1>1, <1>2, ViewOf, KindIs DEF LoopPlaces
<1>4. place'[i] = Kind(at'[i]) /\ nodeAt'[i] = node'[i] /\ piece'[i] = chunk'[i]
  BY <1>1, <1>2, ViewNow DEF LoopPlaces
<1>5. place'[i] # "out"
  BY <1>2, <1>4, KindIs DEF LoopPlaces, BarrierPlaces
<1>6. i \in Team /\ Running /\ place[0] # "out"
  BY <1>1, <1>2, <1>3, InTeam DEF LoopPlaces
<1>7. \A j \in Threads \ {i} : SameView(j) /\ after'[j] = after[j] /\ last'[j] = last[j]
  BY <1>1, <1>2, ViewKept
<1>8. place'[0] # "out"
  BY <1>5, <1>6, <1>7, Constants DEF SameView
<1>9. Team' = Team /\ \A n : Pieces(n)' = Pieces(n)
  BY <1>2 DEF Team, Pieces
<1> QED BY <1>1, <1>2, <1>3, <1>4, <1>5, <1>6, <1>7, <1>8, <1>9

\* A step that computes no piece and claims none.
LEMMA DoneKept ==
  ASSUME Typed, Typed', NEW r \in Regions, DoneFits(r), NEW i \in Team, graph' = graph,
         done' = done, nextChunk' = nextChunk,
         \A j \in Threads \ {i} : SameView(j),
         place[i] # "piece", place'[i] # "piece",
         \A m : Working(r, m) =>
           /\ NotYet(i, m)' <=> NotYet(i, m)
           /\ place'[i] \in {"finished", "barrier"} \/ nodeAt'[i] > m =>
                place[i] \in {"finished", "barrier"} \/ nodeAt[i] > m
  PROVE  DoneFits(r)'
<1>1. Team' = Team /\ (\A n : Pieces(n)' = Pieces(n)) /\ Team \subseteq Threads
  BY TeamIs DEF Team, Pieces, Typed
<1>2. \A n : Whole(n)' <=> Whole(n)
  BY <1>1 DEF Whole
<1>3. \A m, j : Working(r, m) /\ j \in Team => (NotYet(j, m)' <=> NotYet(j, m))
  BY <1>1 DEF NotYet, SameView
<1>4. \A p : InHand(p)' <=> InHand(p)
  BY <1>1 DEF InHand, SameView
<1>5. \A m \in Nodes, j \in Team : place'[j] = "piece" =>
        place[j] = "piece" /\ piece'[j] = piece[j] /\ (Handed(j, m)' <=> Handed(j, m))
  BY <1>1 DEF Handed, SameView
<1>6. ASSUME NEW m \in Nodes, Working(r, m), PiecesFit(m) PROVE PiecesFit(m)'
  <2>1. \A j \in Team : j \in done'[m] <=> ~NotYet(j, m)'
    BY <1>3, <1>6 DEF PiecesFit
  <2>2. \A j \in Team : place'[j] = "piece" => Handed(j, m)'
    BY <1>5, <1>6 DEF PiecesFit
  <2>3. \A j, l \in Team :
          j # l /\ place'[j] = "piece" /\ place'[l] = "piece" => piece'[j] # piece'[l]
    BY <1>5, <1>6 DEF PiecesFit
  <2>4. \A p \in graph.threads..Pieces(m) - 1 : p < nextChunk => p \in done[m] \/ InHand(p)'
    BY <1>4, <1>6 DEF PiecesFit
  <2>5. Pieces(m) > graph.threads =>
          /\ nextChunk >= graph.threads
          /\ \A j \in Team :
               place'[j] \in {"finished", "barrier"} \/ nodeAt'[j] > m => nextChunk >= Pieces(m)
    BY <1>1, <1>6 DEF PiecesFit, SameView
  <2>6. \A p \in done[m] : p \in 0..Pieces(m) - 1 /\ (p < graph.threads \/ p < nextChunk)
    BY <1>6 DEF PiecesFit
  <2> QED BY <1>1, <2>1, <2>2, <2>3, <2>4, <2>5, <2>6 DEF PiecesFit
<1> QED BY <1>2, <1>6 DEF DoneFits

\* A node that is reached past the one with something to compute, and the others.
LEMMA HeadIs ==
  ASSUME Typed, NEW r \in Regions, NEW i \in Team, Fits(i, r), AbortFits(r), \A j \in Team : Fits(j, r),
         place[i] = "head"
  PROVE  /\ nodeAt[i] \in 0..Len(Ops) /\ r.base <= nodeAt[i]
         /\ nodeAt[i] \notin Nodes \/ abortAt = nodeAt[i] =>
              Ending(r, nodeAt[i]) /\ \A m : Working(r, m) => nodeAt[i] > m
         /\ nodeAt[i] \in Nodes /\ abortAt # nodeAt[i] =>
              r.kind = "head" /\ Skipping(r, nodeAt[i])
<1>1. Skipping(r, nodeAt[i]) \/ GraphOver(r, nodeAt[i])
  BY DEF Fits
<1>2. r.base \in 0..Len(Ops) /\ r.kind \in {"head", "pieces", "abort"} /\ Len(Ops) \in Nat
  BY Constants DEF Regions
<1>3. CASE GraphOver(r, nodeAt[i])
  <2>1. nodeAt[i] = Len(Ops) /\ Working(r, Len(Ops) - 1) /\ Ending(r, nodeAt[i])
    BY <1>3 DEF GraphOver, Ending
  <2>2. r.base <= nodeAt[i] /\ nodeAt[i] \notin Nodes
    BY <1>2, <2>1, WorkingIs, Constants
  <2>3. \A m : Working(r, m) => m = Len(Ops) - 1
    BY <2>1, NotBoth
  <2> QED BY <1>2, <2>1, <2>2, <2>3
<1>4. CASE Skipping(r, nodeAt[i]) /\ r.kind = "abort"
  <2>1. nodeAt[i] = r.base /\ abortAt = r.base /\ Ending(r, nodeAt[i])
    BY <1>4 DEF Skipping, AbortFits, Ending
  <2> QED BY <1>2, <1>4, <2>1, WorkingIs
<1>5. CASE Skipping(r, nodeAt[i]) /\ r.kind # "abort"
  <2>1. r.kind = "head" /\ nodeAt[i] \in r.base..Len(Ops) /\ NoWork(r.base, nodeAt[i])
    BY <1>5 DEF Skipping
  <2>2. \A m : Working(r, m) => m >= nodeAt[i] \/ m \notin Nodes
    <3> SUFFICES ASSUME NEW m, Working(r, m), m \in Nodes PROVE m >= nodeAt[i]
      OBVIOUS
    <3>1. r.base <= m /\ Op(m) # "none" /\ m \in Int
      BY WorkingIs, Constants
    <3>2. ~(m < nodeAt[i])
      BY <2>1, <3>1 DEF NoWork
    <3> QED BY <1>2, <2>1, <3>1, <3>2
  <2>3. nodeAt[i] \notin Nodes => nodeAt[i] = Len(Ops) /\ Ending(r, nodeAt[i])
    BY <1>2, <2>1, Constants DEF Ending
  <2>4. nodeAt[i] \notin Nodes => \A m : ~Working(r, m)
    BY <1>2, <2>2, <2>3, WorkingIs, Constants
  <2>5. nodeAt[i] \in Nodes => abortAt # nodeAt[i]
    <3> SUFFICES ASSUME nodeAt[i] \in Nodes, abortAt = nodeAt[i] PROVE FALSE
      OBVIOUS
    <3>1. nodeAt[i] \in Nat /\ nodeAt[i] < Len(Ops)
      BY Constants
    <3>2. CASE place[0] = "barrier" /\ after[0] = "next" /\ abortAt = nodeAt[0] + 1
      <4>1. Working(r, nodeAt[0])
        BY <3>2, TeamIs DEF Fits, Typed
      <4>2. nodeAt[0] \in Nodes
        BY <4>1, WorkingIs
      <4> QED BY <2>2, <3>2, <4>1, <4>2, Constants
    <3>3. CASE GraphOver(r, nodeAt[0]) /\ abortAt = Len(Ops)
      BY <3>1, <3>3
    <3>4. abortAt # -1
      BY <3>1
    <3> QED BY <1>5, <3>2, <3>3, <3>4 DEF AbortFits
  <2>6. nodeAt[i] \in 0..Len(Ops) /\ r.base <= nodeAt[i]
    BY <1>2, <2>1
  <2>7. nodeAt[i] \notin Nodes \/ abortAt = nodeAt[i] =>
          Ending(r, nodeAt[i]) /\ \A m : Working(r, m) => nodeAt[i] > m
    BY <2>3, <2>4, <2>5
  <2> QED BY <1>5, <2>1, <2>6, <2>7
<1> QED BY <1>1, <1>3, <1>4, <1>5

LEMMA RegionNextNode ==
  ASSUME PoolInv, Typed', NEW i \in Threads, NextNode(i) PROVE Running'
<1>1. /\ Typed /\ i \in Team /\ Running /\ place[0] # "out"
      /\ place[i] = at[i] /\ nodeAt[i] = node[i] /\ piece[i] = chunk[i]
      /\ place'[i] = Kind(at'[i]) /\ nodeAt'[i] = node'[i] /\ piece'[i] = chunk'[i]
      /\ graph' = graph /\ Team' = Team /\ (\A n : Pieces(n)' = Pieces(n))
      /\ \A j \in Threads \ {i} : SameView(j) /\ after'[j] = after[j] /\ last'[j] = last[j]
      /\ last' = last
  BY LoopView
<1>2. PICK r \in Regions : InRegion(r)
  BY <1>1 DEF Running
<1>3. \A j \in Threads \ Team : place[j] = "out"
  BY <1>1 DEF Running
<1>4. /\ at[i] = "head" /\ UNCHANGED <<sharedVars, historyVars>>
  BY DEF NextNode
<1>5. 0 \in Team /\ Team \subseteq Threads /\ i \in Nat /\ i < graph.threads /\ graph.threads \in Nat
  BY <1>1, TeamIs, Constants DEF Typed
<1>6. /\ Fits(i, r) /\ AbortFits(r) /\ DoneFits(r) /\ ConvertFits(r) /\ (\A j \in Team : Fits(j, r))
  BY <1>1, <1>2 DEF InRegion
<1>7. (i # 0 => last[i] = graph.number) /\ place[i] = "head"
  BY <1>1, <1>4, <1>6 DEF Fits
<1>8. nodeAt[i] \in Nat /\ Len(Ops) \in Nat /\ (\A m : Working(r, m) => m \in Nodes /\ m \in Nat)
  BY <1>1, <1>5, Views, WorkingIs, Constants
<1>n. PICK n \in Nat : n = nodeAt[i]
  BY <1>8
<1>9. CASE n \notin Nodes \/ abortAt = n
  <2>1. at'[i] = "enter" /\ after'[i] = "end" /\ node' = node /\ chunk' = chunk
    BY <1>n, <1>1, <1>9 DEF NextNode, ToBarrier, Goto, SetLocal, Typed
  <2>2. place'[i] = "barrier" /\ nodeAt'[i] = n /\ piece'[i] = piece[i]
    BY <1>n, <1>1, <2>1, KindIs DEF BarrierPlaces
  <2>3. Ending(r, n) /\ \A m : Working(r, m) => n > m
    BY <1>n, <1>1, <1>6, <1>7, <1>9, HeadIs
  <2>4. Fits(i, r)'
    BY <1>n, <1>1, <1>7, <2>1, <2>2, <2>3 DEF Fits
  <2>5. AbortFits(r)'
    BY <1>n, <1>1, <1>4, <1>6, <1>7, <2>1, <2>2, Constants DEF AbortFits, SameView, sharedVars
  <2>6. DoneFits(r)'
    <3>1. \A m : Working(r, m) => (NotYet(i, m)' <=> NotYet(i, m))
      BY <1>n, <1>7, <1>8, <2>2, <2>3 DEF NotYet
    <3> QED BY <1>n, <1>1, <1>4, <1>6, <1>7, <2>2, <2>3, <3>1, DoneKept DEF sharedVars, historyVars
  <2>7. ConvertFits(r)'
    BY <1>n, <1>1, <1>4, <1>5, <1>6, <2>1, <2>2, Constants
       DEF ConvertFits, SameView, sharedVars, historyVars
  <2> QED BY <1>n, <1>1, <1>2, <1>3, <2>4, <2>5, <2>6, <2>7, RegionKept
<1>10. CASE n \in Nodes /\ abortAt # n
  <2>1. r.kind = "head" /\ Skipping(r, n) /\ Op(n) \in {"none", "rows", "mul_mat"} /\ ~GraphOver(r, n)
    BY <1>n, <1>1, <1>6, <1>7, <1>10, HeadIs, Constants DEF GraphOver
  <2>2. n \in r.base..Len(Ops) /\ NoWork(r.base, n) /\ r.base \in Nat
    BY <2>1 DEF Skipping, Regions
  <2>3. CASE Op(n) = "none"
    <3>1. at' = at /\ node' = [node EXCEPT ![i] = n + 1] /\ after' = after /\ chunk' = chunk
      BY <1>n, <1>1, <1>10, <2>3 DEF NextNode, SetLocal, Goto, ToBarrier
    <3>2. place'[i] = "head" /\ nodeAt'[i] = n + 1
      BY <1>n, <1>1, <1>4, <1>7, <3>1, KindIs DEF Typed
    <3>3. Skipping(r, n + 1)
      BY <1>n, <1>8, <1>10, <2>1, <2>2, <2>3, Constants DEF Skipping, NoWork
    <3>4. Fits(i, r)'
      BY <1>n, <1>1, <1>7, <3>2, <3>3 DEF Fits
    <3>5. AbortFits(r)'
      BY <1>n, <1>1, <1>4, <1>6, <1>7, <2>1, <3>2, Constants DEF AbortFits, SameView, sharedVars
    <3>6. \A m : Working(r, m) => m # n
      BY <2>3, WorkingIs
    <3>7. DoneFits(r)'
      <4>1. \A m : Working(r, m) => (NotYet(i, m)' <=> NotYet(i, m))
        BY <1>n, <1>7, <1>8, <3>2, <3>6 DEF NotYet
      <4>2. \A m : Working(r, m) => (n + 1 > m => n > m)
        BY <1>n, <1>8, <3>6
      <4> QED BY <1>n, <1>1, <1>4, <1>6, <1>7, <3>2, <4>1, <4>2, DoneKept DEF sharedVars, historyVars
    <3>8. ConvertFits(r)'
      BY <1>n, <1>1, <1>4, <1>5, <1>6, <3>2, Constants DEF ConvertFits, SameView, sharedVars, historyVars
    <3> QED BY <1>n, <1>1, <1>2, <1>3, <3>4, <3>5, <3>7, <3>8, RegionKept
  <2>4. CASE Op(n) = "mul_mat"
    <3>1. at'[i] = "convert" /\ node' = node /\ after' = after /\ chunk' = chunk
      BY <1>n, <1>1, <1>10, <2>4 DEF NextNode, SetLocal, Goto, ToBarrier, Typed
    <3>2. place'[i] = "convert" /\ nodeAt'[i] = n
      BY <1>n, <1>1, <3>1, KindIs
    <3>3. Converting(r, n)
      BY <1>10, <2>1, <2>2, <2>4 DEF Converting, WorkNode
    <3>4. Fits(i, r)'
      BY <1>n, <1>1, <1>7, <3>2, <3>3 DEF Fits
    <3>5. AbortFits(r)'
      BY <1>n, <1>1, <1>4, <1>6, <1>7, <2>1, <3>2, Constants DEF AbortFits, SameView, sharedVars
    <3>6. DoneFits(r)'
      BY <1>n, <1>1, <1>4, <1>6, <1>7, <3>2, <3>3, ConvertingIs, DoneKept DEF sharedVars, historyVars
    <3>7. ConvertFits(r)'
      BY <1>n, <1>1, <1>4, <1>5, <1>6, <3>2, Constants DEF ConvertFits, SameView, sharedVars, historyVars
    <3> QED BY <1>n, <1>1, <1>2, <1>3, <3>4, <3>5, <3>6, <3>7, RegionKept
  <2>5. CASE Op(n) = "rows"
    <3>1. at'[i] = "piece" /\ node' = node /\ after' = after /\ chunk' = [chunk EXCEPT ![i] = i]
      BY <1>n, <1>1, <1>10, <2>5 DEF NextNode, SetLocal, Goto, ToBarrier, Typed
    <3>2. place'[i] = "piece" /\ nodeAt'[i] = n /\ piece'[i] = i
      BY <1>n, <1>1, <3>1, KindIs DEF Typed
    <3>3. Working(r, n)
      BY <1>10, <2>1, <2>2, <2>5 DEF Working, WorkNode
    <3>4. Fits(i, r)'
      BY <1>n, <1>1, <1>7, <3>2, <3>3 DEF Fits
    <3>5. AbortFits(r)'
      BY <1>n, <1>1, <1>4, <1>6, <1>7, <2>1, <3>2, Constants DEF AbortFits, SameView, sharedVars
    <3>6. PiecesFit(n)'
      <4>1. PiecesFit(n) /\ Pieces(n) = graph.threads
        BY <1>n, <1>1, <1>6, <1>10, <2>5, <3>3, PiecesAre DEF DoneFits, Typed
      <4>2. UNCHANGED <<done, nextChunk, graph>> /\ nextChunk \in Nat
        BY <1>n, <1>1, <1>4 DEF sharedVars, historyVars, Typed
      <4>3. NotYet(i, n) /\ NotYet(i, n)' /\ \A j \in Team \ {i} : NotYet(j, n)' <=> NotYet(j, n)
        <5>1. NotYet(i, n)
          BY <1>n, <1>7, <1>8 DEF NotYet
        <5>2. NotYet(i, n)'
          BY <3>2 DEF NotYet
        <5>3. ASSUME NEW j \in Team \ {i} PROVE NotYet(j, n)' <=> NotYet(j, n)
          <6>1. SameView(j)
            BY <1>n, <1>1, <1>5
          <6> QED BY <6>1 DEF NotYet, SameView
        <5> QED BY <5>1, <5>2, <5>3
      <4>4. i \notin done[n]
        BY <1>n, <1>1, <4>1, <4>3 DEF PiecesFit
      <4>5. Handed(i, n)'
        BY <1>n, <1>1, <1>5, <3>2, <4>1, <4>2, <4>4 DEF Handed
      <4>6. \A j \in Team \ {i} : place'[j] = "piece" => place[j] = "piece" /\ piece'[j] = piece[j]
                                     /\ piece[j] = j /\ Handed(j, n)'
        <5> SUFFICES ASSUME NEW j \in Team \ {i}, place'[j] = "piece"
                     PROVE  place[j] = "piece" /\ piece'[j] = piece[j] /\ piece[j] = j
                              /\ Handed(j, n)'
          OBVIOUS
        <5>1. place[j] = "piece" /\ piece'[j] = piece[j] /\ piece[j] \in Nat
          BY <1>1, <1>5, Views DEF SameView
        <5>2. Handed(j, n)
          BY <4>1, <5>1 DEF PiecesFit
        <5>3. piece[j] = j
          BY <1>5, <4>1, <5>1, <5>2 DEF Handed
        <5> QED BY <1>1, <4>2, <5>1, <5>2, <5>3 DEF Handed
      <4>7. \A p \in done[n] : p \in 0..Pieces(n) - 1 /\ (p < graph.threads \/ p < nextChunk)
        BY <4>1 DEF PiecesFit
      <4>8. \A j \in Team : j \in done[n] <=> ~NotYet(j, n)'
        BY <4>1, <4>3, <4>4 DEF PiecesFit
      <4>9. \A j, l \in Team :
              j # l /\ place'[j] = "piece" /\ place'[l] = "piece" => piece'[j] # piece'[l]
        BY <3>2, <4>6
      <4>10. graph.threads..Pieces(n) - 1 = {} /\ ~(Pieces(n) > graph.threads)
        BY <1>n, <1>5, <4>1
      <4> QED BY <1>n, <1>1, <4>2, <4>5, <4>6, <4>7, <4>8, <4>9, <4>10 DEF PiecesFit
    <3>7. DoneFits(r)'
      <4>1. \A m : Working(r, m) => m = n
        BY <3>3, NotBoth
      <4>2. UNCHANGED done /\ \A l : Whole(l)' <=> Whole(l)
        BY <1>n, <1>1, <1>4 DEF historyVars, Whole
      <4> QED BY <1>6, <3>6, <4>1, <4>2 DEF DoneFits
    <3>8. ConvertFits(r)'
      BY <1>n, <1>1, <1>4, <1>5, <1>6, <3>2, Constants DEF ConvertFits, SameView, sharedVars, historyVars
    <3> QED BY <1>n, <1>1, <1>2, <1>3, <3>4, <3>5, <3>7, <3>8, RegionKept
  <2> QED BY <2>1, <2>3, <2>4, <2>5
<1> QED BY <1>9, <1>10

\* What the steps within a node start from.
LEMMA NodeView ==
  ASSUME PoolInv, Typed', NEW i \in Threads, Convert(i) \/ Compute(i) \/ Claim(i) \/ EndNode(i)
  PROVE  \E r \in Regions, n \in Nodes :
           /\ InRegion(r) /\ Fits(i, r) /\ AbortFits(r) /\ DoneFits(r) /\ ConvertFits(r)
           /\ \A j \in Team : Fits(j, r)
           /\ n = node[i] /\ (IF at[i] = "convert" THEN Converting(r, n) ELSE Working(r, n))
           /\ at[i] = "claim" => Pieces(n) > graph.threads
           /\ i # 0 => last[i] = graph.number
<1>1. /\ Typed /\ i \in Team /\ Running /\ place[i] = at[i] /\ nodeAt[i] = node[i]
  BY LoopView
<1>2. PICK r \in Regions : InRegion(r)
  BY <1>1 DEF Running
<1>3. /\ Fits(i, r) /\ AbortFits(r) /\ DoneFits(r) /\ ConvertFits(r) /\ (\A j \in Team : Fits(j, r))
  BY <1>1, <1>2 DEF InRegion
<1>4. at[i] \in {"convert", "piece", "claim", "finished"}
  BY DEF Convert, Compute, Claim, EndNode
<1>5. /\ (IF at[i] = "convert" THEN Converting(r, node[i]) ELSE Working(r, node[i]))
      /\ at[i] = "claim" => Pieces(node[i]) > graph.threads
      /\ i # 0 => last[i] = graph.number
  BY <1>1, <1>3, <1>4 DEF Fits
<1>6. node[i] \in Nodes
  BY <1>5, WorkingIs, ConvertingIs
<1> QED BY <1>2, <1>3, <1>5, <1>6

LEMMA RegionConvert ==
  ASSUME PoolInv, Typed', NEW i \in Threads, Convert(i) PROVE Running'
<1>1. /\ Typed /\ i \in Team /\ Running /\ place[0] # "out"
      /\ place[i] = at[i] /\ nodeAt[i] = node[i]
      /\ place'[i] = Kind(at'[i]) /\ nodeAt'[i] = node'[i]
      /\ graph' = graph /\ Team' = Team /\ (\A n : Pieces(n)' = Pieces(n))
      /\ \A j \in Threads \ {i} : SameView(j) /\ after'[j] = after[j] /\ last'[j] = last[j]
      /\ last' = last
  BY LoopView
<1>2. at[i] = "convert"
  BY DEF Convert
<1>3. PICK r \in Regions, n \in Nodes :
        /\ InRegion(r) /\ Fits(i, r) /\ AbortFits(r) /\ DoneFits(r) /\ ConvertFits(r)
        /\ \A j \in Team : Fits(j, r)
        /\ n = node[i] /\ Converting(r, n) /\ (i # 0 => last[i] = graph.number)
  BY <1>2, NodeView
<1>4. \A j \in Threads \ Team : place[j] = "out"
  BY <1>1 DEF Running
<1>5. 0 \in Team /\ Team \subseteq Threads
  BY <1>1, TeamIs DEF Typed
<1>6. /\ at'[i] = "enter" /\ after'[i] = "pieces" /\ node' = node
      /\ UNCHANGED <<abortAt, done>>
      /\ converted' = [converted EXCEPT ![n] = @ \cup {i}]
      /\ nextChunk' = IF i = 0 THEN graph.threads ELSE nextChunk
  BY <1>1, <1>3 DEF Convert, ToBarrier, Goto, SetLocal, Typed
<1>7. place'[i] = "barrier" /\ nodeAt'[i] = n
  BY <1>1, <1>3, <1>6, KindIs DEF BarrierPlaces
<1>8. Fits(i, r)'
  BY <1>1, <1>3, <1>6, <1>7 DEF Fits
<1>9. AbortFits(r)'
  BY <1>1, <1>2, <1>3, <1>6, <1>7, ConvertingIs, Constants DEF AbortFits, SameView, GraphOver
<1>10. DoneFits(r)'
  <2>1. \A l : Whole(l)' <=> Whole(l)
    BY <1>1, <1>6 DEF Whole
  <2>2. \A l : ~Working(r, l)
    BY <1>3, ConvertingIs
  <2> QED BY <1>3, <1>6, <2>1, <2>2 DEF DoneFits
<1>11. ConvertFits(r)'
  <2>1. \A l \in Nodes : converted'[l] \subseteq Team
    BY <1>1, <1>3, <1>6 DEF ConvertFits, Typed
  <2>2. \A l \in Nodes : converted[l] \subseteq converted'[l]
    BY <1>1, <1>6 DEF Typed
  <2>3. i \in converted'[nodeAt'[i]]
    BY <1>1, <1>6, <1>7 DEF Typed
  <2>4. ASSUME NEW j \in Team \ {i}, place'[j] = "barrier", after'[j] = "pieces"
        PROVE  j \in converted'[nodeAt'[j]]
    <3>1. place[j] = "barrier" /\ after[j] = "pieces" /\ nodeAt'[j] = nodeAt[j]
      BY <1>1, <1>5, <2>4 DEF SameView
    <3>2. nodeAt[j] \in Nodes
      BY <1>3, <3>1, ConvertingIs DEF Fits
    <3> QED BY <1>3, <2>2, <3>1, <3>2 DEF ConvertFits
  <2>5. r.kind # "pieces"
    BY <1>3, ConvertingIs
  <2>6. place'[0] = "barrier" /\ after'[0] = "pieces" => nextChunk' = graph.threads
    BY <1>1, <1>3, <1>5, <1>6, Constants DEF ConvertFits, SameView
  <2> QED BY <1>1, <2>1, <2>3, <2>4, <2>5, <2>6 DEF ConvertFits
<1> QED BY <1>1, <1>3, <1>4, <1>8, <1>9, <1>10, <1>11, RegionKept

LEMMA RegionCompute ==
  ASSUME PoolInv, Typed', NEW i \in Threads, Compute(i) PROVE Running'
<1>1. /\ Typed /\ i \in Team /\ Running /\ place[0] # "out"
      /\ place[i] = at[i] /\ nodeAt[i] = node[i] /\ piece[i] = chunk[i]
      /\ place'[i] = Kind(at'[i]) /\ nodeAt'[i] = node'[i] /\ piece'[i] = chunk'[i]
      /\ graph' = graph /\ Team' = Team /\ (\A n : Pieces(n)' = Pieces(n))
      /\ \A j \in Threads \ {i} : SameView(j) /\ after'[j] = after[j] /\ last'[j] = last[j]
      /\ last' = last
  BY LoopView
<1>2. at[i] = "piece"
  BY DEF Compute
<1>3. PICK r \in Regions, n \in Nodes :
        /\ InRegion(r) /\ Fits(i, r) /\ AbortFits(r) /\ DoneFits(r) /\ ConvertFits(r)
        /\ \A j \in Team : Fits(j, r)
        /\ n = node[i] /\ Working(r, n) /\ (i # 0 => last[i] = graph.number)
  BY <1>2, NodeView
<1>4. \A j \in Threads \ Team : place[j] = "out"
  BY <1>1 DEF Running
<1>5. 0 \in Team /\ Team \subseteq Threads /\ graph.threads \in Nat
      /\ (\A j \in Team : j \in Nat /\ j < graph.threads) /\ Pieces(n) \in Nat
  BY <1>1, TeamIs, PiecesAre DEF Typed
<1>6. /\ at'[i] = (IF graph.threads >= Pieces(n) THEN "finished" ELSE "claim")
      /\ UNCHANGED <<abortAt, nextChunk, converted, node, after, chunk>>
      /\ done' = [done EXCEPT ![n] = @ \cup {chunk[i]}]
  BY <1>1, <1>3 DEF Compute, Goto, Typed, sharedVars, localVars
<1>7. /\ place'[i] = (IF graph.threads >= Pieces(n) THEN "finished" ELSE "claim")
      /\ nodeAt'[i] = n /\ nodeAt[i] = n
  BY <1>1, <1>3, <1>6, KindIs
<1>8. Fits(i, r)'
  BY <1>1, <1>3, <1>5, <1>6, <1>7 DEF Fits
<1>9. AbortFits(r)'
  BY <1>1, <1>2, <1>3, <1>6, <1>7, Constants DEF AbortFits, SameView
<1>10. PiecesFit(n)'
  <2> PICK c \in Nat : c = piece[i]
    BY <1>1, Views
  <2>1. PiecesFit(n) /\ Handed(i, n)
    BY <1>1, <1>2, <1>3 DEF DoneFits, PiecesFit
  <2>2. done'[n] = done[n] \cup {c} /\ nextChunk' = nextChunk /\ nextChunk \in Nat
    BY <1>1, <1>6 DEF Typed
  <2>3. /\ c \in 0..Pieces(n) - 1 /\ c \notin done[n]
        /\ c = i \/ (graph.threads <= c /\ c < nextChunk)
    BY <2>1 DEF Handed
  <2>4. \A p \in done'[n] : p \in 0..Pieces(n) - 1 /\ (p < graph.threads \/ p < nextChunk)
    <3>1. \A p \in done[n] : p \in 0..Pieces(n) - 1 /\ (p < graph.threads \/ p < nextChunk)
      BY <2>1 DEF PiecesFit
    <3>2. c \in 0..Pieces(n) - 1 /\ (c < graph.threads \/ c < nextChunk)
      BY <1>1, <1>5, <2>3
    <3> QED BY <2>2, <3>1, <3>2
  <2>5. \A j \in Team : j \in done'[n] <=> ~NotYet(j, n)'
    <3>1. ~NotYet(i, n)'
      BY <1>7 DEF NotYet
    <3>2. i \in done'[n]
      <4>1. CASE c = i
        BY <2>2, <4>1
      <4>2. CASE c # i
        <5>1. ~NotYet(i, n)
          BY <1>1, <1>2, <4>2 DEF NotYet
        <5> QED BY <1>1, <2>1, <2>2, <5>1 DEF PiecesFit
      <4> QED BY <4>1, <4>2
    <3>3. ASSUME NEW j \in Team \ {i} PROVE j \in done'[n] <=> ~NotYet(j, n)'
      <4>1. j # c
        BY <1>5, <2>3
      <4>2. SameView(j)
        BY <1>1, <1>5
      <4>3. NotYet(j, n)' <=> NotYet(j, n)
        BY <4>2 DEF NotYet, SameView
      <4> QED BY <2>1, <2>2, <4>1, <4>3 DEF PiecesFit
    <3> QED BY <3>1, <3>2, <3>3
  <2>6. ASSUME NEW j \in Team, place'[j] = "piece"
        PROVE  j # i /\ place[j] = "piece" /\ piece'[j] = piece[j] /\ Handed(j, n)'
    <3>1. j # i
      BY <1>7, <2>6
    <3>2. place[j] = "piece" /\ piece'[j] = piece[j]
      BY <1>1, <1>5, <2>6, <3>1 DEF SameView
    <3>3. Handed(j, n) /\ piece[j] # c
      BY <1>1, <1>2, <2>1, <3>1, <3>2 DEF PiecesFit
    <3> QED BY <1>1, <2>2, <3>1, <3>2, <3>3 DEF Handed
  <2>7. \A j, l \in Team :
          j # l /\ place'[j] = "piece" /\ place'[l] = "piece" => piece'[j] # piece'[l]
    BY <2>1, <2>6 DEF PiecesFit
  <2>8. ASSUME NEW p \in graph.threads..Pieces(n) - 1, p < nextChunk
        PROVE  p \in done'[n] \/ InHand(p)'
    <3>1. p \in done[n] \/ InHand(p)
      BY <2>1, <2>8 DEF PiecesFit
    <3>2. CASE p \in done[n]
      BY <2>2, <3>2
    <3>3. ASSUME NEW j \in Team, place[j] = "piece", piece[j] = p PROVE p \in done'[n] \/ InHand(p)'
      <4>1. CASE j = i
        BY <2>2, <3>3, <4>1
      <4>2. CASE j # i
        BY <1>1, <1>5, <3>3, <4>2 DEF InHand, SameView
      <4> QED BY <4>1, <4>2
    <3> QED BY <3>1, <3>2, <3>3 DEF InHand
  <2>9. Pieces(n) > graph.threads =>
          /\ nextChunk >= graph.threads
          /\ \A j \in Team :
               place'[j] \in {"finished", "barrier"} \/ nodeAt'[j] > n => nextChunk >= Pieces(n)
    <3> SUFFICES ASSUME Pieces(n) > graph.threads
                 PROVE  /\ nextChunk >= graph.threads
                        /\ \A j \in Team : place'[j] \in {"finished", "barrier"} \/ nodeAt'[j] > n
                                             => nextChunk >= Pieces(n)
      OBVIOUS
    <3>1. place'[i] = "claim" /\ ~(nodeAt'[i] > n)
      BY <1>5, <1>7, Constants
    <3> QED BY <1>1, <1>5, <2>1, <3>1 DEF PiecesFit, SameView
  <2> QED BY <1>1, <2>2, <2>4, <2>5, <2>6, <2>7, <2>8, <2>9 DEF PiecesFit
<1>11. DoneFits(r)'
  <2>1. \A m : Working(r, m) => m = n
    BY <1>3, NotBoth
  <2>2. \A l \in Nodes \ {n} : done'[l] = done[l] /\ (Whole(l)' <=> Whole(l))
    BY <1>1, <1>6 DEF Whole, Typed
  <2>3. r.base <= n /\ n \in Int /\ r.base \in Int
    BY <1>3, WorkingIs, Constants DEF Regions
  <2> QED BY <1>3, <1>10, <2>1, <2>2, <2>3 DEF DoneFits
<1>12. ConvertFits(r)'
  BY <1>1, <1>3, <1>5, <1>6, <1>7, Constants DEF ConvertFits, SameView
<1> QED BY <1>1, <1>3, <1>4, <1>8, <1>9, <1>11, <1>12, RegionKept

LEMMA RegionClaim ==
  ASSUME PoolInv, Typed', NEW i \in Threads, Claim(i) PROVE Running'
<1>1. /\ Typed /\ i \in Team /\ Running /\ place[0] # "out"
      /\ place[i] = at[i] /\ nodeAt[i] = node[i] /\ piece[i] = chunk[i]
      /\ place'[i] = Kind(at'[i]) /\ nodeAt'[i] = node'[i] /\ piece'[i] = chunk'[i]
      /\ graph' = graph /\ Team' = Team /\ (\A n : Pieces(n)' = Pieces(n))
      /\ \A j \in Threads \ {i} : SameView(j) /\ after'[j] = after[j] /\ last'[j] = last[j]
      /\ last' = last
  BY LoopView
<1>2. at[i] = "claim"
  BY DEF Claim
<1>3. PICK r \in Regions, n \in Nodes :
        /\ InRegion(r) /\ Fits(i, r) /\ AbortFits(r) /\ DoneFits(r) /\ ConvertFits(r)
        /\ \A j \in Team : Fits(j, r)
        /\ n = node[i] /\ Working(r, n) /\ (i # 0 => last[i] = graph.number)
        /\ Pieces(n) > graph.threads
  BY <1>2, NodeView
<1>4. \A j \in Threads \ Team : place[j] = "out"
  BY <1>1 DEF Running
<1>5. 0 \in Team /\ Team \subseteq Threads /\ graph.threads \in Nat
      /\ (\A j \in Team : j \in Nat /\ j < graph.threads) /\ Pieces(n) \in Nat
  BY <1>1, TeamIs, PiecesAre DEF Typed
<1>6. PICK c \in Nat : c = nextChunk
  BY <1>1 DEF Typed
<1>7. /\ at'[i] = (IF c < Pieces(n) THEN "piece" ELSE "finished")
      /\ UNCHANGED <<abortAt, converted, node, after, done>>
      /\ nextChunk' = c + 1 /\ chunk'[i] = c
  BY <1>1, <1>3, <1>6 DEF Claim, Goto, Typed, historyVars, SetLocal
<1>8. /\ place'[i] = (IF c < Pieces(n) THEN "piece" ELSE "finished") /\ piece'[i] = c
      /\ nodeAt'[i] = n /\ nodeAt[i] = n
  BY <1>1, <1>3, <1>7, KindIs
<1>9. Fits(i, r)'
  BY <1>1, <1>3, <1>5, <1>7, <1>8 DEF Fits
<1>10. AbortFits(r)'
  BY <1>1, <1>2, <1>3, <1>7, <1>8, Constants DEF AbortFits, SameView
<1>11. PiecesFit(n)'
  <2>1. PiecesFit(n) /\ c >= graph.threads
    BY <1>3, <1>6 DEF DoneFits, PiecesFit
  <2>2. \A p \in done[n] : p \in 0..Pieces(n) - 1 /\ (p < graph.threads \/ p < c + 1)
    BY <1>5, <1>6, <2>1 DEF PiecesFit
  <2>3. c \notin done[n]
    BY <1>5, <1>6, <2>1 DEF PiecesFit
  <2>4. \A j \in Team : j \in done[n] <=> ~NotYet(j, n)'
    <3>1. ~NotYet(i, n)
      BY <1>1, <1>2 DEF NotYet
    <3>2. ~NotYet(i, n)'
      BY <1>5, <1>8, <1>1, <2>1 DEF NotYet
    <3>3. ASSUME NEW j \in Team \ {i} PROVE NotYet(j, n)' <=> NotYet(j, n)
      <4>1. SameView(j)
        BY <1>1, <1>5
      <4> QED BY <4>1 DEF NotYet, SameView
    <3> QED BY <1>1, <2>1, <3>1, <3>2, <3>3 DEF PiecesFit
  <2>5. ASSUME NEW j \in Team \ {i}, place'[j] = "piece"
        PROVE  /\ place[j] = "piece" /\ piece'[j] = piece[j] /\ Handed(j, n)' /\ piece[j] # c
    <3>1. place[j] = "piece" /\ piece'[j] = piece[j]
      BY <1>1, <1>5, <2>5 DEF SameView
    <3>2. Handed(j, n)
      BY <2>1, <3>1 DEF PiecesFit
    <3>3. piece[j] # c
      BY <1>5, <1>6, <2>1, <3>2 DEF Handed
    <3>4. piece[j] \in 0..Pieces(n) - 1 /\ piece[j] \notin done[n]
            /\ (piece[j] = j \/ (graph.threads <= piece[j] /\ piece[j] < c + 1))
      BY <1>5, <1>6, <3>2 DEF Handed
    <3> QED BY <1>1, <1>7, <3>1, <3>3, <3>4 DEF Handed
  <2>6. place'[i] = "piece" => Handed(i, n)'
    BY <1>1, <1>5, <1>7, <1>8, <2>1, <2>3 DEF Handed
  <2>7. \A j, l \in Team :
          j # l /\ place'[j] = "piece" /\ place'[l] = "piece" => piece'[j] # piece'[l]
    BY <1>8, <2>1, <2>5 DEF PiecesFit
  <2>8. ASSUME NEW p \in graph.threads..Pieces(n) - 1, p < c + 1
        PROVE  p \in done[n] \/ InHand(p)'
    <3>1. CASE p = c
      BY <1>1, <1>5, <1>8, <3>1 DEF InHand
    <3>2. CASE p < c
      <4>1. p \in done[n] \/ InHand(p)
        BY <1>6, <2>1, <3>2 DEF PiecesFit
      <4>2. ASSUME NEW j \in Team, place[j] = "piece", piece[j] = p PROVE InHand(p)'
        <5>1. j # i
          BY <1>1, <1>2, <4>2
        <5> QED BY <1>1, <1>5, <4>2, <5>1 DEF InHand, SameView
      <4> QED BY <4>1, <4>2 DEF InHand
    <3> QED BY <1>5, <2>8, <3>1, <3>2
  <2>9. /\ c + 1 >= graph.threads
        /\ \A j \in Team :
             place'[j] \in {"finished", "barrier"} \/ nodeAt'[j] > n => c + 1 >= Pieces(n)
    <3>1. ASSUME NEW j \in Team \ {i}, place'[j] \in {"finished", "barrier"} \/ nodeAt'[j] > n
          PROVE  c >= Pieces(n)
      BY <1>1, <1>3, <1>5, <1>6, <2>1, <3>1 DEF PiecesFit, SameView
    <3>2. ~(nodeAt'[i] > n)
      BY <1>8, Constants
    <3>3. place'[i] \in {"finished", "barrier"} => c >= Pieces(n)
      BY <1>5, <1>8
    <3> QED BY <1>5, <2>1, <3>1, <3>2, <3>3
  <2> QED BY <1>1, <1>7, <2>2, <2>4, <2>5, <2>6, <2>7, <2>8, <2>9 DEF PiecesFit
<1>12. DoneFits(r)'
  <2>1. \A m : Working(r, m) => m = n
    BY <1>3, NotBoth
  <2>2. \A l \in Nodes : done'[l] = done[l] /\ (Whole(l)' <=> Whole(l))
    BY <1>1, <1>7 DEF Whole
  <2> QED BY <1>3, <1>11, <2>1, <2>2 DEF DoneFits
<1>13. ConvertFits(r)'
  <2>1. ~(place'[0] = "barrier" /\ after'[0] = "pieces")
    <3> SUFFICES ASSUME place'[0] = "barrier", after'[0] = "pieces" PROVE FALSE
      OBVIOUS
    <3>1. place[0] = "barrier" /\ after[0] = "pieces"
      BY <1>1, <1>5, <1>8 DEF SameView
    <3>2. Converting(r, nodeAt[0])
      BY <1>3, <1>5, <3>1 DEF Fits
    <3> QED BY <1>3, <3>2, NotBoth
  <2> QED BY <1>1, <1>3, <1>5, <1>7, <1>8, <2>1 DEF ConvertFits, SameView
<1> QED BY <1>1, <1>3, <1>4, <1>9, <1>10, <1>12, <1>13, RegionKept

LEMMA RegionEndNode ==
  ASSUME PoolInv, Typed', NEW i \in Threads, EndNode(i) PROVE Running'
<1>1. /\ Typed /\ i \in Team /\ Running /\ place[0] # "out"
      /\ place[i] = at[i] /\ nodeAt[i] = node[i] /\ piece[i] = chunk[i]
      /\ place'[i] = Kind(at'[i]) /\ nodeAt'[i] = node'[i] /\ piece'[i] = chunk'[i]
      /\ graph' = graph /\ Team' = Team /\ (\A n : Pieces(n)' = Pieces(n))
      /\ \A j \in Threads \ {i} : SameView(j) /\ after'[j] = after[j] /\ last'[j] = last[j]
      /\ last' = last
  BY LoopView
<1>2. at[i] = "finished"
  BY DEF EndNode
<1>3. PICK r \in Regions, n \in Nodes :
        /\ InRegion(r) /\ Fits(i, r) /\ AbortFits(r) /\ DoneFits(r) /\ ConvertFits(r)
        /\ \A j \in Team : Fits(j, r)
        /\ n = node[i] /\ Working(r, n) /\ (i # 0 => last[i] = graph.number)
  BY <1>2, NodeView
<1>4. \A j \in Threads \ Team : place[j] = "out"
  BY <1>1 DEF Running
<1>5. 0 \in Team /\ Team \subseteq Threads /\ n \in Nat /\ n < Len(Ops) /\ Len(Ops) \in Nat
  BY <1>1, TeamIs, Constants DEF Typed
<1>6. /\ UNCHANGED <<nextChunk, converted, done>>
      /\ abortAt' = abortAt \/ (i = 0 /\ abortAt' = n + 1)
  BY <1>3 DEF EndNode, historyVars
<1>7. r.kind # "abort" /\ \A m : Working(r, m) => m = n
  BY <1>3, NotBoth, WorkingIs
<1>8. i = 0 => abortAt = -1
  BY <1>1, <1>2, <1>3, <1>5, <1>7 DEF AbortFits, GraphOver
<1>9. CASE n + 1 \in Nodes
  <2>1. at'[i] = "enter" /\ after'[i] = "next" /\ node' = node
    BY <1>1, <1>3, <1>9 DEF EndNode, ToBarrier, Goto, SetLocal, Typed
  <2>2. place'[i] = "barrier" /\ nodeAt'[i] = n
    BY <1>1, <1>3, <2>1, KindIs DEF BarrierPlaces
  <2>3. Fits(i, r)'
    BY <1>1, <1>3, <1>9, <2>1, <2>2 DEF Fits
  <2>4. AbortFits(r)'
    BY <1>1, <1>3, <1>5, <1>6, <1>7, <1>8, <2>1, <2>2 DEF AbortFits, SameView
  <2>5. DoneFits(r)'
    <3>1. NotYet(i, n)' <=> NotYet(i, n)
      BY <1>1, <1>2, <2>2 DEF NotYet
    <3> QED BY <1>1, <1>2, <1>3, <1>6, <1>7, <2>2, <3>1, DoneKept
  <2>6. ConvertFits(r)'
    BY <1>1, <1>3, <1>5, <1>6, <2>1, <2>2 DEF ConvertFits, SameView
  <2> QED BY <1>1, <1>3, <1>4, <2>3, <2>4, <2>5, <2>6, RegionKept
<1>10. CASE n + 1 \notin Nodes
  <2>1. at'[i] = "head" /\ after' = after /\ node'[i] = n + 1 /\ n + 1 = Len(Ops)
    BY <1>1, <1>3, <1>5, <1>10, Constants DEF EndNode, ToBarrier, Goto, SetLocal, Typed
  <2>2. place'[i] = "head" /\ nodeAt'[i] = n + 1
    BY <1>1, <2>1, KindIs
  <2>3. GraphOver(r, n + 1)
    BY <1>3, <1>5, <2>1 DEF GraphOver
  <2>4. Fits(i, r)'
    BY <1>1, <1>3, <2>2, <2>3 DEF Fits
  <2>5. AbortFits(r)'
    BY <1>1, <1>3, <1>5, <1>6, <1>7, <1>8, <2>1, <2>2, <2>3 DEF AbortFits, SameView
  <2>6. DoneFits(r)'
    <3>1. NotYet(i, n)' <=> NotYet(i, n)
      BY <1>1, <1>2, <1>5, <2>2 DEF NotYet
    <3> QED BY <1>1, <1>2, <1>3, <1>5, <1>6, <1>7, <2>2, <3>1, DoneKept
  <2>7. ConvertFits(r)'
    BY <1>1, <1>3, <1>5, <1>6, <2>1, <2>2 DEF ConvertFits, SameView
  <2> QED BY <1>1, <1>3, <1>4, <2>4, <2>5, <2>6, <2>7, RegionKept
<1> QED BY <1>9, <1>10

-----------------------------------------------------------------------------
(* The barrier lets the threads go on, into another region.                 *)

\* What is computed when all threads have ended a node.
LEMMA AllEnded ==
  ASSUME Typed, NEW m \in Nodes, PiecesFit(m), \A j \in Team : place[j] = "barrier",
         Op(m) # "none"
  PROVE  Whole(m)
<1>1. /\ graph.threads \in Nat /\ (\A j : j \in Team <=> j \in Int /\ 0 <= j /\ j < graph.threads)
      /\ 0 \in Team /\ Pieces(m) \in Nat /\ Pieces(m) >= graph.threads
  BY TeamIs, PiecesAre DEF Typed
<1>2. \A j \in Team : j \in done[m]
  BY DEF PiecesFit, NotYet
<1>3. ASSUME NEW p \in 0..Pieces(m) - 1, p >= graph.threads PROVE p \in done[m]
  <2>1. Pieces(m) > graph.threads /\ nextChunk \in Nat
    BY <1>1, <1>3 DEF Typed
  <2>2. nextChunk >= Pieces(m)
    BY <1>1, <2>1 DEF PiecesFit
  <2>3. p \in graph.threads..Pieces(m) - 1 /\ p < nextChunk
    BY <1>1, <1>3, <2>1, <2>2
  <2>4. ~InHand(p)
    BY DEF InHand
  <2> QED BY <2>3, <2>4 DEF PiecesFit
<1>4. \A p \in 0..Pieces(m) - 1 : p \in done[m]
  BY <1>1, <1>2, <1>3
<1>5. done[m] \subseteq 0..Pieces(m) - 1
  BY DEF PiecesFit
<1> QED BY <1>4, <1>5 DEF Whole

\* Nodes with nothing to compute are whole.
LEMMA NothingToDo ==
  ASSUME Typed, NEW r \in Regions, DoneFits(r), NEW l \in Nodes, r.base <= l, Op(l) = "none"
  PROVE  Whole(l) /\ done[l] = {}
<1>1. done[l] = {}
  BY WorkingIs, Constants DEF DoneFits, Regions
<1>2. 0..Pieces(l) - 1 = {}
  BY PiecesAre DEF Typed
<1> QED BY <1>1, <1>2 DEF Whole

Released ==
  /\ \A j \in Team : /\ place[j] = "barrier" /\ place'[j] = Behind(j)
                     /\ nodeAt'[j] = (IF after[j] = "next" THEN nodeAt[j] + 1 ELSE nodeAt[j])
                     /\ piece'[j] = (IF after[j] = "pieces" THEN j ELSE piece[j])
  /\ \A j \in Threads \ Team : SameView(j)
  /\ UNCHANGED <<graph, nextChunk, abortAt, after, last, historyVars>>

LEMMA ReleasedFacts ==
  ASSUME Typed, Running, Released
  PROVE  /\ 0 \in Team /\ Team \subseteq Threads /\ Team' = Team
         /\ \A n : (Pieces(n)' = Pieces(n)) /\ (Whole(n)' <=> Whole(n))
         /\ \A j \in Threads \ Team : place'[j] = "out"
         /\ \A j \in Team : /\ j # 0 => last'[j] = graph'.number
                            /\ after'[j] = after[j] /\ nodeAt[j] \in Nat
         /\ graph' = graph /\ nextChunk' = nextChunk /\ abortAt' = abortAt
         /\ done' = done /\ converted' = converted /\ last' = last
<1>1. UNCHANGED <<graph, nextChunk, abortAt, after, last, done, converted>>
  BY DEF Released, historyVars
<1>2. 0 \in Team /\ Team \subseteq Threads
  BY TeamIs DEF Typed
<1>3. Team' = Team /\ \A n : (Pieces(n)' = Pieces(n)) /\ (Whole(n)' <=> Whole(n))
  BY <1>1 DEF Team, Pieces, Whole
<1>4. \A j \in Threads \ Team : place'[j] = "out"
  BY DEF Released, SameView, Running
<1>5. \A j \in Team : j # 0 => last[j] = graph.number
  BY DEF Running, InRegion, Fits, Released
<1> QED BY <1>1, <1>2, <1>3, <1>4, <1>5, Views

\* Behind the first barrier of a product.
LEMMA ReleaseToPieces ==
  ASSUME Typed, Typed', Running, Released, after[0] = "pieces"
  PROVE  Running' /\ place'[0] # "out"
<1>1. PICK r \in Regions : InRegion(r)
  BY DEF Running
<1>2. AbortFits(r) /\ DoneFits(r) /\ ConvertFits(r) /\ (\A j \in Team : Fits(j, r))
  BY <1>1 DEF InRegion
<1>3. /\ 0 \in Team /\ Team \subseteq Threads /\ Team' = Team
      /\ (\A n : (Pieces(n)' = Pieces(n)) /\ (Whole(n)' <=> Whole(n)))
      /\ (\A j \in Threads \ Team : place'[j] = "out")
      /\ (\A j \in Team : (j # 0 => last'[j] = graph'.number) /\ after'[j] = after[j])
      /\ graph' = graph /\ nextChunk' = nextChunk /\ abortAt' = abortAt
      /\ done' = done /\ converted' = converted
  BY ReleasedFacts
<1>4. Converting(r, nodeAt[0])
  BY <1>2, <1>3 DEF Fits, Released
<1>5. PICK m \in Nodes : m = nodeAt[0]
  BY <1>4, ConvertingIs
<1>6. /\ r.base <= m /\ r.kind = "head" /\ Op(m) = "mul_mat" /\ NoWork(r.base, m)
      /\ \A l : ~Working(r, l)
  BY <1>4, <1>5, ConvertingIs
<1>7. ASSUME NEW j \in Team PROVE after[j] = "pieces" /\ nodeAt[j] = m
  <2>1. \/ after[j] = "pieces" /\ Converting(r, nodeAt[j])
        \/ after[j] = "next" /\ Working(r, nodeAt[j])
        \/ after[j] = "end" /\ Ending(r, nodeAt[j])
    BY <1>2, <1>7 DEF Fits, Released
  <2>2. ~Ending(r, nodeAt[j])
    BY <1>4, EndingIs
  <2>3. Converting(r, nodeAt[j]) => nodeAt[j] = m
    BY <1>4, <1>5, OneNode DEF Converting
  <2> QED BY <1>6, <2>1, <2>2, <2>3
<1>8. \A j \in Team : place'[j] = "piece" /\ nodeAt'[j] = m /\ piece'[j] = j
  BY <1>7 DEF Released, Behind
<1>9. m \in Nat /\ m < Len(Ops) /\ Len(Ops) \in Nat /\ r.base \in Nat
  BY Constants DEF Regions
<1>10. PICK s \in Regions : s.base = m /\ s.kind = "pieces"
  <2>1. [base |-> m, kind |-> "pieces"] \in Regions
    BY <1>9 DEF Regions
  <2> QED BY <2>1
<1>11. Working(s, m) /\ \A l : Working(s, l) => l = m
  BY <1>5, <1>6, <1>9, <1>10, WorkingIs DEF Working, WorkNode
<1>12. \A j \in Team : Fits(j, s)'
  BY <1>3, <1>8, <1>11 DEF Fits
<1>13. AbortFits(s)'
  <2>1. ~GraphOver(r, nodeAt[0])
    BY <1>6 DEF GraphOver
  <2>2. abortAt = -1
    BY <1>2, <1>3, <1>6, <1>7, <2>1 DEF AbortFits
  <2> QED BY <1>3, <1>10, <2>2 DEF AbortFits
<1>14. PiecesFit(m)'
  <2>1. /\ graph.threads \in Nat /\ nextChunk = graph.threads
        /\ Pieces(m) \in Nat /\ Pieces(m) >= graph.threads
        /\ \A j \in Team : j \in Nat /\ j < graph.threads
    BY <1>2, <1>3, <1>5, <1>6, <1>7, TeamIs, PiecesAre, Constants DEF Typed, ConvertFits, Released
  <2>2. done[m] = {}
    BY <1>2, <1>5, <1>6, <1>9 DEF DoneFits
  <2>3. \A j \in Team : NotYet(j, m)' /\ Handed(j, m)'
    BY <1>3, <1>8, <2>1, <2>2 DEF NotYet, Handed
  <2>4. \A p \in graph.threads..Pieces(m) - 1 : ~(p < nextChunk)
    BY <2>1
  <2>5. \A j \in Team : ~(place'[j] \in {"finished", "barrier"} \/ nodeAt'[j] > m)
    BY <1>8, <1>9
  <2> QED BY <1>3, <1>8, <2>1, <2>2, <2>3, <2>4, <2>5 DEF PiecesFit
<1>15. DoneFits(s)'
  <2>1. ASSUME NEW l \in Nodes, l < m PROVE Whole(l)
    <3>1. CASE l < r.base
      BY <1>2, <3>1 DEF DoneFits
    <3>2. CASE r.base <= l
      <4>1. Op(l) = "none"
        BY <1>6, <2>1, <3>2 DEF NoWork
      <4> QED BY <1>2, <3>2, <4>1, NothingToDo
    <3> QED BY <1>9, <3>1, <3>2, Constants
  <2>2. ASSUME NEW l \in Nodes, l >= m PROVE done[l] = {}
    BY <1>2, <1>6, <1>9, <2>2, Constants DEF DoneFits
  <2> QED BY <1>3, <1>10, <1>11, <1>14, <2>1, <2>2 DEF DoneFits
<1>16. ConvertFits(s)'
  <2>1. converted[m] = Team
    BY <1>2, <1>7 DEF ConvertFits, Released
  <2> QED BY <1>2, <1>3, <1>8, <1>10, <2>1 DEF ConvertFits
<1> QED BY <1>3, <1>8, <1>12, <1>13, <1>15, <1>16 DEF Running, InRegion

\* Behind a node that is not the last.
LEMMA ReleaseToNext ==
  ASSUME Typed, Typed', Running, Released, after[0] = "next"
  PROVE  Running' /\ place'[0] # "out"
<1>1. PICK r \in Regions : InRegion(r)
  BY DEF Running
<1>2. AbortFits(r) /\ DoneFits(r) /\ ConvertFits(r) /\ (\A j \in Team : Fits(j, r))
  BY <1>1 DEF InRegion
<1>3. /\ 0 \in Team /\ Team \subseteq Threads /\ Team' = Team
      /\ (\A n : (Pieces(n)' = Pieces(n)) /\ (Whole(n)' <=> Whole(n)))
      /\ (\A j \in Threads \ Team : place'[j] = "out")
      /\ (\A j \in Team : (j # 0 => last'[j] = graph'.number) /\ after'[j] = after[j])
      /\ graph' = graph /\ nextChunk' = nextChunk /\ abortAt' = abortAt
      /\ done' = done /\ converted' = converted
  BY ReleasedFacts
<1>4. Working(r, nodeAt[0]) /\ nodeAt[0] + 1 \in Nodes
  BY <1>2, <1>3 DEF Fits, Released
<1>5. PICK m \in Nodes : m = nodeAt[0]
  BY <1>4, WorkingIs
<1>6. /\ r.base <= m /\ Op(m) # "none" /\ r.kind # "abort" /\ m + 1 \in Nodes
      /\ r.kind = "head" => NoWork(r.base, m)
      /\ r.kind # "head" => m = r.base
      /\ \A l : ~Converting(r, l) /\ (Working(r, l) => l = m)
  BY <1>4, <1>5, WorkingIs, NotBoth
<1>7. m \in Nat /\ m + 1 < Len(Ops) /\ Len(Ops) \in Nat /\ r.base \in Nat
  BY <1>6, Constants DEF Regions
<1>8. ASSUME NEW j \in Team PROVE after[j] = "next" /\ nodeAt[j] = m
  <2>1. \/ after[j] = "pieces" /\ Converting(r, nodeAt[j])
        \/ after[j] = "next" /\ Working(r, nodeAt[j])
        \/ after[j] = "end" /\ Ending(r, nodeAt[j])
    BY <1>2, <1>8 DEF Fits, Released
  <2>2. ~Ending(r, nodeAt[j])
    BY <1>4, <1>5, <1>7, EndingIs
  <2> QED BY <1>6, <2>1, <2>2
<1>9. \A j \in Team : place'[j] = "head" /\ nodeAt'[j] = m + 1
  BY <1>8 DEF Released, Behind
<1>10. abortAt = -1 \/ abortAt = m + 1
  BY <1>2, <1>5, <1>6, <1>7 DEF AbortFits, GraphOver
<1>11. PICK s \in Regions : s.base = m + 1 /\ s.kind = (IF abortAt = m + 1 THEN "abort" ELSE "head")
  <2>1. \A k \in {"abort", "head"} : [base |-> m + 1, kind |-> k] \in Regions
    BY <1>7 DEF Regions
  <2> QED BY <2>1
<1>12. Skipping(s, m + 1)
  BY <1>7, <1>11, Constants DEF Skipping, NoWork
<1>13. \A j \in Team : Fits(j, s)'
  BY <1>3, <1>9, <1>12 DEF Fits
<1>14. AbortFits(s)'
  BY <1>3, <1>10, <1>11 DEF AbortFits
<1>15. DoneFits(s)'
  <2>1. Whole(m)
    <3>1. PiecesFit(m)
      BY <1>2, <1>4, <1>5 DEF DoneFits
    <3> QED BY <1>6, <3>1, AllEnded DEF Released
  <2>2. ASSUME NEW l \in Nodes, l < m + 1 PROVE Whole(l)
    <3>1. CASE l < r.base
      BY <1>2, <3>1 DEF DoneFits
    <3>2. CASE r.base <= l /\ l # m
      <4>1. l < m
        BY <1>7, <2>2, <3>2, Constants
      <4>2. Op(l) = "none"
        BY <1>6, <1>7, <3>2, <4>1, Constants DEF NoWork
      <4> QED BY <1>2, <3>2, <4>2, NothingToDo
    <3> QED BY <1>7, <2>1, <3>1, <3>2, Constants
  <2>3. ASSUME NEW l \in Nodes, l >= m + 1 PROVE done[l] = {}
    <3>1. l >= r.base /\ ~Working(r, l)
      BY <1>6, <1>7, <2>3, Constants
    <3> QED BY <1>2, <3>1 DEF DoneFits
  <2>4. ASSUME NEW l \in Nodes, Working(s, l) PROVE PiecesFit(l)'
    <3>1. l >= m + 1 /\ s.kind = "head" /\ Op(l) = "rows"
      BY <1>7, <1>11, <2>4, WorkingIs, Constants
    <3>2. done[l] = {} /\ l \in Int
      BY <2>3, <3>1, Constants
    <3>3. Pieces(l) = graph.threads /\ graph.threads \in Nat
      BY <3>1, PiecesAre, TeamIs DEF Typed
    <3>4. \A j \in Team : NotYet(j, l)' /\ place'[j] # "piece"
      BY <1>7, <1>9, <3>1, <3>2 DEF NotYet
    <3>5. graph.threads..Pieces(l) - 1 = {} /\ ~(Pieces(l) > graph.threads)
      BY <3>3
    <3> QED BY <1>3, <3>2, <3>4, <3>5 DEF PiecesFit
  <2> QED BY <1>3, <1>11, <2>2, <2>3, <2>4 DEF DoneFits
<1>16. ConvertFits(s)'
  BY <1>2, <1>3, <1>9, <1>11 DEF ConvertFits
<1> QED BY <1>3, <1>9, <1>13, <1>14, <1>15, <1>16 DEF Running, InRegion

\* At the end of the graph.
LEMMA ReleaseToEnd ==
  ASSUME Typed, Typed', Running, Released, after[0] = "end",
         at'[0] \notin {"kickoff", "join", "freed"}
  PROVE  Between' /\ place'[0] = "out"
<1>1. PICK r \in Regions : InRegion(r)
  BY DEF Running
<1>2. AbortFits(r) /\ DoneFits(r) /\ ConvertFits(r) /\ (\A j \in Team : Fits(j, r))
  BY <1>1 DEF InRegion
<1>3. /\ 0 \in Team /\ Team \subseteq Threads /\ Team' = Team
      /\ (\A n : (Pieces(n)' = Pieces(n)) /\ (Whole(n)' <=> Whole(n)))
      /\ (\A j \in Threads \ Team : place'[j] = "out")
      /\ (\A j \in Team : (j # 0 => last'[j] = graph'.number) /\ after'[j] = after[j])
      /\ graph' = graph /\ nextChunk' = nextChunk /\ abortAt' = abortAt
      /\ done' = done /\ converted' = converted
  BY ReleasedFacts
<1>4. PICK k \in Nat : k = nodeAt[0]
  BY <1>3, Views
<1>5. Ending(r, k)
  BY <1>2, <1>3, <1>4 DEF Fits, Released
<1>6. ASSUME NEW j \in Team PROVE after[j] = "end"
  <2>1. \/ after[j] = "pieces" /\ Converting(r, nodeAt[j])
        \/ after[j] = "next" /\ Working(r, nodeAt[j]) /\ nodeAt[j] + 1 \in Nodes
        \/ after[j] = "end" /\ Ending(r, nodeAt[j])
    BY <1>2, <1>6 DEF Fits, Released
  <2>2. ~Converting(r, nodeAt[j])
    BY <1>5, EndingIs
  <2>3. Working(r, nodeAt[j]) => nodeAt[j] + 1 \notin Nodes
    BY <1>5, EndingIs, Constants
  <2> QED BY <2>1, <2>2, <2>3
<1>7. \A j \in Threads : place'[j] = "out"
  BY <1>3, <1>6 DEF Released, Behind
<1>8. r.base \in Nat /\ r.base <= Len(Ops) /\ Len(Ops) \in Nat /\ abortAt \in Int
  BY Constants DEF Regions, Typed
<1>9. ResultWhole
  <2>1. CASE r.kind = "abort"
    <3>1. abortAt = r.base /\ \A l : ~Working(r, l)
      BY <1>2, <2>1, WorkingIs DEF AbortFits
    <3> QED BY <1>2, <1>8, <3>1, Constants DEF ResultWhole, DoneFits
  <2>2. CASE r.kind = "head" /\ k = Len(Ops) /\ NoWork(r.base, k)
    <3>1. \A l : ~Working(r, l)
      BY <1>8, <2>2, WorkingIs, Constants DEF NoWork
    <3>2. abortAt = -1
      BY <1>2, <1>3, <1>6, <2>2, <3>1 DEF AbortFits, GraphOver
    <3>3. ASSUME NEW l \in Nodes PROVE Whole(l)
      <4>1. CASE l < r.base
        BY <1>2, <4>1 DEF DoneFits
      <4>2. CASE r.base <= l
        <5>1. Op(l) = "none"
          BY <2>2, <4>2, Constants DEF NoWork
        <5> QED BY <1>2, <4>2, <5>1, NothingToDo
      <4> QED BY <1>8, <4>1, <4>2, Constants
    <3> QED BY <3>2, <3>3 DEF ResultWhole
  <2>3. CASE GraphOver(r, k)
    <3>1. PICK m \in Nodes : m = Len(Ops) - 1 /\ Working(r, m)
      BY <2>3, WorkingIs DEF GraphOver
    <3>2. /\ r.base <= m /\ Op(m) # "none" /\ r.kind # "abort"
          /\ r.kind = "head" => NoWork(r.base, m)
          /\ r.kind # "head" => m = r.base
      BY <3>1, WorkingIs
    <3>3. abortAt = -1 \/ abortAt = Len(Ops)
      BY <1>2, <1>3, <1>6, <3>2 DEF AbortFits
    <3>4. Whole(m)
      <4>1. PiecesFit(m)
        BY <1>2, <3>1 DEF DoneFits
      <4> QED BY <3>2, <4>1, AllEnded DEF Released
    <3>5. ASSUME NEW l \in Nodes PROVE Whole(l)
      <4>1. CASE l < r.base
        BY <1>2, <4>1 DEF DoneFits
      <4>2. CASE r.base <= l /\ l # m
        <5>1. l < m
          BY <1>8, <3>1, <4>2, Constants
        <5>2. Op(l) = "none"
          BY <1>8, <3>2, <4>2, <5>1, Constants DEF NoWork
        <5> QED BY <1>2, <4>2, <5>2, NothingToDo
      <4> QED BY <1>8, <3>4, <4>1, <4>2, Constants
    <3> QED BY <1>8, <3>3, <3>5, Constants DEF ResultWhole
  <2> QED BY <1>5, <2>1, <2>2, <2>3 DEF Ending
<1>10. ResultWhole'
  BY <1>3, <1>9 DEF ResultWhole
<1>11. at'[0] # "kickoff"
  OBVIOUS
<1> QED BY <1>3, <1>7, <1>10, <1>11, Constants DEF Between

LEMMA ReleaseKeeps ==
  ASSUME Typed, Typed', Running, Released, at'[0] \notin {"kickoff", "join", "freed"}
  PROVE  IF place'[0] = "out" THEN Between' ELSE Running'
<1>1. after[0] \in {"pieces", "next", "end"}
  BY Constants DEF Typed
<1> QED BY <1>1, ReleaseToPieces, ReleaseToNext, ReleaseToEnd

-----------------------------------------------------------------------------
(* The steps that move no thread for the others.                            *)

Rest ==
  /\ \A j \in Threads : SameView(j)
  /\ UNCHANGED <<graph, nextChunk, abortAt, after, historyVars>>
  /\ \A j \in Team : last'[j] = last[j]

LEMMA OutView ==
  ASSUME Typed, Typed', NEW j \in Threads, at[j] \in OutPlaces, at'[j] \in OutPlaces,
         node'[j] = node[j], chunk'[j] = chunk[j]
  PROVE  SameView(j)
<1>1. at[j] # "spin" /\ at'[j] # "spin"
  BY DEF OutPlaces
<1>2. place[j] = "out" /\ nodeAt[j] = node[j] /\ piece[j] = chunk[j]
  BY <1>1, ViewOf, KindIs
<1>3. place'[j] = "out" /\ nodeAt'[j] = node'[j] /\ piece'[j] = chunk'[j]
  BY <1>1, ViewNow, KindIs
<1> QED BY <1>2, <1>3 DEF SameView

LEMMA RunningKept ==
  ASSUME Typed, Typed', Running, Rest PROVE Running'
<1>1. PICK r \in Regions : InRegion(r)
  BY DEF Running
<1>2. /\ Team' = Team /\ Team \subseteq Threads /\ 0 \in Team
      /\ (\A n : (Pieces(n)' = Pieces(n)) /\ (Whole(n)' <=> Whole(n)))
      /\ graph' = graph /\ nextChunk' = nextChunk /\ abortAt' = abortAt /\ after' = after
      /\ done' = done /\ converted' = converted
  BY TeamIs DEF Rest, Typed, Team, Pieces, Whole, historyVars
<1>3. \A j \in Team : Fits(j, r)'
  BY <1>1, <1>2, FitsKept DEF InRegion, Rest
<1>4. AbortFits(r)'
  BY <1>1, <1>2 DEF InRegion, AbortFits, Rest, SameView
<1>5. DoneFits(r)'
  <2>1. \A j \in Team, m \in Nodes : NotYet(j, m)' <=> NotYet(j, m)
    BY <1>2 DEF NotYet, Rest, SameView
  <2>2. \A j \in Team, m \in Nodes : Handed(j, m)' <=> Handed(j, m)
    BY <1>2 DEF Handed, Rest, SameView
  <2>3. \A p : InHand(p)' <=> InHand(p)
    BY <1>2 DEF InHand, Rest, SameView
  <2>4. \A j \in Team : place'[j] = place[j] /\ nodeAt'[j] = nodeAt[j] /\ piece'[j] = piece[j]
    BY <1>2 DEF Rest, SameView
  <2>5. \A m \in Nodes : PiecesFit(m) => PiecesFit(m)'
    BY <1>2, <2>1, <2>2, <2>3, <2>4 DEF PiecesFit
  <2> QED BY <1>1, <1>2, <2>5 DEF InRegion, DoneFits
<1>6. ConvertFits(r)'
  BY <1>1, <1>2 DEF InRegion, ConvertFits, Rest, SameView
<1>7. \A j \in Threads \ Team' : place'[j] = "out"
  BY <1>2 DEF Running, Rest, SameView
<1> QED BY <1>2, <1>3, <1>4, <1>5, <1>6, <1>7 DEF Running, InRegion

LEMMA BetweenKept ==
  ASSUME Typed, Between, Rest, at'[0] = "kickoff" => at[0] = "kickoff",
         at[0] \in {"kickoff", "join", "freed"} => at'[0] \in {"kickoff", "join", "freed"}
  PROVE  Between'
<1>1. /\ Team' = Team /\ Team \subseteq Threads
      /\ graph' = graph /\ abortAt' = abortAt /\ done' = done /\ converted' = converted
      /\ \A n : (Whole(n)' <=> Whole(n))
  BY TeamIs DEF Rest, Typed, Team, Pieces, Whole, historyVars
<1>2. ResultWhole => ResultWhole'
  BY <1>1 DEF ResultWhole
<1> QED BY <1>1, <1>2 DEF Between, Rest, SameView

LEMMA RestKeeps ==
  ASSUME PoolInv, Typed', Rest, at'[0] = "kickoff" => at[0] = "kickoff",
         at[0] \in {"kickoff", "join", "freed"} => at'[0] \in {"kickoff", "join", "freed"}
  PROVE  IF place'[0] = "out" THEN Between' ELSE Running'
<1>1. place'[0] = place[0]
  BY Constants DEF Rest, SameView
<1> QED BY <1>1, RunningKept, BetweenKept DEF PoolInv

-----------------------------------------------------------------------------
(* Every step keeps the invariant.                                          *)

Shape == IF place[0] = "out" THEN Between ELSE Running

LEMMA ShapeGraphStep ==
  ASSUME PoolInv, Typed', NEW i \in Threads,
         NextNode(i) \/ Convert(i) \/ Compute(i) \/ Claim(i) \/ EndNode(i)
  PROVE  Shape'
BY LoopView, RegionNextNode, RegionConvert, RegionCompute, RegionClaim, RegionEndNode DEF Shape

LEMMA ShapeBarrier ==
  ASSUME PoolInv, Typed', NEW i \in Threads, BarrierStep(i) PROVE Shape'
<1>1. Typed /\ BarrierInv
  BY DEF PoolInv
<1>2. at[i] \in BarrierPlaces /\ (at[0] \notin {"kickoff", "join", "freed"} \/ i # 0)
  BY DEF BarrierStep, Enter, Arrive, Reset, Pass, Spin, BarrierPlaces
<1>3. at'[0] \in {"kickoff", "join", "freed"} => i # 0 /\ at'[0] = at[0]
  <2>1. CASE Enter(i) /\ ~Leave(i)
    BY <1>1, <2>1, Constants DEF Enter, Goto, Typed
  <2>2. CASE Arrive(i) \/ Reset(i)
    BY <1>1, <2>2, Constants DEF Arrive, Reset, Goto, Typed
  <2>3. CASE Leave(i)
    BY <1>1, <2>3, LeaveTo, Constants
  <2> QED BY <2>1, <2>2, <2>3 DEF BarrierStep, Pass, Spin
<1>4. i # 0 => at'[0] = at[0]
  <2>1. CASE Enter(i) /\ ~Leave(i)
    BY <1>1, <2>1, Constants DEF Enter, Goto, Typed
  <2>2. CASE Arrive(i) \/ Reset(i)
    BY <1>1, <2>2, Constants DEF Arrive, Reset, Goto, Typed
  <2>3. CASE Leave(i)
    BY <1>1, <2>3, LeaveTo, Constants
  <2> QED BY <2>1, <2>2, <2>3 DEF BarrierStep, Pass, Spin
<1>5. CASE (Enter(i) /\ graph.threads # 1) \/ Arrive(i) \/ Reset(i) \/ Spin(i)
  <2>1. \A j \in Threads : SameView(j)
    BY <1>1, <1>5, EnterView, ArriveView, SpinView
  <2>2. Rest
    BY <1>5, <2>1 DEF Rest, Enter, Arrive, Reset, Spin, sharedVars, localVars, historyVars
  <2> QED BY <1>2, <1>3, <1>4, <2>2, RestKeeps DEF Shape
<1>6. CASE Pass(i) \/ (Enter(i) /\ graph.threads = 1)
  <2>1. at[i] \in {"pass", "enter"}
    BY <1>6 DEF Pass, Enter
  <2>2. place[i] = "barrier"
    BY <1>1, <2>1, ViewOf, KindIs DEF BarrierPlaces
  <2>3. i \in Team /\ Running /\ place[0] # "out"
    BY <1>1, <2>2, InTeam
  <2>4. Team \cup {i} = Team
    BY <2>3
  <2>5. Released
    <3>1. CASE Pass(i)
      BY <1>1, <2>4, <3>1, PassView DEF Released, Pass, historyVars
    <3>2. CASE Enter(i) /\ graph.threads = 1
      BY <1>1, <2>3, <3>2, AloneView DEF Released, Enter, sharedVars, historyVars
    <3> QED BY <1>6, <3>1, <3>2
  <2>6. at'[0] \notin {"kickoff", "join", "freed"}
    <3>1. at[0] \in {"kickoff", "join", "freed"} => place[0] = "out"
      BY <1>1, ViewOf, KindIs, Constants DEF OutPlaces
    <3> QED BY <1>3, <2>3, <3>1
  <2> QED BY <1>1, <2>3, <2>5, <2>6, ReleaseKeeps DEF Shape
<1> QED BY <1>5, <1>6 DEF BarrierStep

\* A worker that finds a graph to compute joins the others at its first node.
LEMMA PickUp ==
  ASSUME PoolInv, Typed', NEW i \in Threads \ {0}, i \in Team, CheckForWork(i), at'[i] = "head"
  PROVE  Shape'
<1>1. /\ Typed /\ at[i] = "check" /\ graph.number # last[i]
      /\ last' = [last EXCEPT ![i] = graph.number] /\ node' = [node EXCEPT ![i] = 0]
      /\ UNCHANGED <<sharedVars, after, chunk, seen, historyVars>>
      /\ at' = [at EXCEPT ![i] = "head"]
  BY DEF PoolInv, CheckForWork, Goto, SetLocal, Typed
<1>2. place[i] = "out" /\ place'[i] = "head" /\ nodeAt'[i] = 0 /\ last'[i] = graph.number
  <2>1. at'[i] = "head" /\ node'[i] = 0 /\ last'[i] = graph.number
    BY <1>1 DEF Typed
  <2>2. place[i] = "out"
    BY <1>1, ViewOf, KindIs DEF OutPlaces
  <2>3. place'[i] = "head" /\ nodeAt'[i] = 0
    BY <1>1, <2>1, ViewNow, KindIs
  <2> QED BY <2>1, <2>2, <2>3
<1>3. /\ \A j \in Threads \ {i} : SameView(j) /\ after'[j] = after[j] /\ last'[j] = last[j]
      /\ graph' = graph /\ Team' = Team /\ (\A n : Pieces(n)' = Pieces(n))
      /\ UNCHANGED <<nextChunk, abortAt, done, converted>>
  <2>1. \A j \in Threads \ {i} : SameView(j)
    BY <1>1, ViewKept DEF sharedVars, Typed
  <2> QED BY <1>1, <2>1 DEF Typed, Team, Pieces, sharedVars, historyVars
<1>4. 0 \in Team /\ Team \subseteq Threads
  BY <1>1, TeamIs DEF Typed
<1>5. Running /\ place[0] # "out"
  BY <1>1 DEF PoolInv, Between
<1>6. PICK r \in Regions : InRegion(r)
  BY <1>5 DEF Running
<1>7. Fits(i, r) /\ AbortFits(r) /\ DoneFits(r) /\ ConvertFits(r)
  BY <1>6 DEF InRegion
<1>8. r.base = 0 /\ r.kind = "head"
  BY <1>2, <1>7 DEF Fits
<1>9. Skipping(r, 0)
  BY <1>8, Constants DEF Skipping, NoWork
<1>10. Fits(i, r)'
  BY <1>2, <1>3, <1>9 DEF Fits
<1>11. AbortFits(r)'
  BY <1>3, <1>4, <1>7 DEF AbortFits, SameView
<1>12. DoneFits(r)'
  <2>1. \A m : Working(r, m) => m \in Int /\ 0 <= m
    BY WorkingIs, Constants
  <2>2. \A m : Working(r, m) => NotYet(i, m)' /\ NotYet(i, m) /\ ~(nodeAt'[i] > m)
    BY <1>2, <2>1 DEF NotYet
  <2> QED BY <1>1, <1>2, <1>3, <1>7, <2>2, DoneKept
<1>13. ConvertFits(r)'
  BY <1>2, <1>3, <1>4, <1>7 DEF ConvertFits, SameView
<1>14. Running'
  BY <1>1, <1>3, <1>5, <1>6, <1>10, <1>11, <1>12, <1>13, RegionKept DEF Running
<1> QED BY <1>3, <1>4, <1>5, <1>14 DEF Shape, SameView

LEMMA ShapeWorker ==
  ASSUME PoolInv, Typed', NEW i \in Threads \ {0}, Top(i) \/ CheckForWork(i) PROVE Shape'
<1>1. Typed /\ at'[0] = at[0]
  BY Constants DEF PoolInv, Typed, Top, CheckForWork, Goto
<1>2. CASE i \in Team /\ CheckForWork(i) /\ at'[i] = "head"
  BY <1>2, PickUp
<1>3. CASE ~(i \in Team /\ CheckForWork(i) /\ at'[i] = "head")
  <2>1. /\ at[i] \in {"top", "check"} /\ at'[i] \in WorkerPlaces
        /\ UNCHANGED <<sharedVars, after, node, chunk, seen, historyVars>>
        /\ (last' = last \/ (i \notin Team /\ last' = [last EXCEPT ![i] = graph.number]))
        /\ \A j \in Threads \ {i} : at'[j] = at[j]
    <3>1. CASE Top(i)
      BY <1>1, <3>1 DEF Top, Goto, WorkerPlaces, localVars, Typed
    <3>2. CASE CheckForWork(i)
      BY <1>1, <1>3, <3>2 DEF CheckForWork, Goto, SetLocal, WorkerPlaces, Typed
    <3> QED BY <3>1, <3>2
  <2>2. \A j \in Threads \ {i} : SameView(j)
    BY <1>1, <2>1, ViewKept DEF sharedVars
  <2>3. SameView(i)
    BY <1>1, <2>1, OutView DEF WorkerPlaces, OutPlaces, sharedVars
  <2>4. Rest
    BY <1>1, <2>1, <2>2, <2>3, TeamIs DEF Rest, sharedVars, Typed
  <2> QED BY <1>1, <2>4, RestKeeps DEF Shape
<1> QED BY <1>2, <1>3

LEMMA ShapePrepare ==
  ASSUME PoolInv, Typed', Prepare PROVE Shape'
<1>1. /\ Typed /\ at[0] = "idle" /\ at'[0] = "kickoff"
      /\ abortAt' = -1 /\ converted' = [n \in Nodes |-> {}] /\ done' = [n \in Nodes |-> {}]
      /\ UNCHANGED <<graph, nPassed, localVars>>
      /\ \A j \in Threads \ {0} : at'[j] = at[j]
  BY Constants DEF PoolInv, Prepare, Goto, Typed
<1>2. place[0] = "out" /\ Between
  <2>1. place[0] = "out"
    BY <1>1, ViewOf, KindIs, Constants DEF OutPlaces
  <2> QED BY <2>1 DEF PoolInv
<1>3. place'[0] = "out"
  BY <1>1, ViewNow, KindIs, Constants DEF OutPlaces
<1>4. \A j \in Threads \ {0} : SameView(j)
  BY <1>1, ViewKept DEF localVars
<1>5. \A j \in Threads : place'[j] = "out"
  BY <1>2, <1>3, <1>4 DEF Between, SameView
<1>6. \A j \in Team' \ {0} : last'[j] = graph'.number
  BY <1>1, <1>2 DEF Between, Team, localVars
<1> QED BY <1>1, <1>3, <1>5, <1>6 DEF Shape, Between

\* The broadcast moves no thread for the others.
LEMMA WokenView ==
  ASSUME Typed, Typed', NEW pc \in PoolPlaces, at' = Woken([at EXCEPT ![0] = pc]),
         UNCHANGED <<nPassed, after, chunk, seen>>, NEW j \in Threads \ {0}, node'[j] = node[j]
  PROVE  SameView(j)
<1>1. at'[j] = at[j] \/ (at[j] \in {"wait work", "wait pause"} /\ at'[j] \in {"check", "top"})
  BY Constants DEF Woken, Typed
<1>2. CASE at'[j] = at[j]
  BY <1>2, ViewKept
<1>3. CASE at[j] \in {"wait work", "wait pause"} /\ at'[j] \in {"check", "top"}
  BY <1>3, OutView DEF OutPlaces
<1> QED BY <1>1, <1>2, <1>3

LEMMA ShapeKickoff ==
  ASSUME PoolInv, Typed', Kickoff PROVE Shape'
<1>1. /\ Typed /\ at[0] = "kickoff" /\ at' = Woken([at EXCEPT ![0] = "head"])
      /\ node' = [node EXCEPT ![0] = 0]
      /\ UNCHANGED <<nPassed, abortAt, after, chunk, seen, last, done, converted>>
      /\ \E n \in 1..PoolSize : graph' = [number |-> graph.number + 1, threads |-> n]
  BY DEF PoolInv, Kickoff, NewGraph, SetLocal, historyVars
<1>2. place[0] = "out" /\ Between
  <2>1. place[0] = "out"
    BY <1>1, ViewOf, KindIs, Constants DEF OutPlaces
  <2> QED BY <2>1 DEF PoolInv
<1>3. abortAt = -1 /\ \A n \in Nodes : converted[n] = {} /\ done[n] = {}
  BY <1>1, <1>2 DEF Between
<1>4. at'[0] = "head" /\ node'[0] = 0
  BY <1>1, Constants DEF Woken, Typed
<1>5. place'[0] = "head" /\ nodeAt'[0] = 0
  BY <1>1, <1>4, ViewNow, KindIs, Constants
<1>6. \A j \in Threads \ {0} : SameView(j)
  <2>1. "head" \in PoolPlaces
    BY DEF PoolPlaces
  <2>2. \A j \in Threads \ {0} : node'[j] = node[j]
    BY <1>1 DEF Typed
  <2> QED BY <1>1, <2>1, <2>2, WokenView
<1>7. \A j \in Threads \ {0} : place'[j] = "out" /\ last'[j] # graph'.number
  <2>1. graph'.number = graph.number + 1 /\ graph.number \in Nat
    BY <1>1, TeamIs DEF Typed
  <2>2. \A j \in Threads : last[j] \in Nat /\ last[j] <= graph.number
    BY <1>1 DEF Typed
  <2> QED BY <1>1, <1>2, <1>6, <2>1, <2>2 DEF Between, SameView
<1>8. PICK r \in Regions : r.base = 0 /\ r.kind = "head"
  <2>1. [base |-> 0, kind |-> "head"] \in Regions
    BY Constants DEF Regions
  <2> QED BY <2>1
<1>9. Skipping(r, 0)
  BY <1>8, Constants DEF Skipping, NoWork
<1>10. Team' \subseteq Threads /\ 0 \in Team'
  BY <1>1, Constants DEF Team, Threads
<1>11. \A j \in Team' : Fits(j, r)'
  BY <1>5, <1>7, <1>8, <1>9, <1>10 DEF Fits
<1>12. AbortFits(r)'
  BY <1>1, <1>3, <1>8 DEF AbortFits
<1>13. DoneFits(r)'
  <2>1. ASSUME NEW l \in Nodes, Working(r, l) PROVE PiecesFit(l)'
    <3>1. Op(l) = "rows" /\ l \in Int /\ 0 <= l
      BY <1>8, <2>1, WorkingIs, Constants
    <3>2. Pieces(l)' = graph'.threads /\ graph'.threads \in Nat
      BY <1>1, <3>1, Constants DEF Pieces
    <3>3. \A j \in Team' : NotYet(j, l)' /\ place'[j] # "piece"
      BY <1>5, <1>7, <1>10, <3>1 DEF NotYet
    <3>4. done'[l] = {}
      BY <1>1, <1>3
    <3>5. graph'.threads..Pieces(l)' - 1 = {} /\ ~(Pieces(l)' > graph'.threads)
      BY <3>2
    <3> QED BY <3>3, <3>4, <3>5 DEF PiecesFit
  <2>2. \A l \in Nodes : ~(l < 0) /\ done'[l] = {}
    BY <1>1, <1>3, Constants
  <2> QED BY <1>8, <2>1, <2>2 DEF DoneFits
<1>14. ConvertFits(r)'
  BY <1>1, <1>3, <1>5, <1>7, <1>8, <1>10 DEF ConvertFits
<1>15. \A j \in Threads \ Team' : place'[j] = "out"
  BY <1>7, <1>10
<1> QED BY <1>5, <1>11, <1>12, <1>13, <1>14, <1>15 DEF Shape, Running, InRegion

LEMMA ShapeCaller ==
  ASSUME PoolInv, Typed', PauseOrResume \/ FreePool \/ Joined PROVE Shape'
<1>1. Typed /\ UNCHANGED <<nPassed, graph, nextChunk, abortAt, localVars, historyVars>>
  BY DEF PoolInv, PauseOrResume, FreePool, Joined, sharedVars
<1>2. /\ at[0] \in CallerPlaces \ {"kickoff"} /\ at'[0] \in CallerPlaces \ {"kickoff"}
      /\ at[0] # "idle" => at'[0] # "idle"
  BY Constants DEF PoolInv, Typed, PauseOrResume, FreePool, Joined, Goto, Woken, CallerPlaces
<1>3. SameView(0)
  BY <1>1, <1>2, OutView, Constants DEF CallerPlaces, OutPlaces, localVars
<1>4. \A j \in Threads \ {0} : SameView(j)
  <2>1. CASE Joined
    <3>1. \A j \in Threads \ {0} : at'[j] = at[j]
      BY <1>1, <2>1 DEF Joined, Goto, Typed
    <3> QED BY <1>1, <3>1, ViewKept DEF localVars
  <2>2. CASE PauseOrResume
    <3>1. at' = Woken([at EXCEPT ![0] = "idle"]) /\ "idle" \in PoolPlaces
      <4>1. at = [at EXCEPT ![0] = "idle"]
        BY <1>1, <2>2, Constants DEF PauseOrResume, Typed
      <4> QED BY <2>2, <4>1 DEF PauseOrResume, PoolPlaces
    <3> QED BY <1>1, <3>1, WokenView DEF localVars
  <2>3. CASE FreePool
    <3>1. at' = Woken([at EXCEPT ![0] = "join"]) /\ "join" \in PoolPlaces
      BY <2>3 DEF FreePool, PoolPlaces
    <3> QED BY <1>1, <3>1, WokenView DEF localVars
  <2> QED BY <2>1, <2>2, <2>3
<1>5. Rest
  BY <1>1, <1>3, <1>4 DEF Rest, localVars
<1> QED BY <1>2, <1>5, RestKeeps DEF Shape, CallerPlaces

LEMMA ShapeStart == PoolInit => Shape /\ BarrierInv
<1> SUFFICES ASSUME PoolInit PROVE Shape /\ BarrierInv
  OBVIOUS
<1>1. Typed
  BY TypedStart
<1>2. \A j \in Threads : at[j] \in {"idle", "top"} /\ seen[j] = 0 /\ last[j] = 0
  BY DEF PoolInit
<1>3. \A j \in Threads : place[j] = "out"
  BY <1>1, <1>2, ViewOf, KindIs DEF OutPlaces
<1>4. at[0] = "idle" /\ graph.number = 0 /\ Team \subseteq Threads
  BY <1>1, TeamIs, Constants DEF PoolInit, Typed
<1>5. Shape
  BY <1>2, <1>3, <1>4, Constants DEF Shape, Between
<1>6. Waiters = {}
  BY <1>2 DEF Waiters
<1>7. Cardinality(Waiters) = 0
  BY <1>6, FS_EmptySet
<1> QED BY <1>2, <1>5, <1>7 DEF PoolInit, BarrierInv

LEMMA ShapeStep ==
  ASSUME PoolInv, Typed', PoolNext PROVE Shape'
BY Constants, ShapeGraphStep, ShapeBarrier, ShapeWorker, ShapePrepare, ShapeKickoff, ShapeCaller
   DEF PoolNext, CallerStep, WorkerStep, GraphStep

LEMMA ShapeStutter == ASSUME PoolInv, UNCHANGED poolVars PROVE PoolInv'
<1>1. Typed' /\ BarrierInv'
  BY DEF PoolInv, Typed, BarrierInv, Waiters, Team, poolVars
<1>2. \A j \in Threads : SameView(j)
  BY <1>1, ViewKept DEF PoolInv, poolVars
<1>3. Rest
  BY <1>2 DEF Rest, poolVars, historyVars
<1>4. at' = at
  BY DEF poolVars
<1> QED BY <1>1, <1>3, <1>4, RestKeeps DEF PoolInv

\* The barrier of the pool is a barrier, and a graph is computed as if by one
\* thread: all the threads are in the same region of it.
THEOREM PoolCorrect == PoolSpec => []PoolInv
<1>1. PoolInit => PoolInv
  BY TypedStart, ShapeStart DEF PoolInv, Shape
<1>2. PoolInv /\ [PoolNext]_poolVars => PoolInv'
  <2> SUFFICES ASSUME PoolInv, [PoolNext]_poolVars PROVE PoolInv'
    OBVIOUS
  <2>1. CASE PoolNext
    <3>1. Typed'
      BY <2>1, TypedStep DEF PoolInv
    <3> QED BY <2>1, <3>1, BarrierKeeps, ShapeStep DEF PoolInv, Shape
  <2>2. CASE UNCHANGED poolVars
    BY <2>2, ShapeStutter
  <2> QED BY <2>1, <2>2
<1> QED BY <1>1, <1>2, PTL DEF PoolSpec

-----------------------------------------------------------------------------
(* What it says of the program.                                             *)

LEMMA AtWork ==
  ASSUME PoolInv, NEW i \in Threads, at[i] \in {"piece", "convert"}
  PROVE  /\ i \in Team /\ place[i] = at[i] /\ nodeAt[i] = node[i] /\ piece[i] = chunk[i]
         /\ \E r \in Regions : /\ InRegion(r) /\ WorkNode(r, node[i])
                               /\ at[i] = "piece" => Working(r, node[i])
<1>1. Typed
  BY DEF PoolInv
<1>2. place[i] = at[i] /\ nodeAt[i] = node[i] /\ piece[i] = chunk[i]
  BY <1>1, ViewOf, KindIs
<1>3. i \in Team /\ Running
  BY <1>1, <1>2, InTeam
<1>4. PICK r \in Regions : InRegion(r)
  BY <1>3 DEF Running
<1>5. Fits(i, r)
  BY <1>3, <1>4 DEF InRegion
<1>6. WorkNode(r, node[i]) /\ (at[i] = "piece" => Working(r, node[i]))
  BY <1>2, <1>5 DEF Fits, Working, Converting
<1> QED BY <1>2, <1>3, <1>4, <1>6

LEMMA PieceOnceHolds == PoolInv => PieceOnce
<1> SUFFICES ASSUME PoolInv, NEW i \in Threads, at[i] = "piece"
             PROVE  /\ chunk[i] \in 0..Pieces(node[i]) - 1 \ done[node[i]]
                    /\ \A j \in Threads \ {i} : at[j] = "piece" => chunk[i] # chunk[j]
  BY DEF PieceOnce
<1>1. /\ i \in Team /\ place[i] = "piece" /\ piece[i] = chunk[i]
  BY AtWork
<1>2. PICK r \in Regions : InRegion(r) /\ Working(r, node[i])
  BY AtWork
<1>3. PiecesFit(node[i])
  BY <1>2, WorkingIs DEF InRegion, DoneFits
<1>4. Handed(i, node[i])
  BY <1>1, <1>3 DEF PiecesFit
<1>5. ASSUME NEW j \in Threads \ {i}, at[j] = "piece" PROVE chunk[i] # chunk[j]
  <2>1. j \in Team /\ place[j] = "piece" /\ piece[j] = chunk[j]
    BY <1>5, AtWork
  <2> QED BY <1>1, <1>3, <1>5, <2>1 DEF PiecesFit
<1> QED BY <1>1, <1>4, <1>5 DEF Handed

LEMMA NodesInOrderHolds == PoolInv => NodesInOrder
<1> SUFFICES ASSUME PoolInv, NEW i \in Threads, at[i] \in {"piece", "convert"}
             PROVE  /\ \A n \in 0..node[i] - 1 : Whole(n)
                    /\ at[i] = "piece" /\ Op(node[i]) = "mul_mat" => converted[node[i]] = Team
  BY DEF NodesInOrder
<1>1. PICK r \in Regions :
        /\ InRegion(r) /\ WorkNode(r, node[i]) /\ (at[i] = "piece" => Working(r, node[i]))
  BY AtWork
<1>2. DoneFits(r) /\ ConvertFits(r) /\ Typed
  BY <1>1 DEF InRegion, PoolInv
<1>3. /\ node[i] \in Nat /\ node[i] < Len(Ops) /\ Len(Ops) \in Nat
      /\ r.base \in Nat /\ r.base <= node[i]
      /\ r.kind = "pieces" => r.base = node[i]
      /\ r.kind # "pieces" => NoWork(r.base, node[i])
  BY <1>1, Constants DEF WorkNode, Regions
<1>4. ASSUME NEW n \in 0..node[i] - 1 PROVE Whole(n)
  <2>1. n \in Nodes /\ n < node[i]
    BY <1>3, <1>4, Constants
  <2>2. CASE n < r.base
    BY <1>2, <2>1, <2>2 DEF DoneFits
  <2>3. CASE r.base <= n
    <3>1. Op(n) = "none"
      BY <1>3, <2>1, <2>3 DEF NoWork
    <3> QED BY <1>2, <2>1, <2>3, <3>1, NothingToDo
  <2> QED BY <1>3, <1>4, <2>2, <2>3
<1>5. at[i] = "piece" /\ Op(node[i]) = "mul_mat" => converted[node[i]] = Team
  BY <1>1, <1>2, WorkingIs DEF ConvertFits
<1> QED BY <1>4, <1>5

LEMMA CallerAloneHolds == PoolInv => CallerAlone
<1> SUFFICES ASSUME PoolInv, at[0] \in {"idle", "kickoff", "join", "freed"}, NEW i \in Threads \ {0}
             PROVE  \/ at[i] \in {"top", "check", "wait work", "wait pause", "ended"}
                    \/ at[i] = "spin" /\ after[i] = "end" /\ nPassed # seen[i]
  BY DEF CallerAlone
<1>1. Typed /\ place[0] = "out"
  BY ViewOf, KindIs, Constants DEF PoolInv, OutPlaces
<1>2. place[i] = "out"
  BY <1>1 DEF PoolInv, Between
<1>3. CASE Stale(i)
  <2>1. Behind(i) = "out"
    BY <1>1, <1>2, <1>3, ViewOf
  <2>2. after[i] = "end"
    BY <1>1, <2>1 DEF Behind, Typed
  <2> QED BY <1>3, <2>2 DEF Stale
<1>4. CASE ~Stale(i)
  <2>1. Kind(at[i]) = "out" /\ at[i] \in PoolPlaces /\ at[i] \notin CallerPlaces
    BY <1>1, <1>2, <1>4, ViewOf DEF Typed
  <2>2. at[i] \in OutPlaces
    BY <2>1, KindInv
  <2> QED BY <2>1, <2>2 DEF OutPlaces, CallerPlaces
<1> QED BY <1>3, <1>4

LEMMA ReturnsWholeHolds == PoolInv => ReturnsWhole
<1> SUFFICES ASSUME PoolInv, at[0] = "idle", graph.number > 0 PROVE ResultWhole
  BY DEF ReturnsWhole, ResultWhole
<1>1. place[0] = "out"
  BY ViewOf, KindIs, Constants DEF PoolInv, OutPlaces
<1> QED BY <1>1 DEF PoolInv, Between

\* Each piece of each node is computed once, the nodes in their order, and what
\* is returned is whole, for every graph, every number of threads of the pool and
\* of each graph, and every way in which the callback aborts.
THEOREM GraphAsByOne == PoolSpec => []PoolSound
<1>1. PoolInv => PoolSound
  BY PieceOnceHolds, NodesInOrderHolds, CallerAloneHolds, ReturnsWholeHolds DEF PoolSound
<1> QED BY <1>1, PoolCorrect, PTL
-----------------------------------------------------------------------------
(* The types with their bounds, which need the invariant: nobody goes past  *)
(* the last node, and no more threads wait than the graph has.              *)

Bounded ==
  /\ graph.number <= MaxGraphs /\ nBarrier <= graph.threads
  /\ poolStop \in BOOLEAN /\ poolPause \in BOOLEAN
  /\ abortAt \in -1..Len(Ops)
  /\ node \in [Threads -> 0..Len(Ops)]

\* A thread that leaves a barrier for the next node has one to go to, or the end.
LEMMA LeaveBound ==
  ASSUME PoolInv, NEW i \in Threads, after[i] = "next",
         at[i] \in {"enter", "pass"} \/ Stale(i)
  PROVE  node[i] + 1 \in 0..Len(Ops)
<1>1. Typed
  BY DEF PoolInv
<1>2. CASE Stale(i)
  <2>1. place[i] = "head" /\ nodeAt[i] = node[i] + 1
    BY <1>1, <1>2, ViewOf DEF Behind
  <2>2. PICK r \in Regions : Fits(i, r)
    BY <1>1, <2>1, InTeam DEF Running, InRegion
  <2>3. Skipping(r, nodeAt[i]) \/ GraphOver(r, nodeAt[i])
    BY <2>1, <2>2 DEF Fits
  <2>4. nodeAt[i] \in 0..Len(Ops)
    BY <2>3, Constants DEF Skipping, GraphOver, Regions
  <2> QED BY <2>1, <2>4
<1>3. CASE ~Stale(i)
  <2>1. place[i] = "barrier" /\ nodeAt[i] = node[i]
    BY <1>1, <1>3, ViewOf, KindIs DEF BarrierPlaces
  <2>2. PICK r \in Regions : Fits(i, r)
    BY <1>1, <2>1, InTeam DEF Running, InRegion
  <2>3. nodeAt[i] + 1 \in Nodes
    BY <2>1, <2>2 DEF Fits
  <2> QED BY <2>1, <2>3, Constants
<1> QED BY <1>2, <1>3

LEMMA LeaveBounded ==
  ASSUME PoolInv, Bounded, NEW i \in Threads, Leave(i), at[i] \in {"enter", "pass"} \/ Stale(i)
  PROVE  node' \in [Threads -> 0..Len(Ops)]
<1>1. CASE after[i] = "next"
  BY <1>1, LeaveBound DEF Leave, SetLocal, Bounded
<1>2. CASE after[i] # "next"
  BY <1>2 DEF Leave, Bounded
<1> QED BY <1>1, <1>2

\* Room for one more at the barrier.
LEMMA ArriveBounded ==
  ASSUME PoolInv, NEW i \in Threads, at[i] = "arrive"
  PROVE  nBarrier < graph.threads
<1>1. Typed /\ BarrierInv
  BY DEF PoolInv
<1>2. \A j \in Threads : at[j] \in BarrierPlaces /\ ~Stale(j) => j \in Team
  BY <1>1, InTeam, ViewOf, KindIs
<1>3. i \in Team /\ i \notin Waiters
  BY <1>2 DEF BarrierPlaces, Stale, Waiters
<1>4. Waiters \subseteq Team
  BY <1>2 DEF BarrierPlaces, Stale, Waiters
<1>5. \A j \in Threads : at[j] \notin {"reset", "pass"}
  <2> SUFFICES ASSUME NEW j \in Threads, at[j] \in {"reset", "pass"} PROVE FALSE
    OBVIOUS
  <2>1. Waiters = Team \ {j} /\ j # i
    BY <1>1 DEF BarrierInv
  <2> QED BY <1>3, <2>1
<1>6. nBarrier = Cardinality(Waiters)
  BY <1>1, <1>5 DEF BarrierInv
<1>7. IsFiniteSet(Team) /\ Cardinality(Team) = graph.threads /\ graph.threads \in Nat
  BY <1>1, TeamIs DEF Typed
<1>8. Waiters \subseteq Team \ {i} /\ IsFiniteSet(Team \ {i}) /\ Cardinality(Team \ {i}) = graph.threads - 1
  BY <1>3, <1>4, <1>7, FS_RemoveElement
<1>9. Cardinality(Waiters) <= Cardinality(Team \ {i})
  BY <1>8, FS_Subset
<1>10. Cardinality(Waiters) \in Nat
  BY <1>8, FS_Subset, FS_CardinalityType
<1> QED BY <1>6, <1>7, <1>8, <1>9, <1>10

LEMMA BoundedBarrier == ASSUME PoolInv, Bounded, NEW i \in Threads, BarrierStep(i) PROVE Bounded'
<1>1. UNCHANGED <<graph, poolStop, poolPause, abortAt>>
  BY DEF BarrierStep, Enter, Arrive, Reset, Pass, Spin, sharedVars
<1>2. graph.threads \in Nat
  BY TeamIs DEF PoolInv, Typed
<1>3. CASE Arrive(i)
  <2>1. nBarrier < graph.threads /\ nBarrier \in Nat /\ nBarrier' = nBarrier + 1 /\ node' = node
    BY <1>3, ArriveBounded DEF Arrive, localVars, PoolInv, Typed
  <2> QED BY <1>1, <1>2, <2>1 DEF Bounded
<1>4. CASE Reset(i)
  BY <1>1, <1>2, <1>4 DEF Reset, localVars, Bounded
<1>5. CASE Pass(i)
  BY <1>1, <1>5, LeaveBounded DEF Pass, Bounded
<1>6. CASE Spin(i)
  BY <1>1, <1>6, LeaveBounded DEF Spin, Stale, sharedVars, Bounded
<1>7. CASE Enter(i)
  BY <1>1, <1>7, LeaveBounded DEF Enter, sharedVars, Bounded
<1> QED BY <1>3, <1>4, <1>5, <1>6, <1>7 DEF BarrierStep

LEMMA BoundedGraphStep ==
  ASSUME PoolInv, Bounded, Typed', NEW i \in Threads,
         NextNode(i) \/ Convert(i) \/ Compute(i) \/ Claim(i) \/ EndNode(i)
  PROVE  Bounded'
<1>1. UNCHANGED <<graph, nBarrier, poolStop, poolPause>>
  BY DEF NextNode, Convert, Compute, Claim, EndNode, sharedVars
<1>2. CASE NextNode(i)
  <2>1. abortAt' = abortAt
    BY <1>2 DEF NextNode, sharedVars
  <2>2. node' = node \/ (node[i] \in Nodes /\ node' = [node EXCEPT ![i] = node[i] + 1])
    BY <1>2 DEF NextNode, SetLocal
  <2>3. node' \in [Threads -> 0..Len(Ops)]
    BY <2>2, Constants DEF Bounded
  <2> QED BY <1>1, <2>1, <2>3 DEF Bounded
<1>3. CASE EndNode(i)
  <2>1. node[i] \in Nodes
    BY <1>3, NodeView
  <2>2. node[i] + 1 \in 0..Len(Ops)
    BY <2>1, Constants
  <2>3. abortAt' \in -1..Len(Ops)
    BY <1>3, <2>2 DEF EndNode, Bounded
  <2>4. node' = node \/ node' = [node EXCEPT ![i] = node[i] + 1]
    BY <1>3 DEF EndNode, SetLocal
  <2> QED BY <1>1, <2>2, <2>3, <2>4 DEF Bounded
<1>4. CASE Convert(i) \/ Compute(i) \/ Claim(i)
  BY <1>1, <1>4 DEF Convert, Compute, Claim, sharedVars, localVars, Bounded
<1> QED BY <1>2, <1>3, <1>4

\* Nobody waits at the barrier when the next graph begins.
LEMMA BoundedKickoff == ASSUME PoolInv, Bounded, Kickoff, graph.number < MaxGraphs PROVE Bounded'
<1>1. Typed /\ BarrierInv /\ Between
  <2>1. place[0] = "out"
    BY Constants, ViewOf, KindIs DEF PoolInv, Kickoff, OutPlaces
  <2> QED BY <2>1 DEF PoolInv
<1>2. \A j \in Threads : at[j] \in BarrierPlaces => Stale(j)
  BY <1>1, ViewOf, KindIs DEF Between
<1>3. Waiters = {} /\ \A j \in Threads : at[j] \notin {"reset", "pass"}
  BY <1>2 DEF Waiters, Stale, BarrierPlaces
<1>4. nBarrier = 0
  BY <1>1, <1>3, FS_EmptySet DEF BarrierInv
<1>5. PICK n \in 1..PoolSize : graph' = [number |-> graph.number + 1, threads |-> n]
  BY DEF Kickoff, NewGraph
<1>6. graph'.number <= MaxGraphs /\ nBarrier' <= graph'.threads
  BY <1>1, <1>4, <1>5, Constants, TeamIs, PoolAssumption DEF Kickoff, Typed
<1>7. node' \in [Threads -> 0..Len(Ops)]
  BY Constants DEF Kickoff, SetLocal, Bounded
<1> QED BY <1>6, <1>7 DEF Kickoff, Bounded

\* A graph that is prepared has a number to come.
Numbered == at[0] = "kickoff" => graph.number < MaxGraphs

LEMMA NumberedStep == ASSUME PoolInv, Numbered, PoolNext PROVE Numbered'
<1>1. Typed
  BY DEF PoolInv
<1>2. CASE Prepare
  BY <1>1, <1>2 DEF Prepare, Numbered
<1>3. ASSUME at'[0] # "kickoff" PROVE Numbered'
  BY <1>3 DEF Numbered
<1>4. CASE Kickoff
  <2>1. at'[0] # "kickoff"
    BY <1>1, <1>4, Constants DEF Kickoff, Woken, Typed
  <2> QED BY <1>3, <2>1
<1>5. CASE PauseOrResume \/ FreePool \/ Joined
  <2>1. at'[0] # "kickoff"
    BY <1>1, <1>5, Constants DEF PauseOrResume, FreePool, Joined, Goto, Woken, Typed
  <2> QED BY <1>3, <2>1
<1>6. ASSUME NEW i \in Threads, GraphStep(i) PROVE Numbered'
  <2>1. graph' = graph
    BY <1>6 DEF GraphStep, BarrierStep, Enter, Arrive, Reset, Pass, Spin, NextNode, Convert, Compute,
                Claim, EndNode, sharedVars
  <2>2. CASE i # 0
    <3>1. at'[0] = at[0]
      BY <1>1, <1>6, <2>2, Constants
         DEF GraphStep, BarrierStep, Enter, Arrive, Reset, Pass, Spin, NextNode, Convert, Compute,
             Claim, EndNode, Leave, Goto, ToBarrier, Typed
    <3> QED BY <2>1, <3>1 DEF Numbered
  <2>3. CASE i = 0
    <3>1. at'[0] # "kickoff"
      BY <1>1, <1>6, <2>3, Constants
         DEF GraphStep, BarrierStep, Enter, Arrive, Reset, Pass, Spin, NextNode, Convert, Compute,
             Claim, EndNode, Leave, Goto, ToBarrier, Typed
    <3> QED BY <1>3, <3>1
  <2> QED BY <2>2, <2>3
<1>7. ASSUME NEW i \in Threads \ {0}, Top(i) \/ CheckForWork(i) PROVE Numbered'
  <2>1. graph' = graph /\ at'[0] = at[0]
    BY <1>1, <1>7, Constants DEF Top, CheckForWork, Goto, sharedVars, Typed
  <2> QED BY <2>1 DEF Numbered
<1> QED
  BY <1>2, <1>4, <1>5, <1>6, <1>7, Constants DEF PoolNext, CallerStep, WorkerStep

LEMMA BoundedStep == ASSUME PoolInv, Bounded, Numbered, Typed', PoolNext PROVE Bounded'
<1>1. ASSUME NEW i \in Threads, GraphStep(i) PROVE Bounded'
  BY <1>1, BoundedBarrier, BoundedGraphStep DEF GraphStep
<1>2. CASE Kickoff
  BY <1>2, BoundedKickoff DEF Numbered, Kickoff
<1>3. CASE Prepare
  BY <1>3, Constants DEF Prepare, localVars, Bounded
<1>4. CASE PauseOrResume \/ FreePool \/ Joined
  BY <1>4 DEF PauseOrResume, FreePool, Joined, sharedVars, localVars, Bounded
<1>5. ASSUME NEW i \in Threads \ {0}, Top(i) \/ CheckForWork(i) PROVE Bounded'
  <2>1. UNCHANGED sharedVars
    BY <1>5 DEF Top, CheckForWork
  <2>2. node' = node \/ node' = [node EXCEPT ![i] = 0]
    BY <1>5 DEF Top, CheckForWork, SetLocal, localVars
  <2>3. node' \in [Threads -> 0..Len(Ops)]
    BY <2>2, Constants DEF Bounded
  <2> QED BY <2>1, <2>3 DEF sharedVars, Bounded
<1> QED
  BY <1>1, <1>2, <1>3, <1>4, <1>5, Constants DEF PoolNext, CallerStep, WorkerStep

\* Type correctness of the pool, for every graph and number of threads: the barrier never
\* counts more threads than there are, and no thread leaves the graph's nodes.
THEOREM PoolTyped == PoolSpec => []PoolTypeOK
<1>1. PoolInit => Bounded /\ Numbered
  <2> SUFFICES ASSUME PoolInit PROVE Bounded /\ Numbered
    OBVIOUS
  <2>1. at[0] = "idle"
    BY Constants DEF PoolInit
  <2>2. graph.number = 0 /\ graph.threads = 1 /\ nBarrier = 0
    BY DEF PoolInit
  <2>3. abortAt \in -1..Len(Ops) /\ node \in [Threads -> 0..Len(Ops)]
    BY Constants DEF PoolInit
  <2>4. poolStop \in BOOLEAN /\ poolPause \in BOOLEAN
    BY DEF PoolInit
  <2> QED BY <2>1, <2>2, <2>3, <2>4, PoolAssumption DEF Bounded, Numbered
<1>2. PoolInv /\ PoolInv' /\ Bounded /\ Numbered /\ [PoolNext]_poolVars => Bounded' /\ Numbered'
  <2>1. CASE PoolNext
    BY <2>1, BoundedStep, NumberedStep DEF PoolInv
  <2>2. CASE UNCHANGED poolVars
    BY <2>2 DEF poolVars, sharedVars, localVars, historyVars, Bounded, Numbered
  <2> QED BY <2>1, <2>2
<1>3. PoolInv /\ Bounded => PoolTypeOK
  <2> SUFFICES ASSUME Typed, Bounded PROVE PoolTypeOK
    BY DEF PoolInv
  <2>1. graph \in [number : 0..MaxGraphs, threads : 1..PoolSize]
    BY PoolAssumption DEF Typed, Bounded
  <2>2. nBarrier \in 0..graph.threads
    BY TeamIs DEF Typed, Bounded
  <2> QED BY <2>1, <2>2 DEF Typed, Bounded, PoolTypeOK
<1> QED BY PoolCorrect, <1>1, <1>2, <1>3, PTL DEF PoolSpec
=============================================================================
