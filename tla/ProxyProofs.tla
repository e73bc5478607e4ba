---------------------------- MODULE ProxyProofs ----------------------------
(***************************************************************************)
(* Proofs about Proxy for any number of requests, slots and faults.        *)
(***************************************************************************)
EXTENDS Proxy, FiniteSetTheorems, TLAPS

-----------------------------------------------------------------------------
(* The inductive invariant: what the threads know of each other's state.   *)

\* The dispatcher's program counter, its request and its slot agree.
Control ==
  /\ holding => dpc \notin {"get", "acquire"}
  /\ dpc \in {"pop", "release"} => holding
  /\ held # None <=> dpc \in {"examine", "judge", "scan", "count"}
  /\ dpc = "scan" => Smart
  /\ dpc = "count" /\ ~Smart => reserve = Reserved
  /\ PopNeverBlocks

\* A request is in one place: before the queue, in line, forwarded, or in the
\* hands of its generator.
Placement ==
  /\ held \notin queue
  /\ \A r \in Requests :
       /\ InLine(r) => hpc[r] \notin {"new", "numbered"} /\ fpc[r] = "idle"
       /\ hpc[r] \in {"new", "numbered"} => fpc[r] = "idle"
       /\ fpc[r] \in {"idle", "call", "refused", "respond", "dead"} => body[r] = "none"
       /\ fpc[r] \in {"deactivate", "release"} => body[r] = "message"

\* Those ahead of a request come before it in the order of the queue, and
\* leave the line before it does.
Order ==
  \A r \in Requests :
    /\ seq[r] <= seqCounter
    /\ \A q \in ahead[r] :
         /\ hpc[q] \notin {"new", "numbered"}
         /\ Priority[q] <= Priority[r]
         /\ seq[q] < seq[r]
         /\ InLine(q) \/ fpc[q] # "idle" \/ abandoned[q]
    /\ r = held => \A q \in ahead[r] : fpc[q] # "idle" \/ abandoned[q]

SlotInv == TypeOK /\ Control /\ Placement /\ SlotAccounting /\ ActiveAccounting

-----------------------------------------------------------------------------
(* Sets of requests.                                                       *)

LEMMA FiniteRequests ==
  ASSUME NEW S \in SUBSET Requests
  PROVE  IsFiniteSet(S) /\ Cardinality(S) \in Nat
BY ProxyAssumption, FS_Subset, FS_CardinalityType

LEMMA Gain ==
  ASSUME NEW S \in SUBSET Requests, NEW x \in Requests, x \notin S
  PROVE  Cardinality(S \cup {x}) = Cardinality(S) + 1
BY FiniteRequests, FS_AddElement

LEMMA Loss ==
  ASSUME NEW S \in SUBSET Requests, NEW x \in S
  PROVE  Cardinality(S \ {x}) = Cardinality(S) - 1 /\ Cardinality(S) >= 1
<1>1. Cardinality(S \ {x}) = Cardinality(S) - 1
  BY FiniteRequests, FS_RemoveElement
<1>2. S \ {x} \in SUBSET Requests
  OBVIOUS
<1>3. Cardinality(S \ {x}) \in Nat /\ Cardinality(S) \in Nat
  BY <1>2, FiniteRequests
<1> QED
  BY <1>1, <1>3

LEMMA DisjointUnion ==
  ASSUME NEW S \in SUBSET Requests, NEW T \in SUBSET Requests, S \cap T = {}
  PROVE  Cardinality(S \cup T) = Cardinality(S) + Cardinality(T)
<1>1. Cardinality(S \cup T) = Cardinality(S) + Cardinality(T) - Cardinality(S \cap T)
  BY FiniteRequests, FS_Union
<1>2. Cardinality(S \cap T) = 0
  BY FS_EmptySet
<1>3. Cardinality(S) \in Nat /\ Cardinality(T) \in Nat
  BY FiniteRequests
<1> QED
  BY <1>1, <1>2, <1>3

-----------------------------------------------------------------------------
(* Type correctness and the placement of requests.                         *)

LEMMA ControlStep ==
  ASSUME TypeOK, Control, [Next]_vars
  PROVE  Control'
<1> USE ProxyAssumption DEF Control, PopNeverBlocks, TypeOK, DispatcherStates, vars, handlerVars, dispatcherVars, replyVars
<1>1. ASSUME NEW r \in Requests, Handler(r) PROVE Control'
  BY <1>1 DEF Handler, TakeSeq, Enqueue, AwaitReady, Abandon, BreakHeaders, Iterate, EndStream, BreakPipe, HandlerStep
<1>2. ASSUME NEW r \in Requests, Generator(r) \/ Collect(r) PROVE Control'
  BY <1>2 DEF Generator, FinallyDeactivate, FinallyRelease, Collect
<1>3. ASSUME NEW r \in Requests, Forward(r) PROVE Control'
  BY <1>3 DEF Forward, ForwardStep, Refused, RefusedReady, RefusedDeactivate, RefusedRelease, Crash, Respond, HandOver
<1>4. CASE Dispatcher
  <2>1. CASE PollEmpty
    BY <2>1 DEF PollEmpty
  <2>2. CASE Get \/ Pop
    BY <2>2 DEF Get, Pop, TakeHead, IsHead
  <2>3. CASE Examine
    BY <2>3 DEF Examine
  <2>4. CASE Judge
    <3>1. CASE PutBackForSlot
      BY <2>4, <3>1 DEF Judge, PutBackForSlot
    <3>2. CASE Dispatch
      BY <2>4, <3>2 DEF Judge, Dispatch
    <3>3. CASE ~Admit
      BY <2>4, <3>3 DEF Judge
    <3> QED
      BY <3>1, <3>2, <3>3 DEF Admit
  <2>5. CASE ScanQueue
    BY <2>5 DEF ScanQueue
  <2>6. CASE Count
    <3>1. CASE PutBackForSlot
      BY <2>6, <3>1 DEF Count, PutBackForSlot
    <3>2. CASE Dispatch
      BY <2>6, <3>2 DEF Count, Dispatch
    <3>3. CASE Deny
      BY <2>6, <3>3 DEF Count, Deny
    <3> QED
      BY <2>6, <3>1, <3>2, <3>3 DEF Count, Admit
  <2>7. CASE Acquire \/ Release
    BY <2>7 DEF Acquire, Release
  <2> QED
    BY <1>4, <2>1, <2>2, <2>3, <2>4, <2>5, <2>6, <2>7 DEF Dispatcher
<1>5. CASE UNCHANGED vars
  BY <1>5
<1> QED
  BY <1>1, <1>2, <1>3, <1>4, <1>5 DEF Next

LEMMA PlacementStep ==
  ASSUME TypeOK, Control, Placement, [Next]_vars
  PROVE  Placement'
<1> USE ProxyAssumption DEF Control, Placement, InLine, TypeOK, HandlerStates, BodyStates, ForwardStates, DispatcherStates, vars, handlerVars, dispatcherVars, replyVars
<1>1. ASSUME NEW r \in Requests, Handler(r) PROVE Placement'
  BY <1>1 DEF Handler, TakeSeq, Enqueue, AwaitReady, Abandon, BreakHeaders, Iterate, EndStream, BreakPipe, HandlerStep
<1>2. ASSUME NEW r \in Requests, Generator(r) \/ Collect(r) PROVE Placement'
  BY <1>2 DEF Generator, FinallyDeactivate, FinallyRelease, Collect
<1>3. ASSUME NEW r \in Requests, Forward(r) PROVE Placement'
  BY <1>3 DEF Forward, ForwardStep, Refused, RefusedReady, RefusedDeactivate, RefusedRelease, Crash, Respond, HandOver
<1>4. CASE Dispatcher
  <2>1. CASE PollEmpty
    BY <2>1 DEF PollEmpty
  <2>2. CASE Get \/ Pop
    BY <2>2 DEF Get, Pop, TakeHead, IsHead
  <2>3. CASE Examine
    BY <2>3 DEF Examine
  <2>4. CASE Judge
    <3>1. CASE PutBackForSlot
      BY <2>4, <3>1 DEF Judge, PutBackForSlot
    <3>2. CASE Dispatch
      BY <2>4, <3>2 DEF Judge, Dispatch
    <3>3. CASE ~Admit
      BY <2>4, <3>3 DEF Judge
    <3> QED
      BY <3>1, <3>2, <3>3 DEF Admit
  <2>5. CASE ScanQueue
    BY <2>5 DEF ScanQueue
  <2>6. CASE Count
    <3>1. CASE PutBackForSlot
      BY <2>6, <3>1 DEF Count, PutBackForSlot
    <3>2. CASE Dispatch
      BY <2>6, <3>2 DEF Count, Dispatch
    <3>3. CASE Deny
      BY <2>6, <3>3 DEF Count, Deny
    <3> QED
      BY <2>6, <3>1, <3>2, <3>3 DEF Count, Admit
  <2>7. CASE Acquire \/ Release
    BY <2>7 DEF Acquire, Release
  <2> QED
    BY <1>4, <2>1, <2>2, <2>3, <2>4, <2>5, <2>6, <2>7 DEF Dispatcher
<1>5. CASE UNCHANGED vars
  BY <1>5
<1> QED
  BY <1>1, <1>2, <1>3, <1>4, <1>5 DEF Next

-----------------------------------------------------------------------------
(* Slots and counters: the four ways a step can touch them.                *)

\* A step that leaves who is counted and who owns a slot alone.
LEMMA KeepsAccounts ==
  ASSUME SlotInv,
         \A r \in Requests : (Counted(r))' <=> Counted(r),
         \A r \in Requests : (OwnsSlot(r))' <=> OwnsSlot(r),
         UNCHANGED <<sem, holding, active>>
  PROVE  SlotAccounting' /\ ActiveAccounting'
<1>1. Owners' = Owners /\ \A p \in 0..2 : ActiveSet(p)' = ActiveSet(p)
  BY DEF Owners, ActiveSet
<1>2. SlotAccounting'
  BY <1>1 DEF SlotInv, SlotAccounting
<1>3. ActiveAccounting'
  BY <1>1 DEF SlotInv, ActiveAccounting
<1> QED
  BY <1>2, <1>3

\* A step that takes r off the counter and leaves it its slot.
LEMMA DeactivateAccounts ==
  ASSUME SlotInv, NEW r \in Requests,
         Counted(r), ~(Counted(r))', (OwnsSlot(r))',
         \A q \in Requests \ {r} : (Counted(q))' <=> Counted(q),
         \A q \in Requests \ {r} : (OwnsSlot(q))' <=> OwnsSlot(q),
         active' = [active EXCEPT ![Priority[r]] = @ - 1],
         UNCHANGED <<sem, holding>>
  PROVE  SlotAccounting' /\ ActiveAccounting' /\ active' \in [0..2 -> Nat]
<1>1. SlotAccounting'
  <2>1. Owners' = Owners
    BY DEF Owners, OwnsSlot
  <2> QED
    BY <2>1 DEF SlotInv, SlotAccounting
<1>2. ASSUME NEW p \in 0..2
      PROVE  active'[p] = Cardinality(ActiveSet(p)') /\ active'[p] \in Nat
  <2>0. active[p] = Cardinality(ActiveSet(p)) /\ ActiveSet(p) \in SUBSET Requests
    <3>1. active[p] = Cardinality(ActiveSet(p))
      BY DEF SlotInv, ActiveAccounting
    <3>2. ActiveSet(p) \in SUBSET Requests
      BY DEF ActiveSet
    <3> QED
      BY <3>1, <3>2
  <2>1. CASE p = Priority[r]
    <3>1. r \in ActiveSet(p) /\ ActiveSet(p)' = ActiveSet(p) \ {r}
      BY <2>1 DEF ActiveSet
    <3>2. active'[p] = active[p] - 1
      BY <2>1 DEF SlotInv, TypeOK
    <3>3. /\ Cardinality(ActiveSet(p) \ {r}) = Cardinality(ActiveSet(p)) - 1
          /\ Cardinality(ActiveSet(p)) >= 1
      BY <2>0, <3>1, Loss
    <3> QED
      BY <2>0, <3>1, <3>2, <3>3, FiniteRequests
  <2>2. CASE p # Priority[r]
    <3>1. ActiveSet(p)' = ActiveSet(p)
      BY <2>2 DEF ActiveSet
    <3>2. active'[p] = active[p] /\ active[p] \in Nat
      BY <2>2 DEF SlotInv, TypeOK
    <3> QED
      BY <2>0, <3>1, <3>2
  <2> QED
    BY <2>1, <2>2
<1>3. ActiveAccounting'
  BY <1>2 DEF ActiveAccounting
<1>4. active' \in [0..2 -> Nat]
  BY <1>2 DEF SlotInv, TypeOK
<1> QED
  BY <1>1, <1>3, <1>4

\* A step that gives back the slot of r.
LEMMA ReleaseAccounts ==
  ASSUME SlotInv, NEW r \in Requests,
         OwnsSlot(r), ~(OwnsSlot(r))',
         \A q \in Requests \ {r} : (OwnsSlot(q))' <=> OwnsSlot(q),
         \A q \in Requests : (Counted(q))' <=> Counted(q),
         sem' = sem + 1,
         UNCHANGED <<active, holding>>
  PROVE  SlotAccounting' /\ ActiveAccounting'
<1>1. r \in Owners /\ Owners' = Owners \ {r} /\ Owners \in SUBSET Requests
  BY DEF Owners
<1>2. Cardinality(Owners \ {r}) = Cardinality(Owners) - 1
  BY <1>1, Loss
<1>3. SlotAccounting'
  BY <1>1, <1>2, FiniteRequests DEF SlotInv, SlotAccounting, TypeOK
<1>4. \A p \in 0..2 : ActiveSet(p)' = ActiveSet(p)
  BY DEF ActiveSet
<1>5. ActiveAccounting'
  BY <1>4 DEF SlotInv, ActiveAccounting
<1> QED
  BY <1>3, <1>5

\* The dispatch: the dispatcher's unit becomes the request's.
LEMMA DispatchAccounts ==
  ASSUME SlotInv, Dispatch, NEW r \in Requests, held = r
  PROVE  SlotAccounting' /\ ActiveAccounting' /\ active' \in [0..2 -> Nat]
<1>0. /\ ~OwnsSlot(r) /\ (Counted(r))' /\ (OwnsSlot(r))' /\ ~Counted(r)
      /\ \A q \in Requests \ {r} : (Counted(q))' <=> Counted(q)
      /\ \A q \in Requests \ {r} : (OwnsSlot(q))' <=> OwnsSlot(q)
  BY DEF SlotInv, TypeOK, Placement, InLine, Dispatch, OwnsSlot, Counted, replyVars
<1>1. r \notin Owners /\ Owners' = Owners \cup {r} /\ Owners \in SUBSET Requests
  BY <1>0 DEF Owners
<1>2. Cardinality(Owners') = Cardinality(Owners) + 1 /\ Cardinality(Owners) \in Nat
  BY <1>1, Gain, FiniteRequests
<1>3. SlotAccounting'
  BY <1>2 DEF SlotInv, SlotAccounting, TypeOK, Dispatch
<1>4. ASSUME NEW p \in 0..2
      PROVE  active'[p] = Cardinality(ActiveSet(p)') /\ active'[p] \in Nat
  <2>0. active[p] = Cardinality(ActiveSet(p)) /\ ActiveSet(p) \in SUBSET Requests
    <3>1. active[p] = Cardinality(ActiveSet(p))
      BY DEF SlotInv, ActiveAccounting
    <3>2. ActiveSet(p) \in SUBSET Requests
      BY DEF ActiveSet
    <3> QED
      BY <3>1, <3>2
  <2>1. CASE p = Priority[r]
    <3>1. r \notin ActiveSet(p) /\ ActiveSet(p)' = ActiveSet(p) \cup {r}
      BY <1>0, <2>1 DEF ActiveSet
    <3>2. active'[p] = active[p] + 1 /\ active[p] \in Nat
      BY <2>1 DEF SlotInv, TypeOK, Dispatch
    <3> QED
      BY <2>0, <3>1, <3>2, Gain
  <2>2. CASE p # Priority[r]
    <3>1. ActiveSet(p)' = ActiveSet(p)
      BY <1>0, <2>2 DEF ActiveSet
    <3>2. active'[p] = active[p] /\ active[p] \in Nat
      BY <2>2 DEF SlotInv, TypeOK, Dispatch
    <3> QED
      BY <2>0, <3>1, <3>2
  <2> QED
    BY <2>1, <2>2
<1>5. ActiveAccounting'
  BY <1>4 DEF ActiveAccounting
<1>6. active' \in [0..2 -> Nat]
  BY <1>4 DEF SlotInv, TypeOK, Dispatch
<1> QED
  BY <1>3, <1>5, <1>6

\* Acquire and Release move a unit between the semaphore and the dispatcher.
LEMMA DispatcherAccounts ==
  ASSUME SlotInv, Acquire \/ Release
  PROVE  SlotAccounting' /\ ActiveAccounting'
<1>1. Owners' = Owners /\ \A p \in 0..2 : ActiveSet(p)' = ActiveSet(p)
  BY DEF Acquire, Release, Owners, ActiveSet, OwnsSlot, Counted, replyVars
<1>2. Cardinality(Owners) \in Nat
  BY FiniteRequests DEF Owners
<1>3. SlotAccounting'
  <2>0. sem + (IF holding THEN 1 ELSE 0) + Cardinality(Owners) = Slots
    BY DEF SlotInv, SlotAccounting
  <2>1. CASE Acquire
    <3>1. ~holding /\ holding' /\ sem' = sem - 1 /\ sem \in Nat
      BY <2>1 DEF SlotInv, TypeOK, Control, Acquire
    <3> QED
      BY <1>1, <1>2, <2>0, <3>1 DEF SlotAccounting
  <2>2. CASE Release
    <3>1. holding /\ ~holding' /\ sem' = sem + 1 /\ sem \in Nat
      BY <2>2 DEF SlotInv, TypeOK, Control, Release
    <3> QED
      BY <1>1, <1>2, <2>0, <3>1 DEF SlotAccounting
  <2> QED
    BY <2>1, <2>2
<1>4. ActiveAccounting'
  BY <1>1 DEF SlotInv, ActiveAccounting, Acquire, Release
<1> QED
  BY <1>3, <1>4

-----------------------------------------------------------------------------
(* The slot invariant is inductive.                                        *)

LEMMA SlotInit == Init => SlotInv
<1> SUFFICES ASSUME Init PROVE SlotInv
  OBVIOUS
<1> USE ProxyAssumption DEF Init
<1>1. TypeOK
  BY DEF TypeOK, HandlerStates, BodyStates, ForwardStates, DispatcherStates
<1>2. Control /\ Placement
  BY DEF Control, Placement, InLine, PopNeverBlocks
<1>3. Owners = {} /\ \A p \in 0..2 : ActiveSet(p) = {}
  BY DEF Owners, ActiveSet, OwnsSlot, Counted
<1>4. SlotAccounting /\ ActiveAccounting
  <2>1. Cardinality(Owners) = 0 /\ \A p \in 0..2 : Cardinality(ActiveSet(p)) = 0
    BY <1>3, FS_EmptySet
  <2>2. SlotAccounting
    BY <2>1 DEF SlotAccounting
  <2>3. ActiveAccounting
    BY <2>1 DEF ActiveAccounting
  <2> QED
    BY <2>2, <2>3
<1> QED
  BY <1>1, <1>2, <1>4 DEF SlotInv

LEMMA AccountingStep ==
  ASSUME SlotInv, [Next]_vars
  PROVE  SlotAccounting' /\ ActiveAccounting' /\ active' \in [0..2 -> Nat]
<1> USE DEF vars, handlerVars, dispatcherVars, replyVars
<1>0. active \in [0..2 -> Nat]
  BY DEF SlotInv, TypeOK
<1>1. ASSUME NEW r \in Requests, Handler(r)
      PROVE  SlotAccounting' /\ ActiveAccounting' /\ active' = active
  <2>1. /\ \A q \in Requests : (Counted(q))' <=> Counted(q)
        /\ \A q \in Requests : (OwnsSlot(q))' <=> OwnsSlot(q)
        /\ UNCHANGED <<sem, holding, active>>
    BY <1>1 DEF SlotInv, TypeOK, Handler, TakeSeq, Enqueue, AwaitReady, Abandon, BreakHeaders,
                Iterate, EndStream, BreakPipe, HandlerStep, Counted, OwnsSlot
  <2> QED
    BY <2>1, KeepsAccounts
<1>2. ASSUME NEW r \in Requests, Generator(r) \/ Collect(r)
      PROVE  SlotAccounting' /\ ActiveAccounting' /\ active' \in [0..2 -> Nat]
  <2>1. CASE FinallyDeactivate(r)
    <3>1. /\ Counted(r) /\ ~(Counted(r))' /\ (OwnsSlot(r))'
          /\ \A q \in Requests \ {r} : (Counted(q))' <=> Counted(q)
          /\ \A q \in Requests \ {r} : (OwnsSlot(q))' <=> OwnsSlot(q)
          /\ UNCHANGED <<sem, holding>>
      BY <2>1 DEF SlotInv, TypeOK, Placement, FinallyDeactivate, Counted, OwnsSlot
    <3> QED
      BY <2>1, <3>1, DeactivateAccounts DEF FinallyDeactivate
  <2>2. CASE FinallyRelease(r)
    <3>1. /\ OwnsSlot(r) /\ ~(OwnsSlot(r))'
          /\ \A q \in Requests \ {r} : (OwnsSlot(q))' <=> OwnsSlot(q)
          /\ \A q \in Requests : (Counted(q))' <=> Counted(q)
          /\ UNCHANGED <<active, holding>>
      BY <2>2 DEF SlotInv, TypeOK, Placement, FinallyRelease, Counted, OwnsSlot
    <3> QED
      BY <1>0, <2>2, <3>1, ReleaseAccounts DEF FinallyRelease
  <2>3. CASE Collect(r)
    <3>1. /\ \A q \in Requests : (Counted(q))' <=> Counted(q)
          /\ \A q \in Requests : (OwnsSlot(q))' <=> OwnsSlot(q)
          /\ UNCHANGED <<sem, holding, active>>
      BY <2>3 DEF SlotInv, TypeOK, Collect, Counted, OwnsSlot
    <3> QED
      BY <1>0, <3>1, KeepsAccounts
  <2> QED
    BY <1>2, <2>1, <2>2, <2>3 DEF Generator
<1>3. ASSUME NEW r \in Requests, Forward(r)
      PROVE  SlotAccounting' /\ ActiveAccounting' /\ active' \in [0..2 -> Nat]
  <2>1. CASE RefusedDeactivate(r)
    <3>1. /\ Counted(r) /\ ~(Counted(r))' /\ (OwnsSlot(r))'
          /\ \A q \in Requests \ {r} : (Counted(q))' <=> Counted(q)
          /\ \A q \in Requests \ {r} : (OwnsSlot(q))' <=> OwnsSlot(q)
          /\ UNCHANGED <<sem, holding>>
      BY <2>1 DEF SlotInv, TypeOK, Placement, RefusedDeactivate, ForwardStep, Counted, OwnsSlot
    <3> QED
      BY <2>1, <3>1, DeactivateAccounts DEF RefusedDeactivate
  <2>2. CASE RefusedRelease(r)
    <3>1. /\ OwnsSlot(r) /\ ~(OwnsSlot(r))'
          /\ \A q \in Requests \ {r} : (OwnsSlot(q))' <=> OwnsSlot(q)
          /\ \A q \in Requests : (Counted(q))' <=> Counted(q)
          /\ UNCHANGED <<active, holding>>
      BY <2>2 DEF SlotInv, TypeOK, Placement, RefusedRelease, ForwardStep, Counted, OwnsSlot
    <3> QED
      BY <1>0, <2>2, <3>1, ReleaseAccounts DEF RefusedRelease
  <2>3. CASE Refused(r) \/ RefusedReady(r) \/ Crash(r) \/ Respond(r) \/ HandOver(r)
    <3>1. /\ \A q \in Requests : (Counted(q))' <=> Counted(q)
          /\ \A q \in Requests : (OwnsSlot(q))' <=> OwnsSlot(q)
          /\ UNCHANGED <<sem, holding, active>>
      BY <2>3 DEF SlotInv, TypeOK, Placement, Refused, RefusedReady, Crash, Respond, HandOver,
                  ForwardStep, Counted, OwnsSlot
    <3> QED
      BY <1>0, <3>1, KeepsAccounts
  <2> QED
    BY <1>3, <2>1, <2>2, <2>3 DEF Forward
<1>4. CASE Dispatcher
  <2>1. CASE Acquire \/ Release
    BY <1>0, <2>1, DispatcherAccounts DEF Acquire, Release
  <2>2. CASE (Judge \/ Count) /\ Dispatch
    <3>1. held \in Requests
      BY <2>2 DEF SlotInv, TypeOK, Control, Judge, Count
    <3> QED
      BY <2>2, <3>1, DispatchAccounts
  <2>3. ASSUME ~(Acquire \/ Release), ~((Judge \/ Count) /\ Dispatch)
        PROVE  SlotAccounting' /\ ActiveAccounting' /\ active' = active
    <3>1. UNCHANGED <<fpc, body, sem, holding, active>>
      BY <1>4, <2>3 DEF Dispatcher, PollEmpty, Get, Pop, TakeHead, Examine, Judge, ScanQueue,
                        Count, Admit, Deny, PutBackForSlot
    <3>2. /\ \A q \in Requests : (Counted(q))' <=> Counted(q)
          /\ \A q \in Requests : (OwnsSlot(q))' <=> OwnsSlot(q)
      BY <3>1 DEF Counted, OwnsSlot
    <3> QED
      BY <3>1, <3>2, KeepsAccounts
  <2> QED
    BY <1>0, <2>1, <2>2, <2>3
<1>5. CASE UNCHANGED vars
  <2>1. /\ \A q \in Requests : (Counted(q))' <=> Counted(q)
        /\ \A q \in Requests : (OwnsSlot(q))' <=> OwnsSlot(q)
        /\ UNCHANGED <<sem, holding, active>>
    BY <1>5 DEF Counted, OwnsSlot
  <2> QED
    BY <1>0, <2>1, KeepsAccounts
<1> QED
  BY <1>0, <1>1, <1>2, <1>3, <1>4, <1>5 DEF Next

LEMMA TypeStep ==
  ASSUME SlotInv, [Next]_vars
  PROVE  TypeOK'
<1> USE DEF TypeOK, vars, handlerVars, dispatcherVars, replyVars
<1>0. TypeOK /\ Control /\ active' \in [0..2 -> Nat]
  BY AccountingStep DEF SlotInv
<1>1. ASSUME NEW r \in Requests, Handler(r) PROVE TypeOK'
  <2> USE DEF HandlerStates, BodyStates
  <2>1. CASE TakeSeq(r)
    <3>1. /\ seqCounter' \in Nat /\ seq' \in [Requests -> Nat]
          /\ hpc' \in [Requests -> HandlerStates]
      BY <1>0, <2>1 DEF TakeSeq
    <3>2. ahead' \in [Requests -> SUBSET Requests]
      BY <1>0, <2>1 DEF TakeSeq
    <3> QED
      BY <1>0, <2>1, <3>1, <3>2 DEF TakeSeq
  <2>2. CASE Enqueue(r) \/ AwaitReady(r) \/ Abandon(r) \/ BreakHeaders(r)
    BY <1>0, <2>2 DEF Enqueue, AwaitReady, Abandon, BreakHeaders, HandlerStep
  <2>3. CASE Iterate(r)
    BY <1>0, <2>3 DEF Iterate, HandlerStep
  <2>4. CASE EndStream(r) \/ BreakPipe(r)
    BY <1>0, <2>4 DEF EndStream, BreakPipe, HandlerStep
  <2> QED
    BY <1>1, <2>1, <2>2, <2>3, <2>4 DEF Handler
<1>2. ASSUME NEW r \in Requests, Generator(r) \/ Collect(r) PROVE TypeOK'
  BY <1>0, <1>2 DEF Generator, FinallyDeactivate, FinallyRelease, Collect, HandlerStates, BodyStates
<1>3. ASSUME NEW r \in Requests, Forward(r) PROVE TypeOK'
  <2>1. fpc' \in [Requests -> ForwardStates] /\ body' \in [Requests -> BodyStates]
    BY <1>0, <1>3 DEF Forward, ForwardStep, Refused, RefusedReady, RefusedDeactivate,
                      RefusedRelease, Crash, Respond, HandOver, ForwardStates, BodyStates
  <2>2. status' \in [Requests -> {"none", "502", "200"}] /\ ready' \in [Requests -> BOOLEAN]
    BY <1>0, <1>3 DEF Forward, ForwardStep, Refused, RefusedReady, RefusedDeactivate,
                      RefusedRelease, Crash, Respond, HandOver
  <2>3. sem' \in Nat
    BY <1>0, <1>3 DEF Forward, Refused, RefusedReady, RefusedDeactivate,
                      RefusedRelease, Crash, Respond, HandOver
  <2>4. UNCHANGED <<handlerVars, dispatcherVars, queue>>
    BY <1>3 DEF Forward, ForwardStep, Refused, RefusedReady, RefusedDeactivate,
                RefusedRelease, Crash, Respond, HandOver
  <2> QED
    BY <1>0, <2>1, <2>2, <2>3, <2>4
<1>4. CASE Dispatcher
  <2> USE DEF DispatcherStates
  <2>1. CASE PollEmpty
    BY <1>0, <2>1 DEF PollEmpty
  <2>2. CASE Get \/ Pop
    BY <1>0, <2>2 DEF Get, Pop, TakeHead
  <2>3. CASE Examine
    BY <1>0, <2>3 DEF Examine
  <2>4. ASSUME Judge \/ Count, Dispatch
        PROVE  TypeOK'
    <3>1. fpc' \in [Requests -> ForwardStates]
      BY <1>0, <2>4 DEF Dispatch, ForwardStates
    <3> QED
      BY <1>0, <2>4, <3>1 DEF Dispatch
  <2>5. ASSUME Judge \/ Count, PutBackForSlot \/ Deny
        PROVE  TypeOK'
    <3>1. held \in Requests
      BY <1>0, <2>5 DEF Judge, Count, Control
    <3> QED
      BY <1>0, <2>5, <3>1 DEF Deny, PutBackForSlot
  <2>6. CASE Acquire \/ Release
    <3>1. sem' \in Nat
      BY <1>0, <2>6 DEF Acquire, Release
    <3> QED
      BY <1>0, <2>6, <3>1 DEF Acquire, Release
  <2>7. CASE Judge
    BY <1>0, <2>4, <2>5, <2>7, ProxyAssumption DEF Judge, Admit
  <2>8. CASE Count
    BY <2>4, <2>5, <2>8 DEF Count, Admit
  <2>9. CASE ScanQueue
    BY <1>0, <2>9 DEF ScanQueue
  <2> QED
    BY <1>4, <2>1, <2>2, <2>3, <2>6, <2>7, <2>8, <2>9 DEF Dispatcher
<1>5. CASE UNCHANGED vars
  BY <1>0, <1>5
<1> QED
  BY <1>1, <1>2, <1>3, <1>4, <1>5 DEF Next

\* In every reachable state, for any number of requests and slots and under
\* every fault: types, the place of each request, the sum of the slots and
\* the counters of the policy.
THEOREM SlotInvariant == Spec => []SlotInv
<1>1. SlotInv /\ [Next]_vars => SlotInv'
  BY ControlStep, PlacementStep, AccountingStep, TypeStep DEF SlotInv
<1> QED
  BY <1>1, SlotInit, PTL DEF Spec

\* The shared state and the threads' local state keep their types; counters
\* never go below zero.
THEOREM TypeCorrect == Spec => []TypeOK
BY SlotInvariant, PTL DEF SlotInv

\* No path of the dispatcher, of _forward or of a generator loses count of a
\* slot or gives one back twice, and _active_by_priority is exact.
THEOREM BooksRight == Spec => []Accounting
<1>1. SlotInv => Accounting
  BY DEF SlotInv, Accounting
<1> QED BY SlotInvariant, <1>1, PTL

\* The untimed get of the second phase never waits with a slot in hand.
THEOREM PopFindsOne == Spec => []PopNeverBlocks
BY SlotInvariant, PTL DEF SlotInv, Control

-----------------------------------------------------------------------------
(* The reservation.                                                        *)

\* The cap, for the static policy with something reserved: a decrement keeps
\* it, and the one increment comes right after the count was found below it.
Cap == ~Smart /\ Reserved > 0 => NonChatActive <= Slots - Reserved

LEMMA CapStep ==
  ASSUME SlotInv, SlotInv', Cap, [Next]_vars
  PROVE  Cap'
<1> USE ProxyAssumption DEF Cap, NonChatActive, vars, handlerVars, dispatcherVars, replyVars
<1>0. /\ active \in [0..2 -> Nat] /\ active' \in [0..2 -> Nat]
      /\ held \in Requests \cup {None} /\ Control
  BY DEF SlotInv, TypeOK
<1>1. ASSUME NEW r \in Requests, Handler(r) \/ Generator(r) \/ Forward(r) \/ Collect(r)
      PROVE  Cap'
  <2>1. \A p \in 0..2 : active'[p] <= active[p]
    <3>1. active' = active \/ active' = [active EXCEPT ![Priority[r]] = @ - 1]
      BY <1>1 DEF Handler, TakeSeq, Enqueue, AwaitReady, Abandon, BreakHeaders, Iterate,
                  EndStream, BreakPipe, HandlerStep, Generator, FinallyDeactivate,
                  FinallyRelease, Forward, Refused, RefusedReady, RefusedDeactivate,
                  RefusedRelease, Crash, Respond, HandOver, Collect
    <3> QED
      BY <1>0, <3>1
  <2> QED
    BY <1>0, <2>1
<1>2. CASE Dispatcher
  <2>1. CASE Judge /\ Dispatch
    BY <1>0, <2>1 DEF Judge, Dispatch, Unreserved, Control
  <2>2. CASE Count /\ Dispatch
    BY <1>0, <2>2 DEF Count, Dispatch, Deny, Blocks, Control
  <2>3. CASE ~Dispatch
    <3>1. active' = active
      BY <1>2, <2>3 DEF Dispatcher, PollEmpty, Get, Pop, TakeHead, Examine, Judge, ScanQueue,
                        Count, Admit, Deny, PutBackForSlot, Acquire, Release
    <3> QED
      BY <3>1
  <2>4. CASE UNCHANGED active
    BY <2>4
  <2> QED
    BY <1>2, <2>1, <2>2, <2>3, <2>4 DEF Dispatcher, PollEmpty, Get, Pop, TakeHead, Examine,
                                      ScanQueue, Acquire, Release
<1>3. CASE UNCHANGED vars
  BY <1>3
<1> QED
  BY <1>1, <1>2, <1>3 DEF Next

\* The requests of the three classes and the dispatcher share the slots.
LEMMA ClassesWithinSlots ==
  ASSUME SlotInv
  PROVE  active[0] + NonChatActive + (IF holding THEN 1 ELSE 0) <= Slots
<1> DEFINE C == ActiveSet(0)
           A == ActiveSet(1)
           B == ActiveSet(2)
<1>1. /\ A \in SUBSET Requests /\ B \in SUBSET Requests /\ C \in SUBSET Requests
      /\ A \cap B = {} /\ C \cap (A \cup B) = {} /\ A \cup B \in SUBSET Requests
      /\ C \cup (A \cup B) \in SUBSET Owners /\ Owners \in SUBSET Requests
  BY DEF ActiveSet, Owners, OwnsSlot
<1>2. /\ Cardinality(A \cup B) = Cardinality(A) + Cardinality(B)
      /\ Cardinality(C \cup (A \cup B)) = Cardinality(C) + Cardinality(A \cup B)
  <2> HIDE DEF A, B, C
  <2> QED
    BY <1>1, DisjointUnion
<1>3. Cardinality(C \cup (A \cup B)) <= Cardinality(Owners)
  BY <1>1, FiniteRequests, FS_Subset
<1>4. active[0] = Cardinality(C) /\ active[1] = Cardinality(A) /\ active[2] = Cardinality(B)
  BY DEF SlotInv, ActiveAccounting
<1>5. sem + (IF holding THEN 1 ELSE 0) + Cardinality(Owners) = Slots /\ sem \in Nat
  BY DEF SlotInv, SlotAccounting, TypeOK
<1>6. /\ Cardinality(A) \in Nat /\ Cardinality(B) \in Nat /\ Cardinality(C) \in Nat
      /\ Cardinality(Owners) \in Nat
  BY <1>1, FiniteRequests
<1> HIDE DEF A, B, C
<1> QED
  BY <1>2, <1>3, <1>4, <1>5, <1>6, ProxyAssumption DEF NonChatActive

\* --reserved-chat-slots keeps its promise for every number of requests, slots
\* and reserved slots: the dispatcher's separate reads never let one more
\* moderate or batch request through.
THEOREM ReservationHolds == Spec => []ReservationCap
<1>1. Init => Cap
  BY ProxyAssumption DEF Init, Cap, NonChatActive
<1>2. SlotInv /\ SlotInv' /\ Cap /\ [Next]_vars => Cap'
  BY CapStep
<1>3. SlotInv /\ Cap => ReservationCap
  <2> SUFFICES ASSUME SlotInv, Cap PROVE ReservationCap
    OBVIOUS
  <2>1. NonChatActive <= Slots
    <3>1. active[0] \in Nat /\ active[1] \in Nat /\ active[2] \in Nat
      BY DEF SlotInv, TypeOK
    <3> QED
      BY <3>1, ClassesWithinSlots, ProxyAssumption DEF NonChatActive
  <2> QED
    BY <2>1, ProxyAssumption DEF Cap, ReservationCap
<1> QED
  BY <1>1, <1>2, <1>3, SlotInvariant, PTL DEF Spec

\* Under --smart-preemption: the dispatcher holds a reservation it read off the
\* running chats only while there is room, and then it does not block.
SmartRoom ==
  Smart /\ holding /\ dpc = "count" =>
    \/ reserve = 0
    \/ reserve = 1 /\ (NonChatActive <= Slots - 2 \/ \E q \in queue : Priority[q] = 0)

LEMMA SmartRoomStep ==
  ASSUME SlotInv, SmartRoom, [Next]_vars
  PROVE  SmartRoom'
<1> USE DEF SmartRoom, vars, handlerVars, dispatcherVars, replyVars
<1>0. /\ active \in [0..2 -> Nat] /\ Control /\ holding \in BOOLEAN
      /\ Priority \in [Requests -> 0..2] /\ Slots \in Nat
  BY ProxyAssumption DEF SlotInv, TypeOK
<1>1. ASSUME NEW r \in Requests, Handler(r) \/ Generator(r) \/ Forward(r) \/ Collect(r)
      PROVE  SmartRoom'
  <2>1. UNCHANGED dispatcherVars /\ queue \subseteq queue'
    BY <1>1 DEF Handler, TakeSeq, Enqueue, AwaitReady, Abandon, BreakHeaders, Iterate,
                EndStream, BreakPipe, HandlerStep, Generator, FinallyDeactivate, FinallyRelease,
                Forward, ForwardStep, Refused, RefusedReady, RefusedDeactivate, RefusedRelease,
                Crash, Respond, HandOver, Collect
  <2>2. active' = active \/ active' = [active EXCEPT ![Priority[r]] = @ - 1]
    BY <1>1 DEF Handler, TakeSeq, Enqueue, AwaitReady, Abandon, BreakHeaders, Iterate,
                EndStream, BreakPipe, HandlerStep, Generator, FinallyDeactivate,
                FinallyRelease, Forward, Refused, RefusedReady, RefusedDeactivate,
                RefusedRelease, Crash, Respond, HandOver, Collect
  <2>3. NonChatActive' <= NonChatActive /\ NonChatActive \in Nat /\ NonChatActive' \in Int
    BY <1>0, <2>2 DEF NonChatActive
  <2> QED
    BY <1>0, <2>1, <2>3
<1>2. CASE Judge
  <2>1. CASE Unreserved(held)
    BY <1>2, <2>1 DEF Judge, Admit, PutBackForSlot, Dispatch
  <2>2. CASE ~Unreserved(held) /\ active[0] > 0 /\ holding /\ Smart
    <3>1. NonChatActive <= Slots - 2
      BY <1>0, <2>2, ClassesWithinSlots DEF NonChatActive
    <3>2. active' = active /\ (reserve' = 1 \/ dpc' # "count")
      BY <1>0, <1>2, <2>2 DEF Judge
    <3> QED
      BY <3>1, <3>2 DEF NonChatActive
  <2>3. CASE ~Unreserved(held) /\ ~(active[0] > 0 /\ holding /\ Smart)
    BY <1>0, <1>2, <2>3 DEF Judge
  <2> QED
    BY <2>1, <2>2, <2>3
<1>3. CASE ScanQueue
  BY <1>3 DEF ScanQueue
<1>4. CASE Dispatcher /\ ~Judge /\ ~ScanQueue
  <2>1. dpc' # "count"
    BY <1>4 DEF Dispatcher, PollEmpty, Get, Pop, TakeHead, Examine, Count, Admit, Deny,
                PutBackForSlot, Dispatch, Acquire, Release
  <2> QED
    BY <2>1
<1>5. CASE UNCHANGED vars
  BY <1>5 DEF NonChatActive
<1> QED
  BY <1>1, <1>2, <1>3, <1>4, <1>5 DEF Next

\* --smart-preemption gives a slot up only for a chat request in the queue,
\* for any number of slots: what is being served never decides.
THEOREM SmartYields == Spec => []SmartYieldsToQueuedChat
<1>1. Init => SmartRoom
  BY DEF Init, SmartRoom
<1>2. SlotInv /\ SmartRoom => SmartYieldsToQueuedChat
  <2> SUFFICES ASSUME SlotInv, SmartRoom PROVE SmartYieldsToQueuedChat
    OBVIOUS
  <2>1. active[0] \in Nat /\ active[1] \in Nat /\ active[2] \in Nat
    BY DEF SlotInv, TypeOK
  <2> QED
    BY <2>1, ClassesWithinSlots, ProxyAssumption
       DEF SmartRoom, SmartYieldsToQueuedChat, Blocks, NonChatActive
<1> QED
  BY <1>1, <1>2, SmartRoomStep, SlotInvariant, PTL DEF Spec

\* llama-server never sees more proxied requests than it has slots.
THEOREM UpstreamBounded == Spec => []UpstreamWithinSlots
<1>1. SlotInv => UpstreamWithinSlots
  <2> SUFFICES ASSUME SlotInv PROVE UpstreamWithinSlots
    OBVIOUS
  <2> DEFINE U == {r \in Requests : \/ fpc[r] \in {"call", "respond"}
                                    \/ body[r] \in {"unstarted", "running", "suspended"}}
  <2>1. U \in SUBSET Owners /\ Owners \in SUBSET Requests
    BY DEF Owners, OwnsSlot, Counted
  <2>2. Cardinality(U) <= Cardinality(Owners)
    BY <2>1, FiniteRequests, FS_Subset
  <2>3. Cardinality(U) \in Nat /\ Cardinality(Owners) \in Nat /\ sem \in Nat
    BY <2>1, FiniteRequests DEF SlotInv, TypeOK
  <2>4. Cardinality(U) <= Slots
    <3> HIDE DEF U
    <3> QED
      BY <2>2, <2>3, ProxyAssumption DEF SlotInv, SlotAccounting
  <2> QED
    BY <2>4 DEF UpstreamWithinSlots
<1> QED
  BY <1>1, SlotInvariant, PTL

-----------------------------------------------------------------------------
(* The order of dispatch.                                                  *)

LEMMA OrderStep ==
  ASSUME SlotInv, Order, [Next]_vars
  PROVE  Order'
<1> USE ProxyAssumption DEF InLine, vars, handlerVars, dispatcherVars, replyVars
<1>0. TypeOK /\ Placement /\ Control
  BY DEF SlotInv
<1>1. ASSUME NEW r \in Requests, Handler(r) PROVE Order'
  <2>1. CASE TakeSeq(r)
    <3>1. ASSUME NEW q \in Requests, q # r
          PROVE  seq'[q] = seq[q] /\ ahead'[q] = ahead[q] /\ hpc'[q] = hpc[q]
      BY <1>0, <2>1, <3>1 DEF TakeSeq, TypeOK
    <3>2. /\ seq'[r] = seqCounter + 1 /\ seqCounter' = seqCounter + 1 /\ seqCounter \in Nat
          /\ ahead'[r] = {q \in Requests : InLine(q) /\ Priority[q] <= Priority[r]}
          /\ hpc[r] = "new" /\ r # held /\ r \notin queue
          /\ UNCHANGED <<queue, held, fpc, abandoned>>
      BY <1>0, <2>1 DEF TakeSeq, TypeOK, Placement
    <3>3. \A p \in Requests : ahead[p] \subseteq Requests /\ seq[p] \in Nat
      BY <1>0 DEF TypeOK
    <3>4. ASSUME NEW p \in Requests
          PROVE  /\ seq'[p] <= seqCounter'
                 /\ \A q \in ahead'[p] :
                      /\ hpc'[q] \notin {"new", "numbered"}
                      /\ Priority[q] <= Priority[p]
                      /\ seq'[q] < seq'[p]
                      /\ (InLine(q) \/ fpc[q] # "idle" \/ abandoned[q])'
                 /\ p = held' => \A q \in ahead'[p] : fpc'[q] # "idle" \/ abandoned'[q]
      <4>1. CASE p = r
        BY <1>0, <3>1, <3>2, <3>3, <4>1 DEF Order, Placement
      <4>2. CASE p # r
        <5>1. \A q \in ahead[p] : q \in Requests /\ q # r
          BY <3>2, <3>3 DEF Order
        <5> QED
          BY <3>1, <3>2, <3>3, <4>2, <5>1 DEF Order
      <4> QED
        BY <4>1, <4>2
    <3> QED
      BY <3>4 DEF Order
  <2>2. CASE Enqueue(r) \/ AwaitReady(r) \/ Abandon(r) \/ BreakHeaders(r) \/ Iterate(r)
             \/ EndStream(r) \/ BreakPipe(r)
    BY <1>0, <2>2 DEF Order, TypeOK, Placement, Enqueue, AwaitReady, Abandon, BreakHeaders,
                      Iterate, EndStream, BreakPipe, HandlerStep
  <2> QED
    BY <1>1, <2>1, <2>2 DEF Handler
<1>2. ASSUME NEW r \in Requests, Generator(r) \/ Collect(r) PROVE Order'
  BY <1>0, <1>2 DEF Order, TypeOK, Generator, FinallyDeactivate, FinallyRelease, Collect
<1>3. ASSUME NEW r \in Requests, Forward(r) PROVE Order'
  BY <1>0, <1>3 DEF Order, TypeOK, Forward, ForwardStep, Refused, RefusedReady,
                    RefusedDeactivate, RefusedRelease, Crash, Respond, HandOver
<1>4. CASE Dispatcher
  <2>1. CASE Get \/ Pop
    <3>1. PICK r \in Requests : IsHead(r) /\ queue' = queue \ {r} /\ held' = r
      BY <2>1 DEF Get, Pop, TakeHead
    <3>2. held = None /\ UNCHANGED <<seqCounter, seq, hpc, abandoned, ahead, fpc>>
      BY <1>0, <2>1 DEF Get, Pop, TakeHead, Control, TypeOK
    <3>3. ASSUME NEW q \in ahead[r] PROVE q \notin queue
      <4>1. q \in Requests /\ Priority[q] \in 0..2 /\ Priority[r] \in 0..2
            /\ seq[q] \in Nat /\ seq[r] \in Nat
        BY <1>0, <3>3 DEF TypeOK
      <4>2. ~Before(r, q) /\ q # r
        BY <3>3, <4>1 DEF Before, Order
      <4> QED
        BY <3>1, <4>2 DEF IsHead
    <3>4. \A q \in ahead[r] : fpc[q] # "idle" \/ abandoned[q]
      BY <1>0, <3>2, <3>3 DEF Order, TypeOK
    <3> QED
      BY <1>0, <3>1, <3>2, <3>4 DEF Order, TypeOK
  <2>2. CASE Examine
    BY <1>0, <2>2 DEF Order, TypeOK, Examine, Control
  <2>3. ASSUME Judge \/ Count, PutBackForSlot \/ Deny PROVE Order'
    BY <1>0, <2>3 DEF Order, TypeOK, PutBackForSlot, Deny
  <2>4. ASSUME Judge \/ Count, Dispatch PROVE Order'
    BY <1>0, <2>4 DEF Order, TypeOK, Dispatch
  <2>5. CASE UNCHANGED <<seqCounter, seq, hpc, abandoned, ahead, fpc, queue, held>>
    BY <2>5 DEF Order
  <2> QED
    BY <1>4, <2>1, <2>2, <2>3, <2>4, <2>5
       DEF Dispatcher, PollEmpty, Judge, ScanQueue, Count, Admit, Acquire, Release
<1>5. CASE UNCHANGED vars
  BY <1>5 DEF Order
<1> QED
  BY <1>1, <1>2, <1>3, <1>4, <1>5 DEF Next

LEMMA NoOvertakingStep ==
  ASSUME SlotInv, Order, NoOvertaking, [Next]_vars
  PROVE  NoOvertaking'
<1> USE DEF vars, handlerVars, dispatcherVars, replyVars
<1>0. TypeOK /\ Placement /\ Control
  BY DEF SlotInv
<1>1. ASSUME NEW r \in Requests, Handler(r) PROVE NoOvertaking'
  BY <1>0, <1>1 DEF NoOvertaking, TypeOK, Placement, Handler, TakeSeq, Enqueue, AwaitReady, Abandon,
                    BreakHeaders, Iterate, EndStream, BreakPipe, HandlerStep
<1>2. ASSUME NEW r \in Requests, Generator(r) \/ Collect(r) PROVE NoOvertaking'
  BY <1>0, <1>2 DEF NoOvertaking, Generator, FinallyDeactivate, FinallyRelease, Collect
<1>3. ASSUME NEW r \in Requests, Forward(r) PROVE NoOvertaking'
  BY <1>0, <1>3 DEF NoOvertaking, TypeOK, Forward, ForwardStep, Refused, RefusedReady,
                    RefusedDeactivate, RefusedRelease, Crash, Respond, HandOver
<1>4. CASE Dispatcher
  <2>1. ASSUME Judge \/ Count, Dispatch PROVE NoOvertaking'
    <3>1. held \in Requests
      BY <1>0, <2>1 DEF Judge, Count, Control, TypeOK
    <3>2. \A q \in ahead[held] : fpc[q] # "idle" \/ abandoned[q]
      BY <3>1 DEF Order
    <3> QED
      BY <1>0, <2>1, <3>1, <3>2 DEF NoOvertaking, TypeOK, Dispatch
  <2>2. CASE UNCHANGED <<abandoned, ahead, fpc>>
    BY <2>2 DEF NoOvertaking
  <2> QED
    BY <1>4, <2>1, <2>2 DEF Dispatcher, PollEmpty, Get, Pop, TakeHead, Examine, Judge, ScanQueue,
                            Count, Admit, Deny, PutBackForSlot, Acquire, Release
<1>5. CASE UNCHANGED vars
  BY <1>5 DEF NoOvertaking
<1> QED
  BY <1>1, <1>2, <1>3, <1>4, <1>5 DEF Next

\* The queue order, the put-backs of the dispatcher and the drawing of numbers
\* together never let a request overtake one that was in line before it.
THEOREM NobodyOvertakes == Spec => []NoOvertaking
<1>1. Init => Order /\ NoOvertaking
  BY ProxyAssumption DEF Init, Order, NoOvertaking, InLine
<1>2. SlotInv /\ Order /\ NoOvertaking /\ [Next]_vars => Order' /\ NoOvertaking'
  BY OrderStep, NoOvertakingStep
<1> QED
  BY <1>1, <1>2, SlotInvariant, PTL DEF Spec

-----------------------------------------------------------------------------
(* The proxy implements Admission.                                         *)

PromiseCap == IF Smart THEN Slots ELSE Slots - Reserved

\* What the abstract guards ask for holds when the dispatcher dispatches.
LEMMA GrantGuards ==
  ASSUME SlotInv, Judge \/ Count, Dispatch
  PROVE  /\ Cardinality(Promise!Served) < Slots
         /\ Priority[held] # 0 => Cardinality(Promise!NonChatServed) < PromiseCap
<1> DEFINE S == Promise!Served
           N == Promise!NonChatServed
           A == ActiveSet(1)
           B == ActiveSet(2)
<1>0. TypeOK /\ Control /\ holding /\ held \in Requests
  BY DEF SlotInv, TypeOK, Control, Judge, Count, Dispatch
<1>1. S \in SUBSET Owners /\ N \in SUBSET S /\ Owners \in SUBSET Requests
  BY DEF Promise!Served, Promise!NonChatServed, Grant, Owners, OwnsSlot
<1>2. Cardinality(Owners) < Slots
  <2>1. sem \in Nat /\ Cardinality(Owners) \in Nat
    BY <1>0, <1>1, FiniteRequests DEF TypeOK
  <2> QED
    BY <1>0, <2>1, ProxyAssumption DEF SlotInv, SlotAccounting
<1>3. /\ Cardinality(S) \in Nat /\ Cardinality(N) \in Nat /\ Cardinality(Owners) \in Nat
      /\ Cardinality(S) <= Cardinality(Owners) /\ Cardinality(N) <= Cardinality(S)
  BY <1>1, FiniteRequests, FS_Subset
<1>4. Cardinality(N) = NonChatActive
  <2>1. N = A \cup B /\ A \cap B = {} /\ A \in SUBSET Requests /\ B \in SUBSET Requests
    BY ProxyAssumption DEF Promise!Served, Promise!NonChatServed, Grant, ActiveSet
  <2>2. Cardinality(N) = Cardinality(A) + Cardinality(B)
    BY <2>1, DisjointUnion
  <2>3. active[1] = Cardinality(A) /\ active[2] = Cardinality(B)
    BY DEF SlotInv, ActiveAccounting
  <2> HIDE DEF N, A, B
  <2> QED
    BY <2>2, <2>3 DEF NonChatActive
<1>5. Priority[held] # 0 /\ ~Smart /\ Reserved > 0 => NonChatActive < Slots - Reserved
  <2>1. active[1] \in Nat /\ active[2] \in Nat
    BY <1>0 DEF TypeOK
  <2> QED
    BY <1>0, <2>1, ProxyAssumption
       DEF Judge, Count, Unreserved, Blocks, Deny, Dispatch, Control, NonChatActive
<1> HIDE DEF S, N
<1>6. Cardinality(S) < Slots /\ (Priority[held] # 0 => Cardinality(N) < PromiseCap)
  BY <1>2, <1>3, <1>4, <1>5, ProxyAssumption DEF PromiseCap
<1> QED
  BY <1>6 DEF S, N

LEMMA PromiseStep ==
  ASSUME SlotInv, [Next]_vars
  PROVE  [Promise!Next]_Grant
<1> USE DEF vars, handlerVars, dispatcherVars, replyVars
<1>0. TypeOK /\ Placement /\ Control
  BY DEF SlotInv
<1>1. ASSUME NEW r \in Requests, Handler(r) \/ Collect(r) PROVE Grant' = Grant
  BY <1>0, <1>1 DEF Grant, Counted, TypeOK, Handler, TakeSeq, Enqueue, AwaitReady, Abandon,
                    BreakHeaders, Iterate, EndStream, BreakPipe, HandlerStep, Collect
<1>2. ASSUME NEW r \in Requests,
             FinallyRelease(r) \/ Refused(r) \/ RefusedReady(r) \/ RefusedRelease(r)
               \/ Crash(r) \/ Respond(r) \/ HandOver(r)
      PROVE  Grant' = Grant
  BY <1>0, <1>2 DEF Grant, Counted, TypeOK, Placement, FinallyRelease, Refused, RefusedReady,
                    RefusedRelease, Crash, Respond, HandOver, ForwardStep
<1>3. ASSUME NEW r \in Requests, FinallyDeactivate(r) \/ RefusedDeactivate(r)
      PROVE  Promise!Return(r)
  <2>1. Grant[r] = "served" /\ Grant'[r] = "returned"
    BY <1>0, <1>3 DEF Grant, Counted, TypeOK, Placement, FinallyDeactivate, RefusedDeactivate,
                      ForwardStep
  <2>2. \A q \in Requests \ {r} : Grant'[q] = Grant[q]
    BY <1>0, <1>3 DEF Grant, Counted, TypeOK, FinallyDeactivate, RefusedDeactivate, ForwardStep
  <2> QED
    BY <2>1, <2>2 DEF Promise!Return, Grant
<1>4. ASSUME Judge \/ Count, Dispatch
      PROVE  \E r \in Requests : Promise!Grant(r)
  <2>1. PICK r \in Requests : r = held
    BY <1>0, <1>4 DEF Judge, Count, Control, TypeOK
  <2>2. Grant[r] = "waiting" /\ Grant'[r] = "served"
    BY <1>0, <1>4, <2>1 DEF Grant, Counted, TypeOK, Placement, InLine, Dispatch
  <2>3. \A q \in Requests \ {r} : Grant'[q] = Grant[q]
    BY <1>0, <1>4, <2>1 DEF Grant, Counted, TypeOK, Dispatch
  <2>4. Grant' = [Grant EXCEPT ![r] = "served"]
    BY <2>2, <2>3 DEF Grant
  <2>5. Promise!Grant(r)
    <3>1. /\ Cardinality(Promise!Served) < Slots
          /\ Priority[r] # 0 => Cardinality(Promise!NonChatServed) < PromiseCap
      BY <1>4, <2>1, GrantGuards
    <3> QED
      BY <2>2, <2>4, <3>1 DEF Promise!Grant, PromiseCap
  <2> QED
    BY <2>5
<1>5. CASE UNCHANGED <<fpc, body>>
  BY <1>5 DEF Grant, Counted
<1>6. CASE Dispatcher
  <2>1. ((Judge \/ Count) /\ Dispatch) \/ UNCHANGED <<fpc, body>>
    BY <1>6 DEF Dispatcher, PollEmpty, Get, Pop, TakeHead, Examine, Judge, ScanQueue, Count,
                Admit, Deny, PutBackForSlot, Acquire, Release
  <2> QED
    BY <1>4, <1>5, <2>1 DEF Promise!Next
<1> QED
  BY <1>1, <1>2, <1>3, <1>5, <1>6 DEF Next, Generator, Forward, Promise!Next

\* The dispatcher, the forwarding threads and the generators, for any number
\* of requests, slots and reserved slots, implement the admission control.
THEOREM ProxyKeepsPromise == Spec => KeepsPromise
<1>1. Init => Promise!Init
  BY DEF Init, Promise!Init, Grant, Counted
<1> QED
  BY <1>1, PromiseStep, SlotInvariant, PTL DEF Spec, KeepsPromise, Promise!Spec
=============================================================================
