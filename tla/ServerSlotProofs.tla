-------------------------- MODULE ServerSlotProofs --------------------------
(***************************************************************************)
(* Proofs about the slots of ServerQueue: what is deferred is woken, and   *)
(* children are kept.  Both need every request to post one task, with its  *)
(* children or without, and rule out the outcomes under which TLC finds    *)
(* them violated; within these limits they hold for any requests, tasks,   *)
(* slots and orders of the steps.                                          *)
(*                                                                         *)
(* A request that fails has one task, so when its reader cancels it,       *)
(* nothing of it waits in a queue any more: a cancellation never takes a   *)
(* waker away without a release.  A parent and its children get past the   *)
(* prompt in the same batch: a cancellation finds them all generating.     *)
(***************************************************************************)
EXTENDS ServerQueueProofs

\* Each request posts one task, with or without children.
OneRoot ==
  \A t, u \in Tasks : Owner[t] = Owner[u] /\ ~IsChild(t) /\ ~IsChild(u) => t = u

Stopping == {"stopping", "unregistered", "cancelling"}

\* An error has been sent to the reader of r, and its tasks are being cancelled.
Failed(r) ==
  \/ rpc[r] \in Stopping
  \/ \E i \in DOMAIN results : Owner[results[i].task] = r /\ results[i].kind = "error"

\* Nothing of a request that has failed waits in a queue: the error was for its one task.
Settled == \A t \in Tasks : Failed(Owner[t]) => ~Pending(t)

DeferredNeedSlot == \A i \in DOMAIN deferred : NeedsSlot(deferred[i])

\* Nothing is deferred for ever by a request that posts one task, with or without
\* children, when no launch fails, no client leaves and there is no slot action.
OneByOne == OneRoot /\ {"launch", "gone"} \cap Faults = {} /\ \A t \in Tasks : Kind[t] # "slot"

\* No launch fails, so nothing is undone either.
WakerInv ==
  ResultInv /\ Settled /\ DeferredHasWaker /\ DeferredNeedSlot /\ mpc # "unlaunch"
-----------------------------------------------------------------------------
(* Deferred tasks.                                                         *)

\* A request that has failed has nothing pending: its one task came to an end.
LEMMA SettledMain ==
  ASSUME OneRoot, HomeInv, HomeInv', Onward, Settled, Sends, UNCHANGED <<rpc>>, TypeInv
  PROVE  Settled'
<1> SUFFICES ASSUME NEW t \in Tasks, Failed(Owner[t])', Pending(t)' PROVE FALSE
  BY DEF Settled
<1>1. Pending(t) /\ ~Failed(Owner[t])
  BY DEF Onward, Settled
<1>2. results' # results
  BY <1>1 DEF Failed
<1>3. PICK e \in Tasks, kind \in {"partial", "final", "error"} : SentOnce(e, kind)
  BY <1>2 DEF Sends
<1>4. kind = "error" /\ Owner[e] = Owner[t]
  <2> DEFINE m == [task |-> e, kind |-> kind]
  <2>1. results' = Append(results, m) /\ results \in Seq(Results) /\ m \in Results
    BY <1>2, <1>3, ResultsTyped DEF SentOnce, Send, Results
  <2>2. m.task = e /\ m.kind = kind
    OBVIOUS
  <2> HIDE DEF m
  <2>3. \A i \in DOMAIN results' :
          (i \in DOMAIN results /\ results'[i] = results[i]) \/ results'[i] = m
    BY <2>1
  <2> QED
    BY <1>1, <2>2, <2>3 DEF Failed
<1>5. ~Pending(e)' /\ e \notin Children(t)
  BY <1>3, <1>4 DEF SentOnce
<1>6. ~IsChild(t)
  BY <1>1 DEF HomeInv, ChildrenWait
<1>7. CASE ~IsChild(e)
  BY <1>4, <1>5, <1>6, <1>7 DEF OneRoot
<1>8. CASE IsChild(e)
  <2>1. /\ Parent[e] \in Tasks /\ Owner[Parent[e]] = Owner[e] /\ ~IsChild(Parent[e])
    BY <1>8, ServerAssumption DEF IsChild
  <2>2. Parent[e] = t
    BY <1>4, <1>6, <2>1 DEF OneRoot
  <2> QED
    BY <1>5, <2>2 DEF Children
<1> QED
  BY <1>7, <1>8

\* A reader fails its request when it reads an error, which was sent before.
LEMMA FailedReader ==
  ASSUME TypeInv, "gone" \notin Faults, NEW r \in Requests, Reader(r) \/ Disconnect(r),
         NEW q \in Requests, Failed(q)'
  PROVE  Failed(q)
<1>1. /\ results \in Seq(Results) /\ DOMAIN results = 1..Len(results)
      /\ \A i \in DOMAIN results : results[i].task \in Tasks
      /\ rpc \in [Requests -> {"new", "registered", "waiting", "stopping", "unregistered",
                               "cancelling", "closed"}]
  BY ResultsTyped
<1>2. CASE Receive(r)
  <2>1. PICK i \in 1..Len(results) :
          /\ results[i].task \in TasksOf(r)
          /\ results' = RemoveAt(results, i)
          /\ rpc' = IF results[i].kind = "error"
                    THEN [rpc EXCEPT ![r] = "stopping"] ELSE rpc
    BY <1>2 DEF Receive
  <2>2. \A x : Within(results', x) => Within(results, x)
    BY <1>1, <2>1, RemovedOne
  <2>3. \A j \in DOMAIN results' : \E k \in DOMAIN results : results[k] = results'[j]
    BY <2>2 DEF Within
  <2>4. results[i].kind = "error" => Failed(r)
    BY <1>1, <2>1 DEF Failed, TasksOf
  <2> QED
    BY <1>1, <2>1, <2>3, <2>4 DEF Failed, Stopping
<1>3. CASE DropResults(r)
  <2>1. \A x : Within(results', x) => Within(results, x)
    BY <1>1, <1>3, Fewer DEF DropResults
  <2>2. \A j \in DOMAIN results' : \E k \in DOMAIN results : results[k] = results'[j]
    BY <2>1 DEF Within
  <2> QED
    BY <1>1, <1>3, <2>2 DEF Failed, Stopping, DropResults, ReaderAt
<1>4. CASE ~Receive(r) /\ ~DropResults(r)
  BY <1>1, <1>4 DEF Reader, Register, PostTasks, Finish, Disconnect, Unregister, PostCancels,
                    ReaderAt, Failed, Stopping
<1> QED
  BY <1>2, <1>3, <1>4

LEMMA SettledReader ==
  ASSUME ResultInv, Settled, "gone" \notin Faults, NEW r \in Requests, Reader(r) \/ Disconnect(r)
  PROVE  Settled'
<1> SUFFICES ASSUME NEW t \in Tasks, Failed(Owner[t])', Pending(t)' PROVE FALSE
  BY DEF Settled
<1>1. /\ HomeInv /\ TypeInv /\ EndedLast
      /\ results \in Seq(Results) /\ DOMAIN results = 1..Len(results)
      /\ \A i \in DOMAIN results : results[i].task \in Tasks
      /\ \A u \in Tasks : Owner[u] \in Requests
      /\ rpc \in [Requests -> {"new", "registered", "waiting", "stopping", "unregistered",
                               "cancelling", "closed"}]
  BY ResultsTyped DEF ResultInv, HomeInv
<1>2. Pending(t) \/ (PostTasks(r) /\ Owner[t] = r)
  BY <1>1, ReaderOnward
<1>3. CASE PostTasks(r) /\ Owner[t] = r
  <2>1. \A u \in Tasks : Owner[u] = r => ~Ended(u)
    BY <1>1, <1>3 DEF EndedLast, PostTasks, ReaderAt, Unposted
  <2>2. rpc'[r] = "waiting" /\ results' = results
    BY <1>1, <1>3 DEF PostTasks, ReaderAt
  <2> QED
    BY <1>1, <1>3, <2>1, <2>2 DEF Failed, Stopping, Ended
<1>4. \A q \in Requests : Failed(q)' => Failed(q)
  BY <1>1, FailedReader
<1> QED
  BY <1>1, <1>2, <1>3, <1>4 DEF Settled

\* What can wake the deferred tasks.
Busy == \E s \in Slots : slot[s].task # NoTask
Waker(t) == NeedsSlot(t) /\ (hand = Run(t) \/ InQueue(t))

LEMMA WakerFacts ==
  ASSUME TypeInv
  PROVE  /\ DeferredHasWaker <=> (deferred # <<>> => Busy \/ \E t \in Tasks : Waker(t))
         /\ DeferredNeedSlot <=> \A t \in Tasks : InDeferred(t) => NeedsSlot(t)
<1>1. Free # Slots <=> Busy
  BY DEF Free, IsProcessing, Busy, TypeInv, MainFits
<1>2. \A t \in Tasks : InQueue(t) <=> \E i \in 1..Len(queue) : queue[i] = Run(t)
  BY DEF InQueue, Within, TypeInv, TypeOK
<1>3. \A i \in DOMAIN deferred : deferred[i] \in Tasks
  BY DEF TypeInv, TypeOK
<1> QED
  BY <1>1, <1>2, <1>3 DEF DeferredHasWaker, Waker, DeferredNeedSlot, InDeferred, Within

LEMMA WakerFactsNext ==
  ASSUME TypeInv'
  PROVE  /\ DeferredHasWaker' <=> (deferred' # <<>> => Busy' \/ \E t \in Tasks : Waker(t)')
         /\ DeferredNeedSlot' <=> \A t \in Tasks : InDeferred(t)' => NeedsSlot(t)
<1>1. Free' # Slots <=> Busy'
  BY DEF Free, IsProcessing, Busy, TypeInv, MainFits
<1>2. \A t \in Tasks : InQueue(t)' <=> \E i \in 1..Len(queue') : queue'[i] = Run(t)
  BY DEF InQueue, Within, TypeInv, TypeOK
<1>3. \A i \in DOMAIN deferred' : deferred'[i] \in Tasks
  BY DEF TypeInv, TypeOK
<1> QED
  BY <1>1, <1>2, <1>3 DEF DeferredHasWaker, Waker, DeferredNeedSlot, InDeferred, Within, NeedsSlot

\* Nothing that can wake a deferred task goes away.
Calm ==
  /\ deferred' = deferred
  /\ \A t \in Tasks : InQueue(t) => InQueue(t)'
  /\ \A k \in Slots : slot'[k].task = slot[k].task
  /\ hand' = hand \/ \A t \in Tasks : hand = Run(t) => ~NeedsSlot(t)

LEMMA WakerCalm ==
  ASSUME TypeInv, TypeInv', DeferredHasWaker, DeferredNeedSlot, Calm
  PROVE  DeferredHasWaker' /\ DeferredNeedSlot'
<1>1. Busy' <=> Busy
  BY DEF Busy, Calm
<1>2. \A t \in Tasks : Waker(t) => Waker(t)'
  BY DEF Waker, NeedsSlot, Calm
<1>3. \A t \in Tasks : InDeferred(t)' <=> InDeferred(t)
  BY DEF InDeferred, Calm
<1> QED
  BY <1>1, <1>2, <1>3, WakerFacts, WakerFactsNext DEF Calm

\* A release moves a deferred task, if there is one, to the queue.
LEMMA WakerRelease ==
  ASSUME TypeInv, TypeInv', DeferredNeedSlot, NEW s \in Slots, Release(s)
  PROVE  DeferredHasWaker' /\ DeferredNeedSlot'
<1>1. CASE deferred = <<>> /\ UNCHANGED <<queue, deferred>>
  BY <1>1, WakerFacts, WakerFactsNext DEF InDeferred, Within
<1>2. ASSUME NEW d \in Tasks,
             Within(deferred, d),
             \A x : Within(queue', x) <=> Within(queue, x) \/ x = Run(d),
             \A x : Within(deferred', x) => Within(deferred, x)
      PROVE  DeferredHasWaker' /\ DeferredNeedSlot'
  <2>1. InQueue(d)' /\ NeedsSlot(d)
    BY <1>2, WakerFacts DEF InQueue, InDeferred
  <2>2. Waker(d)'
    BY <2>1 DEF Waker, NeedsSlot
  <2> QED
    BY <1>2, <2>2, WakerFacts, WakerFactsNext DEF InDeferred
<1> QED
  BY <1>1, <1>2, Popped DEF Release, TypeInv

LEMMA ReleaseOrCalm ==
  ASSUME TypeInv, OneByOne, mpc # "unlaunch", OtherStep
  PROVE  /\ (\E s \in Slots : Release(s)) \/ Calm
         /\ mpc' # "unlaunch"
<1>1. cur \in Slots /\ slot \in [Slots -> SlotRecord] /\ queue \in Seq(Entries)
  BY DEF TypeInv, TypeOK, SlotRecord
<1>2. ASSUME UNCHANGED <<queue, deferred, slot>>,
             hand' = hand \/ \A t \in Tasks : hand = Run(t) => ~NeedsSlot(t)
      PROVE  Calm
  BY <1>2 DEF Calm, InQueue
<1>3. ASSUME NEW after, NextSlot(after), after # "unlaunch" PROVE mpc' # "unlaunch"
  BY <1>3 DEF NextSlot, Scan
<1>4. CASE WakeUp
  BY <1>2, <1>4 DEF WakeUp, Goto
<1>5. CASE Answer
  <2>1. PICK t \in Tasks : InHand(t) /\ (Kind[t] = "ctrl" \/ Kind[t] = "slot")
    BY <1>5 DEF Answer
  <2>2. \A u \in Tasks : hand = Run(u) => u = t
    <3>1. hand = Run(t)
      BY <2>1 DEF InHand
    <3> QED
      BY <3>1, TaskEntries
  <2>3. \A u \in Tasks : hand = Run(u) => ~NeedsSlot(u)
    BY <2>1, <2>2 DEF NeedsSlot
  <2> QED
    BY <1>2, <1>5, <2>3 DEF Answer, TaskDone, Goto
<1>6. CASE CancelTask
  BY <1>2, <1>6, TaskEntries DEF CancelTask, TaskDone, Goto
<1>7. CASE IgnoreNext
  BY <1>2, <1>7, TaskEntries DEF IgnoreNext, TaskDone, Goto
<1>8. CASE AllIdle \/ NoPromptsNow \/ EmptyBatch \/ DecodeFails
  BY <1>2, <1>8 DEF AllIdle, NoPromptsNow, EmptyBatch, DecodeFails, Goto, Scan
<1>9. CASE SkipPrompt \/ SampleNone
  BY <1>2, <1>3, <1>9 DEF SkipPrompt, SampleNone
<1>10. CASE StartUpdate
  <2>1. \A x : Within(queue, x) => Within(queue', x)
    <3>1. NextResponse \in Entries
      BY DEF Entries
    <3> QED
      BY <1>1, <1>10, <3>1, Appended DEF StartUpdate
  <2> QED
    BY <1>10, <2>1 DEF StartUpdate, Scan, Calm, InQueue
<1>11. CASE AddGenerating
  <2>1. CASE Release(cur)
    BY <1>1, <1>3, <1>11, <2>1 DEF AddGenerating
  <2>2. CASE UNCHANGED <<queue, deferred, slot>>
    BY <1>2, <1>3, <1>11, <2>2 DEF AddGenerating
  <2> QED
    BY <1>11, <2>1, <2>2 DEF AddGenerating
<1>12. CASE AddPrompt
  <2>1. \A k \in Slots : slot'[k].task = slot[k].task
    BY <1>1, <1>12 DEF AddPrompt, SlotRecord
  <2>2. UNCHANGED <<queue, deferred, hand>> /\ mpc' # "unlaunch"
    BY <1>3, <1>12 DEF AddPrompt, PromptTurn, Scan
  <2> QED
    BY <2>1, <2>2 DEF Calm, InQueue
<1>13. CASE RefusePrompt \/ SampleLast
  BY <1>1, <1>3, <1>13 DEF RefusePrompt, SampleLast
<1>14. CASE Decode
  <2>1. \A k \in Slots : slot'[k].task = slot[k].task
    BY <1>1, <1>14 DEF Decode, SlotRecord
  <2>2. UNCHANGED <<queue, deferred, hand>> /\ mpc' # "unlaunch"
    BY <1>14 DEF Decode, Scan
  <2> QED
    BY <2>1, <2>2 DEF Calm, InQueue
<1>15. CASE FailSlot
  <2>1. CASE Release(cur)
    BY <1>1, <1>3, <1>15, <2>1 DEF FailSlot
  <2>2. CASE UNCHANGED <<queue, deferred, slot>>
    BY <1>2, <1>3, <1>15, <2>2 DEF FailSlot
  <2> QED
    BY <1>15, <2>1, <2>2 DEF FailSlot
<1>16. CASE SampleToken
  <2>1. \A k \in Slots : slot'[k].task = slot[k].task
    BY <1>1, <1>16 DEF SampleToken, SlotRecord
  <2>2. UNCHANGED <<queue, deferred, hand>> /\ mpc' # "unlaunch"
    BY <1>3, <1>16 DEF SampleToken
  <2> QED
    BY <2>1, <2>2 DEF Calm, InQueue
<1>17. CASE LaunchUndo
  BY <1>17 DEF LaunchUndo
<1> QED
  BY <1>4, <1>5, <1>6, <1>7, <1>8, <1>9, <1>10, <1>11, <1>12, <1>13, <1>14, <1>15, <1>16, <1>17
  DEF OtherStep, UpdateSlots

\* A slot is free for a task when all are.
LEMMA RoomWhenIdle ==
  ASSUME NEW t \in Tasks, Free = Slots
  PROVE  HasRoom(t)
<1>1. Pin[t] \in 0..NSlots /\ NSlots \in Nat \ {0} /\ Cardinality(Children(t)) < NSlots
  BY ServerAssumption DEF Children
<1>2. Cardinality(Slots) = NSlots
  <2>1. 1 \in Int /\ NSlots \in Int /\ NSlots - 1 + 1 = NSlots
    BY <1>1
  <2>2. Cardinality(1..NSlots) = NSlots
    BY <1>1, <2>1, FS_Interval
  <2> QED
    BY <2>2 DEF Slots
<1>3. Candidates(t) # {}
  <2>1. 1 \in Slots /\ (Pin[t] # 0 => Pin[t] \in Slots)
    BY <1>1 DEF Slots
  <2> QED
    BY <2>1 DEF Candidates
<1>4. Cardinality(Children(t)) \in Nat
  BY NotOwnChild, ServerAssumption, FS_Subset, FS_CardinalityType
<1> QED
  BY <1>1, <1>2, <1>3, <1>4 DEF HasRoom

LEMMA WakerTask ==
  ASSUME WakerInv, OneByOne, TypeInv', TakeTask \/ Defer \/ Launch \/ LaunchFails
  PROVE  DeferredHasWaker' /\ DeferredNeedSlot' /\ mpc' # "unlaunch"
<1>1. TypeInv /\ DeferredHasWaker /\ DeferredNeedSlot
  BY DEF WakerInv, ResultInv, HomeInv
<1>2. CASE TakeTask
  <2>1. /\ queue \in Seq(Entries) /\ queue # <<>> /\ hand = NoEntry
        /\ hand' = Head(queue) /\ queue' = Tail(queue)
        /\ UNCHANGED <<deferred, slot>> /\ mpc' = "have"
    BY <1>1, <1>2 DEF TypeInv, TypeOK, MainFits, TakeTask, Goto
  <2>2. \A x : Within(queue, x) <=> x = hand' \/ Within(queue', x)
    BY <2>1, TakenFirst
  <2>3. \A t \in Tasks : Waker(t) => Waker(t)'
    BY <2>1, <2>2, TaskEntries DEF Waker, NeedsSlot, InQueue
  <2>4. (Busy' <=> Busy) /\ \A t \in Tasks : InDeferred(t)' <=> InDeferred(t)
    BY <2>1 DEF Busy, InDeferred
  <2> QED
    BY <1>1, <2>1, <2>3, <2>4, WakerFacts, WakerFactsNext
<1>3. CASE Defer
  <2>1. PICK t \in Tasks : Kind[t] # "ctrl" /\ ~HasRoom(t) /\ deferred' = Append(deferred, t)
    BY <1>3 DEF Defer
  <2>2. Busy
    BY <2>1, RoomWhenIdle, SlotTask, <1>1 DEF Busy, Free, IsProcessing, TypeInv, MainFits
  <2>3. NeedsSlot(t)
    <3>1. Kind[t] \in Kinds
      BY ServerAssumption
    <3> QED
      BY <2>1, <3>1 DEF OneByOne, NeedsSlot, Kinds
  <2>4. Busy' /\ mpc' = "take"
    BY <1>3, <2>2 DEF Defer, Busy, TaskDone, Goto
  <2>5. \A u \in Tasks : InDeferred(u)' => InDeferred(u) \/ u = t
    BY <1>1, <2>1, Appended DEF InDeferred, TypeInv, TypeOK
  <2> QED
    BY <1>1, <2>3, <2>4, <2>5, WakerFacts, WakerFactsNext
<1>4. CASE Launch
  <2>1. PICK t \in Tasks, K \in SUBSET Free :
          \E f \in [K -> {t} \cup Children(t)] : Placed(K, f) /\ \E k \in K : f[k] = t
    BY <1>4, LaunchStep
  <2>2. PICK f \in [K -> {t} \cup Children(t)] : Placed(K, f) /\ \E k \in K : f[k] = t
    BY <2>1
  <2>3. InSlot(t)'
    BY <1>1, <2>2, NotOwnChild, SlotsPlaced
  <2>4. Busy' /\ deferred' = deferred /\ mpc' = "take"
    BY <1>4, <2>3, ServerAssumption DEF InSlot, Busy, Launch, TaskDone, Goto
  <2> QED
    BY <1>1, <2>4, WakerFacts, WakerFactsNext DEF InDeferred
<1>5. CASE LaunchFails
  BY <1>5 DEF LaunchFails, OneByOne
<1> QED
  BY <1>2, <1>3, <1>4, <1>5

LEMMA WakerReader ==
  ASSUME WakerInv, TypeInv', NEW r \in Requests, Reader(r) \/ Disconnect(r)
  PROVE  DeferredHasWaker' /\ DeferredNeedSlot' /\ mpc' # "unlaunch"
<1>1. /\ TypeInv /\ DeferredHasWaker /\ DeferredNeedSlot /\ Settled /\ mpc # "unlaunch"
      /\ queue \in Seq(Entries) /\ deferred \in Seq(Tasks) /\ TasksOf(r) \in SUBSET Tasks
  BY DEF WakerInv, ResultInv, HomeInv, TypeInv, TypeOK, TasksOf
<1>2. UNCHANGED <<hand, slot, mpc>>
  BY DEF Reader, Register, PostTasks, Receive, Finish, Disconnect, Unregister,
         DropResults, PostCancels, mainVars
<1>3. CASE PostTasks(r)
  <2>1. PICK o \in Orders({u \in TasksOf(r) : ~IsChild(u)}) :
          LET entries == [i \in DOMAIN o |-> Run(o[i])]
          IN  queue' = IF \A u \in TasksOf(r) : Kind[u] = "ctrl"
                       THEN entries \o queue ELSE queue \o entries
    BY <1>3 DEF PostTasks
  <2> DEFINE entries == [i \in DOMAIN o |-> Run(o[i])]
  <2>2. {u \in TasksOf(r) : ~IsChild(u)} \in SUBSET Tasks
    BY <1>1
  <2>3. entries \in Seq(Entries)
    BY <2>2, OrderedRuns
  <2>4. queue' = entries \o queue \/ queue' = queue \o entries
    BY <2>1
  <2> HIDE DEF entries
  <2>5. \A x : Within(queue, x) => Within(queue', x)
    <3>1. CASE queue' = entries \o queue
      BY <1>1, <2>3, <3>1, Joined
    <3>2. CASE queue' = queue \o entries
      BY <1>1, <2>3, <3>2, Joined
    <3> QED
      BY <2>4, <3>1, <3>2
  <2>6. Calm
    BY <1>2, <1>3, <2>5 DEF PostTasks, Calm, InQueue
  <2> QED
    BY <1>1, <1>2, <2>6, WakerCalm
\* What the reader cancels was not waiting any more.
<1>4. CASE PostCancels(r)
  <2>1. PICK o \in Orders(TasksOf(r)) :
          queue' = [i \in DOMAIN o |-> Cancel(o[i])] \o DropTask(queue, TasksOf(r))
    BY <1>4 DEF PostCancels
  <2> DEFINE entries == [i \in DOMAIN o |-> Cancel(o[i])]
             rest == DropTask(queue, TasksOf(r))
  <2>2. \A t \in TasksOf(r) : ~InQueue(t) /\ ~InDeferred(t)
    BY <1>1, <1>4 DEF PostCancels, ReaderAt, Settled, Failed, Stopping, Pending, TasksOf
  <2>3. entries \in Seq(Entries)
    BY <1>1, OrderedCancels
  <2>4. rest \in Seq(Entries)
    BY <1>1, Fewer DEF DropTask
  <2>5. \A t \in Tasks : InQueue(t) => Within(rest, Run(t))
    <3> SUFFICES ASSUME NEW t \in Tasks, InQueue(t) PROVE Within(rest, Run(t))
      OBVIOUS
    <3>1. PICK i \in DOMAIN queue : queue[i] = Run(t)
      BY DEF InQueue, Within
    <3> DEFINE gone == {j \in DOMAIN queue : queue[j].type = "run" /\ queue[j].task \in TasksOf(r)}
    <3>2. i \in DOMAIN queue \ gone
      BY <2>2, <3>1, TaskEntries
    <3>3. rest = Without(queue, gone)
      BY DEF DropTask
    <3> HIDE DEF gone, rest
    <3>4. \A x : Within(Without(queue, gone), x) <=> \E j \in DOMAIN queue \ gone : queue[j] = x
      BY <1>1, WithoutSome
    <3> QED
      BY <3>1, <3>2, <3>3, <3>4
  <2>6. queue' = entries \o rest
    BY <2>1
  <2> HIDE DEF entries, rest
  <2>7. \A t \in Tasks : InQueue(t) => InQueue(t)'
    BY <2>3, <2>4, <2>5, <2>6, Joined DEF InQueue
  <2>8. \A x : Within(deferred', x) => Within(deferred, x)
    BY <1>1, <1>4, Fewer DEF PostCancels
  <2>9. deferred' # <<>> => deferred # <<>>
    <3>1. deferred' \in Seq(Tasks)
      BY DEF TypeInv, TypeOK
    <3> QED
      BY <2>8, <3>1 DEF Within
  <2>10. (Busy' <=> Busy) /\ \A t \in Tasks : Waker(t) => Waker(t)'
    BY <1>2, <2>7 DEF Busy, Waker, NeedsSlot
  <2> QED
    BY <1>1, <1>2, <2>8, <2>9, <2>10, WakerFacts, WakerFactsNext DEF InDeferred
<1>5. CASE UNCHANGED <<queue, deferred>>
  <2>1. Calm
    BY <1>2, <1>5 DEF Calm, InQueue
  <2> QED
    BY <1>1, <1>2, <2>1, WakerCalm
<1> QED
  BY <1>3, <1>4, <1>5 DEF Reader, Register, Receive, Finish, Disconnect, Unregister, DropResults

LEMMA WakerStep == OneByOne /\ WakerInv /\ [Next]_vars => WakerInv'
<1> SUFFICES ASSUME OneByOne, WakerInv, [Next]_vars PROVE WakerInv'
  OBVIOUS
<1>1. /\ ResultInv /\ ResultInv' /\ HomeInv /\ HomeInv' /\ TypeInv /\ TypeInv' /\ Settled
      /\ DeferredHasWaker /\ DeferredNeedSlot /\ mpc # "unlaunch"
  BY ResultStep DEF WakerInv, ResultInv, HomeInv
<1>2. OneRoot /\ "gone" \notin Faults
  BY DEF OneByOne
<1>3. CASE OtherStep
  <2>1. Onward
    BY <1>1, <1>3, Dropping, HomeKept
  <2>2. Settled'
    BY <1>1, <1>2, <1>3, <2>1, OtherSends, SettledMain
  <2>3. DeferredHasWaker' /\ DeferredNeedSlot' /\ mpc' # "unlaunch"
    BY <1>1, <1>3, ReleaseOrCalm, WakerRelease, WakerCalm
  <2> QED
    BY <1>1, <2>2, <2>3 DEF WakerInv
<1>4. CASE TakeTask \/ Defer \/ Launch \/ LaunchFails
  <2>1. Onward
    BY <1>1, <1>4, HomeTake, HomeDefer, HomeLaunch, HomeLaunchFails
  <2>2. Settled'
    BY <1>1, <1>2, <1>4, <2>1, TaskSends, SettledMain
  <2> QED
    BY <1>1, <1>4, <2>2, WakerTask DEF WakerInv
<1>5. CASE \E r \in Requests : Reader(r) \/ Disconnect(r)
  BY <1>1, <1>2, <1>5, SettledReader, WakerReader DEF WakerInv
<1>6. CASE UNCHANGED vars
  <2>1. Settled'
    BY <1>1, <1>6 DEF vars, mainVars, readerVars, Settled, Failed, Pending, InQueue, InDeferred
  <2>2. Calm /\ mpc' = mpc
    BY <1>6 DEF vars, mainVars, Calm, InQueue
  <2> QED
    BY <1>1, <2>1, <2>2, WakerCalm DEF WakerInv
<1> QED
  BY <1>3, <1>4, <1>5, <1>6, Steps DEF ProcessSingleTask, OtherStep

LEMMA WakerStart == Init => WakerInv
<1> SUFFICES ASSUME Init PROVE WakerInv
  OBVIOUS
<1>1. \A t \in Tasks : ~Pending(t)
  BY DEF Init, Pending, InQueue, InDeferred, Within
<1>2. Settled /\ DeferredHasWaker /\ DeferredNeedSlot
  BY <1>1 DEF Init, Settled, DeferredHasWaker, DeferredNeedSlot
<1> QED
  BY <1>2, ResultStart DEF WakerInv, Init

\* A deferred task depends on a slot that will be released, or on a task in the queue
\* that will get a slot or wait for one, as long as each request posts one task, no
\* launch fails, no client leaves and there is no slot action.
THEOREM DeferredAreWoken ==
  ASSUME OneByOne
  PROVE  Spec => []DeferredHasWaker
<1>1. WakerInv /\ [Next]_vars => WakerInv'
  BY WakerStep
<1>2. WakerInv => DeferredHasWaker
  BY DEF WakerInv
<1> QED
  BY WakerStart, <1>1, <1>2, PTL DEF Spec
-----------------------------------------------------------------------------
(* Parents and children.                                                   *)

\* Task t is being cancelled.
InCancel(t) == hand = Cancel(t) \/ Within(queue, Cancel(t))

Cancelled(r) == Failed(r) \/ \E t \in TasksOf(r) : InCancel(t)

\* The main thread is about to release slot s.
Doomed(s) ==
  \/ mpc = "fail" /\ cur <= s
  \/ mpc = "unlaunch" /\ hand = Run(Parent[slot[s].task]) /\ cur <= s

Remains(s) == slot[s].state = "generating" \/ Doomed(s)

\* A task is cancelled by a reader that has posted it.
CancelsPosted == \A t \in Tasks : InCancel(t) => ~Unposted(Owner[t])

\* What is left of a request that failed generates, or is about to be released.
CancelledRuns ==
  /\ \A t \in Tasks : Cancelled(Owner[t]) => ~Pending(t)
  /\ \A s \in Slots : slot[s].task # NoTask /\ Cancelled(Owner[slot[s].task]) => Remains(s)

HasWork(s) == slot[s].state \in {"started", "prompt", "done"}

\* The parent of a child that waits has its prompt to do, or both are released.
ParentWorks ==
  \A s \in Slots : slot[s].state = "wait_other" =>
    Doomed(s) \/ \E p \in Slots : HasWork(p) /\ slot[p].task = Parent[slot[s].task]

SameRequest(s, k) ==
  slot[s].task # NoTask /\ slot[k].task # NoTask /\ Owner[slot[s].task] = Owner[slot[k].task]

HasTokens(s) == slot[s].state \in {"done", "generating"}

\* A parent and its children get past the prompt in the same batch.
InStep ==
  /\ \A s \in Slots : slot[s].task # NoTask =>
       IF IsChild(slot[s].task)
       THEN \/ slot[s].state \in {"wait_other", "generating"}
            \/ mpc = "sample" /\ slot[s].state = "done"
       ELSE slot[s].state # "wait_other"
  /\ \A s, k \in Slots : SameRequest(s, k) =>
       IF mpc = "sample" THEN HasTokens(s) => HasTokens(k)
       ELSE slot[s].state = "generating" => slot[k].state = "generating"

\* A prompt that is done is sampled in the same update, unless decoding fails.
DoneInBatch ==
  \A s \in Slots : slot[s].state = "done" =>
    \/ mpc = "fail"
    \/ mpc \in {"prompt", "decode"} /\ s \in batch
    \/ mpc = "sample" /\ s \in batch /\ cur <= s

\* Slots that were released after a failed decode are idle.
FailClears == mpc = "fail" => \A s \in Slots : s < cur => slot[s].state = "idle"

\* A batch that is still empty means that there was nothing for it so far.
EmptyMeans ==
  batch = {} =>
    /\ mpc = "generate" => \A s \in Slots : s < cur => slot[s].state # "generating"
    /\ mpc = "prompt" => \A s \in Slots :
         slot[s].state # "generating" /\ (s < cur => ~HasWork(s))
    /\ mpc = "decode" => \A s \in Slots : slot[s].state # "generating" /\ ~HasWork(s)

\* The counter of empty batches never gets beyond one: then all slots are idle.
CountsOnce ==
  /\ mpc # "aborted"
  /\ mpc \in {"generate", "prompt", "decode"} => nEmpty = 0
  /\ nEmpty # 0 => nEmpty = 1 /\ Free = Slots

\* What the main thread does to the slots.
SlotsInv == InStep /\ ParentWorks /\ DoneInBatch /\ FailClears /\ EmptyMeans /\ CountsOnce

ChildInv == ResultInv /\ CancelsPosted /\ CancelledRuns /\ SlotsInv

\* Children are kept when each request posts one task, with or without children, no
\* client leaves, and no prompt turns out to be empty or too long.
OneFamily == OneRoot /\ {"gone", "empty", "reject"} \cap Faults = {}

LEMMA SlotFacts ==
  ASSUME TypeInv
  PROVE  /\ cur \in Slots /\ cur \in Nat /\ batch \in SUBSET Slots /\ nEmpty \in Nat
         /\ \A s \in Slots : s \in Nat /\ s >= 1 /\ s <= NSlots
         /\ \A s \in Slots : slot[s] \in SlotRecord
         /\ \A s \in Slots : slot[s].state = "idle" <=> slot[s].task = NoTask
         /\ NSlots \in Nat
BY ServerAssumption DEF TypeInv, TypeOK, MainFits, Slots, SlotRecord

\* Each slot stays as it is, or is released.
Kept(k) == slot'[k].task = slot[k].task /\ slot'[k].state = slot[k].state
Freed(k) == slot'[k].task = NoTask /\ slot'[k].state = "idle"
OnlyFreed == \A k \in Slots : Kept(k) \/ Freed(k)

LEMMA FreedOne ==
  ASSUME TypeInv, NEW s \in Slots, Release(s)
  PROVE  Freed(s) /\ \A k \in Slots \ {s} : Kept(k)
BY ReleaseTypes, SlotRecords DEF Freed, Kept

LEMMA InStepFreed ==
  ASSUME InStep, OnlyFreed, mpc' = "sample" <=> mpc = "sample"
  PROVE  InStep'
<1>1. \A k \in Slots : slot'[k].task # NoTask => Kept(k)
  BY DEF OnlyFreed, Freed
<1>2. ASSUME NEW s \in Slots, slot'[s].task # NoTask
      PROVE  IF IsChild(slot'[s].task)
             THEN \/ slot'[s].state \in {"wait_other", "generating"}
                  \/ mpc' = "sample" /\ slot'[s].state = "done"
             ELSE slot'[s].state # "wait_other"
  BY <1>1, <1>2 DEF InStep, Kept
<1>3. ASSUME NEW s \in Slots, NEW k \in Slots, SameRequest(s, k)'
      PROVE  IF mpc' = "sample" THEN HasTokens(s)' => HasTokens(k)'
             ELSE slot'[s].state = "generating" => slot'[k].state = "generating"
  <2>1. SameRequest(s, k) /\ Kept(s) /\ Kept(k)
    BY <1>1, <1>3 DEF SameRequest, Kept
  <2> QED
    BY <2>1 DEF InStep, Kept, HasTokens
<1> QED
  BY <1>2, <1>3 DEF InStep

LEMMA FreeGrows ==
  ASSUME OnlyFreed, Free = Slots
  PROVE  Free' = Slots
BY DEF OnlyFreed, Kept, Freed, Free, IsProcessing

\* Between two updates.
LEMMA SlotsBetween ==
  ASSUME TypeInv, TypeInv', SlotsInv, UNCHANGED <<slot, nEmpty>>,
         mpc \in {"take", "have", "wait"},
         \/ mpc' \in {"take", "have", "wait"}
         \/ mpc' = "generate" /\ cur' = 1 /\ Free # Slots
  PROVE  SlotsInv'
<1>1. OnlyFreed
  BY DEF OnlyFreed, Kept
<1>2. InStep'
  BY <1>1, InStepFreed DEF SlotsInv
<1>3. ParentWorks'
  BY DEF SlotsInv, ParentWorks, Doomed, HasWork
<1>4. DoneInBatch' /\ FailClears'
  BY DEF SlotsInv, DoneInBatch, FailClears
<1>5. EmptyMeans'
  BY SlotFacts DEF EmptyMeans
<1>6. CountsOnce'
  BY DEF SlotsInv, CountsOnce, Free, IsProcessing
<1> QED
  BY <1>2, <1>3, <1>4, <1>5, <1>6 DEF SlotsInv

LEMMA SlotsUndo ==
  ASSUME TypeInv, TypeInv', SlotsInv, LaunchUndo
  PROVE  SlotsInv'
<1>1. /\ mpc = "unlaunch" /\ UNCHANGED <<batch, nEmpty>>
      /\ hand' = IF cur = NSlots THEN NoEntry ELSE hand
      /\ \/ cur < NSlots /\ cur' = cur + 1 /\ mpc' = mpc
         \/ cur = NSlots /\ cur' = 1 /\ mpc' = "take"
  BY SlotFacts, NextSlotTypes DEF LaunchUndo
<1>2. /\ hand \in Entries /\ hand.type = "run" /\ hand.task \in Tasks /\ hand = Run(hand.task)
  BY <1>1, EntryCases DEF TypeInv, TypeOK, MainFits
<1>3. /\ \A k \in Slots \ {cur} : Kept(k)
      /\ IF slot[cur].task \in Children(hand.task) THEN Freed(cur) ELSE Kept(cur)
  <2>1. CASE slot[cur].task \in Children(hand.task)
    BY <2>1, SlotFacts, FreedOne DEF LaunchUndo
  <2>2. CASE slot[cur].task \notin Children(hand.task)
    BY <2>2 DEF LaunchUndo, Kept
  <2> QED
    BY <2>1, <2>2
<1>4. OnlyFreed
  BY <1>3 DEF OnlyFreed
<1>5. InStep'
  BY <1>1, <1>4, InStepFreed DEF SlotsInv
<1>6. ParentWorks'
  <2> SUFFICES ASSUME NEW s \in Slots, slot'[s].state = "wait_other"
               PROVE  \/ Doomed(s)'
                      \/ \E p \in Slots : HasWork(p)' /\ slot'[p].task = Parent[slot'[s].task]
    BY DEF ParentWorks
  <2>1. Kept(s)
    BY <1>4 DEF OnlyFreed, Freed
  <2>2. CASE Doomed(s)
    <3>1. hand = Run(Parent[slot[s].task]) /\ cur <= s
      BY <1>1, <2>2 DEF Doomed
    <3>2. slot[s].task \in Tasks /\ slot[s].task \in Children(hand.task)
      BY <1>2, <2>1, <3>1, SlotTask, TaskEntries DEF Children, Kept, Run
    <3>3. s # cur
      BY <1>3, <2>1, <3>2, ServerAssumption DEF Freed, Kept
    <3>4. cur < NSlots /\ cur' <= s
      BY <1>1, <3>1, <3>3, SlotFacts
    <3> QED
      BY <1>1, <2>1, <3>1, <3>4, SlotFacts DEF Doomed, Kept
  <2>3. ASSUME NEW p \in Slots, HasWork(p), slot[p].task = Parent[slot[s].task]
        PROVE  HasWork(p)' /\ slot'[p].task = Parent[slot'[s].task]
    <3>1. slot[p].task \notin Children(hand.task)
      <4> SUFFICES ASSUME slot[p].task \in Children(hand.task) PROVE FALSE
        OBVIOUS
      <4>1. slot[p].task # NoTask /\ IsChild(slot[p].task)
        BY <1>2, ServerAssumption DEF Children, IsChild
      <4> QED
        BY <1>1, <2>3, <4>1 DEF SlotsInv, InStep, HasWork
    <3>2. Kept(p)
      BY <1>3, <3>1
    <3> QED
      BY <2>1, <2>3, <3>2 DEF HasWork, Kept
  <2> QED
    BY <2>1, <2>2, <2>3 DEF SlotsInv, ParentWorks, Kept
<1>7. DoneInBatch' /\ FailClears' /\ EmptyMeans'
  BY <1>1, <1>4 DEF SlotsInv, DoneInBatch, FailClears, EmptyMeans, OnlyFreed, Kept, Freed
<1>8. CountsOnce'
  BY <1>1, <1>4, FreeGrows DEF SlotsInv, CountsOnce
<1> QED
  BY <1>5, <1>6, <1>7, <1>8 DEF SlotsInv

\* What is left of the request of a task that is cancelled generates.
LEMMA SlotsCancel ==
  ASSUME TypeInv, TypeInv', SlotsInv, CancelledRuns, CancelTask
  PROVE  SlotsInv'
<1>1. mpc = "have" /\ hand.type = "cancel" /\ mpc' = "take" /\ UNCHANGED <<cur, batch, nEmpty>>
  BY DEF CancelTask, TaskDone, Goto
<1>2. hand.task \in Tasks /\ hand = Cancel(hand.task)
  BY <1>1, EntryCases, TaskEntries DEF TypeInv, TypeOK, MainFits
<1>3. CASE UNCHANGED slot
  BY <1>1, <1>3, SlotsBetween
<1>4. ASSUME NEW s \in Slots, slot[s].task = hand.task, Release(s) PROVE SlotsInv'
  <2>1. Freed(s) /\ \A k \in Slots \ {s} : Kept(k)
    BY <1>4, FreedOne
  <2>2. OnlyFreed
    BY <2>1 DEF OnlyFreed
  <2>3. slot[s].state = "generating"
    <3>1. Cancelled(Owner[slot[s].task]) /\ slot[s].task # NoTask
      BY <1>2, <1>4, ServerAssumption DEF Cancelled, InCancel, TasksOf
    <3>2. ~Doomed(s)
      BY <1>1 DEF Doomed
    <3> QED
      BY <3>1, <3>2 DEF CancelledRuns, Remains
  <2>4. InStep'
    BY <1>1, <2>2, InStepFreed DEF SlotsInv
  <2>5. ParentWorks'
    <3> SUFFICES ASSUME NEW k \in Slots, slot'[k].state = "wait_other"
                 PROVE  \E p \in Slots : HasWork(p)' /\ slot'[p].task = Parent[slot'[k].task]
      BY DEF ParentWorks
    <3>1. Kept(k) /\ ~Doomed(k)
      BY <1>1, <2>1 DEF Freed, Doomed
    <3>2. PICK p \in Slots : HasWork(p) /\ slot[p].task = Parent[slot[k].task]
      BY <3>1 DEF SlotsInv, ParentWorks, Kept
    <3>3. Kept(p)
      BY <2>1, <2>3, <3>2 DEF HasWork
    <3> QED
      BY <3>1, <3>2, <3>3 DEF HasWork, Kept
  <2>6. DoneInBatch' /\ FailClears' /\ EmptyMeans'
    BY <1>1, <2>2 DEF SlotsInv, DoneInBatch, FailClears, EmptyMeans, OnlyFreed, Kept, Freed
  <2>7. CountsOnce'
    BY <1>1, <2>2, FreeGrows DEF SlotsInv, CountsOnce
  <2> QED
    BY <2>4, <2>5, <2>6, <2>7 DEF SlotsInv
<1> QED
  BY <1>3, <1>4 DEF CancelTask

\* A release, or nothing, in a loop of an update over the slots, of a slot that has no
\* work and is no parent at work.
LEMMA ParentWorksFreed ==
  ASSUME ParentWorks, OnlyFreed, mpc \notin {"fail", "unlaunch"},
         \A k \in Slots : HasWork(k) => Kept(k)
  PROVE  ParentWorks'
<1> SUFFICES ASSUME NEW k \in Slots, slot'[k].state = "wait_other"
             PROVE  \E p \in Slots : HasWork(p)' /\ slot'[p].task = Parent[slot'[k].task]
  BY DEF ParentWorks
<1>1. Kept(k) /\ ~Doomed(k)
  BY DEF OnlyFreed, Freed, Doomed
<1>2. PICK p \in Slots : HasWork(p) /\ slot[p].task = Parent[slot[k].task]
  BY <1>1 DEF ParentWorks, Kept
<1> QED
  BY <1>1, <1>2 DEF HasWork, Kept

LEMMA SlotsGenerate ==
  ASSUME TypeInv, TypeInv', SlotsInv, AddGenerating
  PROVE  SlotsInv'
<1>1. /\ mpc = "generate" /\ UNCHANGED <<hand, nEmpty>>
      /\ \/ cur < NSlots /\ cur' = cur + 1 /\ mpc' = "generate"
         \/ cur = NSlots /\ cur' = 1 /\ mpc' = "prompt"
  BY SlotFacts, NextSlotTypes DEF AddGenerating
<1>2. /\ \A k \in Slots \ {cur} : Kept(k)
      /\ \/ Kept(cur)
         \/ slot[cur].state = "generating" /\ Freed(cur)
  <2>1. CASE UNCHANGED slot
    BY <2>1 DEF Kept
  <2>2. CASE slot[cur].state = "generating" /\ Release(cur)
    BY <2>2, FreedOne, SlotFacts
  <2> QED
    BY <2>1, <2>2 DEF AddGenerating
<1>3. OnlyFreed
  BY <1>2 DEF OnlyFreed
<1>4. InStep'
  BY <1>1, <1>3, InStepFreed DEF SlotsInv
<1>5. ParentWorks'
  BY <1>1, <1>2, <1>3, ParentWorksFreed DEF SlotsInv, HasWork
<1>6. DoneInBatch' /\ FailClears'
  BY <1>1, <1>3 DEF SlotsInv, DoneInBatch, FailClears, OnlyFreed, Kept, Freed
\* The first slot that generates is compatible with an empty batch.
<1>7. EmptyMeans'
  <2> SUFFICES ASSUME batch' = {} PROVE EmptyMeans'
    BY DEF EmptyMeans
  <2>1. batch = {} /\ slot'[cur].state # "generating"
    <3>1. CASE /\ slot[cur].state = "generating"
               /\ batch' = IF Compatible(cur) THEN batch \cup {cur} ELSE batch
      BY <3>1 DEF Compatible
    <3>2. CASE slot[cur].state = "generating" /\ Release(cur) /\ UNCHANGED batch
      BY <3>2, FreedOne, SlotFacts DEF Freed
    <3>3. CASE slot[cur].state # "generating" /\ UNCHANGED <<batch, slot>>
      BY <3>3
    <3> QED
      BY <3>1, <3>2, <3>3 DEF AddGenerating
  <2>2. \A k \in Slots : k < cur => slot'[k].state # "generating"
    BY <1>1, <1>3, <2>1 DEF SlotsInv, EmptyMeans, OnlyFreed, Kept, Freed
  <2>3. CASE cur < NSlots /\ cur' = cur + 1 /\ mpc' = "generate"
    BY <2>1, <2>2, <2>3, SlotFacts DEF EmptyMeans
  <2>4. CASE cur = NSlots /\ cur' = 1 /\ mpc' = "prompt"
    BY <2>1, <2>2, <2>4, SlotFacts DEF EmptyMeans
  <2> QED
    BY <1>1, <2>3, <2>4
<1>8. CountsOnce'
  BY <1>1, <1>3, FreeGrows DEF SlotsInv, CountsOnce
<1> QED
  BY <1>4, <1>5, <1>6, <1>7, <1>8 DEF SlotsInv

LEMMA SlotsPrompt ==
  ASSUME TypeInv, TypeInv', SlotsInv, NoPromptsNow \/ SkipPrompt
  PROVE  SlotsInv'
<1>1. /\ mpc = "prompt" /\ UNCHANGED <<hand, slot, batch, nEmpty>>
      /\ mpc' \in {"prompt", "decode"}
  BY SlotFacts, NextSlotTypes DEF NoPromptsNow, SkipPrompt, PromptTurn, Goto
<1>2. OnlyFreed /\ \A k \in Slots : Kept(k)
  BY <1>1 DEF OnlyFreed, Kept
<1>3. InStep'
  BY <1>1, <1>2, InStepFreed DEF SlotsInv
<1>4. ParentWorks'
  BY <1>1, <1>2, ParentWorksFreed DEF SlotsInv
<1>5. DoneInBatch' /\ FailClears'
  BY <1>1 DEF SlotsInv, DoneInBatch, FailClears
<1>6. EmptyMeans'
  <2> SUFFICES ASSUME batch = {} PROVE EmptyMeans'
    BY <1>1 DEF EmptyMeans
  <2>1. SkipPrompt
    BY DEF NoPromptsNow
  <2>2. /\ \A k \in Slots : slot[k].state \notin {"generating", "done"} /\ (k < cur => ~HasWork(k))
        /\ ~HasWork(cur)
    <3>1. Compatible(cur) /\ ~HasPrompt(cur)
      BY <2>1 DEF Compatible, SkipPrompt
    <3> QED
      BY <1>1, <3>1, SlotFacts DEF SlotsInv, EmptyMeans, DoneInBatch, HasPrompt, HasWork
  <2>3. CASE cur < NSlots /\ cur' = cur + 1 /\ mpc' = "prompt"
    BY <1>1, <2>2, <2>3, SlotFacts DEF EmptyMeans, HasWork
  <2>4. CASE cur = NSlots /\ cur' = 1 /\ mpc' = "decode"
    BY <1>1, <2>2, <2>4, SlotFacts DEF EmptyMeans, HasWork
  <2> QED
    BY <1>1, <2>1, <2>3, <2>4, SlotFacts, NextSlotTypes DEF SkipPrompt
<1>7. CountsOnce'
  BY <1>1 DEF SlotsInv, CountsOnce, Free, IsProcessing
<1> QED
  BY <1>3, <1>4, <1>5, <1>6, <1>7 DEF SlotsInv

LEMMA SlotsAddPrompt ==
  ASSUME TypeInv, TypeInv', SlotsInv, AddPrompt
  PROVE  SlotsInv'
<1>1. /\ mpc = "prompt" /\ UNCHANGED <<hand, nEmpty>> /\ batch' = batch \cup {cur}
      /\ mpc' \in {"prompt", "decode"} /\ slot[cur].state \in {"started", "prompt"}
  BY SlotFacts, NextSlotTypes DEF AddPrompt, PromptTurn, HasPrompt, Scan
<1>2. /\ \A k \in Slots \ {cur} : Kept(k)
      /\ slot'[cur].task = slot[cur].task /\ slot'[cur].state \in {"prompt", "done"}
  BY SlotFacts DEF AddPrompt, Kept, TypeInv, TypeOK
<1>3. InStep'
  <2>1. ~IsChild(slot[cur].task)
    BY <1>1, SlotFacts DEF SlotsInv, InStep
  <2>2. ASSUME NEW s \in Slots, slot'[s].task # NoTask
        PROVE  IF IsChild(slot'[s].task) THEN slot'[s].state \in {"wait_other", "generating"}
               ELSE slot'[s].state # "wait_other"
    <3>1. CASE s = cur
      BY <1>2, <2>1, <3>1
    <3>2. CASE s # cur
      BY <1>1, <1>2, <2>2, <3>2 DEF SlotsInv, InStep, Kept
    <3> QED
      BY <3>1, <3>2
  <2>3. ASSUME NEW s \in Slots, NEW k \in Slots, SameRequest(s, k)', slot'[s].state = "generating"
        PROVE  slot'[k].state = "generating"
    <3>1. s # cur /\ SameRequest(s, k) /\ slot[s].state = "generating"
      BY <1>2, <2>3, SlotFacts DEF SameRequest, Kept
    <3>2. slot[k].state = "generating"
      BY <1>1, <3>1 DEF SlotsInv, InStep
    <3> QED
      BY <1>1, <1>2, <3>2 DEF Kept
  <2> QED
    BY <1>1, <2>2, <2>3 DEF InStep
<1>4. ParentWorks'
  <2> SUFFICES ASSUME NEW k \in Slots, slot'[k].state = "wait_other"
               PROVE  \E p \in Slots : HasWork(p)' /\ slot'[p].task = Parent[slot'[k].task]
    BY DEF ParentWorks
  <2>1. Kept(k) /\ ~Doomed(k)
    BY <1>1, <1>2 DEF Doomed
  <2>2. PICK p \in Slots : HasWork(p) /\ slot[p].task = Parent[slot[k].task]
    BY <2>1 DEF SlotsInv, ParentWorks, Kept
  <2>3. HasWork(p)' /\ slot'[p].task = slot[p].task
    BY <1>2, <2>2 DEF HasWork, Kept
  <2> QED
    BY <2>1, <2>2, <2>3 DEF Kept
<1>5. DoneInBatch'
  BY <1>1, <1>2 DEF SlotsInv, DoneInBatch, Kept
<1>6. FailClears' /\ EmptyMeans'
  BY <1>1 DEF FailClears, EmptyMeans
<1>7. CountsOnce'
  BY <1>1 DEF SlotsInv, CountsOnce
<1> QED
  BY <1>3, <1>4, <1>5, <1>6, <1>7 DEF SlotsInv

\* Nothing is in the batch only when no slot is processing.
LEMMA SlotsEmptyBatch ==
  ASSUME TypeInv, TypeInv', SlotsInv, EmptyBatch
  PROVE  SlotsInv'
<1>1. /\ mpc = "decode" /\ batch = {} /\ UNCHANGED <<hand, slot, cur, batch>>
      /\ nEmpty = 0 /\ nEmpty' = 1 /\ mpc' = "take"
  BY DEF EmptyBatch, Goto, SlotsInv, CountsOnce
<1>2. OnlyFreed /\ \A k \in Slots : Kept(k)
  BY <1>1 DEF OnlyFreed, Kept
<1>3. \A s \in Slots : slot[s].state = "idle"
  <2>1. \A s \in Slots : slot[s].state # "generating" /\ ~HasWork(s)
    BY <1>1 DEF SlotsInv, EmptyMeans
  <2>2. \A s \in Slots : slot[s].state # "wait_other"
    BY <1>1, <2>1 DEF SlotsInv, ParentWorks, Doomed
  <2> QED
    BY <2>1, <2>2, SlotFacts DEF SlotRecord, HasWork
<1>4. InStep'
  BY <1>1, <1>2, InStepFreed DEF SlotsInv
<1>5. ParentWorks' /\ DoneInBatch' /\ FailClears' /\ EmptyMeans'
  BY <1>1, <1>3 DEF ParentWorks, DoneInBatch, FailClears, EmptyMeans
<1>6. CountsOnce'
  BY <1>1, <1>3 DEF CountsOnce, Free, IsProcessing
<1> QED
  BY <1>4, <1>5, <1>6 DEF SlotsInv

LEMMA SlotsDecode ==
  ASSUME OneRoot, TypeInv, TypeInv', OnePlace, SlotsInv, Decode
  PROVE  SlotsInv'
<1> DEFINE copied == {s \in Slots : slot[s].state = "wait_other" /\ ParentDone(s)}
<1>1. /\ mpc = "decode" /\ batch # {} /\ batch' = batch \cup copied
      /\ nEmpty' = 0 /\ mpc' = "sample" /\ cur' = 1
  BY DEF Decode, Scan
<1>2. \A s \in Slots : /\ slot'[s].task = slot[s].task
                       /\ slot'[s].state = IF s \in copied THEN "done" ELSE slot[s].state
  BY SlotFacts DEF Decode, SlotRecord
<1>3. \A s \in copied : s \in Slots /\ slot[s].state = "wait_other" /\ ParentDone(s)
  OBVIOUS
<1>4. \A s \in Slots : slot'[s].state = "wait_other" => slot[s].state = "wait_other" /\ ~ParentDone(s)
  BY <1>2
<1> HIDE DEF copied
<1>5. /\ \A s \in Slots : slot[s].task # NoTask =>
           IF IsChild(slot[s].task) THEN slot[s].state \in {"wait_other", "generating"}
           ELSE slot[s].state # "wait_other"
      /\ \A s, k \in Slots : SameRequest(s, k) =>
           (slot[s].state = "generating" => slot[k].state = "generating")
  BY <1>1 DEF SlotsInv, InStep
<1>6. ParentWorks'
  <2> SUFFICES ASSUME NEW k \in Slots, slot'[k].state = "wait_other"
               PROVE  \E p \in Slots : HasWork(p)' /\ slot'[p].task = Parent[slot'[k].task]
    BY DEF ParentWorks
  <2>1. slot[k].state = "wait_other" /\ ~Doomed(k)
    BY <1>1, <1>4 DEF Doomed
  <2>2. PICK p \in Slots : HasWork(p) /\ slot[p].task = Parent[slot[k].task]
    BY <2>1 DEF SlotsInv, ParentWorks
  <2>3. HasWork(p)'
    BY <1>2, <1>3, <2>2 DEF HasWork
  <2> QED
    BY <1>2, <2>2, <2>3
<1>7. InStep'
  <2>1. ASSUME NEW s \in Slots, slot'[s].task # NoTask
        PROVE  IF IsChild(slot'[s].task)
               THEN slot'[s].state \in {"wait_other", "generating", "done"}
               ELSE slot'[s].state # "wait_other"
    BY <1>2, <1>3, <1>5, <2>1
  <2>2. ASSUME NEW s \in Slots, NEW k \in Slots, SameRequest(s, k)', HasTokens(s)'
        PROVE  HasTokens(k)'
    <3>1. SameRequest(s, k)
      BY <1>2, <2>2 DEF SameRequest
    <3>2. CASE slot[s].state = "generating"
      <4>1. slot[k].state = "generating"
        BY <1>5, <3>1, <3>2
      <4> QED
        BY <1>2, <4>1 DEF HasTokens
    <3>3. CASE slot[s].state = "done" \/ s \in copied
      <4>1. PICK p \in Slots : /\ slot[p].state = "done" /\ ~IsChild(slot[p].task)
                               /\ slot[p].task \in Tasks
                               /\ Owner[slot[p].task] = Owner[slot[s].task]
                               /\ (s \in copied => slot[p].task = Parent[slot[s].task])
                               /\ (s \notin copied => p = s)
        <5>1. slot[s].task \in Tasks
          BY <3>1, SlotFacts DEF SameRequest, SlotRecord
        <5>2. CASE s \in copied
          <6>1. PICK p \in Slots : slot[p].state = "done" /\ slot[p].task = Parent[slot[s].task]
            BY <1>3, <5>2 DEF ParentDone
          <6>2. slot[p].task # NoTask /\ slot[p].task \in Tasks
            BY <6>1, SlotFacts DEF SlotRecord
          <6>3. Owner[slot[p].task] = Owner[slot[s].task] /\ ~IsChild(slot[p].task)
            BY <5>1, <6>1, <6>2, ServerAssumption DEF IsChild
          <6> QED
            BY <5>2, <6>1, <6>2, <6>3
        <5>3. CASE s \notin copied
          <6>1. slot[s].state = "done" /\ ~IsChild(slot[s].task)
            BY <1>5, <3>1, <3>3, <5>3 DEF SameRequest
          <6> QED
            BY <5>1, <5>3, <6>1
        <5> QED
          BY <5>2, <5>3
      <4>2. slot[k].state # "generating"
        <5>1. SameRequest(k, p)
          BY <3>1, <4>1, ServerAssumption DEF SameRequest
        <5> QED
          BY <1>5, <4>1, <5>1
      <4>3. slot[k].task \in Tasks /\ Owner[slot[k].task] = Owner[slot[p].task]
        BY <3>1, <4>1, SlotFacts DEF SameRequest, SlotRecord
      <4>4. CASE IsChild(slot[k].task)
        <5>1. slot[k].state = "wait_other"
          BY <1>5, <4>2, <4>3, <4>4, ServerAssumption
        <5>2. /\ Parent[slot[k].task] \in Tasks /\ ~IsChild(Parent[slot[k].task])
              /\ Owner[Parent[slot[k].task]] = Owner[slot[k].task]
          BY <4>3, <4>4, ServerAssumption DEF IsChild
        <5>3. Parent[slot[k].task] = slot[p].task
          BY <4>1, <4>3, <5>2 DEF OneRoot
        <5>4. k \in copied
          BY <4>1, <5>1, <5>3 DEF ParentDone, copied
        <5> QED
          BY <1>2, <5>4 DEF HasTokens
      <4>5. CASE ~IsChild(slot[k].task)
        <5>1. slot[k].task = slot[p].task
          BY <4>1, <4>3, <4>5 DEF OneRoot
        <5>2. k = p
          BY <4>3, <5>1, ServerAssumption DEF OnePlace
        <5> QED
          BY <1>2, <4>1, <5>2 DEF HasTokens
      <4> QED
        BY <4>4, <4>5
    <3> QED
      BY <1>2, <2>2, <3>2, <3>3 DEF HasTokens
  <2> QED
    BY <1>1, <2>1, <2>2 DEF InStep
<1>8. DoneInBatch'
  BY <1>1, <1>2, SlotFacts DEF SlotsInv, DoneInBatch
<1>9. FailClears' /\ EmptyMeans'
  BY <1>1 DEF FailClears, EmptyMeans
<1>10. CountsOnce'
  BY <1>1 DEF CountsOnce
<1> QED
  BY <1>6, <1>7, <1>8, <1>9, <1>10 DEF SlotsInv

LEMMA SlotsDecodeFails ==
  ASSUME TypeInv, TypeInv', SlotsInv, DecodeFails
  PROVE  SlotsInv'
<1>1. /\ mpc = "decode" /\ UNCHANGED <<hand, slot>>
      /\ nEmpty' = 0 /\ mpc' = "fail" /\ cur' = 1
  BY DEF DecodeFails, Scan
<1>2. OnlyFreed
  BY <1>1 DEF OnlyFreed, Kept
<1>3. InStep'
  BY <1>1, <1>2, InStepFreed DEF SlotsInv
<1>4. ParentWorks' /\ DoneInBatch' /\ FailClears' /\ EmptyMeans'
  BY <1>1, SlotFacts DEF ParentWorks, Doomed, DoneInBatch, FailClears, EmptyMeans
<1>5. CountsOnce'
  BY <1>1 DEF CountsOnce
<1> QED
  BY <1>3, <1>4, <1>5 DEF SlotsInv

LEMMA SlotsFail ==
  ASSUME TypeInv, TypeInv', SlotsInv, FailSlot
  PROVE  SlotsInv'
<1>1. /\ mpc = "fail" /\ UNCHANGED <<hand, batch, nEmpty>>
      /\ \/ cur < NSlots /\ cur' = cur + 1 /\ mpc' = "fail"
         \/ cur = NSlots /\ cur' = 1 /\ mpc' = "take"
  BY SlotFacts, NextSlotTypes DEF FailSlot
<1>2. (\A k \in Slots \ {cur} : Kept(k)) /\ slot'[cur].state = "idle" /\ OnlyFreed
  <2>1. CASE IsProcessing(cur)
    BY <2>1, FreedOne, SlotFacts DEF FailSlot, Freed, OnlyFreed
  <2>2. CASE ~IsProcessing(cur)
    BY <2>2, SlotFacts DEF FailSlot, IsProcessing, Kept, OnlyFreed
  <2> QED
    BY <2>1, <2>2
<1>3. \A k \in Slots : k < cur \/ k = cur => slot'[k].state = "idle"
  BY <1>1, <1>2 DEF SlotsInv, FailClears, OnlyFreed, Kept, Freed
<1>4. InStep'
  BY <1>1, <1>2, InStepFreed DEF SlotsInv
<1>5. CASE cur < NSlots /\ cur' = cur + 1 /\ mpc' = "fail"
  <2>1. \A k \in Slots : slot'[k].state # "idle" => cur' <= k
    BY <1>3, <1>5, SlotFacts
  <2>2. ParentWorks' /\ DoneInBatch' /\ FailClears' /\ EmptyMeans'
    BY <1>3, <1>5, <2>1, SlotFacts DEF ParentWorks, Doomed, DoneInBatch, FailClears, EmptyMeans
  <2> QED
    BY <1>1, <1>2, <1>4, <2>2, FreeGrows DEF SlotsInv, CountsOnce
<1>6. CASE cur = NSlots /\ cur' = 1 /\ mpc' = "take"
  <2>1. \A k \in Slots : slot'[k].state = "idle"
    BY <1>3, <1>6, SlotFacts
  <2>2. ParentWorks' /\ DoneInBatch' /\ FailClears' /\ EmptyMeans'
    BY <1>6, <2>1 DEF ParentWorks, DoneInBatch, FailClears, EmptyMeans
  <2> QED
    BY <1>1, <1>2, <1>4, <1>6, <2>2, FreeGrows DEF SlotsInv, CountsOnce
<1> QED
  BY <1>1, <1>5, <1>6

\* A slot with tokens is sampled: it goes on or is released.
LEMMA SlotsSample ==
  ASSUME TypeInv, TypeInv', SlotsInv, SampleLast \/ SampleToken \/ SampleNone
  PROVE  SlotsInv'
<1>1. /\ mpc = "sample" /\ UNCHANGED <<hand, nEmpty>> /\ batch' = batch \ {cur}
      /\ \/ cur < NSlots /\ cur' = cur + 1 /\ mpc' = "sample"
         \/ cur = NSlots /\ cur' = 1 /\ mpc' = "take"
  BY SlotFacts, NextSlotTypes DEF SampleLast, SampleToken, SampleNone
<1>2. /\ \A k \in Slots \ {cur} : Kept(k)
      /\ \/ Kept(cur) /\ ~HasLogits(cur)
         \/ HasLogits(cur) /\ Freed(cur)
         \/ HasLogits(cur) /\ slot'[cur].task = slot[cur].task /\ slot'[cur].state = "generating"
  <2>1. CASE SampleLast
    BY <2>1, FreedOne, SlotFacts DEF SampleLast
  <2>2. CASE SampleToken
    <3>1. /\ \A k \in Slots \ {cur} : slot'[k] = slot[k]
          /\ slot'[cur].task = slot[cur].task /\ slot'[cur].state = "generating"
      BY <2>2, SlotFacts DEF SampleToken, TypeInv, TypeOK
    <3> QED
      BY <2>2, <3>1 DEF SampleToken, Kept
  <2>3. CASE SampleNone
    BY <2>3 DEF SampleNone, Kept
  <2> QED
    BY <2>1, <2>2, <2>3
<1>3. HasLogits(cur) => HasTokens(cur)
  BY DEF HasLogits, HasTokens
<1>4. DoneInBatch'
  <2> SUFFICES ASSUME NEW s \in Slots, slot'[s].state = "done"
               PROVE  s # cur /\ s \in batch /\ cur <= s
    BY <1>1, SlotFacts DEF DoneInBatch
  <2>1. s # cur
    BY <1>1, <1>2 DEF SlotsInv, DoneInBatch, HasLogits, Freed, Kept
  <2> QED
    BY <1>1, <1>2, <2>1 DEF SlotsInv, DoneInBatch, Kept
\* The parent of a child that still waits has no tokens.
<1>5. ParentWorks'
  <2> SUFFICES ASSUME NEW k \in Slots, slot'[k].state = "wait_other"
               PROVE  \E p \in Slots : HasWork(p)' /\ slot'[p].task = Parent[slot'[k].task]
    BY DEF ParentWorks
  <2>1. Kept(k) /\ ~Doomed(k)
    BY <1>1, <1>2 DEF Freed, Doomed
  <2>2. PICK p \in Slots : HasWork(p) /\ slot[p].task = Parent[slot[k].task]
    BY <2>1 DEF SlotsInv, ParentWorks, Kept
  <2>3. ~HasTokens(p)
    <3>1. slot[k].state = "wait_other" /\ ~HasTokens(k) /\ slot[k].task \in Tasks
      BY <2>1, SlotFacts DEF Kept, HasTokens, SlotRecord
    <3>2. slot[p].task \in Tasks
      BY <2>2, SlotFacts DEF HasWork, SlotRecord
    <3>3. SameRequest(p, k)
      BY <2>2, <3>1, <3>2, ServerAssumption DEF SameRequest
    <3> QED
      BY <1>1, <3>1, <3>3 DEF SlotsInv, InStep
  <2>4. Kept(p)
    BY <1>2, <1>3, <2>3
  <2> QED
    BY <2>1, <2>2, <2>4 DEF HasWork, Kept
<1>6. InStep'
  <2>1. \A k \in Slots : slot'[k].task # NoTask =>
          slot'[k].task = slot[k].task /\ (HasTokens(k)' <=> HasTokens(k))
    BY <1>2, <1>3 DEF Freed, Kept, HasTokens
  <2>2. ASSUME NEW s \in Slots, NEW k \in Slots, SameRequest(s, k)', HasTokens(s)'
        PROVE  HasTokens(k)'
    <3>1. SameRequest(s, k) /\ HasTokens(s)
      BY <2>1, <2>2 DEF SameRequest
    <3>2. HasTokens(k)
      BY <1>1, <3>1 DEF SlotsInv, InStep
    <3> QED
      BY <2>1, <2>2, <3>2 DEF SameRequest
  <2>3. mpc' # "sample" => \A k \in Slots : slot'[k].state # "done"
    BY <1>1, <1>4 DEF DoneInBatch
  <2>4. ASSUME NEW s \in Slots, slot'[s].task # NoTask
        PROVE  IF IsChild(slot'[s].task)
               THEN slot'[s].state \in {"wait_other", "generating", "done"}
               ELSE slot'[s].state # "wait_other"
    <3>1. CASE Kept(s)
      BY <1>1, <2>4, <3>1 DEF SlotsInv, InStep, Kept
    <3>2. CASE ~Kept(s)
      BY <1>2, <2>4, <3>2 DEF Freed
    <3> QED
      BY <3>1, <3>2
  <2>5. CASE mpc' = "sample"
    BY <2>2, <2>4, <2>5 DEF InStep
  <2>6. CASE mpc' # "sample"
    <3>1. \A k \in Slots : HasTokens(k)' <=> slot'[k].state = "generating"
      BY <2>3, <2>6 DEF HasTokens
    <3> QED
      BY <2>2, <2>3, <2>4, <2>6, <3>1 DEF InStep
  <2> QED
    BY <2>5, <2>6
<1>7. FailClears' /\ EmptyMeans'
  BY <1>1 DEF FailClears, EmptyMeans
<1>8. CountsOnce'
  <2>1. Free = Slots => OnlyFreed
    BY <1>2 DEF Free, IsProcessing, HasLogits, OnlyFreed
  <2> QED
    BY <1>1, <2>1, FreeGrows DEF SlotsInv, CountsOnce
<1> QED
  BY <1>4, <1>5, <1>6, <1>7, <1>8 DEF SlotsInv

\* The slots have none of the tasks of a request whose task is pending.
LEMMA Family ==
  ASSUME OneRoot, HomeInv, NEW t \in Tasks, Pending(t), NEW s \in Slots, slot[s].task # NoTask
  PROVE  Owner[slot[s].task] # Owner[t]
<1> SUFFICES ASSUME Owner[slot[s].task] = Owner[t] PROVE FALSE
  OBVIOUS
<1>1. PICK u \in Tasks : u = slot[s].task
  BY SlotTask DEF HomeInv, TypeInv, MainFits
<1>2. ~IsChild(t) /\ u # t /\ u \notin Children(t) /\ InSlot(u)
  BY <1>1 DEF HomeInv, ChildrenWait, OnePlace, Pending, InSlot
<1>3. CASE ~IsChild(u)
  BY <1>1, <1>2, <1>3 DEF OneRoot
<1>4. CASE IsChild(u)
  <2>1. Parent[u] \in Tasks /\ Owner[Parent[u]] = Owner[u] /\ ~IsChild(Parent[u])
    BY <1>4, ServerAssumption DEF IsChild
  <2>2. Parent[u] = t
    BY <1>1, <1>2, <2>1 DEF OneRoot
  <2> QED
    BY <1>1, <1>2, <2>2 DEF Children
<1> QED
  BY <1>3, <1>4

\* What a launch leaves of the slots: a request is in the slots as a whole or not.
LEMMA SlotsLaunched ==
  ASSUME OneRoot, HomeInv, SlotsInv, mpc = "have", mpc' \in {"take", "unlaunch"},
         NEW t \in Tasks, hand = Run(t),
         NEW K \in SUBSET Free, NEW f \in [K -> {t} \cup Children(t)], Placed(K, f)
  PROVE  /\ InStep' /\ DoneInBatch' /\ FailClears' /\ EmptyMeans'
         /\ \A k \in K : slot'[k] = Occupied(f[k]) /\ slot[k].state = "idle"
         /\ \A k \in Slots \ K : slot'[k] = slot[k]
         /\ \A k \in K : f[k] \in Tasks /\ (f[k] # t => Parent[f[k]] = t)
<1>1. Pending(t) /\ TypeInv
  BY DEF Pending, HomeInv
<1>2. /\ \A k \in K : slot'[k] = Occupied(f[k]) /\ slot[k].state = "idle"
      /\ \A k \in Slots \ K : slot'[k] = slot[k]
  BY FreeSlots DEF Placed
<1>3. \A k \in K : /\ f[k] \in Tasks /\ Owner[f[k]] = Owner[t] /\ (f[k] # t => Parent[f[k]] = t)
                   /\ f[k] # NoTask
  <2>1. \A u \in {t} \cup Children(t) :
          u \in Tasks /\ Owner[u] = Owner[t] /\ (u # t => Parent[u] = t) /\ u # NoTask
    BY ServerAssumption DEF Children
  <2> QED
    BY <2>1
<1>4. \A k \in K : /\ slot'[k].task = f[k]
                   /\ slot'[k].state = IF IsChild(f[k]) THEN "wait_other" ELSE "started"
  BY <1>2, <1>3, SlotRecords
<1>5. \A k \in Slots \ K : slot[k].task # NoTask => Owner[slot[k].task] # Owner[t]
  BY <1>1, Family
<1>6. InStep'
  <2>1. ASSUME NEW s \in Slots, slot'[s].task # NoTask
        PROVE  IF IsChild(slot'[s].task) THEN slot'[s].state \in {"wait_other", "generating"}
               ELSE slot'[s].state # "wait_other"
    <3>1. CASE s \in K
      BY <1>4, <3>1
    <3>2. CASE s \notin K
      BY <1>2, <2>1, <3>2 DEF SlotsInv, InStep
    <3> QED
      BY <3>1, <3>2
  <2>2. ASSUME NEW s \in Slots, NEW k \in Slots, SameRequest(s, k)', slot'[s].state = "generating"
        PROVE  slot'[k].state = "generating"
    <3>1. s \notin K /\ slot'[s] = slot[s]
      BY <1>2, <1>4, <2>2
    <3>2. k \notin K
      BY <1>3, <1>4, <1>5, <2>2, <3>1 DEF SameRequest
    <3>3. slot'[k] = slot[k]
      BY <1>2, <3>2
    <3> QED
      BY <2>2, <3>1, <3>3 DEF SlotsInv, InStep, SameRequest
  <2> QED
    BY <2>1, <2>2 DEF InStep
<1>7. DoneInBatch'
  <2>1. \A s \in Slots : slot[s].state # "done"
    BY DEF SlotsInv, DoneInBatch
  <2>2. ASSUME NEW s \in Slots PROVE slot'[s].state # "done"
    BY <1>2, <1>4, <2>1
  <2> QED
    BY <2>2 DEF DoneInBatch
<1>8. FailClears' /\ EmptyMeans'
  BY DEF FailClears, EmptyMeans
<1> QED
  BY <1>2, <1>3, <1>6, <1>7, <1>8

LEMMA SlotsLaunch ==
  ASSUME OneRoot, HomeInv, TypeInv', SlotsInv, Launch
  PROVE  SlotsInv'
<1>1. PICK t \in Tasks, K \in SUBSET Free :
        /\ mpc = "have" /\ hand = Run(t)
        /\ \E f \in [K -> {t} \cup Children(t)] : Placed(K, f) /\ \E k \in K : f[k] = t
  BY LaunchStep DEF InHand
<1>2. PICK f \in [K -> {t} \cup Children(t)] : Placed(K, f) /\ \E k \in K : f[k] = t
  BY <1>1
<1>3. mpc' = "take" /\ nEmpty' = 0
  BY DEF Launch, TaskDone, Goto
<1>4. /\ InStep' /\ DoneInBatch' /\ FailClears' /\ EmptyMeans'
      /\ \A k \in K : slot'[k] = Occupied(f[k]) /\ slot[k].state = "idle"
      /\ \A k \in Slots \ K : slot'[k] = slot[k]
      /\ \A k \in K : f[k] \in Tasks /\ (f[k] # t => Parent[f[k]] = t)
  BY <1>1, <1>2, <1>3, SlotsLaunched
<1>5. ParentWorks'
  <2> SUFFICES ASSUME NEW k \in Slots, slot'[k].state = "wait_other"
               PROVE  \E p \in Slots : HasWork(p)' /\ slot'[p].task = Parent[slot'[k].task]
    BY DEF ParentWorks
  <2>1. ~IsChild(t)
    BY <1>1 DEF HomeInv, ChildrenWait
  <2>2. CASE k \in K
    <3>1. PICK p \in K : f[p] = t
      BY <1>2
    <3>2. slot'[p].task = t /\ slot'[p].state = "started" /\ p \in Slots
      BY <1>4, <2>1, <3>1, SlotRecords, FreeSlots
    <3>3. slot'[k].task = f[k] /\ f[k] # t
      BY <1>4, <2>1, <2>2, SlotRecords
    <3> QED
      BY <1>4, <2>2, <3>2, <3>3 DEF HasWork
  <2>3. CASE k \notin K
    <3>1. slot[k].state = "wait_other" /\ ~Doomed(k) /\ slot'[k] = slot[k]
      BY <1>1, <1>4, <2>3 DEF Doomed
    <3>2. PICK p \in Slots : HasWork(p) /\ slot[p].task = Parent[slot[k].task]
      BY <3>1 DEF SlotsInv, ParentWorks
    <3>3. slot'[p] = slot[p]
      BY <1>4, <3>2 DEF HasWork
    <3> QED
      BY <3>1, <3>2, <3>3 DEF HasWork
  <2> QED
    BY <2>2, <2>3
<1>6. CountsOnce'
  BY <1>3 DEF CountsOnce
<1> QED
  BY <1>4, <1>5, <1>6 DEF SlotsInv

LEMMA SlotsLaunchFails ==
  ASSUME OneRoot, HomeInv, TypeInv', SlotsInv, LaunchFails
  PROVE  SlotsInv'
<1>1. PICK t \in Tasks, K \in SUBSET Free :
        /\ mpc = "have" /\ hand = Run(t)
        /\ \E f \in [K -> Children(t)] : Placed(K, f)
        /\ nEmpty' \in {nEmpty, 0} /\ (nEmpty' # 0 => K = {})
  BY LaunchFailsStep DEF InHand
<1>2. PICK f \in [K -> Children(t)] : Placed(K, f)
  BY <1>1
<1>3. mpc' = "unlaunch" /\ cur' = 1 /\ hand' = hand
  BY DEF LaunchFails, Scan
<1>4. /\ InStep' /\ DoneInBatch' /\ FailClears' /\ EmptyMeans'
      /\ \A k \in K : slot'[k] = Occupied(f[k]) /\ slot[k].state = "idle"
      /\ \A k \in Slots \ K : slot'[k] = slot[k]
      /\ \A k \in K : f[k] \in Tasks /\ (f[k] # t => Parent[f[k]] = t)
  <2>1. f \in [K -> {t} \cup Children(t)]
    OBVIOUS
  <2> QED
    BY <1>1, <1>2, <1>3, <2>1, SlotsLaunched
<1>5. ParentWorks'
  <2> SUFFICES ASSUME NEW k \in Slots, slot'[k].state = "wait_other"
               PROVE  \/ Doomed(k)'
                      \/ \E p \in Slots : HasWork(p)' /\ slot'[p].task = Parent[slot'[k].task]
    BY DEF ParentWorks
  <2>1. CASE k \in K
    <3>1. slot'[k].task = f[k] /\ Parent[f[k]] = t /\ cur' <= k
      BY <1>3, <1>4, <2>1, SlotRecords, FreeSlots DEF Children, Slots
    <3> QED
      BY <1>1, <1>3, <3>1 DEF Doomed
  <2>2. CASE k \notin K
    <3>1. slot[k].state = "wait_other" /\ ~Doomed(k) /\ slot'[k] = slot[k]
      BY <1>1, <1>4, <2>2 DEF Doomed
    <3>2. PICK p \in Slots : HasWork(p) /\ slot[p].task = Parent[slot[k].task]
      BY <3>1 DEF SlotsInv, ParentWorks
    <3>3. slot'[p] = slot[p]
      BY <1>4, <3>2 DEF HasWork
    <3> QED
      BY <3>1, <3>2, <3>3 DEF HasWork
  <2> QED
    BY <2>1, <2>2
<1>6. CountsOnce'
  <2>1. nEmpty' # 0 => nEmpty' = nEmpty /\ \A k \in Slots : slot'[k] = slot[k]
    BY <1>1, <1>4
  <2> QED
    BY <1>3, <2>1 DEF SlotsInv, CountsOnce, Free, IsProcessing
<1> QED
  BY <1>4, <1>5, <1>6 DEF SlotsInv
-----------------------------------------------------------------------------
(* What is left of a request that is cancelled.                            *)

\* The main thread cancels only what it was asked to.
LEMMA CancelsKept ==
  ASSUME TypeInv, Drops \/ TakeTask \/ Defer \/ Launch \/ LaunchFails, NEW t \in Tasks, InCancel(t)'
  PROVE  InCancel(t)
<1>1. queue \in Seq(Entries) /\ Cancel(t) # NoEntry
  BY TaskEntries DEF TypeInv, TypeOK, NoEntry
<1>2. CASE TakeTask
  <2>1. \A x : Within(queue, x) <=> x = Head(queue) \/ Within(Tail(queue), x)
    BY <1>1, <1>2, TakenFirst DEF TakeTask
  <2> QED
    BY <1>2, <2>1 DEF TakeTask, InCancel
<1>3. CASE Defer \/ Launch \/ LaunchFails
  BY <1>1, <1>3 DEF Defer, Launch, LaunchFails, TaskDone, InCancel
<1>4. CASE Drops
  <2>1. hand' = Cancel(t) => hand = Cancel(t)
    BY <1>1, <1>4 DEF Drops
  <2>2. Within(queue', Cancel(t)) => Within(queue, Cancel(t))
    <3>1. CASE queue' = Append(queue, NextResponse)
      <4>1. NextResponse \in Entries /\ Cancel(t) # NextResponse
        BY TaskEntries DEF Entries, NextResponse
      <4> QED
        BY <1>1, <3>1, <4>1, Appended
    <3>2. CASE \E s \in Slots : PopDeferred(s)
      <4>1. \A d \in Tasks : Cancel(t) # Run(d)
        BY TaskEntries
      <4> QED
        BY <3>2, <4>1, Popped DEF TypeInv
    <3>3. CASE UNCHANGED queue
      BY <3>3
    <3> QED
      BY <1>4, <3>1, <3>2, <3>3 DEF Drops, QueuesMove
  <2> QED
    BY <2>1, <2>2 DEF InCancel
<1> QED
  BY <1>2, <1>3, <1>4

\* A request fails when an error is sent.
LEMMA FailedAfter ==
  ASSUME TypeInv, NEW e \in Tasks, NEW kind \in {"partial", "final", "error"}, Send(e, kind),
         rpc' = rpc, NEW r \in Requests, Failed(r)'
  PROVE  Failed(r) \/ (kind = "error" /\ r = Owner[e])
<1>1. CASE results' = results
  BY <1>1 DEF Failed
<1>2. CASE results' # results
  <2> DEFINE m == [task |-> e, kind |-> kind]
  <2>1. results' = Append(results, m) /\ results \in Seq(Results) /\ m \in Results
    BY <1>2, ResultsTyped DEF Send, Results
  <2>2. m.task = e /\ m.kind = kind
    OBVIOUS
  <2> HIDE DEF m
  <2>3. \A i \in DOMAIN results' :
          (i \in DOMAIN results /\ results'[i] = results[i]) \/ results'[i] = m
    BY <2>1
  <2> QED
    BY <2>2, <2>3 DEF Failed
<1> QED
  BY <1>1, <1>2

\* What the main thread is about to release, it releases next.
LEMMA DoomedKept ==
  ASSUME TypeInv, FailClears, OtherStep, NEW k \in Slots, Doomed(k), slot'[k].task # NoTask
  PROVE  slot'[k].task = slot[k].task /\ Doomed(k)'
<1>1. CASE mpc = "fail"
  <2>1. FailSlot
    BY <1>1 DEF OtherStep, WakeUp, LaunchUndo, Answer, InHand, CancelTask, IgnoreNext, UpdateSlots,
                AllIdle, StartUpdate, AddGenerating, NoPromptsNow, AddPrompt, RefusePrompt,
                SkipPrompt, PromptTurn, EmptyBatch, Decode, DecodeFails, SampleLast, SampleToken,
                SampleNone
  <2>2. \/ cur < NSlots /\ cur' = cur + 1 /\ mpc' = "fail"
        \/ cur = NSlots
    BY <1>1, <2>1, SlotFacts, NextSlotTypes DEF FailSlot
  <2>3. /\ slot'[cur].task = NoTask
        /\ \A j \in Slots \ {cur} : slot'[j].task = slot[j].task
    <3>1. CASE IsProcessing(cur)
      BY <2>1, <3>1, SlotFacts, FreedOne DEF FailSlot, Freed, Kept
    <3>2. CASE ~IsProcessing(cur)
      BY <2>1, <3>2, SlotFacts DEF FailSlot, IsProcessing
    <3> QED
      BY <3>1, <3>2
  <2>4. k # cur /\ cur <= k
    BY <1>1, <2>3 DEF Doomed
  <2> QED
    BY <2>2, <2>3, <2>4, SlotFacts DEF Doomed
<1>2. CASE mpc = "unlaunch"
  <2>1. LaunchUndo
    BY <1>2 DEF OtherStep, WakeUp, FailSlot, Answer, InHand, CancelTask, IgnoreNext, UpdateSlots,
                AllIdle, StartUpdate, AddGenerating, NoPromptsNow, AddPrompt, RefusePrompt,
                SkipPrompt, PromptTurn, EmptyBatch, Decode, DecodeFails, SampleLast, SampleToken,
                SampleNone
  <2>2. /\ \/ cur < NSlots /\ cur' = cur + 1 /\ mpc' = "unlaunch"
           \/ cur = NSlots
        /\ cur # NSlots => hand' = hand
    BY <1>2, <2>1, SlotFacts, NextSlotTypes DEF LaunchUndo
  <2>3. hand = Run(Parent[slot[k].task]) /\ cur <= k
    BY <1>2 DEF Doomed
  <2>4. /\ slot[cur].task \in Children(hand.task) => slot'[cur].task = NoTask
        /\ slot'[k].task # NoTask => slot'[k].task = slot[k].task
    <3>1. CASE slot[cur].task \in Children(hand.task)
      BY <2>1, <3>1, SlotFacts, FreedOne DEF LaunchUndo, Freed, Kept
    <3>2. CASE slot[cur].task \notin Children(hand.task)
      BY <2>1, <3>2 DEF LaunchUndo
    <3> QED
      BY <3>1, <3>2
  <2>5. slot[k].task \in Tasks /\ slot'[k].task = slot[k].task
    BY <2>4, SlotFacts DEF SlotRecord
  <2>6. slot[k].task \in Children(hand.task)
    BY <2>3, <2>5 DEF Children, Run
  <2> QED
    BY <2>2, <2>3, <2>4, <2>5, <2>6, SlotFacts DEF Doomed
<1> QED
  BY <1>1, <1>2 DEF Doomed

\* A slot that generates goes on generating, or is released.
LEMMA GoesOn ==
  ASSUME TypeInv, OtherStep, NEW k \in Slots, slot'[k].task # NoTask, slot[k].state = "generating"
  PROVE  slot'[k].task = slot[k].task /\ slot'[k].state = "generating"
<1>1. ASSUME NEW s \in Slots, Release(s) PROVE slot'[k] = slot[k]
  BY <1>1, ReleaseTypes, SlotRecords
<1>2. CASE UNCHANGED slot
  BY <1>2
<1>3. CASE AddPrompt
  BY <1>3, SlotFacts DEF AddPrompt, HasPrompt, TypeInv, TypeOK
<1>4. CASE Decode
  BY <1>4 DEF Decode
<1>5. CASE SampleToken
  BY <1>5, SlotFacts DEF SampleToken, SlotRecord, TypeInv, TypeOK
<1> QED
  BY <1>1, <1>2, <1>3, <1>4, <1>5, SlotFacts
  DEF OtherStep, WakeUp, LaunchUndo, Answer, CancelTask, IgnoreNext, UpdateSlots, AllIdle,
      StartUpdate, AddGenerating, NoPromptsNow, RefusePrompt, SkipPrompt, EmptyBatch, DecodeFails,
      FailSlot, SampleLast, SampleNone

\* A request fails when the context of one of its slots is full, and they all generate, or
\* when llama_decode has failed, and they are all about to be released.
LEMMA FailedMain ==
  ASSUME TypeInv, TypeInv', SlotsInv, OneFamily, OtherStep, rpc' = rpc,
         NEW s \in Slots, slot'[s].task # NoTask, slot'[s].task = slot[s].task,
         Failed(Owner[slot[s].task])'
  PROVE  Failed(Owner[slot[s].task]) \/ Remains(s)'
<1>1. /\ slot[s].task \in Tasks /\ Owner[slot[s].task] \in Requests
      /\ slot[cur].state # "idle" => slot[cur].task \in Tasks
  BY SlotFacts, ServerAssumption DEF SlotRecord
<1>2. ASSUME results' = results PROVE Failed(Owner[slot[s].task])
  BY <1>2 DEF Failed
<1>3. CASE Answer
  BY <1>1, <1>3, FailedAfter DEF Answer, OneFamily
<1>4. CASE AddGenerating
  <2>1. CASE results' = results
    BY <1>2, <2>1
  <2>2. CASE slot[cur].state = "generating" /\ Send(slot[cur].task, "error") /\ Release(cur)
    <3>1. Failed(Owner[slot[s].task]) \/ Owner[slot[s].task] = Owner[slot[cur].task]
      BY <1>1, <2>2, FailedAfter
    <3>2. CASE Owner[slot[s].task] = Owner[slot[cur].task]
      <4>1. SameRequest(cur, s) /\ mpc # "sample"
        BY <1>1, <1>4, <2>2, <3>2, ServerAssumption DEF SameRequest, AddGenerating
      <4>2. slot[s].state = "generating"
        BY <2>2, <4>1, SlotFacts DEF SlotsInv, InStep
      <4> QED
        BY <1>4, <4>2, GoesOn DEF Remains
    <3> QED
      BY <3>1, <3>2
  <2> QED
    BY <1>4, <2>1, <2>2 DEF AddGenerating
<1>5. CASE FailSlot
  <2>1. cur <= s
    <3>1. slot[s].state # "idle" /\ mpc = "fail"
      BY <1>1, <1>5, SlotFacts, ServerAssumption DEF FailSlot
    <3> QED
      BY <3>1, SlotFacts DEF SlotsInv, FailClears
  <2>2. Doomed(s)
    BY <1>5, <2>1 DEF FailSlot, Doomed
  <2> QED
    BY <2>2, DoomedKept DEF SlotsInv, Remains
<1>6. CASE SampleLast \/ SampleToken
  BY <1>1, <1>6, FailedAfter DEF SampleLast, SampleToken, HasLogits
<1>7. CASE results' = results
  BY <1>2, <1>7
<1> QED
  BY <1>3, <1>4, <1>5, <1>6, <1>7
  DEF OtherStep, UpdateSlots, WakeUp, LaunchUndo, CancelTask, IgnoreNext, AllIdle, StartUpdate,
      NoPromptsNow, AddPrompt, RefusePrompt, SkipPrompt, EmptyBatch, Decode, DecodeFails, SampleNone,
      OneFamily

LEMMA CancelsAre ==
  /\ \A r : Cancelled(r) <=> Failed(r) \/ \E t \in TasksOf(r) : InCancel(t)
  /\ \A t \in Tasks : \A r : t \in TasksOf(r) <=> Owner[t] = r
  /\ CancelledRuns <=>
       /\ \A t \in Tasks : Cancelled(Owner[t]) => ~Pending(t)
       /\ \A s \in Slots : slot[s].task # NoTask /\ Cancelled(Owner[slot[s].task]) => Remains(s)
BY DEF Cancelled, TasksOf, CancelledRuns

LEMMA CancelsAreNext ==
  /\ \A r : Cancelled(r)' <=> Failed(r)' \/ \E t \in TasksOf(r) : InCancel(t)'
  /\ CancelledRuns' <=>
       /\ \A t \in Tasks : Cancelled(Owner[t])' => ~Pending(t)'
       /\ \A s \in Slots : slot'[s].task # NoTask /\ Cancelled(Owner[slot[s].task])' => Remains(s)'
BY DEF Cancelled, TasksOf, CancelledRuns

\* Nothing becomes pending for a request that is cancelled.
LEMMA CancelledPending ==
  ASSUME OneRoot, HomeInv, HomeInv', Onward, Sends, UNCHANGED rpc, CancelledRuns,
         \A t \in Tasks : InCancel(t)' => InCancel(t),
         NEW t \in Tasks, Cancelled(Owner[t])'
  PROVE  ~Pending(t)'
<1>1. Settled
  BY CancelsAre DEF Settled
<1>2. Settled' /\ TypeInv
  BY <1>1, SettledMain DEF HomeInv
<1>3. CASE Failed(Owner[t])'
  BY <1>2, <1>3 DEF Settled
<1>4. CASE ~Failed(Owner[t])'
  <2>1. Cancelled(Owner[t])
    BY <1>4, CancelsAre, CancelsAreNext DEF TasksOf
  <2> QED
    BY <2>1, CancelsAre DEF Onward
<1> QED
  BY <1>3, <1>4

LEMMA CancelledOther ==
  ASSUME OneFamily, ChildInv, ResultInv', SlotsInv', Onward, Sends, UNCHANGED rpc, OtherStep
  PROVE  CancelledRuns'
<1>1. /\ OneRoot /\ HomeInv /\ HomeInv' /\ TypeInv /\ TypeInv' /\ Drops
      /\ CancelledRuns /\ SlotsInv /\ FailClears
  BY Dropping DEF OneFamily, ChildInv, ResultInv, HomeInv, SlotsInv
<1>2. \A t \in Tasks : InCancel(t)' => InCancel(t)
  BY <1>1, CancelsKept
<1>3. \A t \in Tasks : Cancelled(Owner[t])' => ~Pending(t)'
  BY <1>1, <1>2, CancelledPending
<1>4. ASSUME NEW s \in Slots, slot'[s].task # NoTask, Cancelled(Owner[slot[s].task])'
      PROVE  Remains(s)'
  <2>1. slot'[s].task = slot[s].task /\ slot[s].task # NoTask
    BY <1>1, <1>4 DEF Drops
  <2>2. CASE Remains(s)
    BY <1>1, <1>4, <2>2, GoesOn, DoomedKept DEF Remains
  <2>3. CASE Failed(Owner[slot[s].task])' /\ ~Failed(Owner[slot[s].task])
    BY <1>1, <1>4, <2>1, <2>3, FailedMain
  <2>4. CASE ~Failed(Owner[slot[s].task])' \/ Failed(Owner[slot[s].task])
    <3>1. Cancelled(Owner[slot[s].task])
      BY <1>2, <1>4, <2>1, <2>4, CancelsAre, CancelsAreNext DEF TasksOf
    <3>2. Remains(s)
      BY <1>1, <2>1, <3>1, CancelsAre
    <3> QED
      BY <2>2, <3>2
  <2> QED
    BY <2>3, <2>4
<1> QED
  BY <1>3, <1>4, CancelsAreNext

LEMMA CancelledTask ==
  ASSUME OneFamily, ChildInv, ResultInv', Onward, Sends, UNCHANGED rpc,
         TakeTask \/ Defer \/ Launch \/ LaunchFails
  PROVE  CancelledRuns'
<1>1. OneRoot /\ HomeInv /\ HomeInv' /\ TypeInv /\ TypeInv' /\ CancelledRuns /\ SlotsInv
  BY DEF OneFamily, ChildInv, ResultInv, HomeInv
<1>2. \A t \in Tasks : InCancel(t)' => InCancel(t)
  BY <1>1, CancelsKept
<1>3. \A t \in Tasks : Cancelled(Owner[t])' => ~Pending(t)'
  BY <1>1, <1>2, CancelledPending
<1>4. \A s \in Slots : mpc \in {"take", "have"} => ~Doomed(s)
  BY DEF Doomed
\* What is new in the slots was pending.
<1>5. ASSUME NEW s \in Slots, slot'[s].task # NoTask, Cancelled(Owner[slot[s].task])'
      PROVE  Remains(s)'
  <2>1. ASSUME results' = results, NEW u \in Tasks, Owner[u] = Owner[slot'[s].task]
        PROVE  Cancelled(Owner[u])
    BY <1>2, <1>5, <2>1, CancelsAre, CancelsAreNext DEF Failed, TasksOf
  <2>2. slot'[s].task \in Tasks
    BY <1>1, <1>5 DEF TypeInv, TypeOK
  <2>3. CASE TakeTask \/ Defer
    <3>1. slot'[s] = slot[s] /\ results' = results /\ mpc \in {"take", "have"}
      BY <2>3 DEF TakeTask, Defer, InHand
    <3>2. Cancelled(Owner[slot[s].task])
      BY <2>1, <2>2, <3>1
    <3> QED
      BY <1>1, <1>4, <1>5, <3>1, <3>2, CancelsAre DEF Remains
  <2>4. CASE Launch
    <3>1. PICK t \in Tasks, K \in SUBSET Free :
            /\ mpc = "have" /\ hand = Run(t)
            /\ \E f \in [K -> {t} \cup Children(t)] : Placed(K, f)
      BY <2>4, LaunchStep DEF InHand
    <3>2. PICK f \in [K -> {t} \cup Children(t)] : Placed(K, f)
      BY <3>1
    <3>3. mpc' = "take" /\ results' = results
      BY <2>4 DEF Launch, TaskDone, Goto
    <3>4. /\ \A k \in K : slot'[k] = Occupied(f[k])
          /\ \A k \in Slots \ K : slot'[k] = slot[k]
          /\ \A k \in K : f[k] \in Tasks /\ (f[k] # t => Parent[f[k]] = t)
      BY <1>1, <3>1, <3>2, <3>3, SlotsLaunched
    <3>5. s \notin K
      <4> SUFFICES ASSUME s \in K PROVE FALSE
        OBVIOUS
      <4>1. slot'[s].task = f[s] /\ f[s] \in Tasks /\ Owner[f[s]] = Owner[t]
        <5>1. slot'[s].task = f[s] /\ f[s] \in Tasks
          BY <3>4, SlotRecords
        <5>2. f[s] # t => Parent[f[s]] = t
          BY <3>4
        <5> QED
          BY <5>1, <5>2, ServerAssumption
      <4>2. Cancelled(Owner[t]) /\ Pending(t)
        BY <2>1, <3>1, <3>3, <4>1 DEF Pending
      <4> QED
        BY <1>1, <4>2, CancelsAre
    <3>6. Cancelled(Owner[slot[s].task]) /\ slot'[s] = slot[s]
      BY <2>1, <2>2, <3>3, <3>4, <3>5
    <3> QED
      BY <1>1, <1>4, <1>5, <3>1, <3>6, CancelsAre DEF Remains
  <2>5. CASE LaunchFails
    <3>1. PICK t \in Tasks, K \in SUBSET Free :
            /\ mpc = "have" /\ hand = Run(t)
            /\ \E f \in [K -> Children(t)] : \E e \in {t} \cup Children(t) :
                 Placed(K, f) /\ Send(e, "error")
      BY <2>5, LaunchFailsStep DEF InHand
    <3>2. PICK f \in [K -> Children(t)], e \in {t} \cup Children(t) :
            Placed(K, f) /\ Send(e, "error")
      BY <3>1
    <3>3. mpc' = "unlaunch" /\ cur' = 1 /\ hand' = hand
      BY <2>5 DEF LaunchFails, Scan
    <3>4. /\ \A k \in K : slot'[k] = Occupied(f[k])
          /\ \A k \in Slots \ K : slot'[k] = slot[k]
          /\ \A k \in K : f[k] \in Tasks /\ (f[k] # t => Parent[f[k]] = t)
      <4>1. f \in [K -> {t} \cup Children(t)]
        OBVIOUS
      <4> QED
        BY <1>1, <3>1, <3>2, <3>3, <4>1, SlotsLaunched
    <3>5. CASE s \in K
      <4>1. slot'[s].task = f[s] /\ Parent[f[s]] = t /\ cur' <= s
        BY <3>3, <3>4, <3>5, SlotRecords DEF Children, Slots
      <4> QED
        BY <3>1, <3>3, <4>1 DEF Remains, Doomed
    <3>6. CASE s \notin K
      <4>1. slot'[s] = slot[s] /\ slot[s].task # NoTask
        BY <1>5, <3>4, <3>6
      <4>2. Pending(t) /\ Owner[slot[s].task] # Owner[t]
        BY <1>1, <3>1, <4>1, Family DEF Pending
      <4>3. e \in Tasks /\ Owner[e] = Owner[t] /\ Owner[slot[s].task] \in Requests
        BY <2>2, <4>1, ServerAssumption DEF Children
      <4>4. Failed(Owner[slot[s].task])' => Failed(Owner[slot[s].task])
        <5>1. PICK r \in Requests : r = Owner[slot[s].task]
          BY <4>3
        <5>2. Failed(r)' => Failed(r)
          BY <1>1, <3>2, <4>2, <4>3, <5>1, FailedAfter
        <5> QED
          BY <4>1, <5>1, <5>2
      <4>5. Cancelled(Owner[slot[s].task])
        BY <1>2, <1>5, <4>1, <4>4, CancelsAre, CancelsAreNext DEF TasksOf
      <4> QED
        BY <1>1, <1>4, <3>1, <4>1, <4>5, CancelsAre DEF Remains
    <3> QED
      BY <3>5, <3>6
  <2> QED
    BY <2>3, <2>4, <2>5
<1> QED
  BY <1>3, <1>5, CancelsAreNext

\* What a reader puts in the queue: its tasks, before that nothing was cancelled, or
\* their cancellations, after an error.
LEMMA ReaderQueue ==
  ASSUME TypeInv, NEW r \in Requests, Reader(r) \/ Disconnect(r), NEW t \in Tasks, InCancel(t)'
  PROVE  InCancel(t) \/ (PostCancels(r) /\ Owner[t] = r)
<1>1. queue \in Seq(Entries) /\ TasksOf(r) \in SUBSET Tasks /\ Cancel(t) \in Entries
  BY TaskEntries DEF TypeInv, TypeOK, TasksOf
<1>2. hand' = hand
  BY DEF Reader, Register, PostTasks, Receive, Finish, Disconnect, Unregister,
         DropResults, PostCancels, mainVars
<1>3. CASE UNCHANGED queue
  BY <1>2, <1>3 DEF InCancel
<1>4. CASE PostTasks(r)
  <2>1. PICK o \in Orders({u \in TasksOf(r) : ~IsChild(u)}) :
          LET entries == [i \in DOMAIN o |-> Run(o[i])]
          IN  queue' = IF \A u \in TasksOf(r) : Kind[u] = "ctrl"
                       THEN entries \o queue ELSE queue \o entries
    BY <1>4 DEF PostTasks
  <2> DEFINE entries == [i \in DOMAIN o |-> Run(o[i])]
  <2>2. {u \in TasksOf(r) : ~IsChild(u)} \in SUBSET Tasks
    BY <1>1
  <2>3. /\ entries \in Seq(Entries)
        /\ \A x : Within(entries, x) => \E u \in {u \in TasksOf(r) : ~IsChild(u)} : x = Run(u)
    BY <2>2, OrderedRuns
  <2>4. queue' = entries \o queue \/ queue' = queue \o entries
    BY <2>1
  <2> HIDE DEF entries
  <2>5. Within(queue', Cancel(t)) => Within(entries, Cancel(t)) \/ Within(queue, Cancel(t))
    <3>1. CASE queue' = entries \o queue
      BY <1>1, <2>3, <3>1, Joined
    <3>2. CASE queue' = queue \o entries
      BY <1>1, <2>3, <3>2, Joined
    <3> QED
      BY <2>4, <3>1, <3>2
  <2>6. ~Within(entries, Cancel(t))
    BY <1>1, <2>3, TaskEntries
  <2> QED
    BY <1>2, <2>5, <2>6 DEF InCancel
<1>5. CASE PostCancels(r)
  <2>1. PICK o \in Orders(TasksOf(r)) :
          queue' = [i \in DOMAIN o |-> Cancel(o[i])] \o DropTask(queue, TasksOf(r))
    BY <1>5 DEF PostCancels
  <2> DEFINE entries == [i \in DOMAIN o |-> Cancel(o[i])]
             rest == DropTask(queue, TasksOf(r))
  <2>2. /\ entries \in Seq(Entries)
        /\ \A x : Within(entries, x) => \E u \in TasksOf(r) : x = Cancel(u)
    BY <1>1, OrderedCancels
  <2>3. rest \in Seq(Entries) /\ \A x : Within(rest, x) => Within(queue, x)
    BY <1>1, Fewer DEF DropTask
  <2> HIDE DEF entries, rest
  <2>4. \A x : Within(queue', x) <=> Within(entries, x) \/ Within(rest, x)
    BY <2>1, <2>2, <2>3, Joined DEF entries, rest
  <2>5. Within(entries, Cancel(t)) => Owner[t] = r
    BY <1>1, <2>2, TaskEntries DEF TasksOf
  <2> QED
    BY <1>2, <1>5, <2>3, <2>4, <2>5 DEF InCancel
<1> QED
  BY <1>3, <1>4, <1>5
  DEF Reader, Register, Receive, Finish, Disconnect, Unregister, DropResults

LEMMA CancelledReader ==
  ASSUME OneFamily, ChildInv, ResultInv', NEW r \in Requests, Reader(r) \/ Disconnect(r)
  PROVE  ChildInv'
<1>1. /\ ResultInv /\ HomeInv /\ TypeInv /\ TypeInv' /\ EndedLast /\ CancelsPosted
      /\ CancelledRuns /\ SlotsInv /\ "gone" \notin Faults
      /\ \A t \in Tasks : Owner[t] \in Requests
  BY ServerAssumption DEF OneFamily, ChildInv, ResultInv, HomeInv
<1>2. UNCHANGED mainVars
  BY DEF Reader, Register, PostTasks, Receive, Finish, Disconnect, Unregister,
         DropResults, PostCancels
<1>3. SlotsInv'
  BY <1>1, <1>2 DEF mainVars, SlotsInv, InStep, SameRequest, HasTokens, ParentWorks, Doomed, HasWork,
                    DoneInBatch, FailClears, EmptyMeans, CountsOnce, Free, IsProcessing
<1>4. /\ \A t \in Tasks : Pending(t)' => Pending(t) \/ (PostTasks(r) /\ Owner[t] = r)
      /\ \A q \in Requests : Unposted(q)' => Unposted(q)
  BY <1>1, ReaderOnward
<1>5. PostCancels(r) => Failed(r) /\ ~Unposted(r)
  BY DEF PostCancels, ReaderAt, Failed, Stopping, Unposted
<1>6. CancelsPosted'
  <2> SUFFICES ASSUME NEW t \in Tasks, InCancel(t)' PROVE ~Unposted(Owner[t])'
    BY DEF CancelsPosted, InCancel
  <2>1. InCancel(t) \/ (PostCancels(r) /\ Owner[t] = r)
    BY <1>1, ReaderQueue
  <2>2. ~Unposted(Owner[t])
    BY <1>1, <1>5, <2>1 DEF CancelsPosted, InCancel
  <2> QED
    BY <1>1, <1>4, <2>2
<1>7. ASSUME NEW q \in Requests, Cancelled(q)' PROVE Cancelled(q)
  <2>1. CASE Failed(q)'
    BY <1>1, <2>1, FailedReader, CancelsAre
  <2>2. CASE \E t \in TasksOf(q) : InCancel(t)'
    <3>1. PICK t \in TasksOf(q) : InCancel(t)'
      BY <2>2
    <3>2. t \in Tasks /\ Owner[t] = q
      BY DEF TasksOf
    <3>3. InCancel(t) \/ (PostCancels(r) /\ q = r)
      BY <1>1, <3>1, <3>2, ReaderQueue
    <3> QED
      BY <1>5, <3>1, <3>3, CancelsAre
  <2> QED
    BY <1>7, <2>1, <2>2, CancelsAreNext
\* What is posted now had no result and was not cancelled.
<1>8. ASSUME NEW t \in Tasks, PostTasks(r), Owner[t] = r PROVE ~Cancelled(r)
  <2>1. rpc[r] = "registered"
    BY <1>8 DEF PostTasks, ReaderAt
  <2>2. \A u \in Tasks : Owner[u] = r => ~Ended(u) /\ ~InCancel(u)
    BY <1>1, <2>1 DEF EndedLast, CancelsPosted, Unposted, InCancel
  <2>3. ~Failed(r)
    BY <1>1, <2>1, <2>2, ResultsTyped DEF Failed, Stopping, Ended
  <2> QED
    BY <2>2, <2>3, CancelsAre DEF TasksOf
<1>9. \A t \in Tasks : Cancelled(Owner[t])' => ~Pending(t)'
  <2> SUFFICES ASSUME NEW t \in Tasks, Cancelled(Owner[t])', Pending(t)' PROVE FALSE
    OBVIOUS
  <2>1. Cancelled(Owner[t])
    BY <1>1, <1>7
  <2> QED
    BY <1>1, <1>4, <1>8, <2>1, CancelsAre
<1>10. \A s \in Slots : slot'[s].task # NoTask /\ Cancelled(Owner[slot[s].task])' => Remains(s)'
  <2> SUFFICES ASSUME NEW s \in Slots, slot[s].task # NoTask, Cancelled(Owner[slot[s].task])'
               PROVE  Remains(s)'
    BY <1>2 DEF mainVars
  <2>1. PICK q \in Requests : q = Owner[slot[s].task]
    BY <1>1, SlotFacts, ServerAssumption DEF SlotRecord
  <2>2. Cancelled(q)'
    BY <1>2, <2>1 DEF mainVars
  <2>3. Remains(s)
    BY <1>1, <1>7, <2>1, <2>2, CancelsAre
  <2> QED
    BY <1>2, <2>3 DEF mainVars, Remains, Doomed
<1> QED
  BY <1>3, <1>6, <1>9, <1>10, CancelsAreNext DEF ChildInv

LEMMA SlotsOther ==
  ASSUME OneFamily, ChildInv, TypeInv', OtherStep
  PROVE  SlotsInv'
<1>1. OneRoot /\ HomeInv /\ TypeInv /\ OnePlace /\ CancelledRuns /\ SlotsInv
  BY DEF OneFamily, ChildInv, ResultInv, HomeInv
<1>2. CASE WakeUp \/ Answer \/ IgnoreNext \/ AllIdle \/ StartUpdate
  <2>1. /\ UNCHANGED <<slot, nEmpty>> /\ mpc \in {"take", "have", "wait"}
        /\ \/ mpc' \in {"take", "have", "wait"}
           \/ mpc' = "generate" /\ cur' = 1 /\ Free # Slots
    BY <1>2 DEF WakeUp, Answer, InHand, IgnoreNext, AllIdle, StartUpdate, TaskDone, Goto, Scan
  <2> QED
    BY <1>1, <2>1, SlotsBetween
<1>3. CASE RefusePrompt
  BY <1>3 DEF RefusePrompt, OneFamily
<1> QED
  BY <1>1, <1>2, <1>3, SlotsUndo, SlotsCancel, SlotsGenerate, SlotsPrompt, SlotsAddPrompt,
     SlotsEmptyBatch, SlotsDecode, SlotsDecodeFails, SlotsFail, SlotsSample
  DEF OtherStep, UpdateSlots

LEMMA ChildStep == OneFamily /\ ChildInv /\ [Next]_vars => ChildInv'
<1> SUFFICES ASSUME OneFamily, ChildInv, [Next]_vars PROVE ChildInv'
  OBVIOUS
<1>1. /\ ResultInv /\ ResultInv' /\ HomeInv /\ HomeInv' /\ TypeInv /\ TypeInv' /\ OneRoot
      /\ CancelsPosted /\ CancelledRuns /\ SlotsInv
  BY ResultStep DEF ChildInv, ResultInv, HomeInv, OneFamily
<1>2. ASSUME Drops \/ TakeTask \/ Defer \/ Launch \/ LaunchFails, rpc' = rpc
      PROVE  CancelsPosted'
  BY <1>1, <1>2, CancelsKept DEF CancelsPosted, InCancel, Unposted
<1>3. CASE OtherStep
  <2>1. Drops /\ Onward
    BY <1>1, <1>3, Dropping, HomeKept
  <2>2. Sends /\ rpc' = rpc
    BY <1>1, <1>3, <2>1, OtherSends
  <2>3. SlotsInv'
    BY <1>1, <1>3, SlotsOther
  <2>4. CancelledRuns'
    BY <1>1, <1>3, <2>1, <2>2, <2>3, CancelledOther
  <2> QED
    BY <1>1, <1>2, <2>1, <2>2, <2>3, <2>4 DEF ChildInv
<1>4. CASE TakeTask \/ Defer \/ Launch \/ LaunchFails
  <2>1. Onward
    BY <1>1, <1>4, HomeTake, HomeDefer, HomeLaunch, HomeLaunchFails
  <2>2. Sends /\ rpc' = rpc
    BY <1>1, <1>4, <2>1, TaskSends
  <2>3. SlotsInv'
    <3>1. CASE TakeTask \/ Defer
      <4>1. /\ UNCHANGED <<slot, nEmpty>> /\ mpc \in {"take", "have"}
            /\ mpc' \in {"take", "have"}
        BY <3>1 DEF TakeTask, Defer, InHand, TaskDone, Goto
      <4> QED
        BY <1>1, <4>1, SlotsBetween
    <3> QED
      BY <1>1, <1>4, <3>1, SlotsLaunch, SlotsLaunchFails
  <2>4. CancelledRuns'
    BY <1>1, <1>4, <2>1, <2>2, CancelledTask
  <2> QED
    BY <1>1, <1>2, <1>4, <2>2, <2>3, <2>4 DEF ChildInv
<1>5. CASE \E r \in Requests : Reader(r) \/ Disconnect(r)
  BY <1>1, <1>5, CancelledReader
<1>6. CASE UNCHANGED vars
  BY <1>1, <1>6 DEF vars, mainVars, readerVars, ChildInv, CancelsPosted, CancelledRuns, Cancelled,
       InCancel, Remains,
       Failed, Pending, InQueue, InDeferred, Unposted, SlotsInv, InStep, SameRequest, HasTokens,
       ParentWorks, Doomed, HasWork, DoneInBatch, FailClears, EmptyMeans, CountsOnce, Free,
       IsProcessing
<1> QED
  BY <1>3, <1>4, <1>5, <1>6, Steps DEF ProcessSingleTask, OtherStep

LEMMA ChildStart == Init => ChildInv
<1> SUFFICES ASSUME Init PROVE ChildInv
  OBVIOUS
<1>1. /\ \A t \in Tasks : ~Pending(t) /\ ~InCancel(t)
  BY TaskEntries DEF Init, Pending, InQueue, InDeferred, Within, InCancel, NoEntry
<1>2. \A s \in Slots : slot[s].state = "idle" /\ slot[s].task = NoTask
  BY SlotRecords DEF Init
<1>3. CancelsPosted /\ CancelledRuns
  BY <1>1, <1>2, CancelsAre DEF CancelsPosted, InCancel
<1>4. SlotsInv
  BY <1>2 DEF Init, SlotsInv, InStep, SameRequest, HasTokens, ParentWorks, DoneInBatch, FailClears,
              EmptyMeans, CountsOnce
<1> QED
  BY <1>3, <1>4, ResultStart DEF ChildInv

LEMMA ParentsKept == ChildInv => ChildrenKept
<1> SUFFICES ASSUME ChildInv PROVE ChildrenKept
  OBVIOUS
<1>1. ChildNotOrphaned
  BY DEF ChildInv, SlotsInv, ParentWorks, Doomed, ChildNotOrphaned, ParentInSlot
<1>2. NoAbort
  BY DEF ChildInv, SlotsInv, CountsOnce, NoAbort
<1> QED
  BY <1>1, <1>2 DEF ChildrenKept

\* A child that waits for the prompt of its parent is never forgotten, and the counter of
\* empty batches never aborts the server, as long as each request posts one task, with
\* or without children, no client leaves, and no prompt is empty or refused.
THEOREM ChildrenAreKept ==
  ASSUME OneFamily
  PROVE  Spec => []ChildrenKept
<1>1. ChildInv /\ [Next]_vars => ChildInv'
  BY ChildStep
<1> QED
  BY ChildStart, ParentsKept, <1>1, PTL DEF Spec
=============================================================================
