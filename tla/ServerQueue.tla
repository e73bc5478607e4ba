---------------------------- MODULE ServerQueue ----------------------------
(***************************************************************************)
(* llama-server: the task queue, the response queue and the slots.         *)
(*                                                                         *)
(* One main thread runs server_queue::start_loop: it processes tasks until *)
(* the queue is empty, then runs update_slots once over all slots, then    *)
(* waits for tasks.  Each HTTP request has a thread of its own and a       *)
(* server_response_reader: it registers the ids of its tasks, posts them,  *)
(* and reads results until it has all of them, reads an error, or its      *)
(* client goes away.                                                       *)
(*                                                                         *)
(* Every step is one critical section of mutex_tasks or mutex_results, or  *)
(* one iteration of a loop of the main thread over the slots; `cur' is the *)
(* slot that loop has reached.  A result sent and a slot released by the   *)
(* same iteration are one step.  Tokens are abstracted: a prompt takes one *)
(* or two batches, and generation stops at any token up to MaxTokens.      *)
(***************************************************************************)
EXTENDS Integers, Sequences, FiniteSets, SequencesExt

CONSTANTS
  Requests,     \* HTTP requests, each with its response reader
  Tasks,        \* the tasks they post
  Owner,        \* the request of each task
  Kind,         \* what each task is: see Kinds
  Parent,       \* the parent of a child task (n_cmpl > 1), else NoTask
  Pin,          \* the slot a task asks for (id_slot), 0 for any
  NSlots,       \* -np
  ContBatching, \* -cb
  MaxTokens,    \* bound: tokens a slot may generate
  Faults,       \* which data-dependent outcomes may happen: see Outcomes
  NoTask

Slots == 1..NSlots

\* A completion, a completion with another LoRA set, an embedding (or rerank),
\* a slot save, restore or erase, and a task answered on the spot (metrics).
Kinds == {"cmpl", "lora", "embd", "slot", "ctrl"}

\* A sampler or LoRA that cannot be set up, an empty prompt, a prompt too long,
\* a context that is full, llama_decode failing, a client that goes away.
Outcomes == {"launch", "empty", "reject", "shift", "decode", "gone"}

ASSUME ServerAssumption ==
  /\ NSlots \in Nat \ {0}
  /\ MaxTokens \in Nat \ {0}
  /\ Owner \in [Tasks -> Requests]
  /\ Kind \in [Tasks -> Kinds]
  /\ Parent \in [Tasks -> Tasks \cup {NoTask}]
  /\ Pin \in [Tasks -> 0..NSlots]
  /\ NoTask \notin Tasks
  /\ IsFiniteSet(Tasks)
  /\ \A t \in Tasks :
       /\ Kind[t] = "slot" => Pin[t] # 0
       /\ Parent[t] # NoTask =>
            /\ Kind[t] \in {"cmpl", "lora"} /\ Pin[t] = 0
            /\ Kind[Parent[t]] = Kind[t] /\ Owner[Parent[t]] = Owner[t]
            /\ Parent[Parent[t]] = NoTask
       \* server-task.cpp:616: n_cmpl cannot be greater than the number of slots
       /\ Cardinality({c \in Tasks : Parent[c] = t}) < NSlots
  /\ ContBatching \in BOOLEAN
  /\ Faults \subseteq Outcomes

VARIABLES
  queue,     \* queue_tasks
  deferred,  \* queue_tasks_deferred
  hand,      \* the task start_loop moved out of the queue
  slot,      \* slots: state, task, n_decoded
  mpc,       \* where the main thread is
  cur,       \* the slot the running loop of the main thread has reached
  batch,     \* the slots with tokens in the batch
  nEmpty,    \* n_empty_consecutive
  waiting,   \* waiting_task_ids
  results,   \* queue_results
  rpc,       \* where the thread of each request is
  got        \* the tasks whose final result its reader has received

mainVars == <<hand, slot, mpc, cur, batch, nEmpty>>
readerVars == <<rpc, got>>
vars == <<queue, deferred, mainVars, waiting, results, readerVars>>

-----------------------------------------------------------------------------
(* Tasks, slots and results.                                               *)

Run(t) == [type |-> "run", task |-> t]
Cancel(t) == [type |-> "cancel", task |-> t]
NextResponse == [type |-> "next", task |-> NoTask]
NoEntry == [type |-> "none", task |-> NoTask]

IdleSlot == [state |-> "idle", task |-> NoTask, decoded |-> 0]

TasksOf(r) == {t \in Tasks : Owner[t] = r}
Children(t) == {c \in Tasks : Parent[c] = t}
IsChild(t) == Parent[t] # NoTask
IsParent(t) == Children(t) # {}

IsProcessing(s) == slot[s].state # "idle"
Free == {s \in Slots : ~IsProcessing(s)}

\* All the orders in which a set can be traversed (an unordered_set of ids).
Orders(S) == {o \in [1..Cardinality(S) -> S] :
                \A i, j \in 1..Cardinality(S) : i # j => o[i] # o[j]}

\* Fault: nobody asks who is waiting.
SendAnyway(t, kind) == results' = Append(results, [task |-> t, kind |-> kind])

\* server_response::send.
Send(t, kind) ==
  results' = IF t \in waiting
             THEN Append(results, [task |-> t, kind |-> kind])
             ELSE results

\* s without the places in `gone': what a loop that erases them leaves.
Without(s, gone) ==
  LET kept == DOMAIN s \ gone IN
  [n \in 1..Cardinality(kept) |->
     s[CHOOSE i \in kept : Cardinality({j \in kept : j <= i}) = n]]

DropTask(q, T) == Without(q, {i \in DOMAIN q : q[i].type = "run" /\ q[i].task \in T})

\* Fault: the task is copied, and stays in queue_tasks_deferred.
PopDeferredKeeps(s) ==
  IF deferred = <<>>
  THEN UNCHANGED <<queue, deferred>>
  ELSE queue' = <<Run(deferred[1])>> \o queue /\ deferred' = deferred

\* server_queue::pop_deferred_task.  The id_slot of a slot action is not the
\* id_slot of its task, so it is never preferred.
Prefers(t, s) == Kind[t] # "slot" /\ Pin[t] = s

PopDeferred(s) ==
  IF deferred = <<>>
  THEN UNCHANGED <<queue, deferred>>
  ELSE \E i \in 1..Len(deferred) :
         /\ \/ /\ Prefers(deferred[i], s)
               /\ \A j \in 1..(i - 1) : ~Prefers(deferred[j], s)
            \/ /\ i = 1
               /\ \A j \in 1..Len(deferred) : ~Prefers(deferred[j], s)
         /\ queue' = <<Run(deferred[i])>> \o queue
         /\ deferred' = RemoveAt(deferred, i)

\* Fault: callback_on_release is not called.
ReleaseQuietly(s) ==
  /\ slot' = [slot EXCEPT ![s] = IdleSlot]
  /\ UNCHANGED <<queue, deferred>>

\* server_slot::release of a slot that is processing.
Release(s) ==
  /\ slot' = [slot EXCEPT ![s] = IdleSlot]
  /\ PopDeferred(s)

Goto(label) == mpc' = label
\* Start a loop over the slots.
Scan(label) == mpc' = label /\ cur' = 1
\* The next iteration of a loop over the slots, or what comes after it.
NextSlot(after) ==
  IF cur < NSlots THEN cur' = cur + 1 /\ UNCHANGED mpc ELSE Scan(after)

-----------------------------------------------------------------------------
Init ==
  /\ queue = <<>> /\ deferred = <<>>
  /\ hand = NoEntry
  /\ slot = [s \in Slots |-> IdleSlot]
  /\ mpc = "take" /\ cur = 1 /\ batch = {} /\ nEmpty = 0
  /\ waiting = {} /\ results = <<>>
  /\ rpc = [r \in Requests |-> "new"]
  /\ got = [r \in Requests |-> {}]

-----------------------------------------------------------------------------
(* The thread of request r.                                                *)

ReaderAt(r, from, to) == rpc[r] = from /\ rpc' = [rpc EXCEPT ![r] = to]

\* server_response_reader::post_tasks, first half: the ids are registered.
Register(r) ==
  /\ ReaderAt(r, "new", "registered")
  /\ waiting' = waiting \cup TasksOf(r)
  /\ UNCHANGED <<queue, deferred, results, mainVars, got>>

\* Second half: the tasks are posted; metrics and the like go to the front.
PostTasks(r) ==
  /\ ReaderAt(r, "registered", "waiting")
  /\ \E o \in Orders({t \in TasksOf(r) : ~IsChild(t)}) :
       LET entries == [i \in DOMAIN o |-> Run(o[i])]
       IN  queue' = IF \A t \in TasksOf(r) : Kind[t] = "ctrl"
                    THEN entries \o queue ELSE queue \o entries
  /\ UNCHANGED <<deferred, waiting, results, mainVars, got>>

\* server_response_reader::next: the first result that is for r.
Receive(r) ==
  /\ rpc[r] = "waiting"
  /\ \E i \in 1..Len(results) :
       LET t == results[i].task IN
       /\ t \in TasksOf(r)
       /\ \A j \in 1..(i - 1) : results[j].task \notin TasksOf(r)
       /\ results' = RemoveAt(results, i)
       /\ rpc' = IF results[i].kind = "error"
                 THEN [rpc EXCEPT ![r] = "stopping"] ELSE rpc
       /\ got' = IF results[i].kind = "final"
                 THEN [got EXCEPT ![r] = @ \cup {t}] ELSE got
  /\ UNCHANGED <<queue, deferred, waiting, mainVars>>

\* has_next is false: the reader goes away, and its destructor unregisters.
Finish(r) ==
  /\ got[r] = TasksOf(r)
  /\ ReaderAt(r, "waiting", "closed")
  /\ waiting' = waiting \ TasksOf(r)
  /\ UNCHANGED <<queue, deferred, results, mainVars, got>>

\* should_stop: the client has closed the connection.
Disconnect(r) ==
  /\ "gone" \in Faults
  /\ got[r] # TasksOf(r)
  /\ ReaderAt(r, "waiting", "stopping")
  /\ UNCHANGED <<queue, deferred, waiting, results, mainVars, got>>

\* server_response_reader::stop: nothing more is sent to the reader.
Unregister(r) ==
  /\ ReaderAt(r, "stopping", "unregistered")
  /\ waiting' = waiting \ TasksOf(r)
  /\ UNCHANGED <<queue, deferred, results, mainVars, got>>

\* The results that it has not taken are erased, one task after the other.  Nobody
\* else looks at them meanwhile.
DropResults(r) ==
  /\ ReaderAt(r, "unregistered", "cancelling")
  /\ results' = Without(results, {i \in DOMAIN results : results[i].task \in TasksOf(r)})
  /\ UNCHANGED <<queue, deferred, waiting, mainVars, got>>

\* The end of stop: server_queue::post of one CANCEL per task, to the front, and
\* cleanup_pending_task for each.
PostCancels(r) ==
  /\ ReaderAt(r, "cancelling", "closed")
  /\ \E o \in Orders(TasksOf(r)) :
       queue' = [i \in DOMAIN o |-> Cancel(o[i])] \o DropTask(queue, TasksOf(r))
  /\ deferred' = Without(deferred, {i \in DOMAIN deferred : deferred[i] \in TasksOf(r)})
  /\ UNCHANGED <<waiting, results, mainVars, got>>

Reader(r) ==
  \/ Register(r) \/ PostTasks(r) \/ Receive(r) \/ Finish(r)
  \/ Unregister(r) \/ DropResults(r) \/ PostCancels(r)

-----------------------------------------------------------------------------
(* The main thread: start_loop and process_single_task.                    *)

TakeTask ==
  /\ mpc = "take" /\ queue # <<>>
  /\ hand' = Head(queue)
  /\ queue' = Tail(queue)
  /\ Goto("have")
  /\ UNCHANGED <<deferred, slot, cur, batch, nEmpty, waiting, results, readerVars>>

WakeUp ==
  /\ mpc = "wait" /\ queue # <<>>
  /\ Goto("take")
  /\ UNCHANGED <<queue, deferred, hand, slot, cur, batch, nEmpty, waiting, results,
                 readerVars>>

\* A task to run, of one of the kinds that need a slot.
InHand(t) ==
  /\ mpc = "have" /\ hand = Run(t)

TaskDone == hand' = NoEntry /\ Goto("take") /\ UNCHANGED <<cur, batch>>

\* The slots get_slot_by_id or get_available_slot may return for t.
Candidates(t) == IF Pin[t] = 0 THEN Free ELSE Free \cap {Pin[t]}

\* Fault: the slots for the child tasks are not counted.
RoomForOne(t) == Candidates(t) # {}

HasRoom(t) == Candidates(t) # {} /\ Cardinality(Free) > Cardinality(Children(t))

\* get_free_slots: the first ones that are free, other than the parent's.
ChildSlots(t, s) ==
  {k \in Free \ {s} :
     Cardinality({j \in Free \ {s} : j < k}) < Cardinality(Children(t))}

Defer ==
  /\ \E t \in Tasks :
       /\ InHand(t) /\ Kind[t] # "ctrl" /\ ~HasRoom(t)
       /\ deferred' = Append(deferred, t)
  /\ TaskDone
  /\ UNCHANGED <<queue, slot, nEmpty, waiting, results, readerVars>>

Occupied(t) ==
  [state |-> IF IsChild(t) THEN "wait_other" ELSE "started", task |-> t, decoded |-> 0]

\* The task, and its child tasks if it is a parent, are put in slots.
Launch ==
  /\ \E t \in Tasks :
       /\ InHand(t) /\ Kind[t] \in {"cmpl", "lora", "embd"} /\ HasRoom(t)
       /\ \E s \in Candidates(t) : \E o \in Orders(Children(t)) :
            slot' = [k \in Slots |->
                       IF k = s THEN Occupied(t)
                       ELSE IF k \in ChildSlots(t, s)
                       THEN Occupied(o[1 + Cardinality({j \in ChildSlots(t, s) : j < k})])
                       ELSE slot[k]]
  /\ nEmpty' = 0
  /\ TaskDone
  /\ UNCHANGED <<queue, deferred, waiting, results, readerVars>>

\* launch_slot_with_task fails for one of the tasks, in the order child tasks
\* first; the ones launched before are released by LaunchUndo.
LaunchFails ==
  /\ "launch" \in Faults
  /\ \E t \in Tasks :
       /\ InHand(t) /\ Kind[t] \in {"cmpl", "lora", "embd"} /\ HasRoom(t)
       /\ \E s \in Candidates(t) : \E o \in Orders(Children(t)) :
          \E n \in 0..Len(o) :
            /\ slot' = [k \in Slots |->
                 LET i == 1 + Cardinality({j \in ChildSlots(t, s) : j < k})
                 IN  IF k \in ChildSlots(t, s) /\ i <= n THEN Occupied(o[i]) ELSE slot[k]]
            /\ Send(IF n < Len(o) THEN o[n + 1] ELSE t, "error")
            /\ nEmpty' = IF n = 0 THEN nEmpty ELSE 0
  /\ Scan("unlaunch")
  /\ UNCHANGED <<queue, deferred, hand, batch, waiting, readerVars>>

LaunchUndo ==
  /\ mpc = "unlaunch"
  /\ IF slot[cur].task \in Children(hand.task)
     THEN Release(cur)
     ELSE UNCHANGED <<queue, deferred, slot>>
  /\ hand' = IF cur = NSlots THEN NoEntry ELSE hand
  /\ NextSlot("take")
  /\ UNCHANGED <<batch, nEmpty, waiting, results, readerVars>>

\* Metrics, LoRA lists, and slot actions on an idle slot.
Answer ==
  /\ \E t \in Tasks :
       /\ InHand(t)
       /\ \/ Kind[t] = "ctrl"
          \/ Kind[t] = "slot" /\ HasRoom(t)
       /\ \/ Send(t, "final")
          \/ Kind[t] = "slot" /\ "reject" \in Faults /\ Send(t, "error")
  /\ TaskDone
  /\ UNCHANGED <<queue, deferred, slot, nEmpty, waiting, readerVars>>

CancelTask ==
  /\ mpc = "have" /\ hand.type = "cancel"
  /\ IF \E s \in Slots : slot[s].task = hand.task
     THEN \E s \in Slots : slot[s].task = hand.task /\ Release(s)
     ELSE UNCHANGED <<queue, deferred, slot>>
  /\ TaskDone
  /\ UNCHANGED <<nEmpty, waiting, results, readerVars>>

IgnoreNext ==
  /\ mpc = "have" /\ hand.type = "next"
  /\ TaskDone
  /\ UNCHANGED <<queue, deferred, slot, nEmpty, waiting, results, readerVars>>

ProcessSingleTask ==
  \/ Defer \/ Launch \/ LaunchFails \/ LaunchUndo \/ Answer \/ CancelTask \/ IgnoreNext

-----------------------------------------------------------------------------
(* The main thread: update_slots.                                          *)

AllIdle ==
  /\ mpc = "take" /\ queue = <<>>
  /\ Free = Slots
  /\ Goto("wait")
  /\ UNCHANGED <<queue, deferred, hand, slot, cur, batch, nEmpty, waiting, results,
                 readerVars>>

StartUpdate ==
  /\ mpc = "take" /\ queue = <<>>
  /\ Free # Slots
  /\ queue' = Append(queue, NextResponse)
  /\ batch' = {}
  /\ Scan("generate")
  /\ UNCHANGED <<deferred, hand, slot, nEmpty, waiting, results, readerVars>>

\* can_batch_with.
Compatible(s) == \A b \in batch : Kind[slot[b].task] = Kind[slot[s].task]

\* A slot that generates adds its last token to the batch; the context of a
\* parent or child that is full cannot be shifted.
AddGenerating ==
  /\ mpc = "generate"
  /\ \/ /\ slot[cur].state = "generating"
        /\ batch' = IF Compatible(cur) THEN batch \cup {cur} ELSE batch
        /\ UNCHANGED <<queue, deferred, slot, results>>
     \/ /\ slot[cur].state = "generating" /\ "shift" \in Faults
        /\ IsParent(slot[cur].task) \/ IsChild(slot[cur].task)
        /\ Send(slot[cur].task, "error")
        /\ Release(cur)
        /\ UNCHANGED batch
     \/ /\ slot[cur].state # "generating"
        /\ UNCHANGED <<queue, deferred, slot, results, batch>>
  /\ NextSlot("prompt")
  /\ UNCHANGED <<hand, nEmpty, waiting, readerVars>>

NoPromptsNow ==
  /\ mpc = "prompt" /\ cur = 1
  /\ ~ContBatching /\ batch # {}
  /\ Goto("decode")
  /\ UNCHANGED <<queue, deferred, hand, slot, cur, batch, nEmpty, waiting, results,
                 readerVars>>

HasPrompt(s) == slot[s].state \in {"started", "prompt"} /\ Compatible(s)

PromptTurn == mpc = "prompt" /\ (ContBatching \/ cur > 1 \/ batch = {})

\* The tokens of the prompt that fit are added: all, or the first half.  The
\* loop ends when the batch is full.
AddPrompt ==
  /\ PromptTurn /\ HasPrompt(cur)
  /\ \E to \in {"prompt", "done"} :
       /\ slot[cur].state = "prompt" => to = "done"
       /\ slot' = [slot EXCEPT ![cur].state = to]
  /\ batch' = batch \cup {cur}
  /\ NextSlot("decode") \/ Scan("decode")
  /\ UNCHANGED <<queue, deferred, hand, nEmpty, waiting, results, readerVars>>

\* An empty prompt is answered, one that is too long refused.
RefusePrompt ==
  /\ PromptTurn /\ HasPrompt(cur) /\ slot[cur].state = "started"
  /\ \/ "empty" \in Faults /\ Send(slot[cur].task, "final")
     \/ "reject" \in Faults /\ Send(slot[cur].task, "error")
  /\ Release(cur)
  /\ NextSlot("decode")
  /\ UNCHANGED <<hand, batch, nEmpty, waiting, readerVars>>

SkipPrompt ==
  /\ PromptTurn /\ ~HasPrompt(cur)
  /\ NextSlot("decode")
  /\ UNCHANGED <<queue, deferred, hand, slot, batch, nEmpty, waiting, results, readerVars>>

\* GGML_ABORT after more than three batches in a row without a token.
EmptyBatch ==
  /\ mpc = "decode" /\ batch = {}
  /\ nEmpty' = nEmpty + 1
  /\ Goto(IF nEmpty + 1 > 3 THEN "aborted" ELSE "take")
  /\ UNCHANGED <<queue, deferred, hand, slot, cur, batch, waiting, results, readerVars>>

\* The parent of s has its whole prompt in the batch.
ParentDone(s) ==
  \E p \in Slots : slot[p].state = "done" /\ slot[p].task = Parent[slot[s].task]

\* Fault: the child slots are forgotten.
DecodeAlone ==
  /\ mpc = "decode" /\ batch # {}
  /\ nEmpty' = 0
  /\ Scan("sample")
  /\ UNCHANGED <<queue, deferred, hand, slot, batch, waiting, results, readerVars>>

\* llama_decode succeeds; child slots get a copy of the state of their parent.
Decode ==
  /\ mpc = "decode" /\ batch # {}
  /\ LET copied == {s \in Slots : slot[s].state = "wait_other" /\ ParentDone(s)} IN
       /\ slot' = [s \in Slots |->
                     IF s \in copied THEN [slot[s] EXCEPT !.state = "done"] ELSE slot[s]]
       /\ batch' = batch \cup copied
  /\ nEmpty' = 0
  /\ Scan("sample")
  /\ UNCHANGED <<queue, deferred, hand, waiting, results, readerVars>>

DecodeFails ==
  /\ mpc = "decode" /\ batch # {} /\ "decode" \in Faults
  /\ batch' = {}
  /\ nEmpty' = 0
  /\ Scan("fail")
  /\ UNCHANGED <<queue, deferred, hand, slot, waiting, results, readerVars>>

\* Every slot that is processing gets the error and is released.
FailSlot ==
  /\ mpc = "fail"
  /\ IF IsProcessing(cur)
     THEN Send(slot[cur].task, "error") /\ Release(cur)
     ELSE UNCHANGED <<queue, deferred, slot, results>>
  /\ NextSlot("take")
  /\ UNCHANGED <<hand, batch, nEmpty, waiting, readerVars>>

HasLogits(s) == s \in batch /\ slot[s].state \in {"done", "generating"}

\* The last token, or the embedding.
SampleLast ==
  /\ mpc = "sample" /\ HasLogits(cur)
  /\ Send(slot[cur].task, "final")
  /\ Release(cur)
  /\ batch' = batch \ {cur}
  /\ NextSlot("take")
  /\ UNCHANGED <<hand, nEmpty, waiting, readerVars>>

\* Fault: the budget is not looked at.
SampleTokenOverBudget ==
  /\ mpc = "sample" /\ HasLogits(cur)
  /\ Kind[slot[cur].task] # "embd"
  /\ Send(slot[cur].task, "partial")
  /\ slot' = [slot EXCEPT ![cur].state = "generating", ![cur].decoded = @ + 1]
  /\ batch' = batch \ {cur}
  /\ NextSlot("take")
  /\ UNCHANGED <<queue, deferred, hand, nEmpty, waiting, readerVars>>

SampleToken ==
  /\ mpc = "sample" /\ HasLogits(cur)
  /\ Kind[slot[cur].task] # "embd" /\ slot[cur].decoded + 1 < MaxTokens
  /\ Send(slot[cur].task, "partial")
  /\ slot' = [slot EXCEPT ![cur].state = "generating", ![cur].decoded = @ + 1]
  /\ batch' = batch \ {cur}
  /\ NextSlot("take")
  /\ UNCHANGED <<queue, deferred, hand, nEmpty, waiting, readerVars>>

SampleNone ==
  /\ mpc = "sample" /\ ~HasLogits(cur)
  /\ batch' = batch \ {cur}
  /\ NextSlot("take")
  /\ UNCHANGED <<queue, deferred, hand, slot, nEmpty, waiting, results, readerVars>>

UpdateSlots ==
  \/ AllIdle \/ StartUpdate \/ AddGenerating
  \/ NoPromptsNow \/ AddPrompt \/ RefusePrompt \/ SkipPrompt
  \/ EmptyBatch \/ Decode \/ DecodeFails \/ FailSlot
  \/ SampleLast \/ SampleToken \/ SampleNone

-----------------------------------------------------------------------------
MainLoop == TakeTask \/ WakeUp \/ ProcessSingleTask \/ UpdateSlots

Next ==
  /\ mpc # "aborted"
  /\ MainLoop \/ \E r \in Requests : Reader(r) \/ Disconnect(r)

Spec == Init /\ [][Next]_vars

\* The main thread runs on, and so does the thread of every request.
FairSpec ==
  /\ Spec
  /\ WF_vars(mpc # "aborted" /\ MainLoop)
  /\ \A r \in Requests : WF_vars(mpc # "aborted" /\ Reader(r))

-----------------------------------------------------------------------------
(* Properties.                                                             *)

Entries == {Run(t) : t \in Tasks} \cup {Cancel(t) : t \in Tasks} \cup {NextResponse}

\* The types of the variables.
TypeOK ==
  /\ queue \in Seq(Entries)
  /\ deferred \in Seq(Tasks)
  /\ hand \in Entries \cup {NoEntry}
  /\ slot \in [Slots -> [state : {"idle", "wait_other", "started", "prompt", "done",
                                  "generating"},
                         task : Tasks \cup {NoTask},
                         decoded : 0..MaxTokens]]
  /\ mpc \in {"take", "have", "unlaunch", "wait", "generate", "prompt", "decode",
              "sample", "fail", "aborted"}
  /\ cur \in Slots
  /\ batch \in SUBSET Slots
  /\ nEmpty \in 0..4
  /\ waiting \in SUBSET Tasks
  /\ results \in Seq([task : Tasks, kind : {"partial", "final", "error"}])
  /\ rpc \in [Requests -> {"new", "registered", "waiting", "stopping", "unregistered",
                           "cancelling", "closed"}]
  /\ got \in [Requests -> SUBSET Tasks]

\* The places task t is in.
Homes(t) ==
  {<<"queue", i>> : i \in {j \in 1..Len(queue) : queue[j] = Run(t)}}
  \cup {<<"deferred", i>> : i \in {j \in 1..Len(deferred) : deferred[j] = t}}
  \cup {<<"hand", i>> : i \in {j \in {0} : hand = Run(t)}}
  \cup {<<"slot", s>> : s \in {k \in Slots : slot[k].task = t}}

\* Deferring, popping, launching, undoing a launch and cancelling never leave a
\* task in two places: it cannot run twice, nor run after it was answered
\* because a copy stayed behind in one of the queues.
OneHome == \A t \in Tasks : Cardinality(Homes(t)) <= 1

\* wait_for_all asserts that it never receives a second result for a task: what
\* a reader is sent for a task ends with its one final result or error.
NoResultAfterStop ==
  \A i \in 1..Len(results) :
    /\ results[i].task \notin got[Owner[results[i].task]]
    /\ results[i].kind # "partial" =>
         \A j \in (i + 1)..Len(results) : results[j].task # results[i].task

\* Nothing is left in queue_results for a reader that is gone: whatever the order
\* of results, of finishing readers and of cancellations, queue_results does not
\* grow with the requests served.  A reader that stops is about to erase its own.
NoResultLeftBehind ==
  \A i \in 1..Len(results) :
    results[i].task \in waiting \/ rpc[Owner[results[i].task]] = "unregistered"

\* queue_results has nothing that no reader will take, or that one would take twice.
NoStrayResult == NoResultAfterStop /\ NoResultLeftBehind

\* A child that waits for its parent's prompt is never forgotten: the parent is
\* in a slot, or the main thread is about to release the child too.
ParentInSlot(c) == \E s \in Slots : slot[s].task = Parent[c]

CancelPending(c) ==
  hand = Cancel(c) \/ \E i \in 1..Len(queue) : queue[i] = Cancel(c)

ChildNotOrphaned ==
  \A s \in Slots : slot[s].state = "wait_other" =>
    \/ ParentInSlot(slot[s].task)
    \/ CancelPending(slot[s].task)
    \/ mpc = "unlaunch" /\ hand = Run(Parent[slot[s].task]) /\ cur <= s
    \/ mpc = "fail" /\ cur <= s

\* GGML_ABORT of the counter of empty batches is out of reach: as long as a slot
\* is processing, one of them has tokens for the batch.
NoAbort == mpc # "aborted"

\* Children are never left to wait for a parent that will not come, and those that
\* wait do not bring the server down.
ChildrenKept == ChildNotOrphaned /\ NoAbort

\* A release moves one task out of the deferred ones and nothing else does, so a
\* deferred task depends on another task that will be released later: one that
\* is in a slot, or one in the queue that will get or wait for a slot.
NeedsSlot(t) == Kind[t] \in {"cmpl", "lora", "embd"}

DeferredHasWaker ==
  deferred # <<>> =>
    \/ Free # Slots
    \/ \E t \in Tasks : NeedsSlot(t)
         /\ (hand = Run(t) \/ \E i \in 1..Len(queue) : queue[i] = Run(t))

\* Every request that has posted its tasks is answered and its reader closed.
EveryRequestAnswered ==
  \A r \in Requests : rpc[r] = "waiting" ~> rpc[r] = "closed"

-----------------------------------------------------------------------------
(* What a comment says of this code, and the code does not do.             *)

\* server-queue.h:40: a task is deferred "until one slot is available".
DeferredUntilSlotAvailable ==
  \A t \in Tasks : (\E i \in 1..Len(deferred) : deferred[i] = t) ~>
                     (~\E i \in 1..Len(deferred) : deferred[i] = t)
=============================================================================
