------------------------------- MODULE Proxy -------------------------------
(***************************************************************************)
(* proxy.py: the priority-queue proxy in front of llama-server.            *)
(*                                                                         *)
(* Three kinds of threads share state: the HTTP handler of each request    *)
(* (_handle), the one dispatcher (_dispatcher), and one forwarding thread  *)
(* per dispatched request (_forward).  The slot a request is forwarded in  *)
(* is a unit of _slot_sem; it is given back by _forward when the upstream  *)
(* refuses, and otherwise by the `finally' of the response generator,      *)
(* which runs only if somebody iterates the generator.                     *)
(*                                                                         *)
(* Time is abstracted: a timed wait may end early whenever Faults allows   *)
(* it, and the sleeps of the dispatcher are gaps between its steps.        *)
(***************************************************************************)
EXTENDS Integers, FiniteSets

CONSTANTS
  Requests,   \* the requests clients send in one run
  Priority,   \* what _infer_priority returns for each: 0 chat, 1, 2
  Slots,      \* --slots
  Reserved,   \* --reserved-chat-slots
  Smart,      \* --smart-preemption
  Faults,     \* which of "timeout", "disconnect", "crash" may happen
  None        \* "no request"

ASSUME ProxyAssumption ==
  /\ IsFiniteSet(Requests)
  /\ Priority \in [Requests -> 0..2]
  /\ Slots \in Nat
  /\ Reserved \in 0..Slots
  /\ Smart \in BOOLEAN
  /\ None \notin Requests

VARIABLES
  seqCounter, \* _seq_counter
  seq,        \* the number each request drew, 0 before
  queue,      \* the requests in _pq
  hpc,        \* where the handler of each request is
  abandoned,  \* PendingRequest.abandoned
  status,     \* PendingRequest.response_status
  ready,      \* PendingRequest.ready_event
  body,       \* PendingRequest.response_body_iter, and how far it has run
  fpc,        \* where the forwarding thread of each request is
  dpc,        \* where the dispatcher is
  held,       \* the request it took out of _pq
  holding,    \* whether it holds a unit of the semaphore
  reserve,    \* effective_reserved of the running _reservation_blocks
  sem,        \* _slot_sem
  active,     \* _active_by_priority
  ahead       \* auxiliary: who was in line when a request drew its number

handlerVars == <<seqCounter, seq, hpc, abandoned, ahead>>
dispatcherVars == <<dpc, held, holding, reserve>>
replyVars == <<status, ready, body>>
vars == <<handlerVars, dispatcherVars, replyVars, queue, fpc, sem, active>>

-----------------------------------------------------------------------------
(* The queue and the reservation policy.                                   *)

\* Fault: the last come first served within a class.
BeforeLifo(q, r) ==
  \/ Priority[q] < Priority[r]
  \/ Priority[q] = Priority[r] /\ seq[q] > seq[r]

\* The order of the (priority, seq, req) tuples in _pq.
Before(q, r) ==
  \/ Priority[q] < Priority[r]
  \/ Priority[q] = Priority[r] /\ seq[q] < seq[r]

IsHead(r) == r \in queue /\ \A q \in queue \ {r} : Before(r, q)

\* Waiting for a slot: in the queue, or out of it in the dispatcher's hands.
InLine(r) == r \in queue \/ r = held

NonChatActive == active[1] + active[2]

\* Fault: moderate requests are exempted along with chat.
UnreservedModerate(r) == Priority[r] <= 1 \/ (~Smart /\ Reserved = 0)

\* _reservation_blocks returns False at once for these.
Unreserved(r) == Priority[r] = 0 \/ (~Smart /\ Reserved = 0)

-----------------------------------------------------------------------------
Init ==
  /\ seqCounter = 0
  /\ seq = [r \in Requests |-> 0]
  /\ queue = {}
  /\ hpc = [r \in Requests |-> "new"]
  /\ abandoned = [r \in Requests |-> FALSE]
  /\ status = [r \in Requests |-> "none"]
  /\ ready = [r \in Requests |-> FALSE]
  /\ body = [r \in Requests |-> "none"]
  /\ fpc = [r \in Requests |-> "idle"]
  /\ dpc = "get"
  /\ held = None
  /\ holding = FALSE
  /\ reserve = 0
  /\ sem = Slots
  /\ active = [p \in 0..2 |-> 0]
  /\ ahead = [r \in Requests |-> {}]

-----------------------------------------------------------------------------
(* The HTTP handler of request r.                                          *)

\* _next_seq(): drawing the number and putting the request are two steps.
TakeSeq(r) ==
  /\ hpc[r] = "new"
  /\ seqCounter' = seqCounter + 1
  /\ seq' = [seq EXCEPT ![r] = seqCounter + 1]
  /\ ahead' = [ahead EXCEPT ![r] = {q \in Requests :
                                      InLine(q) /\ Priority[q] <= Priority[r]}]
  /\ hpc' = [hpc EXCEPT ![r] = "numbered"]
  /\ UNCHANGED <<abandoned, queue, fpc, sem, active, dispatcherVars, replyVars>>

Enqueue(r) ==
  /\ hpc[r] = "numbered"
  /\ queue' = queue \cup {r}
  /\ hpc' = [hpc EXCEPT ![r] = "waiting"]
  /\ UNCHANGED <<seqCounter, seq, abandoned, ahead, fpc, sem, active,
                 dispatcherVars, replyVars>>

HandlerStep(r, from, to) ==
  /\ hpc[r] = from
  /\ hpc' = [hpc EXCEPT ![r] = to]
  /\ UNCHANGED <<seqCounter, seq, ahead, queue, fpc, sem, active, dispatcherVars,
                 status, ready>>

\* ready_event.wait(timeout=130), which ends with the event or after 130 s, and
\* the test of response_status, which does not ask which of the two it was.
AwaitReady(r) ==
  /\ ready[r] \/ "timeout" \in Faults
  /\ HandlerStep(r, "waiting", IF status[r] = "none" THEN "abandon" ELSE "reply")
  /\ UNCHANGED <<abandoned, body>>

\* `abandoned = True', and the 504.
Abandon(r) ==
  /\ HandlerStep(r, "abandon", "timed_out")
  /\ abandoned' = [abandoned EXCEPT ![r] = TRUE]
  /\ UNCHANGED body

\* The client is gone: end_headers raises outside the try statement.
BreakHeaders(r) ==
  /\ "disconnect" \in Faults
  /\ HandlerStep(r, "reply", "broken")
  /\ UNCHANGED <<abandoned, body>>

\* The headers, and `for chunk in response_body_iter': a TypeError if it is not there yet, the
\* error message of a refused request, or the first step of the generator.
Iterate(r) ==
  /\ \/ body[r] = "none"      /\ HandlerStep(r, "reply", "broken")   /\ UNCHANGED body
     \/ body[r] = "message"   /\ HandlerStep(r, "reply", "answered") /\ UNCHANGED body
     \/ /\ body[r] = "unstarted"
        /\ HandlerStep(r, "reply", "streaming")
        /\ body' = [body EXCEPT ![r] = "running"]
  /\ UNCHANGED abandoned

\* The upstream response ends (or raises): the generator enters its finally.
EndStream(r) ==
  /\ body[r] = "running"
  /\ HandlerStep(r, "streaming", "streaming")
  /\ body' = [body EXCEPT ![r] = "finally"]
  /\ UNCHANGED abandoned

\* wfile.write raises and is swallowed; the generator stays suspended.
BreakPipe(r) ==
  /\ "disconnect" \in Faults
  /\ body[r] = "running"
  /\ HandlerStep(r, "streaming", "broken")
  /\ body' = [body EXCEPT ![r] = "suspended"]
  /\ UNCHANGED abandoned

-----------------------------------------------------------------------------
(* The response generator.                                                 *)

\* Fault: a generator that ran to its end is closed once more.
CollectTwice(r) ==
  /\ body[r] \in {"suspended", "closed"}
  /\ body' = [body EXCEPT ![r] = "finally"]
  /\ UNCHANGED <<handlerVars, dispatcherVars, status, ready, queue, fpc, sem, active>>

\* The request and its suspended generator refer to each other: only the
\* cycle collector closes it, at a time of its choosing.
Collect(r) ==
  /\ body[r] = "suspended"
  /\ body' = [body EXCEPT ![r] = "finally"]
  /\ UNCHANGED <<handlerVars, dispatcherVars, status, ready, queue, fpc, sem, active>>

FinallyDeactivate(r) ==
  /\ body[r] = "finally"
  /\ active' = [active EXCEPT ![Priority[r]] = @ - 1]
  /\ body' = [body EXCEPT ![r] = "release"]
  /\ UNCHANGED <<handlerVars, dispatcherVars, status, ready, queue, fpc, sem>>

\* Fault: the finally clause stops short of the semaphore.
FinallyForget(r) ==
  /\ body[r] = "release"
  /\ body' = [body EXCEPT ![r] = "closed"]
  /\ hpc' = [hpc EXCEPT ![r] = IF @ = "streaming" THEN "answered" ELSE @]
  /\ UNCHANGED <<seqCounter, seq, abandoned, ahead, dispatcherVars, status, ready,
                 queue, fpc, sem, active>>

FinallyRelease(r) ==
  /\ body[r] = "release"
  /\ sem' = sem + 1
  /\ body' = [body EXCEPT ![r] = "closed"]
  /\ hpc' = [hpc EXCEPT ![r] = IF @ = "streaming" THEN "answered" ELSE @]
  /\ UNCHANGED <<seqCounter, seq, abandoned, ahead, dispatcherVars, status, ready,
                 queue, fpc, active>>

-----------------------------------------------------------------------------
(* The forwarding thread of request r.                                     *)

ForwardStep(r, from, to) ==
  /\ fpc[r] = from
  /\ fpc' = [fpc EXCEPT ![r] = to]
  /\ UNCHANGED <<handlerVars, dispatcherVars, queue>>

\* urlopen raises URLError.
Refused(r) ==
  /\ ForwardStep(r, "call", "refused")
  /\ status' = [status EXCEPT ![r] = "502"]
  /\ UNCHANGED <<ready, body, sem, active>>

RefusedReady(r) ==
  /\ ForwardStep(r, "refused", "deactivate")
  /\ body' = [body EXCEPT ![r] = "message"]
  /\ ready' = [ready EXCEPT ![r] = TRUE]
  /\ UNCHANGED <<status, sem, active>>

\* Fault: the error path gives the slot back but stays counted.
RefusedStaysActive(r) ==
  /\ ForwardStep(r, "deactivate", "release")
  /\ UNCHANGED <<replyVars, sem, active>>

RefusedDeactivate(r) ==
  /\ ForwardStep(r, "deactivate", "release")
  /\ active' = [active EXCEPT ![Priority[r]] = @ - 1]
  /\ UNCHANGED <<replyVars, sem>>

RefusedRelease(r) ==
  /\ ForwardStep(r, "release", "returned")
  /\ sem' = sem + 1
  /\ UNCHANGED <<replyVars, active>>

\* urlopen raises something else (a read timeout, a closed connection): the
\* thread dies with the slot, and ready_event is never set.
Crash(r) ==
  /\ "crash" \in Faults
  /\ ForwardStep(r, "call", "dead")
  /\ UNCHANGED <<replyVars, sem, active>>

Respond(r) ==
  /\ ForwardStep(r, "call", "respond")
  /\ status' = [status EXCEPT ![r] = "200"]
  /\ UNCHANGED <<ready, body, sem, active>>

\* response_body_iter = _stream(); ready_event.set()
HandOver(r) ==
  /\ ForwardStep(r, "respond", "returned")
  /\ body' = [body EXCEPT ![r] = "unstarted"]
  /\ ready' = [ready EXCEPT ![r] = TRUE]
  /\ UNCHANGED <<status, sem, active>>

-----------------------------------------------------------------------------
(* The dispatcher.                                                         *)

PollEmpty ==
  /\ dpc = "get"
  /\ queue = {}
  /\ UNCHANGED vars

TakeHead(from) ==
  /\ dpc = from
  /\ \E r \in Requests :
       /\ IsHead(r)
       /\ queue' = queue \ {r}
       /\ held' = r
  /\ dpc' = "examine"
  /\ UNCHANGED <<handlerVars, replyVars, fpc, sem, active, holding, reserve>>

\* _pq.get(timeout=0.05) of the first phase, and _pq.get() of the second.
Get == TakeHead("get")
Pop == TakeHead("pop")

\* `if candidate.abandoned', the same in both phases.
Examine ==
  /\ dpc = "examine"
  /\ \/ /\ abandoned[held]
        /\ held' = None
        /\ dpc' = IF holding THEN "release" ELSE "get"
     \/ /\ ~abandoned[held]
        /\ dpc' = "judge"
        /\ UNCHANGED held
  /\ UNCHANGED <<handlerVars, replyVars, queue, fpc, sem, active, holding, reserve>>

\* Fault: the request is kept in hand while the dispatcher waits for a slot.
KeepForSlot ==
  /\ ~holding
  /\ held' = None
  /\ reserve' = 0
  /\ dpc' = "acquire"
  /\ UNCHANGED <<handlerVars, replyVars, queue, fpc, sem, active, holding>>

\* First phase: put it back and go for a slot.
PutBackForSlot ==
  /\ ~holding
  /\ queue' = queue \cup {held}
  /\ held' = None
  /\ reserve' = 0
  /\ dpc' = "acquire"
  /\ UNCHANGED <<handlerVars, replyVars, fpc, sem, active, holding>>

\* Second phase: count it and start its thread, which takes the slot over.
Dispatch ==
  /\ holding
  /\ active' = [active EXCEPT ![Priority[held]] = @ + 1]
  /\ fpc' = [fpc EXCEPT ![held] = "call"]
  /\ held' = None
  /\ holding' = FALSE
  /\ reserve' = 0
  /\ dpc' = "get"
  /\ UNCHANGED <<handlerVars, replyVars, queue, sem>>

Admit == PutBackForSlot \/ Dispatch

\* Put it back; in the second phase the slot goes back in a step after it.
Deny ==
  /\ queue' = queue \cup {held}
  /\ held' = None
  /\ reserve' = 0
  /\ dpc' = IF holding THEN "release" ELSE "get"
  /\ UNCHANGED <<handlerVars, replyVars, fpc, sem, active, holding>>

\* _reservation_blocks and _chat_present read the shared state in up to three
\* steps, each under a lock of its own: active chats, queued chats, the count.
Judge ==
  /\ dpc = "judge"
  /\ \/ Unreserved(held) /\ Admit
     \/ /\ ~Unreserved(held)
        /\ \/ ~Smart /\ reserve' = Reserved /\ dpc' = "count"
           \/ Smart /\ active[0] > 0 /\ reserve' = 1 /\ dpc' = "count"
           \/ Smart /\ active[0] = 0 /\ dpc' = "scan" /\ UNCHANGED reserve
        /\ UNCHANGED <<handlerVars, replyVars, queue, fpc, sem, active, held, holding>>

\* Fault: whatever is queued counts as chat.
ScanAnything ==
  /\ dpc = "scan"
  /\ reserve' = IF queue # {} THEN 1 ELSE 0
  /\ dpc' = "count"
  /\ UNCHANGED <<handlerVars, replyVars, queue, fpc, sem, active, held, holding>>

ScanQueue ==
  /\ dpc = "scan"
  /\ reserve' = IF \E q \in queue : Priority[q] = 0 THEN 1 ELSE 0
  /\ dpc' = "count"
  /\ UNCHANGED <<handlerVars, replyVars, queue, fpc, sem, active, held, holding>>

\* Fault: one non-chat request too many.
BlocksOffByOne == NonChatActive > Slots - reserve

Blocks == NonChatActive >= Slots - reserve

Count ==
  /\ dpc = "count"
  /\ IF Blocks THEN Deny ELSE Admit

\* Fault: a non-blocking acquire whose result is not looked at.
AcquireUnchecked ==
  /\ dpc = "acquire"
  /\ sem' = IF sem > 0 THEN sem - 1 ELSE 0
  /\ holding' = TRUE
  /\ dpc' = "pop"
  /\ UNCHANGED <<handlerVars, replyVars, queue, fpc, active, held, reserve>>

Acquire ==
  /\ dpc = "acquire"
  /\ sem > 0
  /\ sem' = sem - 1
  /\ holding' = TRUE
  /\ dpc' = "pop"
  /\ UNCHANGED <<handlerVars, replyVars, queue, fpc, active, held, reserve>>

Release ==
  /\ dpc = "release"
  /\ sem' = sem + 1
  /\ holding' = FALSE
  /\ dpc' = "get"
  /\ UNCHANGED <<handlerVars, replyVars, queue, fpc, active, held, reserve>>

-----------------------------------------------------------------------------
Handler(r) ==
  \/ TakeSeq(r) \/ Enqueue(r)
  \/ AwaitReady(r) \/ Abandon(r) \/ BreakHeaders(r)
  \/ Iterate(r) \/ EndStream(r) \/ BreakPipe(r)

Generator(r) == FinallyDeactivate(r) \/ FinallyRelease(r)

Forward(r) ==
  \/ Refused(r) \/ RefusedReady(r) \/ RefusedDeactivate(r) \/ RefusedRelease(r)
  \/ Crash(r) \/ Respond(r) \/ HandOver(r)

Dispatcher ==
  \/ PollEmpty \/ Get \/ Examine \/ Judge \/ ScanQueue \/ Count
  \/ Acquire \/ Pop \/ Release

Next ==
  \/ Dispatcher
  \/ \E r \in Requests : Handler(r) \/ Generator(r) \/ Forward(r) \/ Collect(r)

\* Every thread that can run keeps running; a timed wait ends and a stream
\* ends.  Nothing makes a client send a request, and nothing makes the
\* interpreter collect a cycle.
Fairness ==
  /\ WF_vars(Dispatcher)
  /\ \A r \in Requests :
       /\ WF_vars(Handler(r) /\ hpc[r] # "new")
       /\ WF_vars(Generator(r))
       /\ WF_vars(Forward(r))

Spec == Init /\ [][Next]_vars
FairSpec == Spec /\ Fairness

-----------------------------------------------------------------------------
(* Properties.                                                             *)

HandlerStates == {"new", "numbered", "waiting", "abandon", "reply", "streaming",
                  "timed_out", "answered", "broken"}
BodyStates == {"none", "message", "unstarted", "running", "suspended", "finally",
               "release", "closed"}
ForwardStates == {"idle", "call", "refused", "deactivate", "release", "respond",
                  "returned", "dead"}
DispatcherStates == {"get", "examine", "judge", "scan", "count", "acquire", "pop",
                     "release"}

\* Type invariant of the shared state and of the threads' local state.
TypeOK ==
  /\ seqCounter \in Nat
  /\ seq \in [Requests -> Nat]
  /\ queue \subseteq Requests
  /\ hpc \in [Requests -> HandlerStates]
  /\ abandoned \in [Requests -> BOOLEAN]
  /\ status \in [Requests -> {"none", "502", "200"}]
  /\ ready \in [Requests -> BOOLEAN]
  /\ body \in [Requests -> BodyStates]
  /\ fpc \in [Requests -> ForwardStates]
  /\ dpc \in DispatcherStates
  /\ held \in Requests \cup {None}
  /\ holding \in BOOLEAN
  /\ reserve \in Nat
  /\ sem \in Nat
  /\ active \in [0..2 -> Nat]
  /\ ahead \in [Requests -> SUBSET Requests]

\* r is counted in _active_by_priority, and r owns a unit of the semaphore.
Counted(r) ==
  \/ fpc[r] \in {"call", "refused", "deactivate", "respond", "dead"}
  \/ body[r] \in {"unstarted", "running", "suspended", "finally"}
OwnsSlot(r) == Counted(r) \/ fpc[r] = "release" \/ body[r] = "release"

Owners == {r \in Requests : OwnsSlot(r)}
ActiveSet(p) == {r \in Requests : Priority[r] = p /\ Counted(r)}

\* No unit of the semaphore is ever lost track of or given back twice: the
\* free ones, the dispatcher's, and those that requests own add up to --slots,
\* on every path of the dispatcher, of _forward and of the generator.
SlotAccounting ==
  sem + (IF holding THEN 1 ELSE 0) + Cardinality(Owners) = Slots

\* _active_by_priority counts exactly the requests that are being served (or
\* were lost while being served): the dispatcher decides on real numbers.
ActiveAccounting == \A p \in 0..2 : active[p] = Cardinality(ActiveSet(p))

\* The books are right on every path, those of errors and disconnections too.
Accounting == SlotAccounting /\ ActiveAccounting

\* What the semaphore is for: llama-server never sees more proxied requests at
\* a time than it has slots, though the slot is given back by another thread
\* than the one that took it.
UpstreamWithinSlots ==
  Cardinality({r \in Requests : \/ fpc[r] \in {"call", "respond"}
                                \/ body[r] \in {"unstarted", "running", "suspended"}})
    <= Slots

\* --reserved-chat-slots: moderate and batch requests together never occupy
\* more than Slots - Reserved slots, at any moment of any interleaving.
ReservationCap == ~Smart => NonChatActive <= Slots - Reserved

\* The second _pq.get() has no timeout and runs with a slot in hand: it never
\* finds the queue empty, because only the dispatcher empties it.
PopNeverBlocks == dpc \in {"acquire", "pop"} => queue # {}

\* A request is never forwarded before one of the same or a higher priority
\* that stood in line when it drew its number, however often either is put
\* back, unless that one was abandoned.
NoOvertaking ==
  \A r \in Requests : fpc[r] # "idle" =>
    \A q \in ahead[r] : fpc[q] # "idle" \/ abandoned[q]

\* --smart-preemption: a slot in hand is given up only for a chat request that
\* is waiting in the queue.  One that is merely being served never decides:
\* with it in a slot and the dispatcher's unit taken, the count stays below.
SmartYieldsToQueuedChat ==
  Smart /\ holding /\ dpc = "count" /\ Blocks => \E q \in queue : Priority[q] = 0

\* The abstract view: a request is served while it is counted as active.
Grant ==
  [r \in Requests |-> IF Counted(r) THEN "served"
                      ELSE IF fpc[r] = "idle" THEN "waiting" ELSE "returned"]

Promise ==
  INSTANCE Admission WITH grant <- Grant, Size <- Cardinality,
                          Cap <- IF Smart THEN Slots ELSE Slots - Reserved

\* The three kinds of threads together implement the admission control that
\* --slots and --reserved-chat-slots promise.
KeepsPromise == Promise!Spec

Answered(r) == hpc[r] \in {"timed_out", "answered", "broken"}

\* With no faults every request is forwarded and answered, the non-chat ones
\* too, when the reservation leaves them a slot.
EveryRequestServed ==
  \A r \in Requests : hpc[r] = "waiting" ~> hpc[r] = "answered"

-----------------------------------------------------------------------------
(* What a comment of proxy.py says and the code does not keep.              *)

\* proxy.py:197 "Dispatcher acquire()s before forwarding; _forward release()s
\* when done": a slot has an owner that is still going to give it back.  A
\* generator nobody will iterate, and a dead forwarding thread, are not.
SlotHasLiveOwner ==
  \A r \in Requests :
    /\ fpc[r] # "dead"
    /\ body[r] = "unstarted" => ~Answered(r)
=============================================================================
