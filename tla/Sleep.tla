------------------------------- MODULE Sleep -------------------------------
(***************************************************************************)
(* server_queue::start_loop with an idle timeout: the main loop falls      *)
(* asleep (the model is freed) and the handlers of new requests wake it    *)
(* and wait for it before they use the model and post their task.          *)
(*                                                                         *)
(* One condition variable, condition_tasks, serves the loop and the        *)
(* handlers.  A notification is for a process that waits at that moment:   *)
(* it will take the mutex and look at its condition again.  Every critical *)
(* section of mutex_tasks is one step; the calls that put the model to     *)
(* sleep and load it are made inside it.                                   *)
(***************************************************************************)
EXTENDS FiniteSets

CONSTANTS
  Handlers, \* threads of the HTTP server, one request each
  Loop,     \* the main thread
  Patient   \* the idle timeout is longer than what a handler does between two
            \* of its own steps (the timeout is 1 s at the least)

ASSUME SleepAssumption == Loop \notin Handlers /\ Patient \in BOOLEAN

VARIABLES
  loop,        \* where the main loop is
  sleeping,    \* sleeping
  reqStop,     \* req_stop_sleeping
  loopRunning, \* running
  queued,      \* queue_tasks: the handlers whose task is in it
  handler,     \* where each handler is
  woken        \* the waiting processes that were notified

sleepVars == <<loop, sleeping, reqStop, loopRunning, queued, handler, woken>>

SleepInit ==
  /\ loop = "unstarted"
  /\ sleeping = FALSE /\ reqStop = FALSE /\ loopRunning = FALSE
  /\ queued = {}
  /\ handler = [h \in Handlers |-> "new"]
  /\ woken = {}

Waiting == {h \in Handlers : handler[h] = "wait"} \cup (IF loop = "doze" THEN {Loop} ELSE {})

\* One of the processes that wait, not one that was notified before.  The loop
\* in wait_for looks again within a second, notified or not.
NotifyOne ==
  IF Waiting \subseteq woken THEN UNCHANGED woken
  ELSE \E p \in Waiting \ woken : woken' = woken \cup {p}

-----------------------------------------------------------------------------
(* A handler: wait_until_no_sleep, then post.                               *)

\* Mutant: the request is made, and nobody told.
AskSilently(h) ==
  /\ handler[h] = "new"
  /\ sleeping
  /\ handler' = [handler EXCEPT ![h] = "wait"]
  /\ reqStop' = TRUE
  /\ UNCHANGED <<loop, sleeping, loopRunning, queued, woken>>

\* The loop sleeps: the first handler asks it to stop, and all wait.
Ask(h) ==
  /\ handler[h] = "new"
  /\ sleeping
  /\ handler' = [handler EXCEPT ![h] = "wait"]
  /\ reqStop' = TRUE
  /\ IF reqStop THEN UNCHANGED woken ELSE NotifyOne
  /\ UNCHANGED <<loop, sleeping, loopRunning, queued>>

Told(h) ==
  /\ handler[h] = "new"
  /\ ~sleeping
  /\ handler' = [handler EXCEPT ![h] = "told"]
  /\ UNCHANGED <<loop, sleeping, reqStop, loopRunning, queued, woken>>

LookAgain(h) ==
  /\ handler[h] = "wait" /\ h \in woken
  /\ woken' = woken \ {h}
  /\ handler' = [handler EXCEPT ![h] = IF sleeping THEN "wait" ELSE "told"]
  /\ UNCHANGED <<loop, sleeping, reqStop, loopRunning, queued>>

PostTask(h) ==
  /\ handler[h] = "told"
  /\ handler' = [handler EXCEPT ![h] = "posted"]
  /\ queued' = queued \cup {h}
  /\ NotifyOne
  /\ UNCHANGED <<loop, sleeping, reqStop, loopRunning>>

-----------------------------------------------------------------------------
(* The main loop.                                                           *)

LoopStart ==
  /\ loop = "unstarted"
  /\ loop' = "take"
  /\ loopRunning' = TRUE
  /\ UNCHANGED <<sleeping, reqStop, queued, handler, woken>>

LoopEnd ==
  /\ loop = "take" /\ ~loopRunning
  /\ loop' = "ended"
  /\ UNCHANGED <<sleeping, reqStop, loopRunning, queued, handler, woken>>

ServeTask(h) ==
  /\ loop = "take" /\ loopRunning
  /\ h \in queued
  /\ queued' = queued \ {h}
  /\ handler' = [handler EXCEPT ![h] = "served"]
  /\ UNCHANGED <<loop, sleeping, reqStop, loopRunning, woken>>

\* All tasks are taken: callback_update_slots runs without the mutex.
Update ==
  /\ loop = "take" /\ loopRunning /\ queued = {}
  /\ loop' = "look"
  /\ UNCHANGED <<sleeping, reqStop, loopRunning, queued, handler, woken>>

\* should_sleep may hold: no task for as long as the idle timeout.
IdleLongEnough ==
  Patient => \A h \in Handlers : handler[h] # "told" /\ ~(handler[h] = "wait" /\ h \in woken)

\* Mutant: the queue is not looked at before the clock.
LookAtClock ==
  /\ loop = "look"
  /\ \/ /\ ~loopRunning
        /\ loop' = "take"
        /\ UNCHANGED <<sleeping, reqStop>>
     \/ /\ loopRunning
        /\ loop' = "idle"
        /\ UNCHANGED <<sleeping, reqStop>>
     \/ /\ loopRunning /\ IdleLongEnough
        /\ loop' = "doze"
        /\ sleeping' = TRUE
        /\ reqStop' = FALSE
  /\ UNCHANGED <<loopRunning, queued, handler, woken>>

\* The loop looks whether there is something to do, and waits up to a second or
\* goes to sleep if there is not.
Look ==
  /\ loop = "look"
  /\ \/ /\ ~loopRunning \/ queued # {}
        /\ loop' = "take"
        /\ UNCHANGED <<sleeping, reqStop>>
     \/ /\ loopRunning /\ queued = {}
        /\ loop' = "idle"
        /\ UNCHANGED <<sleeping, reqStop>>
     \/ /\ loopRunning /\ queued = {} /\ IdleLongEnough
        /\ loop' = "doze"
        /\ sleeping' = TRUE
        /\ reqStop' = FALSE
  /\ UNCHANGED <<loopRunning, queued, handler, woken>>

\* wait_for returns, at the latest after a second.
IdleReturn ==
  /\ loop = "idle"
  /\ loop' = IF queued # {} \/ ~loopRunning THEN "take" ELSE "look"
  /\ UNCHANGED <<sleeping, reqStop, loopRunning, queued, handler, woken>>

\* The loop was notified in its sleep: it stops, or it loads the model and tells
\* the handlers, or it was not meant and sleeps on.
DozeReturn ==
  /\ loop = "doze" /\ Loop \in woken
  /\ \/ /\ ~loopRunning
        /\ loop' = "take"
        /\ woken' = woken \ {Loop}
        /\ UNCHANGED <<sleeping, reqStop>>
     \/ /\ loopRunning /\ reqStop
        /\ loop' = "take"
        /\ sleeping' = FALSE
        /\ reqStop' = FALSE
        /\ woken' = Waiting \ {Loop}
     \/ /\ loopRunning /\ ~reqStop
        /\ woken' = woken \ {Loop}
        /\ UNCHANGED <<loop, sleeping, reqStop>>
  /\ UNCHANGED <<loopRunning, queued, handler>>

\* A signal, once the loop runs; before that it would be forgotten.
Terminate ==
  /\ loopRunning
  /\ loopRunning' = FALSE
  /\ woken' = Waiting
  /\ UNCHANGED <<loop, sleeping, reqStop, queued, handler>>

LoopStep ==
  \/ LoopStart \/ LoopEnd \/ Update \/ Look \/ IdleReturn \/ DozeReturn
  \/ \E h \in Handlers : ServeTask(h)

HandlerStep(h) == Ask(h) \/ Told(h) \/ LookAgain(h) \/ PostTask(h)

SleepNext == LoopStep \/ Terminate \/ \E h \in Handlers : HandlerStep(h)

\* A thread that can run does: the main loop, and a handler whose request has
\* come (it may never come).
SleepFairness ==
  /\ WF_sleepVars(LoopStep)
  /\ \A h \in Handlers : WF_sleepVars(LookAgain(h) \/ PostTask(h))

SleepSpec == SleepInit /\ [][SleepNext]_sleepVars
FairSleepSpec == SleepSpec /\ SleepFairness

-----------------------------------------------------------------------------
(* Properties.                                                              *)

\* The types; only those who wait can have been notified, and the loop is asked
\* to stop sleeping only while it sleeps.
SleepTypeOK ==
  /\ loop \in {"unstarted", "take", "look", "idle", "doze", "ended"}
  /\ sleeping \in BOOLEAN /\ reqStop \in BOOLEAN /\ loopRunning \in BOOLEAN
  /\ queued \subseteq Handlers
  /\ handler \in [Handlers -> {"new", "wait", "told", "posted", "served"}]
  /\ woken \subseteq Waiting
  /\ reqStop => sleeping

\* Whoever waits for the loop to wake up has asked for it, and the loop has been
\* told, not another handler: req_stop_sleeping is cleared twice (server-queue.cpp
\* :182, :191) and notify_one is meant for the loop only (:109).
WakeRequested ==
  loop = "doze" /\ (\E h \in Handlers : handler[h] = "wait") => reqStop /\ Loop \in woken

\* Tasks are processed and slots updated only with the model loaded.
AwakeAtWork ==
  [][(\E h \in Handlers : ServeTask(h)) \/ Update => ~sleeping]_sleepVars

\* wait_until_no_sleep returns, unless the loop was stopped in its sleep: then
\* `sleeping' is never cleared (server-queue.cpp:187), and the handler waits on.
HandlersReleased ==
  \A h \in Handlers : handler[h] = "wait" ~> handler[h] # "wait" \/ (sleeping /\ ~loopRunning)

\* A request that was told the server is awake is served, unless the server
\* stops: the task that is posted finds the loop awake.
TasksServed ==
  \A h \in Handlers : handler[h] = "told" ~> handler[h] = "served" \/ ~loopRunning

\* terminate() ends the loop from wherever it is.
LoopEnds == (loop # "unstarted" /\ ~loopRunning) ~> loop = "ended"

\* Sleeping harms nobody: the model is there when it is used, and handlers, tasks
\* and terminate() are answered whenever they come.
SleepServes == AwakeAtWork /\ HandlersReleased /\ TasksServed /\ LoopEnds
=============================================================================
