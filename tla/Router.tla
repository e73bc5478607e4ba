------------------------------- MODULE Router -------------------------------
(***************************************************************************)
(* server_models: the router starts one llama-server process per model,    *)
(* forwards requests to it, and stops the least recently used one to make  *)
(* room for another.                                                       *)
(*                                                                         *)
(* Each client request has a thread of its own.  Each child process has    *)
(* three: the monitor, the log thread whose end it waits for, and the      *)
(* stopping thread, which waits for a stop request or the child's death    *)
(* and asks the child to exit, kills it after a timeout, or does nothing.  *)
(* Every critical section of `mutex' is one step, and so is what a thread  *)
(* does between two of them.  Once a child has closed its output it takes  *)
(* the kernel a moment until it can be reaped.                             *)
(*                                                                         *)
(* The list of models is fixed: the reload of load_models is left out.     *)
(***************************************************************************)
EXTENDS Integers, Sequences, FiniteSets, SequencesExt

CONSTANTS
  Models,
  Clients,
  Wants,      \* the models each client may ask for, one of them in a behaviour
  Unloaders,  \* the clients that ask to unload it; the others send it a request
  MaxModels,  \* --models-max, 0 for no limit
  Faults,     \* what may go wrong: "crash" of a child, "spawn" failing, "lag"
  MaxLines    \* bound: lines of a child that the router has not read yet

ASSUME RouterAssumption ==
  /\ IsFiniteSet(Models) /\ IsFiniteSet(Clients)
  /\ Wants \in [Clients -> (SUBSET Models) \ {{}}]
  /\ Unloaders \subseteq Clients
  /\ MaxModels \in Nat
  /\ Faults \subseteq {"crash", "spawn", "lag"}
  /\ MaxLines \in Nat \ {0}

VARIABLES
  status,    \* meta.status of each model
  failed,    \* meta.exit_code # 0
  recent,    \* the models by meta.last_used, the oldest first
  stopping,  \* stopping_models
  child,     \* the process of each model, its pipes and its threads
  pc,        \* where the thread of each client is
  victim,    \* lru_model_name of each client
  target,    \* the model of each client's request
  closing,   \* unload_all has been called
  crashed    \* kill(0, SIGKILL) has ended the router and its process group

vars ==
  <<status, failed, recent, stopping, child, pc, victim, target, closing, crashed>>

NoChild == [proc |-> "none", bad |-> FALSE, told |-> FALSE, out |-> <<>>,
            monitor |-> "none", stopper |-> "none"]

IsRunning(m) == status[m] # "unloaded"
Running == {m \in Models : IsRunning(m)}
AtLimit == MaxModels > 0 /\ Cardinality(Running) >= MaxModels

\* subprocess_alive of the child's record c: it has not been reaped and cannot be.
Alive(c) == c.proc \in {"loading", "up", "asleep", "exiting"}

\* The ways in which a process ends: some can be reaped only later.
Ending == {"dead"} \cup (IF "lag" \in Faults THEN {"exiting"} ELSE {})

\* Mutant: the stopping threads are not woken.
NotifiedNobody(ch) == ch

\* cv_stop.notify_all(): every stopping thread looks again.
Notified(ch) ==
  [m \in Models |-> IF ch[m].stopper = "waiting"
                    THEN [ch[m] EXCEPT !.stopper = "check"] ELSE ch[m]]

Init ==
  /\ status = [m \in Models |-> "unloaded"]
  /\ failed = [m \in Models |-> FALSE]
  /\ recent = SetToSeq(Models)
  /\ stopping = {}
  /\ child = [m \in Models |-> NoChild]
  /\ pc = [c \in Clients |-> "new"]
  /\ victim = [c \in Clients |-> CHOOSE m \in Models : TRUE]
  /\ target \in [Clients -> Models] /\ \A c \in Clients : target[c] \in Wants[c]
  /\ closing = FALSE /\ crashed = FALSE

-----------------------------------------------------------------------------
(* The threads of the clients *)

At(c, from, to) == ~crashed /\ pc[c] = from /\ pc' = [pc EXCEPT ![c] = to]

\* Mutant: a model used again keeps its old place too.
TouchTwice(m) == recent' = Append(recent, m)

Touch(m) ==
  \E i \in DOMAIN recent : recent[i] = m /\ recent' = Append(RemoveAt(recent, i), m)

\* The process of m is killed: a child that has been reaped has pid 0 by now.
Kill(m) ==
  IF child[m].proc = "reaped"
  THEN crashed' = TRUE /\ child' = child
  ELSE /\ UNCHANGED crashed
       /\ \E e \in Ending :
            child' = Notified(IF child[m].proc \in {"loading", "up", "asleep"}
                              THEN [child EXCEPT ![m].proc = e, ![m].bad = TRUE]
                              ELSE child)

\* unload(): a model that is still loading is killed, another asked to exit.
Unload(m) ==
  IF IsRunning(m)
  THEN /\ stopping' = stopping \cup {m}
       /\ IF status[m] = "loading"
          THEN Kill(m)
          ELSE child' = Notified(child) /\ UNCHANGED crashed
  ELSE UNCHANGED <<stopping, child, crashed>>

\* ensure_model_ready, first look.
Ensure(c) ==
  /\ c \notin Unloaders
  /\ \/ status[target[c]] \in {"loaded", "sleeping"} /\ At(c, "new", "proxy")
     \/ status[target[c]] = "loading" /\ At(c, "new", "loading")
     \/ status[target[c]] = "unloaded" /\ At(c, "new", "lru")
  /\ UNCHANGED <<status, failed, recent, stopping, child, victim, target, closing, crashed>>

\* unload_lru, first half: the running model that was used longest ago.
PickLru(c) ==
  /\ \/ ~AtLimit /\ At(c, "lru", "load") /\ UNCHANGED victim
     \/ /\ AtLimit /\ At(c, "lru", "evict")
        /\ \E i \in DOMAIN recent :
             /\ IsRunning(recent[i]) /\ \A j \in 1..(i - 1) : ~IsRunning(recent[j])
             /\ victim' = [victim EXCEPT ![c] = recent[i]]
  /\ UNCHANGED <<status, failed, recent, stopping, child, target, closing, crashed>>

Evict(c) ==
  /\ At(c, "evict", "evicted")
  /\ Unload(victim[c])
  /\ UNCHANGED <<status, failed, recent, victim, target, closing>>

\* unload_lru, second half: the wait for the unload to complete.
Evicted(c) ==
  /\ At(c, "evicted", "load")
  /\ status[victim[c]] = "unloaded"
  /\ UNCHANGED <<status, failed, recent, stopping, child, victim, target, closing, crashed>>

Spawned == [NoChild EXCEPT !.proc = "loading", !.monitor = "reading", !.stopper = "check"]

\* load() of a model that somebody else has started meanwhile.
LoadStarted(c) ==
  /\ At(c, "load", "loading")
  /\ IsRunning(target[c])
  /\ UNCHANGED <<status, failed, recent, stopping, child, victim, target, closing, crashed>>

\* load() when others have taken the room, or when the process cannot be started.
LoadRefused(c) ==
  /\ At(c, "load", "refused")
  /\ ~IsRunning(target[c])
  /\ AtLimit \/ "spawn" \in Faults
  /\ UNCHANGED <<status, failed, recent, stopping, child, victim, target, closing, crashed>>

\* Mutant: the limit is not looked at again under the lock.
LoadUnchecked(c) ==
  /\ At(c, "load", "loading")
  /\ ~IsRunning(target[c])
  /\ status' = [status EXCEPT ![target[c]] = "loading"]
  /\ child' = [child EXCEPT ![target[c]] = Spawned]
  /\ Touch(target[c])
  /\ UNCHANGED <<failed, stopping, victim, target, closing, crashed>>

Load(c) ==
  /\ At(c, "load", "loading")
  /\ ~IsRunning(target[c]) /\ ~AtLimit
  /\ status' = [status EXCEPT ![target[c]] = "loading"]
  /\ child' = [child EXCEPT ![target[c]] = Spawned]
  /\ Touch(target[c])
  /\ UNCHANGED <<failed, stopping, victim, target, closing, crashed>>

\* Mutant: the wait is for a model that is loaded, not for one that has stopped loading.
LoadingDoneReady(c) ==
  /\ At(c, "loading", "check")
  /\ status[target[c]] \in {"loaded", "sleeping"}
  /\ UNCHANGED <<status, failed, recent, stopping, child, victim, target, closing, crashed>>

\* wait_until_loading_finished
LoadingDone(c) ==
  /\ At(c, "loading", "check")
  /\ status[target[c]] # "loading"
  /\ UNCHANGED <<status, failed, recent, stopping, child, victim, target, closing, crashed>>

\* ensure_model_ready, last look.
Check(c) ==
  /\ IF status[target[c]] = "unloaded" /\ failed[target[c]]
     THEN At(c, "check", "refused") ELSE At(c, "check", "proxy")
  /\ UNCHANGED <<status, failed, recent, stopping, child, victim, target, closing, crashed>>

\* proxy_request: the answer, or an error if the child is not running, or not any more.
Proxy(c) ==
  /\ IF IsRunning(target[c])
     THEN Touch(target[c]) ELSE UNCHANGED recent
  /\ IF IsRunning(target[c]) /\ child[target[c]].proc \in {"up", "asleep"}
     THEN At(c, "proxy", "served") ELSE At(c, "proxy", "refused")
  /\ UNCHANGED <<status, failed, stopping, child, victim, target, closing, crashed>>

\* POST /models/unload
AskUnload(c) ==
  /\ c \in Unloaders
  /\ IF IsRunning(target[c]) THEN At(c, "new", "unload") ELSE At(c, "new", "refused")
  /\ UNCHANGED <<status, failed, recent, stopping, child, victim, target, closing, crashed>>

DoUnload(c) ==
  /\ At(c, "unload", "served")
  /\ Unload(target[c])
  /\ UNCHANGED <<status, failed, recent, victim, target, closing>>

Client(c) ==
  \/ Ensure(c) \/ PickLru(c) \/ Evict(c) \/ Evicted(c)
  \/ LoadStarted(c) \/ LoadRefused(c) \/ Load(c)
  \/ LoadingDone(c) \/ Check(c) \/ Proxy(c) \/ AskUnload(c) \/ DoUnload(c)

\* unload_all, on the main thread once the HTTP server has stopped.
UnloadAll ==
  /\ ~crashed /\ ~closing /\ closing' = TRUE
  /\ \A c \in Clients : pc[c] \in {"new", "served", "refused"}
  /\ pc' = [c \in Clients |-> IF pc[c] = "new" THEN "refused" ELSE pc[c]]
  /\ stopping' = stopping \cup Running
  /\ child' = Notified(child)
  /\ UNCHANGED <<status, failed, recent, victim, target, crashed>>

-----------------------------------------------------------------------------
(* The threads of a child process *)

Threads(m, new) == ~crashed /\ child' = [child EXCEPT ![m] = new]

\* The log thread reports what the child writes.
ReadLine(m) ==
  /\ child[m].monitor = "reading" /\ child[m].out # <<>>
  /\ status' = [status EXCEPT ![m] = Head(child[m].out)]
  /\ failed' = [failed EXCEPT ![m] = FALSE]
  /\ Threads(m, [child[m] EXCEPT !.out = Tail(@)])
  /\ UNCHANGED <<recent, stopping, pc, victim, target, closing, crashed>>

\* The child's output has ended: the stop request is forgotten.
Erase(m) ==
  /\ ~crashed
  /\ child[m].monitor = "reading" /\ child[m].out = <<>>
  /\ child[m].proc \in {"exiting", "dead", "reaped"}
  /\ stopping' = stopping \ {m}
  /\ child' = Notified([child EXCEPT ![m].monitor = "join"])
  /\ UNCHANGED <<status, failed, recent, pc, victim, target, closing, crashed>>

\* Both threads have been joined, and the process is reaped.
Reap(m) ==
  /\ child[m].monitor = "join" /\ child[m].stopper = "done"
  /\ child[m].proc \in {"dead", "reaped"}
  /\ Threads(m, [child[m] EXCEPT !.monitor = "report", !.proc = "reaped"])
  /\ UNCHANGED <<status, failed, recent, stopping, pc, victim, target, closing, crashed>>

Report(m) ==
  /\ child[m].monitor = "report"
  /\ status' = [status EXCEPT ![m] = "unloaded"]
  /\ failed' = [failed EXCEPT ![m] = child[m].bad]
  /\ Threads(m, [NoChild EXCEPT
                   !.proc = IF child[m].proc = "reaped" THEN "none" ELSE child[m].proc])
  /\ UNCHANGED <<recent, stopping, pc, victim, target, closing, crashed>>

\* should_wake: the child is reaped by looking whether it is alive.
StopperLooks(m) ==
  /\ child[m].stopper = "check"
  /\ Threads(m, IF m \in stopping THEN [child[m] EXCEPT !.stopper = "woken"]
                ELSE IF Alive(child[m]) THEN [child[m] EXCEPT !.stopper = "waiting"]
                ELSE [child[m] EXCEPT !.stopper = "woken", !.proc = "reaped"])
  /\ UNCHANGED <<status, failed, recent, stopping, pc, victim, target, closing, crashed>>

\* A child that is alive is told to exit.
StopperTells(m) ==
  /\ child[m].stopper = "woken"
  /\ Threads(m, IF Alive(child[m])
                THEN [child[m] EXCEPT !.stopper = "grace", !.told = TRUE]
                ELSE [child[m] EXCEPT !.stopper = "done", !.proc = "reaped"])
  /\ UNCHANGED <<status, failed, recent, stopping, pc, victim, target, closing, crashed>>

GraceOver(m) ==
  /\ child[m].stopper = "grace" /\ m \notin stopping
  /\ Threads(m, [child[m] EXCEPT !.stopper = "done"])
  /\ UNCHANGED <<status, failed, recent, stopping, pc, victim, target, closing, crashed>>

\* stop_timeout has passed.
ForceKill(m) ==
  /\ child[m].stopper = "grace" /\ m \in stopping
  /\ IF child[m].proc \in {"loading", "up", "asleep"}
     THEN \E e \in Ending :
            Threads(m, [child[m] EXCEPT !.stopper = "done", !.proc = e, !.bad = TRUE])
     ELSE Threads(m, [child[m] EXCEPT !.stopper = "done"])
  /\ UNCHANGED <<status, failed, recent, stopping, pc, victim, target, closing, crashed>>

Manage(m) ==
  \/ ReadLine(m) \/ Erase(m) \/ Reap(m) \/ Report(m)
  \/ StopperLooks(m) \/ StopperTells(m) \/ GraceOver(m) \/ ForceKill(m)

-----------------------------------------------------------------------------
(* The child process *)

Becomes(m, from, to, line) ==
  /\ child[m].proc = from /\ Len(child[m].out) < MaxLines
  /\ Threads(m, [child[m] EXCEPT !.proc = to, !.out = Append(@, line)])
  /\ UNCHANGED <<status, failed, recent, stopping, pc, victim, target, closing, crashed>>

\* The lines READY and SLEEP, as the status they set.
BecomeReady(m) == Becomes(m, "loading", "up", "loaded")
FallAsleep(m) == Becomes(m, "up", "asleep", "sleeping")
WakeUp(m) == Becomes(m, "asleep", "up", "loaded")

Ends(m, bad) ==
  /\ \E e \in Ending : Threads(m, [child[m] EXCEPT !.proc = e, !.bad = bad])
  /\ UNCHANGED <<status, failed, recent, stopping, pc, victim, target, closing, crashed>>

\* setup_child_server reads the command to exit only once the model is loaded.
Obey(m) == child[m].told /\ child[m].proc \in {"up", "asleep"} /\ Ends(m, FALSE)

Crash(m) ==
  "crash" \in Faults /\ child[m].proc \in {"loading", "up", "asleep"} /\ Ends(m, TRUE)

\* The kernel has finished with the process.
Reapable(m) ==
  /\ child[m].proc = "exiting"
  /\ Threads(m, [child[m] EXCEPT !.proc = "dead"])
  /\ UNCHANGED <<status, failed, recent, stopping, pc, victim, target, closing, crashed>>

Process(m) == BecomeReady(m) \/ Obey(m) \/ Reapable(m)

-----------------------------------------------------------------------------
Next ==
  \/ \E c \in Clients : Client(c)
  \/ \E m \in Models :
       Manage(m) \/ Process(m) \/ FallAsleep(m) \/ WakeUp(m) \/ Crash(m)
  \/ UnloadAll

Spec == Init /\ [][Next]_vars

\* Every thread of the router runs when it can; a child finishes loading its model,
\* obeys and can be reaped in the end.  Nothing has to sleep, crash or shut down.
FairSpec ==
  /\ Spec
  /\ \A c \in Clients : WF_vars(Client(c))
  /\ \A m \in Models :
       /\ WF_vars(ReadLine(m) \/ Erase(m) \/ Reap(m) \/ Report(m))
       /\ WF_vars(StopperLooks(m) \/ StopperTells(m) \/ GraceOver(m) \/ ForceKill(m))
       /\ WF_vars(Process(m))

-----------------------------------------------------------------------------
(* Properties *)

TypeOK ==
  /\ status \in [Models -> {"unloaded", "loading", "loaded", "sleeping"}]
  /\ failed \in [Models -> BOOLEAN]
  /\ Len(recent) = Cardinality(Models) /\ ToSet(recent) = Models
  /\ stopping \subseteq Models
  /\ child \in [Models ->
       [proc : {"none", "loading", "up", "asleep", "exiting", "dead", "reaped"},
        bad : BOOLEAN, told : BOOLEAN,
        out : UNION {[1..n -> {"loaded", "sleeping"}] : n \in 0..MaxLines},
        monitor : {"none", "reading", "join", "report"},
        stopper : {"none", "check", "waiting", "woken", "grace", "done"}]]
  /\ pc \in [Clients -> {"new", "lru", "evict", "evicted", "load", "loading", "check",
                         "proxy", "unload", "served", "refused"}]
  /\ victim \in [Clients -> Models] /\ target \in [Clients -> Models]
  /\ closing \in BOOLEAN /\ crashed \in BOOLEAN

\* The processes that exist are those of the models that are not UNLOADED, so nobody
\* starts a second process for a model, and --models-max, which counts by status,
\* bounds the processes in memory, whatever loads, unloads and crashes overlap.
WithinModelsMax ==
  /\ \A m \in Models : status[m] = "unloaded" <=> child[m].proc = "none"
  /\ MaxModels > 0 => Cardinality({m \in Models : child[m].proc # "none"}) <= MaxModels

\* Nobody kills the pid 0: force-killing a model that is loading ends that model
\* (server-models.cpp:917), and not the router's own process group.
KillsOnlyTheModel == ~crashed

\* The router lives, and a child can be reaped as soon as its output has ended.
Undisturbed == [](~crashed /\ \A m \in Models : child[m].proc # "exiting")

\* Every request is answered, whatever is loaded, evicted, unloaded or crashes
\* while it waits, unless the threads of a child are left hanging.  A third client
\* that loads the victim of an eviction again can keep it from being seen UNLOADED;
\* the instance checked has two.
EveryClientAnswered ==
  Undisturbed => \A c \in Clients : <>(pc[c] \in {"served", "refused"})

\* A stop request ends with the model UNLOADED: the child obeys, or is killed once
\* its time is up, also when it is still loading, asleep or has crashed by itself.
StopCompletes ==
  Undisturbed => \A m \in Models : (m \in stopping) ~> (status[m] = "unloaded")
=============================================================================
