------------------------------ MODULE LogRing ------------------------------
(***************************************************************************)
(* common_log: the ring buffer every part of the server writes its log     *)
(* messages to, and the worker thread that prints them.                    *)
(*                                                                         *)
(* Any thread adds messages.  One thread at a time controls the log: it    *)
(* flushes it, or changes its file or its colours with the worker stopped  *)
(* (pause and resume are "not thread-safe").  Every critical section of    *)
(* mtx is one step; printing and joining are outside it.  Accepted         *)
(* messages are known by their number, 1, 2, ...; the text is abstracted.  *)
(***************************************************************************)
EXTENDS Integers

CONSTANTS
  Capacity,  \* entries the buffer starts with (256 in the program)
  MaxAdds    \* bound: messages accepted

ASSUME CapacityAssumption == Capacity \in Nat \ {0} /\ MaxAdds \in Nat

VARIABLES
  size,     \* entries.size()
  entries,  \* entries
  head,     \* head
  tail,     \* tail
  running,  \* running
  worker,   \* the worker: "wait" in cv.wait, "print", "ended", "none" if joined
  cur,      \* cur: the message the worker prints
  control,  \* the controlling thread: "out" of the log, in "join", "paused",
            \* or about to "resume" after set_file or set_colors changed sink
  sink,     \* counts the changes of file and g_col, modulo 2
  nAdded,   \* messages accepted so far
  printed   \* the last message printed

vars == <<size, entries, head, tail, running, worker, cur, control, sink,
          nAdded, printed>>

Entry == [msg : Nat, is_end : BOOLEAN]
Blank == [msg |-> 0, is_end |-> FALSE]

\* Mutant: wraps one entry late.
IncLate(i) == IF i = size THEN 0 ELSE i + 1

\* (i + 1) % entries.size()
Inc(i) == IF i + 1 = size THEN 0 ELSE i + 1

\* How far entry i is behind head, and how many entries are pending.
Offset(i) == IF i >= head THEN i - head ELSE i - head + size
Pending == Offset(tail)

Init ==
  /\ size = Capacity
  /\ entries = [i \in 0..Capacity - 1 |-> Blank]
  /\ head = 0 /\ tail = 0
  /\ running = TRUE
  /\ worker = "wait"
  /\ cur = Blank
  /\ control = "out"
  /\ sink = 0
  /\ nAdded = 0 /\ printed = 0

-----------------------------------------------------------------------------
(* Any thread *)

Written == [entries EXCEPT ![tail] = [msg |-> nAdded + 1, is_end |-> FALSE]]

\* Mutant: the buffer grows in place, the oldest entry not moved to the front.
GrownInPlace == [i \in 0..2 * size - 1 |-> IF i >= size THEN Blank ELSE Written[i]]

\* The buffer of a full ring, twice as long, its oldest entry first.
Unrolled ==
  [i \in 0..2 * size - 1 |->
     IF i >= size THEN Blank
     ELSE Written[IF head + i < size THEN head + i ELSE head + i - size]]

Add ==
  /\ running
  /\ nAdded < MaxAdds
  /\ IF Inc(tail) = head
     THEN /\ entries' = Unrolled
          /\ head' = 0 /\ tail' = size
          /\ size' = 2 * size
     ELSE /\ entries' = Written
          /\ tail' = Inc(tail)
          /\ UNCHANGED <<head, size>>
  /\ nAdded' = nAdded + 1
  /\ UNCHANGED <<running, worker, cur, control, sink, printed>>

-----------------------------------------------------------------------------
(* The worker *)

\* Mutant: the worker takes nothing more once the log is no longer running.
TakeRunning ==
  /\ worker = "wait"
  /\ running
  /\ head # tail
  /\ cur' = entries[head]
  /\ head' = Inc(head)
  /\ worker' = IF entries[head].is_end THEN "ended" ELSE "print"
  /\ UNCHANGED <<size, entries, tail, running, control, sink, nAdded, printed>>

Take ==
  /\ worker = "wait"
  /\ head # tail
  /\ cur' = entries[head]
  /\ head' = Inc(head)
  /\ worker' = IF entries[head].is_end THEN "ended" ELSE "print"
  /\ UNCHANGED <<size, entries, tail, running, control, sink, nAdded, printed>>

Emit ==
  /\ worker = "print"
  /\ printed' = cur.msg
  /\ worker' = "wait"
  /\ UNCHANGED <<size, entries, head, tail, running, cur, control, sink, nAdded>>

-----------------------------------------------------------------------------
(* The controlling thread *)

\* Mutant: the end marker overwrites the message before it.
PauseOverwrites ==
  /\ control = "out"
  /\ running' = FALSE
  /\ entries' = IF Pending < 2 THEN [entries EXCEPT ![tail].is_end = TRUE]
               ELSE [entries EXCEPT ![IF tail = 0 THEN size - 1 ELSE tail - 1].is_end = TRUE]
  /\ tail' = IF Pending < 2 THEN Inc(tail) ELSE tail
  /\ control' = "join"
  /\ UNCHANGED <<size, head, worker, cur, sink, nAdded, printed>>

\* pause(): unlike add(), it does not look whether tail has reached head.
Pause ==
  /\ control = "out"
  /\ running' = FALSE
  /\ entries' = [entries EXCEPT ![tail].is_end = TRUE]
  /\ tail' = Inc(tail)
  /\ control' = "join"
  /\ UNCHANGED <<size, head, worker, cur, sink, nAdded, printed>>

Join ==
  /\ control = "join"
  /\ worker = "ended"
  /\ worker' = "none"
  /\ control' = "paused"
  /\ UNCHANGED <<size, entries, head, tail, running, cur, sink, nAdded, printed>>

\* set_file and set_colors between their pause() and their resume()
ChangeSink ==
  /\ control = "paused"
  /\ sink' = 1 - sink
  /\ control' = "resume"
  /\ UNCHANGED <<size, entries, head, tail, running, worker, cur, nAdded, printed>>

Resume ==
  /\ control \in {"paused", "resume"}
  /\ running' = TRUE
  /\ worker' = "wait"
  /\ control' = "out"
  /\ UNCHANGED <<size, entries, head, tail, cur, sink, nAdded, printed>>

Next == Add \/ Take \/ Emit \/ Pause \/ Join \/ ChangeSink \/ Resume

Spec == Init /\ [][Next]_vars

\* The worker runs whenever it can, and join() returns once it has ended.
\* Nobody has to add a message or to pause the log.
FairSpec == Spec /\ WF_vars(Take \/ Emit) /\ WF_vars(Join)

-----------------------------------------------------------------------------
(* Properties *)

\* The indices stay inside the buffer through every wrap and every expansion
\* (common/log.cpp:228-249).
TypeOK ==
  /\ size \in Nat \ {0}
  /\ entries \in [0..size - 1 -> Entry]
  /\ head \in 0..size - 1
  /\ tail \in 0..size - 1
  /\ running \in BOOLEAN
  /\ worker \in {"wait", "print", "ended", "none"}
  /\ cur \in Entry
  /\ control \in {"out", "join", "paused", "resume"}
  /\ sink \in 0..1
  /\ nAdded \in Nat
  /\ printed \in Nat

\* Messages come out in the order they were accepted, none lost and none twice,
\* however often the ring wraps, expands, and stops and starts its worker.
InOrder == [][printed' # printed => printed' = printed + 1]_vars

\* When pause() returns, every message accepted before it has been printed:
\* "flush all pending log messages" (common/log.h:92).
FlushedOnReturn == control \in {"paused", "resume"} => printed = nAdded

\* set_file closes and replaces the file, and set_colors rewrites the colour
\* table, while no worker is there to use them: neither is under mtx.
SinkUnshared == [][sink' # sink => worker = "none"]_vars

\* A pause() that found an entry free behind its end marker returns
\* (common/log.cpp:295: "push an entry to signal the worker thread to stop").
\* One whose marker fills the ring does not: tail has come round to head, the
\* worker finds the ring empty, and join() never returns.
FlushReturnsIfRoom == (control = "join" /\ head # tail) ~> (control = "paused")

\* What is added is printed, once and in the order of the additions, all of it
\* before a pause returns, and the sink is not changed under the worker's hands.
LogKept == []FlushedOnReturn /\ InOrder /\ SinkUnshared
=============================================================================
