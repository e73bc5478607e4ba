---------------------------- MODULE RouterProofs ----------------------------
(***************************************************************************)
(* Proof that the router never has more processes than --models-max        *)
(* allows, and of type correctness with the order in which models were     *)
(* used, for any models, clients and faults.                               *)
(***************************************************************************)
EXTENDS Router, FiniteSetTheorems, TLAPS

Statuses == {"unloaded", "loading", "loaded", "sleeping"}
Children ==
  [proc : {"none", "loading", "up", "asleep", "exiting", "dead", "reaped"},
   bad : BOOLEAN, told : BOOLEAN, out : Seq({"loaded", "sleeping"}),
   monitor : {"none", "reading", "join", "report"},
   stopper : {"none", "check", "waiting", "woken", "grace", "done"}]

\* A model that is UNLOADED has no process, and a process has its threads until the
\* monitor has reaped it: from there on nobody but the monitor touches it.
Fits(s, c) ==
  /\ s = "unloaded" <=> c.proc = "none"
  /\ c.proc = "none" <=> c.monitor = "none"
  /\ c.monitor = "none" => c.stopper = "none"
  /\ c.monitor = "report" => c.proc = "reaped" /\ c.stopper = "done"

FitsAll(st, ch) ==
  /\ st \in [Models -> Statuses] /\ ch \in [Models -> Children]
  /\ \A m \in Models : Fits(st[m], ch[m])

Room == MaxModels > 0 => Cardinality(Running) <= MaxModels

RouterInv ==
  /\ FitsAll(status, child)
  /\ Room
  /\ target \in [Clients -> Models]

-----------------------------------------------------------------------------
LEMMA OneModel ==
  ASSUME NEW st, NEW ch, FitsAll(st, ch), NEW m \in Models, NEW s \in Statuses,
         NEW c \in Children, Fits(s, c)
  PROVE  FitsAll([st EXCEPT ![m] = s], [ch EXCEPT ![m] = c])
BY DEF FitsAll

LEMMA OneChild ==
  ASSUME NEW st, NEW ch, FitsAll(st, ch), NEW m \in Models,
         NEW c \in Children, Fits(st[m], c)
  PROVE  FitsAll(st, [ch EXCEPT ![m] = c])
BY DEF FitsAll

LEMMA Notify == ASSUME NEW st, NEW ch, FitsAll(st, ch) PROVE FitsAll(st, Notified(ch))
<1>1. ASSUME NEW m \in Models
      PROVE  Notified(ch)[m] \in Children /\ Fits(st[m], Notified(ch)[m])
  <2>1. ch[m] \in Children /\ Fits(st[m], ch[m])
    BY DEF FitsAll
  <2>2. CASE ch[m].stopper = "waiting"
    <3>1. Notified(ch)[m] = [ch[m] EXCEPT !.stopper = "check"]
      BY <2>2 DEF Notified
    <3> QED BY <2>1, <2>2, <3>1 DEF Children, Fits
  <2>3. CASE ch[m].stopper # "waiting"
    BY <2>1, <2>3 DEF Notified
  <2> QED BY <2>2, <2>3
<1>2. Notified(ch) \in [Models -> Children]
  <2>1. Notified(ch) = [m \in Models |-> Notified(ch)[m]]
    BY DEF Notified
  <2> QED BY <1>1, <2>1
<1> QED BY <1>1, <1>2 DEF FitsAll

\* A step that does not change a status leaves the room as it is.
LEMMA SameStatus ==
  ASSUME RouterInv, FitsAll(status, child'), UNCHANGED <<status, target>>
  PROVE  RouterInv'
BY DEF RouterInv, Room, Running, IsRunning

\* One child changes, and no status.
LEMMA ChildChanges ==
  ASSUME RouterInv, NEW m \in Models, NEW c \in Children, Fits(status[m], c),
         child' = [child EXCEPT ![m] = c], UNCHANGED <<status, target>>
  PROVE  RouterInv'
BY OneChild, SameStatus DEF RouterInv

\* The models that run become no more.
LEMMA RoomKept ==
  ASSUME RouterInv, \A m \in Models : status'[m] # "unloaded" => status[m] # "unloaded"
  PROVE  Room'
<1>1. Running' \subseteq Running
  BY DEF Running, IsRunning
<1>2. IsFiniteSet(Running)
  BY RouterAssumption, FS_Subset DEF Running
<1>3. Cardinality(Running') <= Cardinality(Running)
        /\ Cardinality(Running') \in Nat /\ Cardinality(Running) \in Nat
  BY <1>1, <1>2, FS_Subset, FS_CardinalityType
<1> QED BY <1>3, RouterAssumption DEF RouterInv, Room

-----------------------------------------------------------------------------
LEMMA EmptyOutput == <<>> \in Seq({"loaded", "sleeping"})
OBVIOUS

LEMMA RouterStart == Init => RouterInv
<1> SUFFICES ASSUME Init PROVE RouterInv
  OBVIOUS
<1>1. NoChild \in Children /\ Fits("unloaded", NoChild)
  BY DEF NoChild, Children, Fits
<1>2. FitsAll(status, child)
  BY <1>1 DEF Init, FitsAll, Statuses
<1>3. Running = {}
  BY DEF Init, Running, IsRunning
<1>4. Room
  BY <1>3, FS_EmptySet, RouterAssumption DEF Room
<1> QED BY <1>2, <1>4 DEF Init, RouterInv

LEMMA KillFits ==
  ASSUME RouterInv, NEW m, Kill(m) PROVE FitsAll(status, child')
<1>1. CASE child[m].proc = "reaped"
  BY <1>1 DEF Kill, RouterInv
<1>2. CASE child[m].proc # "reaped"
  <2>1. PICK e \in Ending :
          child' = Notified(IF child[m].proc \in {"loading", "up", "asleep"}
                            THEN [child EXCEPT ![m].proc = e, ![m].bad = TRUE]
                            ELSE child)
    BY <1>2 DEF Kill
  <2>2. CASE m \in Models /\ child[m].proc \in {"loading", "up", "asleep"}
    <3> DEFINE c == [child[m] EXCEPT !.proc = e, !.bad = TRUE]
    <3>1. child[m] \in Children /\ Fits(status[m], child[m]) /\ child \in [Models -> Children]
      BY <2>2 DEF RouterInv, FitsAll
    <3>2. e \in {"dead", "exiting"}
      BY DEF Ending
    <3>3. c \in Children /\ Fits(status[m], c)
      BY <2>2, <3>1, <3>2 DEF Children, Fits
    <3>4. [child EXCEPT ![m].proc = e, ![m].bad = TRUE] = [child EXCEPT ![m] = c]
      BY <2>2, <3>1
    <3>5. FitsAll(status, [child EXCEPT ![m] = c])
      BY <2>2, <3>3, OneChild DEF RouterInv
    <3> QED BY <2>1, <2>2, <3>4, <3>5, Notify
  <2>3. CASE m \in Models /\ child[m].proc \notin {"loading", "up", "asleep"}
    BY <2>1, <2>3, Notify DEF RouterInv
  <2>4. CASE m \notin Models
    <3>1. child \in [Models -> Children]
      BY DEF RouterInv, FitsAll
    <3>2. [child EXCEPT ![m].proc = e, ![m].bad = TRUE] = child
      BY <2>4, <3>1
    <3> QED BY <2>1, <3>2, Notify DEF RouterInv
  <2> QED BY <2>2, <2>3, <2>4
<1> QED BY <1>1, <1>2

LEMMA UnloadFits ==
  ASSUME RouterInv, NEW m, Unload(m) PROVE FitsAll(status, child')
<1>1. FitsAll(status, child)
  BY DEF RouterInv
<1>2. CASE child' = child
  BY <1>1, <1>2
<1>3. CASE child' = Notified(child)
  BY <1>1, <1>3, Notify
<1>4. CASE Kill(m)
  BY <1>4, KillFits
<1> QED BY <1>2, <1>3, <1>4 DEF Unload

LEMMA LoadKeeps ==
  ASSUME RouterInv, NEW c \in Clients, Load(c) PROVE RouterInv'
<1> DEFINE t == target[c]
<1>1. t \in Models /\ status[t] = "unloaded" /\ ~AtLimit
  BY DEF RouterInv, Load, IsRunning
<1>2. Spawned \in Children /\ Fits("loading", Spawned)
  BY EmptyOutput DEF Spawned, NoChild, Children, Fits
<1>3. FitsAll(status', child')
  <2>1. FitsAll([status EXCEPT ![t] = "loading"], [child EXCEPT ![t] = Spawned])
    BY <1>1, <1>2, OneModel DEF RouterInv, Statuses
  <2> QED BY <2>1 DEF Load
<1>4. Running' = Running \cup {t} /\ t \notin Running
  BY <1>1 DEF Load, Running, IsRunning, RouterInv, FitsAll
<1>5. IsFiniteSet(Running)
  BY RouterAssumption, FS_Subset DEF Running
<1>6. Cardinality(Running \cup {t}) = Cardinality(Running) + 1
  BY <1>4, <1>5, FS_AddElement
<1>7. Cardinality(Running) \in Nat
  BY <1>5, FS_CardinalityType
<1>8. Room'
  <2>1. MaxModels > 0 => Cardinality(Running) < MaxModels
    BY <1>1, <1>7, RouterAssumption DEF AtLimit
  <2>2. Cardinality(Running') = Cardinality(Running) + 1
    BY <1>4, <1>6
  <2> QED BY <1>7, <2>1, <2>2, RouterAssumption DEF Room
<1> QED BY <1>3, <1>8 DEF Load, RouterInv

LEMMA ClientKeeps ==
  ASSUME RouterInv, NEW c \in Clients, Client(c) PROVE RouterInv'
<1>1. CASE UNCHANGED <<status, child, target>>
  BY <1>1, SameStatus DEF RouterInv
<1>2. CASE Load(c)
  BY <1>2, LoadKeeps
<1>3. CASE Evict(c)
  BY <1>3, UnloadFits, SameStatus DEF Evict
<1>4. CASE DoUnload(c)
  BY <1>4, UnloadFits, SameStatus DEF DoUnload
<1> QED
  BY <1>1, <1>2, <1>3, <1>4
     DEF Client, Ensure, PickLru, Evicted, LoadStarted, LoadRefused, LoadingDone, Check,
         Proxy, AskUnload

-----------------------------------------------------------------------------
LEMMA ReadLineKeeps ==
  ASSUME RouterInv, NEW m \in Models, ReadLine(m) PROVE RouterInv'
<1> DEFINE c == [child[m] EXCEPT !.out = Tail(@)]
<1> DEFINE s == Head(child[m].out)
<1>1. child[m] \in Children /\ Fits(status[m], child[m]) /\ child[m].out # <<>>
        /\ child[m].monitor = "reading"
  BY DEF RouterInv, FitsAll, ReadLine
<1>2. s \in {"loaded", "sleeping"} /\ Tail(child[m].out) \in Seq({"loaded", "sleeping"})
  BY <1>1 DEF Children
<1>3. c \in Children /\ Fits(s, c)
  BY <1>1, <1>2 DEF Children, Fits
<1>4. FitsAll(status', child')
  <2>1. s \in Statuses
    BY <1>2 DEF Statuses
  <2>2. FitsAll([status EXCEPT ![m] = s], [child EXCEPT ![m] = c])
    BY <1>3, <2>1, OneModel DEF RouterInv
  <2> QED BY <2>2 DEF ReadLine, Threads
<1>5. \A n \in Models : status'[n] # "unloaded" => status[n] # "unloaded"
  BY <1>1 DEF ReadLine, RouterInv, FitsAll, Fits
<1> QED BY <1>4, <1>5, RoomKept DEF RouterInv, ReadLine

LEMMA ReportKeeps ==
  ASSUME RouterInv, NEW m \in Models, Report(m) PROVE RouterInv'
<1>1. child[m].proc = "reaped"
  BY DEF RouterInv, FitsAll, Fits, Report
<1>2. child' = [child EXCEPT ![m] = [NoChild EXCEPT !.proc = "none"]]
  BY <1>1 DEF Report, Threads
<1>3. [NoChild EXCEPT !.proc = "none"] \in Children
        /\ Fits("unloaded", [NoChild EXCEPT !.proc = "none"])
  BY EmptyOutput DEF NoChild, Children, Fits
<1>4. FitsAll(status', child')
  <2>1. FitsAll([status EXCEPT ![m] = "unloaded"], [child EXCEPT ![m] = [NoChild EXCEPT !.proc = "none"]])
    BY <1>3, OneModel DEF RouterInv, Statuses
  <2> QED BY <1>2, <2>1 DEF Report
<1>5. \A n \in Models : status'[n] # "unloaded" => status[n] # "unloaded"
  BY DEF Report, RouterInv, FitsAll
<1> QED BY <1>4, <1>5, RoomKept DEF RouterInv, Report

LEMMA EraseKeeps ==
  ASSUME RouterInv, NEW m \in Models, Erase(m) PROVE RouterInv'
<1> DEFINE c == [child[m] EXCEPT !.monitor = "join"]
<1>1. child[m] \in Children /\ Fits(status[m], child[m]) /\ child[m].monitor = "reading"
        /\ child \in [Models -> Children]
  BY DEF RouterInv, FitsAll, Erase
<1>2. c \in Children /\ Fits(status[m], c)
  BY <1>1 DEF Children, Fits
<1>3. child' = Notified([child EXCEPT ![m] = c])
  BY <1>1 DEF Erase
<1>4. FitsAll(status, child')
  BY <1>2, <1>3, OneChild, Notify DEF RouterInv
<1> QED BY <1>4, SameStatus DEF Erase

\* The other steps of the threads of a child, and those of the process itself:
\* they change the record of the child, which still fits.
LEMMA RecordKeeps ==
  ASSUME RouterInv, NEW m \in Models,
         \/ Reap(m) \/ StopperLooks(m) \/ StopperTells(m) \/ GraceOver(m) \/ ForceKill(m)
         \/ Process(m) \/ FallAsleep(m) \/ WakeUp(m) \/ Crash(m)
  PROVE  RouterInv'
<1>1. child[m] \in Children /\ Fits(status[m], child[m])
  BY DEF RouterInv, FitsAll
<1>2. UNCHANGED <<status, target>>
  BY DEF Reap, StopperLooks, StopperTells, GraceOver, ForceKill, Process, FallAsleep, WakeUp,
         Crash, BecomeReady, Becomes, Obey, Ends, Reapable
<1> SUFFICES \E c \in Children : Fits(status[m], c) /\ child' = [child EXCEPT ![m] = c]
  BY <1>2, ChildChanges
<1> DEFINE Changes(c) == c \in Children /\ Fits(status[m], c) /\ Threads(m, c)
<1> SUFFICES \E c : Changes(c)
  BY DEF Threads
<1>3. CASE Reap(m)
  <2>1. Changes([child[m] EXCEPT !.monitor = "report", !.proc = "reaped"])
    BY <1>1, <1>3 DEF Reap, Children, Fits
  <2> QED BY <2>1
<1>4. CASE StopperLooks(m)
  <2>1. child[m].stopper = "check"
    BY <1>4 DEF StopperLooks
  <2>2. Changes([child[m] EXCEPT !.stopper = "woken"])
        \/ Changes([child[m] EXCEPT !.stopper = "waiting"])
        \/ Changes([child[m] EXCEPT !.stopper = "woken", !.proc = "reaped"])
    BY <1>1, <1>4, <2>1 DEF StopperLooks, Children, Fits
  <2> QED BY <2>2
<1>5. CASE StopperTells(m)
  <2>1. child[m].stopper = "woken"
    BY <1>5 DEF StopperTells
  <2>2. Changes([child[m] EXCEPT !.stopper = "grace", !.told = TRUE])
        \/ Changes([child[m] EXCEPT !.stopper = "done", !.proc = "reaped"])
    BY <1>1, <1>5, <2>1 DEF StopperTells, Children, Fits
  <2> QED BY <2>2
<1>6. CASE GraceOver(m)
  <2>1. Changes([child[m] EXCEPT !.stopper = "done"])
    BY <1>1, <1>6 DEF GraceOver, Children, Fits
  <2> QED BY <2>1
<1>7. CASE ForceKill(m)
  <2>1. child[m].stopper = "grace"
    BY <1>7 DEF ForceKill
  <2>2. CASE child[m].proc \in {"loading", "up", "asleep"}
    <3>1. PICK e \in Ending :
            Threads(m, [child[m] EXCEPT !.stopper = "done", !.proc = e, !.bad = TRUE])
      BY <1>7, <2>2 DEF ForceKill
    <3>2. e \in {"dead", "exiting"}
      BY DEF Ending
    <3>3. Changes([child[m] EXCEPT !.stopper = "done", !.proc = e, !.bad = TRUE])
      BY <1>1, <2>1, <2>2, <3>1, <3>2 DEF Children, Fits
    <3> QED BY <3>3
  <2>3. CASE child[m].proc \notin {"loading", "up", "asleep"}
    <3>1. Changes([child[m] EXCEPT !.stopper = "done"])
      BY <1>1, <1>7, <2>1, <2>3 DEF ForceKill, Children, Fits
    <3> QED BY <3>1
  <2> QED BY <2>2, <2>3
<1>8. ASSUME NEW from \in {"loading", "up", "asleep"}, NEW to \in {"up", "asleep"},
             NEW line \in {"loaded", "sleeping"}, Becomes(m, from, to, line)
      PROVE  \E c : Changes(c)
  <2>1. Append(child[m].out, line) \in Seq({"loaded", "sleeping"})
    BY <1>1 DEF Children
  <2>2. Changes([child[m] EXCEPT !.proc = to, !.out = Append(@, line)])
    BY <1>1, <1>8, <2>1 DEF Becomes, Children, Fits
  <2> QED BY <2>2
<1>9. CASE BecomeReady(m) \/ FallAsleep(m) \/ WakeUp(m)
  BY <1>8, <1>9 DEF BecomeReady, FallAsleep, WakeUp
<1>10. ASSUME NEW bad \in BOOLEAN, child[m].proc \in {"loading", "up", "asleep"}, Ends(m, bad)
       PROVE  \E c : Changes(c)
  <2>1. PICK e \in Ending : Threads(m, [child[m] EXCEPT !.proc = e, !.bad = bad])
    BY <1>10 DEF Ends
  <2>2. e \in {"dead", "exiting"}
    BY DEF Ending
  <2>3. Changes([child[m] EXCEPT !.proc = e, !.bad = bad])
    BY <1>1, <1>10, <2>1, <2>2 DEF Children, Fits
  <2> QED BY <2>3
<1>11. CASE Obey(m) \/ Crash(m)
  BY <1>10, <1>11 DEF Obey, Crash
<1>12. CASE Reapable(m)
  <2>1. Changes([child[m] EXCEPT !.proc = "dead"])
    BY <1>1, <1>12 DEF Reapable, Children, Fits
  <2> QED BY <2>1
<1> QED BY <1>3, <1>4, <1>5, <1>6, <1>7, <1>9, <1>11, <1>12 DEF Process

-----------------------------------------------------------------------------
\* The invariant, for every number of models and clients.
THEOREM RouterCorrect == Spec => []RouterInv
<1>1. RouterInv /\ [Next]_vars => RouterInv'
  <2> SUFFICES ASSUME RouterInv, [Next]_vars PROVE RouterInv'
    OBVIOUS
  <2>1. CASE \E c \in Clients : Client(c)
    BY <2>1, ClientKeeps
  <2>2. ASSUME NEW m \in Models,
               Manage(m) \/ Process(m) \/ FallAsleep(m) \/ WakeUp(m) \/ Crash(m)
        PROVE  RouterInv'
    BY <2>2, ReadLineKeeps, ReportKeeps, EraseKeeps, RecordKeeps DEF Manage
  <2>3. CASE UnloadAll
    <3>1. FitsAll(status, child')
      BY <2>3, Notify DEF UnloadAll, RouterInv
    <3> QED BY <2>3, <3>1, SameStatus DEF UnloadAll
  <2>4. CASE UNCHANGED vars
    BY <2>4, SameStatus DEF vars, RouterInv
  <2> QED BY <2>1, <2>2, <2>3, <2>4 DEF Next
<1> QED BY RouterStart, <1>1, PTL DEF Spec

\* There is a process for a model just when it is not UNLOADED, and never more than
\* --models-max of them (server-models.cpp:746): whatever loads, evictions, unloads,
\* kills and crashes overlap.
THEOREM ProcessesBounded == Spec => []WithinModelsMax
<1>1. RouterInv => WithinModelsMax
  <2> SUFFICES ASSUME RouterInv PROVE WithinModelsMax
    OBVIOUS
  <2>1. \A m \in Models : status[m] = "unloaded" <=> child[m].proc = "none"
    BY DEF RouterInv, FitsAll, Fits
  <2>2. {m \in Models : child[m].proc # "none"} = Running
    BY <2>1 DEF Running, IsRunning
  <2> QED BY <2>1, <2>2 DEF RouterInv, Room, WithinModelsMax
<1> QED BY RouterCorrect, <1>1, PTL
-----------------------------------------------------------------------------
(* Type correctness, and with it that the order of use holds every model once *)

Short(ch) == \A m \in Models : Len(ch[m].out) <= MaxLines

\* The order of use is a permutation of the models.
Ordered(r) ==
  /\ r \in Seq(Models) /\ Len(r) = Cardinality(Models)
  /\ \A i, j \in 1..Len(r) : r[i] = r[j] => i = j
  /\ \A m \in Models : \E i \in 1..Len(r) : r[i] = m

Stages == {"new", "lru", "evict", "evicted", "load", "loading", "check",
           "proxy", "unload", "served", "refused"}

Threaded ==
  /\ failed \in [Models -> BOOLEAN] /\ stopping \subseteq Models
  /\ pc \in [Clients -> Stages] /\ victim \in [Clients -> Models]
  /\ closing \in BOOLEAN /\ crashed \in BOOLEAN

TypeInv == RouterInv /\ Ordered(recent) /\ Short(child) /\ Threaded

LEMMA ModelsCounted == Cardinality(Models) \in Nat
BY RouterAssumption, FS_CardinalityType

\* SetToSeq enumerates the models.
LEMMA FirstOrder == Ordered(SetToSeq(Models))
<1>1. PICK n \in Nat : n = Cardinality(Models)
  BY ModelsCounted
<1>2. ExistsBijection(1..n, Models)
  BY <1>1, RouterAssumption, FS_CardinalityType
<1>3. PICK f : f \in [1..n -> Models] /\ \A i, j \in 1..n : f[i] = f[j] => i = j
  BY <1>2 DEF ExistsBijection, Bijection, Injection, IsInjective
<1>4. \E g \in [1..Cardinality(Models) -> Models] : IsInjective(g)
  BY <1>1, <1>3 DEF IsInjective
<1> DEFINE r == SetToSeq(Models)
<1>5. r \in [1..n -> Models] /\ \A i, j \in 1..n : r[i] = r[j] => i = j
  BY <1>1, <1>4 DEF SetToSeq, IsInjective
<1> HIDE DEF r
<1>6. r \in Injection(1..n, Models)
  BY <1>5 DEF Injection, IsInjective
<1>7. IsFiniteSet(1..n) /\ Cardinality(1..n) = n
  BY FS_Interval, <1>1
<1>8. r \in Surjection(1..n, Models)
  BY <1>1, <1>6, <1>7, FS_Injection, RouterAssumption
<1>9. \A m \in Models : \E i \in 1..n : r[i] = m
  BY <1>8 DEF Surjection
<1>10. r \in Seq(Models) /\ Len(r) = n
  BY <1>5
<1>11. Ordered(r)
  BY <1>1, <1>5, <1>9, <1>10 DEF Ordered
<1> QED BY <1>11 DEF r

\* A model that is used moves to the end of the order.
LEMMA Moved ==
  ASSUME NEW r, Ordered(r), NEW i \in 1..Len(r)
  PROVE  Ordered(Append(RemoveAt(r, i), r[i]))
<1> DEFINE L == Len(r)
<1>1. PICK n \in Nat : n = Len(r)
  BY DEF Ordered
<1>2. r \in Seq(Models) /\ i \in 1..n /\ r[i] \in Models
  BY <1>1 DEF Ordered
<1>3. PICK a : a = SubSeq(r, 1, i - 1)
  OBVIOUS
<1>4. PICK b : b = SubSeq(r, i + 1, n)
  OBVIOUS
<1>5. a \in Seq(Models) /\ Len(a) = i - 1 /\ \A k \in 1..(i - 1) : a[k] = r[k]
  BY <1>1, <1>2, <1>3
<1>6. b \in Seq(Models) /\ Len(b) = n - i /\ \A k \in 1..(n - i) : b[k] = r[i + k]
  <2>1. b \in Seq(Models) /\ Len(b) = n - i
    BY <1>1, <1>2, <1>4
  <2>2. ASSUME NEW k \in 1..(n - i) PROVE b[k] = r[i + k]
    BY <1>1, <1>2, <1>4, <2>2
  <2> QED BY <2>1, <2>2
<1>7. PICK c : c = a \o b
  OBVIOUS
<1>8. c \in Seq(Models) /\ Len(c) = n - 1
        /\ \A k \in 1..(n - 1) : c[k] = IF k < i THEN r[k] ELSE r[k + 1]
  <2>1. c \in Seq(Models) /\ Len(c) = (i - 1) + (n - i)
    BY <1>5, <1>6, <1>7
  <2>2. ASSUME NEW k \in 1..(n - 1) PROVE c[k] = IF k < i THEN r[k] ELSE r[k + 1]
    <3>1. CASE k < i
      BY <1>2, <1>5, <1>6, <1>7, <3>1
    <3>2. CASE ~(k < i)
      <4>1. c[k] = b[k - (i - 1)]
        BY <1>2, <1>5, <1>6, <1>7, <3>2
      <4>2. k - (i - 1) \in 1..(n - i) /\ i + (k - (i - 1)) = k + 1
        BY <1>2, <3>2
      <4>3. b[k - (i - 1)] = r[i + (k - (i - 1))]
        BY <1>6, <4>2
      <4> QED BY <3>2, <4>1, <4>2, <4>3
    <3> QED BY <3>1, <3>2
  <2> QED BY <1>1, <1>2, <2>1, <2>2
<1>9. PICK d : d = Append(c, r[i])
  OBVIOUS
<1>10. d \in Seq(Models) /\ Len(d) = n /\ d[n] = r[i] /\ \A k \in 1..(n - 1) : d[k] = c[k]
  BY <1>2, <1>8, <1>9
<1>11. \A k \in 1..n : d[k] = IF k = n THEN r[i] ELSE IF k < i THEN r[k] ELSE r[k + 1]
  BY <1>8, <1>10
<1>12. \A k, l \in 1..n : d[k] = d[l] => k = l
  <2> SUFFICES ASSUME NEW k \in 1..n, NEW l \in 1..n, d[k] = d[l] PROVE k = l
    OBVIOUS
  <2> DEFINE At1(x) == IF x = n THEN i ELSE IF x < i THEN x ELSE x + 1
  <2>1. At1(k) \in 1..n /\ At1(l) \in 1..n
    BY <1>2
  <2>2. d[k] = r[At1(k)] /\ d[l] = r[At1(l)]
    BY <1>11
  <2>3. At1(k) = At1(l)
    BY <1>1, <2>1, <2>2 DEF Ordered
  <2> QED BY <1>2, <2>3
<1>13. ASSUME NEW m \in Models PROVE \E k \in 1..n : d[k] = m
  <2>1. PICK l \in 1..n : r[l] = m
    BY <1>1 DEF Ordered
  <2>2. CASE l = i
    BY <1>10, <1>2, <2>1, <2>2
  <2>3. CASE l < i
    <3>1. d[l] = r[l] /\ l \in 1..n
      BY <1>2, <1>11, <2>3
    <3> QED BY <2>1, <3>1
  <2>4. CASE l > i
    <3>1. l - 1 \in 1..n /\ d[l - 1] = r[(l - 1) + 1] /\ (l - 1) + 1 = l
      BY <1>2, <1>11, <2>4
    <3> QED BY <2>1, <3>1
  <2> QED BY <1>2, <2>2, <2>3, <2>4
<1>14. Ordered(d)
  BY <1>1, <1>10, <1>12, <1>13 DEF Ordered
<1>15. d = Append(RemoveAt(r, i), r[i])
  BY <1>1, <1>3, <1>4, <1>7, <1>9 DEF RemoveAt
<1> QED BY <1>14, <1>15

LEMMA TouchKeeps == ASSUME Ordered(recent), NEW m, Touch(m) PROVE Ordered(recent')
<1>1. PICK i \in DOMAIN recent : recent[i] = m /\ recent' = Append(RemoveAt(recent, i), m)
  BY DEF Touch
<1>2. DOMAIN recent = 1..Len(recent)
  BY DEF Ordered
<1> QED BY <1>1, <1>2, Moved

LEMMA OrderKept == ASSUME TypeInv, [Next]_vars PROVE Ordered(recent')
<1>1. Ordered(recent)
  BY DEF TypeInv
<1>2. CASE recent' = recent
  BY <1>1, <1>2
<1>3. CASE \E c \in Clients : Client(c)
  BY <1>1, <1>2, <1>3, TouchKeeps
     DEF Client, Ensure, PickLru, Evict, Evicted, LoadStarted, LoadRefused, Load, LoadingDone,
         Check, Proxy, AskUnload, DoUnload
<1>4. ASSUME NEW m \in Models,
             Manage(m) \/ Process(m) \/ FallAsleep(m) \/ WakeUp(m) \/ Crash(m)
      PROVE  Ordered(recent')
  BY <1>2, <1>4
     DEF Manage, ReadLine, Erase, Reap, Report, StopperLooks, StopperTells, GraceOver,
         ForceKill, Process, BecomeReady, FallAsleep, WakeUp, Becomes, Obey, Crash, Ends,
         Reapable
<1>5. CASE UnloadAll \/ UNCHANGED vars
  BY <1>2, <1>5 DEF UnloadAll, vars
<1> QED BY <1>3, <1>4, <1>5 DEF Next

-----------------------------------------------------------------------------
\* Only a line that the child writes makes its output longer.
LEMMA OneShort ==
  ASSUME NEW ch, Short(ch), ch \in [Models -> Children], NEW m \in Models, NEW c,
         Len(c.out) <= MaxLines
  PROVE  Short([ch EXCEPT ![m] = c])
BY DEF Short

LEMMA NotifiedShort == ASSUME NEW ch, Short(ch), ch \in [Models -> Children]
                       PROVE  Short(Notified(ch))
<1>1. ASSUME NEW m \in Models PROVE Notified(ch)[m].out = ch[m].out
  BY DEF Notified, Children
<1> QED BY <1>1 DEF Short

LEMMA KillShort ==
  ASSUME TypeInv, NEW m \in Models, Kill(m) PROVE Short(child')
<1>1. Short(child) /\ child \in [Models -> Children]
  BY DEF TypeInv, RouterInv, FitsAll
<1>2. CASE child' = child
  BY <1>1, <1>2
<1>3. CASE child' = Notified(child)
  BY <1>1, <1>3, NotifiedShort
<1>4. ASSUME NEW e \in Ending,
             child' = Notified([child EXCEPT ![m].proc = e, ![m].bad = TRUE])
      PROVE  Short(child')
  <2> DEFINE ch == [child EXCEPT ![m].proc = e, ![m].bad = TRUE]
  <2>1. e \in {"dead", "exiting"}
    BY DEF Ending
  <2>2. ch \in [Models -> Children] /\ \A k \in Models : ch[k].out = child[k].out
    BY <1>1, <2>1 DEF Children
  <2>3. Short(ch)
    BY <1>1, <2>2 DEF Short
  <2> QED BY <1>4, <2>2, <2>3, NotifiedShort
<1> QED BY <1>2, <1>3, <1>4 DEF Kill

LEMMA UnloadShort ==
  ASSUME TypeInv, NEW m \in Models, Unload(m) PROVE Short(child')
<1>1. Short(child) /\ child \in [Models -> Children]
  BY DEF TypeInv, RouterInv, FitsAll
<1>2. CASE child' = child
  BY <1>1, <1>2
<1>3. CASE child' = Notified(child)
  BY <1>1, <1>3, NotifiedShort
<1>4. CASE Kill(m)
  BY <1>4, KillShort
<1> QED BY <1>2, <1>3, <1>4 DEF Unload

LEMMA ClientShort == ASSUME TypeInv, NEW c \in Clients, Client(c) PROVE Short(child')
<1>1. Short(child) /\ child \in [Models -> Children] /\ target[c] \in Models
        /\ victim[c] \in Models
  BY DEF TypeInv, Threaded, RouterInv, FitsAll
<1>2. CASE child' = child
  BY <1>1, <1>2
<1>3. CASE Load(c)
  <2>1. Spawned.out = <<>> /\ Len(<<>>) = 0
    BY DEF Spawned, NoChild
  <2>2. Len(Spawned.out) <= MaxLines
    BY <2>1, RouterAssumption
  <2> QED BY <1>1, <1>3, <2>2, OneShort DEF Load
<1>4. CASE Evict(c)
  BY <1>1, <1>4, UnloadShort DEF Evict
<1>5. CASE DoUnload(c)
  BY <1>1, <1>5, UnloadShort DEF DoUnload
<1> QED
  BY <1>2, <1>3, <1>4, <1>5
     DEF Client, Ensure, PickLru, Evicted, LoadStarted, LoadRefused, LoadingDone, Check,
         Proxy, AskUnload

LEMMA ChildShort ==
  ASSUME TypeInv, NEW m \in Models,
         Manage(m) \/ Process(m) \/ FallAsleep(m) \/ WakeUp(m) \/ Crash(m)
  PROVE  Short(child')
<1>1. Short(child) /\ child \in [Models -> Children] /\ child[m] \in Children
  BY DEF TypeInv, RouterInv, FitsAll
<1>2. child[m].out \in Seq({"loaded", "sleeping"}) /\ Len(child[m].out) <= MaxLines
  BY <1>1 DEF Children, Short
<1>3. ASSUME NEW c, child' = [child EXCEPT ![m] = c], Len(c.out) <= MaxLines
      PROVE  Short(child')
  BY <1>1, <1>3, OneShort
<1>5. CASE ReadLine(m)
  <2>1. Len(Tail(child[m].out)) <= MaxLines
    BY <1>2, <1>5, RouterAssumption DEF ReadLine
  <2>2. [child[m] EXCEPT !.out = Tail(@)].out = Tail(child[m].out)
    BY <1>1 DEF Children
  <2> QED BY <1>3, <1>5, <2>1, <2>2 DEF ReadLine, Threads
<1>6. CASE Erase(m)
  <2> DEFINE ch == [child EXCEPT ![m].monitor = "join"]
  <2>1. ch \in [Models -> Children] /\ \A k \in Models : ch[k].out = child[k].out
    BY <1>1 DEF Children
  <2>2. Short(ch)
    BY <1>1, <2>1 DEF Short
  <2> QED BY <1>6, <2>1, <2>2, NotifiedShort DEF Erase
<1>7. CASE Report(m)
  <2>1. PICK c : Threads(m, c) /\ c.out = <<>>
    BY <1>7 DEF Report, NoChild
  <2>2. Len(c.out) <= MaxLines
    BY <2>1, RouterAssumption
  <2> QED BY <1>3, <2>1, <2>2 DEF Threads
<1>8. ASSUME \A k \in Models : child'[k].out = child[k].out PROVE Short(child')
  BY <1>1, <1>8 DEF Short
<1>9. CASE \/ Reap(m) \/ StopperLooks(m) \/ StopperTells(m) \/ GraceOver(m) \/ ForceKill(m)
           \/ Obey(m) \/ Crash(m) \/ Reapable(m)
  <2> DEFINE Same(c) == c.out = child[m].out /\ Threads(m, c)
  <2>1. ASSUME NEW c, Same(c) PROVE Short(child')
    BY <1>1, <1>8, <2>1 DEF Threads
  <2> SUFFICES \E c : Same(c)
    BY <2>1
  <2>2. CASE Reap(m)
    <3>1. Same([child[m] EXCEPT !.monitor = "report", !.proc = "reaped"])
      BY <1>1, <2>2 DEF Children, Reap
    <3> QED BY <3>1
  <2>3. CASE StopperLooks(m)
    <3>1. \/ Same([child[m] EXCEPT !.stopper = "woken"])
          \/ Same([child[m] EXCEPT !.stopper = "waiting"])
          \/ Same([child[m] EXCEPT !.stopper = "woken", !.proc = "reaped"])
      BY <1>1, <2>3 DEF Children, StopperLooks
    <3> QED BY <3>1
  <2>4. CASE StopperTells(m)
    <3>1. \/ Same([child[m] EXCEPT !.stopper = "grace", !.told = TRUE])
          \/ Same([child[m] EXCEPT !.stopper = "done", !.proc = "reaped"])
      BY <1>1, <2>4 DEF Children, StopperTells
    <3> QED BY <3>1
  <2>5. CASE GraceOver(m)
    <3>1. Same([child[m] EXCEPT !.stopper = "done"])
      BY <1>1, <2>5 DEF Children, GraceOver
    <3> QED BY <3>1
  <2>6. CASE ForceKill(m)
    <3>1. \/ Same([child[m] EXCEPT !.stopper = "done"])
          \/ \E e \in Ending : Same([child[m] EXCEPT !.stopper = "done", !.proc = e, !.bad = TRUE])
      BY <1>1, <2>6 DEF Children, ForceKill
    <3> QED BY <3>1
  <2>7. CASE Obey(m) \/ Crash(m)
    <3>1. \E e \in Ending, bad \in BOOLEAN : Same([child[m] EXCEPT !.proc = e, !.bad = bad])
      BY <1>1, <2>7 DEF Children, Obey, Crash, Ends
    <3> QED BY <3>1
  <2>8. CASE Reapable(m)
    <3>1. Same([child[m] EXCEPT !.proc = "dead"])
      BY <1>1, <2>8 DEF Children, Reapable
    <3> QED BY <3>1
  <2> QED BY <1>9, <2>2, <2>3, <2>4, <2>5, <2>6, <2>7, <2>8
<1>10. ASSUME NEW from, NEW to, NEW line \in {"loaded", "sleeping"}, Becomes(m, from, to, line)
       PROVE  Short(child')
  <2>1. Len(Append(child[m].out, line)) <= MaxLines
    BY <1>2, <1>10, RouterAssumption DEF Becomes
  <2>2. [child[m] EXCEPT !.proc = to, !.out = Append(@, line)].out = Append(child[m].out, line)
    BY <1>1 DEF Children
  <2> QED BY <1>3, <1>10, <2>1, <2>2 DEF Becomes, Threads
<1>11. CASE BecomeReady(m) \/ FallAsleep(m) \/ WakeUp(m)
  BY <1>10, <1>11 DEF BecomeReady, FallAsleep, WakeUp
<1> QED BY <1>5, <1>6, <1>7, <1>9, <1>11 DEF Manage, Process

-----------------------------------------------------------------------------
LEMMA UnloadThreaded ==
  ASSUME Threaded, NEW m \in Models, Unload(m)
  PROVE  stopping' \subseteq Models /\ crashed' \in BOOLEAN
BY DEF Unload, Kill, Threaded

LEMMA ClientThreaded ==
  ASSUME TypeInv, NEW c \in Clients, Client(c) PROVE Threaded'
<1>1. Threaded /\ target[c] \in Models /\ victim[c] \in Models /\ recent \in Seq(Models)
  BY DEF TypeInv, Threaded, RouterInv, Ordered
<1>2. ASSUME NEW from, NEW to \in Stages, At(c, from, to) PROVE pc' \in [Clients -> Stages]
  BY <1>1, <1>2 DEF At, Threaded
<1>3. pc' \in [Clients -> Stages]
  BY <1>2
     DEF Stages, Client, Ensure, PickLru, Evict, Evicted, LoadStarted, LoadRefused, Load,
         LoadingDone, Check, Proxy, AskUnload, DoUnload
<1>4. victim' \in [Clients -> Models]
  <2>1. CASE PickLru(c)
    <3>1. victim' = victim \/ \E i \in DOMAIN recent : victim' = [victim EXCEPT ![c] = recent[i]]
      BY <2>1 DEF PickLru
    <3>2. \A i \in DOMAIN recent : recent[i] \in Models
      BY <1>1
    <3> QED BY <1>1, <3>1, <3>2 DEF Threaded
  <2>2. CASE victim' = victim
    BY <1>1, <2>2 DEF Threaded
  <2> QED
    BY <2>1, <2>2
       DEF Client, Ensure, Evict, Evicted, LoadStarted, LoadRefused, Load, LoadingDone, Check,
           Proxy, AskUnload, DoUnload
<1>5. stopping' \subseteq Models /\ crashed' \in BOOLEAN
  <2>1. CASE Evict(c) \/ DoUnload(c)
    BY <1>1, <2>1, UnloadThreaded DEF Evict, DoUnload
  <2>2. CASE UNCHANGED <<stopping, crashed>>
    BY <1>1, <2>2 DEF Threaded
  <2> QED
    BY <2>1, <2>2
       DEF Client, Ensure, PickLru, Evicted, LoadStarted, LoadRefused, Load, LoadingDone,
           Check, Proxy, AskUnload
<1>6. UNCHANGED <<failed, closing>>
  BY DEF Client, Ensure, PickLru, Evict, Evicted, LoadStarted, LoadRefused, Load, LoadingDone,
         Check, Proxy, AskUnload, DoUnload
<1> QED BY <1>1, <1>3, <1>4, <1>5, <1>6 DEF Threaded

LEMMA ChildThreaded ==
  ASSUME TypeInv, NEW m \in Models,
         Manage(m) \/ Process(m) \/ FallAsleep(m) \/ WakeUp(m) \/ Crash(m)
  PROVE  Threaded'
<1>1. Threaded /\ child[m] \in Children
  BY DEF TypeInv, RouterInv, FitsAll
<1>2. UNCHANGED <<pc, victim, closing, crashed>>
  BY DEF Manage, ReadLine, Erase, Reap, Report, StopperLooks, StopperTells, GraceOver,
         ForceKill, Process, BecomeReady, FallAsleep, WakeUp, Becomes, Obey, Crash, Ends,
         Reapable
<1>3. stopping' \subseteq Models
  BY <1>1
     DEF Threaded, Manage, ReadLine, Erase, Reap, Report, StopperLooks, StopperTells,
         GraceOver, ForceKill, Process, BecomeReady, FallAsleep, WakeUp, Becomes, Obey,
         Crash, Ends, Reapable
<1>4. failed' \in [Models -> BOOLEAN]
  <2>1. CASE ReadLine(m) \/ Report(m)
    <3>1. child[m].bad \in BOOLEAN
      BY <1>1 DEF Children
    <3> QED BY <1>1, <2>1, <3>1 DEF Threaded, ReadLine, Report
  <2>2. CASE failed' = failed
    BY <1>1, <2>2 DEF Threaded
  <2> QED
    BY <2>1, <2>2
       DEF Manage, Erase, Reap, StopperLooks, StopperTells, GraceOver, ForceKill, Process,
           BecomeReady, FallAsleep, WakeUp, Becomes, Obey, Crash, Ends, Reapable
<1> QED BY <1>1, <1>2, <1>3, <1>4 DEF Threaded

LEMMA UnloadAllThreaded == ASSUME TypeInv, UnloadAll PROVE Threaded' /\ Short(child')
<1>1. Threaded /\ Short(child) /\ child \in [Models -> Children]
  BY DEF TypeInv, RouterInv, FitsAll
<1>2. Short(child')
  BY <1>1, NotifiedShort DEF UnloadAll
<1>3. pc' \in [Clients -> Stages]
  BY <1>1 DEF UnloadAll, Threaded, Stages
<1>4. stopping' \subseteq Models
  BY <1>1 DEF UnloadAll, Threaded, Running
<1> QED BY <1>1, <1>2, <1>3, <1>4 DEF UnloadAll, Threaded

-----------------------------------------------------------------------------
LEMMA TypeStart == Init => TypeInv
<1> SUFFICES ASSUME Init PROVE TypeInv
  OBVIOUS
<1>1. RouterInv
  BY RouterStart
<1>2. Ordered(recent)
  BY FirstOrder DEF Init
<1>3. Short(child)
  <2>1. \A m \in Models : child[m].out = <<>>
    BY DEF Init, NoChild
  <2>2. Len(<<>>) <= MaxLines
    BY RouterAssumption
  <2> QED BY <2>1, <2>2 DEF Short
<1>4. victim \in [Clients -> Models]
  <2>1. ASSUME NEW c \in Clients PROVE (CHOOSE m \in Models : TRUE) \in Models
    <3>1. Wants[c] \in (SUBSET Models) \ {{}}
      BY RouterAssumption
    <3>2. \E m : m \in Models
      BY <3>1
    <3> QED BY <3>2
  <2> QED BY <2>1 DEF Init
<1>5. Threaded
  BY <1>4 DEF Init, Threaded, Stages
<1> QED BY <1>1, <1>2, <1>3, <1>5 DEF TypeInv

\* The invariant as it is stated for TLC follows.
LEMMA TypeShown == TypeInv => TypeOK
<1> SUFFICES ASSUME TypeInv PROVE TypeOK
  OBVIOUS
<1>1. Len(recent) = Cardinality(Models) /\ ToSet(recent) = Models
  BY DEF TypeInv, Ordered, ToSet
<1> DEFINE Outs == UNION {[1..n -> {"loaded", "sleeping"}] : n \in 0..MaxLines}
<1>2. ASSUME NEW m \in Models PROVE child[m].out \in Outs
  <2>1. PICK o : o = child[m].out
    OBVIOUS
  <2>2. o \in Seq({"loaded", "sleeping"}) /\ Len(o) <= MaxLines
    BY <2>1 DEF TypeInv, RouterInv, FitsAll, Children, Short
  <2>3. o \in [1..Len(o) -> {"loaded", "sleeping"}] /\ Len(o) \in 0..MaxLines
    BY <2>2, RouterAssumption
  <2> QED BY <2>1, <2>3
<1>3. child \in [Models ->
       [proc : {"none", "loading", "up", "asleep", "exiting", "dead", "reaped"},
        bad : BOOLEAN, told : BOOLEAN, out : Outs,
        monitor : {"none", "reading", "join", "report"},
        stopper : {"none", "check", "waiting", "woken", "grace", "done"}]]
  <2> HIDE DEF Outs
  <2>1. child \in [Models -> Children]
    BY DEF TypeInv, RouterInv, FitsAll
  <2> QED BY <1>2, <2>1 DEF Children
<1> QED BY <1>1, <1>3 DEF TypeInv, RouterInv, FitsAll, Statuses, Threaded, Stages, TypeOK

\* Type correctness for any models and clients: the order of use, by which the least
\* recently used model is found (server-models.cpp:702), always holds every model just once.
THEOREM RouterTyped == Spec => []TypeOK
<1>1. TypeInv /\ [Next]_vars /\ RouterInv' => TypeInv'
  <2> SUFFICES ASSUME TypeInv, [Next]_vars, RouterInv' PROVE TypeInv'
    OBVIOUS
  <2>1. Ordered(recent')
    BY OrderKept
  <2>2. Short(child') /\ Threaded'
    <3>1. CASE \E c \in Clients : Client(c)
      BY <3>1, ClientShort, ClientThreaded
    <3>2. ASSUME NEW m \in Models,
                 Manage(m) \/ Process(m) \/ FallAsleep(m) \/ WakeUp(m) \/ Crash(m)
          PROVE  Short(child') /\ Threaded'
      BY <3>2, ChildShort, ChildThreaded
    <3>3. CASE UnloadAll
      BY <3>3, UnloadAllThreaded
    <3>4. CASE UNCHANGED vars
      BY <3>4 DEF vars, TypeInv, Threaded
    <3> QED BY <3>1, <3>2, <3>3, <3>4 DEF Next
  <2> QED BY <2>1, <2>2 DEF TypeInv
<1> QED BY TypeStart, RouterCorrect, TypeShown, <1>1, PTL DEF Spec
=============================================================================
