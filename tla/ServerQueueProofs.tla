-------------------------- MODULE ServerQueueProofs --------------------------
(***************************************************************************)
(* Proofs about ServerQueue, for any requests, tasks, slots and faults:    *)
(* its types, where a task can be, and what a reader is sent.              *)
(*                                                                         *)
(* The invariant has three layers.  TypeInv adds to the types when the main*)
(* thread has a task in hand.  HomeInv says that a task is in one place,   *)
(* that only parents are queued, and that what is not posted is nowhere.   *)
(* ResultInv says that a task that is still somewhere has not had its last *)
(* result, so that one more may be sent.                                   *)
(***************************************************************************)
EXTENDS ServerQueue, FiniteSetTheorems, SequenceTheorems, TLAPS

Within(s, x) == \E i \in DOMAIN s : s[i] = x

InQueue(t) == Within(queue, Run(t))
InDeferred(t) == Within(deferred, t)
InSlot(t) == \E s \in Slots : slot[s].task = t

\* The task waits for its turn: it is not in a slot yet.
Pending(t) == InQueue(t) \/ InDeferred(t) \/ (mpc = "have" /\ hand = Run(t))

Distinct(s) == \A i, j \in DOMAIN s : s[i] = s[j] => i = j

DistinctRuns(q) == \A i, j \in DOMAIN q : q[i] = q[j] /\ q[i].type = "run" => i = j

\* The main thread has a task in hand in two places, and a slot is idle when
\* it has no task.
MainFits ==
  /\ hand # NoEntry <=> mpc \in {"have", "unlaunch"}
  /\ mpc = "unlaunch" => hand.type = "run"
  /\ \A s \in Slots : slot[s].state = "idle" <=> slot[s].task = NoTask
  /\ mpc # "aborted" => nEmpty <= 3

TypeInv == TypeOK /\ MainFits

OnePlace ==
  /\ DistinctRuns(queue) /\ Distinct(deferred)
  /\ \A s, k \in Slots : slot[s].task = slot[k].task /\ slot[s].task # NoTask => s = k
  /\ \A t \in Tasks :
       /\ InQueue(t) => ~InDeferred(t) /\ hand # Run(t) /\ ~InSlot(t)
       /\ InDeferred(t) => hand # Run(t) /\ ~InSlot(t)
       /\ hand = Run(t) => ~InSlot(t)

\* Only a parent is queued; its children come with it, when it is launched.
ChildrenWait ==
  \A t \in Tasks :
    /\ (Pending(t) \/ hand = Run(t)) => ~IsChild(t)
    /\ Pending(t) => \A c \in Children(t) : ~InSlot(c)

\* What is not posted yet is nowhere.
Unposted(r) == rpc[r] \in {"new", "registered"}

FreshNowhere ==
  \A t \in Tasks : Unposted(Owner[t]) => ~Pending(t) /\ hand # Run(t) /\ ~InSlot(t)

HomeInv == TypeInv /\ OnePlace /\ ChildrenWait /\ FreshNowhere

\* The last result of the task has been sent to a reader that waits for it.
Ended(t) ==
  \/ t \in got[Owner[t]]
  \/ \E i \in DOMAIN results : results[i].task = t /\ results[i].kind # "partial"

EndedLast ==
  \A t \in Tasks :
    /\ (Pending(t) \/ InSlot(t)) => ~Ended(t)
    /\ Pending(t) => \A c \in Children(t) : ~Ended(c)
    /\ Unposted(Owner[t]) => ~Ended(t)

ResultInv == HomeInv /\ EndedLast /\ NoStrayResult

-----------------------------------------------------------------------------
(* Queues as sequences: what is within one, and how often.                 *)

\* A sequence without some of its places has its other elements, in order.
LEMMA WithoutKeeps ==
  ASSUME NEW S, NEW s \in Seq(S), NEW gone
  PROVE  /\ Without(s, gone) \in Seq(S)
         /\ \A n \in DOMAIN Without(s, gone) :
              \E i \in DOMAIN s \ gone : Without(s, gone)[n] = s[i]
         /\ \A i \in DOMAIN s \ gone :
              \E n \in DOMAIN Without(s, gone) : Without(s, gone)[n] = s[i]
         /\ \A m, n \in DOMAIN Without(s, gone) : m < n =>
              \E i, j \in DOMAIN s \ gone :
                i < j /\ Without(s, gone)[m] = s[i] /\ Without(s, gone)[n] = s[j]
<1> DEFINE kept == DOMAIN s \ gone
           upto(i) == {j \in kept : j <= i}
           rank == [i \in kept |-> Cardinality(upto(i))]
           at(n) == CHOOSE i \in kept : Cardinality(upto(i)) = n
<1>1. IsFiniteSet(kept) /\ kept \subseteq Nat
  <2>1. 1 \in Int /\ Len(s) \in Int /\ DOMAIN s = 1..Len(s)
    OBVIOUS
  <2>2. IsFiniteSet(1..Len(s))
    BY <2>1, FS_Interval
  <2>3. kept \in SUBSET (1..Len(s))
    BY <2>1
  <2> QED
    BY <2>1, <2>2, <2>3, FS_Subset
<1>2. PICK size \in Nat : size = Cardinality(kept)
  BY <1>1, FS_CardinalityType
<1>3. IsFiniteSet(1..size) /\ Cardinality(1..size) = size
  <2>1. 1 \in Int /\ size \in Int
    OBVIOUS
  <2> QED
    BY <2>1, FS_Interval
<1>4. ASSUME NEW i \in kept
      PROVE  /\ IsFiniteSet(upto(i)) /\ Cardinality(upto(i)) \in 1..size
             /\ \A k \in kept : k < i => Cardinality(upto(k)) < Cardinality(upto(i))
  <2>1. /\ upto(i) \in SUBSET kept
        /\ i \in upto(i)
    BY <1>1
  <2>2. IsFiniteSet(upto(i)) /\ Cardinality(upto(i)) <= size
    BY <1>1, <1>2, <2>1, FS_Subset
  <2>3. Cardinality(upto(i)) \in Nat /\ Cardinality(upto(i)) # 0
    BY <2>1, <2>2, FS_CardinalityType, FS_EmptySet
  <2>4. ASSUME NEW k \in kept, k < i
        PROVE  Cardinality(upto(k)) < Cardinality(upto(i))
    <3>1. upto(k) \in SUBSET upto(i) /\ upto(k) # upto(i)
      BY <1>1, <2>1, <2>4
    <3>2. /\ IsFiniteSet(upto(k)) /\ Cardinality(upto(k)) <= Cardinality(upto(i))
          /\ Cardinality(upto(k)) # Cardinality(upto(i))
      BY <2>2, <3>1, FS_Subset
    <3>3. Cardinality(upto(k)) \in Nat
      BY <3>2, FS_CardinalityType
    <3> QED
      BY <2>3, <3>2, <3>3
  <2> QED
    BY <2>2, <2>3, <2>4
<1> HIDE DEF upto
<1>5. rank \in Injection(kept, 1..size)
  <2>1. rank \in [kept -> 1..size]
    BY <1>4
  <2>2. ASSUME NEW i \in kept, NEW k \in kept, rank[i] = rank[k] PROVE i = k
    <3>1. i \in Nat /\ k \in Nat /\ rank[i] \in Nat
      BY <1>1, <2>1
    <3>2. CASE i < k
      BY <1>4, <2>2, <3>1, <3>2
    <3>3. CASE k < i
      BY <1>4, <2>2, <3>1, <3>3
    <3> QED
      BY <3>1, <3>2, <3>3
  <2> QED
    BY <2>1, <2>2 DEF Injection, IsInjective
<1>6. ASSUME NEW n \in 1..size PROVE at(n) \in kept /\ Cardinality(upto(at(n))) = n
  <2>1. rank \in Surjection(kept, 1..size)
    BY <1>2, <1>3, <1>5, FS_Injection
  <2>2. \E i \in kept : Cardinality(upto(i)) = n
    BY <2>1 DEF Surjection
  <2> QED
    BY <2>2
<1>7. Without(s, gone) = [n \in 1..size |-> s[at(n)]]
  BY <1>2 DEF Without, upto
<1>8. ASSUME NEW m \in 1..size, NEW n \in 1..size, m < n PROVE at(m) < at(n)
  <2>1. at(m) \in Nat /\ at(n) \in Nat
    BY <1>1, <1>6
  <2>2. CASE at(n) < at(m)
    BY <1>4, <1>6, <1>8, <2>2
  <2>3. CASE at(n) = at(m)
    BY <1>6, <1>8, <2>3
  <2> QED
    BY <2>1, <2>2, <2>3
<1>9. ASSUME NEW i \in kept PROVE at(rank[i]) = i
  <2>1. rank[i] \in 1..size /\ at(rank[i]) \in kept /\ rank[at(rank[i])] = rank[i]
    BY <1>4, <1>6
  <2> QED
    BY <1>5, <2>1 DEF Injection, IsInjective
<1> HIDE DEF at, rank
<1>10. DOMAIN Without(s, gone) = 1..size /\ Without(s, gone) \in Seq(S)
  BY <1>6, <1>7
<1>11. \A i \in kept : rank[i] \in 1..size
  BY <1>5 DEF Injection
<1> QED
  BY <1>6, <1>7, <1>8, <1>9, <1>10, <1>11

\* Joining two queues, and the first element of one.
LEMMA Joined ==
  ASSUME NEW S, NEW s \in Seq(S), NEW t \in Seq(S)
  PROVE  /\ s \o t \in Seq(S)
         /\ \A x : Within(s \o t, x) <=> Within(s, x) \/ Within(t, x)
         /\ (/\ DistinctRuns(s) /\ DistinctRuns(t)
             /\ \A x : Within(s, x) /\ Within(t, x) => x.type # "run")
            => DistinctRuns(s \o t)
<1>1. /\ s \o t \in Seq(S) /\ DOMAIN (s \o t) = 1..(Len(s) + Len(t))
      /\ DOMAIN s = 1..Len(s) /\ DOMAIN t = 1..Len(t) /\ Len(s) \in Nat /\ Len(t) \in Nat
      /\ \A i \in 1..(Len(s) + Len(t)) :
           (s \o t)[i] = IF i <= Len(s) THEN s[i] ELSE t[i - Len(s)]
  OBVIOUS
<1>2. ASSUME NEW x PROVE Within(s \o t, x) <=> Within(s, x) \/ Within(t, x)
  <2>1. ASSUME NEW i \in DOMAIN s, s[i] = x PROVE Within(s \o t, x)
    BY <1>1, <2>1 DEF Within
  <2>2. ASSUME NEW i \in DOMAIN t, t[i] = x PROVE Within(s \o t, x)
    <3>1. i + Len(s) \in DOMAIN (s \o t) /\ (s \o t)[i + Len(s)] = x
      BY <1>1, <2>2
    <3> QED
      BY <3>1 DEF Within
  <2>3. ASSUME NEW i \in DOMAIN (s \o t), (s \o t)[i] = x PROVE Within(s, x) \/ Within(t, x)
    <3>1. CASE i <= Len(s)
      BY <1>1, <2>3, <3>1 DEF Within
    <3>2. CASE i > Len(s)
      <4>1. i - Len(s) \in DOMAIN t /\ t[i - Len(s)] = x
        BY <1>1, <2>3, <3>2
      <4> QED
        BY <4>1 DEF Within
    <3> QED
      BY <1>1, <3>1, <3>2
  <2> QED
    BY <2>1, <2>2, <2>3 DEF Within
<1>3. ASSUME DistinctRuns(s), DistinctRuns(t),
             \A x : Within(s, x) /\ Within(t, x) => x.type # "run",
             NEW i \in DOMAIN (s \o t), NEW j \in DOMAIN (s \o t),
             (s \o t)[i] = (s \o t)[j], (s \o t)[i].type = "run"
      PROVE  i = j
  <2>1. CASE i <= Len(s) /\ j <= Len(s)
    BY <1>1, <1>3, <2>1 DEF DistinctRuns
  <2>2. CASE i > Len(s) /\ j > Len(s)
    <3>1. /\ i - Len(s) \in DOMAIN t /\ j - Len(s) \in DOMAIN t
          /\ t[i - Len(s)] = t[j - Len(s)] /\ t[i - Len(s)].type = "run"
      BY <1>1, <1>3, <2>2
    <3>2. i - Len(s) = j - Len(s)
      BY <1>3, <3>1 DEF DistinctRuns
    <3> QED
      BY <1>1, <3>2
  <2>3. ASSUME NEW k \in DOMAIN (s \o t), NEW l \in DOMAIN (s \o t), k <= Len(s), l > Len(s),
               (s \o t)[k] = (s \o t)[l], (s \o t)[k].type = "run"
        PROVE  FALSE
    <3>1. k \in DOMAIN s /\ l - Len(s) \in DOMAIN t /\ s[k] = t[l - Len(s)]
          /\ s[k].type = "run"
      BY <1>1, <2>3
    <3> QED
      BY <1>3, <3>1 DEF Within
  <2> QED
    BY <1>1, <1>3, <2>1, <2>2, <2>3
<1> QED
  BY <1>1, <1>2, <1>3 DEF DistinctRuns

LEMMA Single ==
  ASSUME NEW S, NEW e \in S
  PROVE  /\ <<e>> \in Seq(S) /\ DistinctRuns(<<e>>)
         /\ \A x : Within(<<e>>, x) <=> x = e
BY DEF DistinctRuns, Within

LEMMA Appended ==
  ASSUME NEW S, NEW s \in Seq(S), NEW e \in S
  PROVE  /\ Append(s, e) \in Seq(S)
         /\ \A x : Within(Append(s, e), x) <=> Within(s, x) \/ x = e
         /\ Distinct(s) /\ ~Within(s, e) => Distinct(Append(s, e))
         /\ DistinctRuns(s) /\ e.type # "run" => DistinctRuns(Append(s, e))
<1>1. /\ Append(s, e) \in Seq(S) /\ DOMAIN Append(s, e) = 1..(Len(s) + 1)
      /\ DOMAIN s = 1..Len(s) /\ Len(s) \in Nat
      /\ \A i \in 1..(Len(s) + 1) : Append(s, e)[i] = IF i <= Len(s) THEN s[i] ELSE e
  OBVIOUS
<1>2. \A x : Within(Append(s, e), x) <=> Within(s, x) \/ x = e
  <2>1. Append(s, e)[Len(s) + 1] = e /\ Len(s) + 1 \in DOMAIN Append(s, e)
    BY <1>1
  <2>2. \A i \in DOMAIN s : i \in DOMAIN Append(s, e) /\ Append(s, e)[i] = s[i]
    BY <1>1
  <2>3. \A i \in DOMAIN Append(s, e) : i \in DOMAIN s \/ Append(s, e)[i] = e
    BY <1>1
  <2> QED
    BY <2>1, <2>2, <2>3 DEF Within
<1>3. \A i \in DOMAIN Append(s, e) : i \in DOMAIN s \/ i = Len(s) + 1
  BY <1>1
<1>4. Distinct(s) /\ ~Within(s, e) => Distinct(Append(s, e))
  BY <1>1, <1>3 DEF Distinct, Within
<1>5. DistinctRuns(s) /\ e.type # "run" => DistinctRuns(Append(s, e))
  BY <1>1, <1>3 DEF DistinctRuns
<1> QED
  BY <1>1, <1>2, <1>4, <1>5

LEMMA TakenFirst ==
  ASSUME NEW S, NEW s \in Seq(S), s # <<>>
  PROVE  /\ Head(s) \in S /\ Tail(s) \in Seq(S)
         /\ \A x : Within(s, x) <=> x = Head(s) \/ Within(Tail(s), x)
         /\ DistinctRuns(s) => /\ DistinctRuns(Tail(s))
                               /\ Head(s).type = "run" => ~Within(Tail(s), Head(s))
<1>1. /\ Head(s) \in S /\ Head(s) = s[1] /\ Tail(s) \in Seq(S)
      /\ DOMAIN s = 1..Len(s) /\ Len(s) \in Nat \ {0}
      /\ DOMAIN Tail(s) = 1..(Len(s) - 1)
      /\ \A i \in 1..(Len(s) - 1) : Tail(s)[i] = s[i + 1]
  OBVIOUS
<1>2. \A i \in DOMAIN Tail(s) : i + 1 \in DOMAIN s /\ i + 1 # 1 /\ Tail(s)[i] = s[i + 1]
  BY <1>1
<1>3. \A i \in DOMAIN s : i = 1 \/ (i - 1 \in DOMAIN Tail(s) /\ Tail(s)[i - 1] = s[i])
  BY <1>1
<1>4. 1 \in DOMAIN s
  BY <1>1
<1>5. \A x : Within(s, x) <=> x = Head(s) \/ Within(Tail(s), x)
  <2>1. ASSUME NEW x, Within(s, x), x # Head(s) PROVE Within(Tail(s), x)
    BY <1>1, <1>3, <2>1 DEF Within
  <2> QED
    BY <1>1, <1>2, <1>4, <2>1 DEF Within
<1>6. ASSUME DistinctRuns(s) PROVE DistinctRuns(Tail(s))
  <2> SUFFICES ASSUME NEW i \in DOMAIN Tail(s), NEW j \in DOMAIN Tail(s),
                      Tail(s)[i] = Tail(s)[j], Tail(s)[i].type = "run"
               PROVE  i = j
    BY DEF DistinctRuns
  <2>1. i + 1 = j + 1
    BY <1>2, <1>6 DEF DistinctRuns
  <2> QED
    BY <1>1, <2>1
<1>7. ASSUME DistinctRuns(s), Head(s).type = "run", Within(Tail(s), Head(s)) PROVE FALSE
  BY <1>1, <1>2, <1>4, <1>7 DEF DistinctRuns, Within
<1> QED
  BY <1>1, <1>5, <1>6, <1>7

LEMMA RemovedOne ==
  ASSUME NEW S, NEW s \in Seq(S), NEW n \in 1..Len(s)
  PROVE  /\ RemoveAt(s, n) \in Seq(S) /\ Len(RemoveAt(s, n)) = Len(s) - 1
         /\ \A i \in 1..(Len(s) - 1) : RemoveAt(s, n)[i] = IF i < n THEN s[i] ELSE s[i + 1]
         /\ \A x : Within(RemoveAt(s, n), x) => Within(s, x)
         /\ \A x : Within(s, x) => x = s[n] \/ Within(RemoveAt(s, n), x)
         /\ Distinct(s) => Distinct(RemoveAt(s, n)) /\ ~Within(RemoveAt(s, n), s[n])
<1>1. PICK L \in Nat : L = Len(s)
  OBVIOUS
<1>2. n \in 1..L /\ DOMAIN s = 1..L /\ \A i \in 1..L : s[i] \in S
  BY <1>1
<1>3. /\ SubSeq(s, 1, n - 1) \in Seq(S) /\ Len(SubSeq(s, 1, n - 1)) = n - 1
      /\ \A i \in 1..(n - 1) : SubSeq(s, 1, n - 1)[i] = s[i]
  <2>1. 1 \in Int /\ n - 1 \in Int /\ \A i \in 1..(n - 1) : s[i] \in S
    BY <1>2
  <2>2. /\ SubSeq(s, 1, n - 1) \in Seq(S)
        /\ Len(SubSeq(s, 1, n - 1)) = IF 1 <= n - 1 THEN n - 1 - 1 + 1 ELSE 0
        /\ \A i \in 1..(n - 1 - 1 + 1) : SubSeq(s, 1, n - 1)[i] = s[1 + i - 1]
    BY <2>1, SubSeqProperties
  <2> QED
    BY <1>2, <2>2
<1>4. /\ SubSeq(s, n + 1, L) \in Seq(S) /\ Len(SubSeq(s, n + 1, L)) = L - n
      /\ \A i \in 1..(L - n) : SubSeq(s, n + 1, L)[i] = s[n + i]
  <2>1. n + 1 \in Int /\ L \in Int /\ \A i \in (n + 1)..L : s[i] \in S
    BY <1>2
  <2>2. /\ SubSeq(s, n + 1, L) \in Seq(S)
        /\ Len(SubSeq(s, n + 1, L)) = IF n + 1 <= L THEN L - (n + 1) + 1 ELSE 0
        /\ \A i \in 1..(L - (n + 1) + 1) : SubSeq(s, n + 1, L)[i] = s[(n + 1) + i - 1]
    BY <2>1, SubSeqProperties
  <2> QED
    BY <1>2, <2>2
<1>5. /\ RemoveAt(s, n) \in Seq(S) /\ Len(RemoveAt(s, n)) = Len(s) - 1
      /\ DOMAIN RemoveAt(s, n) = 1..(Len(s) - 1)
      /\ \A i \in 1..(Len(s) - 1) : RemoveAt(s, n)[i] = IF i < n THEN s[i] ELSE s[i + 1]
  <2>1. RemoveAt(s, n) = SubSeq(s, 1, n - 1) \o SubSeq(s, n + 1, L)
    BY <1>1 DEF RemoveAt
  <2>2. RemoveAt(s, n) \in Seq(S)
    BY <1>3, <1>4, <2>1
  <2>3. Len(RemoveAt(s, n)) = (n - 1) + (L - n)
    BY <1>3, <1>4, <2>1, ConcatProperties
  <2>4. Len(RemoveAt(s, n)) = L - 1 /\ DOMAIN RemoveAt(s, n) = 1..(L - 1)
    BY <1>2, <2>2, <2>3
  <2>5. ASSUME NEW i \in 1..(L - 1)
        PROVE  RemoveAt(s, n)[i] = IF i < n THEN s[i] ELSE s[i + 1]
    <3>1. RemoveAt(s, n)[i] =
            IF i <= n - 1 THEN SubSeq(s, 1, n - 1)[i] ELSE SubSeq(s, n + 1, L)[i - (n - 1)]
      <4>1. i \in 1..(Len(SubSeq(s, 1, n - 1)) + Len(SubSeq(s, n + 1, L)))
        BY <1>2, <1>3, <1>4
      <4> QED
        BY <1>3, <1>4, <2>1, <4>1, ConcatProperties
    <3>2. CASE i < n
      BY <1>2, <1>3, <3>1, <3>2
    <3>3. CASE i >= n
      <4>1. i - (n - 1) \in 1..(L - n) /\ n + (i - (n - 1)) = i + 1
        BY <1>2, <3>3
      <4> QED
        BY <1>2, <1>4, <3>1, <3>3, <4>1
    <3> QED
      BY <1>2, <3>2, <3>3
  <2> QED
    BY <1>1, <2>2, <2>4, <2>5
<1>6. \A i \in DOMAIN RemoveAt(s, n) :
        \E j \in DOMAIN s : j = (IF i < n THEN i ELSE i + 1) /\ j # n /\ RemoveAt(s, n)[i] = s[j]
  BY <1>1, <1>2, <1>5
<1>7. \A x : Within(RemoveAt(s, n), x) => Within(s, x)
  BY <1>6 DEF Within
<1>8. ASSUME NEW j \in DOMAIN s, j # n PROVE Within(RemoveAt(s, n), s[j])
  <2>1. CASE j < n
    BY <1>1, <1>2, <1>5, <2>1 DEF Within
  <2>2. CASE j > n
    <3>1. j - 1 \in DOMAIN RemoveAt(s, n) /\ RemoveAt(s, n)[j - 1] = s[j]
      BY <1>1, <1>2, <1>5, <2>2
    <3> QED
      BY <3>1 DEF Within
  <2> QED
    BY <1>2, <1>8, <2>1, <2>2
<1>9. ASSUME Distinct(s) PROVE Distinct(RemoveAt(s, n)) /\ ~Within(RemoveAt(s, n), s[n])
  <2>1. ~Within(RemoveAt(s, n), s[n])
    BY <1>6, <1>9 DEF Within, Distinct
  <2>2. ASSUME NEW i \in DOMAIN RemoveAt(s, n), NEW j \in DOMAIN RemoveAt(s, n),
               RemoveAt(s, n)[i] = RemoveAt(s, n)[j]
        PROVE  i = j
    <3>1. (IF i < n THEN i ELSE i + 1) = (IF j < n THEN j ELSE j + 1)
      BY <1>6, <1>9, <2>2 DEF Distinct
    <3> QED
      BY <1>1, <1>2, <1>5, <3>1
  <2> QED
    BY <2>1, <2>2 DEF Distinct
<1> QED
  BY <1>5, <1>7, <1>8, <1>9 DEF Within

\* A queue without some of its places.
LEMMA WithoutSome ==
  ASSUME NEW S, NEW s \in Seq(S), NEW gone
  PROVE  /\ Without(s, gone) \in Seq(S)
         /\ \A x : Within(Without(s, gone), x) <=> \E i \in DOMAIN s \ gone : s[i] = x
         /\ Distinct(s) => Distinct(Without(s, gone))
         /\ DistinctRuns(s) => DistinctRuns(Without(s, gone))
<1>1. Without(s, gone) \in Seq(S)
  BY WithoutKeeps
<1>2. \A x : Within(Without(s, gone), x) <=> \E i \in DOMAIN s \ gone : s[i] = x
  BY WithoutKeeps DEF Within
<1>3. ASSUME NEW m \in DOMAIN Without(s, gone), NEW n \in DOMAIN Without(s, gone), m # n
      PROVE  \E i, j \in DOMAIN s : /\ i # j /\ Without(s, gone)[m] = s[i]
                                    /\ Without(s, gone)[n] = s[j]
  <2>1. m \in Nat /\ n \in Nat /\ DOMAIN s \subseteq Nat
    BY <1>1
  <2>2. CASE m < n
    BY <2>1, <2>2, WithoutKeeps
  <2>3. CASE n < m
    BY <2>1, <2>3, WithoutKeeps
  <2> QED
    BY <1>3, <2>1, <2>2, <2>3
<1>4. Distinct(s) => Distinct(Without(s, gone))
  BY <1>3 DEF Distinct
<1>5. DistinctRuns(s) => DistinctRuns(Without(s, gone))
  BY <1>3 DEF DistinctRuns
<1> QED
  BY <1>1, <1>2, <1>4, <1>5

LEMMA Fewer ==
  ASSUME NEW S, NEW s \in Seq(S), NEW gone
  PROVE  /\ Without(s, gone) \in Seq(S)
         /\ \A x : Within(Without(s, gone), x) => Within(s, x)
         /\ Distinct(s) => Distinct(Without(s, gone))
         /\ DistinctRuns(s) => DistinctRuns(Without(s, gone))
<1>1. \A x : (\E i \in DOMAIN s \ gone : s[i] = x) => Within(s, x)
  BY DEF Within
<1> QED
  BY <1>1, WithoutSome

-----------------------------------------------------------------------------
(* The helpers of the actions.                                             *)

LEMMA FirstSlot == 1 \in Slots /\ NSlots \in Slots
BY ServerAssumption DEF Slots

LEMMA TaskEntries ==
  ASSUME NEW t \in Tasks
  PROVE  /\ Run(t) \in Entries /\ Run(t).type = "run" /\ Run(t).task = t /\ Run(t) # NoEntry
         /\ Cancel(t) \in Entries /\ Cancel(t).type = "cancel" /\ Cancel(t).task = t
BY DEF Entries, Run, Cancel, NoEntry

LEMMA EntryCases ==
  ASSUME NEW e \in Entries
  PROVE  /\ e # NoEntry
         /\ e.type = "run" => e.task \in Tasks /\ e = Run(e.task)
         /\ e.type = "cancel" => e.task \in Tasks /\ e = Cancel(e.task)
BY DEF Entries, Run, Cancel, NextResponse, NoEntry

LEMMA Ordered ==
  ASSUME NEW S, IsFiniteSet(S), NEW o \in Orders(S)
  PROVE  \E n \in Nat : /\ n = Cardinality(S) /\ o \in [1..n -> S]
                        /\ \A i, j \in 1..n : o[i] = o[j] => i = j
BY FS_CardinalityType DEF Orders

\* The entries for the tasks of a set, in one of its orders.
LEMMA OrderedRuns ==
  ASSUME NEW S \in SUBSET Tasks, NEW o \in Orders(S)
  PROVE  LET entries == [i \in DOMAIN o |-> Run(o[i])] IN
         /\ entries \in Seq(Entries) /\ DistinctRuns(entries)
         /\ \A x : Within(entries, x) => \E t \in S : x = Run(t)
<1> DEFINE entries == [i \in DOMAIN o |-> Run(o[i])]
<1>1. IsFiniteSet(S)
  BY ServerAssumption, FS_Subset
<1>2. PICK n \in Nat : o \in [1..n -> S] /\ \A i, j \in 1..n : o[i] = o[j] => i = j
  BY <1>1, Ordered
<1>3. \A i \in 1..n : /\ entries[i] = Run(o[i]) /\ Run(o[i]) \in Entries
                      /\ Run(o[i]).task = o[i] /\ o[i] \in S
  BY <1>2, TaskEntries
<1>4. DOMAIN entries = 1..n /\ entries \in Seq(Entries)
  BY <1>2, <1>3
<1> QED
  BY <1>2, <1>3, <1>4 DEF DistinctRuns, Within

LEMMA OrderedCancels ==
  ASSUME NEW S \in SUBSET Tasks, NEW o \in Orders(S)
  PROVE  LET entries == [i \in DOMAIN o |-> Cancel(o[i])] IN
         /\ entries \in Seq(Entries) /\ DistinctRuns(entries)
         /\ \A x : Within(entries, x) => \E t \in S : x = Cancel(t)
<1> DEFINE entries == [i \in DOMAIN o |-> Cancel(o[i])]
<1>1. IsFiniteSet(S)
  BY ServerAssumption, FS_Subset
<1>2. PICK n \in Nat : o \in [1..n -> S]
  BY <1>1, Ordered
<1>3. \A i \in 1..n : /\ entries[i] = Cancel(o[i]) /\ Cancel(o[i]) \in Entries
                      /\ Cancel(o[i]).type = "cancel" /\ o[i] \in S
  BY <1>2, TaskEntries
<1>4. DOMAIN entries = 1..n /\ entries \in Seq(Entries)
  BY <1>2, <1>3
<1> QED
  BY <1>3, <1>4 DEF DistinctRuns, Within

Results == [task : Tasks, kind : {"partial", "final", "error"}]

LEMMA SendTypes ==
  ASSUME results \in Seq(Results), NEW t \in Tasks,
         NEW kind \in {"partial", "final", "error"}, Send(t, kind)
  PROVE  results' \in Seq(Results)
<1>1. [task |-> t, kind |-> kind] \in Results
  BY DEF Results
<1> QED
  BY <1>1 DEF Send

\* A task that leaves the deferred ones is the first of the queue.
LEMMA Popped ==
  ASSUME TypeOK, NEW s \in Slots, PopDeferred(s)
  PROVE  /\ queue' \in Seq(Entries) /\ deferred' \in Seq(Tasks)
         /\ \/ deferred = <<>> /\ UNCHANGED <<queue, deferred>>
            \/ \E d \in Tasks :
                 /\ Within(deferred, d)
                 /\ \A x : Within(queue', x) <=> Within(queue, x) \/ x = Run(d)
                 /\ \A x : Within(deferred', x) => Within(deferred, x)
                 /\ \A x : Within(deferred, x) => x = d \/ Within(deferred', x)
                 /\ Distinct(deferred) => Distinct(deferred') /\ ~Within(deferred', d)
                 /\ DistinctRuns(queue) /\ ~Within(queue, Run(d)) => DistinctRuns(queue')
<1>1. queue \in Seq(Entries) /\ deferred \in Seq(Tasks)
  BY DEF TypeOK
<1>2. CASE deferred = <<>>
  BY <1>1, <1>2 DEF PopDeferred
<1>3. CASE deferred # <<>>
  <2>1. PICK i \in 1..Len(deferred) :
          queue' = <<Run(deferred[i])>> \o queue /\ deferred' = RemoveAt(deferred, i)
    BY <1>3 DEF PopDeferred
  <2> DEFINE d == deferred[i]
  <2>2. d \in Tasks /\ Within(deferred, d)
    BY <1>1 DEF Within
  <2>3. Run(d) \in Entries
    BY <2>2, TaskEntries
  <2>4. /\ <<Run(d)>> \in Seq(Entries) /\ DistinctRuns(<<Run(d)>>)
        /\ \A x : Within(<<Run(d)>>, x) <=> x = Run(d)
    BY <2>3, Single
  <2> HIDE DEF d
  <2>5. /\ queue' \in Seq(Entries)
        /\ \A x : Within(queue', x) <=> Within(queue, x) \/ x = Run(d)
        /\ DistinctRuns(queue) /\ ~Within(queue, Run(d)) => DistinctRuns(queue')
    <3>1. queue' = <<Run(d)>> \o queue
      BY <2>1 DEF d
    <3>2. /\ <<Run(d)>> \o queue \in Seq(Entries)
          /\ \A x : Within(<<Run(d)>> \o queue, x) <=> Within(<<Run(d)>>, x) \/ Within(queue, x)
          /\ (/\ DistinctRuns(<<Run(d)>>) /\ DistinctRuns(queue)
              /\ \A x : Within(<<Run(d)>>, x) /\ Within(queue, x) => x.type # "run")
             => DistinctRuns(<<Run(d)>> \o queue)
      BY <1>1, <2>4, Joined
    <3> QED
      BY <2>4, <3>1, <3>2
  <2>6. /\ deferred' \in Seq(Tasks)
        /\ \A x : Within(deferred', x) => Within(deferred, x)
        /\ \A x : Within(deferred, x) => x = d \/ Within(deferred', x)
        /\ Distinct(deferred) => Distinct(deferred') /\ ~Within(deferred', d)
    BY <1>1, <2>1, RemovedOne DEF d
  <2> QED
    BY <2>2, <2>5, <2>6
<1> QED
  BY <1>2, <1>3

LEMMA NextSlotTypes ==
  ASSUME cur \in Slots, NEW after, NextSlot(after)
  PROVE  /\ cur' \in Slots
         /\ \/ cur < NSlots /\ cur' = cur + 1 /\ mpc' = mpc
            \/ cur = NSlots /\ cur' = 1 /\ mpc' = after
BY ServerAssumption DEF NextSlot, Scan, Slots

\* Each child gets one of the first free slots.
LEMMA ChildRank ==
  ASSUME NEW t \in Tasks, NEW s, Free \in SUBSET Slots
  PROVE  /\ \A k \in ChildSlots(t, s) :
              1 + Cardinality({j \in ChildSlots(t, s) : j < k}) \in 1..Cardinality(Children(t))
         /\ \A k, l \in ChildSlots(t, s) :
              1 + Cardinality({j \in ChildSlots(t, s) : j < k})
                = 1 + Cardinality({j \in ChildSlots(t, s) : j < l}) => k = l
         /\ ChildSlots(t, s) \in SUBSET (Free \ {s})
<1> DEFINE K == ChildSlots(t, s)
           below(k) == {j \in K : j < k}
           free(k) == {j \in Free \ {s} : j < k}
<1>1. IsFiniteSet(Slots) /\ Slots \subseteq Nat
  <2>1. 1 \in Int /\ NSlots \in Int
    BY ServerAssumption
  <2> QED
    BY <2>1, ServerAssumption, FS_Interval DEF Slots
<1>2. PICK n \in Nat : n = Cardinality(Children(t))
  <2>1. Children(t) \in SUBSET Tasks
    BY DEF Children
  <2> QED
    BY <2>1, ServerAssumption, FS_Subset, FS_CardinalityType
<1>3. /\ K \in SUBSET (Free \ {s}) /\ \A k \in K : k \in Nat
      /\ \A k \in K : Cardinality(free(k)) < n
  BY <1>1, <1>2 DEF ChildSlots
<1> HIDE DEF K
<1>4. ASSUME NEW k \in K
      PROVE  /\ IsFiniteSet(below(k)) /\ Cardinality(below(k)) \in Nat
             /\ Cardinality(below(k)) < n
  <2>1. free(k) \in SUBSET Slots /\ below(k) \in SUBSET free(k)
    BY <1>3
  <2>2. IsFiniteSet(free(k)) /\ Cardinality(free(k)) \in Nat
    BY <1>1, <2>1, FS_Subset, FS_CardinalityType
  <2>3. IsFiniteSet(below(k)) /\ Cardinality(below(k)) <= Cardinality(free(k))
    BY <2>1, <2>2, FS_Subset
  <2>4. Cardinality(below(k)) \in Nat
    BY <2>3, FS_CardinalityType
  <2> QED
    BY <1>3, <2>2, <2>3, <2>4
<1>5. ASSUME NEW k \in K, NEW l \in K, k < l PROVE Cardinality(below(k)) < Cardinality(below(l))
  <2>1. below(k) \in SUBSET below(l) /\ k \in below(l) /\ k \notin below(k)
    <3>1. \A j \in K : j < k => j < l
      BY <1>3, <1>5
    <3> QED
      BY <1>3, <1>5, <3>1
  <2>2. /\ Cardinality(below(k)) <= Cardinality(below(l))
        /\ Cardinality(below(k)) # Cardinality(below(l))
    BY <1>4, <2>1, FS_Subset
  <2> QED
    BY <1>4, <2>2
<1>6. ASSUME NEW k \in K PROVE 1 + Cardinality(below(k)) \in 1..n
  <2>1. PICK m \in Nat : m = Cardinality(below(k)) /\ m < n
    BY <1>4
  <2>2. 1 + m \in 1..n
    BY <2>1
  <2> QED
    BY <2>1, <2>2
<1>7. ASSUME NEW k \in K, NEW l \in K,
             1 + Cardinality(below(k)) = 1 + Cardinality(below(l))
      PROVE  k = l
  <2>1. k \in Nat /\ l \in Nat
    BY <1>1, <1>3
  <2>2. ~(k < l)
    BY <1>4, <1>5, <1>7
  <2>3. ~(l < k)
    BY <1>4, <1>5, <1>7
  <2> QED
    BY <2>1, <2>2, <2>3
<1> QED
  BY <1>2, <1>3, <1>6, <1>7 DEF K

LEMMA NotOwnChild == ASSUME NEW t \in Tasks PROVE t \notin Children(t) /\ Children(t) \in SUBSET Tasks
BY ServerAssumption DEF Children

SlotRecord ==
  [state : {"idle", "wait_other", "started", "prompt", "done", "generating"},
   task : Tasks \cup {NoTask}, decoded : 0..MaxTokens]

LEMMA SlotRecords ==
  /\ IdleSlot \in SlotRecord /\ IdleSlot.state = "idle" /\ IdleSlot.task = NoTask
  /\ \A t \in Tasks : /\ Occupied(t) \in SlotRecord /\ Occupied(t).task = t
                      /\ Occupied(t).state = IF IsChild(t) THEN "wait_other" ELSE "started"
<1>1. 0 \in 0..MaxTokens
  BY ServerAssumption
<1> QED
  BY <1>1 DEF IdleSlot, SlotRecord, Occupied

\* Tasks are put in slots that were free, one in each.
Placed(K, f) == slot' = [k \in Slots |-> IF k \in K THEN Occupied(f[k]) ELSE slot[k]]

LEMMA FreeSlots == Free \in SUBSET Slots /\ \A k \in Free : slot[k].state = "idle"
BY DEF Free, IsProcessing

LEMMA LaunchPlaces ==
  ASSUME NEW t \in Tasks, NEW s \in Candidates(t), NEW o \in Orders(Children(t)),
         slot' = [k \in Slots |->
                       IF k = s THEN Occupied(t)
                       ELSE IF k \in ChildSlots(t, s)
                       THEN Occupied(o[1 + Cardinality({j \in ChildSlots(t, s) : j < k})])
                       ELSE slot[k]]
  PROVE  \E K \in SUBSET Free : \E f \in [K -> {t} \cup Children(t)] :
           /\ Placed(K, f) /\ \E k \in K : f[k] = t
           /\ \A k, l \in K : f[k] = f[l] => k = l
<1> DEFINE C == ChildSlots(t, s)
           rank(k) == 1 + Cardinality({j \in C : j < k})
           K == C \cup {s}
           f == [k \in K |-> IF k = s THEN t ELSE o[rank(k)]]
<1>1. /\ \A k \in C : rank(k) \in 1..Cardinality(Children(t))
      /\ \A k, l \in C : rank(k) = rank(l) => k = l
      /\ C \in SUBSET (Free \ {s})
  BY FreeSlots, ChildRank
<1>2. s \in Free
  BY DEF Candidates
<1>3. PICK n \in Nat : /\ n = Cardinality(Children(t)) /\ o \in [1..n -> Children(t)]
                       /\ \A i, j \in 1..n : o[i] = o[j] => i = j
  BY NotOwnChild, ServerAssumption, FS_Subset, Ordered
<1> HIDE DEF rank, C
<1>4. K \in SUBSET Free /\ s \in K /\ f[s] = t
  BY <1>1, <1>2
<1>5. \A k \in C : k # s /\ rank(k) \in 1..n /\ f[k] = o[rank(k)] /\ f[k] \in Children(t)
  BY <1>1, <1>3
<1>6. f \in [K -> {t} \cup Children(t)]
  BY <1>5
<1>7. \A k, l \in K : f[k] = f[l] => k = l
  BY <1>1, <1>3, <1>4, <1>5, NotOwnChild
<1>8. Placed(K, f)
  <2>1. \A k \in Slots : slot'[k] = IF k \in K THEN Occupied(f[k]) ELSE slot[k]
    BY <1>4, <1>5 DEF rank, C
  <2> QED
    BY <2>1 DEF Placed
<1> HIDE DEF K, f
<1> QED
  BY <1>4, <1>6, <1>7, <1>8

\* The first n children are in their slots.
FirstLaunched(t, s, o, n) ==
  slot' = [k \in Slots |->
             LET i == 1 + Cardinality({j \in ChildSlots(t, s) : j < k})
             IN  IF k \in ChildSlots(t, s) /\ i <= n THEN Occupied(o[i]) ELSE slot[k]]

LEMMA LaunchFailsPlaces ==
  ASSUME NEW t \in Tasks, NEW s \in Candidates(t), NEW o \in Orders(Children(t)),
         NEW n \in 0..Len(o),
         FirstLaunched(t, s, o, n)
  PROVE  /\ (IF n < Len(o) THEN o[n + 1] ELSE t) \in {t} \cup Children(t)
         /\ \E K \in SUBSET Free : \E f \in [K -> Children(t)] :
              /\ Placed(K, f) /\ \A k, l \in K : f[k] = f[l] => k = l
              /\ \A k \in K : f[k] # (IF n < Len(o) THEN o[n + 1] ELSE t)
              /\ n = 0 => K = {}
<1> DEFINE C == ChildSlots(t, s)
           rank(k) == 1 + Cardinality({j \in C : j < k})
           K == {k \in C : rank(k) <= n}
           f == [k \in K |-> o[rank(k)]]
<1>1. /\ \A k \in C : rank(k) \in 1..Cardinality(Children(t))
      /\ \A k, l \in C : rank(k) = rank(l) => k = l
      /\ C \in SUBSET (Free \ {s})
  BY FreeSlots, ChildRank
<1>2. PICK c \in Nat : /\ c = Cardinality(Children(t)) /\ o \in [1..c -> Children(t)]
                       /\ \A i, j \in 1..c : o[i] = o[j] => i = j
  BY NotOwnChild, ServerAssumption, FS_Subset, Ordered
<1>3. Len(o) = c /\ n \in 0..c
  BY <1>2
<1> HIDE DEF rank, C
<1>4. \A k \in K : /\ k \in C /\ rank(k) \in 1..n /\ rank(k) \in 1..c /\ f[k] = o[rank(k)]
                   /\ f[k] \in Children(t)
  BY <1>1, <1>2, <1>3
<1>5. K \in SUBSET Free
  BY <1>1
<1>6. f \in [K -> Children(t)]
  BY <1>4
<1>7. \A k, l \in K : f[k] = f[l] => k = l
  BY <1>1, <1>2, <1>4
<1>8. Placed(K, f)
  <2>1. \A k \in Slots : slot'[k] = IF k \in K THEN Occupied(f[k]) ELSE slot[k]
    BY <1>4 DEF rank, C, FirstLaunched
  <2> QED
    BY <2>1 DEF Placed, FirstLaunched
<1>9. /\ (IF n < Len(o) THEN o[n + 1] ELSE t) \in {t} \cup Children(t)
      /\ \A k \in K : f[k] # (IF n < Len(o) THEN o[n + 1] ELSE t)
  <2>1. CASE n < c
    <3>1. n + 1 \in 1..c /\ \A k \in K : rank(k) # n + 1
      BY <1>3, <1>4, <2>1
    <3> QED
      BY <1>2, <1>3, <1>4, <2>1, <3>1
  <2>2. CASE n = c
    BY <1>3, <1>4, <2>2, NotOwnChild
  <2> QED
    BY <1>3, <2>1, <2>2
<1>10. n = 0 => K = {}
  <2>1. n = 0 => 1..n = {}
    OBVIOUS
  <2> QED
    BY <1>4, <2>1
<1> HIDE DEF K, f
<1> QED
  BY <1>5, <1>6, <1>7, <1>8, <1>9, <1>10
LEMMA LaunchStep ==
  ASSUME Launch
  PROVE  \E t \in Tasks :
           /\ InHand(t) /\ Kind[t] \in {"cmpl", "lora", "embd"} /\ HasRoom(t)
           /\ \E K \in SUBSET Free : \E f \in [K -> {t} \cup Children(t)] :
                /\ Placed(K, f) /\ \E k \in K : f[k] = t
                /\ \A k, l \in K : f[k] = f[l] => k = l
<1>1. PICK t \in Tasks :
        /\ InHand(t) /\ Kind[t] \in {"cmpl", "lora", "embd"} /\ HasRoom(t)
        /\ \E s \in Candidates(t) : \E o \in Orders(Children(t)) :
            slot' = [k \in Slots |->
                       IF k = s THEN Occupied(t)
                       ELSE IF k \in ChildSlots(t, s)
                       THEN Occupied(o[1 + Cardinality({j \in ChildSlots(t, s) : j < k})])
                       ELSE slot[k]]
  BY DEF Launch
<1> QED
  BY <1>1, LaunchPlaces

LEMMA LaunchFailsStep ==
  ASSUME LaunchFails
  PROVE  \E t \in Tasks :
           /\ InHand(t) /\ "launch" \in Faults
           /\ \E K \in SUBSET Free : \E f \in [K -> Children(t)] : \E e \in {t} \cup Children(t) :
                /\ Placed(K, f) /\ \A k, l \in K : f[k] = f[l] => k = l
                /\ \A k \in K : f[k] # e
                /\ Send(e, "error")
                /\ nEmpty' \in {nEmpty, 0} /\ (nEmpty' # 0 => K = {})
<1>1. PICK t \in Tasks :
       /\ InHand(t) /\ "launch" \in Faults
       /\ \E s \in Candidates(t) : \E o \in Orders(Children(t)) :
          \E n \in 0..Len(o) :
            /\ FirstLaunched(t, s, o, n)
            /\ Send(IF n < Len(o) THEN o[n + 1] ELSE t, "error")
            /\ nEmpty' = IF n = 0 THEN nEmpty ELSE 0
  BY DEF LaunchFails, FirstLaunched
<1>2. PICK s \in Candidates(t), o \in Orders(Children(t)) : \E n \in 0..Len(o) :
            /\ FirstLaunched(t, s, o, n)
            /\ Send(IF n < Len(o) THEN o[n + 1] ELSE t, "error")
            /\ nEmpty' = IF n = 0 THEN nEmpty ELSE 0
  BY <1>1
<1>3. PICK n \in 0..Len(o) :
            /\ FirstLaunched(t, s, o, n)
            /\ Send(IF n < Len(o) THEN o[n + 1] ELSE t, "error")
            /\ nEmpty' = IF n = 0 THEN nEmpty ELSE 0
  BY <1>2
<1>4. /\ (IF n < Len(o) THEN o[n + 1] ELSE t) \in {t} \cup Children(t)
      /\ \E K \in SUBSET Free : \E f \in [K -> Children(t)] :
           /\ Placed(K, f) /\ \A k, l \in K : f[k] = f[l] => k = l
           /\ \A k \in K : f[k] # (IF n < Len(o) THEN o[n + 1] ELSE t)
           /\ n = 0 => K = {}
  BY <1>3, LaunchFailsPlaces
<1>5. PICK e \in {t} \cup Children(t) : e = IF n < Len(o) THEN o[n + 1] ELSE t
  BY <1>4
<1>6. PICK K \in SUBSET Free : \E f \in [K -> Children(t)] :
           /\ Placed(K, f) /\ \A k, l \in K : f[k] = f[l] => k = l
           /\ \A k \in K : f[k] # (IF n < Len(o) THEN o[n + 1] ELSE t)
           /\ n = 0 => K = {}
  BY <1>4
<1>7. PICK f \in [K -> Children(t)] :
           /\ Placed(K, f) /\ \A k, l \in K : f[k] = f[l] => k = l
           /\ \A k \in K : f[k] # (IF n < Len(o) THEN o[n + 1] ELSE t)
           /\ n = 0 => K = {}
  BY <1>6
<1>8. /\ \A k \in K : f[k] # e
      /\ Send(e, "error") /\ nEmpty' \in {nEmpty, 0} /\ (nEmpty' # 0 => K = {})
  BY <1>3, <1>5, <1>7
<1> QED
  BY <1>1, <1>7, <1>8
-----------------------------------------------------------------------------
(* The types, and what the main thread has in hand.                        *)

LEMMA TypeStart == Init => TypeInv
<1> SUFFICES ASSUME Init PROVE TypeInv
  OBVIOUS
<1>1. /\ <<>> \in Seq(Entries) /\ <<>> \in Seq(Tasks) /\ <<>> \in Seq(Results)
      /\ {} \in SUBSET Slots /\ {} \in SUBSET Tasks
  OBVIOUS
<1>2. TypeOK
  BY <1>1, FirstSlot, SlotRecords DEF Init, TypeOK, Results, SlotRecord
<1>3. MainFits
  BY SlotRecords DEF Init, MainFits
<1> QED
  BY <1>2, <1>3 DEF TypeInv

\* What the reader of a request does leaves the main thread and the slots alone.
LEMMA ReaderTypes ==
  ASSUME TypeInv, NEW r \in Requests, Reader(r) \/ Disconnect(r)
  PROVE  TypeInv'
<1> USE DEF TypeInv
<1>1. MainFits'
  BY DEF MainFits, Reader, Register, PostTasks, Receive, Finish, Disconnect, Unregister,
         DropResults, PostCancels, mainVars
<1>2. /\ TasksOf(r) \in SUBSET Tasks
      /\ queue \in Seq(Entries) /\ deferred \in Seq(Tasks) /\ results \in Seq(Results)
  BY DEF TasksOf, TypeOK, Results
<1>3. CASE Register(r)
  BY <1>1, <1>2, <1>3 DEF Register, ReaderAt, TypeOK, mainVars
<1>4. CASE PostTasks(r)
  <2>1. PICK o \in Orders({t \in TasksOf(r) : ~IsChild(t)}) :
          LET entries == [i \in DOMAIN o |-> Run(o[i])]
          IN  queue' = IF \A t \in TasksOf(r) : Kind[t] = "ctrl"
                       THEN entries \o queue ELSE queue \o entries
    BY <1>4 DEF PostTasks
  <2>2. {t \in TasksOf(r) : ~IsChild(t)} \in SUBSET Tasks
    BY <1>2
  <2>3. [i \in DOMAIN o |-> Run(o[i])] \in Seq(Entries)
    BY <2>2, OrderedRuns
  <2>4. queue' \in Seq(Entries)
    BY <1>2, <2>1, <2>3, Joined
  <2> QED
    BY <1>1, <1>4, <2>4 DEF PostTasks, ReaderAt, TypeOK, mainVars
<1>5. CASE Receive(r)
  <2>1. PICK i \in 1..Len(results) :
          /\ results[i].task \in TasksOf(r)
          /\ results' = RemoveAt(results, i)
          /\ rpc' = IF results[i].kind = "error"
                    THEN [rpc EXCEPT ![r] = "stopping"] ELSE rpc
          /\ got' = IF results[i].kind = "final"
                    THEN [got EXCEPT ![r] = @ \cup {results[i].task}] ELSE got
    BY <1>5 DEF Receive
  <2>2. results' \in Seq(Results)
    BY <1>2, <2>1, RemovedOne
  <2> QED
    BY <1>1, <1>2, <1>5, <2>1, <2>2 DEF Receive, TypeOK, mainVars, Results
<1>6. CASE Finish(r)
  BY <1>1, <1>2, <1>6 DEF Finish, ReaderAt, TypeOK, mainVars
<1>7. CASE Disconnect(r)
  BY <1>1, <1>7 DEF Disconnect, ReaderAt, TypeOK, mainVars
<1>8. CASE Unregister(r)
  BY <1>1, <1>2, <1>8 DEF Unregister, ReaderAt, TypeOK, mainVars
<1>9. CASE DropResults(r)
  <2>1. results' \in Seq(Results)
    BY <1>2, <1>9, WithoutSome DEF DropResults
  <2> QED
    BY <1>1, <1>9, <2>1 DEF DropResults, ReaderAt, TypeOK, mainVars, Results
<1>10. CASE PostCancels(r)
  <2>1. PICK o \in Orders(TasksOf(r)) :
          queue' = [i \in DOMAIN o |-> Cancel(o[i])] \o DropTask(queue, TasksOf(r))
    BY <1>10 DEF PostCancels
  <2>2. [i \in DOMAIN o |-> Cancel(o[i])] \in Seq(Entries)
    BY <1>2, OrderedCancels
  <2>3. DropTask(queue, TasksOf(r)) \in Seq(Entries)
    BY <1>2, WithoutSome DEF DropTask
  <2>4. queue' \in Seq(Entries)
    BY <2>1, <2>2, <2>3
  <2>5. deferred' \in Seq(Tasks)
    BY <1>2, <1>10, WithoutSome DEF PostCancels
  <2> QED
    BY <1>1, <1>10, <2>4, <2>5 DEF PostCancels, ReaderAt, TypeOK, mainVars
<1> QED
  BY <1>1, <1>3, <1>4, <1>5, <1>6, <1>7, <1>8, <1>9, <1>10 DEF Reader

\* The task of a slot that is processing.
LEMMA SlotTask ==
  ASSUME TypeInv, NEW s \in Slots
  PROVE  /\ slot[s] \in SlotRecord
         /\ slot[s].state # "idle" => slot[s].task \in Tasks
         /\ slot[s].task \in Tasks => slot[s].state # "idle"
BY ServerAssumption DEF TypeInv, TypeOK, MainFits, SlotRecord

\* A release.
LEMMA ReleaseTypes ==
  ASSUME TypeInv, NEW s \in Slots, Release(s)
  PROVE  /\ queue' \in Seq(Entries) /\ deferred' \in Seq(Tasks)
         /\ slot' \in [Slots -> SlotRecord]
         /\ slot'[s] = IdleSlot /\ \A k \in Slots \ {s} : slot'[k] = slot[k]
         /\ \A k \in Slots : slot'[k].state = "idle" <=> slot'[k].task = NoTask
<1>1. slot \in [Slots -> SlotRecord] /\ slot' = [slot EXCEPT ![s] = IdleSlot]
  BY DEF Release, TypeInv, TypeOK, SlotRecord
<1>2. queue' \in Seq(Entries) /\ deferred' \in Seq(Tasks)
  BY Popped DEF Release, TypeInv
<1>3. slot' \in [Slots -> SlotRecord] /\ slot'[s] = IdleSlot /\ \A k \in Slots \ {s} : slot'[k] = slot[k]
  BY <1>1, SlotRecords
<1>4. \A k \in Slots : slot'[k].state = "idle" <=> slot'[k].task = NoTask
  BY <1>3, SlotRecords DEF TypeInv, MainFits
<1> QED
  BY <1>2, <1>3, <1>4

\* Tasks that are put in free slots.
LEMMA PlacedTypes ==
  ASSUME TypeInv, NEW K \in SUBSET Slots, NEW f \in [K -> Tasks], Placed(K, f)
  PROVE  /\ slot' \in [Slots -> SlotRecord]
         /\ \A k \in Slots : slot'[k].state = "idle" <=> slot'[k].task = NoTask
<1>1. slot \in [Slots -> SlotRecord]
  BY DEF TypeInv, TypeOK, SlotRecord
<1>2. \A k \in Slots : slot'[k] = IF k \in K THEN Occupied(f[k]) ELSE slot[k]
  BY DEF Placed
<1>3. \A k \in K : f[k] \in Tasks /\ f[k] # NoTask
  BY ServerAssumption
<1>4. slot' \in [Slots -> SlotRecord]
  BY <1>1, <1>2, <1>3, SlotRecords DEF Placed
<1>5. \A k \in K : slot'[k].state # "idle" /\ slot'[k].task # NoTask
  BY <1>2, <1>3, SlotRecords
<1> QED
  BY <1>2, <1>4, <1>5 DEF TypeInv, MainFits

LEMMA TaskTypes ==
  ASSUME TypeInv, mpc # "aborted", TakeTask \/ WakeUp \/ ProcessSingleTask
  PROVE  TypeInv'
<1> USE DEF TypeInv
<1>1. queue \in Seq(Entries) /\ deferred \in Seq(Tasks) /\ results \in Seq(Results)
  BY DEF TypeOK, Results
<1>2. CASE TakeTask
  <2>1. hand' \in Entries /\ hand' # NoEntry /\ queue' \in Seq(Entries)
    BY <1>1, <1>2, TakenFirst, EntryCases DEF TakeTask
  <2> QED
    BY <1>2, <2>1 DEF TakeTask, TypeOK, MainFits, Goto, readerVars
<1>3. CASE WakeUp
  BY <1>3 DEF WakeUp, TypeOK, MainFits, Goto, readerVars
<1>4. ASSUME TaskDone PROVE hand' = NoEntry /\ mpc' = "take" /\ UNCHANGED <<cur, batch>>
  BY <1>4 DEF TaskDone, Goto
<1>5. CASE Defer
  <2>1. PICK t \in Tasks : deferred' = Append(deferred, t)
    BY <1>5 DEF Defer
  <2>2. deferred' \in Seq(Tasks)
    BY <1>1, <2>1
  <2> QED
    BY <1>4, <1>5, <2>2 DEF Defer, TypeOK, MainFits, readerVars
<1>6. CASE Launch
  <2>1. PICK t \in Tasks, K \in SUBSET Free : \E f \in [K -> {t} \cup Children(t)] : Placed(K, f)
    BY <1>6, LaunchStep
  <2>2. PICK f \in [K -> {t} \cup Children(t)] : Placed(K, f)
    BY <2>1
  <2>3. K \in SUBSET Slots /\ f \in [K -> Tasks]
    BY FreeSlots, NotOwnChild
  <2>4. /\ slot' \in [Slots -> SlotRecord]
        /\ \A k \in Slots : slot'[k].state = "idle" <=> slot'[k].task = NoTask
    BY <2>2, <2>3, PlacedTypes
  <2> QED
    BY <1>4, <1>6, <2>4 DEF Launch, TypeOK, MainFits, readerVars, SlotRecord
<1>7. CASE LaunchFails
  <2>1. PICK t \in Tasks, K \in SUBSET Free :
          /\ InHand(t)
          /\ \E f \in [K -> Children(t)] : \E e \in {t} \cup Children(t) :
               Placed(K, f) /\ Send(e, "error") /\ nEmpty' \in {nEmpty, 0}
    BY <1>7, LaunchFailsStep
  <2>2. PICK f \in [K -> Children(t)], e \in {t} \cup Children(t) :
          Placed(K, f) /\ Send(e, "error") /\ nEmpty' \in {nEmpty, 0}
    BY <2>1
  <2>3. K \in SUBSET Slots /\ f \in [K -> Tasks]
    BY FreeSlots, NotOwnChild
  <2>4. /\ slot' \in [Slots -> SlotRecord]
        /\ \A k \in Slots : slot'[k].state = "idle" <=> slot'[k].task = NoTask
    BY <2>2, <2>3, PlacedTypes
  <2>5. results' \in Seq(Results)
    BY <1>1, <2>2, NotOwnChild, SendTypes
  <2>6. hand' = hand /\ hand.type = "run" /\ hand # NoEntry /\ mpc' = "unlaunch" /\ cur' = 1
    BY <1>7, <2>1, TaskEntries DEF LaunchFails, Scan, InHand
  <2> QED
    BY <1>7, <2>2, <2>4, <2>5, <2>6, FirstSlot
    DEF LaunchFails, TypeOK, MainFits, readerVars, SlotRecord, Results
<1>8. CASE LaunchUndo
  <2>1. /\ queue' \in Seq(Entries) /\ deferred' \in Seq(Tasks)
        /\ slot' \in [Slots -> SlotRecord]
        /\ \A k \in Slots : slot'[k].state = "idle" <=> slot'[k].task = NoTask
    <3>1. CASE Release(cur)
      BY <3>1, ReleaseTypes DEF TypeOK
    <3>2. CASE UNCHANGED <<queue, deferred, slot>>
      BY <3>2 DEF TypeOK, MainFits, SlotRecord
    <3> QED
      BY <1>8, <3>1, <3>2 DEF LaunchUndo
  <2>2. /\ cur' \in Slots
        /\ \/ cur < NSlots /\ cur' = cur + 1 /\ mpc' = mpc
           \/ cur = NSlots /\ cur' = 1 /\ mpc' = "take"
    BY <1>8, NextSlotTypes DEF LaunchUndo, TypeOK
  <2>3. hand' = IF cur = NSlots THEN NoEntry ELSE hand
    BY <1>8 DEF LaunchUndo
  <2> QED
    BY <1>8, <2>1, <2>2, <2>3, ServerAssumption
    DEF LaunchUndo, TypeOK, MainFits, readerVars, SlotRecord
<1>9. CASE Answer
  <2>1. results' \in Seq(Results)
    BY <1>1, <1>9, SendTypes DEF Answer
  <2> QED
    BY <1>4, <1>9, <2>1 DEF Answer, TypeOK, MainFits, readerVars, Results
<1>10. CASE CancelTask
  <2>1. /\ queue' \in Seq(Entries) /\ deferred' \in Seq(Tasks)
        /\ slot' \in [Slots -> SlotRecord]
        /\ \A k \in Slots : slot'[k].state = "idle" <=> slot'[k].task = NoTask
    <3>1. ASSUME NEW s \in Slots, Release(s)
          PROVE  /\ queue' \in Seq(Entries) /\ deferred' \in Seq(Tasks)
                 /\ slot' \in [Slots -> SlotRecord]
                 /\ \A k \in Slots : slot'[k].state = "idle" <=> slot'[k].task = NoTask
      BY <3>1, ReleaseTypes
    <3>2. CASE UNCHANGED <<queue, deferred, slot>>
      BY <3>2 DEF TypeOK, MainFits, SlotRecord
    <3> QED
      BY <1>10, <3>1, <3>2 DEF CancelTask
  <2> QED
    BY <1>4, <1>10, <2>1 DEF CancelTask, TypeOK, MainFits, readerVars, SlotRecord
<1>11. CASE IgnoreNext
  BY <1>4, <1>11 DEF IgnoreNext, TypeOK, MainFits, readerVars
<1> QED
  BY <1>2, <1>3, <1>5, <1>6, <1>7, <1>8, <1>9, <1>10, <1>11 DEF ProcessSingleTask

LEMMA UpdateTypes ==
  ASSUME TypeInv, mpc # "aborted", UpdateSlots
  PROVE  TypeInv'
<1> USE DEF TypeInv
<1>1. /\ queue \in Seq(Entries) /\ deferred \in Seq(Tasks) /\ results \in Seq(Results)
      /\ slot \in [Slots -> SlotRecord] /\ cur \in Slots
      /\ \A s \in Slots : slot[s].state = "idle" <=> slot[s].task = NoTask
  BY DEF TypeOK, MainFits, Results, SlotRecord
<1>2. ASSUME NEW after, NextSlot(after)
      PROVE  /\ cur' \in Slots
             /\ mpc' = mpc \/ mpc' = after
  BY <1>1, <1>2, NextSlotTypes
<1>3. ASSUME Release(cur)
      PROVE  /\ queue' \in Seq(Entries) /\ deferred' \in Seq(Tasks)
             /\ slot' \in [Slots -> SlotRecord]
             /\ \A k \in Slots : slot'[k].state = "idle" <=> slot'[k].task = NoTask
  BY <1>1, <1>3, ReleaseTypes
<1>4. ASSUME NEW kind \in {"partial", "final", "error"}, Send(slot[cur].task, kind),
             slot[cur].state # "idle"
      PROVE  results' \in Seq(Results)
  BY <1>1, <1>4, SlotTask, SendTypes
<1>5. CASE AllIdle
  BY <1>5 DEF AllIdle, TypeOK, MainFits, Goto, readerVars
<1>6. CASE StartUpdate
  <2>1. queue' \in Seq(Entries)
    BY <1>1, <1>6 DEF StartUpdate, Entries
  <2>2. {} \in SUBSET Slots
    OBVIOUS
  <2> QED
    BY <1>6, <2>1, <2>2, FirstSlot DEF StartUpdate, TypeOK, MainFits, Scan, readerVars
<1>7. CASE AddGenerating
  <2>1. cur' \in Slots /\ mpc' \in {"generate", "prompt"} /\ mpc = "generate"
    BY <1>2, <1>7 DEF AddGenerating
  <2>2. batch' \in SUBSET Slots
    BY <1>1, <1>7 DEF AddGenerating, TypeOK
  <2>3. /\ queue' \in Seq(Entries) /\ deferred' \in Seq(Tasks)
        /\ slot' \in [Slots -> SlotRecord]
        /\ \A k \in Slots : slot'[k].state = "idle" <=> slot'[k].task = NoTask
        /\ results' \in Seq(Results)
    <3>1. CASE UNCHANGED <<queue, deferred, slot, results>>
      BY <1>1, <3>1
    <3>2. CASE slot[cur].state = "generating" /\ Send(slot[cur].task, "error") /\ Release(cur)
      BY <1>3, <1>4, <3>2
    <3> QED
      BY <1>7, <3>1, <3>2 DEF AddGenerating
  <2>4. UNCHANGED <<hand, nEmpty, waiting, readerVars>>
    BY <1>7 DEF AddGenerating
  <2> QED
    BY <2>1, <2>2, <2>3, <2>4 DEF TypeOK, MainFits, readerVars, SlotRecord, Results
<1>8. CASE NoPromptsNow
  BY <1>8 DEF NoPromptsNow, TypeOK, MainFits, Goto, readerVars
<1>9. CASE AddPrompt
  <2>1. /\ mpc = "prompt" /\ cur' \in Slots /\ mpc' \in {"prompt", "decode"}
    BY <1>2, <1>9, FirstSlot DEF AddPrompt, PromptTurn, Scan
  <2>2. PICK to \in {"prompt", "done"} : slot' = [slot EXCEPT ![cur].state = to]
    BY <1>9 DEF AddPrompt
  <2>3. slot[cur].state # "idle"
    BY <1>9 DEF AddPrompt, HasPrompt
  <2>4. /\ slot' \in [Slots -> SlotRecord]
        /\ \A k \in Slots : slot'[k].state = "idle" <=> slot'[k].task = NoTask
    BY <1>1, <2>2, <2>3 DEF SlotRecord
  <2>5. batch' \in SUBSET Slots
    BY <1>1, <1>9 DEF AddPrompt, TypeOK
  <2> QED
    BY <1>9, <2>1, <2>4, <2>5 DEF AddPrompt, TypeOK, MainFits, readerVars, SlotRecord
<1>10. CASE RefusePrompt
  <2>1. mpc = "prompt" /\ cur' \in Slots /\ mpc' \in {"prompt", "decode"}
    BY <1>2, <1>10 DEF RefusePrompt, PromptTurn
  <2>2. results' \in Seq(Results)
    BY <1>4, <1>10 DEF RefusePrompt
  <2>3. /\ queue' \in Seq(Entries) /\ deferred' \in Seq(Tasks)
        /\ slot' \in [Slots -> SlotRecord]
        /\ \A k \in Slots : slot'[k].state = "idle" <=> slot'[k].task = NoTask
    BY <1>3, <1>10 DEF RefusePrompt
  <2>4. UNCHANGED <<hand, batch, nEmpty, waiting, readerVars>>
    BY <1>10 DEF RefusePrompt
  <2> QED
    BY <2>1, <2>2, <2>3, <2>4 DEF TypeOK, MainFits, readerVars, SlotRecord, Results
<1>11. CASE SkipPrompt
  <2>1. mpc = "prompt" /\ cur' \in Slots /\ mpc' \in {"prompt", "decode"}
    BY <1>2, <1>11 DEF SkipPrompt, PromptTurn
  <2> QED
    BY <1>11, <2>1 DEF SkipPrompt, TypeOK, MainFits, readerVars
<1>12. CASE EmptyBatch
  <2>1. nEmpty \in 0..3 /\ mpc = "decode"
    BY <1>12 DEF EmptyBatch, TypeOK, MainFits
  <2> QED
    BY <1>12, <2>1 DEF EmptyBatch, TypeOK, MainFits, Goto, readerVars
<1>13. CASE Decode
  <2>1. PICK copied \in SUBSET {s \in Slots : slot[s].state = "wait_other"} :
          /\ slot' = [s \in Slots |->
                        IF s \in copied THEN [slot[s] EXCEPT !.state = "done"] ELSE slot[s]]
          /\ batch' = batch \cup copied
    BY <1>13 DEF Decode
  <2>2. /\ slot' \in [Slots -> SlotRecord]
        /\ \A k \in Slots : slot'[k].state = "idle" <=> slot'[k].task = NoTask
    BY <1>1, <2>1 DEF SlotRecord
  <2>3. batch' \in SUBSET Slots
    BY <2>1 DEF TypeOK
  <2> QED
    BY <1>13, <2>2, <2>3, FirstSlot
    DEF Decode, TypeOK, MainFits, Scan, readerVars, SlotRecord
<1>14. CASE DecodeFails
  <2>1. {} \in SUBSET Slots
    OBVIOUS
  <2> QED
    BY <1>14, <2>1, FirstSlot DEF DecodeFails, TypeOK, MainFits, Scan, readerVars
<1>15. CASE FailSlot
  <2>1. mpc = "fail" /\ cur' \in Slots /\ mpc' \in {"fail", "take"}
    BY <1>2, <1>15 DEF FailSlot
  <2>2. /\ queue' \in Seq(Entries) /\ deferred' \in Seq(Tasks)
        /\ slot' \in [Slots -> SlotRecord]
        /\ \A k \in Slots : slot'[k].state = "idle" <=> slot'[k].task = NoTask
        /\ results' \in Seq(Results)
    BY <1>1, <1>3, <1>4, <1>15 DEF FailSlot, IsProcessing
  <2>3. UNCHANGED <<hand, batch, nEmpty, waiting, readerVars>>
    BY <1>15 DEF FailSlot
  <2> QED
    BY <2>1, <2>2, <2>3 DEF TypeOK, MainFits, readerVars, SlotRecord, Results
<1>16. CASE SampleLast
  <2>1. mpc = "sample" /\ cur' \in Slots /\ mpc' \in {"sample", "take"}
    BY <1>2, <1>16 DEF SampleLast
  <2>2. /\ queue' \in Seq(Entries) /\ deferred' \in Seq(Tasks)
        /\ slot' \in [Slots -> SlotRecord]
        /\ \A k \in Slots : slot'[k].state = "idle" <=> slot'[k].task = NoTask
        /\ results' \in Seq(Results)
    BY <1>3, <1>4, <1>16 DEF SampleLast, HasLogits
  <2>3. UNCHANGED <<hand, nEmpty, waiting, readerVars>> /\ batch' \in SUBSET Slots
    BY <1>16 DEF SampleLast, TypeOK
  <2> QED
    BY <2>1, <2>2, <2>3 DEF TypeOK, MainFits, readerVars, SlotRecord, Results
<1>17. CASE SampleToken
  <2>1. mpc = "sample" /\ cur' \in Slots /\ mpc' \in {"sample", "take"}
    BY <1>2, <1>17 DEF SampleToken
  <2>2. slot[cur].state # "idle" /\ slot[cur] \in SlotRecord
    BY <1>1, <1>17 DEF SampleToken, HasLogits
  <2>3. slot[cur].decoded + 1 \in 0..MaxTokens
    BY <1>17, <2>2, ServerAssumption DEF SampleToken, SlotRecord
  <2>4. /\ slot' \in [Slots -> SlotRecord]
        /\ \A k \in Slots : slot'[k].state = "idle" <=> slot'[k].task = NoTask
    <3> DEFINE new == [slot[cur] EXCEPT !.state = "generating", !.decoded = @ + 1]
    <3>1. /\ new \in SlotRecord
          /\ new.state = "generating" /\ new.task = slot[cur].task
      BY <2>2, <2>3 DEF SlotRecord
    <3>2. slot' = [slot EXCEPT ![cur] = new]
      BY <1>17 DEF SampleToken
    <3> HIDE DEF new
    <3> QED
      BY <1>1, <2>2, <3>1, <3>2
  <2>5. results' \in Seq(Results)
    BY <1>4, <1>17, <2>2 DEF SampleToken
  <2>6. /\ UNCHANGED <<queue, deferred, hand, nEmpty, waiting, readerVars>>
        /\ batch' \in SUBSET Slots
    BY <1>17 DEF SampleToken, TypeOK
  <2> QED
    BY <2>1, <2>4, <2>5, <2>6 DEF TypeOK, MainFits, readerVars, SlotRecord, Results
<1>18. CASE SampleNone
  <2>1. mpc = "sample" /\ cur' \in Slots /\ mpc' \in {"sample", "take"}
    BY <1>2, <1>18 DEF SampleNone
  <2> QED
    BY <1>18, <2>1 DEF SampleNone, TypeOK, MainFits, readerVars
<1> QED
  BY <1>5, <1>6, <1>7, <1>8, <1>9, <1>10, <1>11, <1>12, <1>13, <1>14, <1>15, <1>16, <1>17, <1>18
  DEF UpdateSlots

\* Every step is one of a reader, of the main thread between two updates, or of an update.
LEMMA Steps ==
  ASSUME Next
  PROVE  /\ mpc # "aborted"
         /\ \/ \E r \in Requests : Reader(r) \/ Disconnect(r)
            \/ TakeTask \/ WakeUp \/ ProcessSingleTask
            \/ UpdateSlots
BY DEF Next, MainLoop

LEMMA TypeStep == TypeInv /\ [Next]_vars => TypeInv'
<1> SUFFICES ASSUME TypeInv, [Next]_vars PROVE TypeInv'
  OBVIOUS
<1>1. CASE Next
  BY <1>1, Steps, ReaderTypes, TaskTypes, UpdateTypes
<1>2. CASE UNCHANGED vars
  BY <1>2 DEF vars, mainVars, readerVars, TypeInv, TypeOK, MainFits
<1> QED
  BY <1>1, <1>2

\* The variables have the types the code gives them, the counter of empty batches
\* stays within its limit, and a slot is idle exactly when it has no task.
THEOREM QueueTyped == Spec => []TypeInv
BY TypeStart, TypeStep, PTL DEF Spec

\* Every variable keeps its type.
THEOREM TypeCorrect == Spec => []TypeOK
<1>1. TypeInv => TypeOK
  BY DEF TypeInv
<1> QED
  BY QueueTyped, <1>1, PTL

-----------------------------------------------------------------------------
(* A task is in one place.                                                 *)

\* The queues are left alone, or a deferred task becomes the first of the queue, or
\* the queue gets what is not a task to run.
QueuesMove ==
  \/ UNCHANGED <<queue, deferred>>
  \/ queue' = Append(queue, NextResponse) /\ deferred' = deferred
  \/ \E s \in Slots : PopDeferred(s)

\* The main thread puts no task in hand or in a slot, and may drop some.
Drops ==
  /\ QueuesMove
  /\ hand' \in {hand, NoEntry} /\ (mpc' = "have" => mpc = "have")
  /\ \A k \in Slots : slot'[k].task \in {slot[k].task, NoTask}
  /\ rpc' = rpc

\* What a move of the queues keeps: each task is still in one of them, once.
QueuesKept ==
  /\ DistinctRuns(queue') /\ Distinct(deferred')
  /\ \A t \in Tasks :
       /\ Within(deferred', t) => InDeferred(t) /\ ~Within(queue', Run(t))
       /\ Within(queue', Run(t)) => InQueue(t) \/ InDeferred(t)
       /\ InQueue(t) => Within(queue', Run(t))
       /\ InDeferred(t) => Within(deferred', t) \/ Within(queue', Run(t))

LEMMA QueuesMoved == HomeInv /\ QueuesMove => QueuesKept
<1> SUFFICES ASSUME HomeInv, QueuesMove PROVE QueuesKept
  OBVIOUS
<1> USE DEF InQueue, InDeferred, QueuesKept
<1>1. TypeOK /\ queue \in Seq(Entries) /\ deferred \in Seq(Tasks)
  BY DEF HomeInv, TypeInv, TypeOK
<1>2. DistinctRuns(queue) /\ Distinct(deferred)
      /\ \A t \in Tasks : InQueue(t) => ~InDeferred(t)
  BY DEF HomeInv, OnePlace
<1>3. CASE UNCHANGED <<queue, deferred>>
  BY <1>2, <1>3
<1>4. CASE queue' = Append(queue, NextResponse) /\ deferred' = deferred
  <2>1. NextResponse \in Entries /\ NextResponse.type # "run"
    BY DEF Entries, NextResponse
  <2>2. \A t \in Tasks : Run(t) # NextResponse
    BY <2>1, TaskEntries
  <2>3. /\ \A x : Within(queue', x) <=> Within(queue, x) \/ x = NextResponse
        /\ DistinctRuns(queue')
    BY <1>1, <1>2, <1>4, <2>1, Appended
  <2> QED
    BY <1>2, <1>4, <2>2, <2>3
<1>5. CASE \E s \in Slots : PopDeferred(s)
  <2>1. CASE UNCHANGED <<queue, deferred>>
    BY <1>2, <2>1
  <2>2. ASSUME NEW d \in Tasks,
               Within(deferred, d),
               \A x : Within(queue', x) <=> Within(queue, x) \/ x = Run(d),
               \A x : Within(deferred', x) => Within(deferred, x),
               \A x : Within(deferred, x) => x = d \/ Within(deferred', x),
               Distinct(deferred) => Distinct(deferred') /\ ~Within(deferred', d),
               DistinctRuns(queue) /\ ~Within(queue, Run(d)) => DistinctRuns(queue')
        PROVE  QueuesKept
    <3>1. \A t \in Tasks : Run(t) = Run(d) => t = d
      BY TaskEntries
    <3> QED
      BY <1>2, <2>2, <3>1
  <2> QED
    BY <1>1, <1>5, <2>1, <2>2, Popped
<1> QED
  BY <1>3, <1>4, <1>5 DEF QueuesMove

\* The main thread goes on with what was pending, and with the children of it.
Onward ==
  \A t \in Tasks :
    /\ Pending(t)' => Pending(t)
    /\ InSlot(t)' => InSlot(t) \/ Pending(t) \/ (\E p \in Tasks : Pending(p) /\ t \in Children(p))

LEMMA HomeKept ==
  ASSUME HomeInv, TypeInv', Drops
  PROVE  HomeInv' /\ Onward
<1>1. QueuesKept
  BY QueuesMoved DEF Drops
<1>2. \A t \in Tasks : InSlot(t)' => InSlot(t)
  BY ServerAssumption DEF Drops, InSlot
<1>3. \A t \in Tasks : (hand' = Run(t) => hand = Run(t)) /\ (Pending(t)' => Pending(t))
  BY <1>1, TaskEntries DEF Drops, Pending, QueuesKept, InQueue, InDeferred
<1>4. \A t \in Tasks : /\ InQueue(t)' <=> Within(queue', Run(t))
                       /\ InDeferred(t)' <=> Within(deferred', t)
  BY DEF InQueue, InDeferred
<1>5. OnePlace'
  <2>1. ASSUME NEW s \in Slots, NEW k \in Slots, slot'[s].task = slot'[k].task, slot'[s].task # NoTask
        PROVE s = k
    BY <2>1 DEF Drops, HomeInv, OnePlace
  <2> QED
    BY <1>1, <1>2, <1>3, <1>4, <2>1 DEF QueuesKept, HomeInv, OnePlace
<1>6. ChildrenWait'
  BY <1>2, <1>3, NotOwnChild DEF HomeInv, ChildrenWait
<1>7. FreshNowhere'
  BY <1>2, <1>3 DEF HomeInv, FreshNowhere, Unposted, Drops
<1>8. Onward
  BY <1>2, <1>3 DEF Onward
<1> QED
  BY <1>5, <1>6, <1>7, <1>8 DEF HomeInv

\* Every step of the main thread but these four.
OtherStep ==
  \/ WakeUp \/ LaunchUndo \/ Answer \/ CancelTask \/ IgnoreNext \/ UpdateSlots

LEMMA Dropping ==
  ASSUME TypeInv, OtherStep
  PROVE  Drops
<1> USE DEF Drops
<1>1. ASSUME NEW s \in Slots, Release(s)
      PROVE  QueuesMove /\ \A k \in Slots : slot'[k].task \in {slot[k].task, NoTask}
  BY <1>1, ReleaseTypes, SlotRecords DEF Release, QueuesMove
<1>2. ASSUME UNCHANGED <<queue, deferred, slot>>
      PROVE  QueuesMove /\ \A k \in Slots : slot'[k].task \in {slot[k].task, NoTask}
  BY <1>2 DEF QueuesMove
<1>3. ASSUME NEW after, NextSlot(after) PROVE mpc' \in {mpc, after}
  BY <1>3 DEF NextSlot, Scan
<1>4. cur \in Slots /\ slot \in [Slots -> SlotRecord]
  BY DEF TypeInv, TypeOK, SlotRecord
<1>5. CASE WakeUp
  BY <1>2, <1>5 DEF WakeUp, Goto, readerVars
<1>6. CASE LaunchUndo
  BY <1>1, <1>2, <1>3, <1>4, <1>6 DEF LaunchUndo, readerVars
<1>7. CASE Answer
  BY <1>2, <1>7 DEF Answer, TaskDone, Goto, readerVars
<1>8. CASE CancelTask
  BY <1>1, <1>2, <1>8 DEF CancelTask, TaskDone, Goto, readerVars
<1>9. CASE IgnoreNext
  BY <1>2, <1>9 DEF IgnoreNext, TaskDone, Goto, readerVars
<1>10. CASE AllIdle
  BY <1>2, <1>10 DEF AllIdle, Goto, readerVars
<1>11. CASE StartUpdate
  BY <1>11 DEF StartUpdate, QueuesMove, Scan, readerVars
<1>12. CASE AddGenerating
  BY <1>1, <1>2, <1>3, <1>4, <1>12 DEF AddGenerating, readerVars
<1>13. CASE NoPromptsNow
  BY <1>2, <1>13 DEF NoPromptsNow, Goto, readerVars
<1>14. CASE AddPrompt
  <2>1. \A k \in Slots : slot'[k].task = slot[k].task
    BY <1>4, <1>14 DEF AddPrompt, SlotRecord
  <2> QED
    BY <1>3, <1>14, <2>1 DEF AddPrompt, PromptTurn, Scan, QueuesMove, readerVars
<1>15. CASE RefusePrompt
  BY <1>1, <1>3, <1>4, <1>15 DEF RefusePrompt, readerVars
<1>16. CASE SkipPrompt
  BY <1>2, <1>3, <1>16 DEF SkipPrompt, readerVars
<1>17. CASE EmptyBatch
  BY <1>2, <1>17 DEF EmptyBatch, Goto, readerVars
<1>18. CASE Decode
  <2>1. \A k \in Slots : slot'[k].task = slot[k].task
    BY <1>4, <1>18 DEF Decode, SlotRecord
  <2> QED
    BY <1>18, <2>1 DEF Decode, Scan, QueuesMove, readerVars
<1>19. CASE DecodeFails
  BY <1>2, <1>19 DEF DecodeFails, Scan, readerVars
<1>20. CASE FailSlot
  BY <1>1, <1>2, <1>3, <1>4, <1>20 DEF FailSlot, readerVars
<1>21. CASE SampleLast
  BY <1>1, <1>3, <1>4, <1>21 DEF SampleLast, readerVars
<1>22. CASE SampleToken
  <2>1. \A k \in Slots : slot'[k].task = slot[k].task
    BY <1>4, <1>22 DEF SampleToken, SlotRecord
  <2>2. UNCHANGED <<queue, deferred, hand, rpc>> /\ mpc' \in {"sample", "take"}
    BY <1>3, <1>22 DEF SampleToken, readerVars
  <2> QED
    BY <2>1, <2>2 DEF QueuesMove
<1>23. CASE SampleNone
  BY <1>2, <1>3, <1>23 DEF SampleNone, readerVars
<1> HIDE DEF Drops
<1> QED
  BY <1>5, <1>6, <1>7, <1>8, <1>9, <1>10, <1>11, <1>12, <1>13, <1>14, <1>15, <1>16, <1>17, <1>18,
     <1>19, <1>20, <1>21, <1>22, <1>23
  DEF OtherStep, UpdateSlots

LEMMA HomeTake ==
  ASSUME HomeInv, TypeInv', TakeTask
  PROVE  HomeInv' /\ Onward
<1>1. /\ queue \in Seq(Entries) /\ queue # <<>> /\ hand = NoEntry
      /\ mpc = "take" /\ mpc' = "have"
      /\ hand' = Head(queue) /\ queue' = Tail(queue) /\ UNCHANGED <<deferred, slot, rpc>>
  BY DEF HomeInv, TypeInv, TypeOK, MainFits, TakeTask, Goto, readerVars
<1>2. /\ \A x : Within(queue, x) <=> x = hand' \/ Within(queue', x)
      /\ DistinctRuns(queue)
      /\ DistinctRuns(queue') /\ (hand'.type = "run" => ~Within(queue', hand'))
  BY <1>1, TakenFirst DEF HomeInv, OnePlace
<1>3. \A t \in Tasks : /\ InQueue(t) <=> hand' = Run(t) \/ Within(queue', Run(t))
                       /\ hand' = Run(t) => ~Within(queue', Run(t))
  BY <1>2, TaskEntries DEF InQueue
<1>4. \A t \in Tasks : /\ InQueue(t)' <=> Within(queue', Run(t))
                       /\ InDeferred(t)' <=> InDeferred(t)
                       /\ InSlot(t)' <=> InSlot(t)
                       /\ Pending(t)' <=> Pending(t)
                       /\ hand' = Run(t) => Pending(t)
  BY <1>1, <1>3 DEF InQueue, InDeferred, InSlot, Pending
<1>5. OnePlace'
  BY <1>1, <1>2, <1>3, <1>4 DEF HomeInv, OnePlace
<1>6. ChildrenWait'
  BY <1>4, NotOwnChild DEF HomeInv, ChildrenWait
<1>7. FreshNowhere'
  BY <1>1, <1>4 DEF HomeInv, FreshNowhere, Unposted
<1>8. Onward
  BY <1>4 DEF Onward
<1> QED
  BY <1>5, <1>6, <1>7, <1>8 DEF HomeInv

LEMMA HomeDefer ==
  ASSUME HomeInv, TypeInv', Defer
  PROVE  HomeInv' /\ Onward
<1>1. PICK t \in Tasks : mpc = "have" /\ hand = Run(t) /\ deferred' = Append(deferred, t)
  BY DEF Defer, InHand
<1>2. /\ deferred \in Seq(Tasks) /\ hand' = NoEntry /\ mpc' = "take"
      /\ UNCHANGED <<queue, slot, rpc>>
  BY DEF HomeInv, TypeInv, TypeOK, Defer, TaskDone, Goto, readerVars
<1>3. ~InDeferred(t) /\ ~InQueue(t) /\ ~InSlot(t) /\ Distinct(deferred)
  BY <1>1 DEF HomeInv, OnePlace
<1>4. /\ \A x : Within(deferred', x) <=> Within(deferred, x) \/ x = t
      /\ Distinct(deferred')
  BY <1>1, <1>2, <1>3, Appended DEF InDeferred
<1>5. \A u \in Tasks : /\ InQueue(u)' <=> InQueue(u)
                       /\ InDeferred(u)' <=> InDeferred(u) \/ u = t
                       /\ InSlot(u)' <=> InSlot(u)
                       /\ hand' # Run(u) /\ (hand = Run(u) <=> u = t)
  BY <1>1, <1>2, <1>4, TaskEntries DEF InQueue, InDeferred, InSlot
<1>6. \A u \in Tasks : Pending(u)' <=> Pending(u)
  BY <1>1, <1>2, <1>5 DEF Pending
<1>7. OnePlace'
  BY <1>2, <1>3, <1>4, <1>5 DEF HomeInv, OnePlace
<1>8. ChildrenWait'
  BY <1>5, <1>6, NotOwnChild DEF HomeInv, ChildrenWait
<1>9. FreshNowhere'
  BY <1>2, <1>5, <1>6 DEF HomeInv, FreshNowhere, Unposted
<1>10. Onward
  BY <1>5, <1>6 DEF Onward
<1> QED
  BY <1>7, <1>8, <1>9, <1>10 DEF HomeInv

\* Tasks that are nowhere, or in hand, are put in free slots.
LEMMA SlotsPlaced ==
  ASSUME TypeInv, NEW K \in SUBSET Free, NEW S \in SUBSET Tasks, NEW f \in [K -> S], Placed(K, f)
  PROVE  /\ \A k \in Slots : slot'[k].task = IF k \in K THEN f[k] ELSE slot[k].task
         /\ \A k \in K : slot[k].task = NoTask
         /\ \A t \in Tasks : InSlot(t)' <=> InSlot(t) \/ \E k \in K : f[k] = t
<1>1. \A k \in Slots : slot'[k] = IF k \in K THEN Occupied(f[k]) ELSE slot[k]
  BY DEF Placed
<1>2. \A k \in K : k \in Slots /\ f[k] \in Tasks /\ Occupied(f[k]).task = f[k]
  BY FreeSlots, SlotRecords
<1>3. \A k \in K : slot[k].task = NoTask
  BY FreeSlots DEF TypeInv, MainFits
<1>4. \A k \in Slots : slot'[k].task = IF k \in K THEN f[k] ELSE slot[k].task
  BY <1>1, <1>2
<1> QED
  BY <1>2, <1>3, <1>4, ServerAssumption DEF InSlot

LEMMA HomeLaunch ==
  ASSUME HomeInv, TypeInv', Launch
  PROVE  HomeInv' /\ Onward
<1>1. PICK t \in Tasks, K \in SUBSET Free :
        /\ mpc = "have" /\ hand = Run(t)
        /\ \E f \in [K -> {t} \cup Children(t)] :
             Placed(K, f) /\ \A k, l \in K : f[k] = f[l] => k = l
  BY LaunchStep DEF InHand
<1>2. PICK f \in [K -> {t} \cup Children(t)] :
        Placed(K, f) /\ \A k, l \in K : f[k] = f[l] => k = l
  BY <1>1
<1>3. {t} \cup Children(t) \in SUBSET Tasks
  BY NotOwnChild
<1>4. /\ \A k \in Slots : slot'[k].task = IF k \in K THEN f[k] ELSE slot[k].task
      /\ \A k \in K : slot[k].task = NoTask
      /\ \A u \in Tasks : InSlot(u)' <=> InSlot(u) \/ \E k \in K : f[k] = u
  BY <1>2, <1>3, SlotsPlaced DEF HomeInv
<1>5. hand' = NoEntry /\ mpc' = "take" /\ UNCHANGED <<queue, deferred, rpc>>
  BY DEF Launch, TaskDone, Goto, readerVars
<1>6. /\ \A c \in {t} \cup Children(t) : ~InQueue(c) /\ ~InDeferred(c) /\ ~InSlot(c)
      /\ \A c \in {t} \cup Children(t) : ~Unposted(Owner[c])
  <2>1. /\ Pending(t) /\ ~InQueue(t) /\ ~InDeferred(t) /\ ~InSlot(t) /\ ~Unposted(Owner[t])
    BY <1>1 DEF Pending, HomeInv, OnePlace, FreshNowhere
  <2>2. ASSUME NEW c \in Children(t)
        PROVE  /\ ~InQueue(c) /\ ~InDeferred(c) /\ ~InSlot(c) /\ Owner[c] = Owner[t]
    <3>1. c \in Tasks /\ IsChild(c) /\ Owner[c] = Owner[t]
      BY ServerAssumption DEF Children, IsChild
    <3> QED
      BY <2>1, <3>1 DEF HomeInv, ChildrenWait, Pending
  <2> QED
    BY <2>1, <2>2
<1>7. \A u \in Tasks : /\ (InQueue(u)' <=> InQueue(u)) /\ (InDeferred(u)' <=> InDeferred(u))
                       /\ hand' # Run(u) /\ (hand = Run(u) <=> u = t)
                       /\ Pending(u)' <=> (Pending(u) /\ u # t)
  <2>1. \A u \in Tasks : /\ (InQueue(u)' <=> InQueue(u)) /\ (InDeferred(u)' <=> InDeferred(u))
                         /\ hand' # Run(u) /\ (hand = Run(u) <=> u = t)
    BY <1>1, <1>5, TaskEntries DEF InQueue, InDeferred
  <2> QED
    BY <1>1, <1>5, <1>6, <2>1 DEF Pending
<1>8. OnePlace'
  <2>1. ASSUME NEW s \in Slots, NEW k \in Slots, slot'[s].task = slot'[k].task,
               slot'[s].task # NoTask
        PROVE  s = k
    <3>1. CASE s \in K /\ k \in K
      BY <1>2, <1>4, <2>1, <3>1
    <3>2. CASE s \notin K /\ k \notin K
      BY <1>4, <2>1, <3>2 DEF HomeInv, OnePlace
    <3>3. ASSUME NEW i \in K, NEW j \in Slots \ K, f[i] = slot[j].task PROVE FALSE
      BY <1>6, <3>3 DEF InSlot
    <3> QED
      BY <1>4, <2>1, <3>1, <3>2, <3>3
  <2> QED
    BY <1>4, <1>5, <1>6, <1>7, <2>1 DEF HomeInv, OnePlace
<1>9. ChildrenWait'
  <2>1. ASSUME NEW u \in Tasks, Pending(u), u # t, NEW c \in Children(u), NEW k \in K
        PROVE  f[k] # c
    <3>1. ~IsChild(t) /\ ~IsChild(u) /\ Parent[c] = u
      BY <1>1, <2>1 DEF HomeInv, ChildrenWait, Children
    <3>2. c # t /\ c \notin Children(t)
      BY <2>1, <3>1, ServerAssumption DEF IsChild, Children
    <3> QED
      BY <3>2
  <2> QED
    BY <1>4, <1>7, <2>1, NotOwnChild DEF HomeInv, ChildrenWait
<1>10. FreshNowhere'
  BY <1>4, <1>5, <1>6, <1>7 DEF HomeInv, FreshNowhere, Unposted
<1>11. Onward
  <2>1. Pending(t)
    BY <1>1 DEF Pending
  <2> QED
    BY <1>4, <1>7, <2>1 DEF Onward
<1> QED
  BY <1>8, <1>9, <1>10, <1>11 DEF HomeInv

LEMMA HomeLaunchFails ==
  ASSUME HomeInv, TypeInv', LaunchFails
  PROVE  HomeInv' /\ Onward
<1>1. PICK t \in Tasks, K \in SUBSET Free :
        /\ mpc = "have" /\ hand = Run(t)
        /\ \E f \in [K -> Children(t)] :
             Placed(K, f) /\ \A k, l \in K : f[k] = f[l] => k = l
  BY LaunchFailsStep DEF InHand
<1>2. PICK f \in [K -> Children(t)] :
        Placed(K, f) /\ \A k, l \in K : f[k] = f[l] => k = l
  BY <1>1
<1>3. Children(t) \in SUBSET Tasks
  BY NotOwnChild
<1>4. /\ \A k \in Slots : slot'[k].task = IF k \in K THEN f[k] ELSE slot[k].task
      /\ \A k \in K : slot[k].task = NoTask
      /\ \A u \in Tasks : InSlot(u)' <=> InSlot(u) \/ \E k \in K : f[k] = u
  BY <1>2, <1>3, SlotsPlaced DEF HomeInv
<1>5. hand' = hand /\ mpc' = "unlaunch" /\ UNCHANGED <<queue, deferred, rpc>>
  BY DEF LaunchFails, Scan, readerVars
<1>6. /\ ~InQueue(t) /\ ~InDeferred(t) /\ ~InSlot(t) /\ ~Unposted(Owner[t]) /\ ~IsChild(t)
      /\ \A c \in Children(t) : /\ ~InQueue(c) /\ ~InDeferred(c) /\ ~InSlot(c)
                                /\ ~Unposted(Owner[c]) /\ c # t
  <2>1. /\ Pending(t) /\ ~InQueue(t) /\ ~InDeferred(t) /\ ~InSlot(t) /\ ~Unposted(Owner[t])
        /\ ~IsChild(t)
    BY <1>1 DEF Pending, HomeInv, OnePlace, FreshNowhere, ChildrenWait
  <2>2. ASSUME NEW c \in Children(t)
        PROVE  /\ ~InQueue(c) /\ ~InDeferred(c) /\ ~InSlot(c) /\ Owner[c] = Owner[t] /\ c # t
    <3>1. c \in Tasks /\ IsChild(c) /\ Owner[c] = Owner[t]
      BY ServerAssumption DEF Children, IsChild
    <3> QED
      BY <2>1, <3>1 DEF HomeInv, ChildrenWait, Pending
  <2> QED
    BY <2>1, <2>2
<1>7. \A u \in Tasks : /\ (InQueue(u)' <=> InQueue(u)) /\ (InDeferred(u)' <=> InDeferred(u))
                       /\ (hand' = Run(u) <=> hand = Run(u)) /\ (hand = Run(u) <=> u = t)
                       /\ Pending(u)' <=> (Pending(u) /\ u # t)
  <2>1. \A u \in Tasks : /\ (InQueue(u)' <=> InQueue(u)) /\ (InDeferred(u)' <=> InDeferred(u))
                         /\ (hand' = Run(u) <=> hand = Run(u)) /\ (hand = Run(u) <=> u = t)
    BY <1>1, <1>5, TaskEntries DEF InQueue, InDeferred
  <2> QED
    BY <1>1, <1>5, <1>6, <2>1 DEF Pending
<1>8. OnePlace'
  <2>1. ASSUME NEW s \in Slots, NEW k \in Slots, slot'[s].task = slot'[k].task,
               slot'[s].task # NoTask
        PROVE  s = k
    <3>1. CASE s \in K /\ k \in K
      BY <1>2, <1>4, <2>1, <3>1
    <3>2. CASE s \notin K /\ k \notin K
      BY <1>4, <2>1, <3>2 DEF HomeInv, OnePlace
    <3>3. ASSUME NEW i \in K, NEW j \in Slots \ K, f[i] = slot[j].task PROVE FALSE
      BY <1>6, <3>3 DEF InSlot
    <3> QED
      BY <1>4, <2>1, <3>1, <3>2, <3>3
  <2> QED
    BY <1>4, <1>5, <1>6, <1>7, <2>1 DEF HomeInv, OnePlace
<1>9. ChildrenWait'
  <2>1. ASSUME NEW u \in Tasks, Pending(u), u # t, NEW c \in Children(u), NEW k \in K
        PROVE  f[k] # c
    BY <2>1 DEF Children
  <2> QED
    BY <1>4, <1>6, <1>7, <2>1, NotOwnChild DEF HomeInv, ChildrenWait
<1>10. FreshNowhere'
  BY <1>4, <1>5, <1>6, <1>7 DEF HomeInv, FreshNowhere, Unposted
<1>11. Onward
  <2>1. Pending(t)
    BY <1>1 DEF Pending
  <2> QED
    BY <1>4, <1>7, <2>1 DEF Onward
<1> QED
  BY <1>8, <1>9, <1>10, <1>11 DEF HomeInv

LEMMA HomeReader ==
  ASSUME HomeInv, TypeInv', NEW r \in Requests, Reader(r) \/ Disconnect(r)
  PROVE  HomeInv'
<1>1. /\ UNCHANGED <<hand, slot, mpc>>
      /\ \A q \in Requests : Unposted(q)' => Unposted(q)
  <2>1. CASE Receive(r)
    BY <2>1 DEF Receive, mainVars, Unposted, HomeInv, TypeInv, TypeOK
  <2>2. CASE ~Receive(r)
    BY <2>2 DEF Reader, Register, PostTasks, Finish, Disconnect, Unregister,
                DropResults, PostCancels, ReaderAt, mainVars, Unposted, HomeInv, TypeInv, TypeOK
  <2> QED
    BY <2>1, <2>2
<1>2. ASSUME NEW t \in Tasks PROVE Owner[t] \in Requests
  BY ServerAssumption
<1>3. ASSUME NEW t \in Tasks PROVE InSlot(t)' <=> InSlot(t)
  BY <1>1 DEF InSlot
<1>4. /\ queue \in Seq(Entries) /\ deferred \in Seq(Tasks) /\ rpc \in [Requests ->
           {"new", "registered", "waiting", "stopping", "unregistered", "cancelling", "closed"}]
      /\ TasksOf(r) \in SUBSET Tasks
      /\ DistinctRuns(queue) /\ Distinct(deferred)
  BY DEF HomeInv, OnePlace, TypeInv, TypeOK, TasksOf
\* The queues lose tasks at most.
<1>5. ASSUME DistinctRuns(queue'), Distinct(deferred'),
             \A t \in Tasks : Within(queue', Run(t)) => InQueue(t),
             \A t \in Tasks : Within(deferred', t) => InDeferred(t)
      PROVE  HomeInv'
  <2>1. \A t \in Tasks : /\ InQueue(t)' => InQueue(t)
                         /\ InDeferred(t)' => InDeferred(t)
    BY <1>5 DEF InQueue, InDeferred
  <2>2. \A t \in Tasks : Pending(t)' => Pending(t)
    BY <1>1, <2>1 DEF Pending
  <2>3. OnePlace'
    BY <1>1, <1>3, <1>5, <2>1 DEF HomeInv, OnePlace
  <2>4. ChildrenWait'
    BY <1>1, <1>3, <2>2, NotOwnChild DEF HomeInv, ChildrenWait
  <2>5. FreshNowhere'
    BY <1>1, <1>2, <1>3, <2>2 DEF HomeInv, FreshNowhere
  <2> QED
    BY <2>3, <2>4, <2>5 DEF HomeInv
<1>6. CASE PostTasks(r)
  <2> DEFINE S == {t \in TasksOf(r) : ~IsChild(t)}
  <2>1. PICK o \in Orders(S) :
          LET entries == [i \in DOMAIN o |-> Run(o[i])]
          IN  queue' = IF \A t \in TasksOf(r) : Kind[t] = "ctrl"
                       THEN entries \o queue ELSE queue \o entries
    BY <1>6 DEF PostTasks
  <2> DEFINE entries == [i \in DOMAIN o |-> Run(o[i])]
  <2>2. S \in SUBSET Tasks
    BY <1>4
  <2>3. /\ entries \in Seq(Entries) /\ DistinctRuns(entries)
        /\ \A x : Within(entries, x) => \E t \in S : x = Run(t)
    BY <2>2, OrderedRuns
  <2>4. queue' = entries \o queue \/ queue' = queue \o entries
    BY <2>1
  <2>5. \A t \in S : /\ t \in Tasks /\ Owner[t] = r /\ ~IsChild(t) /\ ~InQueue(t) /\ ~InDeferred(t)
                     /\ hand # Run(t) /\ ~InSlot(t)
                     /\ \A c \in Children(t) : ~InSlot(c)
    <3>1. \A t \in TasksOf(r) : t \in Tasks /\ Owner[t] = r /\ Unposted(Owner[t])
      BY <1>6 DEF TasksOf, PostTasks, ReaderAt, Unposted
    <3>2. \A t \in TasksOf(r) : ~Pending(t) /\ hand # Run(t) /\ ~InSlot(t)
      BY <3>1 DEF HomeInv, FreshNowhere
    <3>3. \A t \in TasksOf(r) : \A c \in Children(t) : c \in TasksOf(r)
      BY ServerAssumption DEF Children, TasksOf
    <3> QED
      BY <3>1, <3>2, <3>3 DEF Pending
  <2> HIDE DEF S, entries
  <2>6. /\ DistinctRuns(queue')
        /\ \A x : Within(queue', x) <=> Within(queue, x) \/ Within(entries, x)
    <3>1. \A x : Within(queue, x) /\ Within(entries, x) => x.type # "run"
      BY <2>3, <2>5 DEF InQueue
    <3>2. CASE queue' = entries \o queue
      BY <1>4, <2>3, <3>1, <3>2, Joined
    <3>3. CASE queue' = queue \o entries
      BY <1>4, <2>3, <3>1, <3>3, Joined
    <3> QED
      BY <2>4, <3>2, <3>3
  <2>7. \A t \in Tasks : /\ InQueue(t)' => InQueue(t) \/ t \in S
                         /\ InDeferred(t)' <=> InDeferred(t)
    <3>1. \A t \in Tasks : Within(entries, Run(t)) => t \in S
      BY <2>2, <2>3, TaskEntries
    <3> QED
      BY <1>6, <2>6, <3>1 DEF PostTasks, InQueue, InDeferred
  <2>8. \A t \in Tasks : Pending(t)' => Pending(t) \/ t \in S
    BY <1>1, <2>7 DEF Pending
  <2>9. OnePlace'
    <3>1. Distinct(deferred')
      BY <1>4, <1>6 DEF PostTasks
    <3> QED
      BY <1>1, <1>3, <2>5, <2>6, <2>7, <3>1 DEF HomeInv, OnePlace
  <2>10. ChildrenWait'
    BY <1>1, <1>3, <2>5, <2>8, NotOwnChild DEF HomeInv, ChildrenWait
  <2>11. FreshNowhere'
    <3>1. ~Unposted(r)'
      BY <1>4, <1>6 DEF PostTasks, ReaderAt, Unposted
    <3> QED
      BY <1>1, <1>2, <1>3, <2>5, <2>8, <3>1 DEF HomeInv, FreshNowhere
  <2> QED
    BY <2>9, <2>10, <2>11 DEF HomeInv
<1>7. CASE PostCancels(r)
  <2>1. PICK o \in Orders(TasksOf(r)) :
          queue' = [i \in DOMAIN o |-> Cancel(o[i])] \o DropTask(queue, TasksOf(r))
    BY <1>7 DEF PostCancels
  <2> DEFINE entries == [i \in DOMAIN o |-> Cancel(o[i])]
             rest == DropTask(queue, TasksOf(r))
  <2>2. /\ entries \in Seq(Entries) /\ DistinctRuns(entries)
        /\ \A x : Within(entries, x) => \E t \in TasksOf(r) : x = Cancel(t)
    BY <1>4, OrderedCancels
  <2>3. /\ rest \in Seq(Entries) /\ DistinctRuns(rest)
        /\ \A x : Within(rest, x) => Within(queue, x)
    BY <1>4, Fewer DEF DropTask
  <2> HIDE DEF entries, rest
  <2>4. \A x : Within(entries, x) => x.type = "cancel"
    BY <1>4, <2>2, TaskEntries
  <2>5. /\ DistinctRuns(queue')
        /\ \A x : Within(queue', x) <=> Within(entries, x) \/ Within(rest, x)
    BY <2>1, <2>2, <2>3, <2>4, Joined DEF entries, rest
  <2>6. \A t \in Tasks : Within(queue', Run(t)) => InQueue(t)
    BY <2>3, <2>4, <2>5, TaskEntries DEF InQueue
  <2>7. Distinct(deferred') /\ \A t \in Tasks : Within(deferred', t) => InDeferred(t)
    BY <1>4, <1>7, Fewer DEF PostCancels, InDeferred
  <2> QED
    BY <1>5, <2>5, <2>6, <2>7
<1>8. CASE UNCHANGED <<queue, deferred>>
  BY <1>4, <1>5, <1>8 DEF InQueue, InDeferred
<1> QED
  BY <1>6, <1>7, <1>8
  DEF Reader, Register, Receive, Finish, Disconnect, Unregister, DropResults

LEMMA HomeStart == Init => HomeInv
<1> SUFFICES ASSUME Init PROVE HomeInv
  OBVIOUS
<1>1. TypeInv
  BY TypeStart
<1>2. \A t \in Tasks : ~InQueue(t) /\ ~InDeferred(t) /\ hand # Run(t) /\ ~InSlot(t)
  BY TaskEntries, SlotRecords, ServerAssumption DEF Init, InQueue, InDeferred, InSlot, Within
<1>3. \A t \in Tasks : ~Pending(t)
  BY <1>2 DEF Pending
<1>4. OnePlace
  <2>1. DistinctRuns(queue) /\ Distinct(deferred)
    BY DEF Init, DistinctRuns, Distinct
  <2> QED
    BY <1>2, <2>1, SlotRecords DEF Init, OnePlace
<1>5. ChildrenWait /\ FreshNowhere
  BY <1>2, <1>3 DEF ChildrenWait, FreshNowhere
<1> QED
  BY <1>1, <1>4, <1>5 DEF HomeInv

LEMMA HomeStep ==
  ASSUME HomeInv, [Next]_vars, TypeInv'
  PROVE  HomeInv'
<1>1. CASE TakeTask
  BY <1>1, HomeTake
<1>2. CASE Defer
  BY <1>2, HomeDefer
<1>3. CASE Launch
  BY <1>3, HomeLaunch
<1>4. CASE LaunchFails
  BY <1>4, HomeLaunchFails
<1>5. CASE OtherStep
  BY <1>5, Dropping, HomeKept DEF HomeInv
<1>6. CASE \E r \in Requests : Reader(r) \/ Disconnect(r)
  BY <1>6, HomeReader
<1>7. CASE UNCHANGED vars
  BY <1>7 DEF vars, mainVars, readerVars, HomeInv, OnePlace, ChildrenWait, FreshNowhere,
              InQueue, InDeferred, InSlot, Pending, Unposted
<1> QED
  BY <1>1, <1>2, <1>3, <1>4, <1>5, <1>6, <1>7, Steps DEF ProcessSingleTask, OtherStep

\* A task is in one place of the server, only parents are queued, and what has not
\* been posted is nowhere.
THEOREM TasksPlaced == Spec => []HomeInv
<1>1. TypeInv /\ [Next]_vars => TypeInv'
  BY TypeStep
<1>2. HomeInv /\ [Next]_vars => HomeInv'
  BY <1>1, HomeStep DEF HomeInv
<1> QED
  BY HomeStart, <1>2, PTL DEF Spec

LEMMA PlacesAreOne ==
  ASSUME HomeInv, NEW t \in Tasks
  PROVE  Cardinality(Homes(t)) <= 1
<1>1. \A x, y \in Homes(t) : x = y
  <2>1. /\ \A i \in 1..Len(queue) : queue[i] = Run(t) => InQueue(t)
        /\ \A i, j \in 1..Len(queue) : queue[i] = Run(t) /\ queue[j] = Run(t) => i = j
    BY TaskEntries DEF HomeInv, TypeInv, TypeOK, OnePlace, DistinctRuns, InQueue, Within
  <2>2. /\ \A i \in 1..Len(deferred) : deferred[i] = t => InDeferred(t)
        /\ \A i, j \in 1..Len(deferred) : deferred[i] = t /\ deferred[j] = t => i = j
    BY DEF HomeInv, TypeInv, TypeOK, OnePlace, Distinct, InDeferred, Within
  <2>3. /\ \A s \in Slots : slot[s].task = t => InSlot(t)
        /\ \A s, k \in Slots : slot[s].task = t /\ slot[k].task = t => s = k
    BY ServerAssumption DEF HomeInv, OnePlace, InSlot
  <2>4. /\ InQueue(t) => ~InDeferred(t) /\ hand # Run(t) /\ ~InSlot(t)
        /\ InDeferred(t) => hand # Run(t) /\ ~InSlot(t)
        /\ hand = Run(t) => ~InSlot(t)
    BY DEF HomeInv, OnePlace
  <2>5. ASSUME NEW x \in Homes(t)
        PROVE  \/ InQueue(t) /\ \E i \in 1..Len(queue) : queue[i] = Run(t) /\ x = <<"queue", i>>
               \/ InDeferred(t) /\ \E i \in 1..Len(deferred) :
                    deferred[i] = t /\ x = <<"deferred", i>>
               \/ hand = Run(t) /\ x = <<"hand", 0>>
               \/ InSlot(t) /\ \E s \in Slots : slot[s].task = t /\ x = <<"slot", s>>
    BY <2>1, <2>2, <2>3 DEF Homes
  <2> QED
    BY <2>1, <2>2, <2>3, <2>4, <2>5
<1>2. CASE Homes(t) = {}
  BY <1>2, FS_EmptySet
<1>3. CASE Homes(t) # {}
  <2>1. PICK x : Homes(t) = {x}
    BY <1>1, <1>3
  <2>2. Cardinality({x}) = 1
    BY FS_Singleton
  <2> QED
    BY <2>1, <2>2
<1> QED
  BY <1>2, <1>3

\* Deferring, popping, launching, undoing a launch and cancelling never leave a task
\* in two of the queue, the deferred tasks, the hand of the main thread and the slots.
THEOREM OneHomeAlways == Spec => []OneHome
<1>1. HomeInv => OneHome
  BY PlacesAreOne DEF OneHome
<1> QED
  BY TasksPlaced, <1>1, PTL
-----------------------------------------------------------------------------
(* What the readers are sent.                                              *)

\* The reader of a task that has not ended is sent one more result for it.
SentOnce(e, kind) ==
  /\ Send(e, kind)
  /\ ~Ended(e) /\ ~Unposted(Owner[e])
  /\ kind # "partial" =>
       /\ ~Pending(e)' /\ ~InSlot(e)'
       /\ \A p \in Tasks : Pending(p)' => e \notin Children(p)

Sends ==
  \/ results' = results
  \/ \E e \in Tasks, kind \in {"partial", "final", "error"} : SentOnce(e, kind)

LEMMA ResultsTyped ==
  ASSUME TypeInv
  PROVE  /\ results \in Seq(Results) /\ DOMAIN results = 1..Len(results) /\ Len(results) \in Nat
         /\ \A i \in DOMAIN results : results[i].task \in Tasks
         /\ got \in [Requests -> SUBSET Tasks]
         /\ rpc \in [Requests -> {"new", "registered", "waiting", "stopping", "unregistered",
                                  "cancelling", "closed"}]
         /\ \A t \in Tasks : Owner[t] \in Requests
<1>1. /\ results \in Seq(Results) /\ got \in [Requests -> SUBSET Tasks]
      /\ rpc \in [Requests -> {"new", "registered", "waiting", "stopping", "unregistered",
                               "cancelling", "closed"}]
  BY DEF TypeInv, TypeOK, Results
<1>2. \A i \in DOMAIN results : results[i] \in Results
  BY <1>1
<1>3. \A i \in DOMAIN results : results[i].task \in Tasks
  BY <1>2 DEF Results
<1> QED
  BY <1>1, <1>3, ServerAssumption

LEMMA ResultsSent ==
  ASSUME ResultInv, HomeInv', Onward, Sends, UNCHANGED <<waiting, rpc, got>>
  PROVE  ResultInv'
<1>1. TypeInv /\ EndedLast /\ NoResultAfterStop /\ NoResultLeftBehind
  BY DEF ResultInv, HomeInv, NoStrayResult
<1>2. CASE results' = results
  <2>1. \A t \in Tasks : Ended(t)' <=> Ended(t)
    BY <1>2 DEF Ended
  <2>2. \A t \in Tasks : (Pending(t)' \/ InSlot(t)') => ~Ended(t)
    BY <1>1 DEF Onward, EndedLast
  <2>3. EndedLast'
    BY <1>1, <2>1, <2>2, NotOwnChild DEF Onward, EndedLast, Unposted
  <2>4. NoStrayResult'
    BY <1>1, <1>2 DEF NoStrayResult, NoResultAfterStop, NoResultLeftBehind
  <2> QED
    BY <2>3, <2>4 DEF ResultInv
<1>3. ASSUME NEW e \in Tasks, NEW kind \in {"partial", "final", "error"}, SentOnce(e, kind),
             results' # results
      PROVE  ResultInv'
  <2> DEFINE m == [task |-> e, kind |-> kind]
  <2>1. e \in waiting /\ results' = Append(results, m)
    BY <1>3 DEF SentOnce, Send
  <2>2. /\ m \in Results /\ m.task = e /\ m.kind = kind
    BY DEF Results
  <2> HIDE DEF m
  <2>3. PICK n \in Nat : n = Len(results)
    BY <1>1, ResultsTyped
  <2>4. /\ DOMAIN results = 1..n /\ DOMAIN results' = 1..(n + 1)
        /\ results'[n + 1] = m /\ \A i \in 1..n : results'[i] = results[i]
        /\ \A i \in 1..n : results[i].task \in Tasks
        /\ Len(results') = n + 1
    BY <1>1, <2>1, <2>2, <2>3, ResultsTyped
  <2>5. /\ \A i \in 1..n : i \in 1..(n + 1) /\ ~(n + 1 < i) /\ i < n + 1
        /\ n + 1 \in 1..(n + 1)
        /\ \A i \in 1..(n + 1) : i \in 1..n \/ i = n + 1
    OBVIOUS
  <2>6. ~Ended(e) /\ ~Unposted(Owner[e])
    BY <1>3 DEF SentOnce
  <2>7. \A t \in Tasks : Ended(t)' => Ended(t) \/ (t = e /\ kind # "partial")
    BY <2>2, <2>4, <2>5 DEF Ended
  <2>8. \A t \in Tasks : (Pending(t)' \/ InSlot(t)') => ~Ended(t)
    BY <1>1 DEF Onward, EndedLast
  <2>9. EndedLast'
    <3>1. kind # "partial" =>
            /\ ~Pending(e)' /\ ~InSlot(e)'
            /\ \A p \in Tasks : Pending(p)' => e \notin Children(p)
      BY <1>3 DEF SentOnce
    <3> QED
      BY <1>1, <2>6, <2>7, <2>8, <3>1, NotOwnChild DEF Onward, EndedLast, Unposted
  <2>10. NoResultAfterStop'
    <3>1. \A i \in 1..(n + 1) : results'[i].task \notin got'[Owner[results'[i].task]]
      BY <1>1, <2>2, <2>3, <2>4, <2>5, <2>6 DEF NoResultAfterStop, Ended
    <3>2. ASSUME NEW i \in 1..(n + 1), NEW j \in (i + 1)..(n + 1), results'[i].kind # "partial"
          PROVE  results'[j].task # results'[i].task
      <4>1. i \in 1..n /\ (j \in (i + 1)..n \/ j = n + 1)
        OBVIOUS
      <4>2. CASE j \in (i + 1)..n
        <5>1. j \in 1..n
          BY <4>1, <4>2
        <5> QED
          BY <1>1, <2>3, <2>4, <3>2, <4>1, <4>2, <5>1 DEF NoResultAfterStop
      <4>3. CASE j = n + 1
        <5>1. results[i].task # e
          BY <2>4, <2>6, <3>2, <4>1 DEF Ended
        <5> QED
          BY <2>2, <2>4, <4>1, <4>3, <5>1
      <4> QED
        BY <4>1, <4>2, <4>3
    <3> QED
      BY <2>4, <3>1, <3>2 DEF NoResultAfterStop
  <2>11. NoResultLeftBehind'
    BY <1>1, <2>1, <2>2, <2>3, <2>4, <2>5 DEF NoResultLeftBehind
  <2> QED
    BY <2>9, <2>10, <2>11 DEF ResultInv, NoStrayResult
<1> QED
  BY <1>2, <1>3 DEF Sends

\* The result of a slot that is released, or that goes on.
LEMMA SlotSends ==
  ASSUME ResultInv, HomeInv', Onward, NEW s \in Slots, slot[s].state # "idle",
         NEW kind \in {"partial", "final", "error"}, Send(slot[s].task, kind),
         kind = "partial" \/ (mpc # "have" /\ Release(s))
  PROVE  Sends
<1>1. PICK e \in Tasks : e = slot[s].task
  BY SlotTask DEF ResultInv, HomeInv
<1>2. ~Ended(e) /\ ~Unposted(Owner[e]) /\ ~Pending(e)
      /\ \A p \in Tasks : Pending(p) => e \notin Children(p)
  <2>1. InSlot(e)
    BY <1>1 DEF InSlot
  <2> QED
    BY <2>1 DEF ResultInv, HomeInv, EndedLast, FreshNowhere, OnePlace, ChildrenWait, Pending
<1>3. ~Pending(e)' /\ \A p \in Tasks : Pending(p)' => e \notin Children(p)
  BY <1>1, <1>2 DEF Onward
<1>4. Release(s) => ~InSlot(e)'
  <2> SUFFICES ASSUME Release(s) PROVE ~InSlot(e)'
    OBVIOUS
  <2>1. slot'[s] = IdleSlot /\ \A k \in Slots \ {s} : slot'[k] = slot[k]
    BY ReleaseTypes DEF ResultInv, HomeInv
  <2>2. \A k \in Slots \ {s} : slot[k].task # e
    BY <1>1, ServerAssumption DEF ResultInv, HomeInv, OnePlace
  <2> QED
    BY <1>1, <2>1, <2>2, SlotRecords, ServerAssumption DEF InSlot
<1>5. SentOnce(e, kind)
  BY <1>1, <1>2, <1>3, <1>4 DEF SentOnce
<1> QED
  BY <1>5 DEF Sends

LEMMA OtherSends ==
  ASSUME ResultInv, HomeInv', Onward, OtherStep
  PROVE  Sends /\ UNCHANGED <<waiting, rpc, got>>
<1>1. cur \in Slots
  BY DEF ResultInv, HomeInv, TypeInv, TypeOK
<1>2. ASSUME results' = results PROVE Sends
  BY <1>2 DEF Sends
<1>3. CASE Answer
  <2>1. PICK t \in Tasks, kind \in {"final", "error"} : InHand(t) /\ Send(t, kind)
    BY <1>3 DEF Answer
  <2>2. Pending(t) /\ hand = Run(t)
    BY <2>1 DEF Pending, InHand
  <2>3. /\ ~Ended(t) /\ ~Unposted(Owner[t]) /\ ~IsChild(t)
        /\ ~InQueue(t) /\ ~InDeferred(t) /\ ~InSlot(t)
    BY <2>2 DEF ResultInv, HomeInv, EndedLast, FreshNowhere, OnePlace, ChildrenWait
  <2>4. UNCHANGED <<queue, deferred, slot, waiting, rpc, got>> /\ mpc' = "take"
    BY <1>3 DEF Answer, TaskDone, Goto, readerVars
  <2>5. ~Pending(t)' /\ ~InSlot(t)' /\ \A p \in Tasks : t \notin Children(p)
    BY <2>3, <2>4, ServerAssumption DEF Pending, InQueue, InDeferred, InSlot, Children, IsChild
  <2>6. SentOnce(t, kind)
    BY <2>1, <2>3, <2>5 DEF SentOnce
  <2> QED
    BY <2>4, <2>6 DEF Sends
<1>4. CASE AddGenerating
  <2>1. CASE results' = results
    BY <1>2, <1>4, <2>1 DEF AddGenerating, readerVars
  <2>2. CASE slot[cur].state = "generating" /\ Send(slot[cur].task, "error") /\ Release(cur)
    BY <1>1, <1>4, <2>2, SlotSends DEF AddGenerating, readerVars
  <2> QED
    BY <1>4, <2>1, <2>2 DEF AddGenerating
<1>5. CASE RefusePrompt
  BY <1>1, <1>5, SlotSends DEF RefusePrompt, PromptTurn, HasPrompt, readerVars
<1>6. CASE FailSlot
  <2>1. CASE results' = results
    BY <1>2, <1>6, <2>1 DEF FailSlot, readerVars
  <2>2. CASE IsProcessing(cur) /\ Send(slot[cur].task, "error") /\ Release(cur)
    BY <1>1, <1>6, <2>2, SlotSends DEF FailSlot, IsProcessing, readerVars
  <2> QED
    BY <1>6, <2>1, <2>2 DEF FailSlot
<1>7. CASE SampleLast
  BY <1>1, <1>7, SlotSends DEF SampleLast, HasLogits, readerVars
<1>8. CASE SampleToken
  BY <1>1, <1>8, SlotSends DEF SampleToken, HasLogits, readerVars
<1>9. CASE WakeUp \/ LaunchUndo \/ CancelTask \/ IgnoreNext
  BY <1>2, <1>9 DEF WakeUp, LaunchUndo, CancelTask, IgnoreNext, readerVars
<1>10. CASE AllIdle \/ StartUpdate \/ NoPromptsNow \/ AddPrompt \/ SkipPrompt
  BY <1>2, <1>10 DEF AllIdle, StartUpdate, NoPromptsNow, AddPrompt, SkipPrompt, readerVars
<1>11. CASE EmptyBatch \/ Decode \/ DecodeFails \/ SampleNone
  BY <1>2, <1>11 DEF EmptyBatch, Decode, DecodeFails, SampleNone, readerVars
<1> QED
  BY <1>3, <1>4, <1>5, <1>6, <1>7, <1>8, <1>9, <1>10, <1>11 DEF OtherStep, UpdateSlots

LEMMA TaskSends ==
  ASSUME ResultInv, HomeInv', Onward, TakeTask \/ Defer \/ Launch \/ LaunchFails
  PROVE  Sends /\ UNCHANGED <<waiting, rpc, got>>
<1>1. CASE TakeTask \/ Defer \/ Launch
  BY <1>1 DEF Sends, TakeTask, Defer, Launch, readerVars
<1>2. CASE LaunchFails
  <2>1. PICK t \in Tasks, K \in SUBSET Free :
          /\ InHand(t)
          /\ \E f \in [K -> Children(t)] : \E e \in {t} \cup Children(t) :
               /\ Placed(K, f) /\ \A k, l \in K : f[k] = f[l] => k = l
               /\ \A k \in K : f[k] # e
               /\ Send(e, "error")
    BY <1>2, LaunchFailsStep
  <2>2. PICK f \in [K -> Children(t)], e \in {t} \cup Children(t) :
          /\ Placed(K, f) /\ \A k \in K : f[k] # e
          /\ Send(e, "error")
    BY <2>1
  <2>3. Pending(t) /\ hand = Run(t)
    BY <2>1 DEF Pending, InHand
  <2>4. mpc' = "unlaunch" /\ UNCHANGED <<queue, deferred, waiting, rpc, got>>
    BY <1>2 DEF LaunchFails, Scan, readerVars
  <2>5. e \in Tasks /\ Owner[e] = Owner[t] /\ (e # t => IsChild(e) /\ Parent[e] = t)
    BY ServerAssumption DEF Children, IsChild
  <2>6. ~Ended(e) /\ ~Unposted(Owner[e]) /\ ~InSlot(e) /\ ~IsChild(t)
    BY <2>3, <2>5 DEF ResultInv, HomeInv, EndedLast, FreshNowhere, OnePlace, ChildrenWait
  <2>7. ~Pending(t)'
    BY <2>3, <2>4 DEF Pending, InQueue, InDeferred, ResultInv, HomeInv, OnePlace
  <2>8. ~Pending(e)'
    BY <2>5, <2>7 DEF HomeInv, ChildrenWait
  <2>9. ~InSlot(e)'
    BY <2>2, <2>5, <2>6, NotOwnChild, SlotsPlaced DEF ResultInv, HomeInv
  <2>10. \A p \in Tasks : Pending(p)' => e \notin Children(p)
    BY <2>5, <2>6, <2>7, ServerAssumption DEF Children, IsChild
  <2>11. SentOnce(e, "error")
    BY <2>2, <2>6, <2>8, <2>9, <2>10 DEF SentOnce
  <2> QED
    BY <2>4, <2>5, <2>11 DEF Sends
<1> QED
  BY <1>1, <1>2

\* What a reader does makes nothing pending but what it posts, which is fresh.
LEMMA ReaderOnward ==
  ASSUME HomeInv, NEW r \in Requests, Reader(r) \/ Disconnect(r)
  PROVE  /\ \A t \in Tasks : InSlot(t)' <=> InSlot(t)
         /\ \A t \in Tasks : Pending(t)' => Pending(t) \/ (PostTasks(r) /\ Owner[t] = r)
         /\ \A q \in Requests : Unposted(q)' => Unposted(q)
<1>1. UNCHANGED <<hand, slot, mpc>>
  BY DEF Reader, Register, PostTasks, Receive, Finish, Disconnect, Unregister,
         DropResults, PostCancels, mainVars
<1>2. \A t \in Tasks : InSlot(t)' <=> InSlot(t)
  BY <1>1 DEF InSlot
<1>3. \A q \in Requests : Unposted(q)' => Unposted(q)
  <2>1. CASE Receive(r)
    BY <2>1 DEF Receive, Unposted, HomeInv, TypeInv, TypeOK
  <2>2. CASE ~Receive(r)
    BY <2>2 DEF Reader, Register, PostTasks, Finish, Disconnect, Unregister,
                DropResults, PostCancels, ReaderAt, Unposted, HomeInv, TypeInv, TypeOK
  <2> QED
    BY <2>1, <2>2
<1>4. queue \in Seq(Entries) /\ deferred \in Seq(Tasks) /\ TasksOf(r) \in SUBSET Tasks
  BY DEF HomeInv, TypeInv, TypeOK, TasksOf
<1>5. ASSUME NEW t \in Tasks, Pending(t)' PROVE Pending(t) \/ (PostTasks(r) /\ Owner[t] = r)
  <2>1. CASE UNCHANGED <<queue, deferred>>
    BY <1>1, <1>5, <2>1 DEF Pending, InQueue, InDeferred
  <2>2. CASE PostTasks(r)
    <3>1. PICK o \in Orders({u \in TasksOf(r) : ~IsChild(u)}) :
            LET entries == [i \in DOMAIN o |-> Run(o[i])]
            IN  queue' = IF \A u \in TasksOf(r) : Kind[u] = "ctrl"
                         THEN entries \o queue ELSE queue \o entries
      BY <2>2 DEF PostTasks
    <3> DEFINE entries == [i \in DOMAIN o |-> Run(o[i])]
    <3>2. {u \in TasksOf(r) : ~IsChild(u)} \in SUBSET Tasks
      BY <1>4
    <3>3. /\ entries \in Seq(Entries)
          /\ \A x : Within(entries, x) => \E u \in {u \in TasksOf(r) : ~IsChild(u)} : x = Run(u)
      BY <3>2, OrderedRuns
    <3>4. queue' = entries \o queue \/ queue' = queue \o entries
      BY <3>1
    <3> HIDE DEF entries
    <3>5. Within(queue', Run(t)) => Within(entries, Run(t)) \/ Within(queue, Run(t))
      <4>1. CASE queue' = entries \o queue
        BY <1>4, <3>3, <4>1, Joined
      <4>2. CASE queue' = queue \o entries
        BY <1>4, <3>3, <4>2, Joined
      <4> QED
        BY <3>4, <4>1, <4>2
    <3>6. Within(entries, Run(t)) => Owner[t] = r
      BY <1>4, <3>3, TaskEntries DEF TasksOf
    <3> QED
      BY <1>1, <1>5, <2>2, <3>5, <3>6 DEF PostTasks, Pending, InQueue, InDeferred
  <2>3. CASE PostCancels(r)
    <3>1. PICK o \in Orders(TasksOf(r)) :
            queue' = [i \in DOMAIN o |-> Cancel(o[i])] \o DropTask(queue, TasksOf(r))
      BY <2>3 DEF PostCancels
    <3> DEFINE entries == [i \in DOMAIN o |-> Cancel(o[i])]
               rest == DropTask(queue, TasksOf(r))
    <3>2. /\ entries \in Seq(Entries)
          /\ \A x : Within(entries, x) => \E u \in TasksOf(r) : x = Cancel(u)
      BY <1>4, OrderedCancels
    <3>3. /\ rest \in Seq(Entries)
          /\ \A x : Within(rest, x) => Within(queue, x)
      BY <1>4, Fewer DEF DropTask
    <3> HIDE DEF entries, rest
    <3>4. \A x : Within(queue', x) <=> Within(entries, x) \/ Within(rest, x)
      BY <3>1, <3>2, <3>3, Joined DEF entries, rest
    <3>5. Within(queue', Run(t)) => InQueue(t)
      BY <1>4, <3>2, <3>3, <3>4, TaskEntries DEF InQueue
    <3>6. Within(deferred', t) => InDeferred(t)
      BY <1>4, <2>3, Fewer DEF PostCancels, InDeferred
    <3> QED
      BY <1>1, <1>5, <3>5, <3>6 DEF Pending, InQueue, InDeferred
  <2> QED
    BY <2>1, <2>2, <2>3
    DEF Reader, Register, Receive, Finish, Disconnect, Unregister, DropResults
<1> QED
  BY <1>2, <1>3, <1>5

LEMMA ReaderResults ==
  ASSUME ResultInv, HomeInv', NEW r \in Requests, Reader(r) \/ Disconnect(r)
  PROVE  ResultInv'
<1>1. HomeInv /\ TypeInv /\ EndedLast /\ NoResultAfterStop /\ NoResultLeftBehind
  BY DEF ResultInv, HomeInv, NoStrayResult
<1>2. /\ \A t \in Tasks : InSlot(t)' <=> InSlot(t)
      /\ \A t \in Tasks : Pending(t)' => Pending(t) \/ (PostTasks(r) /\ Owner[t] = r)
      /\ \A q \in Requests : Unposted(q)' => Unposted(q)
  BY <1>1, ReaderOnward
<1>3. /\ TasksOf(r) \in SUBSET Tasks /\ \A t \in Tasks : t \in TasksOf(r) <=> Owner[t] = r
      /\ \A p \in Tasks : \A c \in Children(p) : c \in Tasks /\ Owner[c] = Owner[p]
  BY ServerAssumption DEF TasksOf, Children
<1>4. /\ results \in Seq(Results) /\ DOMAIN results = 1..Len(results)
      /\ \A i \in DOMAIN results : results[i].task \in Tasks
      /\ got \in [Requests -> SUBSET Tasks] /\ \A t \in Tasks : Owner[t] \in Requests
      /\ rpc \in [Requests -> {"new", "registered", "waiting", "stopping", "unregistered",
                               "cancelling", "closed"}]
  BY <1>1, ResultsTyped
<1>5. results \in Seq(Results) /\ Len(results) \in Nat
  BY <1>4
\* Nothing more has ended, and what is posted had not.
<1>6. ASSUME \A t \in Tasks : Ended(t)' => Ended(t) PROVE EndedLast'
  <2>1. ASSUME NEW t \in Tasks, Pending(t)'
        PROVE  ~Ended(t) /\ \A c \in Children(t) : ~Ended(c)
    <3>1. CASE Pending(t)
      BY <1>1, <3>1 DEF EndedLast
    <3>2. CASE PostTasks(r) /\ Owner[t] = r
      <4>1. Unposted(r)
        BY <3>2 DEF PostTasks, ReaderAt, Unposted
      <4> QED
        BY <1>1, <1>3, <3>2, <4>1 DEF EndedLast
    <3> QED
      BY <1>2, <2>1, <3>1, <3>2
  <2>2. \A t \in Tasks : /\ InSlot(t)' => ~Ended(t)
                         /\ Unposted(Owner[t])' => ~Ended(t)
    BY <1>1, <1>2, <1>4 DEF EndedLast, Unposted
  <2> QED
    BY <1>3, <1>6, <2>1, <2>2 DEF EndedLast, Unposted
<1>7. ASSUME UNCHANGED <<results, got>> PROVE EndedLast' /\ NoResultAfterStop'
  BY <1>1, <1>6, <1>7 DEF Ended, NoResultAfterStop
<1>8. CASE Register(r)
  <2>1. NoResultLeftBehind'
    BY <1>1, <1>4, <1>8 DEF Register, ReaderAt, NoResultLeftBehind
  <2> QED
    BY <1>7, <1>8, <2>1 DEF Register, ResultInv, NoStrayResult
<1>9. CASE PostTasks(r)
  <2>1. NoResultLeftBehind'
    BY <1>1, <1>4, <1>9 DEF PostTasks, ReaderAt, NoResultLeftBehind
  <2> QED
    BY <1>7, <1>9, <2>1 DEF PostTasks, ResultInv, NoStrayResult
<1>10. CASE Receive(r)
  <2>1. PICK i \in 1..Len(results) :
          /\ results[i].task \in TasksOf(r)
          /\ \A j \in 1..(i - 1) : results[j].task \notin TasksOf(r)
          /\ results' = RemoveAt(results, i)
          /\ rpc' = IF results[i].kind = "error"
                    THEN [rpc EXCEPT ![r] = "stopping"] ELSE rpc
          /\ got' = IF results[i].kind = "final"
                    THEN [got EXCEPT ![r] = @ \cup {results[i].task}] ELSE got
    BY <1>10 DEF Receive
  <2>2. PICK n \in Nat : n = Len(results)
    BY <1>5
  <2>3. i \in 1..n /\ n \in Nat \ {0}
    BY <2>1, <2>2
  <2> DEFINE old(j) == IF j < i THEN j ELSE j + 1
  <2>4. /\ Len(results') = n - 1
        /\ \A j \in 1..(n - 1) : results'[j] = results[old(j)]
        /\ DOMAIN results' = 1..(n - 1)
    <3>1. i \in 1..Len(results) /\ results' = RemoveAt(results, i)
      BY <2>1
    <3>2. /\ RemoveAt(results, i) \in Seq(Results)
          /\ Len(RemoveAt(results, i)) = Len(results) - 1
          /\ \A j \in 1..(Len(results) - 1) :
               RemoveAt(results, i)[j] = IF j < i THEN results[j] ELSE results[j + 1]
      BY <1>5, <3>1, RemovedOne
    <3> QED
      BY <2>2, <2>3, <3>1, <3>2
  <2>5. /\ \A j \in 1..(n - 1) : old(j) \in 1..n /\ old(j) # i
        /\ \A j, k \in 1..(n - 1) : j < k => old(j) < old(k)
    BY <2>3
  <2> HIDE DEF old
  <2>6. /\ \A q \in Requests : q # r => got'[q] = got[q]
        /\ got'[r] = IF results[i].kind = "final" THEN got[r] \cup {results[i].task} ELSE got[r]
    BY <1>4, <2>1
  <2>7. /\ results[i].task \in Tasks /\ Owner[results[i].task] = r
        /\ \A j \in 1..n : results[j].task \in Tasks
    BY <1>3, <1>4, <2>1, <2>2
  <2>8. \A t \in Tasks : Ended(t)' => Ended(t)
    <3> SUFFICES ASSUME NEW t \in Tasks, Ended(t)' PROVE Ended(t)
      OBVIOUS
    <3>1. CASE t \in got'[Owner[t]]
      BY <1>4, <2>1, <2>2, <2>6, <3>1 DEF Ended
    <3>2. CASE \E j \in 1..(n - 1) : results'[j].task = t /\ results'[j].kind # "partial"
      BY <1>4, <2>2, <2>4, <2>5, <3>2 DEF Ended
    <3> QED
      BY <2>4, <3>1, <3>2 DEF Ended
  <2>9. \A j, k \in 1..n : results[j].kind # "partial" /\ j < k => results[k].task # results[j].task
    <3>1. \A j, k \in 1..n : j < k => k \in (j + 1)..n
      OBVIOUS
    <3> QED
      BY <1>1, <2>2, <3>1 DEF NoResultAfterStop
  <2>10. NoResultAfterStop'
    <3>1. ASSUME NEW j \in 1..(n - 1)
          PROVE  results'[j].task \notin got'[Owner[results'[j].task]]
      <4>1. results[old(j)].task \notin got[Owner[results[old(j)].task]]
        BY <1>1, <2>2, <2>5 DEF NoResultAfterStop
      <4>2. results[i].kind = "final" => results[old(j)].task # results[i].task
        <5>1. CASE old(j) < i
          <6>1. old(j) \in 1..(i - 1)
            BY <2>3, <2>5, <5>1
          <6> QED
            BY <2>1, <6>1
        <5>2. CASE i < old(j)
          BY <2>3, <2>5, <2>9, <5>2
        <5> QED
          BY <2>3, <2>5, <5>1, <5>2
      <4> QED
        BY <1>4, <2>4, <2>5, <2>6, <2>7, <4>1, <4>2
    <3>2. ASSUME NEW j \in 1..(n - 1), NEW k \in (j + 1)..(n - 1), results'[j].kind # "partial"
          PROVE  results'[k].task # results'[j].task
      <4>1. k \in 1..(n - 1) /\ j < k
        BY <2>2
      <4>2. old(j) \in 1..n /\ old(k) \in 1..n /\ old(j) < old(k)
        BY <2>5, <4>1
      <4>3. results'[j] = results[old(j)] /\ results'[k] = results[old(k)]
        BY <2>4, <4>1
      <4> QED
        BY <2>9, <3>2, <4>2, <4>3
    <3> QED
      BY <2>4, <3>1, <3>2 DEF NoResultAfterStop
  <2>11. NoResultLeftBehind'
    <3>1. rpc[r] = "waiting" /\ waiting' = waiting
      BY <1>10 DEF Receive
    <3>2. \A q \in Requests : rpc[q] = "unregistered" => rpc'[q] = "unregistered"
      BY <1>4, <2>1, <3>1
    <3> QED
      BY <1>1, <1>4, <2>2, <2>4, <2>5, <2>7, <3>1, <3>2 DEF NoResultLeftBehind
  <2> QED
    BY <1>6, <2>8, <2>10, <2>11 DEF ResultInv, NoStrayResult
<1>11. CASE Finish(r)
  <2>1. \A i \in 1..Len(results) : results[i].task \notin TasksOf(r)
    BY <1>1, <1>3, <1>4, <1>11 DEF NoResultAfterStop, Finish
  <2>2. NoResultLeftBehind'
    BY <1>1, <1>3, <1>4, <1>11, <2>1 DEF Finish, ReaderAt, NoResultLeftBehind
  <2> QED
    BY <1>7, <1>11, <2>2 DEF Finish, ResultInv, NoStrayResult
<1>12. CASE Disconnect(r)
  <2>1. NoResultLeftBehind'
    BY <1>1, <1>4, <1>12 DEF Disconnect, ReaderAt, NoResultLeftBehind
  <2> QED
    BY <1>7, <1>12, <2>1 DEF Disconnect, ResultInv, NoStrayResult
<1>13. CASE Unregister(r)
  <2>1. NoResultLeftBehind'
    BY <1>1, <1>3, <1>4, <1>13 DEF Unregister, ReaderAt, NoResultLeftBehind
  <2> QED
    BY <1>7, <1>13, <2>1 DEF Unregister, ResultInv, NoStrayResult
<1>14. CASE DropResults(r)
  <2>1. PICK gone : /\ results' = Without(results, gone)
                   /\ \A i \in DOMAIN results \ gone : results[i].task \notin TasksOf(r)
    BY <1>14 DEF DropResults
  <2>2. /\ Without(results, gone) \in Seq(Results)
        /\ \A n \in DOMAIN Without(results, gone) :
             \E i \in DOMAIN results \ gone : Without(results, gone)[n] = results[i]
        /\ \A m, n \in DOMAIN Without(results, gone) : m < n =>
             \E i, j \in DOMAIN results \ gone :
               /\ i < j
               /\ Without(results, gone)[m] = results[i] /\ Without(results, gone)[n] = results[j]
    BY <1>5, WithoutKeeps
  <2>3. UNCHANGED <<waiting, got>> /\ rpc' = [rpc EXCEPT ![r] = "cancelling"]
    BY <1>14 DEF DropResults, ReaderAt
  <2>4. /\ results' \in Seq(Results)
        /\ \A n \in DOMAIN results' : \E i \in DOMAIN results \ gone : results'[n] = results[i]
        /\ \A m, n \in DOMAIN results' : m < n =>
             \E i, j \in DOMAIN results \ gone :
               i < j /\ results'[m] = results[i] /\ results'[n] = results[j]
    BY <2>1, <2>2
  <2>5. \A n \in DOMAIN results' : \E i \in DOMAIN results :
          results'[n] = results[i] /\ results[i].task \notin TasksOf(r)
    BY <2>1, <2>4
  <2>6. \A m, n \in DOMAIN results' : m < n => \E i, j \in DOMAIN results :
          i < j /\ results'[m] = results[i] /\ results'[n] = results[j]
    BY <2>4
  <2>7. DOMAIN results' = 1..Len(results') /\ Len(results') \in Nat
    BY <2>4
  <2>8. \A t \in Tasks : Ended(t)' => Ended(t)
    BY <1>4, <2>3, <2>5 DEF Ended
  <2>9. NoResultAfterStop'
    <3>1. \A n \in 1..Len(results') : results'[n].task \notin got'[Owner[results'[n].task]]
      BY <1>1, <1>4, <2>3, <2>5, <2>7 DEF NoResultAfterStop
    <3>2. ASSUME NEW m \in 1..Len(results'), NEW n \in (m + 1)..Len(results'),
                 results'[m].kind # "partial"
          PROVE  results'[n].task # results'[m].task
      <4>1. n \in 1..Len(results') /\ m < n
        BY <2>7
      <4>2. PICK i, j \in 1..Len(results) :
              i < j /\ results'[m] = results[i] /\ results'[n] = results[j]
        BY <1>4, <2>6, <2>7, <4>1
      <4>3. j \in (i + 1)..Len(results)
        BY <1>4, <4>2
      <4> QED
        BY <1>1, <3>2, <4>2, <4>3 DEF NoResultAfterStop
    <3> QED
      BY <3>1, <3>2 DEF NoResultAfterStop
  <2>10. NoResultLeftBehind'
    <3>1. \A i \in DOMAIN results : results[i].task \notin TasksOf(r) =>
            \/ results[i].task \in waiting'
            \/ rpc'[Owner[results[i].task]] = "unregistered"
      BY <1>1, <1>3, <1>4, <2>3 DEF NoResultLeftBehind
    <3> QED
      BY <2>5, <2>7, <3>1 DEF NoResultLeftBehind
  <2> QED
    BY <1>6, <2>8, <2>9, <2>10 DEF ResultInv, NoStrayResult
<1>15. CASE PostCancels(r)
  <2>1. NoResultLeftBehind'
    BY <1>1, <1>4, <1>15 DEF PostCancels, ReaderAt, NoResultLeftBehind
  <2> QED
    BY <1>7, <1>15, <2>1 DEF PostCancels, ResultInv, NoStrayResult
<1> QED
  BY <1>8, <1>9, <1>10, <1>11, <1>12, <1>13, <1>14, <1>15 DEF Reader

LEMMA ResultStart == Init => ResultInv
<1> SUFFICES ASSUME Init PROVE ResultInv
  OBVIOUS
<1>1. \A t \in Tasks : ~Ended(t)
  BY ServerAssumption DEF Init, Ended
<1>2. EndedLast
  BY <1>1, NotOwnChild DEF EndedLast
<1>3. NoStrayResult
  BY DEF Init, NoStrayResult, NoResultAfterStop, NoResultLeftBehind
<1> QED
  BY <1>2, <1>3, HomeStart DEF ResultInv

LEMMA ResultStep == ResultInv /\ [Next]_vars => ResultInv'
<1> SUFFICES ASSUME ResultInv, [Next]_vars PROVE ResultInv'
  OBVIOUS
<1>1. HomeInv /\ HomeInv'
  BY TypeStep, HomeStep DEF ResultInv, HomeInv
<1>2. CASE OtherStep
  <2>1. Onward
    BY <1>1, <1>2, Dropping, HomeKept DEF HomeInv
  <2> QED
    BY <1>1, <1>2, <2>1, OtherSends, ResultsSent
<1>3. CASE TakeTask \/ Defer \/ Launch \/ LaunchFails
  <2>1. Onward
    BY <1>1, <1>3, HomeTake, HomeDefer, HomeLaunch, HomeLaunchFails DEF HomeInv
  <2> QED
    BY <1>1, <1>3, <2>1, TaskSends, ResultsSent
<1>4. CASE \E r \in Requests : Reader(r) \/ Disconnect(r)
  BY <1>1, <1>4, ReaderResults
<1>5. CASE UNCHANGED vars
  BY <1>1, <1>5 DEF vars, mainVars, readerVars, ResultInv, EndedLast, NoStrayResult,
     NoResultAfterStop, NoResultLeftBehind, Ended, Pending, InQueue, InDeferred, InSlot, Unposted
<1> QED
  BY <1>2, <1>3, <1>4, <1>5, Steps DEF ProcessSingleTask, OtherStep

\* A reader is sent nothing for a task after its one final result or error, and
\* nothing stays in queue_results for a reader that is gone.
THEOREM ResultsTaken == Spec => []NoStrayResult
<1>1. ResultInv => NoStrayResult
  BY DEF ResultInv
<1> QED
  BY ResultStart, ResultStep, <1>1, PTL DEF Spec
=============================================================================
