----------------------------- MODULE PartsProofs -----------------------------
(***************************************************************************)
(* Proofs about the parts that run on their own in MCParts, but for the    *)
(* thread pool: the log, the sleep of the main loop, the router's pipe,    *)
(* the reasoning budget and the reload of models; and about the            *)
(* composition of all parts.                                               *)
(***************************************************************************)
EXTENDS MCParts, ThreadpoolProofs, SequenceTheorems, TLAPS

-----------------------------------------------------------------------------
(***************************************************************************)
(* The log loses, repeats and reorders nothing, whatever its capacity.     *)
(*                                                                         *)
(* The invariant says where each message is: printed, in the hands of the  *)
(* worker, or in the ring, in which the entry k places behind head holds   *)
(* the message k places behind the one in hand.  An end marker is only     *)
(* ever the last entry.  A pause that fills the ring makes it look empty   *)
(* (Jammed): from there on nothing moves, and nothing is claimed about     *)
(* what was in it.                                                         *)
(***************************************************************************)

Printing == IF worker = "print" THEN 1 ELSE 0

Occupied(i) == Offset(i) < Pending

Jammed == control = "join" /\ head = tail /\ worker \in {"wait", "print"}

\* The controlling thread and the worker take turns.
Turns ==
  /\ running <=> control = "out"
  /\ control = "out" => worker \in {"wait", "print"}
  /\ control = "join" => worker \in {"wait", "print", "ended"}
  /\ control \in {"paused", "resume"} => worker = "none"
  /\ worker \in {"ended", "none"} => head = tail

\* The worker has the message that follows the last one printed, and the entry
\* k places behind head has the message k + 1 places behind that.
Contents ==
  /\ worker = "print" => cur.msg = printed + 1
  /\ \A i \in 0..size - 1 : Occupied(i) =>
       IF control = "join" /\ Offset(i) = Pending - 1
       THEN entries[i].is_end
       ELSE /\ ~entries[i].is_end
            /\ entries[i].msg = printed + Printing + Offset(i) + 1

\* Every accepted message is printed, in hand or in the ring.
AllThere ==
  Jammed \/ nAdded = printed + Printing + Pending
                     - (IF control = "join" /\ worker # "ended" THEN 1 ELSE 0)

RingInv == TypeOK /\ Turns /\ Contents /\ AllThere

-----------------------------------------------------------------------------
(* The ring's arithmetic: where an index lies, and what Inc does to it. *)

\* Every index lies some distance in 0..size - 1 behind head.
LEMMA OffsetRange ==
  ASSUME TypeOK, NEW i \in 0..size - 1
  PROVE  Inc(i) \in 0..size - 1 /\ Offset(i) \in 0..size - 1
  BY DEF TypeOK, Inc, Offset

\* The first state has an empty ring and nothing in hand.
LEMMA InitRing == Init => RingInv
  BY CapacityAssumption
  DEF Init, RingInv, TypeOK, Turns, Contents, AllThere, Jammed, Printing, Occupied,
      Offset, Pending, Entry, Blank

\* An entry written at tail is the one Pending places behind head, and advancing
\* tail changes the place of no entry and counts one more, unless it fills the ring.
LEMMA TailAdvances ==
  ASSUME TypeOK, head' = head, size' = size, tail' = Inc(tail), Inc(tail) # head
  PROVE  /\ Pending' = Pending + 1
         /\ \A i \in 0..size - 1 : Offset(i)' = Offset(i)
         /\ \A i \in 0..size - 1 : Occupied(i)' <=> Occupied(i) \/ i = tail
<1>1. head \in 0..size - 1 /\ tail \in 0..size - 1 /\ size \in Nat
  BY DEF TypeOK
<1>2. Pending' = Pending + 1
  BY <1>1 DEF Offset, Pending, Inc
<1>3. \A i \in 0..size - 1 : Offset(i)' = Offset(i)
  BY DEF Offset
<1>4. ASSUME NEW i \in 0..size - 1
      PROVE  Occupied(i)' <=> Occupied(i) \/ i = tail
  BY <1>1, <1>2 DEF Occupied, Offset, Pending
<1> QED BY <1>2, <1>3, <1>4

\* A ring with all but one entry pending is the one whose next tail is its head.
LEMMA AlmostFull ==
  ASSUME TypeOK, Inc(tail) = head
  PROVE  /\ Pending = size - 1
         /\ \A i \in 0..size - 1 : Occupied(i) \/ i = tail
<1>1. head \in 0..size - 1 /\ tail \in 0..size - 1 /\ size \in Nat
  BY DEF TypeOK
<1> QED BY <1>1 DEF Occupied, Offset, Pending, Inc

\* While the log is running its entries are messages, and none is missing.
LEMMA RunningRing ==
  ASSUME RingInv, running
  PROVE  /\ control = "out" /\ worker \in {"wait", "print"}
         /\ nAdded = printed + Printing + Pending
         /\ \A i \in 0..size - 1 : Occupied(i) =>
              ~entries[i].is_end /\ entries[i].msg = printed + Printing + Offset(i) + 1
<1>1. control = "out" /\ worker \in {"wait", "print"}
  BY DEF RingInv, Turns
<1>2. /\ Pending \in Nat /\ printed \in Nat /\ Printing \in Nat
  BY DEF RingInv, TypeOK, Pending, Offset, Printing
<1> QED BY <1>1, <1>2 DEF RingInv, AllThere, Contents, Jammed

\* The entry k of the longer ring is the one k places behind the head, the new
\* message last.
LEMMA UnrolledEntry ==
  ASSUME RingInv, running, Inc(tail) = head, NEW k \in 0..size - 1
  PROVE  ~Unrolled[k].is_end /\ Unrolled[k].msg = printed + Printing + k + 1
<1> DEFINE i == IF head + k < size THEN head + k ELSE head + k - size
<1>1. /\ head \in 0..size - 1 /\ tail \in 0..size - 1 /\ size \in Nat
      /\ entries \in [0..size - 1 -> Entry] /\ printed \in Nat /\ nAdded \in Nat
      /\ Printing \in Nat
  BY DEF RingInv, TypeOK, Printing
<1>2. i \in 0..size - 1 /\ Offset(i) = k
  BY <1>1 DEF Offset
<1>3. k \in 0..2 * size - 1 /\ ~(k >= size)
  BY <1>1
<1>4. Unrolled[k] = Written[i]
  BY <1>3 DEF Unrolled
<1>5. CASE i = tail
  <2>1. Written[i] = [msg |-> nAdded + 1, is_end |-> FALSE]
    BY <1>1, <1>5 DEF Written
  <2>2. nAdded = printed + Printing + k
    BY <1>2, <1>5, RunningRing DEF Pending
  <2> QED BY <1>4, <2>1, <2>2
<1>6. CASE i # tail
  <2>1. Written[i] = entries[i]
    BY <1>1, <1>2, <1>6 DEF Written
  <2>2. Occupied(i)
    BY <1>2, <1>6, AlmostFull DEF RingInv
  <2> QED BY <1>2, <1>4, <2>1, <2>2, RunningRing
<1> QED BY <1>5, <1>6

LEMMA AddKeeps == RingInv /\ Add => RingInv'
<1> SUFFICES ASSUME RingInv, Add PROVE RingInv' OBVIOUS
<1>a. /\ head \in 0..size - 1 /\ tail \in 0..size - 1 /\ size \in Nat
      /\ entries \in [0..size - 1 -> Entry] /\ printed \in Nat /\ nAdded \in Nat
      /\ TypeOK
  BY DEF RingInv, TypeOK
<1>b. /\ running /\ nAdded' = nAdded + 1
      /\ UNCHANGED <<running, worker, cur, control, sink, printed>>
  BY DEF Add
<1>c. Printing \in Nat /\ Printing' = Printing /\ Pending \in Nat
  BY <1>a, <1>b DEF Printing, Pending, Offset
<1>d. control = "out" /\ ~Jammed' /\ worker \in {"wait", "print"}
  BY <1>b, RunningRing DEF Jammed
<1>1. Turns'
  BY <1>b, <1>d DEF RingInv, Turns
<1>2. CASE Inc(tail) = head
  <2>1. /\ entries' = Unrolled /\ head' = 0 /\ tail' = size /\ size' = 2 * size
    BY <1>2 DEF Add
  <2>2. Unrolled \in [0..2 * size - 1 -> Entry]
    <3>1. Written \in [0..size - 1 -> Entry]
      BY <1>a DEF Written, Entry
    <3>2. Blank \in Entry
      BY DEF Blank, Entry
    <3>3. ASSUME NEW k \in 0..2 * size - 1, ~(k >= size)
          PROVE  (IF head + k < size THEN head + k ELSE head + k - size) \in 0..size - 1
      BY <1>a, <3>3
    <3> QED BY <3>1, <3>2, <3>3 DEF Unrolled
  <2>3. TypeOK'
    BY <1>a, <1>b, <2>1, <2>2 DEF TypeOK
  <2>4. Pending' = size /\ \A i \in 0..2 * size - 1 : Offset(i)' = i
    BY <1>a, <2>1 DEF Pending, Offset
  <2>5. Contents'
    <3>1. ASSUME NEW i \in 0..2 * size - 1, Occupied(i)'
          PROVE  ~Unrolled[i].is_end /\ Unrolled[i].msg = printed + Printing + i + 1
      BY <1>a, <1>b, <1>2, <2>4, <3>1, UnrolledEntry DEF Occupied
    <3>2. ASSUME NEW i \in 0..size' - 1, Occupied(i)'
          PROVE  (IF control = "join" /\ Offset(i) = Pending - 1
                  THEN entries[i].is_end
                  ELSE /\ ~entries[i].is_end
                       /\ entries[i].msg = printed + Printing + Offset(i) + 1)'
      BY <1>b, <1>c, <1>d, <2>1, <2>4, <3>1, <3>2
    <3>3. (worker = "print")' => (cur.msg = printed + 1)'
      BY <1>b DEF RingInv, Contents
    <3> QED BY <3>2, <3>3 DEF Contents
  <2>6. AllThere'
    <3>1. Pending = size - 1
      BY <1>2, <1>a, AlmostFull
    <3> QED BY <1>a, <1>b, <1>c, <1>d, <2>4, <3>1, RunningRing DEF AllThere
  <2> QED BY <1>1, <2>3, <2>5, <2>6 DEF RingInv
<1>3. CASE Inc(tail) # head
  <2>1. entries' = Written /\ tail' = Inc(tail) /\ UNCHANGED <<head, size>>
    BY <1>3 DEF Add
  <2>2. TypeOK'
    <3>1. Written \in [0..size - 1 -> Entry]
      BY <1>a DEF Written, Entry
    <3> QED BY <1>a, <1>b, <2>1, <3>1, OffsetRange DEF TypeOK
  <2>3. /\ Pending' = Pending + 1
        /\ \A i \in 0..size - 1 : Offset(i)' = Offset(i)
        /\ \A i \in 0..size - 1 : Occupied(i)' <=> Occupied(i) \/ i = tail
    BY <1>a, <1>3, <2>1, TailAdvances
  <2>4. Contents'
    <3>1. ASSUME NEW i \in 0..size - 1, Occupied(i)'
          PROVE  ~Written[i].is_end /\ Written[i].msg = printed + Printing + Offset(i) + 1
      <4>1. CASE i = tail
        BY <1>a, <1>b, <4>1, RunningRing DEF Written, Pending
      <4>2. CASE i # tail
        BY <1>a, <1>b, <2>3, <3>1, <4>2, RunningRing DEF Written
      <4> QED BY <4>1, <4>2
    <3>2. ASSUME NEW i \in 0..size' - 1, Occupied(i)'
          PROVE  (IF control = "join" /\ Offset(i) = Pending - 1
                  THEN entries[i].is_end
                  ELSE /\ ~entries[i].is_end
                       /\ entries[i].msg = printed + Printing + Offset(i) + 1)'
      BY <1>b, <1>c, <1>d, <2>1, <2>3, <3>1, <3>2
    <3>3. (worker = "print")' => (cur.msg = printed + 1)'
      BY <1>b DEF RingInv, Contents
    <3> QED BY <3>2, <3>3 DEF Contents
  <2>5. AllThere'
    BY <1>a, <1>b, <1>c, <1>d, <2>3, RunningRing DEF AllThere
  <2> QED BY <1>1, <2>2, <2>4, <2>5 DEF RingInv
<1> QED BY <1>2, <1>3

LEMMA PauseKeeps == RingInv /\ Pause => RingInv'
<1> SUFFICES ASSUME RingInv, Pause PROVE RingInv' OBVIOUS
<1> DEFINE marked == [entries EXCEPT ![tail].is_end = TRUE]
<1>a. /\ head \in 0..size - 1 /\ tail \in 0..size - 1 /\ size \in Nat
      /\ entries \in [0..size - 1 -> Entry] /\ printed \in Nat /\ nAdded \in Nat
      /\ TypeOK
  BY DEF RingInv, TypeOK
<1>b. /\ entries' = marked /\ tail' = Inc(tail) /\ control' = "join" /\ running' = FALSE
      /\ UNCHANGED <<size, head, worker, cur, sink, nAdded, printed>>
  BY DEF Pause
<1>c. Printing \in Nat /\ Printing' = Printing /\ Pending \in Nat
  BY <1>a, <1>b DEF Printing, Pending, Offset
<1>d. running /\ worker \in {"wait", "print"}
  BY DEF Pause, RingInv, Turns
<1>1. TypeOK'
  <2>1. marked \in [0..size - 1 -> Entry]
    BY <1>a DEF Entry
  <2> QED BY <1>a, <1>b, <2>1, OffsetRange DEF TypeOK
<1>2. Turns'
  BY <1>b, <1>d DEF Turns
<1>3. (worker = "print")' => (cur.msg = printed + 1)'
  BY <1>b DEF RingInv, Contents
<1>4. CASE Inc(tail) = head
  <2>1. Pending' = 0 /\ Jammed'
    BY <1>a, <1>b, <1>d, <1>4 DEF Pending, Offset, Jammed
  <2>2. ASSUME NEW i \in 0..size' - 1 PROVE ~Occupied(i)'
    <3>1. Offset(i)' \in Nat
      BY <1>a, <1>b DEF Offset
    <3> QED BY <2>1, <3>1 DEF Occupied
  <2>3. Contents'
    BY <1>3, <2>2 DEF Contents
  <2> QED BY <1>1, <1>2, <2>1, <2>3 DEF RingInv, AllThere
<1>5. CASE Inc(tail) # head
  <2>1. /\ Pending' = Pending + 1
        /\ \A i \in 0..size - 1 : Offset(i)' = Offset(i)
        /\ \A i \in 0..size - 1 : Occupied(i)' <=> Occupied(i) \/ i = tail
    BY <1>a, <1>b, <1>5, TailAdvances
  <2>2. ASSUME NEW i \in 0..size' - 1, Occupied(i)'
        PROVE  (IF control = "join" /\ Offset(i) = Pending - 1
                THEN entries[i].is_end
                ELSE /\ ~entries[i].is_end
                     /\ entries[i].msg = printed + Printing + Offset(i) + 1)'
    <3>1. CASE i = tail
      <4>1. Offset(i)' = Pending' - 1
        BY <1>a, <1>c, <2>1, <3>1 DEF Pending
      <4>2. marked[i].is_end
        BY <1>a, <3>1 DEF Entry
      <4> QED BY <1>b, <4>1, <4>2
    <3>2. CASE i # tail
      <4>1. Occupied(i) /\ Offset(i)' = Offset(i) /\ marked[i] = entries[i]
        BY <1>a, <1>b, <2>1, <2>2, <3>2
      <4>2. Offset(i)' # Pending' - 1
        BY <1>a, <1>c, <2>1, <4>1, <1>b, OffsetRange DEF Occupied
      <4> QED BY <1>b, <1>c, <1>d, <4>1, <4>2, RunningRing
    <3> QED BY <3>1, <3>2
  <2>3. Contents'
    BY <1>3, <2>2 DEF Contents
  <2>4. AllThere'
    BY <1>a, <1>b, <1>c, <1>d, <2>1, RunningRing DEF AllThere
  <2> QED BY <1>1, <1>2, <2>3, <2>4 DEF RingInv
<1> QED BY <1>4, <1>5

\* The entry the worker takes is an end marker only if it is the last one, and
\* holds the message that follows the last one printed otherwise.
LEMMA FrontEntry ==
  ASSUME RingInv, worker = "wait", head # tail
  PROVE  /\ Occupied(head)
         /\ Offset(head) = 0
         /\ entries[head].is_end <=> (control = "join" /\ Pending = 1)
         /\ ~entries[head].is_end => entries[head].msg = printed + 1
<1>1. head \in 0..size - 1 /\ tail \in 0..size - 1 /\ size \in Nat
  BY DEF RingInv, TypeOK
<1>2. Offset(head) = 0 /\ Pending \in Nat \ {0}
  BY <1>1 DEF Offset, Pending
<1>3. Occupied(head)
  BY <1>2 DEF Occupied
<1>4. IF control = "join" /\ Offset(head) = Pending - 1
      THEN entries[head].is_end
      ELSE /\ ~entries[head].is_end
           /\ entries[head].msg = printed + Printing + Offset(head) + 1
  BY <1>1, <1>3 DEF RingInv, Contents
<1>5. printed \in Nat /\ Printing = 0
  BY DEF RingInv, TypeOK, Printing
<1> QED BY <1>2, <1>3, <1>4, <1>5

\* Once the worker has taken the front entry every other entry is one place
\* nearer to the head.
LEMMA TakeShifts ==
  ASSUME RingInv, Take, NEW i \in 0..size - 1, Occupied(i)'
  PROVE  /\ Occupied(i) /\ Offset(i)' = Offset(i) - 1
         /\ Pending' = Pending - 1 /\ Pending # 1
<1>1. head \in 0..size - 1 /\ tail \in 0..size - 1 /\ size \in Nat
  BY DEF RingInv, TypeOK
<1>2. head # tail /\ head' = Inc(head) /\ tail' = tail /\ size' = size
  BY DEF Take
<1>3. Offset(i) \in Nat /\ Pending \in Nat /\ Offset(i)' < Pending'
  BY <1>1 DEF Offset, Pending, Occupied
<1>4. Pending' = Pending - 1
  BY <1>1, <1>2 DEF Offset, Pending, Inc
<1>5. i # head
  BY <1>1, <1>2, <1>3, <1>4 DEF Offset, Pending, Inc
<1>6. Offset(i)' = Offset(i) - 1
  BY <1>1, <1>2, <1>5 DEF Offset, Inc
<1>7. Offset(i) > 0
  BY <1>1, <1>5 DEF Offset
<1> QED BY <1>3, <1>4, <1>6, <1>7 DEF Occupied

LEMMA TakeKeeps == RingInv /\ Take => RingInv'
<1> SUFFICES ASSUME RingInv, Take PROVE RingInv' OBVIOUS
<1> USE DEF RingInv
<1>0. head # tail /\ worker = "wait"
  BY DEF Take
<1>1. TypeOK'
  BY OffsetRange DEF TypeOK, Take, Entry, Blank, Inc
<1>a. /\ head \in 0..size - 1 /\ tail \in 0..size - 1 /\ size \in Nat
      /\ printed \in Nat /\ nAdded \in Nat
  BY DEF TypeOK
<1>b. Pending' = Pending - 1 /\ Pending \in Nat
  BY <1>0, <1>a DEF Take, Offset, Pending, Inc
<1>2. Turns'
  <2>1. entries[head].is_end => control = "join" /\ Pending' = 0
    BY <1>0, <1>b, FrontEntry
  <2>2. Pending' = 0 => head' = tail'
    BY <1>a, OffsetRange DEF Take, Pending, Offset
  <2> QED BY <1>0, <2>1, <2>2 DEF Take, Turns
<1>3. Contents'
  <2>1. (worker = "print")' => (cur.msg = printed + 1)'
    BY <1>0, FrontEntry DEF Take
  <2>2. ASSUME NEW i \in 0..size - 1, Occupied(i)'
        PROVE  IF control = "join" /\ Offset(i)' = Pending' - 1
               THEN entries[i].is_end
               ELSE /\ ~entries[i].is_end
                    /\ entries[i].msg = printed + Printing' + Offset(i)' + 1
    <3>1. /\ Occupied(i) /\ Offset(i)' = Offset(i) - 1
          /\ Pending' = Pending - 1 /\ Pending # 1
      BY <2>2, TakeShifts
    <3>2. IF control = "join" /\ Offset(i) = Pending - 1
          THEN entries[i].is_end
          ELSE /\ ~entries[i].is_end
               /\ entries[i].msg = printed + Printing + Offset(i) + 1
      BY <3>1 DEF Contents
    <3>3. Offset(i) \in Nat /\ Pending \in Nat
      BY OffsetRange, <1>b
    <3>4. Printing = 0 /\ Printing' = 1
      BY <1>0, <3>1, FrontEntry DEF Printing, Take
    <3> QED BY <3>1, <3>2, <3>3, <3>4, <1>a
  <2>3. /\ entries' = entries /\ control' = control /\ printed' = printed
        /\ size' = size
    BY DEF Take
  <2> QED BY <2>1, <2>2, <2>3 DEF Contents
<1>4. AllThere'
  <2>1. ~Jammed
    BY <1>0 DEF Jammed
  <2>2. nAdded = printed + Pending - (IF control = "join" THEN 1 ELSE 0)
    BY <1>0, <1>a, <1>b, <2>1 DEF AllThere, Printing
  <2>3. CASE entries[head].is_end
    BY <1>0, <1>a, <1>b, <2>2, <2>3, FrontEntry DEF Take, AllThere, Printing
  <2>4. CASE ~entries[head].is_end
    BY <1>0, <1>a, <1>b, <2>2, <2>4 DEF Take, AllThere, Printing
  <2> QED BY <2>3, <2>4
<1> QED BY <1>1, <1>2, <1>3, <1>4

LEMMA EmitKeeps == RingInv /\ Emit => RingInv'
<1> SUFFICES ASSUME RingInv, Emit PROVE RingInv' OBVIOUS
<1> USE DEF RingInv
<1>a. /\ UNCHANGED <<size, entries, head, tail, control, nAdded>>
      /\ worker = "print" /\ worker' = "wait" /\ printed' = printed + 1
      /\ printed \in Nat /\ nAdded \in Nat
  BY DEF Emit, Contents, TypeOK
<1>b. Pending' = Pending /\ \A i \in 0..size - 1 : Offset(i)' = Offset(i)
  BY <1>a DEF Pending, Offset
<1>c. Printing = 1 /\ Printing' = 0
  BY <1>a DEF Printing
<1>1. TypeOK'
  BY DEF TypeOK, Emit, Entry, Blank, Inc
<1>2. Turns'
  BY DEF TypeOK, Turns, Emit, Inc
<1>3. Contents'
  <2>1. ASSUME NEW i \in 0..size - 1, Occupied(i)'
        PROVE  (IF control = "join" /\ Offset(i) = Pending - 1
                THEN entries[i].is_end
                ELSE /\ ~entries[i].is_end
                     /\ entries[i].msg = printed + Printing + Offset(i) + 1)'
    <3>1. Occupied(i)
      BY <1>b, <2>1 DEF Occupied
    <3>2. Offset(i) \in Nat
      BY OffsetRange
    <3> QED BY <1>a, <1>b, <1>c, <3>1, <3>2 DEF Contents
  <2> QED BY <1>a, <2>1 DEF Contents
<1>4. AllThere'
  <2>1. Pending \in Nat
    BY DEF TypeOK, Pending, Offset
  <2>2. Jammed => Jammed'
    BY <1>a DEF Jammed
  <2> QED BY <1>a, <1>b, <1>c, <2>1, <2>2 DEF AllThere
<1> QED BY <1>1, <1>2, <1>3, <1>4

LEMMA JoinKeeps == RingInv /\ Join => RingInv'
<1> SUFFICES ASSUME RingInv, Join PROVE RingInv' OBVIOUS
<1> USE DEF RingInv
<1>1. TypeOK'
  BY OffsetRange DEF TypeOK, Join, Entry, Blank, Inc
<1>2. Turns'
  BY DEF TypeOK, Turns, Join, Inc
<1>3. Contents'
  BY DEF TypeOK, Turns, Contents, Join, Entry, Printing, Occupied, Offset, Pending, Inc
<1>4. AllThere'
  BY DEF TypeOK, Turns, Contents, AllThere, Jammed, Join, Entry, Printing, Occupied, Offset, Pending, Inc
<1> QED BY <1>1, <1>2, <1>3, <1>4

LEMMA ChangeSinkKeeps == RingInv /\ ChangeSink => RingInv'
<1> SUFFICES ASSUME RingInv, ChangeSink PROVE RingInv' OBVIOUS
<1> USE DEF RingInv
<1>1. TypeOK'
  <2>1. UNCHANGED <<size, entries, head, tail, running, worker, cur, nAdded, printed>>
        /\ control' = "resume" /\ sink' = 1 - sink
    BY DEF ChangeSink
  <2> QED BY <2>1 DEF TypeOK
<1>2. Turns'
  BY DEF TypeOK, Turns, ChangeSink, Inc
<1>3. Contents'
  BY DEF TypeOK, Turns, Contents, ChangeSink, Entry, Printing, Occupied, Offset, Pending, Inc
<1>4. AllThere'
  BY DEF TypeOK, Turns, Contents, AllThere, Jammed, ChangeSink, Entry, Printing, Occupied, Offset, Pending, Inc
<1> QED BY <1>1, <1>2, <1>3, <1>4

LEMMA ResumeKeeps == RingInv /\ Resume => RingInv'
<1> SUFFICES ASSUME RingInv, Resume PROVE RingInv' OBVIOUS
<1> USE DEF RingInv
<1>1. TypeOK'
  BY OffsetRange DEF TypeOK, Resume, Entry, Blank, Inc
<1>2. Turns'
  BY DEF TypeOK, Turns, Resume, Inc
<1>3. Contents'
  BY DEF TypeOK, Turns, Contents, Resume, Entry, Printing, Occupied, Offset, Pending, Inc
<1>4. AllThere'
  BY DEF TypeOK, Turns, Contents, AllThere, Jammed, Resume, Entry, Printing, Occupied, Offset, Pending, Inc
<1> QED BY <1>1, <1>2, <1>3, <1>4

-----------------------------------------------------------------------------
\* The buffer is well formed and says where every message is, for every starting
\* capacity and every number of messages (common_log::add, pause, resume).
THEOREM RingCorrect == Spec => []RingInv
<1>1. RingInv /\ UNCHANGED vars => RingInv'
  BY DEF RingInv, TypeOK, Turns, Contents, AllThere, Jammed, Printing, Occupied, Offset,
         Pending, vars
<1>2. RingInv /\ [Next]_vars => RingInv'
  BY <1>1, AddKeeps, TakeKeeps, EmitKeeps, PauseKeeps, JoinKeeps, ChangeSinkKeeps,
     ResumeKeeps DEF Next
<1> QED BY InitRing, <1>2, PTL DEF Spec

\* Every index stays inside the buffer (common/log.cpp:228-249).
THEOREM TypeCorrect == Spec => []TypeOK
<1>1. RingInv => TypeOK
  BY DEF RingInv
<1> QED BY RingCorrect, <1>1, PTL

\* A pause that returns has seen every accepted message printed (log.h:92).
THEOREM Flushed == Spec => []FlushedOnReturn
<1>1. RingInv => FlushedOnReturn
  <2> SUFFICES ASSUME RingInv, control \in {"paused", "resume"} PROVE printed = nAdded
    BY DEF FlushedOnReturn
  <2>1. worker = "none" /\ head = tail
    BY DEF RingInv, Turns
  <2>2. Pending = 0 /\ Printing = 0 /\ ~Jammed
    BY <2>1 DEF RingInv, TypeOK, Pending, Offset, Printing, Jammed
  <2> QED BY <2>2 DEF RingInv, TypeOK, AllThere
<1> QED BY RingCorrect, <1>1, PTL

\* Messages are printed once, in the order in which they were accepted.
THEOREM PrintedInOrder == Spec => InOrder
<1>1. RingInv /\ [Next]_vars => [printed' # printed => printed' = printed + 1]_vars
  <2> SUFFICES ASSUME RingInv, Next, printed' # printed PROVE printed' = printed + 1
    OBVIOUS
  <2>1. Emit
    BY DEF Next, Add, Take, Pause, Join, ChangeSink, Resume
  <2> QED BY <2>1 DEF Emit, RingInv, Contents
<1> QED BY RingCorrect, <1>1, PTL DEF Spec, InOrder

\* The file and the colour table change only while no worker uses them.
THEOREM SinkAlone == Spec => SinkUnshared
<1>1. RingInv /\ [Next]_vars => [sink' # sink => worker = "none"]_vars
  <2> SUFFICES ASSUME RingInv, Next, sink' # sink PROVE worker = "none"
    OBVIOUS
  <2>1. ChangeSink
    BY DEF Next, Add, Take, Emit, Pause, Join, Resume
  <2> QED BY <2>1 DEF ChangeSink, RingInv, Turns
<1> QED BY RingCorrect, <1>1, PTL DEF Spec, SinkUnshared

\* All three at once, as the run checks them.
THEOREM LogIsKept == Spec => LogKept
BY Flushed, PrintedInOrder, SinkAlone DEF LogKept
-----------------------------------------------------------------------------
(***************************************************************************)
(* Proofs about Sleep, for any number of handlers: no wake-up of the main  *)
(* loop is lost, if the idle timeout is longer than what a handler does    *)
(* between two of its steps.                                               *)
(***************************************************************************)

\* Only a loop that is stopped leaves its sleep with `sleeping' set.
Asleep ==
  /\ loop = "doze" => sleeping
  /\ sleeping => loop = "doze" \/ (~loopRunning /\ loop # "unstarted")

\* A handler that still waits after the sleep has been told that it is over.
MayGo == ~sleeping => \A h \in Handlers : handler[h] = "wait" => h \in woken

\* In its sleep the loop is asked by the first who waits, and told.
Asked ==
  loop = "doze" => /\ (\E h \in Handlers : handler[h] = "wait") => reqStop
                   /\ reqStop => Loop \in woken

\* A task in the queue is that of a handler that has posted it.
Queued == \A h \in queued : handler[h] = "posted"

SleepInv == SleepTypeOK /\ Asleep /\ MayGo /\ Asked /\ Queued

LEMMA SleepStart == SleepInit => SleepInv
BY DEF SleepInit, SleepInv, SleepTypeOK, Asleep, MayGo, Asked, Queued, Waiting

\* A notification is for one of those who wait.
LEMMA NotifyOneWakes ==
  ASSUME SleepTypeOK, NotifyOne
  PROVE  /\ woken \subseteq woken'
         /\ woken' \subseteq Waiting
         /\ Waiting = {Loop} => Loop \in woken'
BY DEF NotifyOne, SleepTypeOK

LEMMA HandlerKeeps ==
  ASSUME SleepInv, NEW h \in Handlers, HandlerStep(h)
  PROVE  SleepInv'
<1> USE SleepAssumption DEF SleepInv
<1>1. CASE Ask(h)
  <2>1. /\ handler' = [handler EXCEPT ![h] = "wait"] /\ reqStop' = TRUE
        /\ UNCHANGED <<loop, sleeping, loopRunning, queued>> /\ sleeping
        /\ handler[h] = "new"
    BY <1>1 DEF Ask
  <2>2. woken \subseteq woken' /\ woken' \subseteq Waiting
    BY <1>1, NotifyOneWakes DEF Ask, SleepTypeOK
  <2>3. loop = "doze" => Loop \in woken'
    <3>1. CASE reqStop
      BY <2>2, <3>1 DEF Asked
    <3>2. CASE ~reqStop
      <4>1. loop = "doze" => Waiting = {Loop}
        BY <3>2 DEF Asked, Waiting
      <4>2. NotifyOne
        BY <1>1, <3>2 DEF Ask
      <4> QED BY <4>1, <4>2, NotifyOneWakes
    <3> QED BY <3>1, <3>2
  <2>4. Waiting \subseteq Waiting'
    BY <2>1 DEF Waiting, SleepTypeOK
  <2>5. SleepTypeOK'
    BY <2>1, <2>2, <2>4 DEF SleepTypeOK
  <2> QED BY <2>1, <2>3, <2>5 DEF Asleep, MayGo, Asked, Queued
<1>2. CASE Told(h)
  <2>1. Waiting' = Waiting
    BY <1>2 DEF Told, Waiting, SleepTypeOK
  <2> QED BY <1>2, <2>1 DEF Told, SleepTypeOK, Asleep, MayGo, Asked, Queued
<1>3. CASE LookAgain(h)
  <2>1. Waiting \ {h} \subseteq Waiting'
    BY <1>3 DEF LookAgain, Waiting, SleepTypeOK
  <2>2. SleepTypeOK'
    BY <1>3, <2>1 DEF LookAgain, SleepTypeOK
  <2>3. \A k \in Handlers : handler'[k] = "wait" => handler[k] = "wait"
    BY <1>3 DEF LookAgain, SleepTypeOK
  <2>4. MayGo'
    BY <1>3 DEF LookAgain, SleepTypeOK, MayGo
  <2> QED BY <1>3, <2>2, <2>3, <2>4 DEF LookAgain, SleepTypeOK, Asleep, Asked, Queued
<1>4. CASE PostTask(h)
  <2>1. woken \subseteq woken' /\ woken' \subseteq Waiting
    BY <1>4, NotifyOneWakes DEF PostTask
  <2>2. Waiting' = Waiting
    BY <1>4 DEF PostTask, Waiting, SleepTypeOK
  <2>3. \A k \in Handlers : handler'[k] = "wait" => handler[k] = "wait"
    BY <1>4 DEF PostTask, SleepTypeOK
  <2>4. SleepTypeOK'
    BY <1>4, <2>1, <2>2 DEF PostTask, SleepTypeOK
  <2>5. Queued'
    BY <1>4 DEF PostTask, SleepTypeOK, Queued
  <2> QED BY <1>4, <2>1, <2>3, <2>4, <2>5 DEF PostTask, Asleep, MayGo, Asked
<1> QED BY <1>1, <1>2, <1>3, <1>4 DEF HandlerStep

LEMMA LoopKeeps ==
  ASSUME Patient, SleepInv, LoopStep
  PROVE  SleepInv'
<1> USE SleepAssumption DEF SleepInv
<1>1. CASE LoopStart
  BY <1>1 DEF LoopStart, SleepTypeOK, Waiting, Asleep, MayGo, Asked, Queued
<1>2. CASE LoopEnd
  BY <1>2 DEF LoopEnd, SleepTypeOK, Waiting, Asleep, MayGo, Asked, Queued
<1>3. CASE Update
  BY <1>3 DEF Update, SleepTypeOK, Waiting, Asleep, MayGo, Asked, Queued
<1>4. CASE Look
  <2>1. CASE loop' = "doze"
    <3>1. /\ loop = "look" /\ loopRunning /\ IdleLongEnough /\ sleeping' = TRUE /\ reqStop' = FALSE
          /\ UNCHANGED <<loopRunning, queued, handler, woken>>
      BY <1>4, <2>1 DEF Look
    <3>2. \A h \in Handlers : handler[h] # "wait"
      BY <3>1 DEF IdleLongEnough, Asleep, MayGo
    <3> QED BY <2>1, <3>1, <3>2 DEF SleepTypeOK, Waiting, Asleep, MayGo, Asked, Queued
  <2>2. CASE loop' # "doze"
    BY <1>4, <2>2 DEF Look, SleepTypeOK, Waiting, Asleep, MayGo, Asked, Queued
  <2> QED BY <2>1, <2>2
<1>5. CASE IdleReturn
  BY <1>5 DEF IdleReturn, SleepTypeOK, Waiting, Asleep, MayGo, Asked, Queued
<1>6. CASE DozeReturn
  <2>1. CASE loop' = "take" /\ ~loopRunning
    <3>1. /\ loop = "doze" /\ woken' = woken \ {Loop}
          /\ UNCHANGED <<sleeping, reqStop, loopRunning, queued, handler>>
      BY <1>6, <2>1 DEF DozeReturn, SleepTypeOK, Asleep
    <3>2. woken' \subseteq Waiting'
      BY <2>1, <3>1 DEF SleepTypeOK, Waiting
    <3> QED BY <2>1, <3>1, <3>2 DEF SleepTypeOK, Asleep, MayGo, Asked, Queued
  <2>2. CASE loop' = "take" /\ loopRunning
    BY <1>6, <2>2 DEF DozeReturn, SleepTypeOK, Waiting, Asleep, MayGo, Asked, Queued
  <2>3. CASE loop' # "take"
    <3>1. /\ ~reqStop /\ woken' = woken \ {Loop}
          /\ UNCHANGED <<loop, sleeping, reqStop, loopRunning, queued, handler>>
      BY <1>6, <2>3 DEF DozeReturn
    <3>2. Waiting' = Waiting
      BY <3>1 DEF Waiting
    <3> QED BY <1>6, <3>1, <3>2 DEF DozeReturn, SleepTypeOK, Asleep, MayGo, Asked, Queued
  <2> QED BY <2>1, <2>2, <2>3
<1>7. ASSUME NEW h \in Handlers, ServeTask(h) PROVE SleepInv'
  <2>1. Waiting' = Waiting
    BY <1>7 DEF ServeTask, SleepTypeOK, Waiting, Queued
  <2> QED BY <1>7, <2>1 DEF ServeTask, SleepTypeOK, Waiting, Asleep, MayGo, Asked, Queued
<1> QED BY <1>1, <1>2, <1>3, <1>4, <1>5, <1>6, <1>7 DEF LoopStep

LEMMA TerminateKeeps ==
  ASSUME SleepInv, Terminate
  PROVE  SleepInv'
BY SleepAssumption DEF SleepInv, Terminate, SleepTypeOK, Waiting, Asleep, MayGo, Asked, Queued

\* The types need no assumption on the timeout.
LEMMA SleepTypesKept ==
  ASSUME SleepTypeOK, Queued, SleepNext
  PROVE  SleepTypeOK' /\ Queued'
<1> USE SleepAssumption DEF SleepTypeOK, Queued
<1>1. ASSUME NEW h \in Handlers, HandlerStep(h) PROVE SleepTypeOK' /\ Queued'
  <2>1. CASE Ask(h)
    <3>1. woken' \subseteq Waiting
      BY <2>1, NotifyOneWakes DEF Ask
    <3>2. Waiting \subseteq Waiting'
      BY <2>1 DEF Ask, Waiting
    <3> QED BY <2>1, <3>1, <3>2 DEF Ask
  <2>2. CASE Told(h)
    BY <2>2 DEF Told, Waiting
  <2>3. CASE LookAgain(h)
    <3>1. Waiting \ {h} \subseteq Waiting'
      BY <2>3 DEF LookAgain, Waiting
    <3> QED BY <2>3, <3>1 DEF LookAgain
  <2>4. CASE PostTask(h)
    <3>1. woken' \subseteq Waiting /\ Waiting' = Waiting
      BY <2>4, NotifyOneWakes DEF PostTask, Waiting
    <3> QED BY <2>4, <3>1 DEF PostTask
  <2> QED BY <1>1, <2>1, <2>2, <2>3, <2>4 DEF HandlerStep
<1>2. CASE LoopStart \/ LoopEnd \/ Update \/ Look \/ IdleReturn
  <2>1. UNCHANGED <<queued, handler, woken>> /\ (reqStop' => sleeping')
    BY <1>2 DEF LoopStart, LoopEnd, Update, Look, IdleReturn
  <2>2. loop # "doze" /\ loop' \in {"unstarted", "take", "look", "idle", "doze", "ended"}
    BY <1>2 DEF LoopStart, LoopEnd, Update, Look, IdleReturn
  <2>3. sleeping' \in BOOLEAN /\ reqStop' \in BOOLEAN /\ loopRunning' \in BOOLEAN
    BY <1>2 DEF LoopStart, LoopEnd, Update, Look, IdleReturn
  <2>4. woken' \subseteq Waiting'
    BY <2>1, <2>2 DEF Waiting
  <2> QED BY <2>1, <2>2, <2>3, <2>4
<1>3. CASE DozeReturn
  <2>1. UNCHANGED <<queued, handler, loopRunning>> /\ loop' \in {"doze", "take"}
    BY <1>3 DEF DozeReturn
  <2>2. sleeping' \in BOOLEAN /\ reqStop' \in BOOLEAN /\ (reqStop' => sleeping')
    <3>1. UNCHANGED <<sleeping, reqStop>> \/ (sleeping' = FALSE /\ reqStop' = FALSE)
      BY <1>3 DEF DozeReturn
    <3>2. CASE UNCHANGED <<sleeping, reqStop>>
      BY <3>2, Zenon
    <3>3. CASE sleeping' = FALSE /\ reqStop' = FALSE
      BY <3>3, Zenon
    <3> QED BY <3>1, <3>2, <3>3
  <2>3. woken' \subseteq Waiting \ {Loop}
    BY <1>3 DEF DozeReturn
  <2>4. Waiting \ {Loop} \subseteq Waiting'
    BY <2>1 DEF Waiting
  <2> QED BY <2>1, <2>2, <2>3, <2>4
<1>4. ASSUME NEW h \in Handlers, ServeTask(h) PROVE SleepTypeOK' /\ Queued'
  <2>1. Waiting' = Waiting
    BY <1>4 DEF ServeTask, Waiting
  <2> QED BY <1>4, <2>1 DEF ServeTask
<1>5. CASE Terminate
  BY <1>5 DEF Terminate, Waiting
<1> QED BY <1>1, <1>2, <1>3, <1>4, <1>5 DEF SleepNext, LoopStep

THEOREM SleepTyped == SleepSpec => []SleepTypeOK
<1>1. SleepInit => SleepTypeOK /\ Queued
  BY SleepStart DEF SleepInv
<1>2. SleepTypeOK /\ Queued /\ [SleepNext]_sleepVars => SleepTypeOK' /\ Queued'
  <2>1. CASE UNCHANGED sleepVars
    BY <2>1 DEF sleepVars, SleepTypeOK, Queued, Waiting
  <2> QED BY <2>1, SleepTypesKept
<1> QED BY <1>1, <1>2, PTL DEF SleepSpec

\* Under Patient the conditions above hold in every state.
THEOREM SleepCorrect ==
  ASSUME Patient
  PROVE  SleepSpec => []SleepInv
<1>1. SleepInv /\ [SleepNext]_sleepVars => SleepInv'
  <2> SUFFICES ASSUME SleepInv, [SleepNext]_sleepVars PROVE SleepInv'
    OBVIOUS
  <2>1. CASE UNCHANGED sleepVars
    BY <2>1 DEF sleepVars, SleepInv, SleepTypeOK, Waiting, Asleep, MayGo, Asked, Queued
  <2>2. CASE SleepNext
    BY <2>2, HandlerKeeps, LoopKeeps, TerminateKeeps DEF SleepNext
  <2> QED BY <2>1, <2>2
<1> QED BY SleepStart, <1>1, PTL DEF SleepSpec

\* No wake-up is lost: a loop that sleeps while somebody waits for it has been
\* asked, and it, not one of the handlers, has been notified.
THEOREM NoWakeupLost ==
  ASSUME Patient
  PROVE  SleepSpec => []WakeRequested
<1>1. SleepInv => WakeRequested
  BY DEF SleepInv, Asked, WakeRequested
<1> QED BY SleepCorrect, <1>1, PTL

\* No task is processed, and no slot updated, while the model is unloaded.
THEOREM NoWorkAsleep ==
  ASSUME Patient
  PROVE  SleepSpec => AwakeAtWork
<1>1. SleepInv /\ [SleepNext]_sleepVars
        => [(\E h \in Handlers : ServeTask(h)) \/ Update => ~sleeping]_sleepVars
  BY DEF SleepInv, Asleep, ServeTask, Update
<1> QED BY SleepCorrect, <1>1, PTL DEF SleepSpec, AwakeAtWork
-----------------------------------------------------------------------------
(***************************************************************************)
(* Proof that the pipe of Pipe is a Stream, for answers of any length.     *)
(***************************************************************************)

\* What was written and not yet read is in the queue.
Held == sent = received \o pipeQueue

\* While the reader holds the mutex after it found the queue empty, it is empty;
\* and it stays so when the writer had closed.
FoundEmpty == reader \in {"looked", "open", "eof", "finished"} => pipeQueue = <<>>

EndSeen == reader \in {"eof", "finished"} => writerClosed

PipeInv == PipeTypeOK /\ Held /\ FoundEmpty /\ EndSeen

LEMMA TakeFirst ==
  ASSUME NEW M, NEW s \in Seq(M), NEW q \in Seq(M), q # <<>>
  PROVE  /\ Append(s, Head(q)) \o Tail(q) = s \o q
         /\ Len(s) < Len(s \o q)
         /\ (s \o q)[Len(s) + 1] = Head(q)
         /\ Head(q) \in M /\ Tail(q) \in Seq(M)
OBVIOUS

LEMMA PipeStart == PipeInit => PipeInv /\ Promised!StreamInit
<1> SUFFICES ASSUME PipeInit PROVE PipeInv /\ Promised!StreamInit
  OBVIOUS
<1>1. {pipeQueue, sent, received} \subseteq Seq(PipeMessages)
  BY DEF PipeInit
<1>2. PipeTypeOK
  BY <1>1 DEF PipeInit, PipeTypeOK
<1>3. Held
  BY DEF PipeInit, Held
<1> QED BY <1>2, <1>3 DEF PipeInit, PipeInv, FoundEmpty, EndSeen, Promised!StreamInit, Over

\* A write: the writer has not closed, and the reader has not seen the end.
LEMMA WriteSends ==
  ASSUME PipeInv, NEW m \in PipeMessages, Write(m), writer # "ended",
         writer' \in {"header", "body", "failed", "error", "close", "ended"},
         UNCHANGED <<reader, writerClosed, readerClosed, clientGone, received>>
  PROVE  PipeInv' /\ Promised!Send
<1> USE DEF PipeInv
<1>1. ~writerClosed /\ reader \in {"read", "wait"} /\ Over = "no"
  BY DEF Write, ReaderHolds, PipeTypeOK, EndSeen, Over
<1>2. sent' = Append(sent, m) /\ pipeQueue' = Append(pipeQueue, m) /\ called' \in BOOLEAN
  BY DEF Write, Call, PipeTypeOK
<1>3. {pipeQueue', sent', received'} \subseteq Seq(PipeMessages)
  BY <1>2 DEF PipeTypeOK
<1>4. Held'
  <2>1. Append(received \o pipeQueue, m) = received \o Append(pipeQueue, m)
    <3>1. received \in Seq(PipeMessages) /\ pipeQueue \in Seq(PipeMessages)
      BY DEF PipeTypeOK
    <3>2. m \in PipeMessages
      OBVIOUS
    <3> QED BY ONLY <3>1, <3>2
  <2> QED BY <1>2, <2>1 DEF Held
<1>5. PipeTypeOK' /\ FoundEmpty' /\ EndSeen'
  BY <1>1, <1>2, <1>3 DEF PipeTypeOK, FoundEmpty, EndSeen
<1>6. Over' = Over
  BY DEF Over
<1> QED BY <1>1, <1>2, <1>4, <1>5, <1>6 DEF Promised!Send

LEMMA WriterKeeps ==
  ASSUME PipeInv, WriterStep
  PROVE  PipeInv' /\ [Promised!StreamNext]_(Promised!streamVars)
<1> USE DEF PipeInv
<1> DEFINE W == {"header", "body", "failed", "error", "close", "ended"}
<1>1. CASE Forward
  <2>1. CASE BrokenPipe
    <3>1. UNCHANGED <<pipeQueue, sent, received, writerClosed, readerClosed, called,
                      clientGone, reader>> /\ writer \in {"header", "body"} /\ writer' \in W
      BY <1>1, <2>1 DEF Forward, BrokenPipe, Write
    <3>2. PipeTypeOK'
      BY <2>1, <3>1 DEF PipeTypeOK, BrokenPipe
    <3> QED BY <3>1, <3>2 DEF Held, FoundEmpty, EndSeen, Promised!streamVars, Over
  <2>2. CASE ~BrokenPipe
    <3>1. \E m \in PipeMessages : Write(m)
      BY <1>1, <2>2 DEF Forward, PipeMessages
    <3>2. /\ writer # "ended" /\ writer' \in W
          /\ UNCHANGED <<reader, writerClosed, readerClosed, clientGone, received>>
      BY <1>1, <2>2 DEF Forward
    <3> QED BY <3>1, <3>2, WriteSends DEF Promised!StreamNext
  <2> QED BY <2>1, <2>2
<1>2. CASE TransferEnds
  <2>1. /\ UNCHANGED <<pipeQueue, sent, received, writerClosed, readerClosed, called,
                       clientGone, reader>>
        /\ writer # "ended" /\ writer' \in W
    BY <1>2 DEF TransferEnds
  <2>2. PipeTypeOK'
    BY <2>1 DEF PipeTypeOK
  <2> QED BY <2>1, <2>2 DEF Held, FoundEmpty, EndSeen, Promised!streamVars, Over
<1>3. CASE ReportError
  <2>1. CASE BrokenPipe
    <3>1. /\ UNCHANGED <<pipeQueue, sent, received, writerClosed, readerClosed, called,
                         clientGone, reader>>
          /\ writer # "ended" /\ writer' \in W
      BY <1>3, <2>1 DEF ReportError, BrokenPipe, Write
    <3>2. PipeTypeOK'
      BY <3>1 DEF PipeTypeOK
    <3> QED BY <3>1, <3>2 DEF Held, FoundEmpty, EndSeen, Promised!streamVars, Over
  <2>2. CASE ~BrokenPipe
    <3>1. \E m \in PipeMessages : Write(m)
      BY <1>3, <2>2 DEF ReportError, PipeMessages
    <3>2. /\ writer # "ended" /\ writer' \in W
          /\ UNCHANGED <<reader, writerClosed, readerClosed, clientGone, received>>
      BY <1>3, <2>2 DEF ReportError
    <3> QED BY <3>1, <3>2, WriteSends DEF Promised!StreamNext
  <2> QED BY <2>1, <2>2
<1>4. CASE CloseWrite
  <2>1. /\ writer' = "ended" /\ writerClosed' = TRUE /\ called' \in BOOLEAN
        /\ UNCHANGED <<reader, pipeQueue, readerClosed, clientGone, sent, received>>
    BY <1>4 DEF CloseWrite, Call, PipeTypeOK
  <2>2. PipeTypeOK'
    BY <2>1 DEF PipeTypeOK
  <2>3. Held' /\ FoundEmpty' /\ EndSeen'
    BY <2>1 DEF Held, FoundEmpty, EndSeen
  <2>4. Promised!CloseStream
    BY <2>1 DEF Promised!CloseStream, Over
  <2> QED BY <2>2, <2>3, <2>4 DEF Promised!StreamNext
<1> QED BY <1>1, <1>2, <1>3, <1>4 DEF WriterStep

LEMMA ReaderKeeps ==
  ASSUME PipeInv, ReadStep \/ Cleanup \/ ClientLeaves
  PROVE  PipeInv' /\ [Promised!StreamNext]_(Promised!streamVars)
<1> USE DEF PipeInv
<1>1. CASE LookAtQueue
  <2>1. CASE pipeQueue # <<>>
    <3>1. /\ received' = Append(received, Head(pipeQueue)) /\ pipeQueue' = Tail(pipeQueue)
          /\ reader = "read"
          /\ UNCHANGED <<reader, writer, writerClosed, readerClosed, called, clientGone, sent>>
      BY <1>1, <2>1 DEF LookAtQueue
    <3>2. /\ Head(pipeQueue) \in PipeMessages /\ Tail(pipeQueue) \in Seq(PipeMessages)
          /\ sent = Append(received, Head(pipeQueue)) \o Tail(pipeQueue)
          /\ Len(received) < Len(sent) /\ sent[Len(received) + 1] = Head(pipeQueue)
      BY <2>1, TakeFirst DEF PipeTypeOK, Held
    <3>3. {pipeQueue', sent', received'} \subseteq Seq(PipeMessages)
      BY <3>1, <3>2 DEF PipeTypeOK
    <3>4. PipeTypeOK'
      BY <3>1, <3>3 DEF PipeTypeOK
    <3>5. Held' /\ FoundEmpty' /\ EndSeen'
      BY <3>1, <3>2 DEF Held, FoundEmpty, EndSeen
    <3>6. Over = "no" /\ Over' = Over
      BY <3>1 DEF Over, PipeTypeOK
    <3>7. Promised!Receive
      BY <3>1, <3>2, <3>6 DEF Promised!Receive
    <3> QED BY <3>4, <3>5, <3>7 DEF Promised!StreamNext
  <2>2. CASE pipeQueue = <<>>
    <3>1. /\ reader = "read" /\ reader' = "looked"
          /\ UNCHANGED <<writer, pipeQueue, writerClosed, readerClosed, called, clientGone,
                         sent, received>>
      BY <1>1, <2>2 DEF LookAtQueue
    <3>2. PipeTypeOK'
      BY <3>1 DEF PipeTypeOK
    <3> QED BY <2>2, <3>1, <3>2 DEF Held, FoundEmpty, EndSeen, Promised!streamVars, Over
  <2> QED BY <2>1, <2>2
<1>2. CASE LookAtFlag
  <2>1. /\ reader = "looked" /\ pipeQueue = <<>>
        /\ UNCHANGED <<writer, pipeQueue, writerClosed, readerClosed, called, clientGone,
                       sent, received>>
    BY <1>2 DEF LookAtFlag, FoundEmpty
  <2>2. CASE writerClosed
    <3>1. reader' = "eof"
      BY <1>2, <2>2 DEF LookAtFlag
    <3>2. PipeTypeOK'
      BY <2>1, <3>1 DEF PipeTypeOK
    <3>3. Held' /\ FoundEmpty' /\ EndSeen'
      BY <2>1, <2>2, <3>1 DEF Held, FoundEmpty, EndSeen
    <3>4. received = sent
      BY <2>1 DEF Held, PipeTypeOK
    <3>5. Over = "no" /\ Over' = "eof"
      BY <2>1, <3>1 DEF Over, PipeTypeOK
    <3>6. Promised!EndOfStream
      BY <2>1, <2>2, <3>4, <3>5 DEF Promised!EndOfStream
    <3> QED BY <3>2, <3>3, <3>6 DEF Promised!StreamNext
  <2>3. CASE ~writerClosed
    <3>1. reader' = "open"
      BY <1>2, <2>3 DEF LookAtFlag
    <3>2. PipeTypeOK'
      BY <2>1, <3>1 DEF PipeTypeOK
    <3> QED BY <2>1, <3>1, <3>2 DEF Held, FoundEmpty, EndSeen, Promised!streamVars, Over
  <2> QED BY <2>2, <2>3
<1>3. CASE LookAtClient
  <2>1. /\ reader = "open"
        /\ UNCHANGED <<writer, pipeQueue, writerClosed, called, clientGone, sent, received>>
    BY <1>3 DEF LookAtClient
  <2>2. CASE clientGone
    <3>1. reader' = "stopped" /\ readerClosed' = TRUE
      BY <1>3, <2>2 DEF LookAtClient
    <3>2. PipeTypeOK'
      BY <2>1, <3>1 DEF PipeTypeOK
    <3>3. Held' /\ FoundEmpty' /\ EndSeen'
      BY <2>1, <3>1 DEF Held, FoundEmpty, EndSeen
    <3>4. Over = "no" /\ Over' = "broken"
      BY <2>1, <3>1 DEF Over, PipeTypeOK
    <3>5. Promised!Break
      BY <2>1, <3>4 DEF Promised!Break
    <3> QED BY <3>2, <3>3, <3>5 DEF Promised!StreamNext
  <2>3. CASE ~clientGone
    <3>1. reader' = "wait" /\ readerClosed' = readerClosed
      BY <1>3, <2>3 DEF LookAtClient, PipeTypeOK
    <3>2. PipeTypeOK'
      BY <2>1, <3>1 DEF PipeTypeOK
    <3> QED BY <2>1, <3>1, <3>2 DEF Held, FoundEmpty, EndSeen, Promised!streamVars, Over
  <2> QED BY <2>2, <2>3
<1>4. CASE Wake
  <2>1. /\ reader = "wait" /\ reader' = "read" /\ called' = FALSE
        /\ UNCHANGED <<writer, pipeQueue, writerClosed, readerClosed, clientGone, sent, received>>
    BY <1>4 DEF Wake
  <2>2. PipeTypeOK'
    BY <2>1 DEF PipeTypeOK
  <2> QED BY <2>1, <2>2 DEF Held, FoundEmpty, EndSeen, Promised!streamVars, Over
<1>5. CASE Cleanup
  <2>1. /\ reader \in {"read", "eof", "stopped"}
        /\ reader' = IF reader = "eof" THEN "finished" ELSE "left"
        /\ readerClosed' = TRUE /\ writerClosed' = TRUE
        /\ UNCHANGED <<writer, pipeQueue, called, clientGone, sent, received>>
    BY <1>5 DEF Cleanup
  <2>2. PipeTypeOK'
    BY <2>1 DEF PipeTypeOK
  <2>3. Held' /\ FoundEmpty' /\ EndSeen'
    BY <2>1 DEF Held, FoundEmpty, EndSeen
  <2>4. CASE reader = "read"
    <3>1. Over = "no" /\ Over' = "broken"
      BY <2>1, <2>4 DEF Over, PipeTypeOK
    <3>2. Promised!Break
      BY <2>1, <3>1 DEF Promised!Break
    <3> QED BY <2>2, <2>3, <3>2 DEF Promised!StreamNext
  <2>5. CASE reader = "eof"
    <3>1. Over = "eof" /\ Over' = "eof" /\ writerClosed
      BY <2>1, <2>5 DEF Over, EndSeen
    <3> QED BY <2>1, <2>2, <2>3, <3>1 DEF Promised!streamVars, PipeTypeOK
  <2>6. CASE reader = "stopped"
    <3>1. Over = "broken" /\ Over' = "broken"
      BY <2>1, <2>6 DEF Over, PipeTypeOK
    <3>2. Promised!CloseStream
      BY <2>1, <3>1 DEF Promised!CloseStream
    <3> QED BY <2>2, <2>3, <3>2 DEF Promised!StreamNext
  <2> QED BY <2>1, <2>4, <2>5, <2>6
<1>6. CASE ClientLeaves
  <2>1. /\ clientGone' = TRUE
        /\ UNCHANGED <<writer, reader, pipeQueue, writerClosed, readerClosed, called, sent, received>>
    BY <1>6 DEF ClientLeaves
  <2>2. PipeTypeOK'
    BY <2>1 DEF PipeTypeOK
  <2> QED BY <2>1, <2>2 DEF Held, FoundEmpty, EndSeen, Promised!streamVars, Over
<1> QED BY <1>1, <1>2, <1>3, <1>4, <1>5, <1>6 DEF ReadStep

\* Every step of the pipe is a step of the stream, or none.
THEOREM PipeCorrect == PipeSpec => []PipeInv
<1>1. PipeInv /\ [PipeNext]_pipeVars => PipeInv'
  <2> SUFFICES ASSUME PipeInv, [PipeNext]_pipeVars PROVE PipeInv'
    OBVIOUS
  <2>1. CASE UNCHANGED pipeVars
    BY <2>1 DEF pipeVars, PipeInv, PipeTypeOK, Held, FoundEmpty, EndSeen
  <2>2. CASE PipeNext
    BY <2>2, WriterKeeps, ReaderKeeps DEF PipeNext
  <2> QED BY <2>1, <2>2
<1> QED BY PipeStart, <1>1, PTL DEF PipeSpec

\* The pipe implements a stream: nothing is lost, doubled or reordered, and an end
\* of file comes after all that was written.
THEOREM PipeStreams == PipeSpec => PipeIsStream
<1>1. PipeInv /\ [PipeNext]_pipeVars => [Promised!StreamNext]_(Promised!streamVars)
  <2> SUFFICES ASSUME PipeInv, [PipeNext]_pipeVars
               PROVE  [Promised!StreamNext]_(Promised!streamVars)
    OBVIOUS
  <2>1. CASE UNCHANGED pipeVars
    BY <2>1 DEF pipeVars, Promised!streamVars, Over
  <2>2. CASE PipeNext
    BY <2>2, WriterKeeps, ReaderKeeps DEF PipeNext
  <2> QED BY <2>1, <2>2
<1> QED BY PipeStart, PipeCorrect, <1>1, PTL DEF PipeSpec, PipeIsStream, Promised!StreamSpec

-----------------------------------------------------------------------------
(***************************************************************************)
(* The reasoning budget is kept, for every budget, generation prompt,      *)
(* message and vocabulary, when the tags are such that a matcher with one  *)
(* position is exact.                                                      *)
(***************************************************************************)

\* The end tag does not repeat its first token, and has none that is incomplete.
SimpleEndTag ==
  /\ \A k \in 2..Len(EndTag) : EndTag[k] # EndTag[1]
  /\ \A k \in 1..Len(EndTag) : EndTag[k] \notin Incomplete

\* b ends with the first k tokens of the tag.
EndsWith(b, tag, k) == k <= Len(b) /\ \A j \in 1..k : b[Len(b) - k + j] = tag[j]

\* pos is the longest proper part of the tag that b ends with.
Longest(b, tag, pos) ==
  /\ EndsWith(b, tag, pos)
  /\ \A k \in pos + 1..Len(tag) - 1 : ~EndsWith(b, tag, k)

DataTypes ==
  /\ budget \in Nat /\ remaining \in Int /\ swallowed \in Nat
  /\ prefill \in Seq(Tokens) /\ block \in Seq(Tokens)

\* The matcher is exact as long as it is used, and starts from nothing.
EndKnown ==
  IF rbState \in {"COUNTING", "WAITING_UTF8"} THEN Longest(block, EndTag, endPos) ELSE endPos = 0

\* b ends with the first f forced tokens, but for the first w of them.
HasForced(b, w, f) == \A k \in w + 1..f : b[Len(b) - f + k] = Forced[k]

\* What has been forced so far, but for the tokens of the generation prompt.
ForcedSoFar ==
  rbState = "FORCING" =>
    /\ swallowed <= forcePos /\ forcePos < Len(Forced) /\ forcePos <= Len(block)
    /\ prefill # <<>> => swallowed = forcePos
    /\ HasForced(block, swallowed, forcePos)

\* A character is completed only behind the budget.
LongEnough == rbState = "WAITING_UTF8" => Len(block) >= budget /\ budget > 0

BudgetInv == DataTypes /\ BudgetTypeOK /\ BudgetExact /\ EndKnown /\ ForcedSoFar /\ LongEnough

-----------------------------------------------------------------------------
(* The matcher.                                                             *)

LEMMA AdvanceRange ==
  ASSUME NEW tag \in Seq(Tokens), tag # <<>>, NEW pos \in 0..Len(tag) - 1, NEW tok
  PROVE  /\ Advance(tag, pos, tok) \in 0..Len(tag) - 1
         /\ tok = tag[pos + 1] /\ pos < Len(tag) - 1 => Advance(tag, pos, tok) = pos + 1
         /\ tok = tag[pos + 1] /\ pos = Len(tag) - 1 => Advance(tag, pos, tok) = 0
<1>1. Len(tag) \in Nat \ {0}
  OBVIOUS
<1>2. pos < Len(tag) - 1 => (pos + 1) % Len(tag) = pos + 1
  BY <1>1
<1>3. pos = Len(tag) - 1 => (pos + 1) % Len(tag) = 0
  BY <1>1
<1> QED BY <1>1, <1>2, <1>3 DEF Advance

LEMMA Shrinks ==
  ASSUME NEW b \in Seq(Tokens), NEW tag \in Seq(Tokens), NEW tok \in Tokens,
         NEW k \in 1..Len(tag)
  PROVE  EndsWith(Append(b, tok), tag, k) <=> EndsWith(b, tag, k - 1) /\ tok = tag[k]
<1> DEFINE a == Append(b, tok)
<1>1. Len(a) = Len(b) + 1 /\ a[Len(b) + 1] = tok /\ \A i \in 1..Len(b) : a[i] = b[i]
  OBVIOUS
<1> HIDE DEF a
<1>2. ASSUME EndsWith(a, tag, k) PROVE EndsWith(b, tag, k - 1) /\ tok = tag[k]
  <2>0. k <= Len(a) /\ \A j \in 1..k : a[Len(a) - k + j] = tag[j]
    BY <1>2 DEF EndsWith
  <2>1. k - 1 <= Len(b) /\ \A j \in 1..k : a[Len(b) + 1 - k + j] = tag[j]
    BY <1>1, <2>0
  <2>2. tok = tag[k]
    BY <1>1, <2>1
  <2>3. ASSUME NEW j \in 1..k - 1 PROVE b[Len(b) - (k - 1) + j] = tag[j]
    <3>1. Len(b) - (k - 1) + j \in 1..Len(b)
      BY <2>1
    <3>2. a[Len(b) + 1 - k + j] = tag[j]
      BY <2>1
    <3> QED BY <1>1, <3>1, <3>2
  <2> QED BY <2>1, <2>2, <2>3 DEF EndsWith
<1>3. ASSUME EndsWith(b, tag, k - 1), tok = tag[k] PROVE EndsWith(a, tag, k)
  <2>1. k - 1 <= Len(b) /\ \A j \in 1..k - 1 : b[Len(b) - (k - 1) + j] = tag[j]
    BY <1>3 DEF EndsWith
  <2>2. ASSUME NEW j \in 1..k PROVE a[Len(a) - k + j] = tag[j]
    <3>1. CASE j = k
      BY <1>1, <1>3, <3>1
    <3>2. CASE j # k
      <4>1. Len(b) - (k - 1) + j \in 1..Len(b) /\ j \in 1..k - 1
        BY <2>1, <3>2
      <4>2. a[Len(b) - (k - 1) + j] = b[Len(b) - (k - 1) + j]
        BY <1>1, <4>1
      <4>3. Len(a) - k + j = Len(b) - (k - 1) + j
        BY <1>1
      <4> QED BY <2>1, <4>1, <4>2, <4>3
    <3> QED BY <3>1, <3>2
  <2>3. k <= Len(a)
    BY <1>1, <2>1
  <2> QED BY <2>2, <2>3 DEF EndsWith
<1> QED BY <1>2, <1>3 DEF a

LEMMA SuffixIs ==
  ASSUME NEW s \in Seq(Tokens), NEW t \in Seq(Tokens)
  PROVE  IsSuffix(s, t) <=> EndsWith(t, s, Len(s))
<1> DEFINE n == Len(s)
<1> DEFINE m == Len(t)
<1>1. Reverse(s) \in Seq(Tokens) /\ Len(Reverse(s)) = n
        /\ \A i \in 1..n : Reverse(s)[i] = s[n - i + 1]
  BY DEF Reverse
<1>2. Reverse(t) \in Seq(Tokens) /\ Len(Reverse(t)) = m
        /\ \A i \in 1..m : Reverse(t)[i] = t[m - i + 1]
  BY DEF Reverse
<1>3. ASSUME n <= m
      PROVE  SubSeq(Reverse(s), 1, n) = SubSeq(Reverse(t), 1, n)
               <=> \A i \in 1..n : s[n - i + 1] = t[m - i + 1]
  <2>1. SubSeq(Reverse(s), 1, n) = [i \in 1..n |-> s[n - i + 1]]
    BY <1>1
  <2>2. SubSeq(Reverse(t), 1, n) = [i \in 1..n |-> t[m - i + 1]]
    BY <1>2, <1>3
  <2> QED BY <2>1, <2>2
<1>4. (\A i \in 1..n : s[n - i + 1] = t[m - i + 1]) <=> \A j \in 1..n : t[m - n + j] = s[j]
  <2>1. ASSUME \A i \in 1..n : s[n - i + 1] = t[m - i + 1], NEW j \in 1..n
        PROVE  t[m - n + j] = s[j]
    <3>1. n - j + 1 \in 1..n /\ n - (n - j + 1) + 1 = j /\ m - (n - j + 1) + 1 = m - n + j
      OBVIOUS
    <3> QED BY <2>1, <3>1
  <2>2. ASSUME \A j \in 1..n : t[m - n + j] = s[j], NEW i \in 1..n
        PROVE  s[n - i + 1] = t[m - i + 1]
    <3>1. n - i + 1 \in 1..n /\ m - n + (n - i + 1) = m - i + 1
      OBVIOUS
    <3> QED BY <2>2, <3>1
  <2> QED BY <2>1, <2>2
<1> QED BY <1>1, <1>2, <1>3, <1>4 DEF IsSuffix, IsPrefix, EndsWith

\* A token that does not complete the tag: the position stays the longest.
LEMMA AdvanceExact ==
  ASSUME NEW b \in Seq(Tokens), NEW tag \in Seq(Tokens), tag # <<>>, NEW tok \in Tokens,
         \A k \in 2..Len(tag) : tag[k] # tag[1],
         NEW pos \in 0..Len(tag) - 1, Longest(b, tag, pos), ~Matched(tag, pos, tok)
  PROVE  /\ Longest(Append(b, tok), tag, Advance(tag, pos, tok))
         /\ ~EndsWith(Append(b, tok), tag, Len(tag))
<1> DEFINE a == Append(b, tok)
<1> DEFINE new == Advance(tag, pos, tok)
<1>0. Len(tag) \in Nat \ {0} /\ new \in 0..Len(tag) - 1
  BY AdvanceRange
\* A match of more than one token goes on from the position.
<1>1. ASSUME NEW k \in 2..Len(tag), EndsWith(a, tag, k)
      PROVE  k = pos + 1 /\ tok = tag[k]
  <2>1. EndsWith(b, tag, k - 1) /\ tok = tag[k]
    BY <1>1, Shrinks
  <2>2. k - 1 <= pos
    BY <2>1 DEF Longest
  <2>3. ASSUME k - 1 < pos PROVE FALSE
    <3>1. b[Len(b) - (k - 1) + 1] = tag[1]
      BY <2>1 DEF EndsWith
    <3>2. b[Len(b) - pos + (pos - (k - 1) + 1)] = tag[pos - (k - 1) + 1]
      BY <2>3 DEF EndsWith, Longest
    <3>3. Len(b) - pos + (pos - (k - 1) + 1) = Len(b) - (k - 1) + 1
      OBVIOUS
    <3>4. pos - (k - 1) + 1 \in 2..Len(tag)
      BY <2>3
    <3> QED BY <3>1, <3>2, <3>3, <3>4
  <2> QED BY <2>1, <2>2, <2>3
<1>2. EndsWith(a, tag, 1) <=> tok = tag[1]
  <2>1. EndsWith(b, tag, 0)
    BY DEF EndsWith
  <2> QED BY <1>0, <2>1, Shrinks
<1>3. ~EndsWith(a, tag, Len(tag))
  BY <1>0, <1>1, <1>2 DEF Matched, Last
<1>4. CASE tok = tag[pos + 1]
  <2>1. pos < Len(tag) - 1 /\ new = pos + 1
    BY <1>4, AdvanceRange DEF Matched, Last
  <2>2. EndsWith(a, tag, pos + 1)
    BY <1>4, Shrinks DEF Longest
  <2> QED BY <1>0, <1>1, <1>3, <2>1, <2>2 DEF Longest
<1>5. CASE tok # tag[pos + 1] /\ tok = tag[1]
  <2>1. new = 1
    BY <1>5 DEF Advance
  <2> QED BY <1>0, <1>1, <1>2, <1>3, <1>5, <2>1 DEF Longest
<1>6. CASE tok # tag[pos + 1] /\ tok # tag[1]
  <2>1. new = 0
    BY <1>6 DEF Advance
  <2>2. EndsWith(a, tag, 0)
    BY DEF EndsWith
  <2>3. \A k \in 1..Len(tag) - 1 : ~EndsWith(a, tag, k)
    BY <1>1, <1>2, <1>6
  <2> QED BY <1>0, <1>3, <2>1, <2>2, <2>3 DEF Longest
<1> QED BY <1>4, <1>5, <1>6

\* A token that is not in the tag at all.
LEMMA ForeignToken ==
  ASSUME NEW b \in Seq(Tokens), NEW tag \in Seq(Tokens), NEW tok \in Tokens,
         \A k \in 1..Len(tag) : tag[k] # tok
  PROVE  Longest(Append(b, tok), tag, 0)
BY Shrinks DEF Longest, EndsWith

-----------------------------------------------------------------------------
(* The steps.                                                               *)

LEMMA BudgetStart == BudgetInit => BudgetInv
<1> SUFFICES ASSUME BudgetInit PROVE BudgetInv
  OBVIOUS
<1>1. DataTypes
  <2>1. <<>> \in Seq(Tokens)
    OBVIOUS
  <2> QED BY <2>1, BudgetAssumption DEF BudgetInit, DataTypes
<1>2. BudgetTypeOK
  BY BudgetAssumption DEF BudgetInit, BudgetTypeOK
<1> QED BY <1>1, <1>2 DEF BudgetInit, BudgetInv, BudgetExact, EndKnown, ForcedSoFar, LongEnough

\* What AcceptPrefill and Generate have in common with respect to a token.
TokenComes(tok) ==
  /\ tok \in Tokens
  /\ Accept(tok)
  /\ budget' = budget /\ prefill' \in Seq(Tokens)
  /\ IF rbState # "FORCING" THEN swallowed' = 0
     ELSE \/ prefill # <<>> /\ swallowed' = swallowed + 1
          \/ prefill' = <<>> /\ swallowed' = swallowed /\ tok = Forced[forcePos + 1]

LEMMA StepTakesToken ==
  ASSUME BudgetInv, BudgetNext PROVE \E tok : TokenComes(tok)
<1>1. CASE AcceptPrefill
  <2>1. Head(prefill) \in Tokens /\ Tail(prefill) \in Seq(Tokens)
    BY <1>1 DEF BudgetInv, DataTypes, AcceptPrefill
  <2>2. TokenComes(Head(prefill))
    BY <1>1, <2>1 DEF AcceptPrefill, TokenComes
  <2> QED BY <2>2
<1>2. CASE Generate
  <2>1. PICK tok \in Allowed : Accept(tok)
    BY <1>2 DEF Generate
  <2>2. tok \in Tokens /\ (rbState = "FORCING" => tok = Forced[forcePos + 1])
    BY <2>1, BudgetAssumption DEF Allowed, BudgetInv, DataTypes, ForcedSoFar, BudgetTypeOK
  <2>3. TokenComes(tok)
    BY <1>2, <2>1, <2>2 DEF Generate, TokenComes, BudgetInv, DataTypes
  <2> QED BY <2>3
<1> QED BY <1>1, <1>2 DEF BudgetNext

LEMMA Appended ==
  ASSUME NEW b \in Seq(Tokens), NEW tok \in Tokens
  PROVE  /\ Append(b, tok) \in Seq(Tokens) /\ Len(Append(b, tok)) = Len(b) + 1
         /\ Append(b, tok) # b
         /\ Append(b, tok)[Len(b) + 1] = tok
         /\ \A k \in 1..Len(b) : Append(b, tok)[k] = b[k]
OBVIOUS

\* The invariant of a state in which no block is being counted or forced.
LEMMA Quiet ==
  ASSUME DataTypes', rbState' \in {"IDLE", "DONE"}, endPos' = 0,
         startPos' \in 0..Len(StartTag) - 1, forcePos' \in 0..Len(Forced)
  PROVE  BudgetInv'
BY BudgetAssumption
   DEF BudgetInv, BudgetTypeOK, BudgetExact, EndKnown, ForcedSoFar, LongEnough

\* Forcing begins: the block is as long as the budget, or ends a character.
LEMMA ForcingBegins ==
  ASSUME DataTypes', rbState' = "FORCING", endPos' = 0, forcePos' = 0, swallowed' = 0,
         startPos' \in 0..Len(StartTag) - 1, remaining' = 0,
         Len(block') >= budget',
         \A k \in budget'..Len(block') - 1 : k > 0 => block'[k] \in Incomplete
  PROVE  BudgetInv'
<1>1. Len(EndTag) \in Nat \ {0} /\ Len(Forced) \in Nat \ {0} /\ Len(block') \in Nat
  BY BudgetAssumption DEF DataTypes
<1>2. BudgetExact'
  BY <1>1 DEF BudgetExact, DataTypes
<1>3. BudgetTypeOK'
  BY <1>1 DEF BudgetTypeOK
<1>4. ForcedSoFar' /\ EndKnown' /\ LongEnough'
  <2>1. HasForced(block', swallowed', forcePos')
    BY DEF HasForced
  <2> QED BY <1>1, <2>1 DEF ForcedSoFar, EndKnown, LongEnough
<1> QED BY <1>2, <1>3, <1>4 DEF BudgetInv

LEMMA OutsideKeeps ==
  ASSUME BudgetInv, NEW tok, TokenComes(tok), Outside(tok) PROVE BudgetInv'
<1> USE DEF BudgetInv
<1>1. startPos' \in 0..Len(StartTag) - 1
  BY AdvanceRange, BudgetAssumption DEF Outside, BudgetTypeOK
<1>2. endPos = 0 /\ budget \in Nat /\ swallowed' = 0 /\ rbState \in {"IDLE", "DONE"}
        /\ forcePos \in 0..Len(Forced)
  BY DEF Outside, EndKnown, DataTypes, TokenComes, BudgetTypeOK
<1>3. CASE ~Matched(StartTag, startPos, tok)
  <2>1. UNCHANGED <<remaining, rbState, forcePos, endPos, block>>
    BY <1>3 DEF Outside
  <2>2. DataTypes'
    BY <1>2, <2>1 DEF DataTypes, TokenComes
  <2> QED BY <1>1, <1>2, <2>1, <2>2, Quiet
<1>4. CASE Matched(StartTag, startPos, tok)
  <2>0. Arm
    BY <1>4 DEF Outside
  <2>1. endPos' = 0 /\ remaining' = budget /\ block' = <<>> /\ Len(block') = 0
    BY <1>2, <2>0 DEF Arm
  <2>2. DataTypes'
    BY <1>2, <2>1 DEF DataTypes, TokenComes
  <2>3. CASE budget = 0
    <3>1. rbState' = "FORCING" /\ forcePos' = 0 /\ remaining' = 0 /\ budget' = 0
      BY <2>0, <2>1, <2>3 DEF Arm, TokenComes
    <3>2. Len(block') >= budget'
            /\ \A k \in budget'..Len(block') - 1 : k > 0 => block'[k] \in Incomplete
      BY <2>1, <3>1
    <3> QED BY <1>1, <1>2, <2>1, <2>2, <3>1, <3>2, ForcingBegins
  <2>4. CASE budget # 0
    <3>1. rbState' = "COUNTING" /\ forcePos' = forcePos /\ budget' = budget
      BY <1>2, <2>0, <2>4 DEF Arm, TokenComes
    <3>2. BudgetTypeOK'
      BY <1>1, <1>2, <2>1, <2>4, <3>1, BudgetAssumption DEF BudgetTypeOK
    <3>3. EndKnown'
      BY <2>1, <3>1 DEF EndKnown, Longest, EndsWith
    <3>4. BudgetExact' /\ ForcedSoFar' /\ LongEnough'
      BY <1>2, <2>1, <3>1 DEF BudgetExact, ForcedSoFar, LongEnough
    <3> QED BY <2>2, <3>2, <3>3, <3>4
  <2> QED BY <2>3, <2>4, <1>2
<1> QED BY <1>3, <1>4

\* A token of a block that is counted: what all its cases have in common.
LEMMA InBlock ==
  ASSUME SimpleEndTag, BudgetInv, NEW tok, TokenComes(tok),
         rbState \in {"COUNTING", "WAITING_UTF8"}, block' = Append(block, tok)
  PROVE  /\ block' # block /\ block' \in Seq(Tokens) /\ Len(block') = Len(block) + 1
         /\ block'[Len(block) + 1] = tok
         /\ \A k \in 1..Len(block) : block'[k] = block[k]
         /\ IsSuffix(EndTag, block') <=> Matched(EndTag, endPos, tok)
         /\ ~Matched(EndTag, endPos, tok) =>
              Longest(block', EndTag, Advance(EndTag, endPos, tok))
         /\ tok \in Incomplete => Longest(block', EndTag, 0)
<1> USE DEF BudgetInv
<1>1. block \in Seq(Tokens) /\ tok \in Tokens /\ EndTag \in Seq(Tokens) /\ EndTag # <<>>
  BY BudgetAssumption DEF DataTypes, TokenComes
<1>2. endPos \in 0..Len(EndTag) - 1 /\ Longest(block, EndTag, endPos)
  BY DEF BudgetTypeOK, EndKnown
<1>3. IsSuffix(EndTag, block') <=> EndsWith(block', EndTag, Len(EndTag))
  BY <1>1, SuffixIs, Appended
<1>4. ~Matched(EndTag, endPos, tok) =>
        /\ Longest(block', EndTag, Advance(EndTag, endPos, tok))
        /\ ~EndsWith(block', EndTag, Len(EndTag))
  BY <1>1, <1>2, AdvanceExact DEF SimpleEndTag
<1>5. Matched(EndTag, endPos, tok) => EndsWith(block', EndTag, Len(EndTag))
  <2>1. Matched(EndTag, endPos, tok) =>
          EndsWith(block, EndTag, Len(EndTag) - 1) /\ tok = EndTag[Len(EndTag)]
    BY <1>2 DEF Matched, Last, Longest
  <2>2. Len(EndTag) \in 1..Len(EndTag)
    BY <1>1
  <2> QED BY <1>1, <2>1, <2>2, Shrinks
<1>6. tok \in Incomplete => Longest(block', EndTag, 0)
  BY <1>1, ForeignToken DEF SimpleEndTag
<1>7. /\ block' # block /\ block' \in Seq(Tokens) /\ Len(block') = Len(block) + 1
      /\ block'[Len(block) + 1] = tok
      /\ \A k \in 1..Len(block) : block'[k] = block[k]
  BY <1>1, Appended
<1> QED BY <1>3, <1>4, <1>5, <1>6, <1>7

\* The tokens of a block, and the property of its natural end.
NaturalStep ==
  (rbState \in {"COUNTING", "WAITING_UTF8"} /\ block' # block)
    => (rbState' = "DONE" <=> IsSuffix(EndTag, block'))

LEMMA NaturalEndKeeps ==
  ASSUME SimpleEndTag, BudgetInv, NEW tok, TokenComes(tok), NaturalEnd(tok)
  PROVE  BudgetInv' /\ NaturalStep
<1> USE DEF BudgetInv
<1>1. rbState \in {"COUNTING", "WAITING_UTF8"} /\ block' = Append(block, tok)
        /\ rbState' = "DONE" /\ Matched(EndTag, endPos, tok) /\ endPos' = 0
        /\ UNCHANGED <<startPos, remaining, forcePos>>
  BY DEF NaturalEnd
<1>2. block' \in Seq(Tokens) /\ IsSuffix(EndTag, block')
  BY <1>1, InBlock
<1>3. DataTypes'
  BY <1>1, <1>2 DEF DataTypes, TokenComes
<1>4. BudgetInv'
  <2>1. startPos' \in 0..Len(StartTag) - 1 /\ forcePos' \in 0..Len(Forced)
    BY <1>1 DEF BudgetTypeOK
  <2> QED BY <1>1, <1>3, <2>1, Quiet
<1> QED BY <1>1, <1>2, <1>4 DEF NaturalStep

LEMMA CountKeeps ==
  ASSUME SimpleEndTag, BudgetInv, NEW tok, TokenComes(tok), Count(tok)
  PROVE  BudgetInv' /\ NaturalStep
<1> USE DEF BudgetInv
<1>1. rbState = "COUNTING" /\ block' = Append(block, tok) /\ ~Matched(EndTag, endPos, tok)
        /\ remaining' = remaining - 1 /\ startPos' = startPos /\ budget' = budget
        /\ swallowed' = 0
  BY DEF Count, TokenComes
<1>2. /\ block' \in Seq(Tokens) /\ Len(block') = Len(block) + 1
      /\ block'[Len(block) + 1] = tok
      /\ ~IsSuffix(EndTag, block')
      /\ Longest(block', EndTag, Advance(EndTag, endPos, tok))
      /\ tok \in Incomplete => Longest(block', EndTag, 0)
  BY <1>1, InBlock
<1>3. remaining \in 1..budget /\ Len(block) + remaining = budget /\ Len(block) \in Nat
        /\ budget \in Nat /\ startPos \in 0..Len(StartTag) - 1 /\ forcePos \in 0..Len(Forced)
  BY <1>1 DEF DataTypes, BudgetTypeOK, BudgetExact
<1>4. DataTypes'
  BY <1>1, <1>2, <1>3 DEF DataTypes, TokenComes
<1>5. CASE LastOfBudget /\ tok \notin Incomplete /\ BeginForcing
  <2>1. rbState' = "FORCING" /\ forcePos' = 0 /\ endPos' = 0 /\ remaining' = 0
          /\ Len(block') = budget'
    BY <1>1, <1>2, <1>3, <1>5 DEF BeginForcing, LastOfBudget
  <2>2. Len(block') >= budget'
          /\ \A k \in budget'..Len(block') - 1 : k > 0 => block'[k] \in Incomplete
    BY <1>1, <1>3, <2>1
  <2>3. BudgetInv'
    BY <1>1, <1>3, <1>4, <2>1, <2>2, ForcingBegins
  <2> QED BY <1>2, <2>1, <2>3 DEF NaturalStep
<1>6. CASE /\ LastOfBudget /\ tok \in Incomplete /\ rbState' = "WAITING_UTF8" /\ endPos' = 0
           /\ forcePos' = forcePos
  <2>1. remaining' = 0 /\ Len(block') = budget'
    BY <1>1, <1>2, <1>3, <1>6 DEF LastOfBudget
  <2>2. BudgetTypeOK'
    BY <1>1, <1>3, <1>6, <2>1, BudgetAssumption DEF BudgetTypeOK
  <2>3. BudgetExact'
    BY <1>1, <1>2, <1>3, <1>6, <2>1 DEF BudgetExact
  <2>4. EndKnown' /\ ForcedSoFar' /\ LongEnough'
    BY <1>2, <1>3, <1>6, <2>1 DEF EndKnown, ForcedSoFar, LongEnough
  <2> QED BY <1>2, <1>4, <1>6, <2>2, <2>3, <2>4 DEF NaturalStep
<1>7. CASE ~LastOfBudget /\ endPos' = Advance(EndTag, endPos, tok)
             /\ UNCHANGED <<rbState, forcePos>>
  <2>1. remaining' \in 1..budget' /\ Len(block') + remaining' = budget'
    BY <1>1, <1>2, <1>3, <1>7 DEF LastOfBudget
  <2>2. endPos' \in 0..Len(EndTag) - 1
    BY <1>7, AdvanceRange, BudgetAssumption DEF BudgetTypeOK
  <2>3. BudgetTypeOK'
    BY <1>1, <1>3, <1>7, <2>1, <2>2 DEF BudgetTypeOK
  <2>4. BudgetExact' /\ EndKnown' /\ ForcedSoFar' /\ LongEnough'
    BY <1>1, <1>2, <1>7, <2>1 DEF BudgetExact, EndKnown, ForcedSoFar, LongEnough
  <2> QED BY <1>1, <1>2, <1>4, <1>7, <2>3, <2>4 DEF NaturalStep
<1> QED BY <1>5, <1>6, <1>7 DEF Count

LEMMA WaitKeeps ==
  ASSUME SimpleEndTag, BudgetInv, NEW tok, TokenComes(tok), WaitUtf8(tok)
  PROVE  BudgetInv' /\ NaturalStep
<1> USE DEF BudgetInv
<1>1. rbState = "WAITING_UTF8" /\ block' = Append(block, tok) /\ ~Matched(EndTag, endPos, tok)
        /\ UNCHANGED <<startPos, remaining, budget>> /\ swallowed' = 0
  BY DEF WaitUtf8, TokenComes
<1>2. /\ block' \in Seq(Tokens) /\ Len(block') = Len(block) + 1
      /\ block'[Len(block) + 1] = tok
      /\ \A k \in 1..Len(block) : block'[k] = block[k]
      /\ ~IsSuffix(EndTag, block')
      /\ Longest(block', EndTag, Advance(EndTag, endPos, tok))
  BY <1>1, InBlock
<1>3. remaining = 0 /\ Len(block) \in Nat /\ budget \in Nat /\ remaining' = 0
        /\ startPos \in 0..Len(StartTag) - 1 /\ forcePos \in 0..Len(Forced)
        /\ Len(block) >= budget /\ budget > 0
        /\ \A k \in budget..Len(block) : block[k] \in Incomplete
  BY <1>1 DEF DataTypes, BudgetTypeOK, BudgetExact, LongEnough
<1>4. DataTypes'
  BY <1>1, <1>2, <1>3 DEF DataTypes, TokenComes
<1>5. CASE tok \notin Incomplete /\ BeginForcing
  <2>1. rbState' = "FORCING" /\ forcePos' = 0 /\ endPos' = 0
    BY <1>5 DEF BeginForcing
  <2>2. \A k \in budget'..Len(block') - 1 : k > 0 => block'[k] \in Incomplete
    BY <1>1, <1>2, <1>3
  <2>3. Len(block') >= budget'
    BY <1>1, <1>2, <1>3
  <2>4. BudgetInv'
    BY <1>1, <1>3, <1>4, <2>1, <2>2, <2>3, ForcingBegins
  <2> QED BY <1>2, <2>1, <2>4 DEF NaturalStep
<1>6. CASE tok \in Incomplete /\ endPos' = Advance(EndTag, endPos, tok)
             /\ UNCHANGED <<rbState, forcePos>>
  <2>1. endPos' \in 0..Len(EndTag) - 1
    BY <1>6, AdvanceRange, BudgetAssumption DEF BudgetTypeOK
  <2>2. BudgetTypeOK'
    BY <1>1, <1>3, <1>6, <2>1 DEF BudgetTypeOK
  <2>3. BudgetExact'
    <3>1. ASSUME NEW k \in budget..Len(block') PROVE block'[k] \in Incomplete
      <4>1. k = Len(block) + 1 \/ (k \in budget..Len(block) /\ k \in 1..Len(block))
        BY <1>2, <1>3
      <4> QED BY <1>2, <1>3, <1>6, <4>1
    <3> QED BY <1>1, <1>6, <3>1 DEF BudgetExact
  <2>4. EndKnown' /\ ForcedSoFar' /\ LongEnough'
    BY <1>1, <1>2, <1>3, <1>6 DEF EndKnown, ForcedSoFar, LongEnough
  <2> QED BY <1>1, <1>2, <1>4, <1>6, <2>2, <2>3, <2>4 DEF NaturalStep
<1> QED BY <1>5, <1>6 DEF WaitUtf8

\* While the message is forced; and what the block ends with at the end of it.
ForcedStep ==
  (rbState = "FORCING" /\ rbState' = "DONE")
    => IsSuffix(SubSeq(Forced, swallowed' + 1, Len(Forced)), block')

\* What is left of a sequence behind its first k elements.
LEMMA Remainder ==
  ASSUME NEW f \in Seq(Tokens), NEW k \in 0..Len(f)
  PROVE  /\ SubSeq(f, k + 1, Len(f)) \in Seq(Tokens)
         /\ Len(SubSeq(f, k + 1, Len(f))) = Len(f) - k
         /\ \A j \in 1..Len(SubSeq(f, k + 1, Len(f))) : SubSeq(f, k + 1, Len(f))[j] = f[k + j]
<1> DEFINE s == SubSeq(f, k + 1, Len(f))
<1>1. k + 1 \in Int /\ Len(f) \in Int /\ \A i \in k + 1..Len(f) : f[i] \in Tokens
  OBVIOUS
<1>2. /\ s \in Seq(Tokens)
      /\ Len(s) = IF k + 1 <= Len(f) THEN Len(f) - (k + 1) + 1 ELSE 0
      /\ \A i \in 1..Len(f) - (k + 1) + 1 : s[i] = f[k + 1 + i - 1]
  BY <1>1, SubSeqProperties
<1> HIDE DEF s
<1>3. Len(s) = Len(f) - k
  BY <1>2
<1>4. ASSUME NEW j \in 1..Len(s) PROVE s[j] = f[k + j]
  <2>1. j \in 1..Len(f) - (k + 1) + 1 /\ k + 1 + j - 1 = k + j
    BY <1>3
  <2> QED BY <1>2, <2>1
<1> QED BY <1>2, <1>3, <1>4 DEF s

LEMMA ForcesOne ==
  ASSUME NEW b \in Seq(Tokens), NEW tok \in Tokens, NEW w \in Nat, NEW f \in Nat,
         f <= Len(b), HasForced(b, w, f), tok = Forced[f + 1]
  PROVE  HasForced(Append(b, tok), w, f + 1)
<1> DEFINE a == Append(b, tok)
<1>1. Len(a) = Len(b) + 1 /\ a[Len(b) + 1] = tok /\ \A i \in 1..Len(b) : a[i] = b[i]
  BY Appended
<1> HIDE DEF a
<1>2. ASSUME NEW k \in w + 1..f + 1 PROVE a[Len(a) - (f + 1) + k] = Forced[k]
  <2>1. CASE k = f + 1
    BY <1>1, <2>1
  <2>2. CASE k # f + 1
    <3>1. k \in w + 1..f /\ Len(b) - f + k \in 1..Len(b)
      BY <2>2
    <3>2. b[Len(b) - f + k] = Forced[k]
      BY <3>1 DEF HasForced
    <3>3. Len(a) - (f + 1) + k = Len(b) - f + k
      BY <1>1
    <3> QED BY <1>1, <3>1, <3>2, <3>3
  <2> QED BY <2>1, <2>2
<1> QED BY <1>2 DEF HasForced, a

LEMMA ForcedAll ==
  ASSUME NEW b \in Seq(Tokens), NEW w \in 0..Len(Forced),
         Len(Forced) <= Len(b), HasForced(b, w, Len(Forced))
  PROVE  IsSuffix(SubSeq(Forced, w + 1, Len(Forced)), b)
<1> DEFINE s == SubSeq(Forced, w + 1, Len(Forced))
<1>0. Forced \in Seq(Tokens) /\ Len(Forced) \in Nat /\ Len(b) \in Nat
  BY BudgetAssumption
<1>1. s \in Seq(Tokens) /\ Len(s) = Len(Forced) - w
        /\ \A j \in 1..Len(s) : s[j] = Forced[w + j]
  BY <1>0, Remainder
<1> HIDE DEF s
<1>2. ASSUME NEW j \in 1..Len(s) PROVE b[Len(b) - Len(s) + j] = s[j]
  <2>1. w + j \in w + 1..Len(Forced)
          /\ Len(b) - Len(Forced) + (w + j) = Len(b) - Len(s) + j
    BY <1>0, <1>1
  <2> QED BY <1>1, <2>1 DEF HasForced
<1>3. EndsWith(b, s, Len(s))
  BY <1>0, <1>1, <1>2 DEF EndsWith
<1> QED BY <1>1, <1>3, SuffixIs DEF s

LEMMA ForceKeeps ==
  ASSUME BudgetInv, NEW tok, TokenComes(tok), ForceNext(tok)
  PROVE  BudgetInv' /\ ForcedStep
<1> USE DEF BudgetInv
<1>1. rbState = "FORCING" /\ block' = Append(block, tok) /\ forcePos' = forcePos + 1
        /\ UNCHANGED <<startPos, endPos, remaining, budget>>
        /\ rbState' = IF forcePos' >= Len(Forced) THEN "DONE" ELSE "FORCING"
  BY DEF ForceNext, TokenComes
<1>2. /\ block' \in Seq(Tokens) /\ Len(block') = Len(block) + 1
      /\ \A k \in 1..Len(block) : block'[k] = block[k]
  BY <1>1, Appended DEF DataTypes, TokenComes
<1>3. /\ endPos = 0 /\ remaining = 0 /\ startPos \in 0..Len(StartTag) - 1
      /\ budget \in Nat /\ swallowed \in Nat /\ forcePos \in Nat
      /\ block \in Seq(Tokens) /\ Len(block) \in Nat /\ tok \in Tokens
      /\ swallowed <= forcePos /\ forcePos < Len(Forced) /\ forcePos <= Len(block)
      /\ Len(Forced) \in Nat
  BY <1>1, BudgetAssumption DEF DataTypes, BudgetTypeOK, EndKnown, ForcedSoFar, TokenComes
<1>4. \/ swallowed' = forcePos'
      \/ prefill' = <<>> /\ swallowed' = swallowed /\ tok = Forced[forcePos + 1]
  BY <1>1 DEF TokenComes, ForcedSoFar
<1>5. swallowed' \in Nat /\ swallowed' <= forcePos' /\ forcePos' <= Len(Forced)
        /\ forcePos' <= Len(block')
  BY <1>1, <1>2, <1>3, <1>4
<1>6. DataTypes'
  BY <1>1, <1>2, <1>3, <1>5 DEF DataTypes, TokenComes
<1>7. HasForced(block', swallowed', forcePos')
  <2>1. CASE swallowed' = forcePos'
    <3>1. \A n \in Nat : HasForced(block', n, n)
      BY DEF HasForced
    <3> QED BY <1>5, <2>1, <3>1
  <2>2. CASE swallowed' = swallowed /\ tok = Forced[forcePos + 1]
    <3>1. HasForced(block, swallowed, forcePos)
      BY <1>1 DEF ForcedSoFar
    <3>2. HasForced(block', swallowed, forcePos + 1)
      BY <1>1, <1>3, <2>2, <3>1, ForcesOne
    <3> QED BY <1>1, <2>2, <3>2
  <2> QED BY <1>4, <2>1, <2>2
<1>8. CASE forcePos' < Len(Forced)
  <2>1. rbState' = "FORCING"
    BY <1>1, <1>3, <1>8
  <2>2. ForcedSoFar'
    BY <1>4, <1>5, <1>7, <1>8 DEF ForcedSoFar
  <2>3. BudgetTypeOK'
    BY <1>1, <1>3, <1>5, <2>1, BudgetAssumption DEF BudgetTypeOK
  <2>4. BudgetExact'
    <3>1. Len(block') - forcePos' = Len(block) - forcePos
      BY <1>1, <1>2, <1>3
    <3>2. Len(block) - forcePos >= budget
            /\ \A k \in budget..Len(block) - forcePos - 1 : k > 0 => block[k] \in Incomplete
      BY <1>1 DEF BudgetExact
    <3>3. ASSUME NEW k \in budget..Len(block) - forcePos - 1, k > 0
          PROVE  block'[k] \in Incomplete
      <4>1. k \in 1..Len(block)
        BY <1>3, <3>3
      <4> QED BY <1>2, <3>2, <3>3, <4>1
    <3> QED BY <1>1, <2>1, <3>1, <3>2, <3>3 DEF BudgetExact
  <2>5. EndKnown' /\ LongEnough'
    BY <1>1, <1>3, <2>1 DEF EndKnown, LongEnough
  <2> QED BY <1>6, <2>1, <2>2, <2>3, <2>4, <2>5 DEF ForcedStep
<1>9. CASE forcePos' = Len(Forced)
  <2>1. rbState' = "DONE" /\ endPos' = 0 /\ startPos' \in 0..Len(StartTag) - 1
          /\ forcePos' \in 0..Len(Forced)
    BY <1>1, <1>3, <1>5, <1>9
  <2>2. BudgetInv'
    BY <1>6, <2>1, Quiet
  <2>3. IsSuffix(SubSeq(Forced, swallowed' + 1, Len(Forced)), block')
    <3>1. swallowed' \in 0..Len(Forced) /\ Len(Forced) <= Len(block')
            /\ HasForced(block', swallowed', Len(Forced))
      BY <1>3, <1>5, <1>7, <1>9
    <3> QED BY <1>2, <3>1, ForcedAll
  <2> QED BY <2>2, <2>3 DEF ForcedStep
<1> QED BY <1>1, <1>3, <1>5, <1>8, <1>9

LEMMA StepKeeps ==
  ASSUME SimpleEndTag, BudgetInv, BudgetNext
  PROVE  BudgetInv' /\ ForcedStep /\ NaturalStep
<1>1. PICK tok : TokenComes(tok)
  BY StepTakesToken
<1>2. CASE Outside(tok)
  <2>1. BudgetInv'
    BY <1>1, <1>2, OutsideKeeps
  <2>2. rbState \in {"IDLE", "DONE"}
    BY <1>2 DEF Outside
  <2> QED BY <2>1, <2>2 DEF ForcedStep, NaturalStep
<1>3. CASE NaturalEnd(tok)
  <2>1. rbState # "FORCING"
    BY <1>3 DEF NaturalEnd
  <2> QED BY <1>1, <1>3, <2>1, NaturalEndKeeps DEF ForcedStep
<1>4. CASE Count(tok)
  <2>1. rbState # "FORCING"
    BY <1>4 DEF Count
  <2> QED BY <1>1, <1>4, <2>1, CountKeeps DEF ForcedStep
<1>5. CASE WaitUtf8(tok)
  <2>1. rbState # "FORCING"
    BY <1>5 DEF WaitUtf8
  <2> QED BY <1>1, <1>5, <2>1, WaitKeeps DEF ForcedStep
<1>6. CASE ForceNext(tok)
  <2>1. rbState = "FORCING"
    BY <1>6 DEF ForceNext
  <2> QED BY <1>1, <1>6, <2>1, ForceKeeps DEF NaturalStep
<1> QED BY <1>1, <1>2, <1>3, <1>4, <1>5, <1>6 DEF TokenComes, Accept

-----------------------------------------------------------------------------
\* Whatever the tokens, the budget, the message and the generation prompt are:
\* the matcher's position is the longest part of the end tag that the block ends
\* with, and a block that is being forced ends with what was forced so far
\* (common_reasoning_budget_accept).
THEOREM BudgetCorrect == ASSUME SimpleEndTag PROVE BudgetSpec => []BudgetInv
<1>1. BudgetInv /\ [BudgetNext]_budgetVars => BudgetInv'
  <2>1. CASE UNCHANGED budgetVars
    BY <2>1 DEF budgetVars, BudgetInv, DataTypes, BudgetTypeOK, BudgetExact, EndKnown,
                ForcedSoFar, LongEnough
  <2> QED BY <2>1, StepKeeps
<1> QED BY <1>1, BudgetStart, PTL DEF BudgetSpec

\* A block ends by itself exactly when the end tag has been written, is cut at
\* its budget or at the end of the character there, and then gets all of the
\* message that the generation prompt has not used up
\* (common_reasoning_budget_accept and _apply).
THEOREM BudgetIsKept == ASSUME SimpleEndTag PROVE BudgetSpec => BudgetKept
<1>1. BudgetInv => BudgetExact
  BY DEF BudgetInv
<1>2. BudgetInv /\ [BudgetNext]_budgetVars =>
        [(rbState = "FORCING" /\ rbState' = "DONE")
           => IsSuffix(SubSeq(Forced, swallowed' + 1, Len(Forced)), block')]_budgetVars
  BY StepKeeps DEF ForcedStep
<1>3. BudgetInv /\ [BudgetNext]_budgetVars =>
        [(rbState \in {"COUNTING", "WAITING_UTF8"} /\ block' # block)
           => (rbState' = "DONE" <=> IsSuffix(EndTag, block'))]_budgetVars
  BY StepKeeps DEF NaturalStep
<1> QED BY <1>1, <1>2, <1>3, BudgetCorrect, PTL
        DEF BudgetSpec, BudgetKept, ForcedWhole, NaturalEndExact

-----------------------------------------------------------------------------
(***************************************************************************)
(* Reload, for any number of models, requests and reloads: a reload that   *)
(* overlaps no other never meets a thread that is not joined, and ends     *)
(* with the models of its list.                                            *)
(***************************************************************************)

\* What runs is watched and has a process, and a process had a preset.
Sound(map) ==
  \A n \in Names :
    /\ IsRunning(map, n) => map[n].thread /\ map[n].process
    /\ map[n].process => map[n].preset # NoPreset

\* A reload that overlaps no other keeps the loads out.
Exclusive ==
  ~overlapped => \A r \in Reloaders :
    Under(r) => isReloading /\ \A q \in Reloaders : Under(q) => q = r

\* It unloads all that runs and should not, ...
Unloading ==
  ~overlapped => \A r \in Reloaders :
    reload[r].pc = "unload" =>
      \A n \in Names : IsRunning(mapping, n) /\ reload[r].list[n] # mapping[n].preset
                         => n \in reload[r].targets

\* ... and has then joined the threads of what it will erase.
ThreadsJoined ==
  ~overlapped => \A r \in Reloaders :
    reload[r].pc = "join" =>
      \A n \in Names : /\ reload[r].list[n] = NoPreset => ~mapping[n].thread
                       /\ IsRunning(mapping, n) => mapping[n].preset = reload[r].list[n]

NoAssertion == down = "assert" => overlapped

ReloadInv ==
  ReloadTypeOK /\ Sound(mapping) /\ Exclusive /\ Unloading /\ ThreadsJoined /\ NoAssertion

-----------------------------------------------------------------------------
LEMMA EntryTypes ==
  /\ NoEntry \in ModelEntry /\ DefaultEntry \in ModelEntry
  /\ \A p \in Presets \cup {NoPreset} : Added(p) \in ModelEntry
BY DEF NoEntry, DefaultEntry, Added, Unused, ModelEntry

\* add_model changes the entries of absent models only.
LEMMA AddingKeeps ==
  ASSUME NEW map \in [Names -> ModelEntry], Sound(map), NEW list \in Lists,
         NEW S \in SUBSET New(map, list)
  PROVE  /\ WithAdded(map, list, S) \in [Names -> ModelEntry]
         /\ Sound(WithAdded(map, list, S))
         /\ \A n \in Names :
              /\ WithAdded(map, list, S)[n].thread => map[n].thread
              /\ IsRunning(WithAdded(map, list, S), n)
                   => IsRunning(map, n) /\ WithAdded(map, list, S)[n] = map[n]
<1> DEFINE new == WithAdded(map, list, S)
<1>1. new \in [Names -> ModelEntry]
  BY EntryTypes DEF WithAdded, Lists
<1>2. \A n \in Names : new[n] = map[n] \/ (new[n] = Added(list[n]) /\ list[n] # NoPreset)
  BY DEF WithAdded, New
<1>3. \A p : /\ Added(p).status = "unloaded" /\ Added(p).preset = p
             /\ Added(p).thread = FALSE
  BY DEF Added, Unused
<1>4. \A n \in Names : /\ new[n].thread => map[n].thread
                       /\ IsRunning(new, n) => IsRunning(map, n) /\ new[n] = map[n]
  BY <1>2, <1>3 DEF IsRunning
<1>5. Sound(new)
  BY <1>2, <1>3 DEF Sound, IsRunning
<1> QED BY <1>1, <1>4, <1>5

\* What AddNew does, whichever way it ends.
LEMMA AddNewKeeps ==
  ASSUME ReloadTypeOK, NEW r \in Reloaders, NEW map \in [Names -> ModelEntry],
         Sound(map), AddNew(r, map)
  PROVE  /\ mapping' \in [Names -> ModelEntry] /\ Sound(mapping')
         /\ \A n \in Names :
              /\ mapping'[n].thread => map[n].thread
              /\ IsRunning(mapping', n) => IsRunning(map, n) /\ mapping'[n] = map[n]
         /\ \E pc \in {"done", "failed"} : reload' = [reload EXCEPT ![r].pc = pc]
<1> DEFINE list == reload[r].list
           clashes == {n \in New(map, list) : list[n] \in Clashing}
<1>1. list \in Lists
  BY DEF ReloadTypeOK
<1>2. PICK S \in SUBSET New(map, list) : mapping' = WithAdded(map, list, S)
  <2>1. CASE clashes = {}
    BY <2>1 DEF AddNew
  <2>2. CASE clashes # {}
    BY <2>2 DEF AddNew
  <2> QED BY <2>1, <2>2
<1>3. \E pc \in {"done", "failed"} : reload' = [reload EXCEPT ![r].pc = pc]
  BY DEF AddNew
<1> QED BY <1>1, <1>2, <1>3, AddingKeeps

\* Which threads are joined: those of the targets, and of removed models that do
\* not run.
LEMMA Collecting ==
  ASSUME ReloadTypeOK, NEW targets \in SUBSET Names, NEW list \in Lists
  PROVE  /\ Collected(targets, list) \in [Names -> ModelEntry]
         /\ \A n \in Names :
              /\ Collected(targets, list)[n].status = mapping[n].status
              /\ Collected(targets, list)[n].preset = mapping[n].preset
              /\ Collected(targets, list)[n].process = mapping[n].process
              /\ Collected(targets, list)[n].thread <=>
                   /\ mapping[n].thread
                   /\ n \notin targets
                   /\ list[n] = NoPreset => IsRunning(mapping, n)
<1> DEFINE new == Collected(targets, list)
<1>1. ASSUME NEW n \in Names
      PROVE  /\ new[n] \in ModelEntry
             /\ new[n].status = mapping[n].status
             /\ new[n].preset = mapping[n].preset
             /\ new[n].process = mapping[n].process
             /\ new[n].thread <=> /\ mapping[n].thread
                                  /\ n \notin targets
                                  /\ list[n] = NoPreset => IsRunning(mapping, n)
  <2>1. mapping[n] \in ModelEntry
    BY DEF ReloadTypeOK
  <2>2. CASE n \in targets \/ (list[n] = NoPreset /\ ~IsRunning(mapping, n))
    <3>1. new[n] = [mapping[n] EXCEPT !.thread = FALSE]
      BY <2>2 DEF Collected
    <3> QED BY <2>1, <2>2, <3>1 DEF ModelEntry
  <2>3. CASE ~(n \in targets \/ (list[n] = NoPreset /\ ~IsRunning(mapping, n)))
    <3>1. new[n] = mapping[n]
      BY <2>3 DEF Collected
    <3> QED BY <2>1, <2>3, <3>1
  <2> QED BY <2>2, <2>3
<1>2. new \in [Names -> ModelEntry]
  BY <1>1 DEF Collected
<1> HIDE DEF new
<1> QED BY <1>1, <1>2 DEF new

LEMMA CollectingNoTargets ==
  ASSUME ReloadTypeOK, NEW list \in Lists
  PROVE  \A n \in Names :
           /\ Collected({}, list)[n].status = mapping[n].status
           /\ Collected({}, list)[n].preset = mapping[n].preset
           /\ Collected({}, list)[n].process = mapping[n].process
           /\ Collected({}, list)[n].thread <=>
                (mapping[n].thread /\ (list[n] = NoPreset => IsRunning(mapping, n)))
<1>1. \A n \in Names : n \notin {}
  OBVIOUS
<1> QED BY <1>1, Collecting, {} \in SUBSET Names

LEMMA ReloadStart == ReloadInit => ReloadInv
<1> SUFFICES ASSUME ReloadInit PROVE ReloadInv
  OBVIOUS
<1> USE ReloadAssumption
<1> DEFINE none == [n \in Names |-> NoEntry]
<1>1. none \in [Names -> ModelEntry] /\ Sound(none)
  BY EntryTypes DEF Sound, IsRunning, NoEntry, Unused
<1>2. mapping \in [Names -> ModelEntry] /\ Sound(mapping)
  <2>1. source \in Lists /\ mapping = WithAdded(none, source, New(none, source))
    BY DEF ReloadInit
  <2> QED BY <1>1, <2>1, AddingKeeps
<1>3. ReloadTypeOK
  <2>0. /\ source \in Lists /\ wanted \in [Askers -> Names] /\ edits = 0
        /\ isReloading = FALSE /\ overlapped = FALSE /\ down = "no"
    BY Zenon DEF ReloadInit
  <2>1. /\ source \in Lists /\ wanted \in [Askers -> Names]
        /\ edits \in 0..MaxEdits /\ isReloading \in BOOLEAN /\ overlapped \in BOOLEAN
        /\ down \in {"no", "assert", "null"}
    <3>1. 0 \in 0..MaxEdits
      BY ReloadAssumption
    <3> QED BY <2>0, <3>1
  <2>2. reload \in [Reloaders -> [pc : {"new", "lock", "unload", "join", "done", "failed"},
                              list : Lists, targets : SUBSET Names, todo : SUBSET Names]]
    BY <2>1 DEF ReloadInit
  <2>3. asker \in [Askers -> {"new", "load", "begin", "wait", "check", "proxy", "touch",
                             "forwarded", "refused"}]
    BY DEF ReloadInit
  <2> QED BY <1>2, <2>1, <2>2, <2>3 DEF ReloadTypeOK
<1> QED BY <1>2, <1>3 DEF ReloadInit, ReloadInv, Exclusive, Unloading, ThreadsJoined, NoAssertion, Under

-----------------------------------------------------------------------------
\* A step that loads nothing disturbs no reload.
LEMMA NothingLoaded ==
  ASSUME ReloadInv, UNCHANGED <<isReloading, reload, overlapped>>,
         \A n \in Names :
           /\ mapping'[n].thread => mapping[n].thread
           /\ IsRunning(mapping', n)
                => IsRunning(mapping, n) /\ mapping'[n].preset = mapping[n].preset
  PROVE  Exclusive' /\ Unloading' /\ ThreadsJoined'
BY DEF ReloadInv, Exclusive, Unloading, ThreadsJoined, Under

\* Nor does any step when no reload is under way.
LEMMA LoadsOutside ==
  ASSUME ReloadInv, ~isReloading, UNCHANGED <<isReloading, reload, overlapped>>
  PROVE  Exclusive' /\ Unloading' /\ ThreadsJoined'
BY DEF ReloadInv, Exclusive, Unloading, ThreadsJoined, Under

LEMMA ReloaderKeeps ==
  ASSUME ReloadInv, NEW r \in Reloaders, ReloadStep(r)
  PROVE  ReloadInv'
<1> USE ReloadAssumption DEF ReloadInv
<1>1. CASE ReadSource(r)
  <2>1. /\ reload' = [reload EXCEPT ![r].pc = "lock", ![r].list = source]
        /\ UNCHANGED <<source, edits, mapping, isReloading, asker, wanted, down, overlapped>>
    BY <1>1 DEF ReadSource
  <2>2. ReloadTypeOK'
    BY <2>1 DEF ReloadTypeOK
  <2>3. /\ reload'[r].pc = "lock"
        /\ \A q \in Reloaders : q # r => reload'[q] = reload[q]
    BY <2>1 DEF ReloadTypeOK
  <2>4. mapping' = mapping /\ isReloading' = isReloading /\ overlapped' = overlapped
    BY <2>1
  <2>5. Exclusive' /\ Unloading' /\ ThreadsJoined'
    BY <2>3, <2>4 DEF Exclusive, Unloading, ThreadsJoined, Under
  <2> QED BY <2>1, <2>2, <2>5 DEF NoAssertion
<1>2. CASE FirstLoad(r)
  <2>1. /\ AddNew(r, mapping)
        /\ UNCHANGED <<source, edits, isReloading, asker, wanted, down, overlapped>>
    BY <1>2 DEF FirstLoad
  <2>2. PICK pc \in {"done", "failed"} : reload' = [reload EXCEPT ![r].pc = pc]
    BY <2>1, AddNewKeeps DEF ReloadTypeOK
  <2>3. /\ mapping' \in [Names -> ModelEntry] /\ Sound(mapping')
        /\ \A n \in Names :
              /\ mapping'[n].thread => mapping[n].thread
              /\ IsRunning(mapping', n) => IsRunning(mapping, n) /\ mapping'[n] = mapping[n]
    BY <2>1, AddNewKeeps DEF ReloadTypeOK
  <2>4. ReloadTypeOK'
    BY <2>1, <2>2, <2>3 DEF ReloadTypeOK
  <2>5. /\ reload'[r].pc = pc
        /\ \A q \in Reloaders : q # r => reload'[q] = reload[q]
    BY <2>2 DEF ReloadTypeOK
  <2>6. Exclusive' /\ Unloading' /\ ThreadsJoined'
    BY <2>1, <2>3, <2>5 DEF Exclusive, Unloading, ThreadsJoined, Under
  <2> QED BY <2>1, <2>3, <2>4, <2>6 DEF NoAssertion
<1>3. CASE BeginReload(r)
  <2> DEFINE list == reload[r].list
  <2>1. /\ isReloading' = TRUE
        /\ overlapped' = (overlapped \/ \E q \in Reloaders \ {r} : Under(q))
        /\ UNCHANGED <<source, edits, asker, wanted, down>>
    BY <1>3 DEF BeginReload
  <2>2. CASE Targets(list) = {}
    <3>1. /\ mapping' = Collected({}, list)
          /\ reload' = [reload EXCEPT ![r].pc = "join", ![r].targets = {}]
      BY <1>3, <2>2 DEF BeginReload
    <3>a. list \in Lists
      BY DEF ReloadTypeOK
    <3>2. mapping' \in [Names -> ModelEntry]
      BY <3>1, <3>a, Collecting
    <3>3. \A n \in Names :
            /\ mapping'[n].status = mapping[n].status
            /\ mapping'[n].preset = mapping[n].preset
            /\ mapping'[n].process = mapping[n].process
            /\ mapping'[n].thread <=>
                 (mapping[n].thread /\ (list[n] = NoPreset => IsRunning(mapping, n)))
      BY <3>1, <3>a, CollectingNoTargets
    <3>4. Sound(mapping')
      BY <3>3 DEF Sound, IsRunning
    <3>5. \A n \in Names : IsRunning(mapping, n) => mapping[n].preset = list[n]
      BY <2>2 DEF Targets
    <3>6. /\ reload'[r].pc = "join" /\ reload'[r].list = list
          /\ \A q \in Reloaders : q # r => reload'[q] = reload[q]
      BY <3>1 DEF ReloadTypeOK
    <3>7. ReloadTypeOK'
      <4>1. reload' \in [Reloaders ->
                            [pc : {"new", "lock", "unload", "join", "done", "failed"},
                             list : Lists, targets : SUBSET Names, todo : SUBSET Names]]
        <5> DEFINE e == [reload[r] EXCEPT !.pc = "join", !.targets = {}]
        <5> DEFINE Reloads == [pc : {"new", "lock", "unload", "join", "done", "failed"},
                               list : Lists, targets : SUBSET Names, todo : SUBSET Names]
        <5>1. reload \in [Reloaders -> Reloads]
          BY DEF ReloadTypeOK
        <5>2. {} \in SUBSET Names
          OBVIOUS
        <5>3. e \in Reloads
          BY <5>1, <5>2
        <5>4. reload' = [reload EXCEPT ![r] = e]
          BY <3>1, <5>1
        <5> QED BY <5>1, <5>3, <5>4
      <4>2. overlapped' \in BOOLEAN
        BY <2>1
      <4> QED BY <2>1, <3>2, <4>1, <4>2 DEF ReloadTypeOK
    <3>8. \A n \in Names : /\ list[n] = NoPreset => ~mapping'[n].thread
                           /\ IsRunning(mapping', n) => mapping'[n].preset = list[n]
      <4>1. \A n \in Names : IsRunning(mapping', n) <=> IsRunning(mapping, n)
        BY <3>3 DEF IsRunning
      <4>2. \A n \in Names : list[n] = NoPreset => ~IsRunning(mapping, n)
        BY <3>5 DEF Sound
      <4> QED BY <3>3, <3>5, <4>1, <4>2
    <3>9. Exclusive' /\ Unloading' /\ ThreadsJoined'
      BY <2>1, <3>6, <3>8 DEF Exclusive, Unloading, ThreadsJoined, Under
    <3> QED BY <2>1, <3>4, <3>7, <3>9 DEF NoAssertion
  <2>3. CASE Targets(list) # {}
    <3>1. /\ UNCHANGED mapping
          /\ reload' = [reload EXCEPT ![r].pc = "unload", ![r].targets = Targets(list),
                                      ![r].todo = Targets(list)]
      BY <1>3, <2>3 DEF BeginReload
    <3>2. /\ reload'[r].pc = "unload" /\ reload'[r].list = list
          /\ reload'[r].targets = Targets(list)
          /\ \A q \in Reloaders : q # r => reload'[q] = reload[q]
      BY <3>1 DEF ReloadTypeOK
    <3>3. Targets(list) \in SUBSET Names
      BY DEF Targets
    <3>4. reload' \in [Reloaders -> [pc : {"new", "lock", "unload", "join", "done", "failed"},
                              list : Lists, targets : SUBSET Names, todo : SUBSET Names]]
      <4> DEFINE R == [pc : {"new", "lock", "unload", "join", "done", "failed"},
                       list : Lists, targets : SUBSET Names, todo : SUBSET Names]
                 T == Targets(list)
                 e == [reload[r] EXCEPT !.pc = "unload", !.targets = T, !.todo = T]
      <4>1. reload \in [Reloaders -> R]
        BY DEF ReloadTypeOK
      <4>2. reload' = [reload EXCEPT ![r] = e]
        BY <3>1, <4>1
      <4>3. e \in R
        BY <3>3, <4>1
      <4> HIDE DEF R, e
      <4>4. reload' \in [Reloaders -> R]
        BY <4>1, <4>2, <4>3
      <4> QED BY <4>4 DEF R
    <3>5. ReloadTypeOK'
      BY <2>1, <3>1, <3>4 DEF ReloadTypeOK
    <3>6. mapping' = mapping
      BY <3>1
    <3>7. \A n \in Names : IsRunning(mapping, n) /\ list[n] # mapping[n].preset
                            => n \in Targets(list)
      BY DEF Targets
    <3>8. Exclusive' /\ Unloading' /\ ThreadsJoined'
      <4>1. Exclusive'
        BY <2>1, <3>2 DEF Exclusive, Under
      <4>2. Unloading'
        BY <2>1, <3>2, <3>6, <3>7 DEF Unloading
      <4>3. ThreadsJoined'
        <5>1. ~overlapped' => ~overlapped
          BY <2>1
        <5>2. \A q \in Reloaders : reload'[q].pc = "join" => reload'[q] = reload[q]
          BY <3>2
        <5> QED BY <3>6, <5>1, <5>2 DEF ThreadsJoined
      <4> QED BY <4>1, <4>2, <4>3
    <3> QED BY <2>1, <3>1, <3>5, <3>8 DEF NoAssertion
  <2> QED BY <2>2, <2>3
<1>4. ASSUME NEW n \in Names, UnloadOne(r, n) PROVE ReloadInv'
  <2>1. /\ reload' = [reload EXCEPT ![r].todo = @ \ {n}]
        /\ UNCHANGED <<source, edits, mapping, isReloading, asker, wanted, down, overlapped>>
    BY <1>4 DEF UnloadOne
  <2>2. ReloadTypeOK'
    BY <2>1 DEF ReloadTypeOK
  <2>3. \A q \in Reloaders : /\ reload'[q].pc = reload[q].pc /\ reload'[q].list = reload[q].list
                             /\ reload'[q].targets = reload[q].targets
    BY <2>1 DEF ReloadTypeOK
  <2>4. Exclusive' /\ Unloading' /\ ThreadsJoined'
    BY <2>1, <2>3 DEF Exclusive, Unloading, ThreadsJoined, Under
  <2> QED BY <2>1, <2>2, <2>4 DEF NoAssertion
<1>5. CASE Unloaded(r)
  <2> DEFINE list == reload[r].list
             targets == reload[r].targets
  <2>1. /\ reload[r].pc = "unload"
        /\ \A n \in targets : ~IsRunning(mapping, n)
        /\ mapping' = Collected(targets, list)
        /\ reload' = [reload EXCEPT ![r].pc = "join"]
        /\ UNCHANGED <<source, edits, isReloading, asker, wanted, down, overlapped>>
    BY <1>5 DEF Unloaded, At
  <2>2. mapping' \in [Names -> ModelEntry]
    BY <2>1, Collecting DEF ReloadTypeOK
  <2>3. \A n \in Names :
          /\ mapping'[n].status = mapping[n].status
          /\ mapping'[n].preset = mapping[n].preset
          /\ mapping'[n].process = mapping[n].process
          /\ mapping'[n].thread <=>
               (mapping[n].thread /\ n \notin targets
                  /\ (list[n] = NoPreset => IsRunning(mapping, n)))
    BY <2>1, Collecting DEF ReloadTypeOK
  <2>4. Sound(mapping')
    <3>1. \A n \in Names : IsRunning(mapping', n) <=> IsRunning(mapping, n)
      BY <2>3 DEF IsRunning
    <3> QED BY <2>1, <2>3, <3>1 DEF Sound
  <2>5. /\ reload'[r].pc = "join" /\ reload'[r].list = list
        /\ \A q \in Reloaders : q # r => reload'[q] = reload[q]
    BY <2>1 DEF ReloadTypeOK
  <2>6. ReloadTypeOK'
    BY <2>1, <2>2 DEF ReloadTypeOK
  <2>7. Exclusive'
    BY <2>1, <2>5 DEF Exclusive, Under
  <2>8. ~overlapped => \A q \in Reloaders : Under(q) => q = r
    BY <2>1 DEF Exclusive, Under
  <2>9. ~overlapped => \A n \in Names : IsRunning(mapping, n) => mapping[n].preset = list[n]
    BY <2>1 DEF Unloading
  <2>10. ~overlapped => \A n \in Names :
            /\ list[n] = NoPreset => ~mapping'[n].thread
            /\ IsRunning(mapping', n) => mapping'[n].preset = list[n]
    <3>1. \A n \in Names : IsRunning(mapping', n) <=> IsRunning(mapping, n)
      BY <2>3 DEF IsRunning
    <3>2. ~overlapped => \A n \in Names : list[n] = NoPreset => ~IsRunning(mapping, n)
      BY <2>9 DEF Sound
    <3> QED BY <2>3, <2>9, <3>1, <3>2
  <2>11. Unloading' /\ ThreadsJoined'
    BY <2>1, <2>5, <2>8, <2>10 DEF Unloading, ThreadsJoined, Under
  <2> QED BY <2>1, <2>4, <2>6, <2>7, <2>11 DEF NoAssertion
<1>6. CASE AssertFails(r)
  <2>1. overlapped
    BY <1>6 DEF AssertFails, Unjoined, At, ThreadsJoined
  <2> QED BY <1>6, <2>1
    DEF AssertFails, ReloadTypeOK, Exclusive, Unloading, ThreadsJoined, NoAssertion, Under
<1>7. CASE Finish(r)
  <2> DEFINE list == reload[r].list
  <2>1. /\ reload[r].pc = "join"
        /\ AddNew(r, Kept(list))
        /\ isReloading' = (isReloading /\ reload'[r].pc = "failed")
        /\ UNCHANGED <<source, edits, asker, wanted, down, overlapped>>
    BY <1>7 DEF Finish, At
  <2>2. list \in Lists
    BY DEF ReloadTypeOK
  <2>3. Kept(list) \in [Names -> ModelEntry]
    BY <2>2, EntryTypes DEF Kept, ReloadTypeOK, ModelEntry, Lists
  <2>4. Sound(Kept(list))
    BY <2>2 DEF Kept, ReloadTypeOK, ModelEntry, Lists, Sound, IsRunning, NoEntry, Unused
  <2>5. PICK pc \in {"done", "failed"} : reload' = [reload EXCEPT ![r].pc = pc]
    BY <2>1, <2>3, <2>4, AddNewKeeps
  <2>6. mapping' \in [Names -> ModelEntry] /\ Sound(mapping')
    BY <2>1, <2>3, <2>4, AddNewKeeps
  <2>7. /\ reload'[r].pc = pc
        /\ \A q \in Reloaders : q # r => reload'[q] = reload[q]
    BY <2>5 DEF ReloadTypeOK
  <2>8. ReloadTypeOK'
    BY <2>1, <2>5, <2>6 DEF ReloadTypeOK
  <2>9. ~overlapped => \A q \in Reloaders : Under(q) => q = r
    BY <2>1 DEF Exclusive, Under
  <2>10. Exclusive' /\ Unloading' /\ ThreadsJoined'
    BY <2>1, <2>7, <2>9 DEF Exclusive, Unloading, ThreadsJoined, Under
  <2> QED BY <2>1, <2>6, <2>8, <2>10 DEF NoAssertion
<1> QED BY <1>1, <1>2, <1>3, <1>4, <1>5, <1>6, <1>7 DEF ReloadStep

\* The children, and the requests that load nothing.
LEMMA OthersKeep ==
  ASSUME ReloadInv, Edit \/ (\E n \in Names : Up(n) \/ Ends(n))
  PROVE  ReloadInv'
<1> USE ReloadAssumption DEF ReloadInv
<1>1. CASE Edit
  <2>1. /\ source' \in Lists /\ edits' \in 0..MaxEdits
        /\ UNCHANGED <<mapping, isReloading, reload, asker, wanted, down, overlapped>>
    BY <1>1 DEF Edit, ReloadTypeOK
  <2> QED BY <2>1 DEF ReloadTypeOK, Exclusive, Unloading, ThreadsJoined, NoAssertion, Under
<1>2. ASSUME NEW n \in Names, NEW s \in {"unloaded", "loaded"}, IsRunning(mapping, n),
             mapping' = [mapping EXCEPT ![n].status = s],
             UNCHANGED <<source, edits, isReloading, reload, asker, wanted, down, overlapped>>
      PROVE  ReloadInv'
  <2>1. mapping' \in [Names -> ModelEntry]
    <3> DEFINE e == [mapping[n] EXCEPT !.status = s]
    <3>1. mapping \in [Names -> ModelEntry]
      BY DEF ReloadTypeOK
    <3>2. e \in ModelEntry
      BY <1>2, <3>1 DEF ModelEntry
    <3>3. mapping' = [mapping EXCEPT ![n] = e]
      BY <1>2, <3>1
    <3> QED BY <3>1, <3>2, <3>3
  <2>2. \A m \in Names : /\ mapping'[m].thread = mapping[m].thread
                         /\ mapping'[m].process = mapping[m].process
                         /\ mapping'[m].preset = mapping[m].preset
                         /\ IsRunning(mapping', m) => IsRunning(mapping, m)
    BY <1>2 DEF ReloadTypeOK, ModelEntry, IsRunning
  <2>3. Sound(mapping')
    BY <2>2 DEF Sound
  <2>4. Exclusive' /\ Unloading' /\ ThreadsJoined'
    BY <1>2, <2>2, NothingLoaded
  <2> QED BY <1>2, <2>1, <2>3, <2>4 DEF ReloadTypeOK, NoAssertion
<1>3. ASSUME NEW n \in Names, Up(n) PROVE ReloadInv'
  BY <1>2, <1>3 DEF Up, IsRunning
<1>4. ASSUME NEW n \in Names, Ends(n) PROVE ReloadInv'
  BY <1>2, <1>4 DEF Ends
<1> QED BY <1>1, <1>3, <1>4

LEMMA FoundTypes ==
  ASSUME ReloadInv, NEW c \in Askers
  PROVE  /\ wanted[c] \in Names /\ Found(c) \in ModelEntry
         /\ Found(c) = mapping[wanted[c]]
              \/ (Found(c).status = "unloaded" /\ ~Found(c).thread /\ ~Found(c).process)
BY EntryTypes DEF ReloadInv, ReloadTypeOK, Found, Of, DefaultEntry, Unused

LEMMA AskerKeeps ==
  ASSUME ReloadInv, NEW c \in Askers, AskerStep(c)
  PROVE  ReloadInv'
<1> USE ReloadAssumption DEF ReloadInv
<1> DEFINE Spots == {"new", "load", "begin", "wait", "check", "proxy", "touch",
                      "forwarded", "refused"}
           w == wanted[c]
\* A step of the asker only.
<1>1. ASSUME NEW to \in Spots, asker' = [asker EXCEPT ![c] = to],
             UNCHANGED <<source, edits, mapping, isReloading, reload, wanted, down, overlapped>>
      PROVE  ReloadInv'
  BY <1>1 DEF ReloadTypeOK, Exclusive, Unloading, ThreadsJoined, NoAssertion, Under
\* A step that makes an entry for a model that had none.
<1>2. ASSUME NEW to \in Spots, asker' = [asker EXCEPT ![c] = to],
             mapping' = [mapping EXCEPT ![w] = Found(c)],
             UNCHANGED <<source, edits, isReloading, reload, wanted, down, overlapped>>
      PROVE  ReloadInv'
  <2>1. mapping' \in [Names -> ModelEntry]
    BY <1>2, FoundTypes DEF ReloadTypeOK
  <2>2. \A n \in Names : \/ mapping'[n] = mapping[n]
                         \/ /\ mapping'[n].status = "unloaded"
                            /\ ~mapping'[n].thread /\ ~mapping'[n].process
    BY <1>2, FoundTypes DEF ReloadTypeOK
  <2>3. \A n \in Names :
          /\ mapping'[n].thread => mapping[n].thread
          /\ IsRunning(mapping', n) => IsRunning(mapping, n) /\ mapping'[n] = mapping[n]
    BY <2>2 DEF IsRunning
  <2>4. Sound(mapping')
    BY <2>2 DEF Sound, IsRunning
  <2>5. Exclusive' /\ Unloading' /\ ThreadsJoined'
    BY <1>2, <2>3, NothingLoaded
  <2>6. ReloadTypeOK'
    BY <1>2, <2>1 DEF ReloadTypeOK
  <2> QED BY <1>2, <2>4, <2>5, <2>6 DEF NoAssertion
<1>3. CASE LoadModel(c)
  <2>1. /\ ~isReloading /\ Found(c).process
        /\ asker' = [asker EXCEPT ![c] = "wait"]
        /\ mapping' = [mapping EXCEPT ![w].status = "loading", ![w].thread = TRUE]
        /\ UNCHANGED <<source, edits, isReloading, reload, wanted, down, overlapped>>
    BY <1>3 DEF LoadModel, Goes
  <2>2. w \in Names /\ mapping[w].process /\ mapping[w] \in ModelEntry
    BY <2>1, FoundTypes DEF ReloadTypeOK
  <2>3. /\ mapping' \in [Names -> ModelEntry]
        /\ mapping'[w] = [mapping[w] EXCEPT !.status = "loading", !.thread = TRUE]
        /\ \A n \in Names : n # w => mapping'[n] = mapping[n]
    <3> DEFINE e == [mapping[w] EXCEPT !.status = "loading", !.thread = TRUE]
    <3>1. e \in ModelEntry
      BY <2>2 DEF ModelEntry
    <3>2. mapping' = [mapping EXCEPT ![w] = e]
      BY <2>1, <2>2 DEF ReloadTypeOK
    <3> HIDE DEF e
    <3>3. /\ mapping' \in [Names -> ModelEntry] /\ mapping'[w] = e
          /\ \A n \in Names : n # w => mapping'[n] = mapping[n]
      BY <2>2, <3>1, <3>2 DEF ReloadTypeOK
    <3> QED BY <3>3 DEF e
  <2>4. mapping'[w].thread /\ mapping'[w].process /\ mapping'[w].preset = mapping[w].preset
    BY <2>2, <2>3 DEF ModelEntry
  <2>5. Sound(mapping')
    BY <2>2, <2>3, <2>4 DEF Sound, IsRunning
  <2>6. Exclusive' /\ Unloading' /\ ThreadsJoined'
    BY <2>1, LoadsOutside
  <2>7. ReloadTypeOK'
    BY <2>1, <2>3 DEF ReloadTypeOK
  <2> QED BY <2>1, <2>5, <2>6, <2>7 DEF NoAssertion
<1>4. CASE LoadCrashes(c)
  <2>1. /\ asker' = [asker EXCEPT ![c] = "begin"] /\ down' = "null"
        /\ UNCHANGED <<source, edits, mapping, isReloading, reload, wanted, overlapped>>
    BY <1>4 DEF LoadCrashes, Goes
  <2> QED BY <2>1 DEF ReloadTypeOK, Exclusive, Unloading, ThreadsJoined, NoAssertion, Under
<1>5. CASE LoadFails(c)
  BY <1>2, <1>5 DEF LoadFails, Goes
<1>6. CASE Touch(c)
  BY <1>2, <1>6 DEF Touch, Goes
<1>7. CASE Ensure(c) \/ Exists(c) \/ LoadStarted(c) \/ WaitDone(c) \/ Check(c) \/ Proxy(c)
  <2>1. UNCHANGED <<source, edits, mapping, isReloading, reload, wanted, overlapped>>
    BY <1>7 DEF Ensure, Exists, LoadStarted, WaitDone, Check, Proxy
  <2>2. UNCHANGED down
    BY <1>7 DEF Ensure, Exists, LoadStarted, WaitDone, Check, Proxy
  <2>3. \E to \in Spots : asker' = [asker EXCEPT ![c] = to]
    BY <1>7 DEF Ensure, Exists, LoadStarted, WaitDone, Check, Proxy, Goes
  <2> QED BY <1>1, <2>1, <2>2, <2>3
<1> QED BY <1>3, <1>4, <1>5, <1>6, <1>7 DEF AskerStep

\* The conditions above hold in every state.
THEOREM ReloadCorrect == ReloadSpec => []ReloadInv
<1>1. ReloadInv /\ [ReloadNext]_reloadVars => ReloadInv'
  <2> SUFFICES ASSUME ReloadInv, [ReloadNext]_reloadVars PROVE ReloadInv'
    OBVIOUS
  <2>1. CASE UNCHANGED reloadVars
    BY <2>1 DEF reloadVars, ReloadInv, ReloadTypeOK, Exclusive, Unloading, ThreadsJoined,
                NoAssertion, Under
  <2>2. CASE ReloadNext
    BY <2>2, ReloaderKeeps, OthersKeep, AskerKeeps DEF ReloadNext
  <2> QED BY <2>1, <2>2
<1> QED BY ReloadStart, <1>1, PTL DEF ReloadSpec

\* A reload that overlaps no other has joined the thread of every model that it
\* erases, whatever requests and children do meanwhile.
THEOREM NothingUnjoined == ReloadSpec => []ReloadSound
<1>1. ReloadInv => ReloadSound
  BY DEF ReloadInv, NoAssertion, Sound, ReloadSound, RunningIsWatched
<1> QED BY ReloadCorrect, <1>1, PTL

\* A reloader's step is about its own reload.
LEMMA OwnReload ==
  ASSUME ReloadTypeOK, NEW q \in Reloaders, ReloadStep(q), NEW r \in Reloaders, q # r
  PROVE  reload'[r] = reload[r]
<1>1. ASSUME NEW map, AddNew(q, map) PROVE reload'[r] = reload[r]
  <2>1. \E pc \in {"done", "failed"} : reload' = [reload EXCEPT ![q].pc = pc]
    BY <1>1 DEF AddNew
  <2> QED BY <2>1 DEF ReloadTypeOK
<1>2. CASE FirstLoad(q)
  BY <1>1, <1>2 DEF FirstLoad
<1>3. CASE Finish(q)
  BY <1>1, <1>3 DEF Finish
<1>4. CASE BeginReload(q)
  BY <1>4 DEF BeginReload, ReloadTypeOK
<1>5. CASE ReadSource(q) \/ (\E n \in Names : UnloadOne(q, n)) \/ Unloaded(q) \/ AssertFails(q)
  BY <1>5 DEF ReadSource, UnloadOne, Unloaded, AssertFails, ReloadTypeOK
<1> QED BY <1>2, <1>3, <1>4, <1>5 DEF ReloadStep

\* Only the last step of a reload makes it done.
LEMMA DoneByFinish ==
  ASSUME ReloadTypeOK, ReloadNext, NEW r \in Reloaders,
         reload[r].pc = "join", reload'[r].pc = "done"
  PROVE  Finish(r)
<1>1. PICK q \in Reloaders : ReloadStep(q)
  BY DEF ReloadNext, Edit, Up, Ends, AskerStep, Ensure, Exists, LoadStarted,
         LoadFails, LoadModel, LoadCrashes, WaitDone, Check, Proxy, Touch
<1>2. ReloadStep(r)
  BY <1>1, OwnReload
<1>3. ~AssertFails(r)
  BY DEF AssertFails
<1> QED BY <1>2, <1>3 DEF ReloadStep, ReadSource, FirstLoad, BeginReload, UnloadOne, Unloaded, At

\* The list that a reload leaves behind.
LEMMA FinishApplies ==
  ASSUME ReloadInv, NEW r \in Reloaders, Finish(r), reload'[r].pc = "done", ~overlapped,
         NEW n \in Names
  PROVE  /\ mapping'[n].preset = reload[r].list[n]
         /\ Has(mapping', n) <=> reload[r].list[n] # NoPreset
<1> USE ReloadAssumption DEF ReloadInv
<1> DEFINE list == reload[r].list
           map == Kept(list)
<1>1. /\ reload[r].pc = "join" /\ AddNew(r, map)
  BY DEF Finish, At
<1>2. mapping' = WithAdded(map, list, New(map, list))
  BY <1>1 DEF AddNew, ReloadTypeOK
<1>3. mapping[n] \in ModelEntry
  BY DEF ReloadTypeOK
<1>4. IsRunning(mapping, n) => mapping[n].preset = list[n]
  BY <1>1 DEF ThreadsJoined
<1>5. CASE list[n] = NoPreset
  <2>1. map[n] = NoEntry /\ n \notin New(map, list)
    BY <1>5 DEF Kept, New
  <2>2. mapping'[n] = NoEntry
    BY <1>2, <2>1 DEF WithAdded
  <2> QED BY <1>5, <2>2 DEF NoEntry, Unused, Has
<1>6. CASE list[n] # NoPreset /\ ~Has(map, n)
  <2>1. mapping'[n] = Added(list[n])
    BY <1>2, <1>6 DEF WithAdded, New
  <2> QED BY <1>6, <2>1 DEF Added, Unused, Has
<1>7. CASE list[n] # NoPreset /\ Has(map, n)
  <2>1. mapping'[n] = map[n]
    BY <1>2, <1>7 DEF WithAdded, New
  <2>2. CASE IsRunning(mapping, n) \/ ~Has(mapping, n)
    <3>1. map[n] = mapping[n]
      BY <1>7, <2>2 DEF Kept
    <3> QED BY <1>4, <1>7, <2>1, <2>2, <3>1 DEF Has
  <2>3. CASE ~(IsRunning(mapping, n) \/ ~Has(mapping, n))
    <3>1. map[n] = [mapping[n] EXCEPT !.preset = list[n]]
      BY <1>7, <2>3 DEF Kept
    <3> QED BY <1>3, <1>7, <2>1, <3>1 DEF ModelEntry, Has
  <2> QED BY <2>2, <2>3
<1> QED BY <1>5, <1>6, <1>7

\* A reload that overlaps no other ends with the models of its list.
THEOREM NewListApplied == ReloadSpec => ListApplied
<1> DEFINE Applied ==
      \A r \in Reloaders :
        (reload[r].pc = "join" /\ reload'[r].pc = "done" /\ ~overlapped) =>
          \A n \in Names : /\ mapping'[n].preset = reload[r].list[n]
                           /\ Has(mapping', n) = (reload[r].list[n] # NoPreset)
<1>1. ASSUME ReloadInv, [ReloadNext]_reloadVars PROVE [Applied]_reloadVars
  <2>1. ASSUME ReloadNext, NEW r \in Reloaders,
               reload[r].pc = "join", reload'[r].pc = "done", ~overlapped,
               NEW n \in Names
        PROVE  /\ mapping'[n].preset = reload[r].list[n]
               /\ Has(mapping', n) <=> reload[r].list[n] # NoPreset
    BY <1>1, <2>1, DoneByFinish, FinishApplies DEF ReloadInv
  <2>2. ReloadNext => Applied
    BY <2>1 DEF Has
  <2> QED BY <1>1, <2>2
<1>2. ReloadInv /\ [ReloadNext]_reloadVars => [Applied]_reloadVars
  BY <1>1
<1> QED BY ReloadCorrect, <1>2, PTL DEF ReloadSpec, ListApplied

-----------------------------------------------------------------------------
(***************************************************************************)
(* The parts beside one another: a behaviour of the composition is one of  *)
(* each part, so that what is proved of a part holds in it.                *)
(***************************************************************************)

\* A step of one part leaves the variables of all others alone.
LEMMA PartSteps ==
  ASSUME [PartsNext]_partsVars
  PROVE  /\ [Next]_vars /\ [SleepNext]_sleepVars /\ [PipeNext]_pipeVars
         /\ [BudgetNext]_budgetVars /\ [ReloadNext]_reloadVars /\ [PoolNext]_poolVars
BY DEF PartsNext, partsVars, Log, Sleeper, Piped, Budgeted, Reloading, Pooled

LEMMA PartStarts ==
  ASSUME PartsInit
  PROVE  Init /\ SleepInit /\ PipeInit /\ BudgetInit /\ ReloadInit /\ PoolInit
BY DEF PartsInit

\* What the composition does is, for each of the parts, what that part may do.
THEOREM PartsCompose ==
  PartsSpec => Spec /\ SleepSpec /\ PipeSpec /\ BudgetSpec /\ ReloadSpec /\ PoolSpec
<1>1. PartsInit => Init /\ SleepInit /\ PipeInit /\ BudgetInit /\ ReloadInit /\ PoolInit
  BY PartStarts
<1>2. [PartsNext]_partsVars
        => /\ [Next]_vars /\ [SleepNext]_sleepVars /\ [PipeNext]_pipeVars
           /\ [BudgetNext]_budgetVars /\ [ReloadNext]_reloadVars /\ [PoolNext]_poolVars
  BY PartSteps
<1> QED
  BY <1>1, <1>2, PTL
     DEF PartsSpec, Spec, SleepSpec, PipeSpec, BudgetSpec, ReloadSpec, PoolSpec

\* All variables of the parts keep their types in the composition, and with them
\* what the types say of bounds: the matcher's positions are within their tags, no
\* thread is past the last node, and the barrier counts no more threads than wait.
THEOREM PartsTyped == ASSUME SimpleEndTag PROVE PartsSpec => []PartsTypeOK
<1>1. PipeInv => PipeTypeOK
  BY DEF PipeInv
<1>2. BudgetInv => BudgetTypeOK
  BY DEF BudgetInv
<1>3. ReloadInv => ReloadTypeOK
  BY DEF ReloadInv
<1>4. TypeOK /\ SleepTypeOK /\ PipeTypeOK /\ BudgetTypeOK /\ ReloadTypeOK /\ PoolTypeOK
        => PartsTypeOK
  BY DEF PartsTypeOK
<1> QED
  BY <1>1, <1>2, <1>3, <1>4, PartsCompose, TypeCorrect, SleepTyped, PipeCorrect, BudgetCorrect,
     ReloadCorrect, PoolTyped, PTL
=============================================================================
