----------------------------- MODULE Admission -----------------------------
(***************************************************************************)
(* What the proxy promises about slots, without its threads: a request is  *)
(* granted a slot at most once, never more of them at a time than --slots, *)
(* and never a moderate or batch request beyond the cap the reservation    *)
(* leaves.  Nothing is promised about when a slot comes back.              *)
(***************************************************************************)
EXTENDS Integers

CONSTANTS
  Requests,
  Priority,
  Slots,
  Cap,       \* the most non-chat requests that may be served at a time
  Size(_)    \* the number of elements of a set: Cardinality

VARIABLE grant

Served == {r \in Requests : grant[r] = "served"}
NonChatServed == {r \in Served : Priority[r] # 0}

Init == grant = [r \in Requests |-> "waiting"]

Grant(r) ==
  /\ grant[r] = "waiting"
  /\ Size(Served) < Slots
  /\ Priority[r] # 0 => Size(NonChatServed) < Cap
  /\ grant' = [grant EXCEPT ![r] = "served"]

Return(r) ==
  /\ grant[r] = "served"
  /\ grant' = [grant EXCEPT ![r] = "returned"]

Next == \E r \in Requests : Grant(r) \/ Return(r)

Spec == Init /\ [][Next]_grant
=============================================================================
