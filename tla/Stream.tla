------------------------------- MODULE Stream -------------------------------
(***************************************************************************)
(* What the router's pipe promises to the two threads at its ends: what    *)
(* comes out is what went in, in order, and an end that is not a broken    *)
(* pipe comes after all of it.                                             *)
(***************************************************************************)
EXTENDS Sequences, Naturals

CONSTANT Messages

VARIABLES
  sent,     \* all that was put in
  received, \* all that was taken out
  closed,   \* nothing more will be put in
  over      \* what the reader was told at the end: "no" end yet, "eof", "broken"

streamVars == <<sent, received, closed, over>>

StreamInit == sent = <<>> /\ received = <<>> /\ closed = FALSE /\ over = "no"

Send ==
  /\ ~closed /\ over = "no"
  /\ \E m \in Messages : sent' = Append(sent, m)
  /\ UNCHANGED <<received, closed, over>>

Receive ==
  /\ over = "no"
  /\ Len(received) < Len(sent)
  /\ received' = Append(received, sent[Len(received) + 1])
  /\ UNCHANGED <<sent, closed, over>>

CloseStream == closed' = TRUE /\ UNCHANGED <<sent, received, over>>

EndOfStream ==
  /\ over = "no"
  /\ closed /\ received = sent
  /\ over' = "eof"
  /\ UNCHANGED <<sent, received, closed>>

\* The reader leaves; what is still in the pipe is lost.
Break ==
  /\ over = "no"
  /\ over' = "broken"
  /\ closed' \in {closed, TRUE}
  /\ UNCHANGED <<sent, received>>

StreamNext == Send \/ Receive \/ CloseStream \/ EndOfStream \/ Break

StreamSpec == StreamInit /\ [][StreamNext]_streamVars
=============================================================================
