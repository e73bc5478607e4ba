-------------------------------- MODULE Pipe --------------------------------
(***************************************************************************)
(* pipe_t and server_http_proxy: the router passes the answer of a model   *)
(* server to its client through a queue between two threads.  The writer   *)
(* thread receives from the model server; the reader is the thread of the  *)
(* HTTP server that sends to the client.                                   *)
(*                                                                         *)
(* read() looks at the queue, at the closed flag and at the client one     *)
(* after the other with the mutex held; write() takes the mutex; the two   *)
(* close operations do not, so that they come between any two of these,    *)
(* and their notification may come before the reader waits.                *)
(***************************************************************************)
EXTENDS Integers, Sequences

CONSTANT MaxChunks \* bound: chunks of an answer

ASSUME PipeAssumption == MaxChunks \in Nat

VARIABLES
  writer,       \* where the writer thread is
  reader,       \* where the reader thread is
  pipeQueue,    \* queue
  writerClosed, \* writer_closed
  readerClosed, \* reader_closed
  called,       \* the reader was notified in its wait
  clientGone,   \* should_stop() will say so
  sent,         \* history: the messages that write() accepted
  received      \* history: the messages that read() returned

pipeVars == <<writer, reader, pipeQueue, writerClosed, readerClosed, called,
              clientGone, sent, received>>

\* The header of the answer, a chunk of its body, and the header and the text
\* that an error of the transfer adds.
PipeMessages == {"header", "chunk", "header500", "proxy error"}

PipeInit ==
  /\ writer = "header" /\ reader = "read"
  /\ pipeQueue = <<>>
  /\ writerClosed = FALSE /\ readerClosed = FALSE
  /\ called = FALSE /\ clientGone = FALSE
  /\ sent = <<>> /\ received = <<>>

\* read() holds the mutex between its three looks.
ReaderHolds == reader \in {"looked", "open"}

Call == called' = (called \/ reader = "wait")

-----------------------------------------------------------------------------
(* The writer thread.                                                       *)

Write(m) ==
  /\ ~ReaderHolds /\ ~readerClosed
  /\ pipeQueue' = Append(pipeQueue, m)
  /\ sent' = Append(sent, m)
  /\ Call

BrokenPipe == ~ReaderHolds /\ readerClosed /\ UNCHANGED <<pipeQueue, sent, called>>

\* The model server's answer arrives; a write that fails ends the transfer.
Forward ==
  /\ \/ writer = "header" /\ Write("header") /\ writer' = "body"
     \/ writer = "body" /\ Len(sent) <= MaxChunks /\ Write("chunk") /\ UNCHANGED writer
     \/ writer \in {"header", "body"} /\ BrokenPipe /\ writer' = "failed"
  /\ UNCHANGED <<reader, writerClosed, readerClosed, clientGone, received>>

\* The transfer fails, by an error or a timeout, or is complete.
TransferEnds ==
  /\ \/ writer \in {"header", "body"} /\ writer' = "failed"
     \/ writer = "body" /\ writer' = "close"
  /\ UNCHANGED <<reader, pipeQueue, writerClosed, readerClosed, called, clientGone, sent, received>>

ReportError ==
  /\ \/ writer = "failed" /\ (Write("header500") \/ BrokenPipe) /\ writer' = "error"
     \/ writer = "error" /\ (Write("proxy error") \/ BrokenPipe) /\ writer' = "close"
  /\ UNCHANGED <<reader, writerClosed, readerClosed, clientGone, received>>

CloseWrite ==
  /\ writer = "close"
  /\ writer' = "ended"
  /\ writerClosed' = TRUE
  /\ Call
  /\ UNCHANGED <<reader, pipeQueue, readerClosed, clientGone, sent, received>>

-----------------------------------------------------------------------------
(* The reader thread: read(), called for the header and then for each chunk. *)

\* Mutant: the flag is looked at before the queue.
LookAtFlagFirst ==
  /\ reader = "read"
  /\ IF ~writerClosed /\ pipeQueue # <<>>
     THEN /\ received' = Append(received, Head(pipeQueue))
          /\ pipeQueue' = Tail(pipeQueue)
          /\ UNCHANGED reader
     ELSE reader' = "looked" /\ UNCHANGED <<pipeQueue, received>>
  /\ UNCHANGED <<writer, writerClosed, readerClosed, called, clientGone, sent>>

LookAtQueue ==
  /\ reader = "read"
  /\ \/ /\ pipeQueue # <<>>
        /\ received' = Append(received, Head(pipeQueue))
        /\ pipeQueue' = Tail(pipeQueue)
        /\ UNCHANGED reader
     \/ /\ pipeQueue = <<>>
        /\ reader' = "looked"
        /\ UNCHANGED <<pipeQueue, received>>
  /\ UNCHANGED <<writer, writerClosed, readerClosed, called, clientGone, sent>>

LookAtFlag ==
  /\ reader = "looked"
  /\ reader' = IF writerClosed THEN "eof" ELSE "open"
  /\ UNCHANGED <<writer, pipeQueue, writerClosed, readerClosed, called, clientGone, sent, received>>

LookAtClient ==
  /\ reader = "open"
  /\ reader' = IF clientGone THEN "stopped" ELSE "wait"
  /\ readerClosed' = (readerClosed \/ clientGone)
  /\ UNCHANGED <<writer, pipeQueue, writerClosed, called, clientGone, sent, received>>

\* Mutant: the reader waits until it is notified, however long that takes.
WakeWhenCalled ==
  /\ reader = "wait" /\ called
  /\ reader' = "read"
  /\ called' = FALSE
  /\ UNCHANGED <<writer, pipeQueue, writerClosed, readerClosed, clientGone, sent, received>>

\* wait_for returns after 500 ms, if not before.
Wake ==
  /\ reader = "wait"
  /\ reader' = "read"
  /\ called' = FALSE
  /\ UNCHANGED <<writer, pipeQueue, writerClosed, readerClosed, clientGone, sent, received>>

\* The response is over, or could not be sent on: cleanup closes both ends.
Cleanup ==
  /\ reader \in {"read", "eof", "stopped"}
  /\ reader' = IF reader = "eof" THEN "finished" ELSE "left"
  /\ readerClosed' = TRUE /\ writerClosed' = TRUE
  /\ UNCHANGED <<writer, pipeQueue, called, clientGone, sent, received>>

ClientLeaves ==
  /\ ~clientGone
  /\ clientGone' = TRUE
  /\ UNCHANGED <<writer, reader, pipeQueue, writerClosed, readerClosed, called, sent, received>>

WriterStep == Forward \/ TransferEnds \/ ReportError \/ CloseWrite
ReadStep == LookAtQueue \/ LookAtFlag \/ LookAtClient \/ Wake

PipeNext == WriterStep \/ ReadStep \/ Cleanup \/ ClientLeaves

PipeSpec == PipeInit /\ [][PipeNext]_pipeVars

\* Both threads run; the model server may be silent for as long as it likes.
FairPipeSpec == PipeSpec /\ WF_pipeVars(ReadStep) /\ WF_pipeVars(ReportError \/ CloseWrite)

-----------------------------------------------------------------------------
(* Properties.                                                              *)

\* The types; and each end is closed by the thread that leaves it, and no other.
PipeTypeOK ==
  /\ writer \in {"header", "body", "failed", "error", "close", "ended"}
  /\ reader \in {"read", "looked", "open", "wait", "eof", "stopped", "finished", "left"}
  /\ writerClosed \in BOOLEAN /\ readerClosed \in BOOLEAN
  /\ called \in BOOLEAN /\ clientGone \in BOOLEAN
  /\ {pipeQueue, sent, received} \subseteq Seq(PipeMessages)
  /\ readerClosed <=> reader \in {"stopped", "finished", "left"}
  /\ writerClosed => writer = "ended" \/ readerClosed

\* What the reader has been told of the end.
Over ==
  IF reader \in {"eof", "finished"} THEN "eof"
  ELSE IF readerClosed THEN "broken" ELSE "no"

Promised == INSTANCE Stream
  WITH Messages <- PipeMessages, closed <- writerClosed, over <- Over

\* The pipe is a stream: nothing is lost, doubled or reordered, and an end of file
\* comes after all that was written, whatever the close operations race with.
PipeIsStream == Promised!StreamSpec

\* read() returns when the writer has closed, or the client has gone, although the
\* notification of either may come when the reader does not wait yet.
ReadReturns ==
  (writer = "ended" \/ clientGone) ~> reader \in {"eof", "stopped", "finished", "left"}

\* A writer that meets a broken pipe ends its thread, and frees what it holds.
WriterEnds == (readerClosed /\ writer \notin {"header", "body"}) ~> writer = "ended"

\* Neither thread of a pipe waits for ever.
PipeEnds == ReadReturns /\ WriterEnds
=============================================================================
