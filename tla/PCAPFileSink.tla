----------------------------- MODULE PCAPFileSink -----------------------------
(***************************************************************************)
(* NIOWritePCAPHandler.SynchronizedFileSink: a serial queue of the writes  *)
(* to a file, and of its closing.  The writes may come from any thread;    *)
(* one thread, or its error handler, closes the sink once.                 *)
(***************************************************************************)
EXTENDS Integers, Sequences

VARIABLES
  workQueue,  \* the buffers to write, and "close"
  state,      \* "running", or "error" after the first one
  file,       \* the buffers written in full
  descriptor, \* the file descriptor
  errors,     \* the calls of the error handler
  closer      \* how far the thread that closes the sink is

sinkVars == <<workQueue, state, file, descriptor, errors, closer>>

SinkInit ==
  /\ workQueue = <<>>
  /\ state = "running"
  /\ file = <<>>
  /\ descriptor = "open"
  /\ errors = 0
  /\ closer = "idle"

-----------------------------------------------------------------------------

\* write(buffer:), on the thread that calls it.
EnqueueWrite(buffer) == workQueue' = Append(workQueue, [kind |-> "write", buffer |-> buffer])

\* The work queue runs a write: it does nothing after an error.
WriteSkipped ==
  /\ workQueue # <<>> /\ Head(workQueue).kind = "write"
  /\ state = "error"
  /\ workQueue' = Tail(workQueue)
  /\ UNCHANGED <<state, file, descriptor, errors, closer>>

\* All of the buffer is written, in as many calls as it takes.
WriteDone ==
  /\ workQueue # <<>> /\ Head(workQueue).kind = "write"
  /\ state = "running"
  /\ descriptor = "open"
  /\ workQueue' = Tail(workQueue)
  /\ file' = Append(file, Head(workQueue).buffer)
  /\ UNCHANGED <<state, descriptor, errors, closer>>

\* Mutant: an error is reported, and the sink keeps running.
WriteFailsOnly ==
  /\ workQueue # <<>> /\ Head(workQueue).kind = "write"
  /\ state = "running"
  /\ descriptor = "closed" \/ Head(workQueue).buffer # <<>>
  /\ workQueue' = Tail(workQueue)
  /\ errors' = errors + 1
  /\ UNCHANGED <<state, file, descriptor, closer>>

\* The system refuses some of the buffer, or the file is closed.
WriteFails ==
  /\ workQueue # <<>> /\ Head(workQueue).kind = "write"
  /\ state = "running"
  /\ descriptor = "closed" \/ Head(workQueue).buffer # <<>>
  /\ workQueue' = Tail(workQueue)
  /\ state' = "error"
  /\ errors' = errors + 1
  /\ UNCHANGED <<file, descriptor, closer>>

CloseDone ==
  /\ workQueue # <<>> /\ Head(workQueue).kind = "close"
  /\ workQueue' = Tail(workQueue)
  /\ descriptor' = "closed"
  /\ closer' = "closed"
  /\ UNCHANGED <<state, file, errors>>

\* close(): queued behind the writes.
Close ==
  /\ closer = "idle"
  /\ closer' = "closing"
  /\ workQueue' = Append(workQueue, [kind |-> "close"])
  /\ UNCHANGED <<state, file, descriptor, errors>>

\* syncClose() waits for the writes first.
SyncClose ==
  /\ closer = "idle"
  /\ closer' = "waiting"
  /\ UNCHANGED <<workQueue, state, file, descriptor, errors>>

\* No write of writesGroup is left: syncClose() goes on to the queue.
WritesGroupEmpty ==
  /\ closer = "waiting"
  /\ workQueue = <<>>
  /\ closer' = "closing"
  /\ workQueue' = <<[kind |-> "close"]>>
  /\ UNCHANGED <<state, file, descriptor, errors>>

Work == WriteSkipped \/ WriteDone \/ WriteFails \/ CloseDone \/ WritesGroupEmpty

SinkNext == Work \/ Close \/ SyncClose
=============================================================================
