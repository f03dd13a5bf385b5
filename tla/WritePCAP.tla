------------------------------ MODULE WritePCAP ------------------------------
(***************************************************************************)
(* NIOWritePCAPHandler on a channel, with a fileSink that either writes    *)
(* the fragments to a file or keeps the last ones in a ring.               *)
(*                                                                         *)
(* A byte is a number and the event loop its write's promise lives on; a   *)
(* read is of the bytes that follow the ones read before.  A record of the *)
(* capture has a sender, flags, a sequence number, an acknowledgement and  *)
(* a payload.  Arithmetic on 32 bits is arithmetic on Width here; where    *)
(* Swift would trap, crashed is set.                                       *)
(*                                                                         *)
(* The handler never asks whether the channel is active.  A socket takes   *)
(* writes at any time, and does the rest only from channelActive on; an    *)
(* EmbeddedChannel reads, completes writes, closes a half and tells of its *)
(* end without ever being active.                                          *)
(***************************************************************************)
EXTENDS PCAPRing, PCAPFileSink

CONSTANTS
  Mode,       \* "client" or "server"
  Embedded,   \* the channel is an EmbeddedChannel
  MaxPayload, \* maxPayloadSize
  Width,      \* one more than the largest sequence number
  Sizes,      \* the sizes of reads and writes
  MaxTransfers \* bound: reads and writes

ASSUME CaptureAssumption ==
  /\ Mode \in {"client", "server"}
  /\ Embedded \in BOOLEAN
  /\ MaxPayload \in Nat \ {0}
  /\ Width \in Nat \ {0}
  /\ Sizes \subseteq Nat
  /\ MaxTransfers \in Nat

Settings == {"whenIssued", "whenCompleted"}
Sinks == {"file", "ring"}
Loops == {"own", "other"}

VARIABLES
  emitPCAPWrites,
  fileSink,  \* what the handler was given as one: "file" or "ring"
  closeState,
  readInboundBytes,
  writtenOutboundBytes,
  ring,
  channel,
  ended,     \* what an open channel was asked to end: "in", "out", "refused"
  pending,   \* writes below the handler that have not completed
  hopping,   \* completed writes whose callbacks hop over from another event loop
  transfers, \* the number of reads and writes
  read,      \* the number of bytes read
  issued,    \* the bytes written
  wire,      \* the bytes of writes that completed, in this order
  seen,      \* how many bytes were read before any side began to close
  fragments, \* what was given to fileSink
  forgotten, \* how many fragments emitPCAP has handed out
  due,       \* how many fragments there were when the sink was asked to close
  early,     \* how many fragments there were before channelActive
  first,     \* the number of the first byte of a side: 1 from channelActive on
  crashed

handlerVars == <<emitPCAPWrites, fileSink, closeState, readInboundBytes, writtenOutboundBytes>>
captureVars == <<ring, fragments, forgotten, due, early, first>>
channelVars == <<channel, ended, pending, hopping, transfers, read, issued, wire, seen>>
vars == <<handlerVars, captureVars, channelVars, sinkVars, crashed>>

Init ==
  /\ emitPCAPWrites \in Settings
  /\ fileSink \in Sinks
  /\ closeState = "notClosing"
  /\ readInboundBytes = 0
  /\ writtenOutboundBytes = 0
  /\ ring = EmptyRing
  /\ channel = "connecting"
  /\ ended = {}
  /\ pending = <<>>
  /\ hopping = <<>>
  /\ transfers = 0
  /\ read = 0
  /\ issued = <<>>
  /\ wire = <<>>
  /\ seen = 0
  /\ fragments = <<>>
  /\ forgotten = 0
  /\ due = 0
  /\ early = 0
  /\ first = 0
  /\ crashed = FALSE
  /\ SinkInit

-----------------------------------------------------------------------------
(* Records.                                                                *)

NoAck == -1

Record(from, flags, seq, ack, payload) ==
  [from |-> from, flags |-> flags, seq |-> seq, ack |-> ack, payload |-> payload]

Other(side) == IF side = "local" THEN "remote" ELSE "local"

SequenceNumber(byteCount) == byteCount % Width

\* takeSensiblySizedPayload, until there is nothing left to take.
Pieces(bytes) ==
  [i \in 1..((Len(bytes) + MaxPayload - 1) \div MaxPayload) |->
     SubSeq(bytes, (i - 1) * MaxPayload + 1, Min({i * MaxPayload, Len(bytes)}))]

\* Mutant: every record of an event has the sequence number of the first.
DataRecordsAtOnce(from, byteCount, bytes) ==
  [i \in DOMAIN Pieces(bytes) |->
     Record(from, {}, SequenceNumber(byteCount), NoAck, Pieces(bytes)[i])]

DataRecords(from, byteCount, bytes) ==
  [i \in DOMAIN Pieces(bytes) |->
     Record(from, {}, SequenceNumber(byteCount + (i - 1) * MaxPayload), NoAck,
            Pieces(bytes)[i])]

FileSink(fragment) ==
  /\ fragments' = Append(fragments, fragment)
  /\ IF fileSink = "file" THEN EnqueueWrite(fragment) /\ UNCHANGED ring
                          ELSE ring' = AddFragment(ring, fragment) /\ UNCHANGED workQueue
  /\ UNCHANGED <<forgotten, due, state, file, descriptor, errors, closer>>

NothingEmitted == UNCHANGED <<captureVars, sinkVars>>

-----------------------------------------------------------------------------
(* The handler.                                                            *)

Open == {"connecting", "active"}

\* The channels on which there is traffic.
Running == IF Embedded THEN Open ELSE {"active"}

\* The counters begin again, whatever was captured before.
ChannelActive ==
  /\ channel = "connecting"
  /\ channel' = "active"
  /\ readInboundBytes' = 1
  /\ writtenOutboundBytes' = 1
  /\ early' = Len(fragments)
  /\ first' = 1
  /\ LET client == IF Mode = "client" THEN "local" ELSE "remote" IN
     FileSink(<< Record(client, {"syn"}, 0, NoAck, <<>>),
                 Record(Other(client), {"syn", "ack"}, 0, 1, <<>>),
                 Record(client, {"ack"}, 1, 1, <<>>) >>)
  /\ UNCHANGED <<emitPCAPWrites, fileSink, closeState, ended, pending, hopping, transfers, read,
                 issued, wire, seen, crashed>>

\* n bytes arrive.  They are captured only as long as nobody has begun to close.
ChannelRead(n) ==
  /\ channel \in Running /\ "in" \notin ended
  /\ transfers < MaxTransfers
  /\ transfers' = transfers + 1
  /\ read' = read + n
  /\ seen' = IF ended = {} THEN read + n ELSE seen
  /\ IF closeState # "notClosing" \/ n = 0
       THEN NothingEmitted /\ UNCHANGED readInboundBytes
       ELSE /\ FileSink(DataRecords("remote", readInboundBytes,
                                    [i \in 1..n |-> <<read + i, "own">>]))
            /\ readInboundBytes' = readInboundBytes + n
            /\ UNCHANGED <<early, first>>
  /\ UNCHANGED <<emitPCAPWrites, fileSink, closeState, writtenOutboundBytes, channel, ended,
                 pending, hopping, issued, wire, crashed>>

\* emitWrites.
EmitWrites(bytes) ==
  /\ FileSink(DataRecords("local", writtenOutboundBytes, bytes))
  /\ writtenOutboundBytes' = writtenOutboundBytes + Len(bytes)
  /\ UNCHANGED <<early, first>>

\* A write of n bytes whose promise lives on the given loop, at any time: the handler
\* captures it although the channel may not be active yet, or fail it at once because it
\* does not take writes any more.
Write(n, loop) ==
  LET bytes == [i \in 1..n |-> <<Len(issued) + i, loop>>] IN
  /\ transfers < MaxTransfers
  /\ transfers' = transfers + 1
  /\ issued' = issued \o bytes
  /\ pending' = IF channel \in Open /\ "out" \notin ended
                  THEN Append(pending, [bytes |-> bytes, loop |-> loop]) ELSE pending
  /\ IF emitPCAPWrites = "whenIssued"
       THEN EmitWrites(bytes)
       ELSE NothingEmitted /\ UNCHANGED writtenOutboundBytes
  /\ UNCHANGED <<emitPCAPWrites, fileSink, closeState, readInboundBytes, channel, ended, hopping,
                 read, wire, seen, crashed>>

\* The oldest write has been flushed to the network: its promise succeeds.
WriteCompletes ==
  /\ channel \in Running
  /\ pending # <<>>
  /\ pending' = Tail(pending)
  /\ wire' = wire \o Head(pending).bytes
  /\ CASE emitPCAPWrites = "whenIssued" ->
            NothingEmitted /\ UNCHANGED <<writtenOutboundBytes, hopping>>
       [] emitPCAPWrites = "whenCompleted" /\ Head(pending).loop = "own" ->
            EmitWrites(Head(pending).bytes) /\ UNCHANGED hopping
       [] OTHER ->
            /\ hopping' = Append(hopping, Head(pending).bytes)
            /\ NothingEmitted /\ UNCHANGED writtenOutboundBytes
  /\ UNCHANGED <<emitPCAPWrites, fileSink, closeState, readInboundBytes, channel, ended,
                 transfers, read, issued, seen, crashed>>

\* The callback of a promise of another loop arrives.
Hop ==
  /\ hopping # <<>>
  /\ hopping' = Tail(hopping)
  /\ EmitWrites(Head(hopping))
  /\ UNCHANGED <<emitPCAPWrites, fileSink, closeState, readInboundBytes, channel, ended, pending,
                 transfers, read, issued, wire, seen, crashed>>

ClosedBy(side) == closeState' = IF closeState = "notClosing" THEN side ELSE closeState

\* ChannelEvent.inputClosed.
InputClosed ==
  /\ channel \in Running /\ "in" \notin ended
  /\ ended' = ended \cup {"in"}
  /\ ClosedBy("closedInitiatorRemote")
  /\ NothingEmitted
  /\ UNCHANGED <<emitPCAPWrites, fileSink, readInboundBytes, writtenOutboundBytes, channel, pending,
                 hopping, transfers, read, issued, wire, seen, crashed>>

\* close(mode: .output): the channel goes on reading.
CloseOutput ==
  /\ channel \in Running /\ "out" \notin ended
  /\ ended' = ended \cup {"out"}
  /\ pending' = <<>>
  /\ ClosedBy("closedInitiatorLocal")
  /\ NothingEmitted
  /\ UNCHANGED <<emitPCAPWrites, fileSink, readInboundBytes, writtenOutboundBytes, channel, hopping,
                 transfers, read, issued, wire, seen, crashed>>

\* A close that the channel refuses, because it is closed already or does not close this
\* half: the handler takes the first such close for the end all the same.
CloseRefused ==
  /\ closeState = "notClosing"
  /\ ended' = ended \cup {"refused"}
  /\ ClosedBy("closedInitiatorLocal")
  /\ NothingEmitted
  /\ UNCHANGED <<emitPCAPWrites, fileSink, readInboundBytes, writtenOutboundBytes, channel, pending,
                 hopping, transfers, read, issued, wire, seen, crashed>>

\* close(mode: .all)
CloseAll ==
  /\ channel \in Open
  /\ channel' = "closing"
  /\ pending' = <<>>
  /\ ClosedBy("closedInitiatorLocal")
  /\ NothingEmitted
  /\ UNCHANGED <<emitPCAPWrites, fileSink, readInboundBytes, writtenOutboundBytes, ended, hopping,
                 transfers, read, issued, wire, seen, crashed>>

\* The peer, or an error, ends the connection, or it never came about.
ConnectionLost ==
  /\ channel \in Open
  /\ channel' = "closing"
  /\ pending' = <<>>
  /\ NothingEmitted
  /\ UNCHANGED <<handlerVars, ended, hopping, transfers, read, issued, wire, seen, crashed>>

\* The three records of the end of a connection.
Termination(initiator) ==
  LET local == initiator = "local"
      initiatorSeq == SequenceNumber(IF local THEN writtenOutboundBytes ELSE readInboundBytes)
      recipientSeq == SequenceNumber(IF local THEN readInboundBytes ELSE writtenOutboundBytes) IN
  << Record(initiator, {"fin"}, initiatorSeq, NoAck, <<>>),
     Record(Other(initiator), {"ack", "fin"}, recipientSeq, initiatorSeq + 1, <<>>),
     Record(initiator, {"ack"}, initiatorSeq + 1, recipientSeq + 1, <<>>) >>

\* A sequence number that is the largest one cannot be added to: Swift stops the process.
ChannelInactive ==
  /\ channel = "closing" /\ (first = 1 \/ Embedded)
  /\ channel' = "inactive"
  /\ ClosedBy("closedInitiatorRemote")
  /\ IF Width - 1 \in {SequenceNumber(readInboundBytes), SequenceNumber(writtenOutboundBytes)}
       THEN crashed' = TRUE /\ NothingEmitted
       ELSE /\ FileSink(Termination(IF closeState' = "closedInitiatorLocal" THEN "local"
                                                                          ELSE "remote"))
            /\ UNCHANGED <<early, first, crashed>>
  /\ UNCHANGED <<emitPCAPWrites, fileSink, readInboundBytes, writtenOutboundBytes, ended,
                 pending, hopping, transfers, read, issued, wire, seen>>

-----------------------------------------------------------------------------
(* The consumers of the capture.                                           *)

\* emitPCAP, called by the application.
EmitPCAP ==
  /\ ring # EmptyRing
  /\ ring' = EmptyRing
  /\ forgotten' = Len(fragments)
  /\ UNCHANGED <<handlerVars, channelVars, fragments, due, early, first, sinkVars, crashed>>

\* The sink on its own thread, and the thread that closes it.
Sink ==
  /\ fileSink = "file"
  /\ SinkNext
  /\ due' = IF closer = "idle" /\ closer' # "idle" THEN Len(fragments) ELSE due
  /\ UNCHANGED <<handlerVars, channelVars, ring, fragments, forgotten, early, first, crashed>>

-----------------------------------------------------------------------------

Next ==
  /\ ~crashed
  /\ \/ ChannelActive
     \/ \E n \in Sizes : ChannelRead(n)
     \/ \E n \in Sizes, loop \in Loops : Write(n, loop)
     \/ WriteCompletes
     \/ Hop
     \/ InputClosed
     \/ CloseOutput
     \/ CloseRefused
     \/ CloseAll
     \/ ConnectionLost
     \/ ChannelInactive
     \/ EmitPCAP
     \/ Sink

Spec == Init /\ [][Next]_vars

\* The work queue runs what it was given.
FairSpec == Spec /\ WF_vars(~crashed /\ Sink /\ Work)

-----------------------------------------------------------------------------
(* Correctness.                                                            *)

\* What the records of a side carry.
PayloadFrom(records, side) ==
  FlattenSeq([i \in DOMAIN records |->
                IF records[i].from = side THEN records[i].payload ELSE <<>>])

OnLoop(bytes, loop) ==
  FlattenSeq([i \in DOMAIN bytes |-> IF bytes[i][2] = loop THEN <<bytes[i]>> ELSE <<>>])

\* The records of each side, up to its end, are numbered without a gap, from the given
\* number on and modulo the width, and no record of data is empty or too large.
NumbersFollow(records, side, from) ==
  \A i \in DOMAIN records :
    records[i].from = side =>
      /\ records[i].flags = {} => Len(records[i].payload) \in 1..MaxPayload
      /\ records[i].flags = {} \/ "fin" \in records[i].flags =>
           records[i].seq = (from + Len(PayloadFrom(SubSeq(records, 1, i - 1), side))) % Width

\* The capture is the conversation: what was read before anybody began to close, and of the
\* writes what the settings ask for: all of them as they were issued, or those that
\* completed, in the order of the wire as far as their promises live on one loop.  Its
\* numbers follow, up to and including the end: from 1 on behind the handshake, and from 0
\* on in what was captured before it, or without one.
CaptureIsTheConversation ==
  LET records == FlattenSeq(fragments)
      before == FlattenSeq(SubSeq(fragments, 1, early))
      behind == FlattenSeq(SubSeq(fragments, early + 1, Len(fragments)))
      local == PayloadFrom(records, "local") IN
  /\ \A side \in {"local", "remote"} :
       NumbersFollow(before, side, 0) /\ NumbersFollow(behind, side, first)
  /\ PayloadFrom(records, "remote") = [i \in 1..seen |-> <<i, "own">>]
  /\ emitPCAPWrites = "whenIssued" => local = issued
  /\ emitPCAPWrites = "whenCompleted" =>
       \A loop \in Loops :
         OnLoop(local \o FlattenSeq(hopping), loop) = OnLoop(wire, loop)

\* However the fragments came, the ring holds as many of the last ones as its two limits
\* allow, and counts their bytes.
RingIsLatest ==
  fileSink = "ring" =>
    /\ ring.fragments = Latest(SubSeq(fragments, forgotten + 1, Len(fragments)))
    /\ ring.bytes = BytesOfAll(ring.fragments)

\* The file holds the capture from its beginning, in order and without a gap, and the error
\* handler is called at most once.
FileKeepsPace == IsPrefix(file, fragments) /\ errors <= 1

\* After a close it holds all that had been captured before it, unless there was an error.
FileIsComplete == closer = "closed" => errors = 1 \/ Len(file) >= due

\* Always so, and a close returns.
\* "When errorHandler has been called, no further writes will be attempted and errorHandler
\* will also not be called again" (fileSinkWritingToFile).
FileIsTheCapture ==
  [](FileKeepsPace /\ FileIsComplete) /\ (closer # "idle" ~> closer = "closed" \/ crashed)

\* However many bytes went through, the capture does not stop the process
\* (testWeDoNotCrashIfMoreThan4GBOfDataGoThrough).
NoCrash == ~crashed
=============================================================================
