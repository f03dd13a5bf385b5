----------------------------- MODULE ProxyConnect -----------------------------
(***************************************************************************)
(* NIOHTTP1ProxyConnectHandler: it asks a proxy for a tunnel and holds     *)
(* back what the application writes until the tunnel is there.             *)
(*                                                                         *)
(* The application's writes are numbered in the order of its calls; the    *)
(* CONNECT request, head and end, is message 0.  Replaying the writes      *)
(* calls handlers and callbacks of promises, which may write and flush     *)
(* again, so the loop of removeHandler is one step per write.  The         *)
(* callbacks failWithError runs find it failed already: a write there      *)
(* fails like one that comes later.                                        *)
(***************************************************************************)
EXTENDS Naturals, Sequences, SequencesExt

CONSTANT MaxWrites  \* bound: the writes of the application

ASSUME WritesAssumption == MaxWrites \in Nat

VARIABLES
  state,     \* the handler's state, a failed one without its error
  timeout,   \* whether the deadline is still scheduled
  buffer,    \* bufferedWrittenMessages
  marked,    \* the buffered write with the mark, if any: the last flush followed it
  promise,   \* the promise for the result
  handler,   \* where the handler is: draining is the loop of removeHandler
  channel,   \* the channel; one that is active may still have to say so
  announced, \* channelActive has been fired
  proxy,     \* what the proxy's answer has got to
  count,     \* the number of writes so far
  failed,    \* the writes whose promise was failed
  out,       \* what the handlers nearer to the network were given while the channel was active
  flushed,   \* how much of it was flushed
  asked,     \* the last write the application flushed
  crashed    \* a preconditionFailure

handlerVars == <<state, timeout, buffer, marked, promise, handler, failed, crashed>>
vars == <<handlerVars, channel, announced, proxy, count, out, flushed, asked>>

Init ==
  /\ state = "initialized"
  /\ timeout = FALSE
  /\ buffer = <<>>
  /\ marked = {}
  /\ promise = "pending"
  /\ handler = "absent"
  /\ channel = "connecting"
  /\ announced = FALSE
  /\ proxy = "silent"
  /\ count = 0
  /\ failed = {}
  /\ out = <<>>
  /\ flushed = 0
  /\ asked = 0
  /\ crashed = FALSE

InPipeline == handler \in {"added", "draining"}

-----------------------------------------------------------------------------
(* The handler's helpers.                                                  *)

\* Mutant: the deadline is not scheduled.
SendConnectUntimed ==
  IF state = "initialized"
    THEN /\ state' = "connectSent"
         /\ out' = <<0>>
         /\ flushed' = 1
         /\ UNCHANGED timeout
    ELSE UNCHANGED <<state, timeout, out, flushed>>

SendConnect ==
  IF state = "initialized"
    THEN /\ state' = "connectSent"
         /\ timeout' = TRUE
         /\ out' = <<0>>
         /\ flushed' = 1
    ELSE UNCHANGED <<state, timeout, out, flushed>>

\* Closing a channel that never was active fires no channelInactive.
Closing == IF channel = "active" THEN "closing"
           ELSE IF channel = "connecting" THEN "closed" ELSE channel

\* Mutant: the buffered writes are dropped.
FailWithErrorDropping ==
  IF state = "failed"
    THEN UNCHANGED <<state, promise, buffer, marked, failed>>
    ELSE /\ state' = "failed"
         /\ promise' = IF promise = "pending" THEN "failed" ELSE promise
         /\ buffer' = <<>>
         /\ marked' = {}
         /\ UNCHANGED failed

\* Mutant: the promise is left to the deadline.
FailWithErrorSilent ==
  IF state = "failed"
    THEN UNCHANGED <<state, promise, buffer, marked, failed>>
    ELSE /\ state' = "failed"
         /\ failed' = failed \cup ToSet(buffer)
         /\ buffer' = <<>>
         /\ marked' = {}
         /\ UNCHANGED promise

\* failWithError, but for closing the channel.
FailWithError ==
  IF state = "failed"
    THEN UNCHANGED <<state, promise, buffer, marked, failed>>
    ELSE /\ state' = "failed"
         /\ promise' = IF promise = "pending" THEN "failed" ELSE promise
         /\ failed' = failed \cup ToSet(buffer)
         /\ buffer' = <<>>
         /\ marked' = {}

FailAndClose ==
  /\ FailWithError
  /\ channel' = IF state = "failed" THEN channel ELSE Closing

-----------------------------------------------------------------------------
(* The pipeline.                                                           *)

HandlerAdded ==
  /\ handler = "absent"
  /\ channel # "closed"
  /\ handler' = "added"
  /\ IF channel = "active" THEN SendConnect
                           ELSE UNCHANGED <<state, timeout, out, flushed>>
  /\ UNCHANGED <<buffer, marked, promise, failed, crashed, channel, announced, proxy,
                 count, asked>>

ChannelActive ==
  /\ channel = "active"
  /\ ~announced
  /\ announced' = TRUE
  /\ IF InPipeline THEN SendConnect ELSE UNCHANGED <<state, timeout, out, flushed>>
  /\ UNCHANGED <<buffer, marked, promise, handler, failed, crashed, channel, proxy,
                 count, asked>>

\* handlerRemoved finds no buffered writes after removeHandler.
RemoveHandler ==
  /\ handler = "added"
  /\ handler' = "removed"
  /\ FailAndClose
  /\ UNCHANGED <<timeout, crashed, announced, proxy, count, out, flushed, asked>>

\* A closed channel takes its handlers out of the pipeline.
HandlerRemoved ==
  /\ handler = "added"
  /\ channel = "closed"
  /\ handler' = "removed"
  /\ IF state \in {"failed", "completed"} /\ buffer = <<>>
       THEN UNCHANGED <<state, promise, buffer, marked, failed>>
       ELSE FailWithError
  /\ UNCHANGED <<timeout, crashed, channel, announced, proxy, count, out, flushed, asked>>

ChannelInactive ==
  /\ channel = "closing"
  /\ channel' = "closed"
  /\ IF handler = "added" /\ state \in {"initialized", "connectSent", "headReceived"}
       THEN FailWithError /\ timeout' = FALSE
       ELSE UNCHANGED <<state, promise, buffer, marked, failed, timeout>>
  /\ handler # "draining"
  /\ UNCHANGED <<handler, crashed, announced, proxy, count, out, flushed, asked>>

-----------------------------------------------------------------------------
(* The answer of the proxy.  The HTTP decoder delivers one head, then body *)
(* parts, then the end.                                                    *)

Unexpected ==
  /\ crashed' = TRUE
  /\ UNCHANGED <<state, timeout, buffer, marked, promise, handler, failed, channel>>

\* Mutant: a refusal closes the connection and leaves the failure to channelInactive.
HandleHTTPHeadReceivedClosing(status) ==
  /\ IF state = "connectSent"
       THEN /\ state' = IF status = "2xx" THEN "headReceived" ELSE state
            /\ channel' = IF status = "2xx" THEN channel ELSE Closing
            /\ UNCHANGED crashed
       ELSE /\ crashed' = (crashed \/ state # "failed")
            /\ UNCHANGED <<state, channel>>
  /\ UNCHANGED <<timeout, handler, buffer, marked, promise, failed>>

HandleHTTPHeadReceived(status) ==
  /\ CASE state = "connectSent" /\ status = "2xx" ->
            /\ state' = "headReceived"
            /\ UNCHANGED <<buffer, marked, promise, failed, channel, crashed>>
       [] state = "connectSent" /\ status # "2xx" -> FailAndClose /\ UNCHANGED crashed
       [] state = "failed" ->
            UNCHANGED <<state, buffer, marked, promise, failed, channel, crashed>>
       [] OTHER -> Unexpected
  /\ UNCHANGED <<timeout, handler>>

HandleHTTPBodyReceived ==
  /\ CASE state = "headReceived" -> FailAndClose /\ timeout' = FALSE /\ UNCHANGED crashed
       [] state = "failed" ->
            UNCHANGED <<state, timeout, buffer, marked, promise, failed, channel, crashed>>
       [] OTHER -> Unexpected
  /\ UNCHANGED handler

\* Mutant: the promise succeeds before the buffered writes are on their way.
HandleHTTPEndReceivedEarly ==
  /\ CASE state = "headReceived" ->
            /\ state' = "completed"
            /\ timeout' = FALSE
            /\ handler' = "draining"
            /\ promise' = "succeeded"
            /\ UNCHANGED <<buffer, marked, failed, channel, crashed>>
       [] state = "failed" -> UNCHANGED <<handlerVars, channel>>
       [] OTHER -> Unexpected

HandleHTTPEndReceived ==
  CASE state = "headReceived" ->
         /\ state' = "completed"
         /\ timeout' = FALSE
         /\ handler' = "draining"
         /\ UNCHANGED <<buffer, marked, promise, failed, channel, crashed>>
    [] state = "failed" -> UNCHANGED <<handlerVars, channel>>
    [] OTHER -> Unexpected

ChannelRead ==
  /\ handler = "added"
  /\ channel # "closed"
  /\ \/ \E status \in {"2xx", "407", "other"} :
          /\ proxy = "silent"
          /\ 0 \in ToSet(out)
          /\ proxy' = "head"
          /\ HandleHTTPHeadReceived(status)
     \/ proxy = "head" /\ HandleHTTPBodyReceived /\ UNCHANGED proxy
     \/ proxy = "head" /\ HandleHTTPEndReceived /\ proxy' = "end"
  /\ UNCHANGED <<announced, count, out, flushed, asked>>

-----------------------------------------------------------------------------
(* Replaying the writes, which ends with the removal of the handler.       *)

\* A channel that is not active fails what it is given.
Forward(w) ==
  IF channel = "active"
    THEN out' = Append(out, w) /\ UNCHANGED failed
    ELSE failed' = failed \cup {w} /\ UNCHANGED out

\* Mutant: the marks are not looked at.
DrainWriteUnflushed ==
  /\ handler = "draining"
  /\ buffer # <<>>
  /\ Forward(Head(buffer))
  /\ buffer' = Tail(buffer)
  /\ marked' = marked \ {Head(buffer)}
  /\ UNCHANGED <<state, timeout, promise, handler, crashed, channel, announced, proxy,
                 count, asked, flushed>>

DrainWrite ==
  /\ handler = "draining"
  /\ buffer # <<>>
  /\ Forward(Head(buffer))
  /\ buffer' = Tail(buffer)
  /\ marked' = marked \ {Head(buffer)}
  /\ flushed' = IF Head(buffer) \in marked THEN Len(out') ELSE flushed
  /\ UNCHANGED <<state, timeout, promise, handler, crashed, channel, announced, proxy,
                 count, asked>>

DrainEnd ==
  /\ handler = "draining"
  /\ buffer = <<>>
  /\ handler' = "removed"
  /\ promise' = "succeeded"
  /\ UNCHANGED <<state, timeout, buffer, marked, failed, crashed, channel, announced, proxy,
                 count, out, flushed, asked>>

-----------------------------------------------------------------------------
(* The deadline and the connection.                                        *)

Deadline ==
  /\ timeout
  /\ timeout' = FALSE
  /\ handler # "draining"
  /\ CASE state = "initialized" -> Unexpected
       [] state \in {"connectSent", "headReceived"} -> FailAndClose /\ UNCHANGED crashed
       [] OTHER -> UNCHANGED <<state, promise, buffer, marked, failed, channel, crashed>>
  /\ UNCHANGED <<handler, announced, proxy, count, out, flushed, asked>>

Connected ==
  /\ channel = "connecting"
  /\ channel' = "active"
  /\ UNCHANGED <<handlerVars, announced, proxy, count, out, flushed, asked>>

\* The application, the peer or an error closes the channel.
ConnectionLost ==
  /\ channel \in {"connecting", "active"}
  /\ channel' = Closing
  /\ UNCHANGED <<handlerVars, announced, proxy, count, out, flushed, asked>>

-----------------------------------------------------------------------------
(* The application.                                                        *)

\* Mutant: a write during the replay overtakes what is buffered.
WriteThrough ==
  /\ handler # "absent"
  /\ count < MaxWrites
  /\ count' = count + 1
  /\ LET w == count + 1 IN
     IF InPipeline /\ state # "completed"
       THEN IF state = "failed"
              THEN failed' = failed \cup {w} /\ UNCHANGED <<buffer, out>>
              ELSE buffer' = Append(buffer, w) /\ UNCHANGED <<failed, out>>
       ELSE Forward(w) /\ UNCHANGED buffer
  /\ UNCHANGED <<state, timeout, marked, promise, handler, crashed, channel, announced,
                 proxy, flushed, asked>>

Write ==
  /\ handler # "absent"
  /\ count < MaxWrites
  /\ count' = count + 1
  /\ LET w == count + 1 IN
     IF InPipeline
       THEN IF state = "failed"
              THEN failed' = failed \cup {w} /\ UNCHANGED <<buffer, out>>
              ELSE buffer' = Append(buffer, w) /\ UNCHANGED <<failed, out>>
       ELSE Forward(w) /\ UNCHANGED buffer
  /\ UNCHANGED <<state, timeout, marked, promise, handler, crashed, channel, announced,
                 proxy, flushed, asked>>

\* A flush marks the last buffered write; a flush that finds none goes no further, so
\* during the replay it does not ask for what the replay has passed on already.
Flush ==
  /\ handler # "absent"
  /\ asked < count
  /\ IF InPipeline
       THEN /\ marked' = IF buffer = <<>> THEN marked ELSE {Last(buffer)}
            /\ UNCHANGED flushed
       ELSE /\ flushed' = Len(out)
            /\ UNCHANGED marked
  /\ asked' = IF handler = "draining" /\ buffer = <<>> THEN asked ELSE count
  /\ UNCHANGED <<state, timeout, buffer, promise, handler, failed, crashed, channel,
                 announced, proxy, count, out>>

-----------------------------------------------------------------------------

Next ==
  \/ HandlerAdded
  \/ ChannelActive
  \/ RemoveHandler
  \/ HandlerRemoved
  \/ ChannelInactive
  \/ ChannelRead
  \/ DrainWrite
  \/ DrainEnd
  \/ Deadline
  \/ Connected
  \/ ConnectionLost
  \/ Write
  \/ Flush

Spec == Init /\ [][Next]_vars

\* A scheduled deadline comes, a loop that has begun ends, and a connection attempt
\* succeeds or fails.  The proxy and the application owe nothing.
Fairness ==
  /\ WF_vars(Deadline)
  /\ WF_vars(DrainWrite)
  /\ WF_vars(DrainEnd)
  /\ WF_vars(ChannelActive)
  /\ WF_vars(ChannelInactive)
  /\ WF_vars(HandlerRemoved)
  /\ WF_vars(channel = "connecting" /\ (Connected \/ ConnectionLost))

FairSpec == Spec /\ Fairness

-----------------------------------------------------------------------------
(* Correctness.                                                            *)

\* The type of every variable.
TypeOK ==
  /\ state \in {"initialized", "connectSent", "headReceived", "failed", "completed"}
  /\ timeout \in BOOLEAN
  /\ buffer \in Seq(1..MaxWrites)
  /\ marked \subseteq 1..MaxWrites
  /\ promise \in {"pending", "succeeded", "failed"}
  /\ handler \in {"absent", "added", "draining", "removed"}
  /\ channel \in {"connecting", "active", "closing", "closed"}
  /\ announced \in BOOLEAN
  /\ proxy \in {"silent", "head", "end"}
  /\ count \in 0..MaxWrites
  /\ failed \subseteq 1..MaxWrites
  /\ out \in Seq(0..MaxWrites)
  /\ flushed \in 0..(MaxWrites + 1)
  /\ asked \in 0..MaxWrites
  /\ crashed \in BOOLEAN

\* CONNECT is sent once and first, and what follows it are the application's writes in
\* the order of its calls: none is skipped, repeated or overtaken, whether it was
\* buffered, written during the replay or written after the handler had gone.
SentInOrder == \A i \in DOMAIN out : out[i] = i - 1

\* No byte of the application reaches the proxy unless the tunnel is there.
TunnelFirst == Len(out) > 1 => state = "completed"

\* Every write is still buffered, was passed on, or was failed, and only one of these;
\* once the handshake has failed or the handler has gone, nothing is buffered.
NoWriteLost ==
  /\ 1..count = ToSet(buffer) \cup (ToSet(out) \ {0}) \cup failed
  /\ ToSet(buffer) \cap ToSet(out) = {}
  /\ failed \cap (ToSet(buffer) \cup ToSet(out)) = {}
  /\ state = "failed" \/ handler = "removed" => buffer = <<>>

\* What the application flushed does not stay behind when the handler has gone.
FlushKept ==
  handler = "removed" /\ channel = "active" => flushed >= asked + 1

\* What the application writes and flushes before, during and after the replay reaches the
\* tunnel in the order of its calls and flushed, or fails; nothing is left in the handler.
WritesKept == SentInOrder /\ NoWriteLost /\ FlushKept

\* The promise says what happened: it succeeds only with the tunnel there, the handler
\* gone and the buffered writes on their way, and fails with every other end.
PromiseTellsTheTruth ==
  /\ promise = "succeeded" => state = "completed" /\ handler = "removed"
  /\ promise = "failed" <=> state = "failed"
  /\ handler = "removed" => promise # "pending"

\* The handler meets none of the events it rules out with a preconditionFailure.
NoPreconditionFailure == ~crashed

\* A handler that is in a pipeline answers in the end, whatever the proxy does.
AlwaysAnswers == handler # "absent" ~> promise # "pending"
=============================================================================
