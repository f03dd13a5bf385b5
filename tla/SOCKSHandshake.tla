---------------------------- MODULE SOCKSHandshake ----------------------------
(***************************************************************************)
(* SOCKSClientHandler and SOCKSServerHandshakeHandler at the two ends of a *)
(* connection that delivers bytes in order and in pieces of any size.      *)
(*                                                                         *)
(* handleProxyEstablished and writeBufferedData call out of the client's   *)
(* handler -- the event, the bytes that followed the handshake, every      *)
(* write and flush -- and what is called may write, flush and remove the   *)
(* handler before it returns.  What is left to do when it returns is kept  *)
(* on a stack; a nested call puts its own work on top.                     *)
(*                                                                         *)
(* The data of the tunnel is one byte per write, named by a number: 100 +  *)
(* w is write w of the client's application, 200 + w that of the server's. *)
(* No handler looks at these bytes, so the names may exceed a byte.        *)
(***************************************************************************)
EXTENDS SOCKSMessages, SequencesExt

CONSTANTS
  TargetAddress,   \* the address in the request
  BoundAddress,    \* the address in the response
  MaxWrites,       \* bound: the writes of the client's application
  MaxServerWrites  \* bound: those of the server's

ASSUME AddressAssumption == IsAddress(TargetAddress) /\ IsAddress(BoundAddress)
ASSUME WritesAssumption == MaxWrites \in Nat /\ MaxServerWrites \in Nat

VARIABLES
  channel,       \* the client's channel
  announced,     \* channelActive has been fired
  clientState,   \* the state of ClientStateMachine
  clientBuffer,  \* the client's inboundBuffer
  bufferedWrites,
  mark,          \* the marked buffered write, or 0
  removal,       \* whether the removal of the client's handler was asked for
  handler,       \* where the client's handler is
  stack,         \* what calls out of the client's handler have left to do
  sent,          \* what the client gave to the network
  flushed,       \* how much of it was flushed
  count,         \* the number of writes of the client's application
  asked,         \* the last of them it flushed
  failed,        \* those that failed
  received,      \* what the client's application received
  toServer,      \* bytes on their way to the server
  toClient,      \* bytes on their way to the client
  serverState,   \* the state of ServerStateMachine
  serverBuffer,  \* the server's inboundBuffer
  serverHandler, \* where the server's handler is
  messages,      \* the messages of the client that the server's application received
  serverReceived,\* the bytes of the tunnel that it received
  serverCount,   \* the number of its own writes
  refused        \* it chose a method the client does not know, or replied with an error

clientVars == <<channel, announced, clientState, clientBuffer, bufferedWrites, mark, removal,
                handler, stack, sent, flushed, count, asked, failed, received>>
serverVars == <<serverState, serverBuffer, serverHandler, messages, serverReceived,
                serverCount, refused>>
vars == <<clientVars, serverVars, toServer, toClient>>

Hello == WriteClientGreeting(<<NoneRequired>>) \o WriteClientRequest(TargetAddress)

Init ==
  /\ channel = "connecting"
  /\ announced = FALSE
  /\ clientState = "inactive"
  /\ clientBuffer = <<>>
  /\ bufferedWrites = <<>>
  /\ mark = 0
  /\ removal = FALSE
  /\ handler = "absent"
  /\ stack = <<>>
  /\ sent = <<>>
  /\ flushed = 0
  /\ count = 0
  /\ asked = 0
  /\ failed = {}
  /\ received = <<>>
  /\ toServer = <<>>
  /\ toClient = <<>>
  /\ serverState = "waitingForClientGreeting"
  /\ serverBuffer = <<>>
  /\ serverHandler = "added"
  /\ messages = <<>>
  /\ serverReceived = <<>>
  /\ serverCount = 0
  /\ refused = FALSE

-----------------------------------------------------------------------------
(* The network below the client's handler.                                 *)

WriteAndFlush(bytes) ==
  /\ sent' = sent \o bytes
  /\ flushed' = Len(sent')
  /\ toServer' = toServer \o SubSeq(sent', flushed + 1, Len(sent'))

\* Giving up: the channel is closed and delivers no more.
CloseClient ==
  /\ channel' = "closed"
  /\ toClient' = <<>>

\* Mutant: the promise of a write on a closed channel is forgotten.
ForwardSilently(w) ==
  IF channel = "active"
    THEN sent' = Append(sent, 100 + w) /\ UNCHANGED failed
    ELSE UNCHANGED <<sent, failed>>

\* A write that leaves the handler: a channel that is not active fails it.
Forward(w) ==
  IF channel = "active"
    THEN sent' = Append(sent, 100 + w) /\ UNCHANGED failed
    ELSE failed' = failed \cup {w} /\ UNCHANGED sent

FlushNetwork ==
  IF channel = "active"
    THEN /\ flushed' = Len(sent)
         /\ toServer' = toServer \o SubSeq(sent, flushed + 1, Len(sent))
    ELSE UNCHANGED <<flushed, toServer>>

-----------------------------------------------------------------------------
(* The client's handler.                                                   *)

BeginHandshake ==
  IF channel = "active" /\ clientState = "inactive"
    THEN /\ clientState' = "waitingForAuthenticationMethod"
         /\ WriteAndFlush(WriteClientGreeting(<<NoneRequired>>))
    ELSE UNCHANGED <<clientState, sent, flushed, toServer>>

\* Mutant: only channelActive begins the handshake.
HandlerAddedPassive ==
  /\ handler = "absent"
  /\ channel # "closed"
  /\ handler' = "added"
  /\ UNCHANGED <<channel, announced, clientState, clientBuffer, bufferedWrites, mark, removal,
                 stack, sent, flushed, count, asked, failed, received, toServer, toClient,
                 serverVars>>

HandlerAdded ==
  /\ handler = "absent"
  /\ channel # "closed"
  /\ handler' = "added"
  /\ BeginHandshake
  /\ UNCHANGED <<channel, announced, clientBuffer, bufferedWrites, mark, removal, stack, count,
                 asked, failed, received, toClient, serverVars>>

ChannelActive ==
  /\ channel = "active"
  /\ ~announced
  /\ announced' = TRUE
  /\ IF handler = "added" THEN BeginHandshake
                          ELSE UNCHANGED <<clientState, sent, flushed, toServer>>
  /\ UNCHANGED <<channel, clientBuffer, bufferedWrites, mark, removal, handler, stack, count,
                 asked, failed, received, toClient, serverVars>>

HandleSelectedAuthenticationMethod(buffer) ==
  LET read == ReadMethodSelection(buffer) IN
  CASE read.result = "more" ->
         /\ clientBuffer' = buffer
         /\ UNCHANGED <<clientState, sent, flushed, toServer, channel, stack>>
    [] read.result = "found" /\ read.value = NoneRequired ->
         /\ clientBuffer' = SubSeq(buffer, read.length + 1, Len(buffer))
         /\ clientState' = "waitingForServerResponse"
         /\ WriteAndFlush(WriteClientRequest(TargetAddress))
         /\ UNCHANGED <<channel, stack>>
    [] OTHER ->
         /\ clientBuffer' = buffer
         /\ clientState' = "error"
         /\ channel' = "closed"
         /\ UNCHANGED <<sent, flushed, toServer, stack>>

\* Mutant: what follows the response is dropped with it.
HandleServerResponseClearing(buffer) ==
  LET read == ReadServerResponse(buffer) IN
  /\ clientBuffer' = IF read.result = "found" THEN <<>> ELSE buffer
  /\ clientState' = CASE read.result = "more" -> clientState
                      [] read.result = "found" /\ read.value.code = Succeeded -> "active"
                      [] OTHER -> "error"
  /\ channel' = IF clientState' = "error" THEN "closed" ELSE channel
  /\ stack' = IF clientState' = "active" THEN <<"empty", "established">> ELSE stack
  /\ UNCHANGED <<sent, flushed, toServer>>

\* Mutant: the reply in the response is not looked at.
HandleServerResponseAny(buffer) ==
  LET read == ReadServerResponse(buffer) IN
  /\ IF read.result = "found"
       THEN /\ clientBuffer' = SubSeq(buffer, read.length + 1, Len(buffer))
            /\ clientState' = "active"
            /\ stack' = <<"empty", "established">>
       ELSE clientBuffer' = buffer /\ UNCHANGED <<clientState, stack>>
  /\ UNCHANGED <<channel, sent, flushed, toServer>>

\* The event is fired: what follows it is left on the stack.
HandleServerResponse(buffer) ==
  LET read == ReadServerResponse(buffer) IN
  /\ CASE read.result = "more" ->
            /\ clientBuffer' = buffer
            /\ UNCHANGED <<clientState, channel, stack>>
       [] read.result = "found" /\ read.value.code = Succeeded ->
            /\ clientBuffer' = SubSeq(buffer, read.length + 1, Len(buffer))
            /\ clientState' = "active"
            /\ stack' = <<"empty", "established">>
            /\ UNCHANGED channel
       [] OTHER ->
            /\ clientBuffer' = buffer
            /\ clientState' = "error"
            /\ channel' = "closed"
            /\ UNCHANGED stack
  /\ UNCHANGED <<sent, flushed, toServer>>

\* Nothing else can have been asked for: the state machine throws UnexpectedRead.
UnexpectedRead(buffer) ==
  /\ clientBuffer' = buffer
  /\ clientState' = "error"
  /\ channel' = "closed"
  /\ UNCHANGED <<sent, flushed, toServer, stack>>

\* n bytes arrive.
ChannelRead(n) ==
  /\ channel = "active"
  /\ handler # "absent"
  /\ stack = <<>>
  /\ n \in DOMAIN toClient
  /\ LET data == SubSeq(toClient, 1, n) IN
     IF clientState = "active" \/ handler = "removed"
       THEN /\ received' = received \o data
            /\ UNCHANGED <<clientBuffer, clientState, channel, sent, flushed, toServer, stack>>
       ELSE /\ CASE clientState = "waitingForAuthenticationMethod" ->
                      HandleSelectedAuthenticationMethod(clientBuffer \o data)
                 [] clientState = "waitingForServerResponse" ->
                      HandleServerResponse(clientBuffer \o data)
                 [] OTHER -> UnexpectedRead(clientBuffer \o data)
            /\ UNCHANGED received
  /\ toClient' = IF channel' = "closed" THEN <<>> ELSE SubSeq(toClient, n + 1, Len(toClient))
  /\ UNCHANGED <<announced, bufferedWrites, mark, removal, handler, count, asked, failed,
                 serverVars>>

\* Mutant: a write is passed on as soon as the tunnel is there, whatever is buffered.
WriteThrough ==
  /\ handler # "absent"
  /\ count < MaxWrites
  /\ count' = count + 1
  /\ IF handler = "removed" \/ clientState = "active"
       THEN Forward(count + 1) /\ UNCHANGED bufferedWrites
       ELSE bufferedWrites' = Append(bufferedWrites, count + 1) /\ UNCHANGED <<sent, failed>>
  /\ UNCHANGED <<channel, announced, clientState, clientBuffer, mark, removal, handler, stack,
                 flushed, asked, received, toServer, toClient, serverVars>>

Write ==
  /\ handler # "absent"
  /\ count < MaxWrites
  /\ count' = count + 1
  /\ IF handler = "removed" \/ (clientState = "active" /\ bufferedWrites = <<>>)
       THEN Forward(count + 1) /\ UNCHANGED bufferedWrites
       ELSE bufferedWrites' = Append(bufferedWrites, count + 1) /\ UNCHANGED <<sent, failed>>
  /\ UNCHANGED <<channel, announced, clientState, clientBuffer, mark, removal, handler, stack,
                 flushed, asked, received, toServer, toClient, serverVars>>

\* Mutant: only the marked writes are written.
WriteMarkedData == <<"marked">>

WriteBufferedData == <<"marked", "rest">>

Flush ==
  /\ handler # "absent"
  /\ asked < count
  /\ asked' = count
  /\ IF handler = "removed"
       THEN FlushNetwork /\ UNCHANGED <<mark, stack>>
       ELSE /\ mark' = IF bufferedWrites = <<>> THEN mark ELSE Last(bufferedWrites)
            /\ stack' = IF clientState = "active" THEN WriteBufferedData \o stack ELSE stack
            /\ UNCHANGED <<flushed, toServer>>
  /\ UNCHANGED <<channel, announced, clientState, clientBuffer, bufferedWrites, removal, handler,
                 sent, count, failed, received, toClient, serverVars>>

RemoveHandler ==
  /\ handler = "added"
  /\ ~removal
  /\ removal' = TRUE
  /\ stack' = IF clientState = "active" THEN <<"empty", "leave">> \o stack ELSE stack
  /\ UNCHANGED <<channel, announced, clientState, clientBuffer, bufferedWrites, mark, handler,
                 sent, flushed, count, asked, failed, received, toServer, toClient, serverVars>>

-----------------------------------------------------------------------------
(* What the client's handler does when a call out of it returns.  A handler *)
(* that was removed meanwhile is no longer connected to the pipeline.      *)

ForwardBuffered ==
  /\ bufferedWrites' = Tail(bufferedWrites)
  /\ mark' = IF Head(bufferedWrites) = mark THEN 0 ELSE mark
  /\ IF handler = "added"
       THEN Forward(Head(bufferedWrites))
       ELSE failed' = failed \cup {Head(bufferedWrites)} /\ UNCHANGED sent

\* emptyInboundAndOutboundBuffer hands on the bytes that followed the handshake.
ContinueEmpty ==
  /\ stack # <<>> /\ Head(stack) = "empty"
  /\ received' = IF handler = "added" THEN received \o clientBuffer ELSE received
  /\ clientBuffer' = <<>>
  /\ stack' = WriteBufferedData \o Tail(stack)
  /\ UNCHANGED <<channel, announced, clientState, bufferedWrites, mark, removal, handler, sent,
                 flushed, count, asked, failed, toServer, toClient, serverVars>>

\* The loop over the marked writes, which ends with a flush.
ContinueMarked ==
  /\ stack # <<>> /\ Head(stack) = "marked"
  /\ IF mark # 0
       THEN ForwardBuffered /\ UNCHANGED <<stack, flushed, toServer>>
       ELSE /\ stack' = Tail(stack)
            /\ IF handler = "added" THEN FlushNetwork ELSE UNCHANGED <<flushed, toServer>>
            /\ UNCHANGED <<bufferedWrites, mark, sent, failed>>
  /\ UNCHANGED <<channel, announced, clientState, clientBuffer, removal, handler, count, asked,
                 received, toClient, serverVars>>

\* The loop over the other ones.
ContinueRest ==
  /\ stack # <<>> /\ Head(stack) = "rest"
  /\ IF bufferedWrites # <<>>
       THEN ForwardBuffered /\ UNCHANGED stack
       ELSE stack' = Tail(stack) /\ UNCHANGED <<bufferedWrites, mark, sent, failed>>
  /\ UNCHANGED <<channel, announced, clientState, clientBuffer, removal, handler, flushed, count,
                 asked, received, toServer, toClient, serverVars>>

\* The end of handleProxyEstablished, which leaves the pipeline if it was asked to before,
\* and the end of removeHandler.
ContinueLeave ==
  /\ stack # <<>> /\ Head(stack) \in {"established", "leave"}
  /\ stack' = Tail(stack)
  /\ handler' = IF removal THEN "removed" ELSE handler
  /\ UNCHANGED <<channel, announced, clientState, clientBuffer, bufferedWrites, mark, removal,
                 sent, flushed, count, asked, failed, received, toServer, toClient, serverVars>>

Continue == ContinueEmpty \/ ContinueMarked \/ ContinueRest \/ ContinueLeave

-----------------------------------------------------------------------------
(* The client's channel.                                                   *)

Connected ==
  /\ channel = "connecting"
  /\ channel' = "active"
  /\ UNCHANGED <<announced, clientState, clientBuffer, bufferedWrites, mark, removal, handler,
                 stack, sent, flushed, count, asked, failed, received, toServer, toClient,
                 serverVars>>

\* The client's application, an error or the peer closes the connection.
ConnectionLost ==
  /\ channel # "closed"
  /\ CloseClient
  /\ UNCHANGED <<announced, clientState, clientBuffer, bufferedWrites, mark, removal, handler,
                 stack, sent, flushed, count, asked, failed, received, toServer, serverVars>>

\* A closed channel takes its handlers out of the pipeline.
Teardown ==
  /\ channel = "closed"
  /\ handler = "added"
  /\ stack = <<>>
  /\ handler' = "removed"
  /\ UNCHANGED <<channel, announced, clientState, clientBuffer, bufferedWrites, mark, removal,
                 stack, sent, flushed, count, asked, failed, received, toServer, toClient,
                 serverVars>>

-----------------------------------------------------------------------------
(* The server's handler and its application.                               *)

\* A message that the state machine waits for, once there are enough bytes.
ReceiveMessage(read, kind, next, buffer) ==
  CASE read.result = "more" ->
         /\ serverBuffer' = buffer
         /\ UNCHANGED <<serverState, messages>>
    [] read.result = "found" ->
         /\ serverBuffer' = SubSeq(buffer, read.length + 1, Len(buffer))
         /\ serverState' = next
         /\ messages' = Append(messages, [kind |-> kind, value |-> read.value])
    [] OTHER ->
         /\ serverBuffer' = buffer
         /\ serverState' = "error"
         /\ UNCHANGED messages

ServerReceives(buffer) ==
  CASE serverState = "waitingForClientGreeting" ->
         ReceiveMessage(ReadClientGreeting(buffer), "greeting",
                        "waitingToSendAuthenticationMethod", buffer)
    [] serverState = "waitingForClientRequest" ->
         ReceiveMessage(ReadClientRequest(buffer), "request", "waitingToSendResponse", buffer)
    [] serverState = "authenticating" ->
         /\ serverBuffer' = <<>>
         /\ messages' = Append(messages, [kind |-> "authenticationData", value |-> buffer])
         /\ UNCHANGED serverState
    [] serverState = "active" ->
         /\ serverBuffer' = buffer
         /\ UNCHANGED <<serverState, messages>>
    [] OTHER ->
         /\ serverBuffer' = buffer
         /\ serverState' = "error"
         /\ UNCHANGED messages

\* n bytes arrive.
ServerChannelRead(n) ==
  /\ n \in DOMAIN toServer
  /\ toServer' = SubSeq(toServer, n + 1, Len(toServer))
  /\ LET data == SubSeq(toServer, 1, n) IN
     IF serverHandler = "added"
       THEN ServerReceives(serverBuffer \o data) /\ UNCHANGED serverReceived
       ELSE /\ serverReceived' = serverReceived \o data
            /\ UNCHANGED <<serverBuffer, serverState, messages>>
  /\ UNCHANGED <<clientVars, toClient, serverHandler, serverCount, refused>>

\* What the server gives to the network, which loses it once the client has closed.
ServerWrites(bytes) ==
  toClient' = IF channel = "closed" THEN <<>> ELSE toClient \o bytes

SendAuthenticationMethod(method) ==
  /\ serverState = "waitingToSendAuthenticationMethod"
  /\ serverState' = IF method = NoneRequired THEN "waitingForClientRequest" ELSE "authenticating"
  /\ ServerWrites(WriteMethodSelection(method))
  /\ refused' = (refused \/ method # NoneRequired)
  /\ UNCHANGED <<clientVars, toServer, serverBuffer, serverHandler, messages, serverReceived,
                 serverCount>>

\* The application answers the request it received.
SendServerResponse(reply) ==
  /\ serverState = "waitingToSendResponse"
  /\ serverState' = IF reply = Succeeded THEN "active" ELSE "error"
  /\ ServerWrites(WriteServerResponse(reply, BoundAddress))
  /\ refused' = (refused \/ reply # Succeeded)
  /\ UNCHANGED <<clientVars, toServer, serverBuffer, serverHandler, messages, serverReceived,
                 serverCount>>

\* The application removes the handler once its response is written.
ServerHandlerRemoved ==
  /\ serverState = "active"
  /\ serverHandler = "added"
  /\ serverHandler' = "removed"
  /\ serverReceived' = serverReceived \o serverBuffer
  /\ serverBuffer' = <<>>
  /\ UNCHANGED <<clientVars, toServer, toClient, serverState, messages, serverCount, refused>>

ServerWrite ==
  /\ serverHandler = "removed"
  /\ serverCount < MaxServerWrites
  /\ serverCount' = serverCount + 1
  /\ ServerWrites(<<200 + serverCount + 1>>)
  /\ UNCHANGED <<clientVars, toServer, serverState, serverBuffer, serverHandler, messages,
                 serverReceived, refused>>

-----------------------------------------------------------------------------

Next ==
  \/ HandlerAdded
  \/ ChannelActive
  \/ \E n \in DOMAIN toClient : ChannelRead(n)
  \/ Write
  \/ Flush
  \/ RemoveHandler
  \/ Continue
  \/ Connected
  \/ ConnectionLost
  \/ Teardown
  \/ \E n \in DOMAIN toServer : ServerChannelRead(n)
  \/ \E method \in {NoneRequired, 1} : SendAuthenticationMethod(method)
  \/ \E reply \in {Succeeded, 1} : SendServerResponse(reply)
  \/ ServerHandlerRemoved
  \/ ServerWrite

Spec == Init /\ [][Next]_vars

\* Bytes arrive, callbacks return and channels tell what happened to them.  The server's
\* application answers, and gives the connection over to the tunnel.
Fairness ==
  /\ WF_vars(ChannelActive)
  /\ WF_vars(\E n \in DOMAIN toClient : ChannelRead(n))
  /\ WF_vars(Continue)
  /\ WF_vars(\E n \in DOMAIN toServer : ServerChannelRead(n))
  /\ WF_vars(\E method \in {NoneRequired, 1} : SendAuthenticationMethod(method))
  /\ WF_vars(\E reply \in {Succeeded, 1} : SendServerResponse(reply))
  /\ WF_vars(ServerHandlerRemoved)

FairSpec == Spec /\ Fairness

-----------------------------------------------------------------------------
(* Correctness.                                                            *)

\* What the application's writes become on the wire.
Data(first, n) == [i \in 1..n |-> first + i]

\* The client says hello and then sends the application's writes in the order of its calls,
\* whether they were buffered, written in a callback or after the handler had gone; and no
\* write leaves before the tunnel is there.
SentInOrder ==
  /\ IsPrefix(sent, Hello \o Data(100, count))
  /\ Len(sent) > Len(Hello) => clientState = "active"

\* Every write is still buffered, was sent or was failed, and only one of these.
NoWriteLost ==
  LET passed == {b - 100 : b \in ToSet(SubSeq(sent, Len(Hello) + 1, Len(sent)))} IN
  /\ 1..count = ToSet(bufferedWrites) \cup passed \cup failed
  /\ ToSet(bufferedWrites) \cap (passed \cup failed) = {}
  /\ passed \cap failed = {}

\* Once the tunnel is there and every call has returned, nothing stays behind in the
\* client's handler: no write, no byte, no flush and no removal that was asked for.
NothingStays ==
  clientState = "active" /\ stack = <<>> =>
    /\ bufferedWrites = <<>>
    /\ clientBuffer = <<>>
    /\ removal => handler = "removed"
    /\ channel = "active" => flushed >= Len(Hello) + asked

\* Replayed by the handshake, by a flush or by a removal, nested in one another as they may
\* be: the writes keep their order, each is accounted for once, and none stays behind.
WritesKept == SentInOrder /\ NoWriteLost /\ NothingStays

\* Both directions of the tunnel carry the bytes of the applications, in order, once: those
\* that arrive with the last message of the handshake and those that wait in the server's
\* handler for its removal too.
TunnelIsTransparent ==
  /\ clientState = "active" /\ channel = "active" =>
       received \o clientBuffer \o toClient = Data(200, serverCount)
  /\ serverState = "active" =>
       serverReceived \o serverBuffer \o toServer = SubSeq(sent, Len(Hello) + 1, flushed)

\* The client believes in a tunnel only if the server has granted the one it asked for;
\* and however the bytes are split, a handshake fails only because the server refused.
Agreement ==
  /\ clientState = "active" =>
       /\ serverState = "active"
       /\ messages = << [kind |-> "greeting", value |-> <<NoneRequired>>],
                        [kind |-> "request",
                         value |-> [code |-> 1, address |-> TargetAddress]] >>
  /\ clientState = "error" \/ serverState = "error" => refused

\* A handshake that has begun comes to an end.
HandshakeEnds ==
  handler = "added" /\ channel = "active" ~> clientState = "active" \/ channel = "closed"

\* What the handler buffered is sent, or its promise completed, before the handler leaves:
\* "we must send them before we are removed from the pipeline" (emptyInboundAndOutboundBuffer).
BufferedSentBeforeRemoval == handler = "removed" => bufferedWrites = <<>>
=============================================================================
