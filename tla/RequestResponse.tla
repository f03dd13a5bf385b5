--------------------------- MODULE RequestResponse ---------------------------
(***************************************************************************)
(* The request/response handlers of NIOExtras: RequestResponseHandler,     *)
(* NIORequestIsolatedResponseHandler and their variants WithID, which      *)
(* share RequestResponseHandlerState.  The handlers differ in the buffer   *)
(* of promises alone: an ordered one has a FIFO, one WithID a dictionary   *)
(* by request ID.  Both are a sequence here; the order of a dictionary     *)
(* means nothing.                                                          *)
(*                                                                         *)
(* A request is one call of write, and its response promise.  The peer     *)
(* takes requests from wire and puts responses into inbound; a response is *)
(* named after the request it answers, and a stray answers none.  A        *)
(* promise that completes runs callbacks which may write again: the buffer *)
(* and the state have been updated by then, so that is a later Write.      *)
(***************************************************************************)
EXTENDS Naturals, Sequences, SequencesExt

CONSTANTS
  Requests,    \* the calls of write
  Strays,      \* responses that answer no request
  Errors,      \* errors the channel may report
  IDs, IDOf,   \* the request ID of every request and response
  None,        \* no result yet
  ClosedBeforeReceivingResponse, IOOnClosedChannel,  \* the handler's own errors
  Kinds,       \* the handlers there may be: "ordered" and "withID"
  Refusing     \* the kinds of which a handler nearer to the network may refuse requests

Responses == Requests \cup Strays

ASSUME IDAssumption == IDOf \in [Responses -> IDs]
ASSUME DistinctAssumption ==
  /\ Requests \cap Strays = {}
  /\ Errors \cap (Responses \cup {None, ClosedBeforeReceivingResponse,
                                  IOOnClosedChannel}) = {}
  /\ {None, ClosedBeforeReceivingResponse, IOOnClosedChannel} \cap Responses = {}
  /\ None \notin {ClosedBeforeReceivingResponse, IOOnClosedChannel}
ASSUME KindAssumption == Kinds \subseteq {"ordered", "withID"}

VARIABLES
  kind,          \* which handler the channel has
  state,         \* RequestResponseHandlerState.state without its payload
  error,         \* the payload of state "error"
  promiseBuffer, \* the requests whose promises are buffered
  status,        \* each response promise
  result,        \* the response or the error it was completed with
  channel,       \* the channel: a closing one becomes inactive later
  firstError,    \* the first error the channel reported
  wire,          \* requests on their way to the peer
  inbound,       \* responses on their way to the handler
  strays         \* strays the peer has sent

handlerVars == <<state, error, promiseBuffer>>
promiseVars == <<status, result>>
peerVars == <<wire, inbound, strays>>
vars == <<kind, handlerVars, promiseVars, channel, firstError, peerVars>>

Ordered == kind = "ordered"

Init ==
  /\ kind \in Kinds
  /\ state = "operational"
  /\ error = None
  /\ promiseBuffer = <<>>
  /\ status = [r \in Requests |-> "unwritten"]
  /\ result = [r \in Requests |-> None]
  /\ channel = "active"
  /\ firstError = None
  /\ wire = <<>>
  /\ inbound = <<>>
  /\ strays = {}

-----------------------------------------------------------------------------
(* OrderedResponsePromiseBuffer and UnorderedResponsePromiseBuffer.        *)

Keyed(s, id) == {i \in DOMAIN s : IDOf[s[i]] = id}

\* A dictionary has at most one promise for an ID.
Without(s, id) ==
  IF Keyed(s, id) = {} THEN s ELSE RemoveAt(s, CHOOSE i \in Keyed(s, id) : TRUE)

\* A dictionary forgets the promise that had the ID.
Insert(s, r) == Append(IF Ordered THEN s ELSE Without(s, IDOf[r]), r)

\* Mutant: whatever its ID, a response is for the oldest promise.
MatchesOldest(s, p) == {q \in ToSet(s) : q = Head(s)}

\* The promise a response is for, if there is one.
Matches(s, p) ==
  {q \in ToSet(s) : IF Ordered THEN q = Head(s) ELSE IDOf[q] = IDOf[p]}

\* Mutant: the promise stays in the buffer.
RemoveNot(s, p) == s

RemovePromise(s, p) == IF Ordered THEN Tail(s) ELSE Without(s, IDOf[p])

-----------------------------------------------------------------------------
(* The handler.                                                            *)

Complete(rs, outcome, value) ==
  /\ status' = [r \in Requests |-> IF r \in rs THEN outcome ELSE status[r]]
  /\ result' = [r \in Requests |-> IF r \in rs THEN value ELSE result[r]]

WriteOperational(r) ==
  /\ state = "operational"
  /\ promiseBuffer' = Insert(promiseBuffer, r)
  /\ status' = [status EXCEPT ![r] = "pending"]
  /\ \/ /\ channel = "active"
        /\ wire' = Append(wire, r)
     \/ /\ channel # "active" \/ kind \in Refusing
        /\ UNCHANGED wire
  /\ UNCHANGED result

WriteRefused(r) ==
  /\ state # "operational"
  /\ Complete({r}, "failed", IF state = "error" THEN error ELSE IOOnClosedChannel)
  /\ UNCHANGED <<promiseBuffer, wire>>

Write(r) ==
  /\ status[r] = "unwritten"
  /\ WriteOperational(r) \/ WriteRefused(r)
  /\ UNCHANGED <<kind, state, error, channel, firstError, inbound, strays>>

\* A response without a promise goes on as an error to the handlers behind this one;
\* a response to a handler that is not operational is dropped.
ChannelRead ==
  /\ channel # "inactive"
  /\ inbound # <<>>
  /\ inbound' = Tail(inbound)
  /\ LET p == Head(inbound)
         matches == Matches(promiseBuffer, p) IN
     IF state = "operational" /\ matches # {}
       THEN /\ promiseBuffer' = RemovePromise(promiseBuffer, p)
            /\ Complete(matches, "succeeded", p)
       ELSE UNCHANGED <<promiseBuffer, promiseVars>>
  /\ UNCHANGED <<kind, state, error, channel, firstError, wire, strays>>

\* Mutant: the promises are dropped with the buffer.
FailAllForgotten(e) ==
  /\ promiseBuffer' = <<>>
  /\ UNCHANGED promiseVars

FailAll(e) ==
  /\ promiseBuffer' = <<>>
  /\ Complete(ToSet(promiseBuffer), "failed", e)

\* Mutant: a later error replaces the first.
ErrorCaughtAgain(e) ==
  /\ channel # "inactive"
  /\ firstError' = IF firstError = None THEN e ELSE firstError
  /\ state' = "error"
  /\ error' = e
  /\ FailAll(e)
  /\ channel' = "closing"
  /\ UNCHANGED <<kind, peerVars>>

\* caughtError fails what is outstanding and closes the channel, once.
ErrorCaught(e) ==
  /\ channel # "inactive"
  /\ firstError' = IF firstError = None THEN e ELSE firstError
  /\ \/ /\ state = "operational"
        /\ state' = "error"
        /\ error' = e
        /\ FailAll(e)
        /\ channel' = "closing"
     \/ /\ state # "operational"
        /\ UNCHANGED <<handlerVars, promiseVars, channel>>
  /\ UNCHANGED <<kind, peerVars>>

\* deactivateChannel.
ChannelInactive ==
  /\ channel = "closing"
  /\ channel' = "inactive"
  /\ \/ /\ state = "operational"
        /\ state' = "inactive"
        /\ FailAll(ClosedBeforeReceivingResponse)
     \/ /\ state = "error"
        /\ UNCHANGED <<state, promiseBuffer, promiseVars>>
  /\ UNCHANGED <<kind, error, firstError, peerVars>>

-----------------------------------------------------------------------------
(* The peer and the connection.                                            *)

\* The ordered handlers require answers in order, and nothing else.
Answerable == IF Ordered THEN {i \in DOMAIN wire : i = 1} ELSE DOMAIN wire

PeerAnswers(i) ==
  /\ i \in Answerable
  /\ inbound' = Append(inbound, wire[i])
  /\ wire' = RemoveAt(wire, i)
  /\ UNCHANGED <<kind, handlerVars, promiseVars, channel, firstError, strays>>

PeerStrays(p) ==
  /\ ~Ordered
  /\ channel = "active"
  /\ p \in Strays \ strays
  /\ strays' = strays \cup {p}
  /\ inbound' = Append(inbound, p)
  /\ UNCHANGED <<kind, handlerVars, promiseVars, channel, firstError, wire>>

\* The connection is lost, or closed by the user: nothing more is read from it.
ConnectionLost ==
  /\ channel = "active"
  /\ channel' = "closing"
  /\ wire' = <<>>
  /\ inbound' = <<>>
  /\ UNCHANGED <<kind, handlerVars, promiseVars, firstError, strays>>

-----------------------------------------------------------------------------

Next ==
  \/ \E r \in Requests : Write(r)
  \/ ChannelRead
  \/ \E e \in Errors : ErrorCaught(e)
  \/ ChannelInactive
  \/ \E i \in DOMAIN wire : PeerAnswers(i)
  \/ \E p \in Strays : PeerStrays(p)
  \/ ConnectionLost

Spec == Init /\ [][Next]_vars

\* A channel that is closing becomes inactive.  The peer owes nothing.
FairSpec == Spec /\ WF_vars(ChannelInactive)

-----------------------------------------------------------------------------
(* Correctness.                                                            *)

\* The type of every variable.
TypeOK ==
  /\ kind \in Kinds
  /\ state \in {"operational", "inactive", "error"}
  /\ error \in Errors \cup {None}
  /\ promiseBuffer \in Seq(Requests)
  /\ status \in [Requests -> {"unwritten", "pending", "succeeded", "failed"}]
  /\ result \in [Requests ->
       Responses \cup Errors \cup {None, ClosedBeforeReceivingResponse,
                                   IOOnClosedChannel}]
  /\ channel \in {"active", "closing", "inactive"}
  /\ firstError \in Errors \cup {None}
  /\ wire \in Seq(Requests)
  /\ inbound \in Seq(Responses)
  /\ strays \subseteq Strays

\* A promise that succeeds is given the response to its own request: by an ordered
\* handler however requests are pipelined, and by its ID whatever the order and the
\* strays, and whatever errors, closes and refused writes come in between.
MatchedResponse ==
  \A r \in Requests : status[r] = "succeeded" =>
    /\ result[r] \in Responses /\ IDOf[result[r]] = IDOf[r]
    /\ Ordered => result[r] = r

\* The promises that are pending are those in the buffer: none is lost, and once the
\* handler stops being operational none is left behind.
BufferIsPending ==
  /\ ToSet(promiseBuffer) = {r \in Requests : status[r] = "pending"}
  /\ state # "operational" => promiseBuffer = <<>>

\* All requests that fail after an error fail with the first error the channel
\* reported; an error and a close never share the requests between them.
FirstErrorFailsAll ==
  \A r, q \in Requests :
    status[r] = "failed" /\ status[q] = "failed" /\ result[r] \in Errors =>
      result[r] = firstError /\ result[q] = firstError

\* A promise that is completed stays as it is: no response and no error reaches it
\* a second time.
CompletedOnce ==
  [][\A r \in Requests : status[r] \in {"succeeded", "failed"} =>
       status'[r] = status[r] /\ result'[r] = result[r]]_vars

\* When the channel closes, for whatever reason, every promise is completed.
ClosedCompletesAll ==
  \A r \in Requests : (channel = "closing" /\ status[r] = "pending") ~>
                        (status[r] \in {"succeeded", "failed"})
=============================================================================
