--------------------------- MODULE ResumableUpload ---------------------------
(***************************************************************************)
(* NIOResumableUpload: connections that each carry one                     *)
(* HTTPResumableUploadHandler, the HTTPResumableUpload objects they share  *)
(* through one HTTPResumableUploadContext, and the child channel           *)
(* (HTTPResumableUploadChannel) each upload presents to the application.   *)
(*                                                                         *)
(* An upload lives on the event loop of the connection that created it.    *)
(* Handler and upload call each other inline when they share a loop, and   *)
(* through a task of the other loop when they do not (withUploadOnEventLoop*)
(* and withHandler); queue holds those tasks, in the order of each loop.   *)
(* Every action is one event of a loop: a part read from a connection, a   *)
(* queued task, the idle timer, or a call of the application.  The         *)
(* operators that take a state s and return one are the methods of the     *)
(* code; s has the fields hd, up, app, uploads and queue.                  *)
(*                                                                         *)
(* The upload a handler makes for each request before its head is known    *)
(* belongs to that handler alone: Fresh, and Spent once it has let go of   *)
(* the handler.  Only an upload that gets a child channel is a member of   *)
(* Uploads.  Bytes are counted, not represented: a body part is one byte,  *)
(* and carries its position in the file the client uploads.  The client    *)
(* waits for a final response before it sends its next request.            *)
(*                                                                         *)
(* Left out: header fields and status codes beyond what decides the        *)
(* control flow, writability, reads (pendingRead and back-pressure),       *)
(* half-closure by the application, and OPTIONS, which differs from other  *)
(* plain traffic in the header fields of its response only.                *)
(***************************************************************************)
EXTENDS Naturals, Sequences, FiniteSets

CONSTANTS
  Handlers,      \* connections, each with its HTTPResumableUploadHandler
  Uploads,       \* identities for HTTPResumableUpload objects with a channel
  Loops,         \* event loops
  HandlerLoop,   \* the loop of each connection
  None, Unknown, Fresh, Spent,
  FileLength,    \* bytes in the file the client wants to upload
  MaxRequests,   \* bound: the requests of each connection
  Reopens,       \* the client may append to an upload that is complete
  ErrorsSurvived,\* a connection may stay open after errorCaught
  EarlyResponse, \* the application may answer before the end of the upload
  AppCloses      \* the application closes the child when it fails or ends

ASSUME LoopAssumption == HandlerLoop \in [Handlers -> Loops]
ASSUME ValueAssumption ==
  /\ None \notin Handlers \cup Loops
  /\ Unknown \notin 0..FileLength
  /\ Uploads \cap {Fresh, Spent} = {}
ASSUME BoundAssumption ==
  FileLength \in Nat /\ MaxRequests \in [Handlers -> Nat]
ASSUME ClientAssumption ==
  {Reopens, ErrorsSurvived, EarlyResponse, AppCloses} \subseteq BOOLEAN

VARIABLES
  hd,       \* per connection: the handler, and what the client sent and got
  up,       \* per upload: HTTPResumableUpload
  app,      \* per upload: what the child channel has shown the application
  uploads,  \* HTTPResumableUploadContext.uploads
  queue     \* tasks waiting on each event loop

vars == <<hd, up, app, uploads, queue>>
State == [hd |-> hd, up |-> up, app |-> app, uploads |-> uploads, queue |-> queue]

\* The bound t makes TLC evaluate the state it becomes once.
Become(s) ==
  \E t \in {s} :
    /\ hd' = t.hd
    /\ up' = t.up
    /\ app' = t.app
    /\ uploads' = t.uploads
    /\ queue' = t.queue

Lengths == 0..FileLength \cup {Unknown}

\* The body a client is sending: the position in the file of its next byte, the rest
\* of the length it announced, and whether it is to reach the end of the file.
NoBody == [open |-> FALSE, pos |-> 0, left |-> Unknown, whole |-> FALSE]
Body(pos, left, whole) == [open |-> TRUE, pos |-> pos, left |-> left, whole |-> whole]

Init ==
  /\ hd = [h \in Handlers |->
            [conn |-> "open", context |-> TRUE, shouldReset |-> FALSE,
             upload |-> Fresh, body |-> NoBody,
             requests |-> 0, heads |-> 0, ends |-> 0]]
  /\ up = [u \in Uploads |->
            [loop |-> None, handler |-> None, channel |-> FALSE, resumable |-> FALSE,
             offset |-> 0, length |-> Unknown, requestIsComplete |-> TRUE,
             uploadComplete |-> FALSE, responseStarted |-> FALSE, timer |-> FALSE]]
  /\ app = [u \in Uploads |->
            [received |-> 0, ordered |-> TRUE, ends |-> 0, inactive |-> 0,
             written |-> "none"]]
  /\ uploads = {}
  /\ queue = [l \in Loops |-> <<>>]

-----------------------------------------------------------------------------
(* Tasks of HTTPResumableUploadHandler.                                    *)

Enqueue(s, l, t) == [s EXCEPT !.queue[l] = Append(@, t)]

\* What the client gets: nothing when the handler has lost its context.
HandlerTask(s, t) ==
  LET h == t.h
      wired == s.hd[h].context
      reached == wired /\ s.hd[h].conn = "open" IN
  CASE t.op = "head" /\ reached -> [s EXCEPT !.hd[h].heads = @ + 1]
    [] t.op = "finish" /\ reached -> [s EXCEPT !.hd[h].ends = @ + 1]
    [] t.op = "respond" /\ reached ->
         [s EXCEPT !.hd[h].heads = @ + 1, !.hd[h].ends = @ + 1]
    [] t.op = "detach" ->
         [s EXCEPT !.hd[h].context = FALSE,
                   !.hd[h].conn = IF t.close /\ reached THEN "closing" ELSE @]
    [] OTHER -> s

WithHandler(s, here, t) ==
  IF HandlerLoop[t.h] = here THEN HandlerTask(s, t)
                             ELSE Enqueue(s, HandlerLoop[t.h], t)

-----------------------------------------------------------------------------
(* Methods of HTTPResumableUpload, on the loop of the upload u.            *)

\* Mutant: no timer starts.
DetachUploadHandlerForever(s, u, close) ==
  LET h == s.up[u].handler IN
  IF h = None THEN s
  ELSE WithHandler([s EXCEPT !.up[u].handler = None],
                   s.up[u].loop, [op |-> "detach", h |-> h, close |-> close])

\* detachUploadHandler: the timer runs only while there is a channel to resume.
DetachUploadHandler(s, u, close) ==
  LET h == s.up[u].handler IN
  IF h = None THEN s
  ELSE WithHandler([s EXCEPT !.up[u].handler = None,
                             !.up[u].timer = s.up[u].channel \/ @],
                   s.up[u].loop, [op |-> "detach", h |-> h, close |-> close])

AttachUploadHandler(s, u, h) ==
  [s EXCEPT !.up[u].handler = h, !.up[u].timer = FALSE]

RespondAndDetach(s, u, h) ==
  LET responded == WithHandler(s, s.up[u].loop, [op |-> "respond", h |-> h]) IN
  IF s.up[u].handler = h THEN DetachUploadHandler(responded, u, FALSE) ELSE responded

\* What close(mode:) does besides destroying the channel.
LetGo(s, u) ==
  LET h == s.up[u].handler
      quiet == [s EXCEPT !.up[u].handler = None, !.up[u].timer = FALSE] IN
  IF h = None THEN quiet
  ELSE WithHandler(quiet, s.up[u].loop, [op |-> "detach", h |-> h, close |-> TRUE])

\* Mutant: the reference to the channel is kept.
DestroyChannelKept(s, u) ==
  IF s.up[u].channel
    THEN [s EXCEPT !.uploads = @ \ {u}, !.app[u].inactive = @ + 1]
    ELSE s

\* destroyChannel: the application may close the channel from its errorCaught or
\* channelInactive, which finds no channel left to destroy.
DestroyChannel(s, u) ==
  IF ~s.up[u].channel THEN s
  ELSE LET ended == [s EXCEPT !.uploads = @ \ {u},
                              !.up[u].channel = FALSE,
                              !.app[u].inactive = @ + 1] IN
       IF AppCloses THEN LetGo(ended, u) ELSE ended

\* HTTPResumableUploadHandler has gone (end(handler:error:)).
HandlerEnded(s, u) ==
  IF ~s.up[u].uploadComplete /\ s.up[u].resumable
    THEN DetachUploadHandler(s, u, FALSE)
    ELSE DetachUploadHandler(DestroyChannel(s, u), u, FALSE)

\* saveUploadLength: the length it leaves, and whether it found no conflict.  What
\* the first comparison saves stays saved when the second one fails.
SaveUploadLength(known, offset, r) ==
  LET computed == IF r.complete /\ r.length # Unknown THEN offset + r.length
                                                      ELSE Unknown
      first == IF known = Unknown THEN computed ELSE known
      second == IF first = Unknown THEN r.total ELSE first IN
  IF known # Unknown /\ computed # Unknown /\ known # computed
    THEN [length |-> known, ok |-> FALSE]
    ELSE [length |-> second,
          ok |-> first = Unknown \/ r.total = Unknown \/ first = r.total]

\* Mutant: the offset of the request is not compared.
UploadAppendingAnywhere(s, u, h, r) ==
  LET saved == SaveUploadLength(s.up[u].length, s.up[u].offset, r) IN
  IF s.up[u].handler = None /\ ~s.up[u].responseStarted /\ saved.ok
    THEN AttachUploadHandler(
           [s EXCEPT !.up[u].length = saved.length,
                     !.up[u].requestIsComplete = r.complete], u, h)
    ELSE RespondAndDetach(DestroyChannel(DetachUploadHandler(s, u, TRUE), u), u, h)

UploadAppending(s, u, h, r) ==
  LET free == /\ s.up[u].handler = None
              /\ s.up[u].offset = r.offset
              /\ ~s.up[u].responseStarted
      saved == SaveUploadLength(s.up[u].length, s.up[u].offset, r)
      lengthened == IF free THEN [s EXCEPT !.up[u].length = saved.length] ELSE s IN
  IF free /\ saved.ok
    THEN AttachUploadHandler(
           [lengthened EXCEPT !.up[u].requestIsComplete = r.complete], u, h)
    ELSE RespondAndDetach(
           DestroyChannel(DetachUploadHandler(lengthened, u, TRUE), u), u, h)

OffsetRetrieving(s, u, h) ==
  RespondAndDetach(DetachUploadHandler(s, u, TRUE), u, h)

UploadCancellation(s, u) ==
  DestroyChannel(DetachUploadHandler(s, u, TRUE), u)

\* A byte counts towards the offset even when it is too much for the upload.
ReceiveBody(s, u, h, pos) ==
  LET counted == [s EXCEPT !.up[u].offset = @ + 1] IN
  IF s.up[u].length # Unknown /\ counted.up[u].offset > s.up[u].length
    THEN RespondAndDetach(counted, u, h)
  ELSE IF s.up[u].channel
    THEN [counted EXCEPT
           !.app[u].received = @ + 1,
           !.app[u].ordered = @ /\ pos = s.app[u].received /\ s.app[u].ends = 0]
  ELSE counted

DeliverEnd(s, u) ==
  IF s.up[u].channel THEN [s EXCEPT !.app[u].ends = @ + 1] ELSE s

\* Mutant: the end of an incomplete request is delivered too.
ReceiveEndAlways(s, u, h) ==
  IF ~s.up[u].resumable THEN DeliverEnd(s, u)
  ELSE IF s.up[u].requestIsComplete
    THEN DeliverEnd([s EXCEPT !.up[u].uploadComplete = TRUE], u)
  ELSE RespondAndDetach(DeliverEnd(s, u), u, h)

ReceiveEnd(s, u, h) ==
  IF ~s.up[u].resumable THEN DeliverEnd(s, u)
  ELSE IF s.up[u].requestIsComplete
    THEN DeliverEnd([s EXCEPT !.up[u].uploadComplete = TRUE], u)
  ELSE RespondAndDetach(s, u, h)

\* A task that carries an expectedID does nothing unless the handler it comes from
\* is attached when it runs.
Expected(s, u, h) == s.up[u].handler = h

UploadTask(s, t) ==
  LET u == t.u
      h == t.h
      expected == Expected(s, u, h) IN
  CASE t.op = "body" /\ expected -> ReceiveBody(s, u, h, t.pos)
    [] t.op = "end" /\ expected -> ReceiveEnd(s, u, h)
    [] t.op = "gone" /\ expected -> HandlerEnded(s, u)
    [] t.op = "append" -> UploadAppending(s, u, h, t.request)
    [] t.op = "offset" -> OffsetRetrieving(s, u, h)
    [] t.op = "cancel" -> UploadCancellation(s, u)
    [] OTHER -> s

WithUpload(s, here, t) ==
  IF s.up[t.u].loop = here THEN UploadTask(s, t) ELSE Enqueue(s, s.up[t.u].loop, t)

-----------------------------------------------------------------------------
(* HTTPResumableUploadHandler, on the loop of the connection h.            *)

\* The handler tells its upload; a Fresh or Spent upload has nothing to do.
TellUpload(s, h, op) ==
  IF s.hd[h].upload \in Uploads
    THEN WithUpload(s, HandlerLoop[h],
                    [op |-> op, u |-> s.hd[h].upload, h |-> h, pos |-> hd[h].body.pos])
    ELSE s

\* The head of a request makes a new upload, once the last request has ended.
ResetUpload(s, h) ==
  IF ~s.hd[h].shouldReset THEN s
  ELSE [TellUpload(s, h, "gone") EXCEPT
         !.hd[h].context = TRUE,
         !.hd[h].upload = Fresh,
         !.hd[h].shouldReset = FALSE]

\* respondAndDetach by the Fresh upload of h.
Refuse(s, h) ==
  [HandlerTask(HandlerTask(s, [op |-> "respond", h |-> h]),
               [op |-> "detach", h |-> h, close |-> FALSE])
    EXCEPT !.hd[h].upload = Spent]

\* The client may send the head of a request.
SendHead(h) ==
  /\ hd[h].conn = "open"
  /\ ~hd[h].body.open
  /\ hd[h].requests < MaxRequests[h]
  /\ hd[h].ends >= hd[h].requests

AfterHead(h, body) ==
  LET s == ResetUpload(State, h) IN
  [s EXCEPT !.hd[h].body = body, !.hd[h].requests = @ + 1]

\* An honest client announces the truth.
Announces(r) ==
  /\ r.total \in {Unknown, FileLength}
  /\ r.length # Unknown =>
       IF r.complete THEN r.length + r.offset = FileLength
                     ELSE r.length + r.offset <= FileLength
  /\ r.offset <= FileLength

UploadRequests ==
  {r \in [offset : 0..FileLength, complete : BOOLEAN, length : Lengths,
          total : {Unknown, FileLength}] : Announces(r)}

NewUpload(s, u, h, length, complete, resumable) ==
  [s EXCEPT !.hd[h].upload = u,
            !.up[u] = [@ EXCEPT !.loop = HandlerLoop[h],
                                !.handler = h,
                                !.channel = TRUE,
                                !.resumable = resumable,
                                !.length = length,
                                !.requestIsComplete = complete],
            !.uploads = IF resumable THEN @ \cup {u} ELSE @]

\* receiveHead, .uploadCreation.  SaveUploadLength sees uploadLength already set.
UploadCreation(h, u, r) ==
  /\ SendHead(h)
  /\ up[u].loop = None
  /\ r.offset = 0
  /\ LET s == AfterHead(h, Body(0, r.length, r.complete))
         saved == SaveUploadLength(r.total, 0, r) IN
     Become(IF saved.ok THEN NewUpload(s, u, h, saved.length, r.complete, TRUE)
                        ELSE Refuse(s, h))

\* receiveHead of a request that is not about resumable uploads.
PlainRequest(h, u, length) ==
  /\ SendHead(h)
  /\ up[u].loop = None
  /\ Become(NewUpload(AfterHead(h, Body(0, length, FALSE)), u, h, Unknown, TRUE, FALSE))

\* Requests about an upload whose token was announced, and may have expired.
Announced(u) == up[u].resumable

AppendRequest(h, u, r) ==
  /\ SendHead(h)
  /\ Announced(u)
  /\ up[u].uploadComplete => Reopens
  /\ LET s == AfterHead(h, Body(r.offset, r.length, r.complete)) IN
     Become(IF u \in s.uploads
              THEN WithUpload([s EXCEPT !.hd[h].upload = u], HandlerLoop[h],
                              [op |-> "append", u |-> u, h |-> h, request |-> r])
              ELSE Refuse(s, h))

OffsetRequest(h, u) ==
  /\ SendHead(h)
  /\ Announced(u)
  /\ LET s == AfterHead(h, Body(0, 0, FALSE)) IN
     Become(IF u \in s.uploads
              THEN WithUpload([s EXCEPT !.hd[h].upload = Spent], HandlerLoop[h],
                              [op |-> "offset", u |-> u, h |-> h])
              ELSE Refuse(s, h))

CancelRequest(h, u) ==
  /\ SendHead(h)
  /\ Announced(u)
  /\ LET s == AfterHead(h, Body(0, 0, FALSE)) IN
     Become(Refuse(IF u \in s.uploads
                     THEN WithUpload(s, HandlerLoop[h],
                                     [op |-> "cancel", u |-> u, h |-> h])
                     ELSE s, h))

\* identifyRequest throws.
BadRequest(h) ==
  /\ SendHead(h)
  /\ Become(Refuse(AfterHead(h, Body(0, Unknown, FALSE)), h))

\* What is left of a body when a byte of it has come.
NextByte(body) ==
  [body EXCEPT !.pos = @ + 1, !.left = IF @ = Unknown THEN @ ELSE @ - 1]

\* channelRead of a body part.
BodyPart(h) ==
  /\ hd[h].conn = "open"
  /\ hd[h].body.open
  /\ hd[h].body.left # 0
  /\ hd[h].body.pos < FileLength
  /\ LET s == [State EXCEPT !.hd[h].body = NextByte(@)] IN
     Become(TellUpload(s, h, "body"))

\* channelRead of the end of the request.
EndPart(h) ==
  /\ hd[h].conn = "open"
  /\ hd[h].body.open
  /\ hd[h].body.left \in {0, Unknown}
  /\ hd[h].body.whole => hd[h].body.pos = FileLength
  /\ LET s == [State EXCEPT !.hd[h].body = NoBody, !.hd[h].shouldReset = TRUE] IN
     Become(TellUpload(s, h, "end"))

\* errorCaught: the connection fails and will be closed, or survives.
ErrorCaught(h) ==
  /\ hd[h].conn = "open"
  /\ \E conn \in IF ErrorsSurvived THEN {"open", "closing"} ELSE {"closing"} :
       Become(TellUpload([State EXCEPT !.hd[h].conn = conn], h, "gone"))

ConnectionLost(h) ==
  /\ hd[h].conn = "open"
  /\ Become([State EXCEPT !.hd[h].conn = "closing"])

ChannelInactive(h) ==
  /\ hd[h].conn = "closing"
  /\ Become(TellUpload([State EXCEPT !.hd[h].conn = "closed", !.hd[h].body = NoBody], h, "gone"))

-----------------------------------------------------------------------------
(* The application, on the child channel of u, and the idle timer.         *)

\* HTTPResumableUpload.write.
AppWrite(u, written, op) ==
  /\ up[u].channel
  /\ app[u].ends > 0 \/ EarlyResponse
  /\ LET s == [State EXCEPT !.app[u].written = written]
         h == up[u].handler IN
     Become(IF h = None THEN DestroyChannel(s, u)
            ELSE WithHandler([s EXCEPT !.up[u].responseStarted = TRUE],
                             up[u].loop, [op |-> op, h |-> h]))

AppWritesHead(u) == app[u].written = "none" /\ AppWrite(u, "head", "head")
AppWritesEnd(u) == app[u].written = "head" /\ AppWrite(u, "end", "finish")

\* HTTPResumableUpload.close, once the application has answered.
AppClose(u) ==
  /\ up[u].channel
  /\ app[u].written = "end"
  /\ Become(LetGo(DestroyChannel(State, u), u))

\* The timer's task ends the channel before it forgets it, and leaves the upload in
\* the context.  An application that closes the channel there destroys it first.
IdleTimeout(u) ==
  /\ up[u].timer
  /\ LET s == [State EXCEPT !.up[u].timer = FALSE]
         closed == IF AppCloses THEN LetGo(DestroyChannel(s, u), u) ELSE s IN
     Become(IF up[u].channel
              THEN [closed EXCEPT !.app[u].inactive = @ + 1, !.up[u].channel = FALSE]
              ELSE s)

\* An event loop runs its next task.
RunTask(l) ==
  /\ queue[l] # <<>>
  /\ LET t == Head(queue[l])
         s == [State EXCEPT !.queue[l] = Tail(@)] IN
     Become(IF t.op \in {"head", "finish", "respond", "detach"}
              THEN HandlerTask(s, t) ELSE UploadTask(s, t))

-----------------------------------------------------------------------------

ClientStep(h) ==
  \/ \E u \in Uploads :
       \/ \E r \in UploadRequests : UploadCreation(h, u, r) \/ AppendRequest(h, u, r)
       \/ \E length \in Lengths : PlainRequest(h, u, length)
       \/ OffsetRequest(h, u)
       \/ CancelRequest(h, u)
  \/ BadRequest(h)
  \/ BodyPart(h)
  \/ EndPart(h)
  \/ ErrorCaught(h)
  \/ ConnectionLost(h)
  \/ ChannelInactive(h)

UploadStep(u) ==
  \/ AppWritesHead(u)
  \/ AppWritesEnd(u)
  \/ AppClose(u)
  \/ IdleTimeout(u)

Next ==
  \/ \E h \in Handlers : ClientStep(h)
  \/ \E u \in Uploads : UploadStep(u)
  \/ \E l \in Loops : RunTask(l)

Spec == Init /\ [][Next]_vars

\* Event loops run their tasks, timers fire, and a connection that was closed tells
\* its handler.  Clients and the application owe nothing.
Fairness ==
  /\ \A l \in Loops : WF_vars(RunTask(l))
  /\ \A u \in Uploads : WF_vars(IdleTimeout(u))
  /\ \A h \in Handlers : WF_vars(ChannelInactive(h))

FairSpec == Spec /\ Fairness

-----------------------------------------------------------------------------
(* Correctness.                                                            *)

\* The child channel shows the file of an honest client byte by byte: no byte is
\* skipped, repeated or shown after the end, whatever connections carried it, were
\* lost or competed on the way, and however late their tasks ran.
DeliveredInOrder == \A u \in Uploads : app[u].ordered

\* The application of a resumable upload sees the end only of the whole file, never
\* of a request that brought part of it.
EndMeansWholeFile ==
  \A u \in Uploads :
    up[u].resumable /\ app[u].ends > 0 => app[u].received = FileLength

\* However a client brings its file, in requests that compete, resume each other or are
\* lost, the application sees that file, in order, and an end only behind the whole of it.
FileDelivered == DeliveredInOrder /\ EndMeansWholeFile

\* While the application waits for the rest of a resumable upload, a client can find
\* the upload by its token.
ActiveIsRegistered ==
  \A u \in Uploads : up[u].channel /\ up[u].resumable => u \in uploads

\* A child channel that nobody feeds has a timer that will end it, and no timer runs
\* out on an upload somebody feeds.
TimerGuards ==
  \A u \in Uploads :
    /\ up[u].channel /\ up[u].handler = None => up[u].timer
    /\ up[u].handler # None => ~up[u].timer

\* On one event loop, an upload and its handler agree: the handler an upload writes
\* to feeds that upload, and can still reach its connection.
AttachedBothWays ==
  \A u \in Uploads, h \in Handlers :
    up[u].handler = h => hd[h].upload = u /\ hd[h].context

\* An upload whose channel is open can be reached by whoever has to go on with it: a client
\* by its token, the handler that feeds it, or else the timer that will end it.
Reachable == ActiveIsRegistered /\ TimerGuards /\ AttachedBothWays

\* A request gets at most one final response, from the upload or the application.
\* HTTPResponsePart says what a response is made of.
OneResponsePerRequest ==
  \A h \in Handlers :
    hd[h].ends <= hd[h].heads /\ hd[h].heads <= hd[h].requests

\* The child channel sees at most one end and becomes inactive once, when it is let go.
\* HTTPRequestPart: the end says that a complete message has been received.
EndsOnce ==
  \A u \in Uploads :
    /\ app[u].ends <= 1
    /\ app[u].inactive <= 1
    /\ up[u].channel => app[u].inactive = 0

\* If all connections share one loop, no client appends to an upload that is complete, and
\* the application answers after the end and closes in no callback: every request gets one
\* response, and the application one end and one channelInactive for each channel.  Over
\* several loops the code does not keep this: an append that waits in the queue of the
\* upload's loop while the upload ends is attached behind the end, and ends it again.
EachEndsOnce == OneResponsePerRequest /\ EndsOnce

\* When every connection is gone, every child channel ends: by the timer, or because
\* nobody is left to answer to.
NoOrphanChannel ==
  (\A h \in Handlers : hd[h].conn # "open") ~> (\A u \in Uploads : ~up[u].channel)
=============================================================================
