--------------------------- MODULE ServerQuiescing ---------------------------
(***************************************************************************)
(* ServerQuiescingHelper (NIOExtras/QuiescingHelper.swift): one server     *)
(* channel, the children it accepts, and any number of threads that ask    *)
(* for the server to be shut down.                                         *)
(*                                                                         *)
(* LifecycleStateMachine is the variables lifecycle, openChannels and      *)
(* fullyShutdownPromise.  ChannelCollector and                             *)
(* CollectAcceptedChannelsHandler run on the event loop of the server      *)
(* channel: each action below is one task of that loop, or what a caller   *)
(* or a child does on its own thread.  A child of another loop reports its *)
(* close with a task of the server's loop (the set removing), and is       *)
(* closed, when it is refused after the shutdown, by a task of its own     *)
(* loop (the set closing); for a child of the server's loop                *)
(* (ServerLoopChildren) both happen inline.                                *)
(*                                                                         *)
(* initiateShutdown0 is two actions, BeginShutdown and FinishShutdown,     *)
(* because firing ChannelShouldQuiesceEvent and closing the server run the *)
(* user's handlers: they may close children of the same loop, or ask for a *)
(* shutdown again, before the loop over the captured openChannels runs.    *)
(* A failing precondition stops the process: crashed.                      *)
(*                                                                         *)
(* Not modelled: a second makeServerChannelHandler on the same helper, and *)
(* a channelRead fired into the collector by a handler of the server while *)
(* initiateShutdown0 is running.                                           *)
(***************************************************************************)
EXTENDS Naturals, FiniteSets

CONSTANTS
  Children,            \* the channels the server may accept
  ServerLoopChildren,  \* those that live on the server's own event loop
  Callers,             \* the calls of initiateShutdown(promise:)
  NilCallers,          \* the calls that pass no promise
  Internal,            \* the promise made for a first call that passes none
  NoPromise            \* fullyShutdownPromise before the shutdown

ASSUME ChildrenAssumption == ServerLoopChildren \subseteq Children
ASSUME CallersAssumption == NilCallers \subseteq Callers
ASSUME PromiseAssumption ==
  Internal \notin Callers /\ NoPromise \notin Callers \cup {Internal}

VARIABLES
  lifecycle,             \* LifecycleStateMachine.state without its payload
  openChannels,          \* the registered children
  fullyShutdownPromise,  \* the promise of the first initiateShutdown0
  cascadeTo,             \* later callers attached to its future
  promise,               \* outcome of every promise
  collectorPromise,      \* channelCollectorPromise of the helper
  called,                \* progress of each call of initiateShutdown
  child,                 \* each child channel
  accepted,              \* children that were handed to channelRead
  removing,              \* closed children whose channelRemoved0 is queued
  closing,               \* refused children whose close is queued on their loop
  scheduled,             \* quiesce events scheduled for each child
  delivered,             \* quiesce events each child has seen
  server,                \* the server channel
  firing,                \* initiateShutdown0 is running the user's handlers
  captured,              \* the openChannels it captured
  crashed                \* a precondition failed

lifecycleVars == <<lifecycle, openChannels, fullyShutdownPromise>>
promiseVars == <<cascadeTo, promise, collectorPromise, called>>
childVars == <<child, accepted, removing, closing>>
eventVars == <<scheduled, delivered>>
firingVars == <<firing, captured>>
vars == <<lifecycleVars, promiseVars, childVars, eventVars, server, firingVars,
          crashed>>

Promises == Callers \cup {Internal}
Outcomes == {"pending", "succeeded", "failed"}

-----------------------------------------------------------------------------
(* EventLoopPromise: the first outcome stands, and reaches every promise   *)
(* attached to its future with it.                                         *)

Resolve(ps, outcome) ==
  [p \in Promises |-> IF p \in ps /\ promise[p] = "pending" THEN outcome
                                                            ELSE promise[p]]

\* Mutant: the futures cascaded to the promise are forgotten.
ShutdownPromisesAlone(p) == {p}

ShutdownPromises(p) == {p} \cup cascadeTo

-----------------------------------------------------------------------------

Init ==
  /\ lifecycle = "upAndRunning"
  /\ openChannels = {}
  /\ fullyShutdownPromise = NoPromise
  /\ cascadeTo = {}
  /\ promise = [p \in Promises |-> "pending"]
  /\ collectorPromise = "pending"
  /\ called = [k \in Callers |-> "idle"]
  /\ child = [c \in Children |-> "unborn"]
  /\ accepted = {}
  /\ removing = {}
  /\ closing = {}
  /\ scheduled = [c \in Children |-> 0]
  /\ delivered = [c \in Children |-> 0]
  /\ server = "open"
  /\ firing = FALSE
  /\ captured = {}
  /\ crashed = FALSE

-----------------------------------------------------------------------------
(* The helper: any thread.                                                 *)

MakeServerChannelHandler ==
  /\ ~crashed
  /\ collectorPromise = "pending"
  /\ collectorPromise' = "succeeded"
  /\ UNCHANGED <<lifecycleVars, cascadeTo, promise, called, childVars, eventVars,
                 server, firingVars, crashed>>

\* The helper is dropped.  Only a helper that never made a handler notices:
\* a collector promise that succeeded keeps its outcome.
Deinit ==
  /\ ~crashed
  /\ collectorPromise = "pending"
  /\ collectorPromise' = "failed"
  /\ promise' = Resolve({k \in Callers \ NilCallers : called[k] = "asked"}, "failed")
  /\ UNCHANGED <<lifecycleVars, cascadeTo, called, childVars, eventVars, server,
                 firingVars, crashed>>

\* The task that runs initiateShutdown0 waits for the collector, then for the
\* server's loop.
InitiateShutdown(k) ==
  /\ ~crashed
  /\ called[k] = "idle"
  /\ collectorPromise # "failed"
  /\ called' = [called EXCEPT ![k] = "asked"]
  /\ UNCHANGED <<lifecycleVars, cascadeTo, promise, collectorPromise, childVars,
                 eventVars, server, firingVars, crashed>>

-----------------------------------------------------------------------------
(* LifecycleStateMachine.shutdownCompleted and channelRemoved.             *)

Crash ==
  /\ crashed' = TRUE
  /\ UNCHANGED <<lifecycleVars, promise>>

ShutdownCompleted(outcomes) ==
  IF lifecycle = "shuttingDown"
    THEN /\ lifecycle' = "shutdownCompleted"
         /\ openChannels' = {}
         /\ promise' = outcomes
         /\ UNCHANGED <<fullyShutdownPromise, crashed>>
    ELSE Crash

Drained == Resolve(ShutdownPromises(fullyShutdownPromise), "succeeded")

\* Mutant: the first child that closes completes the shutdown.
ChannelRemoved0Early(c) ==
  IF lifecycle = "shutdownCompleted" \/ c \notin openChannels THEN
    Crash
  ELSE IF lifecycle = "shuttingDown" THEN
    ShutdownCompleted(Drained)
  ELSE
    /\ openChannels' = openChannels \ {c}
    /\ UNCHANGED <<lifecycle, fullyShutdownPromise, promise, crashed>>

ChannelRemoved0(c) ==
  IF lifecycle = "shutdownCompleted" \/ c \notin openChannels THEN
    Crash
  ELSE IF lifecycle = "shuttingDown" /\ openChannels = {c} THEN
    ShutdownCompleted(Drained)
  ELSE
    /\ openChannels' = openChannels \ {c}
    /\ UNCHANGED <<lifecycle, fullyShutdownPromise, promise, crashed>>

-----------------------------------------------------------------------------
(* initiateShutdown0 of a call k, on the server's loop.                    *)

Runnable(k) ==
  /\ ~crashed
  /\ called[k] = "asked"
  /\ collectorPromise = "succeeded"

BeginShutdown(k) ==
  /\ Runnable(k)
  /\ lifecycle = "upAndRunning"
  /\ called' = [called EXCEPT ![k] = "handled"]
  /\ lifecycle' = "shuttingDown"
  /\ fullyShutdownPromise' = IF k \in NilCallers THEN Internal ELSE k
  /\ firing' = TRUE
  /\ captured' = openChannels
  /\ UNCHANGED <<openChannels, cascadeTo, promise, collectorPromise, childVars,
                 eventVars, server, crashed>>

\* serverChannel.close() may succeed at once, fail at once (the channel is
\* closed already, or a handler refuses), or be answered later.
CloseServer(closeFails) ==
  \/ server = "open" /\ server' \in {"closing", "closed"} /\ ~closeFails
  \/ closeFails /\ UNCHANGED server

\* Mutant: the test for no channels reads the registry again, after the user's
\* handlers have run.
FinishShutdownRereads ==
  /\ ~crashed
  /\ firing
  /\ firing' = FALSE
  /\ captured' = {}
  /\ scheduled' = [c \in Children |-> IF c \in captured THEN scheduled[c] + 1
                                                        ELSE scheduled[c]]
  /\ \E closeFails \in BOOLEAN :
       LET outcome == IF closeFails THEN "failed" ELSE "succeeded"
           outcomes == Resolve(ShutdownPromises(fullyShutdownPromise), outcome) IN
       /\ CloseServer(closeFails)
       /\ IF openChannels = {}
            THEN ShutdownCompleted(outcomes)
            ELSE /\ promise' = IF closeFails THEN outcomes ELSE promise
                 /\ UNCHANGED <<lifecycleVars, crashed>>
  /\ UNCHANGED <<cascadeTo, collectorPromise, called, childVars, delivered>>

FinishShutdown ==
  /\ ~crashed
  /\ firing
  /\ firing' = FALSE
  /\ captured' = {}
  /\ scheduled' = [c \in Children |-> IF c \in captured THEN scheduled[c] + 1
                                                        ELSE scheduled[c]]
  /\ \E closeFails \in BOOLEAN :
       LET outcome == IF closeFails THEN "failed" ELSE "succeeded"
           outcomes == Resolve(ShutdownPromises(fullyShutdownPromise), outcome) IN
       /\ CloseServer(closeFails)
       /\ IF captured = {}
            THEN ShutdownCompleted(outcomes)
            ELSE /\ promise' = IF closeFails THEN outcomes ELSE promise
                 /\ UNCHANGED <<lifecycleVars, crashed>>
  /\ UNCHANGED <<cascadeTo, collectorPromise, called, childVars, delivered>>

\* Mutant: a later call without a promise attaches the promise made for the first.
CascadeShutdownInternal(k) ==
  /\ Runnable(k)
  /\ lifecycle = "shuttingDown"
  /\ called' = [called EXCEPT ![k] = "handled"]
  /\ cascadeTo' = cascadeTo \cup {IF k \in NilCallers THEN Internal ELSE k}
  /\ promise' = IF promise[fullyShutdownPromise] = "pending" THEN promise
                ELSE Resolve({k} \ NilCallers, promise[fullyShutdownPromise])
  /\ UNCHANGED <<lifecycleVars, collectorPromise, childVars, eventVars, server,
                 firingVars, crashed>>

\* A later call, from another thread or from a handler that runs inside the
\* first one, is attached to the promise of the first.
CascadeShutdown(k) ==
  /\ Runnable(k)
  /\ lifecycle = "shuttingDown"
  /\ called' = [called EXCEPT ![k] = "handled"]
  /\ cascadeTo' = cascadeTo \cup ({k} \ NilCallers)
  /\ promise' = IF promise[fullyShutdownPromise] = "pending" THEN promise
                ELSE Resolve({k} \ NilCallers, promise[fullyShutdownPromise])
  /\ UNCHANGED <<lifecycleVars, collectorPromise, childVars, eventVars, server,
                 firingVars, crashed>>

LateShutdown(k) ==
  /\ Runnable(k)
  /\ lifecycle = "shutdownCompleted"
  /\ called' = [called EXCEPT ![k] = "handled"]
  /\ promise' = Resolve({k} \ NilCallers, "succeeded")
  /\ UNCHANGED <<lifecycleVars, cascadeTo, collectorPromise, childVars, eventVars,
                 server, firingVars, crashed>>

\* The future of serverChannel.close() is completed later.
ServerCloseAnswered ==
  /\ ~crashed
  /\ server = "closing"
  /\ \/ /\ server' = "closed"
        /\ UNCHANGED promise
     \/ /\ server' = "open"
        /\ promise' = Resolve(ShutdownPromises(fullyShutdownPromise), "failed")
  /\ UNCHANGED <<lifecycleVars, cascadeTo, collectorPromise, called, childVars,
                 eventVars, firingVars, crashed>>

\* The user closes the server channel without the helper.
UserClosesServer ==
  /\ ~crashed
  /\ server = "open"
  /\ server' = "closed"
  /\ UNCHANGED <<lifecycleVars, promiseVars, childVars, eventVars, firingVars,
                 crashed>>

-----------------------------------------------------------------------------
(* The children.                                                           *)

Connect(c) ==
  /\ ~crashed
  /\ child[c] = "unborn"
  /\ child' = [child EXCEPT ![c] = "open"]
  /\ UNCHANGED <<lifecycleVars, promiseVars, accepted, removing, closing, eventVars,
                 server, firingVars, crashed>>

\* CollectAcceptedChannelsHandler.channelRead and ChannelCollector.channelAdded.
Arriving(c) ==
  /\ ~crashed
  /\ collectorPromise = "succeeded"
  /\ ~firing
  /\ child[c] # "unborn"
  /\ c \notin accepted
  /\ accepted' = accepted \cup {c}

\* Mutant: a child that arrives during the shutdown is not told.
ScheduleIfQuiescingNever(c) == UNCHANGED scheduled

ScheduleIfQuiescing(c) ==
  scheduled' = IF lifecycle = "shuttingDown"
                 THEN [scheduled EXCEPT ![c] = @ + 1]
                 ELSE scheduled

\* Mutant: the close of a child that closed before it was read goes unreported.
ChannelReadUnreported(c) ==
  /\ Arriving(c)
  /\ lifecycle # "shutdownCompleted"
  /\ child[c] = "open" \/ c \notin ServerLoopChildren
  /\ openChannels' = openChannels \cup {c}
  /\ ScheduleIfQuiescing(c)
  /\ UNCHANGED <<lifecycle, fullyShutdownPromise, promiseVars, child, removing,
                 closing, delivered, server, firingVars, crashed>>

\* The child is registered, and its close will be reported.
ChannelRead(c) ==
  /\ Arriving(c)
  /\ lifecycle # "shutdownCompleted"
  /\ child[c] = "open" \/ c \notin ServerLoopChildren
  /\ openChannels' = openChannels \cup {c}
  /\ removing' = IF child[c] = "open" THEN removing ELSE removing \cup {c}
  /\ ScheduleIfQuiescing(c)
  /\ UNCHANGED <<lifecycle, fullyShutdownPromise, promiseVars, child, closing,
                 delivered, server, firingVars, crashed>>

\* A child of the server's loop that is closed already is reported inline: it is
\* added and removed in one task.
ChannelReadClosed(c) ==
  /\ Arriving(c)
  /\ lifecycle # "shutdownCompleted"
  /\ child[c] = "closed"
  /\ c \in ServerLoopChildren
  /\ ScheduleIfQuiescing(c)
  /\ IF lifecycle = "shuttingDown" /\ openChannels = {}
       THEN ShutdownCompleted(Drained)
       ELSE UNCHANGED <<lifecycleVars, promise, crashed>>
  /\ UNCHANGED <<cascadeTo, collectorPromise, called, child, removing, closing,
                 delivered, server, firingVars>>

\* Mutant: a child that arrives after the shutdown is left open.
ChannelReadRejectedOpen(c) ==
  /\ Arriving(c)
  /\ lifecycle = "shutdownCompleted"
  /\ UNCHANGED <<lifecycleVars, promiseVars, child, removing, closing, eventVars, server,
                 firingVars, crashed>>

\* After the shutdown the child is refused: channelAdded and the handler that catches
\* its error both close it, the second time for nothing.  A child of another loop stays
\* open until that loop runs the close, and nothing waits for it.
ChannelReadRejected(c) ==
  /\ Arriving(c)
  /\ lifecycle = "shutdownCompleted"
  /\ IF c \in ServerLoopChildren
       THEN child' = [child EXCEPT ![c] = "closed"] /\ UNCHANGED closing
       ELSE closing' = closing \cup {c} /\ UNCHANGED child
  /\ UNCHANGED <<lifecycleVars, promiseVars, removing, eventVars, server, firingVars,
                 crashed>>

\* The queued close of a refused child, which may have closed before.
CloseRefused(c) ==
  /\ ~crashed
  /\ c \in closing
  /\ closing' = closing \ {c}
  /\ child' = [child EXCEPT ![c] = "closed"]
  /\ UNCHANGED <<lifecycleVars, promiseVars, accepted, removing, eventVars, server,
                 firingVars, crashed>>

\* A child closes, on its own loop, for any reason.  The collector hears of it if the
\* child was read and not refused.
CloseChild(c) ==
  /\ ~crashed
  /\ child[c] = "open"
  /\ child' = [child EXCEPT ![c] = "closed"]
  /\ \/ /\ c \notin accepted \/ c \in closing
        /\ UNCHANGED <<lifecycleVars, promise, removing, crashed>>
     \/ /\ c \in accepted \ (closing \cup ServerLoopChildren)
        /\ removing' = removing \cup {c}
        /\ UNCHANGED <<lifecycleVars, promise, crashed>>
     \/ /\ c \in (accepted \ closing) \cap ServerLoopChildren
        /\ ChannelRemoved0(c)
        /\ UNCHANGED removing
  /\ UNCHANGED <<cascadeTo, collectorPromise, called, accepted, closing, eventVars,
                 server, firingVars>>

\* The queued channelRemoved0 of a child of another loop.
ChannelRemovedTask(c) ==
  /\ ~crashed
  /\ ~firing
  /\ c \in removing
  /\ removing' = removing \ {c}
  /\ ChannelRemoved0(c)
  /\ UNCHANGED <<cascadeTo, collectorPromise, called, child, accepted, closing,
                 eventVars, server, firingVars>>

\* ChannelShouldQuiesceEvent reaches the child, on the child's loop.
DeliverQuiesce(c) ==
  /\ ~crashed
  /\ delivered[c] < scheduled[c]
  /\ delivered' = [delivered EXCEPT ![c] = @ + 1]
  /\ UNCHANGED <<lifecycleVars, promiseVars, childVars, scheduled, server, firingVars,
                 crashed>>

-----------------------------------------------------------------------------

CallerStep(k) ==
  \/ InitiateShutdown(k)
  \/ BeginShutdown(k)
  \/ CascadeShutdown(k)
  \/ LateShutdown(k)

ChildStep(c) ==
  \/ Connect(c)
  \/ ChannelRead(c)
  \/ ChannelReadClosed(c)
  \/ ChannelReadRejected(c)
  \/ CloseRefused(c)
  \/ CloseChild(c)
  \/ ChannelRemovedTask(c)
  \/ DeliverQuiesce(c)

Next ==
  \/ MakeServerChannelHandler
  \/ Deinit
  \/ FinishShutdown
  \/ ServerCloseAnswered
  \/ UserClosesServer
  \/ \E k \in Callers : CallerStep(k)
  \/ \E c \in Children : ChildStep(c)

\* A child closes because it was told to quiesce.
QuiesceChild(c) == delivered[c] > 0 /\ CloseChild(c)

\* Event loops run their tasks, and a child that was told to quiesce closes in the
\* end: that is what the application owes to ChannelShouldQuiesceEvent.  Nothing
\* else is promised: no caller has to ask, no client to connect, no child to close.
Fairness ==
  /\ WF_vars(FinishShutdown)
  /\ \A k \in Callers :
       WF_vars(BeginShutdown(k) \/ CascadeShutdown(k) \/ LateShutdown(k))
  /\ \A c \in Children :
       /\ WF_vars(ChannelRemovedTask(c))
       /\ WF_vars(CloseRefused(c))
       /\ WF_vars(DeliverQuiesce(c))
       /\ WF_vars(QuiesceChild(c))

Spec == Init /\ [][Next]_vars
FairSpec == Spec /\ Fairness

-----------------------------------------------------------------------------
(* Correctness.                                                            *)

\* The type of every variable.
TypeOK ==
  /\ lifecycle \in {"upAndRunning", "shuttingDown", "shutdownCompleted"}
  /\ openChannels \subseteq Children
  /\ fullyShutdownPromise \in Promises \cup {NoPromise}
  /\ cascadeTo \subseteq Callers
  /\ promise \in [Promises -> Outcomes]
  /\ collectorPromise \in Outcomes
  /\ called \in [Callers -> {"idle", "asked", "handled"}]
  /\ child \in [Children -> {"unborn", "open", "closed"}]
  /\ accepted \subseteq Children
  /\ removing \subseteq Children
  /\ closing \subseteq Children
  /\ scheduled \in [Children -> Nat]
  /\ delivered \in [Children -> Nat]
  /\ server \in {"open", "closing", "closed"}
  /\ firing \in BOOLEAN
  /\ captured \subseteq Children
  /\ crashed \in BOOLEAN

\* The registry of ChannelCollector: every accepted child that is still open is
\* registered, unless it was refused after the end and its own loop is about to close
\* it; and a registered child that has closed has exactly one removal on its way to the
\* server's loop.  No child is lost, and none is removed twice.
Registry ==
  /\ {c \in accepted \ closing : child[c] = "open"} \subseteq openChannels
  /\ openChannels \subseteq accepted \ closing
  /\ accepted \subseteq {c \in Children : child[c] # "unborn"}
  /\ removing = {c \in openChannels : child[c] = "closed"}
  /\ closing \subseteq accepted \ ServerLoopChildren
  /\ closing # {} => lifecycle = "shutdownCompleted"

\* None of the preconditions of LifecycleStateMachine fails: a child is removed
\* once, only while it is registered, never after the shutdown has completed, and
\* the shutdown completes once, whatever closes during initiateShutdown0.
NoPreconditionFailure == ~crashed

\* A promise that was given to initiateShutdown succeeds only when every child that was
\* ever accepted has closed, however the closes of the children, the later callers and
\* the shutdown are interleaved; open may be only what was accepted after the end, and
\* refused, until its own loop runs the close.
SucceededMeansDrained ==
  \A p \in Promises : promise[p] = "succeeded" =>
    /\ lifecycle = "shutdownCompleted"
    /\ \A c \in accepted : child[c] = "closed" \/ c \in closing

\* Once initiateShutdown0 has run, every child still registered has been told to
\* quiesce exactly once, those that arrived during the shutdown too; no child is
\* ever told twice.
EveryChildToldOnce ==
  /\ \A c \in Children : scheduled[c] <= 1
  /\ lifecycle = "shuttingDown" /\ ~firing =>
       \A c \in openChannels : scheduled[c] = 1

\* A shutdown that has begun completes, also when closing the server failed; a call of
\* initiateShutdown that passes a promise, on a helper that has a collector or has been
\* dropped, is answered; and a child that was refused closes.  No child is forgotten and
\* no caller is left attached to a future that nobody completes.
ShutdownTerminates ==
  /\ lifecycle = "shuttingDown" ~> lifecycle = "shutdownCompleted"
  /\ \A k \in Callers \ NilCallers :
       (called[k] # "idle" /\ collectorPromise # "pending") ~> (promise[k] # "pending")
  /\ \A c \in Children : c \in closing ~> child[c] = "closed"

-----------------------------------------------------------------------------
(* The inductive invariant behind the safety properties.                   *)

\* What lifecycle says of the registry and of a running initiateShutdown0: a
\* shutdown with nothing left to wait for is either complete or about to be.
Shutdown ==
  /\ lifecycle = "upAndRunning" => ~firing
  /\ lifecycle # "upAndRunning" => fullyShutdownPromise \in Promises
  /\ lifecycle = "shutdownCompleted" => openChannels = {}
  /\ lifecycle = "shuttingDown" /\ openChannels = {} => firing /\ captured = {}
  /\ firing => openChannels \subseteq captured
  /\ firing /\ captured = {} => lifecycle = "shuttingDown"

\* Nobody is told that the shutdown succeeded before it completed.
SuccessMeansCompleted ==
  \A p \in Promises : promise[p] = "succeeded" => lifecycle = "shutdownCompleted"

\* Before the quiesce events are scheduled nobody has been told; a child is told
\* when it is captured or when it arrives later, never both.
Told ==
  /\ captured \subseteq accepted
  /\ \A c \in Children : scheduled[c] <= 1
  /\ \A c \in Children \ accepted : scheduled[c] = 0
  /\ lifecycle = "upAndRunning" \/ firing => \A c \in Children : scheduled[c] = 0
  /\ lifecycle = "shuttingDown" /\ ~firing =>
       \A c \in openChannels : scheduled[c] = 1

IInv ==
  /\ TypeOK
  /\ NoPreconditionFailure
  /\ Registry
  /\ Shutdown
  /\ SuccessMeansCompleted
  /\ Told

-----------------------------------------------------------------------------
(* The shutdown as a drain barrier: see Drain.                             *)

phase == CASE lifecycle = "upAndRunning"      -> "serving"
           [] lifecycle = "shuttingDown"      -> "draining"
           [] lifecycle = "shutdownCompleted" -> "drained"
live == {c \in accepted \ closing : child[c] = "open"}
refused == {c \in closing : child[c] = "open"}
told == {k \in Callers : promise[k] = "succeeded"}

Barrier == INSTANCE Drain WITH Members <- Children, Waiters <- Callers

\* The helper implements the drain barrier.
ImplementsDrain == Barrier!Spec
=============================================================================
