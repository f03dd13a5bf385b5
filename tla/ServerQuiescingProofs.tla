------------------------ MODULE ServerQuiescingProofs ------------------------
(***************************************************************************)
(* The safety of ServerQuiescing for any number of children, callers and   *)
(* event loops, and that it implements Drain.                              *)
(*                                                                         *)
(* IInv is inductive: Registry alone is not, because whether channelRemoved*)
(* finds its child depends on what a completed shutdown leaves registered  *)
(* (Shutdown), and EveryChildToldOnce depends on who may still be captured *)
(* while initiateShutdown0 runs the user's handlers (Told).                *)
(***************************************************************************)
EXTENDS ServerQuiescing, TLAPS

\* Resolving promises gives each of them an outcome.
LEMMA ResolveType ==
  ASSUME promise \in [Promises -> Outcomes], NEW outcome \in Outcomes, NEW ps
  PROVE  Resolve(ps, outcome) \in [Promises -> Outcomes]
BY DEF Resolve

\* Failing promises makes none of them succeed.
LEMMA ResolveFailed ==
  ASSUME promise \in [Promises -> Outcomes], NEW ps, NEW p \in Promises,
         Resolve(ps, "failed")[p] = "succeeded"
  PROVE  promise[p] = "succeeded"
BY DEF Resolve, Outcomes

\* In the initial state nothing is registered and nobody is told.
LEMMA InitIInv == Init => IInv
<1> SUFFICES ASSUME Init PROVE IInv
  OBVIOUS
<1>1. TypeOK
  BY DEF Init, TypeOK, Outcomes
<1>2. NoPreconditionFailure /\ Registry
  BY DEF Init, NoPreconditionFailure, Registry
<1>3. Shutdown /\ SuccessMeansCompleted /\ Told
  BY DEF Init, Shutdown, SuccessMeansCompleted, Told
<1> QED
  BY <1>1, <1>2, <1>3 DEF IInv

\* channelRemoved0 of a registered child fails no precondition: it takes the child
\* out, and completes the shutdown exactly when that child was the last one.
LEMMA RemovedRegistered ==
  ASSUME IInv, NEW c \in openChannels, ChannelRemoved0(c)
  PROVE  /\ openChannels' = openChannels \ {c}
         /\ fullyShutdownPromise' = fullyShutdownPromise
         /\ crashed' = crashed
         /\ lifecycle # "shutdownCompleted"
         /\ promise' \in [Promises -> Outcomes]
         /\ \/ /\ lifecycle = "shuttingDown"
               /\ lifecycle' = "shutdownCompleted"
               /\ openChannels' = {}
            \/ /\ lifecycle' = lifecycle
               /\ promise' = promise
               /\ lifecycle = "upAndRunning" \/ openChannels' # {}
<1>1. lifecycle # "shutdownCompleted"
  BY DEF IInv, Shutdown
<1>2. promise \in [Promises -> Outcomes] /\ openChannels \subseteq Children
  BY DEF IInv, TypeOK
<1>3. CASE lifecycle = "shuttingDown" /\ openChannels = {c}
  <2>1. ShutdownCompleted(Drained)
    BY <1>1, <1>3 DEF ChannelRemoved0
  <2>2. Drained \in [Promises -> Outcomes]
    BY <1>2, ResolveType DEF Drained, Outcomes
  <2> QED
    BY <1>1, <1>3, <2>1, <2>2 DEF ShutdownCompleted
<1>4. CASE ~(lifecycle = "shuttingDown" /\ openChannels = {c})
  <2>1. lifecycle = "upAndRunning" \/ openChannels \ {c} # {}
    BY <1>1, <1>4 DEF IInv, TypeOK
  <2> QED
    BY <1>1, <1>2, <1>4, <2>1 DEF ChannelRemoved0
<1> QED
  BY <1>3, <1>4

-----------------------------------------------------------------------------
(* Every step preserves IInv.                                              *)

LEMMA HelperStep ==
  ASSUME IInv,
         \/ MakeServerChannelHandler \/ Deinit
         \/ ServerCloseAnswered \/ UserClosesServer
  PROVE  IInv'
<1> USE DEF IInv
<1>1. promise' \in [Promises -> Outcomes]
  BY ResolveType DEF TypeOK, Outcomes, MakeServerChannelHandler, Deinit,
     ServerCloseAnswered, UserClosesServer, promiseVars
<1>2. UNCHANGED <<lifecycleVars, cascadeTo, called, childVars, eventVars, firingVars,
                  crashed>>
  BY DEF MakeServerChannelHandler, Deinit, ServerCloseAnswered, UserClosesServer,
     promiseVars
<1>3. TypeOK'
  BY <1>1, <1>2 DEF TypeOK, Outcomes, MakeServerChannelHandler, Deinit,
     ServerCloseAnswered, UserClosesServer, promiseVars, lifecycleVars, childVars,
     eventVars, firingVars
<1>4. (NoPreconditionFailure /\ Registry /\ Shutdown /\ Told)'
  BY <1>2 DEF NoPreconditionFailure, Registry, Shutdown, Told, lifecycleVars,
     childVars, eventVars, firingVars
<1>5. SuccessMeansCompleted'
  <2> SUFFICES ASSUME NEW p \in Promises, promise'[p] = "succeeded"
               PROVE  promise[p] = "succeeded"
    BY <1>2 DEF SuccessMeansCompleted, lifecycleVars
  <2> QED
    BY ResolveFailed DEF TypeOK, MakeServerChannelHandler, Deinit,
       ServerCloseAnswered, UserClosesServer, promiseVars
<1> QED
  BY <1>3, <1>4, <1>5

LEMMA CallerStepInv ==
  ASSUME IInv, NEW k \in Callers, CallerStep(k)
  PROVE  IInv'
<1> USE DEF IInv
<1>1. CASE InitiateShutdown(k)
  BY <1>1 DEF InitiateShutdown, TypeOK, NoPreconditionFailure, Registry, Shutdown,
     SuccessMeansCompleted, Told, lifecycleVars, childVars, eventVars, firingVars
<1>2. CASE BeginShutdown(k)
  <2>1. TypeOK'
    BY <1>2 DEF BeginShutdown, Runnable, TypeOK, Promises, childVars, eventVars
  <2>2. (NoPreconditionFailure /\ Registry)'
    BY <1>2 DEF BeginShutdown, NoPreconditionFailure, Registry, childVars
  <2>3. (Shutdown /\ SuccessMeansCompleted /\ Told)'
    BY <1>2 DEF BeginShutdown, Shutdown, SuccessMeansCompleted, Told, Registry,
       Promises, childVars, eventVars
  <2> QED
    BY <2>1, <2>2, <2>3
<1>3. CASE CascadeShutdown(k)
  <2>1. promise' \in [Promises -> Outcomes]
    <3>1. fullyShutdownPromise \in Promises
      BY <1>3 DEF CascadeShutdown, Shutdown
    <3> QED
      BY <1>3, <3>1, ResolveType DEF CascadeShutdown, TypeOK
  <2>2. \A p \in Promises : promise'[p] # "succeeded"
    <3>1. \A p \in Promises : promise[p] # "succeeded"
      BY <1>3 DEF CascadeShutdown, SuccessMeansCompleted
    <3>2. fullyShutdownPromise \in Promises
      BY <1>3 DEF CascadeShutdown, Shutdown
    <3> QED
      BY <1>3, <3>1, <3>2 DEF CascadeShutdown, Resolve
  <2> QED
    BY <1>3, <2>1, <2>2 DEF CascadeShutdown, TypeOK, NoPreconditionFailure, Registry,
       Shutdown, SuccessMeansCompleted, Told, lifecycleVars, childVars, eventVars,
       firingVars
<1>4. CASE LateShutdown(k)
  <2>1. promise' \in [Promises -> Outcomes]
    BY <1>4, ResolveType DEF LateShutdown, TypeOK, Outcomes
  <2> QED
    BY <1>4, <2>1 DEF LateShutdown, TypeOK, NoPreconditionFailure, Registry, Shutdown,
       SuccessMeansCompleted, Told, lifecycleVars, childVars, eventVars, firingVars
<1> QED
  BY <1>1, <1>2, <1>3, <1>4 DEF CallerStep

\* The captured children are told; with none captured the shutdown completes, which
\* is legal because nothing can have completed it in the meantime.
LEMMA FinishShutdownInv ==
  ASSUME IInv, FinishShutdown
  PROVE  IInv'
<1> USE DEF IInv
<1>1. PICK closeFails \in BOOLEAN :
        LET outcome == IF closeFails THEN "failed" ELSE "succeeded"
            outcomes == Resolve(ShutdownPromises(fullyShutdownPromise), outcome) IN
        /\ CloseServer(closeFails)
        /\ IF captured = {}
             THEN ShutdownCompleted(outcomes)
             ELSE /\ promise' = IF closeFails THEN outcomes ELSE promise
                  /\ UNCHANGED <<lifecycleVars, crashed>>
  BY DEF FinishShutdown
<1> DEFINE outcome == IF closeFails THEN "failed" ELSE "succeeded"
           outcomes == Resolve(ShutdownPromises(fullyShutdownPromise), outcome)
<1>2. outcomes \in [Promises -> Outcomes]
  BY ResolveType DEF TypeOK, Outcomes
<1>3. /\ scheduled' \in [Children -> Nat]
      /\ \A c \in Children : scheduled'[c] = IF c \in captured THEN 1 ELSE 0
  BY DEF FinishShutdown, TypeOK, Told
<1>4. server' \in {"open", "closing", "closed"}
  BY <1>1 DEF CloseServer, TypeOK
<1>5. /\ UNCHANGED <<cascadeTo, collectorPromise, called, child, accepted, removing,
                     closing, delivered>>
      /\ firing = TRUE /\ firing' = FALSE /\ captured' = {}
  BY DEF FinishShutdown, childVars, TypeOK
<1>6. CASE captured = {}
  <2>1. /\ lifecycle = "shuttingDown" /\ lifecycle' = "shutdownCompleted"
        /\ openChannels = {} /\ openChannels' = {}
        /\ promise' = outcomes
        /\ UNCHANGED <<fullyShutdownPromise, crashed>>
    BY <1>1, <1>5, <1>6 DEF ShutdownCompleted, Shutdown
  <2>2. TypeOK'
    BY <1>2, <1>3, <1>4, <1>5, <2>1 DEF TypeOK
  <2> QED
    BY <1>3, <1>5, <1>6, <2>1, <2>2 DEF NoPreconditionFailure, Registry, Shutdown,
       SuccessMeansCompleted, Told
<1>7. CASE captured # {}
  <2>1. /\ UNCHANGED <<lifecycle, openChannels, fullyShutdownPromise, crashed>>
        /\ promise' = IF closeFails THEN outcomes ELSE promise
    BY <1>1, <1>7 DEF lifecycleVars
  <2>2. TypeOK'
    BY <1>2, <1>3, <1>4, <1>5, <2>1 DEF TypeOK
  <2>3. (NoPreconditionFailure /\ Registry /\ Shutdown)'
    BY <1>5, <1>7, <2>1 DEF NoPreconditionFailure, Registry, Shutdown
  <2>4. Told'
    BY <1>3, <1>5, <2>1 DEF Told, Shutdown, TypeOK
  <2>5. SuccessMeansCompleted'
    <3> SUFFICES ASSUME NEW p \in Promises, promise'[p] = "succeeded"
                 PROVE  promise[p] = "succeeded"
      BY <2>1 DEF SuccessMeansCompleted
    <3> QED
      BY <2>1, ResolveFailed DEF TypeOK
  <2> QED
    BY <2>2, <2>3, <2>4, <2>5
<1> QED
  BY <1>6, <1>7

\* A child that arrives is registered, and told if the shutdown has begun; the close
\* of a child that closed on its way is on its way too.
LEMMA ChannelReadInv ==
  ASSUME IInv, NEW c \in Children,
         ChannelRead(c) \/ ChannelReadClosed(c) \/ ChannelReadRejected(c)
  PROVE  IInv'
<1> USE DEF IInv
<1>1. CASE ChannelRead(c)
  <2>1. /\ UNCHANGED <<lifecycle, fullyShutdownPromise, cascadeTo, promise,
                       collectorPromise, called, child, closing, delivered, server,
                       firing, captured, crashed>>
        /\ firing = FALSE
        /\ lifecycle # "shutdownCompleted"
        /\ child[c] # "unborn" /\ c \notin accepted /\ accepted' = accepted \cup {c}
        /\ openChannels' = openChannels \cup {c}
        /\ removing' = IF child[c] = "open" THEN removing ELSE removing \cup {c}
    BY <1>1 DEF ChannelRead, Arriving, promiseVars, firingVars, TypeOK
  <2>2. scheduled' = IF lifecycle = "shuttingDown"
                       THEN [scheduled EXCEPT ![c] = scheduled[c] + 1]
                       ELSE scheduled
    BY <1>1 DEF ChannelRead, ScheduleIfQuiescing
  <2>3. TypeOK'
    BY <2>1, <2>2 DEF TypeOK
  <2>4. Registry'
    BY <2>1 DEF Registry, TypeOK
  <2>5. Told'
    BY <2>1, <2>2 DEF Told, TypeOK
  <2> QED
    BY <2>1, <2>3, <2>4, <2>5 DEF NoPreconditionFailure, Shutdown, SuccessMeansCompleted
<1>2. CASE ChannelReadClosed(c)
  <2>1. lifecycle # "shuttingDown" \/ openChannels # {}
    BY <1>2 DEF ChannelReadClosed, Arriving, Shutdown
  <2>2. /\ UNCHANGED <<lifecycleVars, promiseVars, child, removing, closing, delivered,
                       server, firingVars, crashed>>
        /\ firing = FALSE
        /\ child[c] = "closed" /\ c \notin accepted /\ accepted' = accepted \cup {c}
    BY <1>2, <2>1 DEF ChannelReadClosed, Arriving, promiseVars, TypeOK
  <2>3. scheduled' = IF lifecycle = "shuttingDown"
                       THEN [scheduled EXCEPT ![c] = scheduled[c] + 1]
                       ELSE scheduled
    BY <1>2 DEF ChannelReadClosed, ScheduleIfQuiescing
  <2> USE DEF lifecycleVars, promiseVars, firingVars
  <2>4. TypeOK'
    BY <2>2, <2>3 DEF TypeOK
  <2>5. Registry'
    BY <2>2 DEF Registry, TypeOK
  <2>6. Told'
    BY <2>2, <2>3 DEF Told, Registry, TypeOK
  <2> QED
    BY <2>2, <2>4, <2>5, <2>6 DEF NoPreconditionFailure, Shutdown, SuccessMeansCompleted
<1>3. CASE ChannelReadRejected(c)
  <2>1. /\ UNCHANGED <<lifecycleVars, promiseVars, removing, eventVars, server,
                       firingVars, crashed>>
        /\ lifecycle = "shutdownCompleted" /\ firing = FALSE
        /\ child[c] # "unborn" /\ c \notin accepted /\ accepted' = accepted \cup {c}
        /\ IF c \in ServerLoopChildren
             THEN child' = [child EXCEPT ![c] = "closed"] /\ closing' = closing
             ELSE child' = child /\ closing' = closing \cup {c}
    BY <1>3 DEF ChannelReadRejected, Arriving, TypeOK
  <2> USE DEF lifecycleVars, promiseVars, eventVars, firingVars
  <2>2. TypeOK'
    BY <2>1 DEF TypeOK
  <2>3. Registry'
    BY <2>1 DEF Registry, Shutdown, TypeOK
  <2> QED
    BY <2>1, <2>2, <2>3 DEF NoPreconditionFailure, Shutdown, SuccessMeansCompleted, Told
<1> QED
  BY <1>1, <1>2, <1>3

\* What CloseChild and ChannelRemovedTask share: a registered child that has closed
\* is taken out.
LEMMA TakenOutInv ==
  ASSUME IInv, NEW c \in openChannels, ChannelRemoved0(c),
         child' = [child EXCEPT ![c] = "closed"],
         removing' = removing \ {c},
         UNCHANGED <<cascadeTo, collectorPromise, called, accepted, closing, eventVars,
                     server, firingVars>>
  PROVE  IInv'
<1> USE DEF IInv
<1>1. /\ openChannels' = openChannels \ {c}
      /\ fullyShutdownPromise' = fullyShutdownPromise
      /\ crashed' = crashed
      /\ lifecycle # "shutdownCompleted"
      /\ promise' \in [Promises -> Outcomes]
      /\ \/ /\ lifecycle = "shuttingDown"
            /\ lifecycle' = "shutdownCompleted"
            /\ openChannels' = {}
         \/ /\ lifecycle' = lifecycle
            /\ promise' = promise
            /\ lifecycle = "upAndRunning" \/ openChannels' # {}
  BY RemovedRegistered
<1> USE DEF eventVars, firingVars
<1>2. TypeOK'
  BY <1>1 DEF TypeOK
<1>3. (NoPreconditionFailure /\ Registry)'
  BY <1>1 DEF NoPreconditionFailure, Registry, TypeOK
<1>4. Shutdown'
  <2>1. firing => captured # {}
    BY DEF Shutdown
  <2> QED
    BY <1>1, <2>1 DEF Shutdown
<1>5. SuccessMeansCompleted'
  BY <1>1 DEF SuccessMeansCompleted
<1>6. Told'
  BY <1>1 DEF Told
<1> QED
  BY <1>2, <1>3, <1>4, <1>5, <1>6

LEMMA ChildStepInv ==
  ASSUME IInv, NEW c \in Children, ChildStep(c)
  PROVE  IInv'
<1> USE DEF IInv
<1>1. CASE Connect(c)
  <2> USE <1>1 DEF Connect, lifecycleVars, promiseVars, eventVars, firingVars
  <2>1. TypeOK'
    BY DEF TypeOK
  <2>2. Registry'
    BY DEF TypeOK, Registry
  <2> QED
    BY <2>1, <2>2 DEF NoPreconditionFailure, Shutdown, SuccessMeansCompleted, Told
<1>2. CASE ChannelRead(c) \/ ChannelReadClosed(c) \/ ChannelReadRejected(c)
  BY <1>2, ChannelReadInv
<1>3. CASE CloseChild(c)
  <2>1. child[c] = "open" /\ child' = [child EXCEPT ![c] = "closed"]
    BY <1>3 DEF CloseChild
  <2>2. CASE c \in (accepted \ closing) \cap ServerLoopChildren
    <3>1. c \in openChannels /\ c \notin removing
      BY <2>1, <2>2 DEF Registry
    <3> QED
      BY <1>3, <2>1, <2>2, <3>1, TakenOutInv DEF CloseChild
  <2>3. CASE c \notin (accepted \ closing) \cap ServerLoopChildren
    <3>1. /\ UNCHANGED <<lifecycleVars, promiseVars, accepted, closing, eventVars, server,
                         firingVars, crashed>>
          /\ removing' = IF c \in accepted \ closing THEN removing \cup {c} ELSE removing
      BY <1>3, <2>3 DEF CloseChild, promiseVars
    <3> USE DEF lifecycleVars, promiseVars, eventVars, firingVars
    <3>2. TypeOK'
      BY <2>1, <3>1 DEF TypeOK
    <3>3. Registry'
      BY <2>1, <3>1 DEF Registry, TypeOK
    <3> QED
      BY <3>1, <3>2, <3>3 DEF NoPreconditionFailure, Shutdown, SuccessMeansCompleted,
         Told
  <2> QED
    BY <2>2, <2>3
<1>4. CASE ChannelRemovedTask(c)
  <2>1. c \in openChannels /\ child[c] = "closed"
    BY <1>4 DEF ChannelRemovedTask, Registry
  <2>2. child' = [child EXCEPT ![c] = "closed"]
    BY <1>4, <2>1 DEF ChannelRemovedTask, TypeOK
  <2> QED
    BY <1>4, <2>1, <2>2, TakenOutInv DEF ChannelRemovedTask
<1>5. CASE DeliverQuiesce(c)
  BY <1>5 DEF DeliverQuiesce, TypeOK, NoPreconditionFailure, Registry, Shutdown,
     SuccessMeansCompleted, Told, lifecycleVars, promiseVars, childVars, firingVars
<1>6. CASE CloseRefused(c)
  <2>1. /\ UNCHANGED <<lifecycleVars, promiseVars, accepted, removing, eventVars, server,
                       firingVars, crashed>>
        /\ c \in closing /\ closing' = closing \ {c}
        /\ child' = [child EXCEPT ![c] = "closed"]
    BY <1>6 DEF CloseRefused
  <2> USE DEF lifecycleVars, promiseVars, eventVars, firingVars
  <2>2. TypeOK'
    BY <2>1 DEF TypeOK
  <2>3. Registry'
    BY <2>1 DEF Registry, TypeOK
  <2> QED
    BY <2>1, <2>2, <2>3 DEF NoPreconditionFailure, Shutdown, SuccessMeansCompleted, Told
<1> QED
  BY <1>1, <1>2, <1>3, <1>4, <1>5, <1>6 DEF ChildStep

LEMMA StepIInv == IInv /\ [Next]_vars => IInv'
<1> SUFFICES ASSUME IInv, [Next]_vars PROVE IInv'
  OBVIOUS
<1>1. CASE Next
  BY <1>1, HelperStep, CallerStepInv, FinishShutdownInv, ChildStepInv DEF Next
<1>2. CASE UNCHANGED vars
  BY <1>2 DEF vars, lifecycleVars, promiseVars, childVars, eventVars, firingVars, IInv,
     TypeOK, NoPreconditionFailure, Registry, Shutdown, SuccessMeansCompleted, Told
<1> QED
  BY <1>1, <1>2

-----------------------------------------------------------------------------
(* The theorems.                                                           *)

\* The inductive invariant holds in every reachable state.
THEOREM Inductive == Spec => []IInv
BY InitIInv, StepIInv, PTL DEF Spec

\* Every variable has its type.
THEOREM TypeCorrect == Spec => []TypeOK
<1>1. IInv => TypeOK
  BY DEF IInv
<1> QED
  BY <1>1, Inductive, PTL

\* No precondition of LifecycleStateMachine ever fails.
THEOREM NeverCrashes == Spec => []NoPreconditionFailure
<1>1. IInv => NoPreconditionFailure
  BY DEF IInv
<1> QED
  BY <1>1, Inductive, PTL

\* The registry of ChannelCollector is exact.
THEOREM RegistryExact == Spec => []Registry
<1>1. IInv => Registry
  BY DEF IInv
<1> QED
  BY <1>1, Inductive, PTL

\* A promise succeeds only when every accepted child has closed, but for those that
\* came after the end and whose loop has still to close them: a completed shutdown has
\* an empty registry, and every other open accepted child is registered.
THEOREM SuccessIsDrained == Spec => []SucceededMeansDrained
<1>1. IInv => SucceededMeansDrained
  BY DEF IInv, SucceededMeansDrained, SuccessMeansCompleted, Shutdown, Registry, TypeOK
<1> QED
  BY <1>1, Inductive, PTL

\* No child is told to quiesce twice, and none that is registered is forgotten.
THEOREM ToldOnce == Spec => []EveryChildToldOnce
<1>1. IInv => EveryChildToldOnce
  BY DEF IInv, EveryChildToldOnce, Told
<1> QED
  BY <1>1, Inductive, PTL
=============================================================================
