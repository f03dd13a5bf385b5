---------------------- MODULE ServerQuiescingRefinement ----------------------
(***************************************************************************)
(* ServerQuiescingHelper is a drain barrier: every behaviour of            *)
(* ServerQuiescing is one of Drain when a member is an accepted child that *)
(* is open, refused if its close is queued on its loop, and a waiter is    *)
(* told when its promise succeeds.                                         *)
(***************************************************************************)
EXTENDS ServerQuiescingProofs

BarrierVars == <<phase, live, refused, told>>

\* Steps that leave the lifecycle, the accepted open children and the successful
\* promises alone are stuttering steps of the barrier.
LEMMA Stutter ==
  ASSUME lifecycle' = lifecycle, live' = live, refused' = refused, told' = told
  PROVE  UNCHANGED BarrierVars
BY DEF BarrierVars, phase

\* Failing promises tells nobody.
LEMMA FailingTellsNobody ==
  ASSUME TypeOK, NEW ps, promise' = Resolve(ps, "failed")
  PROVE  told' = told
<1>1. \A p \in Callers : promise'[p] = "succeeded" <=> promise[p] = "succeeded"
  BY DEF Resolve, TypeOK, Outcomes, Promises
<1> QED
  BY <1>1 DEF told

\* Who is inside, or refused, depends on the children only.
LEMMA SameChildrenSameLive ==
  ASSUME UNCHANGED <<accepted, child, closing>>
  PROVE  live' = live /\ refused' = refused
BY DEF live, refused

LEMMA SamePromisesSameTold ==
  ASSUME UNCHANGED promise
  PROVE  told' = told
BY DEF told

\* A success that is announced by a completing shutdown tells some waiters and
\* takes back nothing.
LEMMA SuccessKeepsTold ==
  ASSUME TypeOK, NEW ps, NEW outcome \in Outcomes, promise' = Resolve(ps, outcome)
  PROVE  told \subseteq told' /\ told' \in SUBSET Callers
<1>1. \A p \in Callers : promise[p] = "succeeded" => promise'[p] = "succeeded"
  BY DEF Resolve, TypeOK, Outcomes, Promises
<1> QED
  BY <1>1 DEF told

LEMMA HelperRefines ==
  ASSUME IInv,
         \/ MakeServerChannelHandler \/ Deinit
         \/ ServerCloseAnswered \/ UserClosesServer
  PROVE  UNCHANGED BarrierVars
<1>1. TypeOK
  BY DEF IInv
<1>2. lifecycle' = lifecycle /\ live' = live /\ refused' = refused
  BY SameChildrenSameLive DEF MakeServerChannelHandler, Deinit, ServerCloseAnswered,
     UserClosesServer, lifecycleVars, childVars
<1>3. told' = told
  <2>1. CASE UNCHANGED promise
    BY <2>1, SamePromisesSameTold
  <2>2. CASE \E ps : promise' = Resolve(ps, "failed")
    BY <1>1, <2>2, FailingTellsNobody
  <2>3. UNCHANGED promise \/ \E ps : promise' = Resolve(ps, "failed")
    BY DEF MakeServerChannelHandler, Deinit, ServerCloseAnswered, UserClosesServer,
       promiseVars
  <2> QED
    BY <2>1, <2>2, <2>3
<1> QED
  BY <1>2, <1>3, Stutter

LEMMA CallerRefines ==
  ASSUME IInv, NEW k \in Callers, CallerStep(k)
  PROVE  Barrier!Next \/ UNCHANGED BarrierVars
<1>1. TypeOK
  BY DEF IInv
<1>2. live' = live /\ refused' = refused
  BY SameChildrenSameLive DEF CallerStep, InitiateShutdown, BeginShutdown,
     CascadeShutdown, LateShutdown, childVars
<1>3. CASE InitiateShutdown(k)
  <2>1. lifecycle' = lifecycle /\ told' = told
    BY <1>3, SamePromisesSameTold DEF InitiateShutdown, lifecycleVars
  <2> QED
    BY <1>2, <2>1, Stutter
<1>4. CASE BeginShutdown(k)
  <2>1. told' = told
    BY <1>4, SamePromisesSameTold DEF BeginShutdown
  <2>2. phase = "serving" /\ phase' = "draining"
    BY <1>4 DEF BeginShutdown, phase
  <2>3. Barrier!Begin
    BY <1>2, <2>1, <2>2 DEF Barrier!Begin
  <2> QED
    BY <2>3 DEF Barrier!Next
<1>5. CASE CascadeShutdown(k)
  <2>1. fullyShutdownPromise \in Promises /\ promise[fullyShutdownPromise] # "succeeded"
    BY <1>5 DEF CascadeShutdown, IInv, Shutdown, SuccessMeansCompleted
  <2>2. promise' = promise \/ promise' = Resolve({k} \ NilCallers, "failed")
    BY <1>1, <1>5, <2>1 DEF CascadeShutdown, TypeOK, Outcomes
  <2>3. told' = told
    BY <1>1, <2>2, SamePromisesSameTold, FailingTellsNobody
  <2>4. lifecycle' = lifecycle
    BY <1>5 DEF CascadeShutdown, lifecycleVars
  <2> QED
    BY <1>2, <2>3, <2>4, Stutter
<1>6. CASE LateShutdown(k)
  <2>1. phase = "drained" /\ UNCHANGED phase
    BY <1>6 DEF LateShutdown, phase, lifecycleVars
  <2>2. \A p \in Callers :
          promise'[p] = "succeeded" <=>
            promise[p] = "succeeded" \/ (p = k /\ told' # told)
    BY <1>1, <1>6 DEF LateShutdown, Resolve, TypeOK, Outcomes, Promises, told
  <2>3. told' = told \/ told' = told \cup {k}
    BY <2>2 DEF told
  <2>4. told' = told => UNCHANGED BarrierVars
    BY <1>2, <2>1 DEF BarrierVars
  <2>5. told' = told \cup {k} => Barrier!Tell(k)
    BY <1>2, <2>1 DEF Barrier!Tell
  <2> QED
    BY <2>3, <2>4, <2>5 DEF Barrier!Next
<1> QED
  BY <1>3, <1>4, <1>5, <1>6 DEF CallerStep

LEMMA FinishRefines ==
  ASSUME IInv, FinishShutdown
  PROVE  Barrier!Next \/ UNCHANGED BarrierVars
<1>1. TypeOK
  BY DEF IInv
<1>2. live' = live /\ refused' = refused
  BY SameChildrenSameLive DEF FinishShutdown, childVars
<1>3. PICK closeFails \in BOOLEAN :
        LET outcome == IF closeFails THEN "failed" ELSE "succeeded"
            outcomes == Resolve(ShutdownPromises(fullyShutdownPromise), outcome) IN
        IF captured = {}
          THEN ShutdownCompleted(outcomes)
          ELSE /\ promise' = IF closeFails THEN outcomes ELSE promise
               /\ UNCHANGED <<lifecycleVars, crashed>>
  BY DEF FinishShutdown
<1>4. CASE captured = {}
  <2>1. /\ lifecycle = "shuttingDown" /\ openChannels = {}
    BY <1>4 DEF FinishShutdown, IInv, Shutdown
  <2>2. /\ lifecycle' = "shutdownCompleted"
        /\ \E outcome \in Outcomes :
             promise' = Resolve(ShutdownPromises(fullyShutdownPromise), outcome)
    BY <1>3, <1>4, <2>1 DEF ShutdownCompleted, Outcomes
  <2>3. live = {}
    BY <2>1 DEF IInv, Registry, live
  <2>4. told \subseteq told' /\ told' \in SUBSET Callers
    BY <1>1, <2>2, SuccessKeepsTold
  <2>5. phase = "draining" /\ phase' = "drained"
    BY <2>1, <2>2 DEF phase
  <2>6. Barrier!EndEmpty
    BY <1>2, <2>3, <2>4, <2>5 DEF Barrier!EndEmpty
  <2> QED
    BY <2>6 DEF Barrier!Next
<1>5. CASE captured # {}
  <2>1. /\ lifecycle' = lifecycle
        /\ \/ promise' = promise
           \/ promise' = Resolve(ShutdownPromises(fullyShutdownPromise), "failed")
    BY <1>3, <1>5 DEF lifecycleVars
  <2>2. told' = told
    BY <1>1, <2>1, SamePromisesSameTold, FailingTellsNobody
  <2> QED
    BY <1>2, <2>1, <2>2, Stutter
<1> QED
  BY <1>4, <1>5

\* Removing a registered child leaves the barrier alone, or ends it.
LEMMA RemovalRefines ==
  ASSUME IInv, NEW c \in openChannels, ChannelRemoved0(c)
  PROVE  \/ lifecycle' = lifecycle /\ told' = told
         \/ /\ phase = "draining" /\ phase' = "drained"
            /\ openChannels = {c}
            /\ told \subseteq told' /\ told' \in SUBSET Callers
<1>1. TypeOK /\ lifecycle # "shutdownCompleted"
  BY DEF IInv, Shutdown
<1>2. CASE lifecycle = "shuttingDown" /\ openChannels = {c}
  <2>1. lifecycle' = "shutdownCompleted" /\ promise' = Drained
    BY <1>1, <1>2 DEF ChannelRemoved0, ShutdownCompleted
  <2>2. told \subseteq told' /\ told' \in SUBSET Callers
    BY <1>1, <2>1, SuccessKeepsTold DEF Drained, Outcomes
  <2> QED
    BY <1>2, <2>1, <2>2 DEF phase
<1>3. CASE ~(lifecycle = "shuttingDown" /\ openChannels = {c})
  <2>1. lifecycle' = lifecycle /\ promise' = promise
    BY <1>1, <1>3 DEF ChannelRemoved0
  <2> QED
    BY <2>1, SamePromisesSameTold
<1> QED
  BY <1>2, <1>3

LEMMA ChildRefines ==
  ASSUME IInv, NEW c \in Children, ChildStep(c)
  PROVE  Barrier!Next \/ UNCHANGED BarrierVars
<1>1. TypeOK
  BY DEF IInv
<1>2. CASE Connect(c)
  <2>1. lifecycle' = lifecycle /\ told' = told
    BY <1>2, SamePromisesSameTold DEF Connect, lifecycleVars, promiseVars
  <2>2. live' = live /\ refused' = refused
    BY <1>2, <1>1 DEF Connect, live, refused, IInv, Registry, TypeOK
  <2> QED
    BY <2>1, <2>2, Stutter
<1>3. CASE ChannelRead(c)
  <2>1. lifecycle' = lifecycle /\ told' = told /\ lifecycle # "shutdownCompleted"
    BY <1>3, SamePromisesSameTold DEF ChannelRead, promiseVars
  <2>2. /\ child' = child /\ closing' = closing
        /\ c \notin accepted /\ accepted' = accepted \cup {c}
        /\ c \notin closing
    BY <1>3 DEF ChannelRead, Arriving, IInv, Registry
  <2>5. refused' = refused
    BY <2>2 DEF refused
  <2>3. CASE child[c] = "open"
    <3>1. live' = live \cup {c} /\ c \notin live
      BY <2>2, <2>3 DEF live
    <3>2. phase # "drained" /\ phase' = phase
      BY <1>1, <2>1 DEF phase, TypeOK
    <3>3. Barrier!Join(c)
      BY <2>1, <2>5, <3>1, <3>2 DEF Barrier!Join
    <3> QED
      BY <3>3 DEF Barrier!Next
  <2>4. CASE child[c] # "open"
    <3>1. live' = live
      BY <2>2, <2>4 DEF live
    <3> QED
      BY <2>1, <2>5, <3>1, Stutter
  <2> QED
    BY <2>3, <2>4
<1>4. CASE ChannelReadClosed(c)
  <2>1. lifecycle # "shuttingDown" \/ openChannels # {}
    BY <1>4 DEF ChannelReadClosed, Arriving, IInv, Shutdown
  <2>2. lifecycle' = lifecycle /\ told' = told
    BY <1>4, <2>1, SamePromisesSameTold DEF ChannelReadClosed, lifecycleVars
  <2>3. live' = live /\ refused' = refused
    BY <1>4 DEF ChannelReadClosed, Arriving, live, refused
  <2> QED
    BY <2>2, <2>3, Stutter
<1>5. CASE ChannelReadRejected(c)
  <2>1. lifecycle' = lifecycle /\ told' = told
    BY <1>5, SamePromisesSameTold DEF ChannelReadRejected, lifecycleVars, promiseVars
  <2>2. phase = "drained" /\ phase' = phase /\ c \notin accepted
    BY <1>5, <2>1 DEF ChannelReadRejected, Arriving, phase
  <2>3. c \notin closing
    BY <2>2 DEF IInv, Registry
  <2>4. CASE c \in ServerLoopChildren \/ child[c] # "open"
    <3>1. live' = live /\ refused' = refused
      BY <1>1, <1>5, <2>2, <2>3, <2>4
         DEF ChannelReadRejected, Arriving, live, refused, TypeOK
    <3> QED
      BY <2>1, <3>1, Stutter
  <2>5. CASE c \notin ServerLoopChildren /\ child[c] = "open"
    <3>1. /\ child' = child /\ closing' = closing \cup {c}
          /\ accepted' = accepted \cup {c}
      BY <1>5, <2>5 DEF ChannelReadRejected, Arriving
    <3>2. live' = live
      BY <2>2, <3>1 DEF live
    <3>3. c \notin refused /\ refused' = refused \cup {c}
      BY <2>3, <2>5, <3>1 DEF refused
    <3>4. Barrier!Refuse(c)
      BY <2>1, <2>2, <3>2, <3>3 DEF Barrier!Refuse
    <3> QED
      BY <3>4 DEF Barrier!Next
  <2> QED
    BY <2>4, <2>5
<1>6. CASE CloseChild(c)
  <2>1. /\ child[c] = "open" /\ child' = [child EXCEPT ![c] = "closed"]
        /\ accepted' = accepted /\ closing' = closing
    BY <1>6 DEF CloseChild
  <2>2. live' = live \ {c} /\ refused' = refused \ {c}
    BY <1>1, <2>1 DEF live, refused, TypeOK
  <2>3. CASE lifecycle' = lifecycle /\ told' = told
    <3>1. CASE c \in live \cup refused
      <4>1. Barrier!Leave(c)
        BY <2>2, <2>3, <3>1 DEF Barrier!Leave, phase
      <4> QED
        BY <4>1 DEF Barrier!Next
    <3>2. CASE c \notin live \cup refused
      BY <2>2, <2>3, <3>2, Stutter
    <3> QED
      BY <3>1, <3>2
  <2>4. CASE c \in openChannels /\ ChannelRemoved0(c)
    <3>1. CASE openChannels = {c} /\ phase = "draining" /\ phase' = "drained"
               /\ told \subseteq told' /\ told' \in SUBSET Callers
      <4>1. live \subseteq {c} /\ c \notin refused
        BY <3>1 DEF live, refused, IInv, Registry
      <4>2. Barrier!End
        BY <2>2, <3>1, <4>1 DEF Barrier!End
      <4> QED
        BY <4>2 DEF Barrier!Next
    <3> QED
      BY <2>3, <2>4, <3>1, RemovalRefines
  <2>5. \/ lifecycle' = lifecycle /\ told' = told
        \/ c \in openChannels /\ ChannelRemoved0(c)
    BY <1>6, <2>1, SamePromisesSameTold DEF CloseChild, lifecycleVars, IInv, Registry
  <2> QED
    BY <2>3, <2>4, <2>5
<1>7. CASE ChannelRemovedTask(c)
  <2>1. c \in openChannels /\ child[c] = "closed" /\ ChannelRemoved0(c)
    BY <1>7 DEF ChannelRemovedTask, IInv, Registry
  <2>2. live' = live /\ refused' = refused
    BY <1>7, SameChildrenSameLive DEF ChannelRemovedTask
  <2>3. CASE lifecycle' = lifecycle /\ told' = told
    BY <2>2, <2>3, Stutter
  <2>4. CASE openChannels = {c} /\ phase = "draining" /\ phase' = "drained"
             /\ told \subseteq told' /\ told' \in SUBSET Callers
    <3>1. live = {}
      BY <2>1, <2>4 DEF live, IInv, Registry
    <3>2. Barrier!EndEmpty
      BY <2>2, <2>4, <3>1 DEF Barrier!EndEmpty
    <3> QED
      BY <3>2 DEF Barrier!Next
  <2> QED
    BY <2>1, <2>3, <2>4, RemovalRefines
<1>8. CASE DeliverQuiesce(c)
  <2>1. lifecycle' = lifecycle /\ told' = told /\ live' = live /\ refused' = refused
    BY <1>8, SamePromisesSameTold, SameChildrenSameLive
       DEF DeliverQuiesce, lifecycleVars, promiseVars, childVars
  <2> QED
    BY <2>1, Stutter
<1>9. CASE CloseRefused(c)
  <2>1. lifecycle' = lifecycle /\ told' = told
    BY <1>9, SamePromisesSameTold DEF CloseRefused, lifecycleVars, promiseVars
  <2>2. live' = live /\ refused' = refused \ {c} /\ c \notin live
    BY <1>1, <1>9 DEF CloseRefused, live, refused, TypeOK
  <2>3. CASE c \in refused
    <3>1. Barrier!Leave(c)
      BY <2>1, <2>2, <2>3 DEF Barrier!Leave, phase
    <3> QED
      BY <3>1 DEF Barrier!Next
  <2>4. CASE c \notin refused
    BY <2>1, <2>2, <2>4, Stutter
  <2> QED
    BY <2>3, <2>4
<1> QED
  BY <1>2, <1>3, <1>4, <1>5, <1>6, <1>7, <1>8, <1>9 DEF ChildStep

\* The drain barrier is what the helper implements: initial states map to initial
\* states, and every step to a step of the barrier or a stutter.
THEOREM Refinement == Spec => ImplementsDrain
<1>1. Init => Barrier!Init
  <2> SUFFICES ASSUME Init PROVE phase = "serving" /\ live = {} /\ refused = {} /\ told = {}
    BY DEF Barrier!Init
  <2>1. phase = "serving" /\ live = {} /\ refused = {}
    BY DEF Init, phase, live, refused
  <2>2. told = {}
    BY DEF Init, told, Promises
  <2> QED
    BY <2>1, <2>2
<1>2. IInv /\ [Next]_vars => [Barrier!Next]_(Barrier!vars)
  <2> SUFFICES ASSUME IInv, [Next]_vars
               PROVE  Barrier!Next \/ UNCHANGED BarrierVars
    BY DEF Barrier!vars, BarrierVars
  <2>1. CASE Next
    BY <2>1, HelperRefines, CallerRefines, FinishRefines, ChildRefines DEF Next
  <2>2. CASE UNCHANGED vars
    BY <2>2 DEF vars, BarrierVars, phase, live, refused, told, lifecycleVars, promiseVars,
       childVars
  <2> QED
    BY <2>1, <2>2
<1> QED
  BY <1>1, <1>2, Inductive, PTL DEF Spec, ImplementsDrain, Barrier!Spec
=============================================================================
