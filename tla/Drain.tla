-------------------------------- MODULE Drain --------------------------------
(***************************************************************************)
(* What ServerQuiescingHelper promises, without event loops, promises or   *)
(* callbacks: a barrier.  Members join while it is serving or draining,    *)
(* and leave at any time.  Once it drains it may end only when no member   *)
(* is left; after that nobody joins, and only then are waiters told.  Who  *)
(* comes after the end is refused, and is gone when it has noticed.        *)
(***************************************************************************)
CONSTANTS Members, Waiters

VARIABLES
  phase,    \* serving, draining or drained
  live,     \* the members that are inside
  refused,  \* those that came after the end and have not left yet
  told      \* the waiters that were told the barrier has drained

vars == <<phase, live, refused, told>>

Init == phase = "serving" /\ live = {} /\ refused = {} /\ told = {}

Join(m) ==
  /\ phase # "drained"
  /\ m \notin live
  /\ live' = live \cup {m}
  /\ UNCHANGED <<phase, refused, told>>

Refuse(m) ==
  /\ phase = "drained"
  /\ m \notin refused
  /\ refused' = refused \cup {m}
  /\ UNCHANGED <<phase, live, told>>

Leave(m) ==
  /\ m \in live \cup refused
  /\ live' = live \ {m}
  /\ refused' = refused \ {m}
  /\ UNCHANGED <<phase, told>>

Begin ==
  /\ phase = "serving"
  /\ phase' = "draining"
  /\ UNCHANGED <<live, refused, told>>

\* The barrier ends when nobody is left: at once, or with the last member.
End ==
  /\ phase = "draining"
  /\ \E m \in Members : live \subseteq {m}
  /\ phase' = "drained"
  /\ live' = {}
  /\ told' \in SUBSET Waiters
  /\ told \subseteq told'
  /\ UNCHANGED refused

EndEmpty ==
  /\ phase = "draining"
  /\ live = {}
  /\ phase' = "drained"
  /\ told' \in SUBSET Waiters
  /\ told \subseteq told'
  /\ UNCHANGED <<live, refused>>

Tell(w) ==
  /\ phase = "drained"
  /\ told' = told \cup {w}
  /\ UNCHANGED <<phase, live, refused>>

Next ==
  \/ Begin
  \/ End
  \/ EndEmpty
  \/ \E m \in Members : Join(m) \/ Refuse(m) \/ Leave(m)
  \/ \E w \in Waiters : Tell(w)

Spec == Init /\ [][Next]_vars
=============================================================================
