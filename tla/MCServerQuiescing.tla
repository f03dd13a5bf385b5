-------------------------- MODULE MCServerQuiescing --------------------------
(***************************************************************************)
(* The smallest server in which every interleaving of ServerQuiescing      *)
(* happens: a child on the server's loop, children on other loops, and     *)
(* calls of initiateShutdown with and without a promise.                   *)
(***************************************************************************)
EXTENDS ServerQuiescing

CONSTANTS c1, c2, c3, k1, k2

ThreeChildren == {c1, c2, c3}
OneOnServerLoop == {c1}
TwoCallers == {k1, k2}
OneNilCaller == {k2}
=============================================================================
