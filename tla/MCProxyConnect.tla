---------------------------- MODULE MCProxyConnect ----------------------------
(***************************************************************************)
(* Four writes: before the tunnel, during the replay and after the handler *)
(* has gone, in any combination.                                           *)
(***************************************************************************)
EXTENDS ProxyConnect
=============================================================================
