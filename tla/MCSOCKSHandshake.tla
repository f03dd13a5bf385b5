--------------------------- MODULE MCSOCKSHandshake ---------------------------
(***************************************************************************)
(* A request for a domain of one letter and a response with an empty one:  *)
(* the shortest messages with every field, so that every split is reached. *)
(***************************************************************************)
EXTENDS SOCKSHandshake

Target == <<3, 1, 97, 0, 80>>
Bound == <<3, 0, 0, 0>>
=============================================================================
