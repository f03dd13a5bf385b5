-------------------------- MODULE MCResumableUpload --------------------------
(***************************************************************************)
(* Two connections that resume each other's uploads, on one event loop or  *)
(* on two, with a file of at most two bytes.                               *)
(***************************************************************************)
EXTENDS ResumableUpload

CONSTANTS h1, h2, u1, loopA, loopB

TwoHandlers == {h1, h2}
OneUpload == {u1}
OneLoop == {loopA}
TwoLoops == {loopA, loopB}
SameLoop == [h \in TwoHandlers |-> loopA]
CrossLoop == [h \in TwoHandlers |-> IF h = h1 THEN loopA ELSE loopB]
TwoRequests == [h \in TwoHandlers |-> 2]
OneRequest == [h \in TwoHandlers |-> 1]
=============================================================================
