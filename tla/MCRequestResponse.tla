-------------------------- MODULE MCRequestResponse --------------------------
(***************************************************************************)
(* Three requests that are pipelined, two errors, and strays with the ID   *)
(* of a request and with an ID of their own.                               *)
(***************************************************************************)
EXTENDS RequestResponse

CONSTANTS r1, r2, r3, s1, s2, e1, e2, id1, id2, id3, id4

ThreeRequests == {r1, r2, r3}
TwoStrays == {s1, s2}
TwoErrors == {e1, e2}
FourIDs == {id1, id2, id3, id4}
OwnID(r) == CASE r \in {r1, s1} -> id1
              [] r = r2 -> id2
              [] r = r3 -> id3
              [] r = s2 -> id4
OwnIDs == [r \in Responses |-> OwnID(r)]

BothKinds == {"ordered", "withID"}
OnlyOrdered == {"ordered"}
OnlyWithID == {"withID"}
=============================================================================
