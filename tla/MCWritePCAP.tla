----------------------------- MODULE MCWritePCAP -----------------------------
(***************************************************************************)
(* Sequence numbers of two bits: they wrap after three bytes.              *)
(***************************************************************************)
EXTENDS WritePCAP

NoneOrThree == {0, 3}
NoneOrOne == {0, 1}
=============================================================================
