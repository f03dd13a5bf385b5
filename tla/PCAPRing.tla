------------------------------- MODULE PCAPRing -------------------------------
(***************************************************************************)
(* NIOPCAPRingBuffer: the fragments captured last, within a limit on their *)
(* number and a limit on their bytes.  A fragment is what a capture hands  *)
(* on at once, a sequence of records.                                      *)
(***************************************************************************)
EXTENDS Integers, SequencesExt

CONSTANTS
  MaximumFragments,
  MaximumBytes,
  HeaderBytes        \* the bytes of a record without its payload

ASSUME RingAssumption ==
  MaximumFragments \in Nat \ {0} /\ MaximumBytes \in Nat \ {0} /\ HeaderBytes \in Nat

\* The sum of a sequence of numbers.
Total(numbers) == FoldLeft(LAMBDA sum, n : sum + n, 0, numbers)

\* The bytes of a buffer of records.
Bytes(fragment) == Total([i \in DOMAIN fragment |-> HeaderBytes + Len(fragment[i].payload)])

\* What pcapCurrentBytes counts.
BytesOfAll(fragments) == Total([i \in DOMAIN fragments |-> Bytes(fragments[i])])

EmptyRing == [fragments |-> <<>>, bytes |-> 0]

\* The first n fragments are popped.
PopFirst(ring, n) ==
  [fragments |-> SubSeq(ring.fragments, n + 1, Len(ring.fragments)),
   bytes |-> ring.bytes - BytesOfAll(SubSeq(ring.fragments, 1, n))]

\* Mutant: the ring is trimmed to its byte limit before the fragment comes in.
AddFragmentTrimmingFirst(ring, fragment) ==
  LET room == IF Len(ring.fragments) >= MaximumFragments THEN PopFirst(ring, 1) ELSE ring
      trim == Min({n \in 0..Len(room.fragments) : PopFirst(room, n).bytes <= MaximumBytes})
      kept == PopFirst(room, trim)
  IN  [fragments |-> Append(kept.fragments, fragment), bytes |-> kept.bytes + Bytes(fragment)]

\* Room for one more, the fragment, and as few popped as the limit on bytes asks for,
\* which may be all of them.
AddFragment(ring, fragment) ==
  LET room == IF Len(ring.fragments) >= MaximumFragments THEN PopFirst(ring, 1) ELSE ring
      more == [fragments |-> Append(room.fragments, fragment),
               bytes |-> room.bytes + Bytes(fragment)]
  IN  PopFirst(more, Min({n \in 0..Len(more.fragments) :
                            PopFirst(more, n).bytes <= MaximumBytes}))

\* What a ring should hold of all the fragments it was given: as many of the last ones as
\* both limits allow.
Latest(fragments) ==
  LET Last_(n) == SubSeq(fragments, Len(fragments) - n + 1, Len(fragments)) IN
  Last_(Max({n \in 0..Len(fragments) :
               n <= MaximumFragments /\ BytesOfAll(Last_(n)) <= MaximumBytes}))
=============================================================================
