------------------------------- MODULE Deflate -------------------------------
(***************************************************************************)
(* A compressor of CNIOExtrasZlib and the program that drives it, through  *)
(* deflateInit2, the calls that may precede the first deflate, deflate     *)
(* with any part of the input and any room for output, deflateParams,      *)
(* deflateCopy, deflateReset and deflateEnd.                               *)
(*                                                                         *)
(* What was sent is decoded by DeflateFormat, which knows the format and   *)
(* nothing of this code.                                                   *)
(***************************************************************************)
EXTENDS DeflateStream, DeflateFormat

CONSTANTS Setups,    \* what a program does with a stream: see SetupType
          Garbage,   \* the bytes malloc may fill its memory with
          MaxCalls   \* bounds the calls before the one that finishes

SetupType ==
  [level : -1 .. 9, windowBits : (-15 .. -9) \cup (9 .. 15) \cup (25 .. 31), memLevel : 1 .. 9,
   strategy : 0 .. Z_FIXED, input : Seq(Byte),
   dict : Seq(Byte),       \* for deflateSetDictionary, none if empty
   head : Seq([text : BOOLEAN, hcrc : BOOLEAN, time : Seq(Byte), os : Byte, extra : Seq(Seq(Byte)),
               name : Seq(Seq(Byte)), comment : Seq(Seq(Byte))]),
   prime : Seq({0, 1}),    \* for deflatePrime
   chunks : SUBSET Nat, rooms : SUBSET Nat, flushes : SUBSET (0 .. Z_BLOCK),
   switches : SUBSET ((-1 .. 9) \X (0 .. Z_FIXED)), tunes : SUBSET (Nat \X Nat \X Nat \X Nat),
   rounds : Nat]           \* bounds the times the stream is used

\* deflate_stored relies on MAX_STORED being no less than a window
ASSUME DeflateStreamAssumption ==
  /\ Setups \subseteq SetupType /\ Garbage \subseteq Byte
  /\ \A s \in Setups : /\ InitArguments(s.level, s.windowBits, s.memLevel, s.strategy)
                        /\ 2^(BitsOf(s.windowBits) - WShift) <= MAX_STORED

VARIABLES
  setup,      \* the program, one of Setups
  strm,          \* the stream, <<>> once it is ended
  fed,        \* the input the stream has taken
  sent,       \* the output so far
  received,   \* what a receiver makes of it
  forgot,     \* where the last full flush ended: bytes sent and input taken
  closing,    \* Z_FINISH was passed
  last,       \* the last deflate: what it returned, the room it left and its flush
  calls, round

vars == <<setup, strm, fed, sent, received, forgot, closing, last, calls, round>>

Input == setup.input
Fed == SubSeq(Input, 1, fed)
None == [ret |-> "none", left |-> 0, flush |-> Z_NO_FLUSH]

\* bits that deflatePrime put before a raw stream belong to someone else
Decoded(bytes) ==
  LET windowOf(bits) == 2^(bits - WShift)
      raw == DecodeRaw(bytes, Len(setup.prime), setup.dict, windowOf(BitsOf(setup.windowBits)))
  IN  CASE setup.windowBits < 0 -> raw
        [] setup.windowBits > 15 -> DecodeGzip(bytes, windowOf)
        [] OTHER -> DecodeZlib(bytes, setup.dict, 15, windowOf)

(***************************************************************************)
(* Actions.                                                                *)
(***************************************************************************)
Headed(stream) == IF setup.head = <<>> THEN stream ELSE deflateSetHeader(stream, setup.head[1])
Primed(stream) == IF setup.prime = <<>> THEN stream ELSE deflatePrime(stream, setup.prime)
WithDictionary(stream) == IF setup.dict = <<>> THEN stream ELSE deflateSetDictionary(stream, setup.dict)
Prepared(stream) == Primed(WithDictionary(Headed(stream)))

Init ==
  /\ setup \in Setups
  /\ \E garbage \in Garbage :
       strm = Prepared(deflateInit2_(setup.level, setup.windowBits, setup.memLevel, setup.strategy, garbage))
  /\ fed = 0 /\ sent = <<>> /\ received = Decoded(<<>>)
  /\ forgot = [sent |-> 0, fed |-> 0] /\ closing = FALSE /\ last = None /\ calls = 0 /\ round = 1

\* what every call that compresses leaves behind
Produced(r, n, flush) ==
  /\ strm' = [r EXCEPT !.next_in = <<>>, !.next_out = <<>>, !.avail_out = 0]
  /\ fed' = fed + n - Len(r.next_in)
  /\ sent' = sent \o r.next_out
  /\ received' = IF r.next_out = <<>> THEN received ELSE Decoded(sent')
  /\ last' = [ret |-> r.ret, left |-> r.avail_out, flush |-> flush]
  /\ UNCHANGED <<setup, round>>

Open == strm # <<>> /\ last.ret # Z_STREAM_END

\* Z_FINISH comes with the rest of the input
Amounts(flush) == IF flush = Z_FINISH THEN {Len(Input) - fed} ELSE setup.chunks

\* the call with Z_FINISH is repeated until it has returned Z_STREAM_END
Deflate(n, room, flush) ==
  /\ Open /\ fed + n <= Len(Input)
  /\ IF flush = Z_FINISH THEN closing' = TRUE /\ UNCHANGED calls
                         ELSE ~closing /\ calls < MaxCalls /\ calls' = calls + 1 /\ UNCHANGED closing
  /\ \E r \in {deflate(strm, SubSeq(Input, fed + 1, fed + n), room, flush)} :
       /\ Produced(r, n, flush)
       /\ forgot' = IF flush = Z_FULL_FLUSH /\ r.ret = Z_OK /\ r.avail_out > 0
                    THEN [sent |-> Len(sent'), fed |-> fed'] ELSE forgot

Params(level, strategy, n, room) ==
  /\ Open /\ ~closing /\ calls < MaxCalls /\ fed + n <= Len(Input)
  /\ \E r \in {deflateParams(strm, level, strategy, SubSeq(Input, fed + 1, fed + n), room)} :
       Produced(r, n, Z_NO_FLUSH)
  /\ calls' = calls + 1
  /\ UNCHANGED <<closing, forgot>>

Tune(good_length, max_lazy, nice_length, max_chain) ==
  /\ Open /\ ~closing /\ calls < MaxCalls
  /\ strm' = deflateTune(strm, good_length, max_lazy, nice_length, max_chain)
  /\ calls' = calls + 1
  /\ UNCHANGED <<setup, fed, sent, received, forgot, closing, last, round>>

\* the program goes on with a copy
Copy(garbage) ==
  /\ Open /\ ~closing /\ calls < MaxCalls
  /\ strm' = deflateCopy(strm, garbage)
  /\ calls' = calls + 1
  /\ UNCHANGED <<setup, fed, sent, received, forgot, closing, last, round>>

\* a stream is used again: its memory holds what it held
Reset ==
  /\ strm # <<>> /\ round < setup.rounds /\ last.ret # "none"
  /\ strm' = Prepared(deflateReset([strm EXCEPT !.gzhead = <<>>]))
  /\ round' = round + 1
  /\ fed' = 0 /\ sent' = <<>> /\ received' = Decoded(<<>>) /\ forgot' = [sent |-> 0, fed |-> 0]
  /\ closing' = FALSE /\ last' = None /\ calls' = 0
  /\ UNCHANGED setup

End ==
  /\ strm # <<>>
  /\ strm' = <<>>
  /\ last' = [last EXCEPT !.ret = IF deflateEnd(strm) = Z_OK /\ @ = Z_STREAM_END THEN @ ELSE "abandoned"]
  /\ UNCHANGED <<setup, fed, sent, received, forgot, closing, calls, round>>

Next ==
  \/ \E room \in setup.rooms, flush \in setup.flushes \cup {Z_FINISH} :
       \E n \in Amounts(flush) : Deflate(n, room, flush)
  \/ \E to \in setup.switches, n \in setup.chunks, room \in setup.rooms : Params(to[1], to[2], n, room)
  \/ \E t \in setup.tunes : Tune(t[1], t[2], t[3], t[4])
  \/ \E garbage \in Garbage : Copy(garbage)
  \/ Reset
  \/ End

Spec == Init /\ [][Next]_vars

(***************************************************************************)
(* Properties.                                                             *)
(***************************************************************************)

\* What is sent is never wrong, however the input and the room are cut up,
\* whatever malloc's memory holds and whatever level, strategy and flushes are
\* used: the receiver has a prefix of what the stream was fed and, when deflate
\* returns Z_STREAM_END, all of it, with nothing behind and, for a raw stream,
\* as many bits of the last byte as deflateUsed tells.
RoundTrip ==
  /\ received.state \in {"more", "end"}
  /\ received.out = SubSeq(Input, 1, Len(received.out)) /\ Len(received.out) <= fed
  /\ last.ret = Z_STREAM_END =>
       /\ received.state = "end" /\ received.out = Input /\ (received.pos + 7) \div 8 = Len(sent)
       /\ strm # <<>> /\ setup.windowBits < 0 => deflateUsed(strm) = ((received.pos - 1) % 8) + 1

\* A flush that returns with room to spare has delivered: the receiver decodes
\* all the stream was fed, and after Z_SYNC_FLUSH and Z_FULL_FLUSH at a byte
\* boundary (deflate's empty block after the last one).  deflatePending tells of
\* nothing then but bits, fewer than a byte.
FlushDelivers ==
  LET flushed == last.ret = Z_OK /\ last.left > 0
  IN  /\ flushed /\ last.flush \in {Z_PARTIAL_FLUSH, Z_SYNC_FLUSH, Z_FULL_FLUSH} =>
           /\ received.out = Fed
           /\ strm # <<>> => deflatePending(strm) \in {0} \X (0 .. 7)
      /\ flushed /\ last.flush \in {Z_SYNC_FLUSH, Z_FULL_FLUSH} => received.pos = 8 * Len(sent)

\* After a full flush nothing refers back: a receiver that lost all that came
\* before decodes what follows (FLUSH_BLOCK and CLEAR_HASH in deflate).
FullFlushForgets ==
  LET rest == DecodeRaw(SubSeq(sent, forgot.sent + 1, Len(sent)), 0, <<>>, 32768)
  IN  forgot.sent > 0 => /\ rest.state \in {"more", "end"}
                         /\ Len(rest.out) = Len(received.out) - forgot.fed
                         /\ rest.out = SubSeq(Input, forgot.fed + 1, Len(received.out))

\* pending_buf never holds more than its size, and no symbol is written over
\* before compress_block reads it: both share the memory (LIT_MEM is not set).
\* Nor does the output need more room than deflateBound promised (its formula is
\* for the block sizes of the code: the input is no more than one block here).
BuffersHold ==
  strm # <<>> =>
    /\ ~strm.torn /\ ~strm.overrun /\ Len(strm.pending) <= pending_buf_size(strm)
    /\ LET fresh == deflateInit2_(setup.level, setup.windowBits, setup.memLevel, setup.strategy, 0)
           oneBlock == /\ setup.flushes = {Z_NO_FLUSH} /\ setup.switches = {}
                       /\ Len(Input) < strm.lit_bufsize - 1
       IN  last.ret = Z_STREAM_END /\ oneBlock => Len(sent) <= deflateBound(Prepared(fresh), Len(Input))

\* The window slides without losing its place: what deflateGetDictionary
\* returns is the last part of the dictionary and the input taken.
DictionaryIsHistory ==
  strm # <<>> => LET got == deflateGetDictionary(strm)
                  history == setup.dict \o Fed
              IN  Len(got) <= Len(history) /\ got = SubSeq(history, Len(history) - Len(got) + 1, Len(history))

\* A program that passes Z_FINISH and goes on calling with room for output gets
\* to the end: a call that does not return Z_STREAM_END has filled its room, be
\* it one byte, and what it was to send is not empty.
FinishGoesOn ==
  [][closing' /\ strm' # <<>> => last'.ret = Z_STREAM_END \/ last'.left = 0]_<<strm, sent, last>>
=============================================================================
