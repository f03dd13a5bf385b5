------------------------------- MODULE Inflate -------------------------------
(***************************************************************************)
(* A decompressor of CNIOExtrasZlib and the program that drives it: the    *)
(* calls that may follow inflateInit2, inflate with any part of the input, *)
(* any room and with or without memory for the window,                     *)
(* inflateSetDictionary when it is asked for, inflateSync, inflateCopy,    *)
(* inflateReset2 for another input, and inflateEnd.                        *)
(*                                                                         *)
(* What the input means is told by DeflateFormat, which knows the format   *)
(* and nothing of this code.                                               *)
(***************************************************************************)
EXTENDS InflateStream, DeflateFormat

CONSTANT Setups  \* a sequence of programs: see SetupType

FieldType == {NULL, << <<>> >>}
SetupType ==
  [windowBits : (-15 .. -8) \cup (0 .. 47), bytes : Seq(Byte),
   dict : Seq(Byte),        \* for inflateSetDictionary, none if empty
   skip : 0 .. 7,           \* the bits of the first byte that belong to someone else
   head : Seq([text : BOOLEAN, time : Seq(Byte), xflags : Byte, os : Byte, hcrc : BOOLEAN, done : {0},
               extra_len : {0}, extra : FieldType, extra_max : Nat, name : FieldType, name_max : Nat,
               comment : FieldType, comm_max : Nat]),
   unchecked : Nat,         \* if not 0, inflateValidate(FALSE), and the length of the header
   chunks : SUBSET Nat, rooms : SUBSET Nat, flushes : SUBSET {0, Z_FINISH, Z_BLOCK, Z_TREES},
   memory : SUBSET BOOLEAN, \* whether malloc finds some
   syncs : BOOLEAN, copies : BOOLEAN,
   then : SUBSET Nat]       \* the programs that may use the stream after this one

ASSUME InflateSetups == /\ Setups \in Seq(SetupType)
                        /\ \A p \in DOMAIN Setups : Setups[p].then \subseteq DOMAIN Setups

VARIABLES
  program,  \* the program that uses the stream
  strm,     \* the stream, <<>> once it is ended
  consumed,    \* how much of the input the stream has read
  written,      \* the output since the origin
  origin,   \* where the data begin: see Start
  search,   \* where inflateSync searches from, -1 if it does not
  answer      \* the last call: what it returned, and whether it stopped for want of input

vars == <<program, strm, consumed, written, origin, search, answer>>

setup == Setups[program]
Size == Len(setup.bytes)

(***************************************************************************)
(* The meaning of the first n bytes.  With a trailer of its own the data   *)
(* begin with a header and are checked; behind a marker, or unchecked,     *)
(* they are raw and that many bytes follow them.                           *)
(***************************************************************************)
Trailer(windowBits) == IF windowBits < 0 THEN 0 ELSE IF windowBits > 15 THEN 8 ELSE 4
Start(p) == IF p.unchecked # 0 THEN [at |-> p.unchecked, raw |-> TRUE, trailer |-> Trailer(p.windowBits)]
            ELSE [at |-> 0, raw |-> FALSE, trailer |-> 0]

\* raw data that begin behind something, of n bytes
BehindStart(from, n, body) ==
  LET behind == (body.pos + 7) \div 8 + from.trailer
  IN  IF n < from.at \/ (body.state = "end" /\ n < behind) THEN [body EXCEPT !.state = "more"]
      ELSE [body EXCEPT !.pos = IF @ > 0 /\ body.state = "end" THEN 8 * behind ELSE @]

MeaningFrom(p, from, n, windowOf(_)) ==
  LET bytes == SubSeq(p.bytes, 1, n)
      maxBits == IF p.windowBits % 16 = 0 THEN 15 ELSE p.windowBits % 16
  IN  CASE from.raw -> BehindStart(from, n, DecodeRaw(bytes, 8 * from.at, <<>>, windowOf(maxBits)))
        [] ~from.raw /\ p.windowBits < 0 -> DecodeRaw(bytes, p.skip, p.dict, windowOf(-p.windowBits))
        [] OTHER ->
             IF p.windowBits \in 16 .. 31 \/ (p.windowBits >= 32 /\ n > 1 /\ bytes[1] = 31 /\ bytes[2] = 139)
             THEN DecodeGzip(bytes, windowOf) ELSE DecodeZlib(bytes, p.dict, maxBits, windowOf)

\* with the window that the stream has, and with one that has no end
Meanings(p, from, n) ==
  LET own == 2^((IF p.windowBits < 0 THEN -p.windowBits
                 ELSE IF p.windowBits % 16 = 0 THEN 15 ELSE p.windowBits % 16) - WShift)
  IN  [strict |-> MeaningFrom(p, from, n, LAMBDA bits : Least(own, 2^(bits - WShift))),
       lax |-> MeaningFrom(p, from, n, LAMBDA bits : 2^15)]

\* of every program's input, from its start
Known ==
  Forced([p \in DOMAIN Setups |->
    Forced([m \in 1 .. Len(Setups[p].bytes) + 1 |-> Meanings(Setups[p], Start(Setups[p]), m - 1)])])
Meaning == IF origin = Start(setup) THEN Known[program][consumed + 1] ELSE Meanings(setup, origin, consumed)

(***************************************************************************)
(* Actions.                                                                *)
(***************************************************************************)
Prepared(stream, p) ==
  LET headed == IF p.head = <<>> THEN stream ELSE inflateGetHeader(stream, p.head[1])
      checked == IF p.unchecked # 0 THEN inflateValidate(headed, FALSE) ELSE headed
      raw == p.windowBits < 0
      set == IF raw /\ p.dict # <<>> THEN inflateSetDictionary(checked, p.dict, TRUE) ELSE checked
  IN  IF p.skip > 0 THEN inflatePrime(set, 8 - p.skip, SubSeq(BitsOf[p.bytes[1]], p.skip + 1, 8)) ELSE set

Skipped(p) == IF p.skip > 0 THEN 1 ELSE 0

Begin(stream, p) ==
  /\ program' = p
  /\ strm' = Prepared(stream, Setups[p])
  /\ consumed' = Skipped(Setups[p]) /\ written' = <<>> /\ origin' = Start(Setups[p])
  /\ search' = -1 /\ answer' = [ret |-> "none", dry |-> FALSE]

Init ==
  /\ program \in DOMAIN Setups
  /\ strm = Prepared(inflateInit2_(setup.windowBits), setup)
  /\ consumed = Skipped(setup) /\ written = <<>> /\ origin = Start(setup)
  /\ search = -1 /\ answer = [ret |-> "none", dry |-> FALSE]

Left(r) == [r EXCEPT !.next_in = <<>>, !.next_out = <<>>, !.avail_out = 0]
Given(n) == SubSeq(setup.bytes, consumed + 1, Least(consumed + n, Size))

Inflate(n, room, flush, memory) ==
  /\ strm # <<>>
  /\ \E r \in {inflate(strm, Given(n), room, flush, memory)} :
       /\ strm' = Left(r)
       /\ consumed' = consumed + Len(Given(n)) - Len(r.next_in)
       /\ written' = written \o r.next_out
       /\ answer' = [ret |-> r.ret, dry |-> r.next_in = <<>> /\ r.avail_out > 0 /\ flush \notin {Z_BLOCK, Z_TREES}]
  /\ search' = IF strm.mode = "SYNC" THEN search ELSE -1
  /\ UNCHANGED <<program, origin>>

SetDictionary(memory) ==
  /\ strm # <<>> /\ answer.ret = Z_NEED_DICT
  /\ LET r == inflateSetDictionary(strm, setup.dict, memory)
     IN  strm' = r /\ answer' = [ret |-> r.ret, dry |-> FALSE]
  /\ UNCHANGED <<program, consumed, written, origin, search>>

\* the bytes of hold that inflate did not use are searched again
Sync(n) ==
  /\ strm # <<>> /\ setup.syncs
  /\ LET r == inflateSync(strm, Given(n))
         from == IF strm.mode = "SYNC" THEN search ELSE consumed - Len(strm.hold) \div 8
     IN  /\ strm' = Left(r)
         /\ consumed' = consumed + Len(Given(n)) - Len(r.next_in)
         /\ search' = IF r.ret = Z_BUF_ERROR /\ strm.mode # "SYNC" THEN -1 ELSE from
         /\ IF r.ret = Z_OK
            THEN /\ origin' = [at |-> consumed', raw |-> TRUE,
                                trailer |-> IF r.wrap = {} THEN 0 ELSE IF r.flags > 0 THEN 8 ELSE 4]
                 /\ written' = <<>>
            ELSE UNCHANGED <<origin, written>>
         /\ answer' = [ret |-> r.ret, dry |-> FALSE]
  /\ UNCHANGED program

\* the program goes on with a copy
Copy ==
  /\ strm # <<>> /\ setup.copies
  /\ strm' = inflateCopy(strm)
  /\ UNCHANGED <<program, consumed, written, origin, search, answer>>

\* the stream, and the memory of its window, serve another input
Reset(p) ==
  /\ strm # <<>> /\ answer.ret # "none" /\ p \in setup.then
  /\ Begin(inflateReset2(strm, Setups[p].windowBits), p)

End ==
  /\ strm # <<>>
  /\ strm' = <<>>
  /\ UNCHANGED <<program, consumed, written, origin, search, answer>>

Next ==
  \/ \E n \in setup.chunks, room \in setup.rooms, flush \in setup.flushes, memory \in setup.memory :
       Inflate(n, room, flush, memory)
  \/ \E memory \in setup.memory : SetDictionary(memory)
  \/ \E n \in setup.chunks : Sync(n)
  \/ Copy
  \/ \E p \in DOMAIN Setups : Reset(p)
  \/ End

Spec == Init /\ [][Next]_vars

(***************************************************************************)
(* Properties.                                                             *)
(***************************************************************************)

Agrees(m) ==
  /\ Len(written) <= Len(m.lax.out) /\ written = SubSeq(m.lax.out, 1, Len(written))
  /\ answer.ret = Z_STREAM_END => /\ m.lax.state = "end" /\ written = m.lax.out
                                  /\ (m.lax.pos + 7) \div 8 = consumed
  /\ answer.ret = Z_DATA_ERROR /\ search = -1 => m.strict.state \in {"bad", "dict"}
  /\ answer.ret = Z_NEED_DICT => consumed = 6 /\ written = <<>> /\ m.lax.state \in {"more", "dict"}
  /\ answer.dry /\ answer.ret \in {Z_OK, Z_BUF_ERROR} => m.lax.state = "more" /\ written = m.lax.out

\* However the input and the room are cut up, inflate says of the input what
\* the format says: the output never goes beyond what the bytes read mean, a
\* stream ends where its trailer does and with all its data, only wrong data
\* are refused (a distance beyond the window is, unless what it refers to is in
\* the output of the same call), and a call that stops for want of input has
\* held nothing back.
AgreesWithFormat == Agrees(Meaning)

\* While blocks are decoded the circular window holds the last part of the
\* dictionary and the output, in order, and all of it that there is room for.
\* Later (CHECK sets out to left, so that inf_leave passes updatewindow nothing)
\* it may lack the output of the last call, but is never anything else.
WindowIsHistory ==
  strm # <<>> =>
    LET kept == inflateGetDictionary(strm)
        history == (IF origin.raw THEN <<>> ELSE setup.dict) \o written
        upTo(n) == Len(kept) <= n /\ kept = SubSeq(history, n - Len(kept) + 1, n)
    IN  IF strm.mode \in BlockModes
        THEN upTo(Len(history)) /\ Len(kept) = Least(WindowSize(strm.wbits), Len(history))
        ELSE \E n \in 0 .. Len(history) : upTo(n)

\* inflate_fast, which asks for nothing while it decodes a length and its
\* distance, reads no byte that was not given and writes none there is no room
\* for, and gives back the bytes it has not used; and the tables of a block stay
\* within the entries there are for them, as inflateCodesUsed tells.
NeverAstray ==
  strm # <<>> => /\ ~strm.astray /\ Len(strm.hold) <= 32
                 /\ inflateCodesUsed(strm) <= ENOUGH_LENS + ENOUGH_DISTS

\* inflateSync finds the first marker that begins behind the bytes inflate has
\* used, wherever the calls and the bit buffer cut it, and never reads past it.
SyncFindsMarker ==
  LET marks == {i \in search .. consumed - 4 : SubSeq(setup.bytes, i + 1, i + 4) = <<0, 0, 255, 255>>}
  IN  search >= 0 => marks = IF answer.ret = Z_OK THEN {consumed - 4} ELSE {}

\* The check value grows with the pieces of the output that the calls bring.
\* crc32 may take each of them in braids, on a machine of either byte order and
\* wherever the buffer lies, or in the batches of the ARM instructions; the whole
\* output gives the same value in each of these ways, and so do the values of
\* any two parts of it that are combined (crc32_combine, adler32_combine).
ChecksJoin ==
  strm # <<>> /\ "check" \in strm.wrap /\ strm.mode \in BlockModes \cup TrailerModes =>
    LET upTo(n) == SubSeq(written, 1, n)
        behind(n) == SubSeq(written, n + 1, Len(written))
        left(n) == Len(written) - n
    IN  IF strm.flags > 0
        THEN /\ \A align \in {0, 1, 3} :
                  strm.check \in {crc32_z(Crc0, written, align, "little")}
                             \cap {crc32_z(Crc0, written, align, "big")} \cap {crc32_z_arm(Crc0, written, align)}
             /\ \A n \in 0 .. Len(written) :
                  strm.check = crc32_combine(crc32(Crc0, upTo(n)), crc32(Crc0, behind(n)), left(n))
        ELSE \A n \in 0 .. Len(written) :
               strm.check = adler32_combine(adler32(Adler0, upTo(n)), adler32(Adler0, behind(n)), left(n))

\* What inflateGetHeader gives is the header: each field as far as the caller
\* has room for it, however the header is cut, and never more.
HeaderTold ==
  strm # <<>> /\ strm.head # NULL =>
    LET h == strm.head[1]
        asked == setup.head[1]
        b == setup.bytes
        has(flag) == (b[4] \div flag) % 2 = 1
        name == IF has(4) THEN 12 + b[11] + 256 * b[12] ELSE 10
        comment == IF has(8) THEN BehindZero(b, name) ELSE name
        data == IF has(16) THEN BehindZero(b, comment) ELSE comment
        fits(field, max) == field # NULL => Len(field[1]) <= max
        told(field, given, there, from, to, max) ==
          field = IF there /\ given # NULL THEN <<SubSeq(b, from + 1, Least(to, from + max))>> ELSE NULL
    IN  /\ fits(h.extra, h.extra_max) /\ fits(h.name, h.name_max) /\ fits(h.comment, h.comm_max)
        /\ h.done = -1 => SubSeq(b, 1, 2) # <<31, 139>>
        /\ h.done = 1 =>
             /\ h.text = (b[4] % 2 = 1) /\ h.hcrc = has(2)
             /\ h.time = SubSeq(b, 5, 8) /\ h.xflags = b[9] /\ h.os = b[10]
             /\ told(h.extra, asked.extra, has(4), 12, name, h.extra_max)
             /\ told(h.name, asked.name, has(8), name, comment, h.name_max)
             /\ told(h.comment, asked.comment, has(16), comment, data, h.comm_max)

\* A program that comes back to a place in a stream can rely on what it was
\* told of it.  inflateMark: the data before the code that is being processed
\* mean what was put out before the bytes already copied for it.  data_type:
\* where it says that a block has ended, decoding what follows from there with
\* the output as dictionary gives the rest.  inflateSyncPoint: the next bytes may
\* be a marker, which adds nothing to the output.
PlaceIsTold ==
  strm # <<>> /\ setup.windowBits < 0 /\ ~origin.raw /\ strm.mode \in BlockModes =>
    LET at == 8 * consumed - Len(strm.hold)
        mark == inflateMark(strm)
        begun == at - mark[1]
        before == DecodeBlocks(SubSeq(InBits(SubSeq(setup.bytes, 1, consumed)), 1, begun), setup.skip, setup.dict, 2^15)
        from == 8 * consumed - (strm.data_type % 64)
        all == InBits(setup.bytes)
    IN  /\ mark[1] >= 0 => /\ before.state = "more" /\ before.pos = begun
                           /\ before.out = setup.dict \o SubSeq(written, 1, Len(written) - mark[2])
        /\ strm.data_type \in 128 .. 191 =>
             DecodeBlocks(all, from, setup.dict \o written, 2^15) = DecodeBlocks(all, setup.skip, setup.dict, 2^15)
        /\ inflateSyncPoint(strm) =>
             LET marked == DecodeRaw(SubSeq(setup.bytes, 1, consumed) \o <<0, 0, 255, 255>>, setup.skip, setup.dict, 2^15)
             IN  marked.state # "bad" /\ marked.out = written /\ marked.pos = 8 * (consumed + 4)
=============================================================================
