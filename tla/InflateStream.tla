---------------------------- MODULE InflateStream ----------------------------
(***************************************************************************)
(* The decompressor of CNIOExtrasZlib, inflate.c and inffast.c.            *)
(*                                                                         *)
(* A stream s is the cnioextras_z_stream and its inflate_state in one      *)
(* record.  hold is the sequence of the bits pulled but not used, back the *)
(* bits inflateMark would go back, wrap the set of what wrap's bits stand  *)
(* for.  An Adler-32 is the pair of its sums, a CRC its bytes.  lens holds *)
(* the code lengths read so far (state->have of them), msg is left out,    *)
(* and so is dmax, which is used in a strict build only.                   *)
(* during says whether the loop of inflate goes on, begun is where the     *)
(* output begins that the check value and the window do not know of, and   *)
(* astray that inflate_fast read or wrote where it may not.                *)
(***************************************************************************)
EXTENDS InflateTables, Checksums

CONSTANT WShift  \* a window of n bits holds 2^(n - WShift) bytes, 0 in the code

ASSUME InflateAssumption == WShift \in 0 .. 8

Z_NO_FLUSH == 0
Z_FINISH == 4
Z_BLOCK == 5
Z_TREES == 6
Z_OK == "OK"
Z_STREAM_END == "STREAM_END"
Z_NEED_DICT == "NEED_DICT"
Z_STREAM_ERROR == "STREAM_ERROR"
Z_DATA_ERROR == "DATA_ERROR"
Z_MEM_ERROR == "MEM_ERROR"
Z_BUF_ERROR == "BUF_ERROR"

NULL == <<>>
Unwritten == -1  \* what memory holds that was never written
ADLER_INIT == <<1, 0>>
CRC_INIT == Zeros(4)

\* the modes of inflate, in their order
HeaderModes == {"HEAD", "FLAGS", "TIME", "OS", "EXLEN", "EXTRA", "NAME", "COMMENT", "HCRC", "DICTID", "DICT"}
BlockModes == {"TYPE", "TYPEDO", "STORED", "COPY_", "COPY", "TABLE", "LENLENS", "CODELENS",
               "LEN_", "LEN", "LENEXT", "DIST", "DISTEXT", "MATCH", "LIT"}
TrailerModes == {"CHECK", "LENGTH", "DONE"}

WindowSize(wbits) == IF wbits = 0 THEN 1 ELSE 2^(wbits - WShift)
Over(memory, at, bytes) == SubSeq(memory, 1, at) \o bytes \o SubSeq(memory, at + Len(bytes) + 1, Len(memory))

(***************************************************************************)
(* Creating and resetting a stream.                                        *)
(***************************************************************************)
inflateResetKeep(s) ==
  [s EXCEPT !.total_in = 0, !.total_out = 0, !.total = 0, !.data_type = 0,
            !.adler = IF "zlib" \in s.wrap THEN ADLER_INIT ELSE IF s.wrap # {} THEN CRC_INIT ELSE @,
            !.mode = "HEAD", !.last = 0, !.havedict = FALSE, !.flags = -1, !.head = NULL, !.hold = <<>>,
            !.next = 0, !.back = -1, !.ret = Z_OK]

inflateReset(s) == inflateResetKeep([s EXCEPT !.wsize = 0, !.whave = 0, !.wnext = 0])

inflateReset2(s, windowBits) ==
  LET wbits == IF windowBits < 0 THEN -windowBits ELSE windowBits % 16
      wrap == CASE windowBits < 0 -> {}
                [] windowBits \in 0 .. 15 -> {"zlib", "check"}
                [] windowBits \in 16 .. 31 -> {"gzip", "check"}
                [] OTHER -> {"zlib", "gzip", "check"}
      freed == IF s.wbits # wbits THEN [s EXCEPT !.window = NULL] ELSE s
  IN  IF windowBits < -15 \/ windowBits > 47 \/ (wbits # 0 /\ wbits < 8)
      THEN [s EXCEPT !.ret = Z_STREAM_ERROR]
      ELSE inflateReset([freed EXCEPT !.wrap = wrap, !.wbits = wbits])

inflate_state ==  \* before it is reset
  [mode |-> "HEAD", last |-> 0, wrap |-> {}, havedict |-> FALSE, flags |-> 0, check |-> CRC_INIT,
   total |-> 0, head |-> NULL, wbits |-> 0, wsize |-> 0, whave |-> 0, wnext |-> 0, window |-> NULL,
   hold |-> <<>>, length |-> 0, offset |-> 0, extra |-> 0, lencode |-> <<>>, distcode |-> <<>>,
   lenbits |-> 0, distbits |-> 0, ncode |-> 0, nlen |-> 0, ndist |-> 0, next |-> 0, lens |-> <<>>,
   back |-> 0, was |-> 0, synced |-> 0,
   next_in |-> <<>>, next_out |-> <<>>, avail_out |-> 0, total_in |-> 0, total_out |-> 0, adler |-> CRC_INIT,
   data_type |-> 0, ret |-> Z_OK, during |-> "no", begun |-> 0, astray |-> FALSE]

inflateInit2_(windowBits) == inflateReset2(inflate_state, windowBits)

(***************************************************************************)
(* The circular window.                                                    *)
(***************************************************************************)
WithWindow(s) ==
  LET size == WindowSize(s.wbits)
      there == IF s.window # NULL THEN s ELSE [s EXCEPT !.window = Forced([i \in 1 .. size |-> Unwritten])]
  IN  IF s.wsize # 0 THEN there ELSE [there EXCEPT !.wsize = size, !.wnext = 0, !.whave = 0]

IntoWindow(s, bytes) ==
  LET copy == Len(bytes)
      dist == Least(s.wsize - s.wnext, copy)
      first == Over(s.window, s.wnext, SubSeq(bytes, 1, dist))
  IN  IF copy >= s.wsize
      THEN [s EXCEPT !.window = SubSeq(bytes, copy - s.wsize + 1, copy), !.wnext = 0, !.whave = s.wsize]
      ELSE IF dist < copy
      THEN [s EXCEPT !.window = Over(first, 0, SubSeq(bytes, dist + 1, copy)), !.wnext = copy - dist,
                     !.whave = s.wsize]
      ELSE [s EXCEPT !.window = first, !.wnext = (@ + dist) % s.wsize,
                     !.whave = IF @ < s.wsize THEN @ + dist ELSE @]

updatewindow(s, bytes, memory) ==  \* memory: whether malloc has some
  IF s.window = NULL /\ ~memory THEN [s EXCEPT !.mode = "MEM"] ELSE IntoWindow(WithWindow(s), bytes)

\* the bytes dist - 1 .. 0 back from the end of the window, the last n of it
FromWindow(s, n) ==
  IF n <= s.wnext THEN SubSeq(s.window, s.wnext - n + 1, s.wnext)
  ELSE SubSeq(s.window, s.wsize - (n - s.wnext) + 1, s.wsize) \o SubSeq(s.window, 1, s.wnext)

ShowCheck(s) == [s EXCEPT !.adler = s.check]
UPDATE_CHECK(s, bytes) ==
  LET summed == [s EXCEPT !.check = IF s.flags # 0 THEN crc32(@, bytes) ELSE adler32(@, bytes)]
  IN  IF "check" \notin s.wrap \/ bytes = <<>> THEN s ELSE ShowCheck(summed)

(***************************************************************************)
(* The bit accumulator.  A handler that needs more bits than there are     *)
(* leaves inflate with those it has pulled.                                *)
(***************************************************************************)
BitsOf[b \in Byte] == Forced([i \in 1 .. 8 |-> (b \div 2^(i - 1)) % 2])
Number(bits, n) ==  \* the first n bits, zero where there are none
  LET m == Least(n, Len(bits))
      upTo[i \in 0 .. m] == IF i = 0 THEN 0 ELSE LET fewer == upTo[i - 1] IN fewer + bits[i] * 2^(i - 1)
  IN  upTo[m]
BITS(s, n) == Number(s.hold, n)
HoldBytes(s) == Forced([i \in 1 .. Len(s.hold) \div 8 |-> Number(SubSeq(s.hold, 8 * i - 7, 8 * i), 8)])

DROPBITS(s, n) == [s EXCEPT !.hold = SubSeq(@, n + 1, Len(@))]
INITBITS(s) == [s EXCEPT !.hold = <<>>]
BYTEBITS(s) == DROPBITS(s, Len(s.hold) % 8)
PULLBYTE(s) == [s EXCEPT !.hold = @ \o BitsOf[Head(s.next_in)], !.next_in = Tail(@)]

Leave(s) == [s EXCEPT !.during = "leave"]
Bad(s) == [s EXCEPT !.mode = "BAD"]

RECURSIVE NEEDBITS(_, _)
NEEDBITS(s, n) ==
  IF Len(s.hold) >= n THEN s ELSE IF s.next_in = <<>> THEN Leave(s) ELSE NEEDBITS(PULLBYTE(s), n)

UnlessLeft(s, step(_)) == IF s.during = "leave" THEN s ELSE step(s)
WithBits(s, n, step(_)) == UnlessLeft(NEEDBITS(s, n), step)

Put(s, bytes) == [s EXCEPT !.next_out = @ \o bytes, !.avail_out = @ - Len(bytes)]

(***************************************************************************)
(* The modes of inflate: headers.                                          *)
(***************************************************************************)
Has(s, flag) == (s.flags \div flag) % 2 = 1  \* 512 header crc, 1024 extra, 2048 name, 4096 comment
InHead(s, change(_)) == IF s.head = NULL THEN s ELSE [s EXCEPT !.head = <<change(@[1])>>]
HeadCrc(s, bytes) == IF Has(s, 512) /\ "check" \in s.wrap THEN [s EXCEPT !.check = crc32(@, bytes)] ELSE s

ZlibHeader(s) ==
  LET bytes == HoldBytes(s)
      len == bytes[1] \div 16 + 8
      sized == [DROPBITS(s, 4) EXCEPT !.wbits = IF @ = 0 THEN len ELSE @]
  IN  IF "zlib" \notin s.wrap \/ (256 * bytes[1] + bytes[2]) % 31 # 0 \/ bytes[1] % 16 # 8 THEN Bad(s)
      ELSE IF len > 15 \/ len > sized.wbits THEN Bad(sized)
      ELSE INITBITS([sized EXCEPT !.flags = 0, !.check = ADLER_INIT, !.adler = ADLER_INIT,
                                  !.mode = IF (bytes[2] \div 32) % 2 = 1 THEN "DICTID" ELSE "TYPE"])

HEAD(s) ==
  IF s.wrap = {} THEN [s EXCEPT !.mode = "TYPEDO"]
  ELSE WithBits(s, 16, LAMBDA r :
         IF "gzip" \in r.wrap /\ HoldBytes(r) = <<31, 139>>
         THEN INITBITS([r EXCEPT !.wbits = IF @ = 0 THEN 15 ELSE @, !.check = crc32(CRC_INIT, <<31, 139>>),
                                 !.mode = "FLAGS"])
         ELSE ZlibHeader(InHead(r, LAMBDA h : [h EXCEPT !.done = -1])))

FLAGS(s) ==
  WithBits(s, 16, LAMBDA r :
    LET bytes == HoldBytes(r)
        set == [r EXCEPT !.flags = bytes[1] + 256 * bytes[2]]
        known == InHead(set, LAMBDA h : [h EXCEPT !.text = bytes[2] % 2 = 1])
    IN  IF bytes[1] # 8 \/ bytes[2] >= 32 THEN Bad(set)
        ELSE INITBITS([HeadCrc(known, bytes) EXCEPT !.mode = "TIME"]))

TIME(s) ==
  WithBits(s, 32, LAMBDA r :
    LET known == InHead(r, LAMBDA h : [h EXCEPT !.time = HoldBytes(r)])
    IN  INITBITS([HeadCrc(known, HoldBytes(r)) EXCEPT !.mode = "OS"]))

OS(s) ==
  WithBits(s, 16, LAMBDA r :
    LET known == InHead(r, LAMBDA h : [h EXCEPT !.xflags = HoldBytes(r)[1], !.os = HoldBytes(r)[2]])
    IN  INITBITS([HeadCrc(known, HoldBytes(r)) EXCEPT !.mode = "EXLEN"]))

EXLEN(s) ==
  IF ~Has(s, 1024) THEN [InHead(s, LAMBDA h : [h EXCEPT !.extra = NULL]) EXCEPT !.mode = "EXTRA"]
  ELSE WithBits(s, 16, LAMBDA r :
         LET length == BITS(r, 16)
             known == InHead([r EXCEPT !.length = length], LAMBDA h : [h EXCEPT !.extra_len = length])
         IN  INITBITS([HeadCrc(known, HoldBytes(r)) EXCEPT !.mode = "EXTRA"]))

\* Mutant: room for each part instead of for all
KeptOfEachPart(field, max, bytes) ==
  IF field = NULL THEN NULL ELSE <<field[1] \o SubSeq(bytes, 1, Least(Len(bytes), max))>>

\* what the caller has of a field, with room for max bytes of it
Kept(field, max, bytes) ==
  IF field = NULL THEN NULL ELSE <<field[1] \o SubSeq(bytes, 1, Least(Len(bytes), max - Len(field[1])))>>

EXTRA(s) ==
  LET bytes == IF Has(s, 1024) THEN SubSeq(s.next_in, 1, Least(s.length, Len(s.next_in))) ELSE <<>>
      copied == InHead(s, LAMBDA h : [h EXCEPT !.extra = Kept(@, h.extra_max, bytes)])
      r == [HeadCrc(copied, bytes) EXCEPT !.next_in = SubSeq(@, Len(bytes) + 1, Len(@)), !.length = @ - Len(bytes)]
  IN  IF Has(s, 1024) /\ r.length # 0 THEN Leave(r) ELSE [r EXCEPT !.length = 0, !.mode = "NAME"]

UpToZero(bytes) ==
  LET zeros == {i \in 1 .. Len(bytes) : bytes[i] = 0}
  IN  IF zeros = {} THEN bytes ELSE SubSeq(bytes, 1, CHOOSE i \in zeros : \A j \in zeros : i <= j)

ReadString(s, bytes, mode) ==
  LET r == [HeadCrc(s, bytes) EXCEPT !.next_in = SubSeq(@, Len(bytes) + 1, Len(@))]
  IN  IF bytes = <<>> \/ Last(bytes) # 0 THEN Leave(r) ELSE [r EXCEPT !.length = 0, !.mode = mode]

NAME(s) ==
  LET bytes == UpToZero(s.next_in)
  IN  IF Has(s, 2048)
      THEN ReadString(InHead(s, LAMBDA h : [h EXCEPT !.name = Kept(@, h.name_max, bytes)]), bytes, "COMMENT")
      ELSE [InHead(s, LAMBDA h : [h EXCEPT !.name = NULL]) EXCEPT !.length = 0, !.mode = "COMMENT"]

COMMENT(s) ==
  LET bytes == UpToZero(s.next_in)
  IN  IF Has(s, 4096)
      THEN ReadString(InHead(s, LAMBDA h : [h EXCEPT !.comment = Kept(@, h.comm_max, bytes)]), bytes, "HCRC")
      ELSE [InHead(s, LAMBDA h : [h EXCEPT !.comment = NULL]) EXCEPT !.mode = "HCRC"]

HeaderDone(s) ==
  [InHead(s, LAMBDA h : [h EXCEPT !.hcrc = Has(s, 512), !.done = 1])
   EXCEPT !.check = CRC_INIT, !.adler = CRC_INIT, !.mode = "TYPE"]

HCRC(s) ==
  IF ~Has(s, 512) THEN HeaderDone(s)
  ELSE WithBits(s, 16, LAMBDA r :
         IF "check" \in r.wrap /\ HoldBytes(r) # SubSeq(r.check, 1, 2) THEN Bad(r) ELSE HeaderDone(INITBITS(r)))

AdlerIn(bytes) == <<256 * bytes[3] + bytes[4], 256 * bytes[1] + bytes[2]>>  \* ZSWAP32

DICTID(s) ==
  WithBits(s, 32, LAMBDA r :
    INITBITS([r EXCEPT !.check = AdlerIn(HoldBytes(r)), !.adler = AdlerIn(HoldBytes(r)), !.mode = "DICT"]))

\* inflate returns at once, without its accounts
Return(s, ret) == [s EXCEPT !.ret = ret, !.during = "return"]

DICT(s) ==
  IF ~s.havedict THEN Return(s, Z_NEED_DICT)
  ELSE [s EXCEPT !.check = ADLER_INIT, !.adler = ADLER_INIT, !.mode = "TYPE"]

(***************************************************************************)
(* Blocks.                                                                 *)
(***************************************************************************)
inflate_fixed(s) ==
  [s EXCEPT !.lencode = lenfix, !.lenbits = 9, !.distcode = distfix, !.distbits = 5]

TYPEDO(s, flush) ==
  IF s.last = 1 THEN [BYTEBITS(s) EXCEPT !.mode = "CHECK"]
  ELSE WithBits(s, 3, LAMBDA r :
         LET typed == DROPBITS([r EXCEPT !.last = r.hold[1]], 3)
             type == r.hold[2] + 2 * r.hold[3]
             fixed == [inflate_fixed(typed) EXCEPT !.mode = "LEN_"]
         IN  CASE type = 0 -> [typed EXCEPT !.mode = "STORED"]
               [] type = 1 -> IF flush = Z_TREES THEN Leave(fixed) ELSE fixed
               [] type = 2 -> [typed EXCEPT !.mode = "TABLE"]
               [] OTHER -> Bad(typed))

TYPE(s, flush) == IF flush \in {Z_BLOCK, Z_TREES} THEN Leave(s) ELSE TYPEDO(s, flush)

STORED(s, flush) ==
  WithBits(BYTEBITS(s), 32, LAMBDA r :
    LET length == BITS(r, 16)
        sized == INITBITS([r EXCEPT !.length = length, !.mode = "COPY_"])
    IN  IF length + Number(SubSeq(r.hold, 17, 32), 16) # 65535 THEN Bad(r)
        ELSE IF flush = Z_TREES THEN Leave(sized) ELSE sized)

COPY(s) ==
  LET copy == Least(s.length, Least(Len(s.next_in), s.avail_out))
  IN  IF s.length = 0 THEN [s EXCEPT !.mode = "TYPE"]
      ELSE IF copy = 0 THEN Leave(s)
      ELSE [Put(s, SubSeq(s.next_in, 1, copy)) EXCEPT !.next_in = SubSeq(@, copy + 1, Len(@)), !.length = @ - copy]

TABLE(s) ==
  WithBits(s, 14, LAMBDA r :
    LET sized == DROPBITS([r EXCEPT !.nlen = BITS(r, 5) + 257, !.ndist = BITS(DROPBITS(r, 5), 5) + 1,
                                    !.ncode = BITS(DROPBITS(r, 10), 4) + 4], 14)
    IN  IF sized.nlen > 286 \/ sized.ndist > 30 THEN Bad(sized)
        ELSE [sized EXCEPT !.lens = <<>>, !.mode = "LENLENS"])

order == <<16, 17, 18, 0, 8, 7, 9, 6, 10, 5, 11, 4, 12, 3, 13, 2, 14, 1, 15>>

\* one code length of the code lengths' code; then its table
LENLENS(s) ==
  LET lengthOf(n) == LET i == CHOOSE j \in 1 .. 19 : order[j] = n IN IF i <= s.ncode THEN s.lens[i] ELSE 0
      r == inflate_table("CODES", [n \in 1 .. 19 |-> lengthOf(n - 1)], 7)
      built == [s EXCEPT !.lencode = r.table, !.distcode = <<>>, !.lenbits = r.bits, !.next = Len(r.table)]
  IN  IF Len(s.lens) < s.ncode
      THEN WithBits(s, 3, LAMBDA b : DROPBITS([b EXCEPT !.lens = Append(@, BITS(b, 3))], 3))
      ELSE IF r.ret # 0 THEN Bad(built) ELSE [built EXCEPT !.lens = <<>>, !.mode = "CODELENS"]

\* pulls just the bytes of the next code behind n bits; base: where its table is
RECURSIVE Decode(_, _, _, _, _)
Decode(s, table, base, n, bits) ==
  LET here == table[base + Number(SubSeq(s.hold, n + 1, Len(s.hold)), bits) + 1]
  IN  IF n + here.bits <= Len(s.hold) THEN [s |-> s, here |-> here]
      ELSE IF s.next_in = <<>> THEN [s |-> Leave(s), here |-> here]
      ELSE Decode(PULLBYTE(s), table, base, n, bits)

\* the lengths of both codes
CODELENS(s) ==
  LET d == Decode(s, s.lencode, 0, 0, s.lenbits)
      val == d.here.val
      more == CASE val = 16 -> 2 [] val = 17 -> 3 [] val = 18 -> 7 [] OTHER -> 0
      repeated(r) ==
        LET b == DROPBITS(r, d.here.bits)
            copy == BITS(b, more) + (IF val = 18 THEN 11 ELSE 3)
            len == IF val = 16 THEN Last(s.lens) ELSE 0
            rest == DROPBITS(b, more)
        IN  IF val = 16 /\ s.lens = <<>> THEN Bad(b)
            ELSE IF Len(s.lens) + copy > s.nlen + s.ndist THEN Bad(rest)
            ELSE [rest EXCEPT !.lens = @ \o [i \in 1 .. copy |-> len]]
  IN  IF d.s.during = "leave" THEN d.s
      ELSE IF val < 16 THEN DROPBITS([d.s EXCEPT !.lens = Append(@, val)], d.here.bits)
      ELSE WithBits(d.s, d.here.bits + more, repeated)

\* both tables: l and d are what inflate_table made of the lengths
TablesBuilt(s, flush, l, d) ==
  LET withLens == [s EXCEPT !.lencode = l.table, !.lenbits = l.bits, !.next = Len(l.table)]
      built == [withLens EXCEPT !.distcode = d.table, !.distbits = d.bits, !.next = @ + Len(d.table), !.mode = "LEN_"]
  IN  IF l.ret # 0 THEN Bad(withLens)
      ELSE IF d.ret # 0 THEN Bad(built)
      ELSE IF flush = Z_TREES THEN Leave(built) ELSE built

BuildTables(s, flush) ==
  IF s.lens[257] = 0 THEN Bad(s)
  ELSE TablesBuilt(s, flush, inflate_table("LENS", SubSeq(s.lens, 1, s.nlen), LenRoot),
                   inflate_table("DISTS", SubSeq(s.lens, s.nlen + 1, s.nlen + s.ndist), DistRoot))

(***************************************************************************)
(* Codes.                                                                  *)
(***************************************************************************)
IsLink(entry) == entry.op \in 1 .. 15
IsInvalid(entry) == entry.op >= 64 /\ entry.op # 96

\* the next code is dropped; back counts its bits
Coded(s, table, bits, step(_, _)) ==
  LET first == Decode(s, table, 0, 0, bits)
      link == first.here
      d == IF first.s.during = "leave" \/ ~IsLink(link) THEN first
           ELSE Decode(first.s, table, link.val, link.bits, link.op)
      length == d.here.bits + (IF IsLink(link) THEN link.bits ELSE 0)
  IN  IF d.s.during = "leave" THEN d.s
      ELSE step([DROPBITS(d.s, length) EXCEPT !.back = @ + length], d.here)

LEN(s) ==
  Coded([s EXCEPT !.back = 0], s.lencode, s.lenbits, LAMBDA b, here :
    LET r == [b EXCEPT !.length = here.val]
    IN  CASE here.op = 0 -> [r EXCEPT !.mode = "LIT"]
          [] here.op = 96 -> [r EXCEPT !.back = -1, !.mode = "TYPE"]
          [] IsInvalid(here) -> Bad(r)
          [] OTHER -> [r EXCEPT !.extra = here.op % 16, !.mode = "LENEXT"])

LENEXT(s) ==
  WithBits(s, s.extra, LAMBDA r :
    LET length == r.length + BITS(r, r.extra)
    IN  DROPBITS([r EXCEPT !.length = length, !.was = length, !.back = @ + r.extra, !.mode = "DIST"], r.extra))

DIST(s) ==
  Coded(s, s.distcode, s.distbits, LAMBDA r, here :
    IF IsInvalid(here) THEN Bad(r) ELSE [r EXCEPT !.offset = here.val, !.extra = here.op % 16, !.mode = "DISTEXT"])

DISTEXT(s) ==
  WithBits(s, s.extra, LAMBDA r :
    DROPBITS([r EXCEPT !.offset = @ + BITS(r, r.extra), !.back = @ + r.extra, !.mode = "MATCH"], r.extra))

\* n bytes from dist back in the output; they may overlap what they make
FromOutput(s, dist, n) ==
  LET end == Len(s.next_out) - dist
  IN  Forced([i \in 1 .. n |-> s.next_out[end + 1 + ((i - 1) % dist)]])

Produced(s) == Len(s.next_out) - s.begun
\* Mutant: the window is forgotten
TooFarWithoutWindow(s, dist) == dist > Produced(s)

TooFar(s, dist) == dist > Produced(s) + s.whave

\* part of a match: to the end of the window, of the window's memory, or of the match
MATCH(s) ==
  LET behind == s.offset - Produced(s)
      together == IF behind > s.wnext THEN behind - s.wnext ELSE behind
      some == Least(s.avail_out, IF behind > 0 THEN Least(together, s.length) ELSE s.length)
      r == Put(s, IF behind > 0 THEN SubSeq(FromWindow(s, behind), 1, some) ELSE FromOutput(s, s.offset, some))
  IN  IF s.avail_out = 0 THEN Leave(s)
      ELSE IF TooFar(s, s.offset) THEN Bad(s)
      ELSE [r EXCEPT !.length = @ - some, !.mode = IF s.length = some THEN "LEN" ELSE @]

LIT(s) == IF s.avail_out = 0 THEN Leave(s) ELSE [Put(s, <<s.length>>) EXCEPT !.mode = "LEN"]

(***************************************************************************)
(* inflate_fast: six bytes of input and room for the longest match, so     *)
(* that nothing is asked for while a length and its distance are decoded.  *)
(***************************************************************************)
\* pulls bytes without a look at how many there are
Pull(s, n) ==
  IF Len(s.next_in) >= n THEN (IF n = 1 THEN PULLBYTE(s) ELSE PULLBYTE(PULLBYTE(s)))
  ELSE [s EXCEPT !.hold = @ \o [i \in 1 .. 8 * n |-> 0], !.astray = TRUE]

FastCode(s, table, bits, step(_, _)) ==
  LET r == IF Len(s.hold) < 15 THEN Pull(s, 2) ELSE s
      link == table[BITS(r, bits) + 1]
      rest == DROPBITS(r, link.bits)
      here == IF IsLink(link) THEN table[link.val + BITS(rest, link.op) + 1] ELSE link
  IN  step(IF IsLink(link) THEN DROPBITS(rest, here.bits) ELSE rest, here)

RECURSIVE FastExtra(_, _)
FastExtra(s, n) == IF Len(s.hold) >= n THEN s ELSE FastExtra(Pull(s, 1), n)

FastMatch(s, len, dist) ==
  LET behind == dist - Produced(s)
      fromWindow == Least(behind, len)
      begun == IF behind > 0 THEN Put(s, SubSeq(FromWindow(s, behind), 1, fromWindow)) ELSE s
      rest == IF behind > 0 THEN len - fromWindow ELSE len
  IN  IF TooFar(s, dist) THEN Bad(s)
      ELSE IF rest = 0 THEN begun ELSE Put(begun, FromOutput(begun, dist, rest))

FastLength(s, here) ==
  LET extra == FastExtra(s, here.op % 16)
      len == here.val + BITS(extra, here.op % 16)
  IN  FastCode(DROPBITS(extra, here.op % 16), s.distcode, s.distbits, LAMBDA r, there :
        LET more == FastExtra(r, there.op % 16)
            dist == there.val + BITS(more, there.op % 16)
        IN  IF IsInvalid(there) THEN Bad(r) ELSE FastMatch(DROPBITS(more, there.op % 16), len, dist))

FastSymbol(s) ==
  FastCode(s, s.lencode, s.lenbits, LAMBDA r, here :
    CASE here.op = 0 -> Put(r, <<here.val>>)
      [] here.op = 96 -> [r EXCEPT !.mode = "TYPE"]
      [] IsInvalid(here) -> Bad(r)
      [] OTHER -> FastLength(r, here))

\* up to 2^k symbols; the last position is before the last five bytes
RECURSIVE FastSymbols(_, _)
\* Mutant: room for less than the longest match
FastSymbolsTooLong(s, k) ==
  IF s.mode # "LEN" \/ Len(s.next_in) <= 5 \/ s.avail_out <= 255 THEN s
  ELSE IF k = 0 THEN FastSymbol(s) ELSE LET half == FastSymbols(s, k - 1) IN FastSymbols(half, k - 1)

FastSymbols(s, k) ==
  IF s.mode # "LEN" \/ Len(s.next_in) <= 5 \/ s.avail_out <= 257 THEN s
  ELSE IF k = 0 THEN FastSymbol(s) ELSE LET half == FastSymbols(s, k - 1) IN FastSymbols(half, k - 1)

\* r has what is left of the input of s: whole bytes go back to it
GiveBack(s, r) ==
  LET bits == Len(r.hold) % 8
      unused == Len(r.hold) \div 8
      taken == Len(s.next_in) - Len(r.next_in) - unused
  IN  [r EXCEPT !.hold = SubSeq(@, 1, bits), !.next_in = SubSeq(s.next_in, taken + 1, Len(s.next_in)),
                !.astray = @ \/ r.avail_out < 0 \/ taken < 0]

inflate_fast(s) == GiveBack(s, FastSymbols(s, 10))

(***************************************************************************)
(* The trailer, and inflate.                                               *)
(***************************************************************************)
Counted(s) ==
  LET due == SubSeq(s.next_out, s.begun + 1, Len(s.next_out))
  IN  [UPDATE_CHECK(s, due) EXCEPT !.total_out = @ + Len(due), !.total = @ + Len(due), !.begun = Len(s.next_out)]

CheckTrailer(s) ==
  IF "check" \in s.wrap /\ s.check # (IF s.flags # 0 THEN HoldBytes(s) ELSE AdlerIn(HoldBytes(s))) THEN Bad(s)
  ELSE [INITBITS(s) EXCEPT !.mode = "LENGTH"]

CHECK(s) ==
  IF s.wrap = {} THEN [s EXCEPT !.mode = "LENGTH"]
  ELSE WithBits(s, 32, LAMBDA r : CheckTrailer(Counted(r)))

LENGTH(s) ==
  LET total == <<s.total % 256, (s.total \div 256) % 256, (s.total \div 65536) % 256, s.total \div 16777216>>
  IN  IF s.wrap = {} \/ s.flags = 0 THEN [s EXCEPT !.mode = "DONE"]
      ELSE WithBits(s, 32, LAMBDA r : IF "check" \in r.wrap /\ HoldBytes(r) # total THEN Bad(r)
                                      ELSE [INITBITS(r) EXCEPT !.mode = "DONE"])

AfterFast(s) ==
  [s EXCEPT !.back = IF s.mode = "TYPE" THEN -1 ELSE @, !.during = IF s.astray THEN "leave" ELSE @]

Mode(s, flush) ==
  CASE s.mode = "HEAD" -> HEAD(s)
    [] s.mode = "FLAGS" -> FLAGS(s)
    [] s.mode = "TIME" -> TIME(s)
    [] s.mode = "OS" -> OS(s)
    [] s.mode = "EXLEN" -> EXLEN(s)
    [] s.mode = "EXTRA" -> EXTRA(s)
    [] s.mode = "NAME" -> NAME(s)
    [] s.mode = "COMMENT" -> COMMENT(s)
    [] s.mode = "HCRC" -> HCRC(s)
    [] s.mode = "DICTID" -> DICTID(s)
    [] s.mode = "DICT" -> DICT(s)
    [] s.mode = "TYPE" -> TYPE(s, flush)
    [] s.mode = "TYPEDO" -> TYPEDO(s, flush)
    [] s.mode = "STORED" -> STORED(s, flush)
    [] s.mode \in {"COPY_", "COPY"} -> COPY([s EXCEPT !.mode = "COPY"])
    [] s.mode = "TABLE" -> TABLE(s)
    [] s.mode = "LENLENS" -> LENLENS(s)
    [] s.mode = "CODELENS" -> IF Len(s.lens) < s.nlen + s.ndist THEN CODELENS(s) ELSE BuildTables(s, flush)
    [] s.mode \in {"LEN_", "LEN"} ->
         IF Len(s.next_in) >= 6 /\ s.avail_out >= 258 THEN AfterFast(inflate_fast([s EXCEPT !.mode = "LEN"])) ELSE LEN([s EXCEPT !.mode = "LEN"])
    [] s.mode = "LENEXT" -> LENEXT(s)
    [] s.mode = "DIST" -> DIST(s)
    [] s.mode = "DISTEXT" -> DISTEXT(s)
    [] s.mode = "MATCH" -> MATCH(s)
    [] s.mode = "LIT" -> LIT(s)
    [] s.mode = "CHECK" -> CHECK(s)
    [] s.mode = "LENGTH" -> LENGTH(s)
    [] s.mode = "DONE" -> Leave([s EXCEPT !.ret = Z_STREAM_END])
    [] s.mode = "BAD" -> Leave([s EXCEPT !.ret = Z_DATA_ERROR])
    [] s.mode = "MEM" -> Return(s, Z_MEM_ERROR)
    [] s.mode = "SYNC" -> Return(s, Z_STREAM_ERROR)

\* up to 2^k modes
RECURSIVE Modes(_, _, _)
Modes(s, flush, k) ==
  IF s.during # "yes" THEN s
  ELSE IF k = 0 THEN Mode(s, flush) ELSE LET half == Modes(s, flush, k - 1) IN Modes(half, flush, k - 1)

\* inf_leave
Accounts(s, got, flush, memory) ==
  LET bytes == SubSeq(s.next_out, s.begun + 1, Len(s.next_out))
      keeps == \/ s.wsize # 0
               \/ /\ bytes # <<>>
                  /\ \/ s.mode \in HeaderModes \cup BlockModes
                     \/ s.mode \in TrailerModes /\ flush # Z_FINISH
      r == IF keeps THEN updatewindow(s, bytes, memory) ELSE s
      in == got - Len(s.next_in)
      counted == [r EXCEPT !.total_in = @ + in, !.total_out = @ + Len(bytes), !.total = @ + Len(bytes)]
      still == s.ret = Z_OK /\ ((in = 0 /\ bytes = <<>>) \/ flush = Z_FINISH)
  IN  IF keeps /\ r.mode = "MEM" THEN [r EXCEPT !.ret = Z_MEM_ERROR]
      ELSE [UPDATE_CHECK(counted, bytes)
            EXCEPT !.data_type = Len(r.hold) + (IF r.last = 1 THEN 64 ELSE 0) + (IF r.mode = "TYPE" THEN 128 ELSE 0)
                                 + (IF r.mode \in {"LEN_", "COPY_"} THEN 256 ELSE 0),
                   !.ret = IF still THEN Z_BUF_ERROR ELSE @]

inflate(s, bytes, room, flush, memory) ==
  LET called == [s EXCEPT !.next_in = bytes, !.next_out = <<>>, !.avail_out = room, !.ret = Z_OK,
                          !.during = "yes", !.begun = 0, !.mode = IF @ = "TYPE" THEN "TYPEDO" ELSE @]
      account(r) == IF r.during = "return" THEN r ELSE Accounts(r, Len(bytes), flush, memory)
  IN  [account(Modes(called, flush, 12)) EXCEPT !.during = "no", !.begun = 0]

(***************************************************************************)
(* The other calls.                                                        *)
(***************************************************************************)
\* count bits are put before what is to be read; a count below 0 empties hold
inflatePrime(s, count, bits) ==
  CASE count < 0 -> [INITBITS(s) EXCEPT !.ret = Z_OK]
    [] count > 16 \/ Len(s.hold) + count > 32 -> [s EXCEPT !.ret = Z_STREAM_ERROR]
    [] OTHER -> [s EXCEPT !.hold = @ \o SubSeq(bits, 1, count), !.ret = Z_OK]

inflateGetDictionary(s) ==
  IF s.whave = 0 THEN <<>>
  ELSE SubSeq(s.window, s.wnext + 1, s.whave) \o SubSeq(s.window, 1, s.wnext)

inflateSetDictionary(s, dictionary, memory) ==
  LET r == updatewindow(s, dictionary, memory)
  IN  CASE s.wrap # {} /\ s.mode # "DICT" -> [s EXCEPT !.ret = Z_STREAM_ERROR]
        [] s.mode = "DICT" /\ adler32(ADLER_INIT, dictionary) # s.check -> [s EXCEPT !.ret = Z_DATA_ERROR]
        [] OTHER -> IF s.window = NULL /\ ~memory THEN [r EXCEPT !.ret = Z_MEM_ERROR]
                    ELSE [r EXCEPT !.havedict = TRUE, !.ret = Z_OK]

inflateGetHeader(s, head) ==
  IF "gzip" \notin s.wrap THEN [s EXCEPT !.ret = Z_STREAM_ERROR]
  ELSE [s EXCEPT !.head = <<[head EXCEPT !.done = 0]>>, !.ret = Z_OK]

\* how much of 0, 0, 255, 255 was found in order: [got, next], next bytes looked at
RECURSIVE syncsearch(_, _, _)
\* Mutant: a zero too many and the search starts anew
syncsearchAnew(got, buf, next) ==
  IF got = 4 \/ next = Len(buf) THEN [got |-> got, next |-> next]
  ELSE syncsearch(IF buf[next + 1] = (IF got < 2 THEN 0 ELSE 255) THEN got + 1 ELSE 0, buf, next + 1)

syncsearch(got, buf, next) ==
  IF got = 4 \/ next = Len(buf) THEN [got |-> got, next |-> next]
  ELSE LET b == buf[next + 1]
       IN  syncsearch(IF b = (IF got < 2 THEN 0 ELSE 255) THEN got + 1 ELSE IF b # 0 THEN 0 ELSE 4 - got,
                      buf, next + 1)

inflateSync(s, bytes) ==
  LET first == IF s.mode = "SYNC" THEN s
               ELSE [BYTEBITS(s) EXCEPT !.mode = "SYNC", !.hold = <<>>,
                                        !.synced = syncsearch(0, HoldBytes(BYTEBITS(s)), 0).got]
      found == syncsearch(first.synced, bytes, 0)
      read == [first EXCEPT !.synced = found.got, !.next_in = SubSeq(bytes, found.next + 1, Len(bytes)),
                            !.next_out = <<>>, !.total_in = @ + found.next]
      restarted == inflateReset([read EXCEPT !.wrap = IF s.flags = -1 THEN {} ELSE @ \ {"check"}])
  IN  IF bytes = <<>> /\ Len(s.hold) < 8 THEN [s EXCEPT !.next_in = <<>>, !.next_out = <<>>, !.ret = Z_BUF_ERROR]
      ELSE IF found.got # 4 THEN [read EXCEPT !.ret = Z_DATA_ERROR]
      ELSE [restarted EXCEPT !.total_in = read.total_in, !.total_out = read.total_out, !.flags = s.flags,
                             !.mode = "TYPE", !.ret = Z_OK]

inflateSyncPoint(s) == s.mode = "STORED" /\ s.hold = <<>>

\* Mutant: only what lies before wnext
inflateCopyOfStart(s) ==
  [s EXCEPT !.window = Forced([i \in 1 .. Len(@) |-> IF i <= s.wnext THEN @[i] ELSE Unwritten])]

\* the bytes of the window that were never written are not copied
inflateCopy(s) ==
  [s EXCEPT !.window = Forced([i \in 1 .. Len(@) |-> IF i <= s.whave THEN @[i] ELSE Unwritten])]

inflateValidate(s, check) ==
  [s EXCEPT !.wrap = IF check /\ @ # {} THEN @ \cup {"check"} ELSE @ \ {"check"}, !.ret = Z_OK]

\* Mutant: what is left of a match
inflateMarkOfRest(s) == <<s.back, CASE s.mode \in {"COPY", "MATCH"} -> s.length [] OTHER -> 0>>

\* bits back, and bytes copied since
inflateMark(s) ==
  <<s.back, CASE s.mode = "COPY" -> s.length [] s.mode = "MATCH" -> s.was - s.length [] OTHER -> 0>>

inflateCodesUsed(s) == s.next
=============================================================================
