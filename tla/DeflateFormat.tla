---------------------------- MODULE DeflateFormat ----------------------------
(***************************************************************************)
(* What a compressed stream means, from RFC 1950, 1951 and 1952: the       *)
(* reference that the compressor and the decompressor are compared with.   *)
(* A decoder reads bits from position pos on.  Its result has              *)
(*   out    the data                                                       *)
(*   state  "more" (the stream goes on), "end", "bad", or "dict" (a preset *)
(*          dictionary is needed)                                          *)
(*   pos    the position behind what was read, past is the bit             *)
(* Nothing is taken from the code: codes are found by counting.            *)
(***************************************************************************)
EXTENDS Integers, Sequences, Bitwise

LOCAL Number(bits, pos, n) ==  \* n bits, least significant first
  LET upTo[i \in 0 .. n] == IF i = 0 THEN 0 ELSE upTo[i - 1] + bits[pos + i] * 2^(i - 1)
  IN  upTo[n]
LOCAL Have(bits, pos, n) == pos + n <= Len(bits)
LOCAL Seq1(n, op(_)) == SubSeq([i \in 1 .. n |-> op(i)], 1, n)

(***************************************************************************)
(* A Huffman code: how many codes of each length, and the symbols in order *)
(* of their codes.  over and open say that it has too many or too few.     *)
(***************************************************************************)
LOCAL CountOf(lens, l) == Len(SelectSeq(lens, LAMBDA x : x = l))
Code(lens) ==
  LET count == Seq1(15, LAMBDA l : CountOf(lens, l))
      left[l \in 0 .. 15] == IF l = 0 THEN 1 ELSE LET before == left[l - 1] IN 2 * before - count[l]
      ordered[l \in 0 .. 15] ==
        IF l = 0 THEN <<>>
        ELSE LET before == ordered[l - 1]
             IN  IF count[l] = 0 THEN before
                 ELSE before \o SelectSeq([n \in 1 .. Len(lens) |-> n - 1], LAMBDA n : lens[n + 1] = l)
  IN  [count |-> count, symbols |-> ordered[15], over |-> \E l \in 1 .. 15 : left[l] < 0,
       open |-> left[15] > 0]

\* [sym, pos]; sym is -1 if the bits run out, -2 if no code begins with them
RECURSIVE Symbol(_, _, _, _, _, _, _)
Symbol(bits, pos, code, l, value, first, index) ==
  IF ~Have(bits, pos, 1) THEN [sym |-> -1, pos |-> pos]
  ELSE LET v == 2 * value + bits[pos + 1]
           n == code.count[l]
       IN  IF v - n < first THEN [sym |-> code.symbols[index + v - first + 1], pos |-> pos + 1]
           ELSE IF index + n = Len(code.symbols) THEN [sym |-> -2, pos |-> pos + 1]
           ELSE Symbol(bits, pos + 1, code, l + 1, v, 2 * (first + n), index + n)
LOCAL NextSymbol(bits, pos, code) == Symbol(bits, pos, code, 1, 0, 0, 0)

LOCAL LengthBase == <<3,4,5,6,7,8,9,10,11,13,15,17,19,23,27,31,35,43,51,59,67,83,99,115,131,163,195,227,258>>
LOCAL LengthBits == <<0,0,0,0,0,0,0,0,1,1,1,1,2,2,2,2,3,3,3,3,4,4,4,4,5,5,5,5,0>>
LOCAL DistBase == <<1,2,3,4,5,7,9,13,17,25,33,49,65,97,129,193,257,385,513,769,1025,1537,2049,3073,4097,
                    6145,8193,12289,16385,24577>>
LOCAL DistBits == <<0,0,0,0,1,1,2,2,3,3,4,4,5,5,6,6,7,7,8,8,9,9,10,10,11,11,12,12,13,13>>
FixedLengths == Code(Seq1(288, LAMBDA n : IF n <= 144 THEN 8 ELSE IF n <= 256 THEN 9 ELSE IF n <= 280 THEN 7
                                          ELSE 8))
FixedDistances == Code(Seq1(32, LAMBDA n : 5))

LOCAL Result(state, out, pos) == [state |-> state, out |-> out, pos |-> pos]

\* a match may overlap what it produces: it repeats its last dist bits
LOCAL CopyFrom(out, dist, n) ==
  out \o SubSeq([i \in 1 .. n |-> out[Len(out) - dist + 1 + ((i - 1) % dist)]], 1, n)

\* the match of length bytes whose distance d begins with
LOCAL Match(bits, r, length, d, window) ==
  LET dbits == DistBits[d.sym + 1]
      dist == DistBase[d.sym + 1] + Number(bits, d.pos, dbits)
  IN  CASE d.sym = -1 -> Result("more", r.out, r.pos)
        [] d.sym = -2 \/ d.sym > 29 -> Result("bad", r.out, r.pos)
        [] OTHER ->
             IF ~Have(bits, d.pos, dbits) THEN Result("more", r.out, r.pos)
             ELSE IF dist > Len(r.out) \/ dist > window THEN Result("bad", r.out, r.pos)
             ELSE Result("symbols", CopyFrom(r.out, dist, length), d.pos + dbits)

\* the symbol l; a length and distance count when all of it is there
LOCAL LiteralOrMatch(bits, r, l, dcode, window) ==
  LET lbits == LengthBits[l.sym - 256]
  IN  CASE l.sym = -1 -> Result("more", r.out, r.pos)
        [] l.sym = -2 \/ l.sym > 285 -> Result("bad", r.out, r.pos)
        [] l.sym \in 0 .. 255 -> Result("symbols", Append(r.out, l.sym), l.pos)
        [] l.sym = 256 -> Result("block", r.out, l.pos)
        [] OTHER ->
             IF ~Have(bits, l.pos, lbits) THEN Result("more", r.out, r.pos)
             ELSE Match(bits, r, LengthBase[l.sym - 256] + Number(bits, l.pos, lbits),
                        NextSymbol(bits, l.pos + lbits, dcode), window)

LOCAL OneSymbol(bits, r, lcode, dcode, window) ==
  LiteralOrMatch(bits, r, NextSymbol(bits, r.pos, lcode), dcode, window)

\* up to 2^k symbols of a block, in two halves
RECURSIVE SymbolsFrom(_, _, _, _, _, _)
SymbolsFrom(bits, r, lcode, dcode, window, k) ==
  IF r.state # "symbols" THEN r
  ELSE IF k = 0 THEN OneSymbol(bits, r, lcode, dcode, window)
  ELSE LET half == SymbolsFrom(bits, r, lcode, dcode, window, k - 1)
       IN  SymbolsFrom(bits, half, lcode, dcode, window, k - 1)
LOCAL Symbols(bits, pos, out, lcode, dcode, window) ==
  SymbolsFrom(bits, Result("symbols", out, pos), lcode, dcode, window, 10)

LOCAL Stored(bits, pos, out) ==
  LET at == 8 * ((pos + 7) \div 8)
      len == Number(bits, at, 16)
      got == IF Have(bits, at + 32, 8 * len) THEN len ELSE (Len(bits) - at - 32) \div 8
      data == Seq1(got, LAMBDA i : Number(bits, at + 24 + 8 * i, 8))
  IN  IF ~Have(bits, at, 32) THEN Result("more", out, pos)
      ELSE IF len + Number(bits, at + 16, 16) # 65535 THEN Result("bad", out, pos)
      ELSE Result(IF got = len THEN "block" ELSE "more", out \o data, at + 32 + 8 * got)

\* the lengths of both codes, n of them, from the code of lengths, whose next symbol is s
RECURSIVE Lengths(_, _, _, _, _)
RECURSIVE MoreLengths(_, _, _, _, _, _)
MoreLengths(bits, pos, code, n, lens, s) ==
  LET count == CASE s.sym = 16 -> 2 [] s.sym = 17 -> 3 [] s.sym = 18 -> 7 [] OTHER -> 0
      times == Number(bits, s.pos, count) + (IF s.sym = 18 THEN 11 ELSE 3)
      value == IF s.sym = 16 THEN lens[Len(lens)] ELSE 0
  IN  IF s.sym = -1 \/ (s.sym >= 16 /\ ~Have(bits, s.pos, count))
      THEN [state |-> "more", lens |-> lens, pos |-> pos]
      ELSE IF s.sym = -2 \/ (s.sym = 16 /\ lens = <<>>)
      THEN [state |-> "bad", lens |-> lens, pos |-> pos]
      ELSE Lengths(bits, s.pos + count, code, n,
                   IF s.sym < 16 THEN Append(lens, s.sym) ELSE lens \o Seq1(times, LAMBDA i : value))
Lengths(bits, pos, code, n, lens) ==
  CASE Len(lens) = n -> [state |-> "block", lens |-> lens, pos |-> pos]
    [] Len(lens) > n -> [state |-> "bad", lens |-> lens, pos |-> pos]
    [] OTHER -> MoreLengths(bits, pos, code, n, lens, NextSymbol(bits, pos, code))

LOCAL LengthOrder == <<16,17,18,0,8,7,9,6,10,5,11,4,12,3,13,2,14,1,15>>
LOCAL Only(code) == code.open /\ code.count[1] = 1 /\ Len(code.symbols) = 1  \* one code of one bit

LOCAL WithCodes(bits, out, pos, end, lcode, dcode, window) ==
  IF lcode.over \/ dcode.over \/ (lcode.open /\ ~Only(lcode))
     \/ (dcode.open /\ dcode.symbols # <<>> /\ ~Only(dcode))
  THEN Result("bad", out, pos)
  ELSE Symbols(bits, end, out, lcode, dcode, window)

LOCAL WithLengths(bits, out, pos, all, nlen, window) ==
  IF all.state # "block" THEN Result(all.state, out, pos)
  ELSE IF all.lens[257] = 0 THEN Result("bad", out, pos)
  ELSE WithCodes(bits, out, pos, all.pos, Code(SubSeq(all.lens, 1, nlen)),
                 Code(SubSeq(all.lens, nlen + 1, Len(all.lens))), window)

LOCAL Dynamic(bits, pos, out, window) ==
  LET nlen == Number(bits, pos, 5) + 257
      ndist == Number(bits, pos + 5, 5) + 1
      ncode == Number(bits, pos + 10, 4) + 4
      lens19 == [n \in 0 .. 18 |->
                   LET at == CHOOSE i \in 1 .. 19 : LengthOrder[i] = n
                   IN  IF at > ncode THEN 0 ELSE Number(bits, pos + 14 + 3 * (at - 1), 3)]
      code == Code(Seq1(19, LAMBDA n : lens19[n - 1]))
  IN  IF ~Have(bits, pos, 14) THEN Result("more", out, pos)
      ELSE IF nlen > 286 \/ ndist > 30 THEN Result("bad", out, pos)
      ELSE IF ~Have(bits, pos + 14, 3 * ncode) THEN Result("more", out, pos)
      ELSE IF code.over \/ code.open THEN Result("bad", out, pos)
      ELSE WithLengths(bits, out, pos, Lengths(bits, pos + 14 + 3 * ncode, code, nlen + ndist, <<>>),
                       nlen, window)

LOCAL Block(bits, pos, out, window) ==
  LET type == Number(bits, pos + 1, 2)
  IN  IF ~Have(bits, pos, 3) THEN Result("more", out, pos)
      ELSE CASE type = 0 -> Stored(bits, pos + 3, out)
             [] type = 1 -> Symbols(bits, pos + 3, out, FixedLengths, FixedDistances, window)
             [] type = 2 -> Dynamic(bits, pos + 3, out, window)
             [] OTHER -> Result("bad", out, pos)

RECURSIVE DecodeBlocks(_, _, _, _)
RECURSIVE BlocksBehind(_, _, _, _)
BlocksBehind(bits, last, r, window) ==
  IF r.state # "block" THEN r
  ELSE IF last THEN Result("end", r.out, r.pos)
  ELSE DecodeBlocks(bits, r.pos, r.out, window)
DecodeBlocks(bits, pos, out, window) ==
  BlocksBehind(bits, Have(bits, pos, 1) /\ bits[pos + 1] = 1, Block(bits, pos, out, window), window)

InBits(bytes) == Seq1(8 * Len(bytes), LAMBDA i : (bytes[(i + 7) \div 8] \div 2^((i - 1) % 8)) % 2)

\* raw deflate data behind a dictionary
LOCAL OutBehind(dict, r) == [r EXCEPT !.out = SubSeq(@, Len(dict) + 1, Len(@))]
DecodeRaw(bytes, pos, dict, window) == OutBehind(dict, DecodeBlocks(InBits(bytes), pos, dict, window))

(***************************************************************************)
(* The wrappers and their check values, one byte or bit at a time.         *)
(***************************************************************************)
AdlerOf(data) ==  \* four bytes, most significant first
  LET sum[i \in 0 .. Len(data)] ==
        IF i = 0 THEN <<1, 0>>
        ELSE LET s == sum[i - 1] IN LET a == (s[1] + data[i]) % 65521 IN <<a, (s[2] + a) % 65521>>
      r == sum[Len(data)]
  IN  <<r[2] \div 256, r[2] % 256, r[1] \div 256, r[1] % 256>>

\* behind the end of the data, the trailer's words are right as far as they are there
LOCAL Closed(bytes, r, trailerOf(_)) ==
  LET at == (r.pos + 7) \div 8
      trailer == trailerOf(r.out)
      words == IF Len(bytes) >= at + Len(trailer) THEN Len(trailer) ELSE 4 * ((Len(bytes) - at) \div 4)
  IN  IF r.state # "end" THEN r
      ELSE IF SubSeq(bytes, at + 1, at + words) # SubSeq(trailer, 1, words) THEN Result("bad", r.out, 8 * at)
      ELSE IF words < Len(trailer) THEN Result("more", r.out, 8 * at)
      ELSE Result("end", r.out, 8 * (at + words))

\* a window of n bits holds windowOf(n) bytes
DecodeZlib(bytes, dict, maxBits, windowOf(_)) ==
  LET fdict == (bytes[2] \div 32) % 2 = 1
      at == IF fdict THEN 48 ELSE 16
      bits == bytes[1] \div 16 + 8
  IN  IF Len(bytes) < 2 THEN Result("more", <<>>, 0)
      ELSE IF (256 * bytes[1] + bytes[2]) % 31 # 0 \/ bytes[1] % 16 # 8 \/ bits > maxBits
      THEN Result("bad", <<>>, 0)
      ELSE IF 8 * Len(bytes) < at THEN Result("more", <<>>, 16)
      ELSE IF fdict /\ SubSeq(bytes, 3, 6) # AdlerOf(dict) THEN Result("dict", <<>>, 48)
      ELSE Closed(bytes, DecodeRaw(bytes, at, IF fdict THEN dict ELSE <<>>, windowOf(bits)), AdlerOf)

CrcOf(data) ==  \* four bytes, least significant first; a register is its two halves
  LET step(c) == LET low == c[2] \div 2 + 32768 * (c[1] % 2)
                     high == c[1] \div 2
                 IN  IF c[2] % 2 = 1 THEN <<high ^^ 60856, low ^^ 33568>> ELSE <<high, low>>
      shifted[c \in (0 .. 65535) \X (0 .. 65535), n \in 0 .. 8] ==
        IF n = 0 THEN c ELSE LET d == shifted[c, n - 1] IN step(d)
      crc[i \in 0 .. Len(data)] ==
        IF i = 0 THEN <<65535, 65535>>
        ELSE LET c == crc[i - 1] IN shifted[<<c[1], c[2] ^^ data[i]>>, 8]
      r == crc[Len(data)]
  IN  <<255 - (r[2] % 256), 255 - (r[2] \div 256), 255 - (r[1] % 256), 255 - (r[1] \div 256)>>

\* the position behind the zero that ends a string
BehindZero(bytes, at) ==
  LET zeros == {i \in at + 1 .. Len(bytes) : bytes[i] = 0}
  IN  IF zeros = {} THEN Len(bytes) + 1 ELSE CHOOSE i \in zeros : \A j \in zeros : i <= j

DecodeGzip(bytes, windowOf(_)) ==
  LET has(flag) == (bytes[4] \div flag) % 2 = 1
      extra == IF ~has(4) THEN 10 ELSE IF Len(bytes) < 12 THEN Len(bytes) + 1
               ELSE 12 + bytes[11] + 256 * bytes[12]
      name == IF has(8) THEN BehindZero(bytes, extra) ELSE extra
      comment == IF has(16) THEN BehindZero(bytes, name) ELSE name
      data == IF has(2) THEN comment + 2 ELSE comment
      wrong == \/ Len(bytes) >= 2 /\ SubSeq(bytes, 1, 2) # <<31, 139>>
               \/ Len(bytes) >= 4 /\ (bytes[3] # 8 \/ bytes[4] > 31)
  IN  IF wrong THEN Result("bad", <<>>, 0)
      ELSE IF Len(bytes) < 10 THEN Result("more", <<>>, 0)
      ELSE IF Len(bytes) < data THEN Result("more", <<>>, 0)
      ELSE IF has(2) /\ SubSeq(bytes, comment + 1, data) # SubSeq(CrcOf(SubSeq(bytes, 1, comment)), 1, 2)
      THEN Result("bad", <<>>, 0)
      ELSE Closed(bytes, DecodeRaw(bytes, 8 * data, <<>>, windowOf(15)),
                  LAMBDA out : CrcOf(out) \o <<Len(out) % 256, Len(out) \div 256, 0, 0>>)
=============================================================================
