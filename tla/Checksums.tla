------------------------------ MODULE Checksums ------------------------------
(***************************************************************************)
(* The check values of CNIOExtrasZlib, adler32.c and crc32.c.              *)
(*                                                                         *)
(* A 32-bit CRC register is the sequence of its four bytes, the least      *)
(* significant one first, and a machine word the sequence of its W bytes   *)
(* in the same order.  An Adler-32 value is the pair of its sums.          *)
(* A buffer is a sequence of bytes with the alignment of its address.      *)
(***************************************************************************)
EXTENDS Integers, Sequences, SequencesExt

CONSTANTS N,         \* the number of braids, 1 to 6, 5 by default
          W,         \* the bytes in a word, 4 or 8
          NMAX,      \* the bytes added up before sum2 is reduced, 5552
          BATCH,     \* the words in a batch of the ARM version, 3990
          BATCH_MIN  \* the fewest words in its last batch, 800

ASSUME ChecksumsAssumption ==
  N \in 1 .. 6 /\ W \in {4, 8} /\ {NMAX, BATCH, BATCH_MIN} \subseteq Nat \ {0}

BASE == 65521
POLY == <<32, 131, 184, 237>>  \* 0xedb88320
Byte == 0 .. 255

\* of the high bits first
XorBytes == [a \in Byte |-> [b \in Byte |->
  LET xor[i \in 0 .. 8] ==
        IF i = 0 THEN 0 ELSE LET high == xor[i - 1] IN 2 * high + ((a \div 2^(8 - i) + b \div 2^(8 - i)) % 2)
  IN  xor[8]]]
XorWords(x, y) == SubSeq([i \in 1 .. Len(x) |-> XorBytes[x[i]][y[i]]], 1, Len(x))
Zeros(n) == [i \in 1 .. n |-> 0]
Ones == <<255, 255, 255, 255>>
byte_swap(word) == Reverse(word)

(***************************************************************************)
(* Polynomials over GF(2), reflected: a shift to the right multiplies by x. *)
(***************************************************************************)
Halve(p) == <<p[1] \div 2 + 128 * (p[2] % 2), p[2] \div 2 + 128 * (p[3] % 2),
              p[3] \div 2 + 128 * (p[4] % 2), p[4] \div 2>>
TimesX(p) == XorWords(Halve(p), IF p[1] % 2 = 1 THEN POLY ELSE Zeros(4))
Bit(p, i) == (p[(i \div 8) + 1] \div 2^(i % 8)) % 2

RECURSIVE XorAll(_)
XorAll(words) ==  \* in two halves
  LET n == Len(words) \div 2
  IN  IF n = 0 THEN words[1]
      ELSE XorWords(XorAll(SubSeq(words, 1, n)), XorAll(SubSeq(words, n + 1, Len(words))))

RECURSIVE Multiples(_)
Multiples(table) ==  \* of its first element, by the powers of x
  IF Len(table) = 32 THEN table ELSE Multiples(Append(table, TimesX(Last(table))))

Selected(a, table) == [i \in 1 .. 32 |-> IF Bit(a, 32 - i) = 1 THEN table[i] ELSE Zeros(4)]
multmodp(a, b) == XorAll(Selected(a, Multiples(<<b>>)))

RECURSIVE Squares(_)
Squares(table) == IF Len(table) = 32 THEN table ELSE Squares(Append(table, multmodp(Last(table), Last(table))))

x2n_table == Squares(<< <<0, 0, 0, 64>> >>)  \* x^(2^n) for n in 0..31, at n + 1

RECURSIVE Power(_, _, _)
Power(n, k, p) ==
  IF n = 0 THEN p
  ELSE Power(n \div 2, k + 1, IF n % 2 = 1 THEN multmodp(x2n_table[(k % 32) + 1], p) ELSE p)

x2nmodp(n, k) == Power(n, k, <<0, 0, 0, 128>>)

(***************************************************************************)
(* The tables: the CRC of every byte, and of every byte of a word followed *)
(* by the bytes up to the word of the same braid in the next block.        *)
(***************************************************************************)
make_crc_table ==
  [i \in Byte |-> LET shifted[j \in 0 .. 8] ==
                        IF j = 0 THEN <<i, 0, 0, 0>> ELSE TimesX(shifted[j - 1])
                  IN  shifted[8]]
crc_table == make_crc_table
crc_big_table == [i \in Byte |-> byte_swap(crc_table[i] \o Zeros(W - 4))]

braid(n, w) == [k \in 0 .. w - 1 |->
                  LET p == x2nmodp((n * w + 3 - k) * 8, 0)
                  IN  [i \in Byte |-> multmodp(<<0, 0, 0, i>>, p)]]
crc_braid_table == braid(N, W)
crc_braid_big_table ==
  [k \in 0 .. W - 1 |-> [i \in Byte |-> byte_swap(crc_braid_table[W - 1 - k][i] \o Zeros(W - 4))]]

(***************************************************************************)
(* crc32_z without the ARM instructions.                                   *)
(***************************************************************************)
CrcByte(crc, b) == XorWords(Append(Tail(crc), 0), crc_table[XorBytes[crc[1]][b]])

RECURSIVE CrcBytes(_, _)
CrcBytes(crc, bytes) ==  \* in two halves
  LET n == Len(bytes) \div 2
      half == CrcBytes(crc, SubSeq(bytes, 1, n))
  IN  IF bytes = <<>> THEN crc
      ELSE IF n = 0 THEN CrcByte(crc, bytes[1]) ELSE CrcBytes(half, SubSeq(bytes, n + 1, Len(bytes)))

RECURSIVE crc_word(_, _)
crc_word(data, k) ==
  IF k = W THEN SubSeq(data, 1, 4)
  ELSE crc_word(XorWords(Append(Tail(data), 0), crc_table[data[1]] \o Zeros(W - 4)), k + 1)

RECURSIVE crc_word_big(_, _)
crc_word_big(data, k) ==
  IF k = W THEN data
  ELSE crc_word_big(XorWords(<<0>> \o Front(data), crc_big_table[data[W]]), k + 1)

InOrder(word, endian) == IF endian = "little" THEN word ELSE byte_swap(word)

\* word j (from 0) of a block, as a little or a big endian machine loads it
LoadWord(block, j, endian) ==
  InOrder(SubSeq(block, j * W + 1, (j + 1) * W), endian)

\* the next register of a braid: a table look-up for each byte of its word
BraidStep(word, endian) ==
  XorAll([k \in 1 .. W |-> IF endian = "little" THEN crc_braid_table[k - 1][word[k]] \o Zeros(W - 4)
                                                ELSE crc_braid_big_table[k - 1][word[k]]])

RECURSIVE BraidBlocks(_, _, _)
BraidBlocks(crcs, bytes, endian) ==  \* crcs: the N registers, as words
  IF Len(bytes) = N * W THEN crcs
  ELSE BraidBlocks([j \in 1 .. N |-> BraidStep(XorWords(crcs[j], LoadWord(bytes, j - 1, endian)), endian)],
                   SubSeq(bytes, N * W + 1, Len(bytes)), endian)

RECURSIVE Combine(_, _, _, _, _)
Combine(crcs, block, endian, j, comb) ==  \* the last block: the braids one after the other
  IF j = N THEN comb
  ELSE LET word == XorWords(XorWords(crcs[j + 1], LoadWord(block, j, endian)), comb)
       IN  Combine(crcs, block, endian, j + 1,
                   IF endian = "little" THEN crc_word(word, 0) \o Zeros(W - 4) ELSE crc_word_big(word, 0))

Braids(crc, bytes, endian) ==
  LET first == InOrder(crc \o Zeros(W - 4), endian)
      crcs == BraidBlocks([j \in 1 .. N |-> IF j = 1 THEN first ELSE Zeros(W)], bytes, endian)
      last == SubSeq(bytes, Len(bytes) - N * W + 1, Len(bytes))
  IN  SubSeq(InOrder(Combine(crcs, last, endian, 0, Zeros(W)), endian), 1, 4)

crc32_z(crc, buf, align, endian) ==
  LET pre == XorWords(crc, Ones)
      lead == IF Len(buf) >= N * W + W - 1 THEN (W - (align % W)) % W ELSE 0
      aligned == CrcBytes(pre, SubSeq(buf, 1, lead))
      blks == IF Len(buf) >= N * W + W - 1 THEN (Len(buf) - lead) \div (N * W) ELSE 0
      bulk == SubSeq(buf, lead + 1, lead + blks * N * W)
      braided == IF blks = 0 THEN aligned
                 ELSE Braids(aligned, bulk, endian)
      rest == SubSeq(buf, lead + blks * N * W + 1, Len(buf))
  IN  XorWords(CrcBytes(braided, rest), Ones)

(***************************************************************************)
(* crc32_z with the CRC instructions of ARM: three interleaved registers   *)
(* over three batches of words, combined by a multiplication.              *)
(***************************************************************************)
\* Mutant: the bytes of the batch that follows are taken for its words.
BatchZerosOfBytes(words) == x2nmodp(words, 3)

BatchZeros(words) == x2nmodp(words, 6)

ArmBatch(crc, bytes, words) ==
  LET part(i) == SubSeq(bytes, i * words * 8 + 1, (i + 1) * words * 8)
      zeros == BatchZeros(words)
      first == XorWords(multmodp(zeros, CrcBytes(crc, part(0))), CrcBytes(Zeros(4), part(1)))
  IN  XorWords(multmodp(zeros, first), CrcBytes(Zeros(4), part(2)))

RECURSIVE ArmBatches(_, _)
ArmBatches(crc, bytes) ==  \* bytes start at a word boundary
  LET num == Len(bytes) \div 8
      words == IF num >= 3 * BATCH THEN BATCH ELSE num \div 3
  IN  IF num >= 3 * BATCH \/ num \div 3 >= BATCH_MIN
      THEN LET done == ArmBatch(crc, bytes, words)
               rest == SubSeq(bytes, 3 * words * 8 + 1, Len(bytes))
           IN  IF num >= 3 * BATCH THEN ArmBatches(done, rest) ELSE CrcBytes(done, rest)
      ELSE CrcBytes(crc, bytes)

crc32_z_arm(crc, buf, align) ==
  LET lead == IF (8 - (align % 8)) % 8 <= Len(buf) THEN (8 - (align % 8)) % 8 ELSE Len(buf)
      aligned == CrcBytes(XorWords(crc, Ones), SubSeq(buf, 1, lead))
  IN  XorWords(ArmBatches(aligned, SubSeq(buf, lead + 1, Len(buf))), Ones)

crc32(crc, buf) == crc32_z(crc, buf, 0, "little")
Crc0 == Zeros(4)  \* crc32(0, NULL, 0)

crc32_combine_gen(len2) == x2nmodp(len2, 3)
crc32_combine_op(crc1, crc2, op) == XorWords(multmodp(op, crc1), crc2)
crc32_combine(crc1, crc2, len2) == crc32_combine_op(crc1, crc2, crc32_combine_gen(len2))

(***************************************************************************)
(* Adler-32.                                                               *)
(***************************************************************************)
MOD(a) == a % BASE

RECURSIVE AddBytes(_, _)
AddBytes(sums, bytes) ==
  IF bytes = <<>> THEN sums
  ELSE AddBytes(<<sums[1] + Head(bytes), sums[2] + sums[1] + Head(bytes)>>, Tail(bytes))

RECURSIVE AddBlocks(_, _)
AddBlocks(sums, bytes) ==  \* NMAX bytes between two reductions
  IF Len(bytes) < NMAX
  THEN LET s == AddBytes(sums, bytes) IN IF bytes = <<>> THEN sums ELSE <<MOD(s[1]), MOD(s[2])>>
  ELSE LET s == AddBytes(sums, SubSeq(bytes, 1, NMAX))
       IN  AddBlocks(<<MOD(s[1]), MOD(s[2])>>, SubSeq(bytes, NMAX + 1, Len(bytes)))

ReduceOnce(a) == IF a >= BASE THEN a - BASE ELSE a

adler32_z(adler, buf) ==
  LET sums == AddBytes(adler, buf)
  IN  CASE Len(buf) = 1 -> <<ReduceOnce(sums[1]), ReduceOnce(sums[2] - sums[1] + ReduceOnce(sums[1]))>>
        [] Len(buf) < 16 /\ Len(buf) # 1 -> <<ReduceOnce(sums[1]), MOD(sums[2])>>
        [] OTHER -> AddBlocks(adler, buf)

adler32(adler, buf) == adler32_z(adler, buf)
Adler0 == <<1, 0>>  \* adler32(0, NULL, 0)

adler32_combine(adler1, adler2, len2) ==
  LET rem == MOD(len2)
      sum1 == adler1[1] + adler2[1] + BASE - 1
      sum2 == MOD(rem * adler1[1]) + adler1[2] + adler2[2] + BASE - rem
      under == IF sum2 >= 2 * BASE THEN sum2 - 2 * BASE ELSE sum2
  IN  <<ReduceOnce(ReduceOnce(sum1)), ReduceOnce(under)>>

\* the four bytes of a check value, as zlib's trailer (MSB first) and gzip's (LSB first) carry it
AdlerBytes(adler) == <<adler[2] \div 256, adler[2] % 256, adler[1] \div 256, adler[1] % 256>>
=============================================================================
