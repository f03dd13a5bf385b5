---------------------------- MODULE InflateTables ----------------------------
(***************************************************************************)
(* The decoding tables of CNIOExtrasZlib, inftrees.c.                      *)
(*                                                                         *)
(* A table is indexed by the next bits of the stream, the first one the    *)
(* least significant.  Codes longer than its root bits lead through an     *)
(* entry of the root table to a table of their own behind it.              *)
(* An entry's op is 0 for a literal, 16 plus the number of extra bits for  *)
(* a length or distance, 96 at the end of a block, another with 64 in it   *)
(* if there is no such code, and else the index bits of a second table.    *)
(***************************************************************************)
EXTENDS Integers, Sequences, SequencesExt

CONSTANTS LenRoot,       \* the index bits of the length table, 9
          DistRoot,      \* and of the distance table, 6
          ENOUGH_LENS,   \* the entries there is room for, 852
          ENOUGH_DISTS   \* and 592

ASSUME InflateTablesAssumption ==
  {LenRoot, DistRoot} \subseteq 1 .. 15 /\ {ENOUGH_LENS, ENOUGH_DISTS} \subseteq Nat

MAXBITS == 15
lbase == <<3, 4, 5, 6, 7, 8, 9, 10, 11, 13, 15, 17, 19, 23, 27, 31, 35, 43, 51, 59, 67, 83, 99, 115, 131,
           163, 195, 227, 258, 0, 0>>
lext == <<16, 16, 16, 16, 16, 16, 16, 16, 17, 17, 17, 17, 18, 18, 18, 18, 19, 19, 19, 19, 20, 20, 20, 20,
          21, 21, 21, 21, 16, 68, 193>>
dbase == <<1, 2, 3, 4, 5, 7, 9, 13, 17, 25, 33, 49, 65, 97, 129, 193, 257, 385, 513, 769, 1025, 1537, 2049,
           3073, 4097, 6145, 8193, 12289, 16385, 24577, 0, 0>>
dext == <<16, 16, 16, 16, 17, 17, 18, 18, 19, 19, 20, 20, 21, 21, 22, 22, 23, 23, 24, 24, 25, 25, 26, 26,
          27, 27, 28, 28, 29, 29, 64, 64>>

Least(a, b) == IF a > b THEN b ELSE a
Forced(f) == SubSeq(f, 1, Len(f))

code(op, bits, val) == [op |-> op, bits |-> bits, val |-> val]
Invalid(bits) == code(64, bits, 0)

\* the entry of a symbol whose code has so many bits
EntryOf(type, symbol, bits) ==
  CASE type = "CODES" -> code(0, bits, symbol)
    [] type = "DISTS" -> code(dext[symbol + 1], bits, dbase[symbol + 1])
    [] type = "LENS" /\ symbol < 256 -> code(0, bits, symbol)
    [] type = "LENS" /\ symbol = 256 -> code(96, bits, 0)
    [] OTHER -> code(lext[symbol - 256], bits, lbase[symbol - 256])

TooMany(type, used) ==
  (type = "LENS" /\ used > ENOUGH_LENS) \/ (type = "DISTS" /\ used > ENOUGH_DISTS)

\* codes are counted up from their other end
NextCode(huff, len) ==
  LET clear == {i \in 0 .. len - 1 : (huff \div 2^i) % 2 = 0}
      incr == 2^(CHOOSE i \in clear : \A j \in clear : j <= i)
  IN  IF clear = {} THEN 0 ELSE (huff % incr) + incr

\* the bits of a sub-table: enough for all codes that begin like this one
RECURSIVE SubTableBits(_, _, _, _, _)
SubTableBits(lens, curr, left, drop, max) ==  \* lens of the codes that are left
  LET more == left - Len(SelectSeq(lens, LAMBDA l : l = curr + drop))
  IN  IF curr + drop >= max \/ more <= 0 THEN curr ELSE SubTableBits(lens, curr + 1, 2 * more, drop, max)

NewSubTable(t, len) ==
  LET curr == SubTableBits(SubSeq(t.lens, t.sym + 1, Len(t.lens)), len - t.root, 2^(len - t.root), t.root,
                           Last(t.lens))
      low == t.huff % 2^t.root
      pointer == code(curr, t.root, Len(t.table))
  IN  IF TooMany(t.type, Len(t.table) + 2^curr) THEN [t EXCEPT !.ret = 1]
      ELSE [t EXCEPT !.table = [@ EXCEPT ![low + 1] = pointer] \o Forced([i \in 1 .. 2^curr |-> Invalid(0)]),
                     !.next = Len(t.table), !.curr = curr, !.drop = t.root, !.low = low]

\* one code is entered at every index that ends with it
PlaceCode(t) ==
  LET symbol == t.work[t.sym + 1]
      len == t.lens[t.sym + 1]
      here == EntryOf(t.type, symbol, len - t.drop)
      found(i) == i > t.next /\ (i - 1 - t.next) % 2^(len - t.drop) = t.huff \div 2^t.drop
      placed == [t EXCEPT !.table = Forced([i \in 1 .. Len(@) |-> IF found(i) THEN here ELSE @[i]]),
                          !.huff = NextCode(@, len), !.sym = @ + 1]
      nextLen == t.lens[t.sym + 2]
  IN  IF placed.sym = Len(t.work) THEN placed
      ELSE IF nextLen > t.root /\ placed.huff % 2^t.root # t.low THEN NewSubTable(placed, nextLen)
      ELSE placed

\* n codes, in two halves
RECURSIVE PlaceCodes(_, _)
PlaceCodes(t, n) ==
  IF t.ret # 0 \/ n = 0 THEN t
  ELSE IF n = 1 THEN PlaceCode(t) ELSE LET half == PlaceCodes(t, n \div 2) IN PlaceCodes(half, n - (n \div 2))

\* an incomplete code leaves one entry, of max bits
Completed(t, max) ==
  [ret |-> t.ret, bits |-> t.root,
   table |-> CASE t.ret # 0 -> <<>>
               [] t.ret = 0 /\ t.huff = 0 -> t.table
               [] OTHER -> [t.table EXCEPT ![t.huff + 1] = Invalid(max)]]

\* [ret, table, bits]; 0 is success, -1 an invalid code, 1 not enough room
inflate_table(type, lens, bits) ==
  LET coded == SelectSeq([n \in 1 .. Len(lens) |-> n - 1], LAMBDA n : lens[n + 1] # 0)
      sorted[l \in 0 .. MAXBITS] ==
        IF l = 0 THEN <<>> ELSE LET shorter == sorted[l - 1]
                                IN  shorter \o SelectSeq(coded, LAMBDA n : lens[n + 1] = l)
      work == sorted[MAXBITS]
      ofLength(l) == Len(SelectSeq(work, LAMBDA n : lens[n + 1] = l))
      left[l \in 0 .. MAXBITS] == IF l = 0 THEN 1 ELSE LET fewer == left[l - 1] IN 2 * fewer - ofLength(l)
      min == lens[work[1] + 1]
      max == lens[Last(work) + 1]
      root == LET most == Least(bits, max) IN IF most < min THEN min ELSE most
      start == [type |-> type, work |-> work, lens |-> Forced([i \in 1 .. Len(work) |-> lens[work[i] + 1]]),
                root |-> root, table |-> Forced([i \in 1 .. 2^root |-> Invalid(0)]), ret |-> 0, sym |-> 0,
                huff |-> 0, next |-> 0, curr |-> root, drop |-> 0, low |-> -1]
  IN  IF work = <<>> THEN [ret |-> 0, table |-> <<Invalid(1), Invalid(1)>>, bits |-> 1]
      ELSE IF \/ \E l \in 1 .. MAXBITS : left[l] < 0
              \/ left[MAXBITS] > 0 /\ (type = "CODES" \/ max # 1)
      THEN [ret |-> -1, table |-> <<>>, bits |-> bits]
      ELSE IF TooMany(type, 2^root) THEN [ret |-> 1, table |-> <<>>, bits |-> bits]
      ELSE Completed(PlaceCodes(start, Len(work)), max)

(***************************************************************************)
(* The fixed codes: inffixed.h holds the tables that buildtables builds    *)
(* (and marks the lengths 286 and 287, which do not occur, with 64).       *)
(***************************************************************************)
lenfix == inflate_table("LENS", [n \in 1 .. 288 |-> CASE n <= 144 -> 8 [] n > 144 /\ n <= 256 -> 9
                                                      [] n > 256 /\ n <= 280 -> 7 [] OTHER -> 8], 9).table
distfix == inflate_table("DISTS", [n \in 1 .. 32 |-> 5], 5).table
=============================================================================
