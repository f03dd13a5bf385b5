----------------------------- MODULE DeflateTrees -----------------------------
(***************************************************************************)
(* The second half of CNIOExtrasZlib's compressor, trees.c: how a block of *)
(* literals and matches becomes bits, and how bits become pending bytes.   *)
(*                                                                         *)
(* The state is the record s of deflate_state.  Here it is used for        *)
(*   pending, pending_out  the bytes of pending_buf not yet taken, and     *)
(*                         where in pending_buf the first of them is       *)
(*   bi, bi_used           the bits of bi_buf, first to be sent first      *)
(*   sym                   the symbols of the block, <<distance, lc>>      *)
(* and for two history variables: torn, that bytes were put although       *)
(* pending_out had moved, and overrun, that bytes were put over symbols    *)
(* still to be read or beyond the end of pending_buf.                      *)
(* A Huffman tree is the sequence of its codes, code n at n + 1, and a     *)
(* code the sequence of its bits.                                          *)
(***************************************************************************)
EXTENDS Integers, Sequences, SequencesExt, FiniteSetsExt

LENGTH_CODES == 29
LITERALS == 256
L_CODES == LITERALS + 1 + LENGTH_CODES
D_CODES == 30
BL_CODES == 19
MAX_BITS == 15
MAX_BL_BITS == 7
END_BLOCK == 256
REP_3_6 == 16
REPZ_3_10 == 17
REPZ_11_138 == 18
Buf_size == 16
STORED_BLOCK == 0
STATIC_TREES == 1
DYN_TREES == 2
MIN_MATCH == 3

Z_FIXED == 4
Z_BINARY == 0
Z_TEXT == 1
Z_UNKNOWN == 2

extra_lbits == <<0,0,0,0,0,0,0,0,1,1,1,1,2,2,2,2,3,3,3,3,4,4,4,4,5,5,5,5,0>>
extra_dbits == <<0,0,0,0,1,1,2,2,3,3,4,4,5,5,6,6,7,7,8,8,9,9,10,10,11,11,12,12,13,13>>
extra_blbits == <<0,0,0,0,0,0,0,0,0,0,0,0,0,0,0,0,2,3,7>>
bl_order == <<16,17,18,0,8,7,9,6,10,5,11,4,12,3,13,2,14,1,15>>

Strict(seq) == SubSeq(seq, 1, Len(seq))  \* the same sequence, evaluated

Accumulate(op(_, _), base, seq) ==  \* op over the elements, the first one first
  LET upTo[i \in 0 .. Len(seq)] ==
        IF i = 0 THEN base ELSE LET before == upTo[i - 1] IN op(before, seq[i])
  IN  upTo[Len(seq)]
Total(seq) == Accumulate(LAMBDA a, b : a + b, 0, seq)

\* the low n bits of v, least significant first
Bits(v, n) == Strict([i \in 1 .. n |-> (v \div 2^(i - 1)) % 2])
\* a Huffman code is sent from its most significant bit (bi_reverse)
bi_reverse(code, len) == Reverse(Bits(code, len))
ByteOf(bits) == Accumulate(LAMBDA v, b : 2 * v + b, 0, Reverse(bits))
BytesOf(bits) == Strict([i \in 1 .. (Len(bits) + 7) \div 8 |->
                           ByteOf(SubSeq(bits, 8 * i - 7, IF 8 * i < Len(bits) THEN 8 * i ELSE Len(bits)))])

(***************************************************************************)
(* Bytes and bits.                                                         *)
(***************************************************************************)
pending_buf_size(s) == 4 * s.lit_bufsize  \* LIT_BUFS

put_bytes(s, bytes) ==
  [s EXCEPT !.pending = @ \o bytes,
            !.torn = @ \/ (bytes # <<>> /\ s.pending_out # 0),
            !.overrun = @ \/ Len(s.pending) + Len(bytes) > pending_buf_size(s)]

put_short(s, w) == put_bytes(s, <<w % 256, w \div 256>>)

send_bits(s, bits) ==
  LET all == s.bi \o bits
      out == IF Len(all) > Buf_size THEN Buf_size * ((Len(all) - 1) \div Buf_size) ELSE 0
  IN  IF out = 0 THEN [s EXCEPT !.bi = all]
      ELSE put_bytes([s EXCEPT !.bi = SubSeq(all, out + 1, Len(all))], BytesOf(SubSeq(all, 1, out)))

bi_flush(s) ==
  LET out == IF Len(s.bi) = 16 THEN 16 ELSE IF Len(s.bi) >= 8 THEN 8 ELSE 0
  IN  put_bytes([s EXCEPT !.bi = SubSeq(@, out + 1, Len(@))], BytesOf(SubSeq(s.bi, 1, out)))

bi_windup(s) ==
  put_bytes([s EXCEPT !.bi = <<>>, !.bi_used = ((Len(s.bi) - 1) % 8) + 1], BytesOf(s.bi))

(***************************************************************************)
(* Codes from lengths, and the trees and tables that never change.         *)
(***************************************************************************)
FirstCodes(lens) ==  \* the first code of each length 1..MAX_BITS
  LET used == SelectSeq(lens, LAMBDA l : l # 0)
      bl_count(bits) == Len(SelectSeq(used, LAMBDA l : l = bits))
      first[bits \in 1 .. MAX_BITS] ==
        IF bits = 1 THEN 0 ELSE LET prev == first[bits - 1] IN 2 * (prev + bl_count(bits - 1))
  IN  Strict(first)

\* codes of the same length count up from the first
gen_codes(lens) ==
  LET first == FirstCodes(lens)
      before(n) == Len(SelectSeq(SubSeq(lens, 1, n - 1), LAMBDA l : l = lens[n]))
  IN  Strict([n \in 1 .. Len(lens) |->
                IF lens[n] = 0 THEN <<>> ELSE bi_reverse(first[lens[n]] + before(n), lens[n])])

base_length ==
  Strict([c \in 1 .. LENGTH_CODES |->
            IF c = LENGTH_CODES THEN 255 ELSE Total([i \in 1 .. c - 1 |-> 2^extra_lbits[i]])])
base_dist == Strict([c \in 1 .. D_CODES |-> Total([i \in 1 .. c - 1 |-> 2^extra_dbits[i]])])

\* the code of a length - MIN_MATCH; length 258 has a code of its own
_length_code ==
  Strict([l \in 1 .. 256 |-> Max({c \in 1 .. LENGTH_CODES : base_length[c] <= l - 1}) - 1])
d_code(dist) == Max({c \in 1 .. D_CODES : base_dist[c] <= dist}) - 1  \* of a distance - 1

tr_static_init ==  \* the code lengths, those of 286 and 287 included
  Strict([n \in 1 .. L_CODES + 2 |-> CASE n <= 144 -> 8
                                       [] n > 144 /\ n <= 256 -> 9
                                       [] n > 256 /\ n <= 280 -> 7
                                       [] OTHER -> 8])
static_ltree == gen_codes(tr_static_init)
static_dtree == Strict([n \in 1 .. D_CODES |-> bi_reverse(n - 1, 5)])

\* a tree to be built: the lengths of its static codes, its extra bits and its limits
static_l_desc == [static_lens |-> tr_static_init, elems |-> L_CODES, max_length |-> MAX_BITS,
                  extra |-> Strict([n \in 1 .. L_CODES |-> IF n > LITERALS + 1
                                                           THEN extra_lbits[n - LITERALS - 1] ELSE 0])]
static_d_desc == [static_lens |-> Strict([n \in 1 .. D_CODES |-> 5]), elems |-> D_CODES,
                  max_length |-> MAX_BITS, extra |-> extra_dbits]
static_bl_desc == [static_lens |-> Strict([n \in 1 .. BL_CODES |-> 0]), elems |-> BL_CODES,
                   max_length |-> MAX_BL_BITS, extra |-> extra_blbits]

init_block(s) == [s EXCEPT !.sym = <<>>, !.matches = 0]
_tr_init(s) == init_block([s EXCEPT !.bi = <<>>, !.bi_used = 0])

(***************************************************************************)
(* Building a tree.  t holds the frequency, depth and father of each node, *)
(* node n at n + 1, the heap, and the nodes taken from it, last one first. *)
(***************************************************************************)
smaller(t, n, m) ==
  \/ t.freq[n + 1] < t.freq[m + 1]
  \/ t.freq[n + 1] = t.freq[m + 1] /\ t.depth[n + 1] <= t.depth[m + 1]

SmallerSon(t, heap, left) ==
  IF left < Len(heap) /\ smaller(t, heap[left + 1], heap[left]) THEN left + 1 ELSE left

RECURSIVE Sink(_, _, _, _)
SinkPast(t, heap, k, v, j) ==
  IF j > Len(heap) \/ smaller(t, v, heap[j]) THEN [heap EXCEPT ![k] = v]
  ELSE Sink(t, [heap EXCEPT ![k] = heap[j]], j, v)
Sink(t, heap, k, v) == SinkPast(t, heap, k, v, SmallerSon(t, heap, 2 * k))

pqdownheap(t, k) == [t EXCEPT !.heap = Sink(t, @, k, @[k])]

pqremove(t) == pqdownheap([t EXCEPT !.heap = [Front(@) EXCEPT ![1] = Last(t.heap)]], 1)

RECURSIVE Heapify(_, _)
Heapify(t, n) == IF n = 0 THEN t ELSE Heapify(pqdownheap(t, n), n - 1)

\* the first node of the heap, and the first of heap, without it, get a father
Join(t, heap) ==
  LET n == t.heap[1]
      m == heap[1]
      node == Len(t.freq)
  IN  [t EXCEPT !.freq = Append(@, @[n + 1] + @[m + 1]),
                !.depth = Append(@, Max({@[n + 1], @[m + 1]}) + 1),
                !.dad = [Append(@, -1) EXCEPT ![n + 1] = node, ![m + 1] = node],
                !.heap = [heap EXCEPT ![1] = node],
                !.sorted = <<m, n>> \o @]

RECURSIVE JoinAll(_)
JoinAll(t) ==  \* the two least frequent nodes are joined until one is left
  IF Len(t.heap) < 2 THEN [t EXCEPT !.sorted = t.heap \o @]
  ELSE JoinAll(pqdownheap(Join(t, pqremove(t).heap), 1))

MoveLeaf(bl_count, bits, max_length) ==  \* one leaf moves down to be the brother of another
  [[[bl_count EXCEPT ![bits] = @ - 1] EXCEPT ![bits + 1] = @ + 2] EXCEPT ![max_length] = @ - 1]

RECURSIVE MoveDown(_, _, _)
MoveDown(bl_count, overflow, max_length) ==
  IF overflow <= 0 THEN bl_count
  ELSE MoveDown(MoveLeaf(bl_count, Max({b \in 1 .. max_length - 1 : bl_count[b] # 0}), max_length),
                overflow - 2, max_length)

\* the length of the code of each node, within max_length
gen_bitlen(t, desc) ==
  LET ofNode(acc, n) ==
        LET bits == acc.len[t.dad[n + 1] + 1] + 1
        IN  [len |-> [acc.len EXCEPT ![n + 1] = Min({bits, desc.max_length})],
             overflow |-> IF bits > desc.max_length THEN acc.overflow + 1 ELSE acc.overflow]
      zero == Strict([n \in 1 .. Len(t.freq) |-> 0])
      first == Accumulate(ofNode, [len |-> zero, overflow |-> 0], Tail(t.sorted))
      leaves == SelectSeq(t.sorted, LAMBDA n : n < desc.elems)
      bl_count == [b \in 1 .. desc.max_length |->
                     Len(SelectSeq(leaves, LAMBDA n : first.len[n + 1] = b))]
      counts == MoveDown(Strict(bl_count), first.overflow, desc.max_length)
      ranked == FlattenSeq([b \in 1 .. desc.max_length |-> [i \in 1 .. counts[b] |-> b]])
      again == Accumulate(LAMBDA len, i : [len EXCEPT ![leaves[i] + 1] = ranked[i]],
                        zero, [i \in 1 .. Len(leaves) |-> i])
  IN  SubSeq(IF first.overflow = 0 THEN first.len ELSE again, 1, desc.elems)

\* a tree has at least two codes
ForcedCodes(used) ==
  CASE Len(used) >= 2 -> <<>>
    [] Len(used) = 1 -> IF Last(used) < 2 THEN <<Last(used) + 1>> ELSE <<0>>
    [] Len(used) = 0 -> <<0, 1>>

\* the leaves to begin with; forced are those that no symbol needs
Leaves(freq, used, forced, elems) ==
  [freq |-> Accumulate(LAMBDA f, n : [f EXCEPT ![n + 1] = 1], freq, forced),
   depth |-> Strict([n \in 1 .. elems |-> 0]), dad |-> Strict([n \in 1 .. elems |-> -1]),
   heap |-> used \o forced, sorted |-> <<>>, forced |-> forced]

\* the codes of these lengths, and what the block's codes cost with them and with the static ones
TreeOf(leaves, lens, desc) ==
  LET max_code == Max({n \in 0 .. desc.elems - 1 : leaves.freq[n + 1] # 0})
      cost(len) == Total([i \in 1 .. Len(leaves.heap) |->
                     LET n == leaves.heap[i] + 1 IN leaves.freq[n] * (len[n] + desc.extra[n])])
      forcedCost(len) == Total([i \in 1 .. Len(leaves.forced) |-> len[leaves.forced[i] + 1]])
  IN  [lens |-> SubSeq(lens, 1, max_code + 1), codes |-> gen_codes(SubSeq(lens, 1, max_code + 1)),
       opt_len |-> cost(lens) - Len(leaves.forced),
       static_len |-> cost(desc.static_lens) - forcedCost(desc.static_lens)]

TreeFrom(leaves, desc) ==
  TreeOf(leaves, gen_bitlen(JoinAll(Heapify(leaves, Len(leaves.heap) \div 2)), desc), desc)

build_tree(freq, desc) ==
  LET used == SelectSeq([n \in 1 .. desc.elems |-> n - 1], LAMBDA n : freq[n + 1] # 0)
  IN  TreeFrom(Leaves(freq, used, ForcedCodes(used), desc.elems), desc)

(***************************************************************************)
(* The lengths of a tree's codes as symbols of the bit length tree: a run  *)
(* of equal lengths is one length and repetitions, <<symbol, count bits>>. *)
(***************************************************************************)
RunSymbols(curlen, prevlen, count, min_count) ==
  CASE count < min_count -> [i \in 1 .. count |-> <<curlen, <<>> >>]
    [] count >= min_count /\ curlen # 0 /\ curlen # prevlen ->
         << <<curlen, <<>> >>, <<REP_3_6, Bits(count - 4, 2)>> >>
    [] count >= min_count /\ curlen # 0 /\ curlen = prevlen -> << <<REP_3_6, Bits(count - 3, 2)>> >>
    [] count >= min_count /\ curlen = 0 /\ count <= 10 -> << <<REPZ_3_10, Bits(count - 3, 3)>> >>
    [] OTHER -> << <<REPZ_11_138, Bits(count - 11, 7)>> >>

RunCount(lens, n, max_count) ==
  LET ends(k) == k = max_count \/ n + k > Len(lens) \/ lens[n + k] # lens[n]
  IN  CHOOSE k \in 1 .. max_count : ends(k) /\ \A j \in 1 .. k - 1 : ~ends(j)

RECURSIVE RunsWith(_, _, _, _, _)
Runs(lens, n, prevlen, max_count, min_count) ==  \* from code n on
  RunsWith(lens, n, prevlen, RunCount(lens, n, max_count), min_count)
RunsWith(lens, n, prevlen, count, min_count) ==
  LET curlen == lens[n]
      nextlen == lens[n + count]
  IN  RunSymbols(curlen, prevlen, count, min_count) \o
      (IF n + count > Len(lens) THEN <<>>
       ELSE Runs(lens, n + count, curlen, IF nextlen = 0 THEN 138 ELSE IF curlen = nextlen THEN 6 ELSE 7,
                 IF nextlen = 0 \/ curlen = nextlen THEN 3 ELSE 4))

TreeRuns(lens) == Runs(lens, 1, -1, IF lens[1] = 0 THEN 138 ELSE 7, IF lens[1] = 0 THEN 3 ELSE 4)

\* how often each symbol of the bit length tree is needed
scan_tree(runs) ==
  Accumulate(LAMBDA freq, run : [freq EXCEPT ![run[1] + 1] = @ + 1],
           Strict([n \in 1 .. BL_CODES |-> 0]), runs)

send_tree(s, runs, bl_codes) ==
  send_bits(s, FlattenSeq([i \in 1 .. Len(runs) |-> bl_codes[runs[i][1] + 1] \o runs[i][2]]))

\* the tree of the bit lengths; max_blindex is the last of bl_order to be sent
BlTree(tree) ==
  LET lenOf(n) == IF n < Len(tree.lens) THEN tree.lens[n + 1] ELSE 0
      max_blindex == Max({3} \cup {i \in 4 .. BL_CODES - 1 : lenOf(bl_order[i + 1]) # 0})
  IN  [codes |-> tree.codes, max_blindex |-> max_blindex,
       lens |-> [i \in 1 .. max_blindex + 1 |-> lenOf(bl_order[i])],
       opt_len |-> tree.opt_len + 3 * (max_blindex + 1) + 5 + 5 + 4]

build_bl_tree(runs) == BlTree(build_tree(scan_tree(runs), static_bl_desc))

\* the trees of a block: of its literals and lengths, of its distances, of the bit lengths of both
TreesOf(ltree, dtree, lruns, druns) ==
  [ltree |-> ltree, dtree |-> dtree, lruns |-> lruns, druns |-> druns, bltree |-> build_bl_tree(lruns \o druns)]
Trees(ltree, dtree) == TreesOf(ltree, dtree, TreeRuns(ltree.lens), TreeRuns(dtree.lens))

send_all_trees(s, t) ==
  LET counts == Bits(Len(t.ltree.lens) - 257, 5) \o Bits(Len(t.dtree.lens) - 1, 5)
                \o Bits(t.bltree.max_blindex + 1 - 4, 4)
      lens == FlattenSeq([i \in 1 .. Len(t.bltree.lens) |-> Bits(t.bltree.lens[i], 3)])
  IN  send_tree(send_tree(send_bits(s, counts \o lens), t.lruns, t.bltree.codes), t.druns, t.bltree.codes)

(***************************************************************************)
(* Blocks.                                                                 *)
(***************************************************************************)
_tr_stored_block(s, buf, last) ==
  LET header == bi_windup(send_bits(s, <<last>> \o Bits(STORED_BLOCK, 2)))
  IN  put_bytes(put_short(put_short(header, Len(buf)), 65535 - Len(buf)), buf)

_tr_flush_bits(s) == bi_flush(s)

_tr_align(s) == bi_flush(send_bits(s, <<0>> \o Bits(STATIC_TREES, 2) \o static_ltree[END_BLOCK + 1]))

\* the bits of one symbol: a literal, or a length and a distance
SymbolBits(symbol, ltree, dtree) ==
  LET dist == symbol[1]
      lc == symbol[2]
      lcode == _length_code[lc + 1]
      dcode == d_code(dist - 1)
  IN  IF dist = 0 THEN ltree[lc + 1]
      ELSE ltree[lcode + LITERALS + 2] \o Bits(lc - base_length[lcode + 1], extra_lbits[lcode + 1])
           \o dtree[dcode + 1] \o Bits(dist - 1 - base_dist[dcode + 1], extra_dbits[dcode + 1])

\* the symbols are read from the part of pending_buf that the bytes grow into
ReadSymbol(s, i) == [s EXCEPT !.overrun = @ \/ Len(s.pending) >= s.lit_bufsize + 3 * i]
compress_block(s, ltree, dtree) ==
  LET send(acc, i) == ReadSymbol(send_bits(acc, SymbolBits(s.sym[i], ltree, dtree)), i)
  IN  send_bits(Accumulate(send, s, [i \in 1 .. Len(s.sym) |-> i]), ltree[END_BLOCK + 1])

LiteralFreq(sym) ==
  Accumulate(LAMBDA freq, x :
             [freq EXCEPT ![IF x[1] = 0 THEN x[2] + 1 ELSE _length_code[x[2] + 1] + LITERALS + 2] = @ + 1],
           Strict([n \in 1 .. L_CODES |-> IF n = END_BLOCK + 1 THEN 1 ELSE 0]), sym)
DistanceFreq(sym) ==
  Accumulate(LAMBDA freq, x : IF x[1] = 0 THEN freq ELSE [freq EXCEPT ![d_code(x[1] - 1) + 1] = @ + 1],
           Strict([n \in 1 .. D_CODES |-> 0]), sym)

block_listed == 0 .. 6 \cup 14 .. 25 \cup 28 .. 31
detect_data_type(freq) ==
  IF \E n \in block_listed : freq[n + 1] # 0 THEN Z_BINARY
  ELSE IF \E n \in {9, 10, 13} \cup 32 .. LITERALS - 1 : freq[n + 1] # 0 THEN Z_TEXT ELSE Z_BINARY

Typed(s, freq) ==
  IF s.level > 0 /\ s.data_type = Z_UNKNOWN THEN [s EXCEPT !.data_type = detect_data_type(freq)] ELSE s

EndBlock(s, last) == IF last = 1 THEN bi_windup(s) ELSE s

\* The block as it is cheapest: stored, with the static trees or with its own, t.
\* buf holds its bytes, if they are still in the window.
FlushCheapest(s, t, inWindow, buf, stored_len, last) ==
  LET static_lenb == (t.ltree.static_len + t.dtree.static_len + 3 + 7) \div 8
      dyn_lenb == (t.ltree.opt_len + t.dtree.opt_len + t.bltree.opt_len + 3 + 7) \div 8
      useStatic == static_lenb <= dyn_lenb \/ s.strategy = Z_FIXED
      opt_lenb == IF s.level = 0 THEN stored_len + 5 ELSE IF useStatic THEN static_lenb ELSE dyn_lenb
  IN  IF stored_len + 4 <= opt_lenb /\ inWindow THEN _tr_stored_block(s, buf, last)
      ELSE IF useStatic
      THEN compress_block(send_bits(s, <<last>> \o Bits(STATIC_TREES, 2)), static_ltree, static_dtree)
      ELSE compress_block(send_all_trees(send_bits(s, <<last>> \o Bits(DYN_TREES, 2)), t),
                          t.ltree.codes, t.dtree.codes)

_tr_flush_block(s, inWindow, buf, stored_len, last) ==
  EndBlock(init_block(
    FlushCheapest(Typed(s, LiteralFreq(s.sym)),
                  Trees(build_tree(LiteralFreq(s.sym), static_l_desc),
                        build_tree(DistanceFreq(s.sym), static_d_desc)),
                  inWindow, buf, stored_len, last)), last)

_tr_tally(s, dist, lc) ==
  [s EXCEPT !.sym = Append(@, <<dist, lc>>), !.matches = IF dist = 0 THEN @ ELSE @ + 1,
            !.overrun = @ \/ s.lit_bufsize + 3 * (Len(s.sym) + 1) > pending_buf_size(s)]
\* Mutant: sym_end is the end of sym_buf
SymbolsFullAtEnd(s) == Len(s.sym) = s.lit_bufsize + 1

SymbolsFull(s) == Len(s.sym) = s.lit_bufsize - 1  \* the block must be flushed
=============================================================================
