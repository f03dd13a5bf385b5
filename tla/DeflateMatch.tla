----------------------------- MODULE DeflateMatch -----------------------------
(***************************************************************************)
(* The first half of CNIOExtrasZlib's compressor, deflate.c: the window,   *)
(* the hash chains, the search for matches and the five ways to turn input *)
(* into blocks.                                                            *)
(*                                                                         *)
(* The state is the record s of deflate_state and its stream.  next_in is  *)
(* the input of this call not yet read, next_out the output of this call,  *)
(* window, prev and head are sequences with position p at p + 1.           *)
(* The sizes that fix what a window, a match, a hash table and a symbol    *)
(* buffer hold are constants: the code has them in the comments.           *)
(***************************************************************************)
EXTENDS DeflateTrees, Checksums

CONSTANTS MAX_MATCH,   \* 258
          TOO_FAR,     \* 4096
          MAX_STORED,  \* 65535
          WShift,      \* w_size is 2^(w_bits - WShift), 0
          LitShift,    \* lit_bufsize is 2^(memLevel + LitShift), 6
          HashShift    \* hash_bits is memLevel + HashShift, 7

ASSUME DeflateAssumption ==
  /\ MAX_MATCH \in 10 .. 258 /\ (MAX_MATCH - 2) % 8 = 0  \* "MAX_MATCH-2 multiple of" 8
  /\ {TOO_FAR, MAX_STORED, LitShift, HashShift} \subseteq Nat \ {0} /\ WShift \in Nat

Z_NO_FLUSH == 0
Z_PARTIAL_FLUSH == 1
Z_SYNC_FLUSH == 2
Z_FULL_FLUSH == 3
Z_FINISH == 4
Z_BLOCK == 5
Z_FILTERED == 1
Z_HUFFMAN_ONLY == 2
Z_RLE == 3
NIL == 0

MIN_LOOKAHEAD == MAX_MATCH + MIN_MATCH + 1
w_size(s) == 2^(s.w_bits - WShift)
window_size(s) == 2 * w_size(s)
MAX_DIST(s) == w_size(s) - MIN_LOOKAHEAD
hash_size(s) == 2^s.hash_bits
hash_shift(s) == (s.hash_bits + MIN_MATCH - 1) \div MIN_MATCH
Least(a, b) == IF a > b THEN b ELSE a
Same(n, x) == Strict([i \in 1 .. n |-> x])

\* good_length, max_lazy, nice_length, max_chain and the function of each level
configuration_table(level) ==
  << <<0, 0, 0, 0, "stored">>, <<4, 4, 8, 4, "fast">>, <<4, 5, 16, 8, "fast">>, <<4, 6, 32, 32, "fast">>,
     <<4, 4, 16, 16, "slow">>, <<8, 16, 32, 32, "slow">>, <<8, 16, 128, 128, "slow">>,
     <<8, 32, 128, 256, "slow">>, <<32, 128, 258, 1024, "slow">>, <<32, 258, 258, 4096, "slow">> >>[level + 1]

Window(s, from, to) == SubSeq(s.window, from + 1, to)  \* the bytes at from .. to - 1
At(s, p) == s.window[p + 1]
Written(window, p, bytes) == SubSeq(window, 1, p) \o bytes \o SubSeq(window, p + Len(bytes) + 1, Len(window))

UPDATE_HASH(s, h, c) == XorBytes[(h * 2^hash_shift(s)) % hash_size(s)][c % hash_size(s)]

\* the string at str becomes the head of its hash chain
IntoChain(s, str, h) ==
  [s EXCEPT !.ins_h = h, !.prev[(str % w_size(s)) + 1] = s.head[h + 1], !.head[h + 1] = str]
INSERT_STRING(s, str) == IntoChain(s, str, UPDATE_HASH(s, s.ins_h, At(s, str + MIN_MATCH - 1)))

CLEAR_HASH(s) == [s EXCEPT !.head = Same(hash_size(s), NIL), !.slid = FALSE]

slide_hash(s) ==
  LET slide(m) == IF m >= w_size(s) THEN m - w_size(s) ELSE NIL
  IN  [s EXCEPT !.head = Strict([i \in 1 .. Len(@) |-> slide(@[i])]),
                !.prev = Strict([i \in 1 .. Len(@) |-> slide(@[i])]), !.slid = TRUE]

\* takes up to size bytes of the input, through the check value
read_buf(s, size) ==
  LET bytes == SubSeq(s.next_in, 1, Least(Len(s.next_in), size))
  IN  [bytes |-> bytes,
       s |-> IF bytes = <<>> THEN s
             ELSE [s EXCEPT !.next_in = SubSeq(@, Len(bytes) + 1, Len(@)),
                            !.adler = CASE s.wrap = 1 -> adler32(@, bytes)
                                        [] s.wrap = 2 -> crc32(@, bytes)
                                        [] OTHER -> @,
                            !.total_in = @ + Len(bytes)]]

\* the strings that a flush left out of the hash table, now that their third byte is there
RECURSIVE InsertLeft(_, _)
InsertLeft(s, str) ==
  IF s.insert = 0 THEN s
  ELSE LET r == [INSERT_STRING(s, str) EXCEPT !.insert = @ - 1]
       IN  IF r.lookahead + r.insert < MIN_MATCH THEN r ELSE InsertLeft(r, str + 1)

InitHash(s) ==
  IF s.lookahead + s.insert < MIN_MATCH THEN s
  ELSE LET str == s.strstart - s.insert
       IN  InsertLeft([s EXCEPT !.ins_h = UPDATE_HASH(s, At(s, str) % hash_size(s), At(s, str + 1))], str)

\* the upper half of the window moves to the lower one
SlideWindow(s, more) ==
  LET w == w_size(s)
      start == s.strstart - w
  IN  slide_hash([s EXCEPT !.window = Written(@, 0, Window(s, w, 2 * w - more)),
                           !.match_start = @ - w, !.strstart = start, !.block_start = @ - w,
                           !.insert = Least(@, start)])

\* what was got from the input goes behind the lookahead
LookFurther(s, got) ==
  InitHash([got.s EXCEPT !.window = Written(@, s.strstart + s.lookahead, got.bytes),
                         !.lookahead = @ + Len(got.bytes)])

RECURSIVE ReadMore(_)
ReadOn(s) == IF s.lookahead < MIN_LOOKAHEAD /\ s.next_in # <<>> THEN ReadMore(s) ELSE s
ReadInto(s, more) == IF s.next_in = <<>> THEN s ELSE ReadOn(LookFurther(s, read_buf(s, more)))
ReadMore(s) ==
  LET free == window_size(s) - s.lookahead - s.strstart
      slides == s.strstart >= w_size(s) + MAX_DIST(s)
  IN  ReadInto(IF slides THEN SlideWindow(s, free) ELSE s, IF slides THEN free + w_size(s) ELSE free)

\* MAX_MATCH bytes behind the data are zero, once in the life of the window
ZeroBehind(s) ==
  LET curr == s.strstart + s.lookahead
      from == IF s.high_water < curr THEN curr ELSE s.high_water
      to == Least(curr + MAX_MATCH, window_size(s))
  IN  IF s.high_water >= window_size(s) \/ from >= curr + MAX_MATCH THEN s
      ELSE [s EXCEPT !.window = Written(@, from, Same(to - from, 0)), !.high_water = to]

fill_window(s) == ZeroBehind(ReadMore(s))

(***************************************************************************)
(* The longest match: the chain of the strings with the same hash, cut     *)
(* where it becomes too old.  Bytes behind the input are compared too.     *)
(* The third byte is not compared: with the first two and the hash equal,  *)
(* it is.                                                                  *)
(***************************************************************************)
MatchEnd(s, cur) ==
  LET differ == {k \in 3 .. MAX_MATCH : At(s, s.strstart + k) # At(s, cur + k)}
  IN  IF differ = {} THEN MAX_MATCH ELSE Min(differ)

RECURSIVE Chain(_, _, _, _, _)
Chain(s, cur, chain_length, nice_match, best) ==  \* best: [len, start]
  LET worth == \A k \in {best.len, best.len - 1, 0, 1} : At(s, cur + k) = At(s, s.strstart + k)
      len == IF worth THEN MatchEnd(s, cur) ELSE 0
      better == IF len > best.len THEN [len |-> len, start |-> cur] ELSE best
      limit == IF s.strstart > MAX_DIST(s) THEN s.strstart - MAX_DIST(s) ELSE NIL
      next == s.prev[(cur % w_size(s)) + 1]
  IN  IF (len > best.len /\ len >= nice_match) \/ next <= limit \/ chain_length = 1 THEN better
      ELSE Chain(s, next, chain_length - 1, nice_match, better)

longest_match(s, cur_match) ==
  LET chain_length == IF s.prev_length >= s.good_match THEN s.max_chain_length \div 4 ELSE s.max_chain_length
      best == Chain(s, cur_match, chain_length, Least(s.nice_match, s.lookahead),
                    [len |-> s.prev_length, start |-> s.match_start])
  IN  [s EXCEPT !.match_length = Least(best.len, s.lookahead), !.match_start = best.start]

(***************************************************************************)
(* Output.                                                                 *)
(***************************************************************************)
TakePending(s) ==
  LET len == Least(Len(s.pending), s.avail_out)
      left == SubSeq(s.pending, len + 1, Len(s.pending))
  IN  [s EXCEPT !.next_out = @ \o SubSeq(s.pending, 1, len), !.avail_out = @ - len, !.total_out = @ + len,
                !.pending = left, !.pending_out = IF left = <<>> THEN 0 ELSE @ + len]
flush_pending(s) == TakePending(_tr_flush_bits(s))

FLUSH_BLOCK_ONLY(s, last) ==
  flush_pending([_tr_flush_block(s, s.block_start >= 0, Window(s, s.block_start, s.strstart),
                                 s.strstart - s.block_start, last)
                 EXCEPT !.block_start = s.strstart])

\* a block function stops, with its bstate, when the output is full
StopIfFull(s, bstate) == IF s.avail_out = 0 THEN [s EXCEPT !.bstate = bstate] ELSE s
UnlessStopped(s, step(_)) == IF s.bstate # "running" THEN s ELSE step(s)

FLUSH_BLOCK(s, last) ==
  StopIfFull(FLUSH_BLOCK_ONLY(s, last), IF last = 1 THEN "finish_started" ELSE "need_more")

LastBlock(s, flush) ==
  UnlessStopped(
    IF flush = Z_FINISH \/ s.sym # <<>> THEN FLUSH_BLOCK(s, IF flush = Z_FINISH THEN 1 ELSE 0) ELSE s,
    LAMBDA r : [r EXCEPT !.bstate = IF flush = Z_FINISH THEN "finish_done" ELSE "block_done"])

(***************************************************************************)
(* The block functions.  Each runs until bstate says why it stops.         *)
(***************************************************************************)
Refilled(s, enough) == IF s.lookahead < enough THEN fill_window(s) ELSE s
NeedMore(s) == [s EXCEPT !.bstate = "need_more"]

\* Mutant: only Z_FINISH makes do with less
EnoughUnlessFinish(s, enough, flush) ==
  IF s.lookahead < enough /\ flush # Z_FINISH THEN NeedMore(s) ELSE s

\* enough lookahead, except at the end of the input
Enough(s, enough, flush) == IF s.lookahead < enough /\ flush = Z_NO_FLUSH THEN NeedMore(s) ELSE s
LookAhead(s, enough, flush) == Enough(Refilled(s, enough), enough, flush)

Literal(s) == [_tr_tally(s, 0, At(s, s.strstart)) EXCEPT !.lookahead = @ - 1, !.strstart = @ + 1]

FlushIfFull(s) == IF SymbolsFull(s) THEN FLUSH_BLOCK(s, 0) ELSE s

RECURSIVE InsertStrings(_, _, _)
InsertStrings(s, from, to) == IF from > to THEN s ELSE InsertStrings(INSERT_STRING(s, from), from + 1, to)

\* the string at strstart enters the hash table; hash_head is what it found there
Insert(s) ==
  LET r == INSERT_STRING(s, s.strstart)
  IN  IF s.lookahead >= MIN_MATCH THEN [s |-> r, hash_head |-> s.head[r.ins_h + 1]]
                                  ELSE [s |-> s, hash_head |-> NIL]

\* Mutant: the age of the first match is not looked at
InReachAnyAge(s, hash_head) == hash_head # NIL

InReach(s, hash_head) == hash_head # NIL /\ s.strstart - hash_head <= MAX_DIST(s)

FastMatch(s) ==
  LET len == s.match_length
      t == [_tr_tally(s, s.strstart - s.match_start, len - MIN_MATCH)
            EXCEPT !.lookahead = @ - len, !.match_length = 0, !.strstart = @ + len]
      short == len <= s.max_lazy_match /\ t.lookahead >= MIN_MATCH
  IN  IF short THEN InsertStrings(t, s.strstart + 1, s.strstart + len - 1)
      ELSE [t EXCEPT !.ins_h = UPDATE_HASH(t, At(t, t.strstart), At(t, t.strstart + 1))]

FastStep(s) == IF s.match_length >= MIN_MATCH THEN FastMatch(s) ELSE Literal(s)
FastSearch(a, i) == IF InReach(a, i.hash_head) THEN longest_match(i.s, i.hash_head) ELSE i.s

RECURSIVE deflate_fast(_, _)
deflate_fast(s, flush) ==
  UnlessStopped(LookAhead(s, MIN_LOOKAHEAD, flush), LAMBDA a :
    IF a.lookahead = 0 THEN LastBlock([a EXCEPT !.insert = Least(a.strstart, MIN_MATCH - 1)], flush)
    ELSE UnlessStopped(FlushIfFull(FastStep(FastSearch(a, Insert(a)))),
                       LAMBDA next : deflate_fast(next, flush)))

\* the match found at the previous position is taken
SlowMatch(s) ==
  LET len == s.prev_length
      max_insert == s.strstart + s.lookahead - MIN_MATCH
      t == InsertStrings(_tr_tally(s, s.strstart - 1 - s.prev_match, len - MIN_MATCH),
                         s.strstart + 1, Least(s.strstart + len - 2, max_insert))
  IN  FlushIfFull([t EXCEPT !.lookahead = @ - (len - 1), !.strstart = @ + len - 1, !.prev_length = 0,
                            !.match_available = FALSE, !.match_length = MIN_MATCH - 1])

PrevLiteral(s) == _tr_tally(s, 0, At(s, s.strstart - 1))

\* the byte at the previous position is a literal after all
SlowLiteral(s) ==
  StopIfFull([IF SymbolsFull(s) THEN FLUSH_BLOCK_ONLY(s, 0) ELSE s
              EXCEPT !.strstart = @ + 1, !.lookahead = @ - 1], "need_more")

\* a match that would cost more than literals is none
Weakened(s) ==
  IF /\ s.match_length <= 5
     /\ \/ s.strategy = Z_FILTERED
        \/ s.match_length = MIN_MATCH /\ s.strstart - s.match_start > TOO_FAR
  THEN [s EXCEPT !.match_length = MIN_MATCH - 1] ELSE s

\* the match here, and the one at the position before
SlowSearch(a, i) ==
  LET p == [i.s EXCEPT !.prev_length = a.match_length, !.prev_match = a.match_start,
                       !.match_length = MIN_MATCH - 1]
  IN  IF InReach(a, i.hash_head) /\ p.prev_length < a.max_lazy_match
      THEN Weakened(longest_match(p, i.hash_head)) ELSE p

SlowStep(s) ==
  CASE s.prev_length >= MIN_MATCH /\ s.match_length <= s.prev_length -> SlowMatch(s)
    [] ~(s.prev_length >= MIN_MATCH /\ s.match_length <= s.prev_length) /\ s.match_available ->
         SlowLiteral(PrevLiteral(s))
    [] OTHER -> [s EXCEPT !.match_available = TRUE, !.strstart = @ + 1, !.lookahead = @ - 1]

RECURSIVE deflate_slow(_, _)
deflate_slow(s, flush) ==
  UnlessStopped(LookAhead(s, MIN_LOOKAHEAD, flush), LAMBDA a :
    IF a.lookahead = 0
    THEN LastBlock([IF a.match_available THEN PrevLiteral(a) ELSE a
                    EXCEPT !.match_available = FALSE, !.insert = Least(a.strstart, MIN_MATCH - 1)], flush)
    ELSE UnlessStopped(SlowStep(SlowSearch(a, Insert(a))), LAMBDA next : deflate_slow(next, flush)))

\* a run of the previous byte, at least MIN_MATCH long
RunLength(s) ==
  LET other == {k \in 0 .. MAX_MATCH : At(s, s.strstart + k) # At(s, s.strstart - 1)}
  IN  IF s.lookahead < MIN_MATCH \/ s.strstart = 0 \/ other \cap 0 .. 2 # {} THEN 0
      ELSE Least(IF other = {} THEN MAX_MATCH ELSE Least(MAX_MATCH, Min(other)), s.lookahead)

RleStep(s, run) ==
  IF run >= MIN_MATCH
  THEN [_tr_tally(s, 1, run - MIN_MATCH) EXCEPT !.lookahead = @ - run, !.strstart = @ + run, !.match_length = 0]
  ELSE Literal([s EXCEPT !.match_length = 0])

RECURSIVE deflate_rle(_, _)
deflate_rle(s, flush) ==
  UnlessStopped(LookAhead(s, MAX_MATCH + 1, flush), LAMBDA a :
    IF a.lookahead = 0 THEN LastBlock([a EXCEPT !.insert = 0], flush)
    ELSE UnlessStopped(FlushIfFull(RleStep(a, RunLength(a))), LAMBDA next : deflate_rle(next, flush)))

RECURSIVE deflate_huff(_, _)
deflate_huff(s, flush) ==
  UnlessStopped(LookAhead(s, 1, flush), LAMBDA a :
    IF a.lookahead = 0 THEN LastBlock([a EXCEPT !.insert = 0], flush)
    ELSE UnlessStopped(FlushIfFull(Literal([a EXCEPT !.match_length = 0])),
                       LAMBDA next : deflate_huff(next, flush)))

(***************************************************************************)
(* Level 0.  Blocks go from the window and from the input to the output,   *)
(* past pending_buf; matches counts the slides that the hash table missed. *)
(***************************************************************************)
StoredHeader(s) == (Len(s.bi) + 42) \div 8  \* its bytes, with the bits before it

OneMoreSlide(s) == [s EXCEPT !.matches = IF @ < 2 THEN @ + 1 ELSE @]

Emit(s, bytes) ==
  [s EXCEPT !.next_out = @ \o bytes, !.avail_out = @ - Len(bytes), !.total_out = @ + Len(bytes)]

EmitRead(got) == Emit(got.s, got.bytes)

\* a block of len bytes goes straight to the output
CopyStored(s, len, left, last) ==
  LET empty == _tr_stored_block(s, <<>>, last)
      head == Len(empty.pending) - 4
      sized == [empty EXCEPT !.pending = SubSeq(@, 1, head) \o
                  <<len % 256, len \div 256, 255 - (len % 256), 255 - (len \div 256)>>]
      old == Least(left, len)
      fromWindow == [Emit(flush_pending(sized), Window(s, s.block_start, s.block_start + old))
                     EXCEPT !.block_start = @ + old]
  IN  EmitRead(read_buf(fromWindow, len - old))

RECURSIVE CopyBlocks(_, _, _)
CopyBlocks(s, flush, min_block) ==  \* [s, last]
  LET room == s.avail_out - StoredHeader(s)
      left == s.strstart - s.block_start
      all == left + Len(s.next_in)
      len == Least(Least(MAX_STORED, all), room)
      worthy == \/ len >= min_block
                \/ /\ len # 0 \/ flush = Z_FINISH
                   /\ flush # Z_NO_FLUSH
                   /\ len = all
      last == IF flush = Z_FINISH /\ len = all THEN 1 ELSE 0
      next == CopyStored(s, len, left, last)
  IN  IF room < 0 \/ ~worthy THEN [s |-> s, last |-> 0]
      ELSE IF last = 1 THEN [s |-> next, last |-> 1]
      ELSE CopyBlocks(next, flush, min_block)

Initialized(s) == [s EXCEPT !.high_water = IF @ < s.strstart THEN s.strstart ELSE @]

\* the window keeps what was copied, bytes, as history
RememberCopied(s, bytes) ==
  LET w == w_size(s)
      used == Len(bytes)
      slides == window_size(s) - s.strstart <= used
      slid == IF slides
              THEN OneMoreSlide([s EXCEPT !.window = Written(@, 0, Window(s, w, s.strstart)),
                                          !.strstart = @ - w, !.insert = Least(@, s.strstart - w)])
              ELSE s
  IN  Initialized(
        CASE used = 0 -> s
          [] used >= w -> [s EXCEPT !.matches = 2, !.strstart = w, !.insert = w, !.block_start = w,
                             !.window = Written(@, 0, SubSeq(bytes, used - w + 1, used))]
          [] OTHER -> [slid EXCEPT !.window = Written(@, slid.strstart, bytes),
                         !.strstart = @ + used, !.block_start = slid.strstart + used,
                         !.insert = @ + Least(used, w - @)])

\* the rest of the input waits in the window
StoredSlide(s) ==
  LET w == w_size(s)
  IN  IF Len(s.next_in) > window_size(s) - s.strstart /\ s.block_start >= w
      THEN OneMoreSlide([s EXCEPT !.block_start = @ - w, !.strstart = @ - w,
                           !.window = Written(@, 0, Window(s, w, s.strstart)),
                           !.insert = Least(@, s.strstart - w)])
      ELSE s
StoredBehind(s, got) ==
  LET n == Len(got.bytes)
  IN  Initialized([got.s EXCEPT !.window = Written(@, s.strstart, got.bytes), !.strstart = @ + n,
                                !.insert = @ + Least(n, w_size(s) - @)])
FillRest(s) == StoredBehind(s, read_buf(s, window_size(s) - s.strstart))
FillStored(s) == FillRest(StoredSlide(s))

\* a block goes to pending_buf when the output had no room for it
PendStored(s, flush) ==
  LET have == Least(pending_buf_size(s) - StoredHeader(s), MAX_STORED)
      left == s.strstart - s.block_start
      len == Least(left, have)
      worthy == \/ left >= Least(have, w_size(s))
                \/ /\ left # 0 \/ flush = Z_FINISH
                   /\ flush # Z_NO_FLUSH /\ s.next_in = <<>> /\ left <= have
      last == IF worthy /\ flush = Z_FINISH /\ s.next_in = <<>> /\ len = left THEN 1 ELSE 0
      sent == flush_pending([_tr_stored_block(s, Window(s, s.block_start, s.block_start + len), last)
                             EXCEPT !.block_start = @ + len])
      r == IF worthy THEN sent ELSE s
  IN  [r EXCEPT !.bi_used = IF last = 1 THEN 8 ELSE @,
                !.bstate = IF last = 1 THEN "finish_started" ELSE "need_more"]

AfterCopies(copied, input) ==
  LET r == RememberCopied(copied.s, SubSeq(input, 1, Len(input) - Len(copied.s.next_in)))
  IN  IF copied.last = 1 THEN [r EXCEPT !.bi_used = 8, !.bstate = "finish_done"] ELSE r

deflate_stored(s, flush) ==
  UnlessStopped(AfterCopies(CopyBlocks(s, flush, Least(pending_buf_size(s) - 5, w_size(s))), s.next_in), LAMBDA r :
    IF flush \notin {Z_NO_FLUSH, Z_FINISH} /\ r.next_in = <<>> /\ r.strstart = r.block_start
    THEN [r EXCEPT !.bstate = "block_done"]
    ELSE PendStored(FillStored(r), flush))

BlockFunction(s, flush) ==
  CASE s.level = 0 -> deflate_stored(s, flush)
    [] s.level # 0 /\ s.strategy = Z_HUFFMAN_ONLY -> deflate_huff(s, flush)
    [] s.level # 0 /\ s.strategy = Z_RLE -> deflate_rle(s, flush)
    [] OTHER -> IF configuration_table(s.level)[5] = "fast" THEN deflate_fast(s, flush)
                ELSE deflate_slow(s, flush)
=============================================================================
