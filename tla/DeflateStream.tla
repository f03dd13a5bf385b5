---------------------------- MODULE DeflateStream ----------------------------
(***************************************************************************)
(* The interface of CNIOExtrasZlib's compressor, deflate.c: what each call *)
(* does to the stream record s, as a function of s and its arguments.      *)
(* A call of deflate runs through its stages until ret says what it        *)
(* returns.  A pointer that may be Z_NULL is a sequence of at most one     *)
(* element.                                                                *)
(***************************************************************************)
EXTENDS DeflateMatch

Z_DEFAULT_COMPRESSION == -1
OS_CODE == 3
PRESET_DICT == 32
Z_OK == "OK"
Z_STREAM_END == "STREAM_END"
Z_STREAM_ERROR == "STREAM_ERROR"
Z_BUF_ERROR == "BUF_ERROR"
Z_DATA_ERROR == "DATA_ERROR"
Running == "running"

RANK(f) == 2 * f - (IF f > 4 THEN 9 ELSE 0)

(***************************************************************************)
(* Opening a stream.                                                       *)
(***************************************************************************)
LevelOf(level) == IF level = Z_DEFAULT_COMPRESSION THEN 6 ELSE level
Tuned(s, level) ==
  [s EXCEPT !.level = level, !.max_lazy_match = configuration_table(level)[2],
            !.good_match = configuration_table(level)[1], !.nice_match = configuration_table(level)[3],
            !.max_chain_length = configuration_table(level)[4]]

lm_init(s) ==
  Tuned([CLEAR_HASH(s) EXCEPT
           !.strstart = 0, !.block_start = 0, !.lookahead = 0, !.insert = 0, !.match_length = MIN_MATCH - 1,
           !.prev_length = MIN_MATCH - 1, !.match_available = FALSE, !.ins_h = 0], s.level)

Abs(n) == IF n < 0 THEN -n ELSE n

deflateResetKeep(s) ==
  _tr_init([s EXCEPT !.total_in = 0, !.total_out = 0, !.data_type = Z_UNKNOWN, !.pending = <<>>,
                     !.pending_out = 0, !.wrap = Abs(@), !.last_flush = -2,
                     !.status = IF Abs(s.wrap) = 2 THEN "GZIP" ELSE "INIT",
                     !.adler = IF Abs(s.wrap) = 2 THEN Crc0 ELSE Adler0])

deflateReset(s) == lm_init(deflateResetKeep(s))

\* windowBits says which wrapper too: none below 0, gzip from 16
WrapOf(windowBits) == IF windowBits < 0 THEN 0 ELSE IF windowBits > 15 THEN 2 ELSE 1
BitsOf(windowBits) == CASE windowBits < 0 -> -windowBits
                        [] windowBits > 15 -> windowBits - 16
                        [] OTHER -> windowBits

InitArguments(level, windowBits, memLevel, strategy) ==
  /\ memLevel \in 1 .. 9 /\ BitsOf(windowBits) \in 8 .. 15
  /\ LevelOf(level) \in 0 .. 9 /\ strategy \in 0 .. Z_FIXED
  /\ BitsOf(windowBits) = 8 => WrapOf(windowBits) = 1

\* the state before it is reset; the memory that malloc returned is filled with
\* garbage: any byte in the window, any position in prev
internal_state(level, windowBits, memLevel, strategy, garbage) ==
  LET w_bits == IF BitsOf(windowBits) = 8 THEN 9 ELSE BitsOf(windowBits)
      w == 2^(w_bits - WShift)
  IN  [status |-> "INIT", wrap |-> WrapOf(windowBits), gzhead |-> <<>>, gzindex |-> 0, w_bits |-> w_bits,
       hash_bits |-> memLevel + HashShift, lit_bufsize |-> 2^(memLevel + LitShift),
       level |-> LevelOf(level), strategy |-> strategy, last_flush |-> 0,
       window |-> Same(2 * w, garbage), prev |-> Same(w, garbage % w), head |-> <<>>, high_water |-> 0,
       slid |-> FALSE, ins_h |-> 0, block_start |-> 0, match_length |-> 0, prev_match |-> 0,
       match_available |-> FALSE, strstart |-> 0, match_start |-> 0, lookahead |-> 0, prev_length |-> 0,
       max_chain_length |-> 0, max_lazy_match |-> 0, good_match |-> 0, nice_match |-> 0, insert |-> 0,
       pending |-> <<>>, pending_out |-> 0, bi |-> <<>>, bi_used |-> 0, sym |-> <<>>, matches |-> 0,
       torn |-> FALSE, overrun |-> FALSE, bstate |-> Running, ret |-> Z_OK,
       next_in |-> <<>>, next_out |-> <<>>, avail_out |-> 0, total_in |-> 0, total_out |-> 0,
       adler |-> Adler0, data_type |-> Z_UNKNOWN]

deflateInit2_(level, windowBits, memLevel, strategy, garbage) ==
  deflateReset(internal_state(level, windowBits, memLevel, strategy, garbage))

(***************************************************************************)
(* Calls other than deflate.                                               *)
(***************************************************************************)
Returns(s, code) == [s EXCEPT !.ret = code]
UnlessReturned(s, step(_)) == IF s.ret # Running THEN s ELSE step(s)

deflateSetHeader(s, head) ==
  IF s.wrap # 2 THEN Returns(s, Z_STREAM_ERROR) ELSE Returns([s EXCEPT !.gzhead = <<head>>], Z_OK)

RECURSIVE InsertDictionary(_)
InsertDictionary(s) ==
  IF s.lookahead < MIN_MATCH THEN s
  ELSE LET n == s.lookahead - (MIN_MATCH - 1)
           r == InsertStrings(s, s.strstart, s.strstart + n - 1)
       IN  InsertDictionary(fill_window([r EXCEPT !.strstart = @ + n, !.lookahead = MIN_MATCH - 1]))

Remembered(s, read) ==
  [read EXCEPT !.strstart = @ + read.lookahead, !.block_start = read.strstart + read.lookahead,
               !.insert = read.lookahead, !.lookahead = 0, !.match_length = MIN_MATCH - 1,
               !.prev_length = MIN_MATCH - 1, !.match_available = FALSE,
               !.next_in = s.next_in, !.wrap = s.wrap, !.ret = Z_OK]

deflateSetDictionary(s, dictionary) ==
  LET w == w_size(s)
      size == Len(dictionary)
      fills == size >= w
      checked == [s EXCEPT !.adler = IF s.wrap = 1 THEN adler32(@, dictionary) ELSE @, !.wrap = 0]
      cleared == IF fills /\ s.wrap = 0
                 THEN [CLEAR_HASH(checked) EXCEPT !.strstart = 0, !.block_start = 0, !.insert = 0]
                 ELSE checked
      tail == IF fills THEN SubSeq(dictionary, size - w + 1, size) ELSE dictionary
  IN  IF s.wrap = 2 \/ (s.wrap = 1 /\ s.status # "INIT") \/ s.lookahead # 0
      THEN Returns(s, Z_STREAM_ERROR)
      ELSE Remembered(s, InsertDictionary(fill_window([cleared EXCEPT !.next_in = tail])))

\* Mutant: the lookahead is forgotten
deflateGetDictionaryBehind(s) == Window(s, s.strstart - Least(s.strstart, w_size(s)), s.strstart)

deflateGetDictionary(s) ==
  LET end == s.strstart + s.lookahead IN Window(s, end - Least(end, w_size(s)), end)

deflatePending(s) == <<Len(s.pending), Len(s.bi)>>
deflateUsed(s) == s.bi_used

RECURSIVE PutBits(_, _)
PutBits(s, bits) ==
  LET put == Least(Buf_size - Len(s.bi), Len(bits))
      r == _tr_flush_bits([s EXCEPT !.bi = @ \o SubSeq(bits, 1, put)])
  IN  IF put = Len(bits) THEN r ELSE PutBits(r, SubSeq(bits, put + 1, Len(bits)))

\* sym_buf starts at lit_bufsize in pending_buf
deflatePrime(s, bits) ==
  IF Len(bits) > 16 \/ s.lit_bufsize < s.pending_out + (Buf_size + 7) \div 8 THEN Returns(s, Z_BUF_ERROR)
  ELSE Returns(PutBits(s, bits), Z_OK)

deflateTune(s, good_length, max_lazy, nice_length, max_chain) ==
  Returns([s EXCEPT !.good_match = good_length, !.max_lazy_match = max_lazy, !.nice_match = nice_length,
                    !.max_chain_length = max_chain], Z_OK)

WrapLength(s) ==
  LET head == s.gzhead[1]
      field(f) == IF f = <<>> THEN 0 ELSE Len(f[1])
  IN  CASE s.wrap = 0 -> 0
        [] Abs(s.wrap) = 1 -> 6 + (IF s.strstart # 0 THEN 4 ELSE 0)
        [] Abs(s.wrap) = 2 /\ s.gzhead = <<>> -> 18
        [] OTHER -> 18 + (IF head.extra = <<>> THEN 0 ELSE 2 + field(head.extra)) + field(head.name)
                    + field(head.comment) + (IF head.hcrc THEN 2 ELSE 0)

deflateBound(s, sourceLen) ==
  LET fixedlen == sourceLen + sourceLen \div 8 + sourceLen \div 256 + sourceLen \div 512 + 4
      storelen == sourceLen + sourceLen \div 32 + sourceLen \div 128 + sourceLen \div 2048 + 7
      tight == sourceLen + sourceLen \div 4096 + sourceLen \div 16384 + sourceLen \div 33554432 + 13 - 6
  IN  WrapLength(s) + (IF s.w_bits = 15 /\ s.hash_bits = 8 + 7 THEN tight
                       ELSE IF s.w_bits <= s.hash_bits /\ s.level # 0 THEN fixedlen ELSE storelen)

\* memory of the copy that is not copied is garbage again
deflateCopy(s, garbage) ==
  LET w == w_size(s)
      linked == s.strstart - s.insert
      copied == IF s.slid \/ linked > w THEN w ELSE linked
  IN  [s EXCEPT !.window = SubSeq(@, 1, s.high_water) \o Same(2 * w - s.high_water, garbage),
                !.prev = SubSeq(@, 1, copied) \o Same(w - copied, garbage % w), !.ret = Z_OK]

deflateEnd(s) == IF s.status = "BUSY" THEN Z_DATA_ERROR ELSE Z_OK

(***************************************************************************)
(* deflate: what it refuses and what it does before anything is compressed. *)
(***************************************************************************)
Opening(s, flush) ==
  LET called == [s EXCEPT !.last_flush = flush]
      flushed == flush_pending(called)
  IN  IF s.status = "FINISH" /\ flush # Z_FINISH THEN Returns(s, Z_STREAM_ERROR)
      ELSE IF s.avail_out = 0 THEN Returns(s, Z_BUF_ERROR)
      ELSE IF s.pending # <<>> /\ flushed.avail_out = 0
      THEN [flushed EXCEPT !.last_flush = -1, !.ret = Z_OK]
      ELSE IF s.pending = <<>> /\ s.next_in = <<>> /\ RANK(flush) <= RANK(s.last_flush) /\ flush # Z_FINISH
      THEN Returns(called, Z_BUF_ERROR)
      ELSE IF s.status = "FINISH" /\ s.next_in # <<>>
      THEN Returns(IF s.pending # <<>> THEN flushed ELSE called, Z_BUF_ERROR)
      ELSE IF s.pending # <<>> THEN flushed ELSE called

putShortMSB(s, b) == put_bytes(s, <<b \div 256, b % 256>>)

\* Mutant: deflate returns after every header
EmptiedAndLeft(s) == [flush_pending(s) EXCEPT !.last_flush = -1, !.ret = Z_OK]

\* compression must start with an empty pending buffer
Emptied(s) ==
  LET r == flush_pending(s)
  IN  IF r.pending # <<>> THEN [r EXCEPT !.last_flush = -1, !.ret = Z_OK] ELSE r

LevelFlags(s) == CASE s.strategy >= Z_HUFFMAN_ONLY \/ s.level < 2 -> 0
                   [] s.strategy < Z_HUFFMAN_ONLY /\ s.level \in 2 .. 5 -> 1
                   [] s.strategy < Z_HUFFMAN_ONLY /\ s.level = 6 -> 2
                   [] OTHER -> 3

ZlibHeader(s) ==
  LET bits == (8 + (s.w_bits - 8) * 16) * 256 + LevelFlags(s) * 64
              + (IF s.strstart # 0 THEN PRESET_DICT ELSE 0)
      header == putShortMSB(s, bits + 31 - (bits % 31))
      full == IF s.strstart # 0 THEN put_bytes(header, AdlerBytes(s.adler)) ELSE header
  IN  Emptied([full EXCEPT !.adler = Adler0, !.status = "BUSY"])

(***************************************************************************)
(* The gzip header: fixed bytes, then extra field, name, comment and check *)
(* value as gzhead has them, through a pending buffer that may be smaller. *)
(***************************************************************************)
ExtraFlags(s) == IF s.level = 9 THEN 2 ELSE IF s.strategy >= Z_HUFFMAN_ONLY \/ s.level < 2 THEN 4 ELSE 0

GzipHeader(s0) ==
  LET s == [s0 EXCEPT !.adler = Crc0]
      head == s.gzhead[1]
      flag(is, value) == IF is THEN value ELSE 0
      plain == put_bytes(s, <<31, 139, 8, 0, 0, 0, 0, 0, ExtraFlags(s), OS_CODE>>)
      flags == flag(head.text, 1) + flag(head.hcrc, 2) + flag(head.extra # <<>>, 4)
               + flag(head.name # <<>>, 8) + flag(head.comment # <<>>, 16)
      extra_len == IF head.extra = <<>> THEN <<>>
                   ELSE <<Len(head.extra[1]) % 256, Len(head.extra[1]) \div 256>>
      long == put_bytes(s, <<31, 139, 8, flags>> \o head.time \o <<ExtraFlags(s), head.os>> \o extra_len)
  IN  IF s.gzhead = <<>> THEN Emptied([plain EXCEPT !.status = "BUSY"])
      ELSE [long EXCEPT !.adler = IF head.hcrc THEN crc32_z(@, long.pending, 0, "little") ELSE @,
                        !.gzindex = 0, !.status = "EXTRA"]

HCRC_UPDATE(s, beg) ==
  IF s.gzhead[1].hcrc /\ Len(s.pending) > beg
  THEN [s EXCEPT !.adler = crc32_z(@, SubSeq(s.pending, beg + 1, Len(s.pending)), 0, "little")] ELSE s

\* copies bytes, from gzindex on, while the output takes what pending_buf cannot hold
RECURSIVE PutExtra(_, _, _)
PutExtra(s, extra, beg) ==
  LET left == Len(extra) - s.gzindex
      room == pending_buf_size(s) - Len(s.pending)
      part == HCRC_UPDATE(put_bytes(s, SubSeq(extra, s.gzindex + 1, s.gzindex + Least(left, room))), beg)
  IN  IF left <= room THEN [part EXCEPT !.gzindex = 0, !.status = "NAME"]
      ELSE UnlessReturned(Emptied([part EXCEPT !.gzindex = @ + room]), LAMBDA r : PutExtra(r, extra, 0))

RECURSIVE PutString(_, _, _, _)
PutByte(s, string, beg, next) ==
  LET put == [put_bytes(s, <<string[s.gzindex + 1]>>) EXCEPT !.gzindex = @ + 1]
  IN  IF put.gzindex = Len(string) THEN [HCRC_UPDATE(put, beg) EXCEPT !.gzindex = 0, !.status = next]
      ELSE PutString(put, string, beg, next)
PutString(s, string, beg, next) ==
  IF Len(s.pending) < pending_buf_size(s) THEN PutByte(s, string, beg, next)
  ELSE UnlessReturned(Emptied(HCRC_UPDATE(s, beg)), LAMBDA r : PutByte(r, string, 0, next))

ExtraField(s) ==
  IF s.gzhead[1].extra = <<>> THEN [s EXCEPT !.status = "NAME"]
  ELSE PutExtra(s, s.gzhead[1].extra[1], Len(s.pending))
NameField(s) ==
  IF s.gzhead[1].name = <<>> THEN [s EXCEPT !.status = "COMMENT"]
  ELSE PutString(s, s.gzhead[1].name[1], Len(s.pending), "COMMENT")
CommentField(s) ==
  IF s.gzhead[1].comment = <<>> THEN [s EXCEPT !.status = "HCRC"]
  ELSE PutString(s, s.gzhead[1].comment[1], Len(s.pending), "HCRC")

HeaderCheck(s) ==
  LET r == IF Len(s.pending) + 2 > pending_buf_size(s) THEN Emptied(s) ELSE s
      put == [put_bytes(r, SubSeq(r.adler, 1, 2)) EXCEPT !.adler = Crc0]
  IN  IF ~s.gzhead[1].hcrc THEN Emptied([s EXCEPT !.status = "BUSY"])
      ELSE IF r.ret # Running THEN r
      ELSE Emptied([put EXCEPT !.status = "BUSY"])

Stage(s, status, op(_)) == IF s.ret = Running /\ s.status = status THEN op(s) ELSE s
RawHeader(s) == IF s.wrap = 0 THEN [s EXCEPT !.status = "BUSY"] ELSE ZlibHeader(s)
GzipFields(s) == Stage(Stage(Stage(s, "EXTRA", ExtraField), "NAME", NameField), "COMMENT", CommentField)
Header(s) ==
  Stage(GzipFields(Stage(Stage(s, "INIT", RawHeader), "GZIP", GzipHeader)), "HCRC", HeaderCheck)

(***************************************************************************)
(* deflate: blocks and trailer.                                            *)
(***************************************************************************)
\* Mutant: a full flush does not forget
FlushMarkerRemembering(s, flush) ==
  CASE flush = Z_PARTIAL_FLUSH -> _tr_align(s) [] flush = Z_BLOCK -> s [] OTHER -> _tr_stored_block(s, <<>>, 0)

\* the end of a flush: an empty block lets the receiver decode all before it
FlushMarker(s, flush) ==
  LET empty == _tr_stored_block(s, <<>>, 0)
      forgot == CLEAR_HASH(empty)
  IN  CASE flush = Z_PARTIAL_FLUSH -> _tr_align(s)
        [] flush = Z_BLOCK -> s
        [] flush = Z_FULL_FLUSH ->
             IF s.lookahead = 0 THEN [forgot EXCEPT !.strstart = 0, !.block_start = 0, !.insert = 0]
             ELSE forgot
        [] OTHER -> empty

Finishing(s) == IF s.bstate \in {"finish_started", "finish_done"} THEN [s EXCEPT !.status = "FINISH"] ELSE s
LeaveIfFull(s) == IF s.avail_out = 0 THEN [s EXCEPT !.last_flush = -1, !.ret = Z_OK] ELSE s

AfterBlocks(s, flush) ==
  CASE s.bstate \in {"need_more", "finish_started"} ->
         [s EXCEPT !.last_flush = IF s.avail_out = 0 THEN -1 ELSE @, !.ret = Z_OK]
    [] s.bstate = "block_done" -> LeaveIfFull(flush_pending(FlushMarker(s, flush)))
    [] s.bstate = "finish_done" -> s

Blocks(s, flush) ==
  IF /\ s.ret = Running
     /\ \/ s.next_in # <<>> \/ s.lookahead # 0
        \/ flush # Z_NO_FLUSH /\ s.status # "FINISH"
  THEN AfterBlocks(Finishing(BlockFunction([s EXCEPT !.bstate = Running], flush)), flush)
  ELSE s

Trailer(s, flush) ==
  LET size == <<s.total_in % 256, (s.total_in \div 256) % 256, (s.total_in \div 65536) % 256,
                (s.total_in \div 16777216) % 256>>
      r == flush_pending(put_bytes(s, IF s.wrap = 2 THEN s.adler \o size ELSE AdlerBytes(s.adler)))
  IN  IF s.ret # Running THEN s
      ELSE IF flush # Z_FINISH THEN Returns(s, Z_OK)
      ELSE IF s.wrap <= 0 THEN Returns(s, Z_STREAM_END)
      ELSE [r EXCEPT !.wrap = -Abs(@), !.ret = IF r.pending # <<>> THEN Z_OK ELSE Z_STREAM_END]

\* a call with this input and room for this much output
Called(s, input, room) == [s EXCEPT !.next_in = input, !.next_out = <<>>, !.avail_out = room]
deflate(s, input, room, flush) ==
  Trailer(Blocks(UnlessReturned(Opening([Called(s, input, room) EXCEPT !.ret = Running], flush), Header),
                 flush), flush)

\* the hash table knows nothing of what level 0 read
Rehashed(s) ==
  CASE ~(s.level = 0 /\ s.matches # 0) -> s
    [] s.level = 0 /\ s.matches = 1 -> [slide_hash(s) EXCEPT !.matches = 0]
    [] OTHER -> [CLEAR_HASH(s) EXCEPT !.matches = 0]

WithParams(s, level, strategy) ==
  Returns([IF s.level # level THEN Tuned(Rehashed(s), level) ELSE s EXCEPT !.strategy = strategy], Z_OK)

AfterFlush(s, level, strategy) ==
  IF s.ret = Z_STREAM_ERROR THEN s
  ELSE IF s.next_in # <<>> \/ s.strstart - s.block_start + s.lookahead # 0 THEN Returns(s, Z_BUF_ERROR)
  ELSE WithParams(s, level, strategy)

\* a new level or strategy; what was read before is compressed the old way first
deflateParams(s, level0, strategy, input, room) ==
  LET level == LevelOf(level0)
      function(l) == configuration_table(l)[5]
      flushes == (strategy # s.strategy \/ function(s.level) # function(level)) /\ s.last_flush # -2
  IN  IF level \notin 0 .. 9 \/ strategy \notin 0 .. Z_FIXED
      THEN Returns([s EXCEPT !.next_in = input, !.next_out = <<>>], Z_STREAM_ERROR)
      ELSE IF flushes THEN AfterFlush(deflate(s, input, room, Z_BLOCK), level, strategy)
      ELSE WithParams(Called(s, input, room), level, strategy)
=============================================================================
