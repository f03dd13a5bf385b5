------------------------------ MODULE MCDeflate ------------------------------
(***************************************************************************)
(* The programs whose use of the compressor is checked.  The sizes that    *)
(* MCDeflate.cfg gives the code make windows of 32 bytes, matches of at    *)
(* most 10, blocks of at most 7 symbols (memLevel 1) or 15 (memLevel 2)    *)
(* and stored blocks of 40 bytes, so that a few dozen bytes slide the      *)
(* window, fill the buffers and make every kind of block.                  *)
(***************************************************************************)
EXTENDS Deflate

Cycle(n, k) == SubSeq([i \in 1 .. n |-> 1 + (i % k)], 1, n)
Mixed(n) == SubSeq([i \in 1 .. n |-> 1 + ((i * i + i \div 5) % 7)], 1, n)
Skewed(n) == SubSeq([i \in 1 .. n |-> IF i % 3 # 0 THEN 2 ELSE IF i % 2 = 0 THEN 3 ELSE 4 + ((i * i) % 9)], 1, n)

Raw == [level |-> 6, windowBits |-> -9, memLevel |-> 1, strategy |-> 0, input |-> <<>>, dict |-> <<>>,
        head |-> <<>>, prime |-> <<>>, chunks |-> {0}, rooms |-> {100}, flushes |-> {Z_NO_FLUSH},
        switches |-> {}, tunes |-> {}, rounds |-> 1]
FullHeader == [text |-> TRUE, hcrc |-> TRUE, time |-> <<1, 2, 3, 4>>, os |-> 3, extra |-> <<Cycle(9, 5)>>,
               name |-> <<Cycle(20, 4) \o <<0>> >>, comment |-> <<Cycle(3, 4) \o <<0>> >>]

Programs == <<
  \* lazy matches, little room, every flush
  [Raw EXCEPT !.input = Mixed(26), !.chunks = {0, 13}, !.rooms = {1, 6, 40},
              !.flushes = {Z_NO_FLUSH, Z_PARTIAL_FLUSH, Z_SYNC_FLUSH}],
  \* level 1, a window that slides, full flushes
  [Raw EXCEPT !.level = 1, !.input = Cycle(70, 5) \o Mixed(10), !.chunks = {30, 40}, !.rooms = {5, 60},
              !.flushes = {Z_NO_FLUSH, Z_FULL_FLUSH, Z_BLOCK}],
  \* level 0 and changes to and from it
  [Raw EXCEPT !.level = 0, !.windowBits = 9, !.input = Mixed(75), !.chunks = {0, 25, 50}, !.rooms = {9, 100},
              !.flushes = {Z_NO_FLUSH, Z_FULL_FLUSH}, !.switches = {<<6, 0>>, <<0, 0>>}],
  \* gzip with a header that needs more room than pending_buf has
  [Raw EXCEPT !.windowBits = 25, !.input = Skewed(6), !.head = <<FullHeader>>, !.rooms = {1, 20},
              !.chunks = {6}],
  \* zlib with a dictionary longer than the window, runs
  [Raw EXCEPT !.windowBits = 9, !.strategy = Z_RLE, !.memLevel = 2, !.dict = Mixed(40),
              !.input = <<1, 2, 2, 2, 2, 2, 2, 2, 2, 2, 2, 2, 2, 2, 2, 1, 2, 1, 1>>, !.chunks = {0, 9},
              !.rooms = {3, 50}, !.flushes = {Z_NO_FLUSH, Z_SYNC_FLUSH}, !.switches = {<<9, 0>>}],
  \* raw, behind bits of someone else, a dictionary, dynamic trees
  [Raw EXCEPT !.level = 4, !.memLevel = 3, !.prime = <<1, 0, 1>>, !.dict = Cycle(7, 7), !.input = Skewed(34),
              !.chunks = {17}, !.rooms = {4, 100}, !.flushes = {Z_NO_FLUSH, Z_FULL_FLUSH},
              !.tunes = {<<4, 4, 4, 4>>}],
  \* no matches; then only fixed codes
  [Raw EXCEPT !.windowBits = 9, !.strategy = Z_HUFFMAN_ONLY, !.input = Skewed(20), !.chunks = {0, 10},
              !.rooms = {2, 80}, !.switches = {<<6, Z_FIXED>>}],
  \* only short matches
  [Raw EXCEPT !.level = 9, !.strategy = Z_FILTERED, !.windowBits = 25, !.input = Cycle(12, 4) \o Mixed(12),
              !.chunks = {12}, !.rooms = {4, 80}, !.flushes = {Z_NO_FLUSH, Z_SYNC_FLUSH}, !.rounds = 2] >>
AllPrograms == {Programs[i] : i \in DOMAIN Programs}
=============================================================================
