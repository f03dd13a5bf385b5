------------------------------ MODULE MCInflate ------------------------------
(***************************************************************************)
(* The inputs that are decompressed.  MCInflate.cfg gives windows of 32    *)
(* bytes, so that they wrap, and first tables of 4 and 2 bits, so that     *)
(* common codes lie in the tables behind them.                             *)
(***************************************************************************)
EXTENDS Inflate

\* blocks of every kind; longer codes; the wrappers; damage
Blocks1 == <<98, 100, 58, 1, 133, 0, 0, 3, 0, 252, 255, 9, 8, 7, 35, 76, 176, 64, 228, 129, 0, 0>>
Dynamic == <<13, 201, 193, 13, 0, 32, 12, 3, 177, 75, 82, 160, 192, 254, 251, 194, 207, 146, 157,
  234, 44, 212, 158, 8, 27, 88, 69, 241, 49, 224, 14, 182, 67, 103, 79, 233, 151, 76, 164, 146, 20,
  14, 15>>
ZlibStored == <<24, 25, 1, 4, 0, 251, 255, 5, 6, 7, 8, 0, 64, 0, 27>>
ZlibDict == <<24, 242, 0, 230, 0, 56, 131, 208, 140, 32, 62, 35, 35, 0, 1, 154, 0, 51>>
Dict == <<1, 2, 3, 4, 5, 6, 7, 8, 9, 10>>
GzipFull == <<31, 139, 8, 31, 1, 2, 3, 4, 5, 6, 5, 0, 9, 8, 7, 6, 5, 65, 66, 67, 0, 68, 69, 70, 71,
  0, 50, 239, 99, 100, 98, 4, 67, 102, 0, 27, 21, 124, 101, 9, 0, 0, 0>>
GzipPlain == <<31, 139, 8, 0, 0, 0, 0, 0, 0, 3, 99, 100, 98, 4, 67, 102, 0, 27, 21, 124, 101, 9, 0,
  0, 0>>
GzipBadSize == <<31, 139, 8, 0, 0, 0, 0, 0, 0, 3, 99, 100, 98, 4, 67, 102, 0, 27, 21, 124, 101, 1,
  0, 0, 0>>
GzipBadCrc == <<31, 139, 8, 0, 0, 0, 0, 0, 0, 3, 99, 100, 98, 4, 67, 102, 0, 1, 21, 124, 101, 9, 0,
  0, 0>>
GzipBadHcrc == <<31, 139, 8, 31, 1, 2, 3, 4, 5, 6, 5, 0, 9, 8, 7, 6, 5, 65, 66, 67, 0, 68, 69, 70,
  71, 0, 50, 238, 99, 100, 98, 4, 67, 102, 0>>
GzipLong == <<31, 139, 8, 0, 0, 0, 0, 0, 2, 3, 99, 100, 98, 102, 68, 69, 39, 254, 179, 195, 193, 127, 134, 40,
  160, 8, 11, 0, 41, 77, 248, 66, 37, 0, 0, 0>>
ZlibLong == <<24, 25, 251, 245, 251, 207, 47, 12, 196, 249, 255, 63, 199, 127, 0, 81, 192, 23, 166>>
Fast1 == <<98, 100, 98, 254, 53, 138, 70, 165, 177, 97, 246, 81, 17, 70, 38, 102, 78, 14, 118, 64, 0,
  6, 0, 249, 255, 1, 2, 3, 4, 5, 6>>
Damaged == <<102, 100, 98, 0, 0, 255, 0, 0, 102, 4, 35, 22, 0, 0, 0, 0, 255, 255, 98, 103, 96, 7,
  65, 78, 0, 0, 0, 0, 255, 255, 99, 101, 5, 2, 0>>
ZlibDamaged == <<24, 211, 102, 100, 98, 102, 4, 35, 22, 0, 0, 0, 0, 255, 255, 99, 103, 96, 103, 96,
  103, 231, 4, 0, 1, 149, 0, 60>>
FarBack == <<98, 100, 98, 102, 97, 101, 99, 231, 224, 228, 226, 230, 225, 229, 227, 23, 16, 20, 18,
  22, 17, 21, 19, 151, 144, 148, 146, 150, 145, 149, 147, 87, 80, 84, 82, 86, 81, 85, 83, 215, 0,
  171, 99, 6, 201, 3, 198, 8, 244, 7, 0>>
Broken == <<<<99, 28, 3, 0>>, <<99, 4, 62, 0, 0>>, <<1, 3, 0, 3, 0, 0, 0>>, <<7, 0, 0, 0>>, <<253,
  0, 0, 0>>, <<5, 0, 146, 4, 0>>, <<5, 0, 130, 0, 0, 0, 0, 0, 0>>, <<5, 0, 144, 224, 255, 255, 31,
  0, 0>>, <<5, 192, 129, 0, 0, 0, 0, 0, 144, 255, 107, 0, 0, 0, 0>>>>

\* behind five bits of someone else
Behind == <<85, 140, 76, 39, 160, 16, 0, 3, 0, 252, 255, 9, 8, 7, 131, 16, 44, 0>>

Raw == [windowBits |-> -9, bytes |-> <<>>, dict |-> <<>>, skip |-> 0, head |-> <<>>, unchecked |-> 0,
        chunks |-> {0, 1, 100}, rooms |-> {0, 1, 100}, flushes |-> {Z_NO_FLUSH}, memory |-> {TRUE},
        syncs |-> FALSE, copies |-> FALSE, then |-> {}]
Gzip == [Raw EXCEPT !.windowBits = 31, !.rooms = {2, 100}, !.chunks = {1, 5, 100}]
Asked(extra, name, comment) ==
  [text |-> FALSE, time |-> <<>>, xflags |-> 0, os |-> 0, hcrc |-> FALSE, done |-> 0, extra_len |-> 0,
   extra |-> << <<>> >>, extra_max |-> extra, name |-> << <<>> >>, name_max |-> name,
   comment |-> IF comment = 0 THEN <<>> ELSE << <<>> >>, comm_max |-> comment]

Programs == <<
  [Raw EXCEPT !.bytes = Blocks1, !.flushes = {Z_NO_FLUSH, Z_BLOCK, Z_TREES}, !.chunks = {1, 100},
              !.rooms = {1, 6, 100}],
  [Raw EXCEPT !.bytes = Dynamic, !.rooms = {7, 300}, !.chunks = {1, 3, 100}, !.flushes = {Z_NO_FLUSH, Z_FINISH}],
  [Raw EXCEPT !.bytes = ZlibStored, !.windowBits = 9, !.chunks = {1, 5, 100}, !.then = {1, 4}],
  [Raw EXCEPT !.bytes = ZlibDict, !.windowBits = 10, !.dict = Dict, !.memory = BOOLEAN, !.rooms = {1, 100}],
  [Gzip EXCEPT !.bytes = GzipFull, !.head = <<Asked(3, 30, 2)>>, !.windowBits = 47],
  [Gzip EXCEPT !.bytes = GzipFull, !.head = <<Asked(30, 0, 0)>>, !.chunks = {2, 14, 23}],
  [Gzip EXCEPT !.bytes = GzipPlain, !.head = <<Asked(3, 3, 3)>>, !.copies = TRUE],
  [Gzip EXCEPT !.bytes = GzipLong, !.rooms = {11, 24, 100}, !.chunks = {10, 17, 100}],
  [Raw EXCEPT !.bytes = ZlibLong, !.windowBits = 9, !.rooms = {7, 16, 100}, !.chunks = {6, 100}],
  [Gzip EXCEPT !.bytes = GzipBadSize], [Gzip EXCEPT !.bytes = GzipBadCrc], [Gzip EXCEPT !.bytes = GzipBadHcrc],
  [Gzip EXCEPT !.bytes = GzipBadCrc, !.unchecked = 10],
  [Raw EXCEPT !.bytes = Fast1, !.chunks = {6, 7, 100}, !.rooms = {258, 259, 260, 900}, !.copies = TRUE],
  [Raw EXCEPT !.bytes = Damaged, !.chunks = {0, 1, 2, 100}, !.rooms = {3, 100}, !.syncs = TRUE, !.memory = BOOLEAN],
  [Raw EXCEPT !.bytes = ZlibDamaged, !.windowBits = 9, !.rooms = {100}, !.syncs = TRUE],
  [Raw EXCEPT !.bytes = FarBack, !.chunks = {1, 30, 100}, !.rooms = {1, 39, 100}, !.then = {1}],
  [Raw EXCEPT !.bytes = Behind, !.skip = 5, !.chunks = {1, 100}] >>
AllPrograms == Programs \o [i \in DOMAIN Broken |-> [Raw EXCEPT !.bytes = Broken[i]]]
=============================================================================
