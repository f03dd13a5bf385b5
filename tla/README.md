# A verification development for swift-nio-extras

TLA+ specifications of the parts of swift-nio-extras whose correctness depends on
the order of events, the TLC models that check them, and TLAPS proofs about them.
All definitions are translated from the Swift and C source; `PROJECT.json` maps each to
the lines it stands for.

## 1. Inventory

Everything in this repository but zlib is a `ChannelHandler` or a helper around one. A
handler's methods run on the event loop of its channel, one at a time; concurrency
comes from several loops and threads that send each other tasks, from promises and
timers that fire later, and from re-entrancy (a call out of a handler runs user code
that calls back in).

| component | state | operations | hard behaviour | what makes it correct |
|---|---|---|---|---|
| Server quiescing (`QuiescingHelper.swift`) | lifecycle, registered children, shutdown promise | accept, child closes, `initiateShutdown`, `deinit` | children on other loops; user code run in the middle of `initiateShutdown0`; late and repeated calls | registry exact; promise only after all children closed; each child told once; no precondition fails; it ends |
| Resumable upload (`NIOResumableUpload`) | upload (offset, length, attached handler, channel, timer), handler (context, upload), token table | requests create/append/offset/cancel, body, end, errors, close; application writes and closes | an upload is shared by connections on different loops; every cross-loop call may be late; timer; re-entrant close | bytes delivered once and in order; end only for the whole file; one response per request; no orphan channel |
| Request/response handlers | `operational / inactive / error`, outstanding promises (FIFO or by ID) | write, response, error, inactive | pipelining, errors and closes between request and response | each promise completed once, with its own response or the right error |
| HTTP/1 proxy CONNECT | handshake state, buffered writes with flush marks, deadline | active, response parts, write, flush, removal, timeout | timer against answer; writes during removal | buffered writes kept in order and never dropped silently |
| SOCKS client / server | handshake state machines, inbound buffer, buffered writes | greeting, method, request, response, removal | partial reads, removal from inside an event, buffered bytes | both sides reach `active` together; no byte lost or seen twice |
| PCAP capture | per-connection sequence numbers, ring buffer, file sink queue | capture events, `addFragment`, `emitPCAP`, `write`, `close` | two limits at once; a queue that is closed behind writes; 32-bit wrap | limits hold; nothing is written after an error or a close |
| Frame codecs | partial header / frame | decode, `decodeLast`, prepend | splits at every byte, widths at their limits | decoding does not depend on how bytes were split |
| Certificate reloading | current certificate and key | `reload`, `run`, override | files that change between two reads, concurrent reloads | the pair in use always matches |
| HTTP compression | queue of accept-encodings, compressor, pending response | read head, write head/body/end, flush | pipelining, flush in mid-response | each response uses its own request's encodings; no promise lost |
| HTTP responsiveness | dripping phase, timer, pending writes; counters | requests, timer, writability | re-entrancy between write, writability and timer | the number of bytes announced is the number sent, one response per request |
| HTTP types codecs | HTTP/2 header state | header blocks | malformed peers | trailers and heads told apart; no precondition reachable |
| NFSv3 | none (codec), call dispatch | XDR encode/decode, dispatch to a file system | out of order replies | the reply carries the call's id |
| zlib (`CNIOExtrasZlib`), compressor | stream: window, hash chains, symbols of the block, pending bytes and bits, check value | `deflateInit2`, `deflate`, flushes, `deflateParams`, `deflateTune`, dictionary, header, prime, copy, reset, end | input and room cut anywhere; a window that slides under stored positions; symbols and output in one buffer; changes of level; memory that begins as garbage | what was sent decodes to what was given; a flush delivers; a full flush forgets; no buffer overruns; calls go on |
| zlib, decompressor | stream: mode, bit buffer, tables, circular window, check value | `inflateInit2`, `inflate`, dictionary, header, sync, prime, mark, copy, reset, end | input cut in the middle of any field or code; the fast loop; damaged data; a window of which a call has told nothing yet | says of any input what the format says; reads and writes only where it may |
| zlib, check values | none | `adler32`, `crc32`, their combinations | braids, batches, alignment, byte order, deferred reduction | one value whatever the way |
| demos, performance tests, debug handlers | none of their own | – | – | not modelled |

The components interact with NIO (`Channel`, `EventLoop`, `EventLoopPromise`), not
with each other; so the models compose a component with its environment (peers,
applications, other event loops) rather than components with each other. The
exceptions are inside a component: handler and upload, helper and collector.

The full list of hazards, each at its line and with the properties that cover it, is
`hazards` in `PROJECT.json`.

## 2. Modules

| module | what it is |
|---|---|
| `Drain` | abstract: members join and leave, the barrier is drained once none is left; who comes later is refused and leaves by itself |
| `ServerQuiescing` | detailed model of `QuiescingHelper.swift` |
| `ServerQuiescingProofs` | inductive invariant and the safety theorems |
| `ServerQuiescingRefinement` | `ServerQuiescing` implements `Drain` |
| `ResumableUpload` | handlers, uploads, token table, child channels, client and application |
| `ResumableUploadProofs` | its inductive invariants: who knows whom, what is registered and timed; what was answered and ended |
| `ResumableUploadDelivery` | on top of it: the application sees the client's file |
| `RequestResponse` | the four request/response handlers and the peer they talk to |
| `RequestResponseProofs` | its inductive invariant and safety theorems |
| `ProxyConnect` | the handler that asks an HTTP/1 proxy for a tunnel, its channel, the proxy and the application |
| `ProxyConnectProofs` | its inductive invariant and safety theorems |
| `SOCKSMessages` | the SOCKS messages as bytes and the readers that find them in a buffer |
| `SOCKSHandshake` | both handlers of a SOCKS connection, the bytes between them and their applications |
| `SOCKSHandshakeProofs` | the writes of the client, the tunnel and the agreement of the sides: inductive invariants and safety theorems |
| `PCAPRing` | the ring buffer of captured fragments, as operators |
| `PCAPFileSink` | the file sink, its work queue and the thread that closes it |
| `WritePCAP` | the capture handler on a channel, with either of the two behind it |
| `WritePCAPProofs` | the inductive invariants of the file, the ring and the capture, and the lemmas about sequences they need |
| `Checksums` | `adler32.c` and `crc32.c` |
| `DeflateTrees` | `trees.c`: blocks, Huffman trees and their bits, the pending buffer |
| `DeflateMatch` | the first half of `deflate.c`: window, hash chains, the search for matches, the five strategies |
| `DeflateStream` | the second half of `deflate.c`: what each call does to a stream |
| `DeflateFormat` | abstract: the three formats, a decoder written from RFC 1950, 1951 and 1952 |
| `Deflate` | a compressor and the program that drives it |
| `InflateTables` | `inftrees.c`: the decoding tables |
| `InflateStream` | `inflate.c` and `inffast.c`: what each call does to a stream |
| `Inflate` | a decompressor and the program that drives it |
| `MC*` | instances for TLC |

Definitions that begin with the comment "Mutant" are deliberately wrong variants of
the definition that follows them; no specification uses them. Each stands for a
plausible bug, and shows that the property it is paired with in `PROJECT.json` would
notice it.

### ServerQuiescing

`lifecycle`, `openChannels` and `fullyShutdownPromise` are `LifecycleStateMachine`.
Each task of the server's event loop is one action; `initiateShutdown0` is two
(`BeginShutdown`, `FinishShutdown`), because between them the code fires
`ChannelShouldQuiesceEvent` and closes the server, both of which run user code: the
actions that can happen there are exactly those that such code, running on the
server's loop, can cause. A child of another loop closes on its own and its
`channelRemoved0` is queued (`removing`). A child that arrives after the end is refused with
`close(promise: nil)`, which is a task of the child's loop (`closing`, `CloseRefused`): until it has
run the child is open and not registered, and callers may have been told of success already.
`crashed` records a failed precondition.
Not modelled: a second `makeServerChannelHandler` on one helper (a programming error
whose effect depends on a promise completed twice) and a `channelRead` fired into
the collector by a handler of the server while `initiateShutdown0` runs.

### ResumableUpload

A state `s` with the fields `hd`, `up`, `app`, `uploads` and `queue` is threaded
through operators named after the methods of `HTTPResumableUpload` and
`HTTPResumableUploadHandler`, because those methods call each other inline when the
two share a loop and through a queued task when they do not (`WithUpload`,
`WithHandler`). The client is part of the model: it creates, appends, asks for the
offset and cancels; it announces and sends exactly its file. A body part is one byte and carries its position in the client's file, which is what lets
`FileDelivered` say what the application must see. The application writes a head
and an end, and closes; `AppCloses` lets it close from inside `errorCaught` or
`channelInactive`. An application that uses a channel after it became inactive is
not modelled, nor are reads, back-pressure, writability and header formatting.

### RequestResponse

One module for the four handlers, which differ in the buffer of promises and in the
type of promise only; `kind` says which a channel has (`Ordered`: a FIFO; otherwise a
dictionary by request ID). The state machine is `RequestResponseHandlerState`. The peer
of an ordered handler answers in order, as the handler requires; the other one answers
in any order and sends responses to nothing (`Strays`). A handler nearer to the network
may refuse a request (`Refusing`), a connection may be lost, and a channel closed after
an error may still deliver reads until it becomes inactive.

### ProxyConnect

`state`, `buffer`, `marked`, `promise` and `timeout` are the fields of
`NIOHTTP1ProxyConnectHandler` (a `MarkedCircularBuffer` is a sequence with at most one
marked element, the last one a flush found). The application's writes are numbered; message 0 is the CONNECT
request. `handleHTTPEndReceived` replays the writes inside `removeHandler`, and every
write and flush of that loop calls other handlers, which may write and flush again: the
loop is one step per write (`DrainWrite`, `DrainEnd`), with the application's `Write` and
`Flush` in between, and the handler is `draining` meanwhile. Tasks of the event loop (the
deadline, `channelInactive`) cannot run in that loop. `out` is what was passed on while
the channel was active; after that a write fails, as NIO fails it. The HTTP decoder
delivers one head, then body parts, then the end; an answer starts after the request.

### SOCKSHandshake

`SOCKSMessages` translates the codec: what a message is as bytes, and for each reader
whether a buffer holds too little, something else, or a message and how long it is
(`parseUnwindingIfNeeded` is why a reader that needs more consumes nothing). Nothing is
recursive, so proofs may use it.

`SOCKSHandshake` puts `SOCKSClientHandler` and `SOCKSServerHandshakeHandler` at the ends of
two byte queues that deliver any number of bytes at a time. A write of the tunnel is one
byte whose value says whose and which it is. `handleProxyEstablished` fires an event, hands
on what followed the handshake and replays the buffered writes; each of these calls runs
code that may write, flush and remove the handler. What a call has left to do is kept in
`stack` (`established`, `empty`, `marked`, `rest`, `leave` name the rest of the methods), a
nested call puts its work on top, and `Continue` resumes the topmost. Nothing arrives and
nothing is torn down while the stack is not empty: those are tasks of the event loop. A
handler that was removed while a call is on the stack is disconnected: what it fires goes
nowhere, and what it writes fails. The server's application answers a greeting and a
request as it likes and removes its handler after its response was written.

### WritePCAP

`WritePCAP` composes the capture handler with `PCAPRing` (`NIOPCAPRingBuffer`) or
`PCAPFileSink` (`SynchronizedFileSink`): `fileSink` says which of the two the handler was
given, as its users give it one or the other. A record keeps its sender, flags, sequence and
acknowledgement numbers and payload; its layout is left out, and addresses are the two sides.
A byte carries its number and the event loop of its write's promise, so that
`CaptureIsTheConversation` can compare the capture with what was read and sent. The callback
of a promise of another loop hops over (`hopping`, `Hop`) and may arrive after the records of
the end. Sequence numbers are counted modulo `Width`; `initiatorSeq + 1` does not wrap in
Swift, so `ChannelInactive` may set `crashed`, and nothing happens after that.

The handler never asks whether its channel is active. A write reaches it at any time: a channel
that connects keeps it, one that is closed fails it, and with `whenIssued` it is captured either
way. What else can happen before `channelActive` depends on the channel (`Embedded`): a
socket reads, completes writes and closes a half only afterwards, an `EmbeddedChannel` does all
of it, and ends, without being active. `early` and `first` mark the place in the capture
where `channelActive` put its handshake and set both counters to 1. A close that the channel
refuses (`CloseRefused`), whatever its mode, is taken for the end by the handler. The
runs check a socket; the theorems hold for both. The sink is
closed once, by `close()` or `syncClose()`, at any time; a write that fails may have written
a part of its buffer, which `file` (the buffers written in full) leaves out.

Not modelled: a handler added to a channel that is active already, its removal, and pairs of
addresses of different families (which makes every record an error).

### zlib

The stream a program hands to zlib is a record `s` that holds the fields of
`cnioextras_z_stream` and of its state under their own names. Every function of the library
is an operator that takes `s` to the next one; a call runs to its end without anything
between, so it is one action of `Deflate` or `Inflate`. What C keeps in pointers into buffers
is kept as sequences: `next_in` is the input not yet read, `next_out` the output of this
call, `hold` and `bi` the bits of the bit buffers. `DeflateMatch`, `DeflateTrees` and
`InflateStream` keep every loop, early return and resumption of the code; where the code has
one body for speed and one for size (unrolled loops, `FASTEST`, `LIT_MEM`) the one this build
compiles is modelled.

What C leaves undefined or unseen is made visible. `malloc` gives memory filled with any of
`Garbage`, which reaches `window`, `prev` and `pending_buf`. `torn` and `overrun` record that
the compressor wrote bits over symbols still to be read or beyond its buffer, `astray` that
`inflate_fast` read or wrote outside what it was given. No action has
a guard that prevents either; `BuffersHold` and `NeverAstray` say that they never happen.

`DeflateFormat` owes nothing to the code: it finds codes by counting, has no tables, no
window and no state between calls, and tells of a prefix of a stream whether it goes on,
ends, is wrong, or asks for a dictionary. `Deflate` and `Inflate` compare the library with it
after every call. So neither half of the library is checked against the other, where a
mistake common to both would not show.

The sizes of the code are constants of the modules, with the values of the code in the
comments: `WShift` divides the window, `LitShift` and `HashShift` set the symbol buffer and
the hash table, `MAX_MATCH`, `TOO_FAR` and `MAX_STORED` bound a match, a short match and a
stored block, `LenRoot` and `DistRoot` are the index bits of the first tables, `NMAX`, `BATCH`
and `BATCH_MIN` say how much is added up before a reduction. The relations the code relies on
are `ASSUME`s. The formats themselves are not scaled: codes, headers and trailers are real.

A CRC register is four bytes and its polynomial arithmetic is done on them, so `Checksums`
computes the values of the standard. The tables of `nioextras-crc32.h` are the operators that
define them, of which the map names the lines of the table each stands for.

## 3. Runs

All runs finish with no bound reached other than the ones named here.

| run | question | instance |
|---|---|---|
| `quiescing` | registry, told once, success means drained, no crash, the shutdown ends, callers are answered, refused children close, refinement of `Drain` | 3 children (1 on the server's loop, 2 elsewhere), 2 calls (1 without promise) |
| `upload` | the file is delivered in order and ended once whole (`FileDelivered`), whatever is open is registered, attached both ways and timed (`Reachable`), one response for each request and one end for each upload and channel (`EachEndsOnce`) | 2 connections of one loop with 2 requests each, 1 upload, a file of 2 bytes, errors that leave the connection open; `Orderly` client and application (section 5) |
| `upload_loops` | delivery across two loops (`FileDelivered`), no channel that stays open with nobody to feed it (`NoOrphanChannel`) | 2 connections on 2 loops with a request each, 1 upload, a file of 1 byte, a client that appends to complete uploads (`Reopens`), an application that closes in callbacks (`AppCloses`) |
| `requests` | every promise gets its own response or the error that stopped the handler, once; a closing channel completes all | either handler, 3 requests, 2 errors, 2 strays |
| `requests_shifted` | the same with refused requests on an ordered handler (violated) | see section 6 |
| `proxy` | writes keep their order and flushes and none is lost (`WritesKept`), the promise is true and is completed, no `preconditionFailure` | 4 writes, one handler, any answer, any close |
| `socks` | order, loss and duplication of the tunnel's bytes and writes in both directions, agreement of the two sides, no spurious error, an end of the handshake | 2 writes and 2 server writes, a target and a bound address of the shortest form with every field, all splits |
| `socks_lost_writes` | buffered writes when the channel closes (violated) | see section 6 |
| `pcap` | the capture is the conversation, the ring holds its end, the file its beginning, closing returns | a socket, 2 reads or writes of 0 or 3 bytes before, during or after the connection, payloads of at most 2, sequence numbers of 2 bits, a ring of 2 fragments and 3 bytes |
| `pcap_wraps` | no crash however many bytes went through (violated) | see section 6 |
| `deflate` | what was sent decodes to what was given (`RoundTrip`), flushes deliver and forget, no buffer overruns, the window keeps its place, the last call comes to an end | 8 programs of 2 calls and a finish: all five strategies, levels 0, 1, 4, 6 and 9, raw, zlib and gzip, each kind of flush, dictionary, prime, header, level changes, copies; inputs of 6 to 80 bytes over a window of 32 |
| `inflate` | the answer to every prefix of an input (`AgreesWithFormat`), the window, the fast loop, synchronisation, check values, header fields, the places told | 27 inputs of up to 50 bytes, right, damaged and broken in every way the code has a message for; chunks from none or one byte to everything, rooms from none to 900 |

Why the bounds are enough: the registry treats children alike, so three show every
combination of "captured", "late" and "closed too early", and a second call shows the
cascade. An upload has one attached handler at a time, so two connections show
replacement, competition and late tasks, and a file of two bytes has a first, a middle
and a last offset; over two loops a file of one byte still has an offset at its beginning
and one at its end, and the theorems say the rest. An application that answers before the end
(`EarlyResponse`) is in no run: the theorems on delivery and reachability hold for it. Four writes can be before, during and after the
replay in every combination. In `pcap` two transfers wrap the sequence
numbers, fill a payload twice, exceed either limit of the ring alone and both together, and leave
one write queued behind one that fails.

In `deflate` and `inflate` the scaled sizes make the rare the usual: a window of 32 bytes with matches
of at most 10 slides in 80 bytes of input and wraps in any output longer than it, a symbol
buffer of 7 fills up, a stored block ends at 40 bytes, second tables and the long way through
`inflate_fast` are reached by codes of 5 bits. What a size other than these could bring is the
arithmetic between them, which the `ASSUME`s name and the code states in comments; `NeverAstray`
is checked with the real 258 of a match, and `inflateCodesUsed` against the real 852 and 592.
Two calls before the last one put any two operations in either order, and a room of one byte
makes the last one as many calls as there are bytes. A CRC is taken in one
braid in `deflate` and in two in `inflate`; the number of braids changes how many words they skip and
from what length on they are used, and two are the least that interleave.

The theorems of section 5 remove the bounds for the
quiescing helper, resumable uploads (`FileDelivered`; `Reachable` and `EachEndsOnce` on one loop), the request/response handlers,
the proxy handler, the SOCKS handshake and the PCAP capture.

`CHECK_DEADLOCK FALSE` everywhere: each of these systems may legitimately stop (all
children closed, all requests spent, channel inactive, stream ended).

## 4. Fairness

Weak fairness is assumed only of what NIO does by itself: an event loop runs the tasks
it was given (the queued close of a refused child among them), a timer fires, a closed
connection reports `channelInactive`. In
`quiescing` a child that was told to quiesce closes in the end; that is the
contract of `ChannelShouldQuiesceEvent`, and without it no shutdown can be expected to
complete. In `proxy` a connection attempt succeeds or fails and the deadline comes. In `socks` the
bytes of the network arrive, callbacks return, and the server's application answers what it
is asked: the library does not answer for it, and without it no handshake can end. In `pcap` the
work queue of the sink runs what it was given.
Otherwise clients, peers and applications owe nothing: no request has to be sent, no
response to arrive. `deflate` and `inflate` assume no fairness: zlib acts only when called, so
that a compressor comes to its end is an action property (`FinishGoesOn`: each call of the
last phase ends the stream or fills its room), not a temporal one.

## 5. Proofs

`ServerQuiescingProofs` proves, for any sets of children and callers, that `IInv` is
inductive and implies the safety properties of the `quiescing` run. `IInv` adds to them

* `Shutdown`: while shutting down with an empty registry, `initiateShutdown0` is still
  running and captured an empty registry, so its own test will complete the shutdown;
  and while it runs, the registry is a subset of what was captured. Without this,
  `ShutdownCompleted` could be reached twice, or never.
* `Told`: nobody is told before the captured children are, and captured and late
  children do not overlap; this makes "exactly once" inductive.
* `SuccessMeansCompleted`: which, with `Registry`, gives `SucceededMeansDrained`: after a success
  every accepted child is closed, but for those that arrived after the end, were refused and
  wait for the task of their own loop (`closing`). `Registry` says that this is the only way a
  child can be accepted, open and unregistered, and only after the end; that such a child does
  close is the last part of `ShutdownTerminates`.

`ServerQuiescingRefinement` uses the same invariant to show that every step is a step
of `Drain` under the mapping `phase`, `live`, `refused`, `told`, or leaves those unchanged.

`ResumableUploadProofs` proves, for any number of connections, uploads and event loops, that
an upload whose channel is open is registered and that one nobody feeds is timed
(`RegisteredAndTimed`), and, if all connections share one loop (`OneLoop`), that upload and
handler refer to each other (`ReachableAlways`). `OneLoop` is what `Reachable` needs: with several
loops a handler learns of its upload, or that it lost it, by a task that may be late, and the run
checks it on one loop too. The methods of the two classes call each
other to a depth of six or so, so the proof follows the operators: for each a lemma says that it
keeps `Sound` (the conjuncts of the invariant but the timer's) from what its callers establish, and `Timed`
is added where the code has set or cleared the timer again. The invariant says of a state

* `Unused`, `Placed`: an upload that was not created is known to nobody, and a task of an upload is
  in the queue of its loop;
* `Idle`: a handler between two requests is attached to nothing it could feed;
* `Registered`, `Timed`: the two theorems; `Together`: on one loop no task is ever queued, so
  that the references on both sides change together.

The same module proves `EachEndsOnce` (`OnceOnOneLoop`), for any connections, uploads and requests,
where `Orderly` holds; each of its four conjuncts excludes a behaviour of the code that breaks the
property, all of them described at the end of section 6:

* all connections share one loop: a second end needs three connections over two loops;
* `~Reopens`: no client appends to an upload that is complete, which would see a second end;
* `~EarlyResponse`: the application answers behind the end, or a request whose end comes later is
  answered again;
* `~AppCloses`: the application does not close in a callback, or the idle timer makes the channel
  inactive twice.

Errors may leave a connection open or not. `EachEndsOnce` counts, and no count is inductive
by itself. `Once` adds who has still to be counted: a connection has at most one request that is not
answered (`Balanced`); an upload owes the handler it writes to the head until the application
has written one, and then the end (`Owes`); once the application was shown the end, the body of that
request is over and a resumable upload is complete, so nobody can end it again (`EndsAt`);
and a channel that is open has not been inactive. The run `upload` checks `EachEndsOnce` on the
same terms, with 2 connections of 2 requests each; over several loops it is claimed nowhere,
because the code does not keep it. The proof needs `IInv` too: it is `Together` that lets a response be counted in the step that sends it. `Spares` says for
the methods that let an upload go what `Retreats` says of the references: they change no
count but that of the channel they end, which they find open.

`ResumableUploadDelivery` proves `FileDelivered` from it, over any number of loops. Between a handler and its
upload lies the queue of the upload's loop. What the upload expects of the handler
(the position of its next byte, and whether its end is that of the file) and what the handler has
still to send are related by the tasks between them: `Courses` says that a path of
expectations, one for each task, leads through the queue from the one to the other. Queueing a
task makes the path longer, running one makes it shorter, and a task of a handler that was
replaced meanwhile belongs to no path and is refused. The position alone would not do: a queued
append changes what is expected of all the tasks behind it.

`RequestResponseProofs` proves the safety properties of the request/response handlers
for any requests, errors and strays. What is buffered is pending, and no two buffered
promises are found by one response (`Separate`), so a promise is completed once. The
key to FIFO matching is `Line`: while the handler is operational and its channel active, the outstanding promises are, in order,
those of the responses that have arrived followed by those of the requests the peer
has not answered.

`ProxyConnectProofs` proves the safety properties of the proxy handler for any number of
writes. Its invariant says that the writes lie in a line (`Line`): what was passed on
comes first, then what was failed, then what is buffered, and the buffer follows directly
on what was passed on as long as the tunnel is usable. `SentInOrder` alone is not
inductive: a replayed write would not be known to be the next. `SentInOrder`, `NoWriteLost` and
`FlushKept` are the conjuncts of `WritesKept`, which the run checks and `WritesAreKept` proves.

`CompletedOnce` (a completed promise stays as it is) and `TunnelFirst` (nothing is passed on
before the tunnel) are proved and not listed in a run.

`SOCKSHandshakeProofs` proves the safety properties of the SOCKS handshake for any number of
writes, any addresses and any way the bytes are split. For `WritesKept`: calls out of the client's handler nest, so the stack may
hold the rest of many flushes and removals. The invariant says what that rest is good for:

* `Leaving`: a call about to end the handler finds the buffer empty (the loop over the
  marked writes is always followed by the one over the others), bytes that followed the handshake
  wait only for a call that will hand them on, and a removal that was asked for only for one that
  will carry it out;
* `Line`: so the handler never leaves an open channel with writes in its buffer, and until the
  channel closes the buffer continues what was passed on; afterwards each write that leaves it fails;
* `Marks` and `Flushes`: what was flushed was passed on, or the mark is where it ends; it was
  flushed further down, or the call on top of the stack has still to do it. "On top" matters: a
  handler that a nested call removed no longer flushes for the calls below.

For that it does not matter which bytes make a message, only that a reader waits, finds one or
fails. `TunnelIsTransparent` and `Agreement` are about those bytes, and rest on two more invariants:

* `HeldInv`: as long as bytes that followed the handshake are held back, a call on the stack will
  hand them on before any call below it ends the handler (`Emptying`); so a handler that leaves an
  open channel takes none with it. `NothingStays` says this only of the moments when every call
  has returned;
* `BytesInv`: the connection is in one of eleven stages (`NotBegun` ... `Tunnel`, and three of a
  refusal). In each the states of both sides, the messages the server received and what is between
  the sides (`Up` and `Down`: what one flushed and the other has not read, its inbound buffer
  included) are known exactly. `Agreement` is not inductive without the bytes: a server may
  have granted the request while the client's copy of the answer is still two pieces.

A step that reads cuts `Up` or `Down` anywhere. `MessageFront` says that the buffer then begins like
the message that the stage names, and the `Reads` lemmas that a reader given such a buffer asks for
more until the whole message is there and then takes exactly that: so the stage stays or is the
next one, and what is behind a response is the beginning of the tunnel.

`WritePCAPProofs` proves the safety of the capture for any limits of the ring, sizes of reads and
writes, payload size, number of transfers and width of sequence numbers. Three invariants
rest on the types:

* `FileInv`, for `FileKeepsPaceAlways` (the safety half of `FileIsTheCapture`): what was captured is the file followed by the buffers of
  the work queue, which continue it without a gap, with the close at one place of it (`Line`) and
  behind everything that was captured when `close` was called. That the file is a beginning of the capture is not
  inductive: it does not say that the next buffer to be written is the next fragment. After an
  error nothing is written any more, so nothing is asked of the queue.
* `RingInv`, for `RingIsLatestAlways`: there is a place from which on the ring holds the capture, it
  keeps both limits from there and would break one from the place before. `AddIs` shows that dropping the first
  fragments after a new one was appended, as the code does, finds that place again. It rests on
  partial sums: the bytes between two places are a difference (`BytesBetween`), so dropping more never
  weighs more.
* `ConversationInv`, for `CaptureIsTheConversationAlways`: `Counted` ties the handler's two counters to what
  was captured since they were last set (`Late`: since `channelActive`, or from the beginning where
  it never came), which makes the next record the one that goes on (`Numbered`), in the part
  before the handshake (`Before`) and in the part from there on (`Behind`); `Said` counts
  callbacks that are hopping over with what was captured, loop by loop, since only the order
  on one loop is kept; `Waits` says whose bytes they are; `HearsAll` that nobody has closed as long
  as reads are captured; `Starts` that `channelActive` comes at most once,
  before which the numbers begin at 0. That the records of a read or a write go on from the counters
  however it is cut into payloads is `DataGoesOn`.

The model's sums and concatenations are folds and `FlattenSeq`. What they compute for any input is
proved by induction told of a set (`Induction`, from `NatLessThanWellFounded` and `WFMin`, which
take no operator): `TotalIs` and `FlattenIs` say that they equal any function that adds or concatenates
one by one. `SelectSeq` is opaque to the proof system, so the properties of `WritePCAP` pick bytes with `FlattenSeq`.

Assumptions: only the `ASSUME`s of the modules (constants of the right type, special
values outside the sets they are added to).

Liveness, and the refinement's fairness, are checked by TLC only: temporal reasoning
about `ENABLED` is out of the proof system's reach. Of `SOCKSHandshake` that a handshake ends, and of
`FileIsTheCapture` that a close returns, are model-checked only. The zlib modules stay
with TLC: what they compute for every input is a matter of induction over data of their own
shape, and they use recursive operators, which the proof system does not take.

## 6. Where the code and its documentation disagree

Each is a run with `expect: violation`; `findings` in `PROJECT.json` quotes the line.

* `requests_shifted` – a request whose write fails below the handler leaves its promise
  in the FIFO, and the responses that follow complete the wrong promises.
* `socks_lost_writes` – the SOCKS client handler does nothing when its channel closes
  before the tunnel is there, and the promises of its buffered writes are never completed.
* `pcap_wraps` – the capture handler adds one to a 32-bit sequence number without
  wrapping, and stops the process when a connection ends exactly there.

Seen while modelling, and kept out of the assumptions under which the runs pass rather
than in a run of their own:

* a detach queued for another loop can take the context away from the handler's next
  request, since it runs after the handler was attached again
  (`HTTPResumableUpload.swift:262`); in `upload_loops` every handler serves one request;
* the promise of `initiateShutdown` fails at once when closing the server fails, though
  children are still open (`QuiescingHelper.swift:249`);
* a body part that would exceed the announced length moves the offset but is not
  delivered (`HTTPResumableUpload.swift:443`); the client of the model is honest;
* the idle timer leaves the upload in the token table, so later requests are attached to
  an upload without a channel (`HTTPResumableUpload.swift:272`);
* an incomplete request that the application answered already is answered again at its
  end (`HTTPResumableUpload.swift:472`; `EarlyResponse`);
* an upload that is complete but unanswered accepts another append and sees a second
  end (`HTTPResumableUpload.swift:323`; `Reopens`);
* a second request with the ID of an outstanding one replaces its promise, which an
  error or a close then does not fail (`RequestResponseHandlers+State.swift:109`;
  `Lossless` in the proofs).

Also seen: a child of another loop that arrives after the shutdown is still open for a
while after its promise succeeded (`QuiescingHelper.swift:200`, `317`); a flush that comes while the last buffered write is being replayed finds
nothing to mark and is lost (`HTTP1ProxyConnectHandler.swift:87`); the SOCKS server handler
fires its event before the response is written, so a server that removes the handler inside
the event loses the response (`SOCKSServerHandshakeHandler.swift:114`); it takes one message
per read from its buffer, so a client that does not wait for the method stalls
(`SOCKSServerHandshakeHandler.swift:50`); a domain of more than 255 bytes traps
(`SOCKSRequest.swift:218`). After `close(mode: .output)` the PCAP handler captures no reads
although the channel still delivers them (`WritePCAPHandler.swift:475`), and writes whose
promises live on other loops are captured late, after other writes and after the end
(`WritePCAPHandler.swift:543`). Writes before `channelActive` are captured before the handshake
with numbers from 0, and those after it begin at 1 again (`WritePCAPHandler.swift:342`); a close the
channel refuses stops the capture of reads for good (`WritePCAPHandler.swift:576`).
`CaptureIsTheConversation` says so of the numbers and of the reads. The error handler of the file sink runs on its work queue as
part of the group `syncClose()` waits for, so calling `syncClose()` from inside it never
returns (`WritePCAPHandler.swift:817`, `861`).

Also seen, with nothing in the repository that says otherwise: with an application that
closes its channel from `channelInactive`, the idle timer's `end()` makes the channel
inactive twice (`HTTPResumableUpload.swift:272`), because `uploadChannel` is cleared
only afterwards.

With three connections over two loops an upload can deliver its end twice: the handler that
completed it is detached by an offset request of a second connection before the
application was told, and an append of a third at the end of the file, queued before the
completion, is attached and ends it again (`HTTPResumableUpload.swift:323`, `457`). So
`EachEndsOnce` is not a property of the code over several loops. On one loop this cannot happen, as
`OnceOnOneLoop` proves, and it is claimed there only.

In zlib, where nothing in the repository says otherwise, and the properties allow it:

* once the trailer is being read `out` is set to what is left, so that the window may never get
  the output of that call (`inflate.c:1081`); nobody decodes from it after that, but
  `inflateGetDictionary` shows it. `WindowIsHistory` asks for everything only while blocks are decoded;
* a distance beyond the window is accepted when what it refers to was put out by the same call, so
  whether such data are refused depends on the room given (`inflate.c:1022`, `inffast.c:167`).
  `AgreesWithFormat` therefore compares with two readings of the format, with and without the limit;
* a block whose code for code lengths has no code at all is refused only after as many bits were read
  as it has lengths, for want of an end of block (`inftrees.c`, `max == 0`);
* a stream opened with `windowBits` 0 that meets `inflateSync` before a header keeps a window
  of `2^0` bytes. No program of the run does both;
* the formula of `deflateBound` rests on the real sizes of blocks and stored blocks, so
  `BuffersHold` compares with it only where the input is less than one block.

## 7. Not modelled

* Frame codecs, debug handlers, certificate reloading, HTTP compression and responsiveness, the
  HTTP types codecs and NFSv3: planned (section 8) as far as they keep state. The debug handlers, the
  demos and the performance tests have none of their own.
* Resumable upload: the reads of the child channel and their back-pressure; its writes, its end, its
  errors and its timer are modelled.
* SOCKS: the exchange of authentication data, which the library leaves to the application, and targets
  given as a URL.
* zlib: the version checks of the `*Init_` functions, `inflateUndermine` (which only refuses in this
  build), failing allocations of the compressor, the code that makes the generated tables, and the
  builds `FASTEST`, `LIT_MEM`, `INFLATE_STRICT` and debug.

## 8. Plan

In order of importance; each with its run, mutants and, where noted, proofs.

1. `CertificateReload` – rotation against reload, concurrent reloads; proof that the
   pair in use matches.
2. `ResponseCompression`, `Responsiveness` – pipelined encodings, promises of buffered
   writes; the dripping handler under re-entrancy.
3. `Framing` – the decoders against a reference parse over all splits of small inputs.
4. `HTTP2Headers`, `NFSDispatch`.
5. `UploadReads` – the read and back-pressure half of resumable uploads.
