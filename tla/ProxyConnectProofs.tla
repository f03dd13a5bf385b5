-------------------------- MODULE ProxyConnectProofs --------------------------
(***************************************************************************)
(* The safety of NIOHTTP1ProxyConnectHandler for any number of writes.     *)
(*                                                                         *)
(* The argument is that the writes lie in a line: what was passed on comes *)
(* first, then what was failed, then what is buffered.  As long as the     *)
(* channel is active and the handshake has not failed nothing is failed,   *)
(* so the buffer continues what was passed on, which is what keeps a write *)
(* that is passed on in its place.                                         *)
(***************************************************************************)
EXTENDS ProxyConnect, SequenceTheorems, TLAPS

-----------------------------------------------------------------------------
(* The inductive invariant.                                                *)

\* What the state of the handler says of everything else.
Phases ==
  /\ handler = "absent" => state = "initialized" /\ count = 0
  /\ handler = "removed" => state \in {"failed", "completed"}
  /\ handler = "draining" => state = "completed"
  /\ state = "completed" => handler \in {"draining", "removed"}
  /\ channel = "connecting" => state = "initialized"
  /\ state = "initialized" => out = <<>> /\ ~timeout
  /\ state \in {"connectSent", "headReceived"} => out = <<0>>
  /\ state \in {"initialized", "connectSent", "headReceived"} => Len(buffer) = count
  /\ state = "failed" => channel \notin {"connecting", "active"} /\ Len(out) <= 1
  /\ state = "failed" \/ handler = "removed" => buffer = <<>>
  /\ promise = "failed" <=> state = "failed"
  /\ promise = "succeeded" => state = "completed" /\ handler = "removed"
  /\ handler = "removed" => promise # "pending"

\* How far the answer of the proxy has got, by the state of the handler.
Answer ==
  /\ proxy = "silent" => state \notin {"headReceived", "completed"}
  /\ proxy = "head" => state \in {"headReceived", "failed"}
  /\ proxy = "end" => state \in {"completed", "failed"}
  /\ ~crashed

\* The writes lie in a line: passed on, failed, buffered.
Line ==
  /\ \A i \in DOMAIN buffer : buffer[i] = (count - Len(buffer)) + i
  /\ Len(buffer) <= count
  /\ Len(out) <= (count - Len(buffer)) + 1
  /\ failed = {w \in 1..count : Len(out) <= w /\ w <= count - Len(buffer)}
  /\ state = "completed" /\ channel = "active" => Len(out) = (count - Len(buffer)) + 1

\* What was flushed has been flushed further down, or is marked in the buffer.
Flushes ==
  /\ flushed <= Len(out)
  /\ asked <= count
  /\ Len(out) > 0 => flushed > 0
  /\ channel \in {"connecting", "active"} /\ state # "failed" /\ asked > 0 =>
       flushed >= asked + 1 \/ asked \in marked \cap ToSet(buffer)

\* The inductive invariant.
IInv == TypeOK /\ SentInOrder /\ Phases /\ Answer /\ Line /\ Flushes

-----------------------------------------------------------------------------
(* Sequences.                                                              *)

\* A queue whose elements are a line of numbers holds an interval.
LEMMA ToSetLine ==
  ASSUME NEW T, NEW s \in Seq(T), NEW n \in Nat, \A i \in DOMAIN s : s[i] = n + i
  PROVE  ToSet(s) = (n + 1)..(n + Len(s))
<1>1. DOMAIN s = 1..Len(s) /\ Len(s) \in Nat
  BY LenProperties
<1>2. ASSUME NEW w \in (n + 1)..(n + Len(s)) PROVE w \in ToSet(s)
  <2>1. w - n \in DOMAIN s /\ s[w - n] = w
    BY <1>1
  <2> QED
    BY <2>1 DEF ToSet
<1>3. ASSUME NEW i \in DOMAIN s PROVE s[i] \in (n + 1)..(n + Len(s))
  BY <1>1
<1> QED
  BY <1>2, <1>3 DEF ToSet

\* What was passed on is bounded by the number of writes.
LEMMA OutIsShort ==
  ASSUME TypeOK, SentInOrder
  PROVE  Len(out) \in 0..(MaxWrites + 1)
<1>1. DOMAIN out = 1..Len(out) /\ Len(out) \in Nat
  BY LenProperties DEF TypeOK
<1>2. CASE Len(out) = 0
  BY <1>2, WritesAssumption
<1>3. CASE Len(out) > 0
  <2>1. Len(out) \in DOMAIN out
    BY <1>1, <1>3
  <2>2. out[Len(out)] = Len(out) - 1
    BY <2>1 DEF SentInOrder
  <2>3. out[Len(out)] \in 0..MaxWrites
    BY <1>1, <2>1, ElementOfSeq DEF TypeOK
  <2> QED
    BY <1>1, <2>2, <2>3, WritesAssumption
<1> QED
  BY <1>1, <1>2, <1>3

-----------------------------------------------------------------------------
(* What failing does.                                                      *)

\* After failWithError every write so far has failed, and the promise has.
LEMMA FailWithErrorFailsAll ==
  ASSUME IInv, state # "completed", FailWithError
  PROVE  /\ state' = "failed"
         /\ promise' = "failed"
         /\ buffer' = <<>>
         /\ marked' \subseteq 1..MaxWrites
         /\ failed' = 1..count
<1>1. /\ count \in Nat
      /\ Len(out) \in Nat
      /\ buffer \in Seq(1..MaxWrites)
      /\ Len(buffer) \in Nat
  BY OutIsShort, LenProperties, WritesAssumption DEF IInv, TypeOK
<1>2. CASE state = "failed"
  <2>1. /\ buffer = <<>>
        /\ Len(buffer) = 0
        /\ Len(out) <= 1
        /\ failed = {w \in 1..count : Len(out) <= w /\ w <= count - Len(buffer)}
    BY <1>2 DEF IInv, Phases, Line
  <2>2. failed = 1..count
    <3>1. \A w \in 1..count : Len(out) <= w /\ w <= count - 0
      BY <1>1, <2>1
    <3> QED
      BY <2>1, <3>1
  <2> QED
    BY <1>2, <2>1, <2>2 DEF FailWithError, IInv, Phases, TypeOK
<1>3. CASE state # "failed"
  <2>1. state \in {"initialized", "connectSent", "headReceived"} /\ promise = "pending"
    BY <1>3 DEF IInv, Phases, TypeOK
  <2>2. Len(buffer) = count
    BY <2>1 DEF IInv, Phases
  <2>3. \A i \in DOMAIN buffer : buffer[i] = 0 + i
    BY <1>1, <2>2, LenProperties DEF IInv, Line
  <2>4. ToSet(buffer) = 1..count
    BY <1>1, <2>2, <2>3, ToSetLine
  <2>5. failed = {}
    BY <1>1, <2>2 DEF IInv, Line
  <2> QED
    BY <1>3, <2>1, <2>4, <2>5 DEF FailWithError
<1> QED
  BY <1>2, <1>3

\* A handler in the pipeline that fails on a channel that is no longer used.
LEMMA FailingKeepsInvariant ==
  ASSUME IInv, FailWithError, handler = "added",
         UNCHANGED <<count, out, flushed, asked, crashed>>,
         handler' \in {"added", "removed"},
         channel' \in {"closing", "closed"},
         timeout' \in BOOLEAN,
         announced' \in BOOLEAN,
         proxy' \in {"silent", "head", "end"}
  PROVE  IInv'
<1>1. /\ state' = "failed"
      /\ promise' = "failed"
      /\ buffer' = <<>>
      /\ marked' \subseteq 1..MaxWrites
      /\ failed' = 1..count
  BY FailWithErrorFailsAll DEF IInv, Phases
<1>2. count \in 0..MaxWrites /\ Len(out) \in Nat
  BY OutIsShort DEF IInv, TypeOK
<1>3. Len(out) <= 1
  <2>1. CASE state = "initialized"
    <3>1. out = <<>>
      BY <2>1 DEF IInv, Phases
    <3> QED
      BY <3>1
  <2>2. CASE state \in {"connectSent", "headReceived"}
    <3>1. out = <<0>>
      BY <2>2 DEF IInv, Phases
    <3> QED
      BY <3>1
  <2>3. CASE state \in {"failed", "completed"}
    BY <2>3 DEF IInv, Phases
  <2> QED
    BY <2>1, <2>2, <2>3 DEF IInv, TypeOK
<1>4. TypeOK'
  BY <1>1, <1>2, WritesAssumption DEF IInv, TypeOK
<1>5. SentInOrder'
  BY DEF IInv, SentInOrder
<1>6. Phases'
  BY <1>1, <1>3 DEF Phases
<1>7. Answer'
  BY <1>1 DEF IInv, Answer
<1>8. Line'
  <2>1. Len(buffer') = 0 /\ DOMAIN buffer' = {}
    BY <1>1
  <2>2. failed' = {w \in 1..count : Len(out) <= w /\ w <= count - 0}
    BY <1>1, <1>2, <1>3
  <2> QED
    BY <1>1, <1>2, <1>3, <2>1, <2>2 DEF Line
<1>9. Flushes'
  BY <1>1 DEF IInv, Flushes
<1> QED
  BY <1>4, <1>5, <1>6, <1>7, <1>8, <1>9 DEF IInv

-----------------------------------------------------------------------------
(* The steps.                                                              *)

\* Asking the proxy for the tunnel.
LEMMA SendConnectKeepsInvariant ==
  ASSUME IInv, SendConnect, channel = "active",
         handler \in {"absent", "added", "draining"},
         handler' = IF handler = "absent" THEN "added" ELSE handler,
         announced' \in BOOLEAN,
         UNCHANGED <<buffer, marked, promise, failed, crashed, channel, proxy, count, asked>>
  PROVE  IInv'
<1>1. CASE state = "initialized"
  <2>1. /\ state' = "connectSent"
        /\ timeout' = TRUE
        /\ out' = <<0>>
        /\ flushed' = 1
        /\ out = <<>>
        /\ Len(buffer) = count
    BY <1>1 DEF SendConnect, IInv, Phases
  <2>2. Len(out') = 1 /\ DOMAIN out' = {1} /\ out'[1] = 0
    BY <2>1
  <2>3. Len(out) = 0
    BY <2>1
  <2>4. count \in Nat /\ Len(buffer) \in Nat
    BY <2>1 DEF IInv, TypeOK
  <2>5. TypeOK'
    BY <2>1, WritesAssumption DEF IInv, TypeOK
  <2>6. SentInOrder'
    BY <2>1, <2>2 DEF SentInOrder
  <2>7. Phases'
    BY <1>1, <2>1 DEF IInv, Phases
  <2>8. Answer'
    BY <1>1, <2>1 DEF IInv, Answer
  <2>9. Line'
    BY <2>1, <2>2, <2>3, <2>4 DEF IInv, Line
  <2>10. Flushes'
    <3>1. flushed \in Nat /\ asked \in Nat /\ flushed <= 0
      BY <2>3 DEF IInv, TypeOK, Flushes
    <3> QED
      BY <1>1, <2>1, <2>2, <3>1 DEF IInv, Flushes
  <2> QED
    BY <2>5, <2>6, <2>7, <2>8, <2>9, <2>10 DEF IInv
<1>2. CASE state # "initialized"
  <2>1. UNCHANGED <<state, timeout, out, flushed, handler>>
    BY <1>2 DEF SendConnect, IInv, Phases
  <2> QED
    BY <2>1 DEF IInv, TypeOK, SentInOrder, Phases, Answer, Line, Flushes
<1> QED
  BY <1>1, <1>2

\* Passing the oldest buffered write on.
LEMMA DrainWriteKeepsInvariant ==
  ASSUME IInv, DrainWrite
  PROVE  IInv'
<1> DEFINE n == count - Len(buffer)
<1>1. /\ handler = "draining"
      /\ state = "completed"
      /\ promise = "pending"
      /\ buffer # <<>>
      /\ buffer' = Tail(buffer)
      /\ marked' = marked \ {Head(buffer)}
      /\ flushed' = IF Head(buffer) \in marked THEN Len(out') ELSE flushed
      /\ UNCHANGED <<state, timeout, promise, handler, crashed, channel, announced, proxy,
                     count, asked>>
  BY DEF DrainWrite, IInv, Phases, TypeOK
<1>2. /\ buffer \in Seq(1..MaxWrites) /\ Len(buffer) \in Nat /\ Len(buffer) > 0
      /\ Tail(buffer) \in Seq(1..MaxWrites)
      /\ Len(Tail(buffer)) = Len(buffer) - 1
      /\ DOMAIN Tail(buffer) = 1..(Len(buffer) - 1)
      /\ \A i \in 1..(Len(buffer) - 1) : Tail(buffer)[i] = buffer[i + 1]
      /\ Head(buffer) = buffer[1]
  BY <1>1, LenProperties, HeadTailProperties DEF IInv, TypeOK
<1>3. /\ count \in 0..MaxWrites
      /\ out \in Seq(0..MaxWrites) /\ Len(out) \in 0..(MaxWrites + 1)
      /\ n \in Nat
  BY <1>2, OutIsShort DEF IInv, TypeOK, Line
<1>4. Head(buffer) = n + 1 /\ n + 1 <= count
  BY <1>2, <1>3, LenProperties DEF IInv, Line
<1>5. count' - Len(buffer') = n + 1 /\ Len(buffer') <= count'
  BY <1>1, <1>2, <1>3
<1>6. \A i \in DOMAIN buffer' : buffer'[i] = (count' - Len(buffer')) + i
  <2>1. SUFFICES ASSUME NEW i \in 1..(Len(buffer) - 1) PROVE buffer[i + 1] = n + 1 + i
    BY <1>1, <1>2, <1>5
  <2>2. i + 1 \in DOMAIN buffer
    BY <1>2, LenProperties
  <2>3. buffer[i + 1] = n + (i + 1)
    BY <2>2 DEF IInv, Line
  <2> QED
    BY <1>3, <2>3
<1>7. failed = {w \in 1..count : Len(out) <= w /\ w <= n} /\ Len(out) <= n + 1
  BY DEF IInv, Line
<1>8. ToSet(buffer) = (n + 1)..count
  <2>1. \A i \in DOMAIN buffer : buffer[i] = n + i
    BY DEF IInv, Line
  <2>2. n + Len(buffer) = count
    BY <1>2, <1>3
  <2> QED
    BY <1>2, <1>3, <2>1, <2>2, ToSetLine
<1>9. ToSet(buffer') = (n + 2)..count
  <2>1. \A i \in DOMAIN buffer' : buffer'[i] = (n + 1) + i
    BY <1>5, <1>6
  <2>2. (n + 1) + Len(buffer') = count
    BY <1>1, <1>2, <1>3
  <2>3. buffer' \in Seq(1..MaxWrites)
    BY <1>1, <1>2
  <2>4. ToSet(buffer') = ((n + 1) + 1)..((n + 1) + Len(buffer'))
    BY <1>3, <2>1, <2>3, ToSetLine
  <2> QED
    BY <1>3, <2>2, <2>4
<1>10. Phases'
  BY <1>1 DEF IInv, Phases
<1>11. Answer'
  BY <1>1 DEF IInv, Answer
<1> HIDE DEF n
<1>12. CASE channel = "active"
  <2>1. out' = Append(out, n + 1) /\ failed' = failed
    BY <1>1, <1>4, <1>12 DEF DrainWrite, Forward
  <2>2. Len(out) = n + 1
    BY <1>1, <1>12 DEF IInv, Line, n
  <2>3. /\ out' \in Seq(0..MaxWrites)
        /\ Len(out') = n + 2
        /\ DOMAIN out' = 1..(n + 2)
        /\ out'[n + 2] = n + 1
        /\ \A i \in 1..(n + 1) : out'[i] = out[i]
    <3>1. n + 1 \in 0..MaxWrites
      BY <1>3, <1>4, WritesAssumption
    <3>2. /\ out' \in Seq(0..MaxWrites)
          /\ Len(out') = Len(out) + 1
          /\ \A i \in 1..Len(out) : out'[i] = out[i]
          /\ out'[Len(out) + 1] = n + 1
      BY <1>3, <2>1, <3>1, AppendProperties
    <3>3. Len(out) + 1 = n + 2
      BY <1>3, <2>2
    <3> QED
      BY <2>2, <3>2, <3>3, LenProperties
  <2>4. SentInOrder'
    BY <1>3, <2>2, <2>3, LenProperties DEF IInv, SentInOrder
  <2>5. TypeOK'
    <3>1. flushed' \in 0..(MaxWrites + 1)
      BY <1>1, <1>3, <1>4, <2>3, WritesAssumption DEF IInv, TypeOK
    <3> QED
      BY <1>1, <1>2, <2>1, <2>3, <3>1 DEF IInv, TypeOK
  <2>6. Line'
    <3>1. failed' = {w \in 1..count : Len(out') <= w /\ w <= n + 1}
      BY <1>3, <1>7, <2>1, <2>2, <2>3
    <3>2. failed' = {w \in 1..count' : Len(out') <= w /\ w <= count' - Len(buffer')}
      BY <1>1, <1>5, <3>1
    <3>3. Len(out') = (count' - Len(buffer')) + 1
      BY <1>3, <1>5, <2>3
    <3>4. Len(out') <= (count' - Len(buffer')) + 1
      BY <1>3, <1>5, <3>3
    <3> QED
      BY <1>5, <1>6, <3>2, <3>3, <3>4 DEF Line
  <2>7. Flushes'
    BY <1>1, <1>3, <1>4, <1>8, <1>9, <2>2, <2>3 DEF IInv, Flushes, TypeOK
  <2> QED
    BY <1>10, <1>11, <2>4, <2>5, <2>6, <2>7 DEF IInv
<1>13. CASE channel # "active"
  <2>1. out' = out /\ failed' = failed \cup {n + 1}
    BY <1>1, <1>4, <1>13 DEF DrainWrite, Forward
  <2>2. SentInOrder'
    BY <2>1 DEF IInv, SentInOrder
  <2>3. TypeOK'
    <3>1. flushed' \in 0..(MaxWrites + 1)
      BY <1>1, <1>3, <2>1 DEF IInv, TypeOK
    <3>2. failed' \subseteq 1..MaxWrites
      BY <1>3, <1>4, <2>1, WritesAssumption DEF IInv, TypeOK
    <3> QED
      BY <1>1, <1>2, <2>1, <3>1, <3>2 DEF IInv, TypeOK
  <2>4. Line'
    <3>1. failed' = {w \in 1..count : Len(out') <= w /\ w <= n + 1}
      BY <1>3, <1>4, <1>7, <2>1
    <3> QED
      BY <1>1, <1>3, <1>5, <1>6, <1>7, <1>13, <2>1, <3>1 DEF Line
  <2>5. Flushes'
    BY <1>1, <1>3, <1>13, <2>1 DEF IInv, Flushes, TypeOK, Phases
  <2> QED
    BY <1>10, <1>11, <2>2, <2>3, <2>4, <2>5 DEF IInv
<1> QED
  BY <1>12, <1>13

\* A write of the application, number count + 1.
LEMMA WriteKeepsInvariant ==
  ASSUME IInv, Write
  PROVE  IInv'
<1> DEFINE w == count + 1
<1>1. /\ handler # "absent"
      /\ count' = w
      /\ UNCHANGED <<state, timeout, marked, promise, handler, crashed, channel, announced,
                     proxy, flushed, asked>>
  BY DEF Write
<1>2. /\ count \in 0..MaxWrites /\ w \in 1..MaxWrites
      /\ Len(out) \in 0..(MaxWrites + 1)
      /\ out \in Seq(0..MaxWrites)
      /\ buffer \in Seq(1..MaxWrites) /\ Len(buffer) \in Nat /\ Len(buffer) <= count
  BY OutIsShort, LenProperties, WritesAssumption DEF IInv, TypeOK, Write, Line
<1>3. /\ failed = {v \in 1..count : Len(out) <= v /\ v <= count - Len(buffer)}
      /\ Len(out) <= (count - Len(buffer)) + 1
      /\ \A i \in DOMAIN buffer : buffer[i] = (count - Len(buffer)) + i
  BY DEF IInv, Line
<1>4. Answer'
  BY <1>1 DEF IInv, Answer
<1> HIDE DEF w
<1>5. CASE InPipeline /\ state # "failed"
  <2>1. buffer' = Append(buffer, w) /\ UNCHANGED <<failed, out>>
    BY <1>5 DEF Write, w
  <2>2. /\ buffer' \in Seq(1..MaxWrites)
        /\ Len(buffer') = Len(buffer) + 1
        /\ DOMAIN buffer' = 1..(Len(buffer) + 1)
        /\ \A i \in 1..Len(buffer) : buffer'[i] = buffer[i]
        /\ buffer'[Len(buffer) + 1] = w
    BY <1>2, <2>1, AppendProperties, LenProperties
  <2>3. count' - Len(buffer') = count - Len(buffer) /\ Len(buffer') <= count'
    BY <1>1, <1>2, <2>2 DEF w
  <2>4. TypeOK'
    BY <1>1, <1>2, <2>1, <2>2 DEF IInv, TypeOK, w
  <2>5. SentInOrder'
    BY <2>1 DEF IInv, SentInOrder
  <2>6. Phases'
    <3>1. state \in {"initialized", "connectSent", "headReceived"} => Len(buffer') = count'
      BY <1>1, <2>2 DEF IInv, Phases, w
    <3>2. handler # "removed" /\ handler # "absent"
      BY <1>1, <1>5 DEF InPipeline
    <3> QED
      BY <1>1, <1>5, <2>1, <3>1, <3>2 DEF IInv, Phases
  <2>7. Line'
    <3>1. \A i \in DOMAIN buffer' : buffer'[i] = (count' - Len(buffer')) + i
      BY <1>2, <1>3, <2>2, <2>3, LenProperties DEF w
    <3>2. failed = {v \in 1..count' : Len(out') <= v /\ v <= count' - Len(buffer')}
      BY <1>1, <1>2, <1>3, <2>1, <2>3 DEF w
    <3> QED
      BY <1>1, <1>3, <2>1, <2>3, <3>1, <3>2 DEF IInv, Line
  <2>8. Flushes'
    <3>1. ToSet(buffer) \subseteq ToSet(buffer')
      BY <1>2, <2>2, LenProperties DEF ToSet
    <3> QED
      BY <1>1, <1>2, <2>1, <3>1 DEF IInv, Flushes, TypeOK, w
  <2> QED
    BY <1>4, <2>4, <2>5, <2>6, <2>7, <2>8 DEF IInv
<1>6. CASE ~(InPipeline /\ state # "failed")
  <2>1. buffer = <<>> /\ buffer' = buffer /\ Len(buffer) = 0
    BY <1>1, <1>6 DEF Write, InPipeline, IInv, Phases, TypeOK
  <2>2. state \in {"failed", "completed"}
    BY <1>1, <1>6 DEF InPipeline, IInv, Phases, TypeOK
  <2>3. (state = "failed" => Len(out') <= 1) => Phases'
    BY <1>1, <2>1, <2>2 DEF IInv, Phases
  <2>4. CASE ~InPipeline /\ channel = "active"
    <3>1. state = "completed" /\ Len(out) = w
      BY <1>2, <2>1, <2>2, <2>4 DEF IInv, Phases, Line, w
    <3>2. out' = Append(out, w) /\ failed' = failed
      BY <2>4 DEF Write, Forward, w
    <3>3. /\ out' \in Seq(0..MaxWrites)
          /\ Len(out') = w + 1
          /\ DOMAIN out' = 1..(w + 1)
          /\ \A i \in 1..w : out'[i] = out[i]
          /\ out'[w + 1] = w
      <4>1. w \in 0..MaxWrites
        BY <1>2
      <4> QED
        BY <1>2, <3>1, <3>2, <4>1, AppendProperties, LenProperties
    <3>4. TypeOK'
      BY <1>1, <1>2, <2>1, <3>2, <3>3 DEF IInv, TypeOK, w
    <3>5. SentInOrder'
      <4>1. DOMAIN out = 1..w
        BY <1>2, <3>1, LenProperties
      <4>2. \A i \in 1..w : out'[i] = i - 1
        BY <3>3, <4>1 DEF IInv, SentInOrder
      <4>3. out'[w + 1] = (w + 1) - 1
        BY <1>2, <3>3
      <4> QED
        BY <1>2, <3>3, <4>2, <4>3 DEF SentInOrder
    <3>6. Line'
      <4>1. count' - Len(buffer') = w
        BY <1>1, <1>2, <2>1
      <4>2. failed' = {v \in 1..count' : Len(out') <= v /\ v <= count' - Len(buffer')}
        BY <1>1, <1>2, <1>3, <2>1, <3>1, <3>2, <3>3, <4>1 DEF w
      <4>3. DOMAIN buffer' = {}
        BY <2>1
      <4> QED
        BY <1>1, <1>2, <2>1, <3>3, <4>1, <4>2, <4>3 DEF Line
    <3>7. Flushes'
      BY <1>1, <1>2, <2>1, <3>1, <3>3 DEF IInv, Flushes, TypeOK, w
    <3>8. Phases'
      BY <2>3, <3>1
    <3> QED
      BY <1>4, <3>4, <3>5, <3>6, <3>7, <3>8 DEF IInv
  <2>5. CASE ~(~InPipeline /\ channel = "active")
    <3>1. out' = out /\ failed' = failed \cup {w}
      BY <1>6, <2>5 DEF Write, Forward, w
    <3>2. channel # "active"
      BY <1>6, <2>5 DEF IInv, Phases
    <3>3. TypeOK'
      BY <1>1, <1>2, <2>1, <3>1 DEF IInv, TypeOK, w
    <3>4. SentInOrder'
      BY <3>1 DEF IInv, SentInOrder
    <3>5. Line'
      <4>1. count' - Len(buffer') = w
        BY <1>1, <1>2, <2>1
      <4>2. failed' = {v \in 1..count' : Len(out') <= v /\ v <= count' - Len(buffer')}
        BY <1>1, <1>2, <1>3, <2>1, <3>1, <4>1 DEF w
      <4>3. DOMAIN buffer' = {}
        BY <2>1
      <4> QED
        BY <1>1, <1>2, <1>3, <2>1, <3>1, <3>2, <4>1, <4>2, <4>3 DEF Line, w
    <3>6. Flushes'
      BY <1>1, <1>2, <2>2, <3>1, <3>2 DEF IInv, Flushes, TypeOK, Phases, w
    <3>7. Phases'
      BY <2>3, <3>1 DEF IInv, Phases
    <3> QED
      BY <1>4, <3>3, <3>4, <3>5, <3>6, <3>7 DEF IInv
  <2> QED
    BY <2>4, <2>5
<1> QED
  BY <1>5, <1>6

\* A message of the proxy's answer.
LEMMA ChannelReadKeepsInvariant ==
  ASSUME IInv, ChannelRead
  PROVE  IInv'
<1>1. /\ handler = "added" /\ channel # "closed"
      /\ UNCHANGED <<announced, count, out, flushed, asked>>
      /\ state \in {"initialized", "connectSent", "headReceived", "failed"}
      /\ ~crashed
  BY DEF ChannelRead, IInv, Phases, Answer, TypeOK
<1>2. channel \in {"connecting", "active", "closing"}
  BY <1>1 DEF IInv, TypeOK
<1>3. ASSUME UNCHANGED <<handlerVars, channel>>, state = "failed",
             proxy' \in {"silent", "head", "end"}
      PROVE  IInv'
  BY <1>1, <1>3 DEF handlerVars, IInv, TypeOK, SentInOrder, Phases, Answer, Line, Flushes
<1>4. ASSUME NEW status \in {"2xx", "407", "other"},
             proxy = "silent", 0 \in ToSet(out), proxy' = "head",
             HandleHTTPHeadReceived(status)
      PROVE  IInv'
  <2>1. state # "initialized" /\ state # "headReceived"
    BY <1>4 DEF ToSet, IInv, Phases, Answer
  <2>2. CASE state = "failed"
    BY <1>1, <1>3, <1>4, <2>2 DEF HandleHTTPHeadReceived, handlerVars
  <2>3. CASE state = "connectSent" /\ status = "2xx"
    <3>1. /\ state' = "headReceived"
          /\ UNCHANGED <<buffer, marked, promise, failed, channel, crashed, timeout, handler>>
      BY <1>4, <2>3 DEF HandleHTTPHeadReceived
    <3> QED
      BY <1>1, <1>4, <2>3, <3>1 DEF IInv, TypeOK, SentInOrder, Phases, Answer, Line, Flushes
  <2>4. CASE state = "connectSent" /\ status # "2xx"
    <3>1. FailAndClose /\ UNCHANGED <<crashed, timeout, handler>>
      BY <1>4, <2>4 DEF HandleHTTPHeadReceived
    <3>2. FailWithError /\ channel' \in {"closing", "closed"}
      BY <1>2, <2>4, <3>1 DEF FailAndClose, Closing
    <3>3. /\ handler' \in {"added", "removed"} /\ timeout' \in BOOLEAN
          /\ announced' \in BOOLEAN /\ proxy' \in {"silent", "head", "end"}
      BY <1>1, <1>4, <3>1 DEF IInv, TypeOK
    <3> QED
      BY <1>1, <3>1, <3>2, <3>3, FailingKeepsInvariant
  <2> QED
    BY <1>1, <2>1, <2>2, <2>3, <2>4
<1>5. ASSUME proxy = "head", HandleHTTPBodyReceived, UNCHANGED proxy
      PROVE  IInv'
  <2>1. state \in {"headReceived", "failed"}
    BY <1>5 DEF IInv, Answer
  <2>2. CASE state = "failed"
    BY <1>1, <1>3, <1>5, <2>2 DEF HandleHTTPBodyReceived, handlerVars
  <2>3. CASE state = "headReceived"
    <3>1. FailAndClose /\ timeout' = FALSE /\ UNCHANGED <<crashed, handler>>
      BY <1>5, <2>3 DEF HandleHTTPBodyReceived
    <3>2. FailWithError /\ channel' \in {"closing", "closed"}
      BY <1>2, <2>3, <3>1 DEF FailAndClose, Closing
    <3>3. /\ handler' \in {"added", "removed"} /\ timeout' \in BOOLEAN
          /\ announced' \in BOOLEAN /\ proxy' \in {"silent", "head", "end"}
      BY <1>1, <1>5, <3>1 DEF IInv, TypeOK
    <3> QED
      BY <1>1, <3>1, <3>2, <3>3, FailingKeepsInvariant
  <2> QED
    BY <2>1, <2>2, <2>3
<1>6. ASSUME proxy = "head", HandleHTTPEndReceived, proxy' = "end"
      PROVE  IInv'
  <2>1. state \in {"headReceived", "failed"}
    BY <1>6 DEF IInv, Answer
  <2>2. CASE state = "failed"
    BY <1>3, <1>6, <2>2 DEF HandleHTTPEndReceived
  <2>3. CASE state = "headReceived"
    <3>1. /\ state' = "completed"
          /\ timeout' = FALSE
          /\ handler' = "draining"
          /\ UNCHANGED <<buffer, marked, promise, failed, channel, crashed>>
      BY <1>6, <2>3 DEF HandleHTTPEndReceived
    <3>2. out = <<0>> /\ Len(buffer) = count /\ promise # "succeeded"
      BY <2>3 DEF IInv, Phases
    <3>3. Len(out) = (count - Len(buffer)) + 1
      <4>1. count \in Nat
        BY DEF IInv, TypeOK
      <4> QED
        BY <3>2, <4>1
    <3>4. TypeOK'
      BY <1>1, <1>6, <3>1 DEF IInv, TypeOK
    <3>5. SentInOrder' /\ Flushes'
      BY <1>1, <2>3, <3>1 DEF IInv, SentInOrder, Flushes
    <3>6. Phases' /\ Answer'
      BY <1>1, <1>6, <2>3, <3>1, <3>2 DEF IInv, Phases, Answer
    <3>7. Line'
      BY <1>1, <3>1, <3>3 DEF IInv, Line
    <3> QED
      BY <3>4, <3>5, <3>6, <3>7 DEF IInv
  <2> QED
    BY <2>1, <2>2, <2>3
<1> QED
  BY <1>4, <1>5, <1>6 DEF ChannelRead

\* A flush of the application.
LEMMA FlushKeepsInvariant ==
  ASSUME IInv, Flush
  PROVE  IInv'
<1>1. /\ handler # "absent" /\ asked < count
      /\ asked' = IF handler = "draining" /\ buffer = <<>> THEN asked ELSE count
      /\ UNCHANGED <<state, timeout, buffer, promise, handler, failed, crashed, channel,
                     announced, proxy, count, out>>
  BY DEF Flush
<1>2. /\ count \in 0..MaxWrites /\ asked \in 0..MaxWrites
      /\ flushed \in 0..(MaxWrites + 1)
      /\ Len(out) \in 0..(MaxWrites + 1)
      /\ buffer \in Seq(1..MaxWrites) /\ Len(buffer) \in Nat
      /\ DOMAIN buffer = 1..Len(buffer)
  BY OutIsShort, LenProperties DEF IInv, TypeOK
<1>3. SentInOrder' /\ Phases' /\ Answer' /\ Line'
  BY <1>1 DEF IInv, SentInOrder, Phases, Answer, Line
<1>4. CASE InPipeline
  <2>1. /\ marked' = IF buffer = <<>> THEN marked ELSE {Last(buffer)}
        /\ flushed' = flushed
    BY <1>4 DEF Flush
  <2>2. buffer # <<>> => Last(buffer) \in 1..MaxWrites
    <3>1. SUFFICES ASSUME buffer # <<>> PROVE buffer[Len(buffer)] \in 1..MaxWrites
      BY DEF Last
    <3>2. Len(buffer) \in 1..Len(buffer)
      BY <1>2, <3>1
    <3> QED
      BY <1>2, <3>2, ElementOfSeq
  <2>3. TypeOK'
    <3>1. marked' \subseteq 1..MaxWrites
      BY <2>1, <2>2 DEF IInv, TypeOK
    <3>2. asked' \in 0..MaxWrites
      BY <1>1, <1>2
    <3> QED
      BY <1>1, <2>1, <3>1, <3>2 DEF IInv, TypeOK
  <2>4. CASE buffer = <<>>
    <3>1. state \in {"initialized", "connectSent", "headReceived"} => count = 0
      BY <2>4 DEF IInv, Phases
    <3>2. state = "failed" \/ handler = "draining"
      <4>1. state \in {"failed", "completed"}
        BY <1>1, <1>2, <3>1 DEF IInv, TypeOK
      <4> QED
        BY <1>4, <4>1 DEF InPipeline, IInv, Phases
    <3> QED
      BY <1>1, <1>2, <1>3, <2>1, <2>3, <2>4, <3>2 DEF IInv, Flushes
  <2>5. CASE buffer # <<>>
    <3>1. Len(buffer) > 0
      BY <1>2, <2>5
    <3>2. Len(buffer) \in DOMAIN buffer
      BY <1>2, <3>1
    <3>3. buffer[Len(buffer)] = (count - Len(buffer)) + Len(buffer)
      BY <3>2 DEF IInv, Line
    <3>4. Last(buffer) = count
      BY <1>2, <3>3 DEF Last
    <3>5. count \in ToSet(buffer)
      BY <3>2, <3>4 DEF ToSet, Last
    <3>6. asked' \in marked' \cap ToSet(buffer')
      BY <1>1, <2>1, <2>5, <3>4, <3>5
    <3>7. Flushes'
      BY <1>1, <1>2, <2>1, <2>5, <3>6 DEF IInv, Flushes
    <3> QED
      BY <1>3, <2>3, <3>7 DEF IInv
  <2> QED
    BY <2>4, <2>5
<1>5. CASE ~InPipeline
  <2>1. flushed' = Len(out) /\ marked' = marked
    BY <1>5 DEF Flush
  <2>2. handler = "removed" /\ buffer = <<>>
    BY <1>1, <1>5 DEF InPipeline, IInv, Phases, TypeOK
  <2>3. TypeOK'
    BY <1>1, <1>2, <2>1 DEF IInv, TypeOK
  <2>4. state \in {"failed", "completed"}
    BY <2>2 DEF IInv, Phases
  <2>5. channel = "active" /\ state # "failed" => Len(out) = count + 1
    BY <1>2, <2>2, <2>4 DEF IInv, Line
  <2>6. Flushes'
    BY <1>1, <1>2, <2>1, <2>2, <2>4, <2>5 DEF IInv, Flushes, Phases
  <2> QED
    BY <1>3, <2>3, <2>6 DEF IInv
<1> QED
  BY <1>4, <1>5

\* The invariant holds at first, and every step keeps it.
LEMMA IInvInductive ==
  /\ Init => IInv
  /\ IInv /\ [Next]_vars => IInv'
<1>1. Init => IInv
  <2> SUFFICES ASSUME Init PROVE IInv
    OBVIOUS
  <2>1. TypeOK
    <3>1. buffer \in Seq(1..MaxWrites) /\ out \in Seq(0..MaxWrites)
      BY DEF Init
    <3>2. count \in 0..MaxWrites /\ flushed \in 0..(MaxWrites + 1) /\ asked \in 0..MaxWrites
      BY WritesAssumption DEF Init
    <3> QED
      BY <3>1, <3>2 DEF Init, TypeOK
  <2>2. Len(buffer) = 0 /\ Len(out) = 0 /\ DOMAIN out = {} /\ DOMAIN buffer = {}
    BY DEF Init
  <2>3. SentInOrder /\ Phases /\ Answer /\ Flushes
    BY <2>2 DEF Init, SentInOrder, Phases, Answer, Flushes
  <2>4. Line
    BY <2>2 DEF Init, Line
  <2> QED
    BY <2>1, <2>3, <2>4 DEF IInv
<1>2. ASSUME IInv, [Next]_vars PROVE IInv'
  <2> USE <1>2
  <2>1. CASE HandlerAdded
    <3>1. /\ handler = "absent" /\ handler' = "added" /\ state = "initialized"
          /\ announced' \in BOOLEAN
          /\ UNCHANGED <<buffer, marked, promise, failed, crashed, channel, announced, proxy,
                         count, asked>>
      BY <2>1 DEF HandlerAdded, IInv, Phases, TypeOK
    <3>2. CASE channel = "active"
      BY <2>1, <3>1, <3>2, SendConnectKeepsInvariant DEF HandlerAdded
    <3>3. CASE channel # "active"
      <4>1. UNCHANGED <<state, timeout, out, flushed>>
        BY <2>1, <3>3 DEF HandlerAdded
      <4> QED
        BY <3>1, <4>1 DEF IInv, TypeOK, SentInOrder, Phases, Answer, Line, Flushes
    <3> QED
      BY <3>2, <3>3
  <2>2. CASE ChannelActive
    <3>1. /\ channel = "active" /\ announced' \in BOOLEAN
          /\ UNCHANGED <<buffer, marked, promise, handler, failed, crashed, channel, proxy,
                         count, asked>>
      BY <2>2 DEF ChannelActive
    <3>2. CASE InPipeline
      <4>1. handler \in {"absent", "added", "draining"} /\ handler # "absent"
        BY <3>2 DEF InPipeline
      <4> QED
        BY <2>2, <3>1, <3>2, <4>1, SendConnectKeepsInvariant DEF ChannelActive
    <3>3. CASE ~InPipeline
      <4>1. UNCHANGED <<state, timeout, out, flushed>>
        BY <2>2, <3>3 DEF ChannelActive
      <4> QED
        BY <3>1, <4>1 DEF IInv, TypeOK, SentInOrder, Phases, Answer, Line, Flushes
    <3> QED
      BY <3>2, <3>3
  <2>3. CASE RemoveHandler
    <3>1. /\ handler = "added" /\ handler' \in {"added", "removed"}
          /\ FailWithError
          /\ channel' = IF state = "failed" THEN channel ELSE Closing
          /\ UNCHANGED <<timeout, crashed, announced, proxy, count, out, flushed, asked>>
      BY <2>3 DEF RemoveHandler, FailAndClose
    <3>2. channel' \in {"closing", "closed"}
      BY <3>1 DEF Closing, IInv, TypeOK, Phases
    <3>3. timeout' \in BOOLEAN /\ announced' \in BOOLEAN /\ proxy' \in {"silent", "head", "end"}
      BY <3>1 DEF IInv, TypeOK
    <3> QED
      BY <3>1, <3>2, <3>3, FailingKeepsInvariant
  <2>4. CASE HandlerRemoved
    <3>1. /\ handler = "added" /\ handler' = "removed" /\ channel = "closed"
          /\ UNCHANGED <<timeout, crashed, channel, announced, proxy, count, out, flushed, asked>>
          /\ state # "completed"
      BY <2>4 DEF HandlerRemoved, IInv, Phases
    <3>2. CASE state = "failed"
      <4>1. UNCHANGED <<state, promise, buffer, marked, failed>> /\ buffer = <<>>
        BY <2>4, <3>2 DEF HandlerRemoved, IInv, Phases
      <4> QED
        BY <3>1, <3>2, <4>1 DEF IInv, TypeOK, SentInOrder, Phases, Answer, Line, Flushes
    <3>3. CASE state # "failed"
      <4>1. FailWithError
        BY <2>4, <3>1, <3>3 DEF HandlerRemoved
      <4>2. timeout' \in BOOLEAN /\ announced' \in BOOLEAN /\ proxy' \in {"silent", "head", "end"}
        BY <3>1 DEF IInv, TypeOK
      <4> QED
        BY <3>1, <4>1, <4>2, FailingKeepsInvariant
    <3> QED
      BY <3>2, <3>3
  <2>5. CASE ChannelInactive
    <3>1. /\ channel = "closing" /\ channel' = "closed"
          /\ UNCHANGED <<handler, crashed, announced, proxy, count, out, flushed, asked>>
      BY <2>5 DEF ChannelInactive
    <3>2. CASE handler = "added" /\ state \in {"initialized", "connectSent", "headReceived"}
      <4>1. FailWithError /\ timeout' = FALSE
        BY <2>5, <3>2 DEF ChannelInactive
      <4>2. announced' \in BOOLEAN /\ proxy' \in {"silent", "head", "end"}
        BY <3>1 DEF IInv, TypeOK
      <4> QED
        BY <3>1, <3>2, <4>1, <4>2, FailingKeepsInvariant
    <3>3. CASE ~(handler = "added" /\ state \in {"initialized", "connectSent", "headReceived"})
      <4>1. UNCHANGED <<state, promise, buffer, marked, failed, timeout>>
        BY <2>5, <3>3 DEF ChannelInactive
      <4> QED
        BY <3>1, <4>1 DEF IInv, TypeOK, SentInOrder, Phases, Answer, Line, Flushes
    <3> QED
      BY <3>2, <3>3
  <2>6. CASE ChannelRead
    BY <2>6, ChannelReadKeepsInvariant
  <2>7. CASE DrainWrite
    BY <2>7, DrainWriteKeepsInvariant
  <2>8. CASE DrainEnd
    BY <2>8 DEF DrainEnd, IInv, TypeOK, SentInOrder, Phases, Answer, Line, Flushes
  <2>9. CASE Deadline
    <3>1. /\ state # "initialized" /\ timeout' = FALSE /\ handler # "draining"
          /\ UNCHANGED <<handler, announced, proxy, count, out, flushed, asked>>
      BY <2>9 DEF Deadline, IInv, Phases
    <3>2. CASE state \in {"connectSent", "headReceived"}
      <4>1. FailAndClose /\ UNCHANGED crashed
        BY <2>9, <3>2 DEF Deadline
      <4>2. FailWithError /\ channel' \in {"closing", "closed"}
        BY <3>2, <4>1 DEF FailAndClose, Closing, IInv, TypeOK
      <4>3. handler = "added"
        BY <3>2 DEF IInv, Phases, TypeOK
      <4>4. announced' \in BOOLEAN /\ proxy' \in {"silent", "head", "end"}
        BY <3>1 DEF IInv, TypeOK
      <4> QED
        BY <3>1, <4>1, <4>2, <4>3, <4>4, FailingKeepsInvariant
    <3>3. CASE state \notin {"connectSent", "headReceived"}
      <4>1. UNCHANGED <<state, promise, buffer, marked, failed, channel, crashed>>
        BY <2>9, <3>1, <3>3 DEF Deadline
      <4> QED
        BY <3>1, <4>1 DEF IInv, TypeOK, SentInOrder, Phases, Answer, Line, Flushes
    <3> QED
      BY <3>2, <3>3
  <2>10. CASE Connected
    <3>1. /\ channel = "connecting" /\ channel' = "active"
          /\ UNCHANGED <<handlerVars, announced, proxy, count, out, flushed, asked>>
      BY <2>10 DEF Connected
    <3>2. state = "initialized"
      BY <3>1 DEF IInv, Phases
    <3> QED
      BY <3>1, <3>2 DEF handlerVars, IInv, TypeOK, SentInOrder, Phases, Answer, Line, Flushes
  <2>11. CASE ConnectionLost
    <3>1. /\ channel' \in {"closing", "closed"}
          /\ UNCHANGED <<handlerVars, announced, proxy, count, out, flushed, asked>>
      BY <2>11 DEF ConnectionLost, Closing
    <3> QED
      BY <3>1 DEF handlerVars, IInv, TypeOK, SentInOrder, Phases, Answer, Line, Flushes
  <2>12. CASE Write
    BY <2>12, WriteKeepsInvariant
  <2>13. CASE Flush
    BY <2>13, FlushKeepsInvariant
  <2>14. CASE UNCHANGED vars
    BY <2>14 DEF vars, handlerVars, IInv, TypeOK, SentInOrder, Phases, Answer, Line, Flushes
  <2> QED
    BY <2>1, <2>2, <2>3, <2>4, <2>5, <2>6, <2>7, <2>8, <2>9, <2>10, <2>11, <2>12, <2>13, <2>14
       DEF Next
<1> QED
  BY <1>1, <1>2

LEMMA IInvAlways == Spec => []IInv
<1>1. Init => IInv
  BY IInvInductive
<1>2. IInv /\ [Next]_vars => IInv'
  BY IInvInductive
<1> QED
  BY <1>1, <1>2, PTL DEF Spec

-----------------------------------------------------------------------------
(* What the invariant says.                                                *)

\* The type invariant of the handler, for any number of writes.
THEOREM TypeCorrect == Spec => []TypeOK
BY IInvAlways, PTL DEF IInv

\* CONNECT goes first and the writes follow it in the order of the calls (removeHandler,
\* write): none is skipped, repeated or overtaken.
THEOREM WritesInOrder == Spec => []SentInOrder
BY IInvAlways, PTL DEF IInv

\* Nothing of the application is passed on (write, removeHandler) before the proxy's
\* answer is complete.
THEOREM NothingBeforeTunnel == Spec => []TunnelFirst
<1>1. IInv => TunnelFirst
  <2> SUFFICES ASSUME IInv, Len(out) > 1 PROVE state = "completed"
    BY DEF TunnelFirst
  <2>1. state # "initialized"
    <3>1. CASE out = <<>>
      <4>1. Len(out) = 0
        BY <3>1
      <4> QED
        BY <4>1
    <3>2. CASE out # <<>>
      BY <3>2 DEF IInv, Phases
    <3> QED
      BY <3>1, <3>2
  <2>2. state \notin {"connectSent", "headReceived"}
    <3>1. CASE out = <<0>>
      <4>1. Len(out) = 1
        BY <3>1
      <4> QED
        BY <4>1
    <3>2. CASE out # <<0>>
      BY <3>2 DEF IInv, Phases
    <3> QED
      BY <3>1, <3>2
  <2>3. state # "failed"
    <3>1. Len(out) \in Nat
      BY LenProperties DEF IInv, TypeOK
    <3> QED
      BY <3>1 DEF IInv, Phases
  <2> QED
    BY <2>1, <2>2, <2>3 DEF IInv, TypeOK
<1> QED
  BY <1>1, IInvAlways, PTL

\* A write is buffered, passed on or failed, and only one of these (write, removeHandler,
\* failWithError); a handler that failed or has gone buffers nothing.
THEOREM EveryWriteAccounted == Spec => []NoWriteLost
<1>1. IInv => NoWriteLost
  <2> SUFFICES ASSUME IInv PROVE NoWriteLost
    OBVIOUS
  <2> DEFINE n == count - Len(buffer)
  <2>1. /\ count \in Nat /\ Len(out) \in Nat
        /\ buffer \in Seq(1..MaxWrites) /\ Len(buffer) \in Nat
        /\ DOMAIN out = 1..Len(out)
        /\ n \in Nat
    BY OutIsShort, LenProperties, WritesAssumption DEF IInv, TypeOK, Line
  <2>2. ToSet(buffer) = (n + 1)..count
    <3>1. \A i \in DOMAIN buffer : buffer[i] = n + i
      BY DEF IInv, Line
    <3>2. n + Len(buffer) = count
      BY <2>1
    <3> QED
      BY <2>1, <3>1, <3>2, ToSetLine
  <2>3. ToSet(out) = 0..(Len(out) - 1)
    <3>1. ASSUME NEW w \in 0..(Len(out) - 1) PROVE w \in ToSet(out)
      <4>1. w + 1 \in DOMAIN out
        BY <2>1
      <4>2. out[w + 1] = (w + 1) - 1
        BY <4>1 DEF IInv, SentInOrder
      <4> QED
        BY <2>1, <4>1, <4>2 DEF ToSet
    <3>2. ASSUME NEW i \in DOMAIN out PROVE out[i] \in 0..(Len(out) - 1)
      BY <2>1, <3>2 DEF IInv, SentInOrder
    <3> QED
      BY <3>1, <3>2 DEF ToSet
  <2>4. failed = {w \in 1..count : Len(out) <= w /\ w <= n} /\ Len(out) <= n + 1
    BY DEF IInv, Line
  <2> HIDE DEF n
  <2>5. n <= count
    BY <2>1 DEF n, IInv, Line
  <2>6. 1..count = ToSet(buffer) \cup (ToSet(out) \ {0}) \cup failed
    BY <2>1, <2>2, <2>3, <2>4, <2>5
  <2>7. ToSet(buffer) \cap ToSet(out) = {}
    BY <2>1, <2>2, <2>3, <2>4
  <2>8. failed \cap (ToSet(buffer) \cup ToSet(out)) = {}
    BY <2>1, <2>2, <2>3, <2>4
  <2> QED
    BY <2>6, <2>7, <2>8 DEF NoWriteLost, IInv, Phases
<1> QED
  BY <1>1, IInvAlways, PTL

\* What was flushed (flush, removeHandler) has been flushed when the handler has gone.
THEOREM FlushesKept == Spec => []FlushKept
<1>1. IInv => FlushKept
  <2> SUFFICES ASSUME IInv, handler = "removed", channel = "active" PROVE flushed >= asked + 1
    BY DEF FlushKept
  <2>1. state = "completed" /\ buffer = <<>>
    BY DEF IInv, Phases
  <2>2. ToSet(buffer) = {}
    BY <2>1 DEF ToSet
  <2>3. flushed \in Nat /\ asked \in Nat /\ count \in Nat
    BY DEF IInv, TypeOK
  <2>4. CASE asked > 0
    BY <2>1, <2>2, <2>4 DEF IInv, Flushes
  <2>5. CASE asked = 0
    <3>1. Len(buffer) = 0
      BY <2>1
    <3>2. Len(out) = count + 1
      BY <2>1, <2>3, <3>1 DEF IInv, Line
    <3> QED
      BY <2>3, <2>5, <3>2 DEF IInv, Flushes
  <2> QED
    BY <2>3, <2>4, <2>5
<1> QED
  BY <1>1, IInvAlways, PTL

\* What the application wrote and flushed (write, flush, removeHandler, failWithError) is kept
\* in order, accounted for once and flushed, for any number of writes.
THEOREM WritesAreKept == Spec => []WritesKept
BY WritesInOrder, EveryWriteAccounted, FlushesKept, PTL DEF WritesKept

\* The promise given to the initializer succeeds with the tunnel there, the handler gone
\* and the buffer replayed (handleHTTPEndReceived), and fails with every other end.
THEOREM PromiseIsTrue == Spec => []PromiseTellsTheTruth
<1>1. IInv => PromiseTellsTheTruth
  BY DEF IInv, Phases, PromiseTellsTheTruth
<1> QED
  BY <1>1, IInvAlways, PTL

\* No order of answers, deadlines and closes reaches a preconditionFailure
\* (handleHTTPHeadReceived, handleHTTPBodyReceived, handleHTTPEndReceived, sendConnect).
THEOREM PreconditionsHold == Spec => []NoPreconditionFailure
<1>1. IInv => NoPreconditionFailure
  BY DEF IInv, Answer, NoPreconditionFailure
<1> QED
  BY <1>1, IInvAlways, PTL
=============================================================================
