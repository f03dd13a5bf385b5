------------------------- MODULE SOCKSHandshakeProofs -------------------------
(***************************************************************************)
(* The safety of SOCKSClientHandler and SOCKSServerHandshakeHandler, for   *)
(* any number of writes, any addresses and any way the bytes are split.    *)
(*                                                                         *)
(* First the client's writes: they keep their order, each is accounted for *)
(* once, and none stays behind.  Calls out of the handler nest, so the     *)
(* work left on the stack may be that of many flushes and removals.  What  *)
(* makes this harmless is that no handler leaves the pipeline with the     *)
(* buffer full: a frame ends with the loop over the rest of the buffer     *)
(* (Leaving).  Until the channel closes the buffer therefore continues     *)
(* what was passed on (Line).                                              *)
(*                                                                         *)
(* Then the bytes: a connection goes through a few stages, and in each it  *)
(* is known exactly what lies between the two sides (BytesInv).  A reader  *)
(* finds a message as soon as all of it is there and takes no more than    *)
(* that (Reads), so it does not matter where the bytes are cut.            *)
(***************************************************************************)
EXTENDS SOCKSHandshake, SequenceTheorems, TLAPS

-----------------------------------------------------------------------------
(* The inductive invariant.                                                *)

Greeting == WriteClientGreeting(<<NoneRequired>>)
HelloLength == Len(Hello)

\* The number of writes that were passed on.
Passed == IF clientState = "active" THEN Len(sent) - HelloLength ELSE 0

Kinds == {"empty", "marked", "rest", "leave", "established"}
Ends == {"leave", "established"}
Flushers == {"empty", "marked"}

\* One of the calls on stack s still has one of these things to do.
Has(s, kinds) == \E i \in DOMAIN s : s[i] \in kinds

\* The call on top of stack s has still to flush.
Flushing(s) == \E i \in DOMAIN s : s[i] \in Flushers /\ \A j \in 1..(i - 1) : s[j] \notin Ends

\* The marked writes are never written without the others.
Paired(s) == \A i \in DOMAIN s : s[i] = "marked" => i + 1 \in DOMAIN s /\ s[i + 1] = "rest"

Typed ==
  /\ channel \in {"connecting", "active", "closed"}
  /\ clientState \in {"inactive", "waitingForAuthenticationMethod", "waitingForServerResponse",
                      "active", "error"}
  /\ bufferedWrites \in Seq(Nat)
  /\ mark \in Nat
  /\ removal \in BOOLEAN
  /\ handler \in {"absent", "added", "removed"}
  /\ stack \in Seq(Kinds)
  /\ sent \in Seq(Nat)
  /\ flushed \in Nat
  /\ count \in Nat
  /\ asked \in Nat

\* What the state of the handler says of everything else.
Phases ==
  /\ clientState = "inactive" => sent = <<>>
  /\ clientState = "waitingForAuthenticationMethod" => sent = Greeting
  /\ clientState = "waitingForServerResponse" => sent = Hello
  /\ clientState = "error" => channel = "closed" /\ sent \in {<<>>, Greeting, Hello}
  /\ clientState # "active" => stack = <<>>
  /\ channel = "connecting" => clientState = "inactive"
  /\ handler = "absent" => clientState = "inactive"
  /\ handler = "removed" => clientState = "active" \/ channel = "closed"
  /\ handler = "removed" /\ channel # "closed" => bufferedWrites = <<>>

\* What was sent, once the tunnel is there.
Sent ==
  clientState = "active" =>
    /\ Len(sent) >= HelloLength
    /\ \A i \in 1..HelloLength : sent[i] = Hello[i]
    /\ \A i \in 1..(Len(sent) - HelloLength) : sent[HelloLength + i] = 100 + i

\* The writes lie in a line: passed on, then buffered or, once the channel has closed, failed.
Line ==
  /\ Passed <= count
  /\ \A i \in DOMAIN bufferedWrites : bufferedWrites[i] \in (Passed + 1)..count
  /\ \A i, j \in DOMAIN bufferedWrites : i < j => bufferedWrites[i] < bufferedWrites[j]
  /\ failed = {w \in (Passed + 1)..count : \A i \in DOMAIN bufferedWrites : bufferedWrites[i] # w}
  /\ channel # "closed" =>
       /\ Len(bufferedWrites) = count - Passed
       /\ \A i \in DOMAIN bufferedWrites : bufferedWrites[i] = Passed + i

\* What was flushed has been passed on, or the mark is where it ends.
Marks ==
  /\ asked <= count
  /\ mark # 0 => \E i \in DOMAIN bufferedWrites : bufferedWrites[i] = mark
  /\ channel # "closed" => IF mark = 0 THEN asked <= Passed ELSE mark = asked

\* It has been flushed further down, or the call on top of the stack will do it.
Flushes ==
  clientState = "active" /\ channel = "active" /\ (handler = "removed" \/ ~Flushing(stack)) =>
    flushed >= HelloLength + asked

\* No call ends the handler before it has emptied the buffers, and one does if it was asked to.
Leaving ==
  /\ Paired(stack)
  /\ clientState = "active" /\ (stack = <<>> \/ Head(stack) \in Ends) => bufferedWrites = <<>>
  /\ clientState = "active" /\ ~Has(stack, {"empty"}) => clientBuffer = <<>>
  /\ clientState = "active" /\ removal /\ ~Has(stack, Ends) => handler = "removed"

\* The inductive invariant.
IInv == Typed /\ Phases /\ Sent /\ Line /\ Marks /\ Flushes /\ Leaving

-----------------------------------------------------------------------------
(* The client's hello.                                                     *)

\* The greeting and the request are bytes, and the hello is one after the other.
LEMMA HelloIs ==
  /\ Greeting \in Seq(Nat) /\ Len(Greeting) \in Nat
  /\ Hello \in Seq(Nat) /\ HelloLength \in Nat
  /\ Len(Greeting) <= HelloLength
  /\ WriteClientRequest(TargetAddress) \in Seq(Nat)
  /\ Hello = Greeting \o WriteClientRequest(TargetAddress)
<1>1. Greeting \in Seq(Nat)
  BY DEF Greeting, WriteClientGreeting, NoneRequired
<1>2. TargetAddress \in Seq(Nat)
  <2>1. TargetAddress \in Seq(Byte)
    BY AddressAssumption DEF IsAddress
  <2>2. Byte \subseteq Nat
    BY DEF Byte
  <2> QED
    BY <2>1, <2>2, SeqMonotonic
<1>3. <<5, 1, 0>> \in Seq(Nat)
  OBVIOUS
<1>4. WriteClientRequest(TargetAddress) \in Seq(Nat)
  BY <1>2, <1>3, ConcatProperties DEF WriteClientRequest
<1>5. Hello = Greeting \o WriteClientRequest(TargetAddress)
  BY DEF Hello, Greeting
<1> HIDE DEF Greeting
<1>6. /\ Hello \in Seq(Nat)
      /\ Len(Hello) = Len(Greeting) + Len(WriteClientRequest(TargetAddress))
  BY <1>1, <1>4, <1>5, ConcatProperties
<1>7. Len(Greeting) \in Nat /\ Len(WriteClientRequest(TargetAddress)) \in Nat
  BY <1>1, <1>4, LenProperties
<1> QED
  BY <1>1, <1>4, <1>5, <1>6, <1>7 DEF HelloLength

\* What was passed on is a number, and the rest of the sizes are too.
LEMMA Sizes ==
  ASSUME Typed, Sent
  PROVE  /\ Passed \in Nat
         /\ Len(sent) \in Nat
         /\ Len(bufferedWrites) \in Nat
         /\ DOMAIN bufferedWrites = 1..Len(bufferedWrites)
         /\ HelloLength \in Nat
         /\ clientState = "active" => Len(sent) = HelloLength + Passed
<1>1. Len(sent) \in Nat /\ HelloLength \in Nat
  BY HelloIs, LenProperties DEF Typed
<1>2. Len(bufferedWrites) \in Nat /\ DOMAIN bufferedWrites = 1..Len(bufferedWrites)
  BY LenProperties DEF Typed
<1> QED
  BY <1>1, <1>2 DEF Sent, Passed

\* Passing the next write on.
LEMMA PassingOn ==
  ASSUME Typed, Sent, clientState = "active", clientState' = clientState,
         sent' = Append(sent, 100 + (Passed + 1))
  PROVE  sent' \in Seq(Nat) /\ Passed' = Passed + 1 /\ Sent'
<1>1. Passed \in Nat /\ Len(sent) = HelloLength + Passed /\ HelloLength \in Nat
  BY Sizes
<1>2. 100 + (Passed + 1) \in Nat
  BY <1>1
<1>3. /\ sent' \in Seq(Nat)
      /\ Len(sent') = Len(sent) + 1
      /\ \A i \in 1..Len(sent) : sent'[i] = sent[i]
      /\ sent'[Len(sent) + 1] = 100 + (Passed + 1)
  BY <1>2, AppendProperties DEF Typed
<1>4. HelloLength' = HelloLength /\ Hello' = Hello
  BY DEF HelloLength, Hello
<1>5. Passed' = Passed + 1
  BY <1>1, <1>3, <1>4 DEF Passed
<1>6. Sent'
  <2>1. ASSUME NEW i \in 1..HelloLength PROVE sent'[i] = Hello[i]
    <3>1. i \in 1..Len(sent) /\ sent[i] = Hello[i]
      BY <1>1 DEF Sent
    <3> QED
      BY <1>3, <3>1
  <2>2. ASSUME NEW i \in 1..(Passed + 1) PROVE sent'[HelloLength + i] = 100 + i
    <3>1. CASE i = Passed + 1
      <4>1. HelloLength + i = Len(sent) + 1
        BY <1>1, <3>1
      <4> QED
        BY <1>3, <3>1, <4>1
    <3>2. CASE i # Passed + 1
      <4>1. i \in 1..(Len(sent) - HelloLength) /\ HelloLength + i \in 1..Len(sent)
        BY <1>1, <3>2
      <4> QED
        BY <1>3, <4>1 DEF Sent
    <3> QED
      BY <3>1, <3>2
  <2>3. Len(sent') - HelloLength = Passed + 1 /\ Len(sent') >= HelloLength
    BY <1>1, <1>3
  <2> QED
    BY <1>4, <2>1, <2>2, <2>3 DEF Sent
<1> QED
  BY <1>3, <1>5, <1>6

-----------------------------------------------------------------------------
(* The stack.                                                              *)

\* A call that is made.
LEMMA Push ==
  ASSUME NEW s \in Seq(Kinds), NEW a, NEW b,
         \/ a = "marked" /\ b = "rest"
         \/ a = "empty" /\ b \in Ends
  PROVE  LET t == <<a, b>> \o s IN
         /\ t \in Seq(Kinds) /\ t # <<>> /\ Head(t) = a
         /\ Flushing(t)
         /\ Paired(s) => Paired(t)
         /\ Has(t, {a}) /\ Has(t, {b})
         /\ \A kinds : Has(s, kinds) => Has(t, kinds)
<1> DEFINE t == <<a, b>> \o s
<1>1. <<a, b>> \in Seq(Kinds) /\ Len(<<a, b>>) = 2
  BY DEF Kinds, Ends
<1>2. Len(s) \in Nat /\ DOMAIN s = 1..Len(s)
  BY LenProperties
<1>3. /\ t \in Seq(Kinds)
      /\ Len(t) = 2 + Len(s)
      /\ \A i \in 1..(2 + Len(s)) : t[i] = IF i <= 2 THEN <<a, b>>[i] ELSE s[i - 2]
  BY <1>1, ConcatProperties
<1> HIDE DEF t
<1>4. /\ DOMAIN t = 1..(2 + Len(s))
      /\ t[1] = a /\ t[2] = b
      /\ \A i \in DOMAIN s : i + 2 \in DOMAIN t /\ t[i + 2] = s[i]
  <2>1. DOMAIN t = 1..(2 + Len(s))
    BY <1>3, LenProperties
  <2>2. t[1] = a /\ t[2] = b
    BY <1>2, <1>3
  <2>3. ASSUME NEW i \in DOMAIN s PROVE i + 2 \in DOMAIN t /\ t[i + 2] = s[i]
    BY <1>2, <1>3, <2>1
  <2> QED
    BY <2>1, <2>2, <2>3
<1>5. 1 \in DOMAIN t /\ 2 \in DOMAIN t
  BY <1>2, <1>4
<1>6. t # <<>> /\ Head(t) = a
  BY <1>2, <1>3, <1>4, EmptySeq
<1>7. Flushing(t)
  BY <1>4, <1>5 DEF Flushing, Flushers
<1>8. ASSUME Paired(s) PROVE Paired(t)
  <2>1. SUFFICES ASSUME NEW i \in DOMAIN t, t[i] = "marked"
                 PROVE  i + 1 \in DOMAIN t /\ t[i + 1] = "rest"
    BY DEF Paired
  <2>2. CASE i = 1
    BY <1>4, <1>5, <2>1, <2>2
  <2>3. i # 2
    BY <1>4, <2>1 DEF Ends
  <2>4. CASE i > 2
    <3>1. i - 2 \in DOMAIN s /\ s[i - 2] = "marked"
      BY <1>2, <1>3, <1>4, <2>1, <2>4
    <3>2. (i - 2) + 1 \in DOMAIN s /\ s[(i - 2) + 1] = "rest"
      BY <1>8, <3>1 DEF Paired
    <3>3. ((i - 2) + 1) + 2 = i + 1
      BY <1>4, <2>1
    <3>4. ((i - 2) + 1) + 2 \in DOMAIN t /\ t[((i - 2) + 1) + 2] = "rest"
      BY <1>4, <3>2
    <3> QED
      BY <3>3, <3>4
  <2> QED
    BY <1>4, <2>2, <2>3, <2>4
<1>9. Has(t, {a}) /\ Has(t, {b})
  BY <1>4, <1>5 DEF Has
<1>10. ASSUME NEW kinds, Has(s, kinds) PROVE Has(t, kinds)
  BY <1>4, <1>10 DEF Has
<1> QED
  BY <1>3, <1>6, <1>7, <1>8, <1>9, <1>10 DEF t

\* A call that has done something of what it had to do.
LEMMA Pop ==
  ASSUME NEW s \in Seq(Kinds), s # <<>>, Paired(s)
  PROVE  /\ Tail(s) \in Seq(Kinds)
         /\ Paired(Tail(s))
         /\ \A kinds : Has(s, kinds) /\ Head(s) \notin kinds => Has(Tail(s), kinds)
         /\ Flushing(s) /\ Head(s) \notin Flushers => Flushing(Tail(s))
         /\ Head(s) \in Ends => ~Flushing(s)
         /\ Head(s) = "marked" => Tail(s) # <<>> /\ Head(Tail(s)) = "rest"
<1> DEFINE t == Tail(s)
<1>1. /\ Len(s) \in Nat \ {0} /\ DOMAIN s = 1..Len(s)
      /\ t \in Seq(Kinds) /\ Len(t) = Len(s) - 1 /\ DOMAIN t = 1..(Len(s) - 1)
      /\ \A i \in DOMAIN t : t[i] = s[i + 1]
      /\ Head(s) = s[1]
  BY HeadTailProperties, LenProperties, EmptySeq
<1> HIDE DEF t
<1>2. Paired(t)
  <2>1. SUFFICES ASSUME NEW i \in DOMAIN t, t[i] = "marked"
                 PROVE  i + 1 \in DOMAIN t /\ t[i + 1] = "rest"
    BY DEF Paired
  <2>2. i + 1 \in DOMAIN s /\ s[i + 1] = "marked"
    BY <1>1, <2>1
  <2>3. (i + 1) + 1 \in DOMAIN s /\ s[(i + 1) + 1] = "rest"
    BY <2>2 DEF Paired
  <2>4. i + 1 \in DOMAIN t
    BY <1>1, <2>1, <2>3
  <2> QED
    BY <1>1, <2>3, <2>4
<1>3. ASSUME NEW kinds, Has(s, kinds), Head(s) \notin kinds PROVE Has(t, kinds)
  <2>1. PICK i \in DOMAIN s : s[i] \in kinds
    BY <1>3 DEF Has
  <2>2. i # 1
    BY <1>1, <1>3, <2>1
  <2>3. i - 1 \in DOMAIN t /\ t[i - 1] = s[i]
    BY <1>1, <2>1, <2>2
  <2> QED
    BY <2>1, <2>3 DEF Has
<1>4. ASSUME Flushing(s), Head(s) \in Ends PROVE FALSE
  <2>1. PICK i \in DOMAIN s : s[i] \in Flushers /\ \A j \in 1..(i - 1) : s[j] \notin Ends
    BY <1>4 DEF Flushing
  <2>2. i # 1
    BY <1>1, <1>4, <2>1 DEF Ends, Flushers
  <2>3. 1 \in 1..(i - 1)
    BY <1>1, <2>1, <2>2
  <2> QED
    BY <1>1, <1>4, <2>1, <2>3
<1>5. ASSUME Flushing(s), Head(s) \notin Flushers PROVE Flushing(t)
  <2>1. PICK i \in DOMAIN s : s[i] \in Flushers /\ \A j \in 1..(i - 1) : s[j] \notin Ends
    BY <1>5 DEF Flushing
  <2>2. i # 1
    BY <1>1, <1>5, <2>1
  <2>3. i - 1 \in DOMAIN t /\ t[i - 1] = s[i]
    BY <1>1, <2>1, <2>2
  <2>4. ASSUME NEW j \in 1..((i - 1) - 1) PROVE t[j] \notin Ends
    <3>1. j \in DOMAIN t /\ j + 1 \in 1..(i - 1)
      BY <1>1, <2>1
    <3> QED
      BY <1>1, <2>1, <3>1
  <2> QED
    BY <2>1, <2>3, <2>4 DEF Flushing
<1>6. ASSUME Head(s) = "marked" PROVE t # <<>> /\ Head(t) = "rest"
  <2>1. 1 \in DOMAIN s /\ s[1] = "marked"
    BY <1>1, <1>6
  <2>2. 1 + 1 \in DOMAIN s /\ s[1 + 1] = "rest"
    BY <2>1 DEF Paired
  <2>3. 1 \in DOMAIN t /\ t[1] = "rest"
    BY <1>1, <2>2
  <2> QED
    BY <1>1, <2>3
<1> QED
  BY <1>1, <1>2, <1>3, <1>4, <1>5, <1>6 DEF t

-----------------------------------------------------------------------------
(* The steps.                                                              *)

\* A step that touches nothing of what the invariant is about.
LEMMA UnrelatedKeepsInvariant ==
  ASSUME IInv,
         UNCHANGED <<channel, clientState, clientBuffer, bufferedWrites, mark, removal, handler,
                     stack, sent, flushed, count, asked, failed>>
  PROVE  IInv'
<1>1. Passed' = Passed
  BY DEF Passed
<1>2. Flushing(stack)' = Flushing(stack)
  BY DEF Flushing
<1>3. Paired(stack)' = Paired(stack)
  BY DEF Paired
<1>4. \A kinds : Has(stack', kinds) = Has(stack, kinds)
  OBVIOUS
<1>5. Typed' /\ Phases' /\ Sent'
  BY DEF IInv, Typed, Phases, Sent
<1>6. Line' /\ Marks'
  BY <1>1 DEF IInv, Line, Marks
<1>7. Flushes'
  BY <1>2 DEF IInv, Flushes
<1>8. Leaving'
  BY <1>3 DEF IInv, Leaving, Has
<1> QED
  BY <1>5, <1>6, <1>7, <1>8 DEF IInv

\* The greeting.
LEMMA BeginHandshakeKeepsInvariant ==
  ASSUME IInv, BeginHandshake,
         handler \in {"absent", "added"}, handler' = "added",
         UNCHANGED <<channel, clientBuffer, bufferedWrites, mark, removal, stack, count, asked,
                     failed>>
  PROVE  IInv'
<1>1. CASE channel = "active" /\ clientState = "inactive"
  <2>1. /\ clientState' = "waitingForAuthenticationMethod"
        /\ sent = <<>> /\ sent' = sent \o Greeting
        /\ flushed' = Len(sent')
    BY <1>1 DEF BeginHandshake, WriteAndFlush, Greeting, IInv, Phases
  <2>2. sent' = Greeting /\ sent' \in Seq(Nat) /\ flushed' \in Nat
    BY <2>1, HelloIs, ConcatEmptySeq
  <2>3. Passed = 0 /\ Passed' = 0
    BY <1>1, <2>1 DEF Passed
  <2>4. Typed'
    BY <2>1, <2>2 DEF IInv, Typed
  <2>5. Phases' /\ Sent' /\ Flushes'
    BY <1>1, <2>1, <2>2 DEF IInv, Phases, Sent, Flushes
  <2>6. Line' /\ Marks'
    BY <2>3 DEF IInv, Line, Marks
  <2>7. Leaving'
    BY <2>1 DEF IInv, Leaving, Paired
  <2> QED
    BY <2>4, <2>5, <2>6, <2>7 DEF IInv
<1>2. CASE ~(channel = "active" /\ clientState = "inactive")
  <2>1. UNCHANGED <<clientState, sent, flushed>>
    BY <1>2 DEF BeginHandshake
  <2>2. CASE handler = "added"
    BY <2>1, <2>2, UnrelatedKeepsInvariant
  <2>3. CASE handler = "absent"
    <3>1. clientState = "inactive" /\ clientState' = "inactive"
      BY <2>1, <2>3 DEF IInv, Phases
    <3>2. Passed = 0 /\ Passed' = 0
      BY <3>1 DEF Passed
    <3>3. Typed' /\ Phases' /\ Sent' /\ Flushes'
      BY <2>1, <2>3, <3>1 DEF IInv, Typed, Phases, Sent, Flushes
    <3>4. Line' /\ Marks'
      BY <3>2 DEF IInv, Line, Marks
    <3>5. Leaving'
      BY <3>1 DEF IInv, Leaving, Paired
    <3> QED
      BY <3>3, <3>4, <3>5 DEF IInv
  <2> QED
    BY <2>2, <2>3
<1> QED
  BY <1>1, <1>2

\* A handshake that goes on or fails: nothing is passed on.
LEMMA HandshakingKeepsInvariant ==
  ASSUME IInv, clientState # "active", channel = "active", handler # "absent",
         clientState' \in {"waitingForServerResponse", "error"},
         clientState' = "waitingForServerResponse" => sent' = Hello /\ channel' = channel,
         clientState' = "error" => sent' = sent /\ channel' = "closed",
         clientState' = "waitingForServerResponse" => handler # "removed",
         flushed' \in Nat,
         UNCHANGED <<bufferedWrites, mark, removal, handler, stack, count, asked, failed>>
  PROVE  IInv'
<1>1. Passed = 0 /\ Passed' = 0
  BY DEF Passed
<1>2. sent' \in Seq(Nat)
  BY HelloIs DEF IInv, Typed
<1>3. sent \in {<<>>, Greeting, Hello}
  BY DEF IInv, Typed, Phases
<1>4. Typed'
  BY <1>2 DEF IInv, Typed
<1>5. Phases'
  BY <1>3 DEF IInv, Phases
<1>6. Sent' /\ Flushes'
  BY DEF Sent, Flushes
<1>7. Line' /\ Marks'
  BY <1>1 DEF IInv, Line, Marks
<1>8. Leaving'
  BY DEF IInv, Leaving, Paired
<1> QED
  BY <1>4, <1>5, <1>6, <1>7, <1>8 DEF IInv

\* Bytes that are not enough for a message.
LEMMA ReadOnKeepsInvariant ==
  ASSUME IInv, clientState # "active",
         UNCHANGED <<channel, clientState, bufferedWrites, mark, removal, handler, stack, sent,
                     flushed, count, asked, failed>>
  PROVE  IInv'
<1>1. Passed' = Passed
  BY DEF Passed
<1>2. Typed' /\ Phases' /\ Sent' /\ Flushes'
  BY DEF IInv, Typed, Phases, Sent, Flushes
<1>3. Line' /\ Marks'
  BY <1>1 DEF IInv, Line, Marks
<1>4. Leaving'
  BY DEF IInv, Leaving, Paired
<1> QED
  BY <1>2, <1>3, <1>4 DEF IInv

\* The response that lets the client through.
LEMMA EstablishedKeepsInvariant ==
  ASSUME IInv, clientState = "waitingForServerResponse", stack = <<>>,
         handler # "removed",
         clientState' = "active", stack' = <<"empty", "established">>,
         UNCHANGED <<channel, bufferedWrites, mark, removal, handler, sent, flushed, count, asked,
                     failed>>
  PROVE  IInv'
<1>1. sent = Hello /\ sent' = Hello /\ HelloLength' = HelloLength /\ HelloLength \in Nat
  BY HelloIs DEF IInv, Phases, HelloLength, Hello
<1>2. Passed = 0 /\ Passed' = 0
  BY <1>1 DEF Passed, HelloLength
<1>3. /\ <<>> \in Seq(Kinds)
      /\ <<"empty", "established">> \o <<>> = <<"empty", "established">>
  BY ConcatEmptySeq
<1>4. Paired(<<>>)
  BY DEF Paired
<1>5. /\ stack' \in Seq(Kinds) /\ stack' # <<>> /\ Head(stack') = "empty"
      /\ Flushing(stack') /\ Paired(stack')
      /\ Has(stack', {"empty"}) /\ Has(stack', {"established"})
  <2> DEFINE t == <<"empty", "established">> \o <<>>
  <2>1. /\ t \in Seq(Kinds) /\ t # <<>> /\ Head(t) = "empty"
        /\ Flushing(t) /\ (Paired(<<>>) => Paired(t))
        /\ Has(t, {"empty"}) /\ Has(t, {"established"})
    <3>1. "established" \in Ends
      BY DEF Ends
    <3> HIDE DEF t
    <3> QED
      BY <1>3, <3>1, Push DEF t
  <2>2. stack' = t
    BY <1>3
  <2> QED
    BY <1>4, <2>1, <2>2
<1>6. Has(stack', Ends)
  BY <1>5 DEF Has, Ends
<1>7. Typed'
  BY <1>5 DEF IInv, Typed
<1>8. Phases'
  BY DEF IInv, Phases
<1>9. Sent'
  BY <1>1 DEF Sent, HelloLength
<1>10. Line' /\ Marks'
  BY <1>2 DEF IInv, Line, Marks
<1>11. Flushes'
  BY <1>5 DEF IInv, Flushes
<1>12. Leaving'
  BY <1>5, <1>6 DEF IInv, Leaving, Ends
<1> QED
  BY <1>7, <1>8, <1>9, <1>10, <1>11, <1>12 DEF IInv

\* Bytes of the server, for the handshake or for the application.
LEMMA ChannelReadKeepsInvariant ==
  ASSUME IInv, NEW n, ChannelRead(n)
  PROVE  IInv'
<1> DEFINE buffer == clientBuffer \o SubSeq(toClient, 1, n)
<1>1. /\ channel = "active" /\ handler # "absent" /\ stack = <<>>
      /\ UNCHANGED <<bufferedWrites, mark, removal, handler, count, asked, failed>>
  BY DEF ChannelRead
<1>2. CASE clientState = "active" \/ handler = "removed"
  <2>1. UNCHANGED <<clientBuffer, clientState, channel, sent, flushed, stack>>
    BY <1>2 DEF ChannelRead
  <2> QED
    BY <1>1, <2>1, UnrelatedKeepsInvariant
<1>3. CASE ~(clientState = "active" \/ handler = "removed")
  <2>1. CASE clientState = "waitingForAuthenticationMethod"
    <3>1. HandleSelectedAuthenticationMethod(buffer)
      BY <1>3, <2>1 DEF ChannelRead
    <3> HIDE DEF buffer
    <3>2. flushed \in Nat
      BY DEF IInv, Typed
    <3>3. /\ UNCHANGED stack
          /\ \/ UNCHANGED <<clientState, sent, flushed, channel>>
             \/ /\ clientState' = "waitingForServerResponse"
                /\ sent' = sent \o WriteClientRequest(TargetAddress)
                /\ flushed' = Len(sent')
                /\ UNCHANGED channel
             \/ /\ clientState' = "error" /\ channel' = "closed"
                /\ UNCHANGED <<sent, flushed>>
      BY <3>1 DEF HandleSelectedAuthenticationMethod, WriteAndFlush
    <3>4. CASE UNCHANGED <<clientState, sent, flushed, channel>>
      BY <1>1, <2>1, <3>3, <3>4, ReadOnKeepsInvariant
    <3>5. CASE /\ clientState' = "waitingForServerResponse"
               /\ sent' = sent \o WriteClientRequest(TargetAddress)
               /\ flushed' = Len(sent')
               /\ UNCHANGED channel
      <4>1. sent = Greeting
        BY <2>1 DEF IInv, Phases
      <4>2. sent' = Hello
        BY <3>5, <4>1, HelloIs
      <4>3. flushed' \in Nat
        BY <3>5, <4>2, HelloIs, LenProperties
      <4> QED
        BY <1>1, <1>3, <3>3, <3>5, <4>2, <4>3, HandshakingKeepsInvariant
    <3>6. CASE /\ clientState' = "error" /\ channel' = "closed"
               /\ UNCHANGED <<sent, flushed>>
      BY <1>1, <1>3, <3>2, <3>3, <3>6, HandshakingKeepsInvariant
    <3> QED
      BY <3>3, <3>4, <3>5, <3>6
  <2>2. CASE clientState = "waitingForServerResponse"
    <3>1. HandleServerResponse(buffer)
      BY <1>3, <2>2 DEF ChannelRead
    <3> HIDE DEF buffer
    <3>2. flushed \in Nat
      BY DEF IInv, Typed
    <3>3. /\ UNCHANGED <<sent, flushed>>
          /\ \/ UNCHANGED <<clientState, channel, stack>>
             \/ /\ clientState' = "active"
                /\ stack' = <<"empty", "established">>
                /\ UNCHANGED channel
             \/ /\ clientState' = "error" /\ channel' = "closed"
                /\ UNCHANGED stack
      BY <3>1 DEF HandleServerResponse
    <3>4. CASE UNCHANGED <<clientState, channel, stack>>
      BY <1>1, <2>2, <3>3, <3>4, ReadOnKeepsInvariant
    <3>5. CASE /\ clientState' = "active"
               /\ stack' = <<"empty", "established">>
               /\ UNCHANGED channel
      BY <1>1, <1>3, <2>2, <3>3, <3>5, EstablishedKeepsInvariant
    <3>6. CASE clientState' = "error" /\ channel' = "closed" /\ UNCHANGED stack
      BY <1>1, <1>3, <3>2, <3>3, <3>6, HandshakingKeepsInvariant
    <3> QED
      BY <3>3, <3>4, <3>5, <3>6
  <2>3. CASE clientState \notin {"waitingForAuthenticationMethod", "waitingForServerResponse"}
    <3>1. UnexpectedRead(buffer)
      BY <1>3, <2>3 DEF ChannelRead
    <3> HIDE DEF buffer
    <3>2. flushed \in Nat
      BY DEF IInv, Typed
    <3> QED
      BY <1>1, <1>3, <3>1, <3>2, HandshakingKeepsInvariant DEF UnexpectedRead
  <2> QED
    BY <2>1, <2>2, <2>3
<1> QED
  BY <1>2, <1>3

\* A buffered write is passed on, or fails once the channel has closed.
LEMMA ForwardBufferedKeepsInvariant ==
  ASSUME IInv, stack # <<>>, Head(stack) \in {"marked", "rest"}, bufferedWrites # <<>>,
         ForwardBuffered,
         UNCHANGED <<channel, clientState, clientBuffer, removal, handler, stack, flushed, count,
                     asked>>
  PROVE  IInv'
<1> DEFINE w == Head(bufferedWrites)
           n == Len(bufferedWrites)
<1>1. clientState = "active" /\ channel # "connecting" /\ handler # "absent"
  BY DEF IInv, Phases
<1>2. channel = "active" => handler = "added"
  BY <1>1 DEF IInv, Typed, Phases
<1>3. /\ n \in Nat \ {0} /\ DOMAIN bufferedWrites = 1..n
      /\ w = bufferedWrites[1] /\ w \in Nat
      /\ bufferedWrites' \in Seq(Nat)
      /\ Len(bufferedWrites') = n - 1 /\ DOMAIN bufferedWrites' = 1..(n - 1)
      /\ \A i \in 1..(n - 1) : bufferedWrites'[i] = bufferedWrites[i + 1]
  <2>1. bufferedWrites' = Tail(bufferedWrites)
    BY DEF ForwardBuffered
  <2>2. bufferedWrites \in Seq(Nat)
    BY DEF IInv, Typed
  <2> QED
    BY <2>1, <2>2, HeadTailProperties, LenProperties, EmptySeq
<1>4. /\ Passed \in Nat /\ count \in Nat /\ asked \in Nat /\ mark \in Nat
      /\ \A i \in 1..n : bufferedWrites[i] \in (Passed + 1)..count
      /\ \A i, j \in 1..n : i < j => bufferedWrites[i] < bufferedWrites[j]
      /\ failed = {v \in (Passed + 1)..count : \A i \in 1..n : bufferedWrites[i] # v}
  BY <1>3, Sizes DEF IInv, Typed, Line
<1>5. mark' = IF w = mark THEN 0 ELSE mark
  BY DEF ForwardBuffered
<1>6. 1 \in 1..n /\ w \in (Passed + 1)..count
  BY <1>3, <1>4
<1> HIDE DEF w, n
<1>7. \A i, j \in 1..(n - 1) : i < j => bufferedWrites'[i] < bufferedWrites'[j]
  <2> SUFFICES ASSUME NEW i \in 1..(n - 1), NEW j \in 1..(n - 1), i < j
               PROVE  bufferedWrites[i + 1] < bufferedWrites[j + 1]
    BY <1>3
  <2>1. i + 1 \in 1..n /\ j + 1 \in 1..n /\ i + 1 < j + 1
    BY <1>3
  <2> QED
    BY <1>4, <2>1
<1>8. mark' # 0 => \E i \in 1..(n - 1) : bufferedWrites'[i] = mark'
  <2> SUFFICES ASSUME mark # 0, mark # w
               PROVE  \E i \in 1..(n - 1) : bufferedWrites'[i] = mark
    BY <1>5
  <2>1. PICK i \in 1..n : bufferedWrites[i] = mark
    BY <1>3 DEF IInv, Marks
  <2>2. i # 1
    BY <1>3, <2>1
  <2>3. i - 1 \in 1..(n - 1) /\ (i - 1) + 1 = i
    BY <1>3, <2>2
  <2>4. bufferedWrites'[i - 1] = mark
    BY <1>3, <2>1, <2>3
  <2> QED
    BY <2>3, <2>4
<1>9. Leaving'
  <2>1. Head(stack) \notin Ends
    BY DEF Ends
  <2> QED
    BY <2>1 DEF IInv, Leaving
<1>10. HelloLength' = HelloLength
  BY DEF HelloLength, Hello
<1>11. Flushes'
  BY <1>10 DEF IInv, Flushes
<1>12. mark' \in Nat
  BY <1>4, <1>5
<1>13. CASE channel = "active"
  <2>1. /\ n = count - Passed
        /\ \A i \in 1..n : bufferedWrites[i] = Passed + i
        /\ IF mark = 0 THEN asked <= Passed ELSE mark = asked
    BY <1>3, <1>13 DEF IInv, Line, Marks, n
  <2>2. w = Passed + 1
    BY <1>3, <1>6, <2>1
  <2>3. sent' = Append(sent, 100 + (Passed + 1)) /\ failed' = failed
    BY <1>2, <1>13, <2>2 DEF ForwardBuffered, Forward, w
  <2>4. sent' \in Seq(Nat) /\ Passed' = Passed + 1 /\ Sent'
    BY <1>1, <2>3, PassingOn DEF IInv
  <2>5. Typed'
    BY <1>3, <1>12, <2>4 DEF IInv, Typed
  <2>6. Phases'
    BY <1>1, <1>2, <1>13 DEF IInv, Phases
  <2>7. \A i \in 1..(n - 1) : bufferedWrites'[i] = Passed' + i
    <3> SUFFICES ASSUME NEW i \in 1..(n - 1) PROVE bufferedWrites[i + 1] = (Passed + 1) + i
      BY <1>3, <2>4
    <3>1. i + 1 \in 1..n
      BY <1>3
    <3>2. bufferedWrites[i + 1] = Passed + (i + 1)
      BY <2>1, <3>1
    <3> QED
      BY <1>4, <3>2
  <2>8. \A i \in 1..(n - 1) : bufferedWrites'[i] \in (Passed' + 1)..count
    <3> SUFFICES ASSUME NEW i \in 1..(n - 1) PROVE bufferedWrites'[i] \in (Passed' + 1)..count
      OBVIOUS
    <3>1. bufferedWrites'[i] = (Passed + 1) + i
      BY <2>4, <2>7
    <3>2. (Passed + 1) + i \in ((Passed + 1) + 1)..count
      BY <1>3, <1>4, <2>1
    <3> QED
      BY <2>4, <3>1, <3>2
  <2>9. failed' = {v \in (Passed' + 1)..count : \A i \in 1..(n - 1) : bufferedWrites'[i] # v}
    <3>1. ASSUME NEW v \in (Passed + 1)..count PROVE v \notin failed
      <4>1. v - Passed \in 1..n /\ bufferedWrites[v - Passed] = v
        BY <1>3, <1>4, <2>1
      <4> QED
        BY <1>4, <4>1
    <3>2. failed = {}
      BY <1>4, <3>1
    <3>3. ASSUME NEW v \in (Passed' + 1)..count PROVE \E i \in 1..(n - 1) : bufferedWrites'[i] = v
      <4>1. v - (Passed + 1) \in 1..(n - 1)
        BY <1>3, <1>4, <2>1, <2>4
      <4>2. bufferedWrites'[v - (Passed + 1)] = (Passed + 1) + (v - (Passed + 1))
        BY <2>4, <2>7, <4>1
      <4> QED
        BY <1>4, <2>4, <4>1, <4>2
    <3> QED
      BY <2>3, <3>2, <3>3
  <2>10. Passed' <= count /\ n - 1 = count - Passed'
    BY <1>3, <1>4, <2>1, <2>4
  <2>11. Line'
    BY <1>3, <1>7, <2>7, <2>8, <2>9, <2>10 DEF Line
  <2>12. IF mark' = 0 THEN asked <= Passed' ELSE mark' = asked
    BY <1>4, <1>5, <2>1, <2>2, <2>4
  <2>13. Marks'
    BY <1>3, <1>8, <2>12 DEF IInv, Marks
  <2> QED
    BY <1>9, <1>11, <2>4, <2>5, <2>6, <2>11, <2>13 DEF IInv
<1>14. CASE channel # "active"
  <2>1. channel = "closed"
    BY <1>1, <1>14 DEF IInv, Typed
  <2>2. sent' = sent /\ failed' = failed \cup {w}
    BY <1>14 DEF ForwardBuffered, Forward, w
  <2>3. Passed' = Passed
    BY <2>2 DEF Passed
  <2>4. Typed' /\ Phases' /\ Sent'
    BY <1>1, <1>3, <1>12, <2>1, <2>2 DEF IInv, Typed, Phases, Sent
  <2>5. \A i \in 1..(n - 1) : bufferedWrites'[i] \in (Passed + 1)..count
    <3> SUFFICES ASSUME NEW i \in 1..(n - 1) PROVE bufferedWrites[i + 1] \in (Passed + 1)..count
      BY <1>3
    <3>1. i + 1 \in 1..n
      BY <1>3
    <3> QED
      BY <1>4, <3>1
  <2>6. failed' = {v \in (Passed + 1)..count : \A i \in 1..(n - 1) : bufferedWrites'[i] # v}
    <3>1. ASSUME NEW v \in (Passed + 1)..count, v \in failed', NEW i \in 1..(n - 1)
          PROVE  bufferedWrites'[i] # v
      <4>1. i + 1 \in 1..n /\ bufferedWrites'[i] = bufferedWrites[i + 1]
        BY <1>3
      <4>2. w < bufferedWrites[i + 1]
        <5>1. 1 < i + 1
          BY <1>3
        <5> QED
          BY <1>3, <1>4, <1>6, <4>1, <5>1
      <4>3. bufferedWrites[i + 1] \in Nat
        BY <1>4, <4>1
      <4>4. v = w \/ v \in failed
        BY <2>2, <3>1
      <4>5. v = w => bufferedWrites[i + 1] # v
        BY <1>3, <4>2, <4>3
      <4>6. v \in failed => bufferedWrites[i + 1] # v
        BY <1>4, <4>1
      <4> QED
        BY <4>1, <4>4, <4>5, <4>6
    <3>2. ASSUME NEW v \in (Passed + 1)..count, v \notin failed'
          PROVE  \E i \in 1..(n - 1) : bufferedWrites'[i] = v
      <4>1. v # w /\ v \notin failed
        BY <2>2, <3>2
      <4>2. PICK i \in 1..n : bufferedWrites[i] = v
        BY <1>4, <4>1
      <4>3. i # 1
        BY <1>3, <4>1, <4>2
      <4>4. i - 1 \in 1..(n - 1) /\ (i - 1) + 1 = i
        BY <1>3, <4>3
      <4>5. bufferedWrites'[i - 1] = v
        BY <1>3, <4>2, <4>4
      <4> QED
        BY <4>4, <4>5
    <3>3. failed' \subseteq (Passed + 1)..count
      BY <1>4, <1>6, <2>2
    <3> QED
      BY <3>1, <3>2, <3>3
  <2>7. Line'
    BY <1>3, <1>7, <2>1, <2>3, <2>5, <2>6 DEF IInv, Line
  <2>8. Marks'
    BY <1>3, <1>8, <2>1 DEF IInv, Marks
  <2> QED
    BY <1>9, <1>11, <2>4, <2>7, <2>8 DEF IInv
<1> QED
  BY <1>13, <1>14

\* A write of the application, number count + 1.
LEMMA WriteKeepsInvariant ==
  ASSUME IInv, Write
  PROVE  IInv'
<1> DEFINE n == Len(bufferedWrites)
<1>1. /\ handler # "absent"
      /\ count' = count + 1
      /\ UNCHANGED <<channel, clientState, clientBuffer, mark, removal, handler, stack, flushed,
                     asked>>
  BY DEF Write
<1>2. /\ Passed \in Nat /\ count \in Nat /\ asked \in Nat
      /\ n \in Nat /\ DOMAIN bufferedWrites = 1..n
      /\ Passed <= count /\ asked <= count
      /\ \A i \in 1..n : bufferedWrites[i] \in (Passed + 1)..count
      /\ \A i, j \in 1..n : i < j => bufferedWrites[i] < bufferedWrites[j]
      /\ failed = {v \in (Passed + 1)..count : \A i \in 1..n : bufferedWrites[i] # v}
  BY Sizes DEF IInv, Typed, Line, Marks
<1>3. HelloLength' = HelloLength
  BY DEF HelloLength, Hello
<1>4. Flushes'
  BY <1>1, <1>3 DEF IInv, Flushes
<1>5. CASE handler = "removed" \/ (clientState = "active" /\ bufferedWrites = <<>>)
  <2>1. Forward(count + 1) /\ bufferedWrites' = bufferedWrites
    BY <1>5 DEF Write
  <2>2. Leaving'
    BY <1>1, <2>1 DEF IInv, Leaving
  <2>3. CASE channel = "active"
    <3>1. clientState = "active" /\ bufferedWrites = <<>>
      BY <1>5, <2>3 DEF IInv, Phases
    <3>2. n = 0
      BY <3>1
    <3>3. count = Passed
      BY <1>2, <2>3, <3>2 DEF IInv, Line
    <3>4. sent' = Append(sent, 100 + (Passed + 1)) /\ failed' = failed
      BY <2>1, <2>3, <3>3 DEF Forward
    <3>5. sent' \in Seq(Nat) /\ Passed' = Passed + 1 /\ Sent'
      BY <1>1, <3>1, <3>4, PassingOn DEF IInv
    <3>6. mark = 0 /\ asked <= Passed
      BY <1>2, <2>3, <3>2 DEF IInv, Marks
    <3>7. Typed'
      BY <1>1, <1>2, <2>1, <3>5 DEF IInv, Typed
    <3>8. Phases'
      BY <1>1, <2>1, <3>1 DEF IInv, Phases
    <3>9. failed = {} /\ (Passed' + 1)..count' = {}
      BY <1>1, <1>2, <3>3, <3>5
    <3>10. Len(bufferedWrites') = count' - Passed' /\ Passed' <= count'
      BY <1>1, <1>2, <2>1, <3>2, <3>3, <3>5
    <3>11. DOMAIN bufferedWrites' = {}
      BY <1>2, <2>1, <3>2
    <3>12. Line'
      BY <3>4, <3>9, <3>10, <3>11 DEF Line
    <3>13. Marks'
      BY <1>1, <1>2, <3>5, <3>6 DEF Marks
    <3> QED
      BY <1>4, <2>2, <3>5, <3>7, <3>8, <3>12, <3>13 DEF IInv
  <2>4. CASE channel # "active"
    <3>1. channel = "closed"
      BY <1>5, <2>4 DEF IInv, Typed, Phases
    <3>2. sent' = sent /\ failed' = failed \cup {count + 1}
      BY <2>1, <2>4 DEF Forward
    <3>3. Passed' = Passed
      BY <1>1, <3>2 DEF Passed
    <3>4. Typed' /\ Phases' /\ Sent'
      BY <1>1, <1>2, <2>1, <3>2 DEF IInv, Typed, Phases, Sent
    <3>5. failed' = {v \in (Passed + 1)..(count + 1) : \A i \in 1..n : bufferedWrites[i] # v}
      BY <1>2, <3>2
    <3>6. Passed <= count + 1 /\ \A i \in 1..n : bufferedWrites[i] \in (Passed + 1)..(count + 1)
      BY <1>2
    <3>7. Line'
      BY <1>1, <1>2, <2>1, <3>1, <3>3, <3>5, <3>6 DEF Line
    <3>8. Marks'
      BY <1>1, <1>2, <2>1, <3>1 DEF IInv, Marks
    <3> QED
      BY <1>4, <2>2, <3>4, <3>7, <3>8 DEF IInv
  <2> QED
    BY <2>3, <2>4
<1>6. CASE ~(handler = "removed" \/ (clientState = "active" /\ bufferedWrites = <<>>))
  <2>1. bufferedWrites' = Append(bufferedWrites, count + 1) /\ UNCHANGED <<sent, failed>>
    BY <1>6 DEF Write
  <2>2. /\ bufferedWrites' \in Seq(Nat)
        /\ Len(bufferedWrites') = n + 1 /\ DOMAIN bufferedWrites' = 1..(n + 1)
        /\ \A i \in 1..n : bufferedWrites'[i] = bufferedWrites[i]
        /\ bufferedWrites'[n + 1] = count + 1
    <3>1. bufferedWrites \in Seq(Nat) /\ count + 1 \in Nat
      BY <1>2 DEF IInv, Typed
    <3> QED
      BY <2>1, <3>1, AppendProperties, LenProperties
  <2> HIDE DEF n
  <2>3. Passed' = Passed
    BY <1>1, <2>1 DEF Passed
  <2>4. Typed'
    BY <1>1, <1>2, <2>1, <2>2 DEF IInv, Typed
  <2>5. Phases' /\ Sent'
    BY <1>1, <1>6, <2>1 DEF IInv, Phases, Sent
  <2>6. \A i \in 1..(n + 1) : bufferedWrites'[i] \in (Passed + 1)..(count + 1)
    <3> TAKE i \in 1..(n + 1)
    <3>1. CASE i = n + 1
      BY <1>2, <2>2, <3>1
    <3>2. CASE i # n + 1
      <4>1. i \in 1..n
        BY <1>2, <3>2
      <4>2. bufferedWrites'[i] = bufferedWrites[i] /\ bufferedWrites[i] \in (Passed + 1)..count
        BY <1>2, <2>2, <4>1
      <4> QED
        BY <1>2, <4>2
    <3> QED
      BY <3>1, <3>2
  <2>7. \A i, j \in 1..(n + 1) : i < j => bufferedWrites'[i] < bufferedWrites'[j]
    <3> SUFFICES ASSUME NEW i \in 1..(n + 1), NEW j \in 1..(n + 1), i < j
                 PROVE  bufferedWrites'[i] < bufferedWrites'[j]
      OBVIOUS
    <3>1. i \in 1..n
      BY <1>2
    <3>2. bufferedWrites'[i] = bufferedWrites[i] /\ bufferedWrites[i] \in (Passed + 1)..count
      BY <1>2, <2>2, <3>1
    <3>3. CASE j = n + 1
      BY <1>2, <2>2, <3>2, <3>3
    <3>4. CASE j # n + 1
      <4>1. j \in 1..n
        BY <1>2, <3>4
      <4> QED
        BY <1>2, <2>2, <3>1, <4>1
    <3> QED
      BY <3>3, <3>4
  <2>8. failed' = {v \in (Passed + 1)..(count + 1) : \A i \in 1..(n + 1) : bufferedWrites'[i] # v}
    <3>1. ASSUME NEW v \in (Passed + 1)..(count + 1)
          PROVE  v \in failed <=> \A i \in 1..(n + 1) : bufferedWrites'[i] # v
      <4>1. CASE v = count + 1
        <5>1. n + 1 \in 1..(n + 1)
          BY <1>2
        <5> QED
          BY <1>2, <2>2, <4>1, <5>1
      <4>2. CASE v # count + 1
        <5>1. v \in (Passed + 1)..count
          BY <1>2, <4>2
        <5>2. \A i \in 1..(n + 1) : i = n + 1 \/ i \in 1..n
          BY <1>2
        <5>3. \A i \in 1..n : i \in 1..(n + 1)
          BY <1>2
        <5> QED
          BY <1>2, <2>2, <4>2, <5>1, <5>2, <5>3
      <4> QED
        BY <4>1, <4>2
    <3>2. failed \subseteq (Passed + 1)..(count + 1)
      BY <1>2
    <3> QED
      BY <2>1, <3>1, <3>2
  <2>9. channel # "closed" =>
          /\ n + 1 = (count + 1) - Passed
          /\ \A i \in 1..(n + 1) : bufferedWrites'[i] = Passed + i
    <3> SUFFICES ASSUME channel # "closed"
                 PROVE  /\ n + 1 = (count + 1) - Passed
                        /\ \A i \in 1..(n + 1) : bufferedWrites'[i] = Passed + i
      OBVIOUS
    <3>1. n = count - Passed /\ \A i \in 1..n : bufferedWrites[i] = Passed + i
      BY <1>2 DEF IInv, Line, n
    <3>2. \A i \in 1..(n + 1) : i = n + 1 \/ i \in 1..n
      BY <1>2
    <3>3. n + 1 = (count + 1) - Passed /\ count + 1 = Passed + (n + 1)
      BY <1>2, <3>1
    <3>4. ASSUME NEW i \in 1..(n + 1) PROVE bufferedWrites'[i] = Passed + i
      <4>1. CASE i = n + 1
        BY <2>2, <3>3, <4>1
      <4>2. CASE i \in 1..n
        BY <2>2, <3>1, <4>2
      <4> QED
        BY <3>2, <4>1, <4>2
    <3> QED
      BY <3>3, <3>4
  <2>10. Line'
    <3>1. Passed <= count + 1
      BY <1>2
    <3> QED
      BY <1>1, <2>2, <2>3, <2>6, <2>7, <2>8, <2>9, <3>1 DEF Line
  <2>11. Marks'
    <3>1. mark # 0 => \E i \in 1..(n + 1) : bufferedWrites'[i] = mark
      <4> SUFFICES ASSUME mark # 0 PROVE \E i \in 1..(n + 1) : bufferedWrites'[i] = mark
        OBVIOUS
      <4>1. PICK i \in 1..n : bufferedWrites[i] = mark
        BY <1>2 DEF IInv, Marks, n
      <4>2. i \in 1..(n + 1)
        BY <1>2
      <4> QED
        BY <2>2, <4>1, <4>2
    <3>2. asked <= count + 1
      BY <1>2
    <3> QED
      BY <1>1, <2>2, <2>3, <3>1, <3>2 DEF IInv, Marks
  <2>12. Leaving'
    <3>1. clientState = "active" => ~(stack = <<>> \/ Head(stack) \in Ends)
      BY <1>6 DEF IInv, Leaving
    <3> QED
      BY <1>1, <3>1 DEF IInv, Leaving
  <2> QED
    BY <1>4, <2>4, <2>5, <2>10, <2>11, <2>12 DEF IInv
<1> QED
  BY <1>5, <1>6

\* What the application flushes, is passed on or marked.
LEMMA FlushKeepsInvariant ==
  ASSUME IInv, Flush
  PROVE  IInv'
<1> DEFINE n == Len(bufferedWrites)
<1>1. /\ handler # "absent"
      /\ asked' = count
      /\ UNCHANGED <<channel, clientState, clientBuffer, bufferedWrites, removal, handler, sent,
                     count, failed>>
  BY DEF Flush
<1>2. /\ Passed \in Nat /\ count \in Nat /\ n \in Nat /\ DOMAIN bufferedWrites = 1..n
      /\ bufferedWrites \in Seq(Nat) /\ stack \in Seq(Kinds) /\ Len(sent) \in Nat
      /\ clientState = "active" => Len(sent) = HelloLength + Passed
      /\ HelloLength \in Nat
  BY Sizes DEF IInv, Typed
<1>3. Passed' = Passed /\ HelloLength' = HelloLength
  BY <1>1 DEF Passed, HelloLength, Hello
<1>4. Line'
  BY <1>1, <1>3 DEF IInv, Line
<1>5. channel # "closed" =>
        n = count - Passed /\ \A i \in 1..n : bufferedWrites[i] = Passed + i
  BY <1>2 DEF IInv, Line
<1>6. CASE handler = "removed"
  <2>1. FlushNetwork /\ UNCHANGED <<mark, stack>>
    BY <1>6 DEF Flush
  <2>2. IF channel = "active" THEN flushed' = Len(sent) ELSE flushed' = flushed
    BY <2>1 DEF FlushNetwork
  <2>3. Typed' /\ Phases' /\ Sent'
    BY <1>1, <1>2, <2>1, <2>2 DEF IInv, Typed, Phases, Sent
  <2>4. channel # "closed" => n = 0 /\ count = Passed
    <3>1. channel # "closed" => bufferedWrites = <<>>
      BY <1>6 DEF IInv, Phases
    <3> QED
      BY <1>2, <1>5, <3>1
  <2>5. channel # "closed" => mark = 0
    BY <1>2, <2>4 DEF IInv, Marks
  <2>6. Marks'
    BY <1>1, <1>2, <1>3, <2>1, <2>4, <2>5 DEF IInv, Marks
  <2>7. Flushes'
    BY <1>1, <1>2, <1>3, <2>2, <2>4 DEF Flushes
  <2>8. Leaving'
    BY <1>1, <2>1 DEF IInv, Leaving
  <2> QED
    BY <1>4, <2>3, <2>6, <2>7, <2>8 DEF IInv
<1>7. CASE handler # "removed"
  <2>1. /\ mark' = IF bufferedWrites = <<>> THEN mark ELSE Last(bufferedWrites)
        /\ stack' = IF clientState = "active" THEN <<"marked", "rest">> \o stack ELSE stack
        /\ flushed' = flushed
    BY <1>7 DEF Flush, WriteBufferedData
  <2>2. /\ stack' \in Seq(Kinds)
        /\ Paired(stack')
        /\ clientState = "active" =>
             /\ stack' # <<>> /\ Head(stack') = "marked" /\ Flushing(stack')
             /\ \A kinds : Has(stack, kinds) => Has(stack', kinds)
        /\ clientState # "active" => stack' = stack
    <3>1. Paired(stack)
      BY DEF IInv, Leaving
    <3>2. CASE clientState = "active"
      <4> DEFINE t == <<"marked", "rest">> \o stack
      <4>1. /\ t \in Seq(Kinds) /\ t # <<>> /\ Head(t) = "marked"
            /\ Flushing(t)
            /\ Paired(stack) => Paired(t)
            /\ \A kinds : Has(stack, kinds) => Has(t, kinds)
        <5> HIDE DEF t
        <5> QED
          BY <1>2, Push DEF t
      <4>2. stack' = t
        BY <2>1, <3>2
      <4> QED
        BY <3>1, <3>2, <4>1, <4>2
    <3>3. CASE clientState # "active"
      BY <1>2, <2>1, <3>1, <3>3
    <3> QED
      BY <3>2, <3>3
  <2>3. bufferedWrites # <<>> => n \in 1..n /\ mark' = bufferedWrites[n] /\ mark' \in Nat
    <3>1. bufferedWrites # <<>> => n # 0
      BY <1>2, EmptySeq
    <3>2. \A i \in 1..n : bufferedWrites[i] \in Nat
      BY <1>2, LenProperties
    <3> QED
      BY <1>2, <2>1, <3>1, <3>2 DEF Last
  <2>4. bufferedWrites = <<>> => mark' = mark /\ mark = 0 /\ n = 0
    <3>1. bufferedWrites = <<>> => n = 0
      OBVIOUS
    <3> QED
      BY <1>2, <2>1, <3>1 DEF IInv, Marks
  <2>5. Typed' /\ Phases' /\ Sent'
    BY <1>1, <1>2, <2>1, <2>2, <2>3, <2>4 DEF IInv, Typed, Phases, Sent
  <2>6. Marks'
    <3>1. mark' # 0 => \E i \in 1..n : bufferedWrites[i] = mark'
      BY <1>2, <2>3, <2>4
    <3>2. channel # "closed" => IF mark' = 0 THEN count <= Passed ELSE mark' = count
      <4>1. SUFFICES ASSUME channel # "closed"
                     PROVE  IF mark' = 0 THEN count <= Passed ELSE mark' = count
        OBVIOUS
      <4>2. n = count - Passed /\ \A i \in 1..n : bufferedWrites[i] = Passed + i
        BY <1>5, <4>1
      <4>3. CASE bufferedWrites = <<>>
        BY <1>2, <2>4, <4>2, <4>3
      <4>4. CASE bufferedWrites # <<>>
        <5>1. mark' = Passed + n
          BY <2>3, <4>2, <4>4
        <5>2. mark' = count /\ n > 0
          BY <1>2, <2>3, <4>2, <4>4, <5>1
        <5> QED
          BY <1>2, <4>2, <5>2
      <4> QED
        BY <4>3, <4>4
    <3> QED
      BY <1>1, <1>2, <1>3, <3>1, <3>2 DEF Marks
  <2>7. Flushes'
    BY <1>1, <1>7, <2>2 DEF Flushes
  <2>8. Leaving'
    <3>1. clientState = "active" => ~(stack' = <<>> \/ Head(stack') \in Ends)
      BY <2>2 DEF Ends
    <3>2. clientState = "active" /\ ~Has(stack', {"empty"}) => clientBuffer = <<>>
      BY <2>2 DEF IInv, Leaving
    <3>3. clientState = "active" /\ removal /\ ~Has(stack', Ends) => handler = "removed"
      BY <2>2 DEF IInv, Leaving
    <3> QED
      BY <1>1, <2>2, <3>1, <3>2, <3>3 DEF Leaving
  <2> QED
    BY <1>4, <2>5, <2>6, <2>7, <2>8 DEF IInv
<1> QED
  BY <1>6, <1>7

\* The removal, which empties the buffers of a tunnel first.
LEMMA RemoveHandlerKeepsInvariant ==
  ASSUME IInv, RemoveHandler
  PROVE  IInv'
<1>1. /\ handler = "added" /\ removal' = TRUE
      /\ stack' = IF clientState = "active" THEN <<"empty", "leave">> \o stack ELSE stack
      /\ UNCHANGED <<channel, clientState, clientBuffer, bufferedWrites, mark, handler, sent,
                     flushed, count, asked, failed>>
  BY DEF RemoveHandler
<1>2. stack \in Seq(Kinds) /\ Paired(stack)
  BY DEF IInv, Typed, Leaving
<1>3. /\ stack' \in Seq(Kinds)
      /\ Paired(stack')
      /\ clientState = "active" =>
           /\ stack' # <<>> /\ Head(stack') = "empty" /\ Flushing(stack')
           /\ Has(stack', {"empty"}) /\ Has(stack', {"leave"})
      /\ clientState # "active" => stack' = stack
  <2>1. CASE clientState = "active"
    <3> DEFINE t == <<"empty", "leave">> \o stack
    <3>1. "leave" \in Ends
      BY DEF Ends
    <3>2. /\ t \in Seq(Kinds) /\ t # <<>> /\ Head(t) = "empty"
          /\ Flushing(t)
          /\ Paired(stack) => Paired(t)
          /\ Has(t, {"empty"}) /\ Has(t, {"leave"})
      <4> HIDE DEF t
      <4> QED
        BY <1>2, <3>1, Push DEF t
    <3>3. stack' = t
      BY <1>1, <2>1
    <3> QED
      BY <1>2, <2>1, <3>2, <3>3
  <2>2. CASE clientState # "active"
    BY <1>1, <1>2, <2>2
  <2> QED
    BY <2>1, <2>2
<1>4. clientState = "active" => Has(stack', Ends)
  BY <1>3 DEF Has, Ends
<1>5. Passed' = Passed
  BY <1>1 DEF Passed
<1>6. Typed' /\ Phases' /\ Sent'
  BY <1>1, <1>3 DEF IInv, Typed, Phases, Sent
<1>7. Line' /\ Marks'
  BY <1>1, <1>5 DEF IInv, Line, Marks
<1>8. Flushes'
  BY <1>1, <1>3 DEF Flushes
<1>9. Leaving'
  BY <1>1, <1>3, <1>4 DEF Leaving, Ends
<1> QED
  BY <1>6, <1>7, <1>8, <1>9 DEF IInv

\* The bytes that followed the handshake are handed on.
LEMMA ContinueEmptyKeepsInvariant ==
  ASSUME IInv, ContinueEmpty
  PROVE  IInv'
<1>1. /\ stack # <<>> /\ Head(stack) = "empty"
      /\ clientBuffer' = <<>>
      /\ stack' = <<"marked", "rest">> \o Tail(stack)
      /\ UNCHANGED <<channel, clientState, bufferedWrites, mark, removal, handler, sent, flushed,
                     count, asked, failed>>
  BY DEF ContinueEmpty, WriteBufferedData
<1>2. clientState = "active" /\ stack \in Seq(Kinds) /\ Paired(stack)
  BY <1>1 DEF IInv, Typed, Phases, Leaving
<1>3. /\ Tail(stack) \in Seq(Kinds) /\ Paired(Tail(stack))
      /\ \A kinds : Has(stack, kinds) /\ Head(stack) \notin kinds => Has(Tail(stack), kinds)
  BY <1>1, <1>2, Pop
<1> DEFINE s == Tail(stack)
           t == <<"marked", "rest">> \o s
<1> HIDE DEF s
<1>4. /\ t \in Seq(Kinds) /\ t # <<>> /\ Head(t) = "marked"
      /\ Flushing(t)
      /\ Paired(s) => Paired(t)
      /\ \A kinds : Has(s, kinds) => Has(t, kinds)
  <2>1. s \in Seq(Kinds)
    BY <1>3 DEF s
  <2> HIDE DEF t
  <2> QED
    BY <2>1, Push DEF t
<1>5. stack' = t
  BY <1>1 DEF s
<1> HIDE DEF t
<1>6. Head(stack) \notin Ends
  BY <1>1 DEF Ends
<1>7. Has(stack, Ends) => Has(stack', Ends)
  BY <1>3, <1>4, <1>5, <1>6 DEF s
<1>8. Passed' = Passed
  BY <1>1 DEF Passed
<1>9. Typed' /\ Phases' /\ Sent'
  BY <1>1, <1>2, <1>4, <1>5 DEF IInv, Typed, Phases, Sent
<1>10. Line' /\ Marks'
  BY <1>1, <1>8 DEF IInv, Line, Marks
<1>11. Flushing(stack') /\ Paired(stack') /\ stack' # <<>> /\ Head(stack') \notin Ends
  BY <1>3, <1>4, <1>5 DEF s, Ends
<1>12. Flushes'
  <2>1. HelloLength' = HelloLength
    BY DEF HelloLength, Hello
  <2> QED
    BY <1>1, <1>11, <2>1 DEF IInv, Flushes
<1>13. Leaving'
  BY <1>1, <1>7, <1>11 DEF IInv, Leaving
<1> QED
  BY <1>9, <1>10, <1>12, <1>13 DEF IInv

\* The loop over the marked writes.
LEMMA ContinueMarkedKeepsInvariant ==
  ASSUME IInv, ContinueMarked
  PROVE  IInv'
<1>1. /\ stack # <<>> /\ Head(stack) = "marked"
      /\ UNCHANGED <<channel, clientState, clientBuffer, removal, handler, count, asked>>
  BY DEF ContinueMarked
<1>2. CASE mark # 0
  <2>1. ForwardBuffered /\ UNCHANGED <<stack, flushed>>
    BY <1>2 DEF ContinueMarked
  <2>2. bufferedWrites # <<>>
    <3>1. PICK i \in DOMAIN bufferedWrites : bufferedWrites[i] = mark
      BY <1>2 DEF IInv, Marks
    <3> QED
      BY <3>1
  <2> QED
    BY <1>1, <2>1, <2>2, ForwardBufferedKeepsInvariant
<1>3. CASE mark = 0
  <2>1. /\ stack' = Tail(stack)
        /\ UNCHANGED <<bufferedWrites, mark, sent, failed>>
        /\ flushed' = IF handler = "added" /\ channel = "active" THEN Len(sent) ELSE flushed
    BY <1>3 DEF ContinueMarked, FlushNetwork
  <2>2. clientState = "active" /\ stack \in Seq(Kinds) /\ Paired(stack)
    BY <1>1 DEF IInv, Typed, Phases, Leaving
  <2>3. /\ stack' \in Seq(Kinds) /\ Paired(stack')
        /\ \A kinds : Has(stack, kinds) /\ Head(stack) \notin kinds => Has(stack', kinds)
        /\ stack' # <<>> /\ Head(stack') = "rest"
    BY <1>1, <2>1, <2>2, Pop
  <2>4. /\ Len(sent) \in Nat /\ Passed \in Nat /\ asked \in Nat /\ HelloLength \in Nat
        /\ Len(sent) = HelloLength + Passed
    BY <2>2, Sizes DEF IInv, Typed
  <2>5. Passed' = Passed /\ HelloLength' = HelloLength
    BY <1>1, <2>1 DEF Passed, HelloLength, Hello
  <2>6. Typed' /\ Phases' /\ Sent'
    BY <1>1, <2>1, <2>2, <2>3, <2>4 DEF IInv, Typed, Phases, Sent
  <2>7. Line' /\ Marks'
    BY <1>1, <2>1, <2>5 DEF IInv, Line, Marks
  <2>8. Flushes'
    <3>1. SUFFICES ASSUME channel = "active" PROVE flushed' >= HelloLength + asked
      BY <1>1, <2>5 DEF Flushes
    <3>2. asked <= Passed
      BY <1>3, <3>1 DEF IInv, Marks
    <3>3. CASE handler = "added"
      BY <2>1, <2>4, <3>1, <3>2, <3>3
    <3>4. CASE handler = "removed"
      BY <2>1, <2>2, <3>1, <3>4 DEF IInv, Flushes
    <3>5. handler # "absent"
      BY <2>2 DEF IInv, Phases
    <3> QED
      BY <3>3, <3>4, <3>5 DEF IInv, Typed
  <2>9. Leaving'
    <3>1. Head(stack) \notin Ends /\ Head(stack) \notin {"empty"} /\ Head(stack') \notin Ends
      BY <1>1, <2>3 DEF Ends
    <3>2. /\ Has(stack, Ends) => Has(stack', Ends)
          /\ Has(stack, {"empty"}) => Has(stack', {"empty"})
      BY <2>3, <3>1
    <3> QED
      BY <1>1, <2>1, <2>3, <3>1, <3>2 DEF IInv, Leaving
  <2> QED
    BY <2>6, <2>7, <2>8, <2>9 DEF IInv
<1> QED
  BY <1>2, <1>3

\* The loop over the other ones.
LEMMA ContinueRestKeepsInvariant ==
  ASSUME IInv, ContinueRest
  PROVE  IInv'
<1>1. /\ stack # <<>> /\ Head(stack) = "rest"
      /\ UNCHANGED <<channel, clientState, clientBuffer, removal, handler, flushed, count, asked>>
  BY DEF ContinueRest
<1>2. CASE bufferedWrites # <<>>
  <2>1. ForwardBuffered /\ UNCHANGED stack
    BY <1>2 DEF ContinueRest
  <2> QED
    BY <1>1, <1>2, <2>1, ForwardBufferedKeepsInvariant
<1>3. CASE bufferedWrites = <<>>
  <2>1. stack' = Tail(stack) /\ UNCHANGED <<bufferedWrites, mark, sent, failed>>
    BY <1>3 DEF ContinueRest
  <2>2. clientState = "active" /\ stack \in Seq(Kinds) /\ Paired(stack)
    BY <1>1 DEF IInv, Typed, Phases, Leaving
  <2>3. /\ stack' \in Seq(Kinds) /\ Paired(stack')
        /\ \A kinds : Has(stack, kinds) /\ Head(stack) \notin kinds => Has(stack', kinds)
        /\ Flushing(stack) /\ Head(stack) \notin Flushers => Flushing(stack')
    BY <1>1, <2>1, <2>2, Pop
  <2>4. Passed' = Passed /\ HelloLength' = HelloLength
    BY <1>1, <2>1 DEF Passed, HelloLength, Hello
  <2>5. /\ Head(stack) \notin Flushers /\ Head(stack) \notin Ends
        /\ Head(stack) \notin {"empty"}
    BY <1>1 DEF Flushers, Ends
  <2>6. Typed' /\ Phases' /\ Sent'
    BY <1>1, <2>1, <2>2, <2>3 DEF IInv, Typed, Phases, Sent
  <2>7. Line' /\ Marks'
    BY <1>1, <2>1, <2>4 DEF IInv, Line, Marks
  <2>8. Flushes'
    <3>1. Flushing(stack) => Flushing(stack')
      BY <2>3, <2>5
    <3> QED
      BY <1>1, <2>4, <3>1 DEF IInv, Flushes
  <2>9. Leaving'
    <3>1. /\ Has(stack, Ends) => Has(stack', Ends)
          /\ Has(stack, {"empty"}) => Has(stack', {"empty"})
      BY <2>3, <2>5
    <3> QED
      BY <1>1, <1>3, <2>1, <2>3, <3>1 DEF IInv, Leaving
  <2> QED
    BY <2>6, <2>7, <2>8, <2>9 DEF IInv
<1> QED
  BY <1>2, <1>3

\* A call that ends, and takes the handler out if that was asked for.
LEMMA ContinueLeaveKeepsInvariant ==
  ASSUME IInv, ContinueLeave
  PROVE  IInv'
<1>1. /\ stack # <<>> /\ Head(stack) \in Ends
      /\ stack' = Tail(stack)
      /\ handler' = IF removal THEN "removed" ELSE handler
      /\ UNCHANGED <<channel, clientState, clientBuffer, bufferedWrites, mark, removal, sent,
                     flushed, count, asked, failed>>
  BY DEF ContinueLeave, Ends
<1>2. clientState = "active" /\ stack \in Seq(Kinds) /\ Paired(stack) /\ bufferedWrites = <<>>
  BY <1>1 DEF IInv, Typed, Phases, Leaving
<1>3. /\ stack' \in Seq(Kinds) /\ Paired(stack')
      /\ \A kinds : Has(stack, kinds) /\ Head(stack) \notin kinds => Has(stack', kinds)
      /\ ~Flushing(stack)
  BY <1>1, <1>2, Pop
<1>4. Passed' = Passed /\ HelloLength' = HelloLength
  BY <1>1 DEF Passed, HelloLength, Hello
<1>5. Typed'
  BY <1>1, <1>3 DEF IInv, Typed
<1>6. Phases' /\ Sent'
  <2>1. handler # "absent" /\ handler' # "absent"
    BY <1>1, <1>2 DEF IInv, Phases
  <2> QED
    BY <1>1, <1>2, <2>1 DEF IInv, Phases, Sent
<1>7. Line' /\ Marks'
  BY <1>1, <1>4 DEF IInv, Line, Marks
<1>8. Flushes'
  BY <1>1, <1>3, <1>4 DEF IInv, Flushes
<1>9. Leaving'
  <2>1. Head(stack) \notin {"empty"}
    BY <1>1 DEF Ends
  <2>2. Has(stack, {"empty"}) => Has(stack', {"empty"})
    BY <1>3, <2>1
  <2> QED
    BY <1>1, <1>2, <1>3, <2>2 DEF IInv, Leaving
<1> QED
  BY <1>5, <1>6, <1>7, <1>8, <1>9 DEF IInv

\* What happens to the client's channel.
LEMMA ChannelKeepsInvariant ==
  ASSUME IInv, Connected \/ ConnectionLost \/ Teardown
  PROVE  IInv'
<1>1. UNCHANGED <<clientState, clientBuffer, bufferedWrites, mark, removal, stack, sent, flushed,
                  count, asked, failed>>
  BY DEF Connected, ConnectionLost, Teardown
<1>2. Passed' = Passed
  BY <1>1 DEF Passed
<1>3. \/ channel = "connecting" /\ channel' = "active" /\ handler' = handler
      \/ channel' = "closed" /\ handler' \in {handler, "removed"}
  BY DEF Connected, ConnectionLost, CloseClient, Teardown
<1>4. handler' = handler \/ handler' = "removed"
  BY <1>3
<1>5. Typed'
  BY <1>1, <1>3, <1>4 DEF IInv, Typed
<1>6. channel = "connecting" => clientState = "inactive"
  BY DEF IInv, Phases
<1>7. Phases' /\ Sent'
  BY <1>1, <1>3, <1>4, <1>6 DEF IInv, Phases, Sent
<1>8. Line' /\ Marks'
  BY <1>1, <1>2, <1>3 DEF IInv, Line, Marks
<1>9. Flushes'
  BY <1>1, <1>3, <1>6 DEF Flushes
<1>10. Leaving'
  BY <1>1, <1>4 DEF IInv, Leaving
<1> QED
  BY <1>5, <1>7, <1>8, <1>9, <1>10 DEF IInv

-----------------------------------------------------------------------------
(* The theorems.                                                           *)

\* The initial state.
LEMMA InitIInv == Init => IInv
<1> SUFFICES ASSUME Init PROVE IInv
  OBVIOUS
<1> USE DEF Init
<1>1. Typed
  BY EmptySeq DEF Typed
<1>2. Passed = 0
  BY DEF Passed
<1>3. Phases /\ Sent /\ Flushes
  BY DEF Phases, Sent, Flushes
<1>4. Line
  <2>1. Len(bufferedWrites) = 0 /\ DOMAIN bufferedWrites = {}
    OBVIOUS
  <2> QED
    BY <1>2, <2>1 DEF Line
<1>5. Marks
  BY <1>2 DEF Marks
<1>6. Leaving
  BY DEF Leaving, Paired
<1> QED
  BY <1>1, <1>3, <1>4, <1>5, <1>6 DEF IInv

\* Every step keeps the invariant.
LEMMA NextIInv == IInv /\ [Next]_vars => IInv'
<1> SUFFICES ASSUME IInv, [Next]_vars PROVE IInv'
  OBVIOUS
<1>1. CASE HandlerAdded \/ ChannelActive
  <2>1. CASE HandlerAdded
    BY <2>1, BeginHandshakeKeepsInvariant DEF HandlerAdded
  <2>2. CASE ChannelActive
    <3>1. UNCHANGED <<channel, clientBuffer, bufferedWrites, mark, removal, handler, stack, count,
                      asked, failed>>
      BY <2>2 DEF ChannelActive
    <3>2. CASE handler = "added"
      BY <2>2, <3>1, <3>2, BeginHandshakeKeepsInvariant DEF ChannelActive
    <3>3. CASE handler # "added"
      <4>1. UNCHANGED <<clientState, sent, flushed>>
        BY <2>2, <3>3 DEF ChannelActive
      <4> QED
        BY <3>1, <4>1, UnrelatedKeepsInvariant
    <3> QED
      BY <3>2, <3>3
  <2> QED
    BY <1>1, <2>1, <2>2
<1>2. ASSUME NEW n \in DOMAIN toClient, ChannelRead(n) PROVE IInv'
  BY <1>2, ChannelReadKeepsInvariant
<1>3. CASE Write
  BY <1>3, WriteKeepsInvariant
<1>4. CASE Flush
  BY <1>4, FlushKeepsInvariant
<1>5. CASE RemoveHandler
  BY <1>5, RemoveHandlerKeepsInvariant
<1>6. CASE Continue
  BY <1>6, ContinueEmptyKeepsInvariant, ContinueMarkedKeepsInvariant,
     ContinueRestKeepsInvariant, ContinueLeaveKeepsInvariant DEF Continue
<1>7. CASE Connected \/ ConnectionLost \/ Teardown
  BY <1>7, ChannelKeepsInvariant
<1>8. CASE UNCHANGED clientVars
  BY <1>8, UnrelatedKeepsInvariant DEF clientVars
<1>9. ASSUME NEW n \in DOMAIN toServer, ServerChannelRead(n) PROVE UNCHANGED clientVars
  BY <1>9 DEF ServerChannelRead
<1>10. ASSUME NEW method \in {NoneRequired, 1}, SendAuthenticationMethod(method)
       PROVE  UNCHANGED clientVars
  BY <1>10 DEF SendAuthenticationMethod
<1>11. ASSUME NEW reply \in {Succeeded, 1}, SendServerResponse(reply) PROVE UNCHANGED clientVars
  BY <1>11 DEF SendServerResponse
<1>12. CASE ServerHandlerRemoved \/ ServerWrite \/ UNCHANGED vars
  <2>1. UNCHANGED clientVars
    BY <1>12 DEF ServerHandlerRemoved, ServerWrite, vars
  <2> QED
    BY <1>8, <2>1
<1> QED
  BY <1>1, <1>2, <1>3, <1>4, <1>5, <1>6, <1>7, <1>8, <1>9, <1>10, <1>11, <1>12 DEF Next

\* The invariant holds always.
LEMMA IInvAlways == Spec => []IInv
BY InitIInv, NextIInv, PTL DEF Spec

\* A sequence is a prefix of another one if it agrees with it element by element.
LEMMA PrefixByElements ==
  ASSUME NEW T, NEW s \in Seq(T), NEW t \in Seq(T), Len(s) <= Len(t),
         \A i \in 1..Len(s) : s[i] = t[i]
  PROVE  IsPrefix(s, t)
<1>1. Len(s) \in Nat /\ Len(t) \in Nat
  BY LenProperties
<1>2. SubSeq(s, 1, Len(s)) = s
  BY SubSeqFull
<1>3. \A i \in 1..Len(s) : t[i] \in T
  BY <1>1, ElementOfSeq
<1>4. /\ SubSeq(t, 1, Len(s)) \in Seq(T)
      /\ Len(SubSeq(t, 1, Len(s))) = Len(s)
      /\ \A i \in 1..Len(s) : SubSeq(t, 1, Len(s))[i] = t[i]
  <2>1. /\ SubSeq(t, 1, Len(s)) \in Seq(T)
        /\ Len(SubSeq(t, 1, Len(s))) = IF 1 <= Len(s) THEN Len(s) - 1 + 1 ELSE 0
        /\ \A i \in 1..(Len(s) - 1 + 1) : SubSeq(t, 1, Len(s))[i] = t[1 + i - 1]
    BY <1>1, <1>3, SubSeqProperties
  <2>2. Len(s) - 1 + 1 = Len(s) /\ \A i \in 1..Len(s) : 1 + i - 1 = i
    BY <1>1
  <2>3. (IF 1 <= Len(s) THEN Len(s) - 1 + 1 ELSE 0) = Len(s)
    BY <1>1
  <2> QED
    BY <2>1, <2>2, <2>3
<1>5. SubSeq(t, 1, Len(s)) = s
  BY <1>4, SeqEqual
<1> QED
  BY <1>2, <1>5 DEF IsPrefix

\* Nothing but the hello and, once the tunnel is there, the writes in the order of the calls
\* is sent (write, writeBufferedData, beginHandshake).
THEOREM WritesInOrder == Spec => []SentInOrder
<1>1. IInv => SentInOrder
  <2> SUFFICES ASSUME IInv PROVE SentInOrder
    OBVIOUS
  <2> DEFINE data == Data(100, count)
             all == Hello \o data
  <2>1. /\ Passed \in Nat /\ Len(sent) \in Nat /\ HelloLength \in Nat /\ count \in Nat
        /\ Passed <= count /\ sent \in Seq(Nat)
        /\ clientState = "active" => Len(sent) = HelloLength + Passed
    BY Sizes DEF IInv, Typed, Line
  <2>2. data \in Seq(Nat) /\ Len(data) = count /\ \A i \in 1..count : data[i] = 100 + i
    BY <2>1 DEF Data
  <2> HIDE DEF data
  <2>3. /\ all \in Seq(Nat) /\ Len(all) = HelloLength + count
        /\ \A i \in 1..(HelloLength + count) :
             all[i] = IF i <= HelloLength THEN Hello[i] ELSE data[i - HelloLength]
    <3>1. Hello \in Seq(Nat)
      BY HelloIs
    <3>2. /\ Hello \o data \in Seq(Nat)
          /\ Len(Hello \o data) = Len(Hello) + Len(data)
          /\ \A i \in 1..(Len(Hello) + Len(data)) : (Hello \o data)[i] =
               IF i <= Len(Hello) THEN Hello[i] ELSE data[i - Len(Hello)]
      BY <2>2, <3>1, ConcatProperties
    <3> QED
      BY <2>2, <3>2 DEF HelloLength
  <2> HIDE DEF all
  <2>4. CASE clientState = "active"
    <3>1. ASSUME NEW i \in 1..Len(sent) PROVE sent[i] = all[i]
      <4>1. CASE i <= HelloLength
        <5>1. i \in 1..HelloLength /\ i \in 1..(HelloLength + count)
          BY <2>1, <4>1
        <5> QED
          BY <2>3, <2>4, <4>1, <5>1 DEF IInv, Sent
      <4>2. CASE ~(i <= HelloLength)
        <5>1. /\ i - HelloLength \in 1..(Len(sent) - HelloLength)
              /\ i - HelloLength \in 1..count
              /\ HelloLength + (i - HelloLength) = i
              /\ i \in 1..(HelloLength + count)
          BY <2>1, <2>4, <4>2
        <5>2. sent[i] = 100 + (i - HelloLength)
          BY <2>4, <5>1 DEF IInv, Sent
        <5> QED
          BY <2>2, <2>3, <4>2, <5>1, <5>2
      <4> QED
        BY <4>1, <4>2
    <3>2. Len(sent) <= Len(all)
      BY <2>1, <2>3, <2>4
    <3>3. IsPrefix(sent, all)
      BY <2>1, <2>3, <3>1, <3>2, PrefixByElements
    <3> QED
      BY <2>4, <3>3 DEF SentInOrder, all, data
  <2>5. CASE clientState # "active"
    <3>1. sent \in {<<>>, Greeting, Hello}
      BY <2>5 DEF IInv, Typed, Phases
    <3>2. Len(sent) <= HelloLength /\ \A i \in 1..Len(sent) : sent[i] = Hello[i]
      <4>1. CASE sent = <<>>
        BY <4>1, HelloIs
      <4>2. CASE sent = Hello
        BY <4>2, HelloIs DEF HelloLength
      <4>3. CASE sent = Greeting
        <5> DEFINE request == WriteClientRequest(TargetAddress)
        <5>1. Greeting \in Seq(Nat) /\ request \in Seq(Nat) /\ Hello = Greeting \o request
          BY HelloIs
        <5> HIDE DEF request
        <5>2. Len(request) \in Nat
          BY <5>1, LenProperties
        <5>3. \A i \in 1..(Len(Greeting) + Len(request)) :
                Hello[i] = IF i <= Len(Greeting) THEN Greeting[i] ELSE request[i - Len(Greeting)]
          BY <5>1, ConcatProperties
        <5>4. ASSUME NEW i \in 1..Len(sent) PROVE sent[i] = Hello[i]
          <6>1. i \in 1..(Len(Greeting) + Len(request)) /\ i <= Len(Greeting)
            BY <2>1, <4>3, <5>2
          <6> QED
            BY <4>3, <5>3, <6>1
        <5> QED
          BY <4>3, <5>4, HelloIs
      <4> QED
        BY <3>1, <4>1, <4>2, <4>3
    <3>3. \A i \in 1..Len(sent) : i \in 1..(HelloLength + count) /\ i <= HelloLength
      BY <2>1, <3>2
    <3>4. \A i \in 1..Len(sent) : sent[i] = all[i]
      BY <2>3, <3>2, <3>3
    <3>5. Len(sent) <= Len(all) /\ ~(Len(sent) > HelloLength)
      BY <2>1, <2>3, <3>2
    <3>6. IsPrefix(sent, all)
      BY <2>1, <2>3, <3>4, <3>5, PrefixByElements
    <3> QED
      BY <3>5, <3>6 DEF SentInOrder, HelloLength, all, data
  <2> QED
    BY <2>4, <2>5
<1> QED
  BY <1>1, IInvAlways, PTL

\* A write is buffered, was sent or was failed, and only one of these, however the calls are
\* nested and wherever the channel closes (write, writeBufferedData, removeHandler).
THEOREM EveryWriteAccounted == Spec => []NoWriteLost
<1>1. IInv => NoWriteLost
  <2> SUFFICES ASSUME IInv PROVE NoWriteLost
    OBVIOUS
  <2> DEFINE tail == SubSeq(sent, HelloLength + 1, Len(sent))
             passed == {b - 100 : b \in ToSet(tail)}
             n == Len(bufferedWrites)
  <2>1. /\ Passed \in Nat /\ Len(sent) \in Nat /\ HelloLength \in Nat /\ count \in Nat
        /\ Passed <= count /\ sent \in Seq(Nat)
        /\ n \in Nat /\ DOMAIN bufferedWrites = 1..n
        /\ clientState = "active" => Len(sent) = HelloLength + Passed
        /\ \A i \in 1..n : bufferedWrites[i] \in (Passed + 1)..count
        /\ failed = {v \in (Passed + 1)..count : \A i \in 1..n : bufferedWrites[i] # v}
    BY Sizes DEF IInv, Typed, Line
  <2> HIDE DEF n
  <2>2. passed = 1..Passed
    <3>1. CASE clientState = "active"
      <4>1. \A i \in (HelloLength + 1)..Len(sent) : sent[i] \in Nat
        <5>1. \A i \in (HelloLength + 1)..Len(sent) : i \in 1..Len(sent)
          BY <2>1
        <5> QED
          BY <2>1, <5>1, ElementOfSeq
      <4>2. /\ tail \in Seq(Nat)
            /\ Len(tail) = IF HelloLength + 1 <= Len(sent)
                             THEN Len(sent) - (HelloLength + 1) + 1 ELSE 0
            /\ \A i \in 1..(Len(sent) - (HelloLength + 1) + 1) :
                 tail[i] = sent[(HelloLength + 1) + i - 1]
        BY <2>1, <4>1, SubSeqProperties
      <4> HIDE DEF tail
      <4>3. Len(sent) - (HelloLength + 1) + 1 = Passed
        BY <2>1, <3>1
      <4>4. Len(tail) = Passed
        BY <2>1, <3>1, <4>2, <4>3
      <4>5. DOMAIN tail = 1..Passed
        BY <4>2, <4>4, LenProperties
      <4>6. ASSUME NEW i \in 1..Passed PROVE tail[i] = 100 + i
        <5>1. tail[i] = sent[(HelloLength + 1) + i - 1]
          BY <4>2, <4>3
        <5>2. (HelloLength + 1) + i - 1 = HelloLength + i
          BY <2>1
        <5>3. i \in 1..(Len(sent) - HelloLength)
          BY <2>1, <3>1
        <5> QED
          BY <3>1, <5>1, <5>2, <5>3 DEF IInv, Sent
      <4>7. ASSUME NEW w \in 1..Passed PROVE w \in passed
        <5>1. 100 + w \in ToSet(tail)
          BY <4>5, <4>6 DEF ToSet
        <5>2. (100 + w) - 100 = w
          BY <2>1
        <5> QED
          BY <5>1, <5>2
      <4>8. ASSUME NEW b \in ToSet(tail) PROVE b - 100 \in 1..Passed
        <5>1. PICK i \in 1..Passed : b = tail[i]
          BY <4>5 DEF ToSet
        <5> QED
          BY <2>1, <4>6, <5>1
      <4> QED
        BY <4>7, <4>8
    <3>2. CASE clientState # "active"
      <4>1. sent \in {<<>>, Greeting, Hello}
        BY <3>2 DEF IInv, Typed, Phases
      <4>2. Len(sent) <= HelloLength
        BY <4>1, HelloIs DEF HelloLength
      <4>3. tail = <<>>
        BY <2>1, <4>2, SubSeqEmpty
      <4>4. Passed = 0
        BY <3>2 DEF Passed
      <4> HIDE DEF tail
      <4>5. passed = {}
        BY <4>3 DEF ToSet
      <4> QED
        BY <4>4, <4>5
    <3> QED
      BY <3>1, <3>2
  <2> HIDE DEF passed
  <2>3. /\ \A w \in ToSet(bufferedWrites) : w \in (Passed + 1)..count /\ w \notin failed
        /\ \A w \in (Passed + 1)..count : w \in ToSet(bufferedWrites) \/ w \in failed
    BY <2>1 DEF ToSet
  <2>4. 1..count = ToSet(bufferedWrites) \cup passed \cup failed
    BY <2>1, <2>2, <2>3
  <2>5. ToSet(bufferedWrites) \cap (passed \cup failed) = {}
    BY <2>1, <2>2, <2>3
  <2>6. passed \cap failed = {}
    BY <2>1, <2>2
  <2> QED
    BY <2>4, <2>5, <2>6 DEF NoWriteLost, passed, tail, HelloLength
<1> QED
  BY <1>1, IInvAlways, PTL

\* Once the tunnel is there and every call has returned, no write, no byte, no flush and no
\* removal that was asked for is left (handleProxyEstablished, removeHandler, flush).
THEOREM NothingLeftBehind == Spec => []NothingStays
<1>1. IInv => NothingStays
  <2> SUFFICES ASSUME IInv, clientState = "active", stack = <<>> PROVE NothingStays
    BY DEF NothingStays
  <2>1. ~Flushing(stack) /\ \A kinds : ~Has(stack, kinds)
    BY DEF Flushing, Has
  <2>2. bufferedWrites = <<>> /\ clientBuffer = <<>> /\ (removal => handler = "removed")
    BY <2>1 DEF IInv, Leaving
  <2>3. channel = "active" => flushed >= HelloLength + asked
    BY <2>1 DEF IInv, Flushes
  <2> QED
    BY <2>2, <2>3 DEF NothingStays, HelloLength
<1> QED
  BY <1>1, IInvAlways, PTL

\* Replayed by the handshake, by flushes and by removals nested in one another, the writes
\* keep their order, each is accounted for once and none stays behind: for any number of
\* writes, any addresses and any way the bytes of the handshake are split.
THEOREM WritesAreKept == Spec => []WritesKept
BY WritesInOrder, EveryWriteAccounted, NothingLeftBehind, PTL DEF WritesKept

-----------------------------------------------------------------------------
(* Sequences that arrive in pieces.                                        *)

\* Three sequences one behind the other.
Regroups(S, a, b, c) == (a \o b) \o c = a \o (b \o c)

\* It does not matter which two are joined first.
LEMMA Regrouping ==
  ASSUME NEW S, NEW a \in Seq(S), NEW b \in Seq(S), NEW c \in Seq(S)
  PROVE  Regroups(S, a, b, c)
<1>1. (a \o b) \o c = a \o (b \o c)
  OBVIOUS
<1> QED
  BY <1>1 DEF Regroups

\* A sequence and its two parts.
LEMMA Halves ==
  ASSUME NEW S, NEW s \in Seq(S), NEW n \in 0..Len(s)
  PROVE  /\ SubSeq(s, 1, n) \in Seq(S) /\ Len(SubSeq(s, 1, n)) = n
         /\ SubSeq(s, n + 1, Len(s)) \in Seq(S)
         /\ Len(SubSeq(s, n + 1, Len(s))) = Len(s) - n
         /\ \A i \in 1..n : SubSeq(s, 1, n)[i] = s[i]
         /\ \A i \in 1..(Len(s) - n) : SubSeq(s, n + 1, Len(s))[i] = s[n + i]
         /\ SubSeq(s, 1, n) \o SubSeq(s, n + 1, Len(s)) = s
<1> DEFINE a == SubSeq(s, 1, n)
           b == SubSeq(s, n + 1, Len(s))
<1>1. Len(s) \in Nat /\ n \in Nat /\ n <= Len(s)
  BY LenProperties
<1>2. /\ \A i \in 1..n : s[i] \in S
      /\ \A i \in (n + 1)..Len(s) : s[i] \in S
  <2>1. \A i \in 1..Len(s) : s[i] \in S
    BY ElementOfSeq
  <2> QED
    BY <1>1, <2>1
<1>3. a \in Seq(S) /\ Len(a) = n /\ \A i \in 1..n : a[i] = s[i]
  <2>1. /\ a \in Seq(S)
        /\ Len(a) = IF 1 <= n THEN n - 1 + 1 ELSE 0
        /\ \A i \in 1..(n - 1 + 1) : a[i] = s[1 + i - 1]
    BY <1>1, <1>2, SubSeqProperties
  <2> QED
    BY <1>1, <2>1
<1>4. b \in Seq(S) /\ Len(b) = Len(s) - n /\ \A i \in 1..(Len(s) - n) : b[i] = s[n + i]
  <2>1. /\ b \in Seq(S)
        /\ Len(b) = IF n + 1 <= Len(s) THEN Len(s) - (n + 1) + 1 ELSE 0
        /\ \A i \in 1..(Len(s) - (n + 1) + 1) : b[i] = s[(n + 1) + i - 1]
    BY <1>1, <1>2, SubSeqProperties
  <2> QED
    BY <1>1, <2>1
<1> HIDE DEF a, b
<1>5. /\ a \o b \in Seq(S) /\ Len(a \o b) = Len(s)
      /\ \A i \in 1..Len(s) : (a \o b)[i] = IF i <= n THEN a[i] ELSE b[i - n]
  BY <1>1, <1>3, <1>4, ConcatProperties
<1>6. ASSUME NEW i \in 1..Len(s) PROVE (a \o b)[i] = s[i]
  <2>1. CASE i <= n
    BY <1>1, <1>3, <1>5, <2>1
  <2>2. CASE ~(i <= n)
    <3>1. i - n \in 1..(Len(s) - n) /\ n + (i - n) = i
      BY <1>1, <2>2
    <3> QED
      BY <1>4, <1>5, <2>2, <3>1
  <2> QED
    BY <2>1, <2>2
<1>7. a \o b = s
  BY <1>5, <1>6, SeqEqual
<1> QED
  BY <1>3, <1>4, <1>7 DEF a, b

\* a and b are the two parts of s, cut behind place n.
Cut(s, n, a, b) ==
  /\ a = SubSeq(s, 1, n) /\ b = SubSeq(s, n + 1, Len(s))
  /\ Len(a) = n /\ Len(b) = Len(s) - n
  /\ \A i \in 1..n : a[i] = s[i]
  /\ \A i \in 1..(Len(s) - n) : b[i] = s[n + i]
  /\ a \o b = s

\* The two parts, named.
LEMMA HalvesAs ==
  ASSUME NEW S, NEW s \in Seq(S), NEW n \in 0..Len(s)
  PROVE  \E a, b \in Seq(S) : Cut(s, n, a, b)
<1> DEFINE a == SubSeq(s, 1, n)
           b == SubSeq(s, n + 1, Len(s))
<1>1. /\ a \in Seq(S) /\ b \in Seq(S)
      /\ Len(a) = n /\ Len(b) = Len(s) - n
      /\ \A i \in 1..n : a[i] = s[i]
      /\ \A i \in 1..(Len(s) - n) : b[i] = s[n + i]
      /\ a \o b = s
  BY Halves
<1>2. Cut(s, n, a, b)
  BY <1>1 DEF Cut
<1> HIDE DEF a, b
<1> QED
  BY <1>1, <1>2

\* n more bytes of a stream arrive behind those of a buffer.
Arrives(S, buffer, stream, n) ==
  /\ SubSeq(stream, 1, n) \in Seq(S)
  /\ buffer \o SubSeq(stream, 1, n) \in Seq(S)
  /\ SubSeq(stream, n + 1, Len(stream)) \in Seq(S)
  /\ (buffer \o SubSeq(stream, 1, n)) \o SubSeq(stream, n + 1, Len(stream))
       = buffer \o stream
  /\ buffer \o stream # <<>>

\* No byte is lost where the stream is cut.
LEMMA Arrival ==
  ASSUME NEW S, NEW buffer \in Seq(S), NEW stream \in Seq(S), NEW n \in DOMAIN stream
  PROVE  Arrives(S, buffer, stream, n)
<1>1. n \in 0..Len(stream) /\ Len(stream) \in Nat /\ Len(stream) # 0 /\ Len(buffer) \in Nat
  BY LenProperties
<1>2. PICK a, b \in Seq(S) : Cut(stream, n, a, b)
  BY <1>1, HalvesAs
<1>3. a = SubSeq(stream, 1, n) /\ b = SubSeq(stream, n + 1, Len(stream)) /\ a \o b = stream
  BY <1>2 DEF Cut
<1>5. buffer \o a \in Seq(S)
  BY ConcatProperties
<1>6. (buffer \o a) \o b = buffer \o stream
  <2>1. Regroups(S, buffer, a, b)
    BY Regrouping
  <2> QED
    BY <1>3, <2>1 DEF Regroups
<1>7. buffer \o stream # <<>>
  BY <1>1, ConcatEqualIffEmpty, EmptySeq
<1> QED
  BY <1>3, <1>5, <1>6, <1>7 DEF Arrives

\* A buffer with the front of a message, and what follows the message once it is all there.
Splits(S, b, rest, m, d) ==
  /\ \A i \in 1..Len(b) : i <= Len(m) => b[i] = m[i]
  /\ Len(b) >= Len(m) =>
       /\ SubSeq(b, Len(m) + 1, Len(b)) \in Seq(S)
       /\ SubSeq(b, Len(m) + 1, Len(b)) \o rest = d

\* That is so for any two ways to cut the same bytes.
LEMMA MessageFront ==
  ASSUME NEW S, NEW b \in Seq(S), NEW rest \in Seq(S), NEW m \in Seq(S), NEW d \in Seq(S),
         b \o rest = m \o d
  PROVE  Splits(S, b, rest, m, d)
<1>1. /\ Len(b) \in Nat /\ Len(rest) \in Nat /\ Len(m) \in Nat /\ Len(d) \in Nat
  BY LenProperties
<1>2. /\ Len(b \o rest) = Len(b) + Len(rest)
      /\ \A i \in 1..(Len(b) + Len(rest)) :
           (b \o rest)[i] = IF i <= Len(b) THEN b[i] ELSE rest[i - Len(b)]
  BY ConcatProperties
<1>3. /\ Len(m \o d) = Len(m) + Len(d)
      /\ \A i \in 1..(Len(m) + Len(d)) :
           (m \o d)[i] = IF i <= Len(m) THEN m[i] ELSE d[i - Len(m)]
  BY ConcatProperties
<1>4. Len(b) + Len(rest) = Len(m) + Len(d)
  BY <1>2, <1>3
<1>5. ASSUME NEW i \in 1..Len(b), i <= Len(m) PROVE b[i] = m[i]
  <2>1. i \in 1..(Len(b) + Len(rest)) /\ i \in 1..(Len(m) + Len(d)) /\ i <= Len(b)
    BY <1>1, <1>5
  <2> QED
    BY <1>2, <1>3, <1>5, <2>1
<1>6. ASSUME Len(b) >= Len(m)
      PROVE  /\ SubSeq(b, Len(m) + 1, Len(b)) \in Seq(S)
             /\ SubSeq(b, Len(m) + 1, Len(b)) \o rest = d
  <2>1. Len(m) \in 0..Len(b)
    BY <1>1, <1>6
  <2>2. PICK a, t \in Seq(S) : Cut(b, Len(m), a, t)
    BY <2>1, HalvesAs
  <2>4. /\ t = SubSeq(b, Len(m) + 1, Len(b))
        /\ Len(a) = Len(m) /\ a \o t = b /\ \A i \in 1..Len(m) : a[i] = b[i]
    BY <2>2 DEF Cut
  <2>5. a = m
    <3>1. \A i \in 1..Len(m) : a[i] = m[i]
      BY <1>1, <1>5, <1>6, <2>4
    <3> QED
      BY <2>4, <3>1, SeqEqual
  <2>6. m \o (t \o rest) = m \o d
    <3>1. Regroups(S, m, t, rest)
      BY Regrouping
    <3> QED
      BY <2>4, <2>5, <3>1 DEF Regroups
  <2>7. t \o rest \in Seq(S)
    BY ConcatProperties
  <2>8. t \o rest = d
    BY <2>6, <2>7, ConcatSimplifications
  <2> QED
    BY <2>4, <2>8
<1> QED
  BY <1>5, <1>6 DEF Splits

-----------------------------------------------------------------------------
(* The stages of a handshake.                                              *)

Bytes == Seq(Nat)

Request == WriteClientRequest(TargetAddress)
Selection(method) == WriteMethodSelection(method)
Response(reply) == WriteServerResponse(reply, BoundAddress)

Greeted == <<[kind |-> "greeting", value |-> <<NoneRequired>>]>>
Requested ==
  << [kind |-> "greeting", value |-> <<NoneRequired>>],
     [kind |-> "request", value |-> [code |-> 1, address |-> TargetAddress]] >>

BytesTyped ==
  /\ toServer \in Bytes
  /\ toClient \in Bytes
  /\ clientBuffer \in Bytes
  /\ serverBuffer \in Bytes
  /\ received \in Bytes
  /\ serverReceived \in Bytes
  /\ serverCount \in Nat
  /\ serverHandler \in {"added", "removed"}
  /\ refused \in BOOLEAN

\* What each side has not read, or holds back, of what the other one flushed.
Up == serverBuffer \o toServer
Down == clientBuffer \o toClient

\* The two sides are in these states, and up and down is what is between them; only a closed
\* channel delivers nothing.
Between(client, server, up, down) ==
  /\ clientState = client
  /\ serverState = server
  /\ Up = up
  /\ channel # "closed" => Down = down
  /\ flushed = Len(sent)
  /\ received = <<>>
  /\ serverReceived = <<>>

\* The stages of a handshake that succeeds.
NotBegun ==
  Between("inactive", "waitingForClientGreeting", <<>>, <<>>) /\ messages = <<>>

GreetingSent ==
  /\ Between("waitingForAuthenticationMethod", "waitingForClientGreeting", Greeting, <<>>)
  /\ messages = <<>>

GreetingRead ==
  /\ Between("waitingForAuthenticationMethod", "waitingToSendAuthenticationMethod", <<>>, <<>>)
  /\ messages = Greeted

MethodSent ==
  /\ Between("waitingForAuthenticationMethod", "waitingForClientRequest", <<>>,
             Selection(NoneRequired))
  /\ messages = Greeted

RequestSent ==
  /\ Between("waitingForServerResponse", "waitingForClientRequest", Request, <<>>)
  /\ messages = Greeted

RequestRead ==
  /\ Between("waitingForServerResponse", "waitingToSendResponse", <<>>, <<>>)
  /\ messages = Requested

ResponseSent ==
  /\ Between("waitingForServerResponse", "active", <<>>,
             Response(Succeeded) \o Data(200, serverCount))
  /\ messages = Requested

\* The tunnel is there, and what is in it was flushed, or written by the server.
Tunnel ==
  /\ clientState = "active"
  /\ serverState = "active"
  /\ messages = Requested
  /\ HelloLength <= flushed /\ flushed <= Len(sent)
  /\ serverReceived \o Up = SubSeq(sent, HelloLength + 1, flushed)
  /\ channel # "closed" => received \o Down = Data(200, serverCount)

\* The stages of one that fails.
MethodRefused ==
  /\ clientState = "waitingForAuthenticationMethod"
  /\ serverState = "authenticating"
  /\ channel # "closed" => Down = Selection(1)

RequestRefused ==
  /\ clientState = "waitingForServerResponse"
  /\ serverState = "error"
  /\ channel # "closed" => Down = Response(1)

GivenUp ==
  /\ clientState = "error"
  /\ serverState \in {"authenticating", "error"}

Succeeding ==
  \/ NotBegun \/ GreetingSent \/ GreetingRead \/ MethodSent
  \/ RequestSent \/ RequestRead \/ ResponseSent \/ Tunnel

Failing == (MethodRefused \/ RequestRefused \/ GivenUp) /\ received = <<>>

\* The server's handler holds nothing once it has left, and its application nothing before.
ServerHandlers ==
  /\ serverHandler = "removed" => serverState = "active" /\ serverBuffer = <<>>
  /\ serverHandler = "added" => serverReceived = <<>> /\ serverCount = 0

\* The inductive invariant of the bytes, on top of that of the writes.
BytesInv ==
  BytesTyped /\ ServerHandlers /\ IF refused THEN Failing ELSE Succeeding

-----------------------------------------------------------------------------
(* The readers, on a message that arrives in pieces.                       *)

\* b begins like message m, as far as it goes.
Begins(b, m) == \A i \in 1..Len(b) : i <= Len(m) => b[i] = m[i]

\* The reader waits for the whole of message m and then finds this value.
Reads(read, b, value, m) ==
  read = IF Len(b) >= Len(m) THEN Found(value, Len(m)) ELSE NeedMore

\* The client's greeting.
LEMMA ReadsGreeting ==
  ASSUME NEW b \in Bytes, Begins(b, Greeting)
  PROVE  Reads(ReadClientGreeting(b), b, <<NoneRequired>>, Greeting)
<1>1. Greeting = <<5, 1, 0>> /\ Len(Greeting) = 3
  <2>1. Greeting = <<5, Len(<<0>>)>> \o <<0>> /\ Len(<<0>>) = 1
    BY DEF Greeting, WriteClientGreeting, NoneRequired
  <2>2. Greeting = <<5, 1>> \o <<0>>
    BY <2>1
  <2>3. <<5, 1>> \o <<0>> = <<5, 1, 0>>
    <3> DEFINE x == <<5, 1>>
               y == <<0>>
               z == <<5, 1, 0>>
    <3>1. /\ x \in Seq(Nat) /\ y \in Seq(Nat) /\ z \in Seq(Nat)
          /\ Len(x) = 2 /\ Len(y) = 1 /\ Len(z) = 3
          /\ x[1] = z[1] /\ x[2] = z[2] /\ y[1] = z[3]
      OBVIOUS
    <3> HIDE DEF x, y, z
    <3>2. /\ x \o y \in Seq(Nat) /\ Len(x \o y) = 3
          /\ \A i \in 1..3 : (x \o y)[i] = IF i <= 2 THEN x[i] ELSE y[i - 2]
      <4>1. /\ x \o y \in Seq(Nat) /\ Len(x \o y) = Len(x) + Len(y)
            /\ \A i \in 1..(Len(x) + Len(y)) :
                 (x \o y)[i] = IF i <= Len(x) THEN x[i] ELSE y[i - Len(x)]
        BY <3>1, ConcatProperties
      <4>2. Len(x) + Len(y) = 3
        BY <3>1
      <4> QED
        BY <3>1, <4>1, <4>2
    <3>3. \A i \in 1..3 : (x \o y)[i] = z[i]
      BY <3>1, <3>2
    <3>4. x \o y = z
      BY <3>1, <3>2, <3>3, SeqEqual
    <3> QED
      BY <3>4 DEF x, y, z
  <2> QED
    BY <2>2, <2>3
<1>2. Len(b) \in Nat
  BY LenProperties DEF Bytes
<1>3. Len(b) >= 1 => b[1] = 5
  BY <1>1, <1>2 DEF Begins
<1>4. Len(b) >= 2 => b[2] = 1
  BY <1>1, <1>2 DEF Begins
<1>5. CASE Len(b) < 2
  BY <1>1, <1>2, <1>3, <1>5 DEF Reads, ReadClientGreeting
<1>6. CASE Len(b) >= 2
  <2>1. ReadClientGreeting(b) = FoundIf(b, SubSeq(b, 3, 3), 3)
    <3>1. ReadClientGreeting(b) = FoundIf(b, SubSeq(b, 3, 2 + b[2]), 2 + b[2])
      BY <1>2, <1>3, <1>6 DEF ReadClientGreeting
    <3>2. 2 + b[2] = 3
      BY <1>4, <1>6
    <3> QED
      BY <3>1, <3>2
  <2>2. CASE Len(b) < 3
    BY <1>1, <1>2, <2>1, <2>2 DEF Reads, FoundIf
  <2>3. CASE Len(b) >= 3
    <3>1. b[3] = 0
      BY <1>1, <1>2, <2>3 DEF Begins
    <3>2. SubSeq(b, 3, 3) = <<0>>
      <4> DEFINE t == SubSeq(b, 3, 3)
      <4>1. \A i \in 3..3 : b[i] \in Nat
        BY <3>1
      <4>2. t \in Seq(Nat) /\ Len(t) = 1 /\ \A i \in 1..1 : t[i] = b[3 + i - 1]
        BY <4>1, SubSeqProperties
      <4> HIDE DEF t
      <4>3. t[1] = 0
        BY <3>1, <4>2
      <4>4. t = <<0>>
        BY <4>2, <4>3
      <4> QED
        BY <4>4 DEF t
    <3> QED
      BY <1>1, <1>2, <2>1, <2>3, <3>2 DEF Reads, FoundIf, NoneRequired
  <2> QED
    BY <1>2, <2>2, <2>3
<1> QED
  BY <1>2, <1>5, <1>6

\* The server's selection of a method.
LEMMA ReadsSelection ==
  ASSUME NEW b \in Bytes, NEW method \in Nat, Begins(b, Selection(method))
  PROVE  Reads(ReadMethodSelection(b), b, method, Selection(method))
<1>1. Selection(method) = <<5, method>> /\ Len(Selection(method)) = 2
  BY DEF Selection, WriteMethodSelection
<1>2. Len(b) \in Nat
  BY LenProperties DEF Bytes
<1>3. Len(b) >= 1 => b[1] = 5
  BY <1>1, <1>2 DEF Begins
<1>4. Len(b) >= 2 => b[2] = method
  BY <1>1, <1>2 DEF Begins
<1>5. CASE Len(b) < 2
  BY <1>1, <1>2, <1>3, <1>5 DEF Reads, ReadMethodSelection
<1>6. CASE Len(b) >= 2
  BY <1>1, <1>2, <1>3, <1>4, <1>6 DEF Reads, ReadMethodSelection
<1> QED
  BY <1>2, <1>5, <1>6

\* The length of an address is known by its second byte.
LEMMA AddressLengthIs ==
  ASSUME NEW a, IsAddress(a), NEW c \in Bytes, Begins(c, a)
  PROVE  /\ a \in Bytes /\ Len(a) \in Nat /\ Len(a) > 3
         /\ Len(c) \in Nat
         /\ Len(c) >= 1 => c[1] \in {1, 3, 4}
         /\ AddressLength(c) \in {0, Len(a)}
         /\ Len(c) >= 2 => AddressLength(c) = Len(a)
<1>1. a \in Bytes /\ a \in Seq(Byte)
  <2>1. a \in Seq(Byte) /\ Byte \subseteq Nat
    BY DEF IsAddress, Byte
  <2> QED
    BY <2>1, SeqMonotonic DEF Bytes
<1>2. Len(a) \in Nat /\ Len(c) \in Nat
  BY <1>1, LenProperties DEF Bytes
<1>3. Len(a) > 3
  <2>1. Len(a) = 7 \/ Len(a) = 19 \/ Len(a) > 3
    BY DEF IsAddress
  <2>2. \A n \in Nat : n = 7 \/ n = 19 \/ n > 3 => n > 3
    OBVIOUS
  <2> QED
    BY <1>2, <2>1, <2>2
<1>4. a[1] \in {1, 3, 4}
  BY DEF IsAddress
<1>5. Len(c) >= 1 => c[1] = a[1]
  BY <1>2, <1>3 DEF Begins
<1>6. Len(c) >= 2 => c[2] = a[2]
  BY <1>2, <1>3 DEF Begins
<1>7. a[2] \in Nat
  BY <1>1, <1>2, <1>3, ElementOfSeq DEF Bytes
<1>8. CASE Len(c) = 0
  <2>1. AddressLength(c) = 0
    BY <1>8 DEF AddressLength
  <2> QED
    BY <1>1, <1>2, <1>3, <1>8, <2>1
<1>9. CASE Len(c) >= 1
  <2>1. CASE a[1] = 1
    <3>1. Len(a) = 7
      BY <1>7, <2>1 DEF IsAddress
    <3> QED
      BY <1>1, <1>2, <1>3, <1>5, <1>9, <2>1, <3>1 DEF AddressLength
  <2>2. CASE a[1] = 4
    <3>1. Len(a) = 19
      BY <1>7, <2>2 DEF IsAddress
    <3> QED
      BY <1>1, <1>2, <1>3, <1>5, <1>9, <2>2, <3>1 DEF AddressLength
  <2>3. CASE a[1] = 3
    <3>1. Len(a) = 1 + 1 + a[2] + 2
      BY <2>3 DEF IsAddress
    <3>2. CASE Len(c) >= 2
      <4>1. AddressLength(c) = 1 + 1 + c[2] + 2
        BY <1>2, <1>5, <1>9, <2>3, <3>2 DEF AddressLength
      <4> QED
        BY <1>1, <1>2, <1>3, <1>5, <1>6, <1>9, <2>3, <3>1, <3>2, <4>1
    <3>3. CASE ~(Len(c) >= 2)
      <4>1. AddressLength(c) = 0
        BY <1>2, <1>5, <1>9, <2>3, <3>3 DEF AddressLength
      <4> QED
        BY <1>1, <1>2, <1>3, <1>5, <1>9, <2>3, <3>3, <4>1
    <3> QED
      BY <3>2, <3>3
  <2> QED
    BY <1>4, <2>1, <2>2, <2>3
<1> QED
  BY <1>1, <1>2, <1>3, <1>8, <1>9

\* An address at the end of a message.
LEMMA ReadsAddress ==
  ASSUME NEW a, IsAddress(a), NEW c \in Bytes, Begins(c, a)
  PROVE  Reads(ReadAddressType(c), c, a, a)
<1>1. /\ a \in Bytes /\ Len(a) \in Nat /\ Len(a) > 3
      /\ Len(c) \in Nat
      /\ Len(c) >= 1 => c[1] \in {1, 3, 4}
      /\ AddressLength(c) \in {0, Len(a)}
      /\ Len(c) >= 2 => AddressLength(c) = Len(a)
  BY AddressLengthIs
<1>2. CASE AddressLength(c) = 0
  BY <1>1, <1>2 DEF Reads, ReadAddressType
<1>3. CASE AddressLength(c) # 0
  <2>1. ReadAddressType(c) = FoundIf(c, SubSeq(c, 1, Len(a)), Len(a))
    BY <1>1, <1>3 DEF ReadAddressType
  <2>2. CASE Len(c) >= Len(a)
    <3>1. Len(a) \in 0..Len(c)
      BY <1>1, <2>2
    <3>2. PICK t, u \in Seq(Nat) : Cut(c, Len(a), t, u)
      BY <3>1, HalvesAs DEF Bytes
    <3>3. t = SubSeq(c, 1, Len(a)) /\ Len(t) = Len(a) /\ \A i \in 1..Len(a) : t[i] = c[i]
      BY <3>2 DEF Cut
    <3>4. \A i \in 1..Len(a) : t[i] = a[i]
      BY <1>1, <2>2, <3>3 DEF Begins
    <3>5. t = a
      BY <1>1, <3>3, <3>4, SeqEqual DEF Bytes
    <3> QED
      BY <2>1, <2>2, <3>3, <3>5 DEF Reads, FoundIf
  <2>3. CASE ~(Len(c) >= Len(a))
    BY <2>1, <2>3 DEF Reads, FoundIf
  <2> QED
    BY <2>2, <2>3
<1> QED
  BY <1>2, <1>3

\* A request or a response.
LEMMA ReadsHeaded ==
  ASSUME NEW a, IsAddress(a), NEW code \in Nat, NEW b \in Bytes,
         Begins(b, <<5, code, 0>> \o a)
  PROVE  Reads(ReadHeaded(b), b, [code |-> code, address |-> a], <<5, code, 0>> \o a)
<1> DEFINE h == <<5, code, 0>>
           m == h \o a
           c == SubSeq(b, 4, Len(b))
           address == ReadAddressType(c)
<1>1. a \in Bytes /\ Len(a) \in Nat
  <2>1. a \in Seq(Byte) /\ Byte \subseteq Nat
    BY DEF IsAddress, Byte
  <2> QED
    BY <2>1, SeqMonotonic, LenProperties DEF Bytes
<1>2. Len(b) \in Nat
  BY LenProperties DEF Bytes
<1>3. h \in Seq(Nat) /\ Len(h) = 3 /\ h[1] = 5 /\ h[2] = code /\ h[3] = 0
  OBVIOUS
<1> HIDE DEF h
<1>4. /\ Len(m) = 3 + Len(a)
      /\ \A i \in 1..(3 + Len(a)) : m[i] = IF i <= 3 THEN h[i] ELSE a[i - 3]
  <2>1. /\ Len(h \o a) = Len(h) + Len(a)
        /\ \A i \in 1..(Len(h) + Len(a)) :
             (h \o a)[i] = IF i <= Len(h) THEN h[i] ELSE a[i - Len(h)]
    BY <1>1, <1>3, ConcatProperties DEF Bytes
  <2> QED
    BY <1>3, <2>1
<1> HIDE DEF m
<1>5. Begins(b, m)
  BY DEF m, h
<1>6. /\ Len(b) >= 1 => b[1] = 5
      /\ Len(b) >= 2 => b[2] = code
      /\ Len(b) >= 3 => b[3] = 0
  <2>1. \A i \in 1..3 : i <= Len(b) => b[i] = h[i]
    BY <1>1, <1>2, <1>4, <1>5 DEF Begins
  <2> QED
    BY <1>2, <1>3, <2>1
<1>7. CASE Len(b) < 3
  <2>1. ReadHeaded(b) = NeedMore
    <3>1. c = <<>>
      BY <1>2, <1>7, SubSeqEmpty
    <3>2. address.result = "more"
      <4>1. Len(<<>>) = 0 /\ AddressLength(<<>>) = 0
        BY DEF AddressLength
      <4>2. ReadAddressType(<<>>) = NeedMore
        BY <4>1 DEF ReadAddressType
      <4>3. address = NeedMore
        BY <3>1, <4>2
      <4> QED
        BY <4>3 DEF NeedMore
    <3> HIDE DEF c, address
    <3>3. ReadHeaded(b) =
            CASE Len(b) >= 1 /\ b[1] # 5 -> Invalid
              [] Len(b) >= 3 /\ b[3] # 0 -> Invalid
              [] Len(b) < 3 -> NeedMore
              [] address.result = "found" ->
                   Found([code |-> b[2], address |-> address.value], 3 + address.length)
              [] OTHER -> address
      BY DEF ReadHeaded, address, c
    <3> QED
      BY <1>2, <1>6, <1>7, <3>2, <3>3
  <2>2. ~(Len(b) >= Len(m))
    BY <1>1, <1>2, <1>4, <1>7
  <2> QED
    BY <2>1, <2>2 DEF Reads, m, h
<1>8. CASE Len(b) >= 3
  <2>1. ReadHeaded(b) = IF address.result = "found"
                          THEN Found([code |-> b[2], address |-> address.value],
                                     3 + address.length)
                          ELSE address
    BY <1>2, <1>6, <1>8 DEF ReadHeaded
  <2>2. /\ c \in Bytes /\ Len(c) = Len(b) - 3
        /\ \A i \in 1..(Len(b) - 3) : c[i] = b[3 + i]
    <3>1. 3 \in 0..Len(b) /\ 3 + 1 = 4
      BY <1>2, <1>8
    <3>2. PICK t, u \in Seq(Nat) : Cut(b, 3, t, u)
      BY <3>1, HalvesAs DEF Bytes
    <3> QED
      BY <3>1, <3>2 DEF Cut, Bytes
  <2> HIDE DEF c
  <2>3. Begins(c, a)
    <3> SUFFICES ASSUME NEW i \in 1..Len(c), i <= Len(a) PROVE c[i] = a[i]
      BY DEF Begins
    <3>1. 3 + i \in 1..Len(b) /\ 3 + i <= Len(m) /\ 3 + i \in 1..(3 + Len(a))
      BY <1>1, <1>2, <1>4, <2>2
    <3>2. b[3 + i] = m[3 + i]
      BY <1>5, <3>1 DEF Begins
    <3>3. m[3 + i] = a[i]
      BY <1>4, <3>1
    <3> QED
      BY <2>2, <3>2, <3>3
  <2>4. Reads(address, c, a, a)
    BY <2>2, <2>3, ReadsAddress
  <2> HIDE DEF address
  <2>5. CASE Len(b) >= Len(m)
    <3>1. Len(c) >= Len(a)
      BY <1>1, <1>2, <1>4, <2>2, <2>5
    <3>2. address = Found(a, Len(a))
      BY <2>4, <3>1 DEF Reads
    <3>3. address.result = "found" /\ address.value = a /\ address.length = Len(a)
      BY <3>2 DEF Found
    <3>4. ReadHeaded(b) = Found([code |-> code, address |-> a], Len(m))
      BY <1>2, <1>4, <1>6, <1>8, <2>1, <3>3
    <3> QED
      BY <2>5, <3>4 DEF Reads, m, h
  <2>6. CASE ~(Len(b) >= Len(m))
    <3>1. ~(Len(c) >= Len(a))
      BY <1>1, <1>2, <1>4, <2>2, <2>6
    <3>2. address = NeedMore /\ address.result # "found"
      BY <2>4, <3>1 DEF Reads, NeedMore
    <3> QED
      BY <2>1, <2>6, <3>2 DEF Reads, m, h
  <2> QED
    BY <2>5, <2>6
<1> QED
  BY <1>2, <1>7, <1>8

-----------------------------------------------------------------------------
(* What the client holds back of the tunnel.                               *)

\* The call on top of stack s has still to hand on what is held back.
Emptying(s) == \E i \in DOMAIN s : s[i] = "empty" /\ \A j \in 1..(i - 1) : s[j] \notin Ends

\* It does, as long as something is held back; so nothing is when the handler leaves.
HeldInv ==
  /\ clientState = "active" /\ clientBuffer # <<>> => Emptying(stack)
  /\ handler = "removed" /\ channel # "closed" => clientBuffer = <<>>

\* Calls that are made.
LEMMA EmptyingPush ==
  ASSUME NEW s \in Seq(Kinds), NEW a \in Kinds, NEW b \in Kinds
  PROVE  /\ a = "empty" => Emptying(<<a, b>> \o s)
         /\ a \notin Ends /\ b \notin Ends /\ Emptying(s) => Emptying(<<a, b>> \o s)
<1> DEFINE h == <<a, b>>
<1>1. h \in Seq(Kinds) /\ Len(h) = 2 /\ h[1] = a /\ h[2] = b
  OBVIOUS
<1> HIDE DEF h
<1>2. Len(s) \in Nat /\ DOMAIN s = 1..Len(s)
  BY LenProperties
<1>3. PICK t \in Seq(Kinds) :
        /\ t = h \o s /\ Len(t) = 2 + Len(s)
        /\ \A i \in 1..(2 + Len(s)) : t[i] = IF i <= 2 THEN h[i] ELSE s[i - 2]
  <2> DEFINE t == h \o s
  <2>1. /\ t \in Seq(Kinds) /\ Len(t) = Len(h) + Len(s)
        /\ \A i \in 1..(Len(h) + Len(s)) : t[i] = IF i <= Len(h) THEN h[i] ELSE s[i - Len(h)]
    BY <1>1, ConcatProperties
  <2>2. t = h \o s
    OBVIOUS
  <2> HIDE DEF t
  <2> QED
    BY <1>1, <2>1, <2>2
<1>4. DOMAIN t = 1..(2 + Len(s))
  BY <1>3, LenProperties
<1>5. t[1] = a /\ t[2] = b /\ \A i \in 1..Len(s) : i + 2 \in DOMAIN t /\ t[i + 2] = s[i]
  BY <1>1, <1>2, <1>3, <1>4
<1>6. ASSUME a = "empty" PROVE Emptying(t)
  <2>1. 1 \in DOMAIN t /\ t[1] = "empty" /\ \A j \in 1..(1 - 1) : t[j] \notin Ends
    BY <1>2, <1>4, <1>5, <1>6
  <2> QED
    BY <2>1 DEF Emptying
<1>7. ASSUME a \notin Ends, b \notin Ends, Emptying(s) PROVE Emptying(t)
  <2>1. PICK i \in 1..Len(s) : s[i] = "empty" /\ \A j \in 1..(i - 1) : s[j] \notin Ends
    BY <1>2, <1>7 DEF Emptying
  <2>2. i + 2 \in DOMAIN t /\ t[i + 2] = "empty"
    BY <1>5, <2>1
  <2>3. ASSUME NEW j \in 1..((i + 2) - 1) PROVE t[j] \notin Ends
    <3>1. CASE j = 1 \/ j = 2
      BY <1>5, <1>7, <3>1
    <3>2. CASE j # 1 /\ j # 2
      <4>1. j - 2 \in 1..(i - 1) /\ j - 2 \in 1..Len(s) /\ (j - 2) + 2 = j
        BY <1>2, <3>2
      <4>2. s[j - 2] \notin Ends /\ t[(j - 2) + 2] = s[j - 2]
        BY <1>5, <2>1, <4>1
      <4> QED
        BY <4>1, <4>2
    <3> QED
      BY <3>1, <3>2
  <2> QED
    BY <2>2, <2>3 DEF Emptying
<1> QED
  BY <1>3, <1>6, <1>7 DEF h

\* A call that has done a step.
LEMMA EmptyingPop ==
  ASSUME NEW s \in Seq(Kinds), s # <<>>, Emptying(s), Head(s) # "empty"
  PROVE  Head(s) \notin Ends /\ Emptying(Tail(s))
<1> DEFINE t == Tail(s)
<1>1. /\ Len(s) \in Nat \ {0} /\ DOMAIN s = 1..Len(s)
      /\ t \in Seq(Kinds) /\ Len(t) = Len(s) - 1 /\ DOMAIN t = 1..(Len(s) - 1)
      /\ \A i \in DOMAIN t : t[i] = s[i + 1]
      /\ Head(s) = s[1]
  BY HeadTailProperties, LenProperties, EmptySeq
<1> HIDE DEF t
<1>2. PICK i \in DOMAIN s : s[i] = "empty" /\ \A j \in 1..(i - 1) : s[j] \notin Ends
  BY DEF Emptying
<1>3. i # 1
  BY <1>1, <1>2
<1>4. Head(s) \notin Ends
  <2>1. 1 \in 1..(i - 1)
    BY <1>1, <1>2, <1>3
  <2> QED
    BY <1>1, <1>2, <2>1
<1>5. i - 1 \in DOMAIN t /\ t[i - 1] = "empty"
  BY <1>1, <1>2, <1>3
<1>6. ASSUME NEW j \in 1..((i - 1) - 1) PROVE t[j] \notin Ends
  <2>1. j \in DOMAIN t /\ j + 1 \in 1..(i - 1)
    BY <1>1, <1>2
  <2> QED
    BY <1>1, <1>2, <2>1
<1>7. Emptying(t)
  BY <1>5, <1>6 DEF Emptying
<1> QED
  BY <1>4, <1>7 DEF t

\* A step that neither reads nor makes or ends a call.
LEMMA HeldUnchanged ==
  ASSUME HeldInv, UNCHANGED <<clientState, clientBuffer, stack>>,
         handler' = "removed" /\ channel' # "closed" => handler = "removed" /\ channel # "closed"
  PROVE  HeldInv'
<1>1. Emptying(stack)' = Emptying(stack)
  BY DEF Emptying
<1> QED
  BY <1>1 DEF HeldInv

\* Bytes of the server arrive.
LEMMA ChannelReadHolds ==
  ASSUME IInv, HeldInv, NEW n, ChannelRead(n)
  PROVE  HeldInv'
<1> DEFINE buffer == clientBuffer \o SubSeq(toClient, 1, n)
<1>1. channel = "active" /\ UNCHANGED handler
  BY DEF ChannelRead
<1>2. CASE clientState = "active" \/ handler = "removed"
  <2>1. UNCHANGED <<clientBuffer, clientState, channel, stack>>
    BY <1>2 DEF ChannelRead
  <2> QED
    BY <1>1, <2>1, HeldUnchanged
<1>3. CASE ~(clientState = "active" \/ handler = "removed")
  <2>1. \/ HandleSelectedAuthenticationMethod(buffer)
        \/ HandleServerResponse(buffer)
        \/ UnexpectedRead(buffer)
    BY <1>3 DEF ChannelRead
  <2> HIDE DEF buffer
  <2>2. \/ clientState' # "active"
        \/ stack' = <<"empty", "established">>
    <3>1. CASE HandleSelectedAuthenticationMethod(buffer)
      BY <1>3, <3>1 DEF HandleSelectedAuthenticationMethod
    <3>2. CASE HandleServerResponse(buffer)
      BY <1>3, <3>2 DEF HandleServerResponse
    <3>3. CASE UnexpectedRead(buffer)
      BY <3>3 DEF UnexpectedRead
    <3> QED
      BY <2>1, <3>1, <3>2, <3>3
  <2>3. stack' = <<"empty", "established">> => Emptying(stack')
    <3>1. <<>> \in Seq(Kinds) /\ "empty" \in Kinds /\ "established" \in Kinds
      BY EmptySeq DEF Kinds
    <3>2. Emptying(<<"empty", "established">> \o <<>>)
      BY <3>1, EmptyingPush
    <3>3. <<"empty", "established">> \o <<>> = <<"empty", "established">>
      BY ConcatEmptySeq
    <3> QED
      BY <3>2, <3>3
  <2> QED
    BY <1>1, <1>3, <2>2, <2>3 DEF HeldInv
<1> QED
  BY <1>2, <1>3

\* A flush or a removal is asked for.
LEMMA CallsHold ==
  ASSUME IInv, HeldInv, Flush \/ RemoveHandler
  PROVE  HeldInv'
<1>1. UNCHANGED <<channel, clientState, clientBuffer, handler>>
  BY DEF Flush, RemoveHandler
<1>2. \/ stack' = stack
      \/ clientState = "active" /\ stack' = <<"marked", "rest">> \o stack
      \/ clientState = "active" /\ stack' = <<"empty", "leave">> \o stack
  BY DEF Flush, RemoveHandler, WriteBufferedData
<1>3. CASE stack' = stack
  BY <1>1, <1>3, HeldUnchanged
<1>4. CASE stack' # stack
  <2>1. stack \in Seq(Kinds) /\ {"marked", "rest", "empty", "leave"} \subseteq Kinds
    BY DEF IInv, Typed, Kinds
  <2>2. Emptying(stack) => Emptying(<<"marked", "rest">> \o stack)
    BY <2>1, EmptyingPush DEF Ends
  <2>3. Emptying(<<"empty", "leave">> \o stack)
    BY <2>1, EmptyingPush
  <2>4. Emptying(stack) => Emptying(stack')
    BY <1>2, <1>4, <2>2, <2>3
  <2> QED
    BY <1>1, <2>4 DEF HeldInv
<1> QED
  BY <1>3, <1>4

\* A call goes on.
LEMMA ContinueHolds ==
  ASSUME IInv, HeldInv, Continue
  PROVE  HeldInv'
<1>1. stack \in Seq(Kinds) /\ stack # <<>> /\ channel' = channel /\ clientState' = clientState
  BY DEF IInv, Typed, Continue, ContinueEmpty, ContinueMarked, ContinueRest, ContinueLeave
<1>2. CASE ContinueEmpty
  <2>1. clientBuffer' = <<>>
    BY <1>2 DEF ContinueEmpty
  <2> QED
    BY <2>1 DEF HeldInv
<1>3. CASE ContinueMarked \/ ContinueRest
  <2>1. /\ UNCHANGED <<clientBuffer, handler>> /\ Head(stack) # "empty"
        /\ stack' \in {stack, Tail(stack)}
    BY <1>3 DEF ContinueMarked, ContinueRest
  <2>2. Emptying(stack) => Emptying(stack')
    BY <1>1, <2>1, EmptyingPop
  <2> QED
    BY <1>1, <2>1, <2>2 DEF HeldInv
<1>4. CASE ContinueLeave
  <2>1. UNCHANGED clientBuffer /\ Head(stack) \in Ends /\ Head(stack) # "empty"
    BY <1>4 DEF ContinueLeave, Ends
  <2>2. ~Emptying(stack)
    BY <1>1, <2>1, EmptyingPop
  <2>3. clientState = "active"
    BY <1>1 DEF IInv, Phases
  <2>4. clientBuffer' = <<>>
    BY <2>1, <2>2, <2>3 DEF HeldInv
  <2> QED
    BY <2>4 DEF HeldInv
<1> QED
  BY <1>2, <1>3, <1>4 DEF Continue

\* What is held back always has a call that will hand it on.
LEMMA HeldInvAlways == Spec => []HeldInv
<1>1. Init => HeldInv
  BY DEF Init, HeldInv
<1>2. IInv /\ HeldInv /\ [Next]_vars => HeldInv'
  <2> SUFFICES ASSUME IInv, HeldInv, [Next]_vars PROVE HeldInv'
    OBVIOUS
  <2>1. CASE UNCHANGED vars
    BY <2>1, HeldUnchanged DEF vars, clientVars
  <2>2. CASE HandlerAdded
    <3>1. clientState' # "active" \/ clientState' = clientState
      BY <2>2 DEF HandlerAdded, BeginHandshake
    <3>2. UNCHANGED <<clientBuffer, stack>> /\ handler' = "added"
      BY <2>2 DEF HandlerAdded
    <3>3. Emptying(stack)' = Emptying(stack)
      BY <3>2 DEF Emptying
    <3> QED
      BY <3>1, <3>2, <3>3 DEF HeldInv
  <2>3. CASE ChannelActive
    <3>1. clientState' # "active" \/ clientState' = clientState
      BY <2>3 DEF ChannelActive, BeginHandshake
    <3>2. UNCHANGED <<clientBuffer, stack, handler, channel>>
      BY <2>3 DEF ChannelActive
    <3>3. Emptying(stack)' = Emptying(stack)
      BY <3>2 DEF Emptying
    <3> QED
      BY <3>1, <3>2, <3>3 DEF HeldInv
  <2>4. CASE \E n \in DOMAIN toClient : ChannelRead(n)
    BY <2>4, ChannelReadHolds
  <2>5. CASE Write
    BY <2>5, HeldUnchanged DEF Write
  <2>6. CASE Flush \/ RemoveHandler
    BY <2>6, CallsHold
  <2>7. CASE Continue
    BY <2>7, ContinueHolds
  <2>8. CASE Connected
    BY <2>8, HeldUnchanged DEF Connected
  <2>9. CASE ConnectionLost
    BY <2>9, HeldUnchanged DEF ConnectionLost, CloseClient
  <2>10. CASE Teardown
    BY <2>10, HeldUnchanged DEF Teardown
  <2>11. CASE \E n \in DOMAIN toServer : ServerChannelRead(n)
    BY <2>11, HeldUnchanged DEF ServerChannelRead, clientVars
  <2>12. CASE \E method \in {NoneRequired, 1} : SendAuthenticationMethod(method)
    BY <2>12, HeldUnchanged DEF SendAuthenticationMethod, clientVars
  <2>13. CASE \E reply \in {Succeeded, 1} : SendServerResponse(reply)
    BY <2>13, HeldUnchanged DEF SendServerResponse, clientVars
  <2>14. CASE ServerHandlerRemoved
    BY <2>14, HeldUnchanged DEF ServerHandlerRemoved, clientVars
  <2>15. CASE ServerWrite
    BY <2>15, HeldUnchanged DEF ServerWrite, clientVars
  <2> QED
    BY <2>1, <2>2, <2>3, <2>4, <2>5, <2>6, <2>7, <2>8, <2>9, <2>10, <2>11, <2>12, <2>13, <2>14,
       <2>15 DEF Next
<1> QED
  BY <1>1, <1>2, IInvAlways, PTL DEF Spec

-----------------------------------------------------------------------------
(* The messages and the data as bytes.                                     *)

\* The messages of a handshake.
LEMMA MessagesAre ==
  /\ Greeting \in Bytes /\ Greeting # <<>>
  /\ Request \in Bytes /\ Request # <<>>
  /\ \A method \in Nat : Selection(method) \in Bytes /\ Selection(method) # <<>>
  /\ \A reply \in Nat : Response(reply) \in Bytes /\ Response(reply) # <<>>
  /\ Hello = Greeting \o Request
<1>1. TargetAddress \in Seq(Nat) /\ BoundAddress \in Seq(Nat)
  <2>1. TargetAddress \in Seq(Byte) /\ BoundAddress \in Seq(Byte) /\ Byte \subseteq Nat
    BY AddressAssumption DEF IsAddress, Byte
  <2> QED
    BY <2>1, SeqMonotonic
<1>2. Greeting \in Bytes /\ Greeting # <<>>
  <2>1. <<5, Len(<<0>>)>> \in Seq(Nat) /\ <<0>> \in Seq(Nat) /\ <<0>> # <<>>
    OBVIOUS
  <2>2. Greeting = <<5, Len(<<0>>)>> \o <<0>>
    BY DEF Greeting, WriteClientGreeting, NoneRequired
  <2>3. Greeting \in Seq(Nat)
    BY HelloIs
  <2> QED
    BY <2>1, <2>2, <2>3, ConcatEqualIffEmpty DEF Bytes
<1>3. ASSUME NEW code \in Nat, NEW a \in Seq(Nat)
      PROVE  <<5, code, 0>> \o a \in Bytes /\ <<5, code, 0>> \o a # <<>>
  <2>1. <<5, code, 0>> \in Seq(Nat) /\ <<5, code, 0>> # <<>>
    OBVIOUS
  <2> QED
    BY <2>1, ConcatProperties, ConcatEqualIffEmpty DEF Bytes
<1>4. Request \in Bytes /\ Request # <<>>
  BY <1>1, <1>3 DEF Request, WriteClientRequest
<1>5. \A reply \in Nat : Response(reply) \in Bytes /\ Response(reply) # <<>>
  BY <1>1, <1>3 DEF Response, WriteServerResponse
<1>6. \A method \in Nat : Selection(method) \in Bytes /\ Selection(method) # <<>>
  BY DEF Selection, WriteMethodSelection, Bytes
<1> QED
  BY <1>2, <1>4, <1>5, <1>6, HelloIs DEF Request

\* The data of an application grows by a byte with each write.
LEMMA DataIs ==
  ASSUME NEW n \in Nat
  PROVE  /\ Data(200, n) \in Bytes
         /\ Data(200, 0) = <<>>
         /\ Data(200, n) \o <<200 + n + 1>> = Data(200, n + 1)
<1>1. ASSUME NEW k \in Nat
      PROVE  /\ Data(200, k) \in Seq(Nat) /\ Len(Data(200, k)) = k
             /\ \A i \in 1..k : Data(200, k)[i] = 200 + i
  <2> DEFINE d == Data(200, k)
  <2>1. d \in [1..k -> Nat] /\ \A i \in 1..k : d[i] = 200 + i
    BY DEF Data
  <2> HIDE DEF d
  <2>2. d \in Seq(Nat) /\ Len(d) = k
    BY <2>1, SeqDef, LenProperties
  <2> QED
    BY <2>1, <2>2 DEF d
<1> HIDE DEF Data
<1>2. Data(200, 0) = <<>>
  BY <1>1, EmptySeq
<1>3. /\ Data(200, n) \o <<200 + n + 1>> \in Seq(Nat)
      /\ Len(Data(200, n) \o <<200 + n + 1>>) = n + 1
      /\ \A i \in 1..(n + 1) : (Data(200, n) \o <<200 + n + 1>>)[i] = 200 + i
  <2> DEFINE d == Data(200, n)
             e == <<200 + n + 1>>
  <2>1. d \in Seq(Nat) /\ Len(d) = n /\ \A i \in 1..n : d[i] = 200 + i
    BY <1>1
  <2>2. e \in Seq(Nat) /\ Len(e) = 1 /\ e[1] = 200 + n + 1
    OBVIOUS
  <2> HIDE DEF d, e
  <2>3. /\ d \o e \in Seq(Nat) /\ Len(d \o e) = Len(d) + Len(e)
        /\ \A i \in 1..(Len(d) + Len(e)) :
             (d \o e)[i] = IF i <= Len(d) THEN d[i] ELSE e[i - Len(d)]
    <3>1. d \in Seq(Nat) /\ e \in Seq(Nat)
      BY <2>1, <2>2
    <3> QED
      BY <3>1, ConcatProperties
  <2>4. ASSUME NEW i \in 1..(n + 1) PROVE (d \o e)[i] = 200 + i
    <3>1. (d \o e)[i] = IF i <= n THEN d[i] ELSE e[i - n]
      BY <2>1, <2>2, <2>3
    <3>2. CASE i <= n
      BY <2>1, <3>1, <3>2
    <3>3. CASE ~(i <= n)
      <4>1. i = n + 1 /\ i - n = 1
        BY <3>3
      <4> QED
        BY <2>2, <3>1, <3>3, <4>1
    <3> QED
      BY <3>2, <3>3
  <2> QED
    BY <2>1, <2>2, <2>3, <2>4 DEF d, e
<1>4. Data(200, n) \o <<200 + n + 1>> = Data(200, n + 1)
  <2>1. n + 1 \in Nat
    OBVIOUS
  <2>2. /\ Data(200, n + 1) \in Seq(Nat) /\ Len(Data(200, n + 1)) = n + 1
        /\ \A i \in 1..(n + 1) : Data(200, n + 1)[i] = 200 + i
    BY <1>1, <2>1
  <2> DEFINE s == Data(200, n) \o <<200 + n + 1>>
             t == Data(200, n + 1)
  <2>3. /\ s \in Seq(Nat) /\ t \in Seq(Nat) /\ Len(s) = Len(t)
        /\ \A i \in 1..Len(s) : s[i] = t[i]
    BY <1>3, <2>2
  <2> HIDE DEF s, t
  <2>4. s = t
    BY <2>3, SeqEqual
  <2> QED
    BY <2>4 DEF s, t
<1> QED
  BY <1>1, <1>2, <1>4 DEF Bytes

\* What is between the two sides are bytes.
LEMMA BytesAre ==
  ASSUME BytesTyped
  PROVE  /\ Up \in Bytes /\ Down \in Bytes
         /\ Up = <<>> <=> serverBuffer = <<>> /\ toServer = <<>>
         /\ Down = <<>> <=> clientBuffer = <<>> /\ toClient = <<>>
  BY ConcatProperties, ConcatEqualIffEmpty DEF BytesTyped, Bytes, Up, Down

-----------------------------------------------------------------------------
(* Steps that read nothing.                                                *)

\* A step that moves no bytes, except that it may lose those for the client as it closes.
LEMMA Unmoved ==
  ASSUME BytesInv,
         UNCHANGED <<clientState, clientBuffer, received, sent, flushed, toServer, serverVars>>,
         toClient' \in Bytes,
         channel' # "closed" => channel # "closed" /\ toClient' = toClient
  PROVE  BytesInv'
<1>1. Up' = Up /\ (channel' # "closed" => channel # "closed" /\ Down' = Down)
  BY DEF Up, Down, serverVars
<1>2. BytesTyped' /\ ServerHandlers'
  BY DEF BytesInv, BytesTyped, ServerHandlers, serverVars
<1>3. refused' = refused
  BY DEF serverVars
<1>4. Failing => Failing'
  BY <1>1 DEF Failing, MethodRefused, RequestRefused, GivenUp, serverVars
<1>5. Succeeding => Succeeding'
  BY <1>1 DEF Succeeding, NotBegun, GreetingSent, GreetingRead, MethodSent, RequestSent,
              RequestRead, ResponseSent, Tunnel, Between, serverVars
<1> QED
  BY <1>2, <1>3, <1>4, <1>5 DEF BytesInv

\* A client that believes in the tunnel has one.
LEMMA ActiveIsTunnel ==
  ASSUME BytesInv, clientState = "active"
  PROVE  Tunnel /\ ~refused
<1>1. ~Failing
  BY DEF Failing, MethodRefused, RequestRefused, GivenUp
<1>2. Succeeding /\ ~refused
  BY <1>1 DEF BytesInv
<1> QED
  BY <1>2 DEF Succeeding, NotBegun, GreetingSent, GreetingRead, MethodSent, RequestSent,
              RequestRead, ResponseSent, Between

\* A write joins the ones that are not flushed yet.
LEMMA PassedOnIsCarried ==
  ASSUME IInv, BytesInv,
         UNCHANGED <<clientState, clientBuffer, received, flushed, toServer, toClient, channel,
                     serverVars>>,
         \/ sent' = sent
         \/ clientState = "active" /\ \E x \in Nat : sent' = Append(sent, x)
  PROVE  BytesInv'
<1>1. CASE sent' = sent
  <2>1. toClient' \in Bytes
    BY DEF BytesInv, BytesTyped
  <2> QED
    BY <1>1, <2>1, Unmoved
<1>2. CASE sent' # sent
  <2>1. PICK x \in Nat : clientState = "active" /\ sent' = Append(sent, x)
    BY <1>2
  <2>2. Tunnel /\ ~refused
    BY <2>1, ActiveIsTunnel
  <2>3. sent \in Seq(Nat) /\ Len(sent) \in Nat /\ HelloLength \in Nat /\ flushed \in Nat
    BY HelloIs, LenProperties DEF IInv, Typed
  <2>4. HelloLength <= flushed /\ flushed <= Len(sent)
    BY <2>2 DEF Tunnel
  <2>5. /\ sent' \in Seq(Nat) /\ Len(sent') = Len(sent) + 1
        /\ \A i \in 1..Len(sent) : sent'[i] = sent[i]
    BY <2>1, <2>3, AppendProperties
  <2> DEFINE s == SubSeq(sent, HelloLength + 1, flushed)
             t == SubSeq(sent', HelloLength + 1, flushed)
  <2>6. \A i \in (HelloLength + 1)..flushed :
          i \in 1..Len(sent) /\ i \in 1..Len(sent')
    BY <2>3, <2>4, <2>5
  <2>7. \A i \in (HelloLength + 1)..flushed :
          sent[i] \in Nat /\ sent'[i] \in Nat /\ sent'[i] = sent[i]
    BY <2>3, <2>5, <2>6, ElementOfSeq
  <2>8. HelloLength + 1 \in Int /\ flushed \in Int
    BY <2>3
  <2>9. /\ s \in Seq(Nat)
        /\ Len(s) = IF HelloLength + 1 <= flushed THEN flushed - (HelloLength + 1) + 1 ELSE 0
        /\ \A i \in 1..(flushed - (HelloLength + 1) + 1) : s[i] = sent[HelloLength + 1 + i - 1]
    BY <2>7, <2>8, SubSeqProperties
  <2>10. /\ t \in Seq(Nat)
         /\ Len(t) = IF HelloLength + 1 <= flushed THEN flushed - (HelloLength + 1) + 1 ELSE 0
         /\ \A i \in 1..(flushed - (HelloLength + 1) + 1) : t[i] = sent'[HelloLength + 1 + i - 1]
    BY <2>7, <2>8, SubSeqProperties
  <2> HIDE DEF s, t
  <2>11. ASSUME NEW i \in 1..Len(s) PROVE s[i] = t[i]
    <3>1. /\ i \in 1..(flushed - (HelloLength + 1) + 1)
          /\ HelloLength + 1 + i - 1 \in (HelloLength + 1)..flushed
      BY <2>3, <2>4, <2>9
    <3> QED
      BY <2>7, <2>9, <2>10, <3>1
  <2>12. s = t
    BY <2>9, <2>10, <2>11, SeqEqual
  <2>13. t = SubSeq(sent, HelloLength + 1, flushed)'
    BY DEF t, HelloLength, Hello
  <2>14. Up' = Up /\ Down' = Down
    BY DEF Up, Down, serverVars
  <2>15. BytesTyped' /\ ServerHandlers' /\ ~refused'
    BY <2>2 DEF BytesInv, BytesTyped, ServerHandlers, serverVars
  <2>16. HelloLength' = HelloLength
    BY DEF HelloLength, Hello
  <2>17. (serverReceived \o Up)' = SubSeq(sent, HelloLength + 1, flushed)'
    BY <2>2, <2>12, <2>13, <2>14 DEF Tunnel, serverVars, s
  <2>18. flushed <= Len(sent') /\ HelloLength' <= flushed
    BY <2>3, <2>4, <2>5, <2>16
  <2>19. Tunnel'
    BY <2>2, <2>14, <2>17, <2>18 DEF Tunnel, serverVars
  <2> QED
    BY <2>15, <2>19 DEF BytesInv, Succeeding
<1> QED
  BY <1>1, <1>2

\* A flush carries what was passed on to the network.
LEMMA FlushedIsCarried ==
  ASSUME IInv, BytesInv, FlushNetwork,
         UNCHANGED <<clientState, clientBuffer, received, sent, toClient, channel, serverVars>>,
         clientState = "active" \/ channel = "closed"
  PROVE  BytesInv'
<1>1. CASE channel # "active"
  <2>1. toClient' \in Bytes
    BY DEF BytesInv, BytesTyped
  <2>2. UNCHANGED <<flushed, toServer>>
    BY <1>1 DEF FlushNetwork
  <2> QED
    BY <2>1, <2>2, Unmoved
<1>2. CASE channel = "active"
  <2>1. Tunnel /\ ~refused
    BY <1>2, ActiveIsTunnel
  <2>2. sent \in Seq(Nat) /\ Len(sent) \in Nat /\ HelloLength \in Nat /\ flushed \in Nat
    BY HelloIs, LenProperties DEF IInv, Typed
  <2>3. HelloLength <= flushed /\ flushed <= Len(sent)
    BY <2>1 DEF Tunnel
  <2> DEFINE s == SubSeq(sent, HelloLength + 1, flushed)
             t == SubSeq(sent, flushed + 1, Len(sent))
  <2>4. flushed' = Len(sent) /\ toServer' = toServer \o t
    BY <1>2 DEF FlushNetwork
  <2>5. s \o t = SubSeq(sent, HelloLength + 1, Len(sent))
    <3>1. /\ HelloLength + 1 \in 1..(Len(sent) + 1)
          /\ flushed \in ((HelloLength + 1) - 1)..Len(sent)
          /\ Len(sent) \in flushed..Len(sent)
      BY <2>2, <2>3
    <3> QED
      BY <2>2, <3>1, ConcatAdjacentSubSeq
  <2>6. t \in Seq(Nat)
    <3>1. flushed \in 0..Len(sent)
      BY <2>2, <2>3
    <3> QED
      BY <2>2, <3>1, Halves
  <2> HIDE DEF t
  <2>7. /\ serverReceived \in Seq(Nat) /\ serverBuffer \in Seq(Nat) /\ toServer \in Seq(Nat)
        /\ toServer \o t \in Seq(Nat)
    <3>1. serverReceived \in Seq(Nat) /\ serverBuffer \in Seq(Nat) /\ toServer \in Seq(Nat)
      BY DEF BytesInv, BytesTyped, Bytes
    <3> QED
      BY <2>6, <3>1, ConcatProperties
  <2>8. serverReceived \o (serverBuffer \o (toServer \o t))
          = (serverReceived \o (serverBuffer \o toServer)) \o t
    <3>1. serverBuffer \o toServer \in Seq(Nat)
      BY <2>7, ConcatProperties
    <3>2. Regroups(Nat, serverBuffer, toServer, t)
      BY <2>6, <2>7, Regrouping
    <3>3. Regroups(Nat, serverReceived, serverBuffer \o toServer, t)
      BY <2>6, <2>7, <3>1, Regrouping
    <3> QED
      BY <3>2, <3>3 DEF Regroups
  <2>9. serverReceived \o (serverBuffer \o toServer) = s
    BY <2>1 DEF Tunnel, Up
  <2>10. serverReceived \o (serverBuffer \o (toServer \o t))
           = SubSeq(sent, HelloLength + 1, Len(sent))
    BY <2>5, <2>8, <2>9
  <2>11. HelloLength' = HelloLength
    BY DEF HelloLength, Hello
  <2>12. (serverReceived \o Up)' = SubSeq(sent, HelloLength + 1, flushed)'
    BY <2>4, <2>10, <2>11 DEF Up, serverVars
  <2>13. BytesTyped' /\ ServerHandlers' /\ ~refused'
    BY <2>1, <2>4, <2>7 DEF BytesInv, BytesTyped, ServerHandlers, Bytes, serverVars
  <2>14. Down' = Down
    BY DEF Down
  <2>15. HelloLength <= Len(sent) /\ Len(sent) <= Len(sent)
    BY <2>2, <2>3
  <2>16. Tunnel'
    BY <2>1, <2>4, <2>11, <2>12, <2>14, <2>15 DEF Tunnel, serverVars
  <2> QED
    BY <2>13, <2>16 DEF BytesInv, Succeeding
<1> QED
  BY <1>1, <1>2

\* A message that the client writes and flushes, when everything else was flushed.
LEMMA WrittenAndFlushed ==
  ASSUME sent \in Seq(Nat), flushed = Len(sent), NEW bytes \in Bytes, WriteAndFlush(bytes)
  PROVE  flushed' = Len(sent') /\ toServer' = toServer \o bytes
<1>1. sent \o bytes \in Seq(Nat) /\ Len(sent \o bytes) = Len(sent) + Len(bytes)
  BY ConcatProperties DEF Bytes
<1>2. Len(sent) \in Nat /\ Len(bytes) \in Nat /\ bytes \in Seq(Nat) /\ <<>> \in Seq(Nat)
  BY LenProperties, EmptySeq DEF Bytes
<1>3. (sent \o bytes) \o <<>> = sent \o bytes
  BY <1>1, ConcatEmptySeq
<1> DEFINE tail == SubSeq(sent \o bytes, Len(sent) + 1, Len(sent \o bytes))
<1>4. tail \in Seq(Nat) /\ tail \o <<>> = bytes
  <2>1. Len(sent \o bytes) >= Len(sent)
    BY <1>1, <1>2
  <2>2. Splits(Nat, sent \o bytes, <<>>, sent, bytes)
    BY <1>1, <1>2, <1>3, MessageFront
  <2> QED
    BY <2>1, <2>2 DEF Splits
<1> HIDE DEF tail
<1>5. tail = bytes
  BY <1>4, ConcatEmptySeq
<1> QED
  BY <1>5 DEF WriteAndFlush, tail

\* The greeting is written.
LEMMA BegunIsCarried ==
  ASSUME IInv, BytesInv, BeginHandshake,
         UNCHANGED <<channel, clientBuffer, received, toClient, serverVars>>
  PROVE  BytesInv'
<1>1. toClient' \in Bytes
  BY DEF BytesInv, BytesTyped
<1>2. CASE ~(channel = "active" /\ clientState = "inactive")
  <2>1. UNCHANGED <<clientState, sent, flushed, toServer>>
    BY <1>2 DEF BeginHandshake
  <2> QED
    BY <1>1, <2>1, Unmoved
<1>3. CASE channel = "active" /\ clientState = "inactive"
  <2>1. NotBegun /\ ~refused
    <3>1. ~Failing
      BY <1>3 DEF Failing, MethodRefused, RequestRefused, GivenUp
    <3>2. Succeeding /\ ~refused
      BY <3>1 DEF BytesInv
    <3> QED
      BY <1>3, <3>2 DEF Succeeding, GreetingSent, GreetingRead, MethodSent, RequestSent,
                        RequestRead, ResponseSent, Tunnel, Between
  <2>2. WriteAndFlush(Greeting) /\ clientState' = "waitingForAuthenticationMethod"
    BY <1>3 DEF BeginHandshake, Greeting
  <2>3. sent \in Seq(Nat) /\ flushed = Len(sent) /\ Greeting \in Bytes
    BY <2>1, MessagesAre DEF NotBegun, Between, IInv, Typed
  <2>4. flushed' = Len(sent') /\ toServer' = toServer \o Greeting
    BY <2>2, <2>3, WrittenAndFlushed
  <2>5. Up = <<>> /\ Down = <<>>
    BY <1>3, <2>1 DEF NotBegun, Between
  <2>6. serverBuffer = <<>> /\ toServer = <<>>
    BY <2>5, BytesAre DEF BytesInv
  <2>7. toServer' = Greeting /\ Up' = Greeting
    <3>1. <<>> \o Greeting = Greeting
      BY <2>3, ConcatEmptySeq DEF Bytes
    <3> QED
      BY <2>4, <2>6, <3>1 DEF Up, serverVars
  <2>8. Down' = <<>>
    BY <2>5 DEF Down
  <2>9. BytesTyped' /\ ServerHandlers' /\ ~refused'
    BY <2>1, <2>3, <2>7 DEF BytesInv, BytesTyped, ServerHandlers, serverVars
  <2>10. Greeting' = Greeting
    BY DEF Greeting
  <2>11. GreetingSent'
    BY <2>1, <2>2, <2>4, <2>7, <2>8, <2>10 DEF NotBegun, GreetingSent, Between, serverVars
  <2> QED
    BY <2>9, <2>11 DEF BytesInv, Succeeding
<1> QED
  BY <1>2, <1>3

-----------------------------------------------------------------------------
(* Steps of the client that read.                                          *)

\* A step of the client leaves the server as it is.
LEMMA ClientStep ==
  ASSUME BytesInv, UNCHANGED serverVars,
         clientBuffer' \in Bytes, toClient' \in Bytes, received' \in Bytes, toServer' \in Bytes
  PROVE  BytesTyped' /\ ServerHandlers' /\ refused' = refused
BY DEF BytesInv, BytesTyped, ServerHandlers, serverVars

\* What the client's handler held back is handed on.
LEMMA HandedOnIsCarried ==
  ASSUME IInv, HeldInv, BytesInv, ContinueEmpty
  PROVE  BytesInv'
<1>1. clientState = "active" /\ handler \in {"added", "removed"}
  BY DEF ContinueEmpty, IInv, Phases, Typed
<1>2. Tunnel /\ ~refused
  BY <1>1, ActiveIsTunnel
<1>3. PICK r \in Seq(Nat), b \in Seq(Nat), c \in Seq(Nat) :
        r = received /\ b = clientBuffer /\ c = toClient
  BY DEF BytesInv, BytesTyped, Bytes
<1>4. <<>> \in Seq(Nat) /\ <<>> \o c = c /\ <<>> \o b = b /\ r \o b \in Seq(Nat)
  BY EmptySeq, ConcatEmptySeq, ConcatProperties
<1>5. /\ UNCHANGED <<channel, clientState, sent, flushed, toServer, toClient, serverVars>>
      /\ clientBuffer' = <<>>
      /\ received' = IF handler = "added" THEN r \o b ELSE r
  BY <1>3 DEF ContinueEmpty
<1>6. (r \o b) \o c = r \o (b \o c)
  <2>1. Regroups(Nat, r, b, c)
    BY Regrouping
  <2> QED
    BY <2>1 DEF Regroups
<1>7. channel # "closed" => received' \o c = r \o (b \o c)
  <2>1. handler # "added" /\ channel # "closed" => b = <<>>
    BY <1>1, <1>3 DEF HeldInv
  <2> QED
    BY <1>4, <1>5, <1>6, <2>1
<1>8. channel' # "closed" => (received \o Down)' = Data(200, serverCount)
  <2>1. Down = b \o c /\ Down' = c
    BY <1>3, <1>4, <1>5 DEF Down
  <2> QED
    BY <1>2, <1>3, <1>5, <1>7, <2>1 DEF Tunnel
<1>9. BytesTyped' /\ ServerHandlers' /\ refused' = refused
  <2>1. toServer' \in Bytes /\ toClient' \in Bytes /\ clientBuffer' \in Bytes
        /\ received' \in Bytes
    BY <1>3, <1>4, <1>5 DEF BytesInv, BytesTyped, Bytes
  <2> QED
    BY <1>5, <2>1, ClientStep
<1>10. Up' = Up
  BY <1>5 DEF Up, serverVars
<1>11. Tunnel'
  BY <1>2, <1>5, <1>8, <1>10 DEF Tunnel, serverVars, HelloLength
<1> QED
  BY <1>2, <1>9, <1>11 DEF BytesInv, Succeeding

\* A step that fails the handshake of a refusing server.
LEMMA GivingUp ==
  ASSUME BytesInv, UNCHANGED <<received, toServer, serverVars>>,
         MethodRefused \/ RequestRefused, refused,
         clientState' = "error", clientBuffer' \in Bytes, toClient' \in Bytes
  PROVE  BytesInv'
<1>1. received \in Bytes /\ toServer \in Bytes /\ received = <<>>
  <2>1. Failing
    BY DEF BytesInv
  <2> QED
    BY <2>1 DEF BytesInv, BytesTyped, Failing
<1>2. BytesTyped' /\ ServerHandlers' /\ refused' = refused
  BY <1>1, ClientStep
<1>3. Failing'
  BY <1>1 DEF Failing, GivenUp, MethodRefused, RequestRefused, serverVars
<1> QED
  BY <1>2, <1>3 DEF BytesInv

\* A step that reads a part of a message.
LEMMA ReadingOn ==
  ASSUME BytesInv,
         UNCHANGED <<channel, clientState, received, sent, flushed, toServer, serverVars>>,
         clientBuffer' \in Bytes, toClient' \in Bytes, Down' = Down
  PROVE  BytesInv'
<1>1. Up' = Up
  BY DEF Up, serverVars
<1>2. BytesTyped' /\ ServerHandlers' /\ refused' = refused
  BY ClientStep DEF BytesInv, BytesTyped
<1>3. Failing => Failing'
  BY DEF Failing, MethodRefused, RequestRefused, GivenUp, serverVars
<1>4. Succeeding => Succeeding'
  BY <1>1 DEF Succeeding, NotBegun, GreetingSent, GreetingRead, MethodSent, RequestSent,
              RequestRead, ResponseSent, Tunnel, Between, serverVars
<1> QED
  BY <1>2, <1>3, <1>4 DEF BytesInv

\* What the client can be reading when bytes of the server arrive and there is no tunnel yet.
LEMMA ClientAwaits ==
  ASSUME BytesInv, Down # <<>>, channel # "closed"
  PROVE  /\ clientState # "inactive"
         /\ clientState = "waitingForAuthenticationMethod" =>
              IF refused THEN MethodRefused ELSE MethodSent
         /\ clientState = "waitingForServerResponse" =>
              IF refused THEN RequestRefused ELSE ResponseSent
<1>1. CASE refused
  <2>1. Failing
    BY <1>1 DEF BytesInv
  <2> QED
    BY <1>1, <2>1 DEF Failing, MethodRefused, RequestRefused, GivenUp
<1>2. CASE ~refused
  <2>1. Succeeding
    BY <1>2 DEF BytesInv
  <2> QED
    BY <1>2, <2>1 DEF Succeeding, NotBegun, GreetingSent, GreetingRead, MethodSent, RequestSent,
                      RequestRead, ResponseSent, Tunnel, Between
<1> QED
  BY <1>1, <1>2

\* The selection of a method arrives, in pieces.
LEMMA SelectionIsRead ==
  ASSUME IInv, BytesInv, channel = "active",
         clientState = "waitingForAuthenticationMethod",
         NEW b \in Seq(Nat), NEW rest \in Seq(Nat), b \o rest = Down, Down # <<>>,
         HandleSelectedAuthenticationMethod(b),
         UNCHANGED <<received, serverVars>>,
         toClient' = IF channel' = "closed" THEN <<>> ELSE rest
  PROVE  BytesInv'
<1> DEFINE method == IF refused THEN 1 ELSE 0
           m == Selection(method)
<1>1. IF refused THEN MethodRefused ELSE MethodSent
  BY ClientAwaits
<1>2. method \in Nat /\ m \in Seq(Nat) /\ <<>> \in Seq(Nat) /\ Down = m
  BY <1>1, MessagesAre, EmptySeq DEF MethodRefused, MethodSent, Between, NoneRequired, Bytes
<1> HIDE DEF m
<1>3. m \o <<>> = m
  BY <1>2, ConcatEmptySeq
<1> DEFINE t == SubSeq(b, Len(m) + 1, Len(b))
<1>4. Begins(b, m) /\ (Len(b) >= Len(m) => t \in Seq(Nat) /\ t \o rest = <<>>)
  <2>1. b \o rest = m \o <<>>
    BY <1>2, <1>3
  <2>2. Splits(Nat, b, rest, m, <<>>)
    BY <1>2, <2>1, MessageFront
  <2> QED
    BY <2>2 DEF Begins, Splits
<1> HIDE DEF t
<1>5. Reads(ReadMethodSelection(b), b, method, m)
  BY <1>2, <1>4, ReadsSelection DEF m, Bytes
<1>6. CASE Len(b) >= Len(m)
  <2>1. ReadMethodSelection(b) = Found(method, Len(m))
    BY <1>5, <1>6 DEF Reads
  <2>2. CASE refused
    <3>1. clientState' = "error" /\ channel' = "closed" /\ UNCHANGED toServer
          /\ clientBuffer' = b
      BY <2>1, <2>2 DEF HandleSelectedAuthenticationMethod, Found, NoneRequired
    <3> QED
      BY <1>1, <1>2, <2>2, <3>1, GivingUp DEF Bytes
  <2>3. CASE ~refused
    <3>1. /\ clientState' = "waitingForServerResponse" /\ clientBuffer' = t
          /\ WriteAndFlush(Request) /\ UNCHANGED channel
      BY <2>1, <2>3 DEF HandleSelectedAuthenticationMethod, Found, NoneRequired, Request, t
    <3>2. sent \in Seq(Nat) /\ flushed = Len(sent) /\ Request \in Bytes /\ Up = <<>>
      BY <1>1, <2>3, MessagesAre DEF MethodSent, Between, IInv, Typed
    <3>3. flushed' = Len(sent') /\ toServer' = toServer \o Request
      BY <3>1, <3>2, WrittenAndFlushed
    <3>4. serverBuffer = <<>> /\ toServer = <<>>
      BY <3>2, BytesAre DEF BytesInv
    <3>5. toServer' = Request /\ Up' = Request
      <4>1. <<>> \o Request = Request
        BY <3>2, ConcatEmptySeq DEF Bytes
      <4> QED
        BY <3>3, <3>4, <4>1 DEF Up, serverVars
    <3>6. Down' = <<>>
      BY <1>4, <1>6, <3>1 DEF Down
    <3>7. BytesTyped' /\ ServerHandlers' /\ refused' = refused
      <4>1. received \in Bytes /\ clientBuffer' \in Bytes /\ toClient' \in Bytes
        BY <1>2, <1>4, <1>6, <3>1 DEF BytesInv, BytesTyped, Bytes
      <4> QED
        BY <3>2, <3>5, <4>1, ClientStep
    <3>8. Request' = Request
      BY DEF Request
    <3>9. RequestSent'
      BY <1>1, <2>3, <3>1, <3>3, <3>5, <3>6, <3>8 DEF MethodSent, RequestSent, Between, serverVars
    <3> QED
      BY <2>3, <3>7, <3>9 DEF BytesInv, Succeeding
  <2> QED
    BY <2>2, <2>3
<1>7. CASE ~(Len(b) >= Len(m))
  <2>1. ReadMethodSelection(b) = NeedMore
    BY <1>5, <1>7 DEF Reads
  <2>2. clientBuffer' = b /\ UNCHANGED <<clientState, sent, flushed, toServer, channel>>
    BY <2>1 DEF HandleSelectedAuthenticationMethod, NeedMore
  <2>3. toClient' = rest /\ Down' = Down
    BY <2>2 DEF Down
  <2> QED
    BY <2>2, <2>3, ReadingOn DEF Bytes
<1> QED
  BY <1>6, <1>7

\* The response arrives, in pieces and with data of the tunnel behind it.
LEMMA ResponseIsRead ==
  ASSUME IInv, BytesInv, channel = "active",
         clientState = "waitingForServerResponse",
         NEW b \in Seq(Nat), NEW rest \in Seq(Nat), b \o rest = Down, Down # <<>>,
         HandleServerResponse(b),
         UNCHANGED <<received, serverVars>>,
         toClient' = IF channel' = "closed" THEN <<>> ELSE rest
  PROVE  BytesInv'
<1> DEFINE reply == IF refused THEN 1 ELSE 0
           m == Response(reply)
           d == IF refused THEN <<>> ELSE Data(200, serverCount)
<1>1. IF refused THEN RequestRefused ELSE ResponseSent
  BY ClientAwaits
<1>2. reply \in Nat /\ m \in Seq(Nat) /\ d \in Seq(Nat)
  <2>1. serverCount \in Nat
    BY DEF BytesInv, BytesTyped
  <2>2. Data(200, serverCount) \in Seq(Nat)
    BY <2>1, DataIs DEF Bytes
  <2> QED
    BY <2>2, MessagesAre, EmptySeq DEF Bytes
<1>3. Down = m \o d
  <2>1. CASE refused
    BY <1>1, <1>2, <2>1, ConcatEmptySeq DEF RequestRefused
  <2>2. CASE ~refused
    BY <1>1, <2>2 DEF ResponseSent, Between, Succeeded
  <2> QED
    BY <2>1, <2>2
<1> HIDE DEF m
<1> DEFINE t == SubSeq(b, Len(m) + 1, Len(b))
<1>4. Begins(b, m) /\ (Len(b) >= Len(m) => t \in Seq(Nat) /\ t \o rest = d)
  <2>1. b \o rest = m \o d
    BY <1>3
  <2> HIDE DEF d
  <2>2. Splits(Nat, b, rest, m, d)
    BY <1>2, <2>1, MessageFront
  <2> QED
    BY <2>2 DEF Begins, Splits
<1> HIDE DEF t
<1>5. Reads(ReadServerResponse(b), b, [code |-> reply, address |-> BoundAddress], m)
  <2>1. m = <<5, reply, 0>> \o BoundAddress
    BY DEF m, Response, WriteServerResponse
  <2> HIDE DEF reply
  <2>2. Begins(b, <<5, reply, 0>> \o BoundAddress)
    BY <1>4, <2>1
  <2>3. Reads(ReadHeaded(b), b, [code |-> reply, address |-> BoundAddress],
              <<5, reply, 0>> \o BoundAddress)
    BY <1>2, <2>2, ReadsHeaded, AddressAssumption DEF Bytes
  <2> QED
    BY <2>1, <2>3 DEF ReadServerResponse
<1>6. CASE Len(b) >= Len(m)
  <2>1. ReadServerResponse(b)
          = Found([code |-> reply, address |-> BoundAddress], Len(m))
    BY <1>5, <1>6 DEF Reads
  <2>2. CASE refused
    <3>1. clientState' = "error" /\ channel' = "closed" /\ UNCHANGED toServer
          /\ clientBuffer' = b
      BY <2>1, <2>2 DEF HandleServerResponse, Found, Succeeded
    <3>2. toClient' \in Bytes
      BY <3>1, EmptySeq DEF Bytes
    <3> QED
      BY <1>1, <2>2, <3>1, <3>2, GivingUp DEF Bytes
  <2>3. CASE ~refused
    <3>1. /\ clientState' = "active" /\ clientBuffer' = t
          /\ UNCHANGED <<channel, sent, flushed, toServer>>
      BY <2>1, <2>3 DEF HandleServerResponse, Found, Succeeded, t
    <3>2. toClient' = rest /\ Down' = Data(200, serverCount)
      BY <1>4, <1>6, <2>3, <3>1 DEF Down
    <3>3. Up' = Up
      BY <3>1 DEF Up, serverVars
    <3>4. /\ Up = <<>> /\ received = <<>> /\ serverReceived = <<>>
          /\ flushed = Len(sent) /\ sent = Hello
          /\ messages = Requested /\ serverState = "active"
      BY <1>1, <2>3 DEF ResponseSent, Between, IInv, Phases
    <3>5. received' \o Down' = Data(200, serverCount)
      BY <1>2, <2>3, <3>2, <3>4, ConcatEmptySeq
    <3>6. flushed = HelloLength /\ HelloLength \in Nat
      BY <3>4, HelloIs DEF HelloLength
    <3>7. serverReceived \o Up = SubSeq(sent, HelloLength + 1, flushed)
      <4>1. <<>> \o <<>> = <<>>
        BY EmptySeq, ConcatEmptySeq
      <4>2. SubSeq(sent, HelloLength + 1, HelloLength) = <<>>
        BY <3>6, SubSeqEmpty
      <4> QED
        BY <3>4, <3>6, <4>1, <4>2
    <3>8. BytesTyped' /\ ServerHandlers' /\ refused' = refused
      <4>1. /\ received \in Bytes /\ toServer \in Bytes
            /\ clientBuffer' \in Bytes /\ toClient' \in Bytes
        BY <1>4, <1>6, <3>1, <3>2 DEF BytesInv, BytesTyped, Bytes
      <4> QED
        BY <3>1, <4>1, ClientStep
    <3>9. HelloLength' = HelloLength
      BY DEF HelloLength, Hello
    <3>10. (serverReceived \o Up)' = SubSeq(sent, HelloLength + 1, flushed)'
      BY <3>1, <3>3, <3>7, <3>9 DEF serverVars
    <3>11. HelloLength' <= flushed' /\ flushed' <= Len(sent')
      BY <3>1, <3>4, <3>6, <3>9
    <3>12. Tunnel'
      BY <3>1, <3>4, <3>5, <3>10, <3>11 DEF Tunnel, serverVars
    <3> QED
      BY <2>3, <3>8, <3>12 DEF BytesInv, Succeeding
  <2> QED
    BY <2>2, <2>3
<1>7. CASE ~(Len(b) >= Len(m))
  <2>1. ReadServerResponse(b) = NeedMore
    BY <1>5, <1>7 DEF Reads
  <2>2. clientBuffer' = b /\ UNCHANGED <<clientState, sent, flushed, toServer, channel>>
    BY <2>1 DEF HandleServerResponse, NeedMore
  <2>3. toClient' = rest /\ Down' = Down
    BY <2>2 DEF Down
  <2> QED
    BY <2>2, <2>3, ReadingOn DEF Bytes
<1> QED
  BY <1>6, <1>7

\* Bytes of the server arrive.
LEMMA ChannelReadIsCarried ==
  ASSUME IInv, BytesInv, NEW n \in DOMAIN toClient, ChannelRead(n)
  PROVE  BytesInv'
<1> DEFINE data == SubSeq(toClient, 1, n)
           rest == SubSeq(toClient, n + 1, Len(toClient))
<1>1. channel = "active" /\ stack = <<>> /\ UNCHANGED serverVars
      /\ toClient' = IF channel' = "closed" THEN <<>> ELSE rest
  BY DEF ChannelRead
<1>2. /\ toClient \in Seq(Nat) /\ clientBuffer \in Seq(Nat) /\ received \in Seq(Nat)
      /\ toServer \in Seq(Nat)
  BY DEF BytesInv, BytesTyped, Bytes
<1>3. /\ data \in Seq(Nat) /\ rest \in Seq(Nat)
      /\ clientBuffer \o data \in Seq(Nat) /\ received \o data \in Seq(Nat)
      /\ (clientBuffer \o data) \o rest = Down /\ Down # <<>>
      /\ (received \o data) \o rest = received \o toClient
  <2>1. Arrives(Nat, clientBuffer, toClient, n) /\ Arrives(Nat, received, toClient, n)
    BY <1>2, Arrival
  <2> QED
    BY <2>1 DEF Arrives, Down
<1>4. CASE clientState = "active" \/ handler = "removed"
  <2>1. clientState = "active"
    BY <1>1, <1>4 DEF IInv, Phases
  <2>2. Tunnel /\ ~refused
    BY <2>1, ActiveIsTunnel
  <2>3. clientBuffer = <<>>
    <3>1. ~Has(stack, {"empty"})
      BY <1>1 DEF Has
    <3> QED
      BY <2>1, <3>1 DEF IInv, Leaving
  <2>4. /\ received' = received \o data
        /\ UNCHANGED <<clientBuffer, clientState, channel, sent, flushed, toServer>>
    BY <1>4 DEF ChannelRead
  <2>5. toClient' = rest
    BY <1>1, <2>4
  <2> HIDE DEF data, rest
  <2>6. Down = toClient /\ Down' = rest
    BY <1>2, <1>3, <2>3, <2>4, <2>5, ConcatEmptySeq DEF Down
  <2>7. received' \o Down' = Data(200, serverCount)
    BY <1>1, <1>3, <2>2, <2>4, <2>6 DEF Tunnel
  <2>8. BytesTyped' /\ ServerHandlers' /\ refused' = refused
    BY <1>1, <1>2, <1>3, <2>4, <2>5, ClientStep DEF Bytes
  <2>9. Up' = Up
    BY <1>1, <2>4 DEF Up, serverVars
  <2>10. Tunnel'
    BY <1>1, <2>2, <2>4, <2>7, <2>9 DEF Tunnel, serverVars, HelloLength
  <2> QED
    BY <2>2, <2>8, <2>10 DEF BytesInv, Succeeding
<1>5. CASE ~(clientState = "active" \/ handler = "removed")
  <2>1. UNCHANGED received
    BY <1>5 DEF ChannelRead
  <2>2. clientState \in {"waitingForAuthenticationMethod", "waitingForServerResponse"}
    <3>1. clientState # "inactive"
      BY <1>1, <1>3, ClientAwaits
    <3>2. clientState # "error"
      BY <1>1 DEF IInv, Phases
    <3> QED
      BY <1>5, <3>1, <3>2 DEF IInv, Typed
  <2>3. CASE clientState = "waitingForAuthenticationMethod"
    <3>1. HandleSelectedAuthenticationMethod(clientBuffer \o data)
      BY <1>5, <2>3 DEF ChannelRead
    <3> HIDE DEF data, rest
    <3> QED
      BY <1>1, <1>3, <2>1, <2>3, <3>1, SelectionIsRead
  <2>4. CASE clientState = "waitingForServerResponse"
    <3>1. HandleServerResponse(clientBuffer \o data)
      BY <1>5, <2>4 DEF ChannelRead
    <3> HIDE DEF data, rest
    <3> QED
      BY <1>1, <1>3, <2>1, <2>4, <3>1, ResponseIsRead
  <2> QED
    BY <2>2, <2>3, <2>4
<1> QED
  BY <1>4, <1>5

-----------------------------------------------------------------------------
(* Steps of the server.                                                    *)

\* What the server can be reading when bytes of the client arrive.
LEMMA ServerAwaits ==
  ASSUME BytesInv, Up # <<>>
  PROVE  IF refused THEN Failing /\ serverState \in {"authenticating", "error"}
                    ELSE GreetingSent \/ RequestSent \/ Tunnel
<1>1. CASE refused
  <2>1. Failing
    BY <1>1 DEF BytesInv
  <2> QED
    BY <1>1, <2>1 DEF Failing, MethodRefused, RequestRefused, GivenUp
<1>2. CASE ~refused
  <2>1. Succeeding
    BY <1>2 DEF BytesInv
  <2> QED
    BY <1>2, <2>1 DEF Succeeding, NotBegun, GreetingRead, MethodSent, RequestRead, ResponseSent,
                      Between
<1> QED
  BY <1>1, <1>2

\* Once a server has refused, it only changes what it holds.
LEMMA RefusedStep ==
  ASSUME Failing, UNCHANGED <<clientVars, toClient, serverState>>
  PROVE  Failing'
<1>1. Down' = Down
  BY DEF Down, clientVars
<1> QED
  BY <1>1 DEF Failing, MethodRefused, RequestRefused, GivenUp, clientVars

\* The client's greeting, or its request, is there: the stages that follow.
LEMMA MessageIsRead ==
  ASSUME BytesInv, ~refused,
         UNCHANGED <<clientVars, toClient, serverHandler, serverReceived, serverCount, refused>>,
         Up' = <<>>,
         \/ /\ GreetingSent
            /\ serverState' = "waitingToSendAuthenticationMethod"
            /\ messages' = Append(messages, Greeted[1])
         \/ /\ RequestSent
            /\ serverState' = "waitingToSendResponse"
            /\ messages' = Append(messages, Requested[2])
  PROVE  GreetingRead' \/ RequestRead'
<1>1. Down' = Down
  BY DEF Down, clientVars
<1>2. Append(<<>>, Greeted[1]) = Greeted /\ Append(Greeted, Requested[2]) = Requested
  <2> DEFINE g == [kind |-> "greeting", value |-> <<NoneRequired>>]
             r == [kind |-> "request", value |-> [code |-> 1, address |-> TargetAddress]]
  <2>1. Greeted = <<g>> /\ Requested = <<g, r>>
    BY DEF Greeted, Requested
  <2> HIDE DEF g, r
  <2>2. Greeted[1] = g /\ Requested[2] = r
    BY <2>1
  <2>3. Append(<<>>, g) = <<g>>
    OBVIOUS
  <2>4. Append(<<g>>, r) = <<g, r>>
    <3> DEFINE s == Append(<<g>>, r)
               t == <<g, r>>
    <3>1. /\ <<g>> \in Seq({g, r}) /\ Len(<<g>>) = 1 /\ <<g>>[1] = g
          /\ t \in Seq({g, r}) /\ Len(t) = 2 /\ t[1] = g /\ t[2] = r
      OBVIOUS
    <3>2. /\ s \in Seq({g, r}) /\ Len(s) = Len(<<g>>) + 1
          /\ \A i \in 1..Len(<<g>>) : s[i] = <<g>>[i]
          /\ s[Len(<<g>>) + 1] = r
      BY <3>1, AppendProperties
    <3> HIDE DEF s, t
    <3>3. Len(s) = Len(t) /\ s[1] = t[1] /\ s[2] = t[2]
      BY <3>1, <3>2
    <3>4. s = t
      <4>1. \A i \in 1..Len(s) : s[i] = t[i]
        BY <3>1, <3>3
      <4> QED
        BY <3>1, <3>2, <3>3, <4>1, SeqEqual
    <3> QED
      BY <3>4 DEF s, t
  <2> QED
    BY <2>1, <2>2, <2>3, <2>4
<1>3. CASE GreetingSent /\ serverState' = "waitingToSendAuthenticationMethod"
             /\ messages' = Append(messages, Greeted[1])
  <2>1. messages' = Greeted
    BY <1>2, <1>3 DEF GreetingSent
  <2>2. Greeted' = Greeted
    BY DEF Greeted
  <2> QED
    BY <1>1, <1>3, <2>1, <2>2 DEF GreetingSent, GreetingRead, Between, clientVars
<1>4. CASE RequestSent /\ serverState' = "waitingToSendResponse"
             /\ messages' = Append(messages, Requested[2])
  <2>1. messages' = Requested
    BY <1>2, <1>4 DEF RequestSent
  <2>2. Requested' = Requested
    BY DEF Requested
  <2> QED
    BY <1>1, <1>4, <2>1, <2>2 DEF RequestSent, RequestRead, Between, clientVars
<1> QED
  BY <1>3, <1>4

\* A reader of the server goes through the pieces of message m.
LEMMA ReceiveMessageIsCarried ==
  ASSUME BytesInv, ~refused, NEW b \in Seq(Nat), NEW rest \in Seq(Nat), b \o rest = Up,
         NEW m \in Seq(Nat), Up = m, NEW read, NEW value, NEW kind, NEW next,
         Begins(b, m) => Reads(read, b, value, m),
         ReceiveMessage(read, kind, next, b), toServer' = rest,
         UNCHANGED <<clientVars, toClient, serverHandler, serverReceived, serverCount, refused>>,
         \/ /\ GreetingSent
            /\ next = "waitingToSendAuthenticationMethod"
            /\ [kind |-> kind, value |-> value] = Greeted[1]
         \/ /\ RequestSent
            /\ next = "waitingToSendResponse"
            /\ [kind |-> kind, value |-> value] = Requested[2]
  PROVE  BytesInv'
<1>1. <<>> \in Seq(Nat) /\ m \o <<>> = m
  BY EmptySeq, ConcatEmptySeq
<1>2. Splits(Nat, b, rest, m, <<>>)
  <2>1. b \o rest = m \o <<>>
    BY <1>1
  <2> QED
    BY <1>1, <2>1, MessageFront
<1> DEFINE t == SubSeq(b, Len(m) + 1, Len(b))
<1>3. Begins(b, m) /\ (Len(b) >= Len(m) => t \in Seq(Nat) /\ t \o rest = <<>>)
  BY <1>2 DEF Splits, Begins
<1> HIDE DEF t
<1>4. Reads(read, b, value, m)
  BY <1>3
<1>5. serverHandler = "added" /\ serverState \in {"waitingForClientGreeting",
                                                  "waitingForClientRequest"}
  BY DEF BytesInv, BytesTyped, ServerHandlers, GreetingSent, RequestSent, Between
<1>6. CASE Len(b) >= Len(m)
  <2>1. read = Found(value, Len(m))
    BY <1>4, <1>6 DEF Reads
  <2>2. /\ serverBuffer' = t /\ serverState' = next
        /\ messages' = Append(messages, [kind |-> kind, value |-> value])
    BY <2>1 DEF ReceiveMessage, Found, t
  <2>3. Up' = <<>>
    BY <1>3, <1>6, <2>2 DEF Up
  <2>4. GreetingRead' \/ RequestRead'
    BY <2>2, <2>3, MessageIsRead
  <2>5. BytesTyped' /\ ServerHandlers'
    BY <1>3, <1>5, <1>6, <2>2 DEF BytesInv, BytesTyped, ServerHandlers, Bytes, clientVars
  <2> QED
    BY <2>4, <2>5 DEF BytesInv, Succeeding
<1>7. CASE ~(Len(b) >= Len(m))
  <2>1. read = NeedMore
    BY <1>4, <1>7 DEF Reads
  <2>2. serverBuffer' = b /\ UNCHANGED <<serverState, messages>>
    BY <2>1 DEF ReceiveMessage, NeedMore
  <2>3. Up' = Up /\ Down' = Down
    BY <2>2 DEF Up, Down, clientVars
  <2>4. BytesTyped' /\ ServerHandlers'
    BY <1>5, <2>2 DEF BytesInv, BytesTyped, ServerHandlers, Bytes, clientVars
  <2>5. GreetingSent' \/ RequestSent'
    <3>1. Greeting' = Greeting /\ Request' = Request /\ Greeted' = Greeted
      BY DEF Greeting, Request, Greeted
    <3> QED
      BY <2>2, <2>3, <3>1 DEF GreetingSent, RequestSent, Between, clientVars
  <2> QED
    BY <2>4, <2>5 DEF BytesInv, Succeeding
<1> QED
  BY <1>6, <1>7

\* Bytes of the client arrive.
LEMMA ServerChannelReadIsCarried ==
  ASSUME BytesInv, NEW n \in DOMAIN toServer, ServerChannelRead(n)
  PROVE  BytesInv'
<1> DEFINE data == SubSeq(toServer, 1, n)
           rest == SubSeq(toServer, n + 1, Len(toServer))
           b == serverBuffer \o data
<1>1. /\ UNCHANGED <<clientVars, toClient, serverHandler, serverCount, refused>>
      /\ toServer' = rest
  BY DEF ServerChannelRead
<1>2. /\ toServer \in Seq(Nat) /\ serverBuffer \in Seq(Nat) /\ serverReceived \in Seq(Nat)
      /\ serverHandler \in {"added", "removed"}
  BY DEF BytesInv, BytesTyped, Bytes
<1>3. /\ data \in Seq(Nat) /\ rest \in Seq(Nat) /\ b \in Seq(Nat)
      /\ serverReceived \o data \in Seq(Nat)
      /\ b \o rest = Up /\ Up # <<>>
      /\ (serverReceived \o data) \o rest = serverReceived \o toServer
  <2>1. Arrives(Nat, serverBuffer, toServer, n) /\ Arrives(Nat, serverReceived, toServer, n)
    BY <1>2, Arrival
  <2> QED
    BY <2>1 DEF Arrives, Up
<1>4. Down' = Down
  BY <1>1 DEF Down, clientVars
<1>5. HelloLength' = HelloLength /\ Requested' = Requested
  BY DEF HelloLength, Hello, Requested
<1>6. CASE serverHandler = "removed"
  <2>1. serverState = "active" /\ serverBuffer = <<>>
    BY <1>6 DEF BytesInv, ServerHandlers
  <2>2. Tunnel /\ ~refused
    <3>1. ~refused /\ (GreetingSent \/ RequestSent \/ Tunnel)
      BY <1>3, <2>1, ServerAwaits
    <3> QED
      BY <2>1, <3>1 DEF GreetingSent, RequestSent, Between
  <2>3. /\ serverReceived' = serverReceived \o data
        /\ UNCHANGED <<serverBuffer, serverState, messages>>
    BY <1>6 DEF ServerChannelRead
  <2> HIDE DEF data, rest
  <2>4. Up = toServer /\ Up' = rest
    BY <1>1, <1>2, <1>3, <2>1, <2>3, ConcatEmptySeq DEF Up
  <2>5. serverReceived' \o Up' = SubSeq(sent, HelloLength + 1, flushed)
    BY <1>3, <2>2, <2>3, <2>4 DEF Tunnel
  <2>6. (serverReceived \o Up)' = SubSeq(sent, HelloLength + 1, flushed)'
    BY <1>1, <1>5, <2>5 DEF clientVars
  <2>7. Tunnel'
    BY <1>1, <1>4, <1>5, <2>2, <2>3, <2>6 DEF Tunnel, clientVars
  <2>8. BytesTyped' /\ ServerHandlers'
    BY <1>1, <1>3, <1>6, <2>1, <2>3 DEF BytesInv, BytesTyped, ServerHandlers, Bytes, clientVars
  <2> QED
    BY <1>1, <2>2, <2>7, <2>8 DEF BytesInv, Succeeding
<1>7. CASE serverHandler = "added"
  <2>1. ServerReceives(b) /\ UNCHANGED serverReceived
    BY <1>7 DEF ServerChannelRead
  <2> HIDE DEF data, rest, b
  <2>2. CASE refused
    <3>1. Failing /\ serverState \in {"authenticating", "error"}
      BY <1>3, <2>2, ServerAwaits
    <3>2. serverState' = serverState /\ serverBuffer' \in {b, <<>>}
      <4>1. CASE serverState = "authenticating"
        BY <2>1, <4>1 DEF ServerReceives
      <4>2. CASE serverState = "error"
        BY <2>1, <4>2 DEF ServerReceives
      <4> QED
        BY <3>1, <4>1, <4>2
    <3>3. Failing'
      BY <1>1, <3>1, <3>2, RefusedStep
    <3>4. serverBuffer' \in Bytes /\ toServer' \in Bytes
      BY <1>1, <1>3, <3>2, EmptySeq DEF Bytes
    <3>5. BytesTyped' /\ ServerHandlers'
      BY <1>1, <1>7, <2>1, <3>4 DEF BytesInv, BytesTyped, ServerHandlers, clientVars
    <3> QED
      BY <1>1, <2>2, <3>3, <3>5 DEF BytesInv
  <2>3. CASE ~refused /\ GreetingSent
    <3>1. Up = Greeting /\ Greeting \in Seq(Nat) /\ serverState = "waitingForClientGreeting"
      BY <2>3, MessagesAre DEF GreetingSent, Between, Bytes
    <3>2. ReceiveMessage(ReadClientGreeting(b), "greeting",
                         "waitingToSendAuthenticationMethod", b)
      BY <2>1, <3>1 DEF ServerReceives
    <3>3. Begins(b, Greeting)
            => Reads(ReadClientGreeting(b), b, <<NoneRequired>>, Greeting)
      BY <1>3, ReadsGreeting DEF Bytes
    <3>4. [kind |-> "greeting", value |-> <<NoneRequired>>] = Greeted[1]
      BY DEF Greeted
    <3> QED
      BY <1>1, <1>3, <2>1, <2>3, <3>1, <3>2, <3>3, <3>4, ReceiveMessageIsCarried
  <2>4. CASE ~refused /\ RequestSent
    <3> DEFINE value == [code |-> 1, address |-> TargetAddress]
    <3>1. Up = Request /\ Request \in Seq(Nat) /\ serverState = "waitingForClientRequest"
      BY <2>4, MessagesAre DEF RequestSent, Between, Bytes
    <3>2. ReceiveMessage(ReadClientRequest(b), "request", "waitingToSendResponse", b)
      BY <2>1, <3>1 DEF ServerReceives
    <3>3. Begins(b, Request) => Reads(ReadClientRequest(b), b, value, Request)
      <4>1. Request = <<5, 1, 0>> \o TargetAddress
        BY DEF Request, WriteClientRequest
      <4>2. Begins(b, <<5, 1, 0>> \o TargetAddress)
              => Reads(ReadHeaded(b), b, value, <<5, 1, 0>> \o TargetAddress)
        BY <1>3, ReadsHeaded, AddressAssumption DEF Bytes
      <4> QED
        BY <4>1, <4>2 DEF ReadClientRequest
    <3>4. [kind |-> "request", value |-> value] = Requested[2]
      BY DEF Requested
    <3> HIDE DEF value
    <3> QED
      BY <1>1, <1>3, <2>1, <2>4, <3>1, <3>2, <3>3, <3>4, ReceiveMessageIsCarried
  <2>5. CASE ~refused /\ Tunnel
    <3>1. serverState = "active"
      BY <2>5 DEF Tunnel
    <3>2. serverBuffer' = b /\ UNCHANGED <<serverState, messages>>
      BY <2>1, <3>1 DEF ServerReceives
    <3>3. Up' = Up
      BY <1>1, <1>3, <3>2 DEF Up
    <3>4. (serverReceived \o Up)' = SubSeq(sent, HelloLength + 1, flushed)'
      BY <1>1, <1>5, <2>1, <2>5, <3>3 DEF Tunnel, clientVars
    <3>5. Tunnel'
      BY <1>1, <1>4, <1>5, <2>5, <3>2, <3>4 DEF Tunnel, clientVars
    <3>6. BytesTyped' /\ ServerHandlers'
      BY <1>1, <1>3, <1>7, <2>1, <3>2
         DEF BytesInv, BytesTyped, ServerHandlers, Bytes, clientVars
    <3> QED
      BY <1>1, <2>5, <3>5, <3>6 DEF BytesInv, Succeeding
  <2> QED
    BY <1>3, <2>2, <2>3, <2>4, <2>5, ServerAwaits
<1> QED
  BY <1>2, <1>6, <1>7

\* What the server writes goes behind what is on its way to the client.
LEMMA ServerWritesAre ==
  ASSUME BytesTyped, NEW bytes \in Seq(Nat), ServerWrites(bytes), UNCHANGED clientVars
  PROVE  toClient' \in Bytes /\ (channel' # "closed" => Down' = Down \o bytes)
<1>1. PICK b \in Seq(Nat), c \in Seq(Nat) : b = clientBuffer /\ c = toClient
  BY DEF BytesTyped, Bytes
<1>2. c \o bytes \in Seq(Nat) /\ <<>> \in Seq(Nat)
  BY ConcatProperties, EmptySeq
<1>3. b \o (c \o bytes) = (b \o c) \o bytes
  <2>1. Regroups(Nat, b, c, bytes)
    BY Regrouping
  <2> QED
    BY <2>1 DEF Regroups
<1>4. toClient' = IF channel = "closed" THEN <<>> ELSE c \o bytes
  BY <1>1 DEF ServerWrites
<1>5. clientBuffer' = b /\ channel' = channel
  BY <1>1 DEF clientVars
<1> QED
  BY <1>1, <1>2, <1>3, <1>4, <1>5 DEF Down, Bytes

\* The server selects a method.
LEMMA SelectionIsSent ==
  ASSUME BytesInv, NEW method \in {NoneRequired, 1}, SendAuthenticationMethod(method)
  PROVE  BytesInv'
<1>1. ~refused /\ GreetingRead
  <2>1. serverState = "waitingToSendAuthenticationMethod"
    BY DEF SendAuthenticationMethod
  <2>2. ~Failing
    BY <2>1 DEF Failing, MethodRefused, RequestRefused, GivenUp
  <2> QED
    BY <2>1, <2>2 DEF BytesInv, Succeeding, NotBegun, GreetingSent, MethodSent, RequestSent,
                      RequestRead, ResponseSent, Tunnel, Between
<1>2. /\ UNCHANGED <<clientVars, toServer, serverBuffer, serverHandler, messages,
                     serverReceived, serverCount>>
      /\ ServerWrites(Selection(method))
      /\ serverState' = IF method = 0 THEN "waitingForClientRequest" ELSE "authenticating"
      /\ refused' \in BOOLEAN /\ (method # 0 <=> refused')
  <2>1. refused' \in BOOLEAN /\ (method # NoneRequired <=> refused')
    BY <1>1, Zenon DEF SendAuthenticationMethod
  <2> QED
    BY <2>1 DEF SendAuthenticationMethod, Selection, NoneRequired
<1>3. Selection(method) \in Seq(Nat)
  BY MessagesAre DEF NoneRequired, Bytes
<1>4. toClient' \in Bytes /\ (channel' # "closed" => Down' = Down \o Selection(method))
  BY <1>2, <1>3, ServerWritesAre DEF BytesInv
<1>5. channel' # "closed" => Down' = Selection(method)
  BY <1>1, <1>2, <1>3, <1>4, ConcatEmptySeq DEF GreetingRead, Between, clientVars
<1>6. Up' = Up
  BY <1>2 DEF Up
<1>7. BytesTyped' /\ ServerHandlers'
  <2>1. serverHandler = "added" /\ refused' \in BOOLEAN
    BY <1>1, <1>2 DEF BytesInv, BytesTyped, ServerHandlers, GreetingRead, Between
  <2> QED
    BY <1>2, <1>4, <2>1 DEF BytesInv, BytesTyped, ServerHandlers, clientVars
<1>8. CASE method = 0
  <2>1. Greeted' = Greeted /\ Selection(NoneRequired)' = Selection(NoneRequired)
    BY DEF Greeted, Selection
  <2>2. MethodSent'
    BY <1>1, <1>2, <1>5, <1>6, <1>8, <2>1
       DEF GreetingRead, MethodSent, Between, NoneRequired, clientVars
  <2> QED
    BY <1>2, <1>7, <1>8, <2>2 DEF BytesInv, Succeeding
<1>9. CASE method = 1
  <2>1. Selection(1)' = Selection(1)
    BY DEF Selection
  <2>2. Failing'
    BY <1>1, <1>2, <1>5, <1>9, <2>1
       DEF GreetingRead, MethodRefused, Failing, Between, clientVars
  <2>3. refused'
    BY <1>2, <1>9
  <2> QED
    BY <1>7, <2>2, <2>3 DEF BytesInv
<1> QED
  BY <1>8, <1>9 DEF NoneRequired

\* The server replies to the request.
LEMMA ResponseIsSent ==
  ASSUME BytesInv, NEW reply \in {Succeeded, 1}, SendServerResponse(reply)
  PROVE  BytesInv'
<1>1. ~refused /\ RequestRead
  <2>1. serverState = "waitingToSendResponse"
    BY DEF SendServerResponse
  <2>2. ~Failing
    BY <2>1 DEF Failing, MethodRefused, RequestRefused, GivenUp
  <2> QED
    BY <2>1, <2>2 DEF BytesInv, Succeeding, NotBegun, GreetingSent, GreetingRead, MethodSent,
                      RequestSent, ResponseSent, Tunnel, Between
<1>2. /\ UNCHANGED <<clientVars, toServer, serverBuffer, serverHandler, messages,
                     serverReceived, serverCount>>
      /\ ServerWrites(Response(reply))
      /\ serverState' = IF reply = 0 THEN "active" ELSE "error"
      /\ refused' \in BOOLEAN /\ (reply # 0 <=> refused')
  <2>1. refused' \in BOOLEAN /\ (reply # Succeeded <=> refused')
    BY <1>1, Zenon DEF SendServerResponse
  <2> QED
    BY <2>1 DEF SendServerResponse, Response, Succeeded
<1>3. Response(reply) \in Seq(Nat)
  BY MessagesAre DEF Succeeded, Bytes
<1>4. toClient' \in Bytes /\ (channel' # "closed" => Down' = Down \o Response(reply))
  BY <1>2, <1>3, ServerWritesAre DEF BytesInv
<1>5. channel' # "closed" => Down' = Response(reply)
  BY <1>1, <1>2, <1>3, <1>4, ConcatEmptySeq DEF RequestRead, Between, clientVars
<1>6. Up' = Up
  BY <1>2 DEF Up
<1>7. serverHandler = "added" /\ serverCount = 0 /\ refused' \in BOOLEAN
  BY <1>1, <1>2 DEF BytesInv, BytesTyped, ServerHandlers, RequestRead, Between
<1>8. BytesTyped' /\ ServerHandlers'
  BY <1>2, <1>4, <1>7 DEF BytesInv, BytesTyped, ServerHandlers, clientVars
<1>9. CASE reply = 0
  <2>1. Requested' = Requested
    BY DEF Requested
  <2>2. Response(0) \o Data(200, 0) = Response(0)
    BY <1>3, <1>9, DataIs, ConcatEmptySeq
  <2>3. (Response(Succeeded) \o Data(200, serverCount))' = Response(0)
    BY <1>2, <1>7, <2>2 DEF Succeeded, Response
  <2>4. ResponseSent'
    BY <1>1, <1>2, <1>5, <1>6, <1>9, <2>1, <2>3
       DEF RequestRead, ResponseSent, Between, clientVars
  <2> QED
    BY <1>2, <1>8, <1>9, <2>4 DEF BytesInv, Succeeding
<1>10. CASE reply = 1
  <2>1. Response(1)' = Response(1)
    BY DEF Response
  <2>2. Failing'
    BY <1>1, <1>2, <1>5, <1>10, <2>1
       DEF RequestRead, RequestRefused, Failing, Between, clientVars
  <2>3. refused'
    BY <1>2, <1>10
  <2> QED
    BY <1>8, <2>2, <2>3 DEF BytesInv
<1> QED
  BY <1>9, <1>10 DEF Succeeded

\* A server whose application has the tunnel has granted it.
LEMMA GrantedIs ==
  ASSUME BytesInv, serverState = "active"
  PROVE  ~refused /\ (ResponseSent \/ Tunnel)
<1>1. ~Failing
  BY DEF Failing, MethodRefused, RequestRefused, GivenUp
<1> QED
  BY <1>1 DEF BytesInv, Succeeding, NotBegun, GreetingSent, GreetingRead, MethodSent,
              RequestSent, RequestRead, Between

\* The server's application takes over what its handler holds.
LEMMA TakenOverIsCarried ==
  ASSUME BytesInv, ServerHandlerRemoved
  PROVE  BytesInv'
<1>1. /\ UNCHANGED <<clientVars, toServer, toClient, serverState, messages, serverCount,
                     refused>>
      /\ serverState = "active" /\ serverHandler = "added" /\ serverHandler' = "removed"
      /\ serverReceived' = serverReceived \o serverBuffer /\ serverBuffer' = <<>>
  BY DEF ServerHandlerRemoved
<1>2. ~refused /\ (ResponseSent \/ Tunnel)
  BY <1>1, GrantedIs
<1>3. PICK r \in Seq(Nat), b \in Seq(Nat), c \in Seq(Nat) :
        r = serverReceived /\ b = serverBuffer /\ c = toServer
  BY DEF BytesInv, BytesTyped, Bytes
<1>4. r = <<>> /\ r \o b = b
  <2>1. r = <<>>
    BY <1>1, <1>3 DEF BytesInv, ServerHandlers
  <2> QED
    BY <2>1, ConcatEmptySeq
<1>5. <<>> \in Seq(Nat) /\ <<>> \o c = c /\ r \o (b \o c) = b \o c
  <2>1. b \o c \in Seq(Nat)
    BY ConcatProperties
  <2> QED
    BY <1>4, <2>1, EmptySeq, ConcatEmptySeq
<1>6. serverReceived' = b /\ Up' = c /\ Up = b \o c
  BY <1>1, <1>3, <1>4, <1>5 DEF Up
<1>7. BytesTyped' /\ ServerHandlers'
  BY <1>1, <1>3, <1>5, <1>6 DEF BytesInv, BytesTyped, ServerHandlers, Bytes, clientVars
<1>8. Down' = Down
  BY <1>1 DEF Down, clientVars
<1>9. HelloLength' = HelloLength /\ Requested' = Requested
  BY DEF HelloLength, Hello, Requested
<1>10. CASE Tunnel
  <2>1. (serverReceived \o Up)' = SubSeq(sent, HelloLength + 1, flushed)'
    BY <1>1, <1>3, <1>5, <1>6, <1>9, <1>10 DEF Tunnel, clientVars
  <2>2. Tunnel'
    BY <1>1, <1>8, <1>9, <1>10, <2>1 DEF Tunnel, clientVars
  <2> QED
    BY <1>1, <1>2, <1>7, <2>2 DEF BytesInv, Succeeding
<1>11. CASE ResponseSent
  <2>1. Up = <<>> /\ b = <<>> /\ c = <<>>
    BY <1>3, <1>11, BytesAre DEF BytesInv, ResponseSent, Between
  <2>2. (Response(Succeeded) \o Data(200, serverCount))'
          = Response(Succeeded) \o Data(200, serverCount)
    BY <1>1 DEF Response
  <2>3. ResponseSent'
    BY <1>1, <1>6, <1>8, <1>9, <1>11, <2>1, <2>2 DEF ResponseSent, Between, clientVars
  <2> QED
    BY <1>1, <1>2, <1>7, <2>3 DEF BytesInv, Succeeding
<1> QED
  BY <1>2, <1>10, <1>11

\* The server's application writes.
LEMMA ServerWriteIsCarried ==
  ASSUME BytesInv, ServerWrite
  PROVE  BytesInv'
<1> DEFINE e == <<200 + serverCount + 1>>
<1>1. /\ UNCHANGED <<clientVars, toServer, serverState, serverBuffer, serverHandler, messages,
                     serverReceived, refused>>
      /\ serverHandler = "removed" /\ serverCount' = serverCount + 1 /\ ServerWrites(e)
  BY DEF ServerWrite
<1>2. serverState = "active" /\ serverCount \in Nat
  BY <1>1 DEF BytesInv, BytesTyped, ServerHandlers
<1>3. ~refused /\ (ResponseSent \/ Tunnel)
  BY <1>2, GrantedIs
<1>4. e \in Seq(Nat)
  BY <1>2
<1>5. /\ Data(200, serverCount) \in Seq(Nat)
      /\ Data(200, serverCount) \o e = Data(200, serverCount + 1)
  BY <1>2, DataIs DEF Bytes
<1> HIDE DEF e
<1>6. toClient' \in Bytes /\ (channel' # "closed" => Down' = Down \o e)
  BY <1>1, <1>4, ServerWritesAre DEF BytesInv
<1>7. BytesTyped' /\ ServerHandlers'
  BY <1>1, <1>2, <1>6 DEF BytesInv, BytesTyped, ServerHandlers, clientVars
<1>8. Up' = Up
  BY <1>1 DEF Up
<1>9. HelloLength' = HelloLength /\ Requested' = Requested
  BY DEF HelloLength, Hello, Requested
<1>10. PICK a \in Seq(Nat), d \in Seq(Nat), r \in Seq(Nat), s \in Seq(Nat), f \in Seq(Nat) :
         /\ a = Response(Succeeded) /\ d = Data(200, serverCount)
         /\ r = received /\ s = Down /\ f = e
  <2>1. Response(Succeeded) \in Seq(Nat)
    BY MessagesAre DEF Succeeded, Bytes
  <2>2. received \in Seq(Nat) /\ Down \in Seq(Nat)
    BY BytesAre DEF BytesInv, BytesTyped, Bytes
  <2> QED
    BY <1>4, <1>5, <2>1, <2>2
<1>11. (a \o d) \o f = a \o (d \o f) /\ (r \o s) \o f = r \o (s \o f)
  <2>1. Regroups(Nat, a, d, f)
    BY Regrouping
  <2>2. Regroups(Nat, r, s, f)
    BY Regrouping
  <2> QED
    BY <2>1, <2>2 DEF Regroups
<1>12. channel' = channel /\ received' = received
  BY <1>1 DEF clientVars
<1>13. CASE Tunnel
  <2>1. channel' # "closed" => (received \o Down)' = Data(200, serverCount + 1)
    <3>1. channel # "closed" => r \o s = d
      BY <1>10, <1>13 DEF Tunnel
    <3>2. channel' # "closed" => (received \o Down)' = r \o (s \o f)
      BY <1>6, <1>10, <1>12
    <3> QED
      BY <1>5, <1>10, <1>11, <1>12, <3>1, <3>2
  <2>2. (serverReceived \o Up)' = SubSeq(sent, HelloLength + 1, flushed)'
    BY <1>1, <1>8, <1>9, <1>13 DEF Tunnel, clientVars
  <2>3. Tunnel'
    BY <1>1, <1>9, <1>13, <2>1, <2>2 DEF Tunnel, clientVars
  <2> QED
    BY <1>1, <1>3, <1>7, <2>3 DEF BytesInv, Succeeding
<1>14. CASE ResponseSent
  <2>1. channel' # "closed" => Down' = Response(Succeeded) \o Data(200, serverCount + 1)
    <3>1. channel # "closed" => s = a \o d
      BY <1>10, <1>14 DEF ResponseSent, Between
    <3>2. channel' # "closed" => Down' = s \o f
      BY <1>6, <1>10
    <3> QED
      BY <1>5, <1>10, <1>11, <1>12, <3>1, <3>2
  <2>2. (Response(Succeeded) \o Data(200, serverCount))'
          = Response(Succeeded) \o Data(200, serverCount + 1)
    BY <1>1 DEF Response
  <2>3. ResponseSent'
    BY <1>1, <1>8, <1>9, <1>12, <1>14, <2>1, <2>2 DEF ResponseSent, Between, clientVars
  <2> QED
    BY <1>1, <1>3, <1>7, <2>3 DEF BytesInv, Succeeding
<1> QED
  BY <1>3, <1>13, <1>14

-----------------------------------------------------------------------------
(* Every step.                                                             *)

\* A call of the client's handler that goes on.
LEMMA ContinueIsCarried ==
  ASSUME IInv, HeldInv, BytesInv, Continue
  PROVE  BytesInv'
<1>1. clientState = "active" /\ toClient \in Bytes
  BY DEF IInv, Phases, BytesInv, BytesTyped, Continue, ContinueEmpty, ContinueMarked,
         ContinueRest, ContinueLeave
<1>2. ASSUME ForwardBuffered, bufferedWrites # <<>>
      PROVE  sent' = sent \/ \E x \in Nat : sent' = Append(sent, x)
  <2>1. Head(bufferedWrites) \in Nat
    BY <1>2, HeadTailProperties DEF IInv, Typed
  <2>2. PICK x \in Nat : x = 100 + Head(bufferedWrites)
    BY <2>1
  <2>3. sent' = sent \/ sent' = Append(sent, x)
    BY <1>2, <2>2 DEF ForwardBuffered, Forward
  <2> QED
    BY <2>3
<1>3. CASE ContinueEmpty
  BY <1>3, HandedOnIsCarried
<1>4. CASE ContinueMarked
  <2>1. UNCHANGED <<channel, clientState, clientBuffer, received, toClient, serverVars>>
    BY <1>4 DEF ContinueMarked
  <2>2. CASE mark # 0
    <3>1. ForwardBuffered /\ UNCHANGED <<flushed, toServer>>
      BY <1>4, <2>2 DEF ContinueMarked
    <3>2. bufferedWrites # <<>>
      BY <2>2, EmptySeq, LenProperties DEF IInv, Marks, Typed
    <3> QED
      BY <1>1, <1>2, <2>1, <3>1, <3>2, PassedOnIsCarried
  <2>3. CASE mark = 0
    <3>1. UNCHANGED sent /\ IF handler = "added" THEN FlushNetwork
                                                 ELSE UNCHANGED <<flushed, toServer>>
      BY <1>4, <2>3 DEF ContinueMarked
    <3>2. CASE handler = "added"
      BY <1>1, <2>1, <3>1, <3>2, FlushedIsCarried
    <3>3. CASE handler # "added"
      BY <1>1, <2>1, <3>1, <3>3, Unmoved
    <3> QED
      BY <3>2, <3>3
  <2> QED
    BY <2>2, <2>3
<1>5. CASE ContinueRest
  <2>1. UNCHANGED <<channel, clientState, clientBuffer, received, flushed, toServer, toClient,
                    serverVars>>
    BY <1>5 DEF ContinueRest
  <2>2. (ForwardBuffered /\ bufferedWrites # <<>>) \/ sent' = sent
    BY <1>5 DEF ContinueRest
  <2> QED
    BY <1>1, <1>2, <2>1, <2>2, PassedOnIsCarried
<1>6. CASE ContinueLeave
  BY <1>1, <1>6, Unmoved DEF ContinueLeave
<1> QED
  BY <1>3, <1>4, <1>5, <1>6 DEF Continue

\* A write of the client's application.
LEMMA WriteIsCarried ==
  ASSUME IInv, BytesInv, Write
  PROVE  BytesInv'
<1>1. UNCHANGED <<channel, clientState, clientBuffer, received, flushed, toServer, toClient,
                  serverVars>>
  BY DEF Write
<1>2. handler = "removed" => clientState = "active" \/ channel = "closed"
  BY DEF IInv, Phases
<1>3. 100 + (count + 1) \in Nat
  BY DEF IInv, Typed
<1>4. \/ sent' = sent
      \/ clientState = "active" /\ sent' = Append(sent, 100 + (count + 1))
  BY <1>2 DEF Write, Forward
<1> QED
  BY <1>1, <1>3, <1>4, PassedOnIsCarried

\* A flush by the client's application.
LEMMA FlushIsCarried ==
  ASSUME IInv, BytesInv, Flush
  PROVE  BytesInv'
<1>1. UNCHANGED <<channel, clientState, clientBuffer, received, sent, toClient, serverVars>>
      /\ toClient \in Bytes
  BY DEF Flush, BytesInv, BytesTyped
<1>2. CASE handler = "removed"
  <2>1. clientState = "active" \/ channel = "closed"
    BY <1>2 DEF IInv, Phases
  <2>2. FlushNetwork
    BY <1>2 DEF Flush
  <2> QED
    BY <1>1, <2>1, <2>2, FlushedIsCarried
<1>3. CASE handler # "removed"
  <2>1. UNCHANGED <<flushed, toServer>>
    BY <1>3 DEF Flush
  <2> QED
    BY <1>1, <2>1, Unmoved
<1> QED
  BY <1>2, <1>3

\* At the start nothing was said.
LEMMA InitBytesInv == Init => BytesInv
<1> SUFFICES ASSUME Init PROVE BytesInv
  OBVIOUS
<1>1. <<>> \in Seq(Nat) /\ Len(<<>>) = 0 /\ <<>> \o <<>> = <<>>
  BY EmptySeq, ConcatEmptySeq
<1>2. Up = <<>> /\ Down = <<>>
  BY <1>1 DEF Init, Up, Down
<1>3. NotBegun
  BY <1>1, <1>2 DEF Init, NotBegun, Between
<1>4. BytesTyped /\ ServerHandlers /\ ~refused
  BY <1>1 DEF Init, BytesTyped, ServerHandlers, Bytes
<1> QED
  BY <1>3, <1>4 DEF BytesInv, Succeeding

\* Whatever either side does, and wherever the stream is cut.
LEMMA NextBytesInv == IInv /\ HeldInv /\ BytesInv /\ [Next]_vars => BytesInv'
<1> SUFFICES ASSUME IInv, HeldInv, BytesInv, [Next]_vars PROVE BytesInv'
  OBVIOUS
<1>1. toClient \in Bytes /\ <<>> \in Bytes
  BY EmptySeq DEF BytesInv, BytesTyped, Bytes
<1>2. CASE UNCHANGED vars
  BY <1>1, <1>2, Unmoved DEF vars, clientVars
<1>3. CASE HandlerAdded
  BY <1>3, BegunIsCarried DEF HandlerAdded
<1>4. CASE ChannelActive
  <2>1. UNCHANGED <<channel, clientBuffer, received, toClient, serverVars>>
    BY <1>4 DEF ChannelActive
  <2>2. CASE handler = "added"
    BY <1>4, <2>1, <2>2, BegunIsCarried DEF ChannelActive
  <2>3. CASE handler # "added"
    BY <1>1, <1>4, <2>1, <2>3, Unmoved DEF ChannelActive
  <2> QED
    BY <2>2, <2>3
<1>5. CASE \E n \in DOMAIN toClient : ChannelRead(n)
  BY <1>5, ChannelReadIsCarried
<1>6. CASE Write
  BY <1>6, WriteIsCarried
<1>7. CASE Flush
  BY <1>7, FlushIsCarried
<1>8. CASE RemoveHandler
  BY <1>1, <1>8, Unmoved DEF RemoveHandler
<1>9. CASE Continue
  BY <1>9, ContinueIsCarried
<1>10. CASE Connected
  BY <1>1, <1>10, Unmoved DEF Connected
<1>11. CASE ConnectionLost
  BY <1>1, <1>11, Unmoved DEF ConnectionLost, CloseClient
<1>12. CASE Teardown
  BY <1>1, <1>12, Unmoved DEF Teardown
<1>13. CASE \E n \in DOMAIN toServer : ServerChannelRead(n)
  BY <1>13, ServerChannelReadIsCarried
<1>14. CASE \E method \in {NoneRequired, 1} : SendAuthenticationMethod(method)
  BY <1>14, SelectionIsSent
<1>15. CASE \E reply \in {Succeeded, 1} : SendServerResponse(reply)
  BY <1>15, ResponseIsSent
<1>16. CASE ServerHandlerRemoved
  BY <1>16, TakenOverIsCarried
<1>17. CASE ServerWrite
  BY <1>17, ServerWriteIsCarried
<1> QED
  BY <1>2, <1>3, <1>4, <1>5, <1>6, <1>7, <1>8, <1>9, <1>10, <1>11, <1>12, <1>13, <1>14, <1>15,
     <1>16, <1>17 DEF Next

\* The handshake is always in one of its stages.
LEMMA BytesInvAlways == Spec => []BytesInv
BY InitBytesInv, NextBytesInv, IInvAlways, HeldInvAlways, PTL DEF Spec

-----------------------------------------------------------------------------
(* The tunnel and the agreement of its two sides.                          *)

\* Both directions of the tunnel carry what the applications wrote, in order and once: what
\* comes with the last message of the handshake, what the client's handler holds back while
\* it replays (handleProxyEstablished) and what the server's holds until it is removed too,
\* for any number of writes and however the streams are cut.
THEOREM TunnelCarriesAll == Spec => []TunnelIsTransparent
<1>1. IInv /\ BytesInv => TunnelIsTransparent
  <2> SUFFICES ASSUME IInv, BytesInv PROVE TunnelIsTransparent
    OBVIOUS
  <2>1. PICK r \in Seq(Nat), b \in Seq(Nat), c \in Seq(Nat) :
          r = received /\ b = clientBuffer /\ c = toClient
    BY DEF BytesInv, BytesTyped, Bytes
  <2>2. PICK s \in Seq(Nat), u \in Seq(Nat), v \in Seq(Nat) :
          s = serverReceived /\ u = serverBuffer /\ v = toServer
    BY DEF BytesInv, BytesTyped, Bytes
  <2>3. Regroups(Nat, r, b, c) /\ Regroups(Nat, s, u, v)
    BY Regrouping
  <2>4. ASSUME clientState = "active", channel = "active"
        PROVE  received \o clientBuffer \o toClient = Data(200, serverCount)
    <3>1. received \o Down = Data(200, serverCount)
      BY <2>4, ActiveIsTunnel DEF Tunnel
    <3> QED
      BY <2>1, <2>3, <3>1 DEF Regroups, Down
  <2>5. ASSUME serverState = "active"
        PROVE  serverReceived \o serverBuffer \o toServer
                 = SubSeq(sent, Len(Hello) + 1, flushed)
    <3>1. ResponseSent \/ Tunnel
      BY <2>5, GrantedIs
    <3>2. CASE Tunnel
      <4>1. serverReceived \o Up = SubSeq(sent, HelloLength + 1, flushed)
        BY <3>2 DEF Tunnel
      <4> QED
        BY <2>2, <2>3, <4>1 DEF Regroups, Up, HelloLength
    <3>3. CASE ResponseSent
      <4>1. s = <<>> /\ u = <<>> /\ v = <<>>
        BY <2>2, <3>3, BytesAre DEF BytesInv, ResponseSent, Between
      <4>2. <<>> \o <<>> \o <<>> = <<>>
        BY EmptySeq, ConcatEmptySeq
      <4>3. flushed = Len(Hello) /\ sent = Hello
        BY <3>3 DEF ResponseSent, Between, IInv, Phases
      <4>4. SubSeq(sent, Len(Hello) + 1, flushed) = <<>>
        <5>1. Len(Hello) \in Nat
          BY HelloIs DEF HelloLength
        <5> QED
          BY <4>3, <5>1, SubSeqEmpty
      <4> QED
        BY <2>2, <4>1, <4>2, <4>4
    <3> QED
      BY <3>1, <3>2, <3>3
  <2> QED
    BY <2>4, <2>5 DEF TunnelIsTransparent
<1> QED
  BY <1>1, IInvAlways, BytesInvAlways, PTL

\* The client believes in a tunnel only once the server has granted the request it sent; and
\* a handshake fails on either side only because the server refused, never because of how
\* the bytes arrive (receiveServerResponse, receiveClientRequest): for any two addresses.
THEOREM SidesAgree == Spec => []Agreement
<1>1. BytesInv => Agreement
  <2> SUFFICES ASSUME BytesInv PROVE Agreement
    OBVIOUS
  <2>1. ASSUME clientState = "active" PROVE serverState = "active" /\ messages = Requested
    BY <2>1, ActiveIsTunnel DEF Tunnel
  <2>2. ASSUME clientState = "error" \/ serverState = "error" PROVE refused
    <3>1. SUFFICES ASSUME ~refused PROVE FALSE
      OBVIOUS
    <3>2. Succeeding
      BY <3>1 DEF BytesInv
    <3> QED
      BY <2>2, <3>2 DEF Succeeding, NotBegun, GreetingSent, GreetingRead, MethodSent,
                        RequestSent, RequestRead, ResponseSent, Tunnel, Between
  <2> QED
    BY <2>1, <2>2 DEF Agreement, Requested
<1> QED
  BY <1>1, BytesInvAlways, PTL
=============================================================================
