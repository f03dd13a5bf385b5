------------------------ MODULE RequestResponseProofs ------------------------
(***************************************************************************)
(* The safety of the request/response handlers for any number of requests, *)
(* responses, strays and errors.                                           *)
(*                                                                         *)
(* BufferInv is inductive for every variant: what is buffered is pending,  *)
(* so what is completed can no longer be found, and the outcome of every   *)
(* promise agrees with the state of the handler.  That a promise gets the  *)
(* response to its own request needs Pipeline as well: an ordered handler's *)
(* buffer is the line of requests still to be answered, in their order.    *)
(***************************************************************************)
EXTENDS RequestResponse, SequenceTheorems, TLAPS

-----------------------------------------------------------------------------
(* The buffer of promises.                                                 *)

\* No two promises are found by the same response.
Separate(s) ==
  \A i, j \in DOMAIN s :
    (IF Ordered THEN s[i] = s[j] ELSE IDOf[s[i]] = IDOf[s[j]]) => i = j

\* RemoveAt takes one element out and keeps the others in their order.
LEMMA RemoveAtProperties ==
  ASSUME NEW T, NEW s \in Seq(T), NEW i \in DOMAIN s
  PROVE  /\ RemoveAt(s, i) \in Seq(T)
         /\ Len(RemoveAt(s, i)) = Len(s) - 1
         /\ \A j \in 1..(Len(s) - 1) :
              RemoveAt(s, i)[j] = IF j < i THEN s[j] ELSE s[j + 1]
<1> DEFINE a == SubSeq(s, 1, i - 1)
           b == SubSeq(s, i + 1, Len(s))
<1>1. Len(s) \in Nat /\ DOMAIN s = 1..Len(s) /\ \A j \in 1..Len(s) : s[j] \in T
  BY LenProperties, ElementOfSeq
<1>2. /\ a \in Seq(T)
      /\ Len(a) = i - 1
      /\ \A j \in 1..(i - 1) : a[j] = s[j]
  <2>1. 1 \in Int /\ i - 1 \in Int /\ \A j \in 1..(i - 1) : s[j] \in T
    BY <1>1
  <2> HIDE DEF a
  <2>2. a = SubSeq(s, 1, i - 1)
    BY DEF a
  <2>3. /\ a \in Seq(T)
        /\ Len(a) = IF 1 <= i - 1 THEN i - 1 - 1 + 1 ELSE 0
        /\ \A j \in 1..(i - 1 - 1 + 1) : a[j] = s[1 + j - 1]
    BY <2>1, <2>2, SubSeqProperties
  <2> QED
    BY <1>1, <2>3
<1>3. /\ b \in Seq(T)
      /\ Len(b) = Len(s) - i
      /\ \A j \in 1..(Len(s) - i) : b[j] = s[i + j]
  <2>1. i + 1 \in Int /\ Len(s) \in Int /\ \A j \in (i + 1)..Len(s) : s[j] \in T
    BY <1>1
  <2> HIDE DEF b
  <2>2. b = SubSeq(s, i + 1, Len(s))
    BY DEF b
  <2>3. /\ b \in Seq(T)
        /\ Len(b) = IF i + 1 <= Len(s) THEN Len(s) - (i + 1) + 1 ELSE 0
        /\ \A j \in 1..(Len(s) - (i + 1) + 1) : b[j] = s[i + 1 + j - 1]
    BY <2>1, <2>2, SubSeqProperties
  <2>4. i \in 1..Len(s) /\ Len(s) - (i + 1) + 1 = Len(s) - i
    BY <1>1
  <2>5. Len(b) = Len(s) - i
    BY <1>1, <2>3, <2>4
  <2>6. ASSUME NEW j \in 1..(Len(s) - i) PROVE b[j] = s[i + j]
    <3>1. i + 1 + j - 1 = i + j
      BY <1>1, <2>4
    <3> QED
      BY <2>3, <2>4, <3>1
  <2> QED
    BY <2>3, <2>5, <2>6
<1>4. RemoveAt(s, i) = a \o b
  BY DEF RemoveAt
<1> HIDE DEF a, b
<1>5. /\ a \o b \in Seq(T)
      /\ Len(a \o b) = Len(a) + Len(b)
      /\ \A j \in 1..(Len(a) + Len(b)) :
           (a \o b)[j] = IF j <= Len(a) THEN a[j] ELSE b[j - Len(a)]
  BY <1>2, <1>3, ConcatProperties
<1>6. i \in 1..Len(s) /\ Len(a) + Len(b) = Len(s) - 1
  BY <1>1, <1>2, <1>3
<1>7. ASSUME NEW j \in 1..(Len(s) - 1)
      PROVE  (a \o b)[j] = IF j < i THEN s[j] ELSE s[j + 1]
  <2>1. CASE j < i
    BY <1>1, <1>2, <1>5, <1>6, <2>1
  <2>2. CASE ~(j < i)
    <3>1. /\ (a \o b)[j] = b[j - (i - 1)]
          /\ j - (i - 1) \in 1..(Len(s) - i)
          /\ i + (j - (i - 1)) = j + 1
      BY <1>1, <1>2, <1>5, <1>6, <2>2
    <3> QED
      BY <1>3, <2>2, <3>1
  <2> QED
    BY <2>1, <2>2
<1> QED
  BY <1>4, <1>5, <1>6, <1>7

\* RemoveAt from a buffer whose promises are kept apart.
LEMMA RemoveAtSeparate ==
  ASSUME NEW T, NEW s \in Seq(T), NEW i \in DOMAIN s, Separate(s)
  PROVE  /\ RemoveAt(s, i) \in Seq(T)
         /\ Separate(RemoveAt(s, i))
         /\ ToSet(RemoveAt(s, i)) = ToSet(s) \ {s[i]}
<1> DEFINE t == RemoveAt(s, i)
<1>1. Len(s) \in Nat /\ DOMAIN s = 1..Len(s)
  BY LenProperties
<1>2. /\ t \in Seq(T)
      /\ Len(t) = Len(s) - 1
      /\ \A j \in 1..(Len(s) - 1) : t[j] = IF j < i THEN s[j] ELSE s[j + 1]
  BY RemoveAtProperties
<1> HIDE DEF t
<1>3. DOMAIN t = 1..(Len(s) - 1)
  BY <1>2, LenProperties
<1>4. \A j, k \in DOMAIN s : s[j] = s[k] => j = k
  BY DEF Separate
<1>5. Separate(t)
  <2>1. SUFFICES ASSUME NEW j \in DOMAIN t, NEW k \in DOMAIN t,
                        IF Ordered THEN t[j] = t[k] ELSE IDOf[t[j]] = IDOf[t[k]]
                 PROVE  j = k
    BY DEF Separate
  <2> DEFINE jj == IF j < i THEN j ELSE j + 1
             kk == IF k < i THEN k ELSE k + 1
  <2>2. jj \in DOMAIN s /\ kk \in DOMAIN s /\ t[j] = s[jj] /\ t[k] = s[kk]
    BY <1>1, <1>2, <1>3
  <2>3. jj = kk
    BY <2>1, <2>2 DEF Separate
  <2> QED
    BY <1>1, <1>3, <2>3
<1>6. ASSUME NEW x \in ToSet(t) PROVE x \in ToSet(s) \ {s[i]}
  <2>1. PICK j \in DOMAIN t : t[j] = x
    BY DEF ToSet
  <2>2. PICK k \in DOMAIN s : s[k] = x /\ k # i
    <3>1. CASE j < i
      BY <1>1, <1>2, <1>3, <2>1, <3>1
    <3>2. CASE ~(j < i)
      <4>1. j + 1 \in DOMAIN s /\ j + 1 # i /\ s[j + 1] = x
        BY <1>1, <1>2, <1>3, <2>1, <3>2
      <4> QED
        BY <4>1
    <3> QED
      BY <3>1, <3>2
  <2> QED
    BY <1>4, <2>2 DEF ToSet
<1>7. ASSUME NEW x \in ToSet(s) \ {s[i]} PROVE x \in ToSet(t)
  <2>1. PICK k \in DOMAIN s : s[k] = x /\ k # i
    BY DEF ToSet
  <2>2. PICK j \in DOMAIN t : t[j] = x
    <3>1. CASE k < i
      BY <1>1, <1>2, <1>3, <2>1, <3>1
    <3>2. CASE k > i
      <4>1. k - 1 \in 1..(Len(s) - 1) /\ ~(k - 1 < i) /\ (k - 1) + 1 = k
        BY <1>1, <3>2
      <4> QED
        BY <1>2, <1>3, <2>1, <4>1
    <3> QED
      BY <1>1, <2>1, <3>1, <3>2
  <2> QED
    BY <2>2 DEF ToSet
<1> QED
  BY <1>2, <1>5, <1>6, <1>7 DEF t

\* The head of a sequence is its first element, and the tail is the rest.
LEMMA TailIsRemoveAt ==
  ASSUME NEW T, NEW s \in Seq(T), s # <<>>
  PROVE  1 \in DOMAIN s /\ Head(s) = s[1] /\ Tail(s) = RemoveAt(s, 1)
<1>1. Len(s) \in Nat \ {0} /\ DOMAIN s = 1..Len(s)
  BY EmptySeq, LenProperties
<1>2. SubSeq(s, 1, 0) = <<>>
  BY SubSeqEmpty
<1>3. Tail(s) = SubSeq(s, 2, Len(s))
  BY TailIsSubSeq
<1>4. Tail(s) \in Seq(T)
  BY HeadTailProperties
<1>5. <<>> \o Tail(s) = Tail(s)
  BY <1>4, ConcatEmptySeq
<1>6. RemoveAt(s, 1) = SubSeq(s, 1, 1 - 1) \o SubSeq(s, 1 + 1, Len(s))
  BY DEF RemoveAt
<1>7. 1 - 1 = 0 /\ 1 + 1 = 2
  OBVIOUS
<1>8. RemoveAt(s, 1) = Tail(s)
  BY <1>2, <1>3, <1>5, <1>6, <1>7
<1> QED
  BY <1>1, <1>8

\* Taking out the promise that has an ID.
LEMMA WithoutProperties ==
  ASSUME NEW T, NEW s \in Seq(T), NEW id, Separate(s)
  PROVE  /\ Without(s, id) \in Seq(T)
         /\ Separate(Without(s, id))
         /\ ToSet(Without(s, id)) \subseteq ToSet(s)
         /\ ~Ordered => ToSet(Without(s, id)) = {q \in ToSet(s) : IDOf[q] # id}
<1>1. CASE Keyed(s, id) = {}
  BY <1>1 DEF Without, Keyed, ToSet
<1>2. CASE Keyed(s, id) # {}
  <2>1. PICK i \in Keyed(s, id) : Without(s, id) = RemoveAt(s, i)
    BY <1>2 DEF Without
  <2>2. i \in DOMAIN s /\ IDOf[s[i]] = id
    BY <2>1 DEF Keyed
  <2>3. /\ Without(s, id) \in Seq(T)
        /\ Separate(Without(s, id))
        /\ ToSet(Without(s, id)) = ToSet(s) \ {s[i]}
    BY <2>1, <2>2, RemoveAtSeparate
  <2>4. ASSUME ~Ordered PROVE ToSet(s) \ {s[i]} = {q \in ToSet(s) : IDOf[q] # id}
    BY <2>2, <2>4 DEF ToSet, Separate
  <2> QED
    BY <2>3, <2>4
<1> QED
  BY <1>1, <1>2

\* readResponse takes the promises out that it completes, and no others.
LEMMA RemovePromiseProperties ==
  ASSUME NEW s \in Seq(Requests), NEW p \in Responses,
         Separate(s), Matches(s, p) # {}
  PROVE  /\ RemovePromise(s, p) \in Seq(Requests)
         /\ Separate(RemovePromise(s, p))
         /\ ToSet(RemovePromise(s, p)) = ToSet(s) \ Matches(s, p)
         /\ Matches(s, p) \subseteq Requests
<1>1. ToSet(s) \subseteq Requests
  BY ElementOfSeq, LenProperties DEF ToSet
<1>2. CASE Ordered
  <2>1. s # <<>>
    BY DEF Matches, ToSet
  <2>2. 1 \in DOMAIN s /\ Head(s) = s[1] /\ RemovePromise(s, p) = RemoveAt(s, 1)
    BY <1>2, <2>1, TailIsRemoveAt DEF RemovePromise
  <2>3. Matches(s, p) = {s[1]}
    BY <1>2, <2>2 DEF Matches, ToSet
  <2> QED
    BY <1>1, <2>2, <2>3, RemoveAtSeparate DEF Matches
<1>3. CASE ~Ordered
  <2>1. RemovePromise(s, p) = Without(s, IDOf[p])
    BY <1>3 DEF RemovePromise
  <2>2. ToSet(Without(s, IDOf[p])) = ToSet(s) \ Matches(s, p)
    BY <1>3, WithoutProperties DEF Matches
  <2> QED
    BY <1>1, <2>1, <2>2, WithoutProperties DEF Matches
<1> QED
  BY <1>2, <1>3

\* Insert adds the promise, and a dictionary forgets the one that had its ID.
LEMMA InsertProperties ==
  ASSUME NEW s \in Seq(Requests), NEW r \in Requests, Separate(s), r \notin ToSet(s)
  PROVE  /\ Insert(s, r) \in Seq(Requests)
         /\ Separate(Insert(s, r))
         /\ r \in ToSet(Insert(s, r))
         /\ ToSet(Insert(s, r)) \subseteq ToSet(s) \cup {r}
         /\ \A q \in ToSet(s) : q \in ToSet(Insert(s, r)) \/ IDOf[q] = IDOf[r]
         /\ Ordered => ToSet(Insert(s, r)) = ToSet(s) \cup {r}
<1> DEFINE t == IF Ordered THEN s ELSE Without(s, IDOf[r])
           u == Append(t, r)
<1>1. /\ t \in Seq(Requests)
      /\ Separate(t)
      /\ ToSet(t) \subseteq ToSet(s)
      /\ ~Ordered => ToSet(t) = {q \in ToSet(s) : IDOf[q] # IDOf[r]}
      /\ Ordered => t = s
  BY WithoutProperties
<1>2. Insert(s, r) = u
  BY DEF Insert
<1> HIDE DEF t
<1>3. /\ u \in Seq(Requests)
      /\ Len(u) = Len(t) + 1
      /\ \A i \in 1..Len(t) : u[i] = t[i]
      /\ u[Len(t) + 1] = r
  BY <1>1, AppendProperties
<1>4. Len(t) \in Nat /\ DOMAIN t = 1..Len(t)
  BY <1>1, LenProperties
<1>5. DOMAIN u = 1..(Len(t) + 1)
  BY <1>3, LenProperties
<1> HIDE DEF u
<1>6. ToSet(u) = ToSet(t) \cup {r}
  <2>1. ASSUME NEW x \in ToSet(u) PROVE x \in ToSet(t) \cup {r}
    BY <1>3, <1>4, <1>5 DEF ToSet
  <2>2. ToSet(t) \subseteq ToSet(u)
    BY <1>3, <1>4, <1>5 DEF ToSet
  <2>3. r \in ToSet(u)
    <3>1. Len(t) + 1 \in DOMAIN u
      BY <1>4, <1>5
    <3> QED
      BY <1>3, <3>1 DEF ToSet
  <2> QED
    BY <2>1, <2>2, <2>3
<1>7. Separate(u)
  <2>1. SUFFICES ASSUME NEW i \in DOMAIN u, NEW j \in DOMAIN u,
                        IF Ordered THEN u[i] = u[j] ELSE IDOf[u[i]] = IDOf[u[j]]
                 PROVE  i = j
    BY DEF Separate
  <2>2. \A k \in DOMAIN t : IF Ordered THEN t[k] # r ELSE IDOf[t[k]] # IDOf[r]
    BY <1>1 DEF ToSet
  <2>3. CASE i \in DOMAIN t /\ j \in DOMAIN t
    BY <1>1, <1>3, <1>4, <2>1, <2>3 DEF Separate
  <2>4. CASE ~(i \in DOMAIN t /\ j \in DOMAIN t)
    BY <1>3, <1>4, <1>5, <2>1, <2>2, <2>4
  <2> QED
    BY <2>3, <2>4
<1> QED
  BY <1>1, <1>2, <1>3, <1>6, <1>7

-----------------------------------------------------------------------------
(* The inductive invariant.                                                *)

\* What is buffered is pending, and a handler that is not operational holds nothing.
Waiting ==
  /\ \A r \in ToSet(promiseBuffer) : status[r] = "pending"
  /\ state # "operational" => promiseBuffer = <<>>

\* The handler is in the error state since the first error, unless it was inactive.
ErrorState ==
  /\ state = "operational" => firstError = None
  /\ state = "error" => error \in Errors /\ error = firstError
  /\ state = "inactive" => channel = "inactive"

\* What a promise failed with says what stopped the handler.
Failures ==
  \A r \in Requests : status[r] = "failed" =>
    \/ state = "error" /\ result[r] = error
    \/ /\ state = "inactive"
       /\ result[r] \in {ClosedBeforeReceivingResponse, IOOnClosedChannel}

BufferInv ==
  /\ TypeOK
  /\ Separate(promiseBuffer)
  /\ Waiting
  /\ ErrorState
  /\ Failures

\* Initially the buffer is empty.
LEMMA InitBufferInv == Init => BufferInv
<1> SUFFICES ASSUME Init PROVE BufferInv
  OBVIOUS
<1>1. \A T : <<>> \in Seq(T)
  BY EmptySeq
<1>2. ToSet(<<>>) = {} /\ DOMAIN promiseBuffer = {}
  BY DEF ToSet, Init
<1>3. TypeOK
  BY <1>1 DEF Init, TypeOK
<1>4. Separate(promiseBuffer)
  BY <1>2 DEF Separate
<1> QED
  BY <1>2, <1>3, <1>4 DEF Init, BufferInv, Waiting, ErrorState, Failures

\* write.
LEMMA WriteStep ==
  ASSUME BufferInv, NEW r \in Requests, Write(r)
  PROVE  BufferInv'
<1> USE DEF BufferInv
<1>1. r \notin ToSet(promiseBuffer)
  BY DEF Write, Waiting
<1>2. CASE WriteOperational(r)
  <2>1. /\ promiseBuffer' \in Seq(Requests)
        /\ Separate(promiseBuffer')
        /\ ToSet(promiseBuffer') \subseteq ToSet(promiseBuffer) \cup {r}
    BY <1>1, <1>2, InsertProperties DEF WriteOperational, TypeOK
  <2>2. wire' \in Seq(Requests)
    <3>1. wire \in Seq(Requests) /\ Append(wire, r) \in Seq(Requests)
      BY AppendProperties DEF TypeOK
    <3>2. wire' = Append(wire, r) \/ wire' = wire
      BY <1>2 DEF WriteOperational
    <3> QED
      BY <3>1, <3>2
  <2>3. TypeOK'
    BY <1>2, <2>1, <2>2 DEF Write, WriteOperational, TypeOK
  <2>4. Separate(promiseBuffer)'
    BY <2>1 DEF Write, Separate, Ordered
  <2>5. Waiting'
    <3>1. ToSet(promiseBuffer)' = ToSet(promiseBuffer')
      BY DEF ToSet
    <3>2. state' = "operational" /\ status' = [status EXCEPT ![r] = "pending"]
      BY <1>2 DEF Write, WriteOperational
    <3>3. ToSet(promiseBuffer') \subseteq Requests
      BY <2>1, ElementOfSeq, LenProperties DEF ToSet
    <3>4. \A q \in ToSet(promiseBuffer') : status'[q] = "pending"
      BY <2>1, <3>2, <3>3 DEF Waiting, TypeOK
    <3> QED
      BY <3>1, <3>2, <3>4 DEF Waiting
  <2>6. ErrorState' /\ Failures'
    BY <1>2 DEF Write, WriteOperational, ErrorState, Failures, TypeOK
  <2> QED
    BY <2>3, <2>4, <2>5, <2>6
<1>3. CASE WriteRefused(r)
  <2>1. TypeOK'
    BY <1>3 DEF Write, WriteRefused, Complete, TypeOK
  <2>2. promiseBuffer' = promiseBuffer /\ promiseBuffer = <<>> /\ state' = state
    BY <1>3 DEF Write, WriteRefused, Waiting
  <2>3. Separate(promiseBuffer)' /\ Waiting'
    BY <1>3, <2>2 DEF Separate, Ordered, Waiting, WriteRefused, ToSet
  <2>4. ErrorState' /\ Failures'
    BY <1>3 DEF Write, WriteRefused, Complete, ErrorState, Failures, TypeOK
  <2> QED
    BY <2>1, <2>3, <2>4
<1> QED
  BY <1>2, <1>3 DEF Write

\* channelRead.
LEMMA ReadStep ==
  ASSUME BufferInv, ChannelRead
  PROVE  BufferInv'
<1> USE DEF BufferInv
<1> DEFINE p == Head(inbound)
           matches == Matches(promiseBuffer, p)
<1>1. p \in Responses /\ inbound' \in Seq(Responses)
  BY HeadTailProperties DEF ChannelRead, TypeOK
<1>2. CASE state = "operational" /\ matches # {}
  <2>1. promiseBuffer' = RemovePromise(promiseBuffer, p) /\ Complete(matches, "succeeded", p)
    BY <1>2 DEF ChannelRead
  <2>2. /\ promiseBuffer' \in Seq(Requests)
        /\ Separate(promiseBuffer')
        /\ ToSet(promiseBuffer') = ToSet(promiseBuffer) \ matches
        /\ matches \subseteq Requests
    BY <1>1, <1>2, <2>1, RemovePromiseProperties DEF TypeOK
  <2> HIDE DEF p, matches
  <2>3. TypeOK'
    BY <1>1, <2>1, <2>2 DEF ChannelRead, Complete, TypeOK
  <2>4. Separate(promiseBuffer)'
    BY <2>2 DEF ChannelRead, Separate, Ordered
  <2>5. ToSet(promiseBuffer') \subseteq Requests
    BY <2>2, ElementOfSeq, LenProperties DEF ToSet
  <2>6. Waiting'
    BY <1>2, <2>1, <2>2, <2>5 DEF ChannelRead, Complete, Waiting, ToSet
  <2>7. ErrorState' /\ Failures'
    BY <1>2, <2>1 DEF ChannelRead, Complete, ErrorState, Failures
  <2> QED
    BY <2>3, <2>4, <2>6, <2>7
<1>3. CASE ~(state = "operational" /\ matches # {})
  <2>1. UNCHANGED <<kind, state, error, promiseBuffer, status, result, channel,
                    firstError, wire, strays>>
    BY <1>3 DEF ChannelRead, promiseVars
  <2> QED
    BY <1>1, <2>1 DEF TypeOK, Separate, Ordered, Waiting, ErrorState, Failures, ToSet
<1> QED
  BY <1>2, <1>3

\* FailAll completes exactly what is buffered.
LEMMA FailAllProperties ==
  ASSUME BufferInv, NEW e, FailAll(e)
  PROVE  /\ promiseBuffer' = <<>>
         /\ status' = [r \in Requests |-> IF r \in ToSet(promiseBuffer)
                                            THEN "failed" ELSE status[r]]
         /\ result' = [r \in Requests |-> IF r \in ToSet(promiseBuffer)
                                            THEN e ELSE result[r]]
         /\ \A T : promiseBuffer' \in Seq(T)
         /\ Separate(promiseBuffer)'
         /\ ToSet(promiseBuffer)' = {}
<1>1. promiseBuffer' = <<>>
  BY DEF FailAll
<1> QED
  BY <1>1, EmptySeq DEF FailAll, Complete, Separate, ToSet

\* errorCaught.
LEMMA ErrorStep ==
  ASSUME BufferInv, NEW e \in Errors, ErrorCaught(e)
  PROVE  BufferInv'
<1> USE DEF BufferInv
<1>1. CASE state = "operational"
  <2>1. FailAll(e) /\ state' = "error" /\ error' = e /\ channel' = "closing"
    BY <1>1 DEF ErrorCaught
  <2>2. firstError' = e
    BY <1>1 DEF ErrorCaught, ErrorState
  <2>3. TypeOK'
    BY <2>1, <2>2, FailAllProperties DEF ErrorCaught, peerVars, TypeOK
  <2>4. Separate(promiseBuffer)' /\ Waiting'
    BY <2>1, FailAllProperties DEF Waiting
  <2>5. ErrorState'
    BY <2>1, <2>2 DEF ErrorState
  <2>6. Failures'
    BY <1>1, <2>1, FailAllProperties DEF Failures, TypeOK
  <2> QED
    BY <2>3, <2>4, <2>5, <2>6
<1>2. CASE state # "operational"
  <2>1. /\ UNCHANGED <<kind, state, error, promiseBuffer, status, result, channel>>
        /\ UNCHANGED <<wire, inbound, strays>>
    BY <1>2 DEF ErrorCaught, handlerVars, promiseVars, peerVars
  <2>2. state = "error"
    BY <1>2 DEF ErrorCaught, ErrorState, TypeOK
  <2>3. firstError' = firstError
    BY <2>2, DistinctAssumption DEF ErrorCaught, ErrorState
  <2> QED
    BY <2>1, <2>3 DEF TypeOK, Separate, Ordered, Waiting, ErrorState, Failures, ToSet
<1> QED
  BY <1>1, <1>2

\* channelInactive.
LEMMA InactiveStep ==
  ASSUME BufferInv, ChannelInactive
  PROVE  BufferInv'
<1> USE DEF BufferInv
<1>1. CASE state = "operational"
  <2>1. FailAll(ClosedBeforeReceivingResponse) /\ state' = "inactive" /\ channel' = "inactive"
    BY <1>1 DEF ChannelInactive
  <2>2. TypeOK'
    BY <2>1, FailAllProperties DEF ChannelInactive, peerVars, TypeOK
  <2>3. Separate(promiseBuffer)' /\ Waiting'
    BY <2>1, FailAllProperties DEF Waiting
  <2>4. ErrorState'
    BY <2>1 DEF ErrorState
  <2>5. Failures'
    BY <1>1, <2>1, FailAllProperties DEF Failures, TypeOK
  <2> QED
    BY <2>2, <2>3, <2>4, <2>5
<1>2. CASE state = "error"
  <2>1. /\ UNCHANGED <<kind, state, error, promiseBuffer, status, result, firstError>>
        /\ UNCHANGED <<wire, inbound, strays>>
        /\ channel' = "inactive"
    BY <1>2 DEF ChannelInactive, promiseVars, peerVars
  <2> QED
    BY <2>1 DEF TypeOK, Separate, Ordered, Waiting, ErrorState, Failures, ToSet
<1> QED
  BY <1>1, <1>2 DEF ChannelInactive

\* The peer and the connection do not touch the handler.
LEMMA OutsideStep ==
  ASSUME BufferInv,
         (\E i \in DOMAIN wire : PeerAnswers(i)) \/ (\E p \in Strays : PeerStrays(p))
           \/ ConnectionLost \/ UNCHANGED vars
  PROVE  BufferInv'
<1> USE DEF BufferInv
<1>1. /\ UNCHANGED <<kind, state, error, promiseBuffer, status, result, firstError>>
      /\ \/ channel' = channel
         \/ channel = "active" /\ channel' = "closing"
  <2>1. ASSUME NEW i \in DOMAIN wire, PeerAnswers(i) PROVE <1>1
    BY <2>1 DEF PeerAnswers, handlerVars, promiseVars
  <2>2. ASSUME NEW p \in Strays, PeerStrays(p) PROVE <1>1
    BY <2>2 DEF PeerStrays, handlerVars, promiseVars
  <2>3. CASE ConnectionLost
    BY <2>3 DEF ConnectionLost, handlerVars, promiseVars
  <2>4. CASE UNCHANGED vars
    BY <2>4 DEF vars, handlerVars, promiseVars
  <2> QED
    BY <2>1, <2>2, <2>3, <2>4
<1>2. /\ channel' \in {"active", "closing", "inactive"}
      /\ wire' \in Seq(Requests)
      /\ inbound' \in Seq(Responses)
      /\ strays' \subseteq Strays
  <2>1. ASSUME NEW i \in DOMAIN wire, PeerAnswers(i) PROVE <1>2
    <3>1. wire[i] \in Responses
      BY ElementOfSeq, LenProperties DEF TypeOK, Responses
    <3> QED
      BY <2>1, <3>1, RemoveAtProperties, AppendProperties DEF PeerAnswers, TypeOK
  <2>2. ASSUME NEW p \in Strays, PeerStrays(p) PROVE <1>2
    <3>1. p \in Responses
      BY DEF Responses
    <3> QED
      BY <2>2, <3>1, AppendProperties DEF PeerStrays, TypeOK
  <2>3. CASE ConnectionLost
    BY <2>3, EmptySeq DEF ConnectionLost, TypeOK
  <2>4. CASE UNCHANGED vars
    BY <2>4 DEF vars, peerVars, TypeOK
  <2> QED
    BY <2>1, <2>2, <2>3, <2>4
<1> QED
  BY <1>1, <1>2 DEF TypeOK, Separate, Ordered, Waiting, ErrorState, Failures, ToSet

\* Every step preserves the invariant.
LEMMA NextBufferInv == BufferInv /\ [Next]_vars => BufferInv'
BY WriteStep, ReadStep, ErrorStep, InactiveStep, OutsideStep DEF Next

\* The invariant holds in every state.
THEOREM BufferInvAlways == Spec => []BufferInv
BY InitBufferInv, NextBufferInv, PTL DEF Spec

\* Every variable keeps its type.
THEOREM TypeCorrect == Spec => []TypeOK
<1>1. BufferInv => TypeOK
  BY DEF BufferInv
<1> QED
  BY <1>1, BufferInvAlways, PTL

\* All requests that fail after an error fail with the first error of the channel:
\* whatever errors, closes and writes come together.
THEOREM FirstErrorIsTheError == Spec => []FirstErrorFailsAll
<1>1. BufferInv => FirstErrorFailsAll
  BY DistinctAssumption DEF BufferInv, ErrorState, Failures, FirstErrorFailsAll
<1> QED
  BY <1>1, BufferInvAlways, PTL

-----------------------------------------------------------------------------
(* A promise is completed once.                                            *)

\* What is completed is not in the buffer, and only what is in the buffer or comes
\* with a refused write is completed.
LEMMA StepCompletesOnce ==
  ASSUME BufferInv, [Next]_vars, NEW r \in Requests, status[r] \in {"succeeded", "failed"}
  PROVE  status'[r] = status[r] /\ result'[r] = result[r]
<1>0. /\ r \notin ToSet(promiseBuffer)
      /\ status \in [Requests -> {"unwritten", "pending", "succeeded", "failed"}]
  BY DEF BufferInv, Waiting, TypeOK
<1>1. ASSUME NEW q \in Requests, Write(q) PROVE status'[r] = status[r] /\ result'[r] = result[r]
  BY <1>0, <1>1 DEF Write, WriteOperational, WriteRefused, Complete
<1>2. CASE ChannelRead
  BY <1>0, <1>2 DEF ChannelRead, Complete, Matches, promiseVars
<1>3. ASSUME NEW e \in Errors, ErrorCaught(e)
      PROVE  status'[r] = status[r] /\ result'[r] = result[r]
  BY <1>0, <1>3, FailAllProperties DEF ErrorCaught, promiseVars
<1>4. CASE ChannelInactive
  BY <1>0, <1>4, FailAllProperties DEF ChannelInactive, promiseVars
<1>5. ASSUME NEW i \in DOMAIN wire, PeerAnswers(i)
      PROVE  status'[r] = status[r] /\ result'[r] = result[r]
  BY <1>5 DEF PeerAnswers, promiseVars
<1>6. ASSUME NEW p \in Strays, PeerStrays(p)
      PROVE  status'[r] = status[r] /\ result'[r] = result[r]
  BY <1>6 DEF PeerStrays, promiseVars
<1>7. CASE ConnectionLost
  BY <1>7 DEF ConnectionLost, promiseVars
<1>8. CASE UNCHANGED vars
  BY <1>8 DEF vars, promiseVars
<1> QED
  BY <1>1, <1>2, <1>3, <1>4, <1>5, <1>6, <1>7, <1>8 DEF Next

\* No response and no error reaches a promise that is completed, in any variant and
\* whatever the IDs.
THEOREM CompletesOnce == Spec => CompletedOnce
<1>1. BufferInv /\ [Next]_vars =>
        [\A r \in Requests : status[r] \in {"succeeded", "failed"} =>
           status'[r] = status[r] /\ result'[r] = result[r]]_vars
  BY StepCompletesOnce
<1> QED
  BY <1>1, BufferInvAlways, PTL DEF Spec, CompletedOnce

-----------------------------------------------------------------------------
(* No promise is lost.                                                     *)

\* The buffer forgets nobody: it is a FIFO, or every request has an ID of
\* its own.
Lossless == "withID" \notin Kinds \/ \A r, q \in Requests : IDOf[r] = IDOf[q] => r = q

\* Whoever is pending is buffered.
Kept == \A r \in Requests : status[r] = "pending" => r \in ToSet(promiseBuffer)

\* A step that leaves the buffer and the promises alone keeps them.
LEMMA KeptUnchanged ==
  ASSUME Kept, UNCHANGED <<promiseBuffer, status>>
  PROVE  Kept'
BY DEF Kept, ToSet

\* Every step keeps who is pending in the buffer.
LEMMA NextKept ==
  ASSUME Lossless, BufferInv, Kept, [Next]_vars
  PROVE  Kept'
<1>0. /\ status \in [Requests -> {"unwritten", "pending", "succeeded", "failed"}]
      /\ promiseBuffer \in Seq(Requests)
      /\ Separate(promiseBuffer)
      /\ ToSet(promiseBuffer)' = ToSet(promiseBuffer')
  BY DEF BufferInv, TypeOK, ToSet
<1>1. ASSUME NEW r \in Requests, Write(r) PROVE Kept'
  <2>1. r \notin ToSet(promiseBuffer)
    BY <1>1 DEF BufferInv, Waiting, Write
  <2>2. CASE WriteOperational(r)
    <3>1. \A q \in ToSet(promiseBuffer) \cup {r} : q \in ToSet(Insert(promiseBuffer, r))
      <4>1. ToSet(promiseBuffer) \subseteq Requests
        BY <1>0, ElementOfSeq, LenProperties DEF ToSet
      <4>2. Ordered \/ \A q \in ToSet(promiseBuffer) : IDOf[q] # IDOf[r]
        <5>1. kind \in Kinds
          BY DEF BufferInv, TypeOK
        <5> QED
          BY <2>1, <4>1, <5>1, KindAssumption DEF Lossless, Ordered
      <4> QED
        BY <1>0, <2>1, <4>2, InsertProperties
    <3>2. /\ promiseBuffer' = Insert(promiseBuffer, r)
          /\ status' = [status EXCEPT ![r] = "pending"]
      BY <2>2 DEF WriteOperational
    <3> QED
      BY <1>0, <3>1, <3>2 DEF Kept
  <2>3. CASE WriteRefused(r)
    BY <1>0, <2>3 DEF WriteRefused, Complete, Kept
  <2> QED
    BY <1>1, <2>2, <2>3 DEF Write
<1>2. CASE ChannelRead
  <2> DEFINE p == Head(inbound)
             matches == Matches(promiseBuffer, p)
  <2>1. CASE state = "operational" /\ matches # {}
    <3>1. p \in Responses
      BY <1>2, HeadTailProperties DEF ChannelRead, BufferInv, TypeOK
    <3>2. promiseBuffer' = RemovePromise(promiseBuffer, p) /\ Complete(matches, "succeeded", p)
      BY <1>2, <2>1 DEF ChannelRead
    <3>3. ToSet(promiseBuffer') = ToSet(promiseBuffer) \ matches
      BY <1>0, <2>1, <3>1, <3>2, RemovePromiseProperties
    <3> HIDE DEF matches
    <3> QED
      BY <1>0, <3>2, <3>3 DEF Complete, Kept
  <2>2. CASE ~(state = "operational" /\ matches # {})
    BY <1>2, <2>2, KeptUnchanged DEF ChannelRead, promiseVars
  <2> QED
    BY <2>1, <2>2
<1>3. ASSUME NEW e, FailAll(e) PROVE Kept'
  BY <1>0, <1>3, FailAllProperties DEF Kept
<1>4. ASSUME NEW e \in Errors, ErrorCaught(e) PROVE Kept'
  BY <1>3, <1>4, KeptUnchanged DEF ErrorCaught, handlerVars, promiseVars
<1>5. CASE ChannelInactive
  BY <1>3, <1>5, KeptUnchanged DEF ChannelInactive, promiseVars
<1>6. ASSUME NEW i \in DOMAIN wire, PeerAnswers(i) PROVE Kept'
  BY <1>6, KeptUnchanged DEF PeerAnswers, handlerVars, promiseVars
<1>7. ASSUME NEW p \in Strays, PeerStrays(p) PROVE Kept'
  BY <1>7, KeptUnchanged DEF PeerStrays, handlerVars, promiseVars
<1>8. CASE ConnectionLost
  BY <1>8, KeptUnchanged DEF ConnectionLost, handlerVars, promiseVars
<1>9. CASE UNCHANGED vars
  BY <1>9, KeptUnchanged DEF vars, handlerVars, promiseVars
<1> QED
  BY <1>1, <1>2, <1>4, <1>5, <1>6, <1>7, <1>8, <1>9 DEF Next

\* As long as no two requests share an ID the buffer holds exactly what is pending,
\* so the failures of errorCaught and channelInactive leave nothing behind.
THEOREM NothingForgotten ==
  ASSUME Lossless
  PROVE  Spec => []BufferIsPending
<1>1. Init => Kept
  BY DEF Init, Kept
<1>2. Kept /\ BufferInv /\ [Next]_vars => Kept'
  BY NextKept
<1>3. Kept /\ BufferInv => BufferIsPending
  <2>1. ASSUME BufferInv PROVE ToSet(promiseBuffer) \subseteq Requests
    BY <2>1, ElementOfSeq, LenProperties DEF BufferInv, TypeOK, ToSet
  <2> QED
    BY <2>1 DEF BufferInv, Waiting, Kept, BufferIsPending
<1> QED
  BY <1>1, <1>2, <1>3, BufferInvAlways, PTL DEF Spec

-----------------------------------------------------------------------------
(* Every promise gets the response to its own request.                     *)

\* While an ordered handler works its buffer is the line of unanswered requests.
Line ==
  /\ state = "operational" => channel # "inactive"
  /\ state = "operational" /\ channel = "active" => promiseBuffer = inbound \o wire
  /\ state = "operational" /\ channel = "closing" => inbound = <<>> /\ wire = <<>>
  /\ inbound \in Seq(Requests)

Pipeline == MatchedResponse /\ (Ordered => Line)

\* Taking the head of a line takes it from the first part.
LEMMA LineHead ==
  ASSUME NEW T, NEW a \in Seq(T), NEW b \in Seq(T), a # <<>>
  PROVE  /\ a \o b # <<>>
         /\ Head(a \o b) = Head(a)
         /\ Tail(a \o b) = Tail(a) \o b
<1>1. Len(a) \in Nat \ {0} /\ Len(b) \in Nat
  BY EmptySeq, LenProperties
<1>2. /\ a \o b \in Seq(T)
      /\ Len(a \o b) = Len(a) + Len(b)
      /\ \A i \in 1..(Len(a) + Len(b)) :
           (a \o b)[i] = IF i <= Len(a) THEN a[i] ELSE b[i - Len(a)]
  BY ConcatProperties
<1>3. a \o b # <<>>
  BY ConcatEqualIffEmpty
<1>4. Head(a \o b) = Head(a)
  BY <1>1, <1>2, <1>3, TailIsRemoveAt
<1>5. /\ Tail(a) \in Seq(T)
      /\ Len(Tail(a)) = Len(a) - 1
      /\ \A i \in 1..(Len(a) - 1) : Tail(a)[i] = a[i + 1]
  BY HeadTailProperties
<1>6. /\ Tail(a \o b) \in Seq(T)
      /\ Len(Tail(a \o b)) = Len(a) + Len(b) - 1
      /\ \A i \in 1..(Len(a) + Len(b) - 1) : Tail(a \o b)[i] = (a \o b)[i + 1]
  BY <1>2, <1>3, HeadTailProperties
<1>7. /\ Tail(a) \o b \in Seq(T)
      /\ Len(Tail(a) \o b) = Len(a) - 1 + Len(b)
      /\ \A i \in 1..(Len(a) - 1 + Len(b)) :
           (Tail(a) \o b)[i] = IF i <= Len(a) - 1 THEN Tail(a)[i] ELSE b[i - (Len(a) - 1)]
  BY <1>5, ConcatProperties
<1>8. ASSUME NEW i \in 1..Len(Tail(a \o b))
      PROVE  Tail(a \o b)[i] = (Tail(a) \o b)[i]
  <2>1. i \in 1..(Len(a) - 1 + Len(b)) /\ i + 1 \in 1..(Len(a) + Len(b))
    BY <1>1, <1>6
  <2>2. CASE i <= Len(a) - 1
    BY <1>1, <1>2, <1>5, <1>6, <1>7, <2>1, <2>2
  <2>3. CASE ~(i <= Len(a) - 1)
    <3>1. i + 1 - Len(a) = i - (Len(a) - 1)
      BY <1>1, <2>1
    <3> QED
      BY <1>1, <1>2, <1>6, <1>7, <2>1, <2>3, <3>1
  <2> QED
    BY <2>2, <2>3
<1>9. Tail(a \o b) = Tail(a) \o b
  <2>1. Len(Tail(a \o b)) = Len(Tail(a) \o b)
    BY <1>1, <1>6, <1>7
  <2> QED
    BY <1>6, <1>7, <1>8, <2>1, SeqEqual
<1> QED
  BY <1>3, <1>4, <1>9

\* Moving the head of the second part to the end of the first leaves a line as it is.
LEMMA LineMoves ==
  ASSUME NEW T, NEW a \in Seq(T), NEW b \in Seq(T), b # <<>>
  PROVE  Append(a, b[1]) \o RemoveAt(b, 1) = a \o b
<1>1. 1 \in DOMAIN b /\ Head(b) = b[1] /\ Tail(b) = RemoveAt(b, 1)
  BY TailIsRemoveAt
<1>2. b[1] \in T /\ Tail(b) \in Seq(T) /\ <<b[1]>> \in Seq(T)
  BY <1>1, HeadTailProperties
<1>3. Append(a, b[1]) = a \o <<b[1]>>
  BY <1>2, AppendIsConcat
<1>4. (a \o <<b[1]>>) \o Tail(b) = a \o (<<b[1]>> \o Tail(b))
  BY <1>2, ConcatAssociative
<1>5. <<b[1]>> \o Tail(b) = b
  <2>1. Len(b) \in Nat \ {0}
    BY EmptySeq, LenProperties
  <2>2. SubSeq(b, 1, Len(b)) = <<b[1]>> \o SubSeq(b, 1 + 1, Len(b))
    BY <2>1, SubSeqRecursiveFirst
  <2>3. SubSeq(b, 1, Len(b)) = b
    BY SubSeqFull
  <2>4. Tail(b) = SubSeq(b, 2, Len(b))
    BY TailIsSubSeq
  <2>5. 1 + 1 = 2
    OBVIOUS
  <2> QED
    BY <2>2, <2>3, <2>4, <2>5
<1> QED
  BY <1>1, <1>3, <1>4, <1>5

\* Only channelRead lets a promise succeed.
LEMMA OnlyReadSucceeds ==
  ASSUME BufferInv, [Next]_vars, ~ChannelRead,
         NEW r \in Requests, status[r] # "succeeded"
  PROVE  status'[r] # "succeeded"
<1>1. ASSUME NEW q \in Requests, Write(q) PROVE status'[r] # "succeeded"
  BY <1>1 DEF Write, WriteOperational, WriteRefused, Complete, BufferInv, TypeOK
<1>2. ASSUME NEW e, FailAll(e) PROVE status'[r] # "succeeded"
  BY <1>2 DEF FailAll, Complete
<1>3. ASSUME UNCHANGED promiseVars PROVE status'[r] # "succeeded"
  BY <1>3 DEF promiseVars
<1> QED
  BY <1>1, <1>2, <1>3
     DEF Next, ErrorCaught, ChannelInactive, PeerAnswers, PeerStrays, ConnectionLost, vars

\* channelRead of an ordered handler that works: the response is the one to the oldest
\* request, and the line moves on.
LEMMA ReadLine ==
  ASSUME Ordered, BufferInv, Line, ChannelRead, state = "operational"
  PROVE  /\ channel = "active"
         /\ Matches(promiseBuffer, Head(inbound)) = {Head(inbound)}
         /\ promiseBuffer' = Tail(inbound) \o wire
<1> DEFINE p == Head(inbound)
<1>0. promiseBuffer \in Seq(Requests) /\ wire \in Seq(Requests) /\ inbound \in Seq(Requests)
  BY DEF BufferInv, TypeOK, Line
<1>1. channel = "active" /\ inbound # <<>>
  BY DEF ChannelRead, Line, BufferInv, TypeOK
<1>2. promiseBuffer = inbound \o wire
  BY <1>1 DEF Line
<1>3. /\ promiseBuffer # <<>>
      /\ Head(promiseBuffer) = p
      /\ Tail(promiseBuffer) = Tail(inbound) \o wire
  BY <1>0, <1>1, <1>2, LineHead
<1>4. Matches(promiseBuffer, p) = {p}
  <2>1. 1 \in DOMAIN promiseBuffer /\ Head(promiseBuffer) = promiseBuffer[1]
    BY <1>0, <1>3, TailIsRemoveAt
  <2> QED
    BY <1>3, <2>1 DEF Matches, ToSet
<1>5. promiseBuffer' = RemovePromise(promiseBuffer, p)
  BY <1>4 DEF ChannelRead
<1> QED
  BY <1>1, <1>3, <1>4, <1>5 DEF RemovePromise

\* Every step gives a promise no other response than its own.
LEMMA NextMatched ==
  ASSUME BufferInv, Pipeline, [Next]_vars
  PROVE  MatchedResponse'
<1>0. \A r \in Requests : status[r] \in {"succeeded", "failed"} =>
        status'[r] = status[r] /\ result'[r] = result[r]
  BY StepCompletesOnce
<1>1. kind' = kind
  BY DEF Next, Write, ChannelRead, ErrorCaught, ChannelInactive, PeerAnswers,
         PeerStrays, ConnectionLost, vars
<1>2. SUFFICES ASSUME NEW r \in Requests, status[r] # "succeeded",
                      status'[r] = "succeeded"
               PROVE  /\ result'[r] \in Responses /\ IDOf[result'[r]] = IDOf[r]
                      /\ Ordered => result'[r] = r
  BY <1>0, <1>1 DEF Pipeline, MatchedResponse, Ordered
<1>3. ChannelRead
  BY <1>2, OnlyReadSucceeds
<1> DEFINE p == Head(inbound)
<1>4. p \in Responses
  <2>1. inbound \in Seq(Responses) /\ inbound # <<>>
    BY <1>3 DEF ChannelRead, BufferInv, TypeOK
  <2> QED
    BY <2>1, HeadTailProperties
<1>5. state = "operational" /\ r \in Matches(promiseBuffer, p) /\ result'[r] = p
  BY <1>2, <1>3 DEF ChannelRead, Complete, promiseVars
<1>6. CASE Ordered
  BY <1>3, <1>4, <1>5, <1>6, ReadLine DEF Pipeline
<1>7. CASE ~Ordered
  BY <1>4, <1>5, <1>7 DEF Matches
<1> QED
  BY <1>6, <1>7

\* Every step of an ordered handler keeps the line.
LEMMA NextLine ==
  ASSUME "ordered" \notin Refusing, Ordered, BufferInv, Line, [Next]_vars
  PROVE  Line'
<1>0. wire \in Seq(Requests) /\ inbound \in Seq(Requests)
  BY DEF BufferInv, TypeOK, Line
<1>1. ASSUME NEW r \in Requests, Write(r) PROVE Line'
  <2>1. CASE WriteOperational(r) /\ channel = "active"
    <3>1. promiseBuffer' = Append(promiseBuffer, r) /\ wire' = Append(wire, r)
      BY <2>1 DEF WriteOperational, Insert, Ordered
    <3>2. promiseBuffer = inbound \o wire
      BY <2>1 DEF WriteOperational, Line
    <3>3. Append(inbound \o wire, r) = inbound \o Append(wire, r)
      <4>1. inbound \o wire \in Seq(Requests) /\ <<r>> \in Seq(Requests)
        BY <1>0, ConcatProperties
      <4>2. /\ Append(inbound \o wire, r) = (inbound \o wire) \o <<r>>
            /\ Append(wire, r) = wire \o <<r>>
        BY <1>0, <4>1, AppendIsConcat
      <4> QED
        BY <1>0, <4>1, <4>2, ConcatAssociative
    <3> QED
      BY <1>1, <2>1, <3>1, <3>2, <3>3 DEF Write, Line
  <2>2. CASE WriteOperational(r) /\ channel # "active"
    BY <1>1, <2>2 DEF Write, WriteOperational, Line
  <2>3. CASE WriteRefused(r)
    BY <1>1, <2>3 DEF Write, WriteRefused, Line
  <2> QED
    BY <1>1, <2>1, <2>2, <2>3 DEF Write
<1>2. CASE ChannelRead
  <2>1. inbound' \in Seq(Requests)
    BY <1>0, <1>2, HeadTailProperties DEF ChannelRead
  <2>2. CASE state = "operational"
    BY <1>2, <2>1, <2>2, ReadLine DEF ChannelRead, Line
  <2>3. CASE state # "operational"
    BY <1>2, <2>1, <2>3 DEF ChannelRead, Line
  <2> QED
    BY <2>2, <2>3
<1>3. ASSUME NEW e \in Errors, ErrorCaught(e) PROVE Line'
  BY <1>0, <1>3 DEF ErrorCaught, handlerVars, peerVars, Line
<1>4. CASE ChannelInactive
  BY <1>0, <1>4 DEF ChannelInactive, peerVars, Line
<1>5. ASSUME NEW i \in DOMAIN wire, PeerAnswers(i) PROVE Line'
  <2>1. i = 1 /\ wire # <<>>
    <3>1. Len(wire) \in Nat /\ DOMAIN wire = 1..Len(wire)
      BY <1>0, LenProperties
    <3> QED
      BY <1>5, <3>1, EmptySeq DEF PeerAnswers, Answerable
  <2>2. inbound' \o wire' = inbound \o wire
    BY <1>0, <1>5, <2>1, LineMoves DEF PeerAnswers
  <2>3. inbound' \in Seq(Requests)
    <3>1. wire[1] \in Requests
      BY <1>0, <1>5, <2>1, ElementOfSeq, LenProperties
    <3> QED
      BY <1>0, <1>5, <2>1, <3>1, AppendProperties DEF PeerAnswers
  <2> QED
    BY <1>5, <2>1, <2>2, <2>3 DEF PeerAnswers, handlerVars, Line
<1>6. ASSUME NEW p \in Strays, PeerStrays(p) PROVE Line'
  BY <1>6 DEF PeerStrays
<1>7. CASE ConnectionLost
  BY <1>7, EmptySeq DEF ConnectionLost, handlerVars, Line
<1>8. CASE UNCHANGED vars
  BY <1>8 DEF vars, handlerVars, peerVars, Line
<1> QED
  BY <1>1, <1>2, <1>3, <1>4, <1>5, <1>6, <1>7, <1>8 DEF Next

\* Every promise that succeeds has the response to its own request, however many are
\* pipelined, whatever IDs they share and whatever errors, closes and strays come.  Of
\* the ordered handlers this needs what they require: answers in order, and no handler
\* that refuses a request after its promise was buffered.
THEOREM EveryResponseMatches ==
  ASSUME "ordered" \notin Refusing
  PROVE  Spec => []MatchedResponse
<1>1. Init => Pipeline
  <2>1. <<>> \o <<>> = <<>> /\ <<>> \in Seq(Requests)
    BY ConcatEmptySeq, EmptySeq
  <2> QED
    BY <2>1 DEF Init, Pipeline, Line, MatchedResponse
<1>2. Pipeline /\ BufferInv /\ [Next]_vars => Pipeline'
  <2>1. kind' = kind \/ ~[Next]_vars
    BY DEF Next, Write, ChannelRead, ErrorCaught, ChannelInactive, PeerAnswers,
           PeerStrays, ConnectionLost, vars
  <2> QED
    BY <2>1, NextMatched, NextLine DEF Pipeline, Ordered
<1>3. Pipeline => MatchedResponse
  BY DEF Pipeline
<1> QED
  BY <1>1, <1>2, <1>3, BufferInvAlways, PTL DEF Spec

=============================================================================
