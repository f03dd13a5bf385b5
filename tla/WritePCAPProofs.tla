--------------------------- MODULE WritePCAPProofs ---------------------------
(***************************************************************************)
(* The capture is the conversation, the ring holds its end and the file    *)
(* its beginning, for any numbers of bytes, limits and widths.             *)
(***************************************************************************)
EXTENDS WritePCAP, SequenceTheorems, WellFoundedInduction, TLAPS

-----------------------------------------------------------------------------
(* Induction, and sequences of sequences.                                  *)

\* Induction over the natural numbers, told of a set.
LEMMA Induction ==
  ASSUME NEW S, 0 \in S, \A n \in Nat : n \in S => n + 1 \in S
  PROVE  Nat \subseteq S
  <1> DEFINE T == Nat \ S
             R == OpToRel(<, Nat)
  <1> SUFFICES ASSUME T # {} PROVE FALSE
    OBVIOUS
  <1>1. IsWellFoundedOn(R, Nat)
    BY NatLessThanWellFounded
  <1> HIDE DEF R
  <1>2. PICK x \in T : \A y \in T : ~(<<y, x>> \in R)
    BY <1>1, WFMin
  <1>3. x \in Nat /\ x # 0
    OBVIOUS
  <1>4. <<x - 1, x>> \in R
    BY <1>3 DEF R, OpToRel
  <1>5. x - 1 \in Nat /\ x - 1 \in S
    BY <1>2, <1>3, <1>4
  <1> QED BY <1>3, <1>5

\* Up to a bound.
LEMMA BoundedInduction ==
  ASSUME NEW n \in Nat, NEW S, 0 \in S, \A k \in 1..n : k - 1 \in S => k \in S
  PROVE  0..n \subseteq S
  <1> DEFINE T == {k \in Nat : k <= n => k \in S}
  <1>1. 0 \in T
    OBVIOUS
  <1>2. ASSUME NEW k \in Nat, k \in T
        PROVE  k + 1 \in T
    <2>1. CASE k + 1 <= n
      <3>1. k + 1 \in 1..n /\ k <= n /\ (k + 1) - 1 = k
        BY <2>1
      <3> QED BY <1>2, <3>1
    <2> QED BY <2>1
  <1> HIDE DEF T
  <1>3. Nat \subseteq T
    BY <1>1, <1>2, Induction
  <1> QED BY <1>3 DEF T

\* f concatenates the sequences of ss one by one.
Concatenates(f, ss) ==
  f[0] = <<>> /\ \A i \in 1..Len(ss) : f[i] = f[i - 1] \o ss[i]

\* FlattenSeq is what concatenating one by one comes to.
LEMMA FlattenIs ==
  ASSUME NEW S, NEW ss \in Seq(Seq(S)), NEW f \in [0..Len(ss) -> Seq(S)],
         Concatenates(f, ss)
  PROVE  FlattenSeq(ss) = f[Len(ss)]
  <1> DEFINE n == Len(ss)
             Eq(g) == g = [i \in 1..n |-> IF i = 1 THEN ss[i] ELSE g[i - 1] \o ss[i]]
             h == CHOOSE g : Eq(g)
             k == [i \in 1..n |-> f[i]]
  <1>1. n \in Nat
    BY LenProperties
  <1>2. CASE n = 0
    <2>1. ss = <<>>
      BY <1>2
    <2> QED BY <1>2, <2>1 DEF FlattenSeq, Concatenates
  <1>3. CASE n # 0
    <2>1. FlattenSeq(ss) = h[n]
      BY <1>3 DEF FlattenSeq
    <2>2. Eq(k)
      <3> SUFFICES ASSUME NEW i \in 1..n
                   PROVE  f[i] = IF i = 1 THEN ss[i] ELSE k[i - 1] \o ss[i]
        OBVIOUS
      <3>1. f[i] = f[i - 1] \o ss[i]
        BY DEF Concatenates
      <3>2. CASE i = 1
        <4>1. f[i - 1] = <<>> /\ ss[i] \in Seq(S)
          BY <1>1, <3>2 DEF Concatenates
        <4> QED BY <3>1, <3>2, <4>1
      <3>3. CASE i # 1
        <4>1. i - 1 \in 1..n
          BY <1>1, <3>3
        <4> QED BY <3>1, <3>3, <4>1
      <3> QED BY <3>2, <3>3
    <2> HIDE DEF k
    <2>3. Eq(h)
      <3>1. \E g : Eq(g)
        BY <2>2
      <3> QED BY <3>1
    <2> HIDE DEF h
    <2> DEFINE T == {i \in 0..n : i # 0 => h[i] = f[i]}
    <2>4. 0 \in T
      BY <1>1
    <2>5. ASSUME NEW i \in 1..n, i - 1 \in T
          PROVE  i \in T
      <3>1. h[i] = IF i = 1 THEN ss[i] ELSE h[i - 1] \o ss[i]
        BY <2>3
      <3>2. f[i] = f[i - 1] \o ss[i]
        BY DEF Concatenates
      <3>3. CASE i = 1
        <4>1. f[i - 1] = <<>> /\ ss[i] \in Seq(S)
          BY <1>1, <3>3 DEF Concatenates
        <4>2. h[i] = f[i]
          BY <3>1, <3>2, <3>3, <4>1
        <4> QED BY <1>1, <4>2
      <3>4. CASE i # 1
        <4>1. h[i - 1] = f[i - 1]
          BY <1>1, <2>5, <3>4
        <4>2. h[i] = f[i]
          BY <3>1, <3>2, <3>4, <4>1
        <4> QED BY <1>1, <4>2
      <3> QED BY <3>3, <3>4
    <2> HIDE DEF T
    <2>6. 0..n \subseteq T
      BY <1>1, <2>4, <2>5, BoundedInduction
    <2>7. n \in T
      BY <1>1, <2>6
    <2> QED BY <1>3, <2>1, <2>7 DEF T
  <1> QED BY <1>2, <1>3

\* Any sequences can be concatenated one by one.
LEMMA Concatenation ==
  ASSUME NEW S, NEW ss \in Seq(Seq(S))
  PROVE  \E f \in [0..Len(ss) -> Seq(S)] : Concatenates(f, ss)
  <1> DEFINE n == Len(ss)
             F == [0..n -> Seq(S)]
             Upto(f, i) == f[0] = <<>> /\ \A j \in 1..i : f[j] = f[j - 1] \o ss[j]
             T == {i \in 0..n : \E f \in F : Upto(f, i)}
  <1>1. n \in Nat /\ \A i \in 1..n : ss[i] \in Seq(S)
    BY LenProperties, ElementOfSeq
  <1> HIDE DEF n
  <1>2. 0 \in T
    <2> DEFINE f == [i \in 0..n |-> <<>>]
    <2>1. f \in F
      BY EmptySeq
    <2>2. Upto(f, 0) /\ 0 \in 0..n
      BY <1>1
    <2> HIDE DEF f, Upto
    <2> QED BY <2>1, <2>2
  <1>3. ASSUME NEW i \in 1..n, i - 1 \in T
        PROVE  i \in T
    <2>1. PICK f \in F : Upto(f, i - 1)
      BY <1>3
    <2> DEFINE x == f[i - 1] \o ss[i]
               g == [j \in 0..n |-> IF j = i THEN x ELSE f[j]]
    <2>2. i \in 0..n /\ i - 1 \in 0..n /\ i # 0 /\ 0 \in 0..n
      BY <1>1
    <2>3. x \in Seq(S)
      BY <1>1, <2>2, ConcatProperties
    <2>4. g \in F
      BY <2>3
    <2>5. g[0] = <<>>
      BY <2>1, <2>2
    <2>6. ASSUME NEW j \in 1..i
          PROVE  g[j] = g[j - 1] \o ss[j]
      <3>1. CASE j = i
        <4>1. g[i] = x /\ g[i - 1] = f[i - 1]
          <5> HIDE DEF x
          <5> QED BY <1>1, <2>2
        <4> QED BY <3>1, <4>1
      <3>2. CASE j # i
        <4>1. j \in 1..(i - 1) /\ j \in 0..n /\ j - 1 \in 0..n /\ j - 1 # i
          BY <1>1, <3>2
        <4>2. g[j] = f[j] /\ g[j - 1] = f[j - 1]
          BY <3>2, <4>1
        <4> QED BY <2>1, <4>1, <4>2
      <3> QED BY <3>1, <3>2
    <2>7. Upto(g, i)
      BY <2>5, <2>6
    <2> QED BY <2>2, <2>4, <2>7
  <1> HIDE DEF T
  <1>4. n \in T
    <2>1. 0..n \subseteq T
      BY <1>1, <1>2, <1>3, BoundedInduction
    <2> QED BY <1>1, <2>1
  <1>5. PICK f \in F : Upto(f, n)
    BY <1>4 DEF T
  <1> QED BY <1>5 DEF Concatenates, n

\* Nothing to concatenate.
LEMMA FlattenEmpty == FlattenSeq(<<>>) = <<>>
  BY DEF FlattenSeq

\* One more sequence at the end.
LEMMA FlattenAppend ==
  ASSUME NEW S, NEW ss \in Seq(Seq(S)), NEW s \in Seq(S)
  PROVE  FlattenSeq(Append(ss, s)) = FlattenSeq(ss) \o s
  <1> DEFINE n == Len(ss)
             tt == Append(ss, s)
  <1>1. PICK f \in [0..n -> Seq(S)] : Concatenates(f, ss)
    BY Concatenation
  <1>2. /\ n \in Nat
        /\ tt \in Seq(Seq(S)) /\ Len(tt) = n + 1 /\ tt[n + 1] = s
        /\ \A i \in 1..n : tt[i] = ss[i]
    BY LenProperties, AppendProperties
  <1> DEFINE x == f[n] \o s
             g == [i \in 0..(n + 1) |-> IF i <= n THEN f[i] ELSE x]
  <1>3. f[n] \in Seq(S) /\ x \in Seq(S)
    BY <1>1, <1>2, ConcatProperties
  <1> HIDE DEF n, x
  <1>4. g \in [0..(n + 1) -> Seq(S)]
    BY <1>2, <1>3
  <1>5. /\ \A i \in 0..n : g[i] = f[i]
        /\ g[n + 1] = x
    BY <1>2
  <1> HIDE DEF g, tt
  <1>6. Concatenates(g, tt)
    <2>1. g[0] = <<>>
      BY <1>1, <1>2, <1>5 DEF Concatenates
    <2>2. ASSUME NEW i \in 1..(n + 1)
          PROVE  g[i] = g[i - 1] \o tt[i]
      <3>1. CASE i = n + 1
        <4>1. g[i - 1] = f[n] /\ g[i] = x
          BY <1>2, <1>5, <3>1
        <4> QED BY <1>2, <3>1, <4>1 DEF x
      <3>2. CASE i # n + 1
        <4>1. i \in 1..n /\ i \in 0..n /\ i - 1 \in 0..n
          BY <1>2, <3>2
        <4> QED BY <1>1, <1>2, <1>5, <4>1 DEF Concatenates, n
      <3> QED BY <3>1, <3>2
    <2> QED BY <1>2, <2>1, <2>2 DEF Concatenates
  <1>7. FlattenSeq(tt) = x
    BY <1>2, <1>4, <1>5, <1>6, FlattenIs
  <1>8. FlattenSeq(ss) = f[n]
    BY <1>1, FlattenIs DEF n
  <1> QED BY <1>7, <1>8 DEF tt, x

\* The elements stay what they were.
LEMMA FlattenType ==
  ASSUME NEW S, NEW ss \in Seq(Seq(S))
  PROVE  FlattenSeq(ss) \in Seq(S)
  <1>1. PICK f \in [0..Len(ss) -> Seq(S)] : Concatenates(f, ss)
    BY Concatenation
  <1>2. Len(ss) \in 0..Len(ss)
    BY LenProperties
  <1> QED BY <1>1, <1>2, FlattenIs

\* Appending and concatenating.
LEMMA ConcatAppend ==
  ASSUME NEW S, NEW s \in Seq(S), NEW p \in Seq(S), NEW e \in S
  PROVE  s \o Append(p, e) = Append(s \o p, e)
  OBVIOUS

\* If FlattenSeq splits at a place, it does one element later.
LEMMA FlattenNext ==
  ASSUME NEW S, NEW ss \in Seq(Seq(S)), NEW p \in Seq(Seq(S)), NEW t \in Seq(S),
         FlattenSeq(ss \o p) = FlattenSeq(ss) \o FlattenSeq(p)
  PROVE  FlattenSeq(ss \o Append(p, t)) = FlattenSeq(ss) \o FlattenSeq(Append(p, t))
  <1>1. PICK x \in Seq(S), y \in Seq(S) : x = FlattenSeq(ss) /\ y = FlattenSeq(p)
    BY FlattenType
  <1>2. PICK q \in Seq(Seq(S)) : q = ss \o p
    BY ConcatProperties
  <1>3. ss \o Append(p, t) = Append(q, t)
    BY <1>2
  <1>4. (x \o y) \o t = x \o (y \o t)
    OBVIOUS
  <1>5. FlattenSeq(Append(q, t)) = (x \o y) \o t
    BY <1>1, <1>2, FlattenAppend
  <1>6. FlattenSeq(Append(p, t)) = y \o t
    BY <1>1, FlattenAppend
  <1> QED BY <1>1, <1>3, <1>4, <1>5, <1>6

\* FlattenSeq distributes over concatenation.
LEMMA FlattenConcat ==
  ASSUME NEW S, NEW ss \in Seq(Seq(S)), NEW tt \in Seq(Seq(S))
  PROVE  FlattenSeq(ss \o tt) = FlattenSeq(ss) \o FlattenSeq(tt)
  <1> DEFINE part(i) == SubSeq(tt, 1, i)
             Splits(r) == FlattenSeq(ss \o r) = FlattenSeq(ss) \o FlattenSeq(r)
             T == {i \in 0..Len(tt) : Splits(part(i))}
  <1>1. Len(tt) \in Nat
    BY LenProperties
  <1>2. Splits(part(0))
    <2>1. part(0) = <<>>
      BY SubSeqEmpty
    <2>2. ss \o <<>> = ss /\ FlattenSeq(ss) \o <<>> = FlattenSeq(ss)
      BY ConcatEmptySeq, FlattenType
    <2> QED BY <2>1, <2>2, FlattenEmpty
  <1>3. ASSUME NEW i \in 1..Len(tt), Splits(part(i - 1))
        PROVE  Splits(part(i))
    <2>1. /\ tt[i] \in Seq(S)
          /\ part(i - 1) \in Seq(Seq(S))
      BY <1>1, ElementOfSeq, SubSeqProperties
    <2>2. part(i) = part(i - 1) \o <<tt[i]>>
      BY <1>1, SubSeqRecursiveSecond
    <2> HIDE DEF part
    <2>3. part(i) = Append(part(i - 1), tt[i])
      BY <2>1, <2>2, AppendIsConcat
    <2> QED BY <1>3, <2>1, <2>3, FlattenNext
  <1> HIDE DEF Splits
  <1>4. Len(tt) \in T
    <2>1. 0 \in T
      BY <1>1, <1>2
    <2>2. \A i \in 1..Len(tt) : i - 1 \in T => i \in T
      BY <1>1, <1>3
    <2> HIDE DEF T
    <2>3. 0..Len(tt) \subseteq T
      BY <1>1, <2>1, <2>2, BoundedInduction
    <2> QED BY <1>1, <2>3
  <1>5. part(Len(tt)) = tt
    BY SubSeqFull
  <1> QED BY <1>4, <1>5 DEF Splits
-----------------------------------------------------------------------------
(* Totals.                                                                 *)

\* A set of numbers up to a bound has a largest element.
LEMMA HasLargest ==
  ASSUME NEW n \in Nat, NEW t \in SUBSET (0..n), t # {}
  PROVE  \E m \in t : \A x \in t : m >= x
  <1> DEFINE T == {k \in 0..n : (\E x \in t : x >= n - k) => \E m \in t : \A x \in t : m >= x}
  <1>1. 0 \in T
    OBVIOUS
  <1>2. ASSUME NEW k \in 1..n, k - 1 \in T
        PROVE  k \in T
    <2>1. CASE \E x \in t : x >= n - (k - 1)
      BY <1>2, <2>1
    <2>2. CASE ~ \E x \in t : x >= n - (k - 1)
      <3>1. \A x \in t : x <= n - k
        BY <2>2
      <3> QED BY <3>1
    <2> QED BY <2>1, <2>2
  <1> HIDE DEF T
  <1>3. n \in T
    <2>1. 0..n \subseteq T
      BY <1>1, <1>2, BoundedInduction
    <2> QED BY <2>1
  <1>4. \E x \in t : x >= n - n
    <2>1. PICK x \in t : x \in 0..n
      OBVIOUS
    <2> QED BY <2>1
  <1> QED BY <1>3, <1>4 DEF T

\* Max is it.
LEMMA MaxIs ==
  ASSUME NEW n \in Nat, NEW t \in SUBSET (0..n), t # {}
  PROVE  Max(t) \in t /\ \A x \in t : x <= Max(t)
  <1> DEFINE Bounds(m) == m \in t /\ \A x \in t : m >= x
  <1>1. \E m \in t : Bounds(m)
    BY HasLargest
  <1>2. Max(t) = CHOOSE m \in t : \A x \in t : m >= x
    BY DEF Max
  <1>3. Bounds(Max(t))
    BY <1>1, <1>2
  <1> QED BY <1>3

\* Min is the smallest element.
LEMMA MinIs ==
  ASSUME NEW n \in Nat, NEW t \in SUBSET (0..n), t # {}
  PROVE  Min(t) \in t /\ \A x \in t : Min(t) <= x
  <1> DEFINE u == {n - x : x \in t}
             Bounds(m) == m \in t /\ \A x \in t : m <= x
  <1>1. u \in SUBSET (0..n) /\ u # {}
    OBVIOUS
  <1>2. PICK k \in u : \A x \in u : k >= x
    <2> HIDE DEF u
    <2> QED BY <1>1, HasLargest
  <1>3. \A x \in t : k >= n - x
    BY <1>2
  <1>4. \E m \in t : Bounds(m)
    <2>1. PICK m \in t : k = n - m
      BY <1>2
    <2> QED BY <1>3, <2>1
  <1>5. Min(t) = CHOOSE m \in t : \A x \in t : m <= x
    BY DEF Min
  <1>6. Bounds(Min(t))
    BY <1>4, <1>5
  <1> QED BY <1>6

\* The largest that is possible, if it is there.
LEMMA MaxOfTop ==
  ASSUME NEW n \in Nat \ {0}, NEW t \in SUBSET (1..n), n \in t
  PROVE  Max(t) = n
  <1>1. Max(t) \in t /\ n <= Max(t)
    <2>1. t \in SUBSET (0..n)
      OBVIOUS
    <2> QED BY <2>1, MaxIs
  <1>2. Max(t) \in 1..n
    BY <1>1
  <1> QED BY <1>1, <1>2

\* Taking the largest element from a segment makes it one shorter.
LEMMA MaxOfSegment ==
  ASSUME NEW n \in Nat \ {0}
  PROVE  Max(1..n) = n /\ (1..n) \ {n} = 1..(n - 1)
  <1>1. n \in 1..n
    OBVIOUS
  <1>2. Max(1..n) = n
    BY <1>1, MaxOfTop
  <1> QED BY <1>2

\* g sums numbers over each set of places.
SumsSets(g, n, numbers) ==
  g = [t \in SUBSET (1..n) |-> IF t = {} THEN 0 ELSE g[t \ {Max(t)}] + numbers[Max(t)]]

\* Numbers can be summed over each set of places.
LEMMA SetSums ==
  ASSUME NEW numbers \in Seq(Int)
  PROVE  \E g : SumsSets(g, Len(numbers), numbers)
  <1> DEFINE n == Len(numbers)
             T == {k \in 0..n : \E g : SumsSets(g, k, numbers)}
  <1>1. n \in Nat
    BY LenProperties
  <1>2. 0 \in T
    <2> DEFINE g == [t \in SUBSET (1..0) |-> 0]
    <2>1. \A t \in SUBSET (1..0) : t = {}
      OBVIOUS
    <2>2. g = [t \in SUBSET (1..0) |->
                 IF t = {} THEN 0 ELSE g[t \ {Max(t)}] + numbers[Max(t)]]
      BY <2>1
    <2> HIDE DEF g
    <2>3. SumsSets(g, 0, numbers) /\ 0 \in 0..n
      BY <1>1, <2>2 DEF SumsSets
    <2> QED BY <2>3
  <1>3. ASSUME NEW k \in 1..n, k - 1 \in T
        PROVE  k \in T
    <2>1. PICK f : SumsSets(f, k - 1, numbers)
      BY <1>3
    <2> DEFINE g == [t \in SUBSET (1..k) |->
                       IF k \in t THEN f[t \ {k}] + numbers[k] ELSE f[t]]
    <2>2. ASSUME NEW t \in SUBSET (1..k)
          PROVE  g[t] = IF t = {} THEN 0 ELSE g[t \ {Max(t)}] + numbers[Max(t)]
      <3>1. CASE k \in t
        <4>1. k \in Nat \ {0}
          BY <1>1
        <4>2. Max(t) = k
          BY <3>1, <4>1, MaxOfTop
        <4>3. t \ {k} \in SUBSET (1..k) /\ k \notin t \ {k}
          OBVIOUS
        <4>4. g[t \ {k}] = f[t \ {k}]
          BY <4>3
        <4>5. g[t] = f[t \ {k}] + numbers[k]
          BY <3>1
        <4> QED BY <3>1, <4>2, <4>4, <4>5
      <3>2. CASE k \notin t
        <4>1. t \in SUBSET (1..(k - 1))
          BY <1>1, <3>2
        <4>2. f[t] = IF t = {} THEN 0 ELSE f[t \ {Max(t)}] + numbers[Max(t)]
          BY <2>1, <4>1 DEF SumsSets
        <4>3. t \ {Max(t)} \in SUBSET (1..k) /\ k \notin t \ {Max(t)}
          BY <3>2
        <4>4. g[t \ {Max(t)}] = f[t \ {Max(t)}]
          BY <4>3
        <4>5. g[t] = f[t]
          BY <3>2
        <4> QED BY <4>2, <4>4, <4>5
      <3> QED BY <3>1, <3>2
    <2>3. g = [t \in SUBSET (1..k) |-> g[t]]
      OBVIOUS
    <2> HIDE DEF g
    <2>4. SumsSets(g, k, numbers)
      BY <2>2, <2>3 DEF SumsSets
    <2>5. k \in 0..n
      BY <1>1
    <2> QED BY <2>4, <2>5
  <1> HIDE DEF T
  <1>4. n \in T
    <2>1. 0..n \subseteq T
      BY <1>1, <1>2, <1>3, BoundedInduction
    <2> QED BY <1>1, <2>1
  <1> QED BY <1>4 DEF T

\* Total is such a sum, over all places.
LEMMA TotalOf ==
  ASSUME NEW numbers \in Seq(Int)
  PROVE  LET g == CHOOSE g : SumsSets(g, Len(numbers), numbers)
         IN  Total(numbers) = g[1..Len(numbers)]
  <1>1. DOMAIN numbers = 1..Len(numbers)
    BY LenProperties
  <1> QED BY <1>1 DEF Total, FoldLeft, MapThenFoldSet, SumsSets

\* f adds up numbers one by one.
AddsUp(f, numbers) ==
  f[0] = 0 /\ \A i \in 1..Len(numbers) : f[i] = f[i - 1] + numbers[i]

\* Total is what adding up one by one comes to.
LEMMA TotalIs ==
  ASSUME NEW numbers \in Seq(Int), NEW f \in [0..Len(numbers) -> Int], AddsUp(f, numbers)
  PROVE  Total(numbers) = f[Len(numbers)]
  <1> DEFINE n == Len(numbers)
             g == CHOOSE g : SumsSets(g, n, numbers)
             T == {k \in 0..n : g[1..k] = f[k]}
  <1>1. n \in Nat
    BY LenProperties
  <1>2. Total(numbers) = g[1..n]
    BY TotalOf
  <1>3. SumsSets(g, n, numbers)
    BY SetSums
  <1> HIDE DEF g
  <1>4. \A t \in SUBSET (1..n) :
          g[t] = IF t = {} THEN 0 ELSE g[t \ {Max(t)}] + numbers[Max(t)]
    BY <1>3 DEF SumsSets
  <1>5. 0 \in T
    <2>1. 1..0 = {} /\ 1..0 \in SUBSET (1..n) /\ 0 \in 0..n
      BY <1>1
    <2>2. g[1..0] = 0
      BY <1>4, <2>1
    <2> QED BY <2>1, <2>2 DEF AddsUp
  <1>6. ASSUME NEW k \in 1..n, k - 1 \in T
        PROVE  k \in T
    <2>1. k \in Nat \ {0} /\ k \in 0..n
      BY <1>1
    <2>2. Max(1..k) = k /\ (1..k) \ {k} = 1..(k - 1)
      BY <2>1, MaxOfSegment
    <2>3. 1..k \in SUBSET (1..n) /\ 1..k # {}
      <3>1. k \in 1..k /\ \A x \in 1..k : x \in 1..n
        BY <1>1
      <3> QED BY <3>1
    <2>4. g[1..k] = g[1..(k - 1)] + numbers[k]
      BY <1>4, <2>2, <2>3
    <2>5. g[1..(k - 1)] = f[k - 1]
      BY <1>6
    <2>6. f[k] = f[k - 1] + numbers[k]
      BY DEF AddsUp
    <2> QED BY <2>1, <2>4, <2>5, <2>6
  <1> HIDE DEF T
  <1>7. n \in T
    <2>1. 0..n \subseteq T
      BY <1>1, <1>5, <1>6, BoundedInduction
    <2> QED BY <1>1, <2>1
  <1> QED BY <1>2, <1>7 DEF T

\* Any numbers can be added up one by one.
LEMMA AddingUp ==
  ASSUME NEW numbers \in Seq(Int)
  PROVE  \E f \in [0..Len(numbers) -> Int] : AddsUp(f, numbers)
  <1> DEFINE n == Len(numbers)
             F == [0..n -> Int]
             Upto(f, i) == f[0] = 0 /\ \A j \in 1..i : f[j] = f[j - 1] + numbers[j]
             T == {i \in 0..n : \E f \in F : Upto(f, i)}
  <1>1. n \in Nat /\ \A i \in 1..n : numbers[i] \in Int
    BY LenProperties, ElementOfSeq
  <1> HIDE DEF n
  <1>2. 0 \in T
    <2> DEFINE f == [i \in 0..n |-> 0]
    <2>1. f \in F
      OBVIOUS
    <2>2. Upto(f, 0) /\ 0 \in 0..n
      BY <1>1
    <2> HIDE DEF f, Upto
    <2> QED BY <2>1, <2>2
  <1>3. ASSUME NEW i \in 1..n, i - 1 \in T
        PROVE  i \in T
    <2>1. PICK f \in F : Upto(f, i - 1)
      BY <1>3
    <2> DEFINE x == f[i - 1] + numbers[i]
               g == [j \in 0..n |-> IF j = i THEN x ELSE f[j]]
    <2>2. i \in 0..n /\ i - 1 \in 0..n /\ i # 0 /\ 0 \in 0..n
      BY <1>1
    <2>3. x \in Int
      BY <1>1, <2>2
    <2>4. g \in F
      BY <2>3
    <2>5. g[0] = 0
      BY <2>1, <2>2
    <2>6. ASSUME NEW j \in 1..i
          PROVE  g[j] = g[j - 1] + numbers[j]
      <3>1. CASE j = i
        <4>1. g[i] = x /\ g[i - 1] = f[i - 1]
          <5> HIDE DEF x
          <5> QED BY <1>1, <2>2
        <4> QED BY <3>1, <4>1
      <3>2. CASE j # i
        <4>1. j \in 1..(i - 1) /\ j \in 0..n /\ j - 1 \in 0..n /\ j - 1 # i
          BY <1>1, <3>2
        <4>2. g[j] = f[j] /\ g[j - 1] = f[j - 1]
          BY <3>2, <4>1
        <4> QED BY <2>1, <4>1, <4>2
      <3> QED BY <3>1, <3>2
    <2>7. Upto(g, i)
      BY <2>5, <2>6
    <2> QED BY <2>2, <2>4, <2>7
  <1> HIDE DEF T
  <1>4. n \in T
    <2>1. 0..n \subseteq T
      BY <1>1, <1>2, <1>3, BoundedInduction
    <2> QED BY <1>1, <2>1
  <1>5. PICK f \in F : Upto(f, n)
    BY <1>4 DEF T
  <1> QED BY <1>5 DEF AddsUp, n

-----------------------------------------------------------------------------
(* Types.                                                                  *)

\* The two ends of the connection, and what their records are made of.
Sides == {"local", "remote"}
Payloads == Seq(Nat \X Loops)
Records ==
  [from : Sides, flags : SUBSET {"syn", "ack", "fin"}, seq : Int, ack : Int, payload : Payloads]
Fragments == Seq(Records)

\* The handler, its channel and its observer.
Typed ==
  /\ emitPCAPWrites \in Settings
  /\ fileSink \in Sinks
  /\ closeState \in {"notClosing", "closedInitiatorLocal", "closedInitiatorRemote"}
  /\ readInboundBytes \in Nat
  /\ writtenOutboundBytes \in Nat
  /\ channel \in {"connecting", "active", "closing", "inactive"}
  /\ ended \in SUBSET {"in", "out", "refused"}
  /\ pending \in Seq([bytes : Payloads, loop : Loops])
  /\ hopping \in Seq(Payloads)
  /\ read \in Nat
  /\ seen \in Nat
  /\ issued \in Payloads
  /\ wire \in Payloads

\* What was captured, and the places in it that consumers know of.
CaptureTyped ==
  /\ fragments \in Seq(Fragments)
  /\ forgotten \in 0..Len(fragments)
  /\ due \in 0..Len(fragments)
  /\ early \in 0..Len(fragments)
  /\ first \in {0, 1}
  /\ first = 0 => early = 0

\* The fields of a record have their types.
LEMMA RecordIs ==
  ASSUME NEW from \in Sides, NEW flags \in SUBSET {"syn", "ack", "fin"}, NEW seq \in Int,
         NEW ack \in Int, NEW payload \in Payloads
  PROVE  Record(from, flags, seq, ack, payload) \in Records
  BY DEF Record, Records

\* Sequence numbers are numbers.
LEMMA SequenceNumberIs ==
  ASSUME NEW n \in Nat
  PROVE  SequenceNumber(n) \in Nat
  <1>1. Width \in Nat \ {0}
    BY CaptureAssumption
  <1> QED BY <1>1 DEF SequenceNumber

\* Min of two numbers.
LEMMA MinOfTwo ==
  ASSUME NEW a \in Int, NEW b \in Int
  PROVE  /\ Min({a, b}) \in {a, b}
         /\ Min({a, b}) <= a /\ Min({a, b}) <= b
  <1>1. \E m \in {a, b} : \A x \in {a, b} : m <= x
    <2>1. CASE a <= b
      BY <2>1
    <2>2. CASE b <= a
      BY <2>2
    <2> QED BY <2>1, <2>2
  <1>2. Min({a, b}) = CHOOSE m \in {a, b} : \A x \in {a, b} : m <= x
    BY DEF Min
  <1>3. Min({a, b}) \in {a, b} /\ \A x \in {a, b} : Min({a, b}) <= x
    BY <1>1, <1>2
  <1> QED BY <1>3

\* How many pieces of m bytes n bytes make.
LEMMA PieceCount ==
  ASSUME NEW n \in Nat, NEW m \in Nat \ {0}
  PROVE  LET c == (n + m - 1) \div m
         IN  c \in Nat /\ n <= c * m /\ c * m < n + m
  <1> DEFINE a == n + m - 1
             c == a \div m
  <1>1. a \in Nat
    OBVIOUS
  <1>2. c \in Nat /\ c * m <= a /\ a < c * m + m
    <2> HIDE DEF a
    <2> QED BY <1>1
  <1>3. c * m \in Nat
    BY <1>2
  <1> QED BY <1>1, <1>2, <1>3

\* Every piece but the last is full.
LEMMA PlaceOfPiece ==
  ASSUME NEW m \in Nat \ {0}, NEW c \in Nat, NEW i \in 1..c
  PROVE  /\ i * m \in Nat /\ (i - 1) * m \in Nat
         /\ (i - 1) * m = i * m - m
         /\ i * m <= c * m
  <1>1. PICK d \in Nat : c = i + d
    <2>1. c - i \in Nat /\ c = i + (c - i)
      OBVIOUS
    <2> QED BY <2>1
  <1>2. c * m = i * m + d * m /\ i * m \in Nat /\ d * m \in Nat
    BY <1>1
  <1>3. (i - 1) * m = i * m - m /\ (i - 1) * m \in Nat
    OBVIOUS
  <1> QED BY <1>2, <1>3

PieceEnd(bytes, i) == Min({i * MaxPayload, Len(bytes)})

\* The pieces of some bytes are not empty, not too large, and follow one another.
LEMMA PiecesAre ==
  ASSUME NEW bytes \in Payloads
  PROVE  \E c \in Nat :
           /\ Pieces(bytes) \in Seq(Payloads)
           /\ Len(Pieces(bytes)) = c
           /\ Len(bytes) <= c * MaxPayload
           /\ \A i \in 1..c :
                /\ (i - 1) * MaxPayload \in Nat
                /\ (i - 1) * MaxPayload < Len(bytes)
                /\ PieceEnd(bytes, i) \in ((i - 1) * MaxPayload + 1)..Len(bytes)
                /\ PieceEnd(bytes, i) <= i * MaxPayload
                /\ PieceEnd(bytes, i) \in {i * MaxPayload, Len(bytes)}
                /\ Pieces(bytes)[i] =
                     SubSeq(bytes, (i - 1) * MaxPayload + 1, PieceEnd(bytes, i))
                /\ Len(Pieces(bytes)[i]) \in 1..MaxPayload
  <1> DEFINE m == MaxPayload
             n == Len(bytes)
             c == (n + m - 1) \div m
             p == Pieces(bytes)
  <1>1. m \in Nat \ {0} /\ n \in Nat
    BY CaptureAssumption, LenProperties DEF Payloads
  <1>2. c \in Nat /\ n <= c * m /\ c * m < n + m
    BY <1>1, PieceCount
  <1>3. p = [i \in 1..c |-> SubSeq(bytes, (i - 1) * m + 1, PieceEnd(bytes, i))]
    BY DEF Pieces, PieceEnd
  <1> HIDE DEF c, p
  <1>4. ASSUME NEW i \in 1..c
        PROVE  /\ (i - 1) * m \in Nat
               /\ (i - 1) * m < n
               /\ PieceEnd(bytes, i) \in ((i - 1) * m + 1)..n
               /\ PieceEnd(bytes, i) <= i * m
               /\ PieceEnd(bytes, i) \in {i * m, n}
               /\ p[i] = SubSeq(bytes, (i - 1) * m + 1, PieceEnd(bytes, i))
               /\ p[i] \in Payloads
               /\ Len(p[i]) \in 1..m
    <2> DEFINE a == (i - 1) * m
               b == i * m
               d == c * m
               e == PieceEnd(bytes, i)
    <2>1. a \in Nat /\ b \in Nat /\ a = b - m /\ b <= d
      BY <1>1, <1>2, PlaceOfPiece
    <2>2. d \in Nat /\ n <= d /\ d < n + m
      BY <1>1, <1>2
    <2>3. e \in {b, n} /\ e <= b /\ e <= n
      <3>1. e = Min({b, n})
        BY DEF PieceEnd
      <3>2. b \in Int /\ n \in Int
        BY <1>1, <2>1
      <3> HIDE DEF b, n, e
      <3> QED BY <3>1, <3>2, MinOfTwo
    <2>4. p[i] = SubSeq(bytes, a + 1, e)
      BY <1>3
    <2> HIDE DEF a, b, d, e
    <2>5. a < n /\ e \in (a + 1)..n
      BY <1>1, <2>1, <2>2, <2>3
    <2>6. \A k \in (a + 1)..e : bytes[k] \in Nat \X Loops
      BY <1>1, <2>1, <2>5, ElementOfSeq DEF Payloads
    <2>7. p[i] \in Payloads /\ Len(p[i]) = e - a
      <3>1. a + 1 \in Int /\ e \in Int /\ a + 1 <= e /\ e - (a + 1) + 1 = e - a
        BY <1>1, <2>1, <2>5
      <3> QED BY <2>4, <2>6, <3>1, SubSeqProperties DEF Payloads
    <2>8. Len(p[i]) \in 1..m
      BY <1>1, <2>1, <2>3, <2>5, <2>7
    <2> QED BY <2>1, <2>3, <2>4, <2>5, <2>7, <2>8 DEF a, b, e
  <1>5. p \in Seq(Payloads) /\ Len(p) = c
    <2>1. p \in [1..c -> Payloads]
      BY <1>3, <1>4
    <2>2. p \in Seq(Payloads)
      BY <1>2, <2>1, SeqDef
    <2> QED BY <1>2, <2>1, <2>2, LenProperties
  <1> QED BY <1>2, <1>4, <1>5 DEF p

\* The records of some data.
LEMMA DataRecordsAre ==
  ASSUME NEW from \in Sides, NEW byteCount \in Nat, NEW bytes \in Payloads
  PROVE  /\ DataRecords(from, byteCount, bytes) \in Fragments
         /\ Len(DataRecords(from, byteCount, bytes)) = Len(Pieces(bytes))
         /\ \A i \in 1..Len(Pieces(bytes)) :
              DataRecords(from, byteCount, bytes)[i] =
                Record(from, {}, SequenceNumber(byteCount + (i - 1) * MaxPayload), NoAck,
                       Pieces(bytes)[i])
  <1> DEFINE p == Pieces(bytes)
             d == DataRecords(from, byteCount, bytes)
  <1>1. PICK c \in Nat :
          /\ p \in Seq(Payloads)
          /\ Len(p) = c
          /\ \A i \in 1..c : (i - 1) * MaxPayload \in Nat
    BY PiecesAre
  <1>2. DOMAIN p = 1..c /\ \A i \in 1..c : p[i] \in Payloads
    BY <1>1, LenProperties, ElementOfSeq
  <1> DEFINE seq(i) == SequenceNumber(byteCount + (i - 1) * MaxPayload)
  <1>3. d = [i \in 1..c |-> Record(from, {}, seq(i), NoAck, p[i])]
    BY <1>2 DEF DataRecords
  <1> HIDE DEF d, p
  <1>4. ASSUME NEW i \in 1..c
        PROVE  Record(from, {}, seq(i), NoAck, p[i]) \in Records
    <2>1. seq(i) \in Int
      BY <1>1, SequenceNumberIs
    <2>2. {} \in SUBSET {"syn", "ack", "fin"} /\ NoAck \in Int
      BY DEF NoAck
    <2> HIDE DEF seq
    <2> QED BY <1>2, <2>1, <2>2, RecordIs
  <1>5. d \in [1..c -> Records]
    BY <1>3, <1>4
  <1>6. d \in Fragments
    BY <1>1, <1>5, SeqDef DEF Fragments
  <1>7. Len(d) = c
    BY <1>1, <1>5, <1>6, LenProperties DEF Fragments
  <1> QED BY <1>1, <1>3, <1>6, <1>7 DEF d, p

\* The records of the end of a connection.
LEMMA TerminationIs ==
  ASSUME NEW initiator \in Sides, Typed
  PROVE  Termination(initiator) \in Fragments
  <1> DEFINE local == initiator = "local"
             a == SequenceNumber(IF local THEN writtenOutboundBytes ELSE readInboundBytes)
             b == SequenceNumber(IF local THEN readInboundBytes ELSE writtenOutboundBytes)
             x == Record(initiator, {"fin"}, a, NoAck, <<>>)
             y == Record(Other(initiator), {"ack", "fin"}, b, a + 1, <<>>)
             z == Record(initiator, {"ack"}, a + 1, b + 1, <<>>)
  <1>1. a \in Nat /\ b \in Nat
    BY SequenceNumberIs DEF Typed
  <1>2. Termination(initiator) = <<x, y, z>>
    BY DEF Termination
  <1>3. <<>> \in Payloads /\ Other(initiator) \in Sides /\ NoAck \in Int
    BY DEF Payloads, Other, Sides, NoAck
  <1> HIDE DEF a, b
  <1>4. x \in Records
    BY <1>1, <1>3, RecordIs
  <1>5. y \in Records
    BY <1>1, <1>3, RecordIs
  <1>6. z \in Records
    BY <1>1, <1>3, RecordIs
  <1> HIDE DEF x, y, z
  <1> QED BY <1>2, <1>4, <1>5, <1>6 DEF Fragments

\* The records of the beginning of a connection.
Opening ==
  LET client == IF Mode = "client" THEN "local" ELSE "remote" IN
  << Record(client, {"syn"}, 0, NoAck, <<>>),
     Record(Other(client), {"syn", "ack"}, 0, 1, <<>>),
     Record(client, {"ack"}, 1, 1, <<>>) >>

\* They are records.
LEMMA OpeningIs == Opening \in Fragments
  <1> DEFINE client == IF Mode = "client" THEN "local" ELSE "remote"
             x == Record(client, {"syn"}, 0, NoAck, <<>>)
             y == Record(Other(client), {"syn", "ack"}, 0, 1, <<>>)
             z == Record(client, {"ack"}, 1, 1, <<>>)
  <1>1. client \in Sides /\ Other(client) \in Sides
    BY DEF Sides, Other
  <1>2. <<>> \in Payloads /\ NoAck \in Int
    BY DEF Payloads, NoAck
  <1>3. Opening = <<x, y, z>>
    BY DEF Opening
  <1> HIDE DEF client
  <1>4. x \in Records
    BY <1>1, <1>2, RecordIs
  <1>5. y \in Records
    BY <1>1, <1>2, RecordIs
  <1>6. z \in Records
    BY <1>1, <1>2, RecordIs
  <1> HIDE DEF x, y, z
  <1> QED BY <1>3, <1>4, <1>5, <1>6 DEF Fragments

-----------------------------------------------------------------------------
(* A step gives the sink a fragment, or nothing; or it is a consumer's.    *)

\* The place of the handshake stays, or is the end of the capture so far.
Places ==
  \/ UNCHANGED <<early, first>>
  \/ early' = Len(fragments) /\ first' = 1

\* What a step does to the capture.
Shape ==
  \/ \E f \in Fragments : FileSink(f) /\ Places
  \/ NothingEmitted
  \/ EmitPCAP
  \/ Sink

\* The capture keeps its types.
LEMMA ShapeKeepsTypes ==
  ASSUME CaptureTyped, Shape
  PROVE  CaptureTyped'
  <1>1. Len(fragments) \in Nat
    BY LenProperties DEF CaptureTyped
  <1>2. ASSUME NEW f \in Fragments, FileSink(f), Places
        PROVE  CaptureTyped'
    <2>1. fragments' = Append(fragments, f) /\ forgotten' = forgotten /\ due' = due
      BY <1>2 DEF FileSink
    <2>2. fragments' \in Seq(Fragments) /\ Len(fragments') = Len(fragments) + 1
      BY <2>1, AppendProperties DEF CaptureTyped
    <2>3. forgotten' \in 0..Len(fragments') /\ due' \in 0..Len(fragments')
      BY <1>1, <2>1, <2>2 DEF CaptureTyped
    <2>4. early' \in 0..Len(fragments') /\ first' \in {0, 1} /\ (first' = 0 => early' = 0)
      BY <1>1, <1>2, <2>2 DEF CaptureTyped, Places
    <2> QED BY <2>2, <2>3, <2>4 DEF CaptureTyped
  <1>3. CASE NothingEmitted
    BY <1>3 DEF NothingEmitted, captureVars, CaptureTyped
  <1>4. CASE EmitPCAP
    BY <1>1, <1>4 DEF EmitPCAP, CaptureTyped
  <1>5. CASE Sink
    BY <1>1, <1>5 DEF Sink, CaptureTyped
  <1> QED BY <1>2, <1>3, <1>4, <1>5 DEF Shape

\* The bytes of a read, and of a write.
LEMMA NumberedBytes ==
  ASSUME NEW n \in Nat, NEW k \in Nat, NEW loop \in Loops
  PROVE  /\ [i \in 1..n |-> <<k + i, loop>>] \in Payloads
         /\ Len([i \in 1..n |-> <<k + i, loop>>]) = n
  <1> DEFINE b == [i \in 1..n |-> <<k + i, loop>>]
  <1>1. b \in [1..n -> Nat \X Loops]
    OBVIOUS
  <1> HIDE DEF b
  <1>2. b \in Seq(Nat \X Loops)
    BY <1>1, SeqDef
  <1>3. Len(b) = n
    BY <1>1, <1>2, LenProperties
  <1> QED BY <1>2, <1>3 DEF Payloads, b

\* A channel becomes active.
LEMMA ActiveTyped ==
  ASSUME Typed, ChannelActive
  PROVE  Typed' /\ fileSink' = fileSink /\ Shape
  <1>1. Typed' /\ fileSink' = fileSink
    BY DEF Typed, ChannelActive
  <1>2. FileSink(Opening) /\ Places
    BY DEF ChannelActive, Opening, Places
  <1> QED BY <1>1, <1>2, OpeningIs DEF Shape

\* Bytes arrive.
LEMMA ReadTyped ==
  ASSUME Typed, NEW n \in Sizes, ChannelRead(n)
  PROVE  Typed' /\ fileSink' = fileSink /\ Shape
  <1>1. n \in Nat
    BY CaptureAssumption
  <1>2. Typed' /\ fileSink' = fileSink
    BY <1>1 DEF Typed, ChannelRead
  <1>3. CASE closeState # "notClosing" \/ n = 0
    BY <1>2, <1>3 DEF ChannelRead, Shape
  <1>4. CASE ~(closeState # "notClosing" \/ n = 0)
    <2> DEFINE bytes == [i \in 1..n |-> <<read + i, "own">>]
    <2>1. FileSink(DataRecords("remote", readInboundBytes, bytes)) /\ Places
      BY <1>4 DEF ChannelRead, Places
    <2>2. "remote" \in Sides /\ "own" \in Loops /\ readInboundBytes \in Nat /\ read \in Nat
      BY DEF Sides, Loops, Typed
    <2>3. bytes \in Payloads
      BY <1>1, <2>2, NumberedBytes
    <2> HIDE DEF bytes
    <2>4. DataRecords("remote", readInboundBytes, bytes) \in Fragments
      BY <2>2, <2>3, DataRecordsAre
    <2> QED BY <1>2, <2>1, <2>4 DEF Shape
  <1> QED BY <1>2, <1>3, <1>4

\* Writes are emitted.
LEMMA EmitsTyped ==
  ASSUME Typed, NEW bytes \in Payloads, EmitWrites(bytes)
  PROVE  /\ writtenOutboundBytes' \in Nat
         /\ writtenOutboundBytes' = writtenOutboundBytes + Len(bytes)
         /\ DataRecords("local", writtenOutboundBytes, bytes) \in Fragments
         /\ FileSink(DataRecords("local", writtenOutboundBytes, bytes))
         /\ Shape
  <1>1. "local" \in Sides /\ writtenOutboundBytes \in Nat /\ Len(bytes) \in Nat
    BY LenProperties DEF Sides, Typed, Payloads
  <1>2. DataRecords("local", writtenOutboundBytes, bytes) \in Fragments
    BY <1>1, DataRecordsAre
  <1> QED BY <1>1, <1>2 DEF EmitWrites, Shape, Places

\* A write.
LEMMA WriteTyped ==
  ASSUME Typed, NEW n \in Sizes, NEW loop \in Loops, Write(n, loop)
  PROVE  Typed' /\ fileSink' = fileSink /\ Shape
  <1> DEFINE bytes == [i \in 1..n |-> <<Len(issued) + i, loop>>]
             w == [bytes |-> bytes, loop |-> loop]
  <1>1. Len(issued) \in Nat /\ n \in Nat
    BY CaptureAssumption, LenProperties DEF Typed, Payloads
  <1>2. bytes \in Payloads
    BY <1>1, NumberedBytes
  <1>3. /\ issued' = issued \o bytes
        /\ pending' \in {pending, Append(pending, w)}
        /\ \/ EmitWrites(bytes)
           \/ NothingEmitted /\ UNCHANGED writtenOutboundBytes
        /\ UNCHANGED <<emitPCAPWrites, fileSink, closeState, readInboundBytes, channel, ended,
                       hopping, read, wire, seen>>
    BY DEF Write
  <1> HIDE DEF bytes
  <1>4. w \in [bytes : Payloads, loop : Loops]
    BY <1>2
  <1> HIDE DEF w
  <1>5. issued' \in Payloads /\ pending' \in Seq([bytes : Payloads, loop : Loops])
    <2>1. issued' \in Payloads
      BY <1>2, <1>3, ConcatProperties DEF Typed, Payloads
    <2>2. pending' \in Seq([bytes : Payloads, loop : Loops])
      <3> DEFINE W == [bytes : Payloads, loop : Loops]
      <3>1. pending \in Seq(W) /\ w \in W
        BY <1>4 DEF Typed
      <3> HIDE DEF W
      <3>2. Append(pending, w) \in Seq(W)
        BY <3>1, AppendProperties
      <3>3. pending' \in Seq(W)
        BY <1>3, <3>1, <3>2
      <3> QED BY <3>3 DEF W
    <2> QED BY <2>1, <2>2
  <1>6. writtenOutboundBytes' \in Nat /\ Shape
    <2>1. CASE EmitWrites(bytes)
      BY <1>2, <2>1, EmitsTyped
    <2>2. CASE NothingEmitted /\ UNCHANGED writtenOutboundBytes
      BY <2>2 DEF Typed, Shape
    <2> QED BY <1>3, <2>1, <2>2
  <1> QED BY <1>3, <1>5, <1>6 DEF Typed

\* A write completes.
LEMMA CompletionTyped ==
  ASSUME Typed, WriteCompletes
  PROVE  Typed' /\ fileSink' = fileSink /\ Shape
  <1> DEFINE W == [bytes : Payloads, loop : Loops]
             w == Head(pending)
  <1>1. /\ pending # <<>> /\ pending' = Tail(pending) /\ wire' = wire \o w.bytes
        /\ \/ NothingEmitted /\ UNCHANGED <<writtenOutboundBytes, hopping>>
           \/ EmitWrites(w.bytes) /\ UNCHANGED hopping
           \/ /\ hopping' = Append(hopping, w.bytes)
              /\ NothingEmitted /\ UNCHANGED writtenOutboundBytes
        /\ UNCHANGED <<emitPCAPWrites, fileSink, closeState, readInboundBytes, channel, ended,
                       read, issued, seen>>
    BY DEF WriteCompletes
  <1>2. w \in W /\ pending' \in Seq(W)
    <2>1. pending \in Seq(W)
      BY DEF Typed
    <2> QED BY <1>1, <2>1, HeadTailProperties
  <1>3. w.bytes \in Payloads
    BY <1>2
  <1> DEFINE b == w.bytes
  <1> HIDE DEF b
  <1>4. wire' \in Payloads
    BY <1>1, <1>3, ConcatProperties DEF Typed, Payloads, b
  <1>5. writtenOutboundBytes' \in Nat /\ hopping' \in Seq(Payloads) /\ Shape
    <2>1. CASE NothingEmitted /\ UNCHANGED <<writtenOutboundBytes, hopping>>
      BY <2>1 DEF Typed, Shape
    <2>2. CASE EmitWrites(b) /\ UNCHANGED hopping
      <3>1. b \in Payloads
        BY <1>3 DEF b
      <3> QED BY <2>2, <3>1, EmitsTyped DEF Typed
    <2>3. CASE hopping' = Append(hopping, b) /\ NothingEmitted /\ UNCHANGED writtenOutboundBytes
      <3>1. b \in Payloads
        BY <1>3 DEF b
      <3> QED BY <2>3, <3>1, AppendProperties DEF Typed, Shape
    <2> QED BY <1>1, <2>1, <2>2, <2>3 DEF b
  <1> QED BY <1>1, <1>2, <1>4, <1>5 DEF Typed

\* A callback arrives.
LEMMA HopTyped ==
  ASSUME Typed, Hop
  PROVE  Typed' /\ fileSink' = fileSink /\ Shape
  <1>1. /\ hopping # <<>> /\ hopping' = Tail(hopping) /\ EmitWrites(Head(hopping))
        /\ UNCHANGED <<emitPCAPWrites, fileSink, closeState, readInboundBytes, channel, ended,
                       pending, read, issued, wire, seen>>
    BY DEF Hop
  <1>2. Head(hopping) \in Payloads /\ hopping' \in Seq(Payloads)
    <2>1. hopping \in Seq(Payloads)
      BY DEF Typed
    <2> QED BY <1>1, <2>1, HeadTailProperties
  <1>3. writtenOutboundBytes' \in Nat /\ Shape
    BY <1>1, <1>2, EmitsTyped
  <1> QED BY <1>1, <1>2, <1>3 DEF Typed

\* A side closes.
LEMMA ClosingTyped ==
  ASSUME Typed, InputClosed \/ CloseOutput \/ CloseRefused \/ CloseAll \/ ConnectionLost
  PROVE  Typed' /\ fileSink' = fileSink /\ Shape
  <1>1. <<>> \in Seq([bytes : Payloads, loop : Loops])
    BY EmptySeq
  <1>2. Typed' /\ fileSink' = fileSink
    BY <1>1 DEF Typed, InputClosed, CloseOutput, CloseRefused, CloseAll, ConnectionLost, ClosedBy,
                handlerVars
  <1>3. NothingEmitted
    BY DEF InputClosed, CloseOutput, CloseRefused, CloseAll, ConnectionLost
  <1> QED BY <1>2, <1>3 DEF Shape

\* The channel becomes inactive.
LEMMA InactiveTyped ==
  ASSUME Typed, ChannelInactive
  PROVE  Typed' /\ fileSink' = fileSink /\ Shape
  <1>1. Typed' /\ fileSink' = fileSink
    BY DEF Typed, ChannelInactive, ClosedBy
  <1>2. CASE NothingEmitted
    BY <1>1, <1>2 DEF Shape
  <1>3. CASE \E side \in Sides : FileSink(Termination(side)) /\ Places
    BY <1>1, <1>3, TerminationIs DEF Shape
  <1>4. NothingEmitted \/ \E side \in Sides : FileSink(Termination(side)) /\ Places
    BY DEF ChannelInactive, Sides, Places
  <1> QED BY <1>2, <1>3, <1>4

\* Every step keeps the types and has the shape.
LEMMA NextTyped ==
  ASSUME Typed, CaptureTyped, Next
  PROVE  Typed' /\ CaptureTyped' /\ fileSink' = fileSink /\ Shape
  <1>1. ASSUME EmitPCAP \/ Sink
        PROVE  Typed' /\ fileSink' = fileSink /\ Shape
    BY <1>1 DEF EmitPCAP, Sink, handlerVars, channelVars, Typed, Shape
  <1>2. Typed' /\ fileSink' = fileSink /\ Shape
    BY <1>1, ActiveTyped, ReadTyped, WriteTyped, CompletionTyped, HopTyped, ClosingTyped,
       InactiveTyped DEF Next
  <1> QED BY <1>2, ShapeKeepsTypes

-----------------------------------------------------------------------------
(* The file.                                                               *)

\* What the work queue holds.
Tasks == [kind : {"write"}, buffer : Fragments] \cup {[kind |-> "close"]}

\* The queue continues the file, with the close at place c, or nowhere if that is 0.
Continues(c) ==
  \A i \in 1..Len(workQueue) :
    /\ i = c => workQueue[i].kind = "close"
    /\ i < c \/ c = 0 =>
         workQueue[i].kind = "write" /\ workQueue[i].buffer = fragments[Len(file) + i]
    /\ 0 < c /\ c < i =>
         workQueue[i].kind = "write" /\ workQueue[i].buffer = fragments[Len(file) + i - 1]

\* It goes on to the last fragment, and a close comes behind all that is due.
Line(c) ==
  /\ Continues(c)
  /\ c = 0 => closer # "closing" /\ Len(fragments) = Len(file) + Len(workQueue)
  /\ c # 0 => /\ closer = "closing"
              /\ Len(fragments) = Len(file) + Len(workQueue) - 1
              /\ due <= Len(file) + c - 1

\* The file is how the capture begins.
Begins == Len(file) <= Len(fragments) /\ \A i \in 1..Len(file) : file[i] = fragments[i]

\* The sink.
SinkTyped ==
  /\ workQueue \in Seq(Tasks)
  /\ file \in Seq(Fragments)
  /\ state \in {"running", "error"}
  /\ closer \in {"idle", "waiting", "closing", "closed"}

\* The inductive invariant of the file.
FileInv ==
  /\ SinkTyped
  /\ Begins
  /\ state = "running" => errors = 0
  /\ state = "error" => errors = 1
  /\ closer = "closed" => errors = 1 \/ Len(file) >= due
  /\ state = "running" /\ fileSink = "file" => \E c \in 0..Len(workQueue) : Line(c)
  /\ fileSink = "ring" => file = <<>> /\ closer = "idle"

\* What the invariant says of the file.
LEMMA FileInvKeepsPace ==
  ASSUME CaptureTyped, FileInv
  PROVE  FileKeepsPace /\ FileIsComplete
  <1>1. Len(file) \in Nat /\ Len(fragments) \in Nat
    BY LenProperties DEF CaptureTyped, FileInv, SinkTyped
  <1>2. SubSeq(file, 1, Len(file)) = SubSeq(fragments, 1, Len(file))
    <2> DEFINE a == SubSeq(file, 1, Len(file))
               b == SubSeq(fragments, 1, Len(file))
    <2>1. \A i \in 1..Len(file) : file[i] \in Fragments /\ fragments[i] \in Fragments
      BY <1>1, ElementOfSeq DEF CaptureTyped, FileInv, SinkTyped, Begins
    <2>2. a \in Seq(Fragments) /\ Len(a) = Len(file) /\ \A i \in 1..Len(file) : a[i] = file[i]
      BY <1>1, <2>1, SubSeqProperties
    <2>3. /\ b \in Seq(Fragments) /\ Len(b) = Len(file)
          /\ \A i \in 1..Len(file) : b[i] = fragments[i]
      BY <1>1, <2>1, SubSeqProperties
    <2> HIDE DEF a, b
    <2>4. a = b
      BY <2>2, <2>3, SeqEqual DEF FileInv, Begins
    <2> QED BY <2>4 DEF a, b
  <1>3. IsPrefix(file, fragments)
    BY <1>1, <1>2 DEF IsPrefix, FileInv, Begins
  <1> QED BY <1>3 DEF FileKeepsPace, FileIsComplete, FileInv, SinkTyped

\* A fragment is given to the sink.
LEMMA EmissionKeepsFile ==
  ASSUME CaptureTyped, FileInv, NEW f \in Fragments, FileSink(f), fileSink' = fileSink
  PROVE  FileInv'
  <1> DEFINE t == [kind |-> "write", buffer |-> f]
  <1>1. /\ Len(file) \in Nat /\ Len(fragments) \in Nat /\ Len(workQueue) \in Nat
        /\ due \in 0..Len(fragments)
    BY LenProperties DEF CaptureTyped, FileInv, SinkTyped
  <1>2. /\ Len(fragments') = Len(fragments) + 1
        /\ fragments'[Len(fragments) + 1] = f
        /\ \A i \in 1..Len(fragments) : fragments'[i] = fragments[i]
    BY AppendProperties DEF CaptureTyped, FileSink
  <1>3. UNCHANGED <<due, state, file, errors, closer>>
    BY DEF FileSink
  <1>4. Begins'
    BY <1>1, <1>2, <1>3 DEF FileInv, Begins
  <1>5. CASE fileSink # "file"
    <2>1. UNCHANGED workQueue
      BY <1>5 DEF FileSink
    <2> QED BY <1>3, <1>4, <1>5, <2>1 DEF FileInv, SinkTyped
  <1>6. CASE fileSink = "file"
    <2>1. workQueue' = Append(workQueue, t)
      BY <1>6 DEF FileSink, EnqueueWrite
    <2>2. t \in Tasks
      BY DEF Tasks
    <2>3. /\ workQueue' \in Seq(Tasks)
          /\ Len(workQueue') = Len(workQueue) + 1
          /\ workQueue'[Len(workQueue) + 1] = t
          /\ \A i \in 1..Len(workQueue) : workQueue'[i] = workQueue[i]
      BY <2>1, <2>2, AppendProperties DEF FileInv, SinkTyped
    <2>4. ASSUME state = "running"
          PROVE  \E c \in 0..Len(workQueue') : Line(c)'
      <3>1. PICK c \in 0..Len(workQueue) : Line(c)
        BY <1>6, <2>4 DEF FileInv
      <3>2. Continues(c)'
        <4> SUFFICES ASSUME NEW i \in 1..(Len(workQueue) + 1)
                     PROVE
                       /\ i = c => workQueue'[i].kind = "close"
                       /\ i < c \/ c = 0 => /\ workQueue'[i].kind = "write"
                                            /\ workQueue'[i].buffer = fragments'[Len(file) + i]
                       /\ 0 < c /\ c < i =>
                            /\ workQueue'[i].kind = "write"
                            /\ workQueue'[i].buffer = fragments'[Len(file) + i - 1]
          BY <1>3, <2>3 DEF Continues
        <4>1. CASE i = Len(workQueue) + 1
          <5>1. workQueue'[i].kind = "write" /\ workQueue'[i].buffer = f
            BY <2>3, <4>1
          <5>2. c = 0 => fragments'[Len(file) + i] = f
            BY <1>1, <1>2, <3>1, <4>1 DEF Line
          <5>3. c # 0 => fragments'[Len(file) + i - 1] = f
            BY <1>1, <1>2, <3>1, <4>1 DEF Line
          <5> QED BY <1>1, <4>1, <5>1, <5>2, <5>3
        <4>2. CASE i # Len(workQueue) + 1
          <5>1. i \in 1..Len(workQueue) /\ workQueue'[i] = workQueue[i]
            BY <1>1, <2>3, <4>2
          <5>2. i < c \/ c = 0 => fragments'[Len(file) + i] = fragments[Len(file) + i]
            <6>1. c = 0 => Len(fragments) = Len(file) + Len(workQueue)
              BY <3>1 DEF Line
            <6>2. c # 0 => Len(fragments) = Len(file) + Len(workQueue) - 1
              BY <3>1 DEF Line
            <6>3. i < c \/ c = 0 => Len(file) + i \in 1..Len(fragments)
              BY <1>1, <3>1, <5>1, <6>1, <6>2
            <6> QED BY <1>2, <6>3
          <5>3. 0 < c /\ c < i => fragments'[Len(file) + i - 1] = fragments[Len(file) + i - 1]
            <6>1. c # 0 => Len(fragments) = Len(file) + Len(workQueue) - 1
              BY <3>1 DEF Line
            <6>2. 0 < c /\ c < i => Len(file) + i - 1 \in 1..Len(fragments)
              BY <1>1, <3>1, <5>1, <6>1
            <6> QED BY <1>2, <6>2
          <5>4. /\ i = c => workQueue[i].kind = "close"
                /\ i < c \/ c = 0 => /\ workQueue[i].kind = "write"
                                     /\ workQueue[i].buffer = fragments[Len(file) + i]
                /\ 0 < c /\ c < i => /\ workQueue[i].kind = "write"
                                     /\ workQueue[i].buffer = fragments[Len(file) + i - 1]
            BY <3>1, <5>1 DEF Line, Continues
          <5>5. i = c => workQueue'[i].kind = "close"
            BY <5>1, <5>4
          <5>6. i < c \/ c = 0 => /\ workQueue'[i].kind = "write"
                                 /\ workQueue'[i].buffer = fragments'[Len(file) + i]
            BY <5>1, <5>2, <5>4
          <5>7. 0 < c /\ c < i => /\ workQueue'[i].kind = "write"
                                 /\ workQueue'[i].buffer = fragments'[Len(file) + i - 1]
            BY <5>1, <5>3, <5>4
          <5> QED BY <5>5, <5>6, <5>7
        <4> QED BY <4>1, <4>2
      <3>3. Line(c)'
        <4>1. c = 0 => closer' # "closing" /\ Len(fragments') = Len(file') + Len(workQueue')
          BY <1>1, <1>2, <1>3, <2>3, <3>1 DEF Line
        <4>2. c # 0 => /\ closer' = "closing"
                       /\ Len(fragments') = Len(file') + Len(workQueue') - 1
                       /\ due' <= Len(file') + c - 1
          BY <1>1, <1>2, <1>3, <2>3, <3>1 DEF Line
        <4> QED BY <3>2, <4>1, <4>2 DEF Line
      <3> QED BY <1>1, <2>3, <3>3
    <2> QED BY <1>3, <1>4, <1>6, <2>3, <2>4 DEF FileInv, SinkTyped
  <1> QED BY <1>5, <1>6

\* The line without its head, of which the file has grown by g.
LEMMA TailContinues ==
  ASSUME CaptureTyped, SinkTyped, workQueue # <<>>, NEW c \in 0..Len(workQueue), Continues(c),
         c # 1, workQueue' = Tail(workQueue), Len(file') = Len(file) + 1,
         UNCHANGED fragments
  PROVE  Continues(IF c = 0 THEN 0 ELSE c - 1)'
  <1>1. /\ Len(workQueue') = Len(workQueue) - 1
        /\ \A i \in 1..Len(workQueue') : workQueue'[i] = workQueue[i + 1]
        /\ Len(workQueue) \in Nat /\ Len(file) \in Nat
    BY HeadTailProperties, LenProperties DEF SinkTyped
  <1> DEFINE d == IF c = 0 THEN 0 ELSE c - 1
  <1>2. c = 0 => d = 0
    OBVIOUS
  <1>3. c # 0 => d = c - 1 /\ d # 0 /\ 0 < d
    OBVIOUS
  <1> HIDE DEF d
  <1> SUFFICES ASSUME NEW i \in 1..Len(workQueue')
               PROVE
                 /\ i = d => workQueue'[i].kind = "close"
                 /\ i < d \/ d = 0 => /\ workQueue'[i].kind = "write"
                                      /\ workQueue'[i].buffer = fragments[Len(file') + i]
                 /\ 0 < d /\ d < i =>
                      /\ workQueue'[i].kind = "write"
                      /\ workQueue'[i].buffer = fragments[Len(file') + i - 1]
    BY DEF Continues, d
  <1>4. i + 1 \in 1..Len(workQueue) /\ workQueue'[i] = workQueue[i + 1]
    BY <1>1
  <1>5. /\ Len(file') + i = Len(file) + (i + 1)
        /\ Len(file') + i - 1 = Len(file) + (i + 1) - 1
    BY <1>1
  <1>6. /\ i + 1 = c => workQueue[i + 1].kind = "close"
        /\ i + 1 < c \/ c = 0 => /\ workQueue[i + 1].kind = "write"
                                 /\ workQueue[i + 1].buffer = fragments[Len(file) + (i + 1)]
        /\ 0 < c /\ c < i + 1 =>
             /\ workQueue[i + 1].kind = "write"
             /\ workQueue[i + 1].buffer = fragments[Len(file) + (i + 1) - 1]
    BY <1>4 DEF Continues
  <1>7. CASE c = 0
    <2>1. d = 0 /\ ~(i = d) /\ ~(0 < d)
      BY <1>1, <1>2, <1>7
    <2> QED BY <1>4, <1>5, <1>6, <1>7, <2>1
  <1>8. CASE c # 0
    <2>1. i = d <=> i + 1 = c
      BY <1>1, <1>3, <1>8
    <2>2. i < d \/ d = 0 => i + 1 < c
      BY <1>1, <1>3, <1>8
    <2>3. 0 < d /\ d < i => 0 < c /\ c < i + 1
      BY <1>1, <1>3, <1>8
    <2> QED BY <1>4, <1>5, <1>6, <2>1, <2>2, <2>3
  <1> QED BY <1>7, <1>8

\* A write is skipped after an error, and others fail.
LEMMA FailingKeepsFile ==
  ASSUME CaptureTyped, FileInv, fileSink = "file", UNCHANGED <<fragments, fileSink, due>>,
         WriteSkipped \/ WriteFails
  PROVE  FileInv'
  <1>1. /\ workQueue' = Tail(workQueue) /\ workQueue # <<>>
        /\ state' = "error" /\ errors' = 1
        /\ UNCHANGED <<file, closer>>
    BY DEF WriteSkipped, WriteFails, FileInv
  <1>2. workQueue' \in Seq(Tasks)
    BY <1>1, HeadTailProperties DEF FileInv, SinkTyped
  <1> QED BY <1>1, <1>2 DEF FileInv, SinkTyped, Begins

\* A write is done.
LEMMA WritingKeepsFile ==
  ASSUME CaptureTyped, FileInv, fileSink = "file", UNCHANGED <<fragments, fileSink, due>>,
         WriteDone
  PROVE  FileInv'
  <1> DEFINE b == Head(workQueue).buffer
  <1>1. /\ workQueue # <<>> /\ Head(workQueue).kind = "write" /\ state = "running"
        /\ workQueue' = Tail(workQueue) /\ file' = Append(file, b)
        /\ UNCHANGED <<state, errors, closer>>
    BY DEF WriteDone
  <1>2. /\ Len(file) \in Nat /\ Len(fragments) \in Nat /\ Len(workQueue) \in Nat
        /\ due \in 0..Len(fragments) /\ 1 \in 1..Len(workQueue)
        /\ Head(workQueue) = workQueue[1]
        /\ workQueue' \in Seq(Tasks)
        /\ Len(workQueue') = Len(workQueue) - 1
    <2>1. workQueue \in Seq(Tasks) /\ file \in Seq(Fragments) /\ fragments \in Seq(Fragments)
      BY DEF CaptureTyped, FileInv, SinkTyped
    <2>2. Len(workQueue) \in Nat \ {0}
      BY <1>1, <2>1, EmptySeq
    <2> QED BY <1>1, <2>1, <2>2, LenProperties, HeadTailProperties DEF CaptureTyped
  <1>3. PICK c \in 0..Len(workQueue) : Line(c)
    BY <1>1 DEF FileInv
  <1>4. c # 1
    BY <1>1, <1>2, <1>3 DEF Line, Continues
  <1>5. Len(file) + 1 <= Len(fragments) /\ b = fragments[Len(file) + 1]
    <2>1. b = fragments[Len(file) + 1]
      BY <1>2, <1>3, <1>4 DEF Line, Continues
    <2>2. Len(file) + 1 <= Len(fragments)
      BY <1>2, <1>3, <1>4 DEF Line
    <2> QED BY <2>1, <2>2
  <1>6. b \in Fragments
    <2>1. Len(file) + 1 \in 1..Len(fragments)
      BY <1>2, <1>5
    <2> QED BY <1>5, <2>1, ElementOfSeq DEF CaptureTyped
  <1> HIDE DEF b
  <1>7. /\ file' \in Seq(Fragments) /\ Len(file') = Len(file) + 1
        /\ file'[Len(file) + 1] = b
        /\ \A i \in 1..Len(file) : file'[i] = file[i]
    BY <1>1, <1>6, AppendProperties DEF FileInv, SinkTyped
  <1>8. Begins'
    BY <1>2, <1>5, <1>7 DEF FileInv, Begins
  <1>9. Continues(IF c = 0 THEN 0 ELSE c - 1)'
    BY <1>1, <1>3, <1>4, <1>7, TailContinues DEF FileInv, Line
  <1> PICK d \in Int : d = IF c = 0 THEN 0 ELSE c - 1
    OBVIOUS
  <1>10. Continues(d)' /\ (c = 0 => d = 0) /\ (c # 0 => d = c - 1 /\ d # 0)
    BY <1>4, <1>9
  <1>11. Line(d)' /\ d \in 0..Len(workQueue')
    <2>1. CASE c = 0
      BY <1>1, <1>2, <1>3, <1>7, <1>10, <2>1 DEF Line
    <2>2. CASE c # 0
      <3>1. d = c - 1 /\ d # 0 /\ d \in 0..Len(workQueue')
        BY <1>2, <1>10, <2>2
      <3>2. /\ closer' = "closing"
            /\ Len(fragments') = Len(file') + Len(workQueue') - 1
            /\ due' <= Len(file') + d - 1
        <4>1. /\ closer = "closing"
              /\ Len(fragments) = Len(file) + Len(workQueue) - 1
              /\ due <= Len(file) + c - 1
          BY <1>3, <2>2 DEF Line
        <4>2. UNCHANGED <<due, fragments, closer>>
          BY <1>1
        <4>3. Len(fragments) = Len(file') + Len(workQueue') - 1
          BY <1>2, <1>7, <4>1
        <4>4. due <= Len(file') + d - 1
          BY <1>2, <1>7, <3>1, <4>1
        <4> QED BY <4>1, <4>2, <4>3, <4>4
      <3> QED BY <1>10, <3>1, <3>2 DEF Line
    <2> QED BY <2>1, <2>2
  <1>12. closer' = "closed" => errors' = 1 \/ Len(file') >= due'
    BY <1>1, <1>2, <1>7 DEF FileInv
  <1> QED BY <1>1, <1>2, <1>7, <1>8, <1>11, <1>12 DEF FileInv, SinkTyped

\* The file is closed.
LEMMA ClosedKeepsFile ==
  ASSUME CaptureTyped, FileInv, fileSink = "file", UNCHANGED <<fragments, fileSink>>,
         state = "running" => UNCHANGED due, CloseDone
  PROVE  FileInv'
  <1>1. /\ workQueue # <<>> /\ Head(workQueue).kind = "close"
        /\ workQueue' = Tail(workQueue) /\ closer' = "closed"
        /\ UNCHANGED <<state, file, errors>>
    BY DEF CloseDone
  <1>2. /\ Len(file) \in Nat /\ Len(fragments) \in Nat /\ Len(workQueue) \in Nat
        /\ due \in 0..Len(fragments) /\ 1 \in 1..Len(workQueue)
        /\ Head(workQueue) = workQueue[1]
        /\ workQueue' \in Seq(Tasks)
        /\ Len(workQueue') = Len(workQueue) - 1
        /\ \A i \in 1..Len(workQueue') : workQueue'[i] = workQueue[i + 1]
    <2>1. workQueue \in Seq(Tasks) /\ file \in Seq(Fragments) /\ fragments \in Seq(Fragments)
      BY DEF CaptureTyped, FileInv, SinkTyped
    <2>2. Len(workQueue) \in Nat \ {0}
      BY <1>1, <2>1, EmptySeq
    <2> QED BY <1>1, <2>1, <2>2, LenProperties, HeadTailProperties DEF CaptureTyped
  <1>3. ASSUME state = "running"
        PROVE  due' <= Len(file) /\ Line(0)'
    <2>1. PICK c \in 0..Len(workQueue) : Line(c)
      BY <1>3 DEF FileInv
    <2>2. c = 1
      BY <1>1, <1>2, <2>1 DEF Line, Continues
    <2>3. Continues(0)'
      <3> SUFFICES ASSUME NEW i \in 1..Len(workQueue')
                   PROVE  /\ workQueue'[i].kind = "write"
                          /\ workQueue'[i].buffer = fragments[Len(file) + i]
        BY <1>1 DEF Continues
      <3>1. PICK j \in 1..Len(workQueue) : j = i + 1
        BY <1>2
      <3>2. workQueue'[i] = workQueue[j] /\ 0 < c /\ c < j /\ Len(file) + j - 1 = Len(file) + i
        BY <1>2, <2>2, <3>1
      <3>3. workQueue[j].kind = "write" /\ workQueue[j].buffer = fragments[Len(file) + j - 1]
        BY <2>1, <3>2 DEF Line, Continues
      <3> QED BY <3>2, <3>3
    <2>4. due <= Len(file) /\ Len(fragments) = Len(file) + Len(workQueue')
      BY <1>2, <2>1, <2>2 DEF Line
    <2>5. due' <= Len(file)
      BY <1>3, <2>4
    <2>6. closer' # "closing" /\ Len(fragments') = Len(file') + Len(workQueue')
      BY <1>1, <2>4
    <2> QED BY <2>3, <2>5, <2>6 DEF Line
  <1>4. state = "error" => errors = 1
    BY DEF FileInv
  <1>5. state = "running" => \E c \in 0..Len(workQueue') : Line(c)'
    BY <1>2, <1>3
  <1>6. errors = 1 \/ Len(file) >= due'
    BY <1>2, <1>3, <1>4 DEF FileInv, SinkTyped
  <1> QED BY <1>1, <1>2, <1>5, <1>6 DEF FileInv, SinkTyped, Begins

\* The file is to be closed, behind what is in the queue.
LEMMA ClosingKeepsFile ==
  ASSUME CaptureTyped, FileInv, fileSink = "file", UNCHANGED <<fragments, fileSink>>,
         due' = Len(fragments), Close
  PROVE  FileInv'
  <1> DEFINE t == [kind |-> "close"]
  <1> PICK n \in Nat : n = Len(workQueue)
    BY LenProperties DEF FileInv, SinkTyped
  <1>1. /\ closer = "idle" /\ closer' = "closing"
        /\ workQueue' = Append(workQueue, t)
        /\ UNCHANGED <<state, file, errors>>
    BY DEF Close
  <1>2. t \in Tasks
    BY DEF Tasks
  <1>3. /\ n \in Nat /\ Len(file) \in Nat /\ Len(fragments) \in Nat
        /\ workQueue' \in Seq(Tasks) /\ Len(workQueue') = n + 1 /\ workQueue'[n + 1] = t
        /\ \A i \in 1..n : workQueue'[i] = workQueue[i]
    BY <1>1, <1>2, LenProperties, AppendProperties DEF CaptureTyped, FileInv, SinkTyped
  <1>4. ASSUME state = "running"
        PROVE  Line(n + 1)'
    <2>1. PICK c \in 0..n : Line(c)
      BY <1>4 DEF FileInv
    <2>2. c = 0
      BY <1>1, <2>1 DEF Line
    <2>3. Len(fragments) = Len(file) + n
      BY <2>1, <2>2 DEF Line
    <2>4. Continues(n + 1)'
      <3> SUFFICES ASSUME NEW i \in 1..(n + 1)
                   PROVE
                     /\ i = n + 1 => workQueue'[i].kind = "close"
                     /\ i < n + 1 => /\ workQueue'[i].kind = "write"
                                     /\ workQueue'[i].buffer = fragments[Len(file) + i]
        BY <1>1, <1>3 DEF Continues
      <3>1. i < n + 1 => i \in 1..n /\ i \in 1..Len(workQueue)
        BY <1>3
      <3> QED BY <1>3, <2>1, <2>2, <3>1 DEF Line, Continues
    <2>5. n + 1 # 0 /\ due' <= Len(file') + (n + 1) - 1
      BY <1>1, <1>3, <2>3
    <2>6. Len(fragments') = Len(file') + Len(workQueue') - 1
      BY <1>1, <1>3, <2>3
    <2> QED BY <1>1, <2>4, <2>5, <2>6 DEF Line
  <1>5. n + 1 \in 0..Len(workQueue')
    BY <1>3
  <1> QED BY <1>1, <1>3, <1>4, <1>5 DEF FileInv, SinkTyped, Begins

\* A thread waits for the writes, and then asks for the close.
LEMMA WaitingKeepsFile ==
  ASSUME CaptureTyped, FileInv, fileSink = "file", UNCHANGED <<fragments, fileSink>>,
         \/ SyncClose
         \/ WritesGroupEmpty /\ UNCHANGED due
  PROVE  FileInv'
  <1>1. Len(file) \in Nat /\ Len(fragments) \in Nat /\ due \in 0..Len(fragments)
    BY LenProperties DEF CaptureTyped, FileInv, SinkTyped
  <1>2. CASE SyncClose
    <2>1. /\ closer = "idle" /\ closer' = "waiting"
          /\ UNCHANGED <<workQueue, state, file, errors>>
      BY <1>2 DEF SyncClose
    <2>2. ASSUME state = "running"
          PROVE  Line(0)' /\ 0 \in 0..Len(workQueue')
      <3>1. PICK c \in 0..Len(workQueue) : Line(c)
        BY <2>2 DEF FileInv
      <3>2. c = 0
        BY <2>1, <3>1 DEF Line
      <3>3. Continues(0)'
        BY <2>1, <3>1, <3>2 DEF Line, Continues
      <3> QED BY <2>1, <3>1, <3>2, <3>3 DEF Line
    <2> QED BY <2>1, <2>2 DEF FileInv, SinkTyped, Begins
  <1>3. CASE WritesGroupEmpty /\ UNCHANGED due
    <2>1. /\ closer = "waiting" /\ closer' = "closing"
          /\ workQueue = <<>> /\ workQueue' = <<[kind |-> "close"]>>
          /\ UNCHANGED <<state, file, errors>>
      BY <1>3 DEF WritesGroupEmpty
    <2>2. /\ workQueue' \in Seq(Tasks) /\ Len(workQueue') = 1 /\ Len(workQueue) = 0
          /\ workQueue'[1].kind = "close"
      BY <2>1 DEF Tasks
    <2>3. ASSUME state = "running"
          PROVE  Line(1)'
      <3>1. PICK c \in 0..Len(workQueue) : Line(c)
        BY <2>3 DEF FileInv
      <3>2. c = 0 /\ Len(fragments) = Len(file)
        BY <1>1, <2>2, <3>1 DEF Line
      <3>3. Continues(1)'
        BY <2>2 DEF Continues
      <3> QED BY <1>1, <1>3, <2>1, <2>2, <3>2, <3>3 DEF Line
    <2>4. 1 \in 0..Len(workQueue')
      BY <2>2
    <2> QED BY <2>1, <2>2, <2>3, <2>4 DEF FileInv, SinkTyped, Begins
  <1> QED BY <1>2, <1>3

\* A step of the sink.
LEMMA SinkKeepsFile ==
  ASSUME CaptureTyped, FileInv, Sink
  PROVE  FileInv'
  <1>1. fileSink = "file" /\ UNCHANGED <<fragments, fileSink>>
    BY DEF Sink, handlerVars
  <1>2. due' = IF closer = "idle" /\ closer' # "idle" THEN Len(fragments) ELSE due
    BY DEF Sink
  <1>3. ASSUME WriteSkipped \/ WriteFails
        PROVE  FileInv'
    <2>1. UNCHANGED due
      BY <1>2, <1>3 DEF WriteSkipped, WriteFails
    <2> QED BY <1>1, <1>3, <2>1, FailingKeepsFile
  <1>4. CASE WriteDone
    <2>1. UNCHANGED due
      BY <1>2, <1>4 DEF WriteDone
    <2> QED BY <1>1, <1>4, <2>1, WritingKeepsFile
  <1>5. CASE CloseDone
    <2>1. workQueue # <<>> /\ Head(workQueue).kind = "close" /\ closer' = "closed"
      BY <1>5 DEF CloseDone
    <2>2. state = "running" => UNCHANGED due
      <3>1. SUFFICES ASSUME state = "running" PROVE closer # "idle"
        BY <1>2
      <3>2. PICK c \in 0..Len(workQueue) : Line(c)
        BY <1>1, <3>1 DEF FileInv
      <3>3. 1 \in 1..Len(workQueue) /\ Head(workQueue) = workQueue[1]
        <4>1. Len(workQueue) \in Nat \ {0}
          BY <2>1, EmptySeq DEF FileInv, SinkTyped
        <4> QED BY <4>1
      <3>4. c # 0
        BY <2>1, <3>2, <3>3 DEF Line, Continues
      <3> QED BY <3>2, <3>4 DEF Line
    <2> QED BY <1>1, <1>5, <2>2, ClosedKeepsFile
  <1>6. CASE Close
    <2>1. due' = Len(fragments)
      BY <1>2, <1>6 DEF Close
    <2> QED BY <1>1, <1>6, <2>1, ClosingKeepsFile
  <1>7. CASE SyncClose
    BY <1>1, <1>7, WaitingKeepsFile
  <1>8. CASE WritesGroupEmpty
    <2>1. UNCHANGED due
      BY <1>2, <1>8 DEF WritesGroupEmpty
    <2> QED BY <1>1, <1>8, <2>1, WaitingKeepsFile
  <1>9. WriteSkipped \/ WriteFails \/ WriteDone \/ CloseDone \/ Close \/ SyncClose
        \/ WritesGroupEmpty
    BY DEF Sink, SinkNext, Work
  <1> QED BY <1>3, <1>4, <1>5, <1>6, <1>7, <1>8, <1>9

\* Every step keeps the file's invariant.
LEMMA NextKeepsFile ==
  ASSUME CaptureTyped, FileInv, fileSink' = fileSink, Shape
  PROVE  FileInv'
  <1>1. ASSUME UNCHANGED <<fragments, due, workQueue, state, file, errors, closer>>
        PROVE  FileInv'
    BY <1>1 DEF FileInv, SinkTyped, Begins, Line, Continues
  <1>2. CASE NothingEmitted
    BY <1>1, <1>2 DEF NothingEmitted, captureVars, sinkVars
  <1>3. CASE EmitPCAP
    BY <1>1, <1>3 DEF EmitPCAP, sinkVars
  <1>4. CASE Sink
    BY <1>4, SinkKeepsFile
  <1>5. CASE \E f \in Fragments : FileSink(f)
    BY <1>5, EmissionKeepsFile
  <1> QED BY <1>2, <1>3, <1>4, <1>5 DEF Shape

-----------------------------------------------------------------------------
(* Every behavior.                                                         *)

\* The types, and the shape of every step.
TypeInv == Typed /\ CaptureTyped

\* The types hold at the beginning.
LEMMA InitTyped ==
  ASSUME Init
  PROVE  TypeInv
  <1>1. /\ <<>> \in Payloads /\ <<>> \in Seq(Fragments) /\ <<>> \in Seq(Payloads)
        /\ <<>> \in Seq([bytes : Payloads, loop : Loops]) /\ Len(<<>>) = 0
    BY EmptySeq DEF Payloads
  <1> QED BY <1>1 DEF Init, TypeInv, Typed, CaptureTyped

\* The types hold always.
LEMMA TypeInvAlways == Spec => []TypeInv
  <1>1. Init => TypeInv
    BY InitTyped
  <1>2. TypeInv /\ [Next]_vars => TypeInv'
    <2>1. ASSUME TypeInv, Next
          PROVE  TypeInv'
      BY <2>1, NextTyped DEF TypeInv
    <2>2. ASSUME TypeInv, UNCHANGED vars
          PROVE  TypeInv'
      BY <2>2 DEF TypeInv, Typed, CaptureTyped, vars, handlerVars, captureVars, channelVars
    <2> QED BY <2>1, <2>2
  <1> QED BY <1>1, <1>2, PTL DEF Spec

\* The file's invariant holds always.
LEMMA FileInvAlways == Spec => []FileInv
  <1>1. Init => FileInv
    <2> SUFFICES ASSUME Init PROVE FileInv
      OBVIOUS
    <2>1. <<>> \in Seq(Tasks) /\ <<>> \in Seq(Fragments) /\ Len(<<>>) = 0
      BY EmptySeq
    <2>2. Line(0)
      BY <2>1 DEF Init, SinkInit, Line, Continues
    <2>3. 0 \in 0..Len(workQueue)
      BY <2>1 DEF Init, SinkInit
    <2> QED BY <2>1, <2>2, <2>3 DEF Init, SinkInit, FileInv, SinkTyped, Begins
  <1>2. TypeInv /\ FileInv /\ [Next]_vars => FileInv'
    <2>1. ASSUME TypeInv, FileInv, Next
          PROVE  FileInv'
      BY <2>1, NextTyped, NextKeepsFile DEF TypeInv
    <2>2. ASSUME TypeInv, FileInv, UNCHANGED vars
          PROVE  FileInv'
      BY <2>2 DEF FileInv, SinkTyped, Begins, Line, Continues, vars, handlerVars, captureVars,
         sinkVars
    <2> QED BY <2>1, <2>2
  <1> QED BY <1>1, <1>2, TypeInvAlways, PTL DEF Spec

\* The file holds the fragments from the first one, in order and without a gap; after a
\* close all that were captured before it, unless a write failed; and one error is told.
THEOREM FileKeepsPaceAlways == Spec => [](FileKeepsPace /\ FileIsComplete)
  <1>1. TypeInv /\ FileInv => FileKeepsPace /\ FileIsComplete
    BY FileInvKeepsPace DEF TypeInv
  <1> QED BY <1>1, TypeInvAlways, FileInvAlways, PTL

-----------------------------------------------------------------------------
(* The ring.                                                               *)

\* From behind place i to place j.
Slice(s, i, j) == SubSeq(s, i + 1, j)

\* The elements of a slice.
LEMMA SliceIs ==
  ASSUME NEW S, NEW s \in Seq(S), NEW i \in 0..Len(s), NEW j \in i..Len(s)
  PROVE  /\ Slice(s, i, j) \in Seq(S)
         /\ Len(Slice(s, i, j)) = j - i
         /\ \A k \in 1..(j - i) : Slice(s, i, j)[k] = s[i + k]
  <1>1. Len(s) \in Nat /\ i + 1 \in Int /\ j \in Int
    BY LenProperties
  <1>2. \A k \in (i + 1)..j : s[k] \in S
    <2> SUFFICES ASSUME NEW k \in (i + 1)..j PROVE s[k] \in S
      OBVIOUS
    <2>1. k \in 1..Len(s)
      BY <1>1
    <2> QED BY <2>1, ElementOfSeq
  <1> DEFINE t == SubSeq(s, i + 1, j)
  <1>3. /\ t \in Seq(S)
        /\ Len(t) = IF i + 1 <= j THEN j - (i + 1) + 1 ELSE 0
        /\ \A k \in 1..(j - (i + 1) + 1) : t[k] = s[(i + 1) + k - 1]
    BY <1>1, <1>2, SubSeqProperties
  <1>4. t = Slice(s, i, j)
    BY DEF Slice
  <1> HIDE DEF t
  <1>5. j - (i + 1) + 1 = j - i /\ \A k \in 1..(j - i) : (i + 1) + k - 1 = i + k
    BY <1>1
  <1>6. Len(t) = j - i
    BY <1>1, <1>3
  <1> QED BY <1>3, <1>4, <1>5, <1>6

\* t is that slice.
IsSlice(t, s, i, j) ==
  t = Slice(s, i, j) /\ Len(t) = j - i /\ \A k \in 1..(j - i) : t[k] = s[i + k]

\* A slice is one.
LEMMA SliceAs ==
  ASSUME NEW S, NEW s \in Seq(S), NEW i \in 0..Len(s), NEW j \in i..Len(s)
  PROVE  \E t \in Seq(S) : IsSlice(t, s, i, j)
  <1> DEFINE t == Slice(s, i, j)
  <1>1. t \in Seq(S) /\ Len(t) = j - i /\ \A k \in 1..(j - i) : t[k] = s[i + k]
    BY SliceIs
  <1>2. IsSlice(t, s, i, j)
    BY <1>1 DEF IsSlice
  <1> HIDE DEF t
  <1> QED BY <1>1, <1>2

\* t is s with e appended.
IsAppend(t, s, e) ==
  /\ t = Append(s, e) /\ Len(t) = Len(s) + 1 /\ t[Len(s) + 1] = e
  /\ \A k \in 1..Len(s) : t[k] = s[k]

\* Appending, told of a sequence.
LEMMA AppendAs ==
  ASSUME NEW S, NEW s \in Seq(S), NEW e \in S
  PROVE  \E t \in Seq(S) : IsAppend(t, s, e)
  <1>1. Append(s, e) \in Seq(S) /\ IsAppend(Append(s, e), s, e)
    BY AppendProperties DEF IsAppend
  <1> QED BY <1>1

\* A slice of a slice.
LEMMA SliceOfSlice ==
  ASSUME NEW S, NEW s \in Seq(S), NEW i \in 0..Len(s), NEW j \in i..Len(s),
         NEW k \in 0..(j - i), NEW l \in k..(j - i)
  PROVE  Slice(Slice(s, i, j), k, l) = Slice(s, i + k, i + l)
  <1>1. Len(s) \in Nat
    BY LenProperties
  <1>2. PICK t \in Seq(S) : IsSlice(t, s, i, j)
    BY SliceAs
  <1>3. k \in 0..Len(t) /\ l \in k..Len(t)
    BY <1>1, <1>2 DEF IsSlice
  <1>4. PICK u \in Seq(S) : IsSlice(u, t, k, l)
    BY <1>3, SliceAs
  <1>5. i + k \in 0..Len(s) /\ i + l \in (i + k)..Len(s)
    BY <1>1
  <1>6. PICK v \in Seq(S) : IsSlice(v, s, i + k, i + l)
    BY <1>5, SliceAs
  <1>7. (i + l) - (i + k) = l - k
    BY <1>1
  <1>8. \A x \in 1..(l - k) : u[x] = v[x]
    <2> SUFFICES ASSUME NEW x \in 1..(l - k) PROVE u[x] = v[x]
      OBVIOUS
    <2>1. k + x \in 1..(j - i) /\ i + (k + x) = (i + k) + x
      BY <1>1
    <2>2. u[x] = s[i + (k + x)]
      BY <1>2, <1>4, <2>1 DEF IsSlice
    <2>3. v[x] = s[(i + k) + x]
      BY <1>6, <1>7 DEF IsSlice
    <2> QED BY <2>1, <2>2, <2>3
  <1>9. Len(u) = l - k /\ Len(v) = l - k
    BY <1>4, <1>6, <1>7 DEF IsSlice
  <1>10. u = v
    BY <1>8, <1>9, SeqEqual
  <1> QED BY <1>2, <1>4, <1>6, <1>10 DEF IsSlice

\* A slice, and the element behind it.
LEMMA SliceAppend ==
  ASSUME NEW S, NEW s \in Seq(S), NEW e \in S, NEW i \in 0..Len(s), NEW j \in i..Len(s)
  PROVE  /\ Slice(Append(s, e), i, j) = Slice(s, i, j)
         /\ Slice(Append(s, e), i, Len(s) + 1) = Append(Slice(s, i, Len(s)), e)
  <1> DEFINE n == Len(s)
  <1>1. n \in Nat /\ i \in 0..n
    BY LenProperties
  <1>2. PICK t \in Seq(S) : IsAppend(t, s, e)
    BY AppendAs
  <1>3. Len(t) = n + 1 /\ t[n + 1] = e /\ \A k \in 1..n : t[k] = s[k]
    BY <1>2 DEF IsAppend
  <1>4. /\ i \in 0..Len(t) /\ j \in i..Len(t) /\ n + 1 \in i..Len(t)
        /\ n \in i..n
    BY <1>1, <1>3
  <1>5. PICK u \in Seq(S) : IsSlice(u, t, i, j)
    BY <1>4, SliceAs
  <1>6. PICK v \in Seq(S) : IsSlice(v, s, i, j)
    BY SliceAs
  <1>7. u = v
    <2>1. \A x \in 1..(j - i) : i + x \in 1..n
      BY <1>1
    <2>2. Len(u) = j - i /\ Len(v) = j - i
      BY <1>5, <1>6 DEF IsSlice
    <2>3. \A x \in 1..(j - i) : u[x] = v[x]
      BY <1>3, <1>5, <1>6, <2>1 DEF IsSlice
    <2> QED BY <2>2, <2>3, SeqEqual
  <1>8. PICK y \in Seq(S) : IsSlice(y, t, i, n + 1)
    BY <1>4, SliceAs
  <1>9. PICK z \in Seq(S) : IsSlice(z, s, i, n)
    BY <1>4, SliceAs
  <1>10. PICK w \in Seq(S) : IsAppend(w, z, e)
    BY AppendAs
  <1>11. y = w
    <2>1. Len(z) = n - i
      BY <1>9 DEF IsSlice
    <2>2. Len(y) = (n - i) + 1 /\ Len(w) = (n - i) + 1
      BY <1>1, <1>8, <1>10, <2>1 DEF IsSlice, IsAppend
    <2>3. ASSUME NEW x \in 1..((n - i) + 1)
          PROVE  y[x] = w[x]
      <3>1. y[x] = t[i + x]
        BY <1>1, <1>8 DEF IsSlice
      <3>2. CASE x = (n - i) + 1
        <4>1. i + x = n + 1
          BY <1>1, <3>2
        <4>2. w[x] = e
          BY <1>10, <2>1, <3>2 DEF IsAppend
        <4> QED BY <1>3, <3>1, <4>1, <4>2
      <3>3. CASE x # (n - i) + 1
        <4>1. x \in 1..(n - i) /\ i + x \in 1..n
          <5> HIDE DEF n
          <5>1. PICK m \in Nat : m = n - i /\ n = m + i
            <6>1. n - i \in Nat /\ n = (n - i) + i
              BY <1>1
            <6> QED BY <6>1
          <5>2. x \in 1..(m + 1) /\ x # m + 1
            BY <3>3, <5>1
          <5>3. x \in 1..m
            BY <5>2
          <5> QED BY <1>1, <5>1, <5>3
        <4>2. w[x] = z[x]
          BY <1>10, <2>1, <4>1 DEF IsAppend
        <4>3. z[x] = s[i + x]
          BY <1>9, <4>1 DEF IsSlice
        <4> QED BY <1>3, <3>1, <4>1, <4>2, <4>3
      <3> QED BY <3>2, <3>3
    <2> QED BY <2>2, <2>3, SeqEqual
  <1>12. Slice(t, i, j) = Slice(s, i, j)
    BY <1>5, <1>6, <1>7 DEF IsSlice
  <1>13. Slice(t, i, n + 1) = Append(Slice(s, i, n), e)
    BY <1>8, <1>9, <1>10, <1>11 DEF IsSlice, IsAppend
  <1> QED BY <1>2, <1>12, <1>13 DEF IsAppend

\* Sums of numbers that are not negative do not shrink.
LEMMA Growing ==
  ASSUME NEW numbers \in Seq(Nat), NEW f \in [0..Len(numbers) -> Int], AddsUp(f, numbers)
  PROVE  \A j \in 0..Len(numbers) : \A i \in 0..j : f[i] <= f[j]
  <1> DEFINE n == Len(numbers)
             T == {j \in 0..n : \A i \in 0..j : f[i] <= f[j]}
  <1>1. n \in Nat /\ \A i \in 1..n : numbers[i] \in Nat /\ f[i] = f[i - 1] + numbers[i]
    BY LenProperties, ElementOfSeq DEF AddsUp
  <1> HIDE DEF T
  <1>2. \A i \in 0..n : f[i] \in Int
    OBVIOUS
  <1> HIDE DEF n
  <1>3. 0 \in T
    BY <1>1, <1>2 DEF T
  <1>4. ASSUME NEW j \in 1..n, j - 1 \in T
        PROVE  j \in T
    <2>1. j \in 0..n /\ j - 1 \in 0..n /\ f[j] \in Int /\ f[j - 1] \in Int
      BY <1>1, <1>2
    <2>2. f[j] = f[j - 1] + numbers[j] /\ numbers[j] \in Nat
      BY <1>1
    <2>3. ASSUME NEW i \in 0..j
          PROVE  f[i] <= f[j]
      <3>1. i \in 0..n /\ f[i] \in Int
        BY <1>1, <1>2, <2>1
      <3>2. CASE i = j
        BY <2>1, <3>2
      <3>3. CASE i # j
        <4>1. i \in 0..(j - 1)
          BY <1>1, <3>3
        <4>2. f[i] <= f[j - 1]
          BY <1>4, <4>1 DEF T
        <4> QED BY <2>1, <2>2, <3>1, <4>2
      <3> QED BY <3>2, <3>3
    <2> QED BY <2>1, <2>3 DEF T
  <1>5. 0..n \subseteq T
    BY <1>1, <1>3, <1>4, BoundedInduction
  <1> QED BY <1>5 DEF T, n

\* Their total is not negative.
LEMMA TotalNat ==
  ASSUME NEW numbers \in Seq(Nat)
  PROVE  Total(numbers) \in Nat
  <1>1. numbers \in Seq(Int)
    OBVIOUS
  <1>2. PICK f \in [0..Len(numbers) -> Int] : AddsUp(f, numbers)
    BY <1>1, AddingUp
  <1>3. Len(numbers) \in 0..Len(numbers) /\ 0 \in 0..Len(numbers)
    BY LenProperties
  <1>4. f[0] <= f[Len(numbers)] /\ f[Len(numbers)] \in Int /\ f[0] = 0
    BY <1>2, <1>3, Growing DEF AddsUp
  <1>5. Total(numbers) = f[Len(numbers)]
    BY <1>1, <1>2, TotalIs
  <1> QED BY <1>4, <1>5

\* A fragment has a number of bytes.
LEMMA BytesNat ==
  ASSUME NEW fragment \in Fragments
  PROVE  Bytes(fragment) \in Nat
  <1> DEFINE n == Len(fragment)
             b == [i \in 1..n |-> HeaderBytes + Len(fragment[i].payload)]
  <1>1. n \in Nat /\ DOMAIN fragment = 1..n /\ \A i \in 1..n : fragment[i] \in Records
    BY LenProperties, ElementOfSeq DEF Fragments
  <1> HIDE DEF n
  <1>2. \A i \in 1..n : HeaderBytes + Len(fragment[i].payload) \in Nat
    <2> SUFFICES ASSUME NEW i \in 1..n PROVE HeaderBytes + Len(fragment[i].payload) \in Nat
      OBVIOUS
    <2>1. fragment[i].payload \in Seq(Nat \X Loops)
      BY <1>1 DEF Records, Payloads
    <2>2. Len(fragment[i].payload) \in Nat
      BY <2>1, LenProperties
    <2> QED BY <2>2, RingAssumption
  <1>3. b \in [1..n -> Nat]
    BY <1>2
  <1>4. b \in Seq(Nat)
    BY <1>1, <1>3, SeqDef
  <1>5. Bytes(fragment) = Total(b)
    BY <1>1 DEF Bytes
  <1> HIDE DEF b
  <1> QED BY <1>4, <1>5, TotalNat

\* The bytes of each fragment.
Weights(t) == [i \in DOMAIN t |-> Bytes(t[i])]

\* They are numbers.
LEMMA WeightsAre ==
  ASSUME NEW t \in Seq(Fragments)
  PROVE  /\ Weights(t) \in Seq(Nat) /\ Weights(t) \in Seq(Int)
         /\ Len(Weights(t)) = Len(t)
         /\ \A i \in 1..Len(t) : Weights(t)[i] = Bytes(t[i])
  <1> DEFINE n == Len(t)
             w == Weights(t)
  <1>1. n \in Nat /\ DOMAIN t = 1..n
    BY LenProperties
  <1>2. \A i \in 1..n : Bytes(t[i]) \in Nat
    BY ElementOfSeq, BytesNat
  <1>3. w = [i \in 1..n |-> Bytes(t[i])]
    BY <1>1 DEF Weights
  <1> HIDE DEF n, w
  <1>4. w \in [1..n -> Nat]
    BY <1>2, <1>3
  <1>5. w \in Seq(Nat)
    BY <1>1, <1>4, SeqDef
  <1>6. Len(w) = n
    BY <1>1, <1>4, <1>5, LenProperties
  <1>7. w \in Seq(Int)
    BY <1>5
  <1> QED BY <1>3, <1>5, <1>6, <1>7 DEF n, w

\* F adds up the bytes of the fragments one by one.
Weighs(F, t) == F \in [0..Len(t) -> Int] /\ AddsUp(F, Weights(t))

\* That can be done.
LEMMA Weighing ==
  ASSUME NEW t \in Seq(Fragments)
  PROVE  \E F : Weighs(F, t)
  <1> DEFINE w == Weights(t)
  <1>1. w \in Seq(Int) /\ Len(w) = Len(t)
    BY WeightsAre
  <1> HIDE DEF w
  <1>2. PICK F \in [0..Len(w) -> Int] : AddsUp(F, w)
    BY <1>1, AddingUp
  <1> QED BY <1>1, <1>2 DEF Weighs, w

\* It does not shrink.
LEMMA WeightGrows ==
  ASSUME NEW t \in Seq(Fragments), NEW F, Weighs(F, t), NEW j \in 0..Len(t), NEW i \in 0..j
  PROVE  F[i] \in Int /\ F[j] \in Int /\ F[i] <= F[j]
  <1> DEFINE w == Weights(t)
  <1>1. w \in Seq(Nat) /\ Len(w) = Len(t)
    BY WeightsAre
  <1>2. F \in [0..Len(t) -> Int] /\ AddsUp(F, w)
    BY DEF Weighs
  <1> HIDE DEF w
  <1>3. F[i] <= F[j]
    BY <1>1, <1>2, Growing
  <1>4. i \in 0..Len(t)
    BY LenProperties
  <1> QED BY <1>2, <1>3, <1>4

\* What is between two places is their difference.
LEMMA BytesBetween ==
  ASSUME NEW t \in Seq(Fragments), NEW F, Weighs(F, t), NEW i \in 0..Len(t), NEW j \in i..Len(t)
  PROVE  BytesOfAll(Slice(t, i, j)) = F[j] - F[i]
  <1>1. PICK v \in Seq(Fragments) : IsSlice(v, t, i, j)
    BY SliceAs
  <1> DEFINE n == j - i
             w == Weights(t)
             x == Weights(v)
             G == [k \in 0..n |-> F[i + k] - F[i]]
  <1>2. Len(t) \in Nat /\ n \in Nat
    BY LenProperties
  <1>3. Len(v) = n /\ \A k \in 1..n : v[k] = t[i + k]
    BY <1>1 DEF IsSlice
  <1>4. /\ x \in Seq(Int) /\ Len(x) = n
        /\ \A k \in 1..n : x[k] = Bytes(v[k])
    BY <1>3, WeightsAre
  <1>5. /\ F \in [0..Len(t) -> Int]
        /\ \A k \in 1..Len(t) : F[k] = F[k - 1] + Bytes(t[k])
    BY WeightsAre DEF Weighs, AddsUp
  <1>6. \A k \in 0..n : i + k \in 0..Len(t) /\ F[i + k] \in Int
    <2>1. \A k \in 0..n : i + k \in 0..Len(t)
      BY <1>2
    <2> HIDE DEF n
    <2> QED BY <1>5, <2>1
  <1>7. F[i] \in Int /\ i \in 0..Len(t) /\ j \in 0..Len(t) /\ i + 0 = i /\ i + n = j
    BY <1>2, <1>5
  <1>8. G \in [0..n -> Int]
    <2> HIDE DEF n
    <2> QED BY <1>6, <1>7
  <1>9. AddsUp(G, x)
    <2>1. G[0] = 0
      <3>1. 0 \in 0..n
        BY <1>2
      <3>2. G[0] = F[i + 0] - F[i]
        BY <3>1
      <3> HIDE DEF G
      <3> QED BY <1>7, <3>2
    <2>2. ASSUME NEW k \in 1..n
          PROVE  G[k] = G[k - 1] + x[k]
      <3>1. k \in 0..n /\ k - 1 \in 0..n /\ i + k \in 1..Len(t) /\ (i + k) - 1 = i + (k - 1)
        BY <1>2
      <3>2. F[i + k] = F[i + (k - 1)] + Bytes(t[i + k])
        BY <1>5, <3>1
      <3>3. x[k] = Bytes(t[i + k])
        BY <1>3, <1>4
      <3>4. Bytes(t[i + k]) \in Int /\ F[i + (k - 1)] \in Int /\ F[i] \in Int
        <4>1. t[i + k] \in Fragments
          BY <3>1, ElementOfSeq
        <4>2. Bytes(t[i + k]) \in Int
          BY <4>1, BytesNat
        <4>3. F[i + (k - 1)] \in Int
          BY <1>6, <3>1
        <4> QED BY <1>7, <4>2, <4>3
      <3>5. G[k] = F[i + k] - F[i] /\ G[k - 1] = F[i + (k - 1)] - F[i]
        BY <3>1
      <3> HIDE DEF G, x
      <3> QED BY <3>2, <3>3, <3>4, <3>5
    <2> HIDE DEF G, x
    <2> QED BY <1>4, <2>1, <2>2 DEF AddsUp
  <1>10. G[n] = F[j] - F[i]
    BY <1>2, <1>7
  <1>11. BytesOfAll(v) = Total(x)
    BY DEF BytesOfAll, Weights
  <1> HIDE DEF G, x, n
  <1>12. Total(x) = G[n]
    BY <1>4, <1>8, <1>9, TotalIs
  <1> QED BY <1>1, <1>10, <1>11, <1>12 DEF IsSlice

\* A ring of the fragments from behind place i to place j.
Holding(t, i, j) == [fragments |-> Slice(t, i, j), bytes |-> BytesOfAll(Slice(t, i, j))]

\* Popping leaves a shorter one.
LEMMA PopIs ==
  ASSUME NEW t \in Seq(Fragments), NEW i \in 0..Len(t), NEW j \in i..Len(t), NEW n \in 0..(j - i)
  PROVE  PopFirst(Holding(t, i, j), n) = Holding(t, i + n, j)
  <1>1. PICK F : Weighs(F, t)
    BY Weighing
  <1>2. PICK v \in Seq(Fragments) : IsSlice(v, t, i, j)
    BY SliceAs
  <1>3. PICK m \in Nat : m = j - i /\ Len(v) = m
    BY <1>2, LenProperties DEF IsSlice
  <1>4. Len(t) \in Nat
    BY LenProperties
  <1>5. 0 \in 0..m /\ n \in 0..m /\ m \in n..m
    BY <1>3
  <1>6. /\ i + 0 = i /\ i + m = j
        /\ i + n \in 0..Len(t) /\ i + n \in i..Len(t) /\ j \in (i + n)..Len(t)
    BY <1>3, <1>4
  <1>7. Slice(v, n, m) = Slice(t, i + n, j)
    <2>1. Slice(v, n, m) = Slice(t, i + n, i + m)
      BY <1>2, <1>3, <1>5, SliceOfSlice DEF IsSlice
    <2> QED BY <1>6, <2>1
  <1>8. Slice(v, 0, n) = Slice(t, i, i + n)
    <2>1. Slice(v, 0, n) = Slice(t, i + 0, i + n)
      BY <1>2, <1>3, <1>5, SliceOfSlice DEF IsSlice
    <2> QED BY <1>6, <2>1
  <1>9. /\ BytesOfAll(Slice(t, i, j)) = F[j] - F[i]
        /\ BytesOfAll(Slice(t, i, i + n)) = F[i + n] - F[i]
        /\ BytesOfAll(Slice(t, i + n, j)) = F[j] - F[i + n]
    BY <1>1, <1>6, BytesBetween
  <1>10. F[i] \in Int /\ F[j] \in Int /\ F[i + n] \in Int
    BY <1>1, <1>4, <1>6 DEF Weighs
  <1>11. F[j] - F[i] - (F[i + n] - F[i]) = F[j] - F[i + n]
    BY <1>10
  <1>12. PopFirst(Holding(t, i, j), n) =
           [fragments |-> SubSeq(v, n + 1, m),
            bytes |-> BytesOfAll(Slice(t, i, j)) - BytesOfAll(SubSeq(v, 1, n))]
    BY <1>2, <1>3 DEF PopFirst, Holding, IsSlice
  <1>13. SubSeq(v, n + 1, m) = Slice(v, n, m) /\ SubSeq(v, 1, n) = Slice(v, 0, n)
    BY DEF Slice
  <1> QED BY <1>7, <1>8, <1>9, <1>11, <1>12, <1>13 DEF Holding

\* A ring that holds what is behind place i is within its limits.
Within(t, i) == Len(t) - i <= MaximumFragments /\ BytesOfAll(Slice(t, i, Len(t))) <= MaximumBytes

\* One that holds more of what is behind place g is not.
IsLatest(t, i, g) == i \in g..Len(t) /\ Within(t, i) /\ (i = g \/ ~Within(t, i - 1))

\* A fragment is added: the ring is the latest of one more.
LEMMA AddIs ==
  ASSUME NEW s \in Seq(Fragments), NEW f \in Fragments, NEW g \in 0..Len(s), NEW i,
         IsLatest(s, i, g)
  PROVE  \E k \in 0..Len(Append(s, f)) :
           /\ IsLatest(Append(s, f), k, g)
           /\ AddFragment(Holding(s, i, Len(s)), f) =
                Holding(Append(s, f), k, Len(Append(s, f)))
  <1>1. PICK N \in Nat : N = Len(s)
    BY LenProperties
  <1>2. PICK t \in Seq(Fragments) : IsAppend(t, s, f)
    BY AppendAs
  <1>3. t = Append(s, f) /\ Len(t) = N + 1 /\ t[N + 1] = f
    BY <1>1, <1>2 DEF IsAppend
  <1>4. PICK F : Weighs(F, t)
    BY Weighing
  <1>5. F \in [0..(N + 1) -> Int] /\ F[N + 1] = F[N] + Bytes(f) /\ Bytes(f) \in Nat
    <2>1. N + 1 \in 1..Len(t) /\ (N + 1) - 1 = N
      BY <1>3
    <2>2. F[N + 1] = F[N] + Weights(t)[N + 1]
      BY <1>4, <2>1, WeightsAre DEF Weighs, AddsUp
    <2>3. Weights(t)[N + 1] = Bytes(f)
      BY <1>3, <2>1, WeightsAre
    <2> QED BY <1>3, <1>4, <2>2, <2>3, BytesNat DEF Weighs
  <1>6. g \in 0..N /\ i \in g..N /\ i \in 0..N
    BY <1>1 DEF IsLatest
  \* Bytes behind a place, before and after.
  <1>7. ASSUME NEW k \in 0..N
        PROVE  /\ BytesOfAll(Slice(s, k, N)) = F[N] - F[k]
               /\ Slice(t, k, N) = Slice(s, k, N)
               /\ Slice(t, k, N + 1) = Append(Slice(s, k, N), f)
               /\ F[k] \in Int /\ F[N] \in Int
    <2>1. k \in 0..Len(s) /\ N \in k..Len(s) /\ k \in 0..Len(t) /\ N \in k..Len(t)
      BY <1>1, <1>3
    <2>2. Slice(t, k, N) = Slice(s, k, N) /\ Slice(t, k, N + 1) = Append(Slice(s, k, N), f)
      BY <1>1, <1>3, <2>1, SliceAppend
    <2>3. BytesOfAll(Slice(t, k, N)) = F[N] - F[k]
      BY <1>4, <2>1, BytesBetween
    <2>4. k \in 0..(N + 1) /\ N \in 0..(N + 1)
      OBVIOUS
    <2> QED BY <1>5, <2>2, <2>3, <2>4
  <1>8. ASSUME NEW k \in 0..(N + 1)
        PROVE  BytesOfAll(Slice(t, k, N + 1)) = F[N + 1] - F[k] /\ F[k] \in Int
    <2>1. k \in 0..Len(t) /\ N + 1 \in k..Len(t)
      BY <1>3
    <2> QED BY <1>4, <1>5, <2>1, BytesBetween
  <1>9. N + 1 \in 0..(N + 1) /\ F[N + 1] \in Int /\ F[N] \in Int
    BY <1>5
  <1>10. MaximumFragments \in Nat \ {0} /\ MaximumBytes \in Nat \ {0}
    BY RingAssumption
  <1> DEFINE old == Holding(s, i, N)
             room == IF Len(old.fragments) >= MaximumFragments THEN PopFirst(old, 1) ELSE old
             more == [fragments |-> Append(room.fragments, f), bytes |-> room.bytes + Bytes(f)]
             P == {n \in 0..Len(more.fragments) : PopFirst(more, n).bytes <= MaximumBytes}
  <1>11. AddFragment(old, f) = PopFirst(more, Min(P))
    BY DEF AddFragment
  \* There is room.
  <1>12. PICK a \in 0..N :
           /\ room = Holding(s, a, N)
           /\ a \in g..N
           /\ N + 1 - a <= MaximumFragments
           /\ a = g \/ N + 2 - a > MaximumFragments \/ F[N + 1] - F[a - 1] > MaximumBytes
    <2>1. /\ N - i <= MaximumFragments /\ F[N] - F[i] <= MaximumBytes
          /\ \/ i = g
             \/ N - (i - 1) > MaximumFragments
             \/ i - 1 \in 0..N /\ F[N] - F[i - 1] > MaximumBytes
      <3>1. Within(s, i) /\ (i = g \/ ~Within(s, i - 1))
        BY DEF IsLatest
      <3>2. N - i <= MaximumFragments /\ F[N] - F[i] <= MaximumBytes
        BY <1>1, <1>6, <1>7, <3>1 DEF Within
      <3>3. ASSUME i # g
            PROVE  \/ N - (i - 1) > MaximumFragments
                   \/ i - 1 \in 0..N /\ F[N] - F[i - 1] > MaximumBytes
        <4>1. i - 1 \in 0..N
          BY <1>6, <3>3
        <4>2. BytesOfAll(Slice(s, i - 1, N)) = F[N] - F[i - 1] /\ F[i - 1] \in Int /\ F[N] \in Int
          BY <1>7, <4>1
        <4>3. \/ ~(N - (i - 1) <= MaximumFragments)
              \/ ~(F[N] - F[i - 1] <= MaximumBytes)
          BY <1>1, <3>1, <3>3, <4>2 DEF Within
        <4> QED BY <1>10, <4>1, <4>2, <4>3
      <3> QED BY <3>2, <3>3
    <2>2. Len(old.fragments) = N - i
      <3>1. N \in i..Len(s) /\ i \in 0..Len(s)
        BY <1>1, <1>6
      <3>2. Len(Slice(s, i, N)) = N - i
        BY <3>1, SliceIs
      <3> QED BY <3>2 DEF Holding
    <2>3. CASE N - i >= MaximumFragments
      <3>1. i + 1 \in 0..N /\ 1 \in 0..(N - i) /\ N \in i..Len(s) /\ i \in 0..Len(s)
        BY <1>1, <1>6, <1>10, <2>3
      <3>2. room = Holding(s, i + 1, N)
        BY <2>2, <2>3, <3>1, PopIs
      <3>3. N - i = MaximumFragments
        BY <1>6, <1>10, <2>1, <2>3
      <3>4. i + 1 \in g..N /\ N + 1 - (i + 1) <= MaximumFragments
            /\ N + 2 - (i + 1) > MaximumFragments
        BY <1>6, <3>1, <3>3
      <3> HIDE DEF room
      <3> QED BY <3>1, <3>2, <3>4
    <2>4. CASE ~(N - i >= MaximumFragments)
      <3>1. room = Holding(s, i, N)
        BY <2>2, <2>4
      <3>2. N + 1 - i <= MaximumFragments
        BY <1>6, <1>10, <2>4
      <3>3. i = g \/ F[N + 1] - F[i - 1] > MaximumBytes
        <4>1. SUFFICES ASSUME i # g PROVE F[N + 1] - F[i - 1] > MaximumBytes
          OBVIOUS
        <4>2. i - 1 \in 0..N /\ F[N] - F[i - 1] > MaximumBytes
          BY <1>6, <1>10, <2>1, <2>4, <4>1
        <4>3. F[i - 1] \in Int
          BY <1>7, <4>2
        <4> QED BY <1>5, <1>9, <1>10, <4>2, <4>3
      <3> HIDE DEF room
      <3> QED BY <1>6, <3>1, <3>2, <3>3
    <2> QED BY <2>3, <2>4
  <1>13. more = Holding(t, a, N + 1)
    <2>1. Append(room.fragments, f) = Slice(t, a, N + 1)
      BY <1>7, <1>12 DEF Holding
    <2>2. room.bytes + Bytes(f) = BytesOfAll(Slice(t, a, N + 1))
      <3>1. room.bytes = F[N] - F[a] /\ F[a] \in Int
        BY <1>7, <1>12 DEF Holding
      <3>2. a \in 0..(N + 1)
        OBVIOUS
      <3>3. BytesOfAll(Slice(t, a, N + 1)) = F[N + 1] - F[a]
        BY <1>8, <3>2
      <3> HIDE DEF room
      <3> QED BY <1>5, <1>9, <3>1, <3>3
    <2> HIDE DEF room
    <2> QED BY <2>1, <2>2 DEF Holding
  <1> HIDE DEF room, more, old
  <1>14. Len(more.fragments) = N + 1 - a
    <2>1. a \in 0..Len(t) /\ N + 1 \in a..Len(t)
      BY <1>3
    <2>2. PICK u \in Seq(Fragments) : IsSlice(u, t, a, N + 1)
      BY <2>1, SliceAs
    <2> QED BY <1>13, <2>2 DEF Holding, IsSlice
  <1>15. ASSUME NEW n \in 0..(N + 1 - a)
         PROVE  /\ PopFirst(more, n) = Holding(t, a + n, N + 1)
                /\ PopFirst(more, n).bytes = F[N + 1] - F[a + n]
                /\ a + n \in 0..(N + 1) /\ F[a + n] \in Int
    <2>1. a \in 0..Len(t) /\ N + 1 \in a..Len(t) /\ a + n \in 0..(N + 1)
      BY <1>3
    <2>2. PopFirst(more, n) = Holding(t, a + n, N + 1)
      BY <1>13, <2>1, PopIs
    <2> QED BY <1>8, <2>1, <2>2 DEF Holding
  <1>16. P = {n \in 0..(N + 1 - a) : F[N + 1] - F[a + n] <= MaximumBytes}
    BY <1>14, <1>15
  <1>17. P \in SUBSET (0..(N + 1 - a)) /\ N + 1 - a \in Nat /\ N + 1 - a \in P
    <2>1. N + 1 - a \in Nat /\ N + 1 - a \in 0..(N + 1 - a) /\ a + (N + 1 - a) = N + 1
      OBVIOUS
    <2>2. F[N + 1] - F[N + 1] <= MaximumBytes
      BY <1>9, <1>10
    <2> HIDE DEF P
    <2> QED BY <1>16, <2>1, <2>2
  <1> HIDE DEF P
  <1>18. PICK p \in 0..(N + 1 - a) : p = Min(P) /\ p \in P /\ \A x \in P : p <= x
    <2>1. Min(P) \in P /\ \A x \in P : Min(P) <= x
      BY <1>17, MinIs
    <2> QED BY <1>17, <2>1
  <1>19. PICK k \in 0..(N + 1) : k = a + p
    BY <1>15
  <1>20. AddFragment(old, f) = Holding(t, k, N + 1)
    BY <1>11, <1>15, <1>18, <1>19
  <1>21. IsLatest(t, k, g)
    <2>1. k \in g..(N + 1) /\ N + 1 - k <= MaximumFragments
      <3>1. a \in g..N /\ N + 1 - a <= MaximumFragments /\ MaximumFragments \in Nat
        BY <1>10, <1>12
      <3>2. k = a + p /\ g \in 0..N
        BY <1>6, <1>19
      <3> QED BY <3>1, <3>2
    <2>2. F[N + 1] - F[k] <= MaximumBytes
      BY <1>16, <1>18, <1>19
    <2>3. Within(t, k)
      BY <1>3, <1>8, <2>1, <2>2 DEF Within
    <2>4. ASSUME k # g
          PROVE  ~Within(t, k - 1)
      <3>1. k - 1 \in 0..(N + 1)
        BY <1>6, <2>1, <2>4
      <3>2. BytesOfAll(Slice(t, k - 1, N + 1)) = F[N + 1] - F[k - 1] /\ F[k - 1] \in Int
        BY <1>8, <3>1
      <3>3. CASE p = 0
        <4>1. k = a
          BY <1>19, <3>3
        <4>2. N + 2 - k > MaximumFragments \/ F[N + 1] - F[k - 1] > MaximumBytes
          BY <1>12, <2>4, <4>1
        <4>3. \/ ~(N + 1 - (k - 1) <= MaximumFragments)
              \/ ~(F[N + 1] - F[k - 1] <= MaximumBytes)
          BY <1>9, <1>10, <3>2, <4>2
        <4> QED BY <1>3, <3>2, <4>3 DEF Within
      <3>4. CASE p # 0
        <4>1. p - 1 \in 0..(N + 1 - a) /\ ~(p <= p - 1) /\ a + (p - 1) = k - 1
          BY <1>18, <1>19, <3>4
        <4>2. p - 1 \notin P
          BY <1>18, <4>1
        <4>3. ~(F[N + 1] - F[k - 1] <= MaximumBytes)
          BY <1>16, <4>1, <4>2
        <4> QED BY <1>3, <3>2, <4>3 DEF Within
      <3> QED BY <3>3, <3>4
    <2> QED BY <1>3, <2>1, <2>3, <2>4 DEF IsLatest
  <1> QED BY <1>1, <1>3, <1>20, <1>21 DEF old

\* The inductive invariant of the ring: there is a place it begins at.
RingInv ==
  fileSink = "ring" =>
    \E i \in 0..Len(fragments) :
      IsLatest(fragments, i, forgotten) /\ ring = Holding(fragments, i, Len(fragments))

\* The first and the last of the latest.
LEMMA LatestIs ==
  ASSUME NEW t \in Seq(Fragments), NEW g \in 0..Len(t), NEW i \in 0..Len(t), IsLatest(t, i, g)
  PROVE  Latest(SubSeq(t, g + 1, Len(t))) = Slice(t, i, Len(t))
  <1>1. PICK N \in Nat : N = Len(t)
    BY LenProperties
  <1>2. g \in 0..N /\ i \in g..N /\ N \in g..N
    BY <1>1 DEF IsLatest
  <1>3. PICK u \in Seq(Fragments) : IsSlice(u, t, g, N)
    BY <1>1, <1>2, SliceAs
  <1>4. PICK M \in Nat : M = N - g /\ Len(u) = M
    BY <1>2, <1>3 DEF IsSlice
  <1> DEFINE Last_(n) == SubSeq(u, M - n + 1, M)
             K == {n \in 0..M : n <= MaximumFragments /\ BytesOfAll(Last_(n)) <= MaximumBytes}
  <1>5. Latest(u) = Last_(Max(K))
    BY <1>4 DEF Latest
  <1>6. ASSUME NEW n \in 0..M
        PROVE  Last_(n) = Slice(t, N - n, N)
    <2>1. /\ g \in 0..Len(t) /\ N \in g..Len(t)
          /\ M - n \in 0..(N - g) /\ M \in (M - n)..(N - g)
      BY <1>1, <1>2, <1>4
    <2>2. Slice(Slice(t, g, N), M - n, M) = Slice(t, g + (M - n), g + M)
      <3> HIDE DEF Last_, K
      <3> QED BY <2>1, SliceOfSlice
    <2>3. g + (M - n) = N - n /\ g + M = N
      BY <1>2, <1>4
    <2>4. u = Slice(t, g, N)
      BY <1>3 DEF IsSlice
    <2> QED BY <2>2, <2>3, <2>4 DEF Slice
  <1>7. PICK F : Weighs(F, t)
    BY Weighing
  <1>8. ASSUME NEW k \in 0..N
        PROVE  BytesOfAll(Slice(t, k, N)) = F[N] - F[k] /\ F[k] \in Int /\ F[N] \in Int
    <2>1. k \in 0..Len(t) /\ N \in k..Len(t) /\ k \in 0..N
      BY <1>1
    <2> QED BY <1>7, <2>1, BytesBetween, WeightGrows
  <1>9. MaximumFragments \in Nat \ {0} /\ MaximumBytes \in Nat \ {0}
    BY RingAssumption
  <1>10. N - i \in K
    <2>1. N - i \in 0..M /\ N - (N - i) = i
      BY <1>2, <1>4
    <2>2. Last_(N - i) = Slice(t, i, N)
      BY <1>6, <2>1
    <2>3. N - i <= MaximumFragments /\ BytesOfAll(Slice(t, i, N)) <= MaximumBytes
      BY <1>1 DEF IsLatest, Within
    <2> HIDE DEF Last_
    <2> QED BY <2>1, <2>2, <2>3
  <1>11. ASSUME NEW n \in K
         PROVE  n <= N - i
    <2> SUFFICES ASSUME n > N - i PROVE FALSE
      BY <1>2, <1>4
    <2>1. n \in 0..M /\ n <= MaximumFragments /\ BytesOfAll(Last_(n)) <= MaximumBytes
      OBVIOUS
    <2>2. N - n \in 0..(i - 1) /\ N - n \in 0..N /\ i - 1 \in 0..N /\ i # g
      BY <1>2, <1>4, <2>1
    <2>3. F[N] - F[N - n] <= MaximumBytes /\ F[N - n] \in Int
      <3>1. BytesOfAll(Slice(t, N - n, N)) <= MaximumBytes
        BY <1>6, <2>1
      <3>2. BytesOfAll(Slice(t, N - n, N)) = F[N] - F[N - n] /\ F[N - n] \in Int
        BY <1>8, <2>2
      <3> QED BY <3>1, <3>2
    <2>4. F[N - n] <= F[i - 1]
      <3>1. i - 1 \in 0..Len(t)
        BY <1>1, <2>2
      <3> QED BY <1>7, <2>2, <3>1, WeightGrows
    <2>5. BytesOfAll(Slice(t, i - 1, N)) = F[N] - F[i - 1] /\ F[i - 1] \in Int /\ F[N] \in Int
      BY <1>8, <2>2
    <2>6. BytesOfAll(Slice(t, i - 1, N)) <= MaximumBytes
      BY <1>9, <2>3, <2>4, <2>5
    <2>7. N - (i - 1) <= MaximumFragments
      <3>1. N - (i - 1) <= n
        BY <1>2, <2>1
      <3> QED BY <1>2, <1>9, <2>1, <3>1
    <2>8. Within(t, i - 1)
      BY <1>1, <2>6, <2>7 DEF Within
    <2> QED BY <2>2, <2>8 DEF IsLatest
  <1> HIDE DEF Last_
  <1>12. K \in SUBSET (0..M) /\ K # {}
    BY <1>10
  <1> HIDE DEF K
  <1>13. Max(K) \in K /\ \A x \in K : x <= Max(K)
    BY <1>12, MaxIs
  <1>14. Max(K) = N - i
    <2>1. Max(K) <= N - i /\ N - i <= Max(K) /\ Max(K) \in 0..M
      BY <1>10, <1>11, <1>12, <1>13
    <2> QED BY <1>2, <2>1
  <1>15. N - i \in 0..M /\ N - (N - i) = i
    BY <1>2, <1>4
  <1>16. Last_(N - i) = Slice(t, i, N)
    BY <1>6, <1>15
  <1> QED BY <1>1, <1>3, <1>5, <1>14, <1>16 DEF IsSlice, Slice

\* No fragments have no bytes.
LEMMA BytesOfNone == BytesOfAll(<<>>) = 0
  <1>1. <<>> \in Seq(Fragments) /\ <<>> \in Seq(Int) /\ Len(<<>>) = 0
    BY EmptySeq
  <1>2. BytesOfAll(<<>>) = Total(<<>>)
    BY DEF BytesOfAll
  <1> DEFINE F == [i \in 0..0 |-> 0]
  <1>3. F \in [0..Len(<<>>) -> Int] /\ F[0] = 0
    BY <1>1
  <1>4. AddsUp(F, <<>>)
    BY <1>1, <1>3 DEF AddsUp
  <1> HIDE DEF F
  <1> QED BY <1>1, <1>2, <1>3, <1>4, TotalIs

\* A fragment is given to the ring.
LEMMA EmissionKeepsRing ==
  ASSUME CaptureTyped, RingInv, fileSink \in Sinks, NEW f \in Fragments, FileSink(f),
         fileSink' = fileSink
  PROVE  RingInv'
  <1> SUFFICES ASSUME fileSink = "ring" PROVE RingInv'
    BY DEF RingInv
  <1>1. /\ fragments' = Append(fragments, f) /\ UNCHANGED forgotten
        /\ ring' = AddFragment(ring, f)
    BY DEF FileSink
  <1>2. PICK i \in 0..Len(fragments) :
          IsLatest(fragments, i, forgotten) /\ ring = Holding(fragments, i, Len(fragments))
    BY DEF RingInv
  <1>3. PICK k \in 0..Len(Append(fragments, f)) :
          /\ IsLatest(Append(fragments, f), k, forgotten)
          /\ AddFragment(ring, f) =
               Holding(Append(fragments, f), k, Len(Append(fragments, f)))
    BY <1>2, AddIs DEF CaptureTyped
  <1> QED BY <1>1, <1>3 DEF RingInv, IsLatest, Holding, Within

\* The ring is handed out.
LEMMA HandingOutKeepsRing ==
  ASSUME CaptureTyped, RingInv, EmitPCAP
  PROVE  RingInv'
  <1>1. UNCHANGED fragments /\ ring' = EmptyRing /\ forgotten' = Len(fragments)
    BY DEF EmitPCAP
  <1>2. PICK N \in Nat : N = Len(fragments)
    BY LenProperties DEF CaptureTyped
  <1>3. Slice(fragments, N, N) = <<>>
    BY SubSeqEmpty DEF Slice
  <1>4. BytesOfAll(<<>>) = 0
    BY BytesOfNone
  <1>5. ring' = Holding(fragments, N, N)
    BY <1>1, <1>3, <1>4 DEF Holding, EmptyRing
  <1>6. IsLatest(fragments, N, N)
    BY <1>2, <1>3, <1>4, RingAssumption DEF IsLatest, Within
  <1>7. N \in 0..Len(fragments)
    BY <1>2
  <1> QED BY <1>1, <1>2, <1>5, <1>6, <1>7 DEF RingInv, IsLatest, Holding, Within

\* The ring's invariant holds always.
LEMMA RingInvAlways == Spec => []RingInv
  <1>1. Init => RingInv
    <2> SUFFICES ASSUME Init PROVE RingInv
      OBVIOUS
    <2>1. Len(<<>>) = 0 /\ Slice(<<>>, 0, 0) = <<>>
      BY SubSeqEmpty DEF Slice
    <2>2. BytesOfAll(<<>>) = 0
      BY BytesOfNone
    <2>3. IsLatest(fragments, 0, forgotten) /\ ring = Holding(fragments, 0, 0)
      BY <2>1, <2>2, RingAssumption DEF Init, IsLatest, Within, Holding, EmptyRing
    <2> QED BY <2>1, <2>3 DEF Init, RingInv
  <1>2. TypeInv /\ RingInv /\ [Next]_vars => RingInv'
    <2>1. ASSUME UNCHANGED <<fileSink, ring, fragments, forgotten>>, RingInv
          PROVE  RingInv'
      BY <2>1 DEF RingInv, IsLatest, Holding, Within
    <2>2. ASSUME TypeInv, RingInv, Next
          PROVE  RingInv'
      <3>1. Shape /\ fileSink' = fileSink /\ CaptureTyped /\ fileSink \in Sinks
        BY <2>2, NextTyped DEF TypeInv, Typed
      <3>2. CASE \E f \in Fragments : FileSink(f)
        BY <2>2, <3>1, <3>2, EmissionKeepsRing
      <3>3. CASE NothingEmitted
        BY <2>1, <2>2, <3>1, <3>3 DEF NothingEmitted, captureVars
      <3>4. CASE EmitPCAP
        BY <2>2, <3>1, <3>4, HandingOutKeepsRing
      <3>5. CASE Sink
        BY <2>1, <2>2, <3>1, <3>5 DEF Sink
      <3> QED BY <3>1, <3>2, <3>3, <3>4, <3>5 DEF Shape
    <2>3. ASSUME RingInv, UNCHANGED vars
          PROVE  RingInv'
      BY <2>1, <2>3 DEF vars, handlerVars, captureVars
    <2> QED BY <2>2, <2>3
  <1> QED BY <1>1, <1>2, TypeInvAlways, PTL DEF Spec

\* Whatever the limits, the ring holds as many of the last fragments as they allow, of those
\* that were not handed out before, and counts their bytes.
THEOREM RingIsLatestAlways == Spec => []RingIsLatest
  <1>1. TypeInv /\ RingInv => RingIsLatest
    <2> SUFFICES ASSUME TypeInv, RingInv, fileSink = "ring"
                 PROVE  /\ ring.fragments =
                             Latest(SubSeq(fragments, forgotten + 1, Len(fragments)))
                        /\ ring.bytes = BytesOfAll(ring.fragments)
      BY DEF RingIsLatest
    <2>1. PICK i \in 0..Len(fragments) :
            IsLatest(fragments, i, forgotten) /\ ring = Holding(fragments, i, Len(fragments))
      BY DEF RingInv
    <2>2. Latest(SubSeq(fragments, forgotten + 1, Len(fragments)))
            = Slice(fragments, i, Len(fragments))
      BY <2>1, LatestIs DEF TypeInv, CaptureTyped
    <2> QED BY <2>1, <2>2 DEF Holding
  <1> QED BY <1>1, TypeInvAlways, RingInvAlways, PTL

-----------------------------------------------------------------------------
(* What records carry.                                                     *)

\* A byte has a number, and the loop of its promise.
Byte == Nat \X Loops

\* What each record carries of a side's bytes.
Parts(records, side) ==
  [i \in DOMAIN records |-> IF records[i].from = side THEN records[i].payload ELSE <<>>]

\* That is bytes.
LEMMA PartsAre ==
  ASSUME NEW r \in Fragments, NEW side
  PROVE  /\ Parts(r, side) \in Seq(Payloads)
         /\ Len(Parts(r, side)) = Len(r)
         /\ \A i \in 1..Len(r) :
              /\ r[i].from = side => Parts(r, side)[i] = r[i].payload
              /\ r[i].from # side => Parts(r, side)[i] = <<>>
         /\ PayloadFrom(r, side) = FlattenSeq(Parts(r, side))
         /\ PayloadFrom(r, side) \in Payloads
  <1> DEFINE n == Len(r)
             p == Parts(r, side)
  <1>1. n \in Nat /\ DOMAIN r = 1..n /\ \A i \in 1..n : r[i].payload \in Payloads
    <2>1. \A i \in 1..n : r[i] \in Records
      BY ElementOfSeq DEF Fragments
    <2> QED BY <2>1, LenProperties DEF Fragments, Records
  <1>2. <<>> \in Payloads
    BY DEF Payloads
  <1>3. p = [i \in 1..n |-> IF r[i].from = side THEN r[i].payload ELSE <<>>]
    BY <1>1 DEF Parts
  <1>4. PayloadFrom(r, side) = FlattenSeq(p)
    BY DEF PayloadFrom, Parts
  <1> HIDE DEF n, p
  <1>5. p \in [1..n -> Payloads]
    BY <1>1, <1>2, <1>3
  <1>6. p \in Seq(Payloads)
    BY <1>1, <1>5, SeqDef
  <1>7. Len(p) = n
    BY <1>1, <1>5, <1>6, LenProperties
  <1>8. FlattenSeq(p) \in Payloads
    BY <1>6, FlattenType DEF Payloads
  <1>9. \A i \in 1..n : /\ r[i].from = side => p[i] = r[i].payload
                        /\ r[i].from # side => p[i] = <<>>
    BY <1>3
  <1> QED BY <1>4, <1>6, <1>7, <1>8, <1>9 DEF n, p

\* One after the other, records carry one after the other.
LEMMA PayloadConcat ==
  ASSUME NEW r \in Fragments, NEW q \in Fragments, NEW side
  PROVE  /\ r \o q \in Fragments
         /\ PayloadFrom(r \o q, side) = PayloadFrom(r, side) \o PayloadFrom(q, side)
  <1> DEFINE W == Records
  <1>1. r \in Seq(W) /\ q \in Seq(W)
    BY DEF Fragments
  <1> HIDE DEF W
  <1>2. PICK n \in Nat, m \in Nat : n = Len(r) /\ m = Len(q)
    BY <1>1, LenProperties
  <1>3. PICK s \in Seq(W) :
          /\ s = r \o q /\ Len(s) = n + m
          /\ \A i \in 1..(n + m) : s[i] = IF i <= n THEN r[i] ELSE q[i - n]
    <2>1. /\ r \o q \in Seq(W) /\ Len(r \o q) = n + m
          /\ \A i \in 1..(n + m) : (r \o q)[i] = IF i <= n THEN r[i] ELSE q[i - n]
      BY <1>1, <1>2, ConcatProperties
    <2> QED BY <2>1
  <1>4. s \in Fragments
    BY <1>3 DEF Fragments, W
  <1>5. PICK a \in Seq(Payloads), b \in Seq(Payloads), c \in Seq(Payloads) :
          a = Parts(r, side) /\ b = Parts(q, side) /\ c = Parts(s, side)
    BY <1>4, PartsAre
  <1>6. Len(a) = n /\ Len(b) = m /\ Len(c) = n + m
    BY <1>2, <1>3, <1>4, <1>5, PartsAre
  <1>7. /\ a \o b \in Seq(Payloads) /\ Len(a \o b) = n + m
        /\ \A i \in 1..(n + m) : (a \o b)[i] = IF i <= n THEN a[i] ELSE b[i - n]
    <2> DEFINE V == Payloads
    <2>1. a \in Seq(V) /\ b \in Seq(V)
      OBVIOUS
    <2> HIDE DEF V
    <2>2. /\ a \o b \in Seq(V) /\ Len(a \o b) = n + m
          /\ \A i \in 1..(n + m) : (a \o b)[i] = IF i <= n THEN a[i] ELSE b[i - n]
      BY <1>6, <2>1, ConcatProperties
    <2> QED BY <2>2 DEF V
  <1>8. ASSUME NEW i \in 1..(n + m)
        PROVE  c[i] = (a \o b)[i]
    <2>1. /\ s[i].from = side => c[i] = s[i].payload
          /\ s[i].from # side => c[i] = <<>>
      <3>1. i \in 1..Len(s)
        BY <1>3
      <3> QED BY <1>4, <1>5, <3>1, PartsAre
    <2>2. CASE i <= n
      <3>1. i \in 1..n /\ s[i] = r[i] /\ (a \o b)[i] = a[i]
        BY <1>3, <1>7, <2>2
      <3>2. /\ r[i].from = side => a[i] = r[i].payload
            /\ r[i].from # side => a[i] = <<>>
        BY <1>2, <1>5, <3>1, PartsAre
      <3> QED BY <2>1, <3>1, <3>2
    <2>3. CASE ~(i <= n)
      <3>1. i - n \in 1..m /\ s[i] = q[i - n] /\ (a \o b)[i] = b[i - n]
        BY <1>3, <1>7, <2>3
      <3>2. /\ q[i - n].from = side => b[i - n] = q[i - n].payload
            /\ q[i - n].from # side => b[i - n] = <<>>
        BY <1>2, <1>5, <3>1, PartsAre
      <3> QED BY <2>1, <3>1, <3>2
    <2> QED BY <2>2, <2>3
  <1>9. c = a \o b
    BY <1>6, <1>7, <1>8, SeqEqual
  <1>10. FlattenSeq(c) = FlattenSeq(a) \o FlattenSeq(b)
    BY <1>5, <1>9, FlattenConcat DEF Payloads
  <1> QED BY <1>3, <1>4, <1>5, <1>10, PartsAre

\* Sequences that are all empty come to nothing.
LEMMA FlattenNothing ==
  ASSUME NEW S, NEW ss \in Seq(Seq(S)), \A i \in 1..Len(ss) : ss[i] = <<>>
  PROVE  FlattenSeq(ss) = <<>>
  <1> DEFINE n == Len(ss)
             f == [i \in 0..n |-> <<>>]
  <1>1. n \in Nat /\ <<>> \in Seq(S)
    BY LenProperties
  <1> HIDE DEF n
  <1>2. f \in [0..n -> Seq(S)] /\ \A i \in 0..n : f[i] = <<>>
    BY <1>1
  <1>3. \A i \in 1..n : i \in 0..n /\ i - 1 \in 0..n
    BY <1>1
  <1>4. 0 \in 0..n /\ n \in 0..n /\ <<>> \o <<>> = <<>>
    BY <1>1
  <1> HIDE DEF f
  <1>5. Concatenates(f, ss)
    BY <1>2, <1>3, <1>4 DEF Concatenates, n
  <1> QED BY <1>2, <1>4, <1>5, FlattenIs DEF n

\* Records without a payload of a side carry nothing of it.
LEMMA PayloadNone ==
  ASSUME NEW r \in Fragments, NEW side,
         \A i \in 1..Len(r) : r[i].from = side => r[i].payload = <<>>
  PROVE  PayloadFrom(r, side) = <<>>
  <1>1. Parts(r, side) \in Seq(Seq(Byte))
    BY PartsAre DEF Byte, Payloads
  <1>2. \A i \in 1..Len(Parts(r, side)) : Parts(r, side)[i] = <<>>
    BY PartsAre
  <1>3. FlattenSeq(Parts(r, side)) = <<>>
    BY <1>1, <1>2, FlattenNothing
  <1> QED BY <1>3, PartsAre

\* Where the bytes end that k pieces hold.
EndOf(bytes, k) == IF k = 0 THEN 0 ELSE PieceEnd(bytes, k)

\* The first k records of some data carry its bytes up to there.
LEMMA PayloadOfData ==
  ASSUME NEW from \in Sides, NEW byteCount \in Nat, NEW bytes \in Payloads,
         NEW k \in 0..Len(Pieces(bytes))
  PROVE  /\ EndOf(bytes, k) \in 0..Len(bytes)
         /\ PayloadFrom(Slice(DataRecords(from, byteCount, bytes), 0, k), from)
              = Slice(bytes, 0, EndOf(bytes, k))
  <1> DEFINE m == MaxPayload
             d == DataRecords(from, byteCount, bytes)
             e(i) == EndOf(bytes, i)
             f == [i \in 0..k |-> Slice(bytes, 0, e(i))]
  <1>1. PICK c \in Nat :
          /\ Pieces(bytes) \in Seq(Payloads)
          /\ Len(Pieces(bytes)) = c
          /\ \A i \in 1..c :
               /\ (i - 1) * m \in Nat
               /\ (i - 1) * m < Len(bytes)
               /\ PieceEnd(bytes, i) \in ((i - 1) * m + 1)..Len(bytes)
               /\ PieceEnd(bytes, i) <= i * m
               /\ PieceEnd(bytes, i) \in {i * m, Len(bytes)}
               /\ Pieces(bytes)[i] = SubSeq(bytes, (i - 1) * m + 1, PieceEnd(bytes, i))
    BY PiecesAre
  <1>2. PICK n \in Nat : n = Len(bytes)
    BY LenProperties DEF Payloads
  <1>3. k \in Nat /\ k \in 0..c
    BY <1>1
  <1>4. ASSUME NEW i \in 0..k
        PROVE  e(i) \in 0..n
    <2>1. CASE i = 0
      BY <1>2, <2>1 DEF EndOf
    <2>2. CASE i # 0
      <3>1. i \in 1..c /\ e(i) = PieceEnd(bytes, i)
        BY <1>3, <2>2 DEF EndOf
      <3>2. (i - 1) * m \in Nat /\ PieceEnd(bytes, i) \in ((i - 1) * m + 1)..n
        BY <1>1, <1>2, <3>1
      <3> QED BY <1>2, <3>1, <3>2
    <2> QED BY <2>1, <2>2
  <1>5. ASSUME NEW i \in 1..k
        PROVE  /\ e(i - 1) = (i - 1) * m /\ e(i - 1) <= e(i)
               /\ Pieces(bytes)[i] = Slice(bytes, e(i - 1), e(i))
    <2>1. i \in 1..c /\ e(i) = PieceEnd(bytes, i)
      BY <1>3 DEF EndOf
    <2>2. e(i - 1) = (i - 1) * m
      <3>1. CASE i = 1
        <4>1. m \in Nat
          BY CaptureAssumption
        <4> QED BY <3>1, <4>1 DEF EndOf
      <3>2. CASE i # 1
        <4>1. i - 1 \in 1..c /\ e(i - 1) = PieceEnd(bytes, i - 1)
          BY <1>3, <2>1, <3>2 DEF EndOf
        <4>2. PieceEnd(bytes, i - 1) \in {(i - 1) * m, n} /\ PieceEnd(bytes, i - 1) <= (i - 1) * m
          BY <1>1, <1>2, <4>1
        <4>3. (i - 1) * m \in Nat /\ (i - 1) * m < n
          BY <1>1, <1>2, <2>1
        <4> QED BY <1>2, <4>1, <4>2, <4>3
      <3> QED BY <3>1, <3>2
    <2>3. /\ (i - 1) * m \in Nat /\ PieceEnd(bytes, i) \in ((i - 1) * m + 1)..n
          /\ Pieces(bytes)[i] = SubSeq(bytes, (i - 1) * m + 1, PieceEnd(bytes, i))
      BY <1>1, <1>2, <2>1
    <2>4. PICK x \in Nat : x = (i - 1) * m
      BY <2>3
    <2>5. e(i - 1) = x
      BY <2>2, <2>4
    <2>6. e(i) \in (x + 1)..n
      BY <2>1, <2>3, <2>4
    <2>7. Pieces(bytes)[i] = Slice(bytes, x, e(i))
      BY <2>1, <2>3, <2>4 DEF Slice
    <2> HIDE DEF e
    <2>8. e(i - 1) <= e(i)
      BY <1>2, <2>5, <2>6
    <2> QED BY <2>2, <2>5, <2>7, <2>8
  <1>6. PICK s \in Fragments : IsSlice(s, d, 0, k)
    <2>1. d \in Seq(Records) /\ Len(d) = c
      BY <1>1, DataRecordsAre DEF Fragments
    <2>2. 0 \in 0..Len(d) /\ k \in 0..Len(d)
      BY <1>3, <2>1
    <2> HIDE DEF d
    <2> QED BY <2>1, <2>2, SliceAs DEF Fragments
  <1>7. Len(s) = k
    BY <1>3, <1>6 DEF IsSlice
  <1>8. PICK p \in Seq(Payloads) : p = Parts(s, from) /\ Len(p) = k
    BY <1>6, <1>7, PartsAre
  <1>9. ASSUME NEW i \in 1..k
        PROVE  p[i] = Pieces(bytes)[i]
    <2>1. i \in 1..(k - 0) /\ 0 + i = i /\ i \in 1..Len(Pieces(bytes))
      BY <1>1, <1>3
    <2>2. s[i] = d[i]
      BY <1>6, <2>1 DEF IsSlice
    <2>3. d[i] = Record(from, {}, SequenceNumber(byteCount + (i - 1) * MaxPayload), NoAck,
                        Pieces(bytes)[i])
      BY <2>1, DataRecordsAre
    <2>4. s[i].from = from /\ s[i].payload = Pieces(bytes)[i]
      BY <2>2, <2>3 DEF Record
    <2> QED BY <1>6, <1>7, <1>8, <2>4, PartsAre
  <1> HIDE DEF d, e
  <1>10. \A i \in 0..k : f[i] \in Seq(Byte)
    <2> SUFFICES ASSUME NEW i \in 0..k PROVE Slice(bytes, 0, e(i)) \in Seq(Byte)
      OBVIOUS
    <2>1. e(i) \in 0..Len(bytes) /\ 0 \in 0..Len(bytes) /\ bytes \in Seq(Byte)
      BY <1>2, <1>4 DEF Payloads, Byte
    <2> QED BY <2>1, SliceIs
  <1>11. f \in [0..k -> Seq(Byte)]
    BY <1>10
  <1>12. Concatenates(f, p)
    <2>1. f[0] = <<>>
      <3>1. e(0) = 0 /\ 0 \in 0..k
        BY <1>3 DEF e, EndOf
      <3>2. Slice(bytes, 0, 0) = <<>>
        BY SubSeqEmpty DEF Slice
      <3> QED BY <3>1, <3>2
    <2>2. ASSUME NEW i \in 1..k
          PROVE  f[i] = f[i - 1] \o p[i]
      <3>1. i \in 0..k /\ i - 1 \in 0..k
        BY <1>3
      <3>2. f[i] = Slice(bytes, 0, e(i)) /\ f[i - 1] = Slice(bytes, 0, e(i - 1))
        BY <3>1
      <3>3. p[i] = Slice(bytes, e(i - 1), e(i))
        BY <1>5, <1>9
      <3>4. e(i) \in 0..n /\ e(i - 1) \in 0..n /\ e(i - 1) <= e(i)
        BY <1>4, <1>5, <3>1
      <3>5. PICK a \in 0..n, b \in 0..n : a = e(i - 1) /\ b = e(i) /\ a <= b
        BY <3>4
      <3>6. /\ bytes \in Seq(Byte) /\ 1 \in 1..(Len(bytes) + 1)
            /\ a \in (1 - 1)..Len(bytes) /\ b \in a..Len(bytes)
        BY <1>2, <3>5 DEF Payloads, Byte
      <3>7. SubSeq(bytes, 1, a) \o SubSeq(bytes, a + 1, b) = SubSeq(bytes, 1, b)
        BY <3>6, ConcatAdjacentSubSeq
      <3>8. Slice(bytes, 0, a) \o Slice(bytes, a, b) = Slice(bytes, 0, b)
        BY <3>7 DEF Slice
      <3> HIDE DEF f
      <3> QED BY <3>2, <3>3, <3>5, <3>8
    <2> HIDE DEF f
    <2> QED BY <1>8, <2>1, <2>2 DEF Concatenates
  <1>13. FlattenSeq(p) = f[k]
    <2>1. p \in Seq(Seq(Byte)) /\ k = Len(p)
      BY <1>8 DEF Payloads, Byte
    <2> HIDE DEF f
    <2> QED BY <1>11, <1>12, <2>1, FlattenIs
  <1>14. k \in 0..k
    BY <1>3
  <1>15. f[k] = Slice(bytes, 0, e(k)) /\ e(k) \in 0..n
    BY <1>4, <1>14
  <1>16. PayloadFrom(s, from) = FlattenSeq(p)
    BY <1>6, <1>8, PartsAre
  <1> HIDE DEF f
  <1> QED BY <1>2, <1>6, <1>13, <1>15, <1>16 DEF e, d, IsSlice

\* The records q of a side carry on with the given number.
GoesOn(q, side, from) ==
  \A i \in 1..Len(q) :
    q[i].from = side =>
      /\ q[i].flags = {} => Len(q[i].payload) \in 1..MaxPayload
      /\ q[i].flags = {} \/ "fin" \in q[i].flags =>
           q[i].seq = (from + Len(PayloadFrom(Slice(q, 0, i - 1), side))) % Width

\* Numbers that follow are a matter of carrying on.
LEMMA NumbersAre ==
  ASSUME NEW r \in Fragments, NEW side, NEW from \in Nat
  PROVE  NumbersFollow(r, side, from) <=> GoesOn(r, side, from)
  <1>1. DOMAIN r = 1..Len(r) /\ Len(r) \in Nat
    BY LenProperties DEF Fragments
  <1>2. ASSUME NEW i \in 1..Len(r)
        PROVE  SubSeq(r, 1, i - 1) = Slice(r, 0, i - 1)
    BY DEF Slice
  <1> QED BY <1>1, <1>2 DEF NumbersFollow, GoesOn

\* The beginning of two sequences, one behind the other.
LEMMA SliceOfConcat ==
  ASSUME NEW S, NEW r \in Seq(S), NEW q \in Seq(S)
  PROVE  /\ \A k \in 0..Len(r) : Slice(r \o q, 0, k) = Slice(r, 0, k)
         /\ \A k \in 0..Len(q) : Slice(r \o q, 0, Len(r) + k) = r \o Slice(q, 0, k)
  <1>1. PICK n \in Nat, m \in Nat : n = Len(r) /\ m = Len(q)
    BY LenProperties
  <1>2. PICK s \in Seq(S) :
          /\ s = r \o q /\ Len(s) = n + m
          /\ \A i \in 1..(n + m) : s[i] = IF i <= n THEN r[i] ELSE q[i - n]
    <2>1. /\ r \o q \in Seq(S) /\ Len(r \o q) = n + m
          /\ \A i \in 1..(n + m) : (r \o q)[i] = IF i <= n THEN r[i] ELSE q[i - n]
      BY <1>1, ConcatProperties
    <2> QED BY <2>1
  <1>3. ASSUME NEW k \in 0..n
        PROVE  Slice(s, 0, k) = Slice(r, 0, k)
    <2>1. 0 \in 0..Len(s) /\ k \in 0..Len(s) /\ 0 \in 0..Len(r) /\ k \in 0..Len(r) /\ k - 0 = k
      BY <1>1, <1>2
    <2>2. PICK u \in Seq(S) : IsSlice(u, s, 0, k)
      BY <2>1, SliceAs
    <2>3. PICK v \in Seq(S) : IsSlice(v, r, 0, k)
      BY <2>1, SliceAs
    <2>4. Len(u) = k /\ Len(v) = k
      BY <2>1, <2>2, <2>3 DEF IsSlice
    <2>5. ASSUME NEW x \in 1..k
          PROVE  u[x] = v[x]
      <3>1. x \in 1..(n + m) /\ x <= n /\ 0 + x = x
        OBVIOUS
      <3>2. u[x] = s[x] /\ v[x] = r[x]
        BY <2>1, <2>2, <2>3, <3>1 DEF IsSlice
      <3> QED BY <1>2, <3>1, <3>2
    <2>6. u = v
      BY <2>4, <2>5, SeqEqual
    <2> QED BY <2>2, <2>3, <2>6 DEF IsSlice
  <1>4. ASSUME NEW k \in 0..m
        PROVE  Slice(s, 0, n + k) = r \o Slice(q, 0, k)
    <2>1. /\ 0 \in 0..Len(s) /\ n + k \in 0..Len(s) /\ 0 \in 0..Len(q) /\ k \in 0..Len(q)
          /\ k - 0 = k /\ (n + k) - 0 = n + k
      BY <1>1, <1>2
    <2>2. PICK u \in Seq(S) : IsSlice(u, s, 0, n + k)
      BY <2>1, SliceAs
    <2>3. PICK v \in Seq(S) : IsSlice(v, q, 0, k)
      BY <2>1, SliceAs
    <2>4. Len(u) = n + k /\ Len(v) = k
      BY <2>1, <2>2, <2>3 DEF IsSlice
    <2>5. PICK w \in Seq(S) :
            /\ w = r \o v /\ Len(w) = n + k
            /\ \A i \in 1..(n + k) : w[i] = IF i <= n THEN r[i] ELSE v[i - n]
      <3>1. /\ r \o v \in Seq(S) /\ Len(r \o v) = n + k
            /\ \A i \in 1..(n + k) : (r \o v)[i] = IF i <= n THEN r[i] ELSE v[i - n]
        BY <1>1, <2>4, ConcatProperties
      <3> QED BY <3>1
    <2>6. ASSUME NEW x \in 1..(n + k)
          PROVE  u[x] = w[x]
      <3>1. x \in 1..(n + m) /\ 0 + x = x
        OBVIOUS
      <3>2. u[x] = s[x]
        BY <2>1, <2>2, <3>1 DEF IsSlice
      <3>3. CASE x <= n
        BY <1>2, <2>5, <3>1, <3>2, <3>3
      <3>4. CASE ~(x <= n)
        <4>1. x - n \in 1..k /\ 0 + (x - n) = x - n
          BY <3>4
        <4>2. v[x - n] = q[x - n]
          BY <2>1, <2>3, <4>1 DEF IsSlice
        <4> QED BY <1>2, <2>5, <3>1, <3>2, <3>4, <4>2
      <3> QED BY <3>3, <3>4
    <2>7. u = w
      BY <2>4, <2>5, <2>6, SeqEqual
    <2> QED BY <2>2, <2>3, <2>5, <2>7 DEF IsSlice
  <1> QED BY <1>1, <1>2, <1>3, <1>4

\* Records that carry on where others end.
LEMMA NumbersGoOn ==
  ASSUME NEW r \in Fragments, NEW q \in Fragments, NEW side, NEW from \in Nat,
         NumbersFollow(r, side, from), GoesOn(q, side, from + Len(PayloadFrom(r, side)))
  PROVE  NumbersFollow(r \o q, side, from)
  <1>1. PICK s \in Fragments : s = r \o q
    BY PayloadConcat
  <1>2. PICK n \in Nat, m \in Nat : n = Len(r) /\ m = Len(q)
    BY LenProperties DEF Fragments
  <1>3. /\ Len(s) = n + m
        /\ \A i \in 1..(n + m) : s[i] = IF i <= n THEN r[i] ELSE q[i - n]
    <2> DEFINE W == Records
    <2>1. r \in Seq(W) /\ q \in Seq(W)
      BY DEF Fragments
    <2> HIDE DEF W
    <2> QED BY <1>1, <1>2, <2>1, ConcatProperties
  <1>4. GoesOn(r, side, from)
    BY NumbersAre
  <1>5. /\ \A k \in 0..n : Slice(s, 0, k) = Slice(r, 0, k)
        /\ \A k \in 0..m : Slice(s, 0, n + k) = r \o Slice(q, 0, k)
    <2> DEFINE W == Records
    <2>1. r \in Seq(W) /\ q \in Seq(W)
      BY DEF Fragments
    <2> HIDE DEF W
    <2>2. /\ \A k \in 0..Len(r) : Slice(r \o q, 0, k) = Slice(r, 0, k)
          /\ \A k \in 0..Len(q) : Slice(r \o q, 0, Len(r) + k) = r \o Slice(q, 0, k)
      BY <2>1, SliceOfConcat
    <2> QED BY <1>1, <1>2, <2>2
  <1>6. GoesOn(s, side, from)
    <2> SUFFICES ASSUME NEW i \in 1..(n + m), s[i].from = side
                 PROVE
                   /\ s[i].flags = {} => Len(s[i].payload) \in 1..MaxPayload
                   /\ s[i].flags = {} \/ "fin" \in s[i].flags =>
                        s[i].seq = (from + Len(PayloadFrom(Slice(s, 0, i - 1), side))) % Width
      BY <1>3 DEF GoesOn
    <2>1. CASE i <= n
      <3>1. i \in 1..n /\ i - 1 \in 0..n /\ s[i] = r[i]
        BY <1>3, <2>1
      <3>2. Slice(s, 0, i - 1) = Slice(r, 0, i - 1)
        BY <1>5, <3>1
      <3> QED BY <1>2, <1>4, <3>1, <3>2 DEF GoesOn
    <2>2. CASE ~(i <= n)
      <3>1. PICK j \in 1..m : j = i - n /\ i - 1 = n + (j - 1) /\ j - 1 \in 0..m
        BY <2>2
      <3>2. s[i] = q[j]
        BY <1>3, <2>2, <3>1
      <3>3. PICK t \in Fragments : t = Slice(q, 0, j - 1)
        <4>1. q \in Seq(Records) /\ 0 \in 0..Len(q) /\ j - 1 \in 0..Len(q)
          BY <1>2, <3>1 DEF Fragments
        <4>2. Slice(q, 0, j - 1) \in Seq(Records)
          BY <4>1, SliceIs
        <4> QED BY <4>2 DEF Fragments
      <3>4. Slice(s, 0, i - 1) = r \o t
        BY <1>5, <3>1, <3>3
      <3>5. PICK x \in Seq(Byte), y \in Seq(Byte) :
              x = PayloadFrom(r, side) /\ y = PayloadFrom(t, side)
        BY PartsAre DEF Payloads, Byte
      <3>6. PayloadFrom(r \o t, side) = PayloadFrom(r, side) \o PayloadFrom(t, side)
        BY PayloadConcat
      <3>7. PICK z \in Nat, k \in Nat, l \in Nat :
              z = Len(x \o y) /\ k = Len(x) /\ l = Len(y) /\ z = k + l
        BY LenProperties, ConcatProperties
      <3>8. Len(PayloadFrom(Slice(s, 0, i - 1), side)) = z
        BY <3>4, <3>5, <3>6, <3>7
      <3>9. /\ q[j].flags = {} => Len(q[j].payload) \in 1..MaxPayload
            /\ q[j].flags = {} \/ "fin" \in q[j].flags =>
                 q[j].seq = ((from + k) + l) % Width
        BY <1>2, <3>2, <3>3, <3>5, <3>7 DEF GoesOn
      <3>10. (from + k) + l = from + z
        BY <3>7
      <3> QED BY <3>2, <3>8, <3>9, <3>10
    <2> QED BY <2>1, <2>2
  <1> QED BY <1>1, <1>6, NumbersAre

\* Data carries on, and is carried.
LEMMA DataGoesOn ==
  ASSUME NEW from \in Sides, NEW next \in Nat, NEW bytes \in Payloads
  PROVE  LET d == DataRecords(from, next, bytes) IN
         /\ d \in Fragments
         /\ PayloadFrom(d, from) = bytes
         /\ GoesOn(d, from, next)
         /\ \A side \in Sides : side # from =>
              PayloadFrom(d, side) = <<>> /\ \A b \in Nat : GoesOn(d, side, b)
  <1> DEFINE m == MaxPayload
  <1>1. PICK d \in Fragments :
          /\ d = DataRecords(from, next, bytes)
          /\ Len(d) = Len(Pieces(bytes))
          /\ \A i \in 1..Len(Pieces(bytes)) :
               d[i] = Record(from, {}, SequenceNumber(next + (i - 1) * m), NoAck,
                             Pieces(bytes)[i])
    BY DataRecordsAre
  <1>2. PICK c \in Nat :
          /\ Len(Pieces(bytes)) = c
          /\ Len(bytes) <= c * m
          /\ \A i \in 1..c :
               /\ (i - 1) * m \in Nat
               /\ (i - 1) * m < Len(bytes)
               /\ PieceEnd(bytes, i) \in ((i - 1) * m + 1)..Len(bytes)
               /\ PieceEnd(bytes, i) <= i * m
               /\ PieceEnd(bytes, i) \in {i * m, Len(bytes)}
               /\ Len(Pieces(bytes)[i]) \in 1..m
    BY PiecesAre
  <1>3. m \in Nat \ {0} /\ Len(bytes) \in Nat /\ bytes \in Seq(Byte)
    BY CaptureAssumption, LenProperties DEF Payloads, Byte
  <1>4. \A i \in 1..c : d[i].from = from /\ d[i].flags = {} /\ d[i].payload = Pieces(bytes)[i]
                        /\ d[i].seq = SequenceNumber(next + (i - 1) * m)
    <2> SUFFICES ASSUME NEW i \in 1..c
                 PROVE  /\ d[i].from = from /\ d[i].flags = {}
                        /\ d[i].payload = Pieces(bytes)[i]
                        /\ d[i].seq = SequenceNumber(next + (i - 1) * m)
      OBVIOUS
    <2> DEFINE seq == SequenceNumber(next + (i - 1) * m)
    <2>1. d[i] = Record(from, {}, seq, NoAck, Pieces(bytes)[i])
      BY <1>1, <1>2
    <2> HIDE DEF seq
    <2>2. /\ d[i].from = from /\ d[i].flags = {}
          /\ d[i].payload = Pieces(bytes)[i] /\ d[i].seq = seq
      BY <2>1 DEF Record
    <2> QED BY <2>2 DEF seq
  <1>5. EndOf(bytes, c) = Len(bytes)
    <2>1. CASE c = 0
      <3>1. c * m = 0
        BY <1>3, <2>1
      <3> QED BY <1>2, <1>3, <2>1, <3>1 DEF EndOf
    <2>2. CASE c # 0
      <3>1. c \in 1..c
        BY <2>2
      <3>2. PICK x \in Nat : x = c * m
        BY <1>3
      <3> QED BY <1>2, <1>3, <2>2, <3>1, <3>2 DEF EndOf
    <2> QED BY <2>1, <2>2
  <1>6. \A i \in 1..c : EndOf(bytes, i - 1) = (i - 1) * m
    <2> SUFFICES ASSUME NEW i \in 1..c PROVE EndOf(bytes, i - 1) = (i - 1) * m
      OBVIOUS
    <2>1. CASE i = 1
      <3>1. (i - 1) * m = 0
        BY <1>3, <2>1
      <3> QED BY <2>1, <3>1 DEF EndOf
    <2>2. CASE i # 1
      <3>1. i - 1 \in 1..c /\ EndOf(bytes, i - 1) = PieceEnd(bytes, i - 1)
        BY <2>2 DEF EndOf
      <3>2. PICK x \in Nat : x = (i - 1) * m /\ x < Len(bytes)
        BY <1>2
      <3> QED BY <1>2, <1>3, <3>1, <3>2
    <2> QED BY <2>1, <2>2
  <1>7. ASSUME NEW k \in 0..c
        PROVE  /\ EndOf(bytes, k) \in 0..Len(bytes)
               /\ PayloadFrom(Slice(d, 0, k), from) = Slice(bytes, 0, EndOf(bytes, k))
    <2>1. k \in 0..Len(Pieces(bytes))
      BY <1>2
    <2> QED BY <1>1, <2>1, PayloadOfData
  <1>8. PayloadFrom(d, from) = bytes
    <2>1. c \in 0..c
      OBVIOUS
    <2>2. PayloadFrom(Slice(d, 0, c), from) = Slice(bytes, 0, Len(bytes))
      BY <1>5, <1>7, <2>1
    <2>3. Slice(d, 0, c) = d
      BY <1>1, <1>2, SubSeqFull DEF Slice, Fragments
    <2>4. Slice(bytes, 0, Len(bytes)) = bytes
      BY <1>3, SubSeqFull DEF Slice
    <2> QED BY <2>2, <2>3, <2>4
  <1>9. GoesOn(d, from, next)
    <2> SUFFICES ASSUME NEW i \in 1..c
                 PROVE
                   /\ Len(d[i].payload) \in 1..MaxPayload
                   /\ d[i].seq =
                        (next + Len(PayloadFrom(Slice(d, 0, i - 1), from))) % Width
      BY <1>1, <1>2 DEF GoesOn
    <2>1. i - 1 \in 0..c
      OBVIOUS
    <2>2. PICK x \in Nat : x = (i - 1) * m /\ x = EndOf(bytes, i - 1)
      BY <1>2, <1>6
    <2>3. x \in 0..Len(bytes) /\ 0 \in 0..Len(bytes) /\ x - 0 = x
      BY <1>3, <1>7, <2>1, <2>2
    <2>4. PICK u \in Seq(Byte) : IsSlice(u, bytes, 0, x)
      BY <1>3, <2>3, SliceAs
    <2>5. Len(PayloadFrom(Slice(d, 0, i - 1), from)) = x
      BY <1>7, <2>1, <2>2, <2>3, <2>4 DEF IsSlice
    <2>6. d[i].seq = (next + x) % Width
      BY <1>4, <2>2 DEF SequenceNumber
    <2>7. Len(d[i].payload) \in 1..MaxPayload
      BY <1>2, <1>4
    <2> QED BY <2>5, <2>6, <2>7
  <1>10. ASSUME NEW side \in Sides, side # from
         PROVE  PayloadFrom(d, side) = <<>> /\ \A b \in Nat : GoesOn(d, side, b)
    <2>1. \A i \in 1..Len(d) : d[i].from # side
      BY <1>1, <1>2, <1>4, <1>10
    <2>2. PayloadFrom(d, side) = <<>>
      BY <2>1, PayloadNone
    <2> QED BY <2>1, <2>2 DEF GoesOn
  <1> QED BY <1>1, <1>8, <1>9, <1>10

\* The records of the end carry on, and carry nothing.
LEMMA TerminationGoesOn ==
  ASSUME Typed, NEW initiator \in Sides, NEW heard \in Nat, NEW said \in Nat,
         readInboundBytes = heard, writtenOutboundBytes = said
  PROVE  /\ \A side \in Sides : PayloadFrom(Termination(initiator), side) = <<>>
         /\ GoesOn(Termination(initiator), "remote", heard)
         /\ GoesOn(Termination(initiator), "local", said)
  <1> DEFINE isLocal == initiator = "local"
             a == SequenceNumber(IF isLocal THEN writtenOutboundBytes ELSE readInboundBytes)
             b == SequenceNumber(IF isLocal THEN readInboundBytes ELSE writtenOutboundBytes)
             x == Record(initiator, {"fin"}, a, NoAck, <<>>)
             y == Record(Other(initiator), {"ack", "fin"}, b, a + 1, <<>>)
             z == Record(initiator, {"ack"}, a + 1, b + 1, <<>>)
  <1>1. PICK t \in Fragments : t = Termination(initiator)
    BY TerminationIs
  <1>2. t = <<x, y, z>>
    BY <1>1 DEF Termination
  <1>3. /\ x.from = initiator /\ x.flags = {"fin"} /\ x.seq = a /\ x.payload = <<>>
        /\ y.from = Other(initiator) /\ y.flags = {"ack", "fin"} /\ y.seq = b /\ y.payload = <<>>
        /\ z.from = initiator /\ z.flags = {"ack"} /\ z.payload = <<>>
    BY DEF Record
  <1>4. /\ isLocal => a = said % Width /\ b = heard % Width
        /\ ~isLocal => a = heard % Width /\ b = said % Width
    BY DEF SequenceNumber
  <1> HIDE DEF x, y, z, a, b
  <1>5. Len(t) = 3 /\ t[1] = x /\ t[2] = y /\ t[3] = z
    BY <1>2
  <1>6. \A i \in 1..3 : t[i].payload = <<>>
    <2> SUFFICES ASSUME NEW i \in 1..3 PROVE t[i].payload = <<>>
      OBVIOUS
    <2>1. i = 1 \/ i = 2 \/ i = 3
      OBVIOUS
    <2> QED BY <1>3, <1>5, <2>1
  <1>7. ASSUME NEW side \in Sides, NEW i \in 1..3
        PROVE  Len(PayloadFrom(Slice(t, 0, i - 1), side)) = 0
    <2>1. 0 \in 0..Len(t) /\ i - 1 \in 0..Len(t) /\ t \in Seq(Records)
      BY <1>5 DEF Fragments
    <2>2. PICK s \in Seq(Records) : IsSlice(s, t, 0, i - 1)
      BY <2>1, SliceAs
    <2>3. s \in Fragments /\ Len(s) = i - 1 /\ \A k \in 1..Len(s) : s[k] = t[k]
      BY <2>2 DEF IsSlice, Fragments
    <2>4. \A k \in 1..Len(s) : s[k].payload = <<>>
      BY <1>6, <2>3
    <2>5. PayloadFrom(s, side) = <<>>
      BY <2>3, <2>4, PayloadNone
    <2>6. Len(<<>>) = 0
      OBVIOUS
    <2> QED BY <2>2, <2>5, <2>6 DEF IsSlice
  <1>8. ASSUME NEW side \in Sides, NEW n \in Nat,
               /\ x.from = side => x.seq = n % Width
               /\ y.from = side => y.seq = n % Width
        PROVE  GoesOn(t, side, n)
    <2> SUFFICES ASSUME NEW i \in 1..3, t[i].from = side
                 PROVE
                   /\ t[i].flags = {} => Len(t[i].payload) \in 1..MaxPayload
                   /\ t[i].flags = {} \/ "fin" \in t[i].flags =>
                        t[i].seq = (n + Len(PayloadFrom(Slice(t, 0, i - 1), side))) % Width
      BY <1>5 DEF GoesOn
    <2>1. n + Len(PayloadFrom(Slice(t, 0, i - 1), side)) = n
      BY <1>7
    <2>2. i = 1 \/ i = 2 \/ i = 3
      OBVIOUS
    <2>3. t[i].flags # {} /\ ("fin" \in t[i].flags => i # 3)
      BY <1>3, <1>5, <2>2
    <2>4. i # 3 => t[i].seq = n % Width
      BY <1>5, <1>8, <2>2
    <2> QED BY <2>1, <2>3, <2>4
  <1>9. GoesOn(t, "remote", heard)
    <2>1. x.from = "remote" => x.seq = heard % Width
      BY <1>3, <1>4
    <2>2. y.from = "remote" => y.seq = heard % Width
      BY <1>3, <1>4 DEF Other
    <2> QED BY <1>8, <2>1, <2>2 DEF Sides
  <1>10. GoesOn(t, "local", said)
    <2>1. x.from = "local" => x.seq = said % Width
      BY <1>3, <1>4
    <2>2. y.from = "local" => y.seq = said % Width
      BY <1>3, <1>4 DEF Other
    <2> QED BY <1>8, <2>1, <2>2 DEF Sides
  <1>11. \A side \in Sides : PayloadFrom(t, side) = <<>>
    BY <1>5, <1>6, PayloadNone
  <1> QED BY <1>1, <1>9, <1>10, <1>11

\* The records of the beginning carry nothing, and have numbers of their own.
LEMMA OpeningGoesOn ==
  ASSUME NEW side \in Sides, NEW next
  PROVE  PayloadFrom(Opening, side) = <<>> /\ GoesOn(Opening, side, next)
  <1> DEFINE client == IF Mode = "client" THEN "local" ELSE "remote"
             x == Record(client, {"syn"}, 0, NoAck, <<>>)
             y == Record(Other(client), {"syn", "ack"}, 0, 1, <<>>)
             z == Record(client, {"ack"}, 1, 1, <<>>)
  <1>1. PICK t \in Fragments : t = Opening
    BY OpeningIs
  <1>2. t = <<x, y, z>>
    BY <1>1 DEF Opening
  <1>3. /\ x.flags = {"syn"} /\ x.payload = <<>>
        /\ y.flags = {"syn", "ack"} /\ y.payload = <<>>
        /\ z.flags = {"ack"} /\ z.payload = <<>>
    BY DEF Record
  <1> HIDE DEF x, y, z
  <1>4. Len(t) = 3 /\ t[1] = x /\ t[2] = y /\ t[3] = z
    BY <1>2
  <1>5. \A i \in 1..3 : t[i].payload = <<>> /\ t[i].flags # {} /\ "fin" \notin t[i].flags
    <2> SUFFICES ASSUME NEW i \in 1..3
                 PROVE  t[i].payload = <<>> /\ t[i].flags # {} /\ "fin" \notin t[i].flags
      OBVIOUS
    <2>1. i = 1 \/ i = 2 \/ i = 3
      OBVIOUS
    <2> QED BY <1>3, <1>4, <2>1
  <1>6. PayloadFrom(t, side) = <<>>
    BY <1>4, <1>5, PayloadNone
  <1> QED BY <1>1, <1>4, <1>5, <1>6 DEF GoesOn

\* The bytes of a loop, one by one.
Picks(bytes, loop) == [i \in DOMAIN bytes |-> IF bytes[i][2] = loop THEN <<bytes[i]>> ELSE <<>>]

\* They are bytes.
LEMMA PicksAre ==
  ASSUME NEW b \in Payloads, NEW loop
  PROVE  /\ Picks(b, loop) \in Seq(Seq(Byte))
         /\ Len(Picks(b, loop)) = Len(b)
         /\ \A i \in 1..Len(b) : /\ b[i][2] = loop => Picks(b, loop)[i] = <<b[i]>>
                                 /\ b[i][2] # loop => Picks(b, loop)[i] = <<>>
         /\ OnLoop(b, loop) = FlattenSeq(Picks(b, loop))
         /\ OnLoop(b, loop) \in Seq(Byte)
  <1> DEFINE n == Len(b)
             p == Picks(b, loop)
  <1>1. n \in Nat /\ DOMAIN b = 1..n /\ \A i \in 1..n : b[i] \in Byte
    BY LenProperties, ElementOfSeq DEF Payloads, Byte
  <1>2. \A i \in 1..n : <<b[i]>> \in Seq(Byte)
    BY <1>1
  <1>3. p = [i \in 1..n |-> IF b[i][2] = loop THEN <<b[i]>> ELSE <<>>]
    BY <1>1 DEF Picks
  <1>4. OnLoop(b, loop) = FlattenSeq(p)
    BY DEF OnLoop, Picks
  <1> HIDE DEF n, p
  <1>5. p \in [1..n -> Seq(Byte)]
    <2>1. <<>> \in Seq(Byte)
      OBVIOUS
    <2> DEFINE W == Seq(Byte)
    <2> HIDE DEF W
    <2> QED BY <1>2, <1>3, <2>1 DEF W
  <1>6. p \in Seq(Seq(Byte))
    BY <1>1, <1>5, SeqDef
  <1>7. Len(p) = n
    BY <1>1, <1>5, <1>6, LenProperties
  <1>8. FlattenSeq(p) \in Seq(Byte)
    BY <1>6, FlattenType
  <1>9. \A i \in 1..n : /\ b[i][2] = loop => p[i] = <<b[i]>>
                        /\ b[i][2] # loop => p[i] = <<>>
    BY <1>3
  <1> QED BY <1>4, <1>6, <1>7, <1>8, <1>9 DEF n, p

\* One after the other.
LEMMA OnLoopConcat ==
  ASSUME NEW x \in Payloads, NEW y \in Payloads, NEW loop
  PROVE  OnLoop(x \o y, loop) = OnLoop(x, loop) \o OnLoop(y, loop)
  <1>1. x \in Seq(Byte) /\ y \in Seq(Byte)
    BY DEF Payloads, Byte
  <1>2. PICK n \in Nat, m \in Nat : n = Len(x) /\ m = Len(y)
    BY <1>1, LenProperties
  <1> DEFINE V == Byte
             U == Seq(Byte)
  <1>3. PICK s \in Payloads :
          /\ s = x \o y /\ Len(s) = n + m
          /\ \A i \in 1..(n + m) : s[i] = IF i <= n THEN x[i] ELSE y[i - n]
    <2>1. x \in Seq(V) /\ y \in Seq(V)
      BY <1>1
    <2> HIDE DEF V
    <2>2. /\ x \o y \in Seq(V) /\ Len(x \o y) = n + m
          /\ \A i \in 1..(n + m) : (x \o y)[i] = IF i <= n THEN x[i] ELSE y[i - n]
      BY <1>2, <2>1, ConcatProperties
    <2> QED BY <2>2 DEF Payloads, V, Byte
  <1>4. PICK a \in Seq(U), b \in Seq(U), c \in Seq(U) :
          a = Picks(x, loop) /\ b = Picks(y, loop) /\ c = Picks(s, loop)
    BY PicksAre
  <1>5. Len(a) = n /\ Len(b) = m /\ Len(c) = n + m
    BY <1>2, <1>3, <1>4, PicksAre
  <1> HIDE DEF U, V
  <1>6. /\ a \o b \in Seq(U) /\ Len(a \o b) = n + m
        /\ \A i \in 1..(n + m) : (a \o b)[i] = IF i <= n THEN a[i] ELSE b[i - n]
    BY <1>5, ConcatProperties
  <1>7. ASSUME NEW i \in 1..(n + m)
        PROVE  c[i] = (a \o b)[i]
    <2>1. /\ s[i][2] = loop => c[i] = <<s[i]>>
          /\ s[i][2] # loop => c[i] = <<>>
      <3>1. i \in 1..Len(s)
        BY <1>3
      <3> QED BY <1>4, <3>1, PicksAre
    <2>2. CASE i <= n
      <3>1. i \in 1..n /\ s[i] = x[i] /\ (a \o b)[i] = a[i]
        BY <1>3, <1>6, <2>2
      <3>2. /\ x[i][2] = loop => a[i] = <<x[i]>>
            /\ x[i][2] # loop => a[i] = <<>>
        BY <1>2, <1>4, <3>1, PicksAre
      <3> QED BY <2>1, <3>1, <3>2
    <2>3. CASE ~(i <= n)
      <3>1. i - n \in 1..m /\ s[i] = y[i - n] /\ (a \o b)[i] = b[i - n]
        BY <1>3, <1>6, <2>3
      <3>2. /\ y[i - n][2] = loop => b[i - n] = <<y[i - n]>>
            /\ y[i - n][2] # loop => b[i - n] = <<>>
        BY <1>2, <1>4, <3>1, PicksAre
      <3> QED BY <2>1, <3>1, <3>2
    <2> QED BY <2>2, <2>3
  <1>8. c = a \o b
    BY <1>5, <1>6, <1>7, SeqEqual
  <1>9. FlattenSeq(c) = FlattenSeq(a) \o FlattenSeq(b)
    BY <1>8, FlattenConcat DEF U
  <1> QED BY <1>3, <1>4, <1>9, PicksAre

\* All of the bytes are of the loop.
LEMMA OnLoopAll ==
  ASSUME NEW b \in Payloads, NEW loop, \A i \in 1..Len(b) : b[i][2] = loop
  PROVE  OnLoop(b, loop) = b
  <1> DEFINE n == Len(b)
             f == [i \in 0..n |-> Slice(b, 0, i)]
  <1>1. n \in Nat /\ b \in Seq(Byte)
    BY LenProperties DEF Payloads, Byte
  <1>2. PICK p \in Seq(Seq(Byte)) :
          /\ p = Picks(b, loop) /\ Len(p) = n
          /\ \A i \in 1..n : p[i] = <<b[i]>>
    BY PicksAre
  <1>3. f \in [0..n -> Seq(Byte)]
    <2>1. \A i \in 0..n : Slice(b, 0, i) \in Seq(Byte)
      <3> SUFFICES ASSUME NEW i \in 0..n PROVE Slice(b, 0, i) \in Seq(Byte)
        OBVIOUS
      <3>1. 0 \in 0..Len(b) /\ i \in 0..Len(b)
        BY <1>1
      <3> QED BY <1>1, <3>1, SliceIs
    <2> QED BY <2>1
  <1>4. Concatenates(f, p)
    <2>1. f[0] = <<>>
      <3>1. 0 \in 0..n /\ Slice(b, 0, 0) = <<>>
        BY <1>1, SubSeqEmpty DEF Slice
      <3> QED BY <3>1
    <2>2. ASSUME NEW i \in 1..n
          PROVE  f[i] = f[i - 1] \o p[i]
      <3>1. i \in 0..n /\ i - 1 \in 0..n
        BY <1>1
      <3>2. f[i] = Slice(b, 0, i) /\ f[i - 1] = Slice(b, 0, i - 1)
        BY <3>1
      <3>3. 1 \in 1..Len(b) /\ i \in 1..Len(b)
        BY <1>1
      <3>4. SubSeq(b, 1, i) = SubSeq(b, 1, i - 1) \o <<b[i]>>
        BY <1>1, <3>3, SubSeqRecursiveSecond
      <3>5. Slice(b, 0, i) = Slice(b, 0, i - 1) \o <<b[i]>>
        BY <3>4 DEF Slice
      <3> HIDE DEF f
      <3> QED BY <1>2, <3>2, <3>5
    <2> HIDE DEF f
    <2> QED BY <1>2, <2>1, <2>2 DEF Concatenates
  <1>5. f[n] = b
    <2>1. n \in 0..n /\ Slice(b, 0, n) = b
      BY <1>1, SubSeqFull DEF Slice
    <2> QED BY <2>1
  <1> HIDE DEF f
  <1>6. FlattenSeq(p) = f[n]
    BY <1>2, <1>3, <1>4, FlattenIs
  <1> QED BY <1>2, <1>5, <1>6, PicksAre

\* None of them is.
LEMMA OnLoopNone ==
  ASSUME NEW b \in Payloads, NEW loop, \A i \in 1..Len(b) : b[i][2] # loop
  PROVE  OnLoop(b, loop) = <<>>
  <1>1. PICK p \in Seq(Seq(Byte)) :
          /\ p = Picks(b, loop) /\ Len(p) = Len(b)
          /\ \A i \in 1..Len(b) : p[i] = <<>>
    BY PicksAre
  <1>2. FlattenSeq(p) = <<>>
    BY <1>1, FlattenNothing
  <1> QED BY <1>1, <1>2, PicksAre

-----------------------------------------------------------------------------
(* The conversation.                                                       *)

\* All records, and what those of a side carry.
Rec == FlattenSeq(fragments)
Carries(side) == PayloadFrom(Rec, side)

\* All the bytes belong to one loop.
AllOn(bytes, loop) == \A k \in 1..Len(bytes) : bytes[k][2] = loop

\* The records before channelActive, and those behind it, and what these carry.
Before == FlattenSeq(SubSeq(fragments, 1, early))
Behind == FlattenSeq(SubSeq(fragments, early + 1, Len(fragments)))
Late(side) == PayloadFrom(Behind, side)

\* Records are numbered without a gap.
Numbered ==
  \A side \in Sides : NumbersFollow(Before, side, 0) /\ NumbersFollow(Behind, side, first)

\* The reads that the handler saw are captured.
Heard == Carries("remote") = [i \in 1..seen |-> <<i, "own">>]

\* The writes are: when issued, or when they complete and their callbacks have come over.
Said ==
  /\ emitPCAPWrites = "whenIssued" => Carries("local") = issued /\ hopping = <<>>
  /\ emitPCAPWrites = "whenCompleted" =>
       \A loop \in Loops :
         OnLoop(Carries("local") \o FlattenSeq(hopping), loop) = OnLoop(wire, loop)

\* What waits to complete belongs to its loop; what hops over comes from another.
Waits ==
  /\ \A i \in 1..Len(pending) : AllOn(pending[i].bytes, pending[i].loop)
  /\ OnLoop(FlattenSeq(hopping), "own") = <<>>

\* The counters of the handler agree with what was captured since channelActive.
Counted ==
  /\ readInboundBytes = first + Len(Late("remote"))
  /\ writtenOutboundBytes = first + Len(Late("local"))

\* As long as nobody has begun to close, all that is read is captured.
HearsAll ==
  channel \in Open =>
    /\ closeState = "notClosing" <=> ended = {}
    /\ ended = {} => seen = read

\* A channel that is connecting has not been active.
Starts == channel = "connecting" => first = 0

\* The inductive invariant of the conversation.
ConversationInv == Numbered /\ Heard /\ Said /\ Waits /\ Counted /\ HearsAll /\ Starts

\* The capture is of records, and carries bytes.
LEMMA CarriesIs ==
  ASSUME CaptureTyped, NEW side
  PROVE  Rec \in Fragments /\ Carries(side) \in Payloads
  <1>1. Rec \in Fragments
    BY FlattenType DEF CaptureTyped, Rec, Fragments
  <1> QED BY <1>1, PartsAre DEF Carries

\* Nor are the two parts of it anything else.
LEMMA PartsOfCapture ==
  ASSUME CaptureTyped
  PROVE  /\ Before = FlattenSeq(Slice(fragments, 0, early))
         /\ Behind = FlattenSeq(Slice(fragments, early, Len(fragments)))
         /\ Slice(fragments, early, Len(fragments)) \in Seq(Fragments)
         /\ Before \in Fragments /\ Behind \in Fragments
         /\ \A side : Late(side) \in Payloads /\ Len(Late(side)) \in Nat
  <1>1. /\ fragments \in Seq(Fragments) /\ Len(fragments) \in Nat
        /\ early \in 0..Len(fragments)
    BY LenProperties DEF CaptureTyped
  <1>2. /\ 0 \in 0..Len(fragments) /\ early \in 0..Len(fragments)
        /\ Len(fragments) \in early..Len(fragments) /\ 0 + 1 = 1
    BY <1>1
  <1>3. PICK x \in Seq(Fragments), y \in Seq(Fragments) :
          x = Slice(fragments, 0, early) /\ y = Slice(fragments, early, Len(fragments))
    BY <1>1, <1>2, SliceIs
  <1>4. Before = FlattenSeq(x) /\ Behind = FlattenSeq(y)
    BY <1>2, <1>3 DEF Before, Behind, Slice
  <1>5. FlattenSeq(x) \in Fragments /\ FlattenSeq(y) \in Fragments
    BY FlattenType DEF Fragments
  <1>6. \A side : Late(side) \in Payloads
    BY <1>4, <1>5, PartsAre DEF Late
  <1>7. \A side : Len(Late(side)) \in Nat
    BY <1>6, LenProperties DEF Payloads
  <1> QED BY <1>3, <1>4, <1>5, <1>6, <1>7

\* What the handler heard and said does not depend on the rest.
LEMMA CarriesUnchanged ==
  ASSUME UNCHANGED <<fragments, early, first>>, Numbered
  PROVE  Numbered' /\ \A side : Carries(side)' = Carries(side) /\ Late(side)' = Late(side)
  BY DEF Numbered, Carries, Rec, Late, Before, Behind

\* A fragment is given to the sink.
LEMMA EmissionCarries ==
  ASSUME CaptureTyped, Numbered, NEW f \in Fragments, FileSink(f), UNCHANGED <<early, first>>,
         \A side \in Sides : GoesOn(f, side, first + Len(Late(side)))
  PROVE  /\ Numbered'
         /\ \A side \in Sides : /\ Carries(side)' = Carries(side) \o PayloadFrom(f, side)
                                /\ Late(side)' = Late(side) \o PayloadFrom(f, side)
  <1>1. fragments' = Append(fragments, f)
    BY DEF FileSink
  <1>2. fragments \in Seq(Fragments) /\ fragments \in Seq(Seq(Records)) /\ f \in Seq(Records)
    BY DEF CaptureTyped, Fragments
  <1>3. Rec' = Rec \o f
    BY <1>1, <1>2, FlattenAppend DEF Rec
  <1>4. Rec \in Fragments
    BY CarriesIs
  <1>5. PICK n \in Nat : n = Len(fragments) /\ early \in 0..n /\ first \in Nat
    BY <1>2, LenProperties DEF CaptureTyped
  <1>6. /\ early \in 0..Len(fragments) /\ 0 \in 0..Len(fragments) /\ early \in 0..Len(fragments)
        /\ Len(fragments) \in early..Len(fragments) /\ 0 + 1 = 1 /\ n + 1 = Len(fragments')
    BY <1>1, <1>2, <1>5, AppendProperties
  <1>7. Before' = Before
    <2>1. Slice(Append(fragments, f), 0, early) = Slice(fragments, 0, early)
      BY <1>2, <1>6, SliceAppend
    <2> QED BY <1>1, <1>6, <2>1 DEF Before, Slice
  <1>8. Behind' = Behind \o f
    <2>1. PICK y \in Seq(Fragments) : y = Slice(fragments, early, Len(fragments))
      BY PartsOfCapture
    <2>2. Slice(Append(fragments, f), early, Len(fragments) + 1) = Append(y, f)
      BY <1>2, <1>6, <2>1, SliceAppend
    <2>3. Behind' = FlattenSeq(Append(y, f))
      BY <1>1, <1>5, <1>6, <2>2 DEF Behind, Slice
    <2>4. y \in Seq(Seq(Records))
      BY <2>1 DEF Fragments
    <2>5. FlattenSeq(Append(y, f)) = FlattenSeq(y) \o f
      BY <1>2, <2>4, FlattenAppend
    <2>6. FlattenSeq(y) = Behind
      BY <2>1, PartsOfCapture
    <2> QED BY <2>3, <2>5, <2>6
  <1>9. Before \in Fragments /\ Behind \in Fragments
    BY PartsOfCapture
  <1> HIDE DEF Rec, Before, Behind
  <1>10. ASSUME NEW side \in Sides
         PROVE  /\ NumbersFollow(Behind \o f, side, first)
                /\ PayloadFrom(Behind \o f, side) = Late(side) \o PayloadFrom(f, side)
                /\ PayloadFrom(Rec \o f, side) = Carries(side) \o PayloadFrom(f, side)
    <2>1. NumbersFollow(Behind \o f, side, first)
      BY <1>5, <1>9, NumbersGoOn DEF Numbered, Late
    <2>2. PayloadFrom(Behind \o f, side) = PayloadFrom(Behind, side) \o PayloadFrom(f, side)
      BY <1>9, PayloadConcat
    <2>3. PayloadFrom(Rec \o f, side) = PayloadFrom(Rec, side) \o PayloadFrom(f, side)
      BY <1>4, PayloadConcat
    <2> QED BY <2>1, <2>2, <2>3 DEF Carries, Late
  <1>11. Numbered'
    BY <1>7, <1>8, <1>10 DEF Numbered
  <1>12. \A side \in Sides : /\ Carries(side)' = PayloadFrom(Rec \o f, side)
                             /\ Late(side)' = PayloadFrom(Behind \o f, side)
    BY <1>3, <1>8 DEF Carries, Late
  <1> QED BY <1>10, <1>11, <1>12

\* Data is.
LEMMA DataCarries ==
  ASSUME CaptureTyped, Numbered, NEW from \in Sides, NEW bytes \in Payloads,
         FileSink(DataRecords(from, first + Len(Late(from)), bytes)), UNCHANGED <<early, first>>
  PROVE  /\ Numbered'
         /\ Carries(from)' = Carries(from) \o bytes
         /\ Len(Late(from)') = Len(Late(from)) + Len(bytes)
         /\ \A side \in Sides : side # from => Carries(side)' = Carries(side)
                                              /\ Late(side)' = Late(side)
  <1>1. \A side \in Sides : Carries(side) \in Seq(Byte) /\ Late(side) \in Seq(Byte)
    BY CarriesIs, PartsOfCapture DEF Payloads, Byte
  <1>2. PICK n \in Nat : n = first + Len(Late(from))
    <2>1. first \in Nat /\ Len(Late(from)) \in Nat
      BY PartsOfCapture DEF CaptureTyped
    <2> QED BY <2>1
  <1>3. PICK d \in Fragments : d = DataRecords(from, n, bytes)
    BY DataGoesOn
  <1>4. /\ PayloadFrom(d, from) = bytes
        /\ GoesOn(d, from, n)
        /\ \A side \in Sides : side # from =>
             PayloadFrom(d, side) = <<>> /\ \A b \in Nat : GoesOn(d, side, b)
    BY <1>3, DataGoesOn
  <1>5. FileSink(d)
    BY <1>2, <1>3
  <1>6. \A side \in Sides : GoesOn(d, side, first + Len(Late(side)))
    <2>1. \A side \in Sides : first + Len(Late(side)) \in Nat
      <3>1. first \in Nat /\ \A side : Len(Late(side)) \in Nat
        BY PartsOfCapture DEF CaptureTyped
      <3> QED BY <3>1
    <2> QED BY <1>2, <1>4, <2>1
  <1>7. /\ Numbered'
        /\ \A side \in Sides : /\ Carries(side)' = Carries(side) \o PayloadFrom(d, side)
                               /\ Late(side)' = Late(side) \o PayloadFrom(d, side)
    BY <1>5, <1>6, EmissionCarries
  <1>8. ASSUME NEW side \in Sides, side # from
        PROVE  Carries(side)' = Carries(side) /\ Late(side)' = Late(side)
    <2>1. Carries(side)' = Carries(side) \o <<>> /\ Late(side)' = Late(side) \o <<>>
      BY <1>4, <1>7, <1>8
    <2> QED BY <1>1, <2>1, ConcatEmptySeq
  <1>9. Carries(from)' = Carries(from) \o bytes /\ Late(from)' = Late(from) \o bytes
    BY <1>4, <1>7
  <1>10. Len(Late(from)') = Len(Late(from)) + Len(bytes)
    <2>1. PICK x \in Seq(Byte), y \in Seq(Byte) : x = Late(from) /\ y = bytes
      BY <1>1 DEF Payloads, Byte
    <2>2. Len(x \o y) = Len(x) + Len(y)
      BY ConcatProperties
    <2> QED BY <1>9, <2>1, <2>2
  <1> QED BY <1>7, <1>8, <1>9, <1>10

\* Bytes that are read follow those that were.
LEMMA ReadOn ==
  ASSUME NEW n \in Nat, NEW k \in Nat
  PROVE  [i \in 1..k |-> <<i, "own">>] \o [i \in 1..n |-> <<k + i, "own">>]
           = [i \in 1..(k + n) |-> <<i, "own">>]
  <1> DEFINE x == [i \in 1..k |-> <<i, "own">>]
             y == [i \in 1..n |-> <<k + i, "own">>]
             z == [i \in 1..(k + n) |-> <<i, "own">>]
             V == Byte
  <1>1. x \in Seq(V) /\ y \in Seq(V) /\ z \in Seq(V)
    <2>1. "own" \in Loops /\ \A i \in Nat : 0 + i = i
      BY DEF Loops
    <2>2. y \in Payloads
      BY <2>1, NumberedBytes
    <2>3. x \in [1..k -> V] /\ z \in [1..(k + n) -> V]
      BY <2>1 DEF Byte
    <2> HIDE DEF x, y, z, V
    <2>4. x \in Seq(V) /\ z \in Seq(V)
      BY <2>3, SeqDef
    <2> QED BY <2>2, <2>4 DEF V, Payloads, Byte
  <1>2. Len(x) = k /\ Len(y) = n /\ Len(z) = k + n
    <2>1. DOMAIN x = 1..k /\ DOMAIN y = 1..n /\ DOMAIN z = 1..(k + n)
      OBVIOUS
    <2> HIDE DEF x, y, z, V
    <2> QED BY <1>1, <2>1, LenProperties
  <1>3. /\ \A i \in 1..k : x[i] = <<i, "own">>
        /\ \A i \in 1..n : y[i] = <<k + i, "own">>
        /\ \A i \in 1..(k + n) : z[i] = <<i, "own">>
    OBVIOUS
  <1> HIDE DEF x, y, z, V
  <1>4. /\ x \o y \in Seq(V) /\ Len(x \o y) = k + n
        /\ \A i \in 1..(k + n) : (x \o y)[i] = IF i <= k THEN x[i] ELSE y[i - k]
    BY <1>1, <1>2, ConcatProperties
  <1>5. ASSUME NEW i \in 1..(k + n)
        PROVE  (x \o y)[i] = z[i]
    <2>1. CASE i <= k
      <3>1. i \in 1..k
        BY <2>1
      <3> QED BY <1>3, <1>4, <2>1, <3>1
    <2>2. CASE ~(i <= k)
      <3>1. i - k \in 1..n /\ k + (i - k) = i
        BY <2>2
      <3> QED BY <1>3, <1>4, <2>2, <3>1
    <2> QED BY <2>1, <2>2
  <1>6. x \o y = z
    BY <1>1, <1>2, <1>4, <1>5, SeqEqual
  <1> QED BY <1>6 DEF x, y, z

\* Concatenations of bytes are bytes.
LEMMA PayloadsConcat ==
  ASSUME NEW x \in Payloads, NEW y \in Payloads
  PROVE  x \o y \in Payloads
  <1>1. x \in Seq(Byte) /\ y \in Seq(Byte)
    BY DEF Payloads, Byte
  <1>2. x \o y \in Seq(Byte)
    BY <1>1, ConcatProperties
  <1> QED BY <1>2 DEF Payloads, Byte

\* A write whose promise lives on the channel's loop is told at once, before those that
\* are hopping.
LEMMA ToldAtOnce ==
  ASSUME NEW x \in Payloads, NEW b \in Payloads, NEW h \in Payloads, NEW w \in Payloads,
         AllOn(b, "own"), OnLoop(h, "own") = <<>>,
         \A loop \in Loops : OnLoop(x \o h, loop) = OnLoop(w, loop)
  PROVE  \A loop \in Loops : OnLoop((x \o b) \o h, loop) = OnLoop(w \o b, loop)
  <1> SUFFICES ASSUME NEW loop \in Loops
               PROVE  OnLoop((x \o b) \o h, loop) = OnLoop(w \o b, loop)
    OBVIOUS
  <1>1. PICK p \in Seq(Byte), q \in Seq(Byte), r \in Seq(Byte), s \in Seq(Byte) :
          p = OnLoop(x, loop) /\ q = OnLoop(b, loop) /\ r = OnLoop(h, loop) /\ s = OnLoop(w, loop)
    BY PicksAre
  <1>2. OnLoop((x \o b) \o h, loop) = (p \o q) \o r
    <2>1. OnLoop((x \o b) \o h, loop) = OnLoop(x \o b, loop) \o OnLoop(h, loop)
      <3>1. PICK u \in Payloads : u = x \o b
        BY PayloadsConcat
      <3>2. OnLoop(u \o h, loop) = OnLoop(u, loop) \o OnLoop(h, loop)
        BY OnLoopConcat
      <3> QED BY <3>1, <3>2
    <2>2. OnLoop(x \o b, loop) = OnLoop(x, loop) \o OnLoop(b, loop)
      BY OnLoopConcat
    <2> QED BY <1>1, <2>1, <2>2
  <1>3. OnLoop(w \o b, loop) = s \o q
    <2>1. OnLoop(w \o b, loop) = OnLoop(w, loop) \o OnLoop(b, loop)
      BY OnLoopConcat
    <2> QED BY <1>1, <2>1
  <1>4. p \o r = s
    <2>1. OnLoop(x \o h, loop) = OnLoop(x, loop) \o OnLoop(h, loop)
      BY OnLoopConcat
    <2> QED BY <1>1, <2>1
  <1>5. CASE loop = "own"
    <2>1. r = <<>>
      BY <1>1, <1>5
    <2>2. (p \o q) \o <<>> = p \o q /\ p \o <<>> = p
      OBVIOUS
    <2> QED BY <1>2, <1>3, <1>4, <2>1, <2>2
  <1>6. CASE loop # "own"
    <2>1. \A i \in 1..Len(b) : b[i][2] # loop
      BY <1>6 DEF AllOn
    <2>2. q = <<>>
      BY <1>1, <2>1, OnLoopNone
    <2>3. p \o <<>> = p /\ s \o <<>> = s
      OBVIOUS
    <2> QED BY <1>2, <1>3, <1>4, <2>2, <2>3
  <1> QED BY <1>5, <1>6

\* A write whose promise lives on another loop is told behind those that are hopping.
LEMMA ToldLater ==
  ASSUME NEW x \in Payloads, NEW b \in Payloads, NEW h \in Payloads, NEW w \in Payloads,
         \A loop \in Loops : OnLoop(x \o h, loop) = OnLoop(w, loop)
  PROVE  \A loop \in Loops : OnLoop(x \o (h \o b), loop) = OnLoop(w \o b, loop)
  <1> SUFFICES ASSUME NEW loop \in Loops
               PROVE  OnLoop(x \o (h \o b), loop) = OnLoop(w \o b, loop)
    OBVIOUS
  <1>1. x \o (h \o b) = (x \o h) \o b
    <2>1. x \in Seq(Byte) /\ h \in Seq(Byte) /\ b \in Seq(Byte)
      BY DEF Payloads, Byte
    <2>2. PICK u \in Seq(Byte), v \in Seq(Byte), y \in Seq(Byte) : u = x /\ v = h /\ y = b
      BY <2>1
    <2>3. u \o (v \o y) = (u \o v) \o y
      OBVIOUS
    <2> QED BY <2>2, <2>3
  <1>2. OnLoop((x \o h) \o b, loop) = OnLoop(x \o h, loop) \o OnLoop(b, loop)
    <2>1. PICK u \in Payloads : u = x \o h
      BY PayloadsConcat
    <2>2. OnLoop(u \o b, loop) = OnLoop(u, loop) \o OnLoop(b, loop)
      BY OnLoopConcat
    <2> QED BY <2>1, <2>2
  <1>3. OnLoop(w \o b, loop) = OnLoop(w, loop) \o OnLoop(b, loop)
    BY OnLoopConcat
  <1> QED BY <1>1, <1>2, <1>3

\* A channel becomes active.
LEMMA ActiveConverses ==
  ASSUME Typed, CaptureTyped, ConversationInv, ChannelActive
  PROVE  ConversationInv'
  <1>1. /\ channel = "connecting" /\ channel' = "active"
        /\ readInboundBytes' = 1 /\ writtenOutboundBytes' = 1
        /\ early' = Len(fragments) /\ first' = 1
        /\ UNCHANGED <<emitPCAPWrites, closeState, ended, pending, hopping, read, issued, wire,
                       seen>>
        /\ FileSink(Opening)
    BY DEF ChannelActive, Opening
  <1>2. first = 0 /\ early = 0
    BY <1>1 DEF ConversationInv, Starts, CaptureTyped
  <1>3. PICK f \in Fragments : f = Opening
    BY OpeningIs
  <1>4. \A side \in Sides : /\ PayloadFrom(f, side) = <<>>
                            /\ \A next : GoesOn(f, side, next)
    BY <1>3, OpeningGoesOn
  <1>5. fragments' = Append(fragments, f)
    BY <1>1, <1>3 DEF FileSink
  <1>6. PICK n \in Nat : n = Len(fragments) /\ fragments \in Seq(Fragments)
    BY LenProperties DEF CaptureTyped
  <1>7. Rec' = Rec \o f
    <2>1. fragments \in Seq(Seq(Records)) /\ f \in Seq(Records)
      BY <1>6 DEF Fragments
    <2> QED BY <1>5, <2>1, FlattenAppend DEF Rec
  <1>8. Behind = Rec
    <2>1. SubSeq(fragments, 1, Len(fragments)) = fragments
      BY <1>6, SubSeqFull
    <2>2. 0 + 1 = 1
      OBVIOUS
    <2> QED BY <1>2, <2>1, <2>2 DEF Behind, Rec
  <1>9. Before' = Rec /\ Behind' = f
    <2>1. /\ 0 \in 0..Len(fragments) /\ n \in 0..Len(fragments) /\ n \in n..Len(fragments)
          /\ 0 + 1 = 1 /\ Len(fragments') = n + 1
      BY <1>5, <1>6, AppendProperties
    <2>2. Slice(Append(fragments, f), 0, n) = Slice(fragments, 0, n)
      BY <1>6, <2>1, SliceAppend
    <2>3. Slice(fragments, 0, n) = fragments
      BY <1>6, <2>1, SubSeqFull DEF Slice
    <2>4. Before' = Rec
      BY <1>1, <1>5, <1>6, <2>1, <2>2, <2>3 DEF Before, Rec, Slice
    <2>5. Slice(fragments, n, n) = <<>>
      BY SubSeqEmpty DEF Slice
    <2>6. Slice(Append(fragments, f), n, n + 1) = Append(<<>>, f)
      <3>1. n \in 0..Len(fragments) /\ Len(fragments) \in n..Len(fragments)
        BY <1>6
      <3>2. Slice(Append(fragments, f), n, Len(fragments) + 1)
              = Append(Slice(fragments, n, Len(fragments)), f)
        BY <1>6, <3>1, SliceAppend
      <3> QED BY <1>6, <2>5, <3>2
    <2>7. Behind' = FlattenSeq(Append(<<>>, f))
      BY <1>1, <1>5, <1>6, <2>1, <2>6 DEF Behind, Slice
    <2>8. FlattenSeq(Append(<<>>, f)) = f
      <3>1. <<>> \in Seq(Seq(Records)) /\ f \in Seq(Records) /\ <<>> \o f = f
        BY EmptySeq DEF Fragments
      <3> QED BY <3>1, FlattenAppend, FlattenEmpty
    <2> QED BY <2>4, <2>7, <2>8
  <1> HIDE DEF Rec, Before, Behind
  <1>10. Numbered'
    <2>1. \A side \in Sides : NumbersFollow(Rec, side, 0)
      BY <1>2, <1>8 DEF ConversationInv, Numbered
    <2>2. \A side \in Sides : NumbersFollow(f, side, 1)
      BY <1>4, NumbersAre
    <2> QED BY <1>1, <1>9, <2>1, <2>2 DEF Numbered
  <1>11. "local" \in Sides /\ "remote" \in Sides
    BY DEF Sides
  <1>12. \A side \in Sides : Carries(side)' = Carries(side)
    <2> SUFFICES ASSUME NEW side \in Sides PROVE Carries(side)' = Carries(side)
      OBVIOUS
    <2>1. Rec \in Fragments /\ Carries(side) \in Seq(Byte)
      BY CarriesIs DEF Payloads, Byte
    <2>2. PayloadFrom(Rec \o f, side) = PayloadFrom(Rec, side) \o <<>>
      <3>1. PayloadFrom(Rec \o f, side) = PayloadFrom(Rec, side) \o PayloadFrom(f, side)
        BY <2>1, PayloadConcat
      <3>2. PayloadFrom(f, side) = <<>>
        BY <1>4
      <3> QED BY <3>1, <3>2
    <2>3. Carries(side)' = Carries(side) \o <<>>
      BY <1>7, <2>2 DEF Carries
    <2> QED BY <2>1, <2>3, ConcatEmptySeq
  <1>13. Counted'
    <2>1. Late("remote")' = <<>> /\ Late("local")' = <<>> /\ Len(<<>>) = 0
      BY <1>4, <1>9, <1>11 DEF Late
    <2> QED BY <1>1, <2>1 DEF Counted
  <1>14. HearsAll' /\ Starts'
    BY <1>1 DEF ConversationInv, HearsAll, Starts, Open
  <1>15. Heard' /\ Said' /\ Waits'
    BY <1>1, <1>11, <1>12 DEF ConversationInv, Heard, Said, Waits, AllOn
  <1> QED BY <1>10, <1>13, <1>14, <1>15 DEF ConversationInv

\* Bytes arrive.
LEMMA ReadConverses ==
  ASSUME Typed, CaptureTyped, ConversationInv, NEW n \in Sizes, ChannelRead(n)
  PROVE  ConversationInv'
  <1>1. n \in Nat /\ seen \in Nat /\ read \in Nat
    BY CaptureAssumption DEF Typed
  <1>2. /\ channel \in Open /\ read' = read + n
        /\ seen' = IF ended = {} THEN read + n ELSE seen
        /\ UNCHANGED <<emitPCAPWrites, closeState, writtenOutboundBytes, channel, ended, pending,
                       hopping, issued, wire, early, first>>
    BY DEF ChannelRead, Running, Open, NothingEmitted, captureVars
  <1>3. /\ closeState = "notClosing" <=> ended = {}
        /\ ended = {} => seen = read
    BY <1>2 DEF ConversationInv, HearsAll
  <1>4. /\ readInboundBytes = first + Len(Late("remote"))
        /\ writtenOutboundBytes = first + Len(Late("local"))
    BY DEF ConversationInv, Counted
  <1>5. Starts' /\ Waits'
    BY <1>2 DEF ConversationInv, Starts, Waits, AllOn
  <1>6. CASE closeState # "notClosing" \/ n = 0
    <2>1. UNCHANGED <<fragments, readInboundBytes>>
      BY <1>6 DEF ChannelRead, NothingEmitted, captureVars
    <2>2. seen' = seen
      BY <1>1, <1>2, <1>3, <1>6
    <2>3. Numbered' /\ \A side : Carries(side)' = Carries(side) /\ Late(side)' = Late(side)
      BY <1>2, <2>1, CarriesUnchanged DEF ConversationInv
    <2>4. HearsAll'
      BY <1>1, <1>2, <1>3, <2>2 DEF HearsAll
    <2>5. Counted'
      BY <1>2, <1>4, <2>1, <2>3 DEF Counted
    <2>6. Heard' /\ Said'
      BY <1>2, <2>2, <2>3 DEF ConversationInv, Heard, Said
    <2> QED BY <1>5, <2>3, <2>4, <2>5, <2>6 DEF ConversationInv
  <1>7. CASE ~(closeState # "notClosing" \/ n = 0)
    <2> DEFINE bytes == [i \in 1..n |-> <<seen + i, "own">>]
    <2>1. ended = {} /\ seen = read /\ seen' = seen + n
      BY <1>2, <1>3, <1>7
    <2>2. /\ FileSink(DataRecords("remote", readInboundBytes, bytes))
          /\ readInboundBytes' = readInboundBytes + n
      BY <1>7, <2>1 DEF ChannelRead
    <2>3. /\ bytes \in Payloads /\ Len(bytes) = n
          /\ "remote" \in Sides /\ "local" \in Sides
      BY <1>1, NumberedBytes DEF Loops, Sides
    <2>4. Carries("remote") = [i \in 1..seen |-> <<i, "own">>]
      BY DEF ConversationInv, Heard
    <2>5. Carries("remote") \o bytes = [i \in 1..(seen + n) |-> <<i, "own">>]
      BY <1>1, <2>4, ReadOn
    <2> HIDE DEF bytes
    <2>6. /\ Numbered' /\ Carries("remote")' = Carries("remote") \o bytes
          /\ Len(Late("remote")') = Len(Late("remote")) + Len(bytes)
          /\ Carries("local")' = Carries("local") /\ Late("local")' = Late("local")
      BY <1>2, <1>4, <2>2, <2>3, DataCarries DEF ConversationInv
    <2>7. Heard'
      BY <2>1, <2>5, <2>6 DEF Heard
    <2>8. Counted'
      <3>1. PICK k \in Nat, l \in Nat : k = Len(Late("remote")) /\ l = first
        BY PartsOfCapture DEF CaptureTyped
      <3>2. readInboundBytes' = (l + k) + n /\ (l + k) + n = l + (k + n)
        BY <1>1, <1>4, <2>2, <3>1
      <3>3. readInboundBytes' = first' + Len(Late("remote")')
        BY <1>2, <2>3, <2>6, <3>1, <3>2
      <3> QED BY <1>2, <1>4, <2>6, <3>3 DEF Counted
    <2>9. HearsAll'
      BY <1>1, <1>2, <1>3, <2>1 DEF HearsAll
    <2>10. Said'
      BY <1>2, <2>6 DEF ConversationInv, Said
    <2> QED BY <1>5, <2>6, <2>7, <2>8, <2>9, <2>10 DEF ConversationInv
  <1> QED BY <1>6, <1>7

\* Writes are emitted.
LEMMA EmitsCarry ==
  ASSUME Typed, CaptureTyped, ConversationInv, NEW bytes \in Payloads, EmitWrites(bytes),
         UNCHANGED readInboundBytes
  PROVE  /\ Numbered' /\ Counted'
         /\ UNCHANGED <<early, first>>
         /\ Carries("local")' = Carries("local") \o bytes
         /\ Carries("remote")' = Carries("remote")
  <1>1. /\ readInboundBytes = first + Len(Late("remote"))
        /\ writtenOutboundBytes = first + Len(Late("local"))
    BY DEF ConversationInv, Counted
  <1>2. /\ FileSink(DataRecords("local", first + Len(Late("local")), bytes))
        /\ writtenOutboundBytes' = (first + Len(Late("local"))) + Len(bytes)
        /\ UNCHANGED <<early, first>>
    BY <1>1 DEF EmitWrites
  <1>3. "local" \in Sides /\ "remote" \in Sides
    BY DEF Sides
  <1>4. /\ Numbered' /\ Carries("local")' = Carries("local") \o bytes
        /\ Len(Late("local")') = Len(Late("local")) + Len(bytes)
        /\ Carries("remote")' = Carries("remote") /\ Late("remote")' = Late("remote")
    BY <1>2, <1>3, DataCarries DEF ConversationInv
  <1>5. PICK k \in Nat, l \in Nat, m \in Nat :
          k = Len(Late("local")) /\ l = first /\ m = Len(bytes)
    BY PartsOfCapture, LenProperties DEF CaptureTyped, Payloads
  <1>6. (l + k) + m = l + (k + m)
    OBVIOUS
  <1>7. writtenOutboundBytes' = first' + Len(Late("local")')
    BY <1>2, <1>4, <1>5, <1>6
  <1>8. Counted'
    BY <1>1, <1>2, <1>4, <1>7 DEF Counted
  <1> QED BY <1>2, <1>4, <1>8

\* A write.
LEMMA WriteConverses ==
  ASSUME Typed, CaptureTyped, ConversationInv, NEW n \in Sizes, NEW loop \in Loops,
         Write(n, loop)
  PROVE  ConversationInv'
  <1> DEFINE bytes == [i \in 1..n |-> <<Len(issued) + i, loop>>]
             w == [bytes |-> bytes, loop |-> loop]
  <1>1. Len(issued) \in Nat /\ n \in Nat
    BY CaptureAssumption, LenProperties DEF Typed, Payloads
  <1>2. bytes \in Payloads /\ Len(bytes) = n
    BY <1>1, NumberedBytes
  <1>3. AllOn(bytes, loop)
    BY <1>2 DEF AllOn
  <1>4. /\ issued' = issued \o bytes
        /\ pending' \in {pending, Append(pending, w)}
        /\ emitPCAPWrites = "whenIssued" => EmitWrites(bytes)
        /\ emitPCAPWrites # "whenIssued" => NothingEmitted /\ UNCHANGED writtenOutboundBytes
        /\ UNCHANGED <<emitPCAPWrites, closeState, readInboundBytes, channel, ended, hopping, read,
                       wire, seen>>
    BY DEF Write
  <1> HIDE DEF bytes
  <1>5. Waits'
    <2>1. \A i \in 1..Len(pending) : AllOn(pending[i].bytes, pending[i].loop)
      BY DEF ConversationInv, Waits
    <2>2. OnLoop(FlattenSeq(hopping), "own")' = <<>>
      BY <1>4 DEF ConversationInv, Waits
    <2>3. ASSUME NEW i \in 1..Len(pending')
          PROVE  AllOn(pending'[i].bytes, pending'[i].loop)
      <3>1. CASE pending' = pending
        BY <2>1, <2>3, <3>1
      <3>2. CASE pending' = Append(pending, w)
        <4> DEFINE W == [bytes : Payloads, loop : Loops]
        <4>1. pending \in Seq(W) /\ w \in W
          BY <1>2 DEF Typed
        <4>2. w.bytes = bytes /\ w.loop = loop
          OBVIOUS
        <4> HIDE DEF W, w
        <4>3. PICK k \in Nat : k = Len(pending)
          BY <4>1, LenProperties
        <4>4. /\ Len(Append(pending, w)) = k + 1 /\ Append(pending, w)[k + 1] = w
              /\ \A j \in 1..k : Append(pending, w)[j] = pending[j]
          BY <4>1, <4>3, AppendProperties
        <4>5. i \in 1..(k + 1)
          BY <3>2, <4>4
        <4>6. CASE i = k + 1
          BY <1>3, <3>2, <4>2, <4>4, <4>6
        <4>7. CASE i # k + 1
          <5>1. i \in 1..k
            BY <4>5, <4>7
          <5> QED BY <2>1, <3>2, <4>3, <4>4, <5>1
        <4> QED BY <4>6, <4>7
      <3> QED BY <1>4, <3>1, <3>2
    <2> QED BY <2>2, <2>3 DEF Waits, AllOn
  <1>6. HearsAll'
    BY <1>4 DEF ConversationInv, HearsAll
  <1> HIDE DEF w
  <1>7. CASE emitPCAPWrites = "whenIssued"
    <2>1. /\ Numbered' /\ Counted' /\ UNCHANGED <<early, first>>
          /\ Carries("local")' = Carries("local") \o bytes
          /\ Carries("remote")' = Carries("remote")
      BY <1>2, <1>4, <1>7, EmitsCarry
    <2>2. Said'
      BY <1>4, <1>7, <2>1 DEF ConversationInv, Said
    <2>3. Heard' /\ Starts'
      BY <1>4, <2>1 DEF ConversationInv, Heard, Starts
    <2> QED BY <1>5, <1>6, <2>1, <2>2, <2>3 DEF ConversationInv
  <1>8. CASE emitPCAPWrites # "whenIssued"
    <2>1. UNCHANGED <<fragments, early, first, writtenOutboundBytes>>
      BY <1>4, <1>8 DEF NothingEmitted, captureVars
    <2>2. Numbered' /\ \A side : Carries(side)' = Carries(side) /\ Late(side)' = Late(side)
      BY <2>1, CarriesUnchanged DEF ConversationInv
    <2>3. Heard' /\ Said' /\ Starts'
      BY <1>4, <1>8, <2>1, <2>2 DEF ConversationInv, Heard, Said, Starts
    <2>4. Counted'
      BY <1>4, <2>1, <2>2 DEF ConversationInv, Counted
    <2> QED BY <1>5, <1>6, <2>2, <2>3, <2>4 DEF ConversationInv
  <1> QED BY <1>7, <1>8

\* A write completes.
LEMMA CompletionConverses ==
  ASSUME Typed, CaptureTyped, ConversationInv, WriteCompletes
  PROVE  ConversationInv'
  <1> DEFINE W == [bytes : Payloads, loop : Loops]
             w == Head(pending)
  <1>1. /\ pending # <<>> /\ pending' = Tail(pending) /\ wire' = wire \o w.bytes
        /\ emitPCAPWrites = "whenIssued" =>
             NothingEmitted /\ UNCHANGED <<writtenOutboundBytes, hopping>>
        /\ emitPCAPWrites = "whenCompleted" /\ w.loop = "own" =>
             EmitWrites(w.bytes) /\ UNCHANGED hopping
        /\ emitPCAPWrites = "whenCompleted" /\ w.loop # "own" =>
             /\ hopping' = Append(hopping, w.bytes)
             /\ NothingEmitted /\ UNCHANGED writtenOutboundBytes
        /\ UNCHANGED <<emitPCAPWrites, closeState, readInboundBytes, channel, ended, read, issued,
                       seen>>
    BY DEF WriteCompletes
  <1>2. /\ w \in W /\ w = pending[1] /\ 1 \in 1..Len(pending)
        /\ \A i \in 1..Len(Tail(pending)) :
             i + 1 \in 1..Len(pending) /\ Tail(pending)[i] = pending[i + 1]
    <2>1. pending \in Seq(W)
      BY DEF Typed
    <2> HIDE DEF W
    <2>2. PICK k \in Nat : k = Len(pending) /\ k # 0
      BY <1>1, <2>1, LenProperties, EmptySeq
    <2>3. w \in W /\ w = pending[1] /\ Len(Tail(pending)) = k - 1
          /\ \A i \in 1..Len(Tail(pending)) : Tail(pending)[i] = pending[i + 1]
      BY <1>1, <2>1, <2>2, HeadTailProperties
    <2> QED BY <2>2, <2>3
  <1>3. PICK b \in Payloads : b = w.bytes
    BY <1>2
  <1>4. AllOn(b, w.loop) /\ w.loop \in Loops
    BY <1>2, <1>3 DEF ConversationInv, Waits
  <1>5. \A i \in 1..Len(pending') : AllOn(pending'[i].bytes, pending'[i].loop)
    BY <1>1, <1>2 DEF ConversationInv, Waits
  <1>7. HearsAll'
    BY <1>1 DEF ConversationInv, HearsAll
  <1> HIDE DEF w
  <1>8. emitPCAPWrites \in {"whenIssued", "whenCompleted"}
    BY DEF Typed, Settings
  <1>9. PICK x \in Payloads, h \in Payloads : x = Carries("local") /\ h = FlattenSeq(hopping)
    <2>1. FlattenSeq(hopping) \in Payloads
      BY FlattenType DEF Typed, Payloads
    <2> QED BY <2>1, CarriesIs
  <1>10. OnLoop(h, "own") = <<>> /\ wire \in Payloads
    BY <1>9 DEF ConversationInv, Waits, Typed
  <1>11. CASE emitPCAPWrites = "whenIssued"
    <2>1. UNCHANGED <<fragments, early, first, hopping, writtenOutboundBytes>>
      BY <1>1, <1>11 DEF NothingEmitted, captureVars
    <2>2. Numbered' /\ \A side : Carries(side)' = Carries(side) /\ Late(side)' = Late(side)
      BY <2>1, CarriesUnchanged DEF ConversationInv
    <2>3. Waits'
      BY <1>5, <2>1 DEF ConversationInv, Waits, AllOn
    <2>4. Said'
      BY <1>1, <1>11, <2>1, <2>2 DEF ConversationInv, Said
    <2>5. Heard' /\ Starts' /\ Counted'
      BY <1>1, <2>1, <2>2 DEF ConversationInv, Heard, Starts, Counted
    <2> QED BY <1>7, <2>2, <2>3, <2>4, <2>5 DEF ConversationInv
  <1>12. CASE emitPCAPWrites = "whenCompleted" /\ w.loop = "own"
    <2>1. EmitWrites(b) /\ UNCHANGED hopping
      BY <1>1, <1>3, <1>12
    <2>2. /\ Numbered' /\ Counted' /\ UNCHANGED <<early, first>>
          /\ Carries("local")' = x \o b
          /\ Carries("remote")' = Carries("remote")
      BY <1>1, <1>9, <2>1, EmitsCarry
    <2>3. Waits'
      BY <1>5, <2>1 DEF ConversationInv, Waits, AllOn
    <2>4. \A loop \in Loops : OnLoop(x \o h, loop) = OnLoop(wire, loop)
      BY <1>9, <1>12 DEF ConversationInv, Said
    <2>5. \A loop \in Loops : OnLoop((x \o b) \o h, loop) = OnLoop(wire \o b, loop)
      BY <1>4, <1>10, <1>12, <2>4, ToldAtOnce
    <2>6. Said'
      BY <1>1, <1>3, <1>9, <1>12, <2>1, <2>2, <2>5 DEF Said
    <2>7. Heard' /\ Starts'
      BY <1>1, <2>2 DEF ConversationInv, Heard, Starts
    <2> QED BY <1>7, <2>2, <2>3, <2>6, <2>7 DEF ConversationInv
  <1>13. CASE emitPCAPWrites = "whenCompleted" /\ w.loop # "own"
    <2>1. /\ hopping' = Append(hopping, b)
          /\ UNCHANGED <<fragments, early, first, writtenOutboundBytes>>
      BY <1>1, <1>3, <1>13 DEF NothingEmitted, captureVars
    <2>2. Numbered' /\ \A side : Carries(side)' = Carries(side) /\ Late(side)' = Late(side)
      BY <2>1, CarriesUnchanged DEF ConversationInv
    <2>3. FlattenSeq(hopping') = h \o b
      BY <1>9, <2>1, FlattenAppend DEF Typed, Payloads
    <2>4. Waits'
      <3>1. OnLoop(h \o b, "own") = OnLoop(h, "own") \o OnLoop(b, "own")
        BY OnLoopConcat
      <3>2. \A i \in 1..Len(b) : b[i][2] # "own"
        BY <1>4, <1>13 DEF AllOn
      <3>3. OnLoop(b, "own") = <<>> /\ <<>> \o <<>> = <<>>
        BY <3>2, OnLoopNone
      <3>4. OnLoop(FlattenSeq(hopping'), "own") = <<>>
        BY <1>10, <2>3, <3>1, <3>3
      <3> QED BY <1>5, <3>4 DEF Waits, AllOn, OnLoop
    <2>5. \A loop \in Loops : OnLoop(x \o h, loop) = OnLoop(wire, loop)
      BY <1>9, <1>13 DEF ConversationInv, Said
    <2>6. \A loop \in Loops : OnLoop(x \o (h \o b), loop) = OnLoop(wire \o b, loop)
      BY <1>10, <2>5, ToldLater
    <2>7. Said'
      BY <1>1, <1>3, <1>9, <1>13, <2>2, <2>3, <2>6 DEF Said
    <2>8. Heard' /\ Starts' /\ Counted'
      BY <1>1, <2>1, <2>2 DEF ConversationInv, Heard, Starts, Counted
    <2> QED BY <1>7, <2>2, <2>4, <2>7, <2>8 DEF ConversationInv
  <1> QED BY <1>8, <1>11, <1>12, <1>13

\* A callback arrives.
LEMMA HopConverses ==
  ASSUME Typed, CaptureTyped, ConversationInv, Hop
  PROVE  ConversationInv'
  <1> DEFINE W == Payloads
             b == Head(hopping)
             r == Tail(hopping)
  <1>1. /\ hopping # <<>> /\ hopping' = r /\ EmitWrites(b)
        /\ UNCHANGED <<emitPCAPWrites, closeState, readInboundBytes, channel, ended, pending, read,
                       issued, wire, seen>>
    BY DEF Hop
  <1>2. b \in Payloads /\ r \in Seq(Payloads) /\ <<b>> \in Seq(Payloads) /\ hopping = <<b>> \o r
    <2>1. hopping \in Seq(W)
      BY DEF Typed
    <2> HIDE DEF W
    <2>2. b \in W /\ r \in Seq(W) /\ hopping = <<b>> \o r
      BY <1>1, <2>1, HeadTailProperties
    <2>3. <<b>> \in Seq(W)
      BY <2>2
    <2> QED BY <2>2, <2>3 DEF W
  <1> HIDE DEF b, r
  <1>3. emitPCAPWrites # "whenIssued"
    BY <1>1 DEF ConversationInv, Said
  <1>4. /\ Numbered' /\ Counted' /\ UNCHANGED <<early, first>>
        /\ Carries("local")' = Carries("local") \o b
        /\ Carries("remote")' = Carries("remote")
    BY <1>1, <1>2, EmitsCarry
  <1>5. PICK x \in Seq(Byte), y \in Seq(Byte), z \in Seq(Byte) :
          x = Carries("local") /\ y = b /\ z = FlattenSeq(r)
    <2>1. FlattenSeq(r) \in Payloads
      BY <1>2, FlattenType DEF Payloads
    <2> QED BY <1>2, <2>1, CarriesIs DEF Payloads, Byte
  <1>6. FlattenSeq(hopping) = y \o z
    <2>1. FlattenSeq(<<b>> \o r) = FlattenSeq(<<b>>) \o FlattenSeq(r)
      BY <1>2, FlattenConcat DEF Payloads
    <2>2. FlattenSeq(<<b>>) = b
      <3>1. <<b>> = Append(<<>>, b) /\ <<>> \in Seq(Payloads) /\ <<>> \o b = b
        BY <1>5
      <3>2. FlattenSeq(Append(<<>>, b)) = FlattenSeq(<<>>) \o b
        BY <1>2, <3>1, FlattenAppend DEF Payloads
      <3> QED BY <3>1, <3>2, FlattenEmpty
    <2> QED BY <1>2, <1>5, <2>1, <2>2
  <1>7. x \o (y \o z) = (x \o y) \o z
    OBVIOUS
  <1>8. Said'
    <2>1. emitPCAPWrites' = "whenCompleted" =>
            \A loop \in Loops : OnLoop(x \o (y \o z), loop) = OnLoop(wire, loop)
      BY <1>1, <1>5, <1>6 DEF ConversationInv, Said
    <2>2. Carries("local")' \o FlattenSeq(hopping') = x \o (y \o z)
      BY <1>1, <1>4, <1>5, <1>7
    <2> QED BY <1>1, <1>3, <2>1, <2>2 DEF Said
  <1>9. Waits'
    <2>1. y \in Payloads /\ z \in Payloads
      BY DEF Payloads, Byte
    <2>2. OnLoop(y \o z, "own") = OnLoop(y, "own") \o OnLoop(z, "own")
      BY <2>1, OnLoopConcat
    <2>3. OnLoop(y \o z, "own") = <<>>
      BY <1>6 DEF ConversationInv, Waits
    <2>4. OnLoop(z, "own") = <<>>
      <3>1. PICK p \in Seq(Byte), q \in Seq(Byte) : p = OnLoop(y, "own") /\ q = OnLoop(z, "own")
        BY <2>1, PicksAre
      <3>2. p \o q = <<>>
        BY <2>2, <2>3, <3>1
      <3>3. Len(p) + Len(q) = 0 /\ Len(p) \in Nat /\ Len(q) \in Nat
        <4>1. Len(p \o q) = Len(p) + Len(q) /\ Len(<<>>) = 0
          OBVIOUS
        <4> QED BY <3>2, <4>1, LenProperties
      <3>4. q = <<>>
        BY <3>3, EmptySeq
      <3> QED BY <3>1, <3>4
    <2> QED BY <1>1, <1>5, <2>4 DEF ConversationInv, Waits, AllOn, OnLoop
  <1>10. HearsAll' /\ Heard' /\ Starts'
    BY <1>1, <1>4 DEF ConversationInv, HearsAll, Heard, Starts
  <1> QED BY <1>4, <1>8, <1>9, <1>10 DEF ConversationInv

\* A side closes.
LEMMA ClosingConverses ==
  ASSUME Typed, CaptureTyped, ConversationInv,
         InputClosed \/ CloseOutput \/ CloseRefused \/ CloseAll \/ ConnectionLost
  PROVE  ConversationInv'
  <1>1. /\ UNCHANGED <<emitPCAPWrites, readInboundBytes, writtenOutboundBytes, hopping, read,
                       issued, wire, seen, fragments, early, first>>
        /\ channel' \in {channel, "closing"}
        /\ pending' \in {pending, <<>>}
    BY DEF InputClosed, CloseOutput, CloseRefused, CloseAll, ConnectionLost, NothingEmitted,
           captureVars, handlerVars
  <1>2. HearsAll'
    <2>1. channel \in Open => (closeState = "notClosing" <=> ended = {})
      BY DEF ConversationInv, HearsAll
    <2>2. CASE InputClosed
      BY <2>1, <2>2 DEF InputClosed, ClosedBy, HearsAll
    <2>3. CASE CloseOutput
      BY <2>1, <2>3 DEF CloseOutput, ClosedBy, HearsAll
    <2>4. CASE CloseRefused
      BY <2>4 DEF CloseRefused, ClosedBy, HearsAll
    <2>5. CASE CloseAll \/ ConnectionLost
      BY <2>5 DEF CloseAll, ConnectionLost, HearsAll, Open
    <2> QED BY <2>2, <2>3, <2>4, <2>5
  <1>3. Numbered' /\ \A side : Carries(side)' = Carries(side) /\ Late(side)' = Late(side)
    BY <1>1, CarriesUnchanged DEF ConversationInv
  <1>4. Waits'
    <2>1. OnLoop(FlattenSeq(hopping'), "own") = <<>>
      BY <1>1 DEF ConversationInv, Waits
    <2>2. \A i \in 1..Len(pending') : AllOn(pending'[i].bytes, pending'[i].loop)
      <3>1. CASE pending' = pending
        BY <3>1 DEF ConversationInv, Waits
      <3>2. CASE pending' = <<>>
        <4>1. 1..Len(pending') = {}
          BY <3>2
        <4> QED BY <4>1
      <3> QED BY <1>1, <3>1, <3>2
    <2> QED BY <2>1, <2>2 DEF Waits, AllOn, OnLoop
  <1>5. Heard' /\ Said' /\ Counted' /\ Starts'
    BY <1>1, <1>3 DEF ConversationInv, Heard, Said, Counted, Starts
  <1> QED BY <1>2, <1>3, <1>4, <1>5 DEF ConversationInv

\* The channel becomes inactive.
LEMMA InactiveConverses ==
  ASSUME Typed, CaptureTyped, ConversationInv, ChannelInactive
  PROVE  ConversationInv'
  <1>1. /\ channel = "closing" /\ channel' = "inactive"
        /\ UNCHANGED <<emitPCAPWrites, readInboundBytes, writtenOutboundBytes, pending, hopping,
                       read, issued, wire, seen, early, first>>
    BY DEF ChannelInactive, NothingEmitted, captureVars
  <1>2. /\ readInboundBytes = first + Len(Late("remote"))
        /\ writtenOutboundBytes = first + Len(Late("local"))
    BY DEF ConversationInv, Counted
  <1>3. "local" \in Sides /\ "remote" \in Sides
    BY DEF Sides
  <1>4. /\ Numbered'
        /\ \A side \in Sides : Carries(side)' = Carries(side) /\ Late(side)' = Late(side)
    <2>1. CASE NothingEmitted
      BY <2>1, CarriesUnchanged DEF ConversationInv, NothingEmitted, captureVars
    <2>2. ASSUME NEW initiator \in Sides, FileSink(Termination(initiator))
          PROVE  /\ Numbered'
                 /\ \A side \in Sides : Carries(side)' = Carries(side) /\ Late(side)' = Late(side)
      <3>1. PICK heard \in Nat, said \in Nat :
              heard = readInboundBytes /\ said = writtenOutboundBytes
        BY DEF Typed
      <3>2. PICK t \in Fragments : t = Termination(initiator)
        BY TerminationIs
      <3>3. /\ \A side \in Sides : PayloadFrom(t, side) = <<>>
            /\ GoesOn(t, "remote", heard)
            /\ GoesOn(t, "local", said)
        BY <3>1, <3>2, TerminationGoesOn
      <3>4. \A side \in Sides : GoesOn(t, side, first + Len(Late(side)))
        <4>1. GoesOn(t, "remote", first + Len(Late("remote")))
          BY <1>2, <3>1, <3>3
        <4>2. GoesOn(t, "local", first + Len(Late("local")))
          BY <1>2, <3>1, <3>3
        <4> QED BY <4>1, <4>2 DEF Sides
      <3>5. /\ Numbered'
            /\ \A side \in Sides : /\ Carries(side)' = Carries(side) \o PayloadFrom(t, side)
                                   /\ Late(side)' = Late(side) \o PayloadFrom(t, side)
        BY <1>1, <2>2, <3>2, <3>4, EmissionCarries DEF ConversationInv
      <3>6. ASSUME NEW side \in Sides
            PROVE  Carries(side)' = Carries(side) /\ Late(side)' = Late(side)
        <4>1. Carries(side)' = Carries(side) \o <<>> /\ Late(side)' = Late(side) \o <<>>
          BY <3>3, <3>5
        <4>2. Carries(side) \in Seq(Byte) /\ Late(side) \in Seq(Byte)
          BY CarriesIs, PartsOfCapture DEF Payloads, Byte
        <4> QED BY <4>1, <4>2, ConcatEmptySeq
      <3> QED BY <3>5, <3>6
    <2>3. NothingEmitted \/ \E initiator \in Sides : FileSink(Termination(initiator))
      BY DEF ChannelInactive, Sides
    <2> QED BY <2>1, <2>2, <2>3
  <1>5. Counted'
    BY <1>1, <1>2, <1>3, <1>4 DEF Counted
  <1>6. HearsAll' /\ Starts'
    BY <1>1 DEF HearsAll, Starts, Open
  <1>7. Heard' /\ Said' /\ Waits'
    BY <1>1, <1>3, <1>4 DEF ConversationInv, Heard, Said, Waits, AllOn, OnLoop
  <1> QED BY <1>4, <1>5, <1>6, <1>7 DEF ConversationInv

\* A consumer of the capture moves, or nobody does.
LEMMA OthersConverse ==
  ASSUME ConversationInv,
         UNCHANGED <<emitPCAPWrites, closeState, readInboundBytes, writtenOutboundBytes,
                     fragments, early, first, channelVars>>
  PROVE  ConversationInv'
  <1>1. UNCHANGED <<channel, ended, pending, hopping, read, issued, wire, seen>>
    BY DEF channelVars
  <1>2. Numbered' /\ \A side : Carries(side)' = Carries(side) /\ Late(side)' = Late(side)
    BY CarriesUnchanged DEF ConversationInv
  <1>3. Heard' /\ Said' /\ Waits'
    BY <1>1, <1>2 DEF ConversationInv, Heard, Said, Waits, AllOn
  <1>4. Counted' /\ HearsAll' /\ Starts'
    BY <1>1, <1>2 DEF ConversationInv, Counted, HearsAll, Starts
  <1> QED BY <1>2, <1>3, <1>4 DEF ConversationInv

\* The conversation's invariant holds always.
LEMMA ConversationInvAlways == Spec => []ConversationInv
  <1>1. Init => ConversationInv
    <2> SUFFICES ASSUME Init PROVE ConversationInv
      OBVIOUS
    <2>1. /\ Rec = <<>> /\ Before = <<>> /\ Behind = <<>>
          /\ FlattenSeq(hopping) = <<>> /\ first = 0
      <3>1. fragments = <<>> /\ hopping = <<>> /\ early = 0 /\ first = 0
        BY DEF Init
      <3>2. SubSeq(<<>>, 1, 0) = <<>> /\ Len(<<>>) = 0 /\ 0 + 1 = 1
        BY SubSeqEmpty
      <3> QED BY <3>1, <3>2, FlattenEmpty DEF Rec, Before, Behind
    <2>2. <<>> \in Fragments /\ <<>> \in Payloads /\ Len(<<>>) = 0
      BY EmptySeq DEF Fragments, Payloads
    <2>3. \A side : Carries(side) = <<>> /\ Late(side) = <<>>
      BY <2>1, <2>2, PayloadNone DEF Carries, Late
    <2>4. Numbered
      BY <2>1, <2>2, NumbersAre DEF Numbered, GoesOn
    <2>5. Heard
      <3>1. seen = 0
        BY DEF Init
      <3>2. [i \in 1..seen |-> <<i, "own">>] = <<>>
        BY <3>1
      <3> QED BY <2>3, <3>2 DEF Heard
    <2>6. \A loop : OnLoop(<<>>, loop) = <<>>
      BY <2>2, OnLoopNone
    <2>7. Said
      <3>1. <<>> \o <<>> = <<>>
        OBVIOUS
      <3> QED BY <2>1, <2>3, <2>6, <3>1 DEF Init, Said
    <2>8. Waits
      BY <2>1, <2>2, <2>6 DEF Init, Waits
    <2>9. Counted /\ HearsAll /\ Starts
      BY <2>2, <2>3 DEF Init, Counted, HearsAll, Starts
    <2> QED BY <2>4, <2>5, <2>7, <2>8, <2>9 DEF ConversationInv
  <1>2. TypeInv /\ ConversationInv /\ [Next]_vars => ConversationInv'
    <2> SUFFICES ASSUME TypeInv, ConversationInv, [Next]_vars PROVE ConversationInv'
      OBVIOUS
    <2>1. Typed /\ CaptureTyped
      BY DEF TypeInv
    <2>2. CASE UNCHANGED vars
      BY <2>2, OthersConverse DEF vars, handlerVars, captureVars
    <2>3. CASE EmitPCAP \/ Sink
      BY <2>3, OthersConverse DEF EmitPCAP, Sink, handlerVars
    <2>4. CASE Next
      BY <2>1, <2>3, <2>4, ActiveConverses, ReadConverses, WriteConverses, CompletionConverses,
         HopConverses, ClosingConverses, InactiveConverses DEF Next
    <2> QED BY <2>2, <2>4
  <1> QED BY <1>1, <1>2, TypeInvAlways, PTL DEF Spec

\* Whatever the sizes of reads and writes, of payloads and of sequence numbers, the capture
\* is the conversation, on a socket and on an EmbeddedChannel: what was read before anybody
\* began to close, and of the writes what the setting asks for, those before channelActive
\* too, in records that are numbered without a gap before the handshake and behind it.
THEOREM CaptureIsTheConversationAlways == Spec => []CaptureIsTheConversation
  <1>1. ConversationInv /\ TypeInv => CaptureIsTheConversation
    BY DEF TypeInv, Typed, ConversationInv, Numbered, Heard, Said, Carries, Rec, Sides,
       Before, Behind, CaptureIsTheConversation
  <1> QED BY <1>1, TypeInvAlways, ConversationInvAlways, PTL

=============================================================================
