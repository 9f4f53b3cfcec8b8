--------------------------- MODULE FramingProofs ---------------------------
(***************************************************************************)
(* Proofs about Framing, for every header, packet, buffer and ring size    *)
(* the code's constants could have, and any stream of packets cut into     *)
(* receives anyhow: ProcessPacket is given the client's packets, whole and *)
(* in order, and the ring never overflows.                                 *)
(***************************************************************************)
EXTENDS Framing, Integers, SequenceTheorems, NaturalsInduction, WellFoundedInduction, TLAPS

-----------------------------------------------------------------------------
(* Positions in the ring.                                                  *)

\* What the assumptions say of the sizes.
LEMMA SizesMakeSense ==
  /\ HeaderSize \in Nat /\ HeaderSize > 0
  /\ MAX_PACKET_SIZE \in Nat /\ MAX_PACKET_SIZE >= HeaderSize
  /\ BUFFER_SIZE \in Nat /\ BUFFER_SIZE > 0
  /\ RING_SIZE \in Nat /\ RING_SIZE > 0
  /\ RING_SIZE >= MAX_PACKET_SIZE - 1 + BUFFER_SIZE
BY FramingAssumption

\* A position that is less than a round too far.
Wrap(x) == IF x < RING_SIZE THEN x ELSE x - RING_SIZE

\* The remainder takes it back.
LEMMA PlusWraps ==
  ASSUME NEW p \in Positions, NEW n \in 0 .. RING_SIZE
  PROVE  Plus(p, n) = Wrap(p + n) /\ Plus(p, n) \in Positions
<1> DEFINE R == RING_SIZE
           x == p + n
<1>1. R \in Nat /\ R > 0 /\ x \in Nat /\ x < 2 * R
  BY SizesMakeSense DEF Positions
<1> HIDE DEF x, R
<1>2. CASE x < R
  <2>1. x % R = x
    BY <1>1, <1>2
  <2>2. QED
    BY <1>1, <1>2, <2>1 DEF Plus, Wrap, Positions, x, R
<1>3. CASE ~(x < R)
  <2>1. x % R = x - R
    BY <1>1, <1>3
  <2>2. QED
    BY <1>1, <1>3, <2>1 DEF Plus, Wrap, Positions, x, R
<1>4. QED
  BY <1>2, <1>3

\* Different places of the ring's content are different positions, and the
\* place behind the content is where the next byte is written.
LEMMA PlacesApart ==
  ASSUME NEW p \in Positions
  PROVE  /\ \A k, l \in 0 .. RING_SIZE - 1 : Wrap(p + k) = Wrap(p + l) => k = l
         /\ \A k \in 0 .. RING_SIZE - 1 : Wrap(p + k) \in Positions
         /\ \A n \in 0 .. RING_SIZE, j \in 0 .. RING_SIZE - 1 :
              n + j < RING_SIZE => Wrap(Wrap(p + n) + j) = Wrap(p + (n + j))
BY SizesMakeSense DEF Wrap, Positions

-----------------------------------------------------------------------------
(* The types, and the bytes that are stored or on their way.               *)

Bytes == [packet : Nat, place : Nat, size : Nat]

TypeInv ==
  /\ TypeOK
  /\ wire \in Seq(Bytes)
  /\ buffer \in [Positions -> Bytes]
  /\ parsed \in Seq(Seq(Bytes))

StreamLen == storedBytes + Len(wire)

\* The m-th byte that has not been taken out of the ring yet.
StreamAt(m) ==
  IF m <= storedBytes THEN buffer[Plus(readPos, m - 1)] ELSE wire[m - storedBytes]

Stream == [m \in 1 .. StreamLen |-> StreamAt(m)]

\* RingBuffer::Write stores the bytes at the places behind writePos, and only
\* there.
LEMMA WriteStores ==
  ASSUME TypeInv, NEW src \in Seq(Bytes), Len(src) <= RING_SIZE
  PROVE  /\ Written(src) \in [Positions -> Bytes]
         /\ \A j \in 0 .. Len(src) - 1 : Written(src)[Wrap(writePos + j)] = src[j + 1]
         /\ \A q \in Positions :
              (\A j \in 0 .. Len(src) - 1 : q # Wrap(writePos + j)) => Written(src)[q] = buffer[q]
<1> DEFINE n == Len(src)
           w == writePos
           first == Lesser(n, RING_SIZE - w)
           f == Written(src)
<1>1. /\ n \in Nat /\ n <= RING_SIZE /\ w \in Positions /\ w \in Nat /\ w < RING_SIZE
      /\ RING_SIZE \in Nat
      /\ buffer \in [Positions -> Bytes]
      /\ \A i \in 1 .. n : src[i] \in Bytes
  BY SizesMakeSense, ElementOfSeq DEF TypeInv, TypeOK, Positions
<1>2. /\ first \in Nat /\ first <= n /\ w + first <= RING_SIZE
      /\ first < n => w + first = RING_SIZE
  BY <1>1 DEF Lesser
<1>3. f = [p \in Positions |->
             CASE p >= w /\ p < w + first -> src[p - w + 1]
               [] p < n - first           -> src[first + p + 1]
               [] OTHER                   -> buffer[p]]
  BY DEF Written
<1> HIDE DEF n, w, first, f
<1>4. ASSUME NEW p \in Positions, p >= w, p < w + first
      PROVE  /\ f[p] = src[p - w + 1]
             /\ p - w + 1 \in 1 .. n
  <2>1. p \in Nat /\ ~(p < n - first)
    BY <1>1, <1>2, <1>4 DEF Positions
  <2>2. QED
    BY <1>1, <1>2, <1>3, <1>4, <2>1
<1>5. ASSUME NEW p \in Positions, p < n - first
      PROVE  /\ f[p] = src[first + p + 1]
             /\ first + p + 1 \in 1 .. n
             /\ p < w
  <2>1. p \in Nat /\ first < n /\ p < w
    BY <1>1, <1>2, <1>5 DEF Positions
  <2>2. QED
    BY <1>1, <1>2, <1>3, <1>5, <2>1
<1>6. ASSUME NEW p \in Positions, ~(p >= w /\ p < w + first), ~(p < n - first)
      PROVE  f[p] = buffer[p]
  BY <1>3, <1>6
<1>7. ASSUME NEW j \in 0 .. n - 1
      PROVE  f[Wrap(w + j)] = src[j + 1]
  <2>1. CASE j < first
    <3>1. Wrap(w + j) = w + j /\ w + j \in Positions /\ (w + j) - w + 1 = j + 1
      BY <1>1, <1>2, <2>1 DEF Wrap, Positions
    <3>2. w + j >= w /\ w + j < w + first
      BY <1>1, <1>2, <2>1
    <3>3. f[w + j] = src[(w + j) - w + 1]
      BY <1>4, <3>1, <3>2
    <3>4. QED
      BY <3>1, <3>3
  <2>2. CASE ~(j < first)
    <3> DEFINE p == w + j - RING_SIZE
    <3>1. /\ Wrap(w + j) = p /\ p \in Positions
          /\ p < n - first /\ first + p + 1 = j + 1
      BY <1>1, <1>2, <2>2 DEF Wrap, Positions
    <3> HIDE DEF p
    <3>2. f[p] = src[first + p + 1]
      BY <1>5, <3>1
    <3>3. QED
      BY <3>1, <3>2
  <2>3. QED
    BY <2>1, <2>2
<1>8. ASSUME NEW q \in Positions, \A j \in 0 .. n - 1 : q # Wrap(w + j)
      PROVE  f[q] = buffer[q]
  <2>1. q \in Nat /\ q < RING_SIZE
    BY <1>1 DEF Positions
  <2>2. ~(q >= w /\ q < w + first)
    <3>1. ASSUME q >= w, q < w + first
          PROVE  FALSE
      <4>1. q - w \in 0 .. n - 1 /\ Wrap(w + (q - w)) = q
        BY <1>1, <1>2, <2>1, <3>1 DEF Wrap
      <4>2. QED
        BY <1>8, <4>1
    <3>2. QED
      BY <3>1
  <2>3. ~(q < n - first)
    <3>1. ASSUME q < n - first
          PROVE  FALSE
      <4>1. q + first \in 0 .. n - 1 /\ Wrap(w + (q + first)) = q
        BY <1>1, <1>2, <2>1, <3>1 DEF Wrap
      <4>2. QED
        BY <1>8, <4>1
    <3>2. QED
      BY <3>1
  <2>4. QED
    BY <1>6, <2>2, <2>3
<1>9. f \in [Positions -> Bytes]
  <2>1. ASSUME NEW p \in Positions
        PROVE  f[p] \in Bytes
    <3>1. CASE p >= w /\ p < w + first
      BY <1>1, <1>4, <3>1
    <3>2. CASE p < n - first
      BY <1>1, <1>5, <3>2
    <3>3. CASE ~(p >= w /\ p < w + first) /\ ~(p < n - first)
      BY <1>1, <1>6, <3>3
    <3>4. QED
      BY <3>1, <3>2, <3>3
  <2>2. f = [p \in Positions |-> f[p]]
    BY <1>3
  <2>3. QED
    BY <2>1, <2>2
<1>10. QED
  BY <1>7, <1>8, <1>9 DEF f, n, w

\* RingBuffer::Peek returns what is at the places from a position on.
LEMMA PeekReads ==
  ASSUME TypeInv, NEW p \in Positions, NEW n \in 0 .. RING_SIZE
  PROVE  /\ Peek(p, n) \in Seq(Bytes) /\ Len(Peek(p, n)) = n
         /\ \A i \in 1 .. n : Peek(p, n)[i] = buffer[Wrap(p + (i - 1))]
<1> DEFINE first == Lesser(n, RING_SIZE - p)
<1>1. /\ p \in Nat /\ p < RING_SIZE /\ n \in Nat /\ RING_SIZE \in Nat
      /\ buffer \in [Positions -> Bytes]
  BY SizesMakeSense DEF TypeInv, Positions
<1>2. first \in Nat /\ first <= n /\ p + first <= RING_SIZE /\ (first < n => p + first = RING_SIZE)
  BY <1>1 DEF Lesser
<1>3. Peek(p, n) = [i \in 1 .. n |->
                      IF i <= first THEN buffer[p + i - 1] ELSE buffer[i - first - 1]]
  BY DEF Peek
<1> HIDE DEF first
<1>4. ASSUME NEW i \in 1 .. n
      PROVE  Peek(p, n)[i] = buffer[Wrap(p + (i - 1))] /\ Wrap(p + (i - 1)) \in Positions
  <2>1. Wrap(p + (i - 1)) = IF i <= first THEN p + i - 1 ELSE i - first - 1
    BY <1>1, <1>2 DEF Wrap
  <2>2. Wrap(p + (i - 1)) \in Positions
    BY <1>1 DEF Wrap, Positions
  <2>3. QED
    BY <1>3, <2>1, <2>2
<1>5. Peek(p, n) \in [1 .. n -> Bytes]
  BY <1>1, <1>3, <1>4
<1>6. Peek(p, n) \in Seq(Bytes)
  BY <1>1, <1>5, SeqDef
<1>7. Len(Peek(p, n)) = n
  BY <1>1, <1>5, <1>6, LenProperties
<1>8. QED
  BY <1>4, <1>6, <1>7

-----------------------------------------------------------------------------
(* Concatenating a sequence of sequences.                                  *)

\* A set that has 0 and the successor of each of its numbers has them all.
LEMMA NumbersInTurn ==
  ASSUME NEW I, 0 \in I, \A n \in Nat : n \in I => n + 1 \in I
  PROVE  \A n \in Nat : n \in I
<1> SUFFICES ASSUME NEW x \in Nat, x \notin I
             PROVE  FALSE
  OBVIOUS
<1> DEFINE R == {p \in Nat \X Nat : p[1] < p[2]}
           J == {n \in Nat : n \notin I}
<1>1. IsWellFoundedOn(R, Nat)
  BY NatLessThanWellFounded DEF OpToRel
<1>2. J \subseteq Nat /\ J # {}
  OBVIOUS
<1>3. PICK n \in J : \A k \in J : <<k, n>> \notin R
  <2> HIDE DEF R, J
  <2>1. QED
    BY <1>1, <1>2, WFMin
<1>4. n \in Nat /\ n # 0 /\ n \notin I
  OBVIOUS
<1>5. n - 1 \in Nat /\ n - 1 < n /\ n - 1 + 1 = n
  BY <1>4
<1>6. <<n - 1, n>> \in Nat \X Nat /\ <<n - 1, n>> \in R
  BY <1>4, <1>5
<1>7. n - 1 \in I
  BY <1>3, <1>5, <1>6
<1>8. QED
  BY <1>4, <1>5, <1>7

\* f holds the concatenations of the first sequences of q, up to the n-th.
Flattens(f, q, n) ==
  f = [i \in 1 .. n |-> IF i = 1 THEN q[i] ELSE f[i - 1] \o q[i]]

\* There is such a function.
LEMMA FlattensExists ==
  ASSUME NEW q, NEW n \in Nat
  PROVE  \E f : Flattens(f, q, n)
<1> DEFINE I == {k \in Nat : \E f : Flattens(f, q, k)}
<1>1. 0 \in I
  <2> DEFINE f == [i \in 1 .. 0 |-> q[i]]
  <2>1. Flattens(f, q, 0)
    BY DEF Flattens
  <2>2. QED
    BY <2>1
<1>2. ASSUME NEW k \in Nat, k \in I
      PROVE  k + 1 \in I
  <2>1. PICK f : Flattens(f, q, k)
    BY <1>2
  <2> DEFINE last == IF k = 0 THEN q[k + 1] ELSE f[k] \o q[k + 1]
             g == [i \in 1 .. k + 1 |-> IF i = k + 1 THEN last ELSE f[i]]
  <2>2. \A i \in 1 .. k : f[i] = IF i = 1 THEN q[i] ELSE f[i - 1] \o q[i]
    BY <2>1 DEF Flattens
  <2> HIDE DEF last
  <2>3. ASSUME NEW i \in 1 .. k + 1
        PROVE  g[i] = IF i = 1 THEN q[i] ELSE g[i - 1] \o q[i]
    <3>1. CASE i = k + 1
      <4>1. g[i] = last /\ (k = 0 <=> i = 1)
        BY <3>1
      <4>2. CASE k = 0
        BY <3>1, <4>1, <4>2 DEF last
      <4>3. CASE k # 0
        <5>1. i - 1 \in 1 .. k + 1 /\ i - 1 # k + 1 /\ i - 1 = k
          BY <3>1, <4>3
        <5>2. g[i - 1] = f[k]
          BY <5>1
        <5>3. QED
          BY <3>1, <4>1, <4>3, <5>2 DEF last
      <4>4. QED
        BY <4>2, <4>3
    <3>2. CASE i # k + 1
      <4>1. i \in 1 .. k /\ g[i] = f[i]
        BY <3>2
      <4>2. i # 1 => i - 1 \in 1 .. k /\ i - 1 \in 1 .. k + 1 /\ i - 1 # k + 1
        BY <4>1
      <4>3. i # 1 => g[i - 1] = f[i - 1]
        BY <4>2
      <4> HIDE DEF g
      <4>4. QED
        BY <2>2, <4>1, <4>3
    <3>3. QED
      BY <3>1, <3>2
  <2>4. g = [i \in 1 .. k + 1 |-> g[i]]
    OBVIOUS
  <2> HIDE DEF g
  <2>5. Flattens(g, q, k + 1)
    BY <2>3, <2>4 DEF Flattens
  <2>6. QED
    BY <2>5
<1> HIDE DEF I
<1>3. n \in I
  BY <1>1, <1>2, NumbersInTurn
<1>4. QED
  BY <1>3 DEF I

\* Two sequences have the same first n elements.
Agree(q, r, n) == \A i \in 1 .. n : q[i] = r[i]

\* What such a function holds depends on the sequences so far only.
LEMMA FlattensAlike ==
  ASSUME NEW q, NEW r, NEW n \in Nat, NEW m \in Nat, n <= m, Agree(q, r, n),
         NEW f, Flattens(f, q, n), NEW g, Flattens(g, r, m)
  PROVE  Agree(f, g, n)
<1> USE DEF Agree
<1> DEFINE I == {k \in Nat : k \in 1 .. n => f[k] = g[k]}
<1>1. /\ \A i \in 1 .. n : f[i] = IF i = 1 THEN q[i] ELSE f[i - 1] \o q[i]
      /\ \A i \in 1 .. n : g[i] = IF i = 1 THEN r[i] ELSE g[i - 1] \o r[i]
  <2>1. \A i \in 1 .. n : i \in 1 .. m
    OBVIOUS
  <2>2. QED
    BY <2>1 DEF Flattens
<1>2. 0 \in I
  OBVIOUS
<1>3. ASSUME NEW k \in Nat, k \in I
      PROVE  k + 1 \in I
  <2>1. CASE k + 1 \in 1 .. n
    <3>1. CASE k = 0
      <4>1. 1 \in 1 .. n
        BY <2>1, <3>1
      <4>2. f[1] = q[1] /\ g[1] = r[1]
        BY <1>1, <4>1
      <4>3. QED
        BY <3>1, <4>1, <4>2
    <3>2. CASE k # 0
      <4>1. PICK i \in 1 .. n : i = k + 1
        BY <2>1
      <4>2. k \in 1 .. n /\ i # 1 /\ i - 1 = k
        BY <3>2, <4>1
      <4>3. f[i] = f[k] \o q[i] /\ g[i] = g[k] \o r[i]
        BY <1>1, <4>2
      <4>4. f[k] = g[k] /\ q[i] = r[i]
        BY <1>3, <4>2
      <4>5. f[k + 1] = g[k + 1]
        BY <4>1, <4>3, <4>4
      <4>6. QED
        BY <4>5
    <3>3. QED
      BY <3>1, <3>2
  <2>2. CASE k + 1 \notin 1 .. n
    BY <2>2
  <2>3. QED
    BY <2>1, <2>2
<1> HIDE DEF I
<1>4. \A k \in Nat : k \in I
  BY <1>2, <1>3, NumbersInTurn
<1>5. QED
  BY <1>4 DEF I

\* FlattenSeq is its last value.
LEMMA FlattenSeqLast ==
  ASSUME NEW q, Len(q) \in Nat, Len(q) # 0
  PROVE  \E f : Flattens(f, q, Len(q)) /\ FlattenSeq(q) = f[Len(q)]
<1> DEFINE f == CHOOSE f : Flattens(f, q, Len(q))
<1>1. \E g : Flattens(g, q, Len(q))
  BY FlattensExists
<1>2. Flattens(f, q, Len(q))
  BY <1>1
<1>3. FlattenSeq(q) = f[Len(q)]
  BY DEF FlattenSeq, Flattens
<1>4. QED
  BY <1>2, <1>3

\* Of sequences over S it is one.
LEMMA FlattenType ==
  ASSUME NEW S, NEW q \in Seq(Seq(S))
  PROVE  FlattenSeq(q) \in Seq(S)
<1>1. Len(q) \in Nat /\ \A i \in 1 .. Len(q) : q[i] \in Seq(S)
  BY LenProperties, ElementOfSeq
<1>2. CASE Len(q) = 0
  <2>1. q = <<>> /\ FlattenSeq(q) = q
    BY <1>2, EmptySeq DEF FlattenSeq
  <2>2. QED
    BY <2>1, EmptySeq
<1>3. CASE Len(q) # 0
  <2> DEFINE n == Len(q)
  <2>1. PICK f : Flattens(f, q, n) /\ FlattenSeq(q) = f[n]
    BY <1>1, <1>3, FlattenSeqLast
  <2>6. n \in Nat /\ n \in 1 .. n
    BY <1>1, <1>3
  <2> HIDE DEF n
  <2>2. \A i \in 1 .. n : f[i] = IF i = 1 THEN q[i] ELSE f[i - 1] \o q[i]
    BY <2>1 DEF Flattens
  <2> DEFINE I == {k \in Nat : k \in 1 .. n => f[k] \in Seq(S)}
  <2>3. 0 \in I
    OBVIOUS
  <2>4. ASSUME NEW k \in Nat, k \in I
        PROVE  k + 1 \in I
    <3>1. CASE k + 1 \in 1 .. n
      <4>1. PICK i \in 1 .. n : i = k + 1
        BY <3>1
      <4>2. q[i] \in Seq(S)
        BY <1>1 DEF n
      <4>3. i # 1 => i - 1 = k /\ k \in 1 .. n
        BY <2>6, <4>1
      <4>4. i # 1 => f[k] \in Seq(S)
        BY <2>4, <4>3
      <4>5. f[i] = IF i = 1 THEN q[i] ELSE f[k] \o q[i]
        BY <2>2, <4>3
      <4>6. f[i] \in Seq(S)
        BY <4>2, <4>4, <4>5, ConcatProperties
      <4>7. QED
        BY <4>1, <4>6
    <3>2. CASE k + 1 \notin 1 .. n
      BY <3>2
    <3>3. QED
      BY <3>1, <3>2
  <2> HIDE DEF I
  <2>5. \A k \in Nat : k \in I
    BY <2>3, <2>4, NumbersInTurn
  <2>7. QED
    BY <2>1, <2>5, <2>6 DEF I
<1>4. QED
  BY <1>2, <1>3

\* And a sequence more comes behind the others.
LEMMA FlattenAppend ==
  ASSUME NEW S, NEW q \in Seq(Seq(S)), NEW x \in Seq(S)
  PROVE  FlattenSeq(Append(q, x)) = FlattenSeq(q) \o x
<1> DEFINE r == Append(q, x)
           n == Len(q)
<1>1. /\ n \in Nat /\ r \in Seq(Seq(S)) /\ Len(r) = n + 1 /\ r[n + 1] = x
      /\ \A i \in 1 .. n : q[i] = r[i]
  BY AppendProperties, LenProperties
<1> HIDE DEF r
<1>2. PICK g : Flattens(g, r, n + 1) /\ FlattenSeq(r) = g[n + 1]
  <2>1. Len(r) \in Nat /\ Len(r) # 0
    BY <1>1
  <2>2. QED
    BY <1>1, <2>1, FlattenSeqLast
<1>3. \A i \in 1 .. n + 1 : g[i] = IF i = 1 THEN r[i] ELSE g[i - 1] \o r[i]
  BY <1>2 DEF Flattens
<1>4. CASE n = 0
  <2>1. q = <<>> /\ FlattenSeq(q) = q
    BY <1>4, EmptySeq DEF FlattenSeq
  <2>2. g[1] = x
    BY <1>1, <1>3, <1>4
  <2>3. QED
    BY <1>2, <1>4, <2>1, <2>2, ConcatEmptySeq DEF r
<1>5. CASE n # 0
  <2>1. PICK f : Flattens(f, q, n) /\ FlattenSeq(q) = f[n]
    BY <1>1, <1>5, FlattenSeqLast
  <2> HIDE DEF n
  <2>2. n + 1 \in Nat /\ n <= n + 1 /\ n \in 1 .. n
    BY <1>1, <1>5
  <2>3. \A i \in 1 .. n : f[i] = g[i]
    <3> DEFINE m == n + 1
    <3>1. m \in Nat /\ n <= m /\ Flattens(g, r, m)
      BY <1>2, <2>2
    <3> HIDE DEF m
    <3>2. n \in Nat /\ Flattens(f, q, n) /\ Agree(q, r, n)
      BY <1>1, <2>1 DEF Agree
    <3>3. Agree(f, g, n)
      BY <3>1, <3>2, FlattensAlike
    <3>4. QED
      BY <3>3 DEF Agree
  <2>4. PICK i \in 1 .. n + 1 : i = n + 1 /\ i # 1 /\ i - 1 = n
    BY <1>5, <2>2
  <2>5. g[i] = g[n] \o r[i]
    BY <1>3, <2>4
  <2>6. g[n + 1] = f[n] \o x
    BY <1>1, <2>2, <2>3, <2>4, <2>5
  <2>7. QED
    BY <1>2, <2>1, <2>6 DEF r
<1>6. QED
  BY <1>4, <1>5

-----------------------------------------------------------------------------
(* A stream of bytes f, of length n, that consists of whole packets: those *)
(* of the size fields sz from the one after the first done on.             *)

LengthOf(z) == IF ValidSize(z) THEN z ELSE HeaderSize

ByteOf(sz, i, j) == [packet |-> i, place |-> j, size |-> sz[i]]

\* Every byte is one of a packet that was sent,
Genuine(f, n, sz) ==
  \A m \in 1 .. n : \E i \in DOMAIN sz : \E j \in 1 .. LengthOf(sz[i]) : f[m] = ByteOf(sz, i, j)

\* the rest of its packet is behind it,
Whole(f, n, sz) ==
  \A m \in 1 .. n, i \in DOMAIN sz : \A j \in 1 .. LengthOf(sz[i]) :
    f[m] = ByteOf(sz, i, j) =>
      \A d \in Nat : j + d <= LengthOf(sz[i]) => m + d <= n /\ f[m + d] = ByteOf(sz, i, j + d)

\* and place m has the start of packet i, or is behind the last one's end.
Starts(f, n, m, sz, i) ==
  IF m = n + 1 THEN i = Len(sz) + 1 ELSE i \in DOMAIN sz /\ f[m] = ByteOf(sz, i, 1)

\* The last byte of a packet is followed by the next packet.
InTurn(f, n, sz) ==
  \A m \in 1 .. n, i \in DOMAIN sz :
    f[m] = ByteOf(sz, i, LengthOf(sz[i])) => Starts(f, n, m + 1, sz, i + 1)

Framed(f, n, sz, done) ==
  /\ Genuine(f, n, sz)
  /\ Whole(f, n, sz)
  /\ InTurn(f, n, sz)
  /\ Starts(f, n, 1, sz, done + 1)

\* A packet has at least its header.
LEMMA LengthPositive ==
  ASSUME NEW z \in Nat
  PROVE  LengthOf(z) \in Nat /\ LengthOf(z) >= HeaderSize /\ LengthOf(z) > 0
BY SizesMakeSense DEF LengthOf, ValidSize

\* Behind a stream of whole packets goes another.
LEMMA AnotherPacket ==
  ASSUME NEW f, NEW n \in Nat, NEW sz \in Seq(Nat), NEW done \in Nat, Framed(f, n, sz, done),
         NEW z \in Nat, NEW g,
         \A m \in 1 .. n : g[m] = f[m],
         \A d \in 1 .. LengthOf(z) : g[n + d] = ByteOf(Append(sz, z), Len(sz) + 1, d)
  PROVE  Framed(g, n + LengthOf(z), Append(sz, z), done)
<1> DEFINE L == LengthOf(z)
           k == Len(sz) + 1
           sy == Append(sz, z)
<1>1. /\ L \in Nat /\ L > 0 /\ k \in Nat /\ k > 0 /\ sy \in Seq(Nat) /\ Len(sy) = k
      /\ DOMAIN sz = 1 .. k - 1 /\ DOMAIN sy = 1 .. k
      /\ sy[k] = z /\ \A i \in DOMAIN sz : sy[i] = sz[i]
      /\ LengthOf(sy[k]) = L
  <2>1. L \in Nat /\ L > 0 /\ Len(sz) \in Nat
    BY LengthPositive, LenProperties
  <2>2. /\ sy \in Seq(Nat) /\ Len(sy) = k /\ DOMAIN sz = 1 .. k - 1
        /\ sy[k] = z /\ \A i \in 1 .. k - 1 : sy[i] = sz[i]
    BY <2>1, AppendProperties, LenProperties
  <2>3. DOMAIN sy = 1 .. k
    BY <2>2, LenProperties
  <2>4. QED
    BY <2>1, <2>2, <2>3
<1>2. \A i \in DOMAIN sz : \A j : ByteOf(sy, i, j) = ByteOf(sz, i, j)
  BY <1>1 DEF ByteOf
<1>3. \A i, j, a, b : ByteOf(sy, i, j) = ByteOf(sy, a, b) => i = a /\ j = b
  BY DEF ByteOf
<1>4. \A i \in DOMAIN sy : LengthOf(sy[i]) \in Nat /\ LengthOf(sy[i]) > 0
  BY <1>1, LengthPositive, ElementOfSeq
<1>5. \A m \in 1 .. n : \E i \in DOMAIN sz : \E j \in 1 .. LengthOf(sy[i]) : g[m] = ByteOf(sy, i, j)
  <2> TAKE m \in 1 .. n
  <2>1. PICK i \in DOMAIN sz : \E j \in 1 .. LengthOf(sz[i]) : f[m] = ByteOf(sz, i, j)
    BY DEF Framed, Genuine
  <2>2. LengthOf(sy[i]) = LengthOf(sz[i])
    BY <1>1
  <2>3. g[m] = f[m]
    OBVIOUS
  <2>4. QED
    BY <1>2, <2>1, <2>2, <2>3
<1>6. \A d \in 1 .. L : g[n + d] = ByteOf(sy, k, d)
  OBVIOUS
<1> HIDE DEF L, k, sy
<1>7. Genuine(g, n + L, sy)
  <2> SUFFICES ASSUME NEW m \in 1 .. n + L
               PROVE  \E i \in DOMAIN sy : \E j \in 1 .. LengthOf(sy[i]) : g[m] = ByteOf(sy, i, j)
    BY DEF Genuine
  <2>1. CASE m <= n
    <3>1. m \in 1 .. n /\ DOMAIN sz \subseteq DOMAIN sy
      BY <1>1, <2>1
    <3>2. QED
      BY <1>5, <3>1
  <2>2. CASE m > n
    <3>1. m - n \in 1 .. L /\ n + (m - n) = m
      BY <1>1, <2>2
    <3>2. k \in DOMAIN sy /\ m - n \in 1 .. LengthOf(sy[k])
      BY <1>1, <3>1
    <3>3. g[m] = ByteOf(sy, k, m - n)
      BY <1>6, <3>1
    <3>4. QED
      BY <3>2, <3>3
  <2>3. QED
    BY <1>1, <2>1, <2>2
<1>8. \* The old bytes are those of the old packets.
      ASSUME NEW m \in 1 .. n, NEW i \in DOMAIN sy, NEW j, g[m] = ByteOf(sy, i, j)
      PROVE  i \in DOMAIN sz /\ f[m] = ByteOf(sz, i, j) /\ LengthOf(sy[i]) = LengthOf(sz[i])
  <2>1. PICK a \in DOMAIN sz : \E b \in 1 .. LengthOf(sy[a]) : g[m] = ByteOf(sy, a, b)
    BY <1>5
  <2>2. i = a
    <3>1. PICK b \in 1 .. LengthOf(sy[a]) : ByteOf(sy, i, j) = ByteOf(sy, a, b)
      BY <1>8, <2>1
    <3>2. QED
      BY <1>3, <3>1
  <2>3. i \in DOMAIN sz /\ sy[i] = sz[i]
    BY <1>1, <2>1, <2>2
  <2>4. f[m] = ByteOf(sz, i, j)
    BY <1>2, <1>8, <2>3
  <2>5. QED
    BY <2>3, <2>4
<1>9. \* The new ones are those of the new packet.
      ASSUME NEW m \in n + 1 .. n + L, NEW i, NEW j, g[m] = ByteOf(sy, i, j)
      PROVE  i = k /\ j = m - n
  <2>1. m - n \in 1 .. L /\ n + (m - n) = m
    BY <1>1
  <2>2. QED
    BY <1>3, <1>6, <1>9, <2>1
<1>10. Whole(g, n + L, sy)
  <2> SUFFICES ASSUME NEW m \in 1 .. n + L, NEW i \in DOMAIN sy, NEW j \in 1 .. LengthOf(sy[i]),
                      g[m] = ByteOf(sy, i, j), NEW d \in Nat, j + d <= LengthOf(sy[i])
               PROVE  m + d <= n + L /\ g[m + d] = ByteOf(sy, i, j + d)
    BY DEF Whole
  <2>1. CASE m <= n
    <3>1. m \in 1 .. n
      BY <1>1, <2>1
    <3>2. i \in DOMAIN sz /\ f[m] = ByteOf(sz, i, j) /\ LengthOf(sy[i]) = LengthOf(sz[i])
      BY <1>8, <3>1
    <3>3. m + d <= n /\ f[m + d] = ByteOf(sz, i, j + d)
      BY <3>1, <3>2 DEF Framed, Whole
    <3>4. m + d \in 1 .. n
      BY <3>1, <3>3
    <3>5. QED
      BY <1>1, <1>2, <3>2, <3>3, <3>4
  <2>2. CASE m > n
    <3>1. m \in n + 1 .. n + L
      BY <1>1, <2>2
    <3>2. i = k /\ j = m - n
      BY <1>9, <3>1
    <3>3. j + d \in 1 .. L /\ m + d = n + (j + d)
      BY <1>1, <3>1, <3>2
    <3>4. QED
      BY <1>1, <1>6, <3>2, <3>3
  <2>3. QED
    BY <1>1, <2>1, <2>2
<1>11. InTurn(g, n + L, sy)
  <2> SUFFICES ASSUME NEW m \in 1 .. n + L, NEW i \in DOMAIN sy,
                      g[m] = ByteOf(sy, i, LengthOf(sy[i]))
               PROVE  Starts(g, n + L, m + 1, sy, i + 1)
    BY DEF InTurn
  <2>1. CASE m <= n
    <3>1. m \in 1 .. n
      BY <1>1, <2>1
    <3>2. i \in DOMAIN sz /\ Starts(f, n, m + 1, sz, i + 1)
      <4>1. /\ i \in DOMAIN sz /\ f[m] = ByteOf(sz, i, LengthOf(sy[i]))
            /\ LengthOf(sy[i]) = LengthOf(sz[i])
        BY <1>8, <3>1
      <4>2. QED
        BY <3>1, <4>1 DEF Framed, InTurn
    <3>3. CASE m = n
      <4>1. i + 1 = k
        BY <3>2, <3>3 DEF Starts, k
      <4>2. k \in DOMAIN sy /\ g[m + 1] = ByteOf(sy, k, 1) /\ m + 1 # n + L + 1
        BY <1>1, <1>6, <3>3
      <4>3. QED
        BY <4>1, <4>2 DEF Starts
    <3>4. CASE m # n
      <4>1. m + 1 \in 1 .. n /\ m + 1 # n + 1 /\ m + 1 # n + L + 1
        BY <1>1, <3>1, <3>4
      <4>2. i + 1 \in DOMAIN sz /\ f[m + 1] = ByteOf(sz, i + 1, 1)
        BY <3>2, <4>1 DEF Starts
      <4>3. i + 1 \in DOMAIN sy /\ g[m + 1] = ByteOf(sy, i + 1, 1)
        BY <1>1, <1>2, <4>1, <4>2
      <4>4. QED
        BY <4>1, <4>3 DEF Starts
    <3>5. QED
      BY <3>3, <3>4
  <2>2. CASE m > n
    <3>1. m \in n + 1 .. n + L
      BY <1>1, <2>2
    <3>2. i = k /\ LengthOf(sy[i]) = m - n
      BY <1>9, <3>1
    <3>3. m = n + L /\ i + 1 = Len(sy) + 1
      BY <1>1, <3>1, <3>2
    <3>4. QED
      BY <3>3 DEF Starts
  <2>3. QED
    BY <1>1, <2>1, <2>2
<1>12. Starts(g, n + L, 1, sy, done + 1)
  <2>1. Starts(f, n, 1, sz, done + 1)
    BY DEF Framed
  <2>2. CASE n = 0
    <3>1. done + 1 = k
      BY <2>1, <2>2 DEF Starts, k
    <3>2. k \in DOMAIN sy /\ 1 \in 1 .. L /\ n + 1 = 1 /\ 1 # n + L + 1
      BY <1>1, <2>2
    <3> g[1] = ByteOf(sy, k, 1)
      BY <1>6, <3>2
    <3>3. QED
      BY <3>1, <3>2 DEF Starts
  <2>3. CASE n # 0
    <3>1. done + 1 \in DOMAIN sz /\ f[1] = ByteOf(sz, done + 1, 1) /\ 1 \in 1 .. n /\ 1 # n + L + 1
      BY <1>1, <2>1, <2>3 DEF Starts
    <3>2. done + 1 \in DOMAIN sy /\ g[1] = ByteOf(sy, done + 1, 1)
      <4>1. done + 1 \in DOMAIN sy /\ g[1] = f[1]
        BY <1>1, <3>1
      <4>2. QED
        BY <1>2, <3>1, <4>1
    <3>3. QED
      BY <3>1, <3>2 DEF Starts
  <2>4. QED
    BY <2>2, <2>3
<1>13. QED
  BY <1>7, <1>10, <1>11, <1>12 DEF Framed, L, sy

\* The first packet of a stream is the one after those that are done.
LEMMA FirstPacket ==
  ASSUME NEW f, NEW n \in Nat, NEW sz \in Seq(Nat), NEW done \in Nat, Framed(f, n, sz, done), n > 0
  PROVE  /\ done + 1 \in DOMAIN sz
         /\ LengthOf(sz[done + 1]) <= n
         /\ \A j \in 1 .. LengthOf(sz[done + 1]) : f[j] = ByteOf(sz, done + 1, j)
<1> DEFINE i == done + 1
           L == LengthOf(sz[i])
<1>1. i \in DOMAIN sz /\ f[1] = ByteOf(sz, i, 1)
  BY DEF Framed, Starts
<1>2. L \in Nat /\ L > 0
  BY <1>1, LengthPositive, ElementOfSeq, LenProperties
<1>3. \A d \in Nat : 1 + d <= L => 1 + d <= n /\ f[1 + d] = ByteOf(sz, i, 1 + d)
  <2>1. 1 \in 1 .. n /\ 1 \in 1 .. L
    BY <1>2
  <2>2. QED
    BY <1>1, <2>1 DEF Framed, Whole
<1> HIDE DEF L, i
<1>4. L <= n
  <2>1. L - 1 \in Nat /\ 1 + (L - 1) = L
    BY <1>2
  <2>2. QED
    BY <1>3, <2>1
<1>5. ASSUME NEW j \in 1 .. L
      PROVE  f[j] = ByteOf(sz, i, j)
  <2>1. j - 1 \in Nat /\ 1 + (j - 1) = j /\ j <= L
    BY <1>2
  <2>2. QED
    BY <1>3, <2>1
<1>6. QED
  BY <1>1, <1>4, <1>5 DEF L, i

\* What is left when the first packet is taken out is whole packets again.
LEMMA PacketTaken ==
  ASSUME NEW f, NEW n \in Nat, NEW sz \in Seq(Nat), NEW done \in Nat, Framed(f, n, sz, done), n > 0,
         NEW g,
         \A m \in 1 .. n - LengthOf(sz[done + 1]) : g[m] = f[m + LengthOf(sz[done + 1])]
  PROVE  Framed(g, n - LengthOf(sz[done + 1]), sz, done + 1)
<1> DEFINE i == done + 1
           L == LengthOf(sz[i])
           r == n - L
<1>1. /\ i \in DOMAIN sz /\ L <= n
      /\ \A j \in 1 .. L : f[j] = ByteOf(sz, i, j)
  BY FirstPacket
<1>2. L \in Nat /\ L > 0
  BY <1>1, LengthPositive, ElementOfSeq, LenProperties
<1>3. r \in Nat /\ \A m \in 1 .. r : m + L \in 1 .. n /\ g[m] = f[m + L]
  BY <1>1, <1>2
<1>4. Starts(f, n, L + 1, sz, i + 1)
  <2>1. L \in 1 .. n /\ f[L] = ByteOf(sz, i, L)
    BY <1>1, <1>2
  <2>2. QED
    BY <1>1, <2>1 DEF Framed, InTurn
<1> HIDE DEF L
<1>5. Genuine(g, r, sz)
  BY <1>3 DEF Framed, Genuine
<1> HIDE DEF r
<1>6. n = r + L
  BY <1>1, <1>2 DEF r
<1>7. Whole(g, r, sz)
  <2> SUFFICES ASSUME NEW m \in 1 .. r, NEW a \in DOMAIN sz, NEW j \in 1 .. LengthOf(sz[a]),
                      g[m] = ByteOf(sz, a, j), NEW d \in Nat, j + d <= LengthOf(sz[a])
               PROVE  m + d <= r /\ g[m + d] = ByteOf(sz, a, j + d)
    BY DEF Whole
  <2>1. m + L \in 1 .. n /\ f[m + L] = ByteOf(sz, a, j)
    BY <1>3
  <2>2. m + L + d <= n /\ f[m + L + d] = ByteOf(sz, a, j + d)
    BY <2>1 DEF Framed, Whole
  <2>3. m + d \in 1 .. r /\ m + d + L = m + L + d
    BY <1>2, <1>3, <1>6, <2>2
  <2>4. QED
    BY <1>3, <2>2, <2>3
<1>8. InTurn(g, r, sz)
  <2> SUFFICES ASSUME NEW m \in 1 .. r, NEW a \in DOMAIN sz, g[m] = ByteOf(sz, a, LengthOf(sz[a]))
               PROVE  Starts(g, r, m + 1, sz, a + 1)
    BY DEF InTurn
  <2>1. m + L \in 1 .. n /\ f[m + L] = ByteOf(sz, a, LengthOf(sz[a]))
    BY <1>3
  <2>2. Starts(f, n, m + L + 1, sz, a + 1)
    BY <2>1 DEF Framed, InTurn
  <2>3. CASE m = r
    <3>1. m + L + 1 = n + 1
      BY <1>2, <1>3, <1>6, <2>3
    <3>2. QED
      BY <2>2, <2>3, <3>1 DEF Starts
  <2>4. CASE m # r
    <3>1. /\ m + 1 \in 1 .. r /\ m + 1 # r + 1
          /\ m + L + 1 # n + 1 /\ m + 1 + L = m + L + 1
      BY <1>2, <1>3, <1>6, <2>4
    <3>2. g[m + 1] = f[m + L + 1]
      BY <1>3, <3>1
    <3>3. QED
      BY <2>2, <3>1, <3>2 DEF Starts
  <2>5. QED
    BY <2>3, <2>4
<1>9. Starts(g, r, 1, sz, i + 1)
  <2>1. CASE r = 0
    <3>1. L + 1 = n + 1
      BY <1>2, <1>6, <2>1
    <3>2. QED
      BY <1>4, <2>1, <3>1 DEF Starts
  <2>2. CASE r # 0
    <3>1. 1 \in 1 .. r /\ 1 # r + 1 /\ L + 1 # n + 1 /\ 1 + L = L + 1
      BY <1>2, <1>3, <1>6, <2>2
    <3>2. g[1] = f[L + 1]
      BY <1>3, <3>1
    <3>3. QED
      BY <1>4, <3>1, <3>2 DEF Starts
  <2>3. QED
    BY <2>1, <2>2
<1>10. QED
  BY <1>5, <1>7, <1>8, <1>9 DEF Framed, r, L

-----------------------------------------------------------------------------
(* The invariant.                                                          *)

\* When a receive is waited for, less than a packet is stored.
RoomWhenWaiting == phase = "waiting" => storedBytes < MAX_PACKET_SIZE

FInv ==
  /\ TypeInv
  /\ Framed(Stream, StreamLen, sizes, Len(parsed))
  /\ PacketsIntact
  /\ RoomWhenWaiting
  /\ ClosedForCause

\* The variables are what the proofs below take them for.
LEMMA Ranges ==
  ASSUME TypeInv
  PROVE  /\ sizes \in Seq(Nat) /\ Len(sizes) \in Nat /\ DOMAIN sizes = 1 .. Len(sizes)
         /\ \A i \in DOMAIN sizes : sizes[i] \in Nat
         /\ wire \in Seq(Bytes) /\ Len(wire) \in Nat /\ DOMAIN wire = 1 .. Len(wire)
         /\ parsed \in Seq(Seq(Bytes)) /\ Len(parsed) \in Nat /\ DOMAIN parsed = 1 .. Len(parsed)
         /\ storedBytes \in Nat /\ storedBytes <= RING_SIZE
         /\ storedBytes \in 0 .. RING_SIZE
         /\ StreamLen \in Nat
         /\ readPos \in Positions /\ readPos \in Nat /\ readPos < RING_SIZE
<1>1. sizes \in Seq(Nat)
  <2>1. \A i \in 1 .. Len(sizes) : sizes[i] \in Nat
    BY FramingAssumption, ElementOfSeq DEF TypeInv, TypeOK
  <2>2. sizes = [i \in 1 .. Len(sizes) |-> sizes[i]] /\ Len(sizes) \in Nat
    BY LenProperties DEF TypeInv, TypeOK
  <2>3. QED
    BY <2>1, <2>2, IsASeq
<1>2. \A i \in DOMAIN sizes : sizes[i] \in Nat
  BY <1>1, ElementOfSeq, LenProperties
<1>3. storedBytes \in 0 .. RING_SIZE /\ readPos \in Positions
  BY DEF TypeInv, TypeOK
<1>4. QED
  BY <1>1, <1>2, <1>3, SizesMakeSense, LenProperties DEF TypeInv, StreamLen, Positions

\* The stored bytes, and those on their way, by their places in the stream.
LEMMA StreamPlaces ==
  ASSUME TypeInv
  PROVE  /\ \A m \in 1 .. storedBytes : Stream[m] = buffer[Wrap(readPos + (m - 1))]
         /\ \A m \in 1 .. StreamLen : m > storedBytes => Stream[m] = wire[m - storedBytes]
<1>1. \A m \in 1 .. storedBytes : Plus(readPos, m - 1) = Wrap(readPos + (m - 1))
  BY Ranges, SizesMakeSense, PlusWraps
<1>2. \A m \in 1 .. storedBytes : m \in 1 .. StreamLen
  BY Ranges DEF StreamLen
<1>3. QED
  BY <1>1, <1>2, Ranges DEF Stream, StreamAt

\* The stream is what is stored, followed by what is on the wire.
LEMMA StreamIsStored ==
  ASSUME TypeInv
  PROVE  /\ Stream \in Seq(Bytes) /\ Len(Stream) = StreamLen
         /\ Stream = Peek(readPos, storedBytes) \o wire
<1> DEFINE s == Peek(readPos, storedBytes)
           n == storedBytes
<1>1. /\ n \in Nat /\ wire \in Seq(Bytes) /\ Len(wire) \in Nat /\ StreamLen = n + Len(wire)
      /\ StreamLen \in Nat
  BY Ranges DEF StreamLen
<1>2. /\ s \in Seq(Bytes) /\ Len(s) = n
      /\ \A i \in 1 .. n : s[i] = buffer[Wrap(readPos + (i - 1))]
  BY Ranges, PeekReads
<1> HIDE DEF s, n
<1>3. /\ s \o wire \in Seq(Bytes) /\ Len(s \o wire) = StreamLen
      /\ \A m \in 1 .. StreamLen : (s \o wire)[m] = IF m <= n THEN s[m] ELSE wire[m - n]
  BY <1>1, <1>2, ConcatProperties
<1>4. ASSUME NEW m \in 1 .. StreamLen
      PROVE  Stream[m] = (s \o wire)[m]
  <2>1. CASE m <= n
    <3>1. m \in 1 .. n
      BY <1>1, <2>1
    <3>2. Stream[m] = buffer[Wrap(readPos + (m - 1))]
      BY <3>1, StreamPlaces DEF n
    <3>3. QED
      BY <1>2, <1>3, <2>1, <3>1, <3>2
  <2>2. CASE ~(m <= n)
    <3>1. m > n
      BY <1>1, <2>2
    <3>2. Stream[m] = wire[m - n]
      BY <3>1, StreamPlaces DEF n
    <3>3. QED
      BY <1>3, <2>2, <3>2
  <2>3. QED
    BY <2>1, <2>2
<1>5. Stream = [m \in 1 .. StreamLen |-> Stream[m]]
  BY DEF Stream
<1>6. s \o wire = [m \in 1 .. StreamLen |-> (s \o wire)[m]]
  BY <1>3, LenProperties
<1>7. Stream = s \o wire
  BY <1>4, <1>5, <1>6
<1>8. QED
  BY <1>3, <1>7 DEF s, n

\* So it is after a step.
LEMMA StreamIsStoredNext == TypeInv' => (Stream \in Seq(Bytes) /\ Len(Stream) = StreamLen)'
<1>1. TypeInv => Stream \in Seq(Bytes) /\ Len(Stream) = StreamLen
  BY StreamIsStored
<1>2. QED
  BY <1>1, PTL

\* A sequence of bytes with those of s in front and those of u behind is s \o u.
LEMMA Behind ==
  ASSUME NEW s \in Seq(Bytes), NEW u \in Seq(Bytes), NEW v \in Seq(Bytes),
         Len(v) = Len(s) + Len(u),
         \A i \in 1 .. Len(s) : v[i] = s[i],
         \A i \in 1 .. Len(u) : v[Len(s) + i] = u[i]
  PROVE  v = s \o u
<1>1. Len(s) \in Nat /\ Len(u) \in Nat
  BY LenProperties
<1>2. /\ s \o u \in Seq(Bytes) /\ Len(s \o u) = Len(s) + Len(u)
      /\ \A i \in 1 .. Len(s) + Len(u) :
           (s \o u)[i] = IF i <= Len(s) THEN s[i] ELSE u[i - Len(s)]
  BY ConcatProperties
<1>3. ASSUME NEW i \in 1 .. Len(v)
      PROVE  v[i] = (s \o u)[i]
  <2>1. CASE i <= Len(s)
    <3>1. i \in 1 .. Len(s) /\ i \in 1 .. Len(s) + Len(u)
      BY <1>1, <2>1
    <3>2. QED
      BY <1>2, <2>1, <3>1
  <2>2. CASE ~(i <= Len(s))
    <3>1. PICK j \in 1 .. Len(u) : i = Len(s) + j /\ j = i - Len(s)
      BY <1>1, <2>2
    <3>2. v[i] = u[j]
      BY <3>1
    <3>3. QED
      BY <1>2, <2>2, <3>1, <3>2
  <2>3. QED
    BY <2>1, <2>2
<1>4. QED
  BY <1>2, <1>3, SeqEqual

\* A packet is a sequence of bytes, at least one.
LEMMA PacketIsBytes ==
  ASSUME NEW i \in Nat, NEW z \in Nat
  PROVE  /\ PacketBytes(i, z) \in Seq(Bytes)
         /\ Len(PacketBytes(i, z)) = LengthOf(z)
         /\ \A j \in 1 .. LengthOf(z) :
              PacketBytes(i, z)[j] = [packet |-> i, place |-> j, size |-> z]
<1> DEFINE L == LengthOf(z)
<1>1. PacketBytes(i, z) = [j \in 1 .. L |-> [packet |-> i, place |-> j, size |-> z]]
  BY DEF PacketBytes, LengthOf
<1>2. L \in Nat
  BY LengthPositive
<1> HIDE DEF L
<1>3. \A j \in 1 .. L : [packet |-> i, place |-> j, size |-> z] \in Bytes
  BY <1>2 DEF Bytes
<1>4. PacketBytes(i, z) \in Seq(Bytes)
  BY <1>1, <1>2, <1>3, IsASeq
<1>5. Len(PacketBytes(i, z)) = L
  BY <1>1, <1>2, <1>4, LenProperties
<1>6. QED
  BY <1>1, <1>4, <1>5 DEF L

\* The invariant holds initially.
LEMMA InitFramed == Init => FInv
<1> SUFFICES ASSUME Init
             PROVE  FInv
  OBVIOUS
<1>1. /\ Len(sizes) = 0 /\ Len(wire) = 0 /\ Len(parsed) = 0 /\ DOMAIN sizes = {} /\ DOMAIN parsed = {}
      /\ sizes \in Seq(Sizes) /\ wire \in Seq(Bytes) /\ parsed \in Seq(Seq(Bytes))
  BY DEF Init
<1>2. 0 \in Positions /\ NoByte \in Bytes
  BY SizesMakeSense DEF Positions, NoByte, Bytes
<1>3. Plus(0, 0) = 0
  BY <1>2, SizesMakeSense, PlusWraps DEF Wrap
<1>4. TypeInv
  BY <1>1, <1>2, <1>3, SizesMakeSense DEF Init, TypeInv, TypeOK
<1>5. StreamLen = 0
  BY <1>1 DEF Init, StreamLen
<1>6. Framed(Stream, StreamLen, sizes, Len(parsed))
  BY <1>1, <1>5 DEF Framed, Genuine, Whole, InTurn, Starts
<1>7. PacketsIntact /\ RoomWhenWaiting /\ ClosedForCause
  BY <1>1, SizesMakeSense DEF PacketsIntact, RoomWhenWaiting, ClosedForCause, Init
<1>8. QED
  BY <1>4, <1>6, <1>7 DEF FInv

\* A packet that is written goes behind the others.
LEMMA SendFramed ==
  ASSUME FInv, NEW z \in Sizes, Send(z)
  PROVE  FInv' /\ Stream' = Stream \o PacketBytes(Len(sizes) + 1, z)
<1> DEFINE i == Len(sizes) + 1
           bytes == PacketBytes(i, z)
           L == LengthOf(z)
<1>1. TypeInv /\ z \in Nat
  BY FramingAssumption DEF FInv
<1>2. /\ sizes' = Append(sizes, z) /\ wire' = wire \o bytes
      /\ UNCHANGED <<buffer, readPos, writePos, storedBytes, parsed, phase>>
  BY DEF Send, ringVars
<1>3. /\ bytes \in Seq(Bytes) /\ Len(bytes) = L /\ L \in Nat /\ i \in Nat
      /\ \A d \in 1 .. L : bytes[d] = [packet |-> i, place |-> d, size |-> z]
  <2>1. i \in Nat
    BY <1>1, Ranges
  <2> HIDE DEF i
  <2>2. QED
    BY <1>1, <2>1, PacketIsBytes, LengthPositive
<1>4. /\ sizes' \in Seq(Sizes) /\ Len(sizes') = i /\ DOMAIN sizes' = 1 .. i
      /\ sizes'[i] = z /\ \A j \in DOMAIN sizes : sizes'[j] = sizes[j]
  <2>1. sizes \in Seq(Sizes) /\ DOMAIN sizes = 1 .. Len(sizes)
    BY <1>1, Ranges DEF TypeInv, TypeOK
  <2>2. QED
    BY <1>2, <2>1, AppendProperties, LenProperties
<1> HIDE DEF i, bytes, L
<1>5. /\ wire' \in Seq(Bytes) /\ Len(wire') = Len(wire) + L
      /\ \A m \in 1 .. Len(wire) : wire'[m] = wire[m]
      /\ \A d \in 1 .. L : wire'[Len(wire) + d] = bytes[d]
  <2>1. wire \in Seq(Bytes) /\ Len(wire) \in Nat
    BY <1>1, Ranges
  <2>2. /\ wire' \in Seq(Bytes) /\ Len(wire') = Len(wire) + L
        /\ \A m \in 1 .. Len(wire) + L :
             wire'[m] = IF m <= Len(wire) THEN wire[m] ELSE bytes[m - Len(wire)]
    BY <1>2, <1>3, <2>1, ConcatProperties
  <2>3. ASSUME NEW d \in 1 .. L
        PROVE  wire'[Len(wire) + d] = bytes[d]
    <3>1. /\ Len(wire) + d \in 1 .. Len(wire) + L /\ ~(Len(wire) + d <= Len(wire))
          /\ Len(wire) + d - Len(wire) = d
      BY <1>3, <2>1
    <3>2. QED
      BY <2>2, <3>1
  <2>4. QED
    BY <1>3, <2>1, <2>2, <2>3
<1>6. TypeInv'
  BY <1>1, <1>2, <1>4, <1>5 DEF TypeInv, TypeOK, Plus
<1>7. StreamLen' = StreamLen + L
  BY <1>1, <1>2, <1>3, <1>5, Ranges DEF StreamLen
<1>8. ASSUME NEW m \in 1 .. StreamLen
      PROVE  Stream'[m] = Stream[m]
  <2>1. m \in 1 .. StreamLen'
    BY <1>1, <1>3, <1>7, Ranges
  <2>2. CASE m <= storedBytes
    BY <1>1, <1>2, <1>6, <2>1, <2>2, Ranges DEF Stream, StreamAt, Plus
  <2>3. CASE m > storedBytes
    <3>1. m - storedBytes \in 1 .. Len(wire)
      BY <1>1, <2>3, Ranges DEF StreamLen
    <3>2. QED
      BY <1>1, <1>2, <1>5, <2>1, <2>3, <3>1, Ranges DEF Stream, StreamAt
  <2>4. QED
    BY <1>1, <2>2, <2>3, Ranges
<1>9. ASSUME NEW d \in 1 .. L
      PROVE  Stream'[StreamLen + d] = ByteOf(Append(sizes, z), Len(sizes) + 1, d)
  <2> DEFINE m == StreamLen + d
  <2>1. /\ m \in 1 .. StreamLen' /\ m > storedBytes /\ m - storedBytes = Len(wire) + d
    <3>1. /\ storedBytes \in Nat /\ Len(wire) \in Nat /\ L \in Nat
          /\ StreamLen = storedBytes + Len(wire) /\ StreamLen' = StreamLen + L
      BY <1>1, <1>3, <1>7, Ranges DEF StreamLen
    <3> HIDE DEF L
    <3>2. QED
      BY <3>1
  <2> HIDE DEF m
  <2>2. storedBytes' = storedBytes /\ storedBytes \in Nat /\ m \in Nat /\ ~(m <= storedBytes')
    BY <1>1, <1>2, <1>3, <2>1, Ranges DEF m
  <2>4. Stream'[m] = wire'[m - storedBytes']
    BY <2>1, <2>2 DEF Stream, StreamAt
  <2>3. Stream'[m] = [packet |-> i, place |-> d, size |-> z]
    BY <1>3, <1>5, <2>1, <2>2, <2>4
  <2>5. QED
    BY <1>2, <1>4, <2>3 DEF ByteOf, i, m
<1>10. Framed(Stream', StreamLen', sizes', Len(parsed'))
  <2>1. Framed(Stream, StreamLen, sizes, Len(parsed))
    BY DEF FInv
  <2>2. /\ sizes \in Seq(Nat) /\ StreamLen \in Nat /\ Len(parsed) \in Nat
    BY <1>1, Ranges
  <2> DEFINE f == Stream
             g == Stream'
             n == StreamLen
             done == Len(parsed)
  <2>3. /\ \A m \in 1 .. n : g[m] = f[m]
        /\ \A d \in 1 .. LengthOf(z) : g[n + d] = ByteOf(Append(sizes, z), Len(sizes) + 1, d)
    BY <1>8, <1>9 DEF L
  <2> HIDE DEF f, g, n, done
  <2>4. Framed(g, n + LengthOf(z), Append(sizes, z), done)
    BY <1>1, <2>1, <2>2, <2>3, AnotherPacket DEF f, n, done
  <2>5. QED
    BY <1>2, <1>7, <2>4 DEF g, n, done, L
<1>11. PacketsIntact'
  <2> SUFFICES ASSUME NEW j \in DOMAIN parsed
               PROVE  j \in DOMAIN sizes' /\ parsed[j] = SentPackets'[j]
    BY <1>2 DEF PacketsIntact
  <2>1. j \in DOMAIN sizes /\ parsed[j] = PacketBytes(j, sizes[j])
    BY DEF FInv, PacketsIntact, SentPackets
  <2>2. j \in DOMAIN sizes' /\ sizes'[j] = sizes[j]
    BY <1>1, <1>3, <1>4, <2>1, Ranges DEF i
  <2>3. QED
    BY <2>1, <2>2 DEF SentPackets
<1>12. RoomWhenWaiting' /\ ClosedForCause'
  <2>1. DOMAIN sizes \subseteq DOMAIN sizes'
    BY <1>1, <1>4, Ranges DEF i
  <2>2. QED
    BY <1>2, <1>4, <2>1 DEF FInv, RoomWhenWaiting, ClosedForCause
<1>13. Stream' = Stream \o bytes
  <2>1. /\ Stream \in Seq(Bytes) /\ Len(Stream) = StreamLen
        /\ Stream' \in Seq(Bytes) /\ Len(Stream') = StreamLen + L
    BY <1>1, <1>6, <1>7, StreamIsStored, StreamIsStoredNext
  <2>2. \A d \in 1 .. L : Stream'[StreamLen + d] = bytes[d]
    BY <1>2, <1>3, <1>4, <1>9 DEF ByteOf, i
  <2> DEFINE s == Stream
             v == Stream'
  <2>3. /\ s \in Seq(Bytes) /\ v \in Seq(Bytes) /\ Len(v) = Len(s) + Len(bytes)
        /\ \A k \in 1 .. Len(s) : v[k] = s[k]
        /\ \A k \in 1 .. Len(bytes) : v[Len(s) + k] = bytes[k]
    BY <1>3, <1>8, <2>1, <2>2
  <2> HIDE DEF s, v
  <2>4. v = s \o bytes
    BY <1>3, <2>3, Behind
  <2>5. QED
    BY <2>4 DEF s, v
<1>14. QED
  BY <1>6, <1>10, <1>11, <1>12, <1>13 DEF FInv, bytes, i

\* A receive moves bytes from the wire into the ring, and the stream is what
\* it was; the ring has room.
LEMMA ReceiveFramed ==
  ASSUME FInv, NEW n \in 1 .. BUFFER_SIZE, Receive(n)
  PROVE  FInv' /\ Stream' = Stream
<1> DEFINE src == SubSeq(wire, 1, n)
<1>1. TypeInv
  BY DEF FInv
<1>2. /\ n \in Nat /\ n > 0 /\ n <= Len(wire)
      /\ storedBytes + n <= RING_SIZE
  BY <1>1, Ranges, SizesMakeSense DEF Receive, FInv, RoomWhenWaiting
<1>3. /\ wire' = SubSeq(wire, n + 1, Len(wire))
      /\ phase' = "parsing" /\ buffer' = Written(src)
      /\ writePos' = Plus(writePos, n) /\ storedBytes' = storedBytes + n
      /\ UNCHANGED <<readPos, sizes, parsed>>
  <2>1. HasRoom(n)
    BY <1>1, <1>2, Ranges, SizesMakeSense DEF HasRoom
  <2>2. QED
    BY <2>1 DEF Receive
<1>4. /\ src \in Seq(Bytes) /\ Len(src) = n
      /\ \A j \in 1 .. n : src[j] = wire[j]
  <2>1. \A j \in 1 .. n : wire[j] \in Bytes
    BY <1>1, <1>2, Ranges, ElementOfSeq
  <2>2. QED
    BY <1>2, <2>1, SubSeqProperties
<1>5. /\ wire' \in Seq(Bytes) /\ Len(wire') = Len(wire) - n
      /\ \A j \in 1 .. Len(wire) - n : wire'[j] = wire[n + j]
  <2>1. \A j \in n + 1 .. Len(wire) : wire[j] \in Bytes
    BY <1>1, <1>2, Ranges, ElementOfSeq
  <2>2. n + 1 \in Int /\ Len(wire) \in Int
    BY <1>1, <1>2, Ranges
  <2>3. /\ wire' \in Seq(Bytes)
        /\ Len(wire') = IF n + 1 <= Len(wire) THEN Len(wire) - (n + 1) + 1 ELSE 0
        /\ \A j \in 1 .. Len(wire) - (n + 1) + 1 : wire'[j] = wire[n + 1 + j - 1]
    BY <1>3, <2>1, <2>2, SubSeqProperties
  <2>4. QED
    BY <1>2, <2>2, <2>3
<1> HIDE DEF src
<1>6. /\ buffer' \in [Positions -> Bytes]
      /\ \A j \in 0 .. n - 1 : buffer'[Wrap(writePos + j)] = src[j + 1]
      /\ \A q \in Positions :
           (\A j \in 0 .. n - 1 : q # Wrap(writePos + j)) => buffer'[q] = buffer[q]
  <2>1. n <= RING_SIZE
    BY <1>1, <1>2, Ranges, SizesMakeSense
  <2>2. QED
    BY <1>1, <1>3, <1>4, <2>1, WriteStores
<1>7. writePos = Wrap(readPos + storedBytes) /\ writePos \in Positions
  BY <1>1, Ranges, PlusWraps DEF TypeInv, TypeOK
<1>8. writePos' = Plus(readPos', storedBytes') /\ writePos' \in Positions
  <2>1. n \in 0 .. RING_SIZE /\ storedBytes + n \in 0 .. RING_SIZE
    BY <1>1, <1>2, Ranges, SizesMakeSense
  <2>2. /\ Plus(writePos, n) = Wrap(writePos + n) /\ Plus(writePos, n) \in Positions
        /\ Plus(readPos, storedBytes + n) = Wrap(readPos + (storedBytes + n))
    BY <1>1, <1>7, <2>1, Ranges, PlusWraps
  <2>3. Wrap(writePos + n) = Wrap(readPos + (storedBytes + n))
    BY <1>1, <1>2, <1>7, Ranges, SizesMakeSense DEF Wrap
  <2>4. QED
    BY <1>3, <2>2, <2>3
<1>9. TypeInv'
  <2>1. storedBytes' \in 0 .. RING_SIZE
    BY <1>1, <1>2, <1>3, Ranges
  <2>2. QED
    BY <1>1, <1>3, <1>5, <1>6, <1>8, <2>1 DEF TypeInv, TypeOK
<1>10. StreamLen' = StreamLen
  <2>1. Len(wire') = Len(wire) - n /\ storedBytes' = storedBytes + n
    BY <1>3, <1>5
  <2>2. Len(wire) \in Nat /\ storedBytes \in Nat /\ n \in Nat
    BY <1>1, <1>2, Ranges
  <2>3. QED
    BY <2>1, <2>2 DEF StreamLen
<1>11. \* What was stored is still there,
       ASSUME NEW m \in 1 .. storedBytes
       PROVE  buffer'[Wrap(readPos + (m - 1))] = buffer[Wrap(readPos + (m - 1))]
  <2> DEFINE q == Wrap(readPos + (m - 1))
  <2>1. /\ readPos \in Positions /\ storedBytes \in 0 .. RING_SIZE /\ n \in Nat
        /\ m - 1 \in 0 .. RING_SIZE - 1 /\ m - 1 < storedBytes
    BY <1>1, <1>2, Ranges, SizesMakeSense
  <2>2. q \in Positions
    BY <2>1, PlacesApart
  <2>3. ASSUME NEW j \in 0 .. n - 1
        PROVE  q # Wrap(writePos + j)
    <3>1. j \in 0 .. RING_SIZE - 1 /\ storedBytes + j < RING_SIZE /\ storedBytes + j \in 0 .. RING_SIZE - 1
      BY <1>2, <2>1, SizesMakeSense
    <3>2. Wrap(writePos + j) = Wrap(readPos + (storedBytes + j))
      BY <1>7, <2>1, <3>1, PlacesApart
    <3>3. m - 1 # storedBytes + j
      BY <2>1, <3>1
    <3>4. QED
      BY <2>1, <3>1, <3>2, <3>3, PlacesApart
  <2> HIDE DEF q
  <2>4. buffer'[q] = buffer[q]
    BY <1>6, <2>2, <2>3
  <2>5. QED
    BY <2>4 DEF q
<1>12. \* and behind it are the bytes that arrived.
       ASSUME NEW m \in storedBytes + 1 .. storedBytes + n
       PROVE  buffer'[Wrap(readPos + (m - 1))] = wire[m - storedBytes]
  <2> DEFINE j == m - 1 - storedBytes
  <2>1. /\ j \in 0 .. n - 1 /\ j \in 0 .. RING_SIZE - 1 /\ storedBytes + j < RING_SIZE
        /\ storedBytes + j = m - 1 /\ j + 1 = m - storedBytes
        /\ storedBytes \in 0 .. RING_SIZE /\ readPos \in Positions
    BY <1>1, <1>2, Ranges, SizesMakeSense
  <2> HIDE DEF j
  <2>2. Wrap(writePos + j) = Wrap(readPos + (m - 1))
    <3>1. Wrap(Wrap(readPos + storedBytes) + j) = Wrap(readPos + (storedBytes + j))
      BY <2>1, PlacesApart
    <3>2. QED
      BY <1>7, <2>1, <3>1
  <2>3. buffer'[Wrap(writePos + j)] = wire[j + 1]
    <3>1. j + 1 \in 1 .. n
      BY <1>2, <2>1
    <3>2. QED
      BY <1>4, <1>6, <2>1, <3>1
  <2>4. QED
    BY <2>1, <2>2, <2>3
<1>13. Stream' = Stream
  <2>1. ASSUME NEW m \in 1 .. StreamLen
        PROVE  Stream'[m] = Stream[m]
    <3>1. /\ m \in 1 .. StreamLen' /\ storedBytes \in Nat /\ m \in Nat
          /\ storedBytes' = storedBytes + n /\ readPos' = readPos
      BY <1>1, <1>3, <1>10, Ranges
    <3>2. /\ m <= storedBytes + n => Stream'[m] = buffer'[Wrap(readPos + (m - 1))]
          /\ m > storedBytes + n => Stream'[m] = wire'[m - (storedBytes + n)]
      <4>1. /\ \A x \in 1 .. storedBytes' : Stream'[x] = buffer'[Wrap(readPos' + (x - 1))]
            /\ \A x \in 1 .. StreamLen' : x > storedBytes' => Stream'[x] = wire'[x - storedBytes']
        <5>1. \A x \in 1 .. storedBytes' : Plus(readPos', x - 1) = Wrap(readPos' + (x - 1))
          BY <1>1, <1>2, <1>3, Ranges, SizesMakeSense, PlusWraps
        <5>2. \A x \in 1 .. storedBytes' : x \in 1 .. StreamLen'
          BY <1>1, <1>2, <1>3, <1>10, Ranges DEF StreamLen
        <5>3. QED
          BY <5>1, <5>2, <3>1, <1>2 DEF Stream, StreamAt
      <4>2. QED
        BY <1>2, <3>1, <4>1
    <3>3. CASE m <= storedBytes
      <4>1. m \in 1 .. storedBytes /\ m <= storedBytes + n
        BY <1>2, <3>1, <3>3
      <4>2. QED
        BY <1>1, <1>11, <3>2, <4>1, StreamPlaces
    <3>4. CASE m > storedBytes /\ m <= storedBytes + n
      <4>1. m \in storedBytes + 1 .. storedBytes + n
        BY <1>2, <3>1, <3>4
      <4>2. QED
        BY <1>1, <1>12, <3>2, <3>4, <4>1, StreamPlaces
    <3>5. CASE m > storedBytes + n
      <4>1. /\ m - (storedBytes + n) \in 1 .. Len(wire) - n
            /\ n + (m - (storedBytes + n)) = m - storedBytes /\ m > storedBytes
        BY <1>1, <1>2, <3>1, <3>5, Ranges DEF StreamLen
      <4>2. QED
        BY <1>1, <1>5, <3>2, <3>5, <4>1, StreamPlaces
    <3>6. QED
      BY <1>2, <3>1, <3>3, <3>4, <3>5
  <2>2. Stream' = [m \in 1 .. StreamLen |-> Stream'[m]]
    BY <1>10 DEF Stream
  <2>3. Stream = [m \in 1 .. StreamLen |-> Stream[m]]
    BY DEF Stream
  <2>4. QED
    BY <2>1, <2>2, <2>3
<1>14. Framed(Stream, StreamLen, sizes, Len(parsed))'
  BY <1>3, <1>10, <1>13 DEF FInv, Framed, Genuine, Whole, InTurn, Starts
<1>15. PacketsIntact' /\ RoomWhenWaiting' /\ ClosedForCause'
  BY <1>3 DEF FInv, PacketsIntact, SentPackets, RoomWhenWaiting, ClosedForCause
<1>16. QED
  BY <1>9, <1>13, <1>14, <1>15 DEF FInv

\* The loop reads the size field of the packet whose turn it is.
LEMMA HeaderRead ==
  ASSUME FInv, Has(HeaderSize)
  PROVE  /\ Len(parsed) + 1 \in DOMAIN sizes
         /\ StatedSize = sizes[Len(parsed) + 1]
         /\ LengthOf(sizes[Len(parsed) + 1]) <= StreamLen
         /\ \A j \in 1 .. LengthOf(sizes[Len(parsed) + 1]) :
              Stream[j] = ByteOf(sizes, Len(parsed) + 1, j)
<1> DEFINE i == Len(parsed) + 1
<1>1. TypeInv /\ Framed(Stream, StreamLen, sizes, Len(parsed))
  BY DEF FInv
<1>2. /\ storedBytes > 0 /\ HeaderSize <= storedBytes /\ StreamLen > 0
      /\ HeaderSize \in 0 .. RING_SIZE /\ 1 \in 1 .. HeaderSize /\ 1 \in 1 .. storedBytes
  BY <1>1, Ranges, SizesMakeSense DEF Has, StreamLen
<1>3. /\ i \in DOMAIN sizes /\ LengthOf(sizes[i]) <= StreamLen
      /\ \A j \in 1 .. LengthOf(sizes[i]) : Stream[j] = ByteOf(sizes, i, j)
  <2> DEFINE f == Stream
             n == StreamLen
             done == Len(parsed)
  <2>1. Framed(f, n, sizes, done) /\ n > 0 /\ n \in Nat /\ done \in Nat /\ sizes \in Seq(Nat)
    BY <1>1, <1>2, Ranges
  <2> HIDE DEF f, n, done
  <2>2. /\ done + 1 \in DOMAIN sizes /\ LengthOf(sizes[done + 1]) <= n
        /\ \A j \in 1 .. LengthOf(sizes[done + 1]) : f[j] = ByteOf(sizes, done + 1, j)
    BY <2>1, FirstPacket
  <2>3. QED
    BY <2>2 DEF f, n, done
<1>4. Peek(readPos, HeaderSize)[1] = Stream[1]
  <2>1. Peek(readPos, HeaderSize)[1] = buffer[Wrap(readPos + (1 - 1))]
    BY <1>1, <1>2, Ranges, PeekReads
  <2>2. QED
    BY <1>1, <1>2, <2>1, StreamPlaces
<1>5. StatedSize = sizes[i]
  <2>1. sizes[i] \in Nat
    BY <1>1, <1>3, Ranges
  <2> HIDE DEF i
  <2>2. 1 \in 1 .. LengthOf(sizes[i])
    BY <2>1, LengthPositive
  <2>3. Stream[1] = ByteOf(sizes, i, 1)
    BY <1>3, <2>2
  <2>4. QED
    BY <1>4, <2>3 DEF StatedSize, ByteOf
<1>6. QED
  BY <1>3, <1>5

\* The packet taken out is the one whose turn it is, whole, and the next one
\* follows.
LEMMA ParsePacketFramed ==
  ASSUME FInv, ParsePacket
  PROVE  /\ FInv'
         /\ \E packet \in Seq(Bytes) :
              parsed' = Append(parsed, packet) /\ Stream = packet \o Stream'
<1> DEFINE i == Len(parsed) + 1
           L == StatedSize
           rest == L - HeaderSize
           body == Plus(readPos, HeaderSize)
           packet == Peek(readPos, HeaderSize) \o Peek(body, rest)
<1>1. TypeInv /\ Has(HeaderSize)
  BY DEF FInv, ParsePacket, PacketComplete
<1>2. /\ i \in DOMAIN sizes /\ L = sizes[i] /\ LengthOf(sizes[i]) = L
      /\ \A j \in 1 .. L : Stream[j] = ByteOf(sizes, i, j)
  BY <1>1, HeaderRead DEF ParsePacket, LengthOf
<1>3. /\ L \in Nat /\ L <= storedBytes /\ L >= HeaderSize /\ rest \in Nat
      /\ HeaderSize \in 0 .. RING_SIZE /\ rest \in 0 .. RING_SIZE /\ L > 0
  <2>1. L \in Nat
    BY <1>1, <1>2, Ranges
  <2> HIDE DEF L
  <2>2. L <= storedBytes /\ L >= HeaderSize
    BY DEF ParsePacket, PacketComplete, Has, ValidSize, L
  <2>3. QED
    BY <1>1, <2>1, <2>2, Ranges, SizesMakeSense
<1>4. /\ parsed' = Append(parsed, packet)
      /\ readPos' = Plus(body, rest) /\ storedBytes' = storedBytes - L
      /\ UNCHANGED <<sizes, wire, buffer, writePos, phase>>
  BY DEF ParsePacket
<1> HIDE DEF L, packet
<1>5. body = Wrap(readPos + HeaderSize) /\ body \in Positions
  BY <1>1, <1>3, Ranges, PlusWraps
<1>6. readPos' = Wrap(readPos + L) /\ readPos' \in Positions
  <2>1. Plus(body, rest) = Wrap(body + rest) /\ Plus(body, rest) \in Positions
    BY <1>3, <1>5, PlusWraps
  <2>2. Wrap(body + rest) = Wrap(readPos + L)
    BY <1>1, <1>3, <1>5, Ranges, SizesMakeSense DEF Wrap
  <2>3. QED
    BY <1>4, <2>1, <2>2
<1> HIDE DEF rest, body
<1>7. /\ packet \in Seq(Bytes) /\ Len(packet) = L
      /\ \A j \in 1 .. L : packet[j] = Stream[j]
  <2>1. /\ Peek(readPos, HeaderSize) \in Seq(Bytes) /\ Len(Peek(readPos, HeaderSize)) = HeaderSize
        /\ \A j \in 1 .. HeaderSize :
             Peek(readPos, HeaderSize)[j] = buffer[Wrap(readPos + (j - 1))]
    BY <1>1, <1>3, Ranges, PeekReads
  <2>2. /\ Peek(body, rest) \in Seq(Bytes) /\ Len(Peek(body, rest)) = rest
        /\ \A j \in 1 .. rest : Peek(body, rest)[j] = buffer[Wrap(body + (j - 1))]
    BY <1>1, <1>3, <1>5, PeekReads
  <2>3. HeaderSize + rest = L
    BY <1>3, SizesMakeSense DEF rest
  <2>4. /\ packet \in Seq(Bytes) /\ Len(packet) = L
        /\ \A j \in 1 .. L :
             packet[j] = IF j <= HeaderSize THEN Peek(readPos, HeaderSize)[j]
                                            ELSE Peek(body, rest)[j - HeaderSize]
    <3> DEFINE s == Peek(readPos, HeaderSize)
               t == Peek(body, rest)
    <3>1. packet = s \o t /\ s \in Seq(Bytes) /\ t \in Seq(Bytes) /\ Len(s) + Len(t) = L
          /\ Len(s) = HeaderSize
      BY <2>1, <2>2, <2>3 DEF packet
    <3> HIDE DEF s, t
    <3>2. /\ packet \in Seq(Bytes) /\ Len(packet) = L
          /\ \A j \in 1 .. L : packet[j] = IF j <= HeaderSize THEN s[j] ELSE t[j - HeaderSize]
      BY <3>1, ConcatProperties
    <3>3. QED
      BY <3>2 DEF s, t
  <2>5. ASSUME NEW j \in 1 .. L
        PROVE  packet[j] = Stream[j]
    <3>1. j \in 1 .. storedBytes /\ Stream[j] = buffer[Wrap(readPos + (j - 1))]
      <4>1. j \in 1 .. storedBytes
        BY <1>1, <1>3, Ranges
      <4>2. QED
        BY <1>1, <4>1, StreamPlaces
    <3>2. CASE j <= HeaderSize
      <4>1. j \in 1 .. HeaderSize
        BY <3>2, SizesMakeSense
      <4>2. QED
        BY <2>1, <2>4, <3>1, <3>2, <4>1
    <3>3. CASE ~(j <= HeaderSize)
      <4>1. j - HeaderSize \in 1 .. rest
        BY <1>3, <3>3, SizesMakeSense DEF rest
      <4>2. packet[j] = buffer[Wrap(body + ((j - HeaderSize) - 1))]
        BY <2>2, <2>4, <3>3, <4>1
      <4>3. Wrap(body + ((j - HeaderSize) - 1)) = Wrap(readPos + (j - 1))
        <5>1. /\ (j - HeaderSize) - 1 \in 0 .. RING_SIZE - 1
              /\ HeaderSize + ((j - HeaderSize) - 1) < RING_SIZE
              /\ HeaderSize + ((j - HeaderSize) - 1) = j - 1
          BY <1>1, <1>3, <3>1, <3>3, Ranges, SizesMakeSense
        <5>2. QED
          BY <1>1, <1>3, <1>5, <5>1, Ranges, PlacesApart
      <4>4. QED
        BY <3>1, <4>2, <4>3
    <3>4. QED
      BY <3>2, <3>3
  <2>6. QED
    BY <2>4, <2>5
<1>8. packet = PacketBytes(i, sizes[i])
  <2>1. /\ PacketBytes(i, sizes[i]) \in Seq(Bytes) /\ Len(PacketBytes(i, sizes[i])) = L
        /\ \A j \in 1 .. L : PacketBytes(i, sizes[i])[j] = ByteOf(sizes, i, j)
    <3>1. i \in Nat /\ sizes[i] \in Nat
      BY <1>1, <1>2, Ranges
    <3> HIDE DEF i
    <3>2. /\ PacketBytes(i, sizes[i]) \in Seq(Bytes)
          /\ Len(PacketBytes(i, sizes[i])) = LengthOf(sizes[i])
          /\ \A j \in 1 .. LengthOf(sizes[i]) :
               PacketBytes(i, sizes[i])[j] = [packet |-> i, place |-> j, size |-> sizes[i]]
      BY <3>1, PacketIsBytes
    <3>3. QED
      BY <1>2, <3>2 DEF ByteOf
  <2> HIDE DEF i
  <2>2. \A j \in 1 .. L : packet[j] = PacketBytes(i, sizes[i])[j]
    BY <1>2, <1>7, <2>1
  <2>3. QED
    BY <1>7, <2>1, <2>2, SeqEqual
<1>9. /\ parsed' \in Seq(Seq(Bytes)) /\ Len(parsed') = i
      /\ parsed'[i] = packet /\ \A j \in DOMAIN parsed : parsed'[j] = parsed[j]
      /\ DOMAIN parsed' = 1 .. i
  <2>1. parsed \in Seq(Seq(Bytes)) /\ packet \in Seq(Bytes) /\ DOMAIN parsed = 1 .. Len(parsed)
    BY <1>1, <1>7, Ranges
  <2>2. QED
    BY <1>4, <2>1, AppendProperties, LenProperties
<1>10. storedBytes' \in 0 .. RING_SIZE /\ storedBytes' = storedBytes - L /\ storedBytes' <= storedBytes
  <2>1. storedBytes \in Nat /\ storedBytes <= RING_SIZE /\ RING_SIZE \in Nat
    BY <1>1, Ranges, SizesMakeSense
  <2>2. storedBytes' = storedBytes - L
    BY <1>4
  <2>3. QED
    BY <1>3, <2>1, <2>2
<1>11. writePos' = Plus(readPos', storedBytes')
  <2>1. Plus(readPos', storedBytes') = Wrap(readPos' + storedBytes')
    BY <1>6, <1>10, PlusWraps
  <2>2. writePos = Wrap(readPos + storedBytes)
    BY <1>1, Ranges, PlusWraps DEF TypeInv, TypeOK
  <2>3. Wrap(readPos' + storedBytes') = Wrap(readPos + storedBytes)
    <3>1. /\ readPos \in Nat /\ readPos < RING_SIZE /\ RING_SIZE \in Nat
          /\ storedBytes \in Nat /\ storedBytes <= RING_SIZE
      BY <1>1, Ranges, SizesMakeSense
    <3>2. storedBytes' = storedBytes - L /\ L \in Nat /\ L <= storedBytes
      BY <1>3, <1>10
    <3> HIDE DEF L
    <3>3. CASE readPos + L < RING_SIZE
      <4>1. readPos' = readPos + L
        BY <1>6, <3>3 DEF Wrap
      <4>2. readPos' + storedBytes' = readPos + storedBytes
        BY <3>1, <3>2, <4>1
      <4>3. QED
        BY <4>2
    <3>4. CASE ~(readPos + L < RING_SIZE)
      <4>1. readPos' = readPos + L - RING_SIZE
        BY <1>6, <3>1, <3>2, <3>4 DEF Wrap
      <4>2. /\ readPos' + storedBytes' = readPos + storedBytes - RING_SIZE
            /\ readPos + storedBytes - RING_SIZE < RING_SIZE
            /\ ~(readPos + storedBytes < RING_SIZE)
        BY <3>1, <3>2, <3>4, <4>1
      <4>3. QED
        BY <3>1, <4>2 DEF Wrap
    <3>5. QED
      BY <3>3, <3>4
  <2>4. QED
    BY <1>4, <2>1, <2>2, <2>3
<1>12. TypeInv'
  BY <1>1, <1>4, <1>6, <1>9, <1>10, <1>11 DEF TypeInv, TypeOK
<1>13. StreamLen' = StreamLen - L
  <2>1. storedBytes \in Nat /\ Len(wire) \in Nat /\ L \in Nat /\ wire' = wire
    BY <1>1, <1>3, <1>4, Ranges
  <2>2. QED
    BY <1>10, <2>1 DEF StreamLen
<1>14. ASSUME NEW m \in 1 .. StreamLen - L
       PROVE  Stream'[m] = Stream[m + L]
  <2>1. /\ m \in 1 .. StreamLen' /\ m + L \in 1 .. StreamLen /\ m \in Nat /\ storedBytes \in Nat
        /\ storedBytes' \in Nat /\ wire' = wire /\ buffer' = buffer
    <3>1. StreamLen \in Nat /\ L \in Nat
      BY <1>1, <1>3, Ranges
    <3>2. m \in 1 .. StreamLen' /\ m + L \in 1 .. StreamLen /\ m \in Nat
      BY <1>13, <3>1
    <3>3. storedBytes \in Nat /\ storedBytes' \in Nat
      BY <1>1, <1>10, Ranges
    <3>4. QED
      BY <1>4, <3>2, <3>3
  <2>2. CASE m <= storedBytes'
    <3>1. m + L \in 1 .. storedBytes
      BY <1>3, <1>10, <2>1, <2>2
    <3>2. Stream[m + L] = buffer[Wrap(readPos + (m + L - 1))]
      <4>1. \A x \in 1 .. storedBytes : Stream[x] = buffer[Wrap(readPos + (x - 1))]
        BY <1>1, StreamPlaces
      <4>2. QED
        BY <1>3, <2>1, <3>1, <4>1
    <3>3. Stream'[m] = buffer[Plus(readPos', m - 1)]
      BY <2>1, <2>2 DEF Stream, StreamAt
    <3>4. Plus(readPos', m - 1) = Wrap(readPos' + (m - 1))
      <4>1. m - 1 \in 0 .. RING_SIZE
        BY <1>10, <2>1, <2>2, SizesMakeSense
      <4>2. QED
        BY <1>6, <4>1, PlusWraps
    <3>5. Wrap(readPos' + (m - 1)) = Wrap(readPos + (m + L - 1))
      <4>1. /\ L \in 0 .. RING_SIZE /\ m - 1 \in 0 .. RING_SIZE - 1 /\ L + (m - 1) < RING_SIZE
            /\ L + (m - 1) = m + L - 1
        BY <1>1, <1>3, <1>10, <2>1, <2>2, Ranges, SizesMakeSense
      <4>2. QED
        BY <1>1, <1>6, <4>1, Ranges, PlacesApart
    <3>6. QED
      BY <3>2, <3>3, <3>4, <3>5
  <2>3. CASE m > storedBytes'
    <3>1. m + L > storedBytes /\ m + L - storedBytes = m - storedBytes' /\ ~(m <= storedBytes')
      BY <1>3, <1>10, <2>1, <2>3
    <3>2. Stream[m + L] = wire[m + L - storedBytes]
      <4>1. \A x \in 1 .. StreamLen : x > storedBytes => Stream[x] = wire[x - storedBytes]
        BY <1>1, StreamPlaces
      <4>2. QED
        BY <1>3, <2>1, <3>1, <4>1
    <3>3. Stream'[m] = wire[m - storedBytes']
      BY <2>1, <3>1 DEF Stream, StreamAt
    <3>4. QED
      BY <3>1, <3>2, <3>3
  <2>4. QED
    BY <2>1, <2>2, <2>3
<1>15. Framed(Stream', StreamLen', sizes', Len(parsed'))
  <2> DEFINE f == Stream
             g == Stream'
             n == StreamLen
             done == Len(parsed)
  <2>1. Framed(f, n, sizes, done) /\ n \in Nat /\ done \in Nat /\ sizes \in Seq(Nat) /\ n > 0
    BY <1>1, <1>3, Ranges DEF FInv, StreamLen
  <2>2. \A m \in 1 .. n - L : g[m] = f[m + L]
    BY <1>14
  <2>3. L = LengthOf(sizes[done + 1])
    BY <1>2
  <2>4. i = done + 1
    OBVIOUS
  <2> HIDE DEF f, g, n, done, i
  <2>5. Framed(g, n - L, sizes, done + 1)
    BY <2>1, <2>2, <2>3, PacketTaken
  <2>6. QED
    BY <1>4, <1>9, <1>13, <2>4, <2>5 DEF g, n
<1>16. PacketsIntact'
  <2> SUFFICES ASSUME NEW j \in 1 .. i
               PROVE  j \in DOMAIN sizes /\ parsed'[j] = PacketBytes(j, sizes[j])
    BY <1>4, <1>9 DEF PacketsIntact, SentPackets
  <2>1. CASE j = i
    BY <1>2, <1>8, <1>9, <2>1
  <2>2. CASE j # i
    <3>1. j \in DOMAIN parsed
      BY <1>1, <2>2, Ranges
    <3>2. QED
      BY <1>9, <3>1 DEF FInv, PacketsIntact, SentPackets
  <2>3. QED
    BY <2>1, <2>2
<1>17. RoomWhenWaiting' /\ ClosedForCause'
  BY <1>4 DEF FInv, RoomWhenWaiting, ClosedForCause, ParsePacket
<1>18. Stream = packet \o Stream'
  <2> DEFINE s == Stream
             v == Stream'
  <2>1. /\ s \in Seq(Bytes) /\ Len(s) = StreamLen
        /\ v \in Seq(Bytes) /\ Len(v) = StreamLen - L
    BY <1>1, <1>12, <1>13, StreamIsStored, StreamIsStoredNext
  <2>2. StreamLen \in Nat /\ L \in Nat
    BY <1>1, <1>3, Ranges
  <2>3. \A j \in 1 .. Len(packet) : s[j] = packet[j]
    BY <1>7
  <2>4. ASSUME NEW m \in 1 .. Len(v)
        PROVE  s[Len(packet) + m] = v[m]
    <3>1. m \in 1 .. StreamLen - L /\ m + L = Len(packet) + m
      BY <1>7, <2>1, <2>2
    <3>2. v[m] = s[m + L]
      BY <1>14, <3>1
    <3>3. QED
      BY <3>1, <3>2
  <2>5. Len(s) = Len(packet) + Len(v)
    BY <1>7, <2>1, <2>2
  <2> HIDE DEF s, v
  <2>6. s = packet \o v
    BY <1>7, <2>1, <2>3, <2>4, <2>5, Behind
  <2>7. QED
    BY <2>6 DEF s, v
<1>19. QED
  BY <1>4, <1>7, <1>12, <1>15, <1>16, <1>17, <1>18 DEF FInv

\* The loop ends with a size that is out of bounds, or with less than a
\* packet stored.
LEMMA LoopEndFramed ==
  ASSUME FInv, ParseFail \/ ParseDone
  PROVE  FInv' /\ Stream' = Stream
<1>1. UNCHANGED <<sizes, wire, buffer, readPos, writePos, storedBytes, parsed>>
  BY DEF ParseFail, ParseDone, ringVars
<1>2. phase' \in {"waiting", "closed"}
  BY DEF ParseFail, ParseDone
<1>3. TypeInv' /\ StreamLen' = StreamLen /\ Stream' = Stream
  BY <1>1, <1>2 DEF FInv, TypeInv, TypeOK, StreamLen, Stream, StreamAt, Plus
<1>4. Framed(Stream, StreamLen, sizes, Len(parsed))' /\ PacketsIntact'
  BY <1>1, <1>3 DEF FInv, Framed, Genuine, Whole, InTurn, Starts, PacketsIntact, SentPackets
<1>5. TypeInv
  BY DEF FInv
<1>6. CASE ParseFail
  <2>1. Len(parsed) + 1 \in DOMAIN sizes /\ ~ValidSize(sizes[Len(parsed) + 1])
    BY <1>6, HeaderRead DEF ParseFail
  <2>2. QED
    BY <1>1, <1>3, <1>4, <1>6, <2>1 DEF FInv, RoomWhenWaiting, ClosedForCause, ParseFail
<1>7. CASE ParseDone
  <2>1. storedBytes < MAX_PACKET_SIZE
    <3>1. CASE ~Has(HeaderSize)
      BY <1>5, <3>1, Ranges, SizesMakeSense DEF Has
    <3>2. CASE Has(HeaderSize)
      <4>1. ~Has(StatedSize) /\ ValidSize(StatedSize) /\ StatedSize \in Nat
        BY <1>5, <1>7, <3>2, HeaderRead, Ranges DEF ParseDone, PacketComplete
      <4>2. QED
        BY <1>5, <4>1, Ranges, SizesMakeSense DEF Has, ValidSize
    <3>3. QED
      BY <3>1, <3>2
  <2>2. QED
    BY <1>1, <1>3, <1>4, <1>7, <2>1 DEF FInv, RoomWhenWaiting, ClosedForCause, ParseDone
<1>8. QED
  BY <1>3, <1>6, <1>7

\* FInv is an inductive invariant.
THEOREM FInvInvariant == Spec => []FInv
<1>1. FInv /\ [Next]_vars => FInv'
  <2> SUFFICES ASSUME FInv, [Next]_vars
               PROVE  FInv'
    OBVIOUS
  <2>1. CASE \E z \in Sizes : Send(z)
    BY <2>1, SendFramed
  <2>2. CASE \E n \in 1 .. BUFFER_SIZE : Receive(n)
    BY <2>2, ReceiveFramed
  <2>3. CASE ParsePacket
    BY <2>3, ParsePacketFramed
  <2>4. CASE ParseFail \/ ParseDone
    BY <2>4, LoopEndFramed
  <2>5. CASE UNCHANGED vars
    <3>1. UNCHANGED <<sizes, wire, buffer, readPos, writePos, storedBytes, parsed, phase>>
      BY <2>5 DEF vars, ringVars
    <3>2. TypeInv' /\ StreamLen' = StreamLen /\ Stream' = Stream
      BY <3>1 DEF FInv, TypeInv, TypeOK, StreamLen, Stream, StreamAt, Plus
    <3>3. QED
      BY <3>1, <3>2 DEF FInv, Framed, Genuine, Whole, InTurn, Starts, PacketsIntact, SentPackets,
                        RoomWhenWaiting, ClosedForCause
  <2>6. QED
    BY <2>1, <2>2, <2>3, <2>4, <2>5 DEF Next
<1>2. QED
  BY <1>1, InitFramed, PTL DEF Spec

-----------------------------------------------------------------------------
(* What follows.                                                           *)

\* The ring's positions and its count of stored bytes always fit each other.
THEOREM FramingTypeCorrect == Spec => []TypeOK
<1>1. FInv => TypeOK
  BY DEF FInv, TypeInv
<1>2. QED
  BY <1>1, FInvInvariant, PTL

\* ProcessPacket is given the client's packets, whole, each once and in order,
\* however the stream is cut into receives and wherever the ring wraps.
THEOREM OnlyWholePackets == Spec => []PacketsIntact
<1>1. FInv => PacketsIntact
  BY DEF FInv
<1>2. QED
  BY <1>1, FInvInvariant, PTL

\* The receive ring never overflows: OnRecvComplete closes a connection only
\* for a size field that is out of bounds.
THEOREM RingNeverOverflows == Spec => []ClosedForCause
<1>1. FInv => ClosedForCause
  BY DEF FInv
<1>2. QED
  BY <1>1, FInvInvariant, PTL

-----------------------------------------------------------------------------
(* The bytes of the connection.                                            *)

\* The packets sent are sequences of bytes.
LEMMA PacketsSent ==
  ASSUME TypeInv
  PROVE  SentPackets \in Seq(Seq(Bytes)) /\ Len(SentPackets) = Len(sizes)
<1>1. ASSUME NEW i \in 1 .. Len(sizes)
      PROVE  PacketBytes(i, sizes[i]) \in Seq(Bytes)
  <2>1. i \in Nat /\ sizes[i] \in Nat
    BY Ranges
  <2>2. QED
    BY <2>1, PacketIsBytes
<1>2. SentPackets = [i \in 1 .. Len(sizes) |-> PacketBytes(i, sizes[i])] /\ Len(sizes) \in Nat
  BY Ranges DEF SentPackets
<1>3. SentPackets \in Seq(Seq(Bytes))
  BY <1>1, <1>2, IsASeq
<1>4. QED
  BY <1>2, <1>3, LenProperties

\* So they are after a step.
LEMMA PacketsSentNext ==
  TypeInv' => (SentPackets \in Seq(Seq(Bytes)) /\ Len(SentPackets) = Len(sizes))'
<1>1. TypeInv => SentPackets \in Seq(Seq(Bytes)) /\ Len(SentPackets) = Len(sizes)
  BY PacketsSent
<1>2. QED
  BY <1>1, PTL

\* Parsed bytes and the stream are the bytes sent.
Accounted == FlattenSeq(parsed) \o Stream = FlattenSeq(SentPackets)

\* A packet that is sent is one more of the packets, and at the stream's end.
LEMMA SendAccounted ==
  ASSUME FInv, Accounted, NEW z \in Sizes, Send(z)
  PROVE  Accounted'
<1> DEFINE k == Len(sizes) + 1
           bytes == PacketBytes(k, z)
<1>1. TypeInv /\ TypeInv' /\ Stream' = Stream \o bytes /\ parsed' = parsed
  BY SendFramed DEF FInv, Send
<1>2. z \in Nat /\ k \in Nat
  BY <1>1, Ranges, FramingAssumption
<1>3. /\ bytes \in Seq(Bytes)
      /\ SentPackets \in Seq(Seq(Bytes)) /\ Len(SentPackets) = Len(sizes)
      /\ SentPackets' \in Seq(Seq(Bytes)) /\ Len(SentPackets') = Len(sizes')
  <2> HIDE DEF k
  <2>1. bytes \in Seq(Bytes)
    BY <1>2, PacketIsBytes
  <2>2. QED
    BY <1>1, <2>1, PacketsSent, PacketsSentNext
<1>4. /\ sizes' = Append(sizes, z) /\ Len(sizes') = k /\ Len(sizes) \in Nat
      /\ sizes'[k] = z /\ \A i \in 1 .. Len(sizes) : sizes'[i] = sizes[i]
  BY <1>1, <1>2, Ranges, AppendProperties DEF Send
<1>5. /\ \A i \in 1 .. Len(sizes) : SentPackets'[i] = SentPackets[i]
      /\ SentPackets'[k] = bytes
  <2>1. /\ DOMAIN sizes = 1 .. Len(sizes) /\ DOMAIN sizes' = 1 .. k
        /\ k \in 1 .. k /\ \A i \in 1 .. Len(sizes) : i \in 1 .. k
    BY <1>1, <1>4, Ranges
  <2> HIDE DEF k
  <2>2. QED
    BY <1>4, <2>1 DEF SentPackets, bytes
<1> HIDE DEF bytes
<1>6. SentPackets' = Append(SentPackets, bytes)
  <2> DEFINE a == Append(SentPackets, bytes)
  <2>1. /\ a \in Seq(Seq(Bytes)) /\ Len(a) = Len(sizes) + 1 /\ a[Len(sizes) + 1] = bytes
        /\ \A i \in 1 .. Len(sizes) : a[i] = SentPackets[i]
    BY <1>3, AppendProperties
  <2> HIDE DEF a
  <2>2. ASSUME NEW i \in 1 .. Len(sizes) + 1
        PROVE  a[i] = SentPackets'[i]
    <3>1. CASE i = Len(sizes) + 1
      BY <1>5, <2>1, <3>1
    <3>2. CASE i # Len(sizes) + 1
      <4>1. i \in 1 .. Len(sizes)
        BY <1>4, <3>2
      <4>2. QED
        BY <1>5, <2>1, <4>1
    <3>3. QED
      BY <3>1, <3>2
  <2>3. a = SentPackets'
    BY <1>3, <1>4, <2>1, <2>2, SeqEqual
  <2>4. QED
    BY <2>3 DEF a
<1>7. FlattenSeq(SentPackets') = FlattenSeq(SentPackets) \o bytes
  BY <1>3, <1>6, FlattenAppend
<1>8. FlattenSeq(parsed) \in Seq(Bytes) /\ Stream \in Seq(Bytes)
  BY <1>1, Ranges, FlattenType, StreamIsStored
<1>9. FlattenSeq(parsed) \o (Stream \o bytes) = (FlattenSeq(parsed) \o Stream) \o bytes
  <2>1. bytes \in Seq(Bytes) /\ FlattenSeq(parsed) \in Seq(Bytes) /\ Stream \in Seq(Bytes)
    BY <1>3, <1>8
  <2>2. QED
    BY <2>1, ConcatAssociative
<1>10. QED
  BY <1>1, <1>7, <1>9 DEF Accounted

\* A packet that is parsed is the head of the stream.
LEMMA ParsePacketAccounted ==
  ASSUME FInv, Accounted, ParsePacket
  PROVE  Accounted'
<1>1. TypeInv /\ TypeInv' /\ sizes' = sizes
  BY ParsePacketFramed DEF FInv, ParsePacket
<1>2. PICK packet \in Seq(Bytes) : parsed' = Append(parsed, packet) /\ Stream = packet \o Stream'
  BY ParsePacketFramed
<1>3. FlattenSeq(parsed) \in Seq(Bytes) /\ Stream' \in Seq(Bytes) /\ parsed \in Seq(Seq(Bytes))
  <2>1. Stream' \in Seq(Bytes)
    BY <1>1, StreamIsStoredNext
  <2>2. QED
    BY <1>1, <2>1, Ranges, FlattenType
<1>4. FlattenSeq(parsed') = FlattenSeq(parsed) \o packet
  BY <1>2, <1>3, FlattenAppend
<1>5. (FlattenSeq(parsed) \o packet) \o Stream' = FlattenSeq(parsed) \o (packet \o Stream')
  BY <1>3, ConcatAssociative
<1>6. SentPackets' = SentPackets
  BY <1>1 DEF SentPackets
<1>7. QED
  BY <1>2, <1>4, <1>5, <1>6 DEF Accounted

\* Nothing else changes what is parsed or sent, or the stream.
LEMMA NextAccounted == FInv /\ Accounted /\ [Next]_vars => Accounted'
<1> SUFFICES ASSUME FInv, Accounted, [Next]_vars
             PROVE  Accounted'
  OBVIOUS
<1>1. CASE \E z \in Sizes : Send(z)
  BY <1>1, SendAccounted
<1>2. CASE ParsePacket
  BY <1>2, ParsePacketAccounted
<1>3. CASE (\E n \in 1 .. BUFFER_SIZE : Receive(n)) \/ ParseFail \/ ParseDone
  <2>1. Stream' = Stream
    BY <1>3, ReceiveFramed, LoopEndFramed
  <2>2. parsed' = parsed /\ sizes' = sizes
    BY <1>3 DEF Receive, ParseFail, ParseDone
  <2>3. QED
    BY <2>1, <2>2 DEF Accounted, SentPackets
<1>4. CASE UNCHANGED vars
  BY <1>4 DEF vars, ringVars, Accounted, SentPackets, Stream, StreamLen, StreamAt, Plus
<1>5. QED
  BY <1>1, <1>2, <1>3, <1>4 DEF Next

\* Before anything is sent there is nothing.
LEMMA InitAccounted == Init => Accounted
<1> SUFFICES ASSUME Init
             PROVE  Accounted
  OBVIOUS
<1>1. TypeInv
  BY InitFramed DEF FInv
<1>2. parsed = <<>> /\ SentPackets = <<>> /\ StreamLen = 0
  <2>1. SentPackets \in Seq(Seq(Bytes)) /\ Len(SentPackets) = 0
    BY <1>1, PacketsSent DEF Init
  <2>2. QED
    BY <2>1, EmptySeq DEF Init, StreamLen
<1>3. Stream = <<>>
  BY <1>1, <1>2, StreamIsStored, EmptySeq
<1>4. FlattenSeq(<<>>) = <<>>
  BY DEF FlattenSeq
<1>5. QED
  BY <1>2, <1>3, <1>4 DEF Accounted

\* No byte is lost, repeated or reordered on its way through the ring, for streams
\* of any length cut into receives anyhow: what ProcessPacket was given, what is
\* stored and what is on the wire are together the bytes the client sent.
THEOREM NoByteIsLost == Spec => []StreamIntact
<1>1. FInv /\ Accounted => StreamIntact
  <2> SUFFICES ASSUME FInv, Accounted
               PROVE  StreamIntact
    OBVIOUS
  <2> DEFINE s == Peek(readPos, storedBytes)
  <2>1. TypeInv
    BY DEF FInv
  <2>2. /\ FlattenSeq(parsed) \in Seq(Bytes) /\ s \in Seq(Bytes) /\ wire \in Seq(Bytes)
        /\ Stream = s \o wire
    BY <2>1, Ranges, PeekReads, FlattenType, StreamIsStored
  <2> HIDE DEF s
  <2>3. (FlattenSeq(parsed) \o s) \o wire = FlattenSeq(parsed) \o (s \o wire)
    BY <2>2, ConcatAssociative
  <2>4. QED
    BY <2>2, <2>3 DEF Accounted, StreamIntact, s
<1>2. QED
  BY <1>1, InitAccounted, NextAccounted, FInvInvariant, PTL DEF Spec

=============================================================================
