-------------------------- MODULE AudioPath_proofs --------------------------
(***************************************************************************)
(* The audio path keeps the order of a speaker's samples and accounts for  *)
(* every one of them, cuts whole chunks, and gives the STT service an      *)
(* AudioStream: for all frame lengths, chunk sizes and queue capacities.   *)
(***************************************************************************)
EXTENDS AudioPath, SequenceTheorems, TLAPS

Block == Seq(Nat)

-----------------------------------------------------------------------------
(* The invariant.                                                           *)

\* Every frame is even, so the next one starts at a sample the resampler keeps.
EvenDecoded == decoded \in {2 * m : m \in Nat}

\* All but the last of the chunks in q are whole.
WholeButLast(q) == \A i \in 1 .. Len(q) - 1 : Len(q[i]) = ChunkSize

Whole(q) == \A i \in DOMAIN q : Len(q[i]) = ChunkSize

\* Only the tail is short; it is cut when the input is drained, and nothing is cut
\* behind it. Why OnlyLastChunkShort holds.
TailIsLast ==
  /\ Whole(pending) /\ WholeButLast(sent \o outputCh)
  /\ loop # "done" => Whole(sent) /\ Whole(outputCh)
  /\ loop = "done" => pending = <<>> /\ cache = <<>>

\* The five places of the line, and what is in them.
Waits == Resampled(inputCh)

Apart(A, B, C, D, E) ==
  /\ Before(A, B) /\ Before(A, C) /\ Before(A, D) /\ Before(A, E)
  /\ Before(B, C) /\ Before(B, D) /\ Before(B, E)
  /\ Before(C, D) /\ Before(C, E) /\ Before(D, E)

PlacesInOrder ==
  /\ Ordered(sent) /\ Ordered(outputCh) /\ Ordered(pending) /\ Increasing(cache)
  /\ Ordered(Waits)
  /\ Apart(Samples(sent), Samples(outputCh), Samples(pending), Range(cache), Samples(Waits))

Held == Samples(outputCh) \cup Samples(pending) \cup Range(cache) \cup Samples(Waits)

AllAccounted ==
  /\ Samples(sent) \cup Held \cup Lost = Spoken
  /\ (Samples(sent) \cup Held) \cap Lost = {}

IInv == TypeOK /\ EvenDecoded /\ PlacesInOrder /\ AllAccounted /\ TailIsLast

-----------------------------------------------------------------------------
(* Sequences of chunks: what they hold, and that they are in order.         *)

LEMMA InSamples ==
  ASSUME NEW q, NEW x
  PROVE  x \in Samples(q) <=> \E i \in DOMAIN q : x \in Range(q[i])
BY DEF Samples

LEMMA SamplesAreNat ==
  ASSUME NEW q \in Seq(Block)
  PROVE  Samples(q) \subseteq Nat
<1> SUFFICES ASSUME NEW i \in DOMAIN q
             PROVE  Range(q[i]) \subseteq Nat
  BY InSamples
<1>1. q[i] \in Seq(Nat)
  BY LenProperties, ElementOfSeq DEF Block
<1> QED BY <1>1, RangeOfSeq

LEMMA NoChunks == Samples(<<>>) = {} /\ Ordered(<<>>)
BY DEF Samples, Ordered

LEMMA OneChunk ==
  ASSUME NEW s
  PROVE  /\ Samples(<<s>>) = Range(s)
         /\ Ordered(<<s>>) <=> Increasing(s)
<1>1. DOMAIN <<s>> = {1} /\ <<s>>[1] = s
  OBVIOUS
<1>2. Samples(<<s>>) = Range(s)
  BY <1>1, Zenon DEF Samples
<1>3. Ordered(<<s>>) <=> Increasing(s)
  BY <1>1 DEF Ordered
<1> QED BY <1>2, <1>3

\* Two lines of chunks, one after the other.
LEMMA ConcatChunks ==
  ASSUME NEW p \in Seq(Block), NEW q \in Seq(Block)
  PROVE  /\ p \o q \in Seq(Block)
         /\ Samples(p \o q) = Samples(p) \cup Samples(q)
         /\ Ordered(p \o q) <=>
              Ordered(p) /\ Ordered(q) /\ Before(Samples(p), Samples(q))
<1> DEFINE m == Len(p)  n == Len(q)
<1>1. p \o q \in Seq(Block) /\ Len(p \o q) = m + n /\ m \in Nat /\ n \in Nat
  BY ConcatProperties, LenProperties
<1>2. DOMAIN (p \o q) = 1 .. m + n /\ DOMAIN p = 1 .. m /\ DOMAIN q = 1 .. n
  BY <1>1, LenProperties
<1>3. \A i \in 1 .. m : i \in 1 .. m + n /\ (p \o q)[i] = p[i]
  BY <1>1, ConcatProperties
<1>4. \A i \in 1 .. n : m + i \in 1 .. m + n /\ (p \o q)[m + i] = q[i]
  <2> TAKE i \in 1 .. n
  <2>1. m + i \in 1 .. m + n /\ ~(m + i <= m) /\ (m + i) - m = i
    BY <1>1
  <2> HIDE DEF m, n
  <2>2. (p \o q)[m + i] = IF m + i <= m THEN p[m + i] ELSE q[(m + i) - m]
    BY <2>1, ConcatProperties DEF m, n
  <2> QED BY <2>1, <2>2
<1>5. \A i \in 1 .. m + n : i \in 1 .. m \/ \E k \in 1 .. n : i = m + k
  <2> TAKE i \in 1 .. m + n
  <2>1. CASE i <= m
    BY <1>1, <2>1
  <2>2. CASE i > m
    <3>1. i - m \in 1 .. n /\ i = m + (i - m)
      BY <1>1, <2>2
    <3> QED BY <3>1
  <2> QED BY <1>1, <2>1, <2>2
<1> DEFINE r == p \o q
<1>a. /\ DOMAIN r = 1 .. m + n
      /\ \A i \in 1 .. m : i \in 1 .. m + n /\ r[i] = p[i]
      /\ \A i \in 1 .. n : m + i \in 1 .. m + n /\ r[m + i] = q[i]
  BY <1>2, <1>3, <1>4
<1> HIDE DEF m, n, r
<1>6. Samples(r) = Samples(p) \cup Samples(q)
  <2>1. ASSUME NEW x \in Samples(r) PROVE x \in Samples(p) \cup Samples(q)
    <3>1. PICK i \in 1 .. m + n : x \in Range(r[i])
      BY <1>a, InSamples
    <3>2. CASE i \in 1 .. m
      BY <1>2, <1>a, <3>1, <3>2, InSamples
    <3>3. ASSUME NEW k \in 1 .. n, i = m + k PROVE x \in Samples(q)
      <4>1. x \in Range(q[k])
        BY <1>a, <3>1, <3>3, Zenon
      <4> QED BY <1>2, <4>1, InSamples
    <3> QED BY <1>5, <3>2, <3>3
  <2>2. ASSUME NEW x \in Samples(p) PROVE x \in Samples(r)
    BY <1>2, <1>a, InSamples
  <2>3. ASSUME NEW x \in Samples(q) PROVE x \in Samples(r)
    <3>1. PICK k \in 1 .. n : x \in Range(q[k])
      BY <1>2, InSamples
    <3> QED BY <1>a, <3>1, InSamples
  <2> QED BY <2>1, <2>2, <2>3
<1>7. ASSUME Ordered(r)
      PROVE  Ordered(p) /\ Ordered(q) /\ Before(Samples(p), Samples(q))
  <2>1. Ordered(p)
    BY <1>2, <1>a, <1>7 DEF Ordered
  <2>2. Ordered(q)
    <3>1. \A i \in 1 .. n : Increasing(q[i])
      BY <1>a, <1>7, Zenon DEF Ordered
    <3>2. ASSUME NEW i \in 1 .. n, NEW j \in 1 .. n, i < j
          PROVE  Before(Range(q[i]), Range(q[j]))
      <4>1. m + i < m + j
        BY <1>1, <3>2 DEF m
      <4>2. Before(Range(r[m + i]), Range(r[m + j]))
        BY <1>a, <1>7, <4>1 DEF Ordered
      <4> QED BY <1>a, <4>2, Zenon
    <3> QED BY <1>2, <3>1, <3>2 DEF Ordered
  <2>3. ASSUME NEW a \in Samples(p), NEW b \in Samples(q) PROVE a < b
    <3>1. PICK i \in 1 .. m : a \in Range(p[i])
      BY <1>2, InSamples
    <3>2. PICK j \in 1 .. n : b \in Range(q[j])
      BY <1>2, InSamples
    <3>3. i < m + j
      BY <1>1 DEF m, n
    <3>4. Before(Range(r[i]), Range(r[m + j]))
      BY <1>a, <1>7, <3>3 DEF Ordered
    <3>5. Before(Range(p[i]), Range(q[j]))
      BY <1>a, <3>4, Zenon
    <3> QED BY <3>1, <3>2, <3>5 DEF Before
  <2> QED BY <2>1, <2>2, <2>3 DEF Before
<1>8. ASSUME Ordered(p), Ordered(q), Before(Samples(p), Samples(q))
      PROVE  Ordered(r)
  <2>1. ASSUME NEW i \in 1 .. m + n PROVE Increasing(r[i])
    <3>1. CASE i \in 1 .. m
      BY <1>2, <1>a, <1>8, <3>1, Zenon DEF Ordered
    <3>2. ASSUME NEW k \in 1 .. n, i = m + k PROVE Increasing(r[i])
      BY <1>2, <1>a, <1>8, <3>2, Zenon DEF Ordered
    <3> QED BY <1>5, <3>1, <3>2
  <2>2. ASSUME NEW i \in 1 .. m + n, NEW j \in 1 .. m + n, i < j
        PROVE  Before(Range(r[i]), Range(r[j]))
    <3>1. CASE j \in 1 .. m
      <4>1. i \in 1 .. m
        BY <1>1, <2>2, <3>1 DEF m, n
      <4> QED BY <1>2, <1>a, <1>8, <2>2, <3>1, <4>1, Zenon DEF Ordered
    <3>2. ASSUME NEW k \in 1 .. n, j = m + k, i \in 1 .. m
          PROVE  Before(Range(r[i]), Range(r[j]))
      <4>1. Range(p[i]) \subseteq Samples(p) /\ Range(q[k]) \subseteq Samples(q)
        BY <1>2, <3>2, InSamples
      <4>2. r[i] = p[i] /\ r[j] = q[k]
        BY <1>a, <3>2, Zenon
      <4> QED BY <1>8, <4>1, <4>2 DEF Before
    <3>3. ASSUME NEW k \in 1 .. n, j = m + k, NEW h \in 1 .. n, i = m + h
          PROVE  Before(Range(r[i]), Range(r[j]))
      <4>1. h < k
        BY <1>1, <2>2, <3>3 DEF m, n
      <4>2. Before(Range(q[h]), Range(q[k]))
        BY <1>2, <1>8, <4>1, Zenon DEF Ordered
      <4> QED BY <1>a, <3>3, <4>2, Zenon
    <3> QED BY <1>5, <3>1, <3>2, <3>3, Zenon
  <2> QED BY <1>a, <2>1, <2>2, Zenon DEF Ordered
<1> QED BY <1>1, <1>6, <1>7, <1>8 DEF r

\* A chunk joins the end of a line.
LEMMA AppendChunk ==
  ASSUME NEW q \in Seq(Block), NEW s \in Block
  PROVE  /\ Append(q, s) \in Seq(Block)
         /\ Samples(Append(q, s)) = Samples(q) \cup Range(s)
         /\ Ordered(Append(q, s)) <=>
              Ordered(q) /\ Increasing(s) /\ Before(Samples(q), Range(s))
<1>1. <<s>> \in Seq(Block) /\ Append(q, s) = q \o <<s>>
  BY AppendIsConcat
<1>2. /\ q \o <<s>> \in Seq(Block)
      /\ Samples(q \o <<s>>) = Samples(q) \cup Samples(<<s>>)
      /\ Ordered(q \o <<s>>) <=>
           Ordered(q) /\ Ordered(<<s>>) /\ Before(Samples(q), Samples(<<s>>))
  BY <1>1, ConcatChunks
<1> QED BY <1>1, <1>2, OneChunk, Zenon

\* The first chunk leaves a line.
LEMMA TakeChunk ==
  ASSUME NEW q \in Seq(Block), q # <<>>
  PROVE  /\ Head(q) \in Block /\ Tail(q) \in Seq(Block)
         /\ Samples(q) = Range(Head(q)) \cup Samples(Tail(q))
         /\ Ordered(q) <=>
              /\ Increasing(Head(q)) /\ Ordered(Tail(q))
              /\ Before(Range(Head(q)), Samples(Tail(q)))
<1>1. Head(q) \in Block /\ Tail(q) \in Seq(Block) /\ <<Head(q)>> \in Seq(Block)
  BY HeadTailProperties
<1>2. q = <<Head(q)>> \o Tail(q)
  OBVIOUS
<1>3. /\ Samples(<<Head(q)>> \o Tail(q)) = Samples(<<Head(q)>>) \cup Samples(Tail(q))
      /\ Ordered(<<Head(q)>> \o Tail(q)) <=>
           /\ Ordered(<<Head(q)>>) /\ Ordered(Tail(q))
           /\ Before(Samples(<<Head(q)>>), Samples(Tail(q)))
  BY <1>1, ConcatChunks
<1> QED BY <1>1, <1>2, <1>3, OneChunk, Zenon

-----------------------------------------------------------------------------
(* The resampler and the chunk buffer.                                      *)

\* Arithmetic of whole chunks: what \div leaves, and where the k-th chunk lies.
LEMMA Division ==
  ASSUME NEW n \in Nat, NEW c \in Nat \ {0}
  PROVE  n \div c \in Nat /\ (n \div c) * c \in Nat /\ (n \div c) * c <= n
         /\ n < (n \div c) * c + c
BY SMT

LEMMA Multiples ==
  ASSUME NEW c \in Nat, NEW j \in Nat, NEW k \in Nat, j < k
  PROVE  j * c + c <= k * c /\ j * c \in Nat /\ k * c \in Nat
BY SMT

LEMMA Halves ==
  ASSUME NEW n \in Nat
  PROVE  (2 * n) \div 2 = n /\ (2 * n) % 2 = 0 /\ (2 * n + 1) % 2 = 1
BY SMT

\* The k-th chunk is the stretch from (k - 1) * ChunkSize + 1 to k * ChunkSize.
LEMMA Chunk ==
  ASSUME NEW b \in Block, NEW k \in 1 .. Len(b) \div ChunkSize
  PROVE  /\ (k - 1) * ChunkSize \in Nat
         /\ k * ChunkSize = (k - 1) * ChunkSize + ChunkSize
         /\ k * ChunkSize <= (Len(b) \div ChunkSize) * ChunkSize
         /\ k * ChunkSize <= Len(b)
         /\ Chunks(b)[k] \in Block /\ Len(Chunks(b)[k]) = ChunkSize
         /\ \A i \in 1 .. ChunkSize : Chunks(b)[k][i] = b[(k - 1) * ChunkSize + i]
<1> DEFINE c == ChunkSize  w == Len(b) \div c
<1>1. c \in Nat \ {0} /\ Len(b) \in Nat
  BY AudioAssumption, LenProperties DEF AudioAssumption, Block
<1>2. w \in Nat /\ w * c \in Nat /\ w * c <= Len(b)
  BY <1>1, Division
<1>3. k \in Nat /\ k - 1 \in Nat /\ k <= w
  BY <1>2
<1> HIDE DEF c, w
<1>4. k * c = (k - 1) * c + c /\ (k - 1) * c \in Nat /\ k * c \in Nat
  BY <1>1, <1>3, SMT
<1>5. k * c <= w * c
  <2>1. CASE k < w
    <3>1. k * c + c <= w * c
      BY <1>1, <1>2, <1>3, <2>1, Multiples
    <3> QED BY <1>1, <1>2, <1>4, <3>1
  <2>2. CASE k = w
    BY <1>2, <2>2
  <2> QED BY <1>2, <1>3, <2>1, <2>2
<1>6. Chunks(b)[k] = SubSeq(b, (k - 1) * c + 1, k * c)
  BY DEF Chunks, c, w
<1> DEFINE lo == (k - 1) * c + 1  hi == k * c
<1>7. lo \in Int /\ hi \in Int /\ hi - lo + 1 = c /\ lo <= hi /\ 1 <= lo /\ hi <= Len(b)
  BY <1>1, <1>2, <1>4, <1>5
<1>8. \A i \in 1 .. c : lo + i - 1 = (k - 1) * c + i
  BY <1>1, <1>4
<1> HIDE DEF lo, hi
<1>9. \A i \in lo .. hi : b[i] \in Nat
  BY <1>7, ElementOfSeq DEF Block
<1>10. /\ SubSeq(b, lo, hi) \in Seq(Nat) /\ Len(SubSeq(b, lo, hi)) = c
       /\ \A i \in 1 .. c : SubSeq(b, lo, hi)[i] = b[lo + i - 1]
  BY <1>7, <1>9, SubSeqProperties
<1>11. Chunks(b)[k] = SubSeq(b, lo, hi)
  BY <1>6 DEF lo, hi
<1>12. \A i \in 1 .. c : Chunks(b)[k][i] = b[(k - 1) * c + i]
  BY <1>8, <1>10, <1>11
<1>13. k * c <= Len(b)
  BY <1>7 DEF hi
<1>14. Chunks(b)[k] \in Block /\ Len(Chunks(b)[k]) = c
  BY <1>10, <1>11 DEF Block
<1> QED BY <1>4, <1>5, <1>12, <1>13, <1>14 DEF c, w

\* The rest is what follows the last whole chunk, and is shorter than a chunk.
LEMMA RestOfBuffer ==
  ASSUME NEW b \in Block
  PROVE  LET n == (Len(b) \div ChunkSize) * ChunkSize
         IN  /\ n \in Nat /\ n <= Len(b)
             /\ Rest(b) \in Block /\ Len(Rest(b)) = Len(b) - n
             /\ Len(Rest(b)) < ChunkSize
             /\ \A i \in 1 .. Len(b) - n : Rest(b)[i] = b[n + i]
<1> DEFINE n == (Len(b) \div ChunkSize) * ChunkSize
<1>1. ChunkSize \in Nat \ {0} /\ Len(b) \in Nat
  BY AudioAssumption, LenProperties DEF AudioAssumption, Block
<1>2. n \in Nat /\ n <= Len(b) /\ Len(b) < n + ChunkSize
  BY <1>1, Division
<1>3. Rest(b) = SubSeq(b, n + 1, Len(b))
  BY DEF Rest
<1> HIDE DEF n
<1>4. \A i \in n + 1 .. Len(b) : b[i] \in Nat
  BY <1>1, <1>2, ElementOfSeq DEF Block
<1>5. /\ SubSeq(b, n + 1, Len(b)) \in Seq(Nat)
      /\ Len(SubSeq(b, n + 1, Len(b))) = IF n + 1 <= Len(b) THEN Len(b) - (n + 1) + 1 ELSE 0
      /\ \A i \in 1 .. Len(b) - (n + 1) + 1 :
           SubSeq(b, n + 1, Len(b))[i] = b[(n + 1) + i - 1]
  BY <1>1, <1>2, <1>4, SubSeqProperties
<1>6. Rest(b) \in Block /\ Len(Rest(b)) = Len(b) - n
  BY <1>1, <1>2, <1>3, <1>5 DEF Block
<1>7. \A i \in 1 .. Len(b) - n : Rest(b)[i] = b[n + i]
  <2> TAKE i \in 1 .. Len(b) - n
  <2>1. i \in 1 .. Len(b) - (n + 1) + 1 /\ (n + 1) + i - 1 = n + i
    BY <1>1, <1>2
  <2> QED BY <1>3, <1>5, <2>1
<1> QED BY <1>1, <1>2, <1>6, <1>7 DEF n

\* ChunkBuffer.Add cuts an increasing buffer into increasing whole chunks, one
\* after the other, keeps the rest, and loses nothing.
LEMMA CutBuffer ==
  ASSUME NEW b \in Block, Increasing(b)
  PROVE  /\ Chunks(b) \in Seq(Block) /\ Rest(b) \in Block
         /\ \A k \in DOMAIN Chunks(b) : Len(Chunks(b)[k]) = ChunkSize
         /\ Len(Rest(b)) < ChunkSize
         /\ Ordered(Chunks(b)) /\ Increasing(Rest(b))
         /\ Before(Samples(Chunks(b)), Range(Rest(b)))
         /\ Range(b) = Samples(Chunks(b)) \cup Range(Rest(b))
<1> DEFINE c == ChunkSize  w == Len(b) \div c  n == w * c  q == Chunks(b)  r == Rest(b)
<1>1. c \in Nat \ {0} /\ Len(b) \in Nat /\ DOMAIN b = 1 .. Len(b)
  BY AudioAssumption, LenProperties DEF AudioAssumption, Block
<1>2. w \in Nat /\ n \in Nat /\ n <= Len(b) /\ Len(b) < n + c
  BY <1>1, Division
<1>3. DOMAIN q = 1 .. w
  BY DEF Chunks
<1>4. \A k \in 1 .. w :
        /\ (k - 1) * c \in Nat /\ k * c = (k - 1) * c + c /\ k * c <= n
        /\ q[k] \in Block /\ Len(q[k]) = c /\ DOMAIN q[k] = 1 .. c
        /\ \A i \in 1 .. c : q[k][i] = b[(k - 1) * c + i]
  BY Chunk, LenProperties DEF Block
<1>5. /\ r \in Block /\ Len(r) = Len(b) - n /\ DOMAIN r = 1 .. Len(b) - n
      /\ Len(r) < c
      /\ \A i \in 1 .. Len(b) - n : r[i] = b[n + i]
  BY RestOfBuffer, LenProperties DEF Block
<1>6. q \in Seq(Block)
  <2>1. q \in [1 .. w -> Block]
    <3>1. q = [k \in 1 .. w |-> SubSeq(b, (k - 1) * c + 1, k * c)]
      BY DEF Chunks
    <3> HIDE DEF w, c, q
    <3>2. q = [k \in 1 .. w |-> q[k]]
      BY <3>1
    <3> QED BY <1>4, <3>2, Zenon
  <2> HIDE DEF w, c, q
  <2> QED BY <1>2, <2>1, SeqDef
<1>inc. \A i, j \in 1 .. Len(b) : i < j => b[i] < b[j]
  BY <1>1 DEF Increasing
<1> HIDE DEF c, w, n, q, r
<1>7. \A k \in 1 .. w : Increasing(q[k])
  <2> SUFFICES ASSUME NEW k \in 1 .. w, NEW i \in 1 .. c, NEW j \in 1 .. c, i < j
               PROVE  q[k][i] < q[k][j]
    BY <1>4 DEF Increasing
  <2> DEFINE z == (k - 1) * c
  <2>1. z \in Nat /\ z + c <= Len(b) /\ q[k][i] = b[z + i] /\ q[k][j] = b[z + j]
    <3>1. z \in Nat /\ k * c = z + c /\ k * c <= n
      BY <1>4
    <3> HIDE DEF z
    <3>2. z + c <= Len(b)
      BY <1>1, <1>2, <3>1
    <3> QED BY <1>4, <3>1, <3>2 DEF z
  <2> HIDE DEF z
  <2>2. z + i \in 1 .. Len(b) /\ z + j \in 1 .. Len(b) /\ z + i < z + j
    BY <1>1, <2>1
  <2> QED BY <1>inc, <2>1, <2>2
<1>8. ASSUME NEW k \in 1 .. w, NEW h \in 1 .. w, k < h
      PROVE  Before(Range(q[k]), Range(q[h]))
  <2> SUFFICES ASSUME NEW i \in 1 .. c, NEW j \in 1 .. c
               PROVE  q[k][i] < q[h][j]
    <3>1. ASSUME NEW x \in Range(q[k]), NEW u \in Range(q[h]) PROVE x < u
      <4>1. PICK i \in 1 .. c : x = q[k][i]
        BY <1>4, <3>1 DEF Range
      <4>2. PICK j \in 1 .. c : u = q[h][j]
        BY <1>4, <3>1 DEF Range
      <4> QED BY <4>1, <4>2
    <3> QED BY <3>1 DEF Before
  <2> DEFINE y == (k - 1) * c  z == (h - 1) * c
  <2>1. y \in Nat /\ k * c = y + c /\ z \in Nat /\ h * c = z + c /\ h * c <= n
    BY <1>4
  <2>2. y + c <= z
    <3>1. k - 1 \in Nat /\ h - 1 \in Nat /\ k - 1 < h - 1
      BY <1>2, <1>8
    <3> QED BY <1>1, <3>1, Multiples
  <2>3. q[k][i] = b[y + i] /\ q[h][j] = b[z + j]
    BY <1>4
  <2> HIDE DEF y, z
  <2>4. y + i \in 1 .. Len(b) /\ z + j \in 1 .. Len(b) /\ y + i < z + j
    BY <1>1, <1>2, <2>1, <2>2
  <2> QED BY <1>inc, <2>3, <2>4
<1>9. Increasing(r)
  <2> SUFFICES ASSUME NEW i \in 1 .. Len(b) - n, NEW j \in 1 .. Len(b) - n, i < j
               PROVE  r[i] < r[j]
    BY <1>5 DEF Increasing
  <2>1. n + i \in 1 .. Len(b) /\ n + j \in 1 .. Len(b) /\ n + i < n + j
    BY <1>1, <1>2
  <2> QED BY <1>5, <1>inc, <2>1
<1>10. Before(Samples(q), Range(r))
  <2> SUFFICES ASSUME NEW k \in 1 .. w, NEW i \in 1 .. c, NEW j \in 1 .. Len(b) - n
               PROVE  q[k][i] < r[j]
    <3>1. ASSUME NEW x \in Samples(q), NEW y \in Range(r) PROVE x < y
      <4>1. PICK k \in 1 .. w : x \in Range(q[k])
        BY <1>3, InSamples
      <4>2. PICK i \in 1 .. c : x = q[k][i]
        BY <1>4, <4>1 DEF Range
      <4>3. PICK j \in 1 .. Len(b) - n : y = r[j]
        BY <1>5, <3>1 DEF Range
      <4> QED BY <4>2, <4>3
    <3> QED BY <3>1 DEF Before
  <2> DEFINE z == (k - 1) * c
  <2>1. z \in Nat /\ k * c = z + c /\ k * c <= n /\ q[k][i] = b[z + i]
    BY <1>4
  <2> HIDE DEF z
  <2>2. z + i \in 1 .. Len(b) /\ n + j \in 1 .. Len(b) /\ z + i < n + j
    BY <1>1, <1>2, <2>1
  <2> QED BY <1>5, <1>inc, <2>1, <2>2
<1>11. Range(b) = Samples(q) \cup Range(r)
  <2>1. ASSUME NEW x \in Samples(q) PROVE x \in Range(b)
    <3>1. PICK k \in 1 .. w : x \in Range(q[k])
      BY <1>3, <2>1, InSamples
    <3>2. PICK i \in 1 .. c : x = q[k][i]
      BY <1>4, <3>1 DEF Range
    <3> DEFINE z == (k - 1) * c
    <3>3. z \in Nat /\ k * c = z + c /\ k * c <= n /\ q[k][i] = b[z + i]
      BY <1>4
    <3> HIDE DEF z
    <3>4. z + i \in 1 .. Len(b)
      BY <1>1, <1>2, <3>3
    <3> QED BY <1>1, <3>2, <3>3, <3>4 DEF Range
  <2>2. ASSUME NEW x \in Range(r) PROVE x \in Range(b)
    <3>1. PICK j \in 1 .. Len(b) - n : x = r[j]
      BY <1>5, <2>2 DEF Range
    <3>2. n + j \in 1 .. Len(b)
      BY <1>1, <1>2
    <3> QED BY <1>1, <1>5, <3>1, <3>2 DEF Range
  <2>3. ASSUME NEW x \in Range(b) PROVE x \in Samples(q) \cup Range(r)
    <3>1. PICK i \in 1 .. Len(b) : x = b[i]
      BY <1>1, <2>3 DEF Range
    <3>2. CASE i > n
      <4>1. i - n \in 1 .. Len(b) - n /\ n + (i - n) = i
        BY <1>1, <1>2, <3>2
      <4> QED BY <1>5, <3>1, <4>1 DEF Range
    <3>3. CASE i <= n
      <4>1. \E k \in 1 .. w, j \in 1 .. c : i = (k - 1) * c + j
        <5> DEFINE d == (i - 1) \div c
        <5>1. i - 1 \in Nat
          OBVIOUS
        <5>2. d \in Nat /\ d * c \in Nat /\ d * c <= i - 1 /\ i - 1 < d * c + c
          BY <1>1, <5>1, Division
        <5> HIDE DEF d
        <5>3. d < w
          <6> SUFFICES ASSUME w <= d PROVE FALSE
            BY <1>2, <5>2
          <6>1. w * c <= d * c
            <7>1. CASE w < d
              BY <1>1, <1>2, <5>2, <7>1, Multiples
            <7>2. CASE w = d
              BY <5>2, <7>2
            <7> QED BY <1>2, <5>2, <7>1, <7>2
          <6> QED BY <1>1, <1>2, <3>3, <5>2, <6>1 DEF n
        <5>4. d + 1 \in 1 .. w /\ (d + 1) - 1 = d
          BY <1>2, <5>2, <5>3
        <5>5. i - d * c \in 1 .. c /\ i = d * c + (i - d * c)
          BY <1>1, <5>2
        <5> QED BY <5>4, <5>5
      <4>2. PICK k \in 1 .. w, j \in 1 .. c : i = (k - 1) * c + j
        BY <4>1
      <4>3. x = q[k][j] /\ j \in DOMAIN q[k]
        BY <1>4, <3>1, <4>2, Zenon
      <4>4. x \in Range(q[k])
        BY <4>3 DEF Range
      <4> QED BY <1>3, <4>4, InSamples
    <3> QED BY <1>2, <3>2, <3>3
  <2> QED BY <2>1, <2>2, <2>3
<1>12. Ordered(q)
  BY <1>3, <1>7, <1>8, Zenon DEF Ordered
<1> QED BY <1>3, <1>4, <1>5, <1>6, <1>9, <1>10, <1>11, <1>12, Zenon DEF c, q, r

\* Resampling halves a frame: it keeps the odd samples of those just decoded, in
\* order.
LEMMA ResampledFrame ==
  ASSUME NEW n \in FrameSizes, decoded \in {2 * m : m \in Nat}
  PROVE  /\ n \in Nat \ {0} /\ decoded + n \in {2 * m : m \in Nat}
         /\ Frame(n) \in Block /\ Len(Frame(n)) = n
         /\ Resample(Frame(n)) \in Block /\ Increasing(Resample(Frame(n)))
         /\ Range(Resample(Frame(n))) =
              {x \in decoded + 1 .. decoded + n : x % 2 = 1}
<1>1. PICK h \in 1 .. 2880 : n = 2 * h
  BY AudioAssumption DEF AudioAssumption
<1>2. PICK m \in Nat : decoded = 2 * m
  OBVIOUS
<1>3. n \in Nat /\ n \div 2 = h /\ h \in Nat
  BY <1>1, Halves
<1> DEFINE f == Frame(n)  r == Resample(Frame(n))
<1>4. f \in Block /\ Len(f) = n /\ \A i \in 1 .. n : f[i] = decoded + i
  BY <1>2, <1>3 DEF Frame, Block
<1>5. r = [i \in 1 .. h |-> f[2 * i - 1]]
  BY <1>3, <1>4 DEF Resample
<1> HIDE DEF f
<1>6. \A i \in 1 .. h : 2 * i - 1 \in 1 .. n /\ r[i] = 2 * (m + i - 1) + 1
  BY <1>1, <1>2, <1>3, <1>4, <1>5
<1>7. DOMAIN r = 1 .. h
  BY <1>5
<1> HIDE DEF r
<1>8. r \in Block
  <2>1. \A i \in 1 .. h : f[2 * i - 1] \in Nat
    BY <1>2, <1>3, <1>5, <1>6
  <2>2. [i \in 1 .. h |-> f[2 * i - 1]] \in [1 .. h -> Nat]
    BY <2>1
  <2> QED BY <1>3, <1>5, <2>2, SeqDef DEF Block
<1>9. Increasing(r)
  BY <1>2, <1>3, <1>6, <1>7 DEF Increasing
<1>10. ASSUME NEW x \in Range(r)
       PROVE  x \in decoded + 1 .. decoded + n /\ x % 2 = 1
  <2>1. PICK i \in 1 .. h : x = 2 * (m + i - 1) + 1
    BY <1>6, <1>7, <1>10 DEF Range
  <2>2. m + i - 1 \in Nat
    BY <1>2, <1>3
  <2>3. x % 2 = 1
    BY <2>1, <2>2, Halves
  <2> QED BY <1>1, <1>2, <1>3, <2>1, <2>3
<1>11. ASSUME NEW x \in decoded + 1 .. decoded + n, x % 2 = 1
       PROVE  x \in Range(r)
  <2>1. \E y \in Nat : x = 2 * y + 1
    BY <1>2, <1>3, <1>11, SMT
  <2>2. PICK y \in Nat : x = 2 * y + 1
    BY <2>1
  <2>3. y - m + 1 \in 1 .. h /\ m + (y - m + 1) - 1 = y
    BY <1>1, <1>2, <1>3, <2>2
  <2>4. r[y - m + 1] = x
    BY <1>6, <2>2, <2>3
  <2> QED BY <1>7, <2>3, <2>4 DEF Range
<1>12. Range(r) = {x \in decoded + 1 .. decoded + n : x % 2 = 1}
  BY <1>10, <1>11
<1>13. n \in Nat \ {0} /\ decoded + n \in {2 * j : j \in Nat}
  <2>1. decoded + n = 2 * (m + h) /\ m + h \in Nat /\ n \in Nat \ {0}
    BY <1>1, <1>2
  <2> QED BY <2>1
<1> QED BY <1>4, <1>8, <1>9, <1>12, <1>13 DEF f, r

-----------------------------------------------------------------------------
(* The queue of frames, seen as chunks of what the resampler leaves.        *)

LEMMA ResampleType ==
  ASSUME NEW f \in Block
  PROVE  Resample(f) \in Block
<1>1. Len(f) \in Nat /\ Len(f) \div 2 \in Nat /\ (Len(f) \div 2) * 2 <= Len(f)
  BY LenProperties, Division DEF Block
<1> DEFINE h == Len(f) \div 2
<1>2. \A i \in 1 .. h : 2 * i - 1 \in 1 .. Len(f)
  BY <1>1
<1>3. \A i \in 1 .. h : f[2 * i - 1] \in Nat
  BY <1>2, ElementOfSeq DEF Block
<1> HIDE DEF h
<1>4. [i \in 1 .. h |-> f[2 * i - 1]] \in [1 .. h -> Nat]
  BY <1>3
<1> QED BY <1>1, <1>4, SeqDef DEF Resample, h, Block

LEMMA ResampledType ==
  ASSUME NEW q \in Seq(Block)
  PROVE  /\ Resampled(q) \in Seq(Block) /\ Len(Resampled(q)) = Len(q)
         /\ \A i \in 1 .. Len(q) : Resampled(q)[i] = Resample(q[i])
<1>1. Len(q) \in Nat /\ DOMAIN q = 1 .. Len(q)
  BY LenProperties
<1>2. \A i \in 1 .. Len(q) : Resample(q[i]) \in Block
  BY ElementOfSeq, ResampleType
<1>3. [i \in 1 .. Len(q) |-> Resample(q[i])] \in [1 .. Len(q) -> Block]
  BY <1>2
<1>4. Resampled(q) = [i \in 1 .. Len(q) |-> Resample(q[i])]
  BY <1>1, Zenon DEF Resampled
<1> QED BY <1>1, <1>3, <1>4, SeqDef

LEMMA ResampledAppend ==
  ASSUME NEW q \in Seq(Block), NEW f \in Block
  PROVE  Resampled(Append(q, f)) = Append(Resampled(q), Resample(f))
<1>1. /\ Append(q, f) \in Seq(Block) /\ Len(Append(q, f)) = Len(q) + 1
      /\ \A i \in 1 .. Len(q) : Append(q, f)[i] = q[i]
      /\ Append(q, f)[Len(q) + 1] = f
      /\ Len(q) \in Nat
  BY AppendProperties, LenProperties
<1> DEFINE u == Resampled(Append(q, f))  v == Append(Resampled(q), Resample(f))
<1>2. /\ u \in Seq(Block) /\ Len(u) = Len(q) + 1
      /\ \A i \in 1 .. Len(q) + 1 : u[i] = Resample(Append(q, f)[i])
  BY <1>1, ResampledType
<1>3. /\ v \in Seq(Block) /\ Len(v) = Len(q) + 1
      /\ \A i \in 1 .. Len(q) : v[i] = Resample(q[i])
      /\ v[Len(q) + 1] = Resample(f)
  BY ResampledType, ResampleType, AppendProperties
<1> HIDE DEF u, v
<1>4. ASSUME NEW i \in 1 .. Len(u) PROVE u[i] = v[i]
  <2>1. CASE i = Len(q) + 1
    BY <1>1, <1>2, <1>3, <2>1
  <2>2. CASE i \in 1 .. Len(q)
    BY <1>1, <1>2, <1>3, <2>2
  <2> QED BY <1>1, <1>2, <2>1, <2>2
<1>5. u = v
  BY <1>2, <1>3, <1>4, SeqEqual
<1> QED BY <1>5 DEF u, v

LEMMA ResampledHeadTail ==
  ASSUME NEW q \in Seq(Block), q # <<>>
  PROVE  /\ Resampled(q) # <<>>
         /\ Head(Resampled(q)) = Resample(Head(q))
         /\ Tail(Resampled(q)) = Resampled(Tail(q))
<1>1. /\ Head(q) \in Block /\ Tail(q) \in Seq(Block)
      /\ Len(Tail(q)) = Len(q) - 1 /\ Len(q) \in Nat \ {0}
      /\ \A i \in 1 .. Len(Tail(q)) : Tail(q)[i] = q[i + 1]
  BY HeadTailProperties, EmptySeq
<1>2. /\ Resampled(q) \in Seq(Block) /\ Len(Resampled(q)) = Len(q)
      /\ \A i \in 1 .. Len(q) : Resampled(q)[i] = Resample(q[i])
  BY ResampledType
<1>3. Resampled(q) # <<>>
  BY <1>1, <1>2, EmptySeq
<1>4. Head(Resampled(q)) = Resample(Head(q))
  <2>1. 1 \in 1 .. Len(q) /\ Head(q) = q[1] /\ Head(Resampled(q)) = Resampled(q)[1]
    BY <1>1, <1>2, <1>3
  <2> QED BY <1>2, <2>1, Zenon
<1>5. Tail(Resampled(q)) = Resampled(Tail(q))
  <2> DEFINE u == Tail(Resampled(q))  v == Resampled(Tail(q))
  <2>1. /\ u \in Seq(Block) /\ Len(u) = Len(q) - 1
        /\ \A i \in 1 .. Len(q) - 1 : u[i] = Resampled(q)[i + 1]
    BY <1>2, <1>3, HeadTailProperties
  <2>2. /\ v \in Seq(Block) /\ Len(v) = Len(q) - 1
        /\ \A i \in 1 .. Len(q) - 1 : v[i] = Resample(Tail(q)[i])
    BY <1>1, ResampledType
  <2> HIDE DEF u, v
  <2>3. ASSUME NEW i \in 1 .. Len(u) PROVE u[i] = v[i]
    <3>1. i \in 1 .. Len(q) - 1 /\ i + 1 \in 1 .. Len(q)
      BY <1>1, <2>1
    <3>2. Resampled(q)[i + 1] = Resample(q[i + 1])
      BY <1>2, <3>1
    <3>3. Tail(q)[i] = q[i + 1]
      BY <1>1, <3>1
    <3> QED BY <2>1, <2>2, <3>1, <3>2, <3>3
  <2>4. u = v
    BY <2>1, <2>2, <2>3, SeqEqual
  <2> QED BY <2>4 DEF u, v
<1> QED BY <1>3, <1>4, <1>5

\* InOrder and Accounted, place by place.
LEMMA LinePlaces ==
  ASSUME TypeOK
  PROVE  /\ InOrder <=> PlacesInOrder
         /\ Accounted <=> AllAccounted
<1> DEFINE a == sent  b == a \o outputCh  c == b \o pending  d == c \o <<cache>>
<1>1. /\ a \in Seq(Block) /\ outputCh \in Seq(Block) /\ pending \in Seq(Block)
      /\ cache \in Block /\ inputCh \in Seq(Block) /\ <<cache>> \in Seq(Block)
  BY DEF TypeOK, Block
<1>2. Waits \in Seq(Block)
  BY <1>1, ResampledType DEF Waits
<1>3. /\ b \in Seq(Block) /\ Samples(b) = Samples(a) \cup Samples(outputCh)
      /\ Ordered(b) <=> Ordered(a) /\ Ordered(outputCh) /\ Before(Samples(a), Samples(outputCh))
  BY <1>1, ConcatChunks
<1> HIDE DEF b
<1>4. /\ c \in Seq(Block) /\ Samples(c) = Samples(b) \cup Samples(pending)
      /\ Ordered(c) <=> Ordered(b) /\ Ordered(pending) /\ Before(Samples(b), Samples(pending))
  BY <1>1, <1>3, ConcatChunks
<1> HIDE DEF c
<1>5. /\ d \in Seq(Block) /\ Samples(d) = Samples(c) \cup Samples(<<cache>>)
      /\ Ordered(d) <=> Ordered(c) /\ Ordered(<<cache>>) /\ Before(Samples(c), Samples(<<cache>>))
  BY <1>1, <1>4, ConcatChunks
<1>6. Samples(<<cache>>) = Range(cache) /\ (Ordered(<<cache>>) <=> Increasing(cache))
  BY OneChunk
<1> HIDE DEF d
<1>7. /\ Samples(d \o Waits) = Samples(d) \cup Samples(Waits)
      /\ Ordered(d \o Waits) <=> Ordered(d) /\ Ordered(Waits) /\ Before(Samples(d), Samples(Waits))
  BY <1>2, <1>5, ConcatChunks
<1>8. Line = d \o Waits
  <2> DEFINE x == outputCh  y == pending  z == <<cache>>  w == Waits
  <2>1. Line = sent \o x \o y \o z \o w
    BY DEF Line, Waits
  <2> QED BY <2>1 DEF b, c, d
<1>9. Samples(Line) = Samples(sent) \cup Held
  BY <1>3, <1>4, <1>5, <1>6, <1>7, <1>8 DEF Held
<1>10. \A A, B, C : Before(A \cup B, C) <=> Before(A, C) /\ Before(B, C)
  BY DEF Before
<1>11. InOrder <=> PlacesInOrder
  <2> DEFINE S == Samples(sent)  O == Samples(outputCh)  P == Samples(pending)
             C == Range(cache)  W == Samples(Waits)
  <2>1. Before(Samples(b), P) <=> Before(S, P) /\ Before(O, P)
    BY <1>3, <1>10
  <2>2. Before(Samples(c), C) <=> Before(S, C) /\ Before(O, C) /\ Before(P, C)
    BY <1>3, <1>4, <1>10
  <2>3. Before(Samples(d), W) <=> Before(S, W) /\ Before(O, W) /\ Before(P, W) /\ Before(C, W)
    <3>1. Samples(d) = ((S \cup O) \cup P) \cup C
      BY <1>3, <1>4, <1>5, <1>6, Zenon
    <3> HIDE DEF S, O, P, C, W
    <3>2. /\ Before(((S \cup O) \cup P) \cup C, W) <=>
               Before((S \cup O) \cup P, W) /\ Before(C, W)
          /\ Before((S \cup O) \cup P, W) <=> Before(S \cup O, W) /\ Before(P, W)
          /\ Before(S \cup O, W) <=> Before(S, W) /\ Before(O, W)
      BY <1>10
    <3> QED BY <3>1, <3>2
  <2>4. InOrder <=> Ordered(d) /\ Ordered(Waits) /\ Before(Samples(d), W)
    BY <1>7, <1>8, Zenon DEF InOrder
  <2>5. PlacesInOrder <=>
          /\ Ordered(a) /\ Ordered(outputCh) /\ Ordered(pending) /\ Increasing(cache)
          /\ Ordered(Waits) /\ Apart(S, O, P, C, W)
    BY DEF PlacesInOrder
  <2>6. Ordered(d) <=>
          /\ Ordered(a) /\ Ordered(outputCh) /\ Before(S, O)
          /\ Ordered(pending) /\ Before(S, P) /\ Before(O, P)
          /\ Increasing(cache) /\ Before(S, C) /\ Before(O, C) /\ Before(P, C)
    BY <1>3, <1>4, <1>5, <1>6, <2>1, <2>2, Zenon
  <2> QED BY <2>3, <2>4, <2>5, <2>6, Zenon DEF Apart
<1> QED BY <1>9, <1>11 DEF Accounted, AllAccounted

-----------------------------------------------------------------------------
(* Types.                                                                   *)

LEMMA LoseSamples ==
  ASSUME lost \in [Causes -> SUBSET Nat], NEW c \in Causes, NEW X \in SUBSET Nat,
         Lose(c, X)
  PROVE  lost' \in [Causes -> SUBSET Nat] /\ Lost' = Lost \cup X
<1>1. lost' = [lost EXCEPT ![c] = lost[c] \cup X]
  BY DEF Lose
<1>2. lost' \in [Causes -> SUBSET Nat]
  BY <1>1
<1>3. \A d \in Causes : lost'[d] = IF d = c THEN lost[c] \cup X ELSE lost[d]
  BY <1>1
<1>4. ASSUME NEW x PROVE x \in Lost' <=> x \in Lost \cup X
  <2>1. x \in Lost' <=> \E d \in Causes : x \in lost'[d]
    BY DEF Lost
  <2>2. x \in Lost <=> \E d \in Causes : x \in lost[d]
    BY DEF Lost
  <2> QED BY <1>3, <2>1, <2>2
<1> QED BY <1>2, <1>4

-----------------------------------------------------------------------------
(* Five sets of samples apart: what a move between neighbours keeps.        *)

LEMMA ApartGrows ==
  ASSUME NEW A, NEW B, NEW C, NEW D, NEW E, NEW N, Apart(A, B, C, D, E),
         Before(A \cup B \cup C \cup D \cup E, N)
  PROVE  Apart(A, B, C, D, E \cup N)
BY DEF Apart, Before

\* The earliest of B goes to A.
LEMMA ApartFirst ==
  ASSUME NEW A, NEW C, NEW D, NEW E, NEW H, NEW T,
         Apart(A, H \cup T, C, D, E), Before(H, T)
  PROVE  Apart(A \cup H, T, C, D, E)
BY DEF Apart, Before

\* The earliest of C goes to B.
LEMMA ApartSecond ==
  ASSUME NEW A, NEW B, NEW D, NEW E, NEW H, NEW T,
         Apart(A, B, H \cup T, D, E), Before(H, T)
  PROVE  Apart(A, B \cup H, T, D, E)
BY DEF Apart, Before

\* The earliest of E joins D, which is split anew between C and D.
LEMMA ApartCut ==
  ASSUME NEW A, NEW B, NEW D, NEW H, NEW T, NEW P, NEW R,
         Apart(A, B, {}, D, H \cup T), Before(H, T), D \cup H = P \cup R, Before(P, R)
  PROVE  Apart(A, B, P, R, T)
BY DEF Apart, Before

\* D is last in the line but for E, and goes to B.
LEMMA ApartTail ==
  ASSUME NEW A, NEW B, NEW D, NEW E, Apart(A, B, {}, D, E)
  PROVE  Apart(A, B \cup D, {}, {}, E)
BY DEF Apart, Before

LEMMA PlaceTypes ==
  ASSUME TypeOK
  PROVE  /\ sent \in Seq(Block) /\ outputCh \in Seq(Block) /\ pending \in Seq(Block)
         /\ cache \in Block /\ inputCh \in Seq(Block) /\ Waits \in Seq(Block)
         /\ Samples(sent) \in SUBSET Nat /\ Samples(outputCh) \in SUBSET Nat
         /\ Samples(pending) \in SUBSET Nat /\ Range(cache) \in SUBSET Nat
         /\ Samples(Waits) \in SUBSET Nat
<1>1. /\ sent \in Seq(Block) /\ outputCh \in Seq(Block) /\ pending \in Seq(Block)
      /\ cache \in Block /\ inputCh \in Seq(Block)
  BY DEF TypeOK, Block
<1>2. Waits \in Seq(Block)
  BY <1>1, ResampledType DEF Waits
<1>3. Range(cache) \in SUBSET Nat
  BY <1>1, RangeOfSeq DEF Block
<1> QED BY <1>1, <1>2, <1>3, SamplesAreNat

\* The parts of the invariant, and what decides each: a step that changes none of
\* these variables keeps the part.
LEMMA PlacesStay ==
  ASSUME PlacesInOrder,
         UNCHANGED <<inputCh, outputCh, cache, pending, sent>>
  PROVE  PlacesInOrder'
BY DEF PlacesInOrder, Waits, Apart

LEMMA AccountsStay ==
  ASSUME AllAccounted, UNCHANGED <<decoded, inputCh, outputCh, cache, pending, sent, lost>>
  PROVE  AllAccounted'
BY DEF AllAccounted, Held, Waits, Lost, Spoken

-----------------------------------------------------------------------------
(* The steps.                                                               *)

LEMMA DecodeFrameKeeps ==
  ASSUME IInv, NEW n \in FrameSizes, DecodeFrame(n)
  PROVE  IInv'
<1> DEFINE f == Frame(n)  r == Resample(f)  N == Range(r)
<1>t. TypeOK /\ PlacesInOrder /\ AllAccounted /\ TailIsLast
  BY DEF IInv
<1>p. /\ frames' = frames + 1 /\ frames < MaxFrames /\ decoded' = decoded + n
      /\ UNCHANGED <<outputCh, cache, pending, loop, run, writing, ctxDone, connected, sent, late>>
  BY DEF DecodeFrame, runVars
<1>q. \/ Len(inputCh) < InCap /\ inputCh' = Append(inputCh, f) /\ UNCHANGED lost
      \/ Lose("input full", N) /\ UNCHANGED inputCh
  BY DEF DecodeFrame
<1>3. /\ n \in Nat \ {0} /\ decoded + n \in {2 * m : m \in Nat}
      /\ f \in Block /\ Len(f) = n /\ r \in Block /\ Increasing(r)
      /\ N = {x \in decoded + 1 .. decoded + n : x % 2 = 1}
  BY ResampledFrame DEF IInv, EvenDecoded
<1> HIDE DEF f, r, N
<1>1. decoded \in Nat /\ decoded' \in Nat /\ n \in Nat
  BY <1>3, <1>p, <1>t DEF TypeOK
<1>4. EvenDecoded'
  BY <1>3, <1>p DEF EvenDecoded
<1>5. TailIsLast'
  BY <1>t, <1>p DEF TailIsLast, WholeButLast, Whole
<1>6. Spoken' = Spoken \cup N /\ N \in SUBSET Nat /\ \A x \in Spoken, y \in N : x < y
  BY <1>1, <1>3, <1>p DEF Spoken
<1>7. Samples(sent) \cup Held \subseteq Spoken /\ Lost \subseteq Spoken /\ Lost \cap N = {}
  <2>1. Samples(sent) \cup Held \subseteq Spoken /\ Lost \subseteq Spoken
    BY <1>t DEF AllAccounted
  <2>2. Lost \cap N = {}
    BY <1>6, <2>1 DEF Spoken
  <2> QED BY <2>1, <2>2
<1>8. CASE Len(inputCh) < InCap /\ inputCh' = Append(inputCh, f) /\ UNCHANGED lost
  <2>1. /\ inputCh' \in Seq(Block) /\ Len(inputCh') = Len(inputCh) + 1
        /\ \A i \in 1 .. Len(inputCh) : inputCh'[i] = inputCh[i]
        /\ inputCh'[Len(inputCh) + 1] = f
    BY <1>3, <1>8, <1>t, AppendProperties, PlaceTypes
  <2>2. TypeOK'
    <3>1. Len(inputCh) \in Nat /\ DOMAIN inputCh' = 1 .. Len(inputCh) + 1
      BY <1>t, <2>1, LenProperties, PlaceTypes
    <3>2. \A i \in DOMAIN inputCh' : Len(inputCh'[i]) \in FrameSizes
      <4> SUFFICES ASSUME NEW i \in 1 .. Len(inputCh) + 1
                   PROVE  Len(inputCh'[i]) \in FrameSizes
        BY <3>1
      <4>1. CASE i = Len(inputCh) + 1
        BY <1>3, <2>1, <4>1
      <4>2. CASE i \in 1 .. Len(inputCh)
        BY <1>t, <2>1, <4>2, LenProperties DEF TypeOK
      <4> QED BY <3>1, <4>1, <4>2
    <3>3. frames' \in 0 .. MaxFrames /\ decoded' \in Nat /\ Len(inputCh') <= InCap
      BY <1>1, <1>p, <1>8, <1>t, <2>1, <3>1, AudioAssumption DEF TypeOK, AudioAssumption
    <3> QED BY <1>8, <1>p, <1>t, <2>1, <3>2, <3>3 DEF TypeOK, Block
  <2>3. Waits' = Append(Waits, r)
    BY <1>3, <1>8, <1>t, ResampledAppend, PlaceTypes DEF Waits, r
  <2>4. Samples(Waits') = Samples(Waits) \cup N
    BY <1>3, <1>t, <2>3, AppendChunk, PlaceTypes DEF N
  <2>5. Before(Samples(sent) \cup Held, N)
    BY <1>6, <1>7 DEF Before
  <2>6. Ordered(Waits')
    <3>1. Before(Samples(Waits), Range(r))
      BY <2>5 DEF Before, Held, N
    <3> QED BY <1>3, <1>t, <2>3, <3>1, AppendChunk, PlaceTypes DEF PlacesInOrder
  <2>7. Apart(Samples(sent), Samples(outputCh), Samples(pending), Range(cache),
              Samples(Waits) \cup N)
    <3>1. Before(Samples(sent) \cup Samples(outputCh) \cup Samples(pending) \cup Range(cache)
                   \cup Samples(Waits), N)
      BY <2>5 DEF Before, Held
    <3> QED BY <1>t, <3>1, ApartGrows, Zenon DEF PlacesInOrder
  <2>8. PlacesInOrder'
    BY <1>p, <1>t, <2>4, <2>6, <2>7, Zenon DEF PlacesInOrder
  <2>9. AllAccounted'
    <3>1. Held' = Held \cup N
      BY <1>p, <2>4 DEF Held
    <3>2. Lost' = Lost /\ sent' = sent
      BY <1>8, <1>p DEF Lost
    <3> QED BY <1>6, <1>7, <1>t, <3>1, <3>2 DEF AllAccounted
  <2> QED BY <1>4, <1>5, <2>2, <2>8, <2>9 DEF IInv
<1>9. CASE Lose("input full", N) /\ UNCHANGED inputCh
  <2>1. lost' \in [Causes -> SUBSET Nat] /\ Lost' = Lost \cup N
    BY <1>6, <1>9, <1>t, LoseSamples DEF TypeOK, Causes
  <2>2. TypeOK'
    <3>1. frames' \in 0 .. MaxFrames /\ decoded' \in Nat
      BY <1>1, <1>p, <1>t, AudioAssumption DEF TypeOK, AudioAssumption
    <3> QED BY <1>9, <1>p, <1>t, <2>1, <3>1 DEF TypeOK
  <2>3. PlacesInOrder'
    BY <1>9, <1>p, <1>t, PlacesStay
  <2>4. AllAccounted'
    <3>1. Held' = Held /\ sent' = sent
      BY <1>9, <1>p DEF Held, Waits
    <3>2. (Samples(sent) \cup Held) \cap N = {}
      BY <1>6, <1>7 DEF Spoken
    <3> QED BY <1>6, <1>t, <2>1, <3>1, <3>2 DEF AllAccounted
  <2> QED BY <1>4, <1>5, <2>2, <2>3, <2>4 DEF IInv
<1> QED BY <1>q, <1>8, <1>9

\* The frame at the head of the queue passes the resampler and the chunk buffer.
LEMMA ProcessInputFrameKeeps ==
  ASSUME IInv, ProcessInputFrame
  PROVE  IInv'
<1> DEFINE r == Resample(Head(inputCh))  b == cache \o r  H == Range(r)
           T == Samples(Tail(Waits))  P == Samples(Chunks(b))  R == Range(Rest(b))
<1>t. TypeOK /\ EvenDecoded /\ PlacesInOrder /\ AllAccounted /\ TailIsLast
  BY DEF IInv
<1>p. /\ pending = <<>> /\ inputCh # <<>> /\ loop # "done"
      /\ cache' = Rest(b) /\ pending' = Chunks(b) /\ inputCh' = Tail(inputCh)
      /\ UNCHANGED <<frames, decoded, outputCh, loop, run, writing, ctxDone, connected, sent, lost, late>>
  BY DEF ProcessInputFrame, readerVars, runVars
<1>1. /\ Head(inputCh) \in Block /\ Tail(inputCh) \in Seq(Block)
      /\ Len(Tail(inputCh)) = Len(inputCh) - 1
      /\ \A i \in 1 .. Len(Tail(inputCh)) : Tail(inputCh)[i] = inputCh[i + 1]
  BY <1>p, <1>t, HeadTailProperties, PlaceTypes
<1>2. r \in Block /\ b \in Block
  BY <1>1, <1>t, ResampleType, PlaceTypes, ConcatProperties DEF Block
<1>3. /\ Waits # <<>> /\ Head(Waits) = r /\ Waits' = Tail(Waits)
  BY <1>p, <1>t, PlaceTypes, ResampledHeadTail DEF Waits
<1>4. /\ Samples(Waits) = H \cup T
      /\ Increasing(r) /\ Ordered(Tail(Waits)) /\ Before(H, T)
  BY <1>3, <1>t, PlaceTypes, TakeChunk DEF PlacesInOrder
<1>5. Range(b) = Range(cache) \cup H
  BY <1>2, <1>t, PlaceTypes, RangeConcatenation DEF Block
<1>6. Increasing(b)
  <2>1. Increasing(cache) /\ Before(Range(cache), H)
    BY <1>4, <1>t DEF PlacesInOrder, Apart, Before
  <2>2. /\ b \in Seq(Nat) /\ Len(b) = Len(cache) + Len(r)
        /\ \A i \in 1 .. Len(cache) + Len(r) :
             b[i] = IF i <= Len(cache) THEN cache[i] ELSE r[i - Len(cache)]
        /\ Len(cache) \in Nat /\ Len(r) \in Nat
        /\ DOMAIN cache = 1 .. Len(cache) /\ DOMAIN r = 1 .. Len(r)
        /\ DOMAIN b = 1 .. Len(b)
    BY <1>2, <1>t, PlaceTypes, ConcatProperties, LenProperties DEF Block
  <2> DEFINE h == Len(cache)
  <2>h. h = Len(cache) /\ h \in Nat
    BY <2>2
  <2> HIDE DEF b, r, H, h
  <2>i. /\ \A i \in 1 .. Len(b) : i <= h => i \in 1 .. h /\ b[i] = cache[i]
        /\ \A i \in 1 .. Len(b) : i > h => i - h \in 1 .. Len(r) /\ b[i] = r[i - h]
    BY <2>2, <2>h
  <2>3. ASSUME NEW i \in 1 .. Len(b), NEW j \in 1 .. Len(b), i < j PROVE b[i] < b[j]
    <3>1. CASE j <= h
      <4>1. i \in 1 .. h /\ j \in 1 .. h /\ b[i] = cache[i] /\ b[j] = cache[j]
        BY <2>h, <2>i, <2>3, <3>1
      <4> QED BY <2>1, <2>2, <2>3, <2>h, <4>1 DEF Increasing
    <3>2. CASE i <= h /\ j > h
      <4>1. j - h \in 1 .. Len(r) /\ b[j] = r[j - h] /\ b[i] = cache[i] /\ i \in 1 .. h
        BY <2>h, <2>i, <3>2
      <4>2. r[j - h] \in H /\ cache[i] \in Range(cache)
        BY <2>2, <4>1 DEF Range, H, h
      <4> QED BY <2>1, <4>1, <4>2 DEF Before
    <3>3. CASE i > h
      <4>1. /\ i - h \in 1 .. Len(r) /\ j - h \in 1 .. Len(r) /\ i - h < j - h
            /\ b[i] = r[i - h] /\ b[j] = r[j - h]
        <5>1. j > h /\ i - h < j - h
          BY <2>h, <2>3, <3>3
        <5> QED BY <2>i, <3>3, <5>1
      <4> QED BY <1>4, <2>2, <4>1 DEF Increasing
    <3> QED BY <2>2, <3>1, <3>2, <3>3 DEF h
  <2> QED BY <2>2, <2>3 DEF Increasing
<1>7. /\ Chunks(b) \in Seq(Block) /\ Rest(b) \in Block
      /\ \A k \in DOMAIN Chunks(b) : Len(Chunks(b)[k]) = ChunkSize
      /\ Len(Rest(b)) < ChunkSize
      /\ Ordered(Chunks(b)) /\ Increasing(Rest(b)) /\ Before(P, R)
      /\ Range(cache) \cup H = P \cup R
  BY <1>2, <1>5, <1>6, CutBuffer
<1> HIDE DEF r, b, H, T, P, R
<1>8. Samples(pending') = P /\ Range(cache') = R /\ Samples(Waits') = T /\ Samples(pending) = {}
  BY <1>3, <1>p, NoChunks, Zenon DEF P, R, T
<1>9. TypeOK'
  <2>1. \A i \in DOMAIN inputCh' : Len(inputCh'[i]) \in FrameSizes
    <3> SUFFICES ASSUME NEW i \in 1 .. Len(Tail(inputCh))
                 PROVE  Len(Tail(inputCh)[i]) \in FrameSizes
      BY <1>1, <1>p, LenProperties
    <3>1. i + 1 \in 1 .. Len(inputCh) /\ DOMAIN inputCh = 1 .. Len(inputCh)
      BY <1>1, <1>t, PlaceTypes, LenProperties
    <3> QED BY <1>1, <1>t, <3>1 DEF TypeOK
  <2>2. Len(inputCh') <= InCap
    BY <1>1, <1>p, <1>t, PlaceTypes, LenProperties, AudioAssumption DEF TypeOK, AudioAssumption
  <2> QED BY <1>1, <1>7, <1>p, <1>t, <2>1, <2>2 DEF TypeOK, Block
<1>10. PlacesInOrder'
  <2>1. Apart(Samples(sent), Samples(outputCh), {}, Range(cache), H \cup T)
    BY <1>4, <1>8, <1>t, Zenon DEF PlacesInOrder
  <2>2. Apart(Samples(sent), Samples(outputCh), P, R, T)
    BY <1>4, <1>7, <2>1, ApartCut
  <2> QED BY <1>3, <1>4, <1>7, <1>8, <1>p, <1>t, <2>2, Zenon DEF PlacesInOrder
<1>11. AllAccounted'
  <2>1. Held' = Held
    BY <1>4, <1>7, <1>8, <1>p DEF Held
  <2> QED BY <1>p, <1>t, <2>1 DEF AllAccounted, Lost, Spoken
<1>12. TailIsLast'
  BY <1>7, <1>p, <1>t DEF TailIsLast, WholeButLast, Whole
<1>13. EvenDecoded'
  BY <1>p, <1>t DEF EvenDecoded
<1> QED BY <1>9, <1>10, <1>11, <1>12, <1>13 DEF IInv

\* A chunk leaves the pending ones, for the queue or for good.
LEMMA PendingHead ==
  ASSUME TypeOK, PlacesInOrder, TailIsLast, pending # <<>>
  PROVE  /\ Head(pending) \in Block /\ Tail(pending) \in Seq(Block)
         /\ Len(Head(pending)) = ChunkSize /\ Whole(Tail(pending))
         /\ Samples(pending) = Range(Head(pending)) \cup Samples(Tail(pending))
         /\ Increasing(Head(pending)) /\ Ordered(Tail(pending))
         /\ Before(Range(Head(pending)), Samples(Tail(pending)))
<1>1. pending \in Seq(Block)
  BY PlaceTypes
<1>2. /\ Len(Tail(pending)) = Len(pending) - 1 /\ Tail(pending) \in Seq(Block)
      /\ \A i \in 1 .. Len(Tail(pending)) : Tail(pending)[i] = pending[i + 1]
      /\ Head(pending) = pending[1]
      /\ DOMAIN pending = 1 .. Len(pending) /\ Len(pending) \in Nat \ {0}
      /\ DOMAIN Tail(pending) = 1 .. Len(pending) - 1
  BY <1>1, HeadTailProperties, LenProperties, EmptySeq
<1>3. Len(Head(pending)) = ChunkSize
  BY <1>2 DEF TailIsLast, Whole
<1>4. Whole(Tail(pending))
  <2> SUFFICES ASSUME NEW i \in 1 .. Len(pending) - 1
               PROVE  Len(Tail(pending)[i]) = ChunkSize
    BY <1>2 DEF Whole
  <2>1. i + 1 \in 1 .. Len(pending) /\ Tail(pending)[i] = pending[i + 1]
    BY <1>2
  <2> QED BY <1>2, <2>1 DEF TailIsLast, Whole
<1> QED BY <1>1, <1>3, <1>4, TakeChunk DEF PlacesInOrder

\* Chunks in a row: whole if both parts are, whole but for the last one if the
\* first part is whole and the second whole but for its last.
LEMMA WholeLines ==
  ASSUME NEW p \in Seq(Block), NEW q \in Seq(Block), Whole(p)
  PROVE  /\ Whole(q) => WholeButLast(p \o q)
         /\ WholeButLast(q) => WholeButLast(p \o q)
<1>1. /\ Len(p) \in Nat /\ Len(q) \in Nat /\ Len(p \o q) = Len(p) + Len(q)
      /\ DOMAIN p = 1 .. Len(p) /\ DOMAIN q = 1 .. Len(q)
      /\ \A i \in 1 .. Len(p) + Len(q) :
           (p \o q)[i] = IF i <= Len(p) THEN p[i] ELSE q[i - Len(p)]
  BY ConcatProperties, LenProperties
<1>2. ASSUME WholeButLast(q) PROVE WholeButLast(p \o q)
  <2> SUFFICES ASSUME NEW i \in 1 .. Len(p) + Len(q) - 1 PROVE Len((p \o q)[i]) = ChunkSize
    BY <1>1 DEF WholeButLast
  <2>1. CASE i <= Len(p)
    BY <1>1, <2>1 DEF Whole
  <2>2. CASE i > Len(p)
    <3>1. i - Len(p) \in 1 .. Len(q) - 1 /\ (p \o q)[i] = q[i - Len(p)]
      BY <1>1, <2>2
    <3> QED BY <1>2, <3>1 DEF WholeButLast
  <2> QED BY <1>1, <2>1, <2>2
<1>3. Whole(q) => WholeButLast(q)
  BY <1>1 DEF Whole, WholeButLast
<1> QED BY <1>2, <1>3

LEMMA EnqueueChunkKeeps ==
  ASSUME IInv, EnqueueChunk
  PROVE  IInv'
<1> DEFINE H == Range(Head(pending))  T == Samples(Tail(pending))  O == Samples(outputCh)
<1>t. TypeOK /\ EvenDecoded /\ PlacesInOrder /\ AllAccounted /\ TailIsLast
  BY DEF IInv
<1>p. /\ pending # <<>> /\ Len(outputCh) < OutCap
      /\ outputCh' = Append(outputCh, Head(pending)) /\ pending' = Tail(pending)
      /\ UNCHANGED <<frames, decoded, inputCh, cache, loop, run, writing, ctxDone, connected, sent, lost, late>>
  BY DEF EnqueueChunk, readerVars, runVars
<1>1. /\ Head(pending) \in Block /\ Tail(pending) \in Seq(Block)
      /\ Len(Head(pending)) = ChunkSize /\ Whole(Tail(pending))
      /\ Samples(pending) = H \cup T
      /\ Increasing(Head(pending)) /\ Ordered(Tail(pending)) /\ Before(H, T)
  BY <1>p, <1>t, PendingHead
<1>2. /\ outputCh' \in Seq(Block) /\ Len(outputCh') = Len(outputCh) + 1
      /\ \A i \in 1 .. Len(outputCh) : outputCh'[i] = outputCh[i]
      /\ outputCh'[Len(outputCh) + 1] = Head(pending)
      /\ Len(outputCh) \in Nat /\ DOMAIN outputCh = 1 .. Len(outputCh)
      /\ DOMAIN outputCh' = 1 .. Len(outputCh) + 1
  BY <1>1, <1>p, <1>t, PlaceTypes, AppendProperties, LenProperties
<1>3. /\ Samples(outputCh') = O \cup H
      /\ Ordered(outputCh') <=> Ordered(outputCh) /\ Increasing(Head(pending)) /\ Before(O, H)
  BY <1>1, <1>p, <1>t, PlaceTypes, AppendChunk
<1>4. Before(O, H)
  BY <1>1, <1>t DEF PlacesInOrder, Apart, Before
<1>l. loop # "done"
  BY <1>p, <1>t DEF TailIsLast
<1>5. \A i \in DOMAIN outputCh' : Len(outputCh'[i]) = ChunkSize
  <2> SUFFICES ASSUME NEW i \in 1 .. Len(outputCh) + 1 PROVE Len(outputCh'[i]) = ChunkSize
    BY <1>2
  <2>1. CASE i = Len(outputCh) + 1
    BY <1>1, <1>2, <2>1
  <2>2. CASE i \in 1 .. Len(outputCh)
    BY <1>2, <1>l, <1>t, <2>2 DEF TailIsLast, Whole
  <2> QED BY <1>2, <2>1, <2>2
<1> HIDE DEF H, T, O
<1>6. TypeOK'
  <2>1. ChunkSize \in 1 .. ChunkSize /\ OutCap \in Nat
    BY AudioAssumption DEF AudioAssumption
  <2>2. \A i \in DOMAIN outputCh' : Len(outputCh'[i]) \in 1 .. ChunkSize
    BY <1>5, <2>1
  <2>3. Len(outputCh') <= OutCap
    BY <1>2, <1>p, <2>1
  <2> QED BY <1>1, <1>2, <1>p, <1>t, <2>2, <2>3 DEF TypeOK, Whole, Block
<1>7. PlacesInOrder'
  <2>1. Apart(Samples(sent), O, H \cup T, Range(cache), Samples(Waits))
    BY <1>1, <1>t, Zenon DEF PlacesInOrder, O
  <2>2. Apart(Samples(sent), O \cup H, T, Range(cache), Samples(Waits))
    BY <1>1, <2>1, ApartSecond
  <2>3. Samples(pending') = T /\ Waits' = Waits /\ sent' = sent /\ cache' = cache
    BY <1>p DEF T, Waits
  <2> QED BY <1>1, <1>3, <1>4, <1>p, <1>t, <2>2, <2>3, Zenon DEF PlacesInOrder
<1>8. AllAccounted'
  <2>1. Samples(pending') = T /\ Waits' = Waits /\ Lost' = Lost
    BY <1>p DEF T, Waits, Lost
  <2>2. Held' = Held
    BY <1>1, <1>3, <1>p, <2>1 DEF Held, O
  <2> QED BY <1>p, <1>t, <2>1, <2>2 DEF AllAccounted, Spoken
<1>9. TailIsLast'
  <2>1. Whole(outputCh') /\ Whole(sent)
    BY <1>5, <1>l, <1>t DEF TailIsLast, Whole
  <2>2. WholeButLast(sent' \o outputCh')
    BY <1>2, <1>p, <1>t, <2>1, PlaceTypes, WholeLines
  <2> QED BY <1>1, <1>l, <1>p, <2>1, <2>2 DEF TailIsLast
<1>10. EvenDecoded'
  BY <1>p, <1>t DEF EvenDecoded
<1> QED BY <1>6, <1>7, <1>8, <1>9, <1>10 DEF IInv

LEMMA EnqueueFullKeeps ==
  ASSUME IInv, EnqueueFull
  PROVE  IInv'
<1> DEFINE H == Range(Head(pending))  T == Samples(Tail(pending))
<1>t. TypeOK /\ EvenDecoded /\ PlacesInOrder /\ AllAccounted /\ TailIsLast
  BY DEF IInv
<1>p. /\ pending # <<>> /\ Lose("output full", H) /\ pending' = Tail(pending)
      /\ UNCHANGED <<frames, decoded, inputCh, outputCh, cache, loop, run, writing, ctxDone, connected, sent, late>>
  BY DEF EnqueueFull, readerVars, runVars
<1>1. /\ Tail(pending) \in Seq(Block) /\ Whole(Tail(pending))
      /\ Samples(pending) = H \cup T /\ Ordered(Tail(pending)) /\ Before(H, T)
      /\ Samples(pending) \in SUBSET Nat
  BY <1>p, <1>t, PendingHead, PlaceTypes
<1> HIDE DEF H, T
<1>2. lost' \in [Causes -> SUBSET Nat] /\ Lost' = Lost \cup H
  <2>1. H \in SUBSET Nat /\ "output full" \in Causes /\ lost \in [Causes -> SUBSET Nat]
    BY <1>1, <1>t DEF TypeOK, Causes
  <2> QED BY <1>p, <2>1, LoseSamples
<1>3. Samples(pending') = T /\ Waits' = Waits
  BY <1>p DEF T, Waits
<1>4. TypeOK'
  BY <1>1, <1>2, <1>p, <1>t DEF TypeOK, Whole, Block
<1>5. PlacesInOrder'
  <2>1. Apart(Samples(sent), Samples(outputCh), H \cup T, Range(cache), Samples(Waits))
    BY <1>1, <1>t, Zenon DEF PlacesInOrder
  <2>2. Apart(Samples(sent), Samples(outputCh), T, Range(cache), Samples(Waits))
    BY <2>1 DEF Apart, Before
  <2> QED BY <1>1, <1>3, <1>p, <1>t, <2>2, Zenon DEF PlacesInOrder
<1>6. AllAccounted'
  <2>1. (Samples(sent) \cup Samples(outputCh) \cup T \cup Range(cache) \cup Samples(Waits))
           \cap H = {}
    BY <1>1, <1>t, PlaceTypes DEF PlacesInOrder, Apart, Before
  <2>2. Held' = Samples(outputCh) \cup T \cup Range(cache) \cup Samples(Waits)
    BY <1>3, <1>p DEF Held
  <2>3. Held = Samples(outputCh) \cup (H \cup T) \cup Range(cache) \cup Samples(Waits)
    BY <1>1 DEF Held
  <2> QED BY <1>2, <1>p, <1>t, <2>1, <2>2, <2>3 DEF AllAccounted, Spoken
<1>7. TailIsLast'
  BY <1>1, <1>p, <1>t DEF TailIsLast
<1>8. EvenDecoded'
  BY <1>p, <1>t DEF EvenDecoded
<1> QED BY <1>4, <1>5, <1>6, <1>7, <1>8 DEF IInv

LEMMA EnqueueCancelledKeeps ==
  ASSUME IInv, EnqueueCancelled
  PROVE  IInv'
<1> DEFINE H == Samples(pending)
<1>t. TypeOK /\ EvenDecoded /\ PlacesInOrder /\ AllAccounted /\ TailIsLast
  BY DEF IInv
<1>p. /\ Lose("cancelled", H) /\ pending' = <<>> /\ loop # "done"
      /\ UNCHANGED <<frames, decoded, inputCh, outputCh, cache, loop, run, writing, ctxDone, connected, sent, late>>
  BY <1>t DEF EnqueueCancelled, readerVars, runVars, TailIsLast
<1>2. lost' \in [Causes -> SUBSET Nat] /\ Lost' = Lost \cup H
  <2>1. H \in SUBSET Nat /\ "cancelled" \in Causes /\ lost \in [Causes -> SUBSET Nat]
    BY <1>t, PlaceTypes DEF TypeOK, Causes
  <2> QED BY <1>p, <2>1, LoseSamples
<1>3. Samples(pending') = {} /\ Ordered(pending') /\ Whole(pending') /\ Waits' = Waits
  BY <1>p, NoChunks DEF Waits, Whole
<1>4. TypeOK'
  BY <1>2, <1>p, <1>t DEF TypeOK
<1>5. PlacesInOrder'
  <2>1. Apart(Samples(sent), Samples(outputCh), {}, Range(cache), Samples(Waits))
    BY <1>t DEF PlacesInOrder, Apart, Before
  <2> QED BY <1>3, <1>p, <1>t, <2>1, Zenon DEF PlacesInOrder
<1>6. AllAccounted'
  <2>1. (Samples(sent) \cup Samples(outputCh) \cup Range(cache) \cup Samples(Waits)) \cap H = {}
    BY <1>t, PlaceTypes DEF PlacesInOrder, Apart, Before
  <2>2. Held' = Samples(outputCh) \cup Range(cache) \cup Samples(Waits)
    BY <1>3, <1>p DEF Held
  <2>3. Held = Samples(outputCh) \cup H \cup Range(cache) \cup Samples(Waits)
    BY DEF Held
  <2> QED BY <1>2, <1>p, <1>t, <2>1, <2>2, <2>3 DEF AllAccounted, Spoken
<1>7. TailIsLast'
  BY <1>3, <1>p, <1>t DEF TailIsLast
<1>8. EvenDecoded'
  BY <1>p, <1>t DEF EvenDecoded
<1> QED BY <1>4, <1>5, <1>6, <1>7, <1>8 DEF IInv

LEMMA FlushTailKeeps ==
  ASSUME IInv, FlushTail
  PROVE  IInv'
<1> DEFINE H == Range(cache)  O == Samples(outputCh)
<1>t. TypeOK /\ EvenDecoded /\ PlacesInOrder /\ AllAccounted /\ TailIsLast
  BY DEF IInv
<1>p. /\ pending = <<>> /\ loop = "drain" /\ loop' = "done" /\ cache' = <<>>
      /\ UNCHANGED <<frames, decoded, inputCh, pending, run, writing, ctxDone, connected, sent, late>>
  BY DEF FlushTail, readerVars, runVars
<1>q. \/ cache = <<>> /\ UNCHANGED <<outputCh, lost>>
      \/ /\ cache # <<>> /\ Len(outputCh) < OutCap
         /\ outputCh' = Append(outputCh, cache) /\ UNCHANGED lost
      \/ cache # <<>> /\ Lose("cancelled", H) /\ UNCHANGED outputCh
  BY DEF FlushTail
<1>1. ChunkSize \in Nat \ {0}
  BY AudioAssumption DEF AudioAssumption
<1>2. /\ cache' \in Seq(Nat) /\ Len(cache') < ChunkSize /\ Range(cache') = {} /\ Increasing(cache')
  BY <1>1, <1>p DEF Range, Increasing
<1>3. Samples(pending) = {} /\ Samples(pending') = {} /\ Waits' = Waits
  BY <1>p, NoChunks DEF Waits
<1>4. /\ Ordered(sent) /\ Ordered(outputCh) /\ Ordered(pending) /\ Increasing(cache)
      /\ Ordered(Waits) /\ Apart(Samples(sent), O, {}, H, Samples(Waits))
  BY <1>3, <1>t, Zenon DEF PlacesInOrder
<1>5. Before(O, H) /\ cache \in Block /\ outputCh \in Seq(Block) /\ sent \in Seq(Block)
  BY <1>4, <1>t, PlaceTypes DEF Apart
<1>6. EvenDecoded'
  BY <1>p, <1>t DEF EvenDecoded
<1>7. Whole(pending') /\ Whole(sent) /\ Whole(outputCh)
  BY <1>p, <1>t DEF TailIsLast, Whole
<1>8. CASE /\ cache # <<>> /\ Len(outputCh) < OutCap
           /\ outputCh' = Append(outputCh, cache) /\ UNCHANGED lost
  <2>1. /\ outputCh' \in Seq(Block) /\ Samples(outputCh') = O \cup H
        /\ Ordered(outputCh')
    BY <1>4, <1>5, <1>8, AppendChunk
  <2>2. /\ Len(outputCh') = Len(outputCh) + 1 /\ Len(outputCh) \in Nat
        /\ \A i \in 1 .. Len(outputCh) : outputCh'[i] = outputCh[i]
        /\ outputCh'[Len(outputCh) + 1] = cache
        /\ DOMAIN outputCh = 1 .. Len(outputCh) /\ DOMAIN outputCh' = 1 .. Len(outputCh) + 1
    BY <1>5, <1>8, <2>1, AppendProperties, LenProperties
  <2>3. Len(cache) \in 1 .. ChunkSize
    BY <1>1, <1>5, <1>8, <1>t, EmptySeq DEF TypeOK, Block
  <2>4. TypeOK'
    <3>1. \A i \in DOMAIN outputCh' : Len(outputCh'[i]) \in 1 .. ChunkSize
      <4> SUFFICES ASSUME NEW i \in 1 .. Len(outputCh) + 1
                   PROVE  Len(outputCh'[i]) \in 1 .. ChunkSize
        BY <2>2
      <4>1. CASE i = Len(outputCh) + 1
        BY <2>2, <2>3, <4>1
      <4>2. CASE i \in 1 .. Len(outputCh)
        BY <1>t, <2>2, <4>2 DEF TypeOK
      <4> QED BY <2>2, <4>1, <4>2
    <3>2. Len(outputCh') <= OutCap
      BY <1>8, <2>2, AudioAssumption DEF AudioAssumption
    <3>3. outputCh' \in Seq(Seq(Nat)) /\ lost' = lost
      BY <1>8, <2>1 DEF Block
    <3> QED BY <1>2, <1>p, <1>t, <3>1, <3>2, <3>3 DEF TypeOK
  <2>5. PlacesInOrder'
    <3>1. Apart(Samples(sent), O \cup H, {}, {}, Samples(Waits))
      BY <1>4, ApartTail
    <3> QED BY <1>2, <1>3, <1>4, <1>p, <2>1, <3>1, Zenon DEF PlacesInOrder
  <2>6. AllAccounted'
    <3>1. Held' = Held /\ Lost' = Lost /\ Spoken' = Spoken
      BY <1>2, <1>3, <1>8, <1>p, <2>1 DEF Held, Lost, Spoken
    <3> QED BY <1>p, <1>t, <3>1 DEF AllAccounted
  <2>7. TailIsLast'
    <3>1. WholeButLast(outputCh')
      BY <1>7, <2>2 DEF Whole, WholeButLast
    <3> QED BY <1>5, <1>7, <1>p, <2>1, <3>1, WholeLines DEF TailIsLast
  <2> QED BY <1>6, <2>4, <2>5, <2>6, <2>7 DEF IInv
<1>9. ASSUME UNCHANGED outputCh,
             lost' \in [Causes -> SUBSET Nat] /\ Lost' = Lost \cup H
      PROVE  IInv'
  <2>1. TypeOK'
    BY <1>2, <1>9, <1>p, <1>t DEF TypeOK
  <2>2. PlacesInOrder'
    <3>1. Apart(Samples(sent), O, {}, {}, Samples(Waits))
      BY <1>4 DEF Apart, Before
    <3> QED BY <1>2, <1>3, <1>4, <1>9, <1>p, <3>1, Zenon DEF PlacesInOrder
  <2>3. AllAccounted'
    <3>1. (Samples(sent) \cup O \cup Samples(Waits)) \cap H = {}
      BY <1>4, <1>t, PlaceTypes DEF Apart, Before
    <3>2. Held' = O \cup Samples(Waits)
      BY <1>2, <1>3, <1>9, <1>p DEF Held
    <3>3. Held = O \cup H \cup Samples(Waits)
      BY <1>3 DEF Held
    <3> QED BY <1>9, <1>p, <1>t, <3>1, <3>2, <3>3 DEF AllAccounted, Spoken
  <2>4. TailIsLast'
    BY <1>7, <1>9, <1>p, <1>t DEF TailIsLast
  <2> QED BY <1>6, <2>1, <2>2, <2>3, <2>4 DEF IInv
<1>10. CASE cache = <<>> /\ UNCHANGED <<outputCh, lost>>
  <2>1. H = {} /\ Lost' = Lost /\ lost' = lost /\ lost \in [Causes -> SUBSET Nat]
    BY <1>10, <1>t DEF Range, Lost, TypeOK
  <2> QED BY <1>9, <1>10, <2>1
<1>11. CASE cache # <<>> /\ Lose("cancelled", H) /\ UNCHANGED outputCh
  <2>1. H \in SUBSET Nat /\ "cancelled" \in Causes /\ lost \in [Causes -> SUBSET Nat]
    BY <1>t, PlaceTypes DEF TypeOK, Causes
  <2>2. lost' \in [Causes -> SUBSET Nat] /\ Lost' = Lost \cup H
    BY <1>11, <2>1, LoseSamples
  <2> QED BY <1>9, <1>11, <2>2
<1> QED BY <1>q, <1>8, <1>10, <1>11

\* The first chunk of audioOutCh leaves it.
LEMMA OutputHead ==
  ASSUME TypeOK, PlacesInOrder, TailIsLast, outputCh # <<>>
  PROVE  /\ Head(outputCh) \in Block /\ Tail(outputCh) \in Seq(Block)
         /\ Len(Head(outputCh)) \in 1 .. ChunkSize
         /\ Len(Tail(outputCh)) <= OutCap
         /\ \A i \in DOMAIN Tail(outputCh) : Len(Tail(outputCh)[i]) \in 1 .. ChunkSize
         /\ Samples(outputCh) = Range(Head(outputCh)) \cup Samples(Tail(outputCh))
         /\ Increasing(Head(outputCh)) /\ Ordered(Tail(outputCh))
         /\ Before(Range(Head(outputCh)), Samples(Tail(outputCh)))
         /\ Whole(outputCh) => Len(Head(outputCh)) = ChunkSize /\ Whole(Tail(outputCh))
<1>1. outputCh \in Seq(Block)
  BY PlaceTypes
<1>2. /\ Len(Tail(outputCh)) = Len(outputCh) - 1 /\ Tail(outputCh) \in Seq(Block)
      /\ \A i \in 1 .. Len(Tail(outputCh)) : Tail(outputCh)[i] = outputCh[i + 1]
      /\ Head(outputCh) = outputCh[1]
      /\ DOMAIN outputCh = 1 .. Len(outputCh) /\ Len(outputCh) \in Nat \ {0}
      /\ DOMAIN Tail(outputCh) = 1 .. Len(outputCh) - 1
  BY <1>1, HeadTailProperties, LenProperties, EmptySeq
<1>3. \A i \in 1 .. Len(outputCh) - 1 :
        i + 1 \in DOMAIN outputCh /\ Tail(outputCh)[i] = outputCh[i + 1]
  BY <1>2
<1>4. \A i \in DOMAIN Tail(outputCh) : Len(Tail(outputCh)[i]) \in 1 .. ChunkSize
  BY <1>2, <1>3 DEF TypeOK
<1>5. Len(Head(outputCh)) \in 1 .. ChunkSize /\ Len(Tail(outputCh)) <= OutCap
  <2>1. 1 \in DOMAIN outputCh /\ Len(Head(outputCh)) = Len(outputCh[1])
    BY <1>2
  <2>2. Len(outputCh) <= OutCap /\ OutCap \in Nat
    BY AudioAssumption DEF TypeOK, AudioAssumption
  <2>3. Len(outputCh[1]) \in 1 .. ChunkSize
    BY <2>1 DEF TypeOK
  <2> QED BY <1>2, <2>1, <2>2, <2>3
<1>6. ASSUME Whole(outputCh)
      PROVE  Len(Head(outputCh)) = ChunkSize /\ Whole(Tail(outputCh))
  BY <1>2, <1>3, <1>6 DEF Whole
<1> QED BY <1>1, <1>4, <1>5, <1>6, TakeChunk DEF PlacesInOrder

\* What is sent and queued stays whole but for the last chunk when the first of
\* the queue is sent, and when it is dropped.
LEMMA WholeAfterTake ==
  ASSUME NEW p \in Seq(Block), NEW q \in Seq(Block), q # <<>>, WholeButLast(p \o q)
  PROVE  /\ WholeButLast(Append(p, Head(q)) \o Tail(q))
         /\ WholeButLast(p \o Tail(q))
<1>1. /\ Head(q) \in Block /\ Tail(q) \in Seq(Block) /\ Len(Tail(q)) = Len(q) - 1
      /\ \A i \in 1 .. Len(Tail(q)) : Tail(q)[i] = q[i + 1]
      /\ Len(p) \in Nat /\ Len(q) \in Nat \ {0}
  BY HeadTailProperties, LenProperties, EmptySeq
<1>2. Append(p, Head(q)) \o Tail(q) = p \o q
  <2>1. Append(p, Head(q)) = p \o <<Head(q)>> /\ q = <<Head(q)>> \o Tail(q)
        /\ <<Head(q)>> \in Seq(Block)
    BY <1>1, AppendIsConcat
  <2>2. (p \o <<Head(q)>>) \o Tail(q) = p \o (<<Head(q)>> \o Tail(q))
    BY <1>1, <2>1, ConcatAssociative
  <2> QED BY <2>1, <2>2
<1>3. /\ Len(p \o q) = Len(p) + Len(q)
      /\ \A i \in 1 .. Len(p) + Len(q) :
           (p \o q)[i] = IF i <= Len(p) THEN p[i] ELSE q[i - Len(p)]
  BY ConcatProperties
<1>4. /\ Len(p \o Tail(q)) = Len(p) + Len(q) - 1
      /\ \A i \in 1 .. Len(p) + Len(q) - 1 :
           (p \o Tail(q))[i] = IF i <= Len(p) THEN p[i] ELSE Tail(q)[i - Len(p)]
  BY <1>1, ConcatProperties
<1>5. WholeButLast(p \o Tail(q))
  <2> SUFFICES ASSUME NEW i \in 1 .. Len(p) + Len(q) - 2
               PROVE  Len((p \o Tail(q))[i]) = ChunkSize
    BY <1>1, <1>4 DEF WholeButLast
  <2>1. CASE i <= Len(p)
    <3>1. (p \o Tail(q))[i] = (p \o q)[i] /\ i \in 1 .. Len(p \o q) - 1
      BY <1>1, <1>3, <1>4, <2>1
    <3> QED BY <3>1 DEF WholeButLast
  <2>2. CASE i > Len(p)
    <3> DEFINE k == i - Len(p)
    <3>1. k \in 1 .. Len(Tail(q)) /\ (p \o Tail(q))[i] = Tail(q)[k] /\ Tail(q)[k] = q[k + 1]
      BY <1>1, <1>4, <2>2
    <3>2. i + 1 \in 1 .. Len(p \o q) - 1 /\ (i + 1) - Len(p) = k + 1 /\ ~(i + 1 <= Len(p))
          /\ i + 1 \in 1 .. Len(p) + Len(q)
      BY <1>1, <1>3, <2>2
    <3> HIDE DEF k
    <3>3. (p \o q)[i + 1] = q[k + 1]
      BY <1>3, <3>2
    <3> QED BY <3>1, <3>2, <3>3 DEF WholeButLast
  <2> QED BY <1>1, <2>1, <2>2
<1> QED BY <1>2, <1>5

LEMMA SendAudioChunkKeeps ==
  ASSUME IInv, SendAudioChunk
  PROVE  IInv'
<1> DEFINE x == Head(outputCh)  H == Range(x)  T == Samples(Tail(outputCh))
           A == Samples(sent)  U == Samples(pending) \cup Range(cache) \cup Samples(Waits)
<1>t. TypeOK /\ EvenDecoded /\ PlacesInOrder /\ AllAccounted /\ TailIsLast
  BY DEF IInv
<1>p. /\ outputCh # <<>> /\ outputCh' = Tail(outputCh)
      /\ UNCHANGED <<frames, decoded, inputCh, cache, pending, loop, run, ctxDone, connected, late>>
      /\ writing' = connected
  BY DEF SendAudioChunk, readerVars
<1>q. \/ sent' = Append(sent, x) /\ UNCHANGED lost
      \/ Lose("offline", H) /\ UNCHANGED sent
  BY DEF SendAudioChunk
<1>1. /\ x \in Block /\ Tail(outputCh) \in Seq(Block)
      /\ Len(Tail(outputCh)) <= OutCap
      /\ \A i \in DOMAIN Tail(outputCh) : Len(Tail(outputCh)[i]) \in 1 .. ChunkSize
      /\ Samples(outputCh) = H \cup T
      /\ Increasing(x) /\ Ordered(Tail(outputCh)) /\ Before(H, T)
      /\ Whole(outputCh) => Len(x) = ChunkSize /\ Whole(Tail(outputCh))
  BY <1>p, <1>t, OutputHead
<1>2. sent \in Seq(Block) /\ outputCh \in Seq(Block) /\ H \in SUBSET Nat
  BY <1>1, <1>t, PlaceTypes
<1>3. /\ WholeButLast(Append(sent, x) \o Tail(outputCh))
      /\ WholeButLast(sent \o Tail(outputCh))
  BY <1>2, <1>p, <1>t, WholeAfterTake DEF TailIsLast
<1>4. EvenDecoded'
  BY <1>p, <1>t DEF EvenDecoded
<1> HIDE DEF x, H, T, A, U
<1>5. Apart(A, H \cup T, Samples(pending), Range(cache), Samples(Waits))
  BY <1>1, <1>t, Zenon DEF PlacesInOrder, A
<1>6. /\ Samples(outputCh') = T /\ Waits' = Waits /\ Held = H \cup T \cup U /\ Held' = T \cup U
      /\ Spoken' = Spoken
  BY <1>1, <1>p DEF T, Waits, Held, U, Spoken
<1>7. CASE sent' = Append(sent, x) /\ UNCHANGED lost
  <2>1. sent' \in Seq(Block) /\ Samples(sent') = A \cup H
    BY <1>1, <1>2, <1>7, AppendChunk DEF A, H
  <2>2. Ordered(sent')
    <3>1. Before(A, H)
      BY <1>5 DEF Apart, Before
    <3>2. Ordered(sent)
      BY <1>t DEF PlacesInOrder
    <3> QED BY <1>1, <1>2, <1>7, <3>1, <3>2, AppendChunk DEF A, H
  <2>3. TypeOK'
    <3>1. outputCh' \in Seq(Seq(Nat)) /\ sent' \in Seq(Seq(Nat))
      BY <1>1, <1>p, <2>1 DEF Block
    <3> QED BY <1>1, <1>7, <1>p, <1>t, <3>1 DEF TypeOK
  <2>4. PlacesInOrder'
    <3>1. Apart(A \cup H, T, Samples(pending), Range(cache), Samples(Waits))
      BY <1>1, <1>5, ApartFirst
    <3> QED BY <1>1, <1>6, <1>p, <1>t, <2>1, <2>2, <3>1, Zenon DEF PlacesInOrder
  <2>5. AllAccounted'
    <3>1. Lost' = Lost
      BY <1>7 DEF Lost
    <3> QED BY <1>6, <1>t, <2>1, <3>1 DEF AllAccounted, A
  <2>6. TailIsLast'
    <3>1. ASSUME Whole(sent), Whole(outputCh) PROVE Whole(sent')
      <4>1. /\ Len(sent') = Len(sent) + 1 /\ Len(sent) \in Nat
            /\ \A i \in 1 .. Len(sent) : sent'[i] = sent[i]
            /\ sent'[Len(sent) + 1] = x
            /\ DOMAIN sent = 1 .. Len(sent) /\ DOMAIN sent' = 1 .. Len(sent) + 1
        BY <1>1, <1>2, <1>7, <2>1, AppendProperties, LenProperties
      <4> SUFFICES ASSUME NEW i \in 1 .. Len(sent) + 1 PROVE Len(sent'[i]) = ChunkSize
        BY <4>1 DEF Whole
      <4>2. CASE i = Len(sent) + 1
        BY <1>1, <3>1, <4>1, <4>2
      <4>3. CASE i \in 1 .. Len(sent)
        BY <3>1, <4>1, <4>3 DEF Whole
      <4> QED BY <4>1, <4>2, <4>3
    <3> QED BY <1>1, <1>3, <1>7, <1>p, <1>t, <3>1 DEF TailIsLast
  <2> QED BY <1>4, <2>3, <2>4, <2>5, <2>6 DEF IInv
<1>8. CASE Lose("offline", H) /\ UNCHANGED sent
  <2>1. lost' \in [Causes -> SUBSET Nat] /\ Lost' = Lost \cup H
    <3>1. "offline" \in Causes /\ lost \in [Causes -> SUBSET Nat]
      BY <1>t DEF TypeOK, Causes
    <3> QED BY <1>2, <1>8, <3>1, LoseSamples
  <2>2. TypeOK'
    <3>1. outputCh' \in Seq(Seq(Nat))
      BY <1>1, <1>p DEF Block
    <3> QED BY <1>1, <1>8, <1>p, <1>t, <2>1, <3>1 DEF TypeOK
  <2>3. PlacesInOrder'
    <3>1. Apart(A, T, Samples(pending), Range(cache), Samples(Waits))
      BY <1>5 DEF Apart, Before
    <3> QED BY <1>1, <1>6, <1>8, <1>p, <1>t, <3>1, Zenon DEF PlacesInOrder, A
  <2>4. AllAccounted'
    <3>1. (A \cup T \cup U) \cap H = {}
      BY <1>1, <1>2, <1>5, <1>t, PlaceTypes DEF Apart, Before, A, U
    <3> QED BY <1>6, <1>8, <1>t, <2>1, <3>1 DEF AllAccounted, A
  <2>5. TailIsLast'
    BY <1>1, <1>3, <1>8, <1>p, <1>t DEF TailIsLast
  <2> QED BY <1>4, <2>2, <2>3, <2>4, <2>5 DEF IInv
<1> QED BY <1>q, <1>7, <1>8

\* The steps that move no audio.
LEMMA ControlKeeps ==
  ASSUME IInv,
         \/ LoopCancelled \/ RunBusy \/ RunReturns \/ RunCancelled
         \/ AwaitAudio \/ DrainEnds \/ WriteReturns \/ Cancel \/ ConnectionChanges
         \/ UNCHANGED vars
  PROVE  IInv'
<1>t. TypeOK /\ EvenDecoded /\ PlacesInOrder /\ AllAccounted /\ TailIsLast
  BY DEF IInv
<1>1. /\ UNCHANGED <<frames, decoded, inputCh, outputCh, cache, pending, sent, lost>>
      /\ loop' \in {loop, "drain"} /\ (loop' # loop => loop # "done")
      /\ run' \in {run, "select", "busy", "await", "final", "ended"}
      /\ ctxDone' \in {ctxDone, TRUE} /\ connected' \in {connected, ~connected}
      /\ writing' \in {writing, FALSE}
      /\ late' \in {late} \cup BOOLEAN
  BY <1>t DEF LoopCancelled, RunBusy, RunReturns, RunCancelled, AwaitAudio, DrainEnds, RunMoves,
     WriteReturns, Cancel, ConnectionChanges, vars, readerVars, runVars, TypeOK
<1>b. /\ writing' \in BOOLEAN /\ ctxDone' \in BOOLEAN
      /\ connected' \in BOOLEAN /\ late' \in BOOLEAN
  BY <1>1, <1>t DEF TypeOK
<1>2. TypeOK'
  <2>1. loop' \in {"select", "drain", "done"} /\ run' \in {"select", "busy", "await", "final", "ended"}
    BY <1>1, <1>t DEF TypeOK
  <2> QED BY <1>1, <1>b, <1>t, <2>1, Zenon DEF TypeOK
<1>3. PlacesInOrder' /\ AllAccounted' /\ EvenDecoded'
  BY <1>1, <1>t, PlacesStay, AccountsStay DEF EvenDecoded
<1>4. TailIsLast'
  BY <1>1, <1>t DEF TailIsLast
<1> QED BY <1>2, <1>3, <1>4 DEF IInv

LEMMA Initially == Init => IInv
<1> SUFFICES ASSUME Init PROVE IInv
  OBVIOUS
<1>i. /\ frames = 0 /\ decoded = 0 /\ inputCh = <<>> /\ outputCh = <<>> /\ cache = <<>>
      /\ pending = <<>> /\ loop = "select" /\ run = "select" /\ writing = FALSE /\ ctxDone = FALSE
      /\ connected = FALSE /\ sent = <<>> /\ lost = [c \in Causes |-> {}] /\ late = FALSE
  BY DEF Init
<1>1. TypeOK
  <2>1. ChunkSize \in Nat \ {0} /\ InCap \in Nat /\ OutCap \in Nat /\ MaxFrames \in Nat
    BY AudioAssumption DEF AudioAssumption
  <2>2. lost \in [Causes -> SUBSET Nat]
    BY <1>i
  <2>3. <<>> \in Seq(Seq(Nat)) /\ <<>> \in Seq(Nat) /\ Len(<<>>) = 0 /\ DOMAIN <<>> = {}
    OBVIOUS
  <2>4. frames \in 0 .. MaxFrames /\ decoded \in Nat
    BY <1>i, <2>1
  <2>5. /\ inputCh \in Seq(Seq(Nat)) /\ Len(inputCh) <= InCap /\ DOMAIN inputCh = {}
        /\ outputCh \in Seq(Seq(Nat)) /\ Len(outputCh) <= OutCap /\ DOMAIN outputCh = {}
        /\ cache \in Seq(Nat) /\ Len(cache) < ChunkSize
        /\ pending \in Seq(Seq(Nat)) /\ DOMAIN pending = {} /\ sent \in Seq(Seq(Nat))
    BY <1>i, <2>1, <2>3
  <2> QED BY <1>i, <2>2, <2>4, <2>5, Zenon DEF TypeOK
<1>2. Waits = <<>> /\ Samples(Waits) = {} /\ Ordered(Waits) /\ Range(cache) = {}
  <2>1. Waits = <<>>
    BY <1>i DEF Waits, Resampled
  <2> QED BY <1>i, <2>1, NoChunks DEF Range
<1>3. PlacesInOrder
  BY <1>2, <1>i, NoChunks DEF PlacesInOrder, Increasing, Apart, Before
<1>4. AllAccounted
  <2>1. Lost = {} /\ Spoken = {}
    BY <1>i DEF Lost, Spoken
  <2> QED BY <1>2, <1>i, <2>1, NoChunks DEF AllAccounted, Held
<1>5. EvenDecoded
  <2>1. decoded = 2 * 0
    BY <1>i
  <2> QED BY <2>1 DEF EvenDecoded
<1>6. TailIsLast
  <2>1. WholeButLast(sent \o outputCh)
    BY <1>i DEF WholeButLast
  <2> QED BY <1>i, <2>1 DEF TailIsLast, Whole
<1> QED BY <1>1, <1>3, <1>4, <1>5, <1>6 DEF IInv

\* The inductive invariant: what is in each of the five places is in order, all
\* of it before what follows; everything is accounted for; and only the tail, cut
\* last, is short.
THEOREM Invariance == Spec => []IInv
<1>1. IInv /\ [Next]_vars => IInv'
  <2> SUFFICES ASSUME IInv, [Next]_vars PROVE IInv'
    OBVIOUS
  <2>1. CASE \E n \in FrameSizes : DecodeFrame(n)
    BY <2>1, DecodeFrameKeeps
  <2>2. CASE ProcessInputFrame \/ EnqueueChunk \/ EnqueueFull \/ EnqueueCancelled \/ FlushTail
    BY <2>2, ProcessInputFrameKeeps, EnqueueChunkKeeps, EnqueueFullKeeps,
       EnqueueCancelledKeeps, FlushTailKeeps
  <2>3. CASE SendAudioChunk
    BY <2>3, SendAudioChunkKeeps
  <2>4. CASE \/ LoopCancelled \/ RunBusy \/ RunReturns \/ RunCancelled
             \/ AwaitAudio \/ DrainEnds \/ WriteReturns \/ Cancel \/ ConnectionChanges
             \/ UNCHANGED vars
    BY <2>4, ControlKeeps
  <2> QED BY <2>1, <2>2, <2>3, <2>4 DEF Next, AudioLoop, RunLoop
<1> QED BY <1>1, Initially, PTL DEF Spec

\* Type correctness: the two queues stay within their capacities, the buffer is
\* shorter than a chunk and every pending chunk is a whole one.
THEOREM TypeCorrect == Spec => []TypeOK
<1>1. IInv => TypeOK
  BY DEF IInv
<1> QED BY <1>1, Invariance, PTL

\* The STT service gets the audio in the order it was spoken, and nothing twice,
\* whatever the queues, the chunk buffer, the drain and the connection do.
THEOREM StreamInOrder == Spec => []InOrder
<1>1. IInv => InOrder
  BY LinePlaces DEF IInv
<1> QED BY <1>1, Invariance, PTL

\* No sample that survives the resampling vanishes: it is on its way, sent, or
\* given up for a reason the code has, and only one of these.
THEOREM EverySampleAccounted == Spec => []Accounted
<1>1. IInv => Accounted
  BY LinePlaces DEF IInv
<1> QED BY <1>1, Invariance, PTL

\* Only the last chunk a speaker sends may be short.
THEOREM ChunksWhole == Spec => []OnlyLastChunkShort
<1>1. ASSUME IInv PROVE OnlyLastChunkShort
  <2>1. sent \in Seq(Block) /\ outputCh \in Seq(Block) /\ WholeButLast(sent \o outputCh)
    BY <1>1, PlaceTypes DEF IInv, TailIsLast
  <2>2. /\ Len(sent) \in Nat /\ Len(outputCh) \in Nat
        /\ Len(sent \o outputCh) = Len(sent) + Len(outputCh)
        /\ \A i \in 1 .. Len(sent) + Len(outputCh) :
             (sent \o outputCh)[i] =
               IF i <= Len(sent) THEN sent[i] ELSE outputCh[i - Len(sent)]
    BY <2>1, ConcatProperties, LenProperties
  <2>3. ASSUME NEW i \in 1 .. Len(sent) - 1 PROVE Len(sent[i]) = ChunkSize
    <3>1. i \in 1 .. Len(sent \o outputCh) - 1 /\ (sent \o outputCh)[i] = sent[i]
      BY <2>2
    <3> QED BY <2>1, <3>1 DEF WholeButLast
  <2> QED BY <2>3 DEF OnlyLastChunkShort
<1> QED BY <1>1, Invariance, PTL

-----------------------------------------------------------------------------
(* The audio path implements an AudioStream.                                *)

Delivered == [i \in DOMAIN sent |-> Range(sent[i])]

\* What waits in the stream is what the path still holds.
LEMMA WaitingIsHeld ==
  ASSUME IInv
  PROVE  Speech!Waiting = Held
<1>1. /\ Samples(sent) \cup Held \cup Lost = Spoken
      /\ (Samples(sent) \cup Held) \cap Lost = {}
  BY DEF IInv, AllAccounted
<1>2. Samples(sent) \cap Held = {}
  <2>1. TypeOK /\ PlacesInOrder
    BY DEF IInv
  <2> QED BY <2>1, PlaceTypes DEF PlacesInOrder, Apart, Before, Held
<1>3. \A n : (\A i \in DOMAIN Delivered : n \notin Delivered[i]) <=> n \notin Samples(sent)
  BY DEF Delivered, Samples
<1>4. Speech!Waiting =
        {n \in Spoken \ Lost : \A i \in DOMAIN Delivered : n \notin Delivered[i]}
  BY DEF Speech!Waiting, Delivered
<1>5. Speech!Waiting = {n \in Spoken \ Lost : n \notin Samples(sent)}
  BY <1>3, <1>4
<1> QED BY <1>1, <1>2, <1>5

LEMMA StreamStutters ==
  ASSUME UNCHANGED <<decoded, sent, lost>>, (run' = "ended") = (run = "ended")
  PROVE  UNCHANGED Speech!vars
BY DEF Speech!vars, Spoken, Lost

LEMMA StreamGivesUp ==
  ASSUME IInv, UNCHANGED <<decoded, sent, run>>, NEW X \in SUBSET Held, Lost' = Lost \cup X
  PROVE  Speech!GiveUp
<1>1. Speech!Waiting = Held
  BY WaitingIsHeld
<1>2. Spoken' = Spoken /\ Lost \subseteq Lost' /\ Lost' \subseteq Lost \cup Held
  BY DEF Spoken
<1> QED BY <1>1, <1>2 DEF Speech!GiveUp

\* A frame is spoken; if the queue is full it is refused at once.
LEMMA DecodeSpeaks ==
  ASSUME IInv, NEW n \in FrameSizes, DecodeFrame(n)
  PROVE  Speech!Speak
<1> DEFINE N == Range(Resample(Frame(n)))
<1>1. /\ decoded' = decoded + n /\ UNCHANGED <<sent, run>>
      /\ UNCHANGED lost \/ Lose("input full", N)
  BY DEF DecodeFrame, runVars
<1>2. n \in Nat \ {0} /\ N = {x \in decoded + 1 .. decoded + n : x % 2 = 1} /\ decoded \in Nat
  BY ResampledFrame DEF IInv, EvenDecoded, TypeOK
<1> HIDE DEF N
<1>3. /\ Spoken' = Spoken \cup N /\ Spoken' \ Spoken = N /\ N \in SUBSET Nat
      /\ \A x \in Spoken, y \in N : x < y
  <2>1. Spoken' = Spoken \cup N /\ N \in SUBSET Nat
    <3>1. decoded' = decoded + n /\ n \in Nat /\ decoded \in Nat
      BY <1>1, <1>2
    <3> QED BY <1>2, <3>1 DEF Spoken
  <2>2. \A x \in Spoken, y \in N : x < y
    BY <1>2 DEF Spoken
  <2>3. Spoken \cap N = {}
    BY <1>2 DEF Spoken
  <2> QED BY <2>1, <2>2, <2>3
<1>4. Lost' = Lost \/ Lost' = Lost \cup N
  <2>1. lost \in [Causes -> SUBSET Nat] /\ "input full" \in Causes
    BY DEF IInv, TypeOK, Causes
  <2>2. CASE Lose("input full", N)
    BY <1>3, <2>1, <2>2, LoseSamples
  <2>3. CASE UNCHANGED lost
    BY <2>3 DEF Lost
  <2> QED BY <1>1, <2>2, <2>3
<1> QED BY <1>1, <1>3, <1>4 DEF Speech!Speak

\* The chunk that is sent is all that waits, up to its last sample.
LEMMA SendDelivers ==
  ASSUME IInv, SendAudioChunk, connected
  PROVE  Speech!Deliver
<1> DEFINE x == Head(outputCh)  H == Range(x)
           U == Samples(Tail(outputCh)) \cup Samples(pending) \cup Range(cache) \cup Samples(Waits)
<1>t. TypeOK /\ PlacesInOrder /\ TailIsLast
  BY DEF IInv
<1>1. /\ outputCh # <<>> /\ sent' = Append(sent, x) /\ run \in {"select", "final"}
      /\ UNCHANGED <<decoded, run, lost>>
  BY DEF SendAudioChunk, readerVars
<1>2. /\ x \in Block /\ Len(x) \in 1 .. ChunkSize /\ Increasing(x)
      /\ Samples(outputCh) = H \cup Samples(Tail(outputCh))
      /\ Before(H, Samples(Tail(outputCh)))
  BY <1>1, <1>t, OutputHead
<1>3. Held = H \cup U /\ Before(H, U) /\ U \in SUBSET Nat
  BY <1>2, <1>t, PlaceTypes DEF Held, PlacesInOrder, Apart, Before
<1> DEFINE last == x[Len(x)]
<1>4. /\ DOMAIN x = 1 .. Len(x) /\ Len(x) \in 1 .. Len(x) /\ H \in SUBSET Nat
  BY <1>2, LenProperties, RangeOfSeq DEF Block
<1>5. last \in H /\ last \in Nat /\ \A n \in H : n <= last
  <2>1. last \in H /\ last \in Nat
    BY <1>4 DEF Range
  <2>2. ASSUME NEW i \in 1 .. Len(x) PROVE x[i] <= last
    <3>1. CASE i = Len(x)
      BY <2>1, <3>1
    <3>2. CASE i < Len(x)
      <4>1. x[i] < last
        BY <1>2, <1>4, <3>2 DEF Increasing
      <4>2. x[i] \in Nat
        BY <1>4 DEF Range
      <4> QED BY <2>1, <4>1, <4>2
    <3> QED BY <1>2, <3>1, <3>2
  <2> QED BY <1>4, <2>1, <2>2 DEF Range
<1> HIDE DEF x, H, U, last
<1>6. H = {n \in Held : n <= last} /\ last \in Held
  <2>1. \A n \in U : ~(n <= last)
    BY <1>3, <1>5 DEF Before
  <2> QED BY <1>3, <1>5, <2>1
<1>7. Delivered' = Append(Delivered, H)
  <2>1. sent \in Seq(Block)
    BY <1>t, PlaceTypes
  <2>2. /\ Len(sent) \in Nat /\ DOMAIN sent = 1 .. Len(sent)
        /\ DOMAIN sent' = 1 .. Len(sent) + 1
        /\ \A i \in 1 .. Len(sent) : sent'[i] = sent[i]
        /\ sent'[Len(sent) + 1] = x
    BY <1>1, <1>2, <2>1, AppendProperties, LenProperties
  <2> DEFINE v == Append(Delivered, H)
  <2>3. Delivered \in Seq(SUBSET Nat) /\ Len(Delivered) = Len(sent)
    <3>1. \A i \in 1 .. Len(sent) : Range(sent[i]) \in SUBSET Nat
      BY <2>1, ElementOfSeq, RangeOfSeq DEF Block
    <3>2. Delivered = [i \in 1 .. Len(sent) |-> Range(sent[i])]
      BY <2>2, Zenon DEF Delivered
    <3> QED BY <2>2, <3>1, <3>2
  <2>4. /\ v \in Seq(SUBSET Nat) /\ Len(v) = Len(sent) + 1
        /\ \A i \in 1 .. Len(sent) : v[i] = Range(sent[i])
        /\ v[Len(sent) + 1] = H
    BY <1>4, <2>2, <2>3, AppendProperties DEF Delivered
  <2>5. Delivered' = [i \in 1 .. Len(sent) + 1 |-> Range(sent'[i])]
    BY <2>2, Zenon DEF Delivered
  <2> HIDE DEF v
  <2>6. \A i \in 1 .. Len(sent) + 1 : Range(sent'[i]) = v[i]
    <3> TAKE i \in 1 .. Len(sent) + 1
    <3>1. CASE i = Len(sent) + 1
      BY <2>2, <2>4, <3>1 DEF H
    <3>2. CASE i \in 1 .. Len(sent)
      BY <2>2, <2>4, <3>2
    <3> QED BY <2>2, <3>1, <3>2
  <2>7. v = [i \in 1 .. Len(sent) + 1 |-> v[i]]
    BY <2>2, <2>4
  <2>8. Delivered' = v
    BY <2>5, <2>6, <2>7
  <2> QED BY <2>8 DEF v
<1>8. Speech!Waiting = Held
  BY WaitingIsHeld
<1>9. run # "ended" /\ UNCHANGED <<Spoken, Lost, run>>
  BY <1>1 DEF Spoken, Lost
<1> QED BY <1>6, <1>7, <1>8, <1>9 DEF Speech!Deliver, Delivered

\* A step of the audio path is a step of the stream, or none.
LEMMA StreamStep ==
  ASSUME IInv, [Next]_vars
  PROVE  [Speech!Next]_(Speech!vars)
<1>t. /\ lost \in [Causes -> SUBSET Nat] /\ TypeOK
      /\ "output full" \in Causes /\ "cancelled" \in Causes /\ "offline" \in Causes
  BY DEF IInv, TypeOK, Causes
<1>s. /\ Samples(outputCh) \in SUBSET Nat /\ Samples(pending) \in SUBSET Nat
      /\ Range(cache) \in SUBSET Nat
  BY <1>t, PlaceTypes
<1>1. CASE \E n \in FrameSizes : DecodeFrame(n)
  BY <1>1, DecodeSpeaks DEF Speech!Next
<1>2. CASE ProcessInputFrame \/ EnqueueChunk
  <2>1. UNCHANGED <<decoded, sent, lost, run>>
    BY <1>2 DEF ProcessInputFrame, EnqueueChunk, readerVars, runVars
  <2> QED BY <2>1, StreamStutters
<1>3. CASE EnqueueFull
  <2>1. UNCHANGED <<decoded, sent, run>> /\ Lose("output full", Range(Head(pending)))
        /\ pending # <<>>
    BY <1>3 DEF EnqueueFull, readerVars, runVars
  <2>2. Range(Head(pending)) \subseteq Samples(pending)
    BY <1>t, <2>1, PlaceTypes, TakeChunk
  <2>3. Lost' = Lost \cup Range(Head(pending)) /\ Range(Head(pending)) \in SUBSET Held
    BY <1>s, <1>t, <2>1, <2>2, LoseSamples DEF Held
  <2> QED BY <2>1, <2>3, StreamGivesUp DEF Speech!Next
<1>4. CASE EnqueueCancelled
  <2>1. UNCHANGED <<decoded, sent, run>> /\ Lose("cancelled", Samples(pending))
    BY <1>4 DEF EnqueueCancelled, readerVars, runVars
  <2>2. Lost' = Lost \cup Samples(pending) /\ Samples(pending) \in SUBSET Held
    BY <1>s, <1>t, <2>1, LoseSamples DEF Held
  <2> QED BY <2>1, <2>2, StreamGivesUp DEF Speech!Next
<1>5. CASE FlushTail
  <2>1. UNCHANGED <<decoded, sent, run>> /\ (UNCHANGED lost \/ Lose("cancelled", Range(cache)))
    BY <1>5 DEF FlushTail, readerVars, runVars
  <2>2. CASE UNCHANGED lost
    BY <2>1, <2>2, StreamStutters
  <2>3. CASE Lose("cancelled", Range(cache))
    <3>1. Lost' = Lost \cup Range(cache) /\ Range(cache) \in SUBSET Held
      BY <1>s, <1>t, <2>3, LoseSamples DEF Held
    <3> QED BY <2>1, <3>1, StreamGivesUp DEF Speech!Next
  <2> QED BY <2>1, <2>2, <2>3
<1>6. CASE SendAudioChunk /\ connected
  BY <1>6, SendDelivers DEF Speech!Next
<1>7. CASE SendAudioChunk /\ ~connected
  <2>1. UNCHANGED <<decoded, sent, run>> /\ Lose("offline", Range(Head(outputCh)))
        /\ outputCh # <<>>
    BY <1>7 DEF SendAudioChunk, readerVars
  <2>2. Range(Head(outputCh)) \subseteq Samples(outputCh)
    BY <1>t, <2>1, PlaceTypes, TakeChunk
  <2>3. Lost' = Lost \cup Range(Head(outputCh)) /\ Range(Head(outputCh)) \in SUBSET Held
    BY <1>s, <1>t, <2>1, <2>2, LoseSamples DEF Held
  <2> QED BY <2>1, <2>3, StreamGivesUp DEF Speech!Next
<1>8. CASE DrainEnds
  <2>1. UNCHANGED <<decoded, sent, lost>> /\ run = "final" /\ run' = "ended"
    BY <1>8 DEF DrainEnds, RunMoves, readerVars
  <2>2. run # "ended" /\ (run' = "ended") = TRUE /\ UNCHANGED <<Spoken, Lost, sent>>
    BY <2>1 DEF Spoken, Lost
  <2> QED BY <2>2 DEF Speech!Next, Speech!End
<1>9. CASE \/ LoopCancelled \/ RunBusy \/ RunReturns \/ RunCancelled \/ AwaitAudio
           \/ WriteReturns \/ Cancel \/ ConnectionChanges \/ UNCHANGED vars
  <2>1. UNCHANGED <<decoded, sent, lost>> /\ (run' = run \/ {run, run'} \cap {"ended"} = {})
    BY <1>9 DEF LoopCancelled, RunBusy, RunReturns, RunCancelled, AwaitAudio, RunMoves,
       WriteReturns, Cancel, ConnectionChanges, vars, readerVars, runVars
  <2>2. (run' = "ended") = (run = "ended")
    BY <2>1
  <2> QED BY <2>1, <2>2, StreamStutters
<1> QED BY <1>1, <1>2, <1>3, <1>4, <1>5, <1>6, <1>7, <1>8, <1>9 DEF Next, AudioLoop, RunLoop

LEMMA StreamStarts == Init => Speech!Init
<1> SUFFICES ASSUME Init PROVE Speech!Init
  OBVIOUS
<1>1. Spoken = {} /\ Lost = {} /\ run # "ended" /\ [i \in DOMAIN sent |-> Range(sent[i])] = <<>>
  BY DEF Init, Spoken, Lost
<1> QED BY <1>1 DEF Speech!Init

\* The audio path gives the STT service an AudioStream: at every step the earliest
\* of what still waits, never what was given up, and nothing after the end.
THEOREM ImplementsAudioStream == Spec => AudioStreamSpec
<1>1. IInv /\ [Next]_vars => [Speech!Next]_(Speech!vars)
  BY StreamStep
<1> QED BY <1>1, StreamStarts, Invariance, PTL DEF Spec, AudioStreamSpec, Speech!Spec

=============================================================================
