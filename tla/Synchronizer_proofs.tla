-------------------------- MODULE Synchronizer_proofs --------------------------
(***************************************************************************)
(* Theorems about Synchronizer, for packets and buffers of any size and    *)
(* any sequence of calls, and about SyncStream, for any streams.           *)
(***************************************************************************)
EXTENDS SyncStream, SequenceTheorems, FiniteSetTheorems, WellFoundedInduction,
        TLAPS

\* The minimum of a nonempty set of naturals is one of its members.
LEMMA MinInSet ==
    ASSUME NEW S \in SUBSET Nat, S # {}
    PROVE  /\ Min(S) \in S
           /\ \A n \in S : Min(S) <= n
  <1>1. \E n \in S : \A m \in S : ~(<<m, n>> \in OpToRel(<, Nat))
    BY WFMin, NatLessThanWellFounded
  <1>2. PICK n \in S : \A m \in S : ~(<<m, n>> \in OpToRel(<, Nat))
    BY <1>1
  <1>3. ASSUME NEW m \in S PROVE n <= m
    <2>1. <<m, n>> \in Nat \X Nat /\ ~(<<m, n>> \in OpToRel(<, Nat))
      BY <1>2
    <2>2. ~(<<m, n>>[1] < <<m, n>>[2])
      BY <2>1, Zenon DEF OpToRel
    <2>3. ~(m < n)
      BY <2>2
    <2>4. QED
      BY <2>3
  <1>4. QED
    BY <1>3 DEF Min

\* The loop of processBuffer ends after a number of packets that all fit in
\* the buffer, and handles at least one if one is there.
LEMMA LoopEnds ==
    ASSUME NEW b \in Seq(Cell), NEW off \in Nat
    PROVE  /\ PacketCount(b, off) \in Nat
           /\ ~StopsAt(b, off) => PacketCount(b, off) > 0
           /\ off <= Len(b) => off + PacketCount(b, off) * PacketSize <= Len(b)
  <1> DEFINE len == Len(b)
             S == {k \in 0..len : StopsAt(b, off + k * PacketSize)}
             n == PacketCount(b, off)
  <1>1. len \in Nat /\ PacketSize \in Nat /\ PacketSize >= 1
    BY LenProperties, SizesAssumption
  <1>2. n = Min(S)
    BY DEF PacketCount
  <1>3. StopsAt(b, off + len * PacketSize)
    <2> HIDE DEF len
    <2>1. len * PacketSize >= len
      <3>1. len * PacketSize = len * (PacketSize - 1) + len
        BY <1>1
      <3>2. PacketSize - 1 \in Nat
        BY <1>1
      <3>3. len * (PacketSize - 1) \in Nat
        BY <1>1, <3>2
      <3>4. QED
        BY <1>1, <3>1, <3>3
    <2>2. len * PacketSize \in Nat
      BY <1>1
    <2>3. (off + len * PacketSize) + PacketSize > len
      BY <1>1, <2>1, <2>2
    <2>4. QED
      BY <2>3 DEF StopsAt, len
  <1>4. S # {} /\ S \in SUBSET Nat
    BY <1>1, <1>3
  <1> HIDE DEF n
  <1>5. n \in S /\ \A k \in S : n <= k
    BY <1>2, <1>4, MinInSet
  <1>6. n \in Nat /\ n <= len
    BY <1>1, <1>5
  <1>7. ASSUME ~StopsAt(b, off) PROVE n > 0
    <2>1. off + 0 * PacketSize = off
      BY <1>1
    <2>2. n # 0
      BY <1>5, <1>7, <2>1
    <2>3. QED
      BY <1>6, <2>2
  <1>8. ASSUME off <= len PROVE off + n * PacketSize <= len
    <2>1. CASE n = 0
      BY <1>1, <1>8, <2>1
    <2>2. CASE n # 0
      <3>1. n - 1 \in 0..len /\ ~(n <= n - 1)
        BY <1>1, <1>6, <2>2
      <3>2. ~StopsAt(b, off + (n - 1) * PacketSize)
        BY <1>5, <3>1
      <3>3. ~(off + (n - 1) * PacketSize + PacketSize > len)
        BY <3>2 DEF StopsAt
      <3>4. (n - 1) * PacketSize + PacketSize = n * PacketSize
        BY <1>1, <1>6
      <3>5. (n - 1) * PacketSize \in Int /\ n * PacketSize \in Int
        BY <1>1, <1>6
      <3> HIDE DEF len
      <3>6. QED
        BY <1>1, <3>3, <3>4, <3>5
    <2>3. QED
      BY <2>1, <2>2
  <1>9. QED
    BY <1>6, <1>7, <1>8 DEF n

\* Each packet the loop handles is in the buffer, and its header parses.
LEMMA LoopParses ==
    ASSUME NEW b \in Seq(Cell), NEW off \in Nat, NEW i \in 1..PacketCount(b, off)
    PROVE  /\ off + (i - 1) * PacketSize < Len(b)
           /\ b[off + (i - 1) * PacketSize + 1] \in Header
  <1> DEFINE len == Len(b)
             S == {k \in 0..len : StopsAt(b, off + k * PacketSize)}
             n == PacketCount(b, off)
             at == off + (i - 1) * PacketSize
  <1>1. len \in Nat /\ PacketSize \in Nat \ {0}
    BY LenProperties, SizesAssumption
  <1>2. n \in Nat /\ (off <= len => off + n * PacketSize <= len)
    BY LoopEnds
  <1>3. n = Min(S) /\ S \in SUBSET Nat
    BY DEF PacketCount
  <1> HIDE DEF n
  <1>4. i \in 1..n /\ i - 1 \in Nat /\ i - 1 < n
    BY <1>2 DEF n
  <1>5. n \in S \/ S = {}
    BY <1>3, MinInSet
  <1>6. at \in Nat
    <2>1. (i - 1) * PacketSize \in Nat
      BY <1>1, <1>4
    <2>2. QED
      BY <2>1
  <1>7. CASE S = {}
    <2>1. ~StopsAt(b, off + len * PacketSize)
      BY <1>1, <1>7
    <2>2. len * PacketSize >= len
      <3>1. len * PacketSize = len * (PacketSize - 1) + len
        BY <1>1
      <3>2. PacketSize - 1 \in Nat
        BY <1>1
      <3>3. len * (PacketSize - 1) \in Nat
        BY <1>1, <3>2
      <3> HIDE DEF len
      <3>4. QED
        BY <1>1, <3>1, <3>3
    <2>3. len * PacketSize \in Nat
      BY <1>1
    <2> HIDE DEF len
    <2>4. (off + len * PacketSize) + PacketSize > len
      BY <1>1, <2>2, <2>3
    <2>5. QED
      BY <2>1, <2>4 DEF StopsAt, len
  <1>8. CASE n \in S
    <2>1. n <= len
      BY <1>8
    <2>2. i - 1 \in 0..len /\ ~(n <= i - 1)
      <3> HIDE DEF len
      <3>1. QED
        BY <1>1, <1>2, <1>4, <2>1
    <2>3. i - 1 \notin S
      <3>1. S # {}
        BY <1>8
      <3>2. \A k \in S : n <= k
        BY <1>3, <3>1, MinInSet
      <3> HIDE DEF S
      <3>3. QED
        BY <2>2, <3>2
    <2>4. ~StopsAt(b, at)
      BY <2>2, <2>3
    <2>5. at + PacketSize <= len /\ ParsesAt(b, at)
      <3> HIDE DEF at
      <3>1. QED
        BY <1>1, <1>6, <2>4 DEF StopsAt
    <2>6. at < len /\ at + 1 \in 1..len
      <3> HIDE DEF at, len
      <3>1. QED
        BY <1>1, <1>6, <2>5
    <2>7. b[at + 1] \in Cell
      BY <2>6, ElementOfSeq
    <2>8. b[at + 1] \in Header
      BY <2>5, <2>7 DEF ParsesAt, Cell
    <2>9. QED
      BY <2>6, <2>8
  <1>9. QED
    BY <1>5, <1>7, <1>8

\* Dropping a prefix of a sequence leaves a sequence of the remaining length.
LEMMA Suffix ==
    ASSUME NEW b \in Seq(Cell), NEW n \in Nat
    PROVE  /\ SubSeq(b, n + 1, Len(b)) \in Seq(Cell)
           /\ Len(SubSeq(b, n + 1, Len(b))) =
                IF n <= Len(b) THEN Len(b) - n ELSE 0
  <1>1. Len(b) \in Nat /\ \A i \in 1..Len(b) : b[i] \in Cell
    BY ElementOfSeq, LenProperties
  <1>2. \A i \in (n + 1)..Len(b) : b[i] \in Cell
    BY <1>1
  <1>3. /\ SubSeq(b, n + 1, Len(b)) \in Seq(Cell)
        /\ Len(SubSeq(b, n + 1, Len(b))) =
             IF n + 1 <= Len(b) THEN Len(b) - (n + 1) + 1 ELSE 0
    BY <1>1, <1>2, SubSeqProperties
  <1>4. QED
    BY <1>1, <1>3

\* What feedData keeps of the buffer after appending fits in MAX_BUFFER_SIZE.
LEMMA KeptFits ==
    ASSUME NEW b \in Seq(Cell)
    PROVE  /\ Overflow(b) \in Nat
           /\ SubSeq(b, Overflow(b) + 1, Len(b)) \in Seq(Cell)
           /\ Len(SubSeq(b, Overflow(b) + 1, Len(b))) <= MaxBufferSize
  <1>1. Len(b) \in Nat /\ MaxBufferSize \in Nat
    BY LenProperties, SizesAssumption DEF MaxBufferSize
  <1>2. Overflow(b) \in Nat /\ Len(b) - Overflow(b) <= MaxBufferSize
        /\ Overflow(b) <= Len(b)
    BY <1>1 DEF Overflow
  <1>3. QED
    BY <1>1, <1>2, Suffix

SyncInv == TypeOK /\ BufferBetweenCalls

\* The consuming loop, wherever it starts, establishes the invariant.
LEMMA ConsumeInv ==
    ASSUME NEW b \in Seq(Cell), Len(b) <= MaxBufferSize,
           NEW off \in Nat, NEW overflow \in Nat,
           Consume(b, off, overflow)
    PROVE  SyncInv'
  <1> DEFINE n    == PacketCount(b, off)
             next == off + n * PacketSize
             lost == next + PacketSize <= Len(b)
  <1>1. Len(b) \in Nat /\ MaxBufferSize \in Nat /\ PacketSize \in Nat \ {0}
    BY LenProperties, SizesAssumption DEF MaxBufferSize
  <1>2. n \in Nat
    BY LoopEnds
  <1>3. next \in Nat
    BY <1>1, <1>2
  <1>4. /\ is_synchronized' = ~lost
        /\ sync_offset' = 0
        /\ raw_buffer' = IF lost THEN b ELSE SubSeq(b, next + 1, Len(b))
        /\ lastCall' = [overflow |-> overflow, start |-> off, packets |-> n,
                        erased |-> IF lost THEN 0 ELSE next]
    BY DEF Consume
  <1> HIDE DEF n, next
  <1>5. CASE lost
    <2>1. raw_buffer' = b /\ is_synchronized' = FALSE
      BY <1>4, <1>5
    <2>2. lastCall' \in [overflow : Nat, start : Nat, packets : Nat,
                         erased : Nat]
      BY <1>2, <1>4, <1>5
    <2>3. QED
      BY <1>4, <2>1, <2>2 DEF SyncInv, TypeOK, BufferBetweenCalls
  <1>6. CASE ~lost
    <2>1. raw_buffer' = SubSeq(b, next + 1, Len(b)) /\ is_synchronized' = TRUE
      BY <1>4, <1>6
    <2>2. lastCall' \in [overflow : Nat, start : Nat, packets : Nat,
                         erased : Nat]
      BY <1>2, <1>3, <1>4, <1>6
    <2>3. /\ raw_buffer' \in Seq(Cell)
          /\ Len(raw_buffer') = IF next <= Len(b) THEN Len(b) - next ELSE 0
      BY <1>3, <2>1, Suffix
    <2>4. Len(raw_buffer') <= MaxBufferSize /\ Len(raw_buffer') < PacketSize
      BY <1>1, <1>3, <1>6, <2>3
    <2>5. QED
      BY <1>4, <2>1, <2>2, <2>3, <2>4 DEF SyncInv, TypeOK, BufferBetweenCalls
  <1>7. QED
    BY <1>5, <1>6

\* feedData preserves the invariant, whatever it is given.
LEMMA FeedDataInv ==
    ASSUME SyncInv, NEW data \in Seq(Cell), feedData(data)
    PROVE  SyncInv'
  <1> DEFINE whole == raw_buffer \o data
             b     == SubSeq(whole, Overflow(whole) + 1, Len(whole))
  <1>1. whole \in Seq(Cell)
    BY ConcatProperties DEF SyncInv, TypeOK
  <1>2. /\ Overflow(whole) \in Nat
        /\ b \in Seq(Cell)
        /\ Len(b) <= MaxBufferSize
    BY <1>1, KeptFits
  <1>3. processBuffer(b, Overflow(whole))
    BY DEF feedData
  <1> HIDE DEF whole, b
  <1>4. CASE is_synchronized /\ Consume(b, sync_offset, Overflow(whole))
    <2>1. sync_offset \in Nat
      BY DEF SyncInv, TypeOK
    <2>2. QED
      BY <1>2, <1>4, <2>1, ConsumeInv
  <1>5. CASE SyncPoints(b) # {}
             /\ Consume(b, Min(SyncPoints(b)), Overflow(whole))
    <2>1. SyncPoints(b) \in SUBSET Nat
      BY DEF SyncPoints
    <2>2. Min(SyncPoints(b)) \in Nat
      BY <1>5, <2>1, MinInSet
    <2>3. QED
      BY <1>2, <1>5, <2>2, ConsumeInv
  <1>6. CASE /\ ~is_synchronized
             /\ raw_buffer' = b
             /\ lastCall' = [NoCall EXCEPT !.overflow = Overflow(whole)]
             /\ UNCHANGED <<is_synchronized, sync_offset>>
    BY <1>2, <1>6 DEF SyncInv, TypeOK, BufferBetweenCalls, NoCall
  <1>7. QED
    BY <1>3, <1>4, <1>5, <1>6 DEF processBuffer

\* The buffer bound, the consumed bytes and the waiting rest of a packet are
\* as BufferBetweenCalls says between any two calls, for every configuration.
THEOREM BufferTheorem == Spec => [](TypeOK /\ BufferBetweenCalls)
  <1>1. Init => SyncInv
    <2> SUFFICES ASSUME Init PROVE SyncInv
      OBVIOUS
    <2>1. raw_buffer \in Seq(Cell) /\ Len(raw_buffer) = 0
      BY EmptySeq DEF Init
    <2>2. MaxBufferSize \in Nat
      BY SizesAssumption DEF MaxBufferSize
    <2>3. is_synchronized = FALSE /\ sync_offset = 0 /\ lastCall = NoCall
      BY DEF Init
    <2>4. NoCall \in [overflow : Nat, start : Nat, packets : Nat, erased : Nat]
      BY DEF NoCall
    <2>5. TypeOK
      BY <2>1, <2>3, <2>4 DEF TypeOK
    <2>6. BufferBetweenCalls
      BY <2>1, <2>2, <2>3 DEF BufferBetweenCalls
    <2>7. QED
      BY <2>5, <2>6 DEF SyncInv
  <1>2. SyncInv /\ [Next]_vars => SyncInv'
    <2> SUFFICES ASSUME SyncInv, [Next]_vars PROVE SyncInv'
      OBVIOUS
    <2>1. ASSUME NEW data \in Seq(Cell), feedData(data) PROVE SyncInv'
      BY <2>1, FeedDataInv
    <2>2. CASE clearAll
      <3>1. raw_buffer' \in Seq(Cell) /\ Len(raw_buffer') = 0
        BY <2>2, EmptySeq DEF clearAll
      <3>2. MaxBufferSize \in Nat
        BY SizesAssumption DEF MaxBufferSize
      <3>3. /\ is_synchronized' = FALSE /\ sync_offset' = sync_offset
            /\ lastCall' = NoCall
        BY <2>2 DEF clearAll
      <3>4. NoCall \in [overflow : Nat, start : Nat, packets : Nat,
                         erased : Nat]
        BY DEF NoCall
      <3>5. TypeOK'
        BY <3>1, <3>3, <3>4 DEF SyncInv, TypeOK
      <3>6. BufferBetweenCalls'
        BY <3>1, <3>2, <3>3 DEF SyncInv, BufferBetweenCalls
      <3>7. QED
        BY <3>5, <3>6 DEF SyncInv
    <2>3. CASE UNCHANGED vars
      BY <2>3 DEF vars, SyncInv, TypeOK, BufferBetweenCalls
    <2>4. QED
      BY <2>1, <2>2, <2>3 DEF Next
  <1>3. QED
    BY <1>1, <1>2, PTL DEF Spec, SyncInv

-----------------------------------------------------------------------------
(***************************************************************************)
(* Streams.  A stream is one way of calling the synchronizer; what it adds *)
(* is that the buffer is always a known part of the stream.                *)
(***************************************************************************)

\* An element of a part of a sequence
LEMMA PartAt ==
    ASSUME NEW c \in Seq(Cell), NEW m \in Nat, NEW n \in Nat, NEW j \in Nat,
           n <= Len(c), j < n - m
    PROVE  SubSeq(c, m + 1, n)[j + 1] = c[m + j + 1]
  <1>1. Len(c) \in Nat /\ \A i \in 1..Len(c) : c[i] \in Cell
    BY LenProperties, ElementOfSeq
  <1>2. \A i \in (m + 1)..n : c[i] \in Cell
    BY <1>1
  <1> DEFINE p == SubSeq(c, m + 1, n)
  <1>3. \A i \in 1..(n - (m + 1) + 1) : p[i] = c[(m + 1) + i - 1]
    BY <1>2, SubSeqProperties
  <1> HIDE DEF p
  <1>4. j + 1 \in 1..(n - (m + 1) + 1) /\ (m + 1) + (j + 1) - 1 = m + j + 1
    BY <1>1
  <1>5. p[j + 1] = c[(m + 1) + (j + 1) - 1]
    BY <1>3, <1>4
  <1>6. QED
    BY <1>4, <1>5 DEF p

\* A part of a part of a sequence
LEMMA PartOfPart ==
    ASSUME NEW c \in Seq(Cell), NEW m \in Nat, NEW n \in Nat, NEW j \in Nat,
           m <= n, n <= Len(c), j <= n - m
    PROVE  SubSeq(SubSeq(c, m + 1, n), j + 1, n - m) = SubSeq(c, m + j + 1, n)
  <1> DEFINE p == SubSeq(c, m + 1, n)
             q == SubSeq(p, j + 1, n - m)
             r == SubSeq(c, m + j + 1, n)
  <1>1. Len(c) \in Nat /\ \A i \in 1..Len(c) : c[i] \in Cell
    BY LenProperties, ElementOfSeq
  <1>2. /\ p \in Seq(Cell) /\ Len(p) = n - m
        /\ \A i \in 1..(n - m) : p[i] = c[m + i]
    <2>1. \A i \in (m + 1)..n : c[i] \in Cell
      BY <1>1
    <2>2. /\ p \in Seq(Cell)
          /\ Len(p) = IF m + 1 <= n THEN n - (m + 1) + 1 ELSE 0
          /\ \A i \in 1..(n - (m + 1) + 1) : p[i] = c[m + 1 + i - 1]
      BY <2>1, SubSeqProperties
    <2>3. n - (m + 1) + 1 = n - m /\ (~(m + 1 <= n) => n - m = 0)
      OBVIOUS
    <2>4. \A i \in 1..(n - m) : m + 1 + i - 1 = m + i
      OBVIOUS
    <2> HIDE DEF p
    <2>5. Len(p) = n - m
      BY <2>2, <2>3
    <2>6. QED
      BY <2>2, <2>3, <2>4, <2>5
  <1> HIDE DEF p
  <1>3. /\ q \in Seq(Cell) /\ Len(q) = n - m - j
        /\ \A i \in 1..(n - m - j) : q[i] = p[j + i]
    <2>1. \A i \in (j + 1)..(n - m) : p[i] \in Cell
      BY <1>2, ElementOfSeq
    <2>2. /\ q \in Seq(Cell)
          /\ Len(q) = IF j + 1 <= n - m THEN n - m - (j + 1) + 1 ELSE 0
          /\ \A i \in 1..(n - m - (j + 1) + 1) : q[i] = p[j + 1 + i - 1]
      BY <2>1, SubSeqProperties
    <2>3. n - m - (j + 1) + 1 = n - m - j
          /\ (~(j + 1 <= n - m) => n - m - j = 0)
      OBVIOUS
    <2>4. \A i \in 1..(n - m - j) : j + 1 + i - 1 = j + i
      OBVIOUS
    <2> HIDE DEF q
    <2>5. Len(q) = n - m - j
      BY <2>2, <2>3
    <2>6. QED
      BY <2>2, <2>3, <2>4, <2>5
  <1>4. /\ r \in Seq(Cell) /\ Len(r) = n - m - j
        /\ \A i \in 1..(n - m - j) : r[i] = c[m + j + i]
    <2>1. \A i \in (m + j + 1)..n : c[i] \in Cell
      BY <1>1
    <2>2. /\ r \in Seq(Cell)
          /\ Len(r) = IF m + j + 1 <= n THEN n - (m + j + 1) + 1 ELSE 0
          /\ \A i \in 1..(n - (m + j + 1) + 1) : r[i] = c[m + j + 1 + i - 1]
      BY <2>1, SubSeqProperties
    <2>3. n - (m + j + 1) + 1 = n - m - j
          /\ (~(m + j + 1 <= n) => n - m - j = 0)
      OBVIOUS
    <2>4. \A i \in 1..(n - m - j) : m + j + 1 + i - 1 = m + j + i
      OBVIOUS
    <2> HIDE DEF r
    <2>5. Len(r) = n - m - j
      BY <2>2, <2>3
    <2>6. QED
      BY <2>2, <2>3, <2>4, <2>5
  <1> HIDE DEF q, r
  <1>5. \A i \in 1..(n - m - j) : q[i] = r[i]
    <2>1. ASSUME NEW i \in 1..(n - m - j) PROVE q[i] = r[i]
      <3>1. j + i \in 1..(n - m) /\ m + (j + i) = m + j + i
        BY <2>1
      <3>2. p[j + i] = c[m + (j + i)]
        BY <1>2, <3>1
      <3>3. QED
        BY <1>3, <1>4, <3>1, <3>2
    <2>2. QED
      BY <2>1
  <1>6. q = r
    BY <1>3, <1>4, <1>5, SeqEqual
  <1>7. QED
    BY <1>6 DEF p, q, r

\* The next k cells behind a part of a stream
LEMMA NextPart ==
    ASSUME NEW c \in Seq(Cell), NEW m \in Nat, NEW n \in Nat, NEW k \in Nat,
           m <= n, n + k <= Len(c)
    PROVE  SubSeq(c, m + 1, n) \o SubSeq(c, n + 1, n + k)
             = SubSeq(c, m + 1, n + k)
  <1>1. Len(c) \in Nat
    BY LenProperties
  <1>2. /\ m + 1 \in 1..(Len(c) + 1)
        /\ n \in ((m + 1) - 1)..Len(c)
        /\ n + k \in n..Len(c)
    BY <1>1
  <1>3. QED
    BY <1>2, ConcatAdjacentSubSeq

\* What feedData() is given is never empty, and is cells.
LEMMA Chunk ==
    ASSUME NEW c \in Seq(Cell), NEW n \in Nat, NEW k \in Nat \ {0},
           n + k <= Len(c)
    PROVE  /\ SubSeq(c, n + 1, n + k) \in Seq(Cell) \ {<<>>}
           /\ Len(SubSeq(c, n + 1, n + k)) = k
  <1> DEFINE p == SubSeq(c, n + 1, n + k)
  <1>1. Len(c) \in Nat /\ \A i \in 1..Len(c) : c[i] \in Cell
    BY LenProperties, ElementOfSeq
  <1>2. \A i \in (n + 1)..(n + k) : c[i] \in Cell
    BY <1>1
  <1>3. p \in Seq(Cell)
        /\ Len(p) = IF n + 1 <= n + k THEN n + k - (n + 1) + 1 ELSE 0
    BY <1>2, SubSeqProperties
  <1>4. n + 1 <= n + k /\ n + k - (n + 1) + 1 = k /\ k # 0
    OBVIOUS
  <1> HIDE DEF p
  <1>5. Len(p) = k
    BY <1>3, <1>4
  <1>6. p # <<>>
    BY <1>4, <1>5, EmptySeq
  <1>7. QED
    BY <1>3, <1>5, <1>6 DEF p

\* The positions handed on, and the last of them, once n more are appended
LEMMA MoreHandedOn ==
    ASSUME NEW s \in Seq(Nat), NEW n \in Nat, NEW from \in Nat
    PROVE  LET t == s \o [i \in 1..n |-> from + (i - 1) * PacketSize]
           IN  /\ t \in Seq(Nat) /\ Len(t) = Len(s) + n
               /\ n > 0 => /\ t # <<>>
                           /\ t[Len(s) + 1] = from
                           /\ Last(t) + PacketSize = from + n * PacketSize
               /\ n = 0 => t = s
  <1> DEFINE e == [i \in 1..n |-> from + (i - 1) * PacketSize]
             t == s \o e
  <1>1. PacketSize \in Nat
    BY SizesAssumption
  <1>2. \A i \in 1..n : from + (i - 1) * PacketSize \in Nat
    <2>1. ASSUME NEW i \in 1..n PROVE from + (i - 1) * PacketSize \in Nat
      <3>1. i - 1 \in Nat
        BY <2>1
      <3>2. (i - 1) * PacketSize \in Nat
        BY <1>1, <3>1
      <3>3. QED
        BY <3>2
    <2>2. QED
      BY <2>1
  <1>3. e \in [1..n -> Nat]
    BY <1>2
  <1>4. e \in Seq(Nat) /\ Len(e) = n
    <2>1. e \in Seq(Nat)
      BY <1>3, SeqDef
    <2>2. DOMAIN e = 1..n
      BY <1>3
    <2>3. QED
      BY <2>1, <2>2, LenProperties
  <1>5. n > 0 => e[1] = from /\ e[n] = from + (n - 1) * PacketSize
    <2> SUFFICES ASSUME n > 0
                 PROVE  e[1] = from /\ e[n] = from + (n - 1) * PacketSize
      OBVIOUS
    <2>1. 1 \in 1..n /\ n \in 1..n
      OBVIOUS
    <2>2. e[1] = from + (1 - 1) * PacketSize
      BY <2>1
    <2>3. e[n] = from + (n - 1) * PacketSize
      BY <2>1
    <2>4. from + (1 - 1) * PacketSize = from
      BY <1>1
    <2>5. QED
      BY <2>2, <2>3, <2>4
  <1> HIDE DEF e
  <1>6. /\ t \in Seq(Nat) /\ Len(t) = Len(s) + Len(e) /\ Len(s) \in Nat
        /\ \A i \in 1..(Len(s) + Len(e)) :
              t[i] = IF i <= Len(s) THEN s[i] ELSE e[i - Len(s)]
    BY <1>4, ConcatProperties, LenProperties
  <1> HIDE DEF t
  <1>7. /\ t \in Seq(Nat) /\ Len(t) = Len(s) + n /\ Len(s) \in Nat
        /\ \A i \in 1..(Len(s) + n) :
              t[i] = IF i <= Len(s) THEN s[i] ELSE e[i - Len(s)]
    BY <1>4, <1>6
  <1>8. ASSUME n > 0
        PROVE  /\ t # <<>>
               /\ t[Len(s) + 1] = from
               /\ Last(t) + PacketSize = from + n * PacketSize
    <2>1. t # <<>>
      BY <1>7, <1>8, EmptySeq
    <2>2. t[Len(s) + 1] = e[1]
      <3>1. /\ Len(s) + 1 \in 1..(Len(s) + n) /\ ~(Len(s) + 1 <= Len(s))
            /\ Len(s) + 1 - Len(s) = 1
        BY <1>7, <1>8
      <3>2. QED
        BY <1>7, <3>1
    <2>3. Last(t) = e[n]
      <3>1. /\ Len(s) + n \in 1..(Len(s) + n) /\ ~(Len(s) + n <= Len(s))
            /\ Len(s) + n - Len(s) = n
        BY <1>7, <1>8
      <3>2. t[Len(s) + n] = e[n]
        BY <1>7, <3>1
      <3>3. QED
        BY <1>7, <3>2 DEF Last
    <2>4. from + (n - 1) * PacketSize + PacketSize = from + n * PacketSize
      BY <1>1
    <2>5. QED
      BY <1>5, <1>8, <2>1, <2>2, <2>3, <2>4
  <1>9. ASSUME n = 0 PROVE t = s
    <2>1. e = <<>>
      BY <1>4, <1>9, EmptySeq
    <2>2. QED
      BY <2>1, ConcatEmptySeq DEF t
  <1>10. QED
    BY <1>7, <1>8, <1>9 DEF t, e

\* There is a header at position i.
InBuffer(b, i) == i < Len(b) /\ b[i + 1] \in Header

\* What is in the buffer at the positions of the packets handed on
LEMMA AllHandedOn ==
    ASSUME NEW c, NEW s \in Seq(Nat), NEW n \in Nat, NEW from \in Nat,
           \A i \in DOMAIN s : InBuffer(c, s[i]),
           \A i \in 1..n : InBuffer(c, from + (i - 1) * PacketSize)
    PROVE  LET t == s \o [i \in 1..n |-> from + (i - 1) * PacketSize]
           IN  \A i \in DOMAIN t : InBuffer(c, t[i])
  <1> DEFINE e == [i \in 1..n |-> from + (i - 1) * PacketSize]
             t == s \o e
  <1>1. PacketSize \in Nat
    BY SizesAssumption
  <1>2. \A i \in 1..n : from + (i - 1) * PacketSize \in Nat
    <2>1. ASSUME NEW i \in 1..n PROVE from + (i - 1) * PacketSize \in Nat
      <3>1. i - 1 \in Nat
        BY <2>1
      <3>2. (i - 1) * PacketSize \in Nat
        BY <1>1, <3>1
      <3>3. QED
        BY <3>2
    <2>2. QED
      BY <2>1
  <1>3. e \in [1..n -> Nat] /\ \A i \in 1..n : InBuffer(c, e[i])
    BY <1>2
  <1>4. e \in Seq(Nat) /\ Len(e) = n
    <2>1. e \in Seq(Nat)
      BY <1>3, SeqDef
    <2>2. DOMAIN e = 1..n
      BY <1>3
    <2>3. QED
      BY <2>1, <2>2, LenProperties
  <1> HIDE DEF e
  <1>5. /\ t \in Seq(Nat) /\ Len(t) = Len(s) + n /\ Len(s) \in Nat
        /\ \A i \in 1..(Len(s) + n) :
              t[i] = IF i <= Len(s) THEN s[i] ELSE e[i - Len(s)]
    BY <1>4, ConcatProperties, LenProperties
  <1> HIDE DEF t
  <1>6. DOMAIN t = 1..(Len(s) + n) /\ DOMAIN s = 1..Len(s)
    BY <1>5, LenProperties
  <1>7. ASSUME NEW i \in DOMAIN t PROVE InBuffer(c, t[i])
    <2>1. CASE i <= Len(s)
      BY <1>5, <1>6, <2>1
    <2>2. CASE ~(i <= Len(s))
      <3>1. i - Len(s) \in 1..n /\ t[i] = e[i - Len(s)]
        BY <1>5, <1>6, <2>2
      <3>2. QED
        BY <1>3, <3>1
    <2>3. QED
      BY <2>1, <2>2
  <1>8. QED
    BY <1>7 DEF t, e

\* What one call of processBuffer() does to the buffer b: it takes away a
\* prefix, if it ends synchronised the packets handed on and what was in front
\* of the first, and there is at least one if it was not synchronised before.
LEMMA ProcessBuffer ==
    ASSUME SyncInv, NEW b \in Seq(Cell), NEW overflow \in Nat,
           processBuffer(b, overflow)
    PROVE  \E off, n, erased \in Nat :
              /\ lastCall' = [overflow |-> overflow, start |-> off,
                              packets |-> n, erased |-> erased]
              /\ raw_buffer' = SubSeq(b, erased + 1, Len(b))
              /\ erased <= Len(b)
              /\ is_synchronized' => erased = off + n * PacketSize
              /\ is_synchronized => off = 0
              /\ ~is_synchronized /\ is_synchronized' => n > 0
              /\ \A i \in 1..n : InBuffer(b, off + (i - 1) * PacketSize)
  <1>1. Len(b) \in Nat /\ PacketSize \in Nat \ {0} /\ sync_offset = 0
    BY LenProperties, SizesAssumption DEF SyncInv, BufferBetweenCalls
  <1>2. SubSeq(b, 0 + 1, Len(b)) = b
    BY SubSeqFull
  <1>3. ASSUME NEW off \in Nat, off <= Len(b), Consume(b, off, overflow),
               is_synchronized => off = 0,
               ~is_synchronized => ~StopsAt(b, off)
        PROVE  \E n, erased \in Nat :
                 /\ lastCall' = [overflow |-> overflow, start |-> off,
                                 packets |-> n, erased |-> erased]
                 /\ raw_buffer' = SubSeq(b, erased + 1, Len(b))
                 /\ erased <= Len(b)
                 /\ is_synchronized' => erased = off + n * PacketSize
                 /\ is_synchronized => off = 0
                 /\ ~is_synchronized /\ is_synchronized' => n > 0
                 /\ \A i \in 1..n : InBuffer(b, off + (i - 1) * PacketSize)
    <2> DEFINE n    == PacketCount(b, off)
               next == off + n * PacketSize
               lost == next + PacketSize <= Len(b)
    <2>1. n \in Nat /\ next <= Len(b) /\ (~StopsAt(b, off) => n > 0)
      BY <1>3, LoopEnds
    <2>2. next \in Nat
      BY <1>1, <2>1
    <2>3. /\ is_synchronized' = ~lost
          /\ raw_buffer' = IF lost THEN b ELSE SubSeq(b, next + 1, Len(b))
          /\ lastCall' = [overflow |-> overflow, start |-> off, packets |-> n,
                          erased |-> IF lost THEN 0 ELSE next]
      BY <1>3 DEF Consume
    <2>4. next = off + n * PacketSize
      OBVIOUS
    <2>8. \A i \in 1..n : InBuffer(b, off + (i - 1) * PacketSize)
      BY <1>3, LoopParses DEF InBuffer
    <2> HIDE DEF n, next, lost
    <2>5. CASE lost
      <3>1. /\ is_synchronized' = FALSE /\ raw_buffer' = SubSeq(b, 0 + 1, Len(b))
            /\ lastCall' = [overflow |-> overflow, start |-> off,
                            packets |-> n, erased |-> 0]
        BY <1>2, <2>3, <2>5
      <3>2. 0 \in Nat /\ 0 <= Len(b)
        BY <1>1
      <3>3. QED
        BY <1>3, <2>1, <2>8, <3>1, <3>2
    <2>6. CASE ~lost
      <3>1. /\ raw_buffer' = SubSeq(b, next + 1, Len(b))
            /\ lastCall' = [overflow |-> overflow, start |-> off,
                            packets |-> n, erased |-> next]
        BY <2>3, <2>6
      <3>2. QED
        BY <1>3, <2>1, <2>2, <2>4, <2>8, <3>1
    <2>7. QED
      BY <2>5, <2>6
  <1>4. CASE is_synchronized /\ Consume(b, sync_offset, overflow)
    <2>1. 0 \in Nat /\ 0 <= Len(b) /\ Consume(b, 0, overflow)
      BY <1>1, <1>4
    <2>2. QED
      BY <1>3, <1>4, <2>1
  <1>5. CASE /\ ~is_synchronized /\ SyncPoints(b) # {}
             /\ Consume(b, Min(SyncPoints(b)), overflow)
    <2> DEFINE off == Min(SyncPoints(b))
    <2>1. SyncPoints(b) \in SUBSET Nat
      BY DEF SyncPoints
    <2>2. off \in SyncPoints(b)
      BY <1>5, <2>1, MinInSet
    <2> HIDE DEF off
    <2>3. off \in Nat /\ off <= Len(b) - 3 * PacketSize /\ ParsesAt(b, off)
      BY <2>1, <2>2 DEF SyncPoints
    <2>4. off <= Len(b) /\ ~(off + PacketSize > Len(b))
      BY <1>1, <2>3
    <2>5. ~StopsAt(b, off)
      BY <2>3, <2>4 DEF StopsAt
    <2>6. Consume(b, off, overflow)
      BY <1>5 DEF off
    <2>7. QED
      BY <1>3, <1>5, <2>3, <2>4, <2>5, <2>6
  <1>6. CASE /\ ~is_synchronized
             /\ raw_buffer' = b
             /\ lastCall' = [NoCall EXCEPT !.overflow = overflow]
             /\ UNCHANGED <<is_synchronized, sync_offset>>
    <2>1. lastCall' = [overflow |-> overflow, start |-> 0, packets |-> 0,
                       erased |-> 0]
      BY <1>6 DEF NoCall
    <2>2. raw_buffer' = SubSeq(b, 0 + 1, Len(b))
      BY <1>2, <1>6
    <2>3. ~is_synchronized /\ ~is_synchronized'
      BY <1>6
    <2>4. 0 \in Nat /\ 0 <= Len(b)
      BY <1>1
    <2>5. \A i \in 1..0 : InBuffer(b, 0 + (i - 1) * PacketSize)
      OBVIOUS
    <2>6. QED
      BY <2>1, <2>2, <2>3, <2>4, <2>5
  <1>7. QED
    BY <1>4, <1>5, <1>6 DEF processBuffer

\* What is true of a stream between two calls: besides the properties, while
\* synchronised the buffer begins right behind the last packet handed on, and
\* what was handed on are packets of the stream.
StreamInv ==
    /\ SyncInv
    /\ wire \in Wires
    /\ fed \in 0..Len(wire.cells)
    /\ base \in Nat
    /\ processed \in Seq(Nat)
    /\ BufferIsSuffix
    /\ is_synchronized => /\ processed # <<>>
                          /\ Last(processed) + PacketSize = base
    /\ \A i \in DOMAIN processed : InBuffer(wire.cells, processed[i])

LEMMA FeedStep ==
    ASSUME StreamInv, NEW k \in ChunkSizes, Feed(k)
    PROVE  /\ StreamInv'
           /\ is_synchronized /\ Len(processed') > Len(processed)
                => processed'[Len(processed) + 1] = Last(processed) + PacketSize
  <1> DEFINE c    == wire.cells
             data == SubSeq(c, fed + 1, fed + k)
             w    == raw_buffer \o data
             ov   == Overflow(w)
             b    == SubSeq(w, ov + 1, Len(w))
  <1>1. /\ c \in Seq(Cell) /\ k \in Nat \ {0} /\ fed \in Nat /\ base \in Nat
        /\ fed + k <= Len(c) /\ Len(c) \in Nat
        /\ PacketSize \in Nat \ {0} /\ MaxBufferSize \in Nat
        /\ k + PacketSize - 1 <= MaxBufferSize
    <2>1. wire \in Wire
      BY WiresAssumption DEF StreamInv
    <2>2. c \in Seq(Cell)
      BY <2>1 DEF Wire
    <2>3. Len(c) \in Nat
      BY <2>2, LenProperties
    <2>4. fed \in Nat /\ base \in Nat /\ fed + k <= Len(c)
      BY <2>3 DEF StreamInv, Feed
    <2>5. k \in Nat \ {0} /\ k + PacketSize - 1 <= MaxBufferSize
      BY WiresAssumption
    <2>6. QED
      BY <2>2, <2>3, <2>4, <2>5, SizesAssumption DEF MaxBufferSize
  <1>2. /\ raw_buffer \in Seq(Cell) /\ Len(raw_buffer) \in Nat
        /\ base + Len(raw_buffer) = fed
        /\ raw_buffer = SubSeq(c, base + 1, fed)
        /\ is_synchronized => Len(raw_buffer) < PacketSize
    <2>1. raw_buffer \in Seq(Cell)
      BY DEF StreamInv, SyncInv, TypeOK
    <2>2. QED
      BY <2>1, LenProperties
         DEF StreamInv, SyncInv, BufferBetweenCalls, BufferIsSuffix
  <1>3. data \in Seq(Cell) \ {<<>>} /\ Len(data) = k
    BY <1>1, Chunk
  <1>4. feedData(data) /\ fed' = fed + k /\ wire' = wire /\ since' = since
        /\ base' = base + lastCall'.overflow + lastCall'.erased
        /\ processed' = processed \o
              [i \in 1..lastCall'.packets |->
                  base + lastCall'.overflow + lastCall'.start
                       + (i - 1) * PacketSize]
    BY DEF Feed
  <1>5. processBuffer(b, ov)
    BY <1>4 DEF feedData
  <1> HIDE DEF data
  <1>6. w \in Seq(Cell) /\ Len(w) = Len(raw_buffer) + k
    BY <1>2, <1>3, ConcatProperties
  <1>7. w = SubSeq(c, base + 1, fed + k) /\ Len(w) = (fed + k) - base
    <2>1. base <= fed
      BY <1>1, <1>2
    <2>2. SubSeq(c, base + 1, fed) \o SubSeq(c, fed + 1, fed + k)
            = SubSeq(c, base + 1, fed + k)
      BY <1>1, <2>1, NextPart
    <2>3. Len(w) = (fed + k) - base
      <3> HIDE DEF w
      <3>1. QED
        BY <1>1, <1>2, <1>6
    <2>4. QED
      BY <1>2, <2>2, <2>3 DEF data
  <1> HIDE DEF w
  <1>8. /\ ov \in Nat /\ ov <= Len(w) /\ b \in Seq(Cell)
        /\ is_synchronized => ov = 0
    <2>1. ov \in Nat /\ b \in Seq(Cell)
      BY <1>6, KeptFits
    <2>2. Len(w) \in Nat
      BY <1>6, LenProperties
    <2>3. ov <= Len(w)
      BY <1>1, <2>2 DEF Overflow
    <2>4. ASSUME is_synchronized PROVE ov = 0
      <3>1. Len(w) <= MaxBufferSize
        BY <1>1, <1>2, <1>6, <2>4
      <3>2. QED
        BY <1>1, <2>2, <3>1 DEF Overflow
    <2>5. QED
      BY <2>1, <2>3, <2>4
  <1> HIDE DEF ov
  <1>9. b = SubSeq(c, (base + ov) + 1, fed + k)
        /\ Len(b) = (fed + k) - (base + ov)
    <2>1. /\ fed + k \in Nat /\ base <= fed + k /\ fed + k <= Len(c)
          /\ ov <= (fed + k) - base
      BY <1>1, <1>2, <1>7, <1>8
    <2>2. SubSeq(SubSeq(c, base + 1, fed + k), ov + 1, (fed + k) - base)
            = SubSeq(c, base + ov + 1, fed + k)
      BY <1>1, <1>8, <2>1, PartOfPart
    <2>3. Len(b) = Len(w) - ov
      BY <1>6, <1>8, Suffix
    <2>4. Len(b) = (fed + k) - (base + ov)
      <3> HIDE DEF b
      <3>1. QED
        BY <1>1, <1>7, <1>8, <2>3
    <2>5. QED
      BY <1>7, <2>2, <2>4
  <1> HIDE DEF b
  <1>10. PICK off \in Nat, n \in Nat, erased \in Nat :
            /\ lastCall' = [overflow |-> ov, start |-> off,
                            packets |-> n, erased |-> erased]
            /\ raw_buffer' = SubSeq(b, erased + 1, Len(b))
            /\ erased <= Len(b)
            /\ is_synchronized' => erased = off + n * PacketSize
            /\ is_synchronized => off = 0
            /\ ~is_synchronized /\ is_synchronized' => n > 0
            /\ \A i \in 1..n : InBuffer(b, off + (i - 1) * PacketSize)
    <2>1. SyncInv
      BY DEF StreamInv
    <2>2. QED
      BY <1>5, <1>8, <2>1, ProcessBuffer
  <1>11. SyncInv'
    <2>1. SyncInv
      BY DEF StreamInv
    <2>2. QED
      BY <1>3, <1>4, <2>1, FeedDataInv
  <1>12. /\ base' = base + ov + erased
         /\ processed' = processed \o
              [i \in 1..n |-> (base + ov + off) + (i - 1) * PacketSize]
    BY <1>4, <1>10
  <1>13. base' \in Nat /\ fed' \in 0..Len(wire'.cells) /\ wire' \in Wires
    <2>1. fed + k \in 0..Len(c)
      BY <1>1
    <2>2. QED
      BY <1>1, <1>4, <1>8, <1>12, <2>1 DEF StreamInv
  <1>14. BufferIsSuffix'
    <2>1. Len(raw_buffer') = Len(b) - erased
      BY <1>8, <1>10, Suffix
    <2> DEFINE m == base + ov
               top == fed + k
    <2>a. /\ m \in Nat /\ top \in Nat /\ top <= Len(c)
          /\ b = SubSeq(c, m + 1, top) /\ Len(b) = top - m
          /\ base' = m + erased /\ fed' = top
      <3>1. m \in Nat /\ top \in Nat /\ top <= Len(c)
        BY <1>1, <1>8
      <3>2. b = SubSeq(c, m + 1, top) /\ Len(b) = top - m
        BY <1>9
      <3>3. base' = m + erased /\ fed' = top
        BY <1>4, <1>12
      <3>4. QED
        BY <3>1, <3>2, <3>3
    <2> HIDE DEF m, top
    <2>b. m <= top /\ erased <= top - m
      <3>1. Len(b) \in Nat
        BY <1>8, LenProperties
      <3> HIDE DEF b
      <3>2. erased <= Len(b) /\ Len(b) = top - m
        BY <1>10, <2>a
      <3>3. QED
        BY <2>a, <3>1, <3>2
    <2>2. base' + Len(raw_buffer') = fed'
      <3>1. Len(raw_buffer') = (top - m) - erased
        BY <2>1, <2>a
      <3>2. (m + erased) + ((top - m) - erased) = top
        BY <2>a
      <3>3. QED
        BY <2>a, <3>1, <3>2
    <2>3. raw_buffer' = SubSeq(c, base' + 1, fed')
      <3>1. SubSeq(SubSeq(c, m + 1, top), erased + 1, top - m)
              = SubSeq(c, m + erased + 1, top)
        BY <1>1, <2>a, <2>b, PartOfPart
      <3>2. raw_buffer' = SubSeq(SubSeq(c, m + 1, top), erased + 1, top - m)
        BY <1>10, <2>a
      <3>3. QED
        BY <2>a, <3>1, <3>2
    <2>4. QED
      BY <1>4, <2>2, <2>3 DEF BufferIsSuffix
  <1>15. /\ processed' \in Seq(Nat) /\ Len(processed') = Len(processed) + n
         /\ n > 0 => /\ processed' # <<>>
                     /\ processed'[Len(processed) + 1] = base + ov + off
                     /\ Last(processed') + PacketSize =
                          (base + ov + off) + n * PacketSize
         /\ n = 0 => processed' = processed
    <2> DEFINE from == base + ov + off
    <2>1. processed \in Seq(Nat) /\ from \in Nat
      BY <1>1, <1>8 DEF StreamInv
    <2>2. processed' = processed \o
                          [i \in 1..n |-> from + (i - 1) * PacketSize]
      BY <1>12
    <2> HIDE DEF from
    <2> DEFINE t == processed \o [i \in 1..n |-> from + (i - 1) * PacketSize]
    <2>3. /\ t \in Seq(Nat) /\ Len(t) = Len(processed) + n
          /\ n > 0 => /\ t # <<>>
                      /\ t[Len(processed) + 1] = from
                      /\ Last(t) + PacketSize = from + n * PacketSize
          /\ n = 0 => t = processed
      BY <2>1, MoreHandedOn
    <2>4. processed' = t
      BY <2>2
    <2> HIDE DEF t
    <2>5. /\ processed' \in Seq(Nat) /\ Len(processed') = Len(processed) + n
          /\ n > 0 => /\ processed' # <<>>
                      /\ processed'[Len(processed) + 1] = from
                      /\ Last(processed') + PacketSize
                            = from + n * PacketSize
          /\ n = 0 => processed' = processed
      BY <2>3, <2>4
    <2>6. QED
      BY <2>5 DEF from
  <1>16. n * PacketSize \in Nat
    BY <1>1
  <1>17. ASSUME is_synchronized'
         PROVE  processed' # <<>> /\ Last(processed') + PacketSize = base'
    <2>1. CASE n > 0
      <3>1. erased = off + n * PacketSize
        BY <1>10, <1>17
      <3>2. base' = (base + ov + off) + n * PacketSize
        BY <1>1, <1>8, <1>12, <1>16, <3>1
      <3>3. QED
        BY <1>15, <2>1, <3>2
    <2>2. CASE n = 0
      <3>1. is_synchronized
        BY <1>10, <1>17, <2>2
      <3>2. off = 0 /\ ov = 0 /\ erased = 0
        BY <1>1, <1>8, <1>10, <1>17, <2>2, <3>1
      <3>3. base' = base /\ processed' = processed
        BY <1>1, <1>12, <1>15, <2>2, <3>2
      <3>4. QED
        BY <3>1, <3>3 DEF StreamInv
    <2>3. QED
      BY <2>1, <2>2
  <1>18. ASSUME is_synchronized, Len(processed') > Len(processed)
         PROVE  processed'[Len(processed) + 1] = Last(processed) + PacketSize
    <2>1. processed \in Seq(Nat) /\ Len(processed) \in Nat
      BY LenProperties DEF StreamInv
    <2>2. n > 0
      BY <1>15, <1>18, <2>1
    <2>3. processed'[Len(processed) + 1] = base
      BY <1>1, <1>8, <1>10, <1>15, <1>18, <2>2
    <2>4. QED
      BY <1>18, <2>3 DEF StreamInv
  <1>21. \A i \in DOMAIN processed' : InBuffer(wire'.cells, processed'[i])
    <2> DEFINE m == base + ov
    <2>1. m \in Nat /\ b = SubSeq(c, m + 1, fed + k) /\ Len(b) = (fed + k) - m
      BY <1>1, <1>8, <1>9
    <2>2. \A i \in 1..n : InBuffer(c, (m + off) + (i - 1) * PacketSize)
      <3> SUFFICES ASSUME NEW i \in 1..n
                   PROVE  InBuffer(c, (m + off) + (i - 1) * PacketSize)
        OBVIOUS
      <3> DEFINE at == off + (i - 1) * PacketSize
      <3>1. at \in Nat
        <4>1. i - 1 \in Nat
          OBVIOUS
        <4>2. (i - 1) * PacketSize \in Nat
          BY <1>1, <4>1
        <4>3. QED
          BY <4>2
      <3>2. InBuffer(b, at) /\ (m + off) + (i - 1) * PacketSize = m + at
        <4>1. (i - 1) * PacketSize \in Nat
          <5>1. i - 1 \in Nat
            OBVIOUS
          <5>2. QED
            BY <1>1, <5>1
        <4>2. QED
          BY <1>10, <2>1, <4>1
      <3> HIDE DEF at, m
      <3>3. InBuffer(c, m + at)
        <4>1. at < (fed + k) - m /\ m + at < Len(c)
          BY <1>1, <2>1, <3>1, <3>2 DEF InBuffer
        <4>2. b[at + 1] = c[m + at + 1]
          BY <1>1, <2>1, <3>1, <4>1, PartAt
        <4>3. QED
          BY <3>2, <4>1, <4>2 DEF InBuffer
      <3>4. QED
        BY <3>2, <3>3
    <2>3. processed' = processed \o
                          [i \in 1..n |-> (m + off) + (i - 1) * PacketSize]
      BY <1>12
    <2>4. processed \in Seq(Nat) /\ m + off \in Nat
          /\ \A i \in DOMAIN processed : InBuffer(c, processed[i])
      BY <2>1 DEF StreamInv
    <2> HIDE DEF m
    <2>5. \A i \in DOMAIN processed' : InBuffer(c, processed'[i])
      BY <2>2, <2>3, <2>4, AllHandedOn
    <2>6. QED
      BY <1>4, <2>5
  <1>19. StreamInv'
    BY <1>11, <1>13, <1>14, <1>15, <1>17, <1>21 DEF StreamInv
  <1>20. QED
    BY <1>18, <1>19

LEMMA ClearStep ==
    ASSUME StreamInv, Clear
    PROVE  StreamInv' /\ processed' = <<>>
  <1>1. /\ raw_buffer' = <<>> /\ is_synchronized' = FALSE
        /\ sync_offset' = sync_offset /\ lastCall' = NoCall
        /\ base' = fed /\ processed' = <<>> /\ wire' = wire /\ fed' = fed
    BY DEF Clear, clearAll
  <1>2. SyncInv'
    <2>1. raw_buffer' \in Seq(Cell) /\ Len(raw_buffer') = 0
      BY <1>1, EmptySeq
    <2>2. MaxBufferSize \in Nat
      BY SizesAssumption DEF MaxBufferSize
    <2>3. NoCall \in [overflow : Nat, start : Nat, packets : Nat, erased : Nat]
      BY DEF NoCall
    <2>4. sync_offset \in Nat /\ sync_offset = 0
      BY DEF StreamInv, SyncInv, TypeOK, BufferBetweenCalls
    <2>5. TypeOK'
      BY <1>1, <2>1, <2>3, <2>4 DEF TypeOK
    <2>6. BufferBetweenCalls'
      BY <1>1, <2>1, <2>2, <2>4 DEF BufferBetweenCalls
    <2>7. QED
      BY <2>5, <2>6 DEF SyncInv
  <1>3. fed \in Nat
    BY DEF StreamInv
  <1>4. BufferIsSuffix'
    <2>1. SubSeq(wire.cells, fed + 1, fed) = <<>>
      BY <1>3, SubSeqEmpty
    <2>2. Len(<<>>) = 0
      BY EmptySeq
    <2>3. QED
      BY <1>1, <1>3, <2>1, <2>2 DEF BufferIsSuffix
  <1>5. processed' \in Seq(Nat)
    BY <1>1, EmptySeq
  <1>6. QED
    BY <1>1, <1>2, <1>3, <1>4, <1>5 DEF StreamInv

LEMMA StreamInitInv == StreamInit => StreamInv
  <1> SUFFICES ASSUME StreamInit PROVE StreamInv
    OBVIOUS
  <1>1. /\ raw_buffer = <<>> /\ is_synchronized = FALSE /\ sync_offset = 0
        /\ lastCall = NoCall
        /\ wire \in Wires /\ fed = 0 /\ base = 0 /\ processed = <<>>
    BY DEF StreamInit, Init
  <1>2. raw_buffer \in Seq(Cell) /\ Len(raw_buffer) = 0
    BY <1>1, EmptySeq
  <1>3. SyncInv
    <2>1. MaxBufferSize \in Nat
      BY SizesAssumption DEF MaxBufferSize
    <2>2. NoCall \in [overflow : Nat, start : Nat, packets : Nat, erased : Nat]
      BY DEF NoCall
    <2>3. TypeOK
      BY <1>1, <1>2, <2>2 DEF TypeOK
    <2>4. BufferBetweenCalls
      BY <1>1, <1>2, <2>1 DEF BufferBetweenCalls
    <2>5. QED
      BY <2>3, <2>4 DEF SyncInv
  <1>4. 0 \in 0..Len(wire.cells)
    <2>1. wire.cells \in Seq(Cell)
      BY <1>1, WiresAssumption DEF Wire
    <2>2. QED
      BY <2>1, LenProperties
  <1>5. BufferIsSuffix
    <2>1. SubSeq(wire.cells, 0 + 1, 0) = <<>>
      BY SubSeqEmpty
    <2>2. QED
      BY <1>1, <1>2, <2>1 DEF BufferIsSuffix
  <1>6. processed \in Seq(Nat)
    BY <1>1, EmptySeq
  <1>7. QED
    BY <1>1, <1>3, <1>4, <1>5, <1>6 DEF StreamInv

LEMMA StreamStep == StreamInv /\ [StreamNext]_streamVars => StreamInv'
  <1> SUFFICES ASSUME StreamInv, [StreamNext]_streamVars PROVE StreamInv'
    OBVIOUS
  <1>1. CASE \E k \in ChunkSizes : Feed(k)
    BY <1>1, FeedStep
  <1>2. CASE Clear
    BY <1>2, ClearStep
  <1>3. CASE UNCHANGED streamVars
    BY <1>3 DEF streamVars, vars, StreamInv, SyncInv, TypeOK,
                BufferBetweenCalls, BufferIsSuffix
  <1>4. QED
    BY <1>1, <1>2, <1>3 DEF StreamNext

\* Of any stream, in chunks of any size with clearAll() anywhere between
\* them, the buffer holds the last bytes fed: nothing is lost in the middle,
\* reordered or seen from a wrong position.
THEOREM BufferIsSuffixTheorem == StreamSpec => []BufferIsSuffix
  <1>1. StreamInv => BufferIsSuffix
    BY DEF StreamInv
  <1>2. QED
    BY <1>1, StreamInitInv, StreamStep, PTL DEF StreamSpec

\* While synchronised, the first packet a call hands on is the one right behind
\* the last packet of the calls before, whatever is in between two calls.
THEOREM InStepTheorem == StreamSpec => InStepWhileSynchronized
  <1>1. StreamInv /\ [StreamNext]_streamVars =>
          [(is_synchronized /\ Len(processed') > Len(processed)) =>
             processed'[Len(processed) + 1] = Last(processed) + PacketSize
          ]_streamVars
    <2> SUFFICES ASSUME StreamInv, StreamNext,
                        is_synchronized, Len(processed') > Len(processed)
                 PROVE  processed'[Len(processed) + 1]
                          = Last(processed) + PacketSize
      OBVIOUS
    <2>1. CASE \E k \in ChunkSizes : Feed(k)
      BY <2>1, FeedStep
    <2>2. CASE Clear
      <3>1. processed' = <<>> /\ Len(<<>>) = 0
        BY <2>2, ClearStep, EmptySeq
      <3>2. Len(processed) \in Nat
        BY LenProperties DEF StreamInv
      <3>3. QED
        BY <3>1, <3>2
    <2>3. QED
      BY <2>1, <2>2 DEF StreamNext
  <1>2. QED
    BY <1>1, StreamInitInv, StreamStep, PTL
       DEF StreamSpec, InStepWhileSynchronized

\* A stream is one way of calling the synchronizer.
THEOREM StreamImplementsSynchronizer == StreamSpec => Spec
  <1>1. StreamInit => Init
    BY DEF StreamInit
  <1>2. StreamInv /\ [StreamNext]_streamVars => [Next]_vars
    <2> SUFFICES ASSUME StreamInv, [StreamNext]_streamVars PROVE [Next]_vars
      OBVIOUS
    <2>1. ASSUME NEW k \in ChunkSizes, Feed(k) PROVE Next
      <3> DEFINE data == SubSeq(wire.cells, fed + 1, fed + k)
      <3>1. wire.cells \in Seq(Cell)
        BY WiresAssumption DEF StreamInv, Wire
      <3>2. Len(wire.cells) \in Nat
        BY <3>1, LenProperties
      <3>3. /\ fed \in Nat /\ k \in Nat \ {0}
            /\ fed + k <= Len(wire.cells) /\ feedData(data)
        BY <2>1, <3>2, WiresAssumption DEF StreamInv, Feed
      <3>4. data \in Seq(Cell) \ {<<>>}
        BY <3>1, <3>3, Chunk
      <3>5. QED
        BY <3>3, <3>4 DEF Next
    <2>2. CASE Clear
      BY <2>2 DEF Clear, Next
    <2>3. CASE UNCHANGED streamVars
      BY <2>3 DEF streamVars
    <2>4. QED
      BY <2>1, <2>2, <2>3 DEF StreamNext
  <1>3. QED
    BY <1>1, <1>2, StreamInitInv, StreamStep, PTL DEF StreamSpec, Spec
-----------------------------------------------------------------------------
(***************************************************************************)
(* Intact streams.  The library's induction theorems cannot be used; what  *)
(* is needed of induction is shown of a set of numbers.                    *)
(***************************************************************************)
LEMMA UpTo ==
    ASSUME NEW S, NEW m \in Nat, NEW n \in Nat, m \in S,
           \A k \in m..(n - 1) : k \in S => k + 1 \in S
    PROVE  \A k \in m..n : k \in S
  <1> DEFINE without == {k \in m..n : k \notin S}
  <1> SUFFICES ASSUME without # {} PROVE FALSE
    OBVIOUS
  <1>1. without \in SUBSET Nat
    OBVIOUS
  <1>2. PICK k \in without : \A j \in without : k <= j
    BY <1>1, MinInSet
  <1>3. k \in m..n /\ k \notin S /\ k # m
    BY <1>2
  <1>4. k - 1 \in m..(n - 1) /\ k - 1 \in m..n /\ ~(k <= k - 1)
        /\ (k - 1) + 1 = k
    BY <1>3
  <1>5. k - 1 \in S
    BY <1>2, <1>4
  <1> QED BY <1>3, <1>4, <1>5

LEMMA Times ==
    ASSUME NEW p \in Nat \ {0}, NEW a \in Nat, NEW b \in Nat
    PROVE  /\ a * p \in Nat
           /\ (a + b) * p = a * p + b * p
           /\ a < b <=> a * p + p <= b * p
  <1>1. ASSUME NEW x \in Nat, NEW y \in Nat, x < y PROVE x * p + p <= y * p
    <2>1. y - x - 1 \in Nat /\ y = x + 1 + (y - x - 1)
      BY <1>1
    <2> DEFINE d == y - x - 1
    <2>2. d \in Nat /\ y = x + 1 + d
      BY <2>1
    <2> HIDE DEF d
    <2>3. d * p \in Nat /\ x * p \in Nat
      BY <2>2
    <2>4. y * p = x * p + p + d * p
      BY <2>2
    <2> QED BY <2>3, <2>4
  <1>2. a * p \in Nat /\ b * p \in Nat /\ (a + b) * p = a * p + b * p
    OBVIOUS
  <1>3. ASSUME a * p + p <= b * p, ~(a < b) PROVE FALSE
    <2>1. CASE a = b
      BY <1>2, <1>3, <2>1
    <2>2. CASE b < a
      <3>1. b * p + p <= a * p
        BY <1>1, <2>2
      <3> QED BY <1>2, <1>3, <3>1
    <2> QED BY <1>3, <2>1, <2>2
  <1> QED BY <1>1, <1>2, <1>3

\* Where the i-th packet of an intact stream begins, or would if there were one.
At(w, i) == w.starts[1] + (i - 1) * PacketSize

\* The packets of a stream lie one behind the other.
Laid(w) ==
    LET n == Len(w.starts)
    IN  /\ w.cells \in Seq(Cell) /\ w.starts \in Seq(Nat)
        /\ Len(w.cells) \in Nat /\ n \in Nat \ {0}
        /\ \A i \in 1..(n + 1) : At(w, i) \in Nat
        /\ \A i \in 1..n : w.starts[i] = At(w, i)
        /\ At(w, n + 1) = Len(w.cells)
        /\ \A i, j \in 1..(n + 1) : i < j <=> At(w, i) + PacketSize <= At(w, j)
        /\ \A i \in 1..(n + 1), k \in Nat :
              At(w, i) + k * PacketSize = At(w, i + k)

LEMMA IntactIsLaid ==
    ASSUME NEW w \in Wires, w.intact
    PROVE  Laid(w) /\ Intact(w)
  <1> DEFINE n == Len(w.starts)
             first == w.starts[1]
  <1>1. /\ w.cells \in Seq(Cell) /\ w.starts \in Seq(Nat) /\ Intact(w)
    BY WiresAssumption DEF Wire
  <1>2. Len(w.cells) \in Nat /\ n \in Nat /\ n > 0
    BY <1>1, LenProperties DEF Intact
  <1>3. /\ Len(w.cells) = first + n * PacketSize
        /\ \A i \in 1..n : w.starts[i] = first + (i - 1) * PacketSize
    BY <1>1 DEF Intact
  <1>4. first \in Nat
    BY <1>1, <1>2, ElementOfSeq
  <1>5. PacketSize \in Nat \ {0}
    BY SizesAssumption
  <1> HIDE DEF n, first
  <1>6. \A i \in 1..(n + 1) : At(w, i) \in Nat
    <2> SUFFICES ASSUME NEW i \in 1..(n + 1) PROVE At(w, i) \in Nat
      OBVIOUS
    <2>1. i - 1 \in Nat
      OBVIOUS
    <2>2. (i - 1) * PacketSize \in Nat
      BY <1>5, <2>1, Times
    <2> QED BY <1>4, <2>2 DEF At, first
  <1>7. At(w, n + 1) = Len(w.cells)
    <2>1. (n + 1) - 1 = n
      BY <1>2
    <2>2. At(w, n + 1) = first + ((n + 1) - 1) * PacketSize
      BY DEF At, first
    <2> QED BY <1>3, <2>1, <2>2
  <1>8. \A i, j \in 1..(n + 1) : i < j <=> At(w, i) + PacketSize <= At(w, j)
    <2> SUFFICES ASSUME NEW i \in 1..(n + 1), NEW j \in 1..(n + 1)
                 PROVE  i < j <=> At(w, i) + PacketSize <= At(w, j)
      OBVIOUS
    <2>1. i - 1 \in Nat /\ j - 1 \in Nat /\ (i < j <=> i - 1 < j - 1)
      BY <1>2
    <2> DEFINE a == (i - 1) * PacketSize
               b == (j - 1) * PacketSize
    <2>2. a \in Nat /\ b \in Nat
      BY <1>5, <2>1, Times
    <2>3. i - 1 < j - 1 <=> a + PacketSize <= b
      BY <1>5, <2>1, Times
    <2>4. At(w, i) = first + a /\ At(w, j) = first + b
      BY DEF At, first
    <2> HIDE DEF a, b
    <2>5. a + PacketSize <= b <=> (first + a) + PacketSize <= first + b
      BY <1>4, <1>5, <2>2
    <2> QED BY <2>1, <2>3, <2>4, <2>5
  <1>9. \A i \in 1..(n + 1), k \in Nat :
           At(w, i) + k * PacketSize = At(w, i + k)
    <2> SUFFICES ASSUME NEW i \in 1..(n + 1), NEW k \in Nat
                 PROVE  At(w, i) + k * PacketSize = At(w, i + k)
      OBVIOUS
    <2>1. i - 1 \in Nat /\ i + k - 1 = (i - 1) + k
      BY <1>2
    <2> DEFINE a == (i - 1) * PacketSize
               b == k * PacketSize
    <2>2. a \in Nat /\ b \in Nat /\ ((i - 1) + k) * PacketSize = a + b
      BY <1>5, <2>1, Times
    <2>3. At(w, i) = first + a /\ At(w, i + k) = first + (a + b)
      BY <2>1, <2>2 DEF At, first
    <2> HIDE DEF a
    <2>4. (first + a) + b = first + (a + b)
      <3> HIDE DEF b
      <3> QED BY <1>4, <2>2
    <2> QED BY <2>3, <2>4
  <1>10. \A i \in 1..n : w.starts[i] = At(w, i)
    BY <1>3 DEF At, first
  <1> QED BY <1>1, <1>2, <1>6, <1>7, <1>8, <1>9, <1>10 DEF Laid, n

\* The packets that have arrived with the first m bytes are the first ones.
LEMMA ArrivedAre ==
    ASSUME NEW w, Laid(w), NEW m \in 0..Len(w.cells)
    PROVE  /\ ArrivedBy(w, m) \in 0..Len(w.starts)
           /\ \A i \in 1..Len(w.starts) :
                 i <= ArrivedBy(w, m) <=> At(w, i) + PacketSize <= m
           /\ m < At(w, ArrivedBy(w, m) + 1) + PacketSize
  <1> DEFINE n == Len(w.starts)
             S == {i \in DOMAIN w.starts : w.starts[i] + PacketSize <= m}
             T == {i \in Nat : i = 0 \/ (i \in 1..n /\ At(w, i) + PacketSize <= m)}
             outside == {i \in 1..(n + 1) : i \notin T}
  <1>1. /\ n \in Nat \ {0} /\ m \in Nat /\ PacketSize \in Nat \ {0}
        /\ DOMAIN w.starts = 1..n
    BY LenProperties, SizesAssumption DEF Laid
  <1>2. /\ \A i \in 1..(n + 1) : At(w, i) \in Nat
        /\ \A i \in 1..n : w.starts[i] = At(w, i)
        /\ At(w, n + 1) = Len(w.cells)
        /\ \A i, j \in 1..(n + 1) : i < j <=> At(w, i) + PacketSize <= At(w, j)
    BY DEF Laid
  <1> HIDE DEF n
  <1>3. outside \in SUBSET Nat /\ n + 1 \in outside
    BY <1>1
  <1>4. PICK e \in outside : \A i \in outside : e <= i
    BY <1>3, MinInSet
  <1>5. e \in 1..(n + 1) /\ ~(e \in 1..n /\ At(w, e) + PacketSize <= m)
    BY <1>1, <1>4
  <1>6. \A i \in 1..n : At(w, i) + PacketSize <= m <=> i < e
    <2> SUFFICES ASSUME NEW i \in 1..n
                 PROVE  At(w, i) + PacketSize <= m <=> i < e
      OBVIOUS
    <2>1. ASSUME i < e PROVE At(w, i) + PacketSize <= m
      <3>1. i \in 1..(n + 1) /\ ~(e <= i) /\ i # 0
        BY <1>1, <1>5, <2>1
      <3>2. i \notin outside
        BY <1>4, <3>1
      <3> QED BY <3>1, <3>2
    <2>2. ASSUME ~(i < e), At(w, i) + PacketSize <= m PROVE FALSE
      <3>1. e \in 1..n /\ i \in 1..(n + 1)
        BY <1>1, <1>5, <2>2
      <3>2. At(w, e) \in Nat /\ At(w, i) \in Nat
        BY <1>2, <1>5, <3>1
      <3>3. e = i \/ At(w, e) + PacketSize <= At(w, i)
        <4>1. e = i \/ e < i
          BY <1>5, <2>2
        <4> QED BY <1>2, <1>5, <3>1, <4>1
      <3>4. At(w, e) + PacketSize <= m
        BY <1>1, <2>2, <3>2, <3>3
      <3> QED BY <1>5, <3>1, <3>4
    <2> QED BY <2>1, <2>2
  <1>7. S = 1..(e - 1)
    <2>1. \A i : i \in S <=> i \in 1..n /\ At(w, i) + PacketSize <= m
      BY <1>1, <1>2
    <2>2. \A i : i \in 1..(e - 1) <=> i \in 1..n /\ i < e
      BY <1>1, <1>5
    <2> HIDE DEF S
    <2>3. \A i : i \in S <=> i \in 1..(e - 1)
      BY <1>6, <2>1, <2>2
    <2> QED BY <2>3
  <1>8. ArrivedBy(w, m) = e - 1
    <2>1. ArrivedBy(w, m) = Cardinality(1..(e - 1))
      BY <1>7 DEF ArrivedBy
    <2>2. e - 1 \in Nat /\ (e - 1) - 1 + 1 = e - 1
      BY <1>5
    <2>3. Cardinality(1..(e - 1)) = IF 1 > e - 1 THEN 0 ELSE (e - 1) - 1 + 1
      BY <2>2, FS_Interval
    <2> QED BY <2>1, <2>2, <2>3
  <1>9. m < At(w, e) + PacketSize
    <2>1. At(w, e) \in Nat
      BY <1>2, <1>5
    <2>2. CASE e = n + 1
      BY <1>1, <1>2, <2>1, <2>2
    <2>3. CASE e # n + 1
      <3>1. e \in 1..n
        BY <1>1, <1>5, <2>3
      <3> QED BY <1>1, <1>5, <2>1, <3>1
    <2> QED BY <2>2, <2>3
  <1>10. e - 1 \in 0..n /\ (e - 1) + 1 = e
    BY <1>1, <1>5
  <1>11. \A i \in 1..n : i <= e - 1 <=> i < e
    BY <1>1, <1>5
  <1> QED BY <1>6, <1>8, <1>9, <1>10, <1>11 DEF n

\* The part of an intact stream that waits in the buffer, from position m to t,
\* and the headers in it
Waiting(w, m, t) ==
    /\ w \in Wires /\ w.intact
    /\ t \in 0..Len(w.cells) /\ m \in 0..t

LEMMA WaitingCells ==
    ASSUME NEW w, NEW m, NEW t, Waiting(w, m, t)
    PROVE  /\ SubSeq(w.cells, m + 1, t) \in Seq(Cell)
           /\ Len(SubSeq(w.cells, m + 1, t)) = t - m
           /\ \A p \in 0..(t - m - 1) :
                 SubSeq(w.cells, m + 1, t)[p + 1] = w.cells[m + p + 1]
  <1>1. Laid(w)
    BY IntactIsLaid DEF Waiting
  <1>2. /\ w.cells \in Seq(Cell) /\ Len(w.cells) \in Nat
        /\ m \in Nat /\ t \in Nat /\ m <= t /\ t <= Len(w.cells)
    BY <1>1 DEF Laid, Waiting
  <1>3. \A p \in 0..(t - m - 1) : p \in Nat /\ p < t - m
    BY <1>2
  <1>4. \A p \in 0..(t - m - 1) :
           SubSeq(w.cells, m + 1, t)[p + 1] = w.cells[m + p + 1]
    BY <1>2, <1>3, PartAt
  <1>5. \A i \in (m + 1)..t : w.cells[i] \in Cell
    <2>1. \A i \in (m + 1)..t : i \in 1..Len(w.cells)
      BY <1>2
    <2> QED BY <1>2, <2>1, ElementOfSeq
  <1>6. /\ SubSeq(w.cells, m + 1, t) \in Seq(Cell)
        /\ Len(SubSeq(w.cells, m + 1, t)) =
              IF m + 1 <= t THEN t - (m + 1) + 1 ELSE 0
    <2>1. m + 1 \in Int /\ t \in Int
      BY <1>2
    <2> QED BY <1>5, <2>1, SubSeqProperties
  <1>7. Len(SubSeq(w.cells, m + 1, t)) = t - m
    <2> DEFINE l == Len(SubSeq(w.cells, m + 1, t))
    <2>1. l = IF m + 1 <= t THEN t - (m + 1) + 1 ELSE 0
      BY <1>6
    <2> HIDE DEF l
    <2>2. l = t - m
      BY <1>2, <2>1
    <2> QED BY <2>2 DEF l
  <1> QED BY <1>4, <1>6, <1>7

\* What parses in the garbage is followed by nothing in the stream.
Garbage(w, p) ==
    /\ p < At(w, 1) /\ w.cells[p + 1].payload
    /\ \A q \in (p + 1)..(Len(w.cells) - 1) :
          w.cells[q + 1] \in Header =>
             ~Follows(w.cells[p + 1], w.cells[q + 1])

\* What position p of the buffer b, from position m of the stream on, holds
HeaderIn(b, p, w, m) ==
    /\ m + p \in 0..(Len(w.cells) - 1)
    /\ ParsesAt(b, p) <=> w.cells[m + p + 1] \in Header
    /\ b[p + 1] = w.cells[m + p + 1]
    /\ ParsesAt(b, p) => \/ \E i \in 1..Len(w.starts) : m + p = At(w, i)
                         \/ Garbage(w, m + p)

LEMMA WaitingHeaders ==
    ASSUME NEW w, NEW m, NEW t, Waiting(w, m, t), NEW p \in 0..(t - m - 1)
    PROVE  HeaderIn(SubSeq(w.cells, m + 1, t), p, w, m)
  <1> DEFINE b == SubSeq(w.cells, m + 1, t)
             n == Len(w.starts)
  <1>1. Laid(w) /\ Intact(w)
    BY IntactIsLaid DEF Waiting
  <1>2. /\ w.cells \in Seq(Cell) /\ Len(w.cells) \in Nat /\ n \in Nat \ {0}
        /\ m \in Nat /\ t \in Nat /\ m <= t /\ t <= Len(w.cells)
        /\ \A i \in 1..n : w.starts[i] = At(w, i)
        /\ \A i \in 1..(n + 1) : At(w, i) \in Nat
    BY <1>1 DEF Laid, Waiting
  <1>3. m + p \in 0..(Len(w.cells) - 1) /\ m + p + 1 \in 1..Len(w.cells)
    BY <1>2
  <1>4. b[p + 1] = w.cells[m + p + 1]
    BY WaitingCells
  <1> HIDE DEF b
  <1>5. w.cells[m + p + 1] \in Cell
    BY <1>2, <1>3, ElementOfSeq
  <1>6. ParsesAt(b, p) <=> w.cells[m + p + 1] \in Header
    BY <1>4, <1>5, CellsAssumption DEF ParsesAt, Cell
  <1>7. ASSUME w.cells[m + p + 1] \in Header,
               ~\E i \in 1..n : m + p = At(w, i)
        PROVE  Garbage(w, m + p)
    <2>1. \A x \in DOMAIN w.cells : w.cells[x] \in Header =>
             \/ \E i \in 1..n : x = w.starts[i] + 1
             \/ /\ x <= w.starts[1] /\ w.cells[x].payload
                /\ \A q \in (x + 1)..Len(w.cells) :
                      w.cells[q] \in Header => ~Follows(w.cells[x], w.cells[q])
      BY <1>1 DEF Intact
    <2>2. m + p + 1 \in DOMAIN w.cells
      BY <1>2, <1>3, LenProperties
    <2>3. ~\E i \in 1..n : m + p + 1 = w.starts[i] + 1
      <3>1. \A i \in 1..n : w.starts[i] \in Nat
        BY <1>2
      <3>2. \A x \in Nat : m + p + 1 = x + 1 => m + p = x
        BY <1>2
      <3> QED BY <1>2, <1>7, <3>1, <3>2
    <2>4. /\ m + p + 1 <= w.starts[1] /\ w.cells[m + p + 1].payload
          /\ \A q \in (m + p + 1 + 1)..Len(w.cells) :
                w.cells[q] \in Header =>
                   ~Follows(w.cells[m + p + 1], w.cells[q])
      BY <1>7, <2>1, <2>2, <2>3
    <2>5. m + p < At(w, 1)
      <3>1. w.starts[1] = At(w, 1) /\ At(w, 1) \in Nat
        BY <1>2
      <3> QED BY <1>2, <2>4, <3>1
    <2>6. \A q \in (m + p + 1)..(Len(w.cells) - 1) :
             q + 1 \in (m + p + 1 + 1)..Len(w.cells)
      BY <1>2
    <2> QED BY <2>4, <2>5, <2>6 DEF Garbage
  <1> QED BY <1>3, <1>4, <1>6, <1>7 DEF HeaderIn, b, n

\* The packets behind the i-th with its PID that end in front of position e.
Later(w, i, e) ==
    {j \in (i + 1)..Len(w.starts) :
        PidOn(w, j) = PidOn(w, i) /\ At(w, j) + PacketSize <= e}

\* The least position of found is where the least packet of later is, if any.
Finds(found, later, w, m) ==
    /\ found = {} <=> later = {}
    /\ later # {} => /\ Min(later) \in later
                     /\ \A j \in later : Min(later) <= j
                     /\ Min(found) = At(w, Min(later)) - m

\* From a packet of an intact stream on, the search finds the next one of its
\* PID, if it ends inside the search window, and nothing else.
LEMMA NextOfPid ==
    ASSUME NEW w, NEW m, NEW t, Waiting(w, m, t),
           NEW i \in 1..Len(w.starts), m <= At(w, i),
           At(w, i) + PacketSize <= t,
           NEW last, last = At(w, i) - m,
           NEW from \in (last + 1)..(last + PacketSize),
           NEW limit \in 0..(t - m)
    PROVE  Finds(Successors(SubSeq(w.cells, m + 1, t), last, from, limit),
                 Later(w, i, m + limit), w, m)
  <1> DEFINE b == SubSeq(w.cells, m + 1, t)
             n == Len(w.starts)
             found == Successors(b, last, from, limit)
             later == Later(w, i, m + limit)
  <1>1. Laid(w) /\ Intact(w)
    BY IntactIsLaid DEF Waiting
  <1>2. /\ Len(w.cells) \in Nat /\ n \in Nat \ {0} /\ PacketSize \in Nat \ {0}
        /\ m \in Nat /\ t \in Nat /\ m <= t /\ t <= Len(w.cells)
        /\ \A j \in 1..n : w.starts[j] = At(w, j)
        /\ \A j \in 1..(n + 1) : At(w, j) \in Nat
        /\ \A j, k \in 1..(n + 1) :
              j < k <=> At(w, j) + PacketSize <= At(w, k)
    <2>1. /\ Len(w.cells) \in Nat /\ n \in Nat \ {0}
          /\ \A j \in 1..n : w.starts[j] = At(w, j)
          /\ \A j \in 1..(n + 1) : At(w, j) \in Nat
          /\ \A j, k \in 1..(n + 1) :
                j < k <=> At(w, j) + PacketSize <= At(w, k)
      BY <1>1, Zenon DEF Laid
    <2>2. m \in Nat /\ t \in Nat /\ m <= t /\ t <= Len(w.cells)
      BY DEF Waiting
    <2> QED BY <2>1, <2>2, SizesAssumption
  <1> HIDE DEF n
  <1>n. /\ PacketSize \in Nat \ {0} /\ m \in Nat /\ t \in Nat /\ m <= t
        /\ n \in Nat \ {0}
    BY <1>2
  <1>3. /\ last \in Nat /\ m + last = At(w, i) /\ last \in 0..(t - m - 1)
        /\ from \in Nat /\ last < from /\ from <= last + PacketSize
        /\ limit \in Nat /\ limit <= t - m
    <2>1. At(w, i) \in Nat
      BY <1>2 DEF n
    <2>2. /\ PacketSize \in Nat \ {0} /\ m \in Nat /\ t \in Nat /\ m <= t
      BY <1>2
    <2> QED BY <2>1, <2>2, SMTT(30)
  <1>4. \A j \in 1..n :
           /\ HeaderOn(w, j) = w.cells[At(w, j) + 1]
           /\ HeaderOn(w, j) \in Header /\ HeaderOn(w, j).payload
    BY <1>1, <1>2 DEF Intact, HeaderOn, n
  <1>0. \A p \in 0..(t - m - 1) : HeaderIn(b, p, w, m)
    BY WaitingHeaders
  <1> HIDE DEF b
  <1>5. b[last + 1] = HeaderOn(w, i)
    <2>1. b[last + 1] = w.cells[m + last + 1]
      BY <1>0, <1>3 DEF HeaderIn
    <2> QED BY <1>3, <1>4, <2>1 DEF n
  <1>a. \A x, y \in Nat :
           /\ m + x = y => x = y - m
           /\ x + PacketSize <= limit /\ m + x = y
                 => y + PacketSize <= m + limit
           /\ x + PacketSize <= y /\ y + PacketSize <= m + limit
                 => x + PacketSize <= m + limit
    BY <1>n, <1>3, SMTT(30)
  <1>b. \A y \in Nat :
           m + last + PacketSize <= y /\ y + PacketSize <= m + limit =>
              /\ y - m \in Nat /\ m + (y - m) = y
              /\ y - m \in from..(limit - PacketSize)
              /\ y - m \in 0..(t - m - 1)
    BY <1>n, <1>3, SMTT(30)
  <1>6. ASSUME NEW q \in found PROVE \E j \in later : q = At(w, j) - m
    <2>1. /\ q \in from..(limit - PacketSize) /\ ParsesAt(b, q)
          /\ belongsToSameIteration(b[last + 1], b[q + 1])
      BY <1>6 DEF Successors
    <2>2. q \in 0..(t - m - 1) /\ q \in Nat /\ last < q
          /\ q + PacketSize <= limit
      BY <1>n, <1>3, <2>1, SMTT(30)
    <2>3. ~(m + q < At(w, 1))
      <3>1. i = 1 \/ At(w, 1) + PacketSize <= At(w, i)
        <4>1. 1 \in 1..(n + 1) /\ i \in 1..(n + 1) /\ (i = 1 \/ 1 < i)
          BY <1>2 DEF n
        <4> QED BY <1>2, <4>1
      <3>2. At(w, 1) \in Nat
        BY <1>2
      <3> QED BY <1>n, <1>3, <2>2, <3>1, <3>2, SMTT(30)
    <2>4. PICK j \in 1..n : m + q = At(w, j)
      BY <1>0, <2>1, <2>2, <2>3, SMTT(30) DEF HeaderIn, Garbage, n
    <2>5. b[q + 1] = HeaderOn(w, j)
      <3>1. b[q + 1] = w.cells[m + q + 1]
        BY <1>0, <2>2 DEF HeaderIn
      <3> QED BY <1>4, <2>4, <3>1
    <2>6. PidOn(w, j) = PidOn(w, i)
      BY <1>4, <1>5, <2>1, <2>5 DEF belongsToSameIteration, PidOn, n
    <2>7. i < j
      <3>1. j \in 1..(n + 1) /\ i \in 1..(n + 1) /\ (i < j \/ i = j \/ j < i)
        BY <1>2 DEF n
      <3>2. At(w, i) \in Nat /\ At(w, j) \in Nat /\ At(w, i) < At(w, j)
        <4>1. At(w, i) \in Nat /\ At(w, j) \in Nat
          BY <1>2, <3>1
        <4> QED BY <1>n, <1>3, <2>2, <2>4, <4>1, SMTT(30)
      <3>3. j < i => At(w, j) + PacketSize <= At(w, i)
        BY <1>2, <3>1, Zenon
      <3> QED BY <1>n, <3>1, <3>2, <3>3, SMTT(30)
    <2>8. j \in later /\ q = At(w, j) - m
      <3>1. At(w, j) \in Nat
        BY <1>2
      <3>2. At(w, j) + PacketSize <= m + limit /\ q = At(w, j) - m
        BY <1>a, <2>2, <2>4, <3>1, Zenon
      <3>3. j \in (i + 1)..n
        BY <1>n, <2>7
      <3> QED BY <2>6, <3>2, <3>3 DEF Later, n
    <2> QED BY <2>8
  <1>7. later \in SUBSET Nat
    BY DEF Later
  <1>8. later # {} => Min(later) \in later /\ \A j \in later : Min(later) <= j
    BY <1>7, MinInSet
  <1>9. ASSUME later # {} PROVE At(w, Min(later)) - m \in found
    <2> DEFINE j == Min(later)
    <2>1. j \in later /\ \A k \in later : j <= k
      BY <1>8, <1>9
    <2> HIDE DEF j
    <2>2. /\ j \in 1..n /\ i < j /\ i \in 1..n /\ PidOn(w, j) = PidOn(w, i)
          /\ At(w, j) + PacketSize <= m + limit
      BY <1>2, <2>1 DEF Later, n
    <2>3. \A k \in i..j : PidOn(w, k) = PidOn(w, i) <=> k \in {i, j}
      <3> SUFFICES ASSUME NEW k \in i..j, PidOn(w, k) = PidOn(w, i),
                          k # i, k # j
                   PROVE  FALSE
        BY <2>2
      <3>1. k \in (i + 1)..n /\ k < j /\ k \in 1..(n + 1) /\ j \in 1..(n + 1)
        BY <1>2, <2>2
      <3>2. At(w, k) + PacketSize <= At(w, j)
        BY <1>2, <3>1
      <3>3. At(w, k) + PacketSize <= m + limit
        <4>1. At(w, k) \in Nat /\ At(w, j) \in Nat
          BY <1>2, <3>1
        <4> QED BY <1>a, <2>2, <3>2, <4>1, Zenon
      <3>4. k \in later
        BY <3>1, <3>3 DEF Later, n
      <3> QED BY <2>1, <2>2, <3>1, <3>4
    <2>4. {k \in i..j : PidOn(w, k) = PidOn(w, i)} = {i, j}
      <3>1. i \in i..j /\ j \in i..j
        BY <2>2
      <3> QED BY <2>3, <3>1
    <2>5. Follows(HeaderOn(w, i), HeaderOn(w, j))
      BY <1>1, <2>2, <2>4 DEF Intact, n
    <2> DEFINE q == At(w, j) - m
    <2>6. /\ q \in Nat /\ m + q = At(w, j)
          /\ q \in from..(limit - PacketSize) /\ q \in 0..(t - m - 1)
      <3>0. i \in 1..(n + 1) /\ j \in 1..(n + 1)
        BY <1>n, <2>2
      <3>1. At(w, j) \in Nat /\ At(w, i) \in Nat
        BY <1>2, <3>0, Zenon
      <3>2. At(w, i) + PacketSize <= At(w, j)
        BY <1>2, <2>2, <3>0, Zenon
      <3>3. m + last + PacketSize <= At(w, j)
        BY <1>n, <1>3, <3>1, <3>2, SMTT(30)
      <3> QED BY <1>b, <2>2, <3>1, <3>3, Zenon
    <2> HIDE DEF q
    <2>7. b[q + 1] = HeaderOn(w, j) /\ ParsesAt(b, q)
      <3>1. b[q + 1] = w.cells[m + q + 1]
            /\ (ParsesAt(b, q) <=> w.cells[m + q + 1] \in Header)
        BY <1>0, <2>6 DEF HeaderIn
      <3> QED BY <1>4, <2>2, <2>6, <3>1
    <2>8. belongsToSameIteration(b[last + 1], b[q + 1])
      BY <1>5, <2>5, <2>7 DEF Follows, belongsToSameIteration
    <2>9. q \in found
      BY <2>6, <2>7, <2>8 DEF Successors
    <2> QED BY <2>9 DEF q, j
  <1>10. ASSUME later # {} PROVE Min(found) = At(w, Min(later)) - m
    <2> DEFINE j == Min(later)
               q == At(w, j) - m
    <2>1. q \in found /\ j \in later /\ \A k \in later : j <= k
      BY <1>8, <1>9, <1>10
    <2>2. found \in SUBSET Nat
      BY <1>3 DEF Successors
    <2>3. Min(found) \in found /\ \A x \in found : Min(found) <= x
      BY <2>1, <2>2, MinInSet
    <2>4. PICK k \in later : Min(found) = At(w, k) - m
      BY <1>6, <2>3
    <2> HIDE DEF j, found
    <2>5. j \in 1..(n + 1) /\ k \in 1..(n + 1) /\ j <= k
      <3>1. \A x \in later : x \in 1..(n + 1)
        BY <1>2 DEF Later, n
      <3> HIDE DEF later
      <3> QED BY <2>1, <2>4, <3>1
    <2>6. At(w, j) \in Nat /\ At(w, k) \in Nat
      BY <1>2, <2>5
    <2>7. At(w, j) <= At(w, k)
      <3>1. j = k \/ At(w, j) + PacketSize <= At(w, k)
        BY <1>2, <2>5
      <3> QED BY <1>2, <2>6, <3>1
    <2>8. At(w, k) - m <= q
      BY <2>1, <2>3, <2>4
    <2>9. At(w, k) - m = q
      BY <1>2, <2>6, <2>7, <2>8
    <2> QED BY <2>4, <2>9 DEF j, found
  <1>11. found = {} <=> later = {}
    BY <1>6, <1>9
  <1> QED BY <1>8, <1>10, <1>11 DEF b, Finds

\* The packets of packet i's PID from it up to packet j
SamePid(w, i, j) == {k \in i..j : PidOn(w, k) = PidOn(w, i)}
CountOf(w, i, j) == Cardinality(SamePid(w, i, j))

LEMMA SamePidCounts ==
    ASSUME NEW w, NEW i \in Nat, NEW j \in Nat, NEW l \in Nat, i <= j, j <= l
    PROVE  /\ CountOf(w, i, j) \in Nat
           /\ CountOf(w, i, i) = 1
           /\ CountOf(w, i, j) <= CountOf(w, i, l)
           /\ (\A k \in (j + 1)..l : PidOn(w, k) # PidOn(w, i))
                 => CountOf(w, i, l) = CountOf(w, i, j)
           /\ (j < l /\ PidOn(w, l) = PidOn(w, i)
                     /\ \A k \in (j + 1)..(l - 1) : PidOn(w, k) # PidOn(w, i))
                 => CountOf(w, i, l) = CountOf(w, i, j) + 1
  <1>1. ASSUME NEW x \in Nat
        PROVE  /\ IsFiniteSet(SamePid(w, i, x))
               /\ CountOf(w, i, x) \in Nat
    <2>1. IsFiniteSet(i..x) /\ SamePid(w, i, x) \in SUBSET (i..x)
      BY FS_Interval DEF SamePid
    <2> QED BY <2>1, FS_Subset, FS_CardinalityType DEF CountOf
  <1>2. CountOf(w, i, i) = 1
    <2>1. SamePid(w, i, i) = {i}
      BY DEF SamePid
    <2> QED BY <2>1, FS_Singleton DEF CountOf
  <1>3. CountOf(w, i, j) <= CountOf(w, i, l)
    <2>1. SamePid(w, i, j) \in SUBSET SamePid(w, i, l)
      BY DEF SamePid
    <2> QED BY <1>1, <2>1, FS_Subset DEF CountOf
  <1>4. ASSUME \A k \in (j + 1)..l : PidOn(w, k) # PidOn(w, i)
        PROVE  CountOf(w, i, l) = CountOf(w, i, j)
    <2>1. \A k \in i..l : k \in i..j \/ k \in (j + 1)..l
      OBVIOUS
    <2>2. \A k \in i..j : k \in i..l
      OBVIOUS
    <2>3. SamePid(w, i, l) = SamePid(w, i, j)
      BY <1>4, <2>1, <2>2 DEF SamePid
    <2> QED BY <2>3 DEF CountOf
  <1>5. ASSUME j < l, PidOn(w, l) = PidOn(w, i),
               \A k \in (j + 1)..(l - 1) : PidOn(w, k) # PidOn(w, i)
        PROVE  CountOf(w, i, l) = CountOf(w, i, j) + 1
    <2>1. \A k \in i..l : k \in i..j \/ k \in (j + 1)..(l - 1) \/ k = l
      OBVIOUS
    <2>2. l \in i..l /\ l \notin i..j /\ \A k \in i..j : k \in i..l
      BY <1>5
    <2>3. SamePid(w, i, l) = SamePid(w, i, j) \cup {l}
      BY <1>5, <2>1, <2>2 DEF SamePid
    <2>4. l \notin SamePid(w, i, j)
      BY <2>2 DEF SamePid
    <2> QED BY <1>1, <2>3, <2>4, FS_AddElement DEF CountOf
  <1> QED BY <1>1, <1>2, <1>3, <1>4, <1>5

\* Where the search window of packet i ends, a packets having arrived
WindowEnd(i, a) ==
    IF a < i + SearchPackets - 1 THEN a ELSE i + SearchPackets - 1

LEMMA WindowHolds ==
    ASSUME NEW w, NEW m, NEW t, Waiting(w, m, t),
           NEW i \in 1..ArrivedBy(w, t), m <= At(w, i)
    PROVE  LET last == At(w, i) - m
               limit == Min({last + PacketSize * SearchPackets, t - m})
           IN  /\ last \in Nat /\ limit \in 0..(t - m)
               /\ WindowEnd(i, ArrivedBy(w, t)) \in i..ArrivedBy(w, t)
               /\ \A j \in i..Len(w.starts) :
                     At(w, j) + PacketSize <= m + limit
                        <=> j <= WindowEnd(i, ArrivedBy(w, t))
  <1> DEFINE n == Len(w.starts)
             a == ArrivedBy(w, t)
             last == At(w, i) - m
             width == SearchPackets * PacketSize
             limit == Min({last + PacketSize * SearchPackets, t - m})
  <1>1. Laid(w)
    BY IntactIsLaid DEF Waiting
  <1>2. /\ n \in Nat \ {0} /\ PacketSize \in Nat \ {0}
        /\ SearchPackets \in Nat \ {0}
        /\ m \in Nat /\ t \in Nat /\ m <= t /\ t \in 0..Len(w.cells)
        /\ \A j \in 1..(n + 1) : At(w, j) \in Nat
        /\ \A j \in 1..(n + 1), k \in Nat :
              At(w, j) + k * PacketSize = At(w, j + k)
    BY <1>1, SizesAssumption DEF Laid, Waiting
  <1>3. /\ a \in 0..n /\ i \in 1..n /\ i \in 1..(n + 1) /\ i <= a
        /\ \A j \in 1..n : j <= a <=> At(w, j) + PacketSize <= t
    <2>1. /\ a \in 0..n
          /\ \A j \in 1..n : j <= a <=> At(w, j) + PacketSize <= t
      BY <1>1, <1>2, ArrivedAre
    <2> HIDE DEF n
    <2> QED BY <1>2, <2>1
  <1>4. width \in Nat /\ PacketSize * SearchPackets = width
    BY <1>2
  <1>5. At(w, i) \in Nat /\ last \in Nat /\ m + last = At(w, i)
    <2>1. At(w, i) \in Nat
      BY <1>2, <1>3
    <2> QED BY <1>2, <2>1
  <1> HIDE DEF n, a, width, last
  <1>6. limit \in {last + width, t - m} /\ limit <= last + width
        /\ limit <= t - m
    <2>1. {last + width, t - m} \in SUBSET Nat
      BY <1>2, <1>4, <1>5
    <2> QED BY <1>4, <2>1, MinInSet
  <1>7. limit \in 0..(t - m)
    BY <1>2, <1>4, <1>5, <1>6
  <1> HIDE DEF limit
  <1>8. WindowEnd(i, a) \in i..a
    BY <1>2, <1>3 DEF WindowEnd
  <1>9. ASSUME NEW j \in i..n
        PROVE  At(w, j) + PacketSize <= m + limit <=> j <= WindowEnd(i, a)
    <2>1. j \in 1..n /\ j - i \in Nat /\ j = i + (j - i) /\ j \in 1..(n + 1)
      BY <1>2, <1>3
    <2> DEFINE d == (j - i) * PacketSize
    <2>2. At(w, j) = At(w, i) + d /\ d \in Nat
      <3>1. At(w, i) + (j - i) * PacketSize = At(w, i + (j - i))
        BY <1>2, <1>3, <2>1
      <3> QED BY <1>2, <2>1, <3>1
    <2>3. j - i < SearchPackets <=> d + PacketSize <= width
      BY <1>2, <2>1, Times DEF width
    <2> HIDE DEF d
    <2>4. j <= a <=> At(w, j) + PacketSize <= t
      BY <1>3, <2>1
    <2>5. j <= WindowEnd(i, a) <=> j <= a /\ j - i < SearchPackets
      BY <1>2, <1>3, <2>1 DEF WindowEnd
    <2>6. At(w, j) + PacketSize <= m + limit <=>
             /\ At(w, j) + PacketSize <= t
             /\ d + PacketSize <= width
      <3>1. m + limit = At(w, i) + width \/ m + limit = t
        BY <1>2, <1>4, <1>5, <1>6
      <3>2. m + limit <= At(w, i) + width /\ m + limit <= t
        BY <1>2, <1>4, <1>5, <1>6, <1>7
      <3>3. m + limit \in Nat /\ At(w, j) \in Nat
        BY <1>2, <1>7, <2>1
      <3> DEFINE x == m + limit
                 y == At(w, i)
                 z == At(w, j)
      <3> HIDE DEF x, y, z
      <3>4. /\ x \in Nat /\ y \in Nat /\ z = y + d /\ d \in Nat
            /\ (x = y + width \/ x = t) /\ x <= y + width /\ x <= t
        BY <1>5, <2>2, <3>1, <3>2, <3>3 DEF x, y, z
      <3>5. z + PacketSize <= x <=>
               z + PacketSize <= t /\ d + PacketSize <= width
        BY <1>2, <1>4, <3>4
      <3> QED BY <3>5 DEF x, y, z
    <2> QED BY <2>3, <2>4, <2>5, <2>6
  <1> QED BY <1>5, <1>7, <1>8, <1>9 DEF n, a, last, limit

\* The candidates as defined: a function f of k with f[k] found from f[k - 1]
Candidate(f, k, b, start, limit) ==
    IF k = 1 THEN start ELSE NextCandidate(b, k, f[k - 1], limit)

Chain(f, n, b, start, limit) ==
    /\ f = [k \in 1..ValidationDepth |-> f[k]]
    /\ \A k \in 1..ValidationDepth :
          k <= n => f[k] = Candidate(f, k, b, start, limit)

LEMMA ChainsExist ==
    ASSUME NEW b, NEW start, NEW limit
    PROVE  \E f : f = [k \in 1..ValidationDepth |->
                          Candidate(f, k, b, start, limit)]
  <1> DEFINE S == {n \in Nat : \E f : Chain(f, n, b, start, limit)}
  <1>1. ValidationDepth \in Nat \ {0}
    BY SizesAssumption
  <1>2. 0 \in S
    <2> DEFINE f == [k \in 1..ValidationDepth |-> start]
    <2>1. Chain(f, 0, b, start, limit)
      BY DEF Chain
    <2> QED BY <2>1
  <1>3. ASSUME NEW n \in 0..(ValidationDepth - 1), n \in S PROVE n + 1 \in S
    <2>1. PICK f : Chain(f, n, b, start, limit)
      BY <1>3
    <2> DEFINE g == [k \in 1..ValidationDepth |->
                        IF k <= n THEN f[k]
                        ELSE Candidate(f, k, b, start, limit)]
    <2>2. \A k \in 1..ValidationDepth : k <= n => g[k] = f[k]
      OBVIOUS
    <2>3. g = [k \in 1..ValidationDepth |-> g[k]]
      OBVIOUS
    <2>4. ASSUME NEW k \in 1..ValidationDepth, k <= n + 1
          PROVE  g[k] = Candidate(g, k, b, start, limit)
      <3>1. g[k] = Candidate(f, k, b, start, limit)
        BY <2>1 DEF Chain
      <3> HIDE DEF g
      <3>2. k = 1 \/ (k - 1 \in 1..ValidationDepth /\ k - 1 <= n)
        BY <1>1, <2>4
      <3>3. Candidate(f, k, b, start, limit) = Candidate(g, k, b, start, limit)
        BY <2>2, <3>2 DEF Candidate
      <3> QED BY <3>1, <3>3
    <2> HIDE DEF g
    <2>5. Chain(g, n + 1, b, start, limit)
      BY <2>3, <2>4 DEF Chain
    <2>6. n + 1 \in Nat
      BY <1>1
    <2> QED BY <2>5, <2>6
  <1> HIDE DEF S
  <1>4. ValidationDepth \in S
    <2>1. ValidationDepth \in Nat /\ 0 \in Nat
          /\ ValidationDepth \in 0..ValidationDepth
      BY <1>1
    <2>2. \A k \in 0..ValidationDepth : k \in S
      BY <1>2, <1>3, <2>1, UpTo
    <2> QED BY <2>1, <2>2
  <1>5. PICK f : Chain(f, ValidationDepth, b, start, limit)
    BY <1>4 DEF S
  <1>6. \A k \in 1..ValidationDepth : f[k] = Candidate(f, k, b, start, limit)
    BY <1>1, <1>5 DEF Chain
  <1>7. f = [k \in 1..ValidationDepth |-> Candidate(f, k, b, start, limit)]
    BY <1>5, <1>6 DEF Chain
  <1> QED BY <1>7

LEMMA CandidatesAre ==
    ASSUME NEW b, NEW start
    PROVE  LET pos == Candidates(b, start)
               limit == Min({start + PacketSize * SearchPackets, Len(b)})
           IN  \A k \in 1..ValidationDepth :
                  pos[k] = IF k = 1 THEN start
                           ELSE NextCandidate(b, k, pos[k - 1], limit)
  <1> DEFINE limit == Min({start + PacketSize * SearchPackets, Len(b)})
             IsChain(f) == f = [k \in 1..ValidationDepth |->
                                   Candidate(f, k, b, start, limit)]
             pos == CHOOSE f : IsChain(f)
  <1>1. Candidates(b, start) = pos
    BY DEF Candidates, Candidate
  <1>2. \E f : IsChain(f)
    BY ChainsExist
  <1>3. IsChain(pos)
    BY <1>2
  <1> HIDE DEF pos, limit
  <1>4. \A k \in 1..ValidationDepth :
           pos[k] = Candidate(pos, k, b, start, limit)
    BY <1>3
  <1> QED BY <1>1, <1>4 DEF Candidate, limit

\* The candidate c behind packet j: the next packet of its PID up to packet e,
\* the last one inside the window, or none.
NextIs(c, w, m, j, e) ==
    \/ /\ c = -1
       /\ \A l \in (j + 1)..e : PidOn(w, l) # PidOn(w, j)
    \/ \E l \in (j + 1)..e :
          /\ c = At(w, l) - m
          /\ PidOn(w, l) = PidOn(w, j)
          /\ \A x \in (j + 1)..(l - 1) : PidOn(w, x) # PidOn(w, j)

LEMMA CandidateBehind ==
    ASSUME NEW w, NEW m, NEW t, Waiting(w, m, t),
           NEW i \in 1..Len(w.starts), NEW e \in i..Len(w.starts),
           NEW j \in i..e, m <= At(w, j), At(w, e) + PacketSize <= t,
           NEW limit \in 0..(t - m),
           \A l \in i..Len(w.starts) :
              At(w, l) + PacketSize <= m + limit <=> l <= e,
           NEW k \in Nat
    PROVE  NextIs(NextCandidate(SubSeq(w.cells, m + 1, t), k,
                                At(w, j) - m, limit), w, m, j, e)
  <1> DEFINE n == Len(w.starts)
             b == SubSeq(w.cells, m + 1, t)
             last == At(w, j) - m
             from == IF k = 2 THEN last + 1 ELSE last + PacketSize
             found == Successors(b, last, from, limit)
             later == Later(w, j, m + limit)
             c == NextCandidate(b, k, last, limit)
  <1>1. Laid(w)
    BY IntactIsLaid DEF Waiting
  <1>2. /\ n \in Nat \ {0} /\ PacketSize \in Nat \ {0}
        /\ m \in Nat /\ t \in Nat
        /\ \A l \in 1..(n + 1) : At(w, l) \in Nat
        /\ \A l, x \in 1..(n + 1) :
              l < x <=> At(w, l) + PacketSize <= At(w, x)
    BY <1>1, SizesAssumption DEF Laid, Waiting
  <1> HIDE DEF n
  <1>3. i \in 1..n /\ e \in i..n /\ j \in 1..n /\ j \in 1..(n + 1)
        /\ e \in 1..(n + 1)
    <2>1. i \in 1..n /\ e \in i..n
      BY DEF n
    <2> QED BY <1>2, <2>1
  <1>4. At(w, j) \in Nat /\ last \in Nat /\ last # -1
    <2>1. At(w, j) \in Nat
      BY <1>2, <1>3
    <2> QED BY <1>2, <2>1
  <1>5. At(w, j) + PacketSize <= t
    <2>1. j = e \/ At(w, j) + PacketSize <= At(w, e)
      BY <1>2, <1>3
    <2>2. At(w, e) \in Nat
      BY <1>2, <1>3
    <2> QED BY <1>2, <1>4, <2>1, <2>2
  <1> HIDE DEF last
  <1>6. from \in (last + 1)..(last + PacketSize)
    BY <1>2, <1>4
  <1> HIDE DEF from
  <1>7. c = IF found = {} THEN -1 ELSE Min(found)
    BY <1>4 DEF NextCandidate, from
  <1>8. /\ found = {} <=> later = {}
        /\ later # {} => /\ Min(later) \in later
                         /\ \A l \in later : Min(later) <= l
                         /\ Min(found) = At(w, Min(later)) - m
    <2>1. j \in 1..Len(w.starts)
      BY <1>3 DEF n
    <2>2. m <= At(w, j) /\ last = At(w, j) - m
      BY DEF last
    <2>3. Finds(Successors(b, last, from, limit), later, w, m)
      <3> HIDE DEF later
      <3>1. Finds(Successors(b, last, from, limit), Later(w, j, m + limit), w, m)
        BY <1>5, <1>6, <2>1, <2>2, NextOfPid, ZenonT(60)
      <3> QED BY <3>1 DEF later
    <2> QED BY <2>3 DEF Finds
  <1>9. \A l : l \in later <=> l \in (j + 1)..e /\ PidOn(w, l) = PidOn(w, j)
    <2>1. \A l : l \in later <=> /\ l \in (j + 1)..n
                                 /\ PidOn(w, l) = PidOn(w, j)
                                 /\ At(w, l) + PacketSize <= m + limit
      BY DEF Later, n
    <2>0. n \in Nat
      BY <1>2
    <2>2. \A l \in (j + 1)..n : l \in i..n
      BY <1>3, <2>0
    <2>3. \A l \in (j + 1)..n : At(w, l) + PacketSize <= m + limit <=> l <= e
      BY <2>2 DEF n
    <2>4. \A l : l \in (j + 1)..e <=> l \in (j + 1)..n /\ l <= e
      BY <1>3, <2>0
    <2> HIDE DEF later
    <2> QED BY <2>1, <2>3, <2>4
  <1> HIDE DEF found, later
  <1>10. CASE later = {}
    <2>1. c = -1
      BY <1>7, <1>8, <1>10
    <2> QED BY <1>9, <1>10, <2>1 DEF NextIs, b, last
  <1>11. CASE later # {}
    <2> DEFINE l == Min(later)
    <2>1. /\ l \in later /\ \A x \in later : l <= x
          /\ c = At(w, l) - m
      BY <1>7, <1>8, <1>11
    <2> HIDE DEF l
    <2>2. l \in (j + 1)..e /\ PidOn(w, l) = PidOn(w, j)
      BY <1>9, <2>1
    <2>3. ASSUME NEW x \in (j + 1)..(l - 1) PROVE PidOn(w, x) # PidOn(w, j)
      <3>1. x \in (j + 1)..e /\ ~(l <= x)
        BY <1>2, <1>3, <2>2
      <3> QED BY <1>9, <2>1, <3>1
    <2> QED BY <2>1, <2>2, <2>3 DEF NextIs, b, last
  <1> QED BY <1>10, <1>11

\* The search from a packet of an intact stream on finds as many packets as it
\* wants if that many of the PID are inside the window.
LEMMA CandidatesOfPacket ==
    ASSUME NEW w, NEW m, NEW t, Waiting(w, m, t),
           NEW i \in 1..ArrivedBy(w, t), m <= At(w, i)
    PROVE  Candidates(SubSeq(w.cells, m + 1, t), At(w, i) - m)
              [ValidationDepth] # -1
             <=> \E j \in i..ArrivedBy(w, t) : Confirms(w, j, i)
  <1> DEFINE n == Len(w.starts)
             a == ArrivedBy(w, t)
             e == WindowEnd(i, a)
             b == SubSeq(w.cells, m + 1, t)
             start == At(w, i) - m
             limit == Min({start + PacketSize * SearchPackets, t - m})
             pos == Candidates(b, start)
             IsFound(k) == \E j \in i..e :
                              /\ pos[k] = At(w, j) - m
                              /\ PidOn(w, j) = PidOn(w, i)
                              /\ CountOf(w, i, j) = k
             IsNone(k) == pos[k] = -1 /\ CountOf(w, i, e) < k
             S == {k \in Nat : IsFound(k) \/ IsNone(k)}
  <1>1. Laid(w)
    BY IntactIsLaid DEF Waiting
  <1>2. /\ n \in Nat \ {0} /\ PacketSize \in Nat \ {0}
        /\ SearchPackets \in Nat \ {0} /\ ValidationDepth \in Nat \ {0}
        /\ m \in Nat /\ t \in Nat /\ t \in 0..Len(w.cells)
        /\ \A l \in 1..(n + 1) : At(w, l) \in Nat
        /\ \A l, x \in 1..(n + 1) :
              l < x <=> At(w, l) + PacketSize <= At(w, x)
    BY <1>1, SizesAssumption DEF Laid, Waiting
  <1>3. /\ a \in 0..n
        /\ \A l \in 1..n : l <= a <=> At(w, l) + PacketSize <= t
    BY <1>1, <1>2, ArrivedAre
  <1>4. /\ start \in Nat /\ limit \in 0..(t - m) /\ e \in i..a
        /\ \A l \in i..n : At(w, l) + PacketSize <= m + limit <=> l <= e
    BY WindowHolds
  <1>5. \A k \in 1..ValidationDepth :
           pos[k] = IF k = 1 THEN start
                    ELSE NextCandidate(b, k, pos[k - 1], limit)
    <2>1. Len(b) = t - m
      BY WaitingCells
    <2> HIDE DEF b, start
    <2>2. Min({start + PacketSize * SearchPackets, Len(b)}) = limit
      BY <2>1
    <2> QED BY <2>2, CandidatesAre
  <1> HIDE DEF n, a, e, limit, pos
  <1>6. i \in 1..n /\ e \in i..n /\ e <= a /\ i \in Nat /\ e \in Nat
    <2>1. i \in 1..a
      BY DEF a
    <2> QED BY <1>2, <1>3, <1>4, <2>1
  <1>c. CountOf(w, i, e) \in Nat
    <2>1. i <= e /\ e <= e
      BY <1>6
    <2> QED BY <1>6, <2>1, SamePidCounts
  <1>7. At(w, e) + PacketSize <= t
    BY <1>2, <1>3, <1>6
  <1>8. \A j \in i..e : At(w, j) \in Nat /\ m <= At(w, j)
    <2> SUFFICES ASSUME NEW j \in i..e
                 PROVE  At(w, j) \in Nat /\ m <= At(w, j)
      OBVIOUS
    <2>1. j \in 1..(n + 1) /\ i \in 1..(n + 1)
      BY <1>2, <1>6
    <2>2. i = j \/ At(w, i) + PacketSize <= At(w, j)
      BY <1>2, <2>1
    <2> QED BY <1>2, <2>1, <2>2
  <1>9. 1 \in S
    <2>1. pos[1] = At(w, i) - m /\ CountOf(w, i, i) = 1 /\ i \in i..e
      BY <1>2, <1>5, <1>6, SamePidCounts
    <2> QED BY <2>1
  <1>10. ASSUME NEW k \in 1..(ValidationDepth - 1), k \in S PROVE k + 1 \in S
    <2>1. /\ k + 1 \in Nat /\ k \in Nat /\ k + 1 \in 1..ValidationDepth
          /\ pos[k + 1] = NextCandidate(b, k + 1, pos[k], limit)
      <3>1. /\ k + 1 \in Nat /\ k + 1 # 1 /\ k + 1 \in 1..ValidationDepth
            /\ (k + 1) - 1 = k /\ k \in Nat
        BY <1>2
      <3> QED BY <1>5, <3>1
    <2>2. CASE IsNone(k)
      <3>1. pos[k + 1] = -1
        BY <2>1, <2>2 DEF NextCandidate
      <3>2. CountOf(w, i, e) \in Nat
        BY <1>c
      <3>3. CountOf(w, i, e) < k + 1
        BY <2>1, <2>2, <3>2
      <3> QED BY <2>1, <3>1, <3>3
    <2>3. CASE IsFound(k)
      <3>1. PICK j \in i..e : /\ pos[k] = At(w, j) - m
                              /\ PidOn(w, j) = PidOn(w, i)
                              /\ CountOf(w, i, j) = k
        BY <2>3
      <3> DEFINE c == pos[k + 1]
      <3>2. NextIs(c, w, m, j, e)
        <4>1. c = NextCandidate(b, k + 1, At(w, j) - m, limit)
          BY <2>1, <3>1
        <4>2. /\ i \in 1..Len(w.starts) /\ e \in i..Len(w.starts)
              /\ \A l \in i..Len(w.starts) :
                    At(w, l) + PacketSize <= m + limit <=> l <= e
          BY <1>4, <1>6 DEF n
        <4> HIDE DEF c
        <4> QED BY <1>4, <1>7, <1>8, <2>1, <4>1, <4>2, CandidateBehind
      <3> HIDE DEF c
      <3>3. j \in Nat /\ i <= j /\ j <= e
        BY <1>6
      <3>4. CASE /\ c = -1
                 /\ \A l \in (j + 1)..e : PidOn(w, l) # PidOn(w, j)
        <4>1. CountOf(w, i, e) = CountOf(w, i, j)
          BY <1>6, <3>1, <3>3, <3>4, SamePidCounts
        <4>2. IsNone(k + 1)
          BY <2>1, <3>1, <3>4, <4>1 DEF c
        <4> QED BY <2>1, <4>2
      <3>5. CASE \E l \in (j + 1)..e :
                    /\ c = At(w, l) - m
                    /\ PidOn(w, l) = PidOn(w, j)
                    /\ \A x \in (j + 1)..(l - 1) : PidOn(w, x) # PidOn(w, j)
        <4>1. PICK l \in (j + 1)..e :
                 /\ c = At(w, l) - m
                 /\ PidOn(w, l) = PidOn(w, j)
                 /\ \A x \in (j + 1)..(l - 1) : PidOn(w, x) # PidOn(w, j)
          BY <3>5
        <4>2. l \in Nat /\ j < l /\ j <= l /\ l \in i..e
          BY <1>6, <3>3
        <4>3. CountOf(w, i, l) = k + 1
          BY <1>6, <3>1, <3>3, <4>1, <4>2, SamePidCounts
        <4>4. IsFound(k + 1)
          BY <3>1, <4>1, <4>2, <4>3 DEF c
        <4> QED BY <2>1, <4>4
      <3> QED BY <3>2, <3>4, <3>5 DEF NextIs
    <2> QED BY <1>10, <2>2, <2>3
  <1>11. IsFound(ValidationDepth) \/ IsNone(ValidationDepth)
    <2> HIDE DEF S
    <2>1. ValidationDepth \in Nat /\ 1 \in Nat
          /\ ValidationDepth \in 1..ValidationDepth
      BY <1>2
    <2>2. \A k \in 1..ValidationDepth : k \in S
      BY <1>9, <1>10, <2>1, UpTo
    <2> QED BY <2>1, <2>2 DEF S
  <1>12. ASSUME NEW j \in i..a
         PROVE  Confirms(w, j, i) <=> /\ j \in i..e
                                      /\ PidOn(w, j) = PidOn(w, i)
                                      /\ CountOf(w, i, j) = ValidationDepth
    <2>1. j < i + SearchPackets <=> j \in i..e
      BY <1>2, <1>3, <1>6 DEF WindowEnd, e
    <2> QED BY <2>1 DEF Confirms, CountOf, SamePid
  <1>13. \A j \in i..e : j \in i..a
    BY <1>3, <1>6
  <1>14. ASSUME pos[ValidationDepth] # -1
         PROVE  \E j \in i..a : Confirms(w, j, i)
    BY <1>11, <1>12, <1>13, <1>14
  <1>15. ASSUME NEW j \in i..a, Confirms(w, j, i)
         PROVE  pos[ValidationDepth] # -1
    <2>1. j \in i..e /\ CountOf(w, i, j) = ValidationDepth
      BY <1>12, <1>15
    <2>2. ~IsNone(ValidationDepth)
      <3>1. j \in Nat /\ i <= j /\ j <= e
        BY <1>6, <2>1
      <3>2. CountOf(w, i, j) <= CountOf(w, i, e)
        BY <1>6, <3>1, SamePidCounts
      <3>3. CountOf(w, i, e) \in Nat
        BY <1>c
      <3> QED BY <1>2, <2>1, <3>2, <3>3
    <2>3. PICK l \in i..e : pos[ValidationDepth] = At(w, l) - m
      BY <1>11, <2>2
    <2>4. At(w, l) - m \in Nat
      BY <1>2, <1>8, <2>3
    <2> QED BY <2>3, <2>4
  <1> QED BY <1>14, <1>15 DEF a, pos

\* What parses in the garbage begins no sequence of packets.
LEMMA CandidatesOfGarbage ==
    ASSUME NEW w, NEW m, NEW t, Waiting(w, m, t), NEW p \in 0..(t - m - 1),
           ParsesAt(SubSeq(w.cells, m + 1, t), p), Garbage(w, m + p)
    PROVE  Candidates(SubSeq(w.cells, m + 1, t), p)[ValidationDepth] = -1
  <1> DEFINE b == SubSeq(w.cells, m + 1, t)
             limit == Min({p + PacketSize * SearchPackets, Len(b)})
             pos == Candidates(b, p)
             S == {k \in Nat : pos[k] = -1}
  <1>1. /\ \A q \in 0..(t - m - 1) : HeaderIn(b, q, w, m)
        /\ Len(b) = t - m
    BY WaitingHeaders, WaitingCells
  <1>2. /\ m \in Nat /\ t \in Nat /\ m <= t /\ p \in Nat
        /\ PacketSize \in Nat \ {0} /\ SearchPackets \in Nat
        /\ ValidationDepth \in Nat /\ ValidationDepth >= 3
        /\ t <= Len(w.cells) /\ Len(w.cells) \in Nat
    <2>1. Laid(w)
      BY IntactIsLaid DEF Waiting
    <2>2. Len(w.cells) \in Nat
      BY <2>1 DEF Laid
    <2> QED BY <2>2, SizesAssumption, DepthAssumption DEF Waiting
  <1> HIDE DEF b
  <1>3. limit <= t - m
    <2>1. PacketSize * SearchPackets \in Nat
      BY <1>2
    <2>2. {p + PacketSize * SearchPackets, Len(b)} \in SUBSET Nat
      BY <1>1, <1>2, <2>1
    <2> QED BY <1>1, <2>2, MinInSet
  <1>4. \A k \in 1..ValidationDepth :
           pos[k] = IF k = 1 THEN p ELSE NextCandidate(b, k, pos[k - 1], limit)
    BY CandidatesAre
  <1>5. limit \in Nat
    <2>1. PacketSize * SearchPackets \in Nat
      BY <1>2
    <2>2. {p + PacketSize * SearchPackets, Len(b)} \in SUBSET Nat
      BY <1>1, <1>2, <2>1
    <2> QED BY <2>2, MinInSet
  <1> HIDE DEF limit, pos
  <1>6. Successors(b, p, p + 1, limit) = {}
    <2> SUFFICES ASSUME NEW q \in Successors(b, p, p + 1, limit) PROVE FALSE
      OBVIOUS
    <2>1. /\ q \in (p + 1)..(limit - PacketSize) /\ ParsesAt(b, q)
          /\ belongsToSameIteration(b[p + 1], b[q + 1])
      BY DEF Successors
    <2>2. q \in 0..(t - m - 1) /\ m + q \in (m + p + 1)..(Len(w.cells) - 1)
      BY <1>2, <1>3, <1>5, <2>1
    <2>3. /\ b[q + 1] = w.cells[m + q + 1] /\ b[p + 1] = w.cells[m + p + 1]
          /\ w.cells[m + q + 1] \in Header
      BY <1>1, <2>1, <2>2 DEF HeaderIn
    <2>4. ~Follows(w.cells[m + p + 1], w.cells[m + q + 1])
      BY <2>2, <2>3 DEF Garbage
    <2>5. w.cells[m + p + 1].payload
      BY DEF Garbage
    <2> QED BY <2>1, <2>3, <2>4, <2>5 DEF belongsToSameIteration, Follows
  <1>7. 2 \in S
    <2>1. pos[1] = p /\ pos[2] = NextCandidate(b, 2, pos[1], limit)
      <3>1. 1 \in 1..ValidationDepth /\ 2 \in 1..ValidationDepth /\ 2 - 1 = 1
        BY <1>2
      <3> QED BY <1>4, <3>1
    <2>2. pos[2] = -1
      BY <1>6, <2>1 DEF NextCandidate
    <2> QED BY <2>2
  <1>8. ASSUME NEW k \in 2..(ValidationDepth - 1), k \in S PROVE k + 1 \in S
    <2>1. /\ k + 1 \in 1..ValidationDepth /\ k + 1 # 1 /\ (k + 1) - 1 = k
          /\ k + 1 \in Nat
      BY <1>2
    <2>2. pos[k + 1] = NextCandidate(b, k + 1, pos[k], limit)
      BY <1>4, <2>1
    <2>3. pos[k + 1] = -1
      BY <1>8, <2>2 DEF NextCandidate
    <2> QED BY <2>1, <2>3
  <1> HIDE DEF S
  <1>9. ValidationDepth \in S
    <2>1. 2 \in Nat /\ ValidationDepth \in 2..ValidationDepth
      BY <1>2
    <2>2. \A k \in 2..ValidationDepth : k \in S
      BY <1>2, <1>7, <1>8, <2>1, UpTo
    <2> QED BY <2>1, <2>2
  <1> QED BY <1>9 DEF S, pos, b

\* A sequence of packets is found exactly where one of the stream can be
\* synchronised to.
LEMMA SyncPointsAre ==
    ASSUME NEW w, NEW m, NEW t, Waiting(w, m, t)
    PROVE  LET b == SubSeq(w.cells, m + 1, t)
           IN  /\ \A i \in SynchronizableBy(w, m, t) :
                     At(w, i) - m \in SyncPoints(b)
               /\ \A p \in SyncPoints(b) :
                     \E i \in SynchronizableBy(w, m, t) : p = At(w, i) - m
  <1> DEFINE n == Len(w.starts)
             a == ArrivedBy(w, t)
             b == SubSeq(w.cells, m + 1, t)
  <1>1. Laid(w) /\ Intact(w)
    BY IntactIsLaid DEF Waiting
  <1>2. /\ n \in Nat \ {0} /\ PacketSize \in Nat \ {0}
        /\ ValidationDepth \in Nat /\ ValidationDepth >= 3
        /\ m \in Nat /\ t \in Nat /\ m <= t /\ t \in 0..Len(w.cells)
        /\ \A l \in 1..n : w.starts[l] = At(w, l)
        /\ \A l \in 1..(n + 1) : At(w, l) \in Nat
        /\ \A l, x \in 1..(n + 1) :
              l < x <=> At(w, l) + PacketSize <= At(w, x)
    BY <1>1, SizesAssumption, DepthAssumption DEF Laid, Waiting
  <1>3. /\ a \in 0..n
        /\ \A l \in 1..n : l <= a <=> At(w, l) + PacketSize <= t
    BY <1>1, <1>2, ArrivedAre
  <1>4. /\ \A q \in 0..(t - m - 1) : HeaderIn(b, q, w, m)
        /\ Len(b) = t - m
    BY WaitingHeaders, WaitingCells
  <1> HIDE DEF n
  <1>5. ASSUME NEW p \in SyncPoints(b)
        PROVE  \E i \in SynchronizableBy(w, m, t) : p = At(w, i) - m
    <2>1. /\ p \in 0..(Len(b) - 3 * PacketSize) /\ ParsesAt(b, p)
          /\ Candidates(b, p)[ValidationDepth] # -1
      BY DEF SyncPoints
    <2>2. p \in Nat /\ p \in 0..(t - m - 1) /\ m + p + PacketSize <= t
      BY <1>2, <1>4, <2>1
    <2>3. ~Garbage(w, m + p)
      BY <2>1, <2>2, CandidatesOfGarbage
    <2>4. PICK i \in 1..n : m + p = At(w, i)
      BY <1>4, <2>1, <2>2, <2>3 DEF HeaderIn, n
    <2>5. i \in 1..a /\ m <= At(w, i) /\ p = At(w, i) - m
      <3>1. i \in 1..(n + 1) /\ At(w, i) \in Nat
        BY <1>2
      <3>2. At(w, i) + PacketSize <= t
        BY <2>2, <2>4
      <3>3. i <= a
        BY <1>3, <3>2
      <3>4. /\ a \in 0..n /\ n \in Nat /\ m \in Nat /\ t \in Nat
        BY <1>2, <1>3
      <3> QED BY <2>2, <2>4, <3>1, <3>3, <3>4
    <2>6. \E j \in i..a : Confirms(w, j, i)
      BY <2>1, <2>5, CandidatesOfPacket
    <2>7. w.starts[i] >= m
      BY <1>2, <2>5
    <2>8. i \in SynchronizableBy(w, m, t)
      BY <2>5, <2>6, <2>7 DEF SynchronizableBy
    <2> QED BY <2>5, <2>8
  <1>6. ASSUME NEW i \in SynchronizableBy(w, m, t)
        PROVE  At(w, i) - m \in SyncPoints(b)
    <2>1. /\ i \in 1..a /\ w.starts[i] >= m
          /\ \E j \in i..a : Confirms(w, j, i)
      BY DEF SynchronizableBy
    <2>2. PICK j \in i..a : Confirms(w, j, i)
      BY <2>1
    <2> HIDE DEF a
    <2>3. /\ i \in 1..n /\ i \in 1..(n + 1) /\ j \in 1..n /\ j \in 1..(n + 1)
          /\ i \in Nat /\ j \in Nat /\ i <= j
      BY <1>2, <1>3, <2>1
    <2>4. At(w, i) \in Nat /\ At(w, j) \in Nat /\ m <= At(w, i)
      BY <1>2, <2>1, <2>3
    <2>5. i + 2 <= j
      <3> DEFINE same == {k \in i..j : PidOn(w, k) = PidOn(w, i)}
      <3>1. Cardinality(same) = ValidationDepth
        BY <2>2 DEF Confirms
      <3>2. /\ IsFiniteSet(i..j)
            /\ Cardinality(i..j) = IF i > j THEN 0 ELSE j - i + 1
        BY <2>3, FS_Interval
      <3>3. Cardinality(same) <= Cardinality(i..j)
        <4>1. same \in SUBSET (i..j)
          OBVIOUS
        <4> HIDE DEF same
        <4> QED BY <3>2, <4>1, FS_Subset
      <3> HIDE DEF same
      <3>4. ValidationDepth <= j - i + 1
        BY <2>3, <3>1, <3>2, <3>3
      <3> QED BY <1>2, <2>3, <3>4
    <2>6. At(w, i) + 3 * PacketSize <= t
      <3>1. i + 1 \in 1..(n + 1)
            /\ At(w, i + 1) \in Nat
            /\ At(w, i) + PacketSize <= At(w, i + 1)
            /\ At(w, i + 1) + PacketSize <= At(w, j)
        <4>1. i + 1 \in 1..(n + 1) /\ i < i + 1 /\ i + 1 < j
          BY <1>2, <2>3, <2>5
        <4> QED BY <1>2, <2>3, <4>1
      <3>2. At(w, j) + PacketSize <= t
        <4>1. j <= a
          BY <1>3, <2>3
        <4> QED BY <1>3, <2>3, <4>1
      <3> QED BY <1>2, <2>4, <3>1, <3>2
    <2> DEFINE p == At(w, i) - m
    <2>7. /\ p \in Nat /\ p \in 0..(Len(b) - 3 * PacketSize)
          /\ p \in 0..(t - m - 1) /\ m + p = At(w, i)
      BY <1>2, <1>4, <2>4, <2>6
    <2> HIDE DEF p
    <2>8. ParsesAt(b, p)
      <3>1. HeaderOn(w, i) \in Header
        BY <1>1, <2>3 DEF Intact, n
      <3>2. HeaderOn(w, i) = w.cells[m + p + 1]
        BY <1>2, <2>3, <2>7 DEF HeaderOn
      <3> QED BY <1>4, <2>7, <3>1, <3>2 DEF HeaderIn
    <2>9. Candidates(b, p)[ValidationDepth] # -1
      BY <2>1, <2>4, CandidatesOfPacket DEF p, a
    <2>10. p \in SyncPoints(b)
      BY <2>7, <2>8, <2>9 DEF SyncPoints
    <2> QED BY <2>10 DEF p
  <1> QED BY <1>5, <1>6 DEF b

\* From the i-th packet on the loop handles all that have arrived, and behind
\* them less than a packet waits.
LEMMA PacketsWaiting ==
    ASSUME NEW w, NEW m, NEW t, Waiting(w, m, t),
           NEW i \in 1..(ArrivedBy(w, t) + 1), m <= At(w, i)
    PROVE  LET b == SubSeq(w.cells, m + 1, t)
               a == ArrivedBy(w, t)
               off == At(w, i) - m
           IN  /\ off \in Nat
               /\ PacketCount(b, off) = a + 1 - i
               /\ off + (a + 1 - i) * PacketSize = At(w, a + 1) - m
               /\ ~((At(w, a + 1) - m) + PacketSize <= Len(b))
  <1> DEFINE n == Len(w.starts)
             a == ArrivedBy(w, t)
             b == SubSeq(w.cells, m + 1, t)
             off == At(w, i) - m
             last == a + 1 - i
             S == {k \in 0..Len(b) : StopsAt(b, off + k * PacketSize)}
  <1>1. Laid(w) /\ Intact(w)
    BY IntactIsLaid DEF Waiting
  <1>2. /\ n \in Nat \ {0} /\ PacketSize \in Nat \ {0}
        /\ m \in Nat /\ t \in Nat /\ m <= t /\ t \in 0..Len(w.cells)
        /\ \A l \in 1..n : w.starts[l] = At(w, l)
        /\ \A l \in 1..(n + 1) : At(w, l) \in Nat
        /\ \A l, x \in 1..(n + 1) :
              l < x <=> At(w, l) + PacketSize <= At(w, x)
        /\ \A l \in 1..(n + 1), k \in Nat :
              At(w, l) + k * PacketSize = At(w, l + k)
    <2>1. /\ n \in Nat \ {0} /\ Len(w.cells) \in Nat
          /\ \A l \in 1..n : w.starts[l] = At(w, l)
          /\ \A l \in 1..(n + 1) : At(w, l) \in Nat
          /\ \A l, x \in 1..(n + 1) :
                l < x <=> At(w, l) + PacketSize <= At(w, x)
          /\ \A l \in 1..(n + 1), k \in Nat :
                At(w, l) + k * PacketSize = At(w, l + k)
      BY <1>1, Zenon DEF Laid
    <2>2. t \in 0..Len(w.cells) /\ m \in 0..t
      BY DEF Waiting
    <2> HIDE DEF n
    <2>3. m \in Nat /\ t \in Nat /\ m <= t
      BY <2>1, <2>2
    <2> QED BY <2>1, <2>2, <2>3, SizesAssumption, Zenon
  <1>3. /\ a \in 0..n
        /\ \A l \in 1..n : l <= a <=> At(w, l) + PacketSize <= t
        /\ t < At(w, a + 1) + PacketSize
    BY <1>1, <1>2, ArrivedAre
  <1>4. /\ \A q \in 0..(t - m - 1) : HeaderIn(b, q, w, m)
        /\ Len(b) = t - m
    BY WaitingHeaders, WaitingCells
  <1>5. i \in 1..(a + 1)
    OBVIOUS
  <1> HIDE DEF n, a, b
  <1>6. /\ a + 1 \in 1..(n + 1) /\ i \in 1..(n + 1) /\ last \in Nat
        /\ i + last = a + 1
    BY <1>2, <1>3, <1>5
  <1> HIDE DEF last
  <1>7. /\ At(w, i) \in Nat /\ At(w, a + 1) \in Nat /\ off \in Nat
        /\ m + off = At(w, i)
    <2>1. At(w, i) \in Nat /\ At(w, a + 1) \in Nat
      BY <1>2, <1>6
    <2>2. \A x \in Nat : m <= x => x - m \in Nat /\ m + (x - m) = x
      BY <1>2
    <2> QED BY <2>1, <2>2
  <1> HIDE DEF off
  <1>8. \A k \in 0..last : /\ i + k \in 1..(n + 1) /\ At(w, i + k) \in Nat
                           /\ k * PacketSize \in Nat
                           /\ m + (off + k * PacketSize) = At(w, i + k)
    <2> SUFFICES ASSUME NEW k \in 0..last
                 PROVE  /\ i + k \in 1..(n + 1) /\ At(w, i + k) \in Nat
                        /\ k * PacketSize \in Nat
                        /\ m + (off + k * PacketSize) = At(w, i + k)
      OBVIOUS
    <2>1. k \in Nat /\ i + k \in 1..(n + 1)
      BY <1>2, <1>6
    <2>2. k * PacketSize \in Nat
      BY <1>2, <2>1, Times
    <2>3. At(w, i) + k * PacketSize = At(w, i + k)
      BY <1>2, <1>6, <2>1
    <2> DEFINE d == k * PacketSize
    <2> HIDE DEF d
    <2>4. d \in Nat /\ At(w, i) + d = At(w, i + k)
      BY <2>2, <2>3 DEF d
    <2>5. m + (off + d) = At(w, i + k)
      BY <1>2, <1>7, <2>4
    <2> QED BY <1>2, <2>1, <2>2, <2>5 DEF d
  <1>9. ASSUME NEW k \in 0..last, k # last
        PROVE  ~StopsAt(b, off + k * PacketSize)
    <2> DEFINE p == off + k * PacketSize
    <2>1. i + k \in 1..n /\ i + k <= a
      BY <1>2, <1>3, <1>6, <1>9
    <2>2. p \in Nat /\ m + p = At(w, i + k) /\ m + p + PacketSize <= t
      <3>1. At(w, i + k) + PacketSize <= t
        BY <1>3, <2>1
      <3>2. p \in Nat
        BY <1>7, <1>8
      <3> QED BY <1>8, <3>1, <3>2
    <2> HIDE DEF p
    <2>3. p \in 0..(t - m - 1) /\ ~(p + PacketSize > Len(b))
      BY <1>2, <1>4, <2>2
    <2>4. HeaderOn(w, i + k) \in Header
      BY <1>1, <2>1 DEF Intact, n
    <2>5. HeaderOn(w, i + k) = w.cells[m + p + 1]
      BY <1>2, <2>1, <2>2 DEF HeaderOn
    <2>6. ParsesAt(b, p)
      BY <1>4, <2>3, <2>4, <2>5 DEF HeaderIn
    <2> QED BY <2>3, <2>6 DEF StopsAt, p
  <1>10. /\ off + last * PacketSize = At(w, a + 1) - m
         /\ ~((At(w, a + 1) - m) + PacketSize <= Len(b))
         /\ StopsAt(b, off + last * PacketSize)
    <2> DEFINE p == off + last * PacketSize
    <2>1. p \in Nat /\ m + p = At(w, a + 1)
      <3>1. last \in 0..last
        BY <1>6
      <3> QED BY <1>6, <1>7, <1>8, <3>1
    <2> HIDE DEF p
    <2> DEFINE end == At(w, a + 1)
    <2>2. end \in Nat /\ m + p = end /\ t < end + PacketSize
      BY <1>3, <1>7, <2>1
    <2> HIDE DEF end
    <2>3. /\ p = end - m /\ p + PacketSize > Len(b)
          /\ ~((end - m) + PacketSize <= Len(b))
      BY <1>2, <1>4, <2>1, <2>2
    <2> QED BY <2>3 DEF StopsAt, p, end
  <1>11. last \in 0..Len(b)
    <2>2. last = 0 \/ last \in Nat \ {0}
      BY <1>6
    <2>3. CASE last = 0
      BY <1>2, <1>4, <2>3
    <2>4. CASE last \in Nat \ {0}
      <3>1. last - 1 \in 0..last /\ last - 1 # last /\ last - 1 \in Nat
        BY <2>4
      <3>2. ~StopsAt(b, off + (last - 1) * PacketSize)
        BY <1>9, <3>1
      <3> DEFINE d == (last - 1) * PacketSize
      <3>3. d \in Nat /\ d >= last - 1
        <4>1. \A x \in Nat, y \in Nat \ {0} : x * y \in Nat /\ x * y >= x
          <5> SUFFICES ASSUME NEW x \in Nat, NEW y \in Nat \ {0}
                       PROVE  x * y \in Nat /\ x * y >= x
            OBVIOUS
          <5>1. y - 1 \in Nat /\ x * (y - 1) \in Nat
                /\ x * y = x * (y - 1) + x
            OBVIOUS
          <5> QED BY <5>1
        <4> QED BY <1>2, <3>1, <4>1
      <3> HIDE DEF d
      <3>4. off + d + PacketSize <= Len(b)
        <4>1. ~((off + d) + PacketSize > Len(b))
          BY <3>2 DEF StopsAt, d
        <4>2. off \in Nat /\ Len(b) \in Nat /\ PacketSize \in Nat
          BY <1>2, <1>4, <1>7
        <4> QED BY <3>3, <4>1, <4>2
      <3>5. off \in Nat /\ Len(b) \in Nat /\ PacketSize \in Nat \ {0}
            /\ last \in Nat
        BY <1>2, <1>4, <1>6, <1>7
      <3> QED BY <3>3, <3>4, <3>5, SMTT(30)
    <2> QED BY <2>2, <2>3, <2>4
  <1>12. PacketCount(b, off) = last
    <2>1. last \in S /\ S \in SUBSET Nat
      BY <1>10, <1>11
    <2>2. ASSUME NEW k \in S PROVE last <= k
      <3>1. k \in Nat
        BY <2>1
      <3>2. ~(k \in 0..last /\ k # last)
        BY <1>9
      <3> QED BY <1>6, <3>1, <3>2
    <2>3. Min(S) \in S /\ \A k \in S : Min(S) <= k
      BY <2>1, MinInSet
    <2>4. PacketCount(b, off) = Min(S)
      BY DEF PacketCount
    <2> HIDE DEF S
    <2>5. Min(S) = last
      <3>1. Min(S) \in Nat /\ Min(S) <= last /\ last <= Min(S)
        BY <2>1, <2>2, <2>3
      <3> QED BY <1>6, <3>1
    <2> QED BY <2>4, <2>5
  <1> QED BY <1>7, <1>10, <1>12 DEF off, last, a, b

\* The positions the loop hands on from the i-th packet to the a-th are those
\* the sender put them at.
LEMMA PositionsAre ==
    ASSUME NEW w, Laid(w), NEW a \in 0..Len(w.starts), NEW i \in 1..(a + 1)
    PROVE  /\ [q \in 1..(a + 1 - i) |-> At(w, i) + (q - 1) * PacketSize]
                 = SubSeq(w.starts, i, a)
           /\ SubSeq(w.starts, i, a) \in Seq(Nat)
           /\ Len(SubSeq(w.starts, i, a)) = a + 1 - i
           /\ \A q \in 1..(a + 1 - i) :
                 SubSeq(w.starts, i, a)[q] = At(w, i + q - 1)
  <1> DEFINE n == Len(w.starts)
             l == a + 1 - i
             s == SubSeq(w.starts, i, a)
             e == [q \in 1..l |-> At(w, i) + (q - 1) * PacketSize]
  <1>1. /\ n \in Nat \ {0} /\ w.starts \in Seq(Nat)
        /\ \A x \in 1..n : w.starts[x] = At(w, x)
        /\ \A x \in 1..(n + 1) : At(w, x) \in Nat
        /\ \A x \in 1..(n + 1), k \in Nat :
              At(w, x) + k * PacketSize = At(w, x + k)
    BY DEF Laid
  <1>0. n \in Nat /\ n > 0
    BY <1>1
  <1> HIDE DEF n
  <1>2. a \in 0..n /\ a \in Nat /\ i \in Nat /\ i >= 1 /\ i \in 1..(n + 1)
        /\ l \in Nat /\ a - i + 1 = l /\ (~(i <= a) => l = 0)
    <2>1. a \in 0..n
      BY DEF n
    <2> QED BY <1>0, <2>1
  <1>3. \A x \in i..a : x \in 1..n /\ w.starts[x] \in Nat
    <2> SUFFICES ASSUME NEW x \in i..a
                 PROVE  x \in 1..n /\ w.starts[x] \in Nat
      OBVIOUS
    <2>1. x \in 1..n /\ x \in 1..(n + 1)
      BY <1>0, <1>2
    <2> QED BY <1>1, <2>1
  <1> HIDE DEF l
  <1>4. /\ s \in Seq(Nat) /\ Len(s) = l
        /\ \A q \in 1..l : s[q] = w.starts[i + q - 1]
    <2>1. /\ s \in Seq(Nat)
          /\ Len(s) = IF i <= a THEN a - i + 1 ELSE 0
          /\ \A q \in 1..(a - i + 1) : s[q] = w.starts[i + q - 1]
      BY <1>2, <1>3, SubSeqProperties
    <2> HIDE DEF s
    <2>2. Len(s) = l
      BY <1>2, <2>1
    <2> QED BY <1>2, <2>1, <2>2
  <1> HIDE DEF s
  <1>5. ASSUME NEW q \in 1..l
        PROVE  /\ s[q] = At(w, i + q - 1)
               /\ e[q] = s[q]
    <2>1. /\ i + q - 1 \in 1..n /\ q - 1 \in Nat
          /\ i + (q - 1) = i + q - 1
      BY <1>0, <1>2 DEF l
    <2>2. s[q] = At(w, i + q - 1)
      BY <1>1, <1>4, <2>1
    <2>3. e[q] = At(w, i) + (q - 1) * PacketSize
      OBVIOUS
    <2> HIDE DEF e
    <2>4. At(w, i) + (q - 1) * PacketSize = At(w, i + (q - 1))
      BY <1>1, <1>2, <2>1
    <2> QED BY <2>1, <2>2, <2>3, <2>4
  <1>6. e = s
    <2>1. s = [q \in 1..l |-> s[q]]
      <3>1. s = [q \in 1..Len(s) |-> s[q]]
        BY <1>4, SeqDef
      <3> QED BY <1>4, <3>1
    <2>2. e = [q \in 1..l |-> s[q]]
      BY <1>5
    <2> QED BY <2>1, <2>2
  <1> QED BY <1>4, <1>5, <1>6 DEF l, s, e

\* A packet is confirmed by one packet only.
LEMMA ConfirmedOnce ==
    ASSUME NEW w, NEW i \in Nat, NEW j \in Nat, NEW k \in Nat,
           Confirms(w, j, i), Confirms(w, k, i)
    PROVE  j = k /\ i <= j
  <1>1. \A x \in Nat : IsFiniteSet(SamePid(w, i, x))
    <2> SUFFICES ASSUME NEW x \in Nat PROVE IsFiniteSet(SamePid(w, i, x))
      OBVIOUS
    <2>1. IsFiniteSet(i..x) /\ SamePid(w, i, x) \in SUBSET (i..x)
      BY FS_Interval DEF SamePid
    <2> QED BY <2>1, FS_Subset
  <1>2. ASSUME NEW x \in Nat, NEW y \in Nat, x < y,
               Confirms(w, x, i), Confirms(w, y, i)
        PROVE  FALSE
    <2>1. Cardinality(SamePid(w, i, x)) = Cardinality(SamePid(w, i, y))
      BY <1>2 DEF Confirms, SamePid
    <2>2. SamePid(w, i, x) \in SUBSET SamePid(w, i, y)
      BY <1>2 DEF SamePid
    <2>3. SamePid(w, i, x) = SamePid(w, i, y)
      BY <1>1, <2>1, <2>2, FS_Subset
    <2>4. i <= y
      <3>1. SamePid(w, i, y) # {}
        <4>1. Cardinality(SamePid(w, i, y)) = ValidationDepth
          BY <1>2 DEF Confirms, SamePid
        <4> QED BY <4>1, FS_EmptySet, SizesAssumption
      <3> QED BY <3>1 DEF SamePid
    <2>5. y \in SamePid(w, i, y) /\ y \notin SamePid(w, i, x)
      BY <1>2, <2>4 DEF Confirms, SamePid
    <2> QED BY <2>3, <2>5
  <1>3. i <= j
    <2>1. Cardinality(SamePid(w, i, j)) = ValidationDepth
      BY DEF Confirms, SamePid
    <2>2. SamePid(w, i, j) # {}
      BY <2>1, FS_EmptySet, SizesAssumption
    <2> QED BY <2>2 DEF SamePid
  <1>4. j < k \/ k < j \/ j = k
    OBVIOUS
  <1> QED BY <1>2, <1>3, <1>4

\* Of the packets that can be synchronised to, packet i was confirmed first.
ConfirmedFirst(w, m, n, i) ==
    \A first \in SynchronizableBy(w, m, n), j, k \in 1..ArrivedBy(w, n) :
       (first < i /\ Confirms(w, j, i) /\ Confirms(w, k, first)) => k > j

LEMMA MoreArrive ==
    ASSUME NEW w, Laid(w), NEW n \in 0..Len(w.cells), NEW t \in n..Len(w.cells)
    PROVE  ArrivedBy(w, n) <= ArrivedBy(w, t)
  <1> DEFINE l == Len(w.starts)
             a == ArrivedBy(w, n)
             z == ArrivedBy(w, t)
  <1>1. /\ l \in Nat /\ n \in Nat /\ t \in Nat /\ n <= t /\ t \in 0..Len(w.cells)
        /\ PacketSize \in Nat /\ \A i \in 1..(l + 1) : At(w, i) \in Nat
    BY SizesAssumption DEF Laid
  <1>2. /\ a \in 0..l
        /\ \A i \in 1..l : i <= a <=> At(w, i) + PacketSize <= n
    BY ArrivedAre
  <1>3. /\ z \in 0..l
        /\ \A i \in 1..l : i <= z <=> At(w, i) + PacketSize <= t
    BY <1>1, ArrivedAre
  <1> HIDE DEF l, a, z
  <1>4. CASE a = 0
    BY <1>1, <1>2, <1>3, <1>4 DEF a, z
  <1>5. CASE a # 0
    <2>1. a \in 1..l /\ a <= a /\ a \in 1..(l + 1)
      BY <1>1, <1>2, <1>5
    <2>2. At(w, a) + PacketSize <= t
      BY <1>1, <1>2, <2>1
    <2> QED BY <1>3, <2>1, <2>2 DEF a, z
  <1> QED BY <1>4, <1>5

\* What was chosen when the first n bytes had arrived still is one to be chosen.
LEMMA StaysChosen ==
    ASSUME NEW w, Laid(w), NEW m,
           NEW n \in 0..Len(w.cells), NEW t \in n..Len(w.cells),
           NEW i \in SynchronizableBy(w, m, n), ConfirmedFirst(w, m, n, i)
    PROVE  i \in SynchronizableBy(w, m, t) /\ ConfirmedFirst(w, m, t, i)
  <1> DEFINE a == ArrivedBy(w, n)
             z == ArrivedBy(w, t)
  <1>1. /\ Len(w.cells) \in Nat /\ Len(w.starts) \in Nat /\ t \in 0..Len(w.cells)
    BY DEF Laid
  <1>2. a \in Nat /\ z \in Nat /\ a <= z
    <2>1. a \in 0..Len(w.starts) /\ z \in 0..Len(w.starts)
      BY <1>1, ArrivedAre
    <2>2. a <= z
      BY MoreArrive
    <2> QED BY <1>1, <2>1, <2>2
  <1>3. i \in 1..a /\ w.starts[i] >= m /\ \E j \in i..a : Confirms(w, j, i)
    BY DEF SynchronizableBy
  <1>4. PICK c \in i..a : Confirms(w, c, i)
    BY <1>3
  <1> HIDE DEF a, z
  <1>5. i \in SynchronizableBy(w, m, t)
    <2>1. i \in 1..z /\ c \in i..z
      BY <1>2, <1>3
    <2> QED BY <1>3, <1>4, <2>1 DEF SynchronizableBy, z
  <1>6. ASSUME NEW first \in SynchronizableBy(w, m, t),
               NEW j \in 1..z, NEW k \in 1..z,
               first < i, Confirms(w, j, i), Confirms(w, k, first)
        PROVE  k > j
    <2>1. /\ first \in 1..z /\ w.starts[first] >= m
      BY DEF SynchronizableBy, z
    <2>2. /\ first \in Nat /\ j \in Nat /\ k \in Nat /\ i \in Nat /\ c \in Nat
      BY <1>2, <1>3, <2>1
    <2>3. j = c /\ first <= k
      BY <1>4, <1>6, <2>2, ConfirmedOnce
    <2>4. CASE k > a
      BY <1>2, <1>3, <2>2, <2>3, <2>4
    <2>5. CASE ~(k > a)
      <3>1. first \in 1..a /\ k \in first..a /\ k \in 1..a /\ j \in 1..a
        BY <1>2, <1>3, <2>1, <2>2, <2>3, <2>5
      <3>2. first \in SynchronizableBy(w, m, n)
        BY <1>6, <2>1, <3>1 DEF SynchronizableBy, a
      <3> QED BY <1>6, <3>1, <3>2 DEF ConfirmedFirst, a
    <2> QED BY <2>4, <2>5
  <1>7. ConfirmedFirst(w, m, t, i)
    BY <1>6 DEF ConfirmedFirst, z
  <1> QED BY <1>5, <1>7

\* What feedData() processes: of an intact stream, all that waited and the chunk.
LEMMA FeedReads ==
    ASSUME StreamInv, wire.intact, NEW k \in ChunkSizes, Feed(k)
    PROVE  /\ base \in 0..fed
           /\ fed + k \in fed..Len(wire.cells)
           /\ Waiting(wire, base, fed + k)
           /\ processBuffer(SubSeq(wire.cells, base + 1, fed + k), 0)
  <1> DEFINE c == wire.cells
             data == SubSeq(c, fed + 1, fed + k)
             whole == raw_buffer \o data
             b == SubSeq(c, base + 1, fed + k)
  <1>1. /\ wire \in Wires /\ Laid(wire) /\ Intact(wire)
    BY IntactIsLaid DEF StreamInv
  <1>2. /\ c \in Seq(Cell) /\ Len(c) \in Nat /\ k \in Nat /\ fed \in Nat
        /\ fed + k <= Len(c) /\ base \in Nat /\ MaxBufferSize \in Nat
        /\ Len(c) <= MaxBufferSize
    BY <1>1, WiresAssumption, SizesAssumption
       DEF Laid, Intact, StreamInv, Feed, MaxBufferSize
  <1>3. /\ raw_buffer \in Seq(Cell) /\ Len(raw_buffer) \in Nat
        /\ base + Len(raw_buffer) = fed
        /\ raw_buffer = SubSeq(c, base + 1, fed)
    BY LenProperties DEF StreamInv, SyncInv, TypeOK, BufferIsSuffix
  <1> HIDE DEF c
  <1>4. base \in 0..fed
    BY <1>2, <1>3
  <1>5. whole = b
    <2>1. base <= fed
      BY <1>2, <1>4
    <2>2. SubSeq(c, base + 1, fed) \o SubSeq(c, fed + 1, fed + k) = b
      BY <1>2, <2>1, NextPart
    <2> QED BY <1>3, <2>2
  <1>6. Waiting(wire, base, fed + k)
    <2>1. fed + k \in 0..Len(c) /\ base \in 0..(fed + k)
      BY <1>2, <1>4
    <2> QED BY <1>1, <2>1 DEF Waiting, c
  <1>7. b \in Seq(Cell) /\ Len(b) = (fed + k) - base
    BY <1>6, WaitingCells DEF c
  <1> HIDE DEF whole, b
  <1>8. Overflow(b) = 0
    <2>1. Len(b) <= MaxBufferSize
      BY <1>2, <1>4, <1>7
    <2> QED BY <2>1, <1>2, <1>4, <1>7 DEF Overflow
  <1>9. SubSeq(b, 0 + 1, Len(b)) = b
    BY <1>7, SubSeqFull
  <1>10. processBuffer(SubSeq(whole, Overflow(whole) + 1, Len(whole)),
                       Overflow(whole))
    BY DEF Feed, feedData, whole, data, c
  <1>11. processBuffer(SubSeq(b, 0 + 1, Len(b)), 0)
    BY <1>5, <1>8, <1>10
  <1>12. processBuffer(b, 0)
    BY <1>9, <1>11
  <1> QED BY <1>2, <1>4, <1>6, <1>12 DEF b, c

\* A packet synchronised to, and what was handed on since
ChosenAt(i) ==
    /\ i \in Synchronizable
    /\ processed = SubSeq(wire.starts, i, Arrived)
    /\ ConfirmedFirst(wire, since, fed, i)

\* What is true of an intact stream between two calls: IntactStreamIsDelivered,
\* and before the demuxer is synchronised all that was fed waits.
DeliveredInv ==
    wire.intact =>
       /\ is_synchronized => \E i : ChosenAt(i)
       /\ ~is_synchronized =>
             base = since /\ processed = <<>> /\ Synchronizable = {}

\* What PacketsWaiting says, as one fact
LoopHandles(b, w, m, a, i) ==
    /\ At(w, i) - m \in Nat
    /\ PacketCount(b, At(w, i) - m) = a + 1 - i
    /\ (At(w, i) - m) + (a + 1 - i) * PacketSize = At(w, a + 1) - m
    /\ ~((At(w, a + 1) - m) + PacketSize <= Len(b))

LEMMA PacketsHandled ==
    ASSUME NEW w, NEW m, NEW t, Waiting(w, m, t),
           NEW i \in 1..(ArrivedBy(w, t) + 1), m <= At(w, i)
    PROVE  LoopHandles(SubSeq(w.cells, m + 1, t), w, m, ArrivedBy(w, t), i)
  BY PacketsWaiting DEF LoopHandles

\* The loop from the i-th packet on leaves the demuxer synchronised, with all
\* packets that have arrived handed on.
LEMMA LoopDelivers ==
    ASSUME StreamInv, wire.intact, NEW k \in ChunkSizes, Feed(k),
           NEW i \in 1..(ArrivedBy(wire, fed + k) + 1), base <= At(wire, i),
           Consume(SubSeq(wire.cells, base + 1, fed + k),
                   At(wire, i) - base, 0)
    PROVE  /\ is_synchronized' = TRUE
           /\ processed' = processed \o
                 SubSeq(wire.starts, i, ArrivedBy(wire, fed + k))
  <1> DEFINE b == SubSeq(wire.cells, base + 1, fed + k)
             a == ArrivedBy(wire, fed + k)
             off == At(wire, i) - base
             n == PacketCount(b, off)
  <1>1. /\ Waiting(wire, base, fed + k) /\ Laid(wire) /\ base \in Nat
        /\ PacketSize \in Nat
    BY FeedReads, IntactIsLaid, SizesAssumption DEF Waiting, StreamInv
  <1>2. /\ off \in Nat /\ n = a + 1 - i
        /\ off + (a + 1 - i) * PacketSize = At(wire, a + 1) - base
        /\ ~((At(wire, a + 1) - base) + PacketSize <= Len(b))
    <2>1. LoopHandles(b, wire, base, a, i)
      BY <1>1, PacketsHandled, Zenon
    <2> QED BY <2>1 DEF LoopHandles
  <1>3. /\ is_synchronized' = ~((off + n * PacketSize) + PacketSize <= Len(b))
        /\ lastCall'.overflow = 0 /\ lastCall'.start = off
        /\ lastCall'.packets = n
    BY DEF Consume
  <1> HIDE DEF b, off, n, a
  <1>4. is_synchronized' = TRUE
    BY <1>2, <1>3
  <1>5. processed' = processed \o
           [q \in 1..n |-> base + 0 + off + (q - 1) * PacketSize]
    BY <1>3 DEF Feed
  <1>6. [q \in 1..n |-> base + 0 + off + (q - 1) * PacketSize]
           = SubSeq(wire.starts, i, a)
    <2>1. At(wire, i) \in Nat /\ a \in 0..Len(wire.starts) /\ i \in 1..(a + 1)
      <3>1. fed + k \in 0..Len(wire.cells)
        BY <1>1 DEF Waiting
      <3>2. a \in 0..Len(wire.starts) /\ i \in 1..(a + 1)
        BY <1>1, <3>1, ArrivedAre DEF a
      <3>3. i \in 1..(Len(wire.starts) + 1)
        BY <1>1, <3>2 DEF Laid
      <3> QED BY <1>1, <3>2, <3>3 DEF Laid
    <2>2. base + 0 + off = At(wire, i)
      BY <1>1, <2>1 DEF off
    <2>3. [q \in 1..(a + 1 - i) |-> At(wire, i) + (q - 1) * PacketSize]
             = SubSeq(wire.starts, i, a)
      BY <1>1, <2>1, PositionsAre
    <2> QED BY <1>2, <2>2, <2>3
  <1> QED BY <1>4, <1>5, <1>6 DEF a

\* What PositionsAre says of the packets themselves, as one fact
StartsAre(s, w, i, a) ==
    /\ s \in Seq(Nat) /\ Len(s) = a + 1 - i
    /\ \A q \in 1..(a + 1 - i) : s[q] = At(w, i + q - 1)

LEMMA StartsOf ==
    ASSUME NEW w, Laid(w), NEW a \in 0..Len(w.starts), NEW i \in 1..(a + 1)
    PROVE  StartsAre(SubSeq(w.starts, i, a), w, i, a)
  BY PositionsAre DEF StartsAre

LEMMA FeedWhileSynchronized ==
    ASSUME StreamInv, wire.intact, DeliveredInv, NEW k \in ChunkSizes, Feed(k),
           is_synchronized
    PROVE  is_synchronized' /\ \E i : ChosenAt(i)'
  <1> DEFINE n == Len(wire.starts)
             a == ArrivedBy(wire, fed)
             z == ArrivedBy(wire, fed + k)
             b == SubSeq(wire.cells, base + 1, fed + k)
  <1>1. /\ base \in 0..fed /\ fed + k \in fed..Len(wire.cells)
        /\ Waiting(wire, base, fed + k) /\ processBuffer(b, 0)
        /\ Laid(wire)
    BY FeedReads, IntactIsLaid DEF Waiting
  <1>2. /\ fed \in 0..Len(wire.cells) /\ sync_offset = 0 /\ base \in Nat
        /\ processed # <<>> /\ Last(processed) + PacketSize = base
        /\ PacketSize \in Nat \ {0}
    BY SizesAssumption DEF StreamInv, SyncInv, BufferBetweenCalls
  <1>3. PICK i : ChosenAt(i)
    BY DEF DeliveredInv
  <1>4. /\ i \in SynchronizableBy(wire, since, fed)
        /\ processed = SubSeq(wire.starts, i, a)
        /\ ConfirmedFirst(wire, since, fed, i)
    BY <1>3 DEF ChosenAt, Synchronizable, Arrived
  <1>5. /\ n \in Nat /\ a \in 0..n /\ z \in 0..n /\ a <= z
        /\ a \in Nat /\ z \in Nat /\ i \in 1..a
    <2>1. fed + k \in 0..Len(wire.cells)
      BY <1>1 DEF Waiting
    <2>2. a \in 0..n /\ z \in 0..n
      BY <1>1, <1>2, <2>1, ArrivedAre
    <2>3. a <= z
      BY <1>1, <1>2, MoreArrive
    <2>4. n \in Nat
      BY <1>1 DEF Laid
    <2>5. i \in 1..a
      BY <1>4 DEF SynchronizableBy
    <2> QED BY <2>2, <2>3, <2>4, <2>5
  <1>6. base = At(wire, a + 1)
    <2>1. i \in 1..(a + 1)
      BY <1>5
    <2>2. /\ Len(processed) = a + 1 - i
          /\ \A q \in 1..(a + 1 - i) : processed[q] = At(wire, i + q - 1)
      <3>1. StartsAre(processed, wire, i, a)
        BY <1>1, <1>4, <1>5, <2>1, StartsOf, Zenon
      <3> QED BY <3>1 DEF StartsAre
    <2> HIDE DEF a, n
    <2>3. a + 1 - i \in 1..(a + 1 - i) /\ i + (a + 1 - i) - 1 = a
      BY <1>5
    <2>4. processed[a + 1 - i] = At(wire, a)
      BY <2>2, <2>3
    <2>5. Last(processed) = At(wire, a)
      BY <2>2, <2>4 DEF Last
    <2>6. At(wire, a) + 1 * PacketSize = At(wire, a + 1)
      <3>1. a \in 1..(n + 1)
        BY <1>5
      <3> QED BY <1>1, <3>1 DEF Laid, n
    <2>7. 1 * PacketSize = PacketSize
      BY <1>2
    <2> QED BY <1>2, <2>5, <2>6, <2>7
  <1>7. Consume(b, At(wire, a + 1) - base, 0)
    <2>1. Consume(b, sync_offset, 0)
      BY <1>1 DEF processBuffer
    <2>2. At(wire, a + 1) - base = 0
      BY <1>2, <1>6
    <2> QED BY <1>2, <2>1, <2>2
  <1>8. /\ is_synchronized' = TRUE
        /\ processed' = processed \o SubSeq(wire.starts, a + 1, z)
    <2>1. a + 1 \in 1..(z + 1) /\ base <= At(wire, a + 1)
      BY <1>2, <1>5, <1>6
    <2> QED BY <1>7, <2>1, LoopDelivers, Zenon DEF b, z
  <1>9. processed' = SubSeq(wire.starts, i, z)
    <2>1. /\ wire.starts \in Seq(Nat) /\ i \in 1..(Len(wire.starts) + 1)
          /\ a \in (i - 1)..Len(wire.starts) /\ z \in a..Len(wire.starts)
      BY <1>1, <1>5 DEF Laid
    <2>2. SubSeq(wire.starts, i, a) \o SubSeq(wire.starts, a + 1, z)
            = SubSeq(wire.starts, i, z)
      BY <2>1, ConcatAdjacentSubSeq
    <2> QED BY <1>4, <1>8, <2>2
  <1>10. /\ i \in SynchronizableBy(wire, since, fed + k)
         /\ ConfirmedFirst(wire, since, fed + k, i)
    BY <1>1, <1>2, <1>4, StaysChosen
  <1>11. wire' = wire /\ since' = since /\ fed' = fed + k
    BY DEF Feed
  <1>12. ChosenAt(i)'
    BY <1>9, <1>10, <1>11 DEF ChosenAt, Synchronizable, Arrived
  <1> QED BY <1>8, <1>12

LEMMA FeedSynchronizes ==
    ASSUME StreamInv, wire.intact, DeliveredInv, NEW k \in ChunkSizes, Feed(k),
           ~is_synchronized
    PROVE  /\ is_synchronized' => \E i : ChosenAt(i)'
           /\ ~is_synchronized' => /\ base' = since' /\ processed' = <<>>
                                   /\ Synchronizable' = {}
  <1> DEFINE n == Len(wire.starts)
             z == ArrivedBy(wire, fed + k)
             b == SubSeq(wire.cells, base + 1, fed + k)
             points == SyncPoints(b)
             chosen == SynchronizableBy(wire, base, fed + k)
  <1>1. /\ Waiting(wire, base, fed + k) /\ processBuffer(b, 0) /\ Laid(wire)
    BY FeedReads, IntactIsLaid DEF Waiting
  <1>2. /\ base = since /\ processed = <<>> /\ base \in Nat
        /\ PacketSize \in Nat \ {0}
    BY SizesAssumption DEF DeliveredInv, StreamInv
  <1>3. /\ n \in Nat /\ z \in 0..n
        /\ \A l \in 1..n : wire.starts[l] = At(wire, l)
        /\ \A l \in 1..(n + 1) : At(wire, l) \in Nat
        /\ \A l, x \in 1..(n + 1) :
              l < x <=> At(wire, l) + PacketSize <= At(wire, x)
        /\ wire.starts \in Seq(Nat)
    <2>1. fed + k \in 0..Len(wire.cells)
      BY <1>1 DEF Waiting
    <2>2. z \in 0..n
      BY <1>1, <2>1, ArrivedAre
    <2> QED BY <1>1, <2>2 DEF Laid
  <1>4. /\ \A i \in chosen : At(wire, i) - base \in points
        /\ \A p \in points : \E i \in chosen : p = At(wire, i) - base
    BY <1>1, SyncPointsAre
  <1>5. wire' = wire /\ since' = since /\ fed' = fed + k
    BY DEF Feed
  <1>6. points \in SUBSET Nat
    BY DEF SyncPoints
  <1>7. \A i \in chosen : i \in 1..z /\ wire.starts[i] >= base
    BY DEF SynchronizableBy
  <1> HIDE DEF n, z, points, chosen
  <1>8. CASE points # {}
    <2>1. Min(points) \in points /\ \A p \in points : Min(points) <= p
      BY <1>6, <1>8, MinInSet
    <2>2. PICK i \in chosen : Min(points) = At(wire, i) - base
      BY <1>4, <2>1
    <2>3. /\ i \in 1..z /\ i \in 1..n /\ i \in 1..(n + 1) /\ i \in 1..(z + 1)
          /\ base <= At(wire, i)
      <3>1. i \in 1..z /\ wire.starts[i] >= base
        BY <1>7, <2>2
      <3>2. z \in 0..n /\ n \in Nat
        BY <1>3
      <3>3. i \in 1..n /\ i \in 1..(n + 1) /\ i \in 1..(z + 1)
        BY <3>1, <3>2
      <3>4. wire.starts[i] = At(wire, i) /\ At(wire, i) \in Nat
        BY <1>3, <3>3
      <3> QED BY <1>2, <3>1, <3>3, <3>4
    <2>4. Consume(b, At(wire, i) - base, 0)
      BY <1>1, <1>8, <2>2 DEF processBuffer, points
    <2>5. /\ is_synchronized' = TRUE
          /\ processed' = processed \o SubSeq(wire.starts, i, z)
      BY <2>3, <2>4, LoopDelivers, Zenon DEF b, z
    <2>6. processed' = SubSeq(wire.starts, i, z)
      <3>1. SubSeq(wire.starts, i, z) \in Seq(Nat)
        BY <1>1, <1>3, <2>3, PositionsAre DEF n
      <3> QED BY <1>2, <2>5, <3>1, ConcatEmptySeq
    <2>7. ASSUME NEW first \in chosen, first < i PROVE FALSE
      <3>1. first \in 1..z /\ first \in 1..(n + 1)
        BY <1>3, <1>7
      <3>2. At(wire, first) + PacketSize <= At(wire, i)
        BY <1>3, <2>3, <2>7, <3>1
      <3>3. At(wire, i) - base <= At(wire, first) - base
        BY <1>4, <2>1, <2>2, <2>7
      <3>4. At(wire, first) \in Nat /\ At(wire, i) \in Nat
        BY <1>3, <2>3, <3>1
      <3> QED BY <1>2, <3>2, <3>3, <3>4
    <2>8. ConfirmedFirst(wire, base, fed + k, i)
      BY <2>7 DEF ConfirmedFirst, chosen
    <2>9. ChosenAt(i)'
      BY <1>2, <1>5, <2>2, <2>6, <2>8
         DEF ChosenAt, Synchronizable, Arrived, chosen, z
    <2> QED BY <2>5, <2>9
  <1>9. CASE points = {}
    <2>1. chosen = {}
      BY <1>4, <1>9
    <2>2. /\ lastCall' = [NoCall EXCEPT !.overflow = 0]
          /\ is_synchronized' = is_synchronized
      BY <1>1, <1>9 DEF processBuffer, points
    <2>3. /\ lastCall'.overflow = 0 /\ lastCall'.packets = 0
          /\ lastCall'.erased = 0
      BY <2>2 DEF NoCall
    <2>4. base' = base
      BY <1>2, <2>3 DEF Feed
    <2>5. processed' = <<>>
      <3>1. processed' = processed \o
               [q \in 1..lastCall'.packets |->
                  base + lastCall'.overflow + lastCall'.start
                       + (q - 1) * PacketSize]
        BY DEF Feed
      <3> DEFINE none == [q \in 1..lastCall'.packets |->
                  base + lastCall'.overflow + lastCall'.start
                       + (q - 1) * PacketSize]
      <3>2. none = <<>>
        BY <2>3
      <3> HIDE DEF none
      <3>3. <<>> \in Seq(Nat)
        BY EmptySeq
      <3> QED BY <1>2, <3>1, <3>2, <3>3, ConcatEmptySeq DEF none
    <2>6. Synchronizable' = {}
      BY <1>2, <1>5, <2>1 DEF Synchronizable, chosen
    <2> QED BY <1>2, <1>5, <2>2, <2>4, <2>5, <2>6
  <1> QED BY <1>8, <1>9

\* No packet that begins after the last byte fed has arrived.
LEMMA NoneSinceNow ==
    ASSUME NEW w, Laid(w), NEW n \in 0..Len(w.cells)
    PROVE  SynchronizableBy(w, n, n) = {}
  <1> SUFFICES ASSUME NEW i \in SynchronizableBy(w, n, n) PROVE FALSE
    OBVIOUS
  <1> DEFINE l == Len(w.starts)
             a == ArrivedBy(w, n)
  <1>1. /\ l \in Nat /\ n \in Nat /\ PacketSize \in Nat \ {0}
        /\ \A x \in 1..l : w.starts[x] = At(w, x)
        /\ \A x \in 1..(l + 1) : At(w, x) \in Nat
    BY SizesAssumption DEF Laid
  <1>2. /\ a \in 0..l
        /\ \A x \in 1..l : x <= a <=> At(w, x) + PacketSize <= n
    BY ArrivedAre
  <1>3. i \in 1..a /\ w.starts[i] >= n
    BY DEF SynchronizableBy
  <1> HIDE DEF a, l
  <1>4. i \in 1..l /\ i \in 1..(l + 1) /\ i <= a
    BY <1>1, <1>2, <1>3
  <1>5. At(w, i) \in Nat /\ At(w, i) >= n /\ At(w, i) + PacketSize <= n
    BY <1>1, <1>2, <1>3, <1>4
  <1> QED BY <1>1, <1>5

LEMMA DeliveredInit == StreamInit => DeliveredInv
  <1> SUFFICES ASSUME StreamInit, wire.intact PROVE DeliveredInv
    BY DEF DeliveredInv
  <1>1. /\ is_synchronized = FALSE /\ wire \in Wires
        /\ fed = 0 /\ base = 0 /\ since = 0 /\ processed = <<>>
    BY DEF StreamInit, Init
  <1>2. Laid(wire) /\ 0 \in 0..Len(wire.cells)
    BY <1>1, IntactIsLaid DEF Laid
  <1>3. Synchronizable = {}
    BY <1>1, <1>2, NoneSinceNow DEF Synchronizable
  <1> QED BY <1>1, <1>3 DEF DeliveredInv

LEMMA DeliveredStep ==
    ASSUME StreamInv, DeliveredInv, [StreamNext]_streamVars
    PROVE  DeliveredInv'
  <1>1. CASE \E k \in ChunkSizes : Feed(k)
    <2>1. PICK k \in ChunkSizes : Feed(k)
      BY <1>1
    <2>2. wire' = wire
      BY <2>1 DEF Feed
    <2>3. CASE wire.intact /\ is_synchronized
      BY <2>1, <2>3, FeedWhileSynchronized DEF DeliveredInv
    <2>4. CASE wire.intact /\ ~is_synchronized
      BY <2>1, <2>4, FeedSynchronizes DEF DeliveredInv
    <2>5. CASE ~wire.intact
      BY <2>2, <2>5 DEF DeliveredInv
    <2> QED BY <2>3, <2>4, <2>5
  <1>2. CASE Clear
    <2>1. /\ is_synchronized' = FALSE /\ processed' = <<>>
          /\ base' = fed /\ since' = fed /\ wire' = wire /\ fed' = fed
      BY <1>2 DEF Clear, clearAll
    <2>2. ASSUME wire.intact PROVE Synchronizable' = {}
      <3>1. Laid(wire) /\ fed \in 0..Len(wire.cells)
        BY <2>2, IntactIsLaid DEF StreamInv
      <3> QED BY <2>1, <3>1, NoneSinceNow DEF Synchronizable
    <2> QED BY <2>1, <2>2 DEF DeliveredInv
  <1>3. CASE UNCHANGED streamVars
    BY <1>3 DEF streamVars, vars, DeliveredInv, ChosenAt, Synchronizable, Arrived
  <1> QED BY <1>1, <1>2, <1>3 DEF StreamNext

LEMMA DeliveredAlways == StreamSpec => [](StreamInv /\ DeliveredInv)
  <1>1. StreamInit => StreamInv /\ DeliveredInv
    BY StreamInitInv, DeliveredInit
  <1>2. StreamInv /\ DeliveredInv /\ [StreamNext]_streamVars
           => (StreamInv /\ DeliveredInv)'
    BY StreamStep, DeliveredStep
  <1> QED BY <1>1, <1>2, PTL DEF StreamSpec

\* However an intact stream is cut into chunks, whatever PIDs are interleaved
\* in it and wherever clearAll() cuts it off: the demuxer is synchronised exactly
\* if ValidationDepth packets of one PID have arrived since within the search
\* window.  From the first packet of the one confirmed first on, every packet
\* that has arrived has then been handed on, once and in order.
THEOREM IntactStreamTheorem == StreamSpec => []IntactStreamIsDelivered
  <1>1. DeliveredInv => IntactStreamIsDelivered
    <2> SUFFICES ASSUME DeliveredInv, wire.intact
                 PROVE  IntactStreamIsDelivered
      BY DEF IntactStreamIsDelivered
    <2>1. CASE is_synchronized
      <3>1. PICK i : ChosenAt(i)
        BY <2>1 DEF DeliveredInv
      <3> QED BY <2>1, <3>1
                 DEF ChosenAt, ConfirmedFirst, IntactStreamIsDelivered,
                     Synchronizable, Arrived
    <2>2. CASE ~is_synchronized
      BY <2>2 DEF DeliveredInv, IntactStreamIsDelivered
    <2> QED BY <2>1, <2>2
  <1> QED BY <1>1, DeliveredAlways, PTL

\* The synchronizer's state keeps its type whatever stream it is fed, in chunks
\* of whatever size, with clearAll() anywhere between them.
THEOREM StreamTypeCorrect == StreamSpec => []TypeOK
  <1>1. StreamInv => TypeOK
    BY DEF StreamInv, SyncInv
  <1> QED BY <1>1, StreamInitInv, StreamStep, PTL DEF StreamSpec
=============================================================================
