---------------------------- MODULE Demuxer_proofs ----------------------------
(***************************************************************************)
(* Theorems about Demuxer, for any streams, chunks, tables and calls: its  *)
(* synchronizer behaves as SyncStream says, its storage as StreamStorage   *)
(* does, and between the two nothing is lost, repeated or changed.         *)
(***************************************************************************)
EXTENDS Demuxer, Synchronizer_proofs

\* The theorems about the parser
ParserProofs == INSTANCE PacketParser_proofs WITH Pid <- HeaderPid

\* ... and about the storage
StorageProofs == INSTANCE StreamStorageUnits_proofs
                 WITH Pid <- HeaderPid, Packets <- StoragePacket

-----------------------------------------------------------------------------
(***************************************************************************)
(* Packets.                                                                *)
(***************************************************************************)

\* What the storage should get of a packet, by what its sender put into it
Meant(h) == ForStorage(Parser!Meaning(h.rest))

\* What the parser makes of a packet that was laid out properly
LEMMA ParsedAsMeant ==
    ASSUME NEW s \in Parser!Sent, Parser!Sendable(s)
    PROVE  Parser!parse(Parser!Build(s)) = Parser!Meaning(s)
  <1>1. ParserProofs!BytesRange
    BY DemuxerAssumption DEF ParserProofs!BytesRange, Parser!BytesRange
  <1>2. s \in ParserProofs!Sent
    BY DEF ParserProofs!Sent, Parser!Sent, ParserProofs!Flag, Parser!Flag,
           ParserProofs!Byte, Parser!Byte
  <1>3. ParserProofs!Sendable(s)
    BY DEF ParserProofs!Sendable, Parser!Sendable,
           ParserProofs!AdaptationSize, Parser!AdaptationSize,
           ParserProofs!Optional, Parser!Optional,
           ParserProofs!PrivateSize, Parser!PrivateSize,
           ParserProofs!Takes, Parser!Takes
  <1>4. ParserProofs!parse(ParserProofs!Build(s)) = ParserProofs!Meaning(s)
    BY <1>1, <1>2, <1>3, ParserProofs!RoundTrip
  <1>5. ParserProofs!Build(s) = Parser!Build(s)
    BY DEF ParserProofs!Build, Parser!Build,
           ParserProofs!AdaptationSize, Parser!AdaptationSize,
           ParserProofs!Optional, Parser!Optional,
           ParserProofs!PrivateSize, Parser!PrivateSize,
           ParserProofs!Takes, Parser!Takes
  <1>6. ParserProofs!Meaning(s) = Parser!Meaning(s)
    BY DEF ParserProofs!Meaning, Parser!Meaning,
           ParserProofs!AdaptationSize, Parser!AdaptationSize,
           ParserProofs!Optional, Parser!Optional,
           ParserProofs!PrivateSize, Parser!PrivateSize,
           ParserProofs!Takes, Parser!Takes
  <1>7. \A b : ParserProofs!parse(b) = Parser!parse(b)
    BY DEF ParserProofs!parse, Parser!parse,
           ParserProofs!FlagSet, Parser!FlagSet,
           ParserProofs!HasAdaptation, Parser!HasAdaptation,
           ParserProofs!HasPayload, Parser!HasPayload,
           ParserProofs!FieldLength, Parser!FieldLength,
           ParserProofs!FieldEnd, Parser!FieldEnd,
           ParserProofs!PrivateLength, Parser!PrivateLength,
           ParserProofs!PrivateAt, Parser!PrivateAt,
           ParserProofs!Size, Parser!Size,
           ParserProofs!PayloadOffset, Parser!PayloadOffset
  <1>8. QED
    BY <1>4, <1>5, <1>6, <1>7

\* The lengths a sender means are numbers.
LEMMA MeantLengths ==
    ASSUME NEW s \in Parser!Sent, Parser!Sendable(s)
    PROVE  ForStorage(Parser!Meaning(s)) \in StoragePacket
  <1> DEFINE m == Parser!Meaning(s)
  <1>1. /\ m.pid \in HeaderPid /\ m.pusi \in BOOLEAN /\ m.cc \in 0..15
        /\ m.disc \in BOOLEAN
    BY DEF Parser!Meaning, Parser!Sent
  <1>2. m.priv \in Nat
    <2>1. s.priv \in Nat
      BY DEF Parser!Sent, Parser!Byte
    <2>2. m.priv = IF s.field /\ ~s.empty /\ "private" \in s.flags
                   THEN s.priv ELSE 0
      BY DEF Parser!Meaning
    <2>3. QED
      BY <2>1, <2>2
  <1>3. m.pay \in Nat
    <2> DEFINE a == Parser!AdaptationSize(s)
    <2>1. PacketBytes \in 6..188
      BY DemuxerAssumption DEF Parser!BytesRange
    <2>2. s.field => 5 + a <= PacketBytes
      BY DEF Parser!Sendable
    <2>3. a \in Nat
      <3>1. \A flag : \A n \in Nat : Parser!Takes(s, flag, n) \in Nat
        BY DEF Parser!Takes
      <3>2. s.priv \in Nat /\ s.stuffing \in Nat
        BY DEF Parser!Sent, Parser!Byte
      <3>3. Parser!Optional(s) \in Nat
        BY <3>1 DEF Parser!Optional
      <3>4. Parser!PrivateSize(s) \in Nat
        BY <3>1, <3>2 DEF Parser!PrivateSize
      <3>5. QED
        BY <3>2, <3>3, <3>4 DEF Parser!AdaptationSize
    <2>4. m.pay = IF ~s.payload THEN 0
                  ELSE IF s.field THEN PacketBytes - 5 - a
                  ELSE PacketBytes - 4
      BY DEF Parser!Meaning
    <2> HIDE DEF a, m
    <2>5. QED
      BY <2>1, <2>2, <2>3, <2>4
  <1> HIDE DEF m
  <1>4. ForStorage(m) \in StoragePacket
    BY <1>1, <1>2, <1>3 DEF ForStorage, StoragePacket
  <1>5. QED
    BY <1>4 DEF m

\* A packet handed on is stored as its sender meant it.
LEMMA HandedOnIsMeant ==
    ASSUME StreamInv, NEW i \in DOMAIN processed
    PROVE  LET h == HeaderAt(processed[i])
           IN  /\ h \in Header /\ PacketOf(h) = Meant(h)
               /\ Meant(h) \in StoragePacket /\ Meant(h).pid = h.pid
  <1> DEFINE h == HeaderAt(processed[i])
             c == wire.cells
  <1>1. wire \in Wires /\ wire \in Wire /\ c \in Seq(Cell)
    BY WiresAssumption DEF StreamInv, Wire
  <1>2. processed[i] \in Nat
    BY ElementOfSeq, LenProperties DEF StreamInv
  <1>3. processed[i] < Len(c) /\ h \in Header
    BY DEF StreamInv, InBuffer, HeaderAt
  <1>4. processed[i] + 1 \in DOMAIN c
    BY <1>1, <1>2, <1>3, LenProperties
  <1>5. h.rest \in Parser!Sent
    <2>1. h.rest \in Rest
      BY <1>3 DEF Header
    <2>2. QED
      BY <2>1, DemuxerAssumption
  <1>6. Parser!Sendable(h.rest) /\ h = HeaderOf(h.rest)
    <2>1. h = c[processed[i] + 1]
      BY DEF HeaderAt
    <2> HIDE DEF h
    <2>2. QED
      BY <1>1, <1>3, <1>4, <2>1, DemuxerAssumption
  <1> HIDE DEF h
  <1>7. PacketOf(h) = Meant(h)
    BY <1>5, <1>6, ParsedAsMeant DEF PacketOf, Meant
  <1>8. Meant(h) \in StoragePacket
    BY <1>5, <1>6, MeantLengths DEF Meant
  <1>9. Meant(h).pid = h.pid
    <2>1. h.pid = Parser!parse(Parser!Build(h.rest)).pid
      BY <1>6 DEF HeaderOf
    <2>2. QED
      BY <1>5, <1>6, <2>1, ParsedAsMeant DEF Meant, ForStorage
  <1>10. QED
    BY <1>3, <1>7, <1>8, <1>9 DEF h

-----------------------------------------------------------------------------
(***************************************************************************)
(* From the synchronizer to the storage.                                   *)
(***************************************************************************)

\* How many packets were stored since the last clearAll()
Stored == Len(arrived) - clearedAt

\* The packets handed on since the last clearAll() are those stored since,
\* followed by those that wait.
ReachInv ==
    /\ arrived \in Seq(StoragePacket)
    /\ clearedAt \in 0..Len(arrived)
    /\ pending \in Seq(Header)
    /\ Stored + Len(pending) = Len(processed)
    /\ \A i \in 1..Stored :
          arrived[clearedAt + i] = Meant(HeaderAt(processed[i]))
    /\ \A i \in 1..Len(pending) : pending[i] = HeaderAt(processed[Stored + i])

DemuxerInv == StreamInv /\ ReachInv

\* Appending n elements
LEMMA Longer ==
    ASSUME NEW S, NEW s \in Seq(S), NEW n \in Nat, NEW e \in [1..n -> S]
    PROVE  /\ Len(s \o e) = Len(s) + n
           /\ \A i \in 1..Len(s) : (s \o e)[i] = s[i]
  <1>1. e \in Seq(S)
    BY SeqDef
  <1>2. Len(e) = n
    <2>1. DOMAIN e = 1..n
      OBVIOUS
    <2>2. QED
      BY <1>1, <2>1, LenProperties
  <1>3. /\ Len(s \o e) = Len(s) + Len(e) /\ Len(s) \in Nat
        /\ \A i \in 1..(Len(s) + Len(e)) :
              (s \o e)[i] = IF i <= Len(s) THEN s[i] ELSE e[i - Len(s)]
    BY <1>1, ConcatProperties, LenProperties
  <1> DEFINE t == s \o e
  <1> HIDE DEF t
  <1>4. /\ Len(t) = Len(s) + n /\ Len(s) \in Nat
        /\ \A i \in 1..(Len(s) + n) :
              t[i] = IF i <= Len(s) THEN s[i] ELSE e[i - Len(s)]
    BY <1>2, <1>3 DEF t
  <1>5. \A i \in 1..Len(s) : t[i] = s[i]
    BY <1>4
  <1>6. QED
    BY <1>4, <1>5 DEF t

\* feedData() only appends to what was handed on.
LEMMA FeedAppends ==
    ASSUME StreamInv, NEW k \in ChunkSizes, Feed(k)
    PROVE  /\ StreamInv' /\ wire' = wire
           /\ Len(processed) \in Nat /\ Len(processed') \in Nat
           /\ Len(processed') >= Len(processed)
           /\ \A i \in 1..Len(processed) : processed'[i] = processed[i]
  <1>1. StreamInv' /\ wire' = wire
    BY FeedStep DEF Feed
  <1>2. lastCall' \in [overflow : Nat, start : Nat, packets : Nat, erased : Nat]
    BY <1>1 DEF StreamInv, SyncInv, TypeOK
  <1>3. /\ processed \in Seq(Nat) /\ base \in Nat /\ PacketSize \in Nat
    BY SizesAssumption DEF StreamInv
  <1> DEFINE n == lastCall'.packets
             e == [i \in 1..n |->
                     base + lastCall'.overflow + lastCall'.start
                          + (i - 1) * PacketSize]
  <1>4. processed' = processed \o e
    BY DEF Feed
  <1>5. n \in Nat
    BY <1>2
  <1>6. e \in [1..n -> Nat]
    <2>1. base + lastCall'.overflow + lastCall'.start \in Nat
      BY <1>2, <1>3
    <2>2. ASSUME NEW i \in 1..n
          PROVE  base + lastCall'.overflow + lastCall'.start
                    + (i - 1) * PacketSize \in Nat
      <3>1. i - 1 \in Nat
        BY <1>5
      <3>2. (i - 1) * PacketSize \in Nat
        BY <1>3, <3>1
      <3>3. QED
        BY <2>1, <3>2
    <2>3. QED
      BY <2>2
  <1> HIDE DEF e, n
  <1>7. /\ Len(processed \o e) = Len(processed) + n
        /\ \A i \in 1..Len(processed) : (processed \o e)[i] = processed[i]
    BY <1>3, <1>5, <1>6, Longer
  <1>8. Len(processed) \in Nat
    BY <1>3, LenProperties
  <1>9. QED
    BY <1>1, <1>4, <1>5, <1>7, <1>8

LEMMA FeedReaches ==
    ASSUME DemuxerInv, NEW k \in ChunkSizes, FeedDemuxer(k)
    PROVE  DemuxerInv'
  <1> DEFINE l == Len(processed)
             d == Len(processed') - Len(processed)
  <1>1. /\ pending = <<>> /\ pending' = HandedOn
        /\ arrived' = arrived /\ clearedAt' = clearedAt
    BY DEF FeedDemuxer, CallOver, storageVars
  <1>2. /\ StreamInv' /\ wire' = wire
        /\ l \in Nat /\ Len(processed') \in Nat /\ d \in Nat
        /\ \A i \in 1..l : processed'[i] = processed[i]
    <2>1. StreamInv /\ Feed(k)
      BY DEF DemuxerInv, FeedDemuxer
    <2>2. QED
      BY <2>1, FeedAppends
  <1>3. Len(pending) = 0 /\ Stored = l /\ Stored' = l
    BY <1>1, <1>2, EmptySeq DEF DemuxerInv, ReachInv, Stored
  <1>4. \A i \in 1..Len(processed') :
           /\ HeaderAt(processed[i])' = wire.cells[processed'[i] + 1]
           /\ wire.cells[processed'[i] + 1] \in Header
    <2>1. processed' \in Seq(Nat) /\ \A i \in DOMAIN processed' :
             InBuffer(wire'.cells, processed'[i])
      BY <1>2 DEF StreamInv
    <2>2. DOMAIN processed' = 1..Len(processed')
      BY <2>1, LenProperties
    <2>3. QED
      BY <1>2, <2>1, <2>2 DEF InBuffer, HeaderAt
  <1>5. pending' = [i \in 1..d |-> wire.cells[processed'[l + i] + 1]]
    BY <1>1 DEF HandedOn, HeaderAt
  <1>6. \A i \in 1..d : l + i \in 1..Len(processed')
    BY <1>2
  <1>7. pending' \in Seq(Header) /\ Len(pending') = d
    <2>1. pending' \in [1..d -> Header]
      BY <1>4, <1>5, <1>6
    <2>2. pending' \in Seq(Header)
      BY <1>2, <2>1, SeqDef
    <2>3. DOMAIN pending' = 1..d
      BY <1>5
    <2>4. QED
      BY <1>2, <2>2, <2>3, LenProperties
  <1>8. \A i \in 1..Stored' :
           arrived'[clearedAt' + i] = Meant(HeaderAt(processed[i])')
    <2> SUFFICES ASSUME NEW i \in 1..l
                 PROVE  arrived[clearedAt + i] = Meant(HeaderAt(processed[i])')
      BY <1>1, <1>3
    <2>1. arrived[clearedAt + i] = Meant(HeaderAt(processed[i]))
      BY <1>3 DEF DemuxerInv, ReachInv
    <2>2. HeaderAt(processed[i])' = HeaderAt(processed[i])
      BY <1>2 DEF HeaderAt
    <2>3. QED
      BY <2>1, <2>2
  <1>9. \A i \in 1..Len(pending') :
           pending'[i] = wire'.cells[processed'[Stored' + i] + 1]
    BY <1>2, <1>3, <1>5, <1>7
  <1>10. ReachInv'
    <2>1. Stored' + Len(pending') = Len(processed')
      BY <1>2, <1>3, <1>7
    <2>2. arrived' \in Seq(StoragePacket) /\ clearedAt' \in 0..Len(arrived')
      BY <1>1 DEF DemuxerInv, ReachInv
    <2>3. \A i \in 1..Stored' :
             arrived'[clearedAt' + i] = Meant(HeaderAt(processed[i]))'
      BY <1>8 DEF Meant
    <2>4. QED
      BY <1>7, <1>9, <2>1, <2>2, <2>3 DEF ReachInv, HeaderAt
  <1>11. QED
    BY <1>2, <1>10 DEF DemuxerInv

LEMMA StoreReaches ==
    ASSUME DemuxerInv, Store
    PROVE  DemuxerInv' /\ PacketOf(Head(pending)) \in StoragePacket
  <1> DEFINE h == Head(pending)
             p == PacketOf(h)
             n == Len(pending)
             st == Stored
  <1>1. /\ pending # <<>> /\ pending' = Tail(pending)
        /\ arrived' = Append(arrived, p) /\ clearedAt' = clearedAt
        /\ UNCHANGED streamVars
    BY DEF Store, Storage!AddPacket
  <1>2. /\ arrived \in Seq(StoragePacket) /\ Len(arrived) \in Nat
        /\ clearedAt \in 0..Len(arrived) /\ pending \in Seq(Header)
        /\ st = Len(arrived) - clearedAt /\ st \in Nat
        /\ st + n = Len(processed) /\ processed \in Seq(Nat)
        /\ \A i \in 1..st : arrived[clearedAt + i] = Meant(HeaderAt(processed[i]))
        /\ \A i \in 1..n : pending[i] = HeaderAt(processed[st + i])
    <2>1. arrived \in Seq(StoragePacket) /\ clearedAt \in 0..Len(arrived)
      BY DEF DemuxerInv, ReachInv
    <2>2. Len(arrived) \in Nat
      BY <2>1, LenProperties
    <2>3. st = Len(arrived) - clearedAt /\ st \in Nat
      BY <2>1, <2>2 DEF Stored
    <2>4. QED
      BY <2>1, <2>2, <2>3 DEF DemuxerInv, ReachInv, StreamInv
  <1>3. /\ n \in Nat \ {0} /\ h = pending[1]
        /\ pending' \in Seq(Header) /\ Len(pending') = n - 1
        /\ \A i \in 1..(n - 1) : pending'[i] = pending[i + 1]
    <2>1. h = pending[1] /\ n \in Nat /\ n # 0
      BY <1>1, <1>2, HeadTailProperties, LenProperties, EmptySeq
    <2>2. QED
      BY <1>1, <1>2, <2>1, HeadTailProperties
  <1>4. h = HeaderAt(processed[st + 1]) /\ st + 1 \in DOMAIN processed
    <2>1. st + 1 \in 1..Len(processed) /\ 1 \in 1..n
      <3> HIDE DEF st, n
      <3>1. QED
        BY <1>2, <1>3
    <2>2. QED
      BY <1>2, <1>3, <2>1, LenProperties
  <1>5. p = Meant(h) /\ p \in StoragePacket
    <2>1. StreamInv
      BY DEF DemuxerInv
    <2>2. QED
      BY <1>4, <2>1, HandedOnIsMeant
  <1> HIDE DEF p, h, n, st
  <1>6. /\ arrived' \in Seq(StoragePacket) /\ Len(arrived') = Len(arrived) + 1
        /\ \A i \in 1..Len(arrived) : arrived'[i] = arrived[i]
        /\ arrived'[Len(arrived) + 1] = p
    BY <1>1, <1>2, <1>5, AppendProperties
  <1>7. Stored' = st + 1
    BY <1>1, <1>2, <1>6 DEF Stored
  <1>9. /\ st \in Nat /\ n \in Nat \ {0} /\ Len(arrived) \in Nat
        /\ clearedAt \in Nat /\ st = Len(arrived) - clearedAt
        /\ st + n = Len(processed)
    BY <1>2, <1>3
  <1>8. StreamInv' /\ wire' = wire /\ processed' = processed
    <2>1. StreamInv
      BY DEF DemuxerInv
    <2>2. StreamInv'
      BY <1>1, <2>1, StreamStep
    <2>3. QED
      BY <1>1, <2>2 DEF streamVars
  <1>10. \A i \in 1..Stored' :
            arrived'[clearedAt' + i]
              = Meant(wire'.cells[processed'[i] + 1])
    <2>1. ASSUME NEW i \in 1..(st + 1)
          PROVE  arrived'[clearedAt + i] = Meant(HeaderAt(processed[i]))
      <3>1. CASE i <= st
        <4>1. clearedAt + i \in 1..Len(arrived)
          BY <1>2, <3>1
        <4>2. i \in 1..st
          BY <1>2, <3>1
        <4>3. QED
          BY <1>2, <1>6, <4>1, <4>2
      <3>2. CASE ~(i <= st)
        <4>1. i = st + 1
          BY <1>9, <3>2
        <4>a. clearedAt + i = Len(arrived) + 1
          BY <1>9, <4>1
        <4>2. QED
          BY <1>4, <1>5, <1>6, <4>1, <4>a
      <3>3. QED
        BY <3>1, <3>2
    <2>2. QED
      BY <1>1, <1>7, <1>8, <2>1 DEF HeaderAt
  <1>11. \A i \in 1..Len(pending') :
            pending'[i] = wire'.cells[processed'[Stored' + i] + 1]
    <2>1. ASSUME NEW i \in 1..(n - 1)
          PROVE  pending'[i] = HeaderAt(processed[st + 1 + i])
      <3>1. i + 1 \in 1..n /\ st + (i + 1) = st + 1 + i
        BY <1>2, <1>3
      <3>2. pending[i + 1] = HeaderAt(processed[st + (i + 1)])
        BY <1>2, <3>1
      <3>3. QED
        BY <1>3, <3>1, <3>2
    <2>2. QED
      BY <1>3, <1>7, <1>8, <2>1 DEF HeaderAt
  <1>12. ReachInv'
    <2>1. Stored' + Len(pending') = Len(processed')
      <3>1. Len(processed') = Len(processed)
        BY <1>8
      <3>2. (st + 1) + (n - 1) = st + n
        BY <1>9
      <3>3. QED
        BY <1>3, <1>7, <1>9, <3>1, <3>2
    <2>2. clearedAt' \in 0..Len(arrived')
      BY <1>1, <1>2, <1>6
    <2>3. \A i \in 1..Stored' :
            arrived'[clearedAt' + i] = Meant(HeaderAt(processed[i]))'
      BY <1>10 DEF Meant, HeaderAt
    <2>4. QED
      BY <1>3, <1>6, <1>11, <2>1, <2>2, <2>3 DEF ReachInv, HeaderAt
  <1>13. QED
    BY <1>5, <1>8, <1>12 DEF DemuxerInv, p, h

\* A step that leaves what arrived and what waits alone
LEMMA OtherReaches ==
    ASSUME DemuxerInv,
           UNCHANGED <<streamVars, arrived, clearedAt, pending>>
    PROVE  DemuxerInv'
  <1>1. StreamInv /\ UNCHANGED streamVars
    BY DEF DemuxerInv
  <1>2. StreamInv'
    BY <1>1, StreamStep
  <1>3. wire' = wire /\ processed' = processed
    BY DEF streamVars
  <1>4. ReachInv'
    BY <1>3 DEF DemuxerInv, ReachInv, Stored, Meant, HeaderAt
  <1>5. QED
    BY <1>2, <1>4 DEF DemuxerInv

\* clearAll()
LEMMA ClearReaches ==
    ASSUME DemuxerInv, ClearEverything
    PROVE  DemuxerInv'
  <1>1. /\ pending = <<>> /\ pending' = <<>>
        /\ arrived' = arrived /\ clearedAt' = Len(arrived)
    BY DEF ClearEverything, CallOver, Storage!ClearAll
  <1>2. StreamInv' /\ processed' = <<>>
    BY ClearStep DEF DemuxerInv, ClearEverything
  <1>3. arrived \in Seq(StoragePacket) /\ Len(arrived) \in Nat
    BY LenProperties DEF DemuxerInv, ReachInv
  <1>4. Stored' = 0
    BY <1>1, <1>3 DEF Stored
  <1>5. Len(pending') = 0 /\ Len(processed') = 0 /\ pending' \in Seq(Header)
    BY <1>1, <1>2, EmptySeq
  <1>6. ReachInv'
    <2>1. /\ arrived' \in Seq(StoragePacket)
          /\ clearedAt' \in 0..Len(arrived')
      BY <1>1, <1>3
    <2>2. Stored' + Len(pending') = Len(processed')
      BY <1>4, <1>5
    <2>3. 1..0 = {}
      OBVIOUS
    <2>4. QED
      BY <1>4, <1>5, <2>1, <2>2, <2>3 DEF ReachInv
  <1>7. QED
    BY <1>2, <1>6 DEF DemuxerInv

LEMMA DemuxerInitInv == DemuxerInit => DemuxerInv
  <1> SUFFICES ASSUME DemuxerInit PROVE DemuxerInv
    OBVIOUS
  <1>1. StreamInv
    BY StreamInitInv DEF DemuxerInit
  <1>2. /\ arrived = <<>> /\ clearedAt = 0 /\ pending = <<>>
        /\ processed = <<>>
    BY DEF DemuxerInit, StreamInit, Storage!Init
  <1>3. /\ Len(arrived) = 0 /\ Len(pending) = 0 /\ Len(processed) = 0
        /\ arrived \in Seq(StoragePacket) /\ pending \in Seq(Header)
    BY <1>2, EmptySeq
  <1>4. Stored = 0
    BY <1>2, <1>3 DEF Stored
  <1>5. 1..0 = {}
    OBVIOUS
  <1>6. ReachInv
    BY <1>2, <1>3, <1>4, <1>5 DEF ReachInv
  <1>7. QED
    BY <1>1, <1>6 DEF DemuxerInv

LEMMA DemuxerStep == DemuxerInv /\ [DemuxerNext]_demuxerVars => DemuxerInv'
  <1> SUFFICES ASSUME DemuxerInv, [DemuxerNext]_demuxerVars
               PROVE  DemuxerInv'
    OBVIOUS
  <1>1. CASE \E k \in ChunkSizes : FeedDemuxer(k)
    BY <1>1, FeedReaches
  <1>2. CASE Store
    BY <1>2, StoreReaches
  <1>3. CASE Getter
    <2>1. UNCHANGED <<streamVars, arrived, clearedAt, pending>>
      BY <1>3 DEF Getter, Storage!FinalizeAllIterations, Storage!historyVars
    <2>2. QED
      BY <2>1, OtherReaches
  <1>4. CASE \E q \in HeaderPid : ClearStoredOf(q)
    <2>1. UNCHANGED <<streamVars, arrived, clearedAt, pending>>
      BY <1>4 DEF ClearStoredOf, Storage!ClearStream, Storage!ClearIteration
    <2>2. QED
      BY <2>1, OtherReaches
  <1>5. CASE ClearEverything
    BY <1>5, ClearReaches
  <1>c. CASE ClearCrashes
    <2>1. UNCHANGED <<streamVars, arrived, clearedAt, pending>>
      BY <1>c DEF ClearCrashes, Storage!ClearAllCrashes, Storage!historyVars
    <2>2. QED
      BY <2>1, OtherReaches
  <1>6. CASE \E K \in Tables : SetProgramsTable(K)
    <2>1. UNCHANGED <<streamVars, arrived, clearedAt, pending>>
      BY <1>6 DEF SetProgramsTable, Storage!SetProgramsTable
    <2>2. QED
      BY <2>1, OtherReaches
  <1>7. CASE UNCHANGED demuxerVars
    <2>1. UNCHANGED <<streamVars, arrived, clearedAt, pending>>
      BY <1>7 DEF demuxerVars, storageVars
    <2>2. QED
      BY <2>1, OtherReaches
  <1>8. QED
    BY <1>1, <1>2, <1>3, <1>4, <1>5, <1>c, <1>6, <1>7 DEF DemuxerNext

\* The two sides of PacketsReachStorage have the same elements.
LEMMA ReachIsEnough == DemuxerInv => PacketsReachStorage
  <1> SUFFICES ASSUME DemuxerInv PROVE PacketsReachStorage
    OBVIOUS
  <1> DEFINE st == Stored
             n == Len(pending)
             l == Len(processed)
             a == SubSeq(arrived, clearedAt + 1, Len(arrived))
             b == [i \in DOMAIN pending |-> PacketOf(pending[i])]
             c == [i \in DOMAIN processed |-> Meant(HeaderAt(processed[i]))]
  <1>1. /\ arrived \in Seq(StoragePacket) /\ Len(arrived) \in Nat
        /\ clearedAt \in 0..Len(arrived)
        /\ st = Len(arrived) - clearedAt /\ st \in Nat
        /\ pending \in Seq(Header) /\ n \in Nat /\ DOMAIN pending = 1..n
        /\ processed \in Seq(Nat) /\ l \in Nat /\ DOMAIN processed = 1..l
        /\ st + n = l
    <2>1. /\ arrived \in Seq(StoragePacket) /\ clearedAt \in 0..Len(arrived)
          /\ pending \in Seq(Header) /\ processed \in Seq(Nat) /\ st + n = l
      BY DEF DemuxerInv, ReachInv, StreamInv
    <2>2. Len(arrived) \in Nat /\ n \in Nat /\ DOMAIN pending = 1..n
          /\ l \in Nat /\ DOMAIN processed = 1..l
      BY <2>1, LenProperties
    <2>3. st = Len(arrived) - clearedAt /\ st \in Nat
      BY <2>1, <2>2 DEF Stored
    <2>4. QED
      BY <2>1, <2>2, <2>3
  <1>2. \A i \in 1..l : /\ PacketOf(HeaderAt(processed[i])) = c[i]
                        /\ c[i] \in StoragePacket
    <2>1. StreamInv
      BY DEF DemuxerInv
    <2>2. QED
      BY <1>1, <2>1, HandedOnIsMeant
  <1>3. /\ a \in Seq(StoragePacket) /\ Len(a) = st
        /\ \A i \in 1..st : a[i] = c[i]
    <2>1. \A i \in (clearedAt + 1)..Len(arrived) : arrived[i] \in StoragePacket
      BY <1>1, ElementOfSeq
    <2>2. /\ a \in Seq(StoragePacket)
          /\ Len(a) = IF clearedAt + 1 <= Len(arrived)
                      THEN Len(arrived) - (clearedAt + 1) + 1 ELSE 0
          /\ \A i \in 1..(Len(arrived) - (clearedAt + 1) + 1) :
                a[i] = arrived[clearedAt + 1 + i - 1]
      BY <1>1, <2>1, SubSeqProperties
    <2>3. Len(arrived) - (clearedAt + 1) + 1 = st
          /\ (~(clearedAt + 1 <= Len(arrived)) => st = 0)
          /\ clearedAt \in Nat
      BY <1>1
    <2> HIDE DEF a, st
    <2>4. Len(a) = st
      BY <2>2, <2>3
    <2>5. ASSUME NEW i \in 1..st PROVE a[i] = c[i]
      <3>1. clearedAt + 1 + i - 1 = clearedAt + i
        BY <2>3
      <3>2. a[i] = arrived[clearedAt + i]
        BY <2>2, <2>3, <3>1
      <3>3. i \in DOMAIN processed
        BY <1>1
      <3>4. arrived[clearedAt + i] = Meant(HeaderAt(processed[i]))
        BY DEF DemuxerInv, ReachInv, st
      <3>5. QED
        BY <3>2, <3>3, <3>4
    <2>6. QED
      BY <2>2, <2>4, <2>5
  <1>4. /\ b \in Seq(StoragePacket) /\ Len(b) = n
        /\ \A i \in 1..n : b[i] = c[st + i]
    <2>1. ASSUME NEW i \in 1..n
          PROVE  b[i] = c[st + i] /\ b[i] \in StoragePacket
      <3>1. st + i \in 1..l
        <4> HIDE DEF st, n, l
        <4>1. QED
          BY <1>1
      <3>2. pending[i] = HeaderAt(processed[st + i])
        BY DEF DemuxerInv, ReachInv
      <3>3. b[i] = PacketOf(pending[i])
        BY <1>1
      <3> HIDE DEF b, c
      <3>4. QED
        BY <1>2, <3>1, <3>2, <3>3
    <2>2. b \in [1..n -> StoragePacket]
      <3>1. \A i \in 1..n : b[i] \in StoragePacket
        BY <2>1
      <3>2. b = [i \in 1..n |-> PacketOf(pending[i])]
        BY <1>1
      <3>3. QED
        BY <3>1, <3>2
    <2>0. n \in Nat
      BY <1>1
    <2> HIDE DEF b, n
    <2>3. b \in Seq(StoragePacket)
      BY <2>2, <2>0, SeqDef
    <2>4. DOMAIN b = 1..n
      BY <2>2
    <2>5. Len(b) = n
      BY <1>1, <2>3, <2>4, LenProperties
    <2>6. QED
      BY <2>1, <2>3, <2>5
  <1>5. c \in Seq(StoragePacket) /\ Len(c) = l
    <2>1. c \in [1..l -> StoragePacket]
      <3>1. c = [i \in 1..l |-> Meant(HeaderAt(processed[i]))]
        BY <1>1
      <3>2. QED
        BY <1>2, <3>1
    <2> HIDE DEF c, l
    <2>2. c \in Seq(StoragePacket)
      BY <1>1, <2>1, SeqDef
    <2>3. DOMAIN c = 1..l
      BY <2>1
    <2>4. QED
      BY <1>1, <2>2, <2>3, LenProperties
  <1> HIDE DEF a, b, c, st, n, l
  <1>6. /\ a \o b \in Seq(StoragePacket) /\ Len(a \o b) = Len(a) + Len(b)
        /\ \A i \in 1..(Len(a) + Len(b)) :
              (a \o b)[i] = IF i <= Len(a) THEN a[i] ELSE b[i - Len(a)]
    BY <1>3, <1>4, ConcatProperties
  <1> DEFINE t == a \o b
  <1> HIDE DEF t
  <1>7. /\ t \in Seq(StoragePacket) /\ Len(t) = l
        /\ \A i \in 1..l : t[i] = IF i <= st THEN a[i] ELSE b[i - st]
    BY <1>1, <1>3, <1>4, <1>6 DEF t
  <1>8. ASSUME NEW i \in 1..l PROVE t[i] = c[i]
    <2>1. CASE i <= st
      <3>1. i \in 1..st
        BY <1>1, <2>1
      <3>2. QED
        BY <1>3, <1>7, <2>1, <3>1
    <2>2. CASE ~(i <= st)
      <3>1. i - st \in 1..n /\ st + (i - st) = i
        BY <1>1, <2>2
      <3>2. t[i] = b[i - st]
        BY <1>7, <2>2
      <3>3. QED
        BY <1>4, <3>1, <3>2
    <2>3. QED
      BY <2>1, <2>2
  <1>9. t = c
    BY <1>5, <1>7, <1>8, SeqEqual
  <1>10. QED
    BY <1>9 DEF t, a, b, c, PacketsReachStorage, Meant

\* For every stream of packets laid out properly, corrupted anywhere between
\* them, in any chunks and with any of the user's calls between two chunks:
\* what the storage got since the last clearAll(), and what waits for it, are
\* the packets the synchronizer handed on, each once, in order and with the
\* flags and lengths its sender gave it.
THEOREM PacketsReachStorageTheorem == DemuxerSpec => []PacketsReachStorage
  BY DemuxerInitInv, DemuxerStep, ReachIsEnough, PTL DEF DemuxerSpec

-----------------------------------------------------------------------------
(***************************************************************************)
(* The parts.                                                              *)
(***************************************************************************)

\* The demuxer's buffer is fed and cleared as SyncStream says, whatever
\* happens to the storage: the theorems about streams hold of it.
THEOREM DemuxerImplementsStream == DemuxerSpec => StreamSpec
  <1>1. DemuxerInit => StreamInit
    BY DEF DemuxerInit
  <1>2. [DemuxerNext]_demuxerVars => [StreamNext]_streamVars
    BY DEF DemuxerNext, demuxerVars, StreamNext, FeedDemuxer, Store, Getter,
           ClearStoredOf, ClearEverything, ClearCrashes, SetProgramsTable
  <1>3. QED
    BY <1>1, <1>2, PTL DEF DemuxerSpec, StreamSpec

\* The storage sees packets and calls as StreamStorage has them arrive: what
\* the parser makes of a packet is always one of its packets.
THEOREM DemuxerImplementsStorage == DemuxerSpec => Storage!Spec
  <1>1. DemuxerInit => Storage!Init
    BY DEF DemuxerInit
  <1>2. DemuxerInv /\ [DemuxerNext]_demuxerVars
          => [Storage!Next]_(Storage!vars)
    <2> SUFFICES ASSUME DemuxerInv, [DemuxerNext]_demuxerVars
                 PROVE  Storage!Next \/ UNCHANGED storageVars
      BY DEF Storage!vars, storageVars
    <2>1. CASE \E k \in ChunkSizes : FeedDemuxer(k)
      BY <2>1 DEF FeedDemuxer
    <2>2. CASE Store
      BY <2>2, StoreReaches DEF Store, Storage!Next
    <2>3. CASE Getter
      BY <2>3 DEF Getter, Storage!Next
    <2>4. CASE \E q \in HeaderPid : ClearStoredOf(q)
      BY <2>4 DEF ClearStoredOf, Storage!Next
    <2>5. CASE ClearEverything
      BY <2>5 DEF ClearEverything, Storage!Next
    <2>c. CASE ClearCrashes
      BY <2>c DEF ClearCrashes, Storage!Next
    <2>6. CASE \E K \in Tables : SetProgramsTable(K)
      BY <2>6 DEF SetProgramsTable, Storage!Next
    <2>7. CASE UNCHANGED demuxerVars
      BY <2>7 DEF demuxerVars
    <2>8. QED
      BY <2>1, <2>2, <2>3, <2>4, <2>5, <2>c, <2>6, <2>7
         DEF DemuxerNext
  <1>3. QED
    BY <1>1, <1>2, DemuxerInitInv, DemuxerStep, PTL
       DEF DemuxerSpec, Storage!Spec
-----------------------------------------------------------------------------
(***************************************************************************)
(* The storage's theorems hold of the demuxer's storage.                   *)
(***************************************************************************)
LEMMA SamePacket ==
    ASSUME NEW p
    PROVE  Storage!AddPacket(p) <=> StorageProofs!AddPacket(p)
  BY Zenon
     DEF Storage!AddPacket, StorageProofs!AddPacket,
         Storage!SkipPacket, StorageProofs!SkipPacket,
         Storage!StartIteration, StorageProofs!StartIteration,
         Storage!ContinueIteration, StorageProofs!ContinueIteration,
         Storage!storageVars, StorageProofs!storageVars,
         Storage!currentVars, StorageProofs!currentVars,
         Storage!tableVars, StorageProofs!tableVars,
         Storage!getOrCreateStream, StorageProofs!getOrCreateStream,
         Storage!generateIterationID, StorageProofs!generateIterationID,
         Storage!Finalized, StorageProofs!Finalized,
         Storage!Accepts, StorageProofs!Accepts,
         Storage!NewIteration, StorageProofs!NewIteration,
         Storage!Discontinuity, StorageProofs!Discontinuity,
         Storage!Segments, StorageProofs!Segments,
         Storage!Extended, StorageProofs!Extended,
         Storage!Closes, StorageProofs!Closes,
         Storage!Put, StorageProofs!Put

LEMMA SameFinalize ==
    Storage!FinalizeAllIterations <=> StorageProofs!FinalizeAllIterations
  BY Zenon
     DEF Storage!FinalizeAllIterations, StorageProofs!FinalizeAllIterations,
         Storage!tableVars, StorageProofs!tableVars,
         Storage!historyVars, StorageProofs!historyVars,
         Storage!getOrCreateStream, StorageProofs!getOrCreateStream,
         Storage!Finalized, StorageProofs!Finalized

LEMMA SameRemoval ==
    ASSUME NEW s, NEW id
    PROVE  /\ Storage!removeIteration(s, id) = StorageProofs!removeIteration(s, id)
           /\ Storage!StoredPkts(s) = StorageProofs!StoredPkts(s)
  <1>1. Storage!IndexOf(s, id) = StorageProofs!IndexOf(s, id)
    BY Zenon
       DEF Storage!IndexOf, StorageProofs!IndexOf,
           Storage!SelectInSeq, StorageProofs!SelectInSeq,
           Storage!Min, StorageProofs!Min
  <1>2. \A n : Storage!RemoveAt(s, n) = StorageProofs!RemoveAt(s, n)
    BY Zenon DEF Storage!RemoveAt, StorageProofs!RemoveAt
  <1>3. Storage!StoredPkts(s) = StorageProofs!StoredPkts(s)
    BY Zenon DEF Storage!StoredPkts, StorageProofs!StoredPkts,
                 Storage!PktsOf, StorageProofs!PktsOf
  <1> QED BY <1>1, <1>2, <1>3
             DEF Storage!removeIteration, StorageProofs!removeIteration

LEMMA SameClear ==
    ASSUME NEW q
    PROVE  /\ Storage!ClearStream(q) <=> StorageProofs!ClearStream(q)
           /\ \A id : Storage!ClearIteration(q, id)
                         <=> StorageProofs!ClearIteration(q, id)
  <1>1. Storage!ClearStream(q) <=> StorageProofs!ClearStream(q)
    BY Zenon
       DEF Storage!ClearStream, StorageProofs!ClearStream,
           Storage!StoredPkts, StorageProofs!StoredPkts,
           Storage!PktsOf, StorageProofs!PktsOf,
           Storage!currentVars, StorageProofs!currentVars,
           Storage!tableVars, StorageProofs!tableVars
  <1>2. ASSUME NEW id
        PROVE  Storage!ClearIteration(q, id)
                  <=> StorageProofs!ClearIteration(q, id)
    <2> DEFINE s == Storage!getOrCreateStream(q)
    <2>1. s = StorageProofs!getOrCreateStream(q)
      BY Zenon DEF Storage!getOrCreateStream, StorageProofs!getOrCreateStream
    <2>2. Storage!removeIteration(s, id) = StorageProofs!removeIteration(s, id)
      BY SameRemoval, Zenon
    <2>3. \A x : Storage!StoredPkts(x) = StorageProofs!StoredPkts(x)
      BY SameRemoval, Zenon
    <2>4. \A x : Storage!Put(streams, q, x) = StorageProofs!Put(streams, q, x)
      BY Zenon DEF Storage!Put, StorageProofs!Put
    <2> HIDE DEF s
    <2> QED BY <2>1, <2>2, <2>3, <2>4
               DEF Storage!ClearIteration, StorageProofs!ClearIteration, s,
                   Storage!currentVars, StorageProofs!currentVars,
                   Storage!tableVars, StorageProofs!tableVars
  <1> QED BY <1>1, <1>2

LEMMA SameOthers ==
    /\ Storage!ClearAll <=> StorageProofs!ClearAll
    /\ Storage!ClearAllCrashes <=> StorageProofs!ClearAllCrashes
    /\ \A K : Storage!SetProgramsTable(K) <=> StorageProofs!SetProgramsTable(K)
  BY Zenon
     DEF Storage!ClearAll, StorageProofs!ClearAll,
         Storage!ClearAllCrashes, StorageProofs!ClearAllCrashes,
         Storage!storageVars, StorageProofs!storageVars,
         Storage!historyVars, StorageProofs!historyVars,
         Storage!SetProgramsTable, StorageProofs!SetProgramsTable,
         Storage!PktsOf, StorageProofs!PktsOf,
         Storage!currentVars, StorageProofs!currentVars,
         Storage!tableVars, StorageProofs!tableVars

LEMMA SameStep ==
    [Storage!Next]_(Storage!vars) => [StorageProofs!Next]_(StorageProofs!vars)
  <1>1. Storage!Next => StorageProofs!Next
    BY SamePacket, SameFinalize, SameClear, SameOthers
       DEF Storage!Next, StorageProofs!Next
  <1> QED BY <1>1 DEF Storage!vars, StorageProofs!vars

\* The demuxer's constants are those the storage's theorems are about.
LEMMA StorageConstants ==
    /\ SystemPid \subseteq HeaderPid
    /\ StoragePacket \subseteq StorageProofs!Packet
    /\ Tables \subseteq SUBSET HeaderPid
    /\ MaxPackets \in Nat
    /\ IdModulus \in Nat
    /\ MaxPackets + 1 < IdModulus
  BY DemuxerAssumption DEF StoragePacket, StorageProofs!Packet, StorageProofs!CC

LEMMA StorageReads == DemuxerSpec => []StorageProofs!ReadsAll
  <1>1. Storage!Init => StorageProofs!Init
    BY Zenon DEF Storage!Init, StorageProofs!Init
  <1>2. Storage!Spec => StorageProofs!Spec
    BY <1>1, SameStep, PTL DEF Storage!Spec, StorageProofs!Spec
  <1>3. StorageProofs!Spec => []StorageProofs!ReadsAll
    BY StorageConstants, StorageProofs!ReadsAllTheorem
  <1> QED BY <1>2, <1>3, DemuxerImplementsStorage, PTL

-----------------------------------------------------------------------------
(***************************************************************************)
(* From the sender to the user.                                            *)
(***************************************************************************)

\* Of an intact stream the packets handed on are those from the i-th on, and
\* the storage got them as such.
HandedOnFrom(i) ==
    /\ Stored = Arrived + 1 - i
    /\ \A x \in 1..Stored :
          /\ i + x - 1 \in i..Arrived
          /\ processed[x] = wire.starts[i + x - 1]
          /\ arrived[clearedAt + x].pid = PidOn(wire, i + x - 1)
    /\ \A x, y \in 1..Stored : x < y => processed[x] < processed[y]

LEMMA HandedOnInOrder ==
    ASSUME DemuxerInv, DeliveredInv, wire.intact, CallOver, is_synchronized
    PROVE  \E i \in Synchronizable : i \in 1..Arrived /\ HandedOnFrom(i)
  <1> DEFINE a == Arrived
             n == Len(wire.starts)
  <1>1. PICK i : ChosenAt(i)
    BY DEF DeliveredInv
  <1>2. /\ Laid(wire) /\ StreamInv /\ PacketSize \in Nat \ {0}
        /\ fed \in 0..Len(wire.cells)
    BY IntactIsLaid, SizesAssumption DEF DemuxerInv, StreamInv
  <1>3. /\ i \in Synchronizable /\ i \in 1..a
        /\ processed = SubSeq(wire.starts, i, a)
    BY <1>1 DEF ChosenAt, Synchronizable, SynchronizableBy, Arrived
  <1>4. /\ n \in Nat /\ a \in 0..n /\ i \in 1..(a + 1)
        /\ \A x \in 1..n : wire.starts[x] = At(wire, x)
        /\ \A x \in 1..(n + 1) : At(wire, x) \in Nat
        /\ \A x, y \in 1..(n + 1) :
              x < y <=> At(wire, x) + PacketSize <= At(wire, y)
    <2>1. a \in 0..n
      BY <1>2, ArrivedAre DEF Arrived
    <2> HIDE DEF a
    <2>2. /\ n \in Nat
          /\ \A x \in 1..n : wire.starts[x] = At(wire, x)
          /\ \A x \in 1..(n + 1) : At(wire, x) \in Nat
          /\ \A x, y \in 1..(n + 1) :
                x < y <=> At(wire, x) + PacketSize <= At(wire, y)
      BY <1>2, Zenon DEF Laid
    <2> HIDE DEF n
    <2>3. i \in 1..(a + 1)
      BY <1>3, <2>1, <2>2
    <2> QED BY <2>1, <2>2, <2>3
  <1>5. StartsAre(processed, wire, i, a)
    BY <1>2, <1>3, <1>4, StartsOf, Zenon
  <1>6. /\ processed \in Seq(Nat) /\ Len(processed) = a + 1 - i
        /\ \A x \in 1..(a + 1 - i) : processed[x] = At(wire, i + x - 1)
    BY <1>5 DEF StartsAre
  <1>7. Stored = a + 1 - i
    <2>1. Len(pending) = 0
      BY EmptySeq DEF CallOver
    <2>2. Stored + Len(pending) = Len(processed) /\ Stored \in Nat
      BY LenProperties DEF DemuxerInv, ReachInv, Stored
    <2> HIDE DEF a
    <2> QED BY <1>6, <2>1, <2>2
  <1>8. ASSUME NEW x \in 1..Stored
        PROVE  /\ i + x - 1 \in i..a /\ i + x - 1 \in 1..n
               /\ i + x - 1 \in 1..(n + 1)
               /\ processed[x] = At(wire, i + x - 1)
               /\ processed[x] = wire.starts[i + x - 1]
               /\ arrived[clearedAt + x].pid = PidOn(wire, i + x - 1)
    <2> HIDE DEF a, n
    <2>0. /\ i \in Nat /\ a \in Nat /\ i <= a /\ a <= n /\ n \in Nat
          /\ i >= 1 /\ x \in 1..(a + 1 - i)
      BY <1>3, <1>4, <1>7
    <2>1. i + x - 1 \in i..a /\ i + x - 1 \in 1..n /\ i + x - 1 \in 1..(n + 1)
      BY <2>0
    <2>2. /\ processed[x] = At(wire, i + x - 1)
          /\ processed[x] = wire.starts[i + x - 1]
      BY <1>4, <1>6, <2>0, <2>1
    <2>3. arrived[clearedAt + x] = Meant(HeaderAt(processed[x]))
      BY DEF DemuxerInv, ReachInv
    <2>4. x \in DOMAIN processed
      <3>1. DOMAIN processed = 1..(a + 1 - i)
        BY <1>6, LenProperties
      <3> QED BY <2>0, <3>1
    <2>5. Meant(HeaderAt(processed[x])).pid = HeaderAt(processed[x]).pid
      BY <1>2, <2>4, HandedOnIsMeant
    <2>6. HeaderAt(processed[x]).pid = PidOn(wire, i + x - 1)
      BY <2>2 DEF HeaderAt, PidOn, HeaderOn
    <2> QED BY <2>1, <2>2, <2>3, <2>5, <2>6
  <1>9. ASSUME NEW x \in 1..Stored, NEW y \in 1..Stored, x < y
        PROVE  processed[x] < processed[y]
    <2> DEFINE c == i + x - 1
               d == i + y - 1
    <2>1. /\ c \in 1..(n + 1) /\ d \in 1..(n + 1)
          /\ processed[x] = At(wire, c) /\ processed[y] = At(wire, d)
      BY <1>8
    <2>2. c < d
      <3>1. i \in Nat /\ Stored \in Nat
        BY <1>3, <1>4, <1>7
      <3> QED BY <1>9, <3>1
    <2> HIDE DEF c, d, n
    <2>3. At(wire, c) + PacketSize <= At(wire, d)
          /\ At(wire, c) \in Nat /\ At(wire, d) \in Nat
      BY <1>4, <2>1, <2>2
    <2> QED BY <1>2, <2>1, <2>3
  <1> QED BY <1>3, <1>7, <1>8, <1>9 DEF HandedOnFrom

LEMMA HeldIsSent ==
    ASSUME DemuxerInv, wire.intact, StorageProofs!ReadsAll, NothingCleared,
           NEW i \in 1..Arrived, HandedOnFrom(i), NEW q \in HeaderPid
    PROVE  /\ {SentAt(q, x) : x \in Places(q)} =
                {wire.starts[j] :
                   j \in {k \in i..Arrived :
                            PidOn(wire, k) = q /\ Storage!Accepts([pid |-> q])}}
           /\ \A x, y \in Places(q) :
                 ReadBefore(x, y) => SentAt(q, x) < SentAt(q, y)
  <1> DEFINE U == Storage!Units[q]
             Number(x) == U[x[1]][x[2]]
             sent == {k \in i..Arrived :
                         PidOn(wire, k) = q /\ Storage!Accepts([pid |-> q])}
             expected == {n \in (clearedAt + 1)..Len(arrived) :
                            arrived[n].pid = q /\ Storage!Accepts([pid |-> q])}
  <1>1. U = StorageProofs!Units[q]
    BY Zenon DEF Storage!Units, StorageProofs!Units,
                 Storage!Iterations, StorageProofs!Iterations,
                 Storage!getOrCreateStream, StorageProofs!getOrCreateStream
  <1>2. expected = StorageProofs!Expected(q)
    BY DEF StorageProofs!Expected, Storage!Accepts, StorageProofs!Accepts
  <1>3. StorageProofs!KeptAll
    BY DEF StorageProofs!KeptAll, NothingCleared
  <1>4. /\ expected = UNION {{U[u][k] : k \in DOMAIN U[u]} : u \in DOMAIN U}
        /\ \A u, v \in DOMAIN U : \A k \in DOMAIN U[u], l \in DOMAIN U[v] :
              (u < v \/ (u = v /\ k < l)) => U[u][k] < U[v][l]
    <2> DEFINE W == StorageProofs!Units[q]
    <2>1. /\ StorageProofs!KeptAll =>
                StorageProofs!Expected(q)
                   = UNION {{W[u][k] : k \in DOMAIN W[u]} : u \in DOMAIN W}
          /\ \A u, v \in DOMAIN W : \A k \in DOMAIN W[u], l \in DOMAIN W[v] :
                (u < v \/ (u = v /\ k < l)) => W[u][k] < W[v][l]
      BY Zenon DEF StorageProofs!ReadsAll
    <2>2. U = W
      BY <1>1
    <2> HIDE DEF U, W, expected
    <2>3. expected = UNION {{W[u][k] : k \in DOMAIN W[u]} : u \in DOMAIN W}
      BY <1>2, <1>3, <2>1
    <2> QED BY <2>1, <2>2, <2>3
  <1> HIDE DEF U
  <1>5. Places(q) = UNION {{u} \X DOMAIN U[u] : u \in DOMAIN U}
        /\ \A x : SentAt(q, x) = processed[Number(x) - clearedAt]
    BY Zenon DEF Places, SentAt, U
  <1>6. \A x : x \in Places(q) <=>
           \E u \in DOMAIN U : \E k \in DOMAIN U[u] : x = <<u, k>>
    BY <1>5
  <1>7. /\ \A x \in Places(q) : Number(x) \in expected
        /\ \A n \in expected : \E x \in Places(q) : Number(x) = n
        /\ \A x, y \in Places(q) : ReadBefore(x, y) => Number(x) < Number(y)
    <2>1. ASSUME NEW x \in Places(q)
          PROVE  /\ x[1] \in DOMAIN U /\ x[2] \in DOMAIN U[x[1]]
                 /\ Number(x) \in expected
      BY <1>4, <1>6
    <2>2. ASSUME NEW n \in expected PROVE \E x \in Places(q) : Number(x) = n
      <3>1. PICK u \in DOMAIN U : \E k \in DOMAIN U[u] : n = U[u][k]
        BY <1>4
      <3>2. PICK k \in DOMAIN U[u] : n = U[u][k]
        BY <3>1
      <3>3. <<u, k>> \in Places(q) /\ Number(<<u, k>>) = n
        BY <1>6, <3>2
      <3> QED BY <3>3
    <2>3. ASSUME NEW x \in Places(q), NEW y \in Places(q), ReadBefore(x, y)
          PROVE  Number(x) < Number(y)
      BY <1>4, <2>1, <2>3 DEF ReadBefore
    <2> QED BY <2>1, <2>2, <2>3
  <1> HIDE DEF Number
  <1>8. /\ Len(arrived) \in Nat /\ clearedAt \in 0..Len(arrived)
        /\ Stored = Len(arrived) - clearedAt /\ Stored \in Nat
        /\ i \in Nat /\ Arrived \in Int /\ Stored = Arrived + 1 - i
    <2>1. arrived \in Seq(StoragePacket) /\ clearedAt \in 0..Len(arrived)
      BY DEF DemuxerInv, ReachInv
    <2>2. Len(arrived) \in Nat
      BY <2>1, LenProperties
    <2>3. Stored = Arrived + 1 - i
      BY DEF HandedOnFrom
    <2>4. Arrived \in Int
      <3>1. Laid(wire) /\ fed \in 0..Len(wire.cells)
        BY IntactIsLaid DEF DemuxerInv, StreamInv
      <3>2. Arrived \in 0..Len(wire.starts)
        BY <3>1, ArrivedAre DEF Arrived
      <3> QED BY <3>1, <3>2 DEF Laid
    <2>5. Stored = Len(arrived) - clearedAt
      BY DEF Stored
    <2> QED BY <2>1, <2>2, <2>3, <2>4, <2>5
  <1>9. ASSUME NEW n \in expected
        PROVE  /\ n - clearedAt \in 1..Stored /\ n \in Nat
               /\ i + (n - clearedAt) - 1 \in sent
               /\ processed[n - clearedAt]
                    = wire.starts[i + (n - clearedAt) - 1]
    <2> DEFINE x == n - clearedAt
    <2>1. x \in 1..Stored /\ n \in Nat /\ clearedAt + x = n
      BY <1>8
    <2> HIDE DEF x
    <2>2. /\ i + x - 1 \in i..Arrived
          /\ processed[x] = wire.starts[i + x - 1]
          /\ arrived[n].pid = PidOn(wire, i + x - 1)
      BY <2>1 DEF HandedOnFrom
    <2> QED BY <2>1, <2>2 DEF x
  <1>10. ASSUME NEW j \in sent
         PROVE  \E n \in expected : processed[n - clearedAt] = wire.starts[j]
    <2> DEFINE x == j + 1 - i
    <2>1. /\ x \in 1..Stored /\ i + x - 1 = j
          /\ clearedAt + x \in (clearedAt + 1)..Len(arrived)
          /\ (clearedAt + x) - clearedAt = x
      BY <1>8
    <2> HIDE DEF x
    <2>2. /\ processed[x] = wire.starts[j]
          /\ arrived[clearedAt + x].pid = PidOn(wire, j)
      BY <2>1 DEF HandedOnFrom
    <2>3. clearedAt + x \in expected
      BY <2>1, <2>2
    <2> QED BY <2>1, <2>2, <2>3
  <1> HIDE DEF expected, sent
  <1>11. {SentAt(q, x) : x \in Places(q)} = {wire.starts[j] : j \in sent}
    <2>1. ASSUME NEW x \in Places(q)
          PROVE  \E j \in sent : SentAt(q, x) = wire.starts[j]
      BY <1>5, <1>7, <1>9
    <2>2. ASSUME NEW j \in sent
          PROVE  \E x \in Places(q) : SentAt(q, x) = wire.starts[j]
      <3>1. PICK n \in expected : processed[n - clearedAt] = wire.starts[j]
        BY <1>10
      <3>2. PICK x \in Places(q) : Number(x) = n
        BY <1>7
      <3> QED BY <1>5, <3>1, <3>2
    <2> QED BY <2>1, <2>2
  <1>12. ASSUME NEW x \in Places(q), NEW y \in Places(q), ReadBefore(x, y)
         PROVE  SentAt(q, x) < SentAt(q, y)
    <2> DEFINE m == Number(x)
               n == Number(y)
    <2>1. m \in expected /\ n \in expected /\ m < n
      BY <1>7, <1>12
    <2> HIDE DEF m, n
    <2>2. /\ m - clearedAt \in 1..Stored /\ n - clearedAt \in 1..Stored
          /\ m \in Nat /\ n \in Nat
      BY <1>9, <2>1
    <2>3. m - clearedAt < n - clearedAt
      BY <1>8, <2>1, <2>2
    <2>4. processed[m - clearedAt] < processed[n - clearedAt]
      BY <2>2, <2>3 DEF HandedOnFrom
    <2> QED BY <1>5, <2>4 DEF m, n
  <1> QED BY <1>11, <1>12 DEF sent

\* For any intact streams of packets laid out properly, in any chunks, and any
\* calls in between: a user who cleared nothing since the last clearAll()
\* reads, PID by PID, exactly the packets sent from the one on to which the
\* demuxer synchronised, each once and in the order sent, unless the program
\* table or isSystemPID() filters the PID out.
THEOREM SentIsHeldTheorem == DemuxerSpec => []SentIsHeld
  <1>1. DemuxerInv /\ DeliveredInv /\ StorageProofs!ReadsAll => SentIsHeld
    <2> SUFFICES ASSUME DemuxerInv, DeliveredInv, StorageProofs!ReadsAll,
                        wire.intact, CallOver, is_synchronized, NothingCleared
                 PROVE  SentIsHeld
      BY DEF SentIsHeld
    <2>1. PICK i \in Synchronizable : i \in 1..Arrived /\ HandedOnFrom(i)
      BY HandedOnInOrder
    <2>2. \A q \in HeaderPid :
             /\ {SentAt(q, x) : x \in Places(q)} =
                  {wire.starts[j] :
                     j \in {k \in i..Arrived :
                              /\ PidOn(wire, k) = q
                              /\ Storage!Accepts([pid |-> q])}}
             /\ \A x, y \in Places(q) :
                   ReadBefore(x, y) => SentAt(q, x) < SentAt(q, y)
      BY <2>1, HeldIsSent, Zenon
    <2> QED BY <2>1, <2>2, Zenon DEF SentIsHeld
  <1>2. DemuxerSpec => []DeliveredInv
    BY DemuxerImplementsStream, DeliveredAlways, PTL
  <1>3. DemuxerSpec => []DemuxerInv
    BY DemuxerInitInv, DemuxerStep, PTL DEF DemuxerSpec
  <1> QED BY <1>1, <1>2, <1>3, StorageReads, PTL
=============================================================================
