-------------------------- MODULE PacketParser_proofs --------------------------
(***************************************************************************)
(* Theorems about PacketParser, for every packet.                          *)
(***************************************************************************)
EXTENDS PacketParser, TLAPS

\* Where a sender puts the private data's length byte is where parse() looks.
LEMMA PrivateWhereBuilt ==
    ASSUME NEW s \in Sent
    PROVE  PrivateAt(Build(s)) = 6 + Optional(s) /\ Optional(s) \in 0..13
  <1>1. Build(s).flags = s.flags
    BY DEF Build
  <1>2. QED
    BY <1>1 DEF PrivateAt, Size, Optional, Takes

\* The size of an adaptation field is what its parts add up to.
LEMMA FieldSize ==
    ASSUME NEW s \in Sent
    PROVE  /\ AdaptationSize(s) \in Nat
           /\ PrivateSize(s) \in Nat
           /\ "private" \in s.flags => PrivateSize(s) = 1 + s.priv
           /\ ~s.empty => /\ 1 + Optional(s) + PrivateSize(s) <=
                               AdaptationSize(s)
                          /\ 1 + Optional(s) <= AdaptationSize(s)
  <1> DEFINE o == Optional(s)
             p == PrivateSize(s)
             t == s.stuffing
             v == s.priv
             a == AdaptationSize(s)
  <1>1. o \in Nat
    BY PrivateWhereBuilt
  <1>2. t \in Nat /\ v \in Nat
    BY DEF Sent, Byte
  <1>3. p = IF "private" \in s.flags THEN 1 + v ELSE 0
    BY DEF PrivateSize, Takes
  <1>4. a = IF s.empty THEN 0 ELSE 1 + o + p + t
    BY DEF AdaptationSize
  <1> HIDE DEF o, p, t, v, a
  <1>5. p \in Nat
    BY <1>2, <1>3
  <1>6. a \in Nat
    BY <1>1, <1>2, <1>4, <1>5
  <1>7. ASSUME ~s.empty PROVE 1 + o + p <= a /\ 1 + o <= a
    <2>1. a = 1 + o + p + t
      BY <1>4, <1>7
    <2>2. QED
      BY <1>1, <1>2, <1>5, <2>1
  <1>8. QED
    BY <1>3, <1>5, <1>6, <1>7 DEF o, p, v, a

\* The bytes of what is built
LEMMA BuiltBytes ==
    ASSUME BytesRange, NEW s \in Sent, Sendable(s), s.field
    PROVE  /\ FieldLength(Build(s)) = AdaptationSize(s)
           /\ AdaptationSize(s) \in Nat
           /\ 5 + AdaptationSize(s) <= PacketBytes
           /\ ~s.empty /\ "private" \in s.flags =>
                /\ 6 + Optional(s) \in 4..(PacketBytes - 1)
                /\ Build(s).at[6 + Optional(s)] = s.priv
  <1>1. PacketBytes \in 6..188 /\ Optional(s) \in 0..13 /\ s.priv \in Nat
    BY PrivateWhereBuilt DEF Sent, BytesRange, Byte
  <1>2. /\ AdaptationSize(s) \in Nat
        /\ 5 + AdaptationSize(s) <= PacketBytes
    BY FieldSize DEF Sendable
  <1>3. 4 \in 4..(PacketBytes - 1) /\ Build(s).at[4] = AdaptationSize(s)
    BY <1>1 DEF Build
  <1>4. ASSUME ~s.empty, "private" \in s.flags
        PROVE  /\ 6 + Optional(s) \in 4..(PacketBytes - 1)
               /\ Build(s).at[6 + Optional(s)] = s.priv
    <2> DEFINE o == Optional(s)
               p == PrivateSize(s)
               v == s.priv
               a == AdaptationSize(s)
    <2>2. 1 + o + p <= a /\ p = 1 + v
      BY <1>4, FieldSize
    <2>3. o \in 0..13 /\ v \in Nat /\ a \in Nat /\ 5 + a <= PacketBytes
      BY <1>1, <1>2
    <2> HIDE DEF o, p, v, a
    <2>4. 6 + o \in 4..(PacketBytes - 1) /\ 6 + o # 4
      BY <1>1, <2>2, <2>3
    <2>5. QED
      BY <1>4, <2>4 DEF Build, o
  <1>5. QED
    BY <1>2, <1>3, <1>4 DEF FieldLength

\* A packet that is built is well formed.
LEMMA BuiltParses ==
    ASSUME BytesRange, NEW s \in Sent, Sendable(s)
    PROVE  Parses(Build(s))
  <1> DEFINE b == Build(s)
  <1>1. headerIsValid(b)
    BY DEF Build, headerIsValid
  <1>2. ASSUME HasAdaptation(b) PROVE fieldIsValid(b)
    <2>1. s.field
      BY <1>2 DEF HasAdaptation, Build
    <2>2. /\ FieldLength(b) = AdaptationSize(s)
          /\ AdaptationSize(s) \in Nat
          /\ 5 + AdaptationSize(s) <= PacketBytes
          /\ ~s.empty /\ "private" \in s.flags =>
                b.at[6 + Optional(s)] = s.priv
      BY <2>1, BuiltBytes
    <2>3. PrivateAt(b) = 6 + Optional(s) /\ Optional(s) \in 0..13
      BY PrivateWhereBuilt
    <2>4. b.flags = s.flags /\ s.priv \in 0..255 /\ s.stuffing \in 0..255
      BY DEF Build, Sent, Byte
    <2> HIDE DEF b
    <2>5. CASE s.empty
      BY <2>2, <2>5 DEF fieldIsValid, AdaptationSize
    <2>6. CASE ~s.empty
      <3> DEFINE o == Optional(s)
                 p == PrivateSize(s)
                 v == s.priv
                 a == AdaptationSize(s)
                 end == FieldEnd(b)
                 at == PrivateAt(b)
      <3>1. 1 + o + p <= a /\ 1 + o <= a /\ a \in Nat /\ p \in Nat
        BY <2>6, FieldSize
      <3>2. end = 5 + a /\ at = 6 + o /\ o \in 0..13 /\ v \in Nat
        BY <2>2, <2>3, <2>4 DEF FieldEnd
      <3>3. "private" \in b.flags => p = 1 + v /\ b.at[at] = v
        BY <2>2, <2>3, <2>4, <2>6, FieldSize
      <3>4. end <= PacketBytes
        BY <2>2 DEF FieldEnd
      <3> HIDE DEF o, p, v, a, end, at
      <3>5. at <= end
        BY <3>1, <3>2
      <3>6. ASSUME "private" \in b.flags
            PROVE  at + 1 <= end /\ at + 1 + b.at[at] <= end
        <4>1. p = 1 + v /\ b.at[at] = v
          BY <3>3, <3>6
        <4>2. at + 1 <= end /\ at + 1 + v <= end
          BY <3>1, <3>2, <4>1
        <4>3. QED
          BY <4>1, <4>2
      <3>7. QED
        BY <3>4, <3>5, <3>6 DEF fieldIsValid, end, at
    <2>7. QED
      BY <2>5, <2>6
  <1>3. QED
    BY <1>1, <1>2 DEF Parses

\* parse() accepts every packet a sender can build, whatever optional fields
\* and stuffing it has, and returns what the sender meant: the counter and
\* flags, and the lengths of private data and payload.
THEOREM RoundTrip ==
    ASSUME BytesRange
    PROVE  \A s \in Sent : Sendable(s) =>
              Parses(Build(s)) /\ parse(Build(s)) = Meaning(s)
  <1> SUFFICES ASSUME NEW s \in Sent, Sendable(s)
               PROVE  Parses(Build(s)) /\ parse(Build(s)) = Meaning(s)
    OBVIOUS
  <1> DEFINE b == Build(s)
  <1>1. Parses(b)
    BY BuiltParses
  <1>2. /\ HasAdaptation(b) = s.field
        /\ HasPayload(b) = s.payload
        /\ b.flags = s.flags
        /\ s.field \in BOOLEAN /\ s.payload \in BOOLEAN
        /\ b.pid = s.pid /\ b.pusi = s.pusi /\ b.cc = s.cc
    BY DEF HasAdaptation, HasPayload, Build, Sent, Sendable
  <1>3. s.field => /\ FieldLength(b) = AdaptationSize(s)
                   /\ AdaptationSize(s) \in Nat
                   /\ ~s.empty /\ "private" \in s.flags =>
                         b.at[6 + Optional(s)] = s.priv
    BY BuiltBytes
  <1>4. PrivateAt(b) = 6 + Optional(s)
    BY PrivateWhereBuilt
  <1>5. /\ s.empty => AdaptationSize(s) = 0
        /\ ~s.empty => AdaptationSize(s) > 0
    <2>1. ASSUME ~s.empty PROVE AdaptationSize(s) > 0
      <3>1. Optional(s) \in 0..13 /\ AdaptationSize(s) \in Nat
            /\ 1 + Optional(s) <= AdaptationSize(s)
        BY <2>1, PrivateWhereBuilt, FieldSize
      <3>2. QED
        BY <3>1
    <2>2. QED
      BY <2>1 DEF AdaptationSize
  <1> HIDE DEF b
  <1>6. \A flag : FlagSet(b, flag) = (s.field /\ ~s.empty /\ flag \in s.flags)
    BY <1>2, <1>3, <1>5 DEF FlagSet
  <1>7. PrivateLength(b) =
          IF s.field /\ ~s.empty /\ "private" \in s.flags THEN s.priv ELSE 0
    BY <1>3, <1>4, <1>6 DEF PrivateLength
  <1>8. (IF HasPayload(b) THEN PacketBytes - PayloadOffset(b) ELSE 0) =
          IF ~s.payload THEN 0
          ELSE IF s.field THEN PacketBytes - 5 - AdaptationSize(s)
          ELSE PacketBytes - 4
    <2>1. PacketBytes \in Nat
      BY DEF BytesRange
    <2>2. CASE s.field
      <3>1. PayloadOffset(b) = 5 + AdaptationSize(s)
        BY <1>2, <1>3, <2>2 DEF PayloadOffset, FieldEnd
      <3>2. PacketBytes - PayloadOffset(b) = PacketBytes - 5 - AdaptationSize(s)
        BY <1>3, <2>1, <2>2, <3>1
      <3>3. QED
        BY <1>2, <2>2, <3>2
    <2>3. CASE ~s.field
      <3>1. PayloadOffset(b) = 4
        BY <1>2, <2>3 DEF PayloadOffset
      <3>2. QED
        BY <1>2, <2>3, <3>1
    <2>4. QED
      BY <2>2, <2>3
  <1>9. parse(b) = Meaning(s)
    BY <1>2, <1>6, <1>7, <1>8, Zenon DEF parse, Meaning
  <1>10. QED
    BY <1>1, <1>9 DEF b

\* Whatever bytes follow a sync byte, what parse() accepts stays inside the
\* packet: the payload begins behind the adaptation field and ends with the
\* packet, and the private data lies inside the field.
THEOREM ParsedInsidePacket ==
    ASSUME BytesRange, NEW b \in Bytes, Parses(b)
    PROVE  /\ PayloadOffset(b) \in 4..PacketBytes
           /\ parse(b).pay \in 0..(PacketBytes - 4)
           /\ PrivateLength(b) > 0 =>
                PrivateAt(b) + 1 + PrivateLength(b) <= PayloadOffset(b)
  <1>1. PacketBytes \in 6..188 /\ b.at[4] \in 0..255
    BY DEF BytesRange, Bytes, Byte
  <1>2. HasAdaptation(b) => fieldIsValid(b)
    BY DEF Parses
  <1>3. PayloadOffset(b) \in 4..PacketBytes
    <2>1. CASE HasAdaptation(b)
      <3>1. PayloadOffset(b) = 5 + FieldLength(b)
        BY <2>1 DEF PayloadOffset, FieldEnd
      <3>2. FieldLength(b) = 0 \/ 5 + FieldLength(b) <= PacketBytes
        BY <1>2, <2>1 DEF fieldIsValid, FieldEnd
      <3>3. QED
        BY <1>1, <3>1, <3>2 DEF FieldLength
    <2>2. CASE ~HasAdaptation(b)
      BY <1>1, <2>2 DEF PayloadOffset
    <2>3. QED
      BY <2>1, <2>2
  <1>4. parse(b).pay \in 0..(PacketBytes - 4)
    <2>1. parse(b).pay =
            IF HasPayload(b) THEN PacketBytes - PayloadOffset(b) ELSE 0
      BY DEF parse
    <2>2. QED
      BY <1>1, <1>3, <2>1
  <1>5. ASSUME PrivateLength(b) > 0
        PROVE  PrivateAt(b) + 1 + PrivateLength(b) <= PayloadOffset(b)
    <2>1. FlagSet(b, "private")
      BY <1>5 DEF PrivateLength
    <2>2. /\ HasAdaptation(b) /\ FieldLength(b) > 0 /\ "private" \in b.flags
          /\ PrivateLength(b) = b.at[PrivateAt(b)]
      BY <2>1 DEF FlagSet, PrivateLength
    <2>3. ~(FieldLength(b) = 0)
      BY <1>1, <2>2 DEF FieldLength
    <2>4. PrivateAt(b) + 1 + b.at[PrivateAt(b)] <= FieldEnd(b)
      BY <1>2, <2>2, <2>3, Zenon DEF fieldIsValid
    <2>5. PayloadOffset(b) = FieldEnd(b)
      BY <2>2 DEF PayloadOffset
    <2>6. QED
      BY <2>2, <2>4, <2>5
  <1>6. QED
    BY <1>3, <1>4, <1>5
=============================================================================
