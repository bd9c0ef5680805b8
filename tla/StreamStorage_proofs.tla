------------------------- MODULE StreamStorage_proofs -------------------------
(***************************************************************************)
(* Theorems about StreamStorage, for any set of PIDs, packets and tables   *)
(* and any number of packets below the ids' modulus.                       *)
(***************************************************************************)
EXTENDS StreamStorage, SequenceTheorems, WellFoundedInduction, TLAPS

-----------------------------------------------------------------------------
(***************************************************************************)
(* Lemmas about the operators.                                             *)
(***************************************************************************)

\* The minimum of a nonempty set of naturals is one of its members.
LEMMA MinInSet ==
    ASSUME NEW S \in SUBSET Nat, S # {}
    PROVE  Min(S) \in S /\ \A n \in S : Min(S) <= n
  <1>1. \E n \in S : \A m \in S : ~(<<m, n>> \in OpToRel(<, Nat))
    BY WFMin, NatLessThanWellFounded
  <1>2. PICK n \in S : \A m \in S : ~(<<m, n>> \in OpToRel(<, Nat))
    BY <1>1
  <1>3. ASSUME NEW m \in S PROVE n <= m
    <2>1. <<m, n>> \in Nat \X Nat /\ ~(<<m, n>> \in OpToRel(<, Nat))
      BY <1>2
    <2>2. ~(<<m, n>>[1] < <<m, n>>[2])
      BY <2>1, Zenon DEF OpToRel
    <2>3. ~(m < n)
      BY <2>2
    <2>4. QED
      BY <2>3
  <1>4. QED
    BY <1>3 DEF Min

\* The index find_if returns is 0 or that of an iteration with the id.
LEMMA IndexOfType ==
    ASSUME NEW s \in Seq(Entry), NEW id
    PROVE  /\ IndexOf(s, id) \in 0..Len(s)
           /\ IndexOf(s, id) # 0 => s[IndexOf(s, id)].id = id
  <1> DEFINE I == {i \in 1..Len(s) : s[i].id = id}
  <1>1. IndexOf(s, id) = IF I # {} THEN Min(I) ELSE 0
    BY DEF IndexOf, SelectInSeq
  <1>2. Len(s) \in Nat /\ I \in SUBSET Nat
    BY LenProperties
  <1>3. CASE I = {}
    BY <1>1, <1>2, <1>3
  <1>4. CASE I # {}
    <2>1. Min(I) \in I
      BY <1>2, <1>4, MinInSet
    <2>2. QED
      BY <1>1, <1>2, <1>4, <2>1
  <1>5. QED
    BY <1>3, <1>4

\* removeIteration keeps the other iterations, in their order: what is at i
\* was at i or, behind the one removed, at i + 1.
LEMMA RemoveIteration ==
    ASSUME NEW s \in Seq(Entry), NEW id
    PROVE  /\ removeIteration(s, id) \in Seq(Entry)
           /\ \E k \in Nat : \A i \in DOMAIN removeIteration(s, id) :
                 /\ i \in Nat
                 /\ i < k => i \in DOMAIN s /\ removeIteration(s, id)[i] = s[i]
                 /\ i >= k => i + 1 \in DOMAIN s
                              /\ removeIteration(s, id)[i] = s[i + 1]
  <1> DEFINE k == IndexOf(s, id)
             t == removeIteration(s, id)
  <1>1. k \in 0..Len(s) /\ Len(s) \in Nat /\ DOMAIN s = 1..Len(s)
        /\ \A i \in 1..Len(s) : s[i] \in Entry
    BY IndexOfType, LenProperties, ElementOfSeq
  <1>2. CASE k = 0
    <2>1. t = s
      BY <1>2 DEF removeIteration
    <2>2. \A i \in DOMAIN t : i \in Nat /\ i < Len(s) + 1 /\ i \in DOMAIN s
                              /\ t[i] = s[i]
      BY <1>1, <2>1
    <2>3. Len(s) + 1 \in Nat
      BY <1>1
    <2> HIDE DEF t
    <2>4. \A i \in DOMAIN t :
             /\ i \in Nat
             /\ i < Len(s) + 1 => i \in DOMAIN s /\ t[i] = s[i]
             /\ i >= Len(s) + 1 => i + 1 \in DOMAIN s /\ t[i] = s[i + 1]
      BY <1>1, <2>2
    <2>5. t \in Seq(Entry)
      BY <2>1
    <2>6. QED
      BY <2>3, <2>4, <2>5 DEF t
  <1>3. CASE k # 0
    <2> DEFINE a == SubSeq(s, 1, k - 1)
               b == SubSeq(s, k + 1, Len(s))
    <2>1. t = a \o b
      BY <1>3 DEF removeIteration, RemoveAt
    <2>2. k \in Nat /\ 1 <= k /\ k <= Len(s)
      BY <1>1, <1>3
    <2> HIDE DEF k
    <2>3. /\ a \in Seq(Entry) /\ Len(a) = k - 1
          /\ \A i \in 1..(k - 1) : a[i] = s[i]
      <3>1. \A i \in 1..(k - 1) : s[i] \in Entry
        BY <1>1, <2>2
      <3>2. /\ a \in Seq(Entry)
            /\ Len(a) = IF 1 <= k - 1 THEN (k - 1) - 1 + 1 ELSE 0
            /\ \A i \in 1..((k - 1) - 1 + 1) : a[i] = s[1 + i - 1]
        BY <2>2, <3>1, SubSeqProperties
      <3>3. QED
        BY <2>2, <3>2
    <2>4. /\ b \in Seq(Entry) /\ Len(b) = Len(s) - k
          /\ \A i \in 1..(Len(s) - k) : b[i] = s[k + i]
      <3>1. \A i \in (k + 1)..Len(s) : s[i] \in Entry
        BY <1>1, <2>2
      <3>2. /\ b \in Seq(Entry)
            /\ Len(b) = IF k + 1 <= Len(s) THEN Len(s) - (k + 1) + 1 ELSE 0
            /\ \A i \in 1..(Len(s) - (k + 1) + 1) : b[i] = s[(k + 1) + i - 1]
        BY <1>1, <2>2, <3>1, SubSeqProperties
      <3>3. Len(s) - (k + 1) + 1 = Len(s) - k
        BY <1>1, <2>2
      <3> HIDE DEF b
      <3>4. Len(b) = Len(s) - k
        <4>1. CASE k + 1 <= Len(s)
          BY <3>2, <3>3, <4>1
        <4>2. CASE ~(k + 1 <= Len(s))
          <5> DEFINE len == Len(s)
          <5>a. len \in Nat /\ k \in Nat /\ k <= len /\ ~(k + 1 <= len)
            BY <1>1, <2>2, <4>2
          <5> HIDE DEF len
          <5>b. len = k
            BY <5>a
          <5>1. Len(s) = k
            BY <5>b DEF len
          <5>2. Len(b) = 0
            BY <3>2, <4>2
          <5>3. QED
            BY <2>2, <5>1, <5>2
        <4>3. QED
          BY <4>1, <4>2
      <3>5. ASSUME NEW i \in 1..(Len(s) - k) PROVE b[i] = s[k + i]
        <4>1. b[i] = s[(k + 1) + i - 1]
          BY <3>2, <3>3
        <4>2. (k + 1) + i - 1 = k + i
          BY <2>2
        <4>3. QED
          BY <4>1, <4>2
      <3>6. QED
        BY <3>2, <3>4, <3>5
    <2> HIDE DEF a, b
    <2> HIDE DEF t
    <2>5. /\ t \in Seq(Entry) /\ Len(t) = Len(a) + Len(b)
          /\ \A i \in 1..(Len(a) + Len(b)) :
                t[i] = IF i <= Len(a) THEN a[i] ELSE b[i - Len(a)]
      BY <2>1, <2>3, <2>4, ConcatProperties
    <2>6. Len(t) = Len(s) - 1 /\ DOMAIN t = 1..(Len(s) - 1)
      BY <1>1, <2>2, <2>3, <2>4, <2>5, LenProperties
    <2>7. ASSUME NEW i \in DOMAIN t
          PROVE  /\ i \in Nat
                 /\ i < k => i \in DOMAIN s /\ t[i] = s[i]
                 /\ i >= k => i + 1 \in DOMAIN s /\ t[i] = s[i + 1]
      <3>1. i \in 1..(Len(s) - 1)
        BY <2>6
      <3>2. CASE i < k
        <4>1. t[i] = a[i] /\ a[i] = s[i]
          BY SMTT(60), <1>1, <2>2, <2>3, <2>4, <2>5, <3>1, <3>2
        <4>2. QED
          BY <1>1, <2>2, <3>1, <3>2, <4>1
      <3>3. CASE i >= k
        <4>1. i - Len(a) \in 1..(Len(s) - k) /\ k + (i - Len(a)) = i + 1
          BY <1>1, <2>2, <2>3, <3>1, <3>3
        <4>2. i \in 1..(Len(a) + Len(b)) /\ ~(i <= Len(a))
          BY <1>1, <2>2, <2>3, <2>4, <3>1, <3>3
        <4>3. t[i] = b[i - Len(a)]
          BY <2>5, <4>2
        <4>4. b[i - Len(a)] = s[k + (i - Len(a))]
          BY <2>4, <4>1
        <4>5. t[i] = s[i + 1]
          BY <4>1, <4>3, <4>4
        <4>6. QED
          BY <1>1, <2>2, <3>1, <3>3, <4>5
      <3>4. QED
        BY <2>2, <3>1, <3>2, <3>3
    <2>8. QED
      BY <2>2, <2>5, <2>7 DEF t
  <1>4. QED
    BY <1>2, <1>3

LEMMA EmptyMap ==
    ASSUME NEW S
    PROVE  DOMAIN <<>> = {} /\ <<>> \in [{} -> S]
  OBVIOUS

LEMMA PutType ==
    ASSUME NEW D, NEW S, NEW f \in [D -> S], NEW k, NEW v \in S
    PROVE  Put(f, k, v) \in [D \cup {k} -> S]
  BY DEF Put

\* What addPacketToStorage() builds is an IterationData.
LEMMA NewIterationType ==
    ASSUME NEW p \in Packet
    PROVE  NewIteration(p) \in IterationData
  <1>1. <<>> \in Seq(Segment) /\ <<>> \in Seq(Nat)
    OBVIOUS
  <1>2. /\ p.pusi \in BOOLEAN /\ p.cc \in CC
        /\ 0 \in CC /\ 0 \in Nat
    BY DEF Packet, CC
  <1>3. QED
    BY <1>1, <1>2 DEF NewIteration, IterationData

LEMMA SegmentsType ==
    ASSUME NEW p \in Packet, NEW n \in Nat, NEW size \in Nat
    PROVE  Segments(p, n, size) \in Seq(Segment)
  <1> DEFINE private == [n |-> n, type |-> "private", offset |-> size,
                         length |-> p.priv]
             normal == [n |-> n, type |-> "normal", offset |-> size + p.priv,
                        length |-> p.pay]
             first == IF p.priv > 0 THEN <<private>> ELSE <<>>
             second == IF p.pay > 0 THEN <<normal>> ELSE <<>>
  <1>1. p.priv \in Nat /\ p.pay \in Nat /\ size + p.priv \in Nat
    BY DEF Packet
  <1>2. private \in Segment /\ normal \in Segment
    BY <1>1 DEF Segment
  <1> HIDE DEF private, normal
  <1>3. first \in Seq(Segment) /\ second \in Seq(Segment)
    BY <1>2
  <1>4. Segments(p, n, size) = first \o second
    BY DEF Segments, private, normal
  <1> HIDE DEF first, second
  <1>5. QED
    BY <1>3, <1>4, ConcatProperties

LEMMA ExtendedType ==
    ASSUME NEW d \in IterationData, NEW p \in Packet, NEW n \in Nat
    PROVE  Extended(d, p, n) \in IterationData
  <1>1. /\ d.payloads \in Seq(Segment) /\ d.payload_data \in Nat
        /\ d.discontinuity_detected \in BOOLEAN
        /\ d.payload_unit_start_seen \in BOOLEAN
        /\ d.first_cc \in CC /\ d.packet_count \in Nat
        /\ d.pkts \in Seq(Nat)
    BY DEF IterationData
  <1>2. p.priv \in Nat /\ p.pay \in Nat /\ p.cc \in CC
    BY DEF Packet
  <1>3. d.payloads \o Segments(p, n, d.payload_data) \in Seq(Segment)
    BY <1>1, SegmentsType, ConcatProperties
  <1>4. Append(d.pkts, n) \in Seq(Nat)
    BY <1>1
  <1>5. /\ d.payload_data + p.priv + p.pay \in Nat
        /\ d.packet_count + 1 \in Nat
    BY <1>1, <1>2
  <1>6. (d.discontinuity_detected \/ Discontinuity(p)) \in BOOLEAN
    OBVIOUS
  <1>7. QED
    BY <1>1, <1>2, <1>3, <1>4, <1>5, <1>6 DEF Extended, IterationData

LEMMA StreamType ==
    ASSUME TypeOK, NEW q
    PROVE  getOrCreateStream(q) \in Seq(Entry)
  <1>1. streams \in [DOMAIN streams -> Seq(Entry)]
    BY DEF TypeOK, StorageTypeOK
  <1>2. <<>> \in Seq(Entry)
    OBVIOUS
  <1>3. QED
    BY <1>1, <1>2 DEF getOrCreateStream

\* Finishing iterations keeps what is stored and puts each behind its
\* stream, under the id it was given when it started.
LEMMA FinalizedStreams ==
    ASSUME TypeOK, NEW P \in SUBSET DOMAIN current_iterations
    PROVE  /\ Finalized(P) \in [DOMAIN streams \cup P -> Seq(Entry)]
           /\ DOMAIN Finalized(P) = DOMAIN streams \cup P
           /\ DOMAIN streams \cup P \subseteq Pid
           /\ \A q \in DOMAIN Finalized(P) :
                 \A i \in DOMAIN Finalized(P)[q] :
                    \/ /\ q \in DOMAIN streams /\ i \in DOMAIN streams[q]
                       /\ Finalized(P)[q][i] = streams[q][i]
                    \/ /\ q \in P
                       /\ i = Len(getOrCreateStream(q)) + 1
                       /\ Finalized(P)[q][i].id = current_iteration_ids[q]
  <1> DEFINE E(q) == [id |-> current_iteration_ids[q],
                      data |-> current_iterations[q]]
  <1>1. /\ streams \in [DOMAIN streams -> Seq(Entry)]
        /\ DOMAIN streams \cup P \subseteq Pid
    BY DEF TypeOK, StorageTypeOK, CurrentTypeOK
  <1>2. ASSUME NEW q \in P PROVE E(q) \in Entry
    <2>1. /\ current_iterations[q] \in IterationData
          /\ current_iteration_ids[q] \in 0..(IdModulus - 1)
      BY DEF TypeOK, CurrentTypeOK
    <2>2. QED
      BY <2>1 DEF Entry
  <1>3. \A q : getOrCreateStream(q) \in Seq(Entry)
    BY StreamType
  <1>4. /\ DOMAIN Finalized(P) = DOMAIN streams \cup P
        /\ \A q \in P : Finalized(P)[q] = Append(getOrCreateStream(q), E(q))
        /\ \A q \in DOMAIN streams \ P : Finalized(P)[q] = streams[q]
    BY DEF Finalized
  <1>id. \A q \in P : E(q).id = current_iteration_ids[q]
    OBVIOUS
  <1> HIDE DEF E
  <1>5. ASSUME NEW q \in P
        PROVE  /\ Finalized(P)[q] \in Seq(Entry)
               /\ Len(Finalized(P)[q]) = Len(getOrCreateStream(q)) + 1
               /\ \A i \in 1..Len(getOrCreateStream(q)) :
                     Finalized(P)[q][i] = getOrCreateStream(q)[i]
               /\ Finalized(P)[q][Len(getOrCreateStream(q)) + 1] = E(q)
    BY <1>2, <1>3, <1>4, AppendProperties
  <1>6. Finalized(P) \in [DOMAIN streams \cup P -> Seq(Entry)]
    <2>1. \A q \in DOMAIN streams \cup P : Finalized(P)[q] \in Seq(Entry)
      BY <1>1, <1>4, <1>5
    <2>2. Finalized(P) = [q \in DOMAIN streams \cup P |-> Finalized(P)[q]]
      BY DEF Finalized
    <2>3. QED
      BY <2>1, <2>2
  <1>7. ASSUME NEW q \in DOMAIN Finalized(P), NEW i \in DOMAIN Finalized(P)[q]
        PROVE  \/ /\ q \in DOMAIN streams /\ i \in DOMAIN streams[q]
                  /\ Finalized(P)[q][i] = streams[q][i]
               \/ /\ q \in P
                  /\ i = Len(getOrCreateStream(q)) + 1
                  /\ Finalized(P)[q][i].id = current_iteration_ids[q]
    <2>1. CASE q \notin P
      BY <1>4, <2>1
    <2>2. CASE q \in P
      <3> DEFINE old == getOrCreateStream(q)
      <3>1. old \in Seq(Entry) /\ Len(old) \in Nat /\ DOMAIN old = 1..Len(old)
        BY <1>3, LenProperties
      <3>2. i \in 1..(Len(old) + 1)
        BY <1>5, <2>2, LenProperties
      <3>3. CASE i = Len(old) + 1
        BY <1>5, <1>id, <2>2, <3>3
      <3>4. CASE i # Len(old) + 1
        <4>1. i \in 1..Len(old)
          <5> HIDE DEF old
          <5>1. QED
            BY <3>1, <3>2, <3>4
        <4>2. Finalized(P)[q][i] = old[i]
          BY <1>5, <2>2, <4>1
        <4>3. q \in DOMAIN streams
          <5>1. SUFFICES ASSUME q \notin DOMAIN streams PROVE FALSE
            OBVIOUS
          <5>2. old = <<>>
            BY <5>1 DEF getOrCreateStream
          <5>3. Len(old) = 0
            BY <5>2
          <5>4. QED
            BY <3>1, <4>1, <5>3
        <4>4. old = streams[q]
          BY <4>3 DEF getOrCreateStream
        <4>5. QED
          BY <3>1, <4>1, <4>2, <4>3, <4>4
      <3>5. QED
        BY <3>3, <3>4
    <2>3. QED
      BY <2>1, <2>2
  <1>8. QED
    BY <1>1, <1>4, <1>6, <1>7

-----------------------------------------------------------------------------
(***************************************************************************)
(* Type correctness.                                                       *)
(***************************************************************************)

LEMMA InitType == Init => TypeOK
  <1> SUFFICES ASSUME Init PROVE TypeOK
    OBVIOUS
  <1>1. StorageTypeOK
    <2>1. 1 \in 0..(IdModulus - 1)
      BY ConstantsAssumption
    <2>2. QED
      BY <2>1, EmptyMap DEF Init, StorageTypeOK
  <1>2. CurrentTypeOK
    BY EmptyMap DEF Init, CurrentTypeOK
  <1>3. TableTypeOK
    BY DEF Init, TableTypeOK
  <1>4. HistoryTypeOK
    <2>1. arrived \in Seq(Packets) /\ Len(arrived) = 0
      BY DEF Init
    <2>2. /\ accepted = {} /\ owed = {} /\ clearedAt = 0 /\ tableAt = 0
          /\ idsReset = FALSE
      BY DEF Init
    <2>3. Len(arrived) <= MaxPackets
      BY <2>1, ConstantsAssumption
    <2>4. clearedAt \in 0..Len(arrived) /\ tableAt \in 0..Len(arrived)
      BY <2>1, <2>2
    <2>5. QED
      BY <2>1, <2>2, <2>3, <2>4 DEF HistoryTypeOK
  <1>5. QED
    BY <1>1, <1>2, <1>3, <1>4 DEF TypeOK

\* The id after the next one exists: no run wraps around.
LEMMA NextId ==
    ASSUME next_iteration_id \in 0..(IdModulus - 1)
    PROVE  generateIterationID \in 0..(IdModulus - 1)
  BY ConstantsAssumption DEF generateIterationID

LEMMA AddPacketType ==
    ASSUME TypeOK, NEW p \in Packets, AddPacket(p)
    PROVE  TypeOK'
  <1> DEFINE n == Len(arrived) + 1
  <1>1. p \in Packet /\ p.pid \in Pid /\ p.cc \in CC
    BY ConstantsAssumption DEF Packet
  <1>2. /\ arrived \in Seq(Packets) /\ Len(arrived) \in Nat
        /\ arrived' = Append(arrived, p) /\ Len(arrived) < MaxPackets
        /\ arrived' \in Seq(Packets) /\ Len(arrived') = n /\ n \in Nat
    BY LenProperties, AppendProperties
       DEF TypeOK, HistoryTypeOK, AddPacket
  <1>3. TableTypeOK'
    BY DEF TypeOK, TableTypeOK, AddPacket, tableVars
  <1>4. HistoryTypeOK'
    <2>1. accepted' \in SUBSET Nat /\ owed' \in SUBSET Nat
      BY <1>2 DEF TypeOK, HistoryTypeOK, AddPacket, SkipPacket,
                  StartIteration, ContinueIteration
    <2>2. /\ clearedAt \in 0..Len(arrived) /\ tableAt \in 0..Len(arrived)
          /\ idsReset \in BOOLEAN
      BY DEF TypeOK, HistoryTypeOK
    <2>3. clearedAt' = clearedAt /\ tableAt' = tableAt /\ idsReset' = idsReset
      BY DEF AddPacket
    <2> HIDE DEF n
    <2>4. Len(arrived') <= MaxPackets
      BY <1>2, ConstantsAssumption DEF n
    <2>5. clearedAt' \in 0..Len(arrived') /\ tableAt' \in 0..Len(arrived')
      BY <1>2, <2>2, <2>3 DEF n
    <2>6. QED
      BY <1>2, <2>1, <2>2, <2>3, <2>4, <2>5 DEF HistoryTypeOK
  <1>5. StorageTypeOK' /\ CurrentTypeOK'
    <2>1. CASE SkipPacket(p)
      BY <2>1 DEF SkipPacket, storageVars, currentVars, TypeOK, StorageTypeOK,
                  CurrentTypeOK
    <2>2. CASE StartIteration(p)
      <3> DEFINE d == Extended(NewIteration(p), p, n)
      <3>1. d \in IterationData
        BY <1>1, <1>2, NewIterationType, ExtendedType
      <3>2. /\ streams' = Finalized(Closes(p))
            /\ Closes(p) \in SUBSET DOMAIN current_iterations
            /\ next_iteration_id' = generateIterationID
            /\ current_iteration_ids' =
                  Put(current_iteration_ids, p.pid, next_iteration_id)
            /\ current_iterations' = Put(current_iterations, p.pid, d)
            /\ last_cc' = Put(last_cc, p.pid, p.cc)
        BY <2>2 DEF StartIteration, Closes
      <3> HIDE DEF d, n
      <3>3. StorageTypeOK'
        <4> DEFINE F == Finalized(Closes(p))
        <4>1. F \in [DOMAIN F -> Seq(Entry)] /\ DOMAIN F \subseteq Pid
          <5>1. F \in [DOMAIN streams \cup Closes(p) -> Seq(Entry)]
            BY <3>2, FinalizedStreams
          <5>2. /\ DOMAIN F = DOMAIN streams \cup Closes(p)
                /\ DOMAIN streams \cup Closes(p) \subseteq Pid
            BY <3>2, FinalizedStreams
          <5>3. QED
            BY <5>1, <5>2, Zenon
        <4>2. streams' = F
          BY <3>2
        <4>3. /\ streams' \in [DOMAIN streams' -> Seq(Entry)]
              /\ DOMAIN streams' \subseteq Pid
          BY <4>1, <4>2, Zenon
        <4>4. next_iteration_id' \in 0..(IdModulus - 1)
          BY <3>2, NextId DEF TypeOK, StorageTypeOK
        <4>5. QED
          BY <4>3, <4>4 DEF StorageTypeOK
      <3>4. CurrentTypeOK'
        <4> DEFINE D == DOMAIN current_iterations
        <4>1. /\ current_iterations \in [D -> IterationData]
              /\ current_iteration_ids \in [D -> 0..(IdModulus - 1)]
              /\ next_iteration_id \in 0..(IdModulus - 1)
              /\ last_cc \in [DOMAIN last_cc -> CC]
              /\ D \subseteq Pid /\ DOMAIN last_cc \subseteq Pid
          BY DEF TypeOK, StorageTypeOK, CurrentTypeOK
        <4> HIDE DEF D
        <4>2. current_iterations' \in [D \cup {p.pid} -> IterationData]
          BY <3>1, <3>2, <4>1, PutType
        <4>d. DOMAIN current_iterations' = D \cup {p.pid}
          BY <4>2
        <4>3. current_iteration_ids'
                 \in [D \cup {p.pid} -> 0..(IdModulus - 1)]
          BY <3>2, <4>1, PutType
        <4>4. last_cc' \in [DOMAIN last_cc \cup {p.pid} -> CC]
          BY <1>1, <3>2, <4>1, PutType
        <4>l. DOMAIN last_cc' = DOMAIN last_cc \cup {p.pid}
          BY <4>4
        <4>5. QED
          BY <1>1, <4>1, <4>2, <4>d, <4>3, <4>4, <4>l DEF CurrentTypeOK
      <3>5. QED
        BY <3>3, <3>4
    <2>3. CASE ContinueIteration(p)
      <3> DEFINE d == Extended(current_iterations[p.pid], p, n)
                 D == DOMAIN current_iterations
      <3>1. /\ current_iterations \in [D -> IterationData]
            /\ last_cc \in [DOMAIN last_cc -> CC]
            /\ D \subseteq Pid /\ DOMAIN last_cc \subseteq Pid
            /\ current_iteration_ids \in [D -> 0..(IdModulus - 1)]
        BY DEF TypeOK, CurrentTypeOK
      <3>2. /\ p.pid \in D
            /\ current_iterations' = Put(current_iterations, p.pid, d)
            /\ last_cc' = Put(last_cc, p.pid, p.cc)
            /\ UNCHANGED <<streams, next_iteration_id, current_iteration_ids>>
        BY <2>3 DEF ContinueIteration, storageVars
      <3>3. d \in IterationData
        BY <1>1, <1>2, <3>1, <3>2, ExtendedType
      <3>4. StorageTypeOK'
        BY <3>2 DEF TypeOK, StorageTypeOK
      <3> HIDE DEF d, D, n
      <3>5. current_iterations' \in [D \cup {p.pid} -> IterationData]
        BY <3>1, <3>2, <3>3, PutType
      <3>d. DOMAIN current_iterations' = D \cup {p.pid}
        BY <3>5
      <3>id. D \cup {p.pid} = D
        BY <3>2
      <3>6. last_cc' \in [DOMAIN last_cc \cup {p.pid} -> CC]
        BY <1>1, <3>1, <3>2, PutType
      <3>l. DOMAIN last_cc' = DOMAIN last_cc \cup {p.pid}
        BY <3>6
      <3>7. CurrentTypeOK'
        BY <1>1, <3>1, <3>2, <3>5, <3>d, <3>id, <3>6, <3>l DEF CurrentTypeOK
      <3>8. QED
        BY <3>4, <3>7
    <2>4. QED
      BY <2>1, <2>2, <2>3 DEF AddPacket
  <1>6. QED
    BY <1>3, <1>4, <1>5 DEF TypeOK

\* The history is untouched by a call that only changes owed.
LEMMA HistoryKept ==
    ASSUME TypeOK, owed' \in SUBSET Nat,
           UNCHANGED <<arrived, accepted, clearedAt, tableAt, idsReset>>
    PROVE  HistoryTypeOK'
  BY DEF TypeOK, HistoryTypeOK

LEMMA FinalizeAllType ==
    ASSUME TypeOK, FinalizeAllIterations
    PROVE  TypeOK'
  <1>1. StorageTypeOK'
    <2> DEFINE P == DOMAIN current_iterations
    <2>1. /\ streams' = Finalized(P)
          /\ next_iteration_id' = next_iteration_id
          /\ next_iteration_id \in 0..(IdModulus - 1)
      BY DEF FinalizeAllIterations, TypeOK, StorageTypeOK
    <2>2. /\ Finalized(P) \in [DOMAIN Finalized(P) -> Seq(Entry)]
          /\ DOMAIN Finalized(P) \subseteq Pid
      <3>1. Finalized(P) \in [DOMAIN streams \cup P -> Seq(Entry)]
        BY FinalizedStreams
      <3>2. /\ DOMAIN Finalized(P) = DOMAIN streams \cup P
            /\ DOMAIN streams \cup P \subseteq Pid
        BY FinalizedStreams
      <3>3. QED
        BY <3>1, <3>2, Zenon
    <2>3. /\ streams' \in [DOMAIN streams' -> Seq(Entry)]
          /\ DOMAIN streams' \subseteq Pid
      BY <2>1, <2>2, Zenon
    <2>4. QED
      BY <2>1, <2>3 DEF StorageTypeOK
  <1>2. CurrentTypeOK'
    BY EmptyMap DEF FinalizeAllIterations, TypeOK, CurrentTypeOK
  <1>3. TableTypeOK'
    BY DEF FinalizeAllIterations, TypeOK, TableTypeOK, tableVars
  <1>4. HistoryTypeOK'
    BY DEF FinalizeAllIterations, TypeOK, HistoryTypeOK, historyVars
  <1>5. QED
    BY <1>1, <1>2, <1>3, <1>4 DEF TypeOK

LEMMA ClearIterationType ==
    ASSUME TypeOK, NEW q \in Pid, NEW id, ClearIteration(q, id)
    PROVE  TypeOK'
  <1>1. removeIteration(getOrCreateStream(q), id) \in Seq(Entry)
    BY StreamType, RemoveIteration
  <1>2. StorageTypeOK'
    <2>1. /\ streams \in [DOMAIN streams -> Seq(Entry)]
          /\ DOMAIN streams \subseteq Pid
          /\ streams' = Put(streams, q,
                            removeIteration(getOrCreateStream(q), id))
          /\ next_iteration_id' = next_iteration_id
      BY DEF ClearIteration, TypeOK, StorageTypeOK
    <2>2. streams' \in [DOMAIN streams \cup {q} -> Seq(Entry)]
      BY <1>1, <2>1, PutType
    <2>d. DOMAIN streams' = DOMAIN streams \cup {q}
      BY <2>2
    <2>3. QED
      BY <2>1, <2>2, <2>d DEF TypeOK, StorageTypeOK
  <1>3. CurrentTypeOK'
    BY DEF ClearIteration, TypeOK, CurrentTypeOK, currentVars
  <1>4. TableTypeOK'
    BY DEF ClearIteration, TypeOK, TableTypeOK, tableVars
  <1>5. HistoryTypeOK'
    <2>1. owed' \in SUBSET Nat
      BY DEF ClearIteration, TypeOK, HistoryTypeOK
    <2>2. QED
      BY <2>1, HistoryKept DEF ClearIteration
  <1>6. QED
    BY <1>2, <1>3, <1>4, <1>5 DEF TypeOK

LEMMA ClearStreamType ==
    ASSUME TypeOK, NEW q \in Pid, ClearStream(q)
    PROVE  TypeOK'
  <1>1. StorageTypeOK'
    <2>1. <<>> \in Seq(Entry)
      OBVIOUS
    <2>2. QED
      BY <2>1 DEF ClearStream, TypeOK, StorageTypeOK
  <1>2. CurrentTypeOK'
    BY DEF ClearStream, TypeOK, CurrentTypeOK, currentVars
  <1>3. TableTypeOK'
    BY DEF ClearStream, TypeOK, TableTypeOK, tableVars
  <1>4. HistoryTypeOK'
    <2>1. owed' \in SUBSET Nat
      BY DEF ClearStream, TypeOK, HistoryTypeOK
    <2>2. QED
      BY <2>1, HistoryKept DEF ClearStream
  <1>5. QED
    BY <1>1, <1>2, <1>3, <1>4 DEF TypeOK

LEMMA ClearAllType ==
    ASSUME TypeOK, ClearAll
    PROVE  TypeOK'
  <1>1. StorageTypeOK'
    <2>1. 1 \in 0..(IdModulus - 1)
      BY ConstantsAssumption
    <2>2. QED
      BY <2>1, EmptyMap DEF ClearAll, StorageTypeOK
  <1>2. CurrentTypeOK'
    BY EmptyMap DEF ClearAll, CurrentTypeOK
  <1>3. TableTypeOK'
    BY DEF ClearAll, TypeOK, TableTypeOK, tableVars
  <1>4. HistoryTypeOK'
    <2>1. Len(arrived) \in Nat
      BY LenProperties DEF TypeOK, HistoryTypeOK
    <2>2. /\ owed' = {} /\ clearedAt' = Len(arrived) /\ idsReset' = FALSE
          /\ UNCHANGED <<arrived, accepted, tableAt>>
      BY DEF ClearAll
    <2>3. /\ arrived' \in Seq(Packets) /\ Len(arrived') <= MaxPackets
          /\ accepted' \in SUBSET Nat /\ owed' \in SUBSET Nat
          /\ tableAt' \in 0..Len(arrived') /\ idsReset' \in BOOLEAN
      BY <2>2 DEF TypeOK, HistoryTypeOK
    <2>4. clearedAt' \in 0..Len(arrived')
      BY <2>1, <2>2
    <2>5. QED
      BY <2>3, <2>4 DEF HistoryTypeOK
  <1>5. QED
    BY <1>1, <1>2, <1>3, <1>4 DEF TypeOK

LEMMA ClearAllCrashesType ==
    ASSUME TypeOK, ClearAllCrashes
    PROVE  TypeOK'
  <1>1. /\ alive' \in BOOLEAN
        /\ UNCHANGED <<storageVars, currentVars, tableVars, historyVars>>
    BY DEF ClearAllCrashes
  <1>2. StorageTypeOK' /\ CurrentTypeOK'
    BY <1>1 DEF TypeOK, StorageTypeOK, CurrentTypeOK, storageVars, currentVars
  <1>3. TableTypeOK' /\ HistoryTypeOK'
    BY <1>1 DEF TypeOK, TableTypeOK, HistoryTypeOK, tableVars, historyVars
  <1>4. QED
    BY <1>2, <1>3 DEF TypeOK

LEMMA SetProgramsTableType ==
    ASSUME TypeOK, NEW K \in Tables, SetProgramsTable(K)
    PROVE  TypeOK'
  <1>1. StorageTypeOK'
    <2>1. 1 \in 0..(IdModulus - 1)
      BY ConstantsAssumption
    <2>2. QED
      BY <2>1, EmptyMap DEF SetProgramsTable, StorageTypeOK
  <1>2. CurrentTypeOK'
    BY DEF SetProgramsTable, TypeOK, CurrentTypeOK, currentVars
  <1>3. TableTypeOK'
    BY ConstantsAssumption DEF SetProgramsTable, TypeOK, TableTypeOK
  <1>4. HistoryTypeOK'
    <2>1. ASSUME NEW q \in DOMAIN current_iterations
          PROVE  PktsOf(current_iterations[q]) \subseteq Nat
      <3>1. current_iterations[q].pkts \in Seq(Nat)
        BY DEF TypeOK, CurrentTypeOK, IterationData
      <3>2. QED
        BY <3>1 DEF PktsOf
    <2>2. owed' \in SUBSET Nat
      BY <2>1 DEF SetProgramsTable
    <2>3. Len(arrived) \in Nat
      BY LenProperties DEF TypeOK, HistoryTypeOK
    <2>4. QED
      BY <2>2, <2>3 DEF SetProgramsTable, TypeOK, HistoryTypeOK
  <1>5. QED
    BY <1>1, <1>2, <1>3, <1>4 DEF TypeOK

LEMMA StepType == TypeOK /\ [Next]_vars => TypeOK'
  <1> SUFFICES ASSUME TypeOK, [Next]_vars PROVE TypeOK'
    OBVIOUS
  <1>1. CASE \E p \in Packets : AddPacket(p)
    BY <1>1, AddPacketType
  <1>2. CASE FinalizeAllIterations
    BY <1>2, FinalizeAllType
  <1>3. CASE \E q \in Pid : \E id \in 0..MaxPackets : ClearIteration(q, id)
    BY <1>3, ClearIterationType
  <1>4. CASE \E q \in Pid : ClearStream(q)
    BY <1>4, ClearStreamType
  <1>5. CASE ClearAll
    BY <1>5, ClearAllType
  <1>c. CASE ClearAllCrashes
    BY <1>c, ClearAllCrashesType
  <1>6. CASE \E K \in Tables : SetProgramsTable(K)
    BY <1>6, SetProgramsTableType
  <1>7. CASE UNCHANGED vars
    BY <1>7 DEF vars, TypeOK, StorageTypeOK, CurrentTypeOK, TableTypeOK,
                HistoryTypeOK
  <1>8. QED
    BY <1>1, <1>2, <1>3, <1>4, <1>5, <1>c, <1>6, <1>7 DEF Next

\* Every variable keeps its type, whatever the packets and the calls.
THEOREM TypeCorrect == Spec => []TypeOK
  <1>1. QED
    BY InitType, StepType, PTL DEF Spec

-----------------------------------------------------------------------------
(***************************************************************************)
(* Uniqueness of the iteration ids.  UniqueIdsUnlessReset is not inductive *)
(* by itself: the next id must be above every id in use, which holds since *)
(* at most one is generated per packet, too few to wrap around, and while  *)
(* idsReset is FALSE an id moves from the pending to the stored ones but   *)
(* is never in two places.                                                 *)
(***************************************************************************)
IdsBelowNext ==
    /\ \A q \in DOMAIN streams : \A i \in DOMAIN streams[q] :
          streams[q][i].id < next_iteration_id
    /\ \A q \in DOMAIN current_iterations :
          current_iteration_ids[q] < next_iteration_id

StoredIdsDiffer ==
    \A q, r \in DOMAIN streams :
        \A i \in DOMAIN streams[q], j \in DOMAIN streams[r] :
            streams[q][i].id = streams[r][j].id => q = r /\ i = j

PendingIdsDiffer ==
    \A q, r \in DOMAIN current_iterations :
        current_iteration_ids[q] = current_iteration_ids[r] => q = r

NoPendingIdIsStored ==
    \A q \in DOMAIN streams, r \in DOMAIN current_iterations :
        \A i \in DOMAIN streams[q] :
            streams[q][i].id # current_iteration_ids[r]

IdsApart ==
    /\ IdsBelowNext
    /\ StoredIdsDiffer
    /\ PendingIdsDiffer
    /\ NoPendingIdIsStored

IdsInv ==
    /\ TypeOK
    /\ next_iteration_id <= Len(arrived) + 1
    /\ ~idsReset => IdsApart

LEMMA InitIds == Init => IdsInv
  <1> SUFFICES ASSUME Init PROVE IdsInv
    OBVIOUS
  <1>1. TypeOK
    BY InitType
  <1>2. next_iteration_id <= Len(arrived) + 1
    <2>1. next_iteration_id = 1 /\ Len(arrived) = 0
      BY DEF Init
    <2>2. QED
      BY <2>1
  <1>3. DOMAIN streams = {} /\ DOMAIN current_iterations = {}
    BY EmptyMap DEF Init
  <1>4. IdsApart
    BY <1>3 DEF IdsApart, IdsBelowNext, StoredIdsDiffer, PendingIdsDiffer,
                NoPendingIdIsStored
  <1>5. QED
    BY <1>1, <1>2, <1>4 DEF IdsInv

\* The bound on the next id, in every step.
LEMMA NextIdBound ==
    ASSUME IdsInv, [Next]_vars, TypeOK'
    PROVE  next_iteration_id' <= Len(arrived') + 1
  <1>1. /\ Len(arrived) \in Nat /\ next_iteration_id \in Nat
        /\ next_iteration_id <= Len(arrived) + 1
        /\ arrived \in Seq(Packets)
    BY LenProperties DEF IdsInv, TypeOK, StorageTypeOK, HistoryTypeOK
  <1>2. ASSUME NEW p \in Packets, AddPacket(p)
        PROVE  next_iteration_id' <= Len(arrived') + 1
    <2>1. Len(arrived') = Len(arrived) + 1 /\ Len(arrived) < MaxPackets
      BY <1>1, <1>2, AppendProperties DEF AddPacket
    <2>2. \/ next_iteration_id' = next_iteration_id
          \/ next_iteration_id' = generateIterationID
      BY <1>2 DEF AddPacket, SkipPacket, StartIteration, ContinueIteration,
                  storageVars
    <2>3. generateIterationID = next_iteration_id + 1
      BY <1>1, <2>1, ConstantsAssumption DEF generateIterationID
    <2>4. QED
      BY <1>1, <2>1, <2>2, <2>3
  <1>3. ASSUME \/ FinalizeAllIterations
               \/ \E q \in Pid : \E id \in 0..MaxPackets :
                     ClearIteration(q, id)
               \/ \E q \in Pid : ClearStream(q)
               \/ ClearAllCrashes
               \/ UNCHANGED vars
        PROVE  next_iteration_id' <= Len(arrived') + 1
    <2>1. next_iteration_id' = next_iteration_id /\ arrived' = arrived
      BY <1>3 DEF FinalizeAllIterations, ClearIteration, ClearStream,
                  ClearAllCrashes, vars, storageVars, historyVars
    <2>2. QED
      BY <1>1, <2>1
  <1>4. ASSUME ClearAll \/ \E K \in Tables : SetProgramsTable(K)
        PROVE  next_iteration_id' <= Len(arrived') + 1
    <2>1. next_iteration_id' = 1 /\ arrived' = arrived
      BY <1>4 DEF ClearAll, SetProgramsTable
    <2>2. QED
      BY <1>1, <2>1
  <1>5. QED
    BY <1>2, <1>3, <1>4 DEF Next

LEMMA StartIterationIds ==
    ASSUME IdsInv, IdsApart, NEW p \in Packets, AddPacket(p),
           StartIteration(p), TypeOK'
    PROVE  IdsApart'
  <1> DEFINE P == Closes(p)
             F == Finalized(P)
             ids == current_iteration_ids
             C == DOMAIN current_iterations
             next == next_iteration_id
  <1>1. /\ p.pid \in Pid /\ TypeOK
    BY ConstantsAssumption DEF IdsInv, Packet
  <1>2. /\ streams' = F /\ P \in SUBSET C /\ P \subseteq {p.pid}
        /\ ids' = Put(ids, p.pid, next)
        /\ next' = generateIterationID
    BY DEF StartIteration, Closes
  <1>3. next \in Nat /\ next' = next + 1
    <2>1. /\ next \in Nat /\ next <= Len(arrived) + 1
          /\ Len(arrived) \in Nat /\ Len(arrived) < MaxPackets
      BY <1>1, LenProperties
         DEF IdsInv, AddPacket, TypeOK, StorageTypeOK, HistoryTypeOK
    <2>2. next' = (next + 1) % IdModulus
      BY <1>2 DEF generateIterationID
    <2> HIDE DEF next
    <2>3. next + 1 \in 0..(IdModulus - 1)
      BY <2>1, ConstantsAssumption
    <2>4. (next + 1) % IdModulus = next + 1
      BY <2>3, ConstantsAssumption
    <2>5. QED
      BY <2>1, <2>2, <2>4
  <1>4. \A q \in C : ids[q] \in Nat
    BY <1>1 DEF TypeOK, CurrentTypeOK
  <1>5. \A q \in DOMAIN streams : \A i \in DOMAIN streams[q] :
           streams[q][i].id \in Nat
    <2>1. ASSUME NEW q \in DOMAIN streams, NEW i \in DOMAIN streams[q]
          PROVE  streams[q][i].id \in Nat
      <3>1. streams[q] \in Seq(Entry)
        BY <1>1 DEF TypeOK, StorageTypeOK
      <3>2. streams[q][i] \in Entry
        BY <3>1, LenProperties, ElementOfSeq
      <3>3. QED
        BY <3>2 DEF Entry
    <2>2. QED
      BY <2>1
  <1>6. DOMAIN current_iterations' = C \cup {p.pid}
    <2> DEFINE d == Extended(NewIteration(p), p, Len(arrived) + 1)
    <2>1. current_iterations' = Put(current_iterations, p.pid, d)
      BY DEF StartIteration
    <2> HIDE DEF d
    <2>2. DOMAIN Put(current_iterations, p.pid, d) = C \cup {p.pid}
      BY DEF Put
    <2>3. QED
      BY <2>1, <2>2, Zenon
  <1>7. /\ ids'[p.pid] = next
        /\ \A q \in C \ {p.pid} : ids'[q] = ids[q]
    <2>1. DOMAIN ids = C
      BY <1>1 DEF TypeOK, CurrentTypeOK
    <2> HIDE DEF ids, C, next
    <2>2. /\ Put(ids, p.pid, next)[p.pid] = next
          /\ \A q \in C \ {p.pid} : Put(ids, p.pid, next)[q] = ids[q]
      BY <2>1 DEF Put
    <2>3. QED
      BY <1>2, <2>2, Zenon
  <1>8. \A q \in DOMAIN F : \A i \in DOMAIN F[q] :
           \/ /\ q \in DOMAIN streams /\ i \in DOMAIN streams[q]
              /\ F[q][i] = streams[q][i]
           \/ /\ q \in P
              /\ i = Len(getOrCreateStream(q)) + 1
              /\ F[q][i].id = ids[q]
    BY <1>1, <1>2, FinalizedStreams
  <1>9. /\ \A q \in DOMAIN streams : \A i \in DOMAIN streams[q] :
              streams[q][i].id < next
        /\ \A q \in C : ids[q] < next
        /\ \A q, r \in DOMAIN streams :
              \A i \in DOMAIN streams[q], j \in DOMAIN streams[r] :
                 streams[q][i].id = streams[r][j].id => q = r /\ i = j
        /\ \A q, r \in C : ids[q] = ids[r] => q = r
        /\ \A q \in DOMAIN streams, r \in C : \A i \in DOMAIN streams[q] :
              streams[q][i].id # ids[r]
    BY DEF IdsApart, IdsBelowNext, StoredIdsDiffer, PendingIdsDiffer,
           NoPendingIdIsStored
  <1> HIDE DEF P, F, ids, C, next
  <1>10. IdsBelowNext'
    <2>1. \A q \in DOMAIN F : \A i \in DOMAIN F[q] : F[q][i].id < next'
      BY <1>2, <1>3, <1>4, <1>5, <1>8, <1>9
    <2>2. \A q \in C \cup {p.pid} : ids'[q] < next'
      BY <1>3, <1>4, <1>7, <1>9
    <2>3. QED
      BY <1>2, <1>6, <2>1, <2>2 DEF IdsBelowNext, next, ids
  <1>11. StoredIdsDiffer'
    <2>1. \A q, r \in DOMAIN F : \A i \in DOMAIN F[q], j \in DOMAIN F[r] :
             F[q][i].id = F[r][j].id => q = r /\ i = j
      BY <1>2, <1>8, <1>9
    <2>2. QED
      BY <1>2, <2>1 DEF StoredIdsDiffer
  <1>12. PendingIdsDiffer'
    <2>1. \A q, r \in C \cup {p.pid} : ids'[q] = ids'[r] => q = r
      BY <1>3, <1>4, <1>7, <1>9
    <2>2. QED
      BY <1>6, <2>1 DEF PendingIdsDiffer, ids
  <1>13. NoPendingIdIsStored'
    <2>1. ASSUME NEW q \in DOMAIN F, NEW r \in C \cup {p.pid},
                 NEW i \in DOMAIN F[q]
          PROVE  F[q][i].id # ids'[r]
      <3>1. CASE r = p.pid
        <4>1. F[q][i].id < next /\ F[q][i].id \in Nat
          BY <1>2, <1>4, <1>5, <1>8, <1>9
        <4>2. QED
          BY <1>3, <1>7, <3>1, <4>1
      <3>2. CASE r # p.pid
        <4>1. r \in C /\ ids'[r] = ids[r] /\ r \notin P
          BY <1>2, <1>7, <3>2
        <4>2. QED
          BY <1>2, <1>8, <1>9, <4>1
      <3>3. QED
        BY <3>1, <3>2
    <2>2. QED
      BY <1>2, <1>6, <2>1 DEF NoPendingIdIsStored, ids
  <1>14. QED
    BY <1>10, <1>11, <1>12, <1>13 DEF IdsApart

LEMMA FinalizeAllIds ==
    ASSUME IdsInv, IdsApart, FinalizeAllIterations
    PROVE  IdsApart'
  <1> DEFINE C == DOMAIN current_iterations
             F == Finalized(C)
             ids == current_iteration_ids
  <1>1. /\ streams' = F /\ DOMAIN current_iterations' = {}
        /\ next_iteration_id' = next_iteration_id
    BY EmptyMap DEF FinalizeAllIterations
  <1>2. \A q \in DOMAIN F : \A i \in DOMAIN F[q] :
           \/ /\ q \in DOMAIN streams /\ i \in DOMAIN streams[q]
              /\ F[q][i] = streams[q][i]
           \/ /\ q \in C
              /\ i = Len(getOrCreateStream(q)) + 1
              /\ F[q][i].id = ids[q]
    BY FinalizedStreams DEF IdsInv
  <1> HIDE DEF C, F, ids
  <1>3. IdsBelowNext'
    <2>1. \A q \in DOMAIN F : \A i \in DOMAIN F[q] :
             F[q][i].id < next_iteration_id
      BY <1>2 DEF IdsApart, IdsBelowNext, C, ids
    <2>2. QED
      BY <1>1, <2>1 DEF IdsBelowNext
  <1>4. StoredIdsDiffer'
    <2>1. \A q, r \in DOMAIN F : \A i \in DOMAIN F[q], j \in DOMAIN F[r] :
             F[q][i].id = F[r][j].id => q = r /\ i = j
      BY <1>2 DEF IdsApart, StoredIdsDiffer, PendingIdsDiffer,
                  NoPendingIdIsStored, C, ids
    <2>2. QED
      BY <1>1, <2>1 DEF StoredIdsDiffer
  <1>5. PendingIdsDiffer' /\ NoPendingIdIsStored'
    BY <1>1 DEF PendingIdsDiffer, NoPendingIdIsStored
  <1>6. QED
    BY <1>3, <1>4, <1>5 DEF IdsApart

\* A call that only takes iterations away keeps the ids apart: each one still
\* stored was stored before, under the same PID, and two of them at different
\* places.
LEMMA ClearIterationIds ==
    ASSUME IdsInv, IdsApart, NEW q \in Pid, NEW id, ClearIteration(q, id)
    PROVE  IdsApart'
  <1> DEFINE s == getOrCreateStream(q)
             t == removeIteration(s, id)
  <1>1. /\ s \in Seq(Entry)
        /\ \/ q \in DOMAIN streams /\ s = streams[q]
           \/ DOMAIN s = {}
    BY StreamType, EmptyMap DEF IdsInv, getOrCreateStream
  <1> HIDE DEF s
  <1>2. PICK k \in Nat : \A i \in DOMAIN t :
           /\ i \in Nat
           /\ i < k => i \in DOMAIN s /\ t[i] = s[i]
           /\ i >= k => i + 1 \in DOMAIN s /\ t[i] = s[i + 1]
    BY <1>1, RemoveIteration
  <1>3. /\ DOMAIN streams' = DOMAIN streams \cup {q}
        /\ streams'[q] = t
        /\ \A r \in DOMAIN streams \ {q} : streams'[r] = streams[r]
    <2>1. streams' = Put(streams, q, t)
      BY DEF ClearIteration, s
    <2> HIDE DEF t
    <2>2. /\ DOMAIN Put(streams, q, t) = DOMAIN streams \cup {q}
          /\ Put(streams, q, t)[q] = t
          /\ \A r \in DOMAIN streams \ {q} :
                Put(streams, q, t)[r] = streams[r]
      BY DEF Put
    <2>3. QED
      BY <2>1, <2>2, Zenon
  <1>4. UNCHANGED <<next_iteration_id, current_iterations,
                    current_iteration_ids>>
    BY DEF ClearIteration, currentVars
  <1> HIDE DEF t
  <1> DEFINE old(r, i) == IF r = q /\ i >= k THEN i + 1 ELSE i
  <1>5. ASSUME NEW r \in DOMAIN streams', NEW i \in DOMAIN streams'[r]
        PROVE  /\ r \in DOMAIN streams /\ old(r, i) \in DOMAIN streams[r]
               /\ streams'[r][i] = streams[r][old(r, i)]
    <2>1. CASE r # q
      BY <1>3, <2>1
    <2>2. CASE r = q
      <3>1. i \in DOMAIN t /\ streams'[r][i] = t[i]
        BY <1>3, <2>2
      <3>2. CASE i < k
        <4>1. i \in DOMAIN s /\ t[i] = s[i] /\ ~(i >= k)
          BY <1>2, <3>1, <3>2
        <4>2. QED
          BY <1>1, <2>2, <3>1, <4>1
      <3>3. CASE i >= k
        <4>1. i + 1 \in DOMAIN s /\ t[i] = s[i + 1]
          BY <1>2, <3>1, <3>3
        <4>2. QED
          BY <1>1, <2>2, <3>1, <3>3, <4>1
      <3>4. QED
        BY <1>2, <3>1, <3>2, <3>3
    <2>3. QED
      BY <2>1, <2>2
  <1>6. ASSUME NEW r \in DOMAIN streams', NEW i \in DOMAIN streams'[r],
               NEW j \in DOMAIN streams'[r], old(r, i) = old(r, j)
        PROVE  i = j
    <2>1. CASE r # q
      BY <1>6, <2>1
    <2>2. CASE r = q
      <3>1. i \in Nat /\ j \in Nat
        BY <1>2, <1>3, <2>2
      <3>2. QED
        BY <1>6, <2>2, <3>1
    <2>3. QED
      BY <2>1, <2>2
  <1> HIDE DEF old
  <1>7. IdsBelowNext'
    BY <1>3, <1>4, <1>5 DEF IdsApart, IdsBelowNext
  <1>8. StoredIdsDiffer'
    <2>1. ASSUME NEW r \in DOMAIN streams', NEW u \in DOMAIN streams',
                 NEW i \in DOMAIN streams'[r], NEW j \in DOMAIN streams'[u],
                 streams'[r][i].id = streams'[u][j].id
          PROVE  r = u /\ i = j
      <3>1. r = u /\ old(r, i) = old(u, j)
        BY <1>5, <2>1 DEF IdsApart, StoredIdsDiffer
      <3>2. QED
        BY <1>6, <3>1
    <2>2. QED
      BY <2>1 DEF StoredIdsDiffer
  <1>9. PendingIdsDiffer' /\ NoPendingIdIsStored'
    BY <1>4, <1>5 DEF IdsApart, PendingIdsDiffer, NoPendingIdIsStored
  <1>10. QED
    BY <1>7, <1>8, <1>9 DEF IdsApart

LEMMA ClearStreamIds ==
    ASSUME IdsInv, IdsApart, NEW q \in Pid, ClearStream(q)
    PROVE  IdsApart'
  <1>1. /\ UNCHANGED <<next_iteration_id, current_iterations,
                       current_iteration_ids>>
        /\ streams' = [streams EXCEPT ![q] = <<>>]
    BY DEF ClearStream, currentVars
  <1>2. \A r \in DOMAIN streams' : \A i \in DOMAIN streams'[r] :
           /\ r \in DOMAIN streams /\ i \in DOMAIN streams[r]
           /\ streams'[r][i] = streams[r][i]
    BY <1>1, EmptyMap
  <1>3. QED
    BY <1>1, <1>2 DEF IdsApart, IdsBelowNext, StoredIdsDiffer,
                      PendingIdsDiffer, NoPendingIdIsStored

LEMMA StepIds == IdsInv /\ [Next]_vars => IdsInv'
  <1> SUFFICES ASSUME IdsInv, [Next]_vars PROVE IdsInv'
    OBVIOUS
  <1>1. TypeOK'
    BY StepType DEF IdsInv
  <1>2. next_iteration_id' <= Len(arrived') + 1
    BY <1>1, NextIdBound
  <1>3. ASSUME ~idsReset' PROVE IdsApart'
    <2>1. CASE \E p \in Packets : AddPacket(p)
      <3>1. PICK p \in Packets : AddPacket(p)
        BY <2>1
      <3>2. IdsApart
        BY <1>3, <3>1 DEF IdsInv, AddPacket
      <3>3. CASE StartIteration(p)
        BY <1>1, <3>1, <3>2, <3>3, StartIterationIds
      <3>4. CASE SkipPacket(p)
        BY <3>2, <3>4
           DEF SkipPacket, storageVars, currentVars, IdsApart, IdsBelowNext,
               StoredIdsDiffer, PendingIdsDiffer, NoPendingIdIsStored
      <3>5. CASE ContinueIteration(p)
        <4>1. /\ DOMAIN current_iterations' = DOMAIN current_iterations
              /\ UNCHANGED <<streams, next_iteration_id,
                             current_iteration_ids>>
          BY <3>5 DEF ContinueIteration, Put, storageVars
        <4>2. QED
          BY <3>2, <4>1
             DEF IdsApart, IdsBelowNext, StoredIdsDiffer, PendingIdsDiffer,
                 NoPendingIdIsStored
      <3>6. QED
        BY <3>1, <3>3, <3>4, <3>5 DEF AddPacket
    <2>2. CASE FinalizeAllIterations
      BY <1>3, <2>2, FinalizeAllIds
         DEF IdsInv, FinalizeAllIterations, historyVars
    <2>3. CASE \E q \in Pid : \E id \in 0..MaxPackets : ClearIteration(q, id)
      <3>1. IdsApart
        BY <1>3, <2>3 DEF IdsInv, ClearIteration
      <3>2. QED
        BY <2>3, <3>1, ClearIterationIds
    <2>4. CASE \E q \in Pid : ClearStream(q)
      <3>1. IdsApart
        BY <1>3, <2>4 DEF IdsInv, ClearStream
      <3>2. QED
        BY <2>4, <3>1, ClearStreamIds
    <2>5. CASE ClearAll
      <3>1. DOMAIN streams' = {} /\ DOMAIN current_iterations' = {}
        BY <2>5, EmptyMap DEF ClearAll
      <3>2. QED
        BY <3>1 DEF IdsApart, IdsBelowNext, StoredIdsDiffer,
                    PendingIdsDiffer, NoPendingIdIsStored
    <2>6. CASE \E K \in Tables : SetProgramsTable(K)
      <3>1. DOMAIN streams' = {} /\ DOMAIN current_iterations' = {}
        BY <1>3, <2>6, EmptyMap DEF SetProgramsTable, currentVars
      <3>2. QED
        BY <3>1 DEF IdsApart, IdsBelowNext, StoredIdsDiffer,
                    PendingIdsDiffer, NoPendingIdIsStored
    <2>7. CASE UNCHANGED vars \/ ClearAllCrashes
      <3>1. UNCHANGED <<storageVars, currentVars, idsReset>>
        BY <2>7 DEF vars, ClearAllCrashes, storageVars, currentVars, historyVars
      <3>2. QED
        BY <1>3, <3>1 DEF storageVars, currentVars, IdsInv, IdsApart,
                          IdsBelowNext, StoredIdsDiffer, PendingIdsDiffer,
                          NoPendingIdIsStored
    <2>8. QED
      BY <2>1, <2>2, <2>3, <2>4, <2>5, <2>6, <2>7 DEF Next
  <1>4. QED
    BY <1>1, <1>2, <1>3 DEF IdsInv

\* Where the i-th of the ids of a PID comes from.
LEMMA IdsAt ==
    ASSUME TypeOK, NEW q, NEW i \in DOMAIN Ids(q)
    PROVE  \/ /\ q \in DOMAIN streams /\ i \in DOMAIN streams[q]
              /\ Ids(q)[i] = streams[q][i].id
           \/ /\ q \in DOMAIN current_iterations
              /\ i = Len(getOrCreateStream(q)) + 1
              /\ Ids(q)[i] = current_iteration_ids[q]
  <1> DEFINE s == getOrCreateStream(q)
             a == [j \in DOMAIN s |-> s[j].id]
             b == IF q \in DOMAIN current_iterations
                  THEN <<current_iteration_ids[q]>> ELSE <<>>
             N == 0..(IdModulus - 1)
  <1>1. s \in Seq(Entry) /\ Len(s) \in Nat /\ DOMAIN s = 1..Len(s)
        /\ \A j \in 1..Len(s) : s[j] \in Entry
    BY StreamType, LenProperties, ElementOfSeq
  <1>2. \/ q \in DOMAIN streams /\ s = streams[q]
        \/ DOMAIN s = {}
    BY EmptyMap DEF getOrCreateStream
  <1> HIDE DEF s
  <1>3. a \in Seq(N) /\ Len(a) = Len(s) /\ \A j \in 1..Len(s) : a[j] = s[j].id
    <2>1. \A j \in 1..Len(s) : s[j].id \in N
      BY <1>1 DEF Entry
    <2>2. a \in [1..Len(s) -> N]
      BY <1>1, <2>1
    <2>3. QED
      BY <1>1, <2>2
  <1>4. /\ b \in Seq(N)
        /\ q \in DOMAIN current_iterations => Len(b) = 1
        /\ q \notin DOMAIN current_iterations => Len(b) = 0
    <2>1. CASE q \in DOMAIN current_iterations
      <3>1. current_iteration_ids[q] \in N
        BY <2>1 DEF TypeOK, CurrentTypeOK
      <3>2. b = <<current_iteration_ids[q]>>
        BY <2>1
      <3> HIDE DEF N, b
      <3>3. b \in Seq(N)
        BY <3>1, <3>2
      <3>4. Len(b) = 1
        BY <3>2
      <3>5. QED
        BY <2>1, <3>3, <3>4
    <2>2. CASE q \notin DOMAIN current_iterations
      <3>1. b = <<>>
        BY <2>2
      <3> HIDE DEF N, b
      <3>2. b \in Seq(N)
        BY <3>1
      <3>3. Len(b) = 0
        BY <3>1
      <3>4. QED
        BY <2>2, <3>2, <3>3
    <2>3. QED
      BY <2>1, <2>2
  <1>5. q \in DOMAIN current_iterations => b[1] = current_iteration_ids[q]
    OBVIOUS
  <1>6. Ids(q) = a \o b
    BY DEF Ids, s
  <1> HIDE DEF a, b, N
  <1>7. /\ Ids(q) \in Seq(N) /\ Len(Ids(q)) = Len(a) + Len(b)
        /\ \A j \in 1..(Len(a) + Len(b)) :
              Ids(q)[j] = IF j <= Len(a) THEN a[j] ELSE b[j - Len(a)]
    <2>1. /\ a \o b \in Seq(N) /\ Len(a \o b) = Len(a) + Len(b)
          /\ \A j \in 1..(Len(a) + Len(b)) :
                (a \o b)[j] = IF j <= Len(a) THEN a[j] ELSE b[j - Len(a)]
      <3>1. a \in Seq(N) /\ b \in Seq(N)
        BY <1>3, <1>4
      <3>2. QED
        BY <3>1, ConcatProperties
    <2>2. QED
      BY <1>6, <2>1, Zenon
  <1>8. i \in 1..(Len(a) + Len(b))
    BY <1>7, LenProperties
  <1>9. CASE i <= Len(a)
    <2>1. i \in 1..Len(s) /\ Ids(q)[i] = a[i]
      BY <1>1, <1>3, <1>7, <1>8, <1>9
    <2>2. QED
      BY <1>1, <1>2, <1>3, <2>1
  <1>10. CASE ~(i <= Len(a))
    <2>1. Ids(q)[i] = b[i - Len(a)]
      BY <1>7, <1>8, <1>10
    <2>2. /\ q \in DOMAIN current_iterations
          /\ i = Len(s) + 1 /\ i - Len(a) = 1
      <3> DEFINE m == Len(s)
                 k == Len(a)
                 l == Len(b)
      <3>1. m \in Nat /\ k = m
        BY <1>1, <1>3
      <3>2. /\ q \in DOMAIN current_iterations => l = 1
            /\ q \notin DOMAIN current_iterations => l = 0
        BY <1>4
      <3>3. i \in 1..(k + l) /\ ~(i <= k)
        BY <1>8, <1>10
      <3> HIDE DEF m, k, l
      <3>4. q \in DOMAIN current_iterations /\ i = m + 1 /\ i - k = 1
        BY <3>1, <3>2, <3>3
      <3>5. QED
        BY <3>4 DEF m, k
    <2>3. QED
      BY <1>5, <2>1, <2>2 DEF s
  <1>11. QED
    BY <1>9, <1>10

\* No two iterations share an id unless the ids were restarted while one was
\* being accumulated: with any packets, tables and calls, no other call may
\* give an id twice or store an iteration under two.
THEOREM UniqueIdsTheorem == Spec => []UniqueIdsUnlessReset
  <1>1. IdsInv => UniqueIdsUnlessReset
    <2> SUFFICES ASSUME IdsInv, ~idsReset,
                        NEW q \in Pid, NEW r \in Pid,
                        NEW i \in DOMAIN Ids(q), NEW j \in DOMAIN Ids(r),
                        Ids(q)[i] = Ids(r)[j]
                 PROVE  q = r /\ i = j
      BY DEF UniqueIdsUnlessReset, UniqueIds
    <2>1. TypeOK /\ StoredIdsDiffer /\ PendingIdsDiffer
          /\ NoPendingIdIsStored
      BY DEF IdsInv, IdsApart
    <2>2. \/ /\ q \in DOMAIN streams /\ i \in DOMAIN streams[q]
             /\ Ids(q)[i] = streams[q][i].id
          \/ /\ q \in DOMAIN current_iterations
             /\ i = Len(getOrCreateStream(q)) + 1
             /\ Ids(q)[i] = current_iteration_ids[q]
      BY <2>1, IdsAt
    <2>3. \/ /\ r \in DOMAIN streams /\ j \in DOMAIN streams[r]
             /\ Ids(r)[j] = streams[r][j].id
          \/ /\ r \in DOMAIN current_iterations
             /\ j = Len(getOrCreateStream(r)) + 1
             /\ Ids(r)[j] = current_iteration_ids[r]
      BY <2>1, IdsAt
    <2>4. QED
      BY <2>1, <2>2, <2>3 DEF StoredIdsDiffer, PendingIdsDiffer,
                              NoPendingIdIsStored
  <1>2. QED
    BY <1>1, InitIds, StepIds, PTL DEF Spec

-----------------------------------------------------------------------------
(***************************************************************************)
(* What the user was given stays valid.                                    *)
(***************************************************************************)

\* An iteration stored behind the others does not hide them.
LEMMA AppendedIndex ==
    ASSUME NEW s \in Seq(Entry), NEW e \in Entry, NEW id, IndexOf(s, id) # 0
    PROVE  /\ IndexOf(Append(s, e), id) = IndexOf(s, id)
           /\ Append(s, e)[IndexOf(s, id)] = s[IndexOf(s, id)]
  <1> DEFINE t == Append(s, e)
             I == {i \in 1..Len(s) : s[i].id = id}
             J == {i \in 1..Len(t) : t[i].id = id}
             k == IndexOf(s, id)
  <1>1. /\ k = IF I # {} THEN Min(I) ELSE 0
        /\ IndexOf(t, id) = IF J # {} THEN Min(J) ELSE 0
    BY DEF IndexOf, SelectInSeq
  <1>2. Len(s) \in Nat /\ Len(t) = Len(s) + 1
        /\ \A i \in 1..Len(s) : t[i] = s[i]
    BY AppendProperties, LenProperties
  <1>3. I \in SUBSET Nat /\ I # {} /\ k = Min(I)
    BY <1>1, <1>2
  <1>4. k \in I /\ \A i \in I : k <= i
    BY <1>3, MinInSet
  <1> HIDE DEF t, k
  <1>5. k \in 1..Len(s) /\ t[k] = s[k] /\ k \in J
    <2>1. k \in 1..Len(s) /\ s[k].id = id
      BY <1>4
    <2>2. t[k] = s[k] /\ k \in 1..Len(t)
      BY <1>2, <2>1
    <2>3. QED
      BY <2>1, <2>2
  <1>6. ASSUME NEW j \in J PROVE k <= j
    <2>1. j \in 1..(Len(s) + 1) /\ t[j].id = id
      BY <1>2
    <2>2. CASE j <= Len(s)
      <3>1. j \in I
        BY <1>2, <2>1, <2>2
      <3> HIDE DEF I
      <3>2. QED
        BY <1>4, <3>1
    <2>3. CASE ~(j <= Len(s))
      BY <1>2, <1>5, <2>1, <2>3
    <2>4. QED
      BY <2>2, <2>3
  <1>7. J \in SUBSET Nat /\ J # {}
    BY <1>2, <1>5
  <1>8. Min(J) \in J /\ \A i \in J : Min(J) <= i
    BY <1>7, MinInSet
  <1> DEFINE m == Min(J)
  <1>9. m \in Nat /\ k \in Nat /\ k <= m /\ m <= k
    BY <1>5, <1>6, <1>7, <1>8
  <1> HIDE DEF m
  <1>10. m = k
    BY <1>9
  <1>11. IndexOf(t, id) = k
    BY <1>1, <1>7, <1>10 DEF m
  <1>12. QED
    BY <1>5, <1>11 DEF t, k

\* Packets and getters only store iterations behind those of a PID.
LEMMA StreamsGrow ==
    ASSUME TypeOK, NEW q \in Pid,
           NEW P \in SUBSET DOMAIN current_iterations,
           streams' = streams \/ streams' = Finalized(P)
    PROVE  \/ getOrCreateStream(q)' = getOrCreateStream(q)
           \/ \E e \in Entry :
                 getOrCreateStream(q)' = Append(getOrCreateStream(q), e)
  <1> DEFINE e == [id |-> current_iteration_ids[q],
                   data |-> current_iterations[q]]
  <1>1. CASE streams' = streams
    BY <1>1 DEF getOrCreateStream
  <1>2. CASE streams' = Finalized(P) /\ q \in P
    <2>1. current_iterations[q] \in IterationData
          /\ current_iteration_ids[q] \in 0..(IdModulus - 1)
      BY <1>2 DEF TypeOK, CurrentTypeOK
    <2>2. e \in Entry
      BY <2>1 DEF Entry
    <2>3. q \in DOMAIN streams' /\ streams'[q] = Append(getOrCreateStream(q), e)
      BY <1>2 DEF Finalized
    <2>4. getOrCreateStream(q)' = Append(getOrCreateStream(q), e)
      BY <2>3, Zenon DEF getOrCreateStream
    <2>5. QED
      BY <2>2, <2>4
  <1>3. CASE streams' = Finalized(P) /\ q \notin P
    <2>1. /\ DOMAIN streams' = DOMAIN streams \cup P
          /\ q \in DOMAIN streams => streams'[q] = streams[q]
      BY <1>3 DEF Finalized
    <2>2. QED
      BY <1>3, <2>1 DEF getOrCreateStream
  <1>4. QED
    BY <1>1, <1>2, <1>3

\* The payloads getAllPayloads finds in a stream
PayloadsIn(s, id) ==
    IF IndexOf(s, id) = 0 THEN <<>> ELSE s[IndexOf(s, id)].data.payloads

LEMMA PayloadsKept ==
    ASSUME TypeOK, NEW q \in Pid, NEW id, getAllPayloads(q, id) # <<>>,
           NEW P \in SUBSET DOMAIN current_iterations,
           streams' = streams \/ streams' = Finalized(P)
    PROVE  getAllPayloads(q, id)' = getAllPayloads(q, id)
  <1> DEFINE s == getOrCreateStream(q)
             t == getOrCreateStream(q)'
  <1>1. s \in Seq(Entry)
    BY StreamType
  <1>2. /\ getAllPayloads(q, id) = PayloadsIn(s, id)
        /\ getAllPayloads(q, id)' = PayloadsIn(t, id)
    BY Zenon DEF getAllPayloads, PayloadsIn
  <1>3. t = s \/ \E e \in Entry : t = Append(s, e)
    BY StreamsGrow
  <1> HIDE DEF s, t
  <1>4. IndexOf(s, id) # 0
    BY <1>2, Zenon DEF PayloadsIn
  <1>5. CASE t = s
    BY <1>2, <1>5
  <1>6. ASSUME NEW e \in Entry, t = Append(s, e)
        PROVE  PayloadsIn(t, id) = PayloadsIn(s, id)
    <2>1. /\ IndexOf(t, id) = IndexOf(s, id)
          /\ t[IndexOf(s, id)] = s[IndexOf(s, id)]
      BY <1>1, <1>4, <1>6, AppendedIndex
    <2>2. QED
      BY <1>4, <2>1, Zenon DEF PayloadsIn
  <1>7. QED
    BY <1>2, <1>3, <1>5, <1>6

\* What a packet closes was pending.
LEMMA ClosesPending ==
    ASSUME NEW p
    PROVE  Closes(p) \in SUBSET DOMAIN current_iterations
  BY DEF Closes

\* "Valid until clearIteration() or clearStream()", for all constants: what
\* getAllPayloads() and getPayload() returned for a PID and an id they return
\* again after any packet and any getter, whatever is stored by then.
THEOREM PayloadsTheorem == Spec => PayloadsStayValid
  <1>1. TypeOK /\ [Next]_vars =>
          [ (\/ \E p \in Packets : AddPacket(p)
             \/ FinalizeAllIterations)
            => \A q \in Pid : \A id \in 0..MaxPackets :
                  getAllPayloads(q, id) # <<>> =>
                    /\ getAllPayloads(q, id)' = getAllPayloads(q, id)
                    /\ \A type \in {"normal", "private"} :
                          getPayload(q, id, type)' = getPayload(q, id, type)
          ]_vars
    <2> SUFFICES ASSUME TypeOK,
                        \/ \E p \in Packets : AddPacket(p)
                        \/ FinalizeAllIterations,
                        NEW q \in Pid, NEW id \in 0..MaxPackets,
                        getAllPayloads(q, id) # <<>>
                 PROVE  /\ getAllPayloads(q, id)' = getAllPayloads(q, id)
                        /\ \A type \in {"normal", "private"} :
                              getPayload(q, id, type)'
                                = getPayload(q, id, type)
      OBVIOUS
    <2>1. \E P \in SUBSET DOMAIN current_iterations :
             streams' = streams \/ streams' = Finalized(P)
      <3>1. CASE FinalizeAllIterations
        BY <3>1 DEF FinalizeAllIterations
      <3>2. ASSUME NEW p \in Packets, AddPacket(p)
            PROVE  streams' = streams \/ streams' = Finalized(Closes(p))
        BY <3>2 DEF AddPacket, SkipPacket, StartIteration, ContinueIteration,
                    storageVars
      <3>3. QED
        BY <3>1, <3>2, ClosesPending
    <2>2. getAllPayloads(q, id)' = getAllPayloads(q, id)
      BY <2>1, PayloadsKept
    <2>3. \A type : getPayload(q, id, type)' = getPayload(q, id, type)
      BY <2>2, Zenon DEF getPayload
    <2>4. QED
      BY <2>2, <2>3
  <1>2. QED
    BY <1>1, TypeCorrect, PTL DEF Spec, PayloadsStayValid
-----------------------------------------------------------------------------
(***************************************************************************)
(* What ends an iteration.                                                 *)
(***************************************************************************)

\* An iteration that is finished is the last of its PID's stream.
LEMMA FinalizedLast ==
    ASSUME TypeOK, NEW P \in SUBSET DOMAIN current_iterations, NEW q \in P,
           streams' = Finalized(P)
    PROVE  /\ q \in DOMAIN streams'
           /\ streams'[q] # <<>>
           /\ Last(streams'[q]) = [id |-> current_iteration_ids[q],
                                   data |-> current_iterations[q]]
  <1> DEFINE s == getOrCreateStream(q)
             e == [id |-> current_iteration_ids[q],
                   data |-> current_iterations[q]]
  <1>1. s \in Seq(Entry)
    BY StreamType
  <1>2. current_iterations[q] \in IterationData
        /\ current_iteration_ids[q] \in 0..(IdModulus - 1)
    BY DEF TypeOK, CurrentTypeOK
  <1>3. e \in Entry
    BY <1>2 DEF Entry
  <1>4. q \in DOMAIN streams' /\ streams'[q] = Append(s, e)
    BY DEF Finalized
  <1> HIDE DEF s, e
  <1>5. Append(s, e) # <<>> /\ Last(Append(s, e)) = e
    BY <1>1, <1>3, AppendProperties, LenProperties DEF Last
  <1>6. QED
    BY <1>4, <1>5 DEF e

\* The pending iteration of q is no longer there, or is another one.
Ends(q) ==
    \/ q \notin DOMAIN current_iterations'
    \/ current_iterations'[q].first_cc # current_iterations[q].first_cc
    \/ current_iteration_ids'[q] # current_iteration_ids[q]

\* A packet ends the pending iteration of its own PID only, and only if it
\* has the payload unit start flag.
LEMMA AddPacketEnds ==
    ASSUME TypeOK, NEW p \in Packets, AddPacket(p),
           NEW q \in DOMAIN current_iterations, Ends(q)
    PROVE  p.pid = q /\ p.pusi /\ streams' = Finalized(Closes(p))
  <1>1. CASE SkipPacket(p)
    BY <1>1 DEF SkipPacket, currentVars, Ends
  <1>2. CASE StartIteration(p)
    <2>1. \A r \in DOMAIN current_iterations : r # p.pid =>
             /\ r \in DOMAIN current_iterations'
             /\ current_iterations'[r] = current_iterations[r]
             /\ current_iteration_ids'[r] = current_iteration_ids[r]
      BY <1>2 DEF StartIteration, Put, TypeOK, CurrentTypeOK
    <2>2. p.pid = q
      BY <2>1 DEF Ends
    <2>3. QED
      BY <1>2, <2>2 DEF StartIteration
  <1>3. CASE ContinueIteration(p)
    <2>1. /\ DOMAIN current_iterations' = DOMAIN current_iterations \cup {p.pid}
          /\ \A r \in DOMAIN current_iterations :
                current_iterations'[r] =
                   IF r = p.pid
                   THEN Extended(current_iterations[p.pid], p, Len(arrived) + 1)
                   ELSE current_iterations[r]
          /\ current_iteration_ids' = current_iteration_ids
      BY <1>3 DEF ContinueIteration, Put
    <2>2. \A d, n : Extended(d, p, n).first_cc = d.first_cc
      BY DEF Extended
    <2>3. current_iterations'[q].first_cc = current_iterations[q].first_cc
      <3>1. CASE q = p.pid
        <4>1. current_iterations'[q]
                = Extended(current_iterations[q], p, Len(arrived) + 1)
          BY <2>1, <3>1
        <4>2. QED
          BY <2>2, <4>1
      <3>2. CASE q # p.pid
        BY <2>1, <3>2, Zenon
      <3>3. QED
        BY <3>1, <3>2
    <2>4. QED
      BY <2>1, <2>3 DEF Ends
  <1>4. QED
    BY <1>1, <1>2, <1>3 DEF AddPacket

\* An iteration is never cut short, for all constants: the pending iteration
\* of a PID ends by a unit start of that PID or by a getter, and is then the
\* last one of its stream under the id it was given when it started
\* (finalizeIteration); only clearAll() and setProgramsTable() drop it.
THEOREM ClosedByOwnUnitStartTheorem == Spec => ClosedByOwnUnitStart
  <1>1. ASSUME TypeOK, Next, NEW q \in DOMAIN current_iterations, Ends(q)
        PROVE  \/ streams' = <<>>
               \/ /\ \/ arrived' = arrived
                     \/ Last(arrived').pid = q /\ Last(arrived').pusi
                  /\ q \in DOMAIN streams'
                  /\ streams'[q] # <<>>
                  /\ Last(streams'[q]) = [id |-> current_iteration_ids[q],
                                          data |-> current_iterations[q]]
    <2>1. ASSUME NEW p \in Packets, AddPacket(p)
          PROVE  /\ Last(arrived').pid = q /\ Last(arrived').pusi
                 /\ q \in DOMAIN streams'
                 /\ streams'[q] # <<>>
                 /\ Last(streams'[q]) = [id |-> current_iteration_ids[q],
                                         data |-> current_iterations[q]]
      <3>1. p.pid = q /\ p.pusi /\ streams' = Finalized(Closes(p))
        BY <1>1, <2>1, AddPacketEnds
      <3>2. arrived \in Seq(Packets) /\ arrived' = Append(arrived, p)
        BY <1>1, <2>1 DEF TypeOK, HistoryTypeOK, AddPacket
      <3>3. Last(arrived') = p
        BY <3>2, AppendProperties, LenProperties DEF Last
      <3>4. q \in Closes(p)
        BY <1>1, <3>1 DEF Closes
      <3>5. QED
        BY <1>1, <3>1, <3>3, <3>4, ClosesPending, FinalizedLast
    <2>2. CASE FinalizeAllIterations
      <3>1. arrived' = arrived /\ streams' = Finalized(DOMAIN current_iterations)
        BY <2>2 DEF FinalizeAllIterations, historyVars
      <3>2. QED
        BY <1>1, <3>1, FinalizedLast
    <2>3. ASSUME NEW r, NEW id, ClearIteration(r, id) \/ ClearStream(r)
          PROVE  FALSE
      BY <1>1, <2>3 DEF ClearIteration, ClearStream, currentVars, Ends
    <2>4. CASE ClearAll \/ \E K \in Tables : SetProgramsTable(K)
      BY <2>4 DEF ClearAll, SetProgramsTable
    <2>c. CASE ClearAllCrashes
      BY <1>1, <2>c DEF ClearAllCrashes, currentVars, Ends
    <2>5. QED
      BY <1>1, <2>1, <2>2, <2>3, <2>4, <2>c DEF Next
  <1>2. ASSUME UNCHANGED vars, NEW q \in DOMAIN current_iterations
        PROVE  ~Ends(q)
    BY <1>2 DEF vars, currentVars, Ends
  <1>3. TypeOK /\ [Next]_vars =>
          [ \A q \in DOMAIN current_iterations :
              (\/ q \notin DOMAIN current_iterations'
               \/ current_iterations'[q].first_cc
                     # current_iterations[q].first_cc
               \/ current_iteration_ids'[q] # current_iteration_ids[q])
              => \/ streams' = <<>>
                 \/ /\ \/ arrived' = arrived
                       \/ Last(arrived').pid = q /\ Last(arrived').pusi
                    /\ q \in DOMAIN streams'
                    /\ streams'[q] # <<>>
                    /\ Last(streams'[q]) = [id |-> current_iteration_ids[q],
                                            data |-> current_iterations[q]]
          ]_vars
    BY <1>1, <1>2, Zenon DEF Ends
  <1>4. QED
    BY <1>3, TypeCorrect, PTL DEF Spec, ClosedByOwnUnitStart

=============================================================================
