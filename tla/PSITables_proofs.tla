--------------------------- MODULE PSITables_proofs ---------------------------
(***************************************************************************)
(* Theorems about PSITables: its types, and that no table is glued         *)
(* together (OnlyReceivedSections), for every choice of sections, packets  *)
(* and payload size.                                                       *)
(***************************************************************************)
EXTENDS PSITables, TLAPS

-----------------------------------------------------------------------------
(* Sequences. *)

LEMMA EmptyInSeq == ASSUME NEW T PROVE <<>> \in Seq(T) /\ Len(<<>>) = 0
  OBVIOUS

LEMMA SeqMonotone ==
    ASSUME NEW S, NEW T, S \subseteq T, NEW s \in Seq(S)
    PROVE  s \in Seq(T)
  OBVIOUS

LEMMA ConcatInSeq ==
    ASSUME NEW T, NEW s \in Seq(T), NEW t \in Seq(T)
    PROVE  s \o t \in Seq(T)
  OBVIOUS

LEMMA PartInSeq ==
    ASSUME NEW T, NEW s \in Seq(T), NEW m \in Nat, NEW n \in Nat,
           m >= 1, n <= Len(s)
    PROVE  SubSeq(s, m, n) \in Seq(T)
  OBVIOUS

\* A sequence whose elements are all in T is a sequence over T.
LEMMA ElementsInSeq ==
    ASSUME NEW S, NEW T, NEW s \in Seq(S), \A i \in DOMAIN s : s[i] \in T
    PROVE  s \in Seq(T)
  <1>1. s \in [1..Len(s) -> T] /\ Len(s) \in Nat
    OBVIOUS
  <1> QED BY <1>1

-----------------------------------------------------------------------------
(* The accumulator. *)

\* The cells a payload brings are members of T.
Brings(data, payload_unit_start, T) ==
    IF payload_unit_start /\ data # <<>>
    THEN Head(data) \in Pointer /\ Tail(data) \in Seq(T)
    ELSE data \in Seq(T)

LEMMA CellsType ==
    ASSUME NEW s \in Section
    PROVE  /\ Cells(s) \in Seq(SectionCell)
           /\ Len(Cells(s)) = Size[s]
           /\ Size[s] \in Nat /\ Size[s] >= 3
  <1>1. Size[s] \in Nat /\ Size[s] >= 3
    BY SectionsAssumption
  <1>2. \A i \in 1..Size[s] : [section |-> s, pos |-> i] \in SectionCell
    BY <1>1 DEF SectionCell
  <1>3. Cells(s) \in [1..Size[s] -> SectionCell]
    BY <1>2 DEF Cells
  <1> QED BY <1>1, <1>3

LEMMA ResetType == ASSUME NEW T
                   PROVE  Reset \in Accumulator /\ Reset.buffer \in Seq(T)
  BY EmptyInSeq DEF Reset, Accumulator

LEMMA StartedType ==
    ASSUME NEW T, NEW acc, NEW data
    PROVE  Started(acc, data) \in Accumulator
           /\ Started(acc, data).buffer \in Seq(T)
  <1>1. Reset \in Accumulator /\ Reset.buffer \in Seq(T)
    BY ResetType
  <1>2. [Reset EXCEPT !.synced = TRUE] \in Accumulator
        /\ [Reset EXCEPT !.synced = TRUE].buffer \in Seq(T)
    BY <1>1 DEF Accumulator
  <1> QED BY <1>1, <1>2 DEF Started

LEMMA LengthFieldsType ==
    ASSUME NEW b
    PROVE  LengthFields(b) \subseteq Nat \ 0..2
  BY SectionsAssumption DEF LengthFields

LEMMA BehindPointerType ==
    ASSUME NEW T, NEW S, NEW data \in Seq(S), Brings(data, TRUE, T)
    PROVE  BehindPointer(data) \in Seq(T)
  <1>1. CASE data = <<>>
    BY <1>1, EmptyInSeq DEF BehindPointer
  <1>2. CASE data # <<>>
    <2>1. Tail(data) \in Seq(T) /\ Len(Tail(data)) = Len(data) - 1
          /\ Len(data) - 1 \in Nat
      BY <1>2 DEF Brings
    <2>2. Head(data).skip + 1 \in Nat /\ Head(data).skip + 1 >= 1
      BY <1>2 DEF Brings, Pointer
    <2> QED BY <1>2, <2>1, <2>2, PartInSeq DEF BehindPointer
  <1> QED BY <1>1, <1>2

\* What addData() leaves behind is an accumulator that holds nothing but what
\* it held before and what the payload brings.
LEMMA addDataType ==
    ASSUME NEW T, T \subseteq Cell, NEW S, NEW data \in Seq(S),
           NEW start \in BOOLEAN, Brings(data, start, T),
           NEW acc \in Accumulator, acc.buffer \in Seq(T),
           NEW a \in addData(acc, data, start)
    PROVE  a \in Accumulator /\ a.buffer \in Seq(T)
  <1> DEFINE begun == IF start THEN Started(acc, data) ELSE acc
             more == IF start THEN BehindPointer(data) ELSE data
             lengths == IF begun.expected_length = 0
                              /\ Len(begun.buffer \o more) >= 3
                        THEN LengthFields(begun.buffer \o more)
                        ELSE {begun.expected_length}
  <1>1. Started(acc, data) \in Accumulator
        /\ Started(acc, data).buffer \in Seq(T)
    BY StartedType
  <1>2. begun \in Accumulator /\ begun.buffer \in Seq(T)
    BY <1>1
  <1>3. more \in Seq(T)
    BY BehindPointerType DEF Brings
  <1>4. begun.buffer \o more \in Seq(T) /\ begun.buffer \o more \in Seq(Cell)
    BY <1>2, <1>3, ConcatInSeq, SeqMonotone
  <1>5. lengths \subseteq Nat
    BY <1>2, LengthFieldsType DEF Accumulator
  <1>6. CASE ~begun.synced
    BY <1>2, <1>6 DEF addData
  <1>7. CASE begun.synced
    <2>1. PICK n \in lengths :
             a = [buffer |-> begun.buffer \o more, expected_length |-> n,
                  complete |-> begun.complete
                      \/ (n > 0 /\ Len(begun.buffer \o more) >= n),
                  synced |-> TRUE]
      BY <1>7 DEF addData
    <2>2. begun.complete \in BOOLEAN
      BY <1>2 DEF Accumulator
    <2> HIDE DEF begun, more, lengths
    <2> QED BY <2>1, <2>2, <1>4, <1>5 DEF Accumulator
  <1> QED BY <1>6, <1>7
\* Taking a section from an accumulator leaves an accumulator.
LEMMA TakenType ==
    ASSUME NEW T, NEW acc \in Accumulator, acc.buffer \in Seq(T)
    PROVE  Taken(acc) \in Accumulator /\ Taken(acc).buffer \in Seq(T)
  BY ResetType DEF Taken

\* A sequence of cells is at most one section.
LEMMA ParsesOne ==
    ASSUME NEW S, S \subseteq Section, NEW cells,
           NEW s \in Parses(cells, S), NEW t \in Parses(cells, S)
    PROVE  s = t
  <1>1. Cells(s) = Cells(t) /\ s \in Section /\ t \in Section
    BY DEF Parses
  <1>2. Cells(s)[1].section = s /\ Cells(t)[1].section = t
    <2>1. 1 \in 1..Size[s] /\ 1 \in 1..Size[t]
      BY <1>1, CellsType
    <2> QED BY <2>1 DEF Cells
  <1> QED BY <1>1, <1>2

\* What is parsed out of an accumulator was in its buffer, cell for cell.
LEMMA ParsedFromBuffer ==
    ASSUME NEW R, NEW S, S \subseteq Section, NEW acc \in Accumulator,
           acc.buffer \in Seq(R \cup {Stuffing}), Ready(acc),
           NEW s \in Parses(getSection(acc), S)
    PROVE  \A i \in 1..Size[s] : Cells(s)[i] \in R
  <1> DEFINE b == acc.buffer
             n == acc.expected_length
  <1>1. /\ s \in Section /\ Cells(s) = SubSeq(b, 1, n)
        /\ n \in Nat /\ n > 0 /\ Len(b) >= n
        /\ b \in Seq(R \cup {Stuffing})
    BY DEF Parses, getSection, Ready, Accumulator
  <1> HIDE DEF b, n
  <1>2. Len(SubSeq(b, 1, n)) = n /\ \A i \in 1..n : SubSeq(b, 1, n)[i] = b[i]
    BY <1>1
  <1>3. Size[s] = n
    BY <1>1, <1>2, CellsType
  <1> SUFFICES ASSUME NEW i \in 1..Size[s] PROVE Cells(s)[i] \in R
    OBVIOUS
  <1>4. Cells(s)[i] \in SectionCell
    BY <1>1, CellsType
  <1>5. Cells(s)[i] = b[i] /\ b[i] \in R \cup {Stuffing}
    BY <1>1, <1>2, <1>3
  <1>6. Stuffing \notin SectionCell
    BY SectionsAssumption
  <1> QED BY <1>4, <1>5, <1>6

-----------------------------------------------------------------------------
(* Packets. *)

LEMMA PacketType ==
    ASSUME NEW p \in Packet
    PROVE  /\ p.pid \in Pid /\ p.start \in BOOLEAN
           /\ p.data \in Seq(Cell \cup Pointer)
           /\ Brings(p.data, p.start, Cell)
  BY DEF Packet, Brings

\* Of the cells of sections a packet brings only those in it.
LEMMA BringsReceived ==
    ASSUME NEW p \in Packet, NEW R,
           \A j \in DOMAIN p.data : p.data[j] \in SectionCell => p.data[j] \in R
    PROVE  Brings(p.data, p.start, R \cup {Stuffing})
  <1>1. p.data \in Seq(Cell \cup Pointer) /\ Brings(p.data, p.start, Cell)
    BY PacketType
  <1>2. CASE p.start /\ p.data # <<>>
    <2>1. Head(p.data) \in Pointer /\ Tail(p.data) \in Seq(Cell)
      BY <1>1, <1>2 DEF Brings
    <2>2. \A i \in DOMAIN Tail(p.data) :
             /\ i + 1 \in DOMAIN p.data
             /\ Tail(p.data)[i] = p.data[i + 1]
             /\ Tail(p.data)[i] \in Cell
      BY <1>1, <1>2, <2>1
    <2>3. \A i \in DOMAIN Tail(p.data) : Tail(p.data)[i] \in R \cup {Stuffing}
      BY <2>2 DEF Cell
    <2>4. Tail(p.data) \in Seq(R \cup {Stuffing})
      BY <2>1, <2>3, ElementsInSeq
    <2> QED BY <1>2, <2>1, <2>4 DEF Brings
  <1>3. CASE ~(p.start /\ p.data # <<>>)
    <2>1. p.data \in Seq(Cell)
      BY <1>1, <1>3 DEF Brings
    <2>2. \A i \in DOMAIN p.data : p.data[i] \in Cell
      BY <2>1
    <2>3. \A i \in DOMAIN p.data : p.data[i] \in R \cup {Stuffing}
      BY <2>2 DEF Cell
    <2>4. p.data \in Seq(R \cup {Stuffing})
      BY <2>1, <2>3, ElementsInSeq
    <2> QED BY <1>3, <2>4 DEF Brings
  <1> QED BY <1>2, <1>3

LEMMA FilledType ==
    ASSUME NEW T, Stuffing \in T, NEW data \in Seq(T)
    PROVE  Filled(data) \in Seq(T)
  <1>1. PayloadSize \in Nat
    BY TablesAssumption
  <1>2. \A i \in 1..PayloadSize :
           (IF i <= Len(data) THEN data[i] ELSE Stuffing) \in T
    BY <1>1
  <1>3. Filled(data) \in [1..PayloadSize -> T]
    BY <1>2 DEF Filled
  <1> QED BY <1>1, <1>3

LEMMA ContinuePacketType ==
    ASSUME NEW pid \in Pid, NEW cells \in Seq(SectionCell)
    PROVE  [pid |-> pid, start |-> FALSE, data |-> Filled(cells)] \in Packet
  <1>1. cells \in Seq(Cell)
    BY SeqMonotone DEF Cell
  <1>2. Filled(cells) \in Seq(Cell)
    BY <1>1, FilledType DEF Cell
  <1>3. Filled(cells) \in Seq(Cell \cup Pointer)
    BY <1>2, SeqMonotone
  <1> QED BY <1>2, <1>3 DEF Packet

LEMMA StartPacketType ==
    ASSUME NEW pid \in Pid, NEW skip \in Nat,
           NEW lead \in Seq(SectionCell), NEW s \in Section
    PROVE  StartPacket(pid, skip, lead, s) \in Packet
  <1> DEFINE ptr == [skip |-> skip]
             cells == lead \o Cells(s)
             all == <<ptr>> \o cells
             data == Filled(all)
  <1>1. ptr \in Pointer
    BY DEF Pointer
  <1>2. cells \in Seq(Cell) /\ lead \in Seq(SectionCell)
        /\ Cells(s) \in Seq(SectionCell)
    <2>1. cells \in Seq(SectionCell)
      BY CellsType, ConcatInSeq
    <2> QED BY <2>1, CellsType, SeqMonotone DEF Cell
  <1>3. PayloadSize \in Nat /\ PayloadSize >= 1
    BY TablesAssumption
  <1>4. /\ all \in Seq(Cell \cup Pointer)
        /\ all[1] = ptr
        /\ Len(all) >= 1
        /\ \A i \in 2..Len(all) : all[i] \in Cell
    <2> HIDE DEF ptr, cells
    <2>1. /\ all \in Seq(Cell \cup Pointer)
          /\ all[1] = ptr
          /\ Len(all) = 1 + Len(cells) /\ Len(cells) \in Nat
      BY <1>1, <1>2
    <2>2. \A i \in 2..Len(all) : all[i] \in Cell
      BY <1>1, <1>2, <2>1
    <2> QED BY <2>1, <2>2
  <1>5. data \in Seq(Cell \cup Pointer)
    BY <1>4, FilledType DEF Cell
  <1> HIDE DEF all
  <1>6. /\ Len(data) = PayloadSize /\ data # <<>> /\ data[1] = ptr
        /\ \A i \in 2..PayloadSize : data[i] \in Cell
    <2>1. data = [i \in 1..PayloadSize |->
                      IF i <= Len(all) THEN all[i] ELSE Stuffing]
      BY DEF Filled, all
    <2>2. all \in Seq(Cell \cup Pointer) /\ Len(all) >= 1 /\ all[1] = ptr
          /\ \A i \in 2..Len(all) : all[i] \in Cell
      BY <1>4 DEF all
    <2> HIDE DEF data, ptr
    <2>3. Len(data) = PayloadSize
      BY <2>1, <1>3, <1>5
    <2>4. data[1] = ptr
      BY <2>1, <2>2, <1>3
    <2>5. \A i \in 2..PayloadSize : data[i] \in Cell
      BY <2>1, <2>2, <1>3 DEF Cell
    <2> QED BY <1>3, <1>5, <2>3, <2>4, <2>5
  <1> HIDE DEF data, ptr
  <1>7. Head(data) \in Pointer
    BY <1>1, <1>5, <1>6
  <1>8. Tail(data) \in Seq(Cell)
    <2>1. Tail(data) \in Seq(Cell \cup Pointer)
          /\ \A i \in DOMAIN Tail(data) : Tail(data)[i] = data[i + 1]
                                        /\ i + 1 \in 2..PayloadSize
      BY <1>3, <1>5, <1>6
    <2>2. \A i \in DOMAIN Tail(data) : Tail(data)[i] \in Cell
      BY <1>6, <2>1
    <2> QED BY <2>1, <2>2, ElementsInSeq
  <1> QED
    BY <1>5, <1>6, <1>7, <1>8 DEF StartPacket, Packet, data, ptr, all, cells

-----------------------------------------------------------------------------
(* One packet processed. *)

\* The cells of s are all in R[pid].
Within(R, pid, s) == \A i \in 1..Size[s] : Cells(s)[i] \in R[pid]

\* The accumulators hold only what R says was received on their PIDs.
HeldWithin(R) ==
    /\ pat_accumulator.buffer \in Seq(R[PatPid] \cup {Stuffing})
    /\ \A pid \in DOMAIN pmt_accumulators :
           pmt_accumulators[pid].buffer \in Seq(R[pid] \cup {Stuffing})

\* PID 0.  A PAT that is parsed is within R, and so is the one that makes the
\* demuxer listen to a new PID.
LEMMA ProcessPATType ==
    ASSUME AccumulatorsTypeOK, ParsedTypeOK,
           NEW R \in [Pid -> SUBSET SectionCell], HeldWithin(R),
           NEW p \in Packet, p.pid = PatPid,
           Brings(p.data, p.start, R[PatPid] \cup {Stuffing}),
           ProcessPAT(p)
    PROVE  /\ AccumulatorsTypeOK' /\ ParsedTypeOK' /\ HeldWithin(R)'
           /\ parsed_pmts' = parsed_pmts
           /\ \A s \in parsed_pat' : s \in parsed_pat \/ Within(R, PatPid, s)
           /\ \A pid \in DOMAIN pmt_accumulators' :
                 \/ pid \in DOMAIN pmt_accumulators
                 \/ \E pat \in Pats : /\ Within(R, PatPid, pat)
                                     /\ pid \in ProgramPids(pat)
  <1> DEFINE T == R[PatPid] \cup {Stuffing}
  <1>1. PICK acc \in addData(pat_accumulator, p.data, p.start) :
           /\ pat_accumulator' = Taken(acc)
           /\ parsed_pat' = IF PATIn(acc) = {} THEN parsed_pat ELSE PATIn(acc)
           /\ pmt_accumulators' = NewAccumulators(PATIn(acc))
           /\ UNCHANGED parsed_pmts
    BY DEF ProcessPAT
  <1>2. PatPid \in Pid /\ Pats \subseteq Section
        /\ T \subseteq Cell
    BY TablesAssumption DEF Cell
  <1>3. acc \in Accumulator /\ acc.buffer \in Seq(T)
    BY <1>1, <1>2, PacketType, addDataType DEF HeldWithin, AccumulatorsTypeOK
  <1>4. Taken(acc) \in Accumulator /\ Taken(acc).buffer \in Seq(T)
    BY <1>3, TakenType
  <1>5. /\ PATIn(acc) \subseteq Pats
        /\ \A s, t \in PATIn(acc) : s = t
        /\ \A s \in PATIn(acc) : Within(R, PatPid, s)
    <2>1. CASE Ready(acc)
      <3>1. PATIn(acc) = Parses(getSection(acc), Pats)
        BY <2>1 DEF PATIn, parsePAT
      <3>2. PATIn(acc) \subseteq Pats
        BY <3>1 DEF Parses
      <3>3. \A s, t \in PATIn(acc) : s = t
        BY <3>1, <1>2, ParsesOne
      <3>4. \A s \in PATIn(acc) : Within(R, PatPid, s)
        BY <3>1, <1>2, <1>3, <2>1, ParsedFromBuffer DEF Within
      <3> QED BY <3>2, <3>3, <3>4
    <2>2. CASE ~Ready(acc)
      BY <2>2 DEF PATIn
    <2> QED BY <2>1, <2>2
  <1>6. ParsedTypeOK'
    BY <1>1, <1>5 DEF ParsedTypeOK
  <1>7. \A s \in parsed_pat' : s \in parsed_pat \/ Within(R, PatPid, s)
    BY <1>1, <1>5
  <1> DEFINE L == Listed(PATIn(acc))
  <1>8. L \subseteq Pid
    BY <1>5, TablesAssumption DEF Listed, ProgramPids
  <1>9. \A pid \in L : \E pat \in Pats : /\ Within(R, PatPid, pat)
                                       /\ pid \in ProgramPids(pat)
    BY <1>5 DEF Listed
  <1> HIDE DEF L
  <1>10. /\ DOMAIN pmt_accumulators' = DOMAIN pmt_accumulators \cup L
         /\ \A pid \in DOMAIN pmt_accumulators' :
               pmt_accumulators'[pid] =
                   IF pid \in L THEN Reset ELSE pmt_accumulators[pid]
    BY <1>1 DEF NewAccumulators, L
  <1>11. pmt_accumulators' \in [DOMAIN pmt_accumulators' -> Accumulator]
    <2>1. \A pid \in DOMAIN pmt_accumulators' :
             pmt_accumulators'[pid] \in Accumulator
      BY <1>10, ResetType DEF AccumulatorsTypeOK
    <2>2. pmt_accumulators' =
             [pid \in DOMAIN pmt_accumulators' |-> pmt_accumulators'[pid]]
      BY <1>1 DEF NewAccumulators
    <2> QED BY <2>1, <2>2
  <1>12. AccumulatorsTypeOK'
    BY <1>1, <1>4, <1>8, <1>10, <1>11 DEF AccumulatorsTypeOK
  <1>13. HeldWithin(R)'
    <2>1. \A pid \in DOMAIN pmt_accumulators' :
             pmt_accumulators'[pid].buffer \in Seq(R[pid] \cup {Stuffing})
      BY <1>10, ResetType DEF HeldWithin
    <2> QED BY <1>1, <1>4, <2>1 DEF HeldWithin
  <1>14. \A pid \in DOMAIN pmt_accumulators' :
            \/ pid \in DOMAIN pmt_accumulators
            \/ \E pat \in Pats : /\ Within(R, PatPid, pat)
                                /\ pid \in ProgramPids(pat)
    BY <1>9, <1>10
  <1> QED BY <1>1, <1>6, <1>7, <1>12, <1>13, <1>14

\* The PID of a program.  A PMT that is parsed is within R.
LEMMA ProcessPMTType ==
    ASSUME AccumulatorsTypeOK, ParsedTypeOK,
           NEW R \in [Pid -> SUBSET SectionCell], HeldWithin(R),
           NEW p \in Packet, p.pid \in DOMAIN pmt_accumulators,
           Brings(p.data, p.start, R[p.pid] \cup {Stuffing}),
           ProcessPMT(p)
    PROVE  /\ AccumulatorsTypeOK' /\ ParsedTypeOK' /\ HeldWithin(R)'
           /\ parsed_pat' = parsed_pat
           /\ DOMAIN pmt_accumulators' = DOMAIN pmt_accumulators
           /\ \A n \in DOMAIN parsed_pmts' :
                 \/ /\ n \in DOMAIN parsed_pmts
                    /\ parsed_pmts'[n] = parsed_pmts[n]
                 \/ Within(R, p.pid, parsed_pmts'[n])
  <1> DEFINE T == R[p.pid] \cup {Stuffing}
             A == pmt_accumulators[p.pid]
             numbers(S) == {Key(p, s) : s \in S}
  <1>1. PICK acc \in addData(A, p.data, p.start) :
           /\ pmt_accumulators' =
                  [pmt_accumulators EXCEPT ![p.pid] = Taken(acc)]
           /\ parsed_pmts' =
                  [n \in DOMAIN parsed_pmts \cup numbers(PMTIn(acc)) |->
                      IF n \in numbers(PMTIn(acc))
                      THEN CHOOSE s \in PMTIn(acc) : TRUE
                      ELSE parsed_pmts[n]]
           /\ UNCHANGED <<pat_accumulator, parsed_pat>>
    BY DEF ProcessPMT
  <1>2. Pmts \subseteq Section /\ p.pid \in Pid /\ T \subseteq Cell
    BY TablesAssumption, PacketType DEF Cell
  <1>3. A \in Accumulator /\ A.buffer \in Seq(T)
    BY DEF HeldWithin, AccumulatorsTypeOK
  <1>4. acc \in Accumulator /\ acc.buffer \in Seq(T)
    BY <1>1, <1>2, <1>3, PacketType, addDataType
  <1>5. Taken(acc) \in Accumulator /\ Taken(acc).buffer \in Seq(T)
    BY <1>4, TakenType
  <1>6. /\ PMTIn(acc) \subseteq Pmts
        /\ \A s, t \in PMTIn(acc) : s = t
        /\ \A s \in PMTIn(acc) : Within(R, p.pid, s)
    <2>1. CASE Ready(acc)
      <3>1. PMTIn(acc) = Parses(getSection(acc), Pmts)
        BY <2>1 DEF PMTIn, parsePMT
      <3>2. PMTIn(acc) \subseteq Pmts
        BY <3>1 DEF Parses
      <3>3. \A s, t \in PMTIn(acc) : s = t
        BY <3>1, <1>2, ParsesOne
      <3>4. \A s \in PMTIn(acc) : Within(R, p.pid, s)
        BY <3>1, <1>2, <1>4, <2>1, ParsedFromBuffer DEF Within
      <3> QED BY <3>2, <3>3, <3>4
    <2>2. CASE ~Ready(acc)
      BY <2>2 DEF PMTIn
    <2> QED BY <2>1, <2>2
  <1> DEFINE N == numbers(PMTIn(acc))
             c == CHOOSE s \in PMTIn(acc) : TRUE
  <1>7. \A n \in N : /\ c \in PMTIn(acc) /\ Program[c] = n
                    /\ n \in ProgramNumber
    <2> SUFFICES ASSUME NEW n \in N
                 PROVE  c \in PMTIn(acc) /\ Program[c] = n
                        /\ n \in ProgramNumber
      OBVIOUS
    <2>1. PICK s \in PMTIn(acc) : n = Program[s]
      BY DEF Key
    <2>2. c \in PMTIn(acc)
      BY <2>1
    <2>3. c = s /\ s \in Pmts
      BY <1>6, <2>1, <2>2
    <2> QED BY <2>1, <2>2, <2>3, TablesAssumption
  <1> HIDE DEF N, c
  <1>8. /\ DOMAIN parsed_pmts' = DOMAIN parsed_pmts \cup N
        /\ \A n \in DOMAIN parsed_pmts' :
              parsed_pmts'[n] = IF n \in N THEN c ELSE parsed_pmts[n]
    BY <1>1 DEF N, c
  <1>9. ParsedTypeOK'
    BY <1>1, <1>6, <1>7, <1>8 DEF ParsedTypeOK
  <1>10. /\ DOMAIN pmt_accumulators' = DOMAIN pmt_accumulators
         /\ pmt_accumulators'[p.pid] = Taken(acc)
         /\ \A pid \in DOMAIN pmt_accumulators :
               pid # p.pid => pmt_accumulators'[pid] = pmt_accumulators[pid]
    BY <1>1 DEF AccumulatorsTypeOK
  <1>11. pmt_accumulators' \in [DOMAIN pmt_accumulators' -> Accumulator]
    BY <1>1, <1>5, <1>10 DEF AccumulatorsTypeOK
  <1>12. AccumulatorsTypeOK'
    BY <1>1, <1>10, <1>11 DEF AccumulatorsTypeOK
  <1>13. HeldWithin(R)'
    <2>1. \A pid \in DOMAIN pmt_accumulators' :
             pmt_accumulators'[pid].buffer \in Seq(R[pid] \cup {Stuffing})
      BY <1>5, <1>10 DEF HeldWithin
    <2> QED BY <1>1, <2>1 DEF HeldWithin
  <1>14. \A n \in DOMAIN parsed_pmts' :
            \/ /\ n \in DOMAIN parsed_pmts
               /\ parsed_pmts'[n] = parsed_pmts[n]
            \/ Within(R, p.pid, parsed_pmts'[n])
    BY <1>6, <1>7, <1>8
  <1> QED BY <1>1, <1>9, <1>10, <1>12, <1>13, <1>14

-----------------------------------------------------------------------------
(* No accumulator keeps a complete section. *)

LEMMA ResetWaits == NothingWaits(Reset)
  BY EmptyInSeq DEF NothingWaits, Reset

\* addData() and getSection() leave nothing complete behind.
LEMMA addDataWaits ==
    ASSUME NEW acc \in Accumulator, NothingWaits(acc),
           NEW S, NEW data \in Seq(S), NEW start \in BOOLEAN,
           Brings(data, start, Cell),
           NEW a \in addData(acc, data, start)
    PROVE  NothingWaits(Taken(a))
  <1> DEFINE begun == IF start THEN Started(acc, data) ELSE acc
             more == IF start THEN BehindPointer(data) ELSE data
             b == begun.buffer \o more
             lengths == IF begun.expected_length = 0 /\ Len(b) >= 3
                        THEN LengthFields(b) ELSE {begun.expected_length}
  <1>1. CASE Ready(a)
    BY <1>1, ResetWaits DEF Taken
  <1>2. CASE ~Ready(a)
    <2>1. Taken(a) = a
      BY <1>2 DEF Taken
    <2>2. acc.buffer \in Seq(Cell)
      BY DEF Accumulator
    <2>3. begun \in Accumulator /\ begun.buffer \in Seq(Cell)
      BY <2>2, StartedType
    <2>4. begun.complete = FALSE
          /\ (~begun.synced => begun.buffer = <<>>)
          /\ (~begun.synced => Len(begun.buffer) <
                  IF begun.expected_length = 0 THEN 3
                  ELSE begun.expected_length)
      <3>1. CASE start
        <4>1. /\ Started(acc, data).complete = FALSE
              /\ Started(acc, data).buffer = <<>>
              /\ Started(acc, data).expected_length = 0
          <5>1. /\ Reset.complete = FALSE /\ Reset.buffer = <<>>
                /\ Reset.expected_length = 0 /\ Reset \in Accumulator
            BY ResetType DEF Reset
          <5>2. /\ [Reset EXCEPT !.synced = TRUE].complete = FALSE
                /\ [Reset EXCEPT !.synced = TRUE].buffer = <<>>
                /\ [Reset EXCEPT !.synced = TRUE].expected_length = 0
            BY <5>1 DEF Accumulator
          <5> QED BY <5>1, <5>2 DEF Started
        <4> QED BY <3>1, <4>1, EmptyInSeq
      <3>2. CASE ~start
        BY <3>2 DEF NothingWaits, Accumulator
      <3> QED BY <3>1, <3>2
    <2>5. CASE ~begun.synced
      <3>1. a = begun
        BY <2>5 DEF addData
      <3> HIDE DEF begun
      <3> QED BY <2>1, <2>4, <2>5, <3>1 DEF NothingWaits
    <2>6. CASE begun.synced
      <3>1. PICK n \in lengths :
               a = [buffer |-> b, expected_length |-> n,
                    complete |-> begun.complete \/ (n > 0 /\ Len(b) >= n),
                    synced |-> TRUE]
        BY <2>6 DEF addData
      <3>2. /\ a.buffer = b /\ a.expected_length = n /\ a.synced
            /\ a.complete <=> (begun.complete \/ (n > 0 /\ Len(b) >= n))
        BY <3>1
      <3>3. more \in Seq(Cell)
        BY BehindPointerType DEF Brings
      <3>4. Len(b) \in Nat
        BY <2>3, <3>3
      <3>5. n \in Nat /\ (n = 0 => Len(b) < 3)
        <4>1. CASE begun.expected_length = 0 /\ Len(b) >= 3
          BY <4>1, <3>1, LengthFieldsType
        <4>2. CASE ~(begun.expected_length = 0 /\ Len(b) >= 3)
          <5>1. n = begun.expected_length /\ n \in Nat
            BY <4>2, <2>3 DEF Accumulator
          <5> HIDE DEF begun, b
          <5> QED BY <4>2, <5>1, <3>4
        <4> QED BY <4>1, <4>2
      <3> HIDE DEF begun, more, b, lengths
      <3>6. n = 0 \/ Len(b) < n
        BY <1>2, <3>2, <3>4, <3>5 DEF Ready
      <3>7. ~a.complete
        BY <3>2, <3>4, <3>5, <3>6, <2>4
      <3> QED BY <2>1, <3>2, <3>4, <3>5, <3>6, <3>7 DEF NothingWaits
    <2> QED BY <2>5, <2>6
  <1> QED BY <1>1, <1>2

LEMMA ProcessWaits ==
    ASSUME AccumulatorsTypeOK, NothingCompleteWaits,
           NEW p \in Packet, processPSIPacket(p)
    PROVE  NothingCompleteWaits'
  <1>1. p.data \in Seq(Cell \cup Pointer) /\ p.start \in BOOLEAN
        /\ Brings(p.data, p.start, Cell)
    BY PacketType
  <1>3. CASE p.pid = PatPid
    <2>1. PICK acc \in addData(pat_accumulator, p.data, p.start) :
             /\ pat_accumulator' = Taken(acc)
             /\ pmt_accumulators' = NewAccumulators(PATIn(acc))
      BY <1>3 DEF processPSIPacket, ProcessPAT
    <2>2. NothingWaits(Taken(acc))
      BY <1>1, addDataWaits DEF AccumulatorsTypeOK, NothingCompleteWaits
    <2>3. \A pid \in DOMAIN pmt_accumulators' :
             \/ pmt_accumulators'[pid] = Reset
             \/ /\ pid \in DOMAIN pmt_accumulators
                /\ pmt_accumulators'[pid] = pmt_accumulators[pid]
      BY <2>1 DEF NewAccumulators
    <2>4. \A pid \in DOMAIN pmt_accumulators' :
             NothingWaits(pmt_accumulators'[pid])
      BY <2>3, ResetWaits DEF NothingCompleteWaits
    <2> QED BY <2>1, <2>2, <2>4 DEF NothingCompleteWaits
  <1>4. CASE p.pid # PatPid /\ p.pid \in DOMAIN pmt_accumulators
    <2>1. PICK acc \in addData(pmt_accumulators[p.pid], p.data, p.start) :
             /\ pmt_accumulators' =
                    [pmt_accumulators EXCEPT ![p.pid] = Taken(acc)]
             /\ pat_accumulator' = pat_accumulator
      BY <1>4 DEF processPSIPacket, ProcessPMT
    <2>2. NothingWaits(Taken(acc))
      BY <1>1, <1>4, addDataWaits
         DEF AccumulatorsTypeOK, NothingCompleteWaits
    <2>3. \A pid \in DOMAIN pmt_accumulators' :
             /\ pid \in DOMAIN pmt_accumulators
             /\ pmt_accumulators'[pid] =
                    IF pid = p.pid THEN Taken(acc) ELSE pmt_accumulators[pid]
      BY <1>4, <2>1
    <2>4. \A pid \in DOMAIN pmt_accumulators' :
             NothingWaits(pmt_accumulators'[pid])
      BY <2>2, <2>3 DEF NothingCompleteWaits
    <2> QED BY <2>1, <2>4 DEF NothingCompleteWaits
  <1>5. CASE p.pid # PatPid /\ p.pid \notin DOMAIN pmt_accumulators
    BY <1>5 DEF processPSIPacket, tables, NothingCompleteWaits
  <1> QED BY <1>3, <1>4, <1>5

-----------------------------------------------------------------------------
(* The invariant. *)

\* The demuxer listens to PIDs of programs of received PATs only.
ListenedIsProgram == \A pid \in DOMAIN pmt_accumulators : ProgramPid(pid)

\* OnlyReceivedSections is not inductive: what is parsed next is in the
\* accumulators now.
IInv == /\ TypeOK
        /\ HeldWithin(received)
        /\ ListenedIsProgram
        /\ OnlyReceivedSections
        /\ NothingCompleteWaits

\* What was received stays received.
LEMMA ReceivedGrows ==
    ASSUME IInv, \A pid \in Pid : received[pid] \subseteq received'[pid]
    PROVE  /\ HeldWithin(received')
           /\ \A pid \in Pid, s \in Section :
                 ReceivedOn(pid, s) => Within(received', pid, s)
           /\ \A pid \in DOMAIN pmt_accumulators : ProgramPid(pid)'
           /\ \A s \in parsed_pat : Within(received', PatPid, s)
           /\ \A n \in DOMAIN parsed_pmts :
                 \E pid \in Pid : ProgramPid(pid)'
                                /\ Within(received', pid, parsed_pmts[n])
  <1>1. /\ PatPid \in Pid /\ DOMAIN pmt_accumulators \subseteq Pid
        /\ Pats \subseteq Section /\ Pmts \subseteq Section
    BY TablesAssumption DEF IInv, TypeOK, AccumulatorsTypeOK
  <1>2. HeldWithin(received')
    <2>1. \A pid \in Pid : received[pid] \cup {Stuffing}
                              \subseteq received'[pid] \cup {Stuffing}
      OBVIOUS
    <2>2. \A pid \in Pid : \A b : b \in Seq(received[pid] \cup {Stuffing})
                              => b \in Seq(received'[pid] \cup {Stuffing})
      BY <2>1, SeqMonotone
    <2> QED BY <1>1, <2>2 DEF IInv, HeldWithin
  <1>3. \A pid \in Pid, s \in Section :
           ReceivedOn(pid, s) => Within(received', pid, s)
    BY DEF ReceivedOn, Within
  <1>4. \A pid \in Pid, s \in Section :
           ReceivedOn(pid, s) => ReceivedOn(pid, s)'
    BY DEF ReceivedOn
  <1>5. \A pid \in Pid : ProgramPid(pid) => ProgramPid(pid)'
    BY <1>1, <1>4 DEF ProgramPid
  <1>6. \A pid \in DOMAIN pmt_accumulators : ProgramPid(pid)'
    BY <1>1, <1>5 DEF IInv, ListenedIsProgram
  <1>7. \A s \in parsed_pat : Within(received', PatPid, s)
    BY <1>1, <1>3 DEF IInv, OnlyReceivedSections, TypeOK, ParsedTypeOK
  <1>8. \A n \in DOMAIN parsed_pmts :
           \E pid \in Pid : ProgramPid(pid)'
                          /\ Within(received', pid, parsed_pmts[n])
    BY <1>1, <1>3, <1>5 DEF IInv, OnlyReceivedSections, TypeOK, ParsedTypeOK
  <1> QED BY <1>2, <1>3, <1>6, <1>7, <1>8

\* A packet that is processed keeps the invariant.
LEMMA DeliverKeeps ==
    ASSUME IInv, NEW p \in Packet, NEW done, NEW w \in SUBSET Section,
           NEW pl \in BOOLEAN,
           done \subseteq [section : Section, plain : BOOLEAN],
           Deliver(p, done, w, pl)
    PROVE  /\ AccumulatorsTypeOK' /\ ParsedTypeOK' /\ HistoryTypeOK'
           /\ HeldWithin(received)' /\ ListenedIsProgram'
           /\ OnlyReceivedSections' /\ NothingCompleteWaits'
  <1> DEFINE new == {p.data[i] : i \in
                        {j \in DOMAIN p.data : p.data[j] \in SectionCell}}
  <1>1. /\ processPSIPacket(p)
        /\ whole' = [whole EXCEPT ![p.pid] = w]
        /\ plain' = [pid \in Pid |-> IF pid = p.pid THEN pl
                                     ELSE plain[pid] /\ pid \notin Replaced(p)]
        /\ finished' = done
        /\ received' = [received EXCEPT ![p.pid] = @ \cup new]
    BY DEF Deliver
  <1>2. /\ AccumulatorsTypeOK /\ ParsedTypeOK /\ HistoryTypeOK
        /\ p.pid \in Pid
    BY PacketType DEF IInv, TypeOK
  <1>3. new \subseteq SectionCell
    OBVIOUS
  <1>4. received' \in [Pid -> SUBSET SectionCell]
    <2> HIDE DEF new
    <2> QED BY <1>1, <1>2, <1>3 DEF HistoryTypeOK
  <1>5. \A pid \in Pid : received[pid] \subseteq received'[pid]
    <2> HIDE DEF new
    <2> QED BY <1>1, <1>2 DEF HistoryTypeOK
  <1>6. HistoryTypeOK'
    <2>1. whole' \in [Pid -> SUBSET Section]
      BY <1>1, <1>2 DEF HistoryTypeOK
    <2>2. plain' \in [Pid -> BOOLEAN]
      <3>1. \A pid \in Pid : (IF pid = p.pid THEN pl
                     ELSE plain[pid] /\ pid \notin Replaced(p)) \in BOOLEAN
        BY Zenon
      <3> QED BY <1>1, <3>1, Zenon
    <2> QED BY <1>1, <1>4, <2>1, <2>2 DEF HistoryTypeOK
  <1>7. PICK R \in [Pid -> SUBSET SectionCell] : R = received'
    BY <1>4
  <1>8. Brings(p.data, p.start, R[p.pid] \cup {Stuffing})
    <2>1. R[p.pid] = received[p.pid] \cup new
      <3> HIDE DEF new
      <3> QED BY <1>1, <1>2, <1>7 DEF HistoryTypeOK
    <2>2. \A j \in DOMAIN p.data :
             p.data[j] \in SectionCell => p.data[j] \in R[p.pid]
      BY <2>1
    <2> QED BY <2>2, BringsReceived
  <1>9. /\ HeldWithin(R)
        /\ \A pid \in DOMAIN pmt_accumulators : ProgramPid(pid)'
        /\ \A s \in parsed_pat : Within(R, PatPid, s)
        /\ \A n \in DOMAIN parsed_pmts :
              \E pid \in Pid : /\ ProgramPid(pid)'
                              /\ Within(R, pid, parsed_pmts[n])
    BY <1>5, <1>7, ReceivedGrows
  <1>10. \A pid, s : Within(R, pid, s) <=> ReceivedOn(pid, s)'
    BY <1>7 DEF Within, ReceivedOn
  <1>11. NothingCompleteWaits'
    BY <1>1, ProcessWaits DEF IInv, TypeOK
  <1>12. SUFFICES
           /\ AccumulatorsTypeOK' /\ ParsedTypeOK' /\ HeldWithin(R)'
           /\ \A pid \in DOMAIN pmt_accumulators' : ProgramPid(pid)'
           /\ \A s \in parsed_pat' : Within(R, PatPid, s)
           /\ \A n \in DOMAIN parsed_pmts' :
                 \E pid \in Pid : /\ ProgramPid(pid)'
                                 /\ Within(R, pid, parsed_pmts'[n])
    BY <1>6, <1>7, <1>10, <1>11
       DEF HeldWithin, ListenedIsProgram, OnlyReceivedSections
  <1>13. CASE p.pid = PatPid
    <2>1. ProcessPAT(p)
      BY <1>1, <1>13 DEF processPSIPacket
    <2>2. /\ AccumulatorsTypeOK' /\ ParsedTypeOK' /\ HeldWithin(R)'
          /\ parsed_pmts' = parsed_pmts
          /\ \A s \in parsed_pat' : s \in parsed_pat \/ Within(R, PatPid, s)
          /\ \A pid \in DOMAIN pmt_accumulators' :
                \/ pid \in DOMAIN pmt_accumulators
                \/ \E pat \in Pats : /\ Within(R, PatPid, pat)
                                    /\ pid \in ProgramPids(pat)
      BY <1>2, <1>8, <1>9, <1>13, <2>1, ProcessPATType
    <2>3. \A pid : \A pat \in Pats :
             Within(R, PatPid, pat) /\ pid \in ProgramPids(pat)
                 => ProgramPid(pid)'
      BY <1>10 DEF ProgramPids, ProgramPid
    <2> QED BY <1>9, <2>2, <2>3
  <1>14. CASE p.pid # PatPid /\ p.pid \in DOMAIN pmt_accumulators
    <2>1. ProcessPMT(p)
      BY <1>1, <1>14 DEF processPSIPacket
    <2>2. /\ AccumulatorsTypeOK' /\ ParsedTypeOK' /\ HeldWithin(R)'
          /\ parsed_pat' = parsed_pat
          /\ DOMAIN pmt_accumulators' = DOMAIN pmt_accumulators
          /\ \A n \in DOMAIN parsed_pmts' :
                \/ /\ n \in DOMAIN parsed_pmts
                   /\ parsed_pmts'[n] = parsed_pmts[n]
                \/ Within(R, p.pid, parsed_pmts'[n])
      BY <1>2, <1>8, <1>9, <1>14, <2>1, ProcessPMTType
    <2> QED BY <1>2, <1>9, <1>14, <2>2
  <1>15. CASE p.pid # PatPid /\ p.pid \notin DOMAIN pmt_accumulators
    <2>1. UNCHANGED tables
      BY <1>1, <1>15 DEF processPSIPacket
    <2> QED BY <1>2, <1>9, <2>1
            DEF tables, AccumulatorsTypeOK, ParsedTypeOK, HeldWithin
  <1> QED BY <1>13, <1>14, <1>15

\* What the four parts of TypeOK need of a packet that is sent.
LEMMA SendKeeps ==
    ASSUME IInv, NEW p \in Packet, NEW done, NEW w \in SUBSET Section,
           NEW pl \in BOOLEAN,
           done \subseteq [section : Section, plain : BOOLEAN],
           rest' \in [Pid -> Seq(SectionCell)],
           Send(p, done, w, pl)
    PROVE  IInv'
  <1>1. MultiplexerTypeOK'
    BY TablesAssumption DEF IInv, TypeOK, MultiplexerTypeOK, Send
  <1>2. CASE Deliver(p, done, w, pl)
    BY <1>1, <1>2, DeliverKeeps DEF IInv, TypeOK
  <1>3. CASE Lose(p)
    <2>1. /\ whole' = [whole EXCEPT ![p.pid] = {}]
          /\ plain' = [plain EXCEPT ![p.pid] = FALSE]
          /\ finished' = {}
          /\ UNCHANGED <<tables, received>>
      BY <1>3 DEF Lose
    <2>2. /\ whole' \in [Pid -> SUBSET Section]
          /\ received' \in [Pid -> SUBSET SectionCell]
          /\ finished' \subseteq [section : Section, plain : BOOLEAN]
      BY <2>1 DEF IInv, TypeOK, HistoryTypeOK
    <2>3. plain' \in [Pid -> BOOLEAN]
      BY <2>1 DEF IInv, TypeOK, HistoryTypeOK
    <2>4. HistoryTypeOK'
      BY <2>2, <2>3 DEF HistoryTypeOK
    <2>5. AccumulatorsTypeOK' /\ ParsedTypeOK'
      BY <2>1 DEF IInv, TypeOK, tables, AccumulatorsTypeOK, ParsedTypeOK
    <2>6. /\ HeldWithin(received)' /\ ListenedIsProgram'
          /\ OnlyReceivedSections' /\ NothingCompleteWaits'
      BY <2>1 DEF IInv, tables, HeldWithin, ListenedIsProgram,
                  OnlyReceivedSections, ProgramPid, ReceivedOn,
                  NothingCompleteWaits
    <2> QED BY <1>1, <2>4, <2>5, <2>6 DEF IInv, TypeOK
  <1> QED BY <1>2, <1>3 DEF Send

LEMMA DoneType ==
    ASSUME NEW S \in SUBSET Section, NEW pl \in BOOLEAN
    PROVE  Done(S, pl) \subseteq [section : Section, plain : BOOLEAN]
  BY DEF Done

LEMMA RestBehindType ==
    ASSUME NEW n \in Nat, NEW s \in Section
    PROVE  RestBehind(n, s) \in Seq(SectionCell)
  BY CellsType, PartInSeq DEF RestBehind

LEMMA StartSectionKeeps ==
    ASSUME IInv, NEW pid \in Pid, NEW s \in Section, StartSection(pid, s)
    PROVE  IInv'
  <1> DEFINE lead == rest[pid]
             more == RestBehind(PayloadSize - 1 - Len(lead), s)
             begun == IF ListensTo(pid) THEN {s} ELSE {}
             done == (IF lead # <<>> THEN Done(whole[pid], FALSE) ELSE {})
                       \cup (IF more = <<>> THEN Done(begun, TRUE) ELSE {})
             w == IF more = <<>> THEN {} ELSE begun
             pl == more # <<>> /\ begun # {}
  <1>1. /\ Len(lead) + 1 < PayloadSize
        /\ rest' = [rest EXCEPT ![pid] = more]
        /\ Send(StartPacket(pid, Len(lead), lead, s), done, w, pl)
    BY DEF StartSection
  <1>2. lead \in Seq(SectionCell) /\ Len(lead) \in Nat
        /\ rest \in [Pid -> Seq(SectionCell)]
        /\ whole[pid] \in SUBSET Section
    BY DEF IInv, TypeOK, MultiplexerTypeOK, HistoryTypeOK
  <1>3. more \in Seq(SectionCell)
    <2>1. PayloadSize - 1 - Len(lead) \in Nat
      BY <1>1, <1>2, TablesAssumption
    <2> QED BY <2>1, RestBehindType
  <1>4. StartPacket(pid, Len(lead), lead, s) \in Packet
    BY <1>2, StartPacketType
  <1>5. begun \in SUBSET Section /\ w \in SUBSET Section
    OBVIOUS
  <1>6. pl \in BOOLEAN
    OBVIOUS
  <1> HIDE DEF lead, begun, w, pl
  <1>7. done \subseteq [section : Section, plain : BOOLEAN]
    <2>1. Done(whole[pid], FALSE) \subseteq [section : Section, plain : BOOLEAN]
      BY <1>2, DoneType
    <2>2. Done(begun, TRUE) \subseteq [section : Section, plain : BOOLEAN]
      BY <1>5, DoneType
    <2> QED BY <2>1, <2>2
  <1> HIDE DEF more, done
  <1>8. rest' \in [Pid -> Seq(SectionCell)]
    BY <1>1, <1>2, <1>3
  <1> QED BY <1>1, <1>4, <1>5, <1>6, <1>7, <1>8, SendKeeps

LEMMA StartTwoSectionsKeeps ==
    ASSUME IInv, NEW pid \in Pid, NEW s \in Section, NEW t \in Section,
           StartTwoSections(pid, s, t)
    PROVE  IInv'
  <1> DEFINE more == RestBehind(PayloadSize - 1 - Size[s], t)
             begun(u) == IF ListensTo(pid) THEN {u} ELSE {}
             done == Done(begun(s), TRUE)
                       \cup (IF more = <<>> THEN Done(begun(t), FALSE) ELSE {})
             w == IF more = <<>> THEN {} ELSE begun(t)
  <1>1. /\ Size[s] + 1 < PayloadSize
        /\ rest' = [rest EXCEPT ![pid] = more]
        /\ Send(StartPacket(pid, 0, Cells(s), t), done, w, FALSE)
    BY DEF StartTwoSections
  <1>2. more \in Seq(SectionCell)
    <2>1. PayloadSize - 1 - Size[s] \in Nat
      BY <1>1, CellsType, TablesAssumption
    <2> QED BY <2>1, RestBehindType
  <1>3. StartPacket(pid, 0, Cells(s), t) \in Packet
    BY CellsType, StartPacketType
  <1>4. /\ begun(s) \in SUBSET Section /\ begun(t) \in SUBSET Section
        /\ w \in SUBSET Section
    OBVIOUS
  <1>5. done \subseteq [section : Section, plain : BOOLEAN]
    <2>1. Done(begun(s), TRUE) \subseteq [section : Section, plain : BOOLEAN]
      BY <1>4, DoneType
    <2>2. Done(begun(t), FALSE) \subseteq [section : Section, plain : BOOLEAN]
      BY <1>4, DoneType
    <2> QED BY <2>1, <2>2
  <1> HIDE DEF more, done, w
  <1>6. rest' \in [Pid -> Seq(SectionCell)]
    BY <1>1, <1>2 DEF IInv, TypeOK, MultiplexerTypeOK
  <1> QED BY <1>1, <1>3, <1>4, <1>5, <1>6, SendKeeps

LEMMA ContinueSectionKeeps ==
    ASSUME IInv, NEW pid \in Pid, ContinueSection(pid)
    PROVE  IInv'
  <1> DEFINE more == SubSeq(rest[pid], PayloadSize + 1, Len(rest[pid]))
             p == [pid |-> pid, start |-> FALSE, data |-> Filled(rest[pid])]
             done == IF more = <<>> THEN Done(whole[pid], plain[pid]) ELSE {}
             w == IF more = <<>> THEN {} ELSE whole[pid]
             pl == more # <<>> /\ plain[pid]
  <1>1. /\ rest' = [rest EXCEPT ![pid] = more]
        /\ Send(p, done, w, pl)
    BY DEF ContinueSection
  <1>2. /\ rest \in [Pid -> Seq(SectionCell)]
        /\ rest[pid] \in Seq(SectionCell)
        /\ whole[pid] \in SUBSET Section
    BY DEF IInv, TypeOK, MultiplexerTypeOK, HistoryTypeOK
  <1>3. plain[pid] \in BOOLEAN
    BY DEF IInv, TypeOK, HistoryTypeOK
  <1>4. more \in Seq(SectionCell)
    <2>1. PayloadSize + 1 \in Nat /\ PayloadSize + 1 >= 1
      BY TablesAssumption
    <2>2. Len(rest[pid]) \in Nat
      BY <1>2
    <2> QED BY <1>2, <2>1, <2>2, PartInSeq
  <1>5. p \in Packet
    BY <1>2, ContinuePacketType
  <1>6. w \in SUBSET Section
    BY <1>2
  <1>7. pl \in BOOLEAN
    OBVIOUS
  <1>8. done \subseteq [section : Section, plain : BOOLEAN]
    BY <1>2, <1>3, DoneType
  <1> HIDE DEF more, done, w, pl, p
  <1>9. rest' \in [Pid -> Seq(SectionCell)]
    BY <1>1, <1>2, <1>4
  <1> QED BY <1>1, <1>5, <1>6, <1>7, <1>8, <1>9, SendKeeps

\* A packet processed that the multiplexer did not just send.
LEMMA DisturbanceKeeps ==
    ASSUME IInv, NEW p \in Packet, NEW w \in SUBSET Section,
           NEW pl \in BOOLEAN, Deliver(p, {}, w, pl),
           disturbances < MaxDisturbances, disturbances' = disturbances + 1,
           UNCHANGED <<rest, last, packets>>
    PROVE  IInv'
  <1>1. MultiplexerTypeOK'
    BY TablesAssumption DEF IInv, TypeOK, MultiplexerTypeOK
  <1> QED BY <1>1, DeliverKeeps DEF IInv, TypeOK

LEMMA RepeatPacketKeeps == ASSUME IInv, RepeatPacket PROVE IInv'
  <1>1. PICK p \in last :
           Deliver(p, {}, IF p.start THEN whole[p.pid] ELSE {},
                   p.start /\ plain[p.pid])
    BY DEF RepeatPacket
  <1>2. p \in Packet /\ p.pid \in Pid
    BY PacketType DEF IInv, TypeOK, MultiplexerTypeOK
  <1>3. (IF p.start THEN whole[p.pid] ELSE {}) \in SUBSET Section
    BY <1>2 DEF IInv, TypeOK, HistoryTypeOK
  <1>4. (p.start /\ plain[p.pid]) \in BOOLEAN
    OBVIOUS
  <1> QED BY <1>1, <1>2, <1>3, <1>4, DisturbanceKeeps DEF RepeatPacket

LEMMA EmptyPacketKeeps ==
    ASSUME IInv, NEW pid \in Pid, NEW start \in BOOLEAN,
           EmptyPacket(pid, start)
    PROVE  IInv'
  <1> DEFINE p == [pid |-> pid, start |-> start, data |-> <<>>]
             w == IF start THEN {} ELSE whole[pid]
             pl == ~start /\ plain[pid]
  <1>1. Deliver(p, {}, w, pl)
    BY DEF EmptyPacket
  <1>2. p \in Packet
    <2>1. <<>> \in Seq(Cell) /\ <<>> \in Seq(Cell \cup Pointer)
      BY EmptyInSeq
    <2> QED BY <2>1 DEF Packet
  <1>3. w \in SUBSET Section
    BY DEF IInv, TypeOK, HistoryTypeOK
  <1>4. pl \in BOOLEAN
    OBVIOUS
  <1> HIDE DEF p, w, pl
  <1> QED BY <1>1, <1>2, <1>3, <1>4, DisturbanceKeeps DEF EmptyPacket

LEMMA InitIInv == Init => IInv
  <1> SUFFICES ASSUME Init PROVE IInv
    OBVIOUS
  <1>1. DOMAIN <<>> = {} /\ \A S : <<>> \in [{} -> S]
    OBVIOUS
  <1>2. AccumulatorsTypeOK
    BY <1>1, ResetType DEF Init, AccumulatorsTypeOK
  <1>3. ParsedTypeOK
    BY <1>1 DEF Init, ParsedTypeOK
  <1>4. MultiplexerTypeOK
    BY EmptyInSeq, TablesAssumption DEF Init, MultiplexerTypeOK
  <1>5. HistoryTypeOK
    BY DEF Init, HistoryTypeOK
  <1>6. HeldWithin(received)
    BY <1>1, ResetType DEF Init, HeldWithin
  <1>7. ListenedIsProgram /\ OnlyReceivedSections /\ NothingCompleteWaits
    BY <1>1, ResetWaits
       DEF Init, ListenedIsProgram, OnlyReceivedSections, NothingCompleteWaits
  <1> QED BY <1>2, <1>3, <1>4, <1>5, <1>6, <1>7 DEF IInv, TypeOK

LEMMA NextIInv == IInv /\ [Next]_vars => IInv'
  <1> SUFFICES ASSUME IInv, [Next]_vars PROVE IInv'
    OBVIOUS
  <1>1. ASSUME NEW pid \in Pid, NEW s \in Section, StartSection(pid, s)
        PROVE  IInv'
    BY <1>1, StartSectionKeeps
  <1>2. ASSUME NEW pid \in Pid, NEW s \in Section, NEW t \in Section,
               StartTwoSections(pid, s, t)
        PROVE  IInv'
    BY <1>2, StartTwoSectionsKeeps
  <1>3. ASSUME NEW pid \in Pid, ContinueSection(pid)
        PROVE  IInv'
    BY <1>3, ContinueSectionKeeps
  <1>4. CASE RepeatPacket
    BY <1>4, RepeatPacketKeeps
  <1>5. ASSUME NEW pid \in Pid, NEW start \in BOOLEAN, EmptyPacket(pid, start)
        PROVE  IInv'
    BY <1>5, EmptyPacketKeeps
  <1>6. CASE UNCHANGED vars
    BY <1>6 DEF vars, tables, history, IInv, TypeOK, AccumulatorsTypeOK,
                ParsedTypeOK, MultiplexerTypeOK, HistoryTypeOK, HeldWithin,
                ListenedIsProgram, OnlyReceivedSections, ProgramPid, ReceivedOn,
                NothingCompleteWaits
  <1> QED BY <1>1, <1>2, <1>3, <1>4, <1>5, <1>6 DEF Next

LEMMA SpecIInv == Spec => []IInv
  BY InitIInv, NextIInv, PTL DEF Spec

\* Every variable has its type, for all sections and payload sizes; PMTs are
\* kept under their own program numbers.
THEOREM TypeCorrect == Spec => []TypeOK
  <1>1. IInv => TypeOK
    BY DEF IInv
  <1> QED BY <1>1, SpecIInv, PTL

\* No table is glued together of parts of several sections or read from a PID
\* no PAT gave to a program, whatever is lost or repeated and wherever the
\* multiplexer cuts.
THEOREM OnlyReceivedTheorem == Spec => []OnlyReceivedSections
  <1>1. IInv => OnlyReceivedSections
    BY DEF IInv
  <1> QED BY <1>1, SpecIInv, PTL

\* Between packets no accumulator holds a complete section, nor anything while
\* it waits for a unit start.
THEOREM NothingCompleteWaitsTheorem == Spec => []NothingCompleteWaits
  <1>1. IInv => NothingCompleteWaits
    BY DEF IInv
  <1> QED BY <1>1, SpecIInv, PTL
-----------------------------------------------------------------------------
(***************************************************************************)
(* What came before does not matter.                                       *)
(***************************************************************************)

\* The first n cells of section s, and the accumulator that holds them.
First(s, n) == SubSeq(Cells(s), 1, n)

Held(s, n) == [buffer |-> First(s, n),
               expected_length |-> IF n < 3 THEN 0 ELSE Size[s],
               complete |-> FALSE, synced |-> TRUE]

\* Cells that go on where the first m of s end; behind its last any may follow.
GoesOn(s, m, cells) ==
    \A i \in 1..Len(cells) : m + i <= Size[s] => cells[i] = Cells(s)[m + i]

LEMMA SeqEqual ==
    ASSUME NEW T, NEW s \in Seq(T), NEW t \in Seq(T), Len(s) = Len(t),
           \A i \in 1..Len(s) : s[i] = t[i]
    PROVE  s = t
  OBVIOUS

\* Two sections differ in the first cells already.
LEMMA CellsDiffer ==
    ASSUME NEW s \in Section, NEW t \in Section,
           SubSeq(Cells(s), 1, 3) = SubSeq(Cells(t), 1, 3)
    PROVE  s = t
  <1>1. \A u \in Section : SubSeq(Cells(u), 1, 3)[1] = Cells(u)[1]
    BY CellsType
  <1>2. \A u \in Section : Cells(u)[1].section = u
    BY CellsType DEF Cells
  <1> QED BY <1>1, <1>2

LEMMA FirstType ==
    ASSUME NEW s \in Section, NEW n \in 0..Size[s]
    PROVE  /\ First(s, n) \in Seq(Cell) /\ Len(First(s, n)) = n
           /\ \A i \in 1..n : First(s, n)[i] = Cells(s)[i]
  <1>1. Cells(s) \in Seq(SectionCell) /\ Len(Cells(s)) = Size[s]
        /\ Size[s] \in Nat
    BY CellsType
  <1>2. Cells(s) \in Seq(Cell)
    BY <1>1, SeqMonotone DEF Cell
  <1> QED BY <1>1, <1>2 DEF First

\* A buffer that begins with a section's cells, or holds some of them only: the
\* section's length can be read from it.
Agrees(b, s) == \A i \in 1..Len(b) : i <= Size[s] => b[i] = Cells(s)[i]

LEMMA BufferSays ==
    ASSUME NEW s \in Section, NEW b \in Seq(Cell), Agrees(b, s)
    PROVE  /\ Len(b) <= Size[s] => b = First(s, Len(b))
           /\ Len(b) >= Size[s] => SubSeq(b, 1, Size[s]) = Cells(s)
           /\ Len(b) >= 3 => LengthFields(b) = {Size[s]}
  <1>1. /\ Cells(s) \in Seq(SectionCell) /\ Len(Cells(s)) = Size[s]
        /\ Size[s] \in Nat /\ Size[s] >= 3 /\ Len(b) \in Nat
    BY CellsType
  <1>2. \A i \in 1..Len(b) : i <= Size[s] => b[i] = Cells(s)[i]
    BY DEF Agrees
  <1>3. ASSUME Len(b) <= Size[s] PROVE b = First(s, Len(b))
    <2>1. Len(b) \in 0..Size[s]
      BY <1>1, <1>3
    <2>2. /\ First(s, Len(b)) \in Seq(Cell) /\ Len(First(s, Len(b))) = Len(b)
          /\ \A i \in 1..Len(b) : First(s, Len(b))[i] = Cells(s)[i]
      BY <2>1, FirstType
    <2>3. \A i \in 1..Len(b) : b[i] = First(s, Len(b))[i]
      BY <1>1, <1>2, <1>3, <2>2
    <2> QED BY <2>2, <2>3, SeqEqual
  <1>4. ASSUME NEW n \in 1..Size[s], Len(b) >= n
        PROVE  SubSeq(b, 1, n) = SubSeq(Cells(s), 1, n)
    <2>1. /\ Len(SubSeq(b, 1, n)) = n /\ SubSeq(b, 1, n) \in Seq(Cell)
          /\ \A i \in 1..n : SubSeq(b, 1, n)[i] = b[i]
      BY <1>1, <1>4
    <2>2. /\ Len(First(s, n)) = n /\ First(s, n) \in Seq(Cell)
          /\ \A i \in 1..n : First(s, n)[i] = Cells(s)[i]
      BY FirstType
    <2>3. ASSUME NEW i \in 1..n PROVE SubSeq(b, 1, n)[i] = First(s, n)[i]
      <3>1. i \in 1..Len(b) /\ i <= Size[s]
        BY <1>1, <1>4
      <3>2. b[i] = Cells(s)[i]
        BY <1>2, <3>1
      <3> QED BY <2>1, <2>2, <3>2, Zenon
    <2>4. SubSeq(b, 1, n) = First(s, n)
      BY <2>1, <2>2, <2>3, SeqEqual
    <2> QED BY <2>4 DEF First
  <1>5. SubSeq(Cells(s), 1, Size[s]) = Cells(s)
    BY <1>1
  <1>6. ASSUME Len(b) >= 3 PROVE LengthFields(b) = {Size[s]}
    <2>1. SubSeq(b, 1, 3) = SubSeq(Cells(s), 1, 3)
      BY <1>1, <1>4, <1>6
    <2>2. \A t \in Section :
             SubSeq(b, 1, 3) = SubSeq(Cells(t), 1, 3) <=> t = s
      BY <2>1, CellsDiffer
    <2>3. {t \in Section : SubSeq(b, 1, 3) = SubSeq(Cells(t), 1, 3)} = {s}
      BY <2>2
    <2> QED BY <2>3 DEF LengthFields
  <1>7. Size[s] \in 1..Size[s]
    BY <1>1
  <1> QED BY <1>3, <1>4, <1>5, <1>6, <1>7

LEMMA BufferGrows ==
    ASSUME NEW s \in Section, NEW m \in 0..Size[s],
           NEW more \in Seq(Cell), GoesOn(s, m, more)
    PROVE  /\ First(s, m) \o more \in Seq(Cell)
           /\ Len(First(s, m) \o more) = m + Len(more)
           /\ Agrees(First(s, m) \o more, s)
  <1>1. Size[s] \in Nat /\ m \in Nat /\ Len(more) \in Nat
    BY CellsType
  <1>2. PICK u \in Seq(Cell) :
           /\ u = First(s, m) /\ Len(u) = m
           /\ \A i \in 1..m : u[i] = Cells(s)[i]
    BY FirstType
  <1>3. /\ u \o more \in Seq(Cell) /\ Len(u \o more) = Len(u) + Len(more)
        /\ \A i \in 1..(Len(u) + Len(more)) :
              (u \o more)[i] = IF i <= Len(u) THEN u[i] ELSE more[i - Len(u)]
    OBVIOUS
  <1>4. PICK b : b = u \o more
    OBVIOUS
  <1>5. ASSUME NEW i \in 1..Len(b), i <= Size[s]
        PROVE  b[i] = Cells(s)[i]
    <2>1. CASE i <= m
      BY <1>1, <1>2, <1>3, <1>4, <2>1
    <2>2. CASE i > m
      <3>1. b[i] = more[i - m] /\ i - m \in 1..Len(more)
        BY <1>1, <1>2, <1>3, <1>4, <2>2
      <3>2. m + (i - m) = i
        BY <1>1
      <3> QED BY <1>5, <3>1, <3>2 DEF GoesOn
    <2> QED BY <1>1, <2>1, <2>2
  <1> QED BY <1>2, <1>3, <1>4, <1>5, Zenon DEF Agrees

\* What addData() makes of an accumulator, once a unit start has been dealt
\* with, and the bytes behind the pointer field.
Fed(begun, bytes) ==
    LET buffer == begun.buffer \o bytes
        lengths == IF begun.expected_length = 0 /\ Len(buffer) >= 3
                   THEN LengthFields(buffer) ELSE {begun.expected_length}
    IN  IF ~begun.synced THEN {begun}
        ELSE {[buffer |-> buffer, expected_length |-> n,
               complete |-> begun.complete \/ (n > 0 /\ Len(buffer) >= n),
               synced |-> TRUE] : n \in lengths}

LEMMA addDataFed ==
    ASSUME NEW acc, NEW data
    PROVE  /\ addData(acc, data, FALSE) = Fed(acc, data)
           /\ addData(acc, data, TRUE) =
                 Fed(Started(acc, data), BehindPointer(data))
  BY DEF addData, Fed

\* With the section's next cells it holds so many more of them, or it is
\* complete and getSection() returns the section.
LEMMA FedGrows ==
    ASSUME NEW s \in Section, NEW m \in 0..(Size[s] - 1),
           NEW more \in Seq(Cell), GoesOn(s, m, more)
    PROVE  /\ m + Len(more) < Size[s] =>
                 Fed(Held(s, m), more) = {Held(s, m + Len(more))}
           /\ m + Len(more) >= Size[s] =>
                 \A a \in Fed(Held(s, m), more) :
                    Ready(a) /\ getSection(a) = Cells(s)
  <1>0. PICK b : b = First(s, m) \o more
    OBVIOUS
  <1> DEFINE n == IF Len(b) < 3 THEN 0 ELSE Size[s]
             held == [buffer |-> b, expected_length |-> n,
                      complete |-> FALSE \/ (n > 0 /\ Len(b) >= n),
                      synced |-> TRUE]
  <1>1. Size[s] \in Nat /\ Size[s] >= 3 /\ m \in Nat /\ m \in 0..Size[s]
    BY CellsType
  <1>2. /\ b \in Seq(Cell) /\ Len(b) = m + Len(more)
        /\ Len(b) <= Size[s] => b = First(s, Len(b))
        /\ Len(b) >= Size[s] => SubSeq(b, 1, Size[s]) = Cells(s)
        /\ Len(b) >= 3 => LengthFields(b) = {Size[s]}
    <2>1. b \in Seq(Cell) /\ Len(b) = m + Len(more) /\ Agrees(b, s)
      BY <1>0, <1>1, BufferGrows, Zenon
    <2> QED BY <2>1, BufferSays
  <1>3. Len(more) \in Nat /\ Len(b) \in Nat
    BY <1>2
  <1>4. (IF Held(s, m).expected_length = 0 /\ Len(b) >= 3
         THEN LengthFields(b) ELSE {Held(s, m).expected_length}) = {n}
    BY <1>1, <1>2, <1>3 DEF Held
  <1> HIDE DEF n
  <1>5. /\ Held(s, m).synced /\ Held(s, m).buffer \o more = b
        /\ Held(s, m).complete = FALSE
    BY <1>0 DEF Held
  <1>6. Fed(Held(s, m), more) = {held}
    BY <1>4, <1>5 DEF Fed
  <1>7. ASSUME m + Len(more) < Size[s] PROVE held = Held(s, m + Len(more))
    <2>1. b = First(s, m + Len(more)) /\ Len(b) = m + Len(more)
      BY <1>1, <1>2, <1>3, <1>7
    <2>2. ~(n > 0 /\ Len(b) >= n)
          /\ n = IF m + Len(more) < 3 THEN 0 ELSE Size[s]
      BY <1>1, <1>3, <1>7, <2>1 DEF n
    <2> QED BY <2>1, <2>2 DEF Held
  <1>8. ASSUME m + Len(more) >= Size[s]
        PROVE  Ready(held) /\ getSection(held) = Cells(s)
    <2>1. Len(b) >= Size[s] /\ n = Size[s] /\ n > 0
      BY <1>1, <1>2, <1>3, <1>8 DEF n
    <2> QED BY <1>2, <2>1 DEF Ready, getSection
  <1> QED BY <1>6, <1>7, <1>8

AccumulatorOf(pid) ==
    IF pid = PatPid THEN pat_accumulator ELSE pmt_accumulators[pid]

\* A payload with which s begins, with its first n cells.
Begins(data, s, n) ==
    /\ data # <<>> /\ Head(data).skip < Len(data) - 1
    /\ BehindPointer(data) = First(s, n)

\* n cells of s were sent, all were processed, and if the first packet is sent
\* again, it does no harm.
InProgress(pid, s, n) ==
    /\ whole[pid] = {s}
    /\ rest[pid] = RestBehind(n, s)
    /\ AccumulatorOf(pid) = Held(s, n)
    /\ \A p \in last : p.pid = pid /\ p.start => Begins(p.data, s, n)

\* IntactSectionIsParsed is not inductive: a section that is plain has so far
\* got to the accumulator as it was cut into packets.
PlainInv ==
    \A pid \in Pid : plain[pid] =>
        /\ ListensTo(pid)
        /\ \E s \in Section :
              /\ <<pid, s>> \in Sendable
              /\ \E n \in 0..(Size[s] - 1) : InProgress(pid, s, n)

\* A packet leaves the PIDs alone that it neither is on nor replaces.
LEMMA OthersKept ==
    ASSUME NEW p \in Packet, processPSIPacket(p),
           NEW q \in Pid, q # p.pid, ListensTo(q), q \notin Replaced(p)
    PROVE  ListensTo(q)' /\ AccumulatorOf(q)' = AccumulatorOf(q)
  <1>1. CASE p.pid = PatPid
    <2>1. PICK acc \in addData(pat_accumulator, p.data, p.start) :
             pmt_accumulators' = NewAccumulators(PATIn(acc))
      BY <1>1 DEF processPSIPacket, ProcessPAT
    <2>2. q \in DOMAIN pmt_accumulators
      BY <1>1 DEF ListensTo
    <2>3. q \in DOMAIN pmt_accumulators'
      BY <2>1, <2>2 DEF NewAccumulators
    <2>4. q \notin Listed(PATIn(acc))
      BY <1>1, <2>1, <2>3, Zenon DEF Replaced
    <2>5. pmt_accumulators'[q] = pmt_accumulators[q]
      BY <2>1, <2>2, <2>4 DEF NewAccumulators
    <2> QED BY <1>1, <2>3, <2>5 DEF ListensTo, AccumulatorOf
  <1>2. CASE p.pid # PatPid /\ p.pid \in DOMAIN pmt_accumulators
    <2>1. PICK acc \in addData(pmt_accumulators[p.pid], p.data, p.start) :
             /\ pmt_accumulators' =
                    [pmt_accumulators EXCEPT ![p.pid] = Taken(acc)]
             /\ pat_accumulator' = pat_accumulator
      BY <1>2 DEF processPSIPacket, ProcessPMT
    <2> QED BY <2>1 DEF ListensTo, AccumulatorOf
  <1>3. CASE p.pid # PatPid /\ p.pid \notin DOMAIN pmt_accumulators
    BY <1>3 DEF processPSIPacket, tables, ListensTo, AccumulatorOf
  <1> QED BY <1>1, <1>2, <1>3

\* The cells of a section parse as that section and no other.
LEMMA ParsesOwn ==
    ASSUME NEW S, S \subseteq Section, NEW s \in S
    PROVE  Parses(Cells(s), S) = {s}
  <1>1. s \in Parses(Cells(s), S)
    BY DEF Parses
  <1>2. \A t \in Parses(Cells(s), S) : t = s
    BY <1>1, ParsesOne
  <1> QED BY <1>1, <1>2

\* A packet on a PID the demuxer listens to goes to the PID's accumulator, and
\* the section that is then complete to the tables.
LEMMA OwnProcessed ==
    ASSUME NEW p \in Packet, processPSIPacket(p), ListensTo(p.pid)
    PROVE  /\ ListensTo(p.pid)'
           /\ \E a \in addData(AccumulatorOf(p.pid), p.data, p.start) :
                 /\ AccumulatorOf(p.pid)' = Taken(a)
                 /\ \A s \in Section :
                       /\ <<p.pid, s>> \in Sendable
                       /\ Ready(a) /\ getSection(a) = Cells(s)
                       => InTables(s)'
  <1>1. \A s : <<p.pid, s>> \in Sendable =>
                  IF p.pid = PatPid THEN s \notin Pmts ELSE s \notin Pats
    <2> SUFFICES ASSUME NEW s, <<p.pid, s>> \in Sendable
                 PROVE  IF p.pid = PatPid THEN s \notin Pmts ELSE s \notin Pats
      OBVIOUS
    <2>1. <<p.pid, s>>[1] = p.pid /\ <<p.pid, s>>[2] = s
      OBVIOUS
    <2>2. \A e \in Sendable : IF e[1] = PatPid THEN e[2] \notin Pmts
                              ELSE e[2] \notin Pats
      BY TablesAssumption
    <2> QED BY <2>1, <2>2
  <1>2. Pats \subseteq Section /\ Pmts \subseteq Section
    BY TablesAssumption
  <1>3. CASE p.pid = PatPid
    <2>1. PICK a \in addData(pat_accumulator, p.data, p.start) :
             /\ pat_accumulator' = Taken(a)
             /\ parsed_pat' = IF PATIn(a) = {} THEN parsed_pat ELSE PATIn(a)
      BY <1>3 DEF processPSIPacket, ProcessPAT
    <2>2. ASSUME NEW s \in Section, <<p.pid, s>> \in Sendable,
                 Ready(a), getSection(a) = Cells(s)
          PROVE  InTables(s)'
      <3>1. s \notin Pmts
        BY <1>1, <1>3, <2>2
      <3>2. ASSUME s \in Pats PROVE s \in parsed_pat'
        <4>1. PATIn(a) = {s}
          BY <1>2, <2>2, <3>2, ParsesOwn DEF PATIn, parsePAT
        <4> QED BY <2>1, <4>1
      <3> QED BY <3>1, <3>2 DEF InTables
    <2> QED BY <1>3, <2>1, <2>2 DEF ListensTo, AccumulatorOf
  <1>4. CASE p.pid # PatPid
    <2>0. p.pid \in DOMAIN pmt_accumulators
      BY <1>4 DEF ListensTo
    <2>1. PICK a \in addData(pmt_accumulators[p.pid], p.data, p.start) :
             /\ pmt_accumulators' =
                    [pmt_accumulators EXCEPT ![p.pid] = Taken(a)]
             /\ parsed_pmts' =
                   [n \in DOMAIN parsed_pmts \cup {Key(p, s) : s \in PMTIn(a)}
                       |-> IF n \in {Key(p, s) : s \in PMTIn(a)}
                           THEN CHOOSE s \in PMTIn(a) : TRUE
                           ELSE parsed_pmts[n]]
      BY <1>4, <2>0 DEF processPSIPacket, ProcessPMT
    <2>2. ASSUME NEW s \in Section, <<p.pid, s>> \in Sendable,
                 Ready(a), getSection(a) = Cells(s)
          PROVE  InTables(s)'
      <3>1. s \notin Pats
        BY <1>1, <1>4, <2>2
      <3>2. ASSUME s \in Pmts
            PROVE  /\ Program[s] \in DOMAIN parsed_pmts'
                   /\ parsed_pmts'[Program[s]] = s
        <4>1. PMTIn(a) = {s}
          BY <1>2, <2>2, <3>2, ParsesOwn DEF PMTIn, parsePMT
        <4>2. Program[s] \in {Key(p, t) : t \in PMTIn(a)}
          BY <4>1 DEF Key
        <4>3. (CHOOSE t \in PMTIn(a) : TRUE) = s
          BY <4>1
        <4> QED BY <2>1, <4>2, <4>3
      <3> QED BY <3>1, <3>2 DEF InTables
    <2>3. AccumulatorOf(p.pid) = pmt_accumulators[p.pid]
          /\ AccumulatorOf(p.pid)' = Taken(a) /\ ListensTo(p.pid)'
      BY <1>4, <2>0, <2>1 DEF ListensTo, AccumulatorOf
    <2> QED BY <2>2, <2>3
  <1> QED BY <1>3, <1>4

\* What packet p has to be for section s to be complete with it, ...
Completes(p, s) ==
    /\ s \in Section /\ <<p.pid, s>> \in Sendable /\ ListensTo(p.pid)
    /\ \A a \in addData(AccumulatorOf(p.pid), p.data, p.start) :
          Ready(a) /\ getSection(a) = Cells(s)

\* ... and for the accumulator to hold n of its cells then.
Adds(p, s, n) ==
    /\ s \in Section /\ <<p.pid, s>> \in Sendable /\ ListensTo(p.pid)
    /\ n \in 0..(Size[s] - 1)
    /\ addData(AccumulatorOf(p.pid), p.data, p.start) = {Held(s, n)}

LEMMA HeldNotReady ==
    ASSUME NEW s \in Section, NEW n \in 0..(Size[s] - 1)
    PROVE  Taken(Held(s, n)) = Held(s, n)
  <1>1. Size[s] \in Nat /\ Size[s] >= 3 /\ n \in 0..Size[s]
    BY CellsType
  <1>2. Len(First(s, n)) = n
    BY <1>1, FirstType
  <1> QED BY <1>1, <1>2 DEF Taken, Ready, Held

LEMMA DeliverPlain ==
    ASSUME IInv, PlainInv, NEW p \in Packet, NEW done, NEW w,
           NEW pl \in BOOLEAN, Deliver(p, done, w, pl),
           \A q \in Pid \ {p.pid} : rest'[q] = rest[q],
           \A r \in last' : r \in last \/ r.pid = p.pid,
           \A f \in done : f.plain => Completes(p, f.section),
           pl => \E s, n : /\ Adds(p, s, n)
                           /\ w = {s} /\ rest'[p.pid] = RestBehind(n, s)
                           /\ \A r \in last' : r.pid = p.pid /\ r.start =>
                                                  Begins(r.data, s, n)
    PROVE  PlainInv' /\ IntactSectionIsParsed'
  <1>1. /\ processPSIPacket(p)
        /\ whole' = [whole EXCEPT ![p.pid] = w]
        /\ plain' = [pid \in Pid |-> IF pid = p.pid THEN pl
                                     ELSE plain[pid] /\ pid \notin Replaced(p)]
        /\ finished' = done
    BY DEF Deliver
  <1>2. p.pid \in Pid /\ whole \in [Pid -> SUBSET Section]
    BY PacketType DEF IInv, TypeOK, HistoryTypeOK
  <1>3. ASSUME NEW f \in finished', f.plain
        PROVE  InTables(f.section)'
    <2>1. Completes(p, f.section)
      BY <1>1, <1>3
    <2>2. ListensTo(p.pid) /\ f.section \in Section
          /\ <<p.pid, f.section>> \in Sendable
      BY <2>1 DEF Completes
    <2>3. PICK a \in addData(AccumulatorOf(p.pid), p.data, p.start) :
             \A s \in Section :
                /\ <<p.pid, s>> \in Sendable
                /\ Ready(a) /\ getSection(a) = Cells(s)
                => InTables(s)'
      BY <1>1, <2>2, OwnProcessed
    <2>4. Ready(a) /\ getSection(a) = Cells(f.section)
      BY <2>1 DEF Completes
    <2> QED BY <2>2, <2>3, <2>4
  <1>4. IntactSectionIsParsed'
    BY <1>3 DEF IntactSectionIsParsed
  <1>5. ASSUME NEW q \in Pid, plain'[q]
        PROVE  /\ ListensTo(q)'
               /\ \E s \in Section :
                     /\ <<q, s>> \in Sendable
                     /\ \E n \in 0..(Size[s] - 1) : InProgress(q, s, n)'
    <2>1. CASE q = p.pid
      <3>1. pl
        BY <1>1, <1>5, <2>1
      <3>2. PICK s, n : /\ Adds(p, s, n)
                        /\ w = {s} /\ rest'[p.pid] = RestBehind(n, s)
                        /\ \A r \in last' : r.pid = p.pid /\ r.start =>
                                               Begins(r.data, s, n)
        BY <3>1
      <3>3. /\ s \in Section /\ <<p.pid, s>> \in Sendable /\ ListensTo(p.pid)
            /\ n \in 0..(Size[s] - 1)
            /\ addData(AccumulatorOf(p.pid), p.data, p.start) = {Held(s, n)}
        BY <3>2 DEF Adds
      <3>4. ListensTo(p.pid)' /\ AccumulatorOf(p.pid)' = Held(s, n)
        BY <1>1, <3>3, OwnProcessed, HeldNotReady
      <3>5. whole'[p.pid] = {s}
        BY <1>1, <1>2, <3>2
      <3>6. InProgress(q, s, n)'
        BY <2>1, <3>2, <3>4, <3>5 DEF InProgress
      <3> QED BY <2>1, <3>3, <3>4, <3>6
    <2>2. CASE q # p.pid
      <3>1. plain[q] /\ q \notin Replaced(p)
        BY <1>1, <1>5, <2>2, Zenon
      <3>2. PICK s \in Section :
               /\ ListensTo(q) /\ <<q, s>> \in Sendable
               /\ \E n \in 0..(Size[s] - 1) : InProgress(q, s, n)
        BY <3>1 DEF PlainInv
      <3>3. PICK n \in 0..(Size[s] - 1) : InProgress(q, s, n)
        BY <3>2
      <3>4. ListensTo(q)' /\ AccumulatorOf(q)' = AccumulatorOf(q)
        BY <1>1, <2>2, <3>1, <3>2, OthersKept
      <3>5. whole'[q] = whole[q] /\ rest'[q] = rest[q]
        BY <1>1, <1>2, <2>2
      <3>6. InProgress(q, s, n)'
        BY <2>2, <3>3, <3>4, <3>5 DEF InProgress
      <3> QED BY <3>2, <3>4, <3>6
    <2> QED BY <2>1, <2>2
  <1>6. PlainInv'
    BY <1>5 DEF PlainInv
  <1> QED BY <1>4, <1>6

\* The same of a packet that is sent, and perhaps lost.
LEMMA SendPlain ==
    ASSUME IInv, PlainInv, NEW p \in Packet, NEW done, NEW w,
           NEW pl \in BOOLEAN, Send(p, done, w, pl),
           \A q \in Pid \ {p.pid} : rest'[q] = rest[q],
           \A f \in done : f.plain => Completes(p, f.section),
           pl => \E s, n : /\ Adds(p, s, n)
                           /\ w = {s} /\ rest'[p.pid] = RestBehind(n, s)
                           /\ p.start => Begins(p.data, s, n)
    PROVE  PlainInv' /\ IntactSectionIsParsed'
  <1>1. last' = {p} /\ (Deliver(p, done, w, pl) \/ Lose(p))
    BY DEF Send
  <1>2. CASE Deliver(p, done, w, pl)
    BY <1>1, <1>2, DeliverPlain
  <1>3. CASE Lose(p)
    <2>1. /\ whole' = [whole EXCEPT ![p.pid] = {}]
          /\ plain' = [plain EXCEPT ![p.pid] = FALSE]
          /\ finished' = {}
          /\ UNCHANGED tables
      BY <1>3 DEF Lose
    <2>2. whole \in [Pid -> SUBSET Section] /\ plain \in [Pid -> BOOLEAN]
      BY DEF IInv, TypeOK, HistoryTypeOK
    <2>3. ASSUME NEW q \in Pid, plain'[q]
          PROVE  /\ ListensTo(q)'
                 /\ \E s \in Section :
                       /\ <<q, s>> \in Sendable
                       /\ \E n \in 0..(Size[s] - 1) : InProgress(q, s, n)'
      <3>1. q # p.pid /\ plain[q]
        BY <2>1, <2>2, <2>3
      <3>2. PICK s \in Section :
               /\ ListensTo(q) /\ <<q, s>> \in Sendable
               /\ \E n \in 0..(Size[s] - 1) : InProgress(q, s, n)
        BY <3>1 DEF PlainInv
      <3>3. PICK n \in 0..(Size[s] - 1) : InProgress(q, s, n)
        BY <3>2
      <3>4. ListensTo(q)' /\ AccumulatorOf(q)' = AccumulatorOf(q)
        BY <2>1, <3>2 DEF tables, ListensTo, AccumulatorOf
      <3>5. whole'[q] = whole[q] /\ rest'[q] = rest[q]
        BY <2>1, <2>2, <3>1
      <3>6. InProgress(q, s, n)'
        BY <1>1, <3>1, <3>3, <3>4, <3>5 DEF InProgress
      <3> QED BY <3>2, <3>4, <3>6
    <2> QED BY <2>1, <2>3 DEF PlainInv, IntactSectionIsParsed
  <1> QED BY <1>1, <1>2, <1>3

LEMMA RestAt ==
    ASSUME NEW s \in Section, NEW n \in 0..Size[s]
    PROVE  /\ RestBehind(n, s) \in Seq(SectionCell)
           /\ Len(RestBehind(n, s)) = Size[s] - n
           /\ \A i \in 1..(Size[s] - n) : RestBehind(n, s)[i] = Cells(s)[n + i]
  BY CellsType DEF RestBehind

LEMMA NothingBehind ==
    ASSUME NEW s \in Section, NEW n \in Nat
    PROVE  RestBehind(n, s) = <<>> <=> n >= Size[s]
  <1>1. Cells(s) \in Seq(SectionCell) /\ Len(Cells(s)) = Size[s]
        /\ Size[s] \in Nat
    BY CellsType
  <1>2. CASE n >= Size[s]
    BY <1>1, <1>2 DEF RestBehind
  <1>3. CASE n < Size[s]
    <2>1. n \in 0..Size[s]
      BY <1>1, <1>3
    <2>2. Len(RestBehind(n, s)) = Size[s] - n
      BY <2>1, RestAt
    <2>3. Size[s] - n # 0 /\ Len(<<>>) = 0
      BY <1>1, <1>3
    <2> QED BY <1>1, <1>3, <2>2, <2>3
  <1> QED BY <1>1, <1>2, <1>3

\* What is behind m of the cells behind the first n.
LEMMA RestOfRest ==
    ASSUME NEW s \in Section, NEW n \in 0..Size[s], NEW m \in Nat, NEW cells,
           cells = RestBehind(n, s)
    PROVE  SubSeq(cells, m + 1, Len(cells)) = RestBehind(n + m, s)
  <1>1. /\ Cells(s) \in Seq(SectionCell) /\ Len(Cells(s)) = Size[s]
        /\ Size[s] \in Nat /\ n \in Nat
    BY CellsType
  <1>2. /\ cells \in Seq(SectionCell) /\ Len(cells) = Size[s] - n
        /\ \A i \in 1..(Size[s] - n) : cells[i] = Cells(s)[n + i]
    BY RestAt
  <1>3. CASE n + m >= Size[s]
    <2>1. RestBehind(n + m, s) = <<>>
      BY <1>1, <1>3, NothingBehind
    <2>2. m + 1 > Len(cells)
      BY <1>1, <1>2, <1>3
    <2>3. SubSeq(cells, m + 1, Len(cells)) = <<>>
      BY <1>2, <2>2
    <2> QED BY <2>1, <2>3
  <1>4. CASE n + m < Size[s]
    <2>1. /\ RestBehind(n + m, s) \in Seq(SectionCell)
          /\ Len(RestBehind(n + m, s)) = Size[s] - (n + m)
          /\ \A i \in 1..(Size[s] - (n + m)) :
                RestBehind(n + m, s)[i] = Cells(s)[(n + m) + i]
      <3>1. n + m \in 0..Size[s]
        BY <1>1, <1>4
      <3> QED BY <3>1, RestAt
    <2> DEFINE t == SubSeq(cells, m + 1, Len(cells))
    <2>2. /\ t \in Seq(SectionCell) /\ Len(t) = Size[s] - (n + m)
          /\ \A i \in 1..(Size[s] - (n + m)) : t[i] = cells[m + i]
      BY <1>1, <1>2, <1>4, SMTT(30)
    <2> HIDE DEF t
    <2>3. \A i \in 1..(Size[s] - (n + m)) :
             t[i] = RestBehind(n + m, s)[i]
      <3> SUFFICES ASSUME NEW i \in 1..(Size[s] - (n + m))
                   PROVE  t[i] = RestBehind(n + m, s)[i]
        OBVIOUS
      <3>1. m + i \in 1..(Size[s] - n) /\ n + (m + i) = (n + m) + i
        BY <1>1, <1>4
      <3> QED BY <1>2, <2>1, <2>2, <3>1
    <2>4. t = RestBehind(n + m, s)
      BY <2>1, <2>2, <2>3, SeqEqual
    <2> QED BY <2>4 DEF t
  <1> QED BY <1>1, <1>3, <1>4

LEMMA FilledAt ==
    ASSUME NEW cells
    PROVE  /\ Len(Filled(cells)) = PayloadSize
           /\ \A i \in 1..PayloadSize :
                 i <= Len(cells) => Filled(cells)[i] = cells[i]
  BY TablesAssumption DEF Filled

\* The payload that carries a section on.
LEMMA ContinueGoesOn ==
    ASSUME NEW s \in Section, NEW n \in 0..Size[s], NEW cells,
           cells = RestBehind(n, s)
    PROVE  /\ Filled(cells) \in Seq(Cell) /\ Len(Filled(cells)) = PayloadSize
           /\ GoesOn(s, n, Filled(cells))
  <1>1. Size[s] \in Nat /\ n \in Nat /\ PayloadSize \in Nat
    BY CellsType, TablesAssumption
  <1>2. /\ cells \in Seq(SectionCell) /\ Len(cells) = Size[s] - n
        /\ \A i \in 1..(Size[s] - n) : cells[i] = Cells(s)[n + i]
    BY RestAt
  <1>3. cells \in Seq(Cell)
    BY <1>2, SeqMonotone DEF Cell
  <1>4. Filled(cells) \in Seq(Cell)
    BY <1>3, FilledType DEF Cell
  <1>5. /\ Len(Filled(cells)) = PayloadSize
        /\ \A i \in 1..PayloadSize :
              i <= Len(cells) => Filled(cells)[i] = cells[i]
    BY FilledAt
  <1>6. GoesOn(s, n, Filled(cells))
    <2> SUFFICES ASSUME NEW i \in 1..PayloadSize, n + i <= Size[s]
                 PROVE  Filled(cells)[i] = Cells(s)[n + i]
      BY <1>5 DEF GoesOn
    <2>1. i \in 1..(Size[s] - n) /\ i <= Len(cells)
      BY <1>1, <1>2
    <2>2. cells[i] = Cells(s)[n + i]
      BY <1>2, <2>1
    <2> QED BY <1>5, <2>1, <2>2
  <1> QED BY <1>4, <1>5, <1>6

\* What a packet with payload_unit_start brings behind what the pointer skips.
StartsAs(data, skip, lead, s) ==
    /\ data # <<>> /\ Head(data).skip < Len(data) - 1
    /\ BehindPointer(data) \in Seq(Cell)
    /\ Len(BehindPointer(data)) = PayloadSize - 1 - skip
    /\ \A i \in 1..(PayloadSize - 1 - skip) :
          skip + i <= Len(lead) + Size[s] =>
             BehindPointer(data)[i] =
                IF skip + i <= Len(lead) THEN lead[skip + i]
                ELSE Cells(s)[skip + i - Len(lead)]

LEMMA StartPayload ==
    ASSUME NEW pid \in Pid, NEW skip \in Nat, skip + 1 < PayloadSize,
           NEW lead \in Seq(SectionCell), NEW s \in Section,
           NEW data, data = StartPacket(pid, skip, lead, s).data
    PROVE  StartsAs(data, skip, lead, s)
  <1> DEFINE ptr == [skip |-> skip]
             cells == lead \o Cells(s)
             all == <<ptr>> \o cells
             tail == Tail(data)
             behind == BehindPointer(data)
  <1>1. /\ Cells(s) \in Seq(SectionCell) /\ Len(Cells(s)) = Size[s]
        /\ Size[s] \in Nat /\ PayloadSize \in Nat /\ Len(lead) \in Nat
    BY CellsType, TablesAssumption
  <1>2. StartPacket(pid, skip, lead, s) \in Packet
    BY StartPacketType
  <1>3. data = Filled(all)
    BY DEF StartPacket
  <1>4. StartPacket(pid, skip, lead, s).start
    BY DEF StartPacket
  <1>5. data \in Seq(Cell \cup Pointer) /\ Brings(data, TRUE, Cell)
    BY <1>2, <1>4, PacketType
  <1>6. /\ cells \in Seq(SectionCell) /\ Len(cells) = Len(lead) + Size[s]
        /\ \A j \in 1..(Len(lead) + Size[s]) :
              cells[j] = IF j <= Len(lead) THEN lead[j]
                         ELSE Cells(s)[j - Len(lead)]
    BY <1>1
  <1> HIDE DEF cells
  <1>7. /\ Len(all) = 1 + Len(cells) /\ all[1] = ptr
        /\ \A j \in 1..Len(cells) : all[j + 1] = cells[j]
    <2>1. ptr \in Pointer
      BY DEF Pointer
    <2> HIDE DEF ptr
    <2>2. <<ptr>> \in Seq(Pointer \cup SectionCell)
          /\ cells \in Seq(Pointer \cup SectionCell)
          /\ Len(<<ptr>>) = 1 /\ <<ptr>>[1] = ptr
      BY <1>6, <2>1, SeqMonotone
    <2> QED BY <2>2
  <1> HIDE DEF all
  <1>8. /\ Len(data) = PayloadSize
        /\ \A i \in 1..PayloadSize : i <= Len(all) => data[i] = all[i]
    BY <1>3, FilledAt
  <1>9. data # <<>> /\ Head(data) = ptr /\ ptr.skip = skip
    <2>1. PayloadSize >= 1 /\ Len(all) >= 1
      BY <1>1, <1>6, <1>7
    <2>2. data[1] = ptr
      BY <1>1, <1>7, <1>8, <2>1
    <2> QED BY <1>1, <1>5, <1>8, <2>1, <2>2
  <1>10. /\ tail \in Seq(Cell) /\ Len(tail) = PayloadSize - 1
         /\ \A i \in 1..(PayloadSize - 1) : tail[i] = data[i + 1]
    <2>1. tail \in Seq(Cell)
      BY <1>5, <1>9 DEF Brings
    <2> QED BY <1>1, <1>5, <1>8, <1>9, <2>1
  <1>11. behind = SubSeq(tail, skip + 1, PayloadSize - 1)
    BY <1>8, <1>9 DEF BehindPointer
  <1> HIDE DEF tail, behind
  <1>12. /\ behind \in Seq(Cell) /\ Len(behind) = PayloadSize - 1 - skip
         /\ \A i \in 1..(PayloadSize - 1 - skip) : behind[i] = tail[skip + i]
    BY <1>1, <1>10, <1>11
  <1>13. ASSUME NEW i \in 1..(PayloadSize - 1 - skip),
                skip + i <= Len(lead) + Size[s]
         PROVE  behind[i] = IF skip + i <= Len(lead) THEN lead[skip + i]
                            ELSE Cells(s)[skip + i - Len(lead)]
    <2>1. behind[i] = data[(skip + i) + 1]
      BY <1>1, <1>10, <1>12
    <2>2. /\ skip + i \in 1..Len(cells) /\ (skip + i) + 1 \in 1..PayloadSize
          /\ (skip + i) + 1 <= Len(all)
      <3>1. Len(cells) = Len(lead) + Size[s] /\ Len(all) = 1 + Len(cells)
        BY <1>6, <1>7
      <3>2. \A k, l, m, n, z \in Nat :
               /\ k \in 1..(z - 1 - m) /\ m + k <= l
               => m + k \in 1..l /\ (m + k) + 1 \in 1..z /\ (m + k) + 1 <= 1 + l
        OBVIOUS
      <3>3. i \in Nat /\ Len(lead) + Size[s] \in Nat
        BY <1>1
      <3> QED BY <1>1, <1>13, <3>1, <3>2, <3>3
    <2>3. behind[i] = cells[skip + i]
      BY <1>7, <1>8, <2>1, <2>2
    <2> QED BY <1>6, <1>13, <2>2, <2>3
  <1> QED BY <1>1, <1>8, <1>9, <1>12, <1>13 DEF behind, StartsAs

LEMMA ContinueSectionPlain ==
    ASSUME IInv, PlainInv, NEW pid \in Pid, ContinueSection(pid)
    PROVE  PlainInv' /\ IntactSectionIsParsed'
  <1> DEFINE more == SubSeq(rest[pid], PayloadSize + 1, Len(rest[pid]))
             data == Filled(rest[pid])
             p == [pid |-> pid, start |-> FALSE, data |-> data]
             done == IF more = <<>> THEN Done(whole[pid], plain[pid]) ELSE {}
             w == IF more = <<>> THEN {} ELSE whole[pid]
             pl == more # <<>> /\ plain[pid]
  <1>1. /\ rest' = [rest EXCEPT ![pid] = more]
        /\ Send(p, done, w, pl)
    BY DEF ContinueSection
  <1>2. /\ rest \in [Pid -> Seq(SectionCell)] /\ plain[pid] \in BOOLEAN
    BY DEF IInv, TypeOK, MultiplexerTypeOK, HistoryTypeOK
  <1>3. p \in Packet /\ p.pid = pid /\ p.start = FALSE /\ p.data = data
    BY <1>2, ContinuePacketType
  <1>4. pl \in BOOLEAN
    OBVIOUS
  <1>5. \A q \in Pid \ {p.pid} : rest'[q] = rest[q]
    <2> HIDE DEF more
    <2> QED BY <1>1, <1>2, <1>3
  <1>6. CASE ~plain[pid]
    <2>1. ~pl
      BY <1>6
    <2>2. \A f \in done : ~f.plain
      BY <1>6 DEF Done
    <2> HIDE DEF p, done, w, pl
    <2> QED BY <1>1, <1>3, <1>4, <1>5, <2>1, <2>2, SendPlain
  <1>7. CASE plain[pid]
    <2>1. PICK s \in Section :
             /\ ListensTo(pid) /\ <<pid, s>> \in Sendable
             /\ \E n \in 0..(Size[s] - 1) : InProgress(pid, s, n)
      BY <1>7 DEF PlainInv
    <2>2. PICK n \in 0..(Size[s] - 1) : InProgress(pid, s, n)
      BY <2>1
    <2>3. /\ whole[pid] = {s} /\ rest[pid] = RestBehind(n, s)
          /\ AccumulatorOf(pid) = Held(s, n)
      BY <2>2 DEF InProgress
    <2>4. Size[s] \in Nat /\ n \in Nat /\ n \in 0..Size[s]
          /\ PayloadSize \in Nat
      BY CellsType, TablesAssumption
    <2>5. more = RestBehind(n + PayloadSize, s)
      BY <2>3, <2>4, RestOfRest
    <2>6. /\ data \in Seq(Cell) /\ Len(data) = PayloadSize
          /\ GoesOn(s, n, data)
      BY <2>3, <2>4, ContinueGoesOn
    <2>7. more = <<>> <=> n + PayloadSize >= Size[s]
      <3>1. n + PayloadSize \in Nat
        BY <2>4
      <3> HIDE DEF more
      <3> QED BY <2>5, <3>1, NothingBehind
    <2> HIDE DEF more, data
    <2>8. /\ n + PayloadSize < Size[s] =>
                addData(Held(s, n), data, FALSE) = {Held(s, n + PayloadSize)}
          /\ n + PayloadSize >= Size[s] =>
                \A a \in addData(Held(s, n), data, FALSE) :
                   Ready(a) /\ getSection(a) = Cells(s)
      <3>1. addData(Held(s, n), data, FALSE) = Fed(Held(s, n), data)
        BY addDataFed
      <3>2. /\ n + Len(data) < Size[s] =>
                  Fed(Held(s, n), data) = {Held(s, n + Len(data))}
            /\ n + Len(data) >= Size[s] =>
                  \A a \in Fed(Held(s, n), data) :
                     Ready(a) /\ getSection(a) = Cells(s)
        BY <2>6, FedGrows, Zenon
      <3> QED BY <2>6, <3>1, <3>2
    <2>9. ASSUME more = <<>>
          PROVE  \A f \in done : f.plain => Completes(p, f.section)
      <3>1. \A f \in done : f.section = s
        BY <2>3, <2>9 DEF Done
      <3>2. Completes(p, s)
        BY <1>3, <2>1, <2>3, <2>7, <2>8, <2>9 DEF Completes
      <3> QED BY <3>1, <3>2
    <2>10. more # <<>> => done = {}
      OBVIOUS
    <2>11. ASSUME pl
           PROVE  /\ Adds(p, s, n + PayloadSize)
                  /\ w = {s} /\ rest'[p.pid] = RestBehind(n + PayloadSize, s)
      <3>1. more # <<>>
        BY <2>11
      <3>2. n + PayloadSize \in 0..(Size[s] - 1) /\ n + PayloadSize < Size[s]
        BY <2>4, <2>7, <3>1
      <3>3. Adds(p, s, n + PayloadSize)
        BY <1>3, <2>1, <2>3, <2>8, <3>2 DEF Adds
      <3>4. rest'[pid] = more
        BY <1>1, <1>2
      <3> QED BY <1>3, <2>3, <2>5, <3>1, <3>3, <3>4
    <2>12. pl => \E t, m : /\ Adds(p, t, m)
                           /\ w = {t} /\ rest'[p.pid] = RestBehind(m, t)
                           /\ p.start => Begins(p.data, t, m)
      BY <1>3, <2>11
    <2>13. \A f \in done : f.plain => Completes(p, f.section)
      BY <2>9, <2>10
    <2> HIDE DEF p, done, w, pl
    <2> QED BY <1>1, <1>3, <1>4, <1>5, <2>12, <2>13, SendPlain
  <1> QED BY <1>2, <1>6, <1>7

LEMMA AccumulatorsEqual ==
    ASSUME NEW a \in Accumulator, NEW b \in Accumulator,
           a.buffer = b.buffer, a.expected_length = b.expected_length,
           a.complete = b.complete, a.synced = b.synced
    PROVE  a = b
  BY DEF Accumulator

\* A payload that begins with the first cells of a section.
LEMMA StartedHeld ==
    ASSUME NEW s \in Section, NEW acc, NEW data,
           data = <<>> \/ Head(data).skip < Len(data) - 1
    PROVE  Started(acc, data) = Held(s, 0)
  <1>1. First(s, 0) = <<>>
    BY CellsType DEF First
  <1>2. Started(acc, data) = [Reset EXCEPT !.synced = TRUE]
    BY Zenon DEF Started
  <1>3. Reset \in Accumulator
    BY ResetType
  <1> DEFINE x == [Reset EXCEPT !.synced = TRUE]
             y == [buffer |-> <<>>, expected_length |-> 0,
                   complete |-> FALSE, synced |-> TRUE]
  <1>4. x \in Accumulator /\ y \in Accumulator
    BY <1>3, EmptyInSeq DEF Accumulator
  <1>5. /\ x.buffer = <<>> /\ x.expected_length = 0
        /\ x.complete = FALSE /\ x.synced = TRUE
    BY DEF Reset
  <1>6. /\ y.buffer = <<>> /\ y.expected_length = 0
        /\ y.complete = FALSE /\ y.synced = TRUE
    OBVIOUS
  <1>7. Held(s, 0) = y
    <2>1. (IF 0 < 3 THEN 0 ELSE Size[s]) = 0
      OBVIOUS
    <2> QED BY <1>1, <2>1, Zenon DEF Held
  <1> HIDE DEF x, y
  <1>8. x = y
    BY <1>4, <1>5, <1>6, AccumulatorsEqual
  <1> QED BY <1>2, <1>7, <1>8, Zenon DEF x

\* A packet in which section s begins where the pointer field points, with n
\* bytes behind it.
BeginsOrIs(acc, data, s, n) ==
    /\ n < Size[s] => /\ addData(acc, data, TRUE) = {Held(s, n)}
                      /\ Begins(data, s, n)
    /\ n >= Size[s] => \A a \in addData(acc, data, TRUE) :
                          Ready(a) /\ getSection(a) = Cells(s)

LEMMA StartAdds ==
    ASSUME NEW s \in Section, NEW acc, NEW data, data # <<>>,
           Head(data).skip < Len(data) - 1,
           NEW more \in Seq(Cell), more = BehindPointer(data),
           GoesOn(s, 0, more)
    PROVE  BeginsOrIs(acc, data, s, Len(more))
  <1>1. Size[s] \in Nat /\ Size[s] >= 3 /\ 0 \in 0..(Size[s] - 1)
        /\ 0 \in 0..Size[s] /\ Len(more) \in Nat /\ 0 + Len(more) = Len(more)
    BY CellsType
  <1>2. Started(acc, data) = Held(s, 0)
    BY StartedHeld
  <1>3. /\ 0 + Len(more) < Size[s] =>
              addData(acc, data, TRUE) = {Held(s, 0 + Len(more))}
        /\ 0 + Len(more) >= Size[s] =>
              \A a \in addData(acc, data, TRUE) :
                 Ready(a) /\ getSection(a) = Cells(s)
    <2>1. addData(acc, data, TRUE) = Fed(Held(s, 0), more)
      BY <1>2, addDataFed, ZenonT(60)
    <2> HIDE <1>2
    <2>2. /\ 0 + Len(more) < Size[s] =>
                Fed(Held(s, 0), more) = {Held(s, 0 + Len(more))}
          /\ 0 + Len(more) >= Size[s] =>
                \A a \in Fed(Held(s, 0), more) :
                   Ready(a) /\ getSection(a) = Cells(s)
      BY <1>1, FedGrows, Zenon
    <2> QED BY <2>1, <2>2
  <1>4. ASSUME Len(more) < Size[s] PROVE more = First(s, Len(more))
    <2>1. Agrees(more, s)
      BY <1>1 DEF GoesOn, Agrees
    <2> QED BY <1>1, <1>4, <2>1, BufferSays
  <1> QED BY <1>1, <1>3, <1>4 DEF Begins, BeginsOrIs

LEMMA StartBrings ==
    ASSUME NEW pid \in Pid, NEW lead \in Seq(SectionCell), NEW s \in Section,
           Len(lead) + 1 < PayloadSize, NEW acc
    PROVE  BeginsOrIs(acc, StartPacket(pid, Len(lead), lead, s).data, s,
                      PayloadSize - 1 - Len(lead))
  <1>1. /\ Size[s] \in Nat /\ PayloadSize \in Nat /\ Len(lead) \in Nat
    BY CellsType, TablesAssumption
  <1>2. PICK data : data = StartPacket(pid, Len(lead), lead, s).data
    OBVIOUS
  <1>3. PICK more : more = BehindPointer(data)
    OBVIOUS
  <1>4. /\ data # <<>> /\ Head(data).skip < Len(data) - 1
        /\ more \in Seq(Cell) /\ Len(more) = PayloadSize - 1 - Len(lead)
        /\ \A i \in 1..(PayloadSize - 1 - Len(lead)) :
              Len(lead) + i <= Len(lead) + Size[s] =>
                 more[i] = IF Len(lead) + i <= Len(lead) THEN lead[Len(lead) + i]
                           ELSE Cells(s)[Len(lead) + i - Len(lead)]
    <2>1. StartsAs(data, Len(lead), lead, s)
      BY <1>1, <1>2, StartPayload
    <2> QED BY <1>3, <2>1 DEF StartsAs
  <1>5. GoesOn(s, 0, more)
    <2> SUFFICES ASSUME NEW i \in 1..Len(more), 0 + i <= Size[s]
                 PROVE  more[i] = Cells(s)[0 + i]
      BY DEF GoesOn
    <2>1. /\ i \in 1..(PayloadSize - 1 - Len(lead))
          /\ Len(lead) + i <= Len(lead) + Size[s]
          /\ ~(Len(lead) + i <= Len(lead))
          /\ Len(lead) + i - Len(lead) = i /\ 0 + i = i
      BY <1>1, <1>4
    <2> QED BY <1>4, <2>1
  <1>6. BeginsOrIs(acc, data, s, Len(more))
    BY <1>3, <1>4, <1>5, StartAdds
  <1> QED BY <1>2, <1>4, <1>6

LEMMA StartSectionPlain ==
    ASSUME IInv, PlainInv, NEW pid \in Pid, NEW s \in Section,
           StartSection(pid, s)
    PROVE  PlainInv' /\ IntactSectionIsParsed'
  <1> DEFINE lead == rest[pid]
             n == PayloadSize - 1 - Len(lead)
             p == StartPacket(pid, Len(lead), lead, s)
             more == RestBehind(n, s)
             begun == IF ListensTo(pid) THEN {s} ELSE {}
             done == (IF lead # <<>> THEN Done(whole[pid], FALSE) ELSE {})
                       \cup (IF more = <<>> THEN Done(begun, TRUE) ELSE {})
             w == IF more = <<>> THEN {} ELSE begun
             pl == more # <<>> /\ begun # {}
  <1>1. /\ <<pid, s>> \in Sendable
        /\ Len(lead) + 1 < PayloadSize
        /\ rest' = [rest EXCEPT ![pid] = more]
        /\ Send(p, done, w, pl)
    BY DEF StartSection
  <1>2. /\ lead \in Seq(SectionCell) /\ Len(lead) \in Nat
        /\ rest \in [Pid -> Seq(SectionCell)]
    BY DEF IInv, TypeOK, MultiplexerTypeOK
  <1>3. /\ Size[s] \in Nat /\ PayloadSize \in Nat /\ n \in Nat
    BY <1>1, <1>2, CellsType, TablesAssumption
  <1>4. p \in Packet /\ p.pid = pid /\ p.start = TRUE
    BY <1>2, StartPacketType DEF StartPacket
  <1>5. pl \in BOOLEAN
    OBVIOUS
  <1>6. more = <<>> <=> n >= Size[s]
    <2> HIDE DEF n
    <2> QED BY <1>3, NothingBehind
  <1>7. /\ n < Size[s] =>
              /\ addData(AccumulatorOf(pid), p.data, TRUE) = {Held(s, n)}
              /\ Begins(p.data, s, n)
        /\ n >= Size[s] =>
              \A a \in addData(AccumulatorOf(pid), p.data, TRUE) :
                 Ready(a) /\ getSection(a) = Cells(s)
    <2>1. lead \in Seq(SectionCell) /\ Len(lead) + 1 < PayloadSize
      BY <1>1, <1>2
    <2> HIDE DEF lead, n
    <2>2. BeginsOrIs(AccumulatorOf(pid), p.data, s, n)
      BY <2>1, StartBrings DEF n
    <2> HIDE DEF p
    <2> QED BY <2>2 DEF BeginsOrIs
  <1>8. \A f \in done : f.plain =>
           f.section = s /\ more = <<>> /\ ListensTo(pid)
    BY DEF Done
  <1>9. pl => more # <<>> /\ ListensTo(pid) /\ w = {s}
    OBVIOUS
  <1> HIDE DEF p, n, done, w, pl, begun
  <1>10. \A q \in Pid \ {p.pid} : rest'[q] = rest[q]
    <2> HIDE DEF more
    <2> QED BY <1>1, <1>2, <1>4
  <1>11. rest'[p.pid] = more
    <2> HIDE DEF more
    <2> QED BY <1>1, <1>2, <1>4
  <1>12. ASSUME NEW f \in done, f.plain PROVE Completes(p, f.section)
    <2>1. f.section = s /\ more = <<>> /\ ListensTo(pid)
      BY <1>8, <1>12
    <2> QED BY <1>1, <1>4, <1>6, <1>7, <2>1 DEF Completes
  <1>13. ASSUME pl
         PROVE  /\ Adds(p, s, n)
                /\ w = {s} /\ rest'[p.pid] = RestBehind(n, s)
                /\ Begins(p.data, s, n)
    <2>1. n < Size[s] /\ ListensTo(pid) /\ n \in 0..(Size[s] - 1)
      BY <1>3, <1>6, <1>9, <1>13
    <2> QED BY <1>1, <1>4, <1>7, <1>9, <1>11, <1>13, <2>1 DEF Adds
  <1>14. pl => \E t, m : /\ Adds(p, t, m)
                         /\ w = {t} /\ rest'[p.pid] = RestBehind(m, t)
                         /\ p.start => Begins(p.data, t, m)
    BY <1>13
  <1> QED BY <1>1, <1>4, <1>5, <1>10, <1>12, <1>14, SendPlain

LEMMA StartTwoSectionsPlain ==
    ASSUME IInv, PlainInv, NEW pid \in Pid, NEW s \in Section,
           NEW t \in Section, StartTwoSections(pid, s, t)
    PROVE  PlainInv' /\ IntactSectionIsParsed'
  <1> DEFINE p == StartPacket(pid, 0, Cells(s), t)
             more == RestBehind(PayloadSize - 1 - Size[s], t)
             begun(u) == IF ListensTo(pid) THEN {u} ELSE {}
             done == Done(begun(s), TRUE)
                       \cup (IF more = <<>> THEN Done(begun(t), FALSE) ELSE {})
             w == IF more = <<>> THEN {} ELSE begun(t)
  <1>1. /\ <<pid, s>> \in Sendable /\ Size[s] + 1 < PayloadSize
        /\ rest' = [rest EXCEPT ![pid] = more]
        /\ Send(p, done, w, FALSE)
    BY DEF StartTwoSections
  <1>2. /\ Cells(s) \in Seq(SectionCell) /\ Len(Cells(s)) = Size[s]
        /\ Size[s] \in Nat /\ Size[t] \in Nat /\ PayloadSize \in Nat
        /\ rest \in [Pid -> Seq(SectionCell)]
    BY CellsType, TablesAssumption DEF IInv, TypeOK, MultiplexerTypeOK
  <1>3. p \in Packet /\ p.pid = pid /\ p.start = TRUE
    BY <1>2, StartPacketType DEF StartPacket
  <1>4. \A f \in done : f.plain => f.section = s /\ ListensTo(pid)
    BY DEF Done
  <1> HIDE DEF done, w, more
  <1>5. \A q \in Pid \ {p.pid} : rest'[q] = rest[q]
    BY <1>1, <1>2, <1>3
  <1>6. \A a \in addData(AccumulatorOf(pid), p.data, TRUE) :
           Ready(a) /\ getSection(a) = Cells(s)
    <2>1. PICK data : data = p.data
      OBVIOUS
    <2>2. PICK bytes : bytes = BehindPointer(data)
      OBVIOUS
    <2>3. /\ data # <<>> /\ Head(data).skip < Len(data) - 1
          /\ bytes \in Seq(Cell) /\ Len(bytes) = PayloadSize - 1 - 0
          /\ \A i \in 1..(PayloadSize - 1 - 0) :
                0 + i <= Len(Cells(s)) + Size[t] =>
                   bytes[i] = IF 0 + i <= Len(Cells(s)) THEN Cells(s)[0 + i]
                              ELSE Cells(t)[0 + i - Len(Cells(s))]
      <3>1. 0 \in Nat /\ 0 + 1 < PayloadSize /\ Cells(s) \in Seq(SectionCell)
        BY <1>1, <1>2
      <3>2. data = StartPacket(pid, 0, Cells(s), t).data
        BY <2>1
      <3>3. StartsAs(data, 0, Cells(s), t)
        BY <3>1, <3>2, StartPayload
      <3> QED BY <2>2, <3>3 DEF StartsAs
    <2>4. GoesOn(s, 0, bytes)
      <3> SUFFICES ASSUME NEW i \in 1..Len(bytes), 0 + i <= Size[s]
                   PROVE  bytes[i] = Cells(s)[0 + i]
        BY DEF GoesOn
      <3>1. i \in 1..(PayloadSize - 1 - 0) /\ 0 + i <= Len(Cells(s)) + Size[t]
            /\ 0 + i <= Len(Cells(s))
        BY <1>2, <2>3
      <3> QED BY <2>3, <3>1
    <2>5. Len(bytes) >= Size[s]
      BY <1>1, <1>2, <2>3
    <2> HIDE DEF p
    <2>6. \A a \in addData(AccumulatorOf(pid), data, TRUE) :
             Ready(a) /\ getSection(a) = Cells(s)
      <3>1. BeginsOrIs(AccumulatorOf(pid), data, s, Len(bytes))
        BY <2>2, <2>3, <2>4, StartAdds
      <3> QED BY <2>5, <3>1 DEF BeginsOrIs
    <2> QED BY <2>1, <2>6
  <1> HIDE DEF p
  <1>7. ASSUME NEW f \in done, f.plain PROVE Completes(p, f.section)
    BY <1>1, <1>3, <1>4, <1>6, <1>7 DEF Completes
  <1> QED BY <1>1, <1>3, <1>5, <1>7, SendPlain

\* The first packet of a section brings the same cells again.
LEMMA RepeatPacketPlain ==
    ASSUME IInv, PlainInv, RepeatPacket
    PROVE  PlainInv' /\ IntactSectionIsParsed'
  <1>1. PICK p \in last :
           Deliver(p, {}, IF p.start THEN whole[p.pid] ELSE {},
                   p.start /\ plain[p.pid])
    BY DEF RepeatPacket
  <1> DEFINE w == IF p.start THEN whole[p.pid] ELSE {}
             pl == p.start /\ plain[p.pid]
  <1>2. p \in Packet /\ p.pid \in Pid /\ p.start \in BOOLEAN
    BY PacketType DEF IInv, TypeOK, MultiplexerTypeOK
  <1>3. rest' = rest /\ last' = last
    BY DEF RepeatPacket
  <1>4. pl \in BOOLEAN
    OBVIOUS
  <1>5. ASSUME pl
        PROVE  \E s, n : /\ Adds(p, s, n)
                         /\ w = {s} /\ rest'[p.pid] = RestBehind(n, s)
                         /\ \A r \in last' : r.pid = p.pid /\ r.start =>
                                                Begins(r.data, s, n)
    <2>1. plain[p.pid] /\ p.start = TRUE
      BY <1>2, <1>5
    <2>2. PICK s \in Section :
             /\ ListensTo(p.pid) /\ <<p.pid, s>> \in Sendable
             /\ \E n \in 0..(Size[s] - 1) : InProgress(p.pid, s, n)
      BY <1>2, <2>1 DEF PlainInv
    <2>3. PICK n \in 0..(Size[s] - 1) : InProgress(p.pid, s, n)
      BY <2>2
    <2>4. /\ whole[p.pid] = {s} /\ rest[p.pid] = RestBehind(n, s)
          /\ \A r \in last : r.pid = p.pid /\ r.start => Begins(r.data, s, n)
      BY <2>3 DEF InProgress
    <2>5. Size[s] \in Nat /\ n \in Nat /\ n \in 0..Size[s] /\ n < Size[s]
      BY CellsType
    <2>6. PICK data : data = p.data
      OBVIOUS
    <2>7. /\ data # <<>> /\ Head(data).skip < Len(data) - 1
          /\ BehindPointer(data) = First(s, n)
      BY <2>1, <2>4, <2>6 DEF Begins
    <2>8. PICK more : more = First(s, n)
      OBVIOUS
    <2>9. /\ more \in Seq(Cell) /\ Len(more) = n
          /\ \A i \in 1..n : more[i] = Cells(s)[i]
      BY <2>5, <2>8, FirstType
    <2>10. GoesOn(s, 0, more)
      <3>1. \A i \in 1..n : 0 + i = i
        OBVIOUS
      <3> QED BY <2>9, <3>1 DEF GoesOn
    <2>11. addData(AccumulatorOf(p.pid), data, TRUE) = {Held(s, n)}
      <3>1. more = BehindPointer(data) /\ Len(more) < Size[s]
        BY <2>5, <2>7, <2>8, <2>9
      <3>2. BeginsOrIs(AccumulatorOf(p.pid), data, s, Len(more))
        BY <2>7, <2>9, <2>10, <3>1, StartAdds
      <3> QED BY <2>9, <3>1, <3>2 DEF BeginsOrIs
    <2>12. Adds(p, s, n)
      BY <2>1, <2>2, <2>6, <2>11 DEF Adds
    <2>13. w = {s}
      BY <2>1, <2>4
    <2> QED BY <1>3, <2>4, <2>12, <2>13
  <1>6. Deliver(p, {}, w, pl)
    BY <1>1
  <1> HIDE DEF w, pl
  <1>7. /\ \A q \in Pid \ {p.pid} : rest'[q] = rest[q]
        /\ \A r \in last' : r \in last \/ r.pid = p.pid
    BY <1>3
  <1> QED BY <1>2, <1>4, <1>5, <1>6, <1>7, DeliverPlain

\* A packet without bytes leaves an accumulator that is in sync as it is.
LEMMA EmptyPacketPlain ==
    ASSUME IInv, PlainInv, NEW pid \in Pid, NEW start \in BOOLEAN,
           EmptyPacket(pid, start)
    PROVE  PlainInv' /\ IntactSectionIsParsed'
  <1> DEFINE p == [pid |-> pid, start |-> start, data |-> <<>>]
             w == IF start THEN {} ELSE whole[pid]
             pl == ~start /\ plain[pid]
  <1>1. Deliver(p, {}, w, pl) /\ rest' = rest /\ last' = last
    BY DEF EmptyPacket
  <1>2. p \in Packet /\ p.pid = pid /\ p.start = start /\ p.data = <<>>
    <2>1. <<>> \in Seq(Cell) /\ <<>> \in Seq(Cell \cup Pointer)
      BY EmptyInSeq
    <2> QED BY <2>1 DEF Packet
  <1>3. pl \in BOOLEAN
    OBVIOUS
  <1>4. ASSUME pl
        PROVE  \E s, n : /\ Adds(p, s, n)
                         /\ w = {s} /\ rest'[p.pid] = RestBehind(n, s)
                         /\ \A r \in last' : r.pid = p.pid /\ r.start =>
                                                Begins(r.data, s, n)
    <2>1. plain[pid] /\ start = FALSE
      BY <1>4
    <2>2. PICK s \in Section :
             /\ ListensTo(pid) /\ <<pid, s>> \in Sendable
             /\ \E n \in 0..(Size[s] - 1) : InProgress(pid, s, n)
      BY <2>1 DEF PlainInv
    <2>3. PICK n \in 0..(Size[s] - 1) : InProgress(pid, s, n)
      BY <2>2
    <2>4. /\ whole[pid] = {s} /\ rest[pid] = RestBehind(n, s)
          /\ AccumulatorOf(pid) = Held(s, n)
          /\ \A r \in last : r.pid = pid /\ r.start => Begins(r.data, s, n)
      BY <2>3 DEF InProgress
    <2>5. addData(Held(s, n), <<>>, FALSE) = {Held(s, n)}
      <3>1. PICK more : more = <<>>
        OBVIOUS
      <3>2. /\ more \in Seq(Cell) /\ Len(more) = 0 /\ GoesOn(s, n, more)
            /\ n + Len(more) = n /\ n < Size[s]
        BY <3>1, EmptyInSeq, CellsType DEF GoesOn
      <3>3. /\ n + Len(more) < Size[s] =>
                  Fed(Held(s, n), more) = {Held(s, n + Len(more))}
            /\ n + Len(more) >= Size[s] =>
                  \A a \in Fed(Held(s, n), more) :
                     Ready(a) /\ getSection(a) = Cells(s)
        BY <3>2, FedGrows, Zenon
      <3>4. addData(Held(s, n), more, FALSE) = Fed(Held(s, n), more)
        BY addDataFed
      <3> QED BY <3>1, <3>2, <3>3, <3>4
    <2>6. Adds(p, s, n)
      BY <1>2, <2>1, <2>2, <2>4, <2>5 DEF Adds
    <2>7. w = {s}
      BY <2>1, <2>4
    <2> HIDE DEF p, w, pl
    <2> QED BY <1>1, <1>2, <2>4, <2>6, <2>7
  <1> HIDE DEF p, w, pl
  <1>5. /\ \A q \in Pid \ {p.pid} : rest'[q] = rest[q]
        /\ \A r \in last' : r \in last \/ r.pid = p.pid
    BY <1>1
  <1> QED BY <1>1, <1>2, <1>3, <1>4, <1>5, DeliverPlain

\* The inductive invariant IntactSectionIsParsed needs.
IntactInv == IInv /\ PlainInv /\ IntactSectionIsParsed

LEMMA InitIntact == Init => IntactInv
  <1>1. Init => PlainInv /\ IntactSectionIsParsed
    BY DEF Init, PlainInv, IntactSectionIsParsed
  <1> QED BY <1>1, InitIInv DEF IntactInv

LEMMA NextIntact == IntactInv /\ [Next]_vars => IntactInv'
  <1> SUFFICES ASSUME IntactInv, [Next]_vars PROVE IntactInv'
    OBVIOUS
  <1>1. IInv /\ PlainInv /\ IntactSectionIsParsed
    BY DEF IntactInv
  <1>2. IInv'
    BY <1>1, NextIInv
  <1> SUFFICES PlainInv' /\ IntactSectionIsParsed'
    BY <1>2 DEF IntactInv
  <1>3. ASSUME NEW pid \in Pid, NEW s \in Section, StartSection(pid, s)
        PROVE  PlainInv' /\ IntactSectionIsParsed'
    BY <1>1, <1>3, StartSectionPlain
  <1>4. ASSUME NEW pid \in Pid, NEW s \in Section, NEW t \in Section,
               StartTwoSections(pid, s, t)
        PROVE  PlainInv' /\ IntactSectionIsParsed'
    BY <1>1, <1>4, StartTwoSectionsPlain
  <1>5. ASSUME NEW pid \in Pid, ContinueSection(pid)
        PROVE  PlainInv' /\ IntactSectionIsParsed'
    BY <1>1, <1>5, ContinueSectionPlain
  <1>6. CASE RepeatPacket
    BY <1>1, <1>6, RepeatPacketPlain
  <1>7. ASSUME NEW pid \in Pid, NEW start \in BOOLEAN, EmptyPacket(pid, start)
        PROVE  PlainInv' /\ IntactSectionIsParsed'
    BY <1>1, <1>7, EmptyPacketPlain
  <1>8. CASE UNCHANGED vars
    <2>1. /\ UNCHANGED <<pat_accumulator, pmt_accumulators, parsed_pat,
                         parsed_pmts, rest, last, whole, plain, finished>>
      BY <1>8 DEF vars, tables, history
    <2>2. IntactSectionIsParsed'
      BY <1>1, <2>1 DEF IntactSectionIsParsed, InTables
    <2>3. PlainInv'
      BY <1>1, <2>1 DEF PlainInv, InProgress, AccumulatorOf, ListensTo
    <2> QED BY <2>2, <2>3
  <1> QED BY <1>3, <1>4, <1>5, <1>6, <1>7, <1>8 DEF Next

\* A PAT or PMT whose packets were all processed in order is in the tables as
\* soon as its last packet has been processed, whatever was lost, repeated or
\* left unfinished before, for all sections, payload sizes and ways to cut.
THEOREM IntactSectionTheorem == Spec => []IntactSectionIsParsed
  <1>1. IntactInv => IntactSectionIsParsed
    BY DEF IntactInv
  <1> QED BY <1>1, InitIntact, NextIntact, PTL DEF Spec

=============================================================================
