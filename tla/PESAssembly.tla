----------------------------- MODULE PESAssembly -----------------------------
(***************************************************************************)
(* PES packets put together by a PESManager from the payloads of the       *)
(* packets of several PIDs, and taken out by the user into one PESPacket   *)
(* object that is used again and again.  A sender cuts its units (PES      *)
(* packets) into payloads of any size; a payload may be lost or come       *)
(* twice, which the accumulator has no means to notice.                    *)
(*                                                                         *)
(* A unit is a member of Unit; its bytes are cells that say which unit and *)
(* which position they are from.  The header fields of a unit are given by *)
(* HeaderOf; bytes that are nobody's header say what garbage says, the     *)
(* same bytes always the same.                                             *)
(*                                                                         *)
(* An operator whose name ends in _Something is its namesake with a        *)
(* mistake in it; no specification uses one, they are there to show which  *)
(* property notices the mistake.                                           *)
(***************************************************************************)
EXTENDS Integers, Sequences, SequencesExt

CONSTANTS
    Pid,
    Unit,             \* the units that may be sent
    Size,             \* [Unit -> Nat]: how many bytes each has
    HeaderOf,         \* [Unit -> Header]
    GarbageHeaders,   \* what bytes may say that are no unit's header
    StartCodeSize,    \* 3 bytes: 00 00 01
    FixedSize,        \* 6: up to and including packet_length
    FlagsSize,        \* 9: up to and including header_data_length
    TimestampSize,    \* 5
    PayloadSize,      \* bytes in the payload of a packet: 184
    TsModulus,        \* 2^33: timestamps have 33 bits
    MaxPackets,       \* bound: how many packets are sent
    MaxDisturbances   \* bound: how many of them are lost, repeated or empty

\* length is PES_packet_length, 0 for an unbounded unit; timestamps counts
\* them: PTS, or PTS and DTS.
Header == [start_code : BOOLEAN, length : Nat, has_optional_fields : BOOLEAN,
           header_data_length : Nat, timestamps : 0..2]

Cell == [unit : Unit, pos : Nat \ {0}]
Cells(u) == [i \in 1..Size[u] |-> [unit |-> u, pos |-> i]]

\* PESHeader::getHeaderSize()
getHeaderSize(h) ==
    IF h.has_optional_fields THEN FlagsSize + h.header_data_length
    ELSE FixedSize

ASSUME SizesAssumption ==
    /\ StartCodeSize \in Nat \ {0}
    /\ FixedSize \in Nat /\ StartCodeSize <= FixedSize
    /\ FlagsSize \in Nat /\ FixedSize <= FlagsSize
    /\ TimestampSize \in Nat /\ PayloadSize \in Nat \ {0}
    /\ MaxPackets \in Nat /\ MaxDisturbances \in Nat
    /\ TsModulus \in Nat \ {0}

\* A unit's header is right: a start code, all of the header is there, the
\* timestamps are in it, and the length is that of the unit or 0.
ASSUME UnitsAssumption ==
    /\ Size \in [Unit -> Nat \ {0}]
    /\ HeaderOf \in [Unit -> Header]
    /\ GarbageHeaders \subseteq Header /\ GarbageHeaders # {}
    /\ \A u \in Unit :
          LET h == HeaderOf[u]
          IN  /\ h.start_code
              /\ getHeaderSize(h) <= Size[u]
              /\ h.has_optional_fields =>
                    h.timestamps * TimestampSize <= h.header_data_length
              /\ h.length = 0 \/ FixedSize + h.length = Size[u]

Unbounded(u) == HeaderOf[u].length = 0

Accumulator == [buffer : Seq(Cell), expected_length : Nat,
                synced : BOOLEAN, complete : BOOLEAN]

\* PESPacket; pts and dts are the bytes they were read from, <<>> if none.
PESPacket == [has_optional_fields : BOOLEAN, timestamps : 0..2,
              pts : Seq(Cell), dts : Seq(Cell), payload : Seq(Cell)]

VARIABLES
    accumulators,   \* PESManager: PID -> accumulator
    packet,         \* the user's PESPacket
    garbage         \* never changes

(***************************************************************************)
(* The sender, and history variables for the properties.                   *)
(***************************************************************************)
VARIABLES
    rest,           \* PID -> the cells of its unit not sent yet
    packets, disturbances,
    whole,          \* PID -> {[unit, n]} if the first n cells of the unit,
                    \* and nothing else, were added since the accumulator
                    \* was last reset, taken or removed; else {}
    clean,          \* PID -> nothing lost or repeated since the last start
                    \* of a unit that was added
    taken           \* what whole and clean said of the packet last taken:
                    \* {} or {[whole, clean]}

history == <<whole, clean, taken>>
vars == <<accumulators, packet, garbage, rest, packets, disturbances,
          history>>

-----------------------------------------------------------------------------
(***************************************************************************)
(* PESParser.                                                              *)
(***************************************************************************)

\* The header whose fields are in the first n bytes of b.
Says(b, n) ==
    LET whose == {u \in Unit : /\ n <= Size[u]
                               /\ SubSeq(b, 1, n) = SubSeq(Cells(u), 1, n)}
    IN  IF whose = {} THEN garbage ELSE HeaderOf[CHOOSE u \in whose : TRUE]

\* What the bytes of b, of which there are FixedSize, say: the fields behind
\* packet_length are from bytes that may not be there yet.
HeaderIn(b) ==
    [start_code |-> Says(b, StartCodeSize).start_code,
     length |-> Says(b, FixedSize).length,
     has_optional_fields |-> Says(b, FixedSize).has_optional_fields,
     header_data_length |-> IF Len(b) < FlagsSize THEN 0
                            ELSE Says(b, FlagsSize).header_data_length,
     timestamps |-> IF Len(b) < FlagsSize THEN 0
                    ELSE Says(b, FlagsSize).timestamps]

parseHeader_Unbounded(b) ==
    /\ Len(b) >= FixedSize
    /\ HeaderIn(b).start_code
    /\ HeaderIn(b).has_optional_fields => Len(b) >= FlagsSize

\* parseHeader() returns true.
parseHeader(b) ==
    /\ Len(b) >= FixedSize
    /\ HeaderIn(b).start_code
    /\ HeaderIn(b).has_optional_fields =>
          LET h == HeaderIn(b)
          IN  /\ Len(b) >= FlagsSize
              /\ Len(b) >= FlagsSize + h.header_data_length
              /\ Len(b) >= FlagsSize + h.timestamps * TimestampSize

\* extractTimestamp() of the k-th timestamp, if there is one.
Timestamp_First(b, k) ==
    SubSeq(b, FlagsSize + 1, FlagsSize + TimestampSize)

Timestamp(b, k) ==
    SubSeq(b, FlagsSize + (k - 1) * TimestampSize + 1,
           FlagsSize + k * TimestampSize)

\* What parseHeader() leaves of the user's packet p: without optional fields
\* the flags are not written, and a timestamp is written only if there is one.
HeaderInto(p, b) ==
    LET h == HeaderIn(b)
        flags == h.has_optional_fields /\ Len(b) >= FlagsSize
        fits(k) == /\ flags
                   /\ h.timestamps >= k
                   /\ Len(b) >= FlagsSize + h.header_data_length
                   /\ Len(b) >= FlagsSize + k * TimestampSize
    IN  [p EXCEPT !.has_optional_fields = h.has_optional_fields,
                  !.timestamps = IF flags THEN h.timestamps ELSE p.timestamps,
                  !.pts = IF fits(1) THEN Timestamp(b, 1) ELSE p.pts,
                  !.dts = IF fits(2) THEN Timestamp(b, 2) ELSE p.dts]

Payload_BehindFixed(b) == SubSeq(b, FixedSize + 1, Len(b))

\* Everything behind the header, also what is behind the packet's length.
Payload(b) == SubSeq(b, getHeaderSize(HeaderIn(b)) + 1, Len(b))

\* parsePacket(), which is only called when there are FixedSize bytes that
\* begin with a start code.
parsePacket(p, b) ==
    IF parseHeader(b)
    THEN [HeaderInto(p, b) EXCEPT !.payload = Payload(b)]
    ELSE HeaderInto(p, b)

-----------------------------------------------------------------------------
(***************************************************************************)
(* PESAccumulator.                                                         *)
(***************************************************************************)
Reset == [buffer |-> <<>>, expected_length |-> 0,
          synced |-> FALSE, complete |-> FALSE]

CompleteAt_OneLess(b, h) ==
    IF h.length = 0 THEN parseHeader(b)
    ELSE Len(b) >= FixedSize + h.length - 1

\* Buffer b, which begins with h, is a complete packet: an unbounded one is
\* as soon as its header is there.
CompleteAt(b, h) ==
    IF h.length = 0 THEN parseHeader(b)
    ELSE Len(b) >= FixedSize + h.length

Started == [buffer |-> <<>>, expected_length |-> 0,
            synced |-> TRUE, complete |-> FALSE]

\* parseAndCheckComplete(): complete_ is never taken back.
Checked(acc) ==
    LET h == HeaderIn(acc.buffer)
    IN  IF Len(acc.buffer) < FixedSize THEN acc
        ELSE IF ~h.start_code THEN Reset
        ELSE [buffer |-> acc.buffer,
              expected_length |-> IF h.length > 0 THEN FixedSize + h.length
                                  ELSE acc.expected_length,
              synced |-> acc.synced,
              complete |-> acc.complete \/ CompleteAt(acc.buffer, h)]

addData_KeepsBuffer(acc, data, payload_unit_start) ==
    LET start == IF payload_unit_start THEN [acc EXCEPT !.synced = TRUE]
                 ELSE acc
    IN  IF data = <<>> THEN acc
        ELSE IF ~start.synced THEN start
        ELSE Checked([start EXCEPT !.buffer = @ \o data])

addData_NeverSynced(acc, data, payload_unit_start) ==
    LET start == IF payload_unit_start THEN Started ELSE acc
    IN  IF data = <<>> THEN acc
        ELSE Checked([start EXCEPT !.buffer = @ \o data])

addData(acc, data, payload_unit_start) ==
    LET start == IF payload_unit_start THEN Started ELSE acc
    IN  IF data = <<>> THEN acc
        ELSE IF ~start.synced THEN start
        ELSE Checked([start EXCEPT !.buffer = @ \o data])

-----------------------------------------------------------------------------
(***************************************************************************)
(* PESManager::getAccumulator(), and addData() called on what it returns.  *)
(***************************************************************************)
getAccumulator(pid) ==
    IF pid \in DOMAIN accumulators THEN accumulators[pid] ELSE Reset

With(pid, acc) ==
    [q \in DOMAIN accumulators \cup {pid} |->
        IF q = pid THEN acc ELSE accumulators[q]]

Added(pid, data, start) ==
    accumulators' = With(pid, addData(getAccumulator(pid), data, start))

\* The sender's next packet on pid has payload data, start says whether it
\* begins unit u; its fate: it is added, lost, or added twice.
Arrives(pid, u, data, start) ==
    /\ Added(pid, data, start)
    /\ whole' = [whole EXCEPT ![pid] =
                    IF start THEN {[unit |-> u, n |-> Len(data)]}
                    ELSE IF clean[pid]
                    THEN {[w EXCEPT !.n = @ + Len(data)] : w \in whole[pid]}
                    ELSE {}]
    /\ clean' = [clean EXCEPT ![pid] = start \/ clean[pid]]
    /\ UNCHANGED disturbances

IsLost(pid) ==
    /\ disturbances < MaxDisturbances
    /\ disturbances' = disturbances + 1
    /\ clean' = [clean EXCEPT ![pid] = FALSE]
    /\ UNCHANGED <<accumulators, whole>>

\* A start that comes twice begins the unit again.
ArrivesTwice(pid, u, data, start) ==
    /\ disturbances < MaxDisturbances
    /\ disturbances' = disturbances + 1
    /\ accumulators' =
          With(pid, addData(addData(getAccumulator(pid), data, start),
                            data, start))
    /\ whole' = [whole EXCEPT ![pid] =
                    IF start THEN {[unit |-> u, n |-> Len(data)]} ELSE {}]
    /\ clean' = [clean EXCEPT ![pid] = start]

Send(pid, u, data, start) ==
    /\ packets < MaxPackets
    /\ packets' = packets + 1
    /\ \/ Arrives(pid, u, data, start)
       \/ IsLost(pid)
       \/ ArrivesTwice(pid, u, data, start)
    /\ UNCHANGED <<packet, garbage, taken>>

\* A unit begins when the one before it has been sent.
StartUnit(pid, u, k) ==
    /\ rest[pid] = <<>>
    /\ k <= Size[u]
    /\ rest' = [rest EXCEPT ![pid] = SubSeq(Cells(u), k + 1, Size[u])]
    /\ Send(pid, u, SubSeq(Cells(u), 1, k), TRUE)

ContinueUnit(pid, k) ==
    /\ k <= Len(rest[pid])
    /\ rest' = [rest EXCEPT ![pid] = SubSeq(@, k + 1, Len(@))]
    /\ Send(pid, Head(rest[pid]).unit, SubSeq(rest[pid], 1, k), FALSE)

\* addData() ignores a payload of no bytes, even one marked as a start.
EmptyPayload(pid, start) ==
    /\ packets < MaxPackets
    /\ disturbances < MaxDisturbances
    /\ packets' = packets + 1
    /\ disturbances' = disturbances + 1
    /\ Added(pid, <<>>, start)
    /\ UNCHANGED <<packet, garbage, rest, history>>

-----------------------------------------------------------------------------
(***************************************************************************)
(* The user's calls.                                                       *)
(***************************************************************************)
sender == <<garbage, rest, packets, disturbances>>

\* getPacket() of a complete packet: it succeeds if the header parses, and
\* leaves the accumulator as it is if not.
GetPacket(pid) ==
    LET acc == accumulators[pid]
        ok == parseHeader(acc.buffer)
    IN  /\ pid \in DOMAIN accumulators
        /\ acc.complete
        /\ packet' = parsePacket(packet, acc.buffer)
        /\ accumulators' = With(pid, IF ok THEN Reset ELSE acc)
        /\ whole' = [whole EXCEPT ![pid] = IF ok THEN {} ELSE @]
        /\ taken' = IF ok THEN {[whole |-> whole[pid], clean |-> clean[pid]]}
                    ELSE {}
        /\ UNCHANGED <<sender, clean>>

\* reset() of the accumulator getAccumulator() returns or creates.
ResetAccumulator(pid) ==
    /\ accumulators' = With(pid, Reset)
    /\ whole' = [whole EXCEPT ![pid] = {}]
    /\ UNCHANGED <<packet, sender, clean, taken>>

removeAccumulator(pid) ==
    /\ accumulators' = [q \in DOMAIN accumulators \ {pid} |-> accumulators[q]]
    /\ whole' = [whole EXCEPT ![pid] = {}]
    /\ UNCHANGED <<packet, sender, clean, taken>>

\* PESManager::clear()
ClearManager ==
    /\ accumulators' = <<>>
    /\ whole' = [pid \in Pid |-> {}]
    /\ UNCHANGED <<packet, sender, clean, taken>>

EmptyPacket == [has_optional_fields |-> FALSE, timestamps |-> 0,
                pts |-> <<>>, dts |-> <<>>, payload |-> <<>>]

\* PESPacket::clear(), or another PESPacket.
ClearPacket ==
    /\ packet' = EmptyPacket
    /\ taken' = {}
    /\ UNCHANGED <<accumulators, sender, whole, clean>>

Init ==
    /\ accumulators = <<>>
    /\ packet = EmptyPacket
    /\ garbage \in GarbageHeaders
    /\ rest = [pid \in Pid |-> <<>>]
    /\ packets = 0 /\ disturbances = 0
    /\ whole = [pid \in Pid |-> {}]
    /\ clean = [pid \in Pid |-> TRUE]
    /\ taken = {}

Next ==
    \/ \E pid \in Pid, u \in Unit, k \in 1..PayloadSize : StartUnit(pid, u, k)
    \/ \E pid \in Pid, k \in 1..PayloadSize : ContinueUnit(pid, k)
    \/ \E pid \in Pid, start \in BOOLEAN : EmptyPayload(pid, start)
    \/ \E pid \in Pid : GetPacket(pid)
    \/ \E pid \in Pid : ResetAccumulator(pid)
    \/ \E pid \in Pid : removeAccumulator(pid)
    \/ ClearManager
    \/ ClearPacket

Spec == Init /\ [][Next]_vars

-----------------------------------------------------------------------------
timestampDifference(ts1, ts2) ==
    LET diff == ts2 - ts1
    IN  IF diff > TsModulus \div 2 THEN diff - TsModulus
        ELSE IF diff < -(TsModulus \div 2) THEN diff + TsModulus
        ELSE diff

-----------------------------------------------------------------------------
(***************************************************************************)
(* Properties.                                                             *)
(***************************************************************************)
Whole == [unit : Unit, n : Nat]

Types ==
    /\ DOMAIN accumulators \subseteq Pid
    /\ accumulators \in [DOMAIN accumulators -> Accumulator]
    /\ packet \in PESPacket
    /\ garbage \in GarbageHeaders
    /\ rest \in [Pid -> Seq(Cell)]
    /\ packets \in 0..MaxPackets /\ disturbances \in 0..MaxDisturbances
    /\ whole \in [Pid -> SUBSET Whole]
    /\ clean \in [Pid -> BOOLEAN]
    /\ taken \in SUBSET [whole : SUBSET Whole, clean : BOOLEAN]

\* The types, and what is complete has begun with the start of a unit: bytes
\* that come before the first start are never taken for a packet.
TypeOK ==
    /\ Types
    /\ \A pid \in DOMAIN accumulators :
          accumulators[pid].complete => accumulators[pid].synced

\* The first n cells of a unit make a complete packet.
CompletePrefix(u, n) ==
    IF Unbounded(u) THEN n >= getHeaderSize(HeaderOf[u]) ELSE n = Size[u]

\* Of a unit none of whose bytes so far was lost or repeated the accumulator
\* holds exactly these bytes, whatever was added before it and wherever it was
\* cut, also inside its header; it is complete (addData() has returned true)
\* with its last byte and not before, an unbounded one with its header.
IntactUnitIsHeld ==
    \A pid \in Pid : \A w \in whole[pid] :
        /\ pid \in DOMAIN accumulators
        /\ accumulators[pid].buffer = SubSeq(Cells(w.unit), 1, w.n)
        /\ accumulators[pid].complete <=> CompletePrefix(w.unit, w.n)

\* What getPacket() returns is one unit from its start on, all of it if it is
\* bounded, if no payload was lost or repeated since the unit's start: no call
\* of the user's and no other PID makes it mix units or begin in the middle of
\* one.  Of an unbounded unit it may return less than it should: that is
\* UnboundedUnitIsWhole below.
TakenIsUnit ==
    \A t \in taken : t.clean =>
        \E w \in t.whole :
            /\ CompletePrefix(w.unit, w.n)
            /\ packet.payload =
                  SubSeq(Cells(w.unit), getHeaderSize(HeaderOf[w.unit]) + 1,
                         w.n)

\* Where the timestamps are in a unit: behind the flags, the PTS first.
PTSOf(u) == SubSeq(Cells(u), FlagsSize + 1, FlagsSize + TimestampSize)
DTSOf(u) == SubSeq(Cells(u), FlagsSize + TimestampSize + 1,
                   FlagsSize + 2 * TimestampSize)

\* The timestamps of a packet with optional fields are those of its own
\* header, although the PESPacket still has those of the packet before it.
TimestampsAreOwn ==
    \A t \in taken : \A w \in t.whole :
        LET h == HeaderOf[w.unit]
        IN  /\ packet.has_optional_fields = h.has_optional_fields
            /\ h.has_optional_fields =>
                  /\ packet.timestamps = h.timestamps
                  /\ h.timestamps >= 1 => packet.pts = PTSOf(w.unit)
                  /\ h.timestamps = 2 => packet.dts = DTSOf(w.unit)

\* "handles wraparound" (mpegts_pes.hpp:74): of two timestamps of a clock that
\* is less than half its period further, or back, the difference is by how
\* much, wherever the clock wrapped.
TimestampDifferenceIsAdvance ==
    \A t \in 0..(TsModulus - 1), d \in -TsModulus..TsModulus :
        2 * d < TsModulus /\ -2 * d < TsModulus =>
            timestampDifference(t, (t + d) % TsModulus) = d

-----------------------------------------------------------------------------
\* "The actual payload will continue until the next PUSI" (mpegts_pes.cpp:252),
\* "Get completed PES packet" (mpegts_pes.hpp:278): an undisturbed unbounded
\* unit that getPacket() returns is all there.  The code does not wait for the
\* next start but takes the unit for complete with its header, and getPacket()
\* then resets the accumulator, which ignores the rest.
UnboundedUnitIsWhole ==
    \A t \in taken : t.clean =>
        \A w \in t.whole : Unbounded(w.unit) =>
            packet.payload =
               SubSeq(Cells(w.unit), getHeaderSize(HeaderOf[w.unit]) + 1,
                      Size[w.unit])
=============================================================================
