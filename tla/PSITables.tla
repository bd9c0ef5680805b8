------------------------------ MODULE PSITables ------------------------------
(***************************************************************************)
(* MPEGTSDemuxer::processPSIPacket: the PAT and the PMTs the demuxer makes *)
(* of the packets of PID 0 and of the PIDs the PAT gives to programs, fed  *)
(* by a multiplexer that cuts sections into packets as the standard allows.*)
(* A packet may be lost or sent twice.                                     *)
(***************************************************************************)
EXTENDS PSIAccumulator

CONSTANTS
    Pid,             \* the PIDs sections are sent on; PatPid is one
    PatPid,          \* 0x0000
    Pats, Pmts,      \* the sections parsePAT() and parsePMT() understand
    Programs,        \* [Pats -> SUBSET (program number \X Pid)]
    Program,         \* [Pmts -> program number]: its table_id_extension
    Sendable,        \* the <<pid, section>> the multiplexer may send
    PayloadSize,     \* bytes in the payload of a packet: 184
    MaxPackets,      \* bound: how many packets are sent
    MaxDisturbances  \* bound: how many of them are lost, repeated or empty

ProgramNumber == Nat   \* 0 is the network PID, no program

ASSUME TablesAssumption ==
    /\ PatPid \in Pid
    /\ Pats \subseteq Section /\ Pmts \subseteq Section
    /\ Pats \cap Pmts = {}
    /\ Programs \in [Pats -> SUBSET (ProgramNumber \X Pid)]
    /\ Program \in [Pmts -> ProgramNumber]
    /\ Sendable \subseteq Pid \X Section
    /\ \A e \in Sendable : IF e[1] = PatPid THEN e[2] \notin Pmts
                           ELSE e[2] \notin Pats
    /\ PayloadSize \in Nat \ 0..1
    /\ MaxPackets \in Nat /\ MaxDisturbances \in Nat

VARIABLES
    pat_accumulator,
    pmt_accumulators,   \* PID -> accumulator
    parsed_pat,         \* std::optional<PAT>: {} or {the PAT}
    parsed_pmts         \* program number -> PMT

tables == <<pat_accumulator, pmt_accumulators, parsed_pat, parsed_pmts>>

(***************************************************************************)
(* The multiplexer, and history variables for the properties.              *)
(***************************************************************************)
VARIABLES
    rest,          \* PID -> the cells of its section not sent yet
    last,          \* the last packet sent, or none: {} or {the packet}
    packets, disturbances,
    whole,         \* PID -> {s} if all packets of its section s so far were
                   \* processed in order, none but the first more than
                   \* once, and the demuxer listened to the PID; else {}
    plain,         \* PID -> the pointer field of that first packet pointed
                   \* at s, and no PAT has named the PID since
    finished,      \* what the last packet completed: [section, plain]
    received       \* PID -> the cells of sections that have been processed

history == <<whole, plain, finished, received>>
vars == <<tables, rest, last, packets, disturbances, history>>

-----------------------------------------------------------------------------
ProgramPids_WithNIT(pat) == {entry[2] : entry \in Programs[pat]}

\* The PIDs of a PAT's programs; program number 0 is the network PID.
ProgramPids(pat) ==
    {entry[2] : entry \in {e \in Programs[pat] : e[1] # 0}}

ListensTo(pid) == pid = PatPid \/ pid \in DOMAIN pmt_accumulators

parsePAT(cells) == Parses(cells, Pats)
parsePMT(cells) == Parses(cells, Pmts)

\* The PAT or PMT the accumulator holds in full, if it does.
PATIn(acc) == IF Ready(acc) THEN parsePAT(getSection(acc)) ELSE {}
PMTIn(acc) == IF Ready(acc) THEN parsePMT(getSection(acc)) ELSE {}

Listed(pats) == UNION {ProgramPids(pat) : pat \in pats}

Taken_WithRest(acc) ==
    IF Ready(acc)
    THEN [Reset EXCEPT !.buffer = SubSeq(acc.buffer, acc.expected_length + 1,
                                         Len(acc.buffer)),
                       !.synced = TRUE]
    ELSE acc

\* The accumulator after a section that is complete has been taken from it.
Taken(acc) == IF Ready(acc) THEN Reset ELSE acc

\* Every PID of a program gets a new accumulator, also one that has one.
NewAccumulators(pats) ==
    [pid \in DOMAIN pmt_accumulators \cup Listed(pats) |->
        IF pid \in Listed(pats) THEN Reset ELSE pmt_accumulators[pid]]

ProcessPAT(p) ==
    \E acc \in addData(pat_accumulator, p.data, p.start) :
        LET pats == PATIn(acc)
        IN  /\ pat_accumulator' = Taken(acc)
            /\ parsed_pat' = IF pats = {} THEN parsed_pat ELSE pats
            /\ pmt_accumulators' = NewAccumulators(pats)
            /\ UNCHANGED parsed_pmts

Key_Pid(p, s) == p.pid

\* What a PMT from packet p is kept under.
Key(p, s) == Program[s]

ProcessPMT(p) ==
    \E acc \in addData(pmt_accumulators[p.pid], p.data, p.start) :
        LET pmts == PMTIn(acc)
            numbers == {Key(p, s) : s \in pmts}
        IN  /\ pmt_accumulators' =
                   [pmt_accumulators EXCEPT ![p.pid] = Taken(acc)]
            /\ parsed_pmts' =
                   [n \in DOMAIN parsed_pmts \cup numbers |->
                       IF n \in numbers THEN CHOOSE s \in pmts : TRUE
                       ELSE parsed_pmts[n]]
            /\ UNCHANGED <<pat_accumulator, parsed_pat>>

processPSIPacket(p) ==
    IF p.pid = PatPid THEN ProcessPAT(p)
    ELSE IF p.pid \in DOMAIN pmt_accumulators THEN ProcessPMT(p)
    ELSE UNCHANGED tables

-----------------------------------------------------------------------------
\* The PIDs whose accumulators packet p replaces.
Replaced(p) ==
    {pid \in DOMAIN pmt_accumulators' :
        /\ p.pid = PatPid
        /\ \E acc \in addData(pat_accumulator, p.data, p.start) :
               pid \in Listed(PATIn(acc))}

\* p is processed: it completes the sections done, and w is whole from now on
\* on its PID, begun as pl says.
Deliver(p, done, w, pl) ==
    /\ processPSIPacket(p)
    /\ whole' = [whole EXCEPT ![p.pid] = w]
    /\ plain' = [pid \in Pid |-> IF pid = p.pid THEN pl
                                 ELSE plain[pid] /\ pid \notin Replaced(p)]
    /\ finished' = done
    /\ received' = [received EXCEPT ![p.pid] =
                       @ \cup {p.data[i] : i \in
                            {j \in DOMAIN p.data : p.data[j] \in SectionCell}}]

\* p is lost, and with it the section it is from.
Lose(p) ==
    /\ whole' = [whole EXCEPT ![p.pid] = {}]
    /\ plain' = [plain EXCEPT ![p.pid] = FALSE]
    /\ finished' = {}
    /\ UNCHANGED <<tables, received>>

Send(p, done, w, pl) ==
    /\ packets < MaxPackets
    /\ packets' = packets + 1
    /\ last' = {p}
    /\ \/ Deliver(p, done, w, pl) /\ UNCHANGED disturbances
       \/ /\ disturbances < MaxDisturbances
          /\ disturbances' = disturbances + 1
          /\ Lose(p)

Filled(data) == [i \in 1..PayloadSize |->
                    IF i <= Len(data) THEN data[i] ELSE Stuffing]

\* A packet with payload_unit_start: lead, what the pointer field skips of it,
\* then section s as far as it fits.
StartPacket(pid, skip, lead, s) ==
    [pid |-> pid, start |-> TRUE,
     data |-> Filled(<<[skip |-> skip]>> \o (lead \o Cells(s)))]

RestBehind(n, s) == SubSeq(Cells(s), n + 1, Size[s])

Done(sections, pl) == {[section |-> s, plain |-> pl] : s \in sections}

\* A section begins, in the packet in which the one before ends if that is
\* not all sent.
StartSection(pid, s) ==
    LET lead == rest[pid]
        more == RestBehind(PayloadSize - 1 - Len(lead), s)
        begun == IF ListensTo(pid) THEN {s} ELSE {}
    IN  /\ <<pid, s>> \in Sendable
        /\ Len(lead) + 1 < PayloadSize
        /\ rest' = [rest EXCEPT ![pid] = more]
        /\ Send(StartPacket(pid, Len(lead), lead, s),
                (IF lead # <<>> THEN Done(whole[pid], FALSE) ELSE {})
                    \cup (IF more = <<>> THEN Done(begun, TRUE) ELSE {}),
                IF more = <<>> THEN {} ELSE begun,
                more # <<>> /\ begun # {})

\* Two sections begin in one packet; the pointer field points at the first.
StartTwoSections(pid, s, t) ==
    LET more == RestBehind(PayloadSize - 1 - Size[s], t)
        begun(u) == IF ListensTo(pid) THEN {u} ELSE {}
    IN  /\ {<<pid, s>>, <<pid, t>>} \subseteq Sendable
        /\ rest[pid] = <<>>
        /\ Size[s] + 1 < PayloadSize
        /\ rest' = [rest EXCEPT ![pid] = more]
        /\ Send(StartPacket(pid, 0, Cells(s), t),
                Done(begun(s), TRUE)
                    \cup (IF more = <<>> THEN Done(begun(t), FALSE) ELSE {}),
                IF more = <<>> THEN {} ELSE begun(t), FALSE)

\* The section goes on, with stuffing behind its end.
ContinueSection(pid) ==
    LET more == SubSeq(rest[pid], PayloadSize + 1, Len(rest[pid]))
    IN  /\ rest[pid] # <<>>
        /\ rest' = [rest EXCEPT ![pid] = more]
        /\ Send([pid |-> pid, start |-> FALSE, data |-> Filled(rest[pid])],
                IF more = <<>> THEN Done(whole[pid], plain[pid]) ELSE {},
                IF more = <<>> THEN {} ELSE whole[pid],
                more # <<>> /\ plain[pid])

\* The last packet is processed once more.  A first packet starts again, any
\* other spoils the section.
RepeatPacket ==
    /\ disturbances < MaxDisturbances
    /\ disturbances' = disturbances + 1
    /\ \E p \in last :
           Deliver(p, {}, IF p.start THEN whole[p.pid] ELSE {},
                   p.start /\ plain[p.pid])
    /\ UNCHANGED <<rest, last, packets>>

\* A packet with a payload of no bytes.
EmptyPacket(pid, start) ==
    /\ disturbances < MaxDisturbances
    /\ disturbances' = disturbances + 1
    /\ Deliver([pid |-> pid, start |-> start, data |-> <<>>], {},
               IF start THEN {} ELSE whole[pid], ~start /\ plain[pid])
    /\ UNCHANGED <<rest, last, packets>>

Init ==
    /\ pat_accumulator = Reset
    /\ pmt_accumulators = <<>>
    /\ parsed_pat = {}
    /\ parsed_pmts = <<>>
    /\ rest = [pid \in Pid |-> <<>>]
    /\ last = {}
    /\ packets = 0 /\ disturbances = 0
    /\ whole = [pid \in Pid |-> {}]
    /\ plain = [pid \in Pid |-> FALSE]
    /\ finished = {}
    /\ received = [pid \in Pid |-> {}]

Next ==
    \/ \E pid \in Pid, s \in Section : StartSection(pid, s)
    \/ \E pid \in Pid, s, t \in Section : StartTwoSections(pid, s, t)
    \/ \E pid \in Pid : ContinueSection(pid)
    \/ RepeatPacket
    \/ \E pid \in Pid, start \in BOOLEAN : EmptyPacket(pid, start)

Spec == Init /\ [][Next]_vars

-----------------------------------------------------------------------------
\* A packet with payload: behind the pointer field, if there is one, are cells.
Packet ==
    {p \in [pid : Pid, start : BOOLEAN, data : Seq(Cell \cup Pointer)] :
        IF p.start /\ p.data # <<>>
        THEN Head(p.data) \in Pointer /\ Tail(p.data) \in Seq(Cell)
        ELSE p.data \in Seq(Cell)}

\* Types; also that the tables are keyed as the code keys them and that
\* between packets an accumulator is empty unless it is synchronized.
AccumulatorsTypeOK ==
    /\ pat_accumulator \in Accumulator
    /\ DOMAIN pmt_accumulators \subseteq Pid
    /\ pmt_accumulators \in [DOMAIN pmt_accumulators -> Accumulator]

ParsedTypeOK ==
    /\ parsed_pat \subseteq Pats /\ \A s, t \in parsed_pat : s = t
    /\ DOMAIN parsed_pmts \subseteq ProgramNumber
    /\ \A n \in DOMAIN parsed_pmts :
           parsed_pmts[n] \in Pmts /\ Program[parsed_pmts[n]] = n

MultiplexerTypeOK ==
    /\ rest \in [Pid -> Seq(SectionCell)]
    /\ last \subseteq Packet
    /\ packets \in 0..MaxPackets /\ disturbances \in 0..MaxDisturbances

HistoryTypeOK ==
    /\ whole \in [Pid -> SUBSET Section]
    /\ plain \in [Pid -> BOOLEAN]
    /\ finished \subseteq [section : Section, plain : BOOLEAN]
    /\ received \in [Pid -> SUBSET SectionCell]

\* Every variable has its type, and a PMT is kept under its own program number
\* (demuxer.cpp 588).
TypeOK == /\ AccumulatorsTypeOK
          /\ ParsedTypeOK
          /\ MultiplexerTypeOK
          /\ HistoryTypeOK

InTables(s) ==
    /\ s \in Pats => s \in parsed_pat
    /\ s \in Pmts => /\ Program[s] \in DOMAIN parsed_pmts
                     /\ parsed_pmts[Program[s]] = s

\* What came before does not matter: a section whose packets were all
\* processed in order, the first one perhaps repeated, is in the tables as
\* soon as its last packet has been processed, whatever was lost, repeated or
\* left unfinished earlier.  Not meant are the sections the code loses: one
\* that is not the first to begin in its packet, one that ends in a packet in
\* which another begins, and a PMT between whose packets a PAT came that names
\* its PID.
IntactSectionIsParsed ==
    \A f \in finished : f.plain => InTables(f.section)

\* PSIAccumulator "accumulates PSI sections from multiple TS packets"
\* (psi.hpp 248): every section whose packets were all processed in order, and
\* with which no other ends, is in the tables then.  The code does not
\* guarantee this.
SplitSectionIsParsed ==
    \A f \in finished : finished = {f} => InTables(f.section)

\* The cells of section s have all been received on the PID.
ReceivedOn(pid, s) == \A i \in 1..Size[s] : Cells(s)[i] \in received[pid]

\* The PID belongs to a program of a PAT that was received.
ProgramPid(pid) ==
    \E pat \in Pats :
        /\ ReceivedOn(PatPid, pat)
        /\ \E entry \in Programs[pat] : entry[1] # 0 /\ entry[2] = pid

\* Nothing is glued together: a PAT or PMT in the tables is a section every
\* byte of which was received, on PID 0 or on a PID that a PAT, itself received
\* in full, gives to a program (not to the network PID).  Sections that lost
\* packets, and packets of two sections in one buffer, must not get past the
\* CRC.
OnlyReceivedSections ==
    /\ \A s \in parsed_pat : ReceivedOn(PatPid, s)
    /\ \A n \in DOMAIN parsed_pmts :
           \E pid \in Pid : ProgramPid(pid) /\ ReceivedOn(pid, parsed_pmts[n])

NothingWaits(acc) ==
    /\ ~acc.complete
    /\ ~acc.synced => acc.buffer = <<>>
    /\ Len(acc.buffer) < IF acc.expected_length = 0 THEN 3
                         ELSE acc.expected_length

\* Between packets no accumulator holds a complete section or more than an
\* unfinished one, and none that waits for a unit start holds anything: the
\* buffers do not grow when a section's end is lost.
NothingCompleteWaits ==
    /\ NothingWaits(pat_accumulator)
    /\ \A pid \in DOMAIN pmt_accumulators : NothingWaits(pmt_accumulators[pid])
=============================================================================
