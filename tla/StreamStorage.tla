---------------------------- MODULE StreamStorage ----------------------------
(***************************************************************************)
(* What the demuxer keeps of the packets it has parsed: the iterations     *)
(* being accumulated per PID (MPEGTSDemuxer: current_iterations_,          *)
(* current_iteration_ids_, last_cc_), the finished ones (class             *)
(* DemuxerStreamStorage, one StreamIterations per PID), the program table  *)
(* that filters PIDs, and the user's calls that read or clear them.        *)
(*                                                                         *)
(* A packet is its header and the two lengths the storage looks at; the    *)
(* bytes themselves are identified by the packet's arrival number, so a    *)
(* payload segment says which packet it came from.  Not modelled: fields   *)
(* nothing reads or nothing writes (observed_cc_values_, is_complete,      *)
(* buffer_position).                                                       *)
(*                                                                         *)
(* An operator whose name ends in _Something is its namesake with a        *)
(* mistake in it; no specification uses one, they are there to show which  *)
(* property notices the mistake.                                           *)
(***************************************************************************)
EXTENDS Integers, Sequences, FiniteSets, SequencesExt

CONSTANTS
    Pid,          \* the PIDs of the stream and of the user's calls
    SystemPid,    \* those isSystemPID() filters out
    Packets,      \* the packets that may arrive
    Tables,       \* the PID sets setProgramsTable() may be given
    MaxPackets,   \* bound: how many packets arrive
    IdModulus     \* uint32_t iteration ids: 2^32 in the build

CC == 0..15       \* continuity counter, 4 bits

Packet == [pid : Pid, pusi : BOOLEAN, cc : CC, disc : BOOLEAN,
           priv : Nat,    \* length of transport private data, 0 if none
           pay : Nat]     \* length of the payload, 0 if none or empty

ASSUME ConstantsAssumption ==
    /\ SystemPid \subseteq Pid
    /\ Packets \subseteq Packet
    /\ Tables \subseteq SUBSET Pid
    /\ MaxPackets \in Nat
    /\ IdModulus \in Nat
    /\ MaxPackets + 1 < IdModulus   \* no run generates 2^32 ids

VARIABLES
    streams,                   \* storage_.streams_: PID -> its iterations
    next_iteration_id,         \* storage_.next_iteration_id_
    current_iterations,        \* PID -> IterationData being accumulated
    current_iteration_ids,     \* PID -> the id it will be stored under
    last_cc,                   \* PID -> continuity counter last stored
    programs_table_available,
    known_program_pids,
    alive                      \* FALSE once the process has crashed

storageVars == <<streams, next_iteration_id>>
currentVars == <<current_iterations, current_iteration_ids, last_cc>>
tableVars   == <<programs_table_available, known_program_pids>>

(***************************************************************************)
(* History: what happened, for the properties only.                        *)
(***************************************************************************)
VARIABLES
    arrived,    \* every packet processed, in order (its length is
                \* total_packets_processed_)
    accepted,   \* numbers of the packets addPacketToStorage() kept
    owed,       \* those of them the user has not cleared since
    clearedAt,  \* how many packets had arrived at the last clearAll()
    tableAt,    \* ... and at the last setProgramsTable()
    idsReset    \* ids restarted from 1 while an iteration was pending

historyVars == <<arrived, accepted, owed, clearedAt, tableAt, idsReset>>
vars == <<streams, next_iteration_id, current_iterations,
          current_iteration_ids, last_cc, programs_table_available,
          known_program_pids, alive, arrived, accepted, owed, clearedAt,
          tableAt, idsReset>>

-----------------------------------------------------------------------------
(***************************************************************************)
(* Data.                                                                   *)
(***************************************************************************)
Segment == [n : Nat, type : {"normal", "private"}, offset : Nat, length : Nat]

\* IterationData; payload_data is kept as its size.  pkts is history: the
\* numbers of the packets that were added to the iteration.
IterationData ==
    [payloads : Seq(Segment), payload_data : Nat,
     discontinuity_detected : BOOLEAN, payload_unit_start_seen : BOOLEAN,
     first_cc : CC, last_cc : CC, packet_count : Nat, pkts : Seq(Nat)]

Entry == [id : 0..(IdModulus - 1), data : IterationData]

Put(f, k, v) == [x \in DOMAIN f \cup {k} |-> IF x = k THEN v ELSE f[x]]

PktsOf(d) == {d.pkts[i] : i \in DOMAIN d.pkts}
StoredPkts(s) == UNION {PktsOf(s[i].data) : i \in DOMAIN s}

-----------------------------------------------------------------------------
(***************************************************************************)
(* DemuxerStreamStorage and StreamIterations.                              *)
(***************************************************************************)
getOrCreateStream(q) == IF q \in DOMAIN streams THEN streams[q] ELSE <<>>

generateIterationID_Constant == next_iteration_id

generateIterationID == (next_iteration_id + 1) % IdModulus

\* 0 when the stream has no iteration of that id; the first one otherwise
IndexOf(s, id) == SelectInSeq(s, LAMBDA e : e.id = id)

removeIteration_All(s, id) == SelectSeq(s, LAMBDA e : e.id # id)

removeIteration(s, id) ==
    IF IndexOf(s, id) = 0 THEN s ELSE RemoveAt(s, IndexOf(s, id))

\* getAllPayloads(): <<>> for an unknown PID or id
getAllPayloads(q, id) ==
    LET s == getOrCreateStream(q)
    IN  IF IndexOf(s, id) = 0 THEN <<>> ELSE s[IndexOf(s, id)].data.payloads

\* The first segment of the type, as a sequence of at most one
FirstOfType(payloads, type) ==
    LET ofType == SelectSeq(payloads, LAMBDA g : g.type = type)
    IN  IF ofType = <<>> THEN <<>> ELSE <<Head(ofType)>>

getPayload(q, id, type) == FirstOfType(getAllPayloads(q, id), type)

Finalized_Overwrites(P) ==
    [q \in DOMAIN streams \cup P |->
        IF q \in P
        THEN <<[id |-> current_iteration_ids[q],
                data |-> current_iterations[q]]>>
        ELSE streams[q]]

Finalized_Prepends(P) ==
    [q \in DOMAIN streams \cup P |->
        IF q \in P
        THEN <<[id |-> current_iteration_ids[q],
                data |-> current_iterations[q]]>> \o getOrCreateStream(q)
        ELSE streams[q]]

\* The streams once finalizeIteration() has been called for every PID of P
Finalized(P) ==
    [q \in DOMAIN streams \cup P |->
        IF q \in P
        THEN Append(getOrCreateStream(q),
                    [id |-> current_iteration_ids[q],
                     data |-> current_iterations[q]])
        ELSE streams[q]]

-----------------------------------------------------------------------------
(***************************************************************************)
(* addPacketToStorage(), called by processBuffer() for each packet.        *)
(***************************************************************************)
Accepts_IgnoresTable(p) == p.pid \notin SystemPid

Accepts(p) ==
    /\ p.pid \notin SystemPid
    /\ programs_table_available => p.pid \in known_program_pids

NewIteration_DefaultCc(p) ==
    [payloads |-> <<>>, payload_data |-> 0,
     discontinuity_detected |-> FALSE, payload_unit_start_seen |-> p.pusi,
     first_cc |-> 0, last_cc |-> 0, packet_count |-> 0, pkts |-> <<>>]

NewIteration(p) ==
    [payloads |-> <<>>, payload_data |-> 0,
     discontinuity_detected |-> FALSE, payload_unit_start_seen |-> p.pusi,
     first_cc |-> p.cc, last_cc |-> 0, packet_count |-> 0, pkts |-> <<>>]

Discontinuity_NoWrap(p) ==
    /\ p.pid \in DOMAIN last_cc
    /\ p.cc # last_cc[p.pid] + 1
    /\ p.disc

\* The counter jumped and the packet announces it.
Discontinuity(p) ==
    /\ p.pid \in DOMAIN last_cc
    /\ p.cc # (last_cc[p.pid] + 1) % 16
    /\ p.disc

Segments_SameOffset(p, n, size) ==
    (IF p.priv > 0
     THEN <<[n |-> n, type |-> "private", offset |-> size, length |-> p.priv]>>
     ELSE <<>>)
    \o
    (IF p.pay > 0
     THEN <<[n |-> n, type |-> "normal", offset |-> size, length |-> p.pay]>>
     ELSE <<>>)

\* Private data first, then the payload, each behind what is already stored.
Segments(p, n, size) ==
    (IF p.priv > 0
     THEN <<[n |-> n, type |-> "private", offset |-> size, length |-> p.priv]>>
     ELSE <<>>)
    \o
    (IF p.pay > 0
     THEN <<[n |-> n, type |-> "normal", offset |-> size + p.priv,
             length |-> p.pay]>>
     ELSE <<>>)

Extended(d, p, n) ==
    [payloads |-> d.payloads \o Segments(p, n, d.payload_data),
     payload_data |-> d.payload_data + p.priv + p.pay,
     discontinuity_detected |-> d.discontinuity_detected \/ Discontinuity(p),
     payload_unit_start_seen |-> d.payload_unit_start_seen,
     first_cc |-> d.first_cc,
     last_cc |-> p.cc,
     packet_count |-> d.packet_count + 1,
     pkts |-> Append(d.pkts, n)]

\* A packet of a system PID, or of a PID the table does not list.
SkipPacket(p) ==
    /\ ~Accepts(p)
    /\ UNCHANGED <<storageVars, currentVars, accepted, owed>>

Closes_Nothing(p) == {}

\* A unit start closes the iteration its PID has pending.
Closes(p) == IF p.pusi THEN {p.pid} \cap DOMAIN current_iterations ELSE {}

\* The first packet of its PID, or one that starts a new unit.
StartIteration(p) ==
    LET n == Len(arrived) + 1
    IN  /\ Accepts(p)
        /\ p.pid \notin DOMAIN current_iterations \/ p.pusi
        /\ streams' = Finalized(Closes(p))
        /\ current_iteration_ids' =
              Put(current_iteration_ids, p.pid, next_iteration_id)
        /\ next_iteration_id' = generateIterationID
        /\ current_iterations' =
              Put(current_iterations, p.pid, Extended(NewIteration(p), p, n))
        /\ last_cc' = Put(last_cc, p.pid, p.cc)
        /\ accepted' = accepted \cup {n}
        /\ owed' = owed \cup {n}

ContinueIteration(p) ==
    LET n == Len(arrived) + 1
    IN  /\ Accepts(p)
        /\ p.pid \in DOMAIN current_iterations /\ ~p.pusi
        /\ current_iterations' =
              Put(current_iterations, p.pid,
                  Extended(current_iterations[p.pid], p, n))
        /\ last_cc' = Put(last_cc, p.pid, p.cc)
        /\ accepted' = accepted \cup {n}
        /\ owed' = owed \cup {n}
        /\ UNCHANGED <<storageVars, current_iteration_ids>>

AddPacket(p) ==
    /\ alive
    /\ Len(arrived) < MaxPackets
    /\ arrived' = Append(arrived, p)
    /\ SkipPacket(p) \/ StartIteration(p) \/ ContinueIteration(p)
    /\ UNCHANGED <<tableVars, alive, clearedAt, tableAt, idsReset>>

-----------------------------------------------------------------------------
(***************************************************************************)
(* The user's calls.                                                       *)
(***************************************************************************)

FinalizeAllIterations_KeepsIds ==
    /\ alive
    /\ streams' = Finalized(DOMAIN current_iterations)
    /\ current_iterations' = <<>>
    /\ UNCHANGED <<current_iteration_ids, next_iteration_id, last_cc,
                   tableVars, alive, historyVars>>

\* getPrograms(), getDiscoveredPIDs() and getIterationsSummary() are const
\* but finish every pending iteration first.
FinalizeAllIterations ==
    /\ alive
    /\ streams' = Finalized(DOMAIN current_iterations)
    /\ current_iterations' = <<>>
    /\ current_iteration_ids' = <<>>
    /\ UNCHANGED <<next_iteration_id, last_cc, tableVars, alive, historyVars>>

\* clearIteration() creates the stream if there is none.
ClearIteration(q, id) ==
    LET s == getOrCreateStream(q)
    IN  /\ alive
        /\ streams' = Put(streams, q, removeIteration(s, id))
        /\ owed' = owed \ (StoredPkts(s) \ StoredPkts(removeIteration(s, id)))
        /\ UNCHANGED <<next_iteration_id, currentVars, tableVars, alive,
                       arrived, accepted, clearedAt, tableAt, idsReset>>

\* clearStream() leaves the PID's pending iteration alone.
ClearStream(q) ==
    /\ alive
    /\ q \in DOMAIN streams
    /\ streams' = [streams EXCEPT ![q] = <<>>]
    /\ owed' = owed \ StoredPkts(streams[q])
    /\ UNCHANGED <<next_iteration_id, currentVars, tableVars, alive,
                   arrived, accepted, clearedAt, tableAt, idsReset>>

\* clearAll(), if it returns.
ClearAll ==
    /\ alive
    /\ streams' = <<>>
    /\ next_iteration_id' = 1
    /\ current_iterations' = <<>>
    /\ current_iteration_ids' = <<>>
    /\ last_cc' = <<>>
    /\ owed' = {}
    /\ clearedAt' = Len(arrived)
    /\ idsReset' = FALSE
    /\ UNCHANGED <<tableVars, alive, arrived, accepted, tableAt>>

\* clearAll() iterates over current_iterations_ while finalizeIteration()
\* erases the element the iterator is on.  With an iteration pending that is
\* undefined: the loop may happen to end, and all is cleared, or the process
\* crashes in it.  Nobody reads what a dead process held: it is left as it was
\* when clearAll() was called.
ClearAllCrashes ==
    /\ alive
    /\ DOMAIN current_iterations # {}
    /\ alive' = FALSE
    /\ UNCHANGED <<storageVars, currentVars, tableVars, historyVars>>

\* setProgramsTable() empties the storage, not what is being accumulated.
SetProgramsTable(K) ==
    /\ alive
    /\ programs_table_available' = TRUE
    /\ known_program_pids' = K
    /\ streams' = <<>>
    /\ next_iteration_id' = 1
    /\ owed' = UNION {PktsOf(current_iterations[q]) :
                         q \in DOMAIN current_iterations}
    /\ tableAt' = Len(arrived)
    /\ idsReset' = (DOMAIN current_iterations # {})
    /\ UNCHANGED <<currentVars, alive, arrived, accepted, clearedAt>>

-----------------------------------------------------------------------------
Init ==
    /\ streams = <<>>
    /\ next_iteration_id = 1
    /\ current_iterations = <<>>
    /\ current_iteration_ids = <<>>
    /\ last_cc = <<>>
    /\ programs_table_available = FALSE
    /\ known_program_pids = {}
    /\ alive = TRUE
    /\ arrived = <<>>
    /\ accepted = {}
    /\ owed = {}
    /\ clearedAt = 0
    /\ tableAt = 0
    /\ idsReset = FALSE

Next ==
    \/ \E p \in Packets : AddPacket(p)
    \/ FinalizeAllIterations
    \/ \E q \in Pid : \E id \in 0..MaxPackets : ClearIteration(q, id)
    \/ \E q \in Pid : ClearStream(q)
    \/ ClearAll
    \/ ClearAllCrashes
    \/ \E K \in Tables : SetProgramsTable(K)

Spec == Init /\ [][Next]_vars

-----------------------------------------------------------------------------
(***************************************************************************)
(* Properties.                                                             *)
(***************************************************************************)

StorageTypeOK ==
    /\ DOMAIN streams \subseteq Pid
    /\ streams \in [DOMAIN streams -> Seq(Entry)]
    /\ next_iteration_id \in 0..(IdModulus - 1)

CurrentTypeOK ==
    /\ DOMAIN current_iterations \subseteq Pid
    /\ current_iterations \in [DOMAIN current_iterations -> IterationData]
    /\ current_iteration_ids \in
          [DOMAIN current_iterations -> 0..(IdModulus - 1)]
    /\ DOMAIN last_cc \subseteq Pid
    /\ last_cc \in [DOMAIN last_cc -> CC]

TableTypeOK ==
    /\ programs_table_available \in BOOLEAN
    /\ known_program_pids \in SUBSET Pid
    /\ alive \in BOOLEAN

HistoryTypeOK ==
    /\ arrived \in Seq(Packets)
    /\ Len(arrived) <= MaxPackets
    /\ accepted \in SUBSET Nat
    /\ owed \in SUBSET Nat
    /\ clearedAt \in 0..Len(arrived)
    /\ tableAt \in 0..Len(arrived)
    /\ idsReset \in BOOLEAN

\* Every variable keeps its type; the two maps of what is being accumulated
\* (finalizeIteration erases from both) always have the same PIDs.
TypeOK == StorageTypeOK /\ CurrentTypeOK /\ TableTypeOK /\ HistoryTypeOK

\* The finished iterations of a PID followed by the pending one, if any.
Iterations(q) ==
    [i \in DOMAIN getOrCreateStream(q) |-> getOrCreateStream(q)[i].data]
    \o (IF q \in DOMAIN current_iterations
        THEN <<current_iterations[q]>> ELSE <<>>)

Ids(q) ==
    [i \in DOMAIN getOrCreateStream(q) |-> getOrCreateStream(q)[i].id]
    \o (IF q \in DOMAIN current_iterations
        THEN <<current_iteration_ids[q]>> ELSE <<>>)

\* Read in order, the iterations of a PID hold packets of that PID in strictly
\* increasing arrival order: whatever calls were made between the packets,
\* none is stored twice and none overtakes another (addPacketToStorage,
\* finalizeIteration and the getters that finalize).
PacketsInOrder ==
    \A q \in Pid : \A i \in DOMAIN Iterations(q) :
        \A k \in DOMAIN Iterations(q)[i].pkts :
            LET n == Iterations(q)[i].pkts[k]
            IN  /\ arrived[n].pid = q
                /\ \A l \in DOMAIN Iterations(q)[i].pkts :
                      k < l => n < Iterations(q)[i].pkts[l]
                /\ \A j \in DOMAIN Iterations(q) :
                      i < j => \A m \in PktsOf(Iterations(q)[j]) : n < m

\* Nothing is lost and nothing cleared comes back: the packets held, finished
\* or pending, are exactly those accepted and not cleared since by
\* clearIteration, clearStream, clearAll or setProgramsTable.
HeldIsOwed ==
    owed = UNION {UNION {PktsOf(Iterations(q)[i]) :
                            i \in DOMAIN Iterations(q)} : q \in Pid}

\* An iteration is one unit: only its first packet may have the payload unit
\* start flag, and the metadata IterationInfo reports (counters, count, flag)
\* is that of the packets it holds.
OneUnitPerIteration ==
    \A q \in Pid : \A i \in DOMAIN Iterations(q) :
        LET d == Iterations(q)[i]
        IN  /\ d.packet_count = Len(d.pkts) /\ d.packet_count > 0
            /\ \A k \in 2..Len(d.pkts) : ~arrived[d.pkts[k]].pusi
            /\ d.payload_unit_start_seen = arrived[Head(d.pkts)].pusi
            /\ d.first_cc = arrived[Head(d.pkts)].cc
            /\ d.last_cc = arrived[Last(d.pkts)].cc

\* The segments of an iteration tile its payload_data: the pointer that
\* addIteration() computes from a segment's offset lands on that segment's own
\* bytes, and every byte belongs to exactly one segment of the packet, private
\* data before payload, lengths as the packet had them.
SegmentsTilePayload ==
    \A q \in Pid : \A i \in DOMAIN Iterations(q) :
        LET d == Iterations(q)[i]
            End(k) == d.payloads[k].offset + d.payloads[k].length
            LengthOf(n, type) == IF type = "private" THEN arrived[n].priv
                                                     ELSE arrived[n].pay
        IN  /\ \A k \in DOMAIN d.payloads :
                   /\ d.payloads[k].offset = IF k = 1 THEN 0 ELSE End(k - 1)
                   /\ d.payloads[k].length =
                         LengthOf(d.payloads[k].n, d.payloads[k].type)
            /\ d.payload_data = IF d.payloads = <<>> THEN 0
                                ELSE End(Len(d.payloads))
            /\ \A n \in PktsOf(d) : \A type \in {"normal", "private"} :
                   Cardinality({k \in DOMAIN d.payloads :
                       d.payloads[k].n = n /\ d.payloads[k].type = type})
                     = IF LengthOf(n, type) > 0 THEN 1 ELSE 0

\* The packet of the same PID accepted before packet n, 0 if none since the
\* last clearAll().
Previous(n) ==
    LET before == {m \in accepted : /\ m < n /\ m > clearedAt
                                    /\ arrived[m].pid = arrived[n].pid}
    IN  IF before = {} THEN 0 ELSE Max(before)

CounterJumps(n) ==
    /\ Previous(n) # 0
    /\ arrived[n].cc # (arrived[Previous(n)].cc + 1) % 16

\* An iteration is flagged exactly when one of its packets announces a
\* discontinuity and its counter does not follow that of the PID's previous
\* packet, even if that packet is in an earlier, possibly cleared, iteration.
DiscontinuityIsAnnouncedJump ==
    \A q \in Pid : \A i \in DOMAIN Iterations(q) :
        Iterations(q)[i].discontinuity_detected
          <=> \E n \in PktsOf(Iterations(q)[i]) :
                 CounterJumps(n) /\ arrived[n].disc

\* No two iterations, of one PID or of two, finished or pending, have the same
\* id (IterationInfo: "Unique iteration ID").
UniqueIds ==
    \A q, r \in Pid : \A i \in DOMAIN Ids(q), j \in DOMAIN Ids(r) :
        Ids(q)[i] = Ids(r)[j] => q = r /\ i = j

\* Ids are unique unless setProgramsTable() restarted them while an iteration
\* was being accumulated.
UniqueIdsUnlessReset == ~idsReset => UniqueIds

\* System PIDs never hold a packet, and once a program table is set no other
\* PID gets one; of what arrived before the table only what was then being
\* accumulated is left (TableStartsAfresh: that should be gone, too).
TableFilters ==
    \A q \in Pid : \A i \in DOMAIN Iterations(q) :
        /\ q \notin SystemPid
        /\ programs_table_available =>
              \A n \in PktsOf(Iterations(q)[i]) :
                  IF n > tableAt THEN q \in known_program_pids ELSE idsReset

\* "Valid until clearIteration() or clearStream()" (ideas/todo.md): what
\* getAllPayloads() and getPayload() returned for a PID and an id they return
\* again after any packet and any getter; only the calls that clear change it.
PayloadsStayValid ==
    [][ (\/ \E p \in Packets : AddPacket(p)
         \/ FinalizeAllIterations)
        => \A q \in Pid : \A id \in 0..MaxPackets :
              getAllPayloads(q, id) # <<>> =>
                /\ getAllPayloads(q, id)' = getAllPayloads(q, id)
                /\ \A type \in {"normal", "private"} :
                      getPayload(q, id, type)' = getPayload(q, id, type)
      ]_vars

\* "PUSI flag indicates start of new PES/section" (mpegts_demuxer.cpp:239): an
\* iteration of one PID is closed by a unit start of that same PID or by a
\* user's call, never by a packet of another PID; and what is closed by either
\* is the PID's newest finished iteration, under the id it was given.  Tests
\* and design want more iterations than that: PacketPerIteration and
\* JumpStartsIteration below.
ClosedByOwnUnitStart ==
    [][ \A q \in DOMAIN current_iterations :
          (\/ q \notin DOMAIN current_iterations'
           \/ current_iterations'[q].first_cc # current_iterations[q].first_cc
           \/ current_iteration_ids'[q] # current_iteration_ids[q])
          => \/ streams' = <<>>
             \/ /\ \/ arrived' = arrived
                   \/ Last(arrived').pid = q /\ Last(arrived').pusi
                /\ q \in DOMAIN streams'
                /\ streams'[q] # <<>>
                /\ Last(streams'[q]) = [id |-> current_iteration_ids[q],
                                        data |-> current_iterations[q]]
      ]_vars

-----------------------------------------------------------------------------
(***************************************************************************)
(* What documents, comments and tests promise and the code does not keep.  *)
(***************************************************************************)

\* "Finalize all pending iterations using safe method" (mpegts_demuxer.cpp:18):
\* a call that finishes pending iterations returns, clearAll() too.
NeverCrashes == alive

\* "Clear existing data" (setProgramsTable()), "old data is discarded"
\* (ideas/todo.md:739): once a table is set nothing is stored for a PID it
\* leaves out, and nothing that arrived before it.
TableStartsAfresh ==
    programs_table_available =>
        \A q \in DOMAIN streams :
            /\ streams[q] # <<>> => q \in known_program_pids
            /\ \A n \in StoredPkts(streams[q]) : n > tableAt

\* "Continuity counter tracking - detects packet loss" (README.md:29): a jump of
\* the counter inside an iteration marks it.
LossIsDetected ==
    \A q \in Pid : \A i \in DOMAIN Iterations(q) :
        (\E n \in PktsOf(Iterations(q)[i]) : CounterJumps(n))
          => Iterations(q)[i].discontinuity_detected

\* A counter that falls and is not announced begins a new group
\* (ideas/todo.md:461-463): no packet but an iteration's first has one.
JumpStartsIteration ==
    \A q \in Pid : \A i \in DOMAIN Iterations(q) :
        \A k \in 2..Len(Iterations(q)[i].pkts) :
            LET n == Iterations(q)[i].pkts[k]
            IN  CounterJumps(n) /\ arrived[n].cc < arrived[Previous(n)].cc
                  => arrived[n].disc

\* "Should have 10 iterations" of ten packets none of which starts a unit
\* (test_demuxer_scenarios.cpp:31): then every packet is an iteration.
PacketPerIteration ==
    (\A n \in DOMAIN arrived : ~arrived[n].pusi)
      => \A q \in Pid : \A i \in DOMAIN Iterations(q) :
            Iterations(q)[i].packet_count = 1

\* The weakest thing to ask: that in every state one of these promises, or
\* the uniqueness of ids, still holds.  The state that refutes it breaks every
\* one of them, so its trace is a counterexample to each.
SomePromiseIsKept ==
    \/ NeverCrashes
    \/ UniqueIds
    \/ TableStartsAfresh
    \/ LossIsDetected
    \/ JumpStartsIteration
    \/ PacketPerIteration

-----------------------------------------------------------------------------
(***************************************************************************)
(* The storage implements PacketStore.                                     *)
(***************************************************************************)
Units ==
    [q \in Pid |-> [i \in DOMAIN Iterations(q) |-> Iterations(q)[i].pkts]]

Store == INSTANCE PacketStore
         WITH received <- Len(arrived), units <- Units,
              open <- DOMAIN current_iterations

\* Seen from outside, and without its ids, the storage is a sequence of units
\* per PID: every packet begins a unit, extends the open one of its own PID or
\* is ignored; the getters change no unit; clearIteration(), whatever id it is
\* given, takes one finished unit or nothing; clearStream() and
\* setProgramsTable() what is finished, clearAll() everything.
ImplementsPacketStore == Store!StoreSpec
=============================================================================
