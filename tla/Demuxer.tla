------------------------------- MODULE Demuxer -------------------------------
(***************************************************************************)
(* MPEGTSDemuxer as its user sees it: the synchronizer of SyncStream, fed  *)
(* a stream in chunks, hands the packets of each feedData() call, parsed   *)
(* as PacketParser says, to the storage of StreamStorage, and the user's   *)
(* calls come between two feeds.                                           *)
(* processBuffer() hands the packets on one by one inside the call; here   *)
(* they wait in pending and no user's call happens before it is empty.     *)
(*                                                                         *)
(* The program tables the demuxer builds itself are the subject of         *)
(* PSITables; they do not filter what is stored, only the table the user   *)
(* passes to setProgramsTable() does.                                      *)
(*                                                                         *)
(* An operator whose name ends in _Something is its namesake with a        *)
(* mistake in it; no specification uses one, they are there to show which  *)
(* property notices the mistake.                                           *)
(***************************************************************************)
EXTENDS SyncStream

CONSTANTS
    PacketBytes,                                \* of PacketParser
    SystemPid, Tables, MaxPackets, IdModulus    \* of StreamStorage

\* The storage's variables, as in StreamStorage
VARIABLES
    streams, next_iteration_id, current_iterations, current_iteration_ids,
    last_cc, programs_table_available, known_program_pids, alive,
    arrived, accepted, owed, clearedAt, tableAt, idsReset

VARIABLE pending    \* headers handed on in this call and not stored yet

Parser == INSTANCE PacketParser WITH Pid <- HeaderPid

\* The bytes of a packet are those its sender built, and a header is what
\* parse() makes of them; rest says what was sent.
HeaderOf(sent) ==
    LET packet == Parser!parse(Parser!Build(sent))
    IN  [pid |-> packet.pid, cc |-> packet.cc, disc |-> packet.disc,
         payload |-> packet.payload, rest |-> sent]

\* What the storage looks at in a packet
ForStorage(packet) ==
    [pid |-> packet.pid, pusi |-> packet.pusi, cc |-> packet.cc,
     disc |-> packet.disc, priv |-> packet.priv, pay |-> packet.pay]

PacketOf(h) == ForStorage(Parser!parse(Parser!Build(h.rest)))

StoragePacket == [pid : HeaderPid, pusi : BOOLEAN, cc : 0..15, disc : BOOLEAN,
                  priv : Nat, pay : Nat]

Storage == INSTANCE StreamStorage
           WITH Pid <- HeaderPid, Packets <- StoragePacket

storageVars == <<streams, next_iteration_id, current_iterations,
                 current_iteration_ids, last_cc, programs_table_available,
                 known_program_pids, alive, arrived, accepted, owed,
                 clearedAt, tableAt, idsReset>>
demuxerVars == <<streamVars, storageVars, pending>>

ASSUME DemuxerAssumption ==
    /\ CcModulus = 16       \* counters of 4 bits, in the storage as well
    \* what StreamStorage assumes
    /\ SystemPid \subseteq HeaderPid
    /\ Tables \subseteq SUBSET HeaderPid
    /\ MaxPackets \in Nat /\ IdModulus \in Nat /\ MaxPackets + 1 < IdModulus
    /\ Parser!BytesRange
    /\ Rest \subseteq Parser!Sent
    /\ \A w \in Wires : \A i \in DOMAIN w.cells :
          w.cells[i] \in Header =>
             /\ Parser!Sendable(w.cells[i].rest)
             /\ Parser!Parses(Parser!Build(w.cells[i].rest))
             /\ w.cells[i] = HeaderOf(w.cells[i].rest)

DemuxerInit ==
    /\ StreamInit
    /\ Storage!Init
    /\ pending = <<>>

HeaderAt(pos) == wire.cells[pos + 1]

\* The call is over when every packet it handed on has been stored.
CallOver == alive /\ pending = <<>>

HandedOn_LastOnly ==
    LET new == SubSeq(processed', Len(processed) + 1, Len(processed'))
    IN  IF new = <<>> THEN <<>> ELSE <<HeaderAt(Last(new))>>

\* The headers of the packets this step hands on, in order
HandedOn ==
    [i \in 1..(Len(processed') - Len(processed)) |->
        HeaderAt(processed'[Len(processed) + i])]

FeedDemuxer(k) ==
    /\ CallOver
    /\ Feed(k)
    /\ pending' = HandedOn
    /\ UNCHANGED storageVars

Store ==
    /\ pending # <<>>
    /\ Storage!AddPacket(PacketOf(Head(pending)))
    /\ pending' = Tail(pending)
    /\ UNCHANGED streamVars

\* getPrograms(), getDiscoveredPIDs(), getIterationsSummary()
Getter ==
    /\ CallOver
    /\ Storage!FinalizeAllIterations
    /\ UNCHANGED <<streamVars, pending>>

\* clearStream(), or clearIteration() of an id in use or an unknown one (0);
\* there are no more ids than packets.
ClearStoredOf(q) ==
    /\ CallOver
    /\ \/ Storage!ClearStream(q)
       \/ \E id \in ({0} \cup Range(Storage!Ids(q))) \cap (0..MaxPackets) :
             Storage!ClearIteration(q, id)
    /\ UNCHANGED <<streamVars, pending>>

ClearEverything_KeepsBuffer ==
    /\ CallOver
    /\ Storage!ClearAll
    /\ since' = fed
    /\ processed' = <<>>
    /\ UNCHANGED <<vars, wire, fed, base, pending>>

\* clearAll() empties the buffer and the storage.
ClearEverything ==
    /\ CallOver
    /\ Clear
    /\ Storage!ClearAll
    /\ UNCHANGED pending

\* With an iteration pending the process may crash in it, before the buffer is
\* cleared.
ClearCrashes ==
    /\ CallOver
    /\ Storage!ClearAllCrashes
    /\ UNCHANGED <<streamVars, pending>>

SetProgramsTable(K) ==
    /\ CallOver
    /\ Storage!SetProgramsTable(K)
    /\ UNCHANGED <<streamVars, pending>>

DemuxerNext ==
    \/ \E k \in ChunkSizes : FeedDemuxer(k)
    \/ Store
    \/ Getter
    \/ \E q \in HeaderPid : ClearStoredOf(q)
    \/ ClearEverything
    \/ ClearCrashes
    \/ \E K \in Tables : SetProgramsTable(K)

DemuxerSpec == DemuxerInit /\ [][DemuxerNext]_demuxerVars

-----------------------------------------------------------------------------
\* The packets stored since the last clearAll() and those still waiting are
\* those the synchronizer handed on since, in order, and have the flags and
\* the lengths of payload and private data their sender gave them: neither the
\* layout of a packet, nor a chunk boundary, nor a user's call loses, repeats,
\* reorders or changes one on the way.
PacketsReachStorage ==
    SubSeq(arrived, clearedAt + 1, Len(arrived))
       \o [i \in DOMAIN pending |-> PacketOf(pending[i])]
      = [i \in DOMAIN processed |->
            ForStorage(Parser!Meaning(HeaderAt(processed[i]).rest))]

\* Where the storage has the packets of a PID: the unit and the place in it, in
\* the order the user reads them
Places(q) ==
    UNION {{u} \X DOMAIN Storage!Units[q][u] : u \in DOMAIN Storage!Units[q]}

ReadBefore(x, y) == x[1] < y[1] \/ (x[1] = y[1] /\ x[2] < y[2])

\* Where on the wire the packet at a place was
SentAt(q, x) == processed[Storage!Units[q][x[1]][x[2]] - clearedAt]

\* The user cleared nothing of what arrived since the last clearAll().
NothingCleared ==
    /\ owed = {n \in accepted : n > clearedAt}
    /\ programs_table_available => tableAt <= clearedAt

\* Of an intact stream the user can read, PID by PID, exactly the packets sent
\* from the point of synchronisation on, each once and in the order sent, if
\* the PID is no system PID and in the program table, if there is one; whatever
\* the chunks, and however often getters finished the iterations in between.
SentIsHeld ==
    (wire.intact /\ CallOver /\ is_synchronized /\ NothingCleared) =>
      \E i \in Synchronizable : \A q \in HeaderPid :
         /\ {SentAt(q, x) : x \in Places(q)} =
              {wire.starts[j] :
                 j \in {k \in i..Arrived : /\ PidOn(wire, k) = q
                                          /\ Storage!Accepts([pid |-> q])}}
         /\ \A x, y \in Places(q) :
               ReadBefore(x, y) => SentAt(q, x) < SentAt(q, y)
=============================================================================
