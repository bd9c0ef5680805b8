------------------------------ MODULE SyncStream ------------------------------
(***************************************************************************)
(* The synchronizer fed a given stream of bytes in chunks of any size.     *)
(* The environment picks one of Wires, a stream with, for the properties,  *)
(* the positions at which its sender put packets and whether it is intact. *)
(* The user may call clearAll() between two feeds.                         *)
(* History variables relate what is handed on to positions in the stream.  *)
(***************************************************************************)
EXTENDS Synchronizer, SequencesExt

CONSTANTS
    Wires,        \* set of [cells, starts, intact]
    ChunkSizes    \* how many bytes feedData() may be given at a time

Wire == [cells : Seq(Cell), starts : Seq(Nat), intact : BOOLEAN]

\* The i-th packet of a stream
HeaderOn(w, i) == w.cells[w.starts[i] + 1]
PidOn(w, i) == HeaderOn(w, i).pid

\* A sender's next packet of a PID
Follows(h1, h2) ==
    /\ h2.pid = h1.pid
    /\ h2.cc = (h1.cc + 1) % CcModulus \/ h2.disc

\* A stream short enough to wait in the buffer: behind some garbage, packets
\* with payload one right behind the other, the next of a PID following the last
\* of it.  Nothing else in it is a header, but in the garbage, where it has
\* payload and is followed by none.
Intact(w) ==
    LET c == w.cells  s == w.starts  n == Len(w.starts)
    IN  /\ n > 0 /\ Len(c) <= MaxBufferSize
        /\ Len(c) = s[1] + n * PacketSize
        /\ \A i \in 1..n :
              /\ s[i] = s[1] + (i - 1) * PacketSize
              /\ HeaderOn(w, i) \in Header /\ HeaderOn(w, i).payload
        /\ \A i, j \in 1..n :
              (i < j /\ {k \in i..j : PidOn(w, k) = PidOn(w, i)} = {i, j}) =>
                 Follows(HeaderOn(w, i), HeaderOn(w, j))
        /\ \A p \in DOMAIN c : c[p] \in Header =>
              \/ \E i \in 1..n : p = s[i] + 1
              \/ /\ p <= s[1] /\ c[p].payload
                 /\ \A q \in (p + 1)..Len(c) :
                       c[q] \in Header => ~Follows(c[p], c[q])

ASSUME WiresAssumption ==
    /\ Wires \subseteq Wire
    /\ \A w \in Wires : w.intact => Intact(w)
    /\ ChunkSizes \subseteq Nat \ {0}
    \* what is left of a packet and a chunk always fit in the buffer
    /\ \A k \in ChunkSizes : k + PacketSize - 1 <= MaxBufferSize

\* The search wants three whole packets in the buffer, whatever the depth.
ASSUME DepthAssumption == ValidationDepth >= 3

VARIABLES
    wire,
    fed,        \* bytes of wire given to feedData()
    base,       \* position in wire of the first byte of raw_buffer
    since,      \* ... of them before the last clearAll()
    processed   \* positions of the packets handed on since, in order

streamVars == <<vars, wire, fed, base, since, processed>>

StreamInit ==
    /\ Init
    /\ wire \in Wires
    /\ fed = 0
    /\ base = 0
    /\ since = 0
    /\ processed = <<>>

Feed(k) ==
    /\ fed + k <= Len(wire.cells)
    /\ feedData(SubSeq(wire.cells, fed + 1, fed + k))
    /\ fed' = fed + k
    /\ base' = base + lastCall'.overflow + lastCall'.erased
    /\ processed' = processed \o
          [i \in 1..lastCall'.packets |->
              base + lastCall'.overflow + lastCall'.start
                   + (i - 1) * PacketSize]
    /\ UNCHANGED <<wire, since>>

Clear ==
    /\ clearAll
    /\ base' = fed
    /\ since' = fed
    /\ processed' = <<>>
    /\ UNCHANGED <<wire, fed>>

StreamNext ==
    \/ \E k \in ChunkSizes : Feed(k)
    \/ Clear

StreamSpec == StreamInit /\ [][StreamNext]_streamVars

-----------------------------------------------------------------------------
\* The buffer is always the last bytes fed: data leaves it at the front only
\* and is never reordered or lost in the middle.
BufferIsSuffix ==
    /\ base + Len(raw_buffer) = fed
    /\ raw_buffer = SubSeq(wire.cells, base + 1, fed)

\* How many packets of a stream have arrived completely with its first n bytes
ArrivedBy(w, n) ==
    Cardinality({i \in DOMAIN w.starts : w.starts[i] + PacketSize <= n})

\* Packet j completes, within the search window, ValidationDepth packets of the
\* PID of packet i, the first of them.
Confirms(w, j, i) ==
    /\ j < i + SearchPackets
    /\ PidOn(w, j) = PidOn(w, i)
    /\ Cardinality({k \in i..j : PidOn(w, k) = PidOn(w, i)}) = ValidationDepth

\* The packets to which the demuxer can be synchronised when it was given the
\* bytes of an intact stream from position from to n: those it got every byte
\* of and the confirming packet as well.
SynchronizableBy(w, from, n) ==
    {i \in 1..ArrivedBy(w, n) :
        /\ w.starts[i] >= from
        /\ \E j \in i..ArrivedBy(w, n) : Confirms(w, j, i)}

Arrived == ArrivedBy(wire, fed)
Synchronizable == SynchronizableBy(wire, since, fed)

\* The demuxer is synchronised to an intact stream as soon as, and only when,
\* ValidationDepth packets of one PID have arrived within the search window
\* (belongsToSameIteration(); a test wants packets of three PIDs to be enough,
\* see DifferentPidsSynchronize)
\* since the last clearAll(), whatever packet that call cut in two, however
\* the PIDs are interleaved and the bytes chunked.  From then on every packet
\* has been handed on exactly once and in order, and none waits; what came
\* before that PID's first packet is skipped for good.  A packet before the
\* chosen one was confirmed only later, so of a single PID nothing is lost.
IntactStreamIsDelivered ==
    wire.intact =>
        /\ is_synchronized <=> Synchronizable # {}
        /\ ~is_synchronized => processed = <<>>
        /\ is_synchronized =>
              \E i \in Synchronizable :
                 /\ processed = SubSeq(wire.starts, i, Arrived)
                 /\ \A first \in Synchronizable, j, k \in 1..Arrived :
                       (first < i /\ Confirms(wire, j, i)
                                  /\ Confirms(wire, k, first)) => k > j

\* While synchronised the next packet is the one right behind the last: no
\* byte is skipped or seen twice at a chunk boundary, corrupted stream or not.
InStepWhileSynchronized ==
    [][ (is_synchronized /\ Len(processed') > Len(processed)) =>
          processed'[Len(processed) + 1] = Last(processed) + PacketSize
      ]_streamVars

-----------------------------------------------------------------------------
(***************************************************************************)
(* What a comment and a test promise and the code does not keep.           *)
(***************************************************************************)

\* "Clean up processed data from buffer" (mpegts_demuxer.cpp:88): no packet is
\* handed on twice.  The code returns before the clean-up when it loses
\* synchronisation.
NoPacketTwice == IsInjective(processed)

\* The stream begins with three packets with payload, of different PIDs.
BeginsWithThreePids ==
    LET first == [k \in 1..3 |-> wire.cells[(k - 1) * PacketSize + 1]]
    IN  /\ Len(wire.cells) >= 3 * PacketSize
        /\ \A k \in 1..3 : first[k] \in Header /\ first[k].payload
        /\ \A j, k \in 1..3 : j # k => first[j].pid # first[k].pid

\* "Should sync with different PIDs" (test_synchronization.cpp:157): three such
\* packets synchronise the demuxer, which then hands on the first of them.
DifferentPidsSynchronize ==
    (BeginsWithThreePids /\ since = 0 /\ fed >= 3 * PacketSize) =>
        processed # <<>> /\ Head(processed) = 0

\* The weakest thing to ask: that in every state one of the two promises still
\* holds.  The state that refutes it breaks both, so its trace is a
\* counterexample to each.
SomePromiseIsKept == NoPacketTwice \/ DifferentPidsSynchronize
=============================================================================
