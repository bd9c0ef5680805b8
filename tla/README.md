# A TLA+ model of minimal_mpegts_std_impl

The library (`src/include`, `src/src`) takes an MPEG transport stream in
arbitrary chunks, finds the packet boundaries, sorts the payload of the packets
by PID into *iterations* (units: everything from one payload unit start to the
next) and keeps them until the user clears them. It also assembles PSI sections
(PAT, PMT), PES packets and PCR statistics. It is single threaded: what is hard
about it is the order of calls, chunks and packets, and what each call leaves
behind for the next.

## The system

| Part | State | Operations |
|---|---|---|
| Synchronizer (`mpegts_demuxer.cpp` 22-213) | `raw_buffer_`, `is_synchronized_`, `sync_offset_` | `feedData` appends, drops on overflow and runs `processBuffer`, which searches (`tryFindValidIteration`, `belongsToSameIteration`) and consumes packets; `clearAll` |
| Iteration accumulation (215-345) | `current_iterations_`, `current_iteration_ids_`, `last_cc_`, the program table | `addPacketToStorage` per packet; `finalizeIteration` at a unit start, `finalizeAllIterations` in getters and the destructor |
| Stream storage (`mpegts_storage.cpp`) | `streams_`, `next_iteration_id_` | add, find, remove an iteration, clear a stream or all, generate an id |
| User calls (`mpegts_demuxer.cpp` 347-543) | - | `getPrograms`, `getDiscoveredPIDs`, `getIterationsSummary` (const, but they finish every pending iteration), `getPayload`, `getAllPayloads`, `clearIteration`, `clearStream`, `clearAll`, `setProgramsTable` |
| Packet parser (`mpegts_packet.cpp`) | - | bytes to header, adaptation field, payload |
| PSI (`mpegts_psi.cpp`, `mpegts_demuxer.cpp` 545-593) | section buffers, parsed PAT and PMTs | `addData`, `getSection`, `parsePAT`, `parsePMT`, `processPSIPacket` |
| PES (`mpegts_pes.cpp`) | accumulators per PID | `addData`, `getPacket`, timestamps; driven by the user, not by the demuxer |
| PCR (`mpegts_pcr.cpp`) | sample windows per PID | `addPCR`, `getStats`, `interpolatePCR` |

`processBuffer` calls, for each packet and in this order, `processPSIPacket`,
`processPCR` and `addPacketToStorage`. The user's calls and `feedData` share
the storage; nothing runs concurrently and nothing is persisted.

What makes each part correct:

* synchronizer: every packet of a clean stream is handed on once, in order and
  as soon as it is complete, however the bytes are cut into calls; the buffer
  is bounded; after disturbances the demuxer finds the packets again;
* accumulation and storage: what the user reads is what arrived and was not
  cleared, in order, unit by unit, under ids that mean one iteration; what was
  returned stays valid until it is cleared;
* parser, PSI, PES, PCR: what is decoded is what was sent, sections and units
  survive being split over packets, and wrap-around is handled.

## Modules

| Module | What it is |
|---|---|
| `Synchronizer` | the raw buffer and everything that touches it |
| `SyncStream` | `Synchronizer` fed a given finite stream in chunks of given sizes, with history variables that relate what is handed on to positions in the stream |
| `SyncRecovery` | `Synchronizer` fed an endless stream with a bounded number of disturbances, under fairness |
| `StreamStorage` | accumulation, storage, program table and user calls |
| `PacketStore` | abstract: what the storage promises, a sequence of units per PID; `StreamStorage` refines it |
| `PacketParser` | `TSPacket::parse` as a function of a packet's bytes, and a sender that builds packets |
| `Demuxer` | `SyncStream`, `PacketParser` and `StreamStorage` composed, as `MPEGTSDemuxer` composes them |
| `PSIAccumulator` | operators: sections put together from payloads, and what parses |
| `PSITables` | `processPSIPacket` with its accumulators and tables, fed by a multiplexer over a channel that loses and repeats packets |
| `PESAssembly` | `PESManager`, `PESAccumulator`, `PESParser` and a user who takes packets, fed by senders over a channel that loses and repeats payloads |
| `PCRTracking` | `PCRManager` and `PCRTracker`, fed from a clock per PID |
| `MC...` | the instances TLC checks |
| `..._proofs` | theorems about the module in their name (`Synchronizer_proofs` also about `SyncStream`; `StreamStorageUnits_proofs` goes on where `StreamStorage_proofs` ends) |

Names are the source's, without the trailing underscore of members. An operator
named `X_Something` is `X` with a plausible mistake; it is used by no
specification and shows which property would notice the mistake.

### Synchronizer

The buffer is a sequence of *cells*. A cell stands for the outcome of
`TSPacket::parse` at that byte: `NoSync` (not 0x47), `BadHeader` (0x47, but
refused) or a header with the fields the synchronizer reads: PID, counter,
discontinuity flag, has payload; `rest` stands for the bytes that are only
handed on. A packet is `PacketSize` cells of which the
first is its header. `feedData` is one action: append, `Overflow`,
`processBuffer`, which is three disjuncts (synchronised; search succeeds; search
fails). `SyncPoints` is the outer loop of `tryFindValidIteration` as the set of
positions at which it would succeed, of which the code takes the least;
`Candidates` is the inner loop, as a recursive function on the number of
candidates of which `NextCandidate` is one step; `PacketCount` is the number of rounds of `processBuffer`'s loop. When the
loop meets something that does not parse, nothing is erased and `sync_offset_` is
back at 0, as in the code. `lastCall` records what a call did; no action reads
it.

`SyncStream` picks one of `Wires` and feeds it; `processed` lists the stream
positions of the packets handed on since the last `clearAll` (`Clear`), which may
come between any two feeds and cut a packet in two. `SyncRecovery` has no given
stream: it sends packets one after the other, cut anywhere, and a disturbance
replaces the end of a packet by noise, adds noise, feeds more noise in one call than
the buffer holds (`Burst`), loses a packet or has the user call `clearAll`.

`IntactStreamIsDelivered` says when the search succeeds in terms of the stream: the
code takes the earliest packet for which the next two of *its* PID lie within the
search window, so with interleaved PIDs the packet at which delivery begins depends
on the order of PIDs, and packets in front of it are dropped although they are good.
What an intact stream is, is written down (`Intact`): packets with payload back to back,
each the successor (`Follows`) of the last of its PID, behind garbage in which a header
may show up that no packet follows. The stream fits in the buffer: of a longer one whose
first packets cannot be confirmed, the overflow drops bytes, and the property is not
about that.

### StreamStorage

`AddPacket` is `addPacketToStorage`: `SkipPacket` (filters), `StartIteration`
(first packet of a PID, or a unit start, which finishes the pending iteration
first) or `ContinueIteration`. A packet is its header and the lengths of its
private data and payload; bytes are identified by the packet's arrival number, so
a segment says whose bytes it holds. The getters that finish iterations have the same
effect and are one action, `FinalizeAllIterations`. The other user calls are one
action each. `streams` maps PIDs to sequences of entries, as `streams_` does;
`getAllPayloads` and `getPayload` are operators that look iterations up by id, the
first match as `std::find_if` gives it.

`ClearAll` loops over a map while erasing from it when an iteration is pending.
The behaviour of that is undefined; the outcomes a build produces are that the loop
ends and everything is cleared (`ClearAll`), or that the process crashes in it
(`ClearAllCrashes`: `alive` becomes FALSE, and nothing is cleared), so the model
allows both.

`setProgramsTable` empties the storage and leaves what is being accumulated.
`TableFilters` says what that leaves: after a table no other PID gets a packet, and
what an iteration holds from before the table was being accumulated when it was set.
That this remainder, too, should be gone is `TableStartsAfresh`, which the code breaks.
In the same way `ClosedByOwnUnitStart` says what closes an iteration in the code;
`PacketPerIteration` and `JumpStartsIteration` are what tests and design want instead.

History variables (`arrived`, `accepted`, `owed`, `clearedAt`, `tableAt`,
`idsReset`) record what happened, and no guard but the bound on the number of
packets reads them.

`Units` forgets ids and metadata: per PID the arrival numbers of the packets of its
iterations. `ImplementsPacketStore` is the refinement of `PacketStore` under it:
each step of the code begins a unit, extends the open one of its own PID, finishes
the open ones, or takes finished units away whole.

### PacketParser

A packet's bytes are a record: the header's fields, the flags byte of the adaptation
field as the set of its flags, and the other bytes as numbers by position. `Parses`
is the conjunction of the conditions under which `parse`, `parseHeader` and
`parseAdaptationField` return true, `parse` what the accessors return then.
`FlagSet` is false for a field of length 0, of which the code reads nothing. `Build`
is the reference, a sender that lays out a header, flags, optional fields, private
data and stuffing, or an empty field in front of a byte that looks like flags;
`Meaning` is what a receiver should find.

### Demuxer

The composition EXTENDS `SyncStream` and instantiates the other two. `FeedDemuxer`
is a `feedData` call; the headers it hands on wait in `pending` and `Store` adds
them to the storage one by one. No user's call happens before `pending` is empty, so
this is the code's loop, in steps. `ClearEverything` is `clearAll` on both sides. A
header's `rest` is what its sender sent; `PacketOf` is built and parsed by
`PacketParser`. `SentIsHeld` relates the two ends: what was put on the wire and what
the user finds. `Places` are the places of a PID's units in the order the user
reads them, `SentAt` the position on the wire of the packet in one; the property says
that these positions are those of the packets sent and that they increase.

### PESAssembly

A unit is a model value whose bytes are cells that name it and a position;
`HeaderOf` gives its header fields. `HeaderIn` is what a buffer's first bytes say: a unit's
fields as far as its header is there, otherwise what `garbage` says of such bytes
(chosen once, so the same bytes always say the same). `addData`, `Checked`
(`parseAndCheckComplete`), `parseHeader` and `parsePacket` are operators on accumulators;
`GetPacket`, `ResetAccumulator`, `removeAccumulator`, `ClearManager` and `ClearPacket`
are the user's calls. The user has one `PESPacket` and uses it again, so
fields `parse` does not write keep their old values. The senders cut units anywhere,
also in their header; a payload may be lost, come twice, or be empty. `TakenIsUnit`
demands that a taken packet is a unit from its first byte, and all of it if the unit
says how long it is. Of an unbounded unit the code hands out what it has when its
header is there; that it should be all of it is `UnboundedUnitIsWhole`, which the code
breaks.

### PCRTracking

A PCR is read off a clock that is never seen: `received` records by how much it
advanced, and the statistics are compared with that, not with differences of
PCRs. `addPCR` and `updateStatistics` are the code's. `interpolatePCR` returns the set
of values the multiplication of doubles may give (`Quotient`). Averages are kept as
total and number. `InterpolationFollowsClock` compares an interpolated value with the
clock, and demands that it is a valid PCR, as long as the clock has not wrapped around
before the packet (`StaysBelowWrap`). Behind the wrap the code's value is no PCR; that
is `InterpolatedIsValid`, which the code breaks.

### PSIAccumulator and PSITables

A section is a model value with a size; its bytes are cells that name the section
and a position. So the CRC is modelled by what it is for: `Parses` yields a
section only for exactly its own cells. The length field is read from the first
three cells the buffer gets; if these begin no section, it is any of
`GarbageLengths`, which makes `addData` a set of resulting accumulators. The pointer
field is the first element of a payload with `payload_unit_start`.
`processPSIPacket` is `ProcessPAT` on PID 0, `ProcessPMT` on a PID some PAT gave to
a program, and nothing otherwise; both take a complete section out at once and
keep nothing behind it (`Taken`), and a parsed PAT gives each of its program PIDs a new
accumulator, also those that have one (`NewAccumulators`).

The multiplexer cuts sections as the standard allows: a section may begin in the
packet in which the one before ends (`StartSection`), two may begin in one packet
(`StartTwoSections`), the rest follows (`ContinueSection`) with stuffing behind
it. Packets may be lost, repeated, or have a payload of no bytes. It is not in
`src`; `map` marks it external. `whole` and `plain` record which section on a PID has
been processed without a gap, and `finished` what the last packet completed.

## Runs

| Run | Shows | Bounds |
|---|---|---|
| `storage` | ten properties of `StreamStorage`, and that it refines `PacketStore` | three packets of six kinds on three PIDs, any number of calls between them |
| `sync_stream` | an intact stream is synchronised to exactly when it can be, and delivered exactly once, in order and without delay from there on; the buffer is always a suffix of what was fed; a synchronised demuxer never skips a byte | packets of 3 cells, buffer of 8 packets, search over 6, chunks of 1, 2, 4 and 11 cells, streams of up to three PIDs in seven orders behind four kinds of garbage (one holds a header), 20 corrupted streams, any number of `clearAll` |
| `sync_recovery` | after disturbances, oversize feeds among them, the demuxer ends up synchronised for good and in step | packets of 3 cells, buffer of 6 packets, search over 4, counters modulo 4, two disturbances |
| `psi_tables` | a section that arrives whole is in the tables at once, whatever came before it; nothing glued together is; no complete section is left waiting | payloads of 5 bytes, sections of 3, 5 and 10, three PIDs, two PATs (PID 1 is the network PID in one and a program's in the other), 6 packets, 2 disturbances |
| `demuxer` | bytes to storage: of an intact stream the user can read exactly the packets sent from the point of synchronisation on, with the sender's lengths | packets of 25 bytes (3 cells), streams of six or seven packets of three PIDs (one a system PID) in five layouts, one corrupted stream, chunks of 1, 5 and 8 cells, any number of user calls |
| `pes` | an accumulator holds exactly the undisturbed unit and is complete exactly when it should be; a packet taken is one unit with its own timestamps | two PIDs, units of 3 and 6 bytes of three kinds, payloads of 1 to 3, 5 packets, 1 disturbance, timestamps modulo 8 |
| `pcr` | the window is the PID's last PCRs; discontinuity, jitter, average and interpolation are those of the clock | two PIDs, a clock of 20 ticks that starts at 17 and wraps, a window of 4, averages over 3, 5 PCRs, seven moves |
| `storage_docs` | violated: six promises about ids, tables, losses, iterations and `clearAll`, all broken in one state | as `storage`, the packets three that start no unit and announce nothing, on two PIDs |
| `sync_docs` | violated: packets of different PIDs synchronise, and no packet is handed on twice | as `sync_stream`, one stream: a packet each of two PIDs, three of a third, a cell of noise and two packets more; chunks of 1 and 9 cells |
| `pes_unbounded` | violated: an unbounded unit is taken whole | as `pes` |
| `pcr_wrap` | violated: an interpolated PCR is valid | as `pcr`, a clock that always advances 2 in 2 packets |
| `psi_split` | violated: a section that ends where the next begins is lost | as `psi_tables`, 3 packets, no disturbance |

Why the bounds are enough. Storage: the properties relate at most two packets of a
PID and a call between them; three packets give a finished iteration, one pending,
and one of another PID, and the number of calls is not bounded (ids a call may name
are bounded by the number of packets, which bounds the ids generated). The packets
include a counter that wraps from 15 to 0, jumps with and without an announcement,
private data with and without payload, and a packet with neither. `IdModulus` is
never reached: at most one id is generated per packet. Synchronizer: a packet of three
cells has the three positions that differ (header, middle, last); chunks of 1, 2, 4
and 11 end before, in and behind every one of them and hold none, one or several
packets; the buffer of eight packets overflows in the corrupted streams. The orders
of PIDs put the confirming packet just inside and just outside the search window and
have the second PID confirmed before the first. The sizes keep the code's order: validation depth
(3) < search width < buffer. In `sync_recovery` the counter's modulus is larger
than the validation depth, so a packet cannot be its own successor's successor.

PSI: the sections take one, two and three packets, can begin
with one to four bytes in a packet, so also with fewer than the length field needs,
and 6 packets hold a PAT and a PMT of three packets with something of another
section before, between or after; two disturbances can hit the same section or the one
before it. Garbage lengths of 3 and 7 stand for one that is reached and one that
is not within a packet.

`CHECK_DEADLOCK FALSE` where a behaviour ends: the stream of `SyncStream` is used
up, `PSITables` has sent its packets, or the process of `StreamStorage` has crashed.

Demuxer: 25 bytes hold every optional field and leave a payload of no byte in one
layout; the streams have two units of a PID and a counter that wraps. PES: a header
takes one to three payloads, and a unit is followed by another of the PID, so a lost
start, middle and end are all possible. PCR: five PCRs push one out of the window of
four, and the averaged ones are fewer than the window.

Fairness: `sync_recovery` assumes that data keeps arriving (`Fairness`: weak fairness
of sending the next packet, `PacketSent`, which is always enabled). It stands for the user's duty to keep calling `feedData`
(`ideas/todo.md:131`) and a sender that goes on; nothing in the library waits for
anything else. Disturbances are bounded and have no fairness.

## What the violations say

Several promises about one component are checked together, in `storage_docs` and
`sync_docs`, as the disjunction `SomePromiseIsKept`. It is the weakest thing to ask, so
its violation says most: the state TLC reports breaks every one of the promises, and its
trace is a counterexample to each. In `storage_docs` that trace is: two audio packets,
with counters 5 and 1, that start no unit and make one iteration; `setProgramsTable`
with a table of the video PID only; a getter, which stores that iteration under id 1; a
video packet, whose iteration gets id 1, too; and `clearAll`, which crashes. In
`sync_docs` it is a stream that begins with packets of three PIDs, which are dropped, and
a corruption behind packets that are then handed on twice.

* *Ids.* `setProgramsTable` calls `storage_.clear()`, which sets
  `next_iteration_id_` to 1, and leaves `current_iterations_` alone. The pending
  iteration keeps its id, and the next one to start may get the same. Handles by id then
  reach only the first. `UniqueIdsUnlessReset` shows (and `UniqueIdsTheorem` proves)
  that this is the only way.
* *Loss.* README and the field's comment promise that a counter discontinuity is
  detected; the code demands the sender's `discontinuity_indicator` too.
  `DiscontinuityIsAnnouncedJump` states exactly what the flag does mean.
* *Tables.* The comment in `setProgramsTable` and `ideas/todo.md` (739, 1191, 1309) say
  that old data is discarded and PIDs outside the table are ignored. The iteration
  being accumulated is not discarded, and the next getter stores it, also that of a PID
  the table leaves out. `TableFilters` says that this is all that gets past the table.
* *Iterations.* `test_demuxer_scenarios.cpp` (31, 140, 239) expects an iteration per
  packet from packets that start no unit, and `ideas/todo.md` (447-464) begins a new
  group where the counter falls. The code begins an iteration only with the first packet
  of a PID or with a unit start (`ClosedByOwnUnitStart`), so it makes one of all of them;
  the three assertions fail.
* *clearAll.* `finalizeIteration` erases the element a range-for stands on.
* *Different PIDs.* `test_synchronization.cpp` (157) expects three packets of three PIDs to
  synchronise the demuxer. `belongsToSameIteration` refuses a second PID behind a packet
  with payload, so they do not; `IntactStreamIsDelivered` says exactly which packets do.
* *Repetition.* `processBuffer` returns without erasing what it has consumed. The
  corrupted bytes stay too: until the buffer overflows, each call finds the same old
  packets, hands them on again and loses synchronisation at the same place.
  `SynchronizesForGood` shows that the overflow does end this.
* *Split sections.* `addData` resets the accumulator at every `payload_unit_start`
  and drops what the pointer field skips, which is where the section being
  accumulated ends; `getSection` drops what follows a section in its packet. A PAT
  between the packets of a PMT replaces the PMT's accumulator. The comment of
  `IntactSectionIsParsed` lists these cases; it holds in all others.

* *Unbounded units.* `addData` calls a unit of unspecified length complete when its
  header is, and the user who takes it gets what has come of it so far, possibly nothing;
  the rest is dropped. Comments in `mpegts_pes.cpp` (252, 260) have the payload continue
  until the next unit start.
* *Interpolation.* `interpolatePCR` does not reduce its sum, so between a PCR in front of
  the wrap and one behind it the value may need a 34th bit, and `isValid` is false.

## Theorems

Assumptions are those named in the modules: `SizesAssumption` (sizes are positive),
`CellsAssumption` (the two non-headers are no headers), `ConstantsAssumption`
(the constants have their types and fewer packets arrive than there are ids),
`SectionsAssumption` and `TablesAssumption` (types; a section has three bytes or more,
stuffing is no section's byte, PATs are sent on PID 0 and PMTs on others),
`WiresAssumption` (types; a chunk fits beside a started packet; streams marked intact
are `Intact`), `DepthAssumption` (the validation depth is at least 3, which is its value in
`mpegts_demuxer.hpp`; `tryFindValidIteration` wants three packets in the buffer whatever
the depth), `DemuxerAssumption` (below), `UnitsAssumption` (a
unit's header is right), `TrackerAssumption` (no advance of a clock is more than half
its period; the threshold is less than that) and `BytesRange` (a packet has 6 to 188
bytes).

* `BufferTheorem` (`Synchronizer_proofs`): `TypeOK /\ BufferBetweenCalls` holds for all
  sizes and any bytes. It is inductive. The heart is `LoopEnds`: the loop
  ends after a number of packets that fit in the buffer, so behind the last of them
  less than a packet is left unless the next one does not parse; `KeptFits` turns this into
  the bound on what is kept.
* `BufferIsSuffixTheorem`, `InStepTheorem`, `StreamImplementsSynchronizer`
  (`Synchronizer_proofs`): `BufferIsSuffix` needs nothing but itself and the types, but
  that synchronised demuxers stay in step needs to know where the buffer begins:
  `StreamInv` adds that while synchronised it begins right behind the last packet handed on,
  and that whatever was handed on is a packet of the stream.
  `ProcessBuffer` says what every one of the three ways through a call does with
  the buffer (a suffix of it is kept; all of it in front of the suffix was packets if
  still synchronised), `PartOfPart` and `NextPart` do the arithmetic of subsequences.
  That the overflow drops nothing while synchronised follows from `BufferBetweenCalls`.
* `StreamTypeCorrect` and `IntactStreamTheorem` (`Synchronizer_proofs`):
  `IntactStreamIsDelivered`, for every chunking and any `clearAll`. The inductive
  invariant is `DeliveredInv` beside `StreamInv`: while not synchronised, all that was fed
  since `clearAll` waits in the buffer and no packet is confirmed; while synchronised, some
  packet is the chosen one (`ChosenAt`). The proof computes what the code's search finds:
  `IntactIsLaid` gives a stream's layout (`Laid`), `WaitingHeaders` says which cells
  of the buffer are headers, `NextOfPid` that the search from a packet finds the next of its
  PID, `CandidatesOfPacket` that the k-th candidate is the k-th packet of the PID in the window,
  `CandidatesOfGarbage` that a header in the garbage gets no second candidate, and so
  `SyncPointsAre`: the search succeeds exactly at the packets some packet confirms.
  `PacketsWaiting` says that the packet loop from there takes all packets that are
  complete. `StaysChosen` and `ConfirmedOnce` say that what arrives later changes neither
  the choice nor what was confirmed first.
* `TypeCorrect` (`StreamStorage_proofs`): `TypeOK`, one lemma per action. It rests on
  `RemoveIteration` (what erasing the element `find_if` found does to a vector) and
  `FinalizedStreams` (where every element of a stream comes from after any number
  of `finalizeIteration` calls).
* `UniqueIdsTheorem` (`StreamStorage_proofs`): `UniqueIdsUnlessReset`. The property
  is not inductive. `IdsInv` adds that `next_iteration_id` is at most one more
  than the number of packets (so it cannot wrap) and, unless the ids were
  restarted under a pending iteration, above every id in use; and it says stored
  against stored, pending against pending and stored against pending separately,
  because finishing an iteration moves an id from one side to the other.
* `PayloadsTheorem` and `ClosedByOwnUnitStartTheorem` (`StreamStorage_proofs`) need only
  the types. `AppendedIndex` says that an iteration stored behind the others does not
  change which one `find_if` finds, also where two have the same id; `PayloadsKept` turns
  it into what the user gets. `AddPacketEnds` says which packet ends an iteration and
  `FinalizedLast` where the iteration is then.
* `UnitsTheorem` (`StreamStorageUnits_proofs`): `Spec => ImplementsPacketStore`. Most of
  it, and of the theorems after it, rests on a view of one PID: `ItsOf` is its finished
  iterations and the pending one as one sequence, and `StartIterations`,
  `ContinueIterations`, `FinishIterations` and so on say what each action does to it, namely
  append, replace the last, keep, or remove elements. `IterationsStep` puts them together:
  an iteration after a step was one before, or a packet was added to it (`Takes`).
* The invariants about what iterations hold (`StreamStorageUnits_proofs`). None of them
  is inductive, and each needs the ones before it:
  `PacketsInOrderTheorem` by `OrderInv` (every packet held has arrived, so a new one is
  behind all of them); `OneUnitTheorem` by `UnitInv` (no iteration is empty);
  `TableFiltersTheorem` by `FilterInv` (`LeftWasPending`: what a table leaves was being
  accumulated; `NewFiltered`: a new packet is behind the table and passes it); `HeldIsOwedTheorem` from the order
  (a call that removes an iteration removes only its own packets, because none is both
  finished and pending, nor held by two PIDs: `HeldApart`); `SegmentsTheorem` by `SegmentInv` (segments belong
  to packets the iteration has, so those of a new packet are behind and apart);
  `ReadsAllTheorem` by `AcceptsInv` (every packet that passes the filters of a table that
  was there before it is accepted), for a user who cleared nothing (`KeptAll`);
  `DiscontinuityTheorem` by `CounterInv` and `JumpInv` (`last_cc_` is the counter of the last
  packet of the PID accepted since `clearAll`, also when its iteration has been cleared).
* `TypeCorrect`, `OnlyReceivedTheorem` and `NothingCompleteWaitsTheorem`
  (`PSITables_proofs`) share the inductive `IInv`. `OnlyReceivedSections` speaks of
  tables, and what is parsed next is in the accumulators now, so `IInv` adds that
  their buffers hold only received cells and stuffing (`HeldWithin`) and that the
  demuxer listens to PIDs of received PATs' programs only (`ListenedIsProgram`).
  `addDataType` and `addDataWaits` say what one call of `addData` keeps,
  `ParsedFromBuffer` carries received cells from a buffer to a table, and
  `DeliverKeeps` and `SendKeeps` reduce every action to one packet processed or lost.
* `IntactSectionTheorem` (`PSITables_proofs`): `IntactSectionIsParsed` is not
  inductive. `PlainInv` adds that as long as a section is plain, its PID's accumulator holds
  exactly what was sent of it (`InProgress`) and the packet that a channel may repeat
  does no harm. `OthersKept` says which PIDs a packet leaves alone, `DeliverPlain`
  what a packet of the section does to its accumulator.
* `TypeCorrect`, `HeldTheorem`, `TakenTheorem`, `TimestampsTheorem`
  (`PESAssembly_proofs`): their `IInv` relates each accumulator to `whole`: it holds
  exactly the first `n` cells of the unit. Everything rests on what such a prefix
  says (`FirstSays`, `FirstHeader`): nothing before its header is there, its own header from
  then on, so `CompleteStays` and `ShortIncomplete` give completeness. `DifferenceTheorem` is
  about `timestampDifference` alone.
* `WindowTheorem`, `DiscontinuityTheorem`, `JitterTheorem` (`PCRTracking_proofs`):
  `DifferenceIsAdvance` (the difference of two PCRs is the clock's advance, across the
  wrap) reduces statistics of PCRs to statistics of the clock; `WindowMoves` says how the
  window shifts over what was received, `LargestMore` how a maximum grows by one.
* `TypeCorrect`, `AverageTheorem`, `InterpolationTheorem` (`PCRTracking_proofs`): the
  average is a sum over a set. That a sum exists and is a number, though the library
  defines it by recursion, is shown by a least counterexample (`LeastOfSet`,
  `SumsExist`, `SumType`). `AverageMoves` then says that `AverageOver` of the window is the
  average over the clock's last advances. For the interpolation the invariant has
  `PacketsUpTo` (packets of PCRs do not go back) and `ClockSays` (neighbouring
  PCRs differ by what the clock advanced); `QuotientSays` bounds the rounding,
  `ShareBelowWrap` says that what stays below the wrap is a valid PCR,
  `WindowOf` finds the samples around a packet.
* `RoundTrip` and `ParsedInsidePacket` (`PacketParser_proofs`): the parser finds what
  was built, and reads nothing outside the packet.
* `PacketsReachStorageTheorem`, `DemuxerImplementsStream` and `DemuxerImplementsStorage`
  (`Demuxer_proofs`): the composed demuxer is a `SyncStream` for its buffer and a
  `StreamStorage` for its storage, so the theorems about either hold of it, and
  `PacketsReachStorage` joins them. `ReachInv` says packet by packet what the property
  says of sequences; the step from header to packet is `RoundTrip`, used through an instance of
  `PacketParser_proofs`. `DemuxerAssumption` is needed: the headers on the wire are
  what the parser makes of packets a sender laid out, and it has what
  `StreamStorage` assumes of its constants (ids do not wrap).
* `SentIsHeldTheorem` (`Demuxer_proofs`) joins three results: `DeliveredInv`, carried over by
  `DemuxerImplementsStream`, says which packets of the wire were handed on; `ReachInv`
  that these are the packets the storage got (`HandedOnInOrder`); and `ReadsAllTheorem`, used
  through an instance of `StreamStorageUnits_proofs`, that the user reads all of these.

So every invariant the passing runs check is proved, and every action property and the
refinement. The inductive invariants were checked by TLC before they were proved.
`TypeOK` of `Synchronizer` is proved for `Spec` and for `StreamSpec`.

The provers have no induction over data. Where it was needed (sums, the chain of candidates,
the packets a loop takes) it is replaced by the least element of a set of
counterexamples, which the library's well-foundedness of the natural numbers gives
(`UpTo`, `LeastOfSet`). It works for functions of a number or of a finite set and was used
for those the theorems need; nothing is proved about what recursive definitions compute
in general.

Only model-checked: what needs fairness (`SynchronizesForGood`), and the runs that show a
violation.

## Not modelled

* In `Synchronizer`, the bits of a packet: a cell is the outcome of parsing there. A
  sync byte inside a payload is a `BadHeader` or a header the instance puts there,
  not one that random bytes form. `PacketParser` models the bytes of a packet, but what
  is left of an earlier packet in a `TSPacket` that is parsed into again is not: no
  caller in the library does that.
* `transport_priority`, `scrambling_control` and flags that are only copied;
  `extractPCR`, which the library does not call (so the demuxer's PCRs are all 0).
* `observed_cc_values_`, `is_complete`, `buffer_position`: written or declared and
  never read. `handleDiscontinuity` is empty and never called. `validatePacket` is
  not called.
* Descriptors, stream lists, version and section numbers of PSI sections: no state
  change depends on them. `clearAll` is no action of `PSITables`: it leaves the PSI
  state as it is (so `getPrograms` goes on reporting old programs), and `Demuxer` does
  not include `PSITables`: its tables do not filter what is stored.
* What `PESAccumulator` glues together after a loss, beyond that it is no undisturbed
  unit; the rounding of doubles other than in a product that is a whole number.
* The totals `getPrograms` and `getIterationsSummary` compute from what is stored.
* One `feedData` call larger than what fits beside a started packet, in
  `SyncStream` (`WiresAssumption`); `SyncRecovery` has one (`Burst`), and
  `BufferTheorem` has no such restriction.
* Memory exhaustion, moved-from demuxers, tests, examples and scripts.

## Plan

1. Done: `StreamStorage`, `Synchronizer` with its two environments, first theorems.
2. Done: `PSIAccumulator`, `PSITables`; `PESAssembly`; `PCRTracking`; `PacketParser`;
   `Demuxer`; `PacketStore` and its refinement; theorems about them.
3. Done: every invariant of `StreamStorage` and its refinement, and the path from the
   synchronizer to the storage, proved for all constants.
4. Done: `IntactSectionIsParsed`, `IntactStreamIsDelivered`, `SentIsHeld` and the
   statistics of `PCRTracking` proved for all constants.
5. `PSITables` inside `Demuxer`, with `getPrograms` relating its tables to what is
   stored.
