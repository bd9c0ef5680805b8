---------------------------- MODULE PSIAccumulator ----------------------------
(***************************************************************************)
(* PSIAccumulator puts the sections of the PSI tables together from the    *)
(* payloads of packets, and PSIParser reads them.                          *)
(*                                                                         *)
(* A section is a member of Section; its bytes are cells that say which    *)
(* section and which position they are from, so the CRC is modelled by     *)
(* what it is for: a sequence of cells parses if it is all of one section. *)
(* The first three cells hold the table id and the section's length.       *)
(*                                                                         *)
(* An operator whose name ends in _Something is its namesake with a        *)
(* mistake in it; no specification uses one, they are there to show which  *)
(* property notices the mistake.                                           *)
(***************************************************************************)
EXTENDS Integers, Sequences

CONSTANTS
    Section,         \* the sections that may be sent
    Size,            \* [Section -> Nat]: how many bytes each has
    Stuffing,        \* the byte that fills up a packet behind a section
    GarbageLengths   \* what three bytes that begin no section may say of its
                     \* length: anything from 3 to 4098

SectionCell == [section : Section, pos : Nat \ {0}]
Cell == SectionCell \cup {Stuffing}

\* What the pointer field of a packet with payload_unit_start holds.
Pointer == [skip : Nat]

ASSUME SectionsAssumption ==
    /\ Size \in [Section -> Nat \ 0..2]
    /\ Stuffing \notin SectionCell
    /\ GarbageLengths \subseteq Nat \ 0..2

Cells(s) == [i \in 1..Size[s] |-> [section |-> s, pos |-> i]]

Accumulator == [buffer : Seq(Cell), expected_length : Nat,
                complete : BOOLEAN, synced : BOOLEAN]

-----------------------------------------------------------------------------
Reset == [buffer |-> <<>>, expected_length |-> 0,
          complete |-> FALSE, synced |-> FALSE]

\* What the length field of buffer b, of three bytes or more, may say.
LengthFields(b) ==
    LET whose == {s \in Section : SubSeq(b, 1, 3) = SubSeq(Cells(s), 1, 3)}
    IN  IF whose = {} THEN GarbageLengths ELSE {Size[s] : s \in whose}

\* What addData() does first with a packet that has payload_unit_start: the
\* accumulator forgets what it has.  It stays out of sync if the pointer field
\* points behind the packet.
Started_KeepsLength(acc, data) ==
    [Reset EXCEPT !.synced = data = <<>> \/ Head(data).skip < Len(data) - 1,
                  !.expected_length = acc.expected_length]

Started(acc, data) ==
    IF data = <<>> \/ Head(data).skip < Len(data) - 1
    THEN [Reset EXCEPT !.synced = TRUE]
    ELSE Reset

BehindPointer_Ignored(data) == IF data = <<>> THEN <<>> ELSE Tail(data)

\* The bytes behind the pointer field and behind what it skips.
BehindPointer(data) ==
    IF data = <<>> THEN <<>>
    ELSE SubSeq(Tail(data), Head(data).skip + 1, Len(data) - 1)

\* addData(): the accumulators it may leave behind, one unless the length is
\* read from bytes that are no length.  data begins with the pointer field if
\* there is payload_unit_start (and any payload at all).
addData(acc, data, payload_unit_start) ==
    LET start == IF payload_unit_start THEN Started(acc, data) ELSE acc
        more == IF payload_unit_start THEN BehindPointer(data) ELSE data
        buffer == start.buffer \o more
        lengths == IF start.expected_length = 0 /\ Len(buffer) >= 3
                   THEN LengthFields(buffer) ELSE {start.expected_length}
    IN  IF ~start.synced THEN {start}
        ELSE {[buffer |-> buffer, expected_length |-> n,
               complete |-> start.complete \/ (n > 0 /\ Len(buffer) >= n),
               synced |-> TRUE] : n \in lengths}

\* addData() returned true.
Ready(acc) ==
    /\ acc.synced
    /\ acc.expected_length > 0
    /\ Len(acc.buffer) >= acc.expected_length

\* getSection(): the section it returns.  It leaves the accumulator Reset, so
\* what the buffer holds behind the section is dropped.
getSection(acc) == SubSeq(acc.buffer, 1, acc.expected_length)

Parses_WithoutCRC(cells, S) ==
    {s \in S : Len(cells) = Size[s] /\ cells[1] = [section |-> s, pos |-> 1]}

\* The one section of S that parsePAT() or parsePMT() makes of the cells, or
\* none: the table id and the CRC must be right.
Parses(cells, S) == {s \in S : cells = Cells(s)}
=============================================================================
