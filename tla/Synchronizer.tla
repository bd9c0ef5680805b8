----------------------------- MODULE Synchronizer -----------------------------
(***************************************************************************)
(* How MPEGTSDemuxer turns the bytes it is fed into packets: raw_buffer_,  *)
(* the search for a synchronisation point (tryFindValidIteration) and the  *)
(* loop that consumes packets (processBuffer).                             *)
(*                                                                         *)
(* The raw buffer is a sequence of cells, PacketSize of them to a packet.  *)
(* A cell is what TSPacket::parse() makes of the bytes that start there:   *)
(* NoSync if it is not the sync byte, BadHeader if it is one and parse()   *)
(* refuses what follows, else the header.  Positions count from 0, as in   *)
(* the code: position i is raw_buffer[i + 1].                              *)
(*                                                                         *)
(* An operator whose name ends in _Something is its namesake with a        *)
(* mistake in it; no specification uses one, they are there to show which  *)
(* property notices the mistake.                                           *)
(***************************************************************************)
EXTENDS Integers, Sequences, FiniteSetsExt

CONSTANTS
    PacketSize,       \* MPEGTS_PACKET_SIZE: 188 bytes; here, cells
    BufferPackets,    \* MAX_BUFFER_PACKETS: 100
    SearchPackets,    \* how far the search for candidates looks: 10
    ValidationDepth,  \* sync_validation_depth_: 3
    CcModulus,        \* 16: the continuity counter has 4 bits
    HeaderPid,        \* the PIDs headers may carry
    Rest,             \* what else a packet has, which is only handed on
    NoSync, BadHeader

Header == [pid : HeaderPid, cc : 0..(CcModulus - 1), disc : BOOLEAN,
           payload : BOOLEAN, rest : Rest]
Cell == Header \cup {NoSync, BadHeader}

ASSUME SizesAssumption ==
    /\ PacketSize \in Nat \ {0}
    /\ BufferPackets \in Nat \ {0}
    /\ SearchPackets \in Nat \ {0}
    /\ ValidationDepth \in Nat \ {0}
    /\ CcModulus \in Nat \ {0}
ASSUME CellsAssumption ==
    /\ NoSync \notin Header
    /\ BadHeader \notin Header

MaxBufferSize == PacketSize * BufferPackets

VARIABLES
    raw_buffer,
    is_synchronized,
    sync_offset,
    \* what the last call did, for the properties and for the components that
    \* receive the packets: bytes dropped by the overflow, where processing
    \* started, how many packets it handed on, bytes erased behind them
    lastCall

vars == <<raw_buffer, is_synchronized, sync_offset, lastCall>>

NoCall == [overflow |-> 0, start |-> 0, packets |-> 0, erased |-> 0]

-----------------------------------------------------------------------------
(***************************************************************************)
(* tryFindValidIteration()                                                 *)
(***************************************************************************)

\* parse() succeeds at position i of buffer b; the caller has checked that the
\* whole packet is there.
ParsesAt(b, i) == b[i + 1] \notin {NoSync, BadHeader}

belongsToSameIteration_AnyPid(h1, h2) ==
    h2.cc = (h1.cc + 1) % CcModulus \/ h2.disc

belongsToSameIteration(h1, h2) ==
    /\ h2.cc = (h1.cc + 1) % CcModulus \/ h2.disc
    /\ h1.payload => h1.pid = h2.pid

Successors_Short(b, last, from, limit) ==
    {i \in from..(limit - PacketSize - 1) :
        /\ ParsesAt(b, i)
        /\ belongsToSameIteration(b[last + 1], b[i + 1])}

\* Positions from which a packet may be taken as the successor of the one at
\* last, searching from position from up to, not including, position limit.
Successors(b, last, from, limit) ==
    {i \in from..(limit - PacketSize) :
        /\ ParsesAt(b, i)
        /\ belongsToSameIteration(b[last + 1], b[i + 1])}

\* The k-th candidate's position, if the one before it is at last; -1 once there
\* is none.  The search for the second goes on byte by byte, the next one is
\* looked for a packet further on.
NextCandidate(b, k, last, limit) ==
    LET from  == IF k = 2 THEN last + 1 ELSE last + PacketSize
        found == Successors(b, last, from, limit)
    IN  IF last = -1 \/ found = {} THEN -1 ELSE Min(found)

\* The positions of the candidates collected from start_pos
Candidates(b, start) ==
    LET limit == Min({start + PacketSize * SearchPackets, Len(b)})
        pos[k \in 1..ValidationDepth] ==
            IF k = 1 THEN start ELSE NextCandidate(b, k, pos[k - 1], limit)
    IN  pos

\* The start positions at which a sequence of ValidationDepth packets begins.
SyncPoints(b) ==
    {start \in 0..(Len(b) - 3 * PacketSize) :
        /\ ParsesAt(b, start)
        /\ Candidates(b, start)[ValidationDepth] # -1}

-----------------------------------------------------------------------------
(***************************************************************************)
(* processBuffer()                                                         *)
(***************************************************************************)

\* Where the loop ends: no whole packet is left or what is there does not parse.
StopsAt(b, i) ==
    \/ i + PacketSize > Len(b)
    \/ ~ParsesAt(b, i)

\* How many packets the loop handles, one behind the other from off
PacketCount(b, off) ==
    Min({k \in 0..Len(b) : StopsAt(b, off + k * PacketSize)})

Consume_StepsBack(b, off, overflow) ==
    LET n    == PacketCount(b, off)
        next == off + n * PacketSize
        lost == next + PacketSize <= Len(b)
    IN  /\ is_synchronized' = ~lost
        /\ sync_offset' = IF lost THEN next - PacketSize ELSE 0
        /\ raw_buffer' = IF lost THEN b ELSE SubSeq(b, next + 1, Len(b))
        /\ lastCall' = [overflow |-> overflow, start |-> off, packets |-> n,
                        erased |-> IF lost THEN 0 ELSE next]

Consume_ClearsBuffer(b, off, overflow) ==
    LET n    == PacketCount(b, off)
        next == off + n * PacketSize
        lost == next + PacketSize <= Len(b)
    IN  /\ is_synchronized' = ~lost
        /\ sync_offset' = 0
        /\ raw_buffer' = IF lost THEN b ELSE <<>>
        /\ lastCall' = [overflow |-> overflow, start |-> off, packets |-> n,
                        erased |-> IF lost THEN 0 ELSE Len(b)]

Consume_StaysSynchronized(b, off, overflow) ==
    LET n    == PacketCount(b, off)
        next == off + n * PacketSize
        lost == next + PacketSize <= Len(b)
    IN  /\ is_synchronized' = TRUE
        /\ sync_offset' = 0
        /\ raw_buffer' = IF lost THEN b ELSE SubSeq(b, next + 1, Len(b))
        /\ lastCall' = [overflow |-> overflow, start |-> off, packets |-> n,
                        erased |-> IF lost THEN 0 ELSE next]

\* The loop from off, over buffer b: either every whole packet is consumed
\* and erased, or a packet does not parse and synchronisation is lost, with
\* nothing erased.
Consume(b, off, overflow) ==
    LET n    == PacketCount(b, off)
        next == off + n * PacketSize
        lost == next + PacketSize <= Len(b)
    IN  /\ is_synchronized' = ~lost
        /\ sync_offset' = 0
        /\ raw_buffer' = IF lost THEN b ELSE SubSeq(b, next + 1, Len(b))
        /\ lastCall' = [overflow |-> overflow, start |-> off, packets |-> n,
                        erased |-> IF lost THEN 0 ELSE next]

processBuffer(b, overflow) ==
    \/ /\ is_synchronized
       /\ Consume(b, sync_offset, overflow)
    \/ /\ ~is_synchronized
       /\ SyncPoints(b) # {}
       /\ Consume(b, Min(SyncPoints(b)), overflow)
    \/ /\ ~is_synchronized
       /\ SyncPoints(b) = {}
       /\ raw_buffer' = b
       /\ lastCall' = [NoCall EXCEPT !.overflow = overflow]
       /\ UNCHANGED <<is_synchronized, sync_offset>>

-----------------------------------------------------------------------------
(***************************************************************************)
(* The calls that touch the raw buffer.                                    *)
(***************************************************************************)
Overflow_Never(b) == 0

Overflow(b) == IF Len(b) > MaxBufferSize THEN Len(b) - MaxBufferSize ELSE 0

feedData_KeepsOldest(data) ==
    LET b == raw_buffer \o data
    IN  processBuffer(SubSeq(b, 1, Len(b) - Overflow(b)), Overflow(b))

feedData(data) ==
    LET b == raw_buffer \o data
    IN  processBuffer(SubSeq(b, Overflow(b) + 1, Len(b)), Overflow(b))

clearAll_KeepsSync ==
    /\ raw_buffer' = <<>>
    /\ lastCall' = NoCall
    /\ UNCHANGED <<is_synchronized, sync_offset>>

\* The part of clearAll() that concerns the buffer; sync_offset_ is not reset.
clearAll ==
    /\ raw_buffer' = <<>>
    /\ is_synchronized' = FALSE
    /\ lastCall' = NoCall
    /\ UNCHANGED sync_offset

-----------------------------------------------------------------------------
Init ==
    /\ raw_buffer = <<>>
    /\ is_synchronized = FALSE
    /\ sync_offset = 0
    /\ lastCall = NoCall

\* feedData() ignores a call without data.
Next ==
    \/ \E data \in Seq(Cell) \ {<<>>} : feedData(data)
    \/ clearAll

Spec == Init /\ [][Next]_vars

-----------------------------------------------------------------------------
TypeOK ==
    /\ raw_buffer \in Seq(Cell)
    /\ is_synchronized \in BOOLEAN
    /\ sync_offset \in Nat
    /\ lastCall \in [overflow : Nat, start : Nat, packets : Nat, erased : Nat]

\* Between two calls the buffer holds at most MAX_BUFFER_SIZE bytes, nothing
\* is left half consumed (sync_offset_ is 0, although clearAll() does not reset
\* it), and while synchronised less than one packet waits.
BufferBetweenCalls ==
    /\ Len(raw_buffer) <= MaxBufferSize
    /\ sync_offset = 0
    /\ is_synchronized => Len(raw_buffer) < PacketSize
=============================================================================
