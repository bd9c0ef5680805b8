----------------------------- MODULE SyncRecovery -----------------------------
(***************************************************************************)
(* The synchronizer at the end of a transmission that never stops: packets *)
(* of one PID with consecutive counters, which a bounded number of         *)
(* disturbances may corrupt, and a user who keeps calling feedData() and   *)
(* may call clearAll().  A chunk ends anywhere in a packet; the rest of    *)
(* the packet is in the next one.                                          *)
(***************************************************************************)
EXTENDS Synchronizer

CONSTANTS
    MaxDisturbances,   \* bound on what goes wrong
    Noise,             \* cells that may get in between
    Filler             \* what a packet carries behind its header

ASSUME RecoveryAssumption ==
    /\ MaxDisturbances \in Nat
    /\ Noise \subseteq Seq(Cell)
    /\ Filler \in Cell

VARIABLES
    rest,          \* cells of a packet not fed yet
    nextCc,        \* counter of the next packet
    disturbances   \* so far

recoveryVars == <<vars, rest, nextCc, disturbances>>

Stream == CHOOSE pid \in HeaderPid : TRUE
PacketCells(cc) ==
    [i \in 1..PacketSize |->
        IF i = 1 THEN [pid |-> Stream, cc |-> cc, disc |-> FALSE,
                       payload |-> TRUE, rest |-> CHOOSE r \in Rest : TRUE]
        ELSE Filler]

RecoveryInit ==
    /\ Init
    /\ rest = <<>>
    /\ nextCc = 0
    /\ disturbances = 0

\* The rest of the last packet and the first k cells of the next one.
Send(k) ==
    LET packet == PacketCells(nextCc)
    IN  /\ feedData(rest \o SubSeq(packet, 1, k))
        /\ rest' = SubSeq(packet, k + 1, PacketSize)
        /\ nextCc' = (nextCc + 1) % CcModulus
        /\ UNCHANGED disturbances

\* Noise arrives behind the packet, or instead of its last cell, or the rest
\* of the packet never arrives.
Disturb(noise) ==
    /\ disturbances < MaxDisturbances
    /\ disturbances' = disturbances + 1
    /\ \E k \in 0..Len(rest) :
          /\ SubSeq(rest, 1, k) \o noise # <<>>
          /\ feedData(SubSeq(rest, 1, k) \o noise)
    /\ rest' = <<>>
    /\ UNCHANGED nextCc

\* A whole packet is lost before it reaches the demuxer.
LosePacket ==
    /\ disturbances < MaxDisturbances
    /\ disturbances' = disturbances + 1
    /\ nextCc' = (nextCc + 1) % CcModulus
    /\ UNCHANGED <<vars, rest>>

\* One feedData() call with more noise than the buffer holds: everything that
\* waited in it is dropped, and so is the front of the noise.
Burst(noise) ==
    /\ disturbances < MaxDisturbances
    /\ disturbances' = disturbances + 1
    /\ feedData([i \in 1..MaxBufferSize |-> Filler] \o noise)
    /\ rest' = <<>>
    /\ UNCHANGED nextCc

UserClears ==
    /\ disturbances < MaxDisturbances
    /\ disturbances' = disturbances + 1
    /\ clearAll
    /\ UNCHANGED <<rest, nextCc>>

RecoveryNext ==
    \/ \E k \in 1..PacketSize : Send(k)
    \/ \E noise \in Noise : Disturb(noise)
    \/ \E noise \in Noise : Burst(noise)
    \/ LosePacket
    \/ UserClears

\* The user calls feedData() regularly, as ideas/todo.md asks, and the sender
\* does not stop: the next packet is always sent, whatever is disturbed in
\* between.  Of the steps only Send counts a packet and no disturbance.
PacketSent ==
    /\ nextCc' = (nextCc + 1) % CcModulus
    /\ UNCHANGED disturbances

Fairness == WF_nextCc(PacketSent)

RecoverySpec == RecoveryInit /\ [][RecoveryNext]_recoveryVars /\ Fairness

-----------------------------------------------------------------------------
\* "Adaptive synchronization - recovers from noise and interference": once
\* nothing goes wrong any more the demuxer becomes synchronised for good, and
\* to where the packets really start, although it keeps the corrupted bytes,
\* and loses synchronisation at them again, until the buffer overflows.
InStep == (Len(raw_buffer) + Len(rest)) % PacketSize = 0

SynchronizesForGood == <>[](is_synchronized /\ InStep)
=============================================================================
