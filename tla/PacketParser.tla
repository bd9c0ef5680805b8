----------------------------- MODULE PacketParser -----------------------------
(***************************************************************************)
(* TSPacket::parse(): what the demuxer learns from the bytes of a packet.  *)
(* Every caller parses into a new TSPacket, so parse() is a function of    *)
(* the bytes.                                                              *)
(*                                                                         *)
(* A packet's bytes are its header, its flags byte as the set of the flags *)
(* it has, and the numbers in the other bytes; positions count from 0.     *)
(* Build is the reference: how a sender lays out what it wants to send,    *)
(* after ISO/IEC 13818-1 as far as the test packet generator follows it.   *)
(* Not modelled: transport_priority, scrambling_control and the flags that *)
(* are only copied, which nothing reads; the contents of the payload, the  *)
(* private data and the PCR, which parse() does not read either.           *)
(*                                                                         *)
(* An operator whose name ends in _Something is its namesake with a        *)
(* mistake in it; no specification uses one, they are there to show which  *)
(* property notices the mistake.                                           *)
(***************************************************************************)
EXTENDS Integers

CONSTANTS
    PacketBytes,   \* MPEGTS_PACKET_SIZE: 188
    Pid            \* 13-bit PIDs

\* Room for a header and a flags byte, lengths that fit in a byte
BytesRange == PacketBytes \in 6..188

Byte == 0..255

\* AdaptationFieldControl
Control == {"reserved", "payload", "adaptation", "both"}

\* The flags parse() acts on, in the order of their fields
Flag == {"discontinuity", "pcr", "opcr", "splicing", "private"}

Bytes == [tei : BOOLEAN, pusi : BOOLEAN, pid : Pid, cc : 0..15,
          control : Control, flags : SUBSET Flag,
          at : [4..(PacketBytes - 1) -> Byte]]

HasAdaptation(b) == b.control \in {"adaptation", "both"}
HasPayload(b) == b.control \in {"payload", "both"}

-----------------------------------------------------------------------------
(***************************************************************************)
(* The parser.                                                             *)
(***************************************************************************)
headerIsValid(b) == ~b.tei /\ b.control # "reserved"

\* The adaptation field's length byte, and the position behind the field.
FieldLength(b) == b.at[4]
FieldEnd(b) == 5 + FieldLength(b)

Size(b, flag, n) == IF flag \in b.flags THEN n ELSE 0

\* Where the private data's length byte is: behind the PCR, the OPCR and the
\* splicing countdown, those of them that are there.
PrivateAt(b) ==
    6 + Size(b, "pcr", 6) + Size(b, "opcr", 6) + Size(b, "splicing", 1)

\* The optional fields must end inside the adaptation field.
fieldIsValid(b) ==
    \/ FieldLength(b) = 0
    \/ /\ FieldEnd(b) <= PacketBytes
       /\ PrivateAt(b) <= FieldEnd(b)
       /\ "private" \in b.flags =>
            /\ PrivateAt(b) + 1 <= FieldEnd(b)
            /\ PrivateAt(b) + 1 + b.at[PrivateAt(b)] <= FieldEnd(b)

Parses(b) ==
    /\ headerIsValid(b)
    /\ HasAdaptation(b) => fieldIsValid(b)

FlagSet_OfAnyField(b, flag) == HasAdaptation(b) /\ flag \in b.flags

\* A field of length 0 has no flags.
FlagSet(b, flag) ==
    HasAdaptation(b) /\ FieldLength(b) > 0 /\ flag \in b.flags

\* The bytes behind the PCR and the splicing countdown, OPCR or not
PrivateLength_NoOpcr(b) ==
    IF FlagSet(b, "private")
    THEN b.at[6 + Size(b, "pcr", 6) + Size(b, "splicing", 1)] ELSE 0

PrivateLength(b) ==
    IF FlagSet(b, "private") THEN b.at[PrivateAt(b)] ELSE 0

PayloadOffset_ForgetsLength(b) ==
    IF HasAdaptation(b) THEN 4 + FieldLength(b) ELSE 4

PayloadOffset(b) == IF HasAdaptation(b) THEN FieldEnd(b) ELSE 4

\* What the accessors of TSPacket return after parse(b) has succeeded.
parse(b) ==
    [pid |-> b.pid, pusi |-> b.pusi, cc |-> b.cc,
     disc |-> FlagSet(b, "discontinuity"),
     payload |-> HasPayload(b),
     priv |-> PrivateLength(b),
     pay |-> IF HasPayload(b) THEN PacketBytes - PayloadOffset(b) ELSE 0]

-----------------------------------------------------------------------------
(***************************************************************************)
(* The sender.                                                             *)
(***************************************************************************)

\* What is to be sent: field says whether there is an adaptation field, empty
\* whether it is its length byte only; priv is the length of the private data,
\* if flags has "private"; stuffing fills the field.  Behind an empty field,
\* flags is what the byte there, which is none of the field's, looks like.
Sent == [pid : Pid, pusi : BOOLEAN, cc : 0..15, payload : BOOLEAN,
         field : BOOLEAN, empty : BOOLEAN, flags : SUBSET Flag,
         priv : Byte, stuffing : Byte]

Takes(s, flag, n) == IF flag \in s.flags THEN n ELSE 0

\* The lengths the sender's fields take behind the flags byte
Optional(s) ==
    Takes(s, "pcr", 6) + Takes(s, "opcr", 6) + Takes(s, "splicing", 1)
PrivateSize(s) == Takes(s, "private", 1 + s.priv)

\* The adaptation field, without its length byte
AdaptationSize(s) ==
    IF s.empty THEN 0 ELSE 1 + Optional(s) + PrivateSize(s) + s.stuffing

\* A packet has a field or a payload, and the field leaves room for the latter.
Sendable(s) ==
    /\ s.field \/ s.payload
    /\ s.field => 5 + AdaptationSize(s) <= PacketBytes

Build(s) ==
    [tei |-> FALSE, pusi |-> s.pusi, pid |-> s.pid, cc |-> s.cc,
     control |-> IF ~s.field THEN "payload"
                 ELSE IF s.payload THEN "both" ELSE "adaptation",
     flags |-> s.flags,
     at |-> [i \in 4..(PacketBytes - 1) |->
                IF s.field /\ i = 4 THEN AdaptationSize(s)
                ELSE IF "private" \in s.flags /\ i = 6 + Optional(s) THEN s.priv
                ELSE 255]]

\* What a receiver should find in a packet: the payload fills what the header
\* of four bytes and the field, if any, leave.
Meaning(s) ==
    [pid |-> s.pid, pusi |-> s.pusi, cc |-> s.cc,
     disc |-> s.field /\ ~s.empty /\ "discontinuity" \in s.flags,
     payload |-> s.payload,
     priv |-> IF s.field /\ ~s.empty /\ "private" \in s.flags
              THEN s.priv ELSE 0,
     pay |-> IF ~s.payload THEN 0
             ELSE IF s.field THEN PacketBytes - 5 - AdaptationSize(s)
             ELSE PacketBytes - 4]
=============================================================================
