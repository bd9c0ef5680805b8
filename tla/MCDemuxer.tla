------------------------------ MODULE MCDemuxer ------------------------------
(***************************************************************************)
(* Demuxer with packets of three cells: streams of units of two PIDs and   *)
(* of packets of a system PID, one of them corrupted in the middle.        *)
(***************************************************************************)
EXTENDS Demuxer

MCPacketSize == 3
MCHeaderPid == {"pat", "video", "audio"}
MCSystemPid == {"pat"}
MCTables == {{"video"}, {"audio", "pat"}}

Plain == [field |-> FALSE, empty |-> TRUE, flags |-> {}, priv |-> 0,
          stuffing |-> 0, payload |-> TRUE]
Field(flags, priv, stuffing) ==
    [Plain EXCEPT !.field = TRUE, !.empty = FALSE, !.flags = flags,
                  !.priv = priv, !.stuffing = stuffing]

\* Packets with and without an adaptation field: PCR, OPCR and private data;
\* an empty field, behind which the payload looks like flags and a length; one
\* that leaves no payload byte.
Layouts ==
    <<Plain, Field({"pcr", "opcr", "private"}, 2, 1),
      [Plain EXCEPT !.field = TRUE, !.flags = {"discontinuity", "private"},
                    !.priv = 2],
      Field({"splicing", "private"}, 3, 0),
      Field({"discontinuity"}, 0, 19)>>

\* The k-th packet of a PID; every other one starts a unit, the counters begin
\* at 14.
SentPacket(pid, k, layout) ==
    [pid |-> pid, pusi |-> k % 2 = 0, cc |-> (13 + k) % CcModulus]
       @@ Layouts[layout]

MCRest == {SentPacket(pid, k, layout) :
             pid \in MCHeaderPid, k \in 1..7, layout \in DOMAIN Layouts}

\* The PIDs in the order given, each with its own counter
Stream(pids, shift) ==
    FlattenSeq([i \in DOMAIN pids |->
        LET k == Cardinality({j \in 1..i : pids[j] = pids[i]})
        IN  <<HeaderOf(SentPacket(pids[i], k, 1 + ((i + shift) % 5))),
              BadHeader, NoSync>>])

Starts(n, from) == [i \in 1..n |-> from + (i - 1) * MCPacketSize]

V == "video"  A == "audio"  P == "pat"

MCWires ==
    {[cells |-> <<NoSync>> \o Stream(<<V, V, A, V, P, A, A>>, 0),
      starts |-> Starts(7, 1), intact |-> TRUE],
     [cells |-> Stream(<<A, P, V, P, V, P>>, 2),
      starts |-> Starts(6, 0), intact |-> TRUE],
     [cells |-> SubSeq(Stream(<<V, V, V, V, V, V>>, 1), 1, 10)
                   \o SubSeq(Stream(<<V, V, V, V, V, V>>, 1), 12, 18),
      starts |-> <<>>, intact |-> FALSE]}

MCChunkSizes == {1, 5, 8}
=============================================================================
