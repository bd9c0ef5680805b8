----------------------------- MODULE MCSyncStream -----------------------------
(***************************************************************************)
(* SyncStream with packets of three cells and a buffer of eight packets: an*)
(* optional piece of leading garbage, then packets of one PID, or of       *)
(* several interleaved ones, with or without a corruption after the third. *)
(***************************************************************************)
EXTENDS SyncStream

MCPacketSize == 3
H(pid, cc) == [pid |-> pid, cc |-> cc % CcModulus, disc |-> FALSE,
               payload |-> TRUE, rest |-> "rest"]

\* A packet: its header, then payload that may look like a sync byte.
Packet(h, i) == <<h, IF i % 3 = 0 THEN BadHeader ELSE NoSync, NoSync>>

OnePid(n, from) ==
    FlattenSeq([i \in 1..n |-> Packet(H("video", from + i), i)])
\* The PIDs in the order given, each with its own counter.
Mixed(pids) ==
    FlattenSeq([i \in DOMAIN pids |->
        Packet(H(pids[i], Cardinality({j \in 1..i : pids[j] = pids[i]})), i)])
\* The counter jumps at the second packet, which announces it.
Announced(n) ==
    Packet(H("video", 1), 1) \o
    Packet([H("video", 3) EXCEPT !.disc = TRUE], 2) \o OnePid(n - 2, 3)

Garbage == {<<>>, <<NoSync>>, <<BadHeader, NoSync>>,
            <<NoSync, H("data", 2), NoSync>>}

Starts(g, n) == [i \in 1..n |-> Len(g) + (i - 1) * MCPacketSize]

OnePidWires ==
    {[cells |-> g \o s, starts |-> Starts(g, 7), intact |-> TRUE] :
        g \in Garbage, s \in {OnePid(7, 0), Announced(7)}}

\* Two PIDs that alternate; the second confirmed first; the first PID's third
\* packet the last one inside the search window, and the first one outside.
PidOrders ==
    LET v == "video"  a == "audio"  d == "data"
    IN  {<<v, a, v, a, v, a, v>>, <<v, v, a, a, a, v, a>>,
         <<v, v, a, d, a, v, d>>, <<v, v, a, d, a, d, v>>,
         <<v, a, d, v, a, d, a>>}

MixedWires ==
    {[cells |-> g \o Mixed(pids), starts |-> Starts(g, 7), intact |-> TRUE] :
        g \in Garbage, pids \in PidOrders}

Corruption == {<<NoSync>>, <<BadHeader, NoSync>>, <<H("video", 3)>>,
               <<H("audio", 1), NoSync>>, <<NoSync, NoSync, NoSync>>}

CorruptWires ==
    {[cells |-> OnePid(n, 0) \o c \o OnePid(7, n + skip),
      starts |-> <<>>, intact |-> FALSE] :
        n \in {2, 4}, c \in Corruption, skip \in {0, 1}}

\* For SyncDocs.cfg: three PIDs, then more of the third and a corruption.
DocWires ==
    {[cells |-> Mixed(<<"audio", "data", "video", "video", "video">>)
                   \o <<NoSync>> \o OnePid(2, 3),
      starts |-> <<>>, intact |-> FALSE]}

MCWires == OnePidWires \cup MixedWires \cup CorruptWires
MCHeaderPid == {"video", "audio", "data"}
MCChunkSizes == {1, 2, 4, 11}
=============================================================================
