------------------------------ MODULE PCRTracking ------------------------------
(***************************************************************************)
(* The PCRs of several PIDs, kept by a PCRManager in a bounded window of   *)
(* samples per PID, with the statistics a PCRTracker keeps of them and the *)
(* values it interpolates between them.                                    *)
(*                                                                         *)
(* A PCR is a number of ticks below Wrap, read off the clock of its PID,   *)
(* which starts again at 0 when it gets to Wrap, and may go back or jump.  *)
(* A jump of more than half of Wrap cannot be told from one in the other   *)
(* direction, so the clock is taken to have made the shorter one.  What    *)
(* the code computes in milliseconds is computed in ticks here.            *)
(*                                                                         *)
(* An operator whose name ends in _Something is its namesake with a        *)
(* mistake in it, which no specification uses.                             *)
(***************************************************************************)
EXTENDS Integers, Sequences, SequencesExt, FiniteSetsExt

CONSTANTS
    Pid,
    Wrap,             \* 2^33 * 300
    MaxSamples,       \* 1000
    AverageSamples,   \* 100: over how many of them intervals are averaged
    Expected,         \* EXPECTED_PCR_INTERVAL_MS
    Threshold,        \* DISCONTINUITY_THRESHOLD_MS
    Moves,            \* by what clock and packets advance from PCR to PCR
    Starts,           \* what clocks may begin with
    MaxAdded          \* bound: how many PCRs are added

Move == [clock : Int, packets : Nat]

ASSUME TrackerAssumption ==
    /\ Wrap \in Nat \ {0} /\ Wrap % 2 = 0
    /\ MaxSamples \in Nat /\ AverageSamples \in Nat
    /\ 2 <= AverageSamples /\ AverageSamples <= MaxSamples
    /\ Expected \in Nat /\ Threshold \in Nat /\ 2 * Threshold < Wrap
    /\ MaxAdded \in Nat
    /\ Starts \subseteq 0..(Wrap - 1)
    /\ Moves \subseteq Move
    /\ \A m \in Moves : 2 * m.clock < Wrap /\ -2 * m.clock < Wrap

PCRSample == [pcr : 0..(Wrap - 1), packet_number : Nat]

\* average is total / intervals, 0 if there is no interval.
Tracker == [samples : Seq(PCRSample),
            average : [total : Nat, intervals : Nat],
            max_jitter : Nat, discontinuity_detected : BOOLEAN]

VARIABLES
    trackers,        \* PCRManager: PID -> tracker
    packet_number,   \* of the last PCR: total_packets_processed_
    added,           \* how many PCRs were added
    clock,           \* PID -> the clock its PCRs are read off
    received         \* history: PID -> every PCR since the tracker was created
                     \* or cleared, its packet, and by how much the clock
                     \* advanced to it from the PCR before

vars == <<trackers, packet_number, added, clock, received>>

-----------------------------------------------------------------------------
pcrDifference_NoWrap(pcr1, pcr2) == pcr2 - pcr1

pcrDifference(pcr1, pcr2) ==
    LET diff == pcr2 - pcr1
    IN  IF diff > Wrap \div 2 THEN diff - Wrap
        ELSE IF diff < -(Wrap \div 2) THEN diff + Wrap
        ELSE diff

\* calculateInterval()
Interval(s1, s2) == pcrDifference(s1.pcr, s2.pcr)

AbsOf(n) == IF n < 0 THEN -n ELSE n

NewTracker == [samples |-> <<>>, average |-> [total |-> 0, intervals |-> 0],
               max_jitter |-> 0, discontinuity_detected |-> FALSE]

IsJump(interval) == interval < 0 \/ interval > Threshold
IsSteady(interval) == 0 < interval /\ interval < Threshold

Limited_Never(samples) == samples
Limited_DropsNewest(samples) ==
    IF Len(samples) > MaxSamples THEN Front(samples) ELSE samples
Limited(samples) ==
    IF Len(samples) > MaxSamples THEN Tail(samples) ELSE samples

\* The average over the intervals of the last count samples that are valid; it
\* stays what it was if none is.
AverageOver(average, samples, count) ==
    LET first == Len(samples) - count
        interval == [k \in 1..(count - 1) |->
                        Interval(samples[first + k], samples[first + k + 1])]
        valid == {k \in 1..(count - 1) : IsSteady(interval[k])}
    IN  IF valid = {} THEN average
        ELSE [total |-> SumFunctionOnSet(interval, valid),
              intervals |-> Cardinality(valid)]

updateStatistics_OneMore(average, samples) ==
    AverageOver(average, samples, Min({Len(samples), AverageSamples + 1}))

updateStatistics(average, samples) ==
    AverageOver(average, samples, Min({Len(samples), AverageSamples}))

addPCR_OfWindow(t, sample) ==
    LET more == Limited(Append(t.samples, sample))
        jitters == {AbsOf(Interval(more[i], more[i + 1]) - Expected) :
                       i \in {j \in 1..(Len(more) - 1) :
                                 IsSteady(Interval(more[j], more[j + 1]))}}
    IN  [samples |-> more,
         average |-> updateStatistics(t.average, more),
         max_jitter |-> IF jitters = {} THEN 0 ELSE Max(jitters),
         discontinuity_detected |->
            t.samples # <<>> /\ IsJump(Interval(Last(t.samples), sample))]

\* PCRTracker::addPCR()
addPCR(t, sample) ==
    LET first == t.samples = <<>>
        interval == Interval(Last(t.samples), sample)
        more == Limited(Append(t.samples, sample))
    IN  [samples |-> more,
         average |-> updateStatistics(t.average, more),
         max_jitter |-> IF ~first /\ IsSteady(interval)
                        THEN Max({t.max_jitter, AbsOf(interval - Expected)})
                        ELSE t.max_jitter,
         discontinuity_detected |-> \/ t.discontinuity_detected
                                    \/ ~first /\ IsJump(interval)]

-----------------------------------------------------------------------------
(***************************************************************************)
(* interpolatePCR().  It multiplies doubles and cuts off the fraction: a   *)
(* product that is a whole number may come out one less, unless it is 0.   *)
(* A negative product is undefined when it is made unsigned: it wraps      *)
(* around, which takes it off, or becomes 0.                               *)
(***************************************************************************)
Quotient(a, b) ==
    IF a < 0 THEN {-((-a) \div b), 0}
    ELSE {a \div b} \cup {q \in {a \div b - 1} : a # 0 /\ a % b = 0}

\* PCR of packet p, between samples s1 and s2, or behind them.
Between_FromSecond(s1, s2, p) ==
    {s2.pcr + q : q \in Quotient(Interval(s1, s2) * (p - s1.packet_number),
                                 s2.packet_number - s1.packet_number)}

Between(s1, s2, p) ==
    {s1.pcr + q : q \in Quotient(Interval(s1, s2) * (p - s1.packet_number),
                                 s2.packet_number - s1.packet_number)}

Behind(s1, s2, p) ==
    LET packets == s2.packet_number - s1.packet_number
    IN  IF packets > 0 /\ Interval(s1, s2) > 0
        THEN {s2.pcr + q : q \in Quotient(
                 Interval(s1, s2) * (p - s2.packet_number), packets)}
        ELSE {}

\* The values it may return, none for nullopt.
interpolatePCR(samples, p) ==
    LET later == {i \in DOMAIN samples : samples[i].packet_number > p}
        before == IF later = {} THEN Len(samples) ELSE Min(later) - 1
    IN  IF Len(samples) < 2 \/ before = 0 THEN {}
        ELSE IF later # {} THEN Between(samples[before], samples[before + 1], p)
        ELSE Behind(samples[before - 1], samples[before], p)

-----------------------------------------------------------------------------
(***************************************************************************)
(* PCRManager, and a clock for every PID that PCRs are read off.           *)
(***************************************************************************)
TrackerOf(pid) ==
    IF pid \in DOMAIN trackers THEN trackers[pid] ELSE NewTracker

Init ==
    /\ trackers = <<>>
    /\ packet_number = 0 /\ added = 0
    /\ clock \in [Pid -> Starts]
    /\ received = [pid \in Pid |-> <<>>]

\* PCRManager::addPCR(): a tracker is created when there is none.
AddPCR(pid, move) ==
    LET now == (clock[pid] + move.clock) % Wrap
        packet == packet_number + move.packets
        new == addPCR(TrackerOf(pid),
                      [pcr |-> now, packet_number |-> packet])
    IN  /\ added < MaxAdded
        /\ added' = added + 1
        /\ clock' = [clock EXCEPT ![pid] = now]
        /\ packet_number' = packet
        /\ trackers' = [q \in DOMAIN trackers \cup {pid} |->
                           IF q = pid THEN new ELSE trackers[q]]
        /\ received' = [received EXCEPT ![pid] =
                           Append(@, [pcr |-> now, advance |-> move.clock,
                                      packet |-> packet])]

\* clear() of the tracker that getTracker() returns.
ClearTracker(pid) ==
    /\ pid \in DOMAIN trackers
    /\ trackers' = [trackers EXCEPT ![pid] = NewTracker]
    /\ received' = [received EXCEPT ![pid] = <<>>]
    /\ UNCHANGED <<packet_number, added, clock>>

\* PCRManager::clear()
ClearManager ==
    /\ trackers' = <<>>
    /\ received' = [pid \in Pid |-> <<>>]
    /\ UNCHANGED <<packet_number, added, clock>>

Next ==
    \/ \E pid \in Pid, move \in Moves : AddPCR(pid, move)
    \/ \E pid \in Pid : ClearTracker(pid)
    \/ ClearManager

Spec == Init /\ [][Next]_vars

-----------------------------------------------------------------------------
(***************************************************************************)
(* Properties.                                                             *)
(***************************************************************************)
Receipt == [pcr : 0..(Wrap - 1), advance : Int, packet : Nat]

TypeOK ==
    /\ DOMAIN trackers \subseteq Pid
    /\ trackers \in [DOMAIN trackers -> Tracker]
    /\ \A pid \in DOMAIN trackers : Len(trackers[pid].samples) <= MaxSamples
    /\ packet_number \in Nat /\ added \in 0..MaxAdded
    /\ clock \in [Pid -> 0..(Wrap - 1)]
    /\ received \in [Pid -> Seq(Receipt)]

\* By how much the clock of pid advanced from its i-th PCR to the next.
Advance(pid, i) == received[pid][i + 1].advance

\* The window is the last of the PCRs received since the last clear, in their
\* order, at most MaxSamples and no fewer: getLastPCR() is the most recent,
\* and one PID's PCRs never get into the window of another.
WindowIsRecent ==
    \A pid \in Pid :
        LET n == Len(received[pid])
            samples == TrackerOf(pid).samples
            dropped == n - Len(samples)
        IN  /\ Len(samples) = Min({n, MaxSamples})
            /\ \A i \in DOMAIN samples :
                  samples[i] =
                     [pcr |-> received[pid][dropped + i].pcr,
                      packet_number |-> received[pid][dropped + i].packet]

\* The discontinuity flag says whether the clock ever went back or jumped
\* since the last clear, also when the PCRs have left the window, and is not
\* set by the PCR wrapping around.
DiscontinuityIsJump ==
    \A pid \in Pid :
        TrackerOf(pid).discontinuity_detected <=>
            \E i \in 1..(Len(received[pid]) - 1) : IsJump(Advance(pid, i))

\* The jitter is the largest by which an advance of the clock that is no jump
\* was off the expected one, over all PCRs since the last clear.
JitterIsLargest ==
    \A pid \in Pid :
        LET steady == {i \in 1..(Len(received[pid]) - 1) :
                          IsSteady(Advance(pid, i))}
            jitters == {AbsOf(Advance(pid, i) - Expected) : i \in steady}
        IN  TrackerOf(pid).max_jitter = Max(jitters \cup {0})

\* The average is that of the clock over the last AverageSamples PCRs, of the
\* advances that are no jumps, if there is one.
AverageIsOfClock ==
    \A pid \in Pid :
        LET n == Len(received[pid])
            count == Min({n, AverageSamples})
            advance == [k \in 1..(count - 1) |-> Advance(pid, n - count + k)]
            steady == {k \in 1..(count - 1) : IsSteady(advance[k])}
        IN  steady # {} =>
               TrackerOf(pid).average =
                  [total |-> SumFunctionOnSet(advance, steady),
                   intervals |-> Cardinality(steady)]

\* ticks is, to within one tick, advance * part / whole.
IsShare(ticks, advance, part, whole) ==
    AbsOf(ticks * whole - advance * part) <= whole

\* Before its share of the advance is over the clock has not wrapped around.
StaysBelowWrap(from, advance, part, whole) ==
    from * whole + advance * part < Wrap * whole

\* What interpolatePCR() returns is where the clock was at the packet, had it
\* advanced evenly between the PCRs around it, or on from the last two, and is
\* a valid PCR, provided the clock did not go back, nor stop before the last
\* PCR, and wrapped around only behind the packet.  If it wrapped before, the
\* value is no PCR: InterpolatedIsValid below.
InterpolationFollowsClock ==
    \A pid \in Pid :
        LET n == Len(received[pid])
            samples == TrackerOf(pid).samples
            pcr(i) == received[pid][i].pcr
            packet(i) == received[pid][i].packet
        IN  \A i \in (n - Len(samples) + 1)..(n - 1) :
               LET whole == packet(i + 1) - packet(i)
                   advance == Advance(pid, i)
               IN  /\ advance >= 0 =>
                         \A p \in packet(i)..(packet(i + 1) - 1) :
                            LET values == interpolatePCR(samples, p)
                                part == p - packet(i)
                            IN  /\ values # {}
                                /\ StaysBelowWrap(pcr(i), advance, part, whole)
                                     => \A v \in values :
                                           /\ v < Wrap
                                           /\ v - pcr(i) \in 0..advance
                                           /\ IsShare(v - pcr(i), advance,
                                                      part, whole)
                   /\ i = n - 1 /\ advance > 0 /\ whole > 0 =>
                         \A p \in packet(n)..(packet(n) + whole) :
                            LET values == interpolatePCR(samples, p)
                                part == p - packet(n)
                            IN  /\ values # {}
                                /\ StaysBelowWrap(pcr(n), advance, part, whole)
                                     => \A v \in values :
                                           /\ v < Wrap
                                           /\ IsShare(v - pcr(n), advance,
                                                      part, whole)

-----------------------------------------------------------------------------
\* "PCR base (33 bits, 90 kHz)" (mpegts_pcr.hpp:25): what interpolatePCR()
\* returns for the packets of the window isValid().  The code adds to the PCR
\* before the packet and does not start again at 0.
InterpolatedIsValid ==
    \A pid \in Pid :
        LET samples == TrackerOf(pid).samples
            span == Last(samples).packet_number - Head(samples).packet_number
        IN  Len(samples) >= 2 =>
               \A k \in 0..span :
                  \A v \in interpolatePCR(samples,
                                          Head(samples).packet_number + k) :
                     v < Wrap
=============================================================================
