----------------------------- MODULE PacketStore -----------------------------
(***************************************************************************)
(* What the storage of the demuxer promises, whatever maps and ids it uses *)
(* for it: of every PID a sequence of units, each a sequence of packets,   *)
(* which grows at its end only and is taken away in whole units.  Packets  *)
(* are numbered in the order in which they are received.                   *)
(***************************************************************************)
EXTENDS Integers, Sequences, SequencesExt

CONSTANT Pid

VARIABLES
    received,   \* how many packets so far
    units,      \* PID -> its units
    open        \* the PIDs whose last unit is not finished

storeVars == <<received, units, open>>

StoreInit ==
    /\ received = 0
    /\ units = [q \in Pid |-> <<>>]
    /\ open = {}

\* A packet that is filtered out
Ignore ==
    /\ received' = received + 1
    /\ UNCHANGED <<units, open>>

\* A packet that begins a unit; the PID's open unit, if any, is finished.
Begin(q) ==
    /\ received' = received + 1
    /\ units' = [units EXCEPT ![q] = Append(@, <<received + 1>>)]
    /\ open' = open \cup {q}

\* A packet that belongs to the open unit
Extend(q) ==
    /\ q \in open
    /\ received' = received + 1
    /\ units' = [units EXCEPT ![q][Len(units[q])] = Append(@, received + 1)]
    /\ UNCHANGED open

FinishAll ==
    /\ open' = {}
    /\ UNCHANGED <<received, units>>

Finished(q) == IF q \in open THEN Len(units[q]) - 1 ELSE Len(units[q])

RemoveUnit(q) ==
    /\ \E i \in 1..Finished(q) :
          units' = [units EXCEPT ![q] = RemoveAt(@, i)]
    /\ UNCHANGED <<received, open>>

\* Everything that is finished goes, of the PIDs in P.
RemoveFinished(P) ==
    /\ units' = [q \in Pid |->
                    IF q \in P
                    THEN SubSeq(units[q], Finished(q) + 1, Len(units[q]))
                    ELSE units[q]]
    /\ UNCHANGED <<received, open>>

RemoveAll ==
    /\ units' = [q \in Pid |-> <<>>]
    /\ open' = {}
    /\ UNCHANGED received

StoreNext ==
    \/ Ignore
    \/ \E q \in Pid : Begin(q) \/ Extend(q) \/ RemoveUnit(q)
    \/ FinishAll
    \/ \E P \in SUBSET Pid : RemoveFinished(P)
    \/ RemoveAll

StoreSpec == StoreInit /\ [][StoreNext]_storeVars
=============================================================================
