---------------------------- MODULE MCPCRTracking ----------------------------
(***************************************************************************)
(* PCRTracking with a clock of 20 ticks, 5 of which are a discontinuity:   *)
(* clocks that go back, stand still, are early or late, or jump.           *)
(***************************************************************************)
EXTENDS PCRTracking

MCMoves ==
    {[clock |-> c, packets |-> 2] : c \in {-3, 2, 3, 9}}
        \cup {[clock |-> 4, packets |-> 3], [clock |-> 0, packets |-> 1],
              [clock |-> 2, packets |-> 0]}

\* For PCRWrap.cfg: a clock with nothing wrong.
SteadyMoves == {[clock |-> 2, packets |-> 2]}

PidSymmetry == Permutations(Pid)
=============================================================================
