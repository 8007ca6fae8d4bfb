------------------------------ MODULE MCScheduler ------------------------------
(* Small instances of the scheduler for TLC.                               *)
EXTENDS Scheduler

CONSTANTS op1, op2

Base == [frame |-> 0, start |-> 0, len |-> 1, prio |-> P1_TX, handle |-> 1,
         range |-> FALSE, lo |-> 0, hi |-> 0, ival |-> 0, left |-> 0,
         done |-> TRUE, cnt |-> FALSE]

\* Two one-shot transmissions of one priority that can share a frame.
TwoShots ==
  op1 :> [Base EXCEPT !.handle = 1] @@ op2 :> [Base EXCEPT !.handle = 2, !.start = 2]

\* A counted interval operation that takes a handle of its range for each turn,
\* and the reception of a background scan that collides with it in one frame.
PairOfIntervals ==
  op1 :> [Base EXCEPT !.handle = 3, !.range = TRUE, !.lo = 3, !.hi = 4, !.ival = 2, !.left = 2]
    @@ op2 :> [Base EXCEPT !.handle = 2, !.ival = 2, !.prio = P1_RX]

\* A neighbour that is heard late.
Later == {1}
================================================================================
