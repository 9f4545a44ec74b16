----------------------------- MODULE MCFinalSink -----------------------------
(* Instances of FinalSink for TLC.  A buffer, a second of data, lasts two  *)
(* time units, or three where the triggers end before their buffers.       *)
EXTENDS FinalSink

T(end, cohsnr, bankid, far) ==
  [end |-> end, cohsnr |-> cohsnr, bankid |-> bankid, tmplt_idx |-> 0, far |-> far]

\* Two banks over four buffers.  Equal SNRs at different ends and at the same
\* end exercise every tie-break.
MCTriggers ==
  {T(0, 1, 1, 50), T(1, 2, 2, 20), T(2, 2, 1, 30), T(3, 1, 2, 10),
   T(4, 3, 1, 2), T(4, 3, 2, 1), T(6, 2, 1, 25)}

\* The same in a finer unit, with triggers that end before the buffer that brings
\* them.
MCLateTriggers ==
  {T(0, 1, 1, 50), T(2, 2, 2, 20), T(3, 1, 1, 10), T(4, 4, 2, 2), T(6, 1, 2, 5),
   T(8, 3, 1, 9), T(8, 3, 2, 4)}

MCLateTimestamps == {0, 3, 6, 9}

MCTimestamps == {0, 2, 4, 6}
=============================================================================
