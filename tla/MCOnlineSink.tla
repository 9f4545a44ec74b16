---------------------------- MODULE MCOnlineSink ----------------------------
(* An instance of OnlineSink for TLC: a second of data lasts two units.    *)
EXTENDS OnlineSink, TLC

T(end, cohsnr, bankid, far) ==
  [end |-> end, cohsnr |-> cohsnr, bankid |-> bankid, tmplt_idx |-> 0, far |-> far]

\* Four events in three seconds.  The FARs rise and fall: the third is held back by
\* the trigger control, and the fourth improves on it only.
MCTriggers ==
  {T(2, 2, 2, 10), T(5, 2, 1, 25), T(4, 2, 2, 2), T(6, 2, 3, 20)}

\* The first two banks start late; the first ends early, the second misses a second
\* and the third the last one.
MCStreams == (1 :> <<2, 4>>) @@ (2 :> <<2, 4, 8>>) @@ (3 :> <<0, 2, 4, 6>>)

MCTimestamps == {0, 2, 4, 6, 8}
=============================================================================
