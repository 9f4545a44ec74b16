---------------------------- MODULE MCFarLedger ----------------------------
(* Instances of FarLedger for TLC: a loop for each of two workers and, in  *)
(* one of them, an update by hand beside the loop of the first.            *)
EXTENDS FarLedger

\* The second worker finds less, misses a chunk.
MCTriggers == <<{0, 1, 2, 3, 4}, {0, 1, 3, 4}>>
MCChunks == <<1..5, {2, 3, 4, 5}>>

\* The second loop starts when its worker has found all.
MCStarted == <<3, 5>>

\* A run with the first worker alone.
MCStartedAlone == <<2>>

MCWorkerOf == [p \in Updaters |-> IF p = "loop 2" THEN 2 ELSE 1]
=============================================================================
