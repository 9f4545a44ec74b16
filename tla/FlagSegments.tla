---------------------------- MODULE FlagSegments ----------------------------
(***************************************************************************)
(* The record of a stream's state that gst/lib/flag_segment/flag_segment.c *)
(* keeps for cuda_postcoh and, in the same words, gstlal_gate.c for its    *)
(* control input: a sequence of segments [start, stop) with a flag, to     *)
(* whose end new segments are added.  A segment of no length only says how *)
(* far the stream has advanced.                                            *)
(***************************************************************************)
LOCAL INSTANCE Integers
LOCAL INSTANCE Sequences

Segment == [start : Nat, stop : Nat, flag : BOOLEAN]

Final(segs) == segs[Len(segs)]

IsHeartbeat(s) == s.start = s.stop

\* The new segment touches the last one and has its state.
Coalesces(segs, new) ==
  segs # <<>> /\ Final(segs).flag = new.flag /\ Final(segs).stop >= new.start

\* Mutant: a heartbeat keeps its place.
AddSegmentAfterHeartbeat(segs, new) ==
  IF Coalesces(segs, new) THEN [segs EXCEPT ![Len(segs)].stop = new.stop]
  ELSE IF segs # <<>> /\ IsHeartbeat(Final(segs))
  THEN [segs EXCEPT ![Len(segs)].stop = new.stop]
  ELSE Append(segs, new)

\* flag_segments_append and control_add_segment, unless AddFails.
AddSegment(segs, new) ==
  IF Coalesces(segs, new) THEN [segs EXCEPT ![Len(segs)].stop = new.stop]
  ELSE IF segs # <<>> /\ IsHeartbeat(Final(segs))
  THEN [segs EXCEPT ![Len(segs)] = new]
  ELSE Append(segs, new)

\* Their assertions.
AddFails(segs, new) ==
  \/ new.start > new.stop
  \/ Coalesces(segs, new) /\ new.stop < Final(segs).stop

\* Segments that end by t are over.  They are a prefix of segments in order.
Flushed(segs, t) ==
  LET kept == {i \in DOMAIN segs : segs[i].stop > t}
  IN  IF kept = {} THEN <<>>
      ELSE SubSeq(segs, CHOOSE i \in kept : \A j \in kept : i <= j, Len(segs))

\* What the segments say of time t.
Says(segs, t, flag) ==
  \E i \in DOMAIN segs :
    segs[i].start <= t /\ t < segs[i].stop /\ segs[i].flag = flag

\* Segments are in order and do not overlap, which both users assume.
Ordered(segs) ==
  /\ \A i \in DOMAIN segs : segs[i].start <= segs[i].stop
  /\ \A i, j \in DOMAIN segs : i < j => segs[i].stop <= segs[j].start
=============================================================================
