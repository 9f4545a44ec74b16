------------------------------ MODULE AssignFar ------------------------------
(***************************************************************************)
(* The element cohfar_assignfar of gst/cuda/cohfar/cohfar_assignfar.c.  It *)
(* assigns FARs from three files of marginalised background, which the     *)
(* subprocesses of FapUpdater replace, each by a rename, while it runs.    *)
(* Nothing is assigned in the silent time nor before all three files could *)
(* be read; afterwards they are read again from time to time.              *)
(*                                                                         *)
(* Timestamps are in units of which SECOND make a second (nanoseconds in   *)
(* the code), the properties of the element are in seconds.                *)
(***************************************************************************)
EXTENDS Integers, Sequences

CONSTANTS
  SECOND,                  \* GST_SECOND
  SilentTime,              \* silent_time
  RefreshInterval,         \* refresh_interval; 0 turns refreshing off
  RefreshOffset,           \* refresh_offset
  MaxGap,                  \* the longest time between buffers, in seconds
  MaxTime, MaxVersion,     \* bounds of the model
  None                     \* GST_CLOCK_TIME_NONE, or no file

ASSUME UnitsAssumption ==
  /\ SECOND \in Nat \ {0}
  /\ {SilentTime, RefreshInterval, RefreshOffset, MaxTime} \subseteq Nat
  /\ {MaxGap, MaxVersion} \subseteq Nat \ {0}
  /\ RefreshOffset < SECOND /\ None \notin Int

Scales == <<"1w", "1d", "2h">>

VARIABLES
  t_cur,                   \* timestamp of the buffer being transformed
  t_start,
  t_roll_start,
  pass_silent_time,
  pc,                      \* "idle", "initial", "refresh" or "assign"
  scale,                   \* index of the file read next
  bgstats,                 \* per scale, the version loaded, or None
  input,                   \* per scale, the version on disk, or None
  reads,                   \* since the initial one, the timestamps of reading
  assigned                 \* the last assignment: [at, bgstats], or None

element == <<t_start, t_roll_start, pass_silent_time>>
vars == <<t_cur, element, pc, scale, bgstats, input, reads, assigned>>

Init ==
  /\ t_cur = None /\ t_start = None /\ t_roll_start = None
  /\ pass_silent_time = FALSE
  /\ pc = "idle" /\ scale = 1
  /\ bgstats = [k \in 1..3 |-> None] /\ input = [k \in 1..3 |-> None]
  /\ reads = <<>> /\ assigned = None

\* A marginalisation renames its output over the file of one scale.
Publish(k) ==
  /\ input[k] # MaxVersion
  /\ input' = [input EXCEPT ![k] = IF @ = None THEN 1 ELSE @ + 1]
  /\ UNCHANGED <<t_cur, element, pc, scale, bgstats, reads, assigned>>

Elapsed(from, to) == (to - from) \div SECOND

\* transform_ip up to the reading of files.
Transform(ts) ==
  LET start      == IF t_start = None THEN ts ELSE t_start
      initial    == t_roll_start = None /\ Elapsed(start, ts) >= SilentTime
      refreshDue == /\ pass_silent_time /\ RefreshInterval > 0
                    /\ Elapsed(t_roll_start, ts) - RefreshOffset > RefreshInterval
  IN  /\ pc = "idle"
      /\ t_cur' = ts
      /\ t_start' = start
      /\ scale' = 1
      /\ \/ /\ initial
            /\ pass_silent_time' = TRUE
            /\ t_roll_start' = ts
            /\ pc' = "initial"
         \/ /\ ~initial /\ refreshDue
            /\ t_roll_start' = ts - RefreshOffset
            /\ pc' = "refresh"
            /\ UNCHANGED pass_silent_time
         \/ /\ ~initial /\ ~refreshDue
            /\ pc' = "assign"
            /\ UNCHANGED <<pass_silent_time, t_roll_start>>
      /\ UNCHANGED <<bgstats, input, reads, assigned>>

\* trigger_stats_xml_from_xml leaves the statistics alone if there is no file.
Read(k) == bgstats' = [bgstats EXCEPT ![k] = IF input[k] = None THEN @ ELSE input[k]]

NextScale ==
  IF scale < Len(Scales)
  THEN scale' = scale + 1 /\ UNCHANGED <<pc, reads>>
  ELSE /\ pc' = "assign"
       /\ reads' = IF pass_silent_time' THEN Append(reads, t_cur) ELSE <<>>
       /\ UNCHANGED scale

\* Mutant: the file read last decides.
ReadInitialLastDecides ==
  /\ pc = "initial"
  /\ Read(scale)
  /\ IF input[scale] = None
     THEN pass_silent_time' = FALSE /\ t_roll_start' = None
     ELSE pass_silent_time' = TRUE /\ t_roll_start' = t_cur
  /\ NextScale
  /\ UNCHANGED <<t_cur, t_start, input, assigned>>

\* A missing file undoes the start: the next buffer tries again.
ReadInitial ==
  /\ pc = "initial"
  /\ Read(scale)
  /\ IF input[scale] = None
     THEN pass_silent_time' = FALSE /\ t_roll_start' = None
     ELSE UNCHANGED <<pass_silent_time, t_roll_start>>
  /\ NextScale
  /\ UNCHANGED <<t_cur, t_start, input, assigned>>

ReadRefresh ==
  /\ pc = "refresh"
  /\ UNCHANGED element
  /\ Read(scale)
  /\ NextScale
  /\ UNCHANGED <<t_cur, input, assigned>>

\* _set_fars and _set_background_stats for the triggers of the buffer.
Assign ==
  /\ pc = "assign"
  /\ pc' = "idle"
  /\ assigned' = IF pass_silent_time THEN [at |-> t_cur, bgstats |-> bgstats] ELSE assigned
  /\ UNCHANGED <<t_cur, element, scale, bgstats, input, reads>>

Finished == pc = "idle" /\ t_cur = MaxTime * SECOND /\ UNCHANGED vars

\* The first buffer is at 0; then every buffer is some seconds after the last.
NextTimestamps ==
  IF t_cur = None THEN {0}
  ELSE {t \in {t_cur + gap * SECOND : gap \in 1..MaxGap} : t <= MaxTime * SECOND}

Next ==
  \/ \E k \in 1..3 : Publish(k)
  \/ \E ts \in NextTimestamps : Transform(ts)
  \/ ReadInitial \/ ReadRefresh \/ Assign
  \/ Finished

Spec == Init /\ [][Next]_vars

-----------------------------------------------------------------------------
TypeOK ==
  /\ t_cur \in Int \union {None} /\ t_start \in Int \union {None}
  /\ t_roll_start \in Int \union {None}
  /\ pass_silent_time \in BOOLEAN
  /\ pc \in {"idle", "initial", "refresh", "assign"} /\ scale \in 1..3
  /\ bgstats \in [1..3 -> 1..MaxVersion \union {None}]
  /\ input \in [1..3 -> 1..MaxVersion \union {None}]
  /\ reads \in Seq(Int)

\* README, cohfar-assignfar-silent-time: no FAR is assigned in the silent time;
\* nor is one assigned before the background of all three scales was read,
\* whichever of the files appear while they are being read.
AssignedFromAllScales ==
  assigned # None =>
    /\ assigned.at - t_start >= SilentTime * SECOND
    /\ \A k \in 1..3 : assigned.bgstats[k] # None

\* The documented refresh: "refresh stats every N seconds" (refresh-interval), of which
\* refresh-offset only shifts the start.  After the first refresh, which the offset
\* delays, the background is read again within the interval, to the second, or at the
\* first buffer after it.
BackgroundFresh ==
  pc = "idle" /\ pass_silent_time /\ RefreshInterval > 0 /\ Len(reads) > 1 =>
    t_cur - reads[Len(reads)] <= (RefreshInterval + 1) * SECOND
=============================================================================
