--------------------------- MODULE AssignFar_proofs ---------------------------
(***************************************************************************)
(* Theorems about AssignFar, for any times, intervals and versions: its    *)
(* types, that FARs come from all three files after the silent time, and   *)
(* how stale the background can be: not more than the interval and the     *)
(* offset together, since the code makes every period longer by the        *)
(* offset.                                                                 *)
(***************************************************************************)
EXTENDS AssignFar, TLAPS

\* The element has a time of its first buffer as soon as it has one of any, and
\* has passed the silent time only when it has.
Times ==
  /\ t_cur = None <=> t_start = None
  /\ pass_silent_time => t_cur # None /\ t_roll_start # None
  /\ pass_silent_time => t_cur - t_start >= SilentTime * SECOND
  /\ assigned # None => t_start # None
  /\ pc = "initial" => t_roll_start \in {t_cur, None} /\ t_cur # None
  /\ pc = "refresh" => t_roll_start = t_cur - RefreshOffset /\ pass_silent_time

\* What was read: in the initial load, the files before the next one.
Loaded ==
  pass_silent_time =>
    \A k \in 1..3 : pc # "initial" \/ k < scale => bgstats[k] # None

\* The refresh is never overdue after a buffer, and the last reading is not before
\* the time it is counted from.
Fresh ==
  pass_silent_time /\ pc \in {"idle", "assign"} =>
    /\ reads # <<>> /\ reads[Len(reads)] >= t_roll_start
    /\ RefreshInterval > 0 =>
         t_cur - t_roll_start < (RefreshInterval + RefreshOffset + 1) * SECOND

IInv == TypeOK /\ Times /\ Loaded /\ Fresh /\ AssignedFromAllScales

-----------------------------------------------------------------------------
\* The constants' types.
LEMMA Units ==
  /\ SECOND \in Nat /\ SECOND > 0 /\ SilentTime \in Nat /\ RefreshInterval \in Nat
  /\ RefreshOffset \in Nat /\ RefreshOffset < SECOND
  /\ MaxVersion \in Nat /\ MaxVersion > 0 /\ MaxTime \in Nat /\ MaxGap \in Nat /\ MaxGap > 0
  /\ None \notin Int
  BY UnitsAssumption

\* Multiplication is monotonic.
LEMMA Monotonic ==
  ASSUME NEW a \in Int, NEW b \in Int, NEW s \in Nat, a <= b
  PROVE  a * s <= b * s
  OBVIOUS

\* Whole seconds bound the time.
LEMMA WholeSeconds ==
  ASSUME NEW a \in Int, NEW b \in Int, NEW q \in Int
  PROVE  /\ Elapsed(a, b) >= q => b - a >= q * SECOND
         /\ Elapsed(a, b) < q => b - a < q * SECOND
         /\ Elapsed(a, b) \in Int
<1> DEFINE d == Elapsed(a, b)
<1>1. /\ d \in Int
      /\ d * SECOND <= b - a /\ b - a < (d + 1) * SECOND
  BY Units DEF Elapsed
<1>2. d * SECOND \in Int /\ q * SECOND \in Int /\ (d + 1) * SECOND \in Int
  BY <1>1, Units
<1> HIDE DEF d
<1>3. ASSUME d >= q PROVE q * SECOND <= d * SECOND
  BY <1>1, <1>3, Units, Monotonic
<1>4. ASSUME d < q PROVE (d + 1) * SECOND <= q * SECOND
  <2>1. d + 1 <= q /\ d + 1 \in Int
    BY <1>1, <1>4
  <2> QED
    BY <2>1, Units, Monotonic
<1>5. (d >= q => b - a >= q * SECOND) /\ (d < q => b - a < q * SECOND) /\ d \in Int
  BY <1>1, <1>2, <1>3, <1>4
<1> QED
  BY <1>5 DEF d

\* Nothing is assigned at first.
LEMMA InitIInv == Init => IInv
<1> SUFFICES ASSUME Init PROVE IInv
  OBVIOUS
<1>1. reads \in Seq(Int)
  BY DEF Init
<1>2. TypeOK
  <2>1. pass_silent_time \in BOOLEAN /\ pc \in {"idle", "initial", "refresh", "assign"}
    BY DEF Init
  <2>2. scale \in 1..3 /\ t_cur = None /\ t_start = None /\ t_roll_start = None
    BY DEF Init
  <2>3. /\ bgstats \in [1..3 -> 1..MaxVersion \union {None}]
        /\ input \in [1..3 -> 1..MaxVersion \union {None}]
    BY DEF Init
  <2> QED
    BY <1>1, <2>1, <2>2, <2>3 DEF TypeOK
<1>3. Times /\ Loaded /\ Fresh /\ AssignedFromAllScales
  BY DEF Init, Times, Loaded, Fresh, AssignedFromAllScales
<1> QED
  BY <1>2, <1>3 DEF IInv

\* The times of buffers are integers, and increase.
LEMMA NextTimes ==
  ASSUME TypeOK, NEW ts \in NextTimestamps
  PROVE  ts \in Int /\ (t_cur # None => ts > t_cur)
<1>1. CASE t_cur = None
  BY <1>1 DEF NextTimestamps
<1>2. CASE t_cur # None
  <2>1. PICK gap \in 1..MaxGap : ts = t_cur + gap * SECOND
    BY <1>2 DEF NextTimestamps
  <2>2. gap * SECOND > 0 /\ gap * SECOND \in Int
    BY Units
  <2> QED
    BY <1>2, <2>1, <2>2 DEF TypeOK
<1> QED
  BY <1>1, <1>2

\* A file is replaced.
LEMMA PublishIInv == ASSUME IInv, NEW k \in 1..3, Publish(k) PROVE IInv'
<1> USE DEF IInv, Publish
<1>1. input' \in [1..3 -> 1..MaxVersion \union {None}]
  BY SMTT(30), Units DEF TypeOK
<1>2. TypeOK'
  BY <1>1 DEF TypeOK, element
<1>3. Times' /\ Loaded' /\ Fresh' /\ AssignedFromAllScales'
  BY DEF Times, Loaded, Fresh, AssignedFromAllScales, element
<1> QED
  BY <1>2, <1>3

\* What an assignment was made from stays as it was.
LEMMA StillAssigned ==
  ASSUME AssignedFromAllScales, UNCHANGED <<assigned, t_start>>
  PROVE  AssignedFromAllScales'
  BY DEF AssignedFromAllScales

\* A buffer arrives.  Without a refresh the background is not too old yet.
LEMMA TransformIInv ==
  ASSUME IInv, NEW ts \in NextTimestamps, Transform(ts)
  PROVE  IInv'
<1> USE DEF IInv
<1> DEFINE start      == IF t_start = None THEN ts ELSE t_start
           initial    == t_roll_start = None /\ Elapsed(start, ts) >= SilentTime
           refreshDue == /\ pass_silent_time /\ RefreshInterval > 0
                         /\ Elapsed(t_roll_start, ts) - RefreshOffset > RefreshInterval
<1>1. /\ pc = "idle" /\ t_cur' = ts /\ t_start' = start /\ scale' = 1
      /\ UNCHANGED <<bgstats, input, reads, assigned>>
      /\ \/ initial /\ pass_silent_time' = TRUE /\ t_roll_start' = ts /\ pc' = "initial"
         \/ /\ ~initial /\ refreshDue /\ t_roll_start' = ts - RefreshOffset
            /\ pc' = "refresh" /\ UNCHANGED pass_silent_time
         \/ /\ ~initial /\ ~refreshDue /\ pc' = "assign"
            /\ UNCHANGED <<pass_silent_time, t_roll_start>>
  BY DEF Transform
<1>2. ts \in Int /\ (t_cur # None => ts > t_cur) /\ start \in Int
  BY NextTimes DEF TypeOK
<1>3. TypeOK'
  BY <1>1, <1>2, Units DEF TypeOK
<1> HIDE DEF start
<1>4. initial => ts - start >= SilentTime * SECOND
  BY <1>2, WholeSeconds, Units
<1>5. ASSUME pass_silent_time
      PROVE  /\ t_start = start /\ ts - start >= SilentTime * SECOND
             /\ t_roll_start \in Int
  <2>1. /\ t_cur \in Int /\ t_start \in Int /\ t_cur - t_start >= SilentTime * SECOND
        /\ SilentTime * SECOND \in Int
    BY <1>5, Units DEF TypeOK, Times
  <2> QED
    BY <1>2, <1>5, <2>1, Units DEF TypeOK, Times, start
<1>6. Times'
  <2>1. t_cur' # None /\ t_start' # None
    BY <1>1, <1>2, Units
  <2>2. pass_silent_time' => t_roll_start' # None
    <3>1. ts # None /\ ts - RefreshOffset # None
      BY <1>2, Units
    <3> QED
      BY <1>1, <1>5, <3>1, Units
  <2>3. pass_silent_time' => t_cur' - t_start' >= SilentTime * SECOND
    BY <1>1, <1>4, <1>5
  <2> QED
    BY <1>1, <2>1, <2>2, <2>3 DEF Times
<1>7. Loaded'
  <2>1. CASE pc' = "initial"
    BY <1>1, <2>1 DEF Loaded
  <2>2. CASE pc' # "initial" /\ pass_silent_time' = pass_silent_time
    BY <1>1, <2>2 DEF Loaded
  <2> QED
    BY <1>1, <2>1, <2>2
<1>8. Fresh'
  <2> SUFFICES ASSUME pass_silent_time', pc' = "assign"
               PROVE  /\ reads' # <<>> /\ reads'[Len(reads')] >= t_roll_start'
                      /\ RefreshInterval > 0 =>
                           t_cur' - t_roll_start' < (RefreshInterval + RefreshOffset + 1) * SECOND
    BY <1>1 DEF Fresh
  <2>1. pass_silent_time /\ ~refreshDue /\ UNCHANGED t_roll_start
    BY <1>1
  <2>2. reads # <<>> /\ reads[Len(reads)] >= t_roll_start
    BY <1>1, <2>1 DEF Fresh
  <2>3. ASSUME RefreshInterval > 0
        PROVE  ts - t_roll_start < (RefreshInterval + RefreshOffset + 1) * SECOND
    <3>1. t_roll_start \in Int
      BY <1>5, <2>1
    <3>2. Elapsed(t_roll_start, ts) < RefreshInterval + RefreshOffset + 1
      BY <1>2, <2>1, <2>3, <3>1, WholeSeconds, Units
    <3> QED
      BY <1>2, <3>1, <3>2, WholeSeconds, Units
  <2> QED
    BY <1>1, <2>1, <2>2, <2>3
<1>9. AssignedFromAllScales'
  BY <1>1 DEF AssignedFromAllScales, Times, start
<1> QED
  BY <1>3, <1>6, <1>7, <1>8, <1>9

\* A file is read, if it is there.
LEMMA ReadLoads ==
  ASSUME TypeOK, Read(scale)
  PROVE  /\ bgstats' \in [1..3 -> 1..MaxVersion \union {None}]
         /\ \A k \in 1..3 : bgstats[k] # None => bgstats'[k] # None
         /\ input[scale] # None => bgstats'[scale] # None
  BY DEF TypeOK, Read

\* The next file, or the end of the reading, which is noted.
LEMMA NextScaleTypes ==
  ASSUME TypeOK, NextScale, t_cur \in Int
  PROVE  /\ scale' \in 1..3 /\ reads' \in Seq(Int)
         /\ pc' \in {pc, "assign"}
         /\ pc' # "assign" => scale' = scale + 1
         /\ pc' = "assign" /\ pc # "assign" => scale = 3
         /\ pc' = "assign" /\ pc # "assign" /\ pass_silent_time' =>
              reads' # <<>> /\ reads'[Len(reads')] = t_cur
<1>1. Len(Scales) = 3 /\ scale \in 1..3 /\ reads \in Seq(Int)
  BY DEF Scales, TypeOK
<1>2. CASE scale < Len(Scales)
  <2>1. scale' = scale + 1 /\ UNCHANGED <<pc, reads>>
    BY <1>2 DEF NextScale
  <2> QED
    BY <1>1, <1>2, <2>1
<1>3. CASE ~(scale < Len(Scales))
  <2>1. /\ pc' = "assign" /\ scale' = scale
        /\ reads' = IF pass_silent_time' THEN Append(reads, t_cur) ELSE <<>>
    BY <1>3 DEF NextScale
  <2>2. /\ Append(reads, t_cur) \in Seq(Int) /\ <<>> \in Seq(Int)
        /\ Append(reads, t_cur) # <<>>
        /\ Append(reads, t_cur)[Len(Append(reads, t_cur))] = t_cur
    BY <1>1
  <2> QED
    BY <1>1, <1>3, <2>1, <2>2
<1> QED
  BY <1>2, <1>3

\* A file of the initial load.
LEMMA ReadInitialIInv == ASSUME IInv, ReadInitial PROVE IInv'
<1> USE DEF IInv
<1>1. /\ pc = "initial" /\ Read(scale) /\ NextScale
      /\ UNCHANGED <<t_cur, t_start, input, assigned>>
      /\ \/ /\ input[scale] = None
            /\ pass_silent_time' = FALSE /\ t_roll_start' = None
         \/ input[scale] # None /\ UNCHANGED <<pass_silent_time, t_roll_start>>
  BY DEF ReadInitial
<1>2. t_cur \in Int /\ t_roll_start \in {t_cur, None}
  BY <1>1 DEF TypeOK, Times
<1>3. TypeOK'
  <2>1. pass_silent_time' \in BOOLEAN /\ t_roll_start' \in Int \union {None}
    BY <1>1, <1>2 DEF TypeOK
  <2>2. pc' \in {"idle", "initial", "refresh", "assign"}
    BY <1>1, <1>2, NextScaleTypes
  <2> QED
    BY <1>1, <1>2, <2>1, <2>2, ReadLoads, NextScaleTypes DEF TypeOK
<1>4. Times'
  <2>1. pc' \in {"initial", "assign"}
    BY <1>1, <1>2, NextScaleTypes
  <2> QED
    BY <1>1, <1>2, <2>1 DEF Times
<1>5. Loaded'
  <2> SUFFICES ASSUME pass_silent_time', NEW k \in 1..3, pc' # "initial" \/ k < scale'
               PROVE  bgstats'[k] # None
    BY DEF Loaded
  <2>1. pass_silent_time /\ input[scale] # None
    BY <1>1
  <2>2. k < scale \/ k = scale
    BY <1>1, <1>2, NextScaleTypes DEF TypeOK
  <2> QED
    BY <1>1, <2>1, <2>2, ReadLoads DEF Loaded
<1>6. Fresh'
  <2> SUFFICES ASSUME pass_silent_time', pc' = "assign"
               PROVE  /\ reads' # <<>> /\ reads'[Len(reads')] >= t_roll_start'
                      /\ RefreshInterval > 0 =>
                           t_cur' - t_roll_start' < (RefreshInterval + RefreshOffset + 1) * SECOND
    BY <1>1, <1>2, NextScaleTypes DEF Fresh
  <2>1. t_roll_start' = t_cur /\ t_cur' = t_cur
    BY <1>1, <1>2 DEF Times
  <2>2. reads' # <<>> /\ reads'[Len(reads')] = t_cur
    BY <1>1, <1>2, NextScaleTypes
  <2>3. 0 < (RefreshInterval + RefreshOffset + 1) * SECOND
    BY Units
  <2> QED
    BY <1>2, <2>1, <2>2, <2>3
<1>7. AssignedFromAllScales'
  BY <1>1, StillAssigned
<1> QED
  BY <1>3, <1>4, <1>5, <1>6, <1>7

\* A file of a refresh.  What was loaded stays if it is missing.
LEMMA ReadRefreshIInv == ASSUME IInv, ReadRefresh PROVE IInv'
<1> USE DEF IInv
<1>1. /\ pc = "refresh" /\ Read(scale) /\ NextScale
      /\ UNCHANGED <<t_cur, t_start, t_roll_start, pass_silent_time, input, assigned>>
  BY DEF ReadRefresh, element
<1>2. /\ pass_silent_time /\ t_cur \in Int /\ t_roll_start = t_cur - RefreshOffset
      /\ t_roll_start \in Int
  BY <1>1, Units DEF TypeOK, Times
<1>3. TypeOK'
  <2>1. pc' \in {"idle", "initial", "refresh", "assign"}
    BY <1>1, <1>2, NextScaleTypes
  <2> QED
    BY <1>1, <1>2, <2>1, ReadLoads, NextScaleTypes DEF TypeOK
<1>4. Times'
  <2>1. pc' \in {"refresh", "assign"}
    BY <1>1, <1>2, NextScaleTypes
  <2> QED
    BY <1>1, <1>2, <2>1 DEF Times
<1>5. Loaded'
  BY <1>1, <1>2, ReadLoads DEF Loaded
<1>6. Fresh'
  <2> SUFFICES ASSUME pass_silent_time', pc' = "assign"
               PROVE  /\ reads' # <<>> /\ reads'[Len(reads')] >= t_roll_start'
                      /\ RefreshInterval > 0 =>
                           t_cur' - t_roll_start' < (RefreshInterval + RefreshOffset + 1) * SECOND
    BY <1>1, <1>2, NextScaleTypes DEF Fresh
  <2>1. reads' # <<>> /\ reads'[Len(reads')] = t_cur
    BY <1>1, <1>2, NextScaleTypes
  <2>2. SECOND <= (RefreshInterval + RefreshOffset + 1) * SECOND
    BY Units, 1 * SECOND <= (RefreshInterval + RefreshOffset + 1) * SECOND, Monotonic
  <2>3. (RefreshInterval + RefreshOffset + 1) * SECOND \in Int
    BY Units
  <2> QED
    BY <1>1, <1>2, <2>1, <2>2, <2>3, Units
<1>7. AssignedFromAllScales'
  BY <1>1, StillAssigned
<1> QED
  BY <1>3, <1>4, <1>5, <1>6, <1>7

\* The triggers of the buffer get their FARs.
LEMMA AssignIInv == ASSUME IInv, Assign PROVE IInv'
<1> USE DEF IInv
<1>1. /\ pc = "assign" /\ pc' = "idle"
      /\ assigned' = IF pass_silent_time THEN [at |-> t_cur, bgstats |-> bgstats] ELSE assigned
      /\ UNCHANGED <<t_cur, t_start, t_roll_start, pass_silent_time, scale, bgstats, input, reads>>
  BY DEF Assign, element
<1>2. TypeOK' /\ Times' /\ Loaded' /\ Fresh'
  BY <1>1 DEF TypeOK, Times, Loaded, Fresh
<1>3. AssignedFromAllScales'
  <2>1. CASE pass_silent_time
    <3>1. /\ t_cur - t_start >= SilentTime * SECOND
          /\ \A k \in 1..3 : bgstats[k] # None
      BY <1>1, <2>1 DEF Times, Loaded
    <3>2. assigned'.at = t_cur /\ assigned'.bgstats = bgstats
      BY <1>1, <2>1
    <3> QED
      BY <1>1, <3>1, <3>2 DEF AssignedFromAllScales
  <2>2. CASE ~pass_silent_time
    BY <1>1, <2>2 DEF AssignedFromAllScales
  <2> QED
    BY <2>1, <2>2
<1> QED
  BY <1>2, <1>3

\* Every step preserves the invariant.
LEMMA NextIInv == ASSUME IInv, [Next]_vars PROVE IInv'
<1>1. CASE UNCHANGED vars
  BY <1>1 DEF IInv, vars, element, TypeOK, Times, Loaded, Fresh, AssignedFromAllScales
<1>2. CASE Next
  BY <1>1, <1>2, PublishIInv, TransformIInv, ReadInitialIInv, ReadRefreshIInv, AssignIInv
     DEF Next, Finished
<1> QED
  BY <1>1, <1>2

\* The invariant holds in every reachable state.
LEMMA Invariant == Spec => []IInv
<1> QED
  BY InitIInv, NextIInv, PTL DEF Spec

-----------------------------------------------------------------------------
\* Every variable keeps its type.
THEOREM TypeCorrect == Spec => []TypeOK
<1>1. IInv => TypeOK
  BY DEF IInv
<1> QED
  BY <1>1, Invariant, PTL

\* No FAR in the silent time nor from a background of fewer than three scales,
\* whenever the files appear.
THEOREM FarsFromAllScales == Spec => []AssignedFromAllScales
<1>1. IInv => AssignedFromAllScales
  BY DEF IInv
<1> QED
  BY <1>1, Invariant, PTL

\* What the code guarantees in place of BackgroundFresh: the interval and the offset,
\* to the second.
FreshWithOffset ==
  pc = "idle" /\ pass_silent_time /\ RefreshInterval > 0 =>
    t_cur - reads[Len(reads)] <= (RefreshInterval + RefreshOffset + 1) * SECOND

\* The background is read again within the interval and the offset together, whatever
\* the times of buffers and although the refresh is counted from an earlier time: a
\* longer period than the documented one, which BackgroundFresh states, but a bound.
THEOREM RefreshBounded == Spec => []FreshWithOffset
<1>1. IInv => FreshWithOffset
  <2> SUFFICES ASSUME IInv, pc = "idle", pass_silent_time, RefreshInterval > 0
               PROVE  t_cur - reads[Len(reads)] <= (RefreshInterval + RefreshOffset + 1) * SECOND
    BY DEF FreshWithOffset
  <2>1. /\ reads \in Seq(Int) /\ reads # <<>> /\ reads[Len(reads)] >= t_roll_start
        /\ t_cur - t_roll_start < (RefreshInterval + RefreshOffset + 1) * SECOND
        /\ t_cur \in Int /\ t_roll_start \in Int
    BY DEF IInv, TypeOK, Times, Fresh
  <2>2. reads[Len(reads)] \in Int /\ (RefreshInterval + RefreshOffset + 1) * SECOND \in Int
    BY <2>1, Units
  <2> QED
    BY <2>1, <2>2
<1> QED
  BY <1>1, Invariant, PTL
=============================================================================
