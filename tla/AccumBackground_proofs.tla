------------------------ MODULE AccumBackground_proofs ------------------------
(***************************************************************************)
(* Theorems about AccumBackground, for any entries, timestamps and         *)
(* snapshot intervals: its types, that every background entry is counted   *)
(* once, and that a file's name bounds the times of what it counts.        *)
(***************************************************************************)
EXTENDS AccumBackground, TLAPS

\* What is in memory was received since the last dump.
Clock ==
  /\ t_end = None <=> t_roll_start = None
  /\ t_end = None => input = {}
  /\ t_end # None => t_roll_start <= t_end /\ \A e \in input : e.ts <= t_end
  /\ \A e \in bgstats \union zlstats : e \in input /\ t_roll_start <= e.ts

\* While the element runs every file has an earlier start, in whole seconds, than the
\* next one will have.  This is why no dump overwrites another one.
Names ==
  /\ \A f \in files : f.bg \subseteq input
  /\ pc = "running" =>
       /\ snapshot_interval = 0 => files = {}
       /\ \A f \in files :
            t_roll_start # None /\ f.start \in Int /\ f.start < t_roll_start \div SECOND

IInv == TypeOK /\ Clock /\ Names /\ CountedOnce /\ NamedByContent

-----------------------------------------------------------------------------
\* The constants' types.
LEMMA Constants ==
  /\ SECOND \in Nat /\ SECOND > 0 /\ None \notin Int /\ Timestamps \subseteq Int
  /\ None \notin Timestamps
  /\ \A e \in Entries : e.ts \in Timestamps /\ e.ts \in Int
  /\ \A i \in SnapshotIntervals : i \in Nat
<1>1. /\ SECOND \in Nat /\ SECOND > 0 /\ None \notin Int
      /\ \A t \in Timestamps : t \in Nat
      /\ \A i \in SnapshotIntervals : i \in Nat
  BY TimesAssumption
<1>2. \A e \in Entries : e.ts \in Timestamps
  BY EntriesAssumption
<1> QED
  BY <1>1, <1>2

\* Whole seconds bound a time.
LEMMA WholeSeconds ==
  ASSUME NEW a \in Int
  PROVE  /\ a \div SECOND \in Int
         /\ (a \div SECOND) * SECOND <= a /\ a < (a \div SECOND + 1) * SECOND
  BY Constants

\* A second later the whole seconds are more.
LEMMA SecondLater ==
  ASSUME NEW a \in Int, NEW b \in Int, Seconds(a, b) >= 1
  PROVE  a \div SECOND < b \div SECOND
<1> DEFINE m == a \div SECOND
           n == b \div SECOND
           d == (b - a) \div SECOND
<1>1. /\ m \in Int /\ n \in Int /\ d \in Int /\ d >= 1 /\ b - a \in Int
      /\ m * SECOND <= a /\ b < (n + 1) * SECOND /\ d * SECOND <= b - a
  BY WholeSeconds DEF Seconds
<1> HIDE DEF m, n, d
<1>2. SECOND <= d * SECOND /\ d * SECOND \in Int
  BY <1>1, Constants
<1>3. ASSUME n <= m PROVE (n + 1) * SECOND <= m * SECOND + SECOND
  BY <1>1, <1>3, Constants
<1>4. m * SECOND \in Int /\ (n + 1) * SECOND \in Int
  BY <1>1, Constants
<1>5. m < n
  BY <1>1, <1>2, <1>3, <1>4, Constants
<1> QED
  BY <1>5 DEF m, n

\* The name of a dump bounds the times between its start and its end.
LEMMA NameBounds ==
  ASSUME NEW roll \in Int, NEW end \in Int, NEW t \in Int, roll <= t, t <= end
  PROVE  /\ (roll \div SECOND) * SECOND <= t
         /\ t < (roll \div SECOND + Seconds(roll, end) + 2) * SECOND
<1> DEFINE m == roll \div SECOND
           d == (end - roll) \div SECOND
<1>1. /\ m \in Int /\ d \in Int /\ m * SECOND <= roll /\ roll < (m + 1) * SECOND
      /\ end - roll < (d + 1) * SECOND
  BY WholeSeconds
<1> HIDE DEF m, d
<1>2. (m + d + 2) * SECOND = (m + 1) * SECOND + (d + 1) * SECOND
  BY <1>1, Constants
<1>3. m * SECOND \in Int /\ (m + 1) * SECOND \in Int /\ (d + 1) * SECOND \in Int
  BY <1>1, Constants
<1>4. m * SECOND <= t /\ t < (m + d + 2) * SECOND
  BY <1>1, <1>2, <1>3
<1> QED
  BY <1>4 DEF m, d, Seconds

\* What the files hold once one more is written.
LEMMA FilesUnion ==
  ASSUME NEW fs, NEW new
  PROVE  UNION {f.bg : f \in fs \union {new}} = new.bg \union UNION {f.bg : f \in fs}
<1>1. {f.bg : f \in fs \union {new}} = {f.bg : f \in fs} \union {new.bg}
  OBVIOUS
<1> QED
  BY <1>1

\* A dump whose start no file has is one more file.
LEMMA DumpedAdds ==
  ASSUME NEW f, \A g \in files : g.start # f.start
  PROVE  Dumped(f) = files \union {f}
  BY DEF Dumped

\* The kinds of what is received are those of what was and of what comes.
LEMMA KindsUnion ==
  ASSUME NEW es
  PROVE  Background(input \union es) \union Heartbeats(input \union es)
           = (Background(input) \union Heartbeats(input))
               \union (Background(es) \union Heartbeats(es))
  BY DEF Background, Heartbeats, Kind

\* Nothing is counted at first.
LEMMA InitIInv == Init => IInv
<1> SUFFICES ASSUME Init PROVE IInv
  OBVIOUS
<1>1. TypeOK
  BY DEF Init, TypeOK
<1>2. Clock /\ Names /\ NamedByContent
  BY DEF Init, Clock, Names, NamedByContent
<1>3. CountedOnce
  BY DEF Init, CountedOnce, InMemory, Background, Heartbeats, Kind
<1> QED
  BY <1>1, <1>2, <1>3 DEF IInv

\* What a buffer adds is new, and not older than the last dump.
LEMMA Received ==
  ASSUME TypeOK, Clock, NEW ts \in Timestamps, IsNext(ts), NEW es \in SUBSET EntriesAt(ts),
         NEW roll, roll = IF t_roll_start = None THEN ts ELSE t_roll_start
  PROVE  /\ roll \in Timestamps /\ roll \in Int /\ ts \in Int /\ roll <= ts
         /\ es \subseteq Entries /\ es \intersect input = {}
         /\ \A e \in es : e.ts = ts
         /\ \A e \in input \union es : e.ts \in Int /\ e.ts <= ts
         /\ \A e \in bgstats \union zlstats \union es : roll <= e.ts
<1>1. ts \in Int /\ es \subseteq Entries /\ \A e \in es : e.ts = ts
  BY Constants DEF EntriesAt
<1>2. CASE t_end = None
  <2>1. t_roll_start = None /\ input = {} /\ roll = ts /\ bgstats \union zlstats = {}
    BY <1>2 DEF Clock
  <2> QED
    BY <1>1, <2>1
<1>3. CASE t_end # None
  <2>1. /\ t_end \in Int /\ t_roll_start \in Int /\ ts > t_end
        /\ roll = t_roll_start /\ roll <= t_end /\ roll \in Timestamps
    BY <1>3, Constants DEF TypeOK, Clock, IsNext
  <2>2. \A e \in input : e.ts \in Int /\ e.ts <= t_end
    BY <1>3, Constants DEF TypeOK, Clock
  <2>3. \A e \in bgstats \union zlstats : roll <= e.ts
    BY <2>1 DEF Clock
  <2>4. es \intersect input = {}
    BY <1>1, <2>1, <2>2
  <2>5. \A e \in input \union es : e.ts \in Int /\ e.ts <= ts
    BY <1>1, <2>1, <2>2
  <2> QED
    BY <1>1, <2>1, <2>3, <2>4, <2>5
<1> QED
  BY <1>2, <1>3

\* What is counted of a buffer.
LEMMA KindsOf ==
  ASSUME NEW es
  PROVE  Background(es) \subseteq es /\ Heartbeats(es) \subseteq es /\ Foreground(es) \subseteq es
  BY DEF Background, Heartbeats, Foreground, Kind

\* A buffer without a dump, or with one that fails.
LEMMA AccumulateIInv ==
  ASSUME IInv, pc = "running",
         NEW ts \in Timestamps, IsNext(ts), NEW es \in SUBSET EntriesAt(ts),
         NEW roll, roll = IF t_roll_start = None THEN ts ELSE t_roll_start,
         bgstats' = bgstats \union Background(es) \union Heartbeats(es),
         zlstats' = zlstats \union Foreground(es) \union Heartbeats(es),
         t_end' = ts, t_roll_start' = roll, input' = input \union es,
         outbuf' \subseteq outbuf \union es,
         pc' \in {"running", "error"}, UNCHANGED <<files, snapshot_interval>>
  PROVE  IInv'
<1> USE DEF IInv
<1>1. /\ roll \in Timestamps /\ roll \in Int /\ ts \in Int /\ roll <= ts
      /\ es \subseteq Entries /\ es \intersect input = {}
      /\ \A e \in input \union es : e.ts \in Int /\ e.ts <= ts
      /\ \A e \in bgstats \union zlstats \union es : roll <= e.ts
  BY Received
<1>2. Background(es) \subseteq es /\ Heartbeats(es) \subseteq es /\ Foreground(es) \subseteq es
  BY KindsOf
<1>3. TypeOK'
  BY <1>1, <1>2 DEF TypeOK
<1>4. Clock'
  BY <1>1, <1>2, Constants DEF Clock
<1>5. Names'
  <2>1. \A f \in files : f.bg \subseteq input'
    BY DEF Names
  <2>2. \A f \in files : t_roll_start' = t_roll_start
    BY DEF Names
  <2>3. roll # None
    BY <1>1, Constants
  <2> QED
    BY <2>1, <2>2, <2>3 DEF Names
<1>6. CountedOnce'
  <2>1. InMemory = bgstats /\ InMemory' = bgstats'
    BY DEF InMemory
  <2>2. Background(input') \union Heartbeats(input')
          = bgstats' \union UNION {f.bg : f \in files'}
    BY <2>1, KindsUnion DEF CountedOnce
  <2>3. \A f \in files : f.bg \intersect bgstats' = {}
    BY <1>1, <1>2, <2>1 DEF CountedOnce, Names
  <2> QED
    BY <2>1, <2>2, <2>3 DEF CountedOnce
<1>7. NamedByContent'
  BY DEF NamedByContent
<1> QED
  BY <1>3, <1>4, <1>5, <1>6, <1>7

\* One more file with what is in memory, whose start no file has.
LEMMA FileCounts ==
  ASSUME IInv, pc # "eos", NEW bg, NEW new, NEW es,
         es \intersect input = {}, bg = bgstats \union Background(es) \union Heartbeats(es),
         input' = input \union es, new.bg = bg,
         files' = files \union {new}, InMemory' = {}
  PROVE  CountedOnce'
<1> USE DEF IInv
<1>1. InMemory = bgstats
  BY DEF InMemory
<1>2. UNION {f.bg : f \in files'} = bg \union UNION {f.bg : f \in files}
  BY FilesUnion
<1>3. Background(input') \union Heartbeats(input')
        = InMemory' \union UNION {f.bg : f \in files'}
  BY <1>1, <1>2, KindsUnion DEF CountedOnce
<1>4. \A f \in files : f.bg \intersect bg = {}
  BY <1>1, KindsOf DEF CountedOnce, Names
<1>5. \A f, g \in files' : f = g \/ f.bg \intersect g.bg = {}
  BY <1>4 DEF CountedOnce
<1> QED
  BY <1>3, <1>5 DEF CountedOnce

\* A dump: the file counts what was in memory and what came with the buffer.
LEMMA SnapshotIInv ==
  ASSUME IInv, pc = "running", snapshot_interval > 0,
         NEW ts \in Timestamps, IsNext(ts), NEW es \in SUBSET EntriesAt(ts),
         NEW roll, roll = IF t_roll_start = None THEN ts ELSE t_roll_start,
         NEW bg, bg = bgstats \union Background(es) \union Heartbeats(es),
         NEW zl, zl = zlstats \union Foreground(es) \union Heartbeats(es),
         Seconds(roll, ts) >= snapshot_interval, Snapshot(roll, ts, bg, zl),
         t_end' = ts, input' = input \union es,
         outbuf' \subseteq outbuf \union es, UNCHANGED snapshot_interval
  PROVE  IInv'
<1> USE DEF IInv
<1> DEFINE new == File(roll, ts, bg, zl)
<1>1. /\ roll \in Timestamps /\ roll \in Int /\ ts \in Int /\ roll <= ts
      /\ es \subseteq Entries /\ es \intersect input = {}
      /\ \A e \in input \union es : e.ts \in Int /\ e.ts <= ts
      /\ \A e \in bgstats \union zlstats \union es : roll <= e.ts
  BY Received
<1>2. Background(es) \subseteq es /\ Heartbeats(es) \subseteq es /\ Foreground(es) \subseteq es
  BY KindsOf
<1>3. /\ new.start = roll \div SECOND /\ new.duration = Seconds(roll, ts)
      /\ new.bg = bg /\ new.zl = zl
  BY DEF File
<1>4. /\ files' = Dumped(new) /\ bgstats' = {} /\ zlstats' = {} /\ t_roll_start' = ts
      /\ pc' = pc
  BY DEF Snapshot
<1> HIDE DEF new
<1>5. \A g \in files : g.start # new.start /\ g.start \in Int /\ g.start < roll \div SECOND
  BY <1>1, <1>3 DEF Names
<1>6. files' = files \union {new}
  BY <1>4, <1>5, DumpedAdds
<1>7. roll \div SECOND \in Int /\ ts \div SECOND \in Int /\ roll \div SECOND < ts \div SECOND
  <2>1. snapshot_interval \in Nat /\ Seconds(roll, ts) \in Int
    BY <1>1, Constants DEF TypeOK, Seconds
  <2>2. Seconds(roll, ts) >= 1
    BY <2>1
  <2> QED
    BY <1>1, <2>2, SecondLater, WholeSeconds
<1>8. \A e \in bg \union zl : e \in input' /\ e \in Entries /\ roll <= e.ts /\ e.ts <= ts /\ e.ts \in Int
  BY <1>1, <1>2 DEF Clock, TypeOK
<1>9. TypeOK'
  BY <1>1, <1>3, <1>4, <1>6, <1>8 DEF TypeOK
<1>10. Clock'
  BY <1>1, <1>4, Constants DEF Clock
<1>11. Names'
  <2>1. \A f \in files' : f.bg \subseteq input'
    BY <1>3, <1>6, <1>8 DEF Names
  <2>2. \A f \in files' : f.start \in Int /\ f.start < ts \div SECOND
    BY <1>3, <1>5, <1>6, <1>7
  <2> QED
    BY <1>1, <1>4, <2>1, <2>2, Constants DEF Names
<1>12. CountedOnce'
  <2>1. InMemory' = {}
    BY <1>4 DEF InMemory
  <2> QED
    BY <1>1, <1>3, <1>6, <2>1, FileCounts
<1>13. NamedByContent'
  <2>1. \A e \in new.bg \union new.zl :
          /\ new.start * SECOND <= e.ts
          /\ e.ts < (new.start + new.duration + 2) * SECOND
    BY <1>1, <1>3, <1>8, NameBounds
  <2> QED
    BY <1>6, <2>1 DEF NamedByContent
<1> QED
  BY <1>9, <1>10, <1>11, <1>12, <1>13

\* A buffer.
LEMMA ChainIInv ==
  ASSUME IInv, NEW ts \in Timestamps, IsNext(ts), NEW es \in SUBSET EntriesAt(ts),
         Chain(ts, es)
  PROVE  IInv'
<1> DEFINE roll == IF t_roll_start = None THEN ts ELSE t_roll_start
           bg   == bgstats \union Background(es) \union Heartbeats(es)
           zl   == zlstats \union Foreground(es) \union Heartbeats(es)
           due  == snapshot_interval > 0 /\ Seconds(roll, ts) >= snapshot_interval
<1>1. /\ pc = "running" /\ t_end' = ts /\ input' = input \union es
      /\ UNCHANGED snapshot_interval
  BY DEF Chain
<1>2. \/ /\ bgstats' = bg /\ zlstats' = zl /\ t_roll_start' = roll /\ UNCHANGED <<pc, files>>
      \/ due /\ Snapshot(roll, ts, bg, zl)
      \/ /\ bgstats' = bg /\ zlstats' = zl /\ t_roll_start' = roll /\ pc' = "error"
         /\ UNCHANGED files
  BY DEF Chain, SnapshotFails
<1>3. outbuf' \subseteq outbuf \union es
  <2>1. \/ outbuf' = outbuf \/ outbuf' = outbuf \union Foreground(es) \union Heartbeats(es)
    BY DEF Chain
  <2> QED
    BY <2>1, KindsOf
<1>4. CASE due /\ Snapshot(roll, ts, bg, zl)
  BY <1>1, <1>3, <1>4, SnapshotIInv
<1>5. CASE /\ bgstats' = bg /\ zlstats' = zl /\ t_roll_start' = roll
           /\ pc' \in {"running", "error"} /\ UNCHANGED files
  BY <1>1, <1>3, <1>5, AccumulateIInv
<1> QED
  BY <1>1, <1>2, <1>4, <1>5

\* The last dump, or the one file of a run without snapshots.
LEMMA EndOfStreamIInv == ASSUME IInv, EndOfStream PROVE IInv'
<1> USE DEF IInv
<1>1. /\ pc = "running"
      /\ UNCHANGED <<snapshot_interval, t_end, t_roll_start, bgstats, zlstats, input, outbuf>>
  BY DEF EndOfStream
<1>2. CASE pc' = "eos_unsaved" /\ UNCHANGED files
  BY <1>1, <1>2 DEF TypeOK, Clock, Names, CountedOnce, InMemory, NamedByContent
<1>3. ASSUME NEW new, pc' = "eos", files' = files \union {new},
             new.bg = bgstats, new.zl = zlstats,
             new.start # None => \A e \in new.bg \union new.zl :
               /\ new.start * SECOND <= e.ts
               /\ e.ts < (new.start + new.duration + 2) * SECOND
      PROVE  IInv'
  <2>1. TypeOK'
    BY <1>1, <1>3 DEF TypeOK
  <2>2. Clock'
    BY <1>1 DEF Clock
  <2>3. Names'
    BY <1>1, <1>3 DEF Names, Clock
  <2>4. CountedOnce'
    <3>1. InMemory' = {}
      BY <1>3 DEF InMemory
    <3>2. /\ {} \intersect input = {} /\ input' = input \union {}
          /\ bgstats = bgstats \union Background({}) \union Heartbeats({})
      BY <1>1 DEF Background, Heartbeats, Kind
    <3> QED
      BY <1>1, <1>3, <3>1, <3>2, FileCounts
  <2>5. NamedByContent'
    BY <1>3 DEF NamedByContent
  <2> QED
    BY <2>1, <2>2, <2>3, <2>4, <2>5
<1>4. CASE pc' = "eos" /\ snapshot_interval = 0 /\ files' = {OutputName(bgstats, zlstats)}
  <2> DEFINE new == OutputName(bgstats, zlstats)
  <2>1. new.bg = bgstats /\ new.zl = zlstats /\ new.start = None
    BY DEF OutputName
  <2>2. files' = files \union {new}
    BY <1>1, <1>4 DEF Names
  <2> HIDE DEF new
  <2> QED
    BY <1>3, <1>4, <2>1, <2>2
<1>5. CASE pc' = "eos" /\ files' = Dumped(FinalFile)
  <2>1. CASE t_end = None
    <3> DEFINE new == [start |-> UnsetStart, duration |-> 0, bg |-> {}, zl |-> {}]
    <3>1. FinalFile = new /\ new.bg = {} /\ new.zl = {}
      BY <2>1 DEF FinalFile
    <3>2. files = {} /\ bgstats = {} /\ zlstats = {}
      BY <1>1, <2>1 DEF Clock, Names
    <3> HIDE DEF new
    <3>3. files' = files \union {new}
      BY <1>5, <3>1, <3>2, DumpedAdds
    <3> QED
      BY <1>3, <1>5, <3>1, <3>2, <3>3
  <2>2. CASE t_end # None
    <3> DEFINE new == File(t_roll_start, t_end, bgstats, zlstats)
    <3>1. /\ FinalFile = new /\ new.start = t_roll_start \div SECOND
          /\ new.duration = Seconds(t_roll_start, t_end)
          /\ new.bg = bgstats /\ new.zl = zlstats
      BY <2>2 DEF FinalFile, File
    <3>2. t_roll_start \in Int /\ t_end \in Int
      BY <2>2, Constants DEF TypeOK, Clock
    <3>3. \A e \in bgstats \union zlstats : t_roll_start <= e.ts /\ e.ts <= t_end /\ e.ts \in Int
      BY <2>2, Constants DEF TypeOK, Clock
    <3> HIDE DEF new
    <3>4. \A g \in files : g.start # new.start
      BY <1>1, <3>1, <3>2 DEF Names
    <3>5. files' = files \union {new}
      BY <1>5, <3>1, <3>4, DumpedAdds
    <3>6. \A e \in new.bg \union new.zl :
            /\ new.start * SECOND <= e.ts
            /\ e.ts < (new.start + new.duration + 2) * SECOND
      BY <3>1, <3>2, <3>3, NameBounds
    <3> QED
      BY <1>3, <1>5, <3>1, <3>5, <3>6
  <2> QED
    BY <2>1, <2>2
<1>6. snapshot_interval > 0 \/ snapshot_interval = 0
  BY Constants DEF TypeOK
<1> QED
  BY <1>2, <1>4, <1>5, <1>6 DEF EndOfStream

\* Every step preserves the invariant.
LEMMA NextIInv == ASSUME IInv, [Next]_vars PROVE IInv'
<1>1. CASE UNCHANGED vars
  BY <1>1 DEF IInv, vars, TypeOK, Clock, Names, CountedOnce, InMemory, NamedByContent
<1>2. CASE Next
  BY <1>1, <1>2, ChainIInv, EndOfStreamIInv DEF Next, Finished
<1> QED
  BY <1>1, <1>2

\* The invariant holds in every reachable state.
LEMMA Invariant == Spec => []IInv
<1> QED
  BY InitIInv, NextIInv, PTL DEF Spec

-----------------------------------------------------------------------------
\* Every variable keeps its type.
THEOREM TypeCorrect == Spec => []TypeOK
<1>1. IInv => TypeOK
  BY DEF IInv
<1> QED
  BY <1>1, Invariant, PTL

\* Every background entry and heartbeat is in one file or in memory, and only once,
\* for any entries, times of buffers, snapshot interval and end of the stream.
THEOREM BackgroundCountedOnce == Spec => []CountedOnce
<1>1. IInv => CountedOnce
  BY DEF IInv
<1> QED
  BY <1>1, Invariant, PTL

\* A file's name bounds the times of all it counts.
THEOREM FilesNamedByContent == Spec => []NamedByContent
<1>1. IInv => NamedByContent
  BY DEF IInv
<1> QED
  BY <1>1, Invariant, PTL
=============================================================================
