--------------------------- MODULE AccumBackground ---------------------------
(***************************************************************************)
(* The element cohfar_accumbackground of                                   *)
(* gst/cuda/cohfar/cohfar_accumbackground.c, one per bank: it takes the    *)
(* background entries out of the buffers into statistics, passes the       *)
(* foreground entries and heartbeats on, and every snapshot_interval dumps *)
(* the statistics to a file named by start and duration and resets them.   *)
(*                                                                         *)
(* The statistics are histograms: what counts is which entries were added, *)
(* so they are bags of entries, here the set of entries added and the set  *)
(* of entries added more than once.                                        *)
(***************************************************************************)
EXTENDS Integers, FiniteSets

CONSTANTS
  Entries,                 \* records [ts, kind, ifos]: what postcoh may send
  Timestamps,              \* of the buffers
  SECOND,                  \* GST_SECOND
  SnapshotIntervals,       \* what snapshot_interval may be, in seconds
  None                     \* GST_CLOCK_TIME_NONE

Kinds == {"FLAG_BACKGROUND", "FLAG_FOREGROUND", "FLAG_EMPTY"}

ASSUME EntriesAssumption ==
  \A e \in Entries : e.ts \in Timestamps /\ e.kind \in Kinds /\ e.ifos \in Nat

ASSUME TimesAssumption ==
  /\ Timestamps \subseteq Nat
  /\ SECOND \in Nat \ {0} /\ SnapshotIntervals \subseteq Nat
  /\ None \notin Int

VARIABLES
  pc,                      \* "running", "eos", "eos_unsaved" or "error"
  snapshot_interval,       \* 0: no snapshots
  t_end,                   \* timestamp of the last buffer
  t_roll_start,
  bgstats,                 \* entries in the statistics since the last reset
  zlstats,
  files,                   \* dumped: [start, duration, bg, zl]
  input,                   \* every entry received
  outbuf                   \* every entry pushed on

vars == <<pc, snapshot_interval, t_end, t_roll_start, bgstats, zlstats, files, input, outbuf>>

Init ==
  /\ pc = "running" /\ snapshot_interval \in SnapshotIntervals
  /\ t_end = None /\ t_roll_start = None
  /\ bgstats = {} /\ zlstats = {}
  /\ files = {} /\ input = {} /\ outbuf = {}

Kind(es, kind) == {e \in es : e.kind = kind}

\* Background of a single detector is not counted.
Background(es) == {e \in Kind(es, "FLAG_BACKGROUND") : e.ifos > 1}

\* A foreground entry is counted as zerolag, a heartbeat as live time of both.
Heartbeats(es) == Kind(es, "FLAG_EMPTY")

Foreground(es) == Kind(es, "FLAG_FOREGROUND")

Seconds(from, to) == (to - from) \div SECOND

\* Mutant: named by the end.
FileByEnd(roll, end, bg, zl) ==
  [start |-> end \div SECOND, duration |-> Seconds(roll, end), bg |-> bg, zl |-> zl]

File(roll, end, bg, zl) ==
  [start |-> roll \div SECOND, duration |-> Seconds(roll, end), bg |-> bg, zl |-> zl]

\* The dump replaces a file of the same name.
Dumped(f) ==
  {g \in files : g.start # f.start \/ g.duration # f.duration} \union {f}

\* Mutant: no reset.
SnapshotUnreset(roll, ts, bg, zl) ==
  /\ files' = Dumped(File(roll, ts, bg, zl))
  /\ bgstats' = bg /\ zlstats' = zl
  /\ t_roll_start' = ts
  /\ UNCHANGED pc

\* The snapshot: dump, rename, reset.
Snapshot(roll, ts, bg, zl) ==
  /\ files' = Dumped(File(roll, ts, bg, zl))
  /\ bgstats' = {} /\ zlstats' = {}
  /\ t_roll_start' = ts
  /\ UNCHANGED pc

\* The rename fails: an error is returned before the reset and before anything
\* is pushed, which ends the stream.
SnapshotFails(roll, bg, zl) ==
  /\ bgstats' = bg /\ zlstats' = zl
  /\ t_roll_start' = roll
  /\ pc' = "error"
  /\ UNCHANGED files

\* cohfar_accumbackground_chain.
Chain(ts, es) ==
  LET roll == IF t_roll_start = None THEN ts ELSE t_roll_start
      bg   == bgstats \union Background(es) \union Heartbeats(es)
      zl   == zlstats \union Foreground(es) \union Heartbeats(es)
      due  == snapshot_interval > 0 /\ Seconds(roll, ts) >= snapshot_interval
  IN  /\ pc = "running"
      /\ t_end' = ts
      /\ input' = input \union es
      /\ \/ /\ ~due
            /\ bgstats' = bg /\ zlstats' = zl
            /\ t_roll_start' = roll
            /\ UNCHANGED <<pc, files>>
         \/ due /\ Snapshot(roll, ts, bg, zl)
         \/ due /\ SnapshotFails(roll, bg, zl)
      /\ outbuf' = IF pc' = "error" THEN outbuf
                   ELSE outbuf \union Foreground(es) \union Heartbeats(es)
      /\ UNCHANGED snapshot_interval

\* Without a buffer both times are unset, GST_CLOCK_TIME_NONE and 0: in 32 bits
\* the seconds of 2^64 - 1 ns are a GPS time of 2020, and the duration is 0.
UnsetStart == 1266874889

FinalFile ==
  IF t_end = None
  THEN [start |-> UnsetStart, duration |-> 0, bg |-> {}, zl |-> {}]
  ELSE File(t_roll_start, t_end, bgstats, zlstats)

\* The file output_name of a run without snapshots.
OutputName(bg, zl) == [start |-> None, duration |-> 0, bg |-> bg, zl |-> zl]

\* EOS: what was not dumped yet is.  A rename that fails now goes unnoticed, and
\* the statistics in memory end with the process.
EndOfStream ==
  /\ pc = "running"
  /\ \/ /\ pc' = "eos"
        /\ files' = IF snapshot_interval > 0 THEN Dumped(FinalFile)
                    ELSE {OutputName(bgstats, zlstats)}
     \/ snapshot_interval > 0 /\ pc' = "eos_unsaved" /\ UNCHANGED files
  /\ UNCHANGED <<snapshot_interval, t_end, t_roll_start, bgstats, zlstats, input, outbuf>>

Finished == pc # "running" /\ UNCHANGED vars

EntriesAt(ts) == {e \in Entries : e.ts = ts}

IsNext(ts) == IF t_end = None THEN TRUE ELSE ts > t_end

Next ==
  \/ \E ts \in Timestamps :
       IsNext(ts) /\ \E es \in SUBSET EntriesAt(ts) : Chain(ts, es)
  \/ EndOfStream
  \/ Finished

Spec == Init /\ [][Next]_vars

-----------------------------------------------------------------------------
TypeOK ==
  /\ pc \in {"running", "eos", "eos_unsaved", "error"}
  /\ snapshot_interval \in SnapshotIntervals
  /\ t_end \in Timestamps \union {None} /\ t_roll_start \in Timestamps \union {None}
  /\ bgstats \subseteq Entries /\ zlstats \subseteq Entries
  /\ \A f \in files : f.bg \subseteq Entries /\ f.zl \subseteq Entries
  /\ input \subseteq Entries /\ outbuf \subseteq input

\* What the element keeps in memory; after EOS it is in the last file.
InMemory == IF pc = "eos" THEN {} ELSE bgstats

\* Every coincident background entry and every heartbeat that was received is
\* counted in one file or still in memory, and in no second place: the dumps
\* neither overlap nor overwrite each other, although their names only keep
\* whole seconds, and a rename that fails leaves what it did not save in memory.
CountedOnce ==
  /\ Background(input) \union Heartbeats(input)
       = InMemory \union UNION {f.bg : f \in files}
  /\ \A f, g \in files : f = g \/ f.bg \intersect g.bg = {}
  /\ \A f \in files : f.bg \intersect InMemory = {}

\* A file holds nothing older than its name says, which FAPUpdater relies on when
\* it selects by the start in the name, and nothing newer than its end, to the
\* seconds that the name cuts off.
NamedByContent ==
  \A f \in files : f.start # None =>
    \A e \in f.bg \union f.zl :
      /\ f.start * SECOND <= e.ts
      /\ e.ts < (f.start + f.duration + 2) * SECOND
=============================================================================
