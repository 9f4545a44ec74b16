------------------------------ MODULE FarLedger ------------------------------
(***************************************************************************)
(* The single-detector sidecar (single_detector_sidecar/                   *)
(* online_single_llrfar_wguo_refined): every worker of a run appends its   *)
(* triggers to a stream, the CSV file that the final sink writes.  Beside  *)
(* it a loop (update_single_background_loop.sh) starts an update           *)
(* (update_single_background_once.sh) whenever the stream has grown.  An   *)
(* update gives new triggers a FAR from the background before them and     *)
(* appends them to the worker's ledger (assign_frozen_far_ledger.py), then *)
(* merges the ledgers of all workers into the product of the run           *)
(* (merge_worker_far_ledgers.py).  An update may also be started by hand.  *)
(* Updates of a worker exclude each other by a lock directory, and so do   *)
(* merges; a lock that a dead process left is removed after a while.  No   *)
(* process holds a lock that long.                                         *)
(*                                                                         *)
(* A FAR is modelled by the background it was computed from.  Time starts  *)
(* at DATA_START_TIME and is in chunks of data.  The rolling mode with     *)
(* single-trigger CSV files is modelled, without replay synchronisation;   *)
(* plots and status files are left out.                                    *)
(***************************************************************************)
EXTENDS Integers, FiniteSets

CONSTANTS
  Workers,                 \* 1..n, the order in which a merge reads them
  Updaters,                \* processes that start updates
  WorkerOf,                \* whose ledger an updater updates
  Loops,                   \* the updaters that are loops; the others run once
  Triggers,                \* per worker, the times of the triggers it finds
  Chunks,                  \* per worker, the ends of the chunks with data
  Started,                 \* per worker, how much of its stream there is at first
  MaxTime,                 \* the end of the run
  MaxLag,                  \* how far triggers come after their chunk
  Window,                  \* BACKGROUND_ACCUMULATION_SECONDS
  Update,                  \* BACKGROUND_UPDATE_TRIGGER_SECONDS
  MinFeatures,             \* 30: no FAR from so few features
  MaxNewWindows,           \* ASSIGNMENT_MAX_NEW_WINDOWS_PER_RUN
  Crashing,                \* updaters whose updates may be killed
  Failing,                 \* updaters whose scripts may fail
  None

ASSUME SidecarAssumption ==
  /\ Workers = 1..Cardinality(Workers) /\ WorkerOf \in [Updaters -> Workers]
  /\ Started \in [Workers -> 0..MaxTime]
  /\ Loops \subseteq Updaters /\ Crashing \union Failing \subseteq Updaters
  /\ \A w \in Workers :
       Triggers[w] \subseteq 0..(MaxTime - 1) /\ Chunks[w] \subseteq 1..MaxTime
  /\ {MaxTime, MaxLag, MinFeatures, MaxNewWindows} \subseteq Nat
  /\ {Window, Update} \subseteq Nat \ {0}
  /\ None \notin [by : Updaters, alive : BOOLEAN]

VARIABLES
  written, told,           \* per worker: chunks that end by written and triggers
                           \* before told are in its stream
  stopped,                 \* STOP_SINGLE_UPDATE.flag
  state_file,              \* per loop, the stream it saw before its last update
  pc, saw,                 \* per updater, where it is and the stream it saw
  lock, merge_lock,        \* None, or who made the directory, and if it lives
  output_rows,             \* per updater, what it will write
  unread,                  \* the ledgers that its merge has still to read
  ledger,                  \* single_final_far_all.csv of each worker
  product                  \* that of the run

stream == <<written, told, stopped>>
local == <<output_rows, unread>>
locks == <<lock, merge_lock>>
vars == <<stream, state_file, pc, saw, locks, local, ledger, product>>

Init ==
  /\ written = Started /\ told = Started
  /\ stopped = FALSE
  /\ state_file = [p \in Loops |-> None]
  /\ pc = [p \in Updaters |-> "idle"] /\ saw = [p \in Updaters |-> None]
  /\ lock = [w \in Workers |-> None] /\ merge_lock = None
  /\ output_rows = [p \in Updaters |-> {}] /\ unread = [p \in Updaters |-> {}]
  /\ ledger = [w \in Workers |-> {}] /\ product = {}

-----------------------------------------------------------------------------
(* The streams.  A trigger is written once its cluster is decided, in the  *)
(* order of their times; the end of a chunk, when it has been processed.   *)

WriteChunk(w) ==
  /\ written[w] < MaxTime /\ written[w] - told[w] < MaxLag
  /\ written' = [written EXCEPT ![w] = @ + 1]
  /\ UNCHANGED <<told, stopped, state_file, pc, saw, locks, local, ledger, product>>

WriteTriggers(w) ==
  /\ told[w] < written[w]
  /\ told' = [told EXCEPT ![w] = @ + 1]
  /\ UNCHANGED <<written, stopped, state_file, pc, saw, locks, local, ledger, product>>

\* submit.sh's cleanup, after the workers: what is undecided then is never written.
Stop ==
  /\ ~stopped /\ \A w \in Workers : written[w] = MaxTime
  /\ stopped' = TRUE
  /\ UNCHANGED <<written, told, state_file, pc, saw, locks, local, ledger, product>>

-----------------------------------------------------------------------------
(* The loops and the locks.                                                *)

StreamSeen(p) ==
  <<written[WorkerOf[p]], told[WorkerOf[p]], IF p \in Loops THEN stopped ELSE TRUE>>

\* A turn of the loop.  It starts an update if the stream has changed and, as
\* the last thing it does, after STOP.
StartUpdate(p) ==
  /\ pc[p] = "idle"
  /\ p \in Loops => stopped \/ state_file[p] # StreamSeen(p)
  /\ saw' = [saw EXCEPT ![p] = StreamSeen(p)]
  /\ pc' = [pc EXCEPT ![p] = "lock"]
  /\ UNCHANGED <<stream, state_file, locks, local, ledger, product>>

Goto(p, where) == pc' = [pc EXCEPT ![p] = where]

IsLast(p) == saw[p][3]

\* The update has ended, in whatever way: the loop takes the stream, unless it was
\* empty, as dealt with.
Return(p) ==
  /\ Goto(p, IF IsLast(p) THEN "ended" ELSE "idle")
  /\ saw' = [saw EXCEPT ![p] = None]
  /\ output_rows' = [output_rows EXCEPT ![p] = {}]
  /\ unread' = [unread EXCEPT ![p] = {}]
  /\ state_file' = IF p \in Loops /\ saw[p][1] > 0
                   THEN [state_file EXCEPT ![p] = saw[p]] ELSE state_file

Lock(p) == [by |-> p, alive |-> TRUE]

\* acquire_lock of the update.  A lock whose process is dead is skipped or, once
\* it is old, taken over.
AcquireLock(p) ==
  LET w == WorkerOf[p]
  IN  /\ pc[p] = "lock"
      /\ \/ /\ lock[w] = None
            /\ lock' = [lock EXCEPT ![w] = Lock(p)]
            /\ Goto(p, "assign") /\ UNCHANGED <<state_file, saw, local>>
         \/ lock[w] # None /\ Return(p) /\ UNCHANGED lock
         \/ /\ lock[w] # None /\ ~lock[w].alive
            /\ Goto(p, "take over") /\ UNCHANGED <<lock, state_file, saw, local>>
  /\ UNCHANGED <<stream, merge_lock, ledger, product>>

\* rm and mkdir; whoever's lock it is by then.
TakeOver(p) ==
  /\ pc[p] = "take over"
  /\ lock' = [lock EXCEPT ![WorkerOf[p]] = Lock(p)]
  /\ Goto(p, "assign")
  /\ UNCHANGED <<stream, state_file, saw, merge_lock, local, ledger, product>>

\* The trap at exit.
Unlock(p) ==
  /\ pc[p] = "unlock"
  /\ lock' = [lock EXCEPT ![WorkerOf[p]] = None]
  /\ Return(p)
  /\ UNCHANGED <<stream, merge_lock, ledger, product>>

-----------------------------------------------------------------------------
(* The assignment.                                                         *)

\* The end of the window that is complete at t.  Before the first full one there
\* is none, and time itself is taken.
WindowEnd(t) == IF t < Window THEN t ELSE t - ((t - Window) % Update)

Start(end) == IF end < Window THEN 0 ELSE end - Window

Features(w) == {t \in Triggers[w] : t < told[w]}

Latest(w) ==
  LET ends == Features(w) \union {c \in Chunks[w] : c <= written[w]} \union {0}
  IN  CHOOSE t \in ends : \A u \in ends : u <= t

\* Whether the latest window has the data and the features for an update.
BackgroundReady(w) ==
  LET upper    == WindowEnd(Latest(w))
      InWindow == {t \in 0..upper : t > Start(upper)}
  IN  /\ Cardinality(InWindow \intersect Chunks[w] \intersect 1..written[w]) >= Window
      /\ Cardinality(InWindow \intersect Features(w)) > MinFeatures

\* Mutant: all that is visible counts.
BackgroundOfVisible(w, end) == {t \in Features(w) : Start(end) <= t}

\* The foreground features in the window, as background.
Background(w, end) == {t \in Features(w) : Start(end) <= t /\ t < end}

\* Triggers that have no row yet.
Unseen(w, rows) ==
  {t \in Features(w) : t <= Latest(w) /\ \A r \in rows : r.trigger # t}

\* The rows for new triggers, whose windows are complete and have the features; of
\* the windows only so many, the earliest.
NewRows(w, rows) ==
  LET ends    == {WindowEnd(t) : t \in Unseen(w, rows)}
      usable  == {e \in ends : /\ e - Start(e) >= Window
                               /\ Cardinality(Background(w, e)) > MinFeatures}
      earlier(e) == {d \in usable : d < e}
      now     == {e \in usable :
                    MaxNewWindows > 0 => Cardinality(earlier(e)) < MaxNewWindows}
  IN  {[worker |-> w, trigger |-> t, end |-> WindowEnd(t),
        bg |-> Background(w, WindowEnd(t))] :
         t \in {u \in Unseen(w, rows) : WindowEnd(u) \in now}}

\* The old rows stay and new ones come after them; without a background, or
\* enough features, no row is made.
Assign(p) ==
  LET w == WorkerOf[p]
  IN  /\ pc[p] = "assign"
      /\ \/ /\ BackgroundReady(w)
            /\ output_rows' =
                 [output_rows EXCEPT ![p] = ledger[w] \union NewRows(w, ledger[w])]
            /\ Goto(p, "write")
         \/ ~BackgroundReady(w) /\ Goto(p, "merge lock") /\ UNCHANGED output_rows
      /\ UNCHANGED <<stream, state_file, saw, locks, unread, ledger, product>>

\* write_rows: by a rename.
WriteRows(p) ==
  /\ pc[p] = "write"
  /\ ledger' = [ledger EXCEPT ![WorkerOf[p]] = output_rows[p]]
  /\ output_rows' = [output_rows EXCEPT ![p] = {}]
  /\ Goto(p, "merge lock")
  /\ UNCHANGED <<stream, state_file, saw, locks, unread, product>>

-----------------------------------------------------------------------------
(* The merge.                                                              *)

\* acquire_lock of the merge, which is skipped if another one runs.
MergeAcquireLock(p) ==
  /\ pc[p] = "merge lock"
  /\ \/ merge_lock = None /\ merge_lock' = Lock(p) /\ Goto(p, "merge read")
     \/ merge_lock # None /\ Goto(p, "unlock") /\ UNCHANGED merge_lock
     \/ /\ merge_lock # None /\ ~merge_lock.alive
        /\ Goto(p, "merge take over") /\ UNCHANGED merge_lock
  /\ UNCHANGED <<stream, state_file, saw, lock, local, ledger, product>>

\* The old directory is removed, whoever's it is by then, and the lock tried again.
MergeTakeOver(p) ==
  /\ pc[p] = "merge take over"
  /\ merge_lock' = None /\ Goto(p, "merge lock")
  /\ UNCHANGED <<stream, state_file, saw, lock, local, ledger, product>>

MergeReadProduct(p) ==
  /\ pc[p] = "merge read"
  /\ output_rows' = [output_rows EXCEPT ![p] = product]
  /\ unread' = [unread EXCEPT ![p] = Workers]
  /\ Goto(p, "merge")
  /\ UNCHANGED <<stream, state_file, saw, locks, ledger, product>>

\* Mutant: what is being written to a ledger is read.
MergeWorkerUnwritten(p) ==
  /\ pc[p] = "merge"
  /\ \E w \in unread[p] :
       LET tmp == UNION {output_rows[q] :
                          q \in {u \in Updaters : pc[u] = "write" /\ WorkerOf[u] = w}}
           new == {r \in ledger[w] \union tmp : \A s \in output_rows[p] :
                     <<s.worker, s.trigger>> # <<r.worker, r.trigger>>}
       IN  /\ \A v \in unread[p] : w <= v
           /\ output_rows' = [output_rows EXCEPT ![p] = @ \union new]
           /\ unread' = [unread EXCEPT ![p] = @ \ {w}]
  /\ UNCHANGED <<stream, state_file, pc, saw, locks, ledger, product>>

\* The next worker's rows are added unless the trigger has one.
MergeWorker(p) ==
  /\ pc[p] = "merge"
  /\ \E w \in unread[p] :
       LET new == {r \in ledger[w] : \A s \in output_rows[p] :
                     <<s.worker, s.trigger>> # <<r.worker, r.trigger>>}
       IN  /\ \A v \in unread[p] : w <= v
           /\ output_rows' = [output_rows EXCEPT ![p] = @ \union new]
           /\ unread' = [unread EXCEPT ![p] = @ \ {w}]
  /\ UNCHANGED <<stream, state_file, pc, saw, locks, ledger, product>>

MergeWrite(p) ==
  /\ pc[p] = "merge" /\ unread[p] = {}
  /\ product' = output_rows[p]
  /\ output_rows' = [output_rows EXCEPT ![p] = {}]
  /\ Goto(p, "merge unlock")
  /\ UNCHANGED <<stream, state_file, saw, locks, unread, ledger>>

MergeUnlock(p) ==
  /\ pc[p] = "merge unlock"
  /\ merge_lock' = None /\ Goto(p, "unlock")
  /\ UNCHANGED <<stream, state_file, saw, lock, local, ledger, product>>

-----------------------------------------------------------------------------
(* What goes wrong.                                                        *)

\* A script fails: set -e ends the update, or the merge, by way of the traps.
Fail(p) ==
  /\ p \in Failing
  /\ \/ pc[p] \in {"assign", "write", "merge lock"} /\ Goto(p, "unlock")
     \/ pc[p] = "merge" /\ Goto(p, "merge unlock")
  /\ UNCHANGED <<stream, state_file, saw, locks, local, ledger, product>>

Died(l, p) == IF l # None /\ l.by = p THEN [l EXCEPT !.alive = FALSE] ELSE l

\* The update is killed, and the loop goes on.
Crash(p) ==
  /\ p \in Crashing /\ pc[p] \notin {"idle", "lock", "ended"}
  /\ lock' = [w \in Workers |-> Died(lock[w], p)]
  /\ merge_lock' = Died(merge_lock, p)
  /\ Return(p)
  /\ UNCHANGED <<stream, ledger, product>>

Ended == (\A p \in Updaters : pc[p] = "ended") /\ UNCHANGED vars

UpdateStep(p) ==
  \/ AcquireLock(p) \/ TakeOver(p) \/ Unlock(p) \/ Assign(p) \/ WriteRows(p)
  \/ MergeAcquireLock(p) \/ MergeTakeOver(p) \/ MergeReadProduct(p)
  \/ MergeWorker(p) \/ MergeWrite(p) \/ MergeUnlock(p)

Next ==
  \/ \E w \in Workers : WriteChunk(w) \/ WriteTriggers(w)
  \/ Stop
  \/ \E p \in Updaters : StartUpdate(p) \/ UpdateStep(p) \/ Fail(p) \/ Crash(p)
  \/ Ended

Spec == Init /\ [][Next]_vars

-----------------------------------------------------------------------------
Row == [worker : Workers, trigger : Nat, end : Nat, bg : SUBSET Nat]

LockState == [by : Updaters, alive : BOOLEAN] \union {None}

TypeOK ==
  /\ written \in [Workers -> 0..MaxTime] /\ told \in [Workers -> 0..MaxTime]
  /\ stopped \in BOOLEAN
  /\ pc \in [Updaters -> {"idle", "lock", "take over", "assign", "write", "merge lock",
                         "merge take over", "merge read", "merge", "merge unlock",
                         "unlock", "ended"}]
  /\ lock \in [Workers -> LockState] /\ merge_lock \in LockState
  /\ output_rows \in [Updaters -> SUBSET Row]
  /\ unread \in [Updaters -> SUBSET Workers]
  /\ ledger \in [Workers -> SUBSET Row] /\ product \subseteq Row

\* assign_frozen_far_ledger.py:4-6: "once a trigger row has an assigned FAR, this script
\* keeps that value and only appends previously unseen trigger rows".
LedgerAppendOnly == [][\A w \in Workers : ledger[w] \subseteq ledger'[w]]_vars

\* The background of a row is the one frozen for its time: all that the worker ever
\* finds in the full window before, nothing of the trigger's own batch.
Frozen(w, r) ==
  /\ r.end <= r.trigger /\ r.trigger < r.end + Update /\ r.end >= Window
  /\ r.bg = {t \in Triggers[w] : r.end - Window <= t /\ t < r.end}

\* Every row of a worker's ledger has its frozen background, however much of the
\* stream was visible to the update that assigned it.
BackgroundFrozen == \A w \in Workers : \A r \in ledger[w] : Frozen(w, r)

\* What the run publishes is what a worker's ledger says, although merges overlap
\* when two of them take over one old lock.
ProductFromLedgers == product \subseteq UNION {ledger[w] : w \in Workers}

Published == product \union UNION {ledger[w] : w \in Workers}

\* A trigger that has a FAR keeps its value: a ledger that lost rows to another update's
\* rename gives them again what they had, so that no two of the ledgers and the product
\* ever disagree on a trigger, whoever is killed.
ValueKept ==
  \A r, s \in Published :
    <<r.worker, r.trigger>> = <<s.worker, s.trigger>> => r = s
=============================================================================
