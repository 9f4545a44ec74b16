# TLA+ models of the SPIIR online search

The SPIIR pipeline (`gstlal-spiir/`) searches the strain of the
gravitational-wave detectors for compact binaries and uploads significant
candidates while the data is being taken. One *job* of the pipeline filters the
data against several template *banks*. Most of its code is signal processing on
a GPU; what decides whether a candidate is found once, ranked against the right
background and reported is the bookkeeping around it: clocks, windows, adapters,
gaps, tables, files, locks and subprocesses. These modules model that part.

Paths below are relative to the repository. `postcoh_finalsink.py` is
`gstlal-spiir/python/pipemodules/postcoh_finalsink.py`, `postcoh.c` and
`multiratespiir*.c` are under `gstlal-spiir/gst/cuda/`, `gstlal_gate.c` is
`gstlal/gst/lal/gstlal_gate.c`, and the sidecar is
`gstlal-spiir/single_detector_sidecar/online_single_llrfar_wguo_refined/`.

## The system and its parts

```
 per detector:  h(t), state vector -> lal_gate (gaps) -> whitening
 per detector and bank:              -> cuda_multiratespiir (SNR series)
 per bank:  all detectors -> cuda_postcoh -> cohfar_accumbackground -> cohfar_assignfar -> appsink
                                                 | dumps a file           ^ re-reads         |
                                                 v per snapshot           | three files      v
                                          background files -> FAPUpdater -+            AppSync (all banks)
                                            (merge, remove)   (marginalise)                  |
                                                      ^                                      v
                                                      +--- run_calcfap, run_combine ---- FinalSink -> files, GraceDB
                                                                                             |
                                   product of the run <- sidecar: ledger per worker <- single-trigger streams
```

| component | state it keeps | operations | talks to |
|---|---|---|---|
| **lal_gate** (`gstlal_gate.c`) | control segments, head of the sink, need for a discontinuity, a lock and a condition | chain and EOS of two pads, on two threads | the state vector or, behind a tee, its own input |
| **flag segments** (`gst/lib/flag_segment/`) | a list of intervals with a flag | append, ask and purge | lal_gate (in its own words), cuda_postcoh, cuda_multiratespiir |
| **cuda_multiratespiir** | adapter, queue per depth, samples in and out, flag segments | transform, drain, new segment, EOS | pushes SNR series |
| **cuda_postcoh** (`gst/cuda/postcoh/`) | a buffer per detector, adapters, flag segments, next expected offsets, ring buffer of the time slides | collect: align, fill in, recollect, process; EOS | pushes a table per second |
| **cohfar_accumbackground** (`gst/cuda/cohfar/`) | background and zerolag histograms since the last dump, `t_roll_start` | chain, EOS | writes a file per snapshot interval, passes foreground on |
| **cohfar_assignfar** | the three marginalised backgrounds, `pass_silent_time`, `t_roll_start` | transform_ip | reads the files FAPUpdater's subprocesses replace |
| **AppSync** (`gstlal/python/pipeparts/__init__.py`) | per appsink the timestamp noticed, the set at EOS, a lock | one handler for two signals of every bank's streaming thread | calls FinalSink with the oldest buffer |
| **FinalSink** (`postcoh_finalsink.py`) | current timestamp and count of banks, table of events, cluster boundary, candidate, zerolag and segment documents, `trigger_control.txt` | one handler per buffer; the end of the run | AppSync, FAPUpdater, GraceDB, the disk |
| **FAPUpdater** (`postcoh_finalsink.py`) | the processes it started, the files being merged, when it last did what | run_calcfap, run_combine_stats | subprocesses `gstlal_cohfar_calc_fap`, the job's directory |
| **single-detector sidecar** | trigger streams, a FAR ledger per worker, the product of the run, two kinds of lock directories | loop, update, assignment, merge | FinalSink's CSV files |
| **GraceDB upload** (`postcoh_finalsink.py`) | upload attempts, writer threads | upload with retries, join at the end | GraceDB |
| kernels, bank construction, workflow, web pages, upstream gstlal packages | | | see PROJECT.json, not modelled |

What makes them correct, and what is hard about it:

* *lal_gate.* Every sample is flagged as the control input asks for at its time,
  although two threads add, flush and read one queue, wait for each other, and may
  be fed by one thread behind a tee.
* *cuda_multiratespiir.* Samples, output times, queues and flag segments are
  counted apart and must agree across holes, discontinuities, drains and buffers
  of any length.
* *cuda_postcoh.* The detectors' adapters must hold the same times although their
  streams start apart, have holes and end in any order; a detector takes part only
  where it has data; time slides must never meet their own zero lag; and a pad must
  not make the others wait for ever.
* *FinalSink.* Of the events of all banks that lie within a window only the best
  is kept; none is lost without a better one nearby; it is recorded once and
  reaches a file. The banks' buffers for one second come in any order, the window
  slides over several buffers, the candidate outlives the buffers it came from,
  and with early warning the bounds are shifted against the buffers.
* *AppSync.* Streaming threads of all banks compete for one lock; branches end at
  different times with a buffer still held; the handler may raise.
* *FAPUpdater, accumbackground, assignfar.* Nothing but files connects them. The
  same background lies on the disk before and after merging; subprocesses run
  beside the listing and removal of files; they fail; the job is restarted. No
  piece of background may be lost or counted twice, a marginalisation must not
  see older data than it should, and the FARs must not go stale.
* *The sidecar.* A FAR, once assigned, never changes, however often and by however
  many processes the same stream is looked at; processes die and leave locks.

## Modules

| module | models | lines it replaces |
|---|---|---|
| `FlagSegments` | lists of segments with a flag: append, purge, ask | `flag_segment.c`, `gstlal_gate.c` 196-260 |
| `Gate` | the element lal_gate | `gstlal_gate.c` 302-455, 700-822, 940-1205 |
| `Multirate` | the element cuda_multiratespiir, gap_handle 0 | `multiratespiir.c` 80-185, 627-1298, `multiratespiir_utils.c` 584-766, `multiratespiir_kernel.cu` 520-891 |
| `Postcoh` | the element cuda_postcoh, without the numbers | `postcoh.c` 540-610, 799-1117, 1862-2110 |
| `TriggerSelection` | what clustering promises, without buffers or windows | abstract |
| `FinalSink` | class FinalSink: handler, clustering loop, trigger control, snapshots, end of run | `postcoh_finalsink.py` 599-1173, 1241-1290, 1450-1529 |
| `AppSync` | class AppSync | `pipeparts/__init__.py` 747-813 |
| `OnlineSink` | the banks' branches, AppSync and FinalSink together | launch script 874-930, 962-974 |
| `FapUpdater` | class FAPUpdater and what a subprocess does to the directory | `postcoh_finalsink.py` 248-594 |
| `AccumBackground` | the element cohfar_accumbackground | `cohfar_accumbackground.c` |
| `AssignFar` | the element cohfar_assignfar | `cohfar_assignfar.c` |
| `FarLedger` | streams, update loops, locks, frozen ledgers and the merge of the sidecar | `update_single_background_loop.sh`, `update_single_background_once.sh`, `assign_frozen_far_ledger.py`, `merge_worker_far_ledgers.py`, `postcoh_finalsink.py` 1017-1097 |
| `..._proofs` | theorems about the module of that name, `FinalSink_proofs` also about `AppSync` and `OnlineSink` | |
| `MC...` | settings, triggers, streams and walltimes for TLC | |

`Gate`, `Postcoh` and `Multirate` use `FlagSegments`. `FinalSink` is shown to
implement `TriggerSelection`, and `OnlineSink` composes it with `AppSync`. The other
modules meet at what they exchange: `Gate`
gives the gaps that `Multirate` passes on and `Postcoh` counts, `AccumBackground`'s
files are what `FapUpdater` finds, its marginalised files are what `AssignFar`
reads.

Definitions keep the source's names. Those whose comment says *Mutant* are faulty
variants of the definition that follows; no behaviour uses them, and PROJECT.json
names the property that each of them breaks.

### Gate

Two threads. The control thread is `ControlReceive` (or `TeePush`, where the tee
gives every buffer to the queue and then to control), `ControlChain` (the wait in
`control_chain` and the digestion of a buffer, sample by sample), `ControlEos`; the
sink thread is `SinkReceive`, `ControlGetInterval` (one turn of the waiting loop),
`SinkLoop` (one push; the lock is free between them) and `SinkEos`. A wait on the
condition is `"asleep"`, a signal makes it `"awake"`. `above` is the control signal,
chosen at the start with or without a hole, so that the properties can ask what the
gate *should* have done.

### Multirate

A buffer is one step, `Receive`: `Transform` resynchronises, adds to the adapter
and the flag segments, and executes at most once. `NewSegment` and `Eos` drain. The
chain of resamplers is reduced to how many samples of each depth are written and
read; `Down` and `Up` give the sizes of an execution at every depth. `Cover` counts what
the resamplers look ahead, `Halved` the samples that a depth has of so many at the
top, and `Chain` is the chain after each execution of a drain. A process that
dies, of an assertion or of a division by zero, is `failed`. `Drain`'s executions
are judged by the same `Fits` as the others.

### Postcoh

`Arrive` and `EndOfStream` are GstCollectPads: at most one buffer per pad waits.
`collected` is `NoStart`, `Align`, `Recollect`, `PushAll` or `AllEnded`; `PushAll`
leads to the loop of `cuda_postcoh_process`, whose seconds are `Process`, until
`Processed`. A sample is the time it was taken at, so that the adapters and the
ring buffer show what time a kernel would read where. `AlignCrashes` and
`ProcessAborts` are the ways the process dies. A buffer may have any length; up to
the alignment `MaxFirst` bounds it, as a filter bank sends a few samples first and a
second at a time then. `Subbuffer` cuts a first buffer at the common start as the code
does, at as many bytes as it should be samples; `first` remembers that buffer for
the properties.

### FinalSink

`appsink_new_buffer` runs under a lock from beginning to end. It is cut at the
loop of `cluster_and_process_significant_triggers`: `NewBuffer` is everything up
to the loop, each iteration is one of `NoEventInWindow`, `SlideToPeak`,
`EmitCandidate` (the three returns of `try_get_cluster_candidate`) or
`EmitAvailable` (the other mode), and `FinishBuffer` is the rest, with the
snapshot and `add_segments`. `pc = "clustering"` stands for the lock.
`WriteOutputFile` is the end of the launch script. Tables are sets, since no code
depends on their order. `SegmentDocument` becomes the timestamps of the live
buffers per detector.

Data left out: a trigger's `far` is the result of `__set_far` and of the vetoes
of `__is_significant_trigger` (0 when one applies); `trigger_control.txt` rounds
times to microseconds and FARs to seven digits, the model does not; the writer
threads of the documents write at once. `ZerolagsFilestem` is the name of a zerolag
file, with or without a prefix, and `OnDisk` the files that no later one replaced.
`buffer` holds the locals of the handler.

### AppSync

`signal` is the signal that a streaming thread has emitted and that has not been
handled because another thread holds the lock; `slot` is the one buffer an appsink
holds. `Push` and `EndOfStream` are GStreamer's part: a thread is blocked while
its slot is full, and EOS may come while a buffer is in the slot. `HandOut` is one
turn of the loop; its second disjunct is a handler that raises after it pulled.
Equal timestamps are handed over in any order: the code compares element objects.

### OnlineSink

`appsink_handler` calls `appsink_new_buffer` under its own lock, so that a thread of
one bank runs the final sink for all of them. `Branch` is what the threads do outside
it; `TakeBuffer` is at once `HandOut` of the oldest buffer and `NewBuffer` of the final
sink, or a handler that raises while it parses the buffer; `Process` is the
clustering that follows, with the other branches still running, and `HandlerReturns`
the end of AppSync's loop. `Shutdown` comes when every branch has ended.

### FapUpdater

One time unit is one dump of a bank, which is also the interval at which the code
merges (the constructor passes `snapshot_interval` for `combine_stats_interval`,
`postcoh_finalsink.py:752`; the comment at line 516 still says every day). A file is
its name (bank, start, duration) and the set of time units really in it; like the
code, the model reads and removes what is there *under a name*, whatever it
holds. `Tick` is a complete timestamp, the steps of `run_calcfap` and `run_combine_stats`
follow it, and dumps and the ends of subprocesses come in between. A subprocess
reads until it ends and writes its output then, by a rename. `Restart` forgets
everything but the directory.

### AccumBackground, AssignFar

Histograms are sets of entries, and file names keep whole seconds as in the C
code, which is why times are in fractions of a second. In `AssignFar` the three
files are read in three steps and may be replaced between them; a FAR is the
version of the background that it was computed from. The arithmetic on seconds
and nanoseconds is the code's.

### FarLedger

The final sink appends chunks and, after them, triggers (`WriteChunk`,
`WriteTriggers`), until `Stop` sets the stop flag. A process is a loop or an update
by hand; `pc` says in which script it is: the lock, the assignment, the writing of
the ledger, the merge's lock, its reading of the product and of one ledger after
the other, its writing. A lock is who made the directory and whether he lives.
A FAR is the set of triggers it was computed from. `Fail` is `set -e`: the trap
removes the lock; `Crash` is a kill: the lock stays, and `TakeOver` and
`MergeTakeOver` are what others do about it, in two steps as in the scripts.

## Runs

| run | what it shows | bounds |
|---|---|---|
| `final_sink` | separation, justified drops, single recording, snapshots, refinement of `TriggerSelection`, end of the loop | 2 banks, 4 timestamps, 7 triggers with equal SNRs, window 4 > buffer 3, events one unit before their buffer, early-warning shift 1, buffers out of order |
| `online_sink` | order across the threads, what the sink may rely on, nothing held up unless a handler raises, the trigger control, the promise of `feature_cluster_available_triggers` | 3 branches of 2 to 4 buffers over 5 timestamps, which start late, miss seconds and end early, 4 triggers, window = buffer = 2, a handler that raises at any buffer |
| `fap_updater` | no double count, names tell contents, complete reads | 2 banks, 7 dumps, walltimes 5 and 2, merging of 3 files up to 4 units, marginalisations up to 2 units |
| `fap_updater_restart` | within its bounds, no loss under failures and restarts; selected walltimes, the forced merging when a command line gets too long, blocking mode | 1 bank, 7 dumps |
| `fap_updater_failure` | finding: the inputs of a failed merging are removed | 1 bank, 7 dumps |
| `accum_background` | every entry in one place, names tell contents | 6 buffers at half seconds, dumps every second or never, renames that fail |
| `assign_far` | no FAR from an incomplete background | 13 s, buffers up to 2 s apart, interval 2, offset 2 |
| `gate` | flags follow the control signal, holes are discontinuities, segments are true, both threads end unless control has a hole or a buffer needs none of it | every control signal of 3 samples with every hole in it, buffers from 0 to 2, holes of 1, queue of 1; four settings: the gates of the state vectors and of h(t), a leaky one, one open in one direction |
| `postcoh` | aligned adapters, seconds coherent but for a first buffer that was cut, separate slides of neighbours, participants, everything processed, no starvation | 2 detectors, seconds of 2 samples, margins of 1, 2 slides of 2, 7 samples, buffers up to 3 (first ones up to 2), holes of 1 and gaps in one detector |
| `far_ledger` | frozen backgrounds, product from ledgers | 2 workers, 2 loops and an update by hand that may fail or be killed at every step; 5 chunks, window 2, update 2 |
| `far_ledger_append` | finding: rows of a ledger are lost | 1 worker, a loop whose updates may be killed, an update by hand |
| `multirate` | output times and flags, queues and memory of the chain, backlog | banks of 1 to 3 depths, 4 samples a second, buffers of 0, 3 and 4 samples, holes of 1, 16 samples |

Configurations beside the runs. Each asks the same modules one more question, and is
checked like a run, by `tlc -config X.cfg M`, where `M` is the module of the component's
run: `MCFinalSink`, `MCFapUpdater`, `AssignFar`, `MCGate`, `MCPostcoh`, `MCFarLedger` or
`MCMultirate`. `PROJECT.json` lists none of them.

| configuration | property | what TLC answers |
|---|---|---|
| `FinalSinkShutdown` | `ShutdownSaves` | violated: with no complete timestamp nothing is written at the end |
| `FinalSinkOutputName` | `SnapshotsLoseNothing` | violated: without a prefix each snapshot replaces the last |
| `FapUpdaterStarved` | `FapFresh` | violated, where a merging takes as long as the dumps of the next one |
| `FapUpdaterFresh` | `FapFresh` | holds over 13 dumps of a bank, where mergings end before the next dump; the bound is reached |
| `AssignFarRefresh` | `BackgroundFresh` | violated: a period is longer by the offset |
| `GateControlHole` | `BothEnd` | violated: a hole in control stops both threads |
| `GateEmptyWindow` | `BothEnd` | violated: an empty buffer without hold and attack stops both |
| `GateAttack` | `FlagsMatchControl` | violated: the attack is one sample short |
| `PostcohCut` | `Coherent` | violated: a first buffer that is cut is searched at other times |
| `PostcohSlides` | `SlidesApart` | violated with 3 detectors |
| `FarLedgerKilled` | `ValueKept` | holds, with two updates in one ledger |
| `MultirateEven` | `LengthsEven` | violated: a remainder is odd, or nothing at all, at some depth |
| `MultirateTail` | `TailPushed` | violated: a bank of one depth or a stream without a head is not drained |

Why these bounds are enough. Two banks make the last and a not-last buffer of a
second, which is the only distinction that FinalSink draws; four timestamps let a
window slide over a buffer border, close, and a second one follow it, with a
snapshot in between. `Triggers` is the set of what *may* arrive: TLC tries every
subset at every place. Three branches in OnlineSink are a branch at EOS, one waiting
and one handing out; the second, which misses a timestamp, makes timestamps that stay
incomplete. Seven dumps are more than a walltime, a merging and a merging
of the merged file. In `FapUpdater` `MaxTime`, `CalcfapMax` and `CombineMax` bound the
model: the last two say how long a subprocess may take. `FapFresh` needs thirteen
dumps to reach its bound, and so it is asked beside the runs, of one bank.
`MaxTime`, `MaxVersion` and `MaxGap` bound `AssignFar`; `RefreshOffset < SECOND`
only says that the units differ as they do in the code, where the factor is 10^9.

In `Gate` three samples hold a state, a change and a change back, and two buffers
with a hole; no stream has two empty buffers in a row. `EmptyWindows` and
`ControlHoles` allow empty buffers and holes in control; the run `gate` has both,
and `BothEndUnbroken` promises an end only where neither is met. In `Postcoh` seven
samples are up to three seconds with their margins, so that seconds follow each
other and the slides read across the end of the ring buffer; one faulty detector and
one that is not are the two kinds a collection can meet, and first buffers up to
`MaxFirst` of different lengths and starts are cut at the common start at every
place. In `FarLedger` five chunks are a window and two updates of the background,
the second capped by `MaxNewWindows`; one updater that dies is enough for a stale
lock, and a loop that goes on after it beside an update by hand are two that contend
for it. In `Multirate` the first execution of a bank of three depths takes 11
samples and the second 4, so that 16 samples hold a head, a second, a drain with an
odd remainder, and a restart.

Fairness. `ClusterTerminates` assumes weak fairness of the steps of a handler that
holds the lock; the banks owe nothing. `OnlineSink` assumes that branches run to
their ends, strong fairness of taking the lock, which a Python lock gives every
waiting thread as long as it is released in between, and weak fairness of the thread
that holds it. `BothEnd` and `BothEndUnbroken`
of `Gate` assume weak fairness of each of the two streaming threads as a whole: a
thread that can go on does, upstream delivers or ends. `SearchEnds` of `Postcoh`
assumes the same of `collected` and of every upstream, since upstreams are threads
of their own. All other runs are safety runs without fairness.

Deadlock is checked in every run but `gate`, which has empty buffers and holes in
control, where the two threads may stop for good: a stop is only allowed where the
model says `Finished`, `Ended`, `AllEnded` or `Done`.

## What is proved

Every theorem holds for all values of the constants that satisfy the assumptions
named in the component's module. The proofs share a shape: an invariant `IInv` that
is inductive, a lemma per action, and a temporal step at the end.

* `FinalSink_proofs`.
  * `TypeCorrect`. `TypeOK` is not inductive: that the count of buffers stays
    within the number of banks needs that it is the number of banks that have
    delivered. `TypeInv` adds `CountInv`, which says so.
  * `SeparationHolds`: two recorded triggers are a window apart, less the slack.
    `Separation` says nothing of a trigger that is about to be recorded, so it is
    strengthened to
    `SeparationInv == TypeOK /\ BufferBound /\ WindowsClosed /\ Separation`:
    `BufferBound` ties `max_cluster_boundary` to the timestamp and to whether the
    timestamp is complete, which is why no later event reaches back;
    `WindowsClosed` says that the window is centred on the candidate, that a
    recorded trigger's window is over, and that everything undecided lies behind it.
  * `RecordedOnceHolds` and `SnapshotsKeepAll` (an action property: no step takes a row
    or a live second away) come from `Distinct`: a trigger is
    in one place, on its way, in hand, undecided, or in one document.
    `TriggersAssumption` is used: a bank finds a template at most once at a time.
    `SnapshotsKeepAll` assumes `OutputPrefix` and adds `StartsApart`: no two zerolag
    files start at one time, so that none replaces another.
  * `DropsAreJustified`: a trigger is given up only for a better one near it.
    `SelectionInv` adds `Bounds`, how far the window reaches beside the undecided
    triggers, to all of these; the proof needs that `is_better_event` is total and
    transitive. `SinkSelects`: the sink implements `TriggerSelection`, where it
    clusters over a window; an iteration of the loop maps to `Record` or `Drop`, a
    buffer to the arrival of its triggers, all else to a stutter.
  * `SubmissionsImprove`, in both modes, under `NoneLate`: no trigger ends further
    before its buffer than a window (in the available triggers' mode: none ends
    before it). Then what is recorded is recorded in the order of time (`Forward`),
    and the pass of the trigger control, which looks at recent lines only, compares
    each submission with all that are near it.
  * `DecidedAtOnce`, under `InStep`: the available triggers' mode, windows as long as
    buffers and the banks' buffers on one grid, as the run has it.
  * `AppSync`, on whose order the sink relies. Its theorems are in the same module,
    which is why its names begin with `Sync`. `Held` (what was noticed is what a pull
    returns), `Slots`, `Order` (what was handed over comes before all that is still to
    come of any branch) and `Ordered` (so do those handed over among themselves) give
    `SyncTypeCorrect`, `AssertionHolds` (the handler's assertion) and `HandedInOrder`.
  * `OnlineSink`. `OnlineImplements`: under `BanksAreSinks` the composition implements
    both components, so that all of the above holds of it. `NoneIsLate` needs `Link`
    between them: a bank that has delivered at the sink's timestamp was handed over
    at that timestamp. A handler that raised left no trace in the sink, which is then
    behind what was handed over, never ahead.
* `AccumBackground_proofs`. `Clock` (what is in memory came since the last
  dump) and `Names` (every file starts in an earlier second than the next one will) give
  `BackgroundCountedOnce` and `FilesNamedByContent`: two dumps never get one name.
* `AssignFar_proofs`. `Times`, `Loaded` (how many files the current load has read)
  and `Fresh` give `FarsFromAllScales` and `RefreshBounded`: the interval and the offset
  together bound the age of the background, as the code's arithmetic has it.
  `BackgroundFresh`, the documented interval, is false.
* `FarLedger_proofs`. `BackgroundStaysFrozen` needs no lock: `FrozenInv` says that
  also the rows about to be written are frozen. Nor does `OneValue`: `RowsAssigned` says
  that all rows, also those that are written or merged, have the one background of
  their trigger. `ProductIsFromLedgers` assumes `FewContend`, which the instance of
  the run fulfils and which holds whenever nothing is killed, with any number of updaters: an
  updater that may be killed is the only one of its worker, or it runs once beside
  a single other one. `LedgerInv` says that an update past the lock has it
  (`LockHeld`), that what is being taken over is stale (`TakesOverStale`) and that
  whoever left a stale lock has ended or is alone (`StaleOfEnded`), so that a
  take-over has no rival; that what an update will write includes the ledger it
  read; and that a merge took its rows from ledgers. The merge's own lock is not
  needed: merges that take over one lock and overlap publish rows of ledgers, too.
  Without `FewContend` ledgers may lose rows that the product has (`far_ledger_append`).
* `Gate_proofs`.
  * `SegmentAdded` is the contract of `AddSegment`, used alike by three elements: it
    keeps the list in order and loses nothing.
  * `HolesAreFlagged` needs that the loop is within its buffer (`InBuffer`), that the
    queue behind the tee has no hole (`Contiguous`) and that `need_discont` is set
    whenever there is a hole after the last push (`HoleKnown`).
  * `SegmentsAreTrue`. A control buffer is digested by a recursive function over its
    samples. `RecordExists` shows that such a function exists (a least length for
    which it did not would contradict itself) and `RecordIs` that what it computes
    keeps the list in order and says of each time what control said. `Truthful` is
    that every flag in the list is the one of its times.
  * `FlagsFollowControl`. `Complete` says that the list still has every time that a
    buffer in hand or to come can ask for, `Spanned` that control has come as far as
    what was pushed needs, and `Settled` that a pushed sample has the flag
    that control, from its hold to its attack, asks for. That a flush takes nothing
    needed and that a sample pushed early can not be contradicted later is the proof.
    `FlagsAgree` is what follows whether or not the ends of that window belong to it.
* `Postcoh_proofs`. The invariant `Placed` locates every adapter, buffer and flag
  segment against the time of the next second.
  * `Participants` needs nothing else.
  * `SamplesPlaced` and `SearchedCoherently`, for any streams. `Firsts` says that the
    first buffer of an aligned detector begins no later than the common start and is
    over by the end of what the detector sent;
    `Contents` says which sample is at which place of an adapter, `Rings` the same of
    the ring of a detector, modulo its length. The samples of a first buffer that was
    cut are `Skew` too early and nothing else is.
  * `NeighboursStayApart`, for any number of detectors, assumes trials no further apart
    than a second with its margins. For detectors that are not next to each other
    it is false, see below.
  * `NothingLeft` assumes that a first buffer is no longer than a second
    (`MaxFirst <= ExeLen`), as those of the filter banks are; with longer ones TLC finds
    seconds left when nothing follows them. `Remaining` says that some detector always
    holds back all the rest.
* `FapUpdater_proofs`. The groups of files to be merged are a fold over the files of a
  bank in the order of their names; `SumExists` and `CollectExists` show that the
  functions behind the folds exist, `WalltimeIs` and `GroupsAre` what comes out: a
  group is of two or more files of one bank, and no file is in two groups. Hence
  `Merges`: a merged file begins like its first input and is longer than each.
  `CollectionAssumption` says that more than one file makes a group (the code has 3).
  * `WalltimesRespected` holds through failures and restarts: a file holds nothing
    older than its name says (`File`).
  * `RemovalsSucceed` too: what is to be removed is under its name in the directory
    until it is removed, for no name vanishes in any other way.
  * `BackgroundStays`, `NothingCountedTwice` and `InputsStay` assume `~MayRestart`.
    `Held` says that no two files have one name and that no time unit is in two files
    that stay, nor in two that go, nor in one that stays and an input of a running
    merging; hence no merged file overwrites another (`OwnName`). `Covered` says where
    a dumped time unit is, `Reading` that nothing is merged or removed between a
    listing and the start of the subprocess, and that what is merged afterwards stays
    until the next merging is due. After a restart the outputs of unfinished mergings
    lie beside inputs nobody will remove, so `Held` is false and background is counted
    twice.
  * `NamesTellContents` assumes `~MayRestart` and `~SubprocessMayFail`, and TLC refutes
    `NamedByContent` with either. A merged file is named after the start of its first
    input and the sum of the durations, so its name is true only when its inputs
    follow one another without a gap. `Layered` says that every name tells the content
    and that no file is longer than one of its bank that begins before it and is still
    short enough to be merged (`Shrinking`). Then the collections of a bank follow one
    another (`GroupsInOrder`) and no file lies between two that are merged (`NoGap`),
    for which the totals of the walltimes have to be compared (`WalltimeBounds`,
    `WalltimeCounts`).

* `Multirate_proofs`, for any number of depths, lengths of filters and rate that
  `BanksAssumption` allows: filters of even length, a second that can be halved down
  to the bottom, and a head that is not taken for a second.
  * The sizes at each depth (`Cover`, `Halved`, `Down`, `Up`, `Chain`) are recursive
    functions over depths or executions. `Recursion` shows once that such a function
    exists, and a lemma for each (`CoverIs`, `HalvedIs`, `DownIs`, `UpIs`, `ChainIs`) what
    it computes. `HalvedCover` compares the rounding of the queue's length with the
    doubling of the cover.
  * `Lagging` says what a chain is like between two executions: it skips nothing any
    more, and the filter of each depth is behind its resampler by no more than `Lead`,
    the cover less a filter. `FreshTakes`: the head makes a fresh chain lag.
    `LaggingTakes`: a chain that lags takes any number of samples up to a second, fits
    into its queues, and after a second it lags again; so it gives the second back.
    `DrainTakes` carries that through all executions of a drain, the last of which may
    be odd, and gives the bound of what a drain writes.
  * `IInv` is about the rest: the element is `Fresh` (nothing executed since the start,
    all that was pushed is older) or `Running` (the output is behind by the tail and
    ends where the next one begins); every sample received is executed or in the
    adapter; the flag segments say what was heard (`Recorded`) and speak of all that is
    not pushed yet, so that no assertion fails (`NothingFails`); and what was pushed is in
    order and true (`Pushed`). `PiecesAre`: the pieces that differently flagged segments
    make of an interval cover it without a hole.
  * `OutputIsTrue`, `ChainIsSound` and `BacklogIsBounded` follow, each up to the death
    of the process in a drain that divides by zero, which `Drain` models and no
    assumption excludes.

Two facts about the prover shape these proofs. Its induction theorems can not be
used, as they take an operator as a parameter; where induction is needed the proof
takes the set of counterexamples instead, and from it a least number (`Least`) or a
smallest set (`Smallest`), which the library's theorems on well-founded orders give.
And it has no means for liveness.

Only model-checked:

* liveness (`ClusterTerminates`, `AllHandedOverEventually`, `BothEndUnbroken`, `SearchEnds`);
* `FapFresh` of `FapUpdater`, beside the runs: a bound on time that rests on how many
  dumps a merging needs and how long it takes;
* `BackgroundKept` of `FapUpdater` when the job is restarted. It holds within the
  bounds of `fap_updater_restart`, and it is *not* true beyond them, see the
  observation on `postcoh_finalsink.py:268` below.

## Findings

The first two have a run in which TLC finds the property violated, and PROJECT.json
quotes what the repository says. The others have a configuration beside the runs.

* `postcoh_finalsink.py:382` (run `fap_updater_failure`). The inputs of a merging are
  removed although it failed, and their background is lost, where the docstring at
  line 373 says "Removes files that have finished being combined."
* `update_single_background_once.sh:62` (run `far_ledger_append`). Two updaters of one
  worker can each find one stale lock, a third one's or that of the loop that goes on
  after its update was killed, and the second of them removes the new lock of the
  first: both then write the ledger and rows are lost, although
  `assign_frozen_far_ledger.py:4-6` says that it only appends. Their values stay
  (`ValueKept`).
* Launch script, line 967 (`FinalSinkShutdown`). The last documents are named by two
  times that are `None` when no timestamp was ever complete, as when one bank brings
  nothing: the script raises and nothing is written, although line 1114 of the sink
  records the last timestamp "so remaining stats can be dumped on program end". The
  candidate and the undecided events are not flushed at the end of any run.
* `postcoh_finalsink.py:1448` (`FinalSinkOutputName`). With an output name and no
  prefix, which the launch script accepts ("either output-name or output-prefix is
  required", line 496), every snapshot replaces the zerolags of the one before it.
* `postcoh_finalsink.py:465` (`FapUpdaterStarved`). No marginalisation starts while
  files are being merged, and merging is tried at every snapshot interval: mergings
  that follow one another put it off without limit. The launch script describes its
  interval as "How often to update the fap stats files." (line 484)
* `cohfar_assignfar.c:272` (`AssignFarRefresh`). The refresh offset is subtracted in
  seconds from a time in nanoseconds, so each period is longer by the offset than
  `gstlal-spiir/README.md:144` says, "at multiples of this interval". `postcoh.c:1872`
  has the same line; `RefreshInterval` of `Postcoh` is the sum.
* `gstlal_gate.c:730` (`GateControlHole`). Behind a hole in the control stream each
  thread waits for the other, and the default "to assume when control input is not
  available" (line 1391) is not used.
* `gstlal_gate.c:335` (`GateEmptyWindow`). The waiting loop of the sink flushes the
  segment that control waits to be gone, and signals nobody.
* `gstlal_gate.c:439` (`GateAttack`). The end of the attack is exclusive, one sample
  less than line 1413 describes.
* `postcoh.c:1088` (`PostcohCut`). `gst_buffer_create_sub` is given an offset in samples
  for bytes: a first buffer that is cut is searched against other times of the other
  detectors, where line 20 speaks of synchronizing them. Detectors whose filter banks
  start in different seconds meet it once, at the start of the search.
* `postcoh_kernel.cu:680` (`PostcohSlides`). With three detectors the slides of the first
  against the third advance two intervals at a time, wrap, and come closer to each
  other and to zero lag than the "0.1 second apart" of `gstlal-spiir/README.md:148`.
* `multiratespiir_kernel.cu:571` (`MultirateEven`). The remainder of a drain is not halved
  evenly, as the comment there says it is, and one shorter than 2^(depths-1) samples
  divides by zero at line 596. `Drain` models it, and the other properties hold up to
  the death.
* `multiratespiir.c:1272` (`MultirateTail`). A bank of one depth, or a stream that never
  filled a head, has no drain: the rest of the adapter is lost, although line 1283
  says "clear tails by pushing drain".

Observations without a configuration:

* `postcoh_finalsink.py:817`. For a buffer older than the current timestamp the
  log call has two conversions and one value; it raises instead of recovering "by
  continuing with old timestamp", and the buffer is lost. `OldBuffer` models it.
* `pipeparts/__init__.py:808`. A handler that raises ends the loop; buffers of
  other branches that were ready are handed over only if somebody signals again,
  which is why `AllHandedOverEventually` excepts a handler that raised.
* `postcoh_finalsink.py:419`. Files are selected by their start; a merged file that
  begins before the walltime drops out with all that is recent in it, although
  `gstlal-spiir/README.md:166` speaks of the collection time as a period. As the oldest small
  file of a bank keeps growing up to two days, the two short walltimes see only the
  last few dumps most of the time.
* `postcoh_finalsink.py:268`. After a restart nobody removes the inputs of a merging
  whose output was written. They are merged again together with that output, and a
  merged file can get the name of another input: it replaces that one, and is itself
  removed by that name at line 382, with all that it holds. A random walk through the
  collecting and removing alone, without the rest of the job, met such a loss after
  eight rounds of merging, four of them interrupted by a restart, and none with
  fewer than four; that takes about 13 dumps, which is out of TLC's reach here.
* `postcoh_finalsink.py:400`. The files of a bank are sorted as strings, so that durations
  with different numbers of digits and one start would be in another order than in
  the model, which compares numbers. It matters only for two files of one start,
  which exist only after a restart.
* The trigger control passes a recent trigger at *any* improvement of the FAR, while
  its comment (`postcoh_finalsink.py:1265`) speaks of an order of magnitude; when one
  bank is at EOS no timestamp is complete any more, so snapshots and FAR updates
  stop; the first window reaches over the buffer it was opened in, so the order of
  the banks in that second influences what is chosen.
* Gate: with a hold beyond what the queue behind the tee holds, the one thread that
  feeds both is stuck (`SettingsAssumption` excludes it).
* Postcoh: `flag_segments_is_gap` asserts that a segment reaches the end of the
  second (`flag_segment.c:14`), which fails after a hole, an empty buffer and EOS
  (`ProcessAborts`); a hole or EOS during the alignment crashes (`AlignCrashes`).
  Zeros filled into a hole are no gap to the flag segments, and so count as data.
* Multirate: what a drain pushes has lost its gap flags. A discontinuity gives up what
  was not filtered (a FIXME at line 952). Every sub-buffer of a discontinuous buffer
  is flagged discontinuous.
* Sidecar: Merges that take over one stale lock can make the product shrink for a
  while. A merge that is skipped because another is running
  (`merge_worker_far_ledgers.py:207`) is not repeated: the last rows of a worker may
  stay out of the product for good. One missing chunk in the latest window holds up
  all assignment. The state of the stream is saved although the update was skipped
  or failed, so that rows wait until the stream changes again.

## Not modelled, and why

* FinalSink: the latency monitor, PSDs, skymaps and coinc documents (formatting and
  output); a `record_candidate` that raises; other jobs that share
  `trigger_control.txt`. The mode without a window (`cluster_window` 0) is modelled
  and covered by the theorems, but no run sets it; nor does one leave out the
  snapshot interval.
* GraceDB upload: the service's behaviour is not in the repository.
* FapUpdater: the contents of a pipe that nobody reads; an `os.remove` that removes
  some files and then fails for another reason than a missing file.
* Gate: a second NEWSEGMENT, signals, errors of downstream. Postcoh: seeking, the
  wait for files before the first buffer, kernels, peaks and tables. Multirate:
  gap_handle 1 (the source says it has not been tested for a long time, and it never
  appends the flag segments that it then asserts), the wait for a bank, the numbers
  a kernel computes; `spiir.c`, the element it replaced. Sidecar: replay
  synchronisation, other kinds of input than single-trigger CSV files, plots,
  status files, the numbers of a FAR.
* Statistics (`background_stats_utils.c`, kernel estimates), banks, plots, interferometer
  tables: numerical or without state of their own. The upstream packages gstlal,
  gstlal-ugly, gstlal-inspiral, gstlal-burst and gstlal-calibration are most of the
  repository's lines; of them only what shapes this pipeline's data is modelled
  (lal_gate, AppSync).

## Plan

Done: the final sink with its abstract specification and proofs; AppSync, and the two
together; the chain of background files; the sidecar; the path of a sample
from the gate over the filters to the coherent search. What would come next:

1. `Upload`: retries of `upload_to_gracedb`, a `record_candidate` that raises, two
   jobs with one `trigger_control.txt`.
2. Another composition: AccumBackground's files as the input of FapUpdater. Together
   with AssignFar the three are beyond what TLC can enumerate at the present bounds.
3. Other elements that keep time: `lal_firbank` and `lal_whiten`, whose adapters and
   tails are like those of cuda_multiratespiir.
4. Proofs: `FapFresh` of FapUpdater.
