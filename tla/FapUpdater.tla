----------------------------- MODULE FapUpdater -----------------------------
(***************************************************************************)
(* class FAPUpdater of python/pipemodules/postcoh_finalsink.py: the files  *)
(* of background statistics of a job.  Every bank dumps a file per         *)
(* snapshot interval.  At each complete timestamp the final sink calls     *)
(* run_calcfap, which from time to time starts one gstlal_cohfar_calc_fap  *)
(* per collection walltime to marginalise the files inside it, and then    *)
(* run_combine_stats, which starts subprocesses that merge small files of  *)
(* a bank into a larger one.  The merged inputs are removed at the next    *)
(* listing of the directory.                                               *)
(*                                                                         *)
(* Time counts dumps: a file holds the background of whole time units of   *)
(* one bank.  Its name gives bank, start and duration, its chunks are what *)
(* was really collected into it.                                           *)
(***************************************************************************)
EXTENDS Integers, Sequences, FiniteSets, FiniteSetsExt, Folds

CONSTANTS
  Banks,
  Walltimes,               \* sequence of collection walltimes, longest first
  CalcfapInterval,         \* calcfap_interval
  CombineInterval,         \* combine_stats_interval
  CombineDuration,         \* combine_duration: files this long stay as they are
  MaxStatsPerBank,         \* max_nstats_perbank
  MaxBanksPerJob,          \* max_nbank_perjob
  ShouldBlock,             \* feature_subprocesses_can_block
  CalcfapMax, CombineMax,  \* the longest a subprocess of each kind takes
  SubprocessMayFail,
  MayRestart,
  MaxTime,                 \* bound of the model
  None                     \* Python's None

ASSUME TimesAssumption ==
  /\ Walltimes \in Seq(Nat \ {0})
  /\ {CalcfapInterval, CombineInterval, CombineDuration} \subseteq Nat \ {0}
  /\ {CalcfapMax, CombineMax, MaxTime} \subseteq Nat

\* postcoh_finalsink.py has 3.
ASSUME CollectionAssumption == MaxStatsPerBank \in Nat \ {0, 1}

VARIABLES
  now,                     \* the timestamp the final sink handles
  pc,                      \* "idle", "calcfap", "await" or "combine"
  listed,                  \* the inputs _try_run_calcfap has listed so far
  last_calfap_time,
  last_combine_stats_time,
  files,                   \* the directory: [bank, start, dur, chunks]
  files_being_combined,
  combine_stats_processes, \* running: [inputs, output, at]
  calcfap_processes,       \* per walltime None or [inputs, at]
  calcfap_timestamps,
  output,                  \* per walltime None or [at, ended, missing]
  dumps,                   \* copies made: [scale, named, at]
  dumped,                  \* per bank, the time up to which it has dumped
  failed                   \* files whose merging failed

schedule == <<last_calfap_time, last_combine_stats_time>>
disk == <<files, files_being_combined>>
calcfapVars == <<calcfap_processes, calcfap_timestamps, output, dumps>>
vars == <<now, pc, listed, schedule, disk, combine_stats_processes, calcfapVars,
          dumped, failed>>

Scales == DOMAIN Walltimes

ChunksOf(fs) == UNION {{f.bank} \X f.chunks : f \in fs}

Init ==
  /\ now = 0 /\ pc = "idle" /\ listed = <<>>
  /\ last_calfap_time = 0 /\ last_combine_stats_time = 0
  /\ files = {} /\ files_being_combined = {}
  /\ combine_stats_processes = {}
  /\ calcfap_processes = [i \in Scales |-> None]
  /\ calcfap_timestamps = [i \in Scales |-> None]
  /\ output = [i \in Scales |-> None]
  /\ dumps = {}
  /\ dumped = [b \in Banks |-> 0]
  /\ failed = {}

-----------------------------------------------------------------------------
(* The pipeline: the banks dump, the final sink sees complete timestamps.  *)

\* cohfar_accumbackground dumps to a "_next" file and renames it.  A bank may
\* be one dump ahead of what the final sink has seen of all of them.
Dump(b) ==
  /\ dumped[b] <= now /\ dumped[b] < MaxTime
  /\ dumped' = [dumped EXCEPT ![b] = @ + 1]
  /\ files' = files \union {[bank |-> b, start |-> dumped[b], dur |-> 1,
                             chunks |-> {dumped[b]}]}
  /\ UNCHANGED <<now, pc, listed, schedule, files_being_combined,
                 combine_stats_processes, calcfapVars, failed>>

\* The next complete timestamp, before any subprocess has run for too long.
Tick ==
  /\ pc = "idle"
  /\ \A b \in Banks : dumped[b] > now
  /\ \A i \in Scales : calcfap_processes[i] # None =>
       now + 1 - calcfap_processes[i].at <= CalcfapMax
  /\ \A p \in combine_stats_processes : now + 1 - p.at <= CombineMax
  /\ now' = now + 1
  /\ pc' = "calcfap"
  /\ listed' = <<>>
  /\ UNCHANGED <<schedule, disk, combine_stats_processes, calcfapVars, dumped, failed>>

-----------------------------------------------------------------------------
(* The subprocesses.                                                       *)

IsCombineStatsRunning == combine_stats_processes # {}

IsCalcfapRunning == \E i \in Scales : calcfap_processes[i] # None

SameName(f, g) == f.bank = g.bank /\ f.start = g.start /\ f.dur = g.dur

\* Files are read, written and removed by name.
Exists(f, fs) == \E g \in fs : SameName(f, g)

\* The output replaces a file of its name.  The inputs are taken to be read before
\* another output replaces one, which needs the restarts BackgroundKept speaks of.
CombineEnds(p) ==
  /\ p \in combine_stats_processes
  /\ combine_stats_processes' = combine_stats_processes \ {p}
  /\ \/ /\ files' = {f \in files : ~SameName(f, p.output)} \union {p.output}
        /\ UNCHANGED failed
     \/ /\ SubprocessMayFail
        /\ failed' = failed \union p.inputs
        /\ UNCHANGED files
  /\ UNCHANGED <<now, pc, listed, schedule, files_being_combined, calcfapVars, dumped>>

\* Reading its inputs one after the other takes up to the end of the process.
\* A missing one is not noticed: what was read last is counted once more.
CalcfapEnds(i) ==
  /\ calcfap_processes[i] # None
  /\ calcfap_processes' = [calcfap_processes EXCEPT ![i] = None]
  /\ \/ output' = [output EXCEPT ![i] =
                     [at |-> calcfap_processes[i].at, ended |-> now,
                      missing |-> {f \in calcfap_processes[i].inputs : ~Exists(f, files)}]]
     \/ SubprocessMayFail /\ UNCHANGED output
  /\ UNCHANGED <<now, pc, listed, schedule, disk, combine_stats_processes,
                 calcfap_timestamps, dumps, dumped, failed>>

-----------------------------------------------------------------------------
(* Listing the directory.                                                  *)

\* Mutant: the inputs of a merging that still runs are removed, too.
CanCleanupAlways == \A f \in files_being_combined : Exists(f, files)

\* _try_cleanup_combined_files succeeds: os.remove raises on a missing file.
CanCleanup == ~IsCombineStatsRunning /\ \A f \in files_being_combined : Exists(f, files)

\* Mutant: merged files stay.
BankstatsFilesKept == files

\* _get_bankstats_filepaths, after a successful cleanup.
BankstatsFiles == {f \in files : ~Exists(f, files_being_combined)}

\* Mutant: the end of a file counts.
FilterByEnd(fs, lower_bound) == {f \in fs : f.start + f.dur > lower_bound}

FilterBankstats(fs, lower_bound) == {f \in fs : f.start > lower_bound}

\* max_nstats_for_marignalization, the limit of the command line.
MaxStatsForMarginalization ==
  (Walltimes[1] \div CombineDuration + MaxStatsPerBank + 1) * MaxBanksPerJob

-----------------------------------------------------------------------------
(* _try_combine_stats.                                                     *)

TotalWalltime(fs) == MapThenSumSet(LAMBDA f : f.dur, fs)

IsFull(fs) == Cardinality(fs) >= MaxStatsPerBank \/ TotalWalltime(fs) >= CombineDuration

\* One file name in the loop over a bank's sorted files: a full collection is
\* merged when the next file is met, which starts a new one.
Collect(f, acc) ==
  IF IsFull(acc.collected)
  THEN [collected |-> {f}, groups |-> acc.groups \union {acc.collected}]
  ELSE [acc EXCEPT !.collected = @ \union {f}]

\* Of files with the same start, which only a restart leaves, the shorter comes
\* first: so do their names when the durations have equally many digits.
ByName(f, g) == f.start < g.start \/ (f.start = g.start /\ f.dur < g.dur)

FirstByName(fs) == CHOOSE f \in fs : \A g \in fs : ~ByName(g, f)

LastByName(fs) == CHOOSE f \in fs : \A g \in fs : ~ByName(f, g)

\* The collections of each bank; files of the combine duration stay as they are.
Groups(fs) ==
  LET SmallFiles(b) == {f \in fs : f.bank = b /\ f.dur < CombineDuration}
  IN  UNION {MapThenFoldSet(Collect, [collected |-> {}, groups |-> {}],
                            LAMBDA f : f, LastByName, SmallFiles(b)).groups :
               b \in Banks}

\* Mutant: named by the last input.
CombinedByLast(group) ==
  [bank |-> LastByName(group).bank, start |-> LastByName(group).start,
   dur |-> TotalWalltime(group), chunks |-> UNION {f.chunks : f \in group}]

\* The merged file, named by its first input and its inputs' total walltime.
Combined(group) ==
  [bank |-> FirstByName(group).bank, start |-> FirstByName(group).start,
   dur |-> TotalWalltime(group), chunks |-> UNION {f.chunks : f \in group}]

\* Mutant: the list of what was merged before is not reset.
StartCombineUnreset ==
  /\ files' = BankstatsFiles
  /\ files_being_combined' = files_being_combined \union UNION Groups(BankstatsFiles)
  /\ combine_stats_processes' =
       {[inputs |-> g, output |-> Combined(g), at |-> now] : g \in Groups(BankstatsFiles)}

\* Mutant: the inputs are removed at once.
StartCombineRemoves ==
  /\ files' = BankstatsFiles \ UNION Groups(BankstatsFiles)
  /\ files_being_combined' = {}
  /\ combine_stats_processes' =
       {[inputs |-> g, output |-> Combined(g), at |-> now] : g \in Groups(BankstatsFiles)}

\* Started for each full collection; the inputs are marked to be removed.
StartCombine ==
  /\ files' = BankstatsFiles
  /\ files_being_combined' = UNION Groups(BankstatsFiles)
  /\ combine_stats_processes' =
       {[inputs |-> g, output |-> Combined(g), at |-> now] : g \in Groups(BankstatsFiles)}

-----------------------------------------------------------------------------
(* run_calcfap.                                                            *)

CalcfapDue == now - last_calfap_time >= CalcfapInterval

InCalcfap == pc = "calcfap" /\ CalcfapDue

\* Not due, a subprocess of either kind running, or a failed cleanup: later.
SkipCalcfap ==
  /\ pc = "calcfap"
  /\ \/ ~CalcfapDue
     \/ listed = <<>> /\ (IsCalcfapRunning \/ IsCombineStatsRunning)
     \/ ~CanCleanup
  /\ pc' = "combine"
  /\ UNCHANGED <<now, listed, schedule, disk, combine_stats_processes, calcfapVars,
                 dumped, failed>>

\* One turn of the loop over the walltimes: list, and combine instead when the
\* list is too long for a command line.
ListWalltime ==
  LET scale  == Len(listed) + 1
      inputs == FilterBankstats(BankstatsFiles, now - Walltimes[scale])
  IN  /\ InCalcfap /\ ~IsCalcfapRunning /\ CanCleanup
      /\ scale \in Scales
      /\ IF Cardinality(inputs) > MaxStatsForMarginalization
         THEN /\ StartCombine
              /\ pc' = "combine"
              /\ UNCHANGED listed
         ELSE /\ files' = BankstatsFiles /\ files_being_combined' = {}
              /\ listed' = Append(listed, inputs)
              /\ UNCHANGED <<combine_stats_processes, pc>>
      /\ UNCHANGED <<now, schedule, calcfapVars, dumped, failed>>

\* _dump_stats copies the outputs under the time their subprocess was started.
CanDump == \A i \in Scales : calcfap_timestamps[i] # None => output[i] # None

LaunchCalcfap ==
  /\ InCalcfap /\ Len(listed) = Len(Walltimes) /\ CanDump
  /\ dumps' = dumps \union
       {[scale |-> i, named |-> calcfap_timestamps[i], at |-> output[i].at] :
          i \in {j \in Scales : calcfap_timestamps[j] # None}}
  /\ calcfap_processes' = [i \in Scales |->
       IF listed[i] = {} THEN None ELSE [inputs |-> listed[i], at |-> now]]
  /\ calcfap_timestamps' = [i \in Scales |->
       IF listed[i] = {} THEN calcfap_timestamps[i] ELSE now]
  /\ last_calfap_time' = now
  /\ pc' = IF ShouldBlock THEN "await" ELSE "combine"
  /\ UNCHANGED <<now, listed, last_combine_stats_time, disk, combine_stats_processes,
                 output, dumped, failed>>

\* There is nothing to copy because the subprocess failed: copyfile raises, out
\* of the handler of the buffer.
DumpRaises ==
  /\ InCalcfap /\ Len(listed) = Len(Walltimes) /\ ~CanDump
  /\ pc' = "idle"
  /\ UNCHANGED <<now, listed, schedule, disk, combine_stats_processes, calcfapVars,
                 dumped, failed>>

AwaitProcesses ==
  /\ pc = "await" /\ ~IsCalcfapRunning /\ ~IsCombineStatsRunning
  /\ pc' = "combine"
  /\ UNCHANGED <<now, listed, schedule, disk, combine_stats_processes, calcfapVars,
                 dumped, failed>>

-----------------------------------------------------------------------------
(* run_combine_stats, which does not mind a calcfap running.               *)

RunCombineStats ==
  /\ pc = "combine"
  /\ pc' = "idle"
  /\ IF now - last_combine_stats_time >= CombineInterval /\ CanCleanup
     THEN StartCombine /\ last_combine_stats_time' = now
     ELSE UNCHANGED <<disk, combine_stats_processes, last_combine_stats_time>>
  /\ UNCHANGED <<now, listed, last_calfap_time, calcfapVars, dumped, failed>>

\* The job is restarted in its directory; of the merging subprocesses some have
\* written their output.  What was to be removed is forgotten.
Restart ==
  /\ MayRestart
  /\ \E done \in SUBSET combine_stats_processes :
       files' = {f \in files : \A p \in done : ~SameName(f, p.output)}
                  \union {p.output : p \in done}
  /\ pc' = "idle" /\ listed' = <<>>
  /\ last_calfap_time' = now /\ last_combine_stats_time' = now
  /\ files_being_combined' = {} /\ combine_stats_processes' = {}
  /\ calcfap_processes' = [i \in Scales |-> None]
  /\ calcfap_timestamps' = [i \in Scales |-> None]
  /\ UNCHANGED <<now, output, dumps, dumped, failed>>

Finished == now = MaxTime /\ pc = "idle" /\ UNCHANGED vars

Next ==
  \/ \E b \in Banks : Dump(b)
  \/ Tick
  \/ \E p \in combine_stats_processes : CombineEnds(p)
  \/ \E i \in Scales : CalcfapEnds(i)
  \/ SkipCalcfap \/ ListWalltime \/ LaunchCalcfap \/ DumpRaises \/ AwaitProcesses
  \/ RunCombineStats
  \/ Restart
  \/ Finished

Spec == Init /\ [][Next]_vars

-----------------------------------------------------------------------------
(* Properties.                                                             *)

TypeOK ==
  /\ now \in 0..MaxTime /\ pc \in {"idle", "calcfap", "await", "combine"}
  /\ Len(listed) <= Len(Walltimes)
  /\ \A f \in files \union files_being_combined :
       f.bank \in Banks /\ f.chunks # {} /\ f.chunks \subseteq 0..MaxTime
  /\ last_calfap_time \in 0..now /\ last_combine_stats_time \in 0..now
  /\ \A i \in Scales : calcfap_timestamps[i] \in 0..now \union {None}

\* No background that was dumped vanishes from the directory, through merging,
\* removal of the merged files and a restart, unless the merging itself failed.
\* It is not so after any number of restarts: when several of them leave merged
\* files beside their inputs, a later one can get the name of an earlier one that
\* is an input at that time, replace it and be removed in its place.
BackgroundKept ==
  \A b \in Banks : \A t \in 0..(dumped[b] - 1) :
    <<b, t>> \in ChunksOf(files) \union ChunksOf(failed)

\* The same without the exception.  _try_cleanup_combined_files: "Removes files
\* that have finished being combined."
NothingLost ==
  \A b \in Banks : \A t \in 0..(dumped[b] - 1) : <<b, t>> \in ChunksOf(files)

Disjoint(fs) == \A f, g \in fs : f = g \/ ChunksOf({f}) \intersect ChunksOf({g}) = {}

\* No subprocess counts a piece of background twice, although a merged file and
\* its inputs lie side by side until the next listing.
CountedOnce ==
  /\ \A i \in Scales : calcfap_processes[i] # None => Disjoint(calcfap_processes[i].inputs)
  /\ \A p \in combine_stats_processes : Disjoint(p.inputs)
  /\ \A p, q \in combine_stats_processes : p = q \/ p.inputs \intersect q.inputs = {}

\* A file's name tells its content, which is what the collection relies on when
\* it selects by the start in the name.
NamedByContent == \A f \in files : f.chunks = f.start..(f.start + f.dur - 1)

\* A marginalisation that ends before the next merging is due finds all of its
\* inputs, although they may be merged, and listed for removal, while it reads
\* them: calc_fap would count the file before a missing one twice.
ReadsIntact ==
  \A i \in Scales : output[i] # None =>
    \/ output[i].missing = {}
    \/ output[i].ended - output[i].at >= CombineInterval

\* A failed removal would be retried in vain at every listing.
CleanupNeverFails ==
  ~IsCombineStatsRunning => \A f \in files_being_combined : Exists(f, files)

\* A marginalisation uses no background older than its walltime.
WalltimeRespected ==
  \A i \in Scales : calcfap_processes[i] # None =>
    \A c \in ChunksOf(calcfap_processes[i].inputs) :
      c[2] > calcfap_processes[i].at - Walltimes[i]

\* The FAP statistics are updated every CalcfapInterval (launch script, line 481:
\* "How often to update the fap stats files."), give or take the marginalisation
\* that still runs and two mergings that come first: run_calcfap starts none while
\* files are being merged, run_combine_stats may merge at every timestamp.
FapFresh ==
  now - last_calfap_time <= CalcfapInterval + CalcfapMax + 2 * CombineMax
=============================================================================
