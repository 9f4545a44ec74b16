------------------------------- MODULE Postcoh -------------------------------
(***************************************************************************)
(* The element cuda_postcoh of gst/cuda/postcoh/postcoh.c: it collects the *)
(* SNR series of the detectors, one sink pad each, and searches them       *)
(* coherently a second at a time.  GstCollectPads holds one buffer per pad *)
(* and calls collected whenever every pad has a buffer or is at EOS.       *)
(*                                                                         *)
(* collected first aligns the pads to the latest start, then moves buffers *)
(* to the detectors' adapters, and processes every second that all         *)
(* adapters span, with margins before and after it for chisq and the light *)
(* travel time.  Each detector's samples also go to a ring buffer on the   *)
(* GPU, long enough for the time slides that measure the background.       *)
(*                                                                         *)
(* Time is in samples and offsets count from the same origin in all        *)
(* detectors.  A sample is the time it was taken at, or Zero.  Left out:   *)
(* the values of samples and so the peaks; seeking; the wait for files     *)
(* before the first buffer.                                                *)
(***************************************************************************)
EXTENDS Integers, Sequences, FiniteSets, FiniteSetsExt, FlagSegments

CONSTANTS
  Ifos,                    \* 1..nifo, the order of the sink pads
  PreservedLen,            \* autochisq_len + POSTCOH_BACKGROUND_LEN
  ExeLen,                  \* the samples of a second
  HistTrials,              \* hist_trials, and
  TrialSampleInv,          \* trial_sample_inv, the shift of one trial
  RefreshInterval,         \* refresh_interval + refresh_offset, in seconds; 0 is never
  Bps,                     \* bytes per sample of all templates
  Starts,                  \* times the detectors may start at
  MaxFirst,                \* longest buffer up to the alignment
  MaxTime, MaxLength, MaxHole,
  Faulty,                  \* the detectors with gaps and holes
  Zero                     \* a sample that is 0

ASSUME LengthsAssumption ==
  /\ PreservedLen \in Nat \ {0, 1} /\ ExeLen \in Nat \ {0}
  /\ HistTrials \in Nat /\ TrialSampleInv \in Nat /\ RefreshInterval \in Nat
  /\ Bps \in Nat \ {0} /\ MaxFirst \in Nat /\ Starts \subseteq Nat
  /\ MaxTime \in Nat /\ MaxLength \in Nat /\ MaxHole \in Nat /\ Zero \notin Int
  /\ Cardinality(Ifos) \in Nat \ {0} /\ Ifos = 1..Cardinality(Ifos)

HeadLen == PreservedLen \div 2
OneTakeLen == PreservedLen + ExeLen
SnglsnrCpyLen == HeadLen + ExeLen

\* Mutant: the ring has no room for the slides.
SnglsnrLenShort == PreservedLen + ExeLen

SnglsnrLen == PreservedLen + ExeLen + HistTrials * TrialSampleInv

VARIABLES
  status,                  \* "running", "processing", "eos", "error" or "aborted"
  pad,                     \* per detector, the buffers waiting: one at most
  sent, eos,               \* where upstream is, and whether it has ended
  have, gaps,              \* the times it sent samples for, those flagged gap
  t0,                      \* -1 before set_starttime
  is_aligned, is_all_aligned,
  first,                   \* the buffer that the adapter begins with
  next_offset, adapter, flag_segments,
  common_size, samples_out,
  t_roll_start,            \* when the detector response was read
  ring, start_exe,         \* d_snglsnr; snglsnr_start_exe and _start_load
  out                      \* the last buffer pushed, see Push

upstream == <<sent, eos, have, gaps>>
collectVars == <<t0, is_aligned, is_all_aligned, first, next_offset>>
dataVars == <<adapter, flag_segments>>
processVars == <<common_size, samples_out, ring, start_exe, out>>
vars == <<status, pad, upstream, collectVars, dataVars, processVars, t_roll_start>>

Buffer(from, to, gap) == [start |-> from, stop |-> to, gap |-> gap]

Init ==
  /\ status = "running"
  /\ pad = [d \in Ifos |-> <<>>]
  /\ sent \in [Ifos -> Starts]
  /\ eos = [d \in Ifos |-> FALSE]
  /\ have = [d \in Ifos |-> {}] /\ gaps = [d \in Ifos |-> {}]
  /\ t0 = -1
  /\ is_aligned = [d \in Ifos |-> FALSE] /\ is_all_aligned = FALSE
  /\ first = [d \in Ifos |-> Buffer(0, 0, FALSE)]
  /\ next_offset = [d \in Ifos |-> 0]
  /\ adapter = [d \in Ifos |-> <<>>]
  /\ flag_segments = [d \in Ifos |-> <<>>]
  /\ common_size = 0 /\ samples_out = 0 /\ t_roll_start = -1
  /\ ring = [d \in Ifos |-> [i \in 0..(SnglsnrLen - 1) |-> Zero]]
  /\ start_exe = HistTrials * TrialSampleInv
  /\ out = [start |-> -1, coh_ifos |-> {}]

-----------------------------------------------------------------------------
(* The streams that arrive.                                                *)

\* The next pad to be filled.  In which order they are is indifferent.
IsNext(d) ==
  /\ status = "running" /\ pad[d] = <<>> /\ ~eos[d]
  /\ \A e \in 1..(d - 1) : pad[e] # <<>> \/ eos[e]

\* Buffers have any length, up to the alignment a second at most: the first output of
\* a filter bank is the shortest.  After a hole a buffer may be empty.
Arrive(d) ==
  /\ IsNext(d)
  /\ \E n \in 0..MaxLength, hole \in 0..MaxHole, gap \in BOOLEAN :
       LET b == Buffer(sent[d] + hole, sent[d] + hole + n, gap)
       IN  /\ hole > 0 \/ gap => d \in Faulty
           /\ ~is_aligned[d] => n <= MaxFirst
           /\ n = 0 => hole > 0 /\ ~gap
           /\ b.stop <= MaxTime
           /\ pad' = [pad EXCEPT ![d] = <<b>>]
           /\ sent' = [sent EXCEPT ![d] = b.stop]
           /\ have' = [have EXCEPT ![d] = @ \union b.start..(b.stop - 1)]
           /\ gaps' = [gaps EXCEPT ![d] =
                IF gap THEN @ \union b.start..(b.stop - 1) ELSE @]
  /\ UNCHANGED <<status, eos, collectVars, dataVars, processVars, t_roll_start>>

EndOfStream(d) ==
  /\ IsNext(d)
  /\ eos' = [eos EXCEPT ![d] = TRUE]
  /\ UNCHANGED <<status, pad, sent, have, gaps, collectVars, dataVars, processVars,
                 t_roll_start>>

\* When GstCollectPads calls collected.
Collected == status = "running" /\ \A d \in Ifos : pad[d] # <<>> \/ eos[d]

\* The detectors that have a buffer.
Holding == {d \in Ifos : pad[d] # <<>>}

Peek(d) == Head(pad[d])

-----------------------------------------------------------------------------
(* The start.                                                              *)

Zeros(n) == [i \in 1..n |-> Zero]

Samples(b) == [i \in 1..(b.stop - b.start) |-> b.start + i - 1]

\* get_latest_start_time.
LatestStart == Max({Peek(d).start : d \in Ifos})

\* A detector that ended before the start: an error.
NoStart ==
  /\ Collected /\ t0 = -1 /\ Holding # Ifos
  /\ status' = "error"
  /\ UNCHANGED <<pad, upstream, collectVars, dataVars, processVars, t_roll_start>>

\* gst_buffer_create_sub is given an offset in samples where it takes bytes; what is
\* left of a sample is disregarded here, it moves the templates as well.
Subbuffer(b, t) ==
  LET cut == t - b.start
  IN  [i \in 1..(b.stop - b.start - cut) |-> b.start + cut \div Bps + i - 1]

\* The record that a buffer leaves in the flag segments.
Flag(d) ==
  AddSegment(flag_segments[d], [start |-> Peek(d).start, stop |-> Peek(d).stop,
                                flag |-> Peek(d).gap])

\* collected before all pads are aligned: the start, once, with the zeros of
\* pad_with_fake_history; then align_collected.  A buffer that ends by the start
\* is dropped.
Align ==
  /\ Collected /\ ~is_all_aligned
  /\ t0 = -1 => Holding = Ifos
  /\ LET start == IF t0 = -1 THEN LatestStart ELSE t0
         todo  == {d \in Ifos : ~is_aligned[d]}
         cut   == {d \in todo \intersect Holding : Peek(d).stop > start}
     IN  /\ todo \subseteq Holding /\ \A d \in cut : Peek(d).start <= start
         /\ t0' = start
         /\ t_roll_start' = IF t0 = -1 THEN start ELSE t_roll_start
         /\ adapter' = [d \in Ifos |->
              (IF t0 = -1 THEN Zeros(HeadLen) ELSE adapter[d])
                \o (IF d \in cut THEN Subbuffer(Peek(d), start) ELSE <<>>)]
         /\ flag_segments' =
              [d \in Ifos |-> IF d \in cut THEN Flag(d) ELSE flag_segments[d]]
         /\ next_offset' =
              [d \in Ifos |-> IF d \in cut THEN Peek(d).stop ELSE next_offset[d]]
         /\ first' = [d \in Ifos |-> IF d \in cut THEN Peek(d) ELSE first[d]]
         /\ is_aligned' = [d \in Ifos |-> is_aligned[d] \/ d \in cut]
         /\ is_all_aligned' = (cut = todo)
         /\ pad' = [d \in Ifos |-> IF d \in todo THEN <<>> ELSE pad[d]]
  /\ UNCHANGED <<status, upstream, processVars>>

\* A pad that reaches EOS before it is aligned, or has a hole at the start: the
\* process crashes, for want of a buffer or for an offset below 0.
AlignCrashes ==
  /\ Collected /\ ~is_all_aligned /\ t0 # -1
  /\ \E d \in Ifos : ~is_aligned[d] /\ (pad[d] # <<>> => Peek(d).start > t0)
  /\ status' = "aborted"
  /\ UNCHANGED <<pad, upstream, collectVars, dataVars, processVars, t_roll_start>>

-----------------------------------------------------------------------------
(* Collecting.                                                             *)

\* Mutant: a buffer that comes late is not made up for.
FillinNothing(d) == adapter[d]

\* fillin_discont: zeros for what is missing before the buffer.
Fillin(d) ==
  adapter[d] \o (IF d \in Holding THEN Zeros(Peek(d).start - next_offset[d]) ELSE <<>>)

\* Mutant: collects what a whole take needs after the second.
RecollectedBeyond ==
  LET expected == t0 + samples_out + OneTakeLen
  IN  {d \in Holding : Peek(d).start = Peek(d).stop \/ Peek(d).stop < expected}

\* need_recollect: an empty buffer is dropped, and one that ends before the next
\* second and its margin is moved to the adapter; if there is any, collected
\* waits for more.
Recollected ==
  LET expected == t0 + samples_out + SnglsnrCpyLen
  IN  {d \in Holding : Peek(d).start = Peek(d).stop \/ Peek(d).stop < expected}

Move(moved, dropped) ==
  /\ next_offset' =
       [d \in Ifos |-> IF d \in Holding THEN Peek(d).stop ELSE next_offset[d]]
  /\ adapter' = [d \in Ifos |->
       Fillin(d) \o (IF d \in moved THEN Samples(Peek(d)) ELSE <<>>)]
  /\ flag_segments' =
       [d \in Ifos |-> IF d \in moved THEN Flag(d) ELSE flag_segments[d]]
  /\ pad' = [d \in Ifos |-> IF d \in moved \union dropped THEN <<>> ELSE pad[d]]

\* Mutant: the empty buffer is not taken from its pad.
RecollectKeepsEmpty ==
  /\ Collected /\ is_all_aligned /\ Recollected # {}
  /\ LET empty == {d \in Recollected : Peek(d).start = Peek(d).stop}
     IN  Move(Recollected \ empty, {})
  /\ UNCHANGED <<status, upstream, t0, is_aligned, is_all_aligned, first, processVars,
                 t_roll_start>>

Recollect ==
  /\ Collected /\ is_all_aligned /\ Recollected # {}
  /\ LET empty == {d \in Recollected : Peek(d).start = Peek(d).stop}
     IN  Move(Recollected \ empty, empty)
  /\ UNCHANGED <<status, upstream, t0, is_aligned, is_all_aligned, first, processVars,
                 t_roll_start>>

\* process reads the detector response again.
RefreshDue(ts) ==
  RefreshInterval > 0 /\ (ts - t_roll_start) \div ExeLen > RefreshInterval

\* push_and_get_common_size, and the start of process.  No adapter is empty here,
\* so the common size is the least of their sizes.
PushAll ==
  /\ Collected /\ is_all_aligned /\ Recollected = {} /\ Holding # {}
  /\ Move(Holding, {})
  /\ common_size' = Min({Len(adapter'[d]) : d \in Ifos})
  /\ status' = "processing"
  /\ t_roll_start' = IF RefreshDue(t0 + samples_out) THEN t0 + samples_out ELSE t_roll_start
  /\ UNCHANGED <<upstream, t0, is_aligned, is_all_aligned, first, samples_out, ring,
                 start_exe, out>>

\* All pads are at EOS and so is the output.
AllEnded ==
  /\ Collected /\ is_all_aligned /\ Holding = {}
  /\ status' = "eos"
  /\ UNCHANGED <<pad, upstream, collectVars, dataVars, processVars, t_roll_start>>

-----------------------------------------------------------------------------
(* Processing.                                                             *)

Second == t0 + samples_out

\* flag_segments_is_gap's assertions.
GapUnknown(segs, stop) == segs = <<>> \/ Final(segs).stop < stop

\* Mutant: half a gap is none.
IsGapMostly(segs, start, stop) ==
  2 * Cardinality({t \in start..(stop - 1) : Says(segs, t, TRUE)}) > stop - start

\* flag_segments_is_gap: at least half of [start, stop) is.
IsGap(segs, start, stop) ==
  2 * Cardinality({t \in start..(stop - 1) : Says(segs, t, TRUE)}) >= stop - start

\* Mutant: the history is copied again.
CopiedWithHistory(d) == SubSeq(adapter[d], 1, SnglsnrCpyLen)

\* The samples copied to the GPU: those of the second and after.
Copied(d) == SubSeq(adapter[d], HeadLen + 1, HeadLen + SnglsnrCpyLen)

\* transpose_snglsnr: the samples are written from start_load on.
Loaded(d) ==
  [i \in 0..(SnglsnrLen - 1) |->
     LET k == (i - start_exe) % SnglsnrLen
     IN  IF k < SnglsnrCpyLen THEN Copied(d)[k + 1] ELSE ring[d][i]]

NextStartExe == (start_exe + ExeLen) % SnglsnrLen

\* One turn of process's loop.
Process ==
  /\ status = "processing" /\ common_size >= OneTakeLen
  /\ \A d \in Ifos : ~GapUnknown(flag_segments[d], Second + ExeLen)
  /\ flag_segments' = [d \in Ifos |-> Flushed(flag_segments[d], Second)]
  /\ ring' = [d \in Ifos |-> Loaded(d)]
  /\ start_exe' = NextStartExe
  /\ out' = [start |-> Second,
             coh_ifos |-> {d \in Ifos :
               ~IsGap(flag_segments[d], Second, Second + ExeLen)}]
  /\ adapter' = [d \in Ifos |-> SubSeq(adapter[d], ExeLen + 1, Len(adapter[d]))]
  /\ common_size' = common_size - ExeLen
  /\ samples_out' = samples_out + ExeLen
  /\ UNCHANGED <<status, pad, upstream, collectVars, t_roll_start>>

ProcessAborts ==
  /\ status = "processing" /\ common_size >= OneTakeLen
  /\ \E d \in Ifos : GapUnknown(flag_segments[d], Second + ExeLen)
  /\ status' = "aborted"
  /\ UNCHANGED <<pad, upstream, collectVars, dataVars, processVars, t_roll_start>>

Processed ==
  /\ status = "processing" /\ common_size < OneTakeLen
  /\ status' = "running"
  /\ UNCHANGED <<pad, upstream, collectVars, dataVars, processVars, t_roll_start>>

Ended == status \in {"eos", "error", "aborted"} /\ UNCHANGED vars

Upstream(d) == Arrive(d) \/ EndOfStream(d)

Search ==
  \/ NoStart \/ Align \/ AlignCrashes \/ Recollect \/ PushAll \/ AllEnded
  \/ Process \/ ProcessAborts \/ Processed

Next == Search \/ (\E d \in Ifos : Upstream(d)) \/ Ended

Spec ==
  Init /\ [][Next]_vars /\ WF_vars(Search) /\ \A d \in Ifos : WF_vars(Upstream(d))

-----------------------------------------------------------------------------
\* What the search should find at time t of a detector.
Expected(d, t) == IF t0 <= t /\ t \in have[d] THEN t ELSE Zero

\* By how much the samples of a detector's first buffer are out of place.
Skew(d) == LET cut == t0 - first[d].start IN cut - cut \div Bps

\* What it finds.
Found(d, t) ==
  IF t0 <= t /\ t < first[d].stop THEN t - Skew(d) ELSE Expected(d, t)

\* However the streams are cut into buffers and whatever is missing of them, each
\* adapter starts HeadLen samples before the next second, and every sample
\* is at its place; only those of a first buffer that was cut are not: all of
\* them are the same amount too early, and what follows is not moved by it.
AdapterFound ==
  t0 >= 0 => \A d \in Ifos :
    /\ Len(adapter[d]) >= HeadLen
    /\ \A i \in DOMAIN adapter[d] : adapter[d][i] = Found(d, Second - HeadLen + i - 1)

\* Where the kernels find the sample k after the start of the second just
\* processed (ring_index).
InRing(d, k) == ring[d][(start_exe - ExeLen + k) % SnglsnrLen]

\* The second that was processed, and its margins.
Searched == (-HeadLen)..(ExeLen + HeadLen - 1)

\* The element synchronizes the detectors (postcoh.c:20): in every detector's ring
\* buffer the second that was processed and the margins for light travel time and
\* chisq hold the samples of the same times.
Coherent ==
  out.start >= 0 => \A d \in Ifos, k \in Searched : InRing(d, k) = Expected(d, out.start + k)

\* The second that was processed was searched coherently from the end of the first
\* buffers on: however often the rings wrapped, each holds the samples of the second
\* and its margins, and the samples that are out of place are still those that were
\* at the start, and as much.
CoherentOnceStarted ==
  out.start >= 0 => \A d \in Ifos, k \in Searched : InRing(d, k) = Found(d, out.start + k)

\* The sample of detector j at the sample k that trial uses when i is the pivot.
Slid(i, j, k, trial) == InRing(j, k - trial * TrialSampleInv * (j - i))

\* A sample, and one that is in its place.
InPlace(d, x) == x # Zero /\ (Skew(d) = 0 \/ x >= first[d].stop)

\* The samples of j that two trials use, or a trial and the zerolag, are at least the
\* trial interval apart.
Apart(i, j) ==
  \A k \in 0..(ExeLen - 1), m, n \in 0..HistTrials :
    LET x == Slid(i, j, k, m)
        y == Slid(i, j, k, n)
    IN  m < n /\ InPlace(j, x) /\ InPlace(j, y) => Max({x - y, y - x}) >= TrialSampleInv

\* The time slides are at least the trial interval apart (README.md:148), for any two
\* detectors.
SlidesApart == out.start >= 0 => \A i, j \in Ifos : i # j => Apart(i, j)

\* So they are for detectors whose pads are next to each other, seen from either one,
\* although the ring wraps below half of the slides.
NeighboursApart == out.start >= 0 => \A i, j \in Ifos : j - i \in {1, -1} => Apart(i, j)

\* A detector takes part in a second if and only if less than half of it was
\* flagged as a gap, although the segments were merged and flushed since.
ParticipantsHaveData ==
  out.start >= 0 => out.coh_ifos =
    {d \in Ifos : 2 * Cardinality(gaps[d] \intersect
                                 out.start..(out.start + ExeLen - 1)) < ExeLen}

\* At the end of the streams no second is left that all detectors span with its
\* margins, whichever of them ended first.
AllProcessed ==
  status = "eos" =>
    \E d \in Ifos : \A t \in have[d] : t < Second + OneTakeLen - HeadLen - 1

\* The pads never wait for each other for ever: collected always consumes
\* a buffer.
SearchEnds == <>(status \notin {"running", "processing"})
=============================================================================
