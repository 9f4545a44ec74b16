----------------------------- MODULE Multirate -----------------------------
(***************************************************************************)
(* The element cuda_multiratespiir (multiratespiir.c): a detector's        *)
(* samples are halved in rate from depth to depth, filtered at each, and   *)
(* doubled and added up again.  The resamplers look ahead, so the first    *)
(* execution needs Head samples and gives Tail less, every other is of one *)
(* second, and at the end Tail zeros drain the chain.  What matters here   *)
(* is the accounting of samples: which output belongs to which input time, *)
(* what the queue of each depth holds, and which gaps are passed on.       *)
(*                                                                         *)
(* Time is in samples.  The pipelines set gap_handle to 0, a gap is        *)
(* filtered as zeros; the other mode is left out.  So is the loading of    *)
(* the bank, for which the streaming thread waits.                         *)
(***************************************************************************)
EXTENDS Integers, SequencesExt, FlagSegments

CONSTANTS
  Banks,                   \* filter banks, see Bank
  Lengths,                 \* of input buffers
  MaxHole,                 \* longest hole in the input
  MaxTime,                 \* end of the stream
  None                     \* GST_CLOCK_TIME_NONE, GST_BUFFER_OFFSET_NONE

Bank == [num_depths : Nat, rate : Nat, down_filtlen : Nat, up_filtlen : Nat,
         delay_max : Nat]

ASSUME LimitsAssumption ==
  Lengths \subseteq Nat /\ {MaxHole, MaxTime} \subseteq Nat /\ None \notin Int

VARIABLES
  bank,                    \* what the element has loaded
  element,                 \* its fields
  eos,
  failed,                  \* "no", or how the process died
  heard,                   \* per sample of input time "data", "gap" or "hole"
  out                      \* buffers pushed downstream

vars == <<bank, element, eos, failed, heard, out>>

\* The samples at each depth, counted from the bottom, that an output of its
\* resampler needs.
Cover(b) ==
  LET cover[i \in 0..b.num_depths] ==
        IF i <= 1 THEN b.up_filtlen
        ELSE 2 * cover[i - 1] + b.down_filtlen \div 2
  IN  cover

\* cuda_multiratespiir_init_cover_samples.
HeadCover(b) == IF b.num_depths > 1 THEN Cover(b)[b.num_depths] ELSE 0

TailCover(b) == IF b.num_depths > 1 THEN HeadCover(b) - b.up_filtlen ELSE 0

\* n / pow(2, i): n samples of the top are so many at depth i.
Halved(b, n) ==
  LET half[i \in 0..(b.num_depths - 1)] == IF i = 0 THEN n ELSE half[i - 1] \div 2
  IN  half

\* A second is a whole number of samples at every depth; the head is not taken for a
\* second.
ASSUME BanksAssumption ==
  /\ Banks \subseteq Bank
  /\ \A b \in Banks :
       /\ b.num_depths > 0 /\ b.rate > 0
       /\ \A i \in 1..(b.num_depths - 1) : Halved(b, b.rate)[i - 1] % 2 = 0
       /\ b.down_filtlen % 2 = 0 /\ b.up_filtlen % 2 = 0 /\ b.up_filtlen > 0
       /\ HeadCover(b) # b.rate

Depths == 0..(bank.num_depths - 1)

Bottom == bank.num_depths - 1

-----------------------------------------------------------------------------
(* The chain of resamplers and filters.                                    *)

\* spiir_state_reset.  Per depth: the samples a resampler skips first, and how many
\* the queue has been given and the filter has read.
NewChain(b) ==
  LET depths == 0..(b.num_depths - 1)
  IN  [down |-> [i \in depths |-> b.down_filtlen \div 2],
       up |-> [i \in depths |-> b.up_filtlen \div 2],
       written |-> [i \in depths |-> 0], read |-> [i \in depths |-> 0]]

\* The samples of each depth, on the way down and up.
Down(c, n) ==
  LET chunk[i \in Depths] ==
        IF i = 0 THEN n ELSE (chunk[i - 1] - c.down[i - 1]) \div 2
  IN  chunk

Up(c, n) ==
  LET chunk[j \in Depths] ==
        IF j = 0 THEN Down(c, n)[Bottom]
        ELSE 2 * (chunk[j - 1] - c.up[Bottom - j + 1])
  IN  [i \in Depths |-> chunk[Bottom - i]]

\* multi_downsample and spiirup over n samples: an odd one is discarded.
Filtered(c, n) ==
  [down |-> [i \in Depths |-> IF i < Bottom THEN 0 ELSE c.down[i]],
   up |-> [i \in Depths |-> IF i > 0 THEN 0 ELSE c.up[i]],
   written |-> [i \in Depths |-> c.written[i] + Down(c, n)[i]
                                   - (IF i < Bottom THEN Down(c, n)[i] % 2 ELSE 0)],
   read |-> [i \in Depths |-> c.read[i] + Up(c, n)[i]]]

\* A grid of no threads: the number of blocks is a division by zero.
Divides0(c, n) == \E i \in Depths \ {0} : Down(c, n)[i] <= 0

\* Mutant: the queue has no room for what the resamplers look ahead.
QueueLenOfSecond(i) == Halved(bank, bank.rate)[i] + 1 + bank.delay_max

\* spiir_state_create.
QueueLen(i) ==
  Halved(bank, 2 * HeadCover(bank) + bank.rate)[i] + 1 + bank.delay_max

\* An execution of n samples overwrites nothing in a queue that a filter still needs,
\* reads nothing that is not there, and fits the memory of the resamplers.
Fits(c, n) ==
  \A i \in Depths :
    /\ Filtered(c, n).written[i] - c.read[i] + bank.delay_max <= QueueLen(i)
    /\ Filtered(c, n).read[i] <= Filtered(c, n).written[i]
    /\ i < Bottom =>
         Down(c, n)[i] <= Halved(bank, Max({HeadCover(bank), bank.rate}))[i] + 1
-----------------------------------------------------------------------------
(* The element's fields.                                                   *)

SetExe(b) == IF HeadCover(b) > 0 THEN HeadCover(b) ELSE b.rate

\* Mutant: the adapter keeps what it has.
ResyncedWithRest(e, b) ==
  [e EXCEPT !.spstate = NewChain(bank), !.t0 = b.start, !.need_discont = TRUE,
            !.need_tail_drain = FALSE, !.samples_in = 0, !.samples_out = 0,
            !.num_exe_samples = SetExe(bank)]

\* The stream starts again with buffer b; what was not filtered is given up.
Resynced(e, b) ==
  [e EXCEPT !.spstate = NewChain(bank), !.t0 = b.start, !.need_discont = TRUE,
            !.need_tail_drain = FALSE, !.samples_in = 0, !.samples_out = 0,
            !.num_exe_samples = SetExe(bank), !.adapter = 0]

Absorbed(e, b) ==
  [e EXCEPT !.adapter = @ + (b.stop - b.start),
            !.flag_segments = AddSegment(@, [start |-> b.start, stop |-> b.stop,
                                             flag |-> b.gap])]

\* The parts of the interval that different flag segments cover; those that begin
\* before its end are the first ones.
Pieces(segs, from, to, discont) ==
  LET left == Flushed(segs, from)
  IN  [i \in {j \in DOMAIN left : left[j].start < to} |->
         [start |-> Max({left[i].start, from}), stop |-> Min({left[i].stop, to}),
          gap |-> left[i].flag, discont |-> discont, drained |-> FALSE]]

OutLen(e, n) == IF e.num_exe_samples = bank.rate THEN n ELSE n - TailCover(bank)

\* Their assertions: the chain gives what was predicted, and the segments cover it.
ProcessFails(e, n) ==
  LET from == e.t0 + e.samples_out
      to   == from + OutLen(e, n)
  IN  \/ Up(e.spstate, n)[0] # OutLen(e, n)
      \/ e.flag_segments = <<>> \/ Final(e.flag_segments).stop < to
      \/ \E t \in from..(to - 1) :
           ~Says(e.flag_segments, t, TRUE) /\ ~Says(e.flag_segments, t, FALSE)

\* cuda_multiratespiir_process and push_with_flag_segments, for one execution.
Process(e) ==
  LET n    == e.num_exe_samples
      from == e.t0 + e.samples_out
  IN  /\ element' = [e EXCEPT !.spstate = Filtered(@, n), !.adapter = @ - n,
                              !.need_tail_drain = @ \/ bank.num_depths > 1,
                              !.samples_in = @ + n,
                              !.samples_out = @ + OutLen(e, n),
                              !.flag_segments = Flushed(@, from - 1),
                              !.num_exe_samples = bank.rate, !.need_discont = FALSE]
      /\ out' = out \o Pieces(e.flag_segments, from, from + OutLen(e, n), e.need_discont)

-----------------------------------------------------------------------------
Init ==
  /\ bank \in Banks
  /\ element = [spstate |-> NewChain(bank), adapter |-> 0, flag_segments |-> <<>>,
                need_discont |-> TRUE, need_tail_drain |-> FALSE, t0 |-> None,
                next_in_offset |-> None, samples_in |-> 0, samples_out |-> 0,
                num_exe_samples |-> SetExe(bank)]
  /\ eos = FALSE /\ failed = "no" /\ heard = <<>> /\ out = <<>>

NeedsResync(b) ==
  b.discont \/ b.start # element.next_in_offset \/ element.t0 = None

\* Mutant: a whole execution waits for the next buffer.
FilledLate(e) == e.adapter > e.num_exe_samples

Filled(e) == e.adapter >= e.num_exe_samples

\* cuda_multiratespiir_transform.  A buffer of no length only says how far the
\* stream has advanced and is passed on.
Transform(b) ==
  LET e1 == [(IF NeedsResync(b) THEN Resynced(element, b) ELSE element)
               EXCEPT !.next_in_offset = b.stop]
      e2 == Absorbed(e1, b)
  IN  \/ b.start = b.stop /\ element' = e1 /\ UNCHANGED <<failed, out>>
      \/ /\ b.start < b.stop /\ ~Filled(e2)
         /\ element' = e2 /\ UNCHANGED <<failed, out>>
      \/ /\ b.start < b.stop /\ Filled(e2) /\ ~ProcessFails(e2, e2.num_exe_samples)
         /\ Process(e2) /\ UNCHANGED failed
      \/ /\ b.start < b.stop /\ Filled(e2) /\ ProcessFails(e2, e2.num_exe_samples)
         /\ failed' = "assertion" /\ UNCHANGED <<element, out>>

\* Bound: buffers of no gap and no more than a second.
Receive ==
  /\ ~eos /\ failed = "no"
  /\ \E n \in Lengths, hole \in 0..MaxHole, discont \in BOOLEAN, gap \in BOOLEAN :
       LET from == Len(heard) + hole
       IN  /\ from + n <= MaxTime /\ n <= bank.rate /\ (n = 0 => ~gap)
           /\ heard' = heard \o [t \in 1..hole |-> "hole"]
                             \o [t \in 1..n |-> IF gap THEN "gap" ELSE "data"]
           /\ Transform([start |-> from, stop |-> from + n, gap |-> gap,
                         discont |-> discont])
  /\ UNCHANGED <<bank, eos>>

-----------------------------------------------------------------------------
(* The end.                                                                *)

\* The executions of n samples and of the remainder.
Executions(n) ==
  LET whole == n \div bank.rate
  IN  [k \in 1..whole |-> bank.rate] \o (IF n % bank.rate = 0 THEN <<>> ELSE <<n % bank.rate>>)

TailZeros == TailCover(bank)

\* The chain after each of the executions.
Chain(parts) ==
  LET chain[k \in 0..Len(parts)] ==
        IF k = 0 THEN element.spstate ELSE Filtered(chain[k - 1], parts[k])
  IN  chain

\* cuda_multiratespiir_push_drain after adapter_push_zeros: the rest of the
\* adapter and the tail as one buffer, without regard to the flag segments.
Drain ==
  LET n     == element.adapter + TailZeros
      parts == Executions(n)
      chain == Chain(parts)
      given == chain[Len(parts)].read[0] - element.spstate.read[0]
      from  == element.t0 + element.samples_out
      died  == IF \E k \in DOMAIN parts : Divides0(chain[k - 1], parts[k])
               THEN "division" ELSE IF given > OutLen(element, n) THEN "assertion" ELSE "no"
  IN  [failed |-> died,
       pushed |-> [start |-> from, stop |-> from + OutLen(element, n), gap |-> FALSE,
                   discont |-> element.need_discont, drained |-> TRUE],
       element |-> [element EXCEPT
                      !.spstate = chain[Len(parts)], !.adapter = 0,
                      !.samples_in = @ + n, !.need_discont = FALSE,
                      !.samples_out = @ + OutLen(element, n)]]

\* A process that dies of the drain pushes nothing.
DrainOrDie(kept) ==
  \/ /\ element.need_tail_drain /\ failed' = Drain.failed
     /\ IF failed' = "no"
        THEN out' = Append(out, Drain.pushed) /\ element' = kept
        ELSE UNCHANGED <<out, element>>
  \/ ~element.need_tail_drain /\ element' = kept /\ UNCHANGED <<failed, out>>

\* A new segment: the element starts afresh, but for its adapter and flag segments.
NewSegment ==
  /\ ~eos /\ failed = "no" /\ element.t0 # None
  /\ LET e == IF element.need_tail_drain
              THEN [Drain.element EXCEPT !.spstate = NewChain(bank)] ELSE element
     IN  DrainOrDie([e EXCEPT !.need_tail_drain = FALSE, !.t0 = None,
                              !.next_in_offset = None, !.samples_in = 0,
                              !.samples_out = 0, !.need_discont = TRUE,
                              !.num_exe_samples = SetExe(bank)])
  /\ UNCHANGED <<bank, eos, heard>>

Eos ==
  /\ ~eos /\ failed = "no" /\ eos' = TRUE
  /\ DrainOrDie(IF element.need_tail_drain THEN Drain.element ELSE element)
  /\ UNCHANGED <<bank, heard>>

Finished == (eos \/ failed # "no") /\ UNCHANGED vars

Next == Receive \/ NewSegment \/ Eos \/ Finished

Spec == Init /\ [][Next]_vars

-----------------------------------------------------------------------------
TypeOK ==
  /\ bank \in Banks /\ eos \in BOOLEAN /\ failed \in {"no", "assertion", "division"}
  /\ heard \in Seq({"data", "gap", "hole"})
  /\ element.adapter \in Nat /\ element.flag_segments \in Seq(Segment)
  /\ element.t0 \in Nat \union {None}
  /\ element.samples_out \in Nat /\ element.samples_in \in Nat

\* push_with_flag_segments: downstream sees every sample of the input once, at its own
\* time, and flagged as that sample was; where something is missing it sees a
\* discontinuity.  The flags of what a drain pushed are lost.
OutputTrue ==
  \A i \in DOMAIN out :
    /\ i > 1 => /\ out[i - 1].stop <= out[i].start
                /\ out[i - 1].stop < out[i].start => out[i].discont
    /\ ~out[i].drained => \A t \in out[i].start..(out[i].stop - 1) :
         heard[t + 1] = IF out[i].gap THEN "gap" ELSE "data"

\* multi_downsample: "make sure that unspiired samples + incoming samples won't exceed
\* the physical queue length", at every depth and in a drain as well, whatever was
\* discarded or reset before.  No assertion of the streaming thread fails.
ChainSound ==
  LET parts == Executions(element.adapter + TailZeros)
  IN  /\ failed # "assertion"
      /\ element.t0 # None /\ ~eos =>
           Fits(element.spstate, element.num_exe_samples)
      /\ element.need_tail_drain /\ ~eos =>
           \A k \in DOMAIN parts : Fits(Chain(parts)[k - 1], parts[k])

\* The samples that an execution of n leaves to a resampler come in pairs.
InPairs(c, n) == \A i \in 0..(Bottom - 1) : (Down(c, n)[i] - c.down[i]) % 2 = 0

\* multi_downsample: "we already ganrantee earlier that the length in samples will be
\* even", at every depth, in the next execution and in a drain as well.  What is left of
\* a drain is no such length; where nothing of it reaches a depth, multi_downsample
\* divides by zero.
LengthsEven ==
  LET parts == Executions(element.adapter + TailZeros)
  IN  /\ element.t0 # None /\ ~eos => InPairs(element.spstate, element.num_exe_samples)
      /\ element.need_tail_drain /\ ~eos =>
           \A k \in DOMAIN parts : InPairs(Chain(parts)[k - 1], parts[k])

\* multiratespiir.h: the tail is the "number of samples needed to produce the last
\* buffer".  Where the stream or a segment ends, the output is completed to the last
\* sample received.
TailPushed ==
  [][/\ \/ eos' # eos
        \/ element'.t0 = None
     /\ element.t0 # None /\ heard # <<>> /\ Last(heard) # "hole"
     => out' # <<>> /\ Last(out').stop = Len(heard)]_vars

\* The adapter holds less than one execution: with buffers of no more than a second
\* one execution per buffer is enough, and the output is never further behind.
BacklogBounded ==
  element.t0 # None /\ failed = "no" => element.adapter < element.num_exe_samples
=============================================================================
