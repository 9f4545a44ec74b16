------------------------------ MODULE FinalSink ------------------------------
(***************************************************************************)
(* The final sink of the online pipeline, class FinalSink of               *)
(* python/pipemodules/postcoh_finalsink.py.                                *)
(*                                                                         *)
(* Every template bank of a job ends in an appsink; AppSync hands the      *)
(* buffers of all of them, in timestamp order, to appsink_new_buffer, which*)
(* runs under self.lock.  The sink clusters the triggers in the buffers    *)
(* over a sliding window, records the winner of each window in the current *)
(* zerolag document and, when it is significant and not controlled by a    *)
(* recent upload, submits it; it snapshots zerolags and live segments every*)
(* SnapshotInterval.                                                       *)
(*                                                                         *)
(* The handler is cut at the while loop of                                 *)
(* cluster_and_process_significant_triggers: NewBuffer runs up to the loop,*)
(* one loop iteration is one of NoEventInWindow, SlideToPeak,              *)
(* EmitCandidate or EmitAvailable, and FinishBuffer is the rest.  The lock *)
(* is held throughout (pc = "clustering"), so nothing else runs in between.*)
(*                                                                         *)
(* Tables are sets: a trigger is identified by its end time, template and  *)
(* bank, and no table is read in order.  Times are integers in any unit.   *)
(***************************************************************************)
EXTENDS Integers, Sequences, FiniteSets

CONSTANTS
  Banks,                   \* one appsink each (bank identifiers are integers)
  Ifos,
  Triggers,                \* what the banks may find
  Timestamps,              \* the timestamps buffers can have
  BufferDuration,          \* buf.duration
  ClusterWindow,           \* cluster_window; 0 turns the clustering off
  NegativeLatency,         \* negative_latency of an early-warning bank
  EndTimeSlack,            \* how far before its buffer a trigger may end
  SnapshotInterval,        \* snapshot_interval; NoTime (None) takes no snapshots
  OutputPrefix,            \* there is an output_prefix; FALSE: only an output_name
  ClusterAvailable,        \* feature_cluster_available_triggers
  InOrder,                 \* buffers come in timestamp order (AppSync's work)
  FarThreshold,            \* gracedb_far_threshold
  RecentSpan,              \* the 5 seconds of the trigger control
  NoTime                   \* Python's None for a time

\* far is the FAR that __set_far computes; it is 0 for a trigger that
\* __is_significant_trigger vetoes for another reason than its FAR (too few
\* background events, no detector with a valid single FAR, chisq ratio, ...).
Trigger == [end : Int, cohsnr : Int, bankid : Int, tmplt_idx : Int, far : Int]

ASSUME BanksAssumption == Banks \subseteq Int /\ IsFiniteSet(Banks)

ASSUME TimesAssumption ==
  /\ BufferDuration \in Nat \ {0}
  /\ ClusterWindow \in Nat
  /\ NegativeLatency \in Int
  /\ EndTimeSlack \in Nat
  /\ SnapshotInterval \in (Nat \ {0}) \union {NoTime}
  /\ NoTime \notin Int

ASSUME PrefixAssumption == OutputPrefix \in BOOLEAN

ASSUME ControlAssumption == RecentSpan \in Int /\ FarThreshold \in Int

\* Buffers of one bank do not overlap.
ASSUME TimestampsAssumption ==
  /\ Timestamps \subseteq Int
  /\ \A s, t \in Timestamps : s < t => s + BufferDuration <= t

\* A bank finds a template at most once at a time, so is_better_event decides
\* between any two triggers.
ASSUME TriggersAssumption ==
  /\ Triggers \subseteq Trigger
  /\ \A x, y \in Triggers :
       x.end = y.end /\ x.bankid = y.bankid /\ x.tmplt_idx = y.tmplt_idx => x = y

VARIABLES
  pc,                      \* "idle", "clustering" (lock held) or "done"
  current_timestamp,
  num_current_buffers,
  is_first_event,          \* TRUE: cluster_boundary is still None
  cluster_boundary,
  candidate,               \* a set of at most one trigger: {} is None
  cur_event_table,
  postcoh_document,        \* rows of the zerolag document being filled
  zerolag_files,           \* documents written, see OnDisk: [start, duration, rows]
  seg_document,            \* per ifo, the timestamps of its live buffers
  segment_files,           \* documents written: [start, duration, segs]
  t_snapshot_start,
  last_buffer_timestamp,
  trigger_control_doc,     \* the lines of trigger_control.txt
  buffer,                  \* locals of the handler: see NewBuffer
  delivered,               \* banks whose buffer at current_timestamp was taken
  pulled,                  \* timestamp of the last buffer taken from a sink
  arrived                  \* every trigger handed to the clustering so far

clusterVars == <<is_first_event, cluster_boundary, candidate, cur_event_table>>
snapshotVars == <<postcoh_document, zerolag_files, seg_document, segment_files,
                  t_snapshot_start, last_buffer_timestamp>>
inputVars == <<current_timestamp, num_current_buffers, delivered, pulled, arrived>>

vars == <<pc, clusterVars, snapshotVars, trigger_control_doc, buffer, inputVars>>

-----------------------------------------------------------------------------
HaveLatestBuffers(n) == n = Cardinality(Banks)

\* is_better_event: higher coherent SNR, then the tie-breaks.
IsBetter(lhs, rhs) ==
  \/ lhs.cohsnr > rhs.cohsnr
  \/ /\ lhs.cohsnr = rhs.cohsnr
     /\ \/ lhs.end < rhs.end
        \/ /\ lhs.end = rhs.end
           /\ \/ lhs.bankid < rhs.bankid
              \/ lhs.bankid = rhs.bankid /\ lhs.tmplt_idx < rhs.tmplt_idx

UpTo(boundary, table) == {row \in table : row.end <= boundary}

\* peak is the event the scan of the table ends with.
IsPeak(peak, rows) == peak \in rows /\ \A row \in rows \ {peak} : IsBetter(peak, row)

Recorded == postcoh_document \union UNION {f.rows : f \in zerolag_files}

-----------------------------------------------------------------------------
(* record_candidate: the trigger control and the submission.               *)

IsSignificant(row) == row.far > 0 /\ row.far < FarThreshold

\* Mutant: the last line, submitted or not.
LastLine(doc) == doc[Len(doc)]

\* The line the control compares with: the last submitted one, or the first.
LastSubmitted(doc) ==
  LET submitted == {i \in DOMAIN doc : doc[i].submitted}
  IN  IF submitted = {} THEN doc[1]
      ELSE doc[CHOOSE i \in submitted : \A j \in submitted : j <= i]

\* With no line at all the last time is GPS 0, which is never recent.
TriggerControlRequired(row, doc) ==
  /\ doc # <<>>
  /\ row.end - LastSubmitted(doc).end < RecentSpan
  /\ LastSubmitted(doc).end - row.end < RecentSpan
  /\ row.far > LastSubmitted(doc).far

RecordCandidate(row) ==
  /\ postcoh_document' = postcoh_document \union {row}
  /\ trigger_control_doc' =
       IF IsSignificant(row)
       THEN Append(trigger_control_doc,
                   [end |-> row.end, far |-> row.far,
                    submitted |-> ~TriggerControlRequired(row, trigger_control_doc)])
       ELSE trigger_control_doc

-----------------------------------------------------------------------------
Init ==
  /\ pc = "idle"
  /\ current_timestamp = 0 /\ num_current_buffers = 0
  /\ is_first_event = TRUE /\ cluster_boundary = 0
  /\ candidate = {} /\ cur_event_table = {}
  /\ postcoh_document = {} /\ zerolag_files = {}
  /\ seg_document = [ifo \in Ifos |-> {}] /\ segment_files = {}
  /\ t_snapshot_start = NoTime /\ last_buffer_timestamp = NoTime
  /\ trigger_control_doc = <<>>
  /\ buffer = [newevents |-> {}, live |-> {}, max_cluster_boundary |-> 0]
  /\ delivered = {} /\ pulled = 0 /\ arrived = {}

\* What bank b may put into a buffer with timestamp ts.
MayContain(b, ts) ==
  {row \in Triggers \ arrived :
     /\ row.bankid = b
     /\ ts + NegativeLatency - EndTimeSlack <= row.end
     /\ row.end < ts + NegativeLatency + BufferDuration}

IsNewer(ts) == num_current_buffers = 0 \/ ts > current_timestamp

\* appsink_new_buffer up to the clustering loop.  live holds the ifos of the
\* heartbeat, the first entry of a buffer; it is empty when the buffer is a gap
\* or has no entry at all, and then there is no event either.
NewBuffer(ts, b, newevents, live) ==
  LET num    == IF IsNewer(ts) THEN 1 ELSE num_current_buffers + 1
      latest == HaveLatestBuffers(num)
      max    == ts + (IF latest THEN BufferDuration ELSE 0) + NegativeLatency
  IN  /\ pc = "idle"
      /\ IsNewer(ts) \/ (ts = current_timestamp /\ b \notin delivered)
      /\ pc' = "clustering"
      /\ pulled' = ts
      /\ current_timestamp' = ts
      /\ num_current_buffers' = num
      /\ delivered' = IF IsNewer(ts) THEN {b} ELSE delivered \union {b}
      /\ arrived' = arrived \union newevents
      /\ cur_event_table' =
           IF latest THEN cur_event_table \union newevents ELSE cur_event_table
      /\ IF is_first_event /\ newevents # {}
         THEN cluster_boundary' = max + ClusterWindow /\ is_first_event' = FALSE
         ELSE UNCHANGED <<cluster_boundary, is_first_event>>
      /\ buffer' = [newevents |-> newevents, live |-> live,
                    max_cluster_boundary |-> max]
      /\ UNCHANGED <<candidate, snapshotVars, trigger_control_doc>>

\* A buffer older than current_timestamp: _update_current_timestamp formats its
\* log message with one value for two conversions, so the handler raises before
\* it assigns anything, and what was pulled is gone.
OldBuffer(ts) ==
  /\ pc = "idle" /\ ~InOrder
  /\ num_current_buffers > 0 /\ ts < current_timestamp
  /\ pulled' = ts
  /\ UNCHANGED <<pc, clusterVars, snapshotVars, trigger_control_doc, buffer,
                 current_timestamp, num_current_buffers, delivered, arrived>>

-----------------------------------------------------------------------------
(* The loop of cluster_and_process_significant_triggers.                   *)

\* Mutant: the boundary itself is not yet over.
LoopContinuesBeyond ==
  /\ ClusterWindow > 0
  /\ ~is_first_event
  /\ buffer.max_cluster_boundary > cluster_boundary

LoopContinues ==
  /\ ClusterWindow > 0
  /\ ~is_first_event
  /\ buffer.max_cluster_boundary >= cluster_boundary

InLoop == pc = "clustering" /\ LoopContinues

InWindow == UpTo(cluster_boundary, cur_event_table)

loopUnchanged == <<pc, zerolag_files, seg_document, segment_files,
                   t_snapshot_start, last_buffer_timestamp, buffer, inputVars,
                   is_first_event>>

\* Mutants: the recorded candidate is kept; the window does not move on.
NoEventKeepsCandidate ==
  /\ InLoop /\ ~ClusterAvailable
  /\ InWindow = {}
  /\ cluster_boundary' = cluster_boundary + ClusterWindow
  /\ \/ candidate = {} /\ UNCHANGED <<postcoh_document, trigger_control_doc>>
     \/ \E row \in candidate : RecordCandidate(row)
  /\ UNCHANGED <<candidate, cur_event_table, loopUnchanged>>

NoEventKeepsBoundary ==
  /\ InLoop /\ ~ClusterAvailable
  /\ InWindow = {}
  /\ \/ candidate = {} /\ UNCHANGED <<candidate, postcoh_document, trigger_control_doc>>
     \/ \E row \in candidate : RecordCandidate(row) /\ candidate' = {}
  /\ UNCHANGED <<cluster_boundary, cur_event_table, loopUnchanged>>

\* No event up to the boundary: the candidate, if there is one, has won.
NoEventInWindow ==
  /\ InLoop /\ ~ClusterAvailable
  /\ InWindow = {}
  /\ cluster_boundary' = cluster_boundary + ClusterWindow
  /\ \/ /\ candidate = {}
        /\ UNCHANGED <<candidate, postcoh_document, trigger_control_doc>>
     \/ \E row \in candidate : RecordCandidate(row) /\ candidate' = {}
  /\ UNCHANGED <<cur_event_table, loopUnchanged>>

SlideUncompared ==
  /\ InLoop /\ ~ClusterAvailable
  /\ \E peak \in InWindow :
       /\ IsPeak(peak, InWindow)
       /\ candidate' = {peak}
       /\ cluster_boundary' = peak.end + ClusterWindow
  /\ cur_event_table' = cur_event_table \ InWindow
  /\ UNCHANGED <<postcoh_document, trigger_control_doc, loopUnchanged>>

\* A better event than the candidate: centre the window on it.
SlideToPeak ==
  /\ InLoop /\ ~ClusterAvailable
  /\ \E peak \in InWindow :
       /\ IsPeak(peak, InWindow)
       /\ \A row \in candidate : IsBetter(peak, row)
       /\ candidate' = {peak}
       /\ cluster_boundary' = peak.end + ClusterWindow
  /\ cur_event_table' = cur_event_table \ InWindow
  /\ UNCHANGED <<postcoh_document, trigger_control_doc, loopUnchanged>>

\* Mutants: the table is not purged; the event is recorded, not the candidate.
EmitCandidateUnpurged ==
  /\ InLoop /\ ~ClusterAvailable
  /\ \E peak \in InWindow :
       /\ IsPeak(peak, InWindow)
       /\ \E row \in candidate : ~IsBetter(peak, row) /\ RecordCandidate(row)
  /\ candidate' = {}
  /\ cluster_boundary' = cluster_boundary + ClusterWindow
  /\ UNCHANGED <<cur_event_table, loopUnchanged>>

EmitPeak ==
  /\ InLoop /\ ~ClusterAvailable
  /\ \E peak \in InWindow :
       /\ IsPeak(peak, InWindow)
       /\ \E row \in candidate : ~IsBetter(peak, row) /\ RecordCandidate(peak)
  /\ candidate' = {}
  /\ cur_event_table' = cur_event_table \ InWindow
  /\ cluster_boundary' = cluster_boundary + ClusterWindow
  /\ UNCHANGED loopUnchanged

\* The best event of the window does not beat the candidate: the candidate won.
EmitCandidate ==
  /\ InLoop /\ ~ClusterAvailable
  /\ \E peak \in InWindow :
       /\ IsPeak(peak, InWindow)
       /\ \E row \in candidate : ~IsBetter(peak, row) /\ RecordCandidate(row)
  /\ candidate' = {}
  /\ cur_event_table' = cur_event_table \ InWindow
  /\ cluster_boundary' = cluster_boundary + ClusterWindow
  /\ UNCHANGED loopUnchanged

\* feature_cluster_available_triggers: the best event up to the boundary wins.
EmitAvailable ==
  /\ InLoop /\ ClusterAvailable
  /\ \/ /\ InWindow = {}
        /\ UNCHANGED <<postcoh_document, trigger_control_doc>>
     \/ \E peak \in InWindow : IsPeak(peak, InWindow) /\ RecordCandidate(peak)
  /\ cur_event_table' = cur_event_table \ InWindow
  /\ cluster_boundary' = cluster_boundary + ClusterWindow
  /\ UNCHANGED <<candidate, loopUnchanged>>

-----------------------------------------------------------------------------
\* run_snapshot starts counting at the first complete timestamp.
SnapshotStart == IF t_snapshot_start = NoTime THEN current_timestamp ELSE t_snapshot_start

SnapshotDue ==
  /\ HaveLatestBuffers(num_current_buffers) /\ SnapshotInterval # NoTime
  /\ current_timestamp - SnapshotStart >= SnapshotInterval

\* Mutant: the segments are not written.
WriteZerolags(start, duration, rows) ==
  /\ zerolag_files' = zerolag_files \union
       {[start |-> start, duration |-> duration, rows |-> rows]}
  /\ postcoh_document' = {}
  /\ UNCHANGED segment_files

\* Both documents go to files: the segments to one named by the start and duration,
\* the zerolags to one named by get_zerolags_filestem.
WriteDocuments(start, duration, rows) ==
  /\ zerolag_files' = zerolag_files \union
       {[start |-> start, duration |-> duration, rows |-> rows]}
  /\ segment_files' = segment_files \union
       {[start |-> start, duration |-> duration, segs |-> seg_document]}
  /\ postcoh_document' = {}

\* The name of a zerolag file; without a prefix every one has the output_name.
ZerolagsFilestem(file) == IF OutputPrefix THEN <<file.start, file.duration>> ELSE <<>>

\* The documents that no later one, which starts later, has taken the name of.
OnDisk ==
  {f \in zerolag_files :
    \A g \in zerolag_files \ {f} :
      ZerolagsFilestem(g) = ZerolagsFilestem(f) => g.start < f.start}

\* run_snapshot, with the zerolag rows as the clustering left them.
RunSnapshot(rows) ==
  IF SnapshotDue
  THEN /\ WriteDocuments(SnapshotStart, current_timestamp - SnapshotStart, rows)
       /\ t_snapshot_start' = current_timestamp
       /\ last_buffer_timestamp' = current_timestamp
  ELSE /\ postcoh_document' = rows
       /\ UNCHANGED <<zerolag_files, segment_files>>
       /\ IF HaveLatestBuffers(num_current_buffers)
          THEN /\ t_snapshot_start' = SnapshotStart
               /\ last_buffer_timestamp' = current_timestamp
          ELSE UNCHANGED <<t_snapshot_start, last_buffer_timestamp>>

\* Mutant: the span's end instead of its start.
AddSegmentsAtEnd(document, live) ==
  [ifo \in Ifos |-> IF ifo \in live
                    THEN document[ifo] \union {current_timestamp + BufferDuration}
                    ELSE document[ifo]]

\* add_segments: the buffer's span for every ifo of the heartbeat.
AddSegments(document, live) ==
  [ifo \in Ifos |-> IF ifo \in live THEN document[ifo] \union {current_timestamp}
                    ELSE document[ifo]]

\* The rest of the handler.  A snapshot comes before add_segments, so the
\* segment of the buffer that triggers it goes into the next document.
FinishBuffer ==
  /\ pc = "clustering" /\ ~LoopContinues
  /\ pc' = "idle"
  /\ IF ClusterWindow = 0
     THEN /\ cur_event_table' = {}
          /\ RunSnapshot(postcoh_document \union buffer.newevents)
     ELSE /\ cur_event_table' =
               IF HaveLatestBuffers(num_current_buffers) THEN cur_event_table
               ELSE cur_event_table \union buffer.newevents
          /\ RunSnapshot(postcoh_document)
  /\ seg_document' =
       AddSegments(IF SnapshotDue THEN [ifo \in Ifos |-> {}] ELSE seg_document,
                   buffer.live)
  /\ UNCHANGED <<is_first_event, cluster_boundary, candidate,
                 trigger_control_doc, buffer, inputVars>>

\* The launch script, once the main loop has ended: the last documents are
\* written under the span since the last snapshot.  When no timestamp was ever
\* complete t_snapshot_start is None, the script raises and writes nothing.
WriteOutputFile ==
  /\ pc = "idle"
  /\ pc' = "done"
  /\ IF t_snapshot_start = NoTime
     THEN UNCHANGED <<postcoh_document, zerolag_files, segment_files>>
     ELSE WriteDocuments(t_snapshot_start,
                         last_buffer_timestamp - t_snapshot_start,
                         postcoh_document)
  /\ UNCHANGED <<clusterVars, seg_document, t_snapshot_start,
                 last_buffer_timestamp, trigger_control_doc, buffer, inputVars>>

Done == pc = "done" /\ UNCHANGED vars

AppsinkNewBuffer ==
  \E ts \in Timestamps, b \in Banks :
    \/ \E newevents \in SUBSET MayContain(b, ts), live \in SUBSET Ifos :
         /\ newevents # {} => live # {}
         /\ NewBuffer(ts, b, newevents, live)
    \/ OldBuffer(ts)

\* An iteration of the loop, in the one mode or the other.
ClusterStep ==
  IF ClusterAvailable THEN EmitAvailable
  ELSE NoEventInWindow \/ SlideToPeak \/ EmitCandidate

Next == AppsinkNewBuffer \/ ClusterStep \/ FinishBuffer \/ WriteOutputFile \/ Done

\* A handler that holds the lock is not suspended for ever; the banks owe
\* nothing.
Fairness == WF_vars(ClusterStep) /\ WF_vars(FinishBuffer)

Spec == Init /\ [][Next]_vars

FairSpec == Spec /\ Fairness

-----------------------------------------------------------------------------
(* Properties.                                                             *)

Undecided == cur_event_table \union candidate

\* Triggers the running handler still holds in a local.
InHand == IF pc = "clustering" /\ ~HaveLatestBuffers(num_current_buffers)
          THEN buffer.newevents ELSE {}

Dropped == arrived \ (Recorded \union Undecided \union InHand)

\* Every variable has its type; a handler that is not running holds no lock.
TypeOK ==
  /\ pc \in {"idle", "clustering", "done"}
  /\ current_timestamp \in Int /\ num_current_buffers \in 0..Cardinality(Banks)
  /\ is_first_event \in BOOLEAN /\ cluster_boundary \in Int
  /\ candidate \subseteq Triggers /\ cur_event_table \subseteq Triggers
  /\ postcoh_document \subseteq Triggers
  /\ \A f \in zerolag_files : f.rows \subseteq Triggers
  /\ seg_document \in [Ifos -> SUBSET Timestamps]
  /\ t_snapshot_start \in Int \union {NoTime}
  /\ last_buffer_timestamp \in Int \union {NoTime}
  /\ buffer.newevents \subseteq Triggers
  /\ buffer.max_cluster_boundary \in Int
  /\ delivered \subseteq Banks /\ arrived \subseteq Triggers

\* Two recorded zerolags are at least a window apart, however the banks'
\* buffers interleave and however the window slid, less the slack of events
\* that end before their buffer (README: "all the zerolags of a job will be
\* clustered over a window").  Not promised when the sink clusters what is
\* available, nor without a window.
Separation ==
  ClusterWindow > 0 /\ ~ClusterAvailable =>
    \A c, d \in Recorded :
      \/ c = d
      \/ c.end + ClusterWindow - EndTimeSlack <= d.end
      \/ d.end + ClusterWindow - EndTimeSlack <= c.end

\* How far the event that beats a dropped one may be: the window that is opened
\* by the first event reaches back over the buffer it came in.
Reach == ClusterWindow + BufferDuration + EndTimeSlack

\* A trigger disappears (purged from cur_event_table, or replaced as candidate)
\* only because a better one ended near it.
DropJustified ==
  \A e \in Dropped : \E d \in arrived :
    /\ IsBetter(d, e)
    /\ e.end - d.end <= Reach /\ d.end - e.end <= Reach

\* A trigger is recorded once: what is recorded is no longer a candidate and no
\* longer in the table, and no two documents share it.
RecordedOnce ==
  /\ Recorded \intersect Undecided = {}
  /\ \A f \in zerolag_files : f.rows \intersect postcoh_document = {}
  /\ \A f, g \in zerolag_files : f = g \/ f.rows \intersect g.rows = {}

\* Of two submitted triggers less than RecentSpan apart the later line has no
\* higher FAR: __is_trigger_control_required over any run of candidates, not
\* only against the last line.
SubmittedImprove ==
  \A i, j \in DOMAIN trigger_control_doc :
    LET a == trigger_control_doc[i]
        b == trigger_control_doc[j]
    IN  /\ i < j /\ a.submitted /\ b.submitted
        /\ b.end - a.end < RecentSpan
        => b.far <= a.far

\* The bound the last buffer allowed; no later buffer reaches further back than
\* EndTimeSlack before it, because a timestamp that is complete is over.
BufferBound ==
  /\ num_current_buffers = Cardinality(delivered)
  /\ num_current_buffers = 0 => pc # "clustering" /\ Recorded = {}
  /\ num_current_buffers > 0 =>
       /\ current_timestamp \in Timestamps
       /\ buffer.max_cluster_boundary =
            current_timestamp + NegativeLatency
              + (IF HaveLatestBuffers(num_current_buffers) THEN BufferDuration ELSE 0)
  /\ \A x \in InHand : buffer.max_cluster_boundary - EndTimeSlack <= x.end

\* Why recorded triggers stay apart: the window is centred on the candidate, a
\* recorded trigger's window is closed for good, and what is undecided lies
\* behind every closed window.
WindowsClosed ==
  ClusterWindow > 0 /\ ~ClusterAvailable =>
    /\ is_first_event => candidate = {}
    /\ \A row \in candidate : cluster_boundary = row.end + ClusterWindow
    /\ \A r, s \in candidate : r = s
    /\ \A c \in Recorded : c.end + ClusterWindow <= buffer.max_cluster_boundary
    /\ \A c \in Recorded : \A x \in Undecided \union InHand :
         c.end + ClusterWindow - EndTimeSlack <= x.end

\* The inductive invariant behind Separation.
SeparationInv == TypeOK /\ BufferBound /\ WindowsClosed /\ Separation

LiveTime(ifo) == seg_document[ifo] \union UNION {f.segs[ifo] : f \in segment_files}

\* The zerolags of the document being filled and those that can be read from files.
Saved == postcoh_document \union UNION {f.rows : f \in OnDisk}

\* README, finalsink-snapshot-interval: "the zerolags will be dumped at multiples of this
\* interval".  A snapshot moves rows and segments to files and no later one loses any,
\* whichever of the banks' buffers triggers it.
SnapshotsLoseNothing ==
  [][/\ Saved \subseteq Saved'
     /\ \A ifo \in Ifos : LiveTime(ifo) \subseteq LiveTime(ifo)']_vars

\* run_snapshot: "Record the last timestamp so remaining stats can be dumped on program
\* end."  When the run has ended every recorded zerolag and live segment is in a file.
ShutdownSaves ==
  pc = "done" =>
    /\ Recorded \subseteq UNION {f.rows : f \in OnDisk}
    /\ \A ifo \in Ifos :
         LiveTime(ifo) \subseteq UNION {f.segs[ifo] : f \in segment_files}

\* The loop ends although a slide may move the boundary back.
ClusterTerminates == (pc = "clustering") ~> (pc = "idle")

\* The sink implements the abstract selection.
Selection ==
  INSTANCE TriggerSelection WITH
    recorded <- Recorded, dropped <- Dropped,
    MinSeparation <- ClusterWindow - EndTimeSlack

ImplementsSelection == Selection!Spec

\* README: feature-cluster-available-triggers is to "cluster upload candidates
\* only in the second they are received".  Once the first window has closed,
\* and for a window as long as a buffer, the last bank's buffer of a timestamp
\* leaves nothing undecided.
DecidedInSecondReceived ==
  /\ pc = "idle" /\ ClusterAvailable /\ ClusterWindow = BufferDuration
  /\ HaveLatestBuffers(num_current_buffers) /\ Recorded # {}
  => cur_event_table = {}
=============================================================================
