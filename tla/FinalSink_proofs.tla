--------------------------- MODULE FinalSink_proofs ---------------------------
(***************************************************************************)
(* Theorems about FinalSink, for any banks, triggers, timestamps, windows  *)
(* and intervals: its types; that recorded zerolags stay a window apart;   *)
(* that every trigger is in one place and, with a prefix, no snapshot      *)
(* loses a row or a segment; and that the clustering over a window         *)
(* implements TriggerSelection.  And about AppSync, for any sinks and      *)
(* streams: that it hands the buffers over in the order of time.  And      *)
(* about OnlineSink: that together they never meet a late buffer.          *)
(***************************************************************************)
EXTENDS OnlineSink, FiniteSetTheorems, WellFoundedInduction, TLAPS

-----------------------------------------------------------------------------
(* Facts about the operators.                                              *)

\* The number of banks is a natural number.
LEMMA BanksCount == Cardinality(Banks) \in Nat
  BY BanksAssumption, FS_CardinalityType

\* A timestamp at which some bank has not delivered is not complete.
LEMMA NotComplete ==
  ASSUME NEW S \in SUBSET Banks, NEW b \in Banks, b \notin S
  PROVE  /\ Cardinality(S) \in Nat
         /\ Cardinality(S) < Cardinality(Banks)
         /\ Cardinality(S \union {b}) = Cardinality(S) + 1
<1>1. IsFiniteSet(S) /\ Cardinality(S) <= Cardinality(Banks)
      /\ (Cardinality(Banks) = Cardinality(S) => Banks = S)
  BY BanksAssumption, FS_Subset
<1>2. Cardinality(S) \in Nat
  BY <1>1, FS_CardinalityType
<1>3. Cardinality(S \union {b}) = Cardinality(S) + 1
  BY <1>1, FS_AddElement
<1> QED
  BY <1>1, <1>2, <1>3, BanksCount

\* The end of a trigger is an integer.
LEMMA EndType == \A x \in Triggers : x.end \in Int
  BY TriggersAssumption DEF Trigger

\* What the files hold once one more is written.
LEMMA FilesUnion ==
  ASSUME NEW files, NEW new
  PROVE  UNION {f.rows : f \in files \union {new}}
           = new.rows \union UNION {f.rows : f \in files}
<1>1. {f.rows : f \in files \union {new}} = {f.rows : f \in files} \union {new.rows}
  OBVIOUS
<1> QED
  BY <1>1

\* Written documents keep the rows they are given and those of earlier files.
LEMMA WriteRecorded ==
  ASSUME NEW start, NEW duration, NEW rows,
         WriteDocuments(start, duration, rows)
  PROVE  Recorded' = rows \union UNION {f.rows : f \in zerolag_files}
<1> DEFINE new == [start |-> start, duration |-> duration, rows |-> rows]
<1>1. zerolag_files' = zerolag_files \union {new} /\ postcoh_document' = {}
  BY DEF WriteDocuments
<1>2. new.rows = rows
  OBVIOUS
<1> HIDE DEF new
<1> QED
  BY <1>1, <1>2, FilesUnion DEF Recorded

\* A snapshot keeps the rows it is given and those of the files there are.
LEMMA SnapshotRecorded ==
  ASSUME NEW rows, RunSnapshot(rows)
  PROVE  Recorded' = rows \union UNION {f.rows : f \in zerolag_files}
<1>1. CASE SnapshotDue
  BY <1>1, WriteRecorded DEF RunSnapshot
<1>2. CASE ~SnapshotDue
  BY <1>2 DEF RunSnapshot, Recorded
<1> QED
  BY <1>1, <1>2

\* A recorded trigger joins the rows of the document.
LEMMA RecordAdds ==
  ASSUME NEW row, RecordCandidate(row)
  PROVE  postcoh_document' = postcoh_document \union {row}
  BY DEF RecordCandidate

-----------------------------------------------------------------------------
(* Types.                                                                  *)

\* The parts of BufferBound the types depend on.
CountInv ==
  /\ num_current_buffers = Cardinality(delivered)
  /\ num_current_buffers = 0 => pc # "clustering"
  /\ num_current_buffers > 0 => current_timestamp \in Timestamps

TypeInv == TypeOK /\ CountInv

\* The initial state is typed.
LEMMA TypeInit == Init => TypeInv
<1> SUFFICES ASSUME Init PROVE TypeInv
  OBVIOUS
<1>1. Cardinality({}) = 0
  BY FS_EmptySet
<1>2. TypeOK
  BY BanksCount DEF Init, TypeOK
<1> QED
  BY <1>1, <1>2 DEF Init, TypeInv, CountInv

\* RunSnapshot and WriteDocuments keep the types of what they assign.
LEMMA SnapshotTypes ==
  ASSUME TypeOK, NEW rows \in SUBSET Triggers, RunSnapshot(rows)
  PROVE  /\ postcoh_document' \subseteq Triggers
         /\ \A f \in zerolag_files' : f.rows \subseteq Triggers
         /\ t_snapshot_start' \in Int \union {NoTime}
         /\ last_buffer_timestamp' \in Int \union {NoTime}
<1>1. CASE SnapshotDue
  BY <1>1 DEF RunSnapshot, WriteDocuments, TypeOK
<1>2. CASE ~SnapshotDue
  BY <1>2 DEF RunSnapshot, TypeOK, SnapshotStart
<1> QED
  BY <1>1, <1>2

\* What NewBuffer assigns besides the bookkeeping of timestamps.
LEMMA NewBufferTypes ==
  ASSUME TypeOK, NEW ts \in Int, NEW b \in Banks,
         NEW newevents \in SUBSET Triggers, NEW live,
         NewBuffer(ts, b, newevents, live)
  PROVE  /\ pc' = "clustering"
         /\ is_first_event' \in BOOLEAN /\ cluster_boundary' \in Int
         /\ candidate' = candidate /\ UNCHANGED snapshotVars
         /\ cur_event_table' \subseteq Triggers /\ arrived' \subseteq Triggers
         /\ buffer'.newevents \subseteq Triggers
         /\ buffer'.max_cluster_boundary \in Int
<1> DEFINE num == IF IsNewer(ts) THEN 1 ELSE num_current_buffers + 1
           max == ts + (IF HaveLatestBuffers(num) THEN BufferDuration ELSE 0)
                     + NegativeLatency
<1>1. max \in Int
  BY TimesAssumption
<1>2. /\ buffer' = [newevents |-> newevents, live |-> live,
                    max_cluster_boundary |-> max]
      /\ cur_event_table' \in {cur_event_table, cur_event_table \union newevents}
      /\ arrived' = arrived \union newevents
      /\ \/ cluster_boundary' = max + ClusterWindow /\ is_first_event' = FALSE
         \/ UNCHANGED <<cluster_boundary, is_first_event>>
      /\ pc' = "clustering" /\ UNCHANGED <<candidate, snapshotVars>>
  BY DEF NewBuffer
<1>3. cluster_boundary' \in Int
  <2>1. max + ClusterWindow \in Int
    BY <1>1, TimesAssumption
  <2> QED
    BY <1>2, <2>1 DEF TypeOK
<1>4. is_first_event' \in BOOLEAN
  <2> HIDE DEF max
  <2> QED
    BY <1>2 DEF TypeOK
<1> HIDE DEF max
<1> QED
  BY <1>1, <1>2, <1>3, <1>4 DEF TypeOK

\* Every step keeps the types.
LEMMA TypeStep == TypeInv /\ [Next]_vars => TypeInv'
<1> SUFFICES ASSUME TypeInv, [Next]_vars PROVE TypeInv'
  OBVIOUS
<1> USE BanksCount, EndType
<1>1. ASSUME NEW ts \in Timestamps, NEW b \in Banks,
             NEW newevents \in SUBSET MayContain(b, ts), NEW live \in SUBSET Ifos,
             NewBuffer(ts, b, newevents, live)
      PROVE  TypeInv'
  <2>1. ts \in Int
    BY TimestampsAssumption
  <2>2. newevents \subseteq Triggers
    BY DEF MayContain
  <2>3. CASE IsNewer(ts)
    <3>1. num_current_buffers' = 1 /\ delivered' = {b} /\ current_timestamp' = ts
      BY <1>1, <2>3 DEF NewBuffer
    <3>2. Cardinality({b}) = 1 /\ 1 <= Cardinality(Banks)
      <4>1. Cardinality({}) = 0
        BY FS_EmptySet
      <4> QED
        BY <4>1, NotComplete, FS_Singleton
    <3>3. TypeOK'
      BY <1>1, <2>1, <2>2, <3>1, <3>2, NewBufferTypes
         DEF TypeInv, TypeOK, snapshotVars
    <3> QED
      BY <3>1, <3>2, <3>3 DEF TypeInv, CountInv
  <2>4. CASE ~IsNewer(ts)
    <3>1. /\ num_current_buffers' = num_current_buffers + 1
          /\ delivered' = delivered \union {b} /\ current_timestamp' = ts
          /\ b \notin delivered
      BY <1>1, <2>4 DEF NewBuffer
    <3>2. /\ Cardinality(delivered \union {b}) = num_current_buffers + 1
          /\ num_current_buffers + 1 \in 0..Cardinality(Banks)
          /\ num_current_buffers \in Nat
      BY <3>1, NotComplete DEF TypeInv, TypeOK, CountInv
    <3>3. TypeOK'
      BY <1>1, <2>1, <2>2, <3>1, <3>2, NewBufferTypes
         DEF TypeInv, TypeOK, snapshotVars
    <3> QED
      BY <3>1, <3>2, <3>3 DEF TypeInv, CountInv
  <2> QED
    BY <2>3, <2>4
<1>2. ASSUME NEW ts \in Timestamps, OldBuffer(ts)
      PROVE  TypeInv'
  BY <1>2 DEF OldBuffer, TypeInv, TypeOK, CountInv, clusterVars, snapshotVars
<1>3. CASE NoEventInWindow
  BY <1>3, RecordAdds, TimesAssumption
     DEF NoEventInWindow, loopUnchanged, inputVars, InLoop,
         TypeInv, TypeOK, CountInv
<1>4. CASE SlideToPeak
  BY <1>4, TimesAssumption
     DEF SlideToPeak, InWindow, UpTo, loopUnchanged, inputVars, InLoop,
         TypeInv, TypeOK, CountInv
<1>5. CASE EmitCandidate
  BY <1>5, RecordAdds, TimesAssumption
     DEF EmitCandidate, loopUnchanged, inputVars, InLoop,
         TypeInv, TypeOK, CountInv
<1>6. CASE EmitAvailable
  <2>1. postcoh_document' \subseteq Triggers
    <3>1. CASE InWindow = {} /\ UNCHANGED <<postcoh_document, trigger_control_doc>>
      BY <3>1 DEF TypeInv, TypeOK
    <3>2. CASE \E peak \in InWindow : IsPeak(peak, InWindow) /\ RecordCandidate(peak)
      BY <3>2, RecordAdds DEF InWindow, UpTo, TypeInv, TypeOK
    <3> QED
      BY <1>6, <3>1, <3>2 DEF EmitAvailable
  <2> QED
    BY <1>6, <2>1, TimesAssumption
       DEF EmitAvailable, loopUnchanged, inputVars, InLoop,
           TypeInv, TypeOK, CountInv
<1>7. CASE FinishBuffer
  <2>1. num_current_buffers > 0 /\ current_timestamp \in Timestamps
    BY <1>7 DEF FinishBuffer, TypeInv, TypeOK, CountInv
  <2>2. \E rows \in SUBSET Triggers : RunSnapshot(rows)
    BY <1>7 DEF FinishBuffer, TypeInv, TypeOK
  <2>3. seg_document' \in [Ifos -> SUBSET Timestamps]
    BY <1>7, <2>1 DEF FinishBuffer, AddSegments, TypeInv, TypeOK
  <2>4. TypeOK'
    BY <1>7, <2>2, <2>3, SnapshotTypes
       DEF FinishBuffer, TypeInv, TypeOK, inputVars
  <2> QED
    BY <1>7, <2>1, <2>4 DEF FinishBuffer, TypeInv, CountInv, inputVars
<1>8. CASE WriteOutputFile
  BY <1>8 DEF WriteOutputFile, WriteDocuments, TypeInv, TypeOK, CountInv,
              clusterVars, inputVars
<1>9. CASE Done \/ UNCHANGED vars
  BY <1>9 DEF Done, vars, clusterVars, snapshotVars, inputVars,
              TypeInv, TypeOK, CountInv
<1> QED
  BY <1>1, <1>2, <1>3, <1>4, <1>5, <1>6, <1>7, <1>8, <1>9
     DEF Next, AppsinkNewBuffer, ClusterStep

\* Type correctness of the sink, for every value of the constants.
THEOREM TypeCorrect == Spec => []TypeOK
<1>1. TypeInv => TypeOK
  BY DEF TypeInv
<1> QED
  BY <1>1, TypeInit, TypeStep, PTL DEF Spec

-----------------------------------------------------------------------------
(* Separation.                                                             *)

\* The invariant contains what the types need.
LEMMA InvTypes == SeparationInv => TypeInv
  BY DEF SeparationInv, TypeInv, BufferBound, CountInv

\* The initial state satisfies the invariant.
LEMMA SeparationInit == Init => SeparationInv
<1> SUFFICES ASSUME Init PROVE SeparationInv
  OBVIOUS
<1>1. TypeOK /\ Cardinality({}) = 0
  BY TypeInit, FS_EmptySet DEF TypeInv
<1>2. Recorded = {} /\ Undecided = {} /\ InHand = {}
  BY DEF Init, Recorded, Undecided, InHand
<1> QED
  BY <1>1, <1>2 DEF Init, SeparationInv, BufferBound, WindowsClosed, Separation

\* A new buffer starts no earlier than the bound of the last one.
LEMMA NextBuffer ==
  ASSUME SeparationInv, NEW ts \in Timestamps, NEW b \in Banks,
         num_current_buffers > 0,
         IsNewer(ts) \/ (ts = current_timestamp /\ b \notin delivered)
  PROVE  buffer.max_cluster_boundary <= ts + NegativeLatency
<1> USE DEF SeparationInv, BufferBound
<1>0. /\ current_timestamp \in Timestamps /\ current_timestamp \in Int /\ ts \in Int
      /\ delivered \subseteq Banks /\ num_current_buffers \in Nat
  BY TimestampsAssumption, BanksCount DEF TypeOK
<1>1. CASE IsNewer(ts)
  <2>1. current_timestamp + BufferDuration <= ts
    BY <1>0, <1>1, TimestampsAssumption DEF IsNewer
  <2> QED
    BY <1>0, <2>1, TimesAssumption
<1>2. CASE ts = current_timestamp /\ b \notin delivered
  <2>1. Cardinality(delivered) < Cardinality(Banks)
    BY <1>0, <1>2, NotComplete
  <2>2. ~HaveLatestBuffers(num_current_buffers)
    BY <1>0, <2>1, BanksCount DEF HaveLatestBuffers
  <2> QED
    BY <1>0, <1>2, <2>2, TimesAssumption
<1> QED
  BY <1>1, <1>2

\* The bound of the new buffer, and how far back its triggers reach.
LEMMA NewBufferBound ==
  ASSUME SeparationInv, NEW ts \in Timestamps, NEW b \in Banks,
         NEW newevents \in SUBSET MayContain(b, ts), NEW live,
         NewBuffer(ts, b, newevents, live)
  PROVE  /\ ts + NegativeLatency \in Int
         /\ buffer'.max_cluster_boundary
              = ts + NegativeLatency
                  + (IF HaveLatestBuffers(num_current_buffers')
                     THEN BufferDuration ELSE 0)
         /\ buffer'.newevents = newevents
         /\ \A x \in newevents : /\ x.end \in Int
                                /\ ts + NegativeLatency - EndTimeSlack <= x.end
<1>1. /\ ts \in Int /\ NegativeLatency \in Int /\ BufferDuration \in Int
      /\ EndTimeSlack \in Int
  BY TimestampsAssumption, TimesAssumption
<1>2. /\ buffer'.newevents = newevents
      /\ buffer'.max_cluster_boundary
           = ts + (IF HaveLatestBuffers(num_current_buffers')
                   THEN BufferDuration ELSE 0) + NegativeLatency
  BY DEF NewBuffer
<1>3. \A x \in newevents : /\ x.end \in Int
                            /\ ts + NegativeLatency - EndTimeSlack <= x.end
  BY EndType DEF MayContain
<1> QED
  BY <1>1, <1>2, <1>3

\* The invariant survives a new buffer.
LEMMA NewBufferSeparation ==
  ASSUME SeparationInv, TypeInv', NEW ts \in Timestamps, NEW b \in Banks,
         NEW newevents \in SUBSET MayContain(b, ts), NEW live,
         NewBuffer(ts, b, newevents, live)
  PROVE  SeparationInv'
<1>1. Recorded' = Recorded /\ candidate' = candidate /\ pc = "idle"
      /\ pc' = "clustering" /\ current_timestamp' = ts
  BY DEF NewBuffer, snapshotVars, Recorded
<1>2. /\ Undecided' \subseteq Undecided \union newevents
      /\ InHand' \subseteq newevents
      /\ InHand' # {} => ~HaveLatestBuffers(num_current_buffers')
  BY <1>1, NewBufferBound DEF NewBuffer, Undecided, InHand
<1>3. num_current_buffers' > 0
  BY DEF NewBuffer, IsNewer, SeparationInv, TypeOK
<1>4. /\ ts + NegativeLatency <= buffer'.max_cluster_boundary
      /\ InHand' # {} => buffer'.max_cluster_boundary = ts + NegativeLatency
      /\ buffer'.max_cluster_boundary \in Int
  BY <1>2, NewBufferBound, TimesAssumption
<1>5. BufferBound'
  <2>1. ASSUME NEW x \in InHand'
        PROVE  buffer'.max_cluster_boundary - EndTimeSlack <= x.end
    <3>1. x \in newevents /\ buffer'.max_cluster_boundary = ts + NegativeLatency
      BY <1>2, <1>4
    <3>2. ts + NegativeLatency - EndTimeSlack <= x.end
      BY <3>1, NewBufferBound
    <3>3. ts \in Int
      BY TimestampsAssumption
    <3> QED
      BY <3>1, <3>2, <3>3, TimesAssumption
  <2>2. num_current_buffers' = Cardinality(delivered')
    BY DEF TypeInv, CountInv
  <2> QED
    BY <1>1, <1>3, <2>1, <2>2, NewBufferBound DEF BufferBound
<1>6. ASSUME ClusterWindow > 0, ~ClusterAvailable, NEW c \in Recorded
      PROVE  /\ c.end \in Int
             /\ c.end + ClusterWindow <= ts + NegativeLatency
  <2>1. num_current_buffers > 0
    BY <1>6, BanksCount DEF SeparationInv, BufferBound, TypeOK
  <2>2. buffer.max_cluster_boundary <= ts + NegativeLatency
    BY <2>1, NextBuffer DEF NewBuffer
  <2>3. c.end \in Int
    BY <1>6, EndType DEF Recorded, SeparationInv, TypeOK
  <2>4. c.end + ClusterWindow <= buffer.max_cluster_boundary
    BY <1>6 DEF SeparationInv, WindowsClosed
  <2>5. buffer.max_cluster_boundary \in Int
    BY DEF SeparationInv, TypeOK
  <2>6. ts + NegativeLatency \in Int
    BY NewBufferBound
  <2> QED
    BY <2>2, <2>3, <2>4, <2>5, <2>6, TimesAssumption
<1>7. WindowsClosed'
  <2> SUFFICES ASSUME ClusterWindow > 0, ~ClusterAvailable
               PROVE  WindowsClosed'
    BY DEF WindowsClosed
  <2>1. \A c \in Recorded' : c.end + ClusterWindow <= buffer'.max_cluster_boundary
    BY <1>1, <1>4, <1>6, NewBufferBound, TimesAssumption
  <2>2. \A c \in Recorded' : \A x \in (Undecided \union InHand)' :
          c.end + ClusterWindow - EndTimeSlack <= x.end
    <3> SUFFICES ASSUME NEW c \in Recorded, NEW x \in Undecided \union newevents
                 PROVE  c.end + ClusterWindow - EndTimeSlack <= x.end
      BY <1>1, <1>2
    <3>1. CASE x \in Undecided
      BY <3>1 DEF SeparationInv, WindowsClosed
    <3>2. CASE x \in newevents
      <4>1. ts + NegativeLatency - EndTimeSlack <= x.end /\ x.end \in Int
            /\ ts + NegativeLatency \in Int
        BY <3>2, NewBufferBound
      <4>2. c.end \in Int /\ c.end + ClusterWindow <= ts + NegativeLatency
        BY <1>6
      <4>3. ts \in Int
        BY TimestampsAssumption
      <4> QED
        BY <4>1, <4>2, <4>3, TimesAssumption
    <3> QED
      BY <3>1, <3>2
  <2>3. \A row \in candidate : cluster_boundary' = row.end + ClusterWindow
    BY DEF NewBuffer, SeparationInv, WindowsClosed
  <2>4. is_first_event' => candidate = {}
    BY DEF NewBuffer, SeparationInv, WindowsClosed
  <2> QED
    BY <1>1, <2>1, <2>2, <2>3, <2>4 DEF WindowsClosed, SeparationInv
<1>8. Separation'
  BY <1>1 DEF Separation, SeparationInv
<1> QED
  BY <1>5, <1>7, <1>8 DEF SeparationInv, TypeInv

\* A loop iteration leaves the bookkeeping of timestamps alone.
LEMMA LoopBound ==
  ASSUME SeparationInv, InLoop, UNCHANGED loopUnchanged
  PROVE  BufferBound' /\ InHand' = InHand /\ num_current_buffers > 0
<1>1. num_current_buffers > 0
  BY BanksCount DEF InLoop, SeparationInv, BufferBound, TypeOK
<1>2. InHand' = InHand
  BY DEF InHand, loopUnchanged, inputVars
<1> QED
  BY <1>1, <1>2 DEF BufferBound, SeparationInv, loopUnchanged, inputVars

\* Recording the candidate of a closed window keeps every pair apart.
LEMMA CandidateWins ==
  ASSUME SeparationInv, InLoop, ~ClusterAvailable, UNCHANGED loopUnchanged,
         NEW row \in candidate, RecordCandidate(row), candidate' = {},
         cur_event_table' = cur_event_table \ InWindow
  PROVE  WindowsClosed' /\ Separation'
<1> USE DEF SeparationInv
<1>0. ClusterWindow > 0 /\ cluster_boundary <= buffer.max_cluster_boundary
  BY DEF InLoop, LoopContinues, TypeOK
<1>1. Recorded' = Recorded \union {row}
  BY RecordAdds DEF Recorded, loopUnchanged
<1>2. /\ buffer' = buffer /\ is_first_event' = is_first_event
      /\ Undecided' = cur_event_table \ InWindow /\ InHand' = InHand
  BY LoopBound DEF loopUnchanged, Undecided
<1>3. /\ row.end \in Int /\ cluster_boundary \in Int
      /\ buffer.max_cluster_boundary \in Int
      /\ \A x \in cur_event_table \union InHand \union Recorded \union candidate :
           x.end \in Int
  BY EndType DEF TypeOK, InHand, Recorded
<1>4. cluster_boundary = row.end + ClusterWindow
  BY <1>0 DEF WindowsClosed
<1>5. \A c \in Recorded' : c.end + ClusterWindow <= buffer'.max_cluster_boundary
  BY <1>0, <1>1, <1>2, <1>3, <1>4 DEF WindowsClosed
<1>6. ASSUME NEW x \in cur_event_table \ InWindow
      PROVE  row.end + ClusterWindow - EndTimeSlack <= x.end
  <2>1. ~(x.end <= cluster_boundary)
    BY <1>6 DEF InWindow, UpTo
  <2> QED
    BY <1>3, <1>4, <2>1, TimesAssumption
<1>7. ASSUME NEW x \in InHand
      PROVE  row.end + ClusterWindow - EndTimeSlack <= x.end
  <2>1. buffer.max_cluster_boundary - EndTimeSlack <= x.end
    BY DEF BufferBound
  <2> QED
    BY <1>0, <1>3, <1>4, <2>1, TimesAssumption
<1>8. \A c \in Recorded : \A x \in Undecided \union InHand :
        c.end + ClusterWindow - EndTimeSlack <= x.end
  BY <1>0 DEF WindowsClosed
<1>9. WindowsClosed'
  <2>1. \A c \in Recorded' : \A x \in Undecided' \union InHand' :
          c.end + ClusterWindow - EndTimeSlack <= x.end
    BY <1>1, <1>2, <1>6, <1>7, <1>8 DEF Undecided
  <2> QED
    BY <1>5, <2>1 DEF WindowsClosed
<1>10. Separation'
  BY <1>1, <1>8 DEF Separation, Undecided
<1> QED
  BY <1>9, <1>10

\* The invariant survives an empty window.
LEMMA NoEventSeparation ==
  ASSUME SeparationInv, TypeInv', NoEventInWindow
  PROVE  SeparationInv'
<1>1. /\ InLoop /\ ~ClusterAvailable /\ UNCHANGED loopUnchanged
      /\ InWindow = {} /\ cur_event_table' = cur_event_table
  BY DEF NoEventInWindow
<1>2. BufferBound'
  BY <1>1, LoopBound
<1>3. CASE candidate = {} /\ UNCHANGED <<candidate, postcoh_document>>
  <2>1. Recorded' = Recorded /\ Undecided' = Undecided /\ InHand' = InHand
        /\ buffer' = buffer
    BY <1>1, <1>3, LoopBound DEF Recorded, Undecided, loopUnchanged
  <2> QED
    BY <1>2, <1>3, <2>1
       DEF SeparationInv, TypeInv, WindowsClosed, Separation
<1>4. CASE \E row \in candidate : RecordCandidate(row) /\ candidate' = {}
  <2>1. WindowsClosed' /\ Separation'
    BY <1>1, <1>4, CandidateWins
  <2> QED
    BY <1>2, <2>1 DEF SeparationInv, TypeInv
<1> QED
  BY <1>3, <1>4 DEF NoEventInWindow

\* The invariant survives a slide of the window.
LEMMA SlideSeparation ==
  ASSUME SeparationInv, TypeInv', SlideToPeak
  PROVE  SeparationInv'
<1>1. /\ InLoop /\ ~ClusterAvailable /\ UNCHANGED loopUnchanged
      /\ postcoh_document' = postcoh_document
      /\ cur_event_table' = cur_event_table \ InWindow
  BY DEF SlideToPeak
<1>2. PICK peak \in InWindow :
        candidate' = {peak} /\ cluster_boundary' = peak.end + ClusterWindow
  BY DEF SlideToPeak
<1>3. /\ Recorded' = Recorded /\ InHand' = InHand /\ buffer' = buffer
      /\ Undecided' \subseteq Undecided /\ BufferBound'
      /\ is_first_event' = FALSE
  BY <1>1, <1>2, LoopBound
     DEF Recorded, Undecided, loopUnchanged, InWindow, UpTo, InLoop,
         LoopContinues, SeparationInv, TypeOK
<1>4. WindowsClosed'
  BY <1>2, <1>3 DEF WindowsClosed, SeparationInv
<1>5. Separation'
  BY <1>3 DEF Separation, SeparationInv
<1> QED
  BY <1>3, <1>4, <1>5 DEF SeparationInv, TypeInv

\* The invariant survives the emission of a candidate that was not beaten.
LEMMA EmitSeparation ==
  ASSUME SeparationInv, TypeInv', EmitCandidate
  PROVE  SeparationInv'
<1>1. /\ InLoop /\ ~ClusterAvailable /\ UNCHANGED loopUnchanged
      /\ candidate' = {} /\ cur_event_table' = cur_event_table \ InWindow
      /\ \E row \in candidate : RecordCandidate(row)
  BY DEF EmitCandidate
<1>2. WindowsClosed' /\ Separation'
  BY <1>1, CandidateWins
<1> QED
  BY <1>1, <1>2, LoopBound DEF SeparationInv, TypeInv

\* The feature's windows are outside the promise.
LEMMA AvailableSeparation ==
  ASSUME SeparationInv, TypeInv', EmitAvailable
  PROVE  SeparationInv'
<1>1. ClusterAvailable /\ InLoop /\ UNCHANGED loopUnchanged
  BY DEF EmitAvailable
<1> QED
  BY <1>1, LoopBound DEF SeparationInv, TypeInv, WindowsClosed, Separation

\* The invariant survives the end of the handler, snapshot included.
LEMMA FinishSeparation ==
  ASSUME SeparationInv, TypeInv', FinishBuffer
  PROVE  SeparationInv'
<1>1. /\ InHand' = {} /\ candidate' = candidate /\ pc' = "idle"
      /\ buffer' = buffer /\ cluster_boundary' = cluster_boundary
      /\ is_first_event' = is_first_event
      /\ UNCHANGED inputVars /\ num_current_buffers > 0
  BY BanksCount DEF FinishBuffer, InHand, SeparationInv, BufferBound, TypeOK
<1>2. BufferBound'
  BY <1>1 DEF BufferBound, SeparationInv, inputVars
<1>3. CASE ClusterWindow > 0
  <2>1. RunSnapshot(postcoh_document)
    BY <1>3 DEF FinishBuffer
  <2>2. Recorded' = Recorded
    BY <2>1, SnapshotRecorded DEF Recorded
  <2>3. Undecided' \subseteq Undecided \union InHand
    BY <1>1, <1>3 DEF FinishBuffer, Undecided, InHand
  <2>4. WindowsClosed'
    BY <1>1, <2>2, <2>3 DEF WindowsClosed, SeparationInv
  <2> QED
    BY <1>2, <2>2, <2>4 DEF Separation, SeparationInv, TypeInv
<1>4. CASE ~(ClusterWindow > 0)
  BY <1>2, <1>4 DEF WindowsClosed, Separation, SeparationInv, TypeInv
<1> QED
  BY <1>3, <1>4

\* Every step keeps the invariant.
LEMMA SeparationStep == SeparationInv /\ [Next]_vars => SeparationInv'
<1> SUFFICES ASSUME SeparationInv, [Next]_vars PROVE SeparationInv'
  OBVIOUS
<1>0. TypeInv'
  BY InvTypes, TypeStep
<1>1. ASSUME NEW ts \in Timestamps, NEW b \in Banks,
             NEW newevents \in SUBSET MayContain(b, ts), NEW live \in SUBSET Ifos,
             NewBuffer(ts, b, newevents, live)
      PROVE  SeparationInv'
  BY <1>0, <1>1, NewBufferSeparation
<1>2. ASSUME NEW ts \in Timestamps, OldBuffer(ts)
      PROVE  SeparationInv'
  BY <1>0, <1>2
     DEF OldBuffer, SeparationInv, TypeInv, BufferBound, WindowsClosed, Separation,
         Recorded, Undecided, InHand, clusterVars, snapshotVars
<1>3. CASE WriteOutputFile
  <2>1. Recorded' = Recorded
    BY <1>3, WriteRecorded DEF WriteOutputFile, Recorded
  <2>2. /\ InHand' = InHand /\ Undecided' = Undecided /\ buffer' = buffer
        /\ pc' = "done" /\ UNCHANGED inputVars
        /\ UNCHANGED clusterVars
    BY <1>3 DEF WriteOutputFile, InHand, Undecided, clusterVars, inputVars
  <2> QED
    BY <1>0, <2>1, <2>2
       DEF SeparationInv, TypeInv, BufferBound, WindowsClosed, Separation,
           clusterVars, inputVars
<1>4. CASE Done \/ UNCHANGED vars
  BY <1>0, <1>4
     DEF Done, vars, SeparationInv, TypeInv, BufferBound, WindowsClosed,
         Separation, Recorded, Undecided, InHand, clusterVars, snapshotVars,
         inputVars
<1> QED
  BY <1>0, <1>1, <1>2, <1>3, <1>4, NoEventSeparation, SlideSeparation,
     EmitSeparation, AvailableSeparation, FinishSeparation
     DEF Next, AppsinkNewBuffer, ClusterStep

\* Recorded zerolags are at least a window apart (less the slack), for any
\* number of banks, any triggers and any window.
THEOREM SeparationHolds == Spec => []Separation
<1>1. SeparationInv => Separation
  BY DEF SeparationInv
<1> QED
  BY <1>1, SeparationInit, SeparationStep, PTL DEF Spec

-----------------------------------------------------------------------------
(* What is recorded.                                                       *)

\* What the handler's buffer held.
InBuffer == IF pc = "clustering" THEN buffer.newevents ELSE {}

\* Every trigger that has arrived is in one place at most.
Distinct ==
  /\ RecordedOnce
  /\ candidate \intersect cur_event_table = {} /\ \A r, s \in candidate : r = s
  /\ InHand \intersect (Recorded \union Undecided) = {}
  /\ Recorded \union Undecided \union InBuffer \subseteq arrived
  /\ ClusterWindow = 0 =>
       /\ candidate = {} /\ cur_event_table \subseteq InBuffer
       /\ InBuffer \intersect Recorded = {}

-----------------------------------------------------------------------------
(* Where a trigger is.                                                     *)

\* What a loop iteration does: triggers leave the undecided ones, and one of these
\* may be recorded.
LoopShape ==
  /\ InLoop /\ UNCHANGED loopUnchanged
  /\ Undecided' \subseteq Undecided /\ candidate' \intersect cur_event_table' = {}
  /\ \A r, s \in candidate' : r = s
  /\ \/ postcoh_document' = postcoh_document
     \/ \E row \in Undecided \ Undecided' :
          postcoh_document' = postcoh_document \union {row}

\* Every loop iteration is of this shape.
LEMMA ClusterShape ==
  ASSUME candidate \intersect cur_event_table = {}, \A r, s \in candidate : r = s,
         ClusterStep
  PROVE  LoopShape
<1> USE DEF Undecided
<1>1. CASE NoEventInWindow
  <2>1. /\ InLoop /\ UNCHANGED loopUnchanged /\ cur_event_table' = cur_event_table
    BY <1>1 DEF NoEventInWindow
  <2>2. CASE UNCHANGED <<candidate, postcoh_document>>
    BY <2>1, <2>2 DEF LoopShape
  <2>3. CASE \E row \in candidate : RecordCandidate(row) /\ candidate' = {}
    BY <2>1, <2>3, RecordAdds DEF LoopShape
  <2> QED
    BY <1>1, <2>2, <2>3 DEF NoEventInWindow
<1>2. CASE SlideToPeak
  <2>1. PICK peak \in InWindow : candidate' = {peak}
    BY <1>2 DEF SlideToPeak
  <2>2. /\ InLoop /\ UNCHANGED loopUnchanged /\ postcoh_document' = postcoh_document
        /\ cur_event_table' = cur_event_table \ InWindow
    BY <1>2 DEF SlideToPeak
  <2>3. peak \in cur_event_table
    BY DEF InWindow, UpTo
  <2> QED
    BY <2>1, <2>2, <2>3 DEF LoopShape
<1>3. CASE EmitCandidate
  <2>1. /\ InLoop /\ UNCHANGED loopUnchanged /\ candidate' = {}
        /\ cur_event_table' = cur_event_table \ InWindow
        /\ \E row \in candidate : RecordCandidate(row)
    BY <1>3 DEF EmitCandidate
  <2> QED
    BY <2>1, RecordAdds DEF LoopShape
<1>4. CASE EmitAvailable
  <2>1. /\ InLoop /\ UNCHANGED loopUnchanged /\ candidate' = candidate
        /\ cur_event_table' = cur_event_table \ InWindow
    BY <1>4 DEF EmitAvailable
  <2>2. CASE postcoh_document' = postcoh_document
    BY <2>1, <2>2 DEF LoopShape
  <2>3. CASE \E peak \in InWindow : RecordCandidate(peak)
    <3>1. PICK peak \in InWindow : postcoh_document' = postcoh_document \union {peak}
      BY <2>3, RecordAdds
    <3>2. peak \in cur_event_table /\ peak \notin candidate
      BY DEF InWindow, UpTo
    <3> QED
      BY <2>1, <3>1, <3>2 DEF LoopShape
  <2> QED
    BY <1>4, <2>2, <2>3 DEF EmitAvailable
<1> QED
  BY <1>1, <1>2, <1>3, <1>4 DEF ClusterStep

\* A loop iteration records what was undecided and is no longer.
LEMMA LoopDistinct ==
  ASSUME Distinct, LoopShape
  PROVE  Distinct' /\ InHand' = InHand /\ arrived' = arrived
<1>1. /\ InHand' = InHand /\ InBuffer' = InBuffer /\ arrived' = arrived
      /\ zerolag_files' = zerolag_files /\ ~(ClusterWindow = 0)
  BY TimesAssumption
     DEF LoopShape, loopUnchanged, inputVars, InHand, InBuffer, InLoop, LoopContinues
<1>2. /\ Undecided' \subseteq Undecided /\ candidate' \intersect cur_event_table' = {}
      /\ \A r, s \in candidate' : r = s
  BY DEF LoopShape
<1>3. CASE postcoh_document' = postcoh_document
  <2>1. Recorded' = Recorded
    BY <1>1, <1>3 DEF Recorded
  <2>2. RecordedOnce'
    BY <1>1, <1>2, <1>3, <2>1 DEF Distinct, RecordedOnce
  <2> QED
    BY <1>1, <1>2, <2>1, <2>2 DEF Distinct
<1>4. ASSUME NEW row \in Undecided \ Undecided',
             postcoh_document' = postcoh_document \union {row}
      PROVE  Distinct'
  <2>1. Recorded' = Recorded \union {row}
    BY <1>1, <1>4 DEF Recorded
  <2>2. row \notin Recorded /\ row \notin InHand /\ row \in arrived
    BY <1>4 DEF Distinct, RecordedOnce
  <2>3. \A f \in zerolag_files : row \notin f.rows
    BY <2>2 DEF Recorded
  <2>4. RecordedOnce'
    BY <1>1, <1>2, <1>4, <2>1, <2>3 DEF Distinct, RecordedOnce
  <2> QED
    BY <1>1, <1>2, <2>1, <2>2, <2>4 DEF Distinct
<1> QED
  BY <1>1, <1>3, <1>4 DEF LoopShape

\* A buffer brings what has not arrived before.
LEMMA NewBufferDistinct ==
  ASSUME Distinct, NEW ts \in Timestamps, NEW b \in Banks,
         NEW newevents \in SUBSET MayContain(b, ts), NEW live,
         NewBuffer(ts, b, newevents, live)
  PROVE  Distinct'
<1>1. /\ newevents \intersect arrived = {} /\ arrived' = arrived \union newevents
      /\ pc = "idle" /\ UNCHANGED <<postcoh_document, zerolag_files, candidate>>
      /\ InBuffer' = newevents /\ InBuffer = {} /\ Recorded' = Recorded
  BY DEF NewBuffer, MayContain, InBuffer, snapshotVars, Recorded
<1>2. \/ cur_event_table' = cur_event_table /\ InHand' = newevents
      \/ cur_event_table' = cur_event_table \union newevents /\ InHand' = {}
  <2>1. CASE HaveLatestBuffers(num_current_buffers')
    BY <2>1 DEF NewBuffer, InHand
  <2>2. CASE ~HaveLatestBuffers(num_current_buffers')
    BY <2>2 DEF NewBuffer, InHand
  <2> QED
    BY <2>1, <2>2
<1>3. RecordedOnce'
  BY <1>1, <1>2 DEF Distinct, RecordedOnce, Undecided
<1>4. (InHand \intersect (Recorded \union Undecided) = {})'
  BY <1>1, <1>2 DEF Distinct, Undecided
<1>5. (Recorded \union Undecided \union InBuffer \subseteq arrived)'
  BY <1>1, <1>2 DEF Distinct, Undecided
<1>6. candidate' \intersect cur_event_table' = {} /\ \A r, s \in candidate' : r = s
  BY <1>1, <1>2 DEF Distinct, Undecided
<1>7. ClusterWindow = 0 =>
        /\ candidate' = {} /\ cur_event_table' \subseteq InBuffer'
        /\ InBuffer' \intersect Recorded' = {}
  BY <1>1, <1>2 DEF Distinct
<1> QED
  BY <1>3, <1>4, <1>5, <1>6, <1>7 DEF Distinct

\* Written documents are emptied, and what was in them is in one more file.
LEMMA WriteOnce ==
  ASSUME NEW start, NEW duration, NEW rows, WriteDocuments(start, duration, rows),
         \A f \in zerolag_files : f.rows \intersect rows = {},
         \A f, g \in zerolag_files : f = g \/ f.rows \intersect g.rows = {}
  PROVE  /\ \A f \in zerolag_files' : f.rows \intersect postcoh_document' = {}
         /\ \A f, g \in zerolag_files' : f = g \/ f.rows \intersect g.rows = {}
<1> DEFINE new == [start |-> start, duration |-> duration, rows |-> rows]
<1>1. zerolag_files' = zerolag_files \union {new} /\ postcoh_document' = {}
  BY DEF WriteDocuments
<1>2. new.rows = rows
  OBVIOUS
<1> HIDE DEF new
<1> QED
  BY <1>1, <1>2

\* The rest of the handler keeps what is recorded, or without a window adds the
\* buffer to it, and what it holds in a local goes to the table.
LEMMA FinishPlaces ==
  ASSUME Distinct, FinishBuffer
  PROVE  /\ arrived' = arrived /\ candidate' = candidate
         /\ InHand' = {} /\ InBuffer' = {}
         /\ ClusterWindow > 0 =>
              /\ Recorded' = Recorded /\ RunSnapshot(postcoh_document)
              /\ cur_event_table' = cur_event_table \union InHand
         /\ ClusterWindow = 0 =>
              /\ Recorded' = Recorded \union InBuffer /\ cur_event_table' = {}
              /\ RunSnapshot(postcoh_document \union InBuffer)
<1>1. /\ arrived' = arrived /\ candidate' = candidate /\ InHand' = {} /\ InBuffer' = {}
      /\ InBuffer = buffer.newevents
  BY DEF FinishBuffer, inputVars, InHand, InBuffer
<1>2. CASE ClusterWindow = 0
  <2>1. RunSnapshot(postcoh_document \union InBuffer) /\ cur_event_table' = {}
    BY <1>1, <1>2 DEF FinishBuffer
  <2>2. Recorded' = Recorded \union InBuffer
    BY <2>1, SnapshotRecorded DEF Recorded
  <2> QED
    BY <1>1, <1>2, <2>1, <2>2
<1>3. CASE ClusterWindow > 0
  <2>1. RunSnapshot(postcoh_document)
    BY <1>3 DEF FinishBuffer
  <2>2. Recorded' = Recorded
    BY <2>1, SnapshotRecorded DEF Recorded
  <2>3. cur_event_table' = cur_event_table \union InHand
    BY <1>3 DEF FinishBuffer, InHand
  <2> QED
    BY <1>1, <1>3, <2>1, <2>2, <2>3
<1> QED
  BY <1>1, <1>2, <1>3

\* The rows a snapshot is given end in one place.
LEMMA SnapshotOnce ==
  ASSUME NEW rows, RunSnapshot(rows),
         \A f \in zerolag_files : f.rows \intersect rows = {},
         \A f, g \in zerolag_files : f = g \/ f.rows \intersect g.rows = {}
  PROVE  /\ \A f \in zerolag_files' : f.rows \intersect postcoh_document' = {}
         /\ \A f, g \in zerolag_files' : f = g \/ f.rows \intersect g.rows = {}
<1>1. CASE SnapshotDue
  BY <1>1, WriteOnce DEF RunSnapshot
<1>2. CASE ~SnapshotDue
  BY <1>2 DEF RunSnapshot
<1> QED
  BY <1>1, <1>2

\* The end of a buffer's handling leaves every trigger in one place.
LEMMA FinishDistinct ==
  ASSUME Distinct, FinishBuffer
  PROVE  Distinct'
<1>1. CASE ClusterWindow = 0
  <2>1. /\ arrived' = arrived /\ candidate' = {} /\ cur_event_table' = {}
        /\ InHand' = {} /\ InBuffer' = {} /\ Recorded' = Recorded \union InBuffer
        /\ RunSnapshot(postcoh_document \union InBuffer)
    BY <1>1, FinishPlaces DEF Distinct
  <2>2. \A f \in zerolag_files : f.rows \intersect (postcoh_document \union InBuffer) = {}
    BY <1>1 DEF Distinct, RecordedOnce, Recorded
  <2>3. RecordedOnce'
    BY <2>1, <2>2, SnapshotOnce DEF Distinct, RecordedOnce, Undecided
  <2> QED
    BY <2>1, <2>3 DEF Distinct, Undecided
<1>2. CASE ClusterWindow > 0
  <2>1. /\ arrived' = arrived /\ candidate' = candidate
        /\ cur_event_table' = cur_event_table \union InHand
        /\ InHand' = {} /\ InBuffer' = {} /\ Recorded' = Recorded
        /\ RunSnapshot(postcoh_document)
    BY <1>2, FinishPlaces
  <2>2. InHand \subseteq InBuffer
    BY DEF InHand, InBuffer
  <2>3. RecordedOnce'
    BY <2>1, SnapshotOnce DEF Distinct, RecordedOnce, Undecided
  <2> QED
    BY <1>2, <2>1, <2>2, <2>3 DEF Distinct, Undecided
<1> QED
  BY <1>1, <1>2, TimesAssumption

\* run_snapshot and write_output_file move rows from the document to a file.
LEMMA WriteDistinct ==
  ASSUME Distinct, WriteOutputFile
  PROVE  Distinct' /\ Recorded' = Recorded
<1>1. /\ pc = "idle" /\ pc' = "done" /\ UNCHANGED clusterVars /\ arrived' = arrived
  BY DEF WriteOutputFile, inputVars
<1>2. /\ InHand' = InHand /\ InBuffer' = InBuffer /\ Undecided' = Undecided
      /\ candidate' = candidate /\ cur_event_table' = cur_event_table
  BY <1>1 DEF InHand, InBuffer, Undecided, clusterVars
<1>3. Recorded' = Recorded
  BY WriteRecorded DEF WriteOutputFile, Recorded
<1>4. /\ \A f \in zerolag_files' : f.rows \intersect postcoh_document' = {}
      /\ \A f, g \in zerolag_files' : f = g \/ f.rows \intersect g.rows = {}
  <2>1. CASE t_snapshot_start = NoTime
    BY <2>1 DEF WriteOutputFile, Distinct, RecordedOnce
  <2>2. CASE t_snapshot_start # NoTime
    BY <2>2, WriteOnce DEF WriteOutputFile, Distinct, RecordedOnce
  <2> QED
    BY <2>1, <2>2
<1>5. RecordedOnce'
  BY <1>2, <1>3, <1>4 DEF Distinct, RecordedOnce
<1> QED
  BY <1>1, <1>2, <1>3, <1>5 DEF Distinct

\* What leaves the tables alone keeps every trigger where it is.
LEMMA IdleDistinct ==
  ASSUME Distinct,
         UNCHANGED <<pc, clusterVars, snapshotVars, buffer, num_current_buffers, arrived>>
  PROVE  Distinct'
  BY DEF Distinct, RecordedOnce, Recorded, Undecided, InHand, InBuffer, clusterVars,
     snapshotVars

\* Every step keeps the invariant.
LEMMA DistinctStep == Distinct /\ [Next]_vars => Distinct'
<1> SUFFICES ASSUME Distinct, [Next]_vars PROVE Distinct'
  OBVIOUS
<1>1. CASE ClusterStep
  <2>1. candidate \intersect cur_event_table = {} /\ \A r, s \in candidate : r = s
    BY DEF Distinct
  <2> QED
    BY <1>1, <2>1, ClusterShape, LoopDistinct
<1>2. CASE AppsinkNewBuffer
  BY <1>2, NewBufferDistinct, IdleDistinct DEF AppsinkNewBuffer, OldBuffer
<1>3. CASE Done \/ UNCHANGED vars
  BY <1>3, IdleDistinct DEF Done, vars, inputVars
<1> QED
  BY <1>1, <1>2, <1>3, FinishDistinct, WriteDistinct DEF Next

\* At the start no trigger is anywhere.
LEMMA DistinctInit == Init => Distinct
  BY DEF Init, Distinct, RecordedOnce, Recorded, Undecided, InHand, InBuffer

\* Every trigger is recorded once, in one document, in every mode of the clustering.
THEOREM RecordedOnceHolds == Spec => []RecordedOnce
<1>1. Distinct => RecordedOnce
  BY DEF Distinct
<1> QED
  BY <1>1, DistinctInit, DistinctStep, PTL DEF Spec

-----------------------------------------------------------------------------
(* What snapshots and the end of the run keep.                             *)

\* Segments that are written or kept stay.
LEMMA WriteSegments ==
  ASSUME NEW start, NEW duration, NEW rows, WriteDocuments(start, duration, rows),
         NEW ifo \in Ifos
  PROVE  UNION {f.segs[ifo] : f \in segment_files'} =
           seg_document[ifo] \union UNION {f.segs[ifo] : f \in segment_files}
<1> DEFINE new == [start |-> start, duration |-> duration, segs |-> seg_document]
<1>1. segment_files' = segment_files \union {new}
  BY DEF WriteDocuments
<1>2. new.segs = seg_document
  OBVIOUS
<1> HIDE DEF new
<1>3. {f.segs[ifo] : f \in segment_files'} =
        {f.segs[ifo] : f \in segment_files} \union {new.segs[ifo]}
  BY <1>1
<1> QED
  BY <1>2, <1>3

\* No step forgets a row or a segment.
LEMMA StepKeeps ==
  ASSUME Distinct, [Next]_vars
  PROVE  /\ Recorded \subseteq Recorded'
         /\ \A ifo \in Ifos : LiveTime(ifo) \subseteq LiveTime(ifo)'
<1>1. CASE ClusterStep
  <2>1. candidate \intersect cur_event_table = {} /\ \A r, s \in candidate : r = s
    BY DEF Distinct
  <2>2. /\ zerolag_files' = zerolag_files /\ postcoh_document \subseteq postcoh_document'
        /\ UNCHANGED <<seg_document, segment_files>>
    BY <1>1, <2>1, ClusterShape DEF LoopShape, loopUnchanged
  <2> QED
    BY <2>2 DEF Recorded, LiveTime
<1>2. CASE FinishBuffer
  <2>1. Recorded \subseteq Recorded'
    BY <1>2, FinishPlaces, TimesAssumption
  <2>2. PICK rows : RunSnapshot(rows)
    BY <1>2 DEF FinishBuffer
  <2>3. ASSUME NEW ifo \in Ifos PROVE LiveTime(ifo) \subseteq LiveTime(ifo)'
    <3>1. CASE SnapshotDue
      <4>1. UNION {f.segs[ifo] : f \in segment_files'} = LiveTime(ifo)
        BY <2>2, <3>1, WriteSegments DEF RunSnapshot, LiveTime
      <4> QED
        BY <4>1 DEF LiveTime
    <3>2. CASE ~SnapshotDue
      <4>1. segment_files' = segment_files
        BY <2>2, <3>2 DEF RunSnapshot
      <4>2. seg_document[ifo] \subseteq seg_document'[ifo]
        BY <1>2, <3>2 DEF FinishBuffer, AddSegments
      <4> QED
        BY <4>1, <4>2 DEF LiveTime
    <3> QED
      BY <3>1, <3>2
  <2> QED
    BY <2>1, <2>3
<1>3. CASE WriteOutputFile
  <2>1. Recorded' = Recorded
    BY <1>3, WriteDistinct
  <2>2. ASSUME NEW ifo \in Ifos PROVE LiveTime(ifo) \subseteq LiveTime(ifo)'
    <3>1. seg_document' = seg_document
      BY <1>3 DEF WriteOutputFile
    <3>2. CASE t_snapshot_start = NoTime
      BY <1>3, <3>1, <3>2 DEF WriteOutputFile, LiveTime
    <3>3. CASE t_snapshot_start # NoTime
      BY <1>3, <3>1, <3>3, WriteSegments DEF WriteOutputFile, LiveTime
    <3> QED
      BY <3>2, <3>3
  <2> QED
    BY <2>1, <2>2
<1>4. CASE AppsinkNewBuffer \/ Done \/ UNCHANGED vars
  <2>1. UNCHANGED snapshotVars
    BY <1>4 DEF AppsinkNewBuffer, NewBuffer, OldBuffer, Done, vars
  <2> QED
    BY <2>1 DEF snapshotVars, Recorded, LiveTime
<1> QED
  BY <1>1, <1>2, <1>3, <1>4 DEF Next

\* The starts of the documents tell them apart: those written lie before the next one's.
StartsApart ==
  /\ \A f, g \in zerolag_files : f.start = g.start => f = g
  /\ pc # "done" => \A f \in zerolag_files :
                      t_snapshot_start # NoTime /\ f.start < t_snapshot_start
  /\ \A f \in zerolag_files : f.start \in Int

\* One more document, that starts after those there are.
LEMMA WriteApart ==
  ASSUME NEW start \in Int, NEW duration, NEW rows, WriteDocuments(start, duration, rows),
         \A f, g \in zerolag_files : f.start = g.start => f = g,
         \A f \in zerolag_files : f.start \in Int /\ f.start < start
  PROVE  /\ \A f, g \in zerolag_files' : f.start = g.start => f = g
         /\ \A f \in zerolag_files' : f.start \in Int /\ f.start <= start
<1> DEFINE new == [start |-> start, duration |-> duration, rows |-> rows]
<1>1. zerolag_files' = zerolag_files \union {new}
  BY DEF WriteDocuments
<1>2. new.start = start
  OBVIOUS
<1> HIDE DEF new
<1>3. \A f \in zerolag_files : f.start # new.start
  BY <1>2
<1> QED
  BY <1>1, <1>2, <1>3

\* A snapshot is taken only some time after the last.
LEMMA FinishApart ==
  ASSUME TypeInv, StartsApart, FinishBuffer
  PROVE  StartsApart'
<1>1. PICK rows : RunSnapshot(rows)
  BY DEF FinishBuffer
<1>2. /\ pc # "done" /\ current_timestamp \in Int /\ NoTime \notin Int
      /\ t_snapshot_start \in Int \union {NoTime}
  BY TimesAssumption DEF FinishBuffer, TypeInv, TypeOK
<1>3. CASE SnapshotDue
  <2>1. /\ WriteDocuments(SnapshotStart, current_timestamp - SnapshotStart, rows)
        /\ t_snapshot_start' = current_timestamp
    BY <1>1, <1>3 DEF RunSnapshot
  <2>2. SnapshotStart \in Int
    BY <1>2 DEF SnapshotStart
  <2>3. current_timestamp > SnapshotStart
    <3>1. SnapshotInterval \in Nat \ {0}
      BY <1>3, TimesAssumption DEF SnapshotDue
    <3>2. current_timestamp - SnapshotStart >= SnapshotInterval
      BY <1>3 DEF SnapshotDue
    <3> QED
      BY <1>2, <2>2, <3>1, <3>2
  <2>4. \A f \in zerolag_files : f.start \in Int /\ f.start < SnapshotStart
    BY <1>2 DEF StartsApart, SnapshotStart
  <2>5. /\ \A f, g \in zerolag_files' : f.start = g.start => f = g
        /\ \A f \in zerolag_files' : f.start \in Int /\ f.start <= SnapshotStart
    BY <2>1, <2>2, <2>4, WriteApart DEF StartsApart
  <2>6. \A f \in zerolag_files' : f.start < current_timestamp
    BY <1>2, <2>2, <2>3, <2>5
  <2> QED
    BY <1>2, <2>1, <2>5, <2>6 DEF StartsApart
<1>4. CASE ~SnapshotDue
  <2>1. /\ zerolag_files' = zerolag_files
        /\ t_snapshot_start' \in {SnapshotStart, t_snapshot_start}
    BY <1>1, <1>4 DEF RunSnapshot
  <2>2. t_snapshot_start # NoTime => t_snapshot_start' = t_snapshot_start
    BY <2>1 DEF SnapshotStart
  <2> QED
    BY <1>2, <2>1, <2>2 DEF StartsApart
<1> QED
  BY <1>3, <1>4

\* Every step keeps the starts apart.
LEMMA ApartStep ==
  ASSUME TypeInv, StartsApart, [Next]_vars
  PROVE  StartsApart'
<1>1. CASE FinishBuffer
  BY <1>1, FinishApart
<1>2. CASE WriteOutputFile
  <2>1. pc = "idle" /\ pc' = "done" /\ t_snapshot_start \in Int \union {NoTime}
    BY <1>2 DEF WriteOutputFile, TypeInv, TypeOK
  <2>2. CASE t_snapshot_start = NoTime
    BY <1>2, <2>1, <2>2 DEF WriteOutputFile, StartsApart
  <2>3. CASE t_snapshot_start # NoTime
    <3>1. \A f \in zerolag_files : f.start \in Int /\ f.start < t_snapshot_start
      BY <2>1 DEF StartsApart
    <3>2. WriteDocuments(t_snapshot_start, last_buffer_timestamp - t_snapshot_start,
                         postcoh_document)
      BY <1>2, <2>3 DEF WriteOutputFile
    <3> QED
      BY <2>1, <2>3, <3>1, <3>2, WriteApart DEF StartsApart
  <2> QED
    BY <2>2, <2>3
<1>3. CASE AppsinkNewBuffer \/ ClusterStep \/ Done \/ UNCHANGED vars
  <2>1. UNCHANGED <<zerolag_files, t_snapshot_start>> /\ (pc' # "done" => pc # "done")
    BY <1>3 DEF AppsinkNewBuffer, NewBuffer, OldBuffer, ClusterStep, NoEventInWindow,
       SlideToPeak, EmitCandidate, EmitAvailable, InLoop, loopUnchanged, Done, vars,
       snapshotVars
  <2> QED
    BY <2>1 DEF StartsApart
<1> QED
  BY <1>1, <1>2, <1>3 DEF Next

\* Documents that start apart have names of their own, given a prefix.
LEMMA NamesApart ==
  ASSUME OutputPrefix, StartsApart
  PROVE  Saved = Recorded
<1>1. \A f, g \in zerolag_files : ZerolagsFilestem(f) = ZerolagsFilestem(g) => f = g
  BY DEF ZerolagsFilestem, StartsApart
<1>2. OnDisk = zerolag_files
  BY <1>1 DEF OnDisk
<1> QED
  BY <1>2 DEF Saved, Recorded

\* With a prefix, run_snapshot moves rows and segments to files of new names and no
\* later snapshot, nor the end of the run, loses one of them.  Without it a snapshot
\* takes the name of the last one, and this is false.
THEOREM SnapshotsKeepAll ==
  ASSUME OutputPrefix
  PROVE  Spec => SnapshotsLoseNothing
<1> DEFINE Inv == Distinct /\ TypeInv /\ StartsApart
<1>1. Init => Inv
  <2>1. Init => StartsApart
    BY DEF Init, StartsApart
  <2> QED
    BY <2>1, DistinctInit, TypeInit
<1>2. Inv /\ [Next]_vars => Inv'
  BY DistinctStep, TypeStep, ApartStep
<1>3. Inv /\ [Next]_vars =>
        [/\ Saved \subseteq Saved'
         /\ \A ifo \in Ifos : LiveTime(ifo) \subseteq LiveTime(ifo)']_vars
  <2> SUFFICES ASSUME Inv, [Next]_vars
               PROVE  /\ Saved \subseteq Saved'
                      /\ \A ifo \in Ifos : LiveTime(ifo) \subseteq LiveTime(ifo)'
    OBVIOUS
  <2>1. Saved = Recorded
    BY NamesApart
  <2>2. StartsApart'
    BY <1>2
  <2>3. Saved' = Recorded'
    <3>1. \A f, g \in zerolag_files' :
            ZerolagsFilestem(f) = ZerolagsFilestem(g) => f = g
      BY <2>2 DEF ZerolagsFilestem, StartsApart
    <3>2. OnDisk' = zerolag_files'
      BY <3>1 DEF OnDisk, ZerolagsFilestem
    <3> QED
      BY <3>2 DEF Saved, Recorded
  <2> QED
    BY <2>1, <2>3, StepKeeps
<1> QED
  BY <1>1, <1>2, <1>3, PTL DEF Spec, SnapshotsLoseNothing

-----------------------------------------------------------------------------
(* The selection of triggers.                                              *)

\* How far the window reaches: not far behind the bound of the last buffer, before
\* which nothing more arrives, and not far before anything undecided.
Bounds ==
  /\ num_current_buffers = 0 => is_first_event
  /\ is_first_event => Undecided = {} /\ InHand = {}
  /\ ClusterAvailable => candidate = {}
  /\ ClusterWindow > 0 /\ ~is_first_event =>
       /\ cluster_boundary <= buffer.max_cluster_boundary + ClusterWindow
       /\ \A x \in cur_event_table \union InHand : cluster_boundary - Reach <= x.end
       /\ \A row \in candidate : \A x \in cur_event_table \union InHand :
            row.end - EndTimeSlack <= x.end

SelectionInv == SeparationInv /\ Distinct /\ Bounds /\ DropJustified

-----------------------------------------------------------------------------
(* Facts about the order and the times.                                    *)

\* The types of the times that are compared.
LEMMA TimeTypes ==
  ASSUME TypeOK
  PROVE  /\ \A x \in Undecided \union InHand \union Recorded : x \in Triggers /\ x.end \in Int
         /\ cluster_boundary \in Int /\ buffer.max_cluster_boundary \in Int
         /\ Reach \in Nat /\ EndTimeSlack \in Nat /\ ClusterWindow \in Nat
         /\ BufferDuration \in Nat
         /\ Reach = ClusterWindow + BufferDuration + EndTimeSlack
  BY EndType, TimesAssumption DEF TypeOK, Undecided, InHand, Recorded, Reach

\* is_better_event decides between any two triggers, and transitively.
LEMMA BetterTotal ==
  ASSUME NEW x \in Triggers, NEW y \in Triggers, x # y
  PROVE  IsBetter(x, y) \/ IsBetter(y, x)
<1>1. /\ x.end \in Int /\ x.cohsnr \in Int /\ x.bankid \in Int /\ x.tmplt_idx \in Int
      /\ y.end \in Int /\ y.cohsnr \in Int /\ y.bankid \in Int /\ y.tmplt_idx \in Int
  BY TriggersAssumption DEF Trigger
<1>2. ~(x.end = y.end /\ x.bankid = y.bankid /\ x.tmplt_idx = y.tmplt_idx)
  BY TriggersAssumption
<1> QED
  BY <1>1, <1>2 DEF IsBetter

\* is_better_event orders triggers transitively.
LEMMA BetterTransitive ==
  ASSUME NEW x \in Triggers, NEW y \in Triggers, NEW z \in Triggers,
         IsBetter(x, y), IsBetter(y, z)
  PROVE  IsBetter(x, z)
<1>1. \A t \in {x, y, z} : /\ t.end \in Int /\ t.cohsnr \in Int
                          /\ t.bankid \in Int /\ t.tmplt_idx \in Int
  BY TriggersAssumption DEF Trigger
<1> QED
  BY <1>1 DEF IsBetter

-----------------------------------------------------------------------------
(* The window's reach.                                                     *)

\* The sink starts with no window and nothing dropped.
LEMMA InitSelection == Init => SelectionInv
<1> SUFFICES ASSUME Init PROVE SelectionInv
  OBVIOUS
<1>1. SeparationInv /\ Distinct
  BY SeparationInit, DistinctInit
<1>2. Bounds /\ DropJustified
  BY DEF Init, Bounds, Undecided, InHand, DropJustified, Dropped
<1> QED
  BY <1>1, <1>2 DEF SelectionInv

\* A new buffer is not behind the bound of the last one.  The first event
\* opens a window that reaches over its buffer.
LEMMA NewBufferBounds ==
  ASSUME SelectionInv, NEW ts \in Timestamps, NEW b \in Banks,
         NEW newevents \in SUBSET MayContain(b, ts), NEW live,
         NewBuffer(ts, b, newevents, live), TypeOK'
  PROVE  Bounds'
<1> DEFINE now == ts + NegativeLatency
           max == buffer'.max_cluster_boundary
<1>1. /\ now \in Int /\ max \in Int /\ max \in {now, now + BufferDuration}
      /\ \A x \in newevents : x.end \in Int /\ now - EndTimeSlack <= x.end
  <2>1. SeparationInv
    BY DEF SelectionInv
  <2>2. /\ ts + NegativeLatency \in Int
        /\ buffer'.max_cluster_boundary = ts + NegativeLatency
             + (IF HaveLatestBuffers(num_current_buffers') THEN BufferDuration ELSE 0)
        /\ \A x \in newevents : /\ x.end \in Int
                               /\ ts + NegativeLatency - EndTimeSlack <= x.end
    BY <2>1, NewBufferBound
  <2>3. now \in Int
    BY <2>2
  <2>4. max = now \/ max = now + BufferDuration
    BY <2>2, <2>3
  <2>5. ASSUME NEW x \in newevents
        PROVE  x.end \in Int /\ now - EndTimeSlack <= x.end
    BY <2>2, TimesAssumption, TimestampsAssumption
  <2> HIDE DEF now, max
  <2> QED
    BY <2>3, <2>4, <2>5, TimesAssumption
<1> USE DEF SelectionInv, SeparationInv
<1>2. /\ candidate' = candidate
      /\ cur_event_table' \union InHand' \subseteq cur_event_table \union newevents
      /\ \/ is_first_event' = is_first_event /\ cluster_boundary' = cluster_boundary
           /\ (is_first_event => newevents = {})
         \/ /\ is_first_event /\ ~is_first_event'
            /\ cluster_boundary' = max + ClusterWindow
  BY NewBufferBound DEF NewBuffer, InHand, TypeOK
<1>3. num_current_buffers' > 0 /\ num_current_buffers' # 0
  BY DEF NewBuffer, IsNewer, TypeOK
<1>4. num_current_buffers > 0 => buffer.max_cluster_boundary <= now
  BY NextBuffer DEF NewBuffer
<1> HIDE DEF max, now
<1>5. is_first_event' => Undecided' = {} /\ InHand' = {}
  BY <1>2 DEF Bounds, Undecided
<1>6. CASE is_first_event /\ ~is_first_event' /\ cluster_boundary' = max + ClusterWindow
  <2>1. candidate' = {} /\ cur_event_table' \union InHand' \subseteq newevents
    BY <1>2, <1>6 DEF Bounds, Undecided
  <2>2. cluster_boundary' <= max + ClusterWindow
    BY <1>1, <1>6, TimesAssumption
  <2>3. ASSUME NEW x \in newevents PROVE cluster_boundary' - Reach <= x.end
    BY <1>1, <1>6, TimesAssumption DEF Reach
  <2> QED
    BY <1>3, <1>5, <1>6, <2>1, <2>2, <2>3 DEF Bounds, max
<1>7. CASE is_first_event' = is_first_event /\ cluster_boundary' = cluster_boundary
             /\ (is_first_event => newevents = {})
  <2> SUFFICES ASSUME ClusterWindow > 0, ~is_first_event'
               PROVE  /\ cluster_boundary' <= max + ClusterWindow
                      /\ \A x \in cur_event_table \union newevents :
                           cluster_boundary - Reach <= x.end
                      /\ \A row \in candidate : \A x \in cur_event_table \union newevents :
                           row.end - EndTimeSlack <= x.end
    BY <1>2, <1>3, <1>5, <1>7 DEF Bounds, max
  <2>1. /\ ~is_first_event /\ num_current_buffers > 0
        /\ cluster_boundary <= buffer.max_cluster_boundary + ClusterWindow
    BY <1>7, BanksCount DEF Bounds, TypeOK
  <2>2. /\ cluster_boundary <= now + ClusterWindow /\ now <= max
        /\ cluster_boundary \in Int /\ buffer.max_cluster_boundary <= now
    BY <1>1, <1>4, <2>1, TimeTypes
  <2>3. cluster_boundary' <= max + ClusterWindow
    BY <1>1, <1>7, <2>2, TimesAssumption
  <2>4. ASSUME NEW x \in newevents PROVE cluster_boundary - Reach <= x.end
    BY <1>1, <2>2, TimesAssumption DEF Reach
  <2>5. ASSUME NEW row \in candidate, NEW x \in newevents
        PROVE  row.end - EndTimeSlack <= x.end
    <3>1. cluster_boundary = row.end + ClusterWindow /\ row.end \in Int
      BY TimeTypes DEF WindowsClosed, Bounds, Undecided
    <3> QED
      BY <1>1, <2>2, <3>1, TimesAssumption
  <2> QED
    BY <2>1, <2>3, <2>4, <2>5 DEF Bounds
<1> QED
  BY <1>2, <1>6, <1>7

\* The rest of the handler only moves triggers into the table.
LEMMA FinishBounds ==
  ASSUME SelectionInv, FinishBuffer
  PROVE  Bounds'
<1> USE DEF SelectionInv
<1>1. /\ UNCHANGED <<is_first_event, cluster_boundary, candidate, buffer,
                     num_current_buffers>>
      /\ InHand' = {}
  BY FinishPlaces DEF FinishBuffer, inputVars
<1>2. CASE ClusterWindow > 0
  <2>1. cur_event_table' = cur_event_table \union InHand
    BY <1>2, FinishPlaces
  <2> QED
    BY <1>1, <2>1 DEF Bounds, Undecided
<1>3. CASE ClusterWindow = 0
  <2>1. cur_event_table' = {} /\ candidate' = {}
    BY <1>1, <1>3, FinishPlaces DEF Distinct
  <2> QED
    BY <1>1, <1>3, <2>1 DEF Bounds, Undecided
<1> QED
  BY <1>2, <1>3, TimesAssumption

\* What a loop iteration finds.
LEMMA LoopFacts ==
  ASSUME SelectionInv, ClusterStep
  PROVE  /\ ~is_first_event /\ ~is_first_event' /\ ClusterWindow > 0
         /\ cluster_boundary <= buffer.max_cluster_boundary
         /\ UNCHANGED <<buffer, num_current_buffers, arrived>> /\ InHand' = InHand
         /\ num_current_buffers # 0 /\ LoopShape
         /\ \A x \in InHand : cluster_boundary - EndTimeSlack <= x.end
         /\ \A x \in InWindow : x \in cur_event_table /\ x.end <= cluster_boundary
         /\ \A x \in cur_event_table \ InWindow : x.end > cluster_boundary
<1> USE DEF SelectionInv, SeparationInv
<1>1. candidate \intersect cur_event_table = {} /\ \A r, s \in candidate : r = s
  BY DEF Distinct
<1>2. LoopShape
  BY <1>1, ClusterShape
<1>3. /\ InLoop /\ UNCHANGED <<buffer, num_current_buffers, arrived, is_first_event>>
      /\ InHand' = InHand
  BY <1>2, LoopDistinct DEF LoopShape, loopUnchanged, inputVars
<1>4. /\ ~is_first_event /\ ClusterWindow > 0
      /\ cluster_boundary <= buffer.max_cluster_boundary
  BY <1>3, TimeTypes DEF InLoop, LoopContinues
<1>5. num_current_buffers # 0
  BY <1>3 DEF InLoop, BufferBound
<1>6. ASSUME NEW x \in InHand PROVE cluster_boundary - EndTimeSlack <= x.end
  <2>1. buffer.max_cluster_boundary - EndTimeSlack <= x.end
    BY DEF BufferBound
  <2> QED
    BY <1>4, <2>1, TimeTypes
<1>7. /\ \A x \in InWindow : x \in cur_event_table /\ x.end <= cluster_boundary
      /\ \A x \in cur_event_table \ InWindow : x.end > cluster_boundary
  BY TimeTypes DEF InWindow, UpTo, Undecided
<1> QED
  BY <1>2, <1>3, <1>4, <1>5, <1>6, <1>7

\* A window that moves on to one that starts no later than its end.
LEMMA LoopBounds ==
  ASSUME SelectionInv, ClusterStep
  PROVE  Bounds'
<1> USE DEF SelectionInv, SeparationInv
<1>1. CASE ~SlideToPeak
  <2>1. /\ cluster_boundary' = cluster_boundary + ClusterWindow
        /\ cur_event_table' \subseteq cur_event_table \ InWindow
        /\ candidate' = {}
    BY <1>1 DEF ClusterStep, NoEventInWindow, EmitCandidate, EmitAvailable, Bounds
  <2>2. cluster_boundary' <= buffer.max_cluster_boundary + ClusterWindow
    BY <2>1, LoopFacts, TimeTypes
  <2>3. ASSUME NEW x \in cur_event_table' \union InHand
        PROVE  cluster_boundary' - Reach <= x.end
    <3>1. x.end \in Int /\ cluster_boundary - EndTimeSlack <= x.end
      BY <2>1, LoopFacts, TimeTypes DEF Undecided
    <3> QED
      BY <2>1, <3>1, TimeTypes
  <2> QED
    BY <2>1, <2>2, <2>3, LoopFacts DEF Bounds
<1>2. CASE SlideToPeak
  <2>1. PICK peak \in InWindow :
          candidate' = {peak} /\ cluster_boundary' = peak.end + ClusterWindow
    BY <1>2 DEF SlideToPeak
  <2>2. cur_event_table' = cur_event_table \ InWindow /\ ~ClusterAvailable
    BY <1>2 DEF SlideToPeak
  <2>3. peak.end \in Int /\ peak.end <= cluster_boundary
    BY LoopFacts, TimeTypes DEF Undecided
  <2>4. cluster_boundary' <= buffer.max_cluster_boundary + ClusterWindow
    BY <2>1, <2>3, LoopFacts, TimeTypes
  <2>5. ASSUME NEW x \in cur_event_table' \union InHand
        PROVE  cluster_boundary' - Reach <= x.end /\ peak.end - EndTimeSlack <= x.end
    <3>1. x.end \in Int /\ cluster_boundary - EndTimeSlack <= x.end
      BY <2>2, LoopFacts, TimeTypes DEF Undecided
    <3> QED
      BY <2>1, <2>3, <3>1, TimeTypes
  <2> QED
    BY <2>1, <2>2, <2>4, <2>5, LoopFacts DEF Bounds
<1> QED
  BY <1>1, <1>2

-----------------------------------------------------------------------------
(* What is dropped.                                                        *)

Near(x, y) == x.end - y.end <= Reach /\ y.end - x.end <= Reach

\* Two of the triggers in the window are near each other, and near the candidate.
LEMMA WindowNear ==
  ASSUME SelectionInv, ClusterStep
  PROVE  /\ \A x, y \in InWindow : Near(x, y)
         /\ ~ClusterAvailable =>
              \A x \in InWindow, row \in candidate : Near(x, row) /\ Near(row, x)
<1> USE DEF SelectionInv, SeparationInv
<1>1. ASSUME NEW x \in InWindow
      PROVE  x.end \in Int /\ cluster_boundary - Reach <= x.end /\ x.end <= cluster_boundary
  BY LoopFacts, TimeTypes DEF Bounds, Undecided
<1>2. \A x, y \in InWindow : Near(x, y)
  BY <1>1, TimeTypes DEF Near
<1>3. ASSUME ~ClusterAvailable, NEW x \in InWindow, NEW row \in candidate
      PROVE  Near(x, row) /\ Near(row, x)
  <2>1. cluster_boundary = row.end + ClusterWindow
    BY <1>3, LoopFacts DEF WindowsClosed
  <2>2. row.end - EndTimeSlack <= x.end /\ row.end \in Int
    BY LoopFacts, TimeTypes DEF Bounds, Undecided
  <2> QED
    BY <1>1, <2>1, <2>2, TimeTypes DEF Near
<1> QED
  BY <1>2, <1>3

\* The best of the window justifies what else is purged, the new candidate the old
\* one, and the recorded candidate everything in its window.
LEMMA LoopJustified ==
  ASSUME SelectionInv, ClusterStep, NEW e \in Undecided \ Undecided', e \notin Recorded'
  PROVE  \E d \in arrived : IsBetter(d, e) /\ Near(e, d)
<1> USE DEF SelectionInv, SeparationInv
<1>0. /\ Undecided \subseteq arrived /\ Undecided \subseteq Triggers
      /\ candidate \intersect cur_event_table = {} /\ \A r, s \in candidate : r = s
      /\ InWindow \subseteq Undecided /\ candidate \subseteq Undecided
  BY TimeTypes DEF Distinct, InWindow, UpTo, Undecided
<1>1. ASSUME NEW row, RecordCandidate(row) PROVE row \in Recorded'
  BY <1>1, RecordAdds DEF Recorded
<1>2. CASE NoEventInWindow
  <2>1. cur_event_table' = cur_event_table
    BY <1>2 DEF NoEventInWindow
  <2>2. e \in candidate /\ candidate' # candidate
    BY <2>1 DEF Undecided
  <2>3. \E row \in candidate : RecordCandidate(row)
    BY <1>2, <2>2 DEF NoEventInWindow
  <2> QED
    BY <1>0, <1>1, <2>2, <2>3
<1>3. CASE SlideToPeak
  <2>1. PICK peak \in InWindow :
          /\ IsPeak(peak, InWindow) /\ candidate' = {peak}
          /\ \A row \in candidate : IsBetter(peak, row)
    BY <1>3 DEF SlideToPeak
  <2>2. cur_event_table' = cur_event_table \ InWindow /\ ~ClusterAvailable
    BY <1>3 DEF SlideToPeak
  <2>3. e \in candidate \/ e \in InWindow \ {peak}
    BY <2>1, <2>2 DEF Undecided
  <2>4. IsBetter(peak, e)
    BY <2>1, <2>3 DEF IsPeak
  <2>5. Near(e, peak)
    BY <2>2, <2>3, WindowNear
  <2> QED
    BY <1>0, <2>4, <2>5
<1>4. CASE EmitCandidate
  <2>1. PICK peak \in InWindow :
          /\ IsPeak(peak, InWindow)
          /\ \E row \in candidate : ~IsBetter(peak, row) /\ RecordCandidate(row)
    BY <1>4 DEF EmitCandidate
  <2>2. PICK row \in candidate : ~IsBetter(peak, row) /\ RecordCandidate(row)
    BY <2>1
  <2>3. cur_event_table' = cur_event_table \ InWindow /\ candidate' = {} /\ ~ClusterAvailable
    BY <1>4 DEF EmitCandidate
  <2>4. e # row
    BY <1>1, <2>2
  <2>5. e \in InWindow
    BY <1>0, <2>2, <2>3, <2>4 DEF Undecided
  <2>6. peak # row /\ peak \in Triggers /\ row \in Triggers /\ e \in Triggers
    BY <1>0, LoopFacts
  <2>7. IsBetter(row, peak)
    BY <2>2, <2>6, BetterTotal
  <2>8. IsBetter(row, e)
    <3>1. CASE e = peak
      BY <2>7, <3>1
    <3>2. CASE e # peak
      <4>1. IsBetter(peak, e)
        BY <2>1, <2>5, <3>2 DEF IsPeak
      <4> QED
        BY <2>6, <2>7, <4>1, BetterTransitive
    <3> QED
      BY <3>1, <3>2
  <2>9. Near(e, row)
    BY <2>3, <2>5, WindowNear
  <2> QED
    BY <1>0, <2>8, <2>9
<1>5. CASE EmitAvailable
  <2>1. candidate' = candidate /\ cur_event_table' = cur_event_table \ InWindow
    BY <1>5 DEF EmitAvailable
  <2>2. e \in InWindow
    BY <2>1 DEF Undecided
  <2>3. PICK peak \in InWindow : IsPeak(peak, InWindow) /\ RecordCandidate(peak)
    BY <1>5, <2>2 DEF EmitAvailable
  <2>4. e # peak
    BY <1>1, <2>3
  <2>5. IsBetter(peak, e) /\ Near(e, peak)
    BY <2>2, <2>3, <2>4, WindowNear DEF IsPeak
  <2> QED
    BY <1>0, <2>5
<1> QED
  BY <1>2, <1>3, <1>4, <1>5 DEF ClusterStep

\* A step that keeps what is recorded and what is held keeps what is dropped.
LEMMA JustifiedKept ==
  ASSUME DropJustified, Dropped' \subseteq Dropped, arrived \subseteq arrived'
  PROVE  DropJustified'
<1> SUFFICES ASSUME NEW e \in Dropped'
             PROVE  \E d \in arrived' : /\ IsBetter(d, e)
                                       /\ e.end - d.end <= Reach /\ d.end - e.end <= Reach
  BY DEF DropJustified
<1> QED
  BY DEF DropJustified

\* What a loop iteration drops is beaten by the candidate it keeps, nearby.
LEMMA LoopDrops ==
  ASSUME SelectionInv, ClusterStep
  PROVE  /\ DropJustified' /\ arrived' = arrived /\ Dropped \subseteq Dropped'
         /\ \A e \in Dropped' \ Dropped : \E d \in arrived : IsBetter(d, e) /\ Near(e, d)
<1> USE DEF SelectionInv
<1>1. /\ arrived' = arrived /\ InHand' = InHand /\ Undecided' \subseteq Undecided
      /\ Recorded \subseteq Recorded' /\ Recorded' \subseteq Recorded \union Undecided
  <2>1. LoopShape /\ arrived' = arrived /\ InHand' = InHand
    BY LoopFacts
  <2> QED
    BY <2>1 DEF LoopShape, Recorded, loopUnchanged
<1>2. Dropped \subseteq Dropped'
  BY <1>1 DEF Dropped
<1>3. ASSUME NEW e \in Dropped' \ Dropped
      PROVE  \E d \in arrived : IsBetter(d, e) /\ Near(e, d)
  <2>1. e \in Undecided \ Undecided' /\ e \notin Recorded'
    BY <1>1 DEF Dropped
  <2> QED
    BY <2>1, LoopJustified
<1>4. DropJustified'
  <2>1. ASSUME NEW e \in Dropped'
        PROVE  \E d \in arrived : IsBetter(d, e) /\ Near(e, d)
    BY <1>3 DEF DropJustified, Near
  <2> QED
    BY <1>1, <2>1 DEF DropJustified, Near
<1> QED
  BY <1>1, <1>2, <1>3, <1>4

\* What arrives is held; with that nothing is dropped.
LEMMA NewBufferDrops ==
  ASSUME NEW ts, NEW b, NEW newevents, NEW live, NewBuffer(ts, b, newevents, live),
         Recorded \union Undecided \union InHand \subseteq arrived,
         newevents \intersect arrived = {}
  PROVE  /\ arrived' = arrived \union newevents /\ Recorded' = Recorded
         /\ Dropped' = Dropped
<1>1. /\ arrived' = arrived \union newevents /\ Recorded' = Recorded
      /\ candidate' = candidate /\ InHand = {}
  BY DEF NewBuffer, snapshotVars, Recorded, InHand
<1>2. \/ cur_event_table' = cur_event_table /\ InHand' = newevents
      \/ cur_event_table' = cur_event_table \union newevents /\ InHand' = {}
  <2>1. CASE HaveLatestBuffers(num_current_buffers')
    BY <2>1 DEF NewBuffer, InHand
  <2>2. CASE ~HaveLatestBuffers(num_current_buffers')
    BY <2>2 DEF NewBuffer, InHand
  <2> QED
    BY <2>1, <2>2
<1>3. Undecided' \union InHand' = Undecided \union InHand \union newevents
  BY <1>1, <1>2 DEF Undecided
<1> QED
  BY <1>1, <1>3 DEF Dropped

\* The rest of the handler drops nothing.
LEMMA FinishDrops ==
  ASSUME Distinct, FinishBuffer
  PROVE  /\ arrived' = arrived /\ Dropped' \subseteq Dropped
         /\ ClusterWindow > 0 => Dropped' = Dropped /\ Recorded' = Recorded
<1>1. CASE ClusterWindow > 0
  <2>1. Undecided' \union InHand' = Undecided \union InHand
    BY <1>1, FinishPlaces DEF Undecided
  <2> QED
    BY <1>1, <2>1, FinishPlaces DEF Dropped
<1>2. CASE ClusterWindow = 0
  <2>1. /\ Recorded' = Recorded \union InBuffer /\ arrived' = arrived
        /\ candidate = {} /\ cur_event_table \subseteq InBuffer /\ InHand \subseteq InBuffer
    BY <1>2, FinishPlaces DEF Distinct, InHand, InBuffer
  <2>2. Dropped' \subseteq Dropped
    BY <2>1 DEF Dropped, Undecided
  <2> QED
    BY <1>2, <2>1, <2>2
<1> QED
  BY <1>1, <1>2, TimesAssumption

\* The other steps change neither what is held nor what is recorded.
LEMMA QuietStep ==
  ASSUME Distinct,
         \/ WriteOutputFile \/ (\E ts \in Timestamps : OldBuffer(ts))
         \/ Done \/ UNCHANGED vars
  PROVE  /\ UNCHANGED <<clusterVars, buffer, num_current_buffers, arrived,
                         current_timestamp, trigger_control_doc>>
         /\ Recorded' = Recorded /\ Undecided' = Undecided /\ InHand' = InHand
         /\ Dropped' = Dropped
         /\ pc' = pc \/ (pc = "idle" /\ pc' = "done")
<1>1. /\ UNCHANGED <<clusterVars, buffer, num_current_buffers, arrived,
                     current_timestamp, trigger_control_doc>>
      /\ pc' = pc \/ (pc = "idle" /\ pc' = "done")
  <2>1. CASE WriteOutputFile
    BY <2>1 DEF WriteOutputFile, inputVars
  <2>2. CASE \E ts \in Timestamps : OldBuffer(ts)
    BY <2>2 DEF OldBuffer
  <2>3. CASE Done \/ UNCHANGED vars
    BY <2>3 DEF Done, vars, inputVars
  <2> QED
    BY <2>1, <2>2, <2>3
<1>2. Undecided' = Undecided /\ InHand' = InHand
  BY <1>1 DEF Undecided, InHand, clusterVars
<1>3. Recorded' = Recorded
  <2>1. CASE WriteOutputFile
    BY <2>1, WriteDistinct
  <2>2. CASE (\E ts \in Timestamps : OldBuffer(ts)) \/ Done \/ UNCHANGED vars
    BY <2>2 DEF OldBuffer, Done, vars, snapshotVars, Recorded
  <2> QED
    BY <2>1, <2>2
<1> QED
  BY <1>1, <1>2, <1>3 DEF Dropped

\* Every step keeps the invariant.
LEMMA SelectionStep == SelectionInv /\ [Next]_vars => SelectionInv'
<1> SUFFICES ASSUME SelectionInv, [Next]_vars PROVE SelectionInv'
  OBVIOUS
<1> USE DEF SelectionInv
<1>1. SeparationInv' /\ Distinct'
  BY SeparationStep, DistinctStep
<1>2. CASE ClusterStep
  BY <1>1, <1>2, LoopBounds, LoopDrops
<1>3. CASE FinishBuffer
  BY <1>1, <1>3, FinishBounds, FinishDrops, JustifiedKept
<1>4. ASSUME NEW ts \in Timestamps, NEW b \in Banks,
             NEW newevents \in SUBSET MayContain(b, ts), NEW live \in SUBSET Ifos,
             NewBuffer(ts, b, newevents, live)
      PROVE  SelectionInv'
  <2>1. TypeOK'
    BY <1>1 DEF SeparationInv
  <2>2. Bounds'
    BY <1>4, <2>1, NewBufferBounds
  <2>3. /\ Recorded \union Undecided \union InHand \subseteq arrived
        /\ newevents \intersect arrived = {}
    BY <1>4 DEF Distinct, NewBuffer, InHand, InBuffer, MayContain
  <2>4. Dropped' = Dropped /\ arrived \subseteq arrived'
    BY <1>4, <2>3, NewBufferDrops
  <2>5. DropJustified'
    BY <2>4, JustifiedKept
  <2> QED
    BY <1>1, <2>2, <2>5
<1>5. CASE WriteOutputFile \/ (\E ts \in Timestamps : OldBuffer(ts)) \/ Done \/ UNCHANGED vars
  <2>1. /\ UNCHANGED <<clusterVars, buffer, num_current_buffers, arrived>>
        /\ Recorded' = Recorded /\ Undecided' = Undecided /\ InHand' = InHand
        /\ Dropped' = Dropped
    BY <1>5, QuietStep
  <2>2. Bounds'
    BY <2>1 DEF Bounds, clusterVars
  <2>3. DropJustified'
    BY <2>1, JustifiedKept
  <2> QED
    BY <1>1, <2>2, <2>3
<1> QED
  BY <1>2, <1>3, <1>4, <1>5 DEF Next, AppsinkNewBuffer

\* cluster_and_process_significant_triggers: a trigger is given up only in favour of a
\* better one that ended near it, in every mode and however the banks' buffers come.
THEOREM DropsAreJustified == Spec => []DropJustified
<1>1. SelectionInv => DropJustified
  BY DEF SelectionInv
<1> QED
  BY <1>1, InitSelection, SelectionStep, PTL DEF Spec

-----------------------------------------------------------------------------
(* The implementation.                                                     *)

\* The sink's initial state is the selection's.
LEMMA SelectionInitial == Init => Selection!SelectionInit
  BY DEF Init, Selection!SelectionInit, Recorded, Dropped, Undecided, InHand

\* A loop iteration decides.
LEMMA LoopDecides ==
  ASSUME SelectionInv, SeparationInv', ClusterStep, ClusterWindow > 0, ~ClusterAvailable
  PROVE  Selection!Decide
<1> USE DEF SelectionInv
<1>1. /\ arrived' = arrived /\ Dropped \subseteq Dropped'
      /\ \A e \in Dropped' \ Dropped : \E d \in arrived : IsBetter(d, e) /\ Near(e, d)
  BY LoopDrops
<1>2. Selection!Drop
  BY <1>1 DEF Selection!Drop, Selection!Near, Near, Dropped
<1>3. Selection!Record \/ UNCHANGED Recorded
  <2>1. LoopShape
    BY LoopFacts
  <2>2. CASE postcoh_document' = postcoh_document
    BY <2>1, <2>2 DEF LoopShape, loopUnchanged, Recorded
  <2>3. ASSUME NEW row \in Undecided \ Undecided',
               postcoh_document' = postcoh_document \union {row}
        PROVE  Selection!Record
    <3>1. Recorded' = Recorded \union {row}
      BY <2>1, <2>3 DEF LoopShape, loopUnchanged, Recorded
    <3>2. row \in arrived \ (Recorded \union Dropped)
      BY DEF Distinct, RecordedOnce, Dropped
    <3>3. \A d \in Recorded :
            \/ row.end + ClusterWindow - EndTimeSlack <= d.end
            \/ d.end + ClusterWindow - EndTimeSlack <= row.end
      BY <3>1, <3>2 DEF SeparationInv, Separation
    <3>4. row.end \in Int /\ \A d \in Recorded : d.end \in Int
      BY TimeTypes DEF SeparationInv
    <3>5. \A d \in Recorded : Selection!Apart(row, d)
      BY <3>3, <3>4, TimesAssumption DEF Selection!Apart
    <3> QED
      BY <3>1, <3>2, <3>5 DEF Selection!Record
  <2> QED
    BY <2>1, <2>2, <2>3 DEF LoopShape
<1> QED
  BY <1>1, <1>2, <1>3 DEF Selection!Decide

\* Every step of the sink is one of the selection, or none.
LEMMA StepSelects ==
  ASSUME SelectionInv, SeparationInv', [Next]_vars, ClusterWindow > 0, ~ClusterAvailable
  PROVE  [Selection!SelectionNext]_(Selection!selectionVars)
<1> USE DEF SelectionInv
<1>1. CASE ClusterStep
  BY <1>1, LoopDecides DEF Selection!SelectionNext
<1>2. CASE FinishBuffer
  BY <1>2, FinishDrops DEF Selection!selectionVars
<1>3. ASSUME NEW ts \in Timestamps, NEW b \in Banks,
             NEW newevents \in SUBSET MayContain(b, ts), NEW live \in SUBSET Ifos,
             NewBuffer(ts, b, newevents, live)
      PROVE  Selection!Arrive
  <2>1. /\ Recorded \union Undecided \union InHand \subseteq arrived
        /\ newevents \intersect arrived = {} /\ newevents \subseteq Triggers
    BY <1>3 DEF Distinct, NewBuffer, InHand, InBuffer, MayContain
  <2>2. arrived' = arrived \union newevents /\ Recorded' = Recorded /\ Dropped' = Dropped
    BY <1>3, <2>1, NewBufferDrops
  <2>3. arrived \subseteq Triggers
    BY DEF SeparationInv, TypeOK
  <2> QED
    BY <2>1, <2>2, <2>3 DEF Selection!Arrive
<1>4. CASE WriteOutputFile \/ (\E ts \in Timestamps : OldBuffer(ts)) \/ Done \/ UNCHANGED vars
  BY <1>4, QuietStep DEF Selection!selectionVars
<1> QED
  BY <1>1, <1>2, <1>3, <1>4 DEF Next, AppsinkNewBuffer, Selection!SelectionNext

\* The final sink, where it clusters over a window, implements the abstract selection:
\* it records triggers one at a time and apart, and drops only beaten ones.
THEOREM SinkSelects ==
  ASSUME ClusterWindow > 0, ~ClusterAvailable
  PROVE  Spec => ImplementsSelection
<1>1. SelectionInv => SeparationInv
  BY DEF SelectionInv
<1>2. SelectionInv /\ SeparationInv' /\ [Next]_vars =>
        [Selection!SelectionNext]_(Selection!selectionVars)
  BY StepSelects
<1> QED
  BY <1>1, <1>2, InitSelection, SelectionStep, SelectionInitial, PTL
     DEF Spec, ImplementsSelection, Selection!Spec
-----------------------------------------------------------------------------
(* The trigger control.                                                    *)

\* A set of natural numbers up to n that is not empty has a greatest one.
LEMMA Greatest ==
  ASSUME NEW n \in Nat, NEW S \in SUBSET (1..n), S # {}
  PROVE  \E i \in S : \A j \in S : j <= i
<1> DEFINE T == {k \in Nat : n - k \in S}
           R == OpToRel(<, Nat)
<1>1. R = {ss \in Nat \X Nat : ss[1] < ss[2]}
  BY Zenon DEF OpToRel
<1>2. IsWellFoundedOn(R, Nat)
  BY NatLessThanWellFounded, Zenon
<1>3. T \in SUBSET Nat /\ T # {}
  <2>1. PICK i \in S : TRUE
    OBVIOUS
  <2>2. n - i \in Nat /\ n - (n - i) = i
    BY <2>1
  <2> QED
    BY <2>1, <2>2
<1> HIDE DEF R
<1>4. PICK k \in T : \A l \in T : <<l, k>> \notin R
  BY <1>2, <1>3, WFMin
<1>5. ASSUME NEW j \in S
      PROVE  j <= n - k
  <2>1. n - j \in T /\ k \in Nat /\ n - j \in Nat
    <3>1. n - j \in Nat /\ n - (n - j) = j
      OBVIOUS
    <3> QED
      BY <3>1
  <2>2. ~(<<n - j, k>>[1] < <<n - j, k>>[2])
    BY <1>1, <1>4, <2>1
  <2> QED
    BY <2>1, <2>2
<1> QED
  BY <1>5

\* What is not too late where the sink clusters: nothing in the available triggers'
\* mode, less than a window otherwise.
NoneLate == EndTimeSlack <= (IF ClusterAvailable THEN 0 ELSE ClusterWindow)

\* In the available triggers' mode too, what is recorded was in a window now over, and
\* what is undecided lies behind it, less the slack.
Forward ==
  ClusterWindow > 0 /\ ClusterAvailable =>
    /\ \A c \in Recorded : c.end <= buffer.max_cluster_boundary
    /\ \A c \in Recorded, x \in Undecided \union InHand : c.end - EndTimeSlack <= x.end

ForwardInv == SelectionInv /\ Forward

\* The invariant survives a new buffer, which is not behind the bound of the last one.
LEMMA NewBufferForward ==
  ASSUME ForwardInv, NEW ts \in Timestamps, NEW b \in Banks,
         NEW newevents \in SUBSET MayContain(b, ts), NEW live,
         NewBuffer(ts, b, newevents, live), TypeOK'
  PROVE  Forward'
<1> USE DEF ForwardInv, SelectionInv, SeparationInv
<1> DEFINE now == ts + NegativeLatency
<1>1. /\ Recorded' = Recorded
      /\ Undecided' \union InHand' \subseteq Undecided \union newevents
  BY NewBufferBound DEF NewBuffer, snapshotVars, Recorded, Undecided, InHand
<1>2. /\ now \in Int /\ buffer'.max_cluster_boundary \in Int
      /\ now <= buffer'.max_cluster_boundary
      /\ \A x \in newevents : x.end \in Int /\ now - EndTimeSlack <= x.end
  <2>1. /\ ts + NegativeLatency \in Int
        /\ buffer'.max_cluster_boundary = ts + NegativeLatency
             + (IF HaveLatestBuffers(num_current_buffers') THEN BufferDuration ELSE 0)
        /\ \A x \in newevents : /\ x.end \in Int
                               /\ ts + NegativeLatency - EndTimeSlack <= x.end
    BY NewBufferBound
  <2>2. /\ now \in Int
        /\ \/ buffer'.max_cluster_boundary = now
           \/ buffer'.max_cluster_boundary = now + BufferDuration
    BY <2>1
  <2>3. ASSUME NEW x \in newevents
        PROVE  x.end \in Int /\ now - EndTimeSlack <= x.end
    BY <2>1, TimesAssumption, TimestampsAssumption
  <2> HIDE DEF now
  <2> QED
    BY <2>2, <2>3, TimesAssumption
<1>3. CASE num_current_buffers = 0
  BY <1>1, <1>3 DEF BufferBound, Forward
<1>4. CASE num_current_buffers # 0
  <2>1. buffer.max_cluster_boundary <= now
    BY <1>4, BanksCount, NextBuffer DEF NewBuffer, TypeOK
  <2> HIDE DEF now
  <2> SUFFICES ASSUME ClusterWindow > 0, ClusterAvailable, NEW c \in Recorded
               PROVE  /\ c.end <= buffer'.max_cluster_boundary
                      /\ \A x \in Undecided \union newevents :
                           c.end - EndTimeSlack <= x.end
    BY <1>1 DEF Forward
  <2>2. /\ c.end \in Int /\ buffer.max_cluster_boundary \in Int
        /\ c.end <= buffer.max_cluster_boundary /\ EndTimeSlack \in Nat
    BY TimeTypes DEF Forward
  <2>3. ASSUME NEW x \in newevents PROVE c.end - EndTimeSlack <= x.end
    BY <1>2, <2>1, <2>2
  <2> QED
    BY <1>2, <2>1, <2>2, <2>3 DEF Forward
<1> QED
  BY <1>3, <1>4

\* The invariant survives an iteration: the best of the window ends by its boundary,
\* what stays in the table behind it.
LEMMA LoopForward ==
  ASSUME ForwardInv, ClusterStep
  PROVE  Forward'
<1> USE DEF ForwardInv, SelectionInv, SeparationInv
<1> SUFFICES ASSUME ClusterAvailable PROVE Forward'
  BY DEF Forward
<1>1. EmitAvailable
  BY DEF ClusterStep, NoEventInWindow, SlideToPeak, EmitCandidate
<1>2. \/ Recorded' = Recorded
      \/ \E peak \in InWindow : Recorded' = Recorded \union {peak}
  BY <1>1, RecordAdds DEF EmitAvailable, Recorded, loopUnchanged
<1>3. /\ Undecided' = cur_event_table \ InWindow /\ InHand' = InHand
      /\ buffer' = buffer
  BY <1>1, LoopFacts DEF EmitAvailable, Undecided, Bounds
<1>4. ASSUME NEW peak \in InWindow
      PROVE  /\ peak.end <= buffer.max_cluster_boundary
             /\ \A x \in (cur_event_table \ InWindow) \union InHand :
                  peak.end - EndTimeSlack <= x.end
  <2>1. /\ peak \in cur_event_table /\ peak.end <= cluster_boundary
        /\ cluster_boundary <= buffer.max_cluster_boundary
        /\ \A x \in InHand : cluster_boundary - EndTimeSlack <= x.end
        /\ \A x \in cur_event_table \ InWindow : x.end > cluster_boundary
    BY LoopFacts
  <2>2. /\ peak.end \in Int /\ cluster_boundary \in Int /\ EndTimeSlack \in Nat
        /\ buffer.max_cluster_boundary \in Int
        /\ \A x \in cur_event_table \union InHand : x.end \in Int
    BY <2>1, TimeTypes DEF Undecided
  <2> QED
    BY <2>1, <2>2
<1> QED
  BY <1>2, <1>3, <1>4 DEF Forward, Undecided

\* Every step keeps the invariant.
LEMMA ForwardStep == ForwardInv /\ [Next]_vars => ForwardInv'
<1> SUFFICES ASSUME ForwardInv, [Next]_vars PROVE ForwardInv'
  OBVIOUS
<1> USE DEF ForwardInv
<1>1. SelectionInv'
  BY SelectionStep
<1>2. TypeOK'
  BY <1>1 DEF SelectionInv, SeparationInv
<1>3. CASE FinishBuffer
  <2> SUFFICES ASSUME ClusterWindow > 0 PROVE Forward'
    BY <1>1 DEF Forward
  <2>1. RunSnapshot(postcoh_document)
    BY <1>3 DEF FinishBuffer
  <2>2. Recorded' = Recorded
    BY <2>1, SnapshotRecorded DEF Recorded
  <2>3. /\ cur_event_table' = cur_event_table \union InHand /\ InHand' = {}
        /\ candidate' = candidate /\ buffer' = buffer
    BY <1>3, FinishPlaces DEF FinishBuffer, SelectionInv
  <2> QED
    BY <2>2, <2>3 DEF Forward, Undecided
<1>4. CASE WriteOutputFile \/ (\E ts \in Timestamps : OldBuffer(ts)) \/ Done \/ UNCHANGED vars
  <2>1. buffer' = buffer /\ Recorded' = Recorded /\ Undecided' = Undecided /\ InHand' = InHand
    BY <1>4, QuietStep DEF SelectionInv
  <2> QED
    BY <1>1, <2>1 DEF Forward
<1> QED
  BY <1>1, <1>2, <1>3, <1>4, NewBufferForward, LoopForward DEF Next, AppsinkNewBuffer

\* What is undecided ends no earlier than what was recorded.
LEMMA OnlyForward ==
  ASSUME ForwardInv, NoneLate, ClusterWindow > 0,
         NEW c \in Recorded, NEW x \in Undecided \union InHand
  PROVE  c.end <= x.end
<1> USE DEF ForwardInv, SelectionInv, SeparationInv
<1>1. c.end \in Int /\ x.end \in Int /\ EndTimeSlack \in Nat /\ ClusterWindow \in Nat
  BY TimeTypes
<1>2. CASE ClusterAvailable
  BY <1>1, <1>2 DEF Forward, NoneLate
<1>3. CASE ~ClusterAvailable
  <2>1. c.end + ClusterWindow - EndTimeSlack <= x.end
    BY <1>3 DEF WindowsClosed
  <2> QED
    BY <1>1, <1>3, <2>1 DEF NoneLate
<1> QED
  BY <1>2, <1>3

Line == [end : Int, far : Int, submitted : BOOLEAN]

\* The lines of trigger_control.txt are of recorded triggers, in the order of their
\* ends, and submitted FARs improve.
Controlled ==
  /\ trigger_control_doc \in Seq(Line)
  /\ \A i \in DOMAIN trigger_control_doc :
       \E c \in Recorded : trigger_control_doc[i].end = c.end
  /\ \A i, j \in DOMAIN trigger_control_doc :
       i < j => trigger_control_doc[i].end <= trigger_control_doc[j].end
  /\ SubmittedImprove

\* The last submitted line is one, and none after it is.
LEMMA LastIsSubmitted ==
  ASSUME NEW doc \in Seq(Line), NEW i \in DOMAIN doc, doc[i].submitted
  PROVE  \E k \in DOMAIN doc :
           LastSubmitted(doc) = doc[k] /\ doc[k].submitted /\ i <= k
<1> DEFINE submitted == {k \in DOMAIN doc : doc[k].submitted}
           last == CHOOSE k \in submitted : \A j \in submitted : j <= k
<1>1. i \in submitted /\ submitted \subseteq 1..Len(doc) /\ Len(doc) \in Nat
  OBVIOUS
<1>2. \E k \in submitted : \A j \in submitted : j <= k
  <2> HIDE DEF submitted
  <2> QED
    BY <1>1, Greatest
<1>3. last \in submitted /\ \A j \in submitted : j <= last
  BY <1>2
<1>4. LastSubmitted(doc) = doc[last]
  BY <1>1 DEF LastSubmitted
<1> QED
  BY <1>1, <1>3, <1>4

\* A line for a trigger that ends after all recorded ones: the control compares it
\* with the last submitted line, and that one with those before.
LEMMA RecordControlled ==
  ASSUME Controlled, NEW row \in Triggers, RecordCandidate(row),
         Recorded' = Recorded \union {row}, \A c \in Recorded : c.end <= row.end
  PROVE  Controlled'
<1> DEFINE doc == trigger_control_doc
           n == Len(doc)
           line == [end |-> row.end, far |-> row.far,
                    submitted |-> ~TriggerControlRequired(row, doc)]
<1>0. row.end \in Int /\ row.far \in Int
  BY TriggersAssumption DEF Trigger
<1>1. CASE ~IsSignificant(row)
  <2>1. doc' = doc
    BY <1>1 DEF RecordCandidate
  <2>2. Recorded \subseteq Recorded'
    OBVIOUS
  <2> QED
    BY <2>1, <2>2 DEF Controlled, SubmittedImprove
<1>2. CASE IsSignificant(row)
  <2>1. doc' = Append(doc, line) /\ doc \in Seq(Line)
    BY <1>2 DEF RecordCandidate, Controlled
  <2>2. /\ line.end = row.end /\ line.far = row.far
        /\ line.submitted = ~TriggerControlRequired(row, doc)
    OBVIOUS
  <2>3. line \in Line
    <3>1. (~TriggerControlRequired(row, doc)) \in BOOLEAN
      BY Zenon
    <3> QED
      BY <1>0, <3>1, Zenon DEF Line
  <2> HIDE DEF line
  <2>4. /\ n \in Nat /\ DOMAIN doc = 1..n /\ DOMAIN doc' = 1..(n + 1)
        /\ doc' \in Seq(Line) /\ doc'[n + 1] = line
        /\ \A i \in 1..n : doc'[i] = doc[i] /\ doc[i] \in Line
    BY <2>1, <2>3
  <2>5. \A i \in 1..n : doc[i].end <= row.end /\ doc[i].end \in Int /\ doc[i].far \in Int
    BY <2>4 DEF Controlled, Line
  <2>6. \A i \in DOMAIN doc' : \E c \in Recorded' : doc'[i].end = c.end
    BY <2>2, <2>4 DEF Controlled
  <2>7. \A i, j \in DOMAIN doc' : i < j => doc'[i].end <= doc'[j].end
    <3> SUFFICES ASSUME NEW i \in 1..(n + 1), NEW j \in 1..(n + 1), i < j
                 PROVE  doc'[i].end <= doc'[j].end
      BY <2>4
    <3>1. i \in 1..n /\ doc'[i] = doc[i]
      BY <2>4
    <3>2. CASE j = n + 1
      BY <2>2, <2>4, <2>5, <3>1, <3>2
    <3>3. CASE j # n + 1
      BY <2>4, <3>1, <3>3 DEF Controlled
    <3> QED
      BY <3>2, <3>3
  <2>8. SubmittedImprove'
    <3> SUFFICES ASSUME NEW i \in 1..(n + 1), NEW j \in 1..(n + 1), i < j,
                        doc'[i].submitted, doc'[j].submitted,
                        doc'[j].end - doc'[i].end < RecentSpan
                 PROVE  doc'[j].far <= doc'[i].far
      BY <2>4 DEF SubmittedImprove
    <3>1. i \in 1..n /\ doc'[i] = doc[i]
      BY <2>4
    <3>2. CASE j # n + 1
      BY <2>4, <3>1, <3>2 DEF Controlled, SubmittedImprove
    <3>3. CASE j = n + 1
      <4>0. doc \in Seq(Line) /\ i \in DOMAIN doc /\ doc[i].submitted
        BY <2>1, <2>4, <3>1
      <4>1. PICK k \in 1..n : LastSubmitted(doc) = doc[k] /\ doc[k].submitted /\ i <= k
        <5> HIDE DEF doc
        <5> QED
          BY <2>4, <4>0, LastIsSubmitted
      <4>2. /\ doc[i].end <= doc[k].end /\ doc[k].end <= row.end
            /\ doc[i].end \in Int /\ doc[k].end \in Int
            /\ doc[i].far \in Int /\ doc[k].far \in Int
        <5>1. i = k \/ i < k
          BY <3>1, <4>1
        <5>2. i < k => doc[i].end <= doc[k].end
          BY <4>0, <4>1, <2>4 DEF Controlled
        <5> QED
          BY <2>5, <3>1, <4>1, <5>1, <5>2
      <4>3. ~TriggerControlRequired(row, doc) /\ row.end - doc[i].end < RecentSpan
        BY <2>2, <2>4, <3>1, <3>3
      <4>4. doc # <<>>
        BY <2>4, <3>1
      <4>5. row.far <= doc[k].far
        BY <1>0, <4>1, <4>2, <4>3, <4>4, ControlAssumption DEF TriggerControlRequired
      <4>6. doc[k].far <= doc[i].far
        <5>1. CASE i = k
          BY <4>2, <5>1
        <5>2. CASE i # k
          <6>1. i < k /\ doc[k].end - doc[i].end < RecentSpan
            BY <1>0, <3>1, <4>1, <4>2, <4>3, <5>2, ControlAssumption
          <6> QED
            BY <2>4, <3>1, <4>1, <6>1 DEF Controlled, SubmittedImprove
        <5> QED
          BY <5>1, <5>2
      <4> QED
        BY <1>0, <2>2, <2>4, <3>1, <3>3, <4>2, <4>5, <4>6
    <3> QED
      BY <3>2, <3>3
  <2> QED
    BY <2>4, <2>6, <2>7, <2>8 DEF Controlled
<1> QED
  BY <1>1, <1>2

\* Every step keeps the control.
LEMMA ControlledStep ==
  ASSUME NoneLate, ForwardInv, Controlled, [Next]_vars
  PROVE  Controlled'
<1> USE DEF ForwardInv, SelectionInv
<1>1. ASSUME UNCHANGED trigger_control_doc, Recorded \subseteq Recorded'
      PROVE  Controlled'
  BY <1>1 DEF Controlled, SubmittedImprove
<1>2. CASE ClusterStep
  <2>1. ASSUME NEW row \in Undecided, RecordCandidate(row)
        PROVE  Controlled'
    <3>1. Recorded' = Recorded \union {row}
      BY <1>2, <2>1, RecordAdds, LoopFacts
         DEF Recorded, LoopShape, loopUnchanged
    <3>2. row \in Triggers
      BY DEF Undecided, SeparationInv, TypeOK
    <3>3. \A c \in Recorded : c.end <= row.end
      BY <1>2, LoopFacts, OnlyForward
    <3> QED
      BY <2>1, <3>1, <3>2, <3>3, RecordControlled
  <2>2. CASE UNCHANGED <<postcoh_document, trigger_control_doc>>
    <3>1. Recorded' = Recorded
      BY <1>2, <2>2, LoopFacts DEF Recorded, LoopShape, loopUnchanged
    <3> QED
      BY <1>1, <2>2, <3>1
  <2> QED
    BY <1>2, <2>1, <2>2
       DEF ClusterStep, NoEventInWindow, SlideToPeak, EmitCandidate, EmitAvailable,
           Undecided, InWindow, UpTo
<1>3. CASE FinishBuffer
  <2>1. Recorded \subseteq Recorded'
    BY <1>3, SnapshotRecorded DEF FinishBuffer, Recorded
  <2> QED
    BY <1>1, <1>3, <2>1 DEF FinishBuffer
<1>4. CASE \E ts \in Timestamps, b \in Banks :
             \E newevents \in SUBSET MayContain(b, ts), live \in SUBSET Ifos :
               NewBuffer(ts, b, newevents, live)
  BY <1>1, <1>4 DEF NewBuffer, Recorded, snapshotVars
<1>5. CASE WriteOutputFile \/ (\E ts \in Timestamps : OldBuffer(ts)) \/ Done \/ UNCHANGED vars
  BY <1>1, <1>5, QuietStep
<1> QED
  BY <1>2, <1>3, <1>4, <1>5 DEF Next, AppsinkNewBuffer

\* record_candidate and __is_trigger_control_required: where triggers do not come
\* later than their windows, of two submissions less than RecentSpan apart the later
\* has no higher FAR, over any run of candidates and in both modes.
THEOREM SubmissionsImprove == NoneLate => (Spec => []SubmittedImprove)
<1> SUFFICES ASSUME NoneLate PROVE Spec => []SubmittedImprove
  OBVIOUS
<1>1. Init => ForwardInv /\ Controlled
  <2> SUFFICES ASSUME Init PROVE ForwardInv /\ Controlled
    OBVIOUS
  <2>1. SelectionInv
    BY InitSelection
  <2>2. Recorded = {} /\ trigger_control_doc = <<>>
    BY DEF Init, Recorded
  <2> QED
    BY <2>1, <2>2 DEF ForwardInv, Forward, Controlled, SubmittedImprove
<1>2. ForwardInv /\ Controlled /\ [Next]_vars => ForwardInv' /\ Controlled'
  BY ForwardStep, ControlledStep
<1>3. Controlled => SubmittedImprove
  BY DEF Controlled
<1> QED
  BY <1>1, <1>2, <1>3, PTL DEF Spec

-----------------------------------------------------------------------------
(* Deciding in the second of arrival.                                      *)

\* The available triggers' mode where windows are as long as buffers and the buffers
\* of all banks start on one grid of that length.
InStep ==
  /\ ClusterAvailable /\ ClusterWindow = BufferDuration
  /\ \A s, t \in Timestamps : (t - s) % BufferDuration = 0

\* The boundary keeps to the grid of the buffers.  When the last bank's buffer of a
\* timestamp has moved it past the end of that buffer, the whole table was in a window.
Decided ==
  /\ is_first_event => Recorded = {}
  /\ num_current_buffers # 0 => \A x \in cur_event_table \union InHand :
       x.end < current_timestamp + NegativeLatency + BufferDuration
  /\ ~is_first_event => \E k \in Int :
       cluster_boundary = current_timestamp + NegativeLatency + k * BufferDuration
  /\ pc # "clustering" /\ ~is_first_event =>
       cluster_boundary > buffer.max_cluster_boundary
  /\ HaveLatestBuffers(num_current_buffers) /\ Recorded # {}
       /\ cluster_boundary > buffer.max_cluster_boundary => cur_event_table = {}

\* Two times on the grid are whole buffers apart.
LEMMA OnGrid ==
  ASSUME InStep, NEW s \in Timestamps, NEW t \in Timestamps
  PROVE  \E k \in Int : t = s + k * BufferDuration
<1>1. t \in Int /\ s \in Int /\ BufferDuration \in Nat \ {0}
  BY TimestampsAssumption, TimesAssumption
<1>2. t - s = BufferDuration * ((t - s) \div BufferDuration) + ((t - s) % BufferDuration)
  BY <1>1
<1>3. (t - s) % BufferDuration = 0 /\ (t - s) \div BufferDuration \in Int
  BY <1>1 DEF InStep
<1> QED
  BY <1>1, <1>2, <1>3

\* Less than a grid step back is no step.
LEMMA NoPartialStep ==
  ASSUME NEW d \in Nat \ {0}, NEW k \in Int, k * d <= 0, k * d + d > 0
  PROVE  k * d = 0
<1>1. CASE k <= -1
  <2>1. k * d <= -d
    BY <1>1
  <2> QED
    BY <2>1
<1>2. CASE k >= 0
  <2>1. k * d >= 0
    BY <1>2
  <2> QED
    BY <2>1
<1> QED
  BY <1>1, <1>2

\* A new buffer opens the first window on the grid; an open window ends by the end
\* of the buffer that makes its timestamp complete.
LEMMA NewBufferDecided ==
  ASSUME InStep, SelectionInv, Decided, NEW ts \in Timestamps, NEW b \in Banks,
         NEW newevents \in SUBSET MayContain(b, ts), NEW live,
         NewBuffer(ts, b, newevents, live), TypeOK'
  PROVE  Decided'
<1> USE DEF SelectionInv, SeparationInv
<1> DEFINE now == ts + NegativeLatency
           max == buffer'.max_cluster_boundary
<1>1. /\ Recorded' = Recorded /\ pc' = "clustering" /\ current_timestamp' = ts
      /\ cur_event_table' \union InHand' \subseteq Undecided \union InHand \union newevents
      /\ \/ is_first_event' = is_first_event /\ cluster_boundary' = cluster_boundary
         \/ /\ is_first_event /\ ~is_first_event'
            /\ cluster_boundary' = max + ClusterWindow
  BY NewBufferBound
     DEF NewBuffer, snapshotVars, Recorded, Undecided, InHand, TypeOK
<1>2. /\ now \in Int
      /\ max \in {now, now + BufferDuration}
      /\ HaveLatestBuffers(num_current_buffers') => max = now + BufferDuration
  <2>1. /\ ts + NegativeLatency \in Int
        /\ buffer'.max_cluster_boundary = ts + NegativeLatency
             + (IF HaveLatestBuffers(num_current_buffers') THEN BufferDuration ELSE 0)
    BY NewBufferBound
  <2> QED
    BY <2>1
<1>3. /\ BufferDuration \in Nat \ {0} /\ ClusterWindow = BufferDuration
      /\ ts \in Int /\ NegativeLatency \in Int
  BY TimesAssumption, TimestampsAssumption DEF InStep
<1>4. num_current_buffers = 0 \/ num_current_buffers > 0
  BY BanksCount DEF TypeOK
<1>5. num_current_buffers > 0 =>
        /\ current_timestamp \in Timestamps /\ current_timestamp \in Int
        /\ current_timestamp <= ts /\ buffer.max_cluster_boundary <= now
  <2> SUFFICES ASSUME num_current_buffers > 0
               PROVE  /\ current_timestamp \in Timestamps /\ current_timestamp \in Int
                      /\ current_timestamp <= ts /\ buffer.max_cluster_boundary <= now
    OBVIOUS
  <2>1. current_timestamp \in Timestamps /\ current_timestamp \in Int
    BY TimestampsAssumption DEF BufferBound
  <2>2. IsNewer(ts) \/ (ts = current_timestamp /\ b \notin delivered)
    BY DEF NewBuffer
  <2>3. current_timestamp <= ts
    BY <1>3, <1>4, <2>1, <2>2 DEF IsNewer
  <2> QED
    BY <2>1, <2>2, <2>3, NextBuffer
<1>6. num_current_buffers = 0 => is_first_event /\ Undecided = {} /\ InHand = {}
  BY DEF Bounds
<1>7. \A x \in newevents : x.end \in Int /\ x.end < ts + NegativeLatency + BufferDuration
  BY EndType DEF MayContain
<1> HIDE DEF max, now
<1>8. ASSUME NEW x \in cur_event_table' \union InHand'
      PROVE  x.end < ts + NegativeLatency + BufferDuration
  <2>1. CASE x \in newevents
    BY <1>7, <2>1
  <2>2. CASE x \notin newevents
    <3>1. x \in cur_event_table \union InHand /\ num_current_buffers > 0
      BY <1>1, <1>4, <1>6, <2>2 DEF Undecided, Bounds, InStep
    <3>2. x.end < current_timestamp + NegativeLatency + BufferDuration /\ x.end \in Int
      BY <3>1, TimeTypes DEF Decided, Undecided
    <3> QED
      BY <1>3, <1>5, <3>1, <3>2
  <2> QED
    BY <2>1, <2>2
<1>9. CASE is_first_event' = is_first_event /\ cluster_boundary' = cluster_boundary
  <2> SUFFICES ASSUME ~is_first_event
               PROVE  /\ \E k \in Int : cluster_boundary = now + k * BufferDuration
                      /\ HaveLatestBuffers(num_current_buffers') =>
                           ~(cluster_boundary > max)
    BY <1>1, <1>8, <1>9 DEF Decided, now, max
  <2>1. num_current_buffers > 0
    BY <1>4, <1>6
  <2>2. PICK j \in Int :
          cluster_boundary = current_timestamp + NegativeLatency + j * BufferDuration
    BY DEF Decided
  <2>3. PICK m \in Int : current_timestamp = ts + m * BufferDuration
    BY <1>5, <2>1, OnGrid
  <2>4. cluster_boundary = now + (m + j) * BufferDuration
    <3>1. (m + j) * BufferDuration = m * BufferDuration + j * BufferDuration
      BY <1>3
    <3>2. m * BufferDuration \in Int /\ j * BufferDuration \in Int
      BY <1>3
    <3> QED
      BY <1>3, <2>2, <2>3, <3>1, <3>2 DEF now
  <2>5. cluster_boundary <= buffer.max_cluster_boundary + ClusterWindow
    BY <1>3 DEF Bounds
  <2>6. HaveLatestBuffers(num_current_buffers') => ~(cluster_boundary > max)
    BY <1>2, <1>3, <1>5, <2>1, <2>5, TimeTypes
  <2> QED
    BY <2>4, <2>6
<1>10. CASE /\ is_first_event /\ ~is_first_event'
            /\ cluster_boundary' = max + ClusterWindow
  <2>1. Recorded' = {}
    BY <1>1, <1>10 DEF Decided
  <2>2. \E k \in {1, 2} : cluster_boundary' = now + k * BufferDuration
    BY <1>2, <1>3, <1>10
  <2> QED
    BY <1>1, <1>8, <1>10, <2>1, <2>2 DEF Decided, now
<1> QED
  BY <1>1, <1>9, <1>10

\* An iteration that takes the boundary past the end of the last bank's buffer
\* began at that end, so the whole table was in its window.
LEMMA LoopDecided ==
  ASSUME InStep, SelectionInv, Decided, ClusterStep
  PROVE  Decided'
<1> USE DEF SelectionInv, SeparationInv
<1> DEFINE now == current_timestamp + NegativeLatency
<1>1. EmitAvailable
  BY DEF ClusterStep, NoEventInWindow, SlideToPeak, EmitCandidate, InStep
<1>2. /\ cur_event_table' = cur_event_table \ InWindow /\ InHand' = InHand
      /\ cluster_boundary' = cluster_boundary + ClusterWindow
      /\ UNCHANGED <<pc, buffer, current_timestamp, num_current_buffers, is_first_event>>
      /\ pc = "clustering" /\ ~is_first_event
      /\ cluster_boundary <= buffer.max_cluster_boundary
  BY <1>1, LoopFacts DEF EmitAvailable, loopUnchanged, inputVars, InLoop
<1>3. num_current_buffers # 0 /\ num_current_buffers > 0
      /\ current_timestamp \in Int /\ now \in Int
      /\ BufferDuration \in Nat \ {0} /\ ClusterWindow = BufferDuration
      /\ cluster_boundary \in Int
  BY LoopFacts, BanksCount, TimesAssumption DEF TypeOK, InStep
<1>4. HaveLatestBuffers(num_current_buffers) =>
        buffer.max_cluster_boundary = now + BufferDuration
  BY <1>3 DEF BufferBound
<1>5. PICK k \in Int : cluster_boundary = now + k * BufferDuration
  BY <1>2 DEF Decided
<1> HIDE DEF now
<1>6. cluster_boundary' = now + (k + 1) * BufferDuration
  <2>1. (k + 1) * BufferDuration = k * BufferDuration + BufferDuration
    BY <1>3
  <2>2. k * BufferDuration \in Int
    BY <1>3
  <2> QED
    BY <1>2, <1>3, <1>5, <2>1, <2>2
<1>7. ASSUME HaveLatestBuffers(num_current_buffers),
             cluster_boundary' > buffer.max_cluster_boundary
      PROVE  cur_event_table' = {}
  <2> DEFINE m == k - 1
  <2>1. (k - 1) * BufferDuration = k * BufferDuration - BufferDuration
        /\ k * BufferDuration \in Int
    BY <1>3
  <2>2. m * BufferDuration <= 0 /\ m * BufferDuration + BufferDuration > 0
    BY <1>2, <1>3, <1>4, <1>5, <1>7, <2>1
  <2>3. (k - 1) * BufferDuration = 0
    BY <1>3, <2>2, NoPartialStep
  <2>4. cluster_boundary = now + BufferDuration
    BY <1>3, <1>5, <2>1, <2>3
  <2>5. ASSUME NEW x \in cur_event_table PROVE x \in InWindow
    <3>1. x.end < now + BufferDuration /\ x.end \in Int
      BY <1>3, TimeTypes DEF Decided, Undecided, now
    <3> QED
      BY <1>3, <2>4, <3>1 DEF InWindow, UpTo
  <2> QED
    BY <1>2, <2>5
<1> QED
  BY <1>2, <1>3, <1>6, <1>7 DEF Decided, now

\* Every step keeps the invariant.
LEMMA DecidedStep ==
  ASSUME InStep, SelectionInv, Decided, [Next]_vars
  PROVE  Decided'
<1> USE DEF SelectionInv, SeparationInv
<1>1. TypeOK'
  BY SeparationStep
<1>2. CASE FinishBuffer
  <2>1. ClusterWindow > 0
    BY TimesAssumption DEF InStep
  <2>2. RunSnapshot(postcoh_document)
    BY <1>2, <2>1 DEF FinishBuffer
  <2>3. Recorded' = Recorded
    BY <2>2, SnapshotRecorded DEF Recorded
  <2>4. /\ cur_event_table' = cur_event_table \union InHand /\ InHand' = {}
        /\ UNCHANGED <<cluster_boundary, is_first_event, buffer, current_timestamp,
                       num_current_buffers>>
        /\ ~LoopContinues
    BY <1>2, <2>1, FinishPlaces DEF FinishBuffer, inputVars
  <2>5. ~is_first_event => cluster_boundary > buffer.max_cluster_boundary
    BY <2>1, <2>4, TimeTypes DEF LoopContinues
  <2>6. HaveLatestBuffers(num_current_buffers) => InHand = {}
    BY DEF InHand
  <2> QED
    BY <2>3, <2>4, <2>5, <2>6 DEF Decided
<1>3. CASE WriteOutputFile \/ (\E ts \in Timestamps : OldBuffer(ts)) \/ Done \/ UNCHANGED vars
  <2>1. /\ UNCHANGED <<clusterVars, buffer, num_current_buffers, current_timestamp>>
        /\ Recorded' = Recorded /\ InHand' = InHand
        /\ pc' = pc \/ (pc = "idle" /\ pc' = "done")
    BY <1>3, QuietStep
  <2> QED
    BY <2>1 DEF Decided, clusterVars
<1> QED
  BY <1>1, <1>2, <1>3, NewBufferDecided, LoopDecided DEF Next, AppsinkNewBuffer

\* cluster_and_process_significant_triggers with feature_cluster_available_triggers:
\* for any number of banks whose buffers start in step, once something was recorded
\* the last buffer of a timestamp leaves nothing undecided.
THEOREM DecidedAtOnce == InStep => (Spec => []DecidedInSecondReceived)
<1> SUFFICES ASSUME InStep PROVE Spec => []DecidedInSecondReceived
  OBVIOUS
<1>1. Init => SelectionInv /\ Decided
  <2> SUFFICES ASSUME Init PROVE SelectionInv /\ Decided
    OBVIOUS
  <2>1. Recorded = {} /\ cur_event_table = {} /\ InHand = {}
    BY DEF Init, Recorded, InHand
  <2> QED
    BY <2>1, InitSelection DEF Init, Decided
<1>2. SelectionInv /\ Decided /\ [Next]_vars => SelectionInv' /\ Decided'
  BY SelectionStep, DecidedStep
<1>3. Decided => DecidedInSecondReceived
  BY DEF Decided, DecidedInSecondReceived
<1> QED
  BY <1>1, <1>2, <1>3, PTL DEF Spec

-----------------------------------------------------------------------------
(* AppSync, through which the buffers come: that it hands them over in order *)
(* of time is what FinalSink means by InOrder.                               *)

\* What is noticed is what the slot holds, once its signal was handled.
SyncHeld ==
  \A e \in Sinks :
    /\ appsinks[e] = IF signal[e] = "new" THEN NoBuffer ELSE slot[e]
    /\ signal[e] = "new" => slot[e] # NoBuffer

\* The slot holds the buffer pushed last; a stream that ended has no more.
SyncSlots ==
  \A e \in Sinks :
    /\ slot[e] # NoBuffer => pushed[e] > 0 /\ slot[e] = Streams[e][pushed[e]]
    /\ signal[e] = "eos" => pushed[e] = Len(Streams[e])
    /\ e \in at_eos => pushed[e] = Len(Streams[e]) /\ signal[e] = "none"

\* The k-th buffer of e has still to be handed over.
IsPending(e, k) == k > pushed[e] \/ (k = pushed[e] /\ slot[e] # NoBuffer)

Before(a, b) == a[1] < b[1] \/ (a[1] = b[1] /\ a[2] # b[2])

\* What was handed over comes before all that is pending, which makes the order
\* of what is handed over inductive.
SyncOrder ==
  \A i \in DOMAIN handed, e \in Sinks : \A k \in DOMAIN Streams[e] :
    IsPending(e, k) => Before(handed[i], <<Streams[e][k], e>>)

SyncOrdered == \A i, j \in DOMAIN handed : i < j => Before(handed[i], handed[j])

SyncIInv == SyncTypeOK /\ SyncHeld /\ SyncSlots /\ SyncOrder /\ SyncOrdered

-----------------------------------------------------------------------------
\* The streams' times are natural numbers in order.
LEMMA StreamFacts ==
  ASSUME NEW e \in Sinks
  PROVE  /\ Len(Streams[e]) \in Nat /\ DOMAIN Streams[e] = 1..Len(Streams[e])
         /\ \A k \in 1..Len(Streams[e]) : Streams[e][k] \in Nat
         /\ \A j, k \in 1..Len(Streams[e]) : j < k => Streams[e][j] < Streams[e][k]
<1>1. Streams[e] \in Seq(Nat)
  BY StreamsAssumption
<1> QED
  BY <1>1, StreamsAssumption

\* There is nothing before the first buffer.
LEMMA SyncInitIInv == SyncInit => SyncIInv
<1> SUFFICES ASSUME SyncInit PROVE SyncIInv
  OBVIOUS
<1>1. SyncTypeOK
  <2>1. ASSUME NEW e \in Sinks PROVE 0 <= Len(Streams[e])
    <3>1. Len(Streams[e]) \in Nat
      BY StreamFacts
    <3> QED
      BY <3>1
  <2>2. handed \in Seq(Nat \X Sinks)
    BY DEF SyncInit
  <2> QED
    BY <2>1, <2>2 DEF SyncInit, SyncTypeOK
<1>2. SyncHeld /\ SyncSlots
  BY DEF SyncInit, SyncHeld, SyncSlots
<1>3. SyncOrder /\ SyncOrdered
  BY DEF SyncInit, SyncOrder, SyncOrdered
<1> QED
  BY <1>1, <1>2, <1>3 DEF SyncIInv

\* A buffer that is pushed was pending and stays so.
LEMMA SyncPushIInv == ASSUME SyncIInv, NEW e \in Sinks, Push(e) PROVE SyncIInv'
<1> USE DEF SyncIInv
<1>1. /\ pushed[e] \in Nat /\ pushed[e] < Len(Streams[e])
      /\ Len(Streams[e]) \in Nat
  BY StreamFacts DEF Push, SyncTypeOK
<1>2. /\ pushed[e] + 1 \in 1..Len(Streams[e]) /\ Streams[e][pushed[e] + 1] \in Nat
      /\ Streams[e][pushed[e] + 1] # NoBuffer
  BY <1>1, StreamFacts, StreamsAssumption
<1>3. SyncTypeOK'
  BY <1>1, <1>2 DEF Push, SyncTypeOK
<1>4. SyncHeld'
  BY <1>2 DEF Push, SyncTypeOK, SyncHeld
<1>5. SyncSlots'
  BY <1>1, <1>2 DEF Push, SyncTypeOK, SyncSlots
<1>6. SyncOrder'
  <2> SUFFICES ASSUME NEW i \in DOMAIN handed, NEW f \in Sinks,
                      NEW k \in DOMAIN Streams[f], IsPending(f, k)'
               PROVE  Before(handed[i], <<Streams[f][k], f>>)
    BY DEF Push, SyncOrder, Before
  <2>1. k \in Nat
    <3>1. DOMAIN Streams[f] = 1..Len(Streams[f]) /\ Len(Streams[f]) \in Nat
      BY StreamFacts
    <3> QED
      BY <3>1
  <2>2. IsPending(f, k)
    <3>1. /\ pushed'[f] = IF f = e THEN pushed[f] + 1 ELSE pushed[f]
          /\ f # e => slot'[f] = slot[f]
      BY DEF Push, SyncTypeOK
    <3>2. k > pushed'[f] \/ (k = pushed'[f] /\ slot'[f] # NoBuffer)
      BY DEF IsPending
    <3> QED
      BY <1>1, <2>1, <3>1, <3>2 DEF IsPending
  <2> QED
    BY <2>2 DEF SyncOrder
<1>7. SyncOrdered'
  BY DEF Push, SyncOrdered
<1> QED
  BY <1>3, <1>4, <1>5, <1>6, <1>7

\* The end of a stream.
LEMMA SyncEndOfStreamIInv ==
  ASSUME SyncIInv, NEW e \in Sinks, EndOfStream(e)
  PROVE  SyncIInv'
<1> USE DEF SyncIInv
<1>1. SyncTypeOK' /\ SyncHeld' /\ SyncSlots'
  BY DEF EndOfStream, SyncTypeOK, SyncHeld, SyncSlots
<1>2. SyncOrder' /\ SyncOrdered'
  BY DEF EndOfStream, SyncOrder, SyncOrdered, IsPending
<1> QED
  BY <1>1, <1>2

\* The handler notes a signal.
LEMMA SyncHandleIInv == ASSUME SyncIInv, NEW e \in Sinks, Handle(e) PROVE SyncIInv'
<1> USE DEF SyncIInv
<1>1. SyncTypeOK'
  BY DEF Handle, SyncTypeOK
<1>2. SyncHeld'
  BY DEF Handle, SyncTypeOK, SyncHeld
<1>3. SyncSlots'
  BY DEF Handle, SyncTypeOK, SyncSlots
<1>4. SyncOrder' /\ SyncOrdered'
  BY DEF Handle, SyncOrder, SyncOrdered, IsPending
<1> QED
  BY <1>1, <1>2, <1>3, <1>4

\* What is handed out comes before all that is pending: of its own sink as the
\* stream is in order, of the others because what they hold is not older, and
\* a sink that is not considered has nothing left.
LEMMA SyncOldestFirst ==
  ASSUME SyncIInv, NEW e \in Sinks, HandOut(e), NEW f \in Sinks,
         NEW k \in DOMAIN Streams[f],
         IsPending(f, k)'
  PROVE  Before(<<appsinks[e], e>>, <<Streams[f][k], f>>)
<1> USE DEF SyncIInv
<1>1. /\ appsinks[e] # NoBuffer /\ appsinks[e] = slot[e] /\ appsinks[e] \in Nat
      /\ pushed[e] > 0 /\ pushed[e] <= Len(Streams[e]) /\ pushed[e] \in Nat
      /\ appsinks[e] = Streams[e][pushed[e]]
  BY DEF HandOut, Ready, IsOldest, SyncTypeOK, SyncHeld, SyncSlots
<1>2. k \in 1..Len(Streams[f]) /\ Len(Streams[f]) \in Nat /\ Streams[f][k] \in Nat
  BY StreamFacts
<1>3. CASE f = e
  <2>1. k > pushed[e]
    BY <1>3 DEF HandOut, IsPending, SyncTypeOK
  <2>2. Streams[e][pushed[e]] < Streams[e][k]
    BY <1>1, <1>2, <1>3, <2>1, StreamFacts
  <2> QED
    BY <1>1, <1>3, <2>2 DEF Before
<1>4. CASE f # e
  <2>1. IsPending(f, k)
    BY <1>4 DEF HandOut, IsPending, SyncTypeOK
  <2>2. CASE f \in Considered
    <3>1. appsinks[f] # NoBuffer /\ appsinks[e] <= appsinks[f]
      BY <2>2 DEF HandOut, Ready, IsOldest
    <3>2. /\ appsinks[f] = Streams[f][pushed[f]] /\ pushed[f] \in 1..Len(Streams[f])
          /\ appsinks[f] \in Nat
      BY <1>2, <3>1 DEF SyncTypeOK, SyncHeld, SyncSlots
    <3>3. appsinks[f] <= Streams[f][k]
      BY <1>2, <2>1, <3>2, StreamFacts DEF IsPending
    <3> QED
      BY <1>1, <1>2, <1>4, <3>1, <3>2, <3>3 DEF Before
  <2>3. CASE f \notin Considered
    <3>1. f \in at_eos /\ appsinks[f] = NoBuffer
      BY <2>3 DEF Considered
    <3>2. pushed[f] = Len(Streams[f]) /\ slot[f] = NoBuffer
      BY <3>1 DEF SyncHeld, SyncSlots
    <3> QED
      BY <1>2, <2>1, <3>2 DEF IsPending
  <2> QED
    BY <2>2, <2>3
<1> QED
  BY <1>3, <1>4

\* A buffer is handed out.
LEMMA SyncHandOutIInv == ASSUME SyncIInv, NEW e \in Sinks, HandOut(e) PROVE SyncIInv'
<1> USE DEF SyncIInv
<1>1. /\ appsinks[e] # NoBuffer /\ appsinks[e] = slot[e] /\ appsinks[e] \in Nat
      /\ pushed[e] \in DOMAIN Streams[e] /\ appsinks[e] = Streams[e][pushed[e]]
      /\ IsPending(e, pushed[e])
  BY StreamFacts
     DEF HandOut, Ready, IsOldest, SyncTypeOK, SyncHeld, SyncSlots, IsPending
<1>2. /\ handed \in Seq(Nat \X Sinks) /\ <<appsinks[e], e>> \in Nat \X Sinks
      /\ handed' = Append(handed, <<appsinks[e], e>>)
  BY <1>1 DEF HandOut, SyncTypeOK
<1>3. /\ Len(handed) \in Nat /\ DOMAIN handed = 1..Len(handed)
      /\ DOMAIN handed' = 1..(Len(handed) + 1)
      /\ handed'[Len(handed) + 1] = <<appsinks[e], e>>
      /\ \A i \in DOMAIN handed : handed'[i] = handed[i]
  BY <1>2
<1>4. \A i \in DOMAIN handed' : i \in DOMAIN handed \/ i = Len(handed) + 1
  BY <1>3
<1>5. SyncTypeOK'
  <2>1. handed' \in Seq(Nat \X Sinks)
    BY <1>2
  <2>2. appsinks' \in [Sinks -> Nat \union {NoBuffer}]
       /\ slot' \in [Sinks -> Nat \union {NoBuffer}]
    BY DEF HandOut, SyncTypeOK
  <2>3. holder' \in Sinks \union {NoThread} /\ raised' \in BOOLEAN
    BY DEF HandOut, SyncTypeOK
  <2> QED
    BY <2>1, <2>2, <2>3 DEF HandOut, SyncTypeOK
<1>6. SyncHeld'
  BY <1>1 DEF HandOut, SyncTypeOK, SyncHeld
<1>7. SyncSlots'
  BY DEF HandOut, SyncTypeOK, SyncSlots
<1>8. SyncOrder'
  <2> SUFFICES ASSUME NEW i \in DOMAIN handed', NEW f \in Sinks,
                      NEW k \in DOMAIN Streams[f], IsPending(f, k)'
               PROVE  Before(handed'[i], <<Streams[f][k], f>>)
    BY DEF SyncOrder, Before
  <2>1. CASE i \in DOMAIN handed
    <3>1. IsPending(f, k)
      BY DEF HandOut, IsPending, SyncTypeOK
    <3> QED
      BY <1>3, <2>1, <3>1 DEF SyncOrder
  <2>2. CASE i = Len(handed) + 1
    BY <1>3, <2>2, SyncOldestFirst
  <2> QED
    BY <1>4, <2>1, <2>2
<1>9. SyncOrdered'
  <2> SUFFICES ASSUME NEW i \in DOMAIN handed', NEW j \in DOMAIN handed', i < j
               PROVE  Before(handed'[i], handed'[j])
    BY DEF SyncOrdered, Before
  <2>1. i \in DOMAIN handed
    BY <1>3
  <2>2. CASE j \in DOMAIN handed
    BY <1>3, <2>1, <2>2 DEF SyncOrdered
  <2>3. CASE j = Len(handed) + 1
    <3>1. Before(handed[i], <<Streams[e][pushed[e]], e>>)
      BY <1>1, <2>1 DEF SyncOrder
    <3> QED
      BY <1>1, <1>3, <2>1, <2>3, <3>1
  <2> QED
    BY <1>4, <2>2, <2>3
<1> QED
  BY <1>5, <1>6, <1>7, <1>8, <1>9

\* Every step preserves the invariant.
LEMMA SyncNextIInv == ASSUME SyncIInv, [SyncNext]_syncVars PROVE SyncIInv'
<1>1. CASE Release
  BY <1>1
     DEF SyncIInv, Release, SyncTypeOK, SyncHeld, SyncSlots, SyncOrder, SyncOrdered, IsPending
<1>2. CASE UNCHANGED syncVars
  BY <1>2
     DEF SyncIInv, syncVars, SyncTypeOK, SyncHeld, SyncSlots, SyncOrder, SyncOrdered, IsPending
<1>3. CASE AllEnded
  BY <1>2, <1>3 DEF AllEnded
<1>4. ASSUME NEW e \in Sinks,
             Push(e) \/ EndOfStream(e) \/ Handle(e) \/ HandOut(e)
      PROVE  SyncIInv'
  BY <1>4, SyncPushIInv, SyncEndOfStreamIInv, SyncHandleIInv, SyncHandOutIInv
<1> QED
  BY <1>1, <1>2, <1>3, <1>4 DEF SyncNext

\* The invariant holds in every reachable state.
LEMMA SyncInvariant == SyncSpec => []SyncIInv
<1> QED
  BY SyncInitIInv, SyncNextIInv, PTL DEF SyncSpec

-----------------------------------------------------------------------------
\* Every variable keeps its type.
THEOREM SyncTypeCorrect == SyncSpec => []SyncTypeOK
<1>1. SyncIInv => SyncTypeOK
  BY DEF SyncIInv
<1> QED
  BY <1>1, SyncInvariant, PTL

\* The assertion of appsink_handler never fails and what it notes is what a pull
\* will return, whatever the threads do.
THEOREM AssertionHolds ==
  SyncSpec => [](NoticedOnce /\ NoticedIsHeld)
<1>1. SyncIInv => NoticedOnce /\ NoticedIsHeld
  BY DEF SyncIInv, SyncHeld, NoticedOnce, NoticedIsHeld
<1> QED
  BY <1>1, SyncInvariant, PTL

\* Buffers are handed over in time order, for any number of branches, streams of any
\* length, any order of the threads and handlers that raise.
THEOREM HandedInOrder == SyncSpec => []TimeOrdered
<1>1. SyncIInv => TimeOrdered
  BY DEF SyncIInv, SyncOrdered, Before, TimeOrdered
<1> QED
  BY <1>1, SyncInvariant, PTL

-----------------------------------------------------------------------------
(* OnlineSink: the two together.                                           *)

\* A buffer that is taken is one of its bank's stream.
LEMMA TakenFacts ==
  ASSUME SyncIInv, NEW b \in Banks, HandOut(b)
  PROVE  /\ b \in Sinks /\ appsinks[b] \in Timestamps /\ appsinks[b] \in Nat
         /\ handed \in Seq(Nat \X Sinks)
         /\ handed' = Append(handed, <<appsinks[b], b>>)
<1>1. b \in Sinks
  BY BanksAreSinks
<1>2. /\ appsinks[b] # NoBuffer /\ appsinks[b] = slot[b] /\ appsinks[b] \in Nat
      /\ pushed[b] \in DOMAIN Streams[b] /\ appsinks[b] = Streams[b][pushed[b]]
  BY <1>1, StreamFacts
     DEF SyncIInv, HandOut, Ready, IsOldest, SyncTypeOK, SyncHeld, SyncSlots
<1>3. appsinks[b] \in Timestamps
  BY <1>2, BanksAreSinks
<1> QED
  BY <1>1, <1>2, <1>3 DEF SyncIInv, SyncTypeOK, HandOut

\* Every step of the two is a step, or a stutter, of each.
LEMMA OnlineStep ==
  ASSUME SyncIInv, [OnlineNext]_onlineVars
  PROVE  [Next]_vars /\ [SyncNext]_syncVars
<1>1. ASSUME NEW b \in Banks, Branch(b)
      PROVE  [Next]_vars /\ [SyncNext]_syncVars
  BY <1>1, BanksAreSinks DEF Branch, SyncNext
<1>2. ASSUME NEW b \in Banks, TakeBuffer(b)
      PROVE  [Next]_vars /\ [SyncNext]_syncVars
  <2>1. HandOut(b)
    BY <1>2 DEF TakeBuffer
  <2>2. b \in Sinks /\ appsinks[b] \in Timestamps
    BY <2>1, TakenFacts
  <2>3. SyncNext
    BY <2>1, <2>2 DEF SyncNext
  <2>4. ASSUME NEW newevents \in SUBSET MayContain(b, appsinks[b]),
               NewBuffer(appsinks[b], b, newevents, LiveIfos(newevents))
        PROVE  Next
    <3>1. LiveIfos(newevents) \in SUBSET Ifos /\ (newevents # {} => LiveIfos(newevents) # {})
      BY BanksAreSinks DEF LiveIfos
    <3> QED
      BY <2>2, <2>4, <3>1 DEF Next, AppsinkNewBuffer
  <2> QED
    BY <1>2, <2>3, <2>4 DEF TakeBuffer
<1>3. CASE Process
  BY <1>3 DEF Process, Next
<1>4. CASE HandlerReturns
  BY <1>4 DEF HandlerReturns, SyncNext
<1>5. CASE Shutdown
  BY <1>5 DEF Shutdown, Next
<1>6. CASE AllEnded /\ UNCHANGED vars
  BY <1>6 DEF SyncNext
<1>7. CASE UNCHANGED onlineVars
  BY <1>7 DEF onlineVars
<1> QED
  BY <1>1, <1>2, <1>3, <1>4, <1>5, <1>6, <1>7 DEF OnlineNext

\* The final sink in the online pipeline is a FinalSink, and what calls it an
\* AppSync: whatever is proved of every step of one of them holds of the two.
THEOREM OnlineImplements ==
  OnlineSpec => Spec /\ SyncInit /\ [][SyncNext]_syncVars
<1>1. OnlineInit => Init /\ SyncInit /\ SyncIInv
  BY SyncInitIInv DEF OnlineInit
<1>2. SyncIInv /\ [OnlineNext]_onlineVars => [Next]_vars /\ [SyncNext]_syncVars
  BY OnlineStep
<1>3. SyncIInv /\ [SyncNext]_syncVars => SyncIInv'
  BY SyncNextIInv
<1> QED
  BY <1>1, <1>2, <1>3, PTL DEF OnlineSpec, Spec

\* What the final sink has of the current timestamp was handed to it, which is how
\* the order of the hand-over becomes an order of the sink's timestamps.
Link ==
  \A b \in delivered :
    \E i \in DOMAIN handed : handed[i] = <<current_timestamp, b>>

\* A buffer is taken, or the handler raises.
LEMMA TakeLinks ==
  ASSUME SyncIInv, Link, NEW b \in Banks, TakeBuffer(b)
  PROVE  Link'
<1>1. /\ appsinks[b] \in Nat /\ handed \in Seq(Nat \X Sinks)
      /\ handed' = Append(handed, <<appsinks[b], b>>) /\ b \in Sinks
  BY TakenFacts DEF TakeBuffer
<1>2. /\ DOMAIN handed \subseteq DOMAIN handed'
      /\ \A i \in DOMAIN handed : handed'[i] = handed[i]
      /\ Len(handed) + 1 \in DOMAIN handed'
      /\ handed'[Len(handed) + 1] = <<appsinks[b], b>>
  <2>1. <<appsinks[b], b>> \in Nat \X Sinks
    BY <1>1
  <2> QED
    BY <1>1, <2>1
<1>3. CASE UNCHANGED vars
  <2>1. UNCHANGED <<delivered, current_timestamp>>
    BY <1>3 DEF vars, inputVars
  <2> QED
    BY <1>2, <2>1 DEF Link
<1>4. ASSUME NEW newevents,
             NewBuffer(appsinks[b], b, newevents, LiveIfos(newevents))
      PROVE  Link'
  <2>1. /\ current_timestamp' = appsinks[b]
        /\ delivered' = IF IsNewer(appsinks[b]) THEN {b} ELSE delivered \union {b}
        /\ ~IsNewer(appsinks[b]) => appsinks[b] = current_timestamp
    BY <1>4 DEF NewBuffer
  <2> SUFFICES ASSUME NEW c \in delivered'
               PROVE  \E i \in DOMAIN handed' : handed'[i] = <<current_timestamp', c>>
    BY DEF Link
  <2>2. CASE c = b
    BY <1>2, <2>1, <2>2
  <2>3. CASE c # b
    <3>1. c \in delivered /\ current_timestamp' = current_timestamp
      BY <2>1, <2>3
    <3>2. PICK i \in DOMAIN handed : handed[i] = <<current_timestamp, c>>
      BY <3>1 DEF Link
    <3> QED
      BY <1>2, <3>1, <3>2
  <2> QED
    BY <2>2, <2>3
<1> QED
  BY <1>3, <1>4 DEF TakeBuffer

\* Nothing else touches the sink's timestamp or what was handed over.
LEMMA LinkStep ==
  ASSUME SyncIInv, Link, [OnlineNext]_onlineVars
  PROVE  Link'
<1>1. ASSUME UNCHANGED <<delivered, current_timestamp, handed>>
      PROVE  Link'
  BY <1>1 DEF Link
<1>2. ASSUME NEW b \in Banks, Branch(b)
      PROVE  Link'
  BY <1>1, <1>2 DEF Branch, Push, EndOfStream, Handle, vars, inputVars
<1>3. CASE Process
  <2>1. UNCHANGED inputVars /\ UNCHANGED syncVars
    BY <1>3 DEF Process, ClusterStep, NoEventInWindow, SlideToPeak, EmitCandidate,
                EmitAvailable, FinishBuffer, loopUnchanged
  <2> QED
    BY <1>1, <2>1 DEF inputVars, syncVars
<1>4. CASE HandlerReturns
  BY <1>1, <1>4 DEF HandlerReturns, Release, vars, inputVars
<1>5. CASE Shutdown
  BY <1>1, <1>5 DEF Shutdown, WriteOutputFile, syncVars, inputVars
<1>6. CASE AllEnded /\ UNCHANGED vars
  BY <1>1, <1>6 DEF AllEnded, syncVars, vars, inputVars
<1>7. CASE UNCHANGED onlineVars
  BY <1>1, <1>7 DEF onlineVars, syncVars, vars, inputVars
<1> QED
  BY <1>2, <1>3, <1>4, <1>5, <1>6, <1>7, TakeLinks DEF OnlineNext

\* The next buffer comes after everything that was handed over, so after the sink's
\* timestamp or at it, from a bank that has not delivered yet.
LEMMA NextIsAccepted == SyncIInv /\ SeparationInv /\ Link => NeverLate
<1> SUFFICES ASSUME SyncIInv, SeparationInv, Link, NEW b \in Banks,
                    Ready, IsOldest(b), ~IsNewer(appsinks[b])
             PROVE  appsinks[b] = current_timestamp /\ b \notin delivered
  BY DEF NeverLate
<1>1. /\ b \in Sinks /\ appsinks[b] = slot[b] /\ slot[b] # NoBuffer /\ appsinks[b] \in Nat
      /\ pushed[b] \in DOMAIN Streams[b] /\ appsinks[b] = Streams[b][pushed[b]]
  <2>1. b \in Sinks
    BY BanksAreSinks
  <2> QED
    BY <2>1, StreamFacts
       DEF SyncIInv, Ready, IsOldest, SyncTypeOK, SyncHeld, SyncSlots
<1>2. ASSUME NEW c \in delivered
      PROVE  Before(<<current_timestamp, c>>, <<appsinks[b], b>>)
  <2>1. PICK i \in DOMAIN handed : handed[i] = <<current_timestamp, c>>
    BY DEF Link
  <2>2. Before(handed[i], <<Streams[b][pushed[b]], b>>)
    BY <1>1 DEF SyncIInv, SyncOrder, IsPending
  <2> QED
    BY <1>1, <2>1, <2>2
<1>3. current_timestamp \in Int /\ num_current_buffers # 0
  BY DEF IsNewer, SeparationInv, TypeOK
<1>4. appsinks[b] <= current_timestamp
  BY <1>1, <1>3 DEF IsNewer
<1>5. delivered # {}
  BY <1>3, FS_EmptySet DEF SeparationInv, BufferBound
<1>6. appsinks[b] = current_timestamp
  <2>1. PICK c \in delivered : TRUE
    BY <1>5
  <2> QED
    BY <1>1, <1>2, <1>3, <1>4, <2>1 DEF Before
<1>7. b \notin delivered
  BY <1>2, <1>3, <1>6 DEF Before
<1> QED
  BY <1>6, <1>7

\* The final sink takes every buffer AppSync hands it, for any banks and streams.
THEOREM NoneIsLate == OnlineSpec => []NeverLate
<1>1. OnlineInit => SyncIInv /\ SeparationInv /\ Link
  BY SyncInitIInv, SeparationInit DEF OnlineInit, Init, Link
<1>2. SyncIInv /\ SeparationInv /\ Link /\ [OnlineNext]_onlineVars
        => SyncIInv' /\ SeparationInv' /\ Link'
  BY OnlineStep, SyncNextIInv, SeparationStep, LinkStep
<1> QED
  BY <1>1, <1>2, NextIsAccepted, PTL DEF OnlineSpec
=============================================================================
