------------------------------ MODULE OnlineSink ------------------------------
(***************************************************************************)
(* The end of the online pipeline: the branches of the banks, AppSync and  *)
(* the FinalSink it hands their buffers to.  appsink_handler calls         *)
(* appsink_new_buffer under AppSync's lock, so the final sink's handler    *)
(* runs in the streaming thread of some bank, with the other branches      *)
(* running on until they signal.  A buffer is at once a step of both       *)
(* components.                                                             *)
(***************************************************************************)
EXTENDS FinalSink, AppSync

\* Every bank ends in an appsink of its own; there are detectors.
ASSUME BanksAreSinks ==
  /\ Sinks = Banks /\ InOrder /\ Ifos # {}
  /\ \A b \in Banks : \A k \in DOMAIN Streams[b] : Streams[b][k] \in Timestamps

onlineVars == <<vars, syncVars>>

OnlineInit == Init /\ SyncInit

\* What the streaming thread of a branch does outside the final sink.
Branch(b) == (Push(b) \/ EndOfStream(b) \/ Handle(b)) /\ UNCHANGED vars

\* A buffer without events is taken for a gap here; FinalSink has it either way.
LiveIfos(newevents) == IF newevents = {} THEN {} ELSE Ifos

\* One turn of the loop: the final sink takes the oldest buffer.  The handler may
\* raise while it parses the buffer it has pulled, before it has changed anything.
TakeBuffer(b) ==
  /\ pc = "idle"
  /\ HandOut(b)
  /\ \/ /\ ~raised' \/ holder' # NoThread
        /\ \E newevents \in SUBSET MayContain(b, appsinks[b]) :
             NewBuffer(appsinks[b], b, newevents, LiveIfos(newevents))
     \/ holder' = NoThread /\ UNCHANGED vars

\* The final sink goes on with the buffer, in the thread that holds the lock.
Process == (ClusterStep \/ FinishBuffer) /\ UNCHANGED syncVars

HandlerReturns == pc = "idle" /\ Release /\ UNCHANGED vars

\* The main loop has ended with the last branch; the launch script saves what is left.
Shutdown ==
  /\ holder = NoThread /\ at_eos = Sinks /\ \A b \in Sinks : signal[b] = "none"
  /\ WriteOutputFile
  /\ UNCHANGED syncVars

OnlineNext ==
  \/ \E b \in Banks : Branch(b) \/ TakeBuffer(b)
  \/ Process
  \/ HandlerReturns
  \/ Shutdown
  \/ AllEnded /\ UNCHANGED vars

\* The branches keep running to their ends, the lock is fair, and a handler that
\* holds it is not suspended for ever.
OnlineFairness ==
  /\ \A b \in Banks :
       /\ WF_onlineVars(Push(b) /\ UNCHANGED vars)
       /\ WF_onlineVars(EndOfStream(b) /\ UNCHANGED vars)
       /\ SF_onlineVars(Handle(b) /\ UNCHANGED vars)
       /\ WF_onlineVars(TakeBuffer(b))
  /\ WF_onlineVars(Process)
  /\ WF_onlineVars(HandlerReturns)

OnlineSpec == OnlineInit /\ [][OnlineNext]_onlineVars /\ OnlineFairness

-----------------------------------------------------------------------------
(* Properties.  What the components promise is checked of the composition, *)
(* too; this is what each assumes of the other.                            *)

\* The final sink never meets a buffer older than its current timestamp, which it
\* cannot take (_update_current_timestamp raises), nor two of one bank at one
\* timestamp, which it would count as complete without the others.
NeverLate ==
  \A b \in Banks :
    holder # NoThread /\ pc = "idle" /\ Ready /\ IsOldest(b) =>
      \/ IsNewer(appsinks[b])
      \/ appsinks[b] = current_timestamp /\ b \notin delivered
==============================================================================
