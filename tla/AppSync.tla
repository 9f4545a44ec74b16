------------------------------- MODULE AppSync -------------------------------
(***************************************************************************)
(* class AppSync of gstlal/python/pipeparts/__init__.py: the appsinks at   *)
(* the ends of the pipeline's branches hand their buffers to one handler,  *)
(* the oldest first.  Every appsink holds one buffer (max_buffers = 1) and *)
(* its streaming thread emits "new-buffer" or "eos" synchronously, so the  *)
(* thread is inside appsink_handler, waiting for self.lock, until its      *)
(* signal has been handled.                                                *)
(*                                                                         *)
(* The appsink itself is GStreamer's; Push and EndOfStream say what the    *)
(* class relies on.  FinalSink is what the buffers are handed to.          *)
(***************************************************************************)
EXTENDS Integers, Sequences

CONSTANTS
  Sinks,               \* the appsinks
  Streams,             \* per sink, the timestamps of the buffers it will get
  NoBuffer,            \* Python's None
  NoThread             \* nobody holds the lock

\* The buffers of one branch come in timestamp order.
ASSUME StreamsAssumption ==
  /\ Streams \in [Sinks -> Seq(Nat)]
  /\ \A e \in Sinks : \A i, j \in DOMAIN Streams[e] :
       i < j => Streams[e][i] < Streams[e][j]
  /\ NoBuffer \notin Int

VARIABLES
  appsinks,            \* self.appsinks: timestamp of the buffer noticed, or None
  at_eos,              \* self.at_eos
  slot,                \* what the appsink holds
  pushed,              \* how many buffers of the stream have been pushed
  signal,              \* "none", "new" or "eos": the signal not handled yet
  holder,              \* the sink whose streaming thread holds self.lock
  handed,              \* the (timestamp, sink) given to appsink_new_buffer
  raised               \* whether appsink_new_buffer has ever raised

syncVars == <<appsinks, at_eos, slot, pushed, signal, holder, handed, raised>>

SyncInit ==
  /\ appsinks = [e \in Sinks |-> NoBuffer]
  /\ at_eos = {}
  /\ slot = [e \in Sinks |-> NoBuffer]
  /\ pushed = [e \in Sinks |-> 0]
  /\ signal = [e \in Sinks |-> "none"]
  /\ holder = NoThread
  /\ handed = <<>> /\ raised = FALSE

\* The streaming thread of e puts its next buffer into the free slot.
Push(e) ==
  /\ signal[e] = "none" /\ holder # e /\ e \notin at_eos
  /\ slot[e] = NoBuffer
  /\ pushed[e] < Len(Streams[e])
  /\ pushed' = [pushed EXCEPT ![e] = @ + 1]
  /\ slot' = [slot EXCEPT ![e] = Streams[e][pushed[e] + 1]]
  /\ signal' = [signal EXCEPT ![e] = "new"]
  /\ UNCHANGED <<appsinks, at_eos, holder, handed, raised>>

\* The end of the stream may overtake the last buffer, which stays in the slot.
EndOfStream(e) ==
  /\ signal[e] = "none" /\ holder # e /\ e \notin at_eos
  /\ pushed[e] = Len(Streams[e])
  /\ signal' = [signal EXCEPT ![e] = "eos"]
  /\ UNCHANGED <<appsinks, at_eos, slot, pushed, holder, handed, raised>>

\* appsink_handler takes the lock and notes the buffer or the end.
Handle(e) ==
  /\ holder = NoThread /\ signal[e] # "none"
  /\ holder' = e
  /\ signal' = [signal EXCEPT ![e] = "none"]
  /\ IF signal[e] = "eos"
     THEN at_eos' = at_eos \union {e} /\ UNCHANGED appsinks
     ELSE /\ at_eos' = at_eos \ {e}
          /\ appsinks' = [appsinks EXCEPT ![e] = slot[e]]
  /\ UNCHANGED <<slot, pushed, handed, raised>>

\* Mutants: sinks without a buffer are not waited for; what a sink at EOS still
\* holds is ignored.
ConsideredWithBuffer == {e \in Sinks : appsinks[e] # NoBuffer}

ConsideredNotAtEos == Sinks \ at_eos

\* The sinks the loop looks at: not at EOS, or with a buffer still to hand out.
Considered == {e \in Sinks : e \notin at_eos \/ appsinks[e] # NoBuffer}

Ready == Considered # {} /\ \A e \in Considered : appsinks[e] # NoBuffer

\* Mutant: any buffer will do.
IsAny(e) == e \in Considered

IsOldest(e) == e \in Considered /\ \A f \in Considered : appsinks[e] <= appsinks[f]

\* One turn of the loop.  Sinks with equal timestamps are ordered by object,
\* that is, in any order.  appsink_new_buffer pulls the buffer from the slot
\* before anything else; when it raises after that the loop is left, and the
\* binding prints the exception.
HandOut(e) ==
  /\ holder # NoThread /\ Ready /\ IsOldest(e)
  /\ handed' = Append(handed, <<appsinks[e], e>>)
  /\ appsinks' = [appsinks EXCEPT ![e] = NoBuffer]
  /\ slot' = [slot EXCEPT ![e] = NoBuffer]
  /\ \/ UNCHANGED <<holder, raised>>
     \/ holder' = NoThread /\ raised' = TRUE
  /\ UNCHANGED <<at_eos, pushed, signal>>

\* An element without a buffer, or nothing left: the handler returns.
Release ==
  /\ holder # NoThread /\ ~Ready
  /\ holder' = NoThread
  /\ UNCHANGED <<appsinks, at_eos, slot, pushed, signal, handed, raised>>

\* The end; after a handler raised, branches may wait for ever before it.
AllEnded ==
  /\ at_eos = Sinks \/ raised
  /\ holder = NoThread /\ \A e \in Sinks : signal[e] = "none"
  /\ UNCHANGED syncVars

SyncNext ==
  \/ \E e \in Sinks : Push(e) \/ EndOfStream(e) \/ Handle(e) \/ HandOut(e)
  \/ Release
  \/ AllEnded

\* The branches keep running to their ends and the lock is fair.
SyncFairness ==
  /\ \A e \in Sinks : WF_syncVars(Push(e)) /\ WF_syncVars(EndOfStream(e))
                      /\ SF_syncVars(Handle(e)) /\ WF_syncVars(HandOut(e))
  /\ WF_syncVars(Release)

SyncSpec == SyncInit /\ [][SyncNext]_syncVars /\ SyncFairness

-----------------------------------------------------------------------------
SyncTypeOK ==
  /\ appsinks \in [Sinks -> Nat \union {NoBuffer}]
  /\ at_eos \subseteq Sinks
  /\ slot \in [Sinks -> Nat \union {NoBuffer}]
  /\ pushed \in [Sinks -> Nat]
  /\ \A e \in Sinks : pushed[e] <= Len(Streams[e])
  /\ signal \in [Sinks -> {"none", "new", "eos"}]
  /\ holder \in Sinks \union {NoThread}
  /\ handed \in Seq(Nat \X Sinks) /\ raised \in BOOLEAN

\* The handler's assertion, at the moment it is evaluated: no buffer of the
\* sink has been noticed when it signals a new one.
NoticedOnce == \A e \in Sinks : signal[e] = "new" => appsinks[e] = NoBuffer

\* What is noticed is what a pull returns.
NoticedIsHeld == \A e \in Sinks : appsinks[e] # NoBuffer => appsinks[e] = slot[e]

\* "handler to invoke on availability of new time-ordered buffer": buffers are
\* handed over in timestamp order, and no sink twice at one timestamp, whatever
\* order the branches produce them in, through the ends of some branches and
\* handlers that raise.  This is what FinalSink assumes when InOrder is TRUE.
TimeOrdered ==
  \A i, j \in DOMAIN handed : i < j =>
    \/ handed[i][1] < handed[j][1]
    \/ handed[i][1] = handed[j][1] /\ handed[i][2] # handed[j][2]

AllHandedOver ==
  \A e \in Sinks : \A k \in DOMAIN Streams[e] :
    \E i \in DOMAIN handed : handed[i] = <<Streams[e][k], e>>

\* No branch is held up for ever: unless a handler raises, every buffer is
\* handed over, in whatever order the branches come to their ends.
AllHandedOverEventually == <>[](raised \/ AllHandedOver)
==============================================================================
