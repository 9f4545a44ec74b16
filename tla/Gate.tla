-------------------------------- MODULE Gate --------------------------------
(***************************************************************************)
(* The element lal_gate of gstlal_gate.c: it flags its input as a gap      *)
(* where the control input is below a threshold.  Two streaming threads,   *)
(* of the control pad and of the sink pad, share the queue of control      *)
(* segments under control_lock and wait for each other on the condition    *)
(* control_queue_head_changed: control runs only as far ahead as the sink  *)
(* needs, and the sink waits until control spans its buffer.               *)
(*                                                                         *)
(* Time is in samples of the input.  In the source of a detector the       *)
(* control input is the state vector, a stream of its own, or, in the      *)
(* h(t) gate, the input itself behind a tee, with a queue of QueueTime     *)
(* before the sink pad: then one thread feeds the queue and the control    *)
(* pad in turn.  Signals and errors of downstream are left out; so is a    *)
(* second NEWSEGMENT.                                                      *)
(***************************************************************************)
EXTENDS Integers, Sequences, FiniteSetsExt, FlagSegments

CONSTANTS
  Settings,                \* of the element, see Setting
  MaxTime,                 \* end of the streams
  MaxLength, MaxHole,      \* longest buffer, longest hole between two
  QueueTime,               \* max_size_time of the queue behind the tee
  EmptyWindows,            \* whether an input buffer may need no control at all
  ControlHoles,            \* whether there may be holes between control buffers
  None                     \* GST_CLOCK_TIME_NONE

Setting == [hold_length : Int, attack_length : Int, default_state : BOOLEAN,
            leaky : BOOLEAN, invert_control : BOOLEAN, tee : BOOLEAN]

\* mkhtgate: its queue assumes that the sink needs no more control data ahead
\* than the queue holds.
ASSUME SettingsAssumption ==
  /\ Settings \subseteq Setting
  /\ {MaxTime, MaxLength, MaxHole} \subseteq Nat /\ QueueTime \in Nat \ {0}
  /\ \A s \in Settings : s.tee =>
       -s.hold_length <= QueueTime /\ s.attack_length <= QueueTime
  /\ {EmptyWindows, ControlHoles} \subseteq BOOLEAN /\ None \notin Int

VARIABLES
  set,                     \* the properties of the element
  above,                   \* per time of the control stream, whether it is at or
                           \* above threshold, and not a gap
  control_segments, control_eos, t_sink_head, sink_eos, need_discont,
  controlpc,               \* "idle", or in its chain "ready", "asleep", "awake"
  controlbuf,              \* the control buffer, or the last one
  sinkpc,                  \* the same, or "looping" over sinkbuf
  sinkbuf,
  at,                      \* where in sinkbuf the loop is
  queued,                  \* buffers in the queue behind the tee
  out                      \* buffers pushed downstream

control == <<controlpc, controlbuf>>
sink == <<sinkpc, sinkbuf, at>>
input == <<set, above>>
vars == <<input, control_segments, control_eos, t_sink_head, sink_eos,
          need_discont, control, sink, queued, out>>

Buffer(from, to, gap, discont) ==
  [start |-> from, stop |-> to, gap |-> gap, discont |-> discont]

\* What control may say; times outside of the domain are in a hole.
ControlSignals ==
  IF ControlHoles THEN UNION {[times -> BOOLEAN] : times \in SUBSET (0..(MaxTime - 1))}
  ELSE [0..(MaxTime - 1) -> BOOLEAN]

\* After the NEWSEGMENT events.
Init ==
  /\ set \in Settings /\ above \in ControlSignals
  /\ control_segments = <<>> /\ control_eos = FALSE
  /\ t_sink_head = None /\ sink_eos = FALSE /\ need_discont = TRUE
  /\ controlpc = "idle" /\ controlbuf = Buffer(-1, 0, FALSE, FALSE)
  /\ sinkpc = "idle" /\ sinkbuf = Buffer(-1, 0, FALSE, FALSE) /\ at = 0
  /\ queued = <<>> /\ out = <<>>

\* Bound: no stream has two empty buffers in a row.
Advances(last, b) == b.start < b.stop \/ last.start < last.stop

\* Waking who waits on the condition.
Woken(pc) == IF pc = "asleep" THEN "awake" ELSE pc

\* timestamp_add_offset: no wrap-around below 0.
AddOffset(t, offset) == Max({0, t + offset})

\* The times that control must span for a buffer.
TMin(b) == AddOffset(b.start, Min({-set.hold_length, set.attack_length}))

TMax(b) == AddOffset(b.stop, Max({-set.hold_length, set.attack_length}))

\* Whether a buffer of the input is one of those modelled.
Allowed(last, b) ==
  /\ b.stop <= MaxTime /\ Advances(last, b) /\ (b.gap => b.start < b.stop)
  /\ EmptyWindows \/ TMin(b) < TMax(b)

-----------------------------------------------------------------------------
(* The control pad.                                                        *)

\* The next buffer of control, of all its times after the last one up to its end.
NextControl(hole, n, gap) ==
  LET from == controlbuf.stop + hole
  IN  /\ DOMAIN above \intersect controlbuf.stop..(from + n - 1) = from..(from + n - 1)
      /\ controlbuf' = Buffer(from, from + n, gap, hole > 0)

ControlReceive ==
  /\ controlpc = "idle" /\ ~control_eos /\ ~set.tee
  /\ \E n \in 0..MaxLength, hole \in 0..MaxHole : NextControl(hole, n, FALSE)
  /\ controlbuf'.stop <= MaxTime /\ Advances(controlbuf, controlbuf')
  /\ controlpc' = "ready"
  /\ UNCHANGED <<input, control_segments, control_eos, t_sink_head, sink_eos,
                 need_discont, sink, queued, out>>

\* The tee gives the buffer to the queue, once there is room, and then to the
\* control pad.
TeePush ==
  /\ controlpc = "idle" /\ ~control_eos /\ set.tee
  /\ queued # <<>> => Final(queued).stop - Head(queued).start < QueueTime
  /\ \E n \in 0..MaxLength, hole \in 0..MaxHole, gap \in BOOLEAN :
       /\ NextControl(hole, n, gap)
       /\ gap => \A t \in controlbuf'.start..(controlbuf'.stop - 1) : ~above[t]
  /\ Allowed(controlbuf, controlbuf')
  /\ queued' = Append(queued, controlbuf')
  /\ controlpc' = "ready"
  /\ UNCHANGED <<input, control_segments, control_eos, t_sink_head, sink_eos,
                 need_discont, sink, out>>

\* Whether the buffer is needed, or discarded.
Needed ==
  \/ sink_eos
  \/ t_sink_head # None /\ controlbuf.start < t_sink_head
  \/ control_segments = <<>>

\* Mutant: the inversion is forgotten for a gap.
FlagAtUninverted(t) == above[t]

FlagAt(t) == above[t] # set.invert_control

\* The buffer sample by sample, a gap as if it was below the threshold; a buffer of
\* no length is a heartbeat.
Digest(segs) ==
  LET Upto[t \in controlbuf.start..controlbuf.stop] ==
        IF t = controlbuf.start THEN segs
        ELSE AddSegment(Upto[t - 1],
                        [start |-> t - 1, stop |-> t, flag |-> FlagAt(t - 1)])
  IN  IF controlbuf.start = controlbuf.stop
      THEN AddSegment(segs, [start |-> controlbuf.start, stop |-> controlbuf.stop,
                             flag |-> set.invert_control])
      ELSE Upto[controlbuf.stop]

ControlChain ==
  /\ controlpc \in {"ready", "awake"}
  /\ \/ ~Needed /\ controlpc' = "asleep" /\ UNCHANGED <<control_segments, sinkpc>>
     \/ /\ Needed /\ ~sink_eos
        /\ control_segments' = Digest(control_segments)
        /\ controlpc' = "idle" /\ sinkpc' = Woken(sinkpc)
     \/ sink_eos /\ controlpc' = "idle" /\ UNCHANGED <<control_segments, sinkpc>>
  /\ UNCHANGED <<input, control_eos, t_sink_head, sink_eos, need_discont,
                 controlbuf, sinkbuf, at, queued, out>>

\* Mutant: nobody is woken.
ControlEosUnsignalled ==
  /\ controlpc = "idle" /\ ~control_eos
  /\ control_eos' = TRUE
  /\ UNCHANGED <<input, control_segments, t_sink_head, sink_eos, need_discont,
                 control, sink, queued, out>>

\* The control stream may end at any time.
ControlEos ==
  /\ controlpc = "idle" /\ ~control_eos
  /\ control_eos' = TRUE /\ sinkpc' = Woken(sinkpc)
  /\ UNCHANGED <<input, control_segments, t_sink_head, sink_eos, need_discont,
                 control, sinkbuf, at, queued, out>>

-----------------------------------------------------------------------------
(* The sink pad.                                                           *)

SinkReceive ==
  /\ sinkpc = "idle" /\ ~sink_eos
  /\ \/ /\ ~set.tee /\ UNCHANGED queued
        /\ \E n \in 0..MaxLength, hole \in 0..MaxHole, gap \in BOOLEAN :
             LET from == sinkbuf.stop + hole
             IN  /\ sinkbuf' = Buffer(from, from + n, gap, hole > 0)
                 /\ Allowed(sinkbuf, sinkbuf')
     \/ set.tee /\ queued # <<>> /\ sinkbuf' = Head(queued) /\ queued' = Tail(queued)
  /\ need_discont' = (need_discont \/ sinkbuf'.discont)
  /\ sinkpc' = "ready"
  /\ UNCHANGED <<input, control_segments, control_eos, t_sink_head, sink_eos,
                 control, at, out>>

\* control_get_interval: the head is announced once, then every turn of the
\* loop flushes what is over and waits until the rest spans the interval.
ControlGetInterval ==
  LET kept == Flushed(control_segments, TMin(sinkbuf))
  IN  /\ sinkpc \in {"ready", "awake"}
      /\ t_sink_head' = TMax(sinkbuf)
      /\ control_segments' = kept
      /\ controlpc' = IF sinkpc = "ready" THEN Woken(controlpc) ELSE controlpc
      /\ sinkpc' = IF control_eos \/ (kept # <<>> /\ Final(kept).stop >= TMax(sinkbuf))
                   THEN "looping" ELSE "asleep"
      /\ at' = sinkbuf.start
      /\ UNCHANGED <<input, control_eos, sink_eos, need_discont, controlbuf,
                     sinkbuf, queued, out>>

\* control_get_state(element, tmin, tmax).
ControlGetState(tmin, tmax) ==
  LET from   == Min({tmin, tmax})
      to     == IF tmin = tmax THEN tmin + 1 ELSE Max({tmin, tmax})
      states == {s.flag : s \in {control_segments[i] : i \in
                  {j \in DOMAIN control_segments :
                     /\ control_segments[j].stop > from
                     /\ control_segments[j].start < to
                     /\ ~IsHeartbeat(control_segments[j])}}}
  IN  IF states = {} THEN set.default_state
      ELSE IF tmax < tmin THEN FALSE \notin states ELSE TRUE \in states

State(t) ==
  ControlGetState(AddOffset(t, -set.hold_length), AddOffset(t, set.attack_length))

\* Up to where the state stays what it is at t.
RunEnd(t) ==
  Min({sinkbuf.stop} \union {u \in (t + 1)..(sinkbuf.stop - 1) : State(u) # State(t)})

Push(from, to, gap) ==
  /\ out' = Append(out, [start |-> from, stop |-> to, gap |-> gap,
                         discont |-> need_discont, was |-> sinkbuf.gap])
  /\ need_discont' = FALSE

\* Mutant: a dropped gap is not a discontinuity.
DropQuietly == UNCHANGED <<out, need_discont>>

Drop == need_discont' = TRUE /\ UNCHANGED out

\* One buffer pushed or dropped: an empty buffer or a gap as it is, any other
\* in pieces of one state.
SinkLoop ==
  /\ sinkpc = "looping"
  /\ \/ sinkbuf.start = sinkbuf.stop /\ Push(at, at, sinkbuf.gap) /\ at' = at
     \/ /\ sinkbuf.start < sinkbuf.stop /\ sinkbuf.gap
        /\ at' = sinkbuf.stop
        /\ IF set.leaky THEN Drop ELSE Push(sinkbuf.start, sinkbuf.stop, TRUE)
     \/ /\ sinkbuf.start < sinkbuf.stop /\ ~sinkbuf.gap
        /\ at' = RunEnd(at)
        /\ IF set.leaky /\ ~State(at) THEN Drop ELSE Push(at, RunEnd(at), ~State(at))
  /\ sinkpc' = IF at' = sinkbuf.stop THEN "idle" ELSE "looping"
  /\ UNCHANGED <<input, control_segments, control_eos, t_sink_head, sink_eos,
                 control, sinkbuf, queued>>

\* The end of the input, behind a tee after that of control.
SinkEos ==
  /\ sinkpc = "idle" /\ ~sink_eos
  /\ set.tee => control_eos /\ queued = <<>>
  /\ sink_eos' = TRUE
  /\ control_segments' = <<>>
  /\ controlpc' = Woken(controlpc)
  /\ UNCHANGED <<input, control_eos, t_sink_head, need_discont, controlbuf,
                 sink, queued, out>>

Finished == control_eos /\ sink_eos /\ UNCHANGED vars

ControlThread == ControlReceive \/ TeePush \/ ControlChain \/ ControlEos

SinkThread == SinkReceive \/ ControlGetInterval \/ SinkLoop \/ SinkEos

Next == ControlThread \/ SinkThread \/ Finished

Spec == Init /\ [][Next]_vars /\ WF_vars(ControlThread) /\ WF_vars(SinkThread)

-----------------------------------------------------------------------------
Pcs == {"idle", "ready", "asleep", "awake", "looping"}

TypeOK ==
  /\ set \in Settings /\ above \in ControlSignals
  /\ control_segments \in Seq(Segment) /\ control_eos \in BOOLEAN
  /\ t_sink_head \in Nat \union {None} /\ sink_eos \in BOOLEAN
  /\ need_discont \in BOOLEAN
  /\ controlpc \in Pcs \ {"looping"} /\ sinkpc \in Pcs /\ at \in 0..MaxTime
  /\ \A i \in DOMAIN out : 0 <= out[i].start /\ out[i].stop <= MaxTime

\* How far the control stream has been digested.
Digested == IF controlpc = "idle" THEN controlbuf.stop ELSE controlbuf.start

\* The times of control that the state at time t depends on: from hold before it to
\* attack after it; those that control has reached.
Window(t) ==
  LET from == AddOffset(t, -set.hold_length)
      to   == AddOffset(t, set.attack_length)
  IN  Min({from, to})..Max({from, to})

Known(t) == {u \in Window(t) : u < Digested /\ u \in DOMAIN above}

\* The documented state of the gate: open if control is above the threshold anywhere
\* in the window; with a negative hold or attack, if it is everywhere.
Open(t) ==
  IF Known(t) = {} THEN set.default_state
  ELSE IF AddOffset(t, -set.hold_length) <= AddOffset(t, set.attack_length)
  THEN \E u \in Known(t) : above[u] # set.invert_control
  ELSE \A u \in Known(t) : above[u] # set.invert_control

\* Every sample that is pushed has the flag that the documentation of the properties
\* asks for (gstlal_gate.c:1413: "Number of samples of the input stream ahead of
\* negative-to-positive threshold crossing to include in non-gap output.").
FlagsMatchControl ==
  \A i \in DOMAIN out : \A t \in out[i].start..(out[i].stop - 1) :
    out[i].gap = (out[i].was \/ ~Open(t))

\* The same where control leaves no choice: with no control the default decides, and
\* control that is one way over the whole window does, however the two threads
\* interleave, whatever their buffers' lengths and the holes between them, and
\* although segments are flushed and added while a buffer is looped over.
FlagsAgree ==
  \A i \in DOMAIN out : \A t \in out[i].start..(out[i].stop - 1) :
    IF out[i].was THEN out[i].gap
    ELSE /\ Known(t) = {} => out[i].gap = ~set.default_state
         /\ Known(t) = Window(t) => \A flag \in BOOLEAN :
              (\A u \in Window(t) : (above[u] # set.invert_control) = flag)
                => out[i].gap = ~flag

\* What is downstream sees every hole, also those of a leaky gate, as a
\* discontinuity, and nothing twice.
HolesFlagged ==
  \A i, j \in DOMAIN out : j = i + 1 =>
    /\ out[i].stop <= out[j].start
    /\ out[i].stop < out[j].start => out[j].discont

\* The control segments are in order and say what control said; the assertion
\* of control_add_segment never fails.
SegmentsTrue ==
  /\ Ordered(control_segments)
  /\ \A t \in 0..(MaxTime - 1), flag \in BOOLEAN :
       Says(control_segments, t, flag) =>
         /\ t < Digested /\ t \in DOMAIN above
         /\ flag = (above[t] # set.invert_control)

\* Neither thread waits for the other for ever: where there is no control the default
\* decides (gstlal_gate.c:1391: "Control state to assume when control input is not
\* available").
BothEnd == <>(control_eos /\ sink_eos)

\* Without holes in control, and while every input buffer needs some of it, no wake-up
\* is lost, also behind a tee: both end.
BothEndUnbroken ==
  [](DOMAIN above = 0..(MaxTime - 1) /\ (sinkpc = "idle" \/ TMin(sinkbuf) < TMax(sinkbuf)))
    => BothEnd
=============================================================================
