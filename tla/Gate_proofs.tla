---------------------------- MODULE Gate_proofs ----------------------------
(***************************************************************************)
(* Proofs about lal_gate: what is downstream sees every hole as a          *)
(* discontinuity (gstlal_gate.c, sink_chain and push_or_drop_buffer), a    *)
(* segment added to the record of a stream adds what it says and nothing   *)
(* else (control_add_segment, flag_segments_append), the record of the     *)
(* control input says what control said, and what is pushed is flagged by  *)
(* it (control_chain, control_get_interval, control_get_state).            *)
(***************************************************************************)
EXTENDS Gate, SequenceTheorems, WellFoundedInduction, TLAPS

-----------------------------------------------------------------------------
(* Segments.                                                               *)

\* A segment that begins where the stream has come to, or later, is added in order,
\* and the stream says of every time what it and the segments before said.  So a
\* coalesced segment and a replaced heartbeat lose nothing.
THEOREM SegmentAdded ==
  ASSUME NEW segs \in Seq(Segment), Ordered(segs), NEW new \in Segment,
         new.start <= new.stop, segs # <<>> => Final(segs).stop <= new.start
  PROVE  /\ AddSegment(segs, new) \in Seq(Segment)
         /\ Ordered(AddSegment(segs, new))
         /\ \A t \in Nat, flag \in BOOLEAN :
              Says(AddSegment(segs, new), t, flag)
                <=> \/ Says(segs, t, flag)
                    \/ new.start <= t /\ t < new.stop /\ new.flag = flag
<1> DEFINE n == Len(segs)
           longer == [segs EXCEPT ![n].stop = new.stop]
           replaced == [segs EXCEPT ![n] = new]
<1>1. CASE Coalesces(segs, new)
  <2>1. /\ n \in Nat \ {0} /\ segs[n] \in Segment
        /\ segs[n].stop = new.start /\ segs[n].flag = new.flag
    <3>1. segs # <<>>
      BY <1>1 DEF Coalesces
    <3>2. n \in Nat \ {0} /\ segs[n] \in Segment
      BY <3>1
    <3>3. /\ segs[n].flag = new.flag /\ segs[n].stop >= new.start
          /\ segs[n].stop <= new.start
      BY <1>1, <3>1 DEF Coalesces, Final
    <3> QED
      BY <3>2, <3>3 DEF Segment
  <2>2. AddSegment(segs, new) = longer
    BY <1>1 DEF AddSegment
  <2>3. /\ longer \in Seq(Segment) /\ Len(longer) = n
        /\ longer[n] = [start |-> segs[n].start, stop |-> new.stop, flag |-> new.flag]
        /\ \A i \in 1..n : i # n => longer[i] = segs[i]
    BY <2>1 DEF Segment
  <2>4. Ordered(longer)
    BY SMTT(30), <2>1, <2>3 DEF Ordered, Segment
  <2>5. ASSUME NEW t \in Nat, NEW flag \in BOOLEAN
        PROVE  Says(longer, t, flag)
                 <=> \/ Says(segs, t, flag)
                     \/ new.start <= t /\ t < new.stop /\ new.flag = flag
    <3>1. segs[n].start <= segs[n].stop
      BY <2>1 DEF Ordered
    <3>2. CASE new.start <= t /\ t < new.stop /\ new.flag = flag
      BY <2>1, <2>3, <3>1, <3>2 DEF Says, Segment
    <3>3. CASE ~(new.start <= t /\ t < new.stop /\ new.flag = flag)
      <4>1. \A i \in 1..n : (longer[i].start <= t /\ t < longer[i].stop
                                /\ longer[i].flag = flag)
              <=> (segs[i].start <= t /\ t < segs[i].stop /\ segs[i].flag = flag)
        BY <2>1, <2>3, <3>1, <3>3 DEF Segment
      <4> QED
        BY <2>3, <3>3, <4>1 DEF Says
    <3> QED
      BY <3>2, <3>3
  <2> QED
    BY <2>2, <2>3, <2>4, <2>5
<1>2. CASE /\ ~Coalesces(segs, new)
           /\ segs # <<>> /\ IsHeartbeat(Final(segs))
  <2>1. /\ n \in Nat \ {0} /\ segs[n] \in Segment
        /\ segs[n].start = segs[n].stop /\ segs[n].stop <= new.start
    BY <1>2 DEF IsHeartbeat, Final
  <2>2. AddSegment(segs, new) = replaced
    BY <1>2 DEF AddSegment
  <2>3. /\ replaced \in Seq(Segment) /\ Len(replaced) = n
        /\ DOMAIN replaced = 1..n /\ DOMAIN segs = 1..n /\ replaced[n] = new
        /\ \A i \in 1..n : i # n => replaced[i] = segs[i]
    BY <2>1
  <2> HIDE DEF replaced
  <2>4. Ordered(replaced)
    <3>1. \A i \in 1..n : i < n => segs[i].stop <= segs[n].start
      BY <2>1 DEF Ordered
    <3>2. \A i \in 1..n : segs[i] \in Segment
      OBVIOUS
    <3>3. \A i \in 1..n : replaced[i].start <= replaced[i].stop
      BY <2>3 DEF Ordered
    <3>4. ASSUME NEW i \in 1..n, NEW j \in 1..n, i < j
          PROVE  replaced[i].stop <= replaced[j].start
      <4>0. n \in Nat /\ i # n
        BY <2>1, <3>4
      <4>1. replaced[i] = segs[i] /\ i # n
        BY <2>3, <4>0
      <4>2. CASE j = n
        <5>1. segs[i].stop <= segs[n].start /\ replaced[j] = new
          BY <2>3, <3>1, <3>4, <4>2
        <5> QED
          BY <2>1, <3>2, <4>1, <5>1 DEF Segment
      <4>3. CASE j # n
        BY <2>3, <3>4, <4>1, <4>3 DEF Ordered
      <4> QED
        BY <4>2, <4>3
    <3> QED
      BY <2>3, <3>3, <3>4 DEF Ordered
  <2>5. ASSUME NEW t \in Nat, NEW flag \in BOOLEAN
        PROVE  Says(replaced, t, flag)
                 <=> \/ Says(segs, t, flag)
                     \/ new.start <= t /\ t < new.stop /\ new.flag = flag
    <3>1. ~(segs[n].start <= t /\ t < segs[n].stop)
      BY <2>1 DEF Segment
    <3>2. CASE new.start <= t /\ t < new.stop /\ new.flag = flag
      <4>0. n \in 1..n
        BY <2>1
      <4>1. n \in DOMAIN replaced
        BY <2>3, <4>0
      <4>2. /\ replaced[n].start <= t /\ t < replaced[n].stop
            /\ replaced[n].flag = flag
        BY <2>3, <3>2
      <4> QED
        BY <3>2, <4>1, <4>2 DEF Says
    <3>3. CASE ~(new.start <= t /\ t < new.stop /\ new.flag = flag)
      <4>1. \A i \in 1..n : (replaced[i].start <= t /\ t < replaced[i].stop
                                /\ replaced[i].flag = flag)
              <=> (segs[i].start <= t /\ t < segs[i].stop /\ segs[i].flag = flag)
        BY <2>3, <3>1, <3>3
      <4> QED
        BY <2>3, <3>3, <4>1 DEF Says
    <3> QED
      BY <3>2, <3>3
  <2> QED
    BY <2>2, <2>3, <2>4, <2>5
<1>3. CASE /\ ~Coalesces(segs, new)
           /\ ~(segs # <<>> /\ IsHeartbeat(Final(segs)))
  <2>1. AddSegment(segs, new) = Append(segs, new)
    BY <1>3 DEF AddSegment
  <2>2. /\ n \in Nat /\ Append(segs, new) \in Seq(Segment)
        /\ Len(Append(segs, new)) = n + 1 /\ Append(segs, new)[n + 1] = new
        /\ \A i \in 1..n : Append(segs, new)[i] = segs[i]
    OBVIOUS
  <2>3. \A i \in 1..n : segs[i].stop <= new.start
    <3> SUFFICES ASSUME NEW i \in 1..n PROVE segs[i].stop <= new.start
      OBVIOUS
    <3>1. /\ n \in Nat \ {0} /\ segs[i] \in Segment /\ segs[n] \in Segment
          /\ segs[n].stop <= new.start /\ segs[n].start <= segs[n].stop
      BY DEF Ordered, Final
    <3>2. i < n => segs[i].stop <= segs[n].start
      BY <3>1 DEF Ordered
    <3> QED
      BY <3>1, <3>2 DEF Segment
  <2>4. Ordered(Append(segs, new))
    BY <2>2, <2>3 DEF Ordered
  <2>5. ASSUME NEW t \in Nat, NEW flag \in BOOLEAN
        PROVE  Says(Append(segs, new), t, flag)
                 <=> \/ Says(segs, t, flag)
                     \/ new.start <= t /\ t < new.stop /\ new.flag = flag
    BY <2>2 DEF Says
  <2> QED
    BY <2>1, <2>2, <2>4, <2>5
<1> QED
  BY <1>1, <1>2, <1>3

-----------------------------------------------------------------------------
(* Buffers and where the sink pad is.                                      *)

\* What both pads hold are intervals of times.
Buffers ==
  /\ sinkbuf.start \in Int /\ sinkbuf.stop \in Nat /\ sinkbuf.start <= sinkbuf.stop
  /\ sinkpc # "idle" => sinkbuf.start \in Nat
  /\ sinkbuf.gap \in BOOLEAN /\ controlbuf.stop \in Nat
  /\ queued \in Seq([start : Nat, stop : Nat, gap : BOOLEAN, discont : BOOLEAN])
  /\ need_discont \in BOOLEAN /\ at \in Nat /\ sinkpc \in Pcs /\ set \in Settings

\* A buffer follows another; a hole between them is a discontinuity.
Follows(c, b) == b.stop <= c.start /\ (b.stop < c.start => c.discont)

\* The queue behind the tee holds in order what control has had and the sink has not.
QueueInOrder ==
  set.tee =>
    /\ \A i \in DOMAIN queued : /\ queued[i].start <= queued[i].stop
                                /\ i > 1 => Follows(queued[i], queued[i - 1])
    /\ queued # <<>> => /\ Follows(queued[1], sinkbuf)
                        /\ queued[Len(queued)].stop = controlbuf.stop
    /\ queued = <<>> => controlbuf.stop = sinkbuf.stop

\* The loop is within its buffer; a gap is pushed or dropped at once.
InBuffer ==
  sinkpc = "looping" =>
    /\ sinkbuf.start <= at /\ at <= sinkbuf.stop
    /\ sinkbuf.start < sinkbuf.stop => at < sinkbuf.stop
    /\ sinkbuf.gap => at = sinkbuf.start

\* Up to where the sink has pushed or dropped its input.
Position ==
  IF sinkpc = "idle" THEN sinkbuf.stop
  ELSE IF sinkpc = "looping" THEN at ELSE sinkbuf.start

\* A hole behind what was pushed last is remembered.
HoleKnown ==
  /\ out \in Seq([start : Int, stop : Int, gap : BOOLEAN, discont : BOOLEAN,
                  was : BOOLEAN])
  /\ out # <<>> => /\ out[Len(out)].stop <= Position
                   /\ out[Len(out)].stop < Position => need_discont

IInv == Buffers /\ QueueInOrder /\ InBuffer /\ HoleKnown /\ HolesFlagged

-----------------------------------------------------------------------------
(* The end of a piece.                                                     *)

\* A set of natural numbers has a least one.
LEMMA Least ==
  ASSUME NEW S \in SUBSET Nat, S # {}
  PROVE  Min(S) \in S /\ \A x \in S : Min(S) <= x
<1> DEFINE R == OpToRel(<, Nat)
<1>1. R = {ss \in Nat \X Nat : ss[1] < ss[2]}
  BY Zenon DEF OpToRel
<1>2. IsWellFoundedOn(R, Nat)
  BY NatLessThanWellFounded, Zenon
<1> HIDE DEF R
<1>3. PICK x \in S : \A y \in S : <<y, x>> \notin R
  BY <1>2, WFMin
<1>4. ASSUME NEW y \in S
      PROVE  x <= y
  <2>1. <<y, x>> \in Nat \X Nat /\ x \in Nat /\ y \in Nat
    OBVIOUS
  <2>2. ~(<<y, x>>[1] < <<y, x>>[2])
    BY <1>1, <1>3, <2>1
  <2> QED
    BY <2>1, <2>2
<1> QED
  BY <1>4 DEF Min

\* A piece that begins in the buffer ends in it, and is not empty.
LEMMA RunEndAhead ==
  ASSUME NEW t \in Nat, sinkbuf.stop \in Nat, t < sinkbuf.stop
  PROVE  RunEnd(t) \in (t + 1)..sinkbuf.stop
<1> DEFINE S == {sinkbuf.stop}
                  \union {u \in (t + 1)..(sinkbuf.stop - 1) : State(u) # State(t)}
<1>1. S \in SUBSET Nat /\ S # {} /\ S \subseteq (t + 1)..sinkbuf.stop
  OBVIOUS
<1>2. RunEnd(t) = Min(S)
  BY DEF RunEnd
<1> HIDE DEF S
<1> QED
  BY <1>1, <1>2, Least

-----------------------------------------------------------------------------
(* The sink pad.                                                           *)

\* A step that neither receives, pushes nor drops keeps what is known of holes.
LEMMA QuietStep ==
  ASSUME IInv, UNCHANGED <<out, need_discont, sinkbuf, queued, set>>,
         Position' = Position, InBuffer', at' \in Nat, sinkpc' \in Pcs,
         sinkpc' # "idle" => sinkpc # "idle", controlbuf'.stop = controlbuf.stop
  PROVE  IInv'
<1>1. Buffers' /\ QueueInOrder'
  BY DEF IInv, Buffers, QueueInOrder
<1>2. HoleKnown'
  BY DEF IInv, HoleKnown
<1>3. HolesFlagged'
  BY DEF IInv, HolesFlagged
<1> QED
  BY <1>1, <1>2, <1>3 DEF IInv

\* What is pushed where the sink is follows what was pushed before.
LEMMA PushStep ==
  ASSUME IInv, NEW from \in Int, NEW to \in Int, NEW gap \in BOOLEAN,
         sinkbuf.gap \in BOOLEAN, from = Position, from <= to, Push(from, to, gap),
         Position' = to
  PROVE  HoleKnown' /\ HolesFlagged' /\ need_discont' \in BOOLEAN
<1> DEFINE piece == [start |-> from, stop |-> to, gap |-> gap,
                     discont |-> need_discont, was |-> sinkbuf.gap]
           n == Len(out)
<1>1. /\ out' = Append(out, piece) /\ need_discont' = FALSE
      /\ need_discont \in BOOLEAN
  BY DEF Push, IInv, Buffers
<1>2. /\ out \in Seq([start : Int, stop : Int, gap : BOOLEAN, discont : BOOLEAN,
                      was : BOOLEAN])
      /\ piece \in [start : Int, stop : Int, gap : BOOLEAN, discont : BOOLEAN,
                    was : BOOLEAN]
      /\ piece.start = from /\ piece.stop = to /\ piece.discont = need_discont
      /\ out # <<>> => /\ out[n].stop <= from
                       /\ out[n].stop < from => need_discont
  BY <1>1 DEF IInv, HoleKnown
<1> HIDE DEF piece
<1>3. /\ n \in Nat /\ DOMAIN out = 1..n /\ DOMAIN out' = 1..(n + 1)
      /\ out'[n + 1] = piece /\ Len(out') = n + 1
      /\ \A i \in 1..n : out'[i] = out[i]
      /\ out' \in Seq([start : Int, stop : Int, gap : BOOLEAN, discont : BOOLEAN,
                       was : BOOLEAN])
  BY <1>1, <1>2
<1> HIDE DEF n
<1>4. HoleKnown'
  BY <1>2, <1>3 DEF HoleKnown
<1>5. HolesFlagged'
  <2> SUFFICES ASSUME NEW i \in 1..(n + 1), NEW j \in 1..(n + 1), j = i + 1
               PROVE  /\ out'[i].stop <= out'[j].start
                      /\ out'[i].stop < out'[j].start => out'[j].discont
    BY <1>3 DEF HolesFlagged
  <2>1. CASE j = n + 1
    BY <1>2, <1>3, <2>1 DEF n
  <2>2. CASE j # n + 1
    <3>1. i \in 1..n /\ j \in 1..n
      BY <1>3, <2>2
    <3>2. HolesFlagged
      BY DEF IInv
    <3>3. /\ out[i].stop <= out[j].start
          /\ out[i].stop < out[j].start => out[j].discont
      BY <1>3, <3>1, <3>2 DEF HolesFlagged
    <3> QED
      BY <1>3, <3>1, <3>3
  <2> QED
    BY <2>1, <2>2
<1> QED
  BY <1>1, <1>4, <1>5

\* What the tail of a queue holds.
LEMMA TailOf ==
  ASSUME NEW T, NEW q \in Seq(T), q # <<>>
  PROVE  /\ Len(q) \in Nat \ {0} /\ Head(q) = q[1] /\ q[1] \in T
         /\ DOMAIN q = 1..Len(q) /\ Tail(q) \in Seq(T)
         /\ Len(Tail(q)) = Len(q) - 1 /\ DOMAIN Tail(q) = 1..(Len(q) - 1)
         /\ \A i \in 1..(Len(q) - 1) : Tail(q)[i] = q[i + 1]
<1>1. Len(q) \in Nat \ {0} /\ Head(q) = q[1] /\ q[1] \in T /\ DOMAIN q = 1..Len(q)
  OBVIOUS
<1>2. Tail(q) \in Seq(T) /\ Len(Tail(q)) = Len(q) - 1
  OBVIOUS
<1>3. \A i \in 1..(Len(q) - 1) : Tail(q)[i] = q[i + 1]
  OBVIOUS
<1>4. DOMAIN Tail(q) = 1..(Len(q) - 1)
  BY <1>2
<1> QED
  BY <1>1, <1>2, <1>3, <1>4

\* What was pushed last ends at a time.
LEMMA LastStop ==
  ASSUME HoleKnown, out # <<>>
  PROVE  out[Len(out)].stop \in Int
<1> DEFINE T == [start : Int, stop : Int, gap : BOOLEAN, discont : BOOLEAN,
                 was : BOOLEAN]
<1>1. out \in Seq(T)
  BY DEF HoleKnown
<1>2. \A p \in T : p.stop \in Int
  OBVIOUS
<1> HIDE DEF T
<1>3. out[Len(out)] \in T
  BY <1>1
<1> QED
  BY <1>2, <1>3

\* The buffer that the sink pad receives follows the last one, perhaps behind a hole,
\* and the queue stays in order.
LEMMA Received ==
  ASSUME IInv, SinkReceive
  PROVE  /\ sinkbuf' \in [start : Nat, stop : Nat, gap : BOOLEAN, discont : BOOLEAN]
         /\ sinkbuf'.start <= sinkbuf'.stop /\ sinkbuf.stop <= sinkbuf'.start
         /\ sinkbuf.stop < sinkbuf'.start => sinkbuf'.discont
         /\ queued' \in Seq([start : Nat, stop : Nat, gap : BOOLEAN, discont : BOOLEAN])
         /\ QueueInOrder'
<1>1. /\ sinkpc = "idle" /\ sinkpc' = "ready" /\ Position = sinkbuf.stop
      /\ Position' = sinkbuf'.start
      /\ UNCHANGED <<set, out, at>> /\ controlbuf' = controlbuf
      /\ need_discont' = (need_discont \/ sinkbuf'.discont)
  BY DEF SinkReceive, Position, input, control
<1>2. Buffers /\ QueueInOrder /\ HoleKnown /\ HolesFlagged
  BY DEF IInv
<1>3. /\ sinkbuf' \in [start : Nat, stop : Nat, gap : BOOLEAN, discont : BOOLEAN]
      /\ sinkbuf'.start <= sinkbuf'.stop /\ sinkbuf.stop <= sinkbuf'.start
      /\ sinkbuf.stop < sinkbuf'.start => sinkbuf'.discont
      /\ queued' \in Seq([start : Nat, stop : Nat, gap : BOOLEAN, discont : BOOLEAN])
      /\ QueueInOrder'
  <2>1. CASE ~set.tee
    <3>1. PICK n \in 0..MaxLength, hole \in 0..MaxHole, gap \in BOOLEAN :
            sinkbuf' = Buffer(sinkbuf.stop + hole, sinkbuf.stop + hole + n, gap, hole > 0)
      BY <2>1 DEF SinkReceive
    <3>2. n \in Nat /\ hole \in Nat /\ sinkbuf.stop \in Nat
      BY <1>2, SettingsAssumption DEF Buffers
    <3>3. queued' = queued /\ QueueInOrder'
      BY <1>1, <2>1 DEF SinkReceive, QueueInOrder
    <3>4. sinkbuf' = [start |-> sinkbuf.stop + hole, stop |-> sinkbuf.stop + hole + n,
                      gap |-> gap, discont |-> hole > 0]
      BY <3>1 DEF Buffer
    <3>5. /\ sinkbuf'.start = sinkbuf.stop + hole
          /\ sinkbuf'.stop = sinkbuf.stop + hole + n
          /\ sinkbuf'.discont = (hole > 0)
          /\ sinkbuf' \in [start : Nat, stop : Nat, gap : BOOLEAN, discont : BOOLEAN]
      BY <3>2, <3>4
    <3>6. queued' \in Seq([start : Nat, stop : Nat, gap : BOOLEAN, discont : BOOLEAN])
      BY <1>2, <3>3 DEF Buffers
    <3> QED
      BY <3>2, <3>3, <3>5, <3>6
  <2>2. CASE set.tee
    <3>1. queued # <<>> /\ sinkbuf' = Head(queued) /\ queued' = Tail(queued)
      BY <2>2 DEF SinkReceive
    <3>2. queued \in Seq([start : Nat, stop : Nat, gap : BOOLEAN, discont : BOOLEAN])
      BY <1>2 DEF Buffers
    <3> DEFINE n == Len(queued)
    <3>3. /\ n \in Nat \ {0} /\ sinkbuf' = queued[1] /\ DOMAIN queued = 1..n
          /\ Len(queued') = n - 1 /\ DOMAIN queued' = 1..(n - 1)
          /\ \A i \in 1..(n - 1) : queued'[i] = queued[i + 1]
          /\ sinkbuf' \in [start : Nat, stop : Nat, gap : BOOLEAN, discont : BOOLEAN]
          /\ queued' \in Seq([start : Nat, stop : Nat, gap : BOOLEAN, discont : BOOLEAN])
          /\ queued' = <<>> <=> n = 1
      <4> DEFINE T == [start : Nat, stop : Nat, gap : BOOLEAN, discont : BOOLEAN]
      <4>1. queued \in Seq(T) /\ queued # <<>>
        BY <3>1, <3>2
      <4> HIDE DEF T
      <4>2. /\ n \in Nat \ {0} /\ Head(queued) = queued[1] /\ queued[1] \in T
            /\ DOMAIN queued = 1..n /\ Tail(queued) \in Seq(T)
            /\ Len(Tail(queued)) = n - 1 /\ DOMAIN Tail(queued) = 1..(n - 1)
            /\ \A i \in 1..(n - 1) : Tail(queued)[i] = queued[i + 1]
        BY <4>1, TailOf
      <4>3. Tail(queued) = <<>> <=> n = 1
        <5>1. Tail(queued) # <<>> => Len(Tail(queued)) # 0
          BY <4>2, EmptySeq
        <5>2. Tail(queued) = <<>> => Len(Tail(queued)) = 0
          BY EmptySeq
        <5> QED
          BY <4>2, <5>1, <5>2
      <4> QED
        BY <3>1, <4>2, <4>3 DEF T
    <3>4. /\ \A i \in 1..n : /\ queued[i].start <= queued[i].stop
                             /\ i > 1 => Follows(queued[i], queued[i - 1])
          /\ Follows(queued[1], sinkbuf) /\ queued[n].stop = controlbuf.stop
      BY <1>2, <2>2, <3>1, <3>3 DEF QueueInOrder
    <3> HIDE DEF n
    <3>5. QueueInOrder'
      <4>1. ASSUME NEW i \in DOMAIN queued'
            PROVE  /\ queued'[i].start <= queued'[i].stop
                   /\ i > 1 => Follows(queued'[i], queued'[i - 1])
        <5>1. i \in 1..(n - 1) /\ i + 1 \in 1..n /\ i + 1 > 1
          BY <3>3
        <5>2. i > 1 => /\ i - 1 \in 1..(n - 1)
                       /\ (i - 1) + 1 = i
          <6>1. i \in Int /\ n \in Int /\ 1 <= i /\ i <= n - 1
            BY <3>3, <5>1
          <6> QED
            BY <6>1
        <5>3. queued'[i] = queued[i + 1] /\ (i + 1) - 1 = i
          BY <3>3, <5>1
        <5>4. /\ queued[i + 1].start <= queued[i + 1].stop
              /\ Follows(queued[i + 1], queued[i])
          BY <3>4, <5>1, <5>3
        <5> QED
          BY <3>3, <5>2, <5>3, <5>4
      <4>2. CASE n = 1
        BY <1>1, <3>3, <3>4, <4>1, <4>2 DEF QueueInOrder
      <4>3. CASE n # 1
        <5>1. /\ 1 \in 1..(n - 1) /\ 2 \in 1..n /\ 2 > 1
              /\ n - 1 \in 1..(n - 1) /\ (n - 1) + 1 = n
          BY <3>3, <4>3
        <5>2. Follows(queued'[1], sinkbuf')
          <6>1. Follows(queued[2], queued[2 - 1]) /\ 2 - 1 = 1 /\ queued'[1] = queued[1 + 1]
            BY <3>3, <3>4, <5>1
          <6> QED
            BY <3>3, <6>1
        <5>3. queued'[Len(queued')].stop = controlbuf'.stop
          BY <1>1, <3>3, <3>4, <5>1
        <5> QED
          BY <3>3, <4>1, <4>3, <5>2, <5>3 DEF QueueInOrder
      <4> QED
        BY <4>2, <4>3
    <3>6. /\ sinkbuf'.start <= sinkbuf'.stop /\ sinkbuf.stop <= sinkbuf'.start
          /\ sinkbuf.stop < sinkbuf'.start => sinkbuf'.discont
      <4>1. 1 \in 1..n
        BY <3>3
      <4> QED
        BY <3>3, <3>4, <4>1 DEF Follows
    <3> QED
      BY <1>2, <3>3, <3>5, <3>6 DEF Buffers
  <2> QED
    BY <2>1, <2>2
<1> QED
  BY <1>3

\* The sink pad receives its next buffer; a hole before it is remembered.
LEMMA ReceiveStep ==
  ASSUME IInv, SinkReceive
  PROVE  IInv'
<1>1. /\ sinkpc = "idle" /\ sinkpc' = "ready" /\ Position = sinkbuf.stop
      /\ Position' = sinkbuf'.start
      /\ UNCHANGED <<set, out, at>> /\ controlbuf' = controlbuf
      /\ need_discont' = (need_discont \/ sinkbuf'.discont)
  BY DEF SinkReceive, Position, input, control
<1>2. Buffers /\ QueueInOrder /\ HoleKnown /\ HolesFlagged
  BY DEF IInv
<1>3. /\ sinkbuf' \in [start : Nat, stop : Nat, gap : BOOLEAN, discont : BOOLEAN]
      /\ sinkbuf'.start <= sinkbuf'.stop /\ sinkbuf.stop <= sinkbuf'.start
      /\ sinkbuf.stop < sinkbuf'.start => sinkbuf'.discont
      /\ queued' \in Seq([start : Nat, stop : Nat, gap : BOOLEAN, discont : BOOLEAN])
      /\ QueueInOrder'
  BY Received
<1>4. Buffers' /\ InBuffer'
  BY <1>1, <1>2, <1>3 DEF Buffers, InBuffer, Pcs
<1>5. HoleKnown'
  <2>1. out # <<>> => /\ Len(out) \in DOMAIN out /\ out[Len(out)].stop <= sinkbuf.stop
                      /\ out[Len(out)].stop < sinkbuf.stop => need_discont
    BY <1>1, <1>2 DEF HoleKnown
  <2>2. (need_discont => need_discont') /\ (sinkbuf'.discont => need_discont')
    BY <1>1
  <2>3. out' = out /\ Position' = sinkbuf'.start /\ sinkbuf.stop \in Int
        /\ sinkbuf'.start \in Int
    BY <1>1, <1>2, <1>3 DEF Buffers
  <2>4. out # <<>> => out[Len(out)].stop \in Int
    BY <1>2, LastStop
  <2>5. out # <<>> => /\ out[Len(out)].stop <= sinkbuf'.start
                      /\ out[Len(out)].stop < sinkbuf'.start =>
                           \/ out[Len(out)].stop < sinkbuf.stop
                           \/ sinkbuf.stop < sinkbuf'.start
    BY <1>3, <2>1, <2>3, <2>4
  <2>6. out # <<>> => /\ out'[Len(out')].stop <= Position'
                      /\ out'[Len(out')].stop < Position' => need_discont'
    BY <1>3, <2>1, <2>2, <2>3, <2>5
  <2> QED
    BY <1>2, <2>3, <2>6 DEF HoleKnown
<1>6. HolesFlagged'
  BY <1>1, <1>2 DEF HolesFlagged
<1> QED
  BY <1>3, <1>4, <1>5, <1>6 DEF IInv
\* control_get_interval moves neither the sink nor what was pushed.
LEMMA IntervalStep ==
  ASSUME IInv, ControlGetInterval
  PROVE  IInv'
<1>1. /\ sinkpc \in {"ready", "awake"} /\ sinkpc' \in {"looping", "asleep"}
      /\ at' = sinkbuf.start
      /\ UNCHANGED <<out, need_discont, sinkbuf, queued, set, controlbuf>>
  BY DEF ControlGetInterval, input
<1>2. sinkbuf.start \in Nat /\ sinkbuf.stop \in Nat /\ sinkbuf.start <= sinkbuf.stop
  BY <1>1 DEF IInv, Buffers
<1>3. Position' = Position
  BY <1>1 DEF Position
<1>4. InBuffer' /\ at' \in Nat /\ sinkpc' \in Pcs
  BY <1>1, <1>2 DEF InBuffer, Pcs
<1> QED
  BY <1>1, <1>3, <1>4, QuietStep

\* A turn of the loop pushes or drops a piece; what a leaky gate drops is a hole.
LEMMA LoopStep ==
  ASSUME IInv, SinkLoop
  PROVE  IInv'
<1>1. /\ sinkpc = "looping" /\ Position = at /\ Position' = at'
      /\ sinkpc' = IF at' = sinkbuf.stop THEN "idle" ELSE "looping"
      /\ UNCHANGED <<set, sinkbuf, queued, controlbuf>>
  BY DEF SinkLoop, Position, input, control
<1>2. Buffers /\ QueueInOrder /\ InBuffer /\ HoleKnown /\ HolesFlagged
  BY DEF IInv
<1>3. /\ sinkbuf.start \in Nat /\ sinkbuf.stop \in Nat /\ at \in Nat
      /\ sinkbuf.start <= at /\ at <= sinkbuf.stop /\ sinkbuf.gap \in BOOLEAN
      /\ sinkbuf.start < sinkbuf.stop => at < sinkbuf.stop
      /\ sinkbuf.gap => at = sinkbuf.start
  BY <1>1, <1>2 DEF Buffers, InBuffer
<1>4. /\ at' \in Nat /\ at <= at' /\ at' <= sinkbuf.stop
      /\ \/ \E gap \in BOOLEAN : Push(at, at', gap)
         \/ Drop
  <2>1. \/ /\ sinkbuf.start = sinkbuf.stop /\ at' = at
           /\ Push(at, at, sinkbuf.gap)
        \/ /\ sinkbuf.start < sinkbuf.stop /\ sinkbuf.gap /\ at' = sinkbuf.stop
           /\ Drop \/ Push(sinkbuf.start, sinkbuf.stop, TRUE)
        \/ /\ sinkbuf.start < sinkbuf.stop /\ ~sinkbuf.gap /\ at' = RunEnd(at)
           /\ Drop \/ Push(at, RunEnd(at), ~State(at))
    BY Zenon DEF SinkLoop
  <2>2. CASE sinkbuf.start = sinkbuf.stop /\ Push(at, at, sinkbuf.gap) /\ at' = at
    <3>1. \E gap \in BOOLEAN : Push(at, at', gap)
      BY <1>3, <2>2, Zenon
    <3> QED
      BY <1>3, <2>2, <3>1
  <2>3. CASE /\ sinkbuf.start < sinkbuf.stop /\ sinkbuf.gap /\ at' = sinkbuf.stop
             /\ Drop \/ Push(sinkbuf.start, sinkbuf.stop, TRUE)
    <3>0. at = sinkbuf.start
      BY <1>3, <2>3, Zenon
    <3>1. Drop \/ Push(at, at', TRUE)
      BY <2>3, <3>0, Zenon
    <3>2. Drop \/ \E gap \in BOOLEAN : Push(at, at', gap)
      BY <3>1, Zenon
    <3> QED
      BY <1>3, <2>3, <3>2
  <2>4. CASE /\ sinkbuf.start < sinkbuf.stop /\ ~sinkbuf.gap /\ at' = RunEnd(at)
             /\ Drop \/ Push(at, RunEnd(at), ~State(at))
    <3>1. Drop \/ \E gap \in BOOLEAN : Push(at, at', gap)
      <4>1. (~State(at)) \in BOOLEAN
        OBVIOUS
      <4> QED
        BY <2>4, <4>1, Zenon
    <3>2. at' \in (at + 1)..sinkbuf.stop
      BY <1>3, <2>4, RunEndAhead
    <3> QED
      BY <1>3, <3>1, <3>2
  <2> QED
    BY <2>1, <2>2, <2>3, <2>4
<1>5. HoleKnown' /\ HolesFlagged' /\ need_discont' \in BOOLEAN
  <2>1. CASE \E gap \in BOOLEAN : Push(at, at', gap)
    BY <1>1, <1>3, <1>4, <2>1, PushStep
  <2>2. CASE Drop
    <3>1. out' = out /\ need_discont' = TRUE
      BY <2>2 DEF Drop
    <3>2. out # <<>> => out[Len(out)].stop \in Int
      BY <1>2, LastStop
    <3> QED
      BY <1>1, <1>2, <1>3, <1>4, <3>1, <3>2 DEF HoleKnown, HolesFlagged
  <2> QED
    BY <1>4, <2>1, <2>2
<1>6. Buffers' /\ QueueInOrder'
  BY <1>1, <1>2, <1>3, <1>4, <1>5 DEF Buffers, QueueInOrder, Pcs
<1>7. sinkbuf.gap \/ sinkbuf.start = sinkbuf.stop => sinkpc' = "idle"
  <2>1. sinkbuf.gap \/ sinkbuf.start = sinkbuf.stop => at' = sinkbuf.stop
    <3>1. \/ sinkbuf.start = sinkbuf.stop /\ at' = at
          \/ sinkbuf.start < sinkbuf.stop /\ at' = sinkbuf.stop
          \/ sinkbuf.start < sinkbuf.stop /\ ~sinkbuf.gap
      BY Zenon DEF SinkLoop
    <3> QED
      BY <1>3, <3>1
  <2> QED
    BY <1>1, <2>1
<1>8. InBuffer'
  BY <1>1, <1>3, <1>4, <1>7 DEF InBuffer
<1> QED
  BY <1>5, <1>6, <1>8 DEF IInv
-----------------------------------------------------------------------------
(* The control pad.                                                        *)

\* A queue with a new last buffer.
LEMMA Appended ==
  ASSUME NEW T, NEW q \in Seq(T), NEW b \in T
  PROVE  /\ Append(q, b) \in Seq(T) /\ Append(q, b) # <<>>
         /\ Len(q) \in Nat /\ DOMAIN Append(q, b) = 1..(Len(q) + 1)
         /\ Len(Append(q, b)) = Len(q) + 1 /\ Append(q, b)[Len(q) + 1] = b
         /\ \A i \in 1..Len(q) : Append(q, b)[i] = q[i]
         /\ DOMAIN q = 1..Len(q) /\ (q = <<>> <=> Len(q) = 0)
  BY EmptySeq

\* The next buffer of control, and what is between it and the last one.
LEMMA NextBuffer ==
  ASSUME controlbuf.stop \in Nat, NEW hole \in 0..MaxHole, NEW n \in 0..MaxLength,
         NEW gap \in BOOLEAN, NextControl(hole, n, gap)
  PROVE  /\ controlbuf' \in [start : Nat, stop : Nat, gap : BOOLEAN, discont : BOOLEAN]
         /\ controlbuf'.start <= controlbuf'.stop /\ controlbuf.stop <= controlbuf'.start
         /\ Follows(controlbuf', controlbuf)
         /\ \A t \in Nat : controlbuf.stop <= t /\ t < controlbuf'.stop
              => (t \in DOMAIN above <=> controlbuf'.start <= t)
<1> DEFINE from == controlbuf.stop + hole
           to == controlbuf.stop + hole + n
           b == controlbuf.stop
<1>1. /\ hole \in Nat /\ n \in Nat /\ b \in Nat /\ from \in Nat /\ to \in Nat
      /\ from = b + hole /\ to = from + n
  BY SettingsAssumption
<1>2. /\ DOMAIN above \intersect b..(to - 1) = from..(to - 1)
      /\ controlbuf' = [start |-> from, stop |-> to, gap |-> gap, discont |-> hole > 0]
  BY DEF NextControl, Buffer
<1> HIDE DEF from, to
<1>3. /\ controlbuf'.start = from /\ controlbuf'.stop = to
      /\ controlbuf'.discont = (hole > 0)
      /\ controlbuf' \in [start : Nat, stop : Nat, gap : BOOLEAN, discont : BOOLEAN]
  BY <1>1, <1>2
<1> HIDE DEF b
<1>4. ASSUME NEW t \in Nat, b <= t, t < to
      PROVE  t \in DOMAIN above <=> from <= t
  <2>1. t \in b..(to - 1) /\ (t \in from..(to - 1) <=> from <= t)
    BY <1>1, <1>4
  <2>2. t \in DOMAIN above \intersect b..(to - 1) <=> t \in from..(to - 1)
    BY <1>2
  <2> QED
    BY <2>1, <2>2
<1>5. b <= from /\ from <= to /\ (b < from => hole > 0)
  BY <1>1
<1> QED
  BY <1>3, <1>4, <1>5 DEF b, Follows

\* The tee gives one buffer to both ends of the queue's bookkeeping.
LEMMA TeeStep ==
  ASSUME IInv, TeePush
  PROVE  IInv'
<1> DEFINE T == [start : Nat, stop : Nat, gap : BOOLEAN, discont : BOOLEAN]
           n == Len(queued)
<1>1. /\ UNCHANGED <<set, out, need_discont, sinkbuf, sinkpc, at>> /\ set.tee
      /\ queued' = Append(queued, controlbuf')
  BY DEF TeePush, input, sink
<1>2. Buffers /\ QueueInOrder /\ InBuffer /\ HoleKnown /\ HolesFlagged
  BY DEF IInv
<1>3. PICK hole \in 0..MaxHole, k \in 0..MaxLength, gap \in BOOLEAN :
        NextControl(hole, k, gap)
  BY DEF TeePush
<1>4. controlbuf.stop \in Nat
  BY <1>2 DEF Buffers
<1>5. /\ controlbuf' \in T /\ Follows(controlbuf', controlbuf)
      /\ controlbuf'.start <= controlbuf'.stop /\ controlbuf'.stop \in Nat
  BY <1>3, <1>4, NextBuffer
<1>6. queued \in Seq(T)
  BY <1>2 DEF Buffers
<1> HIDE DEF T
<1>7. /\ queued' \in Seq(T) /\ queued' # <<>> /\ n \in Nat
      /\ DOMAIN queued' = 1..(n + 1) /\ DOMAIN queued = 1..n
      /\ Len(queued') = n + 1 /\ queued'[n + 1] = controlbuf'
      /\ \A i \in 1..n : queued'[i] = queued[i]
      /\ queued = <<>> <=> n = 0
  BY <1>1, <1>5, <1>6, Appended
<1> HIDE DEF n
<1>8. /\ n = 0 => controlbuf.stop = sinkbuf.stop
      /\ n # 0 => queued[n].stop = controlbuf.stop /\ Follows(queued[1], sinkbuf)
      /\ \A i \in 1..n : /\ queued[i].start <= queued[i].stop
                         /\ i > 1 => Follows(queued[i], queued[i - 1])
  BY <1>1, <1>2, <1>7 DEF QueueInOrder, n
<1>9. QueueInOrder'
  <2>1. ASSUME NEW i \in 1..(n + 1)
        PROVE  /\ queued'[i].start <= queued'[i].stop
               /\ i > 1 => Follows(queued'[i], queued'[i - 1])
    <3>1. CASE i = n + 1
      <4>1. queued'[i] = controlbuf' /\ i - 1 = n
        BY <1>7, <3>1
      <4>2. i > 1 => n \in 1..n /\ n # 0
        BY <1>7, <3>1
      <4>3. i > 1 => queued'[i - 1] = queued[n] /\ queued[n].stop = controlbuf.stop
        BY <1>7, <1>8, <4>1, <4>2
      <4> QED
        BY <1>5, <4>1, <4>3 DEF Follows
    <3>2. CASE i # n + 1
      <4>1. i \in 1..n
        BY <1>7, <3>2
      <4>2. i > 1 => i - 1 \in 1..n
        BY <1>7, <4>1
      <4> QED
        BY <1>7, <1>8, <4>1, <4>2
    <3> QED
      BY <3>1, <3>2
  <2>2. Follows(queued'[1], sinkbuf')
    <3>1. CASE n = 0
      BY <1>1, <1>5, <1>7, <1>8, <3>1 DEF Follows
    <3>2. CASE n # 0
      <4>1. 1 \in 1..n
        BY <1>7, <3>2
      <4> QED
        BY <1>1, <1>7, <1>8, <3>2, <4>1
    <3> QED
      BY <3>1, <3>2
  <2>3. queued'[Len(queued')].stop = controlbuf'.stop
    BY <1>7
  <2> QED
    BY <1>7, <2>1, <2>2, <2>3 DEF QueueInOrder
<1>10. Buffers'
  BY <1>1, <1>2, <1>5, <1>7 DEF Buffers, T
<1>11. InBuffer' /\ HoleKnown' /\ HolesFlagged'
  BY <1>1, <1>2 DEF InBuffer, HoleKnown, HolesFlagged, Position
<1> QED
  BY <1>9, <1>10, <1>11 DEF IInv

\* A control stream of its own has no queue to keep contiguous.
LEMMA ControlReceiveStep ==
  ASSUME IInv, ControlReceive
  PROVE  IInv'
<1>1. /\ UNCHANGED <<set, out, need_discont, sinkbuf, sinkpc, at, queued>> /\ ~set.tee
  BY DEF ControlReceive, input, sink
<1>2. Buffers /\ QueueInOrder /\ InBuffer /\ HoleKnown /\ HolesFlagged
  BY DEF IInv
<1>3. controlbuf'.stop \in Nat
  <2>1. controlbuf.stop \in Nat
    BY <1>2 DEF Buffers
  <2>2. PICK n \in 0..MaxLength, hole \in 0..MaxHole : NextControl(hole, n, FALSE)
    BY DEF ControlReceive
  <2>3. controlbuf' \in [start : Nat, stop : Nat, gap : BOOLEAN, discont : BOOLEAN]
    BY <2>1, <2>2, NextBuffer
  <2> QED
    BY <2>3
<1>4. Buffers' /\ QueueInOrder' /\ InBuffer'
  BY <1>1, <1>2, <1>3 DEF Buffers, QueueInOrder, InBuffer
<1>5. HoleKnown' /\ HolesFlagged'
  BY <1>1, <1>2 DEF HoleKnown, HolesFlagged, Position
<1> QED
  BY <1>4, <1>5 DEF IInv

\* What wakes the sink pad leaves it in its buffer.
LEMMA OtherStep ==
  ASSUME IInv, UNCHANGED <<out, need_discont, sinkbuf, at, queued, set, controlbuf>>,
         sinkpc' \in {sinkpc, Woken(sinkpc)}
  PROVE  IInv'
<1>1. /\ sinkpc' \in Pcs /\ at' \in Nat
      /\ sinkpc' # "idle" => sinkpc # "idle"
      /\ Position' = Position /\ InBuffer'
  BY DEF IInv, Buffers, InBuffer, Position, Woken, Pcs
<1> QED
  BY <1>1, QuietStep

-----------------------------------------------------------------------------
\* The element starts with nothing pushed and nothing received.
LEMMA InitIInv == Init => IInv
<1> SUFFICES ASSUME Init PROVE IInv
  OBVIOUS
<1>1. Buffers /\ QueueInOrder
  BY DEF Init, Buffers, QueueInOrder, Buffer, Pcs
<1>2. InBuffer /\ HoleKnown /\ HolesFlagged
  BY DEF Init, InBuffer, HoleKnown, HolesFlagged
<1> QED
  BY <1>1, <1>2 DEF IInv

\* Every step of either thread keeps the invariant.
LEMMA NextIInv == IInv /\ [Next]_vars => IInv'
<1> SUFFICES ASSUME IInv, [Next]_vars PROVE IInv'
  OBVIOUS
<1>1. CASE ControlReceive \/ TeePush
  <2>1. CASE ControlReceive
    BY <2>1, ControlReceiveStep
  <2>2. CASE TeePush
    BY <2>2, TeeStep
  <2> QED
    BY <1>1, <2>1, <2>2
<1>2. CASE ControlChain \/ ControlEos
  BY <1>2, OtherStep DEF ControlChain, ControlEos, input, control
<1>3. CASE SinkReceive \/ ControlGetInterval \/ SinkLoop
  BY <1>3, ReceiveStep, IntervalStep, LoopStep
<1>4. CASE SinkEos
  BY <1>4, OtherStep DEF SinkEos, input, sink
<1>5. CASE Finished \/ UNCHANGED vars
  BY <1>5, OtherStep DEF Finished, vars, input, sink, control
<1> QED
  BY <1>1, <1>2, <1>3, <1>4, <1>5 DEF Next, ControlThread, SinkThread

\* What is downstream of the gate sees its buffers in order and every hole between
\* them as a discontinuity, for any properties of the element, any buffers and holes
\* of the input, with or without a tee, and however the two threads interleave.
THEOREM HolesAreFlagged == Spec => []HolesFlagged
<1>1. IInv => HolesFlagged
  BY DEF IInv
<1> QED
  BY InitIInv, NextIInv, <1>1, PTL DEF Spec

-----------------------------------------------------------------------------
(* What the control segments say.                                          *)

\* Of segments in order the flushed ones say nothing of later times, and the others
\* are kept.
LEMMA SegmentsFlushed ==
  ASSUME NEW segs \in Seq(Segment), Ordered(segs), NEW now \in Nat
  PROVE  /\ Flushed(segs, now) \in Seq(Segment)
         /\ Ordered(Flushed(segs, now))
         /\ \A i \in DOMAIN Flushed(segs, now) :
              /\ Flushed(segs, now)[i].stop > now
              /\ \E j \in DOMAIN segs : Flushed(segs, now)[i] = segs[j]
         /\ \A t \in Nat, flag \in BOOLEAN :
              now <= t => (Says(Flushed(segs, now), t, flag) <=> Says(segs, t, flag))
<1> DEFINE n == Len(segs)
           kept == {i \in DOMAIN segs : segs[i].stop > now}
           first == CHOOSE i \in kept : \A j \in kept : i <= j
           rest == SubSeq(segs, first, n)
<1>0. /\ n \in Nat /\ DOMAIN segs = 1..n
      /\ \A i \in 1..n : /\ segs[i].start \in Nat /\ segs[i].stop \in Nat
                          /\ segs[i] \in Segment
  <2>1. \A i \in 1..n : segs[i] \in Segment
    OBVIOUS
  <2>2. \A x \in Segment : x.start \in Nat /\ x.stop \in Nat
    BY DEF Segment
  <2> QED
    BY <2>1, <2>2
<1>1. CASE kept = {}
  <2>1. Flushed(segs, now) = <<>>
    BY <1>1 DEF Flushed
  <2>2. ASSUME NEW t \in Nat, NEW flag \in BOOLEAN, now <= t
        PROVE  ~Says(segs, t, flag)
    BY <1>0, <1>1, <2>2 DEF Says
  <2> QED
    BY <2>1, <2>2 DEF Ordered, Says
<1>2. CASE kept # {}
  <2>1. Flushed(segs, now) = rest
    BY <1>2 DEF Flushed
  <2>2. /\ first \in 1..n /\ segs[first].stop > now
        /\ \A j \in 1..(first - 1) : segs[j].stop <= now
    <3>1. kept \in SUBSET Nat
      BY <1>0
    <3>2. \E i \in kept : \A j \in kept : i <= j
      <4> HIDE DEF kept
      <4> QED
        BY <1>2, <3>1, Least
    <3>3. first \in kept /\ \A j \in kept : first <= j
      BY <3>2
    <3> HIDE DEF first
    <3> QED
      BY <1>0, <3>3
  <2> HIDE DEF first
  <2>3. /\ rest \in Seq(Segment) /\ Len(rest) = n - first + 1
        /\ \A i \in 1..(n - first + 1) : rest[i] = segs[first + i - 1]
        /\ DOMAIN rest = 1..(n - first + 1)
    BY <1>0, <2>2, SubSeqProperties
  <2> HIDE DEF rest
  <2>4. \A i \in 1..(n - first + 1) : first + i - 1 \in 1..n
    BY <1>0, <2>2
  <2>5. Ordered(rest)
    <3>1. \A i, j \in 1..(n - first + 1) : i < j => first + i - 1 < first + j - 1
      BY <1>0, <2>2
    <3> QED
      BY <1>0, <2>3, <2>4, <3>1 DEF Ordered
  <2>6. ASSUME NEW t \in Nat, NEW flag \in BOOLEAN, now <= t
        PROVE  Says(rest, t, flag) <=> Says(segs, t, flag)
    <3>1. Says(rest, t, flag) => Says(segs, t, flag)
      BY <1>0, <2>3, <2>4 DEF Says
    <3>2. ASSUME NEW j \in 1..n, segs[j].start <= t, t < segs[j].stop, segs[j].flag = flag
          PROVE  Says(rest, t, flag)
      <4>1. j >= first
        BY <1>0, <2>2, <2>6, <3>2
      <4>2. j - first + 1 \in 1..(n - first + 1) /\ first + (j - first + 1) - 1 = j
        BY <1>0, <2>2, <4>1
      <4>3. rest[j - first + 1] = segs[j]
        BY <2>3, <4>2
      <4> QED
        BY <2>3, <3>2, <4>2, <4>3 DEF Says
    <3> QED
      BY <1>0, <3>1, <3>2 DEF Says
  <2>7. ASSUME NEW i \in 1..(n - first + 1)
        PROVE  rest[i].stop > now
    <3> DEFINE k == first + i - 1
    <3>1. k \in 1..n /\ rest[i] = segs[k] /\ (k = first \/ first < k)
      BY <1>0, <2>2, <2>3, <2>4
    <3> HIDE DEF k
    <3>2. first < k => segs[first].stop <= segs[k].start
      BY <1>0, <2>2, <3>1 DEF Ordered
    <3>3. segs[k].start <= segs[k].stop
      BY <1>0, <3>1 DEF Ordered
    <3> QED
      BY <1>0, <2>2, <3>1, <3>2, <3>3
  <2> QED
    BY <1>0, <2>1, <2>3, <2>4, <2>5, <2>6, <2>7
<1> QED
  BY <1>1, <1>2

\* The larger and the smaller of two numbers.
LEMMA OfTwo ==
  ASSUME NEW a \in Int, NEW b \in Int
  PROVE  /\ Max({a, b}) = IF a >= b THEN a ELSE b
         /\ Min({a, b}) = IF a <= b THEN a ELSE b
<1>1. \E x \in {a, b} : \A y \in {a, b} : x >= y
  OBVIOUS
<1>2. \E x \in {a, b} : \A y \in {a, b} : x <= y
  OBVIOUS
<1>3. Max({a, b}) \in {a, b} /\ \A y \in {a, b} : Max({a, b}) >= y
  BY <1>1, Zenon DEF Max
<1>4. Min({a, b}) \in {a, b} /\ \A y \in {a, b} : Min({a, b}) <= y
  BY <1>2, Zenon DEF Min
<1> QED
  BY <1>3, <1>4

\* A time with its offset.
LEMMA OffsetIs ==
  ASSUME NEW t \in Int, NEW offset \in Int
  PROVE  AddOffset(t, offset) = IF t + offset >= 0 THEN t + offset ELSE 0
<1> DEFINE moved == t + offset
<1>1. moved \in Int
  OBVIOUS
<1> HIDE DEF moved
<1>2. Max({0, moved}) = IF 0 >= moved THEN 0 ELSE moved
  BY <1>1, OfTwo
<1>3. AddOffset(t, offset) = IF moved >= 0 THEN moved ELSE 0
  BY <1>1, <1>2 DEF AddOffset, moved
<1> QED
  BY <1>3 DEF moved

\* The same of all times, which never become negative.
LEMMA OffsetsAre ==
  \A t, offset \in Int :
    /\ AddOffset(t, offset) = IF t + offset >= 0 THEN t + offset ELSE 0
    /\ AddOffset(t, offset) \in Nat
<1> TAKE t, offset \in Int
<1>1. AddOffset(t, offset) = IF t + offset >= 0 THEN t + offset ELSE 0
  BY OffsetIs
<1> QED
  BY <1>1

\* The sample of control before t, and the record of the samples from a time on.
Sample(t) == [start |-> t - 1, stop |-> t, flag |-> FlagAt(t - 1)]

Records(f, segs, from, to) ==
  f = [t \in from..to |-> IF t = from THEN segs ELSE AddSegment(f[t - 1], Sample(t))]

\* The samples can be recorded one after the other.
LEMMA RecordExists ==
  ASSUME NEW segs, NEW from \in Nat, NEW to \in Nat, from <= to
  PROVE  \E f : Records(f, segs, from, to)
<1> DEFINE S == {n \in Nat : from <= n /\ n <= to /\ ~\E f : Records(f, segs, from, n)}
<1>1. SUFFICES ASSUME S # {} PROVE FALSE
  OBVIOUS
<1>2. PICK m \in S : \A n \in S : m <= n
  <2>1. S \in SUBSET Nat
    OBVIOUS
  <2> HIDE DEF S
  <2> QED
    BY <1>1, <2>1, Least
<1>3. m \in Nat /\ from <= m /\ m <= to /\ ~\E f : Records(f, segs, from, m)
  OBVIOUS
<1>4. CASE m = from
  <2> DEFINE g == [t \in from..from |-> segs]
  <2>1. \A t \in from..from : t = from
    OBVIOUS
  <2>2. Records(g, segs, from, from)
    BY <2>1 DEF Records
  <2> QED
    BY <1>3, <1>4, <2>2
<1>5. CASE m # from
  <2>1. m - 1 \in Nat /\ from <= m - 1 /\ m - 1 <= to /\ ~(m <= m - 1)
    BY <1>3, <1>5
  <2>2. PICK f : Records(f, segs, from, m - 1)
    BY <1>2, <2>1
  <2> DEFINE g == [t \in from..m |-> IF t = m THEN AddSegment(f[m - 1], Sample(m))
                                     ELSE f[t]]
             h == [t \in from..m |-> IF t = from THEN segs
                                     ELSE AddSegment(g[t - 1], Sample(t))]
  <2>3. f = [t \in from..(m - 1) |-> IF t = from THEN segs
                                    ELSE AddSegment(f[t - 1], Sample(t))]
    BY <2>2 DEF Records
  <2>4. ASSUME NEW t \in from..m
        PROVE  g[t] = h[t]
    <3>1. CASE t = m
      <4>1. g[m] = AddSegment(f[m - 1], Sample(m)) /\ g[m - 1] = f[m - 1]
        BY <1>3, <2>1
      <4>2. h[m] = AddSegment(g[m - 1], Sample(m))
        BY <1>3, <1>5
      <4> QED
        BY <3>1, <4>1, <4>2
    <3>2. CASE t # m /\ t # from
      <4>1. t \in from..(m - 1) /\ t - 1 \in from..m /\ t - 1 # m
        BY <1>3, <3>2
      <4>2. f[t] = AddSegment(f[t - 1], Sample(t))
        BY <2>3, <3>2, <4>1
      <4>3. g[t] = f[t] /\ g[t - 1] = f[t - 1]
        BY <3>2, <4>1
      <4>4. h[t] = AddSegment(g[t - 1], Sample(t))
        BY <3>2
      <4> QED
        BY <4>2, <4>3, <4>4
    <3>3. CASE t # m /\ t = from
      <4>1. t \in from..(m - 1)
        BY <1>3, <3>3
      <4>2. f[t] = segs
        BY <2>3, <3>3, <4>1
      <4> QED
        BY <3>3, <4>2
    <3> QED
      BY <3>1, <3>2, <3>3
  <2>5. Records(g, segs, from, m)
    <3>1. g = h
      BY <2>4
    <3> QED
      BY <3>1 DEF Records
  <2> QED
    BY <1>3, <2>5
<1> QED
  BY <1>4, <1>5

\* A segment added to segments before it ends behind all of them.
LEMMA AddedStops ==
  ASSUME NEW segs \in Seq(Segment), NEW new \in Segment, new.start <= new.stop,
         \A i \in DOMAIN segs : segs[i].stop <= new.start
  PROVE  \A i \in DOMAIN AddSegment(segs, new) :
           AddSegment(segs, new)[i].stop <= new.stop
<1>1. \A i \in DOMAIN segs : segs[i] \in Segment /\ segs[i].stop <= new.stop
  <2> TAKE i \in DOMAIN segs
  <2>1. segs[i] \in Segment
    OBVIOUS
  <2> QED
    BY <2>1 DEF Segment
<1>2. CASE Coalesces(segs, new)
  <2>1. AddSegment(segs, new) = [segs EXCEPT ![Len(segs)].stop = new.stop]
    BY <1>2 DEF AddSegment
  <2> QED
    BY <1>1, <2>1 DEF Segment
<1>3. CASE ~Coalesces(segs, new) /\ segs # <<>> /\ IsHeartbeat(Final(segs))
  <2>1. AddSegment(segs, new) = [segs EXCEPT ![Len(segs)] = new]
    BY <1>3 DEF AddSegment
  <2> QED
    BY <1>1, <2>1 DEF Segment
<1>4. CASE ~Coalesces(segs, new) /\ ~(segs # <<>> /\ IsHeartbeat(Final(segs)))
  <2>1. AddSegment(segs, new) = Append(segs, new)
    BY <1>4 DEF AddSegment
  <2> QED
    BY <1>1, <2>1 DEF Segment
<1> QED
  BY <1>2, <1>3, <1>4

\* That a record is in order, ends by a time, and says what earlier segments say and
\* what control said from another time on.
Extended(r, segs, from, to) ==
  /\ r \in Seq(Segment) /\ Ordered(r)
  /\ \A i \in DOMAIN r : r[i].stop <= to
  /\ \A t \in Nat, flag \in BOOLEAN :
       Says(r, t, flag) <=> \/ Says(segs, t, flag)
                            \/ from <= t /\ t < to /\ flag = FlagAt(t)

\* A segment that begins where the record ends extends it.
LEMMA ExtendedBy ==
  ASSUME NEW r \in Seq(Segment), Ordered(r), NEW new \in Segment, new.start <= new.stop,
         \A i \in DOMAIN r : r[i].stop <= new.start
  PROVE  /\ AddSegment(r, new) \in Seq(Segment) /\ Ordered(AddSegment(r, new))
         /\ \A i \in DOMAIN AddSegment(r, new) : AddSegment(r, new)[i].stop <= new.stop
         /\ \A t \in Nat, flag \in BOOLEAN :
              Says(AddSegment(r, new), t, flag)
                <=> \/ Says(r, t, flag)
                    \/ new.start <= t /\ t < new.stop /\ new.flag = flag
<1>1. r # <<>> => Len(r) \in DOMAIN r
  OBVIOUS
<1>2. r # <<>> => Final(r).stop <= new.start
  BY <1>1 DEF Final
<1> QED
  BY <1>2, SegmentAdded, AddedStops

\* The samples of control extend the record.
LEMMA RecordIs ==
  ASSUME NEW segs \in Seq(Segment), Ordered(segs), NEW from \in Nat, NEW to \in Nat,
         \A i \in DOMAIN segs : segs[i].stop <= from,
         NEW f, Records(f, segs, from, to)
  PROVE  \A t \in from..to : Extended(f[t], segs, from, t)
<1> DEFINE S == {t \in Nat : from <= t /\ t <= to /\ ~Extended(f[t], segs, from, t)}
<1>1. SUFFICES ASSUME S # {} PROVE FALSE
  OBVIOUS
<1>2. PICK m \in S : \A n \in S : m <= n
  <2>1. S \in SUBSET Nat
    OBVIOUS
  <2> HIDE DEF S
  <2> QED
    BY <1>1, <2>1, Least
<1>3. m \in Nat /\ from <= m /\ m <= to /\ ~Extended(f[m], segs, from, m)
  OBVIOUS
<1>4. m \in from..to
  BY <1>3
<1>5. f[m] = IF m = from THEN segs ELSE AddSegment(f[m - 1], Sample(m))
  BY <1>4, Zenon DEF Records
<1>6. CASE m = from
  <2>1. \A t \in Nat, flag \in BOOLEAN : ~(from <= t /\ t < from /\ flag = FlagAt(t))
    OBVIOUS
  <2>2. Extended(segs, segs, from, from)
    BY <2>1 DEF Extended
  <2> QED
    BY <1>3, <1>5, <1>6, <2>2
<1>7. CASE m # from
  <2> DEFINE k == m - 1
             r == f[m - 1]
             new == Sample(m)
  <2>1. k \in Nat /\ from <= k /\ k <= to /\ ~(m <= k) /\ m = k + 1
    BY <1>3, <1>7
  <2>2. Extended(r, segs, from, k)
    BY <1>2, <2>1
  <2>3. /\ new \in Segment /\ new.start = k /\ new.stop = m /\ new.flag = FlagAt(k)
        /\ new.start <= new.stop
    <3>1. FlagAt(k) \in BOOLEAN
      BY DEF FlagAt
    <3> QED
      BY <2>1, <3>1 DEF Sample, Segment
  <2>4. f[m] = AddSegment(r, new)
    BY <1>5, <1>7
  <2> HIDE DEF k, r, new
  <2>5. /\ AddSegment(r, new) \in Seq(Segment) /\ Ordered(AddSegment(r, new))
        /\ \A i \in DOMAIN AddSegment(r, new) : AddSegment(r, new)[i].stop <= new.stop
        /\ \A t \in Nat, flag \in BOOLEAN :
             Says(AddSegment(r, new), t, flag)
               <=> \/ Says(r, t, flag)
                   \/ new.start <= t /\ t < new.stop /\ new.flag = flag
    BY <2>2, <2>3, ExtendedBy DEF Extended
  <2>6. ASSUME NEW t \in Nat, NEW flag \in BOOLEAN
        PROVE  Says(f[m], t, flag) <=> \/ Says(segs, t, flag)
                                       \/ from <= t /\ t < m /\ flag = FlagAt(t)
    <3>1. new.start <= t /\ t < new.stop <=> t = k
      BY <2>1, <2>3
    <3>2. from <= t /\ t < m <=> (from <= t /\ t < k) \/ t = k
      BY <2>1
    <3>3. Says(r, t, flag) <=> \/ Says(segs, t, flag)
                               \/ from <= t /\ t < k /\ flag = FlagAt(t)
      BY <2>2 DEF Extended
    <3> QED
      BY <2>3, <2>4, <2>5, <3>1, <3>2, <3>3
  <2>7. Extended(f[m], segs, from, m)
    BY <2>3, <2>4, <2>5, <2>6 DEF Extended
  <2> QED
    BY <1>3, <2>7
<1> QED
  BY <1>6, <1>7

\* A control buffer extends the record by its samples; one of no length by nothing.
LEMMA DigestIs ==
  ASSUME NEW segs \in Seq(Segment), Ordered(segs), set.invert_control \in BOOLEAN,
         controlbuf.start \in Nat, controlbuf.stop \in Nat,
         controlbuf.start <= controlbuf.stop,
         \A i \in DOMAIN segs : segs[i].stop <= controlbuf.start
  PROVE  Extended(Digest(segs), segs, controlbuf.start, controlbuf.stop)
<1> DEFINE from == controlbuf.start
           to == controlbuf.stop
<1>1. CASE from = to
  <2> DEFINE new == [start |-> from, stop |-> to, flag |-> set.invert_control]
  <2>1. Digest(segs) = AddSegment(segs, new)
    BY <1>1 DEF Digest
  <2>2. /\ new \in Segment /\ new.start = from /\ new.stop = to
        /\ new.start <= new.stop
    BY DEF Segment
  <2> HIDE DEF new
  <2>3. /\ AddSegment(segs, new) \in Seq(Segment) /\ Ordered(AddSegment(segs, new))
        /\ \A i \in DOMAIN AddSegment(segs, new) : AddSegment(segs, new)[i].stop <= to
        /\ \A t \in Nat, flag \in BOOLEAN :
             Says(AddSegment(segs, new), t, flag)
               <=> \/ Says(segs, t, flag)
                   \/ from <= t /\ t < to /\ new.flag = flag
    BY <2>2, ExtendedBy
  <2>4. \A t \in Nat : ~(from <= t /\ t < to)
    BY <1>1
  <2> QED
    BY <2>1, <2>3, <2>4 DEF Extended
<1>2. CASE from # to
  <2> DEFINE f == CHOOSE Upto : Records(Upto, segs, from, to)
  <2>1. Records(f, segs, from, to)
    <3>1. \E Upto : Records(Upto, segs, from, to)
      BY RecordExists
    <3> QED
      BY <3>1, Zenon
  <2>2. Digest(segs) = f[to]
    BY <1>2, Zenon DEF Digest, Records, Sample
  <2> HIDE DEF f
  <2>3. to \in from..to
    OBVIOUS
  <2> QED
    BY <2>1, <2>2, <2>3, RecordIs
<1> QED
  BY <1>1, <1>2

-----------------------------------------------------------------------------
(* The segments and the control pad.                                       *)

\* Control has a flag for all times of its buffer.
Heard ==
  \A t \in Nat : controlbuf.start <= t /\ t < controlbuf.stop => t \in DOMAIN above

\* The control buffer, the end of either stream, and the types of the segments.
Controls ==
  /\ controlbuf.start \in Int /\ controlbuf.start <= controlbuf.stop
  /\ controlpc \in Pcs \ {"looping"}
  /\ controlpc # "idle" => controlbuf.start \in Nat /\ Heard
  /\ control_segments \in Seq(Segment) /\ Ordered(control_segments)
  /\ control_eos => controlpc = "idle"
  /\ sink_eos => sinkpc = "idle"

\* The segments say no more than what control has said.
Truthful ==
  /\ \A i \in DOMAIN control_segments : control_segments[i].stop <= Digested
  /\ \A t \in Nat, flag \in BOOLEAN :
       Says(control_segments, t, flag) => t \in DOMAIN above /\ flag = FlagAt(t)

\* What the sink pad may still ask for is in the segments.
Complete ==
  ~sink_eos => \A t \in Nat :
    TMin(sinkbuf) <= t /\ t < Digested /\ t \in DOMAIN above
      => Says(control_segments, t, FlagAt(t))

\* What a step does to the segments.
Unrecorded ==
  /\ control_segments' = control_segments
  /\ sink_eos \/ \A t \in Nat : Digested <= t /\ t < Digested' => t \notin DOMAIN above

Flushes ==
  /\ control_segments' = Flushed(control_segments, TMin(sinkbuf))
  /\ Digested' = Digested /\ sinkbuf' = sinkbuf

Digests ==
  /\ Extended(control_segments', control_segments, Digested, Digested')
  /\ \A t \in Nat : Digested <= t /\ t < Digested' => t \in DOMAIN above
  /\ sinkbuf' = sinkbuf

Clears == control_segments' = <<>> /\ Digested' = Digested /\ sink_eos'

\* The offsets of the element and the interval of a buffer.
LEMMA TimesAre ==
  ASSUME Buffers
  PROVE  /\ set.hold_length \in Int /\ set.attack_length \in Int
         /\ set.invert_control \in BOOLEAN /\ set.default_state \in BOOLEAN
         /\ -set.hold_length \in Int
         /\ Min({-set.hold_length, set.attack_length}) \in Int
         /\ Max({-set.hold_length, set.attack_length}) \in Int
         /\ TMin(sinkbuf) \in Nat /\ TMax(sinkbuf) \in Nat
<1>1. /\ set.hold_length \in Int /\ set.attack_length \in Int
      /\ set.invert_control \in BOOLEAN /\ set.default_state \in BOOLEAN
  BY SettingsAssumption DEF Buffers, Setting
<1> DEFINE b == -set.hold_length
           a == set.attack_length
<1>2. a \in Int /\ b \in Int
  BY <1>1
<1>3. sinkbuf.start \in Int /\ sinkbuf.stop \in Int
  BY DEF Buffers
<1> HIDE DEF a, b
<1>4. Min({b, a}) \in Int /\ Max({b, a}) \in Int
  BY <1>2, OfTwo
<1>5. \A x, y \in Int : AddOffset(x, y) \in Nat
  BY OffsetIs
<1>6. TMin(sinkbuf) \in Nat /\ TMax(sinkbuf) \in Nat
  BY <1>3, <1>4, <1>5 DEF TMin, TMax, a, b
<1> QED
  BY <1>1, <1>2, <1>4, <1>6 DEF a, b

\* The element starts with no segments, and nothing has been said.
LEMMA ControlsInit == Init => Controls /\ Truthful /\ Complete
<1> SUFFICES ASSUME Init PROVE Controls /\ Truthful /\ Complete
  OBVIOUS
<1>1. control_segments = <<>> /\ controlpc = "idle" /\ sinkpc = "idle" /\ Digested = 0
  BY DEF Init, Digested, Buffer
<1>2. Controls
  BY <1>1 DEF Init, Controls, Buffer, Pcs, Ordered
<1>3. Truthful /\ Complete
  BY <1>1 DEF Truthful, Complete, Says
<1> QED
  BY <1>2, <1>3

\* A step of the control pad: what is received follows what was digested, and what is
\* digested is added to the segments.
LEMMA ControlThreadStep ==
  ASSUME IInv, Controls, Truthful, ControlThread
  PROVE  /\ Controls' /\ Digested' \in Nat /\ Digested <= Digested'
         /\ UNCHANGED <<set, above, sinkbuf, sink_eos, at, out>>
         /\ sinkpc' \in {sinkpc, Woken(sinkpc)}
         /\ ~control_eos
         /\ control_eos' => Digested' = Digested
         /\ Unrecorded \/ Digests
<1>0. controlbuf.stop \in Nat /\ set.invert_control \in BOOLEAN
  BY TimesAre DEF IInv, Buffers
<1>1. CASE ControlReceive \/ TeePush
  <2>1. /\ UNCHANGED <<set, above, control_segments, sinkbuf, sink_eos, control_eos, at,
                       out, sinkpc>>
        /\ controlpc = "idle" /\ controlpc' = "ready" /\ ~control_eos
    BY <1>1 DEF ControlReceive, TeePush, input, sink
  <2>2. PICK n \in 0..MaxLength, hole \in 0..MaxHole, gap \in BOOLEAN :
          NextControl(hole, n, gap)
    BY <1>1 DEF ControlReceive, TeePush
  <2>3. /\ controlbuf' \in [start : Nat, stop : Nat, gap : BOOLEAN, discont : BOOLEAN]
        /\ controlbuf'.start <= controlbuf'.stop /\ controlbuf.stop <= controlbuf'.start
        /\ \A t \in Nat : controlbuf.stop <= t /\ t < controlbuf'.stop
             => (t \in DOMAIN above <=> controlbuf'.start <= t)
    BY <1>0, <2>2, NextBuffer
  <2>4. Digested = controlbuf.stop /\ Digested' = controlbuf'.start
    BY <2>1 DEF Digested
  <2> DEFINE b == controlbuf.stop
             from == controlbuf'.start
             to == controlbuf'.stop
             D == DOMAIN above
  <2>5. /\ b \in Nat /\ from \in Nat /\ to \in Nat /\ b <= from /\ from <= to
        /\ \A t \in Nat : b <= t /\ t < to => (t \in D <=> from <= t)
    BY <1>0, <2>3
  <2> HIDE DEF b, from, to, D
  <2>6. /\ \A t \in Nat : b <= t /\ t < from => t \notin D
        /\ \A t \in Nat : from <= t /\ t < to => t \in D
    <3>1. \A t \in Nat : b <= t /\ t < from => t < to /\ ~(from <= t)
      BY <2>5
    <3>2. \A t \in Nat : from <= t /\ t < to => b <= t
      BY <2>5
    <3> QED
      BY <2>5, <3>1, <3>2
  <2>7. Heard'
    BY <2>1, <2>6 DEF Heard, from, to, D
  <2>8. Controls'
    BY <1>0, <2>1, <2>5, <2>7 DEF Controls, Pcs, from, to
  <2>9. Unrecorded
    BY <2>1, <2>4, <2>6 DEF Unrecorded, b, from, D
  <2> QED
    BY <1>0, <2>1, <2>4, <2>5, <2>8, <2>9 DEF b, from
<1>2. CASE ControlChain
  <2>1. /\ UNCHANGED <<set, above, sinkbuf, sink_eos, control_eos, at, out, controlbuf>>
        /\ controlpc \in {"ready", "awake"}
    BY <1>2 DEF ControlChain, input
  <2>0. Heard /\ Heard'
    BY <2>1 DEF Controls, Heard
  <2>2. ~control_eos /\ Digested = controlbuf.start /\ controlbuf.start \in Nat
    BY <2>1 DEF Controls, Digested
  <2>3. CASE /\ controlpc' = "asleep" /\ UNCHANGED <<control_segments, sinkpc>>
    <3>1. Digested' = Digested
      BY <2>1, <2>2, <2>3 DEF Digested
    <3>2. Controls'
      BY <2>0, <2>1, <2>2, <2>3 DEF Controls, Pcs
    <3>3. \A t \in Nat : ~(Digested <= t /\ t < Digested')
      BY <2>2, <3>1
    <3> QED
      BY <2>1, <2>2, <2>3, <3>1, <3>2, <3>3 DEF Unrecorded
  <2>4. CASE sink_eos /\ controlpc' = "idle" /\ UNCHANGED <<control_segments, sinkpc>>
    <3>1. Digested' = controlbuf.stop
      BY <2>1, <2>4 DEF Digested
    <3>2. Controls'
      BY <2>1, <2>2, <2>4 DEF Controls, Pcs
    <3> QED
      BY <1>0, <2>1, <2>2, <2>4, <3>1, <3>2 DEF Unrecorded, Controls
  <2>5. CASE /\ ~sink_eos /\ control_segments' = Digest(control_segments)
             /\ controlpc' = "idle" /\ sinkpc' = Woken(sinkpc)
    <3>1. Digested' = controlbuf.stop /\ controlbuf.start <= controlbuf.stop
      BY <2>1, <2>5 DEF Digested, Controls
    <3>2. Extended(control_segments', control_segments, Digested, Digested')
      <4>1. Extended(Digest(control_segments), control_segments, controlbuf.start,
                     controlbuf.stop)
        BY <1>0, <2>2, <3>1, DigestIs DEF Controls, Truthful
      <4> QED
        BY <2>2, <2>5, <3>1, <4>1
    <3>3. Controls'
      BY <2>1, <2>2, <2>5, <3>1, <3>2 DEF Controls, Pcs, Extended
    <3>4. Digests
      BY <2>0, <2>1, <2>2, <3>1, <3>2 DEF Digests, Heard
    <3> QED
      BY <1>0, <2>1, <2>2, <2>5, <3>1, <3>3, <3>4
  <2> QED
    BY <1>2, <2>3, <2>4, <2>5 DEF ControlChain
<1>3. CASE ControlEos
  <2>1. /\ UNCHANGED <<set, above, sinkbuf, sink_eos, at, out, controlbuf, controlpc,
                       control_segments>>
        /\ controlpc = "idle" /\ ~control_eos /\ sinkpc' = Woken(sinkpc)
    BY <1>3 DEF ControlEos, input, control
  <2>2. Digested' = Digested /\ Digested = controlbuf.stop
    BY <2>1 DEF Digested
  <2>3. Controls'
    BY <2>1 DEF Controls, Woken, Pcs
  <2>4. \A t \in Nat : ~(Digested <= t /\ t < Digested')
    BY <1>0, <2>2
  <2> QED
    BY <1>0, <2>1, <2>2, <2>3, <2>4 DEF Unrecorded
<1> QED
  BY <1>1, <1>2, <1>3 DEF ControlThread

\* A step of the sink pad leaves what control has said; it flushes what is over, or
\* everything at the end.
LEMMA SinkThreadStep ==
  ASSUME IInv, Controls, Truthful, SinkThread
  PROVE  /\ Controls' /\ Digested' = Digested /\ Digested \in Nat
         /\ UNCHANGED <<set, above, control_eos>>
         /\ sink_eos => sink_eos'
         /\ Unrecorded \/ Flushes \/ Clears
<1>0. /\ controlbuf.stop \in Nat /\ controlbuf.start \in Int /\ TMin(sinkbuf) \in Nat
      /\ Digested \in Nat
  BY TimesAre DEF IInv, Buffers, Controls, Digested
<1>1. CASE SinkReceive \/ SinkLoop
  <2>1. /\ UNCHANGED <<set, above, control_segments, control_eos, sink_eos, controlpc,
                       controlbuf>>
        /\ ~sink_eos
    BY <1>1 DEF SinkReceive, SinkLoop, input, control, Controls
  <2>2. Digested' = Digested /\ Controls'
    BY <2>1 DEF Digested, Controls, Heard
  <2>3. \A t \in Nat : ~(Digested <= t /\ t < Digested')
    BY <1>0, <2>2
  <2> QED
    BY <1>0, <2>1, <2>2, <2>3 DEF Unrecorded
<1>2. CASE ControlGetInterval
  <2>1. /\ UNCHANGED <<set, above, control_eos, sink_eos, controlbuf, sinkbuf>>
        /\ control_segments' = Flushed(control_segments, TMin(sinkbuf))
        /\ controlpc' \in {controlpc, Woken(controlpc)} /\ sinkpc # "idle"
    BY <1>2 DEF ControlGetInterval, input
  <2>2. /\ controlpc' = "idle" <=> controlpc = "idle"
        /\ controlpc' \in Pcs \ {"looping"}
    BY <2>1 DEF Controls, Woken, Pcs
  <2>3. Digested' = Digested
    BY <2>1, <2>2 DEF Digested
  <2>4. control_segments' \in Seq(Segment) /\ Ordered(control_segments')
    BY <1>0, <2>1, SegmentsFlushed DEF Controls
  <2>5. Controls'
    BY <2>1, <2>2, <2>4 DEF Controls, Heard
  <2> QED
    BY <1>0, <2>1, <2>3, <2>5 DEF Flushes
<1>3. CASE SinkEos
  <2>1. /\ UNCHANGED <<set, above, control_eos, controlbuf, sinkbuf, sinkpc>>
        /\ control_segments' = <<>> /\ sink_eos' /\ sinkpc = "idle"
        /\ controlpc' = Woken(controlpc)
    BY <1>3 DEF SinkEos, input, sink
  <2>2. /\ controlpc' = "idle" <=> controlpc = "idle"
        /\ controlpc' \in Pcs \ {"looping"}
    BY <2>1 DEF Controls, Woken, Pcs
  <2>3. Digested' = Digested
    BY <2>1, <2>2 DEF Digested
  <2>4. Controls'
    BY <2>1, <2>2 DEF Controls, Ordered, Heard
  <2> QED
    BY <1>0, <2>1, <2>3, <2>4 DEF Clears
<1> QED
  BY <1>1, <1>2, <1>3 DEF SinkThread

\* The segments stay true to what control has said.
LEMMA TruthfulStep ==
  ASSUME IInv, Controls, Truthful, UNCHANGED <<set, above>>,
         Digested \in Nat, Digested' \in Nat, Digested <= Digested',
         Unrecorded \/ Flushes \/ Digests \/ Clears
  PROVE  Truthful'
<1>1. /\ control_segments \in Seq(Segment) /\ Ordered(control_segments)
      /\ TMin(sinkbuf) \in Nat
      /\ \A i \in DOMAIN control_segments : /\ control_segments[i].stop \in Nat
                                            /\ control_segments[i].stop <= Digested
  <2>1. \A i \in DOMAIN control_segments : control_segments[i] \in Segment
    BY DEF Controls
  <2> QED
    BY <2>1, TimesAre DEF Controls, Truthful, Segment, IInv
<1>2. \A t : FlagAt(t)' = FlagAt(t)
  BY DEF FlagAt
<1>3. CASE Unrecorded \/ Clears
  <2>1. control_segments' = control_segments \/ control_segments' = <<>>
    BY <1>3 DEF Unrecorded, Clears
  <2>2. CASE control_segments' = control_segments
    <3>1. \A i \in DOMAIN control_segments : control_segments[i].stop <= Digested'
      BY <1>1
    <3> QED
      BY <1>2, <2>2, <3>1 DEF Truthful
  <2>3. CASE control_segments' = <<>>
    BY <2>3 DEF Truthful, Says
  <2> QED
    BY <2>1, <2>2, <2>3
<1>4. CASE Flushes
  <2>1. control_segments' = Flushed(control_segments, TMin(sinkbuf)) /\ Digested' = Digested
    BY <1>4 DEF Flushes
  <2>2. \A i \in DOMAIN control_segments' :
          \E j \in DOMAIN control_segments : control_segments'[i] = control_segments[j]
    BY <1>1, <2>1, SegmentsFlushed
  <2>3. \A t \in Nat, flag \in BOOLEAN :
          Says(control_segments', t, flag) => Says(control_segments, t, flag)
    BY <2>2 DEF Says
  <2> QED
    BY <1>1, <1>2, <2>1, <2>2, <2>3 DEF Truthful
<1>5. CASE Digests
  <2>1. /\ \A i \in DOMAIN control_segments' : control_segments'[i].stop <= Digested'
        /\ \A t \in Nat, flag \in BOOLEAN :
             Says(control_segments', t, flag) =>
               \/ Says(control_segments, t, flag)
               \/ t \in DOMAIN above /\ flag = FlagAt(t)
    BY <1>5 DEF Digests, Extended
  <2> QED
    BY <1>2, <2>1 DEF Truthful
<1> QED
  BY <1>3, <1>4, <1>5

\* The segments are in order, and whatever they say of a time control has said of it,
\* whatever the lengths of its buffers, and however digesting, flushing and clearing
\* interleave.
LEMMA ControlsStep ==
  IInv /\ Controls /\ Truthful /\ [Next]_vars => Controls' /\ Truthful'
<1> SUFFICES ASSUME IInv, Controls, Truthful, [Next]_vars PROVE Controls' /\ Truthful'
  OBVIOUS
<1>1. CASE ControlThread
  BY <1>1, ControlThreadStep, TruthfulStep DEF Unrecorded, Digests, Controls, IInv,
     Buffers, Digested
<1>2. CASE SinkThread
  BY <1>2, SinkThreadStep, TruthfulStep
<1>3. CASE Finished \/ UNCHANGED vars
  <2>1. UNCHANGED vars
    BY <1>3 DEF Finished
  <2>2. UNCHANGED <<set, above, control_segments, sinkbuf, sink_eos, control_eos, sinkpc,
                    controlpc, controlbuf>>
    BY <2>1 DEF vars, input, control, sink
  <2> QED
    BY <2>2 DEF Controls, Truthful, FlagAt, Digested, Heard
<1> QED
  BY <1>1, <1>2, <1>3 DEF Next

\* The segments never overlap and never say more than control has said, for any
\* properties of the element, any control input and any lengths of its buffers: no
\* coalescing, heartbeat or flush, in whatever order the two threads run, makes the
\* record of control_add_segment say something else of a time.
THEOREM SegmentsAreTrue == Spec => []SegmentsTrue
<1>1. IInv /\ Controls /\ Truthful => SegmentsTrue
  <2> SUFFICES ASSUME Controls, Truthful, IInv PROVE SegmentsTrue
    OBVIOUS
  <2>1. ASSUME NEW t \in 0..(MaxTime - 1), NEW flag \in BOOLEAN,
               Says(control_segments, t, flag)
        PROVE  /\ t < Digested /\ t \in DOMAIN above
               /\ flag = (above[t] # set.invert_control)
    <3>1. t \in Nat
      BY SettingsAssumption
    <3>2. PICK i \in DOMAIN control_segments : t < control_segments[i].stop
      BY <2>1 DEF Says
    <3>3. control_segments[i].stop \in Nat /\ control_segments[i].stop <= Digested
      <4>1. control_segments[i] \in Segment
        BY DEF Controls
      <4> QED
        BY <4>1 DEF Truthful, Segment
    <3>4. Digested \in Int
      BY DEF Digested, Controls, IInv, Buffers
    <3>5. t \in DOMAIN above /\ flag = FlagAt(t)
      BY <2>1, <3>1 DEF Truthful
    <3> QED
      BY <3>1, <3>2, <3>3, <3>4, <3>5 DEF FlagAt
  <2> QED
    BY <2>1 DEF SegmentsTrue, Controls
<1> QED
  BY InitIInv, NextIInv, ControlsInit, ControlsStep, <1>1, PTL DEF Spec

-----------------------------------------------------------------------------
(* The flags of what is pushed.                                            *)

\* The times of control that the code looks at for a time of the input: a window that
\* ends before attack, or has this one time only.  Those that control has reached.
Reach(t) ==
  LET from == AddOffset(t, -set.hold_length)
      to   == AddOffset(t, set.attack_length)
  IN  IF from <= to THEN from..Max({from, to - 1}) ELSE to..(from - 1)

Reached(t) == {u \in Reach(t) : u < Digested /\ u \in DOMAIN above}

\* What they decide.
Decided(t) ==
  IF Reached(t) = {} THEN set.default_state
  ELSE IF AddOffset(t, -set.hold_length) <= AddOffset(t, set.attack_length)
  THEN \E u \in Reached(t) : FlagAt(u)
  ELSE \A u \in Reached(t) : FlagAt(u)

\* While a buffer is looped over, control spans the times it depends on.
Spanned ==
  sinkpc = "looping" =>
    control_eos \/ (TMax(sinkbuf) <= Digested /\ TMin(sinkbuf) < Digested)

\* What was pushed depends on no control that is still to come, and has its flag.
Settled ==
  \A i \in DOMAIN out : \A t \in out[i].start..(out[i].stop - 1) :
    /\ t \in Nat /\ (out[i].was => out[i].gap = TRUE)
    /\ ~out[i].was => /\ control_eos \/ \A u \in Reach(t) : u < Digested
                      /\ out[i].gap = ~Decided(t)

Flags == Complete /\ Spanned /\ Settled

\* Later times are never before those that are flushed.
LEMMA TMinMoves ==
  ASSUME Buffers, Buffers', set' = set, sinkbuf.start <= sinkbuf'.start
  PROVE  /\ TMin(sinkbuf) \in Nat /\ TMin(sinkbuf)' \in Nat
         /\ TMin(sinkbuf) <= TMin(sinkbuf)'
<1> DEFINE m == Min({-set.hold_length, set.attack_length})
<1>1. m \in Int /\ m' = m
  BY TimesAre
<1>2. /\ sinkbuf.start \in Int /\ sinkbuf'.start \in Int
      /\ TMin(sinkbuf) = AddOffset(sinkbuf.start, m)
      /\ TMin(sinkbuf)' = AddOffset(sinkbuf'.start, m)
  BY DEF Buffers, TMin, AddOffset
<1> DEFINE s == sinkbuf.start
           r == sinkbuf'.start
<1> HIDE DEF m
<1>3. s \in Int /\ r \in Int /\ s <= r
  BY <1>2
<1> HIDE DEF s, r
<1>4. /\ AddOffset(s, m) = IF s + m >= 0 THEN s + m ELSE 0
      /\ AddOffset(r, m) = IF r + m >= 0 THEN r + m ELSE 0
  BY <1>1, <1>3, OffsetsAre
<1>5. /\ AddOffset(s, m) \in Nat /\ AddOffset(r, m) \in Nat
      /\ AddOffset(s, m) <= AddOffset(r, m)
  BY <1>1, <1>3, <1>4
<1> QED
  BY <1>2, <1>5 DEF s, r

\* A time of a buffer depends on times within the interval of the buffer, or on the
\* first one alone.
LEMMA ReachWithin ==
  ASSUME Buffers, sinkbuf.start \in Nat, NEW t \in Nat, sinkbuf.start <= t,
         t < sinkbuf.stop
  PROVE  /\ Reach(t) # {}
         /\ \A u \in Reach(t) : /\ u \in Nat /\ TMin(sinkbuf) <= u
                                /\ u < TMax(sinkbuf) \/ u = TMin(sinkbuf)
<1> DEFINE h == -set.hold_length
           a == set.attack_length
           from == AddOffset(t, h)
           to == AddOffset(t, a)
<1>1. h \in Int /\ a \in Int
  BY TimesAre
<1>2. sinkbuf.stop \in Nat
  BY DEF Buffers
<1>3. TMin(sinkbuf) = AddOffset(sinkbuf.start, Min({h, a}))
  BY DEF TMin
<1>4. TMax(sinkbuf) = AddOffset(sinkbuf.stop, Max({h, a}))
  BY DEF TMax
<1>5. Reach(t) = IF from <= to THEN from..Max({from, to - 1}) ELSE to..(from - 1)
  BY DEF Reach
<1>12. \A x, y \in Int : AddOffset(x, y) = IF x + y >= 0 THEN x + y ELSE 0
  BY OffsetIs
<1> HIDE DEF h, a
<1>6. /\ from = IF t + h >= 0 THEN t + h ELSE 0
      /\ to = IF t + a >= 0 THEN t + a ELSE 0
  <2>1. t \in Int
    OBVIOUS
  <2> QED
    BY <1>1, <1>12, <2>1
<1> HIDE DEF from, to
<1>7. from \in Nat /\ to \in Nat
  BY <1>1, <1>6
<1>8. Max({from, to - 1}) = IF from >= to - 1 THEN from ELSE to - 1
  BY <1>7, OfTwo
<1>9. /\ Min({h, a}) = IF h <= a THEN h ELSE a
      /\ Max({h, a}) = IF h >= a THEN h ELSE a
  BY <1>1, OfTwo
<1> DEFINE s == sinkbuf.start
           e == sinkbuf.stop
           lo == TMin(sinkbuf)
           hi == TMax(sinkbuf)
<1>13. s \in Int /\ e \in Int /\ s <= t /\ t < e /\ t \in Int /\ s >= 0
  BY <1>2
<1>10. CASE h <= a
  <2>1. lo = AddOffset(s, h) /\ hi = AddOffset(e, a)
    BY <1>1, <1>3, <1>4, <1>9, <1>10
  <2> HIDE DEF lo, hi, s, e
  <2>2. /\ lo = IF s + h >= 0 THEN s + h ELSE 0
        /\ hi = IF e + a >= 0 THEN e + a ELSE 0
    BY <1>1, <1>12, <1>13, <2>1
  <2>3. /\ from <= to /\ lo <= from /\ to - 1 < hi
        /\ from < hi \/ from = lo
    BY <1>1, <1>6, <1>10, <1>13, <2>2
  <2>4. lo \in Int /\ hi \in Int
    BY <1>1, <1>13, <2>2
  <2>5. Reach(t) = from..(IF from >= to - 1 THEN from ELSE to - 1)
    BY <1>5, <1>8, <2>3
  <2>6. from \in Reach(t)
    BY <1>7, <2>5
  <2>7. ASSUME NEW u \in Reach(t)
        PROVE  u \in Nat /\ lo <= u /\ (u < hi \/ u = lo)
    <3>1. u \in Int /\ from <= u /\ u <= IF from >= to - 1 THEN from ELSE to - 1
      BY <1>7, <2>5, <2>7
    <3> QED
      BY <1>7, <2>3, <2>4, <3>1
  <2> QED
    BY <2>6, <2>7 DEF lo, hi
<1>11. CASE ~(h <= a)
  <2>1. lo = AddOffset(s, a) /\ hi = AddOffset(e, h)
    BY <1>1, <1>3, <1>4, <1>9, <1>11
  <2> HIDE DEF lo, hi, s, e
  <2>2. /\ lo = IF s + a >= 0 THEN s + a ELSE 0
        /\ hi = IF e + h >= 0 THEN e + h ELSE 0
    BY <1>1, <1>12, <1>13, <2>1
  <2>3. /\ to <= from /\ lo <= to /\ from - 1 < hi
        /\ from <= to => from = to /\ (from < hi \/ from = lo)
    BY <1>1, <1>6, <1>11, <1>13, <2>2
  <2>4. lo \in Int /\ hi \in Int
    BY <1>1, <1>13, <2>2
  <2>5. Reach(t) = to..(IF from <= to THEN from ELSE from - 1)
    BY <1>5, <1>7, <1>8, <2>3
  <2>6. to \in Reach(t)
    BY <1>7, <2>3, <2>5
  <2>7. ASSUME NEW u \in Reach(t)
        PROVE  u \in Nat /\ lo <= u /\ (u < hi \/ u = lo)
    <3>1. u \in Int /\ to <= u /\ u <= IF from <= to THEN from ELSE from - 1
      BY <1>7, <2>5, <2>7
    <3> QED
      BY <1>7, <2>3, <2>4, <3>1
  <2> QED
    BY <2>6, <2>7 DEF lo, hi
<1> QED
  BY <1>1, <1>10, <1>11

\* That the times of a window are those from a first to before another.
Spans(t, from, to) == \A u \in Nat : u \in Reach(t) <=> from <= u /\ u < to

\* That a segment about these times has the flag.
Found(from, to, flag) ==
  \E i \in DOMAIN control_segments :
    /\ control_segments[i].stop > from /\ control_segments[i].start < to
    /\ ~IsHeartbeat(control_segments[i]) /\ control_segments[i].flag = flag

\* The flags that control_get_state finds are what control said of those times.
LEMMA FlagsFound ==
  ASSUME IInv, Controls, Truthful, Complete, ~sink_eos, sinkbuf.start \in Nat,
         NEW t \in Nat, sinkbuf.start <= t, t < sinkbuf.stop,
         NEW from \in Nat, NEW to \in Nat,
         Spans(t, from, to), NEW flag \in BOOLEAN
  PROVE  Found(from, to, flag) <=> \E u \in Reached(t) : flag = FlagAt(u)
<1>0. \A u \in Nat : u \in Reach(t) <=> from <= u /\ u < to
  BY DEF Spans
<1>r. /\ Reach(t) # {}
      /\ \A u \in Reach(t) : /\ u \in Nat /\ TMin(sinkbuf) <= u
                             /\ u < TMax(sinkbuf) \/ u = TMin(sinkbuf)
  BY ReachWithin DEF IInv
<1>3. \A u \in Reach(t) : u \in Nat /\ TMin(sinkbuf) <= u
  BY <1>r
<1> DEFINE segs == control_segments
<1>1. \A i \in DOMAIN segs : /\ segs[i].start \in Nat /\ segs[i].stop \in Nat
                              /\ segs[i].start <= segs[i].stop
                              /\ segs[i].stop <= Digested
  <2>1. \A i \in DOMAIN segs : segs[i] \in Segment
    BY DEF Controls
  <2> QED
    BY <2>1 DEF Controls, Ordered, Truthful, Segment
<1>2. Digested \in Int
  BY DEF Digested, Controls, IInv, Buffers
<1>4. ASSUME NEW i \in DOMAIN segs, segs[i].stop > from, segs[i].start < to,
             ~IsHeartbeat(segs[i]), segs[i].flag = flag
      PROVE  \E u \in Reached(t) : flag = FlagAt(u)
  <2> DEFINE u == IF segs[i].start >= from THEN segs[i].start ELSE from
  <2>1. segs[i].start < segs[i].stop
    BY <1>1, <1>4 DEF IsHeartbeat
  <2>2. from < to
    <3>1. Reach(t) # {}
      BY ReachWithin DEF IInv
    <3>2. PICK v \in Reach(t) : v \in Nat
      BY <1>3, <3>1
    <3>3. from <= v /\ v < to
      BY <1>0, <3>2
    <3> QED
      BY <3>2, <3>3
  <2>3. /\ u \in Nat /\ from <= u /\ u < to /\ segs[i].start <= u /\ u < segs[i].stop
    BY <1>1, <1>4, <2>1, <2>2
  <2> HIDE DEF u
  <2>4. u < Digested
    BY <1>1, <1>2, <2>3
  <2>5. Says(control_segments, u, flag)
    BY <1>4, <2>3 DEF Says
  <2>6. u \in DOMAIN above /\ flag = FlagAt(u)
    BY <2>3, <2>5 DEF Truthful
  <2>7. u \in Reached(t)
    BY <1>0, <2>3, <2>4, <2>6 DEF Reached
  <2> QED
    BY <2>6, <2>7
<1>5. ASSUME NEW u \in Reached(t), flag = FlagAt(u)
      PROVE  \E i \in DOMAIN segs : /\ segs[i].stop > from /\ segs[i].start < to
                                    /\ ~IsHeartbeat(segs[i]) /\ segs[i].flag = flag
  <2>1. /\ u \in Reach(t) /\ u \in Nat /\ u < Digested /\ TMin(sinkbuf) <= u
        /\ u \in DOMAIN above
    BY <1>2, <1>3 DEF Reached
  <2>2. from <= u /\ u < to
    BY <1>0, <2>1
  <2>3. Says(control_segments, u, flag)
    BY <1>5, <2>1 DEF Complete
  <2>4. PICK i \in DOMAIN segs : segs[i].start <= u /\ u < segs[i].stop /\ segs[i].flag = flag
    BY <2>3 DEF Says
  <2>5. segs[i].stop > from /\ segs[i].start < to /\ segs[i].start # segs[i].stop
    BY <1>1, <2>1, <2>2, <2>4
  <2> QED
    BY <2>4, <2>5 DEF IsHeartbeat
<1> QED
  BY <1>4, <1>5 DEF Found

\* Whatever is still in the segments, the state of a time of the buffer that is looped
\* over is what control asks for.
LEMMA StateIsDecided ==
  ASSUME IInv, Controls, Truthful, Complete, Spanned, sinkpc = "looping",
         NEW t \in Nat, sinkbuf.start <= t, t < sinkbuf.stop
  PROVE  /\ State(t) = Decided(t)
         /\ control_eos \/ \A u \in Reach(t) : u < Digested
<1>1. sinkbuf.start \in Nat /\ ~sink_eos
  BY DEF IInv, Buffers, Controls
<1>2. /\ Reach(t) # {}
      /\ \A u \in Reach(t) : /\ u \in Nat /\ TMin(sinkbuf) <= u
                             /\ u < TMax(sinkbuf) \/ u = TMin(sinkbuf)
  BY <1>1, ReachWithin DEF IInv
<1>3. Digested \in Int /\ TMin(sinkbuf) \in Nat /\ TMax(sinkbuf) \in Nat
  BY TimesAre DEF Digested, Controls, IInv, Buffers
<1>4. control_eos \/ \A u \in Reach(t) : u < Digested
  BY <1>2, <1>3 DEF Spanned
<1> DEFINE tmin == AddOffset(t, -set.hold_length)
           tmax == AddOffset(t, set.attack_length)
           from == Min({tmin, tmax})
           to == IF tmin = tmax THEN tmin + 1 ELSE Max({tmin, tmax})
           found == {j \in DOMAIN control_segments :
                       /\ control_segments[j].stop > from
                       /\ control_segments[j].start < to
                       /\ ~IsHeartbeat(control_segments[j])}
           states == {s.flag : s \in {control_segments[i] : i \in found}}
<1>5. tmin \in Nat /\ tmax \in Nat
  <2>1. -set.hold_length \in Int /\ set.attack_length \in Int /\ t \in Int
    BY TimesAre DEF IInv
  <2> QED
    BY <2>1, OffsetsAre, Zenon
<1>6. State(t) = IF states = {} THEN set.default_state
                 ELSE IF tmax < tmin THEN FALSE \notin states ELSE TRUE \in states
  BY DEF State, ControlGetState
<1>7. Decided(t) = IF Reached(t) = {} THEN set.default_state
                ELSE IF tmin <= tmax THEN \E u \in Reached(t) : FlagAt(u)
                ELSE \A u \in Reached(t) : FlagAt(u)
  BY DEF Decided, Reached, Reach, FlagAt
<1>8. Reach(t) = IF tmin <= tmax THEN tmin..Max({tmin, tmax - 1}) ELSE tmax..(tmin - 1)
  BY DEF Reach
<1> HIDE DEF tmin, tmax
<1>9. /\ Min({tmin, tmax}) = IF tmin <= tmax THEN tmin ELSE tmax
      /\ Max({tmin, tmax}) = IF tmin >= tmax THEN tmin ELSE tmax
      /\ Max({tmin, tmax - 1}) = IF tmin >= tmax - 1 THEN tmin ELSE tmax - 1
  BY <1>5, OfTwo
<1>10. /\ from = IF tmin <= tmax THEN tmin ELSE tmax
       /\ to = IF tmin = tmax THEN tmin + 1 ELSE IF tmin >= tmax THEN tmin ELSE tmax
       /\ from \in Nat /\ to \in Nat
  BY <1>5, <1>9
<1>11. \A u \in Nat : u \in Reach(t) <=> from <= u /\ u < to
  <2> HIDE DEF from, to
  <2> QED
    BY <1>5, <1>8, <1>9, <1>10
<1> HIDE DEF from, to
<1>12. \A flag \in BOOLEAN : flag \in states <=> \E u \in Reached(t) : flag = FlagAt(u)
  <2> SUFFICES ASSUME NEW flag \in BOOLEAN
               PROVE  flag \in states <=> \E u \in Reached(t) : flag = FlagAt(u)
    OBVIOUS
  <2>1. flag \in states <=> \E i \in found : control_segments[i].flag = flag
    BY Zenon
  <2>2. (\E i \in DOMAIN control_segments :
           /\ control_segments[i].stop > from /\ control_segments[i].start < to
           /\ ~IsHeartbeat(control_segments[i]) /\ control_segments[i].flag = flag)
          <=> \E u \in Reached(t) : flag = FlagAt(u)
    <3>1. PICK lo \in Nat, hi \in Nat : lo = from /\ hi = to
      BY <1>10
    <3>2. Spans(t, lo, hi)
      BY <1>11, <3>1 DEF Spans
    <3>3. Found(lo, hi, flag) <=> \E u \in Reached(t) : flag = FlagAt(u)
      BY <1>1, <3>2, FlagsFound
    <3> QED
      BY <3>1, <3>3 DEF Found
  <2> QED
    BY <2>1, <2>2, Zenon
<1>13. states \subseteq BOOLEAN
  <2>1. \A i \in DOMAIN control_segments : control_segments[i] \in Segment
    BY DEF Controls
  <2>2. \A i \in DOMAIN control_segments : control_segments[i].flag \in BOOLEAN
    BY <2>1 DEF Segment
  <2> QED
    BY <2>2, Zenon
<1> HIDE DEF states, found
<1>14. \A u \in Reached(t) : FlagAt(u) \in BOOLEAN
  BY DEF FlagAt
<1>15. states = {} <=> Reached(t) = {}
  BY <1>12, <1>13, <1>14, Zenon
<1>16. /\ TRUE \in states <=> \E u \in Reached(t) : FlagAt(u)
       /\ FALSE \notin states <=> \A u \in Reached(t) : FlagAt(u)
  <2>1. \A u \in Reached(t) : (TRUE = FlagAt(u) <=> FlagAt(u)) /\ (FALSE = FlagAt(u) <=> ~FlagAt(u))
    BY <1>14, Zenon
  <2> QED
    BY <1>12, <2>1, Zenon
<1>17. tmax < tmin <=> ~(tmin <= tmax)
  BY <1>5
<1>18. State(t) = Decided(t)
  <2>1. CASE Reached(t) = {}
    BY <1>6, <1>7, <1>15, <2>1, Zenon
  <2>2. CASE Reached(t) # {} /\ tmin <= tmax
    <3>1. State(t) = (TRUE \in states)
      BY <1>6, <1>15, <1>17, <2>2
    <3>2. Decided(t) = \E u \in Reached(t) : FlagAt(u)
      BY <1>7, <2>2, Zenon
    <3>3. (TRUE \in states) <=> \E u \in Reached(t) : FlagAt(u)
      BY <1>16
    <3>4. (TRUE \in states) \in BOOLEAN
      OBVIOUS
    <3>5. (\E u \in Reached(t) : FlagAt(u)) \in BOOLEAN
      OBVIOUS
    <3>6. (TRUE \in states) = \E u \in Reached(t) : FlagAt(u)
      BY <3>3, <3>4, <3>5
    <3> QED
      BY <3>1, <3>2, <3>6, Zenon
  <2>3. CASE Reached(t) # {} /\ ~(tmin <= tmax)
    <3>1. State(t) = (FALSE \notin states)
      BY <1>6, <1>15, <1>17, <2>3
    <3>2. Decided(t) = \A u \in Reached(t) : FlagAt(u)
      BY <1>7, <2>3, Zenon
    <3>3. (FALSE \notin states) = \A u \in Reached(t) : FlagAt(u)
      BY <1>16, Zenon
    <3> QED
      BY <3>1, <3>2, <3>3, Zenon
  <2> QED
    BY <2>1, <2>2, <2>3
<1> QED
  BY <1>4, <1>18

\* Up to the end of a piece the state is that of its beginning.
LEMMA RunEndState ==
  ASSUME NEW t \in Nat, sinkbuf.stop \in Nat, t < sinkbuf.stop,
         NEW u \in t..(RunEnd(t) - 1)
  PROVE  State(u) = State(t)
<1> DEFINE S == {sinkbuf.stop}
                  \union {v \in (t + 1)..(sinkbuf.stop - 1) : State(v) # State(t)}
<1>1. S \in SUBSET Nat /\ S # {}
  OBVIOUS
<1>2. RunEnd(t) = Min(S)
  BY DEF RunEnd
<1>3. RunEnd(t) \in (t + 1)..sinkbuf.stop
  BY RunEndAhead
<1>4. \A x \in S : RunEnd(t) <= x
  <2> HIDE DEF S
  <2> QED
    BY <1>1, <1>2, Least
<1>5. u \in Int /\ t <= u /\ u < RunEnd(t)
  BY <1>3
<1>6. CASE u = t
  BY <1>6
<1>7. CASE u # t
  <2>1. u \in (t + 1)..(sinkbuf.stop - 1)
    BY <1>3, <1>5, <1>7
  <2>2. u \notin S
    BY <1>3, <1>4, <1>5
  <2> QED
    BY <2>1, <2>2
<1> QED
  BY <1>6, <1>7

\* A time depends on times.
LEMMA ReachTimes ==
  ASSUME Buffers, NEW t \in Nat
  PROVE  \A u \in Reach(t) : u \in Nat
<1> DEFINE from == AddOffset(t, -set.hold_length)
           to == AddOffset(t, set.attack_length)
<1>1. from \in Nat /\ to \in Nat
  <2>1. -set.hold_length \in Int /\ set.attack_length \in Int /\ t \in Int
    BY TimesAre
  <2> QED
    BY <2>1, OffsetsAre, Zenon
<1>2. Reach(t) = IF from <= to THEN from..Max({from, to - 1}) ELSE to..(from - 1)
  BY DEF Reach
<1> HIDE DEF from, to
<1>3. Max({from, to - 1}) \in Int
  BY <1>1, OfTwo
<1> QED
  BY <1>1, <1>2, <1>3

\* What a time asks for does not change with control that it does not depend on.
LEMMA DecidedKept ==
  ASSUME Buffers, NEW t \in Nat, UNCHANGED <<set, above>>,
         Digested \in Nat, Digested' \in Nat, Digested <= Digested',
         Digested' = Digested \/ \A u \in Reach(t) : u < Digested
  PROVE  Decided(t)' = Decided(t) /\ Reach(t)' = Reach(t)
<1>1. Reach(t)' = Reach(t)
  BY DEF Reach, AddOffset
<1>2. \A u \in Reach(t) : u \in Nat
  BY ReachTimes
<1>3. Reached(t)' = Reached(t)
  <2>1. CASE Digested' = Digested
    BY <1>1, <2>1 DEF Reached
  <2>2. CASE \A u \in Reach(t) : u < Digested
    <3>1. \A u \in Reach(t) : u < Digested /\ u < Digested'
      BY <1>2, <2>2
    <3> QED
      BY <1>1, <3>1 DEF Reached
  <2> QED
    BY <2>1, <2>2
<1>4. Decided(t) = IF Reached(t) = {} THEN set.default_state
                ELSE IF AddOffset(t, -set.hold_length) <= AddOffset(t, set.attack_length)
                THEN \E u \in Reached(t) : above[u] # set.invert_control
                ELSE \A u \in Reached(t) : above[u] # set.invert_control
  BY DEF Decided, FlagAt
<1>5. Decided(t)' = IF Reached(t)' = {} THEN set'.default_state
                 ELSE IF AddOffset(t, -set'.hold_length) <= AddOffset(t, set'.attack_length)
                 THEN \E u \in Reached(t)' : above'[u] # set'.invert_control
                 ELSE \A u \in Reached(t)' : above'[u] # set'.invert_control
  BY DEF Decided, FlagAt, AddOffset
<1>6. set' = set /\ above' = above
  OBVIOUS
<1> QED
  BY <1>1, <1>3, <1>4, <1>5, <1>6

\* Nothing is looped over or pushed at the start.
LEMMA FlagsInit == Init => Spanned /\ Settled
BY DEF Init, Spanned, Settled

\* Where nothing is pushed, what was pushed keeps its flags.
LEMMA SettledKept ==
  ASSUME IInv, Settled, UNCHANGED <<set, above, out>>, Digested \in Nat, Digested' \in Nat,
         Digested <= Digested', control_eos => control_eos' /\ Digested' = Digested
  PROVE  Settled'
<1> SUFFICES ASSUME NEW i \in DOMAIN out,
                    NEW t \in out[i].start..(out[i].stop - 1)
             PROVE  /\ t \in Nat /\ (out[i].was => out[i].gap = TRUE)
                    /\ ~out[i].was => /\ control_eos' \/ \A u \in Reach(t)' : u < Digested'
                                      /\ out[i].gap = ~Decided(t)'
  BY DEF Settled
<1>1. /\ t \in Nat /\ (out[i].was => out[i].gap = TRUE)
      /\ ~out[i].was => /\ control_eos \/ \A u \in Reach(t) : u < Digested
                        /\ out[i].gap = ~Decided(t)
  BY DEF Settled
<1>2. ASSUME ~out[i].was
      PROVE  Decided(t)' = Decided(t) /\ Reach(t)' = Reach(t)
  BY <1>1, <1>2, DecidedKept DEF IInv
<1>3. ASSUME ~out[i].was, NEW u \in Reach(t), u < Digested
      PROVE  u < Digested'
  <2>1. u \in Int
    BY <1>1, ReachTimes DEF IInv
  <2> QED
    BY <1>3, <2>1
<1>4. CASE out[i].was
  BY <1>1, <1>4
<1>5. CASE ~out[i].was
  <2>1. out[i].gap = ~Decided(t)'
    BY <1>1, <1>2, <1>5
  <2>2. control_eos' \/ \A u \in Reach(t)' : u < Digested'
    BY <1>1, <1>2, <1>3, <1>5
  <2> QED
    BY <1>1, <1>5, <2>1, <2>2
<1> QED
  BY <1>4, <1>5

\* The control pad adds to what the sink pad has and may still ask for.
LEMMA FlagsControl ==
  ASSUME IInv, Controls, Truthful, Flags, ControlThread
  PROVE  Flags'
<1>1. /\ Digested \in Nat /\ Digested' \in Nat /\ Digested <= Digested'
      /\ UNCHANGED <<set, above, sinkbuf, sink_eos, at, out>>
      /\ sinkpc' \in {sinkpc, Woken(sinkpc)} /\ ~control_eos
      /\ Unrecorded \/ Digests
  BY ControlThreadStep DEF Digested, Controls, IInv, Buffers
<1>2. Complete /\ Spanned /\ Settled
  BY DEF Flags
<1>3. TMin(sinkbuf)' = TMin(sinkbuf) /\ TMax(sinkbuf)' = TMax(sinkbuf)
  BY <1>1 DEF TMin, TMax, AddOffset
<1>4. \A t : FlagAt(t)' = FlagAt(t)
  BY <1>1 DEF FlagAt
<1>5. Complete'
  <2> SUFFICES ASSUME ~sink_eos, NEW t \in Nat, TMin(sinkbuf) <= t, t < Digested',
                      t \in DOMAIN above
               PROVE  Says(control_segments', t, FlagAt(t))
    BY <1>1, <1>3, <1>4 DEF Complete
  <2>1. CASE Unrecorded
    <3>1. t < Digested
      BY <1>1, <2>1 DEF Unrecorded
    <3> QED
      BY <1>2, <2>1, <3>1 DEF Complete, Unrecorded
  <2>2. CASE Digests
    <3>1. FlagAt(t) \in BOOLEAN
      BY DEF FlagAt
    <3>2. Says(control_segments', t, FlagAt(t))
            <=> (Says(control_segments, t, FlagAt(t)) \/ (Digested <= t /\ t < Digested'))
      BY <2>2, <3>1 DEF Digests, Extended
    <3>3. t < Digested => Says(control_segments, t, FlagAt(t))
      BY <1>2 DEF Complete
    <3> QED
      BY <1>1, <3>2, <3>3
  <2> QED
    BY <1>1, <2>1, <2>2
<1>6. Spanned'
  <2>1. sinkpc' = "looping" => sinkpc = "looping"
    BY <1>1 DEF Woken
  <2>2. TMin(sinkbuf) \in Nat /\ TMax(sinkbuf) \in Nat
    BY TimesAre DEF IInv
  <2> QED
    BY <1>1, <1>2, <1>3, <2>1, <2>2 DEF Spanned
<1>7. Settled'
  BY <1>1, <1>2, SettledKept
<1> QED
  BY <1>5, <1>6, <1>7 DEF Flags

\* A turn of the loop pushes a piece with the flag that control asks for.
LEMMA FlagsLoop ==
  ASSUME IInv, Controls, Truthful, Flags, SinkLoop
  PROVE  Flags'
<1>1. /\ Digested' = Digested /\ Digested \in Nat
      /\ UNCHANGED <<set, above, control_eos, sinkbuf, control_segments, sink_eos>>
      /\ sinkpc = "looping"
  BY SinkThreadStep DEF SinkThread, SinkLoop, input
<1>2. Complete /\ Spanned /\ Settled
  BY DEF Flags
<1>3. TMin(sinkbuf)' = TMin(sinkbuf) /\ TMax(sinkbuf)' = TMax(sinkbuf)
  BY <1>1 DEF TMin, TMax, AddOffset
<1>4. \A t : FlagAt(t)' = FlagAt(t)
  BY <1>1 DEF FlagAt
<1>5. Complete' /\ Spanned'
  BY <1>1, <1>2, <1>3, <1>4 DEF Complete, Spanned
<1>6. /\ sinkbuf.start \in Nat /\ sinkbuf.stop \in Nat /\ at \in Nat
      /\ sinkbuf.start <= at /\ sinkbuf.gap \in BOOLEAN
      /\ sinkbuf.start < sinkbuf.stop => at < sinkbuf.stop
  BY <1>1 DEF IInv, Buffers, InBuffer
<1>7. ASSUME NEW t \in Nat
      PROVE  Decided(t)' = Decided(t) /\ Reach(t)' = Reach(t)
  BY <1>1, DecidedKept DEF IInv
<1>8. out \in Seq([start : Int, stop : Int, gap : BOOLEAN, discont : BOOLEAN,
                  was : BOOLEAN])
  BY DEF IInv, HoleKnown
<1>9. ASSUME out' = out
      PROVE  Settled'
  BY <1>1, <1>2, <1>9, SettledKept
<1>10. ASSUME NEW from \in Nat, NEW to \in Int, NEW gap \in BOOLEAN, Push(from, to, gap),
              sinkbuf.gap => gap = TRUE,
              ~sinkbuf.gap => \A t \in from..(to - 1) :
                /\ gap = ~Decided(t)
                /\ control_eos \/ \A u \in Reach(t) : u < Digested
       PROVE  Settled'
  <2> DEFINE piece == [start |-> from, stop |-> to, gap |-> gap,
                       discont |-> need_discont, was |-> sinkbuf.gap]
             n == Len(out)
  <2>1. out' = Append(out, piece)
    BY <1>10 DEF Push
  <2>2. /\ piece.start = from /\ piece.stop = to /\ piece.gap = gap
        /\ piece.was = sinkbuf.gap
    OBVIOUS
  <2> HIDE DEF piece
  <2>3. /\ DOMAIN out = 1..n /\ DOMAIN out' = 1..(n + 1) /\ out'[n + 1] = piece
        /\ n \in Nat /\ \A i \in 1..n : out'[i] = out[i]
    BY <1>8, <2>1
  <2> HIDE DEF n
  <2> SUFFICES ASSUME NEW i \in 1..(n + 1),
                      NEW t \in out'[i].start..(out'[i].stop - 1)
               PROVE  /\ t \in Nat /\ (out'[i].was => out'[i].gap = TRUE)
                      /\ ~out'[i].was =>
                           /\ control_eos \/ \A u \in Reach(t)' : u < Digested
                           /\ out'[i].gap = ~Decided(t)'
    BY <1>1, <2>3 DEF Settled
  <2>4. CASE i = n + 1
    <3>1. out'[i] = piece /\ t \in from..(to - 1) /\ t \in Nat
      BY <2>2, <2>3, <2>4
    <3> QED
      BY <1>7, <1>10, <2>2, <3>1
  <2>5. CASE i # n + 1
    <3>1. i \in DOMAIN out /\ out'[i] = out[i]
      BY <2>3, <2>5
    <3>2. /\ t \in Nat /\ (out[i].was => out[i].gap = TRUE)
          /\ ~out[i].was => /\ control_eos \/ \A u \in Reach(t) : u < Digested
                            /\ out[i].gap = ~Decided(t)
      BY <1>2, <3>1 DEF Settled
    <3> QED
      BY <1>7, <3>1, <3>2
  <2> QED
    BY <2>4, <2>5
<1>11. Settled'
  <2>1. \/ Drop
        \/ /\ sinkbuf.start = sinkbuf.stop /\ Push(at, at, sinkbuf.gap)
        \/ /\ sinkbuf.gap /\ Push(sinkbuf.start, sinkbuf.stop, TRUE)
        \/ /\ sinkbuf.start < sinkbuf.stop /\ ~sinkbuf.gap
           /\ Push(at, RunEnd(at), ~State(at))
    BY Zenon DEF SinkLoop
  <2>2. CASE Drop
    BY <1>9, <2>2 DEF Drop
  <2>3. CASE sinkbuf.start = sinkbuf.stop /\ Push(at, at, sinkbuf.gap)
    <3>1. \A t \in at..(at - 1) : FALSE
      BY <1>6
    <3>2. at \in Nat /\ at \in Int /\ sinkbuf.gap \in BOOLEAN
      BY <1>6
    <3>3. sinkbuf.gap => sinkbuf.gap = TRUE
      BY <3>2
    <3> QED
      BY <1>10, <2>3, <3>1, <3>2, <3>3, Zenon
  <2>4. CASE sinkbuf.gap /\ Push(sinkbuf.start, sinkbuf.stop, TRUE)
    <3>1. sinkbuf.start \in Nat /\ sinkbuf.stop \in Int /\ TRUE \in BOOLEAN
      BY <1>6
    <3> QED
      BY <1>10, <2>4, <3>1, Zenon
  <2>5. CASE /\ sinkbuf.start < sinkbuf.stop /\ ~sinkbuf.gap
             /\ Push(at, RunEnd(at), ~State(at))
    <3>1. RunEnd(at) \in (at + 1)..sinkbuf.stop
      BY <1>6, <2>5, RunEndAhead
    <3>2. ASSUME NEW t \in at..(RunEnd(at) - 1)
          PROVE  /\ (~State(at)) = ~Decided(t)
                 /\ control_eos \/ \A u \in Reach(t) : u < Digested
      <4>1. State(t) = State(at)
        BY <1>6, <2>5, RunEndState
      <4>2. t \in Nat /\ sinkbuf.start <= t /\ t < sinkbuf.stop
        BY <1>6, <3>1
      <4>3. /\ State(t) = Decided(t)
            /\ control_eos \/ \A u \in Reach(t) : u < Digested
        BY <1>1, <1>2, <4>2, StateIsDecided
      <4> QED
        BY <4>1, <4>3, Zenon
    <3>3. (~State(at)) \in BOOLEAN /\ RunEnd(at) \in Int
      BY <3>1
    <3> QED
      BY <1>6, <1>10, <2>5, <3>2, <3>3, Zenon
  <2> QED
    BY <2>1, <2>2, <2>3, <2>4, <2>5
<1> QED
  BY <1>5, <1>11 DEF Flags

\* control_get_interval flushes what no later buffer asks for, and waits until what is
\* left spans the interval.
LEMMA FlagsInterval ==
  ASSUME IInv, Controls, Truthful, Flags, ControlGetInterval
  PROVE  Flags'
<1> DEFINE segs == control_segments
           kept == Flushed(control_segments, TMin(sinkbuf))
<1>1. /\ Digested' = Digested /\ Digested \in Nat
      /\ UNCHANGED <<set, above, control_eos, sinkbuf, sink_eos, out>>
      /\ sinkpc' = IF control_eos \/ (kept # <<>> /\ Final(kept).stop >= TMax(sinkbuf))
                   THEN "looping" ELSE "asleep"
      /\ control_segments' = kept
  BY SinkThreadStep DEF SinkThread, ControlGetInterval, input
<1>2. Complete /\ Spanned /\ Settled
  BY DEF Flags
<1>3. TMin(sinkbuf)' = TMin(sinkbuf) /\ TMax(sinkbuf)' = TMax(sinkbuf)
  BY <1>1 DEF TMin, TMax, AddOffset
<1>4. \A t : FlagAt(t)' = FlagAt(t)
  BY <1>1 DEF FlagAt
<1>5. TMin(sinkbuf) \in Nat /\ TMax(sinkbuf) \in Nat
  BY TimesAre DEF IInv
<1>6. /\ kept \in Seq(Segment)
      /\ \A i \in DOMAIN kept : /\ kept[i].stop > TMin(sinkbuf)
                                /\ \E j \in DOMAIN segs : kept[i] = segs[j]
      /\ \A t \in Nat, flag \in BOOLEAN :
           TMin(sinkbuf) <= t => (Says(kept, t, flag) <=> Says(segs, t, flag))
  BY <1>5, SegmentsFlushed DEF Controls
<1>7. Complete'
  <2> SUFFICES ASSUME ~sink_eos, NEW t \in Nat, TMin(sinkbuf) <= t, t < Digested,
                      t \in DOMAIN above
               PROVE  Says(kept, t, FlagAt(t))
    BY <1>1, <1>3, <1>4 DEF Complete
  <2>1. FlagAt(t) \in BOOLEAN
    BY DEF FlagAt
  <2>2. Says(segs, t, FlagAt(t))
    BY <1>2 DEF Complete
  <2> QED
    BY <1>6, <2>1, <2>2
<1>8. Spanned'
  <2> SUFFICES ASSUME kept # <<>>, Final(kept).stop >= TMax(sinkbuf)
               PROVE  TMax(sinkbuf) <= Digested /\ TMin(sinkbuf) < Digested
    BY <1>1, <1>3 DEF Spanned
  <2>1. Len(kept) \in DOMAIN kept /\ Final(kept) = kept[Len(kept)]
    <3> HIDE DEF kept
    <3> QED
      BY <1>6 DEF Final
  <2>2. PICK j \in DOMAIN segs : Final(kept) = segs[j]
    BY <1>6, <2>1
  <2>3. segs[j].stop \in Nat /\ segs[j].stop <= Digested
    <3>1. segs[j] \in Segment
      BY DEF Controls
    <3> QED
      BY <3>1 DEF Truthful, Segment
  <2>4. Final(kept).stop > TMin(sinkbuf)
    BY <1>6, <2>1
  <2> HIDE DEF kept, segs
  <2> QED
    BY <1>1, <1>5, <2>2, <2>3, <2>4
<1>9. Settled'
  BY <1>1, <1>2, SettledKept
<1> QED
  BY <1>7, <1>8, <1>9 DEF Flags

\* A new buffer asks for no earlier control than the last one.
LEMMA FlagsReceive ==
  ASSUME IInv, Controls, Truthful, Flags, SinkReceive, Buffers'
  PROVE  Flags'
<1>1. /\ Digested' = Digested /\ Digested \in Nat
      /\ UNCHANGED <<set, above, control_eos, sink_eos, out, control_segments>>
      /\ sinkpc' = "ready"
  BY SinkThreadStep DEF SinkThread, SinkReceive, input
<1>2. Complete /\ Spanned /\ Settled
  BY DEF Flags
<1>3. /\ TMin(sinkbuf) \in Nat /\ TMin(sinkbuf)' \in Nat
      /\ TMin(sinkbuf) <= TMin(sinkbuf)'
  <2>1. sinkbuf.start <= sinkbuf'.start
    BY Received DEF IInv, Buffers
  <2> QED
    BY <1>1, <2>1, TMinMoves DEF IInv
<1>4. \A t : FlagAt(t)' = FlagAt(t)
  BY <1>1 DEF FlagAt
<1>5. Complete'
  <2> SUFFICES ASSUME ~sink_eos, NEW t \in Nat, TMin(sinkbuf)' <= t, t < Digested,
                      t \in DOMAIN above
               PROVE  Says(control_segments, t, FlagAt(t))
    BY <1>1, <1>4 DEF Complete
  <2>1. TMin(sinkbuf) <= t
    BY <1>3
  <2> QED
    BY <1>2, <2>1 DEF Complete
<1>6. Spanned'
  BY <1>1 DEF Spanned
<1>7. Settled'
  BY <1>1, <1>2, SettledKept
<1> QED
  BY <1>5, <1>6, <1>7 DEF Flags

\* Every step keeps the flags of what was pushed.
LEMMA FlagsStep ==
  IInv /\ Controls /\ Truthful /\ Flags /\ [Next]_vars => Flags'
<1> SUFFICES ASSUME IInv, Controls, Truthful, Flags, [Next]_vars PROVE Flags'
  OBVIOUS
<1>1. CASE ControlThread
  BY <1>1, FlagsControl
<1>2. CASE SinkReceive
  <2>1. Buffers'
    BY NextIInv DEF IInv
  <2> QED
    BY <1>2, <2>1, FlagsReceive
<1>3. CASE ControlGetInterval
  BY <1>3, FlagsInterval
<1>4. CASE SinkLoop
  BY <1>4, FlagsLoop
<1>5. CASE SinkEos
  <2>1. /\ Digested' = Digested /\ Digested \in Nat /\ sink_eos'
        /\ UNCHANGED <<set, above, control_eos, out>> /\ sinkpc' = "idle"
    BY <1>5, SinkThreadStep DEF SinkThread, SinkEos, input, sink
  <2>2. Settled'
    BY <2>1, SettledKept DEF Flags
  <2> QED
    BY <2>1, <2>2 DEF Flags, Complete, Spanned
<1>6. CASE Finished \/ UNCHANGED vars
  <2>1. UNCHANGED vars
    BY <1>6 DEF Finished
  <2>2. UNCHANGED <<set, above, control_segments, sinkbuf, sink_eos, control_eos, sinkpc,
                    controlpc, controlbuf, out>>
    BY <2>1 DEF vars, input, control, sink
  <2>3. /\ TMin(sinkbuf)' = TMin(sinkbuf) /\ TMax(sinkbuf)' = TMax(sinkbuf)
        /\ Digested' = Digested /\ Digested \in Nat /\ Digested <= Digested
        /\ \A t : FlagAt(t)' = FlagAt(t)
    <3>1. Digested \in Nat
      BY DEF Digested, Controls, IInv, Buffers
    <3> QED
      BY <2>2, <3>1 DEF TMin, TMax, AddOffset, Digested, FlagAt
  <2>4. Settled'
    BY <2>2, <2>3, SettledKept DEF Flags
  <2> QED
    BY <2>2, <2>3, <2>4 DEF Flags, Complete, Spanned
<1> QED
  BY <1>1, <1>2, <1>3, <1>4, <1>5, <1>6 DEF Next, SinkThread

\* What the code looks at is a part of the documented window.
LEMMA ReachInWindow ==
  ASSUME Buffers, NEW t \in Nat
  PROVE  Reach(t) # {} /\ Reach(t) \subseteq Window(t)
<1> DEFINE from == AddOffset(t, -set.hold_length)
           to == AddOffset(t, set.attack_length)
<1>1. from \in Nat /\ to \in Nat
  <2>1. -set.hold_length \in Int /\ set.attack_length \in Int /\ t \in Int
    BY TimesAre
  <2> QED
    BY <2>1, OffsetsAre, Zenon
<1>2. /\ Reach(t) = IF from <= to THEN from..Max({from, to - 1}) ELSE to..(from - 1)
      /\ Window(t) = Min({from, to})..Max({from, to})
  BY DEF Reach, Window
<1> HIDE DEF from, to
<1>3. /\ Max({from, to - 1}) = IF from >= to - 1 THEN from ELSE to - 1
      /\ Min({from, to}) = IF from <= to THEN from ELSE to
      /\ Max({from, to}) = IF from >= to THEN from ELSE to
  BY <1>1, OfTwo
<1>4. CASE from <= to
  <2>1. /\ Reach(t) = from..(IF from >= to - 1 THEN from ELSE to - 1)
        /\ Window(t) = from..to
    BY <1>1, <1>2, <1>3, <1>4
  <2>2. from \in Reach(t)
    BY <1>1, <2>1
  <2>3. \A u \in Reach(t) : u \in Window(t)
    BY <1>1, <1>4, <2>1
  <2> QED
    BY <2>2, <2>3
<1>5. CASE ~(from <= to)
  <2>1. Reach(t) = to..(from - 1) /\ Window(t) = to..from
    BY <1>1, <1>2, <1>3, <1>5
  <2>2. to \in Reach(t)
    BY <1>1, <1>5, <2>1
  <2>3. \A u \in Reach(t) : u \in Window(t)
    BY <1>1, <2>1
  <2> QED
    BY <2>2, <2>3
<1> QED
  BY <1>4, <1>5

\* Where control leaves no choice, a part of the window decides like the whole of it.
LEMMA DecidedIs ==
  ASSUME Buffers, NEW t \in Nat
  PROVE  /\ Known(t) = {} => Decided(t) = set.default_state
         /\ Known(t) = Window(t) => \A flag \in BOOLEAN :
              (\A u \in Window(t) : FlagAt(u) = flag) => Decided(t) = flag
<1>1. Reach(t) # {} /\ Reach(t) \subseteq Window(t)
  BY ReachInWindow
<1>2. ASSUME Known(t) = {}
      PROVE  Decided(t) = set.default_state
  <2>1. Reached(t) = {}
    BY <1>1, <1>2 DEF Known, Reached
  <2> QED
    BY <2>1 DEF Decided
<1>3. ASSUME Known(t) = Window(t), NEW flag \in BOOLEAN,
             \A u \in Window(t) : FlagAt(u) = flag
      PROVE  Decided(t) = flag
  <2>1. Reached(t) = Reach(t)
    BY <1>1, <1>3 DEF Known, Reached
  <2>2. \A u \in Reached(t) : FlagAt(u) = flag
    BY <1>1, <1>3, <2>1
  <2>3. PICK v : v \in Reached(t)
    BY <1>1, <2>1
  <2>4. (\E u \in Reached(t) : FlagAt(u)) = flag
    <3>1. CASE flag
      BY <2>2, <2>3, <3>1
    <3>2. CASE ~flag
      BY <2>2, <3>2
    <3> QED
      BY <3>1, <3>2
  <2>5. (\A u \in Reached(t) : FlagAt(u)) = flag
    <3>1. CASE flag
      BY <2>2, <3>1
    <3>2. CASE ~flag
      BY <2>2, <2>3, <3>2
    <3> QED
      BY <3>1, <3>2
  <2>6. Reached(t) # {}
    BY <2>3
  <2>7. \/ Decided(t) = \E u \in Reached(t) : FlagAt(u)
        \/ Decided(t) = \A u \in Reached(t) : FlagAt(u)
    BY <2>6, Zenon DEF Decided
  <2> QED
    BY <2>4, <2>5, <2>7
<1> QED
  BY <1>2, <1>3

\* Every sample that is pushed keeps the flag that its own times of the control input
\* ask for, where they leave no choice, for any hold and attack, negative ones included,
\* any control input with holes, any buffers, with or without a tee: a sample is pushed
\* only when control has come as far as it can matter, the segments it needs have not
\* been flushed, and no later control says otherwise.
THEOREM FlagsFollowControl == Spec => []FlagsAgree
<1>1. IInv /\ Flags => FlagsAgree
  <2> SUFFICES ASSUME IInv, Settled, NEW i \in DOMAIN out,
                      NEW t \in out[i].start..(out[i].stop - 1)
               PROVE  IF out[i].was THEN out[i].gap
                      ELSE /\ Known(t) = {} => out[i].gap = ~set.default_state
                           /\ Known(t) = Window(t) => \A flag \in BOOLEAN :
                                (\A u \in Window(t) : FlagAt(u) = flag)
                                  => out[i].gap = ~flag
    BY Zenon DEF FlagsAgree, Flags, FlagAt
  <2>1. /\ t \in Nat /\ (out[i].was => out[i].gap = TRUE)
        /\ ~out[i].was => out[i].gap = ~Decided(t)
    BY DEF Settled
  <2>2. /\ Known(t) = {} => Decided(t) = set.default_state
        /\ Known(t) = Window(t) => \A flag \in BOOLEAN :
             (\A u \in Window(t) : FlagAt(u) = flag) => Decided(t) = flag
    BY <2>1, DecidedIs DEF IInv
  <2>3. CASE out[i].was
    <3>1. out[i].gap = TRUE
      BY <2>1, <2>3
    <3> QED
      BY <2>3, <3>1, Zenon
  <2>4. CASE ~out[i].was
    <3>1. out[i].gap = ~Decided(t)
      BY <2>1, <2>4
    <3> QED
      BY <2>2, <2>4, <3>1, Zenon
  <2> QED
    BY <2>3, <2>4
<1>2. Init => Flags
  BY ControlsInit, FlagsInit DEF Flags
<1> QED
  BY InitIInv, NextIInv, ControlsInit, ControlsStep, <1>2, FlagsStep, <1>1, PTL DEF Spec
=============================================================================
