---------------------------- MODULE Postcoh_proofs ----------------------------
(***************************************************************************)
(* Theorems about cuda_postcoh, for any detectors, lengths and streams:    *)
(* every sample after the first buffers is at its place in the adapters    *)
(* and in the ring buffers, whatever is missing of the streams and however *)
(* they are cut; a detector takes part in a second if and only if it has   *)
(* data in it; and no second is left at the end.                           *)
(***************************************************************************)
EXTENDS Postcoh, FiniteSetTheorems, SequenceTheorems, WellFoundedInduction, TLAPS

-----------------------------------------------------------------------------
(* Numbers.                                                                *)

\* What the lengths are; chisq and the light travel time need no more on both sides
\* of a second than PreservedLen.
LEMMA Lengths ==
  /\ PreservedLen \in Nat /\ ExeLen \in Nat \ {0} /\ HeadLen \in Nat \ {0}
  /\ 2 * HeadLen <= PreservedLen /\ HeadLen < PreservedLen
  /\ OneTakeLen = PreservedLen + ExeLen /\ SnglsnrCpyLen = HeadLen + ExeLen
  /\ SnglsnrLen \in Nat \ {0} /\ PreservedLen + ExeLen <= SnglsnrLen
  /\ Bps \in Nat \ {0} /\ MaxFirst \in Nat
<1>1. HistTrials * TrialSampleInv \in Nat
  BY LengthsAssumption
<1>2. SnglsnrLen = PreservedLen + ExeLen + HistTrials * TrialSampleInv
  BY DEF SnglsnrLen
<1>3. /\ PreservedLen \in Nat \ {0, 1} /\ ExeLen \in Nat \ {0}
      /\ HeadLen = PreservedLen \div 2
  BY LengthsAssumption DEF HeadLen
<1> QED
  BY <1>1, <1>2, <1>3, LengthsAssumption DEF OneTakeLen, SnglsnrCpyLen

\* A set of natural numbers has a least one.
LEMMA Least ==
  ASSUME NEW S \in SUBSET Nat, S # {}
  PROVE  Min(S) \in S /\ \A x \in S : Min(S) <= x
<1> DEFINE R == OpToRel(<, Nat)
<1>1. R = {ss \in Nat \X Nat : ss[1] < ss[2]}
  BY Zenon DEF OpToRel
<1>2. IsWellFoundedOn(R, Nat)
  BY NatLessThanWellFounded, Zenon
<1> HIDE DEF R
<1>3. PICK x \in S : \A y \in S : <<y, x>> \notin R
  BY <1>2, WFMin
<1>4. ASSUME NEW y \in S
      PROVE  x <= y
  <2>1. <<y, x>> \in Nat \X Nat /\ x \in Nat /\ y \in Nat
    OBVIOUS
  <2>2. ~(<<y, x>>[1] < <<y, x>>[2])
    BY <1>1, <1>3, <2>1
  <2> QED
    BY <2>1, <2>2
<1> QED
  BY <1>4 DEF Min

\* The detectors are finitely many and at least one.
LEMMA IfosFinite == IsFiniteSet(Ifos) /\ Ifos # {} /\ 1 \in Ifos /\ Ifos \subseteq Nat
<1>1. Cardinality(Ifos) \in Nat \ {0} /\ Ifos = 1..Cardinality(Ifos)
  BY LengthsAssumption
<1>2. IsFiniteSet(1..Cardinality(Ifos))
  BY <1>1, FS_Interval
<1> QED
  BY <1>1, <1>2

\* Times of finitely many detectors have a bound.
LEMMA Bounded ==
  ASSUME NEW f \in [Ifos -> Nat]
  PROVE  \E m \in Nat : \A d \in Ifos : f[d] <= m
<1> DEFINE N == Cardinality(Ifos)
           S == {k \in Nat : k <= N /\ ~(\E m \in Nat : \A d \in 1..k : f[d] <= m)}
<1>1. N \in Nat /\ Ifos = 1..N
  BY LengthsAssumption
<1> HIDE DEF N
<1>2. CASE S = {}
  <2>1. N \notin S /\ N <= N
    <3> HIDE DEF S
    <3> QED
      BY <1>1, <1>2
  <2> QED
    BY <1>1, <2>1
<1>3. CASE S # {}
  <2>1. PICK k \in S : \A l \in S : k <= l
    <3>1. S \in SUBSET Nat
      OBVIOUS
    <3> QED
      BY <1>3, <3>1, Least
  <2>2. k \in Nat /\ k # 0 /\ k <= N /\ ~(\E m \in Nat : \A d \in 1..k : f[d] <= m)
    <3>1. \E m \in Nat : \A d \in 1..0 : f[d] <= m
      OBVIOUS
    <3> QED
      BY <2>1, <3>1
  <2>3. k - 1 \in Nat /\ k - 1 \notin S /\ k - 1 <= N /\ k \in Ifos
    <3>1. k - 1 \in Nat /\ ~(k <= k - 1) /\ k - 1 <= N /\ k \in Ifos
      BY <1>1, <2>2
    <3> HIDE DEF S
    <3> QED
      BY <2>1, <3>1
  <2>4. PICK m \in Nat : \A d \in 1..(k - 1) : f[d] <= m
    BY <2>3
  <2>5. PICK n \in Nat : m <= n /\ f[k] <= n
    <3>1. f[k] \in Nat
      BY <2>3
    <3>2. (IF f[k] <= m THEN m ELSE f[k]) \in Nat
      BY <3>1
    <3> QED
      BY <3>1
  <2>6. \A d \in 1..k : f[d] <= n
    <3> TAKE d \in 1..k
    <3>1. f[d] \in Nat
      BY <1>1
    <3> QED
      BY <2>4, <2>5, <3>1
  <2> QED
    BY <2>6
<1> QED
  BY <1>2, <1>3

\* A set of natural numbers with a bound has a greatest one.
LEMMA Greatest ==
  ASSUME NEW S \in SUBSET Nat, S # {}, NEW m \in Nat, \A x \in S : x <= m
  PROVE  Max(S) \in S /\ \A x \in S : x <= Max(S)
<1> DEFINE T == {k \in Nat : m - k \in S}
<1>1. T \in SUBSET Nat /\ T # {}
  <2>1. PICK x \in S : TRUE
    OBVIOUS
  <2>2. m - x \in Nat /\ m - (m - x) = x
    BY <2>1
  <2> QED
    BY <2>1, <2>2
<1>2. PICK k \in T : \A l \in T : k <= l
  BY <1>1, Least
<1>3. ASSUME NEW x \in S PROVE x <= m - k
  <2>1. m - x \in Nat /\ m - (m - x) = x
    OBVIOUS
  <2>2. k <= m - x
    BY <1>2, <2>1
  <2> QED
    BY <2>1, <2>2
<1>4. \E x \in S : \A y \in S : x >= y
  BY <1>2, <1>3
<1> QED
  BY <1>4 DEF Max

-----------------------------------------------------------------------------
(* Segments.                                                               *)

\* A segment that begins where the stream has come to, or later, is added in order,
\* and the stream says of every time what it and the segments before said.  So a
\* coalesced segment and a replaced heartbeat lose nothing.
LEMMA SegmentAdded ==
  ASSUME NEW segs \in Seq(Segment), Ordered(segs), NEW new \in Segment,
         new.start <= new.stop, segs # <<>> => Final(segs).stop <= new.start
  PROVE  /\ AddSegment(segs, new) \in Seq(Segment)
         /\ Ordered(AddSegment(segs, new))
         /\ \A t \in Nat, flag \in BOOLEAN :
              Says(AddSegment(segs, new), t, flag)
                <=> \/ Says(segs, t, flag)
                    \/ new.start <= t /\ t < new.stop /\ new.flag = flag
<1> DEFINE n == Len(segs)
           longer == [segs EXCEPT ![n].stop = new.stop]
           replaced == [segs EXCEPT ![n] = new]
<1>1. CASE Coalesces(segs, new)
  <2>1. /\ n \in Nat \ {0} /\ segs[n] \in Segment
        /\ segs[n].stop = new.start /\ segs[n].flag = new.flag
    <3>1. segs # <<>>
      BY <1>1 DEF Coalesces
    <3>2. n \in Nat \ {0} /\ segs[n] \in Segment
      BY <3>1
    <3>3. /\ segs[n].flag = new.flag /\ segs[n].stop >= new.start
          /\ segs[n].stop <= new.start
      BY <1>1, <3>1 DEF Coalesces, Final
    <3> QED
      BY <3>2, <3>3 DEF Segment
  <2>2. AddSegment(segs, new) = longer
    BY <1>1 DEF AddSegment
  <2>3. /\ longer \in Seq(Segment) /\ Len(longer) = n
        /\ longer[n] = [start |-> segs[n].start, stop |-> new.stop, flag |-> new.flag]
        /\ \A i \in 1..n : i # n => longer[i] = segs[i]
    BY <2>1 DEF Segment
  <2>4. Ordered(longer)
    BY SMTT(30), <2>1, <2>3 DEF Ordered, Segment
  <2>5. ASSUME NEW t \in Nat, NEW flag \in BOOLEAN
        PROVE  Says(longer, t, flag)
                 <=> \/ Says(segs, t, flag)
                     \/ new.start <= t /\ t < new.stop /\ new.flag = flag
    <3>1. segs[n].start <= segs[n].stop
      BY <2>1 DEF Ordered
    <3>2. CASE new.start <= t /\ t < new.stop /\ new.flag = flag
      BY <2>1, <2>3, <3>1, <3>2 DEF Says, Segment
    <3>3. CASE ~(new.start <= t /\ t < new.stop /\ new.flag = flag)
      <4>1. \A i \in 1..n : (longer[i].start <= t /\ t < longer[i].stop
                                /\ longer[i].flag = flag)
              <=> (segs[i].start <= t /\ t < segs[i].stop /\ segs[i].flag = flag)
        BY <2>1, <2>3, <3>1, <3>3 DEF Segment
      <4> QED
        BY <2>3, <3>3, <4>1 DEF Says
    <3> QED
      BY <3>2, <3>3
  <2> QED
    BY <2>2, <2>3, <2>4, <2>5
<1>2. CASE /\ ~Coalesces(segs, new)
           /\ segs # <<>> /\ IsHeartbeat(Final(segs))
  <2>1. /\ n \in Nat \ {0} /\ segs[n] \in Segment
        /\ segs[n].start = segs[n].stop /\ segs[n].stop <= new.start
    BY <1>2 DEF IsHeartbeat, Final
  <2>2. AddSegment(segs, new) = replaced
    BY <1>2 DEF AddSegment
  <2>3. /\ replaced \in Seq(Segment) /\ Len(replaced) = n
        /\ DOMAIN replaced = 1..n /\ DOMAIN segs = 1..n /\ replaced[n] = new
        /\ \A i \in 1..n : i # n => replaced[i] = segs[i]
    BY <2>1
  <2> HIDE DEF replaced
  <2>4. Ordered(replaced)
    <3>1. \A i \in 1..n : i < n => segs[i].stop <= segs[n].start
      BY <2>1 DEF Ordered
    <3>2. \A i \in 1..n : segs[i] \in Segment
      OBVIOUS
    <3>3. \A i \in 1..n : replaced[i].start <= replaced[i].stop
      BY <2>3 DEF Ordered
    <3>4. ASSUME NEW i \in 1..n, NEW j \in 1..n, i < j
          PROVE  replaced[i].stop <= replaced[j].start
      <4>0. n \in Nat /\ i # n
        BY <2>1, <3>4
      <4>1. replaced[i] = segs[i] /\ i # n
        BY <2>3, <4>0
      <4>2. CASE j = n
        <5>1. segs[i].stop <= segs[n].start /\ replaced[j] = new
          BY <2>3, <3>1, <3>4, <4>2
        <5> QED
          BY <2>1, <3>2, <4>1, <5>1 DEF Segment
      <4>3. CASE j # n
        BY <2>3, <3>4, <4>1, <4>3 DEF Ordered
      <4> QED
        BY <4>2, <4>3
    <3> QED
      BY <2>3, <3>3, <3>4 DEF Ordered
  <2>5. ASSUME NEW t \in Nat, NEW flag \in BOOLEAN
        PROVE  Says(replaced, t, flag)
                 <=> \/ Says(segs, t, flag)
                     \/ new.start <= t /\ t < new.stop /\ new.flag = flag
    <3>1. ~(segs[n].start <= t /\ t < segs[n].stop)
      BY <2>1 DEF Segment
    <3>2. CASE new.start <= t /\ t < new.stop /\ new.flag = flag
      <4>0. n \in 1..n
        BY <2>1
      <4>1. n \in DOMAIN replaced
        BY <2>3, <4>0
      <4>2. /\ replaced[n].start <= t /\ t < replaced[n].stop
            /\ replaced[n].flag = flag
        BY <2>3, <3>2
      <4> QED
        BY <3>2, <4>1, <4>2 DEF Says
    <3>3. CASE ~(new.start <= t /\ t < new.stop /\ new.flag = flag)
      <4>1. \A i \in 1..n : (replaced[i].start <= t /\ t < replaced[i].stop
                                /\ replaced[i].flag = flag)
              <=> (segs[i].start <= t /\ t < segs[i].stop /\ segs[i].flag = flag)
        BY <2>3, <3>1, <3>3
      <4> QED
        BY <2>3, <3>3, <4>1 DEF Says
    <3> QED
      BY <3>2, <3>3
  <2> QED
    BY <2>2, <2>3, <2>4, <2>5
<1>3. CASE /\ ~Coalesces(segs, new)
           /\ ~(segs # <<>> /\ IsHeartbeat(Final(segs)))
  <2>1. AddSegment(segs, new) = Append(segs, new)
    BY <1>3 DEF AddSegment
  <2>2. /\ n \in Nat /\ Append(segs, new) \in Seq(Segment)
        /\ Len(Append(segs, new)) = n + 1 /\ Append(segs, new)[n + 1] = new
        /\ \A i \in 1..n : Append(segs, new)[i] = segs[i]
    OBVIOUS
  <2>3. \A i \in 1..n : segs[i].stop <= new.start
    <3> SUFFICES ASSUME NEW i \in 1..n PROVE segs[i].stop <= new.start
      OBVIOUS
    <3>1. /\ n \in Nat \ {0} /\ segs[i] \in Segment /\ segs[n] \in Segment
          /\ segs[n].stop <= new.start /\ segs[n].start <= segs[n].stop
      BY DEF Ordered, Final
    <3>2. i < n => segs[i].stop <= segs[n].start
      BY <3>1 DEF Ordered
    <3> QED
      BY <3>1, <3>2 DEF Segment
  <2>4. Ordered(Append(segs, new))
    BY <2>2, <2>3 DEF Ordered
  <2>5. ASSUME NEW t \in Nat, NEW flag \in BOOLEAN
        PROVE  Says(Append(segs, new), t, flag)
                 <=> \/ Says(segs, t, flag)
                     \/ new.start <= t /\ t < new.stop /\ new.flag = flag
    BY <2>2 DEF Says
  <2> QED
    BY <2>1, <2>2, <2>4, <2>5
<1> QED
  BY <1>1, <1>2, <1>3

\* Of segments in order the flushed ones say nothing of later times, and the others
\* are kept.
LEMMA SegmentsFlushed ==
  ASSUME NEW segs \in Seq(Segment), Ordered(segs), NEW now \in Nat
  PROVE  /\ Flushed(segs, now) \in Seq(Segment)
         /\ Ordered(Flushed(segs, now))
         /\ \A i \in DOMAIN Flushed(segs, now) :
              \E j \in DOMAIN segs : Flushed(segs, now)[i] = segs[j]
         /\ \A t \in Nat, flag \in BOOLEAN :
              now <= t => (Says(Flushed(segs, now), t, flag) <=> Says(segs, t, flag))
<1> DEFINE n == Len(segs)
           kept == {i \in DOMAIN segs : segs[i].stop > now}
           low == CHOOSE i \in kept : \A j \in kept : i <= j
           rest == SubSeq(segs, low, n)
<1>0. /\ n \in Nat /\ DOMAIN segs = 1..n
      /\ \A i \in 1..n : /\ segs[i].start \in Nat /\ segs[i].stop \in Nat
                          /\ segs[i] \in Segment
  <2>1. \A i \in 1..n : segs[i] \in Segment
    OBVIOUS
  <2>2. \A x \in Segment : x.start \in Nat /\ x.stop \in Nat
    BY DEF Segment
  <2> QED
    BY <2>1, <2>2
<1>1. CASE kept = {}
  <2>1. Flushed(segs, now) = <<>>
    BY <1>1 DEF Flushed
  <2>2. ASSUME NEW t \in Nat, NEW flag \in BOOLEAN, now <= t
        PROVE  ~Says(segs, t, flag)
    BY <1>0, <1>1, <2>2 DEF Says
  <2> QED
    BY <2>1, <2>2 DEF Ordered, Says
<1>2. CASE kept # {}
  <2>1. Flushed(segs, now) = rest
    BY <1>2 DEF Flushed
  <2>2. /\ low \in 1..n /\ segs[low].stop > now
        /\ \A j \in 1..(low - 1) : segs[j].stop <= now
    <3>1. kept \in SUBSET Nat
      BY <1>0
    <3>2. \E i \in kept : \A j \in kept : i <= j
      <4> HIDE DEF kept
      <4> QED
        BY <1>2, <3>1, Least
    <3>3. low \in kept /\ \A j \in kept : low <= j
      BY <3>2
    <3> HIDE DEF low
    <3> QED
      BY <1>0, <3>3
  <2> HIDE DEF low
  <2>3. /\ rest \in Seq(Segment) /\ Len(rest) = n - low + 1
        /\ \A i \in 1..(n - low + 1) : rest[i] = segs[low + i - 1]
        /\ DOMAIN rest = 1..(n - low + 1)
    BY <1>0, <2>2, SubSeqProperties
  <2> HIDE DEF rest
  <2>4. \A i \in 1..(n - low + 1) : low + i - 1 \in 1..n
    BY <1>0, <2>2
  <2>5. Ordered(rest)
    <3>1. \A i, j \in 1..(n - low + 1) : i < j => low + i - 1 < low + j - 1
      BY <1>0, <2>2
    <3> QED
      BY <1>0, <2>3, <2>4, <3>1 DEF Ordered
  <2>6. ASSUME NEW t \in Nat, NEW flag \in BOOLEAN, now <= t
        PROVE  Says(rest, t, flag) <=> Says(segs, t, flag)
    <3>1. Says(rest, t, flag) => Says(segs, t, flag)
      BY <1>0, <2>3, <2>4 DEF Says
    <3>2. ASSUME NEW j \in 1..n, segs[j].start <= t, t < segs[j].stop, segs[j].flag = flag
          PROVE  Says(rest, t, flag)
      <4>1. j >= low
        BY <1>0, <2>2, <2>6, <3>2
      <4>2. j - low + 1 \in 1..(n - low + 1) /\ low + (j - low + 1) - 1 = j
        BY <1>0, <2>2, <4>1
      <4>3. rest[j - low + 1] = segs[j]
        BY <2>3, <4>2
      <4> QED
        BY <2>3, <3>2, <4>2, <4>3 DEF Says
    <3> QED
      BY <1>0, <3>1, <3>2 DEF Says
  <2> QED
    BY <1>0, <2>1, <2>3, <2>4, <2>5, <2>6
<1> QED
  BY <1>1, <1>2

-----------------------------------------------------------------------------
(* Samples.                                                                *)

Sample == Nat \union {Zero}

\* Zeros are appended for a hole; there is no hole of less than no length.
LEMMA ZerosAre ==
  ASSUME NEW n \in Int
  PROVE  /\ Zeros(n) \in Seq(Sample)
         /\ Len(Zeros(n)) = IF n > 0 THEN n ELSE 0
         /\ \A i \in 1..Len(Zeros(n)) : Zeros(n)[i] = Zero
<1>1. CASE n > 0
  BY <1>1 DEF Zeros, Sample
<1>2. CASE ~(n > 0)
  <2>1. 1..n = {} /\ 1..0 = {}
    BY <1>2
  <2>2. Zeros(n) = [i \in 1..0 |-> Zero]
    BY <2>1 DEF Zeros
  <2> QED
    BY <1>2, <2>2 DEF Sample
<1> QED
  BY <1>1, <1>2

BufferType == [start : Nat, stop : Nat, gap : BOOLEAN]

\* The samples of a buffer are those of its times.
LEMMA SamplesAre ==
  ASSUME NEW b \in BufferType, b.start <= b.stop
  PROVE  /\ Samples(b) \in Seq(Sample) /\ Len(Samples(b)) = b.stop - b.start
         /\ \A i \in 1..(b.stop - b.start) : Samples(b)[i] = b.start + i - 1
<1>1. b.start \in Nat /\ b.stop \in Nat /\ b.stop - b.start \in Nat
  BY DEF BufferType
<1> QED
  BY <1>1 DEF Samples, Sample

\* A buffer cut at the start of the search is as long as it should be, and all of its
\* samples are the same amount too early.
LEMMA SubbufferIs ==
  ASSUME NEW b \in BufferType, NEW t \in Nat, b.start <= t, t < b.stop
  PROVE  LET skew == (t - b.start) - ((t - b.start) \div Bps)
         IN  /\ Subbuffer(b, t) \in Seq(Sample) /\ Len(Subbuffer(b, t)) = b.stop - t
             /\ skew \in Nat
             /\ \A i \in 1..(b.stop - t) : Subbuffer(b, t)[i] = (t + i - 1) - skew
<1>1. /\ b.start \in Nat /\ b.stop \in Nat /\ t - b.start \in Nat /\ b.stop - t \in Nat
      /\ b.stop - b.start - (t - b.start) = b.stop - t
  BY DEF BufferType
<1> DEFINE c == t - b.start
           k == c \div Bps
           n == b.stop - t
<1>2. k \in Nat /\ k <= c /\ c \in Nat
  <2>1. c \in Nat /\ Bps \in Nat \ {0}
    BY <1>1, Lengths
  <2> HIDE DEF c
  <2>2. k \in Nat
    BY <2>1
  <2>3. k <= c
    <3> DEFINE r == c % Bps
    <3>1. r \in 0..(Bps - 1) /\ c = Bps * k + r
      BY <2>1
    <3> HIDE DEF r, k
    <3>2. Bps * k >= k
      BY <2>1, <2>2
    <3>3. Bps * k \in Nat
      BY <2>1, <2>2
    <3> QED
      BY <2>1, <2>2, <3>1, <3>2, <3>3
  <2> QED
    BY <2>1, <2>2, <2>3
<1>3. Subbuffer(b, t) = [i \in 1..n |-> b.start + k + i - 1]
  BY <1>1 DEF Subbuffer
<1>6. n \in Nat /\ b.start \in Nat /\ t = b.start + c
  BY <1>1
<1> HIDE DEF k, n, c
<1>9. [i \in 1..n |-> b.start + k + i - 1] \in Seq(Nat)
  BY <1>2, <1>6
<1>10. Len([i \in 1..n |-> b.start + k + i - 1]) = n
  BY <1>2, <1>6
<1>11. Seq(Nat) \subseteq Seq(Sample)
  BY SeqMonotonic DEF Sample
<1>12. \A i \in 1..n : Subbuffer(b, t)[i] = (t + i - 1) - (c - k)
  <2> TAKE i \in 1..n
  <2>1. Subbuffer(b, t)[i] = b.start + k + i - 1
    BY <1>3
  <2>2. (t + i - 1) - (c - k) = b.start + k + i - 1
    BY <1>2, <1>6
  <2> QED
    BY <2>1, <2>2
<1>13. c - k \in Nat
  BY <1>2
<1> QED
  BY <1>3, <1>9, <1>10, <1>11, <1>12, <1>13 DEF n, c, k

\* A segment added to segments before it ends behind all of them.
LEMMA AddedStops ==
  ASSUME NEW segs \in Seq(Segment), NEW new \in Segment, new.start <= new.stop,
         \A i \in DOMAIN segs : segs[i].stop <= new.start
  PROVE  \A i \in DOMAIN AddSegment(segs, new) :
           AddSegment(segs, new)[i].stop <= new.stop
<1>1. \A i \in DOMAIN segs : segs[i] \in Segment /\ segs[i].stop <= new.stop
  <2> TAKE i \in DOMAIN segs
  <2>1. segs[i] \in Segment
    OBVIOUS
  <2> QED
    BY <2>1 DEF Segment
<1>2. CASE Coalesces(segs, new)
  <2>1. AddSegment(segs, new) = [segs EXCEPT ![Len(segs)].stop = new.stop]
    BY <1>2 DEF AddSegment
  <2> QED
    BY <1>1, <2>1 DEF Segment
<1>3. CASE ~Coalesces(segs, new) /\ segs # <<>> /\ IsHeartbeat(Final(segs))
  <2>1. AddSegment(segs, new) = [segs EXCEPT ![Len(segs)] = new]
    BY <1>3 DEF AddSegment
  <2> QED
    BY <1>1, <2>1 DEF Segment
<1>4. CASE ~Coalesces(segs, new) /\ ~(segs # <<>> /\ IsHeartbeat(Final(segs)))
  <2>1. AddSegment(segs, new) = Append(segs, new)
    BY <1>4 DEF AddSegment
  <2> QED
    BY <1>1, <2>1 DEF Segment
<1> QED
  BY <1>2, <1>3, <1>4

-----------------------------------------------------------------------------
(* The inductive invariant.                                                *)

\* The types of what the invariant speaks of.
Types ==
  /\ pad \in [Ifos -> Seq(BufferType)] /\ \A d \in Ifos : Len(pad[d]) <= 1
  /\ sent \in [Ifos -> Nat]
  /\ have \in [Ifos -> SUBSET Nat] /\ gaps \in [Ifos -> SUBSET Nat]
  /\ t0 \in Nat \union {-1} /\ samples_out \in Nat
  /\ next_offset \in [Ifos -> Nat]
  /\ adapter \in [Ifos -> Seq(Sample)] /\ flag_segments \in [Ifos -> Seq(Segment)]

\* What waits on a pad is what was sent last, and what came before ended before it.
Waiting(d) ==
  /\ gaps[d] \subseteq have[d] /\ \A t \in have[d] : t < sent[d]
  /\ pad[d] # <<>> =>
       /\ Peek(d).start <= Peek(d).stop /\ Peek(d).stop = sent[d]
       /\ \A t \in Nat : Peek(d).start <= t /\ t < Peek(d).stop =>
            t \in have[d] /\ (t \in gaps[d] <=> Peek(d).gap = TRUE)

\* A time not before the buffer that waits.
Later(d, t) == pad[d] # <<>> /\ Peek(d).start <= t

\* The time behind the last sample of an adapter.
End(d) == Second - HeadLen + Len(adapter[d])

\* Until the first buffers are aligned they are all there is.
Unstarted ==
  t0 = -1 =>
    /\ ~is_all_aligned
    /\ \A d \in Ifos : /\ ~is_aligned[d] /\ adapter[d] = <<>>
                       /\ flag_segments[d] = <<>>
                       /\ \A t \in have[d] : Later(d, t)

\* Until a detector is aligned its adapter holds the history of the start alone.
Unaligned(d) ==
  t0 >= 0 /\ ~is_aligned[d] =>
    /\ ~is_all_aligned /\ Len(adapter[d]) = HeadLen /\ flag_segments[d] = <<>>
    /\ \A t \in have[d] : t < t0 \/ Later(d, t)

\* Then it begins HeadLen before the next second and ends where next_offset is, or
\* where the buffer that waits begins when the hole before that is made up for.  Its
\* segments say what was flagged a gap from the next second to its end.
Aligned(d) ==
  t0 >= 0 /\ is_aligned[d] =>
    /\ Len(adapter[d]) >= HeadLen
    /\ pad[d] = <<>> => next_offset[d] = sent[d] /\ End(d) = sent[d]
    /\ pad[d] # <<>> =>
         \/ next_offset[d] = End(d) /\ End(d) <= Peek(d).start
         \/ next_offset[d] = Peek(d).stop /\ End(d) = Peek(d).start
    /\ \A t \in have[d] : t >= End(d) => Later(d, t)
    /\ Ordered(flag_segments[d])
    /\ \A i \in DOMAIN flag_segments[d] : flag_segments[d][i].stop <= End(d)
    /\ \A t \in Nat : Second <= t /\ t < End(d) =>
         (Says(flag_segments[d], t, TRUE) <=> t \in gaps[d])

\* Nothing is processed before all are aligned.
Beginning ==
  /\ is_all_aligned <=> \A d \in Ifos : is_aligned[d]
  /\ ~is_all_aligned => samples_out = 0 /\ status # "processing" /\ out.start = -1

\* While seconds are processed all is in the adapters.
Common ==
  status = "processing" =>
    /\ is_all_aligned /\ common_size \in Nat
    /\ \A d \in Ifos : pad[d] = <<>> /\ common_size <= Len(adapter[d])
    /\ \E d \in Ifos : common_size = Len(adapter[d])

\* The second processed last is the one before the next; its margin remains.
Output ==
  /\ out.start \in Nat \union {-1}
  /\ out.start >= 0 => /\ out.start = Second - ExeLen
                       /\ \A d \in Ifos : Len(adapter[d]) >= 2 * HeadLen

Placed ==
  /\ Types /\ Unstarted /\ Beginning /\ Common /\ Output
  /\ \A d \in Ifos : Waiting(d) /\ Unaligned(d) /\ Aligned(d)

\* The buffer that waits has its type.
LEMMA PeekType ==
  ASSUME Types, NEW d \in Ifos, pad[d] # <<>>
  PROVE  /\ Peek(d) \in BufferType /\ Peek(d).start \in Nat /\ Peek(d).stop \in Nat
         /\ Peek(d).gap \in BOOLEAN
<1>1. pad[d] \in Seq(BufferType)
  BY DEF Types
<1>2. Peek(d) \in BufferType
  BY <1>1 DEF Peek
<1> QED
  BY <1>2 DEF BufferType

\* What the times of a detector are.
LEMMA TimeTypes ==
  ASSUME Types, NEW d \in Ifos
  PROVE  /\ Second \in Int /\ Len(adapter[d]) \in Nat /\ End(d) \in Int
         /\ t0 >= 0 => Second \in Nat /\ t0 \in Nat /\ t0 <= Second
         /\ sent[d] \in Nat /\ next_offset[d] \in Nat
         /\ adapter[d] \in Seq(Sample) /\ flag_segments[d] \in Seq(Segment)
         /\ have[d] \subseteq Nat /\ gaps[d] \subseteq Nat
<1>1. /\ t0 \in Int /\ samples_out \in Nat
      /\ t0 >= 0 => t0 \in Nat
      /\ adapter[d] \in Seq(Sample) /\ flag_segments[d] \in Seq(Segment)
      /\ sent[d] \in Nat /\ next_offset[d] \in Nat
      /\ have[d] \subseteq Nat /\ gaps[d] \subseteq Nat
  BY DEF Types
<1>2. Len(adapter[d]) \in Nat
  BY <1>1
<1> QED
  BY <1>1, <1>2, Lengths DEF Second, End

\* Once the start is known every adapter holds the history at least.
LEMMA LongEnough ==
  ASSUME Placed, t0 >= 0, NEW d \in Ifos
  PROVE  Len(adapter[d]) >= HeadLen
<1>1. Unaligned(d) /\ Aligned(d)
  BY DEF Placed
<1>2. CASE is_aligned[d]
  BY <1>1, <1>2 DEF Aligned
<1>3. CASE ~is_aligned[d]
  <2>1. Len(adapter[d]) = HeadLen
    BY <1>1, <1>3 DEF Unaligned
  <2> QED
    BY <2>1, Lengths
<1> QED
  BY <1>2, <1>3

\* The initial state satisfies the invariant.
LEMMA PlacedInit == Init => Placed
<1> SUFFICES ASSUME Init PROVE Placed
  OBVIOUS
<1>1. Types
  <2>1. pad \in [Ifos -> Seq(BufferType)] /\ \A d \in Ifos : Len(pad[d]) <= 1
    BY DEF Init
  <2>2. sent \in [Ifos -> Nat]
    BY LengthsAssumption DEF Init
  <2>3. t0 \in Nat \union {-1} /\ samples_out \in Nat
    BY DEF Init
  <2> QED
    BY <2>1, <2>2, <2>3 DEF Init, Types
<1>2. Unstarted /\ Beginning /\ Common /\ Output
  BY IfosFinite DEF Init, Unstarted, Beginning, Common, Output
<1>3. \A d \in Ifos : Waiting(d) /\ Unaligned(d) /\ Aligned(d)
  BY DEF Init, Waiting, Unaligned, Aligned
<1> QED
  BY <1>1, <1>2, <1>3 DEF Placed

-----------------------------------------------------------------------------
(* Steps that leave the adapters alone.                                    *)

\* A detector to which nothing happens stays placed.
LEMMA QuietDetector ==
  ASSUME NEW d \in Ifos, Waiting(d), Unaligned(d), Aligned(d),
         UNCHANGED <<t0, samples_out, is_all_aligned>>,
         pad'[d] = pad[d], sent'[d] = sent[d], have'[d] = have[d], gaps'[d] = gaps[d],
         is_aligned'[d] = is_aligned[d], next_offset'[d] = next_offset[d],
         adapter'[d] = adapter[d], flag_segments'[d] = flag_segments[d]
  PROVE  Waiting(d)' /\ Unaligned(d)' /\ Aligned(d)'
<1>1. Peek(d)' = Peek(d) /\ End(d)' = End(d) /\ Second' = Second
  BY DEF Peek, End, Second
<1> QED
  BY <1>1 DEF Waiting, Unaligned, Aligned, Later

\* The steps that only change how far the search has come.
LEMMA QuietStep ==
  ASSUME Placed,
         UNCHANGED <<pad, sent, have, gaps, collectVars, adapter, flag_segments,
                     common_size, samples_out, out>>,
         status' = "processing" => status = "processing"
  PROVE  Placed'
<1> USE DEF Placed
<1>1. Types' /\ Unstarted' /\ Beginning' /\ Common' /\ Output'
  BY DEF Types, Unstarted, Beginning, Common, Output, collectVars, Later, Peek, Second
<1>2. ASSUME NEW d \in Ifos PROVE Waiting(d)' /\ Unaligned(d)' /\ Aligned(d)'
  BY QuietDetector DEF collectVars
<1> QED
  BY <1>1, <1>2

\* A buffer arrives at a pad that had none; it begins no earlier than the last
\* one ended.
LEMMA ArrivePlaced ==
  ASSUME Placed, NEW e \in Ifos, Arrive(e)
  PROVE  Placed'
<1> USE DEF Placed
<1>1. PICK n \in 0..MaxLength, hole \in 0..MaxHole, gap \in BOOLEAN :
        LET b == Buffer(sent[e] + hole, sent[e] + hole + n, gap)
        IN  /\ hole > 0 \/ gap => e \in Faulty
            /\ ~is_aligned[e] => n <= MaxFirst
            /\ n = 0 => hole > 0 /\ ~gap
            /\ b.stop <= MaxTime
            /\ pad' = [pad EXCEPT ![e] = <<b>>]
            /\ sent' = [sent EXCEPT ![e] = b.stop]
            /\ have' = [have EXCEPT ![e] = @ \union b.start..(b.stop - 1)]
            /\ gaps' = [gaps EXCEPT ![e] =
                 IF gap THEN @ \union b.start..(b.stop - 1) ELSE @]
  BY DEF Arrive
<1> DEFINE from == sent[e] + hole
           to == sent[e] + hole + n
           b == Buffer(from, to, gap)
<1>2. /\ status = "running" /\ pad[e] = <<>>
      /\ UNCHANGED <<status, collectVars, dataVars, processVars>>
  BY DEF Arrive, IsNext
<1>3. /\ from \in Nat /\ to \in Nat /\ from <= to /\ sent[e] <= from /\ sent[e] \in Nat
      /\ have[e] \subseteq Nat /\ gaps[e] \subseteq Nat
  BY SMTT(30), LengthsAssumption DEF Types
<1>4. b \in BufferType /\ b.start = from /\ b.stop = to /\ b.gap = gap
  BY <1>3 DEF Buffer, BufferType
<1>5. /\ pad'[e] = <<b>> /\ sent'[e] = to
      /\ have'[e] = have[e] \union from..(to - 1)
      /\ gaps'[e] = IF gap THEN gaps[e] \union from..(to - 1) ELSE gaps[e]
      /\ \A d \in Ifos : d # e => /\ pad'[d] = pad[d] /\ sent'[d] = sent[d]
                                 /\ have'[d] = have[d] /\ gaps'[d] = gaps[d]
  BY <1>1, <1>4 DEF Types
<1>6. pad'[e] # <<>> /\ Peek(e)' = b
  BY <1>5 DEF Peek
<1> HIDE DEF from, to, b
<1>7. Types'
  <2>1. /\ have'[e] \in SUBSET Nat /\ gaps'[e] \in SUBSET Nat
        /\ <<b>> \in Seq(BufferType) /\ Len(<<b>>) <= 1
    BY <1>3, <1>4, <1>5
  <2>2. /\ pad' \in [Ifos -> Seq(BufferType)] /\ \A d \in Ifos : Len(pad'[d]) <= 1
        /\ sent' \in [Ifos -> Nat]
        /\ have' \in [Ifos -> SUBSET Nat] /\ gaps' \in [Ifos -> SUBSET Nat]
    <3>1. /\ DOMAIN pad' = Ifos /\ pad' = [d \in Ifos |-> pad'[d]]
          /\ sent' = [d \in Ifos |-> sent'[d]] /\ have' = [d \in Ifos |-> have'[d]]
          /\ gaps' = [d \in Ifos |-> gaps'[d]]
      BY <1>1 DEF Types
    <3>2. \A d \in Ifos : /\ pad'[d] \in Seq(BufferType) /\ Len(pad'[d]) <= 1
                          /\ sent'[d] \in Nat /\ have'[d] \in SUBSET Nat
                          /\ gaps'[d] \in SUBSET Nat
      <4> TAKE d \in Ifos
      <4>1. CASE d = e
        BY <1>3, <1>5, <2>1, <4>1
      <4>2. CASE d # e
        BY <1>5, <4>2 DEF Types
      <4> QED
        BY <4>1, <4>2
    <3> QED
      BY <3>1, <3>2
  <2> QED
    BY <1>2, <2>2 DEF Types, collectVars, dataVars, processVars
<1>9. Unstarted'
  <2> SUFFICES ASSUME t0 = -1
               PROVE  \A d \in Ifos : \A t \in have'[d] : Later(d, t)'
    BY <1>2 DEF Unstarted, collectVars, dataVars
  <2> TAKE d \in Ifos
  <2> TAKE t \in have'[d]
  <2>1. CASE d = e
    BY <1>2, <1>3, <1>4, <1>5, <1>6, <2>1 DEF Unstarted, Later
  <2>2. CASE d # e
    BY <1>5, <2>2 DEF Unstarted, Later, Peek
  <2> QED
    BY <2>1, <2>2
<1>10. Beginning' /\ Common' /\ Output'
  BY <1>2 DEF Beginning, Common, Output, collectVars, dataVars, processVars, Second
<1>11. ASSUME NEW d \in Ifos PROVE Waiting(d)' /\ Unaligned(d)' /\ Aligned(d)'
  <2>1. CASE d # e
    BY <1>2, <1>5, <2>1, QuietDetector DEF collectVars, dataVars, processVars
  <2>2. CASE d = e
    <3>1. End(d)' = End(d) /\ Second' = Second /\ End(d) \in Int /\ t0' = t0
      BY <1>2, TimeTypes DEF End, Second, collectVars, dataVars, processVars
    <3>2. \A t \in Nat : /\ t \in have'[d] <=> t \in have[d] \/ (from <= t /\ t < to)
                         /\ t < from => (t \in gaps'[d] <=> t \in gaps[d])
      BY <1>3, <1>5, <2>2
    <3>3. \A t \in have'[d] : t \in Nat
      BY <1>7, <2>2 DEF Types
    <3>4. \A t \in have[d] : t < sent[d]
      BY DEF Waiting
    <3>5. Waiting(d)'
      <4>1. gaps'[d] \subseteq have'[d]
        BY <1>5, <2>2 DEF Waiting
      <4>2. \A t \in have'[d] : t < sent'[d]
        BY <1>3, <1>5, <2>2, <3>2, <3>3, <3>4
      <4>3. \A t \in Nat : from <= t /\ t < to =>
              t \in have'[d] /\ (t \in gaps'[d] <=> gap = TRUE)
        <5> TAKE t \in Nat
        <5> HAVE from <= t /\ t < to
        <5>1. t \notin have[d] /\ t \notin gaps[d]
          BY <1>3, <2>2, <3>4 DEF Waiting
        <5>2. t \in from..(to - 1)
          BY <1>3
        <5> QED
          BY <1>5, <2>2, <5>1, <5>2
      <4> QED
        BY <1>3, <1>4, <1>5, <1>6, <2>2, <4>1, <4>2, <4>3 DEF Waiting
    <3>6. Unaligned(d)'
      <4> SUFFICES ASSUME t0 >= 0, ~is_aligned[d]
                   PROVE  \A t \in have'[d] : t < t0 \/ Later(d, t)'
        BY <1>2 DEF Unaligned, collectVars, dataVars
      <4> TAKE t \in have'[d]
      <4>1. t \in have[d] => t < t0
        BY <1>2, <2>2 DEF Unaligned, Later
      <4> QED
        BY <1>4, <1>6, <2>2, <3>2, <3>3, <4>1 DEF Later
    <3>7. Aligned(d)'
      <4> SUFFICES ASSUME t0 >= 0, is_aligned[d] PROVE Aligned(d)'
        BY <1>2 DEF Aligned, collectVars
      <4>1. next_offset[d] = sent[d] /\ End(d) = sent[d]
        BY <1>2, <2>2 DEF Aligned
      <4>2. next_offset'[d] = End(d)' /\ End(d)' <= Peek(d)'.start
        BY <1>2, <1>3, <1>4, <1>6, <2>2, <3>1, <4>1 DEF collectVars
      <4>3. \A t \in have'[d] : t >= End(d)' => Later(d, t)'
        BY <1>3, <1>4, <1>6, <2>2, <3>1, <3>2, <3>3, <3>4, <4>1 DEF Later
      <4>4. \A t \in Nat : Second <= t /\ t < End(d) =>
              (Says(flag_segments[d], t, TRUE) <=> t \in gaps'[d])
        <5>1. \A t \in Nat : t < End(d) => (t \in gaps'[d] <=> t \in gaps[d])
          BY <1>3, <2>2, <3>1, <3>2, <4>1
        <5>2. \A t \in Nat : Second <= t /\ t < End(d) =>
                (Says(flag_segments[d], t, TRUE) <=> t \in gaps[d])
          BY DEF Aligned
        <5> QED
          BY <5>1, <5>2
      <4> QED
        BY <1>2, <1>6, <2>2, <3>1, <4>2, <4>3, <4>4 DEF Aligned, dataVars
    <3> QED
      BY <3>5, <3>6, <3>7
  <2> QED
    BY <2>1, <2>2
<1> QED
  BY <1>7, <1>9, <1>10, <1>11

-----------------------------------------------------------------------------
(* Buffers that are moved to the adapters.                                 *)

\* The zeros and the samples that Move appends.
Filled(d) ==
  IF d \in Holding /\ Peek(d).start > next_offset[d]
  THEN Peek(d).start - next_offset[d] ELSE 0

Taken(d, moved) == IF d \in moved THEN Peek(d).stop - Peek(d).start ELSE 0

\* What an adapter holds after Move: what it held, zeros, the buffer's samples.
LEMMA MoveAdapter ==
  ASSUME Types, NEW moved \in SUBSET Holding, NEW dropped, Move(moved, dropped),
         NEW d \in Ifos, Waiting(d)
  PROVE  LET n == Len(adapter[d])
         IN  /\ adapter'[d] \in Seq(Sample)
             /\ Filled(d) \in Nat /\ Taken(d, moved) \in Nat /\ n \in Nat
             /\ Len(adapter'[d]) = n + Filled(d) + Taken(d, moved)
             /\ \A i \in 1..n : adapter'[d][i] = adapter[d][i]
             /\ \A i \in (n + 1)..(n + Filled(d)) : adapter'[d][i] = Zero
             /\ \A i \in (n + Filled(d) + 1)..(n + Filled(d) + Taken(d, moved)) :
                  adapter'[d][i] = Peek(d).start + (i - (n + Filled(d))) - 1
<1> DEFINE n == Len(adapter[d])
           z == IF d \in Holding THEN Zeros(Peek(d).start - next_offset[d]) ELSE <<>>
           x == IF d \in moved THEN Samples(Peek(d)) ELSE <<>>
           f == Filled(d)
           k == Taken(d, moved)
<1>1. adapter[d] \in Seq(Sample) /\ next_offset[d] \in Nat /\ n \in Nat
  BY TimeTypes
<1>2. z \in Seq(Sample) /\ Len(z) = f /\ f \in Nat /\ \A i \in 1..f : z[i] = Zero
  <2>1. CASE d \in Holding
    <3>1. Peek(d).start - next_offset[d] \in Int /\ Peek(d).start \in Nat
      BY <1>1, <2>1, PeekType DEF Holding
    <3>2. z = Zeros(Peek(d).start - next_offset[d])
      BY <2>1
    <3>3. f = IF Peek(d).start - next_offset[d] > 0
              THEN Peek(d).start - next_offset[d] ELSE 0
      BY <1>1, <2>1, <3>1 DEF Filled
    <3> HIDE DEF z, f
    <3>4. /\ z \in Seq(Sample)
          /\ Len(z) = IF Peek(d).start - next_offset[d] > 0
                      THEN Peek(d).start - next_offset[d] ELSE 0
          /\ \A i \in 1..Len(z) : z[i] = Zero
      BY <3>1, <3>2, ZerosAre
    <3>5. Len(z) = f
      BY <3>3, <3>4
    <3>6. f \in Nat
      BY <3>1, <3>3
    <3> QED
      BY <3>4, <3>5, <3>6
  <2>2. CASE d \notin Holding
    BY <2>2 DEF Filled
  <2> QED
    BY <2>1, <2>2
<1>3. x \in Seq(Sample) /\ Len(x) = k /\ k \in Nat
      /\ \A i \in 1..k : x[i] = Peek(d).start + i - 1
  <2>1. CASE d \in moved
    <3>1. Peek(d) \in BufferType /\ Peek(d).start <= Peek(d).stop
          /\ Peek(d).start \in Nat /\ Peek(d).stop \in Nat
      BY <2>1, PeekType DEF Waiting, Holding
    <3>2. x = Samples(Peek(d)) /\ k = Peek(d).stop - Peek(d).start /\ k \in Nat
      BY <2>1, <3>1 DEF Taken
    <3> HIDE DEF x, k
    <3> QED
      BY <3>1, <3>2, SamplesAre
  <2>2. CASE d \notin moved
    BY <2>2 DEF Taken
  <2> QED
    BY <2>1, <2>2
<1>4. adapter'[d] = (adapter[d] \o z) \o x
  <2>1. d \in Holding \/ d \notin moved
    OBVIOUS
  <2> QED
    BY DEF Move, Fillin
<1> HIDE DEF z, x, f, k
<1>5. /\ adapter[d] \o z \in Seq(Sample) /\ Len(adapter[d] \o z) = n + f
      /\ \A i \in 1..(n + f) : (adapter[d] \o z)[i] =
           IF i <= n THEN adapter[d][i] ELSE z[i - n]
  BY ZenonT(60), <1>1, <1>2, ConcatProperties
<1> DEFINE y == adapter[d] \o z
<1> HIDE DEF n
<1>11. y \in Seq(Sample) /\ Len(y) = n + f
  BY <1>5
<1> HIDE DEF y
<1>6. /\ y \o x \in Seq(Sample) /\ Len(y \o x) = n + f + k
      /\ \A i \in 1..(n + f + k) : (y \o x)[i] = IF i <= n + f THEN y[i] ELSE x[i - (n + f)]
  <2>1. y \in Seq(Sample) /\ x \in Seq(Sample)
    BY <1>3, <1>11
  <2>2. /\ y \o x \in Seq(Sample) /\ Len(y \o x) = Len(y) + Len(x)
        /\ \A i \in 1..(Len(y) + Len(x)) :
             (y \o x)[i] = IF i <= Len(y) THEN y[i] ELSE x[i - Len(y)]
    BY <2>1, ConcatProperties
  <2>3. Len(y) = n + f /\ Len(x) = k
    BY <1>3, <1>11
  <2> QED
    BY <2>2, <2>3
<1>7. /\ adapter'[d] \in Seq(Sample) /\ Len(adapter'[d]) = n + f + k
      /\ \A i \in 1..(n + f + k) : adapter'[d][i] = IF i <= n + f THEN y[i] ELSE x[i - (n + f)]
  BY <1>4, <1>6 DEF y
<1>8. \A i \in 1..n : adapter'[d][i] = adapter[d][i]
  BY <1>1, <1>2, <1>3, <1>5, <1>7 DEF y
<1>9. ASSUME NEW i \in (n + 1)..(n + f)
      PROVE  adapter'[d][i] = Zero
  <2>1. i \in 1..(n + f) /\ i \in 1..(n + f + k) /\ ~(i <= n) /\ i - n \in 1..f
    BY <1>1, <1>2, <1>3
  <2> QED
    BY SMTT(30), <1>2, <1>5, <1>7, <2>1 DEF y
<1>10. ASSUME NEW i \in (n + f + 1)..(n + f + k)
       PROVE  adapter'[d][i] = Peek(d).start + (i - (n + f)) - 1
  <2>1. i \in 1..(n + f + k) /\ ~(i <= n + f) /\ i - (n + f) \in 1..k
    BY <1>1, <1>2, <1>3
  <2> QED
    BY <1>3, <1>7, <2>1
<1> QED
  BY <1>1, <1>2, <1>3, <1>7, <1>8, <1>9, <1>10 DEF n, f, k

\* The record of a buffer says of later times what it says, and ends with it.
LEMMA FlagAdded ==
  ASSUME Types, NEW d \in Ifos, Waiting(d), pad[d] # <<>>, Ordered(flag_segments[d]),
         \A i \in DOMAIN flag_segments[d] : flag_segments[d][i].stop <= Peek(d).start
  PROVE  /\ Flag(d) \in Seq(Segment) /\ Ordered(Flag(d))
         /\ \A i \in DOMAIN Flag(d) : Flag(d)[i].stop <= Peek(d).stop
         /\ \A t \in Nat : Says(Flag(d), t, TRUE)
              <=> \/ Says(flag_segments[d], t, TRUE)
                  \/ Peek(d).start <= t /\ t < Peek(d).stop /\ Peek(d).gap = TRUE
<1> DEFINE segs == flag_segments[d]
           new == [start |-> Peek(d).start, stop |-> Peek(d).stop, flag |-> Peek(d).gap]
<1>1. /\ new \in Segment /\ new.start = Peek(d).start /\ new.stop = Peek(d).stop
      /\ new.flag = Peek(d).gap /\ segs \in Seq(Segment)
  BY PeekType, TimeTypes DEF Segment
<1>2. new.start <= new.stop
  BY <1>1 DEF Waiting
<1>3. \A i \in DOMAIN segs : segs[i].stop <= new.start
  BY <1>1
<1>4. segs # <<>> => Final(segs).stop <= new.start
  <2> HIDE DEF new
  <2>1. segs # <<>> => Len(segs) \in DOMAIN segs
    BY <1>1
  <2> QED
    BY <1>3, <2>1 DEF Final
<1>5. Flag(d) = AddSegment(segs, new)
  BY DEF Flag
<1> HIDE DEF segs, new
<1>6. Ordered(segs)
  BY DEF segs
<1>7. /\ AddSegment(segs, new) \in Seq(Segment) /\ Ordered(AddSegment(segs, new))
      /\ \A t \in Nat, flag \in BOOLEAN : Says(AddSegment(segs, new), t, flag)
           <=> \/ Says(segs, t, flag)
               \/ new.start <= t /\ t < new.stop /\ new.flag = flag
  BY <1>1, <1>2, <1>4, <1>6, SegmentAdded
<1>8. \A i \in DOMAIN AddSegment(segs, new) : AddSegment(segs, new)[i].stop <= new.stop
  BY <1>1, <1>2, <1>3, AddedStops
<1> QED
  BY <1>1, <1>5, <1>7, <1>8 DEF segs

\* An aligned detector stays placed when its hole is made up for and its buffer is
\* moved, dropped for being empty, or kept.
LEMMA MoveAligned ==
  ASSUME Types, NEW moved \in SUBSET Holding, NEW dropped \in SUBSET Holding,
         Move(moved, dropped), NEW d \in Ifos, Waiting(d), Aligned(d),
         t0 >= 0, is_aligned[d], d \in dropped => Peek(d).start = Peek(d).stop,
         UNCHANGED <<t0, samples_out, is_aligned, is_all_aligned, upstream>>
  PROVE  /\ Waiting(d)' /\ Unaligned(d)' /\ Aligned(d)'
         /\ pad'[d] \in Seq(BufferType) /\ Len(pad'[d]) <= 1 /\ next_offset'[d] \in Nat
         /\ adapter'[d] \in Seq(Sample) /\ flag_segments'[d] \in Seq(Segment)
         /\ Len(adapter'[d]) \in Nat /\ Len(adapter'[d]) >= Len(adapter[d])
         /\ End(d)' = End(d) + Filled(d) + Taken(d, moved)
<1> DEFINE n == Len(adapter[d])
           start == Peek(d).start
           stop == Peek(d).stop
           gone == d \in moved \union dropped
<1>1. /\ adapter'[d] \in Seq(Sample)
      /\ Filled(d) \in Nat /\ Taken(d, moved) \in Nat /\ n \in Nat
      /\ Len(adapter'[d]) = n + Filled(d) + Taken(d, moved)
  BY MoveAdapter
<1>2. /\ next_offset'[d] = IF pad[d] # <<>> THEN stop ELSE next_offset[d]
      /\ flag_segments'[d] = IF d \in moved THEN Flag(d) ELSE flag_segments[d]
      /\ pad'[d] = IF gone THEN <<>> ELSE pad[d]
  BY DEF Move, Holding
<1>3. gone => pad[d] # <<>>
  BY DEF Holding
<1>4. /\ Second' = Second /\ Second \in Nat /\ End(d) \in Int
      /\ End(d)' = End(d) + Filled(d) + Taken(d, moved)
  <2>1. Second' = Second
    BY DEF Second
  <2>2. /\ Second \in Nat /\ HeadLen \in Int /\ End(d) \in Int
        /\ End(d) = Second - HeadLen + n
    BY TimeTypes, Lengths DEF End
  <2>3. End(d)' = Second - HeadLen + Len(adapter'[d])
    BY <2>1 DEF End
  <2> QED
    BY <1>1, <2>1, <2>2, <2>3
<1>5. /\ sent'[d] = sent[d] /\ have'[d] = have[d] /\ gaps'[d] = gaps[d]
      /\ sent[d] \in Nat /\ next_offset[d] \in Nat /\ have[d] \subseteq Nat
      /\ flag_segments[d] \in Seq(Segment) /\ pad[d] \in Seq(BufferType) /\ Len(pad[d]) <= 1
  BY TimeTypes DEF upstream, Types
<1>6. pad[d] # <<>> => /\ start \in Nat /\ stop \in Nat /\ start <= stop /\ stop = sent[d]
  BY PeekType DEF Waiting
<1>7. ~gone => Peek(d)' = Peek(d)
  BY <1>2 DEF Peek
<1>8. /\ pad'[d] \in Seq(BufferType) /\ Len(pad'[d]) <= 1 /\ next_offset'[d] \in Nat
  BY <1>2, <1>5, <1>6
<1>9. Waiting(d)'
  BY <1>2, <1>5, <1>7 DEF Waiting
<1>10. Unaligned(d)'
  BY DEF Unaligned
<1>11. CASE pad[d] = <<>>
  <2>1. d \notin Holding /\ d \notin moved /\ ~gone
    BY <1>3, <1>11 DEF Holding
  <2>2. Filled(d) = 0 /\ Taken(d, moved) = 0
    BY <2>1 DEF Filled, Taken
  <2>3. End(d)' = End(d) /\ Len(adapter'[d]) = n
    BY <1>1, <1>4, <2>2
  <2>4. Aligned(d)'
    BY <1>2, <1>4, <1>5, <1>7, <1>11, <2>1, <2>3 DEF Aligned, Later
  <2> QED
    BY <1>1, <1>2, <1>4, <1>5, <1>8, <1>9, <1>10, <2>1, <2>3, <2>4
<1>12. CASE pad[d] # <<>>
  <2>1. d \in Holding
    BY <1>12 DEF Holding
  <2>2. \/ next_offset[d] = End(d) /\ End(d) <= start
        \/ next_offset[d] = stop /\ End(d) = start
    BY <1>12 DEF Aligned
  <2>3. Filled(d) = start - End(d) /\ End(d) <= start
    BY <1>4, <1>5, <1>6, <1>12, <2>1, <2>2 DEF Filled
  <2>4. End(d)' = IF d \in moved THEN stop ELSE start
    BY <1>4, <1>6, <1>12, <2>3 DEF Taken
  <2>5. gone => End(d)' = stop
    BY <2>4
  <2>6. /\ Len(adapter'[d]) \in Nat /\ Len(adapter'[d]) >= n /\ n >= HeadLen
    BY <1>1 DEF Aligned
  <2>7. /\ pad'[d] = <<>> => next_offset'[d] = sent'[d] /\ End(d)' = sent'[d]
        /\ pad'[d] # <<>> => next_offset'[d] = Peek(d)'.stop /\ End(d)' = Peek(d)'.start
    BY <1>2, <1>5, <1>6, <1>7, <1>12, <2>4, <2>5
  <2>8. \A t \in have'[d] : t >= End(d)' => Later(d, t)'
    <3>1. CASE gone
      BY <1>5, <1>6, <1>12, <2>5, <3>1 DEF Waiting
    <3>2. CASE ~gone
      BY <1>2, <1>7, <1>12, <2>4, <3>2 DEF Later
    <3> QED
      BY <3>1, <3>2
  <2>9. \A i \in DOMAIN flag_segments[d] : flag_segments[d][i].stop <= start
    <3> TAKE i \in DOMAIN flag_segments[d]
    <3>1. flag_segments[d][i].stop \in Nat /\ flag_segments[d][i].stop <= End(d)
      <4>1. flag_segments[d][i] \in Segment
        BY <1>5
      <4> QED
        BY <4>1 DEF Segment, Aligned
    <3> QED
      BY <1>4, <1>6, <1>12, <2>3, <3>1
  <2>10. /\ Flag(d) \in Seq(Segment) /\ Ordered(Flag(d))
         /\ \A i \in DOMAIN Flag(d) : Flag(d)[i].stop <= stop
         /\ \A t \in Nat : Says(Flag(d), t, TRUE)
              <=> \/ Says(flag_segments[d], t, TRUE)
                  \/ start <= t /\ t < stop /\ Peek(d).gap = TRUE
    BY <1>12, <2>9, FlagAdded DEF Aligned
  <2>11. /\ flag_segments'[d] \in Seq(Segment) /\ Ordered(flag_segments'[d])
         /\ \A i \in DOMAIN flag_segments'[d] : flag_segments'[d][i].stop <= End(d)'
    BY <1>2, <1>5, <2>4, <2>9, <2>10 DEF Aligned
  <2>12. ASSUME NEW t \in Nat, Second <= t, t < End(d)'
         PROVE  Says(flag_segments'[d], t, TRUE) <=> t \in gaps[d]
    <3>1. CASE t < End(d)
      <4>1. Says(flag_segments[d], t, TRUE) <=> t \in gaps[d]
        BY <2>12, <3>1 DEF Aligned
      <4>2. ~(start <= t)
        BY <1>4, <1>6, <1>12, <2>3, <3>1
      <4> QED
        BY <1>2, <2>10, <4>1, <4>2
    <3>2. CASE End(d) <= t /\ t < start
      <4>1. ~Says(flag_segments[d], t, TRUE)
        <5> SUFFICES ASSUME NEW i \in DOMAIN flag_segments[d]
                     PROVE  ~(t < flag_segments[d][i].stop)
          BY DEF Says
        <5>1. flag_segments[d][i].stop \in Nat /\ flag_segments[d][i].stop <= End(d)
          <6>1. flag_segments[d][i] \in Segment
            BY <1>5
          <6> QED
            BY <6>1 DEF Segment, Aligned
        <5> QED
          BY <1>4, <3>2, <5>1
      <4>2. t \notin gaps[d]
        <5>1. t \notin have[d]
          BY <1>6, <1>12, <3>2 DEF Aligned, Later
        <5> QED
          BY <5>1 DEF Waiting
      <4>3. ~(start <= t)
        BY <1>6, <1>12, <3>2
      <4> QED
        BY <1>2, <2>10, <4>1, <4>2, <4>3
    <3>3. CASE start <= t
      <4>1. d \in moved /\ t < stop
        BY <1>6, <1>12, <2>4, <2>12, <3>3
      <4>2. t \in gaps[d] <=> Peek(d).gap = TRUE
        BY <1>12, <3>3, <4>1 DEF Waiting
      <4>3. ~Says(flag_segments[d], t, TRUE)
        <5> SUFFICES ASSUME NEW i \in DOMAIN flag_segments[d]
                     PROVE  ~(t < flag_segments[d][i].stop)
          BY DEF Says
        <5>1. flag_segments[d][i].stop \in Nat
          <6>1. flag_segments[d][i] \in Segment
            BY <1>5
          <6> QED
            BY <6>1 DEF Segment
        <5> QED
          BY <1>6, <1>12, <2>9, <3>3, <5>1
      <4> QED
        BY <1>2, <2>10, <3>3, <4>1, <4>2, <4>3
    <3>4. End(d) \in Int /\ start \in Nat
      BY <1>4, <1>6, <1>12
    <3>5. t < End(d) \/ (End(d) <= t /\ t < start) \/ start <= t
      <4> HIDE DEF start
      <4> QED
        BY <3>4
    <3> QED
      BY <3>1, <3>2, <3>3, <3>5
  <2>13. Aligned(d)'
    <3>1. Len(adapter'[d]) >= HeadLen
      BY <1>1, <2>6, Lengths
    <3> QED
      BY <1>4, <1>5, <2>7, <2>8, <2>11, <2>12, <3>1 DEF Aligned
  <2> QED
    BY <1>1, <1>4, <1>8, <1>9, <1>10, <2>6, <2>11, <2>13
<1> QED
  BY <1>11, <1>12

\* All detectors stay placed when buffers are moved.
LEMMA MovePlaced ==
  ASSUME Placed, is_all_aligned, NEW moved \in SUBSET Holding, NEW dropped \in SUBSET Holding,
         Move(moved, dropped), \A d \in dropped : Peek(d).start = Peek(d).stop,
         UNCHANGED <<t0, samples_out, is_aligned, is_all_aligned, upstream, out>>
  PROVE  /\ Types' /\ Unstarted' /\ Beginning' /\ Output'
         /\ \A d \in Ifos : Waiting(d)' /\ Unaligned(d)' /\ Aligned(d)'
         /\ \A d \in Ifos : /\ Len(adapter'[d]) \in Nat
                            /\ End(d)' = End(d) + Filled(d) + Taken(d, moved)
<1> USE DEF Placed
<1>1. t0 >= 0 /\ t0 \in Nat /\ \A d \in Ifos : is_aligned[d]
  BY DEF Types, Unstarted, Beginning
<1>2. ASSUME NEW d \in Ifos
      PROVE  /\ Waiting(d)' /\ Unaligned(d)' /\ Aligned(d)'
             /\ pad'[d] \in Seq(BufferType) /\ Len(pad'[d]) <= 1 /\ next_offset'[d] \in Nat
             /\ adapter'[d] \in Seq(Sample) /\ flag_segments'[d] \in Seq(Segment)
             /\ Len(adapter'[d]) \in Nat /\ Len(adapter'[d]) >= Len(adapter[d])
             /\ End(d)' = End(d) + Filled(d) + Taken(d, moved)
  BY <1>1, MoveAligned
<1>3. Types'
  <2>1. /\ next_offset' = [d \in Ifos |-> next_offset'[d]]
        /\ adapter' = [d \in Ifos |-> adapter'[d]]
        /\ flag_segments' = [d \in Ifos |-> flag_segments'[d]]
        /\ pad' = [d \in Ifos |-> pad'[d]]
    BY DEF Move
  <2>2. /\ next_offset' \in [Ifos -> Nat] /\ adapter' \in [Ifos -> Seq(Sample)]
        /\ flag_segments' \in [Ifos -> Seq(Segment)] /\ pad' \in [Ifos -> Seq(BufferType)]
    BY <1>2, <2>1
  <2> QED
    BY <1>2, <2>2 DEF Types, upstream
<1>4. Unstarted' /\ Beginning'
  BY <1>1 DEF Unstarted, Beginning
<1>5. Output'
  <2>1. Second' = Second
    BY DEF Second
  <2>2. \A d \in Ifos : Len(adapter[d]) \in Nat
    BY TimeTypes
  <2> QED
    BY <1>2, <2>1, <2>2, Lengths DEF Output
<1> QED
  BY <1>2, <1>3, <1>4, <1>5

\* Collecting again keeps the adapters in place.
LEMMA RecollectPlaced ==
  ASSUME Placed, Recollect
  PROVE  Placed'
<1> DEFINE empty == {d \in Recollected : Peek(d).start = Peek(d).stop}
<1>1. /\ is_all_aligned /\ status = "running" /\ Move(Recollected \ empty, empty)
      /\ Recollected \ empty \in SUBSET Holding /\ empty \in SUBSET Holding
      /\ UNCHANGED <<status, t0, samples_out, is_aligned, is_all_aligned, upstream, out>>
  BY DEF Recollect, Collected, processVars, Recollected
<1>2. \A d \in empty : Peek(d).start = Peek(d).stop
  OBVIOUS
<1> HIDE DEF empty
<1>3. /\ Types' /\ Unstarted' /\ Beginning' /\ Output'
      /\ \A d \in Ifos : Waiting(d)' /\ Unaligned(d)' /\ Aligned(d)'
  BY <1>1, <1>2, MovePlaced
<1>4. Common'
  BY <1>1 DEF Common
<1> QED
  BY <1>3, <1>4 DEF Placed

\* So does pushing the buffers of all detectors.
LEMMA PushPlaced ==
  ASSUME Placed, PushAll
  PROVE  Placed'
<1>1. /\ is_all_aligned /\ Move(Holding, {})
      /\ common_size' = Min({Len(adapter'[d]) : d \in Ifos})
      /\ UNCHANGED <<t0, samples_out, is_aligned, is_all_aligned, upstream, out>>
  BY DEF PushAll
<1>2. /\ Types' /\ Unstarted' /\ Beginning' /\ Output'
      /\ \A d \in Ifos : Waiting(d)' /\ Unaligned(d)' /\ Aligned(d)'
      /\ \A d \in Ifos : Len(adapter'[d]) \in Nat
  <2>1. Holding \in SUBSET Holding /\ {} \in SUBSET Holding
        /\ \A d \in {} : Peek(d).start = Peek(d).stop
    OBVIOUS
  <2> QED
    BY <1>1, <2>1, MovePlaced
<1>3. \A d \in Ifos : pad'[d] = <<>>
  BY <1>1 DEF Move, Holding
<1> DEFINE S == {Len(adapter'[d]) : d \in Ifos}
<1>4. S \in SUBSET Nat /\ S # {}
  BY <1>2, IfosFinite
<1>5. Min(S) \in S /\ \A x \in S : Min(S) <= x
  <2> HIDE DEF S
  <2> QED
    BY <1>4, Least
<1>6. common_size' \in Nat /\ \A d \in Ifos : common_size' <= Len(adapter'[d])
  BY <1>1, <1>4, <1>5
<1>7. \E d \in Ifos : common_size' = Len(adapter'[d])
  BY <1>1, <1>5
<1>8. Common'
  BY <1>1, <1>3, <1>6, <1>7 DEF Common
<1> QED
  BY <1>2, <1>8 DEF Placed

-----------------------------------------------------------------------------
(* The start.                                                              *)

\* The latest start is that of a buffer that waits, and no buffer begins after it.
LEMMA LatestIs ==
  ASSUME Types, Holding = Ifos
  PROVE  /\ LatestStart \in Nat /\ \A d \in Ifos : Peek(d).start <= LatestStart
         /\ \E d \in Ifos : LatestStart = Peek(d).start
<1> DEFINE f == [d \in Ifos |-> Peek(d).start]
           S == {Peek(d).start : d \in Ifos}
<1>1. \A d \in Ifos : Peek(d).start \in Nat
  BY PeekType DEF Holding
<1>2. f \in [Ifos -> Nat]
  BY <1>1
<1>3. PICK m \in Nat : \A d \in Ifos : f[d] <= m
  <2> HIDE DEF f
  <2> QED
    BY <1>2, Bounded
<1>4. S \in SUBSET Nat /\ S # {} /\ \A x \in S : x <= m
  BY <1>1, <1>3, IfosFinite
<1>5. Max(S) \in S /\ \A x \in S : x <= Max(S)
  <2> HIDE DEF S
  <2> QED
    BY <1>4, Greatest
<1>6. LatestStart = Max(S)
  BY DEF LatestStart
<1> HIDE DEF S
<1>7. LatestStart \in Nat
  BY <1>4, <1>5, <1>6
<1>8. /\ \A d \in Ifos : Peek(d).start \in S
      /\ \A x \in S : \E d \in Ifos : x = Peek(d).start
  BY DEF S
<1> QED
  BY <1>5, <1>6, <1>7, <1>8

\* A detector is aligned, dropped a buffer, or is left alone; then it is placed.
LEMMA AlignPlaced ==
  ASSUME Placed, Align
  PROVE  Placed'
<1> USE DEF Placed
<1> DEFINE start == IF t0 = -1 THEN LatestStart ELSE t0
           todo == {d \in Ifos : ~is_aligned[d]}
           cut == {d \in todo \intersect Holding : Peek(d).stop > start}
<1>1. /\ status = "running" /\ ~is_all_aligned
      /\ t0 = -1 => Holding = Ifos
      /\ todo \subseteq Holding /\ \A d \in cut : Peek(d).start <= start
      /\ t0' = start
      /\ is_all_aligned' = (cut = todo)
      /\ UNCHANGED <<status, upstream, processVars>>
  BY DEF Align, Collected
<1>2. /\ adapter' = [d \in Ifos |->
           (IF t0 = -1 THEN Zeros(HeadLen) ELSE adapter[d])
             \o (IF d \in cut THEN Subbuffer(Peek(d), start) ELSE <<>>)]
      /\ flag_segments' = [d \in Ifos |-> IF d \in cut THEN Flag(d) ELSE flag_segments[d]]
      /\ next_offset' = [d \in Ifos |-> IF d \in cut THEN Peek(d).stop ELSE next_offset[d]]
      /\ is_aligned' = [d \in Ifos |-> is_aligned[d] \/ d \in cut]
      /\ pad' = [d \in Ifos |-> IF d \in todo THEN <<>> ELSE pad[d]]
  BY DEF Align
<1>3. start \in Nat /\ (t0 >= 0 => start = t0) /\ (t0 = -1 \/ t0 >= 0)
  <2>1. t0 \in Nat \union {-1}
    BY DEF Types
  <2>2. CASE t0 = -1
    <3>1. LatestStart \in Nat
      BY <1>1, <2>2, LatestIs
    <3> QED
      BY <2>2, <3>1
  <2>3. CASE t0 \in Nat
    BY <2>3
  <2> QED
    BY <2>1, <2>2, <2>3
<1>4. \A d \in todo : /\ ~is_aligned[d] /\ pad[d] # <<>> /\ d \in Ifos
                      /\ d \notin cut => ~(Peek(d).stop > start)
                      /\ d \in cut => Peek(d).stop > start /\ Peek(d).start <= start
  BY <1>1 DEF Holding
<1>5. cut \subseteq todo /\ \A d \in Ifos : d \notin todo => is_aligned[d]
  OBVIOUS
<1> HIDE DEF start, cut
<1>6. /\ samples_out = 0 /\ samples_out' = 0 /\ out' = out /\ out.start = -1
      /\ Second' = start /\ Second = t0 /\ status' = "running"
  BY <1>1, <1>3 DEF Beginning, processVars, Second, Types
<1>7. ASSUME NEW d \in Ifos, d \in todo
      PROVE  IF t0 = -1 THEN adapter[d] = <<>> /\ flag_segments[d] = <<>>
             ELSE /\ adapter[d] \in Seq(Sample) /\ Len(adapter[d]) = HeadLen
                  /\ flag_segments[d] = <<>>
  BY <1>3, <1>4, <1>7 DEF Unstarted, Unaligned, Types
<1>8. ASSUME NEW d \in Ifos, d \notin todo
      PROVE  /\ t0 >= 0 /\ is_aligned[d] /\ start = t0 /\ d \notin cut
             /\ adapter'[d] = adapter[d] /\ pad'[d] = pad[d]
             /\ flag_segments'[d] = flag_segments[d] /\ next_offset'[d] = next_offset[d]
             /\ is_aligned'[d] /\ Waiting(d)' /\ Unaligned(d)' /\ Aligned(d)'
  <2>1. t0 >= 0 /\ is_aligned[d] /\ start = t0 /\ d \notin cut /\ ~(t0 = -1)
    BY <1>3, <1>5, <1>8 DEF Unstarted
  <2>2. adapter'[d] = adapter[d] \o <<>> /\ adapter[d] \in Seq(Sample)
    BY <1>2, <2>1 DEF Types
  <2>3. adapter'[d] = adapter[d]
    BY <2>2, ConcatEmptySeq
  <2>4. /\ pad'[d] = pad[d] /\ flag_segments'[d] = flag_segments[d]
        /\ next_offset'[d] = next_offset[d] /\ is_aligned'[d]
    BY <1>2, <1>8, <2>1
  <2>5. /\ sent'[d] = sent[d] /\ have'[d] = have[d] /\ gaps'[d] = gaps[d]
        /\ t0' = t0 /\ samples_out' = samples_out
    BY <1>1, <2>1 DEF upstream, processVars
  <2>6. Peek(d)' = Peek(d) /\ End(d)' = End(d) /\ Second' = Second
    BY <2>3, <2>4, <2>5 DEF Peek, End, Second
  <2>7. Waiting(d)'
    BY <2>4, <2>5, <2>6 DEF Waiting
  <2>8. Aligned(d)'
    BY <2>1, <2>3, <2>4, <2>5, <2>6 DEF Aligned, Later
  <2>9. Unaligned(d)'
    BY <2>4 DEF Unaligned
  <2> QED
    BY <2>1, <2>3, <2>4, <2>7, <2>8, <2>9
<1> DEFINE h(d) == IF t0 = -1 THEN Zeros(HeadLen) ELSE adapter[d]
<1>9. ASSUME NEW d \in Ifos, d \in todo
      PROVE  /\ h(d) \in Seq(Sample) /\ Len(h(d)) = HeadLen /\ flag_segments[d] = <<>>
             /\ pad[d] # <<>> /\ pad'[d] = <<>> /\ Waiting(d)'
             /\ sent'[d] = sent[d] /\ have'[d] = have[d] /\ gaps'[d] = gaps[d]
             /\ Peek(d) \in BufferType /\ Peek(d).start \in Nat /\ Peek(d).stop \in Nat
             /\ Peek(d).start <= Peek(d).stop /\ Peek(d).stop = sent[d]
             /\ have[d] \subseteq Nat
             /\ \A t \in have[d] : t < Peek(d).stop
             /\ \A t \in Nat : Peek(d).start <= t /\ t < Peek(d).stop =>
                  (t \in gaps[d] <=> Peek(d).gap = TRUE)
             /\ adapter'[d] = h(d) \o (IF d \in cut THEN Subbuffer(Peek(d), start) ELSE <<>>)
  <2>1. h(d) \in Seq(Sample) /\ Len(h(d)) = HeadLen /\ flag_segments[d] = <<>>
    <3>1. CASE t0 = -1
      <4>1. Zeros(HeadLen) \in Seq(Sample) /\ Len(Zeros(HeadLen)) = HeadLen
        BY Lengths, ZerosAre
      <4> QED
        BY <1>7, <1>9, <3>1, <4>1
    <3>2. CASE t0 # -1
      BY <1>7, <1>9, <3>2
    <3> QED
      BY <3>1, <3>2
  <2>2. pad[d] # <<>> /\ pad'[d] = <<>>
    BY <1>2, <1>4, <1>9
  <2>3. sent'[d] = sent[d] /\ have'[d] = have[d] /\ gaps'[d] = gaps[d]
    BY <1>1 DEF upstream
  <2>4. /\ Peek(d) \in BufferType /\ Peek(d).start \in Nat /\ Peek(d).stop \in Nat
        /\ Peek(d).start <= Peek(d).stop /\ Peek(d).stop = sent[d]
    BY <2>2, PeekType DEF Waiting
  <2>5. /\ \A t \in have[d] : t < Peek(d).stop
        /\ \A t \in Nat : Peek(d).start <= t /\ t < Peek(d).stop =>
             (t \in gaps[d] <=> Peek(d).gap = TRUE)
    BY <2>2, <2>4 DEF Waiting
  <2>6. Waiting(d)'
    BY <2>2, <2>3 DEF Waiting
  <2>7. have[d] \subseteq Nat
    BY DEF Types
  <2> QED
    BY <1>2, <2>1, <2>2, <2>3, <2>4, <2>5, <2>6, <2>7
<1> HIDE DEF h
<1>10. ASSUME NEW d \in Ifos, d \in todo, d \notin cut
       PROVE  /\ adapter'[d] \in Seq(Sample) /\ Len(adapter'[d]) = HeadLen
              /\ ~is_aligned'[d] /\ next_offset'[d] = next_offset[d]
              /\ flag_segments'[d] = <<>> /\ Unaligned(d)' /\ Aligned(d)'
  <2>1. adapter'[d] = h(d)
    BY <1>9, <1>10, ConcatEmptySeq
  <2>2. /\ ~is_aligned'[d] /\ flag_segments'[d] = <<>>
        /\ next_offset'[d] = next_offset[d]
    BY <1>2, <1>9, <1>10
  <2>3. ~is_all_aligned'
    BY <1>1, <1>10
  <2>4. \A t \in have'[d] : t < t0'
    <3> TAKE t \in have'[d]
    <3>1. t \in Nat /\ t < Peek(d).stop /\ ~(Peek(d).stop > start) /\ t0' = start
      BY <1>1, <1>4, <1>9, <1>10
    <3>2. Peek(d).stop \in Nat /\ start \in Nat
      BY <1>3, <1>9, <1>10
    <3> QED
      BY <3>1, <3>2
  <2> QED
    BY <1>9, <1>10, <2>1, <2>2, <2>3, <2>4 DEF Unaligned, Aligned
<1>11. ASSUME NEW d \in Ifos, d \in cut
       PROVE  /\ adapter'[d] \in Seq(Sample) /\ Len(adapter'[d]) >= HeadLen
              /\ Len(adapter'[d]) \in Nat /\ is_aligned'[d] /\ next_offset'[d] \in Nat
              /\ flag_segments'[d] \in Seq(Segment) /\ Unaligned(d)' /\ Aligned(d)'
  <2>0. d \in todo /\ Peek(d).stop > start /\ Peek(d).start <= start
    BY <1>4, <1>5, <1>11
  <2> DEFINE b == Peek(d)
             x == Subbuffer(b, start)
  <2>1. /\ b \in BufferType /\ b.start \in Nat /\ b.stop \in Nat /\ b.stop = sent[d]
        /\ b.start <= start /\ start < b.stop
    BY <1>3, <1>9, <2>0
  <2>2. x \in Seq(Sample) /\ Len(x) = b.stop - start
    <3> HIDE DEF b
    <3> QED
      BY <1>3, <2>1, SubbufferIs
  <2>3. adapter'[d] = h(d) \o x /\ h(d) \in Seq(Sample) /\ Len(h(d)) = HeadLen
    BY <1>9, <1>11, <2>0
  <2> HIDE DEF x
  <2>4. adapter'[d] \in Seq(Sample) /\ Len(adapter'[d]) = HeadLen + (b.stop - start)
    <3>1. h(d) \o x \in Seq(Sample) /\ Len(h(d) \o x) = Len(h(d)) + Len(x)
      BY <2>2, <2>3, ConcatProperties
    <3> QED
      BY <2>2, <2>3, <3>1
  <2>5. /\ is_aligned'[d] /\ next_offset'[d] = b.stop /\ flag_segments'[d] = Flag(d)
        /\ pad'[d] = <<>>
    BY <1>2, <1>9, <1>11, <2>0
  <2>6. Len(adapter'[d]) \in Nat /\ Len(adapter'[d]) >= HeadLen /\ End(d)' = b.stop
    <3>1. End(d)' = start - HeadLen + Len(adapter'[d])
      BY <1>6 DEF End
    <3> HIDE DEF b
    <3> QED
      BY SMTT(30), <1>3, <2>1, <2>4, <3>1, Lengths
  <2>7. /\ Flag(d) \in Seq(Segment) /\ Ordered(Flag(d))
        /\ \A i \in DOMAIN Flag(d) : Flag(d)[i].stop <= b.stop
        /\ \A t \in Nat : Says(Flag(d), t, TRUE)
             <=> \/ Says(flag_segments[d], t, TRUE)
                 \/ b.start <= t /\ t < b.stop /\ b.gap = TRUE
    <3>1. flag_segments[d] = <<>> /\ pad[d] # <<>> /\ d \in Ifos /\ Waiting(d)
      BY <1>9, <2>0
    <3>2. Ordered(flag_segments[d])
      BY <3>1 DEF Ordered
    <3>3. \A i \in DOMAIN flag_segments[d] : flag_segments[d][i].stop <= Peek(d).start
      BY <3>1
    <3> QED
      BY <3>1, <3>2, <3>3, FlagAdded
  <2>8. \A t \in Nat : Second' <= t /\ t < End(d)' =>
          (Says(flag_segments'[d], t, TRUE) <=> t \in gaps'[d])
    <3> TAKE t \in Nat
    <3> HAVE Second' <= t /\ t < End(d)'
    <3>1. b.start <= t /\ t < b.stop
      BY <1>3, <1>6, <2>1, <2>6
    <3>2. ~Says(flag_segments[d], t, TRUE)
      <4>1. flag_segments[d] = <<>>
        BY <1>9, <2>0
      <4> QED
        BY <4>1 DEF Says
    <3> QED
      BY <1>9, <2>0, <2>5, <2>7, <3>1, <3>2
  <2>9. \A t \in have'[d] : ~(t >= End(d)')
    <3> TAKE t \in have'[d]
    <3>1. t \in Nat /\ t < b.stop
      BY <1>9, <2>0
    <3> QED
      BY <2>1, <2>6, <3>1
  <2>10. Aligned(d)'
    BY ZenonT(60), <1>9, <2>0, <2>1, <2>5, <2>6, <2>7, <2>8, <2>9 DEF Aligned
  <2> QED
    BY <2>1, <2>4, <2>5, <2>6, <2>7, <2>10 DEF Unaligned
<1>12. ASSUME NEW d \in Ifos
       PROVE  /\ Waiting(d)' /\ Unaligned(d)' /\ Aligned(d)'
              /\ pad'[d] \in Seq(BufferType) /\ Len(pad'[d]) <= 1
              /\ next_offset'[d] \in Nat /\ adapter'[d] \in Seq(Sample)
              /\ flag_segments'[d] \in Seq(Segment)
  <2>1. next_offset[d] \in Nat /\ pad[d] \in Seq(BufferType) /\ Len(pad[d]) <= 1
        /\ adapter[d] \in Seq(Sample) /\ flag_segments[d] \in Seq(Segment)
    BY DEF Types
  <2>2. CASE d \notin todo
    BY <1>8, <2>1, <2>2
  <2>5. d \in todo => /\ pad'[d] \in Seq(BufferType) /\ Len(pad'[d]) <= 1
                      /\ Waiting(d)'
    <3> SUFFICES ASSUME d \in todo
                 PROVE  /\ pad'[d] \in Seq(BufferType) /\ Len(pad'[d]) <= 1
                        /\ Waiting(d)'
      OBVIOUS
    <3>1. pad'[d] = <<>> /\ Waiting(d)'
      BY <1>9
    <3> QED
      BY <3>1
  <2>3. CASE d \in cut
    BY <1>5, <1>11, <2>3, <2>5
  <2>4. CASE d \in todo /\ d \notin cut
    <3>1. /\ adapter'[d] \in Seq(Sample) /\ next_offset'[d] = next_offset[d]
          /\ flag_segments'[d] = <<>> /\ Unaligned(d)' /\ Aligned(d)'
      BY <1>10, <2>4
    <3>2. flag_segments'[d] \in Seq(Segment)
      BY <3>1
    <3> QED
      BY <2>1, <2>4, <2>5, <3>1, <3>2
  <2> QED
    BY <2>2, <2>3, <2>4
<1>13. Types'
  <2>1. /\ next_offset' = [d \in Ifos |-> next_offset'[d]]
        /\ adapter' = [d \in Ifos |-> adapter'[d]]
        /\ flag_segments' = [d \in Ifos |-> flag_segments'[d]]
        /\ pad' = [d \in Ifos |-> pad'[d]]
    BY <1>2
  <2>2. /\ next_offset' \in [Ifos -> Nat] /\ adapter' \in [Ifos -> Seq(Sample)]
        /\ flag_segments' \in [Ifos -> Seq(Segment)] /\ pad' \in [Ifos -> Seq(BufferType)]
    BY <1>12, <2>1
  <2>3. t0' \in Nat /\ samples_out' \in Nat
    BY <1>1, <1>3, <1>6
  <2> QED
    BY <1>1, <1>12, <2>2, <2>3 DEF Types, upstream
<1>14. Unstarted' /\ Common' /\ Output'
  BY <1>1, <1>3, <1>6 DEF Unstarted, Common, Output
<1>15. Beginning'
  <2>1. \A d \in Ifos : is_aligned'[d] <=> is_aligned[d] \/ d \in cut
    BY <1>2
  <2>2. is_all_aligned' <=> \A d \in Ifos : is_aligned'[d]
    BY <1>1, <1>5, <2>1
  <2> QED
    BY <1>6, <2>2 DEF Beginning
<1> QED
  BY <1>12, <1>13, <1>14, <1>15

-----------------------------------------------------------------------------
(* A second that is processed.                                             *)

\* The state in which a second is processed: all detectors span it.
LEMMA Ready ==
  ASSUME Placed, status = "processing", common_size >= OneTakeLen
  PROVE  /\ t0 >= 0 /\ t0 \in Nat /\ Second \in Nat /\ samples_out \in Nat
         /\ is_all_aligned /\ common_size \in Nat
         /\ \A d \in Ifos : /\ is_aligned[d] /\ pad[d] = <<>>
                            /\ Len(adapter[d]) \in Nat /\ common_size <= Len(adapter[d])
                            /\ OneTakeLen <= Len(adapter[d])
                            /\ End(d) \in Int /\ Second + ExeLen <= End(d)
                            /\ End(d) = Second - HeadLen + Len(adapter[d])
<1> USE DEF Placed
<1>1. is_all_aligned /\ common_size \in Nat
      /\ \A d \in Ifos : pad[d] = <<>> /\ common_size <= Len(adapter[d])
  BY DEF Common
<1>2. /\ t0 >= 0 /\ t0 \in Nat /\ samples_out \in Nat
      /\ \A d \in Ifos : is_aligned[d]
  BY <1>1 DEF Types, Unstarted, Beginning
<1>3. Second \in Nat
  BY <1>2 DEF Second
<1>4. ASSUME NEW d \in Ifos
      PROVE  /\ Len(adapter[d]) \in Nat /\ OneTakeLen <= Len(adapter[d])
             /\ End(d) \in Int /\ Second + ExeLen <= End(d)
             /\ End(d) = Second - HeadLen + Len(adapter[d])
  <2>1. Len(adapter[d]) \in Nat /\ common_size <= Len(adapter[d])
    BY <1>1, TimeTypes
  <2>2. End(d) = Second - HeadLen + Len(adapter[d])
    BY DEF End
  <2> QED
    BY <1>1, <1>3, <2>1, <2>2, Lengths
<1> QED
  BY <1>1, <1>2, <1>3, <1>4

\* What is left of the adapters.
LEMMA Shortened ==
  ASSUME NEW s \in Seq(Sample), ExeLen <= Len(s)
  PROVE  /\ SubSeq(s, ExeLen + 1, Len(s)) \in Seq(Sample)
         /\ Len(SubSeq(s, ExeLen + 1, Len(s))) = Len(s) - ExeLen
         /\ \A i \in 1..(Len(s) - ExeLen) :
              SubSeq(s, ExeLen + 1, Len(s))[i] = s[i + ExeLen]
<1> DEFINE m == ExeLen + 1
           n == Len(s)
<1>1. m \in Int /\ n \in Nat /\ ExeLen \in Nat
  BY Lengths
<1>2. \A i \in m..n : s[i] \in Sample
  BY <1>1
<1> HIDE DEF m, n
<1>3. /\ SubSeq(s, m, n) \in Seq(Sample)
      /\ Len(SubSeq(s, m, n)) = IF m <= n THEN n - m + 1 ELSE 0
      /\ \A i \in 1..(n - m + 1) : SubSeq(s, m, n)[i] = s[m + i - 1]
  BY <1>1, <1>2, SubSeqProperties
<1>4. n - m + 1 = n - ExeLen /\ ExeLen <= n
  BY <1>1 DEF m, n
<1>5. (IF m <= n THEN n - m + 1 ELSE 0) = n - ExeLen
  BY <1>1, <1>4 DEF m
<1>6. \A i \in 1..(n - ExeLen) : m + i - 1 = i + ExeLen
  BY <1>1 DEF m
<1> QED
  BY <1>3, <1>4, <1>5, <1>6 DEF m, n

\* A second that is processed moves every adapter on by its length.
LEMMA ProcessPlaced ==
  ASSUME Placed, Process
  PROVE  Placed'
<1> USE DEF Placed
<1>1. /\ status = "processing" /\ common_size >= OneTakeLen
      /\ flag_segments' = [d \in Ifos |-> Flushed(flag_segments[d], Second)]
      /\ out'.start = Second
      /\ adapter' = [d \in Ifos |-> SubSeq(adapter[d], ExeLen + 1, Len(adapter[d]))]
      /\ common_size' = common_size - ExeLen
      /\ samples_out' = samples_out + ExeLen
      /\ UNCHANGED <<status, pad, upstream, collectVars>>
  BY DEF Process
<1>2. /\ t0 >= 0 /\ t0 \in Nat /\ Second \in Nat /\ samples_out \in Nat
      /\ is_all_aligned /\ common_size \in Nat
      /\ \A d \in Ifos : /\ is_aligned[d] /\ pad[d] = <<>>
                         /\ Len(adapter[d]) \in Nat /\ common_size <= Len(adapter[d])
                         /\ OneTakeLen <= Len(adapter[d])
                         /\ End(d) \in Int /\ Second + ExeLen <= End(d)
                         /\ End(d) = Second - HeadLen + Len(adapter[d])
  BY <1>1, Ready
<1>3. Second' = Second + ExeLen /\ Second' \in Nat /\ samples_out' \in Nat /\ t0' = t0
  BY <1>1, <1>2, Lengths DEF Second, collectVars
<1>4. ASSUME NEW d \in Ifos
      PROVE  /\ adapter'[d] \in Seq(Sample) /\ Len(adapter'[d]) = Len(adapter[d]) - ExeLen
             /\ Len(adapter'[d]) \in Nat /\ Len(adapter'[d]) >= PreservedLen
             /\ End(d)' = End(d)
  <2>1. adapter[d] \in Seq(Sample) /\ ExeLen <= Len(adapter[d])
        /\ OneTakeLen <= Len(adapter[d]) /\ Len(adapter[d]) \in Nat
    BY <1>2, Lengths DEF Types
  <2>2. adapter'[d] \in Seq(Sample) /\ Len(adapter'[d]) = Len(adapter[d]) - ExeLen
    BY <1>1, <2>1, Shortened
  <2>3. End(d)' = Second' - HeadLen + Len(adapter'[d])
    BY DEF End
  <2>4. End(d) = Second - HeadLen + Len(adapter[d])
    BY DEF End
  <2> DEFINE l == Len(adapter[d])
  <2> HIDE DEF l
  <2>5. l \in Nat /\ OneTakeLen <= l /\ Len(adapter'[d]) = l - ExeLen
    BY <2>1, <2>2 DEF l
  <2>6. l - ExeLen \in Nat /\ l - ExeLen >= PreservedLen
    BY <2>5, Lengths
  <2>7. End(d)' = End(d)
    <3>1. Second + ExeLen - HeadLen + (l - ExeLen) = Second - HeadLen + l
      BY <1>2, <2>5, Lengths
    <3>2. End(d)' = Second + ExeLen - HeadLen + (l - ExeLen) /\ End(d) = Second - HeadLen + l
      BY <1>2, <1>3, <2>3, <2>4, <2>5, Lengths DEF l
    <3> QED
      BY <3>1, <3>2
  <2> QED
    BY <2>2, <2>5, <2>6, <2>7
<1>5. ASSUME NEW d \in Ifos
      PROVE  /\ flag_segments'[d] \in Seq(Segment) /\ Ordered(flag_segments'[d])
             /\ \A i \in DOMAIN flag_segments'[d] : flag_segments'[d][i].stop <= End(d)
             /\ \A t \in Nat : Second + ExeLen <= t /\ t < End(d) =>
                  (Says(flag_segments'[d], t, TRUE) <=> t \in gaps[d])
  <2>1. /\ flag_segments[d] \in Seq(Segment) /\ Ordered(flag_segments[d])
        /\ \A i \in DOMAIN flag_segments[d] : flag_segments[d][i].stop <= End(d)
        /\ \A t \in Nat : Second <= t /\ t < End(d) =>
             (Says(flag_segments[d], t, TRUE) <=> t \in gaps[d])
        /\ flag_segments'[d] = Flushed(flag_segments[d], Second)
    BY <1>1, <1>2 DEF Aligned, Types
  <2>2. /\ flag_segments'[d] \in Seq(Segment) /\ Ordered(flag_segments'[d])
        /\ \A i \in DOMAIN flag_segments'[d] :
             \E j \in DOMAIN flag_segments[d] : flag_segments'[d][i] = flag_segments[d][j]
        /\ \A t \in Nat : Second <= t => (Says(flag_segments'[d], t, TRUE)
                                            <=> Says(flag_segments[d], t, TRUE))
    <3> DEFINE segs == flag_segments[d]
    <3> HIDE DEF segs
    <3>1. segs \in Seq(Segment) /\ Ordered(segs) /\ Second \in Nat
      BY <1>2, <2>1 DEF segs
    <3>2. /\ Flushed(segs, Second) \in Seq(Segment) /\ Ordered(Flushed(segs, Second))
          /\ \A i \in DOMAIN Flushed(segs, Second) :
               \E j \in DOMAIN segs : Flushed(segs, Second)[i] = segs[j]
          /\ \A t \in Nat, flag \in BOOLEAN : Second <= t =>
               (Says(Flushed(segs, Second), t, flag) <=> Says(segs, t, flag))
      BY <3>1, SegmentsFlushed
    <3>3. flag_segments'[d] = Flushed(segs, Second)
      BY <2>1 DEF segs
    <3> QED
      BY <3>2, <3>3 DEF segs
  <2>3. \A t \in Nat : Second + ExeLen <= t => Second <= t
    BY <1>2, Lengths
  <2> QED
    BY <2>1, <2>2, <2>3
<1>6. ASSUME NEW d \in Ifos
      PROVE  Waiting(d)' /\ Unaligned(d)' /\ Aligned(d)'
  <2>1. /\ is_aligned'[d] /\ pad'[d] = <<>> /\ pad[d] = <<>> /\ sent'[d] = sent[d]
        /\ have'[d] = have[d] /\ gaps'[d] = gaps[d] /\ next_offset'[d] = next_offset[d]
    BY <1>1, <1>2 DEF upstream, collectVars
  <2>2. Waiting(d)'
    BY <2>1 DEF Waiting
  <2>3. Unaligned(d)'
    BY <2>1 DEF Unaligned
  <2>4. Len(adapter'[d]) >= HeadLen
    BY <1>4, Lengths
  <2>5. Aligned(d)'
    BY ZenonT(60), <1>2, <1>3, <1>4, <1>5, <2>1, <2>4 DEF Aligned, Later
  <2> QED
    BY <2>2, <2>3, <2>5
<1>7. Types'
  <2>1. /\ adapter' = [d \in Ifos |-> adapter'[d]]
        /\ flag_segments' = [d \in Ifos |-> flag_segments'[d]]
    BY <1>1
  <2>2. adapter' \in [Ifos -> Seq(Sample)] /\ flag_segments' \in [Ifos -> Seq(Segment)]
    BY <1>4, <1>5, <2>1
  <2> QED
    BY <1>1, <1>3, <2>2 DEF Types, upstream, collectVars
<1>8. Unstarted' /\ Beginning'
  BY <1>1, <1>2, <1>3 DEF Unstarted, Beginning, collectVars
<1>9. Common'
  <2>1. common_size' \in Nat
    BY SMTT(30), <1>1, <1>2, Lengths
  <2>2. \A d \in Ifos : pad'[d] = <<>> /\ common_size' <= Len(adapter'[d])
    BY <1>1, <1>2, <1>4, Lengths
  <2>3. \E d \in Ifos : common_size' = Len(adapter'[d])
    BY <1>1, <1>4 DEF Common
  <2> QED
    BY <1>1, <1>2, <2>1, <2>2, <2>3 DEF Common, collectVars
<1>10. Output'
  <2>1. \A d \in Ifos : Len(adapter'[d]) >= 2 * HeadLen
    BY <1>4, Lengths
  <2>2. Second = Second' - ExeLen
    BY <1>2, <1>3, Lengths
  <2> QED
    BY <1>1, <1>2, <2>1, <2>2 DEF Output
<1> QED
  BY <1>6, <1>7, <1>8, <1>9, <1>10

\* Every step keeps the invariant.
LEMMA PlacedStep == Placed /\ [Next]_vars => Placed'
<1> SUFFICES ASSUME Placed, [Next]_vars PROVE Placed'
  OBVIOUS
<1>1. CASE NoStart \/ AlignCrashes \/ AllEnded \/ ProcessAborts \/ Processed
  BY <1>1, QuietStep
     DEF NoStart, AlignCrashes, AllEnded, ProcessAborts, Processed, upstream, dataVars,
         processVars
<1>2. CASE Ended \/ UNCHANGED vars
  BY <1>2, QuietStep DEF Ended, vars, upstream, dataVars, processVars
<1>3. ASSUME NEW d \in Ifos, Upstream(d) PROVE Placed'
  <2>1. CASE Arrive(d)
    BY <2>1, ArrivePlaced
  <2>2. CASE EndOfStream(d)
    BY <2>2, QuietStep DEF EndOfStream, dataVars, processVars
  <2> QED
    BY <1>3, <2>1, <2>2 DEF Upstream
<1>4. CASE Align \/ Recollect \/ PushAll \/ Process
  BY <1>4, AlignPlaced, RecollectPlaced, PushPlaced, ProcessPlaced
<1> QED
  BY <1>1, <1>2, <1>3, <1>4 DEF Next, Search

-----------------------------------------------------------------------------
(* Who takes part in a second.                                             *)

\* Once a second was processed all detectors are aligned, and upstream is behind it.
LEMMA BehindOutput ==
  ASSUME Placed, out.start >= 0, NEW d \in Ifos, pad[d] = <<>>
  PROVE  out.start \in Nat /\ sent[d] \in Nat /\ out.start + ExeLen < sent[d]
<1> USE DEF Placed
<1>1. /\ out.start \in Nat /\ out.start = Second - ExeLen /\ Len(adapter[d]) >= 2 * HeadLen
      /\ is_all_aligned /\ is_aligned[d]
  BY DEF Output, Beginning
<1>2. t0 >= 0 /\ Second \in Nat /\ Len(adapter[d]) \in Nat /\ sent[d] \in Nat
  BY <1>1, TimeTypes DEF Unstarted, Types
<1>3. End(d) = sent[d] /\ End(d) = Second - HeadLen + Len(adapter[d])
  BY <1>1, <1>2 DEF Aligned, End
<1> QED
  BY <1>1, <1>2, <1>3, Lengths

\* The segments tell whether half of the next second is a gap.
LEMMA GapsTold ==
  ASSUME Placed, status = "processing", common_size >= OneTakeLen, NEW d \in Ifos
  PROVE  ~IsGap(flag_segments[d], Second, Second + ExeLen)
           <=> 2 * Cardinality(gaps[d] \intersect Second..(Second + ExeLen - 1)) < ExeLen
<1> USE DEF Placed
<1> DEFINE s == Second
           last == (Second + ExeLen) - 1
           told == {t \in s..last : Says(flag_segments[d], t, TRUE)}
           true == gaps[d] \intersect s..last
<1>1. s \in Nat /\ last \in Int /\ s + ExeLen <= End(d) /\ End(d) \in Int
      /\ t0 >= 0 /\ is_aligned[d] /\ last < s + ExeLen /\ last = Second + ExeLen - 1
  BY Ready, Lengths
<1>2. \A t \in Nat : s <= t /\ t < End(d) =>
        (Says(flag_segments[d], t, TRUE) <=> t \in gaps[d])
  BY <1>1 DEF Aligned
<1>3. IsGap(flag_segments[d], Second, Second + ExeLen)
        <=> 2 * Cardinality(told) >= (Second + ExeLen) - Second
  BY Zenon DEF IsGap
<1> HIDE DEF s, last
<1>4. \A t \in s..last : t \in Nat /\ s <= t /\ t < End(d)
  <2> TAKE t \in s..last
  <2>1. t \in Nat /\ s <= t /\ t <= last
    BY <1>1
  <2> QED
    BY <1>1, <2>1, Lengths
<1>5. told = true
  BY <1>2, <1>4
<1>6. Cardinality(true) \in Nat
  <2>1. IsFiniteSet(s..last)
    BY <1>1, FS_Interval
  <2>2. IsFiniteSet(true)
    BY <2>1, FS_Intersection
  <2> QED
    BY <2>2, FS_CardinalityType
<1> DEFINE c == Cardinality(true)
<1>7. c \in Nat /\ Second \in Nat
  BY <1>1, <1>6 DEF s
<1>8. IsGap(flag_segments[d], Second, Second + ExeLen) <=> 2 * c >= (Second + ExeLen) - Second
  BY <1>3, <1>5
<1> HIDE DEF c
<1>9. ~(2 * c >= (Second + ExeLen) - Second) <=> 2 * c < ExeLen
  BY <1>7, Lengths
<1>10. 2 * c < ExeLen
         <=> 2 * Cardinality(gaps[d] \intersect Second..(Second + ExeLen - 1)) < ExeLen
  BY <1>1 DEF c, s
<1> QED
  BY <1>8, <1>9, <1>10

\* Whatever a step does, who took part in the last second had data in it.
LEMMA ParticipantsStep ==
  Placed /\ ParticipantsHaveData /\ [Next]_vars => ParticipantsHaveData'
<1> SUFFICES ASSUME Placed, ParticipantsHaveData, [Next]_vars
             PROVE  ParticipantsHaveData'
  OBVIOUS
<1>1. CASE UNCHANGED <<out, gaps>>
  BY <1>1 DEF ParticipantsHaveData
<1>2. ASSUME NEW e \in Ifos, Arrive(e) PROVE ParticipantsHaveData'
  <2>1. PICK n \in 0..MaxLength, hole \in 0..MaxHole, gap \in BOOLEAN :
          LET b == Buffer(sent[e] + hole, sent[e] + hole + n, gap)
          IN  /\ hole > 0 \/ gap => e \in Faulty
              /\ ~is_aligned[e] => n <= MaxFirst
              /\ n = 0 => hole > 0 /\ ~gap
              /\ b.stop <= MaxTime
              /\ pad' = [pad EXCEPT ![e] = <<b>>]
              /\ sent' = [sent EXCEPT ![e] = b.stop]
              /\ have' = [have EXCEPT ![e] = @ \union b.start..(b.stop - 1)]
              /\ gaps' = [gaps EXCEPT ![e] =
                   IF gap THEN @ \union b.start..(b.stop - 1) ELSE @]
    BY <1>2 DEF Arrive
  <2>2. pad[e] = <<>> /\ out' = out
    BY <1>2 DEF Arrive, IsNext, processVars
  <2> SUFFICES ASSUME out.start >= 0
               PROVE  \A d \in Ifos : gaps'[d] \intersect out.start..(out.start + ExeLen - 1)
                                       = gaps[d] \intersect out.start..(out.start + ExeLen - 1)
    <3>1. \A d \in Ifos : gaps'[d] \intersect out.start..(out.start + ExeLen - 1)
                            = gaps[d] \intersect out.start..(out.start + ExeLen - 1)
          => (2 * Cardinality(gaps'[d] \intersect out.start..(out.start + ExeLen - 1)) < ExeLen
                <=> 2 * Cardinality(gaps[d] \intersect out.start..(out.start + ExeLen - 1)) < ExeLen)
      OBVIOUS
    <3> QED
      BY <2>2, <3>1 DEF ParticipantsHaveData
  <2>3. out.start \in Nat /\ sent[e] \in Nat /\ out.start + ExeLen < sent[e]
    BY <2>2, BehindOutput
  <2> DEFINE from == sent[e] + hole
             to == from + n
  <2>4. /\ from \in Nat /\ sent[e] <= from
        /\ \A d \in Ifos : d # e => gaps'[d] = gaps[d]
        /\ \/ gaps'[e] = gaps[e]
           \/ gaps'[e] = gaps[e] \union from..(to - 1)
    BY SMTT(30), <2>1, <2>3, LengthsAssumption DEF Buffer, Placed, Types
  <2> HIDE DEF from, to
  <2>5. \A t \in out.start..(out.start + ExeLen - 1) : t \notin from..(to - 1)
    BY <2>3, <2>4, Lengths
  <2> QED
    BY <2>4, <2>5
<1>3. CASE Process
  <2>1. /\ status = "processing" /\ common_size >= OneTakeLen /\ gaps' = gaps
        /\ out'.start = Second
        /\ out'.coh_ifos = {d \in Ifos : ~IsGap(flag_segments[d], Second, Second + ExeLen)}
    BY <1>3 DEF Process, upstream
  <2>2. \A d \in Ifos : ~IsGap(flag_segments[d], Second, Second + ExeLen)
          <=> 2 * Cardinality(gaps[d] \intersect Second..(Second + ExeLen - 1)) < ExeLen
    BY <2>1, GapsTold
  <2> QED
    BY <2>1, <2>2 DEF ParticipantsHaveData
<1>4. CASE \/ NoStart \/ Align \/ AlignCrashes \/ Recollect \/ PushAll \/ AllEnded
           \/ ProcessAborts \/ Processed \/ Ended \/ UNCHANGED vars
  BY <1>1, <1>4 DEF NoStart, Align, AlignCrashes, Recollect, PushAll, AllEnded,
       ProcessAborts, Processed, Ended, vars, upstream, processVars
<1>5. ASSUME NEW d \in Ifos, EndOfStream(d) PROVE ParticipantsHaveData'
  BY <1>1, <1>5 DEF EndOfStream, processVars
<1> QED
  BY <1>2, <1>3, <1>4, <1>5 DEF Next, Search, Upstream

\* Whatever the lengths, the gaps and the cuts: a detector takes part in a second if
\* and only if less than half of it was flagged as a gap, although segments are
\* coalesced, heartbeats replaced and those that are over flushed.
THEOREM Participants == Spec => []ParticipantsHaveData
<1>1. Init => ParticipantsHaveData
  BY DEF Init, ParticipantsHaveData
<1> QED
  BY <1>1, PlacedInit, PlacedStep, ParticipantsStep, PTL DEF Spec

-----------------------------------------------------------------------------
(* What is left at the end.                                                *)

\* The time before which the last sample of some detector is, unless it waits, when
\* no second is left.
Left == Second + OneTakeLen - HeadLen - 1

\* Until the alignment buffers are no longer than MaxFirst, and between two calls
\* of collected some detector does not span a second.
Short ==
  \A d \in Ifos : pad[d] # <<>> /\ ~is_aligned[d] => Peek(d).stop <= Peek(d).start + MaxFirst

Remaining ==
  status = "running" /\ is_all_aligned =>
    \E d \in Ifos : \A t \in have[d] : Later(d, t) \/ t < Left

\* No longer buffer waits after a step.
LEMMA ShortStep ==
  ASSUME Placed, Short, [Next]_vars
  PROVE  Short'
<1> USE DEF Placed
<1>1. CASE UNCHANGED <<pad, is_aligned>>
  BY <1>1 DEF Short, Peek
<1>2. ASSUME NEW e \in Ifos, Arrive(e) PROVE Short'
  <2>1. PICK n \in 0..MaxLength, hole \in 0..MaxHole, gap \in BOOLEAN :
          LET b == Buffer(sent[e] + hole, sent[e] + hole + n, gap)
          IN  /\ hole > 0 \/ gap => e \in Faulty
              /\ ~is_aligned[e] => n <= MaxFirst
              /\ n = 0 => hole > 0 /\ ~gap
              /\ b.stop <= MaxTime
              /\ pad' = [pad EXCEPT ![e] = <<b>>]
              /\ sent' = [sent EXCEPT ![e] = b.stop]
              /\ have' = [have EXCEPT ![e] = @ \union b.start..(b.stop - 1)]
              /\ gaps' = [gaps EXCEPT ![e] =
                   IF gap THEN @ \union b.start..(b.stop - 1) ELSE @]
    BY <1>2 DEF Arrive
  <2> DEFINE b == Buffer(sent[e] + hole, sent[e] + hole + n, gap)
  <2>2. /\ b.stop = b.start + n /\ b.start \in Nat /\ n \in Nat
        /\ ~is_aligned[e] => n <= MaxFirst
    BY <2>1, LengthsAssumption DEF Buffer, Types
  <2>3. /\ pad'[e] = <<b>> /\ is_aligned' = is_aligned
        /\ \A d \in Ifos : d # e => pad'[d] = pad[d]
    BY <1>2, <2>1 DEF Arrive, Types, collectVars
  <2>4. Peek(e)' = b /\ \A d \in Ifos : d # e => Peek(d)' = Peek(d)
    BY <2>3 DEF Peek
  <2> HIDE DEF b
  <2> QED
    BY <2>2, <2>3, <2>4, Lengths DEF Short
<1>3. CASE Align
  <2>1. /\ \A d \in Ifos : is_aligned[d] => is_aligned'[d]
        /\ \A d \in Ifos : ~is_aligned[d] => pad'[d] = <<>>
    BY <1>3 DEF Align
  <2> QED
    BY <2>1 DEF Short
<1>4. CASE Recollect \/ PushAll
  <2>1. is_all_aligned /\ is_aligned' = is_aligned
    BY <1>4 DEF Recollect, PushAll
  <2> QED
    BY <2>1 DEF Short, Beginning
<1>5. CASE \/ NoStart \/ AlignCrashes \/ AllEnded \/ Process \/ ProcessAborts
           \/ Processed \/ Ended \/ UNCHANGED vars
  BY <1>1, <1>5 DEF NoStart, AlignCrashes, AllEnded, Process, ProcessAborts, Processed,
     Ended, vars, collectVars
<1>6. ASSUME NEW d \in Ifos, EndOfStream(d) PROVE Short'
  BY <1>1, <1>6 DEF EndOfStream, collectVars
<1> QED
  BY <1>2, <1>3, <1>4, <1>5, <1>6 DEF Next, Search, Upstream

\* Steps that do not move buffers.
LEMMA RemainingQuiet ==
  ASSUME Placed, Remaining, AllProcessed, status = "running",
         UNCHANGED <<pad, have, is_aligned, is_all_aligned, t0, samples_out>>,
         status' \in {"running", "error", "aborted"}
  PROVE  Remaining' /\ AllProcessed'
<1>1. Second' = Second /\ Left' = Left /\ \A d \in Ifos : Peek(d)' = Peek(d)
  BY DEF Second, Left, Peek
<1> QED
  BY <1>1 DEF Remaining, AllProcessed, Later

\* A buffer that arrives leaves some detector with all of what remains.
LEMMA RemainingArrive ==
  ASSUME Placed, Remaining, NEW e \in Ifos, Arrive(e)
  PROVE  Remaining' /\ AllProcessed'
<1>1. PICK n \in 0..MaxLength, hole \in 0..MaxHole, gap \in BOOLEAN :
        LET b == Buffer(sent[e] + hole, sent[e] + hole + n, gap)
        IN  /\ hole > 0 \/ gap => e \in Faulty
            /\ ~is_aligned[e] => n <= MaxFirst
            /\ n = 0 => hole > 0 /\ ~gap
            /\ b.stop <= MaxTime
            /\ pad' = [pad EXCEPT ![e] = <<b>>]
            /\ sent' = [sent EXCEPT ![e] = b.stop]
            /\ have' = [have EXCEPT ![e] = @ \union b.start..(b.stop - 1)]
            /\ gaps' = [gaps EXCEPT ![e] =
                 IF gap THEN @ \union b.start..(b.stop - 1) ELSE @]
  BY DEF Arrive
<1> DEFINE from == sent[e] + hole
           to == sent[e] + hole + n
           b == Buffer(from, to, gap)
<1>2. /\ status = "running" /\ pad[e] = <<>> /\ status' = "running"
      /\ UNCHANGED <<is_aligned, is_all_aligned, t0, samples_out>>
  BY DEF Arrive, IsNext, collectVars, processVars
<1>3. /\ from \in Nat /\ to \in Nat /\ to = from + n /\ n \in Nat
  BY LengthsAssumption DEF Placed, Types
<1>4. b.start = from /\ b.stop = to
  BY DEF Buffer
<1>5. /\ pad'[e] = <<b>> /\ have'[e] = have[e] \union from..(to - 1)
      /\ \A d \in Ifos : d # e => pad'[d] = pad[d] /\ have'[d] = have[d]
  BY <1>1, <1>4 DEF Placed, Types
<1>6. Peek(e)' = b /\ \A d \in Ifos : d # e => Peek(d)' = Peek(d)
  BY <1>5 DEF Peek
<1> HIDE DEF from, to, b
<1>9. Remaining'
  <2> SUFFICES ASSUME is_all_aligned
               PROVE  \E d \in Ifos : \A t \in have'[d] : Later(d, t)' \/ t < Left'
    BY <1>2 DEF Remaining
  <2>1. PICK d \in Ifos : \A t \in have[d] : Later(d, t) \/ t < Left
    BY <1>2 DEF Remaining
  <2>2. Left' = Left
    BY <1>2 DEF Left, Second
  <2>3. CASE d = e
    <3>1. \A t \in have[e] : t < Left
      BY <1>2, <2>1, <2>3 DEF Later
    <3>2. \A t \in from..(to - 1) : Later(e, t)'
      BY <1>3, <1>4, <1>5, <1>6 DEF Later
    <3> QED
      BY <1>5, <2>2, <3>1, <3>2
  <2>4. CASE d # e
    BY <1>5, <1>6, <2>1, <2>2, <2>4 DEF Later
  <2> QED
    BY <2>3, <2>4
<1> QED
  BY <1>2, <1>9 DEF AllProcessed

\* The first buffers that are aligned end within a second of the start.
LEMMA RemainingAlign ==
  ASSUME Placed, Placed', Short, MaxFirst <= ExeLen, Align
  PROVE  Remaining' /\ AllProcessed'
<1> USE DEF Placed
<1> DEFINE start == IF t0 = -1 THEN LatestStart ELSE t0
           todo == {d \in Ifos : ~is_aligned[d]}
           cut == {d \in todo \intersect Holding : Peek(d).stop > start}
<1>1. /\ status = "running" /\ ~is_all_aligned /\ status' = "running"
      /\ todo \subseteq Holding /\ \A d \in cut : Peek(d).start <= start
      /\ t0' = start
      /\ is_all_aligned' = (cut = todo)
      /\ UNCHANGED <<upstream, processVars>>
      /\ is_aligned' = [d \in Ifos |-> is_aligned[d] \/ d \in cut]
      /\ pad' = [d \in Ifos |-> IF d \in todo THEN <<>> ELSE pad[d]]
  BY DEF Align, Collected
<1>2. /\ \A d \in todo : d \in Ifos /\ pad[d] # <<>> /\ ~is_aligned[d]
      /\ \A d \in Ifos : d \notin todo => is_aligned[d]
  BY <1>1 DEF Holding
<1> HIDE DEF start, cut
<1>4. PICK e \in todo : TRUE
  BY <1>1, <1>2 DEF Beginning
<1>5. /\ e \in Ifos /\ pad[e] # <<>> /\ ~is_aligned[e] /\ pad'[e] = <<>>
      /\ have'[e] = have[e] /\ samples_out' = 0 /\ samples_out = 0
  BY <1>1, <1>2, <1>4 DEF upstream, processVars, Beginning
<1>6. ASSUME e \in cut, NEW t \in have'[e]
      PROVE  t < Left'
  <2>1. /\ Peek(e).start \in Nat /\ Peek(e).stop \in Nat /\ Peek(e).stop <= Peek(e).start + MaxFirst
        /\ Peek(e).start <= start /\ Peek(e).stop = sent[e]
    BY <1>1, <1>5, <1>6, PeekType DEF Short, Waiting
  <2>2. t \in Nat /\ t < sent[e]
    BY <1>5 DEF Waiting, Types
  <2>3. t0' \in Int /\ t0' = start
    BY <1>1 DEF Types
  <2>4. Left' = t0' + OneTakeLen - HeadLen - 1
    BY <1>5, <2>3, Lengths DEF Left, Second
  <2> QED
    BY <2>1, <2>2, <2>3, <2>4, Lengths
<1>7. is_all_aligned' => e \in cut
  BY <1>1, <1>4
<1>8. Remaining'
  BY <1>5, <1>6, <1>7 DEF Remaining
<1> QED
  BY <1>1, <1>8 DEF AllProcessed

\* A buffer is moved without a second being processed only if it ends early.
LEMMA RemainingRecollect ==
  ASSUME Placed, Remaining, Recollect
  PROVE  Remaining' /\ AllProcessed'
<1> USE DEF Placed
<1>1. /\ is_all_aligned /\ status = "running"
      /\ UNCHANGED <<status, t0, samples_out, is_aligned, is_all_aligned, upstream>>
      /\ pad' = [d \in Ifos |-> IF d \in Recollected THEN <<>> ELSE pad[d]]
  <2> DEFINE empty == {d \in Recollected : Peek(d).start = Peek(d).stop}
  <2>1. (Recollected \ empty) \union empty = Recollected
    OBVIOUS
  <2>2. Move(Recollected \ empty, empty)
    BY DEF Recollect
  <2> HIDE DEF empty
  <2>3. pad' = [d \in Ifos |-> IF d \in Recollected THEN <<>> ELSE pad[d]]
    BY <2>1, <2>2 DEF Move
  <2> QED
    BY <2>3 DEF Recollect, Collected, processVars
<1>3. PICK d \in Ifos : \A t \in have[d] : Later(d, t) \/ t < Left
  BY <1>1 DEF Remaining
<1>4. /\ Left' = Left /\ have'[d] = have[d] /\ t0 >= 0
      /\ pad'[d] = IF d \in Recollected THEN <<>> ELSE pad[d]
  BY <1>1 DEF Left, Second, upstream, Unstarted, Types
<1>5. CASE d \notin Recollected
  <2>1. pad'[d] = pad[d] /\ Peek(d)' = Peek(d)
    BY <1>4, <1>5 DEF Peek
  <2>2. \A t \in have'[d] : Later(d, t)' \/ t < Left'
    BY <1>3, <1>4, <2>1 DEF Later
  <2> QED
    BY <1>1, <2>2 DEF Remaining, AllProcessed
<1>6. CASE d \in Recollected
  <2>1. /\ pad[d] # <<>>
        /\ Peek(d).start = Peek(d).stop \/ Peek(d).stop < t0 + samples_out + SnglsnrCpyLen
    BY <1>6 DEF Recollected, Holding
  <2>2. /\ Peek(d).start \in Nat /\ Peek(d).stop \in Nat /\ Peek(d).stop = sent[d]
    BY <2>1, PeekType DEF Waiting
  <2>3. ASSUME NEW t \in have[d] PROVE t < Left
    <3>1. t \in Nat /\ t < Peek(d).stop
      BY <2>2 DEF Waiting, Types
    <3>2. CASE Peek(d).start = Peek(d).stop
      BY <1>3, <2>2, <3>1, <3>2 DEF Later
    <3>3. CASE Peek(d).stop < t0 + samples_out + SnglsnrCpyLen
      <4>1. Second \in Nat /\ Peek(d).stop < Second + SnglsnrCpyLen
        BY <1>4, <3>3, TimeTypes DEF Second
      <4>2. Left = Second + OneTakeLen - HeadLen - 1
        BY DEF Left
      <4> QED
        BY <2>2, <3>1, <4>1, <4>2, Lengths
    <3> QED
      BY <2>1, <3>2, <3>3
  <2> QED
    BY <1>1, <1>4, <2>3 DEF Remaining, AllProcessed
<1> QED
  BY <1>5, <1>6

\* The loop of process ends when some detector does not span a second.
LEMMA RemainingProcessed ==
  ASSUME Placed, Processed
  PROVE  Remaining' /\ AllProcessed'
<1> USE DEF Placed
<1>1. /\ status = "processing" /\ common_size < OneTakeLen /\ status' = "running"
      /\ UNCHANGED <<pad, upstream, t0, samples_out, is_aligned>>
  BY DEF Processed, collectVars, processVars
<1>2. PICK d \in Ifos : common_size = Len(adapter[d])
  BY <1>1 DEF Common
<1>3. /\ pad[d] = <<>> /\ is_aligned[d] /\ t0 >= 0 /\ common_size \in Nat
      /\ Len(adapter[d]) \in Nat /\ sent[d] \in Nat /\ Second \in Nat
  <2>1. pad[d] = <<>> /\ is_all_aligned /\ common_size \in Nat
    BY <1>1 DEF Common
  <2>2. t0 >= 0
    BY <2>1 DEF Unstarted, Types
  <2> QED
    BY <2>1, <2>2, TimeTypes DEF Beginning
<1>4. sent[d] = End(d) /\ End(d) = Second - HeadLen + Len(adapter[d])
  BY <1>3 DEF Aligned, End
<1>5. ASSUME NEW t \in have[d] PROVE t < Left
  <2>1. t \in Nat /\ t < sent[d]
    BY DEF Waiting, Types
  <2>2. Left = Second + OneTakeLen - HeadLen - 1
    BY DEF Left
  <2> QED
    BY SMTT(30), <1>1, <1>2, <1>3, <1>4, <2>1, <2>2, Lengths
<1>6. Left' = Left /\ have'[d] = have[d] /\ \A e \in Ifos : Peek(e)' = Peek(e)
  BY <1>1 DEF Left, Second, Peek, upstream
<1>8. Remaining'
  BY <1>5, <1>6 DEF Remaining
<1> QED
  BY <1>1, <1>8 DEF AllProcessed

\* Whatever a step does, some detector has all of what remains, and at the end
\* that is less than a second.
LEMMA RemainingStep ==
  ASSUME Placed, Placed', Short, Remaining, AllProcessed, MaxFirst <= ExeLen, [Next]_vars
  PROVE  Remaining' /\ AllProcessed'
<1>1. CASE NoStart \/ AlignCrashes
  BY <1>1, RemainingQuiet DEF NoStart, AlignCrashes, Collected, collectVars, processVars, upstream
<1>2. CASE AllEnded
  <2>1. /\ status = "running" /\ is_all_aligned /\ \A d \in Ifos : pad[d] = <<>>
        /\ status' = "eos"
        /\ UNCHANGED <<pad, have, is_aligned, t0, samples_out>>
    BY <1>2 DEF AllEnded, Collected, Holding, collectVars, processVars, upstream
  <2>2. \E d \in Ifos : \A t \in have[d] : t < Left
    BY <2>1 DEF Remaining, Later
  <2>3. Second' = Second /\ Left = Second + OneTakeLen - HeadLen - 1
    BY <2>1 DEF Second, Left
  <2> QED
    BY <2>1, <2>2, <2>3 DEF Remaining, AllProcessed
<1>3. CASE ProcessAborts \/ Process \/ PushAll
  BY <1>3 DEF ProcessAborts, Process, PushAll, Remaining, AllProcessed
<1>4. CASE Ended \/ UNCHANGED vars
  <2>1. UNCHANGED <<status, pad, have, is_aligned, is_all_aligned, t0, samples_out>>
    BY <1>4 DEF Ended, vars, collectVars, processVars, upstream
  <2>2. Second' = Second /\ Left' = Left /\ \A d \in Ifos : Peek(d)' = Peek(d)
    BY <2>1 DEF Second, Left, Peek
  <2> QED
    BY <2>1, <2>2 DEF Remaining, AllProcessed, Later
<1>5. ASSUME NEW d \in Ifos, Upstream(d) PROVE Remaining' /\ AllProcessed'
  <2>1. CASE Arrive(d)
    BY <2>1, RemainingArrive
  <2>2. CASE EndOfStream(d)
    BY <2>2, RemainingQuiet DEF EndOfStream, IsNext, collectVars, processVars
  <2> QED
    BY <1>5, <2>1, <2>2 DEF Upstream
<1>6. CASE Align \/ Recollect \/ Processed
  BY <1>6, RemainingAlign, RemainingRecollect, RemainingProcessed
<1> QED
  BY <1>1, <1>2, <1>3, <1>4, <1>5, <1>6 DEF Next, Search

\* When the first buffers are no longer than a second, as those of the filter banks
\* are, no second that all detectors span is left unprocessed at the end, whichever
\* of them ends first.  A longer first buffer would stay in the adapter if nothing
\* followed it.
THEOREM NothingLeft == MaxFirst <= ExeLen => (Spec => []AllProcessed)
<1> SUFFICES ASSUME MaxFirst <= ExeLen PROVE Spec => []AllProcessed
  OBVIOUS
<1>1. Init => Short /\ Remaining /\ AllProcessed
  BY DEF Init, Short, Remaining, AllProcessed
<1>2. Placed /\ Placed' /\ (Short /\ Remaining /\ AllProcessed) /\ [Next]_vars
        => (Short /\ Remaining /\ AllProcessed)'
  BY RemainingStep, ShortStep
<1> QED
  BY <1>1, <1>2, PlacedInit, PlacedStep, PTL DEF Spec

-----------------------------------------------------------------------------
(* Every sample at its place: the adapters.                                *)

\* The samples of the first buffer end no later than the adapter.
First(d) ==
  /\ first[d].start \in Nat /\ first[d].stop \in Nat
  /\ IF is_aligned[d]
     THEN t0 >= 0 /\ first[d].start <= t0 /\ first[d].stop <= End(d)
     ELSE first[d].stop = 0

Firsts == \A d \in Ifos : First(d)

\* What an adapter holds.
Content(d) ==
  t0 >= 0 => \A i \in 1..Len(adapter[d]) :
               adapter[d][i] = Found(d, Second - HeadLen + i - 1)

\* What a detector has sent of the times in its adapter does not change any more.
LEMMA BeforeEnd ==
  ASSUME Placed, t0 >= 0, NEW d \in Ifos, pad[d] = <<>>, NEW t \in Int, t < End(d)
  PROVE  t < sent[d] \/ t < t0
<1> USE DEF Placed
<1>1. t0 \in Nat /\ Len(adapter[d]) \in Nat /\ End(d) = Second - HeadLen + Len(adapter[d])
  BY TimeTypes DEF End
<1>2. CASE is_aligned[d]
  BY <1>2 DEF Aligned
<1>3. CASE ~is_aligned[d]
  <2>1. Len(adapter[d]) = HeadLen /\ samples_out = 0
    BY <1>3 DEF Unaligned, Beginning
  <2>2. Second = t0
    BY <1>1, <2>1 DEF Second
  <2> QED
    BY <1>1, <2>1, <2>2, Lengths
<1> QED
  BY <1>2, <1>3

\* A buffer that arrives does not change what was to be found at earlier times.
LEMMA FoundArrive ==
  ASSUME Placed, NEW e \in Ifos, Arrive(e), NEW d \in Ifos, NEW t \in Int,
         d = e => t < sent[d] \/ t < t0
  PROVE  Found(d, t)' = Found(d, t)
<1>1. PICK n \in 0..MaxLength, hole \in 0..MaxHole, gap \in BOOLEAN :
        LET b == Buffer(sent[e] + hole, sent[e] + hole + n, gap)
        IN  /\ hole > 0 \/ gap => e \in Faulty
            /\ ~is_aligned[e] => n <= MaxFirst
            /\ n = 0 => hole > 0 /\ ~gap
            /\ b.stop <= MaxTime
            /\ pad' = [pad EXCEPT ![e] = <<b>>]
            /\ sent' = [sent EXCEPT ![e] = b.stop]
            /\ have' = [have EXCEPT ![e] = @ \union b.start..(b.stop - 1)]
            /\ gaps' = [gaps EXCEPT ![e] =
                 IF gap THEN @ \union b.start..(b.stop - 1) ELSE @]
  BY DEF Arrive
<1> DEFINE b == Buffer(sent[e] + hole, sent[e] + hole + n, gap)
<1>2. b.start \in Nat /\ b.stop \in Nat /\ b.start >= sent[e] /\ sent[e] \in Nat
  BY SMTT(30), LengthsAssumption DEF Buffer, Placed, Types
<1>3. /\ have'[e] = have[e] \union b.start..(b.stop - 1)
      /\ d # e => have'[d] = have[d]
  BY <1>1 DEF Placed, Types
<1>4. t0' = t0 /\ t0 \in Int /\ first' = first
  BY DEF Arrive, collectVars, Placed, Types
<1>8. Skew(d)' = Skew(d)
  BY <1>4 DEF Skew
<1> HIDE DEF b
<1>9. Expected(d, t)' = Expected(d, t)
  <2>5. CASE d # e
    BY <1>3, <1>4, <2>5 DEF Expected
  <2>6. CASE d = e /\ t < t0
    BY <1>4, <2>6 DEF Expected
  <2>7. CASE d = e /\ t < sent[d]
    <3>1. t \notin b.start..(b.stop - 1)
      BY <1>2, <2>7
    <3> QED
      BY <1>3, <1>4, <2>7, <3>1 DEF Expected
  <2> QED
    BY <2>5, <2>6, <2>7
<1> QED
  BY <1>4, <1>8, <1>9 DEF Found

\* Nor does it change what the adapters have.
LEMMA ContentArrive ==
  ASSUME Placed, NEW e \in Ifos, Arrive(e), NEW d \in Ifos, Content(d)
  PROVE  Content(d)'
<1> USE DEF Placed
<1>1. /\ pad[e] = <<>> /\ UNCHANGED <<t0, samples_out, adapter>>
  BY DEF Arrive, IsNext, collectVars, dataVars, processVars
<1>2. Second' = Second
  BY <1>1 DEF Second
<1> SUFFICES ASSUME t0 >= 0, NEW i \in 1..Len(adapter[d])
             PROVE  adapter[d][i] = Found(d, Second - HeadLen + i - 1)'
  BY <1>1 DEF Content
<1> DEFINE t == Second - HeadLen + i - 1
<1>3. t \in Int /\ t < End(d)
  BY TimeTypes, Lengths DEF End
<1>4. adapter[d][i] = Found(d, t)
  BY DEF Content
<1>5. Found(d, Second - HeadLen + i - 1)' = Found(d, t)'
  BY <1>2
<1>6. t' = t
  BY <1>2
<1> HIDE DEF t
<1>7. d = e => t < sent[d] \/ t < t0
  BY <1>1, <1>3, BeforeEnd
<1>8. Found(d, t)' = Found(d, t)
  BY <1>3, <1>6, <1>7, FoundArrive
<1> QED
  BY <1>4, <1>5, <1>8

\* Where the samples of an adapter are from is known before and after a step that
\* changes neither the origin nor what was sent.
LEMMA ContentMove ==
  ASSUME Placed, Firsts, is_all_aligned, NEW moved \in SUBSET Holding, NEW dropped,
         Move(moved, dropped), UNCHANGED <<t0, samples_out, have, first>>,
         NEW d \in Ifos, Content(d)
  PROVE  Content(d)'
<1> USE DEF Placed
<1> DEFINE n == Len(adapter[d])
           f == Filled(d)
           k == Taken(d, moved)
           s == Second - HeadLen
<1>1. /\ f \in Nat /\ k \in Nat /\ n \in Nat
      /\ Len(adapter'[d]) = n + f + k
      /\ \A i \in 1..n : adapter'[d][i] = adapter[d][i]
      /\ \A i \in (n + 1)..(n + f) : adapter'[d][i] = Zero
      /\ \A i \in (n + f + 1)..(n + f + k) : adapter'[d][i] = Peek(d).start + (i - (n + f)) - 1
  BY MoveAdapter
<1>2. t0 >= 0 /\ t0 \in Nat /\ is_aligned[d] /\ Second \in Nat /\ t0 <= Second
  BY TimeTypes DEF Unstarted, Types, Beginning
<1>3. s \in Int /\ End(d) = s + n /\ End(d) \in Int /\ n >= HeadLen /\ t0 <= s + n
  <2>1. n >= HeadLen
    BY <1>1, <1>2 DEF Aligned
  <2>2. End(d) = s + n
    BY DEF End
  <2> HIDE DEF n
  <2>3. s \in Int /\ s + HeadLen = Second
    BY <1>2, Lengths
  <2> HIDE DEF s
  <2> QED
    BY <1>1, <1>2, <2>1, <2>2, <2>3, Lengths
<1>4. pad[d] # <<>> => /\ f = Peek(d).start - End(d) /\ Peek(d).start \in Nat
                       /\ Peek(d).stop \in Nat /\ Peek(d).start <= Peek(d).stop
  <2> SUFFICES ASSUME pad[d] # <<>>
               PROVE  /\ f = Peek(d).start - End(d) /\ Peek(d).start \in Nat
                      /\ Peek(d).stop \in Nat /\ Peek(d).start <= Peek(d).stop
    OBVIOUS
  <2>1. /\ Peek(d).start \in Nat /\ Peek(d).stop \in Nat /\ Peek(d).start <= Peek(d).stop
    BY PeekType DEF Waiting
  <2>2. \/ next_offset[d] = End(d) /\ End(d) <= Peek(d).start
        \/ next_offset[d] = Peek(d).stop /\ End(d) = Peek(d).start
    BY <1>2 DEF Aligned
  <2>3. d \in Holding /\ f = IF Peek(d).start > next_offset[d]
                             THEN Peek(d).start - next_offset[d] ELSE 0
    BY DEF Holding, Filled
  <2> QED
    BY <1>3, <2>1, <2>2, <2>3
<1>5. pad[d] = <<>> => f = 0 /\ k = 0
  BY DEF Filled, Taken, Holding
<1>6. k > 0 => pad[d] # <<>> /\ k = Peek(d).stop - Peek(d).start
  BY DEF Taken, Holding
<1>7. \A t \in Int : Found(d, t)' = Found(d, t)
  BY DEF Found, Expected, Skew
<1>14. first[d].stop \in Nat /\ first[d].stop <= End(d)
  BY <1>2 DEF Firsts, First
<1>8. Second' = Second
  BY DEF Second
<1>9. ASSUME NEW i \in 1..n PROVE adapter'[d][i] = Found(d, s + i - 1)
  BY <1>1, <1>2, <1>9 DEF Content
<1> HIDE DEF n, f, k, s
<1>10. ASSUME NEW i \in (n + 1)..(n + f) PROVE adapter'[d][i] = Found(d, s + i - 1)
  <2>1. pad[d] # <<>>
    BY <1>1, <1>5, <1>10
  <2>2. s + i - 1 \in Int /\ End(d) <= s + i - 1 /\ s + i - 1 < Peek(d).start
    BY SMTT(30), <1>1, <1>3, <1>4, <1>10, <2>1
  <2> DEFINE u == s + i - 1
  <2> HIDE DEF u
  <2>3. u \in Int /\ End(d) <= u /\ u < Peek(d).start
    BY <2>2 DEF u
  <2>4. u \in have[d] => Later(d, u)
    BY <1>2, <1>3, <2>3 DEF Aligned
  <2>5. ~Later(d, u)
    BY <1>4, <2>1, <2>3 DEF Later
  <2>6. ~(u < first[d].stop)
    BY <1>3, <1>14, <2>3
  <2>7. Found(d, u) = Zero
    BY <2>4, <2>5, <2>6 DEF Found, Expected
  <2> QED
    BY <1>1, <1>10, <2>7 DEF u
<1>11. ASSUME NEW i \in (n + f + 1)..(n + f + k)
       PROVE  adapter'[d][i] = Found(d, s + i - 1)
  <2>1. k > 0
    BY <1>1, <1>11
  <2>2. /\ s + i - 1 \in Nat /\ s + i - 1 = Peek(d).start + (i - (n + f)) - 1
        /\ Peek(d).start <= s + i - 1 /\ s + i - 1 < Peek(d).stop /\ t0 <= s + i - 1
        /\ End(d) <= s + i - 1
    <3> DEFINE a == Peek(d).start
               b == Peek(d).stop
    <3>1. a \in Nat /\ b \in Nat /\ f = a - End(d) /\ k = b - a
      BY <1>4, <1>6, <2>1
    <3> HIDE DEF a, b
    <3>2. s + n + f = a
      BY <1>1, <1>3, <3>1
    <3>3. i \in Int /\ n + f + 1 <= i /\ i <= n + f + k
      BY <1>1, <1>11
    <3>4. /\ s + i - 1 \in Int /\ s + i - 1 = a + (i - (n + f)) - 1
          /\ a <= s + i - 1 /\ s + i - 1 < b
      <4> DEFINE j == i - (n + f)
      <4>1. j \in Int /\ i = n + f + j /\ 1 <= j /\ j <= k
        BY <1>1, <3>3
      <4> HIDE DEF j
      <4>2. s + i - 1 = a + j - 1
        <5>1. s \in Int /\ n \in Int /\ f \in Int /\ a \in Int
          BY <1>1, <1>3, <3>1
        <5>2. s + i = s + (n + f + j) /\ i \in Int
          BY <3>3, <4>1
        <5>3. s + i = a + j
          BY <3>2, <4>1, <5>1, <5>2
        <5> QED
          BY <4>1, <5>1, <5>2, <5>3
      <4>3. a + j - 1 \in Int /\ a <= a + j - 1 /\ a + j - 1 < b
        BY <1>1, <3>1, <4>1
      <4> QED
        BY <4>2, <4>3 DEF j
    <3>5. t0 <= s + i - 1 /\ End(d) <= s + i - 1
      BY <1>1, <1>2, <1>3, <3>3
    <3> QED
      BY <3>1, <3>4, <3>5 DEF a, b
  <2>3. s + i - 1 \in have[d]
    BY <1>4, <1>6, <2>1, <2>2 DEF Waiting
  <2>4. ~(s + i - 1 < first[d].stop)
    BY <1>3, <1>14, <2>2
  <2> QED
    BY <1>1, <1>11, <2>2, <2>3, <2>4 DEF Found, Expected
<1>12. ASSUME NEW i \in 1..Len(adapter'[d])
       PROVE  adapter'[d][i] = Found(d, s + i - 1)
  <2>1. i \in 1..n \/ i \in (n + 1)..(n + f) \/ i \in (n + f + 1)..(n + f + k)
    BY <1>1, <1>12
  <2> QED
    BY <1>9, <1>10, <1>11, <2>1
<1>13. ASSUME NEW i \in 1..Len(adapter'[d])
       PROVE  adapter'[d][i] = Found(d, Second - HeadLen + i - 1)'
  <2> DEFINE t == Second - HeadLen + i - 1
  <2>1. t \in Int /\ s + i - 1 = t
    BY <1>1, <1>2, <1>13, Lengths DEF s
  <2>2. t' = t
    BY <1>8
  <2> HIDE DEF t
  <2>3. Found(d, t)' = Found(d, t)
    BY <1>7, <2>1, <2>2
  <2> QED
    BY <1>12, <2>1, <2>3 DEF t
<1> QED
  BY <1>13 DEF Content

\* A second that is processed leaves every adapter the samples after it.
LEMMA ContentProcess ==
  ASSUME Placed, Process, NEW d \in Ifos, Content(d)
  PROVE  Content(d)'
<1> USE DEF Placed
<1>1. /\ status = "processing" /\ common_size >= OneTakeLen
      /\ adapter' = [e \in Ifos |-> SubSeq(adapter[e], ExeLen + 1, Len(adapter[e]))]
      /\ samples_out' = samples_out + ExeLen
      /\ UNCHANGED <<t0, have, first>>
  BY DEF Process, collectVars, upstream
<1>2. /\ t0 >= 0 /\ t0 \in Nat /\ Second \in Nat /\ Len(adapter[d]) \in Nat
      /\ OneTakeLen <= Len(adapter[d]) /\ samples_out \in Nat
  BY <1>1, Ready
<1>3. Second' = Second + ExeLen
  BY <1>1, <1>2, Lengths DEF Second
<1> DEFINE n == Len(adapter[d])
<1>4. adapter[d] \in Seq(Sample) /\ ExeLen <= n
  BY <1>2, Lengths DEF Types
<1>5. /\ Len(adapter'[d]) = n - ExeLen
      /\ \A i \in 1..(n - ExeLen) : adapter'[d][i] = adapter[d][i + ExeLen]
  BY <1>1, <1>4, Shortened
<1>6. ASSUME NEW i \in 1..(n - ExeLen)
      PROVE  adapter'[d][i] = Found(d, Second - HeadLen + i - 1)'
  <2> DEFINE t == Second - HeadLen + i - 1
             u == Second - HeadLen + (i + ExeLen) - 1
  <2>1. i + ExeLen \in 1..n
    BY <1>2, <1>6, Lengths
  <2>2. adapter[d][i + ExeLen] = Found(d, u)
    BY <1>2, <2>1 DEF Content
  <2>3. t' = u
    BY <1>2, <1>3, <1>6, Lengths
  <2>4. Found(d, t)' = Found(d, u)
    <3> HIDE DEF t, u
    <3> QED
      BY <1>1, <2>3 DEF Found, Expected, Skew
  <2> QED
    BY <1>5, <2>2, <2>4
<1> QED
  BY <1>5, <1>6 DEF Content

\* The first buffers: the samples before the start are zeros, and the others are all
\* the same amount too early.
LEMMA ContentAlign ==
  ASSUME Placed, Firsts, Align, NEW d \in Ifos, Content(d)
  PROVE  Content(d)'
<1> USE DEF Placed
<1> DEFINE start == IF t0 = -1 THEN LatestStart ELSE t0
           todo == {e \in Ifos : ~is_aligned[e]}
           cut == {e \in todo \intersect Holding : Peek(e).stop > start}
           h == IF t0 = -1 THEN Zeros(HeadLen) ELSE adapter[d]
           x == IF d \in cut THEN Subbuffer(Peek(d), start) ELSE <<>>
<1>1. /\ ~is_all_aligned
      /\ t0 = -1 => Holding = Ifos
      /\ todo \subseteq Holding /\ \A e \in cut : Peek(e).start <= start
      /\ t0' = start
      /\ UNCHANGED <<samples_out, have>>
      /\ adapter'[d] = h \o x
      /\ first'[d] = IF d \in cut THEN Peek(d) ELSE first[d]
  BY DEF Align, upstream, processVars
<1>2. start \in Nat /\ (t0 >= 0 => start = t0) /\ (t0 = -1 \/ t0 >= 0)
  <2>1. t0 \in Nat \union {-1}
    BY DEF Types
  <2>2. CASE t0 = -1
    <3>1. LatestStart \in Nat
      BY <1>1, <2>2, LatestIs
    <3> QED
      BY <2>2, <3>1
  <2>3. CASE t0 \in Nat
    BY <2>3
  <2> QED
    BY <2>1, <2>2, <2>3
<1>3. samples_out = 0 /\ Second' = start /\ Second = t0
  BY <1>1, <1>2 DEF Beginning, Second, Types
<1>5. d \in cut => /\ pad[d] # <<>> /\ ~is_aligned[d] /\ Peek(d).stop > start
                   /\ Peek(d).start <= start
  BY <1>1 DEF Holding
<1>6. d \notin todo => d \notin cut /\ is_aligned[d] /\ t0 >= 0
  BY <1>2 DEF Unstarted
<1> HIDE DEF start, cut
<1>7. CASE d \notin todo
  <2>1. t0 >= 0 /\ start = t0 /\ t0' = t0 /\ h = adapter[d] /\ x = <<>>
    BY <1>1, <1>2, <1>6, <1>7
  <2>2. adapter[d] \in Seq(Sample)
    BY DEF Types
  <2> HIDE DEF h, x
  <2>3. adapter'[d] = adapter[d]
    BY <1>1, <2>1, <2>2, ConcatEmptySeq
  <2>4. Second' = Second
    BY <1>3, <2>1
  <2> QED
    BY <1>1, <1>6, <1>7, <2>1, <2>3, <2>4 DEF Content, Found, Expected, Skew
<1>8. CASE d \in todo
  <2>1. h \in Seq(Sample) /\ Len(h) = HeadLen /\ \A i \in 1..HeadLen : h[i] = Zero
    <3>1. CASE t0 = -1
      <4>1. h = Zeros(HeadLen)
        BY <3>1
      <4> HIDE DEF h
      <4>2. /\ Zeros(HeadLen) \in Seq(Sample) /\ Len(Zeros(HeadLen)) = HeadLen
            /\ \A i \in 1..Len(Zeros(HeadLen)) : Zeros(HeadLen)[i] = Zero
        BY Lengths, ZerosAre
      <4> QED
        BY <4>1, <4>2
    <3>2. CASE t0 # -1
      <4>1. h = adapter[d] /\ t0 >= 0 /\ t0 \in Nat
        BY <1>2, <3>2 DEF Types
      <4>2. adapter[d] \in Seq(Sample) /\ Len(adapter[d]) = HeadLen
        BY <1>8, <4>1 DEF Unaligned, Types
      <4> HIDE DEF h
      <4>3. ASSUME NEW i \in 1..HeadLen PROVE adapter[d][i] = Zero
        <5>1. adapter[d][i] = Found(d, Second - HeadLen + i - 1)
          BY <4>1, <4>2, <4>3 DEF Content
        <5>2. ~(t0 <= Second - HeadLen + i - 1)
          BY <1>3, <4>1, <4>3, Lengths
        <5> QED
          BY <5>1, <5>2 DEF Found, Expected
      <4> QED
        BY <4>1, <4>2, <4>3
    <3> QED
      BY <3>1, <3>2
  <2> DEFINE w == Skew(d)'
             m == Len(x)
  <2>2. d \in cut =>
          /\ x \in Seq(Sample) /\ m = Peek(d).stop - start
          /\ \A i \in 1..m : x[i] = (start + i - 1) - w
          /\ Peek(d).stop \in Nat /\ first'[d] = Peek(d)
    <3> SUFFICES ASSUME d \in cut
                 PROVE  /\ x \in Seq(Sample) /\ m = Peek(d).stop - start
                        /\ \A i \in 1..m : x[i] = (start + i - 1) - w
                        /\ Peek(d).stop \in Nat /\ first'[d] = Peek(d)
      OBVIOUS
    <3> DEFINE b == Peek(d)
    <3>1. b \in BufferType /\ b.start \in Nat /\ b.stop \in Nat
      BY <1>5, PeekType
    <3>2. b.start <= start /\ start < b.stop
      BY <1>2, <1>5, <3>1
    <3>3. first'[d] = b /\ x = Subbuffer(b, start)
      BY <1>1
    <3>4. w = (start - b.start) - ((start - b.start) \div Bps)
      BY <1>1, <3>3 DEF Skew
    <3> HIDE DEF b, x, w
    <3>5. /\ Subbuffer(b, start) \in Seq(Sample) /\ Len(Subbuffer(b, start)) = b.stop - start
          /\ \A i \in 1..(b.stop - start) : Subbuffer(b, start)[i] = (start + i - 1) - w
      BY <1>2, <3>1, <3>2, <3>4, SubbufferIs
    <3> QED
      BY <3>1, <3>3, <3>5 DEF b
  <2>6. d \notin cut => x = <<>> /\ first'[d].stop = 0
    <3> SUFFICES ASSUME d \notin cut PROVE x = <<>> /\ first'[d].stop = 0
      OBVIOUS
    <3>1. ~is_aligned[d] /\ first'[d] = first[d]
      BY <1>1, <1>8
    <3> QED
      BY <3>1 DEF Firsts, First
  <2> HIDE DEF w, m, x
  <2>3. /\ x \in Seq(Sample) /\ m \in Nat
        /\ \A i \in 1..m : x[i] = (start + i - 1) - w /\ start + i - 1 < first'[d].stop
        /\ \A i \in 1..m : start + i - 1 \in Nat /\ start <= start + i - 1
    <3>1. CASE d \in cut
      <4>1. /\ m = Peek(d).stop - start /\ Peek(d).stop \in Nat /\ Peek(d).stop > start
            /\ first'[d].stop = Peek(d).stop
        BY <1>5, <2>2, <3>1
      <4>2. m \in Nat /\ \A i \in 1..m : /\ start + i - 1 < first'[d].stop
                                         /\ start + i - 1 \in Nat /\ start <= start + i - 1
        BY <1>2, <4>1
      <4> QED
        BY <2>2, <3>1, <4>2
    <3>2. CASE d \notin cut
      <4>1. x = <<>> /\ m = 0
        BY <2>6, <3>2 DEF m
      <4> QED
        BY <4>1
    <3> QED
      BY <3>1, <3>2
  <2> HIDE DEF h
  <2>4. /\ Len(adapter'[d]) = HeadLen + m
        /\ \A i \in 1..(HeadLen + m) :
             adapter'[d][i] = IF i <= HeadLen THEN h[i] ELSE x[i - HeadLen]
    <3>1. /\ Len(h \o x) = Len(h) + Len(x)
          /\ \A i \in 1..(Len(h) + Len(x)) :
               (h \o x)[i] = IF i <= Len(h) THEN h[i] ELSE x[i - Len(h)]
      BY <2>1, <2>3, ConcatProperties
    <3> QED
      BY <1>1, <2>1, <3>1 DEF m
  <2>5. ASSUME NEW i \in 1..(HeadLen + m)
        PROVE  adapter'[d][i] = Found(d, Second - HeadLen + i - 1)'
    <3> DEFINE t == start - HeadLen + i - 1
    <3>1. t \in Int
      BY <1>2, <2>3, <2>5, Lengths
    <3>2. Found(d, Second - HeadLen + i - 1)' =
            IF start <= t /\ t < first'[d].stop THEN t - w
            ELSE IF start <= t /\ t \in have[d] THEN t ELSE Zero
      BY <1>1, <1>3 DEF Found, Expected, w
    <3>3. CASE i <= HeadLen
      <4>1. adapter'[d][i] = Zero
        BY <2>1, <2>3, <2>4, <2>5, <3>3, Lengths
      <4>2. ~(start <= t)
        BY <1>2, <2>3, <2>5, <3>3, Lengths
      <4> QED
        BY <3>2, <4>1, <4>2
    <3>4. CASE ~(i <= HeadLen)
      <4>1. i - HeadLen \in 1..m /\ adapter'[d][i] = x[i - HeadLen]
        BY <2>3, <2>4, <2>5, <3>4, Lengths
      <4>2. t = start + (i - HeadLen) - 1
        BY <1>2, <2>3, <2>5, <3>4, Lengths
      <4>3. x[i - HeadLen] = t - w /\ start <= t /\ t < first'[d].stop
        <5> HIDE DEF t
        <5> QED
          BY <2>3, <4>1, <4>2
      <4> HIDE DEF t
      <4> QED
        BY <3>2, <4>1, <4>3
    <3> QED
      BY <3>3, <3>4
  <2> QED
    BY <2>4, <2>5 DEF Content
<1> QED
  BY <1>7, <1>8

Contents == \A d \in Ifos : Content(d)

\* No step makes an adapter end before its first buffer does.
LEMMA FirstsStep ==
  ASSUME Placed, Firsts, [Next]_vars
  PROVE  Firsts'
<1> USE DEF Placed
<1> SUFFICES ASSUME NEW d \in Ifos PROVE First(d)'
  BY DEF Firsts
<1>1. First(d)
  BY DEF Firsts
<1>2. CASE UNCHANGED <<t0, samples_out, adapter, first, is_aligned>>
  <2>1. End(d)' = End(d)
    BY <1>2 DEF End, Second
  <2> QED
    BY <1>1, <1>2, <2>1 DEF First
<1>3. CASE \/ NoStart \/ AlignCrashes \/ AllEnded \/ ProcessAborts \/ Processed
           \/ Ended \/ UNCHANGED vars
  BY <1>2, <1>3 DEF NoStart, AlignCrashes, AllEnded, ProcessAborts, Processed, Ended,
     vars, collectVars, dataVars, processVars
<1>4. ASSUME NEW e \in Ifos, Upstream(e) PROVE First(d)'
  BY <1>2, <1>4 DEF Upstream, Arrive, EndOfStream, collectVars, dataVars, processVars
<1>5. ASSUME NEW moved \in SUBSET Holding, NEW dropped, Move(moved, dropped),
             UNCHANGED <<t0, samples_out, first, is_aligned>>
      PROVE  First(d)'
  <2> DEFINE n == Len(adapter[d])
             m == Len(adapter'[d])
  <2>1. /\ m = n + Filled(d) + Taken(d, moved) /\ n \in Nat
        /\ Filled(d) \in Nat /\ Taken(d, moved) \in Nat
    BY <1>5, MoveAdapter
  <2>2. n <= m /\ m \in Nat
    <3> HIDE DEF n, m
    <3> QED
      BY <2>1
  <2>3. Second' = Second /\ Second \in Int
    BY <1>5, TimeTypes DEF Second
  <2>4. End(d) = Second - HeadLen + n /\ End(d)' = Second - HeadLen + m
    BY <2>3 DEF End
  <2> HIDE DEF n, m
  <2>5. End(d) <= End(d)' /\ End(d) \in Int /\ End(d)' \in Int
    BY <2>2, <2>3, <2>4, <2>1, Lengths
  <2> QED
    BY <1>1, <1>5, <2>5 DEF First
<1>6. CASE Recollect
  <2> DEFINE empty == {e \in Recollected : Peek(e).start = Peek(e).stop}
  <2>1. /\ Move(Recollected \ empty, empty) /\ Recollected \ empty \in SUBSET Holding
        /\ UNCHANGED <<t0, samples_out, first, is_aligned>>
    BY <1>6 DEF Recollect, Recollected, processVars
  <2> HIDE DEF empty
  <2> QED
    BY <1>5, <2>1
<1>7. CASE PushAll
  <2>1. /\ Move(Holding, {}) /\ Holding \in SUBSET Holding
        /\ UNCHANGED <<t0, samples_out, first, is_aligned>>
    BY <1>7 DEF PushAll
  <2> QED
    BY <1>5, <2>1
<1>8. CASE Process
  <2>1. /\ status = "processing" /\ common_size >= OneTakeLen
        /\ adapter' = [e \in Ifos |-> SubSeq(adapter[e], ExeLen + 1, Len(adapter[e]))]
        /\ samples_out' = samples_out + ExeLen
        /\ UNCHANGED <<t0, first, is_aligned>>
    BY <1>8 DEF Process, collectVars
  <2>2. /\ t0 \in Nat /\ Second \in Nat /\ Len(adapter[d]) \in Nat
        /\ OneTakeLen <= Len(adapter[d]) /\ samples_out \in Nat
    BY <2>1, Ready
  <2>3. adapter[d] \in Seq(Sample) /\ ExeLen <= Len(adapter[d])
    BY <2>2, Lengths DEF Types
  <2>4. Len(adapter'[d]) = Len(adapter[d]) - ExeLen
    BY <2>1, <2>3, Shortened
  <2>5. Second' = Second + ExeLen
    BY <2>1, <2>2, Lengths DEF Second
  <2>6. End(d)' = End(d)
    <3> DEFINE n == Len(adapter[d])
               a == Second
    <3>1. /\ End(d) = a - HeadLen + n
          /\ End(d)' = (a + ExeLen) - HeadLen + (n - ExeLen)
      BY <2>4, <2>5 DEF End
    <3>2. a \in Int /\ n \in Int /\ HeadLen \in Int /\ ExeLen \in Int
      BY <2>2, Lengths
    <3> HIDE DEF n, a
    <3>3. (a + ExeLen) - HeadLen + (n - ExeLen) = a - HeadLen + n
      BY <3>2
    <3> QED
      BY <3>1, <3>3
  <2> QED
    BY <1>1, <2>1, <2>6 DEF First
<1>9. CASE Align
  <2>1. Placed'
    BY <1>9, AlignPlaced
  <2> DEFINE start == IF t0 = -1 THEN LatestStart ELSE t0
             cut == {e \in {f \in Ifos : ~is_aligned[f]} \intersect Holding :
                       Peek(e).stop > start}
  <2>2. /\ \A e \in cut : Peek(e).start <= start
        /\ t0' = start
        /\ first' = [e \in Ifos |-> IF e \in cut THEN Peek(e) ELSE first[e]]
        /\ is_aligned' = [e \in Ifos |-> is_aligned[e] \/ e \in cut]
        /\ next_offset' = [e \in Ifos |-> IF e \in cut THEN Peek(e).stop ELSE next_offset[e]]
        /\ samples_out' = samples_out
        /\ pad' = [e \in Ifos |-> IF e \in {f \in Ifos : ~is_aligned[f]} THEN <<>> ELSE pad[e]]
        /\ adapter' = [e \in Ifos |-> (IF t0 = -1 THEN Zeros(HeadLen) ELSE adapter[e])
                          \o (IF e \in cut THEN Subbuffer(Peek(e), start) ELSE <<>>)]
    BY <1>9 DEF Align, processVars
  <2>3. CASE d \in cut
    <3>1. /\ Peek(d).start \in Nat /\ Peek(d).stop \in Nat /\ Peek(d).start <= start
          /\ first'[d] = Peek(d) /\ is_aligned'[d] /\ next_offset'[d] = Peek(d).stop
          /\ pad'[d] = <<>>
      BY <2>2, <2>3, PeekType DEF Holding
    <3>2. t0' >= 0
      <4>1. t0' \in Nat \union {-1} /\ (t0' = -1 => ~is_aligned'[d])
        BY <2>1 DEF Types, Unstarted
      <4> QED
        BY <3>1, <4>1
    <3>3. next_offset'[d] = sent'[d] /\ End(d)' = sent'[d]
      BY <2>1, <3>1, <3>2 DEF Aligned
    <3>4. t0' = start
      BY <2>2
    <3> HIDE DEF cut, start
    <3>5. /\ first'[d].start \in Nat /\ first'[d].stop \in Nat /\ first'[d].start <= t0'
          /\ first'[d].stop <= End(d)'
      BY <3>1, <3>3, <3>4
    <3> QED
      BY <3>1, <3>2, <3>5 DEF First
  <2>4. CASE d \notin cut
    <3>1. first'[d] = first[d] /\ (is_aligned'[d] <=> is_aligned[d])
      BY <2>2, <2>4
    <3>2. CASE ~is_aligned[d]
      BY <1>1, <3>1, <3>2 DEF First
    <3>3. CASE is_aligned[d]
      <4>1. t0 >= 0 /\ t0 # -1
        BY <1>1, <3>3 DEF First
      <4>2. t0' = t0 /\ adapter'[d] = adapter[d] \o <<>> /\ adapter[d] \in Seq(Sample)
        BY <2>2, <2>4, <4>1 DEF Types
      <4>3. adapter'[d] = adapter[d]
        BY <4>2, ConcatEmptySeq
      <4>4. End(d)' = End(d)
        BY <2>2, <4>2, <4>3 DEF End, Second
      <4> QED
        BY <1>1, <3>1, <3>3, <4>2, <4>4 DEF First
    <3> QED
      BY <3>2, <3>3
  <2> QED
    BY <2>3, <2>4
<1> QED
  BY <1>3, <1>4, <1>6, <1>7, <1>8, <1>9 DEF Next, Search

\* Whatever a step does, every adapter has the samples of its times.
LEMMA ContentStep ==
  ASSUME Placed, Firsts, Contents, [Next]_vars
  PROVE  Contents'
<1> USE DEF Placed
<1> SUFFICES ASSUME NEW d \in Ifos PROVE Content(d)'
  BY DEF Contents
<1>1. Content(d)
  BY DEF Contents
<1>2. CASE UNCHANGED <<t0, samples_out, adapter, have, first>>
  <2>1. Second' = Second
    BY <1>2 DEF Second
  <2> QED
    BY <1>1, <1>2, <2>1 DEF Content, Found, Expected, Skew
<1>3. CASE \/ NoStart \/ AlignCrashes \/ AllEnded \/ ProcessAborts \/ Processed
           \/ Ended \/ UNCHANGED vars
  BY <1>2, <1>3 DEF NoStart, AlignCrashes, AllEnded, ProcessAborts, Processed, Ended,
     vars, collectVars, dataVars, processVars, upstream
<1>4. ASSUME NEW e \in Ifos, Upstream(e) PROVE Content(d)'
  <2>1. CASE Arrive(e)
    BY <1>1, <2>1, ContentArrive
  <2>2. CASE EndOfStream(e)
    BY <1>2, <2>2 DEF EndOfStream, collectVars, dataVars, processVars
  <2> QED
    BY <1>4, <2>1, <2>2 DEF Upstream
<1>5. CASE Recollect
  <2> DEFINE empty == {e \in Recollected : Peek(e).start = Peek(e).stop}
  <2>1. /\ is_all_aligned /\ Move(Recollected \ empty, empty)
        /\ Recollected \ empty \in SUBSET Holding
        /\ UNCHANGED <<t0, samples_out, have, first>>
    BY <1>5 DEF Recollect, Recollected, upstream, processVars
  <2> HIDE DEF empty
  <2> QED
    BY <1>1, <2>1, ContentMove
<1>6. CASE PushAll
  <2>1. /\ is_all_aligned /\ Move(Holding, {}) /\ Holding \in SUBSET Holding
        /\ UNCHANGED <<t0, samples_out, have, first>>
    BY <1>6 DEF PushAll, upstream
  <2> QED
    BY <1>1, <2>1, ContentMove
<1>7. CASE Align \/ Process
  BY <1>1, <1>7, ContentAlign, ContentProcess
<1> QED
  BY <1>3, <1>4, <1>5, <1>6, <1>7 DEF Next, Search

\* What holds in every state.
Located == Placed /\ Firsts /\ Contents

\* At first the adapters are empty.
LEMMA LocatedInit == Init => Located
<1> SUFFICES ASSUME Init PROVE Located
  OBVIOUS
<1>1. Firsts /\ Contents
  BY DEF Init, Buffer, Firsts, First, Contents, Content
<1> QED
  BY <1>1, PlacedInit DEF Located

\* The parts of the invariant together.
LEMMA LocatedStep == Located /\ [Next]_vars => Located'
  BY PlacedStep, FirstsStep, ContentStep DEF Located

\* What the adapters have is what AdapterFound asks for.
LEMMA LocatedAdapters == Located => AdapterFound
<1> SUFFICES ASSUME Located, t0 >= 0, NEW d \in Ifos
             PROVE  /\ Len(adapter[d]) >= HeadLen
                    /\ \A i \in DOMAIN adapter[d] :
                         adapter[d][i] = Found(d, Second - HeadLen + i - 1)
  BY DEF AdapterFound
<1>1. Len(adapter[d]) \in Nat /\ adapter[d] \in Seq(Sample)
  BY TimeTypes DEF Located, Placed
<1>2. Len(adapter[d]) >= HeadLen
  BY LongEnough DEF Located
<1>3. DOMAIN adapter[d] = 1..Len(adapter[d])
  BY <1>1
<1> QED
  BY <1>2, <1>3 DEF Located, Contents, Content

\* However the streams are cut into buffers, whatever is missing of them, whenever the
\* detectors start, and however many seconds have been taken: every adapter begins
\* HeadLen before the next second and every sample is at its place, except that
\* those of a first buffer that was cut are all too early by the same amount.
THEOREM SamplesPlaced == Spec => []AdapterFound
<1>1. Located /\ [Next]_vars => Located'
  BY LocatedStep
<1>2. Init => Located
  BY LocatedInit
<1> QED
  BY <1>1, <1>2, LocatedAdapters, PTL DEF Spec

-----------------------------------------------------------------------------
(* Every sample at its place: the ring buffers.                            *)

\* The ring wraps: a remainder may be taken before or after an addition.
LEMMA Remainders ==
  ASSUME NEW L \in Nat \ {0}, NEW x \in Int, NEW y \in Int
  PROVE  x % L \in 0..(L - 1) /\ ((x % L) + y) % L = (x + y) % L
<1> DEFINE q == x \div L
           r == x % L
           s == (r + y) \div L
           u == (r + y) % L
<1>0. r \in 0..(L - 1)
  OBVIOUS
<1>1. q \in Int /\ r \in Int /\ x = L * q + r
  OBVIOUS
<1> HIDE DEF q, r
<1>2. s \in Int /\ u \in 0..(L - 1) /\ r + y = L * s + u
  BY <1>1
<1> HIDE DEF s, u
<1>3. x + y = L * (q + s) + u
  BY <1>1, <1>2
<1>4. q + s \in Int
  BY <1>1, <1>2
<1>5. (L * (q + s) + u) % L = u
  BY <1>2, <1>4
<1> QED
  BY <1>0, <1>3, <1>5 DEF r, u

\* The remainder of what is in range, or one length below it.
LEMMA SmallRemainders ==
  ASSUME NEW L \in Nat \ {0}, NEW x \in Int
  PROVE  /\ 0 <= x /\ x < L => x % L = x
         /\ 0 <= x + L /\ x < 0 => x % L = x + L
  OBVIOUS

\* What a detector's ring holds: zeros until the start, then the samples before the
\* next second, and after it the margin that was loaded with the last one.
RingTrue(d) ==
  /\ t0 = -1 => \A i \in 0..(SnglsnrLen - 1) : ring[d][i] = Zero
  /\ t0 >= 0 => \A q \in (HeadLen - SnglsnrLen)..(-1) :
       ring[d][(start_exe + q) % SnglsnrLen] = Found(d, Second + q)
  /\ out.start >= 0 => \A q \in 0..(HeadLen - 1) :
       ring[d][(start_exe + q) % SnglsnrLen] = Found(d, Second + q)

Rings == start_exe \in Int /\ \A d \in Ifos : RingTrue(d)

\* At first the rings are all zeros.
LEMMA RingInit == Init => Rings
  BY LengthsAssumption DEF Init, Rings, RingTrue

\* A buffer that arrives does not change what a ring is expected to hold.
LEMMA RingArrive ==
  ASSUME Placed, Rings, NEW e \in Ifos, Arrive(e)
  PROVE  Rings'
<1> USE DEF Placed
<1>1. pad[e] = <<>> /\ UNCHANGED <<t0, samples_out, ring, start_exe, out, adapter>>
  BY DEF Arrive, IsNext, collectVars, dataVars, processVars
<1>2. Second' = Second
  BY <1>1 DEF Second
<1> SUFFICES ASSUME NEW d \in Ifos PROVE RingTrue(d)'
  BY <1>1 DEF Rings
<1>3. RingTrue(d)
  BY DEF Rings
<1>4. ASSUME t0 >= 0, NEW q \in Int, q < 0 \/ (out.start >= 0 /\ q < HeadLen)
      PROVE  Found(d, Second + q)' = Found(d, Second + q)
  <2> DEFINE t == Second + q
  <2>1. Second \in Nat /\ t0 <= Second /\ Len(adapter[d]) \in Nat
        /\ End(d) = Second - HeadLen + Len(adapter[d])
    BY <1>4, TimeTypes DEF End
  <2>2. t \in Int
    BY <1>4, <2>1
  <2>3. CASE out.start >= 0 /\ q < HeadLen
    <3>1. Len(adapter[d]) >= 2 * HeadLen
      BY <2>3 DEF Output
    <3>2. t < End(d)
      BY <1>4, <2>1, <2>3, <3>1, Lengths
    <3> HIDE DEF t
    <3>3. d = e => t < sent[d] \/ t < t0
      BY <1>1, <1>4, <2>2, <3>2, BeforeEnd
    <3>4. Found(d, t)' = Found(d, t)
      <4>1. t' = t
        BY <1>2 DEF t
      <4> QED
        BY <2>2, <3>3, <4>1, FoundArrive
    <3> QED
      BY <3>4 DEF t
  <2>4. CASE q < 0
    <3>1. Len(adapter[d]) >= HeadLen
      BY <1>4, LongEnough
    <3>2. t < End(d)
      BY <1>4, <2>1, <2>4, <3>1, Lengths
    <3> HIDE DEF t
    <3>3. d = e => t < sent[d] \/ t < t0
      BY <1>1, <1>4, <2>2, <3>2, BeforeEnd
    <3>4. Found(d, t)' = Found(d, t)
      <4>1. t' = t
        BY <1>2 DEF t
      <4> QED
        BY <2>2, <3>3, <4>1, FoundArrive
    <3> QED
      BY <3>4 DEF t
  <2> QED
    BY <1>4, <2>3, <2>4
<1>5. \A q \in (HeadLen - SnglsnrLen)..(-1) : q \in Int /\ q < 0
  BY Lengths
<1>6. \A q \in 0..(HeadLen - 1) : q \in Int /\ q < HeadLen
  BY Lengths
<1>7. out.start >= 0 => t0 >= 0
  BY DEF Beginning, Output, Unstarted, Types
<1> QED
  BY <1>1, <1>2, <1>3, <1>4, <1>5, <1>6, <1>7 DEF RingTrue

\* Nor does the alignment, before which nothing was loaded.
LEMMA RingAlign ==
  ASSUME Placed, Firsts, Rings, Align
  PROVE  Rings'
<1> USE DEF Placed
<1>1. /\ ~is_all_aligned /\ UNCHANGED <<samples_out, ring, start_exe, out, have>>
      /\ t0' = IF t0 = -1 THEN LatestStart ELSE t0
      /\ t0 = -1 => Holding = Ifos
  BY DEF Align, processVars, upstream
<1>2. out.start = -1 /\ samples_out = 0
  BY <1>1 DEF Beginning
<1> SUFFICES ASSUME NEW d \in Ifos PROVE RingTrue(d)'
  BY <1>1 DEF Rings
<1>3. RingTrue(d) /\ start_exe \in Int
  BY DEF Rings
<1>4. CASE t0 = -1
  <2>1. LatestStart \in Nat
    BY <1>1, <1>4, LatestIs
  <2>2. t0' \in Nat /\ Second' = t0'
    BY <1>1, <1>2, <1>4, <2>1 DEF Second
  <2>3. ASSUME NEW q \in (HeadLen - SnglsnrLen)..(-1)
        PROVE  ring[d][(start_exe + q) % SnglsnrLen] = Found(d, Second + q)'
    <3>1. q \in Int /\ q < 0
      BY <2>3, Lengths
    <3>2. start_exe + q \in Int /\ SnglsnrLen \in Nat \ {0}
      BY <1>3, <3>1, Lengths
    <3>3. (start_exe + q) % SnglsnrLen \in 0..(SnglsnrLen - 1)
      BY <3>2, Remainders
    <3>4. ring[d][(start_exe + q) % SnglsnrLen] = Zero
      BY <1>3, <1>4, <3>3 DEF RingTrue
    <3>5. ~(t0' <= Second' + q)
      <4>1. \A a \in Nat : ~(a <= a + q)
        BY <3>1
      <4> QED
        BY <2>2, <4>1
    <3> QED
      BY <3>4, <3>5 DEF Found, Expected
  <2> QED
    BY <1>1, <1>2, <2>2, <2>3 DEF RingTrue
<1>5. CASE t0 # -1
  <2>1. t0' = t0 /\ Second' = Second /\ t0 \in Nat /\ Second = t0
    BY <1>1, <1>2, <1>5 DEF Second, Types
  <2>2. ASSUME NEW q \in (HeadLen - SnglsnrLen)..(-1)
        PROVE  Found(d, Second + q)' = Found(d, Second + q)
    <3>1. q \in Int /\ q < 0
      BY <2>2, Lengths
    <3>2. ~(t0 <= Second + q)
      BY <2>1, <3>1
    <3> QED
      BY <2>1, <3>2 DEF Found, Expected
  <2> QED
    BY <1>1, <1>2, <1>3, <2>1, <2>2 DEF RingTrue
<1> QED
  BY <1>4, <1>5

\* What is copied to the ring is the second and the margin behind it.
LEMMA CopiedIs ==
  ASSUME Located, status = "processing", common_size >= OneTakeLen, NEW d \in Ifos,
         NEW k \in 0..(SnglsnrCpyLen - 1)
  PROVE  Copied(d)[k + 1] = Found(d, Second + k)
<1> DEFINE s == adapter[d]
           m == HeadLen + 1
           n == HeadLen + SnglsnrCpyLen
<1>1. /\ s \in Seq(Sample) /\ Len(s) \in Nat /\ OneTakeLen <= Len(s)
      /\ Second \in Nat /\ t0 >= 0
  BY Ready DEF Located, Placed, Types
<1>2. m \in Int /\ n \in Int /\ 1 <= m /\ n <= Len(s) /\ n - m + 1 = SnglsnrCpyLen
  BY <1>1, Lengths
<1>3. \A i \in m..n : s[i] \in Sample
  BY <1>1, <1>2
<1>4. k \in Nat /\ k + 1 \in 1..SnglsnrCpyLen /\ HeadLen + k + 1 \in 1..Len(s)
      /\ m + (k + 1) - 1 = HeadLen + k + 1
  BY <1>1, Lengths
<1>5. Copied(d) = SubSeq(s, m, n)
  BY DEF Copied
<1>6. s[HeadLen + k + 1] = Found(d, Second + k)
  <2>1. s[HeadLen + k + 1] = Found(d, Second - HeadLen + (HeadLen + k + 1) - 1)
    BY <1>1, <1>4 DEF Located, Contents, Content
  <2>2. Second - HeadLen + (HeadLen + k + 1) - 1 = Second + k
    BY <1>1, <1>4, Lengths
  <2> QED
    BY <2>1, <2>2
<1> HIDE DEF s, m, n
<1>7. \A i \in 1..(n - m + 1) : SubSeq(s, m, n)[i] = s[m + i - 1]
  BY <1>2, <1>3, SubSeqProperties
<1>8. SubSeq(s, m, n)[k + 1] = s[m + (k + 1) - 1]
  BY <1>2, <1>4, <1>7
<1> QED
  BY <1>4, <1>5, <1>6, <1>8

\* A load overwrites what is a ring's length older, and no more.
LEMMA LoadedIs ==
  ASSUME Located, Rings, status = "processing", common_size >= OneTakeLen, NEW d \in Ifos,
         NEW q \in (HeadLen + ExeLen - SnglsnrLen)..(ExeLen + HeadLen - 1)
  PROVE  Loaded(d)[(start_exe + q) % SnglsnrLen] = Found(d, Second + q)
<1> DEFINE L == SnglsnrLen
           a == start_exe
           i == (a + q) % L
           k == (i - a) % L
<1>1. a \in Int /\ q \in Int /\ a + q \in Int /\ L \in Nat \ {0} /\ -a \in Int
  BY Lengths DEF Rings
<1>2. HeadLen + ExeLen - L <= q /\ q < SnglsnrCpyLen /\ SnglsnrCpyLen < L
  BY <1>1, Lengths
<1>3. Loaded(d) = [j \in 0..(L - 1) |-> LET l == (j - a) % L
                                         IN  IF l < SnglsnrCpyLen THEN Copied(d)[l + 1]
                                             ELSE ring[d][j]]
  BY DEF Loaded
<1> HIDE DEF L, a
<1>4. i \in 0..(L - 1) /\ k = q % L
  <2>1. i \in 0..(L - 1) /\ (i + (-a)) % L = ((a + q) + (-a)) % L
    BY <1>1, Remainders
  <2>2. i - a = i + (-a) /\ (a + q) + (-a) = q
    BY <1>1, <2>1
  <2> QED
    BY <2>1, <2>2
<1>5. Loaded(d)[i] = IF k < SnglsnrCpyLen THEN Copied(d)[k + 1] ELSE ring[d][i]
  <2> HIDE DEF i
  <2> QED
    BY <1>3, <1>4
<1> HIDE DEF k, i
<1>6. CASE q >= 0
  <2>1. k = q /\ q \in 0..(SnglsnrCpyLen - 1)
    BY <1>1, <1>2, <1>4, <1>6, SmallRemainders, Lengths
  <2>2. Copied(d)[q + 1] = Found(d, Second + q)
    BY <2>1, CopiedIs
  <2> QED
    BY <1>2, <1>5, <2>1, <2>2 DEF i, a, L
<1>7. CASE q < 0
  <2>1. k = q + L /\ ~(k < SnglsnrCpyLen)
    <3>1. 0 <= q + L /\ HeadLen + ExeLen <= q + L
      BY <1>1, <1>2, Lengths
    <3>2. q % L = q + L
      BY <1>1, <1>7, <3>1, SmallRemainders
    <3> QED
      BY <1>1, <1>4, <3>1, <3>2, Lengths
  <2>2. q \in (HeadLen - SnglsnrLen)..(-1)
    BY <1>1, <1>2, <1>7, Lengths DEF L
  <2>3. ring[d][(start_exe + q) % SnglsnrLen] = Found(d, Second + q)
    <3>1. t0 >= 0 /\ RingTrue(d)
      BY Ready DEF Located, Rings
    <3> QED
      BY <2>2, <3>1 DEF RingTrue
  <2> QED
    BY <1>5, <2>1, <2>3 DEF i, a, L
<1> QED
  BY <1>1, <1>6, <1>7

\* Loading a second overwrites the oldest samples of every ring and no other.
LEMMA RingProcess ==
  ASSUME Located, Rings, Process
  PROVE  Rings'
<1>1. /\ status = "processing" /\ common_size >= OneTakeLen
      /\ ring' = [d \in Ifos |-> Loaded(d)] /\ start_exe' = NextStartExe
      /\ samples_out' = samples_out + ExeLen /\ UNCHANGED <<t0, have, first>>
  BY DEF Process, collectVars, upstream
<1>2. t0 >= 0 /\ t0 \in Nat /\ Second \in Nat /\ samples_out \in Nat
  BY <1>1, Ready DEF Located
<1>3. Second' = Second + ExeLen
  BY <1>1, <1>2, Lengths DEF Second
<1> DEFINE L == SnglsnrLen
           a == start_exe
<1>4. a \in Int /\ L \in Nat \ {0} /\ start_exe' = (a + ExeLen) % L /\ a + ExeLen \in Int
  BY <1>1, Lengths DEF Rings, NextStartExe
<1> HIDE DEF L, a
<1>5. start_exe' \in Int
  <2>1. (a + ExeLen) % L \in 0..(L - 1)
    BY <1>4, Remainders
  <2> QED
    BY <1>4, <2>1
<1>6. ASSUME NEW d \in Ifos, NEW p \in (HeadLen - SnglsnrLen)..(HeadLen - 1)
      PROVE  ring'[d][(start_exe' + p) % SnglsnrLen] = Found(d, Second + p)'
  <2> DEFINE q == ExeLen + p
  <2>1. p \in Int /\ q \in Int /\ q \in (HeadLen + ExeLen - SnglsnrLen)..(ExeLen + HeadLen - 1)
    BY <1>6, Lengths
  <2>2. (a + ExeLen) + p = a + q
    BY <1>4, <2>1, Lengths
  <2>3. (start_exe' + p) % L = (a + q) % L
    <3>1. (((a + ExeLen) % L) + p) % L = ((a + ExeLen) + p) % L
      BY <1>4, <2>1, Remainders
    <3> QED
      BY <1>4, <2>2, <3>1
  <2>4. Second' + p = Second + q
    BY <1>2, <1>3, <2>1, Lengths
  <2> HIDE DEF q
  <2>5. Loaded(d)[(start_exe + q) % SnglsnrLen] = Found(d, Second + q)
    BY <1>1, <2>1, LoadedIs
  <2>6. Found(d, Second + p)' = Found(d, Second + q)
    BY <1>1, <2>4 DEF Found, Expected, Skew
  <2> QED
    BY <1>1, <2>3, <2>5, <2>6 DEF a, L
<1>7. \A p : /\ p \in (HeadLen - SnglsnrLen)..(-1) => p \in (HeadLen - SnglsnrLen)..(HeadLen - 1)
             /\ p \in 0..(HeadLen - 1) => p \in (HeadLen - SnglsnrLen)..(HeadLen - 1)
  BY Lengths
<1>8. ASSUME NEW d \in Ifos PROVE RingTrue(d)'
  <2>1. t0' >= 0 /\ t0' # -1
    BY <1>1, <1>2
  <2> QED
    BY <1>6, <1>7, <2>1 DEF RingTrue
<1> QED
  BY <1>5, <1>8 DEF Rings

\* Whatever a step does, the rings hold the samples of their times.
LEMMA RingStep ==
  ASSUME Located, Rings, [Next]_vars
  PROVE  Rings'
<1>1. CASE UNCHANGED <<t0, samples_out, have, first, ring, start_exe, out>>
  <2>1. Second' = Second
    BY <1>1 DEF Second
  <2> QED
    BY <1>1, <2>1 DEF Rings, RingTrue, Found, Expected, Skew
<1>2. CASE \/ NoStart \/ AlignCrashes \/ Recollect \/ PushAll \/ AllEnded \/ ProcessAborts
           \/ Processed \/ Ended \/ UNCHANGED vars
  BY <1>1, <1>2 DEF NoStart, AlignCrashes, Recollect, PushAll, AllEnded, ProcessAborts,
     Processed, Ended, vars, collectVars, processVars, upstream
<1>3. ASSUME NEW e \in Ifos, Upstream(e) PROVE Rings'
  <2>1. CASE Arrive(e)
    BY <2>1, RingArrive DEF Located
  <2>2. CASE EndOfStream(e)
    BY <1>1, <2>2 DEF EndOfStream, collectVars, processVars
  <2> QED
    BY <1>3, <2>1, <2>2 DEF Upstream
<1>4. CASE Align \/ Process
  BY <1>4, RingAlign, RingProcess DEF Located
<1> QED
  BY <1>2, <1>3, <1>4 DEF Next, Search

\* The ring holds the second processed last, and what is HeadLen before and after it.
LEMMA RingCoherent == Located /\ Rings => CoherentOnceStarted
<1> SUFFICES ASSUME Located, Rings, out.start >= 0, NEW d \in Ifos,
                    NEW k \in (-HeadLen)..(ExeLen + HeadLen - 1)
             PROVE  InRing(d, k) = Found(d, out.start + k)
  BY DEF CoherentOnceStarted, Searched
<1> DEFINE q == k - ExeLen
<1>1. /\ out.start = Second - ExeLen /\ t0 >= 0 /\ Second \in Nat
      /\ RingTrue(d) /\ start_exe \in Int
  <2>1. out.start = Second - ExeLen /\ is_all_aligned
    BY DEF Located, Placed, Output, Beginning
  <2>2. t0 >= 0
    BY <2>1 DEF Located, Placed, Unstarted, Types
  <2> QED
    BY <2>1, <2>2, TimeTypes DEF Located, Placed, Rings
<1>2. k \in Int /\ q \in Int /\ (start_exe - ExeLen) + k = start_exe + q
      /\ (Second - ExeLen) + k = Second + q
  BY <1>1, Lengths
<1>3. q \in (HeadLen - SnglsnrLen)..(-1) \/ q \in 0..(HeadLen - 1)
  BY <1>1, <1>2, Lengths
<1> HIDE DEF q
<1>4. ring[d][(start_exe + q) % SnglsnrLen] = Found(d, Second + q)
  BY <1>1, <1>3 DEF RingTrue
<1>5. InRing(d, k) = ring[d][(start_exe + q) % SnglsnrLen]
  BY <1>2 DEF InRing
<1> QED
  BY <1>1, <1>2, <1>4, <1>5

\* In every second that is searched, the samples the kernels find in each detector's
\* ring, from HeadLen before the second to HeadLen after it, are those of the same
\* times, but for those of a first buffer that was cut: the detectors are coherent from
\* the end of their first buffers on, however often the rings wrap.
THEOREM SearchedCoherently == Spec => []CoherentOnceStarted
<1>1. Located /\ [Next]_vars => Located'
  BY LocatedStep
<1>2. Init => Located
  BY LocatedInit
<1>3. Located /\ Rings /\ [Next]_vars => Rings'
  BY RingStep
<1> QED
  BY <1>1, <1>2, <1>3, RingInit, RingCoherent, PTL DEF Spec

-----------------------------------------------------------------------------
(* The time slides.                                                        *)

\* A length of the ring more is the same place.
LEMMA RingRound ==
  ASSUME NEW L \in Nat \ {0}, NEW x \in Int
  PROVE  (x + L) % L = x % L
<1> DEFINE q == x \div L
           r == x % L
<1>1. q \in Int /\ r \in 0..(L - 1) /\ x = L * q + r
  OBVIOUS
<1> HIDE DEF q, r
<1>2. q + 1 \in Int /\ x + L = L * (q + 1) + r
  BY <1>1
<1>3. (L * (q + 1) + r) % L = r
  BY <1>1, <1>2
<1> QED
  BY <1>2, <1>3 DEF r

\* The larger of two numbers.
LEMMA PairMax ==
  ASSUME NEW a \in Int, NEW b \in Int
  PROVE  Max({a, b}) >= a /\ Max({a, b}) >= b
<1>1. \E x \in {a, b} : \A y \in {a, b} : x >= y
  <2>1. CASE a >= b
    BY <2>1
  <2>2. CASE b >= a
    BY <2>2
  <2> QED
    BY <2>1, <2>2
<1> QED
  BY <1>1 DEF Max

\* Trials are the trial interval apart, and no more than the slides in all.
LEMMA TrialOffsets ==
  ASSUME NEW m \in 0..HistTrials, NEW n \in 0..HistTrials, m < n
  PROVE  /\ m * TrialSampleInv \in Nat /\ n * TrialSampleInv \in Nat
         /\ m * TrialSampleInv + TrialSampleInv <= n * TrialSampleInv
         /\ n * TrialSampleInv <= HistTrials * TrialSampleInv
<1> DEFINE T == TrialSampleInv
           H == HistTrials
<1>1. T \in Nat /\ H \in Nat /\ m \in Nat /\ n \in Nat /\ m + 1 <= n /\ n <= H
  BY LengthsAssumption
<1> HIDE DEF T, H
<1>2. m * T \in Nat /\ n * T \in Nat
  BY <1>1
<1>3. (n - m - 1) * T \in Nat /\ (H - n) * T \in Nat
  <2>1. n - m - 1 \in Nat /\ H - n \in Nat
    BY <1>1
  <2> QED
    BY <1>1, <2>1
<1>4. n * T = m * T + T + (n - m - 1) * T /\ H * T = n * T + (H - n) * T
  BY <1>1
<1>5. H * T \in Nat
  BY <1>1
<1> QED
  BY <1>1, <1>2, <1>3, <1>4, <1>5 DEF T, H

\* No sample is too late.
LEMMA SkewIs ==
  ASSUME Located, t0 >= 0, NEW d \in Ifos, first[d].stop > t0
  PROVE  Skew(d) \in Nat
<1> DEFINE c == t0 - first[d].start
           k == c \div Bps
           r == c % Bps
<1>1. /\ first[d].start \in Nat /\ first[d].start <= t0 /\ t0 \in Nat
      /\ Bps \in Nat \ {0}
  BY Lengths DEF Located, Placed, Types, Firsts, First
<1>2. c \in Nat
  BY <1>1
<1>3. Skew(d) = c - k
  BY DEF Skew
<1> HIDE DEF c
<1>4. k \in Nat /\ r \in 0..(Bps - 1) /\ c = Bps * k + r
  BY <1>1, <1>2
<1> HIDE DEF k, r
<1>5. Bps * k >= k /\ Bps * k \in Nat
  BY <1>1, <1>4
<1>6. k <= c
  BY <1>1, <1>2, <1>4, <1>5
<1> QED
  BY <1>2, <1>3, <1>4, <1>6

\* What is read in place at any point up to a length of the ring ahead: the samples of that time,
\* or of a length of the ring before it.
LEMMA ShiftedRing ==
  ASSUME Located, Rings, out.start >= 0, NEW d \in Ifos, NEW q \in Int,
         HeadLen - SnglsnrLen <= q, q < HeadLen + SnglsnrLen,
         InPlace(d, ring[d][(start_exe + q) % SnglsnrLen])
  PROVE  ring[d][(start_exe + q) % SnglsnrLen]
           = Second + (IF q < HeadLen THEN q ELSE q - SnglsnrLen)
<1> DEFINE r == IF q < HeadLen THEN q ELSE q - SnglsnrLen
           a == start_exe
           L == SnglsnrLen
<1>1. a \in Int /\ RingTrue(d) /\ L \in Nat \ {0} /\ HeadLen \in Nat /\ t0 >= 0
  BY Lengths DEF Rings, Located, Placed, Output, Beginning, Unstarted, Types
<1>2. r \in Int /\ r \in (HeadLen - L)..(HeadLen - 1)
  BY <1>1
<1>3. (a + q) % L = (a + r) % L
  <2>1. CASE q < HeadLen
    BY <2>1
  <2>2. CASE ~(q < HeadLen)
    <3>1. r = q - L /\ a + r \in Int /\ a + q = (a + r) + L
      BY <1>1, <2>2
    <3> HIDE DEF r, L
    <3> QED
      BY <1>1, <3>1, RingRound
  <2> QED
    BY <2>1, <2>2
<1> HIDE DEF r
<1>4. r \in (HeadLen - SnglsnrLen)..(-1) \/ r \in 0..(HeadLen - 1)
  BY <1>1, <1>2
<1>5. ring[d][(start_exe + r) % SnglsnrLen] = Found(d, Second + r)
  BY <1>1, <1>4 DEF RingTrue
<1>6. ring[d][(start_exe + q) % SnglsnrLen] = Found(d, Second + r)
  BY <1>3, <1>5
<1> DEFINE x == ring[d][(start_exe + q) % SnglsnrLen]
           u == Second + r
<1>7. u \in Int /\ x = Found(d, u) /\ InPlace(d, x)
  BY <1>1, <1>2, <1>6, TimeTypes DEF Located, Placed
<1> HIDE DEF x, u
<1>8. x = u
  <2>1. CASE t0 <= u /\ u < first[d].stop
    <3>2. first[d].stop \in Nat /\ t0 \in Int
      BY DEF Located, Firsts, First, Placed, Types
    <3>3. first[d].stop > t0
      BY <1>7, <2>1, <3>2
    <3>4. Skew(d) \in Nat
      BY <1>1, <3>3, SkewIs
    <3>5. x = u - Skew(d) /\ (Skew(d) = 0 \/ x >= first[d].stop)
      BY <1>7, <2>1 DEF Found, InPlace
    <3>1. /\ x = u - Skew(d) /\ Skew(d) \in Nat /\ first[d].stop \in Nat
          /\ Skew(d) = 0 \/ x >= first[d].stop
      BY <3>2, <3>4, <3>5
    <3> QED
      BY <1>7, <2>1, <3>1
  <2>2. CASE ~(t0 <= u /\ u < first[d].stop)
    BY <1>7, <2>2 DEF Found, Expected, InPlace
  <2> QED
    BY <2>1, <2>2
<1> QED
  BY <1>8 DEF x, u, r

\* Between neighbours the trials of one slide read times a trial apart.
LEMMA SlidesOfNeighbours ==
  ASSUME Located, Rings, TrialSampleInv <= OneTakeLen
  PROVE  NeighboursApart
<1> SUFFICES ASSUME out.start >= 0, NEW i \in Ifos, NEW j \in Ifos, j - i \in {1, -1},
                    NEW k \in 0..(ExeLen - 1),
                    NEW m \in 0..HistTrials, NEW n \in 0..HistTrials, m < n,
                    InPlace(j, Slid(i, j, k, m)), InPlace(j, Slid(i, j, k, n))
             PROVE  Max({Slid(i, j, k, m) - Slid(i, j, k, n),
                         Slid(i, j, k, n) - Slid(i, j, k, m)}) >= TrialSampleInv
  BY DEF NeighboursApart, Apart
<1> DEFINE x == m * TrialSampleInv
           y == n * TrialSampleInv
           T == TrialSampleInv
           L == SnglsnrLen
           S == Second
           span == HistTrials * TrialSampleInv
           p == k - x * (j - i)
           r == k - y * (j - i)
           v == Slid(i, j, k, m)
           w == Slid(i, j, k, n)
<1>1. x \in Nat /\ y \in Nat /\ x + T <= y /\ y <= span
  BY TrialOffsets
<1>2. /\ T \in Nat /\ span \in Nat /\ L \in Nat /\ L = PreservedLen + ExeLen + span
      /\ PreservedLen \in Nat /\ ExeLen \in Nat /\ HeadLen \in Nat
      /\ HeadLen < PreservedLen /\ T <= PreservedLen + ExeLen /\ k \in Nat /\ k < ExeLen
  BY Lengths, LengthsAssumption DEF SnglsnrLen
<1>3. S \in Int /\ start_exe \in Int
  BY TimeTypes DEF Located, Placed, Rings
<1>4. j - i = 1 \/ j - i = -1
  OBVIOUS
<1>5. InPlace(j, v) /\ InPlace(j, w)
  OBVIOUS
<1>9. v = InRing(j, p) /\ w = InRing(j, r)
  BY DEF Slid
<1> HIDE DEF v, w, x, y, T, L, S, span
<1>6. /\ v = ring[j][(start_exe + (p - ExeLen)) % SnglsnrLen]
      /\ w = ring[j][(start_exe + (r - ExeLen)) % SnglsnrLen]
      /\ p \in Int /\ r \in Int
  <2>1. p \in Int /\ r \in Int
    BY <1>1, <1>2, <1>4
  <2> HIDE DEF p, r
  <2>2. /\ (start_exe - ExeLen) + p = start_exe + (p - ExeLen)
        /\ (start_exe - ExeLen) + r = start_exe + (r - ExeLen)
    BY <1>2, <1>3, <2>1
  <2> QED
    BY <1>9, <2>1, <2>2 DEF InRing
<1>7. CASE j - i = 1
  <2>1. p = k - x /\ r = k - y
    BY <1>1, <1>2, <1>7
  <2> HIDE DEF p, r
  <2>2. v = S + (p - ExeLen) /\ w = S + (r - ExeLen)
    <3>1. /\ HeadLen - L <= p - ExeLen /\ p - ExeLen < HeadLen
          /\ HeadLen - L <= r - ExeLen /\ r - ExeLen < HeadLen
          /\ p - ExeLen \in Int /\ r - ExeLen \in Int
      BY <1>1, <1>2, <1>6, <2>1
    <3>2. p - ExeLen < HeadLen + L /\ r - ExeLen < HeadLen + L
      BY <1>2, <3>1
    <3> QED
      BY <1>5, <1>6, <3>1, <3>2, ShiftedRing DEF L, S
  <2>3. v \in Int /\ w \in Int /\ v - w \in Int /\ w - v \in Int /\ v - w >= T
    BY <1>1, <1>2, <1>3, <1>6, <2>1, <2>2
  <2>4. Max({v - w, w - v}) >= v - w
    BY <2>3, PairMax
  <2>5. Max({v - w, w - v}) \in Int
    <3>1. \E z \in {v - w, w - v} : \A u \in {v - w, w - v} : z >= u
      BY <2>3
    <3> QED
      BY <2>3, <3>1 DEF Max
  <2>6. Max({v - w, w - v}) >= T
    BY <1>2, <2>3, <2>4, <2>5
  <2> QED
    BY <2>6 DEF v, w, p, r, x, y, T
<1>8. CASE j - i = -1
  <2>1. p = k + x /\ r = k + y
    BY <1>1, <1>2, <1>8
  <2> HIDE DEF p, r
  <2> DEFINE f == IF p - ExeLen < HeadLen THEN p - ExeLen ELSE p - ExeLen - L
             g == IF r - ExeLen < HeadLen THEN r - ExeLen ELSE r - ExeLen - L
  <2>2. v = S + f /\ w = S + g
    <3>1. /\ HeadLen - L <= p - ExeLen /\ p - ExeLen < HeadLen + L
          /\ HeadLen - L <= r - ExeLen /\ r - ExeLen < HeadLen + L
          /\ p - ExeLen \in Int /\ r - ExeLen \in Int
      BY <1>1, <1>2, <1>6, <2>1
    <3> QED
      BY <1>5, <1>6, <3>1, ShiftedRing DEF L, S
  <2>3. f \in Int /\ g \in Int /\ (g - f >= T \/ f - g >= T)
    BY <1>1, <1>2, <1>6, <2>1
  <2> HIDE DEF f, g
  <2>4. /\ v \in Int /\ w \in Int /\ v - w \in Int /\ w - v \in Int
        /\ v - w >= T \/ w - v >= T
    BY <1>2, <1>3, <2>2, <2>3
  <2>5. Max({v - w, w - v}) >= v - w /\ Max({v - w, w - v}) >= w - v
    BY <2>4, PairMax
  <2>6. Max({v - w, w - v}) \in Int
    <3>1. \E z \in {v - w, w - v} : \A u \in {v - w, w - v} : z >= u
      BY <2>4
    <3> QED
      BY <2>4, <3>1 DEF Max
  <2>7. Max({v - w, w - v}) >= T
    BY <1>2, <2>4, <2>5, <2>6
  <2> QED
    BY <2>7 DEF v, w, p, r, x, y, T
<1> QED
  BY <1>4, <1>7, <1>8

\* For detectors next to each other, of any number of them, and trials no further apart
\* than a second and its margins, no two trials of a slide, nor a trial and the
\* zerolag, read samples less than a trial apart, although the ring wraps.  For
\* others this fails: the slides of the first against the third advance two
\* trials at a time, and the ring has room for one.
THEOREM NeighboursStayApart ==
  TrialSampleInv <= OneTakeLen => (Spec => []NeighboursApart)
<1> SUFFICES ASSUME TrialSampleInv <= OneTakeLen PROVE Spec => []NeighboursApart
  OBVIOUS
<1>1. Located /\ [Next]_vars => Located'
  BY LocatedStep
<1>2. Init => Located
  BY LocatedInit
<1>3. Located /\ Rings /\ [Next]_vars => Rings'
  BY RingStep
<1>4. Located /\ Rings => NeighboursApart
  BY SlidesOfNeighbours
<1> QED
  BY <1>1, <1>2, <1>3, <1>4, RingInit, PTL DEF Spec
=============================================================================
