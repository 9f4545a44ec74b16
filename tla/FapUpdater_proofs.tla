------------------------- MODULE FapUpdater_proofs -------------------------
(***************************************************************************)
(* Proofs about the files of background statistics (class FAPUpdater of    *)
(* postcoh_finalsink.py): what is collected for a merging, that a merged   *)
(* file has a name of its own, and from that which background is kept,     *)
(* counted and read.                                                       *)
(***************************************************************************)
EXTENDS FapUpdater, FiniteSetTheorems, FunctionTheorems, WellFoundedInduction, TLAPS

-----------------------------------------------------------------------------
(* Finite sets.                                                            *)

\* A set of natural numbers has a least one.
LEMMA Least ==
  ASSUME NEW S \in SUBSET Nat, S # {}
  PROVE  \E x \in S : \A y \in S : x <= y
<1> DEFINE R == OpToRel(<, Nat)
<1>1. R = {ss \in Nat \X Nat : ss[1] < ss[2]}
  BY Zenon DEF OpToRel
<1>2. IsWellFoundedOn(R, Nat)
  BY NatLessThanWellFounded, Zenon
<1> HIDE DEF R
<1>3. PICK x \in S : \A y \in S : <<y, x>> \notin R
  BY <1>2, WFMin
<1>4. ASSUME NEW y \in S
      PROVE  x <= y
  <2>1. <<y, x>> \in Nat \X Nat /\ x \in Nat /\ y \in Nat
    OBVIOUS
  <2>2. ~(<<y, x>>[1] < <<y, x>>[2])
    BY <1>1, <1>3, <2>1
  <2> QED
    BY <2>1, <2>2
<1> QED
  BY <1>4

\* Of the subsets of a finite set some are such that no other is within them.
LEMMA Smallest ==
  ASSUME NEW F, IsFiniteSet(F), NEW C \in SUBSET (SUBSET F), C # {}
  PROVE  \E T \in C : \A U \in C : U \subseteq T => U = T
<1> DEFINE R == StrictSubsetOrdering(F)
<1>1. IsWellFoundedOn(R, FiniteSubsetsOf(F)) /\ FiniteSubsetsOf(F) = SUBSET F
  BY FS_StrictSubsetOrderingWellFounded, FS_FiniteSubsetsOfFinite
<1>2. \A U, T \in SUBSET F : U \subseteq T /\ U # T => <<U, T>> \in R
  BY DEF StrictSubsetOrdering
<1> HIDE DEF R
<1>3. PICK T \in C : \A U \in C : <<U, T>> \notin R
  BY <1>1, WFMin
<1> QED
  BY <1>2, <1>3

-----------------------------------------------------------------------------
(* Names.                                                                  *)

\* What a file's name and content are: it begins where its name says.
File ==
  {f \in [bank : Banks, start : Nat, dur : Nat \ {0}, chunks : SUBSET Nat] :
     f.start \in f.chunks /\ \A c \in f.chunks : f.start <= c}

\* The order of names is one.
LEMMA NamesOrdered ==
  ASSUME NEW f \in File, NEW g \in File, NEW h \in File
  PROVE  /\ ~ByName(f, f)
         /\ ByName(f, g) /\ ByName(g, h) => ByName(f, h)
         /\ ByName(f, g) => f.start <= g.start
         /\ ByName(f, g) \/ ByName(g, f) \/ (f.start = g.start /\ f.dur = g.dur)
<1>1. /\ f.start \in Nat /\ g.start \in Nat /\ h.start \in Nat
      /\ f.dur \in Nat /\ g.dur \in Nat /\ h.dur \in Nat
  BY DEF File
<1> QED
  BY <1>1 DEF ByName

\* Of some files one comes first by name; none begins before it.
LEMMA FirstIs ==
  ASSUME NEW S \in SUBSET File, S # {}
  PROVE  /\ FirstByName(S) \in S
         /\ \A g \in S : ~ByName(g, FirstByName(S)) /\ FirstByName(S).start <= g.start
<1>0. \A f \in S : f \in File /\ f.start \in Nat /\ f.dur \in Nat
  BY DEF File
<1> DEFINE A == {f.start : f \in S}
<1>1. PICK a \in A : \A x \in A : a <= x
  <2>1. A \in SUBSET Nat /\ A # {}
    BY <1>0
  <2> HIDE DEF A
  <2> QED
    BY <2>1, Least
<1> DEFINE B == {f.dur : f \in {g \in S : g.start = a}}
<1>2. PICK b \in B : \A x \in B : b <= x
  <2>1. B \in SUBSET Nat /\ B # {}
    BY <1>0
  <2> HIDE DEF B
  <2> QED
    BY <2>1, Least
<1>3. PICK f \in S : f.start = a /\ f.dur = b
  OBVIOUS
<1>4. ASSUME NEW g \in S PROVE ~ByName(g, f)
  <2>1. a <= g.start /\ (g.start = a => b <= g.dur)
    BY <1>1, <1>2
  <2>2. /\ a \in Nat /\ b \in Nat /\ g.start \in Nat /\ g.dur \in Nat
    BY <1>0, <1>3
  <2> HIDE DEF A, B
  <2> QED
    BY <1>3, <2>1, <2>2 DEF ByName
<1>5. FirstByName(S) \in S /\ \A g \in S : ~ByName(g, FirstByName(S))
  BY <1>4, Zenon DEF FirstByName
<1>6. ASSUME NEW g \in S PROVE FirstByName(S).start <= g.start
  <2>1. /\ FirstByName(S).start \in Nat /\ g.start \in Nat
        /\ ~(g.start < FirstByName(S).start)
    BY <1>0, <1>5 DEF ByName
  <2> QED
    BY <2>1
<1> QED
  BY <1>5, <1>6

\* Of finitely many files one comes last.
LEMMA LastIs ==
  ASSUME NEW F \in SUBSET File, IsFiniteSet(F), NEW S \in SUBSET F, S # {}
  PROVE  LastByName(S) \in S /\ \A g \in S : ~ByName(LastByName(S), g)
<1> DEFINE HasLast(s) == \E f \in s : \A g \in s : ~ByName(f, g)
           C == {s \in SUBSET F : s # {} /\ ~HasLast(s)}
<1>1. C = {}
  <2> SUFFICES ASSUME C # {} PROVE FALSE
    OBVIOUS
  <2>1. PICK s \in C : \A u \in C : u \subseteq s => u = s
    <3>1. C \in SUBSET (SUBSET F)
      OBVIOUS
    <3> HIDE DEF C
    <3> QED
      BY <3>1, Smallest
  <2>2. s \in SUBSET F /\ s # {} /\ ~HasLast(s)
    BY <2>1
  <2>3. PICK x \in s : x \in File
    BY <2>2
  <2>4. HasLast(s \ {x}) \/ s = {x}
    <3>1. s \ {x} \in SUBSET F /\ s \ {x} \subseteq s /\ s \ {x} # s
      BY <2>2, <2>3
    <3>2. s \ {x} \notin C
      <4> HIDE DEF C
      <4> QED
        BY <2>1, <3>1
    <3> HIDE DEF HasLast
    <3> QED
      BY <3>1, <3>2
  <2>5. CASE s = {x}
    <3>1. ~ByName(x, x)
      BY <2>3, NamesOrdered
    <3> QED
      BY <2>2, <2>5, <3>1
  <2>6. CASE HasLast(s \ {x})
    <3>1. PICK m \in s \ {x} : \A g \in s \ {x} : ~ByName(m, g)
      BY <2>6
    <3>2. \A g \in s : g \in File
      BY <2>2
    <3>3. CASE ~ByName(m, x)
      BY <2>2, <3>1, <3>3
    <3>4. CASE ByName(m, x)
      <4>1. ASSUME NEW g \in s PROVE ~ByName(x, g)
        BY <3>1, <3>2, <3>4, NamesOrdered
      <4> QED
        BY <2>2, <4>1
    <3> QED
      BY <3>3, <3>4
  <2> QED
    BY <2>4, <2>5, <2>6
<1>2. HasLast(S)
  BY <1>1
<1> QED
  BY <1>2, Zenon DEF LastByName

-----------------------------------------------------------------------------
(* The walltime of files.                                                  *)

\* Adding up the durations of the files of a set, one after the other.
Summing(f, F) ==
  f = [s \in SUBSET F |->
         IF s = {} THEN 0
         ELSE (CHOOSE x \in s : TRUE).dur + f[s \ {CHOOSE x \in s : TRUE}]]

\* The durations of finitely many files can be added up.
LEMMA SumExists ==
  ASSUME NEW F, IsFiniteSet(F)
  PROVE  \E f : Summing(f, F)
<1> DEFINE Any(s) == CHOOSE x \in s : TRUE
           Upto(f, n) == f = [s \in {u \in SUBSET F : Cardinality(u) <= n} |->
                                IF s = {} THEN 0 ELSE Any(s).dur + f[s \ {Any(s)}]]
           S == {n \in Nat : ~\E f : Upto(f, n)}
<1>1. \A s \in SUBSET F : /\ IsFiniteSet(s) /\ Cardinality(s) \in Nat
                          /\ Cardinality(s) <= Cardinality(F)
                          /\ Cardinality(s) = 0 <=> s = {}
                          /\ s # {} => /\ Any(s) \in s /\ s \ {Any(s)} \in SUBSET F
                                       /\ Cardinality(s \ {Any(s)}) = Cardinality(s) - 1
  <2> SUFFICES ASSUME NEW s \in SUBSET F
               PROVE  /\ IsFiniteSet(s) /\ Cardinality(s) \in Nat
                      /\ Cardinality(s) <= Cardinality(F)
                      /\ Cardinality(s) = 0 <=> s = {}
                      /\ s # {} => /\ Any(s) \in s /\ s \ {Any(s)} \in SUBSET F
                                   /\ Cardinality(s \ {Any(s)}) = Cardinality(s) - 1
    OBVIOUS
  <2>1. IsFiniteSet(s) /\ Cardinality(s) <= Cardinality(F)
    BY FS_Subset
  <2>2. Cardinality(s) \in Nat /\ (Cardinality(s) = 0 <=> s = {})
    BY <2>1, FS_CardinalityType, FS_EmptySet
  <2>3. s # {} => Any(s) \in s
    BY Zenon
  <2> HIDE DEF Any
  <2>4. s # {} => Cardinality(s \ {Any(s)}) = Cardinality(s) - 1
    BY <2>1, <2>3, FS_RemoveElement
  <2> QED
    BY <2>1, <2>2, <2>3, <2>4
<1> HIDE DEF Any
<1>2. ASSUME S # {} PROVE FALSE
  <2>1. PICK m \in S : \A n \in S : m <= n
    <3>1. S \in SUBSET Nat
      OBVIOUS
    <3> HIDE DEF S
    <3> QED
      BY <1>2, <3>1, Least
  <2>2. m \in Nat /\ ~\E f : Upto(f, m)
    BY <2>1
  <2>3. CASE m = 0
    <3> DEFINE f == [s \in {u \in SUBSET F : Cardinality(u) <= 0} |-> 0]
    <3>1. ASSUME NEW s \in SUBSET F, Cardinality(s) <= 0
          PROVE  s = {}
      <4>1. Cardinality(s) \in Nat /\ (Cardinality(s) = 0 => s = {})
        BY <1>1
      <4> QED
        BY <3>1, <4>1
    <3>2. Upto(f, 0)
      BY <3>1, Zenon
    <3> QED
      BY <2>2, <2>3, <3>2
  <2>4. CASE m # 0
    <3>1. m - 1 \in Nat /\ ~(m <= m - 1)
      BY <2>2, <2>4
    <3>2. PICK f : Upto(f, m - 1)
      <4>1. m - 1 \notin S
        <5> HIDE DEF S
        <5> QED
          BY <2>1, <3>1
      <4> QED
        BY <3>1, <4>1
    <3> DEFINE D(n) == {u \in SUBSET F : Cardinality(u) <= n}
               g == [s \in D(m) |-> IF s = {} THEN 0 ELSE Any(s).dur + f[s \ {Any(s)}]]
               h == [s \in D(m) |-> IF s = {} THEN 0 ELSE Any(s).dur + g[s \ {Any(s)}]]
    <3>3. ASSUME NEW s \in D(m), s # {}
          PROVE  g[s \ {Any(s)}] = f[s \ {Any(s)}]
      <4> DEFINE u == s \ {Any(s)}
      <4>1. u \in D(m - 1) /\ u \in D(m)
        BY <1>1, <2>2, <3>1, <3>3
      <4>2. f[u] = IF u = {} THEN 0 ELSE Any(u).dur + f[u \ {Any(u)}]
        <5> HIDE DEF u
        <5> QED
          BY <3>2, <4>1, Zenon
      <4>3. g[u] = IF u = {} THEN 0 ELSE Any(u).dur + f[u \ {Any(u)}]
        <5> HIDE DEF u
        <5> QED
          BY <4>1, Zenon
      <4> QED
        BY <4>2, <4>3
    <3>4. g = h
      <4> HIDE DEF D
      <4> QED
        BY <3>3
    <3>5. Upto(g, m)
      BY <3>4, Zenon
    <3> QED
      BY <2>2, <3>5
  <2> QED
    BY <2>3, <2>4
<1>3. PICK f : Upto(f, Cardinality(F))
  <2>1. Cardinality(F) \in Nat /\ S = {}
    BY <1>2, FS_CardinalityType
  <2> QED
    BY <2>1
<1>4. {u \in SUBSET F : Cardinality(u) <= Cardinality(F)} = SUBSET F
  BY <1>1
<1>5. Summing(f, F)
  BY <1>3, <1>4, Zenon DEF Summing, Any
<1> QED
  BY <1>5

\* The walltime of some files is that of one of them or, of several, more.
LEMMA WalltimeIs ==
  ASSUME NEW F \in SUBSET File, IsFiniteSet(F)
  PROVE  /\ TotalWalltime(F) \in Nat
         /\ \A f \in F : \/ F = {f} /\ TotalWalltime(F) = f.dur
                         \/ F # {f} /\ TotalWalltime(F) > f.dur
<1> DEFINE Any(s) == CHOOSE x \in s : TRUE
           iter == CHOOSE f : Summing(f, F)
           P(u) == /\ iter[u] \in Nat
                   /\ \A f \in u : \/ u = {f} /\ iter[u] = f.dur
                                   \/ u # {f} /\ iter[u] > f.dur
           C == {u \in SUBSET F : ~P(u)}
<1>1. Summing(iter, F)
  BY SumExists, Zenon
<1>2. TotalWalltime(F) = iter[F]
  BY Zenon DEF TotalWalltime, MapThenSumSet, MapThenFoldSet, Summing
<1>3. ASSUME NEW u \in SUBSET F
      PROVE  iter[u] = IF u = {} THEN 0 ELSE Any(u).dur + iter[u \ {Any(u)}]
  <2> HIDE DEF iter
  <2> QED
    BY <1>1, Zenon DEF Summing
<1>4. ASSUME NEW u \in SUBSET F, u # {} PROVE Any(u) \in u
  BY <1>4, Zenon
<1> HIDE DEF iter, Any
<1>5. C = {}
  <2> SUFFICES ASSUME C # {} PROVE FALSE
    OBVIOUS
  <2>1. PICK u \in C : \A v \in C : v \subseteq u => v = u
    <3>1. C \in SUBSET (SUBSET F)
      OBVIOUS
    <3> HIDE DEF C
    <3> QED
      BY <3>1, Smallest
  <2>2. u \in SUBSET F /\ ~P(u)
    BY <2>1
  <2>3. CASE u = {}
    <3>1. iter[u] = 0
      BY <1>3, <2>2, <2>3, Zenon
    <3>2. P(u)
      BY <2>3, <3>1
    <3> QED
      BY <2>2, <3>2
  <2>4. CASE u # {}
    <3> DEFINE x == Any(u)
               v == u \ {x}
    <3>1. x \in u /\ x \in File
      BY <1>4, <2>2, <2>4
    <3>2. v \in SUBSET F /\ v \subseteq u /\ v # u
      BY <2>2, <3>1
    <3>3. P(v)
      <4>1. v \notin C
        <5> HIDE DEF C, v
        <5> QED
          BY <2>1, <3>2
      <4> QED
        BY <3>2, <4>1
    <3>4. iter[u] = x.dur + iter[v]
      BY <1>3, <2>2, <2>4
    <3>5. x.dur \in Nat \ {0} /\ iter[v] \in Nat /\ iter[u] \in Nat
      <4>1. x.dur \in Nat \ {0}
        BY <3>1 DEF File
      <4> HIDE DEF x, v
      <4> QED
        BY <3>3, <3>4, <4>1
    <3>6. ASSUME NEW f \in u
          PROVE  (u = {f} /\ iter[u] = f.dur) \/ (u # {f} /\ iter[u] > f.dur)
      <4>1. CASE f = x /\ v = {}
        <5>1. iter[v] = 0
          BY <1>3, <3>2, <4>1
        <5>2. u = {f}
          BY <3>1, <4>1
        <5> HIDE DEF x, v
        <5> QED
          BY <3>4, <3>5, <4>1, <5>1, <5>2
      <4>2. CASE f = x /\ v # {}
        <5>0. u # {f}
          BY <4>2
        <5>1. PICK g \in v : TRUE
          BY <4>2
        <5>2. g \in File
          BY <2>2, <5>1
        <5>3. g.dur \in Nat \ {0}
          BY <5>2 DEF File
        <5>4. iter[v] >= g.dur
          <6> HIDE DEF x, v
          <6> QED
            BY <3>3, <3>5, <5>1, <5>3
        <5> HIDE DEF x, v
        <5> QED
          BY <3>4, <3>5, <4>2, <5>0, <5>3, <5>4
      <4>3. CASE f # x
        <5>0. u # {f}
          BY <3>1, <4>3
        <5>1. f \in v /\ f \in File
          BY <2>2, <4>3
        <5>2. f.dur \in Nat
          BY <5>1 DEF File
        <5>3. iter[v] >= f.dur
          <6> HIDE DEF x, v
          <6> QED
            BY <3>3, <3>5, <5>1, <5>2
        <5> HIDE DEF x, v
        <5> QED
          BY <3>4, <3>5, <5>0, <5>2, <5>3
      <4> QED
        BY <4>1, <4>2, <4>3
    <3> QED
      BY <2>2, <3>5, <3>6
  <2> QED
    BY <2>3, <2>4
<1>6. P(F)
  BY <1>5
<1> QED
  BY <1>2, <1>6

-----------------------------------------------------------------------------
(* The collections.                                                        *)

\* No file collected, no collection full.
Base == [collected |-> {}, groups |-> {}]

\* Collecting the files of a set, the last by name after the others.
Collecting(f, F) ==
  f = [s \in SUBSET F |->
         IF s = {} THEN Base
         ELSE Collect(LastByName(s), f[s \ {LastByName(s)}])]

\* The files of finitely many can be collected one after the other.
LEMMA CollectExists ==
  ASSUME NEW F \in SUBSET File, IsFiniteSet(F)
  PROVE  \E f : Collecting(f, F)
<1> DEFINE Last(s) == LastByName(s)
           Upto(f, n) == f = [s \in {u \in SUBSET F : Cardinality(u) <= n} |->
                                IF s = {} THEN Base ELSE Collect(Last(s), f[s \ {Last(s)}])]
           S == {n \in Nat : ~\E f : Upto(f, n)}
<1>1. \A s \in SUBSET F : /\ IsFiniteSet(s) /\ Cardinality(s) \in Nat
                          /\ Cardinality(s) <= Cardinality(F)
                          /\ Cardinality(s) = 0 <=> s = {}
                          /\ s # {} => /\ Last(s) \in s /\ s \ {Last(s)} \in SUBSET F
                                       /\ Cardinality(s \ {Last(s)}) = Cardinality(s) - 1
  <2> SUFFICES ASSUME NEW s \in SUBSET F
               PROVE  /\ IsFiniteSet(s) /\ Cardinality(s) \in Nat
                      /\ Cardinality(s) <= Cardinality(F)
                      /\ Cardinality(s) = 0 <=> s = {}
                      /\ s # {} => /\ Last(s) \in s /\ s \ {Last(s)} \in SUBSET F
                                   /\ Cardinality(s \ {Last(s)}) = Cardinality(s) - 1
    OBVIOUS
  <2>1. IsFiniteSet(s) /\ Cardinality(s) <= Cardinality(F)
    BY FS_Subset
  <2>2. Cardinality(s) \in Nat /\ (Cardinality(s) = 0 <=> s = {})
    BY <2>1, FS_CardinalityType, FS_EmptySet
  <2>3. s # {} => Last(s) \in s
    BY LastIs
  <2> HIDE DEF Last
  <2>4. s # {} => Cardinality(s \ {Last(s)}) = Cardinality(s) - 1
    BY <2>1, <2>3, FS_RemoveElement
  <2> QED
    BY <2>1, <2>2, <2>3, <2>4
<1> HIDE DEF Last
<1>2. ASSUME S # {} PROVE FALSE
  <2>1. PICK m \in S : \A n \in S : m <= n
    <3>1. S \in SUBSET Nat
      OBVIOUS
    <3> HIDE DEF S
    <3> QED
      BY <1>2, <3>1, Least
  <2>2. m \in Nat /\ ~\E f : Upto(f, m)
    BY <2>1
  <2>3. CASE m = 0
    <3> DEFINE f == [s \in {u \in SUBSET F : Cardinality(u) <= 0} |-> Base]
    <3>1. ASSUME NEW s \in SUBSET F, Cardinality(s) <= 0
          PROVE  s = {}
      <4>1. Cardinality(s) \in Nat /\ (Cardinality(s) = 0 => s = {})
        BY <1>1
      <4> QED
        BY <3>1, <4>1
    <3>2. Upto(f, 0)
      BY <3>1, Zenon
    <3> QED
      BY <2>2, <2>3, <3>2
  <2>4. CASE m # 0
    <3>1. m - 1 \in Nat /\ ~(m <= m - 1)
      BY <2>2, <2>4
    <3>2. PICK f : Upto(f, m - 1)
      <4>1. m - 1 \notin S
        <5> HIDE DEF S
        <5> QED
          BY <2>1, <3>1
      <4> QED
        BY <3>1, <4>1
    <3> DEFINE D(n) == {u \in SUBSET F : Cardinality(u) <= n}
               g == [s \in D(m) |-> IF s = {} THEN Base ELSE Collect(Last(s), f[s \ {Last(s)}])]
               h == [s \in D(m) |-> IF s = {} THEN Base ELSE Collect(Last(s), g[s \ {Last(s)}])]
    <3>3. ASSUME NEW s \in D(m), s # {}
          PROVE  g[s \ {Last(s)}] = f[s \ {Last(s)}]
      <4> DEFINE u == s \ {Last(s)}
      <4>1. u \in D(m - 1) /\ u \in D(m)
        BY <1>1, <2>2, <3>1, <3>3
      <4>2. f[u] = IF u = {} THEN Base ELSE Collect(Last(u), f[u \ {Last(u)}])
        <5> HIDE DEF u
        <5> QED
          BY <3>2, <4>1, Zenon
      <4>3. g[u] = IF u = {} THEN Base ELSE Collect(Last(u), f[u \ {Last(u)}])
        <5> HIDE DEF u
        <5> QED
          BY <4>1, Zenon
      <4> QED
        BY <4>2, <4>3
    <3>4. g = h
      <4> HIDE DEF D
      <4> QED
        BY <3>3
    <3>5. Upto(g, m)
      BY <3>4, Zenon
    <3> QED
      BY <2>2, <3>5
  <2> QED
    BY <2>3, <2>4
<1>3. PICK f : Upto(f, Cardinality(F))
  <2>1. Cardinality(F) \in Nat /\ S = {}
    BY <1>2, FS_CardinalityType
  <2> QED
    BY <2>1
<1>4. {u \in SUBSET F : Cardinality(u) <= Cardinality(F)} = SUBSET F
  BY <1>1
<1>5. Collecting(f, F)
  BY <1>3, <1>4, Zenon DEF Collecting, Last
<1> QED
  BY <1>5

\* What the collecting of some files has come to: full collections apart from
\* each other and from the one under way.
LEMMA CollectedAre ==
  ASSUME NEW F \in SUBSET File, IsFiniteSet(F)
  PROVE  LET G == MapThenFoldSet(Collect, [collected |-> {}, groups |-> {}],
                                 LAMBDA f : f, LastByName, F).groups
         IN  /\ G \subseteq SUBSET F
             /\ \A g \in G : IsFull(g)
             /\ \A g, h \in G : g = h \/ g \intersect h = {}
<1> DEFINE iter == CHOOSE f : Collecting(f, F)
           Good(a, u) == /\ a.collected \subseteq u
                         /\ a.groups \subseteq SUBSET u
                         /\ \A g \in a.groups : IsFull(g) /\ g \intersect a.collected = {}
                         /\ \A g, h \in a.groups : g = h \/ g \intersect h = {}
           C == {u \in SUBSET F : ~Good(iter[u], u)}
<1>1. Collecting(iter, F)
  BY CollectExists, Zenon
<1>2. MapThenFoldSet(Collect, [collected |-> {}, groups |-> {}],
                     LAMBDA f : f, LastByName, F) = iter[F]
  BY Zenon DEF MapThenFoldSet, Collecting, Base
<1>3. ASSUME NEW u \in SUBSET F
      PROVE  iter[u] = IF u = {} THEN Base
                       ELSE Collect(LastByName(u), iter[u \ {LastByName(u)}])
  <2> HIDE DEF iter
  <2> QED
    BY <1>1, Zenon DEF Collecting
<1> HIDE DEF iter
<1>4. C = {}
  <2> SUFFICES ASSUME C # {} PROVE FALSE
    OBVIOUS
  <2>1. PICK u \in C : \A v \in C : v \subseteq u => v = u
    <3>1. C \in SUBSET (SUBSET F)
      OBVIOUS
    <3> HIDE DEF C
    <3> QED
      BY <3>1, Smallest
  <2>2. u \in SUBSET F /\ ~Good(iter[u], u)
    BY <2>1
  <2>3. CASE u = {}
    <3>1. iter[u] = Base
      BY <1>3, <2>2, <2>3, Zenon
    <3> QED
      BY <2>2, <3>1 DEF Base
  <2>4. CASE u # {}
    <3> DEFINE x == LastByName(u)
               v == u \ {x}
               a == iter[v]
    <3>1. x \in u
      BY <2>2, <2>4, LastIs
    <3>2. v \in SUBSET F /\ v \subseteq u /\ v # u /\ x \notin v
      BY <2>2, <3>1
    <3>3. Good(a, v)
      <4>1. v \notin C
        <5> HIDE DEF C, v
        <5> QED
          BY <2>1, <3>2
      <4> QED
        BY <3>2, <4>1
    <3>4. iter[u] = Collect(x, a)
      BY <1>3, <2>2, <2>4
    <3> HIDE DEF x, v, a
    <3>5. CASE IsFull(a.collected)
      <4>1. /\ iter[u].collected = {x}
            /\ iter[u].groups = a.groups \union {a.collected}
        BY <3>4, <3>5 DEF Collect
      <4>2. Good(iter[u], u)
        BY <3>1, <3>2, <3>3, <3>5, <4>1
      <4> QED
        BY <2>2, <4>2
    <3>6. CASE ~IsFull(a.collected)
      <4>1. /\ iter[u].collected = a.collected \union {x}
            /\ iter[u].groups = a.groups
        BY <3>4, <3>6 DEF Collect
      <4>2. Good(iter[u], u)
        BY <3>1, <3>2, <3>3, <4>1
      <4> QED
        BY <2>2, <4>2
    <3> QED
      BY <3>5, <3>6
  <2> QED
    BY <2>3, <2>4
<1>5. Good(iter[F], F)
  BY <1>4
<1> QED
  BY <1>2, <1>5

\* What is merged: full collections, apart from each other, of more than one
\* small file of one bank.
LEMMA GroupsAre ==
  ASSUME NEW F \in SUBSET File, IsFiniteSet(F)
  PROVE  /\ Groups(F) \subseteq SUBSET F
         /\ \A g \in Groups(F) : /\ \A f, h \in g : f.bank = h.bank
                                 /\ g # {} /\ \A f \in g : g # {f}
         /\ \A g, h \in Groups(F) : g = h \/ g \intersect h = {}
<1> DEFINE Small(b) == {f \in F : f.bank = b /\ f.dur < CombineDuration}
           Of(b) == MapThenFoldSet(Collect, [collected |-> {}, groups |-> {}],
                                   LAMBDA f : f, LastByName, Small(b)).groups
<1>1. Groups(F) = UNION {Of(b) : b \in Banks}
  BY Zenon DEF Groups
<1>2. ASSUME NEW b \in Banks
      PROVE  /\ Of(b) \subseteq SUBSET Small(b)
             /\ \A g \in Of(b) : IsFull(g) /\ IsFiniteSet(g)
             /\ \A g, h \in Of(b) : g = h \/ g \intersect h = {}
  <2>1. Small(b) \in SUBSET File /\ IsFiniteSet(Small(b))
    BY FS_Subset
  <2> HIDE DEF Small
  <2>2. /\ Of(b) \subseteq SUBSET Small(b)
        /\ \A g \in Of(b) : IsFull(g)
        /\ \A g, h \in Of(b) : g = h \/ g \intersect h = {}
    BY <2>1, CollectedAre
  <2> HIDE DEF Of
  <2> QED
    BY <2>1, <2>2, FS_Subset
<1> HIDE DEF Of
<1>3. ASSUME NEW g \in Groups(F)
      PROVE  \E b \in Banks : g \in Of(b)
  BY <1>1
<1>4. ASSUME NEW g \in Groups(F)
      PROVE  /\ g \subseteq F
             /\ \A f, h \in g : f.bank = h.bank
             /\ g # {} /\ \A f \in g : g # {f}
  <2>1. PICK b \in Banks : g \in Of(b)
    BY <1>3
  <2>2. g \subseteq Small(b) /\ IsFull(g) /\ IsFiniteSet(g)
    BY <1>2, <2>1
  <2>3. g \in SUBSET File
    BY <2>2
  <2>4. MaxStatsPerBank \in Nat \ {0, 1} /\ CombineDuration \in Nat \ {0}
    BY TimesAssumption, CollectionAssumption
  <2>5. g # {}
    <3>1. Cardinality({}) = 0 /\ TotalWalltime({}) \in Nat
      BY FS_EmptySet, WalltimeIs
    <3>2. TotalWalltime({}) = 0
      BY Zenon DEF TotalWalltime, MapThenSumSet, MapThenFoldSet
    <3> QED
      BY <2>2, <2>4, <3>1, <3>2 DEF IsFull
  <2>6. ASSUME NEW f \in g PROVE g # {f}
    <3> SUFFICES ASSUME g = {f} PROVE FALSE
      OBVIOUS
    <3>1. Cardinality(g) = 1
      BY FS_Singleton
    <3>2. TotalWalltime(g) = f.dur
      BY <2>2, <2>3, WalltimeIs
    <3>3. f.dur \in Nat /\ f.dur < CombineDuration
      BY <2>2, <2>3 DEF File
    <3> QED
      BY <2>2, <2>4, <3>1, <3>2, <3>3 DEF IsFull
  <2> QED
    BY <2>2, <2>5, <2>6
<1>5. ASSUME NEW g \in Groups(F), NEW h \in Groups(F)
      PROVE  g = h \/ g \intersect h = {}
  <2>1. PICK b \in Banks : g \in Of(b)
    BY <1>3
  <2>2. PICK c \in Banks : h \in Of(c)
    BY <1>3
  <2>3. CASE b = c
    BY <1>2, <2>1, <2>2, <2>3
  <2>4. CASE b # c
    <3>1. g \subseteq Small(b) /\ h \subseteq Small(c)
      BY <1>2, <2>1, <2>2
    <3> QED
      BY <2>4, <3>1
  <2> QED
    BY <2>3, <2>4
<1> QED
  BY <1>4, <1>5

\* The inputs and the output of a merging.  The output has a name of its own:
\* it begins with its first input and is longer than each.
Merges(p) ==
  /\ p.inputs \in SUBSET File /\ p.output \in File
  /\ \E f \in p.inputs : f.start = p.output.start
  /\ \A f \in p.inputs : f.bank = p.output.bank /\ f.dur < p.output.dur
  /\ p.output.chunks = UNION {f.chunks : f \in p.inputs}

\* The file merged from a collection.
LEMMA CombinedIs ==
  ASSUME NEW F \in SUBSET File, IsFiniteSet(F), NEW g \in Groups(F), NEW t
  PROVE  Merges([inputs |-> g, output |-> Combined(g), at |-> t])
<1>1. /\ g \in SUBSET F /\ \A f, h \in g : f.bank = h.bank
      /\ g # {} /\ \A f \in g : g # {f}
  BY GroupsAre
<1>2. g \in SUBSET File /\ IsFiniteSet(g)
  BY <1>1, FS_Subset
<1> DEFINE first == FirstByName(g)
           out == Combined(g)
<1>3. first \in g /\ first \in File /\ \A f \in g : first.start <= f.start
  BY <1>1, <1>2, FirstIs
<1>4. /\ out.bank = first.bank /\ out.start = first.start
      /\ out.dur = TotalWalltime(g) /\ out.chunks = UNION {f.chunks : f \in g}
      /\ out = [bank |-> out.bank, start |-> out.start, dur |-> out.dur, chunks |-> out.chunks]
  BY Zenon DEF Combined
<1> HIDE DEF first, out
<1>5. ASSUME NEW f \in g PROVE f.bank = out.bank /\ f.dur < out.dur
  <2>1. TotalWalltime(g) \in Nat /\ TotalWalltime(g) > f.dur
    BY <1>1, <1>2, WalltimeIs
  <2>2. f.dur \in Nat
    BY <1>2 DEF File
  <2> QED
    BY <1>1, <1>3, <1>4, <2>1, <2>2
<1>6. out \in File
  <2>1. out.bank \in Banks /\ out.start \in Nat
    BY <1>3, <1>4 DEF File
  <2>2. out.dur \in Nat \ {0}
    <3>1. out.dur \in Nat /\ first.dur \in Nat /\ first.dur < out.dur
      <4>1. first.dur \in Nat
        BY <1>3 DEF File
      <4>2. TotalWalltime(g) \in Nat
        BY <1>2, WalltimeIs
      <4> QED
        BY <1>3, <1>4, <1>5, <4>1, <4>2
    <3> QED
      BY <3>1
  <2>3. ASSUME NEW c \in out.chunks PROVE c \in Nat /\ out.start <= c
    <3>1. PICK f \in g : c \in f.chunks
      BY <1>4
    <3>2. /\ f \in File /\ f.start \in Nat /\ c \in Nat /\ f.start <= c
          /\ first.start <= f.start
      BY <1>2, <1>3, <3>1 DEF File
    <3> QED
      BY <1>4, <2>1, <3>2
  <2>4. out.start \in out.chunks
    <3>1. first.start \in first.chunks
      BY <1>3 DEF File
    <3> QED
      BY <1>3, <1>4, <3>1
  <2>5. out \in [bank : Banks, start : Nat, dur : Nat \ {0}, chunks : SUBSET Nat]
    <3>1. out.chunks \in SUBSET Nat
      BY <2>3
    <3> QED
      BY <1>4, <2>1, <2>2, <3>1
  <2> QED
    BY <2>3, <2>4, <2>5 DEF File
<1> DEFINE p == [inputs |-> g, output |-> out, at |-> t]
<1>7. p.inputs = g /\ p.output = out
  OBVIOUS
<1> HIDE DEF p
<1>8. Merges(p)
  BY <1>2, <1>3, <1>4, <1>5, <1>6, <1>7 DEF Merges
<1> QED
  BY <1>8 DEF p, out

-----------------------------------------------------------------------------
(* The steps, as far as the directory is concerned.                        *)

Processes == combine_stats_processes

\* What the directory and the mergings are.
Typed ==
  /\ now \in Nat /\ last_combine_stats_time \in Nat
  /\ dumped \in [Banks -> Nat]
  /\ files \in SUBSET File /\ IsFiniteSet(files)
  /\ files_being_combined \in SUBSET File
  /\ IsFiniteSet(Processes)
  /\ \A p \in Processes : Merges(p)

\* The files a starting of mergings leaves, and the mergings.
Started ==
  /\ files' = BankstatsFiles
  /\ files_being_combined' \subseteq BankstatsFiles
  /\ files_being_combined' = UNION {p.inputs : p \in Processes'}
  /\ IsFiniteSet(Processes')
  /\ \A p \in Processes' : Merges(p)
  /\ \A p, q \in Processes' : p = q \/ p.inputs \intersect q.inputs = {}

\* Starting the mergings does that.
LEMMA StartIs ==
  ASSUME Typed, StartCombine
  PROVE  Started
<1> DEFINE G == Groups(BankstatsFiles)
           Job(g) == [inputs |-> g, output |-> Combined(g), at |-> now]
<1>1. BankstatsFiles \in SUBSET File /\ IsFiniteSet(BankstatsFiles)
  <2>1. BankstatsFiles \subseteq files
    BY DEF BankstatsFiles
  <2> QED
    BY <2>1, FS_Subset DEF Typed
<1>2. /\ files' = BankstatsFiles /\ files_being_combined' = UNION G
      /\ Processes' = {Job(g) : g \in G}
  BY Zenon DEF StartCombine, Processes
<1>3. /\ G \subseteq SUBSET BankstatsFiles
      /\ \A g, h \in G : g = h \/ g \intersect h = {}
  BY <1>1, GroupsAre
<1>4. \A g \in G : Merges(Job(g))
  BY <1>1, CombinedIs
<1>5. \A g \in G : Job(g).inputs = g
  OBVIOUS
<1>6. IsFiniteSet(G)
  BY <1>1, <1>3, FS_SUBSET, FS_Subset
<1> HIDE DEF G, Job
<1>7. IsFiniteSet(Processes')
  <2> DEFINE f == [g \in G |-> Job(g)]
  <2>1. f \in Surjection(G, {Job(g) : g \in G})
    BY Zenon DEF Surjection
  <2> HIDE DEF f
  <2> QED
    BY <1>2, <1>6, <2>1, FS_Surjection
<1>8. UNION G = UNION {p.inputs : p \in Processes'}
  BY <1>2, <1>5
<1>9. \A p \in Processes' : Merges(p)
  BY <1>2, <1>4
<1>10. \A p, q \in Processes' : p = q \/ p.inputs \intersect q.inputs = {}
  BY <1>2, <1>3, <1>5
<1>11. UNION G \subseteq BankstatsFiles
  BY <1>3
<1> QED
  BY <1>2, <1>7, <1>8, <1>9, <1>10, <1>11 DEF Started

\* Neither the directory nor the mergings change.
Quiet ==
  /\ UNCHANGED <<files, files_being_combined, combine_stats_processes, dumped, failed>>
  /\ UNCHANGED last_combine_stats_time

\* The merged files are removed and nothing else happens to the directory.
Cleans ==
  /\ CanCleanup
  /\ files' = BankstatsFiles /\ files_being_combined' = {}
  /\ UNCHANGED <<combine_stats_processes, dumped, failed, last_combine_stats_time>>

\* The mergings are started.
Starts ==
  /\ CanCleanup /\ StartCombine /\ Started
  /\ last_combine_stats_time' \in {last_combine_stats_time, now}
  /\ UNCHANGED <<dumped, failed>>

\* Every step is one of these.
LEMMA DiskStep ==
  ASSUME Typed, [Next]_vars
  PROVE  /\ now' \in {now, now + 1}
         /\ \/ Quiet
            \/ Cleans
            \/ Starts
            \/ \E b \in Banks : Dump(b)
            \/ \E p \in Processes : CombineEnds(p)
            \/ Restart
<1>1. CASE Tick
  BY <1>1 DEF Tick, Quiet, disk, schedule, calcfapVars
<1>2. CASE \E i \in Scales : CalcfapEnds(i)
  BY <1>2 DEF CalcfapEnds, Quiet, disk, schedule
<1>3. CASE SkipCalcfap
  BY <1>3 DEF SkipCalcfap, Quiet, disk, schedule
<1>4. CASE ListWalltime
  <2>1. CanCleanup /\ now' = now /\ UNCHANGED <<dumped, failed, last_combine_stats_time>>
    BY <1>4, Zenon DEF ListWalltime, schedule
  <2>2. \/ StartCombine
        \/ files' = BankstatsFiles /\ files_being_combined' = {} /\ UNCHANGED combine_stats_processes
    BY <1>4, Zenon DEF ListWalltime
  <2>3. StartCombine => Started
    BY StartIs
  <2> QED
    BY <2>1, <2>2, <2>3 DEF Cleans, Starts
<1>5. CASE LaunchCalcfap
  BY <1>5 DEF LaunchCalcfap, Quiet, disk
<1>6. CASE DumpRaises
  BY <1>6 DEF DumpRaises, Quiet, disk, schedule
<1>7. CASE AwaitProcesses
  BY <1>7 DEF AwaitProcesses, Quiet, disk, schedule
<1>8. CASE RunCombineStats
  <2>1. now' = now /\ UNCHANGED <<dumped, failed>>
    BY <1>8 DEF RunCombineStats
  <2>2. \/ CanCleanup /\ StartCombine /\ last_combine_stats_time' = now
        \/ UNCHANGED <<disk, combine_stats_processes, last_combine_stats_time>>
    BY <1>8, Zenon DEF RunCombineStats
  <2>3. StartCombine => Started
    BY StartIs
  <2> QED
    BY <2>1, <2>2, <2>3 DEF Starts, Quiet, disk
<1>9. CASE UNCHANGED vars
  BY <1>9 DEF vars, Quiet, disk, schedule
<1>10. CASE \E b \in Banks : Dump(b)
  <2>1. now' = now
    BY <1>10 DEF Dump
  <2> QED
    BY <1>10, <2>1
<1>11. CASE \E p \in combine_stats_processes : CombineEnds(p)
  <2>1. now' = now
    BY <1>11 DEF CombineEnds
  <2> QED
    BY <1>11, <2>1 DEF Processes
<1>12. CASE Restart
  <2>1. now' = now
    BY <1>12 DEF Restart
  <2> QED
    BY <1>12, <2>1
<1> QED
  BY <1>1, <1>2, <1>3, <1>4, <1>5, <1>6, <1>7, <1>8, <1>9, <1>10, <1>11, <1>12
     DEF Next, Finished

\* A dump's file begins and ends with its time unit.
LEMMA DumpIs ==
  ASSUME Typed, NEW b \in Banks, Dump(b)
  PROVE  /\ dumped' \in [Banks -> Nat] /\ dumped[b] \in Nat
         /\ dumped'[b] = dumped[b] + 1
         /\ \A c \in Banks : c # b => dumped'[c] = dumped[c]
         /\ \E f \in File : /\ f.bank = b /\ f.chunks = {dumped[b]}
                            /\ files' = files \union {f}
<1>1. dumped \in [Banks -> Nat] /\ dumped[b] \in Nat
  BY DEF Typed
<1>2. dumped' = [dumped EXCEPT ![b] = dumped[b] + 1]
  BY DEF Dump
<1> DEFINE f == [bank |-> b, start |-> dumped[b], dur |-> 1, chunks |-> {dumped[b]}]
<1>3. files' = files \union {f}
  BY DEF Dump
<1>4. f \in File
  BY <1>1 DEF File
<1>5. f.bank = b /\ f.chunks = {dumped[b]}
  OBVIOUS
<1> HIDE DEF f
<1> QED
  BY <1>1, <1>2, <1>3, <1>4, <1>5

\* The directory and the mergings stay such.
LEMMA TypedStep ==
  ASSUME Typed, [Next]_vars
  PROVE  Typed'
<1>1. /\ now \in Nat /\ last_combine_stats_time \in Nat
      /\ dumped \in [Banks -> Nat]
      /\ files \in SUBSET File /\ IsFiniteSet(files)
      /\ files_being_combined \in SUBSET File
      /\ IsFiniteSet(Processes) /\ \A p \in Processes : Merges(p)
  BY DEF Typed
<1>2. now' \in Nat
  <2>1. now' \in {now, now + 1}
    BY DiskStep
  <2> QED
    BY <1>1, <2>1
<1>3. BankstatsFiles \in SUBSET File /\ IsFiniteSet(BankstatsFiles)
  <2>1. BankstatsFiles \subseteq files
    BY DEF BankstatsFiles
  <2> QED
    BY <1>1, <2>1, FS_Subset
<1>4. CASE Quiet
  <2>1. /\ files' = files /\ files_being_combined' = files_being_combined
        /\ Processes' = Processes /\ dumped' = dumped
        /\ last_combine_stats_time' = last_combine_stats_time
    BY <1>4 DEF Quiet, Processes
  <2> QED
    BY <1>1, <1>2, <2>1 DEF Typed
<1>5. CASE Cleans
  <2>1. /\ files' = BankstatsFiles /\ files_being_combined' = {}
        /\ Processes' = Processes /\ dumped' = dumped
        /\ last_combine_stats_time' = last_combine_stats_time
    BY <1>5 DEF Cleans, Processes
  <2> QED
    BY <1>1, <1>2, <1>3, <2>1 DEF Typed
<1>6. CASE Starts
  <2>1. /\ files' = BankstatsFiles /\ files_being_combined' \subseteq BankstatsFiles
        /\ IsFiniteSet(Processes') /\ \A p \in Processes' : Merges(p)
        /\ dumped' = dumped /\ last_combine_stats_time' \in Nat
    BY <1>1, <1>6 DEF Starts, Started
  <2> QED
    BY <1>1, <1>2, <1>3, <2>1 DEF Typed
<1>7. CASE \E b \in Banks : Dump(b)
  <2>1. PICK b \in Banks : Dump(b)
    BY <1>7
  <2>2. /\ files_being_combined' = files_being_combined /\ Processes' = Processes
        /\ last_combine_stats_time' = last_combine_stats_time
    BY <2>1 DEF Dump, schedule, Processes
  <2>3. dumped' \in [Banks -> Nat]
    BY <2>1, DumpIs
  <2>4. PICK f \in File : files' = files \union {f}
    BY <2>1, DumpIs
  <2>5. IsFiniteSet(files')
    BY <1>1, <2>4, FS_AddElement
  <2> QED
    BY <1>1, <1>2, <2>2, <2>3, <2>4, <2>5 DEF Typed
<1>8. CASE \E p \in Processes : CombineEnds(p)
  <2>1. PICK p \in Processes : CombineEnds(p)
    BY <1>8
  <2>2. /\ files_being_combined' = files_being_combined
        /\ Processes' = Processes \ {p} /\ dumped' = dumped
        /\ last_combine_stats_time' = last_combine_stats_time
    BY <2>1 DEF CombineEnds, schedule, Processes
  <2>3. IsFiniteSet(Processes')
    BY <1>1, <2>2, FS_RemoveElement
  <2>4. p.output \in File
    BY <1>1 DEF Merges
  <2>5. files' \in SUBSET File /\ IsFiniteSet(files')
    <3>1. CASE files' = files
      BY <1>1, <3>1
    <3>2. CASE files' = {f \in files : ~SameName(f, p.output)} \union {p.output}
      <4>1. IsFiniteSet({f \in files : ~SameName(f, p.output)})
        BY <1>1, FS_Subset
      <4>2. IsFiniteSet(files')
        BY <3>2, <4>1, FS_AddElement
      <4> QED
        BY <1>1, <2>4, <3>2, <4>2
    <3> QED
      BY <2>1, <3>1, <3>2 DEF CombineEnds
  <2> QED
    BY <1>1, <1>2, <2>2, <2>3, <2>5 DEF Typed
<1>9. CASE Restart
  <2>1. PICK done \in SUBSET Processes :
          files' = {f \in files : \A p \in done : ~SameName(f, p.output)}
                     \union {p.output : p \in done}
    BY <1>9, Zenon DEF Restart, Processes
  <2>2. /\ files_being_combined' = {} /\ Processes' = {}
        /\ dumped' = dumped /\ last_combine_stats_time' = now
    BY <1>9 DEF Restart, Processes
  <2> DEFINE out == {p.output : p \in done}
             left == {f \in files : \A p \in done : ~SameName(f, p.output)}
  <2>3. IsFiniteSet(out)
    <3> DEFINE f == [p \in done |-> p.output]
    <3>1. f \in Surjection(done, out)
      BY Zenon DEF Surjection
    <3> HIDE DEF f, out
    <3> QED
      BY <1>1, <3>1, FS_Subset, FS_Surjection
  <2>4. left \subseteq files /\ IsFiniteSet(left)
    BY <1>1, FS_Subset
  <2>5. out \in SUBSET File
    BY <1>1 DEF Merges
  <2>6. files' = left \union out
    BY <2>1
  <2> HIDE DEF out, left
  <2>7. files' \in SUBSET File /\ IsFiniteSet(files')
    BY <1>1, <2>3, <2>4, <2>5, <2>6, FS_Union
  <2>8. IsFiniteSet(Processes')
    BY <2>2, FS_EmptySet
  <2> QED
    BY <1>1, <1>2, <2>2, <2>7, <2>8 DEF Typed
<1> QED
  BY <1>4, <1>5, <1>6, <1>7, <1>8, <1>9, DiskStep

\* At first there is no file.
LEMMA TypedInit ==
  ASSUME Init
  PROVE  Typed
<1>1. dumped \in [Banks -> Nat]
  BY DEF Init
<1>2. /\ now = 0 /\ last_combine_stats_time = 0 /\ files = {}
      /\ files_being_combined = {} /\ Processes = {}
  BY DEF Init, Processes
<1> QED
  BY <1>1, <1>2, FS_EmptySet DEF Typed

-----------------------------------------------------------------------------
(* What is marginalised is recent.                                         *)

Recent(fs, time, i) == \A f \in fs : f.start > time - Walltimes[i]

Marginalising(i) == calcfap_processes[i] # None

\* What is listed, and what the running subprocesses were given, began inside
\* the walltime.
Listing ==
  /\ listed \in Seq(SUBSET File)
  /\ calcfap_processes = [i \in Scales |-> calcfap_processes[i]]
  /\ pc = "calcfap" => \A k \in 1..Len(listed) : Recent(listed[k], now, k)
  /\ \A i \in Scales : Marginalising(i) =>
       /\ calcfap_processes[i].inputs \in SUBSET File
       /\ calcfap_processes[i].at \in Nat
       /\ Recent(calcfap_processes[i].inputs, calcfap_processes[i].at, i)

\* Neither the lists nor the marginalisations change.
Passes ==
  /\ UNCHANGED <<listed, calcfap_processes, now>>
  /\ pc' = pc \/ pc' # "calcfap"

\* A further walltime is listed.
Lists ==
  /\ pc = "calcfap" /\ pc' = "calcfap"
  /\ Len(listed) + 1 \in Scales
  /\ \A i \in Scales : ~Marginalising(i)
  /\ CanCleanup
  /\ files' = BankstatsFiles /\ files_being_combined' = {}
  /\ listed' = Append(listed, FilterBankstats(BankstatsFiles, now - Walltimes[Len(listed) + 1]))
  /\ UNCHANGED <<now, calcfap_processes, combine_stats_processes>>

\* Every step is one of these.
LEMMA ListingSteps ==
  ASSUME [Next]_vars
  PROVE  \/ Passes
         \/ Lists
         \/ Tick
         \/ LaunchCalcfap
         \/ \E i \in Scales : CalcfapEnds(i)
         \/ Restart
<1>1. CASE \E b \in Banks : Dump(b)
  BY <1>1 DEF Dump, Passes, calcfapVars
<1>2. CASE \E p \in combine_stats_processes : CombineEnds(p)
  BY <1>2 DEF CombineEnds, Passes, calcfapVars
<1>3. CASE SkipCalcfap
  BY <1>3 DEF SkipCalcfap, Passes, calcfapVars
<1>4. CASE ListWalltime
  <2>1. /\ InCalcfap /\ ~IsCalcfapRunning /\ CanCleanup
        /\ Len(listed) + 1 \in Scales /\ now' = now
        /\ UNCHANGED calcfapVars
    BY <1>4, Zenon DEF ListWalltime
  <2>2. \/ pc' = "combine" /\ UNCHANGED listed
        \/ /\ files' = BankstatsFiles /\ files_being_combined' = {}
           /\ listed' = Append(listed, FilterBankstats(BankstatsFiles, now - Walltimes[Len(listed) + 1]))
           /\ UNCHANGED <<combine_stats_processes, pc>>
    BY <1>4, Zenon DEF ListWalltime
  <2>3. calcfap_processes' = calcfap_processes /\ pc = "calcfap"
    BY <2>1 DEF calcfapVars, InCalcfap
  <2>4. \A i \in Scales : ~Marginalising(i)
    BY <2>1, Zenon DEF IsCalcfapRunning, Marginalising
  <2>5. CASE pc' = "combine" /\ UNCHANGED listed
    BY <2>1, <2>3, <2>5 DEF Passes
  <2>6. CASE /\ files' = BankstatsFiles /\ files_being_combined' = {}
             /\ listed' = Append(listed, FilterBankstats(BankstatsFiles, now - Walltimes[Len(listed) + 1]))
             /\ UNCHANGED <<combine_stats_processes, pc>>
    BY <2>1, <2>3, <2>4, <2>6, Zenon DEF Lists
  <2> QED
    BY <2>2, <2>5, <2>6
<1>5. CASE DumpRaises
  BY <1>5 DEF DumpRaises, Passes, calcfapVars
<1>6. CASE AwaitProcesses
  BY <1>6 DEF AwaitProcesses, Passes, calcfapVars
<1>7. CASE RunCombineStats
  BY <1>7 DEF RunCombineStats, Passes, calcfapVars
<1>8. CASE UNCHANGED vars
  BY <1>8 DEF vars, Passes, calcfapVars
<1> QED
  BY <1>1, <1>2, <1>3, <1>4, <1>5, <1>6, <1>7, <1>8 DEF Next, Finished

\* A walltime's list is of what began inside it.
LEMMA ListingStep ==
  ASSUME Typed, Listing, [Next]_vars
  PROVE  Listing'
<1>1. /\ listed \in Seq(SUBSET File)
      /\ calcfap_processes = [i \in Scales |-> calcfap_processes[i]]
      /\ pc = "calcfap" => \A k \in 1..Len(listed) : Recent(listed[k], now, k)
      /\ \A i \in Scales : Marginalising(i) =>
           /\ calcfap_processes[i].inputs \in SUBSET File
           /\ calcfap_processes[i].at \in Nat
           /\ Recent(calcfap_processes[i].inputs, calcfap_processes[i].at, i)
  BY DEF Listing
<1>2. CASE Passes
  <2>1. /\ listed' = listed /\ calcfap_processes' = calcfap_processes /\ now' = now
        /\ (pc' = "calcfap" => pc = "calcfap")
    BY <1>2 DEF Passes
  <2> QED
    BY <1>1, <2>1 DEF Listing, Marginalising
<1>3. CASE Lists
  <2>1. /\ pc = "calcfap" /\ Len(listed) + 1 \in Scales
        /\ now' = now /\ calcfap_processes' = calcfap_processes
        /\ listed' = Append(listed, FilterBankstats(BankstatsFiles, now - Walltimes[Len(listed) + 1]))
    BY <1>3 DEF Lists
  <2> DEFINE new == FilterBankstats(BankstatsFiles, now - Walltimes[Len(listed) + 1])
  <2>2. new \in SUBSET File /\ Recent(new, now, Len(listed) + 1)
    BY DEF Typed, BankstatsFiles, FilterBankstats, Recent
  <2>3. listed' = Append(listed, new)
    BY <2>1
  <2> HIDE DEF new
  <2>4. listed' \in Seq(SUBSET File)
    BY <1>1, <2>2, <2>3
  <2>5. ASSUME NEW k \in 1..Len(listed') PROVE Recent(listed'[k], now, k)
    <3>1. Len(listed') = Len(listed) + 1 /\ Len(listed) \in Nat
      BY <1>1, <2>2, <2>3
    <3>2. CASE k = Len(listed) + 1
      <4>1. listed'[k] = new
        BY <1>1, <2>2, <2>3, <3>1, <3>2
      <4> QED
        BY <2>2, <3>2, <4>1
    <3>3. CASE k # Len(listed) + 1
      <4>1. k \in 1..Len(listed)
        BY <3>1, <3>3
      <4>2. listed'[k] = listed[k]
        BY <1>1, <2>2, <2>3, <3>1, <4>1
      <4> QED
        BY <1>1, <2>1, <4>1, <4>2
    <3> QED
      BY <3>2, <3>3
  <2> QED
    BY <1>1, <2>1, <2>4, <2>5 DEF Listing, Marginalising
<1>4. CASE Tick
  <2>1. listed' = <<>> /\ calcfap_processes' = calcfap_processes
    BY <1>4 DEF Tick, calcfapVars
  <2>2. Len(listed') = 0 /\ listed' \in Seq(SUBSET File)
    BY <2>1
  <2> QED
    BY <1>1, <2>1, <2>2 DEF Listing, Marginalising
<1>5. CASE LaunchCalcfap
  <2>1. /\ listed' = listed /\ pc' # "calcfap" /\ pc = "calcfap"
        /\ Len(listed) = Len(Walltimes)
        /\ calcfap_processes' =
             [i \in Scales |-> IF listed[i] = {} THEN None
                               ELSE [inputs |-> listed[i], at |-> now]]
    BY <1>5 DEF LaunchCalcfap, InCalcfap
  <2>2. ASSUME NEW i \in Scales, calcfap_processes'[i] # None
        PROVE  /\ calcfap_processes'[i].inputs \in SUBSET File
               /\ calcfap_processes'[i].at \in Nat
               /\ Recent(calcfap_processes'[i].inputs, calcfap_processes'[i].at, i)
    <3>1. calcfap_processes'[i] = [inputs |-> listed[i], at |-> now]
      BY <2>1, <2>2
    <3>2. calcfap_processes'[i].inputs = listed[i] /\ calcfap_processes'[i].at = now
      BY <3>1
    <3>3. i \in 1..Len(listed)
      BY <2>1, TimesAssumption DEF Scales
    <3>4. listed[i] \in SUBSET File /\ now \in Nat
      BY <1>1, <3>3 DEF Typed
    <3> QED
      BY <1>1, <2>1, <3>2, <3>3, <3>4
  <2>3. calcfap_processes' = [i \in Scales |-> calcfap_processes'[i]]
    BY <2>1
  <2> QED
    BY <1>1, <2>1, <2>2, <2>3 DEF Listing, Marginalising
<1>6. CASE \E i \in Scales : CalcfapEnds(i)
  <2>1. PICK i \in Scales : CalcfapEnds(i)
    BY <1>6
  <2>2. /\ listed' = listed /\ pc' = pc /\ now' = now
        /\ calcfap_processes' = [calcfap_processes EXCEPT ![i] = None]
    BY <2>1 DEF CalcfapEnds
  <2>3. \A j \in Scales : calcfap_processes'[j] # None =>
          calcfap_processes'[j] = calcfap_processes[j] /\ Marginalising(j)
    BY <1>1, <2>2 DEF Marginalising
  <2>4. calcfap_processes' = [j \in Scales |-> calcfap_processes'[j]]
    BY <1>1, <2>2
  <2> QED
    BY <1>1, <2>2, <2>3, <2>4 DEF Listing, Marginalising
<1>7. CASE Restart
  <2>1. /\ listed' = <<>> /\ calcfap_processes' = [i \in Scales |-> None]
    BY <1>7 DEF Restart
  <2>2. Len(listed') = 0 /\ listed' \in Seq(SUBSET File)
    BY <2>1
  <2> QED
    BY <2>1, <2>2 DEF Listing, Marginalising
<1> QED
  BY <1>2, <1>3, <1>4, <1>5, <1>6, <1>7, ListingSteps

\* At first nothing is listed and nothing runs.
LEMMA ListingInit ==
  ASSUME Init
  PROVE  Listing
<1>1. listed = <<>> /\ calcfap_processes = [i \in Scales |-> None]
  BY DEF Init
<1>2. Len(listed) = 0 /\ listed \in Seq(SUBSET File)
  BY <1>1
<1> QED
  BY <1>1, <1>2 DEF Listing, Marginalising

\* A marginalisation uses no background older than its walltime, whatever was
\* merged before, and after restarts as well: a merged file is named by its
\* first input and holds nothing older (WalltimeRespected).
THEOREM WalltimesRespected == Spec => []WalltimeRespected
<1>1. Init => Typed /\ Listing
  BY TypedInit, ListingInit
<1>2. Typed /\ Listing /\ [Next]_vars => Typed' /\ Listing'
  BY TypedStep, ListingStep
<1>3. Typed /\ Listing => WalltimeRespected
  <2> SUFFICES ASSUME Typed, Listing, NEW i \in Scales, calcfap_processes[i] # None,
                      NEW c \in ChunksOf(calcfap_processes[i].inputs)
               PROVE  c[2] > calcfap_processes[i].at - Walltimes[i]
    BY Zenon DEF WalltimeRespected
  <2> DEFINE at == calcfap_processes[i].at
             inputs == calcfap_processes[i].inputs
  <2>1. inputs \in SUBSET File /\ at \in Nat /\ Recent(inputs, at, i)
    BY DEF Listing, Marginalising
  <2>2. PICK f \in inputs : c \in {f.bank} \X f.chunks
    BY Zenon DEF ChunksOf
  <2>3. f \in File /\ f.start > at - Walltimes[i]
    BY <2>1 DEF Recent
  <2>4. c[2] \in f.chunks
    BY <2>2
  <2>5. c[2] \in Nat /\ f.start \in Nat /\ f.start <= c[2]
    BY <2>3, <2>4 DEF File
  <2>6. Walltimes[i] \in Nat
    BY TimesAssumption DEF Scales
  <2> HIDE DEF at, inputs
  <2>7. c[2] > at - Walltimes[i]
    BY <2>1, <2>3, <2>5, <2>6
  <2> QED
    BY <2>7 DEF at
<1> QED
  BY <1>1, <1>2, <1>3, PTL DEF Spec

-----------------------------------------------------------------------------
(* What is collected into the files, while the job is not restarted.       *)

\* What one file holds.
Holds(f) == {f.bank} \X f.chunks

\* Files hold what one of them holds.
LEMMA ChunksAre ==
  ASSUME NEW fs, NEW c
  PROVE  c \in ChunksOf(fs) <=> \E f \in fs : c \in Holds(f)
BY Zenon DEF ChunksOf, Holds

\* Disjoint files are pairwise so.
LEMMA DisjointIs ==
  ASSUME NEW fs
  PROVE  Disjoint(fs) <=> \A f, g \in fs : f = g \/ Holds(f) \intersect Holds(g) = {}
<1>1. \A f : ChunksOf({f}) = Holds(f)
  BY ChunksAre
<1> QED
  BY <1>1 DEF Disjoint

\* A file holds time units of its bank, the one it begins with among them.
LEMMA HoldsIs ==
  ASSUME NEW f \in File
  PROVE  /\ <<f.bank, f.start>> \in Holds(f)
         /\ \A c \in Holds(f) : /\ c = <<f.bank, c[2]>> /\ c[2] \in f.chunks
                                /\ c[2] \in Nat /\ f.bank \in Banks
<1>1. f.start \in f.chunks /\ f.chunks \in SUBSET Nat /\ f.bank \in Banks
  BY DEF File
<1> QED
  BY <1>1 DEF Holds

\* A merged file holds what its inputs hold.
LEMMA MergedHolds ==
  ASSUME NEW p, Merges(p), NEW c
  PROVE  c \in Holds(p.output) <=> c \in ChunksOf(p.inputs)
<1>1. /\ \A f \in p.inputs : f.bank = p.output.bank
      /\ p.output.chunks = UNION {f.chunks : f \in p.inputs}
  BY DEF Merges
<1>2. c \in Holds(p.output) <=> \E f \in p.inputs : c \in Holds(f)
  BY <1>1 DEF Holds
<1> QED
  BY <1>2, ChunksAre

\* What is not to be removed.
Kept == files \ files_being_combined

\* Every file has a name of its own, what is to be removed is there; no time
\* unit is in two files that stay, nor in two that go, nor in one that stays and
\* an input of a running merging.
Held ==
  /\ files_being_combined \subseteq files
  /\ \A f, g \in files : SameName(f, g) => f = g
  /\ \A f \in files : \A c \in f.chunks : c < dumped[f.bank]
  /\ Disjoint(Kept) /\ Disjoint(files_being_combined)
  /\ \A p \in Processes : /\ p.inputs \subseteq files_being_combined
                          /\ ChunksOf(p.inputs) \intersect ChunksOf(Kept) = {}
  /\ \A p, q \in Processes : p = q \/ p.inputs \intersect q.inputs = {}

\* Removing by name then leaves what is not to be removed.
LEMMA KeptIs ==
  ASSUME Held
  PROVE  BankstatsFiles = Kept
<1>1. ASSUME NEW f \in files PROVE Exists(f, files_being_combined) <=> f \in files_being_combined
  <2>1. SameName(f, f)
    BY DEF SameName
  <2>2. \A g \in files_being_combined : SameName(f, g) => f = g
    BY DEF Held
  <2> QED
    BY <2>1, <2>2 DEF Exists
<1> QED
  BY <1>1, Zenon DEF BankstatsFiles, Kept

\* No file has the name of what a running merging will write.
LEMMA OwnName ==
  ASSUME Typed, Held, NEW p \in Processes, NEW f \in files
  PROVE  ~SameName(f, p.output)
<1> SUFFICES ASSUME SameName(f, p.output) PROVE FALSE
  OBVIOUS
<1>1. Merges(p) /\ f \in File
  BY DEF Typed
<1>2. PICK g \in p.inputs : g.start = p.output.start
  BY <1>1 DEF Merges
<1>3. g \in File /\ g.bank = p.output.bank /\ g.dur < p.output.dur
  BY <1>1 DEF Merges
<1>4. f.bank = g.bank /\ f.start = g.start /\ f.dur = p.output.dur
  BY <1>2, <1>3 DEF SameName
<1>5. f # g
  <2>1. g.dur \in Nat
    BY <1>3 DEF File
  <2> QED
    BY <1>3, <1>4, <2>1
<1> DEFINE c == <<g.bank, g.start>>
<1>6. c \in Holds(f) /\ c \in Holds(g)
  BY <1>1, <1>3, <1>4, HoldsIs
<1> HIDE DEF c
<1>7. g \in files_being_combined /\ c \in ChunksOf(p.inputs)
  BY <1>2, <1>6, ChunksAre DEF Held
<1>8. CASE f \in files_being_combined
  BY <1>5, <1>6, <1>7, <1>8, DisjointIs DEF Held
<1>9. CASE f \notin files_being_combined
  <2>1. f \in Kept
    BY <1>9 DEF Kept
  <2>2. c \in ChunksOf(Kept)
    BY <1>6, <2>1, ChunksAre
  <2> QED
    BY <1>7, <2>2 DEF Held
<1> QED
  BY <1>8, <1>9

\* A merging that ends adds its output to the files, or fails and changes none.
LEMMA EndIs ==
  ASSUME Typed, Held, NEW p \in Processes, CombineEnds(p)
  PROVE  /\ Processes' = Processes \ {p}
         /\ files_being_combined' = files_being_combined /\ dumped' = dumped
         /\ \/ /\ files' = files \union {p.output} /\ p.output \notin files
               /\ \A f \in files : ~SameName(f, p.output) /\ ~SameName(p.output, f)
               /\ Kept' = Kept \union {p.output} /\ failed' = failed
            \/ files' = files /\ Kept' = Kept /\ failed' = failed \union p.inputs
<1>1. /\ Processes' = Processes \ {p}
      /\ files_being_combined' = files_being_combined /\ dumped' = dumped
  BY DEF CombineEnds, Processes
<1>2. \A f \in files : ~SameName(f, p.output)
  BY OwnName
<1>3. p.output \notin files /\ \A f \in files : ~SameName(p.output, f)
  BY <1>2 DEF SameName
<1>4. {f \in files : ~SameName(f, p.output)} = files
  BY <1>2
<1>5. \/ files' = files \union {p.output} /\ failed' = failed
      \/ files' = files /\ failed' = failed \union p.inputs
  BY <1>4 DEF CombineEnds
<1>6. files_being_combined \subseteq files
  BY DEF Held
<1> QED
  BY <1>1, <1>2, <1>3, <1>5, <1>6 DEF Kept

\* When the merged files may be removed no merging runs.
LEMMA CleanIs ==
  ASSUME CanCleanup
  PROVE  Processes = {}
BY DEF CanCleanup, IsCombineStatsRunning, Processes

\* Nothing comes to be in two files, with a merged file and its inputs side by
\* side.
LEMMA HeldStep ==
  ASSUME Typed, Held, [Next]_vars, ~MayRestart
  PROVE  Held'
<1>1. /\ files_being_combined \subseteq files
      /\ \A f, g \in files : SameName(f, g) => f = g
      /\ \A f \in files : \A c \in f.chunks : c < dumped[f.bank]
      /\ Disjoint(Kept) /\ Disjoint(files_being_combined)
      /\ \A p \in Processes : /\ p.inputs \subseteq files_being_combined
                              /\ ChunksOf(p.inputs) \intersect ChunksOf(Kept) = {}
      /\ \A p, q \in Processes : p = q \/ p.inputs \intersect q.inputs = {}
  BY DEF Held
<1>2. files \in SUBSET File /\ Kept \subseteq files /\ \A p \in Processes : Merges(p)
  BY DEF Typed, Kept
<1>3. CASE Quiet
  <2>1. /\ files' = files /\ files_being_combined' = files_being_combined
        /\ Processes' = Processes /\ dumped' = dumped /\ Kept' = Kept
    BY <1>3 DEF Quiet, Processes, Kept
  <2> QED
    BY <1>1, <2>1 DEF Held, ChunksOf, Disjoint
<1>4. CASE Cleans
  <2>1. /\ files' = Kept /\ files_being_combined' = {} /\ Kept' = Kept
        /\ Processes' = {} /\ dumped' = dumped
    BY <1>4, CleanIs, KeptIs DEF Cleans, Processes, Kept
  <2>2. Disjoint({})
    BY DisjointIs
  <2> QED
    BY <1>1, <1>2, <2>1, <2>2 DEF Held
<1>5. CASE Starts
  <2>1. /\ files' = Kept /\ files_being_combined' \subseteq Kept
        /\ files_being_combined' = UNION {p.inputs : p \in Processes'}
        /\ \A p, q \in Processes' : p = q \/ p.inputs \intersect q.inputs = {}
        /\ dumped' = dumped
    BY <1>5, KeptIs DEF Starts, Started
  <2>2. Kept' = Kept \ files_being_combined'
    BY <2>1 DEF Kept
  <2>3. \A f, g \in Kept : f = g \/ Holds(f) \intersect Holds(g) = {}
    BY <1>1, DisjointIs
  <2>4. Disjoint(Kept') /\ Disjoint(files_being_combined')
    <3>1. /\ \A f, g \in Kept' : f = g \/ Holds(f) \intersect Holds(g) = {}
          /\ \A f, g \in files_being_combined' : f = g \/ Holds(f) \intersect Holds(g) = {}
      BY <2>1, <2>2, <2>3
    <3> QED
      BY <3>1, DisjointIs
  <2>5. ASSUME NEW p \in Processes'
        PROVE  /\ p.inputs \subseteq files_being_combined'
               /\ ChunksOf(p.inputs) \intersect ChunksOf(Kept') = {}
    <3>1. p.inputs \subseteq files_being_combined'
      BY <2>1
    <3>2. ASSUME NEW c \in ChunksOf(p.inputs), c \in ChunksOf(Kept') PROVE FALSE
      <4>1. PICK f \in p.inputs : c \in Holds(f)
        BY <3>2, ChunksAre
      <4>2. PICK g \in Kept' : c \in Holds(g)
        BY <3>2, ChunksAre
      <4> QED
        BY <2>1, <2>2, <2>3, <3>1, <4>1, <4>2
    <3> QED
      BY <3>1, <3>2
  <2> QED
    BY <1>1, <1>2, <2>1, <2>4, <2>5 DEF Held
<1>6. CASE \E b \in Banks : Dump(b)
  <2>1. PICK b \in Banks : Dump(b)
    BY <1>6
  <2>2. PICK f \in File : /\ f.bank = b /\ f.chunks = {dumped[b]}
                          /\ files' = files \union {f}
    BY <2>1, DumpIs
  <2>3. /\ files_being_combined' = files_being_combined /\ Processes' = Processes
    BY <2>1 DEF Dump, Processes
  <2>4. /\ dumped[b] \in Nat /\ dumped'[b] = dumped[b] + 1
        /\ \A c \in Banks : c # b => dumped'[c] = dumped[c]
    BY <2>1, DumpIs
  <2>5. ASSUME NEW g \in files PROVE Holds(f) \intersect Holds(g) = {} /\ f # g
    <3>1. <<b, dumped[b]>> \notin Holds(g)
      <4>1. dumped[b] \in g.chunks => dumped[b] < dumped[g.bank]
        BY <1>1
      <4> QED
        BY <2>4, <4>1 DEF Holds
    <3>2. /\ \A c \in Holds(f) : c = <<b, dumped[b]>>
          /\ <<b, dumped[b]>> \in Holds(f)
      BY <2>2 DEF Holds
    <3> QED
      BY <3>1, <3>2
  <2>6. Kept' = Kept \union {f}
    BY <1>1, <2>2, <2>3, <2>5 DEF Kept
  <2>7. Disjoint(Kept')
    <3>1. \A g, h \in Kept' : g = h \/ Holds(g) \intersect Holds(h) = {}
      BY <1>1, <1>2, <2>5, <2>6, DisjointIs
    <3> QED
      BY <3>1, DisjointIs
  <2>8. ASSUME NEW g \in files', NEW c \in g.chunks PROVE c < dumped'[g.bank]
    <3>1. CASE g = f
      BY <2>2, <2>4, <2>8, <3>1
    <3>2. CASE g \in files
      <4>1. g.bank \in Banks /\ c \in Nat /\ c < dumped[g.bank]
        BY <1>1, <1>2, <2>8, <3>2 DEF File
      <4>2. dumped \in [Banks -> Nat]
        BY DEF Typed
      <4>3. dumped[g.bank] \in Nat /\ dumped[g.bank] <= dumped'[g.bank]
        BY <2>4, <4>1, <4>2
      <4>4. dumped'[g.bank] \in Nat
        BY <2>4, <4>1, <4>2, <4>3
      <4> QED
        BY <4>1, <4>3, <4>4
    <3> QED
      BY <2>2, <3>1, <3>2
  <2>9. ASSUME NEW p \in Processes
        PROVE  ChunksOf(p.inputs) \intersect ChunksOf(Kept') = {}
    <3>1. ASSUME NEW c \in ChunksOf(p.inputs), c \in ChunksOf(Kept') PROVE FALSE
      <4>1. PICK g \in p.inputs : c \in Holds(g)
        BY <3>1, ChunksAre
      <4>2. PICK h \in Kept' : c \in Holds(h)
        BY <3>1, ChunksAre
      <4>3. g \in files
        BY <1>1
      <4>4. h \in Kept
        BY <2>5, <2>6, <4>1, <4>2, <4>3
      <4>5. c \in ChunksOf(Kept)
        BY <4>2, <4>4, ChunksAre
      <4> QED
        BY <1>1, <3>1, <4>5
    <3> QED
      BY <3>1
  <2>10. files_being_combined' \subseteq files'
    BY <1>1, <2>2, <2>3
  <2>11. ASSUME NEW g \in files', NEW h \in files', SameName(g, h) PROVE g = h
    <3>1. ASSUME NEW k \in files PROVE ~SameName(f, k) /\ ~SameName(k, f)
      <4>1. <<f.bank, f.start>> \in Holds(f) /\ <<k.bank, k.start>> \in Holds(k)
        BY <1>2, HoldsIs
      <4>2. <<f.bank, f.start>> # <<k.bank, k.start>>
        BY <2>5, <4>1
      <4> QED
        BY <4>2 DEF SameName
    <3> QED
      BY <1>1, <2>2, <2>11, <3>1
  <2> QED
    BY <1>1, <2>3, <2>7, <2>8, <2>9, <2>10, <2>11 DEF Held
<1>7. CASE \E p \in Processes : CombineEnds(p)
  <2>1. PICK p \in Processes : CombineEnds(p)
    BY <1>7
  <2>2. /\ Processes' = Processes \ {p}
        /\ files_being_combined' = files_being_combined /\ dumped' = dumped
    BY <2>1, EndIs
  <2>3. CASE files' = files /\ Kept' = Kept
    BY <1>1, <2>2, <2>3 DEF Held
  <2>4. CASE /\ files' = files \union {p.output} /\ p.output \notin files
             /\ \A f \in files : ~SameName(f, p.output) /\ ~SameName(p.output, f)
             /\ Kept' = Kept \union {p.output}
    <3>1. Merges(p) /\ p.inputs \subseteq files_being_combined /\ p.inputs \subseteq files
      BY <1>1, <1>2
    <3>2. \A c : c \in Holds(p.output) <=> c \in ChunksOf(p.inputs)
      BY <3>1, MergedHolds
    <3>3. ASSUME NEW g \in Kept PROVE Holds(p.output) \intersect Holds(g) = {}
      <4>1. \A c \in Holds(g) : c \in ChunksOf(Kept)
        BY ChunksAre
      <4> QED
        BY <1>1, <3>2, <4>1
    <3>4. Disjoint(Kept')
      <4>1. \A g, h \in Kept' : g = h \/ Holds(g) \intersect Holds(h) = {}
        BY <1>1, <2>4, <3>3, DisjointIs
      <4> QED
        BY <4>1, DisjointIs
    <3>5. ASSUME NEW c \in p.output.chunks PROVE c < dumped[p.output.bank]
      <4>1. PICK f \in p.inputs : c \in f.chunks
        BY <3>1, <3>5 DEF Merges
      <4>2. f.bank = p.output.bank
        BY <3>1 DEF Merges
      <4>3. f \in files
        BY <3>1
      <4>4. c < dumped[f.bank]
        BY <1>1, <4>1, <4>3
      <4> QED
        BY <4>2, <4>4
    <3>6. ASSUME NEW q \in Processes'
          PROVE  ChunksOf(q.inputs) \intersect ChunksOf(Kept') = {}
      <4>1. q \in Processes /\ p.inputs \intersect q.inputs = {}
            /\ q.inputs \subseteq files_being_combined
        BY <1>1, <2>2
      <4>2. ASSUME NEW c \in ChunksOf(q.inputs), c \in ChunksOf(Kept') PROVE FALSE
        <5>1. PICK f \in q.inputs : c \in Holds(f)
          BY <4>2, ChunksAre
        <5>2. PICK g \in Kept' : c \in Holds(g)
          BY <4>2, ChunksAre
        <5>3. CASE g \in Kept
          <6>1. c \in ChunksOf(Kept)
            BY <5>2, <5>3, ChunksAre
          <6> QED
            BY <1>1, <4>1, <4>2, <6>1
        <5>4. CASE g = p.output
          <6>1. c \in ChunksOf(p.inputs)
            BY <3>2, <5>2, <5>4
          <6>2. PICK h \in p.inputs : c \in Holds(h)
            BY <6>1, ChunksAre
          <6>3. f # h /\ f \in files_being_combined /\ h \in files_being_combined
            BY <3>1, <4>1, <5>1, <6>2
          <6> QED
            BY <1>1, <5>1, <6>2, <6>3, DisjointIs
        <5> QED
          BY <2>4, <5>3, <5>4
      <4> QED
        BY <4>2
    <3>7. files_being_combined' \subseteq files'
      BY <1>1, <2>2, <2>4
    <3>8. \A g \in files' : \A c \in g.chunks : c < dumped[g.bank]
      BY <1>1, <2>4, <3>5
    <3>9. \A g, h \in files' : SameName(g, h) => g = h
      BY <1>1, <2>4
    <3> QED
      BY <1>1, <2>2, <3>4, <3>6, <3>7, <3>8, <3>9 DEF Held
  <2> QED
    BY <2>1, <2>3, <2>4, EndIs
<1>8. ~Restart
  BY DEF Restart
<1> QED
  BY <1>3, <1>4, <1>5, <1>6, <1>7, <1>8, DiskStep

\* At first there is nothing to hold apart.
LEMMA HeldInit ==
  ASSUME Init
  PROVE  Held
<1>1. files = {} /\ files_being_combined = {} /\ Processes = {} /\ Kept = {}
  BY DEF Init, Processes, Kept
<1>2. Disjoint({})
  BY DisjointIs
<1> QED
  BY <1>1, <1>2 DEF Held

\* A time unit is in a file that stays, in an input of a running merging or in
\* one of a merging that failed.
Found(c) ==
  \/ c \in ChunksOf(Kept)
  \/ c \in ChunksOf(failed)
  \/ \E p \in Processes : c \in ChunksOf(p.inputs)

Covered == \A b \in Banks : \A t \in 0..(dumped[b] - 1) : Found(<<b, t>>)

\* What was in one of these places is in one of them afterwards.
LEMMA FoundStep ==
  ASSUME Typed, Held, [Next]_vars, ~MayRestart, NEW c, Found(c)
  PROVE  \/ c \in ChunksOf(Kept')
         \/ c \in ChunksOf(failed')
         \/ \E p \in Processes' : c \in ChunksOf(p.inputs)
<1>1. CASE Quiet
  <2>1. Kept' = Kept /\ Processes' = Processes /\ failed' = failed
    BY <1>1 DEF Quiet, Processes, Kept
  <2> QED
    BY <2>1 DEF Found
<1>2. CASE Cleans
  <2>1. Kept' = Kept /\ Processes' = Processes /\ failed' = failed
    BY <1>2, KeptIs DEF Cleans, Processes, Kept
  <2> QED
    BY <2>1 DEF Found
<1>3. CASE Starts
  <2>1. /\ files' = Kept
        /\ files_being_combined' = UNION {p.inputs : p \in Processes'}
        /\ failed' = failed
    BY <1>3, KeptIs DEF Starts, Started
  <2>2. Kept' = Kept \ files_being_combined'
    BY <2>1 DEF Kept
  <2>3. Processes = {}
    BY <1>3, CleanIs DEF Starts
  <2>4. CASE c \in ChunksOf(failed)
    BY <2>1, <2>4
  <2>5. CASE c \in ChunksOf(Kept)
    <3>1. PICK f \in Kept : c \in Holds(f)
      BY <2>5, ChunksAre
    <3>2. CASE f \in files_being_combined'
      <4>1. PICK p \in Processes' : f \in p.inputs
        BY <2>1, <3>2
      <4>2. c \in ChunksOf(p.inputs)
        BY <3>1, <4>1, ChunksAre
      <4> QED
        BY <4>2
    <3>3. CASE f \notin files_being_combined'
      <4>1. f \in Kept'
        BY <2>2, <3>3
      <4>2. c \in ChunksOf(Kept')
        BY <3>1, <4>1, ChunksAre
      <4> QED
        BY <4>2
    <3> QED
      BY <3>2, <3>3
  <2> QED
    BY <2>3, <2>4, <2>5 DEF Found
<1>4. CASE \E b \in Banks : Dump(b)
  <2>1. PICK b \in Banks : Dump(b)
    BY <1>4
  <2>2. PICK f \in File : files' = files \union {f} /\ f.bank = b /\ f.chunks = {dumped[b]}
    BY <2>1, DumpIs
  <2>3. /\ files_being_combined' = files_being_combined
        /\ Processes' = Processes /\ failed' = failed
    BY <2>1 DEF Dump, Processes
  <2>4. Kept \subseteq Kept'
    BY <2>2, <2>3 DEF Kept
  <2>5. c \in ChunksOf(Kept) => c \in ChunksOf(Kept')
    BY <2>4, ChunksAre
  <2> QED
    BY <2>3, <2>5 DEF Found
<1>5. CASE \E p \in Processes : CombineEnds(p)
  <2>1. PICK p \in Processes : CombineEnds(p)
    BY <1>5
  <2>2. Processes' = Processes \ {p}
    BY <2>1, EndIs
  <2>3. CASE Kept' = Kept /\ failed' = failed \union p.inputs
    <3>1. c \in ChunksOf(p.inputs) \/ c \in ChunksOf(failed) => c \in ChunksOf(failed')
      BY <2>3, ChunksAre
    <3> QED
      BY <2>2, <2>3, <3>1 DEF Found
  <2>4. CASE Kept' = Kept \union {p.output} /\ failed' = failed
    <3>1. c \in ChunksOf(Kept) => c \in ChunksOf(Kept')
      BY <2>4, ChunksAre
    <3>2. c \in ChunksOf(p.inputs) => c \in ChunksOf(Kept')
      <4>1. c \in ChunksOf(p.inputs) => c \in Holds(p.output)
        BY MergedHolds DEF Typed
      <4> QED
        BY <2>4, <4>1, ChunksAre
    <3> QED
      BY <2>2, <2>4, <3>1, <3>2 DEF Found
  <2> QED
    BY <2>1, <2>3, <2>4, EndIs
<1>6. ~Restart
  BY DEF Restart
<1> QED
  BY <1>1, <1>2, <1>3, <1>4, <1>5, <1>6, DiskStep

\* What has been dumped stays in these places.
LEMMA CoveredStep ==
  ASSUME Typed, Held, Covered, [Next]_vars, ~MayRestart
  PROVE  Covered'
<1> SUFFICES ASSUME NEW b \in Banks, NEW t \in 0..(dumped'[b] - 1)
             PROVE  Found(<<b, t>>)'
  BY DEF Covered
<1> DEFINE c == <<b, t>>
<1>1. ASSUME Found(c) PROVE Found(c)'
  BY <1>1, FoundStep DEF Found
<1>2. t \in 0..(dumped[b] - 1) => Found(c)
  BY DEF Covered
<1>3. CASE dumped' = dumped
  BY <1>1, <1>2, <1>3
<1>4. CASE \E d \in Banks : Dump(d)
  <2>1. PICK d \in Banks : Dump(d)
    BY <1>4
  <2>2. /\ dumped[d] \in Nat /\ dumped'[d] = dumped[d] + 1
        /\ \A e \in Banks : e # d => dumped'[e] = dumped[e]
    BY <2>1, DumpIs
  <2>3. CASE b # d \/ t # dumped[d]
    <3>1. t \in 0..(dumped[b] - 1)
      BY <2>2, <2>3
    <3> QED
      BY <1>1, <1>2, <3>1
  <2>4. CASE b = d /\ t = dumped[d]
    <3>1. PICK f \in File : /\ f.bank = d /\ f.chunks = {dumped[d]}
                            /\ files' = files \union {f}
      BY <2>1, DumpIs
    <3>2. files_being_combined' = files_being_combined
      BY <2>1 DEF Dump
    <3>3. c \in Holds(f)
      BY <2>4, <3>1 DEF Holds
    <3>4. f \notin files_being_combined
      <4>1. ASSUME f \in files PROVE FALSE
        <5>1. dumped[d] < dumped[d]
          BY <3>1, <4>1 DEF Held
        <5> QED
          BY <2>2, <5>1
      <4> QED
        BY <4>1 DEF Held
    <3>5. f \in Kept'
      BY <3>1, <3>2, <3>4 DEF Kept
    <3>6. c \in ChunksOf(Kept')
      BY <3>3, <3>5, ChunksAre
    <3>7. c \in ChunksOf(Kept)'
      BY <3>6 DEF ChunksOf
    <3> QED
      BY <3>7 DEF Found
  <2> QED
    BY <2>3, <2>4
<1>5. \/ dumped' = dumped
      \/ \E d \in Banks : Dump(d)
  <2>1. \A p \in Processes : CombineEnds(p) => dumped' = dumped
    BY DEF CombineEnds
  <2>2. Restart => dumped' = dumped
    BY DEF Restart
  <2> QED
    BY <2>1, <2>2, DiskStep DEF Quiet, Cleans, Starts
<1> QED
  BY <1>3, <1>4, <1>5

\* Without restarts, no background that was dumped vanishes from the directory,
\* through merging and the removal of the merged files, unless the merging
\* itself failed (BackgroundKept).
THEOREM BackgroundStays == ~MayRestart => (Spec => []BackgroundKept)
<1> SUFFICES ASSUME ~MayRestart PROVE Spec => []BackgroundKept
  OBVIOUS
<1>1. Init => Typed /\ Held /\ Covered
  <2> SUFFICES ASSUME Init PROVE Typed /\ Held /\ Covered
    OBVIOUS
  <2>1. \A b \in Banks : dumped[b] = 0
    BY DEF Init
  <2>2. Covered
    BY <2>1 DEF Covered
  <2> QED
    BY <2>2, TypedInit, HeldInit
<1>2. Typed /\ Held /\ Covered /\ [Next]_vars => Typed' /\ Held' /\ Covered'
  BY TypedStep, HeldStep, CoveredStep
<1>3. Typed /\ Held /\ Covered => BackgroundKept
  <2> SUFFICES ASSUME Typed, Held, Covered, NEW b \in Banks, NEW t \in 0..(dumped[b] - 1)
               PROVE  <<b, t>> \in ChunksOf(files) \union ChunksOf(failed)
    BY DEF BackgroundKept
  <2> DEFINE c == <<b, t>>
  <2>1. Found(c)
    BY DEF Covered
  <2> HIDE DEF c
  <2>2. c \in ChunksOf(Kept) => c \in ChunksOf(files)
    <3>1. Kept \subseteq files
      BY DEF Kept
    <3> QED
      BY <3>1, ChunksAre
  <2>3. ASSUME NEW p \in Processes, c \in ChunksOf(p.inputs) PROVE c \in ChunksOf(files)
    <3>1. p.inputs \subseteq files
      BY DEF Held
    <3> QED
      BY <2>3, <3>1, ChunksAre
  <2>4. c \in ChunksOf(files) \union ChunksOf(failed)
    BY <2>1, <2>2, <2>3 DEF Found
  <2> QED
    BY <2>4 DEF c
<1> QED
  BY <1>1, <1>2, <1>3, PTL DEF Spec

\* What is to be removed has a file of its name, at whatever listing it is removed
\* and after restarts as well: os.remove never raises (CleanupNeverFails).
THEOREM RemovalsSucceed == Spec => []CleanupNeverFails
<1> DEFINE There == \A f \in files_being_combined : Exists(f, files)
<1>1. Init => Typed /\ There
  BY TypedInit DEF Init
<1>2. Typed /\ There /\ [Next]_vars => There'
  <2> SUFFICES ASSUME Typed, There, [Next]_vars PROVE There'
    OBVIOUS
  <2>0. \A f : SameName(f, f)
    BY DEF SameName
  <2>1. CASE Quiet
    BY <2>1 DEF Quiet, Exists
  <2>2. CASE Cleans
    BY <2>2 DEF Cleans
  <2>3. CASE Starts
    <3>1. files_being_combined' \subseteq files'
      BY <2>3 DEF Starts, Started
    <3> QED
      BY <2>0, <3>1 DEF Exists
  <2>4. CASE \E b \in Banks : Dump(b)
    <3>1. files \subseteq files' /\ files_being_combined' = files_being_combined
      BY <2>4 DEF Dump
    <3> QED
      BY <3>1 DEF Exists
  <2>5. CASE \E p \in Processes : CombineEnds(p)
    <3>1. PICK p \in Processes : CombineEnds(p)
      BY <2>5
    <3>2. /\ files_being_combined' = files_being_combined
          /\ \/ files' = files
             \/ files' = {f \in files : ~SameName(f, p.output)} \union {p.output}
      BY <3>1 DEF CombineEnds
    <3>3. ASSUME NEW f \in files_being_combined PROVE Exists(f, files')
      <4>1. PICK g \in files : SameName(f, g)
        BY DEF Exists
      <4>2. SameName(g, p.output) => SameName(f, p.output)
        BY <4>1 DEF SameName
      <4> QED
        BY <3>2, <4>1, <4>2 DEF Exists
    <3> QED
      BY <3>2, <3>3 DEF Exists
  <2>6. CASE Restart
    BY <2>6 DEF Restart
  <2> QED
    BY <2>1, <2>2, <2>3, <2>4, <2>5, <2>6, DiskStep
<1>3. There => CleanupNeverFails
  BY DEF CleanupNeverFails
<1>4. Typed /\ [Next]_vars => Typed'
  BY TypedStep
<1> QED
  BY <1>1, <1>2, <1>3, <1>4, PTL DEF Spec

-----------------------------------------------------------------------------
(* What is counted and read.                                               *)

\* While the walltimes are listed nothing is merged and nothing is to be removed,
\* so that the lists are of disjoint files that are there.  A marginalisation
\* finds its inputs there, or it has run until the next merging was due: what
\* was merged since it started is not removed before that.
Reading ==
  /\ output = [i \in Scales |-> output[i]]
  /\ pc = "calcfap" /\ listed # <<>> => files_being_combined = {} /\ Processes = {}
  /\ \A k \in 1..Len(listed) :
       Disjoint(listed[k]) /\ (pc = "calcfap" => listed[k] \subseteq files)
  /\ \A i \in Scales : Marginalising(i) =>
       /\ calcfap_processes[i].at <= now
       /\ Disjoint(calcfap_processes[i].inputs)
       /\ \/ calcfap_processes[i].inputs \subseteq files
          \/ now - calcfap_processes[i].at >= CombineInterval
       /\ \/ files_being_combined = {}
          \/ last_combine_stats_time >= calcfap_processes[i].at
  /\ ReadsIntact

\* Files come, mergings end, nothing is listed or started.
Grows ==
  /\ Passes
  /\ output' = output /\ last_combine_stats_time' = last_combine_stats_time
  /\ files \subseteq files' /\ files_being_combined' = files_being_combined
  /\ Processes' \subseteq Processes

\* Mergings start when nothing is being marginalised, or when they are due.
StartsWhenDue ==
  /\ Starts
  /\ UNCHANGED <<listed, calcfap_processes, output, now>>
  /\ pc' # "calcfap"
  /\ \/ \A i \in Scales : ~Marginalising(i)
     \/ /\ now - last_combine_stats_time >= CombineInterval
        /\ last_combine_stats_time' = now

\* Every step but a restart is one of these.
LEMMA ReadingSteps ==
  ASSUME Typed, Held, [Next]_vars, ~MayRestart
  PROVE  \/ Grows
         \/ StartsWhenDue
         \/ Lists /\ output' = output
         \/ Tick
         \/ LaunchCalcfap
         \/ \E i \in Scales : CalcfapEnds(i)
<1>1. CASE \E b \in Banks : Dump(b)
  <2>1. PICK b \in Banks : Dump(b)
    BY <1>1
  <2>2. files \subseteq files'
    BY <2>1 DEF Dump
  <2> QED
    BY <2>1, <2>2 DEF Dump, Grows, Passes, calcfapVars, schedule, Processes
<1>2. CASE \E p \in combine_stats_processes : CombineEnds(p)
  <2>1. PICK p \in Processes : CombineEnds(p)
    BY <1>2 DEF Processes
  <2>2. files \subseteq files' /\ Processes' \subseteq Processes
    BY <2>1, EndIs
  <2> QED
    BY <2>1, <2>2 DEF CombineEnds, Grows, Passes, calcfapVars, schedule
<1>3. CASE SkipCalcfap
  BY <1>3 DEF SkipCalcfap, Grows, Passes, calcfapVars, schedule, disk, Processes
<1>4. CASE ListWalltime
  <2>1. /\ InCalcfap /\ ~IsCalcfapRunning /\ CanCleanup
        /\ Len(listed) + 1 \in Scales /\ now' = now
        /\ UNCHANGED <<calcfapVars, dumped, failed, schedule>>
    BY <1>4, Zenon DEF ListWalltime
  <2>2. \/ StartCombine /\ pc' = "combine" /\ UNCHANGED listed
        \/ /\ files' = BankstatsFiles /\ files_being_combined' = {}
           /\ listed' = Append(listed, FilterBankstats(BankstatsFiles, now - Walltimes[Len(listed) + 1]))
           /\ UNCHANGED <<combine_stats_processes, pc>>
    BY <1>4, Zenon DEF ListWalltime
  <2>3. /\ calcfap_processes' = calcfap_processes /\ output' = output /\ pc = "calcfap"
        /\ last_combine_stats_time' = last_combine_stats_time
    BY <2>1 DEF calcfapVars, InCalcfap, schedule
  <2>4. \A i \in Scales : ~Marginalising(i)
    BY <2>1, Zenon DEF IsCalcfapRunning, Marginalising
  <2>5. CASE StartCombine /\ pc' = "combine" /\ UNCHANGED listed
    <3>1. Starts
      BY <2>1, <2>3, <2>5, StartIs DEF Starts
    <3> QED
      BY <2>1, <2>3, <2>4, <2>5, <3>1 DEF StartsWhenDue
  <2>6. CASE /\ files' = BankstatsFiles /\ files_being_combined' = {}
             /\ listed' = Append(listed, FilterBankstats(BankstatsFiles, now - Walltimes[Len(listed) + 1]))
             /\ UNCHANGED <<combine_stats_processes, pc>>
    BY <2>1, <2>3, <2>4, <2>6, Zenon DEF Lists
  <2> QED
    BY <2>2, <2>5, <2>6
<1>5. CASE DumpRaises
  BY <1>5 DEF DumpRaises, Grows, Passes, calcfapVars, schedule, disk, Processes
<1>6. CASE AwaitProcesses
  BY <1>6 DEF AwaitProcesses, Grows, Passes, calcfapVars, schedule, disk, Processes
<1>7. CASE RunCombineStats
  <2>1. /\ pc' # "calcfap"
        /\ UNCHANGED <<now, listed, calcfapVars, dumped, failed>>
    BY <1>7 DEF RunCombineStats
  <2>2. \/ /\ now - last_combine_stats_time >= CombineInterval /\ CanCleanup
           /\ StartCombine /\ last_combine_stats_time' = now
        \/ UNCHANGED <<disk, combine_stats_processes, last_combine_stats_time>>
    BY <1>7, Zenon DEF RunCombineStats
  <2>3. StartCombine => Started
    BY StartIs
  <2> QED
    BY <2>1, <2>2, <2>3
       DEF Starts, StartsWhenDue, Grows, Passes, calcfapVars, disk, Processes
<1>8. CASE UNCHANGED vars
  BY <1>8 DEF vars, Grows, Passes, calcfapVars, schedule, disk, Processes
<1>9. ~Restart
  BY DEF Restart
<1> QED
  BY <1>1, <1>2, <1>3, <1>4, <1>5, <1>6, <1>7, <1>8, <1>9 DEF Next, Finished

\* The inputs of a subprocess stay until the next merging is due.
LEMMA ReadingStep ==
  ASSUME Typed, Held, Listing, Reading, [Next]_vars, ~MayRestart
  PROVE  Reading'
<1>1. /\ output = [i \in Scales |-> output[i]]
      /\ pc = "calcfap" /\ listed # <<>> => files_being_combined = {} /\ Processes = {}
      /\ \A k \in 1..Len(listed) :
           Disjoint(listed[k]) /\ (pc = "calcfap" => listed[k] \subseteq files)
      /\ \A i \in Scales : Marginalising(i) =>
           /\ calcfap_processes[i].at <= now
           /\ Disjoint(calcfap_processes[i].inputs)
           /\ \/ calcfap_processes[i].inputs \subseteq files
              \/ now - calcfap_processes[i].at >= CombineInterval
           /\ \/ files_being_combined = {}
              \/ last_combine_stats_time >= calcfap_processes[i].at
      /\ \A i \in Scales : output[i] # None =>
           \/ output[i].missing = {}
           \/ output[i].ended - output[i].at >= CombineInterval
  BY DEF Reading, ReadsIntact
<1>2. /\ listed \in Seq(SUBSET File)
      /\ calcfap_processes = [i \in Scales |-> calcfap_processes[i]]
      /\ \A i \in Scales : Marginalising(i) => calcfap_processes[i].at \in Nat
  BY DEF Listing
<1>3. now \in Nat /\ last_combine_stats_time \in Nat /\ CombineInterval \in Nat
  BY TimesAssumption DEF Typed
<1>4. CASE Grows
  <2>1. /\ listed' = listed /\ calcfap_processes' = calcfap_processes /\ now' = now
        /\ (pc' = "calcfap" => pc = "calcfap") /\ output' = output
        /\ last_combine_stats_time' = last_combine_stats_time
        /\ files \subseteq files' /\ files_being_combined' = files_being_combined
        /\ Processes' \subseteq Processes
    BY <1>4 DEF Grows, Passes
  <2>2. \A k \in 1..Len(listed) : pc' = "calcfap" => listed[k] \subseteq files'
    BY <1>1, <2>1
  <2>3. \A i \in Scales : calcfap_processes[i].inputs \subseteq files =>
          calcfap_processes[i].inputs \subseteq files'
    BY <2>1
  <2>4. pc' = "calcfap" /\ listed # <<>> => Processes' = {}
    BY <1>1, <2>1
  <2> QED
    BY <1>1, <2>1, <2>2, <2>3, <2>4 DEF Reading, ReadsIntact, Marginalising, Disjoint, ChunksOf
<1>5. CASE StartsWhenDue
  <2>1. /\ listed' = listed /\ calcfap_processes' = calcfap_processes /\ now' = now
        /\ pc' # "calcfap" /\ output' = output
    BY <1>5 DEF StartsWhenDue
  <2>2. files' = Kept
    BY <1>5, KeptIs DEF StartsWhenDue, Starts, Started
  <2>3. ASSUME NEW i \in Scales, Marginalising(i)
        PROVE  /\ \/ calcfap_processes[i].inputs \subseteq files'
                  \/ now - calcfap_processes[i].at >= CombineInterval
               /\ last_combine_stats_time' >= calcfap_processes[i].at
    <3> DEFINE at == calcfap_processes[i].at
               inputs == calcfap_processes[i].inputs
    <3>1. /\ now - last_combine_stats_time >= CombineInterval
          /\ last_combine_stats_time' = now
      BY <1>5, <2>3 DEF StartsWhenDue
    <3>2. /\ at \in Nat /\ at <= now
          /\ inputs \subseteq files \/ now - at >= CombineInterval
          /\ files_being_combined = {} \/ last_combine_stats_time >= at
      BY <1>1, <1>2, <2>3
    <3> HIDE DEF at, inputs
    <3>3. CASE files_being_combined = {}
      <4>1. files' = files
        BY <2>2, <3>3 DEF Kept
      <4>2. (inputs \subseteq files' \/ now - at >= CombineInterval) /\ now >= at
        BY <1>3, <3>2, <4>1
      <4> QED
        BY <3>1, <4>2 DEF at, inputs
    <3>4. CASE last_combine_stats_time >= at
      <4>1. now - at >= CombineInterval /\ now >= at
        BY <1>3, <3>1, <3>2, <3>4
      <4> QED
        BY <3>1, <4>1 DEF at
    <3> QED
      BY <3>2, <3>3, <3>4
  <2> QED
    BY <1>1, <2>1, <2>3 DEF Reading, ReadsIntact, Marginalising, Disjoint, ChunksOf
<1>6. CASE Lists /\ output' = output
  <2> DEFINE new == FilterBankstats(BankstatsFiles, now - Walltimes[Len(listed) + 1])
  <2>1. /\ pc = "calcfap" /\ now' = now /\ calcfap_processes' = calcfap_processes
        /\ \A i \in Scales : ~Marginalising(i)
        /\ CanCleanup /\ Processes' = Processes
        /\ files' = Kept /\ files_being_combined' = {}
        /\ listed' = Append(listed, new)
    BY <1>6, KeptIs DEF Lists, Processes
  <2>2. Processes' = {}
    BY <2>1, CleanIs
  <2>3. new \subseteq Kept /\ new \in SUBSET File
    BY KeptIs DEF Kept, Typed, FilterBankstats
  <2>4. Disjoint(new)
    BY <2>3, DisjointIs DEF Held
  <2> HIDE DEF new
  <2>5. ASSUME NEW k \in 1..Len(listed')
        PROVE  Disjoint(listed'[k]) /\ listed'[k] \subseteq files'
    <3>1. Len(listed') = Len(listed) + 1 /\ Len(listed) \in Nat
      BY <1>2, <2>1, <2>3
    <3>2. CASE k = Len(listed) + 1
      <4>1. listed'[k] = new
        BY <1>2, <2>1, <2>3, <3>1, <3>2
      <4> QED
        BY <2>1, <2>3, <2>4, <4>1
    <3>3. CASE k # Len(listed) + 1
      <4>1. k \in 1..Len(listed)
        BY <3>1, <3>3
      <4>2. listed'[k] = listed[k]
        BY <1>2, <2>1, <2>3, <3>1, <4>1
      <4>3. listed # <<>>
        BY <4>1
      <4>4. Kept = files
        BY <1>1, <2>1, <4>3 DEF Kept
      <4> QED
        BY <1>1, <2>1, <4>1, <4>2, <4>4
    <3> QED
      BY <3>2, <3>3
  <2> QED
    BY <1>1, <1>6, <2>1, <2>2, <2>5 DEF Reading, ReadsIntact, Marginalising, Disjoint, ChunksOf
<1>7. CASE Tick
  <2>1. /\ listed' = <<>> /\ calcfap_processes' = calcfap_processes /\ now' = now + 1
        /\ output' = output /\ last_combine_stats_time' = last_combine_stats_time
        /\ files' = files /\ files_being_combined' = files_being_combined
    BY <1>7 DEF Tick, calcfapVars, schedule, disk
  <2>2. Len(listed') = 0
    BY <2>1
  <2>3. ASSUME NEW i \in Scales, Marginalising(i)
        PROVE  /\ calcfap_processes[i].at <= now'
               /\ \/ calcfap_processes[i].inputs \subseteq files
                  \/ now' - calcfap_processes[i].at >= CombineInterval
    <3> DEFINE at == calcfap_processes[i].at
               inputs == calcfap_processes[i].inputs
    <3>1. /\ at \in Nat /\ at <= now
          /\ inputs \subseteq files \/ now - at >= CombineInterval
      BY <1>1, <1>2, <2>3
    <3> HIDE DEF at, inputs
    <3>2. /\ at <= now'
          /\ inputs \subseteq files \/ now' - at >= CombineInterval
      BY <1>3, <2>1, <3>1
    <3> QED
      BY <3>2 DEF at, inputs
  <2> QED
    BY <1>1, <2>1, <2>2, <2>3 DEF Reading, ReadsIntact, Marginalising, Disjoint, ChunksOf
<1>8. CASE LaunchCalcfap
  <2>1. /\ listed' = listed /\ pc' # "calcfap" /\ pc = "calcfap"
        /\ Len(listed) = Len(Walltimes)
        /\ calcfap_processes' =
             [i \in Scales |-> IF listed[i] = {} THEN None
                               ELSE [inputs |-> listed[i], at |-> now]]
        /\ output' = output /\ now' = now
        /\ files' = files /\ files_being_combined' = files_being_combined
    BY <1>8 DEF LaunchCalcfap, InCalcfap, disk
  <2>2. ASSUME NEW i \in Scales, calcfap_processes'[i] # None
        PROVE  /\ calcfap_processes'[i].at <= now
               /\ Disjoint(calcfap_processes'[i].inputs)
               /\ calcfap_processes'[i].inputs \subseteq files
               /\ files_being_combined = {}
    <3>1. calcfap_processes'[i] = [inputs |-> listed[i], at |-> now]
      BY <2>1, <2>2
    <3>2. calcfap_processes'[i].inputs = listed[i] /\ calcfap_processes'[i].at = now
      BY <3>1
    <3>3. i \in 1..Len(listed)
      BY <2>1, TimesAssumption DEF Scales
    <3>4. listed # <<>>
      BY <3>3
    <3> QED
      BY <1>1, <1>3, <2>1, <3>2, <3>3, <3>4
  <2> QED
    BY <1>1, <2>1, <2>2 DEF Reading, ReadsIntact, Marginalising, Disjoint, ChunksOf
<1>9. CASE \E i \in Scales : CalcfapEnds(i)
  <2>1. PICK i \in Scales : CalcfapEnds(i)
    BY <1>9
  <2>2. /\ listed' = listed /\ pc' = pc /\ now' = now
        /\ files' = files /\ files_being_combined' = files_being_combined
        /\ Processes' = Processes
        /\ last_combine_stats_time' = last_combine_stats_time
        /\ calcfap_processes' = [calcfap_processes EXCEPT ![i] = None]
        /\ Marginalising(i)
    BY <2>1 DEF CalcfapEnds, Marginalising, disk, schedule, Processes
  <2>3. \A j \in Scales : calcfap_processes'[j] # None =>
          calcfap_processes'[j] = calcfap_processes[j] /\ Marginalising(j)
    BY <1>2, <2>2 DEF Marginalising
  <2>4. \/ output' = output
        \/ output' = [output EXCEPT ![i] =
             [at |-> calcfap_processes[i].at, ended |-> now,
              missing |-> {f \in calcfap_processes[i].inputs : ~Exists(f, files)}]]
    BY <2>1 DEF CalcfapEnds
  <2>5. output' = [j \in Scales |-> output'[j]]
    BY <1>1, <2>4
  <2>6. ASSUME NEW j \in Scales, output'[j] # None
        PROVE  \/ output'[j].missing = {}
               \/ output'[j].ended - output'[j].at >= CombineInterval
    <3>1. CASE output'[j] = output[j]
      BY <1>1, <2>6, <3>1
    <3>2. CASE output'[j] = [at |-> calcfap_processes[i].at, ended |-> now,
                             missing |-> {f \in calcfap_processes[i].inputs :
                                            ~Exists(f, files)}]
      <4>1. /\ output'[j].at = calcfap_processes[i].at /\ output'[j].ended = now
            /\ output'[j].missing = {f \in calcfap_processes[i].inputs : ~Exists(f, files)}
        BY <3>2
      <4>2. \/ calcfap_processes[i].inputs \subseteq files
            \/ now - calcfap_processes[i].at >= CombineInterval
        BY <1>1, <2>2
      <4>3. \A f \in files : Exists(f, files)
        BY DEF Exists, SameName
      <4> QED
        BY <4>1, <4>2, <4>3
    <3> QED
      BY <1>1, <2>4, <3>1, <3>2
  <2> QED
    BY <1>1, <2>2, <2>3, <2>5, <2>6 DEF Reading, ReadsIntact, Marginalising, Disjoint, ChunksOf
<1> QED
  BY <1>4, <1>5, <1>6, <1>7, <1>8, <1>9, ReadingSteps

\* At first nothing is read.
LEMMA ReadingInit ==
  ASSUME Init
  PROVE  Reading
<1>1. /\ listed = <<>> /\ calcfap_processes = [i \in Scales |-> None]
      /\ output = [i \in Scales |-> None] /\ files_being_combined = {} /\ Processes = {}
  BY DEF Init, Processes
<1>2. Len(listed) = 0
  BY <1>1
<1> QED
  BY <1>1, <1>2 DEF Reading, ReadsIntact, Marginalising

\* Without restarts, no subprocess counts a piece of background twice, although
\* a merged file and its inputs lie side by side until the next listing
\* (CountedOnce).
THEOREM NothingCountedTwice == ~MayRestart => (Spec => []CountedOnce)
<1> SUFFICES ASSUME ~MayRestart PROVE Spec => []CountedOnce
  OBVIOUS
<1>1. Init => Typed /\ Held /\ Listing /\ Reading
  BY TypedInit, HeldInit, ListingInit, ReadingInit
<1>2. Typed /\ Held /\ Listing /\ Reading /\ [Next]_vars
        => Typed' /\ Held' /\ Listing' /\ Reading'
  BY TypedStep, HeldStep, ListingStep, ReadingStep
<1>3. Typed /\ Held /\ Reading => CountedOnce
  <2> SUFFICES ASSUME Typed, Held, Reading PROVE CountedOnce
    OBVIOUS
  <2>1. \A i \in Scales : calcfap_processes[i] # None => Disjoint(calcfap_processes[i].inputs)
    BY DEF Reading, Marginalising
  <2>2. ASSUME NEW p \in Processes PROVE Disjoint(p.inputs)
    <3>1. p.inputs \subseteq files_being_combined /\ Disjoint(files_being_combined)
      BY DEF Held
    <3> QED
      BY <3>1, DisjointIs
  <2>3. \A p, q \in Processes : p = q \/ p.inputs \intersect q.inputs = {}
    BY DEF Held
  <2> QED
    BY <2>1, <2>2, <2>3 DEF CountedOnce, Processes
<1> QED
  BY <1>1, <1>2, <1>3, PTL DEF Spec

\* Without restarts, a marginalisation that ends before the next merging is due
\* finds all of its inputs, although they may be merged, and listed for removal,
\* while it reads them (ReadsIntact).
THEOREM InputsStay == ~MayRestart => (Spec => []ReadsIntact)
<1> SUFFICES ASSUME ~MayRestart PROVE Spec => []ReadsIntact
  OBVIOUS
<1>1. Init => Typed /\ Held /\ Listing /\ Reading
  BY TypedInit, HeldInit, ListingInit, ReadingInit
<1>2. Typed /\ Held /\ Listing /\ Reading /\ [Next]_vars
        => Typed' /\ Held' /\ Listing' /\ Reading'
  BY TypedStep, HeldStep, ListingStep, ReadingStep
<1>3. Reading => ReadsIntact
  BY DEF Reading
<1> QED
  BY <1>1, <1>2, <1>3, PTL DEF Spec

-----------------------------------------------------------------------------
(* Names and contents, while no merging fails and the job is not restarted. *)

Named(f) == f.chunks = f.start..(f.start + f.dur - 1)

\* The total of some files adds them one by one.
LEMMA WalltimeSteps ==
  ASSUME NEW F \in SUBSET File, IsFiniteSet(F)
  PROVE  \E sum : /\ sum[F] = TotalWalltime(F)
                  /\ \A u \in SUBSET F : u = {} => sum[u] = 0
                  /\ \A u \in SUBSET F : u # {} =>
                       \E x \in u : sum[u] = x.dur + sum[u \ {x}]
<1> DEFINE Any(s) == CHOOSE x \in s : TRUE
           iter == CHOOSE f : Summing(f, F)
<1>1. Summing(iter, F)
  BY SumExists, Zenon
<1>2. TotalWalltime(F) = iter[F]
  BY Zenon DEF TotalWalltime, MapThenSumSet, MapThenFoldSet, Summing
<1>3. ASSUME NEW u \in SUBSET F
      PROVE  iter[u] = IF u = {} THEN 0 ELSE Any(u).dur + iter[u \ {Any(u)}]
  <2> HIDE DEF iter
  <2> QED
    BY <1>1, Zenon DEF Summing
<1>4. ASSUME NEW u \in SUBSET F, u # {} PROVE Any(u) \in u
  BY <1>4, Zenon
<1> HIDE DEF iter, Any
<1>5. \A u \in SUBSET F : u = {} => iter[u] = 0
  BY <1>3
<1>6. \A u \in SUBSET F : u # {} => \E x \in u : iter[u] = x.dur + iter[u \ {x}]
  BY <1>3, <1>4
<1> QED
  BY <1>2, <1>5, <1>6

\* The total lies between so many times the shortest and so many times the longest.
LEMMA WalltimeBounds ==
  ASSUME NEW F \in SUBSET File, IsFiniteSet(F), NEW m \in Nat
  PROVE  /\ TotalWalltime(F) \in Nat /\ Cardinality(F) \in Nat
         /\ (\A f \in F : f.dur <= m) => TotalWalltime(F) <= m * Cardinality(F)
         /\ (\A f \in F : m <= f.dur) => m * Cardinality(F) <= TotalWalltime(F)
<1>1. PICK sum : /\ sum[F] = TotalWalltime(F)
                 /\ \A u \in SUBSET F : u = {} => sum[u] = 0
                 /\ \A u \in SUBSET F : u # {} =>
                      \E x \in u : sum[u] = x.dur + sum[u \ {x}]
  BY WalltimeSteps
<1> DEFINE P(u) == /\ sum[u] \in Nat
                   /\ (\A f \in u : f.dur <= m) => sum[u] <= m * Cardinality(u)
                   /\ (\A f \in u : m <= f.dur) => m * Cardinality(u) <= sum[u]
           C == {u \in SUBSET F : ~P(u)}
<1>2. C = {}
  <2> SUFFICES ASSUME C # {} PROVE FALSE
    OBVIOUS
  <2>1. PICK u \in C : \A v \in C : v \subseteq u => v = u
    <3>1. C \in SUBSET (SUBSET F)
      OBVIOUS
    <3> HIDE DEF C
    <3> QED
      BY <3>1, Smallest
  <2>2. u \in SUBSET F /\ ~P(u)
    BY <2>1
  <2>3. IsFiniteSet(u) /\ Cardinality(u) \in Nat
    BY <2>2, FS_Subset, FS_CardinalityType
  <2>4. CASE u = {}
    <3>1. sum[u] = 0 /\ Cardinality(u) = 0
      BY <1>1, <2>2, <2>4, FS_EmptySet
    <3>2. m * 0 = 0
      OBVIOUS
    <3> QED
      BY <2>2, <3>1, <3>2
  <2>5. CASE u # {}
    <3>1. PICK x \in u : sum[u] = x.dur + sum[u \ {x}]
      BY <1>1, <2>2, <2>5
    <3> DEFINE v == u \ {x}
    <3>2. v \in SUBSET F /\ v \subseteq u /\ v # u /\ Cardinality(v) = Cardinality(u) - 1
      BY <2>2, <2>3, <3>1, FS_RemoveElement
    <3>3. P(v)
      <4>1. v \notin C
        <5> HIDE DEF C, v
        <5> QED
          BY <2>1, <3>2
      <4> QED
        BY <3>2, <4>1
    <3>4. x.dur \in Nat /\ Cardinality(v) \in Nat /\ Cardinality(u) = Cardinality(v) + 1
      BY <2>2, <2>3, <3>1, <3>2, FS_Subset, FS_CardinalityType DEF File
    <3>5. m * (Cardinality(v) + 1) = m * Cardinality(v) + m
      BY <3>4
    <3>6. sum[u] = x.dur + sum[v]
      BY <3>1
    <3>7. (\A f \in u : f.dur <= m) => x.dur <= m /\ \A f \in v : f.dur <= m
      OBVIOUS
    <3>8. (\A f \in u : m <= f.dur) => m <= x.dur /\ \A f \in v : m <= f.dur
      OBVIOUS
    <3> DEFINE q == m * Cardinality(v)
               r == m * Cardinality(u)
    <3>9. q \in Nat /\ r = q + m
      BY <3>4, <3>5
    <3> HIDE DEF v
    <3>10. /\ sum[v] \in Nat
           /\ (\A f \in v : f.dur <= m) => sum[v] <= q
           /\ (\A f \in v : m <= f.dur) => q <= sum[v]
      BY <3>3
    <3> HIDE DEF q, r
    <3>11. /\ sum[u] \in Nat
           /\ (\A f \in u : f.dur <= m) => sum[u] <= r
           /\ (\A f \in u : m <= f.dur) => r <= sum[u]
      BY <3>4, <3>6, <3>7, <3>8, <3>9, <3>10
    <3>12. P(u)
      BY <3>11 DEF r
    <3> QED
      BY <2>2, <3>12
  <2> QED
    BY <2>4, <2>5
<1>3. P(F)
  BY <1>2
<1> QED
  BY <1>1, <1>3, FS_CardinalityType

\* Files that are named by their contents, which are apart.
Tiles(F) == /\ \A f \in F : Named(f)
            /\ \A f, g \in F : f = g \/ f.chunks \intersect g.chunks = {}

Content(F) == UNION {f.chunks : f \in F}

\* Their total counts what they hold.
LEMMA WalltimeCounts ==
  ASSUME NEW F \in SUBSET File, IsFiniteSet(F), Tiles(F)
  PROVE  IsFiniteSet(Content(F)) /\ Cardinality(Content(F)) = TotalWalltime(F)
<1>1. PICK sum : /\ sum[F] = TotalWalltime(F)
                 /\ \A u \in SUBSET F : u = {} => sum[u] = 0
                 /\ \A u \in SUBSET F : u # {} =>
                      \E x \in u : sum[u] = x.dur + sum[u \ {x}]
  BY WalltimeSteps
<1> DEFINE P(u) == IsFiniteSet(Content(u)) /\ Cardinality(Content(u)) = sum[u]
           C == {u \in SUBSET F : ~P(u)}
<1>2. C = {}
  <2> SUFFICES ASSUME C # {} PROVE FALSE
    OBVIOUS
  <2>1. PICK u \in C : \A v \in C : v \subseteq u => v = u
    <3>1. C \in SUBSET (SUBSET F)
      OBVIOUS
    <3> HIDE DEF C
    <3> QED
      BY <3>1, Smallest
  <2>2. u \in SUBSET F /\ ~P(u)
    BY <2>1
  <2>3. CASE u = {}
    <3>1. Content(u) = {} /\ sum[u] = 0
      BY <1>1, <2>2, <2>3 DEF Content
    <3> QED
      BY <2>2, <3>1, FS_EmptySet
  <2>4. CASE u # {}
    <3>1. PICK x \in u : sum[u] = x.dur + sum[u \ {x}]
      BY <1>1, <2>2, <2>4
    <3> DEFINE v == u \ {x}
    <3>2. v \in SUBSET F /\ v \subseteq u /\ v # u
      BY <2>2, <3>1
    <3>3. P(v)
      <4>1. v \notin C
        <5> HIDE DEF C, v
        <5> QED
          BY <2>1, <3>2
      <4> QED
        BY <3>2, <4>1
    <3>4. /\ x.dur \in Nat \ {0} /\ x.start \in Nat
          /\ x.chunks = x.start..(x.start + x.dur - 1)
      BY <2>2, <3>1 DEF File, Tiles, Named
    <3>5. IsFiniteSet(x.chunks) /\ Cardinality(x.chunks) = x.dur
      <4> DEFINE a == x.start
                 b == x.start + x.dur - 1
      <4>1. a \in Int /\ b \in Int /\ a <= b /\ b - a + 1 = x.dur
        BY <3>4
      <4> HIDE DEF a, b
      <4>2. IsFiniteSet(a..b) /\ Cardinality(a..b) = b - a + 1
        BY <4>1, FS_Interval
      <4> QED
        BY <3>4, <4>1, <4>2 DEF a, b
    <3>6. Content(u) = x.chunks \union Content(v) /\ x.chunks \intersect Content(v) = {}
      BY <2>2, <3>1 DEF Content, Tiles
    <3> HIDE DEF v
    <3>7. /\ IsFiniteSet(x.chunks \union Content(v))
          /\ Cardinality(x.chunks \union Content(v))
               = Cardinality(x.chunks) + Cardinality(Content(v)) - Cardinality({})
      BY <3>3, <3>5, <3>6, FS_Union
    <3>8. Cardinality(Content(v)) \in Nat /\ Cardinality({}) = 0
      BY <3>3, FS_CardinalityType, FS_EmptySet
    <3> DEFINE k == Cardinality(Content(v))
    <3>9. sum[u] = x.dur + k /\ k \in Nat /\ x.dur \in Nat
      BY <3>1, <3>3, <3>4, <3>8 DEF v
    <3>10. IsFiniteSet(Content(u)) /\ Cardinality(Content(u)) = x.dur + k - 0
      BY <3>5, <3>6, <3>7, <3>8
    <3> HIDE DEF k
    <3>11. P(u)
      BY <3>9, <3>10
    <3> QED
      BY <2>2, <3>11
  <2> QED
    BY <2>3, <2>4
<1>3. P(F)
  BY <1>2
<1> QED
  BY <1>1, <1>3

\* All of some files begin before all of others.
Before(g, h) == \A f \in g : \A k \in h : f.start < k.start

\* The collections of files that begin at different times follow each other, and
\* none is longer than the limit.
LEMMA CollectedInOrder ==
  ASSUME NEW F \in SUBSET File, IsFiniteSet(F),
         \A f, g \in F : f.start = g.start => f = g
  PROVE  LET G == MapThenFoldSet(Collect, [collected |-> {}, groups |-> {}],
                                 LAMBDA f : f, LastByName, F).groups
         IN  /\ \A g \in G : Cardinality(g) <= MaxStatsPerBank
             /\ \A g, h \in G : g = h \/ Before(g, h) \/ Before(h, g)
             /\ \A g \in G : Before(g, F \ UNION G)
<1> DEFINE iter == CHOOSE f : Collecting(f, F)
           Good(a, u) == /\ IsFiniteSet(a.collected)
                         /\ Cardinality(a.collected) <= MaxStatsPerBank
                         /\ u = a.collected \union UNION a.groups
                         /\ \A g \in a.groups : /\ Cardinality(g) <= MaxStatsPerBank
                                                /\ Before(g, a.collected)
                         /\ \A g, h \in a.groups : g = h \/ Before(g, h) \/ Before(h, g)
           C == {u \in SUBSET F : ~Good(iter[u], u)}
<1>1. Collecting(iter, F)
  BY CollectExists, Zenon
<1>2. MapThenFoldSet(Collect, [collected |-> {}, groups |-> {}],
                     LAMBDA f : f, LastByName, F) = iter[F]
  BY Zenon DEF MapThenFoldSet, Collecting, Base
<1>3. ASSUME NEW u \in SUBSET F
      PROVE  iter[u] = IF u = {} THEN Base
                       ELSE Collect(LastByName(u), iter[u \ {LastByName(u)}])
  <2> HIDE DEF iter
  <2> QED
    BY <1>1, Zenon DEF Collecting
<1> HIDE DEF iter
<1>4. MaxStatsPerBank \in Nat \ {0, 1}
  BY CollectionAssumption
<1>5. C = {}
  <2> SUFFICES ASSUME C # {} PROVE FALSE
    OBVIOUS
  <2>1. PICK u \in C : \A v \in C : v \subseteq u => v = u
    <3>1. C \in SUBSET (SUBSET F)
      OBVIOUS
    <3> HIDE DEF C
    <3> QED
      BY <3>1, Smallest
  <2>2. u \in SUBSET F /\ ~Good(iter[u], u)
    BY <2>1
  <2>3. CASE u = {}
    <3>1. iter[u] = Base
      BY <1>3, <2>2, <2>3, Zenon
    <3>2. IsFiniteSet({}) /\ Cardinality({}) = 0
      BY FS_EmptySet
    <3> QED
      BY <1>4, <2>2, <2>3, <3>1, <3>2 DEF Base
  <2>4. CASE u # {}
    <3> DEFINE x == LastByName(u)
               v == u \ {x}
               a == iter[v]
    <3>1. x \in u /\ \A g \in u : ~ByName(x, g)
      BY <2>2, <2>4, LastIs
    <3>2. v \in SUBSET F /\ v \subseteq u /\ v # u /\ x \notin v /\ u = v \union {x}
      BY <2>2, <3>1
    <3>3. Good(a, v)
      <4>1. v \notin C
        <5> HIDE DEF C, v
        <5> QED
          BY <2>1, <3>2
      <4> QED
        BY <3>2, <4>1
    <3>4. iter[u] = Collect(x, a)
      BY <1>3, <2>2, <2>4
    <3>5. ASSUME NEW f \in v PROVE f.start < x.start
      <4>1. f \in F /\ x \in F /\ f # x /\ ~ByName(x, f)
        BY <2>2, <3>1
      <4>2. f.start \in Nat /\ x.start \in Nat /\ f.start # x.start
        BY <4>1 DEF File
      <4> QED
        BY <4>1, <4>2 DEF ByName
    <3> HIDE DEF x, v, a
    <3>6. /\ a.collected \subseteq v /\ \A g \in a.groups : g \subseteq v
      BY <3>3
    <3>7. \A g : g \subseteq v => Before(g, {x})
      BY <3>5 DEF Before
    <3>8. CASE IsFull(a.collected)
      <4>1. /\ iter[u].collected = {x}
            /\ iter[u].groups = a.groups \union {a.collected}
        BY <3>4, <3>8 DEF Collect
      <4>2. IsFiniteSet({x}) /\ Cardinality({x}) <= MaxStatsPerBank
        <5>1. IsFiniteSet({x}) /\ Cardinality({x}) = 1
          BY FS_Singleton, Zenon
        <5> QED
          BY <1>4, <5>1
      <4>3. u = iter[u].collected \union UNION iter[u].groups
        <5>1. v = a.collected \union UNION a.groups
          BY <3>3
        <5>2. \A A, B : UNION (A \union {B}) = B \union UNION A
          OBVIOUS
        <5>3. UNION iter[u].groups = a.collected \union UNION a.groups
          BY <4>1, <5>2, Zenon
        <5> QED
          BY <3>2, <4>1, <5>1, <5>3
      <4>4. Good(iter[u], u)
        BY <3>3, <3>6, <3>7, <4>1, <4>2, <4>3
      <4> QED
        BY <2>2, <4>4
    <3>9. CASE ~IsFull(a.collected)
      <4>1. /\ iter[u].collected = a.collected \union {x}
            /\ iter[u].groups = a.groups
        BY <3>4, <3>9 DEF Collect
      <4>2. ~(Cardinality(a.collected) >= MaxStatsPerBank)
        BY <3>9 DEF IsFull
      <4>3. /\ IsFiniteSet(iter[u].collected)
            /\ Cardinality(iter[u].collected) <= MaxStatsPerBank
        <5>1. x \notin a.collected
          BY <3>2, <3>6
        <5>2. /\ IsFiniteSet(a.collected \union {x})
              /\ Cardinality(a.collected \union {x}) = Cardinality(a.collected) + 1
          BY <3>3, <5>1, FS_AddElement
        <5>3. Cardinality(a.collected) \in Nat
          BY <3>3, FS_CardinalityType
        <5> QED
          BY <1>4, <4>1, <4>2, <5>2, <5>3
      <4>4. u = iter[u].collected \union UNION iter[u].groups
        BY <3>2, <3>3, <4>1
      <4>5. ASSUME NEW g \in a.groups PROVE Before(g, iter[u].collected)
        <5>1. Before(g, a.collected) /\ Before(g, {x})
          BY <3>3, <3>6, <3>7
        <5> QED
          BY <4>1, <5>1 DEF Before
      <4>6. Good(iter[u], u)
        BY <3>3, <4>1, <4>3, <4>4, <4>5
      <4> QED
        BY <2>2, <4>6
    <3> QED
      BY <3>8, <3>9
  <2> QED
    BY <2>3, <2>4
<1>6. Good(iter[F], F)
  BY <1>5
<1>7. ASSUME NEW g \in iter[F].groups PROVE Before(g, F \ UNION iter[F].groups)
  <2>1. F \ UNION iter[F].groups \subseteq iter[F].collected /\ Before(g, iter[F].collected)
    BY <1>6
  <2> QED
    BY <2>1 DEF Before
<1> QED
  BY <1>2, <1>6, <1>7

\* Files of one bank begin at different times.
Distinct(F) == \A f, g \in F : f.bank = g.bank /\ f.start = g.start => f = g

\* What is merged: full collections of small files of one bank, none longer than
\* the limit, one after the other, with no file of the bank left between.
LEMMA GroupsInOrder ==
  ASSUME NEW F \in SUBSET File, IsFiniteSet(F), Distinct(F)
  PROVE  /\ \A g \in Groups(F) : /\ g \subseteq F /\ IsFull(g)
                                 /\ Cardinality(g) <= MaxStatsPerBank
                                 /\ \A f \in g : f.dur < CombineDuration
         /\ \A g, h \in Groups(F) : \A f \in g : \A k \in h :
              g = h \/ f.bank # k.bank \/ Before(g, h) \/ Before(h, g)
         /\ \A g \in Groups(F) : \A f \in g : \A k \in F \ UNION Groups(F) :
              f.bank = k.bank /\ k.dur < CombineDuration => f.start < k.start
<1> DEFINE Small(b) == {f \in F : f.bank = b /\ f.dur < CombineDuration}
           Of(b) == MapThenFoldSet(Collect, [collected |-> {}, groups |-> {}],
                                   LAMBDA f : f, LastByName, Small(b)).groups
<1>1. Groups(F) = UNION {Of(b) : b \in Banks}
  BY Zenon DEF Groups
<1>2. ASSUME NEW b \in Banks
      PROVE  /\ Of(b) \subseteq SUBSET Small(b)
             /\ \A g \in Of(b) : IsFull(g) /\ Cardinality(g) <= MaxStatsPerBank
             /\ \A g, h \in Of(b) : g = h \/ Before(g, h) \/ Before(h, g)
             /\ \A g \in Of(b) : Before(g, Small(b) \ UNION Of(b))
  <2>1. Small(b) \in SUBSET File /\ IsFiniteSet(Small(b))
    BY FS_Subset
  <2>2. \A f, g \in Small(b) : f.start = g.start => f = g
    BY DEF Distinct
  <2> HIDE DEF Small
  <2>3. Of(b) \subseteq SUBSET Small(b) /\ \A g \in Of(b) : IsFull(g)
    BY <2>1, CollectedAre
  <2>4. /\ \A g \in Of(b) : Cardinality(g) <= MaxStatsPerBank
        /\ \A g, h \in Of(b) : g = h \/ Before(g, h) \/ Before(h, g)
        /\ \A g \in Of(b) : Before(g, Small(b) \ UNION Of(b))
    BY <2>1, <2>2, CollectedInOrder
  <2> HIDE DEF Of
  <2> QED
    BY <2>3, <2>4
<1> HIDE DEF Of
<1>3. ASSUME NEW g \in Groups(F)
      PROVE  \E b \in Banks : g \in Of(b)
  BY <1>1
<1>4. ASSUME NEW b \in Banks
      PROVE  Of(b) \subseteq Groups(F) /\ UNION Of(b) \subseteq UNION Groups(F)
  BY <1>1
<1>5. ASSUME NEW g \in Groups(F)
      PROVE  /\ g \subseteq F /\ IsFull(g)
             /\ Cardinality(g) <= MaxStatsPerBank
             /\ \A f \in g : f.dur < CombineDuration
  <2>1. PICK b \in Banks : g \in Of(b)
    BY <1>3
  <2> QED
    BY <1>2, <2>1
<1>6. ASSUME NEW g \in Groups(F), NEW h \in Groups(F), NEW f \in g, NEW k \in h
      PROVE  g = h \/ f.bank # k.bank \/ Before(g, h) \/ Before(h, g)
  <2>1. PICK b \in Banks : g \in Of(b)
    BY <1>3
  <2>2. PICK c \in Banks : h \in Of(c)
    BY <1>3
  <2>3. f.bank = b /\ k.bank = c
    BY <1>2, <2>1, <2>2
  <2>4. b = c => g = h \/ Before(g, h) \/ Before(h, g)
    BY <1>2, <2>1, <2>2
  <2> QED
    BY <2>3, <2>4
<1>7. ASSUME NEW g \in Groups(F), NEW f \in g, NEW k \in F \ UNION Groups(F),
             f.bank = k.bank, k.dur < CombineDuration
      PROVE  f.start < k.start
  <2>1. PICK b \in Banks : g \in Of(b)
    BY <1>3
  <2>2. f.bank = b
    BY <1>2, <2>1
  <2>3. k \in Small(b) \ UNION Of(b)
    BY <1>4, <1>7, <2>2
  <2> HIDE DEF Small
  <2> QED
    BY <1>2, <2>1, <2>3 DEF Before
<1> QED
  BY <1>5, <1>6, <1>7

\* A small file between two of a collection is in it.
LEMMA NoGap ==
  ASSUME NEW F \in SUBSET File, IsFiniteSet(F), Distinct(F), NEW g \in Groups(F),
         NEW f \in g, NEW k \in g, NEW h \in F, h.bank = f.bank,
         f.start <= h.start, h.start <= k.start, h.dur < CombineDuration
  PROVE  h \in g
<1>1. g \subseteq F /\ k.bank = f.bank
  BY GroupsAre
<1>2. f.start \in Nat /\ k.start \in Nat /\ h.start \in Nat
  BY <1>1 DEF File
<1>3. CASE h \notin UNION Groups(F)
  <2>1. k.start < h.start
    BY <1>1, <1>3, GroupsInOrder
  <2> QED
    BY <1>2, <2>1
<1>4. ASSUME NEW G \in Groups(F), h \in G
      PROVE  G = g
  <2>1. G = g \/ Before(G, g) \/ Before(g, G)
    BY <1>4, GroupsInOrder
  <2>2. ~Before(G, g)
    <3>1. Before(G, g) => h.start < f.start
      BY <1>4 DEF Before
    <3> QED
      BY <1>2, <3>1
  <2>3. ~Before(g, G)
    <3>1. Before(g, G) => k.start < h.start
      BY <1>4 DEF Before
    <3> QED
      BY <1>2, <3>1
  <2> QED
    BY <2>1, <2>2, <2>3
<1> QED
  BY <1>3, <1>4

\* What stays and what the running mergings will write.
Lasting == Kept \union {p.output : p \in Processes}

\* No file is longer than a small one of its bank that begins before it.
Shrinking(F) ==
  \A f, g \in F :
    f.bank = g.bank /\ f.start < g.start /\ f.dur < CombineDuration => g.dur <= f.dur

\* Every name tells the content, and of a bank the older files are the longer.
Layered ==
  /\ failed = {}
  /\ \A f \in files \union Lasting : Named(f)
  /\ Shrinking(Lasting)

\* Files that stay begin at different times.
LEMMA KeptDistinct ==
  ASSUME Typed, Held
  PROVE  /\ Kept \in SUBSET File /\ IsFiniteSet(Kept) /\ Distinct(Kept)
         /\ \A f, g \in Kept : f.bank = g.bank /\ f # g => f.chunks \intersect g.chunks = {}
<1>1. Kept \in SUBSET File /\ IsFiniteSet(Kept)
  <2>1. Kept \subseteq files
    BY DEF Kept
  <2> QED
    BY <2>1, FS_Subset DEF Typed
<1>2. \A f, g \in Kept : f = g \/ Holds(f) \intersect Holds(g) = {}
  BY DisjointIs DEF Held
<1>3. ASSUME NEW f \in Kept, NEW g \in Kept, f.bank = g.bank, f # g
      PROVE  f.chunks \intersect g.chunks = {}
  <2>1. \A c \in f.chunks \intersect g.chunks : <<f.bank, c>> \in Holds(f) \intersect Holds(g)
    BY <1>3 DEF Holds
  <2> QED
    BY <1>2, <1>3, <2>1
<1>4. ASSUME NEW f \in Kept, NEW g \in Kept, f.bank = g.bank, f.start = g.start
      PROVE  f = g
  <2>1. f.start \in f.chunks /\ g.start \in g.chunks
    BY <1>1 DEF File
  <2> QED
    BY <1>3, <1>4, <2>1
<1> QED
  BY <1>1, <1>3, <1>4 DEF Distinct

\* The name of a file merged from a collection tells its content: nothing is
\* missing between its first input and its last.
LEMMA CombinedNamed ==
  ASSUME Typed, Held, Covered, Layered, Processes = {}, NEW g \in Groups(Kept)
  PROVE  Named(Combined(g))
<1>1. /\ Kept \in SUBSET File /\ IsFiniteSet(Kept) /\ Distinct(Kept)
      /\ \A f, h \in Kept : f.bank = h.bank /\ f # h => f.chunks \intersect h.chunks = {}
  BY KeptDistinct
<1>2. /\ g \subseteq Kept /\ g # {} /\ \A f, h \in g : f.bank = h.bank
      /\ \A f \in g : f.dur < CombineDuration
  BY <1>1, GroupsAre, GroupsInOrder
<1>3. \A f \in Kept : Named(f) /\ f \in files
  BY DEF Layered, Kept
<1> DEFINE first == FirstByName(g)
           a == first.start
           b == first.bank
           n == TotalWalltime(g)
           C == Content(g)
<1>4. first \in g /\ \A f \in g : a <= f.start
  BY <1>1, <1>2, FirstIs
<1>5. /\ Combined(g).start = a /\ Combined(g).dur = n /\ Combined(g).chunks = C
  BY Zenon DEF Combined, Content
<1>6. IsFiniteSet(C) /\ Cardinality(C) = n
  <2>1. Tiles(g)
    BY <1>1, <1>2, <1>3 DEF Tiles
  <2>2. g \in SUBSET File /\ IsFiniteSet(g)
    BY <1>1, <1>2, FS_Subset
  <2> QED
    BY <2>1, <2>2, WalltimeCounts
<1>7. first \in File /\ first \in Kept /\ a \in Nat /\ b \in Banks /\ dumped[b] \in Nat
  BY <1>1, <1>2, <1>4 DEF File, Typed
<1> HIDE DEF first
<1>8. ASSUME NEW f \in g
      PROVE  /\ f \in Kept /\ f.bank = b /\ f.start \in Nat /\ f.dur \in Nat \ {0}
             /\ f.chunks = f.start..(f.start + f.dur - 1)
             /\ \A c \in f.chunks : c \in Nat /\ c < dumped[b] /\ f.start <= c
  <2>1. f \in Kept /\ f \in File /\ f.bank = b /\ f \in files /\ Named(f)
    BY <1>1, <1>2, <1>3, <1>4
  <2>2. \A c \in f.chunks : c < dumped[b]
    BY <2>1 DEF Held
  <2> QED
    BY <2>1, <2>2 DEF File, Named
<1>9. ASSUME NEW c \in C PROVE c \in Nat /\ c < dumped[b] /\ a <= c
  <2>1. PICK f \in g : c \in f.chunks
    BY DEF Content
  <2>2. f.start \in Nat /\ c \in Nat /\ c < dumped[b] /\ f.start <= c /\ a <= f.start
    BY <1>4, <1>8, <2>1
  <2> QED
    BY <1>7, <2>2
<1>10. a \in C
  <2>1. a \in first.chunks
    BY <1>7 DEF File
  <2> QED
    BY <1>4, <2>1 DEF Content
<1>11. PICK z \in C : \A c \in C : c <= z
  <2> DEFINE D == {dumped[b] - c : c \in C}
  <2>1. D \in SUBSET Nat /\ D # {}
    BY <1>7, <1>9, <1>10
  <2> HIDE DEF D
  <2>2. PICK d \in D : \A e \in D : d <= e
    BY <2>1, Least
  <2>3. PICK z \in C : d = dumped[b] - z
    BY <2>2 DEF D
  <2>4. ASSUME NEW c \in C PROVE c <= z
    <3>1. d <= dumped[b] - c
      BY <2>2 DEF D
    <3>2. c \in Nat /\ z \in Nat
      BY <1>9
    <3> QED
      BY <1>7, <2>3, <3>1, <3>2
  <2> QED
    BY <2>4
<1>12. z \in Nat /\ a <= z /\ z < dumped[b]
  BY <1>9
<1>13. PICK last \in g : z \in last.chunks
  BY DEF Content
<1> HIDE DEF C
<1>14. ASSUME NEW t \in a..z PROVE t \in C
  <2>1. t \in Nat /\ a <= t /\ t <= z /\ t \in 0..(dumped[b] - 1)
    BY <1>7, <1>12
  <2>2. <<b, t>> \in ChunksOf(Kept)
    <3>1. Found(<<b, t>>)
      BY <1>7, <2>1 DEF Covered
    <3>2. <<b, t>> \notin ChunksOf(failed)
      BY ChunksAre DEF Layered
    <3> QED
      BY <3>1, <3>2 DEF Found
  <2>3. PICK h \in Kept : <<b, t>> \in Holds(h)
    BY <2>2, ChunksAre
  <2>4. h.bank = b /\ t \in h.chunks
    BY <2>3 DEF Holds
  <2>5. /\ h \in File /\ h.start \in Nat /\ h.dur \in Nat \ {0}
        /\ h.chunks = h.start..(h.start + h.dur - 1)
    BY <1>1, <1>3 DEF File, Named
  <2>6. a <= h.start
    <3> SUFFICES ASSUME h.start < a PROVE FALSE
      BY <1>7, <2>5
    <3>1. a \in h.chunks /\ a \in first.chunks
      BY <1>7, <2>1, <2>4, <2>5 DEF File
    <3>2. h = first
      BY <1>1, <1>7, <2>4, <3>1
    <3> QED
      BY <1>7, <3>2
  <2>7. h.start <= last.start
    <3>1. /\ last \in Kept /\ last.bank = b /\ last.start \in Nat /\ last.dur \in Nat \ {0}
          /\ last.chunks = last.start..(last.start + last.dur - 1)
      BY <1>8, <1>13
    <3> SUFFICES ASSUME last.start < h.start PROVE FALSE
      BY <2>5, <3>1
    <3>2. h.start <= t
      BY <2>4, <2>5
    <3>3. h.start \in last.chunks /\ h.start \in h.chunks
      BY <1>12, <1>13, <2>1, <2>5, <3>1, <3>2
    <3>4. h = last
      BY <1>1, <2>4, <3>1, <3>3
    <3> QED
      BY <3>1, <3>4
  <2>8. h.dur < CombineDuration
    <3>1. CASE h = first
      BY <1>2, <1>4, <3>1
    <3>2. CASE h # first
      <4>1. h.start # a
        BY <1>1, <1>7, <2>4, <3>2 DEF Distinct
      <4>2. a < h.start
        BY <1>7, <2>5, <2>6, <4>1
      <4>3. first.dur < CombineDuration
        BY <1>2, <1>4
      <4>4. h.dur <= first.dur
        BY <1>7, <2>4, <4>2, <4>3 DEF Layered, Shrinking, Lasting
      <4>5. first.dur \in Nat /\ CombineDuration \in Nat
        BY <1>7, TimesAssumption DEF File
      <4> QED
        BY <2>5, <4>3, <4>4, <4>5
    <3> QED
      BY <3>1, <3>2
  <2>9. h \in g
    BY <1>1, <1>4, <1>13, <2>4, <2>6, <2>7, <2>8, NoGap
  <2> QED
    BY <2>4, <2>9 DEF C, Content
<1>15. C = a..z
  <2>1. \A c \in C : c \in a..z
    BY <1>7, <1>9, <1>11, <1>12
  <2> QED
    BY <1>14, <2>1
<1>16. n = z - a + 1
  <2>1. Cardinality(a..z) = z - a + 1
    BY <1>7, <1>12, FS_Interval
  <2> QED
    BY <1>6, <1>15, <2>1
<1>17. z = a + n - 1
  BY <1>7, <1>12, <1>16
<1> HIDE DEF a, n
<1>18. Combined(g).chunks = Combined(g).start..(Combined(g).start + Combined(g).dur - 1)
  BY <1>5, <1>15, <1>17
<1> QED
  BY <1>18 DEF Named

\* Of two collections of a bank the one that comes later is not merged into a
\* longer file, when the first is merged into a small one.
LEMMA CombinedShrinks ==
  ASSUME Typed, Held, Layered, NEW g \in Groups(Kept), NEW h \in Groups(Kept),
         Combined(g).bank = Combined(h).bank, Combined(g).start < Combined(h).start,
         Combined(g).dur < CombineDuration
  PROVE  Combined(h).dur <= Combined(g).dur
<1>1. Kept \in SUBSET File /\ IsFiniteSet(Kept) /\ Distinct(Kept)
  BY KeptDistinct
<1>2. ASSUME NEW G \in Groups(Kept)
      PROVE  /\ G \subseteq Kept /\ G \in SUBSET File /\ IsFiniteSet(G) /\ G # {}
             /\ \A f, k \in G : f.bank = k.bank
             /\ IsFull(G) /\ Cardinality(G) <= MaxStatsPerBank
             /\ \A f \in G : f.dur < CombineDuration
  <2>1. /\ G \subseteq Kept /\ G # {} /\ \A f, k \in G : f.bank = k.bank
    BY <1>1, GroupsAre
  <2>2. /\ IsFull(G) /\ Cardinality(G) <= MaxStatsPerBank
        /\ \A f \in G : f.dur < CombineDuration
    BY <1>1, GroupsInOrder
  <2> QED
    BY <1>1, <2>1, <2>2, FS_Subset
<1> DEFINE f1 == FirstByName(g)
           k1 == FirstByName(h)
           m == k1.dur
<1>3. f1 \in g /\ k1 \in h /\ \A k \in h : k1.start <= k.start
  BY <1>2, FirstIs
<1>4. /\ Combined(g).bank = f1.bank /\ Combined(g).start = f1.start
      /\ Combined(g).dur = TotalWalltime(g)
      /\ Combined(h).bank = k1.bank /\ Combined(h).start = k1.start
      /\ Combined(h).dur = TotalWalltime(h)
  BY Zenon DEF Combined
<1> HIDE DEF f1, k1
<1>5. f1.bank = k1.bank /\ f1.start < k1.start /\ TotalWalltime(g) < CombineDuration
  BY <1>4
<1>6. /\ f1 \in File /\ k1 \in File /\ f1.start \in Nat /\ k1.start \in Nat
      /\ m \in Nat /\ m < CombineDuration
  BY <1>2, <1>3 DEF File
<1>7. Before(g, h)
  <2>1. g = h \/ Before(g, h) \/ Before(h, g)
    BY <1>1, <1>3, <1>5, GroupsInOrder
  <2>2. g # h
    <3> SUFFICES ASSUME g = h PROVE FALSE
      OBVIOUS
    <3>1. k1.start <= f1.start
      BY <1>3
    <3> QED
      BY <1>5, <1>6, <3>1
  <2>3. ~Before(h, g)
    <3>1. Before(h, g) => k1.start < f1.start
      BY <1>3 DEF Before
    <3> QED
      BY <1>5, <1>6, <3>1
  <2> QED
    BY <2>1, <2>2, <2>3
<1>8. ASSUME NEW f \in g PROVE m <= f.dur
  <2>1. f \in Kept /\ k1 \in Kept /\ f.bank = k1.bank /\ f.dur < CombineDuration
    BY <1>2, <1>3, <1>5
  <2>2. f.start < k1.start
    BY <1>3, <1>7 DEF Before
  <2> QED
    BY <2>1, <2>2 DEF Layered, Shrinking, Lasting
<1>9. ASSUME NEW k \in h PROVE k.dur <= m
  <2>1. k \in Kept /\ k1 \in Kept /\ k.bank = k1.bank /\ k \in File /\ k.dur \in Nat
    BY <1>2, <1>3 DEF File
  <2>2. CASE k = k1
    BY <1>6, <2>2
  <2>3. CASE k # k1
    <3>1. k1.start # k.start
      BY <1>1, <2>1, <2>3 DEF Distinct
    <3>2. k1.start < k.start
      <4>1. k1.start <= k.start /\ k.start \in Nat
        BY <1>3, <2>1 DEF File
      <4> QED
        BY <1>6, <3>1, <4>1
    <3> QED
      BY <1>6, <2>1, <3>2 DEF Layered, Shrinking, Lasting
  <2> QED
    BY <2>2, <2>3
<1> DEFINE p == Cardinality(g)
           q == Cardinality(h)
           s == TotalWalltime(g)
           t == TotalWalltime(h)
<1>10. /\ s \in Nat /\ t \in Nat /\ p \in Nat /\ q \in Nat
       /\ m * p <= s /\ t <= m * q
  <2>1. m \in Nat
    BY <1>6
  <2> HIDE DEF m
  <2> QED
    BY <1>2, <1>8, <1>9, <2>1, WalltimeBounds
<1>11. q <= p
  <2>1. p >= MaxStatsPerBank \/ s >= CombineDuration
    BY <1>2 DEF IsFull
  <2>2. q <= MaxStatsPerBank /\ MaxStatsPerBank \in Nat /\ CombineDuration \in Nat
    BY <1>2, TimesAssumption, CollectionAssumption
  <2>3. s < CombineDuration
    BY <1>5
  <2> HIDE DEF p, q, s
  <2> QED
    BY <1>10, <2>1, <2>2, <2>3
<1> HIDE DEF m, p, q, s, t
<1>12. m \in Nat
  BY <1>6 DEF m
<1>13. m * q <= m * p
  <2>1. PICK d \in Nat : p = q + d
    <3>1. p - q \in Nat /\ p = q + (p - q)
      BY <1>10, <1>11
    <3> QED
      BY <3>1
  <2>2. m * p = m * q + m * d /\ m * d \in Nat /\ m * q \in Nat
    BY <1>10, <1>12, <2>1
  <2> QED
    BY <2>2
<1>14. m * q \in Nat /\ m * p \in Nat
  BY <1>10, <1>12
<1>15. t <= s
  BY <1>10, <1>13, <1>14
<1> QED
  BY <1>4, <1>15 DEF s, t

\* What the mergings that are started leave and will write is so, too.
LEMMA LayeredStarts ==
  ASSUME Typed, Held, Covered, Layered, Starts
  PROVE  Layered'
<1>1. Processes = {}
  BY CleanIs DEF Starts
<1>2. Kept \in SUBSET File /\ IsFiniteSet(Kept) /\ Distinct(Kept)
  BY KeptDistinct
<1> DEFINE G == Groups(Kept)
           Job(g) == [inputs |-> g, output |-> Combined(g), at |-> now]
           out == {Combined(g) : g \in G}
<1>3. /\ files' = Kept /\ files_being_combined' = UNION G
      /\ Processes' = {Job(g) : g \in G} /\ failed' = failed
  BY KeptIs, Zenon DEF Starts, StartCombine, Processes
<1>4. {p.output : p \in Processes'} = out
  <2>1. \A g \in G : Job(g).output = Combined(g)
    OBVIOUS
  <2> HIDE DEF Job, G
  <2> QED
    BY <1>3, <2>1
<1>5. Kept' = Kept \ UNION G /\ Lasting' = (Kept \ UNION G) \union out
  <2>1. Kept' = Kept \ UNION G
    BY <1>3 DEF Kept
  <2> QED
    BY <1>4, <2>1 DEF Lasting
<1>6. ASSUME NEW g \in G
      PROVE  \E f \in g : /\ f \in Kept /\ f \in File /\ f.bank = Combined(g).bank
                          /\ f.start = Combined(g).start
                          /\ f.dur < CombineDuration /\ f.dur < Combined(g).dur
                          /\ Combined(g) \in File
  <2>1. Merges(Job(g))
    BY <1>2, CombinedIs
  <2>2. Job(g).inputs = g /\ Job(g).output = Combined(g)
    OBVIOUS
  <2> HIDE DEF Job
  <2>3. PICK f \in g : f.start = Combined(g).start
    BY <2>1, <2>2 DEF Merges
  <2>4. f \in File /\ f.bank = Combined(g).bank /\ f.dur < Combined(g).dur
    BY <2>1, <2>2 DEF Merges
  <2>5. f \in Kept /\ f.dur < CombineDuration
    BY <1>2, GroupsInOrder
  <2> QED
    BY <2>1, <2>2, <2>3, <2>4, <2>5 DEF Merges
<1>7. failed' = {}
  BY <1>3 DEF Layered
<1>8. ASSUME NEW f \in files' \union Lasting' PROVE Named(f)
  <2>1. CASE f \in Kept
    BY <2>1 DEF Layered, Lasting
  <2>2. CASE f \in out
    BY <1>1, <2>2, CombinedNamed
  <2> QED
    BY <1>3, <1>5, <2>1, <2>2
<1>9. ASSUME NEW e \in Lasting', NEW f \in Lasting',
             e.bank = f.bank, e.start < f.start, e.dur < CombineDuration
      PROVE  f.dur <= e.dur
  <2>1. CASE e \in Kept \ UNION G /\ f \in Kept \ UNION G
    BY <1>9, <2>1 DEF Layered, Shrinking, Lasting
  <2>2. CASE e \in out /\ f \in out
    BY <1>9, <2>2, CombinedShrinks
  <2>3. CASE e \in out /\ f \in Kept \ UNION G
    <3>1. PICK g \in G : e = Combined(g)
      BY <2>3
    <3>2. PICK h \in g : /\ h \in Kept /\ h \in File /\ h.bank = e.bank /\ h.start = e.start
                         /\ h.dur < CombineDuration /\ h.dur < e.dur /\ e \in File
      BY <1>6, <3>1
    <3>3. f.dur <= h.dur
      BY <1>9, <2>3, <3>2 DEF Layered, Shrinking, Lasting
    <3>4. f.dur \in Nat /\ h.dur \in Nat /\ e.dur \in Nat
      BY <1>2, <2>3, <3>2 DEF File
    <3> QED
      BY <3>2, <3>3, <3>4
  <2>4. CASE e \in Kept \ UNION G /\ f \in out
    <3>1. PICK g \in G : f = Combined(g)
      BY <2>4
    <3>2. PICK h \in g : h \in Kept /\ h \in File /\ h.bank = f.bank /\ h.start = f.start
      BY <1>6, <3>1
    <3>3. h.start < e.start
      BY <1>2, <1>9, <2>4, <3>2, GroupsInOrder
    <3>4. h.start \in Nat /\ e.start \in Nat
      BY <1>2, <2>4, <3>2 DEF File
    <3> QED
      BY <1>9, <3>2, <3>3, <3>4
  <2> QED
    BY <1>5, <2>1, <2>2, <2>3, <2>4
<1> QED
  BY <1>7, <1>8, <1>9 DEF Layered, Shrinking, Named

\* A dump is the shortest and the last file of its bank.
LEMMA LayeredDump ==
  ASSUME Typed, Held, Layered, NEW b \in Banks, Dump(b)
  PROVE  Layered'
<1> DEFINE f == [bank |-> b, start |-> dumped[b], dur |-> 1, chunks |-> {dumped[b]}]
<1>1. dumped[b] \in Nat
  BY DEF Typed
<1>2. /\ files' = files \union {f} /\ files_being_combined' = files_being_combined
      /\ Processes' = Processes /\ failed' = failed
  BY DEF Dump, Processes
<1>3. Kept' \subseteq Kept \union {f} /\ Lasting' \subseteq Lasting \union {f}
  <2>1. Kept' \subseteq Kept \union {f}
    BY <1>2 DEF Kept
  <2> QED
    BY <1>2, <2>1 DEF Lasting
<1>4. f.bank = b /\ f.start = dumped[b] /\ f.dur = 1 /\ f.chunks = {dumped[b]}
  OBVIOUS
<1>5. Named(f)
  BY <1>1, <1>4 DEF Named
<1> HIDE DEF f
<1>6. ASSUME NEW e \in files PROVE e \in File /\ e.start < dumped[e.bank]
  <2>1. e \in File /\ e.start \in e.chunks
    BY DEF Typed, File
  <2> QED
    BY <2>1 DEF Held
<1>7. ASSUME NEW e \in Lasting PROVE e \in File /\ e.start < dumped[e.bank]
  <2>1. CASE e \in Kept
    BY <1>6, <2>1 DEF Kept
  <2>2. CASE e \in {p.output : p \in Processes}
    <3>1. PICK p \in Processes : e = p.output
      BY <2>2
    <3>2. e \in File /\ \E k \in p.inputs : k.start = e.start /\ k.bank = e.bank
      BY <3>1 DEF Typed, Merges
    <3>3. p.inputs \subseteq files
      BY DEF Held
    <3> QED
      BY <1>6, <3>2, <3>3
  <2> QED
    BY <2>1, <2>2 DEF Lasting
<1>8. ASSUME NEW d \in Lasting', NEW e \in Lasting',
             d.bank = e.bank, d.start < e.start, d.dur < CombineDuration
      PROVE  e.dur <= d.dur
  <2>1. CASE d \in Lasting /\ e \in Lasting
    BY <1>8, <2>1 DEF Layered, Shrinking
  <2>2. CASE d \in Lasting /\ e = f
    <3>1. d.dur \in Nat \ {0}
      BY <1>7, <2>2 DEF File
    <3> QED
      BY <1>4, <2>2, <3>1
  <2>3. CASE d = f
    <3>1. e # f
      BY <1>1, <1>4, <1>8, <2>3
    <3>2. e \in File /\ e.start < dumped[b]
      BY <1>3, <1>4, <1>7, <1>8, <2>3, <3>1
    <3>3. e.start \in Nat
      BY <3>2 DEF File
    <3> QED
      BY <1>1, <1>4, <1>8, <2>3, <3>2, <3>3
  <2> QED
    BY <1>3, <2>1, <2>2, <2>3
<1>9. \A e \in files' \union Lasting' : Named(e)
  BY <1>2, <1>3, <1>5 DEF Layered
<1> QED
  BY <1>2, <1>8, <1>9 DEF Layered, Shrinking, Named

\* While no merging fails and the job is not restarted, names tell the contents.
LEMMA LayeredStep ==
  ASSUME Typed, Held, Covered, Layered, [Next]_vars, ~MayRestart, ~SubprocessMayFail
  PROVE  Layered'
<1>1. CASE Quiet
  <2>1. files' = files /\ Kept' = Kept /\ Lasting' = Lasting /\ failed' = failed
    BY <1>1 DEF Quiet, Kept, Lasting, Processes
  <2> QED
    BY <2>1 DEF Layered, Shrinking, Named
<1>2. CASE Cleans
  <2>1. files' = Kept /\ Kept' = Kept /\ failed' = failed
    BY <1>2, KeptIs DEF Cleans, Kept
  <2>2. Lasting' = Lasting
    BY <1>2, <2>1 DEF Cleans, Lasting, Processes
  <2>3. Kept \subseteq Lasting
    BY DEF Lasting
  <2> QED
    BY <2>1, <2>2, <2>3 DEF Layered, Shrinking, Named
<1>3. CASE \E p \in Processes : CombineEnds(p)
  <2>1. PICK p \in Processes : CombineEnds(p)
    BY <1>3
  <2>2. failed' = failed
    BY <2>1 DEF CombineEnds
  <2>3. /\ Processes' = Processes \ {p}
        /\ \/ files' = files \union {p.output} /\ Kept' = Kept \union {p.output}
           \/ files' = files /\ Kept' = Kept
    BY <2>1, EndIs
  <2>4. Lasting' \subseteq Lasting /\ files' \union Lasting' \subseteq files \union Lasting
    BY <2>3 DEF Lasting
  <2> QED
    BY <2>2, <2>4 DEF Layered, Shrinking, Named
<1>4. CASE \E b \in Banks : Dump(b)
  BY <1>4, LayeredDump
<1>5. CASE Starts
  BY <1>5, LayeredStarts
<1>6. ~Restart
  BY DEF Restart
<1> QED
  BY <1>1, <1>2, <1>3, <1>4, <1>5, <1>6, DiskStep

\* While no merging fails and the job is not restarted, a file's name tells what
\* it holds, whatever files are merged, and however often (NamedByContent).  After
\* a failure or a restart it need not.
THEOREM NamesTellContents ==
  ~MayRestart /\ ~SubprocessMayFail => (Spec => []NamedByContent)
<1> SUFFICES ASSUME ~MayRestart, ~SubprocessMayFail PROVE Spec => []NamedByContent
  OBVIOUS
<1>1. Init => Typed /\ Held /\ Covered /\ Layered
  <2> SUFFICES ASSUME Init PROVE Covered /\ Layered
    BY TypedInit, HeldInit
  <2>1. Covered
    <3>1. \A b \in Banks : dumped[b] = 0
      BY DEF Init
    <3> QED
      BY <3>1 DEF Covered
  <2>2. files = {} /\ Lasting = {} /\ failed = {}
    BY DEF Init, Lasting, Kept, Processes
  <2> QED
    BY <2>1, <2>2 DEF Layered, Shrinking
<1>2. Typed /\ Held /\ Covered /\ Layered /\ [Next]_vars
        => Typed' /\ Held' /\ Covered' /\ Layered'
  BY TypedStep, HeldStep, CoveredStep, LayeredStep
<1>3. Layered => NamedByContent
  BY DEF Layered, NamedByContent, Named
<1> QED
  BY <1>1, <1>2, <1>3, PTL DEF Spec

=============================================================================
