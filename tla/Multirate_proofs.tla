--------------------------- MODULE Multirate_proofs ---------------------------
(***************************************************************************)
(* Theorems about the multirate element, for any number of depths, any     *)
(* lengths of the filters, rate, buffers and holes: what is pushed is      *)
(* complete, in order and flagged as the input; no depth's queue ever      *)
(* overflows or is read ahead of what was written; no assertion of the     *)
(* streaming thread fails; and one execution per buffer is enough.         *)
(***************************************************************************)
EXTENDS Multirate, SequenceTheorems, WellFoundedInduction, TLAPS

-----------------------------------------------------------------------------
(* Induction and recursion up to a number.                                 *)

\* A set of natural numbers has a least one.
LEMMA Least ==
  ASSUME NEW S \in SUBSET Nat, S # {}
  PROVE  \E x \in S : \A y \in S : x <= y
<1> DEFINE R == OpToRel(<, Nat)
<1>1. R = {ss \in Nat \X Nat : ss[1] < ss[2]}
  BY Zenon DEF OpToRel
<1>2. IsWellFoundedOn(R, Nat)
  BY NatLessThanWellFounded, Zenon
<1> HIDE DEF R
<1>3. PICK x \in S : \A y \in S : <<y, x>> \notin R
  BY <1>2, WFMin
<1>4. ASSUME NEW y \in S
      PROVE  x <= y
  <2>1. <<y, x>> \in Nat \X Nat /\ x \in Nat /\ y \in Nat
    OBVIOUS
  <2>2. ~(<<y, x>>[1] < <<y, x>>[2])
    BY <1>1, <1>3, <2>1
  <2> QED
    BY <2>1, <2>2
<1> QED
  BY <1>4

\* What holds of 0 and passes from each number to the next holds up to n.
LEMMA UpTo ==
  ASSUME NEW n \in Nat, NEW S, 0 \in S, \A i \in 1..n : i - 1 \in S => i \in S
  PROVE  \A i \in 0..n : i \in S
<1> DEFINE Missing == {i \in 0..n : i \notin S}
<1>1. SUFFICES ASSUME Missing # {} PROVE FALSE
  OBVIOUS
<1>2. Missing \in SUBSET Nat
  OBVIOUS
<1>3. PICK x \in Missing : \A y \in Missing : x <= y
  <2> HIDE DEF Missing
  <2> QED
    BY <1>1, <1>2, Least
<1>4. x \in 0..n /\ x \notin S /\ x # 0 /\ x - 1 \in 0..n /\ ~(x <= x - 1) /\ x \in 1..n
  OBVIOUS
<1>5. x - 1 \in S
  BY <1>3, <1>4
<1> QED
  BY <1>4, <1>5

\* G says what follows value x at number i.
Step(G, n, V) == G \in [(1..n) \X V -> V]

Follows(f, n, V, a, G) ==
  f \in [0..n -> V] /\ f[0] = a /\ \A i \in 1..n : f[i] = G[<<i, f[i - 1]>>]

\* A function may be defined up to n by a first value and a step.
LEMMA Recursion ==
  ASSUME NEW n \in Nat, NEW V, NEW a \in V, NEW G, Step(G, n, V)
  PROVE  \E f : Follows(f, n, V, a, G)
<1> DEFINE Is(f, k) == /\ f \in [0..k -> V] /\ f[0] = a
                       /\ \A i \in 1..k : f[i] = G[<<i, f[i - 1]>>]
           S == {k \in 0..n : \E f : Is(f, k)}
<1>1. 0 \in S
  <2> DEFINE f == [i \in 0..0 |-> a]
  <2>1. f \in [0..0 -> V] /\ f[0] = a /\ \A i \in 1..0 : f[i] = G[<<i, f[i - 1]>>]
    OBVIOUS
  <2> HIDE DEF f
  <2> QED
    BY <2>1
<1>2. ASSUME NEW k \in 1..n, k - 1 \in S
      PROVE  k \in S
  <2>1. PICK f : Is(f, k - 1)
    BY <1>2
  <2> DEFINE g == [i \in 0..k |-> IF i = k THEN G[<<k, f[k - 1]>>] ELSE f[i]]
  <2>2. k - 1 \in 0..(k - 1) /\ k \in 0..k /\ k # 0 /\ 0 \in 0..k
    OBVIOUS
  <2>3. G[<<k, f[k - 1]>>] \in V
    BY <2>1, <2>2 DEF Step
  <2>4. g \in [0..k -> V]
    <3>1. ASSUME NEW i \in 0..k PROVE g[i] \in V
      <4>1. i # k => i \in 0..(k - 1)
        OBVIOUS
      <4> QED
        BY <2>1, <2>3, <4>1
    <3> QED
      BY <3>1
  <2>5. g[0] = a
    BY <2>1, <2>2
  <2>6. ASSUME NEW i \in 1..k PROVE g[i] = G[<<i, g[i - 1]>>]
    <3>1. i - 1 \in 0..k /\ i - 1 # k /\ i \in 0..k /\ g[i - 1] = f[i - 1]
      OBVIOUS
    <3>2. i # k => i \in 1..(k - 1)
      OBVIOUS
    <3> QED
      BY <2>1, <3>1, <3>2
  <2> HIDE DEF g
  <2>7. Is(g, k)
    BY <2>4, <2>5, <2>6
  <2> QED
    BY <2>7
<1>3. n \in S
  <2> HIDE DEF S
  <2>1. \A i \in 0..n : i \in S
    BY <1>1, <1>2, UpTo
  <2> QED
    BY <2>1
<1>4. PICK f : Is(f, n)
  BY <1>3
<1>5. Follows(f, n, V, a, G)
  BY <1>4 DEF Follows
<1> QED
  BY <1>5

-----------------------------------------------------------------------------
(* Filter banks.                                                           *)

\* Halving is halving, at every depth.
LEMMA HalvedIs ==
  ASSUME NEW b, b.num_depths \in Nat \ {0}, NEW n \in Nat
  PROVE  /\ Halved(b, n) \in [0..(b.num_depths - 1) -> Nat] /\ Halved(b, n)[0] = n
         /\ \A i \in 1..(b.num_depths - 1) :
              Halved(b, n)[i] = Halved(b, n)[i - 1] \div 2
<1> DEFINE m == b.num_depths - 1
           G == [p \in (1..m) \X Nat |-> p[2] \div 2]
           Is(f) == f = [i \in 0..m |-> IF i = 0 THEN n ELSE f[i - 1] \div 2]
           h == CHOOSE f : Is(f)
<1>1. m \in Nat
  OBVIOUS
<1>2. Halved(b, n) = h
  BY Zenon DEF Halved
<1> HIDE DEF m
<1>3. Step(G, m, Nat)
  BY DEF Step
<1>4. PICK f \in [0..m -> Nat] :
        f[0] = n /\ \A i \in 1..m : f[i] = G[<<i, f[i - 1]>>]
  <2> HIDE DEF G
  <2>1. n \in Nat /\ m \in Nat
    BY <1>1
  <2>2. PICK f : Follows(f, m, Nat, n, G)
    BY <1>3, <2>1, Recursion, Zenon
  <2> QED
    BY <2>2 DEF Follows
<1>5. Is(f)
  <2>1. ASSUME NEW i \in 0..m
        PROVE  f[i] = IF i = 0 THEN n ELSE f[i - 1] \div 2
    <3>1. CASE i = 0
      <4> HIDE DEF G
      <4> QED
        BY <1>1, <1>4, <3>1
    <3>2. CASE i # 0
      <4>1. i - 1 \in 0..m /\ i \in 1..m
        BY <1>1, <3>2
      <4>2. <<i, f[i - 1]>> \in (1..m) \X Nat
        BY <1>4, <4>1
      <4>3. G[<<i, f[i - 1]>>] = f[i - 1] \div 2
        BY <4>2
      <4> HIDE DEF G
      <4> QED
        BY <1>4, <3>2, <4>3
    <3> QED
      BY <3>1, <3>2
  <2> HIDE DEF G
  <2> QED
    BY <1>4, <2>1
<1>6. Is(h)
  BY <1>5, Zenon
<1> HIDE DEF h
<1>7. h = [i \in 0..m |-> h[i]]
  BY <1>6
<1>a. h[0] = n /\ \A i \in 1..m : h[i] = h[i - 1] \div 2
  <2>1. \A i \in 0..m : h[i] = IF i = 0 THEN n ELSE h[i - 1] \div 2
    BY <1>6
  <2>2. 0 \in 0..m /\ \A i \in 1..m : i \in 0..m /\ i # 0
    BY <1>1
  <2> QED
    BY <2>1, <2>2
<1>8. h \in [0..m -> Nat]
  <2> DEFINE S == {i \in 0..m : h[i] \in Nat}
  <2>1. 0 \in S
    BY <1>1, <1>a
  <2>2. ASSUME NEW i \in 1..m, i - 1 \in S PROVE i \in S
    <3>1. h[i] = h[i - 1] \div 2 /\ h[i - 1] \in Nat /\ i \in 0..m
      BY <1>1, <1>a, <2>2
    <3> QED
      BY <3>1
  <2>3. \A i \in 0..m : i \in S
    <3> HIDE DEF S
    <3> QED
      BY <1>1, <2>1, <2>2, UpTo
  <2> QED
    BY <1>7, <2>3
<1> QED
  BY <1>2, <1>a, <1>8 DEF m

\* What each resampler needs is what its two neighbours say.
LEMMA CoverIs ==
  ASSUME NEW b \in Bank
  PROVE  /\ Cover(b) \in [0..b.num_depths -> Nat]
         /\ \A i \in 0..b.num_depths : i <= 1 => Cover(b)[i] = b.up_filtlen
         /\ \A i \in 2..b.num_depths :
              Cover(b)[i] = 2 * Cover(b)[i - 1] + b.down_filtlen \div 2
<1> DEFINE m == b.num_depths
           u == b.up_filtlen
           d == b.down_filtlen \div 2
           G == [p \in (1..m) \X Nat |-> IF p[1] <= 1 THEN u ELSE 2 * p[2] + d]
           Is(f) == f = [i \in 0..m |-> IF i <= 1 THEN u ELSE 2 * f[i - 1] + d]
           h == CHOOSE f : Is(f)
<1>1. m \in Nat /\ u \in Nat /\ d \in Nat
  BY DEF Bank
<1>2. Cover(b) = h
  BY Zenon DEF Cover
<1> HIDE DEF m, u, d
<1>3. Step(G, m, Nat)
  <2>1. \A p \in (1..m) \X Nat : p[1] \in 1..m /\ p[2] \in Nat
    OBVIOUS
  <2> QED
    BY <1>1, <2>1 DEF Step
<1>4. PICK f \in [0..m -> Nat] :
        f[0] = u /\ \A i \in 1..m : f[i] = G[<<i, f[i - 1]>>]
  <2> HIDE DEF G
  <2>1. u \in Nat /\ m \in Nat
    BY <1>1
  <2>2. PICK f : Follows(f, m, Nat, u, G)
    BY <1>3, <2>1, Recursion, Zenon
  <2> QED
    BY <2>2 DEF Follows
<1>5. Is(f)
  <2>1. ASSUME NEW i \in 0..m
        PROVE  f[i] = IF i <= 1 THEN u ELSE 2 * f[i - 1] + d
    <3>1. CASE i = 0
      <4> HIDE DEF G
      <4> QED
        BY <1>1, <1>4, <3>1
    <3>2. CASE i # 0
      <4>1. i - 1 \in 0..m /\ i \in 1..m
        BY <1>1, <3>2
      <4>2. <<i, f[i - 1]>> \in (1..m) \X Nat
        BY <1>4, <4>1
      <4>3. G[<<i, f[i - 1]>>] = IF i <= 1 THEN u ELSE 2 * f[i - 1] + d
        BY <4>2
      <4> HIDE DEF G
      <4> QED
        BY <1>4, <3>2, <4>3
    <3> QED
      BY <3>1, <3>2
  <2> HIDE DEF G
  <2> QED
    BY <1>4, <2>1
<1>6. Is(h)
  BY <1>5, Zenon
<1> HIDE DEF h
<1>7. h = [i \in 0..m |-> h[i]]
  BY <1>6
<1>a. \A i \in 0..m : h[i] = IF i <= 1 THEN u ELSE 2 * h[i - 1] + d
  BY <1>6
<1>8. h \in [0..m -> Nat]
  <2> DEFINE S == {i \in 0..m : h[i] \in Nat}
  <2>1. 0 \in S
    <3>1. 0 \in 0..m /\ h[0] = u
      BY <1>1, <1>a
    <3> QED
      BY <1>1, <3>1
  <2>2. ASSUME NEW i \in 1..m, i - 1 \in S PROVE i \in S
    <3>1. i \in 0..m /\ h[i - 1] \in Nat
      BY <1>1, <2>2
    <3>2. h[i] = IF i <= 1 THEN u ELSE 2 * h[i - 1] + d
      BY <1>a, <3>1
    <3> QED
      BY <1>1, <3>1, <3>2
  <2>3. \A i \in 0..m : i \in S
    <3> HIDE DEF S
    <3> QED
      BY <1>1, <2>1, <2>2, UpTo
  <2> QED
    BY <1>7, <2>3
<1>9. ASSUME NEW i \in 2..m PROVE h[i] = 2 * h[i - 1] + d
  <2>1. i \in 0..m /\ ~(i <= 1)
    BY <1>1
  <2> QED
    BY <1>a, <2>1
<1> QED
  BY <1>2, <1>1, <1>a, <1>8, <1>9 DEF m, u, d

\* The bank that is loaded, and the head and tail of its chain.
LEMMA BankIs ==
  ASSUME bank \in Banks
  PROVE  /\ bank \in Bank /\ bank.num_depths \in Nat \ {0} /\ bank.rate \in Nat \ {0}
         /\ bank.up_filtlen \in Nat \ {0} /\ bank.down_filtlen \in Nat
         /\ bank.delay_max \in Nat /\ bank.up_filtlen = 2 * (bank.up_filtlen \div 2)
         /\ Bottom \in Nat /\ Bottom = bank.num_depths - 1 /\ Depths = 0..Bottom
         /\ \A i \in 1..Bottom : Halved(bank, bank.rate)[i - 1] % 2 = 0
         /\ Cover(bank) \in [0..bank.num_depths -> Nat]
         /\ HeadCover(bank) \in Nat /\ HeadCover(bank) # bank.rate
         /\ bank.num_depths = 1 => HeadCover(bank) = 0 /\ TailCover(bank) = 0
         /\ bank.num_depths > 1 =>
              /\ HeadCover(bank) = Cover(bank)[bank.num_depths]
              /\ TailCover(bank) = HeadCover(bank) - bank.up_filtlen
<1>1. /\ bank \in Bank /\ bank.num_depths > 0 /\ bank.rate > 0
      /\ \A i \in 1..(bank.num_depths - 1) : Halved(bank, bank.rate)[i - 1] % 2 = 0
      /\ bank.up_filtlen % 2 = 0 /\ bank.up_filtlen > 0 /\ HeadCover(bank) # bank.rate
  BY BanksAssumption
<1>2. /\ bank.num_depths \in Nat \ {0} /\ bank.rate \in Nat \ {0}
      /\ bank.up_filtlen \in Nat \ {0} /\ bank.down_filtlen \in Nat
      /\ bank.delay_max \in Nat
  BY <1>1 DEF Bank
<1>3. bank.up_filtlen = 2 * (bank.up_filtlen \div 2)
  BY <1>1, <1>2
<1>4. Cover(bank) \in [0..bank.num_depths -> Nat]
  BY <1>1, CoverIs
<1>5. HeadCover(bank) \in Nat
  <2>1. bank.num_depths \in 0..bank.num_depths
    BY <1>2
  <2> QED
    BY <1>4, <2>1 DEF HeadCover
<1>6. Bottom \in Nat /\ Bottom = bank.num_depths - 1 /\ Depths = 0..Bottom
  BY <1>2 DEF Bottom, Depths
<1>7. bank.num_depths = 1 => HeadCover(bank) = 0 /\ TailCover(bank) = 0
  BY DEF HeadCover, TailCover
<1>8. bank.num_depths > 1 => /\ HeadCover(bank) = Cover(bank)[bank.num_depths]
                             /\ TailCover(bank) = HeadCover(bank) - bank.up_filtlen
  BY DEF HeadCover, TailCover
<1> QED
  BY <1>1, <1>2, <1>3, <1>4, <1>5, <1>6, <1>7, <1>8

\* An output of any resampler needs what one of the topmost upsampler needs.
LEMMA CoverAtLeast ==
  ASSUME bank \in Banks
  PROVE  \A i \in 0..bank.num_depths :
           /\ Cover(bank)[i] \in Nat /\ Cover(bank)[i] >= bank.up_filtlen
           /\ i > 1 => Cover(bank)[i] > bank.up_filtlen
<1> DEFINE m == bank.num_depths
           u == bank.up_filtlen
           C == Cover(bank)
           S == {i \in 0..m : C[i] >= u /\ (i > 1 => C[i] > u)}
<1>1. m \in Nat /\ u \in Nat \ {0} /\ bank.down_filtlen \div 2 \in Nat
  BY BankIs
<1>2. /\ C \in [0..m -> Nat] /\ \A i \in 0..m : i <= 1 => C[i] = u
      /\ \A i \in 2..m : C[i] = 2 * C[i - 1] + bank.down_filtlen \div 2
  BY BankIs, CoverIs
<1> HIDE DEF m, u, C
<1>3. 0 \in S
  BY <1>1, <1>2
<1>4. ASSUME NEW i \in 1..m, i - 1 \in S
      PROVE  i \in S
  <2>1. i \in 0..m /\ i - 1 \in 0..m /\ C[i] \in Nat /\ C[i - 1] \in Nat
    BY <1>1, <1>2
  <2>2. CASE i = 1
    BY <1>1, <1>2, <2>1, <2>2
  <2>3. CASE i # 1
    <3>1. i \in 2..m
      BY <1>1, <2>3
    <3>2. C[i] = 2 * C[i - 1] + bank.down_filtlen \div 2 /\ C[i - 1] >= u
      BY <1>2, <1>4, <3>1
    <3> QED
      BY <1>1, <2>1, <3>2
  <2> QED
    BY <2>2, <2>3
<1>5. \A i \in 0..m : i \in S
  <2> HIDE DEF S
  <2> QED
    BY <1>1, <1>3, <1>4, UpTo
<1> QED
  BY <1>2, <1>5 DEF m, u, C

\* Halving in the bank that is loaded.
LEMMA BankHalved ==
  ASSUME bank \in Banks, NEW n \in Nat
  PROVE  /\ Halved(bank, n) \in [Depths -> Nat] /\ Halved(bank, n)[0] = n
         /\ \A i \in 1..Bottom : Halved(bank, n)[i] = Halved(bank, n)[i - 1] \div 2
<1>1. bank.num_depths \in Nat \ {0} /\ Bottom = bank.num_depths - 1 /\ Depths = 0..Bottom
  BY BankIs
<1>2. /\ Halved(bank, n) \in [0..(bank.num_depths - 1) -> Nat] /\ Halved(bank, n)[0] = n
      /\ \A i \in 1..(bank.num_depths - 1) :
           Halved(bank, n)[i] = Halved(bank, n)[i - 1] \div 2
  BY <1>1, HalvedIs
<1> QED
  BY <1>1, <1>2

\* Fewer samples are no more at any depth.
LEMMA HalvedOrder ==
  ASSUME bank \in Banks, NEW m \in Nat, NEW n \in Nat, m <= n
  PROVE  \A i \in Depths : /\ Halved(bank, m)[i] \in Nat /\ Halved(bank, n)[i] \in Nat
                           /\ Halved(bank, m)[i] <= Halved(bank, n)[i]
<1> DEFINE g == Halved(bank, m)
           h == Halved(bank, n)
           S == {i \in Depths : g[i] <= h[i]}
<1>1. Bottom \in Nat /\ Depths = 0..Bottom
  BY BankIs
<1>2. /\ g \in [Depths -> Nat] /\ g[0] = m /\ h \in [Depths -> Nat] /\ h[0] = n
      /\ \A i \in 1..Bottom : g[i] = g[i - 1] \div 2 /\ h[i] = h[i - 1] \div 2
  BY BankHalved
<1> HIDE DEF g, h
<1>3. 0 \in S
  BY <1>1, <1>2
<1>4. ASSUME NEW i \in 1..Bottom, i - 1 \in S
      PROVE  i \in S
  <2>1. /\ i \in Depths /\ i - 1 \in Depths /\ g[i - 1] \in Nat /\ h[i - 1] \in Nat
        /\ g[i] = g[i - 1] \div 2 /\ h[i] = h[i - 1] \div 2 /\ g[i - 1] <= h[i - 1]
    BY <1>1, <1>2, <1>4
  <2> QED
    BY <2>1
<1>5. \A i \in 0..Bottom : i \in S
  <2> HIDE DEF S
  <2> QED
    BY <1>1, <1>3, <1>4, UpTo
<1> QED
  BY <1>1, <1>2, <1>5 DEF g, h

\* Half of at least twice as much and something.
LEMMA HalfOf ==
  ASSUME NEW c \in Nat, NEW d \in Nat, NEW r \in Nat, NEW g \in Nat, NEW h \in Nat,
         2 * c + d <= g, 2 * (2 * c + d) + r <= h
  PROVE  c <= g \div 2 /\ 2 * c + (r \div 2) <= h \div 2
OBVIOUS

\* The head is enough for each depth's cover, twice the head for twice the cover and
\* whatever is added to it.
LEMMA HalvedCover ==
  ASSUME bank \in Banks, bank.num_depths > 1, NEW r \in Nat
  PROVE  \A i \in Depths :
           /\ Cover(bank)[bank.num_depths - i] <= Halved(bank, HeadCover(bank))[i]
           /\ 2 * Cover(bank)[bank.num_depths - i] + Halved(bank, r)[i]
                <= Halved(bank, 2 * HeadCover(bank) + r)[i]
<1> DEFINE m == bank.num_depths
           d == bank.down_filtlen \div 2
           C == Cover(bank)
           H == HeadCover(bank)
           e == Halved(bank, r)
           g == Halved(bank, H)
           h == Halved(bank, 2 * H + r)
           S == {i \in Depths : C[m - i] <= g[i] /\ 2 * C[m - i] + e[i] <= h[i]}
<1>1. /\ Bottom \in Nat /\ Depths = 0..Bottom /\ Bottom = m - 1 /\ m \in Nat /\ d \in Nat
      /\ H \in Nat /\ H = C[m] /\ C \in [0..m -> Nat] /\ 2 * H + r \in Nat
  <2>1. /\ Bottom \in Nat /\ Depths = 0..Bottom /\ Bottom = m - 1 /\ m \in Nat
        /\ bank.down_filtlen \in Nat /\ H \in Nat /\ H = C[m]
    BY BankIs
  <2>2. C \in [0..m -> Nat]
    BY BankIs
  <2> HIDE DEF m, C, H
  <2> QED
    BY <2>1, <2>2
<1>2. /\ e \in [Depths -> Nat] /\ e[0] = r /\ g \in [Depths -> Nat] /\ g[0] = H
      /\ h \in [Depths -> Nat] /\ h[0] = 2 * H + r
      /\ \A i \in 1..Bottom : /\ e[i] = e[i - 1] \div 2 /\ g[i] = g[i - 1] \div 2
                              /\ h[i] = h[i - 1] \div 2
  BY <1>1, BankHalved
<1>3. \A i \in 2..m : C[i] = 2 * C[i - 1] + d
  BY BankIs, CoverIs
<1> HIDE DEF m, d, C, H, e, g, h
<1>4. 0 \in S
  <2>1. 0 \in Depths /\ m - 0 = m
    BY <1>1
  <2>2. C[m] = H /\ e[0] = r /\ g[0] = H /\ h[0] = 2 * H + r /\ H \in Nat
    BY <1>1, <1>2
  <2>3. C[m - 0] <= g[0] /\ 2 * C[m - 0] + e[0] <= h[0]
    BY <2>1, <2>2
  <2> QED
    BY <2>1, <2>3
<1>5. ASSUME NEW i \in 1..Bottom, i - 1 \in S
      PROVE  i \in S
  <2>0. i \in Depths /\ i - 1 \in Depths
    BY <1>1
  <2>1. /\ i \in Depths /\ i - 1 \in Depths /\ e[i - 1] \in Nat /\ g[i - 1] \in Nat
        /\ h[i - 1] \in Nat /\ e[i] = e[i - 1] \div 2 /\ g[i] = g[i - 1] \div 2
        /\ h[i] = h[i - 1] \div 2
    <3>1. e[i - 1] \in Nat /\ g[i - 1] \in Nat /\ h[i - 1] \in Nat
      BY <1>2, <2>0, Zenon
    <3>2. e[i] = e[i - 1] \div 2 /\ g[i] = g[i - 1] \div 2 /\ h[i] = h[i - 1] \div 2
      BY <1>2, Zenon
    <3> QED
      BY <2>0, <3>1, <3>2
  <2>2. m - (i - 1) \in 2..m /\ m - (i - 1) - 1 = m - i /\ m - i \in 0..m
    BY <1>1
  <2>3. C[m - (i - 1)] = 2 * C[m - i] + d /\ C[m - i] \in Nat
    BY <1>1, <1>3, <2>2
  <2>4. C[m - (i - 1)] <= g[i - 1] /\ 2 * C[m - (i - 1)] + e[i - 1] <= h[i - 1]
    BY <1>5
  <2> HIDE DEF S
  <2>5. C[m - i] <= g[i] /\ 2 * C[m - i] + e[i] <= h[i]
    <3>1. 2 * C[m - i] + d <= g[i - 1] /\ 2 * (2 * C[m - i] + d) + e[i - 1] <= h[i - 1]
      BY <2>3, <2>4
    <3>2. /\ C[m - i] <= g[i - 1] \div 2
          /\ 2 * C[m - i] + (e[i - 1] \div 2) <= h[i - 1] \div 2
      BY <1>1, <2>1, <2>3, <3>1, HalfOf
    <3> QED
      BY <2>1, <3>2
  <2> QED
    BY <2>1, <2>5 DEF S
<1>6. \A i \in 0..Bottom : i \in S
  <2> HIDE DEF S
  <2> QED
    BY <1>1, <1>4, <1>5, UpTo
<1> QED
  BY <1>1, <1>6 DEF m, C, H, e, g, h

-----------------------------------------------------------------------------
(* The chain.                                                              *)

Chains == [down : [Depths -> Nat], up : [Depths -> Nat],
           written : [Depths -> Int], read : [Depths -> Int]]

\* On the way down each depth skips samples and halves the rest.
LEMMA DownIs ==
  ASSUME bank \in Banks, NEW c \in Chains, NEW n \in Int
  PROVE  /\ Down(c, n) \in [Depths -> Int] /\ Down(c, n)[0] = n
         /\ \A i \in 1..Bottom :
              Down(c, n)[i] = (Down(c, n)[i - 1] - c.down[i - 1]) \div 2
<1> DEFINE m == Bottom
           s == c.down
           G == [p \in (1..m) \X Int |-> (p[2] - s[p[1] - 1]) \div 2]
           Is(f) == f = [i \in Depths |-> IF i = 0 THEN n ELSE (f[i - 1] - s[i - 1]) \div 2]
           h == CHOOSE f : Is(f)
<1>1. m \in Nat /\ Depths = 0..m /\ s \in [Depths -> Nat]
  BY BankIs DEF Chains
<1>2. Down(c, n) = h
  BY Zenon DEF Down
<1> HIDE DEF m, s
<1>3. Step(G, m, Int)
  <2>1. \A p \in (1..m) \X Int : p[1] \in 1..m /\ p[2] \in Int
    OBVIOUS
  <2>2. \A p \in (1..m) \X Int : p[1] - 1 \in Depths
    BY <1>1, <2>1
  <2> QED
    BY <1>1, <2>1, <2>2 DEF Step
<1>4. PICK f \in [0..m -> Int] :
        f[0] = n /\ \A i \in 1..m : f[i] = G[<<i, f[i - 1]>>]
  <2> HIDE DEF G
  <2>1. n \in Int /\ m \in Nat
    BY <1>1
  <2>2. PICK f : Follows(f, m, Int, n, G)
    BY <1>3, <2>1, Recursion, Zenon
  <2> QED
    BY <2>2 DEF Follows
<1>5. Is(f)
  <2>1. ASSUME NEW i \in 0..m
        PROVE  f[i] = IF i = 0 THEN n ELSE (f[i - 1] - s[i - 1]) \div 2
    <3>1. CASE i = 0
      <4> HIDE DEF G
      <4> QED
        BY <1>1, <1>4, <3>1
    <3>2. CASE i # 0
      <4>1. i - 1 \in 0..m /\ i \in 1..m
        BY <1>1, <3>2
      <4>2. <<i, f[i - 1]>> \in (1..m) \X Int
        BY <1>4, <4>1
      <4>3. G[<<i, f[i - 1]>>] = (f[i - 1] - s[i - 1]) \div 2
        BY <4>2
      <4> HIDE DEF G
      <4> QED
        BY <1>4, <3>2, <4>3
    <3> QED
      BY <3>1, <3>2
  <2> HIDE DEF G
  <2> QED
    BY <1>1, <1>4, <2>1
<1>6. Is(h)
  BY <1>5, Zenon
<1> HIDE DEF h
<1>7. h = [i \in Depths |-> h[i]]
  BY <1>6
<1>8. h[0] = n /\ \A i \in 1..m : h[i] = (h[i - 1] - s[i - 1]) \div 2
  <2>1. \A i \in Depths : h[i] = IF i = 0 THEN n ELSE (h[i - 1] - s[i - 1]) \div 2
    BY <1>6
  <2>2. 0 \in Depths /\ \A i \in 1..m : i \in Depths /\ i # 0
    BY <1>1
  <2> QED
    BY <2>1, <2>2
<1>9. h \in [Depths -> Int]
  <2> DEFINE S == {i \in 0..m : h[i] \in Int}
  <2>1. 0 \in S
    BY <1>1, <1>8
  <2>2. ASSUME NEW i \in 1..m, i - 1 \in S PROVE i \in S
    <3>1. /\ h[i] = (h[i - 1] - s[i - 1]) \div 2 /\ h[i - 1] \in Int /\ i \in 0..m
          /\ s[i - 1] \in Nat
      BY <1>1, <1>8, <2>2
    <3> QED
      BY <3>1
  <2>3. \A i \in 0..m : i \in S
    <3> HIDE DEF S
    <3> QED
      BY <1>1, <2>1, <2>2, UpTo
  <2> QED
    BY <1>1, <1>7, <2>3
<1> QED
  BY <1>2, <1>8, <1>9 DEF m, s

\* On the way up each depth skips samples and doubles the rest.
LEMMA UpIs ==
  ASSUME bank \in Banks, NEW c \in Chains, NEW n \in Int
  PROVE  /\ Up(c, n) \in [Depths -> Int] /\ Up(c, n)[Bottom] = Down(c, n)[Bottom]
         /\ \A i \in 0..(Bottom - 1) : Up(c, n)[i] = 2 * (Up(c, n)[i + 1] - c.up[i + 1])
<1> DEFINE m == Bottom
           s == c.up
           a == Down(c, n)[Bottom]
           G == [p \in (1..m) \X Int |-> 2 * (p[2] - s[m - p[1] + 1])]
           Is(f) == f = [j \in Depths |-> IF j = 0 THEN a ELSE 2 * (f[j - 1] - s[m - j + 1])]
           h == CHOOSE f : Is(f)
<1>1. m \in Nat /\ Depths = 0..m /\ s \in [Depths -> Nat] /\ a \in Int
  <2>1. m \in Nat /\ Depths = 0..m /\ s \in [Depths -> Nat]
    BY BankIs DEF Chains
  <2>2. Down(c, n) \in [Depths -> Int]
    BY DownIs
  <2> QED
    BY <2>1, <2>2
<1>2. Up(c, n) = [i \in Depths |-> h[m - i]]
  BY Zenon DEF Up
<1> HIDE DEF m, s, a
<1>3. Step(G, m, Int)
  <2>1. \A p \in (1..m) \X Int : p[1] \in 1..m /\ p[2] \in Int
    OBVIOUS
  <2>2. \A p \in (1..m) \X Int : m - p[1] + 1 \in Depths
    BY <1>1, <2>1
  <2> QED
    BY <1>1, <2>1, <2>2 DEF Step
<1>4. PICK f \in [0..m -> Int] :
        f[0] = a /\ \A i \in 1..m : f[i] = G[<<i, f[i - 1]>>]
  <2> HIDE DEF G
  <2>1. a \in Int /\ m \in Nat
    BY <1>1
  <2>2. PICK f : Follows(f, m, Int, a, G)
    BY <1>3, <2>1, Recursion, Zenon
  <2> QED
    BY <2>2 DEF Follows
<1>5. Is(f)
  <2>1. ASSUME NEW i \in 0..m
        PROVE  f[i] = IF i = 0 THEN a ELSE 2 * (f[i - 1] - s[m - i + 1])
    <3>1. CASE i = 0
      <4> HIDE DEF G
      <4> QED
        BY <1>1, <1>4, <3>1
    <3>2. CASE i # 0
      <4>1. i - 1 \in 0..m /\ i \in 1..m
        BY <1>1, <3>2
      <4>2. <<i, f[i - 1]>> \in (1..m) \X Int
        BY <1>4, <4>1
      <4>3. G[<<i, f[i - 1]>>] = 2 * (f[i - 1] - s[m - i + 1])
        BY <4>2
      <4> HIDE DEF G
      <4> QED
        BY <1>4, <3>2, <4>3
    <3> QED
      BY <3>1, <3>2
  <2> HIDE DEF G
  <2> QED
    BY <1>1, <1>4, <2>1
<1>6. Is(h)
  BY <1>5, Zenon
<1> HIDE DEF h
<1>7. h[0] = a /\ \A i \in 1..m : h[i] = 2 * (h[i - 1] - s[m - i + 1])
  <2>1. \A i \in Depths : h[i] = IF i = 0 THEN a ELSE 2 * (h[i - 1] - s[m - i + 1])
    BY <1>6
  <2>2. 0 \in Depths /\ \A i \in 1..m : i \in Depths /\ i # 0
    BY <1>1
  <2> QED
    BY <2>1, <2>2
<1>8. \A i \in 0..m : h[i] \in Int
  <2> DEFINE S == {i \in 0..m : h[i] \in Int}
  <2>1. 0 \in S
    BY <1>1, <1>7
  <2>2. ASSUME NEW i \in 1..m, i - 1 \in S PROVE i \in S
    <3>1. /\ h[i] = 2 * (h[i - 1] - s[m - i + 1]) /\ h[i - 1] \in Int /\ i \in 0..m
          /\ s[m - i + 1] \in Nat
      <4>1. m - i + 1 \in Depths
        BY <1>1
      <4> QED
        BY <1>1, <1>7, <2>2, <4>1
    <3> QED
      BY <3>1
  <2>3. \A i \in 0..m : i \in S
    <3> HIDE DEF S
    <3> QED
      BY <1>1, <2>1, <2>2, UpTo
  <2> QED
    BY <2>3
<1>9. \A i \in Depths : m - i \in 0..m
  BY <1>1
<1>10. Up(c, n) \in [Depths -> Int] /\ Up(c, n)[m] = a
  <2>1. m \in Depths /\ m - m = 0
    BY <1>1
  <2> QED
    BY <1>2, <1>7, <1>8, <1>9, <2>1
<1>11. ASSUME NEW i \in 0..(m - 1)
       PROVE  Up(c, n)[i] = 2 * (Up(c, n)[i + 1] - s[i + 1])
  <2>1. /\ i \in Depths /\ i + 1 \in Depths /\ m - i \in 1..m
        /\ (m - i) - 1 = m - (i + 1) /\ m - (m - i) + 1 = i + 1
    BY <1>1
  <2>2. h[m - i] = 2 * (h[(m - i) - 1] - s[m - (m - i) + 1])
    BY <1>7, <2>1
  <2> QED
    BY <1>2, <2>1, <2>2
<1> QED
  BY <1>10, <1>11 DEF m, s, a

\* What an execution leaves of the chain.
LEMMA FilteredIs ==
  ASSUME bank \in Banks, NEW c \in Chains, NEW n \in Int
  PROVE  /\ Filtered(c, n) \in Chains
         /\ \A i \in Depths :
              /\ i < Bottom => Filtered(c, n).down[i] = 0
              /\ i > 0 => Filtered(c, n).up[i] = 0
              /\ Filtered(c, n).written[i] =
                   c.written[i] + Down(c, n)[i]
                     - (IF i < Bottom THEN Down(c, n)[i] % 2 ELSE 0)
              /\ Filtered(c, n).read[i] = c.read[i] + Up(c, n)[i]
<1>1. Depths = 0..Bottom /\ Bottom \in Nat
  BY BankIs
<1>2. Down(c, n) \in [Depths -> Int] /\ Up(c, n) \in [Depths -> Int]
  BY DownIs, UpIs
<1>3. /\ c.down \in [Depths -> Nat] /\ c.up \in [Depths -> Nat]
      /\ c.written \in [Depths -> Int] /\ c.read \in [Depths -> Int]
  BY DEF Chains
<1> DEFINE d == [i \in Depths |-> IF i < Bottom THEN 0 ELSE c.down[i]]
           u == [i \in Depths |-> IF i > 0 THEN 0 ELSE c.up[i]]
           w == [i \in Depths |-> c.written[i] + Down(c, n)[i]
                                    - (IF i < Bottom THEN Down(c, n)[i] % 2 ELSE 0)]
           r == [i \in Depths |-> c.read[i] + Up(c, n)[i]]
<1>4. Filtered(c, n) = [down |-> d, up |-> u, written |-> w, read |-> r]
  BY DEF Filtered
<1>5. /\ d \in [Depths -> Nat] /\ u \in [Depths -> Nat]
      /\ w \in [Depths -> Int] /\ r \in [Depths -> Int]
  BY <1>1, <1>2, <1>3
<1>6. \A i \in Depths :
        /\ i < Bottom => d[i] = 0
        /\ i > 0 => u[i] = 0
        /\ w[i] = c.written[i] + Down(c, n)[i]
                    - (IF i < Bottom THEN Down(c, n)[i] % 2 ELSE 0)
        /\ r[i] = c.read[i] + Up(c, n)[i]
  OBVIOUS
<1> HIDE DEF d, u, w, r
<1> QED
  BY <1>4, <1>5, <1>6 DEF Chains

\* How far the filter of a depth may be behind its resampler.
Lead(i) ==
  IF bank.num_depths > 1 THEN Cover(bank)[bank.num_depths - i] - bank.up_filtlen ELSE 0

\* The chain between executions: it skips nothing any more, and what is queued is
\* within the lead.
Lagging(c) ==
  /\ c \in Chains
  /\ \A i \in Depths : /\ i < Bottom => c.down[i] = 0
                       /\ i > 0 => c.up[i] = 0
                       /\ c.read[i] <= c.written[i]
                       /\ c.written[i] - c.read[i] <= Lead(i)

\* The lead and the queue leave room for a second.
LEMMA LeadIs ==
  ASSUME bank \in Banks, NEW i \in Depths
  PROVE  /\ Lead(i) \in Nat
         /\ Lead(i) + Halved(bank, bank.rate)[i] + bank.delay_max <= QueueLen(i)
<1>1. /\ i \in Nat /\ i <= Bottom /\ Bottom = bank.num_depths - 1
      /\ bank.num_depths \in Nat \ {0} /\ bank.rate \in Nat /\ bank.delay_max \in Nat
      /\ bank.up_filtlen \in Nat /\ HeadCover(bank) \in Nat
      /\ bank.num_depths - i \in 0..bank.num_depths
      /\ 2 * HeadCover(bank) + bank.rate \in Nat
  <2>1. /\ Bottom = bank.num_depths - 1 /\ Depths = 0..Bottom
        /\ bank.num_depths \in Nat \ {0} /\ bank.rate \in Nat /\ bank.delay_max \in Nat
        /\ bank.up_filtlen \in Nat /\ HeadCover(bank) \in Nat
    BY BankIs
  <2>2. i \in Nat /\ i <= Bottom
    BY <2>1
  <2> QED
    BY <2>1, <2>2
<1>2. /\ Halved(bank, bank.rate)[i] \in Nat
      /\ Halved(bank, 2 * HeadCover(bank) + bank.rate)[i] \in Nat
      /\ bank.num_depths = 1 => HeadCover(bank) = 0
  BY <1>1, BankHalved, BankIs
<1>3. CASE bank.num_depths > 1
  <2>1. /\ Cover(bank)[bank.num_depths - i] \in Nat
        /\ Cover(bank)[bank.num_depths - i] >= bank.up_filtlen
    BY <1>1, CoverAtLeast
  <2>2. 2 * Cover(bank)[bank.num_depths - i] + Halved(bank, bank.rate)[i]
          <= Halved(bank, 2 * HeadCover(bank) + bank.rate)[i]
    BY <1>1, <1>3, HalvedCover
  <2> QED
    BY <1>1, <1>2, <1>3, <2>1, <2>2 DEF Lead, QueueLen
<1>4. CASE ~(bank.num_depths > 1)
  <2>1. bank.num_depths = 1
    BY <1>1, <1>4
  <2>2. HeadCover(bank) = 0
    BY <1>2, <2>1
  <2>3. 2 * HeadCover(bank) + bank.rate = bank.rate
    BY <1>1, <2>2
  <2> QED
    BY <1>1, <1>2, <1>4, <2>3 DEF Lead, QueueLen
<1> QED
  BY <1>3, <1>4

\* The maximum of two lengths is at least either.
LEMMA MaxOf ==
  ASSUME NEW m \in Int, NEW n \in Int
  PROVE  /\ Max({m, n}) \in {m, n} /\ m <= Max({m, n}) /\ n <= Max({m, n})
         /\ Min({m, n}) \in {m, n} /\ Min({m, n}) <= m /\ Min({m, n}) <= n
<1>1. \E x \in {m, n} : \A y \in {m, n} : x >= y
  OBVIOUS
<1>2. \E x \in {m, n} : \A y \in {m, n} : x <= y
  OBVIOUS
<1>3. Max({m, n}) \in {m, n} /\ \A y \in {m, n} : Max({m, n}) >= y
  BY <1>1 DEF Max
<1>4. Min({m, n}) \in {m, n} /\ \A y \in {m, n} : Min({m, n}) <= y
  BY <1>2 DEF Min
<1> QED
  BY <1>3, <1>4

\* The memory of the resamplers is enough for a second and for the head.
LEMMA MemoryIs ==
  ASSUME bank \in Banks, NEW i \in Depths
  PROVE  /\ Halved(bank, Max({HeadCover(bank), bank.rate}))[i] \in Nat
         /\ \A n \in Nat : n <= bank.rate \/ n <= HeadCover(bank) =>
              Halved(bank, n)[i] <= Halved(bank, Max({HeadCover(bank), bank.rate}))[i]
<1>1. HeadCover(bank) \in Nat /\ bank.rate \in Nat
  BY BankIs
<1> DEFINE m == Max({HeadCover(bank), bank.rate})
<1>2. m \in Nat /\ HeadCover(bank) <= m /\ bank.rate <= m
  <2>1. HeadCover(bank) \in Int /\ bank.rate \in Int
    BY <1>1
  <2>2. /\ m \in {HeadCover(bank), bank.rate}
        /\ HeadCover(bank) <= m /\ bank.rate <= m
    BY <2>1, MaxOf, Zenon
  <2> HIDE DEF m
  <2> QED
    BY <1>1, <2>2
<1> HIDE DEF m
<1>3. \A n \in Nat : n <= bank.rate \/ n <= HeadCover(bank) => n <= m
  BY <1>1, <1>2
<1>4. Halved(bank, m)[i] \in Nat
  BY <1>2, BankHalved
<1>5. ASSUME NEW n \in Nat, n <= bank.rate \/ n <= HeadCover(bank)
      PROVE  Halved(bank, n)[i] <= Halved(bank, m)[i]
  BY <1>2, <1>3, <1>5, HalvedOrder
<1> QED
  BY <1>4, <1>5 DEF m

\* A chain that lags takes a second, or less: no queue overflows and none is read
\* ahead of what was written, though each depth but the last may discard a sample.
LEMMA LaggingTakes ==
  ASSUME bank \in Banks, NEW c, Lagging(c), NEW n \in Nat, n <= bank.rate
  PROVE  /\ Fits(c, n)
         /\ Up(c, n)[0] \in 0..n
         /\ n = bank.rate => Lagging(Filtered(c, n)) /\ Up(c, n)[0] = n
<1> DEFINE D == Down(c, n)
           U == Up(c, n)
           h == Halved(bank, n)
           odd(i) == IF i < Bottom THEN D[i] % 2 ELSE 0
<1>1. Bottom \in Nat /\ Depths = 0..Bottom /\ bank.rate \in Nat /\ bank.delay_max \in Nat
  BY BankIs
<1>2. /\ c \in Chains
      /\ \A i \in Depths : /\ i < Bottom => c.down[i] = 0
                           /\ i > 0 => c.up[i] = 0
                           /\ c.read[i] <= c.written[i]
                           /\ c.written[i] - c.read[i] <= Lead(i)
  BY DEF Lagging
<1>3. \A i \in Depths : c.read[i] \in Int /\ c.written[i] \in Int
  BY <1>2 DEF Chains
<1>4. /\ D \in [Depths -> Int] /\ D[0] = n
      /\ \A i \in 1..Bottom : D[i] = (D[i - 1] - c.down[i - 1]) \div 2
  BY <1>2, DownIs
<1>5. /\ U \in [Depths -> Int] /\ U[Bottom] = D[Bottom]
      /\ \A i \in 0..(Bottom - 1) : U[i] = 2 * (U[i + 1] - c.up[i + 1])
  BY <1>2, UpIs
<1>6. /\ h \in [Depths -> Nat] /\ h[0] = n
      /\ \A i \in 1..Bottom : h[i] = h[i - 1] \div 2
  BY BankHalved
<1>7. \A i \in 1..Bottom : Halved(bank, bank.rate)[i - 1] % 2 = 0
  BY BankIs
<1> HIDE DEF D, U, h
<1>8. \A i \in Depths : D[i] = h[i]
  <2> DEFINE S == {i \in Depths : D[i] = h[i]}
  <2>1. 0 \in S
    BY <1>1, <1>4, <1>6
  <2>2. ASSUME NEW i \in 1..Bottom, i - 1 \in S PROVE i \in S
    <3>1. i \in Depths /\ i - 1 \in Depths /\ i - 1 < Bottom
      BY <1>1
    <3>2. c.down[i - 1] = 0 /\ D[i - 1] \in Int
      BY <1>2, <1>4, <3>1
    <3>3. D[i] = D[i - 1] \div 2
      BY <1>4, <3>2
    <3> QED
      BY <1>6, <2>2, <3>1, <3>3
  <2>3. \A i \in 0..Bottom : i \in S
    <3> HIDE DEF S
    <3> QED
      BY <1>1, <2>1, <2>2, UpTo
  <2> QED
    BY <1>1, <2>3
<1>9. \A i \in 0..(Bottom - 1) : /\ i \in Depths /\ i + 1 \in Depths
                                 /\ U[i] = 2 * U[i + 1] /\ D[i + 1] = D[i] \div 2
  <2> TAKE i \in 0..(Bottom - 1)
  <2>1. /\ i \in Depths /\ i + 1 \in Depths /\ i + 1 \in 1..Bottom /\ (i + 1) - 1 = i
        /\ i + 1 > 0
    BY <1>1
  <2>2. c.up[i + 1] = 0 /\ U[i + 1] \in Int
    BY <1>2, <1>5, <2>1
  <2>3. U[i] = 2 * U[i + 1]
    BY <1>5, <2>2
  <2>4. D[i + 1] = D[i] \div 2
    BY <1>6, <1>8, <2>1
  <2> QED
    BY <2>1, <2>3, <2>4
<1>10. \A i \in Depths : /\ U[i] \in Nat /\ D[i] \in Nat /\ U[i] <= D[i] - odd(i)
                         /\ n = bank.rate => odd(i) = 0 /\ U[i] = D[i]
  <2>1. \A i \in Depths : D[i] \in Nat
    BY <1>6, <1>8
  <2> DEFINE P(i) == /\ U[i] \in Nat /\ U[i] <= D[i] - odd(i)
                     /\ n = bank.rate => odd(i) = 0 /\ U[i] = D[i]
             S == {j \in 0..Bottom : P(Bottom - j)}
  <2>2. 0 \in S
    <3>1. odd(Bottom) = 0 /\ Bottom \in Depths /\ Bottom - 0 = Bottom
      BY <1>1
    <3>2. P(Bottom)
      BY <1>5, <2>1, <3>1
    <3> HIDE DEF P
    <3> QED
      BY <1>1, <3>1, <3>2
  <2>3. ASSUME NEW j \in 1..Bottom, j - 1 \in S PROVE j \in S
    <3> DEFINE i == Bottom - j
    <3>1. i \in 0..(Bottom - 1) /\ i + 1 = Bottom - (j - 1) /\ i < Bottom
      BY <1>1
    <3>2. P(i + 1)
      <4> HIDE DEF P
      <4> QED
        BY <2>3, <3>1
    <3> HIDE DEF i
    <3>3. /\ U[i] = 2 * U[i + 1] /\ D[i + 1] = D[i] \div 2 /\ D[i] \in Nat
          /\ i \in Depths /\ i + 1 \in Depths /\ odd(i) = D[i] % 2 /\ D[i + 1] \in Nat
      BY <1>1, <1>9, <2>1, <3>1
    <3>4. odd(i + 1) \in Nat
      BY <3>3
    <3>5. n = bank.rate => D[i] % 2 = 0
      <4>1. i + 1 \in 1..Bottom /\ (i + 1) - 1 = i
        BY <1>1, <3>1
      <4>2. n = bank.rate => h[i] % 2 = 0
        BY <1>7, <4>1 DEF h
      <4> QED
        BY <1>8, <3>3, <4>2
    <3> HIDE DEF odd
    <3>6. U[i + 1] \in Nat /\ U[i + 1] <= D[i] \div 2 /\ (n = bank.rate => U[i + 1] = D[i + 1])
      BY <3>2, <3>3, <3>4
    <3>7. U[i] \in Nat /\ U[i] <= D[i] - (D[i] % 2)
      BY <3>3, <3>6
    <3>8. n = bank.rate => U[i] = D[i] /\ odd(i) = 0
      BY <3>3, <3>5, <3>6
    <3>9. P(i)
      BY <3>3, <3>7, <3>8
    <3> HIDE DEF P
    <3> QED
      BY <3>9 DEF i
  <2>4. \A j \in 0..Bottom : j \in S
    <3> HIDE DEF S
    <3> QED
      BY <1>1, <2>2, <2>3, UpTo
  <2>5. ASSUME NEW i \in Depths PROVE P(i)
    <3>1. Bottom - i \in 0..Bottom /\ Bottom - (Bottom - i) = i
      BY <1>1
    <3> HIDE DEF P
    <3> QED
      BY <2>4, <3>1
  <2> QED
    BY <2>1, <2>5
<1>11. \A i \in Depths : /\ D[i] <= Halved(bank, bank.rate)[i]
                         /\ Halved(bank, bank.rate)[i] \in Nat
  BY <1>1, <1>8, HalvedOrder DEF h
<1> DEFINE F == Filtered(c, n)
<1>12. /\ F \in Chains
       /\ \A i \in Depths : /\ i < Bottom => F.down[i] = 0
                            /\ i > 0 => F.up[i] = 0
                            /\ F.written[i] = c.written[i] + D[i] - odd(i)
                            /\ F.read[i] = c.read[i] + U[i]
  BY <1>2, FilteredIs DEF D, U
<1> HIDE DEF F
<1>13. \A i \in Depths : odd(i) \in Nat
  BY <1>1, <1>10
<1> HIDE DEF odd
<1>14. ASSUME NEW i \in Depths
       PROVE  /\ F.written[i] - c.read[i] + bank.delay_max <= QueueLen(i)
              /\ F.read[i] <= F.written[i]
              /\ n = bank.rate => F.written[i] - F.read[i] <= Lead(i)
  <2>1. Lead(i) \in Nat /\ QueueLen(i) \in Nat
    <3>1. /\ 2 * HeadCover(bank) + bank.rate \in Nat
      BY BankIs
    <3>2. Halved(bank, 2 * HeadCover(bank) + bank.rate)[i] \in Nat
      BY <3>1, BankHalved
    <3> QED
      BY <1>1, <3>2, LeadIs DEF QueueLen
  <2>2. Lead(i) + Halved(bank, bank.rate)[i] + bank.delay_max <= QueueLen(i)
    BY LeadIs
  <2>3. /\ c.read[i] <= c.written[i] /\ c.written[i] - c.read[i] <= Lead(i)
        /\ c.read[i] \in Int /\ c.written[i] \in Int
        /\ U[i] \in Nat /\ D[i] \in Nat /\ U[i] <= D[i] - odd(i) /\ odd(i) \in Nat
        /\ D[i] <= Halved(bank, bank.rate)[i] /\ Halved(bank, bank.rate)[i] \in Nat
        /\ n = bank.rate => odd(i) = 0 /\ U[i] = D[i]
        /\ F.written[i] = c.written[i] + D[i] - odd(i) /\ F.read[i] = c.read[i] + U[i]
    BY <1>2, <1>3, <1>10, <1>11, <1>12, <1>13
  <2>4. c.written[i] - c.read[i] + D[i] <= Lead(i) + Halved(bank, bank.rate)[i]
    BY <2>1, <2>3
  <2>5. F.written[i] - c.read[i] <= c.written[i] - c.read[i] + D[i]
    BY <2>3
  <2>6. F.written[i] - c.read[i] + bank.delay_max <= QueueLen(i)
    <3> DEFINE x == F.written[i] - c.read[i]
               y == c.written[i] - c.read[i] + D[i]
    <3>1. x \in Int /\ y \in Int
      BY <2>3
    <3>2. x <= y /\ y <= Lead(i) + Halved(bank, bank.rate)[i]
      BY <2>4, <2>5
    <3>3. bank.delay_max \in Nat /\ Halved(bank, bank.rate)[i] \in Nat
      BY <1>1, <2>3
    <3> HIDE DEF x, y
    <3>4. x + bank.delay_max <= QueueLen(i)
      BY <2>1, <2>2, <3>1, <3>2, <3>3
    <3> QED
      BY <3>4 DEF x
  <2>7. F.read[i] <= F.written[i]
    BY <2>3
  <2>8. n = bank.rate => F.written[i] - F.read[i] <= Lead(i)
    BY <2>1, <2>3
  <2> QED
    BY <2>6, <2>7, <2>8
<1>15. Fits(c, n)
  <2>1. ASSUME NEW i \in Depths
        PROVE  D[i] <= Halved(bank, Max({HeadCover(bank), bank.rate}))[i] + 1
    <3>1. /\ h[i] <= Halved(bank, Max({HeadCover(bank), bank.rate}))[i]
          /\ Halved(bank, Max({HeadCover(bank), bank.rate}))[i] \in Nat
      BY MemoryIs DEF h
    <3> QED
      BY <1>6, <1>8, <3>1
  <2> QED
    BY <1>14, <2>1 DEF Fits, F, D
<1>16. U[0] \in 0..n
  <2>1. 0 \in Depths
    BY <1>1
  <2> QED
    BY <1>4, <1>10, <1>13, <2>1
<1>17. n = bank.rate => Lagging(F)
  <2>1. n = bank.rate => \A i \in Depths : F.written[i] - F.read[i] <= Lead(i)
    BY <1>14
  <2> QED
    BY <1>12, <1>14, <2>1 DEF Lagging
<1>18. n = bank.rate => U[0] = n
  <2>1. 0 \in Depths
    BY <1>1
  <2> QED
    BY <1>4, <1>10, <2>1
<1> QED
  BY <1>15, <1>16, <1>17, <1>18 DEF U, F

\* What the first execution is, and its output.
LEMMA HeadIs ==
  ASSUME bank \in Banks
  PROVE  /\ SetExe(bank) \in Nat \ {0} /\ TailCover(bank) \in Nat
         /\ SetExe(bank) = bank.rate => TailCover(bank) = 0 /\ bank.num_depths = 1
         /\ SetExe(bank) # bank.rate =>
              /\ bank.num_depths > 1 /\ SetExe(bank) = HeadCover(bank)
              /\ SetExe(bank) - TailCover(bank) = bank.up_filtlen
<1>1. /\ bank.num_depths \in Nat \ {0} /\ bank.rate \in Nat \ {0}
      /\ bank.up_filtlen \in Nat \ {0}
      /\ HeadCover(bank) \in Nat /\ HeadCover(bank) # bank.rate
  BY BankIs
<1>2. CASE bank.num_depths = 1
  <2>1. HeadCover(bank) = 0 /\ TailCover(bank) = 0
    BY <1>2, BankIs
  <2> QED
    BY <1>1, <1>2, <2>1 DEF SetExe
<1>3. CASE bank.num_depths > 1
  <2>1. /\ HeadCover(bank) = Cover(bank)[bank.num_depths]
        /\ TailCover(bank) = HeadCover(bank) - bank.up_filtlen
    BY <1>3, BankIs
  <2>2. bank.num_depths \in 0..bank.num_depths
    BY <1>1
  <2>3. Cover(bank)[bank.num_depths] >= bank.up_filtlen
    BY <2>2, CoverAtLeast
  <2>4. HeadCover(bank) >= bank.up_filtlen
    BY <2>1, <2>3
  <2>5. SetExe(bank) = HeadCover(bank) /\ HeadCover(bank) > 0
    BY <1>1, <2>4 DEF SetExe
  <2> QED
    BY <1>1, <1>3, <2>1, <2>4, <2>5
<1> QED
  BY <1>1, <1>2, <1>3

\* A chain that was reset.
LEMMA NewChainIs ==
  ASSUME bank \in Banks
  PROVE  /\ NewChain(bank) \in Chains
         /\ \A i \in Depths : /\ NewChain(bank).down[i] = bank.down_filtlen \div 2
                              /\ NewChain(bank).up[i] = bank.up_filtlen \div 2
                              /\ NewChain(bank).written[i] = 0
                              /\ NewChain(bank).read[i] = 0
<1>1. /\ Depths = 0..(bank.num_depths - 1)
      /\ bank.down_filtlen \div 2 \in Nat /\ bank.up_filtlen \div 2 \in Nat
  BY BankIs
<1> DEFINE d == [i \in Depths |-> bank.down_filtlen \div 2]
           u == [i \in Depths |-> bank.up_filtlen \div 2]
           z == [i \in Depths |-> 0]
<1>2. NewChain(bank) = [down |-> d, up |-> u, written |-> z, read |-> z]
  BY <1>1 DEF NewChain
<1>3. d \in [Depths -> Nat] /\ u \in [Depths -> Nat] /\ z \in [Depths -> Int]
  BY <1>1
<1>4. \A i \in Depths : /\ d[i] = bank.down_filtlen \div 2
                        /\ u[i] = bank.up_filtlen \div 2 /\ z[i] = 0
  OBVIOUS
<1> HIDE DEF d, u, z
<1> QED
  BY <1>2, <1>3, <1>4 DEF Chains

\* The first execution: each depth has what it needs for the output of a
\* resampler, and the chain lags from then on.
LEMMA FreshTakes ==
  ASSUME bank \in Banks
  PROVE  /\ Fits(NewChain(bank), SetExe(bank))
         /\ Lagging(Filtered(NewChain(bank), SetExe(bank)))
         /\ Up(NewChain(bank), SetExe(bank))[0] =
              IF SetExe(bank) = bank.rate THEN SetExe(bank)
              ELSE SetExe(bank) - TailCover(bank)
<1> DEFINE c == NewChain(bank)
           n == SetExe(bank)
<1>1. /\ Bottom \in Nat /\ Depths = 0..Bottom /\ Bottom = bank.num_depths - 1
      /\ bank.rate \in Nat /\ bank.delay_max \in Nat /\ bank.down_filtlen \in Nat
      /\ bank.up_filtlen \in Nat \ {0} /\ bank.up_filtlen = 2 * (bank.up_filtlen \div 2)
      /\ bank.num_depths \in Nat
  BY BankIs
<1>2. n \in Nat \ {0} /\ TailCover(bank) \in Nat
  BY HeadIs
<1>3. /\ c \in Chains
      /\ \A i \in Depths : /\ c.down[i] = bank.down_filtlen \div 2
                           /\ c.up[i] = bank.up_filtlen \div 2
                           /\ c.written[i] = 0 /\ c.read[i] = 0
  BY NewChainIs
<1>4. CASE n = bank.rate
  <2>1. bank.num_depths = 1
    BY <1>4, HeadIs
  <2>2. Lagging(c)
    <3>1. ASSUME NEW i \in Depths
          PROVE  /\ ~(i < Bottom) /\ ~(i > 0)
                 /\ c.read[i] <= c.written[i] /\ c.written[i] - c.read[i] <= Lead(i)
      <4>1. i = 0 /\ Bottom = 0
        BY <1>1, <2>1
      <4>2. Lead(i) = 0
        BY <2>1 DEF Lead
      <4>3. c.read[i] = 0 /\ c.written[i] = 0
        BY <1>3
      <4> HIDE DEF c
      <4> QED
        BY <4>1, <4>2, <4>3
    <3> HIDE DEF c
    <3> QED
      BY <1>3, <3>1 DEF Lagging
  <2>3. n \in Nat /\ n <= bank.rate
    BY <1>1, <1>4
  <2> HIDE DEF c, n
  <2>4. Fits(c, n) /\ Lagging(Filtered(c, n)) /\ Up(c, n)[0] = n
    BY <1>4, <2>2, <2>3, LaggingTakes
  <2> QED
    BY <1>4, <2>4 DEF c, n
<1>5. CASE n # bank.rate
  <2> DEFINE m == bank.num_depths
             u == bank.up_filtlen
             C == Cover(bank)
             D == Down(c, n)
             U == Up(c, n)
             odd(i) == IF i < Bottom THEN D[i] % 2 ELSE 0
  <2>1. m > 1 /\ n = HeadCover(bank) /\ n - TailCover(bank) = u
    BY <1>5, HeadIs
  <2>2. n = C[m]
    BY <2>1, BankIs
  <2>3. \A i \in 2..m : C[i] = 2 * C[i - 1] + (bank.down_filtlen \div 2)
    BY BankIs, CoverIs
  <2>4. \A i \in 0..m : C[i] \in Nat /\ C[i] >= u /\ (i > 1 => C[i] > u)
    BY CoverAtLeast
  <2>5. C[1] = u
    <3>1. 1 \in 0..m
      BY <1>1, <2>1
    <3> QED
      BY <3>1, BankIs, CoverIs
  <2>6. n \in Int
    BY <1>2
  <2>7. /\ D \in [Depths -> Int] /\ D[0] = n
        /\ \A i \in 1..Bottom : D[i] = (D[i - 1] - c.down[i - 1]) \div 2
    BY <1>3, <2>6, DownIs
  <2>8. /\ U \in [Depths -> Int] /\ U[Bottom] = D[Bottom]
        /\ \A i \in 0..(Bottom - 1) : U[i] = 2 * (U[i + 1] - c.up[i + 1])
    BY <1>3, <2>6, UpIs
  <2>0. Bottom \in Nat /\ Depths = 0..Bottom /\ m = Bottom + 1
    <3>1. Bottom \in Nat /\ Depths = 0..Bottom
      BY BankIs
    <3>2. m \in Nat /\ Bottom = m - 1
      BY BankIs
    <3> HIDE DEF m
    <3> QED
      BY <3>1, <3>2
  <2> HIDE DEF m, u, C, D, U, c, n
  <2>9. \A i \in 0..Bottom : m - i \in 1..m /\ (i > 0 => m - (i - 1) \in 2..m)
    BY <2>0
  <2>10. \A i \in Depths : D[i] = C[m - i]
    <3> DEFINE S == {i \in Depths : D[i] = C[m - i]}
    <3>1. 0 \in S
      BY <1>1, <2>2, <2>7 DEF m
    <3>2. ASSUME NEW i \in 1..Bottom, i - 1 \in S PROVE i \in S
      <4>1. /\ i \in Depths /\ i - 1 \in Depths /\ m - i \in 0..m
            /\ m - (i - 1) \in 2..m /\ m - (i - 1) - 1 = m - i
        BY <2>0
      <4>2. D[i] = (C[m - (i - 1)] - (bank.down_filtlen \div 2)) \div 2
        BY <1>3, <2>7, <3>2, <4>1
      <4>3. C[m - (i - 1)] = 2 * C[m - i] + (bank.down_filtlen \div 2)
        BY <2>3, <4>1
      <4>4. C[m - i] \in Nat
        <5>1. \A j \in 0..m : C[j] \in Nat
          BY <2>4
        <5> QED
          BY <4>1, <5>1
      <4>5. bank.down_filtlen \div 2 \in Nat
        BY <1>1
      <4>6. D[i] = C[m - i]
        BY <4>2, <4>3, <4>4, <4>5
      <4> QED
        BY <4>1, <4>6
    <3>3. \A i \in 0..Bottom : i \in S
      <4> HIDE DEF S
      <4> QED
        BY <1>1, <3>1, <3>2, UpTo
    <3> QED
      BY <1>1, <3>3
  <2>11. \A i \in Depths : U[i] = u
    <3> DEFINE S == {j \in 0..Bottom : U[Bottom - j] = u}
    <3>1. 0 \in S
      <4>1. Bottom \in Depths /\ m - Bottom = 1 /\ Bottom - 0 = Bottom
        BY <1>1 DEF m
      <4>2. U[Bottom] = u
        BY <2>5, <2>8, <2>10, <4>1
      <4> QED
        BY <1>1, <4>1, <4>2
    <3>2. ASSUME NEW j \in 1..Bottom, j - 1 \in S PROVE j \in S
      <4>1. /\ Bottom - j \in 0..(Bottom - 1) /\ (Bottom - j) + 1 = Bottom - (j - 1)
            /\ (Bottom - j) + 1 \in Depths
        <5>1. Bottom \in Nat /\ Depths = 0..Bottom
          BY <1>1
        <5> QED
          BY <5>1
      <4>2. U[Bottom - j] = 2 * (u - (u \div 2))
        BY <1>3, <2>8, <3>2, <4>1 DEF u
      <4>3. U[Bottom - j] = u
        BY <1>1, <4>2 DEF u
      <4> QED
        BY <4>3
    <3>3. \A j \in 0..Bottom : j \in S
      <4> HIDE DEF S
      <4> QED
        BY <1>1, <3>1, <3>2, UpTo
    <3>4. ASSUME NEW i \in Depths
          PROVE  Bottom - i \in 0..Bottom /\ Bottom - (Bottom - i) = i
      <4>1. Bottom \in Nat /\ Depths = 0..Bottom
        BY <1>1
      <4> QED
        BY <4>1
    <3> QED
      BY <3>3, <3>4
  <2> DEFINE F == Filtered(c, n)
  <2>12. /\ F \in Chains
         /\ \A i \in Depths : /\ i < Bottom => F.down[i] = 0
                              /\ i > 0 => F.up[i] = 0
                              /\ F.written[i] = c.written[i] + D[i] - odd(i)
                              /\ F.read[i] = c.read[i] + U[i]
    BY <1>3, <2>6, FilteredIs DEF D, U
  <2> HIDE DEF F
  <2>13. ASSUME NEW i \in Depths
         PROVE  /\ F.written[i] \in u..C[m - i] /\ F.read[i] = u
    <3>1. /\ C[m - i] \in Nat /\ C[m - i] >= u /\ (i < Bottom => C[m - i] > u) /\ u \in Nat
      <4>1. m - i \in 0..m /\ (i < Bottom => m - i > 1)
        BY <1>1, <2>9 DEF m
      <4> QED
        BY <1>1, <2>4, <4>1 DEF u
    <3>2. c.written[i] = 0 /\ c.read[i] = 0 /\ D[i] = C[m - i] /\ U[i] = u
      BY <1>3, <2>10, <2>11
    <3>3. odd(i) \in {0, 1} /\ (i >= Bottom => odd(i) = 0)
      BY <1>1, <3>1, <3>2
    <3>4. F.written[i] = 0 + C[m - i] - odd(i) /\ F.read[i] = 0 + u
      BY <2>12, <3>2
    <3>5. i < Bottom \/ i >= Bottom
      BY <1>1
    <3> HIDE DEF odd
    <3> QED
      BY <3>1, <3>3, <3>4, <3>5
  <2>14. Lagging(F)
    <3>1. ASSUME NEW i \in Depths
          PROVE F.read[i] <= F.written[i] /\ F.written[i] - F.read[i] <= Lead(i)
      <4>1. Lead(i) = C[m - i] - u
        BY <2>1 DEF Lead, m, u, C
      <4>2. C[m - i] \in Nat /\ u \in Nat
        BY <1>1, <2>4, <2>9 DEF m, u
      <4> QED
        BY <2>13, <4>1, <4>2
    <3> QED
      BY <2>12, <3>1 DEF Lagging
  <2>15. Fits(c, n)
    <3>1. ASSUME NEW i \in Depths
          PROVE  /\ F.written[i] - c.read[i] + bank.delay_max <= QueueLen(i)
                 /\ F.read[i] <= F.written[i]
                 /\ D[i] <= Halved(bank, Max({HeadCover(bank), bank.rate}))[i] + 1
      <4>1. C[m - i] \in Nat /\ u \in Nat /\ c.read[i] = 0 /\ D[i] = C[m - i]
        <5>1. m - i \in 0..m
          BY <1>1, <2>9 DEF m
        <5> QED
          BY <1>1, <1>3, <2>4, <2>10, <5>1 DEF u
      <4>2. F.written[i] \in u..C[m - i] /\ F.read[i] = u
        BY <2>13
      <4>3. /\ Halved(bank, n)[i] \in Nat /\ C[m - i] <= Halved(bank, n)[i]
        BY <1>2, <2>1, BankHalved, HalvedCover DEF m, C
      <4>4. /\ Halved(bank, bank.rate)[i] \in Nat
            /\ Halved(bank, 2 * n + bank.rate)[i] \in Nat
            /\ 2 * C[m - i] + Halved(bank, bank.rate)[i]
                 <= Halved(bank, 2 * n + bank.rate)[i]
        <5>1. 2 * n + bank.rate \in Nat
          BY <1>1, <1>2
        <5>2. 2 * C[m - i] + Halved(bank, bank.rate)[i]
                <= Halved(bank, 2 * n + bank.rate)[i]
          BY <1>1, <2>1, HalvedCover DEF m, C
        <5> QED
          BY <1>1, <5>1, <5>2, BankHalved
      <4>5. QueueLen(i) = Halved(bank, 2 * n + bank.rate)[i] + 1 + bank.delay_max
        BY <2>1 DEF QueueLen
      <4>6. C[m - i] <= Halved(bank, 2 * n + bank.rate)[i]
        BY <4>1, <4>4
      <4>7. F.written[i] - c.read[i] + bank.delay_max <= QueueLen(i)
        <5>1. F.written[i] - c.read[i] = F.written[i] /\ F.written[i] \in Nat
          BY <4>1, <4>2
        <5>2. F.written[i] <= Halved(bank, 2 * n + bank.rate)[i]
          BY <4>1, <4>2, <4>4, <4>6
        <5>3. bank.delay_max \in Nat /\ Halved(bank, 2 * n + bank.rate)[i] \in Nat
          BY <1>1, <4>4
        <5> QED
          BY <4>5, <5>1, <5>2, <5>3
      <4>8. /\ Halved(bank, n)[i] <= Halved(bank, Max({HeadCover(bank), bank.rate}))[i]
            /\ Halved(bank, Max({HeadCover(bank), bank.rate}))[i] \in Nat
        <5>1. n \in Nat /\ n <= HeadCover(bank)
          BY <1>2, <2>1
        <5> QED
          BY <5>1, MemoryIs
      <4>9. D[i] <= Halved(bank, Max({HeadCover(bank), bank.rate}))[i] + 1
        BY <4>1, <4>3, <4>8
      <4>10. F.read[i] <= F.written[i]
        BY <4>1, <4>2
      <4> QED
        BY <4>7, <4>9, <4>10
    <3> QED
      BY <3>1 DEF Fits, F, D
  <2>16. U[0] = n - TailCover(bank)
    <3>1. 0 \in Depths
      BY <1>1
    <3> QED
      BY <2>1, <2>11, <3>1
  <2> QED
    BY <1>5, <2>14, <2>15, <2>16 DEF F, U, c, n
<1> QED
  BY <1>4, <1>5

-----------------------------------------------------------------------------
(* Flag segments.                                                          *)

\* A segment that begins where the stream has come to, or later, is added in order,
\* and the stream says of every time what it and the segments before said.  So a
\* coalesced segment and a replaced heartbeat lose nothing.
LEMMA SegmentAdded ==
  ASSUME NEW segs \in Seq(Segment), Ordered(segs), NEW new \in Segment,
         new.start <= new.stop, segs # <<>> => Final(segs).stop <= new.start
  PROVE  /\ AddSegment(segs, new) \in Seq(Segment)
         /\ Ordered(AddSegment(segs, new))
         /\ \A t \in Nat, flag \in BOOLEAN :
              Says(AddSegment(segs, new), t, flag)
                <=> \/ Says(segs, t, flag)
                    \/ new.start <= t /\ t < new.stop /\ new.flag = flag
<1> DEFINE n == Len(segs)
           longer == [segs EXCEPT ![n].stop = new.stop]
           replaced == [segs EXCEPT ![n] = new]
<1>1. CASE Coalesces(segs, new)
  <2>1. /\ n \in Nat \ {0} /\ segs[n] \in Segment
        /\ segs[n].stop = new.start /\ segs[n].flag = new.flag
    <3>1. segs # <<>>
      BY <1>1 DEF Coalesces
    <3>2. n \in Nat \ {0} /\ segs[n] \in Segment
      BY <3>1
    <3>3. /\ segs[n].flag = new.flag /\ segs[n].stop >= new.start
          /\ segs[n].stop <= new.start
      BY <1>1, <3>1 DEF Coalesces, Final
    <3> QED
      BY <3>2, <3>3 DEF Segment
  <2>2. AddSegment(segs, new) = longer
    BY <1>1 DEF AddSegment
  <2>3. /\ longer \in Seq(Segment) /\ Len(longer) = n
        /\ longer[n] = [start |-> segs[n].start, stop |-> new.stop, flag |-> new.flag]
        /\ \A i \in 1..n : i # n => longer[i] = segs[i]
    BY <2>1 DEF Segment
  <2>4. Ordered(longer)
    BY SMTT(30), <2>1, <2>3 DEF Ordered, Segment
  <2>5. ASSUME NEW t \in Nat, NEW flag \in BOOLEAN
        PROVE  Says(longer, t, flag)
                 <=> \/ Says(segs, t, flag)
                     \/ new.start <= t /\ t < new.stop /\ new.flag = flag
    <3>1. segs[n].start <= segs[n].stop
      BY <2>1 DEF Ordered
    <3>2. CASE new.start <= t /\ t < new.stop /\ new.flag = flag
      BY <2>1, <2>3, <3>1, <3>2 DEF Says, Segment
    <3>3. CASE ~(new.start <= t /\ t < new.stop /\ new.flag = flag)
      <4>1. \A i \in 1..n : (longer[i].start <= t /\ t < longer[i].stop
                                /\ longer[i].flag = flag)
              <=> (segs[i].start <= t /\ t < segs[i].stop /\ segs[i].flag = flag)
        BY <2>1, <2>3, <3>1, <3>3 DEF Segment
      <4> QED
        BY <2>3, <3>3, <4>1 DEF Says
    <3> QED
      BY <3>2, <3>3
  <2> QED
    BY <2>2, <2>3, <2>4, <2>5
<1>2. CASE /\ ~Coalesces(segs, new)
           /\ segs # <<>> /\ IsHeartbeat(Final(segs))
  <2>1. /\ n \in Nat \ {0} /\ segs[n] \in Segment
        /\ segs[n].start = segs[n].stop /\ segs[n].stop <= new.start
    BY <1>2 DEF IsHeartbeat, Final
  <2>2. AddSegment(segs, new) = replaced
    BY <1>2 DEF AddSegment
  <2>3. /\ replaced \in Seq(Segment) /\ Len(replaced) = n
        /\ DOMAIN replaced = 1..n /\ DOMAIN segs = 1..n /\ replaced[n] = new
        /\ \A i \in 1..n : i # n => replaced[i] = segs[i]
    BY <2>1
  <2> HIDE DEF replaced
  <2>4. Ordered(replaced)
    <3>1. \A i \in 1..n : i < n => segs[i].stop <= segs[n].start
      BY <2>1 DEF Ordered
    <3>2. \A i \in 1..n : segs[i] \in Segment
      OBVIOUS
    <3>3. \A i \in 1..n : replaced[i].start <= replaced[i].stop
      BY <2>3 DEF Ordered
    <3>4. ASSUME NEW i \in 1..n, NEW j \in 1..n, i < j
          PROVE  replaced[i].stop <= replaced[j].start
      <4>0. n \in Nat /\ i # n
        BY <2>1, <3>4
      <4>1. replaced[i] = segs[i] /\ i # n
        BY <2>3, <4>0
      <4>2. CASE j = n
        <5>1. segs[i].stop <= segs[n].start /\ replaced[j] = new
          BY <2>3, <3>1, <3>4, <4>2
        <5> QED
          BY <2>1, <3>2, <4>1, <5>1 DEF Segment
      <4>3. CASE j # n
        BY <2>3, <3>4, <4>1, <4>3 DEF Ordered
      <4> QED
        BY <4>2, <4>3
    <3> QED
      BY <2>3, <3>3, <3>4 DEF Ordered
  <2>5. ASSUME NEW t \in Nat, NEW flag \in BOOLEAN
        PROVE  Says(replaced, t, flag)
                 <=> \/ Says(segs, t, flag)
                     \/ new.start <= t /\ t < new.stop /\ new.flag = flag
    <3>1. ~(segs[n].start <= t /\ t < segs[n].stop)
      BY <2>1 DEF Segment
    <3>2. CASE new.start <= t /\ t < new.stop /\ new.flag = flag
      <4>0. n \in 1..n
        BY <2>1
      <4>1. n \in DOMAIN replaced
        BY <2>3, <4>0
      <4>2. /\ replaced[n].start <= t /\ t < replaced[n].stop
            /\ replaced[n].flag = flag
        BY <2>3, <3>2
      <4> QED
        BY <3>2, <4>1, <4>2 DEF Says
    <3>3. CASE ~(new.start <= t /\ t < new.stop /\ new.flag = flag)
      <4>1. \A i \in 1..n : (replaced[i].start <= t /\ t < replaced[i].stop
                                /\ replaced[i].flag = flag)
              <=> (segs[i].start <= t /\ t < segs[i].stop /\ segs[i].flag = flag)
        BY <2>3, <3>1, <3>3
      <4> QED
        BY <2>3, <3>3, <4>1 DEF Says
    <3> QED
      BY <3>2, <3>3
  <2> QED
    BY <2>2, <2>3, <2>4, <2>5
<1>3. CASE /\ ~Coalesces(segs, new)
           /\ ~(segs # <<>> /\ IsHeartbeat(Final(segs)))
  <2>1. AddSegment(segs, new) = Append(segs, new)
    BY <1>3 DEF AddSegment
  <2>2. /\ n \in Nat /\ Append(segs, new) \in Seq(Segment)
        /\ Len(Append(segs, new)) = n + 1 /\ Append(segs, new)[n + 1] = new
        /\ \A i \in 1..n : Append(segs, new)[i] = segs[i]
    OBVIOUS
  <2>3. \A i \in 1..n : segs[i].stop <= new.start
    <3> SUFFICES ASSUME NEW i \in 1..n PROVE segs[i].stop <= new.start
      OBVIOUS
    <3>1. /\ n \in Nat \ {0} /\ segs[i] \in Segment /\ segs[n] \in Segment
          /\ segs[n].stop <= new.start /\ segs[n].start <= segs[n].stop
      BY DEF Ordered, Final
    <3>2. i < n => segs[i].stop <= segs[n].start
      BY <3>1 DEF Ordered
    <3> QED
      BY <3>1, <3>2 DEF Segment
  <2>4. Ordered(Append(segs, new))
    BY <2>2, <2>3 DEF Ordered
  <2>5. ASSUME NEW t \in Nat, NEW flag \in BOOLEAN
        PROVE  Says(Append(segs, new), t, flag)
                 <=> \/ Says(segs, t, flag)
                     \/ new.start <= t /\ t < new.stop /\ new.flag = flag
    BY <2>2 DEF Says
  <2> QED
    BY <2>1, <2>2, <2>4, <2>5
<1> QED
  BY <1>1, <1>2, <1>3

\* The last segment ends where the new one does.
LEMMA AddedLast ==
  ASSUME NEW segs \in Seq(Segment), NEW new \in Segment
  PROVE  /\ AddSegment(segs, new) # <<>>
         /\ Final(AddSegment(segs, new)).stop = new.stop
<1>1. CASE Coalesces(segs, new)
  <2>1. segs # <<>> /\ AddSegment(segs, new) = [segs EXCEPT ![Len(segs)].stop = new.stop]
    BY <1>1 DEF AddSegment, Coalesces
  <2>2. Len(segs) \in DOMAIN segs /\ segs[Len(segs)] \in Segment
    BY <2>1
  <2> QED
    BY <2>1, <2>2 DEF Final, Segment
<1>2. CASE ~Coalesces(segs, new) /\ segs # <<>> /\ IsHeartbeat(Final(segs))
  <2>1. AddSegment(segs, new) = [segs EXCEPT ![Len(segs)] = new]
    BY <1>2 DEF AddSegment
  <2>2. Len(segs) \in DOMAIN segs
    BY <1>2
  <2> QED
    BY <1>2, <2>1, <2>2 DEF Final
<1>3. CASE ~Coalesces(segs, new) /\ ~(segs # <<>> /\ IsHeartbeat(Final(segs)))
  <2>1. AddSegment(segs, new) = Append(segs, new)
    BY <1>3 DEF AddSegment
  <2> QED
    BY <2>1 DEF Final
<1> QED
  BY <1>1, <1>2, <1>3

\* Of segments in order the flushed ones say nothing of later times, and the others
\* are kept.
LEMMA SegmentsFlushed ==
  ASSUME NEW segs \in Seq(Segment), Ordered(segs), NEW now \in Int
  PROVE  /\ Flushed(segs, now) \in Seq(Segment)
         /\ Ordered(Flushed(segs, now))
         /\ \A i \in DOMAIN Flushed(segs, now) :
              /\ Flushed(segs, now)[i].stop > now
              /\ \E j \in DOMAIN segs : Flushed(segs, now)[i] = segs[j]
         /\ Flushed(segs, now) # <<>> => segs # <<>> /\ Final(Flushed(segs, now)) = Final(segs)
         /\ \A t \in Nat, flag \in BOOLEAN :
              now <= t => (Says(Flushed(segs, now), t, flag) <=> Says(segs, t, flag))
<1> DEFINE n == Len(segs)
           kept == {i \in DOMAIN segs : segs[i].stop > now}
           first == CHOOSE i \in kept : \A j \in kept : i <= j
           rest == SubSeq(segs, first, n)
<1>0. /\ n \in Nat /\ DOMAIN segs = 1..n
      /\ \A i \in 1..n : /\ segs[i].start \in Nat /\ segs[i].stop \in Nat
                          /\ segs[i] \in Segment
  <2>1. \A i \in 1..n : segs[i] \in Segment
    OBVIOUS
  <2>2. \A x \in Segment : x.start \in Nat /\ x.stop \in Nat
    BY DEF Segment
  <2> QED
    BY <2>1, <2>2
<1>1. CASE kept = {}
  <2>1. Flushed(segs, now) = <<>>
    BY <1>1 DEF Flushed
  <2>2. ASSUME NEW t \in Nat, NEW flag \in BOOLEAN, now <= t
        PROVE  ~Says(segs, t, flag)
    BY <1>0, <1>1, <2>2 DEF Says
  <2> QED
    BY <2>1, <2>2 DEF Ordered, Says
<1>2. CASE kept # {}
  <2>1. Flushed(segs, now) = rest
    BY <1>2 DEF Flushed
  <2>2. /\ first \in 1..n /\ segs[first].stop > now
        /\ \A j \in 1..(first - 1) : segs[j].stop <= now
    <3>1. kept \in SUBSET Nat
      BY <1>0
    <3>2. \E i \in kept : \A j \in kept : i <= j
      <4> HIDE DEF kept
      <4> QED
        BY <1>2, <3>1, Least
    <3>3. first \in kept /\ \A j \in kept : first <= j
      BY <3>2
    <3> HIDE DEF first
    <3> QED
      BY <1>0, <3>3
  <2> HIDE DEF first
  <2>3. /\ rest \in Seq(Segment) /\ Len(rest) = n - first + 1
        /\ \A i \in 1..(n - first + 1) : rest[i] = segs[first + i - 1]
        /\ DOMAIN rest = 1..(n - first + 1)
    BY <1>0, <2>2, SubSeqProperties
  <2> HIDE DEF rest
  <2>4. \A i \in 1..(n - first + 1) : first + i - 1 \in 1..n
    BY <1>0, <2>2
  <2>5. Ordered(rest)
    <3>1. \A i, j \in 1..(n - first + 1) : i < j => first + i - 1 < first + j - 1
      BY <1>0, <2>2
    <3> QED
      BY <1>0, <2>3, <2>4, <3>1 DEF Ordered
  <2>6. ASSUME NEW t \in Nat, NEW flag \in BOOLEAN, now <= t
        PROVE  Says(rest, t, flag) <=> Says(segs, t, flag)
    <3>1. Says(rest, t, flag) => Says(segs, t, flag)
      BY <1>0, <2>3, <2>4 DEF Says
    <3>2. ASSUME NEW j \in 1..n, segs[j].start <= t, t < segs[j].stop, segs[j].flag = flag
          PROVE  Says(rest, t, flag)
      <4>1. j >= first
        BY <1>0, <2>2, <2>6, <3>2
      <4>2. j - first + 1 \in 1..(n - first + 1) /\ first + (j - first + 1) - 1 = j
        BY <1>0, <2>2, <4>1
      <4>3. rest[j - first + 1] = segs[j]
        BY <2>3, <4>2
      <4> QED
        BY <2>3, <3>2, <4>2, <4>3 DEF Says
    <3> QED
      BY <1>0, <3>1, <3>2 DEF Says
  <2>7. \A i \in 1..(n - first + 1) : rest[i].stop > now
    <3> SUFFICES ASSUME NEW i \in 1..(n - first + 1) PROVE rest[i].stop > now
      OBVIOUS
    <3>1. /\ first + i - 1 \in 1..n /\ rest[i] = segs[first + i - 1]
          /\ first <= first + i - 1
      BY <1>0, <2>2, <2>3, <2>4
    <3>2. CASE first = first + i - 1
      BY <2>2, <3>1, <3>2
    <3>3. CASE first < first + i - 1
      <4>1. /\ segs[first].stop <= segs[first + i - 1].start
            /\ segs[first + i - 1].start <= segs[first + i - 1].stop
        BY <1>0, <2>2, <3>1, <3>3 DEF Ordered
      <4> QED
        BY <1>0, <2>2, <3>1, <4>1
    <3> QED
      BY <1>0, <2>2, <3>1, <3>2, <3>3
  <2>8. rest # <<>> /\ segs # <<>> /\ Final(rest) = Final(segs)
    <3>1. n - first + 1 \in 1..(n - first + 1) /\ first + (n - first + 1) - 1 = n
      BY <1>0, <2>2
    <3>2. rest[n - first + 1] = segs[n] /\ Len(rest) = n - first + 1
      BY <2>3, <3>1
    <3>3. rest # <<>> /\ segs # <<>>
      BY <1>0, <2>2, <2>3, <3>1
    <3> QED
      BY <3>2, <3>3 DEF Final
  <2> QED
    BY <1>0, <2>1, <2>3, <2>4, <2>5, <2>6, <2>7, <2>8
<1> QED
  BY <1>1, <1>2

-----------------------------------------------------------------------------
(* Output.                                                                 *)

Buffer == [start : Nat, stop : Nat, gap : BOOLEAN, discont : BOOLEAN,
           drained : BOOLEAN]

\* Buffers follow one another, and where something is missing there is a
\* discontinuity.
Sequential(q) ==
  \A i \in DOMAIN q :
    /\ q[i].start <= q[i].stop
    /\ i > 1 => /\ q[i - 1].stop <= q[i].start
                /\ q[i - 1].stop < q[i].start => q[i].discont

\* Numbers of which each has those below it are the first ones.
LEMMA Prefix ==
  ASSUME NEW n \in Nat, NEW P \in SUBSET (1..n), \A j \in P : \A i \in 1..j : i \in P
  PROVE  \E m \in 0..n : P = 1..m
<1> DEFINE Missing == {i \in 1..(n + 1) : i \notin P}
<1>1. Missing \in SUBSET Nat /\ n + 1 \in Missing
  OBVIOUS
<1>2. PICK k \in Missing : \A i \in Missing : k <= i
  <2> HIDE DEF Missing
  <2> QED
    BY <1>1, Least
<1>3. k \in 1..(n + 1) /\ k \notin P
  OBVIOUS
<1>4. ASSUME NEW i \in 1..(k - 1) PROVE i \in P
  <2>1. i \in 1..(n + 1) /\ ~(k <= i)
    BY <1>3
  <2> QED
    BY <1>2, <2>1
<1>5. ASSUME NEW j \in P PROVE j \in 1..(k - 1)
  <2>1. j \in 1..n /\ (k <= j => k \in 1..j)
    BY <1>3
  <2> QED
    BY <1>3, <2>1
<1>6. k - 1 \in 0..n
  BY <1>3
<1>7. P = 1..(k - 1)
  BY <1>4, <1>5
<1> QED
  BY <1>6, <1>7

\* The segments speak of every time in the interval.
Spoken(segs, from, to) ==
  \A t \in from..(to - 1) : Says(segs, t, TRUE) \/ Says(segs, t, FALSE)

\* Buffers that cover the interval without a hole, flagged as the segments say.
Covering(q, segs, from, to, discont) ==
  /\ q \in Seq(Buffer) /\ q # <<>> /\ Sequential(q)
  /\ q[1].start = from /\ q[Len(q)].stop = to
  /\ \A i \in DOMAIN q :
       /\ q[i].stop <= to /\ q[i].discont = discont /\ ~q[i].drained
       /\ \A t \in q[i].start..(q[i].stop - 1) : Says(segs, t, q[i].gap)

\* The pieces of an interval of which the segments speak cover it.
LEMMA PiecesAre ==
  ASSUME NEW segs \in Seq(Segment), Ordered(segs), NEW from \in Nat, NEW to \in Nat,
         from < to, NEW discont \in BOOLEAN, Spoken(segs, from, to)
  PROVE  Covering(Pieces(segs, from, to, discont), segs, from, to, discont)
<1>0. \A t \in from..(to - 1) : Says(segs, t, TRUE) \/ Says(segs, t, FALSE)
  BY DEF Spoken
<1> DEFINE L == Flushed(segs, from)
           n == Len(L)
           P == {j \in DOMAIN L : L[j].start < to}
           piece(i) == [start |-> Max({L[i].start, from}), stop |-> Min({L[i].stop, to}),
                        gap |-> L[i].flag, discont |-> discont, drained |-> FALSE]
           q == Pieces(segs, from, to, discont)
<1>1. q = [i \in P |-> piece(i)]
  BY DEF Pieces
<1>2. /\ L \in Seq(Segment) /\ Ordered(L)
      /\ \A i \in DOMAIN L : /\ L[i].stop > from
                             /\ \E j \in DOMAIN segs : L[i] = segs[j]
      /\ \A t \in Nat, flag \in BOOLEAN :
           from <= t => (Says(L, t, flag) <=> Says(segs, t, flag))
  <2>1. from \in Int
    OBVIOUS
  <2> HIDE DEF L
  <2> QED
    BY <2>1, SegmentsFlushed DEF L
<1> HIDE DEF L, q
<1>3. /\ n \in Nat /\ DOMAIN L = 1..n
      /\ \A i \in 1..n : /\ L[i].start \in Nat /\ L[i].stop \in Nat /\ L[i].flag \in BOOLEAN
                         /\ L[i].start <= L[i].stop /\ L[i].stop > from
  <2>1. n \in Nat /\ DOMAIN L = 1..n /\ \A i \in 1..n : L[i] \in Segment
    BY <1>2
  <2> QED
    BY <1>2, <2>1 DEF Ordered, Segment
<1>4. \A i, j \in 1..n : i < j => L[i].stop <= L[j].start
  BY <1>2, <1>3 DEF Ordered
<1> HIDE DEF n
<1>5. PICK m \in 0..n : P = 1..m
  <2>1. P \in SUBSET (1..n)
    BY <1>3
  <2>2. \A j \in P : \A i \in 1..j : i \in P
    <3> SUFFICES ASSUME NEW j \in P, NEW i \in 1..j PROVE i \in P
      OBVIOUS
    <3>1. j \in 1..n /\ L[j].start < to /\ i \in 1..n
      BY <1>3
    <3>2. CASE i = j
      BY <3>2
    <3>3. CASE i < j
      <4>1. L[i].start <= L[i].stop /\ L[i].stop <= L[j].start
        BY <1>3, <1>4, <3>1, <3>3
      <4>2. L[i].start \in Nat /\ L[i].stop \in Nat /\ L[j].start \in Nat
        BY <1>3, <3>1
      <4> QED
        BY <1>3, <3>1, <4>1, <4>2
    <3> QED
      BY <3>1, <3>2, <3>3
  <2> HIDE DEF P
  <2> QED
    BY <1>3, <2>1, <2>2, Prefix
<1>6. ASSUME NEW i \in 1..m
      PROVE  /\ i \in 1..n /\ L[i].start < to /\ q[i] = piece(i)
  <2>1. i \in P
    BY <1>5
  <2> QED
    BY <1>1, <1>3, <2>1
<1>7. ASSUME NEW i \in 1..m
      PROVE  /\ piece(i) \in Buffer
             /\ piece(i).start >= from /\ piece(i).start >= L[i].start
             /\ piece(i).start = from \/ piece(i).start = L[i].start
             /\ piece(i).stop <= to /\ piece(i).stop <= L[i].stop
             /\ piece(i).stop = to \/ piece(i).stop = L[i].stop
             /\ piece(i).start <= piece(i).stop /\ piece(i).start < to
  <2>1. /\ L[i].start \in Nat /\ L[i].stop \in Nat /\ L[i].flag \in BOOLEAN
        /\ L[i].start <= L[i].stop /\ L[i].stop > from /\ L[i].start < to
    BY <1>3, <1>6
  <2> DEFINE x == Max({L[i].start, from})
             y == Min({L[i].stop, to})
  <2>2. x \in {L[i].start, from} /\ L[i].start <= x /\ from <= x
    <3>1. L[i].start \in Int /\ from \in Int
      BY <2>1
    <3> QED
      BY <3>1, MaxOf, Zenon
  <2>3. y \in {L[i].stop, to} /\ y <= L[i].stop /\ y <= to
    <3>1. L[i].stop \in Int /\ to \in Int
      BY <2>1
    <3> QED
      BY <3>1, MaxOf, Zenon
  <2>4. piece(i) = [start |-> x, stop |-> y, gap |-> L[i].flag, discont |-> discont,
                    drained |-> FALSE]
    OBVIOUS
  <2> HIDE DEF piece, x, y
  <2>5. piece(i) \in Buffer /\ piece(i).start = x /\ piece(i).stop = y
    BY <2>1, <2>2, <2>3, <2>4 DEF Buffer
  <2>6. x <= y /\ x < to
    BY <2>1, <2>2, <2>3
  <2> QED
    BY <2>1, <2>2, <2>3, <2>5, <2>6
<1>8. ASSUME NEW i \in 1..m
      PROVE  piece(i).gap = L[i].flag /\ piece(i).discont = discont /\ piece(i).drained = FALSE
  OBVIOUS
<1> HIDE DEF piece
\* A time of the interval is in a segment that makes a piece.
<1>9. ASSUME NEW t \in from..(to - 1)
      PROVE  \E j \in 1..m : L[j].start <= t /\ t < L[j].stop
  <2>1. t \in Nat /\ from <= t
    OBVIOUS
  <2>2. Says(L, t, TRUE) \/ Says(L, t, FALSE)
    BY <1>0, <1>2, <2>1
  <2>3. PICK j \in DOMAIN L : L[j].start <= t /\ t < L[j].stop
    BY <2>2 DEF Says
  <2>4. j \in P
    <3>1. L[j].start \in Nat
      BY <1>3
    <3> QED
      BY <2>3, <3>1
  <2> QED
    BY <1>5, <2>3, <2>4
<1>10. /\ m \in Nat /\ m # 0 /\ piece(1).start = from /\ piece(m).stop = to
  <2>1. PICK j \in 1..m : L[j].start <= from /\ from < L[j].stop
    <3>1. from \in from..(to - 1)
      OBVIOUS
    <3> QED
      BY <1>9, <3>1
  <2>2. PICK k \in 1..m : L[k].start <= to - 1 /\ to - 1 < L[k].stop
    <3>1. to - 1 \in from..(to - 1)
      OBVIOUS
    <3> QED
      BY <1>9, <3>1
  <2>3. m \in Nat /\ m # 0 /\ 1 \in 1..m /\ m \in 1..m
    BY <1>3, <1>5
  <2>4. L[1].start <= from
    <3>1. /\ j = 1 \/ L[1].stop <= L[j].start
          /\ L[1].start <= L[1].stop /\ L[1].start \in Nat /\ L[1].stop \in Nat
          /\ L[j].start \in Nat
      BY <1>3, <1>4, <1>6, <2>3
    <3> QED
      BY <2>1, <3>1
  <2>5. L[m].stop >= to
    <3>1. /\ k = m \/ L[k].stop <= L[m].start
          /\ L[m].start <= L[m].stop /\ L[m].start \in Nat /\ L[m].stop \in Nat
          /\ L[k].stop \in Nat
      BY <1>3, <1>4, <1>6, <2>3
    <3> QED
      BY <2>2, <3>1
  <2>6. L[1].start \in Nat /\ L[m].stop \in Nat
    BY <1>3, <1>6, <2>3
  <2>7. piece(1).start = from
    <3>1. /\ piece(1).start >= from /\ piece(1).start >= L[1].start
          /\ piece(1).start = from \/ piece(1).start = L[1].start
      BY <1>7, <2>3
    <3> QED
      BY <2>4, <2>6, <3>1
  <2>8. piece(m).stop = to
    <3>1. /\ piece(m).stop <= to /\ (piece(m).stop = to \/ piece(m).stop = L[m].stop)
      BY <1>7, <2>3
    <3> QED
      BY <2>5, <2>6, <3>1
  <2> QED
    BY <2>3, <2>7, <2>8
<1>11. ASSUME NEW i \in 2..m
       PROVE  piece(i - 1).stop = piece(i).start
  <2>1. i \in 1..m /\ i - 1 \in 1..m /\ i - 1 < i /\ i \in 1..n /\ i - 1 \in 1..n
    BY <1>5, <1>6
  <2> DEFINE a == L[i - 1]
             b == L[i]
             x == piece(i - 1).stop
             y == piece(i).start
  <2>2. /\ a.start \in Nat /\ a.stop \in Nat /\ b.start \in Nat /\ b.stop \in Nat
        /\ a.start <= a.stop /\ a.stop <= b.start /\ a.stop > from
    BY <1>3, <1>4, <2>1
  <2>3. /\ x <= to /\ x <= a.stop /\ (x = to \/ x = a.stop) /\ b.start < to
        /\ y >= from /\ y >= b.start /\ (y = from \/ y = b.start) /\ y < to
        /\ x \in Nat /\ y \in Nat
    BY <1>6, <1>7, <2>1 DEF Buffer
  <2> HIDE DEF x, y
  <2>4. x = a.stop /\ y = b.start /\ x <= y
    BY <2>2, <2>3
  <2>5. SUFFICES ASSUME x < y PROVE FALSE
    BY <2>3, <2>4 DEF x, y
  <2>6. PICK j \in 1..m : L[j].start <= x /\ x < L[j].stop
    <3>1. x \in from..(to - 1)
      BY <2>2, <2>3, <2>4, <2>5
    <3> QED
      BY <1>9, <3>1
  <2>7. j \in 1..n /\ L[j].start \in Nat /\ L[j].stop \in Nat /\ L[j].start <= L[j].stop
    BY <1>3, <1>6
  <2>8. CASE j < i - 1
    <3>1. L[j].stop <= a.start
      BY <1>4, <2>1, <2>7, <2>8
    <3>2. a.start \in Nat /\ a.stop \in Nat /\ a.start <= a.stop
      BY <2>2
    <3>3. x = a.stop
      BY <2>4
    <3>4. x < L[j].stop /\ L[j].stop \in Nat
      BY <2>6, <2>7
    <3> QED
      BY <3>1, <3>2, <3>3, <3>4
  <2>9. CASE j = i - 1
    <3>1. x < a.stop
      BY <2>6, <2>9
    <3>2. x = a.stop /\ a.stop \in Nat
      BY <2>2, <2>4
    <3> QED
      BY <3>1, <3>2
  <2>10. CASE j = i
    <3>1. b.start <= x
      BY <2>6, <2>10
    <3>2. x < b.start /\ x \in Nat /\ b.start \in Nat
      BY <2>2, <2>3, <2>4, <2>5
    <3> QED
      BY <3>1, <3>2
  <2>11. CASE j > i
    <3>1. b.stop <= L[j].start /\ b.start <= b.stop
      BY <1>3, <1>4, <2>1, <2>7, <2>11
    <3>2. b.start \in Nat /\ b.stop \in Nat /\ a.stop \in Nat
      BY <2>2
    <3>3. x = a.stop /\ x < b.start
      BY <2>4, <2>5
    <3>4. L[j].start <= x /\ L[j].start \in Nat
      BY <2>6, <2>7
    <3>5. b.start <= L[j].start
      <4> HIDE DEF a, L
      <4> QED
        BY <3>1, <3>2, <3>4
    <3> HIDE DEF a, b, L
    <3> QED
      BY <3>2, <3>3, <3>4, <3>5
  <2>12. j < i - 1 \/ j = i - 1 \/ j = i \/ j > i
    BY <2>1, <2>7
  <2> QED
    BY <2>8, <2>9, <2>10, <2>11, <2>12
<1>12. ASSUME NEW i \in 1..m, NEW t \in piece(i).start..(piece(i).stop - 1)
       PROVE  Says(segs, t, piece(i).gap)
  <2>1. /\ piece(i).start \in Nat /\ piece(i).stop \in Nat
        /\ piece(i).start >= from /\ piece(i).start >= L[i].start
        /\ piece(i).stop <= L[i].stop /\ L[i].start \in Nat /\ L[i].stop \in Nat
        /\ L[i].flag \in BOOLEAN /\ i \in DOMAIN L
    BY <1>3, <1>6, <1>7 DEF Buffer
  <2>2. t \in Nat /\ from <= t /\ L[i].start <= t /\ t < L[i].stop
    BY <2>1
  <2>3. Says(L, t, L[i].flag)
    BY <2>1, <2>2 DEF Says
  <2> QED
    BY <1>2, <1>8, <2>1, <2>2, <2>3
<1>13. /\ q \in Seq(Buffer) /\ Len(q) = m /\ DOMAIN q = 1..m
  <2>1. q = [i \in 1..m |-> piece(i)] /\ m \in Nat
    BY <1>1, <1>5, <1>10
  <2>2. \A i \in 1..m : piece(i) \in Buffer
    BY <1>7
  <2> QED
    BY <2>1, <2>2
<1>14. Sequential(q)
  <2>1. ASSUME NEW i \in 1..m
        PROVE  /\ q[i].start <= q[i].stop
               /\ i > 1 => q[i - 1].stop = q[i].start /\ q[i].start \in Nat
    <3>1. q[i] = piece(i) /\ piece(i).start <= piece(i).stop /\ piece(i).start \in Nat
      BY <1>6, <1>7 DEF Buffer
    <3>2. i > 1 => i \in 2..m /\ i - 1 \in 1..m
      BY <1>10
    <3> QED
      BY <1>6, <1>11, <3>1, <3>2
  <2> QED
    BY <1>13, <2>1 DEF Sequential
<1>15. q # <<>> /\ q[1].start = from /\ q[Len(q)].stop = to
  <2>1. 1 \in 1..m /\ m \in 1..m
    BY <1>10
  <2> QED
    BY <1>6, <1>10, <1>13, <2>1
<1>16. ASSUME NEW i \in DOMAIN q
       PROVE  /\ q[i].stop <= to /\ q[i].discont = discont /\ ~q[i].drained
              /\ \A t \in q[i].start..(q[i].stop - 1) : Says(segs, t, q[i].gap)
  <2>1. i \in 1..m /\ q[i] = piece(i)
    BY <1>6, <1>13
  <2> QED
    BY <1>7, <1>8, <1>12, <2>1
<1> QED
  BY <1>13, <1>14, <1>15, <1>16 DEF q, Covering

\* Buffers after buffers.
LEMMA Joined ==
  ASSUME NEW p \in Seq(Buffer), NEW q \in Seq(Buffer), q # <<>>,
         Sequential(p), Sequential(q),
         p # <<>> => /\ p[Len(p)].stop <= q[1].start
                     /\ p[Len(p)].stop < q[1].start => q[1].discont
  PROVE  /\ p \o q \in Seq(Buffer) /\ p \o q # <<>> /\ Sequential(p \o q)
         /\ Len(p \o q) = Len(p) + Len(q)
         /\ (p \o q)[Len(p \o q)] = q[Len(q)]
         /\ \A i \in DOMAIN (p \o q) : \/ i \in DOMAIN p /\ (p \o q)[i] = p[i]
                                       \/ \E j \in DOMAIN q : (p \o q)[i] = q[j]
<1> DEFINE m == Len(p)
           n == Len(q)
           r == p \o q
<1>1. /\ m \in Nat /\ n \in Nat \ {0} /\ DOMAIN p = 1..m /\ DOMAIN q = 1..n
      /\ r \in Seq(Buffer) /\ Len(r) = m + n /\ DOMAIN r = 1..(m + n)
      /\ \A i \in 1..m : r[i] = p[i]
      /\ \A i \in 1..n : r[m + i] = q[i]
  OBVIOUS
<1> HIDE DEF r
<1>2. \A i \in (m + 1)..(m + n) : i - m \in 1..n /\ m + (i - m) = i /\ r[i] = q[i - m]
  <2> TAKE i \in (m + 1)..(m + n)
  <2>1. i - m \in 1..n /\ m + (i - m) = i
    BY <1>1
  <2> HIDE DEF m, n
  <2> QED
    BY <1>1, <2>1
<1>3. Sequential(r)
  <2>1. ASSUME NEW i \in 1..(m + n)
        PROVE  /\ r[i].start <= r[i].stop
               /\ i > 1 => /\ r[i - 1].stop <= r[i].start
                           /\ r[i - 1].stop < r[i].start => r[i].discont
    <3>1. CASE i <= m
      <4>1. i \in 1..m /\ (i > 1 => i - 1 \in 1..m)
        BY <1>1, <3>1
      <4> QED
        BY <1>1, <4>1 DEF Sequential
    <3>2. CASE i = m + 1
      <4>1. 1 \in 1..n /\ r[i] = q[1] /\ q[1].start <= q[1].stop
        BY <1>1, <3>2 DEF Sequential
      <4>2. i > 1 => p # <<>> /\ r[i - 1] = p[m]
        BY <1>1, <3>2
      <4> QED
        BY <4>1, <4>2
    <3>3. CASE i > m + 1
      <4>1. /\ i \in (m + 1)..(m + n) /\ i - 1 \in (m + 1)..(m + n)
            /\ i - m \in 1..n /\ i - m > 1 /\ (i - 1) - m = (i - m) - 1
        BY <1>1, <3>3
      <4>2. r[i] = q[i - m] /\ r[i - 1] = q[(i - m) - 1]
        BY <1>2, <4>1
      <4> QED
        BY <1>1, <4>1, <4>2 DEF Sequential
    <3> QED
      BY <1>1, <3>1, <3>2, <3>3
  <2> QED
    BY <1>1, <2>1 DEF Sequential
<1>4. r[m + n] = q[n] /\ r # <<>>
  BY <1>1
<1>5. ASSUME NEW i \in 1..(m + n)
      PROVE  \/ i \in 1..m /\ r[i] = p[i]
             \/ \E j \in 1..n : r[i] = q[j]
  <2>1. i \in 1..m \/ i \in (m + 1)..(m + n)
    BY <1>1
  <2> QED
    BY <1>1, <1>2, <2>1
<1> QED
  BY <1>1, <1>3, <1>4, <1>5 DEF r

-----------------------------------------------------------------------------
(* The drain.                                                              *)

\* Seconds, and a remainder.
LEMMA DivisionIs ==
  ASSUME NEW n \in Nat, NEW r \in Nat \ {0}
  PROVE  n \div r \in Nat /\ n % r \in 0..(r - 1) /\ n = (n \div r) * r + (n % r)
OBVIOUS

\* The executions of a drain: whole seconds and at most one shorter.
LEMMA ExecutionsAre ==
  ASSUME bank \in Banks, NEW n \in Nat
  PROVE  LET parts == Executions(n)
             whole == n \div bank.rate
             rest == n % bank.rate
         IN  /\ parts \in Seq(Nat) /\ whole \in Nat
             /\ rest \in 0..bank.rate /\ n = whole * bank.rate + rest
             /\ Len(parts) = whole + (IF rest = 0 THEN 0 ELSE 1)
             /\ \A k \in DOMAIN parts : parts[k] = IF k <= whole THEN bank.rate ELSE rest
<1> DEFINE w == n \div bank.rate
           rest == n % bank.rate
           p == [k \in 1..w |-> bank.rate]
           q == IF rest = 0 THEN <<>> ELSE <<rest>>
<1>1. bank.rate \in Nat \ {0}
  BY BankIs
<1>2. w \in Nat /\ rest \in 0..(bank.rate - 1) /\ n = w * bank.rate + rest
  BY <1>1, DivisionIs
<1>3. Executions(n) = p \o q
  BY DEF Executions
<1>a. w \in Nat /\ rest \in Int
  BY <1>1, <1>2
<1> HIDE DEF w, rest
<1> DEFINE e == IF rest = 0 THEN 0 ELSE 1
<1>4. /\ p \in Seq(Nat) /\ Len(p) = w /\ \A k \in 1..w : p[k] = bank.rate
      /\ q \in Seq(Nat) /\ Len(q) = e /\ (e = 1 => q[1] = rest)
      /\ e \in {0, 1} /\ (e = 1 <=> rest # 0)
  <2>1. p \in Seq(Nat) /\ Len(p) = w /\ \A k \in 1..w : p[k] = bank.rate
    BY <1>1, <1>a
  <2>2. CASE rest = 0
    BY <1>a, <2>1, <2>2
  <2>3. CASE rest # 0
    <3>1. q = <<rest>> /\ e = 1 /\ rest \in Nat
      BY <1>1, <1>2, <2>3
    <3> HIDE DEF p, q, e
    <3>2. q \in Seq(Nat) /\ Len(q) = 1 /\ q[1] = rest
      BY <3>1
    <3> QED
      BY <2>1, <2>3, <3>1, <3>2
  <2> QED
    BY <2>2, <2>3
<1> HIDE DEF p, q, e
<1>5. /\ p \o q \in Seq(Nat) /\ Len(p \o q) = w + e
      /\ DOMAIN (p \o q) = 1..(w + e)
      /\ \A k \in 1..w : (p \o q)[k] = bank.rate
      /\ e = 1 => (p \o q)[w + 1] = rest
  <2>1. /\ p \o q \in Seq(Nat) /\ Len(p \o q) = w + e
        /\ \A k \in 1..w : (p \o q)[k] = p[k]
        /\ \A k \in 1..e : (p \o q)[w + k] = q[k]
    BY <1>a, <1>4
  <2> QED
    BY <1>a, <1>4, <2>1
<1>6. ASSUME NEW k \in DOMAIN (p \o q) PROVE k <= w \/ (k = w + 1 /\ e = 1)
  <2>1. k \in 1..(w + e) /\ e \in {0, 1}
    BY <1>4, <1>5
  <2> QED
    BY <1>a, <2>1
<1>7. ASSUME NEW k \in DOMAIN (p \o q)
      PROVE  (p \o q)[k] = IF k <= w THEN bank.rate ELSE rest
  <2>1. k <= w => k \in 1..w
    BY <1>a, <1>5
  <2>2. k = w + 1 => ~(k <= w)
    BY <1>a
  <2> QED
    BY <1>5, <1>6, <2>1, <2>2
<1>8. rest \in 0..bank.rate
  BY <1>1, <1>2
<1> QED
  BY <1>2, <1>3, <1>5, <1>7, <1>8 DEF w, rest, e

\* The chain follows the executions.
LEMMA ChainIs ==
  ASSUME bank \in Banks, element.spstate \in Chains, NEW parts \in Seq(Nat)
  PROVE  /\ Chain(parts) \in [0..Len(parts) -> Chains]
         /\ Chain(parts)[0] = element.spstate
         /\ \A k \in 1..Len(parts) :
              Chain(parts)[k] = Filtered(Chain(parts)[k - 1], parts[k])
<1> DEFINE m == Len(parts)
           a == element.spstate
           G == [p \in (1..m) \X Chains |-> Filtered(p[2], parts[p[1]])]
           Is(f) == f = [k \in 0..m |-> IF k = 0 THEN a ELSE Filtered(f[k - 1], parts[k])]
           h == CHOOSE f : Is(f)
<1>1. m \in Nat /\ \A k \in 1..m : parts[k] \in Int
  OBVIOUS
<1>2. Chain(parts) = h
  BY Zenon DEF Chain
<1> HIDE DEF m, a
<1>3. Step(G, m, Chains)
  <2>1. ASSUME NEW p \in (1..m) \X Chains PROVE Filtered(p[2], parts[p[1]]) \in Chains
    <3>1. p[2] \in Chains /\ parts[p[1]] \in Int
      BY <1>1
    <3> QED
      BY <3>1, FilteredIs
  <2> QED
    BY <2>1 DEF Step
<1>4. PICK f \in [0..m -> Chains] :
        f[0] = a /\ \A i \in 1..m : f[i] = G[<<i, f[i - 1]>>]
  <2> HIDE DEF G
  <2>1. a \in Chains /\ m \in Nat
    BY <1>1 DEF a
  <2>2. PICK f : Follows(f, m, Chains, a, G)
    BY <1>3, <2>1, Recursion, Zenon
  <2> QED
    BY <2>2 DEF Follows
<1>5. Is(f)
  <2>1. ASSUME NEW i \in 0..m
        PROVE  f[i] = IF i = 0 THEN a ELSE Filtered(f[i - 1], parts[i])
    <3>1. CASE i = 0
      <4> HIDE DEF G
      <4> QED
        BY <1>1, <1>4, <3>1
    <3>2. CASE i # 0
      <4>1. i - 1 \in 0..m /\ i \in 1..m
        BY <1>1, <3>2
      <4>2. <<i, f[i - 1]>> \in (1..m) \X Chains
        BY <1>4, <4>1
      <4>3. G[<<i, f[i - 1]>>] = Filtered(f[i - 1], parts[i])
        BY <4>2
      <4>4. f[i] = G[<<i, f[i - 1]>>]
        <5> HIDE DEF G
        <5> QED
          BY <1>4, <4>1
      <4> HIDE DEF G
      <4> QED
        BY <3>2, <4>3, <4>4
    <3> QED
      BY <3>1, <3>2
  <2> HIDE DEF G
  <2> QED
    BY <1>1, <1>4, <2>1
<1>6. Is(h)
  BY <1>5, Zenon
<1> HIDE DEF h
<1>7. h = [i \in 0..m |-> h[i]]
  BY <1>6
<1>8. h[0] = a /\ \A i \in 1..m : h[i] = Filtered(h[i - 1], parts[i])
  <2>1. \A i \in 0..m : h[i] = IF i = 0 THEN a ELSE Filtered(h[i - 1], parts[i])
    BY <1>6
  <2>2. 0 \in 0..m /\ \A i \in 1..m : i \in 0..m /\ i # 0
    BY <1>1
  <2> QED
    BY <2>1, <2>2
<1>9. h \in [0..m -> Chains]
  <2> DEFINE S == {i \in 0..m : h[i] \in Chains}
  <2>1. 0 \in S
    BY <1>1, <1>8 DEF a
  <2>2. ASSUME NEW i \in 1..m, i - 1 \in S PROVE i \in S
    <3>1. /\ h[i] = Filtered(h[i - 1], parts[i]) /\ h[i - 1] \in Chains /\ i \in 0..m
          /\ parts[i] \in Int
      BY <1>1, <1>8, <2>2
    <3>2. h[i] \in Chains
      BY <3>1, FilteredIs
    <3> QED
      BY <3>1, <3>2
  <2>3. \A i \in 0..m : i \in S
    <3> HIDE DEF S
    <3> QED
      BY <1>1, <2>1, <2>2, UpTo
  <2> QED
    BY <1>1, <1>7, <2>3
<1> QED
  BY <1>2, <1>8, <1>9 DEF m, a

\* One more second.
LEMMA OneMore ==
  ASSUME NEW k \in Nat, NEW r \in Nat
  PROVE  (k + 1) * r = k * r + r
OBVIOUS

\* A chain that lags can be drained: every execution fits, and no more comes out than
\* goes in.
LEMMA DrainTakes ==
  ASSUME bank \in Banks, Lagging(element.spstate), NEW n \in Nat
  PROVE  LET parts == Executions(n)
         IN  /\ \A k \in DOMAIN parts : Fits(Chain(parts)[k - 1], parts[k])
             /\ Chain(parts)[Len(parts)] \in Chains
             /\ Chain(parts)[Len(parts)].read[0] - element.spstate.read[0] \in 0..n
<1> DEFINE parts == Executions(n)
           m == Len(parts)
           c == Chain(parts)
           r == bank.rate
           w == n \div r
           rest == n % r
           was == element.spstate.read[0]
           S == {k \in 0..w : Lagging(c[k]) /\ c[k].read[0] = was + k * r}
<1>1. r \in Nat \ {0} /\ 0 \in Depths /\ element.spstate \in Chains /\ was \in Int
  <2>1. r \in Nat \ {0} /\ 0 \in Depths
    BY BankIs
  <2>2. element.spstate \in Chains
    BY DEF Lagging
  <2> QED
    BY <2>1, <2>2 DEF Chains
<1>2. /\ parts \in Seq(Nat) /\ w \in Nat /\ rest \in 0..r /\ n = w * r + rest
      /\ m = w + (IF rest = 0 THEN 0 ELSE 1)
      /\ \A k \in DOMAIN parts : parts[k] = IF k <= w THEN r ELSE rest
  BY ExecutionsAre
<1> HIDE DEF parts, w, rest, r, was
<1>3. /\ c \in [0..m -> Chains] /\ c[0] = element.spstate
      /\ \A k \in 1..m : c[k] = Filtered(c[k - 1], parts[k])
  BY <1>1, <1>2, ChainIs
<1> HIDE DEF c
<1>4. m \in Nat /\ DOMAIN parts = 1..m /\ w <= m
  BY <1>2
<1> HIDE DEF m
<1>5. 0 \in S
  BY <1>1, <1>2, <1>3 DEF was
<1>6. ASSUME NEW k \in 1..w, k - 1 \in S PROVE k \in S
  <2>1. k \in 0..w /\ k \in 1..m /\ k <= w /\ k - 1 \in Nat /\ (k - 1) + 1 = k
    BY <1>2, <1>4
  <2>2. Lagging(c[k - 1]) /\ c[k - 1].read[0] = was + (k - 1) * r
    BY <1>6
  <2>3. c[k] = Filtered(c[k - 1], r)
    BY <1>2, <1>3, <1>4, <2>1
  <2>4. Lagging(c[k]) /\ Up(c[k - 1], r)[0] = r
    <3>1. r \in Nat /\ r <= bank.rate /\ r = bank.rate
      BY <1>1 DEF r
    <3> QED
      BY <2>2, <2>3, <3>1, LaggingTakes
  <2>5. c[k].read[0] = c[k - 1].read[0] + r
    <3>1. c[k - 1] \in Chains /\ r \in Int
      BY <1>1, <2>2 DEF Lagging
    <3> QED
      <4>1. c[k].read[0] = c[k - 1].read[0] + Up(c[k - 1], r)[0]
        <5> DEFINE x == c[k - 1]
        <5>1. x \in Chains /\ c[k] = Filtered(x, r)
          BY <2>3, <3>1
        <5> HIDE DEF x
        <5>2. Filtered(x, r).read[0] = x.read[0] + Up(x, r)[0]
          BY <1>1, <3>1, <5>1, FilteredIs
        <5> QED
          BY <5>1, <5>2 DEF x
      <4> QED
        BY <2>4, <4>1
  <2>6. k * r = (k - 1) * r + r
    <3>1. r \in Nat
      BY <1>1
    <3>2. ((k - 1) + 1) * r = (k - 1) * r + r
      BY <2>1, <3>1, OneMore
    <3> QED
      BY <2>1, <3>2
  <2>7. (k - 1) * r \in Int
    BY <1>1, <2>1
  <2>8. c[k].read[0] = was + k * r
    BY <1>1, <2>2, <2>5, <2>6, <2>7
  <2> QED
    BY <2>1, <2>4, <2>8
<1>7. \A k \in 0..w : Lagging(c[k]) /\ c[k].read[0] = was + k * r
  <2>1. \A k \in 0..w : k \in S
    <3> HIDE DEF S
    <3> QED
      BY <1>2, <1>5, <1>6, UpTo
  <2> QED
    BY <2>1
<1>8. ASSUME NEW k \in DOMAIN parts PROVE Fits(c[k - 1], parts[k])
  <2>1. /\ k - 1 \in 0..w /\ parts[k] \in Nat /\ parts[k] <= bank.rate
    BY <1>1, <1>2, <1>4 DEF r
  <2> QED
    BY <1>7, <2>1, LaggingTakes
<1>9. c[m] \in Chains
  BY <1>3, <1>4
<1>10. c[m].read[0] - was \in 0..n
  <2> DEFINE x == w * r
  <2>1. x \in Nat
    BY <1>1, <1>2
  <2>2. c[w].read[0] = was + x
    BY <1>2, <1>7
  <2>3. n = x + rest
    BY <1>2
  <2> HIDE DEF x
  <2>4. CASE rest = 0
    BY <1>1, <1>2, <2>1, <2>2, <2>3, <2>4
  <2>5. CASE rest # 0
    <3>1. m = w + 1 /\ m \in 1..m /\ m - 1 = w /\ parts[m] = rest /\ rest \in Nat
      BY <1>2, <1>4, <2>5
    <3>2. c[m] = Filtered(c[w], rest)
      BY <1>3, <3>1
    <3>3. Up(c[w], rest)[0] \in 0..rest
      <4>1. Lagging(c[w]) /\ rest <= bank.rate
        BY <1>1, <1>2, <1>7 DEF r
      <4> QED
        BY <3>1, <4>1, LaggingTakes
    <3>4. c[m].read[0] = c[w].read[0] + Up(c[w], rest)[0]
      <4>1. c[w] \in Chains /\ rest \in Int
        BY <1>2, <1>3, <1>4, <3>1
      <4> QED
        BY <1>1, <3>2, <4>1, FilteredIs
    <3> QED
      BY <1>1, <2>1, <2>2, <2>3, <3>1, <3>3, <3>4
  <2> QED
    BY <2>4, <2>5
<1> QED
  BY <1>8, <1>9, <1>10 DEF parts, c, m, was

-----------------------------------------------------------------------------
(* The invariant.                                                          *)

\* The element's fields.
Elements ==
  [spstate : Chains, adapter : Nat, flag_segments : Seq(Segment),
   need_discont : BOOLEAN, need_tail_drain : BOOLEAN, t0 : Nat \union {None},
   next_in_offset : Nat \union {None}, samples_in : Nat, samples_out : Nat,
   num_exe_samples : Nat]

\* What a flag says of a sample.
Sort(gap) == IF gap THEN "gap" ELSE "data"

\* The flag segments are in order and say what was heard.
Recorded(segs, h) ==
  /\ segs \in Seq(Segment) /\ Ordered(segs)
  /\ segs # <<>> => Final(segs).stop <= Len(h)
  /\ \A t \in 0..(Len(h) - 1), flag \in BOOLEAN :
       Says(segs, t, flag) => h[t + 1] = Sort(flag)

\* Since the start nothing was executed, and all that was pushed is older.
Fresh(e, o) ==
  /\ e.spstate = NewChain(bank) /\ e.num_exe_samples = SetExe(bank)
  /\ e.samples_in = 0 /\ e.samples_out = 0
  /\ ~e.need_tail_drain /\ e.need_discont
  /\ \A i \in DOMAIN o : o[i].stop <= e.t0

\* The output is behind the input by the tail, and ends where the next one begins.
Running(e, o) ==
  /\ Lagging(e.spstate) /\ e.num_exe_samples = bank.rate
  /\ e.samples_in = e.samples_out + TailCover(bank)
  /\ (e.need_tail_drain <=> bank.num_depths > 1) /\ ~e.need_discont
  /\ o # <<>> /\ o[Len(o)].stop = e.t0 + e.samples_out

\* Every sample received is executed or in the adapter, and of all that are not
\* pushed yet the segments speak.
Steady(e, h, o) ==
  IF e.t0 = None THEN ~e.need_tail_drain
  ELSE /\ e.next_in_offset = Len(h)
       /\ Len(h) = e.t0 + e.samples_in + e.adapter
       /\ Fresh(e, o) \/ Running(e, o)
       /\ \A t \in (e.t0 + e.samples_out)..(Len(h) - 1) :
            Says(e.flag_segments, t, TRUE) \/ Says(e.flag_segments, t, FALSE)

\* What was pushed is in order and true, and not ahead of the input.
Pushed(o, h) ==
  /\ o \in Seq(Buffer) /\ Sequential(o)
  /\ \A i \in DOMAIN o :
       /\ o[i].stop <= Len(h)
       /\ ~o[i].drained => \A t \in o[i].start..(o[i].stop - 1) :
                             h[t + 1] = Sort(o[i].gap)

\* What holds also after the end.
Sound ==
  /\ bank \in Banks /\ eos \in BOOLEAN /\ failed \in {"no", "division"}
  /\ heard \in Seq({"data", "gap", "hole"}) /\ element \in Elements
  /\ element.t0 # None => element.adapter < element.num_exe_samples
  /\ Pushed(out, heard)

\* After EOS the element only keeps its types: nothing follows.
IInv == Sound /\ (~eos => /\ Recorded(element.flag_segments, heard)
                          /\ Steady(element, heard, out))

-----------------------------------------------------------------------------
(* A buffer is received.                                                   *)

\* A buffer as transform is given it.
Input == [start : Nat, stop : Nat, gap : BOOLEAN, discont : BOOLEAN]

\* The initial element of a stream that starts at t.
LEMMA ResyncedIs ==
  ASSUME bank \in Banks, NEW e \in Elements, NEW b \in Input
  PROVE  /\ Resynced(e, b) \in Elements
         /\ Resynced(e, b).spstate = NewChain(bank) /\ Resynced(e, b).t0 = b.start
         /\ Resynced(e, b).need_discont = TRUE /\ Resynced(e, b).need_tail_drain = FALSE
         /\ Resynced(e, b).samples_in = 0 /\ Resynced(e, b).samples_out = 0
         /\ Resynced(e, b).num_exe_samples = SetExe(bank)
         /\ Resynced(e, b).adapter = 0
         /\ Resynced(e, b).flag_segments = e.flag_segments
<1>1. NewChain(bank) \in Chains /\ SetExe(bank) \in Nat
  BY NewChainIs, HeadIs
<1>2. b.start \in Nat
  BY DEF Input
<1> QED
  BY <1>1, <1>2 DEF Resynced, Elements

\* The element that takes buffer b: it is where the buffer starts, and knows of all
\* that is not pushed yet.
LEMMA Synced ==
  ASSUME IInv, ~eos, NEW b \in Input, Len(heard) <= b.start
  PROVE  LET e == [(IF NeedsResync(b) THEN Resynced(element, b) ELSE element)
                     EXCEPT !.next_in_offset = b.stop]
         IN  /\ e \in Elements /\ e.t0 \in Nat /\ e.next_in_offset = b.stop
             /\ e.flag_segments = element.flag_segments
             /\ b.start = e.t0 + e.samples_in + e.adapter
             /\ e.adapter < e.num_exe_samples
             /\ Fresh(e, out) \/ Running(e, out)
             /\ \A t \in (e.t0 + e.samples_out)..(b.start - 1) :
                  /\ t \in 0..(Len(heard) - 1)
                  /\ Says(e.flag_segments, t, TRUE) \/ Says(e.flag_segments, t, FALSE)
<1> DEFINE e0 == IF NeedsResync(b) THEN Resynced(element, b) ELSE element
           e == [e0 EXCEPT !.next_in_offset = b.stop]
<1>1. /\ bank \in Banks /\ element \in Elements /\ Pushed(out, heard)
      /\ element.t0 # None => element.adapter < element.num_exe_samples
      /\ Steady(element, heard, out)
  BY DEF IInv, Sound
<1>2. b.start \in Nat /\ b.stop \in Nat /\ Len(heard) \in Nat
  BY DEF Input, IInv, Sound
<1>3. CASE NeedsResync(b)
  <2>1. e0 = Resynced(element, b)
    BY <1>3
  <2> HIDE DEF e0
  <2>2. /\ e0 \in Elements /\ e0.spstate = NewChain(bank) /\ e0.t0 = b.start
        /\ e0.need_discont = TRUE /\ e0.need_tail_drain = FALSE
        /\ e0.samples_in = 0 /\ e0.samples_out = 0
        /\ e0.num_exe_samples = SetExe(bank) /\ e0.adapter = 0
        /\ e0.flag_segments = element.flag_segments
    <3> DEFINE r == Resynced(element, b)
    <3>1. /\ r \in Elements /\ r.spstate = NewChain(bank) /\ r.t0 = b.start
          /\ r.need_discont = TRUE /\ r.need_tail_drain = FALSE
          /\ r.samples_in = 0 /\ r.samples_out = 0
          /\ r.num_exe_samples = SetExe(bank) /\ r.adapter = 0
          /\ r.flag_segments = element.flag_segments
      BY <1>1, ResyncedIs
    <3> HIDE DEF r
    <3> QED
      BY <2>1, <3>1 DEF r
  <2>3. /\ e \in Elements /\ e.spstate = NewChain(bank) /\ e.t0 = b.start
        /\ e.need_discont = TRUE /\ e.need_tail_drain = FALSE
        /\ e.samples_in = 0 /\ e.samples_out = 0
        /\ e.num_exe_samples = SetExe(bank) /\ e.adapter = 0
        /\ e.flag_segments = element.flag_segments /\ e.next_in_offset = b.stop
    BY <1>2, <2>2 DEF Elements
  <2> HIDE DEF e
  <2>4. \A i \in DOMAIN out : out[i].stop <= b.start
    <3>1. \A i \in DOMAIN out : out[i].stop <= Len(heard) /\ out[i] \in Buffer
      BY <1>1 DEF Pushed
    <3>2. \A i \in DOMAIN out : out[i].stop \in Nat
      BY <3>1 DEF Buffer
    <3> QED
      BY <1>2, <3>1, <3>2
  <2>5. Fresh(e, out)
    BY <2>3, <2>4 DEF Fresh
  <2>6. SetExe(bank) \in Nat \ {0}
    BY <1>1, HeadIs
  <2>7. b.start = e.t0 + e.samples_in + e.adapter /\ e.adapter < e.num_exe_samples
    BY <1>2, <2>3, <2>6
  <2>8. (e.t0 + e.samples_out)..(b.start - 1) = {}
    BY <1>2, <2>3
  <2> QED
    BY <1>2, <2>3, <2>5, <2>7, <2>8 DEF e, e0
<1>4. CASE ~NeedsResync(b)
  <2>1. e0 = element /\ element.t0 # None /\ b.start = element.next_in_offset
    BY <1>4 DEF NeedsResync
  <2>2. /\ element.next_in_offset = Len(heard)
        /\ Len(heard) = element.t0 + element.samples_in + element.adapter
        /\ Fresh(element, out) \/ Running(element, out)
        /\ \A t \in (element.t0 + element.samples_out)..(Len(heard) - 1) :
             \/ Says(element.flag_segments, t, TRUE)
             \/ Says(element.flag_segments, t, FALSE)
    BY <1>1, <2>1 DEF Steady
  <2> HIDE DEF e0
  <2>3. /\ e \in Elements /\ e.next_in_offset = b.stop
        /\ e.spstate = element.spstate /\ e.t0 = element.t0
        /\ e.need_discont = element.need_discont
        /\ e.need_tail_drain = element.need_tail_drain
        /\ e.samples_in = element.samples_in /\ e.samples_out = element.samples_out
        /\ e.num_exe_samples = element.num_exe_samples /\ e.adapter = element.adapter
        /\ e.flag_segments = element.flag_segments
    BY <1>1, <1>2, <2>1 DEF Elements
  <2> HIDE DEF e
  <2>4. Fresh(e, out) \/ Running(e, out)
    BY <2>2, <2>3 DEF Fresh, Running
  <2>5. e.t0 \in Nat /\ e.samples_out \in Nat
    BY <1>1, <2>1, <2>3 DEF Elements
  <2>6. \A t \in (e.t0 + e.samples_out)..(b.start - 1) : t \in 0..(Len(heard) - 1)
    BY <1>2, <2>1, <2>2, <2>5
  <2>7. \A t \in (e.t0 + e.samples_out)..(b.start - 1) :
          \/ Says(e.flag_segments, t, TRUE) \/ Says(e.flag_segments, t, FALSE)
    BY <2>1, <2>2, <2>3
  <2>8. b.start = e.t0 + e.samples_in + e.adapter /\ e.adapter < e.num_exe_samples
    BY <1>1, <2>1, <2>2, <2>3
  <2>9. \A t \in (e.t0 + e.samples_out)..(b.start - 1) :
          /\ t \in 0..(Len(heard) - 1)
          /\ Says(e.flag_segments, t, TRUE) \/ Says(e.flag_segments, t, FALSE)
    BY <2>6, <2>7
  <2>10. e.t0 \in Nat
    BY <2>5
  <2> QED
    BY <2>3, <2>4, <2>8, <2>9, <2>10 DEF e, e0
<1> QED
  BY <1>3, <1>4 DEF e, e0

\* What was said of the past stays true when more is heard.
Extends(h, to, from, sort) ==
  /\ h \in Seq({"data", "gap", "hole"}) /\ Len(heard) <= from /\ Len(h) = to
  /\ \A t \in 1..Len(heard) : h[t] = heard[t]
  /\ \A t \in (from + 1)..to : h[t] = sort

\* Segments speak only of what was heard.
LEMMA SaysBefore ==
  ASSUME NEW segs \in Seq(Segment), Ordered(segs), NEW n \in Nat,
         segs # <<>> => Final(segs).stop <= n,
         NEW t \in Nat, NEW flag \in BOOLEAN, Says(segs, t, flag)
  PROVE  t < n
<1>1. PICK i \in DOMAIN segs : segs[i].start <= t /\ t < segs[i].stop
  BY DEF Says
<1> DEFINE m == Len(segs)
<1>2. m \in Nat \ {0} /\ DOMAIN segs = 1..m /\ i \in 1..m /\ m \in 1..m /\ segs # <<>>
  BY <1>1
<1>3. segs[m].stop <= n
  BY <1>2 DEF Final
<1> HIDE DEF m
<1>4. segs[i] \in Segment /\ segs[m] \in Segment
  BY <1>2
<1>5. segs[i].stop \in Nat /\ segs[m].stop \in Nat /\ segs[m].start \in Nat
  BY <1>4 DEF Segment
<1>6. segs[i].stop <= segs[m].stop
  <2>1. CASE i = m
    BY <1>5, <2>1
  <2>2. CASE i # m
    <3>1. i < m
      BY <1>2, <2>2
    <3>2. segs[i].stop <= segs[m].start /\ segs[m].start <= segs[m].stop
      BY <1>2, <3>1 DEF Ordered
    <3> QED
      BY <1>5, <3>2
  <2> QED
    BY <2>1, <2>2
<1> QED
  BY <1>1, <1>3, <1>5, <1>6

\* A hole or an empty buffer leaves the record as it is.
LEMMA RecordKept ==
  ASSUME NEW segs, Recorded(segs, heard), NEW h, NEW to \in Nat, NEW from \in Nat,
         from <= to, NEW sort, heard \in Seq({"data", "gap", "hole"}),
         Extends(h, to, from, sort)
  PROVE  Recorded(segs, h)
<1>1. /\ Len(heard) \in Nat /\ Len(heard) <= from /\ Len(h) = to
      /\ \A t \in 1..Len(heard) : h[t] = heard[t]
  BY DEF Extends
<1>2. /\ segs \in Seq(Segment) /\ Ordered(segs)
      /\ segs # <<>> => Final(segs).stop <= Len(heard)
      /\ \A t \in 0..(Len(heard) - 1), flag \in BOOLEAN :
           Says(segs, t, flag) => heard[t + 1] = Sort(flag)
  BY DEF Recorded
<1>3. segs # <<>> => Final(segs).stop <= Len(h)
  <2>1. segs # <<>> => Final(segs) \in Segment
    BY <1>2 DEF Final
  <2> QED
    BY <1>1, <1>2, <2>1 DEF Segment
<1>4. ASSUME NEW t \in 0..(Len(h) - 1), NEW flag \in BOOLEAN, Says(segs, t, flag)
      PROVE  h[t + 1] = Sort(flag)
  <2>1. t \in Nat
    OBVIOUS
  <2>2. t < Len(heard)
    BY <1>1, <1>2, <1>4, <2>1, SaysBefore
  <2>3. t \in 0..(Len(heard) - 1) /\ t + 1 \in 1..Len(heard)
    BY <1>1, <2>1, <2>2
  <2> QED
    BY <1>1, <1>2, <1>4, <2>3
<1> QED
  BY <1>2, <1>3, <1>4 DEF Recorded

\* A buffer is recorded at its time.
LEMMA RecordAdded ==
  ASSUME NEW segs, Recorded(segs, heard), NEW h, NEW b \in Input, b.start < b.stop,
         heard \in Seq({"data", "gap", "hole"}),
         Extends(h, b.stop, b.start, Sort(b.gap))
  PROVE  LET new == [start |-> b.start, stop |-> b.stop, flag |-> b.gap]
         IN  /\ Recorded(AddSegment(segs, new), h)
             /\ AddSegment(segs, new) # <<>>
             /\ Final(AddSegment(segs, new)).stop = b.stop
             /\ \A t \in Nat, flag \in BOOLEAN :
                  Says(AddSegment(segs, new), t, flag)
                    <=> \/ Says(segs, t, flag)
                        \/ b.start <= t /\ t < b.stop /\ b.gap = flag
<1> DEFINE new == [start |-> b.start, stop |-> b.stop, flag |-> b.gap]
           s == AddSegment(segs, new)
<1>1. /\ new \in Segment /\ new.start = b.start /\ new.stop = b.stop /\ new.flag = b.gap
      /\ b.start \in Nat /\ b.stop \in Nat /\ b.gap \in BOOLEAN
  BY DEF Input, Segment
<1> HIDE DEF new
<1>2. /\ Len(heard) \in Nat /\ Len(heard) <= b.start /\ Len(h) = b.stop
      /\ \A t \in 1..Len(heard) : h[t] = heard[t]
      /\ \A t \in (b.start + 1)..b.stop : h[t] = Sort(b.gap)
  BY DEF Extends
<1>3. /\ segs \in Seq(Segment) /\ Ordered(segs)
      /\ segs # <<>> => Final(segs).stop <= Len(heard)
      /\ \A t \in 0..(Len(heard) - 1), flag \in BOOLEAN :
           Says(segs, t, flag) => heard[t + 1] = Sort(flag)
  BY DEF Recorded
<1>4. segs # <<>> => Final(segs).stop <= new.start
  <2>1. segs # <<>> => Final(segs) \in Segment
    BY <1>3 DEF Final
  <2> QED
    BY <1>1, <1>2, <1>3, <2>1 DEF Segment
<1>5. /\ s \in Seq(Segment) /\ Ordered(s)
      /\ \A t \in Nat, flag \in BOOLEAN :
           Says(s, t, flag) <=> \/ Says(segs, t, flag)
                                \/ new.start <= t /\ t < new.stop /\ new.flag = flag
  BY <1>1, <1>3, <1>4, SegmentAdded
<1>6. s # <<>> /\ Final(s).stop = b.stop
  BY <1>1, <1>3, AddedLast
<1> HIDE DEF s
<1>7. ASSUME NEW t \in 0..(Len(h) - 1), NEW flag \in BOOLEAN, Says(s, t, flag)
      PROVE  h[t + 1] = Sort(flag)
  <2>1. t \in Nat
    OBVIOUS
  <2>2. CASE Says(segs, t, flag)
    <3>1. t < Len(heard)
      BY <1>2, <1>3, <2>1, <2>2, SaysBefore
    <3>2. t \in 0..(Len(heard) - 1) /\ t + 1 \in 1..Len(heard)
      BY <1>2, <2>1, <3>1
    <3> QED
      BY <1>2, <1>3, <2>2, <3>2
  <2>3. CASE b.start <= t /\ t < b.stop /\ b.gap = flag
    <3>1. t + 1 \in (b.start + 1)..b.stop
      BY <1>1, <2>1, <2>3
    <3> QED
      BY <1>2, <2>3, <3>1
  <2> QED
    BY <1>1, <1>5, <1>7, <2>1, <2>2, <2>3
<1>8. Recorded(s, h)
  <2>1. Final(s).stop <= Len(h)
    BY <1>1, <1>2, <1>6
  <2> QED
    BY <1>5, <1>7, <2>1 DEF Recorded
<1> QED
  BY <1>1, <1>5, <1>6, <1>8 DEF s, new

\* An element that has received all of h, with at least one execution in the adapter.
Loaded(e, h) ==
  /\ e \in Elements /\ e.t0 \in Nat /\ Recorded(e.flag_segments, h)
  /\ e.flag_segments # <<>> /\ Final(e.flag_segments).stop = Len(h)
  /\ e.num_exe_samples <= e.adapter /\ Steady(e, h, out)

\* The first execution gives the head less the tail, every other what it takes; the
\* chain is ready for a second after it.
LEMMA ExecutionIs ==
  ASSUME bank \in Banks, NEW e \in Elements, Fresh(e, out) \/ Running(e, out)
  PROVE  LET n == e.num_exe_samples
         IN  /\ n \in Nat \ {0} /\ OutLen(e, n) \in 1..n
             /\ Up(e.spstate, n)[0] = OutLen(e, n)
             /\ Lagging(Filtered(e.spstate, n))
             /\ e.samples_in + n = e.samples_out + OutLen(e, n) + TailCover(bank)
             /\ e.samples_out <= e.samples_in
<1> DEFINE n == e.num_exe_samples
<1>1. /\ SetExe(bank) \in Nat \ {0} /\ TailCover(bank) \in Nat
      /\ SetExe(bank) = bank.rate => TailCover(bank) = 0
      /\ SetExe(bank) # bank.rate => SetExe(bank) - TailCover(bank) = bank.up_filtlen
      /\ bank.rate \in Nat \ {0} /\ bank.up_filtlen \in Nat \ {0}
  BY HeadIs, BankIs
<1>2. e.samples_in \in Nat /\ e.samples_out \in Nat /\ n \in Nat
  BY DEF Elements
<1>3. OutLen(e, n) = IF n = bank.rate THEN n ELSE n - TailCover(bank)
  BY DEF OutLen
<1>4. CASE Fresh(e, out)
  <2>1. /\ e.spstate = NewChain(bank) /\ n = SetExe(bank)
        /\ e.samples_in = 0 /\ e.samples_out = 0
    BY <1>4 DEF Fresh
  <2>2. /\ Lagging(Filtered(NewChain(bank), SetExe(bank)))
        /\ Up(NewChain(bank), SetExe(bank))[0] =
             IF SetExe(bank) = bank.rate THEN SetExe(bank)
             ELSE SetExe(bank) - TailCover(bank)
    BY FreshTakes
  <2> HIDE DEF n
  <2>3. Lagging(Filtered(e.spstate, n)) /\ Up(e.spstate, n)[0] = OutLen(e, n)
    BY <1>3, <2>1, <2>2
  <2>4. /\ n \in Nat \ {0} /\ OutLen(e, n) \in 1..n
        /\ e.samples_in + n = e.samples_out + OutLen(e, n) + TailCover(bank)
    <3>1. CASE n = bank.rate
      <4>1. OutLen(e, n) = n /\ TailCover(bank) = 0
        BY <1>1, <1>3, <2>1, <3>1
      <4> QED
        BY <1>1, <2>1, <4>1
    <3>2. CASE n # bank.rate
      <4>1. OutLen(e, n) = n - TailCover(bank) /\ n - TailCover(bank) = bank.up_filtlen
        BY <1>1, <1>3, <2>1, <3>2
      <4> QED
        BY <1>1, <2>1, <4>1
    <3> QED
      BY <3>1, <3>2
  <2> QED
    BY <2>1, <2>3, <2>4 DEF n
<1>5. CASE Running(e, out)
  <2>1. /\ Lagging(e.spstate) /\ n = bank.rate
        /\ e.samples_in = e.samples_out + TailCover(bank)
    BY <1>5 DEF Running
  <2> HIDE DEF n
  <2>2. Lagging(Filtered(e.spstate, n)) /\ Up(e.spstate, n)[0] = n
    <3>1. n \in Nat /\ n <= bank.rate
      BY <1>1, <2>1
    <3> QED
      BY <2>1, <3>1, LaggingTakes
  <2>3. OutLen(e, n) = n
    BY <1>3, <2>1
  <2>4. /\ n \in Nat \ {0} /\ OutLen(e, n) \in 1..n
        /\ e.samples_in + n = e.samples_out + OutLen(e, n) + TailCover(bank)
        /\ e.samples_out <= e.samples_in
    BY <1>1, <1>2, <2>1, <2>3
  <2> QED
    BY <2>2, <2>3, <2>4 DEF n
<1> QED
  BY <1>4, <1>5

\* The flag segments know the output: no assertion fails.
LEMMA NothingFails ==
  ASSUME bank \in Banks, NEW h, Len(h) \in Nat, NEW e, Loaded(e, h)
  PROVE  LET n == e.num_exe_samples
             from == e.t0 + e.samples_out
             to == from + OutLen(e, n)
         IN  /\ ~ProcessFails(e, n)
             /\ from \in Nat /\ to \in Nat /\ from < to /\ to <= Len(h)
             /\ \A t \in from..(to - 1) : \/ Says(e.flag_segments, t, TRUE)
                                          \/ Says(e.flag_segments, t, FALSE)
<1> DEFINE n == e.num_exe_samples
           from == e.t0 + e.samples_out
           len == OutLen(e, n)
           to == from + len
<1>1. /\ e \in Elements /\ e.t0 \in Nat /\ e.samples_out \in Nat /\ e.samples_in \in Nat
      /\ e.adapter \in Nat /\ n <= e.adapter
      /\ e.flag_segments # <<>> /\ Final(e.flag_segments).stop = Len(h)
  BY DEF Loaded, Elements
<1>2. /\ Len(h) = e.t0 + e.samples_in + e.adapter
      /\ Fresh(e, out) \/ Running(e, out)
      /\ \A t \in from..(Len(h) - 1) : \/ Says(e.flag_segments, t, TRUE)
                                       \/ Says(e.flag_segments, t, FALSE)
  <2>1. e.t0 # None
    BY <1>1, LimitsAssumption
  <2> QED
    BY <2>1 DEF Loaded, Steady
<1>3. /\ n \in Nat \ {0} /\ len \in 1..n /\ Up(e.spstate, n)[0] = len
      /\ e.samples_out <= e.samples_in
  BY <1>1, <1>2, ExecutionIs
<1> HIDE DEF n, len
<1>4. from \in Nat /\ to \in Nat /\ from < to /\ to <= Len(h)
  <2>1. /\ e.t0 \in Nat /\ e.samples_out \in Nat /\ e.samples_in \in Nat
        /\ e.adapter \in Nat /\ n <= e.adapter
    BY <1>1
  <2>2. Len(h) = e.t0 + e.samples_in + e.adapter
    BY <1>2
  <2>3. len \in Nat /\ len > 0 /\ e.samples_out <= e.samples_in /\ len <= e.adapter
    <3>1. n \in Nat /\ len \in 1..n /\ e.samples_out <= e.samples_in
      BY <1>3
    <3> QED
      BY <2>1, <3>1
  <2>4. e.samples_out + len <= e.samples_in + e.adapter
    BY <2>1, <2>3
  <2> QED
    BY <2>1, <2>2, <2>3, <2>4
<1>5. \A t \in from..(to - 1) : \/ Says(e.flag_segments, t, TRUE)
                                        \/ Says(e.flag_segments, t, FALSE)
  <2>1. \A t \in from..(to - 1) : t \in from..(Len(h) - 1)
    BY <1>3, <1>4
  <2> HIDE DEF from, to
  <2> QED
    BY <1>2, <2>1
<1>6. ~ProcessFails(e, n)
  <2>1. ~(Final(e.flag_segments).stop < to)
    BY <1>1, <1>4
  <2>2. Up(e.spstate, n)[0] = len
    BY <1>3
  <2>3. ~(\E t \in from..(to - 1) : /\ ~Says(e.flag_segments, t, TRUE)
                                            /\ ~Says(e.flag_segments, t, FALSE))
    BY <1>5
  <2> QED
    BY <1>1, <2>1, <2>2, <2>3, Zenon DEF ProcessFails, len
<1> QED
  BY <1>4, <1>5, <1>6 DEF n, len

\* The fields after an execution.
LEMMA ProcessIs ==
  ASSUME bank \in Banks, NEW e \in Elements, Process(e),
         Lagging(Filtered(e.spstate, e.num_exe_samples)),
         OutLen(e, e.num_exe_samples) \in Nat, e.num_exe_samples <= e.adapter,
         e.t0 \in Nat, Ordered(e.flag_segments)
  PROVE  LET n == e.num_exe_samples
         IN  /\ element' \in Elements
             /\ element'.spstate = Filtered(e.spstate, n)
             /\ element'.adapter = e.adapter - n
             /\ element'.need_tail_drain = (e.need_tail_drain \/ bank.num_depths > 1)
             /\ element'.samples_in = e.samples_in + n
             /\ element'.samples_out = e.samples_out + OutLen(e, n)
             /\ element'.flag_segments = Flushed(e.flag_segments, (e.t0 + e.samples_out) - 1)
             /\ element'.num_exe_samples = bank.rate /\ element'.need_discont = FALSE
             /\ element'.t0 = e.t0 /\ element'.next_in_offset = e.next_in_offset
<1> DEFINE n == e.num_exe_samples
           len == OutLen(e, n)
           c == Filtered(e.spstate, n)
           d == e.need_tail_drain \/ bank.num_depths > 1
           s == Flushed(e.flag_segments, (e.t0 + e.samples_out) - 1)
<1>1. element' = [e EXCEPT !.spstate = c, !.adapter = e.adapter - n,
                           !.need_tail_drain = d, !.samples_in = e.samples_in + n,
                           !.samples_out = e.samples_out + len, !.flag_segments = s,
                           !.num_exe_samples = bank.rate, !.need_discont = FALSE]
  BY DEF Process
<1>2. c \in Chains /\ d \in BOOLEAN /\ bank.rate \in Nat
  BY BankIs DEF Lagging
<1>3. /\ e.adapter \in Nat /\ e.samples_in \in Nat /\ e.samples_out \in Nat /\ n \in Nat
      /\ e.flag_segments \in Seq(Segment)
  BY DEF Elements
<1>4. s \in Seq(Segment)
  <2>1. (e.t0 + e.samples_out) - 1 \in Int
    BY <1>3
  <2> QED
    BY <1>3, <2>1, SegmentsFlushed
<1>5. e.adapter - n \in Nat /\ e.samples_in + n \in Nat /\ e.samples_out + len \in Nat
  BY <1>3
<1> HIDE DEF c, d, s, n, len
<1>6. /\ element' \in Elements
      /\ element'.spstate = c /\ element'.adapter = e.adapter - n
      /\ element'.need_tail_drain = d /\ element'.samples_in = e.samples_in + n
      /\ element'.samples_out = e.samples_out + len /\ element'.flag_segments = s
      /\ element'.num_exe_samples = bank.rate /\ element'.need_discont = FALSE
      /\ element'.t0 = e.t0 /\ element'.next_in_offset = e.next_in_offset
  BY <1>1, <1>2, <1>4, <1>5 DEF Elements
<1> QED
  BY <1>6 DEF c, d, s, n, len

\* An execution pushes the next samples, flagged as they were heard.
LEMMA Executed ==
  ASSUME bank \in Banks, NEW h, Len(h) \in Nat, Pushed(out, h), NEW e, Loaded(e, h),
         Process(e)
  PROVE  /\ element' \in Elements /\ Recorded(element'.flag_segments, h)
         /\ Steady(element', h, out') /\ Pushed(out', h) /\ element'.t0 = e.t0
         /\ element'.adapter = e.adapter - e.num_exe_samples
         /\ element'.num_exe_samples = bank.rate
<1> DEFINE n == e.num_exe_samples
           from == e.t0 + e.samples_out
           len == OutLen(e, n)
           to == from + len
           segs == e.flag_segments
           q == Pieces(segs, from, to, e.need_discont)
<1>1. /\ e \in Elements /\ e.t0 \in Nat /\ e.samples_out \in Nat /\ e.samples_in \in Nat
      /\ e.adapter \in Nat /\ n <= e.adapter /\ n \in Nat
      /\ e.need_discont \in BOOLEAN /\ Recorded(segs, h)
  BY DEF Loaded, Elements
<1>2. /\ Len(h) = e.t0 + e.samples_in + e.adapter /\ e.next_in_offset = Len(h)
      /\ Fresh(e, out) \/ Running(e, out)
      /\ \A t \in from..(Len(h) - 1) : Says(segs, t, TRUE) \/ Says(segs, t, FALSE)
  <2>1. e.t0 # None
    BY <1>1, LimitsAssumption
  <2> QED
    BY <2>1 DEF Loaded, Steady
<1>3. /\ segs \in Seq(Segment) /\ Ordered(segs)
      /\ segs # <<>> => Final(segs).stop <= Len(h)
      /\ \A t \in 0..(Len(h) - 1), flag \in BOOLEAN :
           Says(segs, t, flag) => h[t + 1] = Sort(flag)
  BY <1>1 DEF Recorded
<1>4. /\ len \in 1..n /\ Lagging(Filtered(e.spstate, n))
      /\ e.samples_in + n = e.samples_out + len + TailCover(bank)
  BY <1>1, <1>2, ExecutionIs
<1>5. /\ from \in Nat /\ to \in Nat /\ from < to /\ to <= Len(h)
      /\ \A t \in from..(to - 1) : Says(segs, t, TRUE) \/ Says(segs, t, FALSE)
  BY NothingFails
<1>6. /\ q \in Seq(Buffer) /\ q # <<>> /\ Sequential(q)
      /\ q[1].start = from /\ q[Len(q)].stop = to
      /\ \A i \in DOMAIN q :
           /\ q[i].stop <= to /\ q[i].discont = e.need_discont /\ ~q[i].drained
           /\ \A t \in q[i].start..(q[i].stop - 1) : Says(segs, t, q[i].gap)
  <2>1. Spoken(segs, from, to)
    BY <1>5 DEF Spoken
  <2>2. e.need_discont \in BOOLEAN
    BY <1>1
  <2> HIDE DEF from, to, segs
  <2>3. Covering(Pieces(segs, from, to, e.need_discont), segs, from, to, e.need_discont)
    BY <1>3, <1>5, <2>1, <2>2, PiecesAre
  <2> QED
    BY <2>3 DEF Covering
<1>7. out' = out \o q
  BY DEF Process
<1>8. /\ element' \in Elements /\ element'.spstate = Filtered(e.spstate, n)
      /\ element'.adapter = e.adapter - n
      /\ element'.need_tail_drain = (e.need_tail_drain \/ bank.num_depths > 1)
      /\ element'.samples_in = e.samples_in + n
      /\ element'.samples_out = e.samples_out + len
      /\ element'.flag_segments = Flushed(segs, from - 1)
      /\ element'.num_exe_samples = bank.rate /\ element'.need_discont = FALSE
      /\ element'.t0 = e.t0 /\ element'.next_in_offset = e.next_in_offset
  <2>1. len \in Nat
    BY <1>1, <1>4
  <2>2. /\ Lagging(Filtered(e.spstate, e.num_exe_samples))
        /\ OutLen(e, e.num_exe_samples) \in Nat /\ e.num_exe_samples <= e.adapter
        /\ Ordered(e.flag_segments)
    BY <1>1, <1>3, <1>4, <2>1
  <2> QED
    BY <1>1, <2>2, ProcessIs
<1> HIDE DEF q
<1>9. /\ out \in Seq(Buffer) /\ Sequential(out)
      /\ \A i \in DOMAIN out :
           /\ out[i].stop <= Len(h)
           /\ ~out[i].drained => \A t \in out[i].start..(out[i].stop - 1) :
                                   h[t + 1] = Sort(out[i].gap)
  BY DEF Pushed
<1>10. out # <<>> => /\ out[Len(out)].stop <= from
                     /\ out[Len(out)].stop < from => e.need_discont
  <2>1. CASE Fresh(e, out)
    <3>1. /\ e.need_discont /\ e.samples_out = 0
          /\ \A i \in DOMAIN out : out[i].stop <= e.t0
      BY <2>1 DEF Fresh
    <3>2. out # <<>> => Len(out) \in DOMAIN out
      BY <1>9
    <3>3. from = e.t0
      BY <1>1, <3>1
    <3> QED
      BY <3>1, <3>2, <3>3
  <2>2. CASE Running(e, out)
    <3>1. out[Len(out)].stop = from
      BY <2>2 DEF Running
    <3> QED
      BY <1>5, <3>1
  <2> QED
    BY <1>2, <2>1, <2>2
<1>11. /\ out' \in Seq(Buffer) /\ out' # <<>> /\ Sequential(out')
       /\ out'[Len(out')].stop = to
       /\ \A i \in DOMAIN out' : \/ i \in DOMAIN out /\ out'[i] = out[i]
                                 \/ \E j \in DOMAIN q : out'[i] = q[j]
  <2>1. 1 \in DOMAIN q
    BY <1>6
  <2>2. q[1].discont = e.need_discont
    BY <1>6, <2>1
  <2> HIDE DEF from, to
  <2>3. out # <<>> => /\ out[Len(out)].stop <= q[1].start
                      /\ out[Len(out)].stop < q[1].start => q[1].discont
    BY <1>6, <1>10, <2>2
  <2> DEFINE o == out \o q
  <2>4. /\ o \in Seq(Buffer) /\ o # <<>> /\ Sequential(o) /\ o[Len(o)] = q[Len(q)]
        /\ \A i \in DOMAIN o : \/ i \in DOMAIN out /\ o[i] = out[i]
                               \/ \E j \in DOMAIN q : o[i] = q[j]
    BY <1>6, <1>9, <2>3, Joined
  <2> HIDE DEF o
  <2>5. out' = o
    BY <1>7 DEF o
  <2> QED
    BY <1>6, <2>4, <2>5
<1>12. Pushed(out', h)
  <2> SUFFICES ASSUME NEW i \in DOMAIN out'
               PROVE  /\ out'[i].stop <= Len(h)
                      /\ ~out'[i].drained =>
                           \A t \in out'[i].start..(out'[i].stop - 1) :
                             h[t + 1] = Sort(out'[i].gap)
    BY <1>11 DEF Pushed
  <2>1. CASE i \in DOMAIN out /\ out'[i] = out[i]
    BY <1>9, <2>1
  <2>2. ASSUME NEW j \in DOMAIN q, out'[i] = q[j]
        PROVE  /\ out'[i].stop <= Len(h)
               /\ \A t \in out'[i].start..(out'[i].stop - 1) :
                    h[t + 1] = Sort(out'[i].gap)
    <3>1. /\ q[j] \in Buffer /\ q[j].stop <= to
          /\ \A t \in q[j].start..(q[j].stop - 1) : Says(segs, t, q[j].gap)
      BY <1>6
    <3>2. q[j].start \in Nat /\ q[j].stop \in Nat /\ q[j].gap \in BOOLEAN
      BY <3>1 DEF Buffer
    <3>3. q[j].stop <= Len(h)
      BY <1>5, <3>1, <3>2
    <3>4. ASSUME NEW t \in q[j].start..(q[j].stop - 1)
          PROVE  h[t + 1] = Sort(q[j].gap)
      <4>1. t \in 0..(Len(h) - 1)
        BY <3>2, <3>3
      <4> QED
        BY <1>3, <3>1, <3>2, <4>1
    <3> QED
      BY <2>2, <3>3, <3>4
  <2> QED
    BY <1>11, <2>1, <2>2
<1> DEFINE left == Flushed(segs, from - 1)
<1>13. /\ left \in Seq(Segment) /\ Ordered(left)
       /\ \A i \in DOMAIN left : \E j \in DOMAIN segs : left[i] = segs[j]
       /\ left # <<>> => segs # <<>> /\ Final(left) = Final(segs)
       /\ \A t \in Nat, flag \in BOOLEAN :
            from - 1 <= t => (Says(left, t, flag) <=> Says(segs, t, flag))
  <2>1. from - 1 \in Int
    BY <1>5
  <2> HIDE DEF from, segs
  <2> QED
    BY <1>3, <2>1, SegmentsFlushed
<1> HIDE DEF left
<1>14. Recorded(left, h)
  <2>1. ASSUME NEW t \in 0..(Len(h) - 1), NEW flag \in BOOLEAN, Says(left, t, flag)
        PROVE  h[t + 1] = Sort(flag)
    <3>1. Says(segs, t, flag)
      <4> HIDE DEF segs
      <4> QED
        BY <1>13, <2>1 DEF Says
    <3> QED
      BY <1>3, <3>1
  <2>2. left # <<>> => Final(left).stop <= Len(h)
    BY <1>3, <1>13
  <2> QED
    BY <1>13, <2>1, <2>2 DEF Recorded
<1>15. Running(element', out')
  <2>1. e.need_tail_drain => bank.num_depths > 1
    BY <1>2 DEF Fresh, Running
  <2>2. element'.need_tail_drain <=> bank.num_depths > 1
    BY <1>8, <2>1
  <2>3. TailCover(bank) \in Nat
    BY HeadIs
  <2>4. element'.samples_in = element'.samples_out + TailCover(bank)
    BY <1>1, <1>4, <1>8, <2>3
  <2>5. out'[Len(out')].stop = element'.t0 + element'.samples_out
    BY <1>1, <1>4, <1>8, <1>11
  <2> QED
    BY <1>4, <1>8, <1>11, <2>2, <2>4, <2>5 DEF Running
<1>16. Steady(element', h, out')
  <2>1. element'.t0 + element'.samples_out = to /\ element'.t0 # None
    BY <1>1, <1>4, <1>8, LimitsAssumption
  <2>2. Len(h) = element'.t0 + element'.samples_in + element'.adapter
    BY <1>1, <1>2, <1>8
  <2>3. ASSUME NEW t \in to..(Len(h) - 1)
        PROVE  Says(left, t, TRUE) \/ Says(left, t, FALSE)
    <3>1. t \in from..(Len(h) - 1) /\ t \in Nat /\ from - 1 <= t
      BY <1>5
    <3>2. Says(segs, t, TRUE) \/ Says(segs, t, FALSE)
      BY <1>2, <3>1
    <3> QED
      BY <1>13, <3>1, <3>2
  <2>4. element'.flag_segments = left
    BY <1>8 DEF left
  <2> HIDE DEF to
  <2> QED
    BY <1>2, <1>8, <1>15, <2>1, <2>2, <2>3, <2>4 DEF Steady
<1>17. element'.flag_segments = left
  BY <1>8 DEF left
<1> QED
  BY <1>8, <1>12, <1>14, <1>16, <1>17

-----------------------------------------------------------------------------
(* The steps.                                                              *)

\* What has to be shown of a step; no step loads another bank.
LEMMA Keeps ==
  ASSUME bank' = bank, bank \in Banks, eos' \in BOOLEAN, failed' \in {"no", "division"},
         heard' \in Seq({"data", "gap", "hole"}), element' \in Elements,
         element'.t0 # None => element'.adapter < element'.num_exe_samples,
         Pushed(out', heard'),
         ~eos' => /\ Recorded(element'.flag_segments, heard')
                  /\ Steady(element', heard', out')
  PROVE  IInv'
<1>1. element' \in Elements'
  <2>1. Elements' = Elements
    BY DEF Elements, Chains, Depths
  <2> QED
    BY <2>1
<1>2. Steady(element', heard', out') => Steady(element, heard, out)'
  BY DEF Steady, Fresh, Running, Lagging, Chains, Depths, Bottom, Lead
<1>3. Recorded(element'.flag_segments, heard') => Recorded(element.flag_segments, heard)'
  BY DEF Recorded
<1>4. Pushed(out', heard') => Pushed(out, heard)'
  BY DEF Pushed
<1>5. Sound'
  BY <1>1, <1>4 DEF Sound
<1> QED
  BY <1>2, <1>3, <1>5 DEF IInv

\* A sequence after another.
LEMMA Concatenated ==
  ASSUME NEW K, NEW p \in Seq(K), NEW q \in Seq(K)
  PROVE  /\ p \o q \in Seq(K) /\ Len(p \o q) = Len(p) + Len(q) /\ Len(p) \in Nat
         /\ \A t \in 1..Len(p) : (p \o q)[t] = p[t]
         /\ \A t \in 1..Len(q) : (p \o q)[Len(p) + t] = q[t]
<1>1. Len(p) \in Nat /\ Len(q) \in Nat
  OBVIOUS
<1>2. p \o q \in Seq(K) /\ Len(p \o q) = Len(p) + Len(q)
  OBVIOUS
<1>3. ASSUME NEW t \in 1..Len(p) PROVE (p \o q)[t] = p[t]
  OBVIOUS
<1>4. ASSUME NEW t \in 1..Len(q) PROVE (p \o q)[Len(p) + t] = q[t]
  OBVIOUS
<1> QED
  BY <1>1, <1>2, <1>3, <1>4

\* The input after a hole and a buffer.
LEMMA HeardIs ==
  ASSUME heard \in Seq({"data", "gap", "hole"}), NEW hole \in Nat, NEW n \in Nat,
         NEW sort \in {"data", "gap"}, NEW h,
         h = heard \o [t \in 1..hole |-> "hole"] \o [t \in 1..n |-> sort]
  PROVE  Extends(h, Len(heard) + hole + n, Len(heard) + hole, sort)
<1> DEFINE K == {"data", "gap", "hole"}
           p == [t \in 1..hole |-> "hole"]
           q == [t \in 1..n |-> sort]
           m == Len(heard)
           g == heard \o p
<1>1. /\ p \in Seq(K) /\ Len(p) = hole
  <2>1. p \in [1..hole -> K]
    OBVIOUS
  <2> QED
    BY <2>1
<1>2. q \in Seq(K) /\ Len(q) = n /\ \A t \in 1..n : q[t] = sort
  <2>1. q \in [1..n -> K]
    OBVIOUS
  <2> QED
    BY <2>1
<1>0. heard \in Seq(K)
  OBVIOUS
<1> HIDE DEF p, q, K
<1>3. /\ g \in Seq(K) /\ Len(g) = m + hole /\ m \in Nat
      /\ \A t \in 1..m : g[t] = heard[t]
  <2>1. Len(heard) \in Nat /\ g = heard \o p
    BY <1>0
  <2>2. /\ heard \o p \in Seq(K) /\ Len(heard \o p) = Len(heard) + Len(p)
        /\ \A t \in 1..Len(heard) : (heard \o p)[t] = heard[t]
    BY <1>0, <1>1, Concatenated
  <2> HIDE DEF g
  <2> QED
    BY <1>1, <2>1, <2>2
<1> HIDE DEF g, m
<1>4. h = g \o q
  BY DEF g, p, q
<1>5. /\ h \in Seq(K) /\ Len(h) = (m + hole) + n
      /\ \A t \in 1..(m + hole) : h[t] = g[t]
      /\ \A t \in 1..n : h[(m + hole) + t] = q[t]
  <2>0. g \in Seq(K) /\ q \in Seq(K)
    BY <1>2, <1>3
  <2>1. g \o q \in Seq(K) /\ Len(g \o q) = Len(g) + Len(q)
    BY <2>0
  <2>2. \A t \in 1..Len(g) : (g \o q)[t] = g[t]
    BY <2>0, Concatenated, Zenon
  <2>3. ASSUME NEW t \in 1..Len(q) PROVE (g \o q)[Len(g) + t] = q[t]
    BY <2>0, Concatenated, SMT
  <2> QED
    BY <1>2, <1>3, <1>4, <2>1, <2>2, <2>3
<1>6. \A t \in 1..m : h[t] = heard[t]
  <2>1. \A t \in 1..m : t \in 1..(m + hole)
    BY <1>3
  <2> QED
    BY <1>3, <1>5, <2>1
<1>7. ASSUME NEW t \in ((m + hole) + 1)..((m + hole) + n) PROVE h[t] = sort
  <2>1. t - (m + hole) \in 1..n /\ t = (m + hole) + (t - (m + hole))
    BY <1>3
  <2> QED
    BY <1>2, <1>5, <2>1
<1>8. m <= m + hole
  BY <1>3
<1> QED
  BY <1>5, <1>6, <1>7, <1>8 DEF Extends, m, K

\* What was pushed stays true when more is heard.
LEMMA StillPushed ==
  ASSUME Pushed(out, heard), heard \in Seq({"data", "gap", "hole"}), NEW h,
         NEW to \in Nat, NEW from \in Nat, from <= to, NEW sort,
         Extends(h, to, from, sort)
  PROVE  Pushed(out, h)
<1>1. /\ Len(heard) \in Nat /\ Len(heard) <= Len(h) /\ Len(h) \in Nat
      /\ \A t \in 1..Len(heard) : h[t] = heard[t]
  BY DEF Extends
<1>2. /\ out \in Seq(Buffer) /\ Sequential(out)
      /\ \A i \in DOMAIN out :
           /\ out[i].stop <= Len(heard)
           /\ ~out[i].drained => \A t \in out[i].start..(out[i].stop - 1) :
                                   heard[t + 1] = Sort(out[i].gap)
  BY DEF Pushed
<1>3. ASSUME NEW i \in DOMAIN out
      PROVE  /\ out[i].stop <= Len(h)
             /\ \A t \in out[i].start..(out[i].stop - 1) : h[t + 1] = heard[t + 1]
  <2>1. out[i] \in Buffer
    BY <1>2
  <2>2. out[i].start \in Nat /\ out[i].stop \in Nat
    BY <2>1 DEF Buffer
  <2>3. out[i].stop <= Len(heard)
    BY <1>2
  <2>4. \A t \in out[i].start..(out[i].stop - 1) : t + 1 \in 1..Len(heard)
    BY <1>1, <2>2, <2>3
  <2> QED
    BY <1>1, <2>2, <2>3, <2>4
<1> QED
  BY <1>2, <1>3 DEF Pushed

\* An element that takes the samples of a buffer.
LEMMA AbsorbedIs ==
  ASSUME bank \in Banks, NEW e \in Elements, NEW b \in Input, b.start < b.stop,
         AddSegment(e.flag_segments, [start |-> b.start, stop |-> b.stop, flag |-> b.gap])
           \in Seq(Segment)
  PROVE  LET new == [start |-> b.start, stop |-> b.stop, flag |-> b.gap]
             a == Absorbed(e, b)
         IN  /\ a \in Elements
             /\ a.adapter = e.adapter + (b.stop - b.start)
             /\ a.flag_segments = AddSegment(e.flag_segments, new)
             /\ a.spstate = e.spstate /\ a.need_discont = e.need_discont
             /\ a.need_tail_drain = e.need_tail_drain /\ a.t0 = e.t0
             /\ a.next_in_offset = e.next_in_offset
             /\ a.samples_in = e.samples_in /\ a.samples_out = e.samples_out
             /\ a.num_exe_samples = e.num_exe_samples
<1> DEFINE new == [start |-> b.start, stop |-> b.stop, flag |-> b.gap]
           s == AddSegment(e.flag_segments, new)
           k == e.adapter + (b.stop - b.start)
<1>1. /\ b.start \in Nat /\ b.stop \in Nat /\ new \in Segment
      /\ e.adapter \in Nat /\ e.flag_segments \in Seq(Segment)
  BY DEF Input, Segment, Elements
<1>2. s \in Seq(Segment)
  OBVIOUS
<1>3. k \in Nat
  BY <1>1
<1>4. Absorbed(e, b) = [e EXCEPT !.adapter = k, !.flag_segments = s]
  BY DEF Absorbed
<1> HIDE DEF s, k
<1>5. LET a == Absorbed(e, b)
      IN  /\ a \in Elements /\ a.adapter = k /\ a.flag_segments = s
          /\ a.spstate = e.spstate /\ a.need_discont = e.need_discont
          /\ a.need_tail_drain = e.need_tail_drain /\ a.t0 = e.t0
          /\ a.next_in_offset = e.next_in_offset
          /\ a.samples_in = e.samples_in /\ a.samples_out = e.samples_out
          /\ a.num_exe_samples = e.num_exe_samples
  BY <1>2, <1>3, <1>4 DEF Elements
<1> QED
  BY <1>5 DEF s, k, new

\* The element that takes the samples of a buffer has received them all, and its
\* segments speak of them.
LEMMA Absorbs ==
  ASSUME bank \in Banks, NEW e \in Elements, NEW b \in Input, b.start < b.stop, NEW h,
         heard \in Seq({"data", "gap", "hole"}),
         Extends(h, b.stop, b.start, Sort(b.gap)), Recorded(e.flag_segments, heard),
         e.t0 \in Nat, e.next_in_offset = b.stop,
         b.start = e.t0 + e.samples_in + e.adapter,
         Fresh(e, out) \/ Running(e, out),
         \A t \in (e.t0 + e.samples_out)..(b.start - 1) :
           Says(e.flag_segments, t, TRUE) \/ Says(e.flag_segments, t, FALSE)
  PROVE  LET a == Absorbed(e, b)
         IN  /\ a \in Elements /\ a.t0 \in Nat /\ Recorded(a.flag_segments, h)
             /\ a.flag_segments # <<>> /\ Final(a.flag_segments).stop = Len(h)
             /\ a.num_exe_samples = e.num_exe_samples
             /\ a.adapter = e.adapter + (b.stop - b.start)
             /\ Steady(a, h, out)
<1> DEFINE new == [start |-> b.start, stop |-> b.stop, flag |-> b.gap]
           s == AddSegment(e.flag_segments, new)
           a == Absorbed(e, b)
<1>1. /\ Recorded(s, h) /\ s # <<>> /\ Final(s).stop = b.stop
      /\ \A t \in Nat, flag \in BOOLEAN :
           Says(s, t, flag) <=> \/ Says(e.flag_segments, t, flag)
                                \/ b.start <= t /\ t < b.stop /\ b.gap = flag
  BY RecordAdded
<1>2. s \in Seq(Segment)
  BY <1>1 DEF Recorded
<1>3. /\ a \in Elements /\ a.adapter = e.adapter + (b.stop - b.start)
      /\ a.flag_segments = s
      /\ a.spstate = e.spstate /\ a.need_discont = e.need_discont
      /\ a.need_tail_drain = e.need_tail_drain /\ a.t0 = e.t0
      /\ a.next_in_offset = e.next_in_offset
      /\ a.samples_in = e.samples_in /\ a.samples_out = e.samples_out
      /\ a.num_exe_samples = e.num_exe_samples
  BY <1>2, AbsorbedIs
<1> HIDE DEF a, s
<1>4. /\ b.start \in Nat /\ b.stop \in Nat /\ b.gap \in BOOLEAN /\ e.adapter \in Nat
      /\ e.samples_in \in Nat /\ e.samples_out \in Nat
  BY DEF Input, Elements
<1>5. Len(h) = b.stop
  BY DEF Extends
<1>6. Fresh(a, out) \/ Running(a, out)
  BY <1>3 DEF Fresh, Running
<1>7. ASSUME NEW t \in (e.t0 + e.samples_out)..(b.stop - 1)
      PROVE  Says(s, t, TRUE) \/ Says(s, t, FALSE)
  <2>1. t \in Nat
    BY <1>4
  <2>2. CASE t < b.start
    <3>1. t \in (e.t0 + e.samples_out)..(b.start - 1)
      BY <1>4, <2>1, <2>2
    <3>2. Says(e.flag_segments, t, TRUE) \/ Says(e.flag_segments, t, FALSE)
      BY <3>1
    <3> QED
      BY <1>1, <2>1, <3>2
  <2>3. CASE ~(t < b.start)
    <3>1. b.start <= t /\ t < b.stop
      BY <1>4, <2>1, <2>3
    <3>2. Says(s, t, b.gap)
      BY <1>1, <1>4, <2>1, <3>1
    <3> QED
      BY <1>4, <3>2
  <2> QED
    BY <2>2, <2>3
<1>8. Len(h) = a.t0 + a.samples_in + a.adapter
  BY <1>3, <1>4, <1>5
<1>9. a.t0 # None
  BY <1>3, LimitsAssumption
<1>10. a.t0 \in Nat /\ a.next_in_offset = Len(h) /\ Final(a.flag_segments).stop = Len(h)
  BY <1>1, <1>3, <1>5
<1>11. \A t \in (a.t0 + a.samples_out)..(Len(h) - 1) :
         Says(a.flag_segments, t, TRUE) \/ Says(a.flag_segments, t, FALSE)
  BY <1>3, <1>5, <1>7
<1>12. Steady(a, h, out)
  BY <1>6, <1>8, <1>9, <1>10, <1>11 DEF Steady
<1> QED
  BY <1>1, <1>3, <1>10, <1>12 DEF a

\* Transform, as a choice of the element that takes the buffer.
Taken(e, b) ==
  LET a == Absorbed(e, b)
  IN  \/ b.start = b.stop /\ element' = e /\ UNCHANGED <<failed, out>>
      \/ /\ b.start < b.stop /\ ~Filled(a)
         /\ element' = a /\ UNCHANGED <<failed, out>>
      \/ /\ b.start < b.stop /\ Filled(a) /\ ~ProcessFails(a, a.num_exe_samples)
         /\ Process(a) /\ UNCHANGED failed
      \/ /\ b.start < b.stop /\ Filled(a) /\ ProcessFails(a, a.num_exe_samples)
         /\ failed' = "assertion" /\ UNCHANGED <<element, out>>

\* A buffer is taken in as many samples as it has, and at most one execution follows.
LEMMA Takes ==
  ASSUME bank \in Banks, NEW e \in Elements, NEW b \in Input, b.start <= b.stop,
         b.stop - b.start <= bank.rate, NEW h, Len(h) \in Nat,
         heard \in Seq({"data", "gap", "hole"}), Len(heard) <= b.start,
         Extends(h, b.stop, b.start, Sort(b.gap)), Recorded(e.flag_segments, heard),
         e.t0 \in Nat, e.next_in_offset = b.stop,
         b.start = e.t0 + e.samples_in + e.adapter, e.adapter < e.num_exe_samples,
         Fresh(e, out) \/ Running(e, out),
         \A t \in (e.t0 + e.samples_out)..(b.start - 1) :
           Says(e.flag_segments, t, TRUE) \/ Says(e.flag_segments, t, FALSE),
         Pushed(out, h), Taken(e, b)
  PROVE  /\ UNCHANGED failed /\ element' \in Elements /\ element'.t0 \in Nat
         /\ element'.adapter < element'.num_exe_samples
         /\ Recorded(element'.flag_segments, h) /\ Steady(element', h, out')
         /\ Pushed(out', h)
<1> DEFINE a == Absorbed(e, b)
<1>1. /\ b.start \in Nat /\ b.stop \in Nat /\ e.adapter \in Nat
      /\ e.num_exe_samples \in Nat /\ Len(h) = b.stop /\ bank.rate \in Nat
  BY BankIs DEF Input, Elements, Extends
<1>2. e.t0 # None
  BY LimitsAssumption
<1>3. CASE b.start = b.stop
  <2>1. element' = e /\ UNCHANGED <<failed, out>>
    BY <1>1, <1>3 DEF Taken
  <2>2. Recorded(e.flag_segments, h)
    BY <1>1, RecordKept
  <2>3. Steady(e, h, out)
    BY <1>1, <1>2, <1>3 DEF Steady
  <2> QED
    BY <2>1, <2>2, <2>3
<1>4. CASE b.start < b.stop
  <2>1. /\ a \in Elements /\ a.t0 \in Nat /\ Recorded(a.flag_segments, h)
        /\ a.flag_segments # <<>> /\ Final(a.flag_segments).stop = Len(h)
        /\ a.num_exe_samples = e.num_exe_samples
        /\ a.adapter = e.adapter + (b.stop - b.start)
        /\ Steady(a, h, out)
    BY <1>4, Absorbs
  <2>2. b.start # b.stop
    BY <1>1, <1>4
  <2>3. \/ ~Filled(a) /\ element' = a /\ UNCHANGED <<failed, out>>
        \/ Filled(a) /\ ~ProcessFails(a, a.num_exe_samples) /\ Process(a) /\ UNCHANGED failed
        \/ Filled(a) /\ ProcessFails(a, a.num_exe_samples)
    BY <2>2, Zenon DEF Taken
  <2> HIDE DEF a
  <2>4. CASE ~Filled(a) /\ element' = a /\ UNCHANGED <<failed, out>>
    <3>1. a.adapter < a.num_exe_samples
      BY <1>1, <2>1, <2>4 DEF Filled
    <3> QED
      BY <2>1, <2>4, <3>1
  <2>5. CASE Filled(a)
    <3>1. a.num_exe_samples <= a.adapter
      BY <1>1, <2>1, <2>5 DEF Filled
    <3>2. Loaded(a, h)
      BY <2>1, <3>1 DEF Loaded
    <3>3. ~ProcessFails(a, a.num_exe_samples)
      BY <3>2, NothingFails
    <3>4. Process(a) /\ UNCHANGED failed
      BY <2>3, <2>5, <3>3
    <3>5. /\ element' \in Elements /\ Recorded(element'.flag_segments, h)
          /\ Steady(element', h, out') /\ Pushed(out', h) /\ element'.t0 = a.t0
          /\ element'.adapter = a.adapter - a.num_exe_samples
          /\ element'.num_exe_samples = bank.rate
      BY <3>2, <3>4, Executed
    <3>6. element'.adapter < element'.num_exe_samples
      BY <1>1, <2>1, <3>5
    <3> QED
      BY <2>1, <3>4, <3>5, <3>6
  <2> QED
    BY <2>3, <2>4, <2>5
<1> QED
  BY <1>1, <1>3, <1>4

\* Transform is what Taken says of the element that takes the buffer.
LEMMA TransformIs ==
  ASSUME NEW b, Transform(b)
  PROVE  Taken([(IF NeedsResync(b) THEN Resynced(element, b) ELSE element)
                  EXCEPT !.next_in_offset = b.stop], b)
BY DEF Transform, Taken

\* A buffer keeps the invariant, and the stream goes on.
LEMMA ReceiveStep ==
  ASSUME IInv, Receive
  PROVE  IInv' /\ element'.t0 # None
<1>1. /\ ~eos /\ failed = "no" /\ UNCHANGED <<bank, eos>>
      /\ bank \in Banks /\ heard \in Seq({"data", "gap", "hole"}) /\ Pushed(out, heard)
      /\ Recorded(element.flag_segments, heard)
  BY DEF Receive, IInv, Sound
<1> DEFINE k == Len(heard)
           sort(gap) == IF gap THEN "gap" ELSE "data"
<1>2. PICK n \in Lengths, hole \in 0..MaxHole, discont \in BOOLEAN, gap \in BOOLEAN :
        /\ n <= bank.rate
        /\ heard' = heard \o [t \in 1..hole |-> "hole"] \o [t \in 1..n |-> sort(gap)]
        /\ Transform([start |-> k + hole, stop |-> (k + hole) + n, gap |-> gap,
                      discont |-> discont])
  BY DEF Receive
<1>3. n \in Nat /\ hole \in Nat /\ k \in Nat /\ bank.rate \in Nat
  BY <1>1, <1>2, LimitsAssumption, BankIs
<1> DEFINE b == [start |-> k + hole, stop |-> (k + hole) + n, gap |-> gap,
                 discont |-> discont]
           e == [(IF NeedsResync(b) THEN Resynced(element, b) ELSE element)
                   EXCEPT !.next_in_offset = b.stop]
<1>4. /\ b \in Input /\ b.start = k + hole /\ b.stop = (k + hole) + n /\ b.gap = gap
      /\ b.start <= b.stop /\ b.stop - b.start <= bank.rate /\ k <= b.start
      /\ b.start \in Nat /\ b.stop \in Nat
  BY <1>2, <1>3 DEF Input
<1>5. Extends(heard', b.stop, b.start, Sort(b.gap))
  <2> DEFINE so == sort(gap)
  <2>1. so \in {"data", "gap"} /\ so = Sort(gap)
    BY DEF Sort
  <2>2. heard' = heard \o [t \in 1..hole |-> "hole"] \o [t \in 1..n |-> so]
    BY <1>2
  <2> HIDE DEF so, b
  <2>3. Extends(heard', Len(heard) + hole + n, Len(heard) + hole, so)
    BY <1>1, <1>3, <2>1, <2>2, HeardIs
  <2>4. Len(heard) + hole + n = b.stop /\ Len(heard) + hole = b.start
    BY <1>3, <1>4
  <2> QED
    BY <1>4, <2>1, <2>3, <2>4
<1>6. heard' \in Seq({"data", "gap", "hole"}) /\ Len(heard') \in Nat
  BY <1>5 DEF Extends
<1>7. Pushed(out, heard')
  BY <1>1, <1>4, <1>5, StillPushed
<1>8. Taken(e, b)
  BY <1>2, TransformIs
<1> HIDE DEF b
<1>9. /\ e \in Elements /\ e.t0 \in Nat /\ e.next_in_offset = b.stop
      /\ e.flag_segments = element.flag_segments
      /\ b.start = e.t0 + e.samples_in + e.adapter
      /\ e.adapter < e.num_exe_samples
      /\ Fresh(e, out) \/ Running(e, out)
      /\ \A t \in (e.t0 + e.samples_out)..(b.start - 1) :
           Says(e.flag_segments, t, TRUE) \/ Says(e.flag_segments, t, FALSE)
  BY <1>1, <1>4, Synced
<1> HIDE DEF e
<1>10. /\ UNCHANGED failed /\ element' \in Elements /\ element'.t0 \in Nat
       /\ element'.adapter < element'.num_exe_samples
       /\ Recorded(element'.flag_segments, heard') /\ Steady(element', heard', out')
       /\ Pushed(out', heard')
  <2>1. Recorded(e.flag_segments, heard)
    BY <1>1, <1>9
  <2> QED
    BY <1>1, <1>4, <1>5, <1>6, <1>7, <1>8, <1>9, <2>1, Takes
<1>11. failed' \in {"no", "division"} /\ eos' \in BOOLEAN /\ bank' = bank
  BY <1>1, <1>10 DEF IInv, Sound
<1> QED
  <2>1. element'.t0 # None
    BY <1>10, LimitsAssumption
  <2>2. IInv'
    BY <1>1, <1>6, <1>10, <1>11, Keeps
  <2> QED
    BY <2>1, <2>2

\* The drain pushes all that is left of the stream, unless it dies.
LEMMA DrainIs ==
  ASSUME bank \in Banks, heard \in Seq({"data", "gap", "hole"}), element \in Elements,
         Pushed(out, heard), element.t0 # None, element.need_tail_drain,
         Steady(element, heard, out)
  PROVE  /\ Drain.failed \in {"no", "division"}
         /\ Drain.element \in Elements /\ Drain.element.t0 = element.t0
         /\ Drain.element.adapter = 0
         /\ Drain.element.num_exe_samples = element.num_exe_samples
         /\ Drain.element.flag_segments = element.flag_segments
         /\ Pushed(Append(out, Drain.pushed), heard)
         /\ Len(Append(out, Drain.pushed)) = Len(out) + 1
         /\ Append(out, Drain.pushed)[Len(out) + 1] = Drain.pushed
         /\ Drain.pushed.stop = Len(heard)
<1> DEFINE n == element.adapter + TailZeros
           parts == Executions(n)
           chain == Chain(parts)
           given == chain[Len(parts)].read[0] - element.spstate.read[0]
           from == element.t0 + element.samples_out
           p == [start |-> from, stop |-> from + OutLen(element, n), gap |-> FALSE,
                 discont |-> element.need_discont, drained |-> TRUE]
           died == IF \E k \in DOMAIN parts : Divides0(chain[k - 1], parts[k])
                   THEN "division" ELSE IF given > OutLen(element, n) THEN "assertion" ELSE "no"
           e == [element EXCEPT
                   !.spstate = chain[Len(parts)], !.adapter = 0,
                   !.samples_in = element.samples_in + n, !.need_discont = FALSE,
                   !.samples_out = element.samples_out + OutLen(element, n)]
<1>1. /\ element.adapter \in Nat /\ element.samples_in \in Nat /\ element.samples_out \in Nat
      /\ element.t0 \in Nat /\ element.need_discont \in BOOLEAN
      /\ TailCover(bank) \in Nat /\ n = element.adapter + TailCover(bank)
  BY HeadIs DEF Elements, TailZeros
<1>2. /\ Running(element, out)
      /\ Len(heard) = element.t0 + element.samples_in + element.adapter
  BY DEF Steady, Fresh
<1>3. /\ Lagging(element.spstate) /\ element.num_exe_samples = bank.rate
      /\ element.samples_in = element.samples_out + TailCover(bank)
      /\ out # <<>> /\ out[Len(out)].stop = from
  BY <1>2 DEF Running
<1>4. OutLen(element, n) = n /\ n \in Nat
  BY <1>1, <1>3 DEF OutLen
<1> HIDE DEF n
<1>5. chain[Len(parts)] \in Chains /\ given \in 0..n
  BY <1>3, <1>4, DrainTakes
<1>6. Drain = [failed |-> died, pushed |-> p, element |-> e]
  BY DEF Drain, n
<1>7. died \in {"no", "division"}
  <2>1. ~(given > OutLen(element, n))
    <3> HIDE DEF given
    <3> QED
      BY <1>4, <1>5
  <2> HIDE DEF given, chain, parts
  <2> QED
    BY <2>1
<1> HIDE DEF died, chain, parts, given
<1>8. /\ e \in Elements /\ e.t0 = element.t0 /\ e.adapter = 0
      /\ e.num_exe_samples = element.num_exe_samples
      /\ e.flag_segments = element.flag_segments
  <2> DEFINE x == chain[Len(parts)]
             y == element.samples_in + n
             z == element.samples_out + OutLen(element, n)
  <2>0. y \in Nat /\ z \in Nat
    <3>1. element.samples_in \in Nat /\ element.samples_out \in Nat
      BY <1>1
    <3>2. n \in Nat /\ OutLen(element, n) \in Nat
      BY <1>4
    <3> QED
      BY <3>1, <3>2
  <2>1. x \in Chains /\ y \in Nat /\ z \in Nat
    BY <1>5, <2>0
  <2> HIDE DEF x, y, z
  <2>2. e = [element EXCEPT !.spstate = x, !.adapter = 0, !.samples_in = y,
                            !.need_discont = FALSE, !.samples_out = z]
    BY DEF x, y, z
  <2> HIDE DEF e
  <2> QED
    BY <2>1, <2>2 DEF Elements
<1>9. from \in Nat /\ from + n = Len(heard)
  <2>1. /\ Len(heard) = element.t0 + element.samples_in + element.adapter
        /\ element.samples_in = element.samples_out + TailCover(bank)
    BY <1>2, <1>3
  <2>2. /\ element.adapter \in Nat /\ element.samples_out \in Nat
        /\ element.t0 \in Nat /\ TailCover(bank) \in Nat
        /\ n = element.adapter + TailCover(bank)
    BY <1>1
  <2>3. from \in Nat /\ from = element.t0 + element.samples_out
    BY <2>2
  <2> HIDE DEF from
  <2> DEFINE t == element.t0
             i == element.samples_in
             s == element.samples_out
             a == element.adapter
             c == TailCover(bank)
  <2>4. /\ t \in Nat /\ s \in Nat /\ a \in Nat /\ c \in Nat /\ i = s + c
        /\ n = a + c /\ from = t + s /\ Len(heard) = t + i + a
    BY <2>1, <2>2, <2>3
  <2> HIDE DEF t, i, s, a, c
  <2>5. from + n = Len(heard)
    BY <2>4
  <2> QED
    BY <2>3, <2>5
<1>10. /\ p \in Buffer /\ p.start = from /\ p.stop = Len(heard) /\ p.drained
       /\ p.start <= p.stop
  <2>1. Len(heard) \in Nat /\ from <= Len(heard)
    BY <1>1, <1>4, <1>9
  <2>2. p = [start |-> from, stop |-> Len(heard), gap |-> FALSE,
             discont |-> element.need_discont, drained |-> TRUE]
    BY <1>4, <1>9
  <2> HIDE DEF p, from
  <2> QED
    BY <1>1, <1>9, <2>1, <2>2 DEF Buffer
<1> HIDE DEF p, from, e
<1> DEFINE q == <<p>>
           o == out \o q
<1>11. /\ out \in Seq(Buffer) /\ Sequential(out)
       /\ \A i \in DOMAIN out :
            /\ out[i].stop <= Len(heard)
            /\ ~out[i].drained => \A t \in out[i].start..(out[i].stop - 1) :
                                    heard[t + 1] = Sort(out[i].gap)
  BY DEF Pushed
<1>12. /\ q \in Seq(Buffer) /\ q # <<>> /\ Sequential(q) /\ Len(q) = 1 /\ q[1] = p
       /\ \A j \in DOMAIN q : q[j] = p
  BY <1>10 DEF Sequential
<1> HIDE DEF q
<1>13. /\ o \in Seq(Buffer) /\ Sequential(o) /\ Len(o) = Len(out) + 1 /\ o[Len(o)] = p
       /\ \A i \in DOMAIN o : \/ i \in DOMAIN out /\ o[i] = out[i]
                              \/ o[i] = p
  <2>1. out # <<>> => /\ out[Len(out)].stop <= q[1].start
                      /\ out[Len(out)].stop < q[1].start => q[1].discont
    BY <1>3, <1>9, <1>10, <1>12
  <2>2. /\ out \o q \in Seq(Buffer) /\ Sequential(out \o q)
        /\ Len(out \o q) = Len(out) + Len(q)
        /\ (out \o q)[Len(out \o q)] = q[Len(q)]
        /\ \A i \in DOMAIN (out \o q) : \/ i \in DOMAIN out /\ (out \o q)[i] = out[i]
                                        \/ \E j \in DOMAIN q : (out \o q)[i] = q[j]
    BY <1>11, <1>12, <2>1, Joined
  <2> QED
    BY <1>12, <2>2
<1> HIDE DEF o
<1>14. Append(out, p) = o
  BY <1>11, <1>10 DEF o, q
<1>15. Pushed(o, heard)
  <2> SUFFICES ASSUME NEW i \in DOMAIN o
               PROVE  /\ o[i].stop <= Len(heard)
                      /\ ~o[i].drained =>
                           \A t \in o[i].start..(o[i].stop - 1) :
                             heard[t + 1] = Sort(o[i].gap)
    BY <1>13 DEF Pushed
  <2>1. CASE i \in DOMAIN out /\ o[i] = out[i]
    BY <1>11, <2>1
  <2>2. CASE o[i] = p
    BY <1>10, <2>2
  <2> QED
    BY <1>13, <2>1, <2>2
<1> QED
  BY <1>6, <1>7, <1>8, <1>10, <1>13, <1>14, <1>15

\* What the stream leaves behind at its end is the element kept, or a dead process.
LEMMA Drained ==
  ASSUME IInv, ~eos, failed = "no", NEW kept \in Elements, DrainOrDie(kept),
         kept.t0 # None => kept.adapter < kept.num_exe_samples
  PROVE  /\ failed' \in {"no", "division"} /\ element' \in Elements
         /\ element'.t0 # None => element'.adapter < element'.num_exe_samples
         /\ Pushed(out', heard)
         /\ \/ element' = kept
            \/ element' = element /\ out' = out /\ failed' # "no"
         /\ element.need_tail_drain /\ failed' = "no" =>
              out' # <<>> /\ Last(out').stop = Len(heard)
<1>1. /\ bank \in Banks /\ heard \in Seq({"data", "gap", "hole"}) /\ element \in Elements
      /\ Pushed(out, heard) /\ Steady(element, heard, out)
      /\ element.t0 # None => element.adapter < element.num_exe_samples
  BY DEF IInv, Sound
<1>2. CASE element.need_tail_drain
  <2>1. element.t0 # None
    BY <1>1, <1>2 DEF Steady
  <2>2. /\ Drain.failed \in {"no", "division"}
        /\ Pushed(Append(out, Drain.pushed), heard)
        /\ Len(Append(out, Drain.pushed)) = Len(out) + 1
        /\ Append(out, Drain.pushed)[Len(out) + 1] = Drain.pushed
        /\ Drain.pushed.stop = Len(heard)
    BY <1>1, <1>2, <2>1, DrainIs
  <2>3. /\ failed' = Drain.failed
        /\ \/ failed' = "no" /\ out' = Append(out, Drain.pushed) /\ element' = kept
           \/ failed' # "no" /\ out' = out /\ element' = element
    BY <1>2 DEF DrainOrDie
  <2>4. CASE failed' = "no" /\ out' = Append(out, Drain.pushed) /\ element' = kept
    <3>1. out' # <<>> /\ Last(out').stop = Len(heard)
      <4>1. Len(out) \in Nat
        BY <1>1 DEF Pushed
      <4>2. Len(out') = Len(out) + 1 /\ out'[Len(out) + 1] = Drain.pushed
        BY <2>2, <2>4
      <4>3. out'[Len(out')] = Drain.pushed
        BY <4>2
      <4>4. out' # <<>>
        <5>1. Len(out') # 0
          BY <4>1, <4>2
        <5> QED
          BY <5>1
      <4> QED
        BY <2>2, <4>3, <4>4 DEF Last
    <3> QED
      BY <2>2, <2>3, <2>4, <3>1
  <2>5. CASE failed' # "no" /\ out' = out /\ element' = element
    BY <1>1, <2>2, <2>3, <2>5
  <2> QED
    BY <2>3, <2>4, <2>5
<1>3. CASE ~element.need_tail_drain
  <2>1. element' = kept /\ failed' = failed /\ out' = out
    BY <1>3 DEF DrainOrDie
  <2> QED
    BY <1>1, <1>3, <2>1
<1> QED
  BY <1>2, <1>3

\* A new segment keeps the invariant.
LEMMA NewSegmentStep ==
  ASSUME IInv, NewSegment
  PROVE  /\ IInv' /\ eos' = eos
         /\ element.need_tail_drain /\ failed' = "no" =>
              out' # <<>> /\ Last(out').stop = Len(heard)
<1> DEFINE e == IF element.need_tail_drain
                THEN [Drain.element EXCEPT !.spstate = NewChain(bank)] ELSE element
           kept == [e EXCEPT !.need_tail_drain = FALSE, !.t0 = None,
                             !.next_in_offset = None, !.samples_in = 0,
                             !.samples_out = 0, !.need_discont = TRUE,
                             !.num_exe_samples = SetExe(bank)]
<1>1. /\ bank \in Banks /\ heard \in Seq({"data", "gap", "hole"}) /\ element \in Elements
      /\ Pushed(out, heard) /\ Steady(element, heard, out)
      /\ Recorded(element.flag_segments, heard)
      /\ ~eos /\ failed = "no" /\ element.t0 # None /\ DrainOrDie(kept)
      /\ bank' = bank /\ eos' = eos /\ heard' = heard /\ eos \in BOOLEAN
  BY DEF IInv, Sound, NewSegment
<1>2. NewChain(bank) \in Chains /\ SetExe(bank) \in Nat
  BY <1>1, NewChainIs, HeadIs
<1>3. e \in Elements /\ e.flag_segments = element.flag_segments
  <2>1. CASE element.need_tail_drain
    <3> DEFINE d == Drain.element
    <3>1. d \in Elements /\ d.flag_segments = element.flag_segments
      BY <1>1, <2>1, DrainIs
    <3>2. e = [d EXCEPT !.spstate = NewChain(bank)]
      BY <2>1
    <3> HIDE DEF d, e
    <3> QED
      BY <1>2, <3>1, <3>2 DEF Elements
  <2>2. CASE ~element.need_tail_drain
    BY <1>1, <2>2
  <2> QED
    BY <2>1, <2>2
<1> HIDE DEF e
<1>4. /\ kept \in Elements /\ kept.t0 = None /\ ~kept.need_tail_drain
      /\ kept.flag_segments = element.flag_segments
  BY <1>2, <1>3 DEF Elements
<1> HIDE DEF kept
<1>5. /\ failed' \in {"no", "division"} /\ element' \in Elements
      /\ element'.t0 # None => element'.adapter < element'.num_exe_samples
      /\ Pushed(out', heard)
      /\ \/ element' = kept
         \/ element' = element /\ out' = out /\ failed' # "no"
      /\ element.need_tail_drain /\ failed' = "no" =>
           out' # <<>> /\ Last(out').stop = Len(heard)
  BY <1>1, <1>4, Drained
<1>6. Recorded(element'.flag_segments, heard') /\ Steady(element', heard', out')
  <2>1. CASE element' = kept
    BY <1>1, <1>4, <2>1 DEF Steady
  <2>2. CASE element' = element /\ out' = out
    BY <1>1, <2>2
  <2> QED
    BY <1>5, <2>1, <2>2
<1>7. IInv'
  BY <1>1, <1>5, <1>6, Keeps
<1> QED
  BY <1>1, <1>5, <1>7

\* So does the end of the stream.
LEMMA EosStep ==
  ASSUME IInv, Eos
  PROVE  /\ IInv'
         /\ element.need_tail_drain /\ failed' = "no" =>
              out' # <<>> /\ Last(out').stop = Len(heard)
<1> DEFINE kept == IF element.need_tail_drain THEN Drain.element ELSE element
<1>1. /\ bank \in Banks /\ heard \in Seq({"data", "gap", "hole"}) /\ element \in Elements
      /\ Pushed(out, heard) /\ Steady(element, heard, out)
      /\ element.t0 # None => element.adapter < element.num_exe_samples
      /\ ~eos /\ failed = "no" /\ DrainOrDie(kept)
      /\ bank' = bank /\ eos' = TRUE /\ heard' = heard
  BY DEF IInv, Sound, Eos
<1>2. kept \in Elements /\ (kept.t0 # None => kept.adapter < kept.num_exe_samples)
  <2>1. CASE element.need_tail_drain
    <3> DEFINE d == Drain.element
    <3>1. element.t0 # None
      BY <1>1, <2>1 DEF Steady
    <3>2. /\ d \in Elements /\ d.adapter = 0
          /\ d.num_exe_samples = element.num_exe_samples
      BY <1>1, <2>1, <3>1, DrainIs
    <3>3. kept = d
      BY <2>1
    <3> HIDE DEF d, kept
    <3>4. element.adapter \in Nat /\ element.num_exe_samples \in Nat
      BY <1>1 DEF Elements
    <3>5. d.adapter < d.num_exe_samples
      BY <1>1, <3>1, <3>2, <3>4
    <3> QED
      BY <3>2, <3>3, <3>5
  <2>2. CASE ~element.need_tail_drain
    BY <1>1, <2>2
  <2> QED
    BY <2>1, <2>2
<1> HIDE DEF kept
<1>3. /\ failed' \in {"no", "division"} /\ element' \in Elements
      /\ element'.t0 # None => element'.adapter < element'.num_exe_samples
      /\ Pushed(out', heard)
      /\ element.need_tail_drain /\ failed' = "no" =>
           out' # <<>> /\ Last(out').stop = Len(heard)
  BY <1>1, <1>2, Drained
<1>4. IInv'
  BY <1>1, <1>3, Keeps
<1> QED
  BY <1>3, <1>4

\* The invariant holds at first.
LEMMA InitHolds ==
  ASSUME Init
  PROVE  IInv
<1>1. /\ bank \in Banks /\ eos = FALSE /\ failed = "no" /\ heard = <<>> /\ out = <<>>
      /\ element = [spstate |-> NewChain(bank), adapter |-> 0, flag_segments |-> <<>>,
                    need_discont |-> TRUE, need_tail_drain |-> FALSE, t0 |-> None,
                    next_in_offset |-> None, samples_in |-> 0, samples_out |-> 0,
                    num_exe_samples |-> SetExe(bank)]
  BY DEF Init
<1>2. NewChain(bank) \in Chains /\ SetExe(bank) \in Nat
  BY <1>1, NewChainIs, HeadIs
<1>3. /\ element \in Elements /\ element.t0 = None /\ ~element.need_tail_drain
      /\ element.flag_segments = <<>>
  BY <1>1, <1>2 DEF Elements
<1>4. Recorded(<<>>, <<>>)
  BY DEF Recorded, Ordered, Says
<1>5. Pushed(<<>>, <<>>)
  BY DEF Pushed, Sequential
<1>6. <<>> \in Seq({"data", "gap", "hole"})
  OBVIOUS
<1> QED
  BY <1>1, <1>3, <1>4, <1>5, <1>6 DEF IInv, Sound, Steady

\* Every step keeps the invariant.
LEMMA StepHolds ==
  ASSUME IInv, [Next]_vars
  PROVE  IInv'
<1>1. CASE Receive
  BY <1>1, ReceiveStep
<1>2. CASE NewSegment
  BY <1>2, NewSegmentStep
<1>3. CASE Eos
  BY <1>3, EosStep
<1>4. CASE UNCHANGED vars
  <2>1. /\ bank' = bank /\ element' = element /\ eos' = eos /\ failed' = failed
        /\ heard' = heard /\ out' = out
    BY <1>4 DEF vars
  <2> QED
    BY <2>1, Keeps DEF IInv, Sound
<1> QED
  BY <1>1, <1>2, <1>3, <1>4 DEF Next, Finished

-----------------------------------------------------------------------------
(* The theorems.                                                           *)

\* The invariant is inductive.
LEMMA Invariant == Spec => []IInv
<1>1. Init => IInv
  BY InitHolds
<1>2. IInv /\ [Next]_vars => IInv'
  BY StepHolds
<1> QED
  BY <1>1, <1>2, PTL DEF Spec

\* The fields of the element keep their types; the counts of samples and of what the
\* adapter holds are never negative.
THEOREM TypeCorrect == Spec => []TypeOK
<1>1. IInv => TypeOK
  BY DEF IInv, Sound, Elements, TypeOK
<1> QED
  BY <1>1, Invariant, PTL

\* push_with_flag_segments: every sample of the input is pushed at most once, at its
\* time and flagged as it was heard, and a missing one is a discontinuity.
THEOREM OutputIsTrue == Spec => []OutputTrue
<1>1. ASSUME IInv PROVE OutputTrue
  <2>1. /\ out \in Seq(Buffer) /\ Sequential(out)
        /\ \A i \in DOMAIN out :
             ~out[i].drained => \A t \in out[i].start..(out[i].stop - 1) :
                                  heard[t + 1] = Sort(out[i].gap)
    BY <1>1 DEF IInv, Sound, Pushed
  <2> QED
    BY <2>1 DEF OutputTrue, Sequential, Sort
<1> QED
  BY <1>1, Invariant, PTL

\* multi_downsample and the assertions: no queue overruns or underruns, no memory of a
\* resampler overflows, in the next execution and in all of a drain, for every bank.
THEOREM ChainIsSound == Spec => []ChainSound
<1>1. ASSUME IInv PROVE ChainSound
  <2>1. /\ bank \in Banks /\ failed # "assertion" /\ element \in Elements
        /\ ~eos => Steady(element, heard, out)
    BY <1>1 DEF IInv, Sound
  <2>2. ASSUME element.t0 # None, ~eos
        PROVE  Fits(element.spstate, element.num_exe_samples)
    <3>1. Fresh(element, out) \/ Running(element, out)
      BY <2>1, <2>2 DEF Steady
    <3>2. CASE Fresh(element, out)
      BY <2>1, <3>2, FreshTakes DEF Fresh
    <3>3. CASE Running(element, out)
      <4>1. Lagging(element.spstate) /\ element.num_exe_samples = bank.rate
        BY <3>3 DEF Running
      <4>2. bank.rate \in Nat /\ bank.rate <= bank.rate
        BY <2>1, BankIs
      <4> QED
        BY <2>1, <4>1, <4>2, LaggingTakes
    <3> QED
      BY <3>1, <3>2, <3>3
  <2>3. ASSUME element.need_tail_drain, ~eos
        PROVE  LET parts == Executions(element.adapter + TailZeros)
               IN  \A k \in DOMAIN parts : Fits(Chain(parts)[k - 1], parts[k])
    <3>1. Running(element, out)
      BY <2>1, <2>3 DEF Steady, Fresh
    <3>2. Lagging(element.spstate)
      BY <3>1 DEF Running
    <3>3. element.adapter + TailZeros \in Nat
      BY <2>1, HeadIs DEF Elements, TailZeros
    <3> DEFINE n == element.adapter + TailZeros
    <3> HIDE DEF n
    <3>4. LET parts == Executions(n)
          IN  \A k \in DOMAIN parts : Fits(Chain(parts)[k - 1], parts[k])
      BY <2>1, <3>2, <3>3, DrainTakes DEF n
    <3> QED
      BY <3>4 DEF n
  <2> QED
    BY <2>1, <2>2, <2>3 DEF ChainSound
<1> QED
  BY <1>1, Invariant, PTL

\* cuda_multiratespiir_transform: one execution per buffer keeps up with the input.
THEOREM BacklogIsBounded == Spec => []BacklogBounded
<1>1. IInv => BacklogBounded
  BY DEF IInv, Sound, BacklogBounded
<1> QED
  BY <1>1, Invariant, PTL
=============================================================================
