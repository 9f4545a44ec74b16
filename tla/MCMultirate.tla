---------------------------- MODULE MCMultirate ----------------------------
(* Instances of Multirate for TLC.                                         *)
EXTENDS Multirate

\* One, two and three depths at a rate of four samples a second: no head, a head of
\* 5 samples and one of 11.
MCBanks ==
  {[num_depths |-> d, rate |-> 4, down_filtlen |-> 2, up_filtlen |-> 2,
    delay_max |-> 1] : d \in 1..3}

MCDeepBanks == {b \in MCBanks : b.num_depths = 3}
=============================================================================
