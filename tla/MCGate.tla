------------------------------- MODULE MCGate -------------------------------
(* Instances of Gate for TLC.                                              *)
EXTENDS Gate

S(hold, attack, default, leaky, invert, tee) ==
  [hold_length |-> hold, attack_length |-> attack, default_state |-> default,
   leaky |-> leaky, invert_control |-> invert, tee |-> tee]

\* The gates of the state vectors; the h(t) gate behind its tee; a leaky gate
\* that opens early and late; one that does so in one direction only.
MCSettings ==
  {S(0, 0, FALSE, FALSE, FALSE, FALSE), S(-1, -1, FALSE, FALSE, TRUE, TRUE),
   S(1, 1, TRUE, TRUE, FALSE, FALSE), S(-2, 1, FALSE, FALSE, FALSE, FALSE)}

\* The gate of a state vector alone.
MCStateVector == {S(0, 0, FALSE, FALSE, FALSE, FALSE)}

\* A gate that opens one sample early.
MCEarly == {S(0, 1, FALSE, FALSE, FALSE, FALSE)}
=============================================================================
