----------------------------- MODULE MCPostcoh -----------------------------
(* Instances of Postcoh for TLC.                                           *)
EXTENDS Postcoh

MCStarts == {0, 1}
=============================================================================
