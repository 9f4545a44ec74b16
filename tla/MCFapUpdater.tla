---------------------------- MODULE MCFapUpdater ----------------------------
(* Instances of FapUpdater for TLC.                                        *)
EXTENDS FapUpdater

\* Walltimes longer and shorter than what is merged into one file.
MCWalltimes == <<5, 2>>
=============================================================================
