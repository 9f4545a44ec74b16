-------------------------- MODULE MCAccumBackground --------------------------
(* Instances of AccumBackground for TLC: two time units make a second.     *)
EXTENDS AccumBackground

E(ts, kind, ifos) == [ts |-> ts, kind |-> kind, ifos |-> ifos]

\* A heartbeat in every buffer; background of one and of two detectors.
MCEntries ==
  {E(t, "FLAG_EMPTY", 2) : t \in {1, 2, 4, 5, 7, 9}} \union
  {E(t, "FLAG_BACKGROUND", 2) : t \in {1, 4, 7}} \union
  {E(2, "FLAG_BACKGROUND", 1), E(5, "FLAG_FOREGROUND", 2), E(9, "FLAG_FOREGROUND", 2)}
=============================================================================
