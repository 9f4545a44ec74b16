-------------------------- MODULE TriggerSelection --------------------------
(***************************************************************************)
(* What the clustering of the final sink promises, without buffers,        *)
(* boundaries or windows that slide: triggers arrive, and each of them is  *)
(* eventually recorded or dropped.  Two recorded triggers are at least     *)
(* MinSeparation apart, and a trigger is dropped only in favour of a       *)
(* better one that ended at most Reach away.                               *)
(***************************************************************************)
EXTENDS Integers

CONSTANTS
  Triggers,            \* everything that can arrive: records with an end time
  IsBetter(_, _),      \* the order that decides between two triggers
  MinSeparation,
  Reach

VARIABLES
  arrived,             \* the triggers handed over so far
  recorded,            \* those chosen
  dropped              \* those given up

selectionVars == <<arrived, recorded, dropped>>

Apart(x, y) == x.end + MinSeparation <= y.end \/ y.end + MinSeparation <= x.end

Near(x, y) == x.end - y.end <= Reach /\ y.end - x.end <= Reach

SelectionInit == arrived = {} /\ recorded = {} /\ dropped = {}

Arrive ==
  /\ arrived' \in SUBSET Triggers
  /\ arrived \subseteq arrived'
  /\ UNCHANGED <<recorded, dropped>>

Record ==
  \E c \in arrived \ (recorded \union dropped) :
    /\ \A d \in recorded : Apart(c, d)
    /\ recorded' = recorded \union {c}

Drop ==
  /\ dropped \subseteq dropped'
  /\ dropped' \subseteq arrived \ recorded'
  /\ \A e \in dropped' \ dropped :
       \E d \in arrived : IsBetter(d, e) /\ Near(d, e)

\* One loop iteration of the clustering may record a trigger and drop others.
Decide ==
  /\ UNCHANGED arrived
  /\ Record \/ UNCHANGED recorded
  /\ Drop

SelectionNext == Arrive \/ Decide

Spec == SelectionInit /\ [][SelectionNext]_selectionVars
=============================================================================
