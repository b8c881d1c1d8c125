--------------------------- MODULE DecisionPromise ---------------------------
(***************************************************************************)
(* What the user is promised about an initiative: it waits, it is decided  *)
(* once and for all, and only then may it act, at most once.               *)
(***************************************************************************)
EXTENDS Naturals

CONSTANT Ids
VARIABLES decided, effects

vars == <<decided, effects>>

Init == decided = [i \in Ids |-> FALSE] /\ effects = [i \in Ids |-> 0]

\* A verdict, or a step that settles several waiting initiatives at once.
Decide ==
  /\ \E S \in SUBSET {i \in Ids : ~decided[i]} :
       decided' = [i \in Ids |-> decided[i] \/ i \in S]
  /\ UNCHANGED effects

\* The one consequence: an e-mail or a mission.
Act(i) ==
  /\ decided[i] /\ effects[i] = 0
  /\ effects' = [effects EXCEPT ![i] = 1]
  /\ UNCHANGED decided

Next == Decide \/ \E i \in Ids : Act(i)
Spec == Init /\ [][Next]_vars
==============================================================================
