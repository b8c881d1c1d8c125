------------------------------ MODULE MCMission ------------------------------
(* Small instances of Mission for TLC. *)
EXTENDS Mission, TLC

Plain == [s \in Steps |-> 1]                        \* WRITE_LOCAL
FirstOnNetwork == [s \in Steps |-> IF s = 1 THEN 3 ELSE 1]
AnyMode == {"always", "ask", "never"}
\* With a first step on the network, "ask" adds nothing to these but a second question.
FreeOrForbidden == {"always", "never"}

\* The workers are interchangeable: none of them is named.
SymWorkers == Permutations(Workers)
==============================================================================
