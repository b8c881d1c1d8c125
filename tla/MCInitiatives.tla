---------------------------- MODULE MCInitiatives ----------------------------
(* Small instances of Initiatives for TLC. *)
EXTENDS Initiatives, TLC

CONSTANTS d1, a1, n1

\* The type of each initiative of the instances: an e-mail, a mission, a note.
SmallTypes == [i \in Ids |-> CASE i = a1 -> "auto_task" [] i = n1 -> "info"
                               [] OTHER -> "draft_response"]

\* The slots are interchangeable; no property singles one out.
SymReqs == Permutations(Reqs)
==============================================================================
