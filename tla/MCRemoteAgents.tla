---------------------------- MODULE MCRemoteAgents ----------------------------
(* Small instances of RemoteAgents for TLC. *)
EXTENDS RemoteAgents

CONSTANTS pc, mac, c1, c2

\* One call names a machine, the other wants the only one there is.
Wanted == [c \in Calls |-> IF c = c1 THEN pc ELSE NoMachine]
\* The second machine announces less.
Offers == [m \in Machines |-> IF m = pc THEN Calls ELSE {c2}]
==============================================================================
