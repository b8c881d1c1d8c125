------------------------------ MODULE MCProactive ------------------------------
(* Small instances of Proactive for TLC. *)
EXTENDS Proactive

CONSTANTS rain, storm, news, note, w1, w2, loop, route

\* Two questions about the same weather, a piece of news, and a note for the log.
Title == [i \in Ids |-> CASE i = news -> "news" [] i = note -> "note" [] OTHER -> "weather"]
SameTitle == {<<t, t>> : t \in {"news", "note", "weather"}}
Mode == [i \in Ids |-> CASE i = news -> "notify" [] i = note -> "auto" [] OTHER -> "validate"]

\* The mission and the engine share nothing but the ledger: the mission works while no
\* initiative has been generated, or the engine while no mission has; what it pays waits.
\* One dear lesson, or three cheap ones; then one expense waits at a time, and the total stays
\* near the ceiling.
OneAtATime ==
  /\ Len(owed) <= 2 /\ unguarded <= 3 /\ (unguarded > 0 => Len(owed) <= 1 /\ memo <= 4)
  /\ \/ store = [i \in Ids |-> "absent"] /\ cycle = [t \in Runners |-> None]
        /\ notices = {} /\ asked = {} /\ ~quiet
     \/ worker = [w \in Workers |-> Unasked] /\ ledger.mission = 0 /\ ~noted /\ month = 0 /\ ~adrift
==============================================================================
