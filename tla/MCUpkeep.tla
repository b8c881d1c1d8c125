------------------------------ MODULE MCUpkeep -------------------------------
(* Small instances of SearchIndex, Prefs and Archives for TLC.  The three share nothing, and
   the facts and the topics only the lock of the index: a behaviour goes through one part. *)
EXTENDS SearchIndex, Prefs, Archives

CONSTANTS
  f, g, top, x, y,
  MaxFactChanges   \* bound, below MaxChanges

VARIABLE part

\* Facts come and go, a topic says one thing or another.
Held == [d \in Docs |-> IF d \in Facts THEN {x} ELSE {x, y, Blank}]
OneDocument == [d \in Facts |-> "user/preferences.md"]
OnlyFacts == [d \in Docs |-> IF d \in Facts THEN x ELSE NoText]
OnlyTopics == [d \in Docs |-> IF d \in Facts THEN NoText ELSE x]
Memories == {OnlyFacts, OnlyTopics}

Init ==
  /\ part \in {"facts", "topics", "prefs", "archives"}
  /\ IndexInit /\ PrefsInit /\ ArchivesInit
  /\ truth = IF part = "topics" THEN OnlyTopics ELSE OnlyFacts
  /\ part # "prefs" => prefs.size = Built

TopicsNext ==
  \/ \E t \in Tasks : IndexSteps(t)
  \/ \E t \in Doors : DoorSteps(t)
  \/ \E d \in Topics : \E z \in TextsOf[d] \cup {NoText} : TopicChanges(d, z)
  \/ Restart

FactsNext ==
  /\ \/ \E t \in Tasks : IndexSteps(t)
     \/ \E t \in Deeps : DeepSteps(t)
     \/ \E d \in Facts : \E z \in TextsOf[d] \cup {NoText} : FactChanges(d, z)
     \/ Restart
  /\ changes' <= MaxFactChanges

Next ==
  /\ UNCHANGED part
  /\ \/ part = "facts" /\ FactsNext /\ UNCHANGED <<prefsVars, archivesVars>>
     \/ part = "topics" /\ TopicsNext /\ UNCHANGED <<prefsVars, archivesVars>>
     \/ part = "prefs" /\ PrefsNext /\ UNCHANGED <<indexVars, archivesVars>>
     \/ part = "archives" /\ ArchivesNext /\ UNCHANGED <<indexVars, prefsVars>>

vars == <<part, indexVars, prefsVars, archivesVars>>

Spec == Init /\ [][Next]_vars /\ (part = "facts" => IndexFairness)
==============================================================================
