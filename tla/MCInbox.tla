------------------------------- MODULE MCInbox -------------------------------
(* Small instances of Inbox for TLC. *)
EXTENDS Inbox

CONSTANTS job, home, odd, tea, coffee, l1, l2, l3, l4, l5

\* Two predicates of one stable category, and one out of the vocabulary.
OneTopic == [tr \in Triples |-> "me"]
Stable == {"me"}
Start == <<[triple |-> job, value |-> tea]>>

\* Forget the first fact, keep something new, a line that means nothing, a title, a fence.
Text == [l \in Lines |->
  [verb |-> CASE l = l1 -> "corrige" [] l = l2 -> "retiens" [] l = l3 -> "incomprise"
              [] l = l4 -> "titre" [] OTHER -> "cloture",
   id |-> 1, value |-> NoValue, status |-> IF l = l1 THEN "archived" ELSE NoStatus]]

\* Two orders, or one and two lines that are none.
OneOrderOrTwo == {l1, l2} \subseteq typed => Cardinality(typed) = 2
==============================================================================
