-------------------------------- MODULE Facts --------------------------------
(***************************************************************************)
(* The facts of the memory and the tasks that reconcile new ones with      *)
(* them.  An ingest awaits the extraction of its candidates, then takes    *)
(* them one by one; a candidate that half matches a known fact is put to   *)
(* an arbiter, and the rows read before that await are written after it.   *)
(* Meanwhile the user corrects facts by hand and the night merges them.    *)
(*   - providers/memory/ingest.py   ingest, _reconcile, _arbitrate         *)
(*   - providers/memory/kernel.py   facts, apply_correction, fusion        *)
(* One process: an action goes from one await to the next, except that a   *)
(* task which is "reconciling" holds the loop from candidate to candidate. *)
(***************************************************************************)
EXTENDS Naturals, FiniteSets, Sequences

CONSTANTS
  Triples,        \* (subject, predicate, category)
  Vocabulary,     \* those whose predicate and category are in the closed lists
  TopicOf,        \* (subject, category) of each triple
  StableTopics,   \* topics whose category is stable: one value replaces another
  Values,         \* objects of the facts
  Tasks,          \* ingests that may run side by side
  HandStatuses,   \* statuses the user may set on a fact
  Known,          \* sequence of the candidates the memory starts with
  NoFact, NoValue, NoStatus, NoWord,
  MaxFacts,       \* bound: rows of the table
  MaxCandidates   \* candidates kept of one extraction (5)

Ids == 1..MaxFacts
Statuses == {"active", "superseded", "conflicted", "archived", "needs_review"}
Candidates == [triple: Triples, value: Values]
Facts == [triple: Triples, value: Values, status: Statuses]
Words == [value: Values, status: Statuses, raced: BOOLEAN]
Views == UNION {[S -> Facts] : S \in SUBSET Ids}   \* rows read, as they were

ASSUME FactsAssumption ==
  /\ Vocabulary \subseteq Triples
  /\ DOMAIN TopicOf = Triples
  /\ HandStatuses \subseteq Statuses
  /\ MaxFacts \in Nat /\ MaxCandidates \in Nat
  /\ Known \in Seq([triple: Vocabulary, value: Values]) /\ Len(Known) <= MaxFacts
  /\ NoFact \notin Facts /\ NoWord \notin Words
  /\ NoValue \notin Values /\ NoStatus \notin Statuses

VARIABLES
  facts,   \* the table: a row, or NoFact
  task,    \* each ingest: where it is and the rows its arbiter looks at
  word     \* history: each fact as the user's hand last left it, and whether an
           \* arbiter was looking at it then

factsVars == <<facts, task, word>>

Task == [pc: {"idle", "extracting", "reconciling", "arbitrating"},
         left: 0..MaxCandidates,
         cand: Candidates \cup {NoValue},
         asked: Views]

NoRows == [id \in {} |-> NoFact]
Idle == [pc |-> "idle", left |-> 0, cand |-> NoValue, asked |-> NoRows]

FactsTypeOK ==
  /\ facts \in [Ids -> Facts \cup {NoFact}]
  /\ task \in [Tasks -> Task]
  /\ word \in [Ids -> Words \cup {NoWord}]

Row(c, status) == [triple |-> c.triple, value |-> c.value, status |-> status]

FactsInit ==
  /\ facts = [id \in Ids |-> IF id <= Len(Known) THEN Row(Known[id], "active") ELSE NoFact]
  /\ task = [t \in Tasks |-> Idle]
  /\ word = [id \in Ids |-> NoWord]

-----------------------------------------------------------------------------
(* Reading and writing the table *)

Stored == {id \in Ids : facts[id] # NoFact}
Active == {id \in Stored : facts[id].status = "active"}

\* find_active_exact, find_active_match: the row seen last among these; which
\* one that is is left open.
Exact(c) == {id \in Active : facts[id].triple = c.triple /\ facts[id].value = c.value}
Match(c) == {id \in Active : facts[id].triple = c.triple}

\* Slip: the search returns facts of any status.
AnySibling(c) == {id \in Stored : TopicOf[facts[id].triple] = TopicOf[c.triple]}

\* The active facts of the same subject and category that the full-text search
\* may return.
Sibling(c) == {id \in Active : TopicOf[facts[id].triple] = TopicOf[c.triple]}

\* insert_fact, in the next row.
Insert(c, status) ==
  \E id \in Ids \ Stored :
    /\ \A other \in Ids \ Stored : id <= other
    /\ facts' = [facts EXCEPT ![id] = Row(c, status)]

\* _confirm: the row is written as it was read.
Confirm(id, row) == facts' = [facts EXCEPT ![id] = row]

\* _supersede: the row is written as it was read, then the new fact inserted.
Supersede(id, row, c) ==
  \E new \in Ids \ Stored :
    /\ \A other \in Ids \ Stored : new <= other
    /\ facts' = [facts EXCEPT ![id] = [row EXCEPT !.status = "superseded"],
                              ![new] = Row(c, "active")]

-----------------------------------------------------------------------------
(* An ingest *)

LoopIsFree == \A t \in Tasks : task[t].pc # "reconciling"

StartIngest(t) ==
  /\ task[t].pc = "idle"
  /\ task' = [task EXCEPT ![t].pc = "extracting"]
  /\ UNCHANGED <<facts, word>>

\* Bound: the rows that the candidates at hand may still take.
RoomFor(t) ==
  MaxCandidates * Cardinality({u \in Tasks : task[u].left > 0} \cup {t})
    <= Cardinality(Ids \ Stored)

\* The model answers: no candidate (or an error, which is the same) or some.
Extracted(t) ==
  /\ task[t].pc = "extracting"
  /\ \E n \in 0..MaxCandidates :
       /\ n > 0 => RoomFor(t)
       /\ task' = [task EXCEPT ![t].pc = IF n = 0 THEN "idle" ELSE "reconciling",
                               ![t].left = n]
  /\ UNCHANGED <<facts, word>>

\* The next candidate, or the end of the ingest.
Advance(t) ==
  task' = [task EXCEPT ![t] =
             [Idle EXCEPT !.pc = IF task[t].left = 1 THEN "idle" ELSE "reconciling",
                          !.left = task[t].left - 1]]

\* The arbiter is asked about the rows of ids, as they are now.
Ask(t, c, ids) ==
  /\ task' = [task EXCEPT ![t].pc = "arbitrating", ![t].cand = c,
                          ![t].asked = [id \in ids |-> facts[id]]]
  /\ UNCHANGED facts

\* Slip: only the predicate is looked up, and every predicate is known.
AllWords(c) == TRUE

InVocabulary(c) == c.triple \in Vocabulary

OutOfVocabulary(t, c) ==
  /\ ~InVocabulary(c)
  /\ Insert(c, "needs_review")
  /\ Advance(t)

AlreadyKnown(t, c) ==
  /\ InVocabulary(c)
  /\ \E id \in Exact(c) : Confirm(id, facts[id])
  /\ Advance(t)

OtherValue(t, c) ==
  /\ InVocabulary(c) /\ Exact(c) = {}
  /\ \E id \in Match(c) :
       IF TopicOf[c.triple] \in StableTopics
       THEN Ask(t, c, {id})
       ELSE Insert(c, "active") /\ Advance(t)

NewTriple(t, c) ==
  /\ InVocabulary(c) /\ Match(c) = {}
  /\ \E ids \in SUBSET Sibling(c) :
       /\ Cardinality(ids) <= 3
       /\ IF ids = {} THEN Insert(c, "active") /\ Advance(t) ELSE Ask(t, c, ids)

\* _reconcile, up to the arbiter if it needs one.
Reconcile(t) ==
  /\ task[t].pc = "reconciling"
  /\ \E c \in Candidates :
       \/ OutOfVocabulary(t, c)
       \/ AlreadyKnown(t, c)
       \/ OtherValue(t, c)
       \/ NewTriple(t, c)
  /\ UNCHANGED word

\* The base is locked: the exception ends the ingest, at a candidate or after the
\* answer of the arbiter.
Raises(t) ==
  /\ task[t].pc \in {"reconciling", "arbitrating"}
  /\ task' = [task EXCEPT ![t] = Idle]
  /\ UNCHANGED <<facts, word>>

\* The arbiter answers.  Doubt, an error, an unknown target, or a contradiction
\* in a category that is not stable, all make a new fact.
Verdict(t) ==
  LET c == task[t].cand
      asked == task[t].asked
  IN /\ task[t].pc = "arbitrating"
     /\ \/ \E id \in DOMAIN asked : Confirm(id, asked[id])
        \/ /\ TopicOf[c.triple] \in StableTopics
           /\ \E id \in DOMAIN asked : Supersede(id, asked[id], c)
        \/ Insert(c, "active")
     /\ Advance(t)
     /\ UNCHANGED word

\* Between the two commits of _supersede the base may refuse, or the process stop: the old
\* row is retired, nothing takes its place, and the ingest ends there.
HalfSupersedes(t) ==
  /\ task[t].pc = "arbitrating"
  /\ TopicOf[task[t].cand.triple] \in StableTopics
  /\ \E id \in DOMAIN task[t].asked :
       facts' = [facts EXCEPT ![id] = [task[t].asked[id] EXCEPT !.status = "superseded"]]
  /\ task' = [task EXCEPT ![t] = Idle]
  /\ UNCHANGED word

-----------------------------------------------------------------------------
(* The user, the night, the process *)

LookedAt(id) == \E t \in Tasks : id \in DOMAIN task[t].asked

\* apply_correction, by the interface or by a line of the inbox: an unknown fact
\* is left alone.
Correct(id, value, status) ==
  LET fact == [facts[id] EXCEPT
                 !.value = IF value = NoValue THEN @ ELSE value,
                 !.status = IF status = NoStatus THEN @ ELSE status]
  IN IF id \notin Stored
     THEN UNCHANGED <<facts, word>>
     ELSE /\ facts' = [facts EXCEPT ![id] = fact]
          /\ word' = [word EXCEPT ![id] = [value |-> fact.value, status |-> fact.status,
                                           raced |-> LookedAt(id)]]

CorrectByHand ==
  /\ \E id \in Stored, value \in Values \cup {NoValue}, status \in HandStatuses \cup {NoStatus} :
       Correct(id, value, status)
  /\ UNCHANGED task

SameFact(a, b) == facts[a].triple = facts[b].triple /\ facts[a].value = facts[b].value

\* fusionner_doublons: of each group of identical active facts one survives (the
\* one with the most support, which is left open).
Merge ==
  \E survivors \in SUBSET Active :
    /\ \A id \in Active : \E s \in survivors : SameFact(s, id)
    /\ \A r, s \in survivors : SameFact(r, s) => r = s
    /\ facts' = [id \in Ids |-> IF id \in Active \ survivors
                                THEN [facts[id] EXCEPT !.status = "superseded"]
                                ELSE facts[id]]
    /\ UNCHANGED <<task, word>>

ForgetTasks == task' = [t \in Tasks |-> Idle]

-----------------------------------------------------------------------------
(* What the memory owes the user *)

\* The user's last word on a fact stands: the value he left is still the value,
\* and a fact he took out of the memory (archived, say) stays out -- unless an
\* arbiter was looking at the old row when he spoke, for then the row is written
\* back as it was read (ingest.py:424, kernel.py:408).
HandStands ==
  \A id \in Ids :
    word[id] # NoWord /\ ~word[id].raced =>
      /\ facts[id].value = word[id].value
      /\ word[id].status # "active" => facts[id].status = word[id].status

\* A fact out of the vocabulary enters the memory by the user's hand alone
\* (ingest.py:18, "jamais en base principale"): no confirmation, no arbiter and
\* no merge ever makes it active.
OnlyTheHandAdmits ==
  \A id \in Active :
    facts[id].triple \notin Vocabulary =>
      word[id] # NoWord /\ (word[id].status = "active" \/ word[id].raced)
==============================================================================
