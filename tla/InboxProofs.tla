----------------------------- MODULE InboxProofs -----------------------------
(***************************************************************************)
(* What the memory owes the user, for any number of facts, tasks and       *)
(* lines: HandStands and OnlyTheHandAdmits are invariants of Inbox.        *)
(* Neither is inductive: both hang on the rows that an arbiter looks at,   *)
(* which will be written back.  Held says what those rows are.             *)
(* Then what the box owes him: a line vanishes only if it was exposed,     *)
(* since every pass that is out has in hand, or has done, all that was not *)
(* (HasIt); and what was reported is not read again, since the top of the  *)
(* file has nothing of it (OrdersAreNew).                                  *)
(***************************************************************************)
EXTENDS Inbox, FiniteSetTheorems, SequenceTheorems, TLAPS

\* A word is about a fact of the table.
Spoken == \A id \in Ids : word[id] # NoWord => id \in Stored

\* An ingest at work has a candidate in hand; what it asked about is in the
\* vocabulary, and it looks at nothing otherwise.
AtWork ==
  \A t \in Tasks :
    /\ task[t].pc \in {"reconciling", "arbitrating"} => task[t].left > 0
    /\ task[t].pc = "arbitrating" =>
         task[t].cand \in Candidates /\ task[t].cand.triple \in Vocabulary
    /\ task[t].pc # "arbitrating" => DOMAIN task[t].asked = {}

\* The user spoke of id, with no arbiter looking on.
Firm(id) == word[id] # NoWord /\ ~word[id].raced

\* Out of the vocabulary, only his hand can have made a fact active.
Admitted(id) == word[id] # NoWord /\ (word[id].status = "active" \/ word[id].raced)

\* A row of fact id that may be written as it is without harm.
Harmless(id, row) ==
  /\ row \in Facts /\ row.status = "active"
  /\ Firm(id) => row.value = word[id].value /\ word[id].status = "active"
  /\ row.triple \notin Vocabulary => Admitted(id)

\* The rows an arbiter looks at are harmless.
Held ==
  \A t \in Tasks : \A id \in DOMAIN task[t].asked :
    id \in Stored /\ Harmless(id, task[t].asked[id])

Inv ==
  /\ FactsTypeOK
  /\ Spoken
  /\ AtWork
  /\ Held
  /\ HandStands
  /\ OnlyTheHandAdmits

-----------------------------------------------------------------------------
(* The operators *)

\* A view is a function from some ids to rows.
LEMMA ViewForm ==
  /\ \A v \in Views : /\ DOMAIN v \subseteq Ids
                      /\ \A id \in DOMAIN v : v[id] \in Facts
  /\ NoRows \in Views /\ DOMAIN NoRows = {}
  /\ \A S \in SUBSET Ids : \A v \in [S -> Facts] : v \in Views
<1>1. ASSUME NEW v \in Views
      PROVE  DOMAIN v \subseteq Ids /\ \A id \in DOMAIN v : v[id] \in Facts
  <2>1. PICK S \in SUBSET Ids : v \in [S -> Facts]
    BY DEF Views
  <2>. QED BY <2>1
<1>2. ASSUME NEW S \in SUBSET Ids, NEW v \in [S -> Facts]
      PROVE  v \in Views
  BY DEF Views
<1>3. NoRows \in [{} -> Facts]
  BY DEF NoRows
<1>. QED BY <1>1, <1>2, <1>3

\* An idle ingest is well typed and looks at nothing.
LEMMA IdleForm == Idle \in Task /\ Idle.pc = "idle" /\ DOMAIN Idle.asked = {}
BY ViewForm, FactsAssumption DEF Idle, Task

\* An active row can be read and written back.
LEMMA ActiveIsHarmless ==
  ASSUME Inv, NEW id \in Active
  PROVE  id \in Stored /\ Harmless(id, facts[id])
BY DEF Inv, FactsTypeOK, Active, Stored, Harmless, Firm, Admitted, HandStands, OnlyTheHandAdmits

\* A step that writes harmless rows, new rows and superseded rows, and leaves
\* the words alone, keeps what is owed.
Written(id) ==
  \/ facts'[id] = facts[id]
  \/ id \in Stored /\ Harmless(id, facts'[id])
  \/ /\ id \notin Stored /\ facts'[id] \in Facts
     /\ facts'[id].triple \in Vocabulary \/ facts'[id].status # "active"
  \/ /\ id \in Stored
     /\ \E row : Harmless(id, row) /\ facts'[id] = [row EXCEPT !.status = "superseded"]

LEMMA WrittenKeeps ==
  ASSUME Inv, UNCHANGED word, facts' \in [Ids -> Facts \cup {NoFact}],
         \A id \in Ids : Written(id)
  PROVE  /\ HandStands' /\ OnlyTheHandAdmits' /\ Spoken'
         /\ \A id \in Stored : id \in Stored'
<1>1. ASSUME NEW id \in Ids, word'[id] # NoWord, ~word'[id].raced
      PROVE  /\ facts'[id].value = word'[id].value
             /\ word'[id].status # "active" => facts'[id].status = word'[id].status
  <2>1. Firm(id) /\ id \in Stored
    BY <1>1 DEF Inv, Spoken, Firm
  <2>2. CASE facts'[id] = facts[id]
    BY <1>1, <2>2 DEF Inv, HandStands
  <2>3. CASE Harmless(id, facts'[id])
    BY <2>1, <2>3 DEF Harmless
  <2>4. ASSUME NEW row, Harmless(id, row), facts'[id] = [row EXCEPT !.status = "superseded"]
        PROVE  facts'[id].value = word'[id].value /\ word'[id].status = "active"
    BY <2>1, <2>4 DEF Harmless, Facts
  <2>. QED BY <2>1, <2>2, <2>3, <2>4 DEF Written
<1>2. ASSUME NEW id \in Ids, facts'[id] # NoFact, facts'[id].status = "active",
             facts'[id].triple \notin Vocabulary
      PROVE  Admitted(id)
  <2>1. CASE facts'[id] = facts[id]
    BY <1>2, <2>1 DEF Inv, OnlyTheHandAdmits, Admitted, Active, Stored
  <2>2. CASE Harmless(id, facts'[id])
    BY <1>2, <2>2 DEF Harmless
  <2>3. ASSUME NEW row, Harmless(id, row), facts'[id] = [row EXCEPT !.status = "superseded"]
        PROVE  FALSE
    BY <1>2, <2>3 DEF Harmless, Facts
  <2>. QED BY <1>2, <2>1, <2>2, <2>3 DEF Written
<1>3. ASSUME NEW id \in Stored PROVE id \in Stored'
  <2>1. id \in Ids /\ facts[id] # NoFact
    BY DEF Stored
  <2>2. ASSUME NEW row, Harmless(id, row), facts'[id] = [row EXCEPT !.status = "superseded"]
        PROVE  facts'[id] \in Facts
    BY <2>2 DEF Harmless, Facts, Statuses
  <2>. QED BY <2>1, <2>2, FactsAssumption DEF Stored, Written, Harmless
<1>. QED BY <1>1, <1>2, <1>3 DEF HandStands, OnlyTheHandAdmits, Admitted, Spoken, Inv, Active, Stored

\* With the words unchanged, what was harmless stays so.
LEMMA HarmlessStays ==
  ASSUME UNCHANGED word, NEW id, NEW row, Harmless(id, row)
  PROVE  Harmless(id, row)'
BY DEF Harmless, Firm, Admitted

-----------------------------------------------------------------------------
(* Rows written by an ingest *)

LEMMA InsertWrites ==
  ASSUME Inv, NEW c \in Candidates, NEW status \in Statuses, Insert(c, status),
         c.triple \in Vocabulary \/ status # "active"
  PROVE  /\ facts' \in [Ids -> Facts \cup {NoFact}]
         /\ \A id \in Ids : Written(id)
<1>1. PICK new \in Ids \ Stored : facts' = [facts EXCEPT ![new] = Row(c, status)]
  BY DEF Insert
<1>2. /\ Row(c, status) \in Facts
      /\ Row(c, status).triple = c.triple /\ Row(c, status).status = status
  BY DEF Row, Facts, Candidates
<1>. QED BY <1>1, <1>2 DEF Inv, FactsTypeOK, Written

LEMMA ConfirmWrites ==
  ASSUME Inv, NEW id \in Stored, NEW row, Harmless(id, row), Confirm(id, row)
  PROVE  /\ facts' \in [Ids -> Facts \cup {NoFact}]
         /\ \A other \in Ids : Written(other)
<1>1. row \in Facts /\ id \in Ids
  BY DEF Harmless, Stored
<1>. QED BY <1>1 DEF Confirm, Inv, FactsTypeOK, Written

LEMMA SupersedeWrites ==
  ASSUME Inv, NEW id \in Stored, NEW row, Harmless(id, row),
         NEW c \in Candidates, c.triple \in Vocabulary, Supersede(id, row, c)
  PROVE  /\ facts' \in [Ids -> Facts \cup {NoFact}]
         /\ \A other \in Ids : Written(other)
<1>1. PICK new \in Ids \ Stored :
        facts' = [facts EXCEPT ![id] = [row EXCEPT !.status = "superseded"],
                               ![new] = Row(c, "active")]
  BY DEF Supersede
<1>2. /\ Row(c, "active") \in Facts
      /\ Row(c, "active").triple = c.triple
  BY DEF Row, Facts, Candidates, Statuses
<1>3. [row EXCEPT !.status = "superseded"] \in Facts /\ id \in Ids /\ new # id
  BY DEF Harmless, Facts, Statuses, Stored
<1>4. facts' \in [Ids -> Facts \cup {NoFact}]
  BY <1>1, <1>2, <1>3 DEF Inv, FactsTypeOK
<1>5. /\ facts'[new] = Row(c, "active")
      /\ facts'[id] = [row EXCEPT !.status = "superseded"]
      /\ \A other \in Ids : other # id /\ other # new => facts'[other] = facts[other]
  BY <1>1, <1>3 DEF Inv, FactsTypeOK
<1>6. ASSUME NEW other \in Ids PROVE Written(other)
  BY <1>2, <1>5 DEF Written
<1>. QED BY <1>4, <1>6

-----------------------------------------------------------------------------
(* One step of the facts *)

\* The work of the ingests is untouched by a step that leaves them alone.
LEMMA SameTasks ==
  ASSUME Inv, UNCHANGED <<task, word>>, facts' \in [Ids -> Facts \cup {NoFact}],
         \A id \in Ids : Written(id)
  PROVE  Inv'
<1>1. /\ HandStands' /\ OnlyTheHandAdmits' /\ Spoken'
      /\ \A id \in Stored : id \in Stored'
  BY WrittenKeeps
<1>2. FactsTypeOK'
  BY DEF Inv, FactsTypeOK
<1>3. AtWork'
  BY DEF Inv, AtWork
<1>4. ASSUME NEW t \in Tasks, NEW id \in DOMAIN task'[t].asked
      PROVE  (id \in Stored /\ Harmless(id, task[t].asked[id]))'
  <2>1. id \in Stored /\ Harmless(id, task[t].asked[id])
    BY <1>4 DEF Inv, Held
  <2>2. Harmless(id, task[t].asked[id])'
    BY <2>1 DEF Harmless, Firm, Admitted
  <2>. QED BY <1>1, <2>1, <2>2
<1>. QED BY <1>1, <1>2, <1>3, <1>4 DEF Inv, Held

\* A step that writes harmless rows and moves one ingest to a place where it
\* looks at nothing, with a candidate in hand if it is at work.
LEMMA OneTaskMoves ==
  ASSUME Inv, UNCHANGED word, facts' \in [Ids -> Facts \cup {NoFact}],
         \A id \in Ids : Written(id),
         NEW t \in Tasks, NEW m \in Task,
         task' = [task EXCEPT ![t] = m], DOMAIN m.asked = {},
         m.pc # "arbitrating", m.pc = "reconciling" => m.left > 0
  PROVE  Inv'
<1>1. /\ HandStands' /\ OnlyTheHandAdmits' /\ Spoken'
      /\ \A id \in Stored : id \in Stored'
  BY WrittenKeeps
<1>2. task'[t] = m /\ \A u \in Tasks : u # t => task'[u] = task[u]
  BY DEF Inv, FactsTypeOK
<1>3. FactsTypeOK'
  BY DEF Inv, FactsTypeOK
<1>4. AtWork'
  BY <1>2 DEF Inv, AtWork
<1>5. ASSUME NEW u \in Tasks, NEW id \in DOMAIN task'[u].asked
      PROVE  (id \in Stored /\ Harmless(id, task[u].asked[id]))'
  <2>1. u # t /\ task'[u] = task[u]
    BY <1>2, <1>5
  <2>2. id \in Stored /\ Harmless(id, task[u].asked[id])
    BY <1>5, <2>1 DEF Inv, Held
  <2>3. Harmless(id, task[u].asked[id])'
    BY <2>1, <2>2 DEF Harmless, Firm, Admitted
  <2>. QED BY <1>1, <2>2, <2>3
<1>. QED BY <1>1, <1>3, <1>4, <1>5 DEF Inv, Held

\* Nothing is written.
LEMMA NothingWritten ==
  ASSUME Inv, UNCHANGED facts
  PROVE  /\ facts' \in [Ids -> Facts \cup {NoFact}]
         /\ \A id \in Ids : Written(id)
BY DEF Inv, FactsTypeOK, Written

\* The next candidate, or the end.
LEMMA AdvanceForm ==
  ASSUME Inv, NEW t \in Tasks, task[t].pc \in {"reconciling", "arbitrating"}, Advance(t)
  PROVE  \E m \in Task : /\ task' = [task EXCEPT ![t] = m] /\ DOMAIN m.asked = {}
                         /\ m.pc # "arbitrating"
                         /\ m.pc = "reconciling" => m.left > 0
<1>. DEFINE m == [Idle EXCEPT !.pc = IF task[t].left = 1 THEN "idle" ELSE "reconciling",
                              !.left = task[t].left - 1]
<1>1. task[t].left \in 0..MaxCandidates /\ task[t].left > 0
  BY DEF Inv, AtWork, FactsTypeOK, Task
<1>2. m \in Task /\ m.asked = NoRows
  <2>1. NoRows \in Views /\ task[t].left - 1 \in 0..MaxCandidates
    BY <1>1, ViewForm, FactsAssumption
  <2>. QED BY <2>1 DEF Idle, Task
<1>3. m.pc # "arbitrating" /\ (m.pc = "reconciling" => m.left > 0)
  BY <1>1, FactsAssumption DEF Idle
<1>. QED BY <1>2, <1>3, ViewForm DEF Advance

\* An ingest that writes harmlessly and goes on to its next candidate.
LEMMA WriteAndAdvance ==
  ASSUME Inv, UNCHANGED word, facts' \in [Ids -> Facts \cup {NoFact}],
         \A id \in Ids : Written(id),
         NEW t \in Tasks, task[t].pc \in {"reconciling", "arbitrating"}, Advance(t)
  PROVE  Inv'
<1>1. PICK m \in Task : /\ task' = [task EXCEPT ![t] = m] /\ DOMAIN m.asked = {}
                        /\ m.pc # "arbitrating"
                        /\ m.pc = "reconciling" => m.left > 0
  BY AdvanceForm
<1>. QED BY <1>1, OneTaskMoves

LEMMA StartIngestKeeps ==
  ASSUME Inv, NEW t \in Tasks, StartIngest(t)
  PROVE  Inv'
<1>. DEFINE m == [task[t] EXCEPT !.pc = "extracting"]
<1>1. task' = [task EXCEPT ![t] = m] /\ m \in Task /\ m.pc = "extracting"
  BY DEF StartIngest, Inv, FactsTypeOK, Task
<1>2. DOMAIN m.asked = {} /\ UNCHANGED <<facts, word>>
  BY DEF StartIngest, Inv, AtWork, FactsTypeOK, Task
<1>. QED BY <1>1, <1>2, NothingWritten, OneTaskMoves

LEMMA ExtractedKeeps ==
  ASSUME Inv, NEW t \in Tasks, Extracted(t)
  PROVE  Inv'
<1>1. PICK n \in 0..MaxCandidates :
        task' = [task EXCEPT ![t].pc = IF n = 0 THEN "idle" ELSE "reconciling",
                             ![t].left = n]
  BY DEF Extracted
<1>. DEFINE m == [task[t] EXCEPT !.pc = IF n = 0 THEN "idle" ELSE "reconciling", !.left = n]
<1>2. task' = [task EXCEPT ![t] = m] /\ m \in Task
  BY <1>1 DEF Inv, FactsTypeOK, Task
<1>3. /\ DOMAIN m.asked = {} /\ UNCHANGED <<facts, word>>
      /\ m.pc # "arbitrating"
      /\ m.pc = "reconciling" => m.left > 0
  BY FactsAssumption DEF Extracted, Inv, AtWork, FactsTypeOK, Task
<1>. QED BY <1>2, <1>3, NothingWritten, OneTaskMoves

LEMMA RaisesKeeps ==
  ASSUME Inv, NEW t \in Tasks, Raises(t)
  PROVE  Inv'
<1>1. task' = [task EXCEPT ![t] = Idle] /\ UNCHANGED <<facts, word>>
  BY DEF Raises
<1>. QED BY <1>1, IdleForm, NothingWritten, OneTaskMoves

\* The arbiter is asked about active rows: they are harmless then.
LEMMA AskKeeps ==
  ASSUME Inv, UNCHANGED word, NEW t \in Tasks, task[t].pc = "reconciling",
         NEW c \in Candidates, c.triple \in Vocabulary,
         NEW ids \in SUBSET Active, Ask(t, c, ids)
  PROVE  Inv'
<1>. DEFINE view == [id \in ids |-> facts[id]]
            m == [task[t] EXCEPT !.pc = "arbitrating", !.cand = c, !.asked = view]
<1>1. view \in Views
  <2>1. ids \in SUBSET Ids /\ view \in [ids -> Facts]
    BY DEF Active, Stored, Inv, FactsTypeOK
  <2>. QED BY <2>1, ViewForm
<1>2. task' = [task EXCEPT ![t] = m] /\ m \in Task /\ UNCHANGED facts
  BY <1>1 DEF Ask, Inv, FactsTypeOK, Task
<1>3. task'[t] = m /\ \A u \in Tasks : u # t => task'[u] = task[u]
  BY <1>2 DEF Inv, FactsTypeOK
<1>4. m.pc = "arbitrating" /\ m.cand = c /\ m.asked = view /\ m.left = task[t].left
  BY DEF Inv, FactsTypeOK, Task
<1>5. FactsTypeOK'
  BY <1>2 DEF Inv, FactsTypeOK
<1>6. AtWork'
  BY <1>3, <1>4 DEF Inv, AtWork
<1>7. ASSUME NEW u \in Tasks, NEW id \in DOMAIN task'[u].asked
      PROVE  (id \in Stored /\ Harmless(id, task[u].asked[id]))'
  <2>1. CASE u = t
    <3>1. id \in Active /\ task'[u].asked[id] = facts[id]
      BY <1>3, <1>4, <1>7, <2>1
    <3>2. id \in Stored /\ Harmless(id, facts[id])
      BY <3>1, ActiveIsHarmless
    <3>. QED BY <1>2, <3>1, <3>2 DEF Stored, Harmless, Firm, Admitted
  <2>2. CASE u # t
    <3>1. task'[u] = task[u] /\ id \in Stored /\ Harmless(id, task[u].asked[id])
      BY <1>3, <1>7, <2>2 DEF Inv, Held
    <3>. QED BY <1>2, <3>1 DEF Stored, Harmless, Firm, Admitted
  <2>. QED BY <2>1, <2>2
<1>8. Held'
  BY <1>7 DEF Held
<1>. QED BY <1>2, <1>5, <1>6, <1>8
         DEF Inv, Spoken, HandStands, OnlyTheHandAdmits, Active, Stored

LEMMA ReconcileKeeps ==
  ASSUME Inv, NEW t \in Tasks, Reconcile(t)
  PROVE  Inv'
<1>1. PICK c \in Candidates :
        OutOfVocabulary(t, c) \/ AlreadyKnown(t, c) \/ OtherValue(t, c) \/ NewTriple(t, c)
  BY DEF Reconcile
<1>2. task[t].pc = "reconciling" /\ UNCHANGED word
  BY DEF Reconcile
<1>3. ASSUME Insert(c, "active"), Advance(t), c.triple \in Vocabulary
      PROVE  Inv'
  BY <1>2, <1>3, InsertWrites, WriteAndAdvance DEF Statuses
<1>4. CASE OutOfVocabulary(t, c)
  BY <1>2, <1>4, InsertWrites, WriteAndAdvance DEF OutOfVocabulary, Statuses
<1>5. CASE AlreadyKnown(t, c)
  <2>1. PICK id \in Exact(c) : Confirm(id, facts[id])
    BY <1>5 DEF AlreadyKnown
  <2>2. id \in Stored /\ Harmless(id, facts[id])
    BY ActiveIsHarmless DEF Exact
  <2>. QED BY <1>2, <1>5, <2>1, <2>2, ConfirmWrites, WriteAndAdvance DEF AlreadyKnown
<1>6. CASE OtherValue(t, c)
  <2>1. PICK id \in Match(c) : IF TopicOf[c.triple] \in StableTopics
                               THEN Ask(t, c, {id})
                               ELSE Insert(c, "active") /\ Advance(t)
    BY <1>6 DEF OtherValue
  <2>2. {id} \in SUBSET Active /\ c.triple \in Vocabulary
    BY <1>6 DEF Match, OtherValue, InVocabulary
  <2>. QED BY <1>2, <1>3, <2>1, <2>2, AskKeeps
<1>7. CASE NewTriple(t, c)
  <2>1. PICK ids \in SUBSET Sibling(c) : IF ids = {} THEN Insert(c, "active") /\ Advance(t)
                                         ELSE Ask(t, c, ids)
    BY <1>7 DEF NewTriple
  <2>2. ids \in SUBSET Active /\ c.triple \in Vocabulary
    BY <1>7 DEF Sibling, NewTriple, InVocabulary
  <2>. QED BY <1>2, <1>3, <2>1, <2>2, AskKeeps
<1>. QED BY <1>1, <1>4, <1>5, <1>6, <1>7

LEMMA VerdictKeeps ==
  ASSUME Inv, NEW t \in Tasks, Verdict(t)
  PROVE  Inv'
<1>. DEFINE c == task[t].cand
            asked == task[t].asked
<1>1. /\ task[t].pc = "arbitrating" /\ UNCHANGED word /\ Advance(t)
      /\ c \in Candidates /\ c.triple \in Vocabulary
  BY DEF Verdict, Inv, AtWork
<1>2. \A id \in DOMAIN asked : id \in Stored /\ Harmless(id, asked[id])
  BY DEF Inv, Held
<1>3. CASE \E id \in DOMAIN asked : Confirm(id, asked[id])
  BY <1>1, <1>2, <1>3, ConfirmWrites, WriteAndAdvance
<1>4. CASE \E id \in DOMAIN asked : Supersede(id, asked[id], c)
  BY <1>1, <1>2, <1>4, SupersedeWrites, WriteAndAdvance
<1>5. CASE Insert(c, "active")
  BY <1>1, <1>5, InsertWrites, WriteAndAdvance DEF Statuses
<1>. QED BY <1>3, <1>4, <1>5 DEF Verdict

\* The old row may be retired without a successor.
LEMMA HalfSupersedesKeeps ==
  ASSUME Inv, NEW t \in Tasks, HalfSupersedes(t)
  PROVE  Inv'
<1>1. PICK id \in DOMAIN task[t].asked :
        facts' = [facts EXCEPT ![id] = [task[t].asked[id] EXCEPT !.status = "superseded"]]
  BY DEF HalfSupersedes
<1>2. task' = [task EXCEPT ![t] = Idle] /\ UNCHANGED word
  BY DEF HalfSupersedes
<1>3. id \in Stored /\ id \in Ids /\ Harmless(id, task[t].asked[id])
  BY DEF Inv, Held, Stored
<1>4. [task[t].asked[id] EXCEPT !.status = "superseded"] \in Facts
  BY <1>3 DEF Harmless, Facts, Statuses
<1>5. facts' \in [Ids -> Facts \cup {NoFact}]
  BY <1>1, <1>3, <1>4 DEF Inv, FactsTypeOK
<1>6. ASSUME NEW other \in Ids PROVE Written(other)
  BY <1>1, <1>3 DEF Written, Inv, FactsTypeOK
<1>. QED BY <1>2, <1>5, <1>6, IdleForm, OneTaskMoves

-----------------------------------------------------------------------------
(* The user, the night, the process *)

\* A word spoken while an arbiter looks on is raced; otherwise it is kept.
LEMMA CorrectKeeps ==
  ASSUME Inv, NEW id \in Ids, NEW value \in Values \cup {NoValue},
         NEW status \in Statuses \cup {NoStatus},
         Correct(id, value, status), UNCHANGED task
  PROVE  Inv'
<1>. DEFINE fact == [facts[id] EXCEPT
                       !.value = IF value = NoValue THEN @ ELSE value,
                       !.status = IF status = NoStatus THEN @ ELSE status]
            said == [value |-> fact.value, status |-> fact.status, raced |-> LookedAt(id)]
<1>1. CASE id \notin Stored
  <2>1. UNCHANGED <<facts, word>>
    BY <1>1 DEF Correct
  <2>. QED BY <2>1, NothingWritten, SameTasks
<1>2. CASE id \in Stored
  <2>1. facts' = [facts EXCEPT ![id] = fact] /\ word' = [word EXCEPT ![id] = said]
    BY <1>2 DEF Correct
  <2>2. facts[id] \in Facts
    BY <1>2 DEF Inv, FactsTypeOK, Stored
  <2>3. fact \in Facts
    BY <2>2 DEF Facts
  <2>4. PICK raced \in BOOLEAN : raced = LookedAt(id)
    BY DEF LookedAt
  <2>5. /\ said \in Words /\ said # NoWord
        /\ said.value = fact.value /\ said.status = fact.status
        /\ said.raced = LookedAt(id)
    <3>1. said = [value |-> fact.value, status |-> fact.status, raced |-> raced]
      BY <2>4
    <3>2. fact.value \in Values /\ fact.status \in Statuses
      BY <2>3 DEF Facts
    <3>3. said \in Words
      BY <3>1, <3>2 DEF Words
    <3>. QED BY <2>4, <3>1, <3>3, FactsAssumption
  <2>6. /\ facts'[id] = fact /\ word'[id] = said
        /\ \A j \in Ids : j # id => facts'[j] = facts[j] /\ word'[j] = word[j]
    BY <2>1 DEF Inv, FactsTypeOK
  <2>7. FactsTypeOK' /\ AtWork'
    BY <2>1, <2>3, <2>5 DEF Inv, FactsTypeOK, AtWork
  <2>8. Stored' = Stored
    BY <1>2, <2>2, <2>3, <2>6, FactsAssumption DEF Stored
  <2>9. ASSUME NEW t \in Tasks, NEW j \in DOMAIN task'[t].asked
        PROVE  (j \in Stored /\ Harmless(j, task[t].asked[j]))'
    <3>1. j \in Stored /\ Harmless(j, task[t].asked[j]) /\ j \in Ids
      BY <2>9 DEF Inv, Held, Stored
    <3>2. CASE j = id
      <4>1. LookedAt(id)
        BY <2>9, <3>2 DEF LookedAt
      <4>2. ~Firm(id)' /\ Admitted(id)'
        BY <2>5, <2>6, <4>1 DEF Firm, Admitted
      <4>. QED BY <2>8, <3>1, <3>2, <4>2 DEF Harmless
    <3>3. CASE j # id
      BY <2>6, <2>8, <3>1, <3>3 DEF Harmless, Firm, Admitted
    <3>. QED BY <3>2, <3>3
  <2>10. HandStands'
    <3>1. ASSUME NEW j \in Ids, word'[j] # NoWord, ~word'[j].raced
          PROVE  /\ facts'[j].value = word'[j].value
                 /\ word'[j].status # "active" => facts'[j].status = word'[j].status
      <4>1. CASE j = id
        BY <2>5, <2>6, <4>1
      <4>2. CASE j # id
        BY <2>6, <3>1, <4>2 DEF Inv, HandStands
      <4>. QED BY <4>1, <4>2
    <3>. QED BY <3>1 DEF HandStands
  <2>11. OnlyTheHandAdmits'
    <3>1. ASSUME NEW j \in Active', facts'[j].triple \notin Vocabulary
          PROVE  Admitted(j)'
      <4>1. CASE j = id
        BY <2>5, <2>6, <3>1, <4>1 DEF Admitted, Active
      <4>2. CASE j # id
        BY <2>6, <2>8, <3>1, <4>2 DEF Inv, OnlyTheHandAdmits, Admitted, Active, Stored
      <4>. QED BY <4>1, <4>2
    <3>. QED BY <3>1 DEF OnlyTheHandAdmits, Admitted
  <2>12. Spoken'
    BY <1>2, <2>6, <2>8 DEF Inv, Spoken
  <2>. QED BY <2>7, <2>9, <2>10, <2>11, <2>12 DEF Inv, Held
<1>. QED BY <1>1, <1>2

LEMMA CorrectByHandKeeps ==
  ASSUME Inv, CorrectByHand
  PROVE  Inv'
<1>1. PICK id \in Stored, value \in Values \cup {NoValue}, status \in HandStatuses \cup {NoStatus} :
        Correct(id, value, status)
  BY DEF CorrectByHand
<1>2. id \in Ids /\ status \in Statuses \cup {NoStatus}
  BY FactsAssumption DEF Stored
<1>. QED BY <1>1, <1>2, CorrectKeeps DEF CorrectByHand

\* The facts that a merge absorbs were active.
LEMMA MergeKeeps ==
  ASSUME Inv, Merge
  PROVE  Inv'
<1>1. PICK survivors \in SUBSET Active :
        facts' = [id \in Ids |-> IF id \in Active \ survivors
                                 THEN [facts[id] EXCEPT !.status = "superseded"]
                                 ELSE facts[id]]
  BY DEF Merge
<1>2. ASSUME NEW id \in Ids
      PROVE  Written(id) /\ facts'[id] \in Facts \cup {NoFact}
  <2>1. CASE id \in Active \ survivors
    <3>1. facts'[id] = [facts[id] EXCEPT !.status = "superseded"]
      BY <1>1, <2>1
    <3>2. id \in Stored /\ Harmless(id, facts[id])
      BY <2>1, ActiveIsHarmless
    <3>3. facts'[id] \in Facts
      BY <3>1, <3>2 DEF Harmless, Facts, Statuses
    <3>. QED BY <3>1, <3>2, <3>3 DEF Written
  <2>2. CASE id \notin Active \ survivors
    BY <1>1, <2>2 DEF Written, Inv, FactsTypeOK
  <2>. QED BY <2>1, <2>2
<1>3. facts' \in [Ids -> Facts \cup {NoFact}]
  BY <1>1, <1>2
<1>. QED BY <1>2, <1>3, SameTasks DEF Merge

LEMMA ForgetKeeps ==
  ASSUME Inv, ForgetTasks, UNCHANGED <<facts, word>>
  PROVE  Inv'
<1>1. /\ task' \in [Tasks -> Task]
      /\ \A t \in Tasks : task'[t].pc = "idle" /\ DOMAIN task'[t].asked = {}
  BY IdleForm DEF ForgetTasks
<1>2. FactsTypeOK' /\ AtWork' /\ Held'
  BY <1>1 DEF Inv, FactsTypeOK, AtWork, Held
<1>. QED BY <1>2 DEF Inv, Spoken, HandStands, OnlyTheHandAdmits, Active, Stored

-----------------------------------------------------------------------------
(* The theorem *)

LEMMA InitInv == Init => Inv
<1>. SUFFICES ASSUME Init PROVE Inv
  OBVIOUS
<1>1. /\ facts = [id \in Ids |-> IF id <= Len(Known) THEN Row(Known[id], "active") ELSE NoFact]
      /\ task = [t \in Tasks |-> Idle] /\ word = [id \in Ids |-> NoWord]
  BY DEF Init, FactsInit
<1>2. ASSUME NEW id \in Ids, id <= Len(Known)
      PROVE  /\ Row(Known[id], "active") \in Facts
             /\ Row(Known[id], "active").triple \in Vocabulary
  <2>1. Known[id] \in [triple: Vocabulary, value: Values]
    <3>. DEFINE S == [triple: Vocabulary, value: Values]
    <3>1. Known \in Seq(S) /\ id \in 1..Len(Known)
      BY <1>2, FactsAssumption DEF Ids
    <3>. HIDE DEF S
    <3>2. Known[id] \in S
      BY <3>1
    <3>. QED BY <3>2 DEF S
  <2>. QED BY <2>1, FactsAssumption DEF Row, Facts, Statuses
<1>3. FactsTypeOK
  BY <1>1, <1>2, IdleForm DEF FactsTypeOK
<1>4. AtWork /\ Held
  BY <1>1, IdleForm DEF AtWork, Held
<1>5. OnlyTheHandAdmits
  BY <1>1, <1>2 DEF OnlyTheHandAdmits, Active, Stored
<1>. QED BY <1>1, <1>3, <1>4, <1>5 DEF Inv, Spoken, HandStands

LEMMA NextKeeps == Inv /\ [Next]_vars => Inv'
<1>. SUFFICES ASSUME Inv, [Next]_vars PROVE Inv'
  OBVIOUS
<1>1. ASSUME UNCHANGED factsVars PROVE Inv'
  BY <1>1, NothingWritten, SameTasks DEF factsVars
<1>2. ASSUME NEW l \in Lines, Type(l) PROVE Inv'
  BY <1>1, <1>2 DEF Type
<1>3. ASSUME NEW p \in Tasks, Execute(p) PROVE Inv'
  <2>1. PICK l \in Lines :
          \/ Correct(LineOf[l].id, LineOf[l].value, LineOf[l].status) /\ UNCHANGED task
          \/ StartIngest(p)
    BY <1>3 DEF Execute
  <2>2. /\ LineOf[l].id \in Ids /\ LineOf[l].value \in Values \cup {NoValue}
        /\ LineOf[l].status \in Statuses \cup {NoStatus}
    BY InboxAssumption DEF Statuses
  <2>. QED BY <1>3, <2>1, <2>2, CorrectKeeps, StartIngestKeeps
<1>4. ASSUME NEW p \in Tasks,
             Begin(p) \/ Resume(p) \/ Rewrite(p) \/ Abandon(p) \/ Tears(p)
      PROVE  Inv'
  BY <1>1, <1>4 DEF Begin, Resume, Rewrite, Abandon, Tears
<1>5. ASSUME NEW t \in Tasks, Ingest(t) PROVE Inv'
  BY <1>5, StartIngestKeeps, ExtractedKeeps, VerdictKeeps, HalfSupersedesKeeps,
     ReconcileKeeps, RaisesKeeps DEF Ingest, OtherIngest
<1>6. CASE Others
  BY <1>6, CorrectByHandKeeps, MergeKeeps DEF Others
<1>7. CASE Restart
  BY <1>7, ForgetKeeps DEF Restart
<1>8. CASE UNCHANGED vars
  BY <1>1, <1>8 DEF vars
<1>. QED BY <1>2, <1>3, <1>4, <1>5, <1>6, <1>7, <1>8 DEF Next

LEMMA Invariance == Spec => []Inv
<1>1. Init => Inv
  BY InitInv
<1>2. Inv /\ [Next]_vars => Inv'
  BY NextKeeps
<1>. QED BY <1>1, <1>2, PTL DEF Spec

\* The last word of the user on a fact stands unless an arbiter was looking at
\* the old row when he spoke (_confirm and _supersede write the row they read).
THEOREM LastWordStands == Spec => []HandStands
<1>1. Inv => HandStands
  BY DEF Inv
<1>. QED BY <1>1, Invariance, PTL

\* A fact out of the vocabulary is active only by the hand of the user (_reconcile).
THEOREM VocabularyGuardsTheMemory == Spec => []OnlyTheHandAdmits
<1>1. Inv => OnlyTheHandAdmits
  BY DEF Inv
<1>. QED BY <1>1, Invariance, PTL

-----------------------------------------------------------------------------
(* The sequences of lines.  Only is defined by recursion, and the library's *)
(* induction takes an operator: induction is here over a set of numbers.    *)

\* What holds of 0, and of the next number whenever it holds of one, holds of all: the first
\* exceptions would each have one before it.
LEMMA BySteps ==
  ASSUME NEW S, 0 \in S, \A n \in Nat : n \in S => n + 1 \in S
  PROVE  Nat \subseteq S
  <1> SUFFICES ASSUME NEW n \in Nat, n \notin S PROVE FALSE
    OBVIOUS
  <1> DEFINE F == {m \in 0..n : m \notin S}
             g == [m \in F |-> m - 1]
  <1>1. IsFiniteSet(F)
    <2>1. IsFiniteSet(0..n)
      BY FS_Interval
    <2>2. F \in SUBSET (0..n)
      OBVIOUS
    <2> QED
      BY <2>1, <2>2, FS_Subset
  <1>2. ASSUME NEW m \in F PROVE m - 1 \in F
    <2>1. m \in Nat /\ m # 0 /\ m <= n
      OBVIOUS
    <2>2. m - 1 \in Nat /\ (m - 1) + 1 = m
      BY <2>1
    <2> QED
      BY <2>1, <2>2
  <1>3. g \in Injection(F, F)
    <2>1. g \in [F -> F]
      BY <1>2
    <2>2. \A a, b \in F : g[a] = g[b] => a = b
      OBVIOUS
    <2> QED
      BY <2>1, <2>2 DEF Injection, IsInjective
  <1>4. g \in Surjection(F, F)
    BY <1>1, <1>3, FS_Injection
  <1>5. n \in F
    OBVIOUS
  <1>6. PICK m \in F : g[m] = n
    <2> HIDE DEF F, g
    <2> QED
      BY <1>4, <1>5 DEF Surjection
  <1>7. g[m] = m - 1 /\ m \in 0..n
    BY <1>6
  <1> QED
    BY <1>6, <1>7

\* Adding to the end, taking from the front, putting together.
LEMMA Items ==
  ASSUME NEW S, NEW s \in Seq(S)
  PROVE  /\ ToSet(s) = {s[k] : k \in 1..Len(s)} /\ ToSet(s) \subseteq S
         /\ \A x \in S : Append(s, x) \in Seq(S) /\ ToSet(Append(s, x)) = ToSet(s) \cup {x}
         /\ s # <<>> => /\ Head(s) \in S /\ Tail(s) \in Seq(S)
                        /\ ToSet(s) = {Head(s)} \cup ToSet(Tail(s))
<1>1. DOMAIN s = 1..Len(s) /\ Len(s) \in Nat /\ \A k \in 1..Len(s) : s[k] \in S
  BY LenProperties, ElementOfSeq
<1>2. ASSUME NEW x \in S
      PROVE  Append(s, x) \in Seq(S) /\ ToSet(Append(s, x)) = ToSet(s) \cup {x}
  <2>1. Append(s, x) \in Seq(S) /\ Len(Append(s, x)) = Len(s) + 1
    BY AppendProperties
  <2>2. ASSUME NEW k \in 1..Len(s) PROVE Append(s, x)[k] = s[k]
    BY AppendProperties
  <2>3. Append(s, x)[Len(s) + 1] = x
    BY AppendProperties
  <2>4. DOMAIN Append(s, x) = 1..(Len(s) + 1)
    BY <2>1, LenProperties
  <2>5. 1..(Len(s) + 1) = 1..Len(s) \cup {Len(s) + 1}
    BY <1>1
  <2>. QED BY <1>1, <2>1, <2>2, <2>3, <2>4, <2>5 DEF ToSet
<1>3. ASSUME s # <<>>
      PROVE  /\ Head(s) \in S /\ Tail(s) \in Seq(S)
             /\ ToSet(s) = {Head(s)} \cup ToSet(Tail(s))
  <2>1. /\ Head(s) \in S /\ Tail(s) \in Seq(S) /\ Len(Tail(s)) = Len(s) - 1
        /\ \A i \in 1..Len(Tail(s)) : Tail(s)[i] = s[i + 1]
    BY <1>3, HeadTailProperties
  <2>2. Head(s) = s[1]
    BY DEF Head
  <2>3. DOMAIN Tail(s) = 1..(Len(s) - 1) /\ Len(s) >= 1
    BY <1>1, <1>3, <2>1, LenProperties, EmptySeq
  <2>4. ASSUME NEW i \in 1..(Len(s) - 1) PROVE Tail(s)[i] = s[i + 1] /\ i + 1 \in 1..Len(s)
    BY <1>1, <2>1
  <2>5. ASSUME NEW k \in 1..Len(s), k # 1 PROVE k - 1 \in 1..(Len(s) - 1) /\ (k - 1) + 1 = k
    BY <1>1, <2>5
  <2>6. ToSet(s) \subseteq {Head(s)} \cup ToSet(Tail(s))
    <3>1. ASSUME NEW k \in 1..Len(s), k # 1 PROVE s[k] \in ToSet(Tail(s))
      <4>1. Tail(s)[k - 1] = s[k] /\ k - 1 \in DOMAIN Tail(s)
        BY <2>3, <2>4, <2>5, <3>1
      <4>. QED BY <4>1 DEF ToSet
    <3>. QED BY <1>1, <2>2, <3>1 DEF ToSet
  <2>7. 1 \in 1..Len(s)
    BY <1>1, <2>3
  <2>8. {Head(s)} \cup ToSet(Tail(s)) \subseteq ToSet(s)
    BY <1>1, <2>2, <2>3, <2>4, <2>7 DEF ToSet
  <2>. QED BY <2>1, <2>6, <2>8
<1>. QED BY <1>1, <1>2, <1>3 DEF ToSet

LEMMA Together ==
  ASSUME NEW S, NEW s \in Seq(S), NEW t \in Seq(S)
  PROVE  s \o t \in Seq(S) /\ ToSet(s \o t) = ToSet(s) \cup ToSet(t)
<1>1. /\ DOMAIN s = 1..Len(s) /\ DOMAIN t = 1..Len(t) /\ Len(s) \in Nat /\ Len(t) \in Nat
  BY LenProperties
<1>2. /\ s \o t \in Seq(S) /\ Len(s \o t) = Len(s) + Len(t)
      /\ \A i \in 1..(Len(s) + Len(t)) :
           (s \o t)[i] = IF i <= Len(s) THEN s[i] ELSE t[i - Len(s)]
  BY ConcatProperties
<1>3. DOMAIN (s \o t) = 1..(Len(s) + Len(t))
  BY <1>2, LenProperties
<1>4. ASSUME NEW i \in 1..(Len(s) + Len(t))
      PROVE  (s \o t)[i] \in ToSet(s) \cup ToSet(t)
  <2>1. CASE i <= Len(s)
    <3>1. i \in 1..Len(s) /\ (s \o t)[i] = s[i]
      BY <1>1, <1>2, <2>1
    <3>. QED BY <1>1, <3>1 DEF ToSet
  <2>2. CASE ~(i <= Len(s))
    <3>1. i - Len(s) \in 1..Len(t) /\ (s \o t)[i] = t[i - Len(s)]
      BY <1>1, <1>2, <2>2
    <3>. QED BY <1>1, <3>1 DEF ToSet
  <2>. QED BY <2>1, <2>2
<1>5. ASSUME NEW i \in 1..Len(s) PROVE s[i] \in ToSet(s \o t)
  <2>1. i \in 1..(Len(s) + Len(t)) /\ (s \o t)[i] = s[i]
    BY <1>1, <1>2
  <2>. QED BY <1>3, <2>1 DEF ToSet
<1>6. ASSUME NEW i \in 1..Len(t) PROVE t[i] \in ToSet(s \o t)
  <2>1. Len(s) + i \in 1..(Len(s) + Len(t)) /\ (s \o t)[Len(s) + i] = t[i]
    <3>1. Len(s) + i \in 1..(Len(s) + Len(t)) /\ ~(Len(s) + i <= Len(s)) /\ (Len(s) + i) - Len(s) = i
      BY <1>1
    <3>. QED BY <1>2, <3>1
  <2>. QED BY <1>3, <2>1 DEF ToSet
<1>7. ToSet(s \o t) \subseteq ToSet(s) \cup ToSet(t)
  BY <1>3, <1>4 DEF ToSet
<1>8. ToSet(s) \cup ToSet(t) \subseteq ToSet(s \o t)
  BY <1>1, <1>5, <1>6 DEF ToSet
<1>. QED BY <1>2, <1>7, <1>8

\* g picks the elements of s that are in the set and that no fence hides, from the front.
Picks(s, set, g) ==
  g = [n \in 0..Len(s) |->
         IF n = 0 THEN <<>>
         ELSE IF s[n] \in set /\ Shows(s, n) THEN Append(g[n - 1], s[n]) ELSE g[n - 1]]

LEMMA PicksExists ==
  ASSUME NEW S, NEW s \in Seq(S), NEW set
  PROVE  \E g : Picks(s, set, g)
<1>. DEFINE Part(n) == \E g : g = [k \in 0..n |->
                         IF k = 0 THEN <<>>
                         ELSE IF s[k] \in set /\ Shows(s, k) THEN Append(g[k - 1], s[k]) ELSE g[k - 1]]
            N == {n \in Nat : Part(n)}
<1>1. 0 \in N
  <2>. DEFINE g == [k \in 0..0 |-> <<>>]
  <2>1. g = [k \in 0..0 |-> IF k = 0 THEN <<>>
                            ELSE IF s[k] \in set /\ Shows(s, k) THEN Append(g[k - 1], s[k]) ELSE g[k - 1]]
    OBVIOUS
  <2>. QED BY <2>1
<1>2. ASSUME NEW n \in Nat, Part(n) PROVE Part(n + 1)
  <2>1. PICK f : f = [k \in 0..n |->
                        IF k = 0 THEN <<>>
                        ELSE IF s[k] \in set /\ Shows(s, k) THEN Append(f[k - 1], s[k]) ELSE f[k - 1]]
    BY <1>2
  <2>. DEFINE last == IF s[n + 1] \in set /\ Shows(s, n + 1) THEN Append(f[n], s[n + 1]) ELSE f[n]
              g == [k \in 0..n + 1 |-> IF k = n + 1 THEN last ELSE f[k]]
  <2>2. ASSUME NEW k \in 0..n + 1
        PROVE  g[k] = IF k = 0 THEN <<>>
                      ELSE IF s[k] \in set /\ Shows(s, k) THEN Append(g[k - 1], s[k]) ELSE g[k - 1]
    <3>1. CASE k = n + 1
      <4>1. k # 0 /\ k - 1 \in 0..n + 1 /\ k - 1 # n + 1 /\ k - 1 = n
        BY <3>1
      <4>. QED BY <3>1, <4>1
    <3>2. CASE k = 0
      <4>1. k # n + 1 /\ k \in 0..n
        BY <3>2
      <4>2. f[k] = <<>>
        BY <2>1, <3>2, <4>1
      <4>. QED BY <3>2, <4>1, <4>2
    <3>3. CASE k # 0 /\ k # n + 1
      <4>1. k \in 0..n /\ k - 1 \in 0..n + 1 /\ k - 1 # n + 1
        BY <3>3
      <4>2. f[k] = IF s[k] \in set /\ Shows(s, k) THEN Append(f[k - 1], s[k]) ELSE f[k - 1]
        BY <2>1, <3>3, <4>1
      <4>3. g[k] = f[k] /\ g[k - 1] = f[k - 1]
        BY <3>3, <4>1
      <4>. QED BY <3>3, <4>2, <4>3
    <3>. QED BY <3>1, <3>2, <3>3
  <2>. HIDE DEF last
  <2>3. g = [k \in 0..n + 1 |-> IF k = 0 THEN <<>>
                 ELSE IF s[k] \in set /\ Shows(s, k) THEN Append(g[k - 1], s[k]) ELSE g[k - 1]]
    BY <2>2
  <2>. QED BY <2>3
<1>3. Nat \subseteq N
  <2>1. ASSUME NEW n \in Nat, n \in N PROVE n + 1 \in N
    <3>. HIDE DEF Part
    <3>1. Part(n + 1)
      BY <1>2, <2>1
    <3>. QED BY <3>1
  <2>. HIDE DEF N
  <2>. QED BY <1>1, <2>1, BySteps
<1>4. PICK n \in Nat : n = Len(s)
  BY LenProperties
<1>5. Part(n)
  <2>. HIDE DEF Part
  <2>. QED BY <1>3
<1>. QED BY <1>4, <1>5 DEF Picks

\* Only keeps of the lines those of the set that are shown, and no other.
LEMMA OnlyIs ==
  ASSUME NEW S, NEW s \in Seq(S), NEW set
  PROVE  Only(s, set) \in Seq(S) /\ ToSet(Only(s, set)) = Shown(s) \cap set
<1>. DEFINE g == CHOOSE f : Picks(s, set, f)
            Seen(n) == {x \in set : \E k \in 1..n : Shows(s, k) /\ x = s[k]}
            N == {n \in Nat : n <= Len(s) =>
                    g[n] \in Seq(S) /\ ToSet(g[n]) = Seen(n)}
<1>1. Picks(s, set, g)
  BY PicksExists
<1>2. Only(s, set) = g[Len(s)]
  BY DEF Only, Picks
<1>. HIDE DEF g
<1>3. Len(s) \in Nat /\ \A k \in 1..Len(s) : s[k] \in S
  BY LenProperties, ElementOfSeq
<1>4. \A n \in 0..Len(s) :
        g[n] = IF n = 0 THEN <<>>
               ELSE IF s[n] \in set /\ Shows(s, n) THEN Append(g[n - 1], s[n]) ELSE g[n - 1]
  BY <1>1 DEF Picks
<1>5. 0 \in N
  <2>1. g[0] = <<>>
    BY <1>3, <1>4
  <2>2. <<>> \in Seq(S) /\ ToSet(<<>>) = {}
    BY EmptySeq DEF ToSet
  <2>3. Seen(0) = {}
    OBVIOUS
  <2>. QED BY <2>1, <2>2, <2>3
<1>6. ASSUME NEW n \in Nat, n \in N PROVE n + 1 \in N
  <2>1. CASE n + 1 <= Len(s)
    <3>1. /\ n + 1 \in 1..Len(s) /\ n + 1 \in 0..Len(s) /\ n + 1 # 0 /\ (n + 1) - 1 = n
          /\ n <= Len(s)
      BY <1>3, <2>1
    <3>2. g[n] \in Seq(S) /\ ToSet(g[n]) = Seen(n)
      BY <1>6, <3>1
    <3>3. g[n + 1] = IF s[n + 1] \in set /\ Shows(s, n + 1) THEN Append(g[n], s[n + 1]) ELSE g[n]
      BY <1>4, <3>1
    <3>4. Seen(n + 1) = Seen(n) \cup {x \in set : Shows(s, n + 1) /\ x = s[n + 1]}
      <4>1. 1..n + 1 = 1..n \cup {n + 1}
        OBVIOUS
      <4>. QED BY <4>1
    <3>5. s[n + 1] \in S
      BY <1>3, <3>1
    <3>6. CASE s[n + 1] \in set /\ Shows(s, n + 1)
      <4>1. g[n + 1] \in Seq(S) /\ ToSet(g[n + 1]) = ToSet(g[n]) \cup {s[n + 1]}
        BY <3>2, <3>3, <3>5, <3>6, Items
      <4>. QED BY <3>2, <3>4, <3>6, <4>1
    <3>7. CASE ~(s[n + 1] \in set /\ Shows(s, n + 1))
      BY <3>2, <3>3, <3>4, <3>7
    <3>. QED BY <3>6, <3>7
  <2>. QED BY <1>3, <2>1
<1>7. Nat \subseteq N
  <2>. HIDE DEF N
  <2>. QED BY <1>5, <1>6, BySteps
<1>8. PICK n \in Nat : n = Len(s)
  BY <1>3
<1>9. g[n] \in Seq(S) /\ ToSet(g[n]) = Seen(n)
  <2>1. n \in N
    <3>. HIDE DEF N
    <3>. QED BY <1>7
  <2>2. n <= Len(s)
    BY <1>8
  <2>. QED BY <2>1, <2>2
<1>10. Seen(n) = Shown(s) \cap set
  BY <1>8 DEF Shown
<1>. QED BY <1>2, <1>8, <1>9, <1>10

-----------------------------------------------------------------------------
(* The box *)

BoxTyped ==
  /\ box \in [orders: Seq(Lines), reported: BOOLEAN, stray: SUBSET Lines, refused: Seq(Lines)]
  /\ pass \in [Tasks -> Pass]
  /\ mishaps \in 0..MaxMishaps
  /\ typed \subseteq Lines /\ exposed \subseteq typed
  /\ executed \subseteq typed /\ settled \subseteq executed

\* What a pass has in hand: what it read and has not executed.
InHand(p) == ToSet(pass[p].todo) \cup ToSet(pass[p].unclear) \cup ToSet(pass[p].kept)

\* A pass has read whatever is not exposed: it will write it anew, or has executed it.
HasIt(p) == Out(p) => typed \ exposed \subseteq InHand(p) \cup executed

\* A pass does what was typed, and reports what it did.
Honest(p) == InHand(p) \subseteq typed /\ ToSet(pass[p].reports) \subseteq executed

\* Nothing at the top of the file was ever executed and reported.
OrdersAreNew == ToSet(box.orders) \subseteq typed \ settled
FileWasTyped == box.stray \cup ToSet(box.refused) \subseteq typed

BoxInv ==
  /\ BoxTyped /\ OrdersAreNew /\ FileWasTyped /\ LostOnlyIfExposed
  /\ \A p \in Tasks : HasIt(p) /\ Honest(p)

LEMMA NoPassForm ==
  /\ NoPass \in Pass /\ NoPass.pc = "idle" /\ ToSet(NoPass.reports) = {}
  /\ ToSet(NoPass.todo) = {} /\ ToSet(NoPass.unclear) = {} /\ ToSet(NoPass.kept) = {}
<1>1. <<>> \in Seq(Lines) /\ ToSet(<<>>) = {}
  BY EmptySeq DEF ToSet
<1>. QED BY <1>1 DEF NoPass, Pass

LEMMA BoxStart == Init => BoxInv
<1>. SUFFICES ASSUME Init PROVE BoxInv
  OBVIOUS
<1>1. <<>> \in Seq(Lines) /\ ToSet(<<>>) = {}
  BY EmptySeq DEF ToSet
<1>2. /\ box = [orders |-> <<>>, reported |-> FALSE, stray |-> {}, refused |-> <<>>]
      /\ pass = [p \in Tasks |-> NoPass] /\ mishaps = 0
      /\ typed = {} /\ exposed = {} /\ executed = {} /\ settled = {}
  BY DEF Init
<1>3. BoxTyped
  BY <1>1, <1>2, NoPassForm, InboxAssumption DEF BoxTyped
<1>4. \A p \in Tasks : HasIt(p) /\ Honest(p)
  BY <1>2, NoPassForm DEF HasIt, Honest, Out, InHand
<1>5. OrdersAreNew /\ FileWasTyped /\ LostOnlyIfExposed
  BY <1>1, <1>2 DEF OrdersAreNew, FileWasTyped, LostOnlyIfExposed
<1>. QED BY <1>3, <1>4, <1>5 DEF BoxInv

LEMMA TypeKeepsBox ==
  ASSUME BoxInv, NEW l \in Lines, Type(l)
  PROVE  BoxInv'
<1>1. /\ l \notin typed /\ typed' = typed \cup {l} /\ UNCHANGED <<pass, mishaps, executed, settled>>
  BY DEF Type
<1>2. /\ box.orders \in Seq(Lines) /\ box.refused \in Seq(Lines) /\ box.stray \subseteq Lines
      /\ box.reported \in BOOLEAN /\ DOMAIN box = {"orders", "reported", "stray", "refused"}
  BY DEF BoxInv, BoxTyped
<1>3. /\ Append(box.orders, l) \in Seq(Lines) /\ Append(box.refused, l) \in Seq(Lines)
      /\ ToSet(Append(box.orders, l)) = ToSet(box.orders) \cup {l}
      /\ ToSet(Append(box.refused, l)) = ToSet(box.refused) \cup {l}
  BY <1>2, Items
<1>4. \/ /\ box'.orders = Append(box.orders, l) /\ UNCHANGED <<box.refused, box.stray>>
      \/ /\ box'.refused = Append(box.refused, l) /\ UNCHANGED <<box.orders, box.stray>>
      \/ /\ box'.stray = box.stray \cup {l} /\ UNCHANGED <<box.orders, box.refused>>
  BY <1>2 DEF Type, BoxInv, BoxTyped
<1>5. box' \in [orders: Seq(Lines), reported: BOOLEAN, stray: SUBSET Lines, refused: Seq(Lines)]
  <2>1. \/ box' = [box EXCEPT !.orders = Append(box.orders, l)]
        \/ box' = [box EXCEPT !.refused = Append(box.refused, l)]
        \/ box' = [box EXCEPT !.stray = box.stray \cup {l}]
    BY DEF Type
  <2>2. CASE box' = [box EXCEPT !.orders = Append(box.orders, l)]
    BY <1>3, <2>2 DEF BoxInv, BoxTyped
  <2>3. CASE box' = [box EXCEPT !.refused = Append(box.refused, l)]
    BY <1>3, <2>3 DEF BoxInv, BoxTyped
  <2>4. CASE box' = [box EXCEPT !.stray = box.stray \cup {l}]
    BY <1>2, <2>4 DEF BoxInv, BoxTyped
  <2>. QED BY <2>1, <2>2, <2>3, <2>4
<1>6. /\ exposed \subseteq exposed' /\ exposed' \subseteq exposed \cup {l}
      /\ (\E p \in Tasks : Out(p)) => l \in exposed'
  BY DEF Type
<1>7. BoxTyped'
  BY <1>1, <1>5, <1>6 DEF BoxInv, BoxTyped
<1>8. OrdersAreNew'
  BY <1>1, <1>3, <1>4 DEF BoxInv, BoxTyped, OrdersAreNew
<1>9. FileWasTyped'
  BY <1>1, <1>3, <1>4 DEF BoxInv, FileWasTyped
<1>10. /\ InFile(l)'
       /\ \A k \in Lines : InFile(k) => InFile(k)'
  BY <1>3, <1>4 DEF InFile
<1>11. LostOnlyIfExposed'
  <2>1. ASSUME NEW k \in typed' \ exposed' PROVE InFile(k)' \/ k \in executed'
    <3>1. CASE k = l
      BY <1>10, <3>1
    <3>2. CASE k # l
      BY <1>1, <1>6, <1>10, <2>1, <3>2 DEF BoxInv, BoxTyped, LostOnlyIfExposed
    <3>. QED BY <3>1, <3>2
  <2>. QED BY <2>1 DEF LostOnlyIfExposed
<1>12. ASSUME NEW p \in Tasks PROVE (HasIt(p) /\ Honest(p))'
  BY <1>1, <1>6 DEF BoxInv, HasIt, Honest, Out, InHand
<1>. QED BY <1>7, <1>8, <1>9, <1>11, <1>12 DEF BoxInv

\* Passes are changed one at a time; a step that leaves the file and the user alone keeps the
\* rest if the pass keeps what it has.
LEMMA OnePassMoves ==
  ASSUME BoxInv, UNCHANGED <<box, typed, settled>>, executed \subseteq executed',
         executed' \subseteq typed, mishaps' \in 0..MaxMishaps,
         exposed \subseteq exposed', exposed' \subseteq typed,
         NEW p \in Tasks, NEW m \in Pass, pass' = [pass EXCEPT ![p] = m],
         m.pc # "idle" => typed \ exposed' \subseteq
           ToSet(m.todo) \cup ToSet(m.unclear) \cup ToSet(m.kept) \cup executed',
         ToSet(m.todo) \subseteq typed, ToSet(m.reports) \subseteq executed',
         ToSet(m.unclear) \cup ToSet(m.kept) \subseteq typed
  PROVE  BoxInv'
<1>1. pass'[p] = m /\ \A q \in Tasks : q # p => pass'[q] = pass[q]
  BY DEF BoxInv, BoxTyped
<1>2. BoxTyped'
  BY DEF BoxInv, BoxTyped
<1>3. OrdersAreNew' /\ FileWasTyped' /\ LostOnlyIfExposed'
  BY DEF BoxInv, OrdersAreNew, FileWasTyped, LostOnlyIfExposed, InFile
<1>4. ASSUME NEW q \in Tasks PROVE (HasIt(q) /\ Honest(q))'
  <2>1. CASE q = p
    BY <1>1, <2>1 DEF HasIt, Honest, Out, InHand
  <2>2. CASE q # p
    BY <1>1, <2>2 DEF BoxInv, HasIt, Honest, Out, InHand
  <2>. QED BY <2>1, <2>2
<1>. QED BY <1>2, <1>3, <1>4 DEF BoxInv

\* A pass reads all of the file but what it overlooks, and no order of it was reported before.
LEMMA BeginReads ==
  ASSUME BoxInv, NEW p \in Tasks, Begin(p)
  PROVE  /\ BoxInv'
         /\ ToSet(pass'[p].todo) \cap settled = {}
<1>. DEFINE todo == Understood(box.orders)
            unclear == Only(box.orders, Unclear)
            m == [pc |-> "running", todo |-> todo, unclear |-> unclear,
                  kept |-> Kept, reports |-> <<>>]
<1>1. /\ pass' = [pass EXCEPT ![p] = m] /\ exposed' = exposed \cup Overlooked
      /\ UNCHANGED <<box, mishaps, typed, executed, settled>>
  BY DEF Begin
<1>2. box.orders \in Seq(Lines) /\ box.refused \in Seq(Lines)
  BY DEF BoxInv, BoxTyped
<1>3. todo \in Seq(Lines) /\ ToSet(todo) = Shown(box.orders) \cap Clear
  BY <1>2, OnlyIs DEF Understood
<1>4. unclear \in Seq(Lines) /\ ToSet(unclear) = Shown(box.orders) \cap Unclear
  BY <1>2, OnlyIs
<1>5. <<>> \in Seq(Lines) /\ ToSet(<<>>) = {}
  BY EmptySeq DEF ToSet
<1>6. /\ Kept \in Seq(Lines)
      /\ ToSet(Kept) = IF Hidden THEN {} ELSE Shown(box.refused) \cap (Lines \ Titles)
  <2>1. /\ Only(box.refused, Lines \ Titles) \in Seq(Lines)
        /\ ToSet(Only(box.refused, Lines \ Titles)) = Shown(box.refused) \cap (Lines \ Titles)
    BY <1>2, OnlyIs
  <2>. QED BY <1>5, <2>1 DEF Kept
<1>. HIDE DEF todo, unclear
<1>7. /\ Shown(box.orders) \subseteq ToSet(box.orders)
      /\ Shown(box.refused) \subseteq ToSet(box.refused)
  BY <1>2, Items DEF Shown
<1>8. m \in Pass /\ m.reports = <<>> /\ pass'[p] = m
  BY <1>1, <1>3, <1>4, <1>5, <1>6 DEF Pass, BoxInv, BoxTyped
<1>9. typed \ exposed' \subseteq ToSet(m.todo) \cup ToSet(m.unclear) \cup ToSet(m.kept) \cup executed'
  <2>1. ASSUME NEW l \in typed \ exposed', l \notin executed
        PROVE  l \in ToSet(todo) \cup ToSet(unclear) \cup ToSet(Kept)
    <3>1. l \in Lines /\ InFile(l) /\ l \notin Overlooked
      BY <1>1, <2>1 DEF BoxInv, BoxTyped, LostOnlyIfExposed
    <3>2. CASE l \in Shown(box.orders) /\ l \in Clear \cup Unclear
      BY <1>3, <1>4, <3>2
    <3>3. CASE l \in Shown(box.refused) /\ l \notin Titles /\ ~Hidden
      BY <1>6, <3>1, <3>3
    <3>. QED BY <3>1, <3>2, <3>3 DEF Overlooked
  <2>. QED BY <1>1, <2>1
<1>10. ToSet(m.todo) \subseteq typed /\ ToSet(m.todo) \cap settled = {}
  BY <1>3, <1>7 DEF BoxInv, OrdersAreNew
<1>11. ToSet(m.unclear) \cup ToSet(m.kept) \subseteq typed
  BY <1>4, <1>6, <1>7 DEF BoxInv, OrdersAreNew, FileWasTyped
<1>12. /\ mishaps' \in 0..MaxMishaps /\ executed \subseteq executed' /\ executed' \subseteq typed
       /\ exposed \subseteq exposed' /\ exposed' \subseteq typed
  <2>1. Overlooked \subseteq typed
    BY DEF Overlooked, InFile, BoxInv, OrdersAreNew, FileWasTyped
  <2>. QED BY <1>1, <2>1 DEF BoxInv, BoxTyped
<1>. HIDE DEF m
<1>13. BoxInv'
  BY <1>1, <1>5, <1>8, <1>9, <1>10, <1>11, <1>12, OnePassMoves
<1>. QED BY <1>8, <1>10, <1>13

\* The line goes from what is to be done to what is done.
LEMMA ExecuteMoves ==
  ASSUME BoxInv, NEW p \in Tasks, Execute(p)
  PROVE  BoxInv'
<1>1. PICK pc \in {"running", "waiting"} : Report(p, pc)
  BY DEF Execute
<1>. DEFINE r == pass[p]
            l == Head(r.todo)
            m == [r EXCEPT !.pc = pc, !.todo = Tail(@), !.reports = Append(@, l)]
<1>2. /\ r.todo # <<>> /\ r.pc = "running" /\ executed' = executed \cup {l}
      /\ UNCHANGED <<box, mishaps, typed, exposed, settled>>
  BY DEF Execute
<1>3. r \in Pass /\ r.todo \in Seq(Lines) /\ r.reports \in Seq(Lines)
  BY DEF BoxInv, BoxTyped, Pass
<1>4. /\ l \in Lines /\ Tail(r.todo) \in Seq(Lines)
      /\ ToSet(r.todo) = {l} \cup ToSet(Tail(r.todo))
  BY <1>2, <1>3, Items
<1>5. /\ Append(r.reports, l) \in Seq(Lines)
      /\ ToSet(Append(r.reports, l)) = ToSet(r.reports) \cup {l}
  BY <1>3, <1>4, Items
<1>6. /\ m \in Pass /\ m.pc = pc /\ m.todo = Tail(r.todo) /\ m.reports = Append(r.reports, l)
      /\ m.unclear = r.unclear /\ m.kept = r.kept
  BY <1>3, <1>4, <1>5 DEF Pass
<1>7. pass' = [pass EXCEPT ![p] = m]
  BY <1>1, <1>3 DEF Report, BoxInv, BoxTyped, Pass
<1>8. /\ ToSet(r.todo) \subseteq typed /\ ToSet(r.reports) \subseteq executed
      /\ ToSet(r.unclear) \cup ToSet(r.kept) \subseteq typed
  BY DEF BoxInv, Honest, InHand
<1>9. typed \ exposed \subseteq ToSet(r.todo) \cup ToSet(r.unclear) \cup ToSet(r.kept) \cup executed
  BY <1>2 DEF BoxInv, HasIt, Out, InHand
<1>. HIDE DEF m, l, r
<1>10. typed \ exposed \subseteq ToSet(m.todo) \cup ToSet(m.unclear) \cup ToSet(m.kept) \cup executed'
  BY <1>2, <1>4, <1>6, <1>9
<1>11. /\ ToSet(m.todo) \subseteq typed /\ ToSet(m.reports) \subseteq executed'
       /\ ToSet(m.unclear) \cup ToSet(m.kept) \subseteq typed
  BY <1>2, <1>4, <1>5, <1>6, <1>8
<1>12. /\ executed \subseteq executed' /\ executed' \subseteq typed /\ mishaps' \in 0..MaxMishaps
       /\ exposed \subseteq exposed' /\ exposed' \subseteq typed
  BY <1>2, <1>4, <1>8 DEF BoxInv, BoxTyped
<1>. QED BY <1>2, <1>6, <1>7, <1>10, <1>11, <1>12, OnePassMoves

\* The ingest of a line is over, or the pass is given up.
LEMMA ResumeMoves ==
  ASSUME BoxInv, NEW p \in Tasks, Resume(p)
  PROVE  BoxInv'
<1>. DEFINE m == [pass[p] EXCEPT !.pc = "running"]
<1>1. /\ pass' = [pass EXCEPT ![p] = m] /\ pass[p].pc = "waiting"
      /\ UNCHANGED <<box, mishaps, typed, exposed, executed, settled>>
  BY DEF Resume, history
<1>2. /\ m \in Pass /\ m.todo = pass[p].todo /\ m.reports = pass[p].reports
      /\ m.unclear = pass[p].unclear /\ m.kept = pass[p].kept
  BY DEF BoxInv, BoxTyped, Pass
<1>3. /\ typed \ exposed \subseteq InHand(p) \cup executed
      /\ InHand(p) \subseteq typed /\ ToSet(pass[p].reports) \subseteq executed
  BY <1>1 DEF BoxInv, HasIt, Honest, Out
<1>4. /\ executed' \subseteq typed /\ executed \subseteq executed' /\ mishaps' \in 0..MaxMishaps
      /\ exposed \subseteq exposed' /\ exposed' \subseteq typed
  BY <1>1 DEF BoxInv, BoxTyped
<1>. HIDE DEF m
<1>. QED BY <1>1, <1>2, <1>3, <1>4, OnePassMoves DEF InHand

LEMMA AbandonMoves ==
  ASSUME BoxInv, NEW p \in Tasks, Abandon(p)
  PROVE  BoxInv'
<1>1. /\ pass' = [pass EXCEPT ![p] = NoPass]
      /\ UNCHANGED <<box, typed, exposed, executed, settled>>
  BY DEF Abandon, history
<1>2. /\ executed' \subseteq typed /\ executed \subseteq executed' /\ mishaps' \in 0..MaxMishaps
      /\ exposed \subseteq exposed' /\ exposed' \subseteq typed
  BY <1>1, InboxAssumption DEF Abandon, BoxInv, BoxTyped
<1>. QED BY <1>1, <1>2, NoPassForm, OnePassMoves

\* The file is written, all of it or its head: what the pass had in hand is in it, or exposed.
LEMMA WritingKeepsBox ==
  ASSUME BoxInv, NEW p \in Tasks, pass[p].pc = "running", pass[p].todo = <<>>,
         pass' = [pass EXCEPT ![p] = NoPass], UNCHANGED <<typed, executed>>,
         mishaps' \in 0..MaxMishaps,
         box' \in {Gabarit(p)} \cup Beginnings(Gabarit(p)),
         exposed' = exposed \cup (ToSet(Gabarit(p).refused) \ ToSet(box'.refused)),
         settled' \in {settled, settled \cup ToSet(pass[p].reports)}
  PROVE  BoxInv'
<1>2. pass[p] \in Pass /\ pass[p].kept \in Seq(Lines) /\ pass[p].unclear \in Seq(Lines)
  BY DEF BoxInv, BoxTyped, Pass
<1>. DEFINE refused == pass[p].kept \o pass[p].unclear
<1>3. /\ refused \in Seq(Lines)
      /\ ToSet(refused) = ToSet(pass[p].kept) \cup ToSet(pass[p].unclear)
  BY <1>2, Together
<1>4. <<>> \in Seq(Lines) /\ ToSet(<<>>) = {}
  BY EmptySeq DEF ToSet
<1>5. /\ Gabarit(p) \in [orders: Seq(Lines), reported: BOOLEAN, stray: SUBSET Lines,
                          refused: Seq(Lines)]
      /\ Gabarit(p).orders = <<>> /\ Gabarit(p).stray = {} /\ Gabarit(p).refused = refused
  BY <1>3, <1>4 DEF Gabarit
<1>. HIDE DEF refused
<1>6. ASSUME NEW n \in 0..Len(refused)
      PROVE  /\ SubSeq(refused, 1, n) \in Seq(Lines)
             /\ ToSet(SubSeq(refused, 1, n)) \subseteq ToSet(refused)
  <2>1. Len(refused) \in Nat /\ DOMAIN refused = 1..Len(refused)
    BY <1>3, LenProperties
  <2>2. \A i \in 1..n : refused[i] \in Lines
    BY <1>3, <2>1, ElementOfSeq
  <2>3. SubSeq(refused, 1, n) = [i \in 1..n |-> refused[i]]
    BY <2>1 DEF SubSeq
  <2>4. SubSeq(refused, 1, n) \in Seq(Lines)
    BY <2>2, <2>3, IsASeq
  <2>. QED BY <2>1, <2>3, <2>4 DEF ToSet
<1>7. /\ box' \in [orders: Seq(Lines), reported: BOOLEAN, stray: SUBSET Lines, refused: Seq(Lines)]
      /\ box'.orders = <<>> /\ box'.stray = {} /\ ToSet(box'.refused) \subseteq ToSet(refused)
  <2>1. CASE box' = Gabarit(p)
    BY <1>5, <2>1
  <2>2. CASE box' = [Gabarit(p) EXCEPT !.reported = FALSE, !.refused = <<>>]
    BY <1>4, <1>5, <2>2
  <2>3. ASSUME NEW n \in 0..Len(refused),
               box' = [Gabarit(p) EXCEPT !.refused = SubSeq(refused, 1, n)]
        PROVE  /\ box' \in [orders: Seq(Lines), reported: BOOLEAN, stray: SUBSET Lines,
                             refused: Seq(Lines)]
               /\ box'.orders = <<>> /\ box'.stray = {}
               /\ ToSet(box'.refused) \subseteq ToSet(refused)
    BY <1>5, <1>6, <2>3
  <2>. QED BY <1>5, <2>1, <2>2, <2>3 DEF Beginnings
<1>8. /\ typed \ exposed \subseteq ToSet(refused) \cup executed
      /\ ToSet(refused) \subseteq typed /\ ToSet(pass[p].reports) \subseteq executed
  BY <1>3, <1>4 DEF BoxInv, HasIt, Honest, Out, InHand
<1>9. exposed' = exposed \cup (ToSet(refused) \ ToSet(box'.refused)) /\ exposed' \subseteq typed
  BY <1>5, <1>8 DEF BoxInv, BoxTyped
<1>10. BoxTyped'
  <2>1. settled' \subseteq executed
    BY <1>8 DEF BoxInv, BoxTyped
  <2>2. pass' \in [Tasks -> Pass]
    BY NoPassForm DEF BoxInv, BoxTyped
  <2>. QED BY <1>7, <1>9, <2>1, <2>2 DEF BoxInv, BoxTyped
<1>11. OrdersAreNew' /\ FileWasTyped' /\ LostOnlyIfExposed'
  BY <1>4, <1>7, <1>8, <1>9 DEF OrdersAreNew, FileWasTyped, LostOnlyIfExposed, InFile
<1>12. ASSUME NEW q \in Tasks PROVE (HasIt(q) /\ Honest(q))'
  <2>1. CASE q = p
    <3>1. pass'[q] = NoPass
      BY <2>1 DEF BoxInv, BoxTyped
    <3>. QED BY <3>1, NoPassForm DEF HasIt, Honest, Out, InHand
  <2>2. CASE q # p
    <3>1. pass'[q] = pass[q]
      BY <2>2 DEF BoxInv, BoxTyped
    <3>. QED BY <1>9, <3>1 DEF BoxInv, HasIt, Honest, Out, InHand
  <2>. QED BY <2>1, <2>2
<1>. QED BY <1>10, <1>11, <1>12 DEF BoxInv

LEMMA RewriteKeepsBox ==
  ASSUME BoxInv, NEW p \in Tasks, Rewrite(p) \/ Tears(p)
  PROVE  BoxInv'
<1>1. CASE Rewrite(p)
  <2>1. mishaps' \in 0..MaxMishaps
    BY <1>1 DEF Rewrite, BoxInv, BoxTyped
  <2>. QED BY <1>1, <2>1, WritingKeepsBox DEF Rewrite
<1>2. CASE Tears(p)
  <2>1. mishaps' \in 0..MaxMishaps
    BY <1>2, InboxAssumption DEF Tears, BoxInv, BoxTyped
  <2>. QED BY <1>2, <2>1, WritingKeepsBox DEF Tears
<1>. QED BY <1>1, <1>2

LEMMA RestartKeepsBox ==
  ASSUME BoxInv, Restart
  PROVE  BoxInv'
<1>1. /\ pass' = [p \in Tasks |-> NoPass] /\ UNCHANGED <<box, typed, exposed, executed, settled>>
  BY DEF Restart, history
<1>2. mishaps' \in 0..MaxMishaps
  BY InboxAssumption DEF Restart, BoxInv, BoxTyped
<1>3. BoxTyped'
  BY <1>1, <1>2, NoPassForm DEF BoxInv, BoxTyped
<1>4. OrdersAreNew' /\ FileWasTyped' /\ LostOnlyIfExposed'
  BY <1>1 DEF BoxInv, OrdersAreNew, FileWasTyped, LostOnlyIfExposed, InFile
<1>5. \A p \in Tasks : (HasIt(p) /\ Honest(p))'
  BY <1>1, NoPassForm DEF HasIt, Honest, Out, InHand
<1>. QED BY <1>3, <1>4, <1>5 DEF BoxInv

LEMMA BoxNextKeeps == BoxInv /\ [Next]_vars => BoxInv'
<1>. SUFFICES ASSUME BoxInv, [Next]_vars PROVE BoxInv'
  OBVIOUS
<1>1. ASSUME UNCHANGED inboxVars PROVE BoxInv'
  BY <1>1 DEF inboxVars, history, BoxInv, BoxTyped, OrdersAreNew, FileWasTyped,
     LostOnlyIfExposed, InFile, HasIt, Honest, Out, InHand
<1>2. ASSUME NEW t \in Tasks, Ingest(t) PROVE BoxInv'
  BY <1>1, <1>2 DEF Ingest
<1>3. CASE Others
  BY <1>1, <1>3 DEF Others
<1>4. CASE UNCHANGED vars
  BY <1>1, <1>4 DEF vars
<1>5. ASSUME NEW p \in Tasks, Begin(p) \/ Execute(p) \/ Resume(p) \/ Rewrite(p) \/ Abandon(p)
               \/ Tears(p)
      PROVE  BoxInv'
  BY <1>5, BeginReads, ExecuteMoves, ResumeMoves, RewriteKeepsBox, AbandonMoves
<1>6. CASE Restart
  BY <1>6, RestartKeepsBox
<1>7. ASSUME NEW l \in Lines, Type(l) PROVE BoxInv'
  BY <1>7, TypeKeepsBox
<1>. QED BY <1>2, <1>3, <1>4, <1>5, <1>6, <1>7 DEF Next

LEMMA BoxInvariance == Spec => []BoxInv
<1>. QED BY BoxStart, BoxNextKeeps, PTL DEF Spec

\* boite_reception.py:21, as far as the code keeps it: for any lines, passes, failures and
\* restarts, only a line that was typed while a pass was out, that a pass overlooked, or that
\* was cut off a file, can vanish without having been executed.
THEOREM NothingSeenIsLost == Spec => []LostOnlyIfExposed
<1>1. BoxInv => LostOnlyIfExposed
  BY DEF BoxInv
<1>. QED BY <1>1, BoxInvariance, PTL

\* However many passes overlap and fail, none that begins reads as an order what another
\* executed and reported.
THEOREM NoOrderTwice == Spec => ReportedIsNotReread
<1>1. BoxInv /\ [Next]_vars =>
        [\A p \in Tasks : ~Out(p) /\ Out(p)' => ToSet(pass'[p].todo) \cap settled = {}]_vars
  <2>. SUFFICES ASSUME BoxInv, Next, NEW p \in Tasks, ~Out(p), Out(p)'
                PROVE  ToSet(pass'[p].todo) \cap settled = {}
    OBVIOUS
  <2>1. pass \in [Tasks -> Pass] /\ pass[p].pc = "idle" /\ pass'[p].pc # "idle"
    BY DEF BoxInv, BoxTyped, Out
  <2>2. CASE Begin(p)
    BY <2>2, BeginReads
  <2>3. ASSUME NEW q \in Tasks, q # p, Begin(q) PROVE FALSE
    BY <2>1, <2>3 DEF Begin
  <2>4. ASSUME NEW q \in Tasks, Execute(q) PROVE FALSE
    BY <2>1, <2>4 DEF Execute, Report
  <2>5. ASSUME NEW q \in Tasks, Resume(q) PROVE FALSE
    BY <2>1, <2>5 DEF Resume
  <2>6. ASSUME NEW q \in Tasks, Rewrite(q) \/ Abandon(q) \/ Tears(q) PROVE FALSE
    BY <2>1, <2>6 DEF Rewrite, Abandon, Tears
  <2>7. ASSUME Restart PROVE FALSE
    BY <2>1, <2>7, NoPassForm DEF Restart
  <2>8. ASSUME UNCHANGED pass PROVE FALSE
    BY <2>1, <2>8
  <2>9. ASSUME (\E l \in Lines : Type(l)) \/ (\E t \in Tasks : Ingest(t)) \/ Others PROVE FALSE
    BY <2>8, <2>9 DEF Type, Ingest, Others, inboxVars
  <2>. QED BY <2>2, <2>3, <2>4, <2>5, <2>6, <2>7, <2>9 DEF Next
<1>. QED BY <1>1, BoxInvariance, PTL DEF Spec, ReportedIsNotReread

\* The file, the passes and what is remembered of them keep their types.
THEOREM TypeCorrect == Spec => []TypeOK
<1>1. Inv /\ BoxInv => TypeOK
  BY DEF Inv, BoxInv, BoxTyped, TypeOK
<1>. QED BY <1>1, Invariance, BoxInvariance, PTL
==============================================================================
