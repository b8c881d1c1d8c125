------------------------------- MODULE Proactive -------------------------------
(***************************************************************************)
(* The proactive engine.  Every half hour, or when asked to, a cycle reads   *)
(* what is waiting, pays a model for new initiatives, saves them and tells   *)
(* the user: a notice for the next answer, a question pushed to a channel    *)
(* with the buttons that answer it.  The store may decline what resembles a  *)
(* pending one; at night most pushes are held back.                          *)
(*   - engine/proactive/engine.py               ProactiveEngine              *)
(*   - engine/proactive/initiative_generator.py                              *)
(*   - engine/proactive/store.py                InitiativeStore.save         *)
(*   - interfaces/channels/push.py              PushCanaux                   *)
(*   - interfaces/decision.py                   traiter                      *)
(* What a decision sets off is in Initiatives; here it only settles.         *)
(***************************************************************************)
EXTENDS Spending, FiniteSetsExt

CONSTANTS
  Ids,            \* the initiatives to come
  TitleOf,        \* what each is called
  Alike,          \* the pairs of titles that _similar takes for one
  ModeOf,         \* "auto", "notify" or "validate"
  Urgent,         \* high priority
  Runners,          \* the loop, and the ones that a request starts
  Full,           \* _FILE_PLEINE
  MaxInitiatives  \* of one cycle

ASSUME ProactiveAssumption ==
  /\ ModeOf \in [Ids -> {"auto", "notify", "validate"}] /\ Urgent \subseteq Ids
  /\ {Full, MaxInitiatives} \subseteq Nat /\ 0 < Full
  /\ \A t, u \in {TitleOf[i] : i \in Ids} :
       <<t, t>> \in Alike /\ (<<t, u>> \in Alike => <<u, t>> \in Alike)

VARIABLES
  store,    \* the status of each initiative in the files
  cycle,    \* each task: where it is and what it has still to dispatch
  quiet,    \* heures de silence
  notices,  \* initiatives in the NotificationQueue
  asked     \* questions pushed with their buttons

proactive == <<store, cycle, quiet, notices, asked>>
vars == <<proactive, spendingVars>>

None == [pc |-> "idle", batch |-> <<>>]

TypeOK ==
  /\ SpendingTypeOK
  /\ store \in [Ids -> {"absent", "pending", "settled"}]
  /\ cycle \in [Runners -> [pc : {"idle", "building", "asking", "drafting", "telling"}, batch : Seq(Ids)]]
  /\ quiet \in BOOLEAN /\ notices \subseteq Ids /\ asked \subseteq Ids

Init ==
  /\ SpendingInit
  /\ store = [i \in Ids |-> "absent"] /\ cycle = [t \in Runners |-> None]
  /\ quiet = FALSE /\ notices = {} /\ asked = {}

Pending(s) == {i \in Ids : s[i] = "pending"}

At(t, pc) == cycle[t].pc = pc
Goes(t, pc, batch) == cycle' = [cycle EXCEPT ![t] = [pc |-> pc, batch |-> batch]]

-----------------------------------------------------------------------------
(* A cycle *)

\* One cycle at a time; who comes second leaves.
Free == \A t \in Runners : At(t, "idle")

StartsCycle(t) ==
  /\ At(t, "idle") /\ Free
  /\ Goes(t, "building", <<>>)
  /\ UNCHANGED <<store, quiet, notices, asked, spendingVars>>

\* The context is there and the user has been silent long enough: the queue is looked at,
\* and the model asked.  A context that fails ends the cycle; a history that cannot be read
\* is taken for an empty one.
Looks(t) ==
  /\ At(t, "building")
  /\ \E read \in BOOLEAN :
       LET full == read /\ Cardinality(Pending(store)) >= Full
       IN Goes(t, IF full THEN "idle" ELSE "asking", <<>>) \/ Goes(t, "idle", <<>>)
  /\ UNCHANGED <<store, quiet, notices, asked, spendingVars>>

\* save, one after the other: the store keeps what resembles nothing that is pending.
Declined(s, i) == \E j \in Pending(s) : <<TitleOf[i], TitleOf[j]>> \in Alike
Save(s, i) == IF Declined(s, i) THEN s ELSE [s EXCEPT ![i] = "pending"]
Saved(s, batch) ==
  LET upTo[n \in 0..Len(batch)] == IF n = 0 THEN s ELSE Save(upTo[n - 1], batch[n])
  IN upTo[Len(batch)]

Batches == {b \in SeqOf(Ids, MaxInitiatives) : IsInjective(b)}

\* What has never been dispatched nor is about to be.
New == {i \in Ids : store[i] = "absent" /\ i \notin notices \cup asked
                    /\ \A t \in Runners : i \notin ToSet(cycle[t].batch)}

\* The model answers, and is paid; or fails.
Generates(t) ==
  /\ At(t, "asking")
  /\ \/ \E b \in Batches :
          /\ ToSet(b) \subseteq New
          /\ \E c \in Costs : Track("other", c)
          /\ IF b = <<>> THEN Goes(t, "idle", b) ELSE Goes(t, "drafting", b)
          /\ UNCHANGED unguarded
     \/ Goes(t, "idle", <<>>) /\ UNCHANGED money
  /\ UNCHANGED <<store, quiet, notices, asked, month, adrift, worker>>

\* One more call for each e-mail to be written.
Drafts(t) == At(t, "drafting") /\ Converse /\ UNCHANGED proactive

\* All are saved before any is told; a write that raises ends the cycle, and those saved stay.
Records(t) ==
  LET b == cycle[t].batch IN
  /\ At(t, "drafting")
  /\ \/ store' = Saved(store, b) /\ Goes(t, "telling", b)
     \/ \E n \in 0..Len(b) - 1 : store' = Saved(store, SubSeq(b, 1, n)) /\ Goes(t, "idle", <<>>)
  /\ UNCHANGED <<quiet, notices, asked, spendingVars>>

\* At night only what is urgent and waits for an answer goes out.
HeldBack(i) == quiet /\ ~(ModeOf[i] = "validate" /\ i \in Urgent)

\* One initiative is told, and the next one's turn comes; a channel may fail.
Tells(t) ==
  LET i == Head(cycle[t].batch) IN
  /\ At(t, "telling")
  /\ notices' = IF ModeOf[i] = "notify" THEN notices \cup {i} ELSE notices
  /\ \/ ModeOf[i] = "validate" /\ ~HeldBack(i) /\ asked' = asked \cup {i}
     \/ UNCHANGED asked
  /\ IF Len(cycle[t].batch) = 1 THEN Goes(t, "idle", <<>>)
     ELSE Goes(t, "telling", Tail(cycle[t].batch))
  /\ UNCHANGED <<store, quiet, spendingVars>>

-----------------------------------------------------------------------------
\* A decision, by any door, or the nightly expiry.
Settle(i) ==
  /\ store[i] = "pending" /\ store' = [store EXCEPT ![i] = "settled"]
  /\ UNCHANGED <<cycle, quiet, notices, asked, spendingVars>>

\* An answer is on its way: it takes the notices with it.
Drain ==
  /\ notices # {} /\ notices' = {}
  /\ UNCHANGED <<store, cycle, quiet, asked, spendingVars>>

Dusk == quiet' = ~quiet /\ UNCHANGED <<store, cycle, notices, asked, spendingVars>>

\* The files stay; the cycle, its lock and the notices go.
EngineRestarts ==
  /\ SpendingRestart
  /\ cycle' = [t \in Runners |-> None] /\ notices' = {}
  /\ UNCHANGED <<store, quiet, asked>>

Next ==
  \/ SpendingNext /\ UNCHANGED proactive
  \/ \E t \in Runners : StartsCycle(t) \/ Looks(t) \/ Generates(t) \/ Drafts(t) \/ Records(t) \/ Tells(t)
  \/ \E i \in Ids : Settle(i)
  \/ Drain \/ Dusk \/ EngineRestarts

Spec == Init /\ [][Next]_vars

-----------------------------------------------------------------------------
(* Properties *)

\* The two totals in memory are what the ledger of the month says, but for what waits to be
\* counted, from a start that could read it to the next change of month: a restart forgets
\* nothing and counts nothing twice.
MemoryMatchesLedger ==
  adrift \/ (memo + Sum(owed) = Total(ledger) /\ project = ledger.mission)

\* Whatever the size and the order of the expenses, the ceiling is told as soon as it is
\* passed, even in one jump: no call has been counted above it in silence.
CeilingIsHeard == noted /\ memo >= Monthly => "ceiling" \in ToSet(said)

\* Reservations hold nothing back, so that workers side by side may pass the ceiling of the
\* mission; but by no more than one step of each of them, above what no reservation weighs:
\* the lessons drawn from the mission, and what a start could not read.
OverrunIsBounded ==
  project > unguarded =>
    project - unguarded <= PerProject - Estimate + Cardinality(Workers) * MaxCalls * Max(Costs)

\* engine.py:324-325: a question goes out with the means to answer it, that is, an initiative
\* that the buttons can find.
AskedIsAnswerable == \A i \in asked : store[i] # "absent"

\* What the code does keep of that: a question that the buttons cannot find has the title of
\* one that was recorded, so that the user may still answer that one.
Backed(s, i) ==
  s[i] # "absent" \/ \E j \in Ids : s[j] # "absent" /\ <<TitleOf[i], TitleOf[j]>> \in Alike
AskedIsBacked == \A i \in asked : Backed(store, i)

\* tests/test_budget_alerte_globale.py:76: the ceiling passed in one go does not make two
\* messages.
OneMessagePerCrossing == said # <<"ceiling", "alert">>
==============================================================================
