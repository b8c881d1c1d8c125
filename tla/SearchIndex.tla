----------------------------- MODULE SearchIndex -----------------------------
(***************************************************************************)
(* What the memory can find and what it shows.  The facts (a table) and    *)
(* the topics (files) are the truth; the semantic index is a copy of both, *)
(* in memory and in a file of its own, and the mirror a copy of the facts  *)
(* as documents.  The copies are made by tasks that await the lock of the  *)
(* index and the encoding of each text, while the truth goes on changing.  *)
(*   - providers/memory/search.py       VectorIndex                        *)
(*   - providers/memory/fact_index.py   FactIndex                          *)
(*   - providers/memory/auto_dream.py   _run_deep                          *)
(*   - providers/memory/mirror.py       MemoryMirror                       *)
(*   - interfaces/api/memory.py, capabilities/tools/memory.py   the doors  *)
(* Writes to the disk do not fail, and a save is not cut in two by a stop. *)
(***************************************************************************)
EXTENDS Naturals, FiniteSets, Sequences

CONSTANTS
  Facts, Topics,
  Texts, NoText,  \* what a document says; nothing: withdrawn, no such file, not indexed
  Blank,          \* one of the texts: a file with nothing in it
  TextsOf,        \* texts that each document may hold
  DocumentOf,     \* document of the mirror in which each fact is shown (its category)
  Night, Manual,  \* the deep pass, by the scheduler and by the route
  Boot,           \* the first indexing of the facts
  Rebuild,        \* the reindexing of the topics, when the index starts empty
  Doors,          \* requests and tools that write a topic
  Start,          \* what the memory may hold at first
  MaxChanges, MaxRestarts     \* bounds

Docs == Facts \cup Topics
Deeps == {Night, Manual}
Syncs == Deeps \cup {Boot}
Tasks == Syncs \cup {Rebuild} \cup Doors
Contents == [Docs -> Texts \cup {NoText}]

ASSUME SearchIndexAssumption ==
  /\ NoText \notin Texts \cup Facts \cup Topics
  /\ Facts \cap Topics = {}
  /\ Blank \in Texts /\ TextsOf \in [Docs -> SUBSET Texts]
  /\ \A f \in Facts : Blank \notin TextsOf[f]
  /\ Facts \subseteq DOMAIN DocumentOf
  /\ Night # Manual /\ Boot \notin Deeps /\ Rebuild \notin Syncs
  /\ Doors \cap (Syncs \cup {Rebuild}) = {}
  /\ Start \subseteq [Docs -> Texts \cup {NoText}]
  /\ MaxChanges \in Nat /\ MaxRestarts \in Nat

VARIABLES
  truth,     \* active facts and files of the topics
  index,     \* the index in memory
  disk,      \* the index as last saved
  shown,     \* the facts in the documents of the mirror
  queue,     \* the lock: the task that holds it, then those that wait, in order
  task,      \* where each task is
  clean,     \* history: documents each task took alone and that nobody touched since
  settled,   \* history: documents that a task published so, to the end
  changes, restarts

indexVars == <<truth, index, disk, shown, queue, task, clean, settled, changes, restarts>>

Task == [pc: {"idle", "dreaming", "created", "clearing", "adding", "encoding", "saving"},
         doc: Docs \cup {NoText}, text: Texts \cup {NoText},
         todo: SUBSET Docs,    \* documents still to add
         listed: Contents]     \* the facts as they were listed

Nothing == [d \in Docs |-> NoText]
Idle == [pc |-> "idle", doc |-> NoText, text |-> NoText, todo |-> {}, listed |-> Nothing]

IndexTypeOK ==
  /\ truth \in Contents /\ index \in Contents /\ disk \in Contents
  /\ shown \in [Facts -> Texts \cup {NoText}]
  /\ queue \in Seq(Tasks)
  /\ task \in [Tasks -> Task]
  /\ clean \in [Tasks -> SUBSET Docs]
  /\ settled \subseteq Docs
  /\ changes \in 0..MaxChanges /\ restarts \in 0..MaxRestarts

\* app.py: the index is read from its file; empty, it is rebuilt from the topics, and the
\* facts are indexed beside.
Boots(saved) ==
  /\ index' = saved
  /\ queue' = IF saved = Nothing THEN <<Rebuild>> ELSE <<>>
  /\ task' = [t \in Tasks |->
                CASE t = Boot -> [Idle EXCEPT !.pc = "created"]
                  [] t = Rebuild /\ saved = Nothing -> [Idle EXCEPT !.pc = "clearing"]
                  [] OTHER -> Idle]

\* A memory that has lived, and no index yet.
IndexInit ==
  /\ truth \in Start
  /\ index = Nothing /\ disk = Nothing
  /\ shown = [f \in Facts |-> NoText]
  /\ queue = <<Rebuild>>
  /\ task = [t \in Tasks |-> CASE t = Boot -> [Idle EXCEPT !.pc = "created"]
                               [] t = Rebuild -> [Idle EXCEPT !.pc = "clearing"]
                               [] OTHER -> Idle]
  /\ clean = [t \in Tasks |-> {}]
  /\ settled = {}
  /\ changes = 0 /\ restarts = 0

-----------------------------------------------------------------------------
(* The truth changes *)

Active == {f \in Facts : truth[f] # NoText}

\* Task t reads documents ds to publish them: a rival that still carries one, or that
\* took it before, may leave another text in the index.
Carries(u, d) == d = task[u].doc \/ d \in task[u].todo

TakenBy(t, ds) ==
  /\ clean' = [u \in Tasks |->
                 IF u = t THEN clean[u] \cup {d \in ds : \A v \in Tasks \ {t} : ~Carries(v, d)}
                 ELSE clean[u] \ ds]
  /\ settled' = settled \ ds

Touched(ds) ==
  /\ clean' = [u \in Tasks |-> clean[u] \ ds]
  /\ settled' = settled \ ds

\* Slip: a document is added to.
ExportedMore(now) == [f \in Facts |-> IF now[f] # NoText THEN now[f] ELSE shown[f]]

\* export: a document is written anew when some fact goes in it.
Exported(now) ==
  [f \in Facts |->
    IF \E g \in Facts : DocumentOf[g] = DocumentOf[f] /\ now[g] # NoText
    THEN now[f] ELSE shown[f]]

\* A fact is learnt, corrected or withdrawn, by an ingest, the interface or the inbox; the
\* inbox then exports the mirror.
FactChanges(f, x) ==
  /\ x # truth[f]
  /\ truth' = [truth EXCEPT ![f] = x]
  /\ shown' \in {shown, Exported(truth')}
  /\ Touched({f})
  /\ UNCHANGED <<index, disk, queue, task, restarts>>
  /\ changes < MaxChanges /\ changes' = changes + 1

\* A topic is written, or deleted, without a word to the index: consolidation, settings page.
TopicChanges(d, x) ==
  /\ x # truth[d]
  /\ truth' = [truth EXCEPT ![d] = x]
  /\ Touched({d})
  /\ UNCHANGED <<index, disk, shown, queue, task, restarts>>
  /\ changes < MaxChanges /\ changes' = changes + 1

-----------------------------------------------------------------------------
(* The lock of the index *)

Waits(t, pc) == task[t].pc = pc /\ queue # <<>> /\ Head(queue) = t

\* A task that goes on asks for the lock again, behind those that wait.
Requeued == Append(Tail(queue), Head(queue))

\* The text of the next document is the one listed for a fact, the one of the file for a
\* topic; without a text it is passed over; after the last one the index is saved.
TextFor(t, d, listed) ==
  IF t # Rebuild THEN listed[d] ELSE IF truth[d] = Blank THEN NoText ELSE truth[d]

First(ds) == CHOOSE d \in ds : TRUE   \* some fixed order

GoesOn(t, todo, listed) ==
  LET left == {d \in todo : TextFor(t, d, listed) # NoText}
  IN \/ /\ left = {}
        /\ task' = [task EXCEPT ![t] = [Idle EXCEPT !.pc = "saving"]]
     \/ /\ left # {}
        /\ LET d == First(left) IN
          task' = [task EXCEPT ![t] = [pc |-> "adding", doc |-> d, text |-> TextFor(t, d, listed),
                                       todo |-> left \ {d}, listed |-> listed]]

\* Slip: what is withdrawn is not removed first.
ClearedNothing(t) == {}

\* remove_source, the reset of reindex, the removal of one document.
Cleared(t) == CASE t \in Syncs -> Facts
                [] t = Rebuild -> Docs
                [] OTHER -> {task[t].doc}

Clears(t) ==
  /\ Waits(t, "clearing")
  /\ index' = [d \in Docs |-> IF d \in Cleared(t) THEN NoText ELSE index[d]]
  /\ queue' = Requeued
  /\ \/ /\ t \in Syncs
        /\ GoesOn(t, Active, [d \in Docs |-> IF d \in Facts THEN truth[d] ELSE NoText])
        /\ TakenBy(t, Facts)
     \/ /\ t = Rebuild
        /\ GoesOn(t, Topics, Nothing)
        /\ Touched(Facts)
     \/ /\ t \in Doors
        /\ GoesOn(t, {}, Nothing)
        /\ UNCHANGED <<clean, settled>>
  /\ UNCHANGED <<truth, disk, shown, changes, restarts>>

\* add: the old text goes, then the new one is encoded, and the lock is kept meanwhile.
Begins(t) ==
  /\ Waits(t, "adding")
  /\ index' = [index EXCEPT ![task[t].doc] = NoText]
  /\ task' = [task EXCEPT ![t].pc = "encoding"]
  /\ IF t = Rebuild THEN Touched({task[t].doc}) ELSE UNCHANGED <<clean, settled>>
  /\ UNCHANGED <<truth, disk, shown, queue, changes, restarts>>

Ends(t) ==
  /\ Waits(t, "encoding")
  /\ index' = [index EXCEPT ![task[t].doc] = task[t].text]
  /\ GoesOn(t, task[t].todo, task[t].listed)
  /\ queue' = Requeued
  /\ UNCHANGED <<truth, disk, shown, clean, settled, changes, restarts>>

\* The task is over; a deep pass goes on to the mirror.
Over(t) ==
  /\ task' = [task EXCEPT ![t] = Idle]
  /\ queue' = Tail(queue)
  /\ shown' = IF t \in Deeps THEN Exported(truth) ELSE shown

\* The encoding fails: the document stays out.
Fails(t) ==
  /\ Waits(t, "encoding")
  /\ Over(t)
  /\ clean' = [clean EXCEPT ![t] = {}]
  /\ UNCHANGED <<truth, index, disk, settled, changes, restarts>>

Saves(t) ==
  /\ Waits(t, "saving")
  /\ disk' = index
  /\ Over(t)
  /\ settled' = settled \cup clean[t]
  /\ clean' = [clean EXCEPT ![t] = {}]
  /\ UNCHANGED <<truth, index, changes, restarts>>

-----------------------------------------------------------------------------
(* The tasks *)

Dreams(t) ==
  /\ t \in Deeps /\ task[t].pc = "idle"
  /\ task' = [task EXCEPT ![t].pc = "dreaming"]
  /\ UNCHANGED <<truth, index, disk, shown, queue, clean, settled, changes, restarts>>

\* The synthesis of the sessions raises, and the upkeep is given up with it.
DreamFails(t) ==
  /\ task[t].pc = "dreaming"
  /\ task' = [task EXCEPT ![t] = Idle]
  /\ UNCHANGED <<truth, index, disk, shown, queue, clean, settled, changes, restarts>>

Twins(f, g) == truth[f] = truth[g] /\ DocumentOf[f] = DocumentOf[g]

\* The synthesis is over: twins are merged (of each group one fact is kept), then the
\* facts are to be indexed anew.
Wakes(t) ==
  /\ task[t].pc = "dreaming"
  /\ \E kept \in SUBSET Active :
       /\ \A f \in Active : \E g \in kept : Twins(f, g)
       /\ \A f, g \in kept : Twins(f, g) => f = g
       /\ truth' = [d \in Docs |-> IF d \in Active \ kept THEN NoText ELSE truth[d]]
       /\ Touched(Active \ kept)
  /\ task' = [task EXCEPT ![t].pc = "clearing"]
  /\ queue' = Append(queue, t)
  /\ UNCHANGED <<index, disk, shown, changes, restarts>>

\* What is to be done in the index for a topic that now reads x: with a blank text add
\* returns before it removes anything, and the index is saved as it is.
Takes(t, d, x, pc) ==
  IF x = Blank THEN task' = [task EXCEPT ![t] = [Idle EXCEPT !.pc = pc]] /\ Touched({d})
  ELSE /\ task' = [task EXCEPT ![t] = [Idle EXCEPT !.pc = pc, !.doc = d, !.text = x]]
       /\ TakenBy(t, {d})

\* The tool writes a topic and goes on to the index at once.
Writes(t, d, x) ==
  /\ task[t].pc = "idle"
  /\ truth' = [truth EXCEPT ![d] = x]
  /\ Takes(t, d, x, IF x = Blank THEN "saving" ELSE "adding")
  /\ queue' = Append(queue, t)
  /\ UNCHANGED <<index, disk, shown, restarts>>
  /\ changes < MaxChanges /\ changes' = changes + 1

\* The route writes or deletes one that exists, and leaves the index to a task.
Requests(t, d, x) ==
  /\ task[t].pc = "idle" /\ truth[d] # NoText
  /\ truth' = [truth EXCEPT ![d] = x]
  /\ Takes(t, d, x, "created")
  /\ UNCHANGED <<index, disk, shown, queue, restarts>>
  /\ changes < MaxChanges /\ changes' = changes + 1

Starts(t) ==
  /\ task[t].pc = "created"
  /\ task' = [task EXCEPT ![t].pc =
       IF task[t].text # NoText THEN "adding"
       ELSE IF t \in Syncs \/ task[t].doc # NoText THEN "clearing" ELSE "saving"]
  /\ queue' = Append(queue, t)
  /\ UNCHANGED <<truth, index, disk, shown, clean, settled, changes, restarts>>

Restart ==
  /\ restarts < MaxRestarts
  /\ restarts' = restarts + 1
  /\ Boots(disk)
  /\ clean' = [t \in Tasks |-> {}]
  /\ UNCHANGED <<truth, disk, shown, settled, changes>>

IndexSteps(t) ==
  \/ Clears(t) \/ Begins(t) \/ Ends(t) \/ Fails(t) \/ Saves(t)
  \/ Starts(t)

DeepSteps(t) == Dreams(t) \/ DreamFails(t) \/ Wakes(t)

DoorSteps(t) ==
  \E d \in Topics :
    \/ \E x \in TextsOf[d] : Writes(t, d, x)
    \/ \E x \in TextsOf[d] \cup {NoText} : Requests(t, d, x)

IndexNext ==
  \/ \E t \in Tasks : IndexSteps(t)
  \/ \E t \in Deeps : DeepSteps(t)
  \/ \E t \in Doors : DoorSteps(t)
  \/ \E f \in Facts : \E x \in TextsOf[f] \cup {NoText} : FactChanges(f, x)
  \/ \E d \in Topics : \E x \in TextsOf[d] \cup {NoText} : TopicChanges(d, x)
  \/ Restart

IndexSpec == IndexInit /\ [][IndexNext]_indexVars

\* The lock is served in order and an encoding ends; every night comes, and not every one
\* of them fails.
IndexFairness ==
  /\ \A t \in Tasks :
       /\ WF_indexVars(Clears(t) \/ Begins(t) \/ Ends(t) \/ Fails(t) \/ Saves(t))
       /\ WF_indexVars(Starts(t))
  /\ WF_indexVars(Dreams(Night))
  /\ SF_indexVars(Wakes(Night))

-----------------------------------------------------------------------------
(* What the memory owes the user *)

\* Whatever the tasks that share the index, the restarts and the failures around it, a
\* document that one task published to the end, with no rival and no change since, is
\* found as it is, and a withdrawn one is not found (fact_index.py:120-123).  A topic that
\* is blank has not been published: what it said before stays found (search.py:117-119).
SettledIsExact == \A d \in settled : index[d] = truth[d]

Emptied(f) == \A g \in Facts : DocumentOf[g] = DocumentOf[f] => truth[g] = NoText

\* A withdrawn fact leaves the index and the mirror in the end, though passes that listed
\* it before may put it back for a time -- except that its document is never written again
\* while no fact goes in it.
WithdrawnIsForgotten ==
  \A f \in Facts :
    truth[f] = NoText ~>
      truth[f] # NoText \/ (index[f] = NoText /\ (shown[f] = NoText \/ Emptied(f)))

\* mirror.py: « Régénère TOUS les fichiers du miroir depuis l'état SQLite actuel. »
ExportShowsTheBase ==
  [][\A t \in Deeps : Waits(t, "saving") /\ task'[t].pc = "idle" =>
        \A f \in Facts : shown'[f] = truth[f]]_indexVars

\* auto_dream.py:222: « Les deux moitiés sont INDÉPENDANTES. »  A synthesis that fails does
\* not take the upkeep with it.
UpkeepIsIndependent ==
  [][\A t \in Deeps : task[t].pc = "dreaming" /\ restarts' = restarts =>
        task'[t].pc # "idle"]_indexVars
==============================================================================
