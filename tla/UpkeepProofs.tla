---------------------------- MODULE UpkeepProofs -----------------------------
(***************************************************************************)
(* For every number of passes over the preferences and of texts typed, and *)
(* of writers of archives and of archives kept: what the user typed is     *)
(* read or kept, no pass that sees the text halves it, and a whole archive *)
(* remains.  For every set of notes: the index of the search shows what    *)
(* the files hold.  For every price, ceiling and number of workers: the    *)
(* accounts agree, and nothing is overspent but by what is said.           *)
(***************************************************************************)
EXTENDS Prefs, Archives, SearchIndex, Proactive, FiniteSetTheorems, SequenceTheorems, TLAPS

(***************************************************************************)
(* The preferences.  The file holds the word of the user until a pass      *)
(* rewrites it (Fresh); without a pass that left before nor a write that   *)
(* failed, every pass has read it (Sighted); the first pass to rewrite     *)
(* leaves it in the copy, if the copy is made (Copied).                    *)
(***************************************************************************)
Fresh == since = 0 => hand \in prefs.knows
Sighted ==
  blind = {} /\ "write" \notin mishaps =>
    /\ hand \in prefs.knows
    /\ \A p \in Passes : pass[p].out => hand \in pass[p].read.knows
Copied == since = 1 /\ "copy" \notin mishaps => hand \in bak

HandInv == hand > 0 => Fresh /\ Sighted /\ Copied
PrefsInv == PrefsTypeOK /\ HandInv

LEMMA InitPrefs == PrefsInit => PrefsInv
  <1> SUFFICES ASSUME PrefsInit PROVE PrefsInv
    OBVIOUS
  <1> USE PrefsAssumption DEF PrefsInit
  <1>1. prefs \in Prose
    BY DEF Prose
  <1>2. pass \in [Passes -> [out: BOOLEAN, read: Prose]]
    BY DEF Nowhere, Prose
  <1> QED
    BY <1>1, <1>2 DEF PrefsInv, PrefsTypeOK, HandInv

\* What a failed write leaves is a text.
LEMMA PartsAreProse == ASSUME NEW text \in Prose PROVE Parts(text) \subseteq Prose
  <1> SUFFICES ASSUME NEW k \in Sizes
               PROVE  [size |-> k, knows |-> {}, whole |-> FALSE] \in Prose
    BY DEF Parts
  <1> QED
    BY DEF Prose

LEMMA StepPrefs == PrefsInv /\ [PrefsNext]_prefsVars => PrefsInv'
  <1> SUFFICES ASSUME PrefsInv, [PrefsNext]_prefsVars PROVE PrefsInv'
    OBVIOUS
  <1> USE PrefsAssumption DEF PrefsInv, PrefsTypeOK, Prose
  <1>1. ASSUME NEW p \in Passes, ReadsPrefs(p) PROVE PrefsInv'
    BY <1>1 DEF ReadsPrefs, HandInv, Fresh, Sighted, Copied
  <1>2. ASSUME NEW p \in Passes, Rewrites(p) PROVE PrefsInv'
    <2> DEFINE Wanted(n) == [size |-> n, knows |-> pass[p].read.knows, whole |-> TRUE]
    <2>1. PICK n \in Sizes \ {0} : Rewritten(Wanted(n))
      BY <1>2 DEF Rewrites
    <2>2. Wanted(n) \in Prose /\ prefs.knows \subseteq 1..MaxHand
      OBVIOUS
    <2>3. PICK fails \in SUBSET {"copy", "write"} :
             /\ bak' \in IF "copy" \in fails THEN {bak, {}} ELSE {prefs.knows}
             /\ prefs' \in IF "write" \in fails THEN {prefs} \cup Parts(Wanted(n)) ELSE {Wanted(n)}
             /\ mishaps' = mishaps \cup fails
      BY <2>1 DEF Rewritten
    <2>4. /\ prefs' \in Prose /\ bak' \subseteq 1..MaxHand /\ mishaps' \subseteq {"copy", "write"}
          /\ "write" \notin mishaps' => prefs' = Wanted(n) /\ "write" \notin mishaps
          /\ "copy" \notin mishaps' => bak' = prefs.knows /\ "copy" \notin mishaps
      <3> HIDE DEF Wanted
      <3>1. Parts(Wanted(n)) \subseteq Prose
        BY <2>2, PartsAreProse
      <3>2. prefs' \in Prose
        BY <2>2, <2>3, <3>1
      <3> QED
        BY <2>2, <2>3, <3>2
    <2>5. /\ pass' = [pass EXCEPT ![p] = Nowhere] /\ hand' = hand /\ blind' = blind
          /\ since' \in 1..2 /\ (since' = 1 => since = 0)
      BY <1>2 DEF Rewrites, OneMore
    <2>6. PrefsTypeOK'
      <3>1. pass' \in [Passes -> [out: BOOLEAN, read: Prose]]
        BY <2>5 DEF Nowhere
      <3> QED
        BY <2>4, <2>5, <3>1
    <2>7. ASSUME hand > 0 PROVE (Fresh /\ Sighted /\ Copied)'
      BY <1>2, <2>4, <2>5, <2>7 DEF Rewrites, HandInv, Fresh, Sighted, Copied, Nowhere
    <2> QED
      BY <2>5, <2>6, <2>7 DEF HandInv
  <1>3. ASSUME NEW p \in Passes, LeavesPrefs(p) PROVE PrefsInv'
    BY <1>3 DEF LeavesPrefs, HandInv, Fresh, Sighted, Copied, Nowhere
  <1>4. ASSUME Types PROVE PrefsInv'
    <2>1. PICK n \in Sizes : prefs' = [size |-> n, knows |-> {hand + 1}, whole |-> TRUE]
      BY <1>4 DEF Types
    <2>2. PrefsTypeOK'
      BY <1>4, <2>1 DEF Types
    <2>3. (Fresh /\ Sighted /\ Copied)'
      BY <1>4, <2>1 DEF Types, Fresh, Sighted, Copied
    <2> QED
      BY <2>2, <2>3 DEF HandInv
  <1>5. ASSUME FailsToType PROVE PrefsInv'
    BY <1>5 DEF FailsToType, OneMore, HandInv, Fresh, Sighted, Copied
  <1>6. CASE UNCHANGED prefsVars
    BY <1>6 DEF prefsVars, HandInv, Fresh, Sighted, Copied
  <1> QED
    BY <1>1, <1>2, <1>3, <1>4, <1>5, <1>6 DEF PrefsNext

LEMMA PrefsInvariant == PrefsSpec => []PrefsInv
  BY InitPrefs, StepPrefs, PTL DEF PrefsSpec

\* What the user typed (put_memory_prefs) is lost only to a pass that was at the model then
\* or to a write that failed in the middle, and even then the copy of _write_prefs has it
\* until the next rewriting, unless the copy failed too.
THEOREM HandSurvives == PrefsSpec => []HandIsReadOrKept
  <1>1. PrefsInv => HandIsReadOrKept
    BY DEF PrefsInv, HandInv, Fresh, Sighted, Copied, HandIsReadOrKept
  <1> QED
    BY <1>1, PrefsInvariant, PTL

\* Of all the passes that write their text whole, only a micro pass under which the text
\* changed may halve it (_refus_de_remplacement).
THEOREM OnlyTheUnawareHalve == PrefsSpec => HalvedOnlyUnawares
  <1>1. ASSUME PrefsInv, PrefsNext, NEW p \in Passes,
               pass[p].out, ~pass'[p].out, prefs'.whole, Collapses(prefs, prefs'.size)
        PROVE  p # Deep /\ prefs # pass[p].read
    <2> USE PrefsAssumption DEF PrefsInv, PrefsTypeOK, Prose
    <2>1. ~ReadsPrefs(p) /\ ~Types /\ ~FailsToType
      BY <1>1 DEF ReadsPrefs, Types, FailsToType
    <2>2. ASSUME NEW o \in Passes, o # p PROVE ~ReadsPrefs(o) /\ ~Rewrites(o) /\ ~LeavesPrefs(o)
      BY <1>1, <2>2 DEF ReadsPrefs, Rewrites, LeavesPrefs
    <2>3. ~Collapses(prefs, prefs.size)
      <3>1. prefs.size \in Nat
        BY <1>1
      <3>2. ~(2 * prefs.size < prefs.size)
        BY <3>1
      <3> QED
        BY <3>2 DEF Collapses
    <2>4. ~LeavesPrefs(p)
      BY <1>1, <2>3 DEF LeavesPrefs
    <2>5. CASE Rewrites(p)
      <3>1. PICK n \in Sizes \ {0} :
               /\ ~Collapses(Weighed(p), n)
               /\ Rewritten([size |-> n, knows |-> pass[p].read.knows, whole |-> TRUE])
        BY <2>5 DEF Rewrites
      <3>2. prefs' = prefs \/ prefs'.size = n
        <4> DEFINE Wanted == [size |-> n, knows |-> pass[p].read.knows, whole |-> TRUE]
        <4>1. prefs' \in {prefs} \cup Parts(Wanted) \/ prefs' = Wanted
          BY <3>1 DEF Rewritten
        <4>2. prefs' \notin Parts(Wanted)
          BY <1>1 DEF Parts
        <4> QED
          BY <4>1, <4>2
      <3>3. prefs'.size = n
        BY <1>1, <2>3, <3>2
      <3> QED
        BY <1>1, <3>1, <3>3 DEF Weighed
    <2> QED
      BY <1>1, <2>1, <2>2, <2>4, <2>5 DEF PrefsNext
  <1>2. PrefsInv /\ [PrefsNext]_prefsVars =>
          [\A p \in Passes :
             pass[p].out /\ ~pass'[p].out /\ prefs'.whole /\ Collapses(prefs, prefs'.size) =>
               p # Deep /\ prefs # pass[p].read]_prefsVars
    BY <1>1
  <1> QED
    BY <1>2, PrefsInvariant, PTL DEF PrefsSpec, HalvedOnlyUnawares

-----------------------------------------------------------------------------
(***************************************************************************)
(* The archives, as long as no two passes cross: one writer at most is at  *)
(* work, on the newest name, which is whole when the purge comes (Alone);  *)
(* the purge spares the newest name, for at least one is kept.             *)
(***************************************************************************)
Whole == \E n \in Minutes : archive[n] = "whole"

Alone ==
  \A w \in Writers : writer[w] # Resting =>
    /\ \A v \in Writers : writer[v] # Resting => v = w
    /\ writer[w].name \in Minutes
    /\ \A n \in Minutes : archive[n] # "none" => n <= writer[w].name
    /\ writer[w].pc = "purging" => archive[writer[w].name] = "whole"

Past ==
  /\ \A n \in Minutes : archive[n] # "none" => n <= now
  /\ \A w \in Writers : writer[w].name <= now
Uncrossed == ~crossed => Alone /\ (assured => Whole)
ArchivesInv == ArchivesTypeOK /\ Past /\ Uncrossed

LEMMA InitArchives == ArchivesInit => ArchivesInv
  <1> SUFFICES ASSUME ArchivesInit PROVE ArchivesInv
    OBVIOUS
  <1>1. now \in Minutes /\ 0 \in 0..MaxMinute
    BY ArchivesAssumption DEF ArchivesInit, Minutes
  <1>2. ArchivesTypeOK
    BY <1>1 DEF ArchivesInit, ArchivesTypeOK, Resting
  <1>3. Past /\ Uncrossed
    BY DEF ArchivesInit, Past, Uncrossed, Alone, Resting
  <1> QED
    BY <1>2, <1>3 DEF ArchivesInv

\* What the purge takes is not the newest name.
LEMMA NewestIsSpared ==
  ASSUME NEW n \in Minutes, \A l \in Minutes : archive[l] # "none" => l <= n
  PROVE  n \notin TooMany
  <1>1. {l \in Files : l > n} = {}
    BY DEF Files, Minutes
  <1> QED
    BY <1>1, FS_EmptySet, ArchivesAssumption DEF TooMany

LEMMA StepArchives == ArchivesInv /\ [ArchivesNext]_archivesVars => ArchivesInv'
  <1> SUFFICES ASSUME ArchivesInv, [ArchivesNext]_archivesVars PROVE ArchivesInv'
    OBVIOUS
  <1> USE ArchivesAssumption DEF ArchivesInv, ArchivesTypeOK
  <1>1. CASE TimePasses
    BY <1>1 DEF TimePasses, Past, Uncrossed, Alone, Whole, Minutes
  <1>2. ASSUME NEW w \in Writers, OpensArchive(w) PROVE ArchivesInv'
    <2>1. ArchivesTypeOK' /\ Past'
      BY <1>2 DEF OpensArchive, Past, Minutes
    <2>2. ASSUME ~crossed' PROVE (Alone /\ (assured => Whole))'
      <3>1. /\ ~crossed /\ archive[now] = "none"
            /\ \A v \in Writers : writer[v] = Resting
        BY <1>2, <2>2 DEF OpensArchive
      <3>2. Alone'
        BY <1>2, <3>1 DEF OpensArchive, Alone, Past, Minutes
      <3>3. assured' => Whole'
        BY <1>2, <3>1 DEF OpensArchive, Uncrossed, Whole
      <3> QED
        BY <3>2, <3>3
    <2> QED
      BY <2>1, <2>2 DEF Uncrossed
  <1>3. ASSUME NEW w \in Writers, ClosesArchive(w) PROVE ArchivesInv'
    <2>1. PICK state \in (IF crossed THEN {"part", "whole"} ELSE {"whole"}) :
            archive' = [archive EXCEPT ![writer[w].name] = state]
      BY <1>3 DEF ClosesArchive
    <2>2. ArchivesTypeOK'
      BY <1>3, <2>1 DEF ClosesArchive, Minutes
    <2>3. writer[w].pc = "writing" /\ writer[w] # Resting
      BY <1>3 DEF ClosesArchive, Resting
    <2>4. writer' = [writer EXCEPT ![w].pc = "purging"] /\ UNCHANGED <<now, assured, crossed>>
      BY <1>3 DEF ClosesArchive
    <2>5. \A n \in Minutes : n # writer[w].name => archive'[n] = archive[n]
      BY <2>1
    <2>6. Past'
      <3>1. \A v \in Writers : writer'[v].name = writer[v].name
        BY <2>4
      <3> QED
        BY <2>4, <2>5, <3>1 DEF Past
    <2>7. ASSUME ~crossed PROVE Alone' /\ Whole'
      <3>1. /\ writer[w].name \in Minutes
            /\ \A v \in Writers : writer[v] # Resting => v = w
            /\ \A n \in Minutes : archive[n] # "none" => n <= writer[w].name
        BY <2>3, <2>7 DEF Uncrossed, Alone
      <3>2. archive'[writer[w].name] = "whole"
        BY <2>1, <2>7, <3>1
      <3>3. Alone'
        BY <2>4, <2>5, <3>1, <3>2 DEF Alone, Minutes
      <3> QED
        BY <3>1, <3>2, <3>3 DEF Whole
    <2> QED
      BY <2>2, <2>4, <2>6, <2>7 DEF Uncrossed
  <1>4. ASSUME NEW w \in Writers, PurgesArchives(w) PROVE ArchivesInv'
    <2>1. /\ archive' = [n \in Minutes |-> IF n \in TooMany THEN "none" ELSE archive[n]]
          /\ writer' = [writer EXCEPT ![w] = Resting]
          /\ assured' = TRUE /\ now' = now /\ crossed' = crossed
          /\ writer[w].pc = "purging"
      BY <1>4 DEF PurgesArchives, Purged
    <2>2. ArchivesTypeOK' /\ Past'
      BY <2>1 DEF Past, Resting, Minutes
    <2>3. ASSUME ~crossed PROVE Alone' /\ Whole'
      <3>1. /\ writer[w].name \in Minutes /\ archive[writer[w].name] = "whole"
            /\ writer[w].name \notin TooMany
            /\ \A v \in Writers \ {w} : writer[v] = Resting
        BY <2>1, <2>3, NewestIsSpared DEF Uncrossed, Alone, Resting
      <3> QED
        BY <2>1, <3>1 DEF Alone, Whole
    <2> QED
      BY <2>1, <2>2, <2>3 DEF Uncrossed
  <1>5. ASSUME NEW w \in Writers, FailsToArchive(w) PROVE ArchivesInv'
    <2>1. /\ writer' = [writer EXCEPT ![w] = Resting]
          /\ UNCHANGED <<now, archive, assured, crossed>>
      BY <1>5 DEF FailsToArchive
    <2>2. ArchivesTypeOK' /\ Past'
      BY <2>1 DEF Past, Resting, Minutes
    <2>3. Uncrossed'
      BY <2>1 DEF Uncrossed, Alone, Whole
    <2> QED
      BY <2>2, <2>3
  <1>6. CASE UNCHANGED archivesVars
    BY <1>6 DEF archivesVars, Past, Uncrossed, Alone, Whole
  <1> QED
    BY <1>1, <1>2, <1>3, <1>4, <1>5, <1>6 DEF ArchivesNext

\* Once a pass has reported success, a whole archive remains whatever fails afterwards
\* (_purger counts parts too), as long as no two passes cross.
THEOREM AnArchiveRemains == ArchivesSpec => []OneWholeRemains
  <1>1. ArchivesInv => OneWholeRemains
    BY DEF ArchivesInv, Uncrossed, Whole, OneWholeRemains
  <1> QED
    BY <1>1, InitArchives, StepArchives, PTL DEF ArchivesSpec

-----------------------------------------------------------------------------
(***************************************************************************)
(* The inductive invariant.  Where a task is says what it carries (Shape). *)
(* A rebuild that has not cleared yet finds the index as empty as it was   *)
(* at the start, for it holds the lock (Emptying).  A settled document is  *)
(* exact in memory and on the disk, and no task is about to add it -- the  *)
(* rebuild may, but takes it over when it does (Sound).  A document that a *)
(* task took alone is in its hands, as the truth has it, or already in the *)
(* index (Ready); no other task carries it, the rebuild excepted (Sole).   *)
(***************************************************************************)
Others == Tasks \ {Rebuild}
RebuildHas(d) == task[Rebuild].pc = "encoding" /\ task[Rebuild].doc = d

Shape ==
  \A t \in Tasks :
    /\ task[t].doc \notin task[t].todo
    /\ task[t].pc \in {"idle", "dreaming", "saving"} => task[t].doc = NoText /\ task[t].todo = {}
    /\ t \in Syncs /\ task[t].pc \in {"created", "clearing"} =>
         task[t].doc = NoText /\ task[t].todo = {}
    /\ t \in Syncs /\ task[t].pc = "created" => task[t].text = NoText
    /\ t \in Syncs => \A d \in task[t].todo : task[t].listed[d] # NoText
    /\ t \in Doors => task[t].todo = {}
    /\ t \in Doors /\ task[t].pc = "clearing" => task[t].text = NoText
    /\ t = Rebuild => task[t].pc \notin {"created", "dreaming"}

Emptying ==
  task[Rebuild].pc = "clearing" => queue # <<>> /\ Head(queue) = Rebuild /\ index = Nothing

Sound ==
  \A d \in settled :
    /\ index[d] = truth[d] /\ disk[d] = truth[d]
    /\ \A u \in Others : ~Carries(u, d)
    /\ ~RebuildHas(d)

Ready(t, d) ==
  /\ t \in Syncs => task[t].pc \in {"adding", "encoding", "saving"}
  /\ task[t].pc \notin {"idle", "dreaming"}
  /\ d = task[t].doc => task[t].text = truth[d]
  /\ d \in task[t].todo => task[t].listed[d] = truth[d]
  /\ ~Carries(t, d) => index[d] = truth[d]

Sole(t, d) == (\A u \in Others \ {t} : ~Carries(u, d)) /\ ~RebuildHas(d)

Clean == \A t \in Tasks : \A d \in clean[t] : t # Rebuild /\ Ready(t, d) /\ Sole(t, d)

Core == Shape /\ Emptying /\ Sound /\ Clean
IndexInv == IndexTypeOK /\ Core

-----------------------------------------------------------------------------
LEMMA Names ==
  /\ Syncs \subseteq Others /\ Doors \subseteq Others
  /\ Others = Syncs \cup Doors /\ Syncs \cap Doors = {}
  /\ Rebuild \in Tasks /\ Deeps \subseteq Syncs
  /\ NoText \notin Docs /\ NoText \notin Texts
  BY SearchIndexAssumption DEF Others, Tasks, Syncs, Docs

LEMMA InitInv == IndexInit => IndexInv
  <1> SUFFICES ASSUME IndexInit PROVE IndexInv
    OBVIOUS
  <1>1. /\ Idle \in Task /\ Nothing \in Contents
        /\ \A p \in {"created", "clearing"} : [Idle EXCEPT !.pc = p] \in Task
    BY DEF Idle, Task, Nothing, Contents
  <1>2. IndexTypeOK
    <2>1. truth \in Contents
      BY SearchIndexAssumption DEF IndexInit, Contents, Docs
    <2>2. queue \in Seq(Tasks)
      BY Names DEF IndexInit
    <2>3. shown \in [Facts -> Texts \cup {NoText}]
      BY DEF IndexInit
    <2>4. task \in [Tasks -> Task]
      BY <1>1 DEF IndexInit
    <2> QED
      BY <1>1, <2>1, <2>2, <2>3, <2>4, SearchIndexAssumption DEF IndexTypeOK, IndexInit
  <1>3. \A t \in Tasks : task[t] \in {Idle, [Idle EXCEPT !.pc = "created"], [Idle EXCEPT !.pc = "clearing"]}
    BY DEF IndexInit
  <1>4. Shape
    BY <1>3, Names DEF Shape, Idle, IndexInit
  <1> QED
    BY <1>2, <1>4, Names DEF IndexInit, IndexInv, Core, Emptying, Sound, Clean

-----------------------------------------------------------------------------
(* The helpers *)

\* A task that goes on takes the next document that has a text, or saves.
MovesTo(r, t, todo, listed) ==
  /\ r.pc \in {"saving", "adding"} /\ r.doc \notin r.todo
  /\ r.pc = "saving" => r.doc = NoText /\ r.todo = {}
  /\ r.pc = "adding" => r.listed = listed
  /\ \A d \in Docs :
       /\ d \in r.todo \/ d = r.doc <=> d \in todo /\ TextFor(t, d, listed) # NoText
       /\ d = r.doc => r.text = TextFor(t, d, listed)

LEMMA GoesOnTo ==
  ASSUME IndexTypeOK, NEW t \in Tasks, NEW todo \in SUBSET Docs, NEW listed \in Contents,
         GoesOn(t, todo, listed)
  PROVE  \E r \in Task : task' = [task EXCEPT ![t] = r] /\ MovesTo(r, t, todo, listed)
  <1> DEFINE left == {d \in todo : TextFor(t, d, listed) # NoText}
  <1>1. CASE left = {}
    <2> DEFINE r == [Idle EXCEPT !.pc = "saving"]
    <2>1. task' = [task EXCEPT ![t] = r]
      BY <1>1 DEF GoesOn
    <2>2. r \in Task /\ r.pc = "saving" /\ r.doc = NoText /\ r.todo = {}
      BY DEF Idle, Task, Nothing, Contents
    <2> QED
      BY <1>1, <2>1, <2>2, Names DEF MovesTo
  <1>2. CASE left # {}
    <2> DEFINE d == First(left)
               r == [pc |-> "adding", doc |-> d, text |-> TextFor(t, d, listed),
                     todo |-> left \ {d}, listed |-> listed]
    <2>1. d \in left
      BY <1>2 DEF First
    <2>2. task' = [task EXCEPT ![t] = r]
      BY <1>2 DEF GoesOn
    <2>3. TextFor(t, d, listed) \in Texts \cup {NoText}
      BY <2>1 DEF TextFor, Contents, IndexTypeOK
    <2>4. r \in Task
      BY <2>1, <2>3 DEF Task
    <2> HIDE DEF d
    <2> QED
      BY <2>1, <2>2, <2>4, Names DEF MovesTo
  <1> QED
    BY <1>1, <1>2

LEMMA GoesOnType ==
  ASSUME IndexTypeOK, NEW t \in Tasks, NEW todo \in SUBSET Docs, NEW listed \in Contents,
         GoesOn(t, todo, listed)
  PROVE  task' \in [Tasks -> Task]
  <1>1. PICK r \in Task : task' = [task EXCEPT ![t] = r]
    BY GoesOnTo
  <1> QED
    BY <1>1 DEF IndexTypeOK

\* The lock goes to a task that is known.
LEMMA QueueType ==
  ASSUME IndexTypeOK
  PROVE  /\ queue # <<>> => Head(queue) \in Tasks /\ Tail(queue) \in Seq(Tasks) /\ Requeued \in Seq(Tasks)
         /\ \A t \in Tasks : Append(queue, t) \in Seq(Tasks)
  BY DEF IndexTypeOK, Requeued

LEMMA TaskType ==
  ASSUME IndexTypeOK, NEW t \in Tasks, NEW p \in {"dreaming", "clearing", "adding", "encoding", "saving"}
  PROVE  [task EXCEPT ![t].pc = p] \in [Tasks -> Task]
  <1>1. [task[t] EXCEPT !.pc = p] \in Task
    BY DEF IndexTypeOK, Task
  <1>2. [task EXCEPT ![t].pc = p] = [task EXCEPT ![t] = [task[t] EXCEPT !.pc = p]]
    OBVIOUS
  <1> QED
    BY <1>1, <1>2 DEF IndexTypeOK

LEMMA CleanType ==
  ASSUME IndexTypeOK, NEW ds \in SUBSET Docs, NEW t,
         Touched(ds) \/ TakenBy(t, ds)
  PROVE  clean' \in [Tasks -> SUBSET Docs] /\ settled' \subseteq Docs
  BY DEF IndexTypeOK, Touched, TakenBy

LEMMA ShownType ==
  ASSUME NEW seen \in Contents, shown \in [Facts -> Texts \cup {NoText}]
  PROVE  Exported(seen) \in [Facts -> Texts \cup {NoText}]
  BY DEF Exported, Contents, Docs

LEMMA StepType == IndexTypeOK /\ [IndexNext]_indexVars => IndexTypeOK'
  <1> SUFFICES ASSUME IndexTypeOK, [IndexNext]_indexVars PROVE IndexTypeOK'
    OBVIOUS
  <1> USE SearchIndexAssumption
  <1>1. ASSUME NEW t \in Tasks, Clears(t) PROVE IndexTypeOK'
    <2>1. index' \in Contents
      BY <1>1 DEF Clears, Contents, IndexTypeOK
    <2>2. queue' \in Seq(Tasks)
      BY <1>1, QueueType DEF Clears, Waits
    <2>3. \E todo \in SUBSET Docs, listed \in Contents : GoesOn(t, todo, listed)
      <3>1. [d \in Docs |-> IF d \in Facts THEN truth[d] ELSE NoText] \in Contents
        BY DEF Contents, IndexTypeOK
      <3>2. Nothing \in Contents
        BY DEF Contents, Nothing
      <3>3. Active \subseteq Docs /\ Topics \subseteq Docs
        BY DEF Active, Docs
      <3> QED
        BY <1>1, <3>1, <3>2, <3>3 DEF Clears
    <2>4. task' \in [Tasks -> Task]
      BY <2>3, GoesOnType
    <2>5. clean' \in [Tasks -> SUBSET Docs] /\ settled' \subseteq Docs
      <3>1. Facts \subseteq Docs
        BY DEF Docs
      <3> QED
        BY <1>1, <3>1, CleanType DEF Clears, IndexTypeOK
    <2> QED
      BY <1>1, <2>1, <2>2, <2>4, <2>5 DEF Clears, IndexTypeOK
  <1>2. ASSUME NEW t \in Tasks, Begins(t) PROVE IndexTypeOK'
    <2>1. index' \in Contents
      BY <1>2 DEF Begins, Contents, IndexTypeOK
    <2>2. task' \in [Tasks -> Task]
      <3>1. task' = [task EXCEPT ![t].pc = "encoding"]
        BY <1>2 DEF Begins
      <3> QED
        BY <3>1, TaskType
    <2>3. clean' \in [Tasks -> SUBSET Docs] /\ settled' \subseteq Docs
      BY <1>2 DEF Begins, IndexTypeOK, Touched
    <2> QED
      BY <1>2, <2>1, <2>2, <2>3 DEF Begins, IndexTypeOK
  <1>3. ASSUME NEW t \in Tasks, Ends(t) PROVE IndexTypeOK'
    <2>1. task[t] \in Task
      BY DEF IndexTypeOK
    <2>2. index' \in Contents
      BY <1>3, <2>1 DEF Ends, Contents, IndexTypeOK, Task
    <2>3. task' \in [Tasks -> Task]
      <3>1. task[t].todo \in SUBSET Docs /\ task[t].listed \in Contents
        BY <2>1 DEF Task
      <3> QED
        BY <1>3, <3>1, GoesOnType DEF Ends
    <2>4. queue' \in Seq(Tasks)
      BY <1>3, QueueType DEF Ends, Waits
    <2> QED
      BY <1>3, <2>2, <2>3, <2>4 DEF Ends, IndexTypeOK
  <1>4. ASSUME NEW t \in Tasks, Fails(t) \/ Saves(t) PROVE IndexTypeOK'
    <2>1. Idle \in Task
      BY DEF Idle, Task, Nothing, Contents
    <2>2. queue' \in Seq(Tasks)
      <3>1. queue # <<>> /\ queue' = Tail(queue)
        BY <1>4 DEF Fails, Saves, Over, Waits
      <3> QED
        BY <3>1, QueueType
    <2>3. shown' \in [Facts -> Texts \cup {NoText}]
      <3>1. Exported(truth) \in [Facts -> Texts \cup {NoText}]
        BY ShownType DEF IndexTypeOK
      <3>2. shown' = shown \/ shown' = Exported(truth)
        BY <1>4 DEF Fails, Saves, Over
      <3> QED
        BY <3>1, <3>2 DEF IndexTypeOK
    <2>4. task' \in [Tasks -> Task] /\ clean' \in [Tasks -> SUBSET Docs]
      <3>1. task' = [task EXCEPT ![t] = Idle] /\ clean' = [clean EXCEPT ![t] = {}]
        BY <1>4 DEF Fails, Saves, Over
      <3> QED
        BY <2>1, <3>1 DEF IndexTypeOK
    <2>5. disk' \in Contents /\ settled' \subseteq Docs
      BY <1>4 DEF Fails, Saves, IndexTypeOK
    <2> QED
      BY <1>4, <2>2, <2>3, <2>4, <2>5 DEF Fails, Saves, IndexTypeOK
  <1>5. ASSUME NEW t \in Tasks, Starts(t) PROVE IndexTypeOK'
    <2>1. task' \in [Tasks -> Task]
      <3>1. PICK p \in {"clearing", "adding", "saving"} : task' = [task EXCEPT ![t].pc = p]
        BY <1>5 DEF Starts
      <3> QED
        BY <3>1, TaskType
    <2> QED
      BY <1>5, <2>1, QueueType DEF Starts, IndexTypeOK
  <1>6. ASSUME NEW t \in Deeps, DeepSteps(t) PROVE IndexTypeOK'
    <2>1. t \in Tasks /\ Idle \in Task
      BY DEF Tasks, Syncs, Idle, Task, Nothing, Contents
    <2>2. CASE Dreams(t)
      BY <2>1, <2>2, TaskType DEF Dreams, IndexTypeOK
    <2>3. CASE DreamFails(t)
      BY <2>1, <2>3 DEF DreamFails, IndexTypeOK
    <2>4. CASE Wakes(t)
      <3>1. PICK kept \in SUBSET Active :
              /\ truth' = [d \in Docs |-> IF d \in Active \ kept THEN NoText ELSE truth[d]]
              /\ Touched(Active \ kept)
        BY <2>4 DEF Wakes
      <3>2. truth' \in Contents
        BY <3>1 DEF Contents, IndexTypeOK
      <3>3. clean' \in [Tasks -> SUBSET Docs] /\ settled' \subseteq Docs
        BY <3>1 DEF Touched, IndexTypeOK
      <3>4. task' \in [Tasks -> Task]
        BY <2>1, <2>4, TaskType DEF Wakes
      <3> QED
        BY <2>1, <2>4, <3>2, <3>3, <3>4, QueueType DEF Wakes, IndexTypeOK
    <2> QED
      BY <1>6, <2>2, <2>3, <2>4 DEF DeepSteps
  <1>7. ASSUME NEW t \in Doors, NEW d \in Topics, NEW x \in TextsOf[d] \cup {NoText},
               Writes(t, d, x) \/ Requests(t, d, x)
        PROVE  IndexTypeOK'
    <2>1. t \in Tasks /\ d \in Docs /\ {d} \subseteq Docs
      BY DEF Tasks, Docs
    <2>2. x \in Texts \cup {NoText}
      BY <2>1
    <2>3. truth' \in Contents
      BY <1>7, <2>1, <2>2 DEF Writes, Requests, IndexTypeOK, Contents
    <2>4. task' \in [Tasks -> Task]
      <3>1. \A p \in {"adding", "created", "saving"} :
              /\ [Idle EXCEPT !.pc = p, !.doc = d, !.text = x] \in Task
              /\ [Idle EXCEPT !.pc = p] \in Task
        BY <2>1, <2>2 DEF Idle, Task, Nothing, Contents
      <3>2. PICK p \in {"adding", "created", "saving"} : Takes(t, d, x, p)
        BY <1>7 DEF Writes, Requests
      <3> QED
        BY <3>1, <3>2 DEF Takes, IndexTypeOK
    <2>5. clean' \in [Tasks -> SUBSET Docs] /\ settled' \subseteq Docs
      BY <1>7, <2>1, CleanType DEF Writes, Requests, Takes
    <2>6. queue' \in Seq(Tasks)
      BY <1>7, <2>1, QueueType DEF Writes, Requests, IndexTypeOK
    <2> QED
      BY <1>7, <2>3, <2>4, <2>5, <2>6 DEF Writes, Requests, IndexTypeOK
  <1>8. ASSUME NEW d \in Docs, NEW x \in TextsOf[d] \cup {NoText},
               FactChanges(d, x) \/ TopicChanges(d, x)
        PROVE  IndexTypeOK'
    <2>1. truth' \in Contents
      BY <1>8 DEF FactChanges, TopicChanges, IndexTypeOK, Contents
    <2>2. clean' \in [Tasks -> SUBSET Docs] /\ settled' \subseteq Docs
      BY <1>8 DEF FactChanges, TopicChanges, Touched, IndexTypeOK
    <2>3. shown' \in [Facts -> Texts \cup {NoText}]
      BY <1>8, <2>1, ShownType DEF FactChanges, TopicChanges, IndexTypeOK
    <2> QED
      BY <1>8, <2>1, <2>2, <2>3 DEF FactChanges, TopicChanges, IndexTypeOK
  <1>9. ASSUME Restart PROVE IndexTypeOK'
    <2>1. \A p \in {"idle", "created", "clearing"} : [Idle EXCEPT !.pc = p] \in Task
      BY DEF Idle, Task, Nothing, Contents
    <2>2. Idle \in Task
      BY DEF Idle, Task, Nothing, Contents
    <2>3. task' \in [Tasks -> Task]
      BY <1>9, <2>1, <2>2 DEF Restart, Boots
    <2>4. queue' \in Seq(Tasks)
      BY <1>9, Names DEF Restart, Boots
    <2>5. restarts' \in 0..MaxRestarts /\ clean' \in [Tasks -> SUBSET Docs]
      BY <1>9 DEF Restart, IndexTypeOK
    <2>6. index' = disk
      BY <1>9 DEF Restart, Boots
    <2> QED
      BY <1>9, <2>3, <2>4, <2>5, <2>6 DEF Restart, IndexTypeOK
  <1>10. CASE UNCHANGED indexVars
    BY <1>10 DEF indexVars, IndexTypeOK
  <1> QED
    <2>1. ASSUME NEW t \in Tasks, IndexSteps(t) PROVE IndexTypeOK'
      BY <1>1, <1>2, <1>3, <1>4, <1>5, <2>1 DEF IndexSteps
    <2>2. ASSUME NEW t \in Doors, DoorSteps(t) PROVE IndexTypeOK'
      BY <1>7, <2>2 DEF DoorSteps
    <2>3. ASSUME NEW d \in Docs, NEW x \in TextsOf[d] \cup {NoText},
                 FactChanges(d, x) \/ TopicChanges(d, x)
          PROVE  IndexTypeOK'
      BY <1>8, <2>3
    <2>4. CASE \E f \in Facts : \E x \in TextsOf[f] \cup {NoText} : FactChanges(f, x)
      BY <2>3, <2>4 DEF Docs
    <2>5. CASE \E d \in Topics : \E x \in TextsOf[d] \cup {NoText} : TopicChanges(d, x)
      BY <2>3, <2>5 DEF Docs
    <2> QED
      BY <1>6, <1>9, <1>10, <2>1, <2>2, <2>4, <2>5 DEF IndexNext

-----------------------------------------------------------------------------
(* The lock *)

\* While a task that has the lock is not the rebuild, the rebuild does not wait to clear.
LEMMA NotEmptying ==
  ASSUME IndexInv, NEW t \in Others, NEW p, Waits(t, p)
  PROVE  task[Rebuild].pc # "clearing"
  BY DEF IndexInv, Core, Emptying, Waits, Others

LEMMA ClearsSync ==
  ASSUME IndexInv, NEW t \in Syncs, Clears(t)
  PROVE  Core'
  <1> DEFINE listed == [d \in Docs |-> IF d \in Facts THEN truth[d] ELSE NoText]
  <1>1. /\ t \in Others /\ t \in Tasks /\ t # Rebuild /\ t \notin Doors
        /\ task[t].pc = "clearing" /\ task[Rebuild].pc # "clearing"
    BY Names, NotEmptying DEF Clears, Waits, Others
  <1>2. /\ GoesOn(t, Active, listed) /\ TakenBy(t, Facts)
        /\ truth' = truth /\ disk' = disk
        /\ index' = [d \in Docs |-> IF d \in Facts THEN NoText ELSE index[d]]
    BY <1>1 DEF Clears, Cleared
  <1>3. listed \in Contents /\ Active \in SUBSET Docs /\ Active \subseteq Facts
    BY DEF Contents, Active, Docs, IndexInv, IndexTypeOK
  <1> HIDE DEF listed
  <1>4. PICK r \in Task : task' = [task EXCEPT ![t] = r] /\ MovesTo(r, t, Active, listed)
    BY <1>1, <1>2, <1>3, GoesOnTo DEF IndexInv
  <1>5. /\ task'[t] = r /\ \A u \in Tasks \ {t} : task'[u] = task[u]
        /\ r.todo \subseteq Docs
    BY <1>1, <1>4 DEF IndexInv, IndexTypeOK, Task
  <1>6. \A d \in Docs : /\ TextFor(t, d, listed) = listed[d]
                        /\ d \in Facts => listed[d] = truth[d]
    BY <1>1 DEF TextFor, listed
  <1>7. \A d \in r.todo : d \in Active /\ r.listed[d] = truth[d] /\ r.listed[d] # NoText
    BY <1>3, <1>4, <1>5, <1>6 DEF MovesTo, Task
  <1>8. Shape'
    BY <1>1, <1>4, <1>5, <1>7 DEF IndexInv, Core, Shape, MovesTo
  <1>9. Emptying'
    BY <1>1, <1>5, Names DEF Emptying
  <1>10. Sound'
    <2> SUFFICES ASSUME NEW d \in settled'
                 PROVE  /\ index'[d] = truth'[d] /\ disk'[d] = truth'[d]
                        /\ \A u \in Others : ~Carries(u, d)'
                        /\ ~RebuildHas(d)'
      BY DEF Sound
    <2>1. d \in settled /\ d \notin Facts /\ d \in Docs
      BY <1>2 DEF TakenBy, IndexInv, IndexTypeOK
    <2>2. index'[d] = index[d]
      BY <1>2, <2>1
    <2>3. ~Carries(t, d)'
      BY <1>3, <1>4, <1>5, <2>1 DEF Carries, MovesTo
    <2>4. \A u \in Others \ {t} : ~Carries(u, d)'
      BY <1>5, <2>1 DEF Carries, IndexInv, Core, Sound, Others
    <2>5. ~RebuildHas(d)'
      BY <1>1, <1>5, <2>1, Names DEF RebuildHas, IndexInv, Core, Sound
    <2> QED
      BY <1>2, <2>1, <2>2, <2>3, <2>4, <2>5 DEF IndexInv, Core, Sound
  <1>11. Clean'
    <2> SUFFICES ASSUME NEW u \in Tasks, NEW d \in clean'[u]
                 PROVE  u # Rebuild /\ Ready(u, d)' /\ Sole(u, d)'
      BY DEF Clean
    <2>1. CASE u # t
      <3>1. d \in clean[u] /\ d \notin Facts /\ d \in Docs
        BY <1>2, <2>1 DEF TakenBy, IndexInv, IndexTypeOK
      <3>2. index'[d] = index[d] /\ task'[u] = task[u]
        BY <1>2, <1>5, <2>1, <3>1
      <3>3. u # Rebuild /\ Ready(u, d) /\ Sole(u, d)
        BY <3>1 DEF IndexInv, Core, Clean
      <3>4. ~Carries(t, d)'
        BY <1>3, <1>4, <1>5, <3>1 DEF Carries, MovesTo
      <3>5. Ready(u, d)'
        BY <1>2, <3>2, <3>3 DEF Ready, Carries
      <3>6. Sole(u, d)'
        BY <1>1, <1>5, <3>3, <3>4, Names DEF Sole, Carries, RebuildHas, Others
      <3> QED
        BY <3>3, <3>5, <3>6
    <2>2. CASE u = t
      <3>1. clean[t] = {}
        BY <1>1 DEF IndexInv, Core, Clean, Ready
      <3>2. d \in Facts /\ d \in Docs /\ \A v \in Tasks \ {t} : ~Carries(v, d)
        BY <1>1, <1>2, <2>2, <3>1 DEF TakenBy, IndexInv, IndexTypeOK, Docs
      <3>3. ~Carries(t, d)' => index'[d] = truth'[d]
        BY <1>2, <1>4, <1>5, <1>6, <3>2 DEF Carries, Active, MovesTo
      <3>4. Ready(t, d)'
        BY <1>2, <1>4, <1>5, <1>6, <1>7, <3>2, <3>3 DEF Ready, MovesTo
      <3>5. Sole(t, d)'
        BY <1>1, <1>5, <3>2, Names DEF Sole, Carries, RebuildHas, Others
      <3> QED
        BY <1>1, <2>2, <3>4, <3>5
    <2> QED
      BY <2>1, <2>2
  <1> QED
    BY <1>8, <1>9, <1>10, <1>11 DEF Core

LEMMA ClearsRebuild ==
  ASSUME IndexInv, Clears(Rebuild)
  PROVE  Core'
  <1>1. /\ Rebuild \in Tasks /\ Rebuild \notin Syncs /\ Rebuild \notin Doors
        /\ task[Rebuild].pc = "clearing" /\ index = Nothing
    BY Names DEF Clears, Waits, Others, IndexInv, Core, Emptying
  <1>2. /\ GoesOn(Rebuild, Topics, Nothing) /\ Touched(Facts)
        /\ truth' = truth /\ disk' = disk /\ index' = index
    BY <1>1 DEF Clears, Cleared, Nothing
  <1>3. Nothing \in Contents /\ Topics \in SUBSET Docs
    BY DEF Contents, Nothing, Docs
  <1>4. PICK r \in Task : task' = [task EXCEPT ![Rebuild] = r] /\ MovesTo(r, Rebuild, Topics, Nothing)
    BY <1>1, <1>2, <1>3, GoesOnTo DEF IndexInv
  <1>5. /\ task'[Rebuild] = r /\ \A u \in Others : task'[u] = task[u]
        /\ clean' = [u \in Tasks |-> clean[u] \ Facts] /\ settled' \subseteq settled
    BY <1>1, <1>2, <1>4 DEF IndexInv, IndexTypeOK, Others, Touched
  <1>6. Shape' /\ Emptying'
    BY <1>1, <1>4, <1>5 DEF IndexInv, Core, Shape, Emptying, MovesTo, Others
  <1>7. \A d \in Docs : ~RebuildHas(d)'
    BY <1>4, <1>5 DEF RebuildHas, MovesTo
  <1>8. \A d \in Docs : \A u \in Others : Carries(u, d)' = Carries(u, d)
    BY <1>5 DEF Carries
  <1>9. Sound'
    BY <1>2, <1>5, <1>7, <1>8 DEF IndexInv, IndexTypeOK, Core, Sound
  <1>10. Clean'
    <2> SUFFICES ASSUME NEW u \in Tasks, NEW d \in clean'[u]
                 PROVE  u # Rebuild /\ Ready(u, d)' /\ Sole(u, d)'
      BY DEF Clean
    <2>1. d \in clean[u] /\ d \in Docs
      BY <1>5 DEF IndexInv, IndexTypeOK
    <2>2. u \in Others /\ Ready(u, d) /\ Sole(u, d)
      BY <2>1 DEF IndexInv, Core, Clean, Others
    <2>3. Ready(u, d)'
      BY <1>2, <1>5, <1>8, <2>1, <2>2 DEF Ready
    <2> QED
      BY <1>7, <1>8, <2>1, <2>2, <2>3 DEF Sole, Others
  <1> QED
    BY <1>6, <1>9, <1>10 DEF Core

LEMMA ClearsDoor ==
  ASSUME IndexInv, NEW t \in Doors, Clears(t)
  PROVE  Core'
  <1> DEFINE doc == task[t].doc
  <1>1. /\ t \in Others /\ t \in Tasks /\ t # Rebuild /\ t \notin Syncs
        /\ task[t].pc = "clearing" /\ task[Rebuild].pc # "clearing"
        /\ task[t].text = NoText /\ task[t].todo = {}
    BY Names, NotEmptying DEF Clears, Waits, Others, IndexInv, Core, Shape
  <1>2. /\ GoesOn(t, {}, Nothing) /\ clean' = clean /\ settled' = settled
        /\ truth' = truth /\ disk' = disk
        /\ index' = [d \in Docs |-> IF d = doc THEN NoText ELSE index[d]]
    BY <1>1 DEF Clears, Cleared
  <1>3. task' = [task EXCEPT ![t] = [Idle EXCEPT !.pc = "saving"]]
    BY <1>2 DEF GoesOn
  <1>4. /\ task'[t] = [Idle EXCEPT !.pc = "saving"]
        /\ \A u \in Tasks \ {t} : task'[u] = task[u]
    BY <1>1, <1>3 DEF IndexInv, IndexTypeOK
  <1>5. Shape'
    BY <1>1, <1>4 DEF IndexInv, Core, Shape, Idle
  <1>6. Emptying'
    BY <1>1, <1>4, Names DEF Emptying
  <1>7. \A d \in Docs : /\ ~Carries(t, d)' /\ RebuildHas(d)' = RebuildHas(d)
                        /\ \A u \in Tasks \ {t} : Carries(u, d)' = Carries(u, d)
                        /\ Carries(t, d) <=> d = doc
    BY <1>1, <1>4, Names DEF Carries, RebuildHas, Idle
  <1>8. Sound'
    <2>1. \A d \in settled : d \in Docs /\ d # doc
      BY <1>1, <1>7 DEF IndexInv, IndexTypeOK, Core, Sound
    <2> QED
      BY <1>2, <1>7, <2>1 DEF IndexInv, Core, Sound, Others
  <1>9. Clean'
    <2> SUFFICES ASSUME NEW u \in Tasks, NEW d \in clean[u]
                 PROVE  u # Rebuild /\ Ready(u, d)' /\ Sole(u, d)'
      BY <1>2 DEF Clean
    <2>1. d \in Docs /\ u # Rebuild /\ Ready(u, d) /\ Sole(u, d)
      BY DEF IndexInv, IndexTypeOK, Core, Clean
    <2>2. Sole(u, d)'
      BY <1>1, <1>7, <2>1 DEF Sole, Others
    <2>3. CASE u = t
      BY <1>1, <1>2, <1>4, <1>7, <2>1, <2>2, <2>3, Names DEF Ready, Idle
    <2>4. CASE u # t
      <3>1. d # doc
        BY <1>1, <1>7, <2>1, <2>4 DEF Sole, Others
      <3> QED
        BY <1>2, <1>4, <1>7, <2>1, <2>2, <2>4, <3>1 DEF Ready
    <2> QED
      BY <2>3, <2>4
  <1> QED
    BY <1>5, <1>6, <1>8, <1>9 DEF Core

LEMMA BeginsCore ==
  ASSUME IndexInv, NEW t \in Tasks, Begins(t)
  PROVE  Core'
  <1> DEFINE doc == task[t].doc
  <1>1. /\ task[t].pc = "adding" /\ truth' = truth /\ disk' = disk /\ queue' = queue
        /\ \A d \in Docs : d # doc => index'[d] = index[d]
        /\ task' = [task EXCEPT ![t].pc = "encoding"]
        /\ t = Rebuild => Touched({doc})
        /\ t # Rebuild => clean' = clean /\ settled' = settled
    BY DEF Begins, Waits, IndexInv, IndexTypeOK, Contents
  <1>2. /\ task[t] \in Task
        /\ task'[t] = [task[t] EXCEPT !.pc = "encoding"]
        /\ \A u \in Tasks \ {t} : task'[u] = task[u]
    BY <1>1 DEF IndexInv, IndexTypeOK
  <1>3. /\ task'[t].pc = "encoding" /\ task'[t].doc = doc /\ task'[t].text = task[t].text
        /\ task'[t].todo = task[t].todo /\ task'[t].listed = task[t].listed
    BY <1>2 DEF Task
  <1>4. Shape'
    BY <1>1, <1>2, <1>3 DEF IndexInv, Core, Shape
  <1>5. Emptying'
    <2>1. queue # <<>> /\ Head(queue) = t
      BY DEF Begins, Waits
    <2> QED
      BY <1>1, <1>2, <1>3, <2>1, Names DEF IndexInv, Core, Emptying
  <1>6. \A d \in Docs : \A u \in Tasks : Carries(u, d)' = Carries(u, d)
    BY <1>2, <1>3 DEF Carries
  <1>7. CASE t = Rebuild
    <2>1. /\ settled' = settled \ {doc} /\ clean' = [u \in Tasks |-> clean[u] \ {doc}]
      BY <1>1, <1>7 DEF Touched
    <2>2. \A d \in Docs : d # doc => ~RebuildHas(d)'
      BY <1>3, <1>7 DEF RebuildHas
    <2>3. Sound'
      BY <1>1, <1>6, <2>1, <2>2 DEF IndexInv, IndexTypeOK, Core, Sound, Others
    <2>4. Clean'
      <3> SUFFICES ASSUME NEW u \in Tasks, NEW d \in clean'[u]
                   PROVE  u # Rebuild /\ Ready(u, d)' /\ Sole(u, d)'
        BY DEF Clean
      <3>1. d \in clean[u] /\ d # doc /\ d \in Docs
        BY <2>1 DEF IndexInv, IndexTypeOK
      <3>2. u # Rebuild /\ Ready(u, d) /\ Sole(u, d)
        BY <3>1 DEF IndexInv, Core, Clean
      <3> QED
        BY <1>1, <1>2, <1>6, <1>7, <2>2, <3>1, <3>2 DEF Ready, Sole, Others
    <2> QED
      BY <1>4, <1>5, <2>3, <2>4 DEF Core
  <1>8. CASE t # Rebuild
    <2>1. \A d \in Docs : RebuildHas(d)' = RebuildHas(d)
      BY <1>2, <1>8, Names DEF RebuildHas
    <2>2. Carries(t, doc)
      BY DEF Carries
    <2>3. Sound'
      <3>1. doc \notin settled
        BY <1>8, <2>2 DEF IndexInv, Core, Sound, Others
      <3> QED
        BY <1>1, <1>6, <1>8, <2>1, <3>1 DEF IndexInv, IndexTypeOK, Core, Sound, Others
    <2>4. Clean'
      <3> SUFFICES ASSUME NEW u \in Tasks, NEW d \in clean[u]
                   PROVE  u # Rebuild /\ Ready(u, d)' /\ Sole(u, d)'
        BY <1>1, <1>8 DEF Clean
      <3>1. d \in Docs /\ u # Rebuild /\ Ready(u, d) /\ Sole(u, d)
        BY DEF IndexInv, IndexTypeOK, Core, Clean
      <3>2. Sole(u, d)'
        BY <1>6, <2>1, <3>1 DEF Sole, Others
      <3>3. CASE u = t
        <4>1. ~Carries(t, d)' => d # doc /\ ~Carries(t, d)
          BY <1>6, <2>2, <3>1
        <4> QED
          BY <1>1, <1>3, <3>1, <3>2, <3>3, <4>1 DEF Ready
      <3>4. CASE u # t
        <4>1. d # doc
          BY <1>8, <2>2, <3>1, <3>4 DEF Sole, Others
        <4> QED
          BY <1>1, <1>2, <1>6, <3>1, <3>2, <3>4, <4>1 DEF Ready
      <3> QED
        BY <3>3, <3>4
    <2> QED
      BY <1>4, <1>5, <2>3, <2>4 DEF Core
  <1> QED
    BY <1>7, <1>8

LEMMA EndsCore ==
  ASSUME IndexInv, NEW t \in Tasks, Ends(t)
  PROVE  Core'
  <1> DEFINE doc == task[t].doc
             todo == task[t].todo
             listed == task[t].listed
  <1>1. /\ task[t].pc = "encoding" /\ truth' = truth /\ disk' = disk
        /\ clean' = clean /\ settled' = settled
        /\ index' = [index EXCEPT ![doc] = task[t].text]
        /\ GoesOn(t, todo, listed)
    BY DEF Ends, Waits
  <1>2. todo \in SUBSET Docs /\ listed \in Contents /\ doc \notin todo
    BY DEF IndexInv, IndexTypeOK, Task, Core, Shape
  <1>3. PICK r \in Task : task' = [task EXCEPT ![t] = r] /\ MovesTo(r, t, todo, listed)
    BY <1>1, <1>2, GoesOnTo DEF IndexInv
  <1>4. /\ task'[t] = r /\ \A u \in Tasks \ {t} : task'[u] = task[u]
        /\ r.todo \subseteq Docs
    BY <1>3 DEF IndexInv, IndexTypeOK, Task
  <1>5. /\ \A d \in Docs : d # doc => index'[d] = index[d]
        /\ doc \in Docs => index'[doc] = task[t].text
    BY <1>1 DEF IndexInv, IndexTypeOK, Contents
  <1>6. t # Rebuild => \A d \in Docs : TextFor(t, d, listed) = listed[d]
    BY DEF TextFor
  <1>7. \A d \in Docs : Carries(t, d)' => d \in todo
    BY <1>3, <1>4 DEF Carries, MovesTo
  <1>8. Shape'
    <2>1. t \in Syncs => \A d \in r.todo : r.listed[d] # NoText
      BY <1>2, <1>3, <1>4, <1>6, Names DEF MovesTo, Others
    <2>2. t \in Doors => r.todo = {}
      <3>1. t \in Doors => todo = {}
        BY DEF IndexInv, Core, Shape
      <3> QED
        BY <1>3, <1>4, <3>1 DEF MovesTo
    <2> QED
      BY <1>3, <1>4, <2>1, <2>2 DEF IndexInv, Core, Shape, MovesTo
  <1>9. Emptying'
    <2>1. queue # <<>> /\ Head(queue) = t
      BY DEF Ends, Waits
    <2> QED
      BY <1>1, <1>3, <1>4, <2>1, Names DEF IndexInv, Core, Emptying, MovesTo
  <1>10. /\ \A d \in Docs : \A u \in Tasks \ {t} : Carries(u, d)' = Carries(u, d)
         /\ \A d \in Docs : Carries(t, d)' => Carries(t, d) /\ d # doc
         /\ \A d \in Docs : RebuildHas(d)' => RebuildHas(d)
    BY <1>2, <1>3, <1>4, <1>7, Names DEF Carries, RebuildHas, MovesTo
  <1>11. Sound'
    <2>1. doc \notin settled
      BY <1>1 DEF IndexInv, Core, Sound, Carries, RebuildHas, Others
    <2> QED
      BY <1>1, <1>5, <1>10, <2>1 DEF IndexInv, IndexTypeOK, Core, Sound, Others
  <1>12. Clean'
    <2> SUFFICES ASSUME NEW u \in Tasks, NEW d \in clean[u]
                 PROVE  u # Rebuild /\ Ready(u, d)' /\ Sole(u, d)'
      BY <1>1 DEF Clean
    <2>1. d \in Docs /\ u # Rebuild /\ Ready(u, d) /\ Sole(u, d)
      BY DEF IndexInv, IndexTypeOK, Core, Clean
    <2>2. Sole(u, d)'
      BY <1>10, <2>1 DEF Sole, Others
    <2>3. CASE u # t
      <3>1. d # doc
        BY <1>1, <2>1, <2>3 DEF Sole, Carries, RebuildHas, Others
      <3> QED
        BY <1>1, <1>4, <1>5, <1>10, <2>1, <2>2, <2>3, <3>1 DEF Ready
    <2>4. CASE u = t
      <3>1. r.pc \in {"adding", "saving"}
        BY <1>3 DEF MovesTo
      <3>2. CASE d \in todo
        <4>1. listed[d] = truth[d] /\ d # doc
          BY <1>2, <2>1, <2>4, <3>2 DEF Ready
        <4>2. t \in Syncs /\ listed[d] # NoText
          BY <2>1, <2>4, <3>2, Names DEF IndexInv, Core, Shape, Others
        <4>3. /\ d = r.doc => r.text = truth[d]
              /\ d \in r.todo => r.listed[d] = truth[d]
              /\ d \in r.todo \/ d = r.doc
          BY <1>3, <1>6, <2>1, <2>4, <3>2, <4>1, <4>2 DEF MovesTo
        <4> QED
          BY <1>1, <1>4, <2>1, <2>2, <2>4, <3>1, <4>3 DEF Ready, Carries
      <3>3. CASE d \notin todo
        <4>1. ~Carries(t, d)'
          BY <1>7, <2>1, <3>3
        <4>2. index'[d] = truth[d]
          BY <1>5, <2>1, <2>4, <3>3 DEF Ready, Carries
        <4> QED
          BY <1>1, <1>4, <2>1, <2>2, <2>4, <3>1, <4>1, <4>2 DEF Ready, Carries
      <3> QED
        BY <3>2, <3>3
    <2> QED
      BY <2>3, <2>4
  <1> QED
    BY <1>8, <1>9, <1>11, <1>12 DEF Core

LEMMA OverCore ==
  ASSUME IndexInv, NEW t \in Tasks, Fails(t) \/ Saves(t)
  PROVE  Core'
  <1>1. /\ task[t].pc \in {"encoding", "saving"} /\ truth' = truth /\ index' = index
        /\ task' = [task EXCEPT ![t] = Idle]
        /\ clean' = [clean EXCEPT ![t] = {}]
        /\ queue # <<>> /\ Head(queue) = t
    BY DEF Fails, Saves, Over, Waits
  <1>2. /\ task'[t] = Idle /\ clean'[t] = {}
        /\ \A u \in Tasks \ {t} : task'[u] = task[u] /\ clean'[u] = clean[u]
    BY <1>1 DEF IndexInv, IndexTypeOK
  <1>3. Shape'
    BY <1>2 DEF IndexInv, Core, Shape, Idle
  <1>4. Emptying'
    BY <1>1, <1>2, Names DEF IndexInv, Core, Emptying, Idle
  <1>5. \A d \in Docs : /\ ~Carries(t, d)'
                        /\ RebuildHas(d)' => RebuildHas(d)
                        /\ \A u \in Tasks \ {t} : Carries(u, d)' = Carries(u, d)
    BY <1>2, Names DEF Carries, RebuildHas, Idle
  <1>6. Sound'
    <2> SUFFICES ASSUME NEW d \in settled'
                 PROVE  /\ index'[d] = truth'[d] /\ disk'[d] = truth'[d]
                        /\ \A u \in Others : ~Carries(u, d)'
                        /\ ~RebuildHas(d)'
      BY DEF Sound
    <2>1. CASE d \in settled
      <3>1. d \in Docs /\ disk'[d] \in {disk[d], index[d]}
        BY <2>1 DEF IndexInv, IndexTypeOK, Fails, Saves
      <3> QED
        BY <1>1, <1>5, <2>1, <3>1 DEF IndexInv, Core, Sound, Others
    <2>2. CASE d \notin settled
      <3>1. Saves(t) /\ d \in clean[t] /\ disk' = index /\ task[t].pc = "saving"
        BY <2>2 DEF Fails, Saves, Waits
      <3>2. d \in Docs /\ t # Rebuild /\ Ready(t, d) /\ Sole(t, d)
        BY <3>1 DEF IndexInv, IndexTypeOK, Core, Clean
      <3>3. ~Carries(t, d)
        BY <3>1, <3>2, Names DEF Carries, IndexInv, Core, Shape
      <3>4. index[d] = truth[d]
        BY <3>2, <3>3 DEF Ready
      <3> QED
        BY <1>1, <1>5, <3>1, <3>2, <3>4 DEF Sole, Others
    <2> QED
      BY <2>1, <2>2
  <1>7. Clean'
    <2> SUFFICES ASSUME NEW u \in Tasks, NEW d \in clean'[u]
                 PROVE  u # Rebuild /\ Ready(u, d)' /\ Sole(u, d)'
      BY DEF Clean
    <2>1. u # t /\ d \in clean[u] /\ d \in Docs
      BY <1>2 DEF IndexInv, IndexTypeOK
    <2>2. u # Rebuild /\ Ready(u, d) /\ Sole(u, d)
      BY <2>1 DEF IndexInv, Core, Clean
    <2>3. Ready(u, d)'
      BY <1>1, <1>2, <1>5, <2>1, <2>2 DEF Ready
    <2>4. Sole(u, d)'
      BY <1>5, <2>1, <2>2 DEF Sole, Others
    <2> QED
      BY <2>2, <2>3, <2>4
  <1> QED
    BY <1>3, <1>4, <1>6, <1>7 DEF Core

\* Whoever asks for the lock stands behind the one who holds it.
LEMMA HeadStays ==
  ASSUME IndexTypeOK, NEW t \in Tasks, queue # <<>>
  PROVE  Append(queue, t) # <<>> /\ Head(Append(queue, t)) = Head(queue)
  BY DEF IndexTypeOK

LEMMA StartsCore ==
  ASSUME IndexInv, NEW t \in Tasks, Starts(t)
  PROVE  Core'
  <1>1. /\ task[t].pc = "created" /\ truth' = truth /\ index' = index /\ disk' = disk
        /\ clean' = clean /\ settled' = settled /\ queue' = Append(queue, t)
    BY DEF Starts
  <1>2. PICK p \in {"clearing", "adding", "saving"} :
          /\ task' = [task EXCEPT ![t].pc = p]
          /\ p = "clearing" => task[t].text = NoText
          /\ p = "saving" => task[t].text = NoText /\ task[t].doc = NoText /\ t \notin Syncs
          /\ p # "clearing" /\ t \in Syncs => task[t].text # NoText
    BY DEF Starts
  <1>3. /\ task[t] \in Task /\ task'[t] = [task[t] EXCEPT !.pc = p]
        /\ \A u \in Tasks \ {t} : task'[u] = task[u]
    BY <1>2 DEF IndexInv, IndexTypeOK
  <1>4. /\ task'[t].pc = p /\ task'[t].doc = task[t].doc /\ task'[t].text = task[t].text
        /\ task'[t].todo = task[t].todo /\ task'[t].listed = task[t].listed
    BY <1>3 DEF Task
  <1>5. t # Rebuild /\ t \in Others
    BY <1>1 DEF IndexInv, Core, Shape, Others
  <1>6. Shape'
    <2> SUFFICES ASSUME NEW u \in Tasks
                 PROVE  /\ task'[u].doc \notin task'[u].todo
                        /\ task'[u].pc \in {"idle", "dreaming", "saving"} =>
                             task'[u].doc = NoText /\ task'[u].todo = {}
                        /\ u \in Syncs /\ task'[u].pc \in {"created", "clearing"} =>
                             task'[u].doc = NoText /\ task'[u].todo = {}
                        /\ u \in Syncs /\ task'[u].pc = "created" => task'[u].text = NoText
                        /\ u \in Syncs => \A d \in task'[u].todo : task'[u].listed[d] # NoText
                        /\ u \in Doors => task'[u].todo = {}
                        /\ u \in Doors /\ task'[u].pc = "clearing" => task'[u].text = NoText
                        /\ u = Rebuild => task'[u].pc \notin {"created", "dreaming"}
      BY DEF Shape
    <2>1. CASE u # t
      BY <1>3, <2>1 DEF IndexInv, Core, Shape
    <2>2. CASE u = t
      <3>1. t \in Syncs => p = "clearing" /\ task[t].doc = NoText /\ task[t].todo = {}
        BY <1>1, <1>2 DEF IndexInv, Core, Shape
      <3>2. t \notin Syncs => t \in Doors /\ task[t].todo = {}
        BY <1>5, Names DEF IndexInv, Core, Shape
      <3>3. task[t].doc \notin task[t].todo
        BY DEF IndexInv, Core, Shape
      <3> QED
        BY <1>2, <1>4, <1>5, <2>2, <3>1, <3>2, <3>3
    <2> QED
      BY <2>1, <2>2
  <1>7. Emptying'
    BY <1>1, <1>3, <1>5, Names, HeadStays DEF IndexInv, Core, Emptying
  <1>8. \A d \in Docs : /\ RebuildHas(d)' = RebuildHas(d)
                        /\ \A u \in Tasks : Carries(u, d)' = Carries(u, d)
    BY <1>3, <1>4, <1>5, Names DEF Carries, RebuildHas
  <1>9. Sound'
    BY <1>1, <1>8 DEF IndexInv, IndexTypeOK, Core, Sound, Others
  <1>10. Clean'
    <2> SUFFICES ASSUME NEW u \in Tasks, NEW d \in clean[u]
                 PROVE  u # Rebuild /\ Ready(u, d)' /\ Sole(u, d)'
      BY <1>1 DEF Clean
    <2>1. d \in Docs /\ u # Rebuild /\ Ready(u, d) /\ Sole(u, d)
      BY DEF IndexInv, IndexTypeOK, Core, Clean
    <2>2. Sole(u, d)'
      BY <1>8, <2>1 DEF Sole, Others
    <2>3. CASE u = t
      <3>1. t \notin Syncs
        BY <1>1, <2>1, <2>3 DEF Ready
      <3> QED
        BY <1>1, <1>2, <1>4, <1>8, <2>1, <2>2, <2>3, <3>1 DEF Ready
    <2>4. CASE u # t
      BY <1>1, <1>3, <1>8, <2>1, <2>2, <2>4 DEF Ready
    <2> QED
      BY <2>3, <2>4
  <1> QED
    BY <1>6, <1>7, <1>9, <1>10 DEF Core

-----------------------------------------------------------------------------
(* The truth changes, and the tasks *)

\* What was touched is no longer vouched for; the rest is as it was.
LEMMA TouchedCore ==
  ASSUME IndexInv, NEW ds \in SUBSET Docs, Touched(ds),
         index' = index, disk' = disk, \A d \in Docs \ ds : truth'[d] = truth[d],
         \A d \in Docs : /\ RebuildHas(d)' = RebuildHas(d)
                        /\ \A u \in Tasks : Carries(u, d)' = Carries(u, d),
         \A u \in Tasks : clean[u] # {} => task'[u] = task[u]
  PROVE  Sound' /\ Clean'
  <1>1. clean' = [u \in Tasks |-> clean[u] \ ds] /\ settled' = settled \ ds
    BY DEF Touched
  <1>2. Sound'
    BY <1>1 DEF IndexInv, IndexTypeOK, Core, Sound, Others
  <1>3. Clean'
    <2> SUFFICES ASSUME NEW u \in Tasks, NEW d \in clean'[u]
                 PROVE  u # Rebuild /\ Ready(u, d)' /\ Sole(u, d)'
      BY DEF Clean
    <2>1. d \in clean[u] /\ d \in Docs /\ d \notin ds /\ task'[u] = task[u] /\ truth'[d] = truth[d]
      BY <1>1 DEF IndexInv, IndexTypeOK
    <2>2. u # Rebuild /\ Ready(u, d) /\ Sole(u, d)
      BY <2>1 DEF IndexInv, Core, Clean
    <2>3. Ready(u, d)'
      BY <2>1, <2>2 DEF Ready
    <2>4. Sole(u, d)'
      BY <2>1, <2>2 DEF Sole, Others
    <2> QED
      BY <2>2, <2>3, <2>4
  <1> QED
    BY <1>2, <1>3

LEMMA ChangesCore ==
  ASSUME IndexInv, NEW d \in Docs, NEW x, FactChanges(d, x) \/ TopicChanges(d, x)
  PROVE  Core'
  <1>1. /\ truth' = [truth EXCEPT ![d] = x] /\ Touched({d}) /\ {d} \in SUBSET Docs
        /\ UNCHANGED <<index, disk, queue, task>>
    BY DEF FactChanges, TopicChanges
  <1>2. \A e \in Docs \ {d} : truth'[e] = truth[e]
    BY <1>1 DEF IndexInv, IndexTypeOK, Contents
  <1>3. Shape' /\ Emptying'
    BY <1>1 DEF IndexInv, Core, Shape, Emptying
  <1>4. \A e \in Docs : /\ RebuildHas(e)' = RebuildHas(e)
                        /\ \A u \in Tasks : Carries(u, e)' = Carries(u, e)
    BY <1>1 DEF RebuildHas, Carries
  <1>5. Sound' /\ Clean'
    BY <1>1, <1>2, <1>4, TouchedCore
  <1> QED
    BY <1>3, <1>5 DEF Core

LEMMA DeepCore ==
  ASSUME IndexInv, NEW t \in Deeps, DeepSteps(t)
  PROVE  Core'
  <1>1. /\ t \in Syncs /\ t \in Tasks /\ t # Rebuild /\ t \notin Doors
        /\ task[t].pc \in {"idle", "dreaming"}
        /\ index' = index /\ disk' = disk /\ clean[t] = {}
        /\ queue' = queue \/ queue' = Append(queue, t)
    <2>1. t \in Syncs /\ t \in Tasks /\ t # Rebuild /\ t \notin Doors
      BY Names DEF Others
    <2>2. task[t].pc \in {"idle", "dreaming"}
      BY DEF DeepSteps, Dreams, DreamFails, Wakes
    <2>3. clean[t] = {}
      BY <2>1, <2>2 DEF IndexInv, Core, Clean, Ready
    <2> QED
      BY <2>1, <2>2, <2>3 DEF DeepSteps, Dreams, DreamFails, Wakes
  <1>2. PICK p \in {"idle", "dreaming", "clearing"} :
          /\ task'[t].pc = p /\ task'[t].doc = NoText /\ task'[t].todo = {}
          /\ \A u \in Tasks \ {t} : task'[u] = task[u]
    <2>1. task[t] \in Task /\ task[t].doc = NoText /\ task[t].todo = {}
      BY <1>1 DEF IndexInv, IndexTypeOK, Core, Shape
    <2>2. PICK q \in {"dreaming", "clearing"} :
            \/ task' = [task EXCEPT ![t].pc = q]
            \/ task' = [task EXCEPT ![t] = Idle]
      BY DEF DeepSteps, Dreams, DreamFails, Wakes
    <2>3. CASE task' = [task EXCEPT ![t] = Idle]
      BY <1>1, <2>3 DEF Idle, IndexInv, IndexTypeOK
    <2>4. CASE task' = [task EXCEPT ![t].pc = q]
      <3>1. task'[t] = [task[t] EXCEPT !.pc = q] /\ \A u \in Tasks \ {t} : task'[u] = task[u]
        BY <1>1, <2>4 DEF IndexInv, IndexTypeOK
      <3>2. task'[t].pc = q /\ task'[t].doc = NoText /\ task'[t].todo = {}
        BY <2>1, <3>1 DEF Task
      <3> QED
        BY <3>1, <3>2
    <2> QED
      BY <2>2, <2>3, <2>4
  <1>3. Shape'
    BY <1>1, <1>2 DEF IndexInv, Core, Shape
  <1>4. Emptying'
    BY <1>1, <1>2, Names, HeadStays DEF IndexInv, Core, Emptying
  <1>5. \A d \in Docs : /\ RebuildHas(d)' = RebuildHas(d)
                        /\ \A u \in Tasks : Carries(u, d)' = Carries(u, d)
    <2>1. task[t].doc = NoText /\ task[t].todo = {}
      BY <1>1 DEF IndexInv, Core, Shape
    <2> QED
      BY <1>1, <1>2, <2>1, Names DEF RebuildHas, Carries
  <1>6. \E ds \in SUBSET Docs : Touched(ds) /\ \A d \in Docs \ ds : truth'[d] = truth[d]
    <2>1. CASE Wakes(t)
      <3>1. PICK kept \in SUBSET Active :
              /\ truth' = [d \in Docs |-> IF d \in Active \ kept THEN NoText ELSE truth[d]]
              /\ Touched(Active \ kept)
        BY <2>1 DEF Wakes
      <3>2. Active \ kept \in SUBSET Docs
        BY DEF Active, Docs
      <3>3. \A d \in Docs \ (Active \ kept) : truth'[d] = truth[d]
        BY <3>1
      <3> QED
        BY <3>1, <3>2, <3>3
    <2>2. CASE Dreams(t) \/ DreamFails(t)
      <3>1. truth' = truth /\ clean' = clean /\ settled' = settled
        BY <2>2 DEF Dreams, DreamFails
      <3>2. clean = [u \in Tasks |-> clean[u] \ {}] /\ settled = settled \ {}
        BY DEF IndexInv, IndexTypeOK
      <3>3. Touched({}) /\ {} \in SUBSET Docs
        BY <3>1, <3>2 DEF Touched
      <3> QED
        BY <3>1, <3>3
    <2> QED
      BY <2>1, <2>2 DEF DeepSteps
  <1>7. Sound' /\ Clean'
    BY <1>1, <1>2, <1>5, <1>6, TouchedCore
  <1> QED
    BY <1>3, <1>4, <1>7 DEF Core

\* A door finds a topic blank: it takes nothing.
LEMMA BlankCore ==
  ASSUME IndexInv, NEW t \in Doors, NEW d \in Topics, NEW x, NEW p \in {"saving", "created"},
         truth' = [truth EXCEPT ![d] = x], Touched({d}),
         task[t].pc = "idle", task' = [task EXCEPT ![t] = [Idle EXCEPT !.pc = p]],
         index' = index, disk' = disk,
         queue' = queue \/ queue' = Append(queue, t)
  PROVE  Core'
  <1>1. /\ t \in Others /\ t \in Tasks /\ t # Rebuild /\ t \notin Syncs /\ d \in Docs
        /\ clean[t] = {}
    BY Names DEF Others, Docs, IndexInv, Core, Clean, Ready
  <1>2. /\ task'[t].pc = p /\ task'[t].doc = NoText /\ task'[t].todo = {}
        /\ task'[t].text = NoText /\ \A u \in Tasks \ {t} : task'[u] = task[u]
    BY <1>1 DEF Idle, IndexInv, IndexTypeOK
  <1>3. {d} \in SUBSET Docs /\ \A e \in Docs \ {d} : truth'[e] = truth[e]
    BY <1>1 DEF IndexInv, IndexTypeOK, Contents
  <1>4. Shape'
    BY <1>1, <1>2 DEF IndexInv, Core, Shape
  <1>5. Emptying'
    BY <1>1, <1>2, Names, HeadStays DEF IndexInv, Core, Emptying
  <1>6. \A e \in Docs : /\ RebuildHas(e)' = RebuildHas(e)
                        /\ \A u \in Tasks : Carries(u, e)' = Carries(u, e)
    <2>1. task[t].doc = NoText /\ task[t].todo = {}
      BY <1>1 DEF IndexInv, Core, Shape
    <2> QED
      BY <1>1, <1>2, <2>1, Names DEF RebuildHas, Carries
  <1>7. \A u \in Tasks : clean[u] # {} => task'[u] = task[u]
    BY <1>1, <1>2
  <1>8. Sound' /\ Clean'
    BY <1>3, <1>6, <1>7, TouchedCore
  <1> QED
    BY <1>4, <1>5, <1>8 DEF Core

\* A door takes a topic.
LEMMA DoorCore ==
  ASSUME IndexInv, NEW t \in Doors, NEW d \in Topics, NEW x, x # Blank,
         Writes(t, d, x) \/ Requests(t, d, x)
  PROVE  Core'
  <1>1. /\ t \in Others /\ t \in Tasks /\ t # Rebuild /\ t \notin Syncs /\ d \in Docs
        /\ task[t].pc = "idle" /\ clean[t] = {}
    <2>1. task[t].pc = "idle"
      BY DEF Writes, Requests
    <2> QED
      BY <2>1, Names DEF Others, Docs, IndexInv, Core, Clean, Ready
  <1>2. PICK p \in {"adding", "created"} : Takes(t, d, x, p)
    BY DEF Writes, Requests
  <1>3. /\ task' = [task EXCEPT ![t] = [Idle EXCEPT !.pc = p, !.doc = d, !.text = x]]
        /\ truth' = [truth EXCEPT ![d] = x] /\ TakenBy(t, {d})
        /\ index' = index /\ disk' = disk
        /\ queue' = queue \/ queue' = Append(queue, t)
    BY <1>2 DEF Takes, Writes, Requests
  <1>4. /\ task'[t].pc = p /\ task'[t].doc = d /\ task'[t].todo = {} /\ task'[t].text = x
        /\ \A u \in Tasks \ {t} : task'[u] = task[u]
    BY <1>1, <1>3 DEF Idle, IndexInv, IndexTypeOK
  <1>5. truth'[d] = x /\ \A e \in Docs \ {d} : truth'[e] = truth[e]
    BY <1>1, <1>3 DEF IndexInv, IndexTypeOK, Contents
  <1>6. Shape'
    BY <1>1, <1>4 DEF IndexInv, Core, Shape
  <1>7. Emptying'
    BY <1>1, <1>3, <1>4, Names, HeadStays DEF IndexInv, Core, Emptying
  <1>8. /\ \A e \in Docs : /\ RebuildHas(e)' = RebuildHas(e)
                           /\ Carries(t, e)' <=> e = d
                           /\ \A u \in Tasks \ {t} : Carries(u, e)' = Carries(u, e)
    BY <1>1, <1>4, Names DEF RebuildHas, Carries
  <1>9. /\ settled' = settled \ {d}
        /\ \A u \in Tasks \ {t} : clean'[u] = clean[u] \ {d}
        /\ clean'[t] = {e \in {d} : \A v \in Tasks \ {t} : ~Carries(v, e)}
    BY <1>1, <1>3 DEF TakenBy
  <1>10. Sound'
    BY <1>3, <1>5, <1>8, <1>9 DEF IndexInv, IndexTypeOK, Core, Sound, Others
  <1>11. Clean'
    <2> SUFFICES ASSUME NEW u \in Tasks, NEW e \in clean'[u]
                 PROVE  u # Rebuild /\ Ready(u, e)' /\ Sole(u, e)'
      BY DEF Clean
    <2>1. CASE u # t
      <3>1. e \in clean[u] /\ e \in Docs /\ e # d
        BY <1>9, <2>1 DEF IndexInv, IndexTypeOK
      <3>2. u # Rebuild /\ Ready(u, e) /\ Sole(u, e)
        BY <3>1 DEF IndexInv, Core, Clean
      <3>3. Ready(u, e)'
        BY <1>3, <1>4, <1>5, <1>8, <2>1, <3>1, <3>2 DEF Ready
      <3>4. Sole(u, e)'
        BY <1>8, <3>1, <3>2 DEF Sole, Others
      <3> QED
        BY <3>2, <3>3, <3>4
    <2>2. CASE u = t
      <3>1. e = d /\ \A v \in Tasks \ {t} : ~Carries(v, d)
        BY <1>9, <2>2
      <3>2. ~RebuildHas(d)
        BY <1>1, <3>1, Names DEF RebuildHas, Carries
      <3>3. Ready(t, d)'
        BY <1>1, <1>4, <1>5, <1>8 DEF Ready
      <3>4. Sole(t, d)'
        BY <1>1, <1>8, <3>1, <3>2 DEF Sole, Others
      <3> QED
        BY <1>1, <2>2, <3>1, <3>3, <3>4
    <2> QED
      BY <2>1, <2>2
  <1> QED
    BY <1>6, <1>7, <1>10, <1>11 DEF Core

LEMMA RestartCore ==
  ASSUME IndexInv, Restart
  PROVE  Core'
  <1>1. /\ index' = disk /\ truth' = truth /\ disk' = disk /\ settled' = settled
        /\ \A t \in Tasks : clean'[t] = {}
        /\ queue' = IF disk = Nothing THEN <<Rebuild>> ELSE <<>>
    BY DEF Restart, Boots
  <1>2. /\ \A t \in Tasks : /\ task'[t].doc = NoText /\ task'[t].text = NoText /\ task'[t].todo = {}
                            /\ task'[t].pc \in {"idle", "created", "clearing"}
        /\ task'[Rebuild].pc = IF disk = Nothing THEN "clearing" ELSE "idle"
    <2>1. \A t \in Tasks :
            task'[t] \in {Idle, [Idle EXCEPT !.pc = "created"], [Idle EXCEPT !.pc = "clearing"]}
      BY DEF Restart, Boots
    <2>2. task'[Rebuild] = IF disk = Nothing THEN [Idle EXCEPT !.pc = "clearing"] ELSE Idle
      BY SearchIndexAssumption, Names DEF Restart, Boots, Syncs
    <2> QED
      BY <2>1, <2>2 DEF Idle
  <1>3. Shape'
    BY <1>2 DEF Shape
  <1>4. Emptying'
    BY <1>1, <1>2 DEF Emptying
  <1>5. Sound'
    BY <1>1, <1>2, Names DEF IndexInv, IndexTypeOK, Core, Sound, Carries, RebuildHas, Others
  <1>6. Clean'
    BY <1>1 DEF Clean
  <1> QED
    BY <1>3, <1>4, <1>5, <1>6 DEF Core

-----------------------------------------------------------------------------
LEMMA StepInv == IndexInv /\ [IndexNext]_indexVars => IndexInv'
  <1> SUFFICES ASSUME IndexInv, [IndexNext]_indexVars PROVE Core'
    BY StepType DEF IndexInv
  <1>1. ASSUME NEW t \in Tasks, IndexSteps(t) PROVE Core'
    <2>1. CASE Clears(t)
      <3>1. t \in Syncs \/ t \in Doors \/ t = Rebuild
        BY Names DEF Others
      <3> QED
        BY <2>1, <3>1, ClearsSync, ClearsDoor, ClearsRebuild
    <2> QED
      BY <1>1, <2>1, BeginsCore, EndsCore, OverCore, StartsCore DEF IndexSteps
  <1>2. ASSUME NEW t \in Deeps, DeepSteps(t) PROVE Core'
    BY <1>2, DeepCore
  <1>3. ASSUME NEW t \in Doors, DoorSteps(t) PROVE Core'
    <2> PICK d \in Topics : \E x \in TextsOf[d] \cup {NoText} : Writes(t, d, x) \/ Requests(t, d, x)
      BY <1>3 DEF DoorSteps
    <2>1. PICK x \in TextsOf[d] \cup {NoText} : Writes(t, d, x) \/ Requests(t, d, x)
      OBVIOUS
    <2>2. CASE x = Blank
      <3>1. PICK p \in {"saving", "created"} : Takes(t, d, x, p)
        BY <2>1, <2>2 DEF Writes, Requests
      <3>2. /\ truth' = [truth EXCEPT ![d] = x] /\ Touched({d})
            /\ task[t].pc = "idle" /\ task' = [task EXCEPT ![t] = [Idle EXCEPT !.pc = p]]
            /\ index' = index /\ disk' = disk
            /\ queue' = queue \/ queue' = Append(queue, t)
        BY <2>1, <2>2, <3>1 DEF Writes, Requests, Takes
      <3> QED
        BY <3>2, BlankCore
    <2>3. CASE x # Blank
      BY <2>1, <2>3, DoorCore
    <2> QED
      BY <2>2, <2>3
  <1>4. CASE \E f \in Facts : \E x \in TextsOf[f] \cup {NoText} : FactChanges(f, x)
    BY <1>4, ChangesCore DEF Docs
  <1>5. CASE \E d \in Topics : \E x \in TextsOf[d] \cup {NoText} : TopicChanges(d, x)
    BY <1>5, ChangesCore DEF Docs
  <1>6. CASE Restart
    BY <1>6, RestartCore
  <1>7. CASE UNCHANGED indexVars
    BY <1>7 DEF indexVars, IndexInv, Core, Shape, Emptying, Sound, Clean, Ready, Sole, Carries,
                RebuildHas
  <1> QED
    BY <1>1, <1>2, <1>3, <1>4, <1>5, <1>6, <1>7 DEF IndexNext

LEMMA IndexInvariant == IndexSpec => []IndexInv
  BY InitInv, StepInv, PTL DEF IndexSpec

\* Whatever tasks share the index (VectorIndex), documents change, encodings fail and the
\* process restarts, a document that one task published to the end, alone and unchanged
\* since, is in the index as the memory has it.
THEOREM SettledStaysExact == IndexSpec => []SettledIsExact
  <1>1. IndexInv => SettledIsExact
    BY DEF IndexInv, Core, Sound, SettledIsExact
  <1> QED
    BY <1>1, IndexInvariant, PTL

\* The index, the lock and the tasks keep their types.
THEOREM TypeCorrect == IndexSpec => []IndexTypeOK
  <1>1. IndexInv => IndexTypeOK
    BY DEF IndexInv
  <1> QED
    BY <1>1, IndexInvariant, PTL

\* The file of the index, which the restart reads (load), is as exact.
THEOREM SettledIsOnDisk == IndexSpec => [](\A d \in settled : disk[d] = truth[d])
  <1>1. IndexInv => \A d \in settled : disk[d] = truth[d]
    BY DEF IndexInv, Core, Sound
  <1> QED
    BY <1>1, IndexInvariant, PTL

(***************************************************************************)
(* What the assistant spends.  Sums of expenses come first: they are        *)
(* defined by recursion, and the library's induction takes an operator,     *)
(* so that induction is here over a set of numbers.                         *)
(***************************************************************************)

\* What holds of 0, and of the next number whenever it holds of one, holds of all: the largest
\* exception has none before it.
LEMMA BySteps ==
  ASSUME NEW S, 0 \in S, \A n \in Nat : n \in S => n + 1 \in S
  PROVE  Nat \subseteq S
  <1> SUFFICES ASSUME NEW n \in Nat, n \notin S PROVE FALSE
    OBVIOUS
  <1> DEFINE F == {m \in 0..n : m \notin S}
             g == [m \in F |-> m - 1]
  <1>1. IsFiniteSet(F)
    <2>1. IsFiniteSet(0..n)
      BY FS_Interval
    <2>2. F \in SUBSET (0..n)
      OBVIOUS
    <2> QED
      BY <2>1, <2>2, FS_Subset
  <1>2. ASSUME NEW m \in F PROVE m - 1 \in F
    <2>1. m \in Nat /\ m # 0 /\ m <= n
      OBVIOUS
    <2>2. m - 1 \in Nat /\ (m - 1) + 1 = m
      BY <2>1
    <2> QED
      BY <2>1, <2>2
  <1>3. g \in Injection(F, F)
    <2>1. g \in [F -> F]
      BY <1>2
    <2>2. \A a, b \in F : g[a] = g[b] => a = b
      OBVIOUS
    <2> QED
      BY <2>1, <2>2 DEF Injection, IsInjective
  <1>4. g \in Surjection(F, F)
    BY <1>1, <1>3, FS_Injection
  <1>5. n \in F
    OBVIOUS
  <1>6. PICK m \in F : g[m] = n
    <2> HIDE DEF F, g
    <2> QED
      BY <1>4, <1>5 DEF Surjection
  <1>7. g[m] = m - 1 /\ m \in 0..n
    BY <1>6
  <1> QED
    BY <1>6, <1>7

\* g sums s up, from the front.
SumsUp(s, g) == g = [n \in 0..Len(s) |-> IF n = 0 THEN 0 ELSE g[n - 1] + s[n]]

LEMMA SumExists ==
  ASSUME NEW s \in Seq(Nat)
  PROVE  \E g \in [0..Len(s) -> Nat] : SumsUp(s, g)
  <1> DEFINE Part(n) == \E g \in [0..n -> Nat] :
                          g = [k \in 0..n |-> IF k = 0 THEN 0 ELSE g[k - 1] + s[k]]
             S == {n \in Nat : n <= Len(s) => Part(n)}
  <1>1. Len(s) \in Nat /\ \A k \in 1..Len(s) : s[k] \in Nat
    BY LenProperties, ElementOfSeq
  <1>2. 0 \in S
    <2> DEFINE g == [k \in 0..0 |-> 0]
    <2>1. g \in [0..0 -> Nat] /\ g = [k \in 0..0 |-> IF k = 0 THEN 0 ELSE g[k - 1] + s[k]]
      OBVIOUS
    <2> QED
      BY <2>1
  <1>3. ASSUME NEW n \in Nat, n \in S, n + 1 <= Len(s)
        PROVE  Part(n + 1)
    <2>1. PICK f \in [0..n -> Nat] : f = [k \in 0..n |-> IF k = 0 THEN 0 ELSE f[k - 1] + s[k]]
      BY <1>1, <1>3
    <2> DEFINE g == [k \in 0..n + 1 |-> IF k = n + 1 THEN f[n] + s[n + 1] ELSE f[k]]
    <2>2. f[n] \in Nat /\ s[n + 1] \in Nat
      BY <1>1, <1>3
    <2>3. \A k \in 0..n : k # n + 1 /\ f[k] \in Nat
      OBVIOUS
    <2>4. g \in [0..n + 1 -> Nat]
      BY <2>2, <2>3
    <2>5. ASSUME NEW k \in 0..n + 1
          PROVE  g[k] = IF k = 0 THEN 0 ELSE g[k - 1] + s[k]
      <3>1. CASE k = n + 1
        BY <3>1
      <3>2. CASE k = 0
        BY <3>2, <2>1
      <3>3. CASE k # 0 /\ k # n + 1
        <4>1. k \in 0..n /\ k - 1 \in 0..n
          BY <3>3
        <4>2. f[k] = f[k - 1] + s[k]
          BY <2>1, <3>3, <4>1
        <4> QED
          BY <3>3, <4>1, <4>2
      <3> QED
        BY <3>1, <3>2, <3>3
    <2>6. g = [k \in 0..n + 1 |-> IF k = 0 THEN 0 ELSE g[k - 1] + s[k]]
      BY <2>5
    <2> QED
      BY <2>4, <2>6
  <1>4. Nat \subseteq S
    <2>1. ASSUME NEW n \in Nat, n \in S PROVE n + 1 \in S
      <3>1. n + 1 <= Len(s) => Part(n + 1)
        BY <1>3, <2>1
      <3> HIDE DEF Part
      <3> QED
        BY <3>1
    <2> HIDE DEF S
    <2> QED
      BY <1>2, <2>1, BySteps
  <1>5. Len(s) \in S
    BY <1>1, <1>4
  <1>6. PICK g \in [0..Len(s) -> Nat] :
          g = [k \in 0..Len(s) |-> IF k = 0 THEN 0 ELSE g[k - 1] + s[k]]
    BY <1>1, <1>5
  <1> QED
    BY <1>6 DEF SumsUp

\* Sums of sequences that begin alike are the same as far as they do.
LEMMA SameSums ==
  ASSUME NEW s \in Seq(Nat), NEW t \in Seq(Nat), NEW g, NEW h, SumsUp(s, g), SumsUp(t, h),
         NEW n \in Nat, n <= Len(s), n <= Len(t), \A k \in 1..n : s[k] = t[k]
  PROVE  g[n] = h[n]
  <1> DEFINE S == {k \in Nat : k <= n => g[k] = h[k]}
  <1>1. Len(s) \in Nat /\ Len(t) \in Nat
    BY LenProperties
  <1>2. /\ \A k \in 0..Len(s) : g[k] = IF k = 0 THEN 0 ELSE g[k - 1] + s[k]
        /\ \A k \in 0..Len(t) : h[k] = IF k = 0 THEN 0 ELSE h[k - 1] + t[k]
    BY DEF SumsUp
  <1>3. 0 \in S
    BY <1>1, <1>2
  <1>4. ASSUME NEW k \in Nat, k \in S PROVE k + 1 \in S
    <2>1. CASE k + 1 <= n
      <3>1. k + 1 \in 0..Len(s) /\ k + 1 \in 0..Len(t) /\ k + 1 # 0 /\ (k + 1) - 1 = k
        BY <1>1, <2>1
      <3>2. g[k] = h[k] /\ s[k + 1] = t[k + 1]
        BY <1>4, <2>1
      <3>3. g[k + 1] = g[k] + s[k + 1] /\ h[k + 1] = h[k] + t[k + 1]
        BY <1>2, <3>1
      <3> QED
        BY <3>2, <3>3
    <2> QED
      BY <2>1
  <1>5. Nat \subseteq S
    BY <1>3, <1>4, BySteps
  <1> QED
    BY <1>5

\* Sum is what any function that sums up ends with.
LEMMA SumIs ==
  ASSUME NEW s \in Seq(Nat), NEW g, SumsUp(s, g)
  PROVE  Sum(s) = g[Len(s)]
  <1> DEFINE h == CHOOSE f : SumsUp(s, f)
  <1>1. SumsUp(s, h)
    OBVIOUS
  <1>2. Sum(s) = h[Len(s)]
    BY DEF Sum, SumsUp
  <1>3. g[Len(s)] = h[Len(s)]
    <2> HIDE DEF h
    <2>1. Len(s) \in Nat /\ Len(s) <= Len(s) /\ \A k \in 1..Len(s) : s[k] = s[k]
      BY LenProperties
    <2>2. \A n \in Nat : n <= Len(s) => g[n] = h[n]
      BY <1>1, SameSums
    <2> QED
      BY <2>1, <2>2
  <1> QED
    BY <1>2, <1>3

LEMMA SumOfNone == Sum(<<>>) = 0
  <1>1. <<>> \in Seq(Nat) /\ Len(<<>>) = 0
    BY EmptySeq
  <1>2. PICK g \in [0..Len(<<>>) -> Nat] : SumsUp(<<>>, g)
    BY <1>1, SumExists
  <1>3. Sum(<<>>) = g[0]
    BY <1>1, <1>2, SumIs
  <1> QED
    BY <1>1, <1>2, <1>3 DEF SumsUp

LEMMA SumNat ==
  ASSUME NEW s \in Seq(Nat)
  PROVE  Sum(s) \in Nat
  <1>1. PICK g \in [0..Len(s) -> Nat] : SumsUp(s, g)
    BY SumExists
  <1>2. Sum(s) = g[Len(s)] /\ Len(s) \in Nat
    BY <1>1, SumIs, LenProperties
  <1> QED
    BY <1>2

\* One more expense, at the end.
LEMMA SumOfMore ==
  ASSUME NEW s \in Seq(Nat), NEW c \in Nat
  PROVE  Sum(Append(s, c)) = Sum(s) + c
  <1> DEFINE t == Append(s, c)
  <1>1. /\ t \in Seq(Nat) /\ Len(t) = Len(s) + 1 /\ Len(s) \in Nat
        /\ \A k \in 1..Len(s) : t[k] = s[k]
        /\ t[Len(s) + 1] = c
    BY AppendProperties, LenProperties
  <1> HIDE DEF t
  <1>2. PICK g \in [0..Len(s) -> Nat] : SumsUp(s, g)
    BY SumExists
  <1>3. PICK h \in [0..Len(t) -> Nat] : SumsUp(t, h)
    BY <1>1, SumExists
  <1>4. g[Len(s)] = h[Len(s)]
    <2>1. PICK n \in Nat : n = Len(s)
      BY <1>1
    <2>2. t \in Seq(Nat) /\ n <= Len(s) /\ n <= Len(t)
      BY <1>1, <2>1
    <2>3. \A k \in 1..n : s[k] = t[k]
      BY <1>1, <2>1
    <2>4. SumsUp(s, g) /\ SumsUp(t, h)
      BY <1>2, <1>3
    <2>5. g[n] = h[n]
      BY <2>2, <2>3, <2>4, SameSums
    <2> QED
      BY <2>1, <2>5
  <1>5. h[Len(s) + 1] = h[Len(s)] + c
    <2>1. Len(s) + 1 \in 0..Len(t) /\ Len(s) + 1 # 0 /\ (Len(s) + 1) - 1 = Len(s)
      BY <1>1
    <2>2. \A k \in 0..Len(t) : h[k] = IF k = 0 THEN 0 ELSE h[k - 1] + t[k]
      BY <1>3 DEF SumsUp
    <2> QED
      BY <1>1, <2>1, <2>2
  <1>6. Sum(s) = g[Len(s)] /\ Sum(t) = h[Len(s) + 1]
    BY <1>1, <1>2, <1>3, SumIs
  <1> QED
    BY <1>4, <1>5, <1>6 DEF t

\* One less, from the front.
LEMMA SumOfLess ==
  ASSUME NEW s \in Seq(Nat), s # <<>>
  PROVE  Sum(s) = Head(s) + Sum(Tail(s)) /\ Head(s) \in Nat /\ Sum(Tail(s)) \in Nat
  <1> DEFINE t == Tail(s)
             c == Head(s)
  <1>1. /\ c \in Nat /\ t \in Seq(Nat) /\ Len(s) \in Nat /\ Len(t) \in Nat
        /\ Len(s) = Len(t) + 1 /\ \A k \in 1..Len(t) : t[k] = s[k + 1]
    BY HeadTailProperties, LenProperties
  <1>2. c = s[1]
    BY DEF Head
  <1> HIDE DEF t, c
  <1>3. PICK g \in [0..Len(s) -> Nat] : SumsUp(s, g)
    BY SumExists
  <1>4. PICK h \in [0..Len(t) -> Nat] : SumsUp(t, h)
    BY <1>1, SumExists
  <1>5. /\ \A k \in 0..Len(s) : g[k] = IF k = 0 THEN 0 ELSE g[k - 1] + s[k]
        /\ \A k \in 0..Len(t) : h[k] = IF k = 0 THEN 0 ELSE h[k - 1] + t[k]
    BY <1>3, <1>4 DEF SumsUp
  <1> DEFINE S == {k \in Nat : k <= Len(t) => g[k + 1] = c + h[k]}
  <1>6. 0 \in S
    <2>1. 1 \in 0..Len(s) /\ 0 \in 0..Len(s) /\ 0 \in 0..Len(t)
      BY <1>1
    <2>2. g[1] = g[0] + s[1] /\ g[0] = 0 /\ h[0] = 0
      BY <1>5, <2>1
    <2> QED
      BY <1>1, <1>2, <2>2
  <1>7. ASSUME NEW k \in Nat, k \in S PROVE k + 1 \in S
    <2>1. CASE k + 1 <= Len(t)
      <3>1. /\ k + 2 \in 0..Len(s) /\ k + 2 # 0 /\ (k + 2) - 1 = k + 1
            /\ k + 1 \in 0..Len(t) /\ k + 1 # 0 /\ (k + 1) - 1 = k
            /\ k + 1 \in 1..Len(t) /\ (k + 1) + 1 = k + 2 /\ k \in 0..Len(t)
        BY <1>1, <2>1
      <3>2. g[k + 2] = g[k + 1] + s[k + 2] /\ h[k + 1] = h[k] + t[k + 1]
        BY <1>5, <3>1
      <3>3. g[k + 1] = c + h[k] /\ t[k + 1] = s[k + 2]
        BY <1>1, <1>7, <3>1
      <3>4. h[k] \in Nat /\ t[k + 1] \in Nat
        BY <1>1, <1>4, <3>1, ElementOfSeq
      <3>5. g[k + 2] = c + h[k + 1]
        BY <1>1, <3>2, <3>3, <3>4
      <3> QED
        BY <3>1, <3>5
    <2> QED
      BY <1>1, <2>1
  <1>8. Nat \subseteq S
    BY <1>6, <1>7, BySteps
  <1>9. Sum(s) = g[Len(t) + 1] /\ Sum(t) = h[Len(t)]
    BY <1>1, <1>3, <1>4, SumIs
  <1>10. Sum(s) = c + Sum(t)
    BY <1>1, <1>8, <1>9
  <1>11. Sum(t) \in Nat
    BY <1>1, SumNat
  <1> QED
    BY <1>1, <1>10, <1>11 DEF t, c

(***************************************************************************)
(* The guard.  Whatever a cycle of the engine does, money is spent by the   *)
(* steps of Spending alone: what the engine pays is paid as a conversation. *)
(***************************************************************************)
LEMMA EngineSpends == [Next]_vars => SpendingNext \/ SpendingRestart \/ UNCHANGED spendingVars
  <1> SUFFICES ASSUME [Next]_vars, ~SpendingNext, ~SpendingRestart PROVE UNCHANGED spendingVars
    OBVIOUS
  <1>1. CASE UNCHANGED vars
    BY <1>1 DEF vars
  <1>2. ASSUME NEW t \in Runners, StartsCycle(t) \/ Looks(t) \/ Records(t) \/ Tells(t)
         PROVE  UNCHANGED spendingVars
    BY <1>2 DEF StartsCycle, Looks, Records, Tells
  <1>3. ASSUME NEW t \in Runners, Generates(t) \/ Drafts(t) PROVE UNCHANGED spendingVars
    BY <1>3 DEF Generates, Drafts, SpendingNext, Converse, spendingVars
  <1>4. CASE (\E i \in Ids : Settle(i)) \/ Drain \/ Dusk
    BY <1>4 DEF Settle, Drain, Dusk
  <1>5. CASE EngineRestarts
    BY <1>5 DEF EngineRestarts
  <1> QED
    BY <1>1, <1>2, <1>3, <1>4, <1>5 DEF Next

\* Each threshold is told once: what has been told is one of five sequences.
Sayings == {<<>>, <<"ceiling">>, <<"alert">>, <<"ceiling", "alert">>, <<"alert", "ceiling">>}

MoneyTyped == SpendingTypeOK /\ said \in Sayings

LEMMA AppendToOne ==
  ASSUME NEW S, NEW s \in Seq(S), NEW b \in S, NEW t \in Seq(S),
         Len(s) = 1, Len(t) = 2, t[1] = s[1], t[2] = b
  PROVE  Append(s, b) = t
  <1>1. Append(s, b) \in Seq(S)
    BY AppendProperties, Zenon
  <1>2. Len(Append(s, b)) = 2 /\ Append(s, b)[1] = s[1] /\ Append(s, b)[2] = b
    <2>1. Len(Append(s, b)) = Len(s) + 1
      BY AppendProperties, Zenon
    <2>2. Append(s, b)[1] = s[1]
      <3>1. ASSUME NEW i \in 1..Len(s) PROVE Append(s, b)[i] = s[i]
        BY AppendProperties
      <3> QED
        BY <3>1
    <2>3. Append(s, b)[Len(s) + 1] = b
      BY AppendProperties, Zenon
    <2> QED
      BY <2>1, <2>2, <2>3
  <1>3. \A i \in 1..2 : i = 1 \/ i = 2
    OBVIOUS
  <1>4. \A i \in 1..2 : Append(s, b)[i] = t[i]
    BY <1>2, <1>3
  <1> QED
    BY <1>1, <1>2, <1>4, SeqEqual

LEMMA Pairs ==
  ASSUME NEW a, NEW b
  PROVE  Append(<<a>>, b) = <<a, b>>
  <1>1. <<a>> \in Seq({a, b}) /\ Len(<<a>>) = 1 /\ <<a>>[1] = a
    OBVIOUS
  <1>2. <<a, b>> \in Seq({a, b}) /\ Len(<<a, b>>) = 2 /\ <<a, b>>[1] = a /\ <<a, b>>[2] = b
    OBVIOUS
  <1> QED
    BY <1>1, <1>2, AppendToOne, Zenon

LEMMA OneMoreSaying ==
  ASSUME NEW s \in Sayings, NEW t \in {"ceiling", "alert"}, t \notin ToSet(s)
  PROVE  Append(s, t) \in Sayings /\ ToSet(Append(s, t)) = ToSet(s) \cup {t}
  <1>1. CASE s = <<>>
    <2>1. Append(s, t) = <<t>>
      BY <1>1
    <2> QED
      BY <1>1, <2>1 DEF ToSet, Sayings
  <1>2. CASE s = <<"ceiling">>
    <2>1. ToSet(s) = {"ceiling"}
      BY <1>2 DEF ToSet
    <2>2. t = "alert"
      BY <2>1
    <2>3. Append(<<"ceiling">>, "alert") = <<"ceiling", "alert">>
      BY Pairs
    <2>4. Append(s, t) = <<"ceiling", "alert">>
      BY <1>2, <2>2, <2>3
    <2> QED
      BY <2>1, <2>2, <2>4 DEF ToSet, Sayings
  <1>3. CASE s = <<"alert">>
    <2>1. ToSet(s) = {"alert"}
      BY <1>3 DEF ToSet
    <2>2. t = "ceiling"
      BY <2>1
    <2>3. Append(<<"alert">>, "ceiling") = <<"alert", "ceiling">>
      BY Pairs
    <2>4. Append(s, t) = <<"alert", "ceiling">>
      BY <1>3, <2>2, <2>3
    <2> QED
      BY <2>1, <2>2, <2>4 DEF ToSet, Sayings
  <1>4. CASE s \in {<<"ceiling", "alert">>, <<"alert", "ceiling">>}
    <2>1. ToSet(s) = {"ceiling", "alert"}
      BY <1>4 DEF ToSet
    <2> QED
      BY <2>1
  <1> QED
    BY <1>1, <1>2, <1>3, <1>4 DEF Sayings

LEMMA SayingsAreShort ==
  ASSUME NEW s \in Sayings
  PROVE  s \in Seq({"ceiling", "alert"}) /\ Len(s) <= 2
  <1>1. CASE s = <<>>
    BY <1>1
  <1>2. CASE s = <<"ceiling">>
    BY <1>2
  <1>3. CASE s = <<"alert">>
    BY <1>3
  <1>4. CASE s = <<"ceiling", "alert">>
    BY <1>4
  <1>5. CASE s = <<"alert", "ceiling">>
    BY <1>5
  <1> QED
    BY <1>1, <1>2, <1>3, <1>4, <1>5 DEF Sayings

Dearest == Max(Costs)

LEMMA DearestBounds == Dearest \in Nat /\ \A c \in Costs : c \in Nat /\ c <= Dearest
  <1>1. Costs \subseteq Nat /\ \E d \in Costs : \A c \in Costs : c <= d
    BY SpendingAssumption
  <1>2. \E d \in Costs : \A c \in Costs : d >= c
    BY <1>1
  <1>3. Dearest \in Costs /\ \A c \in Costs : Dearest >= c
    BY <1>2 DEF Dearest, Max
  <1> QED
    BY <1>1, <1>3

LEMMA MoneyConstants ==
  /\ Monthly \in Nat /\ Alert \in Nat /\ PerProject \in Nat /\ Estimate \in Nat
  /\ MaxCalls \in Nat /\ MaxMonths \in Nat /\ MaxSpent \in Nat
  /\ Costs \subseteq Nat /\ IsFiniteSet(Workers) /\ Alert <= Monthly
  BY SpendingAssumption

-----------------------------------------------------------------------------
\* What the cleared workers may still call for, one pair a call.
Left == {a \in Workers \X (1..MaxCalls) :
           worker[a[1]].pc = "cleared" /\ a[2] <= worker[a[1]].calls}

\* What the workers may spend between them, above what no reservation weighs.
Ceiling == PerProject - Estimate + Cardinality(Workers) * MaxCalls * Dearest

\* The guard misses no more of the ledger than what is unguarded; no one else spends on a
\* mission whose ceiling is under one estimate; and what is spent, with what the cleared may
\* yet spend, is never more than a full step of every worker above what the last one to be
\* cleared found.  It holds of the ledger too, since a restart counts from there again.
Committed ==
  /\ ledger.mission <= project + unguarded
  /\ (\/ project > unguarded \/ ledger.mission > unguarded
      \/ \E w \in Workers : worker[w].pc = "cleared") => Estimate <= PerProject
  /\ Estimate <= PerProject =>
       /\ project + Dearest * Cardinality(Left) <= Ceiling + unguarded
       /\ ledger.mission + Dearest * Cardinality(Left) <= Ceiling + unguarded

MoneyInv == MoneyTyped /\ MemoryMatchesLedger /\ CeilingIsHeard /\ Committed

\* There are no more calls left than workers times the calls of a step.
LEMMA LeftIsFinite ==
  /\ IsFiniteSet(Left) /\ Cardinality(Left) \in Nat
  /\ Cardinality(Workers) \in Nat /\ Cardinality(Left) <= Cardinality(Workers) * MaxCalls
  <1>1. IsFiniteSet(1..MaxCalls) /\ Cardinality(1..MaxCalls) = MaxCalls
    BY MoneyConstants, FS_Interval
  <1>2. /\ IsFiniteSet(Workers \X (1..MaxCalls))
        /\ Cardinality(Workers \X (1..MaxCalls)) = Cardinality(Workers) * MaxCalls
    BY <1>1, MoneyConstants, FS_Product
  <1>3. Left \in SUBSET (Workers \X (1..MaxCalls))
    BY DEF Left
  <1> QED
    BY <1>2, <1>3, MoneyConstants, FS_Subset, FS_CardinalityType

LEMMA LeftStaysFinite ==
  /\ IsFiniteSet(Left') /\ Cardinality(Left') \in Nat
  /\ Cardinality(Workers) \in Nat /\ Cardinality(Left') <= Cardinality(Workers) * MaxCalls
  <1>1. IsFiniteSet(1..MaxCalls) /\ Cardinality(1..MaxCalls) = MaxCalls
    BY MoneyConstants, FS_Interval
  <1>2. /\ IsFiniteSet(Workers \X (1..MaxCalls))
        /\ Cardinality(Workers \X (1..MaxCalls)) = Cardinality(Workers) * MaxCalls
    BY <1>1, MoneyConstants, FS_Product
  <1>3. Left' \in SUBSET (Workers \X (1..MaxCalls))
    BY DEF Left
  <1> QED
    BY <1>2, <1>3, MoneyConstants, FS_Subset, FS_CardinalityType

-----------------------------------------------------------------------------
\* What a paid call does to the money.
LEMMA Paid ==
  ASSUME MoneyTyped, NEW kind \in {"mission", "other"}, NEW c \in Costs, Track(kind, c)
  PROVE  /\ c \in Nat /\ c <= Dearest
         /\ ledger' \in [{"mission", "other"} -> Nat] /\ Total(ledger') = Total(ledger) + c
         /\ ledger'.mission = IF kind = "mission" THEN ledger.mission + c ELSE ledger.mission
         /\ project' = IF kind = "mission" THEN project + c ELSE project
         /\ owed' \in Seq(Costs) /\ Sum(owed') = Sum(owed) + c
         /\ UNCHANGED <<memo, said, noted>>
  <1>1. c \in Nat /\ c <= Dearest
    BY DearestBounds
  <1>2. /\ ledger \in [{"mission", "other"} -> Nat] /\ owed \in Seq(Costs)
    BY DEF MoneyTyped, SpendingTypeOK
  <1>3. /\ ledger' \in [{"mission", "other"} -> Nat] /\ Total(ledger') = Total(ledger) + c
        /\ ledger'.mission = IF kind = "mission" THEN ledger.mission + c ELSE ledger.mission
    <2>1. ledger' = [ledger EXCEPT ![kind] = @ + c]
      BY DEF Track
    <2>2. CASE kind = "mission"
      BY <1>1, <1>2, <2>1, <2>2 DEF Total
    <2>3. CASE kind = "other"
      BY <1>1, <1>2, <2>1, <2>3 DEF Total
    <2> QED
      BY <2>2, <2>3
  <1>4. owed' \in Seq(Costs) /\ Sum(owed') = Sum(owed) + c
    <2>1. owed' = Append(owed, c)
      BY DEF Track
    <2>2. owed \in Seq(Nat)
      BY <1>2, MoneyConstants, SeqMonotonic
    <2>3. Sum(Append(owed, c)) = Sum(owed) + c
      BY <1>1, <2>2, SumOfMore
    <2>4. Append(owed, c) \in Seq(Costs)
      BY <1>2, AppendProperties
    <2> QED
      BY <2>1, <2>3, <2>4
  <1> QED
    BY <1>1, <1>3, <1>4 DEF Track

\* What counting the oldest expense does: it goes from what is owed to the total, and no
\* total at or above the ceiling is left unsaid.
LEMMA Counted ==
  ASSUME MoneyTyped, Note
  PROVE  /\ memo' \in Nat /\ owed' \in Seq(Costs)
         /\ memo' + Sum(owed') = memo + Sum(owed)
         /\ said' \in Sayings
         /\ memo' >= Monthly => "ceiling" \in ToSet(said')
         /\ UNCHANGED <<ledger, project, unguarded, month, adrift, worker>> /\ noted' = TRUE
  <1>1. owed \in Seq(Costs) /\ owed # <<>> /\ memo \in Nat /\ said \in Sayings
    BY DEF MoneyTyped, SpendingTypeOK, Note
  <1>2. owed \in Seq(Nat)
    BY <1>1, MoneyConstants, SeqMonotonic
  <1>3. Sum(owed) = Head(owed) + Sum(Tail(owed)) /\ Head(owed) \in Nat /\ Sum(Tail(owed)) \in Nat
    BY <1>1, <1>2, SumOfLess
  <1>4. Tail(owed) \in Seq(Costs)
    BY <1>1, HeadTailProperties
  <1>5. /\ memo' = memo + Head(owed) /\ owed' = Tail(owed)
        /\ said' = IF Due(memo') = {} THEN said ELSE Append(said, HighestFirst(Due(memo')))
    BY DEF Note
  <1>6. /\ said' \in Sayings
        /\ memo' >= Monthly => "ceiling" \in ToSet(said')
    <2>1. memo' >= Monthly /\ "ceiling" \notin ToSet(said) => "ceiling" \in Due(memo')
      BY DEF Due, Level
    <2>2. CASE Due(memo') = {}
      BY <1>1, <1>5, <2>1, <2>2
    <2>3. CASE Due(memo') # {}
      <3> DEFINE t == HighestFirst(Due(memo'))
      <3>1. t \in Due(memo') /\ ("ceiling" \in Due(memo') => t = "ceiling")
        BY <2>3 DEF HighestFirst, Due
      <3>2. t \in {"ceiling", "alert"} /\ t \notin ToSet(said)
        BY <3>1 DEF Due
      <3>3. said' = Append(said, t)
        BY <1>5, <2>3
      <3> HIDE DEF t
      <3>4. said' \in Sayings /\ ToSet(said') = ToSet(said) \cup {t}
        BY <1>1, <3>2, <3>3, OneMoreSaying
      <3> QED
        BY <2>1, <3>1, <3>4
    <2> QED
      BY <2>2, <2>3
  <1> QED
    BY <1>1, <1>3, <1>4, <1>5, <1>6 DEF Note

LEMMA NothingToAnswer == worker' = [w \in Workers |-> Unasked] =>
    /\ worker' \in [Workers -> [pc : {"idle", "asked", "cleared", "stopped", "reflecting"},
                                calls : 0..MaxCalls, global : BOOLEAN]]
    /\ Left' = {}
  BY MoneyConstants DEF Unasked, Left

LEMMA MoneyStart == SpendingInit => MoneyInv
  <1> SUFFICES ASSUME SpendingInit PROVE MoneyInv
    OBVIOUS
  <1> USE DEF SpendingInit
  <1>1. Unasked \in [pc : {"idle", "asked", "cleared", "stopped", "reflecting"}, calls : 0..MaxCalls, global : BOOLEAN]
    BY MoneyConstants DEF Unasked
  <1>2. MoneyTyped
    <2>1. <<>> \in Seq(Costs) /\ <<>> \in Sayings
      BY EmptySeq DEF Sayings
    <2>2. said \in Seq({"ceiling", "alert"}) /\ Len(said) <= 2
      BY <2>1, SayingsAreShort
    <2>3. ledger \in [{"mission", "other"} -> Nat] /\ month \in 0..MaxMonths /\ unguarded \in Nat
      BY MoneyConstants
    <2>4. worker \in [Workers -> [pc : {"idle", "asked", "cleared", "stopped", "reflecting"},
                                  calls : 0..MaxCalls, global : BOOLEAN]]
      BY <1>1
    <2> QED
      BY <2>1, <2>2, <2>3, <2>4 DEF MoneyTyped, SpendingTypeOK
  <1>3. MemoryMatchesLedger
    BY SumOfNone DEF MemoryMatchesLedger, Total
  <1>4. CeilingIsHeard
    BY DEF CeilingIsHeard
  <1>5. Committed
    <2>1. Left = {}
      BY DEF Left, Unasked
    <2>2. Cardinality(Left) = 0
      BY <2>1, FS_EmptySet
    <2>3. Cardinality(Workers) * MaxCalls \in Nat /\ Dearest \in Nat
      BY LeftIsFinite, MoneyConstants, DearestBounds
    <2>4. PICK n \in Nat : n = Cardinality(Workers) * MaxCalls * Dearest
      BY <2>3
    <2>5. Dearest * Cardinality(Left) = 0
      BY <2>2, <2>3
    <2>6. \A w \in Workers : worker[w].pc # "cleared"
      BY DEF Unasked
    <2>7. project = 0 /\ unguarded = 0 /\ ledger.mission = 0
      OBVIOUS
    <2>8. Estimate <= PerProject => Ceiling \in Nat
      BY <2>4, MoneyConstants DEF Ceiling
    <2> QED
      BY <2>5, <2>6, <2>7, <2>8 DEF Committed
  <1> QED
    BY <1>2, <1>3, <1>4, <1>5 DEF MoneyInv

-----------------------------------------------------------------------------
\* Every step keeps the types.
LEMMA MoneyStaysTyped ==
  MoneyTyped /\ (SpendingNext \/ SpendingRestart \/ UNCHANGED spendingVars) => MoneyTyped'
  <1> SUFFICES ASSUME MoneyTyped, SpendingNext \/ SpendingRestart \/ UNCHANGED spendingVars
               PROVE  MoneyTyped'
    OBVIOUS
  <1> DEFINE W == [Workers -> [pc : {"idle", "asked", "cleared", "stopped", "reflecting"},
                               calls : 0..MaxCalls, global : BOOLEAN]]
  <1>0. /\ ledger \in [{"mission", "other"} -> Nat] /\ month \in 0..MaxMonths
        /\ memo \in Nat /\ project \in Nat /\ owed \in Seq(Costs) /\ said \in Sayings
        /\ noted \in BOOLEAN /\ adrift \in BOOLEAN /\ worker \in W /\ unguarded \in Nat
    BY DEF MoneyTyped, SpendingTypeOK
  <1>1. SUFFICES /\ ledger' \in [{"mission", "other"} -> Nat] /\ month' \in 0..MaxMonths
                 /\ memo' \in Nat /\ project' \in Nat /\ owed' \in Seq(Costs)
                 /\ said' \in Sayings
                 /\ noted' \in BOOLEAN /\ adrift' \in BOOLEAN /\ worker' \in W /\ unguarded' \in Nat
    <2>1. said' \in Sayings => said' \in Seq({"ceiling", "alert"}) /\ Len(said') <= 2
      BY SayingsAreShort
    <2> QED
      BY <1>1, <2>1 DEF MoneyTyped, SpendingTypeOK
  <1>2. CASE Note
    BY <1>0, <1>2, Counted
  <1>3. CASE Converse
    <2>1. PICK c \in Costs : Track("other", c)
      BY <1>3 DEF Converse
    <2> QED
      BY <1>0, <1>3, <2>1, Paid DEF Converse
  <1>4. CASE MonthChanges
    BY <1>0, <1>4, MoneyConstants DEF MonthChanges
  <1>5. ASSUME NEW w \in Workers, AsksForTheMonth(w) PROVE worker' \in W /\ UNCHANGED <<money, month, adrift>>
    BY <1>0, <1>5, MoneyConstants DEF AsksForTheMonth, Affords
  <1>6. ASSUME NEW w \in Workers, AsksForTheMission(w) PROVE worker' \in W /\ UNCHANGED <<money, month, adrift>>
    BY <1>0, <1>6 DEF AsksForTheMission
  <1>7. ASSUME NEW w \in Workers, Leaves(w) PROVE worker' \in W /\ UNCHANGED <<money, month, adrift>>
    BY <1>0, <1>7, MoneyConstants DEF Leaves, Unasked
  <1>8. ASSUME NEW w \in Workers, Works(w)
        PROVE  /\ ledger' \in [{"mission", "other"} -> Nat] /\ month' \in 0..MaxMonths
               /\ memo' \in Nat /\ project' \in Nat /\ owed' \in Seq(Costs)
               /\ said' \in Sayings
               /\ noted' \in BOOLEAN /\ adrift' \in BOOLEAN /\ worker' \in W /\ unguarded' \in Nat
    <2>1. PICK c \in Costs : Track("mission", c)
      BY <1>8 DEF Works
    <2>2. worker[w].calls - 1 \in 0..MaxCalls
      BY <1>0, <1>8, MoneyConstants DEF Works
    <2>3. worker' \in W /\ UNCHANGED <<unguarded, month, adrift>>
      BY <1>0, <1>8, <2>2 DEF Works
    <2>4. /\ c \in Nat /\ ledger' \in [{"mission", "other"} -> Nat] /\ project' = project + c
          /\ owed' \in Seq(Costs) /\ UNCHANGED <<memo, said, noted>>
      BY <2>1, Paid
    <2> HIDE DEF W
    <2> QED
      BY <1>0, <2>3, <2>4
  <1>9. CASE SpendingRestart
    <2>1. <<>> \in Seq(Costs) /\ <<>> \in Sayings
      BY EmptySeq DEF Sayings
    <2>2. Total(ledger) \in Nat /\ ledger.mission \in Nat
      BY <1>0 DEF Total
    <2>3. memo' \in Nat /\ project' \in Nat /\ adrift' \in BOOLEAN /\ unguarded' \in Nat
      <3>1. CASE Seeds /\ adrift' = FALSE /\ UNCHANGED unguarded
        BY <1>0, <2>2, <3>1 DEF Seeds
      <3>2. CASE SeedsInPart /\ adrift' = TRUE
        <4>1. memo' = 0 /\ project' \in 0..ledger.mission
          BY <3>2 DEF SeedsInPart
        <4>2. unguarded' = unguarded + (ledger.mission - project')
          BY <3>2 DEF SeedsInPart
        <4>3. project' \in Nat /\ ledger.mission - project' \in Nat
          BY <2>2, <4>1
        <4> QED
          BY <1>0, <3>2, <4>1, <4>2, <4>3
      <3> QED
        BY <1>9, <3>1, <3>2 DEF SpendingRestart
    <2> QED
      BY <1>0, <1>9, <2>1, <2>3, NothingToAnswer DEF SpendingRestart
  <1>10. CASE UNCHANGED spendingVars
    BY <1>0, <1>10 DEF spendingVars, money
  <1>11. ASSUME NEW w \in Workers, Concludes(w) PROVE worker' \in W /\ UNCHANGED <<money, month, adrift>>
    BY <1>0, <1>11, MoneyConstants DEF Concludes
  <1>12. ASSUME NEW w \in Workers, Reflects(w)
         PROVE  /\ ledger' \in [{"mission", "other"} -> Nat] /\ month' \in 0..MaxMonths
                /\ memo' \in Nat /\ project' \in Nat /\ owed' \in Seq(Costs)
                /\ said' \in Sayings
                /\ noted' \in BOOLEAN /\ adrift' \in BOOLEAN /\ worker' \in W /\ unguarded' \in Nat
    <2>1. worker' \in W /\ UNCHANGED <<month, adrift>>
      BY <1>0, <1>12, MoneyConstants DEF Reflects, Unasked
    <2>2. CASE UNCHANGED money
      BY <1>0, <2>1, <2>2 DEF money
    <2>3. ASSUME NEW c \in Costs, Track("mission", c), unguarded' = unguarded + c
          PROVE  /\ ledger' \in [{"mission", "other"} -> Nat] /\ project' \in Nat
                 /\ owed' \in Seq(Costs) /\ unguarded' \in Nat /\ UNCHANGED <<memo, said, noted>>
      BY <1>0, <2>3, Paid
    <2> HIDE DEF W
    <2> QED
      BY <1>0, <1>12, <2>1, <2>2, <2>3 DEF Reflects
  <1> QED
    BY <1>0, <1>2, <1>3, <1>4, <1>5, <1>6, <1>7, <1>8, <1>9, <1>10, <1>11, <1>12 DEF SpendingNext, money

\* Every step keeps what memory says of the ledger.
LEMMA MemoryStaysTrue ==
  /\ MoneyTyped /\ MemoryMatchesLedger
  /\ SpendingNext \/ SpendingRestart \/ UNCHANGED spendingVars
  => MemoryMatchesLedger'
  <1> SUFFICES ASSUME MoneyTyped, MemoryMatchesLedger,
                      SpendingNext \/ SpendingRestart \/ UNCHANGED spendingVars
               PROVE  MemoryMatchesLedger'
    OBVIOUS
  <1>0. /\ ledger \in [{"mission", "other"} -> Nat] /\ memo \in Nat /\ project \in Nat
        /\ owed \in Seq(Costs)
    BY DEF MoneyTyped, SpendingTypeOK
  <1>1. Sum(owed) \in Nat /\ Total(ledger) \in Nat
    <2>1. owed \in Seq(Nat)
      BY <1>0, MoneyConstants, SeqMonotonic
    <2> QED
      BY <1>0, <2>1, SumNat DEF Total
  <1>2. CASE Note
    <2>1. /\ memo' + Sum(owed') = memo + Sum(owed)
          /\ UNCHANGED <<ledger, project, month, adrift, worker>>
      BY <1>2, Counted
    <2> QED
      BY <2>1 DEF MemoryMatchesLedger, Total
  <1>3. ASSUME NEW kind \in {"mission", "other"}, NEW c \in Costs, Track(kind, c), UNCHANGED adrift
        PROVE  MemoryMatchesLedger'
    <2>1. /\ c \in Nat /\ Total(ledger') = Total(ledger) + c
          /\ ledger'.mission = IF kind = "mission" THEN ledger.mission + c ELSE ledger.mission
          /\ project' = IF kind = "mission" THEN project + c ELSE project
          /\ Sum(owed') = Sum(owed) + c /\ memo' = memo
      BY <1>3, Paid
    <2>2. MemoryMatchesLedger' <=>
            adrift' \/ (memo' + Sum(owed') = Total(ledger') /\ project' = ledger'.mission)
      BY DEF MemoryMatchesLedger, Total
    <2> QED
      BY <1>0, <1>1, <1>3, <2>1, <2>2 DEF MemoryMatchesLedger
  <1>4. CASE MonthChanges
    BY <1>4 DEF MonthChanges, MemoryMatchesLedger
  <1>5. CASE SpendingRestart
    <2>1. ledger' = ledger /\ Sum(owed') = 0
      BY <1>5, SumOfNone DEF SpendingRestart
    <2>2. CASE Seeds
      BY <1>1, <2>1, <2>2 DEF Seeds, MemoryMatchesLedger, Total
    <2>3. CASE adrift' = TRUE
      BY <2>3 DEF MemoryMatchesLedger
    <2> QED
      BY <1>5, <2>2, <2>3 DEF SpendingRestart
  <1>6. CASE UNCHANGED <<money, adrift>>
    BY <1>6 DEF money, MemoryMatchesLedger, Total
  <1> QED
    BY <1>2, <1>3, <1>4, <1>5, <1>6
       DEF SpendingNext, Converse, Works, AsksForTheMonth, AsksForTheMission, Leaves, Concludes,
           Reflects, spendingVars

\* Every step keeps the ceiling told.
LEMMA CeilingStaysHeard ==
  /\ MoneyTyped /\ CeilingIsHeard
  /\ SpendingNext \/ SpendingRestart \/ UNCHANGED spendingVars
  => CeilingIsHeard'
  <1> SUFFICES ASSUME MoneyTyped, CeilingIsHeard,
                      SpendingNext \/ SpendingRestart \/ UNCHANGED spendingVars
               PROVE  CeilingIsHeard'
    OBVIOUS
  <1>1. CASE Note
    BY <1>1, Counted DEF CeilingIsHeard
  <1>2. CASE UNCHANGED <<memo, noted, said>>
    BY <1>2 DEF CeilingIsHeard
  <1>3. CASE SpendingRestart
    BY <1>3 DEF SpendingRestart, CeilingIsHeard
  <1> QED
    BY <1>1, <1>2, <1>3 DEF SpendingNext, Converse, Works, Track, AsksForTheMonth,
       AsksForTheMission, Leaves, Concludes, Reflects, MonthChanges, spendingVars, money

-----------------------------------------------------------------------------
LEMMA CeilingIsNat ==
  /\ Cardinality(Workers) * MaxCalls * Dearest \in Nat
  /\ Estimate <= PerProject => Ceiling \in Nat
  <1>1. PICK k \in Nat : k = Cardinality(Workers) * MaxCalls * Dearest
    BY LeftIsFinite, MoneyConstants, DearestBounds
  <1> QED
    BY <1>1, MoneyConstants DEF Ceiling

LEMMA LessLeft ==
  ASSUME Left' \subseteq Left
  PROVE  /\ Dearest * Cardinality(Left) \in Nat /\ Dearest * Cardinality(Left') \in Nat
         /\ Dearest * Cardinality(Left') <= Dearest * Cardinality(Left)
  <1>1. Dearest \in Nat
    BY DearestBounds
  <1>2. PICK n \in Nat : n = Cardinality(Left)
    BY LeftIsFinite
  <1>3. PICK m \in Nat : m = Cardinality(Left')
    BY LeftStaysFinite
  <1>4. m <= n
    BY <1>2, <1>3, LeftIsFinite, FS_Subset
  <1>5. PICK k \in Nat : k = n - m
    BY <1>4
  <1>6. Dearest * n = Dearest * m + Dearest * k
    <2>1. n = m + k
      BY <1>5
    <2> QED
      BY <1>1, <2>1
  <1>7. PICK a \in Nat : a = Dearest * m
    BY <1>1
  <1>8. PICK b \in Nat : b = Dearest * k
    BY <1>1
  <1> QED
    BY <1>1, <1>2, <1>3, <1>6, <1>7, <1>8

\* A step after which the cleared have no more calls left, and which spends on the mission no
\* more than it adds to the unguarded, keeps the bound.
LEMMA NoMoreLeft ==
  ASSUME MoneyTyped, Committed, NEW more \in Nat, unguarded' = unguarded + more,
         project' \in Nat, ledger'.mission \in Nat,
         project' <= project + more \/ project' <= ledger.mission + more,
         ledger'.mission <= ledger.mission + more, ledger'.mission <= project' + unguarded',
         Left' \subseteq Left,
         \A w \in Workers : worker'[w].pc = "cleared" => worker[w].pc = "cleared"
  PROVE  Committed'
  <1>1. project \in Nat /\ unguarded \in Nat /\ ledger.mission \in Nat
    BY DEF MoneyTyped, SpendingTypeOK
  <1>2. PICK a \in Nat : a = Dearest * Cardinality(Left)
    BY LessLeft
  <1>3. PICK b \in Nat : b = Dearest * Cardinality(Left')
    BY LessLeft
  <1>4. b <= a
    BY <1>2, <1>3, LessLeft
  <1>5. (\/ project' > unguarded' \/ ledger'.mission > unguarded'
         \/ \E w \in Workers : worker'[w].pc = "cleared") => Estimate <= PerProject
    BY <1>1 DEF Committed
  <1>6. ASSUME Estimate <= PerProject
        PROVE  project' + b <= Ceiling + unguarded' /\ ledger'.mission + b <= Ceiling + unguarded'
    <2>1. Ceiling \in Nat
      BY <1>6, CeilingIsNat
    <2>2. project + a <= Ceiling + unguarded /\ ledger.mission + a <= Ceiling + unguarded
      BY <1>2, <1>6 DEF Committed
    <2> QED
      BY <1>1, <1>4, <2>1, <2>2
  <1> QED
    BY <1>3, <1>5, <1>6 DEF Committed, Ceiling

\* A worker that is cleared finds room for its estimate, whoever else is at work: even if
\* every call of every worker is left, the bound holds.
LEMMA ClearedFindsRoom ==
  ASSUME MoneyTyped, Committed, NEW w \in Workers, AsksForTheMission(w)
  PROVE  Committed'
  <1>1. /\ worker[w].pc = "asked" /\ UNCHANGED money
        /\ worker' = [worker EXCEPT ![w].pc =
             IF worker[w].global /\ Affords(project, PerProject) THEN "cleared" ELSE "stopped"]
    BY DEF AsksForTheMission
  <1>2. /\ worker \in [Workers -> [pc : {"idle", "asked", "cleared", "stopped", "reflecting"},
                                   calls : 0..MaxCalls, global : BOOLEAN]]
        /\ project \in Nat /\ unguarded \in Nat /\ ledger.mission \in Nat
        /\ ledger' = ledger /\ project' = project /\ unguarded' = unguarded
    BY <1>1 DEF MoneyTyped, SpendingTypeOK, money
  <1>3. CASE ~(worker[w].global /\ Affords(project, PerProject))
    <2>1. \A v \in Workers : worker'[v].pc = "cleared" =>
             worker[v].pc = "cleared" /\ worker'[v].calls = worker[v].calls
      BY <1>1, <1>2, <1>3
    <2>2. Left' \subseteq Left
      BY <2>1 DEF Left
    <2>3. ledger'.mission <= project' + unguarded'
      BY <1>2 DEF Committed
    <2>4. unguarded' = unguarded + 0
      BY <1>2
    <2> QED
      BY <1>2, <2>1, <2>2, <2>3, <2>4, NoMoreLeft
  <1>4. CASE worker[w].global /\ Affords(project, PerProject)
    <2>1. project + Estimate <= PerProject
      BY <1>4 DEF Affords
    <2>3. PICK n \in Nat : n = Cardinality(Left')
      BY LeftIsFinite, LeftStaysFinite
    <2>4. PICK k \in Nat : k = Cardinality(Workers) * MaxCalls
      BY LeftIsFinite, MoneyConstants
    <2>5. n <= k
      BY <2>3, <2>4, LeftStaysFinite
    <2>6. PICK d \in Nat : d = k - n
      BY <2>5
    <2>7. Dearest * k = Dearest * n + Dearest * d /\ Dearest \in Nat
      <3>1. k = n + d
        BY <2>6
      <3> QED
        BY <3>1, DearestBounds
    <2>8. PICK a \in Nat : a = Dearest * n
      BY <2>7
    <2>9. PICK b \in Nat : b = Dearest * d
      BY <2>7
    <2>10. Dearest * k = k * Dearest
      BY <2>7
    <2>11. PICK c \in Nat : c = Cardinality(Workers) * MaxCalls * Dearest
      BY CeilingIsNat
    <2>12. a <= c
      BY <2>4, <2>7, <2>8, <2>9, <2>10, <2>11
    <2>13. Estimate <= PerProject /\ Ceiling = PerProject - Estimate + c
      BY <1>2, <2>1, <2>11, MoneyConstants DEF Ceiling
    <2>14. ledger.mission <= project + unguarded
      BY DEF Committed
    <2>15. project + a <= Ceiling + unguarded /\ ledger.mission + a <= Ceiling + unguarded
      BY <1>2, <2>1, <2>12, <2>13, <2>14, MoneyConstants
    <2> QED
      BY <1>2, <2>3, <2>8, <2>13, <2>14, <2>15 DEF Committed, Ceiling
  <1> QED
    BY <1>3, <1>4

\* A call takes one from what is left, and costs no more than the dearest.
LEMMA CallIsCovered ==
  ASSUME MoneyTyped, Committed, NEW w \in Workers, Works(w)
  PROVE  Committed'
  <1>1. /\ worker[w].pc = "cleared" /\ worker[w].calls > 0 /\ unguarded' = unguarded
        /\ worker' = [worker EXCEPT ![w].calls = @ - 1]
    BY DEF Works
  <1>2. PICK c \in Costs : Track("mission", c)
    BY DEF Works
  <1>3. /\ c \in Nat /\ c <= Dearest /\ ledger'.mission = ledger.mission + c /\ project' = project + c
    BY <1>2, Paid
  <1>4. /\ worker \in [Workers -> [pc : {"idle", "asked", "cleared", "stopped", "reflecting"},
                                   calls : 0..MaxCalls, global : BOOLEAN]]
        /\ project \in Nat /\ ledger.mission \in Nat /\ unguarded \in Nat
    BY DEF MoneyTyped, SpendingTypeOK
  <1>5. PICK k \in Nat : k = worker[w].calls /\ k \in 1..MaxCalls
    BY <1>1, <1>4, MoneyConstants
  <1>6. Left' = Left \ {<<w, k>>}
    <2>1. /\ \A v \in Workers : worker'[v].pc = worker[v].pc
          /\ \A v \in Workers \ {w} : worker'[v].calls = worker[v].calls
          /\ worker'[w].calls = k - 1
      BY <1>1, <1>4, <1>5
    <2>2. ASSUME NEW v \in Workers, NEW i \in 1..MaxCalls
          PROVE  <<v, i>> \in Left' <=> <<v, i>> \in Left /\ <<v, i>> # <<w, k>>
      <3>1. CASE v = w
        <4>1. i <= k - 1 <=> i <= k /\ i # k
          BY <1>5
        <4> QED
          BY <1>5, <2>1, <3>1, <4>1 DEF Left
      <3>2. CASE v # w
        BY <2>1, <3>2 DEF Left
      <3> QED
        BY <3>1, <3>2
    <2>3. Left \subseteq Workers \X (1..MaxCalls) /\ Left' \subseteq Workers \X (1..MaxCalls)
      BY DEF Left
    <2> QED
      BY <2>2, <2>3
  <1>7. <<w, k>> \in Left
    BY <1>1, <1>5 DEF Left
  <1>8. PICK n \in Nat : n = Cardinality(Left)
    BY LeftIsFinite
  <1>9. Cardinality(Left') = n - 1
    BY <1>6, <1>7, <1>8, LeftIsFinite, FS_RemoveElement
  <1>10. Dearest \in Nat /\ Dearest * (n - 1) = Dearest * n - Dearest
    BY DearestBounds
  <1>11. PICK a \in Nat : a = Dearest * n
    BY <1>10
  <1>12. Dearest * Cardinality(Left) = a /\ Dearest * Cardinality(Left') = a - Dearest
    BY <1>8, <1>9, <1>10, <1>11
  <1>13. Estimate <= PerProject
    BY <1>1 DEF Committed
  <1>14. Ceiling \in Nat
    BY <1>13, CeilingIsNat
  <1>15. /\ project + a <= Ceiling + unguarded /\ ledger.mission + a <= Ceiling + unguarded
         /\ ledger.mission <= project + unguarded
    BY <1>12, <1>13 DEF Committed
  <1>16. /\ project' + (a - Dearest) <= Ceiling + unguarded'
         /\ ledger'.mission + (a - Dearest) <= Ceiling + unguarded'
         /\ ledger'.mission <= project' + unguarded'
    BY <1>1, <1>3, <1>4, <1>10, <1>14, <1>15
  <1> QED
    BY <1>12, <1>13, <1>16 DEF Committed, Ceiling

LEMMA CommittedStays ==
  /\ MoneyTyped /\ Committed
  /\ SpendingNext \/ SpendingRestart \/ UNCHANGED spendingVars
  => Committed'
  <1> SUFFICES ASSUME MoneyTyped, Committed,
                      SpendingNext \/ SpendingRestart \/ UNCHANGED spendingVars
               PROVE  Committed'
    OBVIOUS
  <1>0. /\ ledger \in [{"mission", "other"} -> Nat] /\ project \in Nat /\ ledger.mission \in Nat
        /\ unguarded \in Nat
        /\ worker \in [Workers -> [pc : {"idle", "asked", "cleared", "stopped", "reflecting"},
                                   calls : 0..MaxCalls, global : BOOLEAN]]
        /\ ledger.mission <= project + unguarded
    BY DEF MoneyTyped, SpendingTypeOK, Committed
  <1>1. ASSUME UNCHANGED <<project, unguarded>>, ledger'.mission = ledger.mission,
               \A v \in Workers : worker'[v].pc = "cleared" => worker'[v] = worker[v]
        PROVE  Committed'
    <2>1. Left' \subseteq Left /\ unguarded' = unguarded + 0
      BY <1>0, <1>1 DEF Left
    <2> QED
      BY <1>0, <1>1, <2>1, NoMoreLeft
  <1>2. CASE Note
    BY <1>1, <1>2, Counted
  <1>3. CASE Converse
    <2>1. PICK c \in Costs : Track("other", c)
      BY <1>3 DEF Converse
    <2>2. ledger'.mission = ledger.mission /\ project' = project
      BY <2>1, Paid
    <2> QED
      BY <1>1, <1>3, <2>2 DEF Converse
  <1>4. CASE MonthChanges
    <2>1. /\ Left' \subseteq Left /\ project' = project /\ ledger'.mission = 0 /\ worker' = worker
          /\ unguarded' = unguarded + 0
      BY <1>0, <1>4 DEF MonthChanges, Left
    <2> QED
      BY <1>0, <2>1, NoMoreLeft
  <1>5. ASSUME NEW w \in Workers, AsksForTheMonth(w) PROVE Committed'
    <2>1. /\ UNCHANGED money
          /\ \A v \in Workers : worker'[v].pc = "cleared" => worker'[v] = worker[v]
      BY <1>0, <1>5 DEF AsksForTheMonth
    <2> QED
      BY <1>1, <2>1 DEF money
  <1>6. ASSUME NEW w \in Workers, Leaves(w) \/ Concludes(w) PROVE Committed'
    <2>1. /\ UNCHANGED money
          /\ \A v \in Workers : worker'[v].pc = "cleared" => worker'[v] = worker[v]
      BY <1>0, <1>6 DEF Leaves, Concludes, Unasked
    <2> QED
      BY <1>1, <2>1 DEF money
  <1>7. CASE SpendingRestart
    <2>1. ledger' = ledger /\ \A v \in Workers : worker'[v].pc = "idle"
      BY <1>7 DEF SpendingRestart, Unasked
    <2>2. Left' = {}
      BY <2>1 DEF Left
    <2>3. PICK more \in Nat : /\ unguarded' = unguarded + more /\ project' \in Nat
                              /\ project' <= ledger.mission /\ ledger.mission <= project' + unguarded'
      <3>1. CASE Seeds /\ UNCHANGED unguarded
        <4>1. unguarded' = unguarded + 0 /\ project' = ledger.mission
          BY <1>0, <3>1 DEF Seeds
        <4> QED
          BY <1>0, <4>1
      <3>2. CASE SeedsInPart
        <4>1. /\ project' \in 0..ledger.mission
              /\ unguarded' = unguarded + (ledger.mission - project')
          BY <3>2 DEF SeedsInPart
        <4>2. ledger.mission - project' \in Nat /\ project' \in Nat /\ project' <= ledger.mission
          BY <1>0, <4>1
        <4>3. ledger.mission <= project' + unguarded'
          BY <1>0, <4>1, <4>2
        <4> QED
          BY <4>1, <4>2, <4>3
      <3> QED
        BY <1>7, <3>1, <3>2 DEF SpendingRestart
    <2>4. project' <= ledger.mission + more
      BY <1>0, <2>3
    <2> QED
      BY <1>0, <2>1, <2>2, <2>3, <2>4, NoMoreLeft
  <1>8. ASSUME NEW w \in Workers, Reflects(w) PROVE Committed'
    <2>1. /\ \A v \in Workers : worker'[v].pc = "cleared" => worker'[v] = worker[v]
          /\ \A v \in Workers : worker'[v].pc = "cleared" => worker[v].pc = "cleared"
      BY <1>0, <1>8 DEF Reflects, Unasked
    <2>2. CASE UNCHANGED money
      BY <1>1, <2>1, <2>2 DEF money
    <2>3. ASSUME NEW c \in Costs, Track("mission", c), unguarded' = unguarded + c PROVE Committed'
      <3>1. c \in Nat /\ ledger'.mission = ledger.mission + c /\ project' = project + c
        BY <2>3, Paid
      <3>2. Left' \subseteq Left
        BY <2>1 DEF Left
      <3>3. ledger'.mission <= project' + unguarded'
        BY <1>0, <2>3, <3>1
      <3> QED
        BY <1>0, <2>1, <2>3, <3>1, <3>2, <3>3, NoMoreLeft
    <2> QED
      BY <1>8, <2>2, <2>3 DEF Reflects
  <1>9. CASE UNCHANGED spendingVars
    BY <1>1, <1>9 DEF spendingVars, money
  <1> QED
    BY <1>2, <1>3, <1>4, <1>5, <1>6, <1>7, <1>8, <1>9, ClearedFindsRoom, CallIsCovered DEF SpendingNext

\* What is committed bounds what is spent.
LEMMA CommittedBounds == MoneyTyped /\ Committed => OverrunIsBounded
  <1> SUFFICES ASSUME MoneyTyped, Committed, project > unguarded
               PROVE  project - unguarded
                        <= PerProject - Estimate + Cardinality(Workers) * MaxCalls * Max(Costs)
    BY DEF OverrunIsBounded
  <1>1. project \in Nat /\ unguarded \in Nat /\ Estimate <= PerProject
    BY DEF MoneyTyped, SpendingTypeOK, Committed
  <1>2. PICK a \in Nat : a = Dearest * Cardinality(Left)
    BY LeftIsFinite, DearestBounds
  <1>3. Ceiling \in Nat /\ project + a <= Ceiling + unguarded
    BY <1>1, <1>2, CeilingIsNat DEF Committed
  <1>4. project - unguarded <= Ceiling
    BY <1>1, <1>2, <1>3
  <1> QED
    BY <1>4 DEF Ceiling, Dearest

-----------------------------------------------------------------------------
LEMMA MoneyInvariance == Spec => []MoneyInv
  <1>1. Init => MoneyInv
    BY MoneyStart DEF Init
  <1>2. MoneyInv /\ [Next]_vars => MoneyInv'
    BY EngineSpends, MoneyStaysTyped, MemoryStaysTrue, CeilingStaysHeard, CommittedStays DEF MoneyInv
  <1> QED
    BY <1>1, <1>2, PTL DEF Spec

\* The accounts keep their types: sums are naturals, expenses are of known costs, and a
\* threshold is told at most once between two starts.
THEOREM SpendingTypeCorrect == Spec => []SpendingTypeOK
  <1>1. MoneyInv => SpendingTypeOK
    BY DEF MoneyInv, MoneyTyped
  <1> QED
    BY <1>1, MoneyInvariance, PTL

\* BudgetGuard: for any costs, thresholds and number of workers, from a start to the next
\* change of month the totals in memory are those of the ledger, but for what still waits,
\* if the start could read it.
THEOREM AccountsAgree == Spec => []MemoryMatchesLedger
  <1>1. MoneyInv => MemoryMatchesLedger
    BY DEF MoneyInv
  <1> QED
    BY <1>1, MoneyInvariance, PTL

\* noter_depense: no expense of any size is counted above the ceiling in silence.
THEOREM CeilingTold == Spec => []CeilingIsHeard
  <1>1. MoneyInv => CeilingIsHeard
    BY DEF MoneyInv
  <1> QED
    BY <1>1, MoneyInvariance, PTL

\* reserve and record: any number of workers side by side pass the mission's ceiling by at
\* most one full step each, above the lessons drawn from it and what a start could not read.
THEOREM OverrunBounded == Spec => []OverrunIsBounded
  <1>1. MoneyInv => OverrunIsBounded
    BY CommittedBounds DEF MoneyInv
  <1> QED
    BY <1>1, MoneyInvariance, PTL

(***************************************************************************)
(* The engine.  The store declines what resembles a pending initiative, and *)
(* the question goes out all the same; but then its title was recorded, and *)
(* what was recorded never goes.                                            *)
(***************************************************************************)
States == [Ids -> {"absent", "pending", "settled"}]

\* Nothing recorded in s is missing from u.
Keeps(s, u) == \A i \in Ids : s[i] # "absent" => u[i] # "absent"

LEMMA KeepsBacked ==
  ASSUME NEW s, NEW u, Keeps(s, u), NEW i \in Ids, Backed(s, i)
  PROVE  Backed(u, i)
  BY DEF Keeps, Backed

LEMMA SaveKeeps ==
  ASSUME NEW s \in States, NEW i \in Ids
  PROVE  Save(s, i) \in States /\ Keeps(s, Save(s, i)) /\ Backed(Save(s, i), i)
  <1>1. CASE Declined(s, i)
    BY <1>1 DEF Save, Keeps, Declined, Pending, Backed, States
  <1>2. CASE ~Declined(s, i)
    BY <1>2 DEF Save, Keeps, Backed, States
  <1> QED
    BY <1>1, <1>2

\* g saves the initiatives of b in s, from the front.
SavesInto(s, b, g) == g = [n \in 0..Len(b) |-> IF n = 0 THEN s ELSE Save(g[n - 1], b[n])]

LEMMA SavesExists ==
  ASSUME NEW s, NEW b \in Seq(Ids)
  PROVE  \E g : SavesInto(s, b, g)
  <1> DEFINE Part(n) == \E g : g = [k \in 0..n |-> IF k = 0 THEN s ELSE Save(g[k - 1], b[k])]
             N == {n \in Nat : Part(n)}
  <1>1. 0 \in N
    <2> DEFINE g == [k \in 0..0 |-> s]
    <2>1. g = [k \in 0..0 |-> IF k = 0 THEN s ELSE Save(g[k - 1], b[k])]
      OBVIOUS
    <2> QED
      BY <2>1
  <1>2. ASSUME NEW n \in Nat, Part(n) PROVE Part(n + 1)
    <2>1. PICK f : f = [k \in 0..n |-> IF k = 0 THEN s ELSE Save(f[k - 1], b[k])]
      BY <1>2
    <2> DEFINE last == Save(f[n], b[n + 1])
               g == [k \in 0..n + 1 |-> IF k = n + 1 THEN last ELSE f[k]]
    <2>2. ASSUME NEW k \in 0..n + 1
          PROVE  g[k] = IF k = 0 THEN s ELSE Save(g[k - 1], b[k])
      <3>1. CASE k = n + 1
        <4>1. k # 0 /\ k - 1 \in 0..n + 1 /\ k - 1 # n + 1 /\ k - 1 = n
          BY <3>1
        <4>2. g[k - 1] = f[n] /\ g[k] = last
          BY <3>1, <4>1
        <4> QED
          BY <3>1, <4>1, <4>2
      <3>2. CASE k = 0
        <4>1. k # n + 1 /\ k \in 0..n
          BY <3>2
        <4>2. f[k] = s
          BY <2>1, <3>2, <4>1
        <4> QED
          BY <3>2, <4>1, <4>2
      <3>3. CASE k # 0 /\ k # n + 1
        <4>1. k \in 0..n /\ k - 1 \in 0..n + 1 /\ k - 1 # n + 1
          BY <3>3
        <4>2. f[k] = Save(f[k - 1], b[k])
          BY <2>1, <3>3, <4>1
        <4>3. g[k] = f[k] /\ g[k - 1] = f[k - 1]
          BY <3>3, <4>1
        <4> QED
          BY <3>3, <4>2, <4>3
      <3> QED
        BY <3>1, <3>2, <3>3
    <2> HIDE DEF last
    <2>3. g = [k \in 0..n + 1 |-> IF k = 0 THEN s ELSE Save(g[k - 1], b[k])]
      BY <2>2
    <2> QED
      BY <2>3
  <1>3. Nat \subseteq N
    <2>1. ASSUME NEW n \in Nat, n \in N PROVE n + 1 \in N
      <3> HIDE DEF Part
      <3>1. Part(n + 1)
        BY <1>2, <2>1
      <3> QED
        BY <3>1
    <2> HIDE DEF N
    <2> QED
      BY <1>1, <2>1, BySteps
  <1>4. PICK n \in Nat : n = Len(b)
    BY LenProperties
  <1>5. Part(n)
    <2> HIDE DEF Part
    <2> QED
      BY <1>3
  <1> QED
    BY <1>4, <1>5 DEF SavesInto

\* After a batch is saved, every initiative of it is backed, and none recorded before is gone.
LEMMA SavedBacks ==
  ASSUME NEW s \in States, NEW b \in Seq(Ids)
  PROVE  /\ Saved(s, b) \in States /\ Keeps(s, Saved(s, b))
         /\ \A i \in ToSet(b) : i \in Ids /\ Backed(Saved(s, b), i)
  <1> DEFINE g == CHOOSE f : SavesInto(s, b, f)
             Good(n) == /\ g[n] \in States /\ Keeps(s, g[n])
                        /\ \A k \in 1..n : Backed(g[n], b[k])
             N == {n \in Nat : n <= Len(b) => Good(n)}
  <1>1. SavesInto(s, b, g)
    BY SavesExists
  <1>2. Saved(s, b) = g[Len(b)]
    BY DEF Saved, SavesInto
  <1> HIDE DEF g
  <1>3. Len(b) \in Nat /\ DOMAIN b = 1..Len(b) /\ \A k \in 1..Len(b) : b[k] \in Ids
    BY LenProperties, ElementOfSeq
  <1>4. \A n \in 0..Len(b) : g[n] = IF n = 0 THEN s ELSE Save(g[n - 1], b[n])
    BY <1>1 DEF SavesInto
  <1>5. 0 \in N
    <2>1. g[0] = s
      BY <1>3, <1>4
    <2> QED
      BY <2>1 DEF Keeps
  <1>6. ASSUME NEW n \in Nat, n + 1 <= Len(b), Good(n) PROVE Good(n + 1)
    <2>1. /\ n + 1 \in 1..Len(b) /\ n + 1 \in 0..Len(b) /\ n + 1 # 0 /\ (n + 1) - 1 = n
          /\ b[n + 1] \in Ids
      BY <1>3, <1>6
    <2>2. g[n + 1] = Save(g[n], b[n + 1])
      BY <1>4, <2>1
    <2>3. g[n + 1] \in States /\ Keeps(g[n], g[n + 1]) /\ Backed(g[n + 1], b[n + 1])
      BY <1>6, <2>1, <2>2, SaveKeeps
    <2>4. ASSUME NEW k \in 1..n + 1 PROVE Backed(g[n + 1], b[k])
      <3>1. CASE k = n + 1
        BY <2>3, <3>1
      <3>2. CASE k # n + 1
        <4>1. k \in 1..n /\ k \in 1..Len(b)
          BY <1>3, <1>6, <3>2
        <4>2. Backed(g[n], b[k]) /\ b[k] \in Ids
          BY <1>3, <1>6, <4>1
        <4> QED
          BY <2>3, <4>2, KeepsBacked
      <3> QED
        BY <3>1, <3>2
    <2>5. Keeps(s, g[n + 1])
      BY <1>6, <2>3 DEF Keeps
    <2> QED
      BY <2>3, <2>4, <2>5
  <1>7. Nat \subseteq N
    <2>1. ASSUME NEW n \in Nat, n \in N PROVE n + 1 \in N
      <3> HIDE DEF Good
      <3>1. CASE n + 1 <= Len(b)
        <4>1. n <= Len(b)
          BY <1>3, <3>1
        <4>2. Good(n)
          BY <2>1, <4>1
        <4> QED
          BY <1>6, <3>1, <4>2
      <3> QED
        BY <3>1
    <2> HIDE DEF N
    <2> QED
      BY <1>5, <2>1, BySteps
  <1>8. PICK n \in Nat : n = Len(b)
    BY <1>3
  <1>9. Good(n)
    <2> HIDE DEF Good
    <2>1. n \in N /\ n <= Len(b)
      BY <1>7, <1>8
    <2> QED
      BY <2>1
  <1> QED
    BY <1>2, <1>3, <1>8, <1>9 DEF ToSet

-----------------------------------------------------------------------------
EngineTyped ==
  /\ store \in States
  /\ cycle \in [Runners -> [pc : {"idle", "building", "asking", "drafting", "telling"}, batch : Seq(Ids)]]
  /\ quiet \in BOOLEAN /\ notices \subseteq Ids /\ asked \subseteq Ids

\* Who is about to tell has something to tell, and once it is saved all of it is backed.
TellsBacked ==
  \A t \in Runners :
    /\ cycle[t].pc \in {"drafting", "telling"} => cycle[t].batch # <<>>
    /\ cycle[t].pc = "telling" =>
         \A i \in ToSet(cycle[t].batch) : i \in Ids /\ Backed(store, i)

EngineInv == EngineTyped /\ TellsBacked /\ AskedIsBacked

\* The front of a batch, and what is left of it.
LEMMA BatchFront ==
  ASSUME NEW b \in Seq(Ids), b # <<>>
  PROVE  /\ Head(b) \in Ids /\ Head(b) \in ToSet(b) /\ Tail(b) \in Seq(Ids)
         /\ ToSet(Tail(b)) \subseteq ToSet(b)
         /\ Len(b) # 1 => Tail(b) # <<>>
  <1>1. /\ Head(b) \in Ids /\ Tail(b) \in Seq(Ids) /\ Len(Tail(b)) = Len(b) - 1
        /\ \A i \in 1..Len(Tail(b)) : Tail(b)[i] = b[i + 1]
    BY HeadTailProperties
  <1>2. /\ Len(b) \in Nat /\ DOMAIN b = 1..Len(b) /\ Len(b) >= 1
        /\ DOMAIN Tail(b) = 1..(Len(b) - 1)
    BY <1>1, LenProperties, EmptySeq
  <1>3. Head(b) \in ToSet(b)
    <2>1. Head(b) = b[1] /\ 1 \in DOMAIN b
      BY <1>2 DEF Head
    <2> QED
      BY <2>1 DEF ToSet
  <1>4. ToSet(Tail(b)) \subseteq ToSet(b)
    <2>1. ASSUME NEW i \in 1..(Len(b) - 1) PROVE Tail(b)[i] \in ToSet(b)
      <3>1. Tail(b)[i] = b[i + 1] /\ i + 1 \in DOMAIN b
        BY <1>1, <1>2
      <3> QED
        BY <3>1 DEF ToSet
    <2> QED
      BY <1>2, <2>1 DEF ToSet
  <1>5. ASSUME Len(b) # 1 PROVE Tail(b) # <<>>
    <2>1. Len(Tail(b)) # 0
      BY <1>1, <1>2, <1>5
    <2>2. Len(<<>>) = 0
      BY EmptySeq
    <2> QED
      BY <2>1, <2>2
  <1> QED
    BY <1>1, <1>3, <1>4, <1>5

LEMMA NothingToTell == <<>> \in Seq(Ids) /\ ToSet(<<>>) = {}
  BY EmptySeq DEF ToSet

\* One task moves on, to tell a batch only if it is backed; the store loses nothing.
LEMMA EngineMoves ==
  ASSUME EngineInv, NEW t \in Runners, NEW pc \in {"idle", "building", "asking", "drafting", "telling"},
         NEW b \in Seq(Ids), Goes(t, pc, b), store' \in States, Keeps(store, store'),
         pc \in {"drafting", "telling"} => b # <<>>,
         pc = "telling" => \A i \in ToSet(b) : i \in Ids /\ Backed(store', i),
         quiet' \in BOOLEAN, notices' \subseteq Ids, asked' \subseteq Ids,
         \A i \in asked' : Backed(store', i)
  PROVE  EngineInv'
  <1>1. /\ cycle' = [cycle EXCEPT ![t] = [pc |-> pc, batch |-> b]]
        /\ cycle \in [Runners -> [pc : {"idle", "building", "asking", "drafting", "telling"}, batch : Seq(Ids)]]
    BY DEF Goes, EngineInv, EngineTyped
  <1>2. /\ cycle'[t].pc = pc /\ cycle'[t].batch = b
        /\ \A u \in Runners : u # t => cycle'[u] = cycle[u]
    BY <1>1
  <1>3. EngineTyped'
    BY <1>1 DEF EngineTyped
  <1>4. ASSUME NEW u \in Runners
        PROVE  /\ cycle'[u].pc \in {"drafting", "telling"} => cycle'[u].batch # <<>>
               /\ cycle'[u].pc = "telling" =>
                    \A i \in ToSet(cycle'[u].batch) : i \in Ids /\ Backed(store', i)
    <2>1. CASE u = t
      BY <1>2, <2>1
    <2>2. CASE u # t
      BY <1>2, <2>2, KeepsBacked DEF EngineInv, TellsBacked
    <2> QED
      BY <2>1, <2>2
  <1>5. TellsBacked'
    BY <1>4 DEF TellsBacked
  <1>6. AskedIsBacked'
    BY DEF AskedIsBacked
  <1> QED
    BY <1>3, <1>5, <1>6 DEF EngineInv

\* The tasks stay or are gone; the store loses nothing.
LEMMA EngineRests ==
  ASSUME EngineInv, cycle' = cycle \/ cycle' = [t \in Runners |-> None],
         store' \in States, Keeps(store, store'), asked' = asked,
         quiet' \in BOOLEAN, notices' \subseteq Ids
  PROVE  EngineInv'
  <1>1. EngineTyped'
    <2>1. None \in [pc : {"idle", "building", "asking", "drafting", "telling"}, batch : Seq(Ids)]
      BY NothingToTell DEF None
    <2>2. cycle' \in [Runners -> [pc : {"idle", "building", "asking", "drafting", "telling"}, batch : Seq(Ids)]]
      BY <2>1 DEF EngineInv, EngineTyped
    <2> QED
      BY <2>2 DEF EngineInv, EngineTyped
  <1>2. ASSUME NEW u \in Runners
        PROVE  /\ cycle'[u].pc \in {"drafting", "telling"} => cycle'[u].batch # <<>>
               /\ cycle'[u].pc = "telling" =>
                    \A i \in ToSet(cycle'[u].batch) : i \in Ids /\ Backed(store', i)
    <2>1. CASE cycle' = cycle
      BY <2>1, KeepsBacked DEF EngineInv, TellsBacked
    <2>2. CASE cycle' = [t \in Runners |-> None]
      BY <2>2, NothingToTell DEF None
    <2> QED
      BY <2>1, <2>2
  <1>3. TellsBacked'
    BY <1>2 DEF TellsBacked
  <1>4. AskedIsBacked'
    BY KeepsBacked DEF EngineInv, EngineTyped, AskedIsBacked
  <1> QED
    BY <1>1, <1>3, <1>4 DEF EngineInv

LEMMA EngineStart == Init => EngineInv
  <1> SUFFICES ASSUME Init PROVE EngineInv
    OBVIOUS
  <1>1. /\ store = [i \in Ids |-> "absent"] /\ cycle = [t \in Runners |-> None]
        /\ quiet = FALSE /\ notices = {} /\ asked = {}
    BY DEF Init
  <1>2. None \in [pc : {"idle", "building", "asking", "drafting", "telling"}, batch : Seq(Ids)]
    BY NothingToTell DEF None
  <1>3. EngineTyped
    BY <1>1, <1>2 DEF EngineTyped, States
  <1>4. TellsBacked
    BY <1>1, NothingToTell DEF TellsBacked, None
  <1> QED
    BY <1>1, <1>3, <1>4 DEF EngineInv, AskedIsBacked

LEMMA EngineNextKeeps == EngineInv /\ [Next]_vars => EngineInv'
  <1> SUFFICES ASSUME EngineInv, [Next]_vars PROVE EngineInv'
    OBVIOUS
  <1>0. /\ store \in States /\ Keeps(store, store) /\ quiet \in BOOLEAN
        /\ notices \subseteq Ids /\ asked \subseteq Ids /\ \A i \in asked : Backed(store, i)
    BY DEF EngineInv, EngineTyped, AskedIsBacked, Keeps
  <1>1. CASE UNCHANGED proactive
    BY <1>0, <1>1, EngineRests DEF proactive
  <1>2. ASSUME NEW t \in Runners, StartsCycle(t) PROVE EngineInv'
    BY <1>0, <1>2, NothingToTell, EngineMoves DEF StartsCycle
  <1>3. ASSUME NEW t \in Runners, Looks(t) PROVE EngineInv'
    <2>1. UNCHANGED <<store, quiet, notices, asked>>
      BY <1>3 DEF Looks
    <2>2. PICK pc \in {"idle", "asking"} : Goes(t, pc, <<>>)
      BY <1>3 DEF Looks
    <2> QED
      BY <1>0, <2>1, <2>2, NothingToTell, EngineMoves
  <1>4. ASSUME NEW t \in Runners, Generates(t) PROVE EngineInv'
    <2>1. UNCHANGED <<store, quiet, notices, asked>>
      BY <1>4 DEF Generates
    <2>2. CASE Goes(t, "idle", <<>>)
      BY <1>0, <2>1, <2>2, NothingToTell, EngineMoves
    <2>3. ASSUME NEW b \in Batches, IF b = <<>> THEN Goes(t, "idle", b) ELSE Goes(t, "drafting", b)
          PROVE  EngineInv'
      <3>1. b \in Seq(Ids)
        BY DEF Batches, SeqOf
      <3>2. PICK pc \in {"idle", "drafting"} : Goes(t, pc, b) /\ (pc = "drafting" => b # <<>>)
        BY <2>3
      <3> QED
        BY <1>0, <2>1, <3>1, <3>2, EngineMoves
    <2> QED
      BY <1>4, <2>2, <2>3 DEF Generates
  <1>8. ASSUME NEW t \in Runners, Drafts(t) PROVE EngineInv'
    BY <1>1, <1>8 DEF Drafts
  <1>9. ASSUME NEW t \in Runners, Records(t) PROVE EngineInv'
    <2> DEFINE b == cycle[t].batch
    <2>1. At(t, "drafting") /\ UNCHANGED <<quiet, notices, asked>>
      BY <1>9 DEF Records
    <2>2. b \in Seq(Ids) /\ b # <<>>
      BY <2>1 DEF EngineInv, EngineTyped, TellsBacked, At
    <2>3. \/ store' = Saved(store, b) /\ Goes(t, "telling", b)
          \/ \E n \in 0..Len(b) - 1 : store' = Saved(store, SubSeq(b, 1, n)) /\ Goes(t, "idle", <<>>)
      BY <1>9 DEF Records
    <2> HIDE DEF b
    <2>4. CASE store' = Saved(store, b) /\ Goes(t, "telling", b)
      <3>1. /\ store' \in States /\ Keeps(store, store')
            /\ \A i \in ToSet(b) : i \in Ids /\ Backed(store', i)
        BY <1>0, <2>2, <2>4, SavedBacks
      <3>2. \A i \in asked : Backed(store', i)
        BY <1>0, <3>1, KeepsBacked
      <3> QED
        BY <1>0, <2>1, <2>2, <2>4, <3>1, <3>2, EngineMoves
    <2>5. ASSUME NEW n \in 0..Len(b) - 1, store' = Saved(store, SubSeq(b, 1, n)), Goes(t, "idle", <<>>)
          PROVE  EngineInv'
      <3>1. SubSeq(b, 1, n) \in Seq(Ids)
        <4>1. \A k \in 1..n : b[k] \in Ids
          BY <2>2, LenProperties, ElementOfSeq
        <4> QED
          BY <4>1, SubSeqProperties, <2>2
      <3>2. store' \in States /\ Keeps(store, store')
        BY <1>0, <2>5, <3>1, SavedBacks
      <3>3. \A i \in asked : Backed(store', i)
        BY <1>0, <3>2, KeepsBacked
      <3> QED
        BY <1>0, <2>1, <2>5, <3>2, <3>3, NothingToTell, EngineMoves
    <2> QED
      BY <2>3, <2>4, <2>5
  <1>5. ASSUME NEW t \in Runners, Tells(t) PROVE EngineInv'
    <2> DEFINE b == cycle[t].batch
               i == Head(b)
    <2>1. /\ At(t, "telling") /\ UNCHANGED <<store, quiet>>
          /\ notices' = IF ModeOf[i] = "notify" THEN notices \cup {i} ELSE notices
          /\ asked' = asked \cup {i} \/ asked' = asked
          /\ IF Len(b) = 1 THEN Goes(t, "idle", <<>>) ELSE Goes(t, "telling", Tail(b))
      BY <1>5 DEF Tells
    <2>2. b \in Seq(Ids) /\ b # <<>> /\ \A j \in ToSet(b) : j \in Ids /\ Backed(store, j)
      BY <2>1 DEF EngineInv, EngineTyped, TellsBacked, At
    <2> HIDE DEF b
    <2>3. /\ i \in Ids /\ i \in ToSet(b) /\ Tail(b) \in Seq(Ids)
          /\ ToSet(Tail(b)) \subseteq ToSet(b) /\ (Len(b) # 1 => Tail(b) # <<>>)
      BY <2>2, BatchFront
    <2> HIDE DEF i
    <2>4. /\ notices' \subseteq Ids /\ asked' \subseteq Ids
          /\ \A j \in asked' : Backed(store', j)
      BY <1>0, <2>1, <2>2, <2>3
    <2>5. CASE Len(b) = 1
      BY <1>0, <2>1, <2>4, <2>5, NothingToTell, EngineMoves
    <2>6. CASE Len(b) # 1
      <3>1. \A j \in ToSet(Tail(b)) : j \in Ids /\ Backed(store', j)
        BY <2>1, <2>2, <2>3
      <3> QED
        BY <1>0, <2>1, <2>3, <2>4, <2>6, <3>1, EngineMoves
    <2> QED
      BY <2>5, <2>6
  <1>6. ASSUME NEW i \in Ids, Settle(i) PROVE EngineInv'
    <2>1. /\ store' = [store EXCEPT ![i] = "settled"] /\ UNCHANGED <<cycle, quiet, notices, asked>>
      BY <1>6 DEF Settle
    <2>2. store' \in States /\ Keeps(store, store')
      BY <1>0, <2>1 DEF States, Keeps
    <2> QED
      BY <1>0, <2>1, <2>2, EngineRests
  <1>7. CASE Drain \/ Dusk \/ EngineRestarts
    BY <1>0, <1>7, EngineRests DEF Drain, Dusk, EngineRestarts
  <1> QED
    BY <1>1, <1>2, <1>3, <1>4, <1>5, <1>6, <1>7, <1>8, <1>9 DEF Next, vars, proactive

LEMMA EngineInvariance == Spec => []EngineInv
  <1> QED
    BY EngineStart, EngineNextKeeps, PTL DEF Spec

\* _dispatch and save: whatever is declined, in whatever order cycles, decisions and restarts
\* come, a question that the user sees is recorded, or one with its title is.
THEOREM QuestionsAreBacked == Spec => []AskedIsBacked
  <1>1. EngineInv => AskedIsBacked
    BY DEF EngineInv
  <1> QED
    BY <1>1, EngineInvariance, PTL

\* The money and the engine together keep their types.
THEOREM ProactiveTypeCorrect == Spec => []TypeOK
  <1>1. MoneyInv /\ EngineInv => TypeOK
    BY DEF MoneyInv, MoneyTyped, EngineInv, EngineTyped, States, TypeOK
  <1> QED
    BY <1>1, MoneyInvariance, EngineInvariance, PTL
==============================================================================
