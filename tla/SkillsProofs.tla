------------------------------ MODULE SkillsProofs ------------------------------
(***************************************************************************)
(* For every number of names, events, scans, uses, orders and restarts:     *)
(* nothing leaves the laboratory under a name that never passed, no name is *)
(* left without a verdict unless its trial was cut, code that was removed   *)
(* is at rest, and a removed skill comes back by no late step but an order  *)
(* that was at its catalogue.                                               *)
(***************************************************************************)
EXTENDS Skills, TLAPS

(***************************************************************************)
(* The inductive invariant.  The gate rests on the status that promote      *)
(* looks at (Earned).  That removed code is at rest needs that each writing *)
(* is in one place: no two directories hold the same code, and none holds   *)
(* code yet to be written (Codes).  The shape of what is under way: a trial *)
(* has a name, a scan that is not over is under its ceiling, an order that  *)
(* is not under way names nothing (Shaped).                                 *)
(***************************************************************************)
Earned == \A n \in Names : rec[n].status = "sandboxed_pass" => \E g \in green : g[1] = n

Shaped ==
  /\ \A p \in Proposers :
       /\ job[p].at \in {"testing", "running"} => job[p].name \in Names
       /\ p \in Scans /\ job[p].at \in {"asking", "testing", "running"} => job[p].made < Cap
  /\ \A o \in Orders : order[o].at = "idle" <=> order[o].name = NoName

Codes ==
  /\ \A n \in Names : candidate[n] <= next /\ installed[n].code <= next
  /\ \A g \in gone : 0 < g /\ g <= next
  /\ \A n, m \in Names : candidate[n] = installed[m].code => candidate[n] = 0
  /\ \A n, m \in Names : n # m /\ candidate[n] = candidate[m] => candidate[n] = 0
  /\ \A n, m \in Names : n # m /\ installed[n].code = installed[m].code => installed[n].code = 0

Core == /\ Earned /\ Shaped /\ Codes /\ NeverWithoutGreen
        /\ CandidateIsUnderTest /\ RemovedCodeIsIdle /\ RemovedStaysGone
Inv == TypeOK /\ Core

-----------------------------------------------------------------------------
Records == [status: Status, source: Events \cup {NoEvent}]

\* The records, field by field.
LEMMA Fields ==
  ASSUME TypeOK
  PROVE  /\ rec \in [Names -> Records] /\ candidate \in [Names -> Code]
         /\ installed \in [Names -> Dir] /\ loaded \in [Names -> Code]
         /\ offered \in [Names -> Code] /\ job \in [Proposers -> Job]
         /\ order \in [Orders -> Order] /\ rewrite \in [Rewrites -> Names \cup {NoName}]
         /\ \A n \in Names : rec[n].status \in Status /\ rec[n].source \in Events \cup {NoEvent}
         /\ \A n \in Names : installed[n].dir \in BOOLEAN /\ installed[n].code \in Code
         /\ \A p \in Proposers :
              /\ job[p].at \in {"idle", "scanning", "asking", "testing", "running"}
              /\ job[p].source \in Events \cup {NoEvent} /\ job[p].name \in Names \cup {NoName}
              /\ job[p].code \in Code /\ job[p].todo \subseteq Events /\ job[p].made \in 0..Cap
         /\ \A o \in Orders : /\ order[o].at \in {"idle", "catalogue", "downloading", "written"}
                              /\ order[o].name \in Names \cup {NoName}
  BY DEF TypeOK, Records, Dir, Job, Order

LEMMA Shapes ==
  /\ NoJob \in Job /\ NoOrder \in Order /\ NoDir \in Dir
  /\ 0 \in Code /\ NoDir.code = 0 /\ NoDir.dir = FALSE
  /\ NoJob.at = "idle" /\ NoJob.made = 0 /\ NoOrder.at = "idle" /\ NoOrder.name = NoName
  BY SkillsAssumption DEF NoJob, NoOrder, NoDir, Job, Order, Dir, Code

LEMMA InitInv == Init => Inv
  <1> SUFFICES ASSUME Init PROVE Inv
    OBVIOUS
  <1>1. TypeOK
    <2>1. rec \in [Names -> [status: Status, source: Events \cup {NoEvent}]]
      BY DEF Init, Status
    <2> QED
      BY <2>1, Shapes, SkillsAssumption DEF Init, TypeOK, Code
  <1>2. Core
    BY Shapes, SkillsAssumption DEF Init, Core, Earned, Shaped, Codes, NeverWithoutGreen,
       CandidateIsUnderTest, RemovedCodeIsIdle, RemovedStaysGone
  <1> QED
    BY <1>1, <1>2 DEF Inv

\* What each update makes of the record of a proposal.
LEMMA Begins ==
  ASSUME NEW k \in Job, NEW T \in SUBSET Events
  PROVE  /\ [k EXCEPT !.at = "scanning", !.todo = T] \in Job
         /\ [k EXCEPT !.at = "scanning", !.todo = T].at = "scanning"
  BY DEF Job

LEMMA GoesOn ==
  ASSUME NEW k \in Job, NEW T \in SUBSET Events, NEW m \in 0..Cap
  PROVE  /\ [k EXCEPT !.at = "scanning", !.todo = T, !.made = m] \in Job
         /\ [k EXCEPT !.at = "scanning", !.todo = T, !.made = m].at = "scanning"
  BY DEF Job

LEMMA Asks ==
  ASSUME NEW k \in Job
  PROVE  LET e == [k EXCEPT !.at = "asking"] IN e \in Job /\ e.at = "asking"
  BY DEF Job

LEMMA TakesName ==
  ASSUME NEW k \in Job, NEW n \in Names
  PROVE  LET e == [k EXCEPT !.at = "testing", !.name = n] IN
         e \in Job /\ e.at = "testing" /\ e.name = n /\ e.made = k.made
  BY DEF Job

LEMMA TakesCode ==
  ASSUME NEW k \in Job, NEW c \in Code
  PROVE  LET e == [k EXCEPT !.at = "running", !.code = c] IN
         e \in Job /\ e.at = "running" /\ e.name = k.name /\ e.made = k.made
  BY DEF Job

\* A scan that counts a proposal stays within its ceiling.
LEMMA OverFact ==
  ASSUME TypeOK, Shaped, NEW p \in Proposers, job[p].at \in {"asking", "testing", "running"}
  PROVE  Over(p) \in Job /\ Over(p).at \in {"idle", "scanning"}
  <1>1. CASE p \in Scans
    <2>1. job[p].made + 1 \in 0..Cap /\ job[p].todo \in SUBSET Events
      BY <1>1, Fields, SkillsAssumption DEF Shaped
    <2> QED
      BY <1>1, <2>1, Shapes, GoesOn DEF Over
  <1>2. CASE p \notin Scans
    BY <1>2, Shapes DEF Over
  <1> QED
    BY <1>1, <1>2

LEMMA BrokenFact ==
  ASSUME TypeOK, Shaped, NEW p \in Proposers, job[p].at \in {"asking", "testing", "running"}
  PROVE  Broken(p) \in Job /\ Broken(p).at \in {"idle", "scanning"}
  <1>1. job[p].made \in 0..Cap /\ job[p].todo \in SUBSET Events
    BY Fields
  <1> QED
    BY <1>1, Shapes, GoesOn DEF Broken

\* The job that changes, the others, and the names under trial.
LEMMA JobStep ==
  ASSUME TypeOK, Shaped, NEW p \in Proposers, NEW j \in Job,
         job' = [job EXCEPT ![p] = j],
         j.at \in {"testing", "running"} => j.name \in Names,
         p \in Scans /\ j.at \in {"asking", "testing", "running"} => j.made < Cap,
         order' = order
  PROVE  /\ job' \in [Proposers -> Job] /\ Shaped'
         /\ j.at \in {"testing", "running"} => j.name \in Tried(Proposers)'
         /\ \A m \in Tried(Proposers) :
              \/ m \in Tried(Proposers)'
              \/ job[p].at \in {"testing", "running"} /\ m = job[p].name
  <1>1. /\ job' \in [Proposers -> Job] /\ job'[p] = j
        /\ \A q \in Proposers \ {p} : job'[q] = job[q]
    BY Fields
  <1>2. Shaped'
    BY <1>1 DEF Shaped
  <1>3. j.at \in {"testing", "running"} => j.name \in Tried(Proposers)'
    BY <1>1 DEF Tried
  <1>4. ASSUME NEW m \in Tried(Proposers)
        PROVE  \/ m \in Tried(Proposers)'
               \/ job[p].at \in {"testing", "running"} /\ m = job[p].name
    <2>1. PICK q \in Proposers : job[q].at \in {"testing", "running"} /\ m = job[q].name
      BY DEF Tried
    <2>2. CASE q = p
      BY <2>1, <2>2
    <2>3. CASE q # p
      <3>1. job'[q].at \in {"testing", "running"} /\ m = job'[q].name
        BY <1>1, <2>1, <2>3
      <3> QED
        BY <3>1 DEF Tried
    <2> QED
      BY <2>2, <2>3
  <1> QED
    BY <1>1, <1>2, <1>3, <1>4

\* Nobody tries anything else.
LEMMA SameTrials ==
  ASSUME job' = job
  PROVE  Tried(Proposers)' = Tried(Proposers)
  BY DEF Tried

LEMMA TriedNames ==
  ASSUME Shaped, NEW P \in SUBSET Proposers
  PROVE  Tried(P) \subseteq Names
  BY DEF Shaped, Tried

-----------------------------------------------------------------------------
(* The code in the directories *)

\* A reading finds what the disk holds.
LEMMA ReadsFact ==
  ASSUME NEW d, NEW l \in Reads(d)
  PROVE  l \in [Names -> Code] /\ \A m \in Names : l[m] = 0 \/ \E n \in Names : l[m] = d[n].code
  BY DEF Reads

\* No code is written or removed; directories may be emptied and the registry read.
LEMMA NothingWritten ==
  ASSUME TypeOK, Codes, RemovedCodeIsIdle, next' = next, gone' = gone,
         \A n \in Names : candidate'[n] \in {candidate[n], 0},
         \A n \in Names : installed'[n].code \in {installed[n].code, 0},
         \A m \in Names : loaded'[m] \in {loaded[m], 0} \cup {installed[n].code : n \in Names},
         \A m \in Names : offered'[m] \in {offered[m], loaded'[m]}
  PROVE  Codes' /\ RemovedCodeIsIdle'
  <1>1. 0 \notin gone
    BY DEF Codes
  <1>2. \A n \in Names : installed[n].code \notin gone /\ candidate[n] \notin gone
                         /\ loaded[n] \notin gone /\ offered[n] \notin gone
    BY DEF RemovedCodeIsIdle
  <1>3. \A n \in Names : installed'[n].code \notin gone /\ candidate'[n] \notin gone
    BY <1>1, <1>2
  <1>4. \A n \in Names : loaded'[n] \notin gone /\ offered'[n] \notin gone
    <2>1. \A n \in Names : loaded'[n] \notin gone
      BY <1>1, <1>2
    <2> QED
      BY <1>2, <2>1
  <1>5. RemovedCodeIsIdle'
    BY <1>3, <1>4 DEF RemovedCodeIsIdle
  <1>6. next \in Nat /\ 0 <= next
    BY SkillsAssumption DEF TypeOK, Code
  <1>7. Codes'
    <2>1. /\ \A n \in Names : candidate'[n] <= next' /\ installed'[n].code <= next'
          /\ \A g \in gone' : 0 < g /\ g <= next'
      BY <1>6 DEF Codes
    <2>2. \A n, m \in Names : candidate'[n] = installed'[m].code => candidate'[n] = 0
      BY DEF Codes
    <2>3. \A n, m \in Names : n # m /\ candidate'[n] = candidate'[m] => candidate'[n] = 0
      BY DEF Codes
    <2>4. \A n, m \in Names :
            n # m /\ installed'[n].code = installed'[m].code => installed'[n].code = 0
      BY DEF Codes
    <2> QED
      BY <2>1, <2>2, <2>3, <2>4 DEF Codes
  <1> QED
    BY <1>5, <1>7

\* A new code lands in one directory.
LEMMA OneWritten ==
  ASSUME TypeOK, Codes, RemovedCodeIsIdle, NEW n \in Names, NEW v \in Code, Writes(v), gone' = gone,
         \/ /\ candidate'[n] = v /\ \A m \in Names \ {n} : candidate'[m] = candidate[m]
            /\ installed' = installed
         \/ /\ installed'[n].code = v /\ \A m \in Names \ {n} : installed'[m] = installed[m]
            /\ candidate' = candidate,
         \A m \in Names : loaded'[m] \in {loaded[m], v}, offered' = offered
  PROVE  Codes' /\ RemovedCodeIsIdle'
  <1>1. /\ next \in Nat /\ v = next + 1 /\ next' = v
        /\ \A m \in Names : candidate[m] \in Nat /\ installed[m].code \in Nat
    BY Fields, SkillsAssumption DEF TypeOK, Code, Writes
  <1>2. v \notin gone
    BY <1>1 DEF Codes
  <1>3. gone \subseteq Nat
    BY DEF TypeOK, Code
  <1>4. RemovedCodeIsIdle'
    <2>1. \A m \in Names : installed[m].code \notin gone /\ candidate[m] \notin gone
                           /\ loaded[m] \notin gone /\ offered[m] \notin gone
      BY DEF RemovedCodeIsIdle
    <2>2. \A m \in Names : installed'[m].code \notin gone /\ candidate'[m] \notin gone
      BY <1>2, <2>1
    <2>3. \A m \in Names : loaded'[m] \notin gone /\ offered'[m] \notin gone
      BY <1>2, <2>1
    <2> QED
      BY <2>2, <2>3 DEF RemovedCodeIsIdle
  <1>5. \A m \in Names : candidate[m] < v /\ installed[m].code < v
    BY <1>1 DEF Codes
  <1>6. \A g \in gone' : 0 < g /\ g <= next'
    BY <1>1, <1>3 DEF Codes
  <1>7. CASE /\ candidate'[n] = v /\ \A m \in Names \ {n} : candidate'[m] = candidate[m]
             /\ installed' = installed
    BY <1>1, <1>4, <1>5, <1>6, <1>7 DEF Codes
  <1>8. CASE /\ installed'[n].code = v /\ \A m \in Names \ {n} : installed'[m] = installed[m]
             /\ candidate' = candidate
    BY <1>1, <1>4, <1>5, <1>6, <1>8 DEF Codes
  <1> QED
    BY <1>4, <1>7, <1>8

-----------------------------------------------------------------------------
(* The steps *)

\* A step of a proposal that leaves the disk and the table alone.
LEMMA JobOnly ==
  ASSUME Inv,
         UNCHANGED <<rec, candidate, installed, loaded, offered, order, rewrite, next, noted,
                     restarts, green, promoted, removed, undone, gone>>,
         job' \in [Proposers -> Job], Shaped', cut \subseteq cut', cut' \subseteq Names,
         \A m \in Tried(Proposers) : m \in Tried(Proposers)' \cup cut'
  PROVE  Inv'
  <1> USE DEF Inv, Core
  <1>1. TypeOK'
    BY DEF TypeOK
  <1>2. Earned' /\ NeverWithoutGreen' /\ RemovedStaysGone'
    BY DEF Earned, NeverWithoutGreen, RemovedStaysGone
  <1>3. Codes' /\ RemovedCodeIsIdle'
    BY NothingWritten
  <1>4. CandidateIsUnderTest'
    BY DEF CandidateIsUnderTest
  <1> QED
    BY <1>1, <1>2, <1>3, <1>4

\* A step that concerns neither the table nor the trials: what is left to show.
LEMMA Aside ==
  ASSUME Inv, UNCHANGED <<rec, job, restarts, green, promoted, cut>>,
         TypeOK',
         \A o \in Orders : order'[o].at = "idle" <=> order'[o].name = NoName,
         Codes', RemovedCodeIsIdle', RemovedStaysGone'
  PROVE  Inv'
  <1>1. Earned' /\ NeverWithoutGreen'
    BY DEF Inv, Core, Earned, NeverWithoutGreen
  <1>2. Shaped'
    BY DEF Inv, Core, Shaped
  <1>3. CandidateIsUnderTest'
    BY SameTrials DEF Inv, Core, CandidateIsUnderTest
  <1> QED
    BY <1>1, <1>2, <1>3 DEF Inv, Core

LEMMA ScanKeeps ==
  ASSUME Inv, NEW s \in Scans, Scan(s)
  PROVE  Inv'
  <1> USE DEF Inv, Core
  <1>1. UNCHANGED <<rec, candidate, installed, loaded, offered, order, rewrite, next, noted,
                    restarts, green, promoted, cut, removed, undone, gone>>
    BY DEF Scan, disk, live, history, removals
  <1>2. s \in Proposers /\ job[s] \in Job
    BY Fields DEF Proposers
  <1>3. PICK j \in Job :
          /\ job' = [job EXCEPT ![s] = j] /\ j.at \in {"idle", "scanning", "asking"}
          /\ j.at = "asking" => j.made < Cap
          /\ job[s].at \in {"idle", "scanning"}
    <2>1. CASE job[s].at = "idle" /\ job' = [job EXCEPT ![s] = [NoJob EXCEPT !.at = "scanning", !.todo = Events]]
      <3>1. Events \in SUBSET Events
        OBVIOUS
      <3> QED
        BY <2>1, <3>1, Shapes, Begins
    <2>2. CASE job[s].at = "scanning" /\ job' = [job EXCEPT ![s] = NoJob]
      BY <2>2, Shapes
    <2>3. CASE /\ job[s].at = "scanning" /\ ~Full(s)
               /\ \E e \in job[s].todo :
                    job' = [job EXCEPT ![s].todo = @ \ {e},
                                       ![s].at = IF Handled(e) THEN @ ELSE "asking",
                                       ![s].source = IF Handled(e) THEN NoEvent ELSE e]
      <3>1. PICK e \in job[s].todo :
              job' = [job EXCEPT ![s].todo = @ \ {e},
                                 ![s].at = IF Handled(e) THEN @ ELSE "asking",
                                 ![s].source = IF Handled(e) THEN NoEvent ELSE e]
        BY <2>3
      <3> DEFINE a == IF Handled(e) THEN "scanning" ELSE "asking"
                 c == IF Handled(e) THEN NoEvent ELSE e
                 k == [job[s] EXCEPT !.todo = job[s].todo \ {e}, !.at = a, !.source = c]
      <3>2. job' = [job EXCEPT ![s] = k]
        BY <3>1, <2>3, <1>2, Fields
      <3>3. job[s].todo \ {e} \in SUBSET Events /\ c \in Events \cup {NoEvent} /\ a \in {"scanning", "asking"}
        BY <1>2, Fields
      <3>4. k \in Job /\ k.at = a /\ k.made = job[s].made
        <4> HIDE DEF a, c
        <4>1. job[s] \in Job
          BY <1>2
        <4> QED
          BY <3>3, <4>1 DEF Job
      <3>5. job[s].made < Cap
        BY <2>3, <1>2, Fields, SkillsAssumption DEF Full
      <3> QED
        BY <2>3, <3>2, <3>4, <3>5
    <2> QED
      BY <2>1, <2>2, <2>3 DEF Scan
  <1>4. /\ job' \in [Proposers -> Job] /\ Shaped'
        /\ \A m \in Tried(Proposers) : m \in Tried(Proposers)'
    BY <1>1, <1>2, <1>3, JobStep
  <1>5. cut \subseteq cut' /\ cut' \subseteq Names
    BY <1>1 DEF TypeOK
  <1> QED
    BY <1>1, <1>4, <1>5, JobOnly

LEMMA ProposeKeeps ==
  ASSUME Inv, NEW u \in Uses, Propose(u)
  PROVE  Inv'
  <1> USE DEF Inv, Core
  <1> DEFINE j == [job[u] EXCEPT !.at = "asking"]
  <1>1. UNCHANGED <<rec, candidate, installed, loaded, offered, order, rewrite, next, noted,
                    restarts, green, promoted, cut, removed, undone, gone>>
    BY DEF Propose, disk, live, history, removals
  <1>2. u \in Proposers /\ u \notin Scans /\ job[u] \in Job /\ job[u].at = "idle"
    BY Fields, SkillsAssumption DEF Proposers, Propose
  <1>3. job' = [job EXCEPT ![u] = j] /\ j \in Job /\ j.at = "asking"
    BY <1>2, Asks DEF Propose
  <1> HIDE DEF j
  <1>4. /\ job' \in [Proposers -> Job] /\ Shaped'
        /\ \A m \in Tried(Proposers) : m \in Tried(Proposers)'
    BY <1>1, <1>2, <1>3, JobStep
  <1>5. cut \subseteq cut' /\ cut' \subseteq Names
    BY <1>1 DEF TypeOK
  <1> QED
    BY <1>1, <1>4, <1>5, JobOnly

LEMMA GeneratedKeeps ==
  ASSUME Inv, NEW p \in Proposers, Generated(p)
  PROVE  Inv'
  <1> USE DEF Inv, Core
  <1>1. /\ UNCHANGED <<installed, loaded, offered, order, rewrite, restarts,
                       green, promoted, cut, removed, undone, gone>>
        /\ job[p].at = "asking" /\ job[p] \in Job
    BY Fields DEF Generated, live, history, removals
  <1>2. PICK n \in Names, v \in Code :
          /\ Writes(v) /\ noted' = noted \cup {v}
          /\ candidate' = [candidate EXCEPT ![n] = v]
          /\ rec' = Record(n, job[p].source)
          /\ job' = [job EXCEPT ![p].at = "testing", ![p].name = n]
    BY DEF Generated
  <1> DEFINE j == [job[p] EXCEPT !.at = "testing", !.name = n]
  <1>3. job' = [job EXCEPT ![p] = j]
    BY <1>2, Fields
  <1>4. j \in Job /\ j.at = "testing" /\ j.name = n /\ j.made = job[p].made
    BY <1>1, TakesName
  <1>5. p \in Scans => job[p].made < Cap
    BY <1>1 DEF Shaped
  <1> HIDE DEF j
  <1>6. /\ job' \in [Proposers -> Job] /\ Shaped' /\ n \in Tried(Proposers)'
        /\ \A m \in Tried(Proposers) : m \in Tried(Proposers)'
    BY <1>1, <1>3, <1>4, <1>5, JobStep
  <1>7. /\ rec' \in [Names -> Records]
        /\ \A m \in Names : \/ rec'[m] = rec[m]
                            \/ m = n /\ rec'[m].status = "candidate"
    <2>1. CASE rec[n].status = "none"
      <3>1. [status |-> "candidate", source |-> job[p].source] \in Records
        BY <1>1, Fields DEF Records, Status
      <3> QED
        BY <1>2, <2>1, <3>1, Fields DEF Record
    <2>2. CASE rec[n].status # "none"
      BY <1>2, <2>2, Fields DEF Record
    <2> QED
      BY <2>1, <2>2
  <1>8. /\ candidate' \in [Names -> Code] /\ candidate'[n] = v
        /\ \A m \in Names \ {n} : candidate'[m] = candidate[m]
    BY <1>2, Fields
  <1>9. TypeOK'
    <2>1. next' \in Code /\ noted' \subseteq Code
      BY <1>2 DEF TypeOK, Writes
    <2> QED
      BY <1>1, <1>6, <1>7, <1>8, <2>1 DEF TypeOK, Records
  <1>10. Earned' /\ NeverWithoutGreen' /\ RemovedStaysGone'
    BY <1>1, <1>7 DEF Earned, NeverWithoutGreen, RemovedStaysGone
  <1>11. Codes' /\ RemovedCodeIsIdle'
    BY <1>1, <1>2, <1>8, OneWritten
  <1>12. CandidateIsUnderTest'
    BY <1>1, <1>6, <1>7 DEF CandidateIsUnderTest
  <1> QED
    BY <1>6, <1>9, <1>10, <1>11, <1>12

LEMMA BarrenKeeps ==
  ASSUME Inv, NEW p \in Proposers, Barren(p)
  PROVE  Inv'
  <1> USE DEF Inv, Core
  <1>1. /\ UNCHANGED <<rec, candidate, installed, loaded, offered, order, rewrite, next, noted,
                       restarts, green, promoted, cut, removed, undone, gone>>
        /\ job' = [job EXCEPT ![p] = Over(p)] /\ job[p].at = "asking"
    BY DEF Barren, disk, live, history, removals
  <1>2. Over(p) \in Job /\ Over(p).at \in {"idle", "scanning"}
    BY <1>1, OverFact
  <1>3. /\ job' \in [Proposers -> Job] /\ Shaped'
        /\ \A m \in Tried(Proposers) : m \in Tried(Proposers)'
    BY <1>1, <1>2, JobStep
  <1>4. cut \subseteq cut' /\ cut' \subseteq Names
    BY <1>1 DEF TypeOK
  <1> QED
    BY <1>1, <1>3, <1>4, JobOnly

LEMMA UnrecordedKeeps ==
  ASSUME Inv, NEW p \in Proposers, Unrecorded(p)
  PROVE  Inv'
  <1> USE DEF Inv, Core
  <1>1. /\ UNCHANGED <<rec, installed, loaded, offered, order, rewrite, restarts,
                       green, promoted, cut, removed, undone, gone>>
        /\ job' = [job EXCEPT ![p] = Broken(p)] /\ job[p].at = "asking"
    BY DEF Unrecorded, live, history, removals
  <1>2. PICK n \in Names, v \in Code :
          /\ Writes(v) /\ noted' = noted \cup {v} /\ candidate' = [candidate EXCEPT ![n] = v]
    BY DEF Unrecorded
  <1>3. Broken(p) \in Job /\ Broken(p).at \in {"idle", "scanning"}
    BY <1>1, BrokenFact
  <1>4. /\ job' \in [Proposers -> Job] /\ Shaped'
        /\ \A m \in Tried(Proposers) : m \in Tried(Proposers)'
    BY <1>1, <1>3, JobStep
  <1>5. /\ candidate' \in [Names -> Code] /\ candidate'[n] = v
        /\ \A m \in Names \ {n} : candidate'[m] = candidate[m]
    BY <1>2, Fields
  <1>6. TypeOK'
    <2>1. next' \in Code /\ noted' \subseteq Code
      BY <1>2 DEF TypeOK, Writes
    <2> QED
      BY <1>1, <1>4, <1>5, <2>1 DEF TypeOK
  <1>7. Earned' /\ NeverWithoutGreen' /\ RemovedStaysGone'
    BY <1>1 DEF Earned, NeverWithoutGreen, RemovedStaysGone
  <1>8. Codes' /\ RemovedCodeIsIdle'
    BY <1>1, <1>2, <1>5, OneWritten
  <1>9. CandidateIsUnderTest'
    BY <1>1, <1>4 DEF CandidateIsUnderTest
  <1> QED
    BY <1>4, <1>6, <1>7, <1>8, <1>9

LEMMA ImportsKeeps ==
  ASSUME Inv, NEW p \in Proposers, Imports(p)
  PROVE  Inv'
  <1> USE DEF Inv, Core
  <1> DEFINE c == candidate[job[p].name]
             j == [job[p] EXCEPT !.at = "running", !.code = c]
  <1>1. /\ UNCHANGED <<rec, candidate, installed, loaded, offered, order, rewrite, next, noted,
                       restarts, green, promoted, cut, removed, undone, gone>>
        /\ job[p].at = "testing" /\ job[p] \in Job
    BY Fields DEF Imports, disk, live, history, removals
  <1>2. /\ job[p].name \in Names /\ c \in Code
        /\ p \in Scans => job[p].made < Cap
    BY <1>1, Fields DEF Shaped
  <1>3. job' = [job EXCEPT ![p] = j]
    BY Fields DEF Imports
  <1>4. j \in Job /\ j.at = "running" /\ j.name = job[p].name /\ j.made = job[p].made
    BY <1>1, <1>2, TakesCode
  <1> HIDE DEF c, j
  <1>5. /\ job' \in [Proposers -> Job] /\ Shaped' /\ job[p].name \in Tried(Proposers)'
        /\ \A m \in Tried(Proposers) : m \in Tried(Proposers)' \/ m = job[p].name
    BY <1>1, <1>2, <1>3, <1>4, JobStep
  <1>6. cut \subseteq cut' /\ cut' \subseteq Names
    BY <1>1 DEF TypeOK
  <1> QED
    BY <1>1, <1>5, <1>6, JobOnly

LEMMA VerdictKeeps ==
  ASSUME Inv, NEW p \in Proposers, Verdict(p)
  PROVE  Inv'
  <1> USE DEF Inv, Core
  <1>1. /\ UNCHANGED <<candidate, installed, loaded, offered, order, rewrite, next, noted,
                       restarts, promoted, cut, removed, undone, gone>>
        /\ job' = [job EXCEPT ![p] = Over(p)] /\ job[p].at = "running"
        /\ Marks(job[p].name, job[p].code)
    BY DEF Verdict, disk, live, removals
  <1>2. Over(p) \in Job /\ Over(p).at \in {"idle", "scanning"}
    BY <1>1, OverFact
  <1>3. /\ job' \in [Proposers -> Job] /\ Shaped'
        /\ \A m \in Tried(Proposers) : m \in Tried(Proposers)' \/ m = job[p].name
    BY <1>1, <1>2, JobStep
  <1>4. job[p].name \in Names /\ job[p].code \in Code
    BY <1>1, Fields DEF Shaped
  <1>5. /\ rec' \in [Names -> Records] /\ green \subseteq green' /\ green' \subseteq Names \X Code
        /\ \A m \in Names \ {job[p].name} : rec'[m] = rec[m]
        /\ \/ rec'[job[p].name].status = "sandboxed_pass" /\ <<job[p].name, job[p].code>> \in green'
           \/ rec'[job[p].name].status = "sandboxed_fail"
    <2> DEFINE n == job[p].name
    <2>1. \A a \in {"sandboxed_pass", "sandboxed_fail"} :
            [rec[n] EXCEPT !.status = a] \in Records /\ [rec[n] EXCEPT !.status = a].status = a
      BY <1>4, Fields DEF Records, Status
    <2>2. green \subseteq Names \X Code
      BY DEF TypeOK
    <2>3. CASE rec' = [rec EXCEPT ![n].status = "sandboxed_pass"] /\ green' = green \cup {<<n, job[p].code>>}
      BY <2>1, <2>2, <2>3, <1>4, Fields
    <2>4. CASE rec' = [rec EXCEPT ![n].status = "sandboxed_fail"] /\ green' = green
      BY <2>1, <2>2, <2>4, <1>4, Fields
    <2> QED
      BY <1>1, <2>3, <2>4 DEF Marks
  <1>6. TypeOK'
    BY <1>1, <1>3, <1>5 DEF TypeOK, Records
  <1>7. Earned' /\ NeverWithoutGreen'
    BY <1>1, <1>5 DEF Earned, NeverWithoutGreen
  <1>8. RemovedStaysGone' /\ Codes' /\ RemovedCodeIsIdle'
    BY <1>1, NothingWritten DEF RemovedStaysGone
  <1>9. CandidateIsUnderTest'
    BY <1>1, <1>3, <1>4, <1>5 DEF CandidateIsUnderTest
  <1> QED
    BY <1>3, <1>6, <1>7, <1>8, <1>9

LEMMA UnmarkedKeeps ==
  ASSUME Inv, NEW p \in Proposers, Unmarked(p)
  PROVE  Inv'
  <1> USE DEF Inv, Core
  <1>1. /\ UNCHANGED <<rec, candidate, installed, loaded, offered, order, rewrite, next, noted,
                       restarts, green, promoted, removed, undone, gone>>
        /\ job' = [job EXCEPT ![p] = Broken(p)] /\ job[p].at = "running"
        /\ cut' = cut \cup {job[p].name}
    BY DEF Unmarked, disk, live, removals
  <1>2. Broken(p) \in Job /\ Broken(p).at \in {"idle", "scanning"}
    BY <1>1, BrokenFact
  <1>3. /\ job' \in [Proposers -> Job] /\ Shaped'
        /\ \A m \in Tried(Proposers) : m \in Tried(Proposers)' \cup cut'
    BY <1>1, <1>2, JobStep
  <1>4. cut \subseteq cut' /\ cut' \subseteq Names
    BY <1>1 DEF TypeOK, Shaped
  <1> QED
    BY <1>1, <1>3, <1>4, JobOnly

LEMMA CancelledKeeps ==
  ASSUME Inv, NEW u \in Uses, Cancelled(u)
  PROVE  Inv'
  <1> USE DEF Inv, Core
  <1>1. /\ UNCHANGED <<rec, candidate, installed, loaded, offered, order, rewrite, next, noted,
                       restarts, green, promoted, removed, undone, gone>>
        /\ job' = [job EXCEPT ![u] = NoJob] /\ cut' = cut \cup Tried({u})
    BY DEF Cancelled, disk, live, removals
  <1>2. u \in Proposers
    BY DEF Proposers
  <1>3. /\ job' \in [Proposers -> Job] /\ Shaped'
        /\ \A m \in Tried(Proposers) :
             \/ m \in Tried(Proposers)'
             \/ job[u].at \in {"testing", "running"} /\ m = job[u].name
    BY <1>1, <1>2, Shapes, JobStep
  <1>4. job[u].at \in {"testing", "running"} => job[u].name \in Tried({u})
    BY DEF Tried
  <1>5. cut \subseteq cut' /\ cut' \subseteq Names
    BY <1>1, <1>2, TriedNames DEF TypeOK
  <1> QED
    BY <1>1, <1>3, <1>4, <1>5, JobOnly

LEMMA PromoteKeeps ==
  ASSUME Inv, NEW n \in Names, Promote(n)
  PROVE  Inv'
  <1> USE DEF Inv, Core
  <1> DEFINE d == [dir |-> TRUE, code |-> candidate[n]]
  <1>1. /\ UNCHANGED <<offered, job, order, rewrite, next, noted, restarts, green, cut, gone>>
        /\ rec[n].status = "sandboxed_pass" /\ candidate[n] \in Code
        /\ installed' = [installed EXCEPT ![n] = d]
        /\ candidate' = [candidate EXCEPT ![n] = 0]
        /\ promoted' = promoted \cup {<<n, candidate[n]>>}
        /\ removed' = removed \ {n} /\ undone' = undone \ {n}
    BY Fields DEF Promote, Promotable
  <1>2. d \in Dir /\ d.code = candidate[n]
    BY <1>1 DEF Dir
  <1> HIDE DEF d
  <1>3. /\ installed' \in [Names -> Dir] /\ installed'[n].code = candidate[n]
        /\ \A m \in Names \ {n} : installed'[m] = installed[m]
    BY <1>1, <1>2, Fields
  <1>4. /\ candidate' \in [Names -> Code] /\ candidate'[n] = 0
        /\ \A m \in Names \ {n} : candidate'[m] = candidate[m]
    BY <1>1, Fields, Shapes
  <1>5. \/ loaded' = loaded
        \/ loaded' \in Reads(installed')
    BY DEF Promote
  <1>6. loaded' \in [Names -> Code]
    BY <1>5, Fields, ReadsFact
  <1>7. /\ rec' \in [Names -> Records]
        /\ \A m \in Names : rec'[m] = rec[m] \/ rec'[m].status = "active"
    <2>1. [rec[n] EXCEPT !.status = "active"] \in Records /\ [rec[n] EXCEPT !.status = "active"].status = "active"
      BY Fields DEF Records, Status
    <2> QED
      BY <2>1, Fields DEF Promote
  <1>8. promoted' \subseteq Names \X Code /\ removed' \subseteq Names /\ undone' \subseteq Names
    BY <1>1 DEF TypeOK
  <1>9. TypeOK'
    BY <1>1, <1>3, <1>4, <1>6, <1>7, <1>8 DEF TypeOK, Records
  <1>10. Earned' /\ Shaped'
    BY <1>1, <1>7 DEF Earned, Shaped
  <1>11. NeverWithoutGreen'
    <2>1. \E g \in green : g[1] = n
      BY <1>1 DEF Earned
    <2> QED
      BY <1>1, <2>1 DEF NeverWithoutGreen
  <1>12. RemovedCodeIsIdle'
    <2>1. \A m \in Names : installed[m].code \notin gone /\ candidate[m] \notin gone
                           /\ loaded[m] \notin gone /\ offered[m] \notin gone
      BY DEF RemovedCodeIsIdle
    <2>2. 0 \notin gone
      BY DEF Codes
    <2>3. \A m \in Names : installed'[m].code \notin gone /\ candidate'[m] \notin gone
      BY <1>3, <1>4, <2>1, <2>2
    <2>4. \A m \in Names : loaded'[m] \notin gone
      BY <1>5, <2>1, <2>2, <2>3, ReadsFact
    <2> QED
      BY <1>1, <2>1, <2>3, <2>4 DEF RemovedCodeIsIdle
  <1>13. Codes'
    <2>1. next \in Nat
      BY SkillsAssumption DEF TypeOK, Code
    <2> QED
      BY <1>1, <1>3, <1>4, <2>1, Fields DEF Codes
  <1>14. RemovedStaysGone'
    BY <1>1, <1>3 DEF RemovedStaysGone, TypeOK
  <1>15. CandidateIsUnderTest'
    BY <1>1, <1>7, SameTrials DEF CandidateIsUnderTest
  <1> QED
    BY <1>9, <1>10, <1>11, <1>12, <1>13, <1>14, <1>15

LEMMA RejectKeeps ==
  ASSUME Inv, NEW n \in Names, Reject(n)
  PROVE  Inv'
  <1> USE DEF Inv, Core
  <1>1. /\ UNCHANGED <<installed, loaded, offered, job, order, rewrite, next, noted, restarts,
                       green, promoted, cut, removed, undone, gone>>
        /\ candidate' \in [Names -> Code]
        /\ \A m \in Names : candidate'[m] \in {candidate[m], 0}
    BY Fields, Shapes DEF Reject, live, history, removals
  <1>2. /\ rec' \in [Names -> Records]
        /\ \A m \in Names : rec'[m] = rec[m] \/ rec'[m].status = "rejected"
    <2>1. [rec[n] EXCEPT !.status = "rejected"] \in Records /\ [rec[n] EXCEPT !.status = "rejected"].status = "rejected"
      BY Fields DEF Records, Status
    <2>2. rec' = rec \/ rec' = [rec EXCEPT ![n].status = "rejected"]
      BY DEF Reject
    <2>3. CASE rec' = rec
      BY <2>3, Fields
    <2>4. CASE rec' = [rec EXCEPT ![n].status = "rejected"]
      BY <2>1, <2>4, Fields
    <2> QED
      BY <2>2, <2>3, <2>4
  <1>3. TypeOK'
    BY <1>1, <1>2 DEF TypeOK, Records
  <1>4. Earned' /\ Shaped' /\ NeverWithoutGreen' /\ RemovedStaysGone'
    BY <1>1, <1>2 DEF Earned, Shaped, NeverWithoutGreen, RemovedStaysGone
  <1>5. CandidateIsUnderTest'
    BY <1>1, <1>2, SameTrials DEF CandidateIsUnderTest
  <1>6. Codes' /\ RemovedCodeIsIdle'
    BY <1>1, NothingWritten
  <1> QED
    BY <1>3, <1>4, <1>5, <1>6

LEMMA UninstallKeeps ==
  ASSUME Inv, NEW n \in Names, Uninstall(n)
  PROVE  Inv'
  <1> USE DEF Inv, Core
  <1>1. /\ UNCHANGED <<rec, candidate, job, order, rewrite, next, noted, restarts, green,
                       promoted, cut>>
        /\ installed' = [installed EXCEPT ![n] = NoDir]
        /\ removed' = removed \cup {n} /\ undone' = undone \ {n}
        /\ gone' = gone \cup ({installed[n].code} \ {0})
        /\ loaded' \in Reads(installed') /\ offered' = loaded'
    BY DEF Uninstall, Uninstalled
  <1>2. /\ installed' \in [Names -> Dir] /\ installed'[n] = NoDir
        /\ \A m \in Names \ {n} : installed'[m] = installed[m]
    BY <1>1, Fields, Shapes
  <1>3. loaded' \in [Names -> Code] /\ offered' \in [Names -> Code]
    BY <1>1, ReadsFact
  <1>4. TypeOK'
    <2>1. gone' \subseteq Code /\ removed' \subseteq Names /\ undone' \subseteq Names
      BY <1>1, Fields DEF TypeOK
    <2> QED
      BY <1>1, <1>2, <1>3, <2>1 DEF TypeOK
  <1>5. RemovedCodeIsIdle'
    <2>1. \A m \in Names : installed[m].code \notin gone /\ candidate[m] \notin gone
      BY DEF RemovedCodeIsIdle
    <2>2. 0 \notin gone' /\ NoDir.code = 0
      BY <1>1, Shapes DEF Codes
    <2>3. \A m \in Names : candidate'[m] \notin gone'
      BY <1>1, <2>1, Shapes DEF Codes
    <2>4. \A m \in Names : installed'[m].code \notin gone'
      <3> SUFFICES ASSUME NEW m \in Names PROVE installed'[m].code \notin gone'
        OBVIOUS
      <3>1. CASE m = n
        BY <3>1, <1>2, <2>2
      <3>2. CASE m # n
        BY <3>2, <1>1, <1>2, <2>1 DEF Codes
      <3> QED
        BY <3>1, <3>2
    <2>5. \A m \in Names : loaded'[m] \notin gone'
      <3>1. \A m \in Names : loaded'[m] = 0 \/ \E k \in Names : loaded'[m] = installed'[k].code
        <4>1. loaded' \in Reads(installed')
          BY <1>1
        <4> QED
          BY <4>1 DEF Reads
      <3> QED
        BY <3>1, <2>2, <2>4
    <2> QED
      BY <1>1, <2>3, <2>4, <2>5 DEF RemovedCodeIsIdle
  <1>6. Codes'
    <2>1. next \in Nat /\ installed[n].code \in Nat /\ NoDir.code = 0
      BY Fields, Shapes, SkillsAssumption DEF TypeOK, Code
    <2>2. \A g \in gone' : 0 < g /\ g <= next'
      BY <1>1, <2>1 DEF Codes
    <2>3. \A m \in Names : installed'[m].code \in {installed[m].code, 0}
      BY <1>2, <2>1
    <2> QED
      BY <1>1, <2>1, <2>2, <2>3, Fields DEF Codes
  <1>7. RemovedStaysGone'
    BY <1>1, <1>2 DEF RemovedStaysGone, TypeOK
  <1>8. \A o \in Orders : order'[o].at = "idle" <=> order'[o].name = NoName
    BY <1>1 DEF Shaped
  <1> QED
    BY <1>1, <1>4, <1>5, <1>6, <1>7, <1>8, Aside

LEMMA UninstallFailsKeeps ==
  ASSUME Inv, NEW n \in Names, UninstallFails(n)
  PROVE  Inv'
  <1> USE DEF Inv, Core
  <1>1. UNCHANGED <<rec, candidate, offered, job, order, rewrite, next, noted, restarts, green,
                    promoted, cut, removed, undone, gone>>
    BY DEF UninstallFails, history, removals
  <1>2. PICK d \in {[NoDir EXCEPT !.dir = TRUE], NoDir} : installed' = [installed EXCEPT ![n] = d]
    BY DEF UninstallFails
  <1>3. d \in Dir /\ d.code = 0
    BY Shapes DEF NoDir, Dir
  <1>4. /\ installed' \in [Names -> Dir] /\ installed'[n] = d
        /\ \A m \in Names \ {n} : installed'[m] = installed[m]
    BY <1>2, <1>3, Fields
  <1>5. /\ loaded' \in [Names -> Code]
        /\ \A m \in Names : loaded'[m] \in {loaded[m], 0} \cup {installed[k].code : k \in Names}
    <2>1. CASE loaded' = loaded
      BY <2>1, Fields
    <2>2. CASE loaded' \in Reads(installed')
      BY <2>2, <1>3, <1>4, ReadsFact
    <2> QED
      BY <2>1, <2>2 DEF UninstallFails
  <1>6. TypeOK'
    BY <1>1, <1>4, <1>5 DEF TypeOK
  <1>7. \A m \in Names : installed'[m].code \in {installed[m].code, 0}
    BY <1>3, <1>4
  <1>8. Codes' /\ RemovedCodeIsIdle'
    BY <1>1, <1>5, <1>7, NothingWritten
  <1>9. RemovedStaysGone'
    <2>1. n \notin removed \/ n \in undone
      BY Shapes DEF UninstallFails, RemovedStaysGone
    <2> QED
      BY <1>1, <1>4, <2>1 DEF RemovedStaysGone, TypeOK
  <1>10. \A o \in Orders : order'[o].at = "idle" <=> order'[o].name = NoName
    BY <1>1 DEF Shaped
  <1> QED
    BY <1>1, <1>6, <1>8, <1>9, <1>10, Aside

LEMMA ReloadKeeps ==
  ASSUME Inv, Reload
  PROVE  Inv'
  <1> USE DEF Inv, Core
  <1>1. /\ UNCHANGED <<rec, candidate, installed, job, order, rewrite, next, noted, restarts,
                       green, promoted, cut, removed, undone, gone>>
        /\ loaded' \in Reads(installed) /\ offered' \in {loaded', offered}
    BY DEF Reload, disk, history, removals
  <1>2. /\ loaded' \in [Names -> Code]
        /\ \A m \in Names : loaded'[m] \in {loaded[m], 0} \cup {installed[n].code : n \in Names}
    BY <1>1, ReadsFact
  <1>3. offered' \in [Names -> Code] /\ \A m \in Names : offered'[m] \in {offered[m], loaded'[m]}
    BY <1>1, <1>2, Fields
  <1>4. TypeOK'
    BY <1>1, <1>2, <1>3 DEF TypeOK
  <1>5. Codes' /\ RemovedCodeIsIdle'
    BY <1>1, <1>2, <1>3, NothingWritten
  <1>6. /\ RemovedStaysGone'
        /\ \A o \in Orders : order'[o].at = "idle" <=> order'[o].name = NoName
    BY <1>1 DEF RemovedStaysGone, Shaped
  <1> QED
    BY <1>1, <1>4, <1>5, <1>6, Aside

\* An order moves on, or ends.
LEMMA OrderStep ==
  ASSUME TypeOK, Shaped, NEW o \in Orders, NEW r \in Order, order' = [order EXCEPT ![o] = r],
         r.at = "idle" <=> r.name = NoName
  PROVE  /\ order' \in [Orders -> Order]
         /\ \A q \in Orders : order'[q].at = "idle" <=> order'[q].name = NoName
  BY Fields DEF Shaped

LEMMA OrderIs ==
  ASSUME NEW a \in {"catalogue", "downloading", "written"}, NEW n \in Names
  PROVE  LET r == [at |-> a, name |-> n] IN r \in Order /\ r.at # "idle" /\ r.name # NoName
  BY SkillsAssumption DEF Order

LEMMA StoreBeginsKeeps ==
  ASSUME Inv, NEW o \in Orders, StoreBegins(o)
  PROVE  Inv'
  <1> USE DEF Inv, Core
  <1>1. UNCHANGED <<rec, candidate, installed, loaded, offered, job, rewrite, next, noted,
                    restarts, green, promoted, cut, gone>>
    BY DEF StoreBegins, disk, live
  <1>2. PICK n \in Names :
          /\ order' = [order EXCEPT ![o] = [at |-> "catalogue", name |-> n]]
          /\ removed' = removed \ {n} /\ undone' = undone \ {n}
    BY DEF StoreBegins
  <1>3. /\ order' \in [Orders -> Order]
        /\ \A q \in Orders : order'[q].at = "idle" <=> order'[q].name = NoName
    BY <1>2, OrderIs, OrderStep
  <1>4. TypeOK'
    BY <1>1, <1>2, <1>3 DEF TypeOK
  <1>5. Codes' /\ RemovedCodeIsIdle'
    BY <1>1, NothingWritten
  <1>6. RemovedStaysGone'
    BY <1>1, <1>2 DEF RemovedStaysGone
  <1> QED
    BY <1>1, <1>3, <1>4, <1>5, <1>6, Aside

LEMMA StoreRefusesKeeps ==
  ASSUME Inv, NEW o \in Orders, StoreRefuses(o)
  PROVE  Inv'
  <1> USE DEF Inv, Core
  <1>1. /\ UNCHANGED <<rec, candidate, installed, loaded, offered, job, rewrite, next, noted,
                       restarts, green, promoted, cut, removed, undone, gone>>
        /\ order' = [order EXCEPT ![o] = NoOrder]
    BY DEF StoreRefuses, disk, live, history, removals
  <1>2. /\ order' \in [Orders -> Order]
        /\ \A q \in Orders : order'[q].at = "idle" <=> order'[q].name = NoName
    BY <1>1, Shapes, OrderStep
  <1>3. TypeOK'
    BY <1>1, <1>2 DEF TypeOK
  <1>4. Codes' /\ RemovedCodeIsIdle' /\ RemovedStaysGone'
    BY <1>1, NothingWritten DEF RemovedStaysGone
  <1> QED
    BY <1>1, <1>2, <1>3, <1>4, Aside

LEMMA StoreMakesKeeps ==
  ASSUME Inv, NEW o \in Orders, StoreMakes(o)
  PROVE  Inv'
  <1> USE DEF Inv, Core
  <1> DEFINE n == order[o].name
             d == [dir |-> TRUE, code |-> installed[n].code]
  <1>1. /\ UNCHANGED <<rec, candidate, loaded, offered, job, rewrite, next, noted,
                       restarts, green, promoted, cut, removed, gone>>
        /\ order[o].at = "catalogue"
        /\ order' = [order EXCEPT ![o] = [at |-> "downloading", name |-> n]]
        /\ installed' = [installed EXCEPT ![n] = d]
        /\ undone' = undone \cup (removed \cap {n})
    BY DEF StoreMakes, live
  <1>2. n \in Names
    BY <1>1, Fields DEF Shaped
  <1>3. d \in Dir /\ d.code = installed[n].code
    BY <1>2, Fields DEF Dir
  <1> HIDE DEF n, d
  <1>4. /\ order' \in [Orders -> Order]
        /\ \A q \in Orders : order'[q].at = "idle" <=> order'[q].name = NoName
    BY <1>1, <1>2, OrderIs, OrderStep
  <1>5. /\ installed' \in [Names -> Dir]
        /\ \A m \in Names : installed'[m].code = installed[m].code
        /\ \A m \in Names \ {n} : installed'[m] = installed[m]
    BY <1>1, <1>2, <1>3, Fields
  <1>6. TypeOK'
    BY <1>1, <1>2, <1>4, <1>5 DEF TypeOK
  <1>7. Codes' /\ RemovedCodeIsIdle'
    BY <1>1, <1>5, NothingWritten
  <1>8. RemovedStaysGone'
    BY <1>1, <1>5 DEF RemovedStaysGone, TypeOK
  <1> QED
    BY <1>1, <1>4, <1>6, <1>7, <1>8, Aside

LEMMA StoreWritesKeeps ==
  ASSUME Inv, NEW o \in Orders, StoreWrites(o)
  PROVE  Inv'
  <1> USE DEF Inv, Core
  <1> DEFINE n == order[o].name
  <1>1. /\ UNCHANGED <<rec, candidate, loaded, offered, job, rewrite,
                       restarts, green, promoted, cut, removed, undone, gone>>
        /\ order[o].at = "downloading" /\ installed[n].dir
        /\ order' = [order EXCEPT ![o] = [at |-> "written", name |-> n]]
    BY DEF StoreWrites, live, history, removals
  <1>2. PICK v \in Code :
          /\ Writes(v) /\ installed' = [installed EXCEPT ![n] = [dir |-> TRUE, code |-> v]]
          /\ noted' = IF installed[n].code \in noted THEN noted \cup {v} ELSE noted
    BY DEF StoreWrites
  <1>3. n \in Names
    BY <1>1, Fields DEF Shaped
  <1> HIDE DEF n
  <1>4. [dir |-> TRUE, code |-> v] \in Dir
    BY DEF Dir
  <1>5. /\ installed' \in [Names -> Dir] /\ installed'[n].code = v
        /\ \A m \in Names \ {n} : installed'[m] = installed[m]
    BY <1>2, <1>3, <1>4, Fields
  <1>6. /\ order' \in [Orders -> Order]
        /\ \A q \in Orders : order'[q].at = "idle" <=> order'[q].name = NoName
    BY <1>1, <1>3, OrderIs, OrderStep
  <1>7. next' \in Code /\ noted' \subseteq Code
    BY <1>2 DEF Writes, TypeOK
  <1>8. TypeOK'
    BY <1>1, <1>5, <1>6, <1>7 DEF TypeOK
  <1>9. Codes' /\ RemovedCodeIsIdle'
    BY <1>1, <1>2, <1>3, <1>5, OneWritten
  <1>10. RemovedStaysGone'
    <2>1. n \notin removed \/ n \in undone
      BY <1>1, Shapes DEF RemovedStaysGone
    <2> QED
      BY <1>1, <1>5, <2>1 DEF RemovedStaysGone, TypeOK
  <1> QED
    BY <1>1, <1>6, <1>8, <1>9, <1>10, Aside

LEMMA StoreEndsKeeps ==
  ASSUME Inv, NEW o \in Orders, StoreEnds(o)
  PROVE  Inv'
  <1> USE DEF Inv, Core
  <1>1. /\ UNCHANGED <<rec, candidate, installed, job, rewrite, next, noted, restarts,
                       green, promoted, cut, removed, undone, gone>>
        /\ loaded' \in Reads(installed) /\ offered' = loaded'
        /\ order' = [order EXCEPT ![o] = NoOrder]
    BY DEF StoreEnds, disk, history, removals
  <1>2. /\ order' \in [Orders -> Order]
        /\ \A q \in Orders : order'[q].at = "idle" <=> order'[q].name = NoName
    BY <1>1, Shapes, OrderStep
  <1>3. /\ loaded' \in [Names -> Code]
        /\ \A m \in Names : loaded'[m] \in {loaded[m], 0} \cup {installed[n].code : n \in Names}
    BY <1>1, ReadsFact
  <1>4. TypeOK'
    BY <1>1, <1>2, <1>3 DEF TypeOK
  <1>5. Codes' /\ RemovedCodeIsIdle' /\ RemovedStaysGone'
    BY <1>1, <1>3, NothingWritten DEF RemovedStaysGone
  <1> QED
    BY <1>1, <1>2, <1>4, <1>5, Aside

LEMMA StoreFailsKeeps ==
  ASSUME Inv, NEW o \in Orders, StoreFails(o)
  PROVE  Inv'
  <1> USE DEF Inv, Core
  <1> DEFINE n == order[o].name
  <1>1. /\ UNCHANGED <<rec, candidate, offered, job, rewrite, next, noted, restarts,
                       green, promoted, cut, removed, undone, gone>>
        /\ order[o].at # "idle"
        /\ installed' = [installed EXCEPT ![n] = NoDir]
        /\ order' = [order EXCEPT ![o] = NoOrder]
    BY DEF StoreFails, history, removals
  <1>2. loaded' = loaded \/ loaded' \in Reads(installed)
    BY DEF StoreFails
  <1>3. n \in Names
    BY <1>1, Fields DEF Shaped
  <1> HIDE DEF n
  <1>4. /\ order' \in [Orders -> Order]
        /\ \A q \in Orders : order'[q].at = "idle" <=> order'[q].name = NoName
    BY <1>1, Shapes, OrderStep
  <1>5. /\ installed' \in [Names -> Dir] /\ installed'[n] = NoDir
        /\ \A m \in Names \ {n} : installed'[m] = installed[m]
    BY <1>1, <1>3, Fields, Shapes
  <1>6. /\ loaded' \in [Names -> Code]
        /\ \A m \in Names : loaded'[m] \in {loaded[m], 0} \cup {installed[k].code : k \in Names}
    BY <1>2, Fields, ReadsFact
  <1>7. TypeOK'
    BY <1>1, <1>4, <1>5, <1>6 DEF TypeOK
  <1>8. \A m \in Names : installed'[m].code \in {installed[m].code, 0}
    BY <1>5, Shapes
  <1>9. Codes' /\ RemovedCodeIsIdle'
    BY <1>1, <1>6, <1>8, NothingWritten
  <1>10. RemovedStaysGone'
    BY <1>1, <1>5 DEF RemovedStaysGone, TypeOK
  <1> QED
    BY <1>1, <1>4, <1>7, <1>9, <1>10, Aside

LEMMA RewriteBeginsKeeps ==
  ASSUME Inv, NEW r \in Rewrites, RewriteBegins(r)
  PROVE  Inv'
  <1> USE DEF Inv, Core
  <1>1. /\ UNCHANGED <<rec, candidate, installed, loaded, offered, job, order, next, noted,
                       restarts, green, promoted, cut, removed, undone, gone>>
        /\ rewrite' \in [Rewrites -> Names \cup {NoName}]
    BY Fields DEF RewriteBegins, disk, live, history, removals
  <1>2. TypeOK'
    BY <1>1 DEF TypeOK
  <1>3. Codes' /\ RemovedCodeIsIdle' /\ RemovedStaysGone'
    BY <1>1, NothingWritten DEF RemovedStaysGone
  <1>4. \A o \in Orders : order'[o].at = "idle" <=> order'[o].name = NoName
    BY <1>1 DEF Shaped
  <1> QED
    BY <1>1, <1>2, <1>3, <1>4, Aside

LEMMA RewriteEndsKeeps ==
  ASSUME Inv, NEW r \in Rewrites, RewriteEnds(r)
  PROVE  Inv'
  <1> USE DEF Inv, Core
  <1> DEFINE n == rewrite[r]
  <1>1. /\ UNCHANGED <<rec, candidate, offered, job, order, restarts,
                       green, promoted, cut, removed, undone, gone>>
        /\ n \in Names
        /\ rewrite' = [rewrite EXCEPT ![r] = NoName]
    BY Fields DEF RewriteEnds, history, removals
  <1>2. rewrite' \in [Rewrites -> Names \cup {NoName}]
    BY <1>1, Fields
  <1>3. \A o \in Orders : order'[o].at = "idle" <=> order'[o].name = NoName
    BY <1>1 DEF Shaped
  <1> HIDE DEF n
  <1>4. CASE UNCHANGED <<next, noted, installed, loaded>>
    <2>1. TypeOK'
      BY <1>1, <1>2, <1>4 DEF TypeOK
    <2>2. Codes' /\ RemovedCodeIsIdle' /\ RemovedStaysGone'
      BY <1>1, <1>4, NothingWritten DEF RemovedStaysGone
    <2> QED
      BY <1>1, <1>3, <2>1, <2>2, Aside
  <1>5. CASE /\ installed[n].dir
             /\ \E v \in Code :
                  /\ Writes(v) /\ noted' = noted \cup {v}
                  /\ installed' = [installed EXCEPT ![n] = [dir |-> TRUE, code |-> v]]
                  /\ loaded' \in {loaded} \cup {[loaded EXCEPT ![m] = v] : m \in Names}
    <2>1. PICK v \in Code :
            /\ Writes(v) /\ noted' = noted \cup {v}
            /\ installed' = [installed EXCEPT ![n] = [dir |-> TRUE, code |-> v]]
            /\ loaded' \in {loaded} \cup {[loaded EXCEPT ![m] = v] : m \in Names}
      BY <1>5
    <2>2. [dir |-> TRUE, code |-> v] \in Dir
      BY DEF Dir
    <2>3. /\ installed' \in [Names -> Dir] /\ installed'[n].code = v
          /\ \A m \in Names \ {n} : installed'[m] = installed[m]
      BY <1>1, <2>1, <2>2, Fields
    <2>4. loaded' \in [Names -> Code] /\ \A m \in Names : loaded'[m] \in {loaded[m], v}
      BY <2>1, Fields
    <2>5. next' \in Code /\ noted' \subseteq Code
      BY <2>1 DEF Writes, TypeOK
    <2>6. TypeOK'
      BY <1>1, <1>2, <2>3, <2>4, <2>5 DEF TypeOK
    <2>7. Codes' /\ RemovedCodeIsIdle'
      BY <1>1, <2>1, <2>3, <2>4, OneWritten
    <2>8. RemovedStaysGone'
      <3>1. n \notin removed \/ n \in undone
        BY <1>5, Shapes DEF RemovedStaysGone
      <3> QED
        BY <1>1, <2>3, <3>1 DEF RemovedStaysGone, TypeOK
    <2> QED
      BY <1>1, <1>3, <2>6, <2>7, <2>8, Aside
  <1> QED
    BY <1>4, <1>5 DEF RewriteEnds, Lands, n

LEMMA RestartKeeps ==
  ASSUME Inv, Restart
  PROVE  Inv'
  <1> USE DEF Inv, Core
  <1>1. /\ UNCHANGED <<rec, candidate, installed, next, noted, green, promoted, removed, undone, gone>>
        /\ loaded' \in Reads(installed) /\ offered' = loaded'
        /\ restarts < MaxRestarts /\ restarts' = restarts + 1
        /\ job' = [p \in Proposers |-> NoJob] /\ order' = [o \in Orders |-> NoOrder]
        /\ rewrite' = [r \in Rewrites |-> NoName]
        /\ cut' = cut \cup Tried(Proposers)
    BY DEF Restart, disk, removals
  <1>2. restarts' \in 0..MaxRestarts
    BY <1>1, SkillsAssumption DEF TypeOK
  <1>3. /\ job' \in [Proposers -> Job] /\ order' \in [Orders -> Order]
        /\ rewrite' \in [Rewrites -> Names \cup {NoName}]
    BY <1>1, Shapes
  <1>4. /\ loaded' \in [Names -> Code]
        /\ \A m \in Names : loaded'[m] \in {loaded[m], 0} \cup {installed[n].code : n \in Names}
    BY <1>1, ReadsFact
  <1>5. cut' \subseteq Names
    BY <1>1, TriedNames DEF TypeOK
  <1>6. TypeOK'
    BY <1>1, <1>2, <1>3, <1>4, <1>5 DEF TypeOK
  <1>7. Earned' /\ NeverWithoutGreen' /\ RemovedStaysGone'
    BY <1>1 DEF Earned, NeverWithoutGreen, RemovedStaysGone
  <1>8. Codes' /\ RemovedCodeIsIdle'
    BY <1>1, <1>4, NothingWritten
  <1>9. Shaped'
    BY <1>1, Shapes DEF Shaped
  <1>10. CandidateIsUnderTest'
    BY <1>1 DEF CandidateIsUnderTest
  <1> QED
    BY <1>6, <1>7, <1>8, <1>9, <1>10

LEMMA StepInv == Inv /\ [Next]_vars => Inv'
  <1> SUFFICES ASSUME Inv, [Next]_vars PROVE Inv'
    OBVIOUS
  <1>1. CASE \E s \in Scans : Scan(s)
    BY <1>1, ScanKeeps
  <1>2. CASE \E u \in Uses : Propose(u) \/ Cancelled(u)
    BY <1>2, ProposeKeeps, CancelledKeeps
  <1>3. CASE \E p \in Proposers : Generated(p) \/ Barren(p) \/ Unrecorded(p) \/ Imports(p)
                                   \/ Verdict(p) \/ Unmarked(p)
    BY <1>3, GeneratedKeeps, BarrenKeeps, UnrecordedKeeps, ImportsKeeps, VerdictKeeps, UnmarkedKeeps
  <1>4. CASE \E n \in Names : Promote(n) \/ Reject(n) \/ Uninstall(n) \/ UninstallFails(n)
    BY <1>4, PromoteKeeps, RejectKeeps, UninstallKeeps, UninstallFailsKeeps
  <1>5. CASE Reload \/ Restart
    BY <1>5, ReloadKeeps, RestartKeeps
  <1>6. CASE \E o \in Orders : StoreBegins(o) \/ StoreRefuses(o) \/ StoreMakes(o) \/ StoreWrites(o)
                                \/ StoreEnds(o) \/ StoreFails(o)
    BY <1>6, StoreBeginsKeeps, StoreRefusesKeeps, StoreMakesKeeps, StoreWritesKeeps,
       StoreEndsKeeps, StoreFailsKeeps
  <1>7. CASE \E r \in Rewrites : RewriteBegins(r) \/ RewriteEnds(r)
    BY <1>7, RewriteBeginsKeeps, RewriteEndsKeeps
  <1>8. CASE UNCHANGED vars
    <2>1. UNCHANGED <<rec, candidate, installed, loaded, offered, job, order, rewrite, next, noted,
                      restarts, green, promoted, cut, removed, undone, gone>>
      BY <1>8 DEF vars, disk, live, history, removals
    <2>2. TypeOK' /\ Shaped'
      BY <2>1 DEF Inv, Core, TypeOK, Shaped
    <2>3. \A m \in Tried(Proposers) : m \in Tried(Proposers)'
      BY <2>1, SameTrials
    <2>4. job' \in [Proposers -> Job] /\ cut' \subseteq Names
      BY <2>2 DEF TypeOK
    <2> QED
      BY <2>1, <2>2, <2>3, <2>4, JobOnly
  <1> QED
    BY <1>1, <1>2, <1>3, <1>4, <1>5, <1>6, <1>7, <1>8 DEF Next

LEMMA AlwaysInv == Spec => []Inv
  BY InitInv, StepInv, PTL DEF Spec

-----------------------------------------------------------------------------
(* The theorems. *)

\* Every variable stays in its type, the number of candidates of a scan within its ceiling.
THEOREM TypeCorrect == Spec => []TypeOK
  <1>1. Inv => TypeOK
    BY DEF Inv
  <1> QED
    BY <1>1, AlwaysInv, PTL

\* What a human accepts bears a name that passed the sandbox (SkillLab.promote looks at
\* the status, and only a signed verdict makes it green).
THEOREM GateHolds == Spec => []NeverWithoutGreen
  <1>1. Inv => NeverWithoutGreen
    BY DEF Inv, Core
  <1> QED
    BY <1>1, AlwaysInv, PTL

\* A trial that is not cut ends with a verdict in the table (SkillLab.test_in_sandbox).
THEOREM TrialsEndWithAVerdict == Spec => []CandidateIsUnderTest
  <1>1. Inv => CandidateIsUnderTest
    BY DEF Inv, Core
  <1> QED
    BY <1>1, AlwaysInv, PTL

\* What an uninstallation took away with success is on no disk, in no registry and behind
\* no tool again, whatever the readings of the registry leave out or fail to read.
THEOREM RemovedCodeRests == Spec => []RemovedCodeIsIdle
  <1>1. Inv => RemovedCodeIsIdle
    BY DEF Inv, Core
  <1> QED
    BY <1>1, AlwaysInv, PTL

\* A late rewriting or download never brings back what the user uninstalled; only an order
\* that was waiting for the catalogue during the removal does.
THEOREM GoneForGood == Spec => []RemovedStaysGone
  <1>1. Inv => RemovedStaysGone
    BY DEF Inv, Core
  <1> QED
    BY <1>1, AlwaysInv, PTL
==============================================================================
