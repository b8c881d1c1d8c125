---------------------------- MODULE MissionProofs ----------------------------
(***************************************************************************)
(* For every number of workers, of steps, of tries, of budget pauses and   *)
(* of restarts: a step is executed by one worker at a time, once per       *)
(* budget pause, with a consent of its own when it is sensitive, and is    *)
(* called done only once it was verified.  A worker passes no step in      *)
(* silence, and takes none once it was killed.                             *)
(***************************************************************************)
EXTENDS Mission, TLAPS

(***************************************************************************)
(* The inductive invariant.  ExecutedOnce is not preserved by itself: it   *)
(* must say why the next execution is still owed.  A worker that is in a   *)
(* step holds its claim (Holds); a step nobody claimed has run no more     *)
(* often than it was put back (Counts), and so has the step a worker still *)
(* waits to be allowed to run (Owes); a worker that got its yes has a      *)
(* consent no execution used (Consented).                                  *)
(***************************************************************************)
Holds ==
  \A w \in Workers : Busy(w) => worker[w].at \in Steps /\ claims[worker[w].at] = w

Counts ==
  \A s \in Steps :
    /\ runs[s] <= pauses[s] + 1
    /\ claims[s] = NoWorker => runs[s] <= pauses[s]

Owes ==
  \A w \in Workers : worker[w].pc = "waiting" => runs[worker[w].at] <= pauses[worker[w].at]

Consented ==
  /\ EveryRunHasConsent
  /\ \A w \in Workers :
       worker[w].pc = "waiting" /\ worker[w].answer = "yes" /\ worker[w].at \in Sensitive =>
         runs[worker[w].at] + 1 <= consents[worker[w].at]

Core == Holds /\ Counts /\ Owes /\ Consented /\ DoneWasVerified
Inv == TypeOK /\ Core

-----------------------------------------------------------------------------
(* The gate lets no step go without a question above EXECUTE_CODE: whatever *)
(* the mode and the budget, the risk axis is among the three.               *)
LEMMA GateFact ==
  /\ Sensitive \subseteq Steps
  /\ \A s \in Steps : "auto" \in Gates(s) => s \notin Sensitive \/ s \in NeedsApproval
  <1>1. \A s \in Steps : "auto" \in Gates(s) => LevelOf[s] <= AutoMaxLevel
    BY DEF Gates, Strictest, RiskAxis
  <1> QED
    BY <1>1, MissionAssumption DEF Sensitive, AutoMaxLevel

(* The records the model is built from. *)
LEMMA RecordFacts ==
  /\ Fresh \in [Steps -> StepStatuses]
  /\ \A s \in Steps : Fresh[s] = "pending"
  /\ \A pc \in Pcs, st \in ProjectStatuses, steps \in [Steps -> StepStatuses] :
       Launched(pc, st, steps) \in Worker
  /\ Gone \in Worker
  /\ \A m \in Worker : Saved(m) \in [status: ProjectStatuses \cup {"absent", "deleted"},
                                     steps: [Steps -> StepStatuses]]
  /\ \A m \in Worker, pc \in Pcs, st \in ProjectStatuses : Leaves(m, pc, st) \in Worker
  <1> USE MissionAssumption
  <1>1. Fresh \in [Steps -> StepStatuses] /\ \A s \in Steps : Fresh[s] = "pending"
    BY DEF Fresh, StepStatuses
  <1>2. 0 \in 0..NSteps /\ 0 \in 0..MaxTries - 1
    OBVIOUS
  <1>3. \A pc \in Pcs, st \in ProjectStatuses, steps \in [Steps -> StepStatuses] :
          Launched(pc, st, steps) \in Worker
    BY <1>2 DEF Launched, Worker, Answers
  <1>4. Gone \in Worker
    BY <1>1, <1>3 DEF Gone, Pcs, ProjectStatuses
  <1>5. \A m \in Worker : Saved(m) \in [status: ProjectStatuses \cup {"absent", "deleted"},
                                        steps: [Steps -> StepStatuses]]
    BY DEF Saved, Worker
  <1>6. \A m \in Worker, pc \in Pcs, st \in ProjectStatuses : Leaves(m, pc, st) \in Worker
    BY <1>2 DEF Leaves, Worker, Answers
  <1> QED
    BY <1>1, <1>3, <1>4, <1>5, <1>6

LEMMA InitInv == Init => Inv
  <1> SUFFICES ASSUME Init PROVE Inv
    OBVIOUS
  <1> USE MissionAssumption DEF Init
  <1>1. TypeOK
    <2>1. worker \in [Workers -> Worker]
      BY RecordFacts DEF Pcs, ProjectStatuses
    <2>2. disk \in [status: ProjectStatuses \cup {"absent", "deleted"},
                    steps: [Steps -> StepStatuses]]
      BY RecordFacts
    <2> QED
      BY <2>1, <2>2 DEF TypeOK
  <1>2. \A w \in Workers : worker[w].pc = "unused" /\ worker[w].steps = Fresh
    BY DEF Launched
  <1>3. Holds /\ Owes
    BY <1>2 DEF Holds, Owes, Busy
  <1>4. Counts /\ Consented
    BY <1>2, GateFact DEF Counts, Consented, EveryRunHasConsent
  <1>5. DoneWasVerified
    BY <1>2, RecordFacts DEF DoneWasVerified
  <1> QED
    BY <1>1, <1>3, <1>4, <1>5 DEF Inv, Core

-----------------------------------------------------------------------------
(* What the loop of run does from step m.at on: it leaves, or it begins one *)
(* free step, which it claims; it calls nothing done.                       *)
LeavesLoop(w, n, c) ==
  /\ n.pc = "closing"
  /\ claims' = c \/ \E s \in Steps : c[s] = NoWorker /\ claims' = [c EXCEPT ![s] = w]
  /\ runs' = runs

Asks(w, n, c) ==
  /\ n.pc = "waiting" /\ n.at \in Steps /\ n.answer = "none"
  /\ c[n.at] = NoWorker /\ claims' = [c EXCEPT ![n.at] = w]
  /\ runs' = runs

Executes(w, n, c) ==
  /\ n.pc = "running" /\ n.at \in Steps \ Sensitive
  /\ c[n.at] = NoWorker /\ claims' = [c EXCEPT ![n.at] = w]
  /\ runs' = [runs EXCEPT ![n.at] = @ + 1]

CallsNothingDone(n, m) ==
  \A t \in Steps : (n.steps[t] = "done" => m.steps[t] = "done")
                /\ (disk'.steps[t] = "done" => m.steps[t] = "done" \/ disk.steps[t] = "done")

LoopTypes ==
  /\ disk' \in [status: ProjectStatuses \cup {"absent", "deleted"},
                steps: [Steps -> StepStatuses]]
  /\ claims' \in [Steps -> Workers \cup {NoWorker}]
  /\ pending' \in [Steps -> Workers \cup {NoWorker}]
  /\ runs' \in [Steps -> Nat]

LEMMA BeginFact ==
  ASSUME TypeOK, NEW w \in Workers, NEW m \in Worker,
         NEW c \in [Steps -> Workers \cup {NoWorker}],
         NEW p \in [Steps -> Workers \cup {NoWorker}],
         NEW s \in Steps, c[s] = NoWorker, Begin(w, m, c, p, s)
  PROVE  /\ LoopTypes
         /\ \E n \in Worker : /\ Become(w, n)
                              /\ CallsNothingDone(n, m)
                              /\ LeavesLoop(w, n, c) \/ Asks(w, n, c) \/ Executes(w, n, c)
  <1> USE MissionAssumption
  <1> DEFINE To(pc, st) == [m EXCEPT !.pc = pc, !.at = s, !.tries = 0, !.answer = "none",
                                     !.steps[s] = st]
  <1>1. \A pc \in Pcs, st \in StepStatuses : To(pc, st) \in Worker
    <2> SUFFICES ASSUME NEW pc \in Pcs, NEW st \in StepStatuses PROVE To(pc, st) \in Worker
      OBVIOUS
    <2>1. [m.steps EXCEPT ![s] = st] \in [Steps -> StepStatuses]
      BY DEF Worker
    <2>2. s \in 0..NSteps /\ 0 \in 0..MaxTries - 1 /\ "none" \in Answers
      BY DEF Steps, Answers
    <2>3. To(pc, st) = [m EXCEPT !.pc = pc, !.at = s, !.tries = 0, !.answer = "none",
                                 !.steps = [m.steps EXCEPT ![s] = st]]
      BY DEF Worker
    <2> HIDE DEF To
    <2> QED
      BY <2>1, <2>2, <2>3 DEF Worker
  <1>2. \A pc, st : /\ To(pc, st).pc = pc /\ To(pc, st).at = s /\ To(pc, st).answer = "none"
                    /\ To(pc, st).steps = [m.steps EXCEPT ![s] = st]
    BY DEF Worker
  <1>3. claims' = [c EXCEPT ![s] = w] /\ claims' \in [Steps -> Workers \cup {NoWorker}]
    BY DEF Begin
  <1>4. /\ "closing" \in Pcs /\ "waiting" \in Pcs /\ "running" \in Pcs
        /\ "failed" \in StepStatuses /\ "waiting_approval" \in StepStatuses
        /\ "running" \in StepStatuses /\ "failed" \in ProjectStatuses
    BY DEF Pcs, StepStatuses, ProjectStatuses
  <1>a. CASE /\ disk' = Saved(To("closing", "failed"))
             /\ Become(w, Leaves(To("closing", "failed"), "closing", "failed"))
             /\ pending' = p
             /\ UNCHANGED runs
    <2> DEFINE n == Leaves(To("closing", "failed"), "closing", "failed")
    <2>0. To("closing", "failed") \in Worker
      BY <1>1, <1>4
    <2>1. n \in Worker /\ n.pc = "closing" /\ n.steps = [m.steps EXCEPT ![s] = "failed"]
      <3>1. To("closing", "failed").steps = [m.steps EXCEPT ![s] = "failed"]
        BY <1>2
      <3> HIDE DEF To
      <3>2. n \in Worker
        BY <2>0, <1>4, RecordFacts
      <3>3. n.pc = "closing" /\ n.steps = To("closing", "failed").steps
        BY <2>0 DEF Leaves, Worker
      <3> QED
        BY <3>1, <3>2, <3>3
    <2>2. disk'.steps = [m.steps EXCEPT ![s] = "failed"]
      BY <1>a, <1>2 DEF Saved
    <2>3. LoopTypes
      BY <1>a, <2>0, <1>3, RecordFacts DEF LoopTypes, TypeOK
    <2>4. CallsNothingDone(n, m)
      BY <2>1, <2>2 DEF CallsNothingDone, Worker
    <2>5. LeavesLoop(w, n, c)
      BY <1>a, <1>3, <2>1 DEF LeavesLoop
    <2> QED
      BY <1>a, <2>1, <2>3, <2>4, <2>5
  <1>b. CASE /\ disk' = Saved(To("waiting", "waiting_approval"))
             /\ Become(w, To("waiting", "waiting_approval"))
             /\ pending' = [p EXCEPT ![s] = w]
             /\ UNCHANGED runs
    <2> DEFINE n == To("waiting", "waiting_approval")
    <2>1. n \in Worker
      BY <1>1, <1>4
    <2>2. disk'.steps = [m.steps EXCEPT ![s] = "waiting_approval"]
      BY <1>b, <1>2 DEF Saved
    <2>3. LoopTypes
      BY <1>b, <2>1, <1>3, RecordFacts DEF LoopTypes, TypeOK
    <2>4. CallsNothingDone(n, m)
      BY <2>2, <1>2 DEF CallsNothingDone, Worker
    <2>5. Asks(w, n, c)
      BY <1>b, <1>2, <1>3 DEF Asks
    <2> QED
      BY <1>b, <2>1, <2>3, <2>4, <2>5
  <1>c. CASE /\ s \notin Sensitive
             /\ disk' = Saved(To("running", "running"))
             /\ Become(w, To("running", "running"))
             /\ pending' = p
             /\ runs' = [runs EXCEPT ![s] = @ + 1]
    <2> DEFINE n == To("running", "running")
    <2>1. n \in Worker
      BY <1>1, <1>4
    <2>2. disk'.steps = [m.steps EXCEPT ![s] = "running"]
      BY <1>c, <1>2 DEF Saved
    <2>3. LoopTypes
      BY <1>c, <2>1, <1>3, RecordFacts DEF LoopTypes, TypeOK
    <2>4. CallsNothingDone(n, m)
      BY <2>2, <1>2 DEF CallsNothingDone, Worker
    <2>5. Executes(w, n, c)
      BY <1>c, <1>2, <1>3 DEF Executes
    <2> QED
      BY <1>c, <2>1, <2>3, <2>4, <2>5
  <1>d. \A gate \in Gates(s) : gate = "auto" /\ s \notin NeedsApproval => s \notin Sensitive
    BY GateFact
  <1> QED
    BY <1>a, <1>b, <1>c, <1>d DEF Begin

LEMMA ProceedFact ==
  ASSUME TypeOK, NEW w \in Workers, NEW m \in Worker,
         NEW c \in [Steps -> Workers \cup {NoWorker}],
         NEW p \in [Steps -> Workers \cup {NoWorker}],
         Proceed(w, m, c, p)
  PROVE  /\ LoopTypes
         /\ \E n \in Worker : /\ Become(w, n)
                              /\ CallsNothingDone(n, m)
                              /\ LeavesLoop(w, n, c) \/ Asks(w, n, c) \/ Executes(w, n, c)
  <1> USE MissionAssumption
  <1>1. PICK s \in (m.at + 1)..(NSteps + 1) :
          \/ s <= NSteps /\ Free(c, s) /\ Begin(w, m, c, p, s)
          \/ /\ \E st \in {"done", "killed", "failed"} : Become(w, Leaves(m, "closing", st))
             /\ disk' = IF m.at > 0 THEN Saved(m) ELSE disk
             /\ claims' = c /\ pending' = p
             /\ UNCHANGED runs
    BY DEF Proceed
  <1>2. m.at \in Nat
    BY DEF Worker
  <1>a. CASE s <= NSteps /\ Free(c, s) /\ Begin(w, m, c, p, s)
    <2>1. s \in Steps /\ c[s] = NoWorker
      BY <1>a, <1>2 DEF Steps, Free
    <2> QED
      BY <2>1, <1>a, BeginFact
  <1>b. CASE /\ \E st \in {"done", "killed", "failed"} : Become(w, Leaves(m, "closing", st))
             /\ disk' = IF m.at > 0 THEN Saved(m) ELSE disk
             /\ claims' = c /\ pending' = p
             /\ UNCHANGED runs
    <2>1. PICK st \in {"done", "killed", "failed"} : Become(w, Leaves(m, "closing", st))
      BY <1>b
    <2> DEFINE n == Leaves(m, "closing", st)
    <2>2. n \in Worker /\ n.pc = "closing" /\ n.steps = m.steps
      <3>1. n \in Worker
        BY <2>1, RecordFacts DEF Pcs, ProjectStatuses
      <3>2. n.pc = "closing" /\ n.steps = m.steps
        BY DEF Leaves, Worker
      <3> QED
        BY <3>1, <3>2
    <2>3. LoopTypes
      BY <1>b, RecordFacts DEF LoopTypes, TypeOK
    <2>4. CallsNothingDone(n, m)
      BY <1>b, <2>2 DEF CallsNothingDone, Saved
    <2>5. LeavesLoop(w, n, c)
      BY <1>b, <2>2 DEF LeavesLoop
    <2> QED
      BY <2>1, <2>2, <2>3, <2>4, <2>5
  <1> QED
    BY <1>1, <1>a, <1>b

-----------------------------------------------------------------------------
(* A step of the loop keeps the invariant, whatever the worker brings to it: *)
(* the claims c may have lost its own, the pauses may have grown.            *)
LEMMA ProceedInv ==
  ASSUME Inv, NEW w \in Workers, NEW m \in Worker,
         NEW c \in [Steps -> Workers \cup {NoWorker}],
         NEW p \in [Steps -> Workers \cup {NoWorker}],
         Proceed(w, m, c, p),
         \A v \in Workers : v # w /\ Busy(v) => c[worker[v].at] = v,
         \A s \in Steps : c[s] = NoWorker => runs[s] <= pauses'[s],
         \A s \in Steps : pauses[s] <= pauses'[s],
         pauses' \in [Steps -> 0..MaxPauses],
         verified' \subseteq Steps, verified \subseteq verified',
         \A s \in Steps : m.steps[s] = "done" => s \in verified',
         UNCHANGED <<valid, entry, restarts, consents>>
  PROVE  Inv'
  <1> USE MissionAssumption
  <1> TypeOK
    BY DEF Inv
  <1>1. LoopTypes
    BY ProceedFact
  <1>2. PICK n \in Worker : /\ Become(w, n)
                            /\ CallsNothingDone(n, m)
                            /\ LeavesLoop(w, n, c) \/ Asks(w, n, c) \/ Executes(w, n, c)
    BY ProceedFact
  <1>3. /\ worker' \in [Workers -> Worker]
        /\ worker'[w] = n
        /\ \A v \in Workers : v # w => worker'[v] = worker[v]
    BY <1>2 DEF Become, TypeOK
  <1>4. TypeOK'
    BY <1>1, <1>3 DEF TypeOK, LoopTypes
  <1>5. DoneWasVerified'
    BY <1>2, <1>3 DEF DoneWasVerified, CallsNothingDone, Inv, Core
  <1>6. /\ \A s \in Steps : runs[s] \in Nat /\ pauses[s] \in Nat /\ pauses'[s] \in Nat
        /\ \A s \in Steps : consents[s] \in Nat
    BY DEF TypeOK
  <1>7. /\ \A v \in Workers : v # w /\ Busy(v) => worker[v].at \in Steps
        /\ \A s \in Steps : runs[s] <= pauses'[s] + 1
        /\ \A v \in Workers : v # w /\ worker[v].pc = "waiting" =>
             runs[worker[v].at] <= pauses'[worker[v].at]
    BY <1>6 DEF Inv, Core, Holds, Counts, Owes, Busy
  <1>8. EveryRunHasConsent /\ Sensitive \subseteq Steps
    BY GateFact DEF Inv, Core, Consented
  <1>a. CASE LeavesLoop(w, n, c)
    <2>1. runs' = runs /\ n.pc = "closing"
      BY <1>a DEF LeavesLoop
    <2>2. \A s \in Steps : c[s] # NoWorker => claims'[s] = c[s]
      BY <1>a DEF LeavesLoop
    <2>3. \A s \in Steps : claims'[s] = NoWorker => c[s] = NoWorker
      BY <2>2
    <2>4. Holds'
      BY <2>1, <2>2, <1>3, <1>7 DEF Holds, Busy
    <2>5. Counts' /\ Owes'
      BY <2>1, <2>3, <1>3, <1>7 DEF Counts, Owes
    <2>6. Consented'
      BY <2>1, <1>3, <1>8 DEF Inv, Core, Consented, EveryRunHasConsent
    <2> QED
      BY <2>4, <2>5, <2>6, <1>4, <1>5 DEF Inv, Core
  <1>b. CASE Asks(w, n, c)
    <2>1. /\ runs' = runs /\ n.pc = "waiting" /\ n.at \in Steps /\ n.answer = "none"
          /\ c[n.at] = NoWorker /\ claims' = [c EXCEPT ![n.at] = w]
      BY <1>b DEF Asks
    <2>2. Holds'
      BY <2>1, <1>3, <1>7 DEF Holds, Busy
    <2>3. Counts' /\ Owes'
      BY <2>1, <1>3, <1>7 DEF Counts, Owes
    <2>4. Consented'
      BY <2>1, <1>3, <1>8 DEF Inv, Core, Consented, EveryRunHasConsent
    <2> QED
      BY <2>2, <2>3, <2>4, <1>4, <1>5 DEF Inv, Core
  <1>c. CASE Executes(w, n, c)
    <2>1. /\ n.pc = "running" /\ n.at \in Steps /\ n.at \notin Sensitive
          /\ c[n.at] = NoWorker /\ claims' = [c EXCEPT ![n.at] = w]
          /\ runs' = [runs EXCEPT ![n.at] = @ + 1]
      BY <1>c DEF Executes
    <2>2. \A s \in Steps : runs'[s] = IF s = n.at THEN runs[s] + 1 ELSE runs[s]
      BY <2>1 DEF TypeOK
    <2>3. \A v \in Workers : v # w /\ Busy(v) => worker[v].at # n.at
      BY <2>1
    <2>4. Holds'
      BY <2>1, <1>3, <1>7 DEF Holds, Busy
    <2>5. Counts'
      BY <2>1, <2>2, <1>6, <1>7 DEF Counts
    <2>6. Owes'
      BY <2>1, <2>2, <2>3, <1>3, <1>7 DEF Owes, Busy
    <2>7. Consented'
      BY <2>1, <2>2, <2>3, <1>3, <1>8 DEF Inv, Core, Consented, EveryRunHasConsent
    <2> QED
      BY <2>4, <2>5, <2>6, <2>7, <1>4, <1>5 DEF Inv, Core
  <1> QED
    BY <1>2, <1>a, <1>b, <1>c

(* A step that claims and executes nothing keeps it: whoever is in a step   *)
(* after it was there before it.                                            *)
LEMMA CalmInv ==
  ASSUME Inv, TypeOK',
         \A v \in Workers : worker'[v].pc \in {"waiting", "running"} =>
           /\ worker'[v].pc = worker[v].pc /\ worker'[v].at = worker[v].at
           /\ worker'[v].answer = worker[v].answer,
         \A s \in Steps : disk'.steps[s] = "done" => s \in verified,
         \A v \in Workers : \A s \in Steps : worker'[v].steps[s] = "done" => s \in verified,
         UNCHANGED <<claims, history>>
  PROVE  Inv'
  <1> USE DEF history
  <1>1. Holds' /\ Counts' /\ Owes'
    BY DEF Inv, Core, Holds, Counts, Owes, Busy
  <1>2. Consented'
    BY DEF Inv, Core, Consented, EveryRunHasConsent
  <1>3. DoneWasVerified'
    BY DEF DoneWasVerified
  <1> QED
    BY <1>1, <1>2, <1>3 DEF Inv, Core

-----------------------------------------------------------------------------
(* What the actions of a worker and of the orchestrator owe to the two      *)
(* lemmas above.                                                            *)
LEMMA CopyFact ==
  ASSUME Inv
  PROVE  /\ \A v \in Workers : worker[v] \in Worker
         /\ \A v \in Workers : \A s \in Steps : worker[v].steps[s] = "done" => s \in verified
         /\ \A s \in Steps : disk.steps[s] = "done" => s \in verified
         /\ \A s \in Steps : pauses[s] \in Nat /\ runs[s] \in Nat
         /\ \A v, w \in Workers : v # w /\ Busy(v) /\ Busy(w) => worker[v].at # worker[w].at
  <1> USE DEF Inv, Core
  <1>1. \A v, w \in Workers : v # w /\ Busy(v) /\ Busy(w) => worker[v].at # worker[w].at
    BY MissionAssumption DEF Holds
  <1> QED
    BY <1>1, MissionAssumption DEF TypeOK, DoneWasVerified

(* A worker that changes only its own copy, and calls no step done. *)
LEMMA OwnStep ==
  ASSUME Inv, NEW w \in Workers, NEW m \in Worker, Become(w, m),
         m.pc \in {"waiting", "running"} =>
           m.pc = worker[w].pc /\ m.at = worker[w].at /\ m.answer = worker[w].answer,
         \A s \in Steps : m.steps[s] = "done" => s \in verified,
         disk' = disk \/ disk' = Saved(m) \/ disk' = Saved(worker[w]),
         pending' \in [Steps -> Workers \cup {NoWorker}],
         entry' \in Workers \cup {NoWorker}, valid' \in BOOLEAN,
         UNCHANGED <<claims, restarts, history>>
  PROVE  Inv'
  <1> TypeOK
    BY DEF Inv
  <1>1. /\ worker' \in [Workers -> Worker] /\ worker'[w] = m
        /\ \A v \in Workers : v # w => worker'[v] = worker[v]
    BY DEF Become, TypeOK
  <1>2. disk' \in [status: ProjectStatuses \cup {"absent", "deleted"},
                   steps: [Steps -> StepStatuses]]
    BY RecordFacts, CopyFact DEF TypeOK
  <1>3. TypeOK'
    BY <1>1, <1>2 DEF TypeOK, history
  <1>4. \A s \in Steps : disk'.steps[s] = "done" => s \in verified
    BY CopyFact DEF Saved
  <1>5. \A v \in Workers : \A s \in Steps : worker'[v].steps[s] = "done" => s \in verified
    BY <1>1, CopyFact
  <1>6. \A v \in Workers : worker'[v].pc \in {"waiting", "running"} =>
          /\ worker'[v].pc = worker[v].pc /\ worker'[v].at = worker[v].at
          /\ worker'[v].answer = worker[v].answer
    BY <1>1
  <1> QED
    BY <1>3, <1>4, <1>5, <1>6, CalmInv

LEMMA GoneFact ==
  /\ Gone \in Worker /\ Gone.pc = "ended"
  /\ \A s \in Steps : Gone.steps[s] # "done"
  BY RecordFacts DEF Gone, Launched

LEMMA LeavesFact ==
  ASSUME NEW m \in Worker, NEW pc \in Pcs, NEW st \in ProjectStatuses
  PROVE  /\ Leaves(m, pc, st) \in Worker
         /\ Leaves(m, pc, st).pc = pc /\ Leaves(m, pc, st).steps = m.steps
  <1>1. Leaves(m, pc, st) \in Worker
    BY RecordFacts
  <1>2. Leaves(m, pc, st).pc = pc /\ Leaves(m, pc, st).steps = m.steps
    BY DEF Leaves, Worker
  <1> QED
    BY <1>1, <1>2

LEMMA StartInv == \A w \in Workers : Inv /\ Start(w) => Inv'
  <1> SUFFICES ASSUME NEW w \in Workers, Inv, Start(w) PROVE Inv'
    OBVIOUS
  <1> DEFINE m == [worker[w] EXCEPT !.pc = "setup", !.status = "running"]
  <1>1. m \in Worker /\ m.pc = "setup" /\ m.steps = worker[w].steps
    BY CopyFact DEF Worker, Pcs, ProjectStatuses
  <1>2. \A s \in Steps : m.steps[s] = "done" => s \in verified
    BY <1>1, CopyFact
  <1>3. Become(w, m) /\ disk' = Saved(m) /\ UNCHANGED <<valid, claims, entry, pending, restarts, history>>
    BY DEF Start
  <1> HIDE DEF m
  <1> QED
    BY <1>1, <1>2, <1>3, OwnStep DEF Inv, TypeOK

LEMMA EndsInv ==
  \A w \in Workers : Inv /\ (SetupFails(w) \/ Close(w)) => Inv'
  <1> SUFFICES ASSUME NEW w \in Workers, Inv, SetupFails(w) \/ Close(w) PROVE Inv'
    OBVIOUS
  <1>1. /\ Become(w, Gone)
        /\ disk' = disk \/ disk' = Saved(worker[w])
        /\ UNCHANGED <<valid, claims, entry, pending, restarts, history>>
    BY DEF SetupFails, Close, files
  <1> QED
    BY <1>1, GoneFact, OwnStep DEF Inv, TypeOK

LEMMA TimeOutInv == \A w \in Workers : Inv /\ MissionTimesOut(w) => Inv'
  <1> SUFFICES ASSUME NEW w \in Workers, Inv, MissionTimesOut(w) PROVE Inv'
    OBVIOUS
  <1>0. /\ disk' = disk
        /\ UNCHANGED <<valid, claims, entry, pending, restarts, history>>
    BY DEF MissionTimesOut, files
  <1>1. CASE Become(w, Gone)
    BY <1>0, <1>1, GoneFact, OwnStep DEF Inv, TypeOK
  <1>2. CASE Become(w, Leaves(worker[w], "stopping", worker[w].status))
    <2> DEFINE m == Leaves(worker[w], "stopping", worker[w].status)
    <2>1. worker[w] \in Worker /\ worker[w].status \in ProjectStatuses /\ "stopping" \in Pcs
      BY CopyFact DEF Worker, Pcs
    <2>2. m \in Worker /\ m.pc = "stopping" /\ m.steps = worker[w].steps
      BY <2>1, LeavesFact
    <2>3. \A s \in Steps : m.steps[s] = "done" => s \in verified
      BY <2>2, CopyFact
    <2> HIDE DEF m
    <2> QED
      BY <1>0, <1>2, <2>2, <2>3, OwnStep DEF Inv, TypeOK, m
  <1> QED
    BY <1>1, <1>2 DEF MissionTimesOut

(* The directory is gone, or the step fails: the worker leaves. *)
LEMMA FailsInv ==
  \A w \in Workers : Inv /\ (RunFails(w) \/ VerifierRaises(w) \/ Vanishes(w)) => Inv'
  <1> SUFFICES ASSUME NEW w \in Workers, Inv, RunFails(w) \/ VerifierRaises(w) \/ Vanishes(w)
               PROVE Inv'
    OBVIOUS
  <1>0. worker[w] \in Worker /\ "closing" \in Pcs /\ "failed" \in ProjectStatuses
    BY CopyFact DEF Pcs, ProjectStatuses
  <1>t. pending \in [Steps -> Workers \cup {NoWorker}] /\ valid \in BOOLEAN
        /\ entry \in Workers \cup {NoWorker}
    BY DEF Inv, TypeOK
  <1>a. ASSUME NEW m \in Worker, m.steps = worker[w].steps \/ \E s \in Steps :
                 m.steps = [worker[w].steps EXCEPT ![s] = "failed"],
               Become(w, Leaves(m, "closing", "failed")),
               disk' = disk \/ disk' = Saved(m),
               pending' \in [Steps -> Workers \cup {NoWorker}],
               UNCHANGED <<valid, claims, entry, restarts, history>>
        PROVE  Inv'
    <2> DEFINE n == Leaves(m, "closing", "failed")
    <2>1. n \in Worker /\ n.pc = "closing" /\ n.steps = m.steps
      BY <1>0, LeavesFact
    <2>2. \A s \in Steps : n.steps[s] = "done" => s \in verified
      BY <1>a, <1>0, <2>1, CopyFact DEF Worker
    <2>3. TypeOK' /\ \A s \in Steps : disk'.steps[s] = "done" => s \in verified
      <3>1. disk' \in [status: ProjectStatuses \cup {"absent", "deleted"},
                       steps: [Steps -> StepStatuses]]
        BY <1>a, RecordFacts DEF Inv, TypeOK
      <3>2. worker' \in [Workers -> Worker]
        BY <1>a, <2>1 DEF Become, Inv, TypeOK
      <3>3. TypeOK'
        BY <3>1, <3>2, <1>a DEF Inv, TypeOK, history
      <3>4. \A s \in Steps : disk'.steps[s] = "done" => s \in verified
        BY <1>a, <2>1, <2>2, CopyFact DEF Saved
      <3> QED
        BY <3>3, <3>4
    <2>4. worker'[w] = n /\ \A v \in Workers : v # w => worker'[v] = worker[v]
      BY <1>a DEF Become, Inv, TypeOK
    <2>5. \A v \in Workers : worker'[v].pc \in {"waiting", "running"} =>
            worker'[v].pc = worker[v].pc /\ worker'[v].at = worker[v].at
            /\ worker'[v].answer = worker[v].answer
      BY <2>1, <2>4
    <2>6. \A v \in Workers : \A s \in Steps : worker'[v].steps[s] = "done" => s \in verified
      BY <2>2, <2>4, CopyFact
    <2> QED
      BY <2>3, <2>5, <2>6, <1>a, CalmInv
  <1>b. CASE RunFails(w)
    <2> DEFINE m == [worker[w] EXCEPT !.steps[worker[w].at] = "failed"]
    <2>1. worker[w].pc = "running" /\ worker[w].at \in Steps
      BY <1>b DEF RunFails, Inv, Core, Holds, Busy
    <2>2. m.steps = [worker[w].steps EXCEPT ![worker[w].at] = "failed"]
      BY <1>0 DEF Worker
    <2>3. m \in Worker
      <3>1. [worker[w].steps EXCEPT ![worker[w].at] = "failed"] \in [Steps -> StepStatuses]
        BY <1>0 DEF Worker, StepStatuses
      <3>2. m = [worker[w] EXCEPT !.steps = [worker[w].steps EXCEPT ![worker[w].at] = "failed"]]
        BY <1>0 DEF Worker
      <3> HIDE DEF m
      <3> QED
        BY <3>1, <3>2, <1>0 DEF Worker
    <2>4. /\ Become(w, Leaves(m, "closing", "failed")) /\ disk' = Saved(m)
          /\ UNCHANGED <<valid, claims, entry, pending, restarts, history>>
      BY <1>b DEF RunFails
    <2> HIDE DEF m
    <2> QED
      BY <2>1, <2>2, <2>3, <2>4, <1>t, <1>a
  <1>c. CASE VerifierRaises(w)
    <2>1. /\ Become(w, Leaves(worker[w], "closing", "failed")) /\ disk' = disk
          /\ UNCHANGED <<valid, claims, entry, pending, restarts, history>>
      BY <1>c DEF VerifierRaises, files
    <2> QED
      BY <2>1, <1>0, <1>t, <1>a
  <1>d. CASE Vanishes(w)
    <2>1. /\ disk' = disk /\ UNCHANGED <<valid, claims, entry, restarts, history>>
          /\ pending' \in [Steps -> Workers \cup {NoWorker}]
      BY <1>d, <1>t DEF Vanishes, files
    <2>2. CASE Become(w, Gone)
      BY <2>1, <2>2, <1>t, GoneFact, OwnStep
    <2>3. CASE Become(w, Leaves(worker[w], "closing", "failed"))
      BY <2>1, <2>3, <1>0, <1>a
    <2> QED
      BY <2>2, <2>3, <1>d DEF Vanishes
  <1> QED
    BY <1>b, <1>c, <1>d

LEMMA TriesAgainInv == \A w \in Workers : Inv /\ RunTriesAgain(w) => Inv'
  <1> SUFFICES ASSUME NEW w \in Workers, Inv, RunTriesAgain(w) PROVE Inv'
    OBVIOUS
  <1> DEFINE m == [worker[w] EXCEPT !.tries = @ + 1]
  <1>1. worker[w] \in Worker
    BY CopyFact
  <1>2. worker[w].tries + 1 \in 0..MaxTries - 1
    BY <1>1, MissionAssumption DEF RunTriesAgain, Worker
  <1>3. m \in Worker /\ m.pc = worker[w].pc /\ m.at = worker[w].at
        /\ m.answer = worker[w].answer /\ m.steps = worker[w].steps
    BY <1>1, <1>2 DEF Worker
  <1>4. Become(w, m) /\ disk' = disk
        /\ UNCHANGED <<valid, claims, entry, pending, restarts, history>>
    BY DEF RunTriesAgain, Become, files, Inv, TypeOK
  <1>5. \A s \in Steps : m.steps[s] = "done" => s \in verified
    BY <1>3, CopyFact
  <1> HIDE DEF m
  <1> QED
    BY <1>3, <1>4, <1>5, OwnStep DEF Inv, TypeOK

-----------------------------------------------------------------------------
(* The actions that go on with the loop. *)
LEMMA HolderFact ==
  ASSUME Inv, NEW w \in Workers
  PROVE  /\ \A v \in Workers : v # w /\ Busy(v) => claims[worker[v].at] = v
         /\ \A s \in Steps : claims[s] = NoWorker => runs[s] <= pauses[s]
         /\ pauses \in [Steps -> 0..MaxPauses] /\ verified \subseteq Steps
         /\ claims \in [Steps -> Workers \cup {NoWorker}]
         /\ pending \in [Steps -> Workers \cup {NoWorker}]
         /\ Busy(w) => worker[w].at \in Steps /\ claims[worker[w].at] = w
  BY DEF Inv, Core, Holds, Counts, TypeOK

LEMMA SetupReturnsInv == \A w \in Workers : Inv /\ SetupReturns(w) => Inv'
  <1> SUFFICES ASSUME NEW w \in Workers, Inv, SetupReturns(w) PROVE Inv'
    OBVIOUS
  <1>1. /\ Proceed(w, worker[w], claims, pending)
        /\ UNCHANGED <<valid, entry, restarts, consents, pauses, verified>>
    BY DEF SetupReturns
  <1> QED
    BY <1>1, CopyFact, HolderFact, ProceedInv

(* The worker writes a verdict on its step in its copy. *)
LEMMA MarkFact ==
  ASSUME Inv, NEW w \in Workers, Busy(w), NEW st \in StepStatuses
  PROVE  LET m == [worker[w] EXCEPT !.steps[worker[w].at] = st] IN
         /\ m \in Worker
         /\ \A s \in Steps : m.steps[s] = "done" =>
              s \in verified \/ (st = "done" /\ s = worker[w].at)
  <1> DEFINE steps == [worker[w].steps EXCEPT ![worker[w].at] = st]
             m == [worker[w] EXCEPT !.steps[worker[w].at] = st]
  <1>1. worker[w] \in Worker /\ worker[w].at \in Steps
    BY CopyFact, HolderFact
  <1>2. steps \in [Steps -> StepStatuses] /\ m = [worker[w] EXCEPT !.steps = steps]
    BY <1>1 DEF Worker
  <1>3. m.steps = steps
    BY <1>1 DEF Worker
  <1>4. \A s \in Steps : steps[s] = "done" => s \in verified \/ (st = "done" /\ s = worker[w].at)
    BY <1>1, CopyFact DEF Worker
  <1>5. m \in Worker
    <2> HIDE DEF steps, m
    <2> QED
      BY <1>1, <1>2 DEF Worker
  <1> HIDE DEF steps
  <1> QED
    BY <1>3, <1>4, <1>5

LEMMA SkipsInv == \A w \in Workers : Inv /\ (Refused(w) \/ ApprovalTimesOut(w)) => Inv'
  <1> SUFFICES ASSUME NEW w \in Workers, Inv, Refused(w) \/ ApprovalTimesOut(w) PROVE Inv'
    OBVIOUS
  <1> DEFINE m == [worker[w] EXCEPT !.steps[worker[w].at] = "skipped"]
  <1>1. Busy(w)
    BY DEF Refused, ApprovalTimesOut, Busy
  <1>2. m \in Worker /\ \A s \in Steps : m.steps[s] = "done" => s \in verified
    BY <1>1, MarkFact DEF StepStatuses
  <1>3. /\ \E p \in [Steps -> Workers \cup {NoWorker}] : Proceed(w, m, claims, p)
        /\ UNCHANGED <<valid, entry, restarts, consents, pauses, verified>>
    <2>1. CASE Refused(w)
      BY <2>1, HolderFact DEF Refused, Skip
    <2>2. CASE ApprovalTimesOut(w)
      <3>1. [pending EXCEPT ![worker[w].at] = NoWorker] \in [Steps -> Workers \cup {NoWorker}]
        BY HolderFact
      <3> QED
        BY <2>2, <3>1 DEF ApprovalTimesOut, Skip
    <2> QED
      BY <2>1, <2>2
  <1> HIDE DEF m
  <1> QED
    BY <1>2, <1>3, HolderFact, ProceedInv, CopyFact

LEMMA SucceedsInv == \A w \in Workers : Inv /\ RunSucceeds(w) => Inv'
  <1> SUFFICES ASSUME NEW w \in Workers, Inv, RunSucceeds(w) PROVE Inv'
    OBVIOUS
  <1> DEFINE m == [worker[w] EXCEPT !.steps[worker[w].at] = "done"]
  <1>1. Busy(w)
    BY DEF RunSucceeds, Busy
  <1>2. /\ m \in Worker
        /\ \A s \in Steps : m.steps[s] = "done" => s \in verified \cup {worker[w].at}
    BY <1>1, MarkFact DEF StepStatuses
  <1>3. /\ verified' = verified \cup {worker[w].at}
        /\ Proceed(w, m, claims, pending)
        /\ UNCHANGED <<valid, entry, restarts, consents, pauses>>
    <2>1. m.at = worker[w].at
      BY CopyFact DEF Worker
    <2> QED
      BY <2>1 DEF RunSucceeds
  <1> HIDE DEF m
  <1> QED
    BY <1>1, <1>2, <1>3, HolderFact, ProceedInv, CopyFact

LEMMA BudgetInv == \A w \in Workers : Inv /\ BudgetPauses(w) => Inv'
  <1> SUFFICES ASSUME NEW w \in Workers, Inv, BudgetPauses(w) PROVE Inv'
    OBVIOUS
  <1> DEFINE s == worker[w].at
             n == [worker[w] EXCEPT !.steps[s] = "pending"]
             m == [worker[w] EXCEPT !.steps[s] = "pending", !.status = "paused"]
             c == [claims EXCEPT ![s] = NoWorker]
  <1>1. Busy(w)
    BY DEF BudgetPauses, Busy
  <1>2. s \in Steps /\ claims[s] = w
    BY <1>1, HolderFact
  <1>3. n \in Worker /\ \A t \in Steps : n.steps[t] = "done" => t \in verified
    BY <1>1, MarkFact DEF StepStatuses
  <1>4. m = [n EXCEPT !.status = "paused"]
    BY CopyFact DEF Worker
  <1>5. m \in Worker /\ m.steps = n.steps
    <2> HIDE DEF n, m
    <2> QED
      BY <1>3, <1>4 DEF Worker, ProjectStatuses
  <1>6. /\ pauses[s] < MaxPauses /\ pauses' = [pauses EXCEPT ![s] = @ + 1]
        /\ Proceed(w, m, c, pending)
        /\ UNCHANGED <<valid, entry, restarts, consents, verified>>
    BY DEF BudgetPauses
  <1>7. c \in [Steps -> Workers \cup {NoWorker}]
    BY HolderFact
  <1>8. \A v \in Workers : v # w /\ Busy(v) => c[worker[v].at] = v
    BY <1>1, <1>2, CopyFact, HolderFact
  <1>9. /\ pauses' \in [Steps -> 0..MaxPauses]
        /\ \A t \in Steps : pauses[t] <= pauses'[t]
        /\ \A t \in Steps : c[t] = NoWorker => runs[t] <= pauses'[t]
    <2>1. \A t \in Steps : pauses[t] \in 0..MaxPauses /\ runs[t] <= pauses[t] + 1 /\ runs[t] \in Nat
      BY DEF Inv, Core, Counts, TypeOK
    <2>2. \A t \in Steps : pauses'[t] = IF t = s THEN pauses[t] + 1 ELSE pauses[t]
      BY <1>6, HolderFact
    <2>3. \A t \in Steps \ {s} : c[t] = NoWorker => runs[t] <= pauses[t]
      BY HolderFact
    <2>4. pauses' \in [Steps -> 0..MaxPauses]
      BY <1>2, <1>6, <2>1, HolderFact, MissionAssumption
    <2> QED
      BY <2>1, <2>2, <2>3, <2>4
  <1> HIDE DEF m, n, c, s
  <1> QED
    BY <1>3, <1>5, <1>6, <1>7, <1>8, <1>9, HolderFact, ProceedInv

-----------------------------------------------------------------------------
(* The consent of the user, and the execution it allows. *)
LEMMA ResolveInv == \A s \in Steps, yes \in BOOLEAN : Inv /\ Resolve(s, yes) => Inv'
  <1> SUFFICES ASSUME NEW s \in Steps, NEW yes \in BOOLEAN, Inv, Resolve(s, yes) PROVE Inv'
    OBVIOUS
  <1> DEFINE w == pending[s]
             ans == IF yes THEN "yes" ELSE "no"
             m == [worker[w] EXCEPT !.answer = ans]
  <1>1. w \in Workers /\ worker[w] \in Worker
    BY DEF Resolve, Inv, TypeOK
  <1>2. m \in Worker /\ m.pc = worker[w].pc /\ m.at = worker[w].at /\ m.steps = worker[w].steps
        /\ m.answer = ans
    BY <1>1 DEF Worker, Answers
  <1>3. /\ UNCHANGED <<disk, claims, runs, pauses, verified>>
        /\ worker' = worker \/ (worker[w].at = s /\ worker' = [worker EXCEPT ![w] = m])
    BY <1>1 DEF Resolve, files, Inv, TypeOK
  <1>4. \A t \in Steps : /\ consents[t] \in Nat /\ consents'[t] \in Nat /\ runs[t] \in Nat
                         /\ consents'[t] >= consents[t]
                         /\ yes /\ t = s => consents'[t] = consents[t] + 1
    BY DEF Resolve, Inv, TypeOK
  <1>5. worker' \in [Workers -> Worker]
    BY <1>2, <1>3 DEF Inv, TypeOK
  <1>6. TypeOK'
    BY <1>3, <1>5 DEF Resolve, Inv, TypeOK, files
  <1>7. \A v \in Workers : /\ worker'[v].pc = worker[v].pc /\ worker'[v].at = worker[v].at
                           /\ worker'[v].steps = worker[v].steps
                           /\ worker'[v].answer # worker[v].answer =>
                                worker[v].at = s /\ worker'[v].answer = ans
    BY <1>1, <1>2, <1>3 DEF Inv, TypeOK
  <1> HIDE DEF w, m, ans
  <1>8. Holds' /\ Counts' /\ Owes' /\ DoneWasVerified'
    BY <1>3, <1>7 DEF Inv, Core, Holds, Counts, Owes, Busy, DoneWasVerified
  <1>9. EveryRunHasConsent'
    BY <1>3, <1>4, GateFact DEF Inv, Core, Consented, EveryRunHasConsent
  <1>10. ASSUME NEW v \in Workers, worker'[v].pc = "waiting", worker'[v].answer = "yes",
                worker'[v].at \in Sensitive
         PROVE  runs'[worker'[v].at] + 1 <= consents'[worker'[v].at]
    <2>1. worker[v].pc = "waiting" /\ worker[v].at = worker'[v].at /\ worker[v].at \in Steps
      BY <1>7, <1>10 DEF Inv, Core, Holds, Busy
    <2>2. runs[worker[v].at] <= consents[worker[v].at]
      BY <1>10, <2>1 DEF Inv, Core, Consented, EveryRunHasConsent
    <2>3. CASE worker[v].answer = "yes"
      BY <1>10, <2>1, <2>3, <1>3, <1>4 DEF Inv, Core, Consented
    <2>4. CASE worker[v].answer # "yes"
      <3>1. worker[v].at = s /\ yes
        BY <1>7, <1>10, <2>4 DEF ans
      <3> QED
        BY <3>1, <2>1, <2>2, <1>3, <1>4
    <2> QED
      BY <2>3, <2>4
  <1> QED
    BY <1>6, <1>8, <1>9, <1>10 DEF Inv, Core, Consented

LEMMA ApprovedInv == \A w \in Workers : Inv /\ Approved(w) => Inv'
  <1> SUFFICES ASSUME NEW w \in Workers, Inv, Approved(w) PROVE Inv'
    OBVIOUS
  <1> DEFINE s == worker[w].at
             n == [worker[w] EXCEPT !.steps[s] = "running"]
             m == [worker[w] EXCEPT !.pc = "running", !.steps[s] = "running", !.answer = "none"]
  <1>1. Busy(w) /\ worker[w].pc = "waiting" /\ worker[w].answer = "yes"
    BY DEF Approved, Busy
  <1>2. s \in Steps /\ claims[s] = w /\ worker[w] \in Worker
    BY <1>1, HolderFact, CopyFact
  <1>3. n \in Worker /\ \A t \in Steps : n.steps[t] = "done" => t \in verified
    BY <1>1, MarkFact DEF StepStatuses
  <1>4. m = [n EXCEPT !.pc = "running", !.answer = "none"] /\ n.at = s
    BY <1>2 DEF Worker
  <1>5. m \in Worker /\ m.steps = n.steps /\ m.pc = "running" /\ m.at = s
    <2> HIDE DEF n, m
    <2> QED
      BY <1>3, <1>4 DEF Worker, Pcs, Answers
  <1>6. /\ Become(w, m) /\ disk' = Saved(m)
        /\ runs' = [runs EXCEPT ![s] = @ + 1]
        /\ UNCHANGED <<valid, claims, entry, pending, restarts, consents, pauses, verified>>
    BY <1>5 DEF Approved
  <1> HIDE DEF m, n
  <1>7. /\ worker'[w] = m /\ \A v \in Workers : v # w => worker'[v] = worker[v]
        /\ worker' \in [Workers -> Worker]
    BY <1>5, <1>6 DEF Become, Inv, TypeOK
  <1>8. TypeOK'
    <2>1. disk' \in [status: ProjectStatuses \cup {"absent", "deleted"},
                     steps: [Steps -> StepStatuses]]
      BY <1>5, <1>6, RecordFacts
    <2>2. runs' \in [Steps -> Nat]
      BY <1>2, <1>6 DEF Inv, TypeOK
    <2> QED
      BY <1>6, <1>7, <2>1, <2>2 DEF Inv, TypeOK
  <1>9. DoneWasVerified'
    BY <1>3, <1>5, <1>6, <1>7, CopyFact DEF DoneWasVerified, Saved
  <1>10. \A v \in Workers : v # w /\ Busy(v) => worker[v].at # s
    BY <1>1, CopyFact
  <1>11. /\ \A t \in Steps : runs'[t] = IF t = s THEN runs[t] + 1 ELSE runs[t]
         /\ \A t \in Steps : runs[t] \in Nat /\ pauses[t] \in Nat /\ consents[t] \in Nat
    BY <1>6, MissionAssumption DEF Inv, TypeOK
  <1>12. runs[s] <= pauses[s] /\ (s \in Sensitive => runs[s] + 1 <= consents[s])
    BY <1>1 DEF Inv, Core, Owes, Consented
  <1>13. Holds'
    BY <1>2, <1>5, <1>6, <1>7 DEF Inv, Core, Holds, Busy
  <1>14. Counts'
    BY <1>2, <1>6, <1>11, <1>12, MissionAssumption DEF Inv, Core, Counts
  <1>15. Owes'
    <2>1. \A v \in Workers : worker'[v].pc = "waiting" =>
            v # w /\ worker'[v] = worker[v] /\ worker[v].at # s /\ worker[v].at \in Steps
      BY <1>5, <1>7, <1>10 DEF Inv, Core, Holds, Busy
    <2> QED
      BY <2>1, <1>6, <1>11 DEF Inv, Core, Owes
  <1>16. Consented'
    <2>1. \A v \in Workers : worker'[v].pc = "waiting" =>
            v # w /\ worker'[v] = worker[v] /\ worker[v].at # s /\ worker[v].at \in Steps
      BY <1>5, <1>7, <1>10 DEF Inv, Core, Holds, Busy
    <2>2. Sensitive \subseteq Steps
      BY GateFact
    <2>3. EveryRunHasConsent'
      BY <2>2, <1>6, <1>11, <1>12 DEF Inv, Core, Consented, EveryRunHasConsent
    <2> QED
      BY <2>1, <2>3, <1>6, <1>11 DEF Inv, Core, Consented
  <1> QED
    BY <1>8, <1>9, <1>13, <1>14, <1>15, <1>16 DEF Inv, Core

-----------------------------------------------------------------------------
(* The orchestrator and the API: they start nothing in a step. *)
LEMMA KillInv == Inv /\ Kill => Inv'
  <1> SUFFICES ASSUME Inv, Kill PROVE Inv'
    OBVIOUS
  <1> DEFINE m == [worker[entry] EXCEPT !.killed = TRUE]
  <1>1. entry \in Workers /\ worker[entry] \in Worker
    BY DEF Kill, Inv, TypeOK
  <1>2. m \in Worker /\ m.pc = worker[entry].pc /\ m.at = worker[entry].at
        /\ m.answer = worker[entry].answer /\ m.steps = worker[entry].steps
    BY <1>1 DEF Worker
  <1>3. Become(entry, m) /\ disk' = disk
        /\ UNCHANGED <<valid, claims, entry, pending, restarts, history>>
    BY <1>1 DEF Kill, Become, files, Inv, TypeOK
  <1>4. \A s \in Steps : m.steps[s] = "done" => s \in verified
    BY <1>1, <1>2, CopyFact
  <1> HIDE DEF m
  <1> QED
    BY <1>1, <1>2, <1>3, <1>4, OwnStep DEF Inv, TypeOK

LEMMA CreateInv == \A w \in Workers : Inv /\ Create(w) => Inv'
  <1> SUFFICES ASSUME NEW w \in Workers, Inv, Create(w) PROVE Inv'
    OBVIOUS
  <1>0. /\ disk'.steps = Fresh
        /\ disk' \in [status: ProjectStatuses \cup {"absent", "deleted"},
                      steps: [Steps -> StepStatuses]]
        /\ UNCHANGED <<claims, pending, restarts, history>>
    BY RecordFacts DEF Create, ProjectStatuses
  <1>1. \A s \in Steps : disk'.steps[s] = "done" => s \in verified
    BY <1>0, RecordFacts
  <1> DEFINE m == Launched("created", "planning", Fresh)
  <1>2. m \in Worker /\ m.pc = "created" /\ m.steps = Fresh
    BY RecordFacts DEF Launched, Pcs, ProjectStatuses
  <1>3. /\ worker' = worker \/ worker' = [worker EXCEPT ![w] = m]
        /\ valid' \in BOOLEAN /\ entry' \in Workers \cup {NoWorker}
    BY DEF Create, Become, Inv, TypeOK
  <1> HIDE DEF m
  <1>4. worker' \in [Workers -> Worker]
    BY <1>2, <1>3 DEF Inv, TypeOK
  <1>5. TypeOK'
    BY <1>0, <1>3, <1>4 DEF Inv, TypeOK, history
  <1>6. \A v \in Workers : worker'[v] = worker[v] \/ worker'[v] = m
    BY <1>3 DEF Inv, TypeOK
  <1>7. \A v \in Workers : \A s \in Steps : worker'[v].steps[s] = "done" => s \in verified
    BY <1>2, <1>6, CopyFact, RecordFacts
  <1>8. \A v \in Workers : worker'[v].pc \in {"waiting", "running"} => worker'[v] = worker[v]
    BY <1>2, <1>6
  <1> QED
    BY <1>0, <1>1, <1>5, <1>7, <1>8, CalmInv

LEMMA RelaunchInv ==
  ASSUME Inv, NEW w \in Workers, NEW steps \in [Steps -> StepStatuses],
         \A s \in Steps : steps[s] = "done" => s \in verified,
         Relaunch(w, steps)
  PROVE  Inv'
  <1> DEFINE m == Launched("created", "running", steps)
             k(v) == [worker[v] EXCEPT !.killed = TRUE]
  <1>1. m \in Worker /\ m.pc = "created" /\ m.steps = steps
    BY RecordFacts DEF Launched, Pcs, ProjectStatuses
  <1>2. \A v \in Workers : /\ k(v) \in Worker /\ k(v).pc = worker[v].pc /\ k(v).at = worker[v].at
                           /\ k(v).answer = worker[v].answer /\ k(v).steps = worker[v].steps
    BY CopyFact DEF Worker
  <1>3. /\ worker'[w] = m
        /\ \A v \in Workers : v # w => worker'[v] = worker[v] \/ worker'[v] = k(v)
        /\ DOMAIN worker' = Workers /\ worker' = [v \in Workers |-> worker'[v]]
    BY DEF Relaunch, Inv, TypeOK
  <1>4. /\ disk' = [status |-> "running", steps |-> steps] /\ entry' = w
        /\ UNCHANGED <<valid, claims, pending, restarts, history>>
    BY DEF Relaunch
  <1> HIDE DEF m, k
  <1>5. worker' \in [Workers -> Worker]
    BY <1>1, <1>2, <1>3, CopyFact
  <1>6. TypeOK'
    BY <1>4, <1>5 DEF Inv, TypeOK, history, ProjectStatuses
  <1>7. \A v \in Workers : \A s \in Steps : worker'[v].steps[s] = "done" => s \in verified
    BY <1>1, <1>2, <1>3, CopyFact
  <1>8. \A v \in Workers : worker'[v].pc \in {"waiting", "running"} =>
          worker'[v].pc = worker[v].pc /\ worker'[v].at = worker[v].at
          /\ worker'[v].answer = worker[v].answer
    BY <1>1, <1>2, <1>3
  <1> QED
    BY <1>4, <1>6, <1>7, <1>8, CalmInv

LEMMA RelaunchesInv == \A w \in Workers : Inv /\ (Retry(w) \/ Resume(w)) => Inv'
  <1> SUFFICES ASSUME NEW w \in Workers, Inv, Retry(w) \/ Resume(w) PROVE Inv'
    OBVIOUS
  <1>0. disk.steps \in [Steps -> StepStatuses]
    BY DEF Inv, TypeOK
  <1>1. CASE Retry(w)
    <2> DEFINE steps == [s \in Steps |-> IF disk.steps[s] \in {"running", "failed"}
                                         THEN "pending" ELSE disk.steps[s]]
    <2>1. steps \in [Steps -> StepStatuses] /\ \A s \in Steps : steps[s] = "done" => s \in verified
      BY <1>0, CopyFact DEF StepStatuses
    <2>2. Relaunch(w, steps)
      BY <1>1 DEF Retry
    <2> HIDE DEF steps
    <2> QED
      BY <2>1, <2>2, RelaunchInv
  <1>2. CASE Resume(w)
    BY <1>0, <1>2, CopyFact, RelaunchInv DEF Resume
  <1> QED
    BY <1>1, <1>2

LEMMA FilesInv == Inv /\ ((\E S \in SUBSET Steps : ResetSteps(S)) \/ Delete) => Inv'
  <1> SUFFICES ASSUME Inv, (\E S \in SUBSET Steps : ResetSteps(S)) \/ Delete PROVE Inv'
    OBVIOUS
  <1> DEFINE k == [worker[entry] EXCEPT !.killed = TRUE]
  <1>1. /\ disk' \in [status: ProjectStatuses \cup {"absent", "deleted"},
                      steps: [Steps -> StepStatuses]]
        /\ \A s \in Steps : disk'.steps[s] = "done" => s \in verified
    <2>1. ASSUME NEW S \in SUBSET Steps, ResetSteps(S)
          PROVE  /\ disk' \in [status: ProjectStatuses \cup {"absent", "deleted"},
                               steps: [Steps -> StepStatuses]]
                 /\ \A s \in Steps : disk'.steps[s] = "done" => s \in verified
      <3>1. disk' = [disk EXCEPT !.steps =
                       [s \in Steps |-> IF s \in S THEN "pending" ELSE disk.steps[s]]]
        BY <2>1 DEF ResetSteps
      <3> QED
        BY <3>1, CopyFact DEF Inv, TypeOK, StepStatuses
    <2>2. CASE Delete
      BY <2>2, RecordFacts DEF Delete
    <2> QED
      BY <2>1, <2>2
  <1>2. /\ UNCHANGED <<valid, claims, entry, pending, restarts, history>>
        /\ worker' = worker \/ (entry \in Workers /\ worker' = [worker EXCEPT ![entry] = k])
    BY DEF ResetSteps, Delete, Inv, TypeOK
  <1>3. entry \in Workers => /\ k \in Worker /\ k.pc = worker[entry].pc /\ k.at = worker[entry].at
                             /\ k.answer = worker[entry].answer /\ k.steps = worker[entry].steps
    BY CopyFact DEF Worker
  <1> HIDE DEF k
  <1>4. TypeOK'
    BY <1>1, <1>2, <1>3 DEF Inv, TypeOK, history
  <1>5. \A v \in Workers : /\ worker'[v].pc = worker[v].pc /\ worker'[v].at = worker[v].at
                           /\ worker'[v].answer = worker[v].answer
                           /\ worker'[v].steps = worker[v].steps
    BY <1>2, <1>3 DEF Inv, TypeOK
  <1> QED
    BY <1>1, <1>2, <1>4, <1>5, CopyFact, CalmInv

LEMMA RestartInv == Inv /\ Restart => Inv'
  <1> SUFFICES ASSUME Inv, Restart PROVE Inv'
    OBVIOUS
  <1>1. /\ \A v \in Workers : worker'[v] = Gone \/ (worker[v].pc = "unused" /\ worker'[v] = worker[v])
        /\ worker' \in [Workers -> Worker]
        /\ UNCHANGED <<disk, valid, claims, history>>
    BY GoneFact, CopyFact DEF Restart, files
  <1>2. TypeOK'
    <2>1. restarts' \in 0..MaxRestarts
      BY MissionAssumption DEF Restart, Inv, TypeOK
    <2> QED
      BY <1>1, <2>1 DEF Restart, Inv, TypeOK, history
  <1>3. \A v \in Workers : \A s \in Steps : worker'[v].steps[s] = "done" => s \in verified
    BY <1>1, GoneFact, CopyFact
  <1>4. \A v \in Workers : worker'[v].pc \notin {"waiting", "running"}
    BY <1>1, GoneFact
  <1> QED
    BY <1>1, <1>2, <1>3, <1>4, CopyFact, CalmInv

LEMMA StepInv == Inv /\ [Next]_vars => Inv'
  <1> SUFFICES ASSUME Inv, [Next]_vars PROVE Inv'
    OBVIOUS
  <1>1. CASE UNCHANGED vars
    <2>1. TypeOK'
      BY <1>1 DEF vars, files, history, Inv, TypeOK
    <2> QED
      BY <1>1, <2>1, CopyFact, CalmInv DEF vars, files
  <1>2. ASSUME NEW w \in Workers, Awakes(w) PROVE Inv'
    BY <1>2, StartInv, SetupReturnsInv, EndsInv, ApprovedInv, SkipsInv, SucceedsInv,
       TriesAgainInv, FailsInv, BudgetInv DEF Awakes
  <1>3. ASSUME NEW w \in Workers, MissionTimesOut(w) \/ Create(w) \/ Retry(w) \/ Resume(w)
        PROVE  Inv'
    BY <1>3, TimeOutInv, CreateInv, RelaunchesInv
  <1>4. ASSUME NEW s \in Steps, NEW yes \in BOOLEAN, Resolve(s, yes) PROVE Inv'
    BY <1>4, ResolveInv
  <1>5. CASE (\E S \in SUBSET Steps : ResetSteps(S)) \/ Kill \/ Delete \/ Restart
    BY <1>5, FilesInv, KillInv, RestartInv
  <1> QED
    BY <1>1, <1>2, <1>3, <1>4, <1>5 DEF Next

LEMMA InvAlways == Spec => []Inv
  BY InitInv, StepInv, PTL DEF Spec

(* The files, the orchestrator and every worker keep their types. *)
THEOREM TypeCorrect == Spec => []TypeOK
  <1>1. Inv => TypeOK
    BY DEF Inv
  <1> QED
    BY <1>1, InvAlways, PTL

(* project_store.py:107-131: whatever the number of launches, retries,       *)
(* resets and restarts, two workers are never in the same step.              *)
THEOREM WorkersExcludeEachOther == Spec => []OneWorkerPerStep
  <1>1. Inv => OneWorkerPerStep
    BY CopyFact DEF OneWorkerPerStep
  <1> QED
    BY <1>1, InvAlways, PTL

(* worker_agent.py:436-441: a step is executed once, and once more after     *)
(* each budget pause that put it back.                                       *)
THEOREM StepsRunOnce == Spec => []ExecutedOnce
  <1>1. Inv => ExecutedOnce
    BY DEF Inv, Core, Counts, ExecutedOnce, TypeOK
  <1> QED
    BY <1>1, InvAlways, PTL

(* worker_agent.py:462-486: no execution of a sensitive step without a       *)
(* consent of its own.                                                       *)
THEOREM ConsentPrecedesRun == Spec => []EveryRunHasConsent
  <1>1. Inv => EveryRunHasConsent
    BY DEF Inv, Core, Consented
  <1> QED
    BY <1>1, InvAlways, PTL

(* worker_agent.py:540-562: whatever copies of the project overwrite each    *)
(* other, a step that any of them shows as done passed the verifier.         *)
THEOREM DoneMeansVerified == Spec => []DoneWasVerified
  <1>1. Inv => DoneWasVerified
    BY DEF Inv, Core
  <1> QED
    BY <1>1, InvAlways, PTL
-----------------------------------------------------------------------------
(* What a worker leaves behind it.  NothingPassedSilently is not inductive  *)
(* either: a worker goes over a step somebody claimed, and it must be shown *)
(* that this somebody is not the worker itself, whose own claims are all at *)
(* or behind the step it is in, and which has none before it starts.        *)
ClaimsBehind ==
  \A w \in Workers, t \in Steps :
    claims[t] = w => /\ worker[w].pc \notin {"unused", "created", "setup"}
                     /\ Busy(w) => t <= worker[w].at

StartsAtZero ==
  \A w \in Workers : worker[w].pc \in {"created", "setup"} => worker[w].at = 0

Passed == NothingPassedSilently /\ ClaimsBehind /\ StartsAtZero

(* The two ways out of the loop: the worker takes one free step, or leaves. *)
Takes(w, m, n, c, s) ==
  /\ s \in Steps /\ ~m.killed /\ c[s] = NoWorker /\ claims' = [c EXCEPT ![s] = w]
  /\ \/ /\ n.pc \in {"waiting", "running"} /\ n.at = s
        /\ \A t \in Steps : t # s => n.steps[t] = m.steps[t]
     \/ n.pc = "closing" /\ n.status = "failed"

LeavesAt(m, n, c, s) ==
  /\ claims' = c
  /\ n.pc = "closing" /\ n.steps = m.steps
  /\ n.status = "done" => s = NSteps + 1

LEMMA WaysOut ==
  ASSUME NEW w \in Workers, NEW m \in Worker, NEW c, NEW p, Proceed(w, m, c, p)
  PROVE  \E s, n :
           /\ s \in (m.at + 1)..(NSteps + 1)
           /\ Become(w, n)
           /\ \A t \in (m.at + 1)..(s - 1) : PassesOver(m, c, t)
           /\ Takes(w, m, n, c, s) \/ LeavesAt(m, n, c, s)
  <1> USE MissionAssumption
  <1>1. PICK s \in (m.at + 1)..(NSteps + 1) :
          /\ \A t \in (m.at + 1)..(s - 1) : PassesOver(m, c, t)
          /\ \/ s <= NSteps /\ ~Stopped(m) /\ Free(c, s) /\ Begin(w, m, c, p, s)
             \/ /\ claims' = c
                /\ \/ s > NSteps /\ Become(w, Leaves(m, "closing", "done"))
                   \/ \E st \in {"killed", "failed"} : Become(w, Leaves(m, "closing", st))
    BY DEF Proceed
  <1>2. m.at \in Nat /\ s \in Nat
    BY DEF Worker
  <1>3. \A st : /\ Leaves(m, "closing", st).pc = "closing"
                /\ Leaves(m, "closing", st).status = st
                /\ Leaves(m, "closing", st).steps = m.steps
    BY DEF Leaves, Worker
  <1>a. CASE s <= NSteps /\ ~Stopped(m) /\ Free(c, s) /\ Begin(w, m, c, p, s)
    <2> DEFINE To(pc, st) == [m EXCEPT !.pc = pc, !.at = s, !.tries = 0, !.answer = "none",
                                       !.steps[s] = st]
    <2>1. s \in Steps /\ ~m.killed /\ c[s] = NoWorker /\ claims' = [c EXCEPT ![s] = w]
      BY <1>a, <1>2 DEF Steps, Free, Stopped, Begin
    <2>2. \A pc, st : /\ To(pc, st).pc = pc /\ To(pc, st).at = s
                      /\ \A t \in Steps : t # s => To(pc, st).steps[t] = m.steps[t]
      BY DEF Worker
    <2>3. /\ Leaves(To("closing", "failed"), "closing", "failed").pc = "closing"
          /\ Leaves(To("closing", "failed"), "closing", "failed").status = "failed"
      BY DEF Leaves, Worker
    <2>4. \/ Become(w, Leaves(To("closing", "failed"), "closing", "failed"))
          \/ Become(w, To("waiting", "waiting_approval"))
          \/ Become(w, To("running", "running"))
      BY <1>a DEF Begin
    <2> HIDE DEF To
    <2>5. \E n : Become(w, n) /\ Takes(w, m, n, c, s)
      BY <2>1, <2>2, <2>3, <2>4 DEF Takes
    <2> QED
      BY <1>1, <2>5
  <1>b. CASE /\ claims' = c
             /\ \/ s > NSteps /\ Become(w, Leaves(m, "closing", "done"))
                \/ \E st \in {"killed", "failed"} : Become(w, Leaves(m, "closing", st))
    <2>1. \E n : Become(w, n) /\ LeavesAt(m, n, c, s)
      <3>1. CASE s > NSteps /\ Become(w, Leaves(m, "closing", "done"))
        <4>1. s = NSteps + 1
          BY <3>1, <1>2
        <4> QED
          BY <3>1, <4>1, <1>b, <1>3 DEF LeavesAt
      <3>2. ASSUME NEW st \in {"killed", "failed"}, Become(w, Leaves(m, "closing", st))
            PROVE  \E n : Become(w, n) /\ LeavesAt(m, n, c, s)
        <4>1. st # "done"
          BY <3>2
        <4> QED
          BY <3>2, <4>1, <1>b, <1>3 DEF LeavesAt
      <3> QED
        BY <1>b, <3>1, <3>2
    <2> QED
      BY <1>1, <2>1
  <1> QED
    BY <1>1, <1>a, <1>b

(* Who goes on with the loop, and what it brings to it. *)
Brings(w, m, c) ==
  /\ m \in Worker /\ m.killed = worker[w].killed /\ m.at = worker[w].at
  /\ \A t \in Steps : c[t] = claims[t]
                      \/ (t = m.at /\ c[t] = NoWorker /\ claims[t] = w /\ pauses'[t] > 0)
  /\ c \in [Steps -> Workers \cup {NoWorker}]
  /\ \A t \in Steps : pauses[t] > 0 => pauses'[t] > 0
  /\ worker[w].pc = "setup"
     \/ /\ Busy(w)
        /\ \A t \in Steps : t # m.at => m.steps[t] = worker[w].steps[t]
        /\ m.steps[m.at] \in {"done", "skipped"} \/ pauses'[m.at] > 0

GoesOn(w) == SetupReturns(w) \/ Refused(w) \/ ApprovalTimesOut(w) \/ RunSucceeds(w) \/ BudgetPauses(w)

LEMMA BringsFact ==
  ASSUME Inv, NEW w \in Workers, GoesOn(w)
  PROVE  \E m, c, p : Brings(w, m, c) /\ Proceed(w, m, c, p)
  <1>0. /\ worker[w] \in Worker /\ claims \in [Steps -> Workers \cup {NoWorker}]
        /\ Busy(w) => worker[w].at \in Steps /\ claims[worker[w].at] = w
    BY CopyFact, HolderFact
  <1>1. CASE SetupReturns(w)
    BY <1>0, <1>1 DEF SetupReturns, Brings
  <1>2. ASSUME NEW st \in {"done", "skipped"}, NEW p, Busy(w), pauses' = pauses,
               Proceed(w, [worker[w] EXCEPT !.steps[worker[w].at] = st], claims, p)
        PROVE  \E m, c, q : Brings(w, m, c) /\ Proceed(w, m, c, q)
    <2> DEFINE m == [worker[w] EXCEPT !.steps[worker[w].at] = st]
    <2>1. m \in Worker
      BY <1>2, MarkFact DEF StepStatuses
    <2>2. /\ m.killed = worker[w].killed /\ m.at = worker[w].at
          /\ m.steps = [worker[w].steps EXCEPT ![worker[w].at] = st]
      BY <1>0 DEF Worker
    <2>3. /\ m.steps[m.at] = st
          /\ \A t \in Steps : t # m.at => m.steps[t] = worker[w].steps[t]
      BY <1>0, <1>2, <2>2 DEF Worker
    <2>4. Proceed(w, m, claims, p)
      BY <1>2
    <2> HIDE DEF m
    <2>5. Brings(w, m, claims)
      BY <1>0, <1>2, <2>1, <2>2, <2>3 DEF Brings
    <2> QED
      BY <2>4, <2>5
  <1>3. CASE Refused(w) \/ ApprovalTimesOut(w)
    BY <1>2, <1>3 DEF Refused, ApprovalTimesOut, Skip, Busy
  <1>4. CASE RunSucceeds(w)
    BY <1>2, <1>4 DEF RunSucceeds, Busy
  <1>5. CASE BudgetPauses(w)
    <2> DEFINE s == worker[w].at
               n == [worker[w] EXCEPT !.steps[s] = "pending"]
               m == [worker[w] EXCEPT !.steps[s] = "pending", !.status = "paused"]
               c == [claims EXCEPT ![s] = NoWorker]
    <2>1. Busy(w) /\ s \in Steps /\ claims[s] = w
      BY <1>0, <1>5 DEF BudgetPauses, Busy
    <2>2. n \in Worker
      BY <2>1, MarkFact DEF StepStatuses
    <2>3. m = [n EXCEPT !.status = "paused"]
      BY <1>0 DEF Worker
    <2>4. m \in Worker
      <3> HIDE DEF n, m
      <3> QED
        BY <2>2, <2>3 DEF Worker, ProjectStatuses
    <2>5. /\ m.killed = worker[w].killed /\ m.at = s
          /\ m.steps = [worker[w].steps EXCEPT ![s] = "pending"]
      BY <1>0 DEF Worker
    <2>6. Proceed(w, m, c, pending) /\ pauses' = [pauses EXCEPT ![s] = @ + 1]
      BY <1>5 DEF BudgetPauses
    <2>7. \A t \in Steps : /\ pauses[t] \in Nat
                           /\ pauses'[t] = IF t = s THEN pauses[t] + 1 ELSE pauses[t]
      BY <2>1, <2>6, HolderFact, MissionAssumption
    <2>8. c \in [Steps -> Workers \cup {NoWorker}]
          /\ \A t \in Steps : c[t] = IF t = s THEN NoWorker ELSE claims[t]
      BY <1>0, <2>1
    <2>9. \A t \in Steps : t # s => m.steps[t] = worker[w].steps[t]
      BY <2>5, <1>0 DEF Worker
    <2> HIDE DEF m, n, c, s
    <2>10. pauses'[s] > 0 /\ \A t \in Steps : pauses[t] > 0 => pauses'[t] > 0
      BY <2>1, <2>7
    <2>11. Brings(w, m, c)
      BY <2>1, <2>4, <2>5, <2>8, <2>9, <2>10 DEF Brings, s
    <2> QED
      BY <2>6, <2>11
  <1> QED
    BY <1>1, <1>3, <1>4, <1>5 DEF GoesOn

LEMMA GoesOnPassed ==
  ASSUME Inv, Passed, NEW w \in Workers, GoesOn(w)
  PROVE  Passed'
  <1> USE MissionAssumption
  <1>1. PICK m, c, p : Brings(w, m, c) /\ Proceed(w, m, c, p)
    BY BringsFact
  <1>2. m \in Worker /\ m.at \in 0..NSteps
    BY <1>1 DEF Brings, Worker
  <1>3. PICK s, n :
          /\ s \in (m.at + 1)..(NSteps + 1)
          /\ Become(w, n)
          /\ \A t \in (m.at + 1)..(s - 1) : PassesOver(m, c, t)
          /\ Takes(w, m, n, c, s) \/ LeavesAt(m, n, c, s)
    BY <1>1, <1>2, WaysOut
  <1>s. m.at \in Nat /\ s \in Nat /\ m.at < s
    BY <1>2, <1>3
  <1>4. worker'[w] = n /\ \A v \in Workers : v # w => worker'[v] = worker[v]
    BY <1>3 DEF Become, Inv, TypeOK
  <1>5. \A t \in Steps : c[t] = w => t <= m.at
    BY <1>1, <1>2 DEF Brings, Passed, ClaimsBehind
  <1>6. \A t \in Steps : t <= m.at =>
          \/ m.steps[t] \in {"done", "skipped"}
          \/ c[t] \notin {w, NoWorker}
          \/ pauses'[t] > 0
    <2>1. CASE worker[w].pc = "setup"
      BY <2>1, <1>1, <1>2 DEF Brings, Passed, StartsAtZero, Steps
    <2>2. CASE Busy(w)
      <3> SUFFICES ASSUME NEW t \in Steps, t <= m.at
                   PROVE  \/ m.steps[t] \in {"done", "skipped"}
                          \/ c[t] \notin {w, NoWorker}
                          \/ pauses'[t] > 0
        OBVIOUS
      <3>0. Busy(w) => worker[w].pc # "setup"
        BY DEF Busy
      <3>1. CASE t = m.at
        BY <2>2, <3>0, <3>1, <1>1 DEF Brings
      <3>2. CASE t # m.at
        <4>1. t < worker[w].at
          BY <3>2, <1>1, <1>2 DEF Brings, Steps
        <4>2. \/ worker[w].steps[t] \in {"done", "skipped"}
              \/ claims[t] \notin {w, NoWorker}
              \/ pauses[t] > 0
          BY <2>2, <4>1 DEF Passed, NothingPassedSilently
        <4> QED
          BY <4>2, <3>2, <2>2, <3>0, <1>1 DEF Brings
      <3> QED
        BY <3>1, <3>2
    <2> QED
      BY <2>1, <2>2, <1>1 DEF Brings
  <1>7. \A t \in Steps : t < s =>
          \/ m.steps[t] \in {"done", "skipped"}
          \/ c[t] \notin {w, NoWorker}
          \/ pauses'[t] > 0
    <2> SUFFICES ASSUME NEW t \in Steps, t < s, ~(t <= m.at)
                 PROVE  m.steps[t] \in {"done", "skipped"} \/ c[t] \notin {w, NoWorker}
      BY <1>6
    <2>1. t \in (m.at + 1)..(s - 1)
      BY <1>s DEF Steps
    <2> QED
      BY <2>1, <1>3, <1>5 DEF PassesOver, Free
  <1>8. \A t \in Steps : claims'[t] = c[t] \/ (t = s /\ c[t] = NoWorker /\ claims'[t] = w)
    BY <1>1, <1>3 DEF Brings, Takes, LeavesAt
  <1>9. n.pc \in {"waiting", "running", "closing"}
    BY <1>3 DEF Takes, LeavesAt
  <1>10. (n.pc \in {"waiting", "running"}) =>
           /\ n.at = s /\ \A t \in Steps : t # s => n.steps[t] = m.steps[t]
    BY <1>3 DEF Takes, LeavesAt
  <1>11. n.pc = "closing" /\ n.status = "done" => s = NSteps + 1 /\ n.steps = m.steps
    BY <1>3 DEF Takes, LeavesAt
  <1>12. NothingPassedSilently'
    <2>1. \A t \in Steps : (n.pc \in {"waiting", "running"} /\ t < n.at)
                           \/ (n.pc = "closing" /\ n.status = "done") =>
            \/ n.steps[t] \in {"done", "skipped"}
            \/ claims'[t] \notin {w, NoWorker}
            \/ pauses'[t] > 0
      <3> SUFFICES ASSUME NEW t \in Steps,
                          (n.pc \in {"waiting", "running"} /\ t < n.at)
                          \/ (n.pc = "closing" /\ n.status = "done")
                   PROVE  \/ n.steps[t] \in {"done", "skipped"}
                          \/ claims'[t] \notin {w, NoWorker}
                          \/ pauses'[t] > 0
        OBVIOUS
      <3>1. t < s /\ t # s /\ n.steps[t] = m.steps[t]
        BY <1>2, <1>10, <1>11 DEF Steps
      <3> QED
        BY <3>1, <1>7, <1>8
    <2>2. ASSUME NEW v \in Workers, v # w, NEW t \in Steps,
                 (worker[v].pc \in {"waiting", "running"} /\ t < worker[v].at)
                 \/ (worker[v].pc = "closing" /\ worker[v].status = "done")
          PROVE  \/ worker[v].steps[t] \in {"done", "skipped"}
                 \/ claims'[t] \notin {v, NoWorker}
                 \/ pauses'[t] > 0
      <3>1. \/ worker[v].steps[t] \in {"done", "skipped"}
            \/ claims[t] \notin {v, NoWorker}
            \/ pauses[t] > 0
        BY <2>2 DEF Passed, NothingPassedSilently, Busy
      <3> QED
        BY <3>1, <2>2, <1>1, <1>8 DEF Brings
    <2> QED
      BY <2>1, <2>2, <1>4 DEF NothingPassedSilently, Busy
  <1>13. ClaimsBehind'
    <2> SUFFICES ASSUME NEW v \in Workers, NEW t \in Steps, claims'[t] = v
                 PROVE  /\ worker'[v].pc \notin {"unused", "created", "setup"}
                        /\ worker'[v].pc \in {"waiting", "running"} => t <= worker'[v].at
      BY DEF ClaimsBehind, Busy
    <2>1. CASE v = w
      <3>1. t <= s
        BY <2>1, <1>s, <1>5, <1>8 DEF Steps
      <3> QED
        BY <3>1, <2>1, <1>4, <1>9, <1>10
    <2>2. CASE v # w
      <3>1. claims[t] = v
        BY <2>2, <1>1, <1>8 DEF Brings
      <3> QED
        BY <3>1, <2>2, <1>4 DEF Passed, ClaimsBehind, Busy
    <2> QED
      BY <2>1, <2>2
  <1>14. StartsAtZero'
    BY <1>4, <1>9 DEF Passed, StartsAtZero
  <1> QED
    BY <1>12, <1>13, <1>14 DEF Passed

(* Whoever does not go on with the loop leaves the claims alone, and no     *)
(* worker gets further than it was.                                         *)
Calm(a, b) ==
  /\ b.pc \in {"waiting", "running"} =>
       /\ a.pc \in {"waiting", "running"} /\ b.at = a.at
       /\ \A t \in Steps : t < a.at => b.steps[t] = a.steps[t]
  /\ b.pc = "closing" /\ b.status = "done" =>
       a.pc = "closing" /\ a.status = "done" /\ b.steps = a.steps
  /\ b.pc \in {"unused", "created", "setup"} => a.pc \in {"unused", "created", "setup"}
  /\ b.pc \in {"created", "setup"} => b.at = 0

StaysCalm ==
  /\ \A v \in Workers : Calm(worker[v], worker'[v])
  /\ claims' = claims /\ pauses' = pauses

LEMMA CalmPassed == Passed /\ StaysCalm => Passed'
  <1> SUFFICES ASSUME Passed, StaysCalm PROVE Passed'
    OBVIOUS
  <1>1. NothingPassedSilently'
    <2> SUFFICES ASSUME NEW w \in Workers, NEW t \in Steps,
                        (worker'[w].pc \in {"waiting", "running"} /\ t < worker'[w].at)
                        \/ (worker'[w].pc = "closing" /\ worker'[w].status = "done")
                 PROVE  \/ worker'[w].steps[t] \in {"done", "skipped"}
                        \/ claims'[t] \notin {w, NoWorker}
                        \/ pauses'[t] > 0
      BY DEF NothingPassedSilently, Busy
    <2>1. /\ (worker[w].pc \in {"waiting", "running"} /\ t < worker[w].at)
             \/ (worker[w].pc = "closing" /\ worker[w].status = "done")
          /\ worker'[w].steps[t] = worker[w].steps[t]
      BY DEF StaysCalm, Calm
    <2>2. \/ worker[w].steps[t] \in {"done", "skipped"}
          \/ claims[t] \notin {w, NoWorker}
          \/ pauses[t] > 0
      BY <2>1 DEF Passed, NothingPassedSilently, Busy
    <2> QED
      BY <2>1, <2>2 DEF StaysCalm
  <1>2. ClaimsBehind'
    BY DEF Passed, ClaimsBehind, StaysCalm, Calm, Busy
  <1>3. StartsAtZero'
    BY DEF StartsAtZero, StaysCalm, Calm
  <1> QED
    BY <1>1, <1>2, <1>3 DEF Passed

LEMMA CalmAlready ==
  ASSUME Inv, Passed
  PROVE  /\ \A v \in Workers : Calm(worker[v], worker[v])
         /\ \A v \in Workers : Calm(worker[v], [worker[v] EXCEPT !.killed = TRUE])
         /\ \A v \in Workers : Calm(worker[v], Gone)
         /\ worker = [v \in Workers |-> worker[v]]
  <1>1. \A v \in Workers : Calm(worker[v], worker[v])
    BY DEF Calm, Passed, StartsAtZero
  <1>2. \A v \in Workers : Calm(worker[v], [worker[v] EXCEPT !.killed = TRUE])
    <2> SUFFICES ASSUME NEW v \in Workers PROVE Calm(worker[v], [worker[v] EXCEPT !.killed = TRUE])
      OBVIOUS
    <2> DEFINE k == [worker[v] EXCEPT !.killed = TRUE]
    <2>1. k.pc = worker[v].pc /\ k.at = worker[v].at /\ k.steps = worker[v].steps
          /\ k.status = worker[v].status
      BY CopyFact DEF Worker
    <2> HIDE DEF k
    <2>2. Calm(worker[v], k)
      BY <2>1 DEF Calm, Passed, StartsAtZero
    <2> QED
      BY <2>2 DEF k
  <1>3. \A v \in Workers : Calm(worker[v], Gone)
    BY GoneFact DEF Calm
  <1> QED
    BY <1>1, <1>2, <1>3 DEF Inv, TypeOK

(* One worker alone changes, calmly. *)
LEMMA OneCalm ==
  ASSUME Inv, Passed, NEW w \in Workers, NEW n, Calm(worker[w], n), Become(w, n),
         claims' = claims, pauses' = pauses
  PROVE  StaysCalm
  <1>1. \A v \in Workers : worker'[v] = IF v = w THEN n ELSE worker[v]
    BY DEF Become, Inv, TypeOK
  <1> QED
    BY <1>1, CalmAlready DEF StaysCalm

LEMMA WorkerStaysCalm ==
  ASSUME Inv, Passed, NEW w \in Workers,
         (Awakes(w) /\ ~GoesOn(w)) \/ MissionTimesOut(w)
  PROVE  StaysCalm
  <1>0. worker[w] \in Worker
    BY CopyFact
  <1>1. CASE Start(w)
    <2> DEFINE n == [worker[w] EXCEPT !.pc = "setup", !.status = "running"]
    <2>1. n.pc = "setup" /\ n.at = worker[w].at
      BY <1>0 DEF Worker
    <2>2. /\ worker[w].pc = "created" /\ Become(w, n)
          /\ claims' = claims /\ pauses' = pauses
      BY <1>1 DEF Start, history
    <2> HIDE DEF n
    <2>3. Calm(worker[w], n)
      BY <2>1, <2>2 DEF Calm, Passed, StartsAtZero
    <2> QED
      BY <2>2, <2>3, OneCalm
  <1>2. ASSUME Become(w, Gone), UNCHANGED <<claims, history>>
        PROVE  StaysCalm
    BY <1>2, CalmAlready, OneCalm DEF history
  <1>3. ASSUME NEW m \in Worker, NEW pc \in {"closing", "stopping"}, NEW st \in ProjectStatuses,
               pc = "stopping" \/ st = "failed",
               Become(w, Leaves(m, pc, st)), UNCHANGED <<claims, history>>
        PROVE  StaysCalm
    <2> DEFINE n == Leaves(m, pc, st)
    <2>1. n.pc = pc /\ n.status = st
      BY DEF Leaves, Worker
    <2> HIDE DEF n
    <2>2. Calm(worker[w], n)
      BY <2>1, <1>3 DEF Calm
    <2> QED
      BY <2>2, <1>3, OneCalm DEF n, history
  <1>4. CASE SetupFails(w) \/ Close(w)
    BY <1>4, <1>2 DEF SetupFails, Close, files
  <1>5. CASE MissionTimesOut(w)
    <2>1. worker[w].status \in ProjectStatuses
      BY <1>0 DEF Worker
    <2>2. UNCHANGED <<claims, history>>
      BY <1>5 DEF MissionTimesOut, files
    <2> QED
      BY <2>1, <2>2, <1>0, <1>2, <1>3, <1>5 DEF MissionTimesOut
  <1>6. CASE VerifierRaises(w) \/ Vanishes(w)
    <2>1. UNCHANGED <<claims, history>> /\ "failed" \in ProjectStatuses
      BY <1>6 DEF VerifierRaises, Vanishes, files, ProjectStatuses
    <2>2. Become(w, Gone) \/ Become(w, Leaves(worker[w], "closing", "failed"))
      BY <1>6 DEF VerifierRaises, Vanishes
    <2> QED
      BY <2>1, <2>2, <1>0, <1>2, <1>3
  <1>7. CASE RunFails(w)
    <2> DEFINE m == [worker[w] EXCEPT !.steps[worker[w].at] = "failed"]
    <2>1. Busy(w)
      BY <1>7 DEF RunFails, Busy
    <2>2. m \in Worker
      BY <2>1, MarkFact DEF StepStatuses
    <2>3. Become(w, Leaves(m, "closing", "failed")) /\ UNCHANGED <<claims, history>>
      BY <1>7 DEF RunFails
    <2> HIDE DEF m
    <2> QED
      BY <2>2, <2>3, <1>3 DEF ProjectStatuses
  <1>8. CASE RunTriesAgain(w)
    <2> DEFINE n == [worker[w] EXCEPT !.tries = @ + 1]
    <2>1. n.pc = worker[w].pc /\ n.at = worker[w].at /\ n.steps = worker[w].steps
      BY <1>0 DEF Worker
    <2>2. /\ worker[w].pc = "running" /\ Become(w, n)
          /\ claims' = claims /\ pauses' = pauses
      BY <1>8 DEF RunTriesAgain, files, history, Become, Inv, TypeOK
    <2> HIDE DEF n
    <2>3. Calm(worker[w], n)
      BY <2>1, <2>2 DEF Calm
    <2> QED
      BY <2>2, <2>3, OneCalm
  <1>9. CASE Approved(w)
    <2> DEFINE n == [worker[w] EXCEPT !.pc = "running", !.steps[worker[w].at] = "running",
                                      !.answer = "none"]
    <2>1. /\ n.pc = "running" /\ n.at = worker[w].at
          /\ n.steps = [worker[w].steps EXCEPT ![worker[w].at] = "running"]
      BY <1>0 DEF Worker
    <2>2. /\ worker[w].pc = "waiting" /\ Become(w, n)
          /\ claims' = claims /\ pauses' = pauses
      BY <1>9 DEF Approved
    <2>3. \A t \in Steps : t < worker[w].at => n.steps[t] = worker[w].steps[t]
      <3>1. worker[w].at \in Nat /\ worker[w].steps \in [Steps -> StepStatuses]
        BY <1>0 DEF Worker
      <3>2. \A t \in Steps : t < worker[w].at => t # worker[w].at
        BY <3>1, MissionAssumption DEF Steps
      <3> HIDE DEF n
      <3> QED
        BY <2>1, <3>1, <3>2
    <2> HIDE DEF n
    <2>4. Calm(worker[w], n)
      BY <2>1, <2>2, <2>3 DEF Calm
    <2> QED
      BY <2>2, <2>4, OneCalm
  <1> QED
    BY <1>1, <1>4, <1>5, <1>6, <1>7, <1>8, <1>9 DEF Awakes, GoesOn

(* The orchestrator, the API and the user. *)
LEMMA LaunchIsCalm ==
  ASSUME Inv, Passed, NEW w \in Workers, worker[w].pc = "unused",
         NEW st, NEW steps,
         \A v \in Workers : v # w =>
           worker'[v] = worker[v] \/ worker'[v] = [worker[v] EXCEPT !.killed = TRUE],
         worker'[w] = Launched("created", st, steps),
         claims' = claims, pauses' = pauses
  PROVE  StaysCalm
  <1>1. Calm(worker[w], worker'[w])
    BY DEF Calm, Launched
  <1> QED
    BY <1>1, CalmAlready DEF StaysCalm

LEMMA OrchestratorStaysCalm ==
  ASSUME Inv, Passed,
         \/ \E w \in Workers : Create(w) \/ Retry(w) \/ Resume(w)
         \/ \E s \in Steps, yes \in BOOLEAN : Resolve(s, yes)
         \/ \E S \in SUBSET Steps : ResetSteps(S)
         \/ Kill \/ Delete \/ Restart
  PROVE  StaysCalm
  <1>0. /\ worker = [v \in Workers |-> worker[v]]
        /\ \A v \in Workers : worker[v] \in Worker
        /\ DOMAIN worker = Workers
    BY CopyFact, CalmAlready
  <1>1. ASSUME UNCHANGED <<claims, history>>,
               \A v \in Workers :
                 \/ worker'[v] = worker[v]
                 \/ worker'[v] = [worker[v] EXCEPT !.killed = TRUE]
                 \/ worker'[v] = Gone
        PROVE  StaysCalm
    BY <1>1, CalmAlready DEF StaysCalm, history
  <1>2. CASE Kill \/ Delete \/ Restart \/ \E S \in SUBSET Steps : ResetSteps(S)
    <2>1. UNCHANGED <<claims, history>>
      BY <1>2 DEF Kill, Delete, Restart, ResetSteps, files
    <2>2. \A v \in Workers :
            \/ worker'[v] = worker[v]
            \/ worker'[v] = [worker[v] EXCEPT !.killed = TRUE]
            \/ worker'[v] = Gone
      BY <1>0, <1>2 DEF Kill, Delete, Restart, ResetSteps
    <2> QED
      BY <1>1, <2>1, <2>2
  <1>3. ASSUME NEW w \in Workers, Create(w) PROVE StaysCalm
    <2>1. UNCHANGED <<claims, history>> /\ worker[w].pc = "unused"
      BY <1>3 DEF Create
    <2>2. CASE worker' = worker
      BY <1>1, <2>1, <2>2
    <2>3. CASE Become(w, Launched("created", "planning", Fresh))
      BY <1>0, <2>1, <2>3, LaunchIsCalm DEF Become, history
    <2> QED
      BY <1>3, <2>2, <2>3 DEF Create
  <1>4. ASSUME NEW w \in Workers, NEW steps, Relaunch(w, steps) PROVE StaysCalm
    <2>1. /\ claims' = claims /\ pauses' = pauses /\ worker[w].pc = "unused"
          /\ worker'[w] = Launched("created", "running", steps)
          /\ \A v \in Workers : v # w =>
               worker'[v] = worker[v] \/ worker'[v] = [worker[v] EXCEPT !.killed = TRUE]
      BY <1>0, <1>4 DEF Relaunch, history
    <2> QED
      BY <2>1, LaunchIsCalm
  <1>5. ASSUME NEW w \in Workers, Retry(w) \/ Resume(w) PROVE StaysCalm
    BY <1>4, <1>5 DEF Retry, Resume
  <1>6. ASSUME NEW s \in Steps, NEW yes \in BOOLEAN, Resolve(s, yes) PROVE StaysCalm
    <2> DEFINE w == pending[s]
               n == [worker[w] EXCEPT !.answer = IF yes THEN "yes" ELSE "no"]
    <2>1. /\ w \in Workers /\ claims' = claims /\ pauses' = pauses
          /\ worker' = worker \/ Become(w, n)
      BY <1>6 DEF Resolve, files, Inv, TypeOK, Become
    <2>2. n.pc = worker[w].pc /\ n.at = worker[w].at /\ n.steps = worker[w].steps
          /\ n.status = worker[w].status
      BY <1>0, <2>1 DEF Worker
    <2> HIDE DEF n
    <2>3. Calm(worker[w], n)
      BY <2>1, <2>2 DEF Calm, Passed, StartsAtZero
    <2> QED
      BY <2>1, <2>3, CalmAlready, OneCalm DEF StaysCalm
  <1> QED
    BY <1>2, <1>3, <1>5, <1>6

LEMMA PassedStep == Inv /\ Passed /\ [Next]_vars => Passed'
  <1> SUFFICES ASSUME Inv, Passed, [Next]_vars PROVE Passed'
    OBVIOUS
  <1>1. CASE UNCHANGED vars
    <2>1. StaysCalm
      BY <1>1, CalmAlready DEF vars, files, history, StaysCalm
    <2> QED
      BY <2>1, CalmPassed
  <1>2. ASSUME NEW w \in Workers, GoesOn(w) PROVE Passed'
    BY <1>2, GoesOnPassed
  <1>3. ASSUME NEW w \in Workers, (Awakes(w) /\ ~GoesOn(w)) \/ MissionTimesOut(w) PROVE Passed'
    BY <1>3, WorkerStaysCalm, CalmPassed
  <1>4. CASE \/ \E w \in Workers : Create(w) \/ Retry(w) \/ Resume(w)
             \/ \E s \in Steps, yes \in BOOLEAN : Resolve(s, yes)
             \/ \E S \in SUBSET Steps : ResetSteps(S)
             \/ Kill \/ Delete \/ Restart
    BY <1>4, OrchestratorStaysCalm, CalmPassed
  <1> QED
    BY <1>1, <1>2, <1>3, <1>4 DEF Next

LEMMA InitPassed == Init => Passed
  <1> SUFFICES ASSUME Init PROVE Passed
    OBVIOUS
  <1>1. \A w \in Workers : worker[w].pc = "unused" /\ worker[w].at = 0
    BY DEF Init, Launched
  <1>2. \A s \in Steps : claims[s] = NoWorker
    BY DEF Init
  <1> QED
    BY <1>1, <1>2, MissionAssumption
       DEF Passed, NothingPassedSilently, ClaimsBehind, StartsAtZero, Busy

(* worker_agent.py:330-342: whatever the retries, resets, stale copies,      *)
(* budget pauses and restarts, a worker goes past no step that is not done,  *)
(* refused by the user, in other hands or put back by the budget.            *)
THEOREM StepsAreAccounted == Spec => []NothingPassedSilently
  <1>1. Spec => [](Inv /\ Passed)
    BY InitInv, StepInv, InitPassed, PassedStep, PTL DEF Spec
  <1>2. Passed => NothingPassedSilently
    BY DEF Passed
  <1> QED
    BY <1>1, <1>2, PTL

-----------------------------------------------------------------------------
(* A killed worker claims nothing.  The flag is read after every await and  *)
(* before every claim, with no await in between.                            *)
ClaimsNothing ==
  \A w \in Workers, s \in Steps : worker[w].killed /\ claims'[s] = w => claims[s] = w

LEMMA ClaimsStep == Inv /\ Passed /\ [Next]_vars => ClaimsNothing
  <1> SUFFICES ASSUME Inv, Passed, [Next]_vars PROVE ClaimsNothing
    OBVIOUS
  <1>1. CASE claims' = claims
    BY <1>1 DEF ClaimsNothing
  <1>2. ASSUME NEW w \in Workers, GoesOn(w) PROVE ClaimsNothing
    <2>1. PICK m, c, p : Brings(w, m, c) /\ Proceed(w, m, c, p)
      BY <1>2, BringsFact
    <2>2. m \in Worker /\ m.killed = worker[w].killed
      BY <2>1 DEF Brings
    <2>3. PICK s, n : Takes(w, m, n, c, s) \/ LeavesAt(m, n, c, s)
      BY <2>1, <2>2, WaysOut
    <2>4. \A t \in Steps : claims'[t] = c[t] \/ (~m.killed /\ claims'[t] = w)
      BY <2>1, <2>3 DEF Takes, LeavesAt, Brings
    <2>5. \A t \in Steps : c[t] = claims[t] \/ c[t] = NoWorker
      BY <2>1 DEF Brings
    <2> QED
      BY <2>2, <2>4, <2>5, MissionAssumption DEF ClaimsNothing
  <1>3. ASSUME NEW w \in Workers, (Awakes(w) /\ ~GoesOn(w)) \/ MissionTimesOut(w)
        PROVE  claims' = claims
    BY <1>3, WorkerStaysCalm DEF StaysCalm
  <1>4. CASE \/ \E w \in Workers : Create(w) \/ Retry(w) \/ Resume(w)
             \/ \E s \in Steps, yes \in BOOLEAN : Resolve(s, yes)
             \/ \E S \in SUBSET Steps : ResetSteps(S)
             \/ Kill \/ Delete \/ Restart
    BY <1>1, <1>4, OrchestratorStaysCalm DEF StaysCalm
  <1>5. CASE UNCHANGED vars
    BY <1>1, <1>5 DEF vars, files
  <1> QED
    BY <1>1, <1>2, <1>3, <1>4, <1>5 DEF Next

(* orchestrator.py:121-126, worker_agent.py:333-335: once killed, a worker   *)
(* takes no further step, however many steps are free or freed behind it.    *)
THEOREM KilledStops == Spec => KilledClaimsNothing
  <1>1. Spec => [](Inv /\ Passed)
    BY InitInv, StepInv, InitPassed, PassedStep, PTL DEF Spec
  <1>2. Inv /\ Passed /\ [Next]_vars => [ClaimsNothing]_vars
    BY ClaimsStep
  <1>3. Spec => [][ClaimsNothing]_vars
    BY <1>1, <1>2, PTL DEF Spec
  <1> QED
    BY <1>3 DEF KilledClaimsNothing, ClaimsNothing
==============================================================================
