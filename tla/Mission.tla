------------------------------- MODULE Mission -------------------------------
(***************************************************************************)
(* One mission: the orchestrator that launches, kills, retries and resumes *)
(* it, and its workers, one per launch.  A worker runs the plan step by    *)
(* step on its own copy of the project; state.json on the disk is written  *)
(* by every worker (the last one wins) and read by retry and resume.  A    *)
(* file of claims keeps two workers from executing the same step.          *)
(*   - engine/mission/orchestrator.py    create, kill, retry, resume       *)
(*   - engine/mission/worker_agent.py    run and what it calls             *)
(*   - engine/mission/project_store.py   state.json, claims, budget pause  *)
(*   - interfaces/api/projects.py        reset-steps, delete               *)
(* All of it runs on one asyncio loop: an action goes from one await to    *)
(* the next.  The orchestrator's own operations hold no await.             *)
(***************************************************************************)
EXTENDS Naturals

CONSTANTS
  Workers,        \* workers, one per launch of the mission
  NoWorker,
  NSteps,         \* length of the plan
  NeedsApproval,  \* steps the plan marks requires_approval
  LevelOf,        \* access_level of each step: 0 READ_ONLY .. 5 MODIFY_CORE
  Modes,          \* what the user may set the category agent_mission to
  MaxTries,       \* executions of a step until it is verified (2)
  BudgetCanStop,  \* the budget may refuse a reservation
  ResumeOffered,  \* resume_project is called (no route calls it)
  MaxPauses,      \* bound: budget pauses per step
  MaxRestarts     \* bound: restarts of the process

Steps == 1..NSteps
StepStatuses == {"pending", "running", "waiting_approval", "done", "failed", "skipped"}
ProjectStatuses == {"planning", "running", "paused", "done", "failed", "killed"}

ASSUME MissionAssumption ==
  /\ NoWorker \notin Workers
  /\ NSteps \in Nat \ {0} /\ MaxTries \in Nat \ {0}
  /\ NeedsApproval \subseteq Steps
  /\ LevelOf \in [Steps -> 0..5]
  /\ Modes \subseteq {"always", "ask", "never"}
  /\ BudgetCanStop \in BOOLEAN /\ ResumeOffered \in BOOLEAN
  /\ MaxPauses \in Nat /\ MaxRestarts \in Nat

VARIABLES
  disk,      \* state.json: status and steps; "absent" or "deleted" without it
  valid,     \* every step of the plan has its success criterion
  claims,    \* step_claims.json: the worker that claimed each step
  entry,     \* _workers of the orchestrator: the worker kill reaches
  pending,   \* _pending_approvals: the worker whose future waits, per step
  worker,    \* each worker: where it is, its flags, its copy of the project
  restarts,
  runs,      \* history: times each step began to execute
  consents,  \* history: times the user approved each step
  pauses,    \* history: budget pauses in each step
  verified   \* history: steps the verifier accepted, or a Fusion mission's

files == <<disk, valid, claims>>
history == <<runs, consents, pauses, verified>>
vars == <<files, entry, pending, worker, restarts, history>>

(* A worker waits: for its task to start ("created"), for Docker ("setup"), *)
(* for the user ("waiting"), for the model and the verifier ("running"),    *)
(* for the handlers of MissionCompleted and for Docker to stop ("closing"), *)
(* and for Docker alone once the mission timed out ("stopping").            *)
Pcs == {"unused", "created", "setup", "waiting", "running", "closing", "stopping", "ended"}
Answers == {"none", "yes", "no"}
Worker == [pc: Pcs, killed: BOOLEAN, status: ProjectStatuses, steps: [Steps -> StepStatuses],
           at: 0..NSteps, tries: 0..MaxTries - 1, answer: Answers]

Fresh == [s \in Steps |-> "pending"]
Launched(pc, status, steps) ==
  [pc |-> pc, killed |-> FALSE, status |-> status, steps |-> steps,
   at |-> 0, tries |-> 0, answer |-> "none"]

Gone == Launched("ended", "planning", Fresh)   \* the task and its copy

TypeOK ==
  /\ disk \in [status: ProjectStatuses \cup {"absent", "deleted"},
               steps: [Steps -> StepStatuses]]
  /\ valid \in BOOLEAN
  /\ claims \in [Steps -> Workers \cup {NoWorker}]
  /\ entry \in Workers \cup {NoWorker}
  /\ pending \in [Steps -> Workers \cup {NoWorker}]
  /\ worker \in [Workers -> Worker]
  /\ restarts \in 0..MaxRestarts
  /\ runs \in [Steps -> Nat] /\ consents \in [Steps -> Nat]
  /\ pauses \in [Steps -> 0..MaxPauses]
  /\ verified \subseteq Steps

Init ==
  /\ disk = [status |-> "absent", steps |-> Fresh]
  /\ valid = TRUE
  /\ claims = [s \in Steps |-> NoWorker]
  /\ entry = NoWorker
  /\ pending = [s \in Steps |-> NoWorker]
  /\ worker = [w \in Workers |-> Launched("unused", "planning", Fresh)]
  /\ restarts = 0
  /\ runs = [s \in Steps |-> 0] /\ consents = [s \in Steps |-> 0]
  /\ pauses = [s \in Steps |-> 0] /\ verified = {}

Exists == disk.status \notin {"absent", "deleted"}
Saved(m) == [status |-> m.status, steps |-> m.steps]   \* save_project
Become(w, m) == worker' = [worker EXCEPT ![w] = m]
Leaves(m, pc, status) == [m EXCEPT !.pc = pc, !.status = status,
                                   !.at = 0, !.tries = 0, !.answer = "none"]

-----------------------------------------------------------------------------
(* The run of a worker *)

AutoMaxLevel == 2   \* AUTO_MAX_LEVEL: EXECUTE_CODE
RiskAxis(s) == IF LevelOf[s] <= AutoMaxLevel THEN "auto" ELSE "ask"
CategoryAxis(mode) == [always |-> "auto", ask |-> "ask", never |-> "refused"][mode]

\* Slip: the most permissive wins.
Laxest(axes) ==
  IF "auto" \in axes THEN "auto" ELSE IF "ask" \in axes THEN "ask" ELSE "refused"

\* Governance.gate: of the three axes (risk, category, budget) the most
\* restrictive wins.
Strictest(axes) ==
  IF "refused" \in axes THEN "refused" ELSE IF "ask" \in axes THEN "ask" ELSE "auto"

\* What the gate may answer for step s: the user changes the mode and the
\* budget runs out at any time.
Gates(s) ==
  {Strictest({RiskAxis(s), CategoryAxis(mode), budget}) :
     mode \in Modes, budget \in {"auto"} \cup (IF BudgetCanStop THEN {"refused"} ELSE {})}

\* Slip: two workers may claim the same step.
FreeForAll(c, s) == TRUE

\* claim_step: any claim stands in the way, the worker's own included.
Free(c, s) == c[s] = NoWorker

\* Slip: the loop does not look at the flag.
NeverStopped(m) == FALSE

Stopped(m) == m.killed

\* The loop goes over a step that is done or skipped, and over a step that
\* another worker claimed, unless its copy calls it failed.
PassesOver(m, c, s) ==
  \/ m.steps[s] \in {"done", "skipped"}
  \/ ~Stopped(m) /\ ~Free(c, s) /\ m.steps[s] # "failed"

\* The loop found step s free: claim it, save, ask the gate and go on to the
\* next await.
Begin(w, m, c, p, s) ==
  LET to(pc, st) == [m EXCEPT !.pc = pc, !.at = s, !.tries = 0, !.answer = "none",
                              !.steps[s] = st] IN
  /\ claims' = [c EXCEPT ![s] = w]
  /\ \E gate \in Gates(s) :
       \/ /\ gate = "refused"
          /\ disk' = Saved(to("closing", "failed"))
          /\ Become(w, Leaves(to("closing", "failed"), "closing", "failed"))
          /\ pending' = p
          /\ UNCHANGED runs
       \/ /\ gate = "ask" \/ (gate = "auto" /\ s \in NeedsApproval)
          /\ disk' = Saved(to("waiting", "waiting_approval"))
          /\ Become(w, to("waiting", "waiting_approval"))
          /\ pending' = [p EXCEPT ![s] = w]
          /\ UNCHANGED runs
       \/ /\ gate = "auto" /\ s \notin NeedsApproval
          /\ disk' = Saved(to("running", "running"))
          /\ Become(w, to("running", "running"))
          /\ pending' = p
          /\ runs' = [runs EXCEPT ![s] = @ + 1]

\* The loop of run after step m.at, which it saved (0: nothing yet): it ends
\* the plan, meets the flag, a failed step it cannot claim, or a free step.
\* The status it leaves with is saved only when the worker closes.
Proceed(w, m, c, p) ==
  \E s \in (m.at + 1)..(NSteps + 1) :
    /\ \A t \in (m.at + 1)..(s - 1) : PassesOver(m, c, t)
    /\ \/ /\ s <= NSteps /\ ~PassesOver(m, c, s) /\ ~Stopped(m) /\ Free(c, s)
          /\ Begin(w, m, c, p, s)
       \/ /\ \/ s > NSteps /\ Become(w, Leaves(m, "closing", "done"))
             \/ /\ s <= NSteps /\ ~PassesOver(m, c, s)
                /\ \/ Stopped(m) /\ Become(w, Leaves(m, "closing", "killed"))
                   \/ ~Stopped(m) /\ ~Free(c, s) /\ Become(w, Leaves(m, "closing", "failed"))
          /\ disk' = IF m.at > 0 THEN Saved(m) ELSE disk
          /\ claims' = c /\ pending' = p
          /\ UNCHANGED runs

\* The task starts: status, save, then Docker.
Start(w) ==
  LET m == [worker[w] EXCEPT !.pc = "setup", !.status = "running"] IN
  /\ worker[w].pc = "created" /\ Exists
  /\ Become(w, m)
  /\ disk' = Saved(m)
  /\ UNCHANGED <<valid, claims, entry, pending, restarts, history>>

SetupReturns(w) ==
  /\ worker[w].pc = "setup" /\ Exists
  /\ Proceed(w, worker[w], claims, pending)
  /\ UNCHANGED <<valid, entry, restarts, consents, pauses, verified>>

\* docker run fails, outside of the try: nothing is saved or published.
SetupFails(w) ==
  /\ worker[w].pc = "setup"
  /\ Become(w, Gone)
  /\ UNCHANGED <<files, entry, pending, restarts, history>>

-----------------------------------------------------------------------------
(* The approval of a step *)

\* resolve_approval answers the future it finds, whether or not a worker
\* still waits behind it.
Resolve(s, yes) ==
  LET w == pending[s] IN
  /\ w # NoWorker
  /\ pending' = [pending EXCEPT ![s] = NoWorker]
  /\ worker' = IF worker[w].pc = "waiting" /\ worker[w].at = s
               THEN [worker EXCEPT ![w].answer = IF yes THEN "yes" ELSE "no"]
               ELSE worker
  /\ consents' = [consents EXCEPT ![s] = IF yes THEN @ + 1 ELSE @]
  /\ UNCHANGED <<files, entry, restarts, runs, pauses, verified>>

Approved(w) ==
  LET m == [worker[w] EXCEPT !.pc = "running", !.steps[worker[w].at] = "running",
                             !.answer = "none"] IN
  /\ worker[w].pc = "waiting" /\ worker[w].answer = "yes" /\ Exists
  /\ Become(w, m)
  /\ disk' = Saved(m)
  /\ runs' = [runs EXCEPT ![m.at] = @ + 1]
  /\ UNCHANGED <<valid, claims, entry, pending, restarts, consents, pauses, verified>>

Skip(w, p) ==
  Proceed(w, [worker[w] EXCEPT !.steps[worker[w].at] = "skipped"], claims, p)

Refused(w) ==
  /\ worker[w].pc = "waiting" /\ worker[w].answer = "no" /\ Exists
  /\ Skip(w, pending)
  /\ UNCHANGED <<valid, entry, restarts, consents, pauses, verified>>

\* Slip: nobody watches the clock.
NeverTimesOut(w) == FALSE

\* Slip: a question without an answer is taken for a yes.
SilenceIsConsent(w) ==
  LET m == [worker[w] EXCEPT !.pc = "running", !.steps[worker[w].at] = "running",
                             !.answer = "none"] IN
  /\ worker[w].pc = "waiting" /\ Exists
  /\ Become(w, m)
  /\ disk' = Saved(m)
  /\ pending' = [pending EXCEPT ![m.at] = NoWorker]
  /\ runs' = [runs EXCEPT ![m.at] = @ + 1]
  /\ UNCHANGED <<valid, claims, entry, restarts, consents, pauses, verified>>

\* After 600 s; an answer given in the same turn of the loop may be lost.
ApprovalTimesOut(w) ==
  /\ worker[w].pc = "waiting" /\ Exists
  /\ Skip(w, [pending EXCEPT ![worker[w].at] = NoWorker])
  /\ UNCHANGED <<valid, entry, restarts, consents, pauses, verified>>

-----------------------------------------------------------------------------
(* The execution of a step *)

\* The verifier is convinced (or not asked: a mission about Fusion).
RunSucceeds(w) ==
  LET m == [worker[w] EXCEPT !.steps[worker[w].at] = "done"] IN
  /\ worker[w].pc = "running" /\ Exists
  /\ verified' = verified \cup {m.at}
  /\ Proceed(w, m, claims, pending)
  /\ UNCHANGED <<valid, entry, restarts, consents, pauses>>

\* The verifier is not convinced and a try is left: nothing is saved.
RunTriesAgain(w) ==
  /\ worker[w].pc = "running" /\ Exists
  /\ worker[w].tries + 1 < MaxTries
  /\ worker' = [worker EXCEPT ![w].tries = @ + 1]
  /\ UNCHANGED <<files, entry, pending, restarts, history>>

\* Slip: the step is marked failed and the loop goes on.
FailureIsPassed(w) ==
  /\ worker[w].pc = "running" /\ Exists
  /\ Proceed(w, [worker[w] EXCEPT !.steps[worker[w].at] = "failed"], claims, pending)
  /\ UNCHANGED <<valid, entry, restarts, consents, pauses, verified>>

\* Slip: the last try is taken for good.
LastTryIsGood(w) ==
  /\ worker[w].pc = "running" /\ Exists
  /\ Proceed(w, [worker[w] EXCEPT !.steps[worker[w].at] = "done"], claims, pending)
  /\ UNCHANGED <<valid, entry, restarts, consents, pauses, verified>>

\* 300 s, an exception of the model, or no try left.
RunFails(w) ==
  LET m == [worker[w] EXCEPT !.steps[worker[w].at] = "failed"] IN
  /\ worker[w].pc = "running" /\ Exists
  /\ Become(w, Leaves(m, "closing", "failed"))
  /\ disk' = Saved(m)
  /\ UNCHANGED <<valid, claims, entry, pending, restarts, history>>

\* The verifier raises: the step stays as it is and the mission fails.
VerifierRaises(w) ==
  /\ worker[w].pc = "running" /\ Exists
  /\ Become(w, Leaves(worker[w], "closing", "failed"))
  /\ UNCHANGED <<files, entry, pending, restarts, history>>

\* The budget refuses: pause_for_budget puts the step back, pauses the
\* project and releases the claim; the loop of run goes on all the same.
BudgetPauses(w) ==
  LET s == worker[w].at
      m == [worker[w] EXCEPT !.steps[s] = "pending", !.status = "paused"] IN
  /\ worker[w].pc = "running" /\ Exists
  /\ BudgetCanStop /\ pauses[s] < MaxPauses
  /\ pauses' = [pauses EXCEPT ![s] = @ + 1]
  /\ Proceed(w, m, [claims EXCEPT ![s] = NoWorker], pending)
  /\ UNCHANGED <<valid, entry, restarts, consents, verified>>

-----------------------------------------------------------------------------
(* The end of a worker *)

\* The handlers answered and Docker stopped: the last save.
Close(w) ==
  /\ worker[w].pc \in {"closing", "stopping"}
  /\ Become(w, Gone)
  /\ disk' = IF Exists THEN Saved(worker[w]) ELSE disk
  /\ UNCHANGED <<valid, claims, entry, pending, restarts, history>>

\* wait_for cancels the worker, once: outside of the try, in it, or in the
\* finally, whose last save is then lost.
MissionTimesOut(w) ==
  /\ \/ /\ worker[w].pc \in {"setup", "closing"}
        /\ Become(w, Gone)
     \/ /\ worker[w].pc \in {"waiting", "running"}
        /\ Become(w, Leaves(worker[w], "stopping", worker[w].status))
  /\ UNCHANGED <<files, entry, pending, restarts, history>>

\* The directory is gone: the first write raises, in the try or outside.
Vanishes(w) ==
  LET m == worker[w] IN
  /\ disk.status = "deleted"
  /\ \/ m.pc \in {"created", "setup"} /\ Become(w, Gone)
     \/ m.pc \in {"waiting", "running"} /\ Become(w, Leaves(m, "closing", "failed"))
  /\ pending' = IF m.pc = "waiting" THEN [pending EXCEPT ![m.at] = NoWorker] ELSE pending
  /\ UNCHANGED <<files, entry, restarts, history>>

-----------------------------------------------------------------------------
(* The orchestrator and the API *)

\* create_and_run once the plan is there: it is refused, or launched.
Create(w) ==
  /\ disk.status = "absent" /\ worker[w].pc = "unused"
  /\ \/ /\ valid' = FALSE
        /\ disk' = [status |-> "failed", steps |-> Fresh]
        /\ UNCHANGED <<entry, worker>>
     \/ /\ valid' = TRUE
        /\ disk' = [status |-> "planning", steps |-> Fresh]
        /\ Become(w, Launched("created", "planning", Fresh))
        /\ entry' = w
  /\ UNCHANGED <<claims, pending, restarts, history>>

\* kill, and what is left of retry and resume when they refuse.
Kill ==
  /\ entry # NoWorker /\ ~worker[entry].killed
  /\ worker' = [worker EXCEPT ![entry].killed = TRUE]
  /\ UNCHANGED <<files, entry, pending, restarts, history>>

\* A new worker takes the place of the one it kills, on the project as the
\* disk has it, its steps changed to steps.
Relaunch(w, steps) ==
  LET others == IF entry = NoWorker THEN worker ELSE [worker EXCEPT ![entry].killed = TRUE] IN
  /\ worker[w].pc = "unused"
  /\ disk' = [status |-> "running", steps |-> steps]
  /\ worker' = [others EXCEPT ![w] = Launched("created", "running", steps)]
  /\ entry' = w
  /\ UNCHANGED <<valid, claims, pending, restarts, history>>

Retry(w) ==
  /\ Exists
  /\ Relaunch(w, [s \in Steps |-> IF disk.steps[s] \in {"running", "failed"}
                                  THEN "pending" ELSE disk.steps[s]])

Resume(w) ==
  /\ ResumeOffered
  /\ disk.status = "paused" /\ \E s \in Steps : disk.steps[s] = "pending"
  /\ Relaunch(w, disk.steps)

\* reset-steps rewrites the file, whoever runs.
ResetSteps(S) ==
  /\ Exists
  /\ disk' = [disk EXCEPT !.steps = [s \in Steps |-> IF s \in S THEN "pending" ELSE @[s]]]
  /\ UNCHANGED <<valid, claims, entry, pending, worker, restarts, history>>

\* delete, which also kills, and the clean-up of the finished projects, which
\* does not.  The claims go with the directory; no worker reads them again.
Delete ==
  /\ Exists
  /\ disk' = [status |-> "deleted", steps |-> Fresh]
  /\ \/ /\ entry # NoWorker
        /\ worker' = [worker EXCEPT ![entry].killed = TRUE]
     \/ /\ entry = NoWorker \/ disk.status \in {"done", "failed", "killed"}
        /\ UNCHANGED worker
  /\ UNCHANGED <<valid, claims, entry, pending, restarts, history>>

\* The process dies: the files stay.
Restart ==
  /\ restarts < MaxRestarts
  /\ restarts' = restarts + 1
  /\ worker' = [w \in Workers |-> IF worker[w].pc = "unused" THEN worker[w] ELSE Gone]
  /\ entry' = NoWorker
  /\ pending' = [s \in Steps |-> NoWorker]
  /\ UNCHANGED <<files, history>>

-----------------------------------------------------------------------------
\* An await of worker w ends by itself.
Awakes(w) ==
  \/ Start(w) \/ SetupReturns(w) \/ SetupFails(w)
  \/ Approved(w) \/ Refused(w) \/ ApprovalTimesOut(w)
  \/ RunSucceeds(w) \/ RunTriesAgain(w) \/ RunFails(w) \/ VerifierRaises(w) \/ BudgetPauses(w)
  \/ Close(w) \/ Vanishes(w)

Next ==
  \/ \E w \in Workers : Awakes(w) \/ MissionTimesOut(w) \/ Create(w) \/ Retry(w) \/ Resume(w)
  \/ \E s \in Steps, yes \in BOOLEAN : Resolve(s, yes)
  \/ \E S \in SUBSET Steps : ResetSteps(S)
  \/ Kill \/ Delete \/ Restart

Spec == Init /\ [][Next]_vars

\* Docker, the model (300 s) and the question (600 s) answer in the end; the
\* time-out of the mission and the user need not come.
AwaitsSpec == Spec /\ \A w \in Workers : WF_vars(Awakes(w))

-----------------------------------------------------------------------------
(* Properties *)

Busy(w) == worker[w].pc \in {"waiting", "running"}

\* project_store.py:107-112: whoever launches, kills, retries, resumes or
\* resets, at most one worker is in a given step.
OneWorkerPerStep ==
  \A v, w \in Workers : v # w /\ Busy(v) /\ Busy(w) => worker[v].at # worker[w].at

\* worker_agent.py:437: a step is executed once, and once more after each
\* budget pause that put it back, across retries, resets, stale copies of the
\* project and restarts.
ExecutedOnce == \A s \in Steps : runs[s] <= 1 + pauses[s]

Sensitive == NeedsApproval \cup {s \in Steps : LevelOf[s] > AutoMaxLevel}

\* worker_agent.py:462-486, orchestrator.py:233-262, governance.py:120-128:
\* each execution of a step the plan or its access level calls sensitive
\* answers a consent of its own, whatever mode the user sets; a refusal, a
\* silence or an answer meant for another worker never starts it.
EveryRunHasConsent == \A s \in Sensitive : runs[s] <= consents[s]

\* CDC_crush_evolution.md:115-119, worker_agent.py:540-562: a step that the
\* disk or any copy shows as done passed the verifier; the missions about
\* Fusion, which worker_agent.py:540 takes at their word, set aside.
DoneWasVerified ==
  \A s \in Steps :
    disk.steps[s] = "done" \/ (\E w \in Workers : worker[w].steps[s] = "done") => s \in verified

\* worker_agent.py:330-342: what a worker leaves behind it, in the plan it
\* goes through or declares done, is done, refused by the user, in the hands
\* of another worker, or was put back by a budget pause.
NothingPassedSilently ==
  \A w \in Workers, t \in Steps :
    LET m == worker[w] IN
    (Busy(w) /\ t < m.at) \/ (m.pc = "closing" /\ m.status = "done") =>
      \/ m.steps[t] \in {"done", "skipped"}
      \/ claims[t] \notin {w, NoWorker}
      \/ pauses[t] > 0

\* orchestrator.py:121-126, worker_agent.py:333-335: once killed, a worker
\* takes no further step, even when its replacement has left steps free.
KilledClaimsNothing ==
  [][\A w \in Workers, s \in Steps :
       worker[w].killed /\ claims'[s] = w => claims[s] = w]_vars

\* worker_agent.py:369-396: every worker ends, without the help of the user
\* or of the time-out of the mission.
EveryWorkerEnds == \A w \in Workers : worker[w].pc = "created" ~> worker[w].pc = "ended"

\* CDC_crush_evolution.md:137: after the process was killed in the middle, a
\* worker that runs the mission again finishes it only with every step done
\* or refused.
ResumesAtTheRightStep ==
  restarts > 0 => \A w \in Workers :
    worker[w].pc = "closing" /\ worker[w].status = "done" =>
      \A s \in Steps : worker[w].steps[s] \in {"done", "skipped"}

\* CDC_crush_evolution.md:121: a worker enters a step only once the steps
\* before it are done, or refused by the user.
PreviousStepFirst ==
  \A w \in Workers : Busy(w) =>
    \A t \in 1..(worker[w].at - 1) : worker[w].steps[t] \in {"done", "skipped"}

\* orchestrator.py:64-67, CDC_crush_evolution.md:113: a plan in which a step
\* has no success criterion is never executed.
RefusedPlanNeverRuns == ~valid => \A s \in Steps : runs[s] = 0
=============================================================================
