------------------------------- MODULE Spending -------------------------------
(***************************************************************************)
(* What the assistant spends, and who watches.  Every paid call is written  *)
(* to a ledger on disk; a guard keeps totals in memory, seeded from that     *)
(* ledger at start.  Missions ask it before they spend; everything else      *)
(* spends first, and the guard only says when a threshold is passed, from    *)
(* a task of its own.  The lesson drawn from a mission that ends is paid on  *)
(* its account, and asks nobody.                                             *)
(*   - engine/budget.py     BudgetGuard                                      *)
(*   - engine/tracking.py   UsageTracker                                     *)
(*   - bootstrap.py         _make_budget_callback, _wire_events              *)
(*   - engine/mission/worker_agent.py   run, _run_step_llm                   *)
(*   - engine/mission/reflexion.py      Reflexion                            *)
(* Money is counted in units of the worker's estimate.  One mission.         *)
(***************************************************************************)
EXTENDS Naturals, FiniteSets, Sequences, SequencesExt

CONSTANTS
  Monthly,     \* budget_monthly_usd
  Alert,       \* the share of it, budget_warn_pct, that is worth an alert
  PerProject,  \* budget_per_project_usd
  Estimate,    \* what a worker reserves for a step
  Costs,       \* what a call may cost
  Workers,     \* workers of the mission
  MaxCalls,    \* bound: calls of one step
  MaxSpent,    \* bound: units spent in a month, or unguarded when a start fails to read
  MaxMonths    \* bound: changes of month

ASSUME SpendingAssumption ==
  /\ {Monthly, Alert, PerProject, Estimate, MaxCalls, MaxSpent, MaxMonths} \subseteq Nat
  /\ Costs \subseteq Nat \ {0} /\ 0 < Alert /\ Alert <= Monthly
  /\ IsFiniteSet(Workers) /\ \E dearest \in Costs : \A c \in Costs : c <= dearest

VARIABLES
  ledger,   \* entries of the month, in and out of the mission
  month,
  memo,     \* _global_memo
  project,  \* _project_spent of the mission
  owed,     \* noter_depense: the tasks that have not run yet
  said,     \* what noter_depense published, in order; _warned holds the same
  noted,    \* history: it has counted an expense since the start
  unguarded, \* history: what was spent on the mission without a reservation, and what a start
             \* could not read
  adrift,   \* history: the month has changed since the start, or the start read nothing
  worker    \* each worker, with the calls that its step has left

money == <<ledger, memo, project, owed, said, noted, unguarded>>
spendingVars == <<money, month, adrift, worker>>

Total(l) == l.mission + l.other

\* What a sequence of expenses comes to.
Sum(s) ==
  LET upTo[n \in 0..Len(s)] == IF n = 0 THEN 0 ELSE upTo[n - 1] + s[n]
  IN upTo[Len(s)]

Unasked == [pc |-> "idle", calls |-> 0, global |-> TRUE]

SpendingTypeOK ==
  /\ ledger \in [{"mission", "other"} -> Nat] /\ month \in 0..MaxMonths
  /\ memo \in Nat /\ project \in Nat /\ owed \in Seq(Costs)
  /\ said \in Seq({"ceiling", "alert"}) /\ Len(said) <= 2
  /\ noted \in BOOLEAN /\ adrift \in BOOLEAN /\ unguarded \in Nat
  /\ worker \in [Workers -> [pc : {"idle", "asked", "cleared", "stopped", "reflecting"},
                             calls : 0..MaxCalls, global : BOOLEAN]]

SpendingInit ==
  /\ ledger = [mission |-> 0, other |-> 0] /\ month = 0 /\ memo = 0 /\ project = 0
  /\ owed = <<>> /\ said = <<>> /\ noted = FALSE /\ adrift = FALSE /\ unguarded = 0
  /\ worker = [w \in Workers |-> Unasked]

-----------------------------------------------------------------------------
(* An expense *)

\* A call is paid: the line is written, the mission's part counted, the rest left to a task.
Track(kind, cost) ==
  /\ Total(ledger) + cost <= MaxSpent
  /\ ledger' = [ledger EXCEPT ![kind] = @ + cost]
  /\ project' = IF kind = "mission" THEN project + cost ELSE project
  /\ owed' = Append(owed, cost)
  /\ UNCHANGED <<memo, said, noted>>

\* The thresholds that a total is over, and that have not been told since the start.
Level(threshold) == IF threshold = "ceiling" THEN Monthly ELSE Alert
Due(total) == {t \in {"ceiling", "alert"} : total >= Level(t) /\ t \notin ToSet(said)}

\* Slip: the approach is looked at before the ceiling.
LowestFirst(due) == IF "alert" \in due THEN "alert" ELSE "ceiling"
\* The ceiling first.
HighestFirst(due) == IF "ceiling" \in due THEN "ceiling" ELSE "alert"

\* noter_depense, for the oldest expense: one message at most, the first that is still unsaid.
Note ==
  LET total == memo + Head(owed)
  IN /\ owed # <<>> /\ owed' = Tail(owed)
     /\ memo' = total /\ noted' = TRUE
     /\ said' = IF Due(total) = {} THEN said ELSE Append(said, HighestFirst(Due(total)))
     /\ UNCHANGED <<ledger, project, unguarded, month, adrift, worker>>

\* The conversation, the memory, the voice.
Converse ==
  /\ \E c \in Costs : Track("other", c)
  /\ UNCHANGED <<unguarded, month, adrift, worker>>

-----------------------------------------------------------------------------
(* A step of the mission *)

\* Slip: what is spent already is compared with the limit, not what is asked for.
AffordsUntilSpent(spent, limit) == spent <= limit
\* reserve: the answer holds nothing back.
Affords(spent, limit) == spent + Estimate <= limit

\* The month's total is read from the disk, or taken for nothing,
AsksForTheMonth(w) ==
  /\ worker[w].pc = "idle"
  /\ \E spent \in {Total(ledger), 0} :
       worker' = [worker EXCEPT ![w] = [pc |-> "asked", calls |-> MaxCalls,
                                        global |-> Affords(spent, Monthly)]]
  /\ UNCHANGED <<money, month, adrift>>

\* the mission's from memory, after an await; either may stop the step.
AsksForTheMission(w) ==
  /\ worker[w].pc = "asked"
  /\ worker' = [worker EXCEPT ![w].pc =
       IF worker[w].global /\ Affords(project, PerProject) THEN "cleared" ELSE "stopped"]
  /\ UNCHANGED <<money, month, adrift>>

\* A call of the step, the one that grades it included.
Works(w) ==
  /\ worker[w].pc = "cleared" /\ worker[w].calls > 0
  /\ worker' = [worker EXCEPT ![w].calls = @ - 1]
  /\ \E c \in Costs : Track("mission", c)
  /\ UNCHANGED <<unguarded, month, adrift>>

\* The step is over, or stopped; a next one asks again.
Leaves(w) ==
  /\ worker[w].pc \in {"cleared", "stopped"}
  /\ worker' = [worker EXCEPT ![w] = Unasked]
  /\ UNCHANGED <<money, month, adrift>>

\* The mission is done, failed or killed: before the worker goes, a lesson is drawn from it,
\* paid on its account, or nothing comes of it.
Concludes(w) ==
  /\ worker[w].pc \in {"idle", "cleared"}
  /\ worker' = [worker EXCEPT ![w] = [pc |-> "reflecting", calls |-> 0, global |-> TRUE]]
  /\ UNCHANGED <<money, month, adrift>>

Reflects(w) ==
  /\ worker[w].pc = "reflecting" /\ worker' = [worker EXCEPT ![w] = Unasked]
  /\ \/ \E c \in Costs : Track("mission", c) /\ unguarded' = unguarded + c
     \/ UNCHANGED money
  /\ UNCHANGED <<month, adrift>>

-----------------------------------------------------------------------------
\* The files of the new month are empty; the totals in memory go on.
MonthChanges ==
  /\ month < MaxMonths /\ month' = month + 1
  /\ ledger' = [mission |-> 0, other |-> 0] /\ adrift' = TRUE
  /\ UNCHANGED <<memo, project, owed, said, noted, unguarded, worker>>

\* Slip: the guard starts from nothing.
SeedsNothing == memo' = 0 /\ project' = 0
\* _seed_from_history
Seeds == memo' = Total(ledger) /\ project' = ledger.mission

\* It stops at what it cannot read, and the service starts all the same.
SeedsInPart ==
  /\ memo' = 0 /\ project' \in 0..ledger.mission
  /\ unguarded' = unguarded + (ledger.mission - project') /\ unguarded' <= MaxSpent

SpendingRestart ==
  /\ \/ Seeds /\ adrift' = FALSE /\ UNCHANGED unguarded
     \/ SeedsInPart /\ adrift' = TRUE
  /\ owed' = <<>> /\ said' = <<>> /\ noted' = FALSE
  /\ worker' = [w \in Workers |-> Unasked]
  /\ UNCHANGED <<ledger, month>>

SpendingNext ==
  \/ Note \/ Converse \/ MonthChanges
  \/ \E w \in Workers : AsksForTheMonth(w) \/ AsksForTheMission(w) \/ Works(w) \/ Leaves(w)
                       \/ Concludes(w) \/ Reflects(w)
==============================================================================
