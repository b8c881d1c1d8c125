-------------------------- MODULE InitiativesProofs --------------------------
(***************************************************************************)
(* For every set of initiatives and of concurrent requests: the store is   *)
(* well typed, a decision acts at most once, and what was refused or       *)
(* expired never acts; what was mailed was reviewed, what is in progress   *)
(* is accounted for; and where confirms are serialised and the process     *)
(* does not restart, the store implements DecisionPromise.                 *)
(***************************************************************************)
EXTENDS Initiatives, TLAPS

(***************************************************************************)
(* The inductive invariant.  ActsOncePerDecision alone is not preserved:   *)
(* it says nothing of the coroutines that are about to act.  Each          *)
(* coroutine was born at a await point its operation really has            *)
(* (WellFormed); nothing acts for an initiative that still waits           *)
(* (WaitingIsInert); at most one coroutine came from the step that took    *)
(* the initiative out of pending, and it still owes what it has not done   *)
(* (OneDecider); and an approved e-mail excludes every confirm             *)
(* (ApproveExcludesConfirm).                                               *)
(***************************************************************************)
On(r, i) == req[r].id = i
Acting(r) == req[r].op \in {"approve", "run", "confirm"}
Deciding(r) == req[r].op \in {"approve", "run"}

WellFormed ==
  \A r \in Reqs :
    /\ req[r].pc = "idle" => req[r].op = "none"
    /\ req[r].pc = "rectifying" => req[r].op = "rectify"
    /\ req[r].pc = "reserving" => req[r].op = "run"
    /\ req[r].pc = "launching" => req[r].op \in {"approve", "run"}
    /\ req[r].pc \in {"sending", "accepted"} => req[r].op \in {"approve", "confirm"}
    /\ req[r].pc # "idle" => req[r].id \in Ids
    /\ req[r].pc \in {"sending", "accepted"} => req[r].text \in Texts
    /\ req[r].op = "none" => req[r].id = NoId

NoEffect(i) == approveMails[i] = 0 /\ confirmMails[i] = 0 /\ launches[i] = 0

WaitingIsInert ==
  \A i \in Ids : status[i] \in {"absent", "pending"} \cup Settled =>
    /\ NoEffect(i)
    /\ \A r \in Reqs : On(r, i) => ~Acting(r)

OneDecider ==
  \A i \in Ids :
    /\ \A r, s \in Reqs : On(r, i) /\ On(s, i) /\ Deciding(r) /\ Deciding(s) => r = s
    /\ \A r \in Reqs : On(r, i) /\ Deciding(r) =>
         /\ launches[i] = 0
         /\ req[r].pc = "accepted" \/ approveMails[i] = 0
    /\ approveMails[i] <= 1 /\ launches[i] <= 1

ApproveExcludesConfirm ==
  \A i \in Ids :
    (approveMails[i] > 0 \/ \E r \in Reqs : On(r, i) /\ req[r].op = "approve") =>
      /\ confirmMails[i] = 0
      /\ status[i] # "awaiting_confirm"
      /\ \A r \in Reqs : On(r, i) => req[r].op # "confirm"

Inv == TypeOK /\ WellFormed /\ WaitingIsInert /\ OneDecider /\ ApproveExcludesConfirm

-----------------------------------------------------------------------------
(* update_status writes at most one status, and only of a saved initiative. *)
LEMMA WithStatusFact ==
  ASSUME status \in [Ids -> Statuses \cup {"absent"}], NEW i, NEW s \in Statuses
  PROVE  /\ WithStatus(i, s) \in [Ids -> Statuses \cup {"absent"}]
         /\ \A j \in Ids : j # i => WithStatus(i, s)[j] = status[j]
         /\ i \in Ids => WithStatus(i, s)[i] \in {status[i], s}
         /\ i \in Ids /\ status[i] = "absent" => WithStatus(i, s)[i] = "absent"
  BY DEF WithStatus, Visible

LEMMA InitInv == Init => Inv
  <1> SUFFICES ASSUME Init PROVE Inv
    OBVIOUS
  <1> USE DEF Init
  <1>1. TypeOK
    <2>1. Idle \in Request
      BY DEF Idle, Request, Pcs, Ops
    <2> QED
      BY <2>1, ConstantsAssumption, 0 \in 0..ScanWindow, 0 \in 0..MaxSkipped,
         0 \in 0..MaxRestarts DEF TypeOK, Modes, Request
  <1>2. WellFormed
    BY DEF WellFormed, Idle
  <1>3. WaitingIsInert
    BY ConstantsAssumption DEF WaitingIsInert, NoEffect, On, Acting, Idle
  <1>4. OneDecider /\ ApproveExcludesConfirm
    BY ConstantsAssumption DEF OneDecider, ApproveExcludesConfirm, On, Deciding, Idle
  <1> QED
    BY <1>1, <1>2, <1>3, <1>4 DEF Inv

(* The store, the settings and every coroutine keep their types. *)
LEMMA TypeStep == TypeOK /\ WellFormed /\ [Next]_vars => TypeOK'
  <1> SUFFICES ASSUME TypeOK, WellFormed, [Next]_vars PROVE TypeOK'
    OBVIOUS
  <1> USE ConstantsAssumption DEF TypeOK
  <1>0. Idle \in Request /\ \A p \in Pcs, o \in Ops, i \in Ids, t \in Texts \cup {NoText} :
          [pc |-> p, op |-> o, id |-> i, text |-> t] \in Request
    BY DEF Idle, Request, Pcs, Ops
  <1>1. \A s \in Statuses : \A i : WithStatus(i, s) \in [Ids -> Statuses \cup {"absent"}]
    BY WithStatusFact
  <1>2. {"in_progress", "awaiting_confirm", "approved", "rejected", "dismissed", "done",
         "failed", "expired", "pending"} \subseteq Statuses
    BY DEF Statuses
  <1>3. \A r \in Reqs : req[r].pc # "idle" => req[r].id \in Ids
    BY DEF WellFormed
  <1>a. ASSUME NEW i \in Ids, Save(i) PROVE TypeOK'
    BY <1>a, <1>2 DEF Save, calendar, effects
  <1>b. ASSUME NEW i \in Ids, Reject(i) PROVE TypeOK'
    BY <1>b, <1>1, <1>2 DEF Reject, calendar, effects
  <1>c. ASSUME NEW i \in Ids, Dismiss(i) PROVE TypeOK'
    BY <1>c, <1>1, <1>2 DEF Dismiss, calendar, effects
  <1>d. ASSUME NEW i \in Ids, NEW v \in {"approved", "rejected"}, ToolDecides(i, v) PROVE TypeOK'
    BY <1>d, <1>1, <1>2 DEF ToolDecides, calendar, effects
  <1>e. ASSUME NEW r \in Reqs, NEW i \in Ids, NEW d \in Doors, Approve(r, i, d) PROVE TypeOK'
    <2>1. status' \in [Ids -> Statuses \cup {"absent"}]
      BY <1>e, <1>1, <1>2 DEF Approve
    <2>2. text[i] \in Texts \cup {NoText}
      OBVIOUS
    <2>3. req' \in [Reqs -> Request]
      <3>1. CASE Suspend(r, "sending", "approve", i, text[i])
        BY <3>1, <2>2, <1>0 DEF Suspend, Pcs, Ops
      <3>2. CASE Suspend(r, "launching", "approve", i, NoText)
        BY <3>2, <1>0 DEF Suspend, Pcs, Ops
      <3> QED
        BY <3>1, <3>2, <1>e DEF Approve
    <2> QED
      BY <1>e, <2>1, <2>3 DEF Approve, calendar, effects
  <1>f. ASSUME NEW r \in Reqs, NEW i \in Ids, Run(r, i) PROVE TypeOK'
    <2>1. status' \in [Ids -> Statuses \cup {"absent"}]
      BY <1>f, <1>1, <1>2 DEF Run
    <2>2. req' \in [Reqs -> Request]
      <3>1. CASE Suspend(r, "reserving", "run", i, NoText)
        BY <3>1, <1>0 DEF Suspend, Pcs, Ops
      <3> QED
        BY <3>1, <1>f DEF Run
    <2>3. reviewed' \in [Ids -> SUBSET Texts]
      BY <1>f DEF Run
    <2> QED
      BY <1>f, <2>1, <2>2, <2>3 DEF Run, calendar, effects
  <1>g. ASSUME NEW r \in Reqs, NEW i \in Ids, RectifyStarts(r, i) PROVE TypeOK'
    BY <1>g, <1>0 DEF RectifyStarts, Suspend, store, calendar, effects, Pcs, Ops
  <1>h. ASSUME NEW r \in Reqs, NEW i \in Ids, NEW t \in Texts \cup {NoText}, Confirm(r, i, t)
        PROVE TypeOK'
    <2>1. text' \in [Ids -> Texts] /\ reviewed' \in [Ids -> SUBSET Texts]
      BY <1>h DEF Confirm
    <2>2. status' \in [Ids -> Statuses \cup {"absent"}]
      BY <1>h, <1>1, <1>2 DEF Confirm
    <2>3. req' \in [Reqs -> Request]
      <3>1. CASE Suspend(r, "sending", "confirm", i, text'[i])
        BY <3>1, <2>1, <1>0 DEF Suspend, Pcs, Ops
      <3> QED
        BY <3>1, <1>h DEF Confirm
    <2> QED
      BY <1>h, <2>1, <2>2, <2>3 DEF Confirm, calendar, effects
  <1>i. ASSUME NEW r \in Reqs, BudgetAnswers(r) PROVE TypeOK'
    <2>1. status' \in [Ids -> Statuses \cup {"absent"}]
      BY <1>i, <1>1, <1>2 DEF BudgetAnswers
    <2>2. req[r].id \in Ids
      BY <1>i, <1>3 DEF BudgetAnswers
    <2>3. req' \in [Reqs -> Request]
      <3>1. CASE Suspend(r, "launching", "run", req[r].id, NoText)
        BY <3>1, <2>2, <1>0 DEF Suspend, Pcs, Ops
      <3>2. CASE Finish(r)
        BY <3>2, <1>0 DEF Finish
      <3> QED
        BY <3>1, <3>2, <1>i DEF BudgetAnswers
    <2> QED
      BY <1>i, <2>1, <2>3 DEF BudgetAnswers, calendar, effects
  <1>j. ASSUME NEW r \in Reqs, LaunchSucceeds(r) PROVE TypeOK'
    BY <1>j, <1>0, <1>1, <1>2, <1>3 DEF LaunchSucceeds, Finish, calendar
  <1>k. ASSUME NEW r \in Reqs, LaunchFails(r) PROVE TypeOK'
    BY <1>k, <1>0, <1>1, <1>2, <1>3 DEF LaunchFails, Finish, calendar, effects
  <1>l. ASSUME NEW r \in Reqs, GmailAccepts(r) PROVE TypeOK'
    <2>1. req' \in [Reqs -> Request]
      BY <1>l DEF GmailAccepts, Request, Pcs
    <2>2. mailed' \in [Ids -> SUBSET Texts]
      <3>1. req[r].id \in Ids
        BY <1>l, <1>3 DEF GmailAccepts
      <3>2. CASE mailed' = [mailed EXCEPT ![req[r].id] = @ \cup {req[r].text}]
        <4>1. req[r].text \in Texts
          BY <1>l DEF GmailAccepts, WellFormed
        <4> QED
          BY <3>1, <3>2, <4>1
      <3> QED
        BY <3>1, <3>2, <1>l DEF GmailAccepts
    <2>3. approveMails' \in [Ids -> Nat] /\ confirmMails' \in [Ids -> Nat]
      BY <1>l DEF GmailAccepts
    <2> QED
      BY <1>l, <2>1, <2>2, <2>3 DEF GmailAccepts, store, calendar
  <1>m. ASSUME NEW r \in Reqs, NEW o \in {"sent", "error", "no_tool"}, SendReturns(r, o) PROVE TypeOK'
    BY <1>m, <1>0, <1>1, <1>2, <1>3 DEF SendReturns, Finish, calendar, effects
  <1>n. ASSUME NEW r \in Reqs, NEW t \in Texts, RectifyReturns(r, t) PROVE TypeOK'
    BY <1>n, <1>0, <1>3 DEF RectifyReturns, Finish, calendar, effects
  <1>o. ASSUME NEW r \in Reqs, RectifyFails(r) PROVE TypeOK'
    BY <1>o, <1>0 DEF RectifyFails, Finish, store, calendar, effects
  <1>p. ASSUME NEW m \in Modes, SetEmailMode(m) PROVE TypeOK'
    BY <1>p DEF SetEmailMode, store, calendar, effects
  <1>q. CASE NightlyExpiry
    BY <1>q, <1>2 DEF NightlyExpiry, effects
  <1>r. CASE NewDay
    <2>1. age' \in [Ids -> 0..ScanWindow]
      BY <1>r DEF NewDay
    <2>2. skipped' \in 0..MaxSkipped
      BY <1>r DEF NewDay
    <2> QED
      BY <1>r, <2>1, <2>2 DEF NewDay, effects
  <1>s. CASE Restart
    BY <1>s, <1>0 DEF Restart, store, calendar, effects
  <1>t. CASE UNCHANGED vars
    BY <1>t DEF vars, store, calendar, effects
  <1> QED
    BY <1>a, <1>b, <1>c, <1>d, <1>e, <1>f, <1>g, <1>h, <1>i, <1>j, <1>k, <1>l, <1>m, <1>n,
       <1>o, <1>p, <1>q, <1>r, <1>s, <1>t DEF Next, Resume
-----------------------------------------------------------------------------
(* Steps that neither suspend nor resume a coroutine and have no effect:     *)
(* they may move the status of initiatives, never to one that waits, never   *)
(* to awaiting_confirm, and to a settled one only from pending.              *)
QuietMove ==
  /\ UNCHANGED <<req, approveMails, confirmMails, launches>>
  /\ \A i \in Ids : status'[i] # status[i] =>
       \/ status'[i] \notin {"absent", "pending", "awaiting_confirm"} \cup Settled
       \/ status[i] \in {"absent", "pending"} /\ status'[i] # "awaiting_confirm"

LEMMA QuietInv ==
  ASSUME Inv, QuietMove
  PROVE  WellFormed' /\ WaitingIsInert' /\ OneDecider' /\ ApproveExcludesConfirm'
  <1> USE DEF Inv, QuietMove
  <1>1. WellFormed'
    BY DEF WellFormed
  <1>2. WaitingIsInert'
    BY DEF WaitingIsInert, NoEffect, On, Acting
  <1>3. OneDecider'
    BY DEF OneDecider, On, Deciding
  <1>4. ApproveExcludesConfirm'
    <2>1. \A i \in Ids : status[i] \in {"absent", "pending"} => NoEffect(i)
      BY DEF WaitingIsInert
    <2> QED
      BY <2>1 DEF ApproveExcludesConfirm, On
  <1> QED
    BY <1>1, <1>2, <1>3, <1>4

(* A coroutine that ends and writes done, failed or in_progress, with at     *)
(* most the mission it launched.                                             *)
Ends(r) ==
  /\ req' = [req EXCEPT ![r] = Idle]
  /\ UNCHANGED <<approveMails, confirmMails>>
  /\ \/ UNCHANGED launches
     \/ /\ req[r].pc = "launching"
        /\ launches' = [launches EXCEPT ![req[r].id] = @ + 1]
  /\ \A i \in Ids : status'[i] # status[i] =>
       /\ Acting(r) /\ On(r, i)
       /\ status'[i] \in {"done", "failed", "in_progress"}

LEMMA EndsInv ==
  ASSUME Inv, NEW r \in Reqs, Ends(r), req[r].pc # "idle"
  PROVE  WellFormed' /\ WaitingIsInert' /\ OneDecider' /\ ApproveExcludesConfirm'
  <1> USE DEF Inv, Ends
  <1>1. /\ req' \in [Reqs -> Request] /\ req'[r] = Idle
        /\ \A s \in Reqs : s # r => req'[s] = req[s]
    BY DEF TypeOK, Idle, Request, Pcs, Ops
  <1>2. Idle.pc = "idle" /\ Idle.op = "none" /\ Idle.id = NoId /\ NoId \notin Ids
    BY ConstantsAssumption DEF Idle
  <1>3. req[r].id \in Ids
    BY DEF WellFormed
  <1>4. \A i \in Ids : On(r, i) /\ req[r].pc = "launching" => launches'[i] \in {0, 1}
    BY DEF OneDecider, WellFormed, Deciding, On, TypeOK
  <1>5. \A i \in Ids : launches'[i] # launches[i] => On(r, i) /\ req[r].pc = "launching"
    BY DEF On, TypeOK
  <1>6. WellFormed'
    BY <1>1, <1>2 DEF WellFormed
  <1>7. WaitingIsInert'
    <2> SUFFICES ASSUME NEW i \in Ids, status'[i] \in {"absent", "pending"} \cup Settled
                 PROVE  NoEffect(i)' /\ \A s \in Reqs : On(s, i)' => ~Acting(s)'
      BY DEF WaitingIsInert
    <2>1. status'[i] = status[i]
      BY DEF Settled
    <2>2. NoEffect(i) /\ \A s \in Reqs : On(s, i) => ~Acting(s)
      BY <2>1 DEF WaitingIsInert
    <2>3. launches'[i] = launches[i]
      BY <2>2, <1>5 DEF WellFormed, Acting
    <2> QED
      BY <2>2, <2>3, <1>1, <1>2 DEF NoEffect, On, Acting
  <1>8. OneDecider'
    <2> SUFFICES ASSUME NEW i \in Ids
                 PROVE  /\ \A s, u \in Reqs : (On(s, i) /\ On(u, i) /\ Deciding(s) /\ Deciding(u))' => s = u
                        /\ \A s \in Reqs : (On(s, i) /\ Deciding(s))' =>
                             launches'[i] = 0 /\ (req'[s].pc = "accepted" \/ approveMails'[i] = 0)
                        /\ approveMails'[i] <= 1 /\ launches'[i] <= 1
      BY DEF OneDecider
    <2>1. \A s \in Reqs : (On(s, i) /\ Deciding(s))' => s # r /\ On(s, i) /\ Deciding(s)
      BY <1>1, <1>2 DEF On, Deciding
    <2>2. \A s \in Reqs : (On(s, i) /\ Deciding(s))' => launches'[i] = launches[i]
      BY <2>1, <1>5 DEF OneDecider, WellFormed, Deciding
    <2>3. launches'[i] <= 1
      BY <1>4, <1>5 DEF OneDecider
    <2> QED
      BY <2>1, <2>2, <2>3, <1>1 DEF OneDecider
  <1>9. ApproveExcludesConfirm'
    BY <1>1, <1>2 DEF ApproveExcludesConfirm, On
  <1> QED
    BY <1>6, <1>7, <1>8, <1>9

(* A coroutine that the deciding step suspends: the initiative was waiting,  *)
(* so nothing had acted or was about to act for it.                          *)
Decides(r, i, pc, op) ==
  /\ status[i] = "pending"
  /\ req[r].pc = "idle"
  /\ \E t \in Texts \cup {NoText} :
       /\ pc = "sending" => t \in Texts
       /\ req' = [req EXCEPT ![r] = [pc |-> pc, op |-> op, id |-> i, text |-> t]]
  /\ status'[i] \in {"approved", "in_progress"}
  /\ \A j \in Ids : j # i => status'[j] = status[j]
  /\ UNCHANGED <<approveMails, confirmMails, launches>>

LEMMA DecidesInv ==
  ASSUME Inv, NEW r \in Reqs, NEW i \in Ids, NEW pc, NEW op, Decides(r, i, pc, op),
         \/ pc \in {"sending", "launching"} /\ op = "approve"
         \/ pc = "reserving" /\ op = "run"
  PROVE  WellFormed' /\ WaitingIsInert' /\ OneDecider' /\ ApproveExcludesConfirm'
  <1> USE DEF Inv, Decides
  <1>1. /\ req'[r].pc = pc /\ req'[r].op = op /\ req'[r].id = i
        /\ pc = "sending" => req'[r].text \in Texts
        /\ \A s \in Reqs : s # r => req'[s] = req[s]
    BY DEF TypeOK
  <1>2. NoEffect(i) /\ \A s \in Reqs : On(s, i) => ~Acting(s)
    BY DEF WaitingIsInert
  <1>3. ~On(r, i) /\ req[r].id = NoId /\ req[r].op = "none"
    BY ConstantsAssumption DEF WellFormed, On
  <1>4. WellFormed'
    BY <1>1, ConstantsAssumption DEF WellFormed
  <1>5. WaitingIsInert'
    <2> SUFFICES ASSUME NEW j \in Ids, status'[j] \in {"absent", "pending"} \cup Settled
                 PROVE  NoEffect(j)' /\ \A s \in Reqs : On(s, j)' => ~Acting(s)'
      BY DEF WaitingIsInert
    <2>1. j # i /\ status'[j] = status[j]
      BY DEF Settled
    <2> QED
      BY <2>1, <1>1 DEF WaitingIsInert, NoEffect, On, Acting
  <1>6. OneDecider'
    <2>1. \A j \in Ids, s \in Reqs : On(s, j)' /\ Deciding(s)' =>
            IF j = i THEN s = r ELSE s # r /\ On(s, j) /\ Deciding(s)
      BY <1>1, <1>2 DEF On, Deciding, Acting
    <2> QED
      BY <2>1, <1>1, <1>2 DEF OneDecider, NoEffect
  <1>7. ApproveExcludesConfirm'
    <2> SUFFICES ASSUME NEW j \in Ids,
                        approveMails[j] > 0 \/ \E s \in Reqs : (On(s, j) /\ req[s].op = "approve")'
                 PROVE  confirmMails[j] = 0 /\ status'[j] # "awaiting_confirm"
                        /\ \A s \in Reqs : On(s, j)' => req'[s].op # "confirm"
      BY DEF ApproveExcludesConfirm
    <2>1. CASE j = i
      BY <2>1, <1>1, <1>2 DEF NoEffect, On, Acting
    <2>2. CASE j # i
      BY <2>2, <1>1 DEF ApproveExcludesConfirm, On
    <2> QED
      BY <2>1, <2>2
  <1> QED
    BY <1>4, <1>5, <1>6, <1>7

(* A coroutine that rectifies, or that confirms an initiative awaiting it,   *)
(* is suspended.                                                             *)
Joins(r, i, pc, op) ==
  /\ req[r].pc = "idle"
  /\ \E t \in Texts \cup {NoText} :
       /\ pc = "sending" => t \in Texts
       /\ req' = [req EXCEPT ![r] = [pc |-> pc, op |-> op, id |-> i, text |-> t]]
  /\ UNCHANGED <<status, approveMails, confirmMails, launches>>

LEMMA JoinsInv ==
  ASSUME Inv, NEW r \in Reqs, NEW i \in Ids, NEW pc, NEW op, Joins(r, i, pc, op),
         \/ pc = "rectifying" /\ op = "rectify"
         \/ pc = "sending" /\ op = "confirm" /\ status[i] = "awaiting_confirm"
  PROVE  WellFormed' /\ WaitingIsInert' /\ OneDecider' /\ ApproveExcludesConfirm'
  <1> USE DEF Inv, Joins
  <1>1. /\ req'[r].pc = pc /\ req'[r].op = op /\ req'[r].id = i
        /\ pc = "sending" => req'[r].text \in Texts
        /\ \A s \in Reqs : s # r => req'[s] = req[s]
    BY DEF TypeOK
  <1>2. WellFormed'
    BY <1>1, ConstantsAssumption DEF WellFormed
  <1>3. WaitingIsInert'
    BY <1>1 DEF WaitingIsInert, NoEffect, On, Acting, Settled
  <1>4. OneDecider'
    <2>1. \A j \in Ids, s \in Reqs : On(s, j)' /\ Deciding(s)' =>
            s # r /\ On(s, j) /\ Deciding(s)
      BY <1>1 DEF On, Deciding
    <2> QED
      BY <2>1, <1>1 DEF OneDecider
  <1>5. ApproveExcludesConfirm'
    BY <1>1 DEF ApproveExcludesConfirm, On
  <1> QED
    BY <1>2, <1>3, <1>4, <1>5

(* Gmail accepts a message: it counts for the operation that sent it.        *)
LEMMA GmailInv ==
  ASSUME Inv, NEW r \in Reqs, GmailAccepts(r)
  PROVE  WellFormed' /\ WaitingIsInert' /\ OneDecider' /\ ApproveExcludesConfirm'
  <1> USE DEF Inv
  <1> DEFINE k == req[r].id
  <1>1. /\ req[r].pc = "sending" /\ k \in Ids /\ req[r].op \in {"approve", "confirm"}
        /\ req'[r].pc = "accepted" /\ req'[r].op = req[r].op /\ req'[r].id = k
        /\ req'[r].text = req[r].text
        /\ \A s \in Reqs : s # r => req'[s] = req[s]
    BY DEF GmailAccepts, WellFormed, TypeOK, Request
  <1>2. UNCHANGED <<status, launches>>
    BY DEF GmailAccepts, store
  <1>3. \A j \in Ids : j # k => approveMails'[j] = approveMails[j] /\ confirmMails'[j] = confirmMails[j]
    BY DEF GmailAccepts, TypeOK
  <1>4. CASE req[r].op = "approve"
    <2>1. approveMails[k] = 0 /\ approveMails'[k] = 1 /\ UNCHANGED confirmMails
      BY <1>1, <1>4 DEF GmailAccepts, OneDecider, On, Deciding, TypeOK
    <2>2. WellFormed'
      BY <1>1 DEF WellFormed
    <2>3. WaitingIsInert'
      BY <1>1, <1>2, <1>3, <1>4 DEF WaitingIsInert, NoEffect, On, Acting
    <2>4. OneDecider'
      BY <1>1, <1>2, <1>3, <1>4, <2>1 DEF OneDecider, On, Deciding
    <2>5. ApproveExcludesConfirm'
      BY <1>1, <1>2, <1>3, <1>4, <2>1 DEF ApproveExcludesConfirm, On
    <2> QED
      BY <2>2, <2>3, <2>4, <2>5
  <1>5. CASE req[r].op = "confirm"
    <2>1. UNCHANGED approveMails
      BY <1>5 DEF GmailAccepts
    <2>2. WellFormed'
      BY <1>1 DEF WellFormed
    <2>3. WaitingIsInert'
      BY <1>1, <1>2, <1>3, <1>5 DEF WaitingIsInert, NoEffect, On, Acting
    <2>4. OneDecider'
      BY <1>1, <1>2, <1>5, <2>1 DEF OneDecider, On, Deciding
    <2>5. ApproveExcludesConfirm'
      BY <1>1, <1>2, <1>3, <1>5, <2>1 DEF ApproveExcludesConfirm, On
    <2> QED
      BY <2>2, <2>3, <2>4, <2>5
  <1> QED
    BY <1>1, <1>4, <1>5

(* run hands the draft over and waits for the confirmation.                  *)
LEMMA RunDraftInv ==
  ASSUME Inv, NEW i \in Ids, status[i] = "pending",
         status' = [status EXCEPT ![i] = "awaiting_confirm"],
         UNCHANGED <<req, approveMails, confirmMails, launches>>
  PROVE  WellFormed' /\ WaitingIsInert' /\ OneDecider' /\ ApproveExcludesConfirm'
  <1> USE DEF Inv
  <1>1. \A j \in Ids : status'[j] = IF j = i THEN "awaiting_confirm" ELSE status[j]
    BY DEF TypeOK
  <1>2. NoEffect(i) /\ \A s \in Reqs : On(s, i) => ~Acting(s)
    BY DEF WaitingIsInert
  <1>3. WellFormed'
    BY DEF WellFormed
  <1>4. WaitingIsInert'
    BY <1>1 DEF WaitingIsInert, NoEffect, On, Acting, Settled
  <1>5. OneDecider'
    BY DEF OneDecider, On, Deciding
  <1>6. ApproveExcludesConfirm'
    BY <1>1, <1>2 DEF ApproveExcludesConfirm, NoEffect, On, Acting, TypeOK
  <1> QED
    BY <1>3, <1>4, <1>5, <1>6

(* A restart forgets every coroutine and no effect.                          *)
LEMMA RestartInv ==
  ASSUME Inv, Restart
  PROVE  WellFormed' /\ WaitingIsInert' /\ OneDecider' /\ ApproveExcludesConfirm'
  <1> USE DEF Inv, Restart, store, effects
  <1>1. \A r \in Reqs : req'[r].pc = "idle" /\ req'[r].op = "none" /\ req'[r].id = NoId
    BY DEF Idle
  <1>2. WellFormed'
    BY <1>1 DEF WellFormed
  <1>3. WaitingIsInert' /\ OneDecider' /\ ApproveExcludesConfirm'
    BY <1>1, ConstantsAssumption DEF WaitingIsInert, OneDecider, ApproveExcludesConfirm,
       NoEffect, On, Acting, Deciding
  <1> QED
    BY <1>2, <1>3

-----------------------------------------------------------------------------
LEMMA StepInv == Inv /\ [Next]_vars => Inv'
  <1> SUFFICES ASSUME Inv, [Next]_vars PROVE Inv'
    OBVIOUS
  <1> DEFINE Core == WellFormed /\ WaitingIsInert /\ OneDecider /\ ApproveExcludesConfirm
  <1>0. TypeOK'
    BY TypeStep DEF Inv
  <1> SUFFICES Core'
    BY <1>0 DEF Inv
  <1>1. \A i \in Ids : \A s : WithStatus(i, s) = IF Visible(i) THEN [status EXCEPT ![i] = s] ELSE status
    BY DEF WithStatus
  <1>2. \A i \in Ids : \A s : \A j \in Ids :
          WithStatus(i, s)[j] # status[j] => j = i /\ WithStatus(i, s)[j] = s /\ status[i] # "absent"
    BY <1>1 DEF Inv, TypeOK, Visible
  <1>3. \A r \in Reqs : req[r].pc # "idle" => req[r].id \in Ids
    BY DEF Inv, WellFormed
  <1>a. ASSUME NEW i \in Ids, Save(i) PROVE Core'
    <2>1. QuietMove
      BY <1>a DEF Save, QuietMove, Inv, TypeOK, effects
    <2> QED
      BY <2>1, QuietInv
  <1>b. ASSUME NEW i \in Ids, Reject(i) PROVE Core'
    <2>1. QuietMove
      BY <1>b, <1>2 DEF Reject, Decidable, QuietMove, effects
    <2> QED
      BY <2>1, QuietInv
  <1>c. ASSUME NEW i \in Ids, Dismiss(i) PROVE Core'
    <2>1. QuietMove
      BY <1>c, <1>2 DEF Dismiss, QuietMove, Settled, effects
    <2> QED
      BY <2>1, QuietInv
  <1>d. ASSUME NEW i \in Ids, NEW v \in {"approved", "rejected"}, ToolDecides(i, v) PROVE Core'
    <2>1. QuietMove
      BY <1>d, <1>2 DEF ToolDecides, Decidable, QuietMove, effects
    <2> QED
      BY <2>1, QuietInv
  <1>e. ASSUME NEW r \in Reqs, NEW i \in Ids, NEW d \in Doors, Approve(r, i, d) PROVE Core'
    <2>1. /\ status[i] = "pending" /\ req[r].pc = "idle"
          /\ status' = [status EXCEPT ![i] = "approved"]
          /\ UNCHANGED <<approveMails, confirmMails, launches>>
      BY <1>e, <1>1 DEF Approve, Decidable, effects
    <2>2. status'[i] = "approved" /\ \A j \in Ids : j # i => status'[j] = status[j]
      BY <2>1 DEF Inv, TypeOK
    <2>3. CASE Suspend(r, "sending", "approve", i, text[i])
      <3>1. text[i] \in Texts
        BY DEF Inv, TypeOK
      <3>2. Decides(r, i, "sending", "approve")
        BY <2>1, <2>2, <2>3, <3>1 DEF Decides, Suspend
      <3> QED
        BY <3>2, DecidesInv
    <2>4. CASE Suspend(r, "launching", "approve", i, NoText)
      <3>1. Decides(r, i, "launching", "approve")
        BY <2>1, <2>2, <2>4 DEF Decides, Suspend
      <3> QED
        BY <3>1, DecidesInv
    <2>5. CASE UNCHANGED req
      <3>1. QuietMove
        BY <2>1, <2>2, <2>5 DEF QuietMove, Settled
      <3> QED
        BY <3>1, QuietInv
    <2> QED
      BY <1>e, <2>3, <2>4, <2>5 DEF Approve
  <1>f. ASSUME NEW r \in Reqs, NEW i \in Ids, Run(r, i) PROVE Core'
    <2>1. /\ status[i] = "pending" /\ req[r].pc = "idle" /\ Visible(i)
          /\ UNCHANGED <<approveMails, confirmMails, launches>>
      BY <1>f DEF Run, Decidable, effects
    <2>2. CASE TypeOf[i] = "draft_response"
      <3>1. status' = [status EXCEPT ![i] = "awaiting_confirm"] /\ UNCHANGED req
        BY <1>f, <2>1, <2>2, <1>1 DEF Run
      <3> QED
        BY <3>1, <2>1, RunDraftInv
    <2>3. CASE TypeOf[i] = "auto_task"
      <3>1. status' = [status EXCEPT ![i] = "in_progress"]
            /\ Suspend(r, "reserving", "run", i, NoText)
        BY <1>f, <2>1, <2>3, <1>1 DEF Run
      <3>2. Decides(r, i, "reserving", "run")
        BY <3>1, <2>1 DEF Decides, Suspend, Inv, TypeOK
      <3> QED
        BY <3>2, DecidesInv
    <2>4. CASE TypeOf[i] = "info"
      <3>1. QuietMove
        BY <1>f, <2>1, <2>4, <1>2 DEF Run, QuietMove, Settled
      <3> QED
        BY <3>1, QuietInv
    <2> QED
      BY <1>f, <2>2, <2>3, <2>4 DEF Run
  <1>g. ASSUME NEW r \in Reqs, NEW i \in Ids, RectifyStarts(r, i) PROVE Core'
    <2>1. Joins(r, i, "rectifying", "rectify")
      BY <1>g DEF RectifyStarts, Joins, Suspend, store, effects
    <2> QED
      BY <2>1, JoinsInv
  <1>h. ASSUME NEW r \in Reqs, NEW i \in Ids, NEW t \in Texts \cup {NoText}, Confirm(r, i, t)
        PROVE Core'
    <2>1. /\ status[i] = "awaiting_confirm" /\ req[r].pc = "idle"
          /\ UNCHANGED <<approveMails, confirmMails, launches>>
      BY <1>h DEF Confirm, effects
    <2>2. CASE emailMode = "never"
      <3>1. QuietMove
        BY <1>h, <2>1, <2>2, <1>2 DEF Confirm, QuietMove, Settled
      <3> QED
        BY <3>1, QuietInv
    <2>3. CASE emailMode # "never"
      <3>1. text'[i] \in Texts
        BY <1>0 DEF TypeOK
      <3>2. Suspend(r, "sending", "confirm", i, text'[i]) /\ UNCHANGED status
        BY <1>h, <2>3 DEF Confirm
      <3>3. Joins(r, i, "sending", "confirm")
        BY <3>1, <3>2, <2>1 DEF Joins, Suspend
      <3> QED
        BY <3>3, <2>1, JoinsInv
    <2> QED
      BY <2>2, <2>3
  <1>i. ASSUME NEW r \in Reqs, BudgetAnswers(r) PROVE Core'
    <2>1. /\ req[r].pc = "reserving" /\ req[r].op = "run" /\ req[r].id \in Ids
          /\ UNCHANGED <<approveMails, confirmMails, launches>>
      BY <1>i DEF BudgetAnswers, effects, Inv, WellFormed
    <2>2. CASE Finish(r) /\ status' = WithStatus(req[r].id, "failed")
      <3>1. Ends(r)
        BY <2>1, <2>2, <1>2 DEF Ends, Finish, Acting, On
      <3> QED
        BY <3>1, <2>1, EndsInv
    <2>3. CASE Suspend(r, "launching", "run", req[r].id, NoText) /\ UNCHANGED status
      <3> USE DEF Inv
      <3>1. /\ req'[r].pc = "launching" /\ req'[r].op = "run" /\ req'[r].id = req[r].id
            /\ \A s \in Reqs : s # r => req'[s] = req[s]
        BY <2>3 DEF Suspend, TypeOK
      <3>2. WellFormed'
        BY <3>1, <2>1 DEF WellFormed
      <3>3. WaitingIsInert'
        BY <3>1, <2>1, <2>3 DEF WaitingIsInert, NoEffect, On, Acting
      <3>4. OneDecider'
        BY <3>1, <2>1, <2>3 DEF OneDecider, On, Deciding
      <3>5. ApproveExcludesConfirm'
        BY <3>1, <2>1, <2>3 DEF ApproveExcludesConfirm, On
      <3> QED
        BY <3>2, <3>3, <3>4, <3>5
    <2> QED
      BY <1>i, <2>2, <2>3 DEF BudgetAnswers
  <1>j. ASSUME NEW r \in Reqs, LaunchSucceeds(r) PROVE Core'
    <2>1. Ends(r) /\ req[r].pc # "idle"
      BY <1>j, <1>2, <1>3 DEF LaunchSucceeds, Ends, Finish, Acting, On
    <2> QED
      BY <2>1, EndsInv
  <1>k. ASSUME NEW r \in Reqs, LaunchFails(r) PROVE Core'
    <2>1. Ends(r) /\ req[r].pc # "idle"
      BY <1>k, <1>2, <1>3 DEF LaunchFails, Ends, Finish, Acting, On, effects
    <2> QED
      BY <2>1, EndsInv
  <1>l. ASSUME NEW r \in Reqs, GmailAccepts(r) PROVE Core'
    BY <1>l, GmailInv
  <1>m. ASSUME NEW r \in Reqs, NEW o \in {"sent", "error", "no_tool"}, SendReturns(r, o) PROVE Core'
    <2>1. req[r].pc \in {"sending", "accepted"} /\ req[r].op \in {"approve", "confirm"}
      BY <1>m DEF SendReturns, Inv, WellFormed
    <2>2. Ends(r)
      BY <1>m, <2>1, <1>2, <1>3 DEF SendReturns, Ends, Finish, Acting, On, effects
    <2> QED
      BY <2>1, <2>2, EndsInv
  <1>n. ASSUME NEW r \in Reqs, NEW t \in Texts, RectifyReturns(r, t) PROVE Core'
    <2>1. Ends(r) /\ req[r].pc # "idle"
      BY <1>n DEF RectifyReturns, Ends, Finish, effects
    <2> QED
      BY <2>1, EndsInv
  <1>o. ASSUME NEW r \in Reqs, RectifyFails(r) PROVE Core'
    <2>1. Ends(r) /\ req[r].pc # "idle"
      BY <1>o DEF RectifyFails, Ends, Finish, effects, store
    <2> QED
      BY <2>1, EndsInv
  <1>p. ASSUME UNCHANGED <<status, req, effects>> PROVE Core'
    <2>1. QuietMove
      BY <1>p DEF QuietMove, effects
    <2> QED
      BY <2>1, QuietInv
  <1>q. CASE NightlyExpiry
    <2>1. QuietMove
      BY <1>q DEF NightlyExpiry, QuietMove, effects
    <2> QED
      BY <2>1, QuietInv
  <1>r. CASE NewDay \/ (\E m \in Modes : SetEmailMode(m)) \/ UNCHANGED vars
    <2>1. UNCHANGED <<status, req, effects>>
      BY <1>r DEF NewDay, SetEmailMode, vars, store, effects
    <2> QED
      BY <2>1, <1>p
  <1>s. CASE Restart
    BY <1>s, RestartInv
  <1> QED
    BY <1>a, <1>b, <1>c, <1>d, <1>e, <1>f, <1>g, <1>h, <1>i, <1>j, <1>k, <1>l, <1>m, <1>n,
       <1>o, <1>q, <1>r, <1>s DEF Next, Resume

LEMMA InvAlways == Spec => []Inv
  BY InitInv, StepInv, PTL DEF Spec

(* The store, the slots and the counters keep their types, for every set of  *)
(* initiatives and requests.                                                 *)
THEOREM TypeCorrect == Spec => []TypeOK
  <1>1. Inv => TypeOK
    BY DEF Inv
  <1> QED
    BY <1>1, InvAlways, PTL

(* decision.py:100-103, executor.py:86-89: an approval e-mails at most once  *)
(* and never next to a confirm, and a mission starts at most once, whatever  *)
(* the number of doors pressed at the same time and of restarts.             *)
THEOREM ActsOnce == Spec => []ActsOncePerDecision
  <1>1. Inv => ActsOncePerDecision
    BY DEF Inv, OneDecider, ApproveExcludesConfirm, ActsOncePerDecision, TypeOK
  <1> QED
    BY <1>1, InvAlways, PTL

(* decision.py:94-98, store.py:359-364: a refused or expired initiative has  *)
(* sent nothing, launched nothing, and nothing is on its way.                *)
THEOREM RefusedStaysInert == Spec => []RefusedIsInert
  <1>1. Inv => RefusedIsInert
    <2> SUFFICES ASSUME Inv, NEW i \in Ids, status[i] \in Settled
                 PROVE  NoEffect(i) /\ \A r \in Reqs : On(r, i) => req[r].op = "rectify"
      BY DEF RefusedIsInert, NoEffect, On
    <2>1. NoEffect(i) /\ \A r \in Reqs : On(r, i) => ~Acting(r)
      BY DEF Inv, WaitingIsInert
    <2>2. \A r \in Reqs : On(r, i) => req[r].op # "none"
      BY ConstantsAssumption DEF Inv, WellFormed, On
    <2>3. \A r \in Reqs : req[r].op \in Ops
      BY DEF Inv, TypeOK, Request
    <2> QED
      BY <2>1, <2>2, <2>3 DEF Acting, Ops
  <1> QED
    BY <1>1, InvAlways, PTL
-----------------------------------------------------------------------------
(* What confirm e-mails.  The texts that an answer showed only grow; a draft *)
(* that awaits its confirmation has a text that was shown, and a confirm in  *)
(* flight took its own when it started.                                      *)
DraftReviewed ==
  \A i \in Ids :
    /\ status[i] = "awaiting_confirm" => text[i] \in reviewed[i]
    /\ \A r \in Reqs : On(r, i) /\ req[r].op = "confirm" => req[r].text \in reviewed[i]
    /\ mailed[i] \subseteq reviewed[i]

LEMMA ReviewedKept ==
  ASSUME DraftReviewed,
         \A i \in Ids : reviewed[i] \subseteq reviewed'[i],
         \A i \in Ids : status'[i] = "awaiting_confirm" =>
           text'[i] \in reviewed'[i] \/ (status[i] = "awaiting_confirm" /\ text'[i] = text[i]),
         \A r \in Reqs : req'[r].op = "confirm" =>
           \/ req'[r].text \in reviewed'[req'[r].id]
           \/ req[r].op = "confirm" /\ req'[r].id = req[r].id /\ req'[r].text = req[r].text,
         UNCHANGED mailed
  PROVE  DraftReviewed'
  BY DEF DraftReviewed, On

LEMMA ReviewedStep == Inv /\ DraftReviewed /\ [Next]_vars => DraftReviewed'
  <1> SUFFICES ASSUME Inv, DraftReviewed, [Next]_vars PROVE DraftReviewed'
    OBVIOUS
  <1> USE DEF Inv
  <1>1. \A i \in Ids : \A s : \A j \in Ids : WithStatus(i, s)[j] \in {status[j], s}
    BY DEF WithStatus, TypeOK
  <1>2. \A i \in Ids : \A s : \A j \in Ids : j # i => WithStatus(i, s)[j] = status[j]
    BY DEF WithStatus, TypeOK
  <1>3. \A r \in Reqs : req[r].pc # "idle" => req[r].id \in Ids
    BY DEF WellFormed
  <1>4. Idle.op = "none"
    BY DEF Idle
  <1>a. ASSUME UNCHANGED <<text, req, reviewed, mailed>>,
               \A i \in Ids : status'[i] = "awaiting_confirm" => status[i] = "awaiting_confirm"
        PROVE  DraftReviewed'
    BY <1>a, ReviewedKept
  <1>b. ASSUME NEW i \in Ids, Save(i) PROVE DraftReviewed'
    <2>1. \A j \in Ids : status'[j] = "awaiting_confirm" => status[j] = "awaiting_confirm"
      BY <1>b DEF Save, TypeOK
    <2> QED
      BY <2>1, <1>a, <1>b DEF Save, effects
  <1>c. ASSUME NEW i \in Ids, NEW v \in {"approved", "rejected"},
               Reject(i) \/ Dismiss(i) \/ ToolDecides(i, v)
        PROVE  DraftReviewed'
    <2>1. \A j \in Ids : status'[j] = "awaiting_confirm" => status[j] = "awaiting_confirm"
      BY <1>c, <1>1 DEF Reject, Dismiss, ToolDecides
    <2> QED
      BY <2>1, <1>a, <1>c DEF Reject, Dismiss, ToolDecides, effects
  <1>d. ASSUME NEW r \in Reqs, NEW i \in Ids, NEW d \in Doors, Approve(r, i, d) PROVE DraftReviewed'
    <2>1. \A j \in Ids : status'[j] = "awaiting_confirm" => status[j] = "awaiting_confirm"
      BY <1>d, <1>1 DEF Approve
    <2>2. UNCHANGED <<text, reviewed, mailed>>
      BY <1>d DEF Approve, effects
    <2>3. \A s \in Reqs : req'[s].op = "confirm" => req'[s] = req[s]
      BY <1>d DEF Approve, Suspend, TypeOK
    <2> QED
      BY <2>1, <2>2, <2>3, ReviewedKept
  <1>e. ASSUME NEW r \in Reqs, NEW i \in Ids, Run(r, i) PROVE DraftReviewed'
    <2>1. UNCHANGED <<text, mailed>> /\ \A j \in Ids : reviewed[j] \subseteq reviewed'[j]
      BY <1>e DEF Run, effects, TypeOK
    <2>2. \A s \in Reqs : req'[s].op = "confirm" => req'[s] = req[s]
      BY <1>e DEF Run, Suspend, TypeOK
    <2>3. \A j \in Ids : status'[j] = "awaiting_confirm" =>
            text[j] \in reviewed'[j] \/ status[j] = "awaiting_confirm"
      <3>1. CASE TypeOf[i] = "draft_response"
        BY <1>e, <3>1, <1>2 DEF Run, TypeOK
      <3>2. CASE TypeOf[i] # "draft_response"
        BY <1>e, <3>2, <1>1 DEF Run
      <3> QED
        BY <3>1, <3>2
    <2> QED
      BY <2>1, <2>2, <2>3, ReviewedKept
  <1>f. ASSUME NEW r \in Reqs, NEW i \in Ids, NEW t \in Texts \cup {NoText}, Confirm(r, i, t)
        PROVE  DraftReviewed'
    <2>1. UNCHANGED mailed /\ \A j \in Ids : reviewed[j] \subseteq reviewed'[j]
      BY <1>f DEF Confirm, effects, TypeOK
    <2>2. text'[i] \in reviewed'[i]
      <3>1. text[i] \in reviewed[i]
        BY <1>f DEF Confirm, DraftReviewed
      <3> QED
        BY <1>f, <3>1 DEF Confirm, TypeOK
    <2>3. \A j \in Ids : j # i => text'[j] = text[j]
      BY <1>f DEF Confirm, TypeOK
    <2>4. \A s \in Reqs : req'[s].op = "confirm" =>
            req'[s] = req[s] \/ (req'[s].id = i /\ req'[s].text = text'[i])
      BY <1>f DEF Confirm, Suspend, TypeOK
    <2>5. \A j \in Ids : status'[j] = "awaiting_confirm" => status[j] = "awaiting_confirm"
      BY <1>f, <1>1 DEF Confirm
    <2> QED
      BY <2>1, <2>2, <2>3, <2>4, <2>5, ReviewedKept
  <1>g. ASSUME NEW r \in Reqs, NEW o \in {"sent", "error", "no_tool"},
               BudgetAnswers(r) \/ LaunchSucceeds(r) \/ LaunchFails(r) \/ RectifyFails(r)
                 \/ SendReturns(r, o)
        PROVE  DraftReviewed'
    <2>1. UNCHANGED <<text, reviewed, mailed>>
      BY <1>g DEF BudgetAnswers, LaunchSucceeds, LaunchFails, RectifyFails, SendReturns, store, effects
    <2>2. req[r].id \in Ids
      BY <1>g, <1>3 DEF BudgetAnswers, LaunchSucceeds, LaunchFails, RectifyFails, SendReturns
    <2>3. \A j \in Ids : status'[j] = "awaiting_confirm" => status[j] = "awaiting_confirm"
      BY <1>g, <2>2, <1>1 DEF BudgetAnswers, LaunchSucceeds, LaunchFails, RectifyFails, SendReturns, store
    <2>4. \A s \in Reqs : req'[s].op = "confirm" => req'[s] = req[s]
      BY <1>g, <1>4 DEF BudgetAnswers, LaunchSucceeds, LaunchFails, RectifyFails, SendReturns,
         Suspend, Finish, TypeOK
    <2> QED
      BY <2>1, <2>3, <2>4, ReviewedKept
  <1>h. ASSUME NEW r \in Reqs, NEW t \in Texts, RectifyReturns(r, t) PROVE DraftReviewed'
    <2>1. req[r].id \in Ids
      BY <1>h, <1>3 DEF RectifyReturns
    <2>2. UNCHANGED <<status, mailed>> /\ \A j \in Ids : reviewed[j] \subseteq reviewed'[j]
      BY <1>h DEF RectifyReturns, effects, TypeOK
    <2>3. \A j \in Ids : text'[j] = text[j] \/ text'[j] \in reviewed'[j]
      BY <1>h, <2>1 DEF RectifyReturns, TypeOK
    <2>4. \A s \in Reqs : req'[s].op = "confirm" => req'[s] = req[s]
      BY <1>h, <1>4 DEF RectifyReturns, Finish, TypeOK
    <2> QED
      BY <2>2, <2>3, <2>4, ReviewedKept
  <1>i. ASSUME NEW r \in Reqs, GmailAccepts(r) PROVE DraftReviewed'
    <2>1. req[r].id \in Ids /\ UNCHANGED <<status, text, reviewed>>
      BY <1>i, <1>3 DEF GmailAccepts, store
    <2>2. \A s \in Reqs : req'[s].op = req[s].op /\ req'[s].id = req[s].id /\ req'[s].text = req[s].text
      BY <1>i DEF GmailAccepts, TypeOK, Request
    <2>3. \A j \in Ids : mailed'[j] \subseteq reviewed[j]
      <3>1. CASE req[r].op = "confirm"
        <4>1. req[r].text \in reviewed[req[r].id]
          BY <2>1, <3>1 DEF DraftReviewed, On
        <4>2. mailed' = [mailed EXCEPT ![req[r].id] = @ \cup {req[r].text}]
          BY <1>i, <3>1 DEF GmailAccepts
        <4> QED
          BY <4>1, <4>2 DEF DraftReviewed, TypeOK
      <3>2. CASE req[r].op # "confirm"
        BY <1>i, <3>2 DEF GmailAccepts, DraftReviewed
      <3> QED
        BY <3>1, <3>2
    <2> QED
      BY <2>1, <2>2, <2>3 DEF DraftReviewed, On
  <1>j. CASE NightlyExpiry
    <2>1. \A j \in Ids : status'[j] = "awaiting_confirm" => status[j] = "awaiting_confirm"
      BY <1>j DEF NightlyExpiry
    <2> QED
      BY <2>1, <1>a, <1>j DEF NightlyExpiry, effects
  <1>k. CASE NewDay \/ (\E m \in Modes : SetEmailMode(m)) \/ UNCHANGED vars
    BY <1>a, <1>k DEF NewDay, SetEmailMode, vars, store, effects
  <1>l. CASE Restart
    <2>1. \A s \in Reqs : req'[s].op = "none"
      BY <1>l, <1>4 DEF Restart
    <2>2. UNCHANGED <<status, text, reviewed, mailed>>
      BY <1>l DEF Restart, store, effects
    <2> QED
      BY <2>1, <2>2, ReviewedKept
  <1>m. ASSUME NEW r \in Reqs, NEW i \in Ids, RectifyStarts(r, i) PROVE DraftReviewed'
    <2>1. UNCHANGED <<status, text, reviewed, mailed>>
      BY <1>m DEF RectifyStarts, store, effects
    <2>2. \A s \in Reqs : req'[s].op = "confirm" => req'[s] = req[s]
      BY <1>m DEF RectifyStarts, Suspend, TypeOK
    <2> QED
      BY <2>1, <2>2, ReviewedKept
  <1> QED
    BY <1>b, <1>c, <1>d, <1>e, <1>f, <1>g, <1>h, <1>i, <1>j, <1>k, <1>l, <1>m DEF Next, Resume

(* executor.py:78 and 121, proactive.py:116-142: with any number of texts,   *)
(* rectifications and confirms, what confirm e-mails was shown to the client *)
(* or came from it.                                                          *)
THEOREM MailedIsReviewed == Spec => []MailedWasReviewed
  <1>1. Init => DraftReviewed
    BY ConstantsAssumption DEF Init, DraftReviewed, On, Idle
  <1>2. DraftReviewed => MailedWasReviewed
    BY DEF DraftReviewed, MailedWasReviewed
  <1> QED
    BY <1>1, <1>2, ReviewedStep, InvAlways, PTL DEF Spec
-----------------------------------------------------------------------------
(* What is in progress.  A step that starts no run and ends none keeps every *)
(* reason an initiative in progress has.                                     *)
LEMMA AccountedKept ==
  ASSUME InProgressIsAccounted,
         \A i \in Ids : status'[i] = "in_progress" =>
           /\ status[i] = "in_progress"
           /\ launches'[i] = launches[i]
           /\ age[i] >= Window => age'[i] >= Window,
         \A r \in Reqs : req[r].op = "run" => req'[r].op = "run" /\ req'[r].id = req[r].id,
         restarts > 0 => restarts' > 0
  PROVE  InProgressIsAccounted'
  BY DEF InProgressIsAccounted

(* run's coroutine k ends with a failure: the status is written, unless the  *)
(* store does not find the initiative any more.                              *)
LEMMA RunFailureKeeps ==
  ASSUME Inv, InProgressIsAccounted, NEW r \in Reqs, req[r].pc # "idle", Finish(r),
         status' = IF req[r].op = "run" THEN WithStatus(req[r].id, "failed") ELSE status,
         UNCHANGED <<age, launches, restarts>>
  PROVE  InProgressIsAccounted'
  <1> USE DEF Inv
  <1> DEFINE k == req[r].id
  <1>1. k \in Ids
    BY DEF WellFormed
  <1>2. \A s \in Reqs : s # r => req'[s] = req[s]
    BY DEF Finish, TypeOK
  <1> SUFFICES ASSUME NEW i \in Ids, status'[i] = "in_progress"
               PROVE  \/ launches[i] = 1
                      \/ \E s \in Reqs : req'[s].id = i /\ req'[s].op = "run"
                      \/ restarts > 0
                      \/ age[i] >= Window
    BY DEF InProgressIsAccounted
  <1>3. status[i] = "in_progress"
    BY <1>1 DEF WithStatus, TypeOK
  <1>4. CASE req[r].op = "run" /\ i = k
    <2>1. ~Visible(i)
      BY <1>1, <1>3, <1>4 DEF WithStatus, TypeOK
    <2> QED
      BY <2>1, <1>3, ConstantsAssumption DEF Visible, TypeOK
  <1>5. CASE req[r].op # "run" \/ i # k
    BY <1>2, <1>3, <1>5 DEF InProgressIsAccounted
  <1> QED
    BY <1>4, <1>5

LEMMA AccountedStep == Inv /\ InProgressIsAccounted /\ [Next]_vars => InProgressIsAccounted'
  <1> SUFFICES ASSUME Inv, InProgressIsAccounted, [Next]_vars PROVE InProgressIsAccounted'
    OBVIOUS
  <1> USE DEF Inv
  <1>1. \A i \in Ids : \A s : \A j \in Ids : WithStatus(i, s)[j] \in {status[j], s}
    BY DEF WithStatus, TypeOK
  <1>2. \A r \in Reqs : req[r].pc # "idle" => req[r].id \in Ids
    BY DEF WellFormed
  <1>3. \A r \in Reqs : req[r].pc = "idle" => req[r].op = "none"
    BY DEF WellFormed
  <1>a. ASSUME UNCHANGED <<launches, age, restarts>>,
               \A i \in Ids : status'[i] = "in_progress" => status[i] = "in_progress",
               \A r \in Reqs : req[r].op = "run" => req'[r].op = "run" /\ req'[r].id = req[r].id
        PROVE  InProgressIsAccounted'
    BY <1>a, AccountedKept
  <1>b. ASSUME NEW i \in Ids, Save(i) PROVE InProgressIsAccounted'
    BY <1>b, AccountedKept DEF Save, TypeOK, effects
  <1>c. ASSUME NEW i \in Ids, NEW v \in {"approved", "rejected"},
               Reject(i) \/ Dismiss(i) \/ ToolDecides(i, v)
        PROVE  InProgressIsAccounted'
    <2>1. \A j \in Ids : status'[j] = "in_progress" => status[j] = "in_progress"
      BY <1>c, <1>1 DEF Reject, Dismiss, ToolDecides
    <2> QED
      BY <2>1, <1>a, <1>c DEF Reject, Dismiss, ToolDecides, effects
  <1>d. ASSUME NEW r \in Reqs, NEW i \in Ids, NEW d \in Doors, Approve(r, i, d)
        PROVE  InProgressIsAccounted'
    <2>1. \A j \in Ids : status'[j] = "in_progress" => status[j] = "in_progress"
      BY <1>d, <1>1 DEF Approve
    <2>2. \A s \in Reqs : req[s].op = "run" => req'[s] = req[s]
      BY <1>d, <1>3 DEF Approve, Suspend, TypeOK
    <2> QED
      BY <2>1, <2>2, <1>a, <1>d DEF Approve, effects
  <1>e. ASSUME NEW r \in Reqs, NEW i \in Ids, Run(r, i) PROVE InProgressIsAccounted'
    <2>1. UNCHANGED <<launches, age, restarts>>
      BY <1>e DEF Run, effects
    <2>2. \A s \in Reqs : req[s].op = "run" => req'[s] = req[s]
      BY <1>e, <1>3 DEF Run, Suspend, TypeOK
    <2>3. CASE TypeOf[i] # "auto_task"
      <3>1. \A j \in Ids : status'[j] = "in_progress" => status[j] = "in_progress"
        BY <1>e, <2>3, <1>1 DEF Run
      <3> QED
        BY <3>1, <2>1, <2>2, <1>a
    <2>4. CASE TypeOf[i] = "auto_task"
      <3>1. status' = WithStatus(i, "in_progress") /\ Suspend(r, "reserving", "run", i, NoText)
        BY <1>e, <2>4 DEF Run
      <3>2. req'[r].id = i /\ req'[r].op = "run"
        BY <3>1 DEF Suspend, TypeOK
      <3>3. \A j \in Ids : j # i => status'[j] = status[j]
        BY <3>1 DEF WithStatus, TypeOK
      <3> QED
        BY <2>1, <2>2, <3>2, <3>3 DEF InProgressIsAccounted
    <2> QED
      BY <2>3, <2>4
  <1>f. ASSUME NEW r \in Reqs, NEW i \in Ids, NEW t \in Texts \cup {NoText},
               Confirm(r, i, t) \/ RectifyStarts(r, i)
        PROVE  InProgressIsAccounted'
    <2>1. \A j \in Ids : status'[j] = "in_progress" => status[j] = "in_progress"
      BY <1>f, <1>1 DEF Confirm, RectifyStarts, store
    <2>2. \A s \in Reqs : req[s].op = "run" => req'[s] = req[s]
      BY <1>f, <1>3 DEF Confirm, RectifyStarts, Suspend, TypeOK
    <2> QED
      BY <2>1, <2>2, <1>a, <1>f DEF Confirm, RectifyStarts, effects, store
  <1>g. ASSUME NEW r \in Reqs, BudgetAnswers(r) PROVE InProgressIsAccounted'
    <2>1. req[r].pc # "idle" /\ req[r].op = "run" /\ UNCHANGED <<age, launches, restarts>>
      BY <1>g DEF BudgetAnswers, effects, WellFormed
    <2>2. CASE Finish(r) /\ status' = WithStatus(req[r].id, "failed")
      BY <2>1, <2>2, RunFailureKeeps
    <2>3. CASE Suspend(r, "launching", "run", req[r].id, NoText) /\ UNCHANGED status
      <3>1. \A s \in Reqs : req[s].op = "run" => req'[s].op = "run" /\ req'[s].id = req[s].id
        BY <2>3 DEF Suspend, TypeOK
      <3> QED
        BY <3>1, <2>1, <2>3, <1>a
    <2> QED
      BY <1>g, <2>2, <2>3 DEF BudgetAnswers
  <1>h. ASSUME NEW r \in Reqs, LaunchFails(r) PROVE InProgressIsAccounted'
    BY <1>h, RunFailureKeeps DEF LaunchFails, effects
  <1>i. ASSUME NEW r \in Reqs, LaunchSucceeds(r) PROVE InProgressIsAccounted'
    <2> DEFINE k == req[r].id
    <2>1. k \in Ids /\ launches[k] = 0
      BY <1>i, <1>2 DEF LaunchSucceeds, OneDecider, WellFormed, On, Deciding
    <2>2. launches'[k] = 1 /\ \A j \in Ids : j # k => launches'[j] = launches[j]
      BY <1>i, <2>1 DEF LaunchSucceeds, TypeOK
    <2>3. \A j \in Ids : j # k => status'[j] = status[j]
      BY <1>i, <2>1 DEF LaunchSucceeds, WithStatus, TypeOK
    <2>4. \A s \in Reqs : s # r => req'[s] = req[s]
      BY <1>i DEF LaunchSucceeds, Finish, TypeOK
    <2> QED
      BY <1>i, <2>2, <2>3, <2>4 DEF LaunchSucceeds, InProgressIsAccounted
  <1>j. ASSUME NEW r \in Reqs,
               \/ RectifyFails(r) \/ GmailAccepts(r)
               \/ \E t \in Texts : RectifyReturns(r, t)
               \/ \E o \in {"sent", "error", "no_tool"} : SendReturns(r, o)
        PROVE  InProgressIsAccounted'
    <2>1. req[r].id \in Ids /\ req[r].op # "run"
      BY <1>j, <1>2 DEF RectifyReturns, RectifyFails, SendReturns, GmailAccepts, WellFormed
    <2>2. \A i \in Ids : status'[i] = "in_progress" => status[i] = "in_progress"
      BY <1>j, <2>1, <1>1 DEF RectifyReturns, RectifyFails, SendReturns, GmailAccepts, store
    <2>3. \A s \in Reqs : s # r => req'[s] = req[s]
      BY <1>j DEF RectifyReturns, RectifyFails, SendReturns, GmailAccepts, Finish, TypeOK
    <2> QED
      BY <1>j, <2>1, <2>2, <2>3, <1>a
         DEF RectifyReturns, RectifyFails, SendReturns, GmailAccepts, store, effects
  <1>k. CASE NightlyExpiry
    <2>1. \A i \in Ids : status'[i] = "in_progress" => status[i] = "in_progress"
      BY <1>k DEF NightlyExpiry
    <2> QED
      BY <2>1, <1>a, <1>k DEF NightlyExpiry, effects
  <1>l. CASE NewDay
    <2>1. \A i \in Ids : age[i] >= Window => age'[i] >= Window
      BY <1>l, ConstantsAssumption DEF NewDay, TypeOK
    <2> QED
      BY <2>1, <1>l, AccountedKept DEF NewDay, effects
  <1>m. CASE (\E m \in Modes : SetEmailMode(m)) \/ UNCHANGED vars
    BY <1>a, <1>m DEF SetEmailMode, vars, store, calendar, effects
  <1>n. CASE Restart
    <2>1. restarts' > 0
      BY <1>n DEF Restart, TypeOK
    <2> QED
      BY <2>1 DEF InProgressIsAccounted
  <1> QED
    BY <1>b, <1>c, <1>d, <1>e, <1>f, <1>g, <1>h, <1>i, <1>j, <1>k, <1>l, <1>m, <1>n
       DEF Next, Resume

(* executor.py:86-94 and 194-231: a mission that reads "in progress" was     *)
(* started, or is being started, unless a restart or the seven-day window    *)
(* came in between.                                                          *)
THEOREM ProgressIsAccounted == Spec => []InProgressIsAccounted
  <1>1. Init => InProgressIsAccounted
    BY DEF Init, InProgressIsAccounted
  <1> QED
    BY <1>1, AccountedStep, InvAlways, PTL DEF Spec
-----------------------------------------------------------------------------
(* The promise.  With one confirm at a time and no restart, whoever acts for *)
(* an initiative is alone, comes before any effect, and leaves nothing that  *)
(* still awaits a confirmation (Alone).  A draft and a mission never share a *)
(* coroutine's operation (Typed).                                            *)
Typed ==
  /\ \A i \in Ids : status[i] = "awaiting_confirm" => TypeOf[i] = "draft_response"
  /\ \A r \in Reqs :
       /\ req[r].op = "confirm" => TypeOf[req[r].id] = "draft_response"
       /\ req[r].op = "run" \/ req[r].pc = "launching" => TypeOf[req[r].id] = "auto_task"

Awaits(i) == Visible(i) /\ status[i] = "awaiting_confirm"

Alone ==
  \A i \in Ids :
    /\ \A r, s \in Reqs : On(r, i) /\ On(s, i) /\ Acting(r) /\ Acting(s) => r = s
    /\ \A r \in Reqs : On(r, i) /\ Acting(r) /\ req[r].pc # "accepted" => NoEffect(i)
    /\ Awaits(i) /\ ~NoEffect(i) => ConfirmInFlight(i)

LEMMA TypedKept ==
  ASSUME Typed,
         \A i \in Ids : status'[i] = "awaiting_confirm" =>
           status[i] = "awaiting_confirm" \/ TypeOf[i] = "draft_response",
         \A r \in Reqs :
           \/ req'[r].op = "none" /\ req'[r].pc = "idle"
           \/ req'[r].op = "rectify" /\ req'[r].pc # "launching"
           \/ req'[r].op = req[r].op /\ req'[r].id = req[r].id /\ req'[r].pc = req[r].pc
           \/ req'[r].op \in {"approve", "confirm"} /\ req'[r].pc # "launching"
              /\ TypeOf[req'[r].id] = "draft_response"
           \/ req'[r].op \in {"approve", "run"} /\ TypeOf[req'[r].id] = "auto_task"
  PROVE  Typed'
  BY DEF Typed

LEMMA TypedStep == Inv /\ Typed /\ [Next]_vars => Typed'
  <1> SUFFICES ASSUME Inv, Typed, [Next]_vars PROVE Typed'
    OBVIOUS
  <1> USE DEF Inv
  <1>1. \A i \in Ids : \A s : \A j \in Ids : WithStatus(i, s)[j] \in {status[j], s}
    BY DEF WithStatus, TypeOK
  <1>2. \A r \in Reqs : req[r].pc # "idle" => req[r].id \in Ids
    BY DEF WellFormed
  <1>3. Idle.op = "none" /\ Idle.pc = "idle"
    BY DEF Idle
  <1>a. ASSUME UNCHANGED req,
               \A i \in Ids : status'[i] = "awaiting_confirm" => status[i] = "awaiting_confirm"
        PROVE  Typed'
    BY <1>a DEF Typed
  <1>b. ASSUME NEW i \in Ids, NEW v \in {"approved", "rejected"},
               Save(i) \/ Reject(i) \/ Dismiss(i) \/ ToolDecides(i, v)
        PROVE  Typed'
    <2>1. \A j \in Ids : status'[j] = "awaiting_confirm" => status[j] = "awaiting_confirm"
      BY <1>b, <1>1 DEF Save, Reject, Dismiss, ToolDecides, TypeOK
    <2> QED
      BY <2>1, <1>a, <1>b DEF Save, Reject, Dismiss, ToolDecides
  <1>c. ASSUME NEW r \in Reqs, NEW i \in Ids, NEW d \in Doors, Approve(r, i, d) PROVE Typed'
    <2>1. \A j \in Ids : status'[j] = "awaiting_confirm" => status[j] = "awaiting_confirm"
      BY <1>c, <1>1 DEF Approve
    <2>2. \A s \in Reqs :
            \/ req'[s] = req[s]
            \/ req'[s].op = "approve" /\ req'[s].pc = "sending" /\ TypeOf[req'[s].id] = "draft_response"
            \/ req'[s].op = "approve" /\ TypeOf[req'[s].id] = "auto_task"
      BY <1>c DEF Approve, Suspend, TypeOK
    <2> QED
      BY <2>1, <2>2, TypedKept
  <1>d. ASSUME NEW r \in Reqs, NEW i \in Ids, Run(r, i) PROVE Typed'
    <2>1. \A j \in Ids : status'[j] = "awaiting_confirm" =>
            status[j] = "awaiting_confirm" \/ TypeOf[j] = "draft_response"
      BY <1>d DEF Run, WithStatus, TypeOK
    <2>2. \A s \in Reqs :
            req'[s] = req[s] \/ (req'[s].op = "run" /\ TypeOf[req'[s].id] = "auto_task")
      BY <1>d DEF Run, Suspend, TypeOK
    <2> QED
      BY <2>1, <2>2, TypedKept
  <1>e. ASSUME NEW r \in Reqs, NEW i \in Ids, NEW t \in Texts \cup {NoText}, Confirm(r, i, t)
        PROVE  Typed'
    <2>1. \A j \in Ids : status'[j] = "awaiting_confirm" => status[j] = "awaiting_confirm"
      BY <1>e, <1>1 DEF Confirm
    <2>2. TypeOf[i] = "draft_response"
      BY <1>e DEF Confirm, Typed
    <2>3. \A s \in Reqs : \/ req'[s] = req[s]
                          \/ req'[s].op = "confirm" /\ req'[s].pc = "sending" /\ req'[s].id = i
      BY <1>e DEF Confirm, Suspend, TypeOK
    <2> QED
      BY <2>1, <2>2, <2>3, TypedKept
  <1>f. ASSUME NEW r \in Reqs, NEW i \in Ids, RectifyStarts(r, i) PROVE Typed'
    <2>1. \A s \in Reqs : \/ req'[s] = req[s]
                          \/ req'[s].op = "rectify" /\ req'[s].pc = "rectifying"
      BY <1>f DEF RectifyStarts, Suspend, TypeOK
    <2> QED
      BY <2>1, <1>f, TypedKept DEF RectifyStarts, store
  <1>g. ASSUME NEW r \in Reqs, Resume(r) PROVE Typed'
    <2>1. req[r].id \in Ids
      BY <1>g, <1>2 DEF Resume, BudgetAnswers, LaunchSucceeds, LaunchFails, GmailAccepts,
         SendReturns, RectifyReturns, RectifyFails
    <2>2. \A i \in Ids : status'[i] = "awaiting_confirm" => status[i] = "awaiting_confirm"
      BY <1>g, <2>1, <1>1 DEF Resume, BudgetAnswers, LaunchSucceeds, LaunchFails, GmailAccepts,
         SendReturns, RectifyReturns, RectifyFails, store
    <2>3. CASE Finish(r)
      <3>1. \A s \in Reqs : req'[s] = req[s] \/ (req'[s].op = "none" /\ req'[s].pc = "idle")
        BY <2>3, <1>3 DEF Finish, TypeOK
      <3> QED
        BY <3>1, <2>2, TypedKept
    <2>4. CASE GmailAccepts(r)
      <3>1. \A s \in Reqs : \/ req'[s] = req[s]
                            \/ req'[s].op = req[s].op /\ req'[s].id = req[s].id
                               /\ req'[s].pc = "accepted"
        BY <2>4 DEF GmailAccepts, TypeOK, Request
      <3> QED
        BY <3>1, <2>2 DEF Typed
    <2>5. CASE BudgetAnswers(r) /\ ~Finish(r)
      <3>1. TypeOf[req[r].id] = "auto_task"
        BY <2>5 DEF BudgetAnswers, Typed, WellFormed
      <3>2. \A s \in Reqs : req'[s] = req[s] \/ (req'[s].op = "run" /\ req'[s].id = req[r].id)
        BY <2>5 DEF BudgetAnswers, Suspend, TypeOK
      <3> QED
        BY <3>1, <3>2, <2>2, TypedKept
    <2> QED
      BY <1>g, <2>3, <2>4, <2>5 DEF Resume, LaunchSucceeds, LaunchFails, SendReturns,
         RectifyReturns, RectifyFails
  <1>h. CASE NightlyExpiry \/ NewDay \/ (\E m \in Modes : SetEmailMode(m)) \/ UNCHANGED vars
    BY <1>h, <1>a DEF NightlyExpiry, NewDay, SetEmailMode, vars, store
  <1>i. CASE Restart
    BY <1>i, <1>3, TypedKept DEF Restart, store
  <1> QED
    BY <1>b, <1>c, <1>d, <1>e, <1>f, <1>g, <1>h, <1>i DEF Next
(* Nobody new acts: what awaits a confirmation awaited it before, or nothing *)
(* was done for it; the coroutines that act go on as they were, or end, and  *)
(* a confirm ends by settling what it was confirming.                        *)
NobodyNew ==
  /\ UNCHANGED <<approveMails, confirmMails, launches>>
  /\ \A i \in Ids : Awaits(i)' => Awaits(i) \/ NoEffect(i)
  /\ \A r \in Reqs : Acting(r)' =>
       /\ Acting(r)
       /\ req'[r].id = req[r].id
       /\ req'[r].pc # "accepted" => req[r].pc # "accepted"
  /\ \A r \in Reqs, i \in Ids : req[r].op = "confirm" /\ On(r, i) =>
       (req'[r].op = "confirm" /\ req'[r].id = i) \/ ~Awaits(i)'

LEMMA NobodyNewKeeps == ASSUME Alone, NobodyNew PROVE Alone'
  <1> SUFFICES ASSUME NEW i \in Ids
               PROVE  /\ \A r, s \in Reqs : (On(r, i) /\ On(s, i) /\ Acting(r) /\ Acting(s))' => r = s
                      /\ \A r \in Reqs : (On(r, i) /\ Acting(r) /\ req[r].pc # "accepted")' => NoEffect(i)'
                      /\ (Awaits(i) /\ ~NoEffect(i))' => ConfirmInFlight(i)'
    BY DEF Alone
  <1>1. NoEffect(i)' <=> NoEffect(i)
    BY DEF NobodyNew, NoEffect
  <1>2. \A r \in Reqs : (On(r, i) /\ Acting(r))' => On(r, i) /\ Acting(r)
    BY DEF NobodyNew, On
  <1>3. ASSUME Awaits(i)', ~NoEffect(i) PROVE ConfirmInFlight(i)'
    <2>1. Awaits(i)
      BY <1>3 DEF NobodyNew
    <2>2. PICK r \in Reqs : req[r].op = "confirm" /\ req[r].id = i
      BY <2>1, <1>3 DEF Alone, ConfirmInFlight
    <2>3. req'[r].op = "confirm" /\ req'[r].id = i
      BY <2>2, <1>3 DEF NobodyNew, On
    <2> QED
      BY <2>3 DEF ConfirmInFlight
  <1>4. \A r \in Reqs : (On(r, i) /\ Acting(r) /\ req[r].pc # "accepted")' => NoEffect(i)
    BY <1>2 DEF Alone, NobodyNew
  <1> QED
    BY <1>1, <1>2, <1>3, <1>4 DEF Alone

(* The coroutine r starts to act for i, for which nobody acts and nothing    *)
(* was done.                                                                 *)
StartsToAct(r, i) ==
  /\ UNCHANGED <<approveMails, confirmMails, launches>>
  /\ NoEffect(i) /\ \A s \in Reqs : On(s, i) => ~Acting(s)
  /\ req[r].op = "none"
  /\ req'[r].id = i
  /\ \A s \in Reqs : s # r => req'[s] = req[s]
  /\ \A j \in Ids : j # i => (Awaits(j)' => Awaits(j))

LEMMA StartsToActKeeps ==
  ASSUME Alone, NEW r \in Reqs, NEW i \in Ids, StartsToAct(r, i)
  PROVE  Alone'
  <1> SUFFICES ASSUME NEW j \in Ids
               PROVE  /\ \A u, s \in Reqs : (On(u, j) /\ On(s, j) /\ Acting(u) /\ Acting(s))' => u = s
                      /\ \A s \in Reqs : (On(s, j) /\ Acting(s) /\ req[s].pc # "accepted")' => NoEffect(j)'
                      /\ (Awaits(j) /\ ~NoEffect(j))' => ConfirmInFlight(j)'
    BY DEF Alone
  <1>1. NoEffect(j)' <=> NoEffect(j)
    BY DEF StartsToAct, NoEffect
  <1>2. CASE j = i
    <2>1. \A s \in Reqs : (On(s, i) /\ Acting(s))' => s = r
      BY DEF StartsToAct, On, Acting
    <2> QED
      BY <1>1, <1>2, <2>1 DEF StartsToAct
  <1>3. CASE j # i
    <2>1. \A s \in Reqs : On(s, j)' => s # r /\ req'[s] = req[s]
      BY <1>3 DEF StartsToAct, On
    <2>2. (Awaits(j) /\ ~NoEffect(j))' => ConfirmInFlight(j)'
      <3> SUFFICES ASSUME Awaits(j), ~NoEffect(j) PROVE ConfirmInFlight(j)'
        BY <1>1, <1>3 DEF StartsToAct
      <3>1. PICK s \in Reqs : req[s].op = "confirm" /\ req[s].id = j
        BY DEF Alone, ConfirmInFlight
      <3>2. s # r
        BY <3>1 DEF StartsToAct
      <3> QED
        BY <3>1, <3>2 DEF ConfirmInFlight, StartsToAct
    <2> QED
      BY <1>1, <2>1, <2>2 DEF Alone, On, Acting
  <1> QED
    BY <1>2, <1>3
LEMMA AloneStep ==
  ASSUME SerialConfirms, MaxRestarts = 0, Inv, Typed, Alone, [Next]_vars
  PROVE  Alone'
  <1> USE DEF Inv
  <1>1. \A i \in Ids : \A s : \A j \in Ids : WithStatus(i, s)[j] \in {status[j], s}
    BY DEF WithStatus, TypeOK
  <1>2. \A r \in Reqs : req[r].pc # "idle" => req[r].id \in Ids
    BY DEF WellFormed
  <1>3. Idle.op = "none" /\ Idle.pc = "idle"
    BY DEF Idle
  <1>4. \A r \in Reqs : req[r].pc = "idle" => req[r].op = "none"
    BY DEF WellFormed
  \* Steps of the store, of the settings and of the calendar.
  <1>a. ASSUME UNCHANGED <<req, approveMails, confirmMails, launches>>,
               \A i \in Ids : Awaits(i)' => Awaits(i) \/ NoEffect(i)
        PROVE  Alone'
    <2>1. NobodyNew
      BY <1>a DEF NobodyNew, On, Acting
    <2> QED
      BY <2>1, NobodyNewKeeps
  <1>b. ASSUME NEW i \in Ids, NEW v \in {"approved", "rejected"},
               Save(i) \/ Reject(i) \/ Dismiss(i) \/ ToolDecides(i, v)
        PROVE  Alone'
    <2>1. \A j \in Ids : Awaits(j)' => Awaits(j)
      BY <1>b, <1>1 DEF Save, Reject, Dismiss, ToolDecides, Awaits, Visible, TypeOK
    <2> QED
      BY <2>1, <1>a, <1>b DEF Save, Reject, Dismiss, ToolDecides, effects
  <1>c. CASE NightlyExpiry \/ NewDay \/ (\E m \in Modes : SetEmailMode(m)) \/ UNCHANGED vars
    <2>1. \A j \in Ids : age[j] \in Nat /\ (age'[j] = age[j] \/ age'[j] = age[j] + 1)
      BY <1>c, ConstantsAssumption DEF NightlyExpiry, NewDay, SetEmailMode, vars, store, TypeOK
    <2>2. \A j \in Ids : Awaits(j)' => Awaits(j)
      <3>1. \A j \in Ids : status'[j] = "awaiting_confirm" => status[j] = "awaiting_confirm"
        BY <1>c DEF NightlyExpiry, NewDay, SetEmailMode, vars, store
      <3> QED
        BY <3>1, <2>1, ConstantsAssumption DEF Awaits, Visible
    <2> QED
      BY <2>2, <1>a, <1>c DEF NightlyExpiry, NewDay, SetEmailMode, vars, store, effects
  <1>d. CASE Restart
    BY <1>d DEF Restart, TypeOK
  \* Steps that start a coroutine.
  <1>e. ASSUME NEW r \in Reqs, NEW i \in Ids, NEW d \in Doors, Approve(r, i, d) PROVE Alone'
    <2>1. \A j \in Ids : Awaits(j)' => Awaits(j)
      BY <1>e, <1>1 DEF Approve, Awaits, Visible
    <2>2. UNCHANGED <<approveMails, confirmMails, launches>>
      BY <1>e DEF Approve, effects
    <2>3. CASE UNCHANGED req
      BY <2>1, <2>2, <2>3, <1>a
    <2>4. CASE ~UNCHANGED req
      <3>1. req'[r].id = i /\ \A s \in Reqs : s # r => req'[s] = req[s]
        BY <1>e, <2>4 DEF Approve, Suspend, TypeOK
      <3>2. req[r].op = "none" /\ NoEffect(i) /\ \A s \in Reqs : On(s, i) => ~Acting(s)
        BY <1>e, <1>4 DEF Approve, Decidable, WaitingIsInert
      <3>3. StartsToAct(r, i)
        BY <2>1, <2>2, <3>1, <3>2 DEF StartsToAct
      <3> QED
        BY <3>3, StartsToActKeeps
    <2> QED
      BY <2>3, <2>4
  <1>f. ASSUME NEW r \in Reqs, NEW i \in Ids, Run(r, i) PROVE Alone'
    <2>1. UNCHANGED <<approveMails, confirmMails, launches, age>>
      BY <1>f DEF Run, effects
    <2>2. req[r].op = "none" /\ NoEffect(i) /\ \A s \in Reqs : On(s, i) => ~Acting(s)
      BY <1>f, <1>4 DEF Run, Decidable, WaitingIsInert
    <2>3. \A j \in Ids : j # i => (Awaits(j)' => Awaits(j))
      BY <1>f, <2>1 DEF Run, WithStatus, Awaits, Visible, TypeOK
    <2>4. CASE UNCHANGED req
      BY <2>1, <2>2, <2>3, <2>4, <1>a
    <2>5. CASE ~UNCHANGED req
      <3>1. req'[r].id = i /\ \A s \in Reqs : s # r => req'[s] = req[s]
        BY <1>f, <2>5 DEF Run, Suspend, TypeOK
      <3>2. StartsToAct(r, i)
        BY <2>1, <2>2, <2>3, <3>1 DEF StartsToAct
      <3> QED
        BY <3>2, StartsToActKeeps
    <2> QED
      BY <2>4, <2>5
  <1>g. ASSUME NEW r \in Reqs, NEW i \in Ids, NEW t \in Texts \cup {NoText}, Confirm(r, i, t)
        PROVE  Alone'
    <2>1. UNCHANGED <<approveMails, confirmMails, launches, age>>
      BY <1>g DEF Confirm, effects
    <2>2. \A j \in Ids : Awaits(j)' => Awaits(j)
      BY <1>g, <1>1, <2>1 DEF Confirm, Awaits, Visible
    <2>3. CASE emailMode = "never"
      BY <1>g, <2>1, <2>2, <2>3, <1>a DEF Confirm
    <2>4. CASE emailMode # "never"
      <3>1. req'[r].id = i /\ \A s \in Reqs : s # r => req'[s] = req[s]
        BY <1>g, <2>4 DEF Confirm, Suspend, TypeOK
      <3>2. ~ConfirmInFlight(i) /\ Awaits(i) /\ req[r].op = "none"
        BY <1>g, <1>4 DEF Confirm, Awaits
      <3>3. NoEffect(i)
        BY <3>2 DEF Alone
      <3>4. \A s \in Reqs : On(s, i) => ~Acting(s)
        BY <3>2 DEF ConfirmInFlight, ApproveExcludesConfirm, Typed, Acting, On, Awaits
      <3>5. StartsToAct(r, i)
        BY <2>1, <2>2, <3>1, <3>2, <3>3, <3>4 DEF StartsToAct
      <3> QED
        BY <3>5, StartsToActKeeps
    <2> QED
      BY <2>3, <2>4
  <1>h. ASSUME NEW r \in Reqs, NEW i \in Ids, RectifyStarts(r, i) PROVE Alone'
    <2>1. \A s \in Reqs : req'[s] = req[s] \/ (req[s].op = "none" /\ req'[s].op = "rectify")
      BY <1>h, <1>4 DEF RectifyStarts, Suspend, TypeOK
    <2>2. NobodyNew
      BY <2>1, <1>h DEF NobodyNew, RectifyStarts, store, effects, Awaits, Visible, On, Acting
    <2> QED
      BY <2>2, NobodyNewKeeps
  \* Steps that end a coroutine, or move it, without an effect.
  <1>i. ASSUME NEW r \in Reqs, Finish(r), req[r].id \in Ids,
               UNCHANGED <<age, approveMails, confirmMails, launches>>,
               \A j \in Ids : status'[j] = "awaiting_confirm" => status[j] = "awaiting_confirm",
               req[r].op = "confirm" => status'[req[r].id] # "awaiting_confirm" \/ ~Visible(req[r].id)
        PROVE  Alone'
    <2>1. \A s \in Reqs : IF s = r THEN req'[s] = Idle ELSE req'[s] = req[s]
      BY <1>i DEF Finish, TypeOK
    <2>2. \A j \in Ids : Awaits(j)' => Awaits(j)
      BY <1>i DEF Awaits, Visible
    <2>3. req[r].op = "confirm" => \A j \in Ids : On(r, j) => ~Awaits(j)'
      BY <1>i, <2>2 DEF Awaits, On
    <2>4. NobodyNew
      BY <2>1, <2>2, <2>3, <1>3, <1>i DEF NobodyNew, On, Acting
    <2> QED
      BY <2>4, NobodyNewKeeps
  <1>j. ASSUME NEW r \in Reqs, BudgetAnswers(r) PROVE Alone'
    <2>1. req[r].op = "run" /\ req[r].id \in Ids /\ UNCHANGED <<age, approveMails, confirmMails, launches>>
      BY <1>j, <1>2 DEF BudgetAnswers, effects, WellFormed
    <2>2. \A j \in Ids : status'[j] = "awaiting_confirm" => status[j] = "awaiting_confirm"
      BY <1>j, <2>1, <1>1 DEF BudgetAnswers
    <2>3. CASE Finish(r)
      BY <2>1, <2>2, <2>3, <1>i
    <2>4. CASE Suspend(r, "launching", "run", req[r].id, NoText) /\ UNCHANGED status
      <3>1. \A s \in Reqs : req'[s] = req[s] \/
              (req'[s].op = req[s].op /\ req'[s].id = req[s].id /\ req[s].pc # "accepted")
        BY <1>j, <2>1, <2>4 DEF BudgetAnswers, Suspend, TypeOK
      <3>2. NobodyNew
        BY <2>1, <2>4, <3>1 DEF NobodyNew, On, Acting, Awaits, Visible
      <3> QED
        BY <3>2, NobodyNewKeeps
    <2> QED
      BY <1>j, <2>3, <2>4 DEF BudgetAnswers
  <1>k. ASSUME NEW r \in Reqs, LaunchFails(r) \/ RectifyFails(r) \/ \E t \in Texts : RectifyReturns(r, t)
        PROVE  Alone'
    <2>1. req[r].op # "confirm" /\ req[r].id \in Ids /\ Finish(r)
      BY <1>k, <1>2 DEF LaunchFails, RectifyFails, RectifyReturns, WellFormed
    <2>2. UNCHANGED <<age, approveMails, confirmMails, launches>>
      BY <1>k DEF LaunchFails, RectifyFails, RectifyReturns, store, effects
    <2>3. \A j \in Ids : status'[j] = "awaiting_confirm" => status[j] = "awaiting_confirm"
      BY <1>k, <2>1, <1>1 DEF LaunchFails, RectifyFails, RectifyReturns, store
    <2> QED
      BY <2>1, <2>2, <2>3, <1>i
  <1>l. ASSUME NEW r \in Reqs, NEW o \in {"sent", "error", "no_tool"}, SendReturns(r, o) PROVE Alone'
    <2>1. req[r].id \in Ids /\ Finish(r) /\ UNCHANGED <<age, approveMails, confirmMails, launches>>
      BY <1>l, <1>2 DEF SendReturns, effects
    <2>2. \A j \in Ids : status'[j] = "awaiting_confirm" => status[j] = "awaiting_confirm"
      BY <1>l, <2>1, <1>1 DEF SendReturns
    <2>3. req[r].op = "confirm" => status'[req[r].id] # "awaiting_confirm" \/ ~Visible(req[r].id)
      BY <1>l, <2>1 DEF SendReturns, WithStatus, TypeOK
    <2> QED
      BY <2>1, <2>2, <2>3, <1>i
  \* The two effects.
  <1>m. ASSUME NEW r \in Reqs, LaunchSucceeds(r) PROVE Alone'
    <2>0. PICK k \in Ids : k = req[r].id
      BY <1>m, <1>2 DEF LaunchSucceeds
    <2>1. Acting(r) /\ TypeOf[k] = "auto_task"
      BY <1>m, <2>0 DEF LaunchSucceeds, WellFormed, Acting, Typed
    <2>2. \A s \in Reqs : IF s = r THEN req'[s] = Idle ELSE req'[s] = req[s]
      BY <1>m DEF LaunchSucceeds, Finish, TypeOK
    <2>3. \A j \in Ids : j # k => (NoEffect(j)' <=> NoEffect(j))
      BY <1>m, <2>0 DEF LaunchSucceeds, NoEffect, TypeOK
    <2>4. \A j \in Ids : Awaits(j)' => Awaits(j)
      BY <1>m, <2>0, <1>1 DEF LaunchSucceeds, Awaits, Visible
    <2>5. ~Awaits(k)
      BY <2>1 DEF Awaits, Typed, Types
    <2>6. \A s \in Reqs : ~(On(s, k) /\ Acting(s))'
      BY <2>0, <2>1, <2>2, <1>3 DEF Alone, On, Acting
    <2>7. \A j \in Ids : j # k => (ConfirmInFlight(j) => ConfirmInFlight(j)')
      BY <2>0, <2>2, <1>3 DEF ConfirmInFlight
    <2> SUFFICES ASSUME NEW j \in Ids
                 PROVE  /\ \A u, s \in Reqs : (On(u, j) /\ On(s, j) /\ Acting(u) /\ Acting(s))' => u = s
                        /\ \A s \in Reqs : (On(s, j) /\ Acting(s) /\ req[s].pc # "accepted")' => NoEffect(j)'
                        /\ (Awaits(j) /\ ~NoEffect(j))' => ConfirmInFlight(j)'
      BY DEF Alone
    <2>8. CASE j = k
      BY <2>8, <2>1, <2>4, <2>5, <2>6
    <2>9. CASE j # k
      <3>1. \A s \in Reqs : (On(s, j) /\ Acting(s))' => req'[s] = req[s]
        BY <2>2, <1>3 DEF Acting
      <3> QED
        BY <2>9, <2>3, <2>4, <2>7, <3>1 DEF Alone, On, Acting
    <2> QED
      BY <2>8, <2>9
  <1>n. ASSUME NEW r \in Reqs, GmailAccepts(r) PROVE Alone'
    <2> DEFINE k == req[r].id
    <2>1. k \in Ids /\ Acting(r) /\ req[r].op \in {"approve", "confirm"} /\ UNCHANGED <<status, age>>
      BY <1>n, <1>2 DEF GmailAccepts, WellFormed, Acting, store
    <2>2. /\ req'[r].op = req[r].op /\ req'[r].id = k /\ req'[r].pc = "accepted"
          /\ \A s \in Reqs : s # r => req'[s] = req[s]
      BY <1>n DEF GmailAccepts, TypeOK, Request
    <2>3. \A j \in Ids : j # k => (NoEffect(j)' <=> NoEffect(j))
      BY <1>n DEF GmailAccepts, NoEffect, TypeOK
    <2>4. \A j \in Ids : Awaits(j)' <=> Awaits(j)
      BY <2>1 DEF Awaits, Visible
    <2>5. \A s \in Reqs, j \in Ids : (On(s, j) /\ Acting(s))' <=> On(s, j) /\ Acting(s)
      BY <2>2 DEF On, Acting
    <2>6. \A j \in Ids : ConfirmInFlight(j)' <=> ConfirmInFlight(j)
      BY <2>2 DEF ConfirmInFlight
    <2>7. Awaits(k) => ConfirmInFlight(k)
      BY <2>1 DEF Awaits, ApproveExcludesConfirm, ConfirmInFlight, On
    <2> SUFFICES ASSUME NEW j \in Ids
                 PROVE  /\ \A u, s \in Reqs : (On(u, j) /\ On(s, j) /\ Acting(u) /\ Acting(s))' => u = s
                        /\ \A s \in Reqs : (On(s, j) /\ Acting(s) /\ req[s].pc # "accepted")' => NoEffect(j)'
                        /\ (Awaits(j) /\ ~NoEffect(j))' => ConfirmInFlight(j)'
      BY DEF Alone
    <2>8. CASE j = k
      <3>1. \A s \in Reqs : (On(s, k) /\ Acting(s))' => s = r
        BY <2>1, <2>5 DEF Alone, On
      <3> QED
        BY <3>1, <2>2, <2>4, <2>6, <2>7, <2>8
    <2>9. CASE j # k
      <3>1. \A s \in Reqs : On(s, j)' => req'[s] = req[s]
        BY <2>2, <2>9 DEF On
      <3> QED
        BY <2>3, <2>4, <2>5, <2>6, <2>9, <3>1 DEF Alone
    <2> QED
      BY <2>8, <2>9
  <1> QED
    BY <1>b, <1>c, <1>d, <1>e, <1>f, <1>g, <1>h, <1>j, <1>k, <1>l, <1>m, <1>n DEF Next, Resume
(* A step without an effect decides what it takes out of "absent" and        *)
(* "pending", and puts nothing back.                                         *)
LEMMA DecidesOnly ==
  ASSUME UNCHANGED <<approveMails, confirmMails, launches>>,
         \A i \in Ids : status'[i] \in {"absent", "pending"} => status[i] \in {"absent", "pending"}
  PROVE  Promise!Decide
  <1> DEFINE S == {i \in Ids : ~Decided[i] /\ Decided'[i]}
  <1>1. S \in SUBSET {i \in Ids : ~Decided[i]}
    OBVIOUS
  <1>2. Decided' = [i \in Ids |-> Decided[i] \/ i \in S]
    BY DEF Decided
  <1>3. UNCHANGED Effects
    BY DEF Effects
  <1> QED
    BY <1>1, <1>2, <1>3 DEF Promise!Decide

(* The effect of a coroutine that acts for i, with the status as decided as  *)
(* it was.                                                                   *)
LEMMA ActsOnly ==
  ASSUME NEW i \in Ids, NoEffect(i), status[i] \notin {"absent", "pending"},
         \A j \in Ids : status'[j] \in {"absent", "pending"} <=> status[j] \in {"absent", "pending"},
         approveMails'[i] + confirmMails'[i] + launches'[i] = 1,
         \A j \in Ids : j # i =>
           /\ approveMails'[j] = approveMails[j]
           /\ confirmMails'[j] = confirmMails[j]
           /\ launches'[j] = launches[j]
  PROVE  Promise!Act(i)
  <1>1. Decided[i] /\ UNCHANGED Decided
    BY DEF Decided
  <1>2. Effects[i] = 0
    BY DEF Effects, NoEffect
  <1>3. Effects' = [Effects EXCEPT ![i] = 1]
    BY DEF Effects
  <1> QED
    BY <1>1, <1>2, <1>3 DEF Promise!Act

LEMMA PromiseStep ==
  ASSUME Inv, Alone, [Next]_vars
  PROVE  [Promise!Next]_(Promise!vars)
  <1> USE DEF Inv
  <1>1. \A i \in Ids : \A s : \A j \in Ids : WithStatus(i, s)[j] \in {status[j], s}
    BY DEF WithStatus, TypeOK
  <1>2. \A r \in Reqs : req[r].pc # "idle" => req[r].id \in Ids
    BY DEF WellFormed
  <1> DEFINE NoReturn ==
    \A i \in Ids : status'[i] \in {"absent", "pending"} => status[i] \in {"absent", "pending"}
  <1>a. ASSUME UNCHANGED <<approveMails, confirmMails, launches>>, NoReturn
        PROVE  Promise!Next
    BY <1>a, DecidesOnly DEF Promise!Next
  <1>b. ASSUME NEW i \in Ids, NEW v \in {"approved", "rejected"},
               Save(i) \/ Reject(i) \/ Dismiss(i) \/ ToolDecides(i, v)
        PROVE  Promise!Next
    <2>1. NoReturn
      BY <1>b, <1>1 DEF Save, Reject, Dismiss, ToolDecides, TypeOK
    <2> QED
      BY <2>1, <1>a, <1>b DEF Save, Reject, Dismiss, ToolDecides, effects
  <1>c. ASSUME NEW r \in Reqs, NEW i \in Ids,
               \/ Run(r, i) \/ RectifyStarts(r, i)
               \/ \E d \in Doors : Approve(r, i, d)
               \/ \E t \in Texts \cup {NoText} : Confirm(r, i, t)
        PROVE  Promise!Next
    <2>1. NoReturn
      BY <1>c, <1>1 DEF Approve, Run, RectifyStarts, Confirm, store
    <2> QED
      BY <2>1, <1>a, <1>c DEF Approve, Run, RectifyStarts, Confirm, effects
  <1>d. ASSUME NEW r \in Reqs,
               \/ BudgetAnswers(r) \/ LaunchFails(r) \/ RectifyFails(r)
               \/ \E t \in Texts : RectifyReturns(r, t)
               \/ \E o \in {"sent", "error", "no_tool"} : SendReturns(r, o)
        PROVE  Promise!Next
    <2>1. req[r].id \in Ids
      BY <1>d, <1>2 DEF BudgetAnswers, LaunchFails, RectifyFails, RectifyReturns, SendReturns
    <2>2. NoReturn
      BY <1>d, <2>1, <1>1 DEF BudgetAnswers, LaunchFails, RectifyFails, RectifyReturns,
         SendReturns, store
    <2> QED
      BY <2>2, <1>a, <1>d DEF BudgetAnswers, LaunchFails, RectifyFails, RectifyReturns,
         SendReturns, effects
  <1>e. CASE NightlyExpiry \/ NewDay \/ Restart \/ (\E m \in Modes : SetEmailMode(m))
             \/ UNCHANGED vars
    <2>1. NoReturn
      BY <1>e DEF NightlyExpiry, NewDay, Restart, SetEmailMode, vars, store
    <2> QED
      BY <2>1, <1>a, <1>e DEF NightlyExpiry, NewDay, Restart, SetEmailMode, vars, effects
  <1>f. ASSUME NEW r \in Reqs, LaunchSucceeds(r) PROVE Promise!Next
    <2>0. PICK k \in Ids : k = req[r].id
      BY <1>f, <1>2 DEF LaunchSucceeds
    <2>1. On(r, k) /\ Acting(r) /\ req[r].pc # "accepted"
      BY <1>f, <2>0 DEF LaunchSucceeds, WellFormed, On, Acting
    <2>2. NoEffect(k) /\ status[k] \notin {"absent", "pending"}
      BY <2>1 DEF Alone, WaitingIsInert
    <2>3. \A j \in Ids : status'[j] \in {"absent", "pending"} <=> status[j] \in {"absent", "pending"}
      BY <1>f, <2>0, <2>2 DEF LaunchSucceeds, WithStatus, TypeOK
    <2>4. UNCHANGED <<approveMails, confirmMails>> /\ launches' = [launches EXCEPT ![k] = @ + 1]
      BY <1>f, <2>0 DEF LaunchSucceeds
    <2>5. approveMails'[k] + confirmMails'[k] + launches'[k] = 1
      BY <2>2, <2>4 DEF NoEffect, TypeOK
    <2>6. Promise!Act(k)
      BY <2>2, <2>3, <2>4, <2>5, ActsOnly DEF TypeOK
    <2> QED
      BY <2>6 DEF Promise!Next
  <1>g. ASSUME NEW r \in Reqs, GmailAccepts(r) PROVE Promise!Next
    <2>0. PICK k \in Ids : k = req[r].id
      BY <1>g, <1>2 DEF GmailAccepts
    <2>1. On(r, k) /\ Acting(r) /\ req[r].pc # "accepted"
      BY <1>g, <2>0 DEF GmailAccepts, WellFormed, On, Acting
    <2>2. NoEffect(k) /\ status[k] \notin {"absent", "pending"}
      BY <2>1 DEF Alone, WaitingIsInert
    <2>3. UNCHANGED <<status, launches>>
      BY <1>g DEF GmailAccepts, store
    <2>4. \/ approveMails' = [approveMails EXCEPT ![k] = @ + 1] /\ UNCHANGED confirmMails
          \/ confirmMails' = [confirmMails EXCEPT ![k] = @ + 1] /\ UNCHANGED approveMails
      BY <1>g, <2>0 DEF GmailAccepts
    <2>5. approveMails'[k] + confirmMails'[k] + launches'[k] = 1
      BY <2>2, <2>3, <2>4 DEF NoEffect, TypeOK
    <2>6. Promise!Act(k)
      BY <2>2, <2>3, <2>4, <2>5, ActsOnly DEF TypeOK
    <2> QED
      BY <2>6 DEF Promise!Next
  <1> QED
    BY <1>b, <1>c, <1>d, <1>e, <1>f, <1>g DEF Next, Resume

(* COMMENT_CA_MARCHE.md:530-533: with a client that sends one confirm at a   *)
(* time and a process that does not die, the five doors together implement   *)
(* DecisionPromise: one decision, and then at most one effect.               *)
THEOREM DoorsKeepPromise ==
  ASSUME SerialConfirms, MaxRestarts = 0
  PROVE  Spec => KeepsPromise
  <1>1. Init => Typed /\ Alone
    BY ConstantsAssumption DEF Init, Typed, Alone, On, Acting, Awaits, NoEffect, Idle
  <1>2. Init => Promise!Init
    <2> SUFFICES ASSUME Init PROVE Promise!Init
      OBVIOUS
    <2>1. Decided = [i \in Ids |-> FALSE]
      BY DEF Init, Decided
    <2>2. Effects = [i \in Ids |-> 0]
      BY DEF Init, Effects
    <2> QED
      BY <2>1, <2>2 DEF Promise!Init
  <1>3. Inv /\ Typed /\ Alone /\ [Next]_vars => Typed' /\ Alone'
    BY TypedStep, AloneStep
  <1>4. Inv /\ Alone /\ [Next]_vars => [Promise!Next]_(Promise!vars)
    BY PromiseStep
  <1> QED
    BY <1>1, <1>2, <1>3, <1>4, InvAlways, PTL DEF Spec, KeepsPromise, Promise!Spec
==============================================================================
