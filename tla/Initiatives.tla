----------------------------- MODULE Initiatives -----------------------------
(***************************************************************************)
(* The life of an initiative, from the moment the proactive engine saves   *)
(* it to the e-mail it sends or the mission it launches.                   *)
(*                                                                         *)
(* Five doors write the same JSONL store:                                  *)
(*   - interfaces/decision.py          traiter: approve or reject          *)
(*   - engine/proactive/executor.py    run, then confirm                   *)
(*   - interfaces/api/proactive.py     rectify, dismiss                    *)
(*   - capabilities/tools/initiatives.py   the tool of the conversation    *)
(*   - engine/background/scheduler.py  the nightly expiry                  *)
(* The process is one asyncio loop: what stands between two awaits is one  *)
(* step, and any other request may run at each await.  A request that is   *)
(* suspended at an await occupies a slot of Reqs.                          *)
(***************************************************************************)
EXTENDS Naturals, FiniteSets

CONSTANTS
  Ids,            \* initiatives
  Reqs,           \* slots for the coroutines suspended at an await
  Texts,          \* what an initiative says: title, draft, mission
  NoId, NoText,   \* no initiative, no text
  TypeOf,         \* the type of each initiative; rectify keeps it
  Window,         \* days during which the store finds an initiative (7)
  ExpireAfter,    \* setting initiatives_expirent_apres_jours (5)
  ScanWindow,     \* days the nightly expiry looks back (30)
  MaxSkipped,     \* bound: nights without the expiry pass
  MaxRestarts,    \* bound: restarts of the process
  SerialConfirms  \* the client waits for a confirm before it sends another

Types == {"draft_response", "auto_task", "info"}
Statuses == {"pending", "in_progress", "awaiting_confirm", "approved",
             "rejected", "dismissed", "done", "failed", "expired"}
Doors == {"http", "telegram"}   \* telegram calls traiter with no orchestrator
Modes == {"ask", "never"}       \* email_send; "always" acts here as "ask"

ASSUME ConstantsAssumption ==
  /\ TypeOf \in [Ids -> Types]
  /\ NoId \notin Ids /\ NoText \notin Texts
  /\ Window \in Nat /\ ExpireAfter \in Nat /\ ScanWindow \in Nat
  /\ MaxSkipped \in Nat /\ MaxRestarts \in Nat
  /\ SerialConfirms \in BOOLEAN

\* The delay leaves the nightly pass one day before the store loses sight of
\* an initiative: 5 + 1 < 7 <= 30 with the defaults.
ASSUME WindowAssumption == ExpireAfter + 1 < Window /\ Window <= ScanWindow

VARIABLES
  status,     \* status of each initiative, "absent" until it is saved
  age,        \* calendar days since it was saved, at most ScanWindow
  text,       \* its current text in the store
  emailMode,  \* approval_config.email_send
  req,        \* what each slot is suspended at
  swept,      \* the nightly expiry ran today
  skipped,    \* nights the process was down at 3:10
  restarts,   \* restarts so far
  approveMails, confirmMails,  \* e-mails Gmail accepted, by door
  launches,   \* missions create_and_run started
  reviewed,   \* texts run or rectify returned to the client, or confirm received
  mailed      \* texts confirm got accepted by Gmail

store == <<status, age, text>>
calendar == <<swept, skipped>>
effects == <<approveMails, confirmMails, launches, mailed>>
vars == <<store, emailMode, req, calendar, restarts, effects, reviewed>>

(* A coroutine waits for: the answer of the language model ("rectifying"), *)
(* the budget lock ("reserving"), create_and_run ("launching"), Gmail to   *)
(* accept ("sending") and then Gmail's answer ("accepted").                *)
Pcs == {"idle", "rectifying", "reserving", "launching", "sending", "accepted"}
Ops == {"none", "approve", "run", "confirm", "rectify"}
Request == [pc: Pcs, op: Ops, id: Ids \cup {NoId}, text: Texts \cup {NoText}]
Idle == [pc |-> "idle", op |-> "none", id |-> NoId, text |-> NoText]

TypeOK ==
  /\ status \in [Ids -> Statuses \cup {"absent"}]
  /\ age \in [Ids -> 0..ScanWindow]
  /\ text \in [Ids -> Texts]
  /\ emailMode \in Modes
  /\ req \in [Reqs -> Request]
  /\ swept \in BOOLEAN /\ skipped \in 0..MaxSkipped /\ restarts \in 0..MaxRestarts
  /\ approveMails \in [Ids -> Nat] /\ confirmMails \in [Ids -> Nat]
  /\ launches \in [Ids -> Nat]
  /\ reviewed \in [Ids -> SUBSET Texts] /\ mailed \in [Ids -> SUBSET Texts]

Init ==
  /\ status = [i \in Ids |-> "absent"]
  /\ age = [i \in Ids |-> 0]
  /\ text \in [Ids -> Texts]
  /\ emailMode = "ask"
  /\ req = [r \in Reqs |-> Idle]
  /\ swept = FALSE /\ skipped = 0 /\ restarts = 0
  /\ approveMails = [i \in Ids |-> 0] /\ confirmMails = [i \in Ids |-> 0]
  /\ launches = [i \in Ids |-> 0]
  /\ reviewed = [i \in Ids |-> {}] /\ mailed = [i \in Ids |-> {}]

-----------------------------------------------------------------------------
(* The store *)

\* get_by_id, update_status and update_initiative look at the files of the
\* last seven calendar days; an older initiative is not found.
Visible(i) == status[i] # "absent" /\ age[i] < Window

\* update_status: silently does nothing when the initiative is not found.
WithStatus(i, s) == IF Visible(i) THEN [status EXCEPT ![i] = s] ELSE status

Suspend(r, pc, op, i, t) ==
  req' = [req EXCEPT ![r] = [pc |-> pc, op |-> op, id |-> i, text |-> t]]
Finish(r) == req' = [req EXCEPT ![r] = Idle]

\* The engine saves what it generated.  When a pending title resembles it,
\* save returns without writing: the initiative stays absent, no step here.
Save(i) ==
  /\ status[i] = "absent"
  /\ status' = [status EXCEPT ![i] = "pending"]
  /\ age' = [age EXCEPT ![i] = 0]
  /\ UNCHANGED <<text, emailMode, req, calendar, restarts, effects, reviewed>>

-----------------------------------------------------------------------------
(* traiter, and the tool that decides without it *)

\* Slip: the second press of the button is not told from the first.
DecidableAgain(i) == Visible(i) /\ status[i] \in {"pending", "approved", "in_progress"}

Decidable(i) == Visible(i) /\ status[i] = "pending"

\* traiter(approuvee=True): the status is written before the action starts.
Approve(r, i, door) ==
  /\ req[r].pc = "idle"
  /\ Decidable(i)
  /\ status' = WithStatus(i, "approved")
  /\ \/ TypeOf[i] = "draft_response" /\ Suspend(r, "sending", "approve", i, text[i])
     \/ TypeOf[i] = "auto_task" /\ door = "http" /\ Suspend(r, "launching", "approve", i, NoText)
     \/ TypeOf[i] = "auto_task" /\ door = "telegram" /\ UNCHANGED req
     \/ TypeOf[i] = "info" /\ UNCHANGED req
  /\ UNCHANGED <<age, text, emailMode, calendar, restarts, effects, reviewed>>

\* Slip: a refusal is written whatever was already decided.
RejectAnyStatus(i) ==
  /\ Visible(i)
  /\ status' = WithStatus(i, "rejected")
  /\ UNCHANGED <<age, text, emailMode, req, calendar, restarts, effects, reviewed>>

\* traiter(approuvee=False), and the tool of the conversation: a status and
\* nothing else.
Reject(i) ==
  /\ Decidable(i)
  /\ status' = WithStatus(i, "rejected")
  /\ UNCHANGED <<age, text, emailMode, req, calendar, restarts, effects, reviewed>>

ToolDecides(i, verdict) ==
  /\ Decidable(i)
  /\ status' = WithStatus(i, verdict)
  /\ UNCHANGED <<age, text, emailMode, req, calendar, restarts, effects, reviewed>>

-----------------------------------------------------------------------------
(* InitiativeExecutor *)

\* run: one step up to its first await.
Run(r, i) ==
  /\ req[r].pc = "idle"
  /\ Decidable(i)
  /\ \/ /\ TypeOf[i] = "draft_response"
        /\ status' = WithStatus(i, "awaiting_confirm")
        /\ reviewed' = [reviewed EXCEPT ![i] = @ \cup {text[i]}]
        /\ UNCHANGED req
     \/ /\ TypeOf[i] = "auto_task"
        /\ status' = WithStatus(i, "in_progress")
        /\ Suspend(r, "reserving", "run", i, NoText)
        /\ UNCHANGED reviewed
     \/ /\ TypeOf[i] = "info"
        /\ status' = WithStatus(i, "done")
        /\ UNCHANGED <<req, reviewed>>
  /\ UNCHANGED <<age, text, emailMode, calendar, restarts, effects>>

\* _launch_mission after budget.reserve answers.
BudgetAnswers(r) ==
  /\ req[r].pc = "reserving"
  /\ \/ /\ Suspend(r, "launching", "run", req[r].id, NoText)
        /\ UNCHANGED status
     \/ /\ Finish(r)
        /\ status' = WithStatus(req[r].id, "failed")
  /\ UNCHANGED <<age, text, emailMode, calendar, restarts, effects, reviewed>>

\* create_and_run returns a running project.
LaunchSucceeds(r) ==
  /\ req[r].pc = "launching"
  /\ launches' = [launches EXCEPT ![req[r].id] = @ + 1]
  /\ status' = IF req[r].op = "run" THEN WithStatus(req[r].id, "in_progress") ELSE status
  /\ Finish(r)
  /\ UNCHANGED <<age, text, emailMode, calendar, restarts, approveMails, confirmMails,
                 mailed, reviewed>>

\* Slip: the exception of create_and_run is swallowed.
LaunchFailsSilently(r) ==
  /\ req[r].pc = "launching"
  /\ Finish(r)
  /\ UNCHANGED <<store, emailMode, calendar, restarts, effects, reviewed>>

\* create_and_run raises: run records it, the task of traiter loses it.
LaunchFails(r) ==
  /\ req[r].pc = "launching"
  /\ status' = IF req[r].op = "run" THEN WithStatus(req[r].id, "failed") ELSE status
  /\ Finish(r)
  /\ UNCHANGED <<age, text, emailMode, calendar, restarts, effects, reviewed>>

ConfirmInFlight(i) ==
  \E r \in Reqs : req[r].op = "confirm" /\ req[r].id = i

\* confirm: the edited draft is stored first; the status stays
\* awaiting_confirm while Gmail works.
Confirm(r, i, edited) ==
  /\ req[r].pc = "idle"
  /\ SerialConfirms => ~ConfirmInFlight(i)
  /\ Visible(i) /\ status[i] = "awaiting_confirm"
  /\ text' = IF edited = NoText THEN text ELSE [text EXCEPT ![i] = edited]
  /\ reviewed' = [reviewed EXCEPT ![i] = @ \cup ({edited} \ {NoText})]
  /\ \/ /\ emailMode = "never"
        /\ status' = WithStatus(i, "failed")
        /\ UNCHANGED req
     \/ /\ emailMode # "never"
        /\ Suspend(r, "sending", "confirm", i, text'[i])
        /\ UNCHANGED status
  /\ UNCHANGED <<age, emailMode, calendar, restarts, effects>>

-----------------------------------------------------------------------------
(* Gmail, on behalf of traiter or of confirm *)

\* The message leaves: from here on it cannot be taken back.
GmailAccepts(r) ==
  LET i == req[r].id IN
  /\ req[r].pc = "sending"
  /\ req' = [req EXCEPT ![r].pc = "accepted"]
  /\ \/ /\ req[r].op = "approve"
        /\ approveMails' = [approveMails EXCEPT ![i] = @ + 1]
        /\ UNCHANGED <<confirmMails, mailed>>
     \/ /\ req[r].op = "confirm"
        /\ confirmMails' = [confirmMails EXCEPT ![i] = @ + 1]
        /\ mailed' = [mailed EXCEPT ![i] = @ \cup {req[r].text}]
        /\ UNCHANGED approveMails
  /\ UNCHANGED <<store, emailMode, calendar, restarts, launches, reviewed>>

\* The await ends: with the message id, with an exception (Gmail refused, or
\* its answer was lost), or, for confirm, with an ImportError that is "done".
SendReturns(r, outcome) ==
  /\ \/ req[r].pc = "accepted" /\ outcome \in {"sent", "error"}
     \/ req[r].pc = "sending" /\ outcome \in {"error", "no_tool"}
  /\ status' = IF req[r].op = "approve" THEN status
               ELSE WithStatus(req[r].id, IF outcome = "error" THEN "failed" ELSE "done")
  /\ Finish(r)
  /\ UNCHANGED <<age, text, emailMode, calendar, restarts, effects, reviewed>>

-----------------------------------------------------------------------------
(* rectify and dismiss, with no look at the status *)

RectifyStarts(r, i) ==
  /\ req[r].pc = "idle"
  /\ Visible(i)
  /\ Suspend(r, "rectifying", "rectify", i, NoText)
  /\ UNCHANGED <<store, emailMode, calendar, restarts, effects, reviewed>>

\* Slip: the new text is stored, and the answer shows the old one.
RectifyReturnsOld(r, t) ==
  /\ req[r].pc = "rectifying"
  /\ text' = IF Visible(req[r].id) THEN [text EXCEPT ![req[r].id] = t] ELSE text
  /\ reviewed' = [reviewed EXCEPT ![req[r].id] = @ \cup {text[req[r].id]}]
  /\ Finish(r)
  /\ UNCHANGED <<status, age, emailMode, calendar, restarts, effects>>

\* The language model rewrote the initiative: its text and not its status.
\* The answer shows the new text.
RectifyReturns(r, t) ==
  /\ req[r].pc = "rectifying"
  /\ text' = IF Visible(req[r].id) THEN [text EXCEPT ![req[r].id] = t] ELSE text
  /\ reviewed' = [reviewed EXCEPT ![req[r].id] = @ \cup {t}]
  /\ Finish(r)
  /\ UNCHANGED <<status, age, emailMode, calendar, restarts, effects>>

\* The answer could not be parsed: HTTP 500, nothing is written.
RectifyFails(r) ==
  /\ req[r].pc = "rectifying"
  /\ Finish(r)
  /\ UNCHANGED <<store, emailMode, calendar, restarts, effects, reviewed>>

Dismiss(i) ==
  /\ Visible(i)
  /\ status' = WithStatus(i, "dismissed")
  /\ UNCHANGED <<age, text, emailMode, req, calendar, restarts, effects, reviewed>>

-----------------------------------------------------------------------------
(* The calendar, the settings and the process *)

\* Slip: the setting is 0, which disables the pass.
NeverOverdue(i, due) == FALSE

Overdue(i, due) == age[i] > ExpireAfter \/ i \in due

\* expirer compares instants: at exactly ExpireAfter calendar days, the hour
\* at which the initiative was created decides.
NightlyExpiry ==
  /\ ~swept
  /\ \E due \in SUBSET {i \in Ids : age[i] = ExpireAfter} :
       status' = [i \in Ids |->
         IF status[i] = "pending" /\ age[i] < ScanWindow /\ Overdue(i, due)
         THEN "expired" ELSE status[i]]
  /\ swept' = TRUE
  /\ UNCHANGED <<age, text, emailMode, req, skipped, restarts, effects, reviewed>>

\* Midnight.  A day ends with the expiry pass done, or with the process down
\* at 3:10 (at most MaxSkipped such nights).
NewDay ==
  /\ \/ swept /\ UNCHANGED skipped
     \/ ~swept /\ skipped < MaxSkipped /\ skipped' = skipped + 1
  /\ swept' = FALSE
  /\ age' = [i \in Ids |-> IF status[i] # "absent" /\ age[i] < ScanWindow
                           THEN age[i] + 1 ELSE age[i]]
  /\ UNCHANGED <<status, text, emailMode, req, restarts, effects, reviewed>>

SetEmailMode(m) ==
  /\ emailMode' = m
  /\ UNCHANGED <<store, req, calendar, restarts, effects, reviewed>>

\* The process dies: the store is on disk, the coroutines are not.
Restart ==
  /\ restarts < MaxRestarts
  /\ restarts' = restarts + 1
  /\ req' = [r \in Reqs |-> Idle]
  /\ UNCHANGED <<store, emailMode, calendar, effects, reviewed>>

-----------------------------------------------------------------------------
Resume(r) ==
  \/ BudgetAnswers(r) \/ LaunchSucceeds(r) \/ LaunchFails(r)
  \/ GmailAccepts(r)
  \/ \E outcome \in {"sent", "error", "no_tool"} : SendReturns(r, outcome)
  \/ \E t \in Texts : RectifyReturns(r, t)
  \/ RectifyFails(r)

Next ==
  \/ \E i \in Ids : Save(i) \/ Reject(i) \/ Dismiss(i)
  \/ \E i \in Ids, v \in {"approved", "rejected"} : ToolDecides(i, v)
  \/ \E r \in Reqs, i \in Ids, d \in Doors : Approve(r, i, d)
  \/ \E r \in Reqs, i \in Ids : Run(r, i) \/ RectifyStarts(r, i)
  \/ \E r \in Reqs, i \in Ids, t \in Texts \cup {NoText} : Confirm(r, i, t)
  \/ \E r \in Reqs : Resume(r)
  \/ \E m \in Modes : SetEmailMode(m)
  \/ NightlyExpiry \/ NewDay \/ Restart

Spec == Init /\ [][Next]_vars

\* The scheduler and the calendar go on.
CalendarSpec == Spec /\ WF_vars(NightlyExpiry) /\ WF_vars(NewDay)

-----------------------------------------------------------------------------
(* Properties *)

Settled == {"rejected", "expired"}

\* decision.py:100-103 and executor.py:89: the status leaves "pending" before
\* the action starts and nothing ever restores it, so an approval e-mails at
\* most once, approve and confirm never both e-mail, and a mission starts at
\* most once, whatever the doors, the order of the answers or the restarts.
ActsOncePerDecision ==
  \A i \in Ids :
    /\ approveMails[i] <= 1
    /\ launches[i] <= 1
    /\ approveMails[i] > 0 => confirmMails[i] = 0

\* What was refused or left to expire is never acted upon: no e-mail, no
\* mission, and no coroutine on its way to one.
RefusedIsInert ==
  \A i \in Ids : status[i] \in Settled =>
    /\ approveMails[i] = 0 /\ confirmMails[i] = 0 /\ launches[i] = 0
    /\ \A r \in Reqs : req[r].id = i => req[r].op = "rectify"

\* A mission in progress was started, is being started, or was cut by a
\* restart or by the seven-day window: run never forgets it otherwise.
InProgressIsAccounted ==
  \A i \in Ids : status[i] = "in_progress" =>
    \/ launches[i] = 1
    \/ \E r \in Reqs : req[r].id = i /\ req[r].op = "run"
    \/ restarts > 0
    \/ age[i] >= Window

\* COMMENT_CA_MARCHE.md:530-533 and decision.py:13-22: whatever the doors, an
\* initiative has at most one effect.
EffectAtMostOnce ==
  \A i \in Ids : approveMails[i] + confirmMails[i] + launches[i] <= 1

\* executor.py:78 and 121, proactive.py:116-142: whatever rectifications land
\* between run and confirm, confirm e-mails a text that an answer showed the
\* client or that the client handed over.
MailedWasReviewed == \A i \in Ids : mailed[i] \subseteq reviewed[i]

\* executor.py:12-14: with email_send at "never" no sending begins.
NeverBlocksSending ==
  [][\A r \in Reqs : req[r].pc = "idle" /\ req'[r].pc = "sending" => emailMode # "never"]_vars

\* store.py:333-347: no initiative waits for an answer forever.
PendingIsSettled == \A i \in Ids : status[i] = "pending" ~> status[i] # "pending"

-----------------------------------------------------------------------------
(* What the store and its doors promise together *)

Decided == [i \in Ids |-> status[i] \notin {"absent", "pending"}]
Effects == [i \in Ids |-> approveMails[i] + confirmMails[i] + launches[i]]
Promise == INSTANCE DecisionPromise WITH decided <- Decided, effects <- Effects

\* With a client that sends one confirm at a time and a process that does
\* not die, every step decides once, acts once after the decision, or
\* changes neither.
KeepsPromise == Promise!Spec
==============================================================================
