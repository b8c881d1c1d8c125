# Crush-OS in TLA+

Crush-OS is a personal assistant. One Python process runs an asyncio event loop
that talks to the user (web interface, Telegram, voice), watches for things worth
proposing, carries out multi-step missions with tools and language models, and
keeps a memory of facts about the user. This directory models the parts of it
where an interleaving, a restart or a late answer decides whether the program is
right; the configurations check the models on small instances, and the `*Proofs`
modules prove the properties that matter most for instances of any size.

Paths below are relative to `src/src/crush/`.

- [1. The system](#1-the-system)
- [2. How the models are built](#2-how-the-models-are-built)
- [3. Initiatives](#3-initiatives)
- [4. Missions](#4-missions)
- [5. Facts and the inbox](#5-facts-and-the-inbox)
- [6. Conversation](#6-conversation)
- [7. Consent](#7-consent)
- [8. Remote agents](#8-remote-agents)
- [9. Skills](#9-skills)
- [10. Spending and the proactive engine](#10-spending-and-the-proactive-engine)
- [11. The upkeep of the memory](#11-the-upkeep-of-the-memory)
- [12. What the runs show](#12-what-the-runs-show)
- [13. Fairness and deadlock](#13-fairness-and-deadlock)
- [14. What is proved](#14-what-is-proved)
- [15. Where the code and its documents disagree](#15-where-the-code-and-its-documents-disagree)
- [16. What is not modelled](#16-what-is-not-modelled)
- [17. Plan](#17-plan)

## 1. The system

Everything runs on one event loop, except the voice process, which shares the
databases and the permission file, and the scripts run beside the service. Between
two `await`s a coroutine is alone; at each `await` anything else may run. Most of
the state is on disk (JSONL, JSON, SQLite, Markdown) and survives the process;
coroutines and futures do not.

| Component | State | Operations | Interacts with | What is hard | What makes it correct |
|---|---|---|---|---|---|
| **Initiatives** (`engine/proactive/store.py`, `executor.py`, `interfaces/decision.py`, `interfaces/api/proactive.py`, `capabilities/tools/initiatives.py`) | one JSONL file a day: status and text of each proposal | save, approve, reject, run, confirm, rectify, dismiss, expire | Gmail, missions, budget, approval modes, scheduler | five doors write one status; the e-mail leaves in the middle of an `await`; the store only sees seven days | decided once; acts at most once, and only after the decision; a refusal never acts; nothing waits forever |
| **Missions** (`engine/mission/orchestrator.py`, `worker_agent.py`, `project_store.py`, `interfaces/api/projects.py`) | `state.json`, `step_claims.json`, the workers and their copies of the project, futures of the questions | create, run a step, claim, ask, verify, pause, kill, retry, resume, reset, delete | governance gate, budget, Docker, models, user | a killed worker goes on until its next step; retry reads a file the old worker will overwrite; claims outlive the process | one worker per step; a step is executed once; a sensitive one only with consent; done means verified |
| **Mission helpers** (`project_manager.py`, `governance.py`, `verifier.py`, backends) | none kept | plan, gate, verify, execute | models, Docker | answers may fail or come late | the gate keeps the strictest of its axes |
| **Facts and ingest** (`providers/memory/kernel.py`, `ingest.py`) | SQLite table of facts with a status each | extract, reconcile, arbitrate, confirm, supersede, correct, merge | models, inbox, interface, night | rows read before the arbiter's `await` are written after it | the user's last word stands; what is out of the vocabulary stays out of the main memory |
| **Inbox** (`providers/memory/boite_reception.py`) | one Markdown file the user also edits | read, execute, write | facts, ingest, scheduler, interface | the file is written from what was read before the `await`s; passes overlap | no line that a pass reads is lost; none is executed twice |
| **Conversation** (`engine/gateway.py`, `agent.py`, `router.py`, `session.py`, `engine/background/worker.py`, `notifications.py`, the doors under `interfaces/`) | sessions, the turns that are open, notices, background tasks | receive, route, stream, call tools, word, close, submit work, learn | models, tools, memory | a client leaves at any piece; tools run beside the stream; a failed request starts again; turns share the queue of notices and a cache | the history is whole before anything rests on it; one attempt speaks; tools run once; work is done once, and reported unless a task holds the worker for ever |
| **Language models** (`providers/llm/api.py`) | signatures of calls | stream, capture, retry, tool loop | conversation, missions | a retry after part of an answer; calls captured before the stream ends | only one attempt is heard |
| **Approvals of tools** (`kernel/approvals.py`, `engine/approval_checker.py`, `engine/mission/backends/rpc.py`, `capabilities/tools/subagent.py`) | mode of each category, questions that wait, files of the bridge | ask, answer, time out, change a mode, run a script that calls tools | tools, missions, user | an answer races a time-out and a cancellation; requests are found by looking again and again | starts on its own yes; each call once and within the quota; nothing after the end |
| **Remote agents** (`kernel/remote_agents.py`, `interfaces/api/agent_ws.py`, `scripts/agent_pc.py`) | registry by name, calls that wait | connect, present, dispatch, answer, give up, disconnect | sockets, tools | the old connection closes after the new one opened; an answer after the time-out | a call is answered by what it asked for; an entry can be reached; nothing waits for a machine |
| **Skills** (`capabilities/skills/`, `capabilities/tools/skills.py`) | two directories, a table of records, the registry | scan, propose, try, promote, reject, install, improve, uninstall, reload | models, sandbox, store | four writers of the same names with `await`s between their looks and their writes | what leaves the laboratory passed its test; removed code is nowhere; removed stays gone, but for an order still at its catalogue |
| **Budget and tracking** (`engine/budget.py`, `tracking.py`) | ledger on disk, totals in memory, thresholds told | track, note, reserve, seed | every caller of a model, missions | reserve records nothing; expenses are noted by a task of their own; one expense may pass two thresholds; the lesson of a mission is paid with no reservation | memory and ledger agree; the ceiling is told; overruns are bounded |
| **Proactive engine** (`engine/proactive/engine.py`, `initiative_generator.py`) | cycle, notices, questions pushed, silence hours | cycle, save, tell | models, initiatives, channels, budget | limits read before the model is awaited; `save` may decline silently | what is asked can be answered; the queue stays short |
| **Semantic index, mirror, preferences, archives** (`providers/memory/search.py`, `fact_index.py`, `auto_dream.py`, `mirror.py`, `sauvegarde.py`) | vectors and their file, documents, one text with one copy, archive files | index, remove, synchronise, export, rewrite, archive, purge | facts, topics, models, night, doors, scripts | a list made before the lock is published after it; two processes archive; a model rewrites what it read minutes ago | what was published to the end is exact; what is withdrawn is forgotten; the user's text is lost only to what left before it or to a failed write; a whole archive remains |
| **Scheduler and routines** (`engine/background/`) | loops, last runs, alerts | nightly pass, inbox pass, archive, calendar alerts, reminders, routines | every store | a night with the process down | each due thing happens once |
| **Permissions, persistence** (`kernel/permissions.py`, `persistance.py`, `file_lock.py`) | JSON files shared by two processes | grant, revoke, read, atomic write | tools, voice process | a cached file and its time stamp | a revoked permission is not used |
| **Channels, web interface, tools, audio, vision, analytics** | connections, devices | input and output, adapters | everything | outside services | - |

`PROJECT.json` lists the same components with their sources, what is modelled of
each and, for what is not, why; and, under `hazards`, each thing that can go wrong
at its line with the property that watches it.

## 2. How the models are built

| Module | Models | Lines of code it reads |
|---|---|---|
| `DecisionPromise` | what the user is promised about an initiative: decided once, then at most one effect | - |
| `Initiatives` | the five doors, the store, Gmail, the calendar, the restart | `engine/proactive/`, `interfaces/decision.py`, `interfaces/api/proactive.py`, tools |
| `Mission` | the orchestrator, its workers, the files, the user, the API | `engine/mission/`, `interfaces/api/projects.py` |
| `Facts` | the table of facts, ingests, the arbiter, corrections, the merge | `providers/memory/ingest.py`, `kernel.py` |
| `Inbox` (extends `Facts`) | the file and its passes | `providers/memory/boite_reception.py`, scheduler, route |
| `Streams` | a stream of a model: text, captured calls, retries, signatures | `providers/llm/api.py` |
| `Conversation` (extends `Streams`) | turns, sessions, tools, background work, notices | `engine/gateway.py`, `agent.py`, `router.py`, `session.py`, `engine/background/`, `interfaces/` |
| `Consent` | questions of tools, the bridge of scripts | `engine/approval_checker.py`, `backends/rpc.py`, `tools/subagent.py` |
| `RemoteAgents` | machines, connections, registry, calls, on both sides | `kernel/remote_agents.py`, `agent_ws.py`, `remote_pc.py`, `scripts/agent_pc.py` |
| `Skills` | laboratory, store, improvement, registry | `capabilities/skills/`, tools and routes |
| `Spending` | ledger, totals, thresholds, reservations, the lesson of a mission | `engine/budget.py`, `tracking.py`, `bootstrap.py`, `engine/mission/worker_agent.py`, `reflexion.py` |
| `Proactive` (extends `Spending`) | the cycle, what it stores and tells | `engine/proactive/engine.py`, `initiative_generator.py`, `store.py` |
| `SearchIndex` | index, its lock and file, the deep pass, the mirror, the doors | `providers/memory/search.py`, `fact_index.py`, `auto_dream.py`, `mirror.py`, routes, tools |
| `Prefs` | the preferences and the passes that rewrite them | `providers/memory/auto_dream.py`, `interfaces/api/admin.py` |
| `Archives` | archives written by two processes, and their purge | `providers/memory/sauvegarde.py`, scheduler, script |
| `MC*` | values of the constants for TLC; `MCUpkeep` puts `SearchIndex`, `Prefs` and `Archives` in one instance | |
| `*Proofs` | inductive invariants and theorems, for each module of its name (`InboxProofs` with `Facts`, `ConversationProofs` with `Streams`; `UpkeepProofs` is about `Prefs`, `Archives`, `SearchIndex`, and `Proactive` with `Spending`) | |

An action goes from one `await` to the next: everything the handler writes in
between is part of it, and everything it read before an `await` and uses after it
is kept in a variable (the request in `Initiatives`, the worker's copy in
`Mission`, the rows shown to the arbiter in `Facts`, the file as read in `Inbox`,
the list of a pass in `SearchIndex`, the text read in `Prefs`). Where one stretch
of code between two `await`s goes over several lines or candidates, the model
takes them one at a time but holds the loop meanwhile: no other task moves while a
task is `"reconciling"` or a pass is `"running"` (`LoopIsFree`, `Turn`). Where the
outcome does not depend on what runs in between (the fan-out of the tools of a
turn, the batch of a generation), several lines are one step.

Modules compose in two ways. `Initiatives` instances `DecisionPromise` with
`decided` and `effects` computed from the statuses and the counters, and
`KeepsPromise` says it implements it. `Inbox` extends `Facts`: a line "retiens"
starts an ingest of `Facts` and waits for it, a line "oublie" or "faux" is the
correction the interface also offers, and the ingests, the arbiters and the merge
go on beside the passes. `Conversation` extends `Streams` in the same way, a turn
driving one stream at a time, and `Proactive` extends `Spending`: the engine pays
for what it generates out of the budget that the missions and the conversation use.

What comes from outside (a model, Gmail, Docker, a machine, the user) is a choice
among the outcomes the code tells apart. Histories (how many e-mails, who
consented, what was typed, what was executed) are variables of their own, named as
such, and no guard reads them but to bound the instance (`pauses` against
`MaxPauses`, a line typed once). Definitions whose comment begins with "Slip" are
plausible mistakes in the code; no action uses them, and each property of a passing
run is checked to fail with one of them in place of the right definition.

## 3. Initiatives

An initiative is `pending` until one door decides it.

| Action | Code |
|---|---|
| `Save` | the engine stores what it generated (`InitiativeStore.save`) |
| `Approve`, `Reject` | `decision.traiter`, from HTTP or Telegram |
| `ToolDecides` | the tool of the conversation, which only writes the status |
| `Run`, `BudgetAnswers`, `LaunchSucceeds`, `LaunchFails` | `InitiativeExecutor.run`: a draft goes to `awaiting_confirm`, a mission to `in_progress`, the budget, then `create_and_run` |
| `Confirm`, `GmailAccepts`, `SendReturns` | `InitiativeExecutor.confirm`: the draft, possibly edited, is stored; Gmail accepts; its answer comes back or is lost |
| `RectifyStarts`, `RectifyReturns`, `RectifyFails`, `Dismiss` | the routes that never look at the status |
| `NightlyExpiry`, `NewDay` | the pass of 3:10 and midnight; `swept` and `skipped` say whether the pass ran |
| `SetEmailMode`, `Restart` | the settings; the process dies and the coroutines with it |

`Visible` is the store's window: `get_by_id`, `update_status` and
`update_initiative` read the files of the last seven days and do nothing for an
older initiative. `age` counts those days. The expiry compares instants instead of
days, so at exactly `ExpireAfter` days the hour of creation decides (`due`).
`GmailAccepts` is a step apart from `SendReturns` because a message may have left
when its answer is lost or the process dies.

`WindowAssumption` says that the delay of the setting
`initiatives_expirent_apres_jours` leaves one nightly pass before the store loses
sight of an initiative. It is true of the defaults (5, 7 and 30 days). A user who
sets the delay to six days or more, or to 0 (no expiry), is outside of it: in
between, an initiative waits out of the doors' sight until the pass; with 0, or
beyond the thirty days the pass looks at, it waits forever and `PendingIsSettled`
fails, as the slip `NeverOverdue` shows.

Left out here: the resemblance of titles that makes `save` return early (the
initiative stays `"absent"`; `Proactive` has it), and the other actions of the
Gmail tool. Steps the model has and no property claims: Telegram and the tool of
the conversation approve a mission without starting it (`telegram_bot.py:407`
passes no orchestrator, the tool only writes a status), although
`decision.py:75-77` describes one path for every door; a launch that fails after
`traiter` loses its failure, and the status stays `approved`.

## 4. Missions

One mission, with one worker per launch. `disk` is `state.json`; each worker has a
copy of the project and saves the whole of it, so the last one wins. `claims` is
`step_claims.json`.

| Action | Code |
|---|---|
| `Create`, `Kill`, `Retry`, `Resume` | `ProjectOrchestrator`; `Relaunch` is what retry and resume share |
| `Start`, `SetupReturns`, `SetupFails` | the beginning of `WorkerAgent.run` and Docker |
| `Proceed`, `Begin`, `PassesOver` | the loop on the steps up to its next `await`: skip, claim, gate, ask or execute |
| `Resolve`, `Approved`, `Refused`, `ApprovalTimesOut` | `request_approval` and `resolve_approval`, 600 s |
| `RunSucceeds`, `RunTriesAgain`, `RunFails`, `VerifierRaises`, `BudgetPauses` | `_execute_with_verification` and its 300 s |
| `Close`, `MissionTimesOut`, `Vanishes` | the `finally`, `wait_for`, and a directory deleted under a worker |
| `ResetSteps`, `Delete` | `interfaces/api/projects.py` |
| `Restart` | the files stay |

`Gates` combines the three axes of `Governance.gate` as the code does: the level
of the step against `AUTO_MAX_LEVEL` (`EXECUTE_CODE`), the mode of the category
(which the user may change at any time: any of `Modes`), and the budget; `Strictest`
wins. `ResumeOffered` is a constant because no route calls `resume_project`; the
code is modelled and checked nonetheless.

Left out: a torn write of `state.json` (a save is one step), the approvals asked
by tools inside a step (each has a key of its own and does not meet those of the
steps; they are `Consent`), what the planner and the verifier compute.
`worker_agent.py:540` takes a mission about Fusion at its word without a verifier:
`RunSucceeds` covers both, so `DoneWasVerified` is about the others.

## 5. Facts and the inbox

`Facts` has the table, the ingests and everything that writes a fact's value or
status.

| Action | Code |
|---|---|
| `StartIngest`, `Extracted` | `MemoryIngest.ingest` up to the candidates, at most five of them |
| `Reconcile` (`OutOfVocabulary`, `AlreadyKnown`, `OtherValue`, `NewTriple`) | `_reconcile` of one candidate, up to the arbiter if it needs one |
| `Verdict` | the arbiter's answer: confirm, supersede or a new fact, written on the row **as it was read** |
| `Raises` | the base is locked and the ingest ends there |
| `HalfSupersedes` | the base fails, or the process stops, between the two commits of `_supersede`: the old row is retired and nothing takes its place |
| `Correct`, `CorrectByHand` | `apply_correction`, from a line of the inbox or from the interface |
| `Merge` | `fusionner_doublons`, at night |

`word` remembers how the user's hand last left each fact, and whether an arbiter
was looking at the row at that moment (`raced`). `HandStands` promises that his
word stands when it was not raced: an ingest that has not read the row yet may
only see what he left, and a fact he archived is never found again by any of the
searches. When it was raced the code does write the old row back
(`ingest.py:424`), which is listed among the hazards.

`Inbox` has the file: `orders` at the top, the reports under "Traité", the lines
under "Pas comprises".

| Action | Code |
|---|---|
| `Type` | the user adds a line: at the top, under "Traité" (it will not be read), or under "Pas comprises" (kept, never executed) |
| `Begin` | `traiter` reads the file; the lines that no part of `_lire` looks at go by (`Overlooked`) |
| `Execute`, `Resume` | `_executer`, line by line; "retiens" waits for its ingest |
| `Rewrite` | `_gabarit` and the write of the whole file |
| `Abandon`, `Restart` | the pass ends without writing the file |
| `Tears` | `write_text` empties the file first: a full disk or a stop leaves some of its beginning (`Beginnings`), or nothing |
| `OtherIngest`, `Others` | what the rest of the program does to the facts |

The loop of the scheduler and the route of the interface may each have a pass out.
`_lire` ignores more than the reports: a quotation, a row of a table or a bare bullet
is no order (`"citation"`; under "Pas comprises" it is kept); a title, an emphasis, a
comment, a block of code with both fences is nothing anywhere (`"titre"`); a fence that
nothing closes hides the rest of the file (`"cloture"`, `Shown`, `Hidden`). `exposed`
remembers the lines typed while a pass was between its reading and its writing, those
a pass went over without looking, and those cut off a file that was not written to its
end: `LostOnlyIfExposed` says that these are the only ones that can be lost.

Left out of `Facts`: support, confidence and its decay, `last_seen` (which row is
found first is left open), links, observations and relations, the merge of
variants, the full-text index (`Sibling` is what it may return), the filter on
persona traits (a filtered candidate does not count), and the voice process on the
same base. Left out of
`Inbox`: the creation of the file, the export of the mirror, an ingest that is not
wired, the user editing or deleting a line, typing a separator or the second fence of a
block (the two fences are one line, a "titre"), and a last line cut in its middle.

## 6. Conversation

`Streams` has one request of a model and what the providers make of it. Anthropic
tries again while nothing has been emitted and captures a call when its block ends;
Gemini captures along the way, one call for each name, and keeps a signature for it
in a cache of bounded size that all turns share; OpenAI and Mistral hold the calls
back until the stream ends. `Conversation` has the turns around it.

| Action | Code |
|---|---|
| `Receive`, `Ask` | `Gateway.handle`: the notices are drained, the question joins the session, the first stream opens |
| `Text`, `CallsTool`, `Stops`, `RequestFails` | one event of the stream, read by `_stream_capturing` and passed on through `extract_route` and the door |
| `Sent` | the door's `await` of the send is over; it may have failed |
| `ToolsStart`, `ToolsReturn`, `Collects` | `execute_captured_tools`, a task beside the stream |
| `Spaced`, `Wording` | `synthesize`: the second stream, which words the results |
| `Closed`, `Learns` | the answer joins the session; background work is submitted; the memory learns (the voice from its excuse too: `VoiceLearns`) |
| `Breaks` | the client leaves, at any piece |
| `Notify`, `TakesTask`, `ExecutesTask` | the queue of notices and `BackgroundWorker` |
| `Restart` | sessions come back from their transcripts |

The doors differ in who closes a turn and when (`Closed`, `Over`, `Leave`): the
socket of the chat, the gesture page, the voice and the streamed HTTP answer each
have their way; a channel collects the whole answer and sends it at once.
A `Setup` of the instance gives each turn its door and its number of calls, and
the family of the provider.

Left out: what the prompts hold, the recall and the facts drawn from the answer, the
audit line, the login.

## 7. Consent

A tool that acts on the world asks first. `question` is the state of the future
that `ApprovalChecker.check` awaits, `said` what was clicked.

| Action | Code |
|---|---|
| `Ask`, `Act` | a tool of the conversation (printer, Fusion): the check, then the action |
| `Resolve`, `Expires`, `ChangeMode` | the route's answer, the checker's two minutes, the settings |
| `Submit`, `TiresOfAsking`, `Begin` | `ScriptRPCTool.execute`: the question about the script, with a time limit of its own |
| `Post`, `Collect` | the stub inside the sandbox writes a request and watches for its result, for a minute |
| `Turns`, `Takes`, `Dispatch`, `Returns` | `_dispatcher`: it lists the directory, takes a request, checks and asks, runs the tool, writes the result, removes the request |
| `End`, `HardLimit` | the script ends, or the tool's limit or its caller cancels the run, and the dispatcher with it |
| `GivesUp`, `Withdraws`, `Deserts` | the caller is cancelled: before the answer of a tool, before that of a script, or while the script tool waits for a dispatcher |

`asyncio.wait_for` is modelled as Python 3.11 has it, the version of the image, of
the bundle and of the tests: a cancellation that arrives when the awaited future is
already done is dropped and the value returned: surely when the user has just
answered what the dispatcher waits for (`Deaf`), possibly when the tool it runs was
in a bounded wait of its own (`MayMiss`). The run then waits for its dispatcher
(`"closing"`, `"stuck"`) and what is lost is the end itself (section 15,
`MCConsentReturns`). If the caller is cancelled at that point (the time-out of a
subagent, of a mission step, a stream that is cut), the tool ends, its directory
stays and the dispatcher goes on (`"orphan"`): this is the one case in which a call
starts after the end, and `NothingAfterTheEnd` names it. The process of the script
is there as long as its directory is, since no time-out kills it (`Alive`).

## 8. Remote agents

Both sides are modelled: the server (`listed`, `sockets`, `call`) and the program
on each machine (`agent`), with the two directions of each connection (`link`) as
queues.

| Action | Code |
|---|---|
| `Connect`, `Takes`, `Finishes`, `Drops` | `scripts/agent_pc.py`: `boucle` and `session`; an action runs in a thread, its result leaves by the connection it came by |
| `Greets`, `Receives`, `HandlerEnds` | `websocket_agent`: presentation, results, and the `finally` that unregisters |
| `Dispatch`, `GivesUp` | `RemotePCTool.execute` and `_dispatch`: resolve the name, send, wait for thirty seconds |
| `Break`, `Restart` | a connection breaks, each side notices in its own time; the server stops |

Connections are numbered (`Links`), and a machine that calls again gets a new one
while the server may still serve the old; an action goes on at the machine after
its call was given up.

Left out: what an action does on the machine, and the token of the presentation.

## 9. Skills

The code of a skill is a number, a new one for each writing of a directory: that is
what tells "what was tried" from "what was accepted".

| Action | Code |
|---|---|
| `Scan`, `Propose` | the night's `scan_kernel`, with its ceiling and its memory of events, and the tool |
| `Generated`, `Barren`, `Imports`, `Verdict` | one proposal: the model writes the candidate, the sandbox imports what the directory holds **then**, its verdict is written on the record of the name |
| `Unrecorded`, `Unmarked`, `Cancelled` | the candidate is written and the table cannot be; the verdict is there and the table cannot be written (`lab.py:586`, outside the `try`); a use of the tool is cancelled in the middle, which no `except` of `lab.py:578` catches |
| `Promote`, `Reject`, `Uninstall`, `UninstallFails`, `Reload` | the human, by the routes; a promotion may move the directory and write nothing more, an uninstallation may stop half-way |
| `StoreBegins`, `StoreRefuses`, `StoreMakes`, `StoreWrites`, `StoreEnds`, `StoreFails` | `SkillInstaller.install`: the catalogue is awaited, the directory made, the files downloaded straight into it |
| `RewriteBegins`, `RewriteEnds` | `SkillImproveTool` and `improve_skill`; the reading that follows may fail |
| `Restart` | what was under way is lost; the registry reads the disk |

`Reads(d)` is what the registry may hold once it has read a directory: it goes by the
name that each `skill.yaml` gives, passes over what cannot be imported, and stops at a
`skill.yaml` that cannot be read. So the registry is not claimed to be what the disk
holds; what is claimed is that the code of a removal that succeeded is nowhere again
(`RemovedCodeIsIdle`).

Left out: what the sandbox forbids and how code is checked, the trajectories a
proposal is made of, the versions of the SKILL.md text, and writings of a directory cut
in their middle.

## 10. Spending and the proactive engine

Money is counted in units of the worker's estimate.

| Action | Code |
|---|---|
| `Converse`, `Works` | a paid call: a line in the ledger, the part of the mission, and the rest left to a task (`owed`) |
| `Note` | `noter_depense`, for the oldest expense: one message, the first threshold not told yet |
| `AsksForTheMonth`, `AsksForTheMission`, `Leaves` | `_run_step_llm`: the two reservations, with an `await` between them; they hold nothing back |
| `Concludes`, `Reflects` | the mission ends and `Reflexion` pays a model on its account, with no reservation (`worker_agent.py:375-389`, `bootstrap.py:783-788`, `reflexion.py:148-154`) |
| `MonthChanges`, `SpendingRestart` | the files of a new month are empty; a start reads the month again (`Seeds`), or fails to and starts all the same (`SeedsInPart`) |
| `StartsCycle`, `Looks`, `Generates`, `Drafts`, `Records`, `Tells` | `_run_cycle` under its lock: context, limit (none if the history cannot be read), model, a call for each e-mail to write, the saves, which may raise in the middle of the batch, the dispatch one by one |
| `Settle`, `Drain`, `Dusk`, `EngineRestarts` | a decision, an answer that takes the notices, the silence hours, a restart |

`Declined` is the resemblance of titles for which `save` returns without a word.
The engine asks about such an initiative all the same (`AskedIsAnswerable` fails,
section 15); what it does keep is `AskedIsBacked`: the title it asks about is that
of one that was recorded.
The engine and the mission only share the ledger; `OneAtATime` keeps the instance
to behaviours where one of them has not begun, while the conversation spends
throughout.

`unguarded` counts what no reservation weighs: the lessons, and what a start could not
read. `OverrunIsBounded` bounds the rest.

Left out: prices, the reports, the context the generator reads, what a lesson says.

## 11. The upkeep of the memory

Three models that share nothing, in one instance (`part` chooses).

`SearchIndex`: the facts and the topics are the truth (`truth`), the vectors a copy
in memory (`index`) and on disk (`disk`), the mirror a copy of the facts
(`shown`). `queue` is the lock of the index, first come first served; `task` is
what each pass or door is doing, with the list it made before it took the lock.

| Action | Code |
|---|---|
| `FactChanges`, `TopicChanges` | what writes or deletes the truth without telling the index: ingests, corrections (the inbox then exports the mirror), consolidation, the settings page |
| `Dreams`, `DreamFails`, `Wakes` | the deep pass, from the night's loop or the route: synthesis, then twins merged, then the facts listed |
| `Clears`, `Begins`, `Ends`, `Fails`, `Saves` | `remove_source`, `reindex`, `add`, `persist`: the lock is kept while a text is encoded |
| `Writes`, `Requests`, `Starts` | the tool, which goes on to the index; the route, which leaves it to a task; for a topic that is now blank `add` returns before it takes the lock, and the index is saved with the old text (`Takes`) |
| `Restart` | the file is loaded; the index is rebuilt if there is none |

Texts that the night's merges take for the same (twins, variants) are one text.
`settled` is a history: the documents that one task published to the end, with no
rival that carried them and no change since. A topic that was emptied has not been
published: nothing is claimed of it.

`Prefs`: `ReadsPrefs`, `Rewrites`, `LeavesPrefs` are the passes after an exchange
(micro, several at once) and of the night (deep); `Types` and `FailsToType` the
settings. A text is a size, the set of the user's own edits it descends from, and
whether it was written whole; a rewriting whose copy fails goes on, and one whose
write fails leaves a part of its text, or nothing (`Rewritten`, `Parts`); `mishaps`
remembers which failed since the user's last edit. The refusal to shrink
(`_refus_de_remplacement`) looks at what the micro pass **read**, and at what the
deep pass reads again.

`Archives`: `OpensArchive`, `ClosesArchive`, `PurgesArchives`, `FailsToArchive` by
the service and by the script, `TimePasses` between the minutes that name the
files. Two writers of one minute write one file.

Left out: the ranking of a search, the full-text index, transcripts and pointers,
the user model, the visual memory, the copy off the machine, a save of the vectors
cut in two.

## 12. What the runs show

| Run | Instance | Question |
|---|---|---|
| `once` (`MCInitiativesOnce`) | an e-mail and a mission, two suspended requests, one restart, one missed night | does a decision act at most once, a refusal never, and is every initiative accounted for? |
| `promise` (`MCInitiativesPromise`) | an e-mail with two texts, three requests, no restart, one confirm at a time | do the doors implement `DecisionPromise`, does confirm e-mail only what the client saw or gave, is every initiative settled? |
| `mission` (`MCMissionPass`) | two workers, two steps of two tries, the first on the network, one budget pause per step, one restart | do the claims keep each step to one worker, one execution, one consent, one verification; does every worker end? |
| `inbox` (`MCInboxPass`) | two tasks, five lines (forget, remember, unclear, a title, an open fence) of which three are typed, two triples of one topic, one out of the vocabulary, two values, two rows, one mishap | which lines can be lost, does the user's word stand, is anything reported executed again? |
| `talk` (`MCConversationPass`) | two turns of one session by two of the five doors at a time, three families of providers, one notice from elsewhere | is the history whole, does one attempt speak, are tools and work done once, and reported unless a task never ends? |
| `consent` (`MCConsentPass`) | a tool, a script with three calls and a quota of two, one change of mode | does each thing start on its own yes, once, and nothing after the end but from a dispatcher left behind? |
| `remote` (`MCRemotePass`) | two machines, three connections, two calls, one restart of the server | does "done" mean done, can what is listed be reached, is anything kept for later? |
| `skills` (`MCSkillsPass`) | one name, two events, one each of scan, use, order and rewriting, a ceiling of one, two writings, one restart | does the gate hold, which trials leave no verdict, is removed code idle, what brings a removed skill back? |
| `proactive` (`MCProactivePass`) | two workers of one mission and its lessons, costs of 1 and 3 against ceilings of 3, 2 and 2, one change of month, four initiatives of which two are alike, two tasks | do memory and ledger agree, is the ceiling told, how far can it be overrun? |
| `upkeep` (`MCUpkeepPass`) | two facts of one document, a topic with two texts or blank, two doors, night, route, boot and rebuild, one restart; two passes over the preferences; five minutes of archives, two kept | is what was published exact, is what is withdrawn forgotten, what can the user's text be lost to, does a whole archive remain? |
| `twice` (`MCInitiativesTwice`), `gate` (`MCSkillsGate`) | the smallest instance, and that of `skills` | two disagreements of section 15 |

Why the bounds are enough for these questions:

- **Initiatives.** No property relates two initiatives, so two of them, of the two
  types that act, already give every mix of doors on one of them and a bystander.
  Two slots are two requests in flight at once, and a third would have to wait on
  the same guard as the second; `promise` has three all the same. The window is
  scaled from 7, 5 and 30 days to 3, 1 and 4, with the same order between them and
  one day to spare: with these an initiative can be younger than the delay, at the
  delay (both hours), past it, out of the window and out of the scan. One missed
  night and one restart are enough to lose a pass and a coroutine;
  `ActsOncePerDecision` is proved for any number.
- **Missions.** Two workers are an old one and its replacement; a third launch
  kills the second as the second killed the first. Two steps are the least for
  "the step before" and "the step after"; two tries is the code's
  `_VERIFICATION_MAX_RETRIES`. The first step is above `AUTO_MAX_LEVEL` so that
  questions are asked, the second below so that both paths of the gate are taken;
  the mode of the category is the one that asks nothing more or the one that
  forbids, at each step (`FreeOrForbidden`; the third, which asks, adds the
  question that the level already brings). Safety is proved for any number of
  workers, steps, tries, pauses and restarts.
- **Inbox.** Two tasks are the loop and one request, which may be a pass or an
  ingest of something else; two rows are the fact the user knows and one more; two
  values are needed for a contradiction. A candidate per extraction instead of
  five: several candidates of one ingest differ from several ingests only in that
  they hold the loop between them. `HandStatuses` is `{"active"}`, the one status
  that admits a fact; the line "forget" gives `archived`. One mishap is a restart
  or a pass that does not write, or not to the end. Three lines are typed of five: one
  of each kind that `_lire` tells apart but the quotation, which differs from the unclear
  line in one place, and the CONSTRAINT `OneOrderOrTwo` leaves aside the two orders with a
  third line: one order is enough for a pass to begin, the two are there to overlap. All
  four properties are proved without these bounds.
- **Conversation.** Two turns are what can disturb each other: they share the
  session, the queue and the worker. Two calls in a stream let one start before the
  other is captured; two retries are the first and the one after; the restart is in
  the third setup. The three setups between them have every door and
  every family, and `MCConversationMore` checks the notices and the second request
  (`ServedOnce`, `RequestIsWhole`) on the same instance. All but `WorkIsReported`
  are proved for any number.
- **Consent.** Three calls against a quota of two: the last allowed, the first over
  it, and one more that is being served when the script ends. One script is enough:
  scripts share nothing but the mode.
- **Remote agents.** Three connections: the old, the new and a bystander of another
  machine; two calls: the late one and the next one. Proved for any number.
- **Skills.** Everything the properties say is about one name; two events and two
  proposers are two proposals under it. Two writings are the code that was
  there and the one that comes over it. Proved for any number.
- **Spending.** A cost of three passes both thresholds at once, a cost of one
  stops at each; two workers overrun the mission's ceiling together; three units go
  without a reservation, one dear lesson or cheap ones. Money stops at seven. Two of the four titles are alike, one waits for an answer and is urgent.
  The three properties are proved for any costs, ceilings and finite set of workers.
- **Upkeep.** Two facts are the one that changes and its neighbour in the same
  document; two doors and the two deep passes are rivals of each kind. One change
  of a fact, two of a topic (there and back, or emptied). Texts of nothing, of one and
  of three: cut, less than half, and built. Five minutes and two files kept: a whole archive, the
  parts that push it to the edge, and one more. All but `WithdrawnIsForgotten` are
  proved without these bounds.

Symmetry is used for request slots and workers, which nothing names, and never in
a run with a liveness property. `OneAtATime` and `OneOrderOrTwo` are CONSTRAINTs of the
runs `proactive` and `inbox`, which check invariants and what a step may do.

The properties, and where to read them: each one is stated in words, with the
lines it is about, above its definition at the end of its module.

| Property | Kind |
|---|---|
| `ActsOncePerDecision`, `RefusedIsInert`, `InProgressIsAccounted`, `MailedWasReviewed` | invariants of `Initiatives` |
| `KeepsPromise` | refinement of `DecisionPromise` |
| `PendingIsSettled` | liveness of `Initiatives` |
| `OneWorkerPerStep`, `ExecutedOnce`, `EveryRunHasConsent`, `DoneWasVerified`, `NothingPassedSilently` | invariants of `Mission` |
| `KilledClaimsNothing` | what a step of `Mission` may never do |
| `EveryWorkerEnds` | liveness of `Mission` |
| `HandStands`, `OnlyTheHandAdmits` | invariants of `Facts`, checked and proved in `Inbox` |
| `LostOnlyIfExposed` | invariant of `Inbox` |
| `ReportedIsNotReread` | what a step of `Inbox` may never do |
| `OneAttemptSpeaks`, `HistoryHoldsEveryAnswer`, `WorkIsDoneOnce` | invariants of `Conversation` |
| `ToolsRunOnce` | what a step of `Conversation` may never do |
| `WorkIsReported` | liveness of `Conversation` |
| `RunsOnItsOwnYes`, `BridgeIsMetered` | invariants of `Consent` |
| `NothingAfterTheEnd` | what a step of `Consent` may never do |
| `OkMeansDone`, `ListedIsReachable`, `NothingIsKeptForLater` | invariants of `RemoteAgents` |
| `NeverWithoutGreen`, `CandidateIsUnderTest`, `RemovedCodeIsIdle`, `RemovedStaysGone` | invariants of `Skills` |
| `MemoryMatchesLedger`, `CeilingIsHeard`, `OverrunIsBounded` | invariants of `Spending`, checked in `Proactive` |
| `SettledIsExact` | invariant of `SearchIndex` |
| `WithdrawnIsForgotten` | liveness of `SearchIndex` |
| `HandIsReadOrKept` | invariant of `Prefs` |
| `HalvedOnlyUnawares` | what a step of `Prefs` may never do |
| `OneWholeRemains` | invariant of `Archives` |

The type invariants are not in the runs: those of `Initiatives`, `Mission`, `Inbox`,
`Conversation`, `Consent`, `RemoteAgents`, `Skills`, `Spending`, `Proactive` and
`SearchIndex` are theorems, those of `Facts`, `Prefs` and `Archives` part of the
invariants that are proved.

## 13. Fairness and deadlock

- `CalendarSpec` assumes `WF(NightlyExpiry)` and `WF(NewDay)`: days pass, and the
  loop of the scheduler, a `while True` that catches its exceptions, runs its pass
  on each day it is up. It does not assume that the user, a model or Gmail answers.
- `AwaitsSpec` assumes `WF(Awakes(w))` for each worker: a model's answer is cut at
  300 s and a question at 600 s by `wait_for`, so those `await`s end by themselves;
  the calls to Docker have no such limit in the worker and are assumed to return.
  It does not assume that the user answers, that the mission times out or that a
  directory vanishes.
- `Conversation` assumes `WF(TakesTask)` only: the worker's loop is a task of its own
  that catches what its tasks raise, and an idle one takes the next. It assumes nothing
  of `ExecutesTask`: neither a tool nor a provider is given a time limit there
  (`worker.py:110-116`, `api.py:385`, `registry.py:58`), so that `WorkIsReported` excepts
  the behaviours in which one task holds the worker for ever (`HeldForEver`). Nor does it
  assume anything of the turns: a client may leave one in the middle, and no property
  says that a turn ends.
- `Fairness` of `Consent` assumes that time limits fall and that the dispatcher,
  when it can go on, does. It serves `AlwaysReturns` only (section 15).
- `IndexFairness` assumes that the lock is served in order and an encoding ends
  (both run in threads of a library that returns or raises), that every night
  comes, and, strongly, that not every one of them fails in its synthesis: a night
  whose synthesis raises does nothing else. That is an assumption on the models, not
  something the code ensures: `scheduler.py:391-397` awaits the pass with no time
  limit, and a model that never answered one night would be the last of the nights.

Deadlock is checked for the initiatives, where a day can always pass. It is not for
the others, which may really stop: every launch used up and every worker ended;
every line typed, every row taken and nothing to do; every turn closed and every
notice given; every call over and the connections of the instance used up; every use
of a script over;
every code written; every expense made; every minute passed.

## 14. What is proved

`tlapm` checks these for every value of the constants, under the named assumptions
of the modules. Those give the constants their types; beyond that, they say that a
session exists, that the workers are finitely many and one cost is the dearest, that
the alert is not above the ceiling (`SpendingAssumption`), that resemblance of titles
is reflexive and symmetric, and, for the window, the order of section 3, which no
proof uses. Every invariant and action property that a passing run checks is the
statement of one of these theorems, and so is the refinement.

**`InitiativesProofs`.** `TypeCorrect`, `ActsOnce` (`ActsOncePerDecision`),
`RefusedStaysInert` (`RefusedIsInert`), `MailedIsReviewed` (`MailedWasReviewed`),
`ProgressIsAccounted` (`InProgressIsAccounted`) and the refinement
`DoorsKeepPromise` (`KeepsPromise`). The first properties count e-mails and launches,
which says nothing of a request that is about to send one; they are not inductive.
The invariant adds that a suspended request is well formed (`WellFormed`), that a
pending or absent initiative has no effect and no request but a rectification
(`WaitingIsInert`), that a request on its way to the e-mail of an approval, or to a
mission, is alone and not done yet (`OneDecider`), and that approve and confirm
exclude each other (`ApproveExcludesConfirm`). The argument is that each decision
starts from `pending`, that no action ever writes `pending` again except `Save`
from `absent`, and that the status leaves it in the step that creates the request.
For what is mailed, the text an initiative waits with, and the text in the hand of
a suspended confirm, have been shown or given by the client (`DraftReviewed`); no
rectification takes that back, because `reviewed` only grows. `InProgressIsAccounted`
is inductive together with the shape of the requests.
The refinement is proved under `SerialConfirms` and `MaxRestarts = 0`, without which
the code does not have it (`twice`): the initial states map to the initial state,
and every step to a step of `DecisionPromise` or to a stutter, given that a request
acts for an initiative of its own type (`Typed`) and that those in flight for one
initiative are one at most, with nothing done yet (`Alone`).

**`MissionProofs`.** `TypeCorrect`, `WorkersExcludeEachOther` (`OneWorkerPerStep`),
`StepsRunOnce` (`ExecutedOnce`), `ConsentPrecedesRun` (`EveryRunHasConsent`),
`DoneMeansVerified` (`DoneWasVerified`), `StepsAreAccounted` (`NothingPassedSilently`)
and `KilledStops` (the action property `KilledClaimsNothing`). The argument is the claim: a busy worker
holds the claim of its step (`Holds`), a step with no claim has been executed no
more often than it was put back (`Counts`), so a claimant may add one; a sensitive
step runs only out of a question whose answer is counted and not yet used (`Owes`,
`Consented`); and no copy shows a step as done before it is verified, whichever
copies overwrite each other (`DoneWasVerified`, inductive with the types). The
loop of a worker is proved once (`Proceed` and `Begin` as lemmas) and cited by
each action that goes through it. A worker goes over a step because its copy calls
it done or skipped or because somebody claimed it; for the latter the invariant says
that it is somebody else: the worker's own claims are at or behind the step it is in,
and it has none before it starts (`ClaimsBehind`, `StartsAtZero`). What a budget pause
frees again is accounted for by the pause.

**`InboxProofs`.** For the composition of the inbox and the facts, `LastWordStands`
(`HandStands`) and `VocabularyGuardsTheMemory` (`OnlyTheHandAdmits`). The
searches only return active rows, so what matters is the rows an arbiter has been
shown: the invariant says that each was active and of the vocabulary or admitted
by hand when it was read and, unless the user spoke since then, is still what he
left (`AtWork`, `Held`), and that his words are about existing rows (`Spoken`).

For the file, `NothingSeenIsLost` (`LostOnlyIfExposed`), `NoOrderTwice` (the action
property `ReportedIsNotReread`) and `TypeCorrect`. Every line that is not exposed is in
the hand of each pass that is out or was executed (`HasIt`), so that the rewriting
gives it back or may let it go, for what `Begin` does not take it exposes; a file that
is cut exposes what it loses; what a pass reports was executed (`Honest`); no line at
the top of the file was ever reported (`OrdersAreNew`); and the rest of the file is the
user's too (`FileWasTyped`). What a pass reads is `Only(lines, set)`, a recursive
function: the lemma `OnlyIs` says that it keeps the lines of the set up to a fence and
nothing else, for sequences of any length.

**`ConversationProofs`.** `OneSpeaks` (`OneAttemptSpeaks`), `HistoryHolds`
(`HistoryHoldsEveryAnswer`), `WorkOnce` (`WorkIsDoneOnce`), `ToolsOnce` (the action
property `ToolsRunOnce`), `TypeCorrect`, and the two that `MCConversationMore` checks,
`NoticeOnce` (`ServedOnce`) and `RequestTells` (`RequestIsWhole`). What a turn knows is
a property of its record alone (`Sound`): a stream holds the calls of its own attempt,
numbered as they came (`InOrder`); nothing was heard and no tool started while the
request may be sent again, since something was then emitted or the stream is over
(`Faithful`), whatever the family of the provider; what ran is among what was captured
(`Executed`); the second request tells of it with its results (`Whole`). The history is
tied to where the turn stands (`Told`): its question is there once it may be answered,
its answer not before it closes, and there before work is submitted or anything is
learned. A task is in the queue, in hand or finished, and its turn is past its end
(`Placed`); a notice is given to one turn, and is made once (`Given`). Each action of a
turn is a lemma (`ReceiveKeeps` ... `BreaksKeeps`), over those that say how a stream
moves and how a record goes from one place to the next.

**`ConsentProofs`.** `TypeCorrect`, `AsksBeforeActing` (`RunsOnItsOwnYes`),
`BridgeKeepsItsQuota` (`BridgeIsMetered`) and `EndIsTheEnd` (`NothingAfterTheEnd`).
A question that is past its answer has one on record, of its own (`Worded`); what
has started did so from there, once for a request (`Fired`); a request is in the
hands of the dispatcher of its own script only, alone and while that dispatcher
loops (`Serves`), one that no dispatcher has taken has not been asked
(`Untouched`), and a tool waits for its dispatcher, or has left it behind, only if
that dispatcher missed its cancellation (`Lingers`). The quota is a cardinality:
the calls that started are no more than the counter, which the dispatcher raises
before it starts one (`Counted`).

**`RemoteAgentsProofs`.** `TypeCorrect`, `DoneIsTrue` (`OkMeansDone`),
`InventoryIsReachable` (`ListedIsReachable`) and `NothingWaitsForAMachine`
(`NothingIsKeptForLater`). What is on its way is tied to what was asked and done:
an action goes down the connection its call was sent on (`SentDown`), an agent acts
for such a one (`Acts`), a result comes up only after the action (`SentUp`), a
served connection bears the name of its machine (`Named`), and what started was
sent (`Started`).

**`SkillsProofs`.** `TypeCorrect`, `GateHolds` (`NeverWithoutGreen`),
`TrialsEndWithAVerdict` (`CandidateIsUnderTest`), `RemovedCodeRests`
(`RemovedCodeIsIdle`) and `GoneForGood` (`RemovedStaysGone`). A green record is
earned by a verdict (`Earned`), the jobs and orders keep the shape their stage gives
them (`Shaped`), and a code is written once and stands in one directory at most, so
that a removal takes the only copy there is and what the registry reads afterwards
cannot be it (`Codes`); the properties are inductive with these.

**`UpkeepProofs`.** For the preferences, `HandSurvives` (`HandIsReadOrKept`) and
`OnlyTheUnawareHalve` (`HalvedOnlyUnawares`): until something is rewritten the
text has the user's last edit (`Fresh`); if no pass was out when he typed it and no
write failed since, the text and every pass that is out know it (`Sighted`); and the
first rewriting since leaves it in the copy, if the copy is made (`Copied`). For the
archives,
`AnArchiveRemains` (`OneWholeRemains`): as long as no two passes cross, one writer
at most is at work (`Alone`, `Uncrossed`), no name is later than now (`Past`), so
that the file a pass has just closed is the last name and the purge that follows
keeps it: something whole remains (`Whole`).

For the index, `SettledStaysExact` (`SettledIsExact`), `SettledIsOnDisk`
and `TypeCorrect`. A document that a task took alone, and that nobody touched since
(`Clean`), is carried by no other task (`Sole`), and the task has the text of the
truth, in hand or already in the index (`Ready`); what a task may carry is known
from its stage (`Shape`), and the one that rebuilds empties the index under the
lock first (`Emptying`). So a document joins `settled` exact, in memory and on disk,
with no rival (`Sound`), and leaves it as soon as one takes it or the truth
changes; a door that finds its topic blank takes nothing (`BlankCore`).

For the money, `AccountsAgree` (`MemoryMatchesLedger`), `CeilingTold`
(`CeilingIsHeard`), `OverrunBounded` (`OverrunIsBounded`) and `SpendingTypeCorrect`.
What has been told is one of five sequences, and what is owed a sequence whose sum is
`Sum`, a recursive function (`SumExists`, `SumOfMore`, `SumOfLess`). The overrun is not
inductive, because a cleared worker has still to spend: the invariant counts the calls
that are left to the cleared (`Left`, pairs of a worker and a call) and says that what
is spent, with the dearest price for each of those, stays within the bound
(`Committed`). A worker is cleared when an estimate still fits under the ceiling, and
adds at most a full step; a call moves its price from what is left to what is spent; a
lesson adds the same to what is spent and to what is `unguarded`. The bound is kept of
the ledger as well as of the total in memory, because a restart counts from the ledger
again, and what it fails to read becomes unguarded too.
The actions of the engine spend as the conversation does (`EngineSpends`).

For the engine, `QuestionsAreBacked` (`AskedIsBacked`) and `ProactiveTypeCorrect`: what
a batch has still to tell is recorded or resembles what is (`TellsBacked`), because
`save` declines only what resembles a pending title, and no record goes back to
absent (`SavedBacks`).

`Sum`, `Saved` and `Only` are recursive functions over sequences, and the library's
induction theorems take an operator as a parameter, which the installed provers cannot
instantiate. Both `InboxProofs` and `UpkeepProofs` therefore prove induction over a
*set* of numbers (`BySteps`), from a pigeonhole on a finite set: the exceptions below
one of them would be mapped into themselves by `m - 1`, one-to-one and so onto.

Only checked by TLC, on the instances above: the four liveness properties
(`PendingIsSettled`, `EveryWorkerEnds`, `WorkIsReported`, `WithdrawnIsForgotten`), which
need fairness and `ENABLED`; and the disagreements of section 15, which are
counterexamples.

## 15. Where the code and its documents disagree

Two are runs of the project that TLC ends with a counterexample; `PROJECT.json`
quotes the lines.

- `twice`: `confirm` waits for Gmail with the status still at `awaiting_confirm`;
  a second confirm meanwhile e-mails again.
- `gate`: a second proposal under a known name writes over the candidate while the
  first one's green verdict stands; a human may install code that was not tried.

The following configurations are kept beside them, each with one property that
states the document's words and that TLC refutes.

| Configuration | Property | What the code does | What is said |
|---|---|---|---|
| `MCConsentReturns` | `AlwaysReturns` | `rpc.py:203` cancels its dispatcher once; a bounded wait under Python 3.11 (`approval_checker.py:64`, or one inside the tool that runs) drops a cancellation that meets its answer, and the run waits for ever | `tools/subagent.py:347` « Ce wait_for garantit qu'un appel d'outil rend toujours la main. » |
| `MCInitiativesNever` | `NeverBlocksSending` | `traiter` e-mails an approved draft without looking at `email_send` | the comment at the head of `executor.py` (line 14) |
| `MCMissionCrash` | `ResumesAtTheRightStep` | a restart in the middle of a step leaves its claim; the retry cannot claim it, goes over it, and declares the mission done | `docs/architecture/CDC_crush_evolution.md:137` |
| `MCMissionBudget` | `PreviousStepFirst` | a budget pause puts a step back and the worker goes on to the next one | `docs/architecture/CDC_crush_evolution.md:121` |
| `MCMissionPlan` | `RefusedPlanNeverRuns` | a plan refused for want of a success criterion is executed by a retry | `docs/architecture/CDC_crush_evolution.md:113` |
| `MCInboxLost` | `NoLineLost` | a line typed between the reading and the writing of a pass is overwritten | `boite_reception.py:21` « Aucune ligne n'est perdue. » |
| `MCConversationRoute` | `AnnouncedWorkStarts` | a channel confirms the route BG and submits nothing (`channels/gateway.py:88`) | `prompts/system_static.md:33` |
| `MCRemoteGhost` | `RegistryIsCurrent` | the old connection's end removes the entry of the new one (`agent_ws.py:121`) | `remote_agents.py:48` « agents connectés à l'instant T » |
| `MCProactiveAsked` | `AskedIsAnswerable` | `save` declines what resembles a pending title and the engine asks all the same (`engine.py:244-248`); the button finds nothing (`decision.py:82`) | `engine.py:324` « on pousse la question ET le moyen d'y repondre » |
| `MCProactiveTold` | `OneMessagePerCrossing` | one jump over both thresholds tells the ceiling, and the next expense the alert (`budget.py:199-224`) | `tests/test_budget_alerte_globale.py:76` |
| `MCUpkeepMirror` | `ExportShowsTheBase` | a document that no fact goes in any more keeps its last text | `mirror.py:139` « Régénère TOUS les fichiers du miroir depuis l'état SQLite actuel. » |
| `MCUpkeepNight` | `UpkeepIsIndependent` | a synthesis that raises takes the merge, the index and the export with it | `auto_dream.py:222` « Les deux moitiés sont INDÉPENDANTES. » |
| `MCUpkeepHalved` | `NeverHalved` | a micro pass weighs its answer against the text it read before the model, not against the one it replaces | `auto_dream.py:66` « Une mémoire construite ne perd pas la moitié de sa substance en un échange » |

Read in the code while modelling, and not stated as a property:

- two ingests of one candidate side by side insert it twice (`ingest.py:430`), which
  `kernel.py:437` says no longer happens; `_supersede` commits the old row before it
  inserts the new one (`ingest.py:523`), so that a stop in between leaves neither:
  `HalfSupersedes` of `Facts`;
- `save_project` writes `state.json` in place (`project_store.py:44`); `wait_for`
  cancels a worker inside its `finally` (`orchestrator.py:112`);
- Telegram approves a mission without being able to start it
  (`telegram_bot.py:407`), and a failure of `launch` after `traiter` is lost
  (`decision.py:107`);
- `_global_memo` is not reset when the month changes (`budget.py:203`), and a start that
  cannot read the ledger goes on (`budget.py:96-97`), which is why `MemoryMatchesLedger`
  speaks of the time from a start that could to the next change of month;
- the lesson of a mission is paid on its account with no reservation
  (`reflexion.py:148-154`), so that its ceiling is no bound by itself;
- a rewriting of the inbox erases what `_lire` takes for no consigne: titles, quotations,
  blocks of code (`boite_reception.py:284-302`), though `boite_reception.py:21` says that
  no line is lost; and the file is emptied before it is written (`:163-171`);
- a topic emptied by `PUT /api/memory/topics` or by the tool stays found as it was
  (`search.py:117-122` returns first), and so does one deleted from the settings page
  (`admin.py:206-214`, which says nothing to the index);
- the copy of the preferences may fail and they are written all the same, in place, so
  that both may be lost together (`auto_dream.py:145-157`, which says so: « l'écriture
  prime sur la sauvegarde »);
- a trial that is cancelled or that cannot write its verdict leaves its skill a
  candidate for ever (`lab.py:578`, `:586`); an uninstallation during the fetching of a
  catalogue is undone by the order (`installer.py:98-109`); a registry that fails to be
  read again keeps what the disk has lost until it succeeds (`registry.py:63-72`);
- the voice memorises its own excuse for an error as an answer
  (`voice_ws.py:139-141,157,165-166`);
- what waits for an answer and is held back in the silence hours is not pushed
  afterwards (`engine.py:307-311`);
- a caller cancelled from outside leaves its entry in `ApprovalChecker._pending`;
- a failed download removes the directory of a skill that worked
  (`installer.py:122-126`);
- sessions opened after the first start are not indexed; consolidation and the
  settings write topics without indexing them; a reindexing interrupted at the first
  start is not begun again once a later save has made the file; the two files of
  the vectors are not saved together; `VectorIndex.search` looks at `_vectors`
  before an `await` and uses it after;
- a routine stopped in the middle leaves its run active, and `skip_if_active` then
  passes every later one over (`routines.py:268`); what the calendar loop has
  already said is in memory only (`scheduler.py:317`); the permissions' cache
  trusts a time stamp and a size (`permissions.py:112-117`).

## 16. What is not modelled

- *Routines, reminders and calendar alerts*: `app.py` registers no routine; the
  alerts and the reminders are loops over an outside calendar, and are in the plan.
- *The permissions file, the atomic write, the settings*: one writer at a time of
  small files; the case worth a model, two processes and a time stamp, is in the
  plan.
- *The ranking of a search, the full-text index, recall, prompts, the generator's
  context, the planner and the verifier*: what they compute is text or a score; the
  models keep the answers that the code tells apart.
- *User model, visual memory, transcripts, the copy off the machine*: written by one
  task each, read by whoever asks.
- *Writes of other files that fail or are cut* (the vectors, the tables, the topics,
  `state.json`): a write is one step, except those of the inbox, the preferences, the
  archives and the skills, where the models have them.
- *Formats of the language models, tools that call an outside service, formatting
  routes, command line*: conversions without state.
- *Audio, vision, hardware, presence, analytics*: signal processing, devices and
  read-only widgets.

## 17. Plan

Done: `Initiatives` with `DecisionPromise`, `Mission`, `Facts` and `Inbox`,
`Conversation` with `Streams`, `Consent`, `RemoteAgents`, `Skills`, `Spending` and
`Proactive`, `SearchIndex`, `Prefs` and `Archives`, with the proofs of section 14.

Left, in the order of their importance:

1. `Facts`, continued: the twins two ingests insert side by side; the voice process
   on the same base.
2. Liveness of the inbox: every order is executed in the end, provided the passes
   of the scheduler run, ingests end and the user leaves the file alone while a
   pass is out. It needs an instance of its own, smaller than `MCInboxPass`.
3. The refusals of `Spending` in place of the free choice of `Mission`, and the
   questions of `Consent` in place of its modes.
4. Permissions shared by two processes, with the atomic write; routines, reminders
   and the calendar loop.
5. Theorems: what a behaviour without mishaps keeps of the statements of section 15
   (`NoLineLost` when one pass is out at a time and nobody types meanwhile,
   `ResumesAtTheRightStep` without a restart), so that each disagreement is known by the
   condition that excludes it.
