----------------------------- MODULE Conversation -----------------------------
(***************************************************************************)
(* A turn of conversation, from the message to what it leaves behind.  The  *)
(* gateway takes the waiting notifications, adds the question to the        *)
(* session and opens a stream of the model; the door that received the      *)
(* message pulls the answer out of it, piece by piece; tools called on the  *)
(* way run beside the stream and a second stream words their results; then  *)
(* the answer joins the session, background work is submitted and the       *)
(* memory learns.  Every turn goes on while others do, and its client may   *)
(* leave at any point.                                                      *)
(*   - engine/gateway.py       handle, _pipe, _finalize                     *)
(*   - engine/agent.py         start_routing_stream, execute_captured_tools,*)
(*                             synthesize                                   *)
(*   - interfaces/api/         websocket.py, voice_ws.py, chat.py           *)
(*   - interfaces/channels/    gateway.py                                   *)
(*   - engine/background/      worker.py, notifications.py                  *)
(***************************************************************************)
EXTENDS Streams, FiniteSets

CONSTANTS
  Turns,        \* messages sent to the assistant
  Sessions,
  Setups,       \* the settings tried, among Setting
  Events,       \* notices that other components ask for
  NoTurn

Doors == {"text", "gesture", "voice", "http", "messaging"}
\* CF differs from I for the model only.
Routes == {"I", "BG", "BG:PROJECT"}

\* The provider of the settings, the door each message comes by, and two bounds: the
\* calls a model asks for in one stream of a turn, the times the process restarts.
Setting == [provider: Providers, door: [Turns -> Doors], calls: [Turns -> 0..MaxCalls],
            stops: Nat]

ASSUME ConversationAssumption ==
  /\ Setups \subseteq Setting
  /\ NoTurn \notin Turns
  /\ Sessions # {}

VARIABLES
  setup,         \* the setting of this behaviour
  turn,          \* each turn: the coroutine of its door and of its generators
  signatures,    \* GeminiProvider._thought_signatures: <<turn, call>>
  pending,       \* NotificationQueue._pending
  sessions,      \* each session: its messages, also in the transcript on disk
  queue,         \* BackgroundWorker._queue
  worker,        \* run_loop: the task it executes and its round of tools
  missions,      \* turns that had a mission created
  restarts,
  finished,      \* history: tasks the worker has reported on
  learned        \* history: turns the memory was given

background == <<queue, worker, missions, finished>>
vars == <<setup, turn, signatures, pending, sessions, background, restarts, learned>>

\* Where a turn awaits.
Awaits == {"recall",     \* the recall and the facts, before the model
           "routing",    \* the first stream, in extract_route
           "opening",    \* the send of the first message of the answer
           "streaming",  \* the first stream
           "sending",    \* the send of a piece of it
           "tools",      \* the tools
           "spacing",    \* the send of the blank before the second stream
           "wording",    \* the second stream
           "saying",     \* the send of a piece of it
           "excusing",   \* the send of an excuse, the last piece
           "closing",    \* the send of "done", or of the whole answer
           "dozing"}     \* two seconds, before the memory learns
Ended == {"idle", "over", "dead"}

Notices == {[kind |-> "event", of |-> e] : e \in Events}
           \cup {[kind |-> k, of |-> t] : k \in {"task", "tool"}, t \in Turns}

NoRequest == [form |-> "none", calls |-> {}, results |-> 0, signed |-> 0]
Turn == [pc: Awaits \cup Ended, door: Doors, session: Sessions,
         tagged: BOOLEAN, route: Routes,
         carried: SUBSET Notices, stream: Stream, buffer: SUBSET Attempts,
         heard: SUBSET Attempts, task: {"none", "created", "running", "done"},
         ran: SUBSET Call,
         request: [form: {"none", "plain", "native", "text"}, calls: SUBSET Call,
                   results: Nat, signed: Nat]]

Fresh ==
  [pc |-> "idle", door |-> "text", session |-> CHOOSE s \in Sessions : TRUE,
   tagged |-> FALSE, route |-> "I", carried |-> {}, stream |-> Opened,
   buffer |-> {}, heard |-> {}, task |-> "none", ran |-> {}, request |-> NoRequest]

Live(t) == turn[t].pc \in Awaits
Step(t, r) == turn' = [turn EXCEPT ![t] = r]
At(r, pc) == [r EXCEPT !.pc = pc]

\* A coroutine that ends drops its locals, but those that its tools still need.
Leave(r, pc) ==
  IF r.task \in {"created", "running"} THEN At(r, pc)
  ELSE [At(r, pc) EXCEPT !.tagged = FALSE, !.stream = Opened, !.buffer = {},
                         !.heard = {}, !.ran = {}, !.request = NoRequest]

\* A message of a session: the question of a turn or its answer.
Question(t) == [of |-> t, role |-> "user"]
Answer(t) == [of |-> t, role |-> "assistant"]
Adds(s, m) == sessions' = [sessions EXCEPT ![s] = Append(@, m)]

TypeOK ==
  /\ setup \in Setups
  /\ turn \in [Turns -> Turn]
  /\ Len(signatures) <= MaxSignatures
  /\ pending \subseteq Notices
  /\ \A s \in Sessions : Range(sessions[s]) \subseteq
       {Question(t) : t \in Turns} \cup {Answer(t) : t \in Turns}
  /\ queue \in Seq(Turns) /\ missions \subseteq Turns
  /\ worker \in [task: Turns \cup {NoTurn}, round: 0..MaxRounds]
  /\ restarts \in 0..setup.stops
  /\ finished \subseteq Turns /\ learned \subseteq Turns

Init ==
  /\ setup \in Setups
  /\ turn = [t \in Turns |-> Fresh]
  /\ signatures = <<>> /\ pending = {}
  /\ sessions = [s \in Sessions |-> <<>>]
  /\ queue = <<>> /\ worker = [task |-> NoTurn, round |-> 0] /\ missions = {}
  /\ restarts = 0
  /\ finished = {} /\ learned = {}

-----------------------------------------------------------------------------
(* What follows an answer *)

\* The tag at the start of the first stream gave the route; it is read here only, and is
\* left open until here.  A turn without a tag, or whose routing failed, has route I.
RoutesOf(r) == IF r.tagged THEN Routes ELSE {"I"}

\* The door submits the work that the route asks for.
Submits(t, route) ==
  /\ queue' = IF route = "BG" THEN Append(queue, t) ELSE queue
  /\ missions' = IF route = "BG:PROJECT" THEN missions \cup {t} ELSE missions
  /\ UNCHANGED <<worker, finished>>
Over(r, route) == [Leave(r, "over") EXCEPT !.route = route]

\* The voice gives the memory every reply that is not blank: an excuse never is, the
\* pieces of an answer may be.
VoiceLearns(t, r) ==
  \/ /\ r.pc = "excusing" \/ r.heard # {}
     /\ learned' = learned \cup {t}
  \/ r.pc # "excusing" /\ learned' = learned

\* Slip: the answer does not join the session.
CloseForgetting(t, r) ==
  /\ UNCHANGED <<sessions, background>>
  /\ Step(t, At(r, "closing")) /\ learned' = learned
\* Slip: the gateway submits the work, and the door does it again.
CloseSubmitting(t, r) ==
  /\ Adds(r.session, Answer(t))
  /\ Step(t, At(r, "closing"))
  /\ learned' = learned /\ \E route \in RoutesOf(r) : Submits(t, route)
\* The answer is complete: it joins the session.  What comes before the last send and
\* what after it differs from door to door.
Close(t, r) ==
  /\ Adds(r.session, Answer(t))
  /\ IF r.door = "http"
     THEN /\ \E route \in RoutesOf(r) : Submits(t, route) /\ Step(t, Over(r, route))
          /\ learned' = learned \cup {t}
     ELSE /\ Step(t, At(r, "closing")) /\ UNCHANGED background
          /\ IF r.door = "voice" THEN VoiceLearns(t, r) ELSE learned' = learned

\* "done" is sent, or the message of a channel.  Gestures and channels ignore the route.
Closed(t) ==
  LET r == turn[t] IN
  /\ r.pc = "closing"
  /\ \E route \in RoutesOf(r) :
       /\ Step(t, IF r.door = "text" THEN [Over(r, route) EXCEPT !.pc = "dozing"] ELSE Over(r, route))
       /\ IF r.door \in {"text", "voice"} THEN Submits(t, route) ELSE UNCHANGED background
  /\ UNCHANGED <<setup, signatures, pending, sessions, restarts, learned>>

Learns(t) ==
  /\ turn[t].pc = "dozing"
  /\ Step(t, At(turn[t], "over")) /\ learned' = learned \cup {t}
  /\ UNCHANGED <<setup, signatures, pending, sessions, background, restarts>>

-----------------------------------------------------------------------------
(* The generator of the gateway *)

\* Slip: the tools start again after each piece.
ResumedAnew(r) == IF r.stream.calls # <<>> THEN [r EXCEPT !.task = "created"] ELSE r
\* After a piece has gone out, the tools start if calls are there by now.
Resumed(r) ==
  IF r.task = "none" /\ r.stream.calls # <<>> THEN [r EXCEPT !.task = "created"] ELSE r

\* The door asks for the next piece: the rest of the buffer of extract_route (which the
\* tag may have used up), then the stream, then the tools, or the end.
Rest(t, r) == IF ~r.stream.over THEN Step(t, At(r, "streaming"))
              ELSE Step(t, At(Resumed(r), "tools"))
Goes(t, r) ==
  \/ /\ r.buffer # {}
     /\ Step(t, [At(r, "sending") EXCEPT !.buffer = {}, !.heard = @ \cup r.buffer])
     /\ UNCHANGED <<sessions, background, learned>>
  \/ /\ ~r.stream.over \/ r.stream.calls # <<>>
     /\ Rest(t, [r EXCEPT !.buffer = {}])
     /\ UNCHANGED <<sessions, background, learned>>
  \/ /\ r.stream.over /\ r.stream.calls = <<>>
     /\ Close(t, [r EXCEPT !.buffer = {}])

\* The route is known.  The doors with a socket open the answer with a message.
Routed(t, r) ==
  LET q == [r EXCEPT !.tagged = TRUE] IN
  IF r.door \in {"text", "gesture", "voice"}
  THEN Step(t, At(q, "opening")) /\ UNCHANGED <<sessions, background, learned>>
  ELSE Goes(t, q)

\* A send comes back.
Sent(t) ==
  LET r == turn[t] IN
  /\ \/ r.pc = "opening" /\ Goes(t, r)
     \/ r.pc = "sending" /\ Goes(t, Resumed(r))
     \/ /\ r.pc = "saying"
        /\ Step(t, At(r, "wording")) /\ UNCHANGED <<sessions, background, learned>>
     \/ r.pc = "excusing" /\ Close(t, r)
  /\ UNCHANGED <<setup, signatures, pending, restarts>>

-----------------------------------------------------------------------------
(* A message comes in *)

Drained == {}

Receive(t) ==
  /\ turn[t].pc = "idle"
  /\ \E s \in Sessions :
       Step(t, [Fresh EXCEPT !.pc = "recall", !.door = setup.door[t], !.session = s,
                             !.carried = pending])
  /\ pending' = Drained
  /\ UNCHANGED <<setup, signatures, sessions, background, restarts, learned>>

\* Recall and facts are in: the question joins the session and the stream opens.
Ask(t) ==
  /\ turn[t].pc = "recall"
  /\ Step(t, At(turn[t], "routing"))
  /\ Adds(turn[t].session, Question(t))
  /\ UNCHANGED <<setup, signatures, pending, background, restarts, learned>>

-----------------------------------------------------------------------------
(* The first stream *)

InStream(t) == turn[t].pc \in {"routing", "streaming"} /\ ~turn[t].stream.over

\* Text comes.  extract_route gathers it until it can tell the route.
Text(t) ==
  LET r == [turn[t] EXCEPT !.stream = Emits(@)]
      b == [r EXCEPT !.buffer = @ \cup {r.stream.attempt}] IN
  /\ InStream(t)
  /\ \/ /\ r.pc = "routing"
        /\ \/ Step(t, b) /\ UNCHANGED <<sessions, background, learned>>
           \/ Routed(t, b)
     \/ /\ r.pc = "streaming"
        /\ Step(t, [At(r, "sending") EXCEPT !.heard = @ \cup {r.stream.attempt}])
        /\ UNCHANGED <<sessions, background, learned>>
  /\ UNCHANGED <<setup, signatures, pending, restarts>>

\* The model asks for a tool; Gemini may sign the call.
CallsTool(t) ==
  LET s == turn[t].stream IN
  /\ InStream(t)
  /\ \E name \in Names :
       IF Duplicate(setup.provider, s, name) THEN UNCHANGED <<turn, signatures>>
       ELSE LET c == Captures(setup.provider, s, name) IN
            /\ Asked(s) < setup.calls[t]
            /\ Step(t, [turn[t] EXCEPT !.stream = c])
            /\ signatures' \in
                 IF setup.provider = "gemini"
                 THEN {signatures, Remember(signatures, <<t, Len(c.calls)>>)}
                 ELSE {signatures}
  /\ UNCHANGED <<setup, pending, sessions, background, restarts, learned>>

Stops(t) ==
  LET r == [turn[t] EXCEPT !.stream = Ends(@)] IN
  /\ InStream(t)
  /\ IF r.pc = "routing" THEN Routed(t, r) ELSE Goes(t, r)
  /\ UNCHANGED <<setup, signatures, pending, restarts>>

\* The request fails for good.  While the route is unknown the gateway gives an excuse
\* to the door in place of the stream, with route I; a channel sends it and adds nothing
\* to the session.  Later the door excuses itself, and the voice dies.
Fails(t) ==
  LET r == [turn[t] EXCEPT !.stream.over = TRUE, !.buffer = {}] IN
  Step(t, CASE r.door = "messaging" -> At(r, "closing")
            [] r.door = "voice" /\ r.pc = "streaming" -> Leave(r, "dead")
            [] OTHER -> At(r, "excusing"))

RequestFails(t) ==
  /\ InStream(t)
  /\ \/ Retriable(setup.provider, turn[t].stream) /\ Step(t, [turn[t] EXCEPT !.stream = Again(@)])
     \/ Fails(t)
  /\ UNCHANGED <<setup, signatures, pending, sessions, background, restarts, learned>>

-----------------------------------------------------------------------------
(* The tools and the second stream *)

\* The task of the tools first runs: it executes the calls captured by now, all at once.
\* It does not stop with its turn.
ToolsStart(t) ==
  LET calls == turn[t].stream.calls IN
  /\ turn[t].task = "created"
  /\ Step(t, [turn[t] EXCEPT !.task = "running", !.ran = @ \cup Range(calls)])
  /\ UNCHANGED <<setup, signatures, pending, sessions, background, restarts, learned>>

ToolsReturn(t) ==
  /\ turn[t].task = "running"
  /\ LET r == [turn[t] EXCEPT !.task = "done"] IN
     Step(t, IF r.pc \in Ended THEN Leave(r, r.pc) ELSE r)
  /\ UNCHANGED <<setup, signatures, pending, sessions, background, restarts, learned>>

\* A failure after the first stream: a notice for later, and an excuse now.
Excuses(t) ==
  /\ pending' = pending \cup {[kind |-> "tool", of |-> t]}
  /\ Step(t, At(turn[t], "excusing"))

Pairs(r) == Len(r.stream.calls) = Cardinality(r.ran)

\* The second request tells the calls with their results.
Request(t) ==
  LET calls == turn[t].stream.calls
      ids == {<<t, c.n>> : c \in Range(calls)} IN
  [form |-> IF setup.provider # "gemini" THEN "plain"
            ELSE IF Native(signatures, ids) THEN "native" ELSE "text",
   calls |-> Range(calls), results |-> Cardinality(turn[t].ran),
   signed |-> Cardinality({id \in ids : Contains(signatures, id)})]

Words(t) ==
  IF Pairs(turn[t])
  THEN Step(t, [At(turn[t], "wording") EXCEPT !.request = Request(t)]) /\ UNCHANGED pending
  ELSE Excuses(t)

\* The results are in.  A blank separates them from the text heard so far, if any.
Collects(t) ==
  /\ turn[t].pc = "tools" /\ turn[t].task = "done"
  /\ \/ turn[t].heard # {} /\ Step(t, At(turn[t], "spacing")) /\ UNCHANGED pending
     \/ Words(t)
  /\ UNCHANGED <<setup, signatures, sessions, background, restarts, learned>>

Spaced(t) ==
  /\ turn[t].pc = "spacing"
  /\ Words(t)
  /\ UNCHANGED <<setup, signatures, sessions, background, restarts, learned>>

\* The second stream gives text, fails or stops.
Wording(t) ==
  /\ turn[t].pc = "wording"
  /\ \/ /\ Step(t, [At(turn[t], "saying") EXCEPT !.heard = @ \cup {turn[t].stream.attempt}])
        /\ UNCHANGED <<pending, sessions, background, learned>>
     \/ Excuses(t) /\ UNCHANGED <<sessions, background, learned>>
     \/ Close(t, turn[t]) /\ UNCHANGED pending
  /\ UNCHANGED <<setup, signatures, restarts>>

-----------------------------------------------------------------------------
(* The client leaves *)

\* The client may leave at any point.  A door with a socket learns it from the next send;
\* a streamed response is cancelled wherever it is, with the tools it waits for.
Breaks(t) ==
  LET r == turn[t] IN
  /\ \/ /\ r.door \in {"text", "gesture", "voice"}
        /\ r.pc \in {"opening", "sending", "spacing", "saying", "excusing", "closing"}
        /\ Step(t, Leave(r, "dead"))
     \/ /\ r.door = "http"
        /\ r.pc \in {"sending", "streaming", "tools", "spacing", "wording", "saying", "excusing"}
        /\ Step(t, Leave([r EXCEPT !.task = IF r.pc = "tools" THEN "done" ELSE @], "dead"))
  /\ UNCHANGED <<setup, signatures, pending, sessions, background, restarts, learned>>

-----------------------------------------------------------------------------
(* Background *)

\* Another component asks for a notice.
Notify(e) ==
  LET n == [kind |-> "event", of |-> e] IN
  /\ n \notin pending /\ \A t \in Turns : n \notin turn[t].carried
  /\ pending' = pending \cup {n}
  /\ UNCHANGED <<setup, turn, signatures, sessions, background, restarts, learned>>

TakesTask ==
  /\ worker.task = NoTurn /\ queue # <<>>
  /\ worker' = [task |-> Head(queue), round |-> 0]
  /\ queue' = Tail(queue)
  /\ UNCHANGED <<setup, turn, signatures, pending, sessions, missions, restarts,
                 finished, learned>>

\* Slip: a task that fails reports nothing.
FailsSilently ==
  /\ worker' = [task |-> NoTurn, round |-> 0]
  /\ UNCHANGED <<pending, finished>>
\* The model calls tools, for a number of rounds, or answers; an answer, a failure and
\* the last round alike end the task with a notice.
Reports ==
  /\ pending' = pending \cup {[kind |-> "task", of |-> worker.task]}
  /\ worker' = [task |-> NoTurn, round |-> 0]
  /\ finished' = finished \cup {worker.task}
ExecutesTask ==
  /\ worker.task # NoTurn
  /\ \/ /\ worker.round < MaxRounds
        /\ worker' = [worker EXCEPT !.round = @ + 1] /\ UNCHANGED <<pending, finished>>
     \/ Reports
  /\ UNCHANGED <<setup, turn, signatures, sessions, queue, missions, restarts, learned>>

\* The process stops and starts again: the sessions come back from their transcripts.
Restart ==
  /\ restarts < setup.stops
  /\ restarts' = restarts + 1
  /\ turn' = [t \in Turns |->
       Leave([turn[t] EXCEPT !.task = "done"], IF Live(t) THEN "dead" ELSE turn[t].pc)]
  /\ signatures' = <<>> /\ pending' = {} /\ queue' = <<>>
  /\ worker' = [task |-> NoTurn, round |-> 0]
  /\ UNCHANGED <<setup, sessions, missions, finished, learned>>

-----------------------------------------------------------------------------
Next ==
  \/ \E t \in Turns :
       \/ Receive(t) \/ Ask(t) \/ Text(t) \/ CallsTool(t) \/ Stops(t) \/ RequestFails(t)
       \/ Sent(t) \/ ToolsStart(t) \/ ToolsReturn(t) \/ Collects(t) \/ Spaced(t)
       \/ Wording(t) \/ Closed(t) \/ Learns(t) \/ Breaks(t)
  \/ \E e \in Events : Notify(e)
  \/ TakesTask \/ ExecutesTask \/ Restart

\* The worker's loop is a task of its own, that takes what waits as soon as it is free.
\* Nothing bounds the time a task takes: neither a tool nor a provider that stays mute.
Spec == Init /\ [][Next]_vars /\ WF_vars(TakesTask)

-----------------------------------------------------------------------------
(* Properties *)

\* All that a client hears and all the calls that run in a turn come from one attempt of
\* the request: what a failed attempt left behind is neither read twice nor executed.
OneAttemptSpeaks ==
  \A t \in Turns : Cardinality(turn[t].heard \cup {c.attempt : c \in turn[t].ran}) <= 1

Positions(m, s) == {i \in 1..Len(s) : s[i] = m}

\* Work submitted for a turn and what the memory learned of it rest on a history that
\* holds the question, then one answer; no history holds a message of a turn twice.
HistoryHoldsEveryAnswer ==
  \A t \in Turns :
    LET s == sessions[turn[t].session]
        q == Positions(Question(t), s)  a == Positions(Answer(t), s) IN
    /\ Cardinality(q) <= 1 /\ Cardinality(a) <= 1
    /\ \A i \in a : \E j \in q : j < i
    /\ t \in Range(queue) \cup {worker.task} \cup finished \cup missions \cup learned => a # {}

\* A notice waits in the queue or was given to one turn, never to two, whichever of the
\* turns open at once drains the queue.
ServedOnce ==
  \A n \in Notices :
    Cardinality({t \in Turns : n \in turn[t].carried}) + (IF n \in pending THEN 1 ELSE 0) <= 1

\* The second request of a turn tells only calls that were executed, each with its result,
\* in the native form only with a signature for each, though other turns may have evicted
\* some from the shared cache meanwhile.
RequestIsWhole ==
  \A t \in Turns :
    LET q == turn[t].request IN
    /\ Cardinality(q.calls) = q.results /\ q.calls \subseteq turn[t].ran
    /\ q.form = "native" => q.signed = Cardinality(q.calls)

\* Background work of a turn waits, runs or is done, once.
WorkIsDoneOnce ==
  \A t \in Turns :
    Cardinality(Positions(t, queue)) + (IF worker.task = t THEN 1 ELSE 0)
      + (IF t \in finished THEN 1 ELSE 0) <= 1

\* The tools of a turn are executed in one go: no later piece of the stream runs a call
\* again, or runs a call that came after the others had started.
ToolsRunOnce ==
  [][\A t \in Turns : turn[t].ran # {} => turn'[t].ran \in {turn[t].ran, {}}]_vars

\* A task may hold the worker for ever, at a tool or at a provider that stays mute.
HeldForEver == \E u \in Turns : <>[](worker.task = u)

\* Work that was submitted is reported on, be it done, failed or out of rounds, unless
\* the process stops or one task holds the worker for ever.
WorkIsReported ==
  \/ HeldForEver
  \/ \A t \in Turns : t \in Range(queue) ~> (t \in finished \/ restarts > 0)

\* What the prompt promises of the route BG: « tu confirmes et ça tourne en
\* arrière-plan ».  A turn that went to its end with that route has its work submitted.
AnnouncedWorkStarts ==
  \A t \in Turns :
    turn[t].pc = "over" /\ turn[t].route = "BG" =>
      t \in Range(queue) \cup {worker.task} \cup finished \/ restarts > 0
==============================================================================
