------------------------------- MODULE Consent -------------------------------
(***************************************************************************)
(* Asking before acting.  Some tools put a question to the user and wait,   *)
(* two minutes at most; a script in the sandbox is itself such an action,   *)
(* and once it runs each tool it calls through the bridge of files is       *)
(* another.  Answers come over HTTP whenever the user clicks, possibly for  *)
(* a question nobody waits on any more, and whoever called the tool may be  *)
(* cancelled at any moment: the time-out of a subagent or of a mission      *)
(* step, a stream that is cut.  Under Python 3.11, the version of the       *)
(* image, of the bundle and of the tests, asyncio.wait_for gives back an    *)
(* answer that has just come instead of the cancellation of its caller.     *)
(*   - engine/approval_checker.py          ApprovalChecker                  *)
(*   - engine/mission/backends/rpc.py      ScriptRPCRunner, crush_tools     *)
(*   - capabilities/tools/subagent.py      ScriptRPCTool                    *)
(*   - capabilities/tools/printer.py, fusion.py                             *)
(*   - interfaces/api/config/permissions.py                                 *)
(***************************************************************************)
EXTENDS Naturals, FiniteSets

CONSTANTS
  Plain,        \* uses of a tool that asks and then acts: printer, Fusion
  Scripts,      \* uses of the script tool
  Requests,     \* calls that scripts make through the bridge
  Of,           \* the script of each request
  Quota,        \* MAX_TOOL_CALLS
  MaxChanges    \* bound: changes of a mode

\* Every question has an action_id of its own.
ASSUME ConsentAssumption ==
  /\ Of \in [Requests -> Scripts] /\ Quota \in Nat /\ MaxChanges \in Nat
  /\ Plain \cap Scripts = {} /\ Plain \cap Requests = {} /\ Scripts \cap Requests = {}

Questions == Plain \cup Scripts \cup Requests     \* an action_id each

Modes == {"always", "ask", "never"}
\* The category a question is put under.
Category(q) == IF q \in Plain THEN "machine" ELSE "code_write"

VARIABLES
  mode,      \* of each category, in approval_config
  changes,
  question,  \* check: where it is
  pending,   \* ApprovalChecker._pending
  script,    \* each script tool
  request,   \* what each request is for the script
  file,      \* req_*.json that are on disk
  reply,     \* res_*.json that are on disk
  serving,   \* what the dispatcher of each script is at
  calls,     \* tool_call_count
  missed,    \* history: the scripts whose dispatcher missed a cancellation
  said,      \* history: what settled a question in time
  runs       \* history: how often each action was started

bridge == <<request, file, reply, serving, calls>>
vars == <<mode, changes, question, pending, script, bridge, missed, said, runs>>

TypeOK ==
  /\ mode \in [{"machine", "code_write"} -> Modes] /\ changes \in 0..MaxChanges
  /\ question \in [Questions -> {"unasked", "waiting", "left", "allowed", "denied", "used"}]
  /\ pending \subseteq Questions
  /\ script \in [Scripts -> {"idle", "asking", "running", "closing", "stuck", "orphan", "over"}]
  /\ request \in [Requests -> {"none", "posted", "answered", "abandoned"}]
  /\ file \subseteq Requests /\ reply \subseteq Requests
  /\ serving \in [Scripts -> SUBSET Requests]
  /\ calls \in [Scripts -> 0..Quota] /\ missed \subseteq Scripts
  /\ said \in [Questions -> {"nothing", "always", "yes", "no"}]
  /\ runs \in [Questions -> 0..2]

Init ==
  /\ mode = [c \in {"machine", "code_write"} |-> "ask"] /\ changes = 0 /\ pending = {}
  /\ question = [q \in Questions |-> "unasked"]
  /\ script = [s \in Scripts |-> "idle"]
  /\ request = [r \in Requests |-> "none"] /\ file = {} /\ reply = {}
  /\ serving = [s \in Scripts |-> {}] /\ calls = [s \in Scripts |-> 0] /\ missed = {}
  /\ said = [q \in Questions |-> "nothing"] /\ runs = [q \in Questions |-> 0]

-----------------------------------------------------------------------------
(* The checker *)

\* The mode is read once; only ASK puts a question and waits.
Check(q) ==
  \/ /\ mode[Category(q)] = "always"
     /\ question' = [question EXCEPT ![q] = "allowed"]
     /\ said' = [said EXCEPT ![q] = "always"] /\ UNCHANGED pending
  \/ /\ mode[Category(q)] = "never"
     /\ question' = [question EXCEPT ![q] = "denied"] /\ UNCHANGED <<pending, said>>
  \/ /\ mode[Category(q)] = "ask"
     /\ question' = [question EXCEPT ![q] = "waiting"]
     /\ pending' = pending \cup {q} /\ UNCHANGED said

\* Slip: the answer releases whoever waits.
HeardByAny(q) == {k \in Questions : q \in pending /\ question[k] = "waiting"}
\* The questions that an answer to q settles: q, if its future is there and not done.
Heard(q) == {k \in {q} \cap pending : question[k] = "waiting"}

\* The endpoint says "ok" whatever comes of it.
Resolve(q) ==
  /\ \E yes \in BOOLEAN :
       /\ question' = [k \in Questions |->
            IF k \in Heard(q) THEN IF yes THEN "allowed" ELSE "denied" ELSE question[k]]
       /\ said' = IF q \in pending /\ question[q] = "waiting"
                  THEN [said EXCEPT ![q] = IF yes THEN "yes" ELSE "no"] ELSE said
  /\ pending' = pending \ {q}
  /\ UNCHANGED <<mode, changes, script, bridge, missed, runs>>

\* Two minutes without an answer.
Expires(q) ==
  /\ question[q] = "waiting"
  /\ question' = [question EXCEPT ![q] = "denied"]
  /\ pending' = pending \ {q}
  /\ UNCHANGED <<mode, changes, script, bridge, missed, said, runs>>

\* The callers are cancelled, or tired of waiting before the checker is: their futures
\* are cancelled, the entries stay.
Leave(Q) == question' = [k \in Questions |->
  IF k \in Q /\ question[k] = "waiting" THEN "left" ELSE question[k]]

ChangeMode ==
  /\ changes < MaxChanges /\ changes' = changes + 1
  /\ \E c \in DOMAIN mode, m \in Modes : m # mode[c] /\ mode' = [mode EXCEPT ![c] = m]
  /\ UNCHANGED <<question, pending, script, bridge, missed, said, runs>>

\* A yes is acted upon.
Start(q) ==
  /\ runs' = [runs EXCEPT ![q] = IF @ < 2 THEN @ + 1 ELSE @]
  /\ question' = [question EXCEPT ![q] = "used"]

-----------------------------------------------------------------------------
(* A tool that asks, then acts *)

Ask(p) ==
  /\ question[p] = "unasked" /\ Check(p)
  /\ UNCHANGED <<mode, changes, script, bridge, missed, runs>>

Act(p) ==
  /\ question[p] = "allowed" /\ Start(p)
  /\ UNCHANGED <<mode, changes, pending, script, bridge, missed, said>>

-----------------------------------------------------------------------------
(* A script *)

Submit(s) ==
  /\ script[s] = "idle" /\ script' = [script EXCEPT ![s] = "asking"]
  /\ Check(s)
  /\ UNCHANGED <<mode, changes, bridge, missed, runs>>

\* It waits for less long than the checker does.
TiresOfAsking(s) ==
  /\ script[s] = "asking" /\ question[s] = "waiting" /\ Leave({s})
  /\ script' = [script EXCEPT ![s] = "over"]
  /\ UNCHANGED <<mode, changes, pending, bridge, missed, said, runs>>

Begin(s) ==
  /\ script[s] = "asking" /\ question[s] \in {"allowed", "denied"}
  /\ IF question[s] = "allowed"
     THEN script' = [script EXCEPT ![s] = "running"] /\ Start(s)
     ELSE script' = [script EXCEPT ![s] = "over"] /\ UNCHANGED <<question, runs>>
  /\ UNCHANGED <<mode, changes, pending, bridge, missed, said>>

\* The process of the script may be there, with its directory: no time-out kills it, and
\* the directory goes with the dispatcher.
Alive(s) == script[s] \in {"running", "closing", "stuck", "orphan"}

\* crush_tools writes a request and watches for its result; a minute later it raises, and
\* the script may go on.
Post(r) ==
  /\ Alive(Of[r]) /\ request[r] = "none"
  /\ \A k \in Requests : Of[k] = Of[r] => request[k] # "posted"
  /\ request' = [request EXCEPT ![r] = "posted"] /\ file' = file \cup {r}
  /\ UNCHANGED <<mode, changes, question, pending, script, reply, serving, calls, missed, said, runs>>

Collect(r) ==
  /\ Alive(Of[r]) /\ request[r] = "posted"
  /\ \/ r \in reply /\ request' = [request EXCEPT ![r] = "answered"]
     \/ request' = [request EXCEPT ![r] = "abandoned"]
  /\ UNCHANGED <<mode, changes, question, pending, script, file, reply, serving, calls, missed, said, runs>>

-----------------------------------------------------------------------------
(* The dispatcher *)

Looping(s) == script[s] \in {"running", "closing", "stuck", "orphan"}

\* It goes from request to request, and waits for each.
Idle(s) == serving[s] = {}

\* Slip: the request stays where it was.
RepliesOnly(r) == UNCHANGED <<file, reply>>
\* The result is written, then the request removed.
Replies(r) == reply' = reply \cup {r} /\ file' = file \ {r}

Due(s) == {r \in file \ reply : Of[r] = s}

\* A request that is not whole yet, that names a forbidden tool or that is over the quota
\* gets an error at once.
Turns(s) ==
  /\ Looping(s) /\ Idle(s)
  /\ \E r \in Due(s) : Replies(r)
  /\ UNCHANGED <<mode, changes, question, pending, script, request, serving, calls, missed, said, runs>>

Takes(s) ==
  /\ Looping(s) /\ Idle(s) /\ calls[s] < Quota
  /\ \E r \in Due(s) : Check(r) /\ serving' = [serving EXCEPT ![s] = @ \cup {r}]
  /\ UNCHANGED <<mode, changes, script, request, file, reply, calls, missed, runs>>

\* The answer of the user: the tool starts, or the refusal is the result.
Dispatch(r) ==
  LET s == Of[r] IN
  /\ r \in serving[s] /\ question[r] \in {"allowed", "denied"}
  /\ IF question[r] = "allowed"
     THEN /\ calls' = [calls EXCEPT ![s] = @ + 1] /\ Start(r)
          /\ UNCHANGED <<serving, file, reply>>
     ELSE /\ Replies(r) /\ serving' = [serving EXCEPT ![s] = @ \ {r}]
          /\ UNCHANGED <<calls, question, runs>>
  /\ UNCHANGED <<mode, changes, pending, script, request, missed, said>>

\* The tool returns, or fails.
Returns(r) ==
  LET s == Of[r] IN
  /\ r \in serving[s] /\ question[r] = "used"
  /\ Replies(r) /\ serving' = [serving EXCEPT ![s] = @ \ {r}]
  /\ UNCHANGED <<mode, changes, question, pending, script, request, calls, missed, said, runs>>

\* Slip: the dispatcher outlives the script.
LeavesItRunning(s) == UNCHANGED <<question, serving, file, reply>>
\* The dispatcher is cancelled, wherever it is, and the files are removed.
Cancels(s) ==
  /\ Leave(serving[s]) /\ serving' = [serving EXCEPT ![s] = {}]
  /\ file' = {r \in file : Of[r] # s} /\ reply' = {r \in reply : Of[r] # s}

\* The user has just answered what the dispatcher waits for: it will see the answer and
\* never the cancellation.
Deaf(s) == \E r \in serving[s] : question[r] \in {"allowed", "denied"} /\ said[r] \in {"yes", "no"}

\* The same may happen inside the tool that runs, in a bounded wait of its own.
MayMiss(s) == Deaf(s) \/ \E r \in serving[s] : question[r] = "used"

\* The cancellation of the dispatcher, awaited.
Stop(s, otherwise) ==
  /\ \/ /\ MayMiss(s) /\ missed' = missed \cup {s}
        /\ script' = [script EXCEPT ![s] = otherwise] /\ UNCHANGED <<question, serving, file, reply>>
     \/ /\ ~Deaf(s) /\ UNCHANGED missed
        /\ script' = [script EXCEPT ![s] = "over"] /\ Cancels(s)
  /\ UNCHANGED <<mode, changes, pending, request, calls, said, runs>>

\* The script ends, by itself or by its time limit.
End(s) == script[s] = "running" /\ Stop(s, "closing")

\* The tool's own time limit cancels the whole run, once, and waits for it; so does the
\* cancellation of the tool by whoever called it.
HardLimit(s) == script[s] \in {"running", "closing"} /\ Stop(s, "stuck")

-----------------------------------------------------------------------------
(* The caller is cancelled before the answer, or cancelled while the tool waits for a
   dispatcher that missed its cancellation: the wait ends, the dispatcher does not. *)

GivesUp(p) ==
  /\ question[p] = "waiting" /\ Leave({p})
  /\ UNCHANGED <<mode, changes, pending, script, bridge, missed, said, runs>>

Withdraws(s) ==
  /\ script[s] = "asking" /\ Leave({s})
  /\ script' = [script EXCEPT ![s] = "over"]
  /\ UNCHANGED <<mode, changes, pending, bridge, missed, said, runs>>

Deserts(s) ==
  /\ script[s] = "stuck" /\ script' = [script EXCEPT ![s] = "orphan"]
  /\ UNCHANGED <<mode, changes, question, pending, bridge, missed, said, runs>>

Next ==
  \/ \E q \in Questions : Resolve(q) \/ Expires(q)
  \/ ChangeMode
  \/ \E p \in Plain : Ask(p) \/ Act(p) \/ GivesUp(p)
  \/ \E s \in Scripts : Submit(s) \/ TiresOfAsking(s) \/ Begin(s) \/ Turns(s) \/ Takes(s)
                       \/ End(s) \/ HardLimit(s) \/ Withdraws(s) \/ Deserts(s)
  \/ \E r \in Requests : Post(r) \/ Collect(r) \/ Dispatch(r) \/ Returns(r)

Spec == Init /\ [][Next]_vars

\* Clocks run and what is ready is run: the time limits fall, the dispatcher goes on.
Fairness ==
  /\ \A q \in Questions : WF_vars(Expires(q))
  /\ \A s \in Scripts : /\ WF_vars(TiresOfAsking(s)) /\ WF_vars(Begin(s))
                        /\ WF_vars(Turns(s)) /\ WF_vars(HardLimit(s))
  /\ \A r \in Requests : WF_vars(Dispatch(r)) /\ WF_vars(Returns(r))
FairSpec == Spec /\ Fairness

-----------------------------------------------------------------------------
(* Properties *)

\* Nothing that asks is started without a word of its own: an answer releases the question
\* it was given to, in time, and no other.
RunsOnItsOwnYes ==
  \A q \in Questions : runs[q] > 0 => said[q] \in {"always", "yes"}

\* A call through the bridge is made once at most, though requests are found by looking
\* again and again at a directory, and no more than the quota of them.
BridgeIsMetered ==
  /\ \A r \in Requests : runs[r] <= 1
  /\ \A s \in Scripts : Cardinality({r \in Requests : Of[r] = s /\ runs[r] > 0}) <= Quota

\* Once the use of a script is over none of its calls starts, whatever was asked or
\* answered: a yes that comes late finds nobody.  The one exception is a dispatcher that
\* missed its cancellation and whose tool was then cancelled while it waited for it.
NothingAfterTheEnd ==
  [][\A r \in Requests : runs'[r] > runs[r] =>
        /\ script[Of[r]] # "over"
        /\ script[Of[r]] = "orphan" => Of[r] \in missed]_vars

\* « Ce wait_for garantit qu'un appel d'outil rend toujours la main » : the use of a
\* script comes to an end.
AlwaysReturns == \A s \in Scripts : script[s] = "asking" ~> script[s] \in {"over", "orphan"}
==============================================================================
