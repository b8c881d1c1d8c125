----------------------------- MODULE RemoteAgents -----------------------------
(***************************************************************************)
(* Machines that the assistant drives from afar.  A small agent on the      *)
(* machine calls the server, presents itself and waits for actions; it runs *)
(* them one at a time and sends each result back over the connection the    *)
(* action came by.  The connection may break at any point, the two sides    *)
(* notice it each in its own time, the agent then calls again, and an       *)
(* action is given up after thirty seconds though the machine may still be  *)
(* running it.                                                              *)
(*   - kernel/remote_agents.py              registry, dispatch              *)
(*   - interfaces/api/agent_ws.py           _dispatch, websocket_agent      *)
(*   - capabilities/tools/remote_pc.py      execute                         *)
(*   - scripts/agent_pc.py                  session, boucle                 *)
(***************************************************************************)
EXTENDS Naturals, Sequences, SequencesExt, FiniteSets

CONSTANTS
  Machines,
  Calls,        \* uses of the tool
  Target,       \* the machine a call names, or NoMachine
  Announced,    \* calls whose action each machine announces
  MaxLinks,     \* bound: the connections agents may open
  NoLink, NoMachine, NoCall,
  MaxRestarts   \* bound: restarts of the server

Links == 1..MaxLinks

ASSUME RemoteAssumption ==
  /\ Target \in [Calls -> Machines \cup {NoMachine}]
  /\ Announced \in [Machines -> SUBSET Calls]
  /\ MaxLinks \in Nat /\ NoLink \notin Links /\ NoMachine \notin Machines /\ NoCall \notin Calls
  /\ MaxRestarts \in Nat

VARIABLES
  link,        \* each connection: its machine, whether it stands, the server's coroutine,
               \* and what is on its way down to the agent and up from it
  agent,       \* each agent: where it is, its connection, the action it runs
  sockets,     \* _sockets
  listed,      \* RemoteAgentRegistry._agents
  dispatcher,  \* RemoteAgentRegistry._dispatcher is set
  call,        \* each call: where it is, and the connection it was sent on
  restarts,
  ran,         \* history: <<call, connection>> of the actions started
  done         \* history: calls whose action succeeded

server == <<sockets, listed, dispatcher>>
vars == <<link, agent, server, call, restarts, ran, done>>

Welcome == [kind |-> "welcome", call |-> NoCall]
Action(c) == [kind |-> "action", call |-> c]
Result(c, ok) == [call |-> c, ok |-> ok]

Link == [machine: Machines \cup {NoMachine}, stands: BOOLEAN,
         handler: {"none", "presenting", "serving", "ended"},
         down: Seq({Welcome} \cup {Action(c) : c \in Calls}),
         up: Seq({Result(c, ok) : c \in Calls, ok \in BOOLEAN})]
Unused == [machine |-> NoMachine, stands |-> FALSE, handler |-> "none",
           down |-> <<>>, up |-> <<>>]

Agent == [at: {"away", "greeting", "listening", "acting"}, link: Links \cup {NoLink},
          call: Calls \cup {NoCall}]
Away == [at |-> "away", link |-> NoLink, call |-> NoCall]

CallState == [at: {"idle", "waiting", "ok", "failed", "late", "lost", "refused"},
              link: Links \cup {NoLink}]

TypeOK ==
  /\ link \in [Links -> Link]
  /\ agent \in [Machines -> Agent]
  /\ sockets \in [Machines -> Links \cup {NoLink}]
  /\ listed \subseteq Machines /\ dispatcher \in BOOLEAN
  /\ call \in [Calls -> CallState]
  /\ restarts \in 0..MaxRestarts
  /\ ran \subseteq Calls \X Links /\ done \subseteq Calls

Init ==
  /\ link = [l \in Links |-> Unused]
  /\ agent = [m \in Machines |-> Away]
  /\ sockets = [m \in Machines |-> NoLink] /\ listed = {} /\ dispatcher = FALSE
  /\ call = [c \in Calls |-> [at |-> "idle", link |-> NoLink]]
  /\ restarts = 0 /\ ran = {} /\ done = {}

-----------------------------------------------------------------------------
(* The agent *)

\* It calls the server and presents itself.
Connect(m) ==
  /\ agent[m].at = "away"
  /\ \E l \in Links :
       /\ link[l] = Unused /\ \A k \in 1..(l - 1) : link[k] # Unused
       /\ link' = [link EXCEPT ![l].machine = m, ![l].stands = TRUE, ![l].handler = "presenting"]
       /\ agent' = [agent EXCEPT ![m] = [at |-> "greeting", link |-> l, call |-> NoCall]]
  /\ UNCHANGED <<server, call, restarts, ran, done>>

\* The next message from the server: the welcome, or an action that a thread then runs.
Takes(m) ==
  LET l == agent[m].link IN
  /\ agent[m].at \in {"greeting", "listening"} /\ link[l].down # <<>>
  /\ LET msg == Head(link[l].down) IN
     /\ agent' = [agent EXCEPT ![m] =
          [at |-> IF msg = Welcome THEN "listening" ELSE "acting", link |-> l, call |-> msg.call]]
     /\ ran' = IF msg = Welcome THEN ran ELSE ran \cup {<<msg.call, l>>}
  /\ link' = [link EXCEPT ![l].down = Tail(@)]
  /\ UNCHANGED <<server, call, restarts, done>>

\* The action ends, well or not, and its result leaves if the connection still stands.
Finishes(m) ==
  LET l == agent[m].link  c == agent[m].call IN
  /\ agent[m].at = "acting"
  /\ \E ok \in BOOLEAN :
       /\ done' = IF ok THEN done \cup {c} ELSE done
       /\ IF link[l].stands
          THEN /\ link' = [link EXCEPT ![l].up = Append(@, Result(c, ok))]
               /\ agent' = [agent EXCEPT ![m] = [at |-> "listening", link |-> l, call |-> NoCall]]
          ELSE agent' = [agent EXCEPT ![m] = Away] /\ UNCHANGED link
  /\ UNCHANGED <<server, call, restarts, ran>>

\* It notices that the connection is broken, or is tired of waiting for the welcome.
Drops(m) ==
  LET l == agent[m].link IN
  /\ \/ agent[m].at \in {"greeting", "listening"} /\ ~link[l].stands
     \/ agent[m].at = "greeting"
  /\ agent' = [agent EXCEPT ![m] = Away]
  /\ link' = [link EXCEPT ![l].stands = FALSE, ![l].down = <<>>]
  /\ UNCHANGED <<server, call, restarts, ran, done>>

-----------------------------------------------------------------------------
(* The server's side of a connection *)

\* Slip: the actions that the last connection lost are sent again.
GreetsAgain(l) ==
  LET m == link[l].machine
      lost == {c \in Calls : call[c].at = "lost" /\ Target[c] = m} IN
  /\ link[l].handler = "presenting" /\ link[l].stands
  /\ sockets' = [sockets EXCEPT ![m] = l]
  /\ listed' = listed \cup {m} /\ dispatcher' = TRUE
  /\ link' = [link EXCEPT ![l].handler = "serving",
                          ![l].down = <<Welcome>> \o SetToSeq({Action(c) : c \in lost})]
  /\ UNCHANGED <<agent, call, restarts, ran, done>>
Greets(l) ==
  LET m == link[l].machine IN
  /\ link[l].handler = "presenting" /\ link[l].stands
  /\ sockets' = [sockets EXCEPT ![m] = l]
  /\ listed' = listed \cup {m} /\ dispatcher' = TRUE
  /\ link' = [link EXCEPT ![l].handler = "serving", ![l].down = <<Welcome>>]
  /\ UNCHANGED <<agent, call, restarts, ran, done>>

\* Slip: a result settles whichever call waits.
SettlesAny(r) == {c \in Calls : call[c].at = "waiting"}
\* A result settles the call of its identifier, if it still waits.
Settles(r) == {c \in Calls : c = r.call /\ call[c].at = "waiting"}

Receives(l) ==
  /\ link[l].handler = "serving" /\ link[l].up # <<>>
  /\ LET r == Head(link[l].up) IN
     call' = [c \in Calls |->
       IF c \in Settles(r) THEN [call[c] EXCEPT !.at = IF r.ok THEN "ok" ELSE "failed"]
       ELSE call[c]]
  /\ link' = [link EXCEPT ![l].up = Tail(@)]
  /\ UNCHANGED <<agent, server, restarts, ran, done>>

\* Slip: the channel closes with any machine.
ForgetsAll(l) ==
  LET m == link[l].machine IN
  /\ sockets' = [sockets EXCEPT ![m] = NoLink]
  /\ listed' = listed \ {m} /\ dispatcher' = FALSE
\* What the coroutine does on its way out, by the name of its machine.
Forgets(l) ==
  LET m == link[l].machine
      s == [sockets EXCEPT ![m] = NoLink] IN
  /\ sockets' = s /\ listed' = listed \ {m}
  /\ dispatcher' = (dispatcher /\ \E k \in Machines : s[k] # NoLink)

\* It ends: the connection broke, or the presentation did not come in time (the machine
\* is not known then).
HandlerEnds(l) ==
  /\ \/ link[l].handler = "serving" /\ ~link[l].stands /\ Forgets(l)
     \/ /\ link[l].handler = "presenting"
        /\ dispatcher' = (dispatcher /\ \E k \in Machines : sockets[k] # NoLink)
        /\ UNCHANGED <<sockets, listed>>
  /\ link' = [link EXCEPT ![l].handler = "ended", ![l].stands = FALSE, ![l].up = <<>>]
  /\ UNCHANGED <<agent, call, restarts, ran, done>>

-----------------------------------------------------------------------------
(* A use of the tool *)

\* The machine named, or the only one.
Resolved(c) ==
  IF Target[c] # NoMachine THEN listed \cap {Target[c]}
  ELSE IF Cardinality(listed) = 1 THEN listed ELSE {}

Able(c, m) == dispatcher /\ c \in Announced[m] /\ sockets[m] # NoLink

\* It goes out if it can.  On a connection that no longer stands the send may go through
\* all the same, to nobody.
Dispatch(c) ==
  /\ call[c].at = "idle"
  /\ IF \E m \in Resolved(c) : Able(c, m)
     THEN \E m \in Resolved(c) :
            LET l == sockets[m] IN
            \/ /\ call' = [call EXCEPT ![c] = [at |-> "waiting", link |-> l]]
               /\ link' = IF link[l].stands THEN [link EXCEPT ![l].down = Append(@, Action(c))]
                          ELSE link
            \/ /\ ~link[l].stands
               /\ call' = [call EXCEPT ![c] = [at |-> "lost", link |-> l]] /\ UNCHANGED link
     ELSE call' = [call EXCEPT ![c].at = "refused"] /\ UNCHANGED link
  /\ UNCHANGED <<agent, server, restarts, ran, done>>

\* Thirty seconds are over.
GivesUp(c) ==
  /\ call[c].at = "waiting"
  /\ call' = [call EXCEPT ![c].at = "late"]
  /\ UNCHANGED <<link, agent, server, restarts, ran, done>>

-----------------------------------------------------------------------------
(* Failures *)

Break(l) ==
  /\ link[l].stands
  /\ link' = [link EXCEPT ![l].stands = FALSE]
  /\ UNCHANGED <<agent, server, call, restarts, ran, done>>

\* The server stops and starts again; nothing was on disk.
Restart ==
  /\ restarts < MaxRestarts /\ restarts' = restarts + 1
  /\ link' = [l \in Links |-> IF link[l].handler = "none" THEN link[l]
                              ELSE [link[l] EXCEPT !.stands = FALSE, !.handler = "ended",
                                                   !.up = <<>>]]
  /\ sockets' = [m \in Machines |-> NoLink] /\ listed' = {} /\ dispatcher' = FALSE
  /\ call' = [c \in Calls |-> IF call[c].at = "waiting" THEN [call[c] EXCEPT !.at = "lost"]
                              ELSE call[c]]
  /\ UNCHANGED <<agent, ran, done>>

Next ==
  \/ \E m \in Machines : Connect(m) \/ Takes(m) \/ Finishes(m) \/ Drops(m)
  \/ \E l \in Links : Greets(l) \/ Receives(l) \/ HandlerEnds(l) \/ Break(l)
  \/ \E c \in Calls : Dispatch(c) \/ GivesUp(c)
  \/ Restart

Spec == Init /\ [][Next]_vars

-----------------------------------------------------------------------------
(* Properties *)

\* The assistant says that an action was done only if the machine did that very action:
\* the result of an action given up never passes for the result of the next.
OkMeansDone == \A c \in Calls : call[c].at = "ok" => c \in done

\* A machine in the inventory can be reached: its entry is a connection that a coroutine
\* of the server serves for it, and there is a way to send, whatever the order in which
\* machines come and go.
ListedIsReachable ==
  \A m \in Machines :
    /\ m \in listed <=> sockets[m] # NoLink
    /\ m \in listed => /\ dispatcher
                       /\ link[sockets[m]].handler = "serving"
                       /\ link[sockets[m]].machine = m

\* « on le dit à l'utilisateur plutôt que d'empiler des commandes » : an action runs over
\* the connection it was sent on or not at all; none waits for a machine
\* that comes back.
NothingIsKeptForLater ==
  \A p \in ran : call[p[1]].link = p[2] /\ call[p[1]].at # "refused"

\* The registry holds the « agents connectés à l'instant T » : an agent that listens on a
\* connection that stands and that the server serves is in the inventory.
RegistryIsCurrent ==
  \A m \in Machines :
    LET l == agent[m].link IN
    agent[m].at = "listening" /\ link[l].stands /\ link[l].handler = "serving" => m \in listed
==============================================================================
