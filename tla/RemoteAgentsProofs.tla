--------------------------- MODULE RemoteAgentsProofs ---------------------------
(***************************************************************************)
(* For every number of machines, connections, actions and restarts: the     *)
(* assistant says done only of what was done, the inventory holds only      *)
(* machines that can be reached, and no action waits for a machine that is  *)
(* away.                                                                     *)
(***************************************************************************)
EXTENDS RemoteAgents, TLAPS

(***************************************************************************)
(* The inductive invariant follows an action along its way.  It is on one   *)
(* connection only, the one it was sent on (SentDown), the agent runs it    *)
(* from there (Acts), and a result that says it succeeded goes up only once *)
(* it did (SentUp).  A coroutine knows the machine it serves (Named).       *)
(***************************************************************************)
Sent(c, l) == call[c].link = l /\ call[c].at \notin {"idle", "refused"}

SentDown ==
  \A l \in Links : \A i \in 1..Len(link[l].down) : \A c \in Calls :
    link[l].down[i] = Action(c) => Sent(c, l)

Acts ==
  \A m \in Machines :
    /\ agent[m].at # "away" => agent[m].link \in Links
    /\ agent[m].at = "acting" => agent[m].call \in Calls

SentUp ==
  \A l \in Links : \A i \in 1..Len(link[l].up) : link[l].up[i].ok => link[l].up[i].call \in done

Named == \A l \in Links : link[l].handler # "none" => link[l].machine \in Machines

Started == \A p \in ran : Sent(p[1], p[2])

Core == SentDown /\ Acts /\ SentUp /\ Named /\ Started /\ OkMeansDone /\ ListedIsReachable
Inv == TypeOK /\ Core

-----------------------------------------------------------------------------
\* Messages differ by their kind, and actions by their call.
LEMMA Messages ==
  /\ \A c \in Calls : Action(c) # Welcome /\ Action(c).call = c
  /\ \A c, k \in Calls : Action(c) = Action(k) => c = k
  /\ Welcome.call = NoCall
  BY DEF Action, Welcome

LEMMA Ends ==
  ASSUME NEW S, NEW s \in Seq(S), NEW e \in S
  PROVE  /\ Append(s, e) \in Seq(S) /\ Len(Append(s, e)) = Len(s) + 1
         /\ \A i \in 1..Len(s) + 1 : Append(s, e)[i] = IF i = Len(s) + 1 THEN e ELSE s[i]
         /\ s # <<>> => /\ Head(s) = s[1] /\ 1 \in 1..Len(s) /\ Head(s) \in S
                        /\ Tail(s) \in Seq(S) /\ Len(Tail(s)) = Len(s) - 1
                        /\ \A i \in 1..Len(s) - 1 : Tail(s)[i] = s[i + 1] /\ i + 1 \in 1..Len(s)
  OBVIOUS

\* The types, one by one.
Down == Seq({Welcome} \cup {Action(c) : c \in Calls})
Up == Seq({Result(c, ok) : c \in Calls, ok \in BOOLEAN})
LEMMA Fields ==
  ASSUME TypeOK
  PROVE  /\ \A l \in Links :
              /\ link[l].machine \in Machines \cup {NoMachine} /\ link[l].stands \in BOOLEAN
              /\ link[l].handler \in {"none", "presenting", "serving", "ended"}
              /\ link[l].down \in Down /\ link[l].up \in Up /\ link[l] \in Link
         /\ \A m \in Machines :
              /\ agent[m].at \in {"away", "greeting", "listening", "acting"}
              /\ agent[m].link \in Links \cup {NoLink} /\ agent[m].call \in Calls \cup {NoCall}
         /\ \A c \in Calls :
              /\ call[c].at \in {"idle", "waiting", "ok", "failed", "late", "lost", "refused"}
              /\ call[c].link \in Links \cup {NoLink}
  <1>1. /\ \A l \in Links : link[l] \in Link
        /\ \A m \in Machines : agent[m] \in Agent
        /\ \A c \in Calls : call[c] \in CallState
    BY DEF TypeOK
  <1>2. \A k \in Link :
          /\ k.machine \in Machines \cup {NoMachine} /\ k.stands \in BOOLEAN
          /\ k.handler \in {"none", "presenting", "serving", "ended"}
          /\ k.down \in Down /\ k.up \in Up
    BY DEF Link, Down, Up
  <1>3. \A a \in Agent : /\ a.at \in {"away", "greeting", "listening", "acting"}
                         /\ a.link \in Links \cup {NoLink} /\ a.call \in Calls \cup {NoCall}
    BY DEF Agent
  <1>4. \A c \in CallState :
          /\ c.at \in {"idle", "waiting", "ok", "failed", "late", "lost", "refused"}
          /\ c.link \in Links \cup {NoLink}
    BY DEF CallState
  <1> QED
    BY <1>1, <1>2, <1>3, <1>4

LEMMA LinkIs == Link = [machine: Machines \cup {NoMachine}, stands: BOOLEAN,
                        handler: {"none", "presenting", "serving", "ended"}, down: Down, up: Up]
  BY DEF Link, Down, Up

\* What each update makes of the record of a connection.
LEMMA Opens ==
  ASSUME NEW k \in Link, NEW m \in Machines
  PROVE  LET e == [k EXCEPT !.machine = m, !.stands = TRUE, !.handler = "presenting"] IN
         e \in Link /\ e.machine = m /\ e.stands = TRUE /\ e.handler = "presenting" /\ e.down = k.down /\ e.up = k.up
  BY LinkIs
LEMMA Lowers ==
  ASSUME NEW k \in Link, NEW d \in Down
  PROVE  LET e == [k EXCEPT !.down = d] IN
         e \in Link /\ e.machine = k.machine /\ e.stands = k.stands /\ e.handler = k.handler /\ e.down = d /\ e.up = k.up
  BY LinkIs
LEMMA Raises ==
  ASSUME NEW k \in Link, NEW u \in Up
  PROVE  LET e == [k EXCEPT !.up = u] IN
         e \in Link /\ e.machine = k.machine /\ e.stands = k.stands /\ e.handler = k.handler /\ e.down = k.down /\ e.up = u
  BY LinkIs
LEMMA Cuts ==
  ASSUME NEW k \in Link, NEW d \in Down
  PROVE  LET e == [k EXCEPT !.stands = FALSE, !.down = d] IN
         e \in Link /\ e.machine = k.machine /\ e.stands = FALSE /\ e.handler = k.handler /\ e.down = d /\ e.up = k.up
  BY LinkIs
LEMMA Greeted ==
  ASSUME NEW k \in Link, NEW d \in Down
  PROVE  LET e == [k EXCEPT !.handler = "serving", !.down = d] IN
         e \in Link /\ e.machine = k.machine /\ e.stands = k.stands /\ e.handler = "serving" /\ e.down = d /\ e.up = k.up
  BY LinkIs
LEMMA Closes ==
  ASSUME NEW k \in Link, NEW u \in Up
  PROVE  LET e == [k EXCEPT !.handler = "ended", !.stands = FALSE, !.up = u] IN
         e \in Link /\ e.machine = k.machine /\ e.stands = FALSE /\ e.handler = "ended" /\ e.down = k.down /\ e.up = u
  BY LinkIs
LEMMA Falls ==
  ASSUME NEW k \in Link, NEW u \in Up
  PROVE  LET e == [k EXCEPT !.stands = FALSE, !.handler = "ended", !.up = u] IN
         e \in Link /\ e.machine = k.machine /\ e.stands = FALSE /\ e.handler = "ended" /\ e.down = k.down /\ e.up = u
  BY LinkIs
LEMMA Breaks ==
  ASSUME NEW k \in Link
  PROVE  LET e == [k EXCEPT !.stands = FALSE] IN
         e \in Link /\ e.machine = k.machine /\ e.stands = FALSE /\ e.handler = k.handler /\ e.down = k.down /\ e.up = k.up
  BY LinkIs

LEMMA Empty == <<>> \in Down /\ <<>> \in Up /\ <<Welcome>> \in Down
  BY DEF Down, Up

LEMMA InitInv == Init => Inv
  <1> SUFFICES ASSUME Init PROVE Inv
    OBVIOUS
  <1>1. Unused \in Link /\ Away \in Agent
    BY DEF Unused, Link, Away, Agent
  <1>2. TypeOK
    <2>1. link \in [Links -> Link] /\ agent \in [Machines -> Agent]
      BY <1>1 DEF Init
    <2>2. call \in [Calls -> CallState]
      BY DEF Init, CallState
    <2>3. sockets \in [Machines -> Links \cup {NoLink}] /\ restarts \in 0..MaxRestarts
      BY RemoteAssumption DEF Init
    <2> QED
      BY <2>1, <2>2, <2>3 DEF Init, TypeOK
  <1>3. Core
    BY RemoteAssumption DEF Init, Core, SentDown, Acts, SentUp, Named, Started, OkMeansDone,
       ListedIsReachable, Unused, Away
  <1> QED
    BY <1>2, <1>3 DEF Inv

LEMMA StepInv == Inv /\ [Next]_vars => Inv'
  <1> SUFFICES ASSUME Inv, [Next]_vars PROVE Inv'
    OBVIOUS
  <1> USE RemoteAssumption DEF Inv, Core
  <1>t. /\ link \in [Links -> Link] /\ agent \in [Machines -> Agent]
        /\ sockets \in [Machines -> Links \cup {NoLink}] /\ call \in [Calls -> CallState]
        /\ listed \subseteq Machines /\ ran \subseteq Calls \X Links /\ done \subseteq Calls
    BY DEF TypeOK
  <1>1. ASSUME NEW m \in Machines, Connect(m) PROVE Inv'
    <2>1. PICK l \in Links :
            /\ link[l] = Unused
            /\ link' = [link EXCEPT ![l].machine = m, ![l].stands = TRUE, ![l].handler = "presenting"]
            /\ agent' = [agent EXCEPT ![m] = [at |-> "greeting", link |-> l, call |-> NoCall]]
      BY <1>1 DEF Connect
    <2> DEFINE new == [link[l] EXCEPT !.machine = m, !.stands = TRUE, !.handler = "presenting"]
    <2>2a. link' = [link EXCEPT ![l] = new]
      BY <2>1, <1>t
    <2>2. /\ new \in Link /\ new.machine = m /\ new.handler = "presenting" /\ new.stands = TRUE
          /\ new.down = <<>> /\ new.up = <<>>
      <3>1. link[l] \in Link /\ link[l].down = <<>> /\ link[l].up = <<>>
        BY <2>1, <1>t DEF Unused
      <3> QED
        BY <3>1, Opens
    <2> HIDE DEF new
    <2>3. /\ \A k \in Links : link'[k] = IF k = l THEN new ELSE link[k]
          /\ UNCHANGED <<sockets, listed, dispatcher, call, restarts, ran, done>>
      BY <1>1, <2>2a, <1>t DEF Connect, server
    <2>4. TypeOK'
      <3>1. link' \in [Links -> Link]
        BY <2>2, <2>2a, <1>t
      <3>2. agent' \in [Machines -> Agent]
        BY <2>1, <1>t DEF Agent
      <3> QED
        BY <3>1, <3>2, <2>3 DEF TypeOK
    <2>5. SentDown' /\ SentUp' /\ Started' /\ OkMeansDone'
      BY <2>2, <2>3 DEF SentDown, SentUp, Started, Sent, OkMeansDone
    <2>6. Acts' /\ Named'
      BY <2>1, <2>2, <2>3, <1>t DEF Acts, Named
    <2>7. ListedIsReachable'
      BY <2>1, <2>2, <2>3, <1>t DEF ListedIsReachable, Unused
    <2> QED
      BY <2>4, <2>5, <2>6, <2>7
  <1>2. ASSUME NEW m \in Machines, Takes(m) PROVE Inv'
    <2> DEFINE l == agent[m].link
               msg == Head(link[l].down)
               new == [link[l] EXCEPT !.down = Tail(@)]
    <2>1. /\ l \in Links /\ link[l].down \in Down /\ link[l].down # <<>>
      BY <1>2, Fields DEF Takes, Acts
    <2>2. /\ msg = link[l].down[1] /\ 1 \in 1..Len(link[l].down) /\ Tail(link[l].down) \in Down
          /\ msg \in {Welcome} \cup {Action(c) : c \in Calls}
          /\ Len(Tail(link[l].down)) = Len(link[l].down) - 1
          /\ \A i \in 1..Len(link[l].down) - 1 :
               Tail(link[l].down)[i] = link[l].down[i + 1] /\ i + 1 \in 1..Len(link[l].down)
      BY <2>1, Ends DEF Down
    <2>3a. link' = [link EXCEPT ![l] = new] /\ link[l] \in Link
      BY <1>2, <2>1, <1>t DEF Takes
    <2>3. /\ new \in Link /\ new.down = Tail(link[l].down) /\ new.up = link[l].up
          /\ new.machine = link[l].machine /\ new.handler = link[l].handler
          /\ new.stands = link[l].stands
      BY <2>2, <2>3a, Lowers
    <2>4. /\ agent' = [agent EXCEPT ![m] =
               [at |-> IF msg = Welcome THEN "listening" ELSE "acting", link |-> l, call |-> msg.call]]
          /\ ran' = IF msg = Welcome THEN ran ELSE ran \cup {<<msg.call, l>>}
          /\ UNCHANGED <<sockets, listed, dispatcher, call, restarts, done>>
      BY <1>2 DEF Takes, server
    <2>5. \/ msg = Welcome /\ ran' = ran
          \/ \E c \in Calls : msg = Action(c) /\ msg.call = c /\ ran' = ran \cup {<<c, l>>} /\ Sent(c, l)
      <3>1. CASE msg = Welcome
        BY <3>1, <2>4
      <3>2. CASE msg # Welcome
        <4>1. PICK c \in Calls : msg = Action(c)
          BY <3>2, <2>2
        <4>2. Sent(c, l)
          BY <4>1, <2>1, <2>2 DEF SentDown
        <4> QED
          BY <3>2, <4>1, <4>2, <2>4, Messages
      <3> QED
        BY <3>1, <3>2
    <2>5a. /\ \A k \in Links : link'[k] = IF k = l THEN new ELSE link[k]
           /\ link' \in [Links -> Link]
      BY <2>1, <2>3, <2>3a, <1>t
    <2>5b. /\ \A k \in Machines \ {m} : agent'[k] = agent[k]
           /\ agent'[m].link = l /\ (agent'[m].at = "acting" => agent'[m].call \in Calls)
      BY <2>4, <2>5, <1>t
    <2>5c. agent' \in [Machines -> Agent]
      <3>1. msg.call \in Calls \cup {NoCall}
        BY <2>5, Messages
      <3> QED
        BY <3>1, <2>1, <2>4, <1>t DEF Agent
    <2> HIDE DEF l, msg, new
    <2>6. TypeOK'
      <3>1. link' \in [Links -> Link] /\ agent' \in [Machines -> Agent]
        BY <2>5a, <2>5c
      <3>2. ran' \subseteq Calls \X Links
        BY <2>1, <2>5, <1>t
      <3> QED
        BY <3>1, <3>2, <2>4 DEF TypeOK
    <2>7. SentDown'
      <3> SUFFICES ASSUME NEW k \in Links, NEW i \in 1..Len(link'[k].down), NEW c \in Calls,
                          link'[k].down[i] = Action(c)
                   PROVE  Sent(c, k)
        BY <2>4 DEF SentDown, Sent
      <3>1. CASE k = l
        <4>1. i \in 1..Len(link[l].down) - 1 /\ link[l].down[i + 1] = Action(c)
          BY <3>1, <2>2, <2>3, <2>5a
        <4> QED
          BY <3>1, <4>1, <2>1, <2>2 DEF SentDown
      <3>2. CASE k # l
        BY <3>2, <2>5a DEF SentDown
      <3> QED
        BY <3>1, <3>2
    <2>8. SentUp' /\ Named' /\ OkMeansDone'
      BY <2>3, <2>4, <2>5a DEF SentUp, Named, OkMeansDone
    <2>9. Acts'
      BY <2>1, <2>5b DEF Acts
    <2>10. Started'
      BY <2>4, <2>5, <1>t DEF Started, Sent
    <2>11. ListedIsReachable'
      BY <2>3, <2>4, <2>5a, <1>t DEF ListedIsReachable
    <2> QED
      BY <2>6, <2>7, <2>8, <2>9, <2>10, <2>11
  <1>3. ASSUME NEW m \in Machines, Finishes(m) PROVE Inv'
    <2> DEFINE l == agent[m].link
               c == agent[m].call
    <2>1. /\ l \in Links /\ c \in Calls /\ link[l] \in Link /\ link[l].up \in Up
      BY <1>3, <1>t, Fields DEF Finishes, Acts
    <2>2. UNCHANGED <<sockets, listed, dispatcher, call, restarts, ran>>
      BY <1>3 DEF Finishes, server
    <2>3. PICK ok \in BOOLEAN :
            /\ done' = IF ok THEN done \cup {c} ELSE done
            /\ \/ /\ link' = [link EXCEPT ![l].up = Append(@, Result(c, ok))]
                  /\ agent' = [agent EXCEPT ![m] = [at |-> "listening", link |-> l, call |-> NoCall]]
               \/ agent' = [agent EXCEPT ![m] = Away] /\ link' = link
      BY <1>3 DEF Finishes
    <2> DEFINE res == Result(c, ok)
               more == Append(link[l].up, res)
               new == [link[l] EXCEPT !.up = Append(@, res)]
    <2>4. /\ more \in Up /\ Len(more) = Len(link[l].up) + 1
          /\ \A i \in 1..Len(link[l].up) + 1 :
               more[i] = IF i = Len(link[l].up) + 1 THEN res ELSE link[l].up[i]
      BY <2>1, Ends DEF Up
    <2>5. /\ new \in Link /\ new.up = more /\ new.down = link[l].down
          /\ new.machine = link[l].machine /\ new.handler = link[l].handler
      BY <2>1, <2>4, Raises
    <2>6. /\ res.call = c /\ res.ok = ok
      BY DEF Result
    <2>7. done' \subseteq Calls /\ done \subseteq done' /\ (ok => c \in done')
      BY <2>1, <2>3, <1>t
    <2>8. /\ agent' \in [Machines -> Agent]
          /\ \A k \in Machines \ {m} : agent'[k] = agent[k]
          /\ agent'[m].link \in Links \/ agent'[m].at = "away"
          /\ agent'[m].at # "acting"
      <3>1. Away \in Agent /\ [at |-> "listening", link |-> l, call |-> NoCall] \in Agent
        BY <2>1 DEF Agent, Away
      <3>2. CASE agent' = [agent EXCEPT ![m] = Away]
        BY <3>1, <3>2, <1>t DEF Away
      <3>3. CASE agent' = [agent EXCEPT ![m] = [at |-> "listening", link |-> l, call |-> NoCall]]
        BY <3>1, <3>3, <2>1, <1>t
      <3> QED
        BY <2>3, <3>2, <3>3
    <2>9. /\ link' \in [Links -> Link]
          /\ \/ \A k \in Links : link'[k] = IF k = l THEN new ELSE link[k]
             \/ link' = link
      BY <2>1, <2>3, <2>5, <1>t
    <2> HIDE DEF l, c, res, more, new
    <2>10. TypeOK'
      BY <2>2, <2>7, <2>8, <2>9 DEF TypeOK
    <2>11. SentDown' /\ Named' /\ Started' /\ OkMeansDone'
      BY <2>2, <2>5, <2>7, <2>9 DEF SentDown, Sent, Named, Started, OkMeansDone
    <2>12. Acts'
      BY <2>8 DEF Acts
    <2>13. SentUp'
      <3> SUFFICES ASSUME NEW k \in Links, NEW i \in 1..Len(link'[k].up), link'[k].up[i].ok
                   PROVE  link'[k].up[i].call \in done'
        BY DEF SentUp
      <3>1. CASE link'[k] = link[k]
        BY <3>1, <2>7 DEF SentUp
      <3>2. CASE k = l /\ link'[k] = new
        BY <3>2, <2>1, <2>4, <2>5, <2>6, <2>7 DEF SentUp
      <3> QED
        BY <3>1, <3>2, <2>9
    <2>14. ListedIsReachable'
      BY <2>2, <2>5, <2>9, <1>t DEF ListedIsReachable
    <2> QED
      BY <2>10, <2>11, <2>12, <2>13, <2>14
  <1>4. ASSUME NEW m \in Machines, Drops(m) PROVE Inv'
    <2> DEFINE l == agent[m].link
               new == [link[l] EXCEPT !.stands = FALSE, !.down = <<>>]
    <2>1. l \in Links /\ link[l] \in Link
      BY <1>4, <1>t DEF Drops, Acts
    <2>2. /\ UNCHANGED <<sockets, listed, dispatcher, call, restarts, ran, done>>
          /\ agent' = [agent EXCEPT ![m] = Away]
      BY <1>4 DEF Drops, server
    <2>3. link' = [link EXCEPT ![l] = new]
      BY <1>4, <2>1, <1>t DEF Drops
    <2>4. /\ new \in Link /\ new.up = link[l].up /\ new.down = <<>>
          /\ new.machine = link[l].machine /\ new.handler = link[l].handler
      BY <2>1, Empty, Cuts
    <2> HIDE DEF l, new
    <2>5. /\ link' \in [Links -> Link]
          /\ \A k \in Links : link'[k] = IF k = l THEN new ELSE link[k]
      BY <2>1, <2>3, <2>4, <1>t
    <2>6. TypeOK'
      <3>1. agent' \in [Machines -> Agent]
        BY <2>2, <1>t DEF Agent, Away
      <3> QED
        BY <3>1, <2>2, <2>5 DEF TypeOK
    <2>7. SentDown' /\ SentUp' /\ Named' /\ Started' /\ OkMeansDone'
      BY <2>2, <2>4, <2>5 DEF SentDown, Sent, SentUp, Named, Started, OkMeansDone
    <2>8. Acts'
      BY <2>2, <1>t DEF Acts, Away
    <2>9. ListedIsReachable'
      BY <2>2, <2>4, <2>5, <1>t DEF ListedIsReachable
    <2> QED
      BY <2>6, <2>7, <2>8, <2>9
  <1>5. ASSUME NEW l \in Links, Greets(l) PROVE Inv'
    <2> DEFINE m == link[l].machine
               new == [link[l] EXCEPT !.handler = "serving", !.down = <<Welcome>>]
    <2>1. m \in Machines /\ link[l] \in Link
      BY <1>5, <1>t DEF Greets, Named
    <2>2. /\ UNCHANGED <<agent, call, restarts, ran, done>>
          /\ sockets' = [sockets EXCEPT ![m] = l] /\ listed' = listed \cup {m} /\ dispatcher' = TRUE
      BY <1>5 DEF Greets
    <2>3. link' = [link EXCEPT ![l] = new]
      BY <1>5, <1>t DEF Greets
    <2>4. /\ new \in Link /\ new.up = link[l].up /\ new.down = <<Welcome>>
          /\ new.machine = m /\ new.handler = "serving"
      BY <2>1, Empty, Greeted
    <2> HIDE DEF m, new
    <2>5. /\ link' \in [Links -> Link]
          /\ \A k \in Links : link'[k] = IF k = l THEN new ELSE link[k]
      BY <2>3, <2>4, <1>t
    <2>6. TypeOK'
      BY <2>1, <2>2, <2>5, <1>t DEF TypeOK
    <2>7. SentDown'
      <3> SUFFICES ASSUME NEW k \in Links, NEW i \in 1..Len(link'[k].down), NEW c \in Calls,
                          link'[k].down[i] = Action(c)
                   PROVE  Sent(c, k)
        BY <2>2 DEF SentDown, Sent
      <3>1. CASE k = l
        BY <3>1, <2>4, <2>5, Messages
      <3>2. CASE k # l
        BY <3>2, <2>5 DEF SentDown
      <3> QED
        BY <3>1, <3>2
    <2>8. SentUp' /\ Started' /\ OkMeansDone' /\ Acts'
      BY <2>2, <2>4, <2>5 DEF SentUp, Started, Sent, OkMeansDone, Acts
    <2>9. Named'
      BY <2>1, <2>4, <2>5 DEF Named
    <2>10. ListedIsReachable'
      BY <2>1, <2>2, <2>4, <2>5, <1>5, <1>t DEF ListedIsReachable, Greets
    <2> QED
      BY <2>6, <2>7, <2>8, <2>9, <2>10
  <1>6. ASSUME NEW l \in Links, Receives(l) PROVE Inv'
    <2> DEFINE r == Head(link[l].up)
               new == [link[l] EXCEPT !.up = Tail(@)]
    <2>1. link[l] \in Link /\ link[l].up \in Up /\ link[l].up # <<>>
      BY <1>6, <1>t, Fields DEF Receives
    <2>2. /\ r = link[l].up[1] /\ 1 \in 1..Len(link[l].up) /\ Tail(link[l].up) \in Up
          /\ Len(Tail(link[l].up)) = Len(link[l].up) - 1
          /\ \A i \in 1..Len(link[l].up) - 1 :
               Tail(link[l].up)[i] = link[l].up[i + 1] /\ i + 1 \in 1..Len(link[l].up)
      BY <2>1, Ends DEF Up
    <2>3. /\ link' = [link EXCEPT ![l] = new]
          /\ UNCHANGED <<agent, sockets, listed, dispatcher, restarts, ran, done>>
      BY <1>6 DEF Receives, server
    <2>4. /\ new \in Link /\ new.up = Tail(link[l].up) /\ new.down = link[l].down
          /\ new.machine = link[l].machine /\ new.handler = link[l].handler
      BY <2>1, <2>2, Raises
    <2>5. \A k \in Links : link'[k] = IF k = l THEN new ELSE link[k]
      BY <2>3, <2>4, <1>t
    <2>6. /\ call' \in [Calls -> CallState]
          /\ \A c \in Calls : \/ call'[c] = call[c]
                              \/ /\ call[c].at = "waiting" /\ call'[c].link = call[c].link
                                 /\ call'[c].at \in {"ok", "failed"}
                                 /\ call'[c].at = "ok" => r.ok /\ c = r.call
      <3>1. call' = [c \in Calls |->
              IF c \in Settles(r) THEN [call[c] EXCEPT !.at = IF r.ok THEN "ok" ELSE "failed"]
              ELSE call[c]]
        BY <1>6 DEF Receives
      <3>2. \A c \in Calls, a \in {"ok", "failed"} :
              LET e == [call[c] EXCEPT !.at = a] IN
              e \in CallState /\ e.at = a /\ e.link = call[c].link
        BY <1>t DEF CallState
      <3> QED
        BY <3>1, <3>2, <1>t DEF Settles
    <2> HIDE DEF r, new
    <2>7. TypeOK'
      <3>1. link' \in [Links -> Link]
        BY <2>3, <2>4, <1>t
      <3> QED
        BY <2>3, <2>6, <3>1 DEF TypeOK
    <2>8. \A c \in Calls, k \in Links : Sent(c, k) => Sent(c, k)'
      BY <2>6 DEF Sent
    <2>9. SentDown' /\ Started'
      BY <2>3, <2>4, <2>5, <2>8, <1>t DEF SentDown, Started
    <2>10. Acts' /\ Named'
      BY <2>3, <2>4, <2>5 DEF Acts, Named
    <2>11. SentUp'
      <3> SUFFICES ASSUME NEW k \in Links, NEW i \in 1..Len(link'[k].up), link'[k].up[i].ok
                   PROVE  link'[k].up[i].call \in done
        BY <2>3 DEF SentUp
      <3>1. CASE k = l
        <4>1. /\ i \in 1..Len(link[l].up) - 1 /\ link'[k].up[i] = link[l].up[i + 1]
              /\ i + 1 \in 1..Len(link[l].up)
          BY <3>1, <2>2, <2>4, <2>5
        <4> QED
          BY <4>1 DEF SentUp
      <3>2. CASE k # l
        BY <3>2, <2>5 DEF SentUp
      <3> QED
        BY <3>1, <3>2
    <2>12. OkMeansDone'
      BY <2>2, <2>3, <2>6 DEF OkMeansDone, SentUp
    <2>13. ListedIsReachable'
      BY <2>3, <2>4, <2>5, <1>t DEF ListedIsReachable
    <2> QED
      BY <2>7, <2>9, <2>10, <2>11, <2>12, <2>13
  <1>7. ASSUME NEW l \in Links, HandlerEnds(l) PROVE Inv'
    <2> DEFINE new == [link[l] EXCEPT !.handler = "ended", !.stands = FALSE, !.up = <<>>]
    <2>1. /\ UNCHANGED <<agent, call, restarts, ran, done>> /\ link' = [link EXCEPT ![l] = new]
          /\ link[l] \in Link
      BY <1>7, <1>t DEF HandlerEnds
    <2>2. /\ new \in Link /\ new.up = <<>> /\ new.down = link[l].down
          /\ new.machine = link[l].machine /\ new.handler = "ended"
      BY <2>1, Empty, Closes
    <2> HIDE DEF new
    <2>3. /\ link' \in [Links -> Link]
          /\ \A k \in Links : link'[k] = IF k = l THEN new ELSE link[k]
      BY <2>1, <2>2, <1>t
    <2>4. \/ /\ link[l].handler = "serving" /\ link[l].machine \in Machines
             /\ sockets' = [sockets EXCEPT ![link[l].machine] = NoLink]
             /\ listed' = listed \ {link[l].machine}
             /\ dispatcher' = (dispatcher /\ \E k \in Machines : sockets'[k] # NoLink)
          \/ /\ link[l].handler = "presenting"
             /\ dispatcher' = (dispatcher /\ \E k \in Machines : sockets[k] # NoLink)
             /\ UNCHANGED <<sockets, listed>>
      BY <1>7 DEF HandlerEnds, Forgets, Named
    <2>5. TypeOK'
      <3>1. /\ sockets' \in [Machines -> Links \cup {NoLink}] /\ listed' \subseteq Machines
            /\ dispatcher' \in BOOLEAN
        BY <2>4, <1>t
      <3> QED
        BY <3>1, <2>1, <2>3 DEF TypeOK
    <2>6. SentDown' /\ SentUp' /\ Acts' /\ Started' /\ OkMeansDone'
      BY <2>1, <2>2, <2>3 DEF SentDown, Sent, SentUp, Acts, Started, OkMeansDone
    <2>7. Named'
      BY <2>2, <2>3, <2>4 DEF Named
    <2>8. ListedIsReachable'
      <3> SUFFICES ASSUME NEW m \in Machines
                   PROVE  /\ m \in listed' <=> sockets'[m] # NoLink
                          /\ m \in listed' => /\ dispatcher'
                                              /\ link'[sockets'[m]].handler = "serving"
                                              /\ link'[sockets'[m]].machine = m
        BY DEF ListedIsReachable
      <3>1. CASE link[l].handler = "serving" /\ m = link[l].machine
        BY <3>1, <2>4, <1>t
      <3>2. CASE ~(link[l].handler = "serving" /\ m = link[l].machine)
        <4>1. sockets'[m] = sockets[m] /\ (m \in listed' <=> m \in listed)
          BY <3>2, <2>4, <1>t
        <4>2. m \in listed => sockets[m] \in Links \ {l}
          BY <3>2, <2>4, <1>t DEF ListedIsReachable
        <4>3. m \in listed => dispatcher'
          BY <4>1, <4>2, <2>4 DEF ListedIsReachable
        <4> QED
          BY <4>1, <4>2, <4>3, <2>3 DEF ListedIsReachable
      <3> QED
        BY <3>1, <3>2
    <2> QED
      BY <2>5, <2>6, <2>7, <2>8
  <1>8. ASSUME NEW l \in Links, Break(l) PROVE Inv'
    <2> DEFINE new == [link[l] EXCEPT !.stands = FALSE]
    <2>1. /\ UNCHANGED <<agent, sockets, listed, dispatcher, call, restarts, ran, done>>
          /\ link' = [link EXCEPT ![l] = new] /\ link[l] \in Link
      BY <1>8, <1>t DEF Break, server
    <2>2. /\ new \in Link /\ new.up = link[l].up /\ new.down = link[l].down
          /\ new.machine = link[l].machine /\ new.handler = link[l].handler
      BY <2>1, Breaks
    <2> HIDE DEF new
    <2>3. /\ link' \in [Links -> Link]
          /\ \A k \in Links : link'[k] = IF k = l THEN new ELSE link[k]
      BY <2>1, <2>2, <1>t
    <2>4. TypeOK'
      BY <2>1, <2>3 DEF TypeOK
    <2>5. SentDown' /\ SentUp' /\ Acts' /\ Named' /\ Started' /\ OkMeansDone'
      BY <2>1, <2>2, <2>3 DEF SentDown, Sent, SentUp, Acts, Named, Started, OkMeansDone
    <2>6. ListedIsReachable'
      BY <2>1, <2>2, <2>3, <1>t DEF ListedIsReachable
    <2> QED
      BY <2>4, <2>5, <2>6
  <1>9. ASSUME NEW c \in Calls, Dispatch(c) PROVE Inv'
    <2>1. UNCHANGED <<agent, sockets, listed, dispatcher, restarts, ran, done>> /\ call[c].at = "idle"
      BY <1>9 DEF Dispatch, server
    <2>2. \/ \E m \in Machines : \E a \in {"waiting", "lost"} :
               /\ sockets[m] \in Links
               /\ call' = [call EXCEPT ![c] = [at |-> a, link |-> sockets[m]]]
               /\ \/ link' = link
                  \/ a = "waiting" /\ link' = [link EXCEPT ![sockets[m]].down = Append(@, Action(c))]
          \/ call' = [call EXCEPT ![c].at = "refused"] /\ link' = link
      <3>1. Resolved(c) \subseteq Machines
        BY <1>t DEF Resolved
      <3>2. CASE \E m \in Resolved(c) : Able(c, m)
        <4>1. PICK m \in Resolved(c) :
                LET l == sockets[m] IN
                \/ /\ call' = [call EXCEPT ![c] = [at |-> "waiting", link |-> l]]
                   /\ link' = IF link[l].stands THEN [link EXCEPT ![l].down = Append(@, Action(c))]
                              ELSE link
                \/ /\ ~link[l].stands
                   /\ call' = [call EXCEPT ![c] = [at |-> "lost", link |-> l]] /\ UNCHANGED link
          BY <1>9, <3>2 DEF Dispatch
        <4>2. m \in listed
          BY DEF Resolved
        <4>3. m \in Machines /\ sockets[m] \in Links
          BY <4>2, <3>1, <1>t DEF ListedIsReachable
        <4> QED
          BY <4>1, <4>3
      <3>3. CASE ~\E m \in Resolved(c) : Able(c, m)
        BY <1>9, <3>3 DEF Dispatch
      <3> QED
        BY <3>2, <3>3
    <2>3. CASE call' = [call EXCEPT ![c].at = "refused"] /\ link' = link
      <3>1. call' \in [Calls -> CallState] /\ \A k \in Calls \ {c} : call'[k] = call[k]
        BY <2>3, <1>t DEF CallState
      <3>2. call'[c].at = "refused"
        BY <2>3, <1>t DEF CallState
      <3>3. \A k \in Calls, l \in Links : Sent(k, l) => Sent(k, l)'
        BY <2>1, <3>1 DEF Sent
      <3>4. TypeOK'
        BY <2>1, <2>3, <3>1 DEF TypeOK
      <3>5. SentDown' /\ SentUp' /\ Acts' /\ Named' /\ Started' /\ OkMeansDone' /\ ListedIsReachable'
        BY <2>1, <2>3, <3>1, <3>2, <3>3, <1>t
           DEF SentDown, SentUp, Acts, Named, Started, OkMeansDone, ListedIsReachable
      <3> QED
        BY <3>4, <3>5
    <2>4. ASSUME NEW m \in Machines, NEW a \in {"waiting", "lost"}, sockets[m] \in Links,
                 call' = [call EXCEPT ![c] = [at |-> a, link |-> sockets[m]]],
                 \/ link' = link
                 \/ a = "waiting" /\ link' = [link EXCEPT ![sockets[m]].down = Append(@, Action(c))]
          PROVE  Inv'
      <3>0. PICK l \in Links : l = sockets[m]
        BY <2>4
      <3> DEFINE more == Append(link[l].down, Action(c))
                 new == [link[l] EXCEPT !.down = Append(@, Action(c))]
      <3>1. link[l] \in Link /\ link[l].down \in Down
        BY <1>t, Fields
      <3>2. /\ more \in Down /\ Len(more) = Len(link[l].down) + 1
            /\ \A i \in 1..Len(link[l].down) + 1 :
                 more[i] = IF i = Len(link[l].down) + 1 THEN Action(c) ELSE link[l].down[i]
        BY <3>1, Ends DEF Down
      <3>3. /\ new \in Link /\ new.down = more /\ new.up = link[l].up
            /\ new.machine = link[l].machine /\ new.handler = link[l].handler
        BY <3>1, <3>2, Lowers
      <3>4. /\ link' \in [Links -> Link]
            /\ \/ link' = link
               \/ \A k \in Links : link'[k] = IF k = l THEN new ELSE link[k]
        BY <2>4, <3>0, <3>3, <1>t
      <3>5. /\ call' \in [Calls -> CallState] /\ \A k \in Calls \ {c} : call'[k] = call[k]
            /\ call'[c].at = a /\ call'[c].link = l
        BY <2>4, <3>0, <1>t DEF CallState
      <3> HIDE DEF more, new
      <3>6. /\ \A k \in Calls, n \in Links : Sent(k, n) => Sent(k, n)'
            /\ Sent(c, l)'
        BY <2>1, <3>5 DEF Sent
      <3>7. TypeOK'
        BY <2>1, <3>4, <3>5 DEF TypeOK
      <3>8. SentDown'
        <4> SUFFICES ASSUME NEW n \in Links, NEW i \in 1..Len(link'[n].down), NEW k \in Calls,
                            link'[n].down[i] = Action(k)
                     PROVE  Sent(k, n)'
          BY DEF SentDown
        <4>1. CASE link'[n] = link[n]
          BY <4>1, <3>6 DEF SentDown
        <4>2. CASE n = l /\ link'[n] = new
          <5>1. CASE i = Len(link[l].down) + 1
            BY <5>1, <4>2, <3>2, <3>3, <3>6, Messages
          <5>2. CASE i # Len(link[l].down) + 1
            <6>1. i \in 1..Len(link[l].down) /\ link[l].down[i] = Action(k)
              BY <5>2, <4>2, <3>1, <3>2, <3>3 DEF Down
            <6> QED
              BY <6>1, <4>2, <3>6 DEF SentDown
          <5> QED
            BY <5>1, <5>2
        <4> QED
          BY <4>1, <4>2, <3>4
      <3>9. SentUp' /\ Acts' /\ Named'
        BY <2>1, <3>3, <3>4 DEF SentUp, Acts, Named
      <3>10. Started' /\ OkMeansDone'
        BY <2>1, <3>5, <3>6, <1>t DEF Started, OkMeansDone
      <3>11. ListedIsReachable'
        BY <2>1, <3>3, <3>4, <1>t DEF ListedIsReachable
      <3> QED
        BY <3>7, <3>8, <3>9, <3>10, <3>11
    <2> QED
      BY <2>2, <2>3, <2>4
  <1>10. ASSUME NEW c \in Calls, GivesUp(c) PROVE Inv'
    <2>1. /\ UNCHANGED <<link, agent, sockets, listed, dispatcher, restarts, ran, done>>
          /\ call[c].at = "waiting" /\ call' = [call EXCEPT ![c].at = "late"]
      BY <1>10 DEF GivesUp, server
    <2>2. /\ call' \in [Calls -> CallState] /\ \A k \in Calls \ {c} : call'[k] = call[k]
          /\ call'[c].at = "late" /\ call'[c].link = call[c].link
      BY <2>1, <1>t DEF CallState
    <2>3. \A k \in Calls, n \in Links : Sent(k, n) => Sent(k, n)'
      BY <2>2 DEF Sent
    <2>4. TypeOK'
      BY <2>1, <2>2 DEF TypeOK
    <2>5. SentDown' /\ SentUp' /\ Acts' /\ Named' /\ Started' /\ OkMeansDone' /\ ListedIsReachable'
      BY <2>1, <2>2, <2>3, <1>t
         DEF SentDown, SentUp, Acts, Named, Started, OkMeansDone, ListedIsReachable
    <2> QED
      BY <2>4, <2>5
  <1>11. CASE Restart
    <2>1. /\ UNCHANGED <<agent, ran, done>>
          /\ sockets' = [m \in Machines |-> NoLink] /\ listed' = {} /\ dispatcher' = FALSE
      BY <1>11 DEF Restart
    <2>1a. restarts' \in 0..MaxRestarts
      <3>1. restarts \in 0..MaxRestarts /\ restarts < MaxRestarts /\ restarts' = restarts + 1
        BY <1>11 DEF Restart, TypeOK
      <3>2. MaxRestarts \in Nat
        BY RemoteAssumption
      <3> QED
        BY <3>1, <3>2
    <2>2. \A l \in Links :
            /\ link'[l] \in Link
            /\ link'[l] = link[l] \/ (link'[l].down = link[l].down /\ link'[l].up = <<>>
                                      /\ link'[l].machine = link[l].machine)
            /\ link'[l].handler # "none" => link[l].handler # "none" \/ link'[l].machine \in Machines
      <3>1. \A l \in Links : link'[l] = IF link[l].handler = "none" THEN link[l]
                ELSE [link[l] EXCEPT !.stands = FALSE, !.handler = "ended", !.up = <<>>]
        BY <1>11 DEF Restart
      <3> TAKE l \in Links
      <3>2. link[l] \in Link
        BY <1>t
      <3>3. CASE link[l].handler = "none"
        BY <3>1, <3>2, <3>3
      <3>4. CASE link[l].handler # "none"
        <4> DEFINE new == [link[l] EXCEPT !.stands = FALSE, !.handler = "ended", !.up = <<>>]
        <4>1. /\ new \in Link /\ new.up = <<>> /\ new.down = link[l].down
              /\ new.machine = link[l].machine
          BY <3>2, Empty, Falls
        <4> QED
          BY <3>1, <3>4, <4>1
      <3> QED
        BY <3>3, <3>4
    <2>3. link' \in [Links -> Link]
      BY <1>11, <2>2 DEF Restart
    <2>4. /\ call' \in [Calls -> CallState]
          /\ \A c \in Calls : \/ call'[c] = call[c]
                              \/ /\ call[c].at = "waiting" /\ call'[c].at = "lost"
                                 /\ call'[c].link = call[c].link
      <3>1. call' = [c \in Calls |-> IF call[c].at = "waiting" THEN [call[c] EXCEPT !.at = "lost"]
                                     ELSE call[c]]
        BY <1>11 DEF Restart
      <3> QED
        BY <3>1, <1>t DEF CallState
    <2>5. \A c \in Calls, l \in Links : Sent(c, l) => Sent(c, l)'
      BY <2>4 DEF Sent
    <2>6. TypeOK'
      BY <2>1, <2>1a, <2>3, <2>4 DEF TypeOK
    <2>7. SentDown' /\ SentUp' /\ Acts' /\ Started' /\ OkMeansDone'
      BY <2>1, <2>2, <2>4, <2>5, <1>t DEF SentDown, SentUp, Acts, Started, OkMeansDone
    <2>8. Named'
      BY <2>2 DEF Named
    <2>9. ListedIsReachable'
      BY <2>1 DEF ListedIsReachable
    <2> QED
      BY <2>6, <2>7, <2>8, <2>9
  <1>12. CASE UNCHANGED vars
    BY <1>12 DEF vars, server, TypeOK, SentDown, Sent, Acts, SentUp, Named, Started, OkMeansDone,
       ListedIsReachable
  <1> QED
    BY <1>1, <1>2, <1>3, <1>4, <1>5, <1>6, <1>7, <1>8, <1>9, <1>10, <1>11, <1>12 DEF Next

-----------------------------------------------------------------------------
LEMMA AlwaysInv == Spec => []Inv
  BY InitInv, StepInv, PTL DEF Spec

\* Every variable keeps its type, whatever breaks.
THEOREM TypeCorrect == Spec => []TypeOK
  <1>1. Inv => TypeOK
    BY DEF Inv
  <1> QED
    BY <1>1, AlwaysInv, PTL

\* An action reported as done was done, by the machine, for that very call.
THEOREM DoneIsTrue == Spec => []OkMeansDone
  <1>1. Inv => OkMeansDone
    BY DEF Inv, Core
  <1> QED
    BY <1>1, AlwaysInv, PTL

\* Machines may come back before their loss is noticed: what the inventory shows can be
\* reached.
THEOREM InventoryIsReachable == Spec => []ListedIsReachable
  <1>1. Inv => ListedIsReachable
    BY DEF Inv, Core
  <1> QED
    BY <1>1, AlwaysInv, PTL

\* An action runs over the connection it was sent on, and a refused one never does.
THEOREM NothingWaitsForAMachine == Spec => []NothingIsKeptForLater
  <1>1. Inv => NothingIsKeptForLater
    BY DEF Inv, Core, Started, Sent, NothingIsKeptForLater
  <1> QED
    BY <1>1, AlwaysInv, PTL
==============================================================================
