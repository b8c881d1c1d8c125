-------------------------------- MODULE Inbox --------------------------------
(***************************************************************************)
(* The inbox: a file of the Obsidian vault where the user types one order  *)
(* per line, from any device, at any time.  A pass reads it, executes its  *)
(* lines on the facts of module Facts and writes the file anew.  The       *)
(* scheduler starts a pass every ten minutes and a route of the interface  *)
(* at once; a pass awaits the ingest of a line "retiens", and there the    *)
(* user, another pass and every other task go on.                          *)
(*   - providers/memory/boite_reception.py   traiter, _executer, _lire     *)
(*   - engine/background/scheduler.py        _boite_loop                   *)
(*   - interfaces/api/memory.py              coffre/traiter, correct       *)
(***************************************************************************)
EXTENDS Facts, SequencesExt

CONSTANTS
  Loop,           \* among the tasks, the one of the scheduler; the others are
                  \* requests, that run a pass or ingest something else
  Lines,          \* lines the user may type
  LineOf,         \* what _lire and _analyser make of each line
  MaxTyped,       \* bound: lines the user types
  MaxMishaps      \* bound: restarts, and passes that do not write the file, or not all of it

\* "faux" gives a new value and "oublie" the status archived, by the same call.  Four kinds
\* of lines are no consigne: one that is not understood; one that _lire does not look at
\* among the consignes, such as a quotation, a row of a table or a bare bullet; one that it
\* does not look at under "Pas comprises" either: a title, an emphasis, a comment, a block of
\* code with its two fences; and the fence of a block that nothing closes.
Verbs == {"corrige", "retiens", "incomprise", "citation", "titre", "cloture"}

ASSUME InboxAssumption ==
  /\ Loop \in Tasks
  /\ LineOf \in [Lines -> [verb: Verbs, id: Ids, value: Values \cup {NoValue},
                         status: {"archived", NoStatus}]]
  /\ {MaxTyped, MaxMishaps} \subseteq Nat

VARIABLES
  box,        \* the file: lines at the top, under "Traité", under "Pas comprises"
  pass,       \* each pass: where it is and what it read
  mishaps,
  typed,      \* history: lines the user typed
  exposed,    \* history: those typed while a pass was out, those a pass went over
              \* without looking, those cut off a file that was not written to its end
  executed,   \* history: lines that were executed
  settled     \* history: lines executed by a pass that then wrote the file

history == <<typed, exposed, executed, settled>>
inboxVars == <<box, pass, mishaps, history>>
vars == <<factsVars, inboxVars>>

Pass == [pc: {"idle", "running", "waiting"},
         todo: Seq(Lines), unclear: Seq(Lines), kept: Seq(Lines), reports: Seq(Lines)]
Out(p) == pass[p].pc # "idle"
NoPass == [pc |-> "idle", todo |-> <<>>, unclear |-> <<>>, kept |-> <<>>, reports |-> <<>>]

TypeOK ==
  /\ FactsTypeOK
  /\ box \in [orders: Seq(Lines), reported: BOOLEAN, stray: SUBSET Lines, refused: Seq(Lines)]
  /\ pass \in [Tasks -> Pass]
  /\ mishaps \in 0..MaxMishaps
  /\ typed \subseteq Lines /\ exposed \subseteq typed
  /\ executed \subseteq typed /\ settled \subseteq executed

Init ==
  /\ FactsInit
  /\ box = [orders |-> <<>>, reported |-> FALSE, stray |-> {}, refused |-> <<>>]
  /\ pass = [p \in Tasks |-> NoPass]
  /\ mishaps = 0
  /\ typed = {} /\ exposed = {} /\ executed = {} /\ settled = {}

\* The event loop is at rest: no pass and no ingest is between two awaits.
Turn == LoopIsFree /\ \A p \in Tasks : pass[p].pc # "running"

-----------------------------------------------------------------------------
(* The user, in his editor *)

Fences == {l \in Lines : LineOf[l].verb = "cloture"}
InFile(l) == l \in ToSet(box.orders) \cup ToSet(box.refused) \cup box.stray

\* A line at the top of the file, or among the reports of the last pass, where it
\* will not be read, or under "Pas comprises", where it is kept and never executed.
\* A second fence would close the block of the first: that is a block, a "titre".
Type(l) ==
  /\ l \notin typed /\ Cardinality(typed) < MaxTyped
  /\ l \in Fences => \A k \in Fences : ~InFile(k)
  /\ typed' = typed \cup {l}
  /\ \/ box' = [box EXCEPT !.orders = Append(@, l)]
     \/ box.refused # <<>> /\ box' = [box EXCEPT !.refused = Append(@, l)]
     \/ box.reported /\ box' = [box EXCEPT !.stray = @ \cup {l}]
  /\ exposed' = IF \E p \in Tasks : Out(p) THEN exposed \cup {l} ELSE exposed
  /\ UNCHANGED <<factsVars, pass, mishaps, executed, settled>>

-----------------------------------------------------------------------------
(* A pass *)

Clear == {l \in Lines : LineOf[l].verb \in {"corrige", "retiens"}}
Unclear == {l \in Lines : LineOf[l].verb = "incomprise"}
Titles == {l \in Lines : LineOf[l].verb = "titre"}

\* No fence opens a block at the line or before it.
Shows(lines, n) == \A k \in 1..n : lines[k] \notin Fences
Shown(lines) == {lines[n] : n \in {k \in 1..Len(lines) : Shows(lines, k)}}

\* Those of the set, in order, until a fence.
Only(lines, set) ==
  LET upTo[n \in 0..Len(lines)] ==
        IF n = 0 THEN <<>>
        ELSE IF lines[n] \in set /\ Shows(lines, n) THEN Append(upTo[n - 1], lines[n])
        ELSE upTo[n - 1]
  IN upTo[Len(lines)]

\* Slip: only the first order is taken.
FirstOrder(lines) == IF lines = <<>> THEN <<>> ELSE <<Head(lines)>>

Understood(lines) == Only(lines, Clear)

\* A block that is open where "Pas comprises" begins hides it.
Hidden == (ToSet(box.orders) \cup box.stray) \cap Fences # {}
Kept == IF Hidden THEN <<>> ELSE Only(box.refused, Lines \ Titles)

\* The lines that no part of _lire looks at.
Overlooked ==
  {l \in Lines :
     /\ InFile(l)
     /\ ~(l \in Shown(box.orders) /\ l \in Clear \cup Unclear)
     /\ ~(l \in Shown(box.refused) /\ l \notin Titles /\ ~Hidden)}

\* _lire found neither an order nor a line that is not understood: the pass ends
\* without writing.
NothingToDo == Shown(box.orders) \cap (Clear \cup Unclear) = {}

\* traiter: the file is read.
Begin(p) ==
  /\ Turn /\ ~Out(p) /\ task[p].pc = "idle" /\ ~NothingToDo
  /\ pass' = [pass EXCEPT ![p] = [pc |-> "running",
                                  todo |-> Understood(box.orders),
                                  unclear |-> Only(box.orders, Unclear),
                                  kept |-> Kept,
                                  reports |-> <<>>]]
  /\ exposed' = exposed \cup Overlooked
  /\ UNCHANGED <<factsVars, box, mishaps, typed, executed, settled>>

Report(p, pc) ==
  pass' = [pass EXCEPT ![p].pc = pc, ![p].todo = Tail(@),
                       ![p].reports = Append(@, Head(pass[p].todo))]

\* _executer: the next line.  "retiens" starts an ingest and waits for it.
Execute(p) ==
  /\ pass[p].pc = "running" /\ pass[p].todo # <<>>
  /\ \E l \in Lines :
       /\ l = Head(pass[p].todo)
       /\ executed' = executed \cup {l}
       /\ \/ /\ LineOf[l].verb = "corrige"
             /\ Correct(LineOf[l].id, LineOf[l].value, LineOf[l].status)
             /\ Report(p, "running") /\ UNCHANGED task
          \/ /\ LineOf[l].verb = "retiens"
             /\ StartIngest(p) /\ Report(p, "waiting")
  /\ UNCHANGED <<box, mishaps, typed, exposed, settled>>

\* The ingest is over, however it ended.
Resume(p) ==
  /\ Turn
  /\ pass[p].pc = "waiting" /\ task[p].pc = "idle"
  /\ pass' = [pass EXCEPT ![p].pc = "running"]
  /\ UNCHANGED <<factsVars, box, mishaps, history>>

\* Slip: the file is written only if some line was not understood.
OnlyRefusals(p) ==
  IF pass[p].unclear = <<>> THEN box
  ELSE [orders |-> <<>>, reported |-> pass[p].reports # <<>>, stray |-> {},
        refused |-> pass[p].kept \o pass[p].unclear]

\* _gabarit: the whole file, made of what this pass read and did.
Gabarit(p) ==
  [orders |-> <<>>, reported |-> pass[p].reports # <<>>, stray |-> {},
   refused |-> pass[p].kept \o pass[p].unclear]

Rewrite(p) ==
  /\ pass[p].pc = "running" /\ pass[p].todo = <<>>
  /\ box' = Gabarit(p)
  /\ settled' = settled \cup ToSet(pass[p].reports)
  /\ pass' = [pass EXCEPT ![p] = NoPass]
  /\ UNCHANGED <<factsVars, mishaps, typed, exposed, executed>>

\* The base is locked in the middle, or the file cannot be opened at the end:
\* what was executed is done and the file still has the lines.
Abandon(p) ==
  /\ pass[p].pc = "running" /\ mishaps < MaxMishaps
  /\ mishaps' = mishaps + 1
  /\ pass' = [pass EXCEPT ![p] = NoPass]
  /\ UNCHANGED <<factsVars, box, history>>

\* What is left of the file when its writing stops: some of its head, or nothing.
Beginnings(file) ==
  {[file EXCEPT !.reported = FALSE, !.refused = <<>>]}
    \cup {[file EXCEPT !.refused = SubSeq(@, 1, n)] : n \in 0..Len(file.refused)}

\* write_text empties the file, then writes it: a full disk, or a stop, leaves a part.
Tears(p) ==
  /\ pass[p].pc = "running" /\ pass[p].todo = <<>> /\ mishaps < MaxMishaps
  /\ box' \in Beginnings(Gabarit(p))
  /\ exposed' = exposed \cup (ToSet(Gabarit(p).refused) \ ToSet(box'.refused))
  /\ mishaps' = mishaps + 1
  /\ pass' = [pass EXCEPT ![p] = NoPass]
  /\ UNCHANGED <<factsVars, typed, executed, settled>>

Restart ==
  /\ mishaps < MaxMishaps
  /\ mishaps' = mishaps + 1
  /\ pass' = [p \in Tasks |-> NoPass]
  /\ ForgetTasks
  /\ UNCHANGED <<facts, word, box, history>>

-----------------------------------------------------------------------------
\* An ingest that no line of the box asked for: a conversation, /retenir, the night.
OtherIngest(t) == Turn /\ t # Loop /\ ~Out(t) /\ StartIngest(t)

Ingest(t) ==
  /\ \/ OtherIngest(t)
     \/ Turn /\ Extracted(t)
     \/ Turn /\ (Verdict(t) \/ HalfSupersedes(t))
     \/ Reconcile(t)
     \/ (Turn \/ task[t].pc = "reconciling") /\ Raises(t)
  /\ UNCHANGED inboxVars

Others ==
  /\ Turn /\ (CorrectByHand \/ Merge)
  /\ UNCHANGED inboxVars

Next ==
  \/ \E l \in Lines : Type(l)
  \/ \E p \in Tasks : Begin(p) \/ Execute(p) \/ Resume(p) \/ Rewrite(p) \/ Abandon(p)
                        \/ Tears(p)
  \/ \E t \in Tasks : Ingest(t)
  \/ Others
  \/ Restart

Spec == Init /\ [][Next]_vars

-----------------------------------------------------------------------------
(* What the box owes the user *)

\* "Aucune ligne n'est perdue" (boite_reception.py:21): a line that was typed is
\* in the file, or it was executed.
NoLineLost == \A l \in typed : InFile(l) \/ l \in executed

\* What the code does keep of that promise: a line can only vanish if it was typed while a
\* pass was between its reading and its writing, if a pass went over it without looking (under
\* the reports, in a block, or no consigne at all), or if the file was cut before it,
\* whatever passes overlap, fail or are cut by a restart.
LostOnlyIfExposed == \A l \in typed \ exposed : InFile(l) \/ l \in executed

\* What was executed and reported is not executed again (test_boite_reception.py:222):
\* no pass that begins later reads it as an order, however the passes overlapped.
ReportedIsNotReread ==
  [][\A p \in Tasks :
       ~Out(p) /\ Out(p)' => ToSet(pass'[p].todo) \cap settled = {}]_vars
==============================================================================
