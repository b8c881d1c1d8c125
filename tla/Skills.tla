------------------------------- MODULE Skills -------------------------------
(***************************************************************************)
(* Skills: how they are proposed, tried, accepted, fetched, improved and    *)
(* removed.  The laboratory writes a candidate beside the installed skills, *)
(* tries it in a sandbox and waits for a human; the store downloads         *)
(* straight into the installed ones; the assistant rewrites an installed    *)
(* skill.  The three share the two directories, one table of records and    *)
(* one registry of loaded skills, and nothing locks them against each       *)
(* other.                                                                   *)
(*   - capabilities/skills/lab.py          SkillLab                         *)
(*   - capabilities/skills/lifecycle.py    SkillLifecycle                   *)
(*   - capabilities/skills/synthesizer.py  SkillSynthesizer                 *)
(*   - capabilities/skills/installer.py    SkillInstaller                   *)
(*   - capabilities/skills/registry.py     SkillRegistry                    *)
(*   - capabilities/tools/skills.py, registry.py, interfaces/api/skills.py  *)
(*                                                                          *)
(* A skill's code is a number: each writing of a directory makes a new one. *)
(***************************************************************************)
EXTENDS Naturals, FiniteSets

CONSTANTS
  Names,         \* what the model may call a skill
  Events,        \* events skill_candidate_proposal of the memory
  Scans,         \* scans that may run at once: the night's, the one asked for
  Uses,          \* uses of skill_create, and gaps that CapabilityEngine finds
  Orders,        \* installations from the store
  Rewrites,      \* uses of skill_improve
  Cap,           \* _MAX_CANDIDATES_PER_SCAN
  MaxCode,       \* bound: writings of code
  MaxRestarts,   \* bound: restarts
  NoEvent, NoName

ASSUME SkillsAssumption ==
  /\ Cap \in Nat \ {0} /\ MaxCode \in Nat /\ MaxRestarts \in Nat
  /\ NoEvent \notin Events /\ NoName \notin Names /\ Scans \cap Uses = {}

Code == 0..MaxCode         \* 0: none
Proposers == Scans \cup Uses

VARIABLES
  rec,        \* table skills: status and event of each name
  candidate,  \* candidates/{name}
  installed,  \* installed/{name}: the directory, the code in it
  loaded,     \* SkillRegistry._skills
  offered,    \* skills whose tools are in ToolRegistry
  job,        \* the proposals under way
  order,      \* the installations under way
  rewrite,    \* the rewritings under way
  next,       \* writings so far
  noted,      \* code with a SKILL.md beside it
  restarts,
  green,      \* history: <<name, code>> whose test was green
  promoted,   \* history: <<name, code>> that a human accepted
  cut,        \* history: names with a trial that was cut before its verdict was written
  removed,    \* history: names that the user removed and did not order or accept since
  undone,     \* history: of those, the names that an earlier order made again
  gone        \* history: code that the user removed

disk == <<candidate, installed>>
live == <<loaded, offered>>
removals == <<removed, undone, gone>>
history == <<green, promoted, cut, removals>>
vars == <<rec, disk, live, job, order, rewrite, next, noted, restarts, history>>

Status == {"none", "candidate", "sandboxed_pass", "sandboxed_fail", "active", "rejected"}
Dir == [dir: BOOLEAN, code: Code]
NoDir == [dir |-> FALSE, code |-> 0]
Job == [at: {"idle", "scanning", "asking", "testing", "running"},
        source: Events \cup {NoEvent}, name: Names \cup {NoName}, code: Code,
        todo: SUBSET Events, made: 0..Cap]
NoJob == [at |-> "idle", source |-> NoEvent, name |-> NoName, code |-> 0, todo |-> {}, made |-> 0]
Order == [at: {"idle", "catalogue", "downloading", "written"}, name: Names \cup {NoName}]
NoOrder == [at |-> "idle", name |-> NoName]

TypeOK ==
  /\ rec \in [Names -> [status: Status, source: Events \cup {NoEvent}]]
  /\ candidate \in [Names -> Code] /\ installed \in [Names -> Dir]
  /\ loaded \in [Names -> Code] /\ offered \in [Names -> Code]
  /\ job \in [Proposers -> Job] /\ order \in [Orders -> Order]
  /\ rewrite \in [Rewrites -> Names \cup {NoName}]
  /\ next \in Code /\ noted \subseteq Code /\ restarts \in 0..MaxRestarts
  /\ green \subseteq Names \X Code /\ promoted \subseteq Names \X Code
  /\ cut \subseteq Names /\ removed \subseteq Names /\ undone \subseteq Names
  /\ gone \subseteq Code

Init ==
  /\ rec = [n \in Names |-> [status |-> "none", source |-> NoEvent]]
  /\ candidate = [n \in Names |-> 0] /\ installed = [n \in Names |-> NoDir]
  /\ loaded = [n \in Names |-> 0] /\ offered = [n \in Names |-> 0]
  /\ job = [p \in Proposers |-> NoJob] /\ order = [o \in Orders |-> NoOrder]
  /\ rewrite = [r \in Rewrites |-> NoName]
  /\ next = 0 /\ noted = {} /\ restarts = 0
  /\ green = {} /\ promoted = {}
  /\ cut = {} /\ removed = {} /\ undone = {} /\ gone = {}

\* A new writing, within the bound.
Writes(v) == next < MaxCode /\ v = next + 1 /\ next' = v

\* What the registry may hold once it has read the directory of installed skills: each
\* skill under the name that its skill.yaml gives, but those that cannot be imported, and
\* those that come after a skill.yaml that cannot be read.
Reads(d) == {l \in [Names -> Code] :
               \A m \in Names : l[m] = 0 \/ \E n \in Names : l[m] = d[n].code}

-----------------------------------------------------------------------------
(* Proposals *)

Handled(e) == \E n \in Names : rec[n].source = e

\* The ceiling of the candidates that a scan may ask the model for.
Full(s) == job[s].made >= Cap

\* A scan begins, or goes on to its next event; those already handled are passed over.
Scan(s) ==
  /\ \/ /\ job[s].at = "idle"
        /\ job' = [job EXCEPT ![s] = [NoJob EXCEPT !.at = "scanning", !.todo = Events]]
     \/ /\ job[s].at = "scanning" /\ (job[s].todo = {} \/ Full(s))
        /\ job' = [job EXCEPT ![s] = NoJob]
     \/ /\ job[s].at = "scanning" /\ ~Full(s)
        /\ \E e \in job[s].todo :
             job' = [job EXCEPT ![s].todo = @ \ {e},
                                ![s].at = IF Handled(e) THEN @ ELSE "asking",
                                ![s].source = IF Handled(e) THEN NoEvent ELSE e]
  /\ UNCHANGED <<rec, disk, live, order, rewrite, next, noted, restarts, history>>

\* The tool, or the capability engine, hands a trajectory to the laboratory.
Propose(u) ==
  /\ job[u].at = "idle"
  /\ job' = [job EXCEPT ![u].at = "asking"]
  /\ UNCHANGED <<rec, disk, live, order, rewrite, next, noted, restarts, history>>

\* The proposal is over; a scan counts it and goes on.
Over(p) ==
  IF p \in Scans
  THEN [NoJob EXCEPT !.at = "scanning", !.todo = job[p].todo, !.made = job[p].made + 1]
  ELSE NoJob
\* The proposal breaks off: a scan goes on without counting it.
Broken(p) ==
  IF p \in Scans
  THEN [NoJob EXCEPT !.at = "scanning", !.todo = job[p].todo, !.made = job[p].made]
  ELSE NoJob

\* create_candidate: a name that has a record keeps it as it is.
Record(n, e) ==
  IF rec[n].status = "none" THEN [rec EXCEPT ![n] = [status |-> "candidate", source |-> e]]
  ELSE rec

\* The model answers: its skill is written over whatever candidate had that name, and the
\* test begins.
Generated(p) ==
  /\ job[p].at = "asking"
  /\ \E n \in Names, v \in Code :
       /\ Writes(v) /\ noted' = noted \cup {v}
       /\ candidate' = [candidate EXCEPT ![n] = v]
       /\ rec' = Record(n, job[p].source)
       /\ job' = [job EXCEPT ![p].at = "testing", ![p].name = n]
  /\ UNCHANGED <<installed, live, order, rewrite, restarts, history>>

\* The model fails, or names nothing: no record, the event will be seen again.
Barren(p) ==
  /\ job[p].at = "asking"
  /\ job' = [job EXCEPT ![p] = Over(p)]
  /\ UNCHANGED <<rec, disk, live, order, rewrite, next, noted, restarts, history>>

\* The skill is written, but the table cannot be.
Unrecorded(p) ==
  /\ job[p].at = "asking"
  /\ \E n \in Names, v \in Code :
       /\ Writes(v) /\ noted' = noted \cup {v}
       /\ candidate' = [candidate EXCEPT ![n] = v]
  /\ job' = [job EXCEPT ![p] = Broken(p)]
  /\ UNCHANGED <<rec, installed, live, order, rewrite, restarts, history>>

\* The sandbox imports what the directory holds at that moment.
Imports(p) ==
  /\ job[p].at = "testing"
  /\ job' = [job EXCEPT ![p].at = "running", ![p].code = candidate[job[p].name]]
  /\ UNCHANGED <<rec, disk, live, order, rewrite, next, noted, restarts, history>>

\* Slip: a sandbox that breaks down leaves no verdict.
MarksIfAny(n, v) ==
  \/ rec' = [rec EXCEPT ![n].status = "sandboxed_pass"] /\ v # 0 /\ green' = green \cup {<<n, v>>}
  \/ rec' = [rec EXCEPT ![n].status = "sandboxed_fail"] /\ UNCHANGED green
  \/ UNCHANGED <<rec, green>>
\* mark_sandbox_result: green only if a signed verdict says so; anything else, a time-out
\* or a machine at fault included, is red.  The row is written whatever it says by now.
Marks(n, v) ==
  \/ rec' = [rec EXCEPT ![n].status = "sandboxed_pass"] /\ v # 0 /\ green' = green \cup {<<n, v>>}
  \/ rec' = [rec EXCEPT ![n].status = "sandboxed_fail"] /\ UNCHANGED green

Verdict(p) ==
  /\ job[p].at = "running"
  /\ Marks(job[p].name, job[p].code)
  /\ job' = [job EXCEPT ![p] = Over(p)]
  /\ UNCHANGED <<disk, live, order, rewrite, next, noted, restarts, promoted, cut, removals>>

\* The verdict is there and the table cannot be written.
Unmarked(p) ==
  /\ job[p].at = "running"
  /\ job' = [job EXCEPT ![p] = Broken(p)]
  /\ cut' = cut \cup {job[p].name}
  /\ UNCHANGED <<rec, disk, live, order, rewrite, next, noted, restarts, green, promoted, removals>>

\* Trials under way, and their names.
Tried(P) == {job[p].name : p \in {q \in P : job[q].at \in {"testing", "running"}}}

\* The use of the tool is cancelled: by the time-out of its step, by the client that left.
Cancelled(u) ==
  /\ job[u].at # "idle"
  /\ job' = [job EXCEPT ![u] = NoJob]
  /\ cut' = cut \cup Tried({u})
  /\ UNCHANGED <<rec, disk, live, order, rewrite, next, noted, restarts, green, promoted, removals>>

-----------------------------------------------------------------------------
(* The human *)

\* Slip: the status is not looked at.
PromotableAny(n) == rec[n].status # "none" /\ candidate[n] # 0 /\ ~installed[n].dir
\* SkillLab.promote refuses anything else.
Promotable(n) == rec[n].status = "sandboxed_pass" /\ candidate[n] # 0 /\ ~installed[n].dir

\* The directory moves, then the table is written, if it can be, and the registry read.
Promote(n) ==
  /\ Promotable(n)
  /\ installed' = [installed EXCEPT ![n] = [dir |-> TRUE, code |-> candidate[n]]]
  /\ candidate' = [candidate EXCEPT ![n] = 0]
  /\ \/ rec' = [rec EXCEPT ![n].status = "active"] /\ loaded' \in Reads(installed')
     \/ UNCHANGED <<rec, loaded>>
  /\ promoted' = promoted \cup {<<n, candidate[n]>>}
  /\ removed' = removed \ {n} /\ undone' = undone \ {n}
  /\ UNCHANGED <<offered, job, order, rewrite, next, noted, restarts, green, cut, gone>>

\* reject asks nothing of the status; the files go if the user says so.
Reject(n) ==
  /\ \E delete \in BOOLEAN :
       candidate' = IF delete THEN [candidate EXCEPT ![n] = 0] ELSE candidate
  /\ rec' = IF rec[n].status = "none" THEN rec ELSE [rec EXCEPT ![n].status = "rejected"]
  /\ UNCHANGED <<installed, live, job, order, rewrite, next, noted, restarts, history>>

\* Slip: the directory goes, the registry is not read again.
Forgotten(d) == {loaded}
\* uninstall reads the registry again; the record is not its business.
Uninstalled(d) == Reads(d)

\* The user is told that the skill is removed, and its tools are withdrawn.
Uninstall(n) ==
  /\ installed[n].dir
  /\ installed' = [installed EXCEPT ![n] = NoDir]
  /\ loaded' \in Uninstalled(installed') /\ offered' = loaded'
  /\ removed' = removed \cup {n} /\ undone' = undone \ {n}
  /\ gone' = gone \cup ({installed[n].code} \ {0})
  /\ UNCHANGED <<rec, candidate, job, order, rewrite, next, noted, restarts, green, promoted, cut>>

\* The user is told that it failed: the directory is there, in part or not at all, and the
\* registry was read in part or not at all.
UninstallFails(n) ==
  /\ installed[n].dir
  /\ installed' \in {[installed EXCEPT ![n] = d] : d \in {[NoDir EXCEPT !.dir = TRUE], NoDir}}
  /\ loaded' \in {loaded} \cup Reads(installed')
  /\ UNCHANGED <<rec, candidate, offered, job, order, rewrite, next, noted, restarts, history>>

\* The tools follow, unless the reading fails half-way.
Reload ==
  /\ loaded' \in Reads(installed) /\ offered' \in {loaded', offered}
  /\ UNCHANGED <<rec, disk, job, order, rewrite, next, noted, restarts, history>>

-----------------------------------------------------------------------------
(* The store *)

\* The user orders a skill; the catalogue is fetched.
StoreBegins(o) ==
  /\ order[o].at = "idle"
  /\ \E n \in Names :
       /\ order' = [order EXCEPT ![o] = [at |-> "catalogue", name |-> n]]
       /\ removed' = removed \ {n} /\ undone' = undone \ {n}
  /\ UNCHANGED <<rec, disk, live, job, rewrite, next, noted, restarts, green, promoted, cut, gone>>

\* The catalogue does not come, or does not know the name.
StoreRefuses(o) ==
  /\ order[o].at = "catalogue"
  /\ order' = [order EXCEPT ![o] = NoOrder]
  /\ UNCHANGED <<rec, disk, live, job, rewrite, next, noted, restarts, history>>

\* The catalogue knows the name: the directory is made, or was there already, though the
\* user may have removed it since the order.
StoreMakes(o) ==
  LET n == order[o].name IN
  /\ order[o].at = "catalogue"
  /\ order' = [order EXCEPT ![o] = [at |-> "downloading", name |-> n]]
  /\ installed' = [installed EXCEPT ![n] = [dir |-> TRUE, code |-> installed[n].code]]
  /\ undone' = undone \cup (removed \cap {n})
  /\ UNCHANGED <<rec, candidate, live, job, rewrite, next, noted, restarts, green, promoted, cut,
                 removed, gone>>

\* skill.py arrives, if its directory is still there; the rest is on its way.  A SKILL.md
\* that was there stays.
StoreWrites(o) ==
  LET n == order[o].name IN
  /\ order[o].at = "downloading" /\ installed[n].dir
  /\ \E v \in Code :
       /\ Writes(v) /\ installed' = [installed EXCEPT ![n] = [dir |-> TRUE, code |-> v]]
       /\ noted' = IF installed[n].code \in noted THEN noted \cup {v} ELSE noted
  /\ order' = [order EXCEPT ![o] = [at |-> "written", name |-> n]]
  /\ UNCHANGED <<rec, candidate, live, job, rewrite, restarts, history>>

StoreEnds(o) ==
  /\ order[o].at = "written"
  /\ order' = [order EXCEPT ![o] = NoOrder]
  /\ loaded' \in Reads(installed) /\ offered' = loaded'
  /\ UNCHANGED <<rec, disk, job, rewrite, next, noted, restarts, history>>

\* A download fails at any point, or the reading that follows it: the directory is removed,
\* whatever was in it before, and the registry is not read again.
StoreFails(o) ==
  /\ order[o].at \in {"downloading", "written"}
  /\ loaded' \in {loaded} \cup (IF order[o].at = "written" THEN Reads(installed) ELSE {})
  /\ installed' = [installed EXCEPT ![order[o].name] = NoDir]
  /\ order' = [order EXCEPT ![o] = NoOrder]
  /\ UNCHANGED <<rec, candidate, offered, job, rewrite, next, noted, restarts, history>>

-----------------------------------------------------------------------------
(* Improvement *)

\* The skill must have a SKILL.md, which the store does not bring.
RewriteBegins(r) ==
  /\ rewrite[r] = NoName
  /\ \E n \in Names : installed[n].code \in noted /\ rewrite' = [rewrite EXCEPT ![r] = n]
  /\ UNCHANGED <<rec, disk, live, job, order, next, noted, restarts, history>>

\* Slip: the directory is made if it is missing.
LandsAnywhere(n) == TRUE
\* The new text can be written only if the directory is still there.
Lands(n) == installed[n].dir

\* The model has answered.  Only that skill is loaded again, under the name it gives itself
\* by now, if it can be; its tools are not.
RewriteEnds(r) ==
  LET n == rewrite[r] IN
  /\ n # NoName /\ rewrite' = [rewrite EXCEPT ![r] = NoName]
  /\ \/ /\ Lands(n)
        /\ \E v \in Code :
             /\ Writes(v) /\ noted' = noted \cup {v}
             /\ installed' = [installed EXCEPT ![n] = [dir |-> TRUE, code |-> v]]
             /\ loaded' \in {loaded} \cup {[loaded EXCEPT ![m] = v] : m \in Names}
     \/ UNCHANGED <<next, noted, installed, loaded>>
  /\ UNCHANGED <<rec, candidate, offered, job, order, restarts, history>>

-----------------------------------------------------------------------------
\* Crush stops and starts again: what was under way is lost, the registry is read.
Restart ==
  /\ restarts < MaxRestarts /\ restarts' = restarts + 1
  /\ job' = [p \in Proposers |-> NoJob] /\ order' = [o \in Orders |-> NoOrder]
  /\ rewrite' = [r \in Rewrites |-> NoName]
  /\ loaded' \in Reads(installed) /\ offered' = loaded'
  /\ cut' = cut \cup Tried(Proposers)
  /\ UNCHANGED <<rec, disk, next, noted, green, promoted, removals>>

Next ==
  \/ \E s \in Scans : Scan(s)
  \/ \E u \in Uses : Propose(u)
  \/ \E p \in Proposers : Generated(p) \/ Barren(p) \/ Unrecorded(p) \/ Imports(p)
                            \/ Verdict(p) \/ Unmarked(p)
  \/ \E u \in Uses : Cancelled(u)
  \/ \E n \in Names : Promote(n) \/ Reject(n) \/ Uninstall(n) \/ UninstallFails(n)
  \/ Reload
  \/ \E o \in Orders : StoreBegins(o) \/ StoreRefuses(o) \/ StoreMakes(o) \/ StoreWrites(o)
                         \/ StoreEnds(o) \/ StoreFails(o)
  \/ \E r \in Rewrites : RewriteBegins(r) \/ RewriteEnds(r)
  \/ Restart

Spec == Init /\ [][Next]_vars

-----------------------------------------------------------------------------
(* Properties *)

\* The gate: nothing comes out of the laboratory under a name that never passed its test,
\* whatever humans, scans and the store do meanwhile.
NeverWithoutGreen ==
  \A p \in promoted : \E g \in green : g[1] = p[1]

\* A name left as a candidate is being tried, or a trial of it was cut: cancelled, stopped
\* with the process or unable to write its verdict.  Every other way a trial may end, a
\* sandbox that breaks down or times out included, leaves a verdict.
CandidateIsUnderTest ==
  \A n \in Names : rec[n].status = "candidate" => n \in Tried(Proposers) \cup cut

\* Code that a removal took away with success is on no disk, in no registry and behind no
\* tool again, though readings fail, tools lag and other skills go by its name.
RemovedCodeIsIdle ==
  \A n \in Names : {installed[n].code, candidate[n], loaded[n], offered[n]} \cap gone = {}

\* A skill that the user removed is off the disk, and neither a rewriting nor a download
\* under way brings it back; only an order that was still at its catalogue does.
RemovedStaysGone ==
  \A n \in removed : installed[n] = NoDir \/ n \in undone

\* « Une skill candidate qui échoue son test sandbox n'est jamais installée » : what a
\* human accepts is what the sandbox tried.
OnlyTestedIsInstalled == promoted \subseteq green
==============================================================================
