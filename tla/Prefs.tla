-------------------------------- MODULE Prefs --------------------------------
(***************************************************************************)
(* The preferences: one text that the model rewrites whole after every     *)
(* exchange (micro) and every night (deep), and that the user edits in the *)
(* settings.  A pass reads the text, awaits the model and writes; the text *)
(* it replaces goes to a copy of one generation.  Files are written in     *)
(* place: a write that fails leaves a part of the text, or nothing.        *)
(*   - providers/memory/auto_dream.py   _run_micro, _synthese_nocturne     *)
(*   - interfaces/api/admin.py          put_memory_prefs                   *)
(***************************************************************************)
EXTENDS Naturals

CONSTANTS
  Micros, Deep,   \* passes
  Sizes,          \* of the text, in units
  Built,          \* size from which a text may not collapse
  MaxHand         \* bound: texts typed by the user

Passes == Micros \cup {Deep}

\* A text descends from what the user typed if the pass that wrote it had read that, and
\* all of it was written.
Prose == [size: Sizes, knows: SUBSET (1..MaxHand), whole: BOOLEAN]

ASSUME PrefsAssumption ==
  Deep \notin Micros /\ 0 \in Sizes /\ Sizes \subseteq Nat /\ Built \in Nat /\ MaxHand \in Nat

VARIABLES
  prefs,        \* the file
  bak,          \* what its copy has of the texts typed
  pass,         \* each pass: at the model, and the text it read
  hand,         \* history: texts typed so far; the last one is the user's word
  blind,        \* history: passes at the model when he typed it
  since,        \* history: rewritings since, up to 2
  mishaps       \* history: what has failed in the middle since, the copy or the write

prefsVars == <<prefs, bak, pass, hand, blind, since, mishaps>>

Nowhere == [out |-> FALSE, read |-> [size |-> 0, knows |-> {}, whole |-> TRUE]]

PrefsTypeOK ==
  /\ prefs \in Prose /\ bak \subseteq 1..MaxHand
  /\ pass \in [Passes -> [out: BOOLEAN, read: Prose]]
  /\ hand \in 0..MaxHand /\ blind \subseteq Passes /\ since \in 0..2
  /\ mishaps \subseteq {"copy", "write"}

PrefsInit ==
  /\ \E n \in Sizes : prefs = [size |-> n, knows |-> {}, whole |-> TRUE]
  /\ bak = {}
  /\ pass = [p \in Passes |-> Nowhere]
  /\ hand = 0 /\ blind = {} /\ since = 0 /\ mishaps = {}

ReadsPrefs(p) ==
  /\ ~pass[p].out
  /\ pass' = [pass EXCEPT ![p] = [out |-> TRUE, read |-> prefs]]
  /\ UNCHANGED <<prefs, bak, hand, blind, since, mishaps>>

Collapses(old, n) == old.size >= Built /\ 2 * n < old.size

\* Slip: the deep pass weighs against what it read too.
WeighedEarly(p) == pass[p].read

\* The text that the answer is weighed against: the micro pass keeps the one it read, the
\* deep one reads it again.
Weighed(p) == IF p = Deep THEN prefs ELSE pass[p].read

\* What a write that fails may leave of a text: a part of it, or nothing.
Parts(text) == {[size |-> n, knows |-> {}, whole |-> FALSE] : n \in {k \in Sizes : k <= text.size}}

\* Slip: the copy is taken of the new text.
RewrittenFirst(text) ==
  \E fails \in SUBSET {"copy", "write"} :
    /\ bak' \in IF "copy" \in fails THEN {bak, {}} ELSE {text.knows}
    /\ prefs' \in IF "write" \in fails THEN {prefs} \cup Parts(text) ELSE {text}
    /\ mishaps' = mishaps \cup fails

\* _write_prefs: a copy that fails does not stop the write.
Rewritten(text) ==
  \E fails \in SUBSET {"copy", "write"} :
    /\ bak' \in IF "copy" \in fails THEN {bak, {}} ELSE {prefs.knows}
    /\ prefs' \in IF "write" \in fails THEN {prefs} \cup Parts(text) ELSE {text}
    /\ mishaps' = mishaps \cup fails

OneMore(n) == IF n = 2 THEN 2 ELSE n + 1

Rewrites(p) ==
  /\ pass[p].out
  /\ \E n \in Sizes \ {0} :
       /\ ~Collapses(Weighed(p), n)
       /\ Rewritten([size |-> n, knows |-> pass[p].read.knows, whole |-> TRUE])
  /\ pass' = [pass EXCEPT ![p] = Nowhere]
  /\ since' = OneMore(since)
  /\ UNCHANGED <<hand, blind>>

\* The answer is refused, or says nothing new, or the model fails, or the process stops
\* before the write.
LeavesPrefs(p) ==
  /\ pass[p].out
  /\ pass' = [pass EXCEPT ![p] = Nowhere]
  /\ UNCHANGED <<prefs, bak, hand, blind, since, mishaps>>

\* The settings write the file, with no copy.
Types ==
  /\ hand < MaxHand
  /\ hand' = hand + 1
  /\ \E n \in Sizes : prefs' = [size |-> n, knows |-> {hand + 1}, whole |-> TRUE]
  /\ blind' = {p \in Passes : pass[p].out}
  /\ since' = 0 /\ mishaps' = {}
  /\ UNCHANGED <<bak, pass>>

\* Their write fails: the user is told, and what was there is cut with no copy.
FailsToType ==
  /\ \E n \in Sizes : prefs' = [size |-> n, knows |-> {}, whole |-> FALSE]
  /\ since' = OneMore(since) /\ mishaps' = {"copy", "write"}
  /\ UNCHANGED <<bak, pass, hand, blind>>

PrefsNext ==
  \/ \E p \in Passes : ReadsPrefs(p) \/ Rewrites(p) \/ LeavesPrefs(p)
  \/ Types \/ FailsToType

PrefsSpec == PrefsInit /\ [][PrefsNext]_prefsVars

-----------------------------------------------------------------------------
(* What the preferences owe the user *)

\* What the user typed is lost only to a pass that was at the model when he typed it or to a
\* write that failed in the middle, and even then the copy has it until the next rewriting,
\* unless the copy failed too (auto_dream.py:155: « l'écriture prime sur la sauvegarde »).
HandIsReadOrKept ==
  hand > 0 =>
    \/ hand \in prefs.knows
    \/ /\ blind # {} \/ "write" \in mishaps
       /\ since = 1 /\ "copy" \notin mishaps => hand \in bak

\* No pass that writes its text whole halves a built memory at once (auto_dream.py:66), but a
\* micro pass for which the text has changed since it read it.
HalvedOnlyUnawares ==
  [][\A p \in Passes :
       pass[p].out /\ ~pass'[p].out /\ prefs'.whole /\ Collapses(prefs, prefs'.size) =>
         p # Deep /\ prefs # pass[p].read]_prefsVars

\* auto_dream.py:66: « Une mémoire construite ne perd pas la moitié de sa substance en un
\* échange ».
NeverHalved ==
  [][\A p \in Passes : pass[p].out /\ ~pass'[p].out /\ prefs'.whole =>
        ~Collapses(prefs, prefs'.size)]_prefsVars
==============================================================================
