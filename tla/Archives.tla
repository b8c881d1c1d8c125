------------------------------ MODULE Archives -------------------------------
(***************************************************************************)
(* The archives of the memory: a file named by the minute, written by the  *)
(* service every night and by a script when the user asks, each pass       *)
(* followed by the purge of the oldest files.  A pass that fails leaves    *)
(* what it had written, under a name that counts as an archive.            *)
(*   - providers/memory/sauvegarde.py   SauvegardeMemoire                  *)
(*   - engine/background/scheduler.py   _sauvegarde_loop                   *)
(*   - scripts/sauvegarde_memoire.py    main                               *)
(***************************************************************************)
EXTENDS Naturals, FiniteSets

CONSTANTS
  Writers,      \* the service and the script
  Keep,         \* archives kept (backup_keep)
  MaxMinute     \* bound

Minutes == 1..MaxMinute

ASSUME ArchivesAssumption == Keep \in Nat \ {0} /\ MaxMinute \in Nat \ {0}

VARIABLES
  now,
  archive,      \* each name: no file, a part of one, or a whole archive
  writer,       \* each process: what it is doing, to which name
  assured,      \* history: a pass has reported success
  crossed       \* history: a pass began while another was at work, or under a used name

archivesVars == <<now, archive, writer, assured, crossed>>

Resting == [pc |-> "resting", name |-> 0]

ArchivesTypeOK ==
  /\ now \in Minutes
  /\ archive \in [Minutes -> {"none", "part", "whole"}]
  /\ writer \in [Writers -> [pc: {"resting", "writing", "purging"}, name: 0..MaxMinute]]
  /\ assured \in BOOLEAN /\ crossed \in BOOLEAN

ArchivesInit ==
  /\ now = 1
  /\ archive = [n \in Minutes |-> "none"]
  /\ writer = [w \in Writers |-> Resting]
  /\ assured = FALSE /\ crossed = FALSE

TimePasses ==
  /\ now < MaxMinute
  /\ now' = now + 1
  /\ UNCHANGED <<archive, writer, assured, crossed>>

\* tarfile.open: a file of that name is emptied.
OpensArchive(w) ==
  /\ writer[w] = Resting
  /\ archive' = [archive EXCEPT ![now] = "part"]
  /\ writer' = [writer EXCEPT ![w] = [pc |-> "writing", name |-> now]]
  /\ crossed' = (crossed \/ archive[now] # "none" \/ \E v \in Writers : writer[v] # Resting)
  /\ UNCHANGED <<now, assured>>

\* Two processes that write one file may leave either's archive or none.
ClosesArchive(w) ==
  /\ writer[w].pc = "writing"
  /\ \E state \in (IF crossed THEN {"part", "whole"} ELSE {"whole"}) :
       archive' = [archive EXCEPT ![writer[w].name] = state]
  /\ writer' = [writer EXCEPT ![w].pc = "purging"]
  /\ UNCHANGED <<now, assured, crossed>>

Files == {n \in Minutes : archive[n] # "none"}

\* Those with enough later names, whatever they hold.
TooMany == {n \in Files : Cardinality({l \in Files : l > n}) >= Keep}

Purged == archive' = [n \in Minutes |-> IF n \in TooMany THEN "none" ELSE archive[n]]

\* The success is reported.
PurgesArchives(w) ==
  /\ writer[w].pc = "purging"
  /\ Purged
  /\ writer' = [writer EXCEPT ![w] = Resting]
  /\ assured' = TRUE
  /\ UNCHANGED <<now, crossed>>

\* Slip: a pass that fails purges too.
FailsAndPurges(w) ==
  /\ writer[w] # Resting
  /\ Purged
  /\ writer' = [writer EXCEPT ![w] = Resting]
  /\ UNCHANGED <<now, assured, crossed>>

\* An error, which is told, or a stop of the process; what was written stays.
FailsToArchive(w) ==
  /\ writer[w] # Resting
  /\ writer' = [writer EXCEPT ![w] = Resting]
  /\ UNCHANGED <<now, archive, assured, crossed>>

ArchivesNext ==
  \/ TimePasses
  \/ \E w \in Writers :
       OpensArchive(w) \/ ClosesArchive(w) \/ PurgesArchives(w) \/ FailsToArchive(w)

ArchivesSpec == ArchivesInit /\ [][ArchivesNext]_archivesVars

-----------------------------------------------------------------------------
(* What the archives owe the user *)

\* Once a pass has reported success there is a whole archive, however many passes fail
\* afterwards and leave parts that the purge counts -- as long as no two passes cross.
OneWholeRemains == assured /\ ~crossed => \E n \in Minutes : archive[n] = "whole"
==============================================================================
