---------------------------- MODULE RestartManager ----------------------------
(***************************************************************************)
(* The restart files of the radiation hydrodynamics simulations            *)
(* (RestartManager.hpp): before the dump is written the old one is moved   *)
(* to the first backup, and the backups up by one.                         *)
(*                                                                         *)
(* One action is one change of the folder.  The process may be killed      *)
(* between any two of them, and a new process starts with new counters.    *)
(***************************************************************************)
EXTENDS Integers

CONSTANTS
  Maxima,       \* the values of "maximum number of backups" to look at
  Width,        \* number of values of the unsigned counters
  MaxDump,      \* bound: number of dumps
  None          \* no such file

ASSUME SizeAssumption ==
  /\ Maxima \subseteq Nat /\ MaxDump \in Nat
  /\ Width \in Nat /\ \A m \in Maxima : m < Width
ASSUME NoneAssumption == None \notin [n : Nat, complete : BOOLEAN]

(* The backups there may be: restart.<i>.back. *)
Backup == UNION {0 .. m - 1 : m \in Maxima}

VARIABLES
  maximum,            \* _maximum_number_of_backups, of this process
  dump,               \* restart.dump: [n, complete], or None
  backup,             \* [Backup -> restart.<i>.back, or None]
  number_of_backups,  \* of this process
  number_of_restarts, \* of this process
  pc,                 \* where the process is: "down" after its end
  index,              \* the backup that is moved to next
  made,               \* number of dumps that were begun, by all processes
  latest              \* number of the last dump that was completed

vars == <<maximum, dump, backup, number_of_backups, number_of_restarts, pc,
          index, made, latest>>

Smaller(a, b) == IF a < b THEN a ELSE b

Init ==
  /\ maximum \in Maxima
  /\ dump = None
  /\ backup = [i \in Backup |-> None]
  /\ number_of_backups = 0
  /\ number_of_restarts = 0
  /\ pc = "run"
  /\ index = 0
  /\ made = 0
  /\ latest = 0

(* get_restart_writer is called: the first index of the loop over the      *)
(* backups, in unsigned arithmetic.                                        *)
RequestDump ==
  /\ pc = "run"
  /\ made < MaxDump
  /\ pc' = IF maximum > 0 THEN "shift" ELSE "open"
  /\ index' = IF maximum > 0
              THEN Smaller(maximum - 1, (number_of_backups - 1) % Width) ELSE 0
  /\ UNCHANGED <<maximum, dump, backup, number_of_backups, number_of_restarts, made, latest>>

(* rename(restart.<index-1>.back, restart.<index>.back), which is an error *)
(* when there is no such file.                                             *)
ShiftBackup ==
  /\ pc = "shift"
  /\ index > 0
  /\ IF backup[index - 1] = None
     THEN pc' = "error" /\ UNCHANGED <<backup, index>>
     ELSE /\ backup' = [backup EXCEPT ![index] = backup[index - 1], ![index - 1] = None]
          /\ index' = index - 1
          /\ UNCHANGED pc
  /\ UNCHANGED <<maximum, dump, number_of_backups, number_of_restarts, made, latest>>

(* The dump is moved to the first backup, if this process wrote it. *)
FaultBackUpLate(n) == n > 1      \* Seeded fault: the first dump is not backed up
FaultAlwaysBackUp(n) == TRUE     \* Seeded fault: nor does it matter who wrote it
MustBackUp(n) == n > 0

CountBackup(n) == IF n < maximum THEN n + 1 ELSE n

MoveDump ==
  /\ pc = "shift"
  /\ index = 0
  /\ \/ /\ ~ MustBackUp(number_of_restarts)
        /\ pc' = "open"
        /\ UNCHANGED <<dump, backup, number_of_backups>>
     \/ /\ MustBackUp(number_of_restarts)
        /\ dump # None
        /\ dump' = None
        /\ backup' = [backup EXCEPT ![0] = dump]
        /\ number_of_backups' = CountBackup(number_of_backups)
        /\ pc' = "open"
  /\ UNCHANGED <<maximum, number_of_restarts, index, made, latest>>

(* The RestartWriter opens the file, which truncates it; the dump is       *)
(* complete when the writer is deleted.                                    *)
OpenDump ==
  /\ pc = "open"
  /\ number_of_restarts' = number_of_restarts + 1
  /\ made' = made + 1
  /\ dump' = [n |-> made + 1, complete |-> FALSE]
  /\ pc' = "write"
  /\ UNCHANGED <<maximum, backup, number_of_backups, index, latest>>

CompleteDump ==
  /\ pc = "write"
  /\ dump' = [dump EXCEPT !.complete = TRUE]
  /\ latest' = made
  /\ pc' = "run"
  /\ UNCHANGED <<maximum, backup, number_of_backups, number_of_restarts, index, made>>

(* The process stops, is killed, or dies of an error. *)
Stop ==
  /\ pc # "down"
  /\ pc' = "down"
  /\ UNCHANGED <<maximum, dump, backup, number_of_backups, number_of_restarts,
                 index, made, latest>>

(* A new process in the same folder: from a complete dump or from scratch, *)
(* maybe with another parameter file.                                      *)
Start ==
  /\ pc = "down"
  /\ maximum' \in Maxima
  /\ number_of_backups' = 0
  /\ number_of_restarts' = 0
  /\ pc' = "run"
  /\ index' = 0
  /\ UNCHANGED <<dump, backup, made, latest>>

Next ==
  \/ RequestDump \/ ShiftBackup \/ MoveDump \/ OpenDump \/ CompleteDump
  \/ Stop \/ Start

Spec == Init /\ [][Next]_vars

-----------------------------------------------------------------------------
(* With a backup, from its first complete dump on a process always leaves  *)
(* the newest complete dump on disk, whenever it is killed.  (The first    *)
(* dump of a process overwrites the one it was started from.)              *)
NewestSurvives ==
  (maximum > 0 /\ (number_of_restarts > 1 \/ (number_of_restarts = 1 /\ latest = made))) =>
    \E f \in {dump} \cup {backup[i] : i \in DOMAIN backup} :
      f # None /\ f.complete /\ f.n = latest

(* A dump that was not completed never becomes a backup, whenever the      *)
(* process that wrote it was killed, and the backups that are counted are  *)
(* there.                                                                  *)
BackupsUsable ==
  /\ \A i \in DOMAIN backup : backup[i] # None => backup[i].complete
  /\ pc = "run" => \A i \in 0 .. number_of_backups - 1 : backup[i] # None

(* "Number of restart files in the history to back up": a dump does not    *)
(* fail for the number of backups, as long as the folder is left alone.    *)
NoBackupError == pc # "error"
=============================================================================
