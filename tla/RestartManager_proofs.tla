------------------------- MODULE RestartManager_proofs -------------------------
(***************************************************************************)
(* Proofs about RestartManager, for every set of numbers of backups, every *)
(* number of dumps, and processes that are killed anywhere.                *)
(***************************************************************************)
EXTENDS RestartManager, TLAPS

(* The files that matter: dumps and backups are files, and the indices of  *)
(* the rotation are those of backups of this process.                      *)
AnyFile == [n : Nat, complete : BOOLEAN]

Types ==
  /\ maximum \in Maxima
  /\ dump \in AnyFile \cup {None}
  /\ backup \in [Backup -> AnyFile \cup {None}]
  /\ number_of_backups \in Nat /\ number_of_restarts \in Nat
  /\ pc \in {"run", "shift", "open", "write", "down", "error"}
  /\ index \in Nat /\ (pc = "shift" => index < maximum)
  /\ made \in Nat /\ latest \in Nat /\ latest <= made

NewestInDump == dump # None /\ dump.complete /\ dump.n = latest

NewestInBackup ==
  0 \in Backup /\ backup[0] # None /\ backup[0].complete /\ backup[0].n = latest

(* A process with one backup alternates between its two files.             *)
Rotation ==
  /\ pc \in {"run", "shift", "error"} /\ number_of_restarts > 0 => NewestInDump
  /\ number_of_backups > 0 => maximum = 1 /\ number_of_backups = 1 /\ number_of_restarts > 0
  /\ number_of_backups > 0 /\ pc \in {"run", "open", "write"} => backup[0] # None
  /\ pc = "write" => number_of_restarts > 0 /\ dump # None /\ dump.n = made /\ latest < made
  /\ maximum = 1 /\ pc = "open" /\ number_of_restarts > 0 => NewestInBackup
  /\ maximum = 1 /\ pc = "write" /\ number_of_restarts > 1 => NewestInBackup

(* A process with two or more never gets to its second dump: the first one *)
(* leaves restart.0.back empty, whatever there was, and the next rotation  *)
(* runs into this.                                                         *)
NoSecondDump ==
  maximum > 1 =>
    /\ number_of_restarts <= 1
    /\ pc = "open" => number_of_restarts = 0
    /\ pc \in {"run", "write"} /\ number_of_restarts > 0 => backup[0] = None
    /\ pc = "open" => backup[0] = None
    /\ pc = "shift" /\ index = 0 => backup[0] = None /\ number_of_restarts = 0
    /\ pc = "shift" /\ number_of_restarts > 0 => backup[0] = None

Complete == \A i \in Backup : backup[i] # None => backup[i].complete

Inv == Types /\ Rotation /\ NoSecondDump /\ Complete /\ NewestSurvives

(* The backups of a process are among all backups. *)
LEMMA OwnBackups ==
  ASSUME NEW m \in Maxima, NEW i \in Nat, i < m PROVE i \in Backup
<1>1. m \in Nat /\ i \in 0 .. m - 1
  BY SizeAssumption
<1> QED
  BY <1>1 DEF Backup

(* Without backups, the first index of the rotation comes from the wrap of *)
(* the unsigned counter: the last backup.                                  *)
LEMMA FirstIndex ==
  ASSUME NEW m \in Maxima, m > 0, NEW n \in Nat
  PROVE  /\ Smaller(m - 1, (n - 1) % Width) \in Nat
         /\ Smaller(m - 1, (n - 1) % Width) < m
         /\ m > 1 /\ n = 0 => Smaller(m - 1, (n - 1) % Width) > 0
<1>1. m \in Nat /\ Width \in Nat /\ m < Width
  BY SizeAssumption
<1>2. (n - 1) % Width \in 0 .. Width - 1
  BY <1>1
<1>3. n = 0 => (n - 1) % Width = Width - 1
  BY <1>1
<1> QED
  BY <1>1, <1>2, <1>3 DEF Smaller
(* A new process in an empty folder. *)
LEMMA InvInit == Init => Inv
<1> SUFFICES ASSUME Init PROVE Inv
  OBVIOUS
<1>1. Types
  BY SizeAssumption DEF Init, Types
<1>2. Rotation /\ NoSecondDump
  BY SizeAssumption, OwnBackups DEF Init, Rotation, NoSecondDump
<1>3. Complete /\ NewestSurvives
  BY DEF Init, Complete, NewestSurvives
<1> QED
  BY <1>1, <1>2, <1>3 DEF Inv

(* Every change of the folder, and every start and end of a process.       *)
LEMMA InvNext == Inv /\ [Next]_vars => Inv'
<1> SUFFICES ASSUME Inv, [Next]_vars PROVE Inv'
  OBVIOUS
<1> USE DEF Inv
<1>1. maximum \in Nat /\ DOMAIN backup = Backup /\ (maximum > 0 => 0 \in Backup)
  BY SizeAssumption, OwnBackups DEF Types
<1>2. ASSUME Types', NewestInDump' \/ NewestInBackup' PROVE NewestSurvives'
  BY <1>2 DEF Types, NewestInDump, NewestInBackup, NewestSurvives
<1>3. ASSUME maximum' = 0 \/ number_of_restarts' = 0 PROVE NewestSurvives'
  BY <1>3 DEF NewestSurvives
<1>4. CASE RequestDump
  <2>1. maximum > 0 => index' \in Nat /\ index' < maximum
                        /\ (maximum > 1 /\ number_of_backups = 0 => index' > 0)
    BY <1>4, FirstIndex DEF RequestDump, Types
  <2>2. Types'
    BY <1>1, <1>4, <2>1 DEF RequestDump, Types
  <2>3. Rotation'
    BY <1>1, <1>4 DEF RequestDump, Types, Rotation, NewestInDump, NewestInBackup
  <2>4. NoSecondDump'
    BY <1>1, <1>4, <2>1 DEF RequestDump, Types, Rotation, NoSecondDump
  <2>5. Complete' /\ NewestSurvives'
    BY <1>4 DEF RequestDump, Complete, NewestSurvives
  <2> QED
    BY <2>2, <2>3, <2>4, <2>5
<1>5. CASE ShiftBackup
  <2>1. index \in Backup /\ index - 1 \in Backup /\ index - 1 \in Nat /\ index - 1 < maximum
    BY <1>1, <1>5, OwnBackups DEF ShiftBackup, Types
  <2>2. CASE backup[index - 1] = None
    <3>1. UNCHANGED <<maximum, dump, backup, number_of_backups, number_of_restarts,
                      index, made, latest>> /\ pc' = "error" /\ pc = "shift"
      BY <1>5, <2>2 DEF ShiftBackup
    <3>2. Types' /\ Complete' /\ NewestSurvives'
      BY <3>1 DEF Types, Complete, NewestSurvives
    <3>3. Rotation' /\ NoSecondDump'
      BY <3>1 DEF Rotation, NoSecondDump, NewestInDump, NewestInBackup
    <3> QED
      BY <3>2, <3>3
  <2>3. CASE backup[index - 1] # None
    <3>1. /\ backup' = [backup EXCEPT ![index] = backup[index - 1], ![index - 1] = None]
          /\ index' = index - 1 /\ pc = "shift" /\ index > 0
          /\ UNCHANGED <<maximum, dump, number_of_backups, number_of_restarts, pc, made, latest>>
      BY <1>5, <2>3 DEF ShiftBackup
    <3>2. Types'
      BY <2>1, <3>1 DEF Types
    <3>3. Rotation'
      BY <1>1, <2>1, <3>1 DEF Types, Rotation, NewestInDump, NewestInBackup
    <3>4. NoSecondDump'
      <4>1. CASE index = 1
        <5>1. backup'[0] = None
          BY <1>1, <2>1, <3>1, <4>1 DEF Types
        <5>2. maximum > 1 => number_of_restarts = 0
          BY <1>1, <2>3, <4>1, <3>1 DEF NoSecondDump, Types
        <5> QED
          BY <3>1, <4>1, <5>1, <5>2 DEF NoSecondDump
      <4>2. CASE index # 1
        <5>1. index' # 0 /\ backup'[0] = backup[0]
          BY <1>1, <2>1, <3>1, <4>2 DEF Types
        <5> QED
          BY <3>1, <5>1 DEF NoSecondDump
      <4> QED
        BY <4>1, <4>2
    <3>5. Complete'
      BY <2>1, <3>1 DEF Types, Complete
    <3>6. NewestSurvives'
      <4>1. CASE number_of_restarts = 0
        BY <1>3, <3>1, <4>1
      <4>2. CASE number_of_restarts > 0
        BY <1>2, <3>1, <3>2, <4>2 DEF Rotation, NewestInDump
      <4> QED
        BY <4>1, <4>2 DEF Types
    <3> QED
      BY <3>2, <3>3, <3>4, <3>5, <3>6
  <2> QED
    BY <2>2, <2>3
<1>6. CASE MoveDump
  <2>1. CASE ~ MustBackUp(number_of_restarts)
    <3>1. number_of_restarts = 0 /\ number_of_backups = 0
      BY <2>1 DEF MustBackUp, Types, Rotation
    <3>2. pc = "shift" /\ pc' = "open" /\ index = 0
          /\ UNCHANGED <<maximum, dump, backup, number_of_backups, number_of_restarts,
                         index, made, latest>>
      BY <1>6, <2>1 DEF MoveDump
    <3>3. Types' /\ Complete' /\ NewestSurvives'
      BY <1>3, <3>1, <3>2 DEF Types, Complete
    <3>4. Rotation' /\ NoSecondDump'
      BY <3>1, <3>2 DEF Rotation, NoSecondDump, NewestInDump, NewestInBackup
    <3> QED
      BY <3>3, <3>4
  <2>2. CASE MustBackUp(number_of_restarts)
    <3>1. number_of_restarts > 0 /\ pc = "shift" /\ index = 0 /\ NewestInDump
      BY <1>6, <2>2 DEF MoveDump, MustBackUp, Rotation
    <3>2. maximum = 1 /\ 0 \in Backup
      BY <1>1, <3>1 DEF Types, NoSecondDump
    <3>3. /\ dump' = None
          /\ backup' = [backup EXCEPT ![0] = dump]
          /\ number_of_backups' = CountBackup(number_of_backups)
          /\ pc' = "open"
          /\ UNCHANGED <<maximum, number_of_restarts, index, made, latest>>
      BY <1>6, <2>2 DEF MoveDump
    <3>4. number_of_backups' = 1
      BY <3>2, <3>3 DEF CountBackup, Types, Rotation
    <3>5. Types'
      BY <3>2, <3>3, <3>4 DEF Types
    <3>6. NewestInBackup' /\ backup'[0] = dump
      BY <3>1, <3>2, <3>3 DEF Types, NewestInDump, NewestInBackup
    <3>7. Rotation'
      BY <3>1, <3>2, <3>3, <3>4, <3>6 DEF Rotation, NewestInDump, NewestInBackup
    <3>8. NoSecondDump'
      BY <3>2, <3>3 DEF NoSecondDump
    <3>9. Complete'
      BY <3>1, <3>2, <3>3 DEF Types, Complete, NewestInDump
    <3> QED
      BY <1>2, <3>5, <3>6, <3>7, <3>8, <3>9
  <2> QED
    BY <2>1, <2>2
<1>7. CASE OpenDump
  <2>1. /\ pc = "open" /\ pc' = "write"
        /\ number_of_restarts' = number_of_restarts + 1 /\ made' = made + 1
        /\ dump' = [n |-> made + 1, complete |-> FALSE]
        /\ UNCHANGED <<maximum, backup, number_of_backups, index, latest>>
    BY <1>7 DEF OpenDump
  <2>2. dump' \in AnyFile /\ dump'.n = made' /\ dump' # None
    <3>1. made + 1 \in Nat
      BY DEF Types
    <3>2. [n |-> made + 1, complete |-> FALSE] \in AnyFile
      BY <3>1 DEF AnyFile
    <3>3. \A f \in AnyFile : f # None
      BY NoneAssumption DEF AnyFile
    <3> QED
      BY <2>1, <3>2, <3>3
  <2>3. Types'
    BY <2>1, <2>2 DEF Types
  <2>4. Rotation'
    BY <2>1, <2>2 DEF Types, Rotation, NewestInBackup
  <2>5. NoSecondDump'
    BY <1>1, <2>1 DEF Types, NoSecondDump
  <2>6. Complete'
    BY <2>1 DEF Complete
  <2>7. NewestSurvives'
    <3>1. CASE maximum = 1 /\ number_of_restarts > 0
      BY <1>2, <2>1, <2>3, <3>1 DEF Rotation, NewestInBackup
    <3>2. CASE maximum = 0
      BY <1>3, <2>1, <3>2
    <3>3. CASE number_of_restarts = 0
      BY <2>1, <3>3 DEF Types, NewestSurvives
    <3> QED
      BY <1>1, <2>1, <3>1, <3>2, <3>3 DEF Types, NoSecondDump
  <2> QED
    BY <2>3, <2>4, <2>5, <2>6, <2>7
<1>8. CASE CompleteDump
  <2>1. /\ pc = "write" /\ pc' = "run" /\ latest' = made
        /\ dump' = [dump EXCEPT !.complete = TRUE]
        /\ UNCHANGED <<maximum, backup, number_of_backups, number_of_restarts, index, made>>
    BY <1>8 DEF CompleteDump
  <2>2. dump \in AnyFile /\ dump.n = made
    BY <2>1 DEF Types, Rotation
  <2>3. dump' \in AnyFile /\ dump'.n = made /\ dump'.complete /\ dump' # None
    BY <2>1, <2>2, NoneAssumption DEF AnyFile
  <2>4. Types'
    BY <2>1, <2>3 DEF Types
  <2>5. NewestInDump'
    BY <2>1, <2>3 DEF NewestInDump
  <2>6. Rotation'
    BY <2>1, <2>5 DEF Rotation
  <2>7. NoSecondDump'
    BY <2>1 DEF NoSecondDump
  <2>8. Complete'
    BY <2>1 DEF Complete
  <2> QED
    BY <1>2, <2>4, <2>5, <2>6, <2>7, <2>8
<1>9. CASE Stop
  <2>1. pc' = "down" /\ UNCHANGED <<maximum, dump, backup, number_of_backups,
                                    number_of_restarts, index, made, latest>>
    BY <1>9 DEF Stop
  <2>2. Types' /\ Complete' /\ NewestSurvives'
    BY <2>1 DEF Types, Complete, NewestSurvives
  <2>3. Rotation' /\ NoSecondDump'
    BY <2>1 DEF Rotation, NoSecondDump
  <2> QED
    BY <2>2, <2>3
<1>10. CASE Start
  <2>1. Types'
    BY <1>10 DEF Start, Types
  <2>2. Rotation' /\ NoSecondDump' /\ Complete'
    BY <1>10 DEF Start, Rotation, NoSecondDump, Complete
  <2>3. NewestSurvives'
    BY <1>3, <1>10 DEF Start
  <2> QED
    BY <2>1, <2>2, <2>3
<1>11. CASE UNCHANGED vars
  BY <1>11 DEF vars, Types, Rotation, NoSecondDump, Complete, NewestSurvives,
               NewestInDump, NewestInBackup
<1> QED
  BY <1>4, <1>5, <1>6, <1>7, <1>8, <1>9, <1>10, <1>11 DEF Next

(* A process with a backup that completed a dump always leaves the newest  *)
(* complete dump of all on disk, whenever it is killed.                    *)
THEOREM NewestDumpSurvives == Spec => []NewestSurvives
<1>1. Inv => NewestSurvives
  BY DEF Inv
<1> QED
  BY <1>1, InvInit, InvNext, PTL DEF Spec

(* The backups are complete, and those that are counted are there.         *)
THEOREM BackupsStayUsable == Spec => []BackupsUsable
<1>1. Inv => BackupsUsable
  <2> SUFFICES ASSUME Inv PROVE BackupsUsable
    OBVIOUS
  <2>1. DOMAIN backup = Backup
    BY DEF Inv, Types
  <2>2. \A i \in DOMAIN backup : backup[i] # None => backup[i].complete
    BY <2>1 DEF Inv, Complete
  <2>3. ASSUME pc = "run", NEW i \in 0 .. number_of_backups - 1 PROVE backup[i] # None
    BY <2>3 DEF Inv, Types, Rotation
  <2> QED
    BY <2>2, <2>3 DEF BackupsUsable
<1> QED
  BY <1>1, InvInit, InvNext, PTL DEF Spec
=============================================================================
