----------------------------- MODULE ReplaceFile -----------------------------
(***************************************************************************)
(* What replace_file_atomically (native_7z/core/filesystem_replace.cpp)    *)
(* may do to a file system, as one step: for its callers, which nobody     *)
(* disturbs.  AtomicReplace has the same function call by call.            *)
(*                                                                         *)
(* A file system is a function from paths to contents or Absent.  Every    *)
(* call may fail where faulty; a rename from a path that does not exist    *)
(* always fails, and a rename onto a file replaces it.                     *)
(***************************************************************************)
CONSTANT Absent

Renamed(files, from, to) == [files EXCEPT ![to] = files[from], ![from] = Absent]
Removed(files, path) == [files EXCEPT ![path] = Absent]

\* What a caller sees of AtomicReplaceResult: backup says that the original
\* is left at backup_path on purpose.
Outcome(files, success, backup) ==
  [files |-> files, success |-> success, backup |-> backup]

\* The destination did not exist.  The error of the rename is overwritten
\* by the probe of the source: only a failing probe makes it a failure.
FreshOutcomes(files, source, destination, faulty) ==
  (IF files[source] # Absent
   THEN {Outcome(Renamed(files, source, destination), TRUE, FALSE)} ELSE {})
  \cup
  (IF files[source] = Absent \/ faulty THEN {Outcome(files, TRUE, FALSE)} ELSE {})
  \cup
  (IF faulty THEN {Outcome(files, FALSE, FALSE),
                   Outcome(Renamed(files, source, destination), FALSE, FALSE)} ELSE {})

\* The destination existed: it is moved aside, replaced, and moved back if
\* that fails.
SwapOutcomes(files, source, destination, backup, keep, faulty) ==
  LET aside == Renamed(files, destination, backup)
      promoted == Renamed(aside, source, destination)
  IN
  (IF files[source] # Absent
   THEN {IF keep THEN Outcome(promoted, TRUE, TRUE)
         ELSE Outcome(Removed(promoted, backup), TRUE, FALSE)} ELSE {})
  \cup
  (IF files[source] = Absent \/ faulty THEN {Outcome(files, FALSE, FALSE)} ELSE {})
  \cup
  (IF faulty
   THEN {Outcome(aside, FALSE, FALSE)} \cup
        (IF files[source] # Absent /\ ~keep
         THEN {Outcome(promoted, TRUE, FALSE)} ELSE {})
   ELSE {})

ReplaceOutcomes(files, source, destination, backup, keep, faulty) ==
  IF files[destination] = Absent
  THEN FreshOutcomes(files, source, destination, faulty) \cup
       (IF faulty THEN {Outcome(files, FALSE, FALSE)} ELSE {})
  ELSE SwapOutcomes(files, source, destination, backup, keep, faulty)
=============================================================================
