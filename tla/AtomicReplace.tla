---------------------------- MODULE AtomicReplace ----------------------------
(***************************************************************************)
(* replace_file_atomically (native_7z/core/filesystem_replace.cpp), the    *)
(* way every archive update, comment edit, nested writeback, session       *)
(* commit and extracted file reaches its destination: one file system call *)
(* a step.  Any call may fail, the process may die between two calls, and  *)
(* other processes replace the same destination before, after or in the    *)
(* middle.                                                                 *)
(*                                                                         *)
(* Backup paths of different calls differ: they end in a clock reading and *)
(* are probed for.  The new content a replacer brings is named after it.   *)
(***************************************************************************)
EXTENDS Naturals, FiniteSets, ReplaceFile

CONSTANTS Replacers,    \* the calls, each in a process of its own
          Paths,
          Destination,  \* the path they replace
          sourceOf,     \* the temporary file with the new content
          backupOf,     \* the backup path make_unique_sibling_path returns
          Original,     \* the content of the destination before
          Faults        \* whether a file system call may fail

ASSUME PathsAssumption ==
  /\ Destination \in Paths
  /\ sourceOf \in [Replacers -> Paths \ {Destination}]
  /\ backupOf \in [Replacers -> Paths \ {Destination}]
  /\ \A r, q \in Replacers :
       /\ sourceOf[r] # backupOf[q]
       /\ r # q => sourceOf[r] # sourceOf[q] /\ backupOf[r] # backupOf[q]
ASSUME ContentsAssumption ==
  Original \notin Replacers /\ Absent \notin Replacers \cup {Original}
ASSUME FaultsAssumption == Faults \in BOOLEAN

VARIABLES files,   \* the file system
          pc,      \* per replacer: its next call
          keep,    \* AtomicReplaceOptions::preserve_backup_on_success
          result,  \* AtomicReplaceResult, the flags
          before,  \* history: per replacer, the file system when its call began
          disturbed \* history: the replacers that others acted in the middle of

vars == <<files, pc, keep, result, before, disturbed>>

Contents == Replacers \cup {Original}

NoResult == [success |-> FALSE, restoreFailed |-> FALSE, retained |-> FALSE]

\* A backup is left on purpose only by a success, a restore is tried only by
\* a failure.
ResultType ==
  {report \in [success : BOOLEAN, restoreFailed : BOOLEAN, retained : BOOLEAN] :
     /\ report.retained => report.success
     /\ report.restoreFailed => ~report.success}

TypeOK ==
  /\ files \in [Paths -> Contents \cup {Absent}]
  /\ pc \in [Replacers -> {"probe", "create", "probe_source", "allocate", "aside",
                           "promote", "cleanup", "restore", "done", "dead"}]
  /\ keep \in [Replacers -> BOOLEAN]
  /\ result \in [Replacers -> ResultType]
  /\ before \in [Replacers -> [Paths -> Contents \cup {Absent}]]
  /\ disturbed \subseteq Replacers

Init ==
  /\ \E old \in {Original, Absent}, ready \in SUBSET Replacers :
       files = [p \in Paths |->
                  IF p = Destination THEN old
                  ELSE IF \E r \in ready : sourceOf[r] = p
                  THEN CHOOSE r \in ready : sourceOf[r] = p
                  ELSE Absent]
  /\ pc = [r \in Replacers |-> "probe"]
  /\ keep \in [Replacers -> BOOLEAN]
  /\ result = [r \in Replacers |-> NoResult]
  /\ before = [r \in Replacers |-> files]
  /\ disturbed = {}

\* The replacers in the middle of their calls.
Underway == {q \in Replacers : pc[q] \notin {"probe", "done", "dead"}}

\* A step of r, which everybody else who is under way may notice.
Goto(r, place) ==
  /\ pc' = [pc EXCEPT ![r] = place]
  /\ disturbed' = disturbed \cup (Underway \ {r})

\* The call ends with success set or not.
Return(r, success) ==
  Goto(r, "done") /\ result' = [result EXCEPT ![r].success = success]

Exists(path) == files[path] # Absent

\* A rename that works, and one that does not.
Move(from, to) == Exists(from) /\ files' = Renamed(files, from, to)
MoveFails(from) == (Faults \/ ~Exists(from)) /\ UNCHANGED files

-----------------------------------------------------------------------------
(* Faulty variants of the operators below, one plausible slip each.        *)

CleanupFirst(r) ==
  /\ pc[r] = "promote"
  /\ files' = Removed(files, backupOf[r])
  /\ Goto(r, "cleanup")
  /\ UNCHANGED <<keep, result, before>>

RestoreForgotten(r) ==
  /\ pc[r] = "restore"
  /\ Return(r, FALSE)
  /\ UNCHANGED <<files, keep, before>>

AsideUnchecked(r) ==
  /\ pc[r] = "aside"
  /\ \/ Move(Destination, backupOf[r])
     \/ MoveFails(Destination)
  /\ Goto(r, "promote")
  /\ UNCHANGED <<keep, result, before>>

-----------------------------------------------------------------------------
ProbeDestination(r) ==
  /\ pc[r] = "probe"
  /\ before' = [before EXCEPT ![r] = files]
  /\ \/ Goto(r, IF Exists(Destination) THEN "allocate" ELSE "create") /\ UNCHANGED result
     \/ Faults /\ Return(r, FALSE)
  /\ UNCHANGED <<files, keep>>

\* The destination did not exist: its error code is set or not, and not
\* looked at before the next probe.
Create(r) ==
  /\ pc[r] = "create"
  /\ Move(sourceOf[r], Destination) \/ MoveFails(sourceOf[r])
  /\ Goto(r, "probe_source")
  /\ UNCHANGED <<keep, result, before>>

\* The probe for source_exists reports into the same error code.
ProbeSource(r) ==
  /\ pc[r] = "probe_source"
  /\ Return(r, TRUE) \/ (Faults /\ Return(r, FALSE))
  /\ UNCHANGED <<files, keep, before>>

AllocateBackup(r) ==
  /\ pc[r] = "allocate"
  /\ \/ Goto(r, "aside") /\ UNCHANGED result
     \/ Faults /\ Return(r, FALSE)
  /\ UNCHANGED <<files, keep, before>>

MoveAside(r) ==
  /\ pc[r] = "aside"
  /\ \/ Move(Destination, backupOf[r]) /\ Goto(r, "promote") /\ UNCHANGED result
     \/ MoveFails(Destination) /\ Return(r, FALSE)
  /\ UNCHANGED <<keep, before>>

Promote(r) ==
  /\ pc[r] = "promote"
  /\ \/ Move(sourceOf[r], Destination) /\ Goto(r, "cleanup")
     \/ MoveFails(sourceOf[r]) /\ Goto(r, "restore")
  /\ UNCHANGED <<keep, result, before>>

Cleanup(r) ==
  /\ pc[r] = "cleanup"
  /\ Goto(r, "done")
  /\ result' = [result EXCEPT ![r] = [@ EXCEPT !.success = TRUE, !.retained = keep[r]]]
  /\ \/ ~keep[r] /\ files' = Removed(files, backupOf[r])
     \/ (keep[r] \/ Faults) /\ UNCHANGED files
  /\ UNCHANGED <<keep, before>>

Restore(r) ==
  /\ pc[r] = "restore"
  /\ \/ Move(backupOf[r], Destination) /\ Return(r, FALSE)
     \/ /\ MoveFails(backupOf[r])
        /\ Goto(r, "done")
        /\ result' = [result EXCEPT ![r].restoreFailed = TRUE]
  /\ UNCHANGED <<keep, before>>

Crash(r) ==
  /\ pc[r] \notin {"done", "dead"}
  /\ Goto(r, "dead")
  /\ UNCHANGED <<files, keep, result, before>>

Next ==
  \E r \in Replacers :
    \/ ProbeDestination(r) \/ Create(r) \/ ProbeSource(r) \/ AllocateBackup(r)
    \/ MoveAside(r) \/ Promote(r) \/ Cleanup(r) \/ Restore(r) \/ Crash(r)

Spec == Init /\ [][Next]_vars

-----------------------------------------------------------------------------
(* What it promises.                                                       *)

Copies(fs) == {p \in {Destination} \cup {backupOf[r] : r \in Replacers} : fs[p] # Absent}

\* Where there was a file there is one: whoever fails, dies or competes, no
\* step takes the last complete copy from the destination and the backup
\* paths.
CopySurvives == [][Copies(files) # {} => Copies(files') # {}]_vars

\* A call returns that nobody acted in the middle of.
EndsUndisturbed(r) == pc[r] # "done" /\ pc'[r] = "done" /\ r \notin disturbed

\* An undisturbed call that ends in failure leaves the destination as it found
\* it, or says that the restore failed and has left the original at the backup
\* path; also when other calls have failed, died or stopped on the way.
FailureKeepsOriginal ==
  [][\A r \in Replacers :
       EndsUndisturbed(r) /\ ~result'[r].success /\ before'[r][Destination] # Absent =>
         \/ files'[Destination] = before'[r][Destination]
         \/ /\ result'[r].restoreFailed
            /\ files'[backupOf[r]] = before'[r][Destination]]_vars

\* An undisturbed call ends in one of the outcomes that ReplaceFile lists for
\* its callers.
OutcomeIsListed ==
  [][\A r \in Replacers : EndsUndisturbed(r) =>
       Outcome(files', result'[r].success, result'[r].retained) \in
         ReplaceOutcomes(before'[r], sourceOf[r], Destination, backupOf[r],
                            keep[r], Faults)]_vars
=============================================================================
