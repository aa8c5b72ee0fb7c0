--------------------------- MODULE ExtractEntries ---------------------------
(***************************************************************************)
(* Extracting the files of an archive (native_7z/callbacks and             *)
(* native_7z/operations/operations_extract.cpp).  The 7-Zip handler, which *)
(* is not part of the repository, walks over the entries and calls back:   *)
(* GetStream opens an entry as a partial file next to its destination,     *)
(* SetOperationResult commits or drops it.  When the handler returns,      *)
(* run_extract_on_arc settles what was extracted: budget exceeded, it is   *)
(* rolled back or kept, the backups of overwritten files are removed.      *)
(*                                                                         *)
(* The user may cancel at any time, and in a run on a faulty file system   *)
(* any call of it may fail; there, and where the handler gives up between  *)
(* the two callbacks, it returns with an entry open.  The entries are      *)
(* regular files: directories are created on the way and hold nothing that *)
(* is committed or restored.                                               *)
(***************************************************************************)
EXTENDS Integers, Sequences, ReplaceFile

CONSTANTS Names,         \* the file names of the output directory
          alternatives,  \* make_unique_destination_path: per name, the names tried for it
          Targets,       \* the names that archive entries resolve to
          MaxEntries,    \* bound: the number of entries of an archive
          Modes,         \* the overwrite modes of the instance
          Policies       \* the budget policies of the instance, NoBudget for none

NoBudget == "none"

\* A file is named after its content: an entry by its index, a file that was
\* there before by its name.
Entries == 1..MaxEntries
FileData == Entries \cup Names \cup {Absent}

ASSUME BoundsAssumption == MaxEntries \in Nat \ {0}
ASSUME NamesAssumption ==
  /\ Targets \subseteq Names /\ alternatives \in [Names -> Seq(Names)]
  /\ Names \cap Entries = {} /\ Absent \notin Names \cup Entries
ASSUME RequestAssumption ==
  /\ Modes \subseteq {"ask", "overwrite", "skip", "rename_existing", "rename_extracted"}
  /\ Policies \subseteq {NoBudget, "rollback", "keep_partial", "truncate"}

Final(name) == <<"final", name>>
Partial(k) == <<"partial", k>>
Backup(k) == <<"backup", k>>
NoPath == <<"none", 0>>
FinalPaths == {Final(n) : n \in Names}
Places == FinalPaths \cup {Partial(k) : k \in Entries} \cup {Backup(k) : k \in Entries}

VARIABLES request,       \* what is extracted and how; whether the file system is faulty
          folder,        \* the output directory
          next,          \* the entry that GetStream is called for next
          pending,       \* pending_entry_
          entries,       \* rollback_entries_ and materialized_entries_
          answered,      \* ask_yes_to_all_, ask_no_to_all_
          triggered,     \* budget_triggered_
          cancelled,     \* cancel_requested
          phase,         \* "extracting", "returned" (from Extract), "rolling_back", "finished"
          undo,          \* RollbackAttemptResult, and how many entries are left to undo
          outcome,       \* how the run was settled
          start,         \* history: the output directory before
          consented      \* history: the names the user let be overwritten

extractVars == <<request, folder, next, pending, entries, answered, triggered,
                 cancelled, phase, undo, outcome, start, consented>>

Closed == [entry |-> 0]
PendingType ==
  [entry : Entries, output : FinalPaths, backup : FinalPaths \cup {NoPath},
   hadOriginal : BOOLEAN, renamedOriginal : BOOLEAN, retain : BOOLEAN]
CommittedType ==
  [entry : Entries, output : FinalPaths, backup : Places \cup {NoPath},
   hadOriginal : BOOLEAN, renamedOriginal : BOOLEAN]

ExtractTypeOK ==
  /\ request \in [targets : Seq(Targets), mode : Modes, policy : Policies,
                  maxFiles : Nat, maxBytes : Nat, faults : BOOLEAN]
  /\ Len(request.targets) \in Entries
  /\ folder \in [Places -> FileData]
  /\ next \in 1..MaxEntries + 1
  /\ pending \in PendingType \cup {Closed}
  /\ entries \in Seq(CommittedType)
  /\ answered \in {"open", "yes", "no"}
  /\ triggered \in BOOLEAN /\ cancelled \in BOOLEAN
  /\ phase \in {"extracting", "returned", "rolling_back", "finished"}
  /\ undo \in [left : Nat, ok : BOOLEAN] /\ undo.left <= Len(entries)
  /\ outcome \in {"none", "kept", "rolled_back", "rollback_failed"}
  /\ start \in [Places -> FileData]
  /\ consented \subseteq FinalPaths
  /\ (phase = "finished") = (outcome # "none")

\* Without a budget the limits are out of reach.
Limits(policy) == IF policy = NoBudget THEN {MaxEntries} ELSE 0..MaxEntries

ExtractInit ==
  /\ \E n \in Entries, mode \in Modes, policy \in Policies, faults \in BOOLEAN :
       \E targets \in [1..n -> Targets], mf \in Limits(policy), mb \in Limits(policy) :
         request = [targets |-> targets, mode |-> mode, policy |-> policy,
                    maxFiles |-> mf, maxBytes |-> mb, faults |-> faults]
  /\ \E present \in SUBSET Names :
       folder = [p \in Places |-> IF \E n \in present : p = Final(n) THEN p[2] ELSE Absent]
  /\ next = 1 /\ pending = Closed /\ entries = <<>>
  /\ answered = "open" /\ triggered = FALSE /\ cancelled = FALSE
  /\ phase = "extracting" /\ undo = [left |-> 0, ok |-> TRUE] /\ outcome = "none"
  /\ start = folder /\ consented = {}

-----------------------------------------------------------------------------
(* Operators.                                                              *)

Present(path) == folder[path] # Absent

\* Faulty variant of Free: the first alternative without a look.
FreeUnchecked(name) ==
  IF alternatives[name] = <<>> THEN NoPath ELSE Final(Head(alternatives[name]))

\* make_unique_destination_path: the first alternative that is free.
Free(name) ==
  LET names == alternatives[name]
      first == {i \in DOMAIN names : /\ ~Present(Final(names[i]))
                                     /\ \A j \in 1..i - 1 : Present(Final(names[j]))}
  IN  IF first = {} THEN NoPath ELSE Final(names[CHOOSE i \in first : TRUE])

\* remove_path_any, its error ignored.
RemovedOrNot(fs, path) ==
  {Removed(fs, path)} \cup (IF request.faults THEN {fs} ELSE {})

\* Faulty variant of DroppedWith: the partial file is forgotten.
DroppedPartialStays(p, fs) ==
  IF p.renamedOriginal THEN {Renamed(fs, p.backup, p.output)} ELSE {fs}

\* restore_pending_entry_original_locked: the partial file is removed, an
\* original that was renamed away gets its name back.
DroppedWith(p, fs) ==
  UNION {IF p.renamedOriginal
         THEN {Renamed(g, p.backup, p.output)} \cup (IF request.faults THEN {g} ELSE {})
         ELSE {g} : g \in RemovedOrNot(fs, Partial(p.entry))}

\* rollback_extract_entries for one entry; the calls that fail are given.
Undone(fs, e, removeFails, renameFails) ==
  LET g == IF removeFails THEN fs ELSE Removed(fs, e.output)
  IN  IF ~e.hadOriginal
      THEN [folder |-> g, ok |-> ~removeFails]
      ELSE IF renameFails \/ e.backup = NoPath \/ g[e.backup] = Absent
      THEN [folder |-> g, ok |-> FALSE]
      ELSE [folder |-> Renamed(g, e.backup, e.output), ok |-> TRUE]

\* Faulty variant of NextUndone: the first one first.
NextUndoneForward == entries[Len(entries) + 1 - undo.left]

\* All of them are undone, the last one first.
NextUndone == entries[undo.left]

\* Faulty variant of OverwriteBackups: files renamed on request among them.
AllBackups ==
  {entries[i].backup : i \in {j \in DOMAIN entries :
     entries[j].hadOriginal /\ entries[j].backup # NoPath}}

\* What cleanup_extract_overwrite_backups_best_effort removes.
OverwriteBackups ==
  {entries[i].backup : i \in {j \in DOMAIN entries :
     /\ entries[j].hadOriginal
     /\ ~entries[j].renamedOriginal
     /\ entries[j].backup # NoPath}}

\* check_canceled
Aborted == cancelled \/ triggered

HandlerReturns == phase' = "returned"

-----------------------------------------------------------------------------
(* GetStream                                                               *)

Called == phase = "extracting" /\ pending = Closed /\ next <= Len(request.targets)
OutputPath == Final(request.targets[next])

\* E_ABORT: cancelled, the budget exceeded before or by this entry.
GetStreamAborts ==
  /\ Called
  /\ Aborted \/ next > request.maxFiles
  /\ triggered' = (triggered \/ ~Aborted)
  /\ HandlerReturns
  /\ UNCHANGED <<request, folder, next, pending, entries, answered, cancelled,
                 undo, outcome, start, consented>>

Admitted == Called /\ ~Aborted /\ next <= request.maxFiles

\* The entry is opened as a partial file, or that fails: an original that
\* was renamed away gets its name back, if it can.
Open(output, backup, hadOriginal, fs) ==
  /\ \/ /\ pending' = [entry |-> next, output |-> output, backup |-> backup,
                       hadOriginal |-> hadOriginal,
                       renamedOriginal |-> backup # NoPath,
                       retain |-> request.policy = "rollback" /\ hadOriginal
                                  /\ backup = NoPath]
        /\ folder' = [fs EXCEPT ![Partial(next)] = next]
        /\ UNCHANGED phase
     \/ /\ request.faults
        /\ folder' \in {folder, fs}
        /\ HandlerReturns
        /\ UNCHANGED pending
  /\ next' = next + 1
  /\ UNCHANGED <<request, entries, triggered, cancelled, undo, outcome, start>>

GetStreamNew ==
  /\ Admitted /\ ~Present(OutputPath)
  /\ Open(OutputPath, NoPath, FALSE, folder)
  /\ UNCHANGED <<answered, consented>>

GetStreamSkips ==
  /\ Admitted /\ Present(OutputPath)
  /\ \/ request.mode = "skip" /\ UNCHANGED answered
     \/ /\ request.mode = "ask"
        /\ \/ answered = "no" /\ UNCHANGED answered
           \/ answered = "open" /\ answered' \in {"open", "no"}
  /\ next' = next + 1
  /\ UNCHANGED <<request, folder, pending, entries, triggered, cancelled, phase,
                 undo, outcome, start, consented>>

GetStreamOverwrites ==
  /\ Admitted /\ Present(OutputPath)
  /\ \/ request.mode = "overwrite" /\ UNCHANGED answered
     \/ /\ request.mode = "ask"
        /\ \/ answered = "yes" /\ UNCHANGED answered
           \/ answered = "open" /\ answered' \in {"open", "yes"}
  /\ Open(OutputPath, NoPath, TRUE, folder)
  /\ consented' = consented \cup {OutputPath}

GetStreamRenamesExisting ==
  /\ Admitted /\ Present(OutputPath)
  /\ request.mode = "rename_existing"
  /\ LET aside == Free(request.targets[next]) IN
       /\ aside # NoPath
       /\ Open(OutputPath, aside, TRUE, Renamed(folder, OutputPath, aside))
  /\ UNCHANGED <<answered, consented>>

\* kRenameExtracted, and the answer kAutoRename.
GetStreamRenamesExtracted ==
  /\ Admitted /\ Present(OutputPath)
  /\ \/ request.mode = "rename_extracted"
     \/ request.mode = "ask" /\ answered = "open"
  /\ LET output == Free(request.targets[next]) IN
       output # NoPath /\ Open(output, NoPath, FALSE, folder)
  /\ UNCHANGED <<answered, consented>>

\* The path is unsafe, no name is free, the destination cannot be queried or
\* renamed (E_FAIL); or the user answers kCancel (E_ABORT).
GetStreamFails ==
  /\ Called
  /\ \/ request.faults
     \/ Admitted /\ Present(OutputPath) /\ Free(request.targets[next]) = NoPath /\
        (request.mode \in {"rename_existing", "rename_extracted"})
     \/ Admitted /\ Present(OutputPath) /\ request.mode = "ask" /\ answered = "open"
  /\ HandlerReturns
  /\ UNCHANGED <<request, folder, next, pending, entries, answered, triggered,
                 cancelled, undo, outcome, start, consented>>

-----------------------------------------------------------------------------
(* SetOperationResult                                                      *)

\* The error of restoring is recorded and not acted upon.
Drop(fs) == folder' \in DroppedWith(pending, fs)

\* After a callback: the handler goes on unless check_canceled said E_ABORT.
Continue(aborted) == phase' = IF aborted THEN "returned" ELSE phase

Committed(replaced) ==
  /\ folder' = replaced.files
  /\ entries' = Append(entries,
       [entry |-> pending.entry, output |-> pending.output,
        backup |-> IF replaced.backup THEN Backup(pending.entry) ELSE pending.backup,
        hadOriginal |-> pending.hadOriginal,
        renamedOriginal |-> pending.renamedOriginal])
  /\ triggered' = (triggered \/ Len(entries') > request.maxBytes)
  /\ Continue(cancelled \/ triggered')

\* kOK: the stream is closed and the partial file takes its place.  A failure
\* of either drops the entry and makes the handler give up.
ResultOK ==
  /\ phase = "extracting" /\ pending # Closed
  /\ \E replaced \in ReplaceOutcomes(folder, Partial(pending.entry), pending.output,
                                       Backup(pending.entry), pending.retain, request.faults) :
       \/ replaced.success /\ Committed(replaced)
       \/ /\ request.faults
          /\ Drop(folder) \/ (~replaced.success /\ Drop(replaced.files))
          /\ HandlerReturns
          /\ UNCHANGED <<entries, triggered>>
  /\ pending' = Closed
  /\ UNCHANGED <<request, next, answered, cancelled, undo, outcome, start, consented>>

\* Bad data or a wrong password: the entry is dropped, the handler goes on.
ResultBad ==
  /\ phase = "extracting" /\ pending # Closed
  /\ Drop(folder)
  /\ pending' = Closed
  /\ Continue(Aborted)
  /\ UNCHANGED <<request, next, entries, answered, triggered, cancelled, undo, outcome,
                 start, consented>>

-----------------------------------------------------------------------------
(* The handler, the user and run_extract_on_arc                            *)

\* SetCompleted says E_ABORT or a write fails: the handler returns and the
\* entry stays open.
HandlerGivesUp ==
  /\ phase = "extracting" /\ pending # Closed
  /\ Aborted \/ request.faults
  /\ HandlerReturns
  /\ UNCHANGED <<request, folder, next, pending, entries, answered, triggered,
                 cancelled, undo, outcome, start, consented>>

HandlerEnds ==
  /\ phase = "extracting" /\ pending = Closed /\ next > Len(request.targets)
  /\ HandlerReturns
  /\ UNCHANGED <<request, folder, next, pending, entries, answered, triggered,
                 cancelled, undo, outcome, start, consented>>

Cancel ==
  /\ phase # "finished" /\ ~cancelled
  /\ cancelled' = TRUE
  /\ UNCHANGED <<request, folder, next, pending, entries, answered, triggered,
                 phase, undo, outcome, start, consented>>

\* Nothing but the directory changes any more.
Settling(to) ==
  /\ phase' = to
  /\ UNCHANGED <<request, next, pending, entries, answered, triggered, cancelled, start, consented>>

SettleByRollback ==
  /\ phase = "returned"
  /\ triggered /\ request.policy = "rollback"
  /\ undo' = [left |-> Len(entries), ok |-> TRUE]
  /\ Settling("rolling_back")
  /\ UNCHANGED <<folder, outcome>>

UndoEntry ==
  /\ phase = "rolling_back" /\ undo.left > 0
  /\ \E removeFails, renameFails \in IF request.faults THEN BOOLEAN ELSE {FALSE} :
       LET undone == Undone(folder, NextUndone, removeFails, renameFails) IN
         /\ folder' = undone.folder
         /\ undo' = [left |-> undo.left - 1, ok |-> undo.ok /\ undone.ok]
  /\ Settling("rolling_back")
  /\ UNCHANGED outcome

RollbackEnds ==
  /\ phase = "rolling_back" /\ undo.left = 0
  /\ outcome' = IF undo.ok THEN "rolled_back" ELSE "rollback_failed"
  /\ Settling("finished")
  /\ UNCHANGED <<folder, undo>>

SettleByKeeping ==
  /\ phase = "returned"
  /\ ~(triggered /\ request.policy = "rollback")
  /\ \E removed \in IF request.faults THEN SUBSET OverwriteBackups ELSE {OverwriteBackups} :
       folder' = [p \in Places |-> IF p \in removed THEN Absent ELSE folder[p]]
  /\ outcome' = "kept"
  /\ Settling("finished")
  /\ UNCHANGED undo

ExtractNext ==
  \/ GetStreamAborts \/ GetStreamNew \/ GetStreamSkips \/ GetStreamOverwrites
  \/ GetStreamRenamesExisting \/ GetStreamRenamesExtracted \/ GetStreamFails
  \/ ResultOK \/ ResultBad
  \/ HandlerGivesUp \/ HandlerEnds \/ Cancel
  \/ SettleByRollback \/ UndoEntry \/ RollbackEnds \/ SettleByKeeping

ExtractSpec == ExtractInit /\ [][ExtractNext]_extractVars

-----------------------------------------------------------------------------
(* What it promises.                                                       *)

\* On a file system that works a rollback succeeds and leaves the directory as
\* it was before the run, whatever was overwritten, renamed or extracted twice
\* to one name: "extracted files removed" (operations_extract.cpp:406).
RollbackRestores ==
  outcome \in {"rolled_back", "rollback_failed"} /\ ~request.faults =>
    outcome = "rolled_back" /\ folder = start

\* A file that was there before is still there, under its name or another,
\* unless the user let its name be overwritten and an entry took its place.
\* (Not so once a rollback began on a faulty file system, whatever it reports:
\* the original of an entry that was dropped may have stayed under the name of
\* the output of another, which the rollback removes.)
RollingBack == phase = "rolling_back" \/ outcome \in {"rolled_back", "rollback_failed"}
OriginalsSurvive ==
  ~(RollingBack /\ request.faults) =>
  \A n \in Names : start[Final(n)] = n =>
    \/ \E p \in Places : folder[p] = n
    \/ Final(n) \in consented /\ \E i \in DOMAIN entries : entries[i].output = Final(n)

Debris == {p \in Places \ FinalPaths : folder[p] # Absent}

\* Between two entries and at the end the directory holds no partial file and
\* no backup but those of entries that a rollback may still restore.  (Of a
\* run that does not end with an entry open, on a file system that works.)
NoDebris ==
  pending = Closed /\ ~request.faults =>
    Debris \subseteq IF phase = "finished" THEN {} ELSE OverwriteBackups

\* What is reported as extracted is there, unless a later entry was allowed to
\* overwrite it: archive moves delete the reported entries from the archive
\* (action_file_ops.cpp:18).  (On a file system that works: AtomicReplace has
\* the success that is none.)
ReportedIsExtracted ==
  outcome = "kept" /\ ~request.faults =>
    \A i \in DOMAIN entries :
      \/ \E p \in FinalPaths : folder[p] = entries[i].entry
      \/ \E j \in DOMAIN entries :
           i < j /\ entries[j].output = entries[i].output /\ ~entries[j].renamedOriginal
=============================================================================
