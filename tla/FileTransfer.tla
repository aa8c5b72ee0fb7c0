---------------------------- MODULE FileTransfer ----------------------------
(***************************************************************************)
(* Copying, moving, deleting, renaming and creating files                  *)
(* (native_7z/info/info_fs_ops.cpp and the file system part of remove), as *)
(* the file manager asks for it: by the copy dialog, which refuses to copy *)
(* a file onto itself and then asks before it overwrites, by a drop, which *)
(* overwrites, and by Delete, Rename and Create.  A move copies and then   *)
(* removes the source, also on one volume.  Each call into the file system *)
(* may fail, a recursive one after a part of its work; another program may *)
(* create files in the meantime.                                           *)
(*                                                                         *)
(* A behaviour is one request: requests share nothing but the files, and   *)
(* Init has every tree of the bound.                                       *)
(***************************************************************************)
EXTENDS Trees, FiniteSets

CONSTANTS MaxSources,  \* bound: the paths of a request
          MaxWrites    \* bound: the files another program creates

ASSUME FileTransferAssumption == MaxSources \in Nat \ {0} /\ MaxWrites \in Nat

VARIABLES fs,      \* the file system, without the recycle bin
          bin,     \* the data in the recycle bin
          task,    \* the request and where it is
          writes,  \* the files another program created
          kept,    \* history: the data that nobody agreed to lose
          taken    \* history: the paths that were moved away, or renamed, as asked

vars == <<fs, bin, task, writes, kept, taken>>

Modes == {"ask", "overwrite", "skip", "rename_extracted", "rename_existing"}
TaskType ==
  [op : {"none", "copy", "move", "delete", "recycle", "rename", "create"},
   stage : {"next", "ask", "replace", "copy", "unmove", "open", "ok", "failed", "canceled"},
   sources : BoundedSeq(Paths, MaxSources), into : Paths, as : Paths, mode : Modes,
   sticky : {"none", "yes_to_all", "no_to_all"}, dst : Paths, backup : Paths]
NoTask ==
  [op |-> "none", stage |-> "next", sources |-> <<>>, into |-> Root, as |-> NoPath,
   mode |-> "ask", sticky |-> "none", dst |-> NoPath, backup |-> NoPath]

TypeOK ==
  /\ DOMAIN fs \subseteq Paths /\ IsTree(fs)
  /\ \A p \in DOMAIN fs : fs[p] \in Data \cup {Directory}
  /\ bin \subseteq Data
  /\ task \in TaskType
  /\ writes \in 0..MaxWrites
  /\ kept \subseteq Data /\ taken \subseteq Paths

\* Before the request: a tree that leaves room for a copy one level further down.
Init ==
  /\ \E exist \in SUBSET {p \in Paths : Len(p) < MaxDepth} :
       \E directories \in SUBSET exist :
         fs = [p \in exist |-> IF p \in directories THEN Directory ELSE p]
  /\ IsTree(fs)
  /\ bin = {} /\ task = NoTask /\ writes = 0
  /\ kept = DataIn(fs) /\ taken = {}

-----------------------------------------------------------------------------
(* The request.                                                            *)

Requested(op, sources, into, as, mode) ==
  [NoTask EXCEPT !.op = op, !.sources = sources, !.into = into, !.as = as, !.mode = mode]

DestinationOf(request, source) ==
  IF request.as # NoPath THEN request.as ELSE Append(request.into, Last(source))

\* Bound: a copy is within Paths, but for what a copy into itself leaves.
Fits(tree, request) ==
  \A i \in DOMAIN request.sources :
    \A q \in At(tree, request.sources[i]) :
      Rebased(q, request.sources[i], DestinationOf(request, request.sources[i])) \in Paths

Selections == {s \in BoundedSeq(DOMAIN fs \ {Root}, MaxSources) : s # <<>> /\ IsInjective(s)}

\* run_copy_or_move: paths_refer_to_same_existing_entry is asked of every source.
Screened(request) ==
  \A i \in DOMAIN request.sources : DestinationOf(request, request.sources[i]) # request.sources[i]

\* The dialog: into a directory, which is made, or one source to a new path.
ByDialog(request) ==
  /\ request.mode = "ask"
  /\ Screened(request)
  /\ IF request.as = NoPath
     THEN CanHold(fs, Append(request.into, torn))
     ELSE Len(request.sources) = 1 /\ ~IsDirectory(fs, request.as) /\ CanHold(fs, request.as)

\* A drop: into a directory that is there.
ByDrop(request) ==
  request.mode = "overwrite" /\ request.as = NoPath /\ IsDirectory(fs, request.into)

\* The other modes are not asked for by the file manager; the backend has them.
ByCaller(request) ==
  /\ request.mode \in {"skip", "rename_extracted", "rename_existing"}
  /\ request.as = NoPath /\ IsDirectory(fs, request.into)

Transfer ==
  /\ task = NoTask
  /\ \E op \in {"copy", "move"}, sources \in Selections, mode \in Modes :
       \E into \in Paths, as \in Paths :
         /\ into = Root \/ as = NoPath
         /\ task' = Requested(op, sources, into, as, mode)
         /\ Fits(fs, task')
         /\ ByDialog(task') \/ ByDrop(task') \/ ByCaller(task')
         /\ fs' = IF mode # "ask" THEN fs
                  ELSE WithParents(fs, IF as = NoPath THEN Append(into, torn) ELSE as)
  /\ UNCHANGED <<bin, writes, kept, taken>>

Delete ==
  /\ task = NoTask
  /\ \E op \in {"delete", "recycle"}, sources \in Selections :
       task' = Requested(op, sources, Root, NoPath, "ask")
  /\ UNCHANGED <<fs, bin, writes, kept, taken>>

\* start_rename_filesystem_item_for_panel: the new name is free when it is asked for.
Rename ==
  /\ task = NoTask
  /\ \E source \in DOMAIN fs \ {Root}, as \in Paths \ DOMAIN fs :
       /\ Front(as) = Front(source)
       /\ task' = Requested("rename", <<source>>, Root, as, "ask")
  /\ UNCHANGED <<fs, bin, writes, kept, taken>>

\* on_create_folder_requested, on_create_file_requested: into the directory shown.
Create ==
  /\ task = NoTask
  /\ \E p \in Paths \ {Root} :
       /\ IsDirectory(fs, Front(p))
       /\ task' = Requested("create", <<p>>, Root, NoPath, "ask")
  /\ UNCHANGED <<fs, bin, writes, kept, taken>>

-----------------------------------------------------------------------------
(* run_filesystem_transfer_batch: one source after the other, up to the    *)
(* first that fails.                                                       *)

Source == Head(task.sources)
Destination == DestinationOf(task, Source)
On(ops, stage) == task.op \in ops /\ task.stage = stage /\ task.sources # <<>>
Transfers == {"copy", "move"}

End(stage) == task' = [task EXCEPT !.stage = stage]
Go(stage, dst) == task' = [task EXCEPT !.stage = stage, !.dst = dst]
NextSource ==
  [task EXCEPT !.stage = "next", !.sources = Tail(@), !.dst = NoPath, !.backup = NoPath]

\* The data at a path may be lost: it is overwritten or deleted as asked.
Give(p) == kept' = kept \ DataAt(fs, p)

Succeed ==
  /\ task.op # "none" /\ task.stage = "next" /\ task.sources = <<>>
  /\ End("ok")
  /\ UNCHANGED <<fs, bin, writes, kept, taken>>

Cancel ==
  /\ On({"copy", "move", "delete", "recycle", "rename", "create"}, "next")
  /\ End("canceled")
  /\ UNCHANGED <<fs, bin, writes, kept, taken>>

SourceMissing ==
  /\ On(Transfers, "next") /\ Source \notin DOMAIN fs
  /\ End("failed")
  /\ UNCHANGED <<fs, bin, writes, kept, taken>>

DestinationFree ==
  /\ On(Transfers, "next") /\ Source \in DOMAIN fs /\ Destination \notin DOMAIN fs
  /\ Go("copy", Destination)
  /\ UNCHANGED <<fs, bin, writes, kept, taken>>

Conflict(stage) ==
  On(Transfers, stage) /\ (stage = "next" => Source \in DOMAIN fs /\ Destination \in DOMAIN fs)

Asked(sticky) == Conflict("next") /\ task.mode = "ask" /\ task.sticky = sticky

SkipForgotten == task' = [task EXCEPT !.stage = "unmove"]
Skip == task' = NextSource

SkipExisting ==
  /\ (Conflict("next") /\ task.mode = "skip") \/ Asked("no_to_all")
  /\ Skip
  /\ UNCHANGED <<fs, bin, writes, kept, taken>>

OverwriteExisting ==
  /\ (Conflict("next") /\ task.mode = "overwrite") \/ Asked("yes_to_all")
  /\ Go("replace", Destination)
  /\ Give(Destination)
  /\ UNCHANGED <<fs, bin, writes, taken>>

\* make_unique_destination_path: a name that is free; which one does not matter.
FreeNames(p) == {q \in Paths : Len(q) = Len(p) /\ Front(q) = Front(p) /\ q \notin DOMAIN fs}

RenameCopy ==
  /\ Conflict("next") /\ task.mode = "rename_extracted"
  /\ \/ \E q \in FreeNames(Destination) : Go("copy", q)
     \/ End("failed")
  /\ UNCHANGED <<fs, bin, writes, kept, taken>>

RenameExisting ==
  /\ Conflict("next") /\ task.mode = "rename_existing"
  /\ \/ \E q \in FreeNames(Destination) :
          /\ fs' = Renamed(fs, Destination, q)
          /\ task' = [task EXCEPT !.stage = "copy", !.dst = Destination, !.backup = q]
          /\ taken' = taken \cup {Destination}
     \/ End("failed") /\ UNCHANGED <<fs, taken>>
  /\ UNCHANGED <<bin, writes, kept>>

Ask ==
  /\ Asked("none")
  /\ End("ask")
  /\ UNCHANGED <<fs, bin, writes, kept, taken>>

Stick(sticky) == [task EXCEPT !.sticky = sticky]

Answer ==
  /\ Conflict("ask")
  /\ \/ \E sticky \in {"none", "yes_to_all"} :
          /\ task' = [Stick(sticky) EXCEPT !.stage = "replace", !.dst = Destination]
          /\ Give(Destination)
     \/ /\ \E sticky \in {"none", "no_to_all"} : task' = [NextSource EXCEPT !.sticky = sticky]
        /\ UNCHANGED kept
     \/ /\ \/ \E q \in FreeNames(Destination) \cup ({Destination} \ DOMAIN fs) : Go("copy", q)
           \/ End("failed")
           \/ End("canceled")
        /\ UNCHANGED kept
  /\ UNCHANGED <<fs, bin, writes, taken>>

\* remove_path_any, of which a part may be done.
Removed(p) == {Without(fs, At(fs, p) \ part) : part \in Parts(fs, p) \ {{}}}

Replace ==
  /\ On(Transfers, "replace")
  /\ \/ fs' = Without(fs, At(fs, task.dst)) /\ End("copy")
     \/ fs' \in Removed(task.dst) /\ End("failed")
  /\ UNCHANGED <<bin, writes, kept, taken>>

\* Nothing is put where something is, and a directory that is copied into itself
\* never ends.
CanCopy ==
  /\ Source \in DOMAIN fs /\ task.dst \notin DOMAIN fs
  /\ CanHold(fs, task.dst)
  /\ ~Within(Source, task.dst)

Copied(part) == WithPart(WithParents(fs, task.dst), part, fs, Source, task.dst)

AfterCopyRemove == [task EXCEPT !.stage = "unmove"]
AfterCopy == IF task.op = "move" THEN [task EXCEPT !.stage = "unmove"] ELSE NextSource

\* Bound: the copy is within Paths.
CopySource ==
  /\ On(Transfers, "copy") /\ CanCopy
  /\ \A q \in At(fs, Source) : Rebased(q, Source, task.dst) \in Paths
  /\ fs' = Copied(At(fs, Source))
  /\ task' = AfterCopy
  /\ taken' = IF task.op = "move" THEN taken \cup {Source} ELSE taken
  /\ UNCHANGED <<bin, writes, kept>>

\* What a failed copy leaves: some files, the last of them perhaps in part.
PartlyCopied ==
  IF Source \notin DOMAIN fs \/ task.dst \in DOMAIN fs \/ ~CanHold(fs, task.dst) THEN {fs}
  ELSE UNION {LET done == Copied(part)
                  files == {q \in At(done, task.dst) : done[q] # Directory}
              IN {done} \cup {[done EXCEPT ![q] = Torn] : q \in files} :
                part \in {part \in Parts(fs, Source) :
                            \A q \in part : Rebased(q, Source, task.dst) \in Paths}}

\* An existing file that was renamed gets its name back if that is still free.
Restored(tree) ==
  IF task.backup = NoPath \/ task.dst \in DOMAIN tree THEN {tree}
  ELSE {tree, Renamed(tree, task.backup, task.dst)}

CopyFails ==
  /\ On(Transfers, "copy")
  /\ \E tree \in PartlyCopied : fs' \in Restored(tree)
  /\ End("failed")
  /\ UNCHANGED <<bin, writes, kept, taken>>

RemoveMoved ==
  /\ On(Transfers, "unmove")
  /\ \/ fs' = Without(fs, At(fs, Source)) /\ task' = NextSource
     \/ fs' \in Removed(Source) /\ End("failed")
  /\ UNCHANGED <<bin, writes, kept, taken>>

-----------------------------------------------------------------------------
(* remove, of file system paths.  A path that is gone is deleted.          *)

DeletePath ==
  /\ On({"delete"}, "next")
  /\ \/ fs' = Without(fs, At(fs, Source)) /\ task' = NextSource
     \/ fs' \in Removed(Source) /\ End("failed")
  /\ Give(Source)
  /\ UNCHANGED <<bin, writes, taken>>

\* Copied to the bin and removed in part: then the copy is removed, and with it
\* all that is left of what is not there any more.
RecycleUndone ==
  /\ fs' \in Removed(Source) /\ End("failed")
  /\ kept' = kept \ (DataIn(fs) \ DataIn(fs'))
  /\ UNCHANGED <<bin, taken>>

\* move_path_to_recycle_bin: renamed, or copied to another volume and removed.
RecyclePath ==
  /\ On({"recycle"}, "next")
  /\ \/ /\ fs' = Without(fs, At(fs, Source))
        /\ bin' = bin \cup DataAt(fs, Source)
        /\ task' = NextSource
        /\ taken' = taken \cup {Source}
        /\ UNCHANGED kept
     \/ End("failed") /\ UNCHANGED <<fs, bin, kept, taken>>
     \/ RecycleUndone
  /\ UNCHANGED writes

-----------------------------------------------------------------------------
(* rename and create: one call each.  Neither asks again what is there.    *)

\* A file replaces a file, and a directory an empty one.
Replaceable(p, q) ==
  q \in DOMAIN fs => At(fs, q) = {q} /\ IsDirectory(fs, p) = IsDirectory(fs, q)

RenamePath ==
  /\ On({"rename"}, "next")
  /\ \/ /\ Source \in DOMAIN fs /\ Replaceable(Source, task.as)
        /\ fs' = Renamed(Without(fs, {task.as}), Source, task.as)
        /\ task' = NextSource
        /\ taken' = taken \cup {Source}
     \/ End("failed") /\ UNCHANGED <<fs, taken>>
  /\ UNCHANGED <<bin, writes, kept>>

CreateDirectory ==
  /\ On({"create"}, "next") /\ Source \notin DOMAIN fs /\ CanHold(fs, Source)
  /\ fs' = WithParents(fs, Append(Source, torn))
  /\ task' = NextSource
  /\ UNCHANGED <<bin, writes, kept, taken>>

\* A file is created if nothing has its name, its parents before that.
CreateChecks ==
  /\ On({"create"}, "next")
  /\ \/ Source \notin DOMAIN fs /\ CanHold(fs, Source) /\ fs' = WithParents(fs, Source) /\ End("open")
     \/ End("failed") /\ UNCHANGED fs
  /\ UNCHANGED <<bin, writes, kept, taken>>

\* The file is opened for writing, which truncates one that came in between.
CreateFile ==
  /\ On({"create"}, "open")
  /\ \/ /\ ~IsDirectory(fs, Source) /\ CanHold(fs, Source)
        /\ fs' = WithFile(fs, Source, Torn) /\ task' = NextSource
     \/ End("failed") /\ UNCHANGED fs
  /\ UNCHANGED <<bin, writes, kept, taken>>

-----------------------------------------------------------------------------
(* Another program creates a file.  What it puts into a source while that  *)
(* is removed is lost, as is what it puts under a destination that is      *)
(* replaced, or under a name that was free and is about to be used.        *)

Doomed(p) ==
  \/ task.op = "rename" /\ task.as = p
  \/ task.stage = "open" /\ Source = p
  \/ task.op \in {"move", "delete", "recycle"} /\ task.sources # <<>> /\ Within(Source, p)
  \/ task.stage = "replace" /\ Within(task.dst, p)

OtherWrites ==
  /\ writes < MaxWrites
  /\ \E p \in Paths \ (DOMAIN fs \cup {Root}) :
       /\ IsDirectory(fs, Front(p))
       /\ fs' = WithFile(fs, p, Other)
       /\ task.op \in Transfers => Fits(fs', task)
       /\ kept' = IF Doomed(p) THEN kept ELSE kept \cup {Other}
  /\ writes' = writes + 1
  /\ UNCHANGED <<bin, task, taken>>

-----------------------------------------------------------------------------
Next ==
  \/ Transfer \/ Delete \/ Rename \/ Create
  \/ Succeed \/ Cancel \/ SourceMissing \/ DestinationFree
  \/ SkipExisting \/ OverwriteExisting \/ RenameCopy \/ RenameExisting \/ Ask \/ Answer
  \/ Replace \/ CopySource \/ CopyFails \/ RemoveMoved
  \/ DeletePath \/ RecyclePath
  \/ RenamePath \/ CreateDirectory \/ CreateChecks \/ CreateFile
  \/ OtherWrites

Spec == Init /\ [][Next]_vars

-----------------------------------------------------------------------------
(* Properties.                                                             *)

\* Whatever fails, is cancelled or comes in between, the data of every file that
\* was there, or that another program put there, is in some file or in the
\* recycle bin, unless it was to be overwritten or deleted: a source is removed
\* after it was copied in full, an existing file that is in the way is only
\* replaced after a yes.
NothingLost == kept \subseteq DataIn(fs) \cup bin

\* A file stays where it was unless it was moved in full or had to be renamed:
\* what is skipped, what a failure or a cancel comes before, and an existing
\* file that was renamed for a copy that then failed before it put anything there.
StaysInPlace ==
  \A p \in kept \ {Other} :
    (\A t \in taken : ~Within(t, p)) => p \in DOMAIN fs /\ fs[p] = p
=============================================================================
