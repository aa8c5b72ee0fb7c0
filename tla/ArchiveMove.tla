----------------------------- MODULE ArchiveMove -----------------------------
(***************************************************************************)
(* Moving between a folder and an archive that a panel shows               *)
(* (main_window/actions/action_file_ops.cpp).  A move is a chain of        *)
(* separate backend tasks, each started by the callback of the one before: *)
(* out of the archive it extracts and then deletes what the extraction     *)
(* reports; into the archive it adds and then deletes the sources; within  *)
(* a folder of the archive it extracts to a temporary directory, adds      *)
(* under the new name and deletes.  Nothing is looked at again in between, *)
(* and other tasks may change the archive meanwhile.                       *)
(*                                                                         *)
(* archive is what the session of the panel holds.  Its directories may    *)
(* have entries of their own or be implied by the entries below them.      *)
(* A behaviour is one request.                                             *)
(***************************************************************************)
EXTENDS Trees, FiniteSets

CONSTANTS MaxExisting,  \* bound: the entries and files before the request
          MaxSelected,  \* bound: the rows of a request
          MaxAdditions  \* bound: the entries that other tasks add

ASSUME ArchiveMoveAssumption ==
  MaxExisting \in Nat /\ MaxSelected \in Nat \ {0} /\ MaxAdditions \in Nat

VARIABLES archive,   \* the entries of the archive
          disk,      \* the file system
          temp,      \* the temporary directory, with the names to be added
          chain,     \* the request and where it is
          additions, \* the entries that other tasks added
          owed,      \* history: the data that nobody agreed to lose
          overreach  \* history: the data deleted though it was not transferred

moveVars == <<archive, disk, temp, chain, additions, owed, overreach>>

NoMove ==
  [op |-> "none", stage |-> "request", move |-> FALSE, selection |-> {}, target |-> Root,
   todo |-> {}, files |-> {}, directories |-> {}, doomed |-> {}]
MoveType ==
  [op : {"none", "out", "in", "same", "rename", "delete"},
   stage : {"request", "extract", "add", "rename", "delete", "unmove", "over", "failed"},
   move : BOOLEAN, selection : SUBSET Paths, target : Paths, todo : SUBSET Paths,
   files : SUBSET Paths, directories : SUBSET Paths, doomed : SUBSET Paths]

\* The data of a file outside of the archive; that of an entry is its path.
Outer(p) == <<other>> \o p
AllData == Data \cup {Outer(p) : p \in Paths}

IsArchive(tree) ==
  Root \notin DOMAIN tree /\ \A p \in DOMAIN tree : CanHold(tree, p)

MoveTypeOK ==
  /\ DOMAIN archive \subseteq Paths /\ IsArchive(archive)
  /\ DOMAIN disk \subseteq Paths /\ IsTree(disk)
  /\ DOMAIN temp \subseteq Paths /\ IsArchive(temp)
  /\ \A tree \in {archive, disk, temp} : \A p \in DOMAIN tree : tree[p] \in AllData \cup {Directory}
  /\ chain \in MoveType
  /\ additions \in 0..MaxAdditions
  /\ owed \subseteq AllData /\ overreach \subseteq AllData

Empty == [p \in {} |-> Directory]

MoveInit ==
  /\ \E entries, exist \in SUBSET (Paths \ {Root}) :
       /\ Cardinality(entries) + Cardinality(exist) <= MaxExisting
       /\ \E d1 \in SUBSET entries, d2 \in SUBSET exist :
            /\ archive = [p \in entries |-> IF p \in d1 THEN Directory ELSE p]
            /\ disk = [p \in exist \cup {Root} |-> IF p \in d2 \cup {Root} THEN Directory ELSE Outer(p)]
  /\ IsArchive(archive) /\ IsTree(disk)
  /\ temp = Empty /\ chain = NoMove /\ additions = 0
  /\ owed = DataIn(archive) \cup DataIn(disk) /\ overreach = {}

-----------------------------------------------------------------------------
(* Requests, from what the panel shows.                                    *)

\* The rows of a folder of the archive, and the entries that a selection matches.
Rows(folder) ==
  {q \in Paths \ {Root} : Front(q) = folder /\ \E e \in DOMAIN archive : Within(q, e)}
Matched(selection) == {e \in DOMAIN archive : \E s \in selection : Within(s, e)}
Above(tree) == UNION {Ancestors(p) : p \in DOMAIN tree}
IsFolder(q) == q \notin DOMAIN archive \/ archive[q] = Directory
Folders == {Root} \cup {q \in Above(archive) : IsFolder(q)}
Few(set) == {s \in SUBSET set : s # {} /\ Cardinality(s) <= MaxSelected}

Begin(request) ==
  /\ chain' = request
  /\ UNCHANGED <<archive, disk, temp, additions, owed, overreach>>

\* run_copy_or_move_archive_context
RequestOut ==
  \E folder \in Folders, into \in Paths :
    \E selection \in Few(Rows(folder)) :
      /\ \A e \in Matched(selection) : into \o e \in Paths
      /\ Begin([NoMove EXCEPT !.op = "out", !.stage = "extract", !.move = TRUE, !.target = into,
                            !.selection = selection, !.todo = Matched(selection)])

\* run_copy_or_move_archive_same_folder.  The new name is not that of a row.
FreeRows(q) == {r \in Paths \ {Root} : Front(r) = Front(q)} \ Rows(Front(q))

RequestSame ==
  \E folder \in Folders, move \in BOOLEAN :
    \E row \in Rows(folder) : \E new \in FreeRows(row) :
      Begin([NoMove EXCEPT !.op = "same", !.stage = "extract", !.move = move,
                         !.selection = {row}, !.target = new])

\* start_rename_archive_entry_in_preview
RequestRename ==
  \E folder \in Folders :
    \E row \in Rows(folder) : \E new \in FreeRows(row) :
      Begin([NoMove EXCEPT !.op = "rename", !.stage = "rename", !.selection = {row}, !.target = new])

\* on_delete_requested
RequestDelete ==
  \E folder \in Folders :
    \E selection \in Few(Rows(folder)) :
      Begin([NoMove EXCEPT !.op = "delete", !.stage = "delete",
                         !.selection = selection, !.doomed = selection])

\* run_filesystem_transfer_to_archive_panel.  Sources that are neither a file nor
\* a directory, a link to nothing for one, are not added, and of two sources with
\* one name, which a flat view has, the first one is.
SameName(p, q) == Last(p) = Last(q)
Addable(sources) ==
  {items \in SUBSET sources : items # {} /\ \A p, q \in items : SameName(p, q) => p = q}
Irregular(sources, items) ==
  {s \in sources \ items : ~\E p \in items : SameName(p, s)}

RequestIn ==
  \E folder \in Folders, move \in BOOLEAN, sources \in Few(DOMAIN disk \ {Root}) :
    \E items \in Addable(sources) :
      /\ \A s \in Irregular(sources, items) : ~IsDirectory(disk, s)
      /\ \A s \in items : \A q \in At(disk, s) : Rebased(q, Front(s), folder) \in Paths
      /\ Begin([NoMove EXCEPT !.op = "in", !.stage = "add", !.move = move, !.target = folder,
                            !.selection = sources, !.todo = items])

-----------------------------------------------------------------------------
(* The tasks.  One that fails ends the chain.                              *)

During(ops, stage) == chain.op \in ops /\ chain.stage = stage

Fails ==
  /\ chain.stage \in {"extract", "add", "rename", "delete"}
  /\ chain' = [chain EXCEPT !.stage = "failed"]
  /\ UNCHANGED <<archive, disk, temp, additions, owed, overreach>>

\* An entry is out: it is reported by its path in the archive.
Out(e) ==
  IF archive[e] = Directory
  THEN [chain EXCEPT !.todo = @ \ {e}, !.directories = @ \cup {e}]
  ELSE [chain EXCEPT !.todo = @ \ {e}, !.files = @ \cup {e}]
PlaceOf(e) == chain.target \o e

ExtractDirectory ==
  \E e \in chain.todo :
    /\ During({"out"}, "extract")
    /\ archive[e] = Directory /\ CanHold(disk, Append(PlaceOf(e), torn))
    /\ disk' = WithParents(disk, Append(PlaceOf(e), torn))
    /\ chain' = Out(e)
    /\ UNCHANGED <<archive, temp, additions, owed, overreach>>

ExtractFile ==
  \E e \in chain.todo :
    /\ During({"out"}, "extract")
    /\ archive[e] # Directory /\ PlaceOf(e) \notin DOMAIN disk /\ CanHold(disk, PlaceOf(e))
    /\ disk' = WithFile(WithParents(disk, PlaceOf(e)), PlaceOf(e), archive[e])
    /\ chain' = Out(e)
    /\ UNCHANGED <<archive, temp, additions, owed, overreach>>

FreeBeside(p) == {q \in Paths : Len(q) = Len(p) /\ Front(q) = Front(p) /\ q \notin DOMAIN disk}

\* Something is where the file goes: it is overwritten, the entry is skipped, or
\* one of the two gets another name.  That is asked for every file, which covers
\* the modes that decide it for all of them.
ExtractConflict ==
  \E e \in chain.todo :
    /\ During({"out"}, "extract")
    /\ archive[e] # Directory /\ PlaceOf(e) \in DOMAIN disk \ {Root}
    /\ \/ /\ disk' = WithFile(Without(disk, At(disk, PlaceOf(e))), PlaceOf(e), archive[e])
          /\ owed' = owed \ DataAt(disk, PlaceOf(e))
          /\ chain' = Out(e)
       \/ /\ chain' = [chain EXCEPT !.todo = @ \ {e}]
          /\ UNCHANGED <<disk, owed>>
       \/ /\ \E q \in FreeBeside(PlaceOf(e)) :
               disk' \in {WithFile(disk, q, archive[e]),
                         WithFile(Renamed(disk, PlaceOf(e), q), PlaceOf(e), archive[e])}
          /\ chain' = Out(e)
          /\ UNCHANGED owed
    /\ UNCHANGED <<archive, temp, additions, overreach>>

DeleteReported(t) == t.files \cup t.directories
DeleteUncovered(t) ==
  {e \in t.files \cup t.directories :
     /\ ~\E d \in t.directories \ {e} : Within(d, e)
     /\ ~\E r \in (t.files \cup t.directories) \ {e} : Within(e, r)}

\* build_archive_move_delete_entries: the files that were reported, and the
\* directories below which nothing was.
DeleteEntries(t) ==
  t.files \cup
  {d \in t.directories : ~\E e \in (t.files \cup t.directories) \ {d} : Within(d, e)}

ToDelete(t) ==
  [t EXCEPT !.stage = IF DeleteEntries(t) = {} THEN "over" ELSE "delete",
            !.doomed = DeleteEntries(t)]

Extracted ==
  /\ During({"out"}, "extract") /\ chain.todo = {}
  /\ chain' = ToDelete(chain)
  /\ UNCHANGED <<archive, disk, temp, additions, owed, overreach>>

\* The trees that are added have all their directories, those above them too.
WithFolders(tree) ==
  [q \in DOMAIN tree \cup (Above(tree) \ {Root}) |->
     IF q \in DOMAIN tree THEN tree[q] ELSE Directory]

ExtractToTemp ==
  /\ During({"same"}, "extract")
  /\ LET out == Matched(chain.selection)
         row == CHOOSE s \in chain.selection : TRUE
     IN /\ temp' = WithFolders(
                     [q \in {Rebased(e, row, chain.target) : e \in out} |->
                        archive[Rebased(q, chain.target, row)]])
        /\ chain' = [chain EXCEPT !.stage = "add",
                                !.files = {e \in out : archive[e] # Directory},
                                !.directories = {e \in out : archive[e] = Directory}]
  /\ UNCHANGED <<archive, disk, additions, owed, overreach>>

\* Entries that are there are replaced.
Fitting(tree) ==
  /\ \A q \in DOMAIN tree : CanHold(archive, q)
  /\ \A q \in DOMAIN tree \cap DOMAIN archive : (tree[q] = Directory) = (archive[q] = Directory)
  /\ \A e \in DOMAIN archive : CanHold(tree, e)
Merged(tree) == [q \in DOMAIN archive \cup DOMAIN tree |->
                   IF q \in DOMAIN tree THEN tree[q] ELSE archive[q]]
Added(tree) ==
  /\ Fitting(tree)
  /\ archive' = Merged(tree)
  /\ owed' = owed \ {archive[q] : q \in DOMAIN archive \cap DOMAIN tree}

AddCopy ==
  /\ During({"same"}, "add")
  /\ Added(temp)
  /\ chain' = IF chain.move THEN ToDelete(chain) ELSE [chain EXCEPT !.stage = "over"]
  /\ UNCHANGED <<disk, temp, additions, overreach>>

\* The sources as they go into the archive.
Sources ==
  WithFolders(
    [q \in UNION {{Rebased(p, Front(s), chain.target) : p \in At(disk, s)} : s \in chain.todo} |->
       LET s == CHOOSE s \in chain.todo : Within(Append(chain.target, Last(s)), q)
       IN disk[Rebased(q, chain.target, Front(s))]])

AddSources ==
  /\ During({"in"}, "add")
  /\ Added(Sources)
  /\ chain' = IF chain.move THEN [chain EXCEPT !.stage = "unmove", !.doomed = chain.selection]
              ELSE [chain EXCEPT !.stage = "over"]
  /\ UNCHANGED <<disk, temp, additions, overreach>>

\* remove, of file system paths: all the sources of the request.
RemoveSource ==
  \E s \in chain.doomed :
    /\ During({"in"}, "unmove")
    /\ \E part \in Parts(disk, s) : disk' = Without(disk, At(disk, s) \ part)
    /\ chain' = IF s \in DOMAIN disk' THEN [chain EXCEPT !.stage = "failed"]
                ELSE [chain EXCEPT !.doomed = @ \ {s}]
    /\ overreach' = IF \E p \in chain.todo : Within(p, s) THEN overreach
                    ELSE overreach \cup {Outer(q) : q \in At(disk, s) \ DOMAIN disk'}
    /\ UNCHANGED <<archive, temp, additions, owed>>

SourcesRemoved ==
  /\ During({"in"}, "unmove") /\ chain.doomed = {}
  /\ chain' = [chain EXCEPT !.stage = "over"]
  /\ UNCHANGED <<archive, disk, temp, additions, owed, overreach>>

\* rename.  It is refused if an entry has the new name by now.
RenameEntry ==
  /\ During({"rename"}, "rename")
  /\ LET row == CHOOSE s \in chain.selection : TRUE
     IN /\ Matched({chain.target}) = {}
        /\ archive' = Renamed(archive, row, chain.target)
  /\ chain' = [chain EXCEPT !.stage = "over"]
  /\ UNCHANGED <<disk, temp, additions, owed, overreach>>

\* What is below a directory that nothing below was transferred of.
Hidden(gone) ==
  {e \in gone : \E d \in chain.directories :
     d # e /\ Within(d, e) /\ ~\E r \in (chain.files \cup chain.directories) \ {d} : Within(d, r)}

\* remove, of archive entries: they match all that is below them.
DeleteFromArchive ==
  /\ chain.stage = "delete"
  /\ LET gone == Matched(chain.doomed)
         data == {archive[e] : e \in gone}
     IN /\ archive' = Without(archive, gone)
        /\ owed' = IF chain.op = "delete" THEN owed \ data ELSE owed
        /\ overreach' = overreach \cup ({archive[e] : e \in Hidden(gone)} \ {Directory})
  /\ chain' = [chain EXCEPT !.stage = "over"]
  /\ UNCHANGED <<disk, temp, additions>>

\* Another task adds an entry to the same archive.
OtherAdds ==
  /\ additions < MaxAdditions /\ chain.stage \notin {"request", "over", "failed"}
  /\ \E p \in Paths \ (DOMAIN archive \cup {Root}) :
       LET tree == WithFolders([q \in {p} |-> Other])
       IN Fitting(tree) /\ archive' = Merged(tree)
  /\ additions' = additions + 1
  /\ owed' = owed \cup {Other}
  /\ UNCHANGED <<disk, temp, chain, overreach>>

-----------------------------------------------------------------------------
Requests ==
  /\ chain = NoMove
  /\ RequestOut \/ RequestSame \/ RequestRename \/ RequestDelete \/ RequestIn

MoveNext ==
  \/ Requests
  \/ Fails
  \/ ExtractDirectory \/ ExtractFile \/ ExtractConflict \/ Extracted
  \/ ExtractToTemp \/ AddCopy \/ AddSources \/ RemoveSource \/ SourcesRemoved
  \/ RenameEntry \/ DeleteFromArchive
  \/ OtherAdds

MoveSpec == MoveInit /\ [][MoveNext]_moveVars

-----------------------------------------------------------------------------
(* Properties.                                                             *)

\* However a move is interleaved with other tasks and wherever it fails, the data
\* of every entry and file is in the archive or in a file, unless it was to be
\* overwritten or deleted, or is of those that a move deletes though it did not
\* transfer them (overreach).
MoveLosesNothing == owed \subseteq DataIn(archive) \cup DataIn(disk) \cup overreach

\* A move that ended has moved: no file that it took out is left in the archive,
\* and no source that it took in is left on disk.
MovedIsGone ==
  chain.stage = "over" /\ chain.move =>
    IF chain.op = "in" THEN \A s \in chain.todo : s \notin DOMAIN disk
    ELSE \A f \in chain.files : f \notin DOMAIN archive
=============================================================================
