----------------------------- MODULE TempFiles -----------------------------
(***************************************************************************)
(* Files of an archive that the file manager extracts to a temporary       *)
(* directory and gives to other programs (open_commands_temp_session.cpp). *)
(* The window waits for the program of a file that is viewed or edited,    *)
(* compares the file with its snapshot, asks, and updates the archive; it  *)
(* counts the programs of files that are opened outside, and removes the   *)
(* directory when the last has ended; what is dragged out stays until the  *)
(* window closes.  Programs end, and write, at any time; a question runs   *)
(* an event loop of its own, in which the ends of other programs are       *)
(* handled; an update runs on a thread of its own, next to the tasks of    *)
(* the panel; and closing the window looks at every file once more.        *)
(*                                                                         *)
(* One panel shows one archive that is in no other (ArchivePanels has the  *)
(* panels), in a session, or without one after a path led into it: then    *)
(* files are extracted from, and updated in, the archive on disk.  A       *)
(* temporary session is also the thread that updates for it.               *)
(***************************************************************************)
EXTENDS ArchiveSessions, FiniteSets, SequencesExt

CONSTANTS TempSessions,  \* the objects ArchiveTempSession, and the threads of their updates
          panelTask,     \* the thread of the panel's tasks, later of the closer
          MaxLaunches,   \* bound: the programs started for one call to open outside
          MaxSaves       \* bound: the times that a program writes its file

ASSUME TempAssumption ==
  /\ Threads = TempSessions \cup {panelTask} /\ panelTask \notin TempSessions
  /\ IsFiniteSet(TempSessions) /\ Cardinality(TempSessions) <= MaxEdits
  /\ MaxLaunches \in Nat \ {0} /\ MaxSaves \in Nat

VARIABLES shown,     \* the session that the panel shows, NoToken if it has none, or Nowhere
          window,    \* how far closing the window has come
          todo,      \* the sessions that closing has still to finalize
          asking,    \* the questions that are open, the last on top
          temp,      \* the temporary sessions
          questions, \* history: the questions asked about a session
          story      \* history: what was found, and what came of it

registry == <<disk, session, registered, call, faults, history>>
allVars == <<registry, shown, window, todo, asking, temp, questions, story>>

\* The times of a file count the writes that a size and a time of modification
\* tell apart; there is no file, or no longer a file, when it was removed.
File == [there |-> TRUE, data |-> 0, time |-> 0]
Nowhere == -1
NoTemp ==
  [stage |-> "none", purpose |-> "edit", token |-> NoToken, file |-> File, snapshot |-> File,
   programs |-> 0, notices |-> 0, pending |-> 0, handled |-> FALSE, doomed |-> FALSE,
   refs |-> {}, base |-> NoFile]
NoStory ==
  [found |-> File, judged |-> FALSE, fate |-> "none", edit |-> 0, written |-> 0,
   replaced |-> FALSE]

FileType == [there : BOOLEAN, data : 0..MaxSaves, time : 0..MaxSaves]
TempType ==
  [stage : {"none", "open", "asking", "starting", "updating", "updated", "failed", "over"},
   purpose : {"edit", "outside", "drag"}, token : Tokens \cup {NoToken},
   file : FileType, snapshot : FileType,
   programs : 0..MaxLaunches, notices : 0..MaxLaunches, pending : 0..MaxLaunches,
   handled : BOOLEAN, doomed : BOOLEAN,
   refs : SUBSET {"window", "process", "poll", "chain"}, base : Contents \cup {NoFile}]

TempTypeOK ==
  /\ TypeOK
  /\ shown \in Tokens \cup {NoToken, Nowhere}
  /\ window \in {"open", "closing", "closed", "gone"}
  /\ todo \subseteq TempSessions
  /\ asking \in Seq(TempSessions)
  /\ temp \in [TempSessions -> TempType]
  /\ questions \in [TempSessions -> Nat]
  /\ story \in [TempSessions ->
       [found : FileType, judged : BOOLEAN,
        fate : {"none", "unchanged", "declined", "missing", "failed", "updated"},
        edit : Edits \cup {0}, written : 0..MaxSaves, replaced : BOOLEAN]]

TempInit ==
  /\ Init
  /\ shown = Nowhere
  /\ window = "open"
  /\ todo = {}
  /\ asking = <<>>
  /\ temp = [s \in TempSessions |-> NoTemp]
  /\ questions = [s \in TempSessions |-> 0]
  /\ story = [s \in TempSessions |-> NoStory]

\* The directory lives as long as someone refers to the session: the window's
\* list, a connection to a process, the update, a poll of process handles.
Directory(s) == temp[s].refs # {}
There(s) == Directory(s) /\ temp[s].file.there

Running == window # "gone"
Asked == asking # <<>>

-----------------------------------------------------------------------------
(* The panel: entering the archive and leaving it.  A question is modal,   *)
(* and the user waits for a task before starting the next.                 *)

UserFree == window = "open" /\ ~Asked /\ Idle(panelTask)
TempUnchanged == UNCHANGED <<window, todo, asking, temp, questions, story>>

Enter ==
  /\ UserFree /\ shown = Nowhere
  /\ \/ OpenRoot(panelTask) /\ shown' = Len(session) + 1
     \/ shown' = NoToken /\ UNCHANGED registry
  /\ TempUnchanged

Leave ==
  /\ UserFree
  /\ \/ Begin(panelTask, "close", shown) /\ UNCHANGED shown
     \/ shown = NoToken /\ shown' = Nowhere /\ UNCHANGED registry
  /\ TempUnchanged

\* Updates that are on disk, and that new content takes away.
Replacing(new) ==
  [s \in TempSessions |->
     IF story[s].edit \in EditsIn(disk) \ EditsIn(new)
     THEN [story[s] EXCEPT !.replaced = TRUE] ELSE story[s]]

\* A close that fails leaves the panel in the archive.
CloseStep ==
  /\ Running
  /\ \/ /\ CloseClean(panelTask) \/ CommitToRoot(panelTask) \/ Fail(panelTask)
        /\ story' = Replacing(disk')
        /\ UNCHANGED shown
     \/ Erase(panelTask) /\ shown' = Nowhere /\ UNCHANGED story
  /\ UNCHANGED <<window, todo, asking, temp, questions>>

-----------------------------------------------------------------------------
(* Extracting and starting programs.  Both ends of the task, the snapshot  *)
(* and the start are one call: the window sees nothing in between.         *)

Fresh(s) == UserFree /\ shown # Nowhere /\ temp[s].stage = "none"
Readable == shown \in registered \cup {NoToken}
Extracted(purpose) ==
  [NoTemp EXCEPT !.stage = "open", !.purpose = purpose, !.token = shown,
                 !.snapshot = File, !.refs = {"window"}]
Launch(s, new) ==
  /\ temp' = [temp EXCEPT ![s] = new]
  /\ UNCHANGED <<registry, shown, window, todo, asking, questions, story>>

\* Extraction or every start failed: nothing is retained.
NotLaunched(s) ==
  /\ Fresh(s)
  /\ Launch(s, [NoTemp EXCEPT !.stage = "over"])

\* The call posts a notice of its own for a process that is found to have ended.
PostedNotices(ended) == ended

ViewOrEdit(s) ==
  /\ Fresh(s) /\ Readable
  /\ \E ended \in 0..1 :
       Launch(s, [Extracted("edit") EXCEPT
                    !.programs = 1 - ended, !.notices = PostedNotices(ended),
                    !.refs = @ \cup {"process"}])

\* Those that were started, maybe none of them with something to wait for: as a
\* QProcess, or on Windows as a handle that a timer polls.
OpenOutside(s) ==
  /\ Fresh(s) /\ Readable
  /\ \E tracked \in 0..MaxLaunches, how \in {"process", "poll"} :
     \E ended \in 0..tracked :
       Launch(s, [Extracted("outside") EXCEPT
                    !.programs = tracked - ended, !.notices = PostedNotices(ended),
                    !.pending = tracked,
                    !.refs = @ \cup (IF tracked = 0 THEN {} ELSE {how})])

DragOut(s) ==
  /\ Fresh(s) /\ Readable
  /\ Launch(s, Extracted("drag"))

-----------------------------------------------------------------------------
(* Other programs.  One that was started by the program that is waited for *)
(* may write for as long as there is a directory.                          *)

OutsideUnchanged == UNCHANGED <<registry, shown, window, todo, asking, questions, story>>

Save(s) ==
  /\ Running /\ Directory(s) /\ temp[s].purpose = "edit"
  /\ temp[s].file.data < MaxSaves
  /\ \E time \in {temp[s].file.time, temp[s].file.time + 1} :
       temp' = [temp EXCEPT ![s].file =
                  [there |-> TRUE, data |-> @.data + 1, time |-> time]]
  /\ OutsideUnchanged

RemoveFile(s) ==
  /\ Running /\ Directory(s) /\ temp[s].purpose = "edit" /\ temp[s].file.there
  /\ temp' = [temp EXCEPT ![s].file.there = FALSE]
  /\ OutsideUnchanged

EndProgram(s) ==
  /\ Running /\ temp[s].programs > 0
  /\ temp' = [temp EXCEPT ![s].programs = @ - 1, ![s].notices = @ + 1]
  /\ OutsideUnchanged

-----------------------------------------------------------------------------
(* What the window does.                                                   *)

HandledUnlatched(t) == [t EXCEPT !.doomed = TRUE]

\* process_finished_handled is set, and the process is deleted later.
Handled(t) == [t EXCEPT !.handled = TRUE, !.doomed = TRUE]

\* release_archive_temp_session
Released(t) == [Handled(t) EXCEPT !.stage = "over", !.refs = @ \ {"window"}]

ChangedExistence(t) == t.file.there # t.snapshot.there

\* archive_temp_file_snapshot_changed
Changed(t) ==
  \/ t.file.there # t.snapshot.there
  \/ t.file.there /\ t.file.time # t.snapshot.time

\* on_archive_temp_session_process_finished, for t, the session s with the
\* notice taken.
Finished(s, t) ==
  IF t.handled
  THEN temp' = [temp EXCEPT ![s] = t] /\ UNCHANGED <<asking, questions, story>>
  ELSE /\ temp' = [temp EXCEPT ![s] =
                     IF Changed(t) THEN [Handled(t) EXCEPT !.stage = "asking"] ELSE Released(t)]
       /\ asking' = IF Changed(t) THEN Append(asking, s) ELSE asking
       /\ questions' = IF Changed(t) THEN [questions EXCEPT ![s] = @ + 1] ELSE questions
       /\ story' = [story EXCEPT ![s].found = t.file, ![s].judged = TRUE,
                                 ![s].fate = IF Changed(t) THEN @ ELSE "unchanged"]

DrainedAtFirst(t) == Released(t)

\* on_open_outside_temp_session_tracking_finished
Drained(t) ==
  LET pending == IF t.pending > 0 THEN t.pending - 1 ELSE 0
  IN CASE t.handled -> t
       [] ~t.handled /\ pending = 0 -> Released([t EXCEPT !.pending = 0])
       [] OTHER -> [t EXCEPT !.pending = pending]

\* A signal, a posted call, or a tick of the timer.
Notice(s) ==
  /\ Running /\ temp[s].notices > 0
  /\ LET t == [temp[s] EXCEPT !.notices = @ - 1]
     IN \/ t.purpose = "edit" /\ Finished(s, t)
        \/ /\ t.purpose = "outside"
           /\ temp' = [temp EXCEPT ![s] = Drained(t)]
           /\ UNCHANGED <<asking, questions, story>>
  /\ UNCHANGED <<registry, shown, window, todo>>

\* deleteLater waits for the loop it was called in; a process that still runs is
\* killed with its object, and is not heard of.
DeleteProcess(s) ==
  /\ Running /\ temp[s].doomed /\ s \notin ToSet(asking) /\ "process" \in temp[s].refs
  /\ temp' = [temp EXCEPT ![s].refs = @ \ {"process"}, ![s].programs = 0, ![s].notices = 0]
  /\ OutsideUnchanged

\* The question on top is answered: no or cancel, or yes, and then the file has
\* to be there.
Answer ==
  /\ Asked
  /\ LET s == Last(asking)
         Tell(fate) == /\ temp' = [temp EXCEPT ![s] = Released(@)]
                       /\ story' = [story EXCEPT ![s].fate = fate]
     IN \/ Tell("declined")
        \/ ~There(s) /\ Tell("missing")
        \/ /\ There(s)
           /\ temp' = [temp EXCEPT ![s].stage = "starting", ![s].refs = @ \cup {"chain"}]
           /\ UNCHANGED story
  /\ asking' = Front(asking)
  /\ UNCHANGED <<registry, shown, window, todo, questions>>

-----------------------------------------------------------------------------
(* The update: one call of the backend on a thread of its own, whose end   *)
(* is posted to the window.                                                *)

\* Without a session the format comes from the name of the archive.
StartUpdate(s) ==
  /\ Running /\ temp[s].stage = "starting"
  /\ \/ Begin(s, "add", temp[s].token) /\ temp' = [temp EXCEPT ![s].stage = "updating"]
     \/ /\ temp[s].token \notin registered
        /\ temp' = [temp EXCEPT ![s].stage = "failed"]
        /\ UNCHANGED registry
     \/ /\ temp[s].token = NoToken
        /\ temp' = [temp EXCEPT ![s].stage = "updating", ![s].base = disk]
        /\ UNCHANGED registry
  /\ UNCHANGED <<shown, window, todo, asking, questions, story>>

AnyOutcome(ok) == "updated"

\* on_single_update_finished: the stage that the outcome of the call leads to.
Outcome(ok) == IF ok THEN "updated" ELSE "failed"

Told(s, e) == [story EXCEPT ![s].edit = e, ![s].written = temp[s].file.data]

Update(s) ==
  /\ Running /\ temp[s].stage = "updating"
  /\ \/ /\ There(s) /\ Add(s)
        /\ temp' = [temp EXCEPT ![s].stage = Outcome(acked' # acked)]
        /\ story' = Told(s, CHOOSE e \in Edits : via'[e] # via[e])
     \/ /\ Fail(s)
        /\ temp' = [temp EXCEPT ![s].stage = "failed"]
        /\ UNCHANGED story
     \/ /\ ~There(s) /\ Doing(s, "add") /\ Return(s)
        /\ temp' = [temp EXCEPT ![s].stage = "failed"]
        /\ UNCHANGED <<disk, session, registered, faults, history, story>>
  /\ UNCHANGED <<shown, window, todo, asking, questions>>

\* The edits that no session made count from the last.
NextDirect(e) ==
  LET taken == Made \cup {story[s].edit : s \in TempSessions}
  IN e \notin taken /\ \A other \in Edits \ taken : other <= e

\* Without a session: the archive is read, and then replaced, whatever it is then.
UpdateDisk(s) ==
  /\ Running /\ temp[s].stage = "updating" /\ temp[s].token = NoToken
  /\ \/ /\ There(s)
        /\ \E e \in Edits :
             /\ NextDirect(e)
             /\ disk' = WithEdit(temp[s].base, 0, e)
             /\ story' = [Replacing(disk') EXCEPT ![s] = Told(s, e)[s]]
        /\ temp' = [temp EXCEPT ![s].stage = Outcome(TRUE)]
        /\ UNCHANGED faults
     \/ /\ faults < MaxFaults \/ ~There(s)
        /\ faults' = IF There(s) THEN faults + 1 ELSE faults
        /\ temp' = [temp EXCEPT ![s].stage = Outcome(FALSE)]
        /\ UNCHANGED <<disk, story>>
  /\ UNCHANGED <<session, registered, call, history, shown, window, todo, asking, questions>>

\* Released first, then told that it failed, or the panel is loaded again.
Updated(s) ==
  /\ Running /\ temp[s].stage \in {"updated", "failed"}
  /\ temp' = [temp EXCEPT ![s] = [Released(temp[s]) EXCEPT !.refs = @ \ {"chain"}]]
  /\ story' = [story EXCEPT ![s].fate = temp[s].stage]
  /\ UNCHANGED <<registry, shown, window, todo, asking, questions>>

-----------------------------------------------------------------------------
(* Closing the window, which no question may cover.                        *)

CloseWindow ==
  /\ UserFree
  /\ window' = "closing"
  /\ todo' = {s \in TempSessions : "window" \in temp[s].refs}
  /\ UNCHANGED <<registry, shown, asking, temp, questions, story>>

\* finalize_archive_temp_session, one session after the other of a copy of the
\* list: the call waits for the question it asked.
Finalize(s) ==
  /\ window = "closing" /\ ~Asked /\ s \in todo
  /\ todo' = todo \ {s}
  /\ \/ temp[s].purpose = "edit" /\ Finished(s, temp[s])
     \/ /\ temp[s].purpose # "edit"
        /\ temp' = [temp EXCEPT ![s] = Released(@)]
        /\ UNCHANGED <<asking, questions, story>>
  /\ UNCHANGED <<registry, shown, window>>

\* Then the session of the panel goes to the closer.  Updates may still run.
DispatchClose ==
  /\ window = "closing" /\ ~Asked /\ todo = {}
  /\ window' = "closed"
  /\ shown' = Nowhere
  /\ \/ Begin(panelTask, "close", shown)
     \/ shown \notin registered /\ UNCHANGED registry
  /\ UNCHANGED <<todo, asking, temp, questions, story>>

\* The last window is closed: the event loop ends and the process exits,
\* whatever its threads are doing.
Quit ==
  /\ window = "closed" /\ ~Asked
  /\ window' = "gone"
  /\ UNCHANGED <<registry, shown, todo, asking, temp, questions, story>>

-----------------------------------------------------------------------------
Starts(s) == NotLaunched(s) \/ ViewOrEdit(s) \/ OpenOutside(s) \/ DragOut(s)
Programs(s) == Save(s) \/ RemoveFile(s) \/ EndProgram(s)
Handlers(s) ==
  \/ Notice(s) \/ DeleteProcess(s)
  \/ StartUpdate(s) \/ Update(s) \/ UpdateDisk(s) \/ Updated(s)

TempNext ==
  \/ Enter \/ Leave \/ CloseStep
  \/ \E s \in TempSessions : Starts(s) \/ Programs(s) \/ Handlers(s) \/ Finalize(s)
  \/ Answer \/ CloseWindow \/ DispatchClose \/ Quit

TempSpec == TempInit /\ [][TempNext]_allVars

-----------------------------------------------------------------------------
(* Properties.                                                             *)

\* The end of a program is heard from a signal, a posted call and the closing
\* window, also while a question about it is open: the user is asked once about
\* a file, and it is judged once.
AskedOnce ==
  [][\A s \in TempSessions :
       story[s].judged => story'[s].found = story[s].found /\ questions'[s] = questions[s]]_allVars

\* The directory of a session stays for its programs and no longer.  While the
\* window is open no program that it waits for is killed with its process object
\* or left without its directory since another one of the session ended; and when
\* all have ended, also before anyone listened, the window has given the directory
\* up, or has a notice, a question or an update from which it will.
Ended(s) == temp[s].programs = 0 /\ temp[s].refs \cap {"process", "poll"} # {}

KeptForPrograms ==
  \A s \in TempSessions :
    /\ window = "open" /\ temp[s].programs > 0 => "window" \in temp[s].refs /\ ~temp[s].doomed
    /\ Running /\ Ended(s) =>
         \/ temp[s].refs \cap {"window", "chain"} = {}
         \/ temp[s].notices > 0
         \/ temp[s].stage \in {"asking", "starting", "updating", "updated", "failed"}

\* A file that its program had written or removed is not dropped without a word:
\* the user declined, or was told that the update failed, or the update wrote what
\* was found or what came after.  Not so of a write that changes neither size nor
\* time.
NothingLostSilently ==
  \A s \in TempSessions :
    LET found == story[s].found
    IN temp[s].stage = "over" /\ story[s].judged /\ (~found.there \/ found.time # 0) =>
         \/ story[s].fate \in {"declined", "missing", "failed"}
         \/ story[s].fate = "updated" /\ story[s].written >= found.data

\* What the window takes for an update is one: while the process lives, it is in
\* the archive, or in a session that is open and will commit it.  Not so if it
\* met the close of its session, which no lock prevents, or if it reached the
\* disk and someone who had read the archive before replaced it.
UpdatesKept ==
  Running =>
    \A s \in TempSessions :
      story[s].fate = "updated" /\ story[s].edit \notin excused /\ ~story[s].replaced =>
        \/ story[s].edit \in EditsIn(disk)
        \/ \E t \in registered : session[t].dirty /\ story[s].edit \in EditsIn(session[t].file)
=============================================================================
