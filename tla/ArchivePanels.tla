--------------------------- MODULE ArchivePanels ---------------------------
(***************************************************************************)
(* The two panels of the file manager (ui/filemanager/src/main_window) and *)
(* the archive sessions they hold.  A panel in an archive view shows one   *)
(* session and keeps a stack of frames, the sessions it is nested in; both *)
(* panels may hold the same sessions.  Entering, leaving and changing an   *)
(* archive are tasks of the user interface: chains of backend calls, each  *)
(* started by the callback of the one before, any of which may fail.       *)
(* Closing the window hands all sessions to a closer that outlives it.     *)
(*                                                                         *)
(* The user waits for a task before starting the next.  Every view shows   *)
(* the root directory of its archive, where ".." leaves it.                *)
(***************************************************************************)
EXTENDS ArchiveSessions, FiniteSets, SequencesExt

CONSTANTS worker,  \* the thread of the current task
          closer   \* DetachedArchiveSessionCloser

ASSUME ThreadsAssumption == Threads = {worker, closer} /\ worker # closer

VARIABLES panel,    \* the archive state of the panels
          task,     \* the task of the user interface
          closing,  \* tokens_ of the closer, from next_token_index_ on
          torn,     \* history: panels one of whose tasks failed halfway, or that took
                    \* the frames of such a panel
          displaced \* history: sessions that a reload put out of a panel

registry == <<disk, session, registered, call, faults, history>>
allVars == <<registry, panel, task, closing, torn, displaced>>

Panels == 1..2
Outside == [in |-> FALSE, current |-> NoToken, stack |-> <<>>]
PanelType ==
  [in : BOOLEAN, current : Tokens \cup {NoToken}, stack : Seq(Tokens \cup {NoToken})]

\* A task closes the sessions in todo, opens one, and loads the view; "discard"
\* closes a session that could not be shown.
NoTask ==
  [kind |-> "none", panel |-> 1, stage |-> "closing", todo |-> {}, view |-> Outside]
TaskType ==
  [kind : {"none", "root", "nest", "up", "leave", "prefix", "bind", "add", "discard", "shutdown"},
   panel : Panels, stage : {"closing", "opening", "loading"},
   todo : SUBSET Tokens, view : PanelType]

PanelsTypeOK ==
  /\ TypeOK
  /\ panel \in [Panels -> PanelType]
  /\ task \in TaskType
  /\ closing \in Seq(Tokens)
  /\ torn \subseteq Panels
  /\ displaced \subseteq Tokens

PanelsInit ==
  /\ Init
  /\ panel = [p \in Panels |-> Outside]
  /\ task = NoTask
  /\ closing = <<>>
  /\ torn = {}
  /\ displaced = {}

Held(p) == ({panel[p].current} \cup ToSet(panel[p].stack)) \ {NoToken}

\* archive_session_token_referenced_outside_panel
ReferencedNever(p, t) == FALSE
Referenced(p, t) == \E q \in Panels \ {p} : panel[q].in /\ t \in Held(q)

\* close_archive_view_for_panel: the session shown and its frames, without those
\* that the other panel references.
ToClose(p) == {t \in Held(p) : ~Referenced(p, t)}

\* They are closed from the session shown outwards.  A frame is of the level that is
\* its place in the stack.
Outermost(tokens) == {t \in tokens : \A u \in tokens : session[t].level <= session[u].level}
Innermost(tokens) == {t \in tokens : \A u \in tokens : session[u].level <= session[t].level}

-----------------------------------------------------------------------------
(* Starting a task: the part that runs at once.                            *)

Start(kind, p, stage, todo, view) ==
  /\ task = NoTask
  /\ task' = [kind |-> kind, panel |-> p, stage |-> stage, todo |-> todo, view |-> view]
  /\ UNCHANGED <<registry, closing, torn, displaced>>

Leave(p) ==
  /\ panel[p].in
  /\ Start("leave", p, "closing", ToClose(p), Outside)
  /\ UNCHANGED panel

\* An archive of the file system, and one that a path goes into, which is shown
\* without a session.
Enter(p) ==
  /\ \E kind \in {"root", "prefix"} :
       Start(kind, p, "closing", ToClose(p), [Outside EXCEPT !.in = TRUE])
  /\ UNCHANGED panel

Nest(p) ==
  /\ panel[p].in /\ panel[p].current # NoToken
  /\ Start("nest", p, "opening", {}, panel[p])
  /\ UNCHANGED panel

ParentView(q) == [panel[q] EXCEPT !.current = Last(panel[q].stack), !.stack = Front(@)]

\* begin_return_to_parent_archive.  The view of the task is the parent's.
Up(p) ==
  /\ panel[p].in /\ panel[p].stack # <<>>
  /\ LET leaving == panel[p].current
         parent == Last(panel[p].stack)
         keep == leaving \in {NoToken, parent} \/ Referenced(p, leaving)
     IN /\ Start("up", p, "closing", IF keep THEN {} ELSE {leaving}, ParentView(p))
        /\ panel' = [panel EXCEPT ![p].stack = Front(@)]

\* The other panel shows the archive of a panel, or the one it is nested in.
BindViews(q) == {panel[q]} \cup (IF panel[q].stack = <<>> THEN {} ELSE {ParentView(q)})

Bind(p) ==
  /\ \E q \in Panels \ {p} :
       /\ panel[q].in
       /\ \E view \in BindViews(q) :
            view.current # NoToken /\ Start("bind", p, "closing", ToClose(p), view)
  /\ UNCHANGED panel

AddTo(p) ==
  /\ panel[p].in /\ panel[p].current # NoToken
  /\ Start("add", p, "opening", {}, panel[p])
  /\ UNCHANGED panel

-----------------------------------------------------------------------------
(* What the callbacks do.                                                  *)

At(kinds, stage) == task.kind \in kinds /\ task.stage = stage

\* The task fails: up puts its frame back.  What was closed stays closed.
RolledBack ==
  IF task.kind = "up" THEN [panel EXCEPT ![task.panel].stack = Append(@, task.view.current)]
  ELSE panel

Failed ==
  LET p == task.panel
      held == ({RolledBack[p].current} \cup ToSet(RolledBack[p].stack)) \ {NoToken}
  IN /\ panel' = RolledBack
     /\ task' = NoTask
     /\ torn' = IF held \subseteq registered THEN torn ELSE torn \cup {p}

\* close_archive_sessions_async: one close after the other, up to the first
\* that fails.
StartClose ==
  /\ task.stage = "closing" /\ Idle(worker)
  /\ \E t \in Innermost(task.todo) :
       \/ Begin(worker, "close", t) /\ UNCHANGED <<panel, task, torn>>
       \/ t \notin registered /\ Failed /\ UNCHANGED registry
  /\ UNCHANGED <<closing, displaced>>

StepClose ==
  /\ task.stage = "closing" /\ call[worker].op = "close"
  /\ \/ /\ CloseClean(worker) \/ CommitToParent(worker) \/ CommitToRoot(worker)
        /\ IF call'[worker] = NoCall THEN Failed ELSE UNCHANGED <<panel, task, torn>>
     \/ /\ Refuse(worker) \/ Fail(worker)
        /\ Failed
     \/ /\ Erase(worker)
        /\ task' = [task EXCEPT !.todo = @ \ {call[worker].token}]
        /\ UNCHANGED <<panel, torn>>
  /\ UNCHANGED <<closing, displaced>>

\* Everything is closed.
Closed ==
  /\ task.kind \notin {"none", "shutdown"}
  /\ task.stage = "closing" /\ task.todo = {} /\ Idle(worker)
  /\ task' = CASE task.kind = "root" -> [task EXCEPT !.stage = "opening"]
               [] task.kind \in {"prefix", "bind", "up"} -> [task EXCEPT !.stage = "loading"]
               [] OTHER -> NoTask
  /\ IF task.kind \in {"leave", "root", "prefix", "bind"}
     THEN panel' = [panel EXCEPT ![task.panel] = Outside]
     ELSE UNCHANGED panel
  /\ torn' = IF task.kind \in {"leave", "root", "prefix", "bind"} THEN torn \ {task.panel} ELSE torn
  /\ UNCHANGED <<registry, closing, displaced>>

\* The session is open: its view is loaded, and a nested one is pushed.
OpenedView(t) ==
  [task EXCEPT !.stage = "loading", !.view = [in |-> TRUE, current |-> t, stack |-> @.stack]]

OpenRootOf ==
  /\ At({"root"}, "opening")
  /\ \/ OpenRoot(worker) /\ task' = OpenedView(Len(session) + 1)
     \/ task' = NoTask /\ UNCHANGED registry
  /\ UNCHANGED <<panel, closing, torn, displaced>>

OpenNestedOf ==
  /\ At({"nest"}, "opening")
  /\ \/ /\ Idle(worker) /\ Begin(worker, "open", task.view.current)
        /\ UNCHANGED <<panel, task>>
     \/ /\ OpenNested(worker)
        /\ panel' = [panel EXCEPT ![task.panel].stack = Append(@, panel[task.panel].current)]
        /\ task' = OpenedView(Len(session) + 1)
     \/ /\ Refuse(worker) \/ Fail(worker)
        /\ task' = NoTask
        /\ UNCHANGED panel
     \/ /\ task.view.current \notin registered
        /\ task' = NoTask
        /\ UNCHANGED <<registry, panel>>
  /\ UNCHANGED <<closing, torn, displaced>>

\* reload_matching_archive_writeback_panels: a panel that shows the same archive
\* is loaded again, from the session that was changed.
Matching(t) == {p \in Panels : panel[p].in /\ Len(panel[p].stack) = session[t].level}

Reload(t) ==
  \E shown \in SUBSET Matching(t) :
    /\ panel' = [p \in Panels |->
                   IF p \in shown THEN [panel[p] EXCEPT !.current = t] ELSE panel[p]]
    /\ displaced' = displaced \cup ({panel[p].current : p \in shown} \ {t, NoToken})

Change ==
  /\ At({"add"}, "opening")
  /\ \/ Idle(worker) /\ Begin(worker, "add", task.view.current) /\ UNCHANGED <<panel, task, displaced>>
     \/ /\ Add(worker)
        /\ task' = NoTask
        /\ IF acked' = acked THEN UNCHANGED <<panel, displaced>> ELSE Reload(task.view.current)
     \/ /\ Refuse(worker) \/ Fail(worker)
        /\ task' = NoTask
        /\ UNCHANGED <<panel, displaced>>
     \/ /\ task.view.current \notin registered
        /\ task' = NoTask
        /\ UNCHANGED <<registry, panel, displaced>>
  /\ UNCHANGED <<closing, torn>>

Listed == task.view.current = NoToken \/ task.view.current \in registered

\* apply_archive_list_result_for_panel.  bind takes the other panel's frames.
Loaded ==
  /\ task.stage = "loading" /\ Listed
  /\ panel' = [panel EXCEPT
       ![task.panel] = [in |-> TRUE, current |-> task.view.current,
                        stack |-> IF task.kind = "bind" THEN task.view.stack ELSE @.stack]]
  /\ task' = NoTask
  /\ torn' = IF task.kind = "bind" /\ torn # {} THEN torn \cup {task.panel} ELSE torn
  /\ UNCHANGED <<registry, closing, displaced>>

DiscardForgotten(t) == NoTask
Discard(t) == [NoTask EXCEPT !.kind = "discard", !.panel = task.panel, !.todo = {t}]

NotLoaded ==
  /\ task.stage = "loading"
  /\ CASE task.kind = "root" ->
            task' = Discard(task.view.current) /\ UNCHANGED <<panel, torn>>
       [] task.kind = "nest" ->
            /\ task' = Discard(task.view.current)
            /\ panel' = [panel EXCEPT ![task.panel].stack = Front(@)]
            /\ UNCHANGED torn
       [] OTHER -> Failed
  /\ UNCHANGED <<registry, closing, displaced>>

-----------------------------------------------------------------------------
(* Closing the window.                                                     *)

Valid(tokens) == SelectSeq(tokens, LAMBDA t : t # NoToken)
Distinct(tokens) ==
  FoldLeft(LAMBDA seen, t : IF t \in ToSet(seen) THEN seen ELSE Append(seen, t), <<>>, tokens)

\* clear_archive_view_state hands the tokens over: of each panel the session
\* shown, then the frames, the outermost first.
ShutdownOrder == Distinct(Valid(<<panel[1].current>> \o panel[1].stack \o
                                <<panel[2].current>> \o panel[2].stack))

Shutdown ==
  /\ task = NoTask
  /\ closing' = ShutdownOrder
  /\ task' = [NoTask EXCEPT !.kind = "shutdown"]
  /\ panel' = [p \in Panels |-> Outside]
  /\ UNCHANGED <<registry, torn, displaced>>

\* Whether a close succeeds is not asked.
CloserStep ==
  /\ \/ /\ closing # <<>> /\ Idle(closer)
        /\ \/ Begin(closer, "close", Head(closing)) /\ UNCHANGED closing
           \/ Head(closing) \notin registered /\ closing' = Tail(closing) /\ UNCHANGED registry
     \/ /\ CloseClean(closer) \/ CommitToParent(closer) \/ CommitToRoot(closer)
        /\ closing' = IF call'[closer] = NoCall THEN Tail(closing) ELSE closing
     \/ /\ Erase(closer) \/ Refuse(closer) \/ Fail(closer)
        /\ closing' = Tail(closing)
  /\ UNCHANGED <<panel, task, torn, displaced>>

-----------------------------------------------------------------------------
Starts(p) == Leave(p) \/ Enter(p) \/ Nest(p) \/ Up(p) \/ Bind(p) \/ AddTo(p)

PanelsNext ==
  \/ \E p \in Panels : Starts(p)
  \/ StartClose \/ StepClose \/ Closed
  \/ OpenRootOf \/ OpenNestedOf \/ Change \/ Loaded \/ NotLoaded
  \/ Shutdown \/ CloserStep

PanelsSpec == PanelsInit /\ [][PanelsNext]_allVars

-----------------------------------------------------------------------------
(* Properties.                                                             *)

Quiet == task = NoTask

\* Whatever failed on the way, an open session is one that some panel holds:
\* nothing is left open that nobody will ever close and commit.  A session
\* that a reload put out of its panel is the exception: it stays open for good.
HeldSessions ==
  Quiet /\ displaced = {} =>
    registered \subseteq UNION {Held(p) : p \in {p \in Panels : panel[p].in}}

\* Panels close sessions from the inside out, also when they share some of
\* them or close them in part: an open session has an open parent, so that its
\* changes have somewhere to go.
ParentsStayOpen ==
  task.kind # "shutdown" /\ displaced = {} =>
    \A t \in registered : Nested(t) => session[t].parent \in registered

\* No task of one panel closes a session that the other one shows or has in
\* its frames.
SharedSessionsKept ==
  \A p \in Panels :
    panel[p].in /\ p \notin torn /\ (task.kind \in {"none", "add"} \/ task.panel # p) =>
       Held(p) \subseteq registered
=============================================================================
