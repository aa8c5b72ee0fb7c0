-------------------------- MODULE ArchiveSessions --------------------------
(***************************************************************************)
(* The registry of open archives (native_7z/session).  A root session      *)
(* reads an archive file; a nested session reads an entry of its parent    *)
(* session.  Nothing is written in place: the first change of a session    *)
(* materialises a private file, changes go there and make the session      *)
(* dirty, and closing a dirty session commits that file, a nested one into *)
(* its parent (which makes the parent dirty), a root one over the archive  *)
(* on disk.  The registry locks its map, not the sessions: calls of two    *)
(* threads meet on one session between their steps.                        *)
(*                                                                         *)
(* There is one archive file, with at most one archive nested in each      *)
(* archive.  Data is the set of edits it contains.  Every call into the    *)
(* file system or into 7-Zip may fail.                                     *)
(***************************************************************************)
EXTENDS Integers, Sequences

CONSTANTS Threads,    \* the threads that call the backend
          Depth,      \* the levels of archives in archives
          MaxTokens,  \* bound: the sessions opened
          MaxEdits,   \* bound: the changes made
          MaxFaults   \* bound: the calls that fail

ASSUME BoundsAssumption ==
  Depth \in Nat \ {0} /\ MaxTokens \in Nat /\ MaxEdits \in Nat /\ MaxFaults \in Nat

Levels == 0..Depth - 1
Tokens == 1..MaxTokens
Edits == 1..MaxEdits
NoToken == 0
NoEdits == {}

\* The data of an archive of level l: the edits in it, and in the archives in it.
Contents == UNION {[l..m -> SUBSET Edits] : l \in Levels, m \in Levels}
NoFile == <<>>

EditsIn(content) == UNION {content[l] : l \in DOMAIN content}
Inner(content, l) == [k \in {k \in DOMAIN content : k >= l} |-> content[k]]
WithInner(content, inner, l) ==
  [k \in {k \in DOMAIN content : k < l} \cup DOMAIN inner |->
     IF k < l THEN content[k] ELSE inner[k]]
WithEdit(content, l, e) == [content EXCEPT ![l] = @ \cup {e}]
WithoutInner(content, l) == [k \in {l} |-> content[l]]

VARIABLES disk,        \* the archive file
          session,     \* the session objects, by token
          registered,  \* the keys of sessions_
          call,        \* what each thread does
          faults,      \* the calls that failed
          via,         \* history: the session each edit was made in
          acked,       \* history: the edits reported as made
          excused      \* history: the edits that a user should not expect to be kept

vars == <<disk, session, registered, call, faults, via, acked, excused>>
history == <<via, acked, excused>>

SessionType ==
  [level : Levels, parent : Tokens \cup {NoToken}, view : Contents,
   file : Contents \cup {NoFile}, buffered : BOOLEAN, dirty : BOOLEAN]
NoCall == [op |-> "none", token |-> NoToken, stage |-> "returned"]
CallType ==
  [op : {"open", "add", "drop", "close"}, token : Tokens, stage : {"found", "committed"}]

TypeOK ==
  /\ disk \in Contents
  /\ session \in Seq(SessionType)
  /\ Len(session) <= MaxTokens
  /\ registered \subseteq DOMAIN session
  /\ call \in [Threads -> CallType \cup {NoCall}]
  /\ \A w \in Threads : call[w].token \in DOMAIN session \cup {NoToken}
  /\ faults \in 0..MaxFaults
  /\ via \in [Edits -> DOMAIN session \cup {NoToken}]
  /\ acked \subseteq Edits /\ excused \subseteq Edits

Init ==
  /\ disk = [l \in Levels |-> NoEdits]
  /\ session = <<>>
  /\ registered = {}
  /\ call = [w \in Threads |-> NoCall]
  /\ faults = 0
  /\ via = [e \in Edits |-> NoToken]
  /\ acked = {} /\ excused = {}

Idle(w) == call[w] = NoCall
Found(op, t) == [op |-> op, token |-> t, stage |-> "found"]
Return(w) == call' = [call EXCEPT ![w] = NoCall]

-----------------------------------------------------------------------------
(* Opening.  A session that fails to open was never registered.            *)

Opened(level, parent, view, file, buffered) ==
  [level |-> level, parent |-> parent, view |-> view, file |-> file,
   buffered |-> buffered, dirty |-> FALSE]

Register(w, new) ==
  /\ session' = Append(session, new)
  /\ registered' = registered \cup {Len(session) + 1}
  /\ Return(w)

OpenRoot(w) ==
  /\ Idle(w) /\ Len(session) < MaxTokens
  /\ Register(w, Opened(0, NoToken, disk, NoFile, FALSE))
  /\ UNCHANGED <<disk, faults, history>>

\* A call on a token starts by looking it up; one that does not find it fails.
Begin(w, op, t) ==
  /\ Idle(w) /\ t \in registered
  /\ call' = [call EXCEPT ![w] = Found(op, t)]
  /\ UNCHANGED <<disk, session, registered, faults, history>>

Doing(w, op) == call[w].stage = "found" /\ call[w].op = op

EntryFound(p) == session[p].level + 1 \in DOMAIN session[p].view

\* From a stream of the parent, from memory, or from an extracted file.
OpenNested(w) ==
  /\ Doing(w, "open") /\ Len(session) < MaxTokens
  /\ LET p == call[w].token
         l == session[p].level + 1
         inner == Inner(session[p].view, l)
     IN /\ EntryFound(p)
        /\ \/ Register(w, Opened(l, p, inner, NoFile, FALSE))
           \/ Register(w, Opened(l, p, inner, NoFile, TRUE))
           \/ Register(w, Opened(l, p, inner, inner, FALSE))
  /\ UNCHANGED <<disk, faults, history>>

-----------------------------------------------------------------------------
(* Changing.                                                               *)

Nested(t) == session[t].parent # NoToken

CanMaterialize(t) ==
  \/ session[t].file # NoFile
  \/ session[t].buffered
  \/ Nested(t) => session[t].level \in DOMAIN session[session[t].parent].view

\* The bytes that the private file of a session starts from.
Material(t) ==
  CASE session[t].file # NoFile -> session[t].file
    [] session[t].file = NoFile /\ session[t].buffered -> session[t].view
    [] session[t].file = NoFile /\ ~session[t].buffered /\ Nested(t) ->
         Inner(session[session[t].parent].view, session[t].level)
    [] session[t].file = NoFile /\ ~session[t].buffered /\ ~Nested(t) -> disk

ReopenedWithoutFile(s, content) ==
  [s EXCEPT !.view = content, !.file = NoFile, !.buffered = FALSE]
Reopened(s, content) == [s EXCEPT !.view = content, !.file = content, !.buffered = FALSE]

Materialized(t) ==
  IF session[t].file # NoFile THEN session[t] ELSE Reopened(session[t], Material(t))
Unrefreshed(t, new) == [Materialized(t) EXCEPT !.file = new, !.dirty = TRUE]

\* Where a write to a materialised session may end: not changed, changed but
\* not reopened, done.
WriteOutcomes(t, new) ==
  {outcome \in {[session |-> Materialized(t), ok |-> FALSE],
                [session |-> Unrefreshed(t, new), ok |-> FALSE],
                [session |-> Reopened(Unrefreshed(t, new), new), ok |-> TRUE]} :
     ~outcome.ok => faults < MaxFaults}

Counted(outcome) == faults' = IF outcome.ok THEN faults ELSE faults + 1

\* Written while or after the session is erased.
Raced(t) ==
  \/ t \notin registered
  \/ \E w \in Threads : call[w].op = "close" /\ call[w].token = t /\ call[w].stage = "committed"

RacedEdits(t, new) == IF Raced(t) THEN EditsIn(new) \ EditsIn(Material(t)) ELSE {}

Made == {e \in Edits : via[e] # NoToken}
NextEdit(e) == e \notin Made /\ \A other \in Edits \ Made : e <= other

\* A call is refused, whatever happens, if the entry it opens or deletes is not
\* there, if what it writes to cannot be materialised, or if the session it
\* commits to is closed.
Servable(w) ==
  LET t == call[w].token
  IN CASE call[w].op = "open" -> EntryFound(t)
       [] call[w].op = "add" -> CanMaterialize(t)
       [] call[w].op = "drop" ->
            CanMaterialize(t) /\ WithoutInner(Material(t), session[t].level) # Material(t)
       [] OTHER ->
            (session[t].dirty /\ Nested(t)) =>
               (session[t].parent \in registered /\ CanMaterialize(session[t].parent))

Refuse(w) ==
  /\ call[w].stage = "found" /\ ~Servable(w)
  /\ Return(w)
  /\ UNCHANGED <<disk, session, registered, faults, history>>

\* A call that fails before it changes anything; closing a clean session cannot.
Fail(w) ==
  /\ call[w].stage = "found" /\ faults < MaxFaults
  /\ call[w].op = "close" => session[call[w].token].dirty
  /\ Return(w)
  /\ faults' = faults + 1
  /\ UNCHANGED <<disk, session, registered, history>>

\* A change is numbered when it is made.  One that deletes the entry of the
\* nested archive puts nothing into the data.
Written(w, t, e, outcome) ==
  /\ session' = [session EXCEPT ![t] = outcome.session]
  /\ Return(w)
  /\ Counted(outcome)
  /\ via' = [via EXCEPT ![e] = t]
  /\ UNCHANGED <<disk, registered>>

Add(w) ==
  /\ Doing(w, "add")
  /\ LET t == call[w].token
     IN /\ Servable(w)
        /\ \E e \in Edits :
             /\ NextEdit(e)
             /\ LET new == WithEdit(Material(t), session[t].level, e)
                IN /\ \E outcome \in WriteOutcomes(t, new) :
                        /\ Written(w, t, e, outcome)
                        /\ acked' = IF outcome.ok THEN acked \cup {e} ELSE acked
                   /\ excused' = excused \cup RacedEdits(t, new)

Drop(w) ==
  /\ Doing(w, "drop")
  /\ LET t == call[w].token
         new == WithoutInner(Material(t), session[t].level)
     IN /\ Servable(w)
        /\ \E e \in Edits, outcome \in WriteOutcomes(t, new) :
             NextEdit(e) /\ Written(w, t, e, outcome)
        /\ excused' = excused \cup (EditsIn(Material(t)) \ EditsIn(new))
        /\ UNCHANGED acked

-----------------------------------------------------------------------------
(* Closing.                                                                *)

\* A session and the sessions it is nested in: every set of sessions with it and
\* with the parents of its members has them.
Rising(S) == \A x \in S : Nested(x) => session[x].parent \in S
Above(t) == {x \in DOMAIN session : \A S \in SUBSET DOMAIN session : t \in S /\ Rising(S) => x \in S}

\* What another session of the same archive changed, and a commit replaces.
Siblings(t, old, new) ==
  {e \in EditsIn(old) \ EditsIn(new) : via[e] # NoToken /\ t \notin Above(via[e])}

Committed(w) == call' = [call EXCEPT ![w].stage = "committed"]

CloseClean(w) ==
  /\ Doing(w, "close")
  /\ ~session[call[w].token].dirty
  /\ Committed(w)
  /\ UNCHANGED <<disk, session, registered, faults, history>>

\* The parent is looked up by its token: one that was closed is not found, and
\* the commit is refused.
CommitToParent(w) ==
  /\ Doing(w, "close")
  /\ LET t == call[w].token
         p == session[t].parent
         new == WithInner(Material(p), session[t].file, session[t].level)
     IN /\ session[t].dirty /\ Nested(t)
        /\ Servable(w)
        /\ \E outcome \in WriteOutcomes(p, new) :
             /\ session' = [session EXCEPT ![p] = outcome.session,
                                           ![t].dirty = ~outcome.ok]
             /\ IF outcome.ok THEN Committed(w) ELSE Return(w)
             /\ Counted(outcome)
        /\ excused' = excused \cup Siblings(t, Material(p), new) \cup RacedEdits(p, new)
  /\ UNCHANGED <<disk, registered, via, acked>>

\* replace_file_atomically replaces the file, or fails and leaves it.
CommitToRoot(w) ==
  /\ Doing(w, "close")
  /\ LET t == call[w].token
     IN /\ session[t].dirty /\ ~Nested(t)
        /\ disk' = session[t].file
        /\ session' = [session EXCEPT ![t].dirty = FALSE]
        /\ Committed(w)
        /\ excused' = excused \cup Siblings(t, disk, session[t].file)
  /\ UNCHANGED <<registered, faults, via, acked>>

\* A second closer finds the session gone and fails.
Erase(w) ==
  /\ call[w].stage = "committed"
  /\ LET t == call[w].token
     IN /\ registered' = registered \ {t}
        /\ Return(w)
  /\ UNCHANGED <<disk, session, faults, history>>

-----------------------------------------------------------------------------
Begins(w) == \E op \in {"open", "add", "drop", "close"}, t \in DOMAIN session : Begin(w, op, t)

Works(w) ==
  \/ OpenNested(w) \/ Add(w) \/ Drop(w) \/ Refuse(w) \/ Fail(w)
  \/ CloseClean(w) \/ CommitToParent(w) \/ CommitToRoot(w) \/ Erase(w)

Next == \E w \in Threads : OpenRoot(w) \/ Begins(w) \/ Works(w)

Spec == Init /\ [][Next]_vars

-----------------------------------------------------------------------------
(* Properties.                                                             *)

\* A session that has something to commit has a file to commit: the error
\* "Dirty session has no writable archive file" is never met, neither of a
\* session that a failed reopen or a child's commit went through.
DirtyHasFile == \A t \in DOMAIN session : session[t].dirty => session[t].file # NoFile

\* An edit that was reported as made is on disk, or in the file of a session
\* that is open and will commit it, whatever failed on the way up and however
\* often a close is tried again.  Not so, by design or by the user's doing:
\* what a sibling's commit replaced, what was deleted with its entry, and what
\* was written to a session while another thread erased it.
EditsKept ==
  \A e \in acked \ excused :
    \/ e \in EditsIn(disk)
    \/ \E t \in registered : session[t].dirty /\ e \in EditsIn(session[t].file)
=============================================================================
