------------------------------ MODULE GuiTask ------------------------------
(***************************************************************************)
(* The main thread of a 7zG worker while it runs one task: an operation on *)
(* its own, or a sequence of requests that opens an archive and archives   *)
(* nested in it, works on entries of the innermost one, and closes what it *)
(* opened.  Each request is an ArchiveSession with a thread of its own,    *)
(* which posts its completion to the main thread.  The task is cancelled   *)
(* by the user, who is asked first, in an event loop inside the event      *)
(* loop, or by the launcher, through an atomic and a signal of a third     *)
(* thread.  What another thread can come between is a step of its own.     *)
(*                                                                         *)
(* A session is abstracted to what ArchiveSession says of it: it resets    *)
(* its flags, asks questions, polls, ends.                                 *)
(***************************************************************************)
EXTENDS Naturals

CONSTANTS Depth,      \* bound on the archives nested in the one opened
          MaxClicks   \* bound on the clicks on Pause and Cancel

ASSUME GuiAssumption == Depth \in Nat /\ MaxClicks \in Nat

VARIABLES kind,        \* of the task: single, or a sequence of requests
          nested,      \* how many nested_archive_entries it has
          ui,          \* where the main thread is
          request,     \* the request that is active or is started next
          tokens,      \* how many tokens_ the sequencer has
          result,      \* out_.result
          opened,      \* the levels whose sessions are in the registry
          worker,      \* where the thread of the active session is
          outcome,     \* of the active session, once it has one
          cancelFlag,  \* cancel_requested_ of its backend
          pauseFlag,   \* pause_requested_ of its backend
          paused,      \* TaskProgressDialogBase::paused_
          confirming,  \* whether to cancel is asked, with or without a pause
          prompting,   \* a question of the session is on the screen
          clicks,      \* how often the user clicked
          canceled,    \* TaskCancellation::canceled_
          emitting,    \* the notifier's thread has stored it, not yet emitted
          connected,   \* remote_cancel_connection of the active session
          queued,      \* the signal is posted to the main thread
          dropped,     \* history: the active session missed the launcher
          worked,      \* history: what became of the work
          wanted       \* history: somebody wanted the task canceled

sequence == <<kind, nested, ui, request, tokens, result>>
session == <<worker, outcome, cancelFlag, pauseFlag>>
dialog == <<paused, confirming, prompting, clicks>>
remote == <<canceled, emitting, connected, queued>>
history == <<dropped, worked, wanted>>
vars == <<sequence, opened, session, dialog, remote, history>>

Outcomes == {"success", "failed", "canceled"}
Ended == ui \in {"shown", "delivered"}
\* The thread of the active session is not past the operation.
Active == worker \in {"starting", "running", "asking"}
\* supports_pause: opening and closing do not.
Pauseable == request = "work" /\ worker \in {"running", "asking"}

Words ==
  /\ kind \in {"single", "sequence"}
  /\ ui \in {"claimed", "setup", "check", "start", "bind", "connect", "loop",
             "shown", "delivered"}
  /\ request \in {"open", "work", "close"}
  /\ result \in Outcomes \cup {"none"}
  /\ worker \in {"none", "starting", "running", "asking", "posted"}
  /\ outcome \in Outcomes \cup {"none"}
  /\ confirming \in {"no", "plain", "pausing"}
  /\ worked \in Outcomes \cup {"none"}

Flags ==
  /\ cancelFlag \in BOOLEAN /\ pauseFlag \in BOOLEAN
  /\ paused \in BOOLEAN /\ prompting \in BOOLEAN
  /\ canceled \in BOOLEAN /\ emitting \in BOOLEAN
  /\ connected \in BOOLEAN /\ queued \in BOOLEAN
  /\ dropped \in BOOLEAN /\ wanted \in BOOLEAN

Numbers ==
  /\ nested \in 0..Depth /\ tokens \in 0..(Depth + 1)
  /\ clicks \in 0..MaxClicks

TypeOK == Words /\ Flags /\ Numbers /\ opened \subseteq 1..(Depth + 1)

Init ==
  /\ kind \in {"single", "sequence"} /\ nested \in 0..Depth
  /\ kind = "single" => nested = 0
  /\ ui = "claimed" /\ request = "open" /\ tokens = 0 /\ result = "none"
  /\ opened = {}
  /\ worker = "none" /\ outcome = "none"
  /\ cancelFlag = FALSE /\ pauseFlag = FALSE
  /\ paused = FALSE /\ confirming = "no" /\ prompting = FALSE /\ clicks = 0
  /\ canceled = FALSE /\ emitting = FALSE
  /\ connected = FALSE /\ queued = FALSE
  /\ dropped = FALSE /\ worked = "none" /\ wanted = FALSE

-----------------------------------------------------------------------------
(* The main thread, outside of its event loop.                             *)

\* A failure, a cancel and what a test found are shown, and reported when
\* the user has closed the dialog.
Finalize(r) == ui' = "shown" \/ (r = "success" /\ ui' = "delivered")

\* close_tokens_then: the innermost archive first.  tokens_ is shorter by
\* then, so that a request to open or close is of level tokens + 1.
CloseTokens(r) ==
  /\ result' = r
  /\ IF tokens = 0
       THEN Finalize(r) /\ UNCHANGED <<request, tokens>>
       ELSE /\ tokens' = tokens - 1
            /\ request' = "close"
            /\ ui' = "start"

\* The notifier has been set; a cancel before that is found here.
LookAfterClaim ==
  /\ ui = "claimed"
  /\ IF canceled THEN ui' = "delivered" /\ result' = "canceled"
                 ELSE ui' = "setup" /\ UNCHANGED result
  /\ UNCHANGED <<kind, nested, request, tokens, opened, session, dialog,
                 remote, history>>

\* Request and options are built, perhaps with a dialog of their own, which
\* the user may reject; no dialog asks whether the task is canceled.
Prepare ==
  /\ ui = "setup"
  /\ \/ /\ kind = "single"
        /\ ui' = "start" /\ request' = "work"
        /\ UNCHANGED <<result, wanted>>
     \/ /\ kind = "sequence"
        /\ ui' = "check" /\ request' = "open"
        /\ UNCHANGED <<result, wanted>>
     \/ /\ ui' = "delivered" /\ result' \in {"failed", "canceled"}
        /\ wanted' = (wanted \/ result' = "canceled")
        /\ UNCHANGED request
  /\ UNCHANGED <<kind, nested, tokens, opened, session, dialog, remote,
                 dropped, worked>>

\* Before an archive is opened and before the work of a sequence.
Check ==
  /\ ui = "check"
  /\ IF canceled THEN CloseTokens("canceled")
                 ELSE ui' = "start" /\ UNCHANGED <<request, tokens, result>>
  /\ UNCHANGED <<kind, nested, opened, session, dialog, remote, history>>

Start ==
  /\ ui = "start"
  /\ ui' = "bind"
  /\ worker' = "starting"
  /\ cancelFlag' = FALSE /\ pauseFlag' = FALSE
  /\ dropped' = FALSE
  /\ UNCHANGED <<kind, nested, request, tokens, result, opened, outcome,
                 dialog, remote, worked, wanted>>

\* ArchiveSession::cancel on the active session.  It also ends a pause.
CancelSession ==
  /\ cancelFlag' = (cancelFlag \/ Active)
  /\ pauseFlag' = FALSE

BindUnasked ==   \* a faulty variant: a cancel before is not asked for
  /\ ui = "bind"
  /\ ui' = "connect"
  /\ UNCHANGED <<kind, nested, request, tokens, result, opened, session,
                 dialog, remote, history>>

\* bind_session_controls: the atomic is read, then the signal connected.
Bind ==
  /\ ui = "bind"
  /\ IF canceled THEN ui' = "loop" /\ CancelSession
                 ELSE ui' = "connect" /\ UNCHANGED <<cancelFlag, pauseFlag>>
  /\ UNCHANGED <<kind, nested, request, tokens, result, opened, worker,
                 outcome, dialog, remote, history>>

Connect ==
  /\ ui = "connect"
  /\ ui' = "loop"
  /\ connected' = TRUE
  /\ UNCHANGED <<kind, nested, request, tokens, result, opened, session,
                 dialog, canceled, emitting, queued, history>>

-----------------------------------------------------------------------------
(* Completions, in whichever event loop runs, also below a question.       *)

\* release_active_request.  A signal that is still posted cancels a session
\* that is over.
Completed(what) ==
  /\ ui = "loop" /\ worker = "posted" /\ request = what
  /\ worker' = "none" /\ outcome' = "none"
  /\ connected' = FALSE /\ queued' = FALSE
  /\ UNCHANGED <<kind, nested, opened, cancelFlag, pauseFlag, dialog,
                 canceled, emitting, history>>

OpenCompleted ==
  /\ Completed("open") /\ outcome = "success"
  /\ tokens' = tokens + 1
  /\ request' = IF tokens' <= nested THEN "open" ELSE "work"
  /\ ui' = "check"
  /\ UNCHANGED result

OpenFailedForgets ==   \* a faulty variant: what is open stays open
  /\ Completed("open") /\ outcome # "success"
  /\ result' = outcome
  /\ Finalize(outcome)
  /\ UNCHANGED <<request, tokens>>

OpenFailed ==
  /\ Completed("open") /\ outcome # "success"
  /\ CloseTokens(outcome)

WorkCompleted == Completed("work") /\ CloseTokens(outcome)

CloseOverrides ==   \* a faulty variant: the last outcome is the result
  Completed("close") /\ CloseTokens(outcome)

\* What became of the closing is nobody's concern.
CloseCompleted == Completed("close") /\ CloseTokens(result)

\* The user closes the dialog that shows what became of the task.
CloseMessage ==
  /\ ui = "shown"
  /\ ui' = "delivered"
  /\ UNCHANGED <<kind, nested, request, tokens, result, opened, session,
                 dialog, remote, history>>

-----------------------------------------------------------------------------
(* The user.                                                               *)

\* A question on the screen is modal: it is answered before anything else.
Clicks ==
  /\ ui = "loop" /\ confirming = "no" /\ ~prompting
  /\ clicks < MaxClicks
  /\ clicks' = clicks + 1

\* pause and resume return at once if the operation does not support them.
PauseSession == pauseFlag' = (pauseFlag \/ Pauseable)
ResumeSession == pauseFlag' = (pauseFlag /\ ~Pauseable)

ClickPause ==
  /\ Clicks
  /\ paused' = ~paused
  /\ IF paused THEN ResumeSession ELSE PauseSession
  /\ UNCHANGED <<sequence, opened, worker, outcome, cancelFlag, confirming,
                 prompting, remote, history>>

\* While it asks, on_cancel_clicked pauses what is not paused.
ClickCancel ==
  /\ Clicks
  /\ paused' = TRUE
  /\ confirming' = IF paused THEN "plain" ELSE "pausing"
  /\ IF paused THEN UNCHANGED pauseFlag ELSE PauseSession
  /\ UNCHANGED <<sequence, opened, worker, outcome, cancelFlag, prompting,
                 remote, history>>

\* The answer goes to the session that is active by now.
Confirm(yes) ==
  /\ confirming # "no" /\ ~prompting /\ ui = "loop"
  /\ confirming' = "no"
  /\ paused' = (confirming = "plain")
  /\ wanted' = (wanted \/ yes)
  /\ IF yes THEN CancelSession
     ELSE /\ IF confirming = "pausing" THEN ResumeSession
                                       ELSE UNCHANGED pauseFlag
          /\ UNCHANGED cancelFlag
  /\ UNCHANGED <<sequence, opened, worker, outcome, prompting, clicks, remote,
                 dropped, worked>>

-----------------------------------------------------------------------------
(* The launcher's cancel: the thread of the cancel notifier.               *)

RequestCancel ==
  /\ ~canceled /\ ui # "delivered"
  /\ canceled' = TRUE /\ emitting' = TRUE
  /\ wanted' = TRUE
  /\ UNCHANGED <<sequence, opened, session, dialog, connected, queued,
                 dropped, worked>>

\* Nobody hears it between the two steps of bind_session_controls.
Emit ==
  /\ emitting
  /\ emitting' = FALSE
  /\ queued' = connected
  /\ dropped' = (dropped \/ ui = "connect")
  /\ UNCHANGED <<sequence, opened, session, dialog, canceled, connected,
                 worked, wanted>>

DeliverCancel ==
  /\ ui = "loop" /\ queued
  /\ queued' = FALSE
  /\ CancelSession
  /\ UNCHANGED <<sequence, opened, worker, outcome, dialog, canceled,
                 emitting, connected, history>>

-----------------------------------------------------------------------------
(* The thread of the active session.                                       *)

\* It resets the flags of the backend: a cancel that came before is erased.
Begin ==
  /\ worker = "starting"
  /\ worker' = "running"
  /\ cancelFlag' = FALSE /\ pauseFlag' = FALSE
  /\ dropped' = (dropped \/ (canceled /\ cancelFlag))
  /\ UNCHANGED <<sequence, opened, outcome, dialog, remote, worked, wanted>>

\* The operation ends, and the completion is posted.
End(o) ==
  /\ worker' = "posted" /\ outcome' = o
  /\ cancelFlag' = FALSE /\ pauseFlag' = FALSE
  /\ worked' = IF request = "work" THEN o ELSE worked
  /\ LET level == tokens + 1 IN
     opened' = CASE request = "close" -> opened \ {level}
                 [] request = "open" /\ o = "success" -> opened \cup {level}
                 [] OTHER -> opened
  /\ UNCHANGED <<sequence, paused, confirming, clicks, remote, dropped>>

\* Closing a session that was not changed does not fail.
Finish ==
  /\ worker = "running"
  /\ \E o \in {"success", "failed"} :
       (request = "close" => o = "success") /\ End(o)
  /\ UNCHANGED <<prompting, wanted>>

\* A callback finds the cancel; closing has none.
PollCancel ==
  /\ worker = "running" /\ cancelFlag /\ request # "close"
  /\ End("canceled")
  /\ UNCHANGED <<prompting, wanted>>

\* A question: the thread blocks until the main thread has the answer.
Ask ==
  /\ worker = "running" /\ request # "close"
  /\ worker' = "asking"
  /\ UNCHANGED <<sequence, opened, outcome, cancelFlag, pauseFlag, dialog,
                 remote, history>>

Prompt ==
  /\ ui = "loop" /\ worker = "asking" /\ ~prompting
  /\ prompting' = TRUE
  /\ UNCHANGED <<sequence, opened, session, paused, confirming, clicks,
                 remote, history>>

Answer ==
  /\ prompting
  /\ prompting' = FALSE
  /\ worker' = "running"
  /\ UNCHANGED <<sequence, opened, outcome, cancelFlag, pauseFlag, paused,
                 confirming, clicks, remote, history>>

\* Cancel at a question ends the operation.
AnswerCancel ==
  /\ prompting
  /\ prompting' = FALSE
  /\ wanted' = TRUE
  /\ \E o \in {"failed", "canceled"} : End(o)

-----------------------------------------------------------------------------
MainThread ==
  \/ LookAfterClaim \/ Check \/ Start \/ Bind \/ Connect
  \/ OpenCompleted \/ OpenFailed \/ WorkCompleted \/ CloseCompleted
  \/ DeliverCancel \/ Prompt
User ==
  \/ Prepare \/ CloseMessage \/ ClickPause \/ ClickCancel
  \/ \E yes \in BOOLEAN : Confirm(yes)
  \/ Answer \/ AnswerCancel
SessionThread == Begin \/ Finish \/ PollCancel \/ Ask

Next == MainThread \/ User \/ RequestCancel \/ Emit \/ SessionThread

Spec == Init /\ [][Next]_vars

\* The threads run, an operation polls again and again, also between two
\* questions, and closing comes to an end.  Nobody has to answer, to click or
\* to cancel, and a work may go on for ever.
Fairness ==
  /\ WF_vars(MainThread) /\ WF_vars(DeliverCancel)
  /\ WF_vars(Emit) /\ WF_vars(Begin)
  /\ SF_vars(PollCancel)
  /\ WF_vars(Finish /\ request = "close")

FairSpec == Spec /\ Fairness

-----------------------------------------------------------------------------
(* Properties.                                                             *)

\* close_tokens_then on every way out: a session is not in the registry
\* without the one it is nested in, and none is when the task has its result.
SessionsGivenBack ==
  /\ \A l \in opened : l = 1 \/ l - 1 \in opened
  /\ Ended => opened = {}

\* The result that the launcher hears is that of the work, whatever happened
\* to the requests around it; a task is over as canceled only if somebody
\* wanted it.
ResultIsTrue ==
  Ended => /\ worked # "none" => result = worked
           /\ result = "success" => worked = "success"
           /\ result = "canceled" => wanted

\* Sessions come and go below the question whether to cancel, but none stays
\* paused behind a dialog that offers to pause it.
PauseIsShown == pauseFlag => paused

\* What the user and the launcher are told of the task is true.
ToldTheTruth == ResultIsTrue /\ PauseIsShown

\* A cancel of the launcher ends the task, unless the request that is active
\* missed it (erased by the reset of the flags, or emitted between the look
\* at the atomic and the connection), or the user does not answer a question
\* or leaves the dialog that shows the end of the task open.
LauncherCancelsTask ==
  <>canceled =>
    \/ <>(ui = "delivered")
    \/ <>[](dropped /\ request # "close")
    \/ <>[](worker = "asking" \/ ui \in {"setup", "shown"})
=============================================================================
