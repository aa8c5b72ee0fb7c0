--------------------------- MODULE ArchiveSession ---------------------------
(***************************************************************************)
(* A running archive operation: the worker thread of an ArchiveSessionCore *)
(* inside its native backend, against the threads that cancel, pause and   *)
(* resume it.  They share the session's state, which set_state reads and   *)
(* writes in two steps, and the backend's atomics; a paused worker sleeps  *)
(* on the condition variable pause_cv_, whose notifiers do not take the    *)
(* mutex.  Every load, store and notification is a step.                   *)
(*                                                                         *)
(* The 7-Zip handler that runs the operation is external: now and then it  *)
(* calls back, and asks whether to go on, and at some time it ends.        *)
(***************************************************************************)
EXTENDS Naturals

CONSTANTS Clients,   \* threads that hold the session
          Worker,    \* the thread start() creates
          MaxCalls,  \* bound on the calls a client makes
          Envelopes  \* the execution envelopes of the requests started

ASSUME SessionAssumption ==
  /\ Worker \notin Clients
  /\ MaxCalls \in Nat
  /\ Envelopes \subseteq {"direct", "cancelable", "pauseable"}

Threads == Clients \cup {Worker}

\* Partial success counts as success, a wrong password as a failure.
Outcomes == {"success", "canceled", "failed"}
FinalStates == {"completed", "cancelled", "failed"}
States == FinalStates \cup {"pending", "running", "paused", "cancelling"}

VARIABLES state,           \* ArchiveSessionCore::state_
          setting,         \* per thread: its set_state in progress
          cancelRequested, \* cancel_requested_
          pauseRequested,  \* pause_requested_
          active,          \* the flag that supports_pause reads
          envelope,        \* the ExecutionEnvelope of the request
          announced,       \* LifecycleEnvelope::seen_running_
          outcome,         \* of the operation, once it has one
          pc,              \* where each thread is
          calls,           \* per client: the calls it made
          asked,           \* history: when cancels were stored
          warned,          \* history: asked, when the last poll began
          missed           \* history: a notification came too early

flags == <<cancelRequested, pauseRequested, active>>
history == <<asked, warned, missed>>
vars == <<state, setting, flags, envelope, announced, outcome, pc, calls, history>>

EndPlaces ==
  {"leave_active", "leave_pause", "leave_cancel", "finish", "report", "done"}
WorkerPlaces ==
  {"start", "invoke", "reset_cancel", "reset_pause", "activate", "run",
   "poll", "ask_cancel", "ask_pause", "drowsy", "asleep", "poll_cancel"}
     \cup EndPlaces
ClientPlaces ==
  {"idle", "cancel", "cancel_unpause", "cancel_notify", "pause",
   "pause_store", "resume", "resume_notify"}

Setting == [step : {"none", "load", "store"}, to : States, late : BOOLEAN]
NoCall == [step |-> "none", to |-> "pending", late |-> FALSE]

\* The worker is past the reset of cancel_requested_ and before the next.
Underway == pc[Worker] \in {"reset_pause", "activate", "run", "poll",
  "ask_cancel", "ask_pause", "drowsy", "asleep", "poll_cancel",
  "leave_active", "leave_pause", "leave_cancel"}

TypeOK ==
  /\ state \in States
  /\ setting \in [Threads -> Setting]
  /\ cancelRequested \in BOOLEAN
  /\ pauseRequested \in BOOLEAN
  /\ active \in BOOLEAN
  /\ envelope \in Envelopes
  /\ announced \in BOOLEAN
  /\ outcome \in Outcomes \cup {"none"}
  /\ pc \in [Threads -> WorkerPlaces \cup ClientPlaces]
  /\ pc[Worker] \in WorkerPlaces
  /\ \A c \in Clients : pc[c] \in ClientPlaces
  /\ calls \in [Clients -> 0..MaxCalls]
  /\ asked \subseteq {"early", "underway"}
  /\ warned \subseteq {"early", "underway"}
  /\ missed \in BOOLEAN
  /\ pc[Worker] \in EndPlaces => outcome # "none"

Init ==
  /\ state = "pending"
  /\ setting = [t \in Threads |-> NoCall]
  /\ cancelRequested = FALSE /\ pauseRequested = FALSE /\ active = FALSE
  /\ envelope \in Envelopes
  /\ announced = FALSE
  /\ outcome = "none"
  /\ pc = [t \in Threads |-> IF t = Worker THEN "start" ELSE "idle"]
  /\ calls = [c \in Clients |-> 0]
  /\ asked = {} /\ warned = {} /\ missed = FALSE

(***************************************************************************)
(* set_state.  A thread in it does nothing else.                           *)
(***************************************************************************)
At(t, place) == pc[t] = place /\ setting[t] = NoCall
Goto(t, place) == pc' = [pc EXCEPT ![t] = place]

SetState(t, s) ==
  setting' = [setting EXCEPT ![t] =
    [step |-> "load", to |-> s, late |-> state \in FinalStates]]

LoadUnchecked(t) ==   \* a faulty variant: the final states are not asked for
  /\ setting[t].step = "load"
  /\ setting' = [setting EXCEPT ![t].step = "store"]
  /\ UNCHANGED <<state, flags, envelope, announced, outcome, pc, calls, history>>

\* A final state is final: the call returns.
LoadState(t) ==
  /\ setting[t].step = "load"
  /\ setting' = [setting EXCEPT ![t] =
       IF state \in FinalStates THEN NoCall ELSE [@ EXCEPT !.step = "store"]]
  /\ UNCHANGED <<state, flags, envelope, announced, outcome, pc, calls, history>>

StoreState(t) ==
  /\ setting[t].step = "store"
  /\ state' = setting[t].to
  /\ setting' = [setting EXCEPT ![t] = NoCall]
  /\ UNCHANGED <<flags, envelope, announced, outcome, pc, calls, history>>

(***************************************************************************)
(* The clients.  notify_all wakes a worker that is asleep and is lost on   *)
(* one that has evaluated its predicate and is about to sleep.             *)
(***************************************************************************)
NotifyAll(c, place) ==
  /\ pc' = [pc EXCEPT ![c] = place,
              ![Worker] = IF @ = "asleep" THEN "ask_cancel" ELSE @]
  /\ missed' = (missed \/ pc[Worker] \in {"ask_pause", "drowsy"})

MakeCall(c) ==
  /\ At(c, "idle") /\ calls[c] < MaxCalls
  /\ calls' = [calls EXCEPT ![c] = @ + 1]
  /\ UNCHANGED <<state, flags, envelope, announced, outcome, history>>

Cancel(c) == MakeCall(c) /\ SetState(c, "cancelling") /\ Goto(c, "cancel")

\* Without support for pausing at this moment, both calls return at once.
Pause(c) == MakeCall(c) /\ active /\ Goto(c, "pause") /\ UNCHANGED setting
Resume(c) == MakeCall(c) /\ active /\ Goto(c, "resume") /\ UNCHANGED setting

StoreCancel(c) ==
  /\ At(c, "cancel")
  /\ cancelRequested' = TRUE
  /\ asked' = asked \cup {IF Underway THEN "underway" ELSE "early"}
  /\ Goto(c, "cancel_unpause")
  /\ UNCHANGED <<state, setting, pauseRequested, active, envelope, announced,
                 outcome, calls, warned, missed>>

Unpause(c, from, to) ==
  /\ At(c, from)
  /\ pauseRequested' = FALSE
  /\ Goto(c, to)
  /\ UNCHANGED <<state, setting, cancelRequested, active, envelope, announced,
                 outcome, calls, history>>

CancelUnpausesSilently(c) ==   \* a faulty variant: without notify_all
  Unpause(c, "cancel_unpause", "idle")

CancelUnpauses(c) == Unpause(c, "cancel_unpause", "cancel_notify")

ResumeUnpauses(c) == Unpause(c, "resume", "resume_notify")

CancelNotifies(c) ==
  /\ At(c, "cancel_notify")
  /\ NotifyAll(c, "idle")
  /\ UNCHANGED <<state, setting, flags, envelope, announced, outcome, calls,
                 asked, warned>>

ResumeNotifies(c) ==
  /\ At(c, "resume_notify")
  /\ NotifyAll(c, "idle")
  /\ SetState(c, "running")
  /\ UNCHANGED <<state, flags, envelope, announced, outcome, calls,
                 asked, warned>>

\* The backend asks again whether it supports a pause; the session's state
\* becomes paused whatever it answers.
PauseAsksAgain(c) ==
  /\ At(c, "pause")
  /\ IF active THEN Goto(c, "pause_store") /\ UNCHANGED setting
               ELSE Goto(c, "idle") /\ SetState(c, "paused")
  /\ UNCHANGED <<state, flags, envelope, announced, outcome, calls, history>>

StorePause(c) ==
  /\ At(c, "pause_store")
  /\ pauseRequested' = TRUE
  /\ Goto(c, "idle")
  /\ SetState(c, "paused")
  /\ UNCHANGED <<state, cancelRequested, active, envelope, announced, outcome,
                 calls, history>>

(***************************************************************************)
(* The worker: run_worker and OperationRunner::run.                        *)
(***************************************************************************)
Start ==
  /\ At(Worker, "start")
  /\ SetState(Worker, "running")
  /\ Goto(Worker, "invoke")
  /\ UNCHANGED <<state, flags, envelope, announced, outcome, calls, history>>

\* The benchmark is blocked for its need of memory and never invoked.
Blocked ==
  /\ At(Worker, "invoke") /\ envelope = "pauseable"
  /\ outcome' \in {"canceled", "failed"}
  /\ Goto(Worker, "report")
  /\ UNCHANGED <<state, setting, flags, envelope, announced, calls, history>>

\* Validation or the loading of the codecs ends the operation.
Refused ==
  /\ At(Worker, "invoke")
  /\ outcome' = "failed"
  /\ Goto(Worker, "finish")
  /\ UNCHANGED <<state, setting, flags, envelope, announced, calls, history>>

Enter ==
  /\ At(Worker, "invoke")
  /\ Goto(Worker, IF envelope = "direct" THEN "run" ELSE "reset_cancel")
  /\ UNCHANGED <<state, setting, flags, envelope, announced, outcome, calls, history>>

\* The flags that the operation's guards set and reset.
FlagStep(from, to) ==
  /\ At(Worker, from)
  /\ Goto(Worker, to)
  /\ UNCHANGED <<state, setting, envelope, announced, outcome, calls, history>>

ActivateEarly ==   \* a faulty variant of ResetCancel: active from the start
  /\ FlagStep("reset_cancel", IF envelope = "pauseable" THEN "reset_pause" ELSE "run")
  /\ cancelRequested' = FALSE
  /\ active' = (envelope = "pauseable")
  /\ UNCHANGED pauseRequested

ResetCancel ==
  /\ FlagStep("reset_cancel", IF envelope = "pauseable" THEN "reset_pause" ELSE "run")
  /\ cancelRequested' = FALSE
  /\ UNCHANGED <<pauseRequested, active>>

ResetPause ==
  /\ FlagStep("reset_pause", "activate")
  /\ pauseRequested' = FALSE
  /\ UNCHANGED <<cancelRequested, active>>

Activate ==
  /\ FlagStep("activate", "run")
  /\ active' = TRUE
  /\ UNCHANGED <<cancelRequested, pauseRequested>>

\* The first event of the handler is preceded by the stage Running, which
\* finish() makes up for.
Announce ==
  /\ At(Worker, "run") \/ At(Worker, "finish")
  /\ ~announced
  /\ announced' = TRUE
  /\ SetState(Worker, "running")
  /\ UNCHANGED <<state, flags, envelope, outcome, pc, calls, history>>

\* Where the guards of the envelope go out of scope.
Exit == CASE envelope = "direct" -> "finish"
          [] envelope = "cancelable" -> "leave_cancel"
          [] envelope = "pauseable" -> "leave_active"

\* The handler returns; or throws, which is a failure.
HandlerEnds ==
  /\ At(Worker, "run")
  /\ outcome' \in Outcomes
  /\ Goto(Worker, Exit)
  /\ UNCHANGED <<state, setting, flags, envelope, announced, calls, history>>

(***************************************************************************)
(* A callback asks should_abort, which calls wait_while_paused.            *)
(***************************************************************************)
Poll ==
  /\ At(Worker, "run")
  /\ warned' = asked
  /\ Goto(Worker, "poll")
  /\ UNCHANGED <<state, setting, flags, envelope, announced, outcome, calls,
                 asked, missed>>

Asks(from, to) ==
  /\ At(Worker, from)
  /\ Goto(Worker, to)
  /\ UNCHANGED <<state, setting, flags, envelope, announced, outcome, calls,
                 asked, warned>>

PollPauseOnly ==   \* a faulty variant: not paused is taken for not cancelled
  /\ Asks("poll", IF pauseRequested THEN "ask_cancel" ELSE "run")
  /\ UNCHANGED missed

PollPause ==
  /\ Asks("poll", IF pauseRequested THEN "ask_cancel" ELSE "poll_cancel")
  /\ UNCHANGED missed

AskNothing ==   \* a faulty variant: the predicate asks for the pause only
  Asks("ask_cancel", "ask_pause") /\ missed' = FALSE

\* The predicate of the wait, load by load.
AskCancel ==
  /\ Asks("ask_cancel", IF cancelRequested THEN "poll_cancel" ELSE "ask_pause")
  /\ missed' = FALSE

AskPause ==
  /\ Asks("ask_pause", IF pauseRequested THEN "drowsy" ELSE "poll_cancel")
  /\ UNCHANGED missed

FallAsleep == Asks("drowsy", "asleep") /\ UNCHANGED missed

\* A condition variable may wake its waiter for no reason.
WakeSpuriously == Asks("asleep", "ask_cancel") /\ UNCHANGED missed

\* The loads that decide, of wait_while_paused and of should_abort: once
\* set, the flag stays set until the operation is left.
PollCancel ==
  /\ At(Worker, "poll_cancel")
  /\ IF cancelRequested
       THEN /\ outcome' = "canceled"
            /\ Goto(Worker, Exit)
       ELSE Goto(Worker, "run") /\ UNCHANGED outcome
  /\ UNCHANGED <<state, setting, flags, envelope, announced, calls, history>>

(***************************************************************************)
(* The guards of the operation go out of scope; nobody is asleep then.     *)
(***************************************************************************)
LeaveActive ==
  /\ FlagStep("leave_active", "leave_pause")
  /\ active' = FALSE
  /\ UNCHANGED <<cancelRequested, pauseRequested>>

LeavePause ==
  /\ FlagStep("leave_pause", "leave_cancel")
  /\ pauseRequested' = FALSE
  /\ UNCHANGED <<cancelRequested, active>>

LeaveCancel ==
  /\ FlagStep("leave_cancel", "finish")
  /\ cancelRequested' = FALSE
  /\ UNCHANGED <<pauseRequested, active>>

\* A question nobody was there to answer makes the outcome a failure.
Finish ==
  /\ At(Worker, "finish") /\ announced
  /\ outcome' \in {outcome, "failed"}
  /\ Goto(Worker, "report")
  /\ UNCHANGED <<state, setting, flags, envelope, announced, calls, history>>

\* The final state, then on_finished.
Report ==
  /\ At(Worker, "report")
  /\ SetState(Worker, CASE outcome = "success" -> "completed"
                        [] outcome = "canceled" -> "cancelled"
                        [] outcome = "failed" -> "failed")
  /\ Goto(Worker, "done")
  /\ UNCHANGED <<state, flags, envelope, announced, outcome, calls, history>>
-----------------------------------------------------------------------------
ClientStep(c) ==
  \/ LoadState(c) \/ StoreState(c)
  \/ StoreCancel(c) \/ CancelUnpauses(c) \/ CancelNotifies(c)
  \/ PauseAsksAgain(c) \/ StorePause(c)
  \/ ResumeUnpauses(c) \/ ResumeNotifies(c)

Call(c) == Cancel(c) \/ Pause(c) \/ Resume(c)

HandlerStep == Poll \/ HandlerEnds

WorkerStep ==
  \/ LoadState(Worker) \/ StoreState(Worker)
  \/ Start \/ Blocked \/ Refused \/ Enter
  \/ ResetCancel \/ ResetPause \/ Activate
  \/ PollPause \/ AskCancel \/ AskPause \/ FallAsleep \/ PollCancel
  \/ LeaveActive \/ LeavePause \/ LeaveCancel \/ Finish \/ Report

Next ==
  \/ WorkerStep \/ HandlerStep \/ Announce \/ WakeSpuriously
  \/ \E c \in Clients : Call(c) \/ ClientStep(c)

Spec == Init /\ [][Next]_vars

\* Threads run on; a handler calls back or ends; nobody has to make a call,
\* and no wake-up is spurious by right.
Fairness ==
  /\ WF_vars(WorkerStep)
  /\ WF_vars(HandlerStep)
  /\ WF_vars(At(Worker, "finish") /\ Announce)
  /\ \A c \in Clients : WF_vars(ClientStep(c))

FairSpec == Spec /\ Fairness
-----------------------------------------------------------------------------
\* A final state is left only by a call of set_state that began before the
\* state was final: the check in set_state turns every later call away, but
\* check and store are two steps.
FinalStateStays ==
  [][\A t \in Threads :
       (state \in FinalStates /\ setting[t].step = "store"
          /\ setting'[t] = NoCall) => ~setting[t].late]_vars

\* A callback that asks after a cancel was stored during the operation does
\* not return to the handler to go on, however pauses and resumes run into it.
NoWorkAfterCancel ==
  [][(pc[Worker] \in {"poll", "poll_cancel"} /\ pc'[Worker] = "run")
        => "underway" \notin warned]_vars

\* The reset at the start of an operation erases no pause: supports_pause
\* refuses one until the reset is done.
PauseSurvivesEntry ==
  pc[Worker] \in {"start", "invoke", "reset_cancel", "reset_pause"} =>
    /\ ~pauseRequested
    /\ \A c \in Clients : pc[c] \notin {"pause", "pause_store"}

Waking(c) ==
  pc[c] \in {"cancel_unpause", "cancel_notify", "resume_notify"}

\* A worker sleeps beside a cancel, or without a pause, only while the
\* notification is on its way, or because one came between its predicate
\* and its sleep.
WakeIsComing ==
  pc[Worker] = "asleep" /\ (cancelRequested \/ ~pauseRequested) =>
    missed \/ \E c \in Clients : Waking(c)

\* A cancel stored during the operation ends it, whatever it is doing, unless
\* its notification came too early.
CancelledSessionEnds ==
  "underway" \in asked ~> (pc[Worker] = "done" \/ missed)
=============================================================================
