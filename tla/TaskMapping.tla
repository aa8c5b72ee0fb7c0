----------------------------- MODULE TaskMapping -----------------------------
(***************************************************************************)
(* The task IPC runtime on macOS: a mapping of shared memory and a         *)
(* semaphore for every task, made by the launcher and opened by the 7zG    *)
(* worker by their names.  What TaskIpcTable has a polling monitor for,    *)
(* one-shot events of the system do here: a timer for a task that nobody   *)
(* claims, a notification of the worker's exit.  Each looks at the slot    *)
(* once; what it does not see then, nobody sees.                           *)
(*                                                                         *)
(* There is one launcher: others share nothing with it.  A critical        *)
(* section of a task's lock is one step, and an operation that gives up on *)
(* a busy lock has a branch for that.  The semaphore, the waiter thread    *)
(* and the dispatcher's queue are one counter of polls to come.            *)
(***************************************************************************)
EXTENDS Integers, FiniteSets

CONSTANTS Tasks,       \* the tasks that may be dispatched
          Cancellable, \* bound: the tasks that a cancel is requested for
          Contended,   \* whether a lock may be found busy
          Unreaped     \* whether an exit may be notified before the process is reaped

ASSUME MappingAssumption ==
  Cancellable \subseteq Tasks /\ Contended \in BOOLEAN /\ Unreaped \in BOOLEAN

Outcomes == {"ok", "canceled"}
Results == Outcomes \cup {"unclaimed", "died", "none"}

VARIABLES slot,     \* per task: TaskIpcPerTaskRaw::slot
          registry, \* the mappings of posix_task_registry in the launcher
          linked,   \* the tasks whose names exist
          living,   \* whether the launcher has not crashed
          window,   \* what the launcher's main thread does
          signals,  \* posts that it has not polled for yet
          timer,    \* per task: the unclaimed timer
          exits,    \* per task: the worker-exit monitor
          cancels,  \* per task: posts on its cancel semaphore
          pending,  \* the cancels that are stored and not posted
          worker,   \* per task: where its worker process is
          watch,    \* per task: the worker's cancel waiter
          heard,    \* history: per task, the last event handled
          verdict,  \* history: the result at the first completion
          toldAs,   \* history: the result that the launcher handled
          asked,    \* history: the tasks that a cancel was stored for
          missed    \* history: the tasks that something looked at in vain

launcher == <<registry, linked, living, window, signals, timer, exits>>
cancelling == <<cancels, pending, asked>>
told == <<heard, toldAs>>
vars == <<slot, launcher, cancelling, worker, watch, verdict, told, missed>>

\* recorded stands for worker_pid; fresh, for updated_msecs after the timer was set.
SlotType ==
  [state : {"Empty", "Dispatched", "Claimed", "Completed"}, published : 0..3,
   acknowledged : 0..3, cancel : BOOLEAN, result : Results, recorded : BOOLEAN, fresh : BOOLEAN]

\* kind is the sequence number of a TaskIpcEventKind.
EventType == [task : Tasks, kind : 1..3, result : Results]

WindowPlaces == {"idle", "spawn", "record", "monitor", "post", "handle"}
WorkerPlaces == {"none", "starting", "claimed", "watching", "working", "publish", "minimal",
                 "store_result", "store_event", "store_state", "post", "gone", "mute"}
Sources == {"off", "set", "over"}

TypeOK ==
  /\ slot \in [Tasks -> SlotType]
  /\ registry \subseteq Tasks /\ linked \subseteq Tasks /\ living \in BOOLEAN
  /\ window \in [at : WindowPlaces, tasks : SUBSET Tasks, inbox : SUBSET EventType]
  /\ signals \in Nat
  /\ timer \in [Tasks -> Sources] /\ exits \in [Tasks -> Sources]
  /\ cancels \in [Tasks -> Nat] /\ pending \subseteq Tasks
  /\ worker \in [Tasks -> [at : WorkerPlaces, result : Results]]
  /\ watch \in [Tasks -> {"off", "waiting", "woken", "canceled"}]
  /\ heard \in [Tasks -> 0..3]
  /\ verdict \in [Tasks -> Results] /\ toldAs \in [Tasks -> Results]
  /\ asked \subseteq Tasks /\ missed \subseteq Tasks

EmptySlot ==
  [state |-> "Empty", published |-> 0, acknowledged |-> 0, cancel |-> FALSE,
   result |-> "ok", recorded |-> FALSE, fresh |-> FALSE]
IdleWindow == [at |-> "idle", tasks |-> {}, inbox |-> {}]

Init ==
  /\ slot = [t \in Tasks |-> EmptySlot]
  /\ registry = {} /\ linked = {} /\ living = TRUE
  /\ window = IdleWindow /\ signals = 0
  /\ timer = [t \in Tasks |-> "off"] /\ exits = [t \in Tasks |-> "off"]
  /\ cancels = [t \in Tasks |-> 0] /\ pending = {}
  /\ worker = [t \in Tasks |-> [at |-> "none", result |-> "none"]]
  /\ watch = [t \in Tasks |-> "off"]
  /\ heard = [t \in Tasks |-> 0]
  /\ verdict = [t \in Tasks |-> "none"] /\ toldAs = [t \in Tasks |-> "none"]
  /\ asked = {} /\ missed = {}

-----------------------------------------------------------------------------
(* Slots (core/slots.cpp) and mappings (core/posix.cpp).                   *)

WorkerAlive(t) == worker[t].at \notin {"none", "gone", "mute"}

PublishStage(e, kind) ==
  IF kind > e.published THEN [e EXCEPT !.published = kind, !.fresh = TRUE] ELSE e

PublishCompletion(e, result) ==
  PublishStage([e EXCEPT !.state = "Completed", !.result = result], 3)

UnclaimedAnyState(e) == e.published < 3
Unclaimed(e) == e.state = "Dispatched" /\ e.published < 3

WorkerExited(t) == slot[t].state = "Claimed" /\ slot[t].published < 3 /\ ~WorkerAlive(t)

\* A slot is stored, and the verdict if this publishes one.
Store(t, e) ==
  /\ slot' = [slot EXCEPT ![t] = e]
  /\ verdict' = IF e.published = 3 /\ verdict[t] = "none" THEN [verdict EXCEPT ![t] = e.result]
                ELSE verdict
KeepSlots == UNCHANGED <<slot, verdict>>

\* A post wakes the waiter thread of a mapping that the launcher still has.
Signal(t) == signals' = IF t \in registry THEN signals + 1 ELSE signals

\* The destructor of a mapping: its sources stop, its names go.
Forget(t) ==
  /\ registry' = registry \ {t}
  /\ linked' = linked \ {t}
  /\ timer' = [timer EXCEPT ![t] = "off"]
  /\ exits' = [exits EXCEPT ![t] = "off"]
KeepMappings == UNCHANGED <<registry, linked, timer, exits>>

\* open_worker: the names are opened anew for each operation of a worker.
Opens(t) == t \in linked

-----------------------------------------------------------------------------
(* Dispatching (dispatch_task_ipc_task_impl).                              *)

\* A dispatch that fails before this point leaves nothing.
Dispatch(t) ==
  /\ living /\ window.at = "idle" /\ slot[t] = EmptySlot /\ worker[t].at = "none"
  /\ Store(t, [EmptySlot EXCEPT !.state = "Dispatched", !.published = 1])
  /\ registry' = registry \cup {t} /\ linked' = linked \cup {t}
  /\ timer' = [timer EXCEPT ![t] = "set"]
  /\ window' = [IdleWindow EXCEPT !.at = "spawn", !.tasks = {t}]
  /\ UNCHANGED <<living, signals, exits, cancelling, worker, watch, told, missed>>

Doing(t, place) == window.at = place /\ window.tasks = {t}
WindowTo(place) == window' = [window EXCEPT !.at = place]

Spawn(t) ==
  /\ Doing(t, "spawn")
  /\ WindowTo("record")
  /\ worker' = [worker EXCEPT ![t].at = "starting"]
  /\ KeepSlots /\ KeepMappings
  /\ UNCHANGED <<living, signals, cancelling, watch, told, missed>>

\* The slot is cleared, unless the lock is busy; the memory goes in any case.
SpawnFails(t) ==
  /\ Doing(t, "spawn")
  /\ window' = IdleWindow
  /\ worker' = [worker EXCEPT ![t].at = "gone"]
  /\ slot' = [slot EXCEPT ![t] = EmptySlot]
  /\ Forget(t)
  /\ UNCHANGED <<verdict, living, signals, cancelling, watch, told, missed>>

Record(t) ==
  /\ Doing(t, "record")
  /\ WindowTo("monitor")
  /\ \/ Store(t, IF slot[t].state = "Dispatched"
                 THEN [slot[t] EXCEPT !.recorded = TRUE, !.fresh = TRUE] ELSE slot[t])
     \/ Contended /\ KeepSlots
  /\ KeepMappings
  /\ UNCHANGED <<living, signals, cancelling, worker, watch, told, missed>>

MonitorOnlyLiving(t) ==
  exits' = IF WorkerAlive(t) /\ slot[t].recorded THEN [exits EXCEPT ![t] = "set"] ELSE exits

\* start_worker_exit_monitor: a worker that is dead already is seen at once.
Monitor(t) ==
  exits' = IF slot[t].recorded THEN [exits EXCEPT ![t] = "set"] ELSE exits

StartMonitor(t) ==
  /\ Doing(t, "monitor")
  /\ WindowTo("post")
  /\ IF t \in registry THEN Monitor(t) ELSE UNCHANGED exits
  /\ missed' = IF slot[t].recorded THEN missed ELSE missed \cup {t}
  /\ KeepSlots
  /\ UNCHANGED <<registry, linked, timer, living, signals, cancelling, worker, watch, told>>

PostDispatched(t) ==
  /\ Doing(t, "post")
  /\ window' = IdleWindow
  /\ Signal(t)
  /\ KeepSlots /\ KeepMappings
  /\ UNCHANGED <<living, cancelling, worker, watch, told, missed>>

-----------------------------------------------------------------------------
(* Hearing (collect_task_ipc_events, acknowledge_task_ipc_event).          *)

Unheard(t) ==
  {[task |-> t, kind |-> k, result |-> slot[t].result] :
     k \in slot[t].acknowledged + 1..slot[t].published}

\* A mapping that is busy is left out, and the post is used up.
Poll ==
  /\ living /\ window.at = "idle" /\ signals > 0
  /\ signals' = signals - 1
  /\ \E busy \in SUBSET registry :
       /\ busy # {} => Contended
       /\ LET events == UNION {Unheard(t) : t \in registry \ busy}
          IN window' = IF events = {} THEN window
                       ELSE [IdleWindow EXCEPT !.at = "handle", !.inbox = events]
       /\ missed' = missed \cup {t \in busy : Unheard(t) # {}}
  /\ KeepSlots /\ KeepMappings
  /\ UNCHANGED <<living, cancelling, worker, watch, told>>

Acknowledge(e, kind) ==
  IF e.acknowledged < kind THEN [e EXCEPT !.acknowledged = kind, !.fresh = TRUE] ELSE e

\* The mapping goes with the completion; its slot is not cleared.
ForgetHeard(t, e) == IF e.acknowledged >= 3 THEN Forget(t) ELSE KeepMappings

\* The events of a task are handled in their order, whether or not they can be
\* acknowledged.
Handle(event) ==
  LET t == event.task
      rest == window.inbox \ {event}
  IN /\ window.at = "handle" /\ event \in window.inbox
     /\ \A other \in rest : other.task = t => event.kind < other.kind
     /\ window' = IF rest = {} THEN IdleWindow ELSE [window EXCEPT !.inbox = rest]
     /\ \/ /\ t \in registry
           /\ Store(t, Acknowledge(slot[t], event.kind))
           /\ ForgetHeard(t, Acknowledge(slot[t], event.kind))
        \/ (t \notin registry \/ Contended) /\ KeepSlots /\ KeepMappings
     /\ heard' = [heard EXCEPT ![t] = IF event.kind > @ THEN event.kind ELSE @]
     /\ toldAs' = IF event.kind = 3 THEN [toldAs EXCEPT ![t] = event.result] ELSE toldAs
     /\ UNCHANGED <<living, signals, cancelling, worker, watch, missed>>

-----------------------------------------------------------------------------
(* The one-shot events, on threads of the system.                          *)

\* handle_unclaimed_timer_event.  The timer was set before the last store of
\* updated_msecs, if there was one, and the 15 seconds since then have passed
\* only if it comes late.
TimerFires(t) ==
  /\ timer[t] = "set"
  /\ timer' = [timer EXCEPT ![t] = "over"]
  /\ \/ Unclaimed(slot[t]) /\ Store(t, PublishCompletion(slot[t], "unclaimed")) /\ Signal(t)
     \/ /\ ~Unclaimed(slot[t]) \/ slot[t].fresh \/ Contended
        /\ KeepSlots /\ UNCHANGED signals
  /\ UNCHANGED <<registry, linked, living, window, exits, cancelling, worker, watch, told, missed>>

\* handle_worker_exit_event.  kill(pid, 0) finds a process until it is reaped.
ExitSeen(t) ==
  /\ exits[t] = "set" /\ ~WorkerAlive(t)
  /\ exits' = [exits EXCEPT ![t] = "over"]
  /\ \/ /\ WorkerExited(t)
        /\ Store(t, PublishCompletion(slot[t], "died"))
        /\ Signal(t)
        /\ UNCHANGED missed
     \/ /\ ~WorkerExited(t) \/ Contended \/ Unreaped
        /\ missed' = IF WorkerExited(t) THEN missed \cup {t} ELSE missed
        /\ KeepSlots /\ UNCHANGED signals
  /\ UNCHANGED <<registry, linked, living, window, timer, cancelling, worker, watch, told>>

-----------------------------------------------------------------------------
(* Cancelling (request_task_ipc_cancel): stored without the lock, posted.  *)

StoreCancel(t) ==
  /\ t \in registry \cap Cancellable /\ t \notin asked
  /\ slot[t].state \notin {"Empty", "Completed"}
  /\ Store(t, [slot[t] EXCEPT !.cancel = TRUE, !.fresh = TRUE])
  /\ asked' = asked \cup {t} /\ pending' = pending \cup {t}
  /\ UNCHANGED <<launcher, cancels, worker, watch, told, missed>>

PostNothing(t) == UNCHANGED cancels
Post(t) == cancels' = [cancels EXCEPT ![t] = @ + 1]

PostCancel(t) ==
  /\ t \in pending
  /\ pending' = pending \ {t}
  /\ Post(t)
  /\ KeepSlots
  /\ UNCHANGED <<launcher, asked, worker, watch, told, missed>>

-----------------------------------------------------------------------------
(* A worker process (apps/7zG/main.cpp).                                   *)

\* An ended process keeps no local variables.
WorkerTo(t, place) ==
  worker' = [worker EXCEPT ![t] =
    IF place \in {"gone", "mute"} THEN [at |-> place, result |-> "none"]
    ELSE [@ EXCEPT !.at = place]]

\* claim_task_ipc_task_for_worker; a worker that fails to claim exits.
Claim(t) ==
  /\ worker[t].at = "starting"
  /\ \/ /\ Opens(t) /\ slot[t].state = "Dispatched"
        /\ Store(t, PublishStage([slot[t] EXCEPT !.state = "Claimed", !.recorded = TRUE], 2))
        /\ WorkerTo(t, "claimed")
     \/ /\ ~Opens(t) \/ slot[t].state # "Dispatched" \/ Contended
        /\ KeepSlots /\ WorkerTo(t, "gone")
  /\ UNCHANGED <<launcher, cancelling, watch, told, missed>>

PostClaimed(t) ==
  /\ worker[t].at = "claimed"
  /\ WorkerTo(t, "watching")
  /\ Signal(t)
  /\ KeepSlots /\ KeepMappings
  /\ UNCHANGED <<living, window, cancelling, watch, told, missed>>

\* start_task_ipc_cancel_notification_thread asks once, then waits.  The worker
\* has the mapping and asks without the lock.
StartWatch(t) ==
  /\ worker[t].at = "watching"
  /\ IF slot[t].cancel
     THEN /\ watch' = [watch EXCEPT ![t] = "canceled"]
          /\ worker' = [worker EXCEPT ![t] = [at |-> "publish", result |-> "canceled"]]
     ELSE watch' = [watch EXCEPT ![t] = "waiting"] /\ WorkerTo(t, "working")
  /\ KeepSlots
  /\ UNCHANGED <<launcher, cancelling, told, missed>>

WatchWakes(t) ==
  /\ watch[t] = "waiting" /\ WorkerAlive(t) /\ cancels[t] > 0
  /\ cancels' = [cancels EXCEPT ![t] = @ - 1]
  /\ watch' = [watch EXCEPT ![t] = "woken"]
  /\ KeepSlots
  /\ UNCHANGED <<launcher, pending, asked, worker, told, missed>>

WatchAsks(t) ==
  /\ watch[t] = "woken" /\ WorkerAlive(t)
  /\ watch' = [watch EXCEPT ![t] = IF slot[t].cancel THEN "canceled" ELSE "waiting"]
  /\ KeepSlots
  /\ UNCHANGED <<launcher, cancelling, worker, told, missed>>

\* The job ends: by itself, on request_cancel, or on the user's own cancel.
Finish(t) ==
  /\ worker[t].at = "working"
  /\ \E result \in Outcomes : worker' = [worker EXCEPT ![t] = [at |-> "publish", result |-> result]]
  /\ KeepSlots
  /\ UNCHANGED <<launcher, cancelling, watch, told, missed>>

\* publish_task_ipc_completion: nothing is published for a dead launcher, and a
\* failure goes on to the minimal publication.
Publish(t) ==
  /\ worker[t].at = "publish"
  /\ \/ ~living /\ KeepSlots /\ WorkerTo(t, "gone")
     \/ /\ living /\ Opens(t)
        /\ Store(t, PublishCompletion(slot[t], worker[t].result))
        /\ WorkerTo(t, "post")
     \/ /\ living /\ (~Opens(t) \/ Contended)
        /\ KeepSlots /\ WorkerTo(t, "minimal")
  /\ UNCHANGED <<launcher, cancelling, watch, told, missed>>

\* publish_task_ipc_completion_minimal: three stores and a post, without the lock.
OpenMinimal(t) ==
  /\ worker[t].at = "minimal"
  /\ WorkerTo(t, IF Opens(t) THEN "store_result" ELSE "gone")
  /\ KeepSlots
  /\ UNCHANGED <<launcher, cancelling, watch, told, missed>>

StoreResult(t) ==
  /\ worker[t].at = "store_result"
  /\ Store(t, [slot[t] EXCEPT !.result = worker[t].result, !.fresh = TRUE])
  /\ WorkerTo(t, "store_event")
  /\ UNCHANGED <<launcher, cancelling, watch, told, missed>>

StoreEvent(t) ==
  /\ worker[t].at = "store_event"
  /\ Store(t, [slot[t] EXCEPT !.published = 3])
  /\ WorkerTo(t, "store_state")
  /\ UNCHANGED <<launcher, cancelling, watch, told, missed>>

StoreState(t) ==
  /\ worker[t].at = "store_state"
  /\ Store(t, [slot[t] EXCEPT !.state = "Completed"])
  /\ WorkerTo(t, "post")
  /\ UNCHANGED <<launcher, cancelling, watch, told, missed>>

PostCompleted(t) ==
  /\ worker[t].at = "post"
  /\ WorkerTo(t, "gone")
  /\ Signal(t)
  /\ KeepSlots /\ KeepMappings
  /\ UNCHANGED <<living, window, cancelling, watch, told, missed>>

\* A worker that dies with its verdict stored but not posted is mute.
WorkerCrash(t) ==
  /\ WorkerAlive(t)
  /\ WorkerTo(t, IF worker[t].at \in {"store_state", "post"} THEN "mute" ELSE "gone")
  /\ KeepSlots
  /\ UNCHANGED <<launcher, cancelling, watch, told, missed>>

\* The names of a launcher that crashed stay for ever.
LauncherCrash ==
  /\ living
  /\ living' = FALSE
  /\ registry' = {} /\ window' = IdleWindow /\ signals' = 0 /\ pending' = {}
  /\ timer' = [t \in Tasks |-> "off"] /\ exits' = [t \in Tasks |-> "off"]
  /\ KeepSlots
  /\ UNCHANGED <<linked, cancels, asked, worker, watch, told, missed>>

-----------------------------------------------------------------------------
WindowStep ==
  \/ \E t \in Tasks : Spawn(t) \/ SpawnFails(t) \/ Record(t) \/ StartMonitor(t) \/ PostDispatched(t)
  \/ Poll
  \/ \E event \in window.inbox : Handle(event)

WorkerStep(t) ==
  \/ Claim(t) \/ PostClaimed(t) \/ StartWatch(t) \/ Publish(t) \/ OpenMinimal(t)
  \/ StoreResult(t) \/ StoreEvent(t) \/ StoreState(t) \/ PostCompleted(t)

WatchStep(t) == WatchWakes(t) \/ WatchAsks(t)

Next ==
  \/ WindowStep \/ LauncherCrash
  \/ \E t \in Tasks : \/ Dispatch(t) \/ TimerFires(t) \/ ExitSeen(t)
                      \/ StoreCancel(t) \/ PostCancel(t)
                      \/ WorkerStep(t) \/ WatchStep(t) \/ Finish(t) \/ WorkerCrash(t)

Spec == Init /\ [][Next]_vars

\* Threads of living processes run, timers fire, and the system notifies of an
\* exit.  A job may run for ever; nobody has to dispatch, cancel or crash.
Fairness ==
  /\ WF_vars(WindowStep)
  /\ \A t \in Tasks : /\ WF_vars(TimerFires(t)) /\ WF_vars(ExitSeen(t)) /\ WF_vars(PostCancel(t))
                      /\ WF_vars(WorkerStep(t)) /\ WF_vars(WatchStep(t))

FairSpec == Spec /\ Fairness

-----------------------------------------------------------------------------
(* What the mappings promise.                                              *)

Running == {"claimed", "watching", "working", "publish", "minimal", "store_result", "store_event"}

\* A worker that claimed its task runs it with the verdict still open: neither
\* the timer nor the exit monitor speaks for a task that a live worker is
\* working on.
NoRunAfterVerdict == \A t \in Tasks : worker[t].at \in Running => verdict[t] = "none"

\* A task that was claimed is over at some time for its living launcher, also if
\* its worker crashes at any place; except for a job that never ends, a worker
\* that crashes between its verdict and its post, and one-shot looks that found
\* a busy lock, or a process that was not reaped yet.
ClaimedTaskIsHeard ==
  \A t \in Tasks :
    \/ <>[](worker[t].at = "working")
    \/ (living /\ slot[t].state = "Claimed") ~>
         (~living \/ heard[t] = 3 \/ worker[t].at = "mute" \/ t \in missed)

\* A cancel of a living launcher reaches the worker of a task that would
\* otherwise run on, although it is stored and asked for without the lock.
CancelReachesWorker ==
  \A t \in Tasks :
    (t \in asked /\ worker[t].at \in {"claimed", "watching", "working"}) ~>
      (~living \/ watch[t] = "canceled" \/ worker[t].at \notin {"claimed", "watching", "working"})

\* How far a task has got, read off its slot.
stageOf ==
  [t \in Tasks |->
     IF slot[t].state # "Empty" THEN slot[t].published
     ELSE IF worker[t].at = "none" THEN 0 ELSE 3]

Lifecycle == INSTANCE TaskLifecycle
  WITH Verdicts <- Outcomes, TimedOut <- "unclaimed", Died <- "died",
       NoVerdict <- "none", stage <- stageOf

\* The mappings of macOS implement the same lifecycle as the table of Windows and
\* Linux.
ImplementsLifecycle == Lifecycle!Spec
===============================================================================
