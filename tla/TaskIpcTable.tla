---------------------------- MODULE TaskIpcTable ----------------------------
(***************************************************************************)
(* The task IPC runtime on Windows and Linux: one table of slots in shared *)
(* memory, under one RobustLock, through which launchers (file manager     *)
(* windows) hand tasks to 7zG worker processes and hear of their progress. *)
(*                                                                         *)
(* A critical section is one step here, which RobustLock's MutualExclusion *)
(* justifies.  An operation that does not get the lock in time gives up:   *)
(* where the code has that branch the action has one, enabled when         *)
(* Contended.  The one writer that takes no lock,                          *)
(* publish_task_ipc_completion_minimal, stores field by field.             *)
(*                                                                         *)
(* An owner is a launcher process with one window; worker s is the process *)
(* started for session s, and stands for worker_pid.  Time is the flag     *)
(* aged: 15 seconds passed since a slot's updated_msecs.  The summary text *)
(* goes with result and is not modelled apart; payloads are left out.      *)
(***************************************************************************)
EXTENDS Integers

CONSTANTS Owners,       \* launchers, one owner_instance_id each
          SlotCount,    \* kTaskIpcSlotCount
          MaxSession,   \* bound on the tasks dispatched
          Cancellable,  \* bound on the sessions a cancel is requested for
          MaxGeneration, \* the largest generation, 2^32 - 1 in the code
          Contended,    \* whether a lock may be found busy
          Nobody        \* no owner

ASSUME TableAssumption ==
  /\ SlotCount \in Nat \ {0}
  /\ MaxSession \in Nat \ {0}
  /\ MaxGeneration \in Nat \ {0}
  /\ Cancellable \subseteq 1..MaxSession
  /\ Contended \in BOOLEAN
  /\ Nobody \notin Owners

Slots == 1..SlotCount
Sessions == 1..MaxSession
Generations == 1..MaxGeneration

States == {"Empty", "Dispatched", "Claimed", "Completed"}

\* A result_code with its summary: what a worker reports, and what the
\* launcher's side reports in its place.
Outcomes == {"ok", "canceled"}
Results == Outcomes \cup {"unclaimed", "died", "none"}

VARIABLES slot,     \* TaskIpcBootstrapRaw::slot_records
          nextSession, \* TaskIpcBootstrapRaw::next_session_id
          signals,  \* per owner: posts its window has not polled for yet
          cancels,  \* per session: posts on its cancel semaphore
          living,   \* the owners that have not crashed
          window,   \* per owner: what its main thread is doing
          worker,   \* per session: where its worker process is
          watch,    \* per session: the worker's cancel waiter
          heard,    \* history: per session, the last event handled
          verdict,  \* history: the result at the first completion
          toldAs,   \* history: the result its owner handled
          asked     \* history: the sessions a cancel was stored for

told == <<heard, toldAs>>
cancelling == <<cancels, asked>>
vars == <<slot, nextSession, signals, cancels, living, window, worker, watch,
          heard, verdict, toldAs, asked>>

SlotType ==
  [generation : Generations, state : States, session : Sessions \cup {0},
   published : 0..3, acknowledged : 0..3, cancel : BOOLEAN, result : Results \ {"none"},
   launcher : Owners \cup {Nobody}, aged : BOOLEAN]

\* kind is the sequence number of a TaskIpcEventKind: 1 dispatched,
\* 2 claimed, 3 completed.
EventType ==
  [session : Sessions \cup {0}, generation : Generations, kind : 1..3,
   result : Results \ {"none"}]

WindowPlaces == {"idle", "spawn", "record", "post", "handle"}
WorkerPlaces == {"none", "starting", "claimed", "watching", "working", "publish",
                 "minimal", "store_result", "store_event", "store_state", "post",
                 "gone", "mute"}

\* Every variable has its type; in particular a slot's generation is never
\* 0, the value that claims and queries refuse (clear_slot).
TypeOK ==
  /\ slot \in [Slots -> SlotType]
  /\ nextSession \in 1..(MaxSession + 1)
  /\ signals \in [Owners -> Nat]
  /\ cancels \in [Sessions -> Nat]
  /\ living \subseteq Owners
  /\ window \in [Owners -> [at : WindowPlaces, slot : Slots, session : Sessions \cup {0},
                            generation : Generations, inbox : SUBSET EventType]]
  /\ worker \in [Sessions -> [at : WorkerPlaces, slot : Slots,
                              generation : Generations, owner : Owners \cup {Nobody},
                              result : Outcomes]]
  /\ watch \in [Sessions -> {"off", "waiting", "woken", "lost", "canceled"}]
  /\ heard \in [Sessions -> 0..3]
  /\ verdict \in [Sessions -> Results]
  /\ toldAs \in [Sessions -> Results]
  /\ asked \subseteq Sessions

\* A slot as initialize_bootstrap_if_needed and clear_slot leave it.
EmptySlot(generation) ==
  [generation |-> generation, state |-> "Empty", session |-> 0, published |-> 0,
   acknowledged |-> 0, cancel |-> FALSE, result |-> "ok",
   launcher |-> Nobody, aged |-> FALSE]

IdleWindow == [at |-> "idle", slot |-> 1, session |-> 0, generation |-> 1, inbox |-> {}]

Init ==
  /\ slot = [i \in Slots |-> EmptySlot(1)]
  /\ nextSession = 1
  /\ signals = [o \in Owners |-> 0]
  /\ cancels = [s \in Sessions |-> 0]
  /\ living = Owners
  /\ window = [o \in Owners |-> IdleWindow]
  /\ worker = [s \in Sessions |-> [at |-> "none", slot |-> 1, generation |-> 1,
                                   owner |-> Nobody, result |-> "ok"]]
  /\ watch = [s \in Sessions |-> "off"]
  /\ heard = [s \in Sessions |-> 0]
  /\ verdict = [s \in Sessions |-> "none"]
  /\ toldAs = [s \in Sessions |-> "none"]
  /\ asked = {}

\* An idle window and a dead process keep no local variables.
WindowTo(o, place) ==
  window' = [window EXCEPT ![o] = IF place = "idle" THEN IdleWindow
                                  ELSE [@ EXCEPT !.at = place]]
WorkerTo(s, place) ==
  worker' = [worker EXCEPT ![s] =
    IF place \in {"gone", "mute"}
    THEN [@ EXCEPT !.at = place, !.slot = 1, !.owner = Nobody, !.result = "ok"]
    ELSE [@ EXCEPT !.at = place]]

\* A post for a dead owner reaches nobody.
Signal(o) == signals' = IF o \in living THEN [signals EXCEPT ![o] = @ + 1] ELSE signals

WorkerAlive(s) == worker[s].at \notin {"none", "gone", "mute"}

-----------------------------------------------------------------------------
(* Faulty variants of the operators below, one plausible slip each.        *)

ClearedKeepsCancel(e) ==
  [EmptySlot(IF e.generation = MaxGeneration THEN 1 ELSE e.generation + 1)
   EXCEPT !.cancel = e.cancel]

UnclaimedAnyState(e) == e.state # "Empty" /\ e.published < 3 /\ e.aged

ReclaimableUnheard(e) == e.state = "Completed" /\ e.published = 3

AckForgets(e, kind) == IF kind = 3 THEN EmptySlot(e.generation) ELSE e

ClearsOnClaim(e, kind) ==
  IF kind >= 2 THEN EmptySlot(e.generation) ELSE [e EXCEPT !.acknowledged = kind]

WorkerExitedOffByOne(e) ==
  e.state = "Claimed" /\ e.published < 2 /\ ~WorkerAlive(e.session)

CancelWithoutPost(s) == UNCHANGED cancels

-----------------------------------------------------------------------------
(* Slots (core/slots.cpp).                                                 *)

\* The unsigned increment of clear_slot: 0 is skipped.
Bump(generation) == IF generation = MaxGeneration THEN 1 ELSE generation + 1

Cleared(e) == EmptySlot(Bump(e.generation))

PublishStage(e, kind) ==
  IF kind > e.published THEN [e EXCEPT !.published = kind, !.aged = FALSE] ELSE e

PublishCompletion(e, result) ==
  PublishStage([e EXCEPT !.state = "Completed", !.result = result], 3)

Unclaimed(e) == e.state = "Dispatched" /\ e.published < 3 /\ e.aged

WorkerExited(e) == e.state = "Claimed" /\ e.published < 3 /\ ~WorkerAlive(e.session)

Reclaimable(e) == e.state = "Completed" /\ e.acknowledged >= 3

Reclaimed == [i \in Slots |-> IF Reclaimable(slot[i]) THEN Cleared(slot[i]) ELSE slot[i]]

Matches(e, session, generation) == e.session = session /\ e.generation = generation

\* append_pending_events_for_slot: every event after the last acknowledged.
Pending(o, e) ==
  {[session |-> e.session, generation |-> e.generation, kind |-> k, result |-> e.result] :
     k \in {l \in e.acknowledged + 1..e.published : e.state # "Empty" /\ e.launcher = o}}

\* acknowledge_task_ipc_event on the slot of the event.
Acknowledge(e, kind) ==
  LET acked == IF e.acknowledged < kind
               THEN [e EXCEPT !.acknowledged = kind, !.aged = FALSE] ELSE e
  IN  IF acked.acknowledged >= 3 THEN Cleared(acked) ELSE acked

\* The history of verdicts once the table is sl.
Judged(sl) ==
  [s \in Sessions |->
     IF verdict[s] = "none" /\ \E i \in Slots : sl[i].session = s /\ sl[i].published = 3
     THEN sl[CHOOSE i \in Slots : sl[i].session = s /\ sl[i].published = 3].result
     ELSE verdict[s]]

\* Store the table, and record the verdicts this publishes.
Store(sl) == slot' = sl /\ verdict' = Judged(sl)

KeepTable == UNCHANGED <<slot, verdict>>

-----------------------------------------------------------------------------
(* A window dispatches a task (dispatch_task_ipc_task_impl).               *)

\* An empty slot is filled; cancel_requested is not touched.
Dispatched(e, o) ==
  [e EXCEPT !.state = "Dispatched", !.session = nextSession, !.published = 1,
            !.acknowledged = 0, !.result = "ok", !.launcher = o, !.aged = FALSE]

\* The first empty slot is taken, under the lock.  With every slot taken, or
\* the lock busy, the dispatch fails and nothing changes.
Reserve(o) ==
  /\ o \in living
  /\ window[o].at = "idle"
  /\ nextSession \in Sessions
  /\ \E i \in Slots :
       /\ Reclaimed[i].state = "Empty"
       /\ \A j \in Slots : Reclaimed[j].state = "Empty" => i <= j
       /\ Store([Reclaimed EXCEPT ![i] = Dispatched(@, o)])
       /\ window' = [window EXCEPT ![o] = [@ EXCEPT !.at = "spawn", !.slot = i,
                        !.session = nextSession, !.generation = Reclaimed[i].generation]]
  /\ nextSession' = nextSession + 1
  /\ UNCHANGED <<signals, cancelling, living, worker, watch, told>>

Spawn(o) ==
  /\ window[o].at = "spawn"
  /\ WindowTo(o, "record")
  /\ worker' = [worker EXCEPT ![window[o].session] =
                  [@ EXCEPT !.at = "starting", !.generation = window[o].generation]]
  /\ UNCHANGED <<slot, verdict, nextSession, signals, cancelling, living, watch, told>>

\* The slot is given back, unless the lock is busy: then the monitor finds
\* it unclaimed later.
SpawnFails(o) ==
  LET w == window[o] IN
  /\ w.at = "spawn"
  /\ WindowTo(o, "idle")
  /\ \/ Store(IF Matches(slot[w.slot], w.session, w.generation)
              THEN [slot EXCEPT ![w.slot] = Cleared(@)] ELSE slot)
     \/ Contended /\ KeepTable
  /\ UNCHANGED <<nextSession, signals, cancelling, living, worker, watch, told>>

\* worker_pid and updated_msecs are recorded while nobody has claimed.
Record(o) ==
  LET w == window[o] IN
  /\ w.at = "record"
  /\ WindowTo(o, "post")
  /\ \/ Store(IF /\ Matches(slot[w.slot], w.session, w.generation)
                 /\ slot[w.slot].state = "Dispatched"
              THEN [slot EXCEPT ![w.slot] = [@ EXCEPT !.aged = FALSE]] ELSE slot)
     \/ Contended /\ KeepTable
  /\ UNCHANGED <<nextSession, signals, cancelling, living, worker, watch, told>>

PostDispatched(o) ==
  /\ window[o].at = "post"
  /\ WindowTo(o, "idle")
  /\ Signal(o)
  /\ UNCHANGED <<slot, verdict, nextSession, cancelling, living, worker, watch, told>>

-----------------------------------------------------------------------------
(* A window hears of its tasks (MainWindow::poll_task_ipc_completions).    *)

\* One post, one poll.  A collect that does not get the lock returns with
\* the post used up.
Poll(o) ==
  /\ window[o].at = "idle"
  /\ signals[o] > 0
  /\ signals' = [signals EXCEPT ![o] = @ - 1]
  /\ \/ LET events == UNION {Pending(o, Reclaimed[i]) : i \in Slots}
        IN  /\ Store(Reclaimed)
            /\ window' = IF events = {} THEN window
                         ELSE [window EXCEPT ![o] = [@ EXCEPT !.at = "handle", !.inbox = events]]
     \/ Contended /\ KeepTable /\ UNCHANGED window
  /\ UNCHANGED <<nextSession, cancelling, living, worker, watch, told>>

\* Acknowledge the next event, whether or not that works, and act on it.  Those
\* of a task come in their order.
Handle(o, event) ==
  LET rest == window[o].inbox \ {event}
      its == {i \in Slots : /\ Matches(slot[i], event.session, event.generation)
                            /\ slot[i].launcher = o}
  IN
  /\ window[o].at = "handle" /\ event \in window[o].inbox
  /\ \A other \in rest : other.session = event.session => event.kind < other.kind
  /\ window' = [window EXCEPT ![o] = IF rest = {} THEN IdleWindow ELSE [@ EXCEPT !.inbox = rest]]
  /\ \/ Store([i \in Slots |-> IF i \in its THEN Acknowledge(slot[i], event.kind)
                               ELSE slot[i]])
     \/ Contended /\ KeepTable
  /\ heard' = [heard EXCEPT ![event.session] = IF event.kind > @ THEN event.kind ELSE @]
  /\ toldAs' = IF event.kind = 3 THEN [toldAs EXCEPT ![event.session] = event.result]
               ELSE toldAs
  /\ UNCHANGED <<nextSession, signals, cancelling, living, worker, watch>>

PostCancel(s) == cancels' = [cancels EXCEPT ![s] = @ + 1]

\* request_task_ipc_cancel, stored at most once a session here.  A task
\* that is over, or no longer in a slot, is left alone.
Cancel(s) ==
  LET its == {i \in Slots : /\ Matches(Reclaimed[i], s, worker[s].generation)
                            /\ Reclaimed[i].state \notin {"Empty", "Completed"}}
  IN
  /\ worker[s].at # "none"
  /\ s \in Cancellable \ asked
  /\ \/ \E i \in its : /\ Store([Reclaimed EXCEPT ![i] = [@ EXCEPT !.cancel = TRUE, !.aged = FALSE]])
                       /\ asked' = asked \cup {s}
                       /\ PostCancel(s)
     \/ its = {} /\ Store(Reclaimed) /\ UNCHANGED cancelling
  /\ UNCHANGED <<nextSession, signals, living, window, worker, watch, told>>

\* NonPosixEventWaiter::scan_owner_events, the monitor thread of an owner.
Scan(o) ==
  LET lapsed(e) == e.launcher = o /\ (Unclaimed(e) \/ WorkerExited(e))
      after == [i \in Slots |->
                  IF lapsed(Reclaimed[i])
                  THEN PublishCompletion(Reclaimed[i],
                         IF Unclaimed(Reclaimed[i]) THEN "unclaimed" ELSE "died")
                  ELSE Reclaimed[i]]
  IN
  /\ o \in living
  /\ after # slot
  /\ Store(after)
  /\ IF \E i \in Slots : lapsed(Reclaimed[i]) THEN Signal(o) ELSE UNCHANGED signals
  /\ UNCHANGED <<nextSession, cancelling, living, window, worker, watch, told>>

OwnerCrash(o) ==
  /\ o \in living
  /\ living' = living \ {o}
  /\ signals' = [signals EXCEPT ![o] = 0]
  /\ window' = [window EXCEPT ![o] = IdleWindow]
  /\ UNCHANGED <<slot, verdict, nextSession, cancelling, worker, watch, told>>

\* 15 seconds pass for a slot whose task is not over.
Age(i) ==
  /\ slot[i].state \in {"Dispatched", "Claimed"}
  /\ ~slot[i].aged
  /\ slot' = [slot EXCEPT ![i] = [@ EXCEPT !.aged = TRUE]]
  /\ UNCHANGED <<verdict, nextSession, signals, cancelling, living, window, worker,
                 watch, told>>

-----------------------------------------------------------------------------
(* A worker process (apps/7zG/main.cpp).                                   *)

\* claim_task_ipc_task_for_worker; a worker that fails to claim exits.
Claim(s) ==
  LET its == {i \in Slots : /\ Matches(Reclaimed[i], s, worker[s].generation)
                            /\ Reclaimed[i].state = "Dispatched"}
  IN
  /\ worker[s].at = "starting"
  /\ \/ \E i \in its :
          /\ Store([Reclaimed EXCEPT ![i] = PublishStage([@ EXCEPT !.state = "Claimed"], 2)])
          /\ worker' = [worker EXCEPT ![s] = [@ EXCEPT !.at = "claimed", !.slot = i,
                                                       !.owner = slot[i].launcher]]
     \/ its = {} /\ Store(Reclaimed) /\ WorkerTo(s, "gone")
     \/ Contended /\ KeepTable /\ WorkerTo(s, "gone")
  /\ UNCHANGED <<nextSession, signals, cancelling, living, window, watch, told>>

MySlot(s) == slot[worker[s].slot]
StillMine(s) == Matches(MySlot(s), s, worker[s].generation)

PostClaimed(s) ==
  /\ worker[s].at = "claimed"
  /\ WorkerTo(s, "watching")
  /\ Signal(worker[s].owner)
  /\ UNCHANGED <<slot, verdict, nextSession, cancelling, living, window, watch, told>>

\* start_task_ipc_cancel_notification_thread asks once before it starts to
\* wait.  A query that finds the lock busy means no cancel waiter at all,
\* and the task runs all the same.
StartWatch(s) ==
  /\ worker[s].at = "watching"
  /\ \/ /\ StillMine(s) /\ MySlot(s).cancel
        /\ watch' = [watch EXCEPT ![s] = "canceled"]
        /\ worker' = [worker EXCEPT ![s] = [@ EXCEPT !.at = "publish", !.result = "canceled"]]
     \/ /\ ~(StillMine(s) /\ MySlot(s).cancel)
        /\ watch' = [watch EXCEPT ![s] = "waiting"]
        /\ WorkerTo(s, "working")
     \/ /\ Contended
        /\ watch' = [watch EXCEPT ![s] = "lost"]
        /\ WorkerTo(s, "working")
  /\ UNCHANGED <<slot, verdict, nextSession, signals, cancelling, living, window, told>>

WatchWakes(s) ==
  /\ watch[s] = "waiting"
  /\ WorkerAlive(s)
  /\ cancels[s] > 0
  /\ cancels' = [cancels EXCEPT ![s] = @ - 1]
  /\ watch' = [watch EXCEPT ![s] = "woken"]
  /\ UNCHANGED <<slot, verdict, nextSession, signals, asked, living, window, worker, told>>

\* query_task_ipc_cancel_requested from the cancel waiter, which ends when
\* it finds the lock busy.
WatchAsks(s) ==
  /\ watch[s] = "woken"
  /\ WorkerAlive(s)
  /\ \/ watch' = [watch EXCEPT ![s] = IF StillMine(s) /\ MySlot(s).cancel
                                      THEN "canceled" ELSE "waiting"]
     \/ Contended /\ watch' = [watch EXCEPT ![s] = "lost"]
  /\ UNCHANGED <<slot, verdict, nextSession, signals, cancelling, living, window,
                 worker, told>>

\* The job ends: by itself, on request_cancel, or on the user's own cancel.
Finish(s) ==
  /\ worker[s].at = "working"
  /\ \E result \in Outcomes :
        worker' = [worker EXCEPT ![s] = [@ EXCEPT !.at = "publish", !.result = result]]
  /\ UNCHANGED <<slot, verdict, nextSession, signals, cancelling, living, window,
                 watch, told>>

\* publish_task_ipc_completion: nothing is published for a dead launcher; a
\* failure goes on to the minimal publication.
Publish(s) ==
  /\ worker[s].at = "publish"
  /\ \/ worker[s].owner \notin living /\ KeepTable /\ WorkerTo(s, "gone")
     \/ /\ worker[s].owner \in living /\ StillMine(s)
        /\ Store([slot EXCEPT ![worker[s].slot] = PublishCompletion(@, worker[s].result)])
        /\ WorkerTo(s, "post")
     \/ /\ worker[s].owner \in living /\ (~StillMine(s) \/ Contended)
        /\ KeepTable
        /\ WorkerTo(s, "minimal")
  /\ UNCHANGED <<nextSession, signals, cancelling, living, window, watch, told>>

\* publish_task_ipc_completion_minimal: one look at the slot, then three
\* stores and a post, without the lock.
CheckMinimal(s) ==
  /\ worker[s].at = "minimal"
  /\ WorkerTo(s, IF StillMine(s) THEN "store_result" ELSE "gone")
  /\ UNCHANGED <<slot, verdict, nextSession, signals, cancelling, living, window,
                 watch, told>>

StoreResult(s) ==
  /\ worker[s].at = "store_result"
  /\ Store([slot EXCEPT ![worker[s].slot] = [@ EXCEPT !.result = worker[s].result, !.aged = FALSE]])
  /\ WorkerTo(s, "store_event")
  /\ UNCHANGED <<nextSession, signals, cancelling, living, window, watch, told>>

StoreEvent(s) ==
  /\ worker[s].at = "store_event"
  /\ Store([slot EXCEPT ![worker[s].slot] = [@ EXCEPT !.published = 3]])
  /\ WorkerTo(s, "store_state")
  /\ UNCHANGED <<nextSession, signals, cancelling, living, window, watch, told>>

StoreState(s) ==
  /\ worker[s].at = "store_state"
  /\ Store([slot EXCEPT ![worker[s].slot] = [@ EXCEPT !.state = "Completed"]])
  /\ WorkerTo(s, "post")
  /\ UNCHANGED <<nextSession, signals, cancelling, living, window, watch, told>>

PostCompleted(s) ==
  /\ worker[s].at = "post"
  /\ WorkerTo(s, "gone")
  /\ Signal(worker[s].owner)
  /\ UNCHANGED <<slot, verdict, nextSession, cancelling, living, window, watch, told>>

\* A worker that dies with its verdict stored but not posted is mute:
\* nobody tells its owner to look, and no monitor finds it.
WorkerCrash(s) ==
  /\ WorkerAlive(s)
  /\ WorkerTo(s, IF worker[s].at \in {"store_state", "post"} THEN "mute" ELSE "gone")
  /\ UNCHANGED <<slot, verdict, nextSession, signals, cancelling, living, window,
                 watch, told>>

-----------------------------------------------------------------------------
\* The launcher's thread runs on; the user decides when it is idle.
WindowStep(o) ==
  \/ Spawn(o) \/ SpawnFails(o) \/ Record(o) \/ PostDispatched(o) \/ Poll(o)
  \/ \E event \in window[o].inbox : Handle(o, event)

WorkerStep(s) ==
  \/ Claim(s) \/ PostClaimed(s) \/ StartWatch(s) \/ Publish(s) \/ CheckMinimal(s)
  \/ StoreResult(s) \/ StoreEvent(s) \/ StoreState(s) \/ PostCompleted(s)

WatchStep(s) == WatchWakes(s) \/ WatchAsks(s)

Next ==
  \/ \E o \in Owners : Reserve(o) \/ WindowStep(o) \/ Scan(o) \/ OwnerCrash(o)
  \/ \E s \in Sessions : \/ Cancel(s) \/ WorkerStep(s) \/ Finish(s) \/ WatchStep(s)
                         \/ WorkerCrash(s)
  \/ \E i \in Slots : Age(i)

Spec == Init /\ [][Next]_vars

\* Threads of living processes run, the monitor polls every 100 ms and time
\* passes.  A job may run for ever, and nobody has to cancel or crash.
Fairness ==
  /\ \A o \in Owners : WF_vars(WindowStep(o)) /\ WF_vars(Scan(o))
  /\ \A s \in Sessions : WF_vars(WorkerStep(s)) /\ WF_vars(WatchStep(s))
  /\ \A i \in Slots : WF_vars(Age(i))

FairSpec == Spec /\ Fairness

-----------------------------------------------------------------------------
(* What the table promises.                                                *)

Running == {"claimed", "watching", "working", "publish", "minimal",
            "store_result", "store_event"}

\* A worker that claimed its task runs it with the verdict still open: the
\* unclaimed timeout and the exit monitor never speak for a task that a
\* live worker is working on (slots.cpp:144-170 against the claim).
NoRunAfterVerdict ==
  \A s \in Sessions : worker[s].at \in Running => verdict[s] = "none"

\* An owner hears of a task's stages without a gap, whatever polls and
\* acknowledgements found the lock busy (append_pending_events_for_slot).
EventsGapless ==
  [][\A s \in Sessions : heard'[s] <= heard[s] + 1]_vars

\* A slot leaves its task only once the owner has handled the completion,
\* or because the worker could not be started (reclaim_stale_slots,
\* acknowledge_task_ipc_event, dispatch_task_ipc_task_impl).
SlotKeptUntilHeard ==
  [][\A i \in Slots : LET s == slot[i].session IN
       s # 0 /\ slot'[i].session # s =>
         \/ heard'[s] = 3
         \/ \E o \in Owners : window[o].at = "spawn" /\ window[o].session = s]_vars

\* A worker is canceled only if somebody asked for that very task, although
\* a slot's cancel_requested is not reset when the slot is filled again.
NoForeignCancel ==
  \A s \in Sessions : watch[s] = "canceled" => s \in asked

\* Where no lock is ever busy, no event is handled twice: what was
\* acknowledged is not collected again.
HandledOnce ==
  [][\A o \in Owners : o \in living' => \A event \in window[o].inbox \ window'[o].inbox :
        heard[event.session] < event.kind]_vars

\* The task of session s sits in a slot and its launcher o runs.
Awaited(s, o) ==
  o \in living /\ \E i \in Slots : slot[i].session = s /\ slot[i].launcher = o

\* Where no lock is ever busy, every task is over at some time for its
\* living launcher, also when its worker never starts, never claims or
\* crashes; except for a job that never ends and for a worker that crashes
\* between its verdict and its post.
EveryTaskIsHeard ==
  \A s \in Sessions : \A o \in Owners :
    \/ <>[](worker[s].at = "working")
    \/ Awaited(s, o) ~> (~Awaited(s, o) \/ worker[s].at = "mute")

\* Where no lock is ever busy, a stored cancel reaches the worker of a task
\* that would otherwise run on (notifiers.cpp:349-404: the query and the
\* wait leave no gap for a lost post).
CancelReachesWorker ==
  \A s \in Sessions :
    (s \in asked /\ worker[s].at \in {"claimed", "watching", "working"}) ~>
      (watch[s] = "canceled" \/ worker[s].at \notin {"claimed", "watching", "working"})

\* How far a task has got, read off the table: its slot's last event, or
\* over once no slot holds it.
stageOf ==
  [s \in Sessions |->
     IF s >= nextSession THEN 0
     ELSE IF \E i \in Slots : slot[i].session = s
     THEN slot[CHOOSE i \in Slots : slot[i].session = s].published
     ELSE 3]

Lifecycle == INSTANCE TaskLifecycle
  WITH Tasks <- Sessions, Verdicts <- Outcomes, TimedOut <- "unclaimed",
       Died <- "died", NoVerdict <- "none", stage <- stageOf

\* The table implements the lifecycle, with and without contention.
ImplementsLifecycle == Lifecycle!Spec
=============================================================================
