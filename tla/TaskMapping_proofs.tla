-------------------------- MODULE TaskMapping_proofs --------------------------
(***************************************************************************)
(* For any number of tasks, and whether or not locks are busy and exits    *)
(* are notified early: the types of TaskMapping, that no worker runs       *)
(* beside a verdict, that the mappings implement TaskLifecycle, and that   *)
(* no cancel is lost.                                                      *)
(*                                                                         *)
(* NoRunAfterVerdict speaks of the worker and of a history, the code looks *)
(* at slots: the invariant that is inductive ties the two together.  The   *)
(* slot of a running worker says Claimed, one that says Dispatched has no  *)
(* verdict yet, and neither has a task that was not dispatched.            *)
(***************************************************************************)
EXTENDS TaskMapping, TLAPS

RunningSlots ==
  \A t \in Tasks : worker[t].at \in Running =>
    slot[t].state = "Claimed" /\ slot[t].published = 2 /\ verdict[t] = "none"

OfferedSlots ==
  \A t \in Tasks : slot[t].state = "Dispatched" => slot[t].published = 1 /\ verdict[t] = "none"

EmptySlots ==
  \A t \in Tasks : slot[t].state = "Empty" =>
    slot[t].published = 0 /\ (worker[t].at = "none" => verdict[t] = "none")

Verdicts == RunningSlots /\ OfferedSlots /\ EmptySlots

IInv == TypeOK /\ Verdicts

-----------------------------------------------------------------------------
(* The operations on a slot keep its type.                                 *)

LEMMA StageIsSlot ==
  ASSUME NEW e \in SlotType, NEW kind \in 0..3
  PROVE  [e EXCEPT !.published = kind] \in SlotType
BY DEF SlotType

\* publish_task_ipc_stage_event and publish_task_ipc_completion_event
\* (core/slots.cpp) give slots.
LEMMA PublishedStageIsSlot ==
  ASSUME NEW e \in SlotType, NEW kind \in 0..3
  PROVE  PublishStage(e, kind) \in SlotType
BY DEF PublishStage, SlotType

LEMMA PublishedCompletionIsSlot ==
  ASSUME NEW e \in SlotType, NEW result \in Results
  PROVE  PublishCompletion(e, result) \in SlotType
<1>1. [e EXCEPT !.state = "Completed", !.result = result] \in SlotType
  BY DEF SlotType
<1>2. 3 \in 0..3
  OBVIOUS
<1> QED
  BY <1>1, <1>2, PublishedStageIsSlot DEF PublishCompletion

\* So does an acknowledgement.
LEMMA AcknowledgementsAreSlots ==
  ASSUME NEW e \in SlotType, NEW kind \in 0..3
  PROVE  Acknowledge(e, kind) \in SlotType
BY DEF Acknowledge, SlotType

\* What is published and unheard are events.
LEMMA UnheardAreEvents ==
  ASSUME NEW t \in Tasks, slot \in [Tasks -> SlotType]
  PROVE  Unheard(t) \subseteq EventType
<1>1. slot[t] \in SlotType
  OBVIOUS
<1>2. slot[t].acknowledged \in 0..3 /\ slot[t].published \in 0..3 /\ slot[t].result \in Results
  BY <1>1 DEF SlotType
<1> QED
  BY <1>2 DEF Unheard, EventType

\* A stored slot keeps the types of slot and verdict.
LEMMA StoreIsTyped ==
  ASSUME TypeOK, NEW t \in Tasks, NEW e \in SlotType, Store(t, e)
  PROVE  slot' \in [Tasks -> SlotType] /\ verdict' \in [Tasks -> Results]
<1>1. e.result \in Results
  BY DEF SlotType
<1> QED
  BY <1>1 DEF Store, TypeOK

-----------------------------------------------------------------------------
(* The types.                                                              *)

LEMMA WindowKeepsTypes ==
  ASSUME TypeOK, WindowStep \/ LauncherCrash \/ \E t \in Tasks : Dispatch(t)
  PROVE  TypeOK'
<1>1. ASSUME NEW t \in Tasks, Dispatch(t) PROVE TypeOK'
  <2>1. [EmptySlot EXCEPT !.state = "Dispatched", !.published = 1] \in SlotType
    <3>1. [EmptySlot EXCEPT !.state = "Dispatched"] \in SlotType
      <4>1. slot[t] \in SlotType /\ slot[t] = EmptySlot
        BY <1>1 DEF Dispatch, TypeOK
      <4>2. [slot[t] EXCEPT !.state = "Dispatched"] \in SlotType
        BY <4>1 DEF SlotType
      <4> QED
        BY <4>1, <4>2
    <3>2. 1 \in 0..3
      OBVIOUS
    <3>3. [[EmptySlot EXCEPT !.state = "Dispatched"] EXCEPT !.published = 1] \in SlotType
      BY <3>1, <3>2, StageIsSlot
    <3> QED
      BY <3>3
  <2>2. slot' \in [Tasks -> SlotType] /\ verdict' \in [Tasks -> Results]
    BY <1>1, <2>1, StoreIsTyped DEF Dispatch
  <2>3. window' \in [at : WindowPlaces, tasks : SUBSET Tasks, inbox : SUBSET EventType]
    BY <1>1 DEF Dispatch, IdleWindow, WindowPlaces
  <2>4. timer' \in [Tasks -> Sources]
    BY <1>1 DEF Dispatch, TypeOK, Sources
  <2>5. registry' \subseteq Tasks /\ linked' \subseteq Tasks
    BY <1>1 DEF Dispatch, TypeOK
  <2>6. UNCHANGED <<living, signals, exits, cancelling, worker, watch, told, missed>>
    BY <1>1 DEF Dispatch
  <2> QED
    BY <2>2, <2>3, <2>4, <2>5, <2>6 DEF TypeOK, cancelling, told
<1>2. ASSUME NEW t \in Tasks, Spawn(t) PROVE TypeOK'
  <2>1. window' \in [at : WindowPlaces, tasks : SUBSET Tasks, inbox : SUBSET EventType]
    BY <1>2 DEF Spawn, WindowTo, TypeOK, WindowPlaces
  <2>2. worker' \in [Tasks -> [at : WorkerPlaces, result : Results]]
    BY <1>2 DEF Spawn, TypeOK, WorkerPlaces
  <2>3. /\ KeepSlots /\ KeepMappings
        /\ UNCHANGED <<living, signals, cancelling, watch, told, missed>>
    BY <1>2 DEF Spawn
  <2> QED
    BY <2>1, <2>2, <2>3 DEF KeepSlots, KeepMappings, TypeOK, cancelling, told
<1>3. ASSUME NEW t \in Tasks, SpawnFails(t) PROVE TypeOK'
  <2>1. EmptySlot \in SlotType
    BY DEF EmptySlot, SlotType, Results, Outcomes
  <2> QED
    BY <1>3, <2>1 DEF SpawnFails, Forget, TypeOK, cancelling, told, IdleWindow, WindowPlaces,
       Sources, WorkerPlaces
<1>4. ASSUME NEW t \in Tasks, Record(t) PROVE TypeOK'
  <2>1. slot[t] \in SlotType
    BY DEF TypeOK
  <2>2. slot' \in [Tasks -> SlotType] /\ verdict' \in [Tasks -> Results]
    <3>1. CASE KeepSlots
      BY <3>1 DEF KeepSlots, TypeOK
    <3>2. CASE Store(t, IF slot[t].state = "Dispatched"
                        THEN [slot[t] EXCEPT !.recorded = TRUE, !.fresh = TRUE] ELSE slot[t])
      <4>1. [slot[t] EXCEPT !.recorded = TRUE, !.fresh = TRUE] \in SlotType
        BY <2>1 DEF SlotType
      <4> QED
        BY <2>1, <3>2, <4>1, StoreIsTyped
    <3> QED
      BY <1>4, <3>1, <3>2 DEF Record
  <2> QED
    BY <1>4, <2>2 DEF Record, WindowTo, KeepMappings, TypeOK, cancelling, told, WindowPlaces
<1>5. ASSUME NEW t \in Tasks, StartMonitor(t) PROVE TypeOK'
  <2>1. exits' \in [Tasks -> Sources] /\ missed' \subseteq Tasks
    BY <1>5 DEF StartMonitor, Monitor, TypeOK, Sources
  <2> QED
    BY <1>5, <2>1 DEF StartMonitor, Monitor, WindowTo, KeepSlots, TypeOK, cancelling, told, WindowPlaces,
     Sources
<1>6. ASSUME NEW t \in Tasks, PostDispatched(t) PROVE TypeOK'
  BY <1>6 DEF PostDispatched, Signal, KeepSlots, KeepMappings, TypeOK, cancelling, told,
     IdleWindow, WindowPlaces
<1>7. CASE Poll
  <2>1. PICK busy \in SUBSET registry :
          /\ LET events == UNION {Unheard(t) : t \in registry \ busy}
             IN window' = IF events = {} THEN window
                          ELSE [IdleWindow EXCEPT !.at = "handle", !.inbox = events]
          /\ missed' = missed \cup {t \in busy : Unheard(t) # {}}
    BY <1>7 DEF Poll
  <2>2. registry \subseteq Tasks /\ busy \subseteq Tasks
    BY <2>1 DEF TypeOK
  <2>3. \A t \in registry : Unheard(t) \subseteq EventType
    BY <2>2, UnheardAreEvents DEF TypeOK
  <2>4. UNION {Unheard(t) : t \in registry \ busy} \subseteq EventType
    BY <2>3
  <2>5. window' \in [at : WindowPlaces, tasks : SUBSET Tasks, inbox : SUBSET EventType]
    BY <2>1, <2>4 DEF TypeOK, IdleWindow, WindowPlaces
  <2>6. missed' \subseteq Tasks
    BY <2>1, <2>2 DEF TypeOK
  <2>7. signals' \in Nat
    BY <1>7 DEF Poll, TypeOK
  <2>8. UNCHANGED <<slot, verdict, registry, linked, timer, exits, living, cancelling, worker,
                    watch, told>>
    BY <1>7 DEF Poll, KeepSlots, KeepMappings
  <2> QED
    BY <2>5, <2>6, <2>7, <2>8 DEF TypeOK, cancelling, told
<1>8. ASSUME NEW event \in window.inbox, Handle(event) PROVE TypeOK'
  <2>1. event \in EventType
    BY <1>8 DEF TypeOK
  <2>2. event.task \in Tasks /\ event.kind \in 1..3 /\ event.result \in Results
    BY <2>1 DEF EventType
  <2> DEFINE t == event.task
  <2>3. Acknowledge(slot[t], event.kind) \in SlotType
    <3>1. slot[t] \in SlotType /\ event.kind \in 0..3
      BY <2>2 DEF TypeOK
    <3> QED
      BY <3>1, AcknowledgementsAreSlots
  <2>4. /\ slot' \in [Tasks -> SlotType] /\ verdict' \in [Tasks -> Results]
        /\ registry' \subseteq Tasks /\ linked' \subseteq Tasks
        /\ timer' \in [Tasks -> Sources] /\ exits' \in [Tasks -> Sources]
    <3>1. CASE KeepSlots /\ KeepMappings
      BY <3>1 DEF KeepSlots, KeepMappings, TypeOK
    <3>2. CASE /\ Store(t, Acknowledge(slot[t], event.kind))
               /\ ForgetHeard(t, Acknowledge(slot[t], event.kind))
      <4>1. slot' \in [Tasks -> SlotType] /\ verdict' \in [Tasks -> Results]
        BY <2>2, <2>3, <3>2, StoreIsTyped
      <4>2. Forget(t) \/ KeepMappings
        BY <3>2 DEF ForgetHeard
      <4> QED
        BY <4>1, <4>2 DEF Forget, KeepMappings, TypeOK, Sources
    <3> QED
      BY <1>8, <3>1, <3>2 DEF Handle
  <2>5. window' \in [at : WindowPlaces, tasks : SUBSET Tasks, inbox : SUBSET EventType]
    BY <1>8 DEF Handle, TypeOK, IdleWindow, WindowPlaces
  <2>6. heard' \in [Tasks -> 0..3] /\ toldAs' \in [Tasks -> Results]
    BY <1>8, <2>2 DEF Handle, TypeOK
  <2> QED
    BY <1>8, <2>4, <2>5, <2>6 DEF Handle, TypeOK, cancelling
<1>9. CASE LauncherCrash
  BY <1>9 DEF LauncherCrash, KeepSlots, TypeOK, told, IdleWindow, WindowPlaces, Sources
<1> QED
  BY <1>1, <1>2, <1>3, <1>4, <1>5, <1>6, <1>7, <1>8, <1>9 DEF WindowStep

LEMMA EventsKeepTypes ==
  ASSUME TypeOK, NEW t \in Tasks, TimerFires(t) \/ ExitSeen(t) \/ StoreCancel(t) \/ PostCancel(t)
  PROVE  TypeOK'
<1>1. slot[t] \in SlotType
  BY DEF TypeOK
<1>2. CASE TimerFires(t)
  <2>1. slot' \in [Tasks -> SlotType] /\ verdict' \in [Tasks -> Results]
    <3>1. "unclaimed" \in Results
      BY DEF Results
    <3>2. PublishCompletion(slot[t], "unclaimed") \in SlotType
      BY <1>1, <3>1, PublishedCompletionIsSlot
    <3> QED
      BY <1>2, <3>2, StoreIsTyped DEF TimerFires, KeepSlots, TypeOK
  <2>2. signals' \in Nat
    BY <1>2 DEF TimerFires, Signal, TypeOK
  <2> QED
    BY <1>2, <2>1, <2>2 DEF TimerFires, TypeOK, cancelling, told, Sources
<1>3. CASE ExitSeen(t)
  <2>1. slot' \in [Tasks -> SlotType] /\ verdict' \in [Tasks -> Results]
    <3>1. "died" \in Results
      BY DEF Results
    <3>2. PublishCompletion(slot[t], "died") \in SlotType
      BY <1>1, <3>1, PublishedCompletionIsSlot
    <3> QED
      BY <1>3, <3>2, StoreIsTyped DEF ExitSeen, KeepSlots, TypeOK
  <2>2. signals' \in Nat /\ missed' \subseteq Tasks
    BY <1>3 DEF ExitSeen, Signal, TypeOK
  <2> QED
    BY <1>3, <2>1, <2>2 DEF ExitSeen, TypeOK, cancelling, told, Sources
<1>4. CASE StoreCancel(t)
  <2>1. [slot[t] EXCEPT !.cancel = TRUE, !.fresh = TRUE] \in SlotType
    BY <1>1 DEF SlotType
  <2>2. slot' \in [Tasks -> SlotType] /\ verdict' \in [Tasks -> Results]
    BY <1>4, <2>1, StoreIsTyped DEF StoreCancel
  <2> QED
    BY <1>4, <2>2 DEF StoreCancel, TypeOK, launcher, told
<1>5. CASE PostCancel(t)
  BY <1>5 DEF PostCancel, Post, KeepSlots, TypeOK, launcher, told
<1> QED
  BY <1>2, <1>3, <1>4, <1>5

LEMMA WorkersKeepTypes ==
  ASSUME TypeOK, NEW t \in Tasks, WorkerStep(t) \/ WatchStep(t) \/ Finish(t) \/ WorkerCrash(t)
  PROVE  TypeOK'
<1>1. slot[t] \in SlotType /\ worker[t] \in [at : WorkerPlaces, result : Results]
  BY DEF TypeOK
<1>2. worker[t].result \in Results
  BY <1>1
<1>3. ASSUME NEW place \in WorkerPlaces, WorkerTo(t, place)
      PROVE  worker' \in [Tasks -> [at : WorkerPlaces, result : Results]]
  BY <1>1, <1>3 DEF WorkerTo, TypeOK, Results
<1>4. CASE Claim(t)
  <2>1. PublishStage([slot[t] EXCEPT !.state = "Claimed", !.recorded = TRUE], 2) \in SlotType
    <3>1. [slot[t] EXCEPT !.state = "Claimed", !.recorded = TRUE] \in SlotType
      BY <1>1 DEF SlotType
    <3>2. 2 \in 0..3
      OBVIOUS
    <3> QED
      BY <3>1, <3>2, PublishedStageIsSlot
  <2>2. slot' \in [Tasks -> SlotType] /\ verdict' \in [Tasks -> Results]
    BY <1>4, <2>1, StoreIsTyped DEF Claim, KeepSlots, TypeOK
  <2>3. worker' \in [Tasks -> [at : WorkerPlaces, result : Results]]
    BY <1>3, <1>4 DEF Claim, WorkerPlaces
  <2> QED
    BY <1>4, <2>2, <2>3 DEF Claim, TypeOK, launcher, cancelling, told
<1>5. CASE Publish(t)
  <2>1. PublishCompletion(slot[t], worker[t].result) \in SlotType
    BY <1>1, <1>2, PublishedCompletionIsSlot
  <2>2. slot' \in [Tasks -> SlotType] /\ verdict' \in [Tasks -> Results]
    BY <1>5, <2>1, StoreIsTyped DEF Publish, KeepSlots, TypeOK
  <2>3. worker' \in [Tasks -> [at : WorkerPlaces, result : Results]]
    BY <1>3, <1>5 DEF Publish, WorkerPlaces
  <2> QED
    BY <1>5, <2>2, <2>3 DEF Publish, TypeOK, launcher, cancelling, told
<1>6. CASE StoreResult(t) \/ StoreEvent(t) \/ StoreState(t)
  <2>1. /\ [slot[t] EXCEPT !.result = worker[t].result, !.fresh = TRUE] \in SlotType
        /\ [slot[t] EXCEPT !.state = "Completed"] \in SlotType
    BY <1>1, <1>2 DEF SlotType
  <2>2. slot' \in [Tasks -> SlotType] /\ verdict' \in [Tasks -> Results]
    <3>1. [slot[t] EXCEPT !.published = 3] \in SlotType
      <4>1. 3 \in 0..3
        OBVIOUS
      <4> QED
        BY <1>1, <4>1, StageIsSlot
    <3> QED
      BY <1>6, <2>1, <3>1, StoreIsTyped DEF StoreResult, StoreEvent, StoreState
  <2>3. worker' \in [Tasks -> [at : WorkerPlaces, result : Results]]
    BY <1>3, <1>6 DEF StoreResult, StoreEvent, StoreState, WorkerPlaces
  <2> QED
    BY <1>6, <2>2, <2>3 DEF StoreResult, StoreEvent, StoreState, TypeOK, launcher, cancelling, told
<1>7. CASE PostClaimed(t) \/ PostCompleted(t)
  <2>1. worker' \in [Tasks -> [at : WorkerPlaces, result : Results]]
    BY <1>3, <1>7 DEF PostClaimed, PostCompleted, WorkerPlaces
  <2>2. signals' \in Nat
    BY <1>7 DEF PostClaimed, PostCompleted, Signal, TypeOK
  <2> QED
    BY <1>7, <2>1, <2>2 DEF PostClaimed, PostCompleted, KeepSlots, KeepMappings, TypeOK,
       cancelling, told
<1>8. CASE StartWatch(t)
  <2>1. worker' \in [Tasks -> [at : WorkerPlaces, result : Results]]
    BY <1>3, <1>8 DEF StartWatch, WorkerPlaces, Results, Outcomes, TypeOK
  <2> QED
    BY <1>8, <2>1 DEF StartWatch, KeepSlots, TypeOK, launcher, cancelling, told
<1>9. CASE OpenMinimal(t) \/ WorkerCrash(t)
  <2>1. worker' \in [Tasks -> [at : WorkerPlaces, result : Results]]
    BY <1>3, <1>9 DEF OpenMinimal, WorkerCrash, WorkerPlaces
  <2> QED
    BY <1>9, <2>1 DEF OpenMinimal, WorkerCrash, KeepSlots, TypeOK, launcher, cancelling, told
<1>10. CASE WatchStep(t)
  <2>1. cancels' \in [Tasks -> Nat]
    BY <1>10 DEF WatchStep, WatchWakes, WatchAsks, TypeOK, cancelling
  <2>2. watch' \in [Tasks -> {"off", "waiting", "woken", "canceled"}]
    BY <1>10 DEF WatchStep, WatchWakes, WatchAsks, TypeOK
  <2> QED
    BY <1>10, <2>1, <2>2 DEF WatchStep, WatchWakes, WatchAsks, KeepSlots, TypeOK, launcher,
       cancelling, told
<1>11. CASE Finish(t)
  BY <1>11 DEF Finish, KeepSlots, TypeOK, launcher, cancelling, told, WorkerPlaces, Results
<1> QED
  BY <1>4, <1>5, <1>6, <1>7, <1>8, <1>9, <1>10, <1>11 DEF WorkerStep

LEMMA StepKeepsTypes ==
  ASSUME TypeOK, [Next]_vars PROVE TypeOK'
<1>1. CASE UNCHANGED vars
  BY <1>1 DEF vars, launcher, cancelling, told, TypeOK
<1> QED
  BY <1>1, WindowKeepsTypes, EventsKeepTypes, WorkersKeepTypes DEF Next

-----------------------------------------------------------------------------
(* The invariant.                                                          *)

\* The fields that the invariant speaks of, after a publication.
LEMMA PublicationFields ==
  ASSUME NEW e \in SlotType, NEW result \in Results
  PROVE  /\ PublishCompletion(e, result).state = "Completed"
         /\ e.state = "Dispatched" /\ e.published = 1 =>
              /\ PublishStage([e EXCEPT !.state = "Claimed", !.recorded = TRUE], 2).state = "Claimed"
              /\ PublishStage([e EXCEPT !.state = "Claimed", !.recorded = TRUE], 2).published = 2
BY DEF PublishCompletion, PublishStage, SlotType

LEMMA InitHasInvariant == Init => IInv
<1> SUFFICES ASSUME Init PROVE IInv
  OBVIOUS
<1>1. EmptySlot \in SlotType
  BY DEF EmptySlot, SlotType, Results, Outcomes
<1>2. TypeOK
  BY <1>1 DEF Init, TypeOK, IdleWindow, WindowPlaces, Sources, WorkerPlaces, Results
<1>3. Verdicts
  BY DEF Init, Verdicts, RunningSlots, OfferedSlots, EmptySlots, Running, EmptySlot
<1> QED
  BY <1>2, <1>3 DEF IInv, Verdicts

\* A step that changes one task only has to keep the invariant for it.
LEMMA OneTaskChanges ==
  ASSUME IInv, NEW t \in Tasks,
         \A s \in Tasks \ {t} : slot'[s] = slot[s] /\ worker'[s] = worker[s] /\ verdict'[s] = verdict[s],
         worker'[t].at \in Running =>
           slot'[t].state = "Claimed" /\ slot'[t].published = 2 /\ verdict'[t] = "none",
         slot'[t].state = "Dispatched" => slot'[t].published = 1 /\ verdict'[t] = "none",
         slot'[t].state = "Empty" =>
           slot'[t].published = 0 /\ (worker'[t].at = "none" => verdict'[t] = "none")
  PROVE  Verdicts'
BY DEF IInv, Verdicts, RunningSlots, OfferedSlots, EmptySlots

\* The launcher stores in slots of tasks that no worker runs, or what keeps the
\* invariant of those that one does.
LEMMA WindowKeepsInvariant ==
  ASSUME IInv, WindowStep \/ LauncherCrash \/ \E t \in Tasks : Dispatch(t)
  PROVE  Verdicts'
<1> USE DEF IInv, Verdicts
<1>1. ASSUME UNCHANGED <<slot, worker, verdict>> PROVE Verdicts'
  BY <1>1 DEF Verdicts, RunningSlots, OfferedSlots, EmptySlots
<1>2. ASSUME NEW t \in Tasks, Dispatch(t) PROVE Verdicts'
  <2>1. slot[t].state = "Empty" /\ worker[t].at = "none" /\ verdict[t] = "none"
    <3>1. slot[t] = EmptySlot /\ worker[t].at = "none"
      BY <1>2 DEF Dispatch
    <3>2. EmptySlot.state = "Empty"
      BY DEF EmptySlot
    <3> QED
      BY <3>1, <3>2 DEF EmptySlots
  <2>2. slot'[t].state = "Dispatched" /\ slot'[t].published = 1 /\ verdict'[t] = "none"
    <3> DEFINE e == [EmptySlot EXCEPT !.state = "Dispatched", !.published = 1]
    <3>1. e.state = "Dispatched" /\ e.published = 1
      BY DEF EmptySlot
    <3>2. Store(t, e)
      BY <1>2 DEF Dispatch
    <3> HIDE DEF e
    <3>3. slot'[t] = e /\ verdict' = verdict
      BY <3>1, <3>2 DEF Store, TypeOK
    <3> QED
      BY <2>1, <3>1, <3>3
  <2>3. \A s \in Tasks \ {t} : slot'[s] = slot[s] /\ worker'[s] = worker[s] /\ verdict'[s] = verdict[s]
    <3> DEFINE e == [EmptySlot EXCEPT !.state = "Dispatched", !.published = 1]
    <3>1. Store(t, e) /\ worker' = worker
      BY <1>2 DEF Dispatch
    <3> HIDE DEF e
    <3>2. slot' = [slot EXCEPT ![t] = e]
      BY <3>1 DEF Store
    <3>3. \A s \in Tasks \ {t} : slot'[s] = slot[s]
      BY <3>2 DEF TypeOK
    <3>4. \A s \in Tasks \ {t} : verdict'[s] = verdict[s]
      BY <3>1 DEF Store, TypeOK
    <3> QED
      BY <3>1, <3>3, <3>4
  <2>4. worker'[t].at \notin Running
    BY <1>2, <2>1 DEF Dispatch, Running
  <2> QED
    BY <2>2, <2>3, <2>4, OneTaskChanges
<1>3. ASSUME NEW t \in Tasks, Spawn(t) PROVE Verdicts'
  <2>1. worker'[t].at = "starting" /\ UNCHANGED <<slot, verdict>>
    BY <1>3 DEF Spawn, KeepSlots, TypeOK
  <2>2. \A s \in Tasks \ {t} : slot'[s] = slot[s] /\ worker'[s] = worker[s] /\ verdict'[s] = verdict[s]
    BY <1>3, <2>1 DEF Spawn, TypeOK
  <2> QED
    BY <2>1, <2>2, OneTaskChanges DEF Running, OfferedSlots, EmptySlots
<1>4. ASSUME NEW t \in Tasks, SpawnFails(t) PROVE Verdicts'
  <2>1. /\ worker'[t].at = "gone" /\ UNCHANGED verdict
        /\ slot'[t].state = "Empty" /\ slot'[t].published = 0
    BY <1>4 DEF SpawnFails, TypeOK, EmptySlot
  <2>2. \A s \in Tasks \ {t} : slot'[s] = slot[s] /\ worker'[s] = worker[s] /\ verdict'[s] = verdict[s]
    BY <1>4, <2>1 DEF SpawnFails, TypeOK
  <2>3. worker'[t].at \notin Running /\ worker'[t].at # "none"
    BY <2>1 DEF Running
  <2>4. slot'[t].state # "Dispatched"
    BY <2>1
  <2> QED
    BY <2>1, <2>2, <2>3, <2>4, OneTaskChanges
<1>5. ASSUME NEW t \in Tasks, NEW e \in SlotType, Store(t, e), UNCHANGED worker,
             e.state = slot[t].state, e.published = slot[t].published
      PROVE  Verdicts'
  <2>1. slot'[t] = e
    BY <1>5 DEF Store, TypeOK
  <2>2. \A s \in Tasks \ {t} : slot'[s] = slot[s] /\ worker'[s] = worker[s] /\ verdict'[s] = verdict[s]
    BY <1>5 DEF Store, TypeOK
  <2>3. e.published # 3 => verdict' = verdict
    BY <1>5 DEF Store
  <2> QED
    BY <1>5, <2>1, <2>2, <2>3, OneTaskChanges DEF RunningSlots, OfferedSlots, EmptySlots
<1>6. ASSUME NEW t \in Tasks, Record(t) PROVE Verdicts'
  <2>1. slot[t] \in SlotType
    BY DEF TypeOK
  <2>2. [slot[t] EXCEPT !.recorded = TRUE, !.fresh = TRUE] \in SlotType
    BY <2>1 DEF SlotType
  <2>3. CASE KeepSlots
    BY <1>1, <1>6, <2>3 DEF Record, KeepSlots
  <2>4. CASE Store(t, IF slot[t].state = "Dispatched"
                      THEN [slot[t] EXCEPT !.recorded = TRUE, !.fresh = TRUE] ELSE slot[t])
    <3>1. /\ [slot[t] EXCEPT !.recorded = TRUE, !.fresh = TRUE].state = slot[t].state
          /\ [slot[t] EXCEPT !.recorded = TRUE, !.fresh = TRUE].published = slot[t].published
      BY <2>1 DEF SlotType
    <3> QED
      BY <1>5, <1>6, <2>1, <2>2, <2>4, <3>1 DEF Record
  <2> QED
    BY <1>6, <2>3, <2>4 DEF Record
<1>7. ASSUME NEW event \in window.inbox, Handle(event) PROVE Verdicts'
  <2> DEFINE t == event.task
  <2>1. t \in Tasks /\ event.kind \in 0..3
    BY <1>7 DEF TypeOK, EventType
  <2>2. slot[t] \in SlotType
    BY <2>1 DEF TypeOK
  <2>3. /\ Acknowledge(slot[t], event.kind) \in SlotType
        /\ Acknowledge(slot[t], event.kind).state = slot[t].state
        /\ Acknowledge(slot[t], event.kind).published = slot[t].published
    BY <2>1, <2>2, AcknowledgementsAreSlots DEF Acknowledge, SlotType
  <2>4. KeepSlots \/ Store(t, Acknowledge(slot[t], event.kind))
    BY <1>7 DEF Handle
  <2>5. UNCHANGED worker
    BY <1>7 DEF Handle
  <2> QED
    BY <1>1, <1>5, <2>1, <2>3, <2>4, <2>5 DEF KeepSlots
<1>8. ASSUME NEW t \in Tasks, StartMonitor(t) \/ PostDispatched(t) PROVE Verdicts'
  BY <1>1, <1>8 DEF StartMonitor, PostDispatched, KeepSlots
<1>9. CASE Poll \/ LauncherCrash
  BY <1>1, <1>9 DEF Poll, LauncherCrash, KeepSlots
<1> QED
  BY <1>2, <1>3, <1>4, <1>6, <1>7, <1>8, <1>9 DEF WindowStep

\* The timer looks for offers, the exit monitor for workers that are not alive.
LEMMA EventsKeepInvariant ==
  ASSUME IInv, NEW t \in Tasks, TimerFires(t) \/ ExitSeen(t) \/ StoreCancel(t) \/ PostCancel(t)
  PROVE  Verdicts'
<1> USE DEF IInv, Verdicts
<1>1. slot[t] \in SlotType
  BY DEF TypeOK
<1>2. UNCHANGED worker
  BY DEF TimerFires, ExitSeen, StoreCancel, PostCancel
<1>3. CASE KeepSlots
  BY <1>2, <1>3 DEF KeepSlots, Verdicts, RunningSlots, OfferedSlots, EmptySlots
<1>4. ASSUME NEW e, Store(t, e)
      PROVE  /\ slot'[t] = e
             /\ \A s \in Tasks \ {t} :
                  slot'[s] = slot[s] /\ worker'[s] = worker[s] /\ verdict'[s] = verdict[s]
  BY <1>2, <1>4 DEF Store, TypeOK
<1>5. ASSUME NEW result \in Results, Store(t, PublishCompletion(slot[t], result)),
             worker[t].at \notin Running
      PROVE  Verdicts'
  <2>1. PublishCompletion(slot[t], result).state = "Completed"
    BY <1>1, PublicationFields
  <2> QED
    BY <1>2, <1>4, <1>5, <2>1, OneTaskChanges
<1>6. CASE Unclaimed(slot[t]) /\ Store(t, PublishCompletion(slot[t], "unclaimed"))
  <2>1. worker[t].at \notin Running
    BY <1>6 DEF Unclaimed, RunningSlots
  <2> QED
    BY <1>5, <1>6, <2>1 DEF Results
<1>7. CASE WorkerExited(t) /\ Store(t, PublishCompletion(slot[t], "died"))
  <2>1. worker[t].at \notin Running
    BY <1>7 DEF WorkerExited, WorkerAlive, Running
  <2> QED
    BY <1>5, <1>7, <2>1 DEF Results
<1>8. CASE StoreCancel(t)
  <2> DEFINE e == [slot[t] EXCEPT !.cancel = TRUE, !.fresh = TRUE]
  <2>1. e.state = slot[t].state /\ e.published = slot[t].published
    BY <1>1 DEF SlotType
  <2>2. Store(t, e) /\ slot[t].state # "Empty"
    BY <1>8 DEF StoreCancel
  <2> HIDE DEF e
  <2>3. e.published # 3 => verdict' = verdict
    BY <2>2 DEF Store
  <2> QED
    BY <1>2, <1>4, <2>1, <2>2, <2>3, OneTaskChanges DEF RunningSlots, OfferedSlots
<1> QED
  BY <1>3, <1>6, <1>7, <1>8 DEF TimerFires, ExitSeen, PostCancel

\* A worker starts to run with a claim, and stops before it publishes.
LEMMA WorkersKeepInvariant ==
  ASSUME IInv, NEW t \in Tasks, WorkerStep(t) \/ WatchStep(t) \/ Finish(t) \/ WorkerCrash(t)
  PROVE  Verdicts'
<1> USE DEF IInv, Verdicts
<1>1. slot[t] \in SlotType /\ worker[t].result \in Results
  BY DEF TypeOK
<1>2. ASSUME WatchStep(t) PROVE Verdicts'
  BY <1>2 DEF WatchStep, WatchWakes, WatchAsks, KeepSlots, Verdicts, RunningSlots, OfferedSlots,
     EmptySlots
\* The steps that store nothing.
<1>3. ASSUME KeepSlots, NEW w, worker' = [worker EXCEPT ![t] = w], w.at # "none",
             w.at \in Running => worker[t].at \in Running
      PROVE  Verdicts'
  <2>1. worker'[t] = w
    BY <1>3 DEF TypeOK
  <2>2. \A s \in Tasks \ {t} : slot'[s] = slot[s] /\ worker'[s] = worker[s] /\ verdict'[s] = verdict[s]
    BY <1>3 DEF TypeOK, KeepSlots
  <2> QED
    BY <1>3, <2>1, <2>2, OneTaskChanges DEF KeepSlots, RunningSlots, OfferedSlots, EmptySlots
<1>4. ASSUME KeepSlots, NEW place, WorkerTo(t, place), place # "none",
             place \in Running => worker[t].at \in Running
      PROVE  Verdicts'
  <2> DEFINE w == IF place \in {"gone", "mute"} THEN [at |-> place, result |-> "none"]
                  ELSE [worker[t] EXCEPT !.at = place]
  <2>1. worker' = [worker EXCEPT ![t] = w]
    BY <1>4 DEF WorkerTo
  <2>2. w.at = place
    <3>1. worker[t] \in [at : WorkerPlaces, result : Results]
      BY DEF TypeOK
    <3> QED
      BY <3>1
  <2> HIDE DEF w
  <2> QED
    BY <1>3, <1>4, <2>1, <2>2
<1>5. CASE PostClaimed(t)
  BY <1>4, <1>5 DEF PostClaimed, Running
<1>6. CASE PostCompleted(t)
  BY <1>4, <1>6 DEF PostCompleted, Running
<1>7. CASE OpenMinimal(t)
  BY <1>4, <1>7 DEF OpenMinimal, Running
<1>8. CASE WorkerCrash(t)
  BY <1>4, <1>8 DEF WorkerCrash, Running
<1>9. CASE StartWatch(t)
  <2>1. CASE slot[t].cancel
    BY <1>3, <1>9, <2>1 DEF StartWatch, Running
  <2>2. CASE ~slot[t].cancel
    BY <1>4, <1>9, <2>2 DEF StartWatch, Running
  <2> QED
    BY <2>1, <2>2
<1>10. CASE Finish(t)
  BY <1>3, <1>10 DEF Finish, Running
\* The steps that store.
<1>11. ASSUME NEW e, Store(t, e), NEW place \in WorkerPlaces, WorkerTo(t, place),
              place \notin {"none", "gone", "mute"},
              e.state \in {"Claimed", "Completed"},
              place \in Running => e.state = "Claimed" /\ e.published = 2 /\ verdict[t] = "none"
       PROVE  Verdicts'
  <2>1. slot'[t] = e /\ worker'[t].at = place
    BY <1>11 DEF Store, WorkerTo, TypeOK
  <2>2. \A s \in Tasks \ {t} : slot'[s] = slot[s] /\ worker'[s] = worker[s] /\ verdict'[s] = verdict[s]
    BY <1>11 DEF Store, WorkerTo, TypeOK
  <2>3. e.published = 2 => verdict' = verdict
    BY <1>11 DEF Store
  <2> QED
    BY <1>11, <2>1, <2>2, <2>3, OneTaskChanges
<1>12. CASE Claim(t)
  <2>1. CASE KeepSlots /\ WorkerTo(t, "gone")
    BY <1>4, <2>1 DEF Running
  <2>2. CASE /\ slot[t].state = "Dispatched"
             /\ Store(t, PublishStage([slot[t] EXCEPT !.state = "Claimed", !.recorded = TRUE], 2))
             /\ WorkerTo(t, "claimed")
    <3> DEFINE e == PublishStage([slot[t] EXCEPT !.state = "Claimed", !.recorded = TRUE], 2)
    <3>1. slot[t].published = 1 /\ verdict[t] = "none"
      BY <2>2 DEF OfferedSlots
    <3>2. e.state = "Claimed" /\ e.published = 2
      <4>1. "ok" \in Results
        BY DEF Results, Outcomes
      <4> QED
        BY <1>1, <2>2, <3>1, <4>1, PublicationFields
    <3> HIDE DEF e
    <3> QED
      BY <1>11, <2>2, <3>1, <3>2 DEF WorkerPlaces, e
  <2> QED
    BY <1>12, <2>1, <2>2 DEF Claim
<1>13. CASE Publish(t)
  <2>1. CASE KeepSlots /\ (WorkerTo(t, "gone") \/ WorkerTo(t, "minimal"))
    BY <1>4, <1>13, <2>1 DEF Publish, Running
  <2>2. CASE Store(t, PublishCompletion(slot[t], worker[t].result)) /\ WorkerTo(t, "post")
    <3>1. PublishCompletion(slot[t], worker[t].result).state = "Completed"
      BY <1>1, PublicationFields
    <3> QED
      BY <1>11, <2>2, <3>1 DEF Running, WorkerPlaces
  <2> QED
    BY <1>13, <2>1, <2>2 DEF Publish
<1>14. CASE StoreResult(t)
  <2> DEFINE e == [slot[t] EXCEPT !.result = worker[t].result, !.fresh = TRUE]
  <2>1. slot[t].state = "Claimed" /\ slot[t].published = 2 /\ verdict[t] = "none"
    BY <1>14 DEF StoreResult, RunningSlots, Running
  <2>2. e.state = "Claimed" /\ e.published = 2
    BY <1>1, <2>1 DEF SlotType
  <2>3. Store(t, e) /\ WorkerTo(t, "store_event")
    BY <1>14 DEF StoreResult
  <2> HIDE DEF e
  <2> QED
    BY <1>11, <2>1, <2>2, <2>3 DEF WorkerPlaces
<1>15. CASE StoreEvent(t)
  <2> DEFINE e == [slot[t] EXCEPT !.published = 3]
  <2>1. slot[t].state = "Claimed"
    BY <1>15 DEF StoreEvent, RunningSlots, Running
  <2>2. e.state = "Claimed"
    BY <1>1, <2>1 DEF SlotType
  <2>3. Store(t, e) /\ WorkerTo(t, "store_state")
    BY <1>15 DEF StoreEvent
  <2> HIDE DEF e
  <2> QED
    BY <1>11, <2>2, <2>3 DEF WorkerPlaces, Running
<1>16. CASE StoreState(t)
  <2> DEFINE e == [slot[t] EXCEPT !.state = "Completed"]
  <2>1. e.state = "Completed"
    BY <1>1 DEF SlotType
  <2>2. Store(t, e) /\ WorkerTo(t, "post")
    BY <1>16 DEF StoreState
  <2> HIDE DEF e
  <2> QED
    BY <1>11, <2>1, <2>2 DEF WorkerPlaces, Running
<1> QED
  BY <1>2, <1>5, <1>6, <1>7, <1>8, <1>9, <1>10, <1>12, <1>13, <1>14, <1>15, <1>16 DEF WorkerStep

LEMMA StepKeepsInvariant ==
  ASSUME IInv, [Next]_vars PROVE IInv'
<1>1. CASE UNCHANGED vars
  BY <1>1 DEF IInv, Verdicts, vars, launcher, cancelling, told, TypeOK, RunningSlots, OfferedSlots, EmptySlots
<1>2. CASE Next
  <2>1. Verdicts'
    BY <1>2, WindowKeepsInvariant, EventsKeepInvariant, WorkersKeepInvariant DEF Next
  <2> QED
    BY <1>2, <2>1, StepKeepsTypes DEF IInv, Verdicts
<1> QED
  BY <1>1, <1>2

LEMMA Invariant == Spec => []IInv
BY InitHasInvariant, StepKeepsInvariant, PTL DEF Spec

\* Every reachable state of the mappings has the declared types.
THEOREM TypeCorrect == Spec => []TypeOK
<1>1. IInv => TypeOK
  BY DEF IInv, Verdicts
<1> QED
  BY <1>1, Invariant, PTL

\* No worker runs a task whose verdict was published already: the unclaimed timer
\* and the worker-exit monitor of posix.cpp never speak for a running worker,
\* whatever the order of their events and whichever locks are busy.
THEOREM WorkersRunUnjudged == Spec => []NoRunAfterVerdict
<1>1. IInv => NoRunAfterVerdict
  BY DEF IInv, Verdicts, RunningSlots, NoRunAfterVerdict
<1> QED
  BY <1>1, Invariant, PTL

-----------------------------------------------------------------------------
(* The lifecycle.  A step of the mappings is a step of one task in it, or  *)
(* none; that needs to be known of slots that are over, of the task that   *)
(* waits for its worker, and of what the launcher collected.               *)

\* What the slot of a task, its worker and its verdict say of each other.
Sound(e, w, v) ==
  /\ e.state = "Claimed" => e.published \in {2, 3} /\ w.at # "none"
  /\ e.state = "Completed" => e.published = 3
  /\ e.published = 3 => v = e.result /\ v # "none"
  /\ e.state # "Empty" /\ e.published < 3 => v = "none"
  /\ w.at = "store_state" => e.published = 3
  /\ w.at \in {"publish", "minimal", "store_result", "store_event"} => w.result \in Outcomes
  /\ w.at = "store_event" => e.result \in Outcomes

SoundSlots == \A t \in Tasks : Sound(slot[t], worker[t], verdict[t])

\* Between Dispatch and Spawn.
SpawnWaits ==
  window.at = "spawn" =>
    \A t \in window.tasks : slot[t].state # "Empty" /\ worker[t].at = "none"

\* What the launcher collected is published, says how the task ended, and leaves
\* out nothing that it has not handled.
InboxInOrder ==
  \A event \in window.inbox :
    /\ event.kind <= slot[event.task].published
    /\ event.kind = 3 => event.result = verdict[event.task]
    /\ \A k \in 1..event.kind : k < event.kind /\ heard[event.task] < k =>
         \E other \in window.inbox : other.task = event.task /\ other.kind = k

HeardInOrder ==
  \A t \in Tasks :
    /\ slot[t].acknowledged <= heard[t]
    /\ heard[t] = 3 => toldAs[t] = verdict[t] /\ verdict[t] # "none"

Stages == SoundSlots /\ SpawnWaits /\ InboxInOrder /\ HeardInOrder

\* A step of the lifecycle, or none.
Steady == [Lifecycle!Next]_<<stageOf, verdict, heard, toldAs>>

\* A step that disturbs one task at most.
OnlyOf(t) ==
  \A s \in Tasks \ {t} : slot'[s] = slot[s] /\ worker'[s] = worker[s] /\ verdict'[s] = verdict[s]

LEMMA StageOfOne ==
  ASSUME TypeOK, TypeOK', NEW t \in Tasks, OnlyOf(t)
  PROVE  /\ stageOf' = [stageOf EXCEPT ![t] = stageOf'[t]]
         /\ verdict' = [verdict EXCEPT ![t] = verdict'[t]]
<1>1. stageOf' = [stageOf EXCEPT ![t] = stageOf'[t]]
  BY DEF stageOf, OnlyOf
<1>2. verdict' = [verdict EXCEPT ![t] = verdict'[t]]
  BY DEF TypeOK, OnlyOf
<1> QED
  BY <1>1, <1>2

\* The steps of the lifecycle, for one task.
LEMMA TaskMoves ==
  ASSUME TypeOK, TypeOK', NEW t \in Tasks, OnlyOf(t), UNCHANGED told,
         \/ stageOf'[t] = stageOf[t] /\ verdict'[t] = verdict[t]
         \/ stageOf[t] = 0 /\ stageOf'[t] = 1 /\ verdict'[t] = verdict[t]
         \/ stageOf[t] = 1 /\ stageOf'[t] = 2 /\ verdict'[t] = verdict[t]
         \/ stageOf[t] = 2 /\ stageOf'[t] = 3 /\ verdict'[t] \in Outcomes
         \/ stageOf[t] = 1 /\ stageOf'[t] = 3 /\ verdict'[t] = "unclaimed"
         \/ stageOf[t] = 2 /\ stageOf'[t] = 3 /\ verdict'[t] = "died"
         \/ stageOf[t] = 1 /\ stageOf'[t] = 3 /\ verdict'[t] = verdict[t]
  PROVE  Steady
<1>1. /\ stageOf' = [stageOf EXCEPT ![t] = stageOf'[t]]
      /\ verdict' = [verdict EXCEPT ![t] = verdict'[t]]
  BY StageOfOne
<1>2. stageOf = [s \in Tasks |-> stageOf[s]] /\ verdict = [s \in Tasks |-> verdict[s]]
  BY DEF stageOf, TypeOK
<1>3. UNCHANGED <<heard, toldAs>>
  BY DEF told
<1>4. CASE stageOf'[t] = stageOf[t] /\ verdict'[t] = verdict[t]
  <2>1. UNCHANGED <<stageOf, verdict>>
    BY <1>1, <1>2, <1>4
  <2> QED
    BY <1>3, <2>1 DEF Steady
<1>5. CASE stageOf[t] = 0 /\ stageOf'[t] = 1 /\ verdict'[t] = verdict[t]
  <2>1. verdict' = verdict
    BY <1>1, <1>2, <1>5
  <2>2. Lifecycle!Offer(t)
    BY <1>1, <1>3, <1>5, <2>1 DEF Lifecycle!Offer
  <2> QED
    BY <2>2 DEF Steady, Lifecycle!Next
<1>6. CASE stageOf[t] = 1 /\ stageOf'[t] = 2 /\ verdict'[t] = verdict[t]
  <2>1. verdict' = verdict
    BY <1>1, <1>2, <1>6
  <2>2. Lifecycle!Take(t)
    BY <1>1, <1>3, <1>6, <2>1 DEF Lifecycle!Take
  <2> QED
    BY <2>2 DEF Steady, Lifecycle!Next
<1>7. CASE stageOf[t] = 2 /\ stageOf'[t] = 3 /\ verdict'[t] \in Outcomes
  <2>1. Lifecycle!Finish(t)
    BY <1>1, <1>3, <1>7 DEF Lifecycle!Finish
  <2> QED
    BY <2>1 DEF Steady, Lifecycle!Next
<1>8. CASE \/ stageOf[t] = 1 /\ stageOf'[t] = 3 /\ verdict'[t] = "unclaimed"
           \/ stageOf[t] = 2 /\ stageOf'[t] = 3 /\ verdict'[t] = "died"
  <2>1. stageOf' = [s \in Tasks |-> IF s \in {t} THEN 3 ELSE stageOf[s]]
    BY <1>1, <1>2, <1>8
  <2>2. verdict' = [s \in Tasks |-> IF s \notin {t} THEN verdict[s]
                                    ELSE IF stageOf[s] = 1 THEN "unclaimed" ELSE "died"]
    BY <1>1, <1>2, <1>8
  <2>3. Lifecycle!Lapse({t})
    BY <1>3, <1>8, <2>1, <2>2 DEF Lifecycle!Lapse
  <2>4. {t} \in SUBSET Tasks
    OBVIOUS
  <2> QED
    BY <2>3, <2>4 DEF Steady, Lifecycle!Next
<1>9. CASE stageOf[t] = 1 /\ stageOf'[t] = 3 /\ verdict'[t] = verdict[t]
  <2>1. verdict' = verdict
    BY <1>1, <1>2, <1>9
  <2>2. Lifecycle!Withdraw(t)
    BY <1>1, <1>3, <1>9, <2>1 DEF Lifecycle!Withdraw
  <2> QED
    BY <2>2 DEF Steady, Lifecycle!Next
<1> QED
  BY <1>4, <1>5, <1>6, <1>7, <1>8, <1>9

\* What a step that disturbs one task owes the stages.
LEMMA StagesKept ==
  ASSUME IInv, IInv', Stages, NEW t \in Tasks, OnlyOf(t), UNCHANGED told,
         Sound(slot'[t], worker'[t], verdict'[t]), SpawnWaits',
         slot'[t].acknowledged <= slot[t].acknowledged,
         verdict[t] # "none" => verdict'[t] = verdict[t],
         \/ window'.inbox = {}
         \/ window'.inbox = window.inbox /\ slot[t].published <= slot'[t].published
  PROVE  Stages'
<1>1. SoundSlots'
  BY DEF Stages, SoundSlots, OnlyOf
<1>2. \A s \in Tasks : slot[s] \in SlotType /\ slot'[s] \in SlotType /\ heard[s] \in 0..3
  BY DEF IInv, TypeOK
<1>3. \A s \in Tasks : slot'[s].acknowledged <= slot[s].acknowledged
  BY <1>2 DEF OnlyOf, SlotType
<1>4. \A s \in Tasks : verdict[s] # "none" => verdict'[s] = verdict[s]
  BY DEF OnlyOf
<1>5. HeardInOrder'
  <2> SUFFICES ASSUME NEW s \in Tasks
               PROVE  /\ slot'[s].acknowledged <= heard'[s]
                      /\ heard'[s] = 3 => toldAs'[s] = verdict'[s] /\ verdict'[s] # "none"
    BY DEF HeardInOrder
  <2>1. heard' = heard /\ toldAs' = toldAs
    BY DEF told
  <2>2. /\ slot[s].acknowledged <= heard[s]
        /\ heard[s] = 3 => toldAs[s] = verdict[s] /\ verdict[s] # "none"
    BY DEF Stages, HeardInOrder
  <2>3. slot'[s].acknowledged <= heard[s]
    BY <1>2, <1>3, <2>2 DEF SlotType
  <2> QED
    BY <1>4, <2>1, <2>2, <2>3
<1>6. CASE window'.inbox = {}
  BY <1>1, <1>5, <1>6 DEF Stages, InboxInOrder
<1>7. CASE window'.inbox = window.inbox /\ slot[t].published <= slot'[t].published
  <2>1. window.inbox \subseteq EventType
    BY DEF IInv, TypeOK
  <2>2. ASSUME NEW event \in window.inbox
        PROVE  /\ event.kind <= slot'[event.task].published
               /\ event.kind = 3 => event.result = verdict'[event.task]
    <3>1. event.task \in Tasks /\ event.kind \in 1..3
      BY <2>1 DEF EventType
    <3>2. /\ event.kind <= slot[event.task].published
          /\ event.kind = 3 => event.result = verdict[event.task]
      BY DEF Stages, InboxInOrder
    <3>3. event.kind <= slot'[event.task].published
      BY <1>2, <1>7, <3>1, <3>2 DEF OnlyOf, SlotType
    <3>4. ASSUME event.kind = 3 PROVE event.result = verdict'[event.task]
      <4>1. slot[event.task].published = 3
        BY <1>2, <3>1, <3>2, <3>4 DEF SlotType
      <4>2. verdict[event.task] # "none"
        BY <3>1, <4>1 DEF Stages, SoundSlots, Sound
      <4> QED
        BY <1>4, <3>1, <3>2, <3>4, <4>2
    <3> QED
      BY <3>3, <3>4
  <2>3. InboxInOrder'
    BY <1>7, <2>2 DEF Stages, InboxInOrder, told
  <2> QED
    BY <1>1, <1>5, <2>3 DEF Stages
<1> QED
  BY <1>6, <1>7

\* A worker that waits to be spawned does not move, nor does its slot empty.
LEMMA SpawnStillWaits ==
  ASSUME TypeOK, SpawnWaits, NEW t \in Tasks, OnlyOf(t), UNCHANGED window,
         slot[t].state # "Empty" => slot'[t].state # "Empty",
         worker[t].at = "none" => worker'[t].at = "none"
  PROVE  SpawnWaits'
BY DEF TypeOK, SpawnWaits, OnlyOf

LEMMA StoredTask ==
  ASSUME TypeOK, NEW t \in Tasks, NEW e, Store(t, e), NEW w, worker' = [worker EXCEPT ![t] = w]
  PROVE  /\ OnlyOf(t) /\ slot'[t] = e /\ worker'[t] = w
         /\ verdict'[t] = IF e.published = 3 /\ verdict[t] = "none" THEN e.result ELSE verdict[t]
BY DEF Store, OnlyOf, TypeOK

LEMMA KeptTask ==
  ASSUME TypeOK, NEW t \in Tasks, KeepSlots, NEW w, worker' = [worker EXCEPT ![t] = w]
  PROVE  /\ OnlyOf(t) /\ slot'[t] = slot[t] /\ worker'[t] = w
         /\ verdict'[t] = verdict[t]
BY DEF KeepSlots, OnlyOf, TypeOK

\* The fields that the stages speak of.
LEMMA CompletionFields ==
  ASSUME NEW e \in SlotType, NEW result \in Results
  PROVE  LET f == PublishCompletion(e, result)
         IN /\ f.state = "Completed" /\ f.published = 3 /\ f.result = result
            /\ f.acknowledged = e.acknowledged
BY DEF PublishCompletion, PublishStage, SlotType

LEMMA ClaimFields ==
  ASSUME NEW e \in SlotType, e.published = 1
  PROVE  LET f == PublishStage([e EXCEPT !.state = "Claimed", !.recorded = TRUE], 2)
         IN /\ f.state = "Claimed" /\ f.published = 2 /\ f.result = e.result
            /\ f.acknowledged = e.acknowledged
BY DEF PublishStage, SlotType

LEMMA StageOfSlot ==
  ASSUME TypeOK, NEW t \in Tasks, slot[t].state # "Empty"
  PROVE  stageOf[t] = slot[t].published
BY DEF stageOf

\* Steps that store nothing and move no worker.
LEMMA StagesRest ==
  ASSUME IInv, Stages, KeepSlots, UNCHANGED <<worker, told>>, SpawnWaits',
         window'.inbox = {} \/ window'.inbox = window.inbox
  PROVE  Stages' /\ Steady
<1>1. UNCHANGED <<slot, worker, verdict, heard, toldAs>>
  BY DEF KeepSlots, told
<1>2. SoundSlots' /\ HeardInOrder'
  BY <1>1 DEF Stages, SoundSlots, HeardInOrder
<1>3. InboxInOrder'
  BY <1>1 DEF Stages, InboxInOrder
<1>4. UNCHANGED stageOf
  BY <1>1 DEF stageOf
<1> QED
  BY <1>1, <1>2, <1>3, <1>4 DEF Stages, Steady

\* Steps of a worker that store nothing.
LEMMA WorkerRests ==
  ASSUME IInv, IInv', Stages, NEW t \in Tasks, KeepSlots, UNCHANGED <<window, told>>,
         NEW w, worker' = [worker EXCEPT ![t] = w], worker[t].at # "none", w.at # "none",
         Sound(slot[t], w, verdict[t])
  PROVE  Stages' /\ Steady
<1>1. /\ OnlyOf(t) /\ slot'[t] = slot[t] /\ worker'[t] = w
      /\ verdict'[t] = verdict[t]
  BY KeptTask DEF IInv
<1>2. SpawnWaits'
  BY <1>1, SpawnStillWaits DEF IInv, Stages
<1>3. slot[t] \in SlotType
  BY DEF IInv, TypeOK
<1>4. Stages'
  <2>1. slot'[t].acknowledged <= slot[t].acknowledged /\ slot[t].published <= slot'[t].published
    BY <1>1, <1>3 DEF SlotType
  <2> QED
    BY <1>1, <1>2, <2>1, StagesKept
<1>5. stageOf'[t] = stageOf[t]
  BY <1>1 DEF stageOf
<1>6. Steady
  BY <1>1, <1>5, TaskMoves DEF IInv
<1> QED
  BY <1>4, <1>6

\* Steps that store in a slot that is in use, and leave it so.
LEMMA TaskStores ==
  ASSUME IInv, IInv', Stages, NEW t \in Tasks, NEW e, Store(t, e), UNCHANGED told,
         NEW w, worker' = [worker EXCEPT ![t] = w], SpawnWaits',
         slot[t].state # "Empty", e.state # "Empty", e.acknowledged = slot[t].acknowledged,
         slot[t].published <= e.published, window'.inbox = window.inbox,
         Sound(e, w, verdict'[t]),
         \/ e.published = slot[t].published
         \/ slot[t].published = 1 /\ e.published = 2
         \/ slot[t].published = 2 /\ e.published = 3 /\ e.result \in Outcomes \cup {"died"}
         \/ slot[t].published = 1 /\ e.published = 3 /\ e.result = "unclaimed"
  PROVE  Stages' /\ Steady
<1>1. /\ OnlyOf(t) /\ slot'[t] = e /\ worker'[t] = w
      /\ verdict'[t] = IF e.published = 3 /\ verdict[t] = "none" THEN e.result ELSE verdict[t]
  BY StoredTask DEF IInv
<1>2. slot[t] \in SlotType /\ e \in SlotType
  BY <1>1 DEF IInv, TypeOK
<1>3. Sound(slot[t], worker[t], verdict[t])
  BY DEF Stages, SoundSlots
<1>4. Stages'
  <2>1. verdict[t] # "none" => verdict'[t] = verdict[t]
    BY <1>1
  <2>2. slot'[t].acknowledged <= slot[t].acknowledged /\ slot[t].published <= slot'[t].published
    BY <1>1, <1>2 DEF SlotType
  <2> QED
    BY <1>1, <2>1, <2>2, StagesKept
<1>5. stageOf[t] = slot[t].published /\ stageOf'[t] = e.published
  BY <1>1 DEF stageOf
<1>6. CASE e.published = slot[t].published
  <2>1. verdict'[t] = verdict[t]
    BY <1>1, <1>3, <1>6 DEF Sound
  <2> QED
    BY <1>1, <1>4, <1>5, <1>6, <2>1, TaskMoves DEF IInv
<1>7. CASE slot[t].published = 1 /\ e.published = 2
  BY <1>1, <1>4, <1>5, <1>7, TaskMoves DEF IInv
<1>8. CASE slot[t].published \in {1, 2} /\ e.published = 3
  <2>1. verdict'[t] = e.result
    BY <1>1, <1>3, <1>8 DEF Sound
  <2> QED
    BY <1>1, <1>4, <1>5, <1>8, <2>1, TaskMoves DEF IInv
<1> QED
  BY <1>6, <1>7, <1>8

-----------------------------------------------------------------------------
\* The timer and the exit monitor let a task lapse; a cancel is no stage.
LEMMA EventsAreSteady ==
  ASSUME IInv, IInv', Stages, NEW t \in Tasks,
         TimerFires(t) \/ ExitSeen(t) \/ StoreCancel(t) \/ PostCancel(t)
  PROVE  Stages' /\ Steady
<1>1. slot[t] \in SlotType /\ Sound(slot[t], worker[t], verdict[t])
  BY DEF IInv, TypeOK, Stages, SoundSlots
<1>2. UNCHANGED <<worker, window, told>>
  BY DEF TimerFires, ExitSeen, StoreCancel, PostCancel, launcher
<1>3. worker' = [worker EXCEPT ![t] = worker[t]]
  BY <1>2 DEF IInv, TypeOK
<1>4. CASE KeepSlots
  <2>1. SpawnWaits'
    BY <1>2, <1>4 DEF KeepSlots, Stages, SpawnWaits
  <2> QED
    BY <1>2, <1>4, <2>1, StagesRest
<1>5. ASSUME NEW e, Store(t, e), slot[t].state # "Empty", e.state # "Empty"
      PROVE  /\ SpawnWaits'
             /\ verdict'[t] = IF e.published = 3 /\ verdict[t] = "none" THEN e.result ELSE verdict[t]
  <2>1. /\ OnlyOf(t) /\ slot'[t] = e
        /\ verdict'[t] = IF e.published = 3 /\ verdict[t] = "none" THEN e.result ELSE verdict[t]
    BY <1>3, <1>5, StoredTask DEF IInv
  <2> QED
    BY <1>2, <1>5, <2>1, SpawnStillWaits DEF IInv, Stages
<1>6. CASE Unclaimed(slot[t]) /\ Store(t, PublishCompletion(slot[t], "unclaimed"))
  <2> DEFINE e == PublishCompletion(slot[t], "unclaimed")
  <2>1. slot[t].state = "Dispatched" /\ slot[t].published = 1 /\ verdict[t] = "none"
    BY <1>6 DEF Unclaimed, IInv, Verdicts, OfferedSlots
  <2>2. /\ e.state = "Completed" /\ e.published = 3 /\ e.result = "unclaimed"
        /\ e.acknowledged = slot[t].acknowledged
    <3>1. "unclaimed" \in Results
      BY DEF Results
    <3> QED
      BY <1>1, <3>1, CompletionFields
  <2>3. worker[t].at \notin Running
    BY <1>6 DEF Unclaimed, IInv, Verdicts, RunningSlots
  <2>4. Store(t, e)
    BY <1>6
  <2> HIDE DEF e
  <2>5. SpawnWaits' /\ verdict'[t] = "unclaimed"
    BY <1>5, <2>1, <2>2, <2>4
  <2>6. Sound(e, worker[t], verdict'[t])
    BY <1>1, <2>2, <2>3, <2>5 DEF Sound, Running
  <2>7. slot[t].state # "Empty" /\ e.state # "Empty" /\ slot[t].published <= e.published
    BY <2>1, <2>2
  <2>8. window'.inbox = window.inbox
    BY <1>2
  <2> QED
    BY <1>2, <1>3, <2>1, <2>2, <2>4, <2>5, <2>6, <2>7, <2>8, TaskStores
<1>7. CASE WorkerExited(t) /\ Store(t, PublishCompletion(slot[t], "died"))
  <2> DEFINE e == PublishCompletion(slot[t], "died")
  <2>1. slot[t].state = "Claimed" /\ slot[t].published = 2 /\ verdict[t] = "none"
    BY <1>1, <1>7 DEF WorkerExited, Sound
  <2>2. /\ e.state = "Completed" /\ e.published = 3 /\ e.result = "died"
        /\ e.acknowledged = slot[t].acknowledged
    <3>1. "died" \in Results
      BY DEF Results
    <3> QED
      BY <1>1, <3>1, CompletionFields
  <2>3. worker[t].at \notin Running
    BY <1>7 DEF WorkerExited, WorkerAlive, Running
  <2>4. Store(t, e)
    BY <1>7
  <2> HIDE DEF e
  <2>5. SpawnWaits' /\ verdict'[t] = "died"
    BY <1>5, <2>1, <2>2, <2>4
  <2>6. Sound(e, worker[t], verdict'[t])
    BY <1>1, <2>2, <2>3, <2>5 DEF Sound, Running
  <2>7. slot[t].state # "Empty" /\ e.state # "Empty" /\ slot[t].published <= e.published
    BY <2>1, <2>2
  <2>8. window'.inbox = window.inbox
    BY <1>2
  <2> QED
    BY <1>2, <1>3, <2>1, <2>2, <2>4, <2>5, <2>6, <2>7, <2>8, TaskStores
<1>8. CASE StoreCancel(t)
  <2> DEFINE e == [slot[t] EXCEPT !.cancel = TRUE, !.fresh = TRUE]
  <2>1. /\ e.state = slot[t].state /\ e.published = slot[t].published
        /\ e.result = slot[t].result /\ e.acknowledged = slot[t].acknowledged
    BY <1>1 DEF SlotType
  <2>2. Store(t, e) /\ slot[t].state # "Empty"
    BY <1>8 DEF StoreCancel
  <2> HIDE DEF e
  <2>3. SpawnWaits'
    BY <1>5, <2>1, <2>2
  <2>4. verdict'[t] = IF e.published = 3 /\ verdict[t] = "none" THEN e.result ELSE verdict[t]
    BY <1>5, <2>1, <2>2
  <2>5. Sound(e, worker[t], verdict'[t])
    BY <1>1, <2>1, <2>2, <2>4 DEF Sound
  <2>6. slot[t].published <= e.published
    BY <1>1, <2>1 DEF SlotType
  <2> QED
    BY <1>2, <1>3, <2>1, <2>2, <2>3, <2>5, <2>6, TaskStores
<1> QED
  BY <1>4, <1>6, <1>7, <1>8 DEF TimerFires, ExitSeen, PostCancel

\* A worker takes its task with the claim, and finishes it with a completion or
\* with the second of the minimal stores.
LEMMA WorkersAreSteady ==
  ASSUME IInv, IInv', Stages, NEW t \in Tasks,
         WorkerStep(t) \/ WatchStep(t) \/ Finish(t) \/ WorkerCrash(t)
  PROVE  Stages' /\ Steady
<1>1. /\ slot[t] \in SlotType /\ Sound(slot[t], worker[t], verdict[t])
      /\ worker[t] \in [at : WorkerPlaces, result : Results]
  BY DEF IInv, TypeOK, Stages, SoundSlots
<1>2. UNCHANGED <<window, told>>
  BY DEF WorkerStep, WatchStep, Finish, WorkerCrash, Claim, PostClaimed, StartWatch, Publish,
     OpenMinimal, StoreResult, StoreEvent, StoreState, PostCompleted, WatchWakes, WatchAsks, launcher
<1>3. CASE WatchStep(t)
  <2>1. KeepSlots /\ UNCHANGED worker
    BY <1>3 DEF WatchStep, WatchWakes, WatchAsks
  <2>2. SpawnWaits'
    BY <1>2, <2>1 DEF KeepSlots, Stages, SpawnWaits
  <2> QED
    BY <1>2, <2>1, <2>2, StagesRest
\* The steps that store nothing.
<1>4. ASSUME KeepSlots, worker[t].at # "none", NEW place \in WorkerPlaces, WorkerTo(t, place),
             place \notin {"none", "store_state"},
             place \in {"publish", "minimal", "store_result"} => worker[t].result \in Outcomes,
             place # "store_event"
      PROVE  Stages' /\ Steady
  <2> DEFINE w == IF place \in {"gone", "mute"} THEN [at |-> place, result |-> "none"]
                  ELSE [worker[t] EXCEPT !.at = place]
  <2>1. worker' = [worker EXCEPT ![t] = w]
    BY <1>4 DEF WorkerTo
  <2>2. w.at = place /\ (place \notin {"gone", "mute"} => w.result = worker[t].result)
    BY <1>1
  <2> HIDE DEF w
  <2>3. Sound(slot[t], w, verdict[t])
    BY <1>1, <1>4, <2>2 DEF Sound
  <2> QED
    BY <1>2, <1>4, <2>1, <2>2, <2>3, WorkerRests
<1>5. ASSUME KeepSlots, worker[t].at # "none", NEW result \in Outcomes,
             worker' = [worker EXCEPT ![t] = [at |-> "publish", result |-> result]]
      PROVE  Stages' /\ Steady
  <2> DEFINE w == [at |-> "publish", result |-> result]
  <2>1. w.at = "publish" /\ w.result \in Outcomes
    OBVIOUS
  <2>2. worker' = [worker EXCEPT ![t] = w]
    BY <1>5
  <2> HIDE DEF w
  <2>3. Sound(slot[t], w, verdict[t])
    BY <1>1, <1>5, <2>1 DEF Sound
  <2> QED
    BY <1>2, <1>5, <2>1, <2>2, <2>3, WorkerRests
<1>6. CASE PostClaimed(t) \/ PostCompleted(t)
  BY <1>4, <1>6 DEF PostClaimed, PostCompleted, WorkerPlaces
<1>7. CASE OpenMinimal(t)
  <2>1. worker[t].at = "minimal" /\ worker[t].result \in Outcomes /\ KeepSlots
    BY <1>1, <1>7 DEF OpenMinimal, Sound
  <2>2. WorkerTo(t, "store_result") \/ WorkerTo(t, "gone")
    BY <1>7 DEF OpenMinimal
  <2> QED
    BY <1>4, <2>1, <2>2 DEF WorkerPlaces
<1>8. CASE WorkerCrash(t)
  <2>1. KeepSlots /\ worker[t].at # "none" /\ (WorkerTo(t, "mute") \/ WorkerTo(t, "gone"))
    BY <1>8 DEF WorkerCrash, WorkerAlive
  <2> QED
    BY <1>4, <2>1 DEF WorkerPlaces
<1>9. CASE StartWatch(t)
  <2>1. KeepSlots /\ worker[t].at # "none"
    BY <1>9 DEF StartWatch
  <2>2. CASE slot[t].cancel
    BY <1>5, <1>9, <2>1, <2>2 DEF StartWatch, Outcomes
  <2>3. CASE ~slot[t].cancel
    BY <1>4, <1>9, <2>1, <2>3 DEF StartWatch, WorkerPlaces
  <2> QED
    BY <2>2, <2>3
<1>10. CASE Finish(t)
  <2>1. KeepSlots /\ worker[t].at # "none"
    BY <1>10 DEF Finish
  <2> QED
    BY <1>5, <1>10, <2>1 DEF Finish
\* The steps that store.
<1>11. ASSUME NEW e, Store(t, e), NEW place \in WorkerPlaces, WorkerTo(t, place),
              place \in {"claimed", "store_event", "store_state", "post"},
              worker[t].at # "none", slot[t].state # "Empty", e.state # "Empty",
              e.acknowledged = slot[t].acknowledged,
              \/ e.published = slot[t].published
              \/ slot[t].published = 1 /\ e.published = 2
              \/ slot[t].published = 2 /\ e.published = 3 /\ e.result \in Outcomes,
              place = "store_event" => worker[t].result \in Outcomes /\ e.result \in Outcomes,
              place = "store_state" => e.published = 3,
              e.published = 3 => e.result = IF verdict[t] = "none" THEN e.result ELSE verdict[t],
              e.published = 3 => e.result # "none",
              e.published < 3 => verdict[t] = "none",
              e.state = "Claimed" => e.published \in {2, 3},
              e.state = "Completed" => e.published = 3
       PROVE  Stages' /\ Steady
  <2> DEFINE w == [worker[t] EXCEPT !.at = place]
  <2>1. worker' = [worker EXCEPT ![t] = w]
    BY <1>11 DEF WorkerTo
  <2>2. w.at = place /\ w.result = worker[t].result
    BY <1>1
  <2> HIDE DEF w
  <2>3. /\ OnlyOf(t) /\ slot'[t] = e /\ worker'[t] = w
        /\ verdict'[t] = IF e.published = 3 /\ verdict[t] = "none" THEN e.result ELSE verdict[t]
    BY <1>11, <2>1, StoredTask DEF IInv
  <2>4. SpawnWaits'
    BY <1>2, <1>11, <2>3, SpawnStillWaits DEF IInv, Stages
  <2>5. Sound(e, w, verdict'[t])
    BY <1>11, <2>2, <2>3 DEF Sound
  <2>6. slot[t].published <= e.published
    BY <1>1, <1>11 DEF SlotType
  <2>7. window'.inbox = window.inbox
    BY <1>2
  <2> QED
    BY <1>2, <1>11, <2>1, <2>4, <2>5, <2>6, <2>7, TaskStores
<1>12. CASE Claim(t)
  <2>1. CASE KeepSlots /\ WorkerTo(t, "gone")
    BY <1>4, <1>12, <2>1 DEF Claim, WorkerPlaces
  <2>2. CASE /\ slot[t].state = "Dispatched"
             /\ Store(t, PublishStage([slot[t] EXCEPT !.state = "Claimed", !.recorded = TRUE], 2))
             /\ WorkerTo(t, "claimed")
    <3> DEFINE e == PublishStage([slot[t] EXCEPT !.state = "Claimed", !.recorded = TRUE], 2)
    <3>1. slot[t].published = 1 /\ verdict[t] = "none" /\ worker[t].at # "none"
      BY <1>12, <2>2 DEF Claim, IInv, Verdicts, OfferedSlots
    <3>2. e.state = "Claimed" /\ e.published = 2 /\ e.acknowledged = slot[t].acknowledged
      BY <1>1, <3>1, ClaimFields
    <3>3. Store(t, e)
      BY <2>2
    <3> HIDE DEF e
    <3>4. "claimed" \in WorkerPlaces
      BY DEF WorkerPlaces
    <3> QED
      BY <1>11, <2>2, <3>1, <3>2, <3>3, <3>4
  <2> QED
    BY <1>12, <2>1, <2>2 DEF Claim
<1>13. ASSUME worker[t].at \in Running
       PROVE  slot[t].state = "Claimed" /\ slot[t].published = 2 /\ verdict[t] = "none"
  BY <1>13 DEF IInv, Verdicts, RunningSlots
<1>14. CASE Publish(t)
  <2>1. worker[t].at = "publish" /\ worker[t].result \in Outcomes
    BY <1>1, <1>14 DEF Publish, Sound
  <2>2. CASE KeepSlots /\ (WorkerTo(t, "gone") \/ WorkerTo(t, "minimal"))
    BY <1>4, <2>1, <2>2 DEF WorkerPlaces
  <2>3. CASE Store(t, PublishCompletion(slot[t], worker[t].result)) /\ WorkerTo(t, "post")
    <3> DEFINE e == PublishCompletion(slot[t], worker[t].result)
    <3>1. slot[t].state = "Claimed" /\ slot[t].published = 2 /\ verdict[t] = "none"
      BY <1>13, <2>1 DEF Running
    <3>2. /\ e.state = "Completed" /\ e.published = 3 /\ e.result = worker[t].result
          /\ e.acknowledged = slot[t].acknowledged
      BY <1>1, CompletionFields
    <3>3. Store(t, e)
      BY <2>3
    <3> HIDE DEF e
    <3>4. "post" \in WorkerPlaces /\ e.result # "none"
      BY <2>1, <3>2 DEF WorkerPlaces, Outcomes
    <3> QED
      BY <1>11, <2>1, <2>3, <3>1, <3>2, <3>3, <3>4
  <2> QED
    BY <1>14, <2>2, <2>3 DEF Publish
<1>15. CASE StoreResult(t)
  <2> DEFINE e == [slot[t] EXCEPT !.result = worker[t].result, !.fresh = TRUE]
  <2>1. worker[t].at = "store_result" /\ worker[t].result \in Outcomes
    BY <1>1, <1>15 DEF StoreResult, Sound
  <2>2. slot[t].state = "Claimed" /\ slot[t].published = 2 /\ verdict[t] = "none"
    BY <1>13, <2>1 DEF Running
  <2>3. /\ e.state = "Claimed" /\ e.published = 2 /\ e.result = worker[t].result
        /\ e.acknowledged = slot[t].acknowledged
    BY <1>1, <2>2 DEF SlotType
  <2>4. Store(t, e) /\ WorkerTo(t, "store_event")
    BY <1>15 DEF StoreResult
  <2> HIDE DEF e
  <2>5. "store_event" \in WorkerPlaces
    BY DEF WorkerPlaces
  <2> QED
    BY <1>11, <2>1, <2>2, <2>3, <2>4, <2>5
<1>16. CASE StoreEvent(t)
  <2> DEFINE e == [slot[t] EXCEPT !.published = 3]
  <2>1. worker[t].at = "store_event" /\ slot[t].result \in Outcomes
    BY <1>1, <1>16 DEF StoreEvent, Sound
  <2>2. slot[t].state = "Claimed" /\ slot[t].published = 2 /\ verdict[t] = "none"
    BY <1>13, <2>1 DEF Running
  <2>3. /\ e.state = "Claimed" /\ e.published = 3 /\ e.result = slot[t].result
        /\ e.acknowledged = slot[t].acknowledged
    BY <1>1, <2>2 DEF SlotType
  <2>4. Store(t, e) /\ WorkerTo(t, "store_state")
    BY <1>16 DEF StoreEvent
  <2> HIDE DEF e
  <2>5. "store_state" \in WorkerPlaces /\ e.result # "none"
    BY <2>1, <2>3 DEF WorkerPlaces, Outcomes
  <2> QED
    BY <1>11, <2>1, <2>2, <2>3, <2>4, <2>5
<1>17. CASE StoreState(t)
  <2> DEFINE e == [slot[t] EXCEPT !.state = "Completed"]
  <2>1. worker[t].at = "store_state" /\ slot[t].published = 3
    BY <1>1, <1>17 DEF StoreState, Sound
  <2>2. verdict[t] = slot[t].result /\ verdict[t] # "none"
    BY <1>1, <2>1 DEF Sound
  <2>3. /\ e.state = "Completed" /\ e.published = 3 /\ e.result = slot[t].result
        /\ e.acknowledged = slot[t].acknowledged
    BY <1>1, <2>1 DEF SlotType
  <2>4. Store(t, e) /\ WorkerTo(t, "post")
    BY <1>17 DEF StoreState
  <2> HIDE DEF e
  <2>5. "post" \in WorkerPlaces
    BY DEF WorkerPlaces
  <2>6. slot[t].state # "Empty"
    BY <2>1 DEF IInv, Verdicts, EmptySlots
  <2> QED
    BY <1>11, <2>1, <2>2, <2>3, <2>4, <2>5, <2>6
<1> QED
  BY <1>3, <1>6, <1>7, <1>8, <1>9, <1>10, <1>12, <1>14, <1>15, <1>16, <1>17 DEF WorkerStep

\* Dispatching offers a task, a spawn that fails withdraws it.
LEMMA DispatchingIsSteady ==
  ASSUME IInv, IInv', Stages, NEW t \in Tasks,
         Dispatch(t) \/ Spawn(t) \/ SpawnFails(t) \/ Record(t) \/ StartMonitor(t) \/ PostDispatched(t)
  PROVE  Stages' /\ Steady
<1>1. /\ slot[t] \in SlotType /\ Sound(slot[t], worker[t], verdict[t])
      /\ worker[t] \in [at : WorkerPlaces, result : Results]
  BY DEF IInv, TypeOK, Stages, SoundSlots
<1>2. UNCHANGED told
  BY DEF Dispatch, Spawn, SpawnFails, Record, StartMonitor, PostDispatched
<1>3. CASE Dispatch(t)
  <2> DEFINE e == [EmptySlot EXCEPT !.state = "Dispatched", !.published = 1]
  <2>1. /\ slot[t].state = "Empty" /\ slot[t].published = 0 /\ slot[t].acknowledged = 0
        /\ worker[t].at = "none"
    BY <1>3 DEF Dispatch, EmptySlot
  <2>2. verdict[t] = "none"
    BY <2>1 DEF IInv, Verdicts, EmptySlots
  <2>3. e.state = "Dispatched" /\ e.published = 1 /\ e.acknowledged = 0
    BY DEF EmptySlot
  <2>4. Store(t, e) /\ UNCHANGED worker
    BY <1>3 DEF Dispatch
  <2> HIDE DEF e
  <2>5. worker' = [worker EXCEPT ![t] = worker[t]]
    BY <2>4 DEF IInv, TypeOK
  <2>6. /\ OnlyOf(t) /\ slot'[t] = e /\ worker'[t] = worker[t] /\ verdict'[t] = verdict[t]
    BY <2>3, <2>4, <2>5 DEF Store, OnlyOf, IInv, TypeOK
  <2>7. window' = [at |-> "spawn", tasks |-> {t}, inbox |-> {}]
    BY <1>3 DEF Dispatch, IdleWindow
  <2>8. SpawnWaits'
    BY <2>1, <2>3, <2>6, <2>7 DEF SpawnWaits
  <2>9. Sound(slot'[t], worker'[t], verdict'[t])
    BY <2>1, <2>2, <2>3, <2>6 DEF Sound
  <2>10. Stages'
    <3>1. window'.inbox = {} /\ slot'[t].acknowledged <= slot[t].acknowledged
      BY <2>1, <2>3, <2>6, <2>7
    <3> QED
      BY <1>2, <2>6, <2>8, <2>9, <3>1, StagesKept
  <2>11. stageOf[t] = 0 /\ stageOf'[t] = 1
    BY <2>1, <2>3, <2>6 DEF stageOf
  <2>12. Steady
    BY <1>2, <2>6, <2>11, TaskMoves DEF IInv
  <2> QED
    BY <2>10, <2>12
<1>4. ASSUME Spawn(t) \/ SpawnFails(t)
      PROVE  /\ window.at = "spawn" /\ slot[t].state # "Empty" /\ worker[t].at = "none"
             /\ slot[t].published \in {1, 3}
  <2>1. window.at = "spawn" /\ t \in window.tasks
    BY <1>4 DEF Spawn, SpawnFails, Doing
  <2>2. slot[t].state # "Empty" /\ worker[t].at = "none"
    BY <2>1 DEF Stages, SpawnWaits
  <2>3. slot[t].published \in {1, 3}
    BY <1>1, <2>2 DEF SlotType, Sound, IInv, Verdicts, OfferedSlots
  <2> QED
    BY <2>1, <2>2, <2>3
<1>5. CASE Spawn(t)
  <2> DEFINE w == [worker[t] EXCEPT !.at = "starting"]
  <2>1. worker' = [worker EXCEPT ![t] = w] /\ KeepSlots
    BY <1>5 DEF Spawn
  <2>2. w.at = "starting"
    BY <1>1
  <2> HIDE DEF w
  <2>3. OnlyOf(t) /\ slot'[t] = slot[t] /\ worker'[t] = w /\ verdict'[t] = verdict[t]
    BY <2>1, KeptTask DEF IInv
  <2>4. window'.at = "record" /\ window'.inbox = window.inbox
    BY <1>5 DEF Spawn, WindowTo, IInv, TypeOK
  <2>5. SpawnWaits'
    BY <2>4 DEF SpawnWaits
  <2>6. Sound(slot'[t], worker'[t], verdict'[t])
    BY <1>1, <2>2, <2>3 DEF Sound
  <2>7. Stages'
    <3>1. slot'[t].acknowledged <= slot[t].acknowledged /\ slot[t].published <= slot'[t].published
      BY <1>1, <2>3 DEF SlotType
    <3> QED
      BY <1>2, <2>3, <2>4, <2>5, <2>6, <3>1, StagesKept
  <2>8. stageOf'[t] = stageOf[t]
    BY <1>4, <1>5, <2>3 DEF stageOf
  <2>9. Steady
    BY <1>2, <2>3, <2>8, TaskMoves DEF IInv
  <2> QED
    BY <2>7, <2>9
<1>6. CASE SpawnFails(t)
  <2> DEFINE w == [worker[t] EXCEPT !.at = "gone"]
  <2>1. worker' = [worker EXCEPT ![t] = w] /\ slot' = [slot EXCEPT ![t] = EmptySlot] /\ verdict' = verdict
    BY <1>6 DEF SpawnFails
  <2>2. w.at = "gone"
    BY <1>1
  <2> HIDE DEF w
  <2>3. OnlyOf(t) /\ slot'[t] = EmptySlot /\ worker'[t] = w /\ verdict'[t] = verdict[t]
    BY <2>1 DEF OnlyOf, IInv, TypeOK
  <2>4. window'.at = "idle" /\ window'.inbox = {}
    BY <1>6 DEF SpawnFails, IdleWindow
  <2>5. SpawnWaits'
    BY <2>4 DEF SpawnWaits
  <2>6. Sound(slot'[t], worker'[t], verdict'[t])
    BY <2>2, <2>3 DEF Sound, EmptySlot
  <2>7. Stages'
    <3>1. slot'[t].acknowledged <= slot[t].acknowledged
      BY <1>1, <2>3 DEF SlotType, EmptySlot
    <3> QED
      BY <1>2, <2>3, <2>4, <2>5, <2>6, <3>1, StagesKept
  <2>8. stageOf[t] \in {1, 3} /\ stageOf'[t] = 3
    BY <1>4, <1>6, <2>2, <2>3 DEF stageOf, EmptySlot
  <2>9. Steady
    BY <1>2, <2>3, <2>8, TaskMoves DEF IInv
  <2> QED
    BY <2>7, <2>9
<1>7. ASSUME KeepSlots, UNCHANGED worker, window'.at # "spawn",
             window'.inbox = {} \/ window'.inbox = window.inbox
      PROVE  Stages' /\ Steady
  <2>1. SpawnWaits'
    BY <1>7 DEF SpawnWaits
  <2> QED
    BY <1>2, <1>7, <2>1, StagesRest
<1>8. CASE Record(t)
  <2>1. /\ window'.at = "monitor" /\ window'.inbox = window.inbox
        /\ UNCHANGED worker
    BY <1>8 DEF Record, WindowTo, IInv, TypeOK
  <2> DEFINE e == IF slot[t].state = "Dispatched"
                  THEN [slot[t] EXCEPT !.recorded = TRUE, !.fresh = TRUE] ELSE slot[t]
  <2>2. /\ e.state = slot[t].state /\ e.published = slot[t].published
        /\ e.result = slot[t].result /\ e.acknowledged = slot[t].acknowledged
    BY <1>1 DEF SlotType
  <2>3. KeepSlots \/ Store(t, e)
    BY <1>8 DEF Record
  <2> HIDE DEF e
  <2>4. CASE KeepSlots
    BY <1>7, <2>1, <2>4
  <2>5. CASE Store(t, e) /\ slot[t].state # "Empty"
    <3>1. worker' = [worker EXCEPT ![t] = worker[t]]
      BY <2>1 DEF IInv, TypeOK
    <3>2. verdict'[t] = IF e.published = 3 /\ verdict[t] = "none" THEN e.result ELSE verdict[t]
      BY <2>5, <3>1, StoredTask DEF IInv
    <3>3. Sound(e, worker[t], verdict'[t])
      BY <1>1, <2>2, <3>2 DEF Sound
    <3>4. slot[t].published <= e.published
      BY <1>1, <2>2 DEF SlotType
    <3>5. SpawnWaits'
      BY <2>1 DEF SpawnWaits
    <3> QED
      BY <1>2, <2>1, <2>2, <2>5, <3>1, <3>3, <3>4, <3>5, TaskStores
  <2>6. CASE Store(t, e) /\ slot[t].state = "Empty"
    <3>1. e = slot[t] /\ e.published = 0
      BY <1>1, <2>6 DEF e, IInv, Verdicts, EmptySlots
    <3>2. KeepSlots
      BY <2>6, <3>1 DEF Store, KeepSlots, IInv, TypeOK
    <3> QED
      BY <1>7, <2>1, <3>2
  <2> QED
    BY <2>3, <2>4, <2>5, <2>6
<1>9. CASE StartMonitor(t)
  BY <1>7, <1>9 DEF StartMonitor, WindowTo, IInv, TypeOK
<1>10. CASE PostDispatched(t)
  BY <1>7, <1>10 DEF PostDispatched, IdleWindow
<1> QED
  BY <1>3, <1>5, <1>6, <1>8, <1>9, <1>10

\* Collecting takes what is published, up to where the launcher has heard.
LEMMA PollingIsSteady ==
  ASSUME IInv, IInv', Stages, Poll \/ LauncherCrash
  PROVE  Stages' /\ Steady
<1>1. KeepSlots /\ UNCHANGED <<worker, told>>
  BY DEF Poll, LauncherCrash
<1>2. CASE window' = window \/ LauncherCrash
  <2>1. SpawnWaits'
    BY <1>1, <1>2 DEF Stages, SpawnWaits, KeepSlots, LauncherCrash, IdleWindow
  <2> QED
    BY <1>1, <1>2, <2>1, StagesRest DEF LauncherCrash, IdleWindow
<1>3. CASE Poll /\ window' # window
  <2>1. PICK polled \in SUBSET Tasks :
          /\ window'.at = "handle"
          /\ window'.inbox = UNION {Unheard(t) : t \in polled}
    <3>1. PICK busy \in SUBSET registry :
            window' = [IdleWindow EXCEPT !.at = "handle",
                                         !.inbox = UNION {Unheard(t) : t \in registry \ busy}]
      BY <1>3 DEF Poll
    <3>2. registry \ busy \in SUBSET Tasks
      BY DEF IInv, TypeOK
    <3> QED
      BY <3>1, <3>2 DEF IdleWindow
  <2>2. UNCHANGED <<slot, worker, verdict, heard, toldAs>>
    BY <1>1 DEF KeepSlots, told
  <2>3. SoundSlots' /\ HeardInOrder' /\ UNCHANGED stageOf
    BY <2>2 DEF Stages, SoundSlots, HeardInOrder, stageOf
  <2>4. SpawnWaits'
    BY <2>1 DEF SpawnWaits
  <2>5. ASSUME NEW event \in window'.inbox
        PROVE  /\ event.kind <= slot[event.task].published
               /\ event.kind = 3 => event.result = verdict[event.task]
               /\ \A k \in 1..event.kind : k < event.kind /\ heard[event.task] < k =>
                    \E other \in window'.inbox : other.task = event.task /\ other.kind = k
    <3>1. PICK t \in polled : event \in Unheard(t)
      BY <2>1
    <3>2. PICK kind \in slot[t].acknowledged + 1..slot[t].published :
            event = [task |-> t, kind |-> kind, result |-> slot[t].result]
      BY <3>1 DEF Unheard
    <3>3. event.task = t /\ event.kind = kind /\ event.result = slot[t].result
      BY <3>2
    <3>4. /\ slot[t].acknowledged \in 0..3 /\ slot[t].published \in 0..3 /\ heard[t] \in 0..3
          /\ slot[t].acknowledged <= heard[t] /\ t \in Tasks
      BY DEF IInv, TypeOK, SlotType, Stages, HeardInOrder
    <3>5. ASSUME kind = 3 PROVE slot[t].result = verdict[t]
      <4>1. slot[t].published = 3
        BY <3>4, <3>5
      <4> QED
        BY <3>4, <4>1 DEF Stages, SoundSlots, Sound
    <3>6. ASSUME NEW k \in 1..kind, k < kind, heard[t] < k
          PROVE  \E other \in window'.inbox : other.task = t /\ other.kind = k
      <4>1. k \in slot[t].acknowledged + 1..slot[t].published
        BY <3>4, <3>6
      <4>2. [task |-> t, kind |-> k, result |-> slot[t].result] \in Unheard(t)
        BY <4>1 DEF Unheard
      <4>3. [task |-> t, kind |-> k, result |-> slot[t].result] \in window'.inbox
        BY <2>1, <4>2
      <4> QED
        BY <4>3
    <3>7. kind <= slot[t].published
      BY <3>4
    <3> QED
      BY <3>3, <3>5, <3>6, <3>7
  <2>6. InboxInOrder'
    BY <2>2, <2>5 DEF InboxInOrder
  <2> QED
    BY <2>2, <2>3, <2>4, <2>6 DEF Stages, Steady
<1> QED
  BY <1>2, <1>3

\* The launcher hears of the stages in their order, however often it is told: an
\* event repeats what it heard already, or is the next.
LEMMA HearingIsSteady ==
  ASSUME IInv, IInv', Stages, NEW event \in window.inbox, Handle(event)
  PROVE  Stages' /\ Steady
<1> DEFINE t == event.task
           k == event.kind
           rest == window.inbox \ {event}
<1>1. /\ window.inbox \subseteq EventType
      /\ t \in Tasks /\ k \in 1..3 /\ event.result \in Results
  <2>1. window.inbox \subseteq EventType
    BY DEF IInv, TypeOK
  <2> QED
    BY <2>1 DEF EventType
<1>2. slot[t] \in SlotType /\ heard[t] \in 0..3 /\ Sound(slot[t], worker[t], verdict[t])
  BY <1>1 DEF IInv, TypeOK, Stages, SoundSlots
<1>3. UNCHANGED worker
  BY DEF Handle
<1>4. /\ heard' = [heard EXCEPT ![t] = IF k > @ THEN k ELSE @]
      /\ toldAs' = IF k = 3 THEN [toldAs EXCEPT ![t] = event.result] ELSE toldAs
      /\ \A other \in rest : other.task = t => k < other.kind
  BY DEF Handle
<1>5. window'.at # "spawn" /\ window'.inbox = rest
  BY DEF Handle, IdleWindow, IInv, TypeOK
\* An acknowledgement is no stage.
<1>6. /\ OnlyOf(t) /\ verdict' = verdict
      /\ slot'[t].state = slot[t].state /\ slot'[t].published = slot[t].published
      /\ slot'[t].result = slot[t].result
      /\ slot'[t].acknowledged \in {slot[t].acknowledged, k}
  <2>1. CASE KeepSlots
    BY <1>3, <2>1 DEF KeepSlots, OnlyOf
  <2>2. CASE Store(t, Acknowledge(slot[t], k))
    <3> DEFINE e == Acknowledge(slot[t], k)
    <3>1. /\ e.state = slot[t].state /\ e.published = slot[t].published
          /\ e.result = slot[t].result /\ e.acknowledged \in {slot[t].acknowledged, k}
      BY <1>2 DEF Acknowledge, SlotType
    <3>2. Store(t, e)
      BY <2>2
    <3> HIDE DEF e
    <3>3. verdict' = verdict
      BY <1>2, <3>1, <3>2 DEF Store, Sound
    <3>4. OnlyOf(t) /\ slot'[t] = e
      BY <1>1, <1>3, <3>2, <3>3 DEF Store, OnlyOf, IInv, TypeOK
    <3> QED
      BY <3>1, <3>3, <3>4
  <2> QED
    BY <2>1, <2>2 DEF Handle
<1>7. /\ k <= slot[t].published
      /\ k = 3 => event.result = verdict[t] /\ verdict[t] # "none"
  <2>1. k <= slot[t].published /\ (k = 3 => event.result = verdict[t])
    BY DEF Stages, InboxInOrder
  <2>2. k = 3 => verdict[t] # "none"
    BY <1>2, <2>1 DEF SlotType, Sound
  <2> QED
    BY <2>1, <2>2
<1>8. SoundSlots' /\ SpawnWaits'
  <2>1. Sound(slot'[t], worker'[t], verdict'[t])
    BY <1>2, <1>3, <1>6 DEF Sound
  <2> QED
    BY <1>5, <1>6, <2>1 DEF Stages, SoundSlots, SpawnWaits, OnlyOf
<1>9. /\ heard'[t] = (IF k > heard[t] THEN k ELSE heard[t])
      /\ \A s \in Tasks \ {t} : heard'[s] = heard[s]
  BY <1>1, <1>4 DEF IInv, TypeOK
<1>10. HeardInOrder'
  <2>1. /\ slot'[t].acknowledged <= heard'[t]
        /\ heard'[t] = 3 => toldAs'[t] = verdict'[t] /\ verdict'[t] # "none"
    <3>1. /\ slot[t].acknowledged <= heard[t] /\ slot[t].acknowledged \in 0..3
          /\ heard[t] = 3 => toldAs[t] = verdict[t] /\ verdict[t] # "none"
      BY <1>1, <1>2 DEF Stages, HeardInOrder, SlotType
    <3>2. slot'[t].acknowledged <= heard'[t]
      BY <1>1, <1>2, <1>6, <1>9, <3>1
    <3>3. CASE k = 3
      <4>1. toldAs'[t] = event.result
        BY <1>1, <1>4, <3>3 DEF IInv, TypeOK
      <4> QED
        BY <1>6, <1>7, <3>2, <3>3, <4>1
    <3>4. CASE k # 3
      <4>1. toldAs'[t] = toldAs[t] /\ (heard'[t] = 3 => heard[t] = 3)
        BY <1>1, <1>4, <1>9, <3>4
      <4> QED
        BY <1>6, <3>1, <3>2, <4>1
    <3> QED
      BY <3>3, <3>4
  <2>2. \A s \in Tasks \ {t} : /\ slot'[s] = slot[s] /\ heard'[s] = heard[s]
                               /\ toldAs'[s] = toldAs[s] /\ verdict'[s] = verdict[s]
    BY <1>1, <1>4, <1>6, <1>9 DEF OnlyOf, IInv, TypeOK
  <2> QED
    BY <2>1, <2>2 DEF Stages, HeardInOrder
<1>11. InboxInOrder'
  <2> SUFFICES ASSUME NEW e \in rest
               PROVE  /\ e.kind <= slot'[e.task].published
                      /\ e.kind = 3 => e.result = verdict'[e.task]
                      /\ \A j \in 1..e.kind : j < e.kind /\ heard'[e.task] < j =>
                           \E other \in rest : other.task = e.task /\ other.kind = j
    BY <1>5 DEF InboxInOrder
  <2>1. e.task \in Tasks /\ e.kind \in 1..3
    BY <1>1 DEF EventType
  <2>2. /\ e.kind <= slot[e.task].published
        /\ e.kind = 3 => e.result = verdict[e.task]
    BY DEF Stages, InboxInOrder
  <2>3. slot'[e.task].published = slot[e.task].published
    BY <1>6, <2>1 DEF OnlyOf
  <2>4. ASSUME NEW j \in 1..e.kind, j < e.kind, heard'[e.task] < j
        PROVE  \E other \in rest : other.task = e.task /\ other.kind = j
    <3>1. heard[e.task] < j /\ (e.task = t => k < j)
      <4>1. heard[e.task] \in 0..3 /\ j \in 1..3
        BY <2>1 DEF IInv, TypeOK
      <4> QED
        BY <1>1, <1>9, <2>1, <2>4, <4>1
    <3>2. PICK other \in window.inbox : other.task = e.task /\ other.kind = j
      BY <2>4, <3>1 DEF Stages, InboxInOrder
    <3>3. other # event
      BY <1>1, <3>1, <3>2
    <3> QED
      BY <3>2, <3>3
  <2> QED
    BY <1>6, <2>2, <2>3, <2>4
<1>12. UNCHANGED <<stageOf, verdict>>
  <2>1. stageOf'[t] = stageOf[t]
    BY <1>1, <1>3, <1>6 DEF stageOf
  <2>2. stageOf' = [stageOf EXCEPT ![t] = stageOf'[t]]
    BY <1>1, <1>6, StageOfOne DEF IInv
  <2>3. stageOf = [s \in Tasks |-> stageOf[s]]
    BY DEF stageOf
  <2> QED
    BY <1>6, <2>1, <2>2, <2>3
\* What the launcher heard before.
<1>13. CASE k <= heard[t]
  <2>1. heard' = heard
    BY <1>1, <1>4, <1>9, <1>13 DEF IInv, TypeOK
  <2>2. toldAs' = toldAs
    <3>1. CASE k # 3
      BY <1>4, <3>1
    <3>2. CASE k = 3
      <4>1. toldAs[t] = event.result
        BY <1>1, <1>2, <1>7, <1>13, <3>2 DEF Stages, HeardInOrder
      <4> QED
        BY <1>4, <3>2, <4>1 DEF IInv, TypeOK
    <3> QED
      BY <3>1, <3>2
  <2> QED
    BY <1>8, <1>10, <1>11, <1>12, <2>1, <2>2 DEF Stages, Steady
\* The next stage: an event that skipped one would not be the first in line.
<1>14. CASE heard[t] < k
  <2>1. k = heard[t] + 1
    <3> SUFFICES ASSUME heard[t] + 1 < k PROVE FALSE
      BY <1>1, <1>2, <1>14
    <3>1. heard[t] + 1 \in 1..k /\ heard[t] < heard[t] + 1
      BY <1>1, <1>2
    <3>2. PICK other \in window.inbox : other.task = t /\ other.kind = heard[t] + 1
      BY <3>1 DEF Stages, InboxInOrder
    <3>3. other \in rest
      BY <1>1, <1>2, <3>2
    <3> QED
      BY <1>1, <1>2, <1>4, <3>2, <3>3
  <2>2. slot[t].state # "Empty"
    BY <1>1, <1>7 DEF IInv, Verdicts, EmptySlots
  <2>3. stageOf[t] = slot[t].published
    BY <1>1, <2>2 DEF stageOf
  <2>4. heard[t] < stageOf[t]
    BY <1>1, <1>2, <1>7, <1>14, <2>3 DEF SlotType
  <2>5. heard' = [heard EXCEPT ![t] = @ + 1]
    BY <1>4, <1>9, <1>14, <2>1
  <2>6. toldAs' = IF heard[t] = 2 THEN [toldAs EXCEPT ![t] = verdict[t]] ELSE toldAs
    <3>1. k = 3 <=> heard[t] = 2
      BY <1>2, <2>1
    <3> QED
      BY <1>4, <1>7, <3>1
  <2>7. stageOf[t] = 3 => verdict[t] # "none"
    BY <1>2, <2>3 DEF Sound
  <2>8. Lifecycle!Hear(t)
    BY <1>12, <2>4, <2>5, <2>6, <2>7 DEF Lifecycle!Hear
  <2> QED
    BY <1>1, <1>8, <1>10, <1>11, <2>8 DEF Stages, Steady, Lifecycle!Next
<1> QED
  BY <1>1, <1>2, <1>13, <1>14

LEMMA StepIsSteady ==
  ASSUME IInv, Stages, [Next]_vars PROVE Stages' /\ Steady
<1>1. IInv'
  BY StepKeepsInvariant
<1>2. CASE UNCHANGED vars
  <2>1. KeepSlots /\ UNCHANGED <<worker, told, window>>
    BY <1>2 DEF vars, launcher, KeepSlots
  <2>2. SpawnWaits'
    BY <2>1 DEF KeepSlots, Stages, SpawnWaits
  <2> QED
    BY <2>1, <2>2, StagesRest
<1>3. CASE WindowStep \/ LauncherCrash
  BY <1>1, <1>3, DispatchingIsSteady, PollingIsSteady, HearingIsSteady DEF WindowStep
<1>4. ASSUME NEW t \in Tasks,
             \/ Dispatch(t) \/ TimerFires(t) \/ ExitSeen(t) \/ StoreCancel(t) \/ PostCancel(t)
             \/ WorkerStep(t) \/ WatchStep(t) \/ Finish(t) \/ WorkerCrash(t)
      PROVE  Stages' /\ Steady
  BY <1>1, <1>4, DispatchingIsSteady, EventsAreSteady, WorkersAreSteady
<1> QED
  BY <1>2, <1>3, <1>4 DEF Next

LEMMA InitIsSteady ==
  ASSUME Init PROVE Stages /\ Lifecycle!Init
<1>1. SoundSlots
  BY DEF Init, SoundSlots, Sound, EmptySlot
<1>2. SpawnWaits /\ InboxInOrder
  BY DEF Init, SpawnWaits, InboxInOrder, IdleWindow
<1>3. HeardInOrder
  BY DEF Init, HeardInOrder, EmptySlot
<1>4. stageOf = [t \in Tasks |-> 0]
  BY DEF Init, stageOf, EmptySlot
<1> QED
  BY <1>1, <1>2, <1>3, <1>4 DEF Init, Stages, Lifecycle!Init

\* The mappings, the timer and the exit monitor of posix.cpp implement the
\* lifecycle of TaskLifecycle: a task is taken once, its verdict stands, and the
\* launcher hears of the stages one after the other, with the verdict that ended
\* the task.
THEOREM MappingImplementsLifecycle == Spec => ImplementsLifecycle
<1>1. Init => IInv /\ Stages /\ Lifecycle!Init
  BY InitHasInvariant, InitIsSteady
<1>2. IInv /\ Stages /\ [Next]_vars =>
        IInv' /\ Stages' /\ [Lifecycle!Next]_Lifecycle!lifecycleVars
  BY StepKeepsInvariant, StepIsSteady DEF Steady, Lifecycle!lifecycleVars
<1> QED
  BY <1>1, <1>2, PTL DEF Spec, ImplementsLifecycle, Lifecycle!Spec

-----------------------------------------------------------------------------
(* A stored cancel, until the worker hears of it.                          *)

Early == {"none", "starting", "claimed", "watching"}

\* The flag goes only with a task that could not be started; a worker waits only
\* once it runs its task, and with a post that came or is still to come.
FlagStored == \A t \in asked : slot[t].cancel \/ worker[t].at = "gone"
WaitsLater == \A t \in Tasks : worker[t].at \in Early => watch[t] = "off"
PostWaits ==
  \A t \in asked : living /\ worker[t].at \in Running /\ watch[t] = "waiting" =>
    cancels[t] > 0 \/ t \in pending

Heeded == FlagStored /\ WaitsLater /\ PostWaits

\* A process starts once, and goes on.
Onward(from, to) ==
  /\ from \notin {"none", "gone"} /\ to \notin {"none", "starting"}
  /\ to \in Early => from \in {"starting", "claimed"}
  /\ to \in Running => from \in Running \cup {"starting"}

LEMMA WorkerGoesOn ==
  ASSUME TypeOK, NEW t \in Tasks, WorkerStep(t) \/ Finish(t) \/ WorkerCrash(t)
  PROVE  /\ \A s \in Tasks \ {t} : worker'[s] = worker[s]
         /\ Onward(worker[t].at, worker'[t].at)
<1>1. ASSUME NEW w, worker' = [worker EXCEPT ![t] = w], Onward(worker[t].at, w.at)
      PROVE  /\ \A s \in Tasks \ {t} : worker'[s] = worker[s]
             /\ Onward(worker[t].at, worker'[t].at)
  BY <1>1 DEF TypeOK
<1>2. ASSUME NEW place, WorkerTo(t, place), Onward(worker[t].at, place)
      PROVE  /\ \A s \in Tasks \ {t} : worker'[s] = worker[s]
             /\ Onward(worker[t].at, worker'[t].at)
  <2>1. PICK w : w = IF place \in {"gone", "mute"} THEN [at |-> place, result |-> "none"]
                     ELSE [worker[t] EXCEPT !.at = place]
    OBVIOUS
  <2>2. worker' = [worker EXCEPT ![t] = w]
    BY <1>2, <2>1 DEF WorkerTo
  <2>3. worker[t] \in [at : WorkerPlaces, result : Results]
    BY DEF TypeOK
  <2>4. w.at = place
    BY <2>1, <2>3
  <2> QED
    BY <1>1, <1>2, <2>2, <2>4
<1>3. CASE Claim(t)
  <2>1. Onward(worker[t].at, "gone") /\ Onward(worker[t].at, "claimed")
    BY <1>3 DEF Claim, Onward, Early, Running
  <2>2. WorkerTo(t, "gone") \/ WorkerTo(t, "claimed")
    BY <1>3 DEF Claim
  <2> QED
    BY <1>2, <2>1, <2>2
<1>4. CASE PostClaimed(t)
  BY <1>2, <1>4 DEF PostClaimed, Onward, Early, Running
<1>5. CASE StartWatch(t) \/ Finish(t)
  <2>1. Onward(worker[t].at, "working") /\ Onward(worker[t].at, "publish")
    BY <1>5 DEF StartWatch, Finish, Onward, Early, Running
  <2>2. \/ WorkerTo(t, "working")
        \/ \E result : worker' = [worker EXCEPT ![t] = [at |-> "publish", result |-> result]]
    BY <1>5 DEF StartWatch, Finish
  <2> QED
    BY <1>1, <1>2, <2>1, <2>2
<1>6. CASE Publish(t) \/ OpenMinimal(t)
  <2>1. \A place \in {"gone", "post", "minimal", "store_result"} : Onward(worker[t].at, place)
    BY <1>6 DEF Publish, OpenMinimal, Onward, Early, Running
  <2>2. \E place \in {"gone", "post", "minimal", "store_result"} : WorkerTo(t, place)
    BY <1>6 DEF Publish, OpenMinimal
  <2> QED
    BY <1>2, <2>1, <2>2
<1>7. CASE StoreResult(t) \/ StoreEvent(t) \/ StoreState(t)
  <2>1. \E place : WorkerTo(t, place) /\ Onward(worker[t].at, place)
    BY <1>7 DEF StoreResult, StoreEvent, StoreState, Onward, Early, Running
  <2> QED
    BY <1>2, <2>1
<1>8. CASE PostCompleted(t) \/ WorkerCrash(t)
  <2>1. \A place \in {"gone", "mute"} : Onward(worker[t].at, place)
    BY <1>8 DEF PostCompleted, WorkerCrash, WorkerAlive, Onward, Early, Running
  <2>2. \E place \in {"gone", "mute"} : WorkerTo(t, place)
    BY <1>8 DEF PostCompleted, WorkerCrash
  <2> QED
    BY <1>2, <2>1, <2>2
<1> QED
  BY <1>3, <1>4, <1>5, <1>6, <1>7, <1>8 DEF WorkerStep

\* No flag is taken off a slot.
FlagsKept == \A t \in Tasks : slot[t].cancel => slot'[t].cancel

LEMMA StoreKeepsFlags ==
  ASSUME TypeOK, NEW t \in Tasks, NEW e, Store(t, e), slot[t].cancel => e.cancel
  PROVE  FlagsKept
BY DEF FlagsKept, Store, TypeOK

LEMMA KeptFlags == ASSUME KeepSlots PROVE FlagsKept
BY DEF FlagsKept, KeepSlots

\* What is stored in a slot leaves its flag.
LEMMA FlagFields ==
  ASSUME NEW e \in SlotType
  PROVE  /\ [e EXCEPT !.recorded = TRUE, !.fresh = TRUE].cancel = e.cancel
         /\ \A kind : Acknowledge(e, kind).cancel = e.cancel
         /\ \A result : PublishCompletion(e, result).cancel = e.cancel
         /\ PublishStage([e EXCEPT !.state = "Claimed", !.recorded = TRUE], 2).cancel = e.cancel
         /\ \A result : [e EXCEPT !.result = result, !.fresh = TRUE].cancel = e.cancel
         /\ [e EXCEPT !.published = 3].cancel = e.cancel
         /\ [e EXCEPT !.state = "Completed"].cancel = e.cancel
         /\ [e EXCEPT !.cancel = TRUE, !.fresh = TRUE].cancel
<1>1. /\ [e EXCEPT !.recorded = TRUE, !.fresh = TRUE].cancel = e.cancel
      /\ [e EXCEPT !.published = 3].cancel = e.cancel
      /\ [e EXCEPT !.state = "Completed"].cancel = e.cancel
      /\ [e EXCEPT !.cancel = TRUE, !.fresh = TRUE].cancel
  BY DEF SlotType
<1>2. \A kind : Acknowledge(e, kind).cancel = e.cancel
  BY DEF Acknowledge, SlotType
<1>3. ASSUME NEW result PROVE PublishCompletion(e, result).cancel = e.cancel
  BY DEF PublishCompletion, PublishStage, SlotType
<1>4. PublishStage([e EXCEPT !.state = "Claimed", !.recorded = TRUE], 2).cancel = e.cancel
  BY DEF PublishStage, SlotType
<1>5. \A result : [e EXCEPT !.result = result, !.fresh = TRUE].cancel = e.cancel
  BY DEF SlotType
<1> QED
  BY <1>1, <1>2, <1>3, <1>4, <1>5

LEMMA WorkersKeepFlags ==
  ASSUME TypeOK, NEW t \in Tasks,
         WorkerStep(t) \/ WatchStep(t) \/ Finish(t) \/ WorkerCrash(t)
  PROVE  FlagsKept
<1>1. slot[t] \in SlotType
  BY DEF TypeOK
<1>2. CASE Claim(t) \/ Publish(t)
  <2>1. \/ KeepSlots
        \/ Store(t, PublishStage([slot[t] EXCEPT !.state = "Claimed", !.recorded = TRUE], 2))
        \/ Store(t, PublishCompletion(slot[t], worker[t].result))
    BY <1>2 DEF Claim, Publish
  <2> QED
    BY <1>1, <2>1, FlagFields, StoreKeepsFlags, KeptFlags
<1>3. CASE StoreResult(t) \/ StoreEvent(t) \/ StoreState(t)
  <2>1. \/ Store(t, [slot[t] EXCEPT !.result = worker[t].result, !.fresh = TRUE])
        \/ Store(t, [slot[t] EXCEPT !.published = 3])
        \/ Store(t, [slot[t] EXCEPT !.state = "Completed"])
    BY <1>3 DEF StoreResult, StoreEvent, StoreState
  <2> QED
    BY <1>1, <2>1, FlagFields, StoreKeepsFlags
<1>4. CASE KeepSlots
  BY <1>4, KeptFlags
<1> QED
  BY <1>2, <1>3, <1>4 DEF WorkerStep, PostClaimed, StartWatch, OpenMinimal, PostCompleted,
     WatchStep, WatchWakes, WatchAsks, Finish, WorkerCrash

LEMMA EventsKeepFlags ==
  ASSUME TypeOK, NEW t \in Tasks,
         TimerFires(t) \/ ExitSeen(t) \/ StoreCancel(t) \/ PostCancel(t) \/ Record(t)
  PROVE  FlagsKept
<1>1. slot[t] \in SlotType
  BY DEF TypeOK
<1>2. \/ KeepSlots
      \/ \E result : Store(t, PublishCompletion(slot[t], result))
      \/ Store(t, [slot[t] EXCEPT !.cancel = TRUE, !.fresh = TRUE])
      \/ Store(t, [slot[t] EXCEPT !.recorded = TRUE, !.fresh = TRUE])
      \/ Store(t, slot[t])
  BY DEF TimerFires, ExitSeen, StoreCancel, PostCancel, Record
<1> QED
  BY <1>1, <1>2, FlagFields, StoreKeepsFlags, KeptFlags

LEMMA HandleKeepsFlags ==
  ASSUME TypeOK, NEW event \in window.inbox, Handle(event)
  PROVE  FlagsKept
<1>1. event.task \in Tasks /\ slot[event.task] \in SlotType
  BY DEF TypeOK, EventType
<1>2. KeepSlots \/ Store(event.task, Acknowledge(slot[event.task], event.kind))
  BY DEF Handle
<1> QED
  BY <1>1, <1>2, FlagFields, StoreKeepsFlags, KeptFlags

\* A worker that runs a task that a cancel was stored for finds the flag.
LEMMA RunningFindsFlag ==
  ASSUME Heeded, NEW t \in asked, worker[t].at \in Running
  PROVE  slot[t].cancel
BY DEF Heeded, FlagStored, Running

LEMMA QuietKeepsHeeded ==
  ASSUME Heeded, FlagsKept, asked \subseteq Tasks,
         UNCHANGED <<asked, cancels, pending, worker, watch>>, living' => living
  PROVE  Heeded'
BY DEF Heeded, FlagsKept, FlagStored, WaitsLater, PostWaits

LEMMA WindowKeepsHeeded ==
  ASSUME TypeOK, SpawnWaits, Heeded, WindowStep \/ LauncherCrash
  PROVE  Heeded'
<1>1. asked \subseteq Tasks /\ worker \in [Tasks -> [at : WorkerPlaces, result : Results]]
  BY DEF TypeOK
<1>2. ASSUME NEW t \in Tasks, Spawn(t) PROVE Heeded'
  <2>1. worker[t].at = "none"
    BY <1>2 DEF Spawn, Doing, SpawnWaits
  <2>2. worker'[t].at = "starting" /\ \A s \in Tasks \ {t} : worker'[s] = worker[s]
    BY <1>1, <1>2 DEF Spawn
  <2>3. UNCHANGED <<slot, asked, cancels, pending, watch, living>>
    BY <1>2 DEF Spawn, KeepSlots, cancelling
  <2>4. FlagStored'
    BY <1>1, <2>1, <2>2, <2>3 DEF Heeded, FlagStored
  <2>5. WaitsLater'
    BY <2>1, <2>2, <2>3 DEF Heeded, WaitsLater, Early
  <2>6. PostWaits'
    BY <1>1, <2>2, <2>3 DEF Heeded, PostWaits, Running
  <2> QED
    BY <2>4, <2>5, <2>6 DEF Heeded
<1>3. ASSUME NEW t \in Tasks, SpawnFails(t) PROVE Heeded'
  <2>1. worker'[t].at = "gone" /\ \A s \in Tasks \ {t} : worker'[s] = worker[s]
    BY <1>1, <1>3 DEF SpawnFails
  <2>2. UNCHANGED <<asked, cancels, pending, watch, living>>
    BY <1>3 DEF SpawnFails, cancelling
  <2>3. \A s \in Tasks \ {t} : slot'[s] = slot[s]
    BY <1>3 DEF SpawnFails, TypeOK
  <2>4. FlagStored'
    BY <1>1, <2>1, <2>2, <2>3 DEF Heeded, FlagStored
  <2>5. WaitsLater' /\ PostWaits'
    BY <1>1, <2>1, <2>2 DEF Heeded, WaitsLater, PostWaits, Early, Running
  <2> QED
    BY <2>4, <2>5 DEF Heeded
<1>4. ASSUME NEW t \in Tasks, Record(t) \/ StartMonitor(t) \/ PostDispatched(t) PROVE Heeded'
  <2>1. UNCHANGED <<cancelling, worker, watch, living>>
    BY <1>4 DEF Record, StartMonitor, PostDispatched
  <2>2. FlagsKept
    BY <1>4, EventsKeepFlags, KeptFlags DEF StartMonitor, PostDispatched
  <2> QED
    BY <1>1, <2>1, <2>2, QuietKeepsHeeded DEF cancelling
<1>5. CASE Poll
  <2>1. UNCHANGED <<cancelling, worker, watch, living>> /\ KeepSlots
    BY <1>5 DEF Poll
  <2> QED
    BY <1>1, <2>1, KeptFlags, QuietKeepsHeeded DEF cancelling
<1>6. ASSUME NEW event \in window.inbox, Handle(event) PROVE Heeded'
  <2>1. UNCHANGED <<cancelling, worker, watch, living>>
    BY <1>6 DEF Handle
  <2> QED
    BY <1>1, <1>6, <2>1, HandleKeepsFlags, QuietKeepsHeeded DEF cancelling
<1>7. CASE LauncherCrash
  <2>1. UNCHANGED <<slot, asked, worker, watch>> /\ ~living'
    BY <1>7 DEF LauncherCrash, KeepSlots
  <2> QED
    BY <2>1 DEF Heeded, FlagStored, WaitsLater, PostWaits
<1> QED
  BY <1>2, <1>3, <1>4, <1>5, <1>6, <1>7 DEF WindowStep

\* Nobody asked for a task that was not dispatched.
LEMMA DispatchKeepsHeeded ==
  ASSUME TypeOK, Heeded, NEW t \in Tasks, Dispatch(t)
  PROVE  Heeded'
<1>1. asked \subseteq Tasks /\ t \notin asked
  BY DEF Dispatch, Heeded, FlagStored, EmptySlot, TypeOK
<1>2. UNCHANGED <<cancelling, worker, watch, living>> /\ \A s \in Tasks \ {t} : slot'[s] = slot[s]
  BY DEF Dispatch, Store, TypeOK
<1>3. UNCHANGED <<asked, cancels, pending>>
  BY <1>2 DEF cancelling
<1>4. FlagStored'
  BY <1>1, <1>2, <1>3 DEF Heeded, FlagStored
<1> QED
  BY <1>2, <1>3, <1>4 DEF Heeded, WaitsLater, PostWaits

\* The flag is stored first and posted later.
LEMMA EventsKeepHeeded ==
  ASSUME TypeOK, Heeded, NEW t \in Tasks,
         TimerFires(t) \/ ExitSeen(t) \/ StoreCancel(t) \/ PostCancel(t)
  PROVE  Heeded'
<1>1. /\ asked \subseteq Tasks /\ cancels \in [Tasks -> Nat] /\ slot[t] \in SlotType
      /\ slot \in [Tasks -> SlotType]
  BY DEF TypeOK
<1>2. UNCHANGED <<worker, watch, living>> /\ FlagsKept
  BY EventsKeepFlags DEF TimerFires, ExitSeen, StoreCancel, PostCancel, launcher
<1>3. CASE TimerFires(t) \/ ExitSeen(t)
  <2>1. UNCHANGED cancelling
    BY <1>3 DEF TimerFires, ExitSeen
  <2> QED
    BY <1>1, <1>2, <2>1, QuietKeepsHeeded DEF cancelling
<1>4. CASE StoreCancel(t)
  <2>1. asked' = asked \cup {t} /\ pending' = pending \cup {t} /\ UNCHANGED cancels
    BY <1>4 DEF StoreCancel
  <2>2. slot'[t].cancel
    BY <1>1, <1>4, FlagFields DEF StoreCancel, Store
  <2>3. FlagStored'
    BY <1>1, <1>2, <2>1, <2>2 DEF Heeded, FlagStored, FlagsKept
  <2> QED
    BY <1>2, <2>1, <2>3 DEF Heeded, WaitsLater, PostWaits
<1>5. CASE PostCancel(t)
  <2>1. UNCHANGED asked /\ pending' = pending \ {t}
    BY <1>5 DEF PostCancel
  <2>2. cancels'[t] > 0 /\ \A s \in Tasks \ {t} : cancels'[s] = cancels[s]
    BY <1>1, <1>5 DEF PostCancel, Post
  <2>3. PostWaits'
    BY <1>1, <1>2, <2>1, <2>2 DEF Heeded, PostWaits
  <2>4. FlagStored' /\ WaitsLater'
    BY <1>1, <1>2, <2>1 DEF Heeded, FlagStored, FlagsKept, WaitsLater
  <2> QED
    BY <2>3, <2>4 DEF Heeded
<1> QED
  BY <1>3, <1>4, <1>5

LEMMA WorkersKeepHeeded ==
  ASSUME TypeOK, Heeded, NEW t \in Tasks,
         WorkerStep(t) \/ Finish(t) \/ WorkerCrash(t)
  PROVE  Heeded'
<1>1. UNCHANGED <<asked, cancels, pending, living>>
  <2>1. UNCHANGED <<cancelling, living>>
    BY DEF WorkerStep, Claim, PostClaimed, StartWatch, Publish, OpenMinimal, StoreResult,
       StoreEvent, StoreState, PostCompleted, Finish, WorkerCrash, launcher
  <2> QED
    BY <2>1 DEF cancelling
<1>2. /\ \A s \in Tasks \ {t} : worker'[s] = worker[s]
      /\ Onward(worker[t].at, worker'[t].at)
  BY WorkerGoesOn
<1>3. asked \subseteq Tasks /\ watch \in [Tasks -> {"off", "waiting", "woken", "canceled"}]
  BY DEF TypeOK
<1>4. FlagStored'
  <2>1. FlagsKept
    BY WorkersKeepFlags
  <2> QED
    BY <1>1, <1>2, <1>3, <2>1 DEF Heeded, FlagStored, FlagsKept, Onward
<1>5. CASE StartWatch(t)
  <2>1. worker[t].at = "watching" /\ \A s \in Tasks \ {t} : watch'[s] = watch[s]
    BY <1>3, <1>5 DEF StartWatch
  <2>2. worker'[t].at \notin Early
    BY <1>2, <2>1 DEF Onward, Early
  <2>3. t \in asked => watch'[t] # "waiting"
    <3>1. t \in asked => slot[t].cancel
      BY <2>1, RunningFindsFlag DEF Running
    <3> QED
      BY <1>3, <1>5, <3>1 DEF StartWatch
  <2>4. WaitsLater'
    BY <1>2, <2>1, <2>2 DEF Heeded, WaitsLater
  <2>5. PostWaits'
    BY <1>1, <1>2, <1>3, <2>1, <2>3 DEF Heeded, PostWaits
  <2> QED
    BY <1>4, <2>4, <2>5 DEF Heeded
<1>6. CASE UNCHANGED watch
  <2>1. WaitsLater'
    BY <1>2, <1>6 DEF Heeded, WaitsLater, Onward, Early
  <2>2. worker'[t].at \in Running => worker[t].at \in Running \/ watch[t] = "off"
    BY <1>2 DEF Heeded, WaitsLater, Onward, Early
  <2>3. PostWaits'
    BY <1>1, <1>2, <1>3, <1>6, <2>2 DEF Heeded, PostWaits
  <2> QED
    BY <1>4, <2>1, <2>3 DEF Heeded
<1> QED
  BY <1>5, <1>6 DEF WorkerStep, Claim, PostClaimed, Publish, OpenMinimal, StoreResult,
     StoreEvent, StoreState, PostCompleted, Finish, WorkerCrash

\* A waiter that takes a post asks again, and waits on only if it found no flag.
LEMMA WatchKeepsHeeded ==
  ASSUME TypeOK, Heeded, NEW t \in Tasks, WatchStep(t)
  PROVE  Heeded'
<1>1. UNCHANGED <<asked, pending, worker, living>> /\ KeepSlots
  BY DEF WatchStep, WatchWakes, WatchAsks, cancelling, launcher
<1>2. FlagStored'
  BY <1>1 DEF KeepSlots, Heeded, FlagStored
<1>3. /\ asked \subseteq Tasks /\ watch \in [Tasks -> {"off", "waiting", "woken", "canceled"}]
      /\ cancels \in [Tasks -> Nat]
  BY DEF TypeOK
<1>4. /\ watch[t] \in {"waiting", "woken"}
      /\ \A s \in Tasks \ {t} : watch'[s] = watch[s] /\ cancels'[s] = cancels[s]
  BY <1>3 DEF WatchStep, WatchWakes, WatchAsks, cancelling
<1>5. WaitsLater'
  BY <1>1, <1>4 DEF Heeded, WaitsLater
<1>6. t \in asked /\ worker[t].at \in Running => watch'[t] # "waiting"
  <2>1. CASE WatchWakes(t)
    BY <1>3, <2>1 DEF WatchWakes
  <2>2. CASE WatchAsks(t)
    BY <1>3, <2>2, RunningFindsFlag DEF WatchAsks
  <2> QED
    BY <2>1, <2>2 DEF WatchStep
<1>7. PostWaits'
  BY <1>1, <1>3, <1>4, <1>6 DEF Heeded, PostWaits
<1> QED
  BY <1>2, <1>5, <1>7 DEF Heeded

LEMMA StepKeepsHeeded ==
  ASSUME TypeOK, SpawnWaits, Heeded, [Next]_vars PROVE Heeded'
<1>1. CASE UNCHANGED vars
  BY <1>1 DEF vars, launcher, cancelling, Heeded, FlagStored, WaitsLater, PostWaits
<1> QED
  BY <1>1, WindowKeepsHeeded, DispatchKeepsHeeded, EventsKeepHeeded, WorkersKeepHeeded,
     WatchKeepsHeeded DEF Next

\* While a launcher lives and the worker runs a task that a cancel was stored for,
\* the flag is in its slot, and its cancel waiter does not wait without a post that
\* was sent or is still to be sent: storing and asking without the lock leaves no
\* gap (request_task_ipc_cancel, start_task_ipc_cancel_notification_thread).
CancelStands ==
  \A t \in asked : living /\ worker[t].at \in Running =>
    /\ slot[t].cancel
    /\ watch[t] = "waiting" => cancels[t] > 0 \/ t \in pending

\* No cancel is lost on its way to a worker, for any number of tasks: what the
\* liveness of a cancel (CancelReachesWorker) rests on.
THEOREM CancelIsNotLost == Spec => []CancelStands
<1>1. Init => IInv /\ Stages /\ Heeded
  <2> SUFFICES ASSUME Init PROVE IInv /\ Stages /\ Heeded
    OBVIOUS
  <2>1. Heeded
    BY DEF Init, Heeded, FlagStored, WaitsLater, PostWaits
  <2> QED
    BY <2>1, InitHasInvariant, InitIsSteady
<1>2. IInv /\ Stages /\ Heeded /\ [Next]_vars => IInv' /\ Stages' /\ Heeded'
  <2>1. IInv /\ Stages => TypeOK /\ SpawnWaits
    BY DEF IInv, Stages
  <2> QED
    BY <2>1, StepKeepsInvariant, StepIsSteady, StepKeepsHeeded
<1>3. IInv /\ Stages /\ Heeded => CancelStands
  BY RunningFindsFlag DEF CancelStands, Heeded, PostWaits
<1> QED
  BY <1>1, <1>2, <1>3, PTL DEF Spec
=============================================================================
