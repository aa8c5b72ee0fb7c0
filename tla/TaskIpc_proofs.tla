---------------------------- MODULE TaskIpc_proofs ----------------------------
(***************************************************************************)
(* The lock, for any number of processes and threads and any number of     *)
(* crashes: its types, that it excludes and that live owners keep it.      *)
(*                                                                         *)
(* The table that it guards, for any number of launchers, slots and tasks, *)
(* any wrap of the generation, busy locks or none: the types of            *)
(* TaskIpcTable, that no worker runs beside a verdict, that none is        *)
(* canceled unasked, that slots are kept until they were heard of, and     *)
(* that the table implements TaskLifecycle.                                *)
(*                                                                         *)
(* The code finds slots by session and generation.  The invariant says     *)
(* that this is enough: no two slots have one session, sessions are not    *)
(* used twice, a slot that holds a session has published the completion    *)
(* exactly when there is a verdict, and the slot of a running worker still *)
(* is its own.  A late StoreState of another worker may make its state     *)
(* Completed, but never Empty nor Dispatched.  For the lifecycle a second  *)
(* invariant, Stages, relates what was collected and heard to the slots.   *)
(* Where no lock is ever busy a third one, Once, says that what was heard  *)
(* is acknowledged, so that no event is handled twice.                     *)
(* A fourth, Heeded, follows a stored cancel to the worker it is for.      *)
(***************************************************************************)
EXTENDS TaskIpcTable, RobustLock, TLAPS

-----------------------------------------------------------------------------
(* The lock.                                                               *)

\* Every reachable state of the lock has the declared types: in particular
\* the word only ever names an attached process or nobody
\* (shared_memory.cpp, try_acquire_lock and release_lock).
THEOREM LockTypeCorrect == LockSpec => []LockTypeOK
<1>1. LockInit => LockTypeOK
  BY BoundsAssumption DEF LockInit, LockTypeOK, Places
<1>2. LockTypeOK /\ [LockNext]_lockVars => LockTypeOK'
  <2> SUFFICES ASSUME LockTypeOK, [LockNext]_lockVars PROVE LockTypeOK'
    OBVIOUS
  <2> USE ProcOfAssumption DEF LockTypeOK, Places
  <2>1. ASSUME NEW t \in Threads, TryLock(t) PROVE LockTypeOK'
    BY <2>1 DEF TryLock, Enter, Goto
  <2>2. ASSUME NEW t \in Threads, WaitForLock(t) PROVE LockTypeOK'
    BY <2>2 DEF WaitForLock, Enter, Goto
  <2>3. ASSUME NEW t \in Threads, CasTakes(t) PROVE LockTypeOK'
    BY <2>3 DEF CasTakes, Goto
  <2>4. ASSUME NEW t \in Threads, CasSelfHeld(t) PROVE LockTypeOK'
    BY <2>4 DEF CasSelfHeld, Goto
  <2>5. ASSUME NEW t \in Threads, CasFails(t) PROVE LockTypeOK'
    BY <2>5 DEF CasFails, Goto
  <2>6. ASSUME NEW t \in Threads, Probe(t) PROVE LockTypeOK'
    BY <2>6 DEF Probe, Busy, Goto
  <2>7. ASSUME NEW t \in Threads, Steal(t) PROVE LockTypeOK'
    BY <2>7 DEF Steal, Busy, Goto
  <2>8. ASSUME NEW t \in Threads, Retake(t) PROVE LockTypeOK'
    BY <2>8 DEF Retake, Busy, Goto
  <2>9. ASSUME NEW t \in Threads, WakeUp(t) PROVE LockTypeOK'
    BY <2>9 DEF WakeUp, Goto
  <2>10. ASSUME NEW t \in Threads, Expire(t) PROVE LockTypeOK'
    BY <2>10 DEF Expire, Goto
  <2>11. ASSUME NEW t \in Threads, ReleaseCheck(t) PROVE LockTypeOK'
    BY <2>11 DEF ReleaseCheck, Goto
  <2>12. ASSUME NEW t \in Threads, ReleaseStore(t) PROVE LockTypeOK'
    BY <2>12 DEF ReleaseStore, Goto
  <2>13. ASSUME NEW t \in Threads, Notify(t) PROVE LockTypeOK'
    BY <2>13, BoundsAssumption DEF Notify, Goto
  <2>14. ASSUME NEW p \in Procs, Deliver(p) PROVE LockTypeOK'
    BY <2>14, BoundsAssumption DEF Deliver
  <2>15. ASSUME NEW p \in Procs, Crash(p) PROVE LockTypeOK'
    BY <2>15 DEF Crash
  <2>16. ASSUME UNCHANGED lockVars PROVE LockTypeOK'
    BY <2>16 DEF lockVars
  <2>17. QED
    BY <2>1, <2>2, <2>3, <2>4, <2>5, <2>6, <2>7, <2>8, <2>9, <2>10,
       <2>11, <2>12, <2>13, <2>14, <2>15, <2>16 DEF LockNext, Advance
<1>3. QED
  BY <1>1, <1>2, PTL DEF LockSpec

-----------------------------------------------------------------------------
\* A step of a running thread that neither enters a critical section nor
\* goes to "steal", and changes neither the word nor who lives.
LEMMA QuietStep ==
  ASSUME LockTypeOK, LockInv, NEW t \in Threads, pc[t] # "gone",
         NEW place \in Places,
         place \notin {"holding", "steal", "gone"},
         place = "unlock" => pc[t] = "holding",
         Goto(t, place), UNCHANGED <<word, alive>>,
         \A u \in Threads : u # t => seen'[u] = seen[u]
  PROVE  LockInv'
<1>1. \A u \in Threads : Inside(u)' => Inside(u)
  BY DEF LockTypeOK, Inside, Goto
<1>2. \A u \in Threads : pc'[u] = "steal" => pc[u] = "steal" /\ u # t
  BY DEF LockTypeOK, Goto
<1>3. \A u \in Threads : pc'[u] # "gone" => pc[u] # "gone"
  BY DEF LockTypeOK, Goto
<1>4. QED
  BY <1>1, <1>2, <1>3 DEF LockInv, MutualExclusion

\* A step of a running thread that takes the free lock.
LEMMA TakingStep ==
  ASSUME LockTypeOK, LockInv, NEW t \in Threads, pc[t] # "gone",
         word = Free, word' = procOf[t], Goto(t, "holding"),
         UNCHANGED <<alive, seen>>
  PROVE  LockInv'
<1> USE ProcOfAssumption, FreeAssumption
<1>1. \A u \in Threads : ~Inside(u)
  BY DEF LockInv, LockTypeOK
<1>2. \A u \in Threads : Inside(u)' => u = t
  BY <1>1 DEF Goto, Inside, LockTypeOK
<1>3. \A u \in Threads : pc'[u] = "steal" => pc[u] = "steal" /\ seen'[u] = seen[u]
  BY DEF LockTypeOK, Goto
<1>4. \A u \in Threads : pc'[u] # "gone" => pc[u] # "gone"
  BY DEF LockTypeOK, Goto
<1>5. QED
  BY <1>2, <1>3, <1>4 DEF LockInv, MutualExclusion

\* Every step of the lock preserves the inductive invariant.
LEMMA LockInvStep == LockTypeOK /\ LockInv /\ [LockNext]_lockVars => LockInv'
<1> SUFFICES ASSUME LockTypeOK, LockInv, [LockNext]_lockVars PROVE LockInv'
  OBVIOUS
<1> USE ProcOfAssumption, FreeAssumption
<1>1. ASSUME NEW t \in Threads, TryLock(t) \/ WaitForLock(t) PROVE LockInv'
  BY <1>1, QuietStep DEF TryLock, WaitForLock, Enter, Places
<1>2. ASSUME NEW t \in Threads, CasTakes(t) PROVE LockInv'
  BY <1>2, TakingStep DEF CasTakes
<1>3. ASSUME NEW t \in Threads, CasSelfHeld(t) \/ CasFails(t) PROVE LockInv'
  <2>1. CASE CasSelfHeld(t)
    BY <2>1, QuietStep DEF CasSelfHeld, Places
  <2>2. CASE CasFails(t)
    BY <2>2, QuietStep DEF CasFails, Places, LockTypeOK
  <2>3. QED
    BY <1>3, <2>1, <2>2
<1>4. ASSUME NEW t \in Threads, Probe(t) PROVE LockInv'
  <2>1. CASE seen[t] \in alive
    BY <1>4, <2>1, QuietStep DEF Probe, Busy, Places
  <2>2. CASE seen[t] \notin alive
    <3>1. Goto(t, "steal") /\ UNCHANGED <<word, alive, seen>> /\ pc[t] = "probe"
      BY <1>4, <2>2 DEF Probe
    <3>2. \A u \in Threads : Inside(u)' => Inside(u)
      BY <3>1 DEF Goto, Inside, LockTypeOK
    <3>3. \A u \in Threads : pc'[u] = "steal" => pc[u] = "steal" \/ u = t
      BY <3>1 DEF Goto, LockTypeOK
    <3>4. \A u \in Threads : pc'[u] # "gone" => pc[u] # "gone"
      BY <3>1 DEF Goto, LockTypeOK
    <3>5. QED
      BY <2>2, <3>1, <3>2, <3>3, <3>4 DEF LockInv, MutualExclusion
  <2>3. QED
    BY <2>1, <2>2
<1>5. ASSUME NEW t \in Threads, Steal(t) PROVE LockInv'
  <2>1. CASE word = seen[t]
    \* The word names a dead process, so nobody is inside.
    <3>1. Goto(t, "retake") /\ UNCHANGED <<alive, seen>> /\ pc[t] = "steal"
      BY <1>5, <2>1 DEF Steal
    <3>2. \A u \in Threads : ~Inside(u)
      BY <2>1, <3>1 DEF LockInv, Inside
    <3>3. \A u \in Threads : ~Inside(u)'
      BY <3>1, <3>2 DEF Goto, Inside, LockTypeOK
    <3>4. \A u \in Threads : pc'[u] = "steal" => pc[u] = "steal"
      BY <3>1 DEF Goto, LockTypeOK
    <3>5. \A u \in Threads : pc'[u] # "gone" => pc[u] # "gone"
      BY <3>1 DEF Goto, LockTypeOK
    <3>6. QED
      BY <3>1, <3>3, <3>4, <3>5 DEF LockInv, MutualExclusion
  <2>2. CASE word # seen[t]
    BY <1>5, <2>2, QuietStep DEF Steal, Busy, Places
  <2>3. QED
    BY <2>1, <2>2
<1>6. ASSUME NEW t \in Threads, Retake(t) PROVE LockInv'
  <2>1. CASE word = Free
    BY <1>6, <2>1, TakingStep DEF Retake
  <2>2. CASE word # Free
    BY <1>6, <2>2, QuietStep DEF Retake, Busy, Places
  <2>3. QED
    BY <2>1, <2>2
<1>7. ASSUME NEW t \in Threads, WakeUp(t) \/ Expire(t) \/ Notify(t) PROVE LockInv'
  BY <1>7, QuietStep DEF WakeUp, Expire, Notify, Places
<1>8. ASSUME NEW t \in Threads, ReleaseCheck(t) PROVE LockInv'
  BY <1>8, QuietStep DEF ReleaseCheck, Places
<1>9. ASSUME NEW t \in Threads, ReleaseStore(t) PROVE LockInv'
  \* The thread that leaves was the only one inside.
  <2>1. Goto(t, "notify") /\ UNCHANGED <<alive, seen>> /\ pc[t] = "unlock"
    BY <1>9 DEF ReleaseStore
  <2>2. \A u \in Threads : ~Inside(u)'
    BY <2>1 DEF LockInv, MutualExclusion, Goto, Inside, LockTypeOK
  <2>3. \A u \in Threads : pc'[u] = "steal" => pc[u] = "steal"
    BY <2>1 DEF Goto, LockTypeOK
  <2>4. \A u \in Threads : pc'[u] # "gone" => pc[u] # "gone"
    BY <2>1 DEF Goto, LockTypeOK
  <2>5. QED
    BY <2>1, <2>2, <2>3, <2>4 DEF LockInv, MutualExclusion
<1>10. ASSUME NEW p \in Procs, Deliver(p) PROVE LockInv'
  BY <1>10 DEF Deliver, LockInv, MutualExclusion, Inside
<1>11. ASSUME NEW p \in Procs, Crash(p) PROVE LockInv'
  \* The threads of the crashed process leave, wherever they were.
  <2>1. alive' \subseteq alive /\ UNCHANGED <<word, seen>>
    BY <1>11 DEF Crash
  <2>2. \A u \in Threads : pc'[u] # "gone" => pc'[u] = pc[u] /\ procOf[u] # p
    BY <1>11 DEF Crash, LockTypeOK
  <2>3. \A u \in Threads : pc'[u] # "gone" => procOf[u] \in alive'
    BY <1>11, <2>2 DEF Crash, LockInv
  <2>4. \A u \in Threads : Inside(u)' => Inside(u)
    BY <2>2 DEF Inside
  <2>5. \A u \in Threads : pc'[u] = "steal" => pc[u] = "steal"
    BY <2>2
  <2>6. QED
    BY <2>1, <2>3, <2>4, <2>5 DEF LockInv, MutualExclusion
<1>12. ASSUME UNCHANGED lockVars PROVE LockInv'
  BY <1>12 DEF lockVars, LockInv, MutualExclusion, Inside
<1>13. QED
  BY <1>1, <1>2, <1>3, <1>4, <1>5, <1>6, <1>7, <1>8, <1>9, <1>10, <1>11,
     <1>12 DEF LockNext, Advance

\* The inductive invariant holds in every reachable state (the whole of
\* try_acquire_lock, release_lock and process crashes).
THEOREM LockInvariant == LockSpec => []LockInv
<1>1. LockInit => LockInv
  BY ProcOfAssumption DEF LockInit, LockInv, MutualExclusion, Inside
<1>2. QED
  BY <1>1, LockInvStep, LockTypeCorrect, PTL DEF LockSpec

\* At most one thread of one process is inside a critical section of the
\* shared memory, however many processes crash inside one (try_acquire_lock).
THEOREM LockExcludes == LockSpec => []MutualExclusion
<1>1. LockInv => MutualExclusion
  BY DEF LockInv
<1>2. QED
  BY <1>1, LockInvariant, PTL

\* No step takes the lock away from a live owner but that owner's own
\* release (the two compare-and-swaps of the eviction path).
THEOREM LiveOwnersKeepTheLock == LockSpec => LiveOwnerKeepsLock
<1> DEFINE Kept == \A p \in alive : word = p /\ word' # p =>
                     \E t \in Threads : procOf[t] = p /\ pc[t] = "unlock"
<1>1. LockTypeOK /\ LockInv /\ [LockNext]_lockVars => [Kept]_lockVars
  <2> SUFFICES ASSUME LockTypeOK, LockInv, [LockNext]_lockVars, NEW p \in alive,
                      word = p, word' # p
               PROVE  \E t \in Threads : procOf[t] = p /\ pc[t] = "unlock"
    OBVIOUS
  <2>1. p # Free
    BY FreeAssumption DEF LockTypeOK
  <2>2. \E t \in Threads : \/ CasTakes(t) \/ Steal(t) \/ Retake(t)
                           \/ ReleaseStore(t)
    BY DEF LockNext, Advance, lockVars, TryLock, WaitForLock, Enter, CasSelfHeld,
           CasFails, Probe, WakeUp, Expire, ReleaseCheck, Notify, Deliver, Crash
  <2>3. PICK t \in Threads : Steal(t) \/ ReleaseStore(t)
    BY <2>1, <2>2 DEF CasTakes, Retake
  <2>4. ~Steal(t)
    BY DEF Steal, LockInv
  <2>5. ReleaseStore(t)
    BY <2>3, <2>4
  <2>6. pc[t] = "unlock" /\ procOf[t] = p
    BY <2>5 DEF ReleaseStore, LockInv, Inside
  <2>7. QED
    BY <2>6
<1>2. QED
  BY <1>1, LockTypeCorrect, LockInvariant, PTL DEF LockSpec, LiveOwnerKeepsLock

-----------------------------------------------------------------------------
(* The table.                                                              *)

\* What holds of the fields of a slot.
Shape(e) ==
  /\ e.acknowledged < 3
  /\ e.state = "Empty" => e.session = 0
  /\ e.session = 0 => e.published = 0 /\ ~e.cancel
  /\ e.state \in {"Dispatched", "Claimed"} => e.session # 0
  /\ e.state = "Dispatched" => e.published = 1

GoodSlots ==
  \A i \in Slots : /\ Shape(slot[i])
                   /\ slot[i].session < nextSession
                   /\ slot[i].cancel => slot[i].session \in asked

SessionsDiffer ==
  \A i, j \in Slots : slot[i].session = slot[j].session => i = j \/ slot[i].session = 0

VerdictsPublished ==
  \A i \in Slots : slot[i].session # 0 =>
    (slot[i].published = 3 <=> verdict[slot[i].session] # "none")

\* Nobody knows the sessions to come.
FutureSessions ==
  \A s \in Sessions : s >= nextSession => verdict[s] = "none" /\ worker[s].at = "none"

EventsPublished ==
  \A o \in Owners : \A event \in window[o].inbox :
    event.kind = 3 => event.session \in Sessions /\ verdict[event.session] # "none"

\* Between Reserve and Spawn.
WaitingSpawns ==
  \A o \in Owners : window[o].at = "spawn" =>
    /\ window[o].session \in Sessions /\ window[o].session < nextSession
    /\ worker[window[o].session].at = "none"
    /\ \A p \in Owners : window[p].at = "spawn" /\ window[p].session = window[o].session => p = o

RunningSlots ==
  \A s \in Sessions : worker[s].at \in Running =>
    /\ StillMine(s)
    /\ MySlot(s).state \in {"Claimed", "Completed"} /\ MySlot(s).published = 2
    /\ verdict[s] = "none"

Table == GoodSlots /\ SessionsDiffer /\ VerdictsPublished
Actors == FutureSessions /\ EventsPublished /\ WaitingSpawns /\ RunningSlots

IInv == TypeOK /\ Table /\ Actors /\ NoForeignCancel

-----------------------------------------------------------------------------
(* The operations on a slot keep its type.                                 *)

\* A new generation is none that claims refuse, also where it wraps.
LEMMA BumpIsGeneration ==
  ASSUME NEW generation \in Generations
  PROVE  Bump(generation) \in Generations
BY TableAssumption DEF Bump, Generations

LEMMA EmptyIsSlot ==
  ASSUME NEW generation \in Generations
  PROVE  EmptySlot(generation) \in SlotType
BY DEF EmptySlot, SlotType, Results, Outcomes, States

LEMMA ClearedIsSlot ==
  ASSUME NEW e \in SlotType
  PROVE  Cleared(e) \in SlotType
<1>1. e.generation \in Generations
  BY DEF SlotType
<1> QED
  BY <1>1, BumpIsGeneration, EmptyIsSlot DEF Cleared

\* A slot that is stored again is no older, and otherwise the same.
LEMMA FreshIsSlot ==
  ASSUME NEW e \in SlotType
  PROVE  /\ [e EXCEPT !.aged = FALSE] \in SlotType
         /\ [e EXCEPT !.aged = FALSE].session = e.session
         /\ [e EXCEPT !.aged = FALSE].generation = e.generation
         /\ [e EXCEPT !.aged = FALSE].published = e.published
         /\ [e EXCEPT !.aged = FALSE].state = e.state
         /\ [e EXCEPT !.aged = FALSE].acknowledged = e.acknowledged
         /\ [e EXCEPT !.aged = FALSE].cancel = e.cancel
BY DEF SlotType

LEMMA PublishedStageIsSlot ==
  ASSUME NEW e \in SlotType, NEW kind \in 1..3
  PROVE  PublishStage(e, kind) \in SlotType
<1>1. kind \in 0..3
  OBVIOUS
<1>2. [e EXCEPT !.published = kind, !.aged = FALSE] \in SlotType
  BY <1>1 DEF SlotType
<1> QED
  BY <1>2 DEF PublishStage

\* publish_task_ipc_completion_event gives a slot, and one with a verdict.
LEMMA CompletionIsSlot ==
  ASSUME NEW e \in SlotType, NEW result \in Results \ {"none"}
  PROVE  /\ PublishCompletion(e, result) \in SlotType
         /\ PublishCompletion(e, result).published = 3
         /\ PublishCompletion(e, result).state = "Completed"
         /\ PublishCompletion(e, result).session = e.session
         /\ PublishCompletion(e, result).acknowledged = e.acknowledged
         /\ PublishCompletion(e, result).cancel = e.cancel
<1> DEFINE d == [e EXCEPT !.state = "Completed", !.result = result]
<1>1. d \in SlotType /\ d.state = "Completed" /\ d.session = e.session
      /\ d.acknowledged = e.acknowledged /\ d.cancel = e.cancel
  BY DEF SlotType, States
<1>2. d.published \in 0..3
  BY <1>1 DEF SlotType
<1> HIDE DEF d
<1>3. PublishStage(d, 3) \in SlotType
  BY <1>1, PublishedStageIsSlot
<1>4. PublishStage(d, 3).published = 3
  BY <1>1, <1>2 DEF PublishStage, SlotType
<1>5. /\ PublishStage(d, 3).state = "Completed" /\ PublishStage(d, 3).session = e.session
      /\ PublishStage(d, 3).acknowledged = e.acknowledged /\ PublishStage(d, 3).cancel = e.cancel
  BY <1>1 DEF PublishStage, SlotType
<1> QED
  BY <1>3, <1>4, <1>5 DEF PublishCompletion, d

\* An acknowledgement clears the slot of a completion that was heard.
LEMMA AcknowledgedIsSlot ==
  ASSUME NEW e \in SlotType, NEW kind \in 1..3
  PROVE  Acknowledge(e, kind) \in SlotType
<1>1. kind \in 0..3
  OBVIOUS
<1>2. [e EXCEPT !.acknowledged = kind, !.aged = FALSE] \in SlotType
  BY <1>1 DEF SlotType
<1> QED
  BY <1>2, ClearedIsSlot DEF Acknowledge

LEMMA DispatchedIsSlot ==
  ASSUME NEW e \in SlotType, NEW o \in Owners, nextSession \in Sessions
  PROVE  Dispatched(e, o) \in SlotType
<1>1. /\ "Dispatched" \in States /\ nextSession \in Sessions \cup {0}
      /\ 0 \in 0..3 /\ 1 \in 0..3
      /\ "ok" \in Results \ {"none"} /\ o \in Owners \cup {Nobody}
  BY DEF States, Results, Outcomes
<1> QED
  BY <1>1 DEF Dispatched, SlotType

LEMMA PendingAreEvents ==
  ASSUME NEW e \in SlotType, NEW o \in Owners
  PROVE  Pending(o, e) \subseteq EventType
BY DEF Pending, EventType, SlotType

LEMMA ReclaimedAreSlots ==
  ASSUME TypeOK
  PROVE  Reclaimed \in [Slots -> SlotType]
<1> SUFFICES ASSUME NEW i \in Slots PROVE Reclaimed[i] \in SlotType
  BY DEF Reclaimed
<1>1. slot[i] \in SlotType
  BY DEF TypeOK
<1> QED
  BY <1>1, ClearedIsSlot DEF Reclaimed

\* A table that is stored keeps the types of slot and verdict.
LEMMA StoreIsTyped ==
  ASSUME TypeOK, NEW sl \in [Slots -> SlotType], Store(sl)
  PROVE  slot' \in [Slots -> SlotType] /\ verdict' \in [Sessions -> Results]
<1> SUFFICES ASSUME NEW s \in Sessions PROVE Judged(sl)[s] \in Results
  BY DEF Store, Judged, TypeOK
<1>1. verdict[s] \in Results
  BY DEF TypeOK
<1>2. CASE verdict[s] = "none" /\ \E i \in Slots : sl[i].session = s /\ sl[i].published = 3
  <2> DEFINE i == CHOOSE i \in Slots : sl[i].session = s /\ sl[i].published = 3
  <2>1. i \in Slots
    BY <1>2
  <2>2. sl[i].result \in Results
    <3>1. sl[i] \in SlotType
      BY <2>1
    <3> QED
      BY <3>1 DEF SlotType
  <2> QED
    BY <1>2, <2>2 DEF Judged
<1> QED
  BY <1>1, <1>2 DEF Judged

-----------------------------------------------------------------------------
(* The types.                                                              *)

WindowType == [at : WindowPlaces, slot : Slots, session : Sessions \cup {0},
               generation : Generations, inbox : SUBSET EventType]
WorkerType == [at : WorkerPlaces, slot : Slots, generation : Generations,
               owner : Owners \cup {Nobody}, result : Outcomes]

LEMMA OnesAreTyped == 1 \in Slots /\ 1 \in Generations /\ IdleWindow \in WindowType
<1>1. 1 \in Slots /\ 1 \in Generations
  BY TableAssumption DEF Slots, Generations
<1> QED
  BY <1>1 DEF IdleWindow, WindowType, WindowPlaces

\* A worker whose task has a result is one.
LEMMA FinishedIsWorker ==
  ASSUME worker \in [Sessions -> WorkerType], NEW s \in Sessions,
         NEW place \in WorkerPlaces, NEW result \in Outcomes,
         worker' = [worker EXCEPT ![s] = [@ EXCEPT !.at = place, !.result = result]]
  PROVE  worker' \in [Sessions -> WorkerType]
<1>1. worker[s] \in WorkerType
  OBVIOUS
<1>2. [worker[s] EXCEPT !.at = place, !.result = result] \in WorkerType
  BY <1>1 DEF WorkerType
<1> QED
  BY <1>2

LEMMA PlacesAreTyped ==
  ASSUME TypeOK
  PROVE  /\ \A o \in Owners : \A place \in WindowPlaces :
               WindowTo(o, place) => window' \in [Owners -> WindowType]
         /\ \A s \in Sessions : \A place \in WorkerPlaces :
               WorkerTo(s, place) => worker' \in [Sessions -> WorkerType]
<1>1. ASSUME NEW o \in Owners, NEW place \in WindowPlaces, WindowTo(o, place)
      PROVE  window' \in [Owners -> WindowType]
  <2>1. window \in [Owners -> WindowType]
    BY DEF TypeOK, WindowType
  <2>2. [window[o] EXCEPT !.at = place] \in WindowType
    BY <2>1 DEF WindowType
  <2> QED
    BY <1>1, <2>1, <2>2, OnesAreTyped DEF WindowTo
<1>2. ASSUME NEW s \in Sessions, NEW place \in WorkerPlaces, WorkerTo(s, place)
      PROVE  worker' \in [Sessions -> WorkerType]
  <2>1. worker \in [Sessions -> WorkerType]
    BY DEF TypeOK, WorkerType
  <2>2. [worker[s] EXCEPT !.at = place] \in WorkerType
    BY <2>1 DEF WorkerType
  <2>3. [worker[s] EXCEPT !.at = place, !.slot = 1, !.owner = Nobody, !.result = "ok"] \in WorkerType
    BY <2>1, OnesAreTyped DEF WorkerType, Outcomes
  <2> QED
    BY <1>2, <2>1, <2>2, <2>3 DEF WorkerTo
<1> QED
  BY <1>1, <1>2

LEMMA InitIsTyped == Init => TypeOK
<1> SUFFICES ASSUME Init PROVE TypeOK
  OBVIOUS
<1>1. EmptySlot(1) \in SlotType
  BY OnesAreTyped, EmptyIsSlot
<1>2. nextSession \in 1..(MaxSession + 1)
  BY TableAssumption DEF Init
<1>3. slot \in [Slots -> SlotType] /\ window \in [Owners -> WindowType]
  BY <1>1, OnesAreTyped DEF Init
<1>4. worker \in [Sessions -> WorkerType]
  BY OnesAreTyped DEF Init, WorkerType, WorkerPlaces, Outcomes
<1> QED
  BY <1>2, <1>3, <1>4 DEF Init, TypeOK, WindowType, WorkerType, Results

\* What a signal, a store or a place that is kept does to the types.
LEMMA SignalIsTyped ==
  ASSUME TypeOK, NEW o, Signal(o)
  PROVE  signals' \in [Owners -> Nat]
BY DEF Signal, TypeOK

LEMMA OneSlotIsTyped ==
  ASSUME TypeOK, NEW i \in Slots, NEW e \in SlotType
  PROVE  [slot EXCEPT ![i] = e] \in [Slots -> SlotType]
BY DEF TypeOK

LEMMA WindowKeepsTypes ==
  ASSUME TypeOK, NEW o \in Owners, Reserve(o) \/ WindowStep(o) \/ Scan(o) \/ OwnerCrash(o)
  PROVE  TypeOK'
<1> USE DEF cancelling, told
<1>1. /\ slot \in [Slots -> SlotType] /\ window \in [Owners -> WindowType]
      /\ worker \in [Sessions -> WorkerType]
  BY DEF TypeOK, WindowType, WorkerType
<1>2. Reclaimed \in [Slots -> SlotType]
  BY ReclaimedAreSlots
<1>3. window[o].slot \in Slots
  BY <1>1 DEF WindowType
<1>4. ASSUME slot' \in [Slots -> SlotType], verdict' \in [Sessions -> Results],
             window' \in [Owners -> WindowType],
             UNCHANGED <<nextSession, signals, cancelling, living, worker, watch, told>>
      PROVE  TypeOK'
  BY <1>4 DEF TypeOK, WindowType
<1>5. ASSUME KeepTable PROVE slot' \in [Slots -> SlotType] /\ verdict' \in [Sessions -> Results]
  BY <1>5 DEF KeepTable, TypeOK
<1>6. CASE Reserve(o)
  <2>1. PICK i \in Slots :
          /\ Store([Reclaimed EXCEPT ![i] = Dispatched(@, o)])
          /\ window' = [window EXCEPT ![o] = [@ EXCEPT !.at = "spawn", !.slot = i,
                           !.session = nextSession, !.generation = Reclaimed[i].generation]]
    BY <1>6 DEF Reserve
  <2>2. nextSession \in Sessions
    BY <1>6 DEF Reserve
  <2>3. [Reclaimed EXCEPT ![i] = Dispatched(@, o)] \in [Slots -> SlotType]
    BY <1>2, <2>2, DispatchedIsSlot
  <2>4. slot' \in [Slots -> SlotType] /\ verdict' \in [Sessions -> Results]
    BY <2>1, <2>3, StoreIsTyped
  <2>5. Reclaimed[i].generation \in Generations
    BY <1>2 DEF SlotType
  <2>6. window' \in [Owners -> WindowType]
    BY <1>1, <2>1, <2>2, <2>5 DEF WindowType, WindowPlaces
  <2>7. nextSession' \in 1..(MaxSession + 1)
    <3>1. MaxSession \in Nat
      BY TableAssumption
    <3>2. nextSession' = nextSession + 1 /\ nextSession \in 1..MaxSession
      BY <1>6, <2>2 DEF Reserve, Sessions
    <3> QED
      BY <3>1, <3>2
  <2> QED
    BY <1>6, <2>4, <2>6, <2>7 DEF Reserve, TypeOK, WindowType
<1>7. CASE Spawn(o)
  <2>1. window' \in [Owners -> WindowType]
    BY <1>7, PlacesAreTyped DEF Spawn, WindowPlaces
  <2>2. worker' \in [Sessions -> WorkerType]
    <3>1. window[o].generation \in Generations
      BY <1>1 DEF WindowType
    <3>2. PICK g \in Generations, u \in Sessions \cup {0} :
            worker' = [worker EXCEPT ![u] = [@ EXCEPT !.at = "starting", !.generation = g]]
      BY <1>1, <1>7, <3>1 DEF Spawn, WindowType
    <3>3. ASSUME u \in Sessions
          PROVE  [worker[u] EXCEPT !.at = "starting", !.generation = g] \in WorkerType
      BY <1>1, <3>3 DEF WorkerType, WorkerPlaces
    <3> QED
      BY <1>1, <3>2, <3>3
  <2> QED
    BY <1>7, <2>1, <2>2 DEF Spawn, TypeOK, WindowType, WorkerType
<1>8. CASE SpawnFails(o)
  <2>1. window' \in [Owners -> WindowType]
    BY <1>8, PlacesAreTyped DEF SpawnFails, WindowPlaces
  <2>2. Cleared(slot[window[o].slot]) \in SlotType
    BY <1>1, <1>3, ClearedIsSlot
  <2>3. slot' \in [Slots -> SlotType] /\ verdict' \in [Sessions -> Results]
    BY <1>1, <1>3, <1>5, <1>8, <2>2, StoreIsTyped, OneSlotIsTyped DEF SpawnFails
  <2> QED
    BY <1>4, <1>8, <2>1, <2>3 DEF SpawnFails
<1>9. CASE Record(o)
  <2>1. window' \in [Owners -> WindowType]
    BY <1>9, PlacesAreTyped DEF Record, WindowPlaces
  <2>2. [slot[window[o].slot] EXCEPT !.aged = FALSE] \in SlotType
    <3>1. slot[window[o].slot] \in SlotType
      BY <1>1, <1>3
    <3> QED
      BY <3>1, FreshIsSlot
  <2>3. slot' \in [Slots -> SlotType] /\ verdict' \in [Sessions -> Results]
    BY <1>1, <1>3, <1>5, <1>9, <2>2, StoreIsTyped, OneSlotIsTyped DEF Record
  <2> QED
    BY <1>4, <1>9, <2>1, <2>3 DEF Record
<1>10. CASE PostDispatched(o)
  <2>1. window' \in [Owners -> WindowType]
    BY <1>10, PlacesAreTyped DEF PostDispatched, WindowPlaces
  <2> QED
    BY <1>10, <2>1, SignalIsTyped DEF PostDispatched, TypeOK, WindowType
<1>11. CASE Poll(o)
  <2> DEFINE events == UNION {Pending(o, Reclaimed[i]) : i \in Slots}
  <2>1. events \subseteq EventType
    BY <1>2, PendingAreEvents
  <2> HIDE DEF events
  <2>2. /\ slot' \in [Slots -> SlotType] /\ verdict' \in [Sessions -> Results]
        /\ window' \in [Owners -> WindowType]
    <3>1. CASE /\ Store(Reclaimed)
               /\ window' = IF events = {} THEN window
                            ELSE [window EXCEPT ![o] = [@ EXCEPT !.at = "handle", !.inbox = events]]
      <4>1. window' \in [Owners -> WindowType]
        BY <1>1, <2>1, <3>1 DEF WindowType, WindowPlaces
      <4> QED
        BY <1>2, <3>1, <4>1, StoreIsTyped
    <3>2. CASE KeepTable /\ UNCHANGED window
      BY <1>1, <1>5, <3>2
    <3> QED
      BY <1>11, <3>1, <3>2 DEF Poll, events
  <2>3. signals' \in [Owners -> Nat]
    BY <1>11 DEF Poll, TypeOK
  <2> QED
    BY <1>11, <2>2, <2>3 DEF Poll, TypeOK, WindowType
<1>12. ASSUME NEW event \in window[o].inbox, Handle(o, event) PROVE TypeOK'
  <2>1. event \in EventType
    BY <1>1 DEF WindowType
  <2>2. window' \in [Owners -> WindowType]
    BY <1>1, <1>12, OnesAreTyped DEF Handle, WindowType
  <2>3. \A i \in Slots : Acknowledge(slot[i], event.kind) \in SlotType
    BY <1>1, <2>1, AcknowledgedIsSlot DEF EventType
  <2>4. slot' \in [Slots -> SlotType] /\ verdict' \in [Sessions -> Results]
    <3> DEFINE its == {i \in Slots : /\ Matches(slot[i], event.session, event.generation)
                                     /\ slot[i].launcher = o}
               sl == [i \in Slots |-> IF i \in its THEN Acknowledge(slot[i], event.kind)
                                      ELSE slot[i]]
    <3>1. sl \in [Slots -> SlotType]
      BY <1>1, <2>3
    <3> HIDE DEF sl
    <3> QED
      BY <1>5, <1>12, <3>1, StoreIsTyped DEF Handle, sl
  <2>5. heard' \in [Sessions -> 0..3]
    <3>1. event.kind \in 0..3
      BY <2>1 DEF EventType
    <3> QED
      BY <1>12, <3>1 DEF Handle, TypeOK
  <2>6. toldAs' \in [Sessions -> Results]
    BY <1>12, <2>1 DEF Handle, TypeOK, EventType
  <2> QED
    BY <1>12, <2>2, <2>4, <2>5, <2>6 DEF Handle, TypeOK, WindowType
<1>13. CASE Scan(o)
  <2>1. /\ "unclaimed" \in Results \ {"none"} /\ "died" \in Results \ {"none"}
    BY DEF Results
  <2>2. \A i \in Slots : \A result \in Results \ {"none"} :
          PublishCompletion(Reclaimed[i], result) \in SlotType
    BY <1>2, CompletionIsSlot
  <2>3. PICK sl \in [Slots -> SlotType] : Store(sl)
    BY <1>2, <1>13, <2>1, <2>2 DEF Scan
  <2>4. slot' \in [Slots -> SlotType] /\ verdict' \in [Sessions -> Results]
    BY <2>3, StoreIsTyped
  <2>5. signals' \in [Owners -> Nat]
    <3>1. CASE Signal(o)
      BY <3>1, SignalIsTyped
    <3>2. CASE UNCHANGED signals
      BY <3>2 DEF TypeOK
    <3> QED
      BY <1>13, <3>1, <3>2 DEF Scan
  <2> QED
    BY <1>13, <2>4, <2>5 DEF Scan, TypeOK
<1>14. CASE OwnerCrash(o)
  BY <1>1, <1>14, OnesAreTyped DEF OwnerCrash, TypeOK, WindowType
<1> QED
  BY <1>6, <1>7, <1>8, <1>9, <1>10, <1>11, <1>12, <1>13, <1>14 DEF WindowStep

LEMMA WorkersKeepTypes ==
  ASSUME TypeOK, NEW s \in Sessions,
         Cancel(s) \/ WorkerStep(s) \/ Finish(s) \/ WatchStep(s) \/ WorkerCrash(s)
  PROVE  TypeOK'
<1> USE DEF cancelling, told
<1>1. /\ slot \in [Slots -> SlotType] /\ window \in [Owners -> WindowType]
      /\ worker \in [Sessions -> WorkerType]
  BY DEF TypeOK, WindowType, WorkerType
<1>2. Reclaimed \in [Slots -> SlotType]
  BY ReclaimedAreSlots
<1>3. worker[s].slot \in Slots /\ worker[s].result \in Outcomes /\ slot[worker[s].slot] \in SlotType
  BY <1>1 DEF WorkerType
<1>4. ASSUME KeepTable PROVE slot' \in [Slots -> SlotType] /\ verdict' \in [Sessions -> Results]
  BY <1>4 DEF KeepTable, TypeOK
<1>5. ASSUME NEW e \in SlotType, Store([slot EXCEPT ![worker[s].slot] = e])
      PROVE  slot' \in [Slots -> SlotType] /\ verdict' \in [Sessions -> Results]
  BY <1>3, <1>5, OneSlotIsTyped, StoreIsTyped
<1>6. ASSUME NEW place \in WorkerPlaces, WorkerTo(s, place)
      PROVE  worker' \in [Sessions -> WorkerType]
  BY <1>6, PlacesAreTyped
<1>7. CASE Cancel(s)
  <2>1. \A i \in Slots : [Reclaimed[i] EXCEPT !.cancel = TRUE, !.aged = FALSE] \in SlotType
    BY <1>2 DEF SlotType
  <2>2. slot' \in [Slots -> SlotType] /\ verdict' \in [Sessions -> Results]
    <3>1. CASE Store(Reclaimed)
      BY <1>2, <3>1, StoreIsTyped
    <3>2. ASSUME NEW i \in Slots,
                 Store([Reclaimed EXCEPT ![i] = [@ EXCEPT !.cancel = TRUE, !.aged = FALSE]])
          PROVE  slot' \in [Slots -> SlotType] /\ verdict' \in [Sessions -> Results]
      <4> DEFINE sl == [Reclaimed EXCEPT ![i] = [@ EXCEPT !.cancel = TRUE, !.aged = FALSE]]
      <4>1. sl \in [Slots -> SlotType]
        BY <1>2, <2>1
      <4>2. Store(sl)
        BY <3>2
      <4> HIDE DEF sl
      <4> QED
        BY <4>1, <4>2, StoreIsTyped
    <3> QED
      BY <1>7, <3>1, <3>2 DEF Cancel
  <2>3. cancels' \in [Sessions -> Nat] /\ asked' \subseteq Sessions
    <3>1. cancels \in [Sessions -> Nat] /\ asked \subseteq Sessions
      BY DEF TypeOK
    <3>2. \/ asked' = asked \cup {s} /\ PostCancel(s)
          \/ UNCHANGED <<cancels, asked>>
      BY <1>7 DEF Cancel
    <3> QED
      BY <3>1, <3>2 DEF PostCancel
  <2> QED
    BY <1>7, <2>2, <2>3 DEF Cancel, TypeOK
<1>8. CASE Claim(s)
  <2>1. \A i \in Slots : PublishStage([Reclaimed[i] EXCEPT !.state = "Claimed"], 2) \in SlotType
    <3> TAKE i \in Slots
    <3>1. [Reclaimed[i] EXCEPT !.state = "Claimed"] \in SlotType /\ 2 \in 1..3
      BY <1>2 DEF SlotType, States
    <3> QED
      BY <3>1, PublishedStageIsSlot
  <2>2. /\ slot' \in [Slots -> SlotType] /\ verdict' \in [Sessions -> Results]
        /\ worker' \in [Sessions -> WorkerType]
    <3>1. ASSUME NEW i \in Slots,
                 Store([Reclaimed EXCEPT ![i] = PublishStage([@ EXCEPT !.state = "Claimed"], 2)]),
                 worker' = [worker EXCEPT ![s] = [@ EXCEPT !.at = "claimed", !.slot = i,
                                                          !.owner = slot[i].launcher]]
          PROVE  /\ slot' \in [Slots -> SlotType] /\ verdict' \in [Sessions -> Results]
                 /\ worker' \in [Sessions -> WorkerType]
      <4> DEFINE sl == [Reclaimed EXCEPT ![i] = PublishStage([@ EXCEPT !.state = "Claimed"], 2)]
      <4>1. sl \in [Slots -> SlotType] /\ Store(sl)
        BY <1>2, <2>1, <3>1
      <4> HIDE DEF sl
      <4>2. slot[i].launcher \in Owners \cup {Nobody}
        BY <1>1 DEF SlotType
      <4>3. worker' \in [Sessions -> WorkerType]
        BY <1>1, <3>1, <4>2 DEF WorkerType, WorkerPlaces
      <4> QED
        BY <4>1, <4>3, StoreIsTyped
    <3>2. CASE (Store(Reclaimed) \/ KeepTable) /\ WorkerTo(s, "gone")
      BY <1>2, <1>4, <1>6, <3>2, StoreIsTyped DEF WorkerPlaces
    <3> QED
      BY <1>8, <3>1, <3>2 DEF Claim
  <2> QED
    BY <1>8, <2>2 DEF Claim, TypeOK, WorkerType
<1>9. CASE PostClaimed(s) \/ PostCompleted(s)
  <2>1. worker' \in [Sessions -> WorkerType]
    BY <1>6, <1>9 DEF PostClaimed, PostCompleted, WorkerPlaces
  <2>2. signals' \in [Owners -> Nat]
    BY <1>9, SignalIsTyped DEF PostClaimed, PostCompleted
  <2> QED
    BY <1>9, <2>1, <2>2 DEF PostClaimed, PostCompleted, TypeOK, WorkerType
<1>10. CASE StartWatch(s)
  <2>1. worker' \in [Sessions -> WorkerType]
    <3>1. CASE WorkerTo(s, "working")
      BY <1>6, <3>1 DEF WorkerPlaces
    <3>2. CASE worker' = [worker EXCEPT ![s] = [@ EXCEPT !.at = "publish", !.result = "canceled"]]
      <4>1. "publish" \in WorkerPlaces /\ "canceled" \in Outcomes
        BY DEF WorkerPlaces, Outcomes
      <4> QED
        BY <1>1, <3>2, <4>1, FinishedIsWorker
    <3> QED
      BY <1>10, <3>1, <3>2 DEF StartWatch
  <2> QED
    BY <1>10, <2>1 DEF StartWatch, TypeOK, WorkerType
<1>11. CASE WatchStep(s)
  <2>1. cancels' \in [Sessions -> Nat]
    BY <1>11 DEF WatchStep, WatchWakes, WatchAsks, TypeOK
  <2>2. watch' \in [Sessions -> {"off", "waiting", "woken", "lost", "canceled"}]
    BY <1>11 DEF WatchStep, WatchWakes, WatchAsks, TypeOK
  <2>3. UNCHANGED <<slot, verdict, nextSession, signals, asked, living, window, worker, told>>
    BY <1>11 DEF WatchStep, WatchWakes, WatchAsks
  <2> QED
    BY <2>1, <2>2, <2>3 DEF TypeOK
<1>12. CASE Finish(s)
  <2>1. worker' \in [Sessions -> WorkerType]
    <3>1. PICK result \in Outcomes :
            worker' = [worker EXCEPT ![s] = [@ EXCEPT !.at = "publish", !.result = result]]
      BY <1>12 DEF Finish
    <3>2. "publish" \in WorkerPlaces
      BY DEF WorkerPlaces
    <3> QED
      BY <1>1, <3>1, <3>2, FinishedIsWorker
  <2> QED
    BY <1>12, <2>1 DEF Finish, TypeOK, WorkerType
<1>13. CASE Publish(s)
  <2>1. PublishCompletion(slot[worker[s].slot], worker[s].result) \in SlotType
    BY <1>3, CompletionIsSlot DEF Results, Outcomes
  <2>2. slot' \in [Slots -> SlotType] /\ verdict' \in [Sessions -> Results]
    BY <1>4, <1>5, <1>13, <2>1 DEF Publish
  <2>3. worker' \in [Sessions -> WorkerType]
    BY <1>6, <1>13 DEF Publish, WorkerPlaces
  <2> QED
    BY <1>13, <2>2, <2>3 DEF Publish, TypeOK, WorkerType
<1>14. CASE CheckMinimal(s) \/ WorkerCrash(s)
  <2>1. worker' \in [Sessions -> WorkerType]
    BY <1>6, <1>14 DEF CheckMinimal, WorkerCrash, WorkerPlaces
  <2> QED
    BY <1>14, <2>1 DEF CheckMinimal, WorkerCrash, TypeOK, WorkerType
<1>15. CASE StoreResult(s) \/ StoreEvent(s) \/ StoreState(s)
  <2> DEFINE e == slot[worker[s].slot]
  <2>1. /\ [e EXCEPT !.result = worker[s].result, !.aged = FALSE] \in SlotType
        /\ [e EXCEPT !.state = "Completed"] \in SlotType
    BY <1>3 DEF SlotType, States, Results, Outcomes
  <2>2. [e EXCEPT !.published = 3] \in SlotType
    <3>1. 3 \in 0..3
      OBVIOUS
    <3> QED
      BY <1>3, <3>1 DEF SlotType
  <2>3. slot' \in [Slots -> SlotType] /\ verdict' \in [Sessions -> Results]
    BY <1>5, <1>15, <2>1, <2>2 DEF StoreResult, StoreEvent, StoreState
  <2>4. worker' \in [Sessions -> WorkerType]
    BY <1>6, <1>15 DEF StoreResult, StoreEvent, StoreState, WorkerPlaces
  <2> QED
    BY <1>15, <2>3, <2>4 DEF StoreResult, StoreEvent, StoreState, TypeOK, WorkerType
<1> QED
  BY <1>7, <1>8, <1>9, <1>10, <1>11, <1>12, <1>13, <1>14, <1>15 DEF WorkerStep

LEMMA StepKeepsTypes ==
  ASSUME TypeOK, [Next]_vars PROVE TypeOK'
<1>1. CASE UNCHANGED vars
  BY <1>1 DEF vars, TypeOK
<1>2. ASSUME NEW i \in Slots, Age(i) PROVE TypeOK'
  <2>1. [slot[i] EXCEPT !.aged = TRUE] \in SlotType
    <3>1. slot[i] \in SlotType
      BY DEF TypeOK
    <3> QED
      BY <3>1 DEF SlotType
  <2> QED
    BY <1>2, <2>1 DEF Age, TypeOK, cancelling, told
<1> QED
  BY <1>1, <1>2, WindowKeepsTypes, WorkersKeepTypes DEF Next

-----------------------------------------------------------------------------
(* The table.                                                              *)

\* A completion that is acknowledged is cleared at once, so there is never
\* anything left to reclaim.
LEMMA NothingToReclaim ==
  ASSUME TypeOK, Table
  PROVE  Reclaimed = slot
BY DEF TypeOK, Table, GoodSlots, Shape, Reclaimed, Reclaimable, SlotType

\* A verdict is there once the completion of its session is stored.
LEMMA StoreJudges ==
  ASSUME TypeOK, NEW sl \in [Slots -> SlotType], Store(sl), NEW s \in Sessions
  PROVE  verdict'[s] # "none" <=>
           verdict[s] # "none" \/ \E i \in Slots : sl[i].session = s /\ sl[i].published = 3
<1>1. verdict'[s] = Judged(sl)[s]
  BY DEF Store
<1>2. CASE verdict[s] = "none" /\ \E i \in Slots : sl[i].session = s /\ sl[i].published = 3
  <2> DEFINE i == CHOOSE i \in Slots : sl[i].session = s /\ sl[i].published = 3
  <2>1. i \in Slots
    BY <1>2
  <2>2. sl[i].result # "none"
    <3>1. sl[i] \in SlotType
      BY <2>1
    <3> QED
      BY <3>1 DEF SlotType
  <2> QED
    BY <1>1, <1>2, <2>2 DEF Judged
<1> QED
  BY <1>1, <1>2 DEF Judged

LEMMA KeepIsStore ==
  ASSUME TypeOK, Table, NEW sl, slot' = sl, UNCHANGED verdict,
         \A i \in Slots : sl[i].session = slot[i].session /\ sl[i].published = slot[i].published
  PROVE  Store(sl)
<1>1. \A s \in Sessions : verdict[s] = "none" =>
        ~\E i \in Slots : slot[i].session = s /\ slot[i].published = 3
  BY DEF Table, VerdictsPublished, Sessions
<1>2. Judged(sl) = verdict
  BY <1>1 DEF Judged, TypeOK
<1> QED
  BY <1>2 DEF Store

\* e may take the place of d: its task goes on, or leaves the slot.
Follows(d, e) ==
  /\ Shape(e)
  /\ e.session \in {d.session, 0}
  /\ e.session = d.session => e.published >= d.published

\* What a store, or none, may do to the table.
LEMMA TableKept ==
  ASSUME IInv, NEW sl \in [Slots -> SlotType], Store(sl),
         \A i \in Slots : Follows(slot[i], sl[i]),
         \A i \in Slots : sl[i].cancel => sl[i].session \in asked',
         nextSession' = nextSession
  PROVE  Table'
<1> USE DEF IInv, Table
<1>1. slot' = sl
  BY DEF Store
<1>2. \A i \in Slots : sl[i] \in SlotType /\ slot[i] \in SlotType
  BY DEF TypeOK
<1>3. \A i \in Slots : sl[i].session # 0 => sl[i].session = slot[i].session
  BY DEF Follows
<1>4. GoodSlots'
  <2>1. 0 < nextSession
    BY DEF TypeOK
  <2>2. \A i \in Slots : sl[i].session < nextSession
    BY <1>3, <2>1 DEF GoodSlots
  <2>3. \A i \in Slots : Shape(sl[i])
    BY DEF Follows
  <2> QED
    BY <1>1, <2>2, <2>3 DEF GoodSlots, Shape
<1>5. SessionsDiffer'
  BY <1>1, <1>3 DEF SessionsDiffer
<1>6. ASSUME NEW i \in Slots, sl[i].session # 0
      PROVE  sl[i].published = 3 <=> verdict'[sl[i].session] # "none"
  <2>1. sl[i].session \in Sessions
    BY <1>2, <1>6 DEF SlotType
  <2>2. ASSUME NEW j \in Slots, sl[j].session = sl[i].session, sl[j].published = 3
        PROVE  sl[i].published = 3
    BY <1>3, <1>6, <2>2 DEF SessionsDiffer
  <2>3. verdict[sl[i].session] # "none" => sl[i].published = 3
    <3>1. verdict[sl[i].session] # "none" => slot[i].published = 3
      BY <1>3, <1>6 DEF VerdictsPublished
    <3>2. sl[i].published >= slot[i].published
      BY <1>3, <1>6 DEF Follows
    <3> QED
      BY <1>2, <3>1, <3>2 DEF SlotType
  <2> QED
    BY <2>1, <2>2, <2>3, StoreJudges
<1>7. VerdictsPublished'
  BY <1>1, <1>6 DEF VerdictsPublished
<1> QED
  BY <1>4, <1>5, <1>7

\* What windows and workers may do meanwhile.
LEMMA ActorsKept ==
  ASSUME IInv, NEW sl \in [Slots -> SlotType], Store(sl),
         \A i \in Slots : Follows(slot[i], sl[i]),
         nextSession' = nextSession,
         \A o \in Owners : \A event \in window'[o].inbox :
           event \in window[o].inbox \/
           (event.kind = 3 => event.session \in Sessions /\ verdict[event.session] # "none"),
         \A o \in Owners : window'[o].at = "spawn" => window'[o] = window[o],
         \A t \in Sessions : worker[t].at = "none" =>
           \/ worker'[t].at = "none"
           \/ t < nextSession /\ \A o \in Owners : window'[o].at = "spawn" => window'[o].session # t,
         \A t \in Sessions : worker'[t].at \in Running =>
           LET e == sl[worker'[t].slot] IN
             /\ worker'[t].slot \in Slots
             /\ Matches(e, t, worker'[t].generation)
             /\ e.state \in {"Claimed", "Completed"} /\ e.published = 2
  PROVE  Actors'
<1> USE DEF IInv, Table, Actors
<1>1. slot' = sl
  BY DEF Store
<1>2. \A i \in Slots : sl[i] \in SlotType /\ slot[i] \in SlotType
  BY DEF TypeOK
<1>3. \A i \in Slots : sl[i].session # 0 => sl[i].session = slot[i].session
  BY DEF Follows
<1>4. ASSUME NEW s \in Sessions, verdict[s] # "none" PROVE verdict'[s] # "none"
  BY <1>4, StoreJudges
<1>5. FutureSessions'
  <2> SUFFICES ASSUME NEW s \in Sessions, s >= nextSession
               PROVE  verdict'[s] = "none" /\ worker'[s].at = "none"
    BY DEF FutureSessions
  <2>1. \A i \in Slots : sl[i].session # s
    <3>1. \A i \in Slots : slot[i].session # s
      BY <1>2 DEF GoodSlots, SlotType, TypeOK, Sessions
    <3> QED
      BY <1>3, <3>1 DEF Sessions
  <2>2. verdict'[s] = "none"
    BY <2>1, StoreJudges DEF FutureSessions
  <2>3. ~(s < nextSession)
    BY DEF TypeOK, Sessions
  <2> QED
    BY <2>2, <2>3 DEF FutureSessions
<1>6. EventsPublished'
  BY <1>4 DEF EventsPublished
<1>7. WaitingSpawns'
  BY DEF WaitingSpawns
<1>8. RunningSlots'
  <2> SUFFICES ASSUME NEW t \in Sessions, worker'[t].at \in Running
               PROVE  /\ StillMine(t)'
                      /\ MySlot(t)'.state \in {"Claimed", "Completed"} /\ MySlot(t)'.published = 2
                      /\ verdict'[t] = "none"
    BY DEF RunningSlots, Running
  <2> DEFINE i == worker'[t].slot
  <2>1. /\ i \in Slots /\ Matches(sl[i], t, worker'[t].generation)
        /\ sl[i].state \in {"Claimed", "Completed"} /\ sl[i].published = 2
    OBVIOUS
  <2>2. slot[i].session = t /\ t # 0
    BY <1>3, <2>1 DEF Matches, Sessions
  <2>3. slot[i].published # 3
    <3>1. sl[i].published >= slot[i].published
      BY <2>1, <2>2 DEF Follows, Matches
    <3> QED
      BY <1>2, <2>1, <3>1 DEF SlotType
  <2>4. verdict[t] = "none"
    BY <2>1, <2>2, <2>3 DEF VerdictsPublished
  <2>5. \A j \in Slots : sl[j].session = t => j = i
    BY <1>3, <2>1, <2>2 DEF SessionsDiffer
  <2>6. verdict'[t] = "none"
    BY <2>1, <2>4, <2>5, StoreJudges
  <2> QED
    BY <1>1, <2>1, <2>6 DEF StillMine, MySlot, Matches
<1> QED
  BY <1>5, <1>6, <1>7, <1>8

-----------------------------------------------------------------------------
(* The steps.                                                              *)

\* A slot whose task, event and state stay may take its own place.
LEMMA SameFollows ==
  ASSUME IInv, NEW i \in Slots, NEW e \in SlotType,
         e.session = slot[i].session, e.published = slot[i].published,
         e.acknowledged = slot[i].acknowledged, e.state = slot[i].state,
         e.cancel => slot[i].session # 0
  PROVE  Follows(slot[i], e)
<1>1. slot[i] \in SlotType
  BY DEF IInv, TypeOK
<1> QED
  BY <1>1 DEF IInv, Table, GoodSlots, Shape, Follows, SlotType

LEMMA ClearedFollows ==
  ASSUME NEW d, NEW e, Shape(d)
  PROVE  /\ Follows(d, Cleared(e)) /\ ~Cleared(e).cancel
         /\ Cleared(e).session = 0 /\ Cleared(e).published = 0
BY DEF Follows, Cleared, EmptySlot, Shape

\* Steps that leave the table alone and start no worker.
LEMMA StepWithoutTable ==
  ASSUME IInv, KeepTable, UNCHANGED <<nextSession, asked>>,
         \A o \in Owners : window'[o].inbox \subseteq window[o].inbox,
         \A o \in Owners : window'[o].at = "spawn" => window'[o] = window[o],
         \A t \in Sessions : worker[t].at = "none" =>
           \/ worker'[t].at = "none"
           \/ t < nextSession /\ \A o \in Owners : window'[o].at = "spawn" => window'[o].session # t,
         \A t \in Sessions : worker'[t].at \in Running =>
           /\ worker[t].at \in Running /\ worker'[t].slot = worker[t].slot
           /\ worker'[t].generation = worker[t].generation
  PROVE  Table' /\ Actors'
<1> USE DEF IInv
<1>1. Store(slot)
  BY KeepIsStore DEF KeepTable
<1>2. slot \in [Slots -> SlotType]
  BY DEF TypeOK
<1>3. \A i \in Slots : Follows(slot[i], slot[i])
  BY <1>2 DEF Table, GoodSlots, Follows, SlotType
<1>4. \A i \in Slots : slot[i].cancel => slot[i].session \in asked'
  BY DEF Table, GoodSlots
<1>5. \A t \in Sessions : worker'[t].at \in Running =>
        /\ worker'[t].slot \in Slots
        /\ Matches(slot[worker'[t].slot], t, worker'[t].generation)
        /\ slot[worker'[t].slot].state \in {"Claimed", "Completed"}
        /\ slot[worker'[t].slot].published = 2
  BY DEF Actors, RunningSlots, StillMine, MySlot, TypeOK
<1>6. Table'
  BY <1>1, <1>2, <1>3, <1>4, TableKept
<1>7. Actors'
  BY <1>1, <1>2, <1>3, <1>5, ActorsKept
<1> QED
  BY <1>6, <1>7

\* Steps of a window or of a monitor that store what may take the place of
\* what was there, and of the slots of running workers only what keeps them.
LEMMA StoreWithoutWorker ==
  ASSUME IInv, NEW sl \in [Slots -> SlotType], Store(sl), UNCHANGED <<nextSession, worker>>,
         asked \subseteq asked',
         \A i \in Slots : Follows(slot[i], sl[i]),
         \A i \in Slots : sl[i].cancel => sl[i].session \in asked',
         \A i \in Slots : slot[i].state \in {"Claimed", "Completed"} /\ slot[i].published = 2 =>
           \/ /\ sl[i].session = slot[i].session /\ sl[i].generation = slot[i].generation
              /\ sl[i].state = slot[i].state /\ sl[i].published = 2
           \/ slot[i].session \in Sessions => worker[slot[i].session].at \notin Running,
         \A o \in Owners : \A event \in window'[o].inbox :
           event \in window[o].inbox \/
           (event.kind = 3 => event.session \in Sessions /\ verdict[event.session] # "none"),
         \A o \in Owners : window'[o].at = "spawn" => window'[o] = window[o]
  PROVE  Table' /\ Actors'
<1> USE DEF IInv
<1>1. ASSUME NEW t \in Sessions, worker'[t].at \in Running
      PROVE  LET e == sl[worker'[t].slot] IN
               /\ worker'[t].slot \in Slots
               /\ Matches(e, t, worker'[t].generation)
               /\ e.state \in {"Claimed", "Completed"} /\ e.published = 2
  <2> DEFINE i == worker[t].slot
  <2>1. worker'[t] = worker[t] /\ i \in Slots
    BY DEF TypeOK
  <2>2. /\ Matches(slot[i], t, worker[t].generation)
        /\ slot[i].state \in {"Claimed", "Completed"} /\ slot[i].published = 2
    BY <1>1, <2>1 DEF Actors, RunningSlots, StillMine, MySlot
  <2>3. /\ sl[i].session = slot[i].session /\ sl[i].generation = slot[i].generation
        /\ sl[i].state = slot[i].state /\ sl[i].published = 2
    BY <1>1, <2>1, <2>2 DEF Matches
  <2> QED
    BY <2>1, <2>2, <2>3 DEF Matches
<1>2. Table'
  BY TableKept
<1>3. Actors'
  BY <1>1, ActorsKept
<1> QED
  BY <1>2, <1>3

\* Steps of one worker that store in one slot.
LEMMA StoreByWorker ==
  ASSUME IInv, NEW s \in Sessions, NEW i \in Slots, NEW e \in SlotType,
         Store([slot EXCEPT ![i] = e]), UNCHANGED <<nextSession, asked, window>>,
         Follows(slot[i], e), e.cancel => e.session \in asked,
         worker[s].at # "none", \A t \in Sessions \ {s} : worker'[t] = worker[t],
         \A t \in Sessions \ {s} : worker[t].at \in Running /\ worker[t].slot = i =>
           /\ e.session = slot[i].session /\ e.generation = slot[i].generation
           /\ e.state \in {"Claimed", "Completed"} /\ e.published = slot[i].published,
         worker'[s].at \in Running =>
           /\ worker'[s].slot = i /\ Matches(e, s, worker'[s].generation)
           /\ e.state \in {"Claimed", "Completed"} /\ e.published = 2
  PROVE  Table' /\ Actors'
<1> USE DEF IInv
<1> DEFINE sl == [slot EXCEPT ![i] = e]
<1>1. sl \in [Slots -> SlotType] /\ Store(sl)
  BY OneSlotIsTyped
<1>2. slot \in [Slots -> SlotType] /\ sl[i] = e /\ \A j \in Slots \ {i} : sl[j] = slot[j]
  BY DEF TypeOK
<1> HIDE DEF sl
<1>3. \A j \in Slots : Follows(slot[j], sl[j])
  <2>1. \A j \in Slots : Follows(slot[j], slot[j])
    BY <1>2 DEF Table, GoodSlots, Follows, SlotType
  <2> QED
    BY <1>2, <2>1
<1>4. \A j \in Slots : sl[j].cancel => sl[j].session \in asked'
  BY <1>2 DEF Table, GoodSlots
<1>5. ASSUME NEW t \in Sessions, worker'[t].at \in Running
      PROVE  LET d == sl[worker'[t].slot] IN
               /\ worker'[t].slot \in Slots
               /\ Matches(d, t, worker'[t].generation)
               /\ d.state \in {"Claimed", "Completed"} /\ d.published = 2
  <2>1. CASE t = s
    BY <1>2, <1>5, <2>1
  <2>2. CASE t # s
    <3>1. worker'[t] = worker[t] /\ worker[t].slot \in Slots
      BY <2>2 DEF TypeOK
    <3>2. /\ Matches(slot[worker[t].slot], t, worker[t].generation)
          /\ slot[worker[t].slot].state \in {"Claimed", "Completed"}
          /\ slot[worker[t].slot].published = 2
      BY <1>5, <3>1 DEF Actors, RunningSlots, StillMine, MySlot
    <3>3. CASE worker[t].slot = i
      BY <1>2, <1>5, <2>2, <3>1, <3>2, <3>3 DEF Matches
    <3>4. CASE worker[t].slot # i
      BY <1>2, <3>1, <3>2, <3>4
    <3> QED
      BY <3>3, <3>4
  <2> QED
    BY <2>1, <2>2
<1>6. Table'
  BY <1>1, <1>3, <1>4, TableKept
<1>7. \A t \in Sessions : worker[t].at = "none" => worker'[t].at = "none"
  OBVIOUS
<1>8. /\ \A o \in Owners : \A event \in window'[o].inbox : event \in window[o].inbox
      /\ \A o \in Owners : window'[o].at = "spawn" => window'[o] = window[o]
  OBVIOUS
<1>9. Actors'
  BY <1>1, <1>3, <1>5, <1>7, <1>8, ActorsKept
<1> QED
  BY <1>6, <1>9

\* A task that is dispatched takes a session nobody knows yet, in a slot that
\* nobody uses.
LEMMA ReserveKeepsInvariant ==
  ASSUME IInv, TypeOK', NEW o \in Owners, Reserve(o)
  PROVE  Table' /\ Actors'
<1> USE DEF IInv, Table, Actors
<1> DEFINE s == nextSession
<1>1. Reclaimed = slot /\ s \in Sessions
  BY NothingToReclaim DEF Reserve
<1>2. PICK i \in Slots :
        /\ slot[i].state = "Empty"
        /\ Store([slot EXCEPT ![i] = Dispatched(@, o)])
        /\ window' = [window EXCEPT ![o] = [@ EXCEPT !.at = "spawn", !.slot = i,
                         !.session = nextSession, !.generation = slot[i].generation]]
  BY <1>1 DEF Reserve
<1> DEFINE d == Dispatched(slot[i], o)
           sl == [slot EXCEPT ![i] = d]
<1>3. d \in SlotType
  BY <1>1, DispatchedIsSlot DEF TypeOK
<1>4. /\ d.state = "Dispatched" /\ d.session = s /\ d.published = 1 /\ d.acknowledged = 0
      /\ d.cancel = slot[i].cancel
  BY DEF Dispatched, TypeOK, SlotType
<1>5. slot[i].session = 0 /\ ~d.cancel
  BY <1>2, <1>4 DEF GoodSlots, Shape
<1> HIDE DEF d
<1>6. /\ sl \in [Slots -> SlotType] /\ Store(sl) /\ slot' = sl
      /\ sl[i] = d /\ \A j \in Slots \ {i} : sl[j] = slot[j]
  BY <1>2, <1>3, OneSlotIsTyped DEF TypeOK, Store, d
<1> HIDE DEF sl
<1>7. nextSession' = s + 1 /\ UNCHANGED <<asked, worker>> /\ s > 0
  BY <1>1 DEF Reserve, cancelling, Sessions
<1>8. \A j \in Slots : slot[j].session < s /\ slot[j].session >= 0
  <2>1. \A j \in Slots : slot[j].session \in Sessions \cup {0}
    BY DEF TypeOK, SlotType
  <2>2. \A j \in Slots : slot[j].session < s
    BY DEF GoodSlots
  <2>3. \A t \in Sessions \cup {0} : t >= 0
    BY DEF Sessions
  <2> QED
    BY <2>1, <2>2, <2>3
<1>9. \A t \in Sessions : verdict'[t] # "none" <=> verdict[t] # "none"
  <2> TAKE t \in Sessions
  <2>1. verdict'[t] # "none" <=>
          verdict[t] # "none" \/ \E j \in Slots : sl[j].session = t /\ sl[j].published = 3
    BY <1>6, StoreJudges
  <2>2. ASSUME NEW j \in Slots, sl[j].session = t, sl[j].published = 3 PROVE verdict[t] # "none"
    <3>1. j # i
      BY <1>4, <1>6, <2>2
    <3> QED
      BY <1>6, <2>2, <3>1 DEF VerdictsPublished, Sessions
  <2> QED
    BY <2>1, <2>2
<1>10. GoodSlots'
  <2>1. Shape(d)
    BY <1>4, <1>5, <1>7 DEF Shape
  <2>2. \A j \in Slots : Shape(sl[j]) /\ sl[j].session < s + 1 /\ (sl[j].cancel => sl[j].session \in asked)
    <3>1. s < s + 1 /\ s \in Int
      BY <1>1 DEF Sessions
    <3>2. \A j \in Slots : slot[j].session < s + 1
      <4>1. \A j \in Slots : slot[j].session \in Int
        BY DEF TypeOK, SlotType, Sessions
      <4> QED
        BY <1>8, <3>1, <4>1
    <3>3. Shape(sl[i]) /\ sl[i].session < s + 1 /\ ~sl[i].cancel
      BY <1>4, <1>5, <1>6, <2>1, <3>1
    <3>4. \A j \in Slots \ {i} : Shape(sl[j]) /\ (sl[j].cancel => sl[j].session \in asked)
      BY <1>6 DEF GoodSlots
    <3> QED
      BY <1>6, <3>2, <3>3, <3>4
  <2> QED
    BY <1>6, <1>7, <2>2 DEF GoodSlots, Shape
<1>11. SessionsDiffer'
  <2>1. ~(s < s)
    BY <1>1 DEF Sessions
  <2>2. \A j \in Slots : slot[j].session # s
    BY <1>8, <2>1
  <2> QED
    BY <1>4, <1>6, <2>2 DEF SessionsDiffer
<1>12. VerdictsPublished'
  <2>1. verdict[s] = "none"
    BY <1>1 DEF FutureSessions, TypeOK
  <2>2. ASSUME NEW j \in Slots, sl[j].session # 0
        PROVE  sl[j].published = 3 <=> verdict'[sl[j].session] # "none"
    <3>1. CASE j = i
      BY <1>1, <1>4, <1>6, <1>9, <2>1, <3>1
    <3>2. CASE j # i
      <4>1. slot[j].session \in Sessions /\ sl[j] = slot[j]
        BY <1>6, <2>2, <3>2 DEF TypeOK, SlotType
      <4> QED
        BY <1>9, <2>2, <4>1 DEF VerdictsPublished
    <3> QED
      BY <3>1, <3>2
  <2> QED
    BY <1>6, <2>2 DEF VerdictsPublished
<1>13. FutureSessions'
  BY <1>7, <1>9 DEF FutureSessions, TypeOK, Sessions
<1>14. \A p \in Owners : window'[p].inbox = window[p].inbox
  BY <1>2 DEF TypeOK
<1>15. EventsPublished'
  BY <1>9, <1>14 DEF EventsPublished
<1>16. WaitingSpawns'
  <2>1. window'[o].session = s /\ worker[s].at = "none"
    BY <1>1, <1>2 DEF TypeOK, FutureSessions
  <2>2. \A p \in Owners \ {o} : window'[p] = window[p]
    BY <1>2 DEF TypeOK
  <2>3. \A p \in Owners \ {o} : window[p].at = "spawn" => window[p].session < s
    BY DEF WaitingSpawns
  <2> QED
    BY <1>1, <1>7, <2>1, <2>2, <2>3 DEF WaitingSpawns, Sessions
<1>17. RunningSlots'
  <2> SUFFICES ASSUME NEW t \in Sessions, worker[t].at \in Running
               PROVE  /\ StillMine(t)'
                      /\ MySlot(t)'.state \in {"Claimed", "Completed"} /\ MySlot(t)'.published = 2
                      /\ verdict'[t] = "none"
    BY <1>7 DEF RunningSlots, Running
  <2>1. /\ StillMine(t) /\ MySlot(t).state \in {"Claimed", "Completed"} /\ MySlot(t).published = 2
        /\ verdict[t] = "none"
    BY DEF RunningSlots
  <2>2. worker[t].slot # i /\ worker[t].slot \in Slots
    BY <1>2, <2>1 DEF MySlot, TypeOK
  <2>3. slot'[worker[t].slot] = slot[worker[t].slot]
    BY <1>6, <2>2
  <2> QED
    BY <1>7, <1>9, <2>1, <2>3 DEF StillMine, MySlot, Matches
<1> QED
  BY <1>10, <1>11, <1>12, <1>13, <1>15, <1>16, <1>17

LEMMA SpawnKeepsInvariant ==
  ASSUME IInv, NEW o \in Owners, Spawn(o)
  PROVE  Table' /\ Actors'
<1> USE DEF IInv
<1> DEFINE s == window[o].session
<1>1. /\ s \in Sessions /\ s < nextSession /\ worker[s].at = "none"
      /\ \A p \in Owners : window[p].at = "spawn" /\ window[p].session = s => p = o
  BY DEF Spawn, Actors, WaitingSpawns
<1>2. /\ \A p \in Owners \ {o} : window'[p] = window[p]
      /\ window'[o].at = "record" /\ window'[o].inbox = window[o].inbox
  BY DEF Spawn, WindowTo, TypeOK
<1>3. worker'[s].at = "starting" /\ \A t \in Sessions \ {s} : worker'[t] = worker[t]
  BY <1>1 DEF Spawn, TypeOK
<1>4. KeepTable /\ UNCHANGED <<nextSession, asked>>
  BY DEF Spawn, KeepTable, cancelling
<1>5. \A t \in Sessions : worker[t].at = "none" =>
        \/ worker'[t].at = "none"
        \/ t < nextSession /\ \A p \in Owners : window'[p].at = "spawn" => window'[p].session # t
  BY <1>1, <1>2, <1>3
<1>6. \A t \in Sessions : worker'[t].at \in Running => worker'[t] = worker[t]
  BY <1>3 DEF Running
<1>7. /\ \A p \in Owners : window'[p].inbox \subseteq window[p].inbox
      /\ \A p \in Owners : window'[p].at = "spawn" => window'[p] = window[p]
  BY <1>2
<1> QED
  BY <1>4, <1>5, <1>6, <1>7, StepWithoutTable

\* The slot that is given back has a session whose worker was not started.
LEMMA SpawnFailsKeepsInvariant ==
  ASSUME IInv, NEW o \in Owners, SpawnFails(o)
  PROVE  Table' /\ Actors'
<1> USE DEF IInv
<1> DEFINE w == window[o]
<1>1. w.at = "spawn" /\ w.slot \in Slots /\ worker[w.session].at = "none" /\ slot \in [Slots -> SlotType]
  BY DEF SpawnFails, Actors, WaitingSpawns, TypeOK
<1>2. /\ \A p \in Owners \ {o} : window'[p] = window[p]
      /\ window'[o].at = "idle" /\ window'[o].inbox = {}
  BY DEF SpawnFails, WindowTo, IdleWindow, TypeOK
<1>3. UNCHANGED <<nextSession, asked, worker>>
  BY DEF SpawnFails, cancelling
<1>4. CASE KeepTable
  BY <1>2, <1>3, <1>4, StepWithoutTable
<1>5. CASE Store(IF Matches(slot[w.slot], w.session, w.generation)
                 THEN [slot EXCEPT ![w.slot] = Cleared(@)] ELSE slot)
  <2> DEFINE sl == IF Matches(slot[w.slot], w.session, w.generation)
                   THEN [slot EXCEPT ![w.slot] = Cleared(@)] ELSE slot
  <2>1. Cleared(slot[w.slot]) \in SlotType
    BY <1>1, ClearedIsSlot
  <2>2. sl \in [Slots -> SlotType] /\ Store(sl)
    BY <1>1, <1>5, <2>1
  <2>3. \A i \in Slots : \/ sl[i] = slot[i]
                         \/ sl[i] = Cleared(slot[i]) /\ slot[i].session = w.session
    BY <1>1 DEF Matches
  <2> HIDE DEF sl
  <2>4. \A i \in Slots : Follows(slot[i], sl[i])
    <3>1. \A i \in Slots : Follows(slot[i], slot[i]) /\ Shape(slot[i])
      BY <1>1 DEF Table, GoodSlots, Follows, SlotType
    <3> QED
      BY <2>3, <3>1, ClearedFollows
  <2>5. \A i \in Slots : sl[i].cancel => sl[i].session \in asked'
    <3>1. \A i \in Slots : ~Cleared(slot[i]).cancel
      BY DEF Cleared, EmptySlot
    <3> QED
      BY <1>3, <2>3, <3>1 DEF Table, GoodSlots
  <2>6. worker[w.session].at \notin Running
    BY <1>1 DEF Running
  <2>7. \A i \in Slots : slot[i].state \in {"Claimed", "Completed"} /\ slot[i].published = 2 =>
          \/ /\ sl[i].session = slot[i].session /\ sl[i].generation = slot[i].generation
             /\ sl[i].state = slot[i].state /\ sl[i].published = 2
          \/ slot[i].session \in Sessions => worker[slot[i].session].at \notin Running
    BY <2>3, <2>6
  <2>8. /\ \A p \in Owners : \A event \in window'[p].inbox : event \in window[p].inbox
        /\ \A p \in Owners : window'[p].at = "spawn" => window'[p] = window[p]
    BY <1>2
  <2> QED
    BY <1>3, <2>2, <2>4, <2>5, <2>7, <2>8, StoreWithoutWorker
<1> QED
  BY <1>4, <1>5 DEF SpawnFails

\* Stores that change neither tasks nor states nor events of the slots.
LEMMA StoreOfTheSame ==
  ASSUME IInv, NEW sl \in [Slots -> SlotType], Store(sl), UNCHANGED <<nextSession, worker>>,
         asked \subseteq asked',
         \A i \in Slots :
           /\ sl[i].session = slot[i].session /\ sl[i].generation = slot[i].generation
           /\ sl[i].published = slot[i].published /\ sl[i].state = slot[i].state
           /\ sl[i].acknowledged = slot[i].acknowledged
           /\ sl[i].cancel => slot[i].session \in asked' /\ slot[i].session # 0,
         \A o \in Owners : \A event \in window'[o].inbox :
           event \in window[o].inbox \/
           (event.kind = 3 => event.session \in Sessions /\ verdict[event.session] # "none"),
         \A o \in Owners : window'[o].at = "spawn" => window'[o] = window[o]
  PROVE  Table' /\ Actors'
<1>1. \A i \in Slots : Follows(slot[i], sl[i])
  BY SameFollows
<1>2. \A i \in Slots : sl[i].cancel => sl[i].session \in asked'
  OBVIOUS
<1>3. \A i \in Slots : slot[i].state \in {"Claimed", "Completed"} /\ slot[i].published = 2 =>
        /\ sl[i].session = slot[i].session /\ sl[i].generation = slot[i].generation
        /\ sl[i].state = slot[i].state /\ sl[i].published = 2
  OBVIOUS
<1> QED
  BY <1>1, <1>2, <1>3, StoreWithoutWorker

LEMMA RecordKeepsInvariant ==
  ASSUME IInv, NEW o \in Owners, Record(o)
  PROVE  Table' /\ Actors'
<1> USE DEF IInv
<1> DEFINE w == window[o]
           sl == IF Matches(slot[w.slot], w.session, w.generation) /\ slot[w.slot].state = "Dispatched"
                 THEN [slot EXCEPT ![w.slot] = [@ EXCEPT !.aged = FALSE]] ELSE slot
<1>1. w.slot \in Slots /\ slot \in [Slots -> SlotType]
  BY DEF TypeOK
<1>2. /\ \A p \in Owners \ {o} : window'[p] = window[p]
      /\ window'[o].at = "post" /\ window'[o].inbox = window[o].inbox
  BY DEF Record, WindowTo, TypeOK
<1>3. UNCHANGED <<nextSession, asked, worker>>
  BY DEF Record, cancelling
<1>4. CASE KeepTable
  BY <1>2, <1>3, <1>4, StepWithoutTable
<1>5. CASE Store(sl)
  <2> DEFINE e == [slot[w.slot] EXCEPT !.aged = FALSE]
  <2>1. /\ e \in SlotType /\ e.session = slot[w.slot].session
        /\ e.generation = slot[w.slot].generation /\ e.published = slot[w.slot].published
        /\ e.state = slot[w.slot].state /\ e.acknowledged = slot[w.slot].acknowledged
        /\ e.cancel = slot[w.slot].cancel
    <3>1. slot[w.slot] \in SlotType
      BY <1>1
    <3> QED
      BY <3>1, FreshIsSlot
  <2> HIDE DEF e
  <2>2. sl = slot \/ sl = [slot EXCEPT ![w.slot] = e]
    BY DEF e
  <2> HIDE DEF sl
  <2>3. sl \in [Slots -> SlotType]
    BY <1>1, <2>1, <2>2
  <2>4. \A i \in Slots :
          /\ sl[i].session = slot[i].session /\ sl[i].generation = slot[i].generation
          /\ sl[i].published = slot[i].published /\ sl[i].state = slot[i].state
          /\ sl[i].acknowledged = slot[i].acknowledged /\ sl[i].cancel = slot[i].cancel
    BY <1>1, <2>1, <2>2
  <2>5. \A i \in Slots : sl[i].cancel => slot[i].session \in asked' /\ slot[i].session # 0
    BY <1>3, <2>4 DEF Table, GoodSlots, Shape
  <2>6. /\ \A p \in Owners : \A event \in window'[p].inbox : event \in window[p].inbox
        /\ \A p \in Owners : window'[p].at = "spawn" => window'[p] = window[p]
    BY <1>2
  <2> QED
    BY <1>3, <1>5, <2>3, <2>4, <2>5, <2>6, StoreOfTheSame
<1> QED
  BY <1>4, <1>5 DEF Record

LEMMA PollKeepsInvariant ==
  ASSUME IInv, NEW o \in Owners, Poll(o)
  PROVE  Table' /\ Actors'
<1> USE DEF IInv
<1>1. Reclaimed = slot /\ slot \in [Slots -> SlotType]
  BY NothingToReclaim DEF TypeOK
<1>2. UNCHANGED <<nextSession, asked, worker>>
  BY DEF Poll, cancelling
<1> DEFINE events == UNION {Pending(o, slot[i]) : i \in Slots}
<1>3. ASSUME NEW event \in events, event.kind = 3
      PROVE  event.session \in Sessions /\ verdict[event.session] # "none"
  <2>1. PICK i \in Slots : event \in Pending(o, slot[i])
    OBVIOUS
  <2>2. event.session = slot[i].session /\ 3 \in slot[i].acknowledged + 1..slot[i].published
    BY <1>3, <2>1 DEF Pending
  <2>3. slot[i].published = 3
    BY <1>1, <2>2 DEF SlotType
  <2>4. slot[i].session # 0 /\ slot[i].session \in Sessions
    BY <1>1, <2>3 DEF Table, GoodSlots, Shape, SlotType
  <2> QED
    BY <2>2, <2>3, <2>4 DEF Table, VerdictsPublished
<1> HIDE DEF events
<1>4. CASE KeepTable /\ UNCHANGED window
  BY <1>2, <1>4, StepWithoutTable
<1>5. CASE /\ Store(slot)
           /\ window' = IF events = {} THEN window
                        ELSE [window EXCEPT ![o] = [@ EXCEPT !.at = "handle", !.inbox = events]]
  <2>1. /\ \A p \in Owners \ {o} : window'[p] = window[p]
        /\ window'[o] = window[o] \/ (window'[o].at = "handle" /\ window'[o].inbox = events)
    <3>1. window \in [Owners -> WindowType]
      BY DEF TypeOK, WindowType
    <3>2. CASE events = {}
      BY <1>5, <3>2
    <3>3. CASE events # {}
      <4> DEFINE w == [window[o] EXCEPT !.at = "handle", !.inbox = events]
      <4>1. w.at = "handle" /\ w.inbox = events
        BY <3>1 DEF WindowType
      <4>2. window' = [window EXCEPT ![o] = w]
        BY <1>5, <3>3
      <4> HIDE DEF w
      <4> QED
        BY <3>1, <4>1, <4>2
    <3> QED
      BY <3>2, <3>3
  <2>2. \A i \in Slots : slot[i].cancel => slot[i].session \in asked' /\ slot[i].session # 0
    BY <1>2 DEF Table, GoodSlots, Shape
  <2>3. /\ \A p \in Owners : \A event \in window'[p].inbox :
             event \in window[p].inbox \/
             (event.kind = 3 => event.session \in Sessions /\ verdict[event.session] # "none")
        /\ \A p \in Owners : window'[p].at = "spawn" => window'[p] = window[p]
    BY <1>3, <2>1
  <2> QED
    BY <1>1, <1>2, <1>5, <2>2, <2>3, StoreOfTheSame
<1>6. \/ /\ Store(slot)
         /\ window' = IF events = {} THEN window
                      ELSE [window EXCEPT ![o] = [@ EXCEPT !.at = "handle", !.inbox = events]]
      \/ KeepTable /\ UNCHANGED window
  <2>1. events = UNION {Pending(o, Reclaimed[i]) : i \in Slots}
    BY <1>1 DEF events
  <2> QED
    BY <1>1, <2>1 DEF Poll
<1> QED
  BY <1>4, <1>5, <1>6

\* Only a completion clears the slot, and where it was published nobody runs.
LEMMA HandleKeepsInvariant ==
  ASSUME IInv, NEW o \in Owners, NEW event \in window[o].inbox, Handle(o, event)
  PROVE  Table' /\ Actors'
<1> USE DEF IInv
<1>1. /\ slot \in [Slots -> SlotType] /\ event.kind \in 1..3
      /\ event.kind = 3 => event.session \in Sessions /\ verdict[event.session] # "none"
  BY DEF TypeOK, EventType, Actors, EventsPublished
<1>2. /\ \A p \in Owners : window'[p].inbox \subseteq window[p].inbox
      /\ \A p \in Owners : window'[p].at = "spawn" => window'[p] = window[p]
  BY DEF Handle, IdleWindow, TypeOK
<1>3. UNCHANGED <<nextSession, asked, worker>>
  BY DEF Handle, cancelling
<1>4. CASE KeepTable
  BY <1>2, <1>3, <1>4, StepWithoutTable
<1> DEFINE its == {i \in Slots : /\ Matches(slot[i], event.session, event.generation)
                                 /\ slot[i].launcher = o}
           sl == [i \in Slots |-> IF i \in its THEN Acknowledge(slot[i], event.kind) ELSE slot[i]]
<1>5. CASE Store(sl)
  <2>1. sl \in [Slots -> SlotType]
    BY <1>1, AcknowledgedIsSlot
  <2>2. ASSUME NEW i \in Slots
        PROVE  /\ Follows(slot[i], sl[i])
               /\ sl[i].cancel => sl[i].session \in asked
               /\ \/ /\ sl[i].session = slot[i].session /\ sl[i].generation = slot[i].generation
                     /\ sl[i].state = slot[i].state /\ sl[i].published = slot[i].published
                  \/ slot[i].published = 3
    <3> DEFINE d == slot[i]
               acked == IF d.acknowledged < event.kind
                        THEN [d EXCEPT !.acknowledged = event.kind, !.aged = FALSE] ELSE d
    <3>1. d \in SlotType /\ Shape(d) /\ (d.cancel => d.session \in asked) /\ d.acknowledged < 3
      BY <1>1 DEF Table, GoodSlots, Shape
    <3>2. /\ acked.session = d.session /\ acked.generation = d.generation
          /\ acked.state = d.state /\ acked.published = d.published /\ acked.cancel = d.cancel
          /\ acked.acknowledged \in {d.acknowledged, event.kind}
      BY <3>1 DEF SlotType
    <3>3. d.published \in 0..3 /\ d.acknowledged \in 0..3
      BY <3>1 DEF SlotType
    <3>4. CASE i \notin its
      <4>1. sl[i] = d
        BY <3>4
      <4> HIDE DEF sl, d
      <4> QED
        BY <3>1, <3>3, <4>1 DEF Follows, d
    <3>5. CASE i \in its /\ acked.acknowledged < 3
      <4>1. ~(acked.acknowledged >= 3)
        BY <1>1, <3>2, <3>3, <3>5
      <4>2. sl[i] = acked
        BY <3>5, <4>1 DEF Acknowledge
      <4> HIDE DEF sl, acked
      <4>3. Shape(acked)
        BY <3>1, <3>2, <3>5 DEF Shape
      <4> QED
        BY <3>1, <3>2, <3>3, <4>2, <4>3 DEF Follows
    <3>6. CASE i \in its /\ ~(acked.acknowledged < 3)
      <4>1. event.kind = 3 /\ acked.acknowledged >= 3
        BY <1>1, <3>1, <3>2, <3>3, <3>6
      <4>2. sl[i] = Cleared(acked)
        BY <3>6, <4>1 DEF Acknowledge
      <4>3. d.published = 3
        BY <1>1, <3>6, <4>1 DEF Table, VerdictsPublished, Matches, Sessions
      <4> HIDE DEF sl, acked
      <4> QED
        BY <3>1, <4>2, <4>3, ClearedFollows
    <3> QED
      BY <3>4, <3>5, <3>6
  <2> HIDE DEF sl
  <2>3. \A i \in Slots : slot[i].state \in {"Claimed", "Completed"} /\ slot[i].published = 2 =>
          /\ sl[i].session = slot[i].session /\ sl[i].generation = slot[i].generation
          /\ sl[i].state = slot[i].state /\ sl[i].published = 2
    BY <2>2
  <2> QED
    BY <1>2, <1>3, <1>5, <2>1, <2>2, <2>3, StoreWithoutWorker
<1> QED
  BY <1>4, <1>5 DEF Handle

\* The monitor speaks for offers and for workers that are not alive.
LEMMA ScanKeepsInvariant ==
  ASSUME IInv, NEW o \in Owners, Scan(o)
  PROVE  Table' /\ Actors'
<1> USE DEF IInv
<1> DEFINE lapsed(e) == e.launcher = o /\ (Unclaimed(e) \/ WorkerExited(e))
           sl == [i \in Slots |-> IF lapsed(slot[i])
                                 THEN PublishCompletion(slot[i],
                                        IF Unclaimed(slot[i]) THEN "unclaimed" ELSE "died")
                                 ELSE slot[i]]
<1>1. Reclaimed = slot /\ slot \in [Slots -> SlotType]
  BY NothingToReclaim DEF TypeOK
<1>2. Store(sl)
  <2>1. sl = [i \in Slots |-> IF lapsed(Reclaimed[i])
                             THEN PublishCompletion(Reclaimed[i],
                                    IF Unclaimed(Reclaimed[i]) THEN "unclaimed" ELSE "died")
                             ELSE Reclaimed[i]]
    BY <1>1
  <2> QED
    BY <2>1 DEF Scan
<1>3. UNCHANGED <<nextSession, asked, worker, window>>
  BY DEF Scan, cancelling
<1>4. ASSUME NEW i \in Slots
      PROVE  /\ sl[i] \in SlotType /\ Follows(slot[i], sl[i])
             /\ sl[i].cancel => sl[i].session \in asked
             /\ slot[i].state \in {"Claimed", "Completed"} /\ slot[i].published = 2 =>
                  \/ sl[i] = slot[i]
                  \/ slot[i].session \in Sessions => worker[slot[i].session].at \notin Running
  <2> DEFINE d == slot[i]
  <2>1. d \in SlotType /\ Shape(d) /\ (d.cancel => d.session \in asked) /\ d.published \in 0..3
    BY <1>1 DEF Table, GoodSlots, Shape, SlotType
  <2>2. CASE ~lapsed(d)
    <3>1. sl[i] = d
      BY <2>2
    <3> HIDE DEF sl, d
    <3> QED
      BY <2>1, <3>1 DEF Follows, d
  <2>3. CASE lapsed(d)
    <3>1. PICK result \in Results \ {"none"} : sl[i] = PublishCompletion(d, result)
      BY <2>3 DEF Results
    <3> HIDE DEF sl
    <3>2. /\ sl[i] \in SlotType /\ sl[i].published = 3 /\ sl[i].state = "Completed"
          /\ sl[i].session = d.session /\ sl[i].acknowledged = d.acknowledged
          /\ sl[i].cancel = d.cancel
      BY <2>1, <3>1, CompletionIsSlot
    <3>3. d.session # 0
      BY <2>1, <2>3 DEF Shape, Unclaimed, WorkerExited
    <3>4. Follows(d, sl[i])
      <4>1. Shape(sl[i])
        BY <2>1, <3>2, <3>3 DEF Shape
      <4> QED
        BY <2>1, <3>2, <4>1 DEF Follows
    <3>5. d.state \in {"Claimed", "Completed"} => worker[d.session].at \notin Running
      BY <2>3 DEF Unclaimed, WorkerExited, WorkerAlive, Running
    <3> QED
      BY <2>1, <3>2, <3>4, <3>5
  <2> QED
    BY <2>2, <2>3
<1>5. sl \in [Slots -> SlotType]
  BY <1>4
<1> HIDE DEF sl
<1>6. \A i \in Slots : slot[i].state \in {"Claimed", "Completed"} /\ slot[i].published = 2 =>
        \/ /\ sl[i].session = slot[i].session /\ sl[i].generation = slot[i].generation
           /\ sl[i].state = slot[i].state /\ sl[i].published = 2
        \/ slot[i].session \in Sessions => worker[slot[i].session].at \notin Running
  BY <1>4
<1> QED
  BY <1>2, <1>3, <1>4, <1>5, <1>6, StoreWithoutWorker

LEMMA CrashKeepsInvariant ==
  ASSUME IInv, NEW o \in Owners, OwnerCrash(o) \/ PostDispatched(o)
  PROVE  Table' /\ Actors'
<1> USE DEF IInv
<1>1. /\ \A p \in Owners \ {o} : window'[p] = window[p]
      /\ window'[o].at = "idle" /\ window'[o].inbox = {}
  BY DEF OwnerCrash, PostDispatched, WindowTo, IdleWindow, TypeOK
<1>2. KeepTable /\ UNCHANGED <<nextSession, asked, worker>>
  BY DEF OwnerCrash, PostDispatched, KeepTable, cancelling
<1> QED
  BY <1>1, <1>2, StepWithoutTable

\* A change of one slot that keeps its task, state and events.
LEMMA OneSlotStaysTheSame ==
  ASSUME IInv, NEW i \in Slots, NEW e \in SlotType, Store([slot EXCEPT ![i] = e]),
         UNCHANGED <<nextSession, worker, window>>, asked \subseteq asked',
         e.session = slot[i].session, e.generation = slot[i].generation,
         e.published = slot[i].published, e.state = slot[i].state,
         e.acknowledged = slot[i].acknowledged,
         e.cancel => slot[i].session \in asked' /\ slot[i].session # 0
  PROVE  Table' /\ Actors'
<1> DEFINE sl == [slot EXCEPT ![i] = e]
<1>1. sl \in [Slots -> SlotType] /\ Store(sl)
  BY OneSlotIsTyped DEF IInv
<1>2. sl[i] = e /\ \A j \in Slots \ {i} : sl[j] = slot[j]
  BY DEF IInv, TypeOK
<1> HIDE DEF sl
<1>3. \A j \in Slots :
        /\ sl[j].session = slot[j].session /\ sl[j].generation = slot[j].generation
        /\ sl[j].published = slot[j].published /\ sl[j].state = slot[j].state
        /\ sl[j].acknowledged = slot[j].acknowledged
        /\ sl[j].cancel => slot[j].session \in asked' /\ slot[j].session # 0
  BY <1>2 DEF IInv, Table, GoodSlots, Shape
<1>4. /\ \A o \in Owners : \A event \in window'[o].inbox : event \in window[o].inbox
      /\ \A o \in Owners : window'[o].at = "spawn" => window'[o] = window[o]
  OBVIOUS
<1> QED
  BY <1>1, <1>3, <1>4, StoreOfTheSame

LEMMA AgeKeepsInvariant ==
  ASSUME IInv, NEW i \in Slots, Age(i)
  PROVE  Table' /\ Actors'
<1> USE DEF IInv
<1> DEFINE e == [slot[i] EXCEPT !.aged = TRUE]
<1>1. slot[i] \in SlotType /\ slot \in [Slots -> SlotType]
  BY DEF TypeOK
<1>2. /\ e \in SlotType /\ e.session = slot[i].session /\ e.generation = slot[i].generation
      /\ e.published = slot[i].published /\ e.state = slot[i].state
      /\ e.acknowledged = slot[i].acknowledged /\ e.cancel = slot[i].cancel
  BY <1>1 DEF SlotType
<1>3. slot' = [slot EXCEPT ![i] = e] /\ UNCHANGED <<verdict, nextSession, asked, worker, window>>
  BY DEF Age, cancelling
<1> HIDE DEF e
<1>4. Store([slot EXCEPT ![i] = e])
  BY <1>1, <1>2, <1>3, KeepIsStore
<1>5. e.cancel => slot[i].session \in asked' /\ slot[i].session # 0
  BY <1>2, <1>3 DEF Table, GoodSlots, Shape
<1> QED
  BY <1>2, <1>3, <1>4, <1>5, OneSlotStaysTheSame

LEMMA CancelKeepsInvariant ==
  ASSUME IInv, NEW s \in Sessions, Cancel(s)
  PROVE  Table' /\ Actors'
<1> USE DEF IInv
<1>1. Reclaimed = slot /\ slot \in [Slots -> SlotType]
  BY NothingToReclaim DEF TypeOK
<1>2. UNCHANGED <<nextSession, worker, window>> /\ s # 0
  <2>1. UNCHANGED <<nextSession, worker, window>>
    BY DEF Cancel
  <2>2. s # 0
    BY DEF Sessions
  <2> QED
    BY <2>1, <2>2
<1>3. CASE Store(slot) /\ UNCHANGED cancelling
  <2>1. \A i \in Slots : slot[i].cancel => slot[i].session \in asked' /\ slot[i].session # 0
    BY <1>3 DEF Table, GoodSlots, Shape, cancelling
  <2> QED
    BY <1>1, <1>2, <1>3, <2>1, StoreOfTheSame DEF cancelling
<1>4. ASSUME NEW i \in Slots, slot[i].session = s,
             Store([slot EXCEPT ![i] = [@ EXCEPT !.cancel = TRUE, !.aged = FALSE]]),
             asked' = asked \cup {s}
      PROVE  Table' /\ Actors'
  <2> DEFINE e == [slot[i] EXCEPT !.cancel = TRUE, !.aged = FALSE]
  <2>1. /\ e \in SlotType /\ e.session = slot[i].session /\ e.generation = slot[i].generation
        /\ e.published = slot[i].published /\ e.state = slot[i].state
        /\ e.acknowledged = slot[i].acknowledged
    BY <1>1 DEF SlotType
  <2>2. Store([slot EXCEPT ![i] = e])
    BY <1>4
  <2> HIDE DEF e
  <2> QED
    BY <1>2, <1>4, <2>1, <2>2, OneSlotStaysTheSame
<1> QED
  BY <1>1, <1>3, <1>4 DEF Cancel, Matches

\* Worker steps that store nothing: they keep the worker's slot, or end it.
LEMMA WorkerWithoutTable ==
  ASSUME IInv, NEW s \in Sessions, KeepTable, UNCHANGED <<nextSession, asked, window>>,
         worker[s].at # "none", \A t \in Sessions \ {s} : worker'[t] = worker[t],
         worker'[s].at \in Running =>
           /\ worker[s].at \in Running /\ worker'[s].slot = worker[s].slot
           /\ worker'[s].generation = worker[s].generation
  PROVE  Table' /\ Actors'
<1>1. \A t \in Sessions : worker[t].at = "none" => worker'[t].at = "none"
  OBVIOUS
<1>2. \A t \in Sessions : worker'[t].at \in Running =>
        /\ worker[t].at \in Running /\ worker'[t].slot = worker[t].slot
        /\ worker'[t].generation = worker[t].generation
  OBVIOUS
<1>3. /\ \A o \in Owners : window'[o].inbox \subseteq window[o].inbox
      /\ \A o \in Owners : window'[o].at = "spawn" => window'[o] = window[o]
  OBVIOUS
<1> QED
  BY <1>1, <1>2, <1>3, StepWithoutTable

\* Where a worker goes.
LEMMA PlaceOfWorker ==
  ASSUME TypeOK, NEW s \in Sessions, NEW place, WorkerTo(s, place)
  PROVE  /\ worker'[s].at = place /\ \A t \in Sessions \ {s} : worker'[t] = worker[t]
         /\ place \in Running => /\ worker'[s].slot = worker[s].slot
                                 /\ worker'[s].generation = worker[s].generation
<1>1. worker \in [Sessions -> WorkerType]
  BY DEF TypeOK, WorkerType
<1>2. CASE place \in {"gone", "mute"}
  <2>1. worker' = [worker EXCEPT ![s] =
                    [@ EXCEPT !.at = place, !.slot = 1, !.owner = Nobody, !.result = "ok"]]
    BY <1>2 DEF WorkerTo
  <2> QED
    BY <1>1, <1>2, <2>1 DEF WorkerType, Running
<1>3. CASE place \notin {"gone", "mute"}
  <2>1. worker' = [worker EXCEPT ![s] = [@ EXCEPT !.at = place]]
    BY <1>3 DEF WorkerTo
  <2> QED
    BY <1>1, <2>1 DEF WorkerType
<1> QED
  BY <1>2, <1>3

LEMMA ClaimKeepsInvariant ==
  ASSUME IInv, NEW s \in Sessions, Claim(s)
  PROVE  Table' /\ Actors'
<1> USE DEF IInv
<1>1. Reclaimed = slot /\ slot \in [Slots -> SlotType] /\ s # 0 /\ worker[s].at = "starting"
  <2>1. s # 0
    BY DEF Sessions
  <2> QED
    BY <2>1, NothingToReclaim DEF TypeOK, Claim
<1>2. UNCHANGED <<nextSession, asked, window>>
  BY DEF Claim, cancelling
<1>3. CASE KeepTable /\ WorkerTo(s, "gone")
  BY <1>1, <1>2, <1>3, PlaceOfWorker, WorkerWithoutTable DEF Running
<1>4. CASE Store(slot) /\ WorkerTo(s, "gone")
  <2>1. KeepTable
    <3>1. Judged(slot) = verdict
      BY DEF Judged, Table, VerdictsPublished, TypeOK, Sessions
    <3> QED
      BY <1>4, <3>1 DEF Store, KeepTable
  <2> QED
    BY <1>3, <1>4, <2>1
<1>5. ASSUME NEW i \in Slots,
             Matches(slot[i], s, worker[s].generation), slot[i].state = "Dispatched",
             Store([slot EXCEPT ![i] = PublishStage([@ EXCEPT !.state = "Claimed"], 2)]),
             worker' = [worker EXCEPT ![s] = [@ EXCEPT !.at = "claimed", !.slot = i,
                                                      !.owner = slot[i].launcher]]
      PROVE  Table' /\ Actors'
  <2> DEFINE d == [slot[i] EXCEPT !.state = "Claimed"]
             e == PublishStage(d, 2)
  <2>1. /\ slot[i] \in SlotType /\ slot[i].published = 1 /\ slot[i].session = s
        /\ Shape(slot[i]) /\ (slot[i].cancel => s \in asked)
    BY <1>1, <1>5 DEF Table, GoodSlots, Shape, Matches
  <2>2. /\ d \in SlotType /\ d.state = "Claimed" /\ d.session = s /\ d.published = 1
        /\ d.generation = slot[i].generation /\ d.cancel = slot[i].cancel
        /\ d.acknowledged = slot[i].acknowledged
    BY <2>1 DEF SlotType, States
  <2> HIDE DEF d
  <2>3. /\ e \in SlotType /\ e.state = "Claimed" /\ e.session = s /\ e.published = 2
        /\ e.generation = slot[i].generation /\ e.cancel = slot[i].cancel
        /\ e.acknowledged = slot[i].acknowledged
    <3>1. e \in SlotType
      BY <2>2, PublishedStageIsSlot
    <3> QED
      BY <2>2, <3>1 DEF PublishStage, SlotType
  <2>4. Store([slot EXCEPT ![i] = e])
    BY <1>5 DEF d
  <2> HIDE DEF e
  <2>5. Follows(slot[i], e)
    BY <1>1, <2>1, <2>3 DEF Follows, Shape
  <2>6. /\ worker'[s].at = "claimed" /\ worker'[s].slot = i
        /\ worker'[s].generation = worker[s].generation
        /\ \A t \in Sessions \ {s} : worker'[t] = worker[t]
    <3>1. worker \in [Sessions -> WorkerType]
      BY DEF TypeOK, WorkerType
    <3> QED
      BY <1>5, <3>1 DEF WorkerType
  <2>7. \A t \in Sessions \ {s} : ~(worker[t].at \in Running /\ worker[t].slot = i)
    BY <2>1 DEF Actors, RunningSlots, StillMine, MySlot, Matches
  <2>8. Matches(e, s, worker'[s].generation)
    BY <1>5, <2>3, <2>6 DEF Matches
  <2>9. /\ e.cancel => e.session \in asked
        /\ \A t \in Sessions \ {s} : worker[t].at \in Running /\ worker[t].slot = i =>
             /\ e.session = slot[i].session /\ e.generation = slot[i].generation
             /\ e.state \in {"Claimed", "Completed"} /\ e.published = slot[i].published
        /\ worker'[s].at \in Running =>
             /\ worker'[s].slot = i /\ Matches(e, s, worker'[s].generation)
             /\ e.state \in {"Claimed", "Completed"} /\ e.published = 2
    BY <2>1, <2>3, <2>6, <2>7, <2>8
  <2>10. worker[s].at # "none" /\ \A t \in Sessions \ {s} : worker'[t] = worker[t]
    BY <1>1, <2>6
  <2>11. e \in SlotType
    BY <2>3
  <2> QED
    BY <1>2, <2>4, <2>5, <2>9, <2>10, <2>11, StoreByWorker
<1> QED
  BY <1>1, <1>3, <1>4, <1>5 DEF Claim

LEMMA WorkersKeepInvariant ==
  ASSUME IInv, NEW s \in Sessions, WorkerStep(s) \/ WatchStep(s) \/ Finish(s) \/ WorkerCrash(s)
  PROVE  Table' /\ Actors'
<1> USE DEF IInv
<1> DEFINE i == worker[s].slot
           e == slot[i]
<1>1. /\ slot \in [Slots -> SlotType] /\ worker \in [Sessions -> WorkerType]
      /\ i \in Slots /\ e \in SlotType /\ worker[s].result \in Outcomes
  BY DEF TypeOK, WorkerType
<1>2. /\ Shape(e) /\ (e.cancel => e.session \in asked)
      /\ e.published \in 0..3
  BY <1>1 DEF Table, GoodSlots, Shape, SlotType
<1>3. worker[s].at \in Running =>
        /\ e.session = s /\ e.generation = worker[s].generation /\ s # 0
        /\ e.state \in {"Claimed", "Completed"} /\ e.published = 2
        /\ \A t \in Sessions \ {s} : ~(worker[t].at \in Running /\ worker[t].slot = i)
  BY DEF Actors, RunningSlots, StillMine, MySlot, Matches, Sessions
\* The steps that store nothing.
<1>4. ASSUME NEW place, WorkerTo(s, place), KeepTable, UNCHANGED <<nextSession, asked, window>>,
             worker[s].at # "none", place \in Running => worker[s].at \in Running
      PROVE  Table' /\ Actors'
  BY <1>4, PlaceOfWorker, WorkerWithoutTable
<1>5. ASSUME NEW result, worker' = [worker EXCEPT ![s] = [@ EXCEPT !.at = "publish", !.result = result]],
             KeepTable, UNCHANGED <<nextSession, asked, window>>, worker[s].at \in Running
      PROVE  Table' /\ Actors'
  <2>1. /\ worker'[s].slot = worker[s].slot /\ worker'[s].generation = worker[s].generation
        /\ \A t \in Sessions \ {s} : worker'[t] = worker[t]
    BY <1>1, <1>5 DEF WorkerType
  <2> QED
    BY <1>5, <2>1, WorkerWithoutTable DEF Running
<1>6. CASE PostClaimed(s)
  BY <1>4, <1>6 DEF PostClaimed, Running, KeepTable, cancelling
<1>7. CASE PostCompleted(s)
  BY <1>4, <1>7 DEF PostCompleted, Running, KeepTable, cancelling
<1>8. CASE CheckMinimal(s)
  BY <1>4, <1>8 DEF CheckMinimal, Running, KeepTable, cancelling
<1>9. CASE WorkerCrash(s)
  BY <1>4, <1>9 DEF WorkerCrash, WorkerAlive, Running, KeepTable, cancelling
<1>10. CASE StartWatch(s)
  <2>1. KeepTable /\ UNCHANGED <<nextSession, asked, window>> /\ worker[s].at = "watching"
    BY <1>10 DEF StartWatch, KeepTable, cancelling
  <2>2. \/ WorkerTo(s, "working")
        \/ worker' = [worker EXCEPT ![s] = [@ EXCEPT !.at = "publish", !.result = "canceled"]]
    BY <1>10 DEF StartWatch
  <2> QED
    BY <1>4, <1>5, <2>1, <2>2 DEF Running
<1>11. CASE Finish(s)
  BY <1>5, <1>11 DEF Finish, KeepTable, cancelling, Running
<1>12. CASE WatchStep(s)
  <2>1. KeepTable /\ UNCHANGED <<nextSession, asked, window, worker>>
    BY <1>12 DEF WatchStep, WatchWakes, WatchAsks, KeepTable, cancelling
  <2> QED
    BY <2>1, StepWithoutTable
\* The steps that store.
<1>13. CASE Publish(s)
  <2>1. UNCHANGED <<nextSession, asked, window>> /\ worker[s].at = "publish"
    BY <1>13 DEF Publish, cancelling
  <2>2. CASE KeepTable /\ (WorkerTo(s, "gone") \/ WorkerTo(s, "minimal"))
    BY <1>4, <2>1, <2>2 DEF Running
  <2>3. CASE Store([slot EXCEPT ![i] = PublishCompletion(@, worker[s].result)]) /\ WorkerTo(s, "post")
    <3> DEFINE d == PublishCompletion(e, worker[s].result)
    <3>1. /\ d \in SlotType /\ d.published = 3 /\ d.state = "Completed"
          /\ d.session = e.session /\ d.acknowledged = e.acknowledged /\ d.cancel = e.cancel
      BY <1>1, CompletionIsSlot DEF Results, Outcomes
    <3>2. Store([slot EXCEPT ![i] = d])
      BY <2>3
    <3> HIDE DEF d
    <3>3. Follows(e, d)
      BY <1>2, <1>3, <2>1, <3>1 DEF Follows, Shape, Running
    <3>4. /\ worker'[s].at \notin Running
          /\ \A t \in Sessions \ {s} : worker'[t] = worker[t]
      BY <2>3, PlaceOfWorker DEF Running
    <3>5. \A t \in Sessions \ {s} : ~(worker[t].at \in Running /\ worker[t].slot = i)
      BY <1>3, <2>1 DEF Running
    <3>6. /\ d.cancel => d.session \in asked
          /\ \A t \in Sessions \ {s} : worker[t].at \in Running /\ worker[t].slot = i =>
               /\ d.session = slot[i].session /\ d.generation = slot[i].generation
               /\ d.state \in {"Claimed", "Completed"} /\ d.published = slot[i].published
          /\ worker'[s].at \in Running =>
               /\ worker'[s].slot = i /\ Matches(d, s, worker'[s].generation)
               /\ d.state \in {"Claimed", "Completed"} /\ d.published = 2
      BY <1>2, <3>1, <3>4, <3>5
    <3>7. d \in SlotType /\ worker[s].at # "none"
      BY <2>1, <3>1
    <3> HIDE DEF i, e
    <3> QED
      BY <1>1, <2>1, <3>2, <3>3, <3>4, <3>6, <3>7, StoreByWorker DEF e
  <2> QED
    BY <1>13, <2>2, <2>3 DEF Publish
<1>14. CASE StoreResult(s)
  <2> DEFINE d == [e EXCEPT !.result = worker[s].result, !.aged = FALSE]
  <2>1. UNCHANGED <<nextSession, asked, window>> /\ worker[s].at = "store_result"
    BY <1>14 DEF StoreResult, cancelling
  <2>2. /\ d \in SlotType /\ d.published = e.published /\ d.state = e.state
        /\ d.session = e.session /\ d.acknowledged = e.acknowledged /\ d.cancel = e.cancel
        /\ d.generation = e.generation
    BY <1>1 DEF SlotType, Results, Outcomes
  <2>3. Store([slot EXCEPT ![i] = d]) /\ WorkerTo(s, "store_event")
    BY <1>14 DEF StoreResult
  <2> HIDE DEF d
  <2>4. Follows(e, d)
    BY <1>2, <2>2 DEF Follows, Shape
  <2>5. /\ worker'[s].slot = i /\ worker'[s].generation = worker[s].generation
        /\ \A t \in Sessions \ {s} : worker'[t] = worker[t]
    BY <2>3, PlaceOfWorker DEF Running
  <2>6. /\ e.session = s /\ e.generation = worker[s].generation
        /\ e.state \in {"Claimed", "Completed"} /\ e.published = 2
        /\ \A t \in Sessions \ {s} : ~(worker[t].at \in Running /\ worker[t].slot = i)
    BY <1>3, <2>1 DEF Running
  <2>7. Matches(d, s, worker'[s].generation)
    BY <2>2, <2>5, <2>6 DEF Matches
  <2>8. /\ d.cancel => d.session \in asked
        /\ \A t \in Sessions \ {s} : worker[t].at \in Running /\ worker[t].slot = i =>
             /\ d.session = slot[i].session /\ d.generation = slot[i].generation
             /\ d.state \in {"Claimed", "Completed"} /\ d.published = slot[i].published
        /\ worker'[s].at \in Running =>
             /\ worker'[s].slot = i /\ Matches(d, s, worker'[s].generation)
             /\ d.state \in {"Claimed", "Completed"} /\ d.published = 2
    BY <1>2, <2>2, <2>5, <2>6, <2>7
  <2>9. /\ d \in SlotType /\ worker[s].at # "none" /\ Follows(slot[i], d)
        /\ \A t \in Sessions \ {s} : worker'[t] = worker[t]
        /\ UNCHANGED <<nextSession, asked, window>>
    BY <2>1, <2>2, <2>4, <2>5
  <2> HIDE DEF i, e
  <2> QED
    BY <1>1, <2>3, <2>8, <2>9, StoreByWorker
<1>15. CASE StoreEvent(s)
  <2> DEFINE d == [e EXCEPT !.published = 3]
  <2>1. UNCHANGED <<nextSession, asked, window>> /\ worker[s].at = "store_event"
    BY <1>15 DEF StoreEvent, cancelling
  <2>2. /\ d \in SlotType /\ d.published = 3 /\ d.state = e.state
        /\ d.session = e.session /\ d.acknowledged = e.acknowledged /\ d.cancel = e.cancel
    <3>1. 3 \in 0..3
      OBVIOUS
    <3> QED
      BY <1>1, <3>1 DEF SlotType
  <2>3. Store([slot EXCEPT ![i] = d]) /\ WorkerTo(s, "store_state")
    BY <1>15 DEF StoreEvent
  <2> HIDE DEF d
  <2>4. /\ e.session # 0 /\ e.state \in {"Claimed", "Completed"}
        /\ \A t \in Sessions \ {s} : ~(worker[t].at \in Running /\ worker[t].slot = i)
    BY <1>3, <2>1 DEF Running
  <2>5. Follows(e, d)
    BY <1>2, <2>2, <2>4 DEF Follows, Shape
  <2>6. /\ worker'[s].at \notin Running
        /\ \A t \in Sessions \ {s} : worker'[t] = worker[t]
    BY <2>3, PlaceOfWorker DEF Running
  <2>7. /\ d.cancel => d.session \in asked
        /\ \A t \in Sessions \ {s} : worker[t].at \in Running /\ worker[t].slot = i =>
             /\ d.session = slot[i].session /\ d.generation = slot[i].generation
             /\ d.state \in {"Claimed", "Completed"} /\ d.published = slot[i].published
        /\ worker'[s].at \in Running =>
             /\ worker'[s].slot = i /\ Matches(d, s, worker'[s].generation)
             /\ d.state \in {"Claimed", "Completed"} /\ d.published = 2
    BY <1>2, <2>2, <2>4, <2>6
  <2> QED
    BY <1>1, <2>1, <2>2, <2>3, <2>5, <2>6, <2>7, StoreByWorker
\* The slot may be another worker's by now.
<1>16. CASE StoreState(s)
  <2> DEFINE d == [e EXCEPT !.state = "Completed"]
  <2>1. UNCHANGED <<nextSession, asked, window>> /\ worker[s].at = "store_state"
    BY <1>16 DEF StoreState, cancelling
  <2>2. /\ d \in SlotType /\ d.published = e.published /\ d.state = "Completed"
        /\ d.session = e.session /\ d.acknowledged = e.acknowledged /\ d.cancel = e.cancel
        /\ d.generation = e.generation
    BY <1>1 DEF SlotType, States
  <2>3. Store([slot EXCEPT ![i] = d]) /\ WorkerTo(s, "post")
    BY <1>16 DEF StoreState
  <2> HIDE DEF d
  <2>4. Follows(e, d)
    BY <1>2, <2>2 DEF Follows, Shape
  <2>5. /\ worker'[s].at \notin Running
        /\ \A t \in Sessions \ {s} : worker'[t] = worker[t]
    BY <2>3, PlaceOfWorker DEF Running
  <2>6. /\ d.cancel => d.session \in asked
        /\ \A t \in Sessions \ {s} : worker[t].at \in Running /\ worker[t].slot = i =>
             /\ d.session = slot[i].session /\ d.generation = slot[i].generation
             /\ d.state \in {"Claimed", "Completed"} /\ d.published = slot[i].published
        /\ worker'[s].at \in Running =>
             /\ worker'[s].slot = i /\ Matches(d, s, worker'[s].generation)
             /\ d.state \in {"Claimed", "Completed"} /\ d.published = 2
    BY <1>2, <2>2, <2>5
  <2>7. d \in SlotType /\ worker[s].at # "none"
    BY <2>1, <2>2
  <2> HIDE DEF i, e
  <2> QED
    BY <1>1, <2>1, <2>3, <2>4, <2>5, <2>6, <2>7, StoreByWorker DEF e
<1> QED
  BY <1>6, <1>7, <1>8, <1>9, <1>10, <1>11, <1>12, <1>13, <1>14, <1>15, <1>16, ClaimKeepsInvariant
     DEF WorkerStep

-----------------------------------------------------------------------------
(* The theorems.                                                           *)

\* A cancel waiter asks the slot of its own session.
LEMMA StepCancelsOnlyAsked ==
  ASSUME IInv, [Next]_vars
  PROVE  NoForeignCancel'
<1> USE DEF IInv
<1>1. asked \subseteq asked'
  <2>1. ASSUME NEW s \in Sessions, Cancel(s) PROVE asked \subseteq asked'
    BY <2>1 DEF Cancel, cancelling
  <2> QED
    BY <2>1 DEF Next, WindowStep, WorkerStep, WatchStep, vars, cancelling, Reserve, Spawn, SpawnFails,
       Record, PostDispatched, Poll, Handle, Scan, OwnerCrash, Age, Claim, PostClaimed, StartWatch,
       WatchWakes, WatchAsks, Finish, Publish, CheckMinimal, StoreResult, StoreEvent, StoreState,
       PostCompleted, WorkerCrash
<1>2. ASSUME NEW s \in Sessions, watch'[s] = "canceled" PROVE watch[s] = "canceled" \/ s \in asked
  <2>1. CASE StillMine(s) /\ MySlot(s).cancel
    <3>1. worker[s].slot \in Slots
      BY DEF TypeOK
    <3> QED
      BY <2>1, <3>1 DEF StillMine, MySlot, Matches, Table, GoodSlots
  <2>2. CASE UNCHANGED watch
    BY <1>2, <2>2
  <2>3. ASSUME NEW t \in Sessions, StartWatch(t) \/ WatchStep(t)
        PROVE  watch[s] = "canceled" \/ (StillMine(s) /\ MySlot(s).cancel)
    <3>1. watch \in [Sessions -> {"off", "waiting", "woken", "lost", "canceled"}]
      BY DEF TypeOK
    <3> QED
      BY <1>2, <2>3, <3>1 DEF StartWatch, WatchStep, WatchWakes, WatchAsks
  <2>4. UNCHANGED watch \/ \E t \in Sessions : StartWatch(t) \/ WatchStep(t)
    BY DEF Next, WindowStep, WorkerStep, vars, told, Reserve, Spawn, SpawnFails,
       Record, PostDispatched, Poll, Handle, Scan, OwnerCrash, Age, Cancel, Claim, PostClaimed,
       Finish, Publish, CheckMinimal, StoreResult, StoreEvent, StoreState, PostCompleted, WorkerCrash
  <2> QED
    BY <2>1, <2>2, <2>3, <2>4
<1> QED
  BY <1>1, <1>2 DEF NoForeignCancel

LEMMA InitHasInvariant == Init => IInv
<1> SUFFICES ASSUME Init PROVE IInv
  OBVIOUS
<1>1. TypeOK
  BY InitIsTyped
<1>2. Table
  BY DEF Init, Table, GoodSlots, Shape, SessionsDiffer, VerdictsPublished, EmptySlot
<1>3. Actors
  BY DEF Init, Actors, FutureSessions, EventsPublished, WaitingSpawns, RunningSlots, Running, IdleWindow
<1>4. NoForeignCancel
  BY DEF Init, NoForeignCancel
<1> QED
  BY <1>1, <1>2, <1>3, <1>4 DEF IInv

LEMMA StepKeepsInvariant == IInv /\ [Next]_vars => IInv'
<1> SUFFICES ASSUME IInv, [Next]_vars PROVE IInv'
  OBVIOUS
<1>1. TypeOK' /\ NoForeignCancel'
  BY StepKeepsTypes, StepCancelsOnlyAsked DEF IInv
<1>2. CASE UNCHANGED vars
  <2>1. KeepTable /\ UNCHANGED <<nextSession, asked, window, worker>>
    BY <1>2 DEF vars, KeepTable
  <2> QED
    BY <1>1, <2>1, StepWithoutTable DEF IInv
<1>3. ASSUME NEW o \in Owners, Reserve(o) \/ WindowStep(o) \/ Scan(o) \/ OwnerCrash(o)
      PROVE  Table' /\ Actors'
  BY <1>1, <1>3, ReserveKeepsInvariant, SpawnKeepsInvariant, SpawnFailsKeepsInvariant,
     RecordKeepsInvariant, PollKeepsInvariant, HandleKeepsInvariant, ScanKeepsInvariant,
     CrashKeepsInvariant DEF WindowStep
<1>4. ASSUME NEW s \in Sessions,
             Cancel(s) \/ WorkerStep(s) \/ Finish(s) \/ WatchStep(s) \/ WorkerCrash(s)
      PROVE  Table' /\ Actors'
  BY <1>4, CancelKeepsInvariant, WorkersKeepInvariant
<1>5. ASSUME NEW i \in Slots, Age(i) PROVE Table' /\ Actors'
  BY <1>5, AgeKeepsInvariant
<1> QED
  BY <1>1, <1>2, <1>3, <1>4, <1>5 DEF Next, IInv

\* The table, the places of windows and workers and the histories keep their
\* types; no generation becomes 0, the value that clear_slot skips.
THEOREM TypeCorrect == Spec => []TypeOK
<1>1. Init => TypeOK
  BY InitIsTyped
<1>2. TypeOK /\ [Next]_vars => TypeOK'
  BY StepKeepsTypes
<1> QED
  BY <1>1, <1>2, PTL DEF Spec

\* The inductive invariant of the table holds.
THEOREM TableInvariant == Spec => []IInv
<1> QED
  BY InitHasInvariant, StepKeepsInvariant, PTL DEF Spec

\* Neither the unclaimed timeout nor the exit monitor of any launcher speaks for
\* a task that a live worker runs, whatever other tasks do to its slot.
THEOREM WorkersRunUnjudged == Spec => []NoRunAfterVerdict
<1>1. IInv => NoRunAfterVerdict
  BY DEF IInv, Actors, RunningSlots, NoRunAfterVerdict
<1> QED
  BY <1>1, TableInvariant, PTL

\* No worker is canceled for the sake of another task, though a slot is filled
\* again without resetting its cancel_requested.
THEOREM CanceledOnlyIfAsked == Spec => []NoForeignCancel
<1>1. IInv => NoForeignCancel
  BY DEF IInv
<1> QED
  BY <1>1, TableInvariant, PTL

-----------------------------------------------------------------------------
(* The lifecycle.                                                          *)

\* What a slot that holds a task says is so: its event was published, what was
\* acknowledged was heard, and its result is the verdict once it is over.
Sound(e) ==
  e.session # 0 =>
    /\ e.published # 0 /\ e.acknowledged <= heard[e.session]
    /\ e.state = "Claimed" => e.published >= 2
    /\ e.published = 2 => worker[e.session].at # "none"
    /\ e.published < 3 => e.result \in Outcomes
    /\ e.published = 3 => verdict[e.session] = e.result

SoundSlots == \A i \in Slots : Sound(slot[i])

\* The task of a launcher that has yet to start the worker is its own, and
\* nobody hears of it meanwhile.
SpawnWaits ==
  \A o \in Owners : window[o].at = "spawn" =>
    /\ \A i \in Slots : slot[i].session = window[o].session => slot[i].launcher = o
    /\ \A p \in Owners : \A event \in window[p].inbox : event.session # window[o].session

\* What was collected was published, and has no gap up to what was heard.
Collected(inbox, event) ==
  /\ event.session \in Sessions
  /\ event.kind <= stageOf[event.session]
  /\ stageOf[event.session] = 3 => verdict[event.session] # "none"
  /\ event.kind = 3 => event.result = verdict[event.session]
  /\ \A k \in 1..event.kind : k < event.kind /\ heard[event.session] < k =>
       \E other \in inbox : other.session = event.session /\ other.kind = k

InboxInOrder == \A o \in Owners : \A event \in window[o].inbox : Collected(window[o].inbox, event)

HeardInOrder ==
  \A s \in Sessions : heard[s] = 3 => toldAs[s] = verdict[s] /\ verdict[s] # "none"

Stages == SoundSlots /\ SpawnWaits /\ InboxInOrder /\ HeardInOrder

\* A step of the table is one of the lifecycle, or none.
Steady == [Lifecycle!Next]_Lifecycle!lifecycleVars

\* The stage of a task, read off the table sl.
LEMMA StageRead ==
  ASSUME NEW sl, NEW next \in Int, NEW s \in Sessions,
         \A i, j \in Slots : sl[i].session = sl[j].session => i = j \/ sl[i].session = 0,
         \A i \in Slots : sl[i].session < next
  PROVE  LET stage == IF s >= next THEN 0
                      ELSE IF \E i \in Slots : sl[i].session = s
                      THEN sl[CHOOSE i \in Slots : sl[i].session = s].published
                      ELSE 3
         IN  /\ s >= next => stage = 0
             /\ \A i \in Slots : sl[i].session = s => stage = sl[i].published /\ s < next
             /\ s < next /\ (\A i \in Slots : sl[i].session # s) => stage = 3
<1>1. s \in Int /\ s # 0
  BY DEF Sessions
<1>2. ASSUME NEW i \in Slots, sl[i].session = s
      PROVE  (CHOOSE j \in Slots : sl[j].session = s) = i /\ s < next /\ ~(s >= next)
  BY <1>1, <1>2
<1> QED
  BY <1>1, <1>2

LEMMA StageOfSession ==
  ASSUME IInv, NEW s \in Sessions
  PROVE  /\ s >= nextSession => stageOf[s] = 0
         /\ \A i \in Slots : slot[i].session = s => stageOf[s] = slot[i].published /\ s < nextSession
         /\ s < nextSession /\ (\A i \in Slots : slot[i].session # s) => stageOf[s] = 3
<1>1. /\ nextSession \in Int
      /\ \A i, j \in Slots : slot[i].session = slot[j].session => i = j \/ slot[i].session = 0
      /\ \A i \in Slots : slot[i].session < nextSession
  BY DEF IInv, TypeOK, Table, SessionsDiffer, GoodSlots
<1> QED
  BY <1>1, StageRead DEF stageOf

LEMMA NextStageOfSession ==
  ASSUME IInv', NEW s \in Sessions
  PROVE  /\ s >= nextSession' => stageOf'[s] = 0
         /\ \A i \in Slots : slot'[i].session = s =>
              stageOf'[s] = slot'[i].published /\ s < nextSession'
         /\ s < nextSession' /\ (\A i \in Slots : slot'[i].session # s) => stageOf'[s] = 3
<1>1. /\ nextSession' \in Int
      /\ \A i, j \in Slots : slot'[i].session = slot'[j].session => i = j \/ slot'[i].session = 0
      /\ \A i \in Slots : slot'[i].session < nextSession'
  BY DEF IInv, TypeOK, Table, SessionsDiffer, GoodSlots
<1> QED
  BY <1>1, StageRead DEF stageOf

LEMMA StagesAreTyped ==
  ASSUME IInv, IInv', NEW s \in Sessions
  PROVE  stageOf[s] \in 0..3 /\ stageOf'[s] \in 0..3
<1>1. /\ \A i \in Slots : slot[i].published \in 0..3 /\ slot'[i].published \in 0..3
      /\ s \in Int /\ nextSession \in Int /\ nextSession' \in Int
  BY DEF IInv, TypeOK, SlotType, Sessions
<1>2. stageOf[s] \in 0..3
  BY <1>1, StageOfSession
<1>3. stageOf'[s] \in 0..3
  BY <1>1, NextStageOfSession
<1> QED
  BY <1>2, <1>3

\* e in the place of d: its task goes on, stays where it is, or leaves.
Advances(d, e) ==
  \/ /\ e.session = d.session /\ e.launcher = d.launcher
     /\ e.acknowledged = d.acknowledged /\ e.published = d.published
     /\ e.state \in {d.state, "Completed"}
     /\ e.result = d.result \/ (d.published < 3 /\ e.result \in Outcomes)
  \/ /\ e.session = d.session /\ e.launcher = d.launcher
     /\ e.acknowledged = d.acknowledged /\ d.published < e.published
     /\ d.session # 0 /\ (e.published < 3 => e.result \in Outcomes)
  \/ /\ e.session = 0 /\ d.session # 0
     /\ \/ d.published = 3
        \/ \A o \in Owners : \A event \in window[o].inbox : event.session # d.session

\* What a store of such slots does to stages and verdicts.
LEMMA StagesAdvance ==
  ASSUME IInv, IInv', Stages, Store(slot'), UNCHANGED nextSession,
         \A i \in Slots : Advances(slot[i], slot'[i]),
         NEW s \in Sessions
  PROVE  /\ (\A i \in Slots : slot[i].session = s =>
               slot'[i].session = s /\ slot'[i].published = slot[i].published) =>
              stageOf'[s] = stageOf[s] /\ verdict'[s] = verdict[s]
         /\ \A i \in Slots : slot[i].session = s =>
              /\ stageOf[s] = slot[i].published
              /\ slot'[i].session = s => stageOf'[s] = slot'[i].published
              /\ slot'[i].session = 0 => stageOf'[s] = 3 /\ verdict'[s] = verdict[s]
              /\ slot'[i].session = s /\ slot'[i].published < 3 => verdict'[s] = verdict[s]
              /\ slot'[i].session = s /\ slot[i].published < 3 /\ slot'[i].published = 3 =>
                   verdict'[s] = slot'[i].result /\ slot'[i].result # "none"
         /\ stageOf[s] <= stageOf'[s]
         /\ verdict[s] # "none" => verdict'[s] = verdict[s]
<1>1. /\ slot \in [Slots -> SlotType] /\ slot' \in [Slots -> SlotType]
      /\ verdict \in [Sessions -> Results] /\ nextSession \in Int /\ s \in Int /\ s # 0
      /\ verdict' = Judged(slot')
  BY DEF IInv, TypeOK, Store, Sessions
<1>2. \A i \in Slots : slot'[i].session \in {slot[i].session, 0}
  BY DEF Advances
<1>3. /\ \A i \in Slots : slot[i].session # 0 => (slot[i].published = 3 <=> verdict[slot[i].session] # "none")
      /\ \A i, j \in Slots : slot'[i].session = slot'[j].session => i = j \/ slot'[i].session = 0
      /\ \A i, j \in Slots : slot[i].session = slot[j].session => i = j \/ slot[i].session = 0
  BY DEF IInv, Table, VerdictsPublished, SessionsDiffer
<1>4. verdict[s] # "none" => verdict'[s] = verdict[s]
  BY <1>1 DEF Judged
<1>5. ASSUME ~\E i \in Slots : slot'[i].session = s /\ slot'[i].published = 3
      PROVE  verdict'[s] = verdict[s]
  BY <1>1, <1>5 DEF Judged
<1>6. ASSUME NEW i \in Slots, slot[i].session = s
      PROVE  /\ stageOf[s] = slot[i].published /\ s < nextSession
             /\ slot'[i].session = s => stageOf'[s] = slot'[i].published
             /\ slot'[i].session = 0 => stageOf'[s] = 3 /\ verdict'[s] = verdict[s]
             /\ slot'[i].session = s /\ slot'[i].published < 3 => verdict'[s] = verdict[s]
             /\ slot'[i].session = s /\ slot[i].published < 3 /\ slot'[i].published = 3 =>
                  verdict'[s] = slot'[i].result /\ slot'[i].result # "none"
  <2>1. stageOf[s] = slot[i].published /\ s < nextSession
    BY <1>6, StageOfSession
  <2>2. \A j \in Slots : slot'[j].session = s => j = i
    BY <1>1, <1>2, <1>3, <1>6
  <2>3. slot'[i].session = s => stageOf'[s] = slot'[i].published
    BY NextStageOfSession
  <2>4. slot'[i].session = 0 => stageOf'[s] = 3 /\ verdict'[s] = verdict[s]
    BY <1>1, <1>5, <2>1, <2>2, NextStageOfSession
  <2>5. slot'[i].published < 3 => verdict'[s] = verdict[s]
    BY <1>5, <2>2
  <2>6. ASSUME slot'[i].session = s, slot[i].published < 3, slot'[i].published = 3
        PROVE  verdict'[s] = slot'[i].result /\ slot'[i].result # "none"
    <3>1. verdict[s] = "none"
      BY <1>1, <1>3, <1>6, <2>6
    <3>2. (CHOOSE j \in Slots : slot'[j].session = s /\ slot'[j].published = 3) = i
      BY <2>2, <2>6
    <3>3. slot'[i].result # "none"
      BY <1>1 DEF SlotType
    <3> QED
      BY <1>1, <2>6, <3>1, <3>2, <3>3 DEF Judged
  <2> QED
    BY <2>1, <2>3, <2>4, <2>5, <2>6
<1>7. ASSUME \A i \in Slots : slot[i].session = s =>
               slot'[i].session = s /\ slot'[i].published = slot[i].published
      PROVE  stageOf'[s] = stageOf[s] /\ verdict'[s] = verdict[s]
  <2>1. CASE \E i \in Slots : slot[i].session = s
    <3>1. PICK i \in Slots : slot[i].session = s
      BY <2>1
    <3>2. stageOf'[s] = stageOf[s]
      BY <1>6, <1>7, <3>1
    <3>3. verdict[s] = "none" => slot'[i].published < 3
      BY <1>1, <1>3, <1>7, <3>1 DEF SlotType
    <3> QED
      BY <1>4, <1>6, <1>7, <3>1, <3>2, <3>3
  <2>2. CASE \A i \in Slots : slot[i].session # s
    <3>1. \A i \in Slots : slot'[i].session # s
      BY <1>1, <1>2, <2>2
    <3>2. stageOf'[s] = stageOf[s]
      BY <1>1, <2>2, <3>1, StageOfSession, NextStageOfSession
    <3> QED
      BY <1>5, <3>1, <3>2
  <2> QED
    BY <2>1, <2>2
<1>8. stageOf[s] <= stageOf'[s]
  <2>1. CASE \E i \in Slots : slot[i].session = s
    <3>1. PICK i \in Slots : slot[i].session = s
      BY <2>1
    <3>2. slot[i].published \in 0..3 /\ slot'[i].published \in 0..3
      BY <1>1 DEF SlotType
    <3>3. slot'[i].session = s => slot[i].published <= slot'[i].published
      BY <1>1, <3>2 DEF Advances
    <3> QED
      BY <1>2, <1>6, <3>1, <3>2, <3>3
  <2>2. CASE \A i \in Slots : slot[i].session # s
    <3>1. stageOf[s] \in {0, 3}
      BY <1>1, <2>2, StageOfSession
    <3> QED
      BY <1>7, <2>2, <3>1
  <2> QED
    BY <2>1, <2>2
<1> QED
  BY <1>4, <1>6, <1>7, <1>8

\* Steps that move tasks on and hear of nothing keep the invariant.
LEMMA AdvanceKeepsStages ==
  ASSUME IInv, IInv', Stages, Store(slot'), UNCHANGED <<nextSession, told>>,
         \A i \in Slots : Advances(slot[i], slot'[i]),
         \A i \in Slots : slot'[i].session # 0 =>
           /\ slot'[i].state = "Claimed" => slot'[i].published >= 2
           /\ slot'[i].published = 2 => worker'[slot'[i].session].at # "none",
         \A o \in Owners : /\ window'[o].inbox \in {window[o].inbox, {}}
                           /\ window'[o].at = "spawn" => window'[o] = window[o]
  PROVE  Stages'
<1>1. /\ slot \in [Slots -> SlotType] /\ slot' \in [Slots -> SlotType]
      /\ heard \in [Sessions -> 0..3] /\ UNCHANGED <<heard, toldAs>>
  BY DEF IInv, TypeOK, told
<1>2. SoundSlots'
  <2> SUFFICES ASSUME NEW i \in Slots PROVE Sound(slot[i])'
    BY DEF SoundSlots
  <2> DEFINE d == slot[i]
             e == slot'[i]
  <2>1. d \in SlotType /\ e \in SlotType /\ Sound(d) /\ Advances(d, e)
    BY <1>1 DEF Stages, SoundSlots
  <2>2. /\ d.published \in 0..3 /\ e.published \in 0..3 /\ d.session \in Sessions \cup {0}
        /\ d.result # "none" /\ e.result # "none" /\ d.result \in Results
    BY <2>1 DEF SlotType
  <2>3. e.session = 0 \/ e.session = d.session
    BY <2>1 DEF Advances
  <2>4. CASE e.session = 0
    BY <2>4 DEF Sound
  <2>5. CASE e.session # 0
    <3> DEFINE s == d.session
    <3>1. s \in Sessions /\ e.session = s
      BY <2>2, <2>3, <2>5
    <3>2. /\ e.published < 3 => verdict'[s] = verdict[s]
          /\ d.published < 3 /\ e.published = 3 => verdict'[s] = e.result
          /\ verdict[s] # "none" => verdict'[s] = verdict[s]
      BY <3>1, StagesAdvance
    <3>3. e.published # 0 /\ e.acknowledged <= heard'[s]
      BY <1>1, <2>1, <2>2, <2>5, <3>1 DEF Advances, Sound
    <3>4. e.published < 3 => e.result \in Outcomes
      BY <2>1, <2>2, <2>5, <3>1 DEF Advances, Sound
    <3>5. ASSUME e.published = 3 PROVE verdict'[s] = e.result
      <4>1. CASE d.published < 3
        BY <3>2, <3>5, <4>1
      <4>2. CASE d.published = 3
        <5>1. e.result = d.result
          BY <2>1, <2>2, <2>5, <3>5, <4>2 DEF Advances
        <5>2. verdict[s] = d.result
          BY <2>1, <2>5, <3>1, <4>2 DEF Sound
        <5> QED
          BY <2>2, <3>2, <5>1, <5>2
      <4> QED
        BY <2>2, <4>1, <4>2
    <3>6. /\ e.state = "Claimed" => e.published >= 2
          /\ e.published = 2 => worker'[e.session].at # "none"
      BY <2>5
    <3> QED
      BY <3>1, <3>3, <3>4, <3>5, <3>6 DEF Sound
  <2> QED
    BY <2>4, <2>5
<1>3. SpawnWaits'
  <2> SUFFICES ASSUME NEW o \in Owners, window'[o].at = "spawn"
               PROVE  /\ \A i \in Slots : slot'[i].session = window'[o].session =>
                           slot'[i].launcher = o
                      /\ \A p \in Owners : \A event \in window'[p].inbox :
                           event.session # window'[o].session
    BY DEF SpawnWaits
  <2>1. /\ window'[o] = window[o]
        /\ \A i \in Slots : slot[i].session = window[o].session => slot[i].launcher = o
        /\ \A p \in Owners : \A event \in window[p].inbox : event.session # window[o].session
    BY DEF Stages, SpawnWaits
  <2>2. window[o].session # 0
    BY <2>1 DEF IInv, Actors, WaitingSpawns, Sessions
  <2>3. \A i \in Slots :
          \/ slot'[i].session = 0
          \/ (slot'[i].session = slot[i].session /\ slot'[i].launcher = slot[i].launcher)
    BY DEF Advances
  <2>4. ASSUME NEW i \in Slots, slot'[i].session = window[o].session PROVE slot'[i].launcher = o
    <3>1. slot'[i].session = slot[i].session /\ slot'[i].launcher = slot[i].launcher
      BY <2>2, <2>3, <2>4
    <3> QED
      BY <2>1, <2>4, <3>1
  <2>5. \A p \in Owners : \A event \in window'[p].inbox : event \in window[p].inbox
    OBVIOUS
  <2> QED
    BY <2>1, <2>4, <2>5
<1>4. InboxInOrder'
  <2> SUFFICES ASSUME NEW o \in Owners, NEW event \in window'[o].inbox
               PROVE  Collected(window[o].inbox, event)'
    <3>1. \A o \in Owners : \A event \in window'[o].inbox : window'[o].inbox = window[o].inbox
      OBVIOUS
    <3> QED
      BY <3>1 DEF InboxInOrder
  <2>1. event \in window[o].inbox /\ window'[o].inbox = window[o].inbox
    OBVIOUS
  <2>2. Collected(window[o].inbox, event)
    BY <2>1 DEF Stages, InboxInOrder
  <2> DEFINE s == event.session
  <2>3. s \in Sessions /\ event.kind \in 1..3
    BY <2>1, <2>2 DEF Collected, IInv, TypeOK, EventType
  <2>4. /\ stageOf[s] <= stageOf'[s] /\ (verdict[s] # "none" => verdict'[s] = verdict[s])
    BY <2>3, StagesAdvance
  <2>5. stageOf[s] \in 0..3 /\ stageOf'[s] \in 0..3
    BY <2>3, StagesAreTyped
  <2>6. event.kind <= stageOf'[s]
    BY <2>2, <2>3, <2>4, <2>5 DEF Collected
  <2>7. event.kind = 3 => event.result = verdict'[s]
    BY <2>2, <2>3, <2>4, <2>5 DEF Collected
  <2>8. ASSUME stageOf'[s] = 3 PROVE verdict'[s] # "none"
    <3>1. CASE stageOf[s] = 3
      BY <2>2, <2>4, <3>1 DEF Collected
    <3>2. CASE stageOf[s] # 3
      <4>1. PICK i \in Slots : slot[i].session = s
        <5>1. ASSUME \A i \in Slots : slot[i].session # s PROVE FALSE
          <6>1. /\ event.kind <= stageOf[s] /\ s \in Int /\ nextSession \in Int
            BY <2>2, <2>3 DEF Collected, Sessions, IInv, TypeOK
          <6> QED
            BY <2>3, <3>2, <5>1, <6>1, StageOfSession
        <5> QED
          BY <5>1
      <4>2. slot[i] \in SlotType /\ slot'[i] \in SlotType /\ slot[i].published < 3
        <5>1. stageOf[s] = slot[i].published
          BY <2>3, <4>1, StageOfSession
        <5> QED
          BY <1>1, <2>5, <3>2, <5>1
      <4>3. slot'[i].session = s
        <5>1. Advances(slot[i], slot'[i])
          OBVIOUS
        <5> QED
          BY <2>1, <4>1, <4>2, <5>1 DEF Advances
      <4>4. slot'[i].published = 3
        BY <2>3, <2>8, <4>1, <4>3, StagesAdvance
      <4> QED
        BY <2>3, <4>1, <4>2, <4>3, <4>4, StagesAdvance
    <3> QED
      BY <3>1, <3>2
  <2> QED
    BY <1>1, <2>2, <2>6, <2>7, <2>8, <2>1 DEF Collected
<1>5. HeardInOrder'
  <2>1. \A s \in Sessions : verdict[s] # "none" => verdict'[s] = verdict[s]
    BY StagesAdvance
  <2> QED
    BY <1>1, <2>1 DEF Stages, HeardInOrder
<1> QED
  BY <1>2, <1>3, <1>4, <1>5 DEF Stages

\* Steps that publish nothing and clear nothing are no steps of the lifecycle.
LEMMA RestIsSteady ==
  ASSUME IInv, IInv', Stages, Store(slot'), UNCHANGED <<nextSession, told>>,
         \A i \in Slots : /\ Advances(slot[i], slot'[i])
                          /\ slot'[i].session = slot[i].session
                          /\ slot'[i].published = slot[i].published,
         \A s \in Sessions : worker[s].at # "none" => worker'[s].at # "none",
         \A o \in Owners : /\ window'[o].inbox \in {window[o].inbox, {}}
                           /\ window'[o].at = "spawn" => window'[o] = window[o]
  PROVE  Stages' /\ Steady
<1>1. ASSUME NEW i \in Slots, slot'[i].session # 0
      PROVE  /\ slot'[i].state = "Claimed" => slot'[i].published >= 2
             /\ slot'[i].published = 2 => worker'[slot'[i].session].at # "none"
  <2>1. Sound(slot[i]) /\ slot'[i].session \in Sessions /\ slot[i].published \in 0..3
    BY <1>1 DEF Stages, SoundSlots, IInv, TypeOK, SlotType
  <2>2. slot'[i].state \in {slot[i].state, "Completed"}
    BY <1>1, <2>1 DEF Advances
  <2> QED
    BY <1>1, <2>1, <2>2 DEF Sound
<1>2. Stages'
  BY <1>1, AdvanceKeepsStages
<1>3. \A s \in Sessions : stageOf'[s] = stageOf[s] /\ verdict'[s] = verdict[s]
  BY StagesAdvance
<1>4. UNCHANGED <<stageOf, verdict, heard, toldAs>>
  <2>1. /\ stageOf = [s \in Sessions |-> stageOf[s]] /\ stageOf' = [s \in Sessions |-> stageOf'[s]]
    BY DEF stageOf
  <2>2. /\ verdict = [s \in Sessions |-> verdict[s]] /\ verdict' = [s \in Sessions |-> verdict'[s]]
    BY DEF IInv, TypeOK
  <2> QED
    BY <1>3, <2>1, <2>2 DEF told
<1> QED
  BY <1>2, <1>4 DEF Steady, Lifecycle!lifecycleVars

LEMMA SameAdvances ==
  ASSUME NEW e PROVE Advances(e, e)
BY DEF Advances

LEMMA KeptTableIsSteady ==
  ASSUME IInv, IInv', Stages, KeepTable, UNCHANGED <<nextSession, told>>,
         \A s \in Sessions : worker[s].at # "none" => worker'[s].at # "none",
         \A o \in Owners : /\ window'[o].inbox \in {window[o].inbox, {}}
                           /\ window'[o].at = "spawn" => window'[o] = window[o]
  PROVE  Stages' /\ Steady
<1>1. slot' = slot /\ Store(slot')
  BY KeepIsStore DEF KeepTable, IInv
<1>2. \A i \in Slots : Advances(slot[i], slot[i])
  BY SameAdvances
<1> QED
  BY <1>1, <1>2, RestIsSteady

\* One slot is stored that publishes nothing.
LEMMA OneSlotIsSteady ==
  ASSUME IInv, IInv', Stages, NEW i \in Slots, NEW e, Store([slot EXCEPT ![i] = e]),
         UNCHANGED <<nextSession, told>>, Advances(slot[i], e),
         e.session = slot[i].session, e.published = slot[i].published,
         \A s \in Sessions : worker[s].at # "none" => worker'[s].at # "none",
         \A o \in Owners : /\ window'[o].inbox \in {window[o].inbox, {}}
                           /\ window'[o].at = "spawn" => window'[o] = window[o]
  PROVE  Stages' /\ Steady
<1>1. Store(slot') /\ slot'[i] = e /\ \A j \in Slots \ {i} : slot'[j] = slot[j]
  BY DEF Store, IInv, TypeOK
<1>2. \A j \in Slots : /\ Advances(slot[j], slot'[j]) /\ slot'[j].session = slot[j].session
                       /\ slot'[j].published = slot[j].published
  BY <1>1, SameAdvances
<1> QED
  BY <1>1, <1>2, RestIsSteady

LEMMA OwnersRest ==
  ASSUME IInv, IInv', Stages, NEW o \in Owners,
         Spawn(o) \/ Record(o) \/ PostDispatched(o) \/ OwnerCrash(o)
  PROVE  Stages' /\ Steady
<1>1. /\ slot \in [Slots -> SlotType] /\ window[o].slot \in Slots
      /\ worker \in [Sessions -> WorkerType]
  BY DEF IInv, TypeOK, WorkerType
<1>2. UNCHANGED <<nextSession, told>>
  BY DEF Spawn, Record, PostDispatched, OwnerCrash
<1>3. \A p \in Owners : /\ window'[p].inbox \in {window[p].inbox, {}}
                        /\ window'[p].at = "spawn" => window'[p] = window[p]
  <2>1. \A p \in Owners \ {o} : window'[p] = window[p]
    BY DEF Spawn, Record, PostDispatched, OwnerCrash, WindowTo, IInv, TypeOK
  <2>2. window'[o].inbox \in {window[o].inbox, {}} /\ window'[o].at # "spawn"
    BY DEF Spawn, Record, PostDispatched, OwnerCrash, WindowTo, IInv, TypeOK, IdleWindow
  <2> QED
    BY <2>1, <2>2
<1>4. \A s \in Sessions : worker[s].at # "none" => worker'[s].at # "none"
  <2>1. CASE UNCHANGED worker
    BY <2>1
  <2>2. CASE Spawn(o)
    BY <1>1, <2>2 DEF Spawn, WorkerType
  <2> QED
    BY <2>1, <2>2 DEF Record, PostDispatched, OwnerCrash
<1>5. CASE KeepTable
  BY <1>2, <1>3, <1>4, <1>5, KeptTableIsSteady
<1>6. CASE Record(o) /\ ~KeepTable
  <2> DEFINE i == window[o].slot
             e == IF /\ Matches(slot[i], window[o].session, window[o].generation)
                     /\ slot[i].state = "Dispatched"
                  THEN [slot[i] EXCEPT !.aged = FALSE] ELSE slot[i]
  <2>1. Store([slot EXCEPT ![i] = e])
    BY <1>1, <1>6 DEF Record
  <2>2. Advances(slot[i], e) /\ e.session = slot[i].session /\ e.published = slot[i].published
    BY <1>1 DEF Advances, SlotType
  <2> HIDE DEF e
  <2> QED
    BY <1>1, <1>2, <1>3, <1>4, <2>1, <2>2, OneSlotIsSteady
<1> QED
  BY <1>5, <1>6 DEF Spawn, PostDispatched, OwnerCrash, KeepTable

LEMMA CancelIsSteady ==
  ASSUME IInv, IInv', Stages, NEW s \in Sessions, Cancel(s)
  PROVE  Stages' /\ Steady
<1>1. Reclaimed = slot /\ slot \in [Slots -> SlotType]
  BY NothingToReclaim DEF IInv, TypeOK
<1>2. UNCHANGED <<nextSession, told, worker, window>>
  BY DEF Cancel
<1>3. CASE Store(slot)
  <2>1. slot' = slot /\ Store(slot')
    BY <1>3 DEF Store
  <2>2. \A i \in Slots : Advances(slot[i], slot'[i])
    BY <2>1, SameAdvances
  <2> QED
    BY <1>2, <2>1, <2>2, RestIsSteady
<1>4. ASSUME NEW i \in Slots, Store([slot EXCEPT ![i] = [@ EXCEPT !.cancel = TRUE, !.aged = FALSE]])
      PROVE  Stages' /\ Steady
  <2> DEFINE e == [slot[i] EXCEPT !.cancel = TRUE, !.aged = FALSE]
  <2>1. Advances(slot[i], e) /\ e.session = slot[i].session /\ e.published = slot[i].published
    BY <1>1 DEF Advances, SlotType
  <2>2. Store([slot EXCEPT ![i] = e])
    BY <1>4
  <2> HIDE DEF e
  <2> QED
    BY <1>2, <2>1, <2>2, OneSlotIsSteady
<1> QED
  BY <1>1, <1>3, <1>4 DEF Cancel

LEMMA AgeIsSteady ==
  ASSUME IInv, IInv', Stages, NEW i \in Slots, Age(i)
  PROVE  Stages' /\ Steady
<1> DEFINE e == [slot[i] EXCEPT !.aged = TRUE]
<1>1. slot[i] \in SlotType /\ slot \in [Slots -> SlotType]
  BY DEF IInv, TypeOK
<1>2. /\ Advances(slot[i], e) /\ e.session = slot[i].session
      /\ e.published = slot[i].published
  BY <1>1 DEF SlotType, Advances
<1>3. slot' = [slot EXCEPT ![i] = e] /\ UNCHANGED <<verdict, nextSession, worker, window, told>>
  BY DEF Age
<1> HIDE DEF e
<1>4. Store([slot EXCEPT ![i] = e])
  BY <1>1, <1>2, <1>3, KeepIsStore DEF IInv
<1> QED
  BY <1>2, <1>3, <1>4, OneSlotIsSteady

\* One task moves on.
LEMMA OneTaskAdvances ==
  ASSUME IInv, IInv', Stages, NEW s \in Sessions, NEW i \in Slots, NEW e,
         Store([slot EXCEPT ![i] = e]), UNCHANGED <<nextSession, told, window>>,
         slot[i].session = s, e.session = s, e.launcher = slot[i].launcher,
         e.acknowledged = slot[i].acknowledged, slot[i].published < e.published,
         e.published < 3 => e.result \in Outcomes,
         e.published >= 2, worker'[s].at # "none",
         \A t \in Sessions : worker[t].at # "none" => worker'[t].at # "none"
  PROVE  /\ Stages' /\ stageOf[s] = slot[i].published
         /\ stageOf' = [stageOf EXCEPT ![s] = e.published]
         /\ e.published = 3 => verdict' = [verdict EXCEPT ![s] = e.result]
         /\ e.published # 3 => verdict' = verdict
<1>1. Store(slot') /\ slot'[i] = e /\ \A j \in Slots \ {i} : slot'[j] = slot[j]
  BY DEF Store, IInv, TypeOK
<1>2. slot[i] \in SlotType /\ e \in SlotType /\ s # 0
  BY <1>1 DEF IInv, TypeOK, Sessions
<1>3. slot[i].published \in 0..3 /\ e.published \in 2..3
  BY <1>2 DEF SlotType
<1>4. Advances(slot[i], e)
  BY <1>2 DEF Advances
<1>5. \A j \in Slots : Advances(slot[j], slot'[j])
  BY <1>1, <1>4, SameAdvances
<1>6. ASSUME NEW j \in Slots, slot'[j].session # 0
      PROVE  /\ slot'[j].state = "Claimed" => slot'[j].published >= 2
             /\ slot'[j].published = 2 => worker'[slot'[j].session].at # "none"
  <2>1. CASE j = i
    BY <1>1, <2>1
  <2>2. CASE j # i
    <3>1. Sound(slot[j]) /\ slot'[j] = slot[j] /\ slot[j].session \in Sessions
      BY <1>1, <1>6, <2>2 DEF Stages, SoundSlots, IInv, TypeOK, SlotType
    <3> QED
      BY <1>6, <3>1 DEF Sound
  <2> QED
    BY <2>1, <2>2
<1>7. Stages'
  BY <1>1, <1>5, <1>6, AdvanceKeepsStages
<1>8. /\ stageOf[s] = slot[i].published /\ stageOf'[s] = e.published
      /\ e.published = 3 => verdict'[s] = e.result
      /\ e.published # 3 => verdict'[s] = verdict[s]
  BY <1>1, <1>3, <1>5, StagesAdvance
<1>9. ASSUME NEW t \in Sessions \ {s} PROVE stageOf'[t] = stageOf[t] /\ verdict'[t] = verdict[t]
  <2>1. \A j \in Slots : slot[j].session = t => slot'[j] = slot[j]
    BY <1>1
  <2> QED
    BY <1>1, <1>5, <2>1, StagesAdvance
<1>10. stageOf' = [stageOf EXCEPT ![s] = e.published]
  <2>1. /\ stageOf = [t \in Sessions |-> stageOf[t]] /\ stageOf' = [t \in Sessions |-> stageOf'[t]]
    BY DEF stageOf
  <2> HIDE DEF stageOf
  <2> QED
    BY <1>8, <1>9, <2>1
<1>11. /\ verdict = [t \in Sessions |-> verdict[t]] /\ verdict' = [t \in Sessions |-> verdict'[t]]
  BY DEF IInv, TypeOK
<1>12. /\ e.published = 3 => verdict' = [verdict EXCEPT ![s] = e.result]
       /\ e.published # 3 => verdict' = verdict
  BY <1>8, <1>9, <1>11
<1> QED
  BY <1>7, <1>8, <1>10, <1>12

\* A worker's verdict ends its task.
LEMMA VerdictIsFinish ==
  ASSUME IInv, IInv', Stages, NEW s \in Sessions, NEW e,
         worker[s].at \in Running,
         Store([slot EXCEPT ![worker[s].slot] = e]), UNCHANGED <<nextSession, told, window>>,
         e.session = s, e.launcher = MySlot(s).launcher,
         e.acknowledged = MySlot(s).acknowledged, e.published = 3, e.result \in Outcomes,
         worker'[s].at # "none", \A t \in Sessions \ {s} : worker'[t] = worker[t]
  PROVE  Stages' /\ Steady
<1> DEFINE i == worker[s].slot
<1>1. i \in Slots /\ slot[i].session = s /\ slot[i].published = 2
  BY DEF IInv, TypeOK, Actors, RunningSlots, StillMine, MySlot, Matches
<1>2. \A t \in Sessions : worker[t].at # "none" => worker'[t].at # "none"
  OBVIOUS
<1>3. /\ Stages' /\ stageOf[s] = 2 /\ stageOf' = [stageOf EXCEPT ![s] = 3]
      /\ verdict' = [verdict EXCEPT ![s] = e.result]
  BY <1>1, <1>2, OneTaskAdvances DEF MySlot
<1>4. Lifecycle!Finish(s)
  BY <1>3 DEF Lifecycle!Finish, told
<1> QED
  BY <1>3, <1>4 DEF Steady, Lifecycle!Next

LEMMA ClaimIsSteady ==
  ASSUME IInv, IInv', Stages, NEW s \in Sessions, Claim(s)
  PROVE  Stages' /\ Steady
<1>1. /\ Reclaimed = slot /\ slot \in [Slots -> SlotType] /\ worker[s].at = "starting"
      /\ worker \in [Sessions -> WorkerType]
  BY NothingToReclaim DEF IInv, TypeOK, Claim, WorkerType
<1>2. UNCHANGED <<nextSession, told, window>>
  BY DEF Claim
<1>3. CASE WorkerTo(s, "gone")
  <2>1. \A t \in Sessions : worker[t].at # "none" => worker'[t].at # "none"
    BY <1>3, PlaceOfWorker DEF IInv
  <2>2. CASE KeepTable
    BY <1>2, <2>1, <2>2, KeptTableIsSteady
  <2>3. CASE Store(slot)
    <3>1. slot' = slot /\ Store(slot')
      BY <2>3 DEF Store
    <3>2. \A i \in Slots : Advances(slot[i], slot'[i])
      BY <3>1, SameAdvances
    <3> QED
      BY <1>2, <2>1, <3>1, <3>2, RestIsSteady
  <2>4. \A place : worker'[s].at = "gone"
    BY <1>3, PlaceOfWorker DEF IInv
  <2> QED
    <3>1. ~\E i \in Slots : worker' = [worker EXCEPT ![s] = [@ EXCEPT !.at = "claimed", !.slot = i,
                                                                  !.owner = slot[i].launcher]]
      BY <1>1, <2>4 DEF WorkerType
    <3> QED
      BY <1>1, <2>2, <2>3, <3>1 DEF Claim
<1>4. ASSUME NEW i \in Slots,
             Matches(slot[i], s, worker[s].generation), slot[i].state = "Dispatched",
             Store([slot EXCEPT ![i] = PublishStage([@ EXCEPT !.state = "Claimed"], 2)]),
             worker' = [worker EXCEPT ![s] = [@ EXCEPT !.at = "claimed", !.slot = i,
                                                      !.owner = slot[i].launcher]]
      PROVE  Stages' /\ Steady
  <2> DEFINE e == PublishStage([slot[i] EXCEPT !.state = "Claimed"], 2)
  <2>1. slot[i] \in SlotType /\ slot[i].session = s /\ s # 0 /\ slot[i].published = 1
    BY <1>1, <1>4 DEF IInv, Table, GoodSlots, Shape, Matches, Sessions
  <2>2. slot[i].result \in Outcomes
    BY <2>1 DEF Stages, SoundSlots, Sound
  <2>3. /\ e.session = s /\ e.launcher = slot[i].launcher /\ e.published = 2
        /\ e.acknowledged = slot[i].acknowledged /\ e.result = slot[i].result
    BY <2>1 DEF PublishStage, SlotType
  <2>4. Store([slot EXCEPT ![i] = e])
    BY <1>4
  <2>5. /\ worker'[s].at # "none"
        /\ \A t \in Sessions : worker[t].at # "none" => worker'[t].at # "none"
    BY <1>1, <1>4 DEF WorkerType
  <2> HIDE DEF e
  <2>6. /\ Stages' /\ stageOf[s] = 1 /\ stageOf' = [stageOf EXCEPT ![s] = 2]
        /\ verdict' = verdict
    BY <1>2, <2>1, <2>2, <2>3, <2>4, <2>5, OneTaskAdvances
  <2>7. Lifecycle!Take(s)
    BY <1>2, <2>6 DEF Lifecycle!Take, told
  <2> QED
    BY <2>6, <2>7 DEF Steady, Lifecycle!Next
<1> QED
  BY <1>1, <1>3, <1>4 DEF Claim

LEMMA WorkersAreSteady ==
  ASSUME IInv, IInv', Stages, NEW s \in Sessions,
         WorkerStep(s) \/ WatchStep(s) \/ Finish(s) \/ WorkerCrash(s)
  PROVE  Stages' /\ Steady
<1> DEFINE i == worker[s].slot
<1>1. /\ slot \in [Slots -> SlotType] /\ i \in Slots /\ slot[i] \in SlotType
      /\ worker \in [Sessions -> WorkerType] /\ worker[s].result \in Outcomes
  BY DEF IInv, TypeOK, WorkerType
<1>2. worker[s].at \in Running => slot[i].session = s /\ slot[i].published = 2 /\ s # 0
  BY DEF IInv, Actors, RunningSlots, StillMine, MySlot, Matches, Sessions
<1>3. ASSUME KeepTable, UNCHANGED <<nextSession, told, window>>,
             \/ UNCHANGED worker
             \/ \E place : place # "none" /\ WorkerTo(s, place)
             \/ \E result : worker' = [worker EXCEPT ![s] = [@ EXCEPT !.at = "publish", !.result = result]]
      PROVE  Stages' /\ Steady
  <2>1. \A t \in Sessions : worker[t].at # "none" => worker'[t].at # "none"
    <3>1. CASE UNCHANGED worker
      BY <3>1
    <3>2. ASSUME NEW place, place # "none", WorkerTo(s, place)
          PROVE  \A t \in Sessions : worker[t].at # "none" => worker'[t].at # "none"
      BY <3>2, PlaceOfWorker DEF IInv
    <3>3. ASSUME NEW result,
                 worker' = [worker EXCEPT ![s] = [@ EXCEPT !.at = "publish", !.result = result]]
          PROVE  \A t \in Sessions : worker[t].at # "none" => worker'[t].at # "none"
      BY <1>1, <3>3 DEF WorkerType
    <3> QED
      BY <1>3, <3>1, <3>2, <3>3
  <2> QED
    BY <1>3, <2>1, KeptTableIsSteady
<1>4. CASE PostClaimed(s) \/ PostCompleted(s) \/ CheckMinimal(s) \/ WorkerCrash(s)
  <2>1. \E place : place # "none" /\ WorkerTo(s, place)
    <3>1. WorkerTo(s, "watching") \/ WorkerTo(s, "gone") \/ WorkerTo(s, "store_result") \/ WorkerTo(s, "mute")
      BY <1>4 DEF PostClaimed, PostCompleted, CheckMinimal, WorkerCrash
    <3> QED
      BY <3>1
  <2>2. KeepTable /\ UNCHANGED <<nextSession, told, window>>
    BY <1>4 DEF PostClaimed, PostCompleted, CheckMinimal, WorkerCrash, KeepTable
  <2> QED
    BY <1>3, <2>1, <2>2
<1>5. CASE StartWatch(s)
  <2>1. \/ WorkerTo(s, "working")
        \/ worker' = [worker EXCEPT ![s] = [@ EXCEPT !.at = "publish", !.result = "canceled"]]
    BY <1>5 DEF StartWatch
  <2>2. KeepTable /\ UNCHANGED <<nextSession, told, window>>
    BY <1>5 DEF StartWatch, KeepTable
  <2>3. "working" # "none"
    OBVIOUS
  <2> QED
    BY <1>3, <2>1, <2>2, <2>3
<1>6. CASE WatchStep(s)
  <2>1. KeepTable /\ UNCHANGED <<nextSession, told, window, worker>>
    BY <1>6 DEF WatchStep, WatchWakes, WatchAsks, KeepTable
  <2> QED
    BY <1>3, <2>1
<1>7. CASE Finish(s)
  <2>1. KeepTable /\ UNCHANGED <<nextSession, told, window>>
    BY <1>7 DEF Finish, KeepTable
  <2>2. \E result : worker' = [worker EXCEPT ![s] = [@ EXCEPT !.at = "publish", !.result = result]]
    BY <1>7 DEF Finish
  <2> QED
    BY <1>3, <2>1, <2>2
<1>8. CASE Publish(s)
  <2>1. UNCHANGED <<nextSession, told, window>> /\ worker[s].at = "publish"
    BY <1>8 DEF Publish
  <2>2. CASE KeepTable /\ (WorkerTo(s, "gone") \/ WorkerTo(s, "minimal"))
    <3>1. \E place : place # "none" /\ WorkerTo(s, place)
      <4>1. "gone" # "none" /\ "minimal" # "none"
        OBVIOUS
      <4> QED
        BY <2>2, <4>1
    <3> QED
      BY <1>3, <2>1, <2>2, <3>1
  <2>3. CASE Store([slot EXCEPT ![i] = PublishCompletion(@, worker[s].result)]) /\ WorkerTo(s, "post")
    <3> DEFINE e == PublishCompletion(slot[i], worker[s].result)
    <3>1. slot[i].session = s /\ slot[i].published = 2
      BY <1>2, <2>1 DEF Running
    <3>2. /\ e.session = s /\ e.launcher = slot[i].launcher /\ e.published = 3
          /\ e.acknowledged = slot[i].acknowledged /\ e.result = worker[s].result
      BY <1>1, <3>1 DEF PublishCompletion, PublishStage, SlotType
    <3>3. Store([slot EXCEPT ![i] = e])
      BY <2>3
    <3>4. worker'[s].at = "post" /\ \A t \in Sessions \ {s} : worker'[t] = worker[t]
      BY <2>3, PlaceOfWorker DEF IInv
    <3> HIDE DEF e
    <3>5. /\ worker[s].at \in Running /\ worker'[s].at # "none" /\ e.result \in Outcomes
          /\ e.launcher = MySlot(s).launcher /\ e.acknowledged = MySlot(s).acknowledged
      BY <1>1, <2>1, <3>2, <3>4 DEF Running, MySlot
    <3> QED
      BY <2>1, <3>2, <3>3, <3>4, <3>5, VerdictIsFinish
  <2> QED
    BY <1>8, <2>2, <2>3 DEF Publish
<1>9. CASE StoreEvent(s)
  <2> DEFINE e == [slot[i] EXCEPT !.published = 3]
  <2>1. UNCHANGED <<nextSession, told, window>> /\ worker[s].at = "store_event"
    BY <1>9 DEF StoreEvent
  <2>2. slot[i].session = s /\ slot[i].published = 2 /\ s # 0
    BY <1>2, <2>1 DEF Running
  <2>3. slot[i].result \in Outcomes
    BY <1>1, <2>2 DEF Stages, SoundSlots, Sound
  <2>4. /\ e.session = s /\ e.launcher = slot[i].launcher /\ e.published = 3
        /\ e.acknowledged = slot[i].acknowledged /\ e.result = slot[i].result
    BY <1>1, <2>2 DEF SlotType
  <2>5. Store([slot EXCEPT ![i] = e]) /\ WorkerTo(s, "store_state")
    BY <1>9 DEF StoreEvent
  <2>6. worker'[s].at = "store_state" /\ \A t \in Sessions \ {s} : worker'[t] = worker[t]
    BY <2>5, PlaceOfWorker DEF IInv
  <2> HIDE DEF e
  <2> QED
    BY <2>1, <2>3, <2>4, <2>5, <2>6, VerdictIsFinish DEF Running, MySlot
<1>10. ASSUME NEW e, NEW place, place # "none", Store([slot EXCEPT ![i] = e]), WorkerTo(s, place),
              UNCHANGED <<nextSession, told, window>>, Advances(slot[i], e),
              e.session = slot[i].session, e.published = slot[i].published
       PROVE  Stages' /\ Steady
  <2>1. \A t \in Sessions : worker[t].at # "none" => worker'[t].at # "none"
    BY <1>10, PlaceOfWorker DEF IInv
  <2> QED
    BY <1>1, <1>10, <2>1, OneSlotIsSteady
<1>11. CASE StoreResult(s)
  <2> DEFINE e == [slot[i] EXCEPT !.result = worker[s].result, !.aged = FALSE]
  <2>1. UNCHANGED <<nextSession, told, window>> /\ worker[s].at = "store_result"
    BY <1>11 DEF StoreResult
  <2>2. slot[i].published = 2
    BY <1>2, <2>1 DEF Running
  <2>3. Advances(slot[i], e) /\ e.session = slot[i].session /\ e.published = slot[i].published
    BY <1>1, <2>2 DEF SlotType, Advances
  <2>4. Store([slot EXCEPT ![i] = e]) /\ WorkerTo(s, "store_event")
    BY <1>11 DEF StoreResult
  <2> HIDE DEF e
  <2> QED
    BY <1>10, <2>1, <2>3, <2>4
<1>12. CASE StoreState(s)
  <2> DEFINE e == [slot[i] EXCEPT !.state = "Completed"]
  <2>1. UNCHANGED <<nextSession, told, window>>
    BY <1>12 DEF StoreState
  <2>2. Advances(slot[i], e) /\ e.session = slot[i].session /\ e.published = slot[i].published
    BY <1>1 DEF SlotType, Advances
  <2>3. Store([slot EXCEPT ![i] = e]) /\ WorkerTo(s, "post")
    BY <1>12 DEF StoreState
  <2> HIDE DEF e
  <2> QED
    BY <1>10, <2>1, <2>2, <2>3
<1> QED
  BY <1>4, <1>5, <1>6, <1>7, <1>8, <1>9, <1>11, <1>12, ClaimIsSteady DEF WorkerStep

\* The monitor gives up on offers that aged and on workers that are not alive.
LEMMA ScanIsSteady ==
  ASSUME IInv, IInv', Stages, NEW o \in Owners, Scan(o)
  PROVE  Stages' /\ Steady
<1> DEFINE lapsed(e) == e.launcher = o /\ (Unclaimed(e) \/ WorkerExited(e))
           over == {i \in Slots : lapsed(slot[i])}
           gone == {slot[i].session : i \in over}
<1>1. Reclaimed = slot /\ slot \in [Slots -> SlotType]
  BY NothingToReclaim DEF IInv, TypeOK
<1>2. /\ UNCHANGED <<nextSession, told, window, worker>>
      /\ slot' = [i \in Slots |-> IF lapsed(slot[i])
                                 THEN PublishCompletion(slot[i],
                                        IF Unclaimed(slot[i]) THEN "unclaimed" ELSE "died")
                                 ELSE slot[i]]
      /\ Store(slot')
  BY <1>1 DEF Scan, Store
<1>3. ASSUME NEW i \in over
      PROVE  /\ slot[i].session \in Sessions /\ slot[i].published \in {1, 2}
             /\ slot[i].state = "Dispatched" \/ slot[i].state = "Claimed"
             /\ slot'[i].session = slot[i].session /\ slot'[i].launcher = slot[i].launcher
             /\ slot'[i].acknowledged = slot[i].acknowledged
             /\ slot'[i].published = 3 /\ slot'[i].state = "Completed"
             /\ slot'[i].result = IF slot[i].published = 1 THEN "unclaimed" ELSE "died"
  <2> DEFINE result == IF Unclaimed(slot[i]) THEN "unclaimed" ELSE "died"
  <2>1. slot[i] \in SlotType /\ slot'[i] = PublishCompletion(slot[i], result)
    BY <1>1, <1>2
  <2>2. /\ Shape(slot[i]) /\ Sound(slot[i]) /\ slot[i].published \in 0..3
        /\ slot[i].session \in Sessions \cup {0}
    BY <2>1 DEF IInv, Table, GoodSlots, Shape, Stages, SoundSlots, SlotType
  <2>3. /\ slot[i].session \in Sessions
        /\ slot[i].state = "Dispatched" \/ slot[i].state = "Claimed"
        /\ slot[i].published = (IF Unclaimed(slot[i]) THEN 1 ELSE 2)
    <3>1. CASE Unclaimed(slot[i])
      BY <2>2, <3>1 DEF Unclaimed, Shape
    <3>2. CASE ~Unclaimed(slot[i])
      <4>1. slot[i].state = "Claimed" /\ slot[i].published < 3
        BY <3>2 DEF WorkerExited
      <4> QED
        BY <2>2, <3>2, <4>1 DEF Shape, Sound
    <3> QED
      BY <3>1, <3>2
  <2>4. result = IF slot[i].published = 1 THEN "unclaimed" ELSE "died"
    BY <2>3
  <2> HIDE DEF result
  <2>5. /\ slot'[i].session = slot[i].session /\ slot'[i].launcher = slot[i].launcher
        /\ slot'[i].acknowledged = slot[i].acknowledged
        /\ slot'[i].published = 3 /\ slot'[i].state = "Completed" /\ slot'[i].result = result
    BY <2>1, <2>2, <2>3 DEF PublishCompletion, PublishStage, SlotType
  <2>6. slot[i].published \in {1, 2}
    BY <2>3
  <2> QED
    BY <2>3, <2>4, <2>5, <2>6
<1>4. \A i \in Slots \ over : slot'[i] = slot[i]
  BY <1>2
<1>5. \A i \in Slots : Advances(slot[i], slot'[i])
  <2>1. ASSUME NEW i \in over PROVE Advances(slot[i], slot'[i])
    <3>1. slot[i].published < slot'[i].published /\ slot[i].session # 0 /\ ~(slot'[i].published < 3)
      BY <1>3 DEF Sessions
    <3> QED
      BY <1>3, <3>1 DEF Advances
  <2> QED
    BY <1>4, <2>1, SameAdvances
<1>6. ASSUME NEW i \in Slots, slot'[i].session # 0
      PROVE  /\ slot'[i].state = "Claimed" => slot'[i].published >= 2
             /\ slot'[i].published = 2 => worker'[slot'[i].session].at # "none"
  <2>1. CASE i \in over
    BY <1>3, <2>1
  <2>2. CASE i \notin over
    <3>1. Sound(slot[i]) /\ slot'[i] = slot[i]
      BY <1>4, <2>2 DEF Stages, SoundSlots
    <3> QED
      BY <1>2, <1>6, <3>1 DEF Sound
  <2> QED
    BY <2>1, <2>2
<1> HIDE DEF over
<1>7. Stages'
  BY <1>2, <1>5, <1>6, AdvanceKeepsStages
<1>8. ASSUME NEW s \in Sessions \ gone PROVE stageOf'[s] = stageOf[s] /\ verdict'[s] = verdict[s]
  <2>1. \A i \in Slots : slot[i].session = s => slot'[i] = slot[i]
    BY <1>4
  <2> QED
    BY <1>2, <1>5, <2>1, StagesAdvance
<1>9. ASSUME NEW s \in gone
      PROVE  /\ stageOf[s] \in {1, 2} /\ stageOf'[s] = 3
             /\ verdict'[s] = IF stageOf[s] = 1 THEN "unclaimed" ELSE "died"
  <2>1. PICK i \in over : slot[i].session = s
    OBVIOUS
  <2>2. i \in Slots /\ s \in Sessions /\ slot[i].published < 3
    BY <1>3, <2>1 DEF over
  <2>3. /\ stageOf[s] = slot[i].published /\ stageOf'[s] = slot'[i].published
        /\ verdict'[s] = slot'[i].result
    BY <1>2, <1>3, <1>5, <2>1, <2>2, StagesAdvance
  <2> QED
    BY <1>3, <2>1, <2>3
<1>10. gone \subseteq Sessions
  BY <1>3
<1>11. /\ stageOf = [s \in Sessions |-> stageOf[s]] /\ stageOf' = [s \in Sessions |-> stageOf'[s]]
       /\ verdict = [s \in Sessions |-> verdict[s]] /\ verdict' = [s \in Sessions |-> verdict'[s]]
  BY DEF stageOf, IInv, TypeOK
<1> HIDE DEF gone
<1>12. CASE gone = {}
  <2>1. UNCHANGED <<stageOf, verdict>>
    BY <1>8, <1>11, <1>12
  <2> QED
    BY <1>2, <1>7, <2>1 DEF Steady, Lifecycle!lifecycleVars, told
<1>13. CASE gone # {}
  <2>1. stageOf' = [s \in Sessions |-> IF s \in gone THEN 3 ELSE stageOf[s]]
    <3>1. \A s \in Sessions : stageOf'[s] = IF s \in gone THEN 3 ELSE stageOf[s]
      BY <1>8, <1>9
    <3> QED
      BY <1>11, <3>1
  <2>2. verdict' = [s \in Sessions |-> IF s \notin gone THEN verdict[s]
                                       ELSE IF stageOf[s] = 1 THEN "unclaimed" ELSE "died"]
    <3>1. \A s \in Sessions : verdict'[s] = IF s \notin gone THEN verdict[s]
                                            ELSE IF stageOf[s] = 1 THEN "unclaimed" ELSE "died"
      BY <1>8, <1>9
    <3> QED
      BY <1>11, <3>1
  <2>3. Lifecycle!Lapse(gone)
    BY <1>2, <1>9, <1>13, <2>1, <2>2 DEF Lifecycle!Lapse, told
  <2> QED
    BY <1>7, <1>10, <2>3 DEF Steady, Lifecycle!Next
<1> QED
  BY <1>12, <1>13

\* A slot given back is an offer withdrawn, unless its time was over already.
LEMMA SpawnFailsIsSteady ==
  ASSUME IInv, IInv', Stages, NEW o \in Owners, SpawnFails(o)
  PROVE  Stages' /\ Steady
<1> DEFINE w == window[o]
<1>1. /\ w.at = "spawn" /\ w.slot \in Slots /\ slot \in [Slots -> SlotType]
      /\ w.session \in Sessions /\ worker[w.session].at = "none"
      /\ UNCHANGED <<nextSession, told, worker>>
  BY DEF SpawnFails, IInv, Actors, WaitingSpawns, TypeOK
<1>2. \A p \in Owners : /\ window'[p].inbox \in {window[p].inbox, {}}
                        /\ window'[p].at = "spawn" => window'[p] = window[p]
  BY DEF SpawnFails, WindowTo, IdleWindow, IInv, TypeOK
<1>3. CASE KeepTable
  BY <1>1, <1>2, <1>3, KeptTableIsSteady
<1>4. CASE Store(slot)
  <2>1. slot' = slot /\ Store(slot')
    BY <1>4 DEF Store
  <2>2. \A i \in Slots : Advances(slot[i], slot'[i])
    BY <2>1, SameAdvances
  <2> QED
    BY <1>1, <1>2, <2>1, <2>2, RestIsSteady
<1>5. CASE /\ Matches(slot[w.slot], w.session, w.generation)
           /\ Store([slot EXCEPT ![w.slot] = Cleared(@)])
  <2> DEFINE i == w.slot
             s == w.session
  <2>1. /\ slot[i].session = s /\ s # 0 /\ slot[i].published \in 0..3 /\ slot[i] \in SlotType
    BY <1>1, <1>5 DEF Matches, SlotType, Sessions
  <2>2. slot'[i].session = 0 /\ Store(slot') /\ \A j \in Slots \ {i} : slot'[j] = slot[j]
    BY <1>1, <1>5 DEF Store, Cleared, EmptySlot
  <2>3. \A p \in Owners : \A event \in window[p].inbox : event.session # s
    BY <1>1 DEF Stages, SpawnWaits
  <2>4. \A j \in Slots : Advances(slot[j], slot'[j])
    <3>1. Advances(slot[i], slot'[i])
      BY <2>1, <2>2, <2>3 DEF Advances
    <3> QED
      BY <2>2, <3>1, SameAdvances
  <2>5. ASSUME NEW j \in Slots, slot'[j].session # 0
        PROVE  /\ slot'[j].state = "Claimed" => slot'[j].published >= 2
               /\ slot'[j].published = 2 => worker'[slot'[j].session].at # "none"
    <3>1. Sound(slot[j]) /\ slot'[j] = slot[j]
      BY <2>2, <2>5 DEF Stages, SoundSlots
    <3> QED
      BY <1>1, <2>5, <3>1 DEF Sound
  <2>6. Stages'
    BY <1>1, <1>2, <2>2, <2>4, <2>5, AdvanceKeepsStages
  <2>7. /\ stageOf[s] = slot[i].published /\ stageOf'[s] = 3 /\ verdict'[s] = verdict[s]
    BY <1>1, <2>1, <2>2, <2>4, StagesAdvance
  <2>8. ASSUME NEW t \in Sessions \ {s} PROVE stageOf'[t] = stageOf[t] /\ verdict'[t] = verdict[t]
    <3>1. \A j \in Slots : slot[j].session = t => slot'[j] = slot[j]
      BY <2>1, <2>2
    <3> QED
      BY <1>1, <2>2, <2>4, <3>1, StagesAdvance
  <2>9. /\ stageOf = [t \in Sessions |-> stageOf[t]] /\ stageOf' = [t \in Sessions |-> stageOf'[t]]
        /\ verdict = [t \in Sessions |-> verdict[t]] /\ verdict' = [t \in Sessions |-> verdict'[t]]
    BY DEF stageOf, IInv, TypeOK
  <2>10. stageOf' = [stageOf EXCEPT ![s] = 3] /\ verdict' = verdict
    BY <2>7, <2>8, <2>9
  <2>11. slot[i].published = 1 \/ slot[i].published = 3
    <3>1. Sound(slot[i])
      BY <1>1 DEF Stages, SoundSlots
    <3> QED
      BY <1>1, <2>1, <3>1 DEF Sound
  <2>12. CASE slot[i].published = 1
    <3>1. Lifecycle!Withdraw(s)
      BY <1>1, <2>7, <2>10, <2>12 DEF Lifecycle!Withdraw, told
    <3> QED
      BY <1>1, <2>6, <3>1 DEF Steady, Lifecycle!Next
  <2>13. CASE slot[i].published = 3
    <3>1. stageOf' = stageOf
      BY <2>7, <2>8, <2>9, <2>13
    <3> QED
      BY <1>1, <2>6, <2>10, <3>1 DEF Steady, Lifecycle!lifecycleVars, told
  <2> QED
    BY <2>11, <2>12, <2>13
<1> QED
  BY <1>3, <1>4, <1>5 DEF SpawnFails

\* An offer takes the next session, of which nobody has heard.
LEMMA ReserveIsSteady ==
  ASSUME IInv, IInv', Stages, NEW o \in Owners, Reserve(o)
  PROVE  Stages' /\ Steady
<1> DEFINE s == nextSession
<1>1. /\ Reclaimed = slot /\ slot \in [Slots -> SlotType] /\ s \in Sessions
      /\ nextSession' = s + 1 /\ UNCHANGED <<told, worker>> /\ window[o].at = "idle"
      /\ window \in [Owners -> WindowType]
  BY NothingToReclaim DEF Reserve, IInv, TypeOK, WindowType
<1>2. PICK i \in Slots :
        /\ slot[i].state = "Empty"
        /\ Store([slot EXCEPT ![i] = Dispatched(@, o)])
        /\ window' = [window EXCEPT ![o] = [@ EXCEPT !.at = "spawn", !.slot = i,
                         !.session = nextSession, !.generation = slot[i].generation]]
  BY <1>1 DEF Reserve
<1>3. /\ slot'[i] = Dispatched(slot[i], o) /\ \A j \in Slots \ {i} : slot'[j] = slot[j]
      /\ verdict' = Judged(slot') /\ Store(slot')
  BY <1>1, <1>2 DEF Store
<1>4. /\ slot'[i].session = s /\ slot'[i].published = 1 /\ slot'[i].acknowledged = 0
      /\ slot'[i].state = "Dispatched" /\ slot'[i].launcher = o /\ slot'[i].result = "ok"
  BY <1>1, <1>3 DEF Dispatched, SlotType
<1>5. slot[i].session = 0
  BY <1>2 DEF IInv, Table, GoodSlots, Shape
<1>6. s \in Int /\ s # 0 /\ s < s + 1 /\ \A t \in Sessions : t < s + 1 <=> (t < s \/ t = s)
  BY <1>1 DEF Sessions
<1>7. verdict' = verdict
  <2>1. \A t \in Sessions : verdict[t] = "none" =>
          ~\E j \in Slots : slot'[j].session = t /\ slot'[j].published = 3
    <3>1. ASSUME NEW t \in Sessions, verdict[t] = "none", NEW j \in Slots,
                 slot'[j].session = t, slot'[j].published = 3
          PROVE  FALSE
      <4>1. j # i
        BY <1>4, <3>1
      <4>2. slot'[j] = slot[j] /\ t # 0
        BY <1>3, <4>1 DEF Sessions
      <4> QED
        BY <3>1, <4>2 DEF IInv, Table, VerdictsPublished
    <3> QED
      BY <3>1
  <2> QED
    BY <1>3, <2>1 DEF Judged, IInv, TypeOK
<1>8. stageOf[s] = 0 /\ stageOf'[s] = 1
  <2>1. s >= nextSession
    BY <1>6
  <2> QED
    BY <1>1, <1>4, <2>1, StageOfSession, NextStageOfSession
<1>9. ASSUME NEW t \in Sessions \ {s} PROVE stageOf'[t] = stageOf[t]
  <2>1. \A j \in Slots : slot'[j].session = t <=> slot[j].session = t
    <3>1. t # 0
      BY DEF Sessions
    <3> QED
      BY <1>3, <1>4, <1>5, <3>1
  <2>2. CASE \E j \in Slots : slot[j].session = t
    <3>1. PICK j \in Slots : slot[j].session = t
      BY <2>2
    <3>2. j # i
      BY <1>5, <3>1 DEF Sessions
    <3>3. slot'[j] = slot[j]
      BY <1>3, <3>2
    <3> QED
      BY <2>1, <3>1, <3>3, StageOfSession, NextStageOfSession
  <2>3. CASE \A j \in Slots : slot[j].session # t
    <3>1. t \in Int
      BY DEF Sessions
    <3>2. CASE t < s
      BY <1>1, <1>6, <2>1, <2>3, <3>2, StageOfSession, NextStageOfSession
    <3>3. CASE t > s
      BY <1>1, <1>6, <3>1, <3>3, StageOfSession, NextStageOfSession
    <3> QED
      BY <1>6, <3>1, <3>2, <3>3
  <2> QED
    BY <2>2, <2>3
<1>10. stageOf' = [stageOf EXCEPT ![s] = 1]
  <2>1. /\ stageOf = [t \in Sessions |-> stageOf[t]] /\ stageOf' = [t \in Sessions |-> stageOf'[t]]
    BY DEF stageOf
  <2> QED
    BY <1>8, <1>9, <2>1
<1>11. SoundSlots'
  <2> SUFFICES ASSUME NEW j \in Slots PROVE Sound(slot[j])'
    BY DEF SoundSlots
  <2>1. CASE j = i
    <3>1. heard'[s] \in 0..3
      BY <1>1 DEF IInv, TypeOK, told
    <3> QED
      BY <1>4, <2>1, <3>1 DEF Sound, Outcomes
  <2>2. CASE j # i
    <3>1. Sound(slot[j]) /\ slot'[j] = slot[j]
      BY <1>3, <2>2 DEF Stages, SoundSlots
    <3> QED
      BY <1>1, <1>7, <3>1 DEF Sound, told
  <2> QED
    BY <2>1, <2>2
<1>12. /\ \A p \in Owners \ {o} : window'[p] = window[p]
       /\ window'[o].session = s /\ window'[o].inbox = window[o].inbox
  BY <1>1, <1>2 DEF WindowType
<1>13. ASSUME NEW p \in Owners, NEW event \in window'[p].inbox
       PROVE  /\ event \in window[p].inbox /\ Collected(window[p].inbox, event)
              /\ event.session # s
  <2>1. event \in window[p].inbox /\ Collected(window[p].inbox, event)
    BY <1>12 DEF Stages, InboxInOrder
  <2>2. event.kind \in 1..3 /\ event.kind <= stageOf[event.session]
    BY <1>1, <2>1 DEF WindowType, EventType, Collected
  <2>3. event.session # s
    BY <1>8, <2>2
  <2> QED
    BY <2>1, <2>3
<1>14. SpawnWaits'
  <2> SUFFICES ASSUME NEW p \in Owners, window'[p].at = "spawn"
               PROVE  /\ \A j \in Slots : slot'[j].session = window'[p].session =>
                           slot'[j].launcher = p
                      /\ \A q \in Owners : \A event \in window'[q].inbox :
                           event.session # window'[p].session
    BY DEF SpawnWaits
  <2>1. CASE p = o
    <3>1. \A j \in Slots : slot'[j].session = s => j = i
      <4>1. \A j \in Slots : slot[j].session < s /\ slot[j].session \in Sessions \cup {0}
        BY <1>1 DEF IInv, Table, GoodSlots, SlotType
      <4>2. \A j \in Slots : slot[j].session # s
        BY <1>6, <4>1
      <4> QED
        BY <1>3, <4>2
    <3> QED
      BY <1>4, <1>12, <1>13, <2>1, <3>1
  <2>2. CASE p # o
    <3>1. /\ window'[p] = window[p]
          /\ \A j \in Slots : slot[j].session = window[p].session => slot[j].launcher = p
          /\ \A q \in Owners : \A event \in window[q].inbox : event.session # window[p].session
          /\ window[p].session < s /\ window[p].session \in Sessions
      BY <1>12, <2>2 DEF Stages, SpawnWaits, IInv, Actors, WaitingSpawns
    <3>2. window[p].session # s
      BY <1>6, <3>1
    <3>3. \A j \in Slots : slot'[j].session = window[p].session => slot'[j].launcher = p
      BY <1>3, <1>4, <3>1, <3>2
    <3> QED
      BY <1>13, <3>1, <3>3
  <2> QED
    BY <2>1, <2>2
<1>15. InboxInOrder'
  <2> SUFFICES ASSUME NEW p \in Owners, NEW event \in window'[p].inbox
               PROVE  Collected(window[p].inbox, event)'
    BY DEF InboxInOrder
  <2>1. /\ Collected(window[p].inbox, event) /\ window'[p].inbox = window[p].inbox
        /\ event.session # s
    BY <1>12, <1>13
  <2>2. event.session \in Sessions /\ stageOf'[event.session] = stageOf[event.session]
    BY <1>9, <2>1 DEF Collected
  <2> QED
    BY <1>1, <1>7, <2>1, <2>2 DEF Collected, told
<1>16. HeardInOrder'
  BY <1>1, <1>7 DEF Stages, HeardInOrder, told
<1>17. Lifecycle!Offer(s)
  BY <1>1, <1>7, <1>8, <1>10 DEF Lifecycle!Offer, told
<1> QED
  BY <1>1, <1>11, <1>14, <1>15, <1>16, <1>17 DEF Stages, Steady, Lifecycle!Next

\* Collecting takes what is published, up from what is acknowledged.
LEMMA PollIsSteady ==
  ASSUME IInv, IInv', Stages, NEW o \in Owners, Poll(o)
  PROVE  Stages' /\ Steady
<1>1. /\ Reclaimed = slot /\ slot \in [Slots -> SlotType] /\ window \in [Owners -> WindowType]
      /\ UNCHANGED <<nextSession, told, worker>> /\ window[o].at = "idle"
  BY NothingToReclaim DEF Poll, IInv, TypeOK, WindowType
<1> DEFINE events == UNION {Pending(o, slot[i]) : i \in Slots}
<1>2. CASE UNCHANGED window
  <2>1. slot' = slot /\ Store(slot')
    <3>1. CASE KeepTable
      BY <3>1, KeepIsStore DEF KeepTable, IInv
    <3>2. CASE Store(slot)
      BY <3>2 DEF Store
    <3> QED
      BY <1>1, <3>1, <3>2 DEF Poll
  <2>2. \A i \in Slots : Advances(slot[i], slot'[i])
    BY <2>1, SameAdvances
  <2> QED
    BY <1>1, <1>2, <2>1, <2>2, RestIsSteady
<1>3. CASE /\ Store(slot)
           /\ window' = [window EXCEPT ![o] = [@ EXCEPT !.at = "handle", !.inbox = events]]
  <2>1. slot' = slot /\ Store(slot')
    BY <1>3 DEF Store
  <2>2. \A i \in Slots : Advances(slot[i], slot'[i])
    BY <2>1, SameAdvances
  <2>3. \A s \in Sessions : stageOf'[s] = stageOf[s] /\ verdict'[s] = verdict[s]
    BY <1>1, <2>1, <2>2, StagesAdvance
  <2>4. stageOf' = stageOf /\ verdict' = verdict
    <3>1. /\ stageOf = [s \in Sessions |-> stageOf[s]] /\ stageOf' = [s \in Sessions |-> stageOf'[s]]
          /\ verdict = [s \in Sessions |-> verdict[s]] /\ verdict' = [s \in Sessions |-> verdict'[s]]
      BY DEF stageOf, IInv, TypeOK
    <3> QED
      BY <2>3, <3>1
  <2>5. SoundSlots' /\ HeardInOrder'
    BY <1>1, <2>1, <2>4 DEF Stages, SoundSlots, HeardInOrder, Sound, told
  <2> HIDE DEF events
  <2>6. /\ \A p \in Owners \ {o} : window'[p] = window[p]
        /\ window'[o].inbox = events /\ window'[o].at = "handle"
    BY <1>1, <1>3 DEF WindowType
  <2>7. ASSUME NEW event \in events
        PROVE  /\ Collected(events, event)
               /\ \E i \in Slots : slot[i].session = event.session /\ slot[i].launcher = o
    <3>1. PICK i \in Slots : event \in Pending(o, slot[i])
      BY DEF events
    <3> DEFINE d == slot[i]
    <3>2. PICK kind \in d.acknowledged + 1..d.published :
            /\ event = [session |-> d.session, generation |-> d.generation, kind |-> kind,
                        result |-> d.result]
            /\ d.state # "Empty" /\ d.launcher = o
      BY <3>1 DEF Pending
    <3>3. /\ event.session = d.session /\ event.kind = kind /\ event.result = d.result
      BY <3>2
    <3>4. /\ d.acknowledged \in 0..3 /\ d.published \in 0..3 /\ d.session \in Sessions \cup {0}
          /\ d.result # "none"
      BY <1>1 DEF SlotType
    <3>5. d.session \in Sessions /\ d.session # 0
      BY <3>2, <3>4 DEF IInv, Table, GoodSlots, Shape, Sessions
    <3>6. /\ d.acknowledged <= heard[d.session] /\ heard[d.session] \in 0..3
          /\ d.published = 3 => verdict[d.session] = d.result
      BY <3>5 DEF Stages, SoundSlots, Sound, IInv, TypeOK
    <3>7. stageOf[d.session] = d.published
      BY <3>5, StageOfSession
    <3>8. ASSUME NEW k \in 1..kind, k < kind, heard[d.session] < k
          PROVE  \E other \in events : other.session = d.session /\ other.kind = k
      <4>1. k \in d.acknowledged + 1..d.published
        BY <3>2, <3>4, <3>6, <3>8
      <4> DEFINE other == [session |-> d.session, generation |-> d.generation, kind |-> k,
                           result |-> d.result]
      <4>2. other \in Pending(o, d)
        BY <3>2, <4>1 DEF Pending
      <4>3. other \in events
        BY <4>2 DEF events
      <4>4. other.session = d.session /\ other.kind = k
        OBVIOUS
      <4> QED
        BY <4>3, <4>4
    <3>9. kind <= d.published /\ (kind = 3 => d.published = 3)
      BY <3>2, <3>4
    <3> HIDE DEF d
    <3>10. Collected(events, event)
      BY <3>3, <3>4, <3>5, <3>6, <3>7, <3>8, <3>9 DEF Collected
    <3> QED
      BY <3>2, <3>3, <3>10 DEF d
  <2>8. InboxInOrder'
    <3> SUFFICES ASSUME NEW p \in Owners, NEW event \in window'[p].inbox
                 PROVE  Collected(window[p].inbox, event)'
      BY DEF InboxInOrder
    <3>1. Collected(window'[p].inbox, event)
      BY <2>6, <2>7 DEF Stages, InboxInOrder
    <3> QED
      BY <1>1, <2>4, <3>1 DEF Collected, told
  <2>9. SpawnWaits'
    <3> SUFFICES ASSUME NEW p \in Owners, window'[p].at = "spawn"
                 PROVE  /\ \A j \in Slots : slot'[j].session = window'[p].session =>
                             slot'[j].launcher = p
                        /\ \A q \in Owners : \A event \in window'[q].inbox :
                             event.session # window'[p].session
      BY DEF SpawnWaits
    <3>1. p # o /\ window'[p] = window[p]
      BY <2>6
    <3>2. /\ \A j \in Slots : slot[j].session = window[p].session => slot[j].launcher = p
          /\ \A q \in Owners : \A event \in window[q].inbox : event.session # window[p].session
      BY <3>1 DEF Stages, SpawnWaits
    <3>3. \A event \in events : event.session # window[p].session
      BY <2>7, <3>1, <3>2
    <3> QED
      BY <2>1, <2>6, <3>1, <3>2, <3>3
  <2> QED
    BY <1>1, <2>4, <2>5, <2>8, <2>9 DEF Stages, Steady, Lifecycle!lifecycleVars, told
<1>4. \/ UNCHANGED window
      \/ /\ Store(slot)
         /\ window' = [window EXCEPT ![o] = [@ EXCEPT !.at = "handle", !.inbox = events]]
  <2>1. events = UNION {Pending(o, Reclaimed[i]) : i \in Slots}
    BY <1>1
  <2> HIDE DEF events
  <2> QED
    BY <1>1, <2>1 DEF Poll
<1> QED
  BY <1>2, <1>3, <1>4

\* An event that is handled repeats what was heard, or is the next.
LEMMA HandleIsSteady ==
  ASSUME IInv, IInv', Stages, NEW o \in Owners, NEW event \in window[o].inbox, Handle(o, event)
  PROVE  Stages' /\ Steady
<1> DEFINE s == event.session
           k == event.kind
           rest == window[o].inbox \ {event}
           its == {i \in Slots : /\ Matches(slot[i], event.session, event.generation)
                                 /\ slot[i].launcher = o}
<1>1. /\ slot \in [Slots -> SlotType] /\ heard \in [Sessions -> 0..3]
      /\ toldAs \in [Sessions -> Results] /\ window[o].inbox \subseteq EventType
      /\ event \in EventType
  BY DEF IInv, TypeOK
<1>2. Collected(window[o].inbox, event) /\ s \in Sessions /\ s # 0 /\ k \in 1..3
  BY <1>1 DEF Stages, InboxInOrder, Collected, EventType, Sessions
<1>3. /\ UNCHANGED <<nextSession, worker>>
      /\ heard' = [heard EXCEPT ![s] = IF k > @ THEN k ELSE @]
      /\ toldAs' = IF k = 3 THEN [toldAs EXCEPT ![s] = event.result] ELSE toldAs
      /\ \A other \in rest : other.session = s => k < other.kind
  BY DEF Handle
<1>4. /\ \A p \in Owners \ {o} : window'[p] = window[p]
      /\ window'[o].inbox = rest /\ window'[o].at # "spawn"
  BY DEF Handle, IdleWindow, IInv, TypeOK
\* The slot of the event is acknowledged, and cleared when the task was over.
<1>5. /\ Store(slot')
      /\ \A i \in Slots : \/ slot'[i] = slot[i]
                          \/ i \in its /\ slot'[i] = Acknowledge(slot[i], k)
  <2>1. CASE KeepTable
    <3>1. slot' = slot /\ Store(slot')
      BY <2>1, KeepIsStore DEF KeepTable, IInv
    <3> QED
      BY <3>1
  <2>2. CASE Store([i \in Slots |-> IF i \in its THEN Acknowledge(slot[i], event.kind)
                                    ELSE slot[i]])
    BY <2>2 DEF Store
  <2> QED
    BY <2>1, <2>2 DEF Handle
<1>6. ASSUME NEW i \in Slots
      PROVE  \/ slot'[i] = slot[i]
             \/ /\ slot[i].session = s /\ slot'[i].session = 0 /\ slot[i].published = 3
             \/ /\ slot[i].session = s /\ slot'[i].session = s
                /\ slot'[i].launcher = slot[i].launcher /\ slot'[i].published = slot[i].published
                /\ slot'[i].state = slot[i].state /\ slot'[i].result = slot[i].result
                /\ slot'[i].acknowledged = k
  <2> DEFINE d == slot[i]
             acked == IF d.acknowledged < k
                      THEN [d EXCEPT !.acknowledged = k, !.aged = FALSE] ELSE d
  <2>1. CASE slot'[i] = d
    BY <2>1
  <2>2. CASE i \in its /\ slot'[i] = Acknowledge(d, k)
    <3>1. /\ d \in SlotType /\ d.session = s /\ Shape(d) /\ d.acknowledged \in 0..3
          /\ d.published \in 0..3
      BY <1>1, <2>2 DEF Matches, IInv, Table, GoodSlots, Shape, SlotType
    <3>2. CASE d.acknowledged < k /\ k < 3
      <4>1. slot'[i] = [d EXCEPT !.acknowledged = k, !.aged = FALSE]
        <5>1. acked.acknowledged = k
          BY <3>1, <3>2 DEF SlotType
        <5>2. ~(acked.acknowledged >= 3)
          BY <1>2, <3>2, <5>1
        <5> QED
          BY <2>2, <3>2, <5>2 DEF Acknowledge
      <4> QED
        BY <3>1, <4>1 DEF SlotType
    <3>3. CASE ~(d.acknowledged < k)
      <4>1. ~(d.acknowledged >= 3)
        BY <3>1 DEF Shape
      <4>2. slot'[i] = d
        BY <2>2, <3>3, <4>1 DEF Acknowledge
      <4> QED
        BY <4>2
    <3>4. CASE d.acknowledged < k /\ k = 3
      <4>1. acked.acknowledged = 3
        BY <3>1, <3>4 DEF SlotType
      <4>2. slot'[i] = Cleared(acked)
        BY <2>2, <4>1 DEF Acknowledge
      <4>3. slot'[i].session = 0
        BY <4>2 DEF Cleared, EmptySlot
      <4>4. verdict[s] # "none"
        BY <1>2, <3>4 DEF IInv, Actors, EventsPublished
      <4>5. d.published = 3
        BY <1>2, <3>1, <4>4 DEF IInv, Table, VerdictsPublished
      <4> QED
        BY <3>1, <4>3, <4>5
    <3> QED
      BY <1>2, <3>1, <3>2, <3>3, <3>4
  <2> QED
    BY <1>5, <2>1, <2>2
\* Neither is a stage.
<1>7. stageOf' = stageOf /\ verdict' = verdict
  <2> SUFFICES ASSUME NEW t \in Sessions PROVE stageOf'[t] = stageOf[t] /\ verdict'[t] = verdict[t]
    <3>1. /\ stageOf = [t \in Sessions |-> stageOf[t]] /\ stageOf' = [t \in Sessions |-> stageOf'[t]]
          /\ verdict = [t \in Sessions |-> verdict[t]] /\ verdict' = [t \in Sessions |-> verdict'[t]]
      BY DEF stageOf, IInv, TypeOK
    <3> QED
      BY <3>1
  <2>1. verdict'[t] = verdict[t]
    <3>1. verdict[t] # "none" \/ ~\E i \in Slots : slot'[i].session = t /\ slot'[i].published = 3
      <4>1. ASSUME NEW i \in Slots, slot'[i].session = t, slot'[i].published = 3
            PROVE  slot[i].session = t /\ slot[i].published = 3 /\ t # 0
        BY <1>6, <4>1 DEF Sessions
      <4> QED
        BY <4>1 DEF IInv, Table, VerdictsPublished
    <3> QED
      BY <1>5, <3>1 DEF Store, Judged
  <2>2. CASE \E i \in Slots : slot'[i].session = t
    <3>1. PICK i \in Slots : slot'[i].session = t
      BY <2>2
    <3>2. slot[i].session = t /\ slot'[i].published = slot[i].published
      BY <1>6, <3>1 DEF Sessions
    <3> QED
      BY <2>1, <3>1, <3>2, StageOfSession, NextStageOfSession
  <2>3. CASE \A i \in Slots : slot'[i].session # t
    <3>1. CASE \E i \in Slots : slot[i].session = t
      <4>1. PICK i \in Slots : slot[i].session = t
        BY <3>1
      <4>2. slot[i].published = 3
        BY <1>6, <2>3, <4>1
      <4>3. stageOf[t] = 3 /\ t < nextSession'
        BY <1>3, <4>1, <4>2, StageOfSession
      <4> QED
        BY <2>1, <2>3, <4>3, NextStageOfSession
    <3>2. CASE \A i \in Slots : slot[i].session # t
      <4>1. t \in Int /\ nextSession \in Int
        BY DEF Sessions, IInv, TypeOK
      <4> QED
        BY <1>3, <2>1, <2>3, <3>2, <4>1, StageOfSession, NextStageOfSession
    <3> QED
      BY <3>1, <3>2
  <2> QED
    BY <2>2, <2>3
<1>8. /\ heard'[s] = (IF k > heard[s] THEN k ELSE heard[s]) /\ heard[s] \in 0..3
      /\ \A t \in Sessions \ {s} : heard'[t] = heard[t] /\ toldAs'[t] = toldAs[t]
      /\ toldAs'[s] = IF k = 3 THEN event.result ELSE toldAs[s]
  BY <1>1, <1>2, <1>3
<1>9. SoundSlots'
  <2> SUFFICES ASSUME NEW i \in Slots PROVE Sound(slot[i])'
    BY DEF SoundSlots
  <2>1. Sound(slot[i])
    BY DEF Stages, SoundSlots
  <2>2. CASE slot'[i].session = 0
    BY <2>2 DEF Sound
  <2>3. CASE slot'[i].session # 0
    <3>1. /\ slot'[i].session = slot[i].session /\ slot'[i].published = slot[i].published
          /\ slot'[i].state = slot[i].state /\ slot'[i].result = slot[i].result
          /\ \/ slot'[i].acknowledged = slot[i].acknowledged
             \/ slot'[i].acknowledged = k /\ slot[i].session = s
      BY <1>6, <2>3
    <3>2. slot[i].session \in Sessions /\ slot[i].acknowledged \in 0..3
      BY <1>1, <2>3, <3>1 DEF SlotType
    <3>3. slot'[i].acknowledged <= heard'[slot[i].session]
      <4>1. slot[i].acknowledged <= heard[slot[i].session]
        BY <2>1, <2>3, <3>1 DEF Sound
      <4> QED
        BY <1>1, <1>2, <1>8, <3>1, <3>2, <4>1
    <3> QED
      BY <1>3, <1>7, <2>1, <2>3, <3>1, <3>3 DEF Sound
  <2> QED
    BY <2>2, <2>3
<1>10. SpawnWaits'
  <2> SUFFICES ASSUME NEW p \in Owners, window'[p].at = "spawn"
               PROVE  /\ \A j \in Slots : slot'[j].session = window'[p].session =>
                           slot'[j].launcher = p
                      /\ \A q \in Owners : \A other \in window'[q].inbox :
                           other.session # window'[p].session
    BY DEF SpawnWaits
  <2>1. p # o /\ window'[p] = window[p]
    BY <1>4
  <2>2. /\ \A j \in Slots : slot[j].session = window[p].session => slot[j].launcher = p
        /\ \A q \in Owners : \A other \in window[q].inbox : other.session # window[p].session
        /\ window[p].session # 0
    BY <2>1 DEF Stages, SpawnWaits, IInv, Actors, WaitingSpawns, Sessions
  <2>3. \A j \in Slots : slot'[j].session = window[p].session => slot'[j].launcher = p
    BY <1>6, <2>2
  <2>4. \A q \in Owners : \A other \in window'[q].inbox : other \in window[q].inbox
    BY <1>4
  <2> QED
    BY <2>1, <2>2, <2>3, <2>4
<1>11. ASSUME NEW p \in Owners, NEW e \in window'[p].inbox
       PROVE  Collected(window[p].inbox, e)'
  <2>1. e \in window[p].inbox /\ Collected(window[p].inbox, e)
    BY <1>4, <1>11 DEF Stages, InboxInOrder
  <2>2. e.session \in Sessions /\ e.kind \in 1..3
    BY <2>1 DEF Collected, IInv, TypeOK, EventType
  <2>3. ASSUME NEW j \in 1..e.kind, j < e.kind, heard'[e.session] < j
        PROVE  \E other \in window'[p].inbox : other.session = e.session /\ other.kind = j
    <3>1. heard[e.session] \in 0..3 /\ j \in 1..3
      BY <1>1, <2>2
    <3>2. heard[e.session] < j /\ (e.session = s => k < j)
      BY <1>2, <1>8, <2>2, <2>3, <3>1
    <3>3. PICK other \in window[p].inbox : other.session = e.session /\ other.kind = j
      BY <2>1, <2>3, <3>2 DEF Collected
    <3>4. other # event
      BY <1>2, <3>1, <3>2, <3>3
    <3> QED
      BY <1>4, <3>3, <3>4
  <2> QED
    BY <1>7, <2>1, <2>3 DEF Collected
<1>12. InboxInOrder'
  BY <1>11 DEF InboxInOrder
<1>13. k = 3 => event.result = verdict[s] /\ verdict[s] # "none"
  BY <1>2 DEF Collected, IInv, Actors, EventsPublished
<1>14. HeardInOrder'
  <2> SUFFICES ASSUME NEW t \in Sessions, heard'[t] = 3
               PROVE  toldAs'[t] = verdict'[t] /\ verdict'[t] # "none"
    BY DEF HeardInOrder
  <2>1. CASE t = s /\ k = 3
    BY <1>7, <1>8, <1>13, <2>1
  <2>2. CASE t # s \/ k # 3
    <3>1. heard[t] = 3 /\ toldAs'[t] = toldAs[t]
      BY <1>2, <1>8, <2>2
    <3> QED
      BY <1>7, <3>1 DEF Stages, HeardInOrder
  <2> QED
    BY <2>1, <2>2
<1>15. Stages'
  BY <1>9, <1>10, <1>12, <1>14 DEF Stages
<1>16. CASE k <= heard[s]
  <2>1. heard' = heard
    BY <1>1, <1>2, <1>3, <1>16
  <2>2. toldAs' = toldAs
    <3>1. k = 3 => toldAs[s] = event.result
      BY <1>2, <1>8, <1>13, <1>16 DEF Stages, HeardInOrder
    <3> QED
      BY <1>1, <1>3, <3>1
  <2> QED
    BY <1>7, <1>15, <2>1, <2>2 DEF Steady, Lifecycle!lifecycleVars
<1>17. CASE ~(k <= heard[s])
  <2>1. k = heard[s] + 1
    <3> SUFFICES ASSUME heard[s] + 1 < k PROVE FALSE
      BY <1>2, <1>8, <1>17
    <3>1. heard[s] + 1 \in 1..k /\ heard[s] < heard[s] + 1
      BY <1>2, <1>8
    <3>2. PICK other \in window[o].inbox : other.session = s /\ other.kind = heard[s] + 1
      BY <1>2, <3>1 DEF Collected
    <3>3. other \in rest
      BY <1>8, <3>2
    <3> QED
      BY <1>2, <1>3, <1>8, <3>2, <3>3
  <2>2. heard[s] < stageOf[s] /\ (stageOf[s] = 3 => verdict[s] # "none")
    <3>1. k <= stageOf[s] /\ stageOf[s] \in 0..3
      BY <1>2, StagesAreTyped DEF Collected
    <3> QED
      BY <1>2, <1>8, <2>1, <3>1 DEF Collected
  <2>3. heard' = [heard EXCEPT ![s] = @ + 1]
    <3>1. k > heard[s]
      BY <1>8, <2>1
    <3>2. heard' = [heard EXCEPT ![s] = k]
      BY <1>3, <3>1
    <3> QED
      BY <2>1, <3>2
  <2>4. toldAs' = IF heard[s] = 2 THEN [toldAs EXCEPT ![s] = verdict[s]] ELSE toldAs
    <3>1. k = 3 <=> heard[s] = 2
      BY <1>8, <2>1
    <3> QED
      BY <1>3, <1>13, <3>1
  <2>5. Lifecycle!Hear(s)
    BY <1>7, <2>2, <2>3, <2>4 DEF Lifecycle!Hear
  <2> QED
    BY <1>2, <1>15, <2>5 DEF Steady, Lifecycle!Next
<1> QED
  BY <1>16, <1>17

LEMMA StepIsSteady ==
  ASSUME IInv, Stages, [Next]_vars PROVE Stages' /\ Steady
<1>1. IInv'
  BY StepKeepsInvariant
<1>2. CASE UNCHANGED vars
  BY <1>1, <1>2, KeptTableIsSteady DEF vars, told, KeepTable
<1>3. ASSUME NEW o \in Owners, Reserve(o) \/ WindowStep(o) \/ Scan(o) \/ OwnerCrash(o)
      PROVE  Stages' /\ Steady
  BY <1>1, <1>3, ReserveIsSteady, SpawnFailsIsSteady, OwnersRest, PollIsSteady, HandleIsSteady,
     ScanIsSteady DEF WindowStep
<1>4. ASSUME NEW s \in Sessions,
             Cancel(s) \/ WorkerStep(s) \/ Finish(s) \/ WatchStep(s) \/ WorkerCrash(s)
      PROVE  Stages' /\ Steady
  BY <1>1, <1>4, CancelIsSteady, WorkersAreSteady
<1>5. ASSUME NEW i \in Slots, Age(i) PROVE Stages' /\ Steady
  BY <1>1, <1>5, AgeIsSteady
<1> QED
  BY <1>2, <1>3, <1>4, <1>5 DEF Next

LEMMA InitIsSteady ==
  ASSUME Init PROVE Stages /\ Lifecycle!Init
<1>1. SoundSlots
  BY DEF Init, SoundSlots, Sound, EmptySlot
<1>2. SpawnWaits /\ InboxInOrder
  BY DEF Init, SpawnWaits, InboxInOrder, IdleWindow
<1>3. HeardInOrder
  BY DEF Init, HeardInOrder
<1>4. stageOf = [s \in Sessions |-> 0]
  <2>1. \A s \in Sessions : s >= nextSession
    BY DEF Init, Sessions
  <2> QED
    BY <2>1 DEF stageOf
<1> QED
  BY <1>1, <1>2, <1>3, <1>4 DEF Init, Stages, Lifecycle!Init

\* The table implements the lifecycle of TaskLifecycle for any number of slots,
\* launchers and tasks, with busy locks and crashes: a task is taken once, its
\* verdict stands, and its launcher hears of the stages one after the other, with
\* the verdict that ended the task.
THEOREM TableImplementsLifecycle == Spec => ImplementsLifecycle
<1>1. Init => IInv /\ Stages /\ Lifecycle!Init
  BY InitHasInvariant, InitIsSteady
<1>2. IInv /\ Stages /\ [Next]_vars =>
        IInv' /\ Stages' /\ [Lifecycle!Next]_Lifecycle!lifecycleVars
  BY StepKeepsInvariant, StepIsSteady DEF Steady, Lifecycle!lifecycleVars
<1> QED
  BY <1>1, <1>2, PTL DEF Spec, ImplementsLifecycle, Lifecycle!Spec

\* No event is skipped, also where a poll or an acknowledgement found the lock
\* busy: heard grows by one at a time.
THEOREM HearsWithoutGap == Spec => EventsGapless
<1>1. ASSUME IInv, Stages, [Next]_vars
      PROVE  \A s \in Sessions : heard'[s] <= heard[s] + 1
  <2> SUFFICES ASSUME NEW s \in Sessions PROVE heard'[s] <= heard[s] + 1
    OBVIOUS
  <2>1. heard \in [Sessions -> 0..3] /\ Steady
    BY <1>1, StepIsSteady DEF IInv, TypeOK
  <2>2. heard' = heard \/ \E t \in Sessions : heard' = [heard EXCEPT ![t] = @ + 1]
    BY <2>1 DEF Steady, Lifecycle!Next, Lifecycle!lifecycleVars, Lifecycle!Offer, Lifecycle!Take,
       Lifecycle!Finish, Lifecycle!Withdraw, Lifecycle!Lapse, Lifecycle!Hear
  <2> QED
    BY <2>1, <2>2
<1>2. Init => IInv /\ Stages
  BY InitHasInvariant, InitIsSteady
<1>3. IInv /\ Stages /\ [Next]_vars => IInv' /\ Stages'
  BY StepKeepsInvariant, StepIsSteady
<1>4. IInv /\ Stages /\ [Next]_vars =>
        [\A s \in Sessions : heard'[s] <= heard[s] + 1]_vars
  BY <1>1
<1> QED
  BY <1>2, <1>3, <1>4, PTL DEF Spec, EventsGapless

\* A slot leaves its task where it is acknowledged to the end, and where its
\* worker was not started.
LEMMA StepKeepsSlots ==
  ASSUME IInv, [Next]_vars, NEW i \in Slots, slot[i].session # 0,
         slot'[i].session # slot[i].session
  PROVE  \/ heard'[slot[i].session] = 3
         \/ \E o \in Owners : window[o].at = "spawn" /\ window[o].session = slot[i].session
<1> DEFINE s == slot[i].session
<1>1. /\ Reclaimed = slot /\ slot \in [Slots -> SlotType] /\ slot[i] \in SlotType
      /\ s \in Sessions /\ Shape(slot[i]) /\ heard \in [Sessions -> 0..3]
  BY NothingToReclaim DEF IInv, TypeOK, SlotType, Table, GoodSlots
<1>2. ASSUME NEW o \in Owners, NEW event \in window[o].inbox, Handle(o, event)
      PROVE  heard'[s] = 3
  <2>1. /\ event.session = s /\ slot'[i] = Acknowledge(slot[i], event.kind)
        /\ event.kind \in 1..3
    BY <1>1, <1>2 DEF Handle, Store, KeepTable, Matches, IInv, TypeOK, EventType
  <2>2. event.kind = 3
    <3>1. ASSUME event.kind # 3 PROVE FALSE
      <4>1. slot[i].acknowledged \in 0..2
        BY <1>1 DEF Shape, SlotType
      <4>2. Acknowledge(slot[i], event.kind).session = s
        BY <1>1, <2>1, <3>1, <4>1 DEF Acknowledge, SlotType
      <4> QED
        BY <2>1, <4>2
    <3> QED
      BY <3>1
  <2> QED
    BY <1>1, <1>2, <2>1, <2>2 DEF Handle
<1>3. ASSUME NEW o \in Owners, SpawnFails(o)
      PROVE  window[o].at = "spawn" /\ window[o].session = s
  BY <1>1, <1>3 DEF SpawnFails, Store, KeepTable, Matches, IInv, TypeOK
<1>4. ASSUME NEW o \in Owners, Scan(o) PROVE FALSE
  <2>1. \/ slot'[i] = slot[i]
        \/ \E result \in Results \ {"none"} : slot'[i] = PublishCompletion(slot[i], result)
    BY <1>1, <1>4 DEF Scan, Store, Results
  <2> QED
    BY <1>1, <2>1, CompletionIsSlot
<1>5. ASSUME NEW o \in Owners, Reserve(o) PROVE FALSE
  <2>1. PICK j \in Slots : slot[j].state = "Empty" /\ slot' = [slot EXCEPT ![j] = Dispatched(@, o)]
    BY <1>1, <1>5 DEF Reserve, Store
  <2>2. j # i
    BY <1>1, <2>1 DEF Shape
  <2> QED
    BY <1>1, <2>1, <2>2
<1>6. ASSUME NEW o \in Owners, Spawn(o) \/ Record(o) \/ PostDispatched(o) \/ Poll(o) \/ OwnerCrash(o)
      PROVE  FALSE
  <2>1. \/ slot' = slot
        \/ slot' = [slot EXCEPT ![window[o].slot] = [@ EXCEPT !.aged = FALSE]]
    BY <1>1, <1>6 DEF Spawn, Record, PostDispatched, Poll, OwnerCrash, Store, KeepTable
  <2> QED
    BY <1>1, <2>1 DEF SlotType
<1>7. ASSUME NEW t \in Sessions, Cancel(t) PROVE FALSE
  <2>1. \/ slot' = slot
        \/ \E j \in Slots : slot' = [slot EXCEPT ![j] = [@ EXCEPT !.cancel = TRUE, !.aged = FALSE]]
    BY <1>1, <1>7 DEF Cancel, Store
  <2>2. slot'[i] = slot[i] \/ slot'[i] = [slot[i] EXCEPT !.cancel = TRUE, !.aged = FALSE]
    BY <1>1, <2>1
  <2> QED
    BY <1>1, <2>2 DEF SlotType
<1>8. ASSUME NEW t \in Sessions, WorkerStep(t) \/ Finish(t) \/ WatchStep(t) \/ WorkerCrash(t)
      PROVE  FALSE
  <2>1. CASE Claim(t)
    <3>1. \/ slot' = slot
          \/ \E j \in Slots : slot' = [slot EXCEPT ![j] = PublishStage([@ EXCEPT !.state = "Claimed"], 2)]
      BY <1>1, <2>1 DEF Claim, Store, KeepTable
    <3>2. \/ slot'[i] = slot[i]
          \/ slot'[i] = PublishStage([slot[i] EXCEPT !.state = "Claimed"], 2)
      BY <1>1, <3>1
    <3>3. PublishStage([slot[i] EXCEPT !.state = "Claimed"], 2).session = s
      BY <1>1 DEF PublishStage, SlotType
    <3> QED
      BY <3>2, <3>3
  <2>2. CASE Publish(t)
    <3>1. \/ slot' = slot
          \/ slot' = [slot EXCEPT ![worker[t].slot] = PublishCompletion(@, worker[t].result)]
      BY <2>2 DEF Publish, Store, KeepTable
    <3>2. worker[t].result \in Results \ {"none"}
      BY DEF IInv, TypeOK, Results, Outcomes
    <3>3. slot'[i] = slot[i] \/ slot'[i] = PublishCompletion(slot[i], worker[t].result)
      BY <1>1, <3>1
    <3> QED
      BY <1>1, <3>2, <3>3, CompletionIsSlot
  <2>3. CASE StoreResult(t) \/ StoreEvent(t) \/ StoreState(t)
    <3>1. \/ slot'[i] = [slot[i] EXCEPT !.result = worker[t].result, !.aged = FALSE]
          \/ slot'[i] = [slot[i] EXCEPT !.published = 3]
          \/ slot'[i] = [slot[i] EXCEPT !.state = "Completed"]
          \/ slot'[i] = slot[i]
      BY <1>1, <2>3 DEF StoreResult, StoreEvent, StoreState, Store
    <3> QED
      BY <1>1, <3>1 DEF SlotType
  <2>4. CASE UNCHANGED slot
    BY <2>4
  <2> QED
    BY <1>8, <2>1, <2>2, <2>3, <2>4 DEF WorkerStep, WatchStep, PostClaimed, StartWatch, WatchWakes,
       WatchAsks, Finish, CheckMinimal, PostCompleted, WorkerCrash
<1>9. ASSUME NEW j \in Slots, Age(j) PROVE FALSE
  BY <1>1, <1>9 DEF Age, SlotType
<1>10. CASE UNCHANGED vars
  BY <1>10 DEF vars
<1> QED
  BY <1>2, <1>3, <1>4, <1>5, <1>6, <1>7, <1>8, <1>9, <1>10 DEF Next, WindowStep

\* No slot is taken from a task whose completion its launcher has not handled,
\* but for a task whose worker could not be started.
THEOREM KeepsSlotsUntilHeard == Spec => SlotKeptUntilHeard
<1>1. IInv /\ [Next]_vars =>
        [\A i \in Slots : LET s == slot[i].session IN
           s # 0 /\ slot'[i].session # s =>
             \/ heard'[s] = 3
             \/ \E o \in Owners : window[o].at = "spawn" /\ window[o].session = s]_vars
  BY StepKeepsSlots
<1>2. IInv /\ [Next]_vars => IInv'
  BY StepKeepsInvariant
<1> QED
  BY <1>1, <1>2, InitHasInvariant, PTL DEF Spec, SlotKeptUntilHeard

-----------------------------------------------------------------------------
(* Events once, where no lock is ever busy.                                *)

\* Nothing was heard of the task in the slot that is not acknowledged there.
Unheard(e) == e.session # 0 => heard[e.session] <= e.acknowledged

\* What was collected is still to be heard, comes from the slot that its task is
\* in, if it is in one yet, and was collected by one launcher.
FreshEvent(o, event) ==
  /\ event.session \in Sessions /\ event.session < nextSession
  /\ heard[event.session] < event.kind
  /\ \A i \in Slots : slot[i].session = event.session =>
       slot[i].generation = event.generation /\ slot[i].launcher = o
  /\ \A p \in Owners : \A other \in window[p].inbox : other.session = event.session => p = o

UnheardSlots == \A i \in Slots : Unheard(slot[i])
UnheardFuture == \A s \in Sessions : s >= nextSession => heard[s] = 0
FreshInboxes == \A o \in Owners : \A event \in window[o].inbox : FreshEvent(o, event)

Once == UnheardSlots /\ UnheardFuture /\ FreshInboxes

\* e is d with its task where it was acknowledged last and no cancel forgotten, or
\* has lost its task.
Keeps(d, e) ==
  \/ e.session = 0
  \/ /\ e.session = d.session /\ e.generation = d.generation
     /\ e.launcher = d.launcher /\ e.acknowledged = d.acknowledged
     /\ d.cancel => e.cancel

\* Publications touch no acknowledgement.
LEMMA StageKeeps ==
  ASSUME NEW d \in SlotType, NEW kind \in 1..3 PROVE Keeps(d, PublishStage(d, kind))
BY DEF Keeps, PublishStage, SlotType

LEMMA CompletionKeeps ==
  ASSUME NEW d \in SlotType, NEW result \in Results \ {"none"}
  PROVE  Keeps(d, PublishCompletion(d, result))
<1> DEFINE e == [d EXCEPT !.state = "Completed", !.result = result]
<1>1. e \in SlotType
  BY DEF SlotType, States
<1>2. /\ e.session = d.session /\ e.generation = d.generation
      /\ e.launcher = d.launcher /\ e.acknowledged = d.acknowledged /\ e.cancel = d.cancel
  BY DEF SlotType
<1> HIDE DEF e
<1>3. Keeps(e, PublishStage(e, 3))
  BY <1>1, StageKeeps
<1> QED
  BY <1>2, <1>3 DEF Keeps, PublishCompletion, e

\* Nothing is heard, dispatched or acknowledged.
AllKept ==
  /\ \A i \in Slots : Keeps(slot[i], slot'[i])
  /\ UNCHANGED <<nextSession, heard>>

LEMMA OneSlotKept ==
  ASSUME slot \in [Slots -> SlotType], UNCHANGED <<nextSession, heard>>,
         NEW j \in Slots, NEW e, Keeps(slot[j], e), slot' = [slot EXCEPT ![j] = e]
  PROVE  AllKept
BY DEF AllKept, Keeps

\* The steps of launchers and of their monitors, but a dispatch and the handling
\* of an event.
LEMMA OwnersKeep ==
  ASSUME IInv, NEW o \in Owners,
         \/ Spawn(o) \/ SpawnFails(o) \/ Record(o) \/ PostDispatched(o)
         \/ Poll(o) \/ Scan(o) \/ OwnerCrash(o)
  PROVE  AllKept
<1>1. Reclaimed = slot /\ slot \in [Slots -> SlotType]
  BY NothingToReclaim DEF IInv, TypeOK
<1>2. UNCHANGED <<nextSession, heard>>
  BY DEF Spawn, SpawnFails, Record, PostDispatched, Poll, Scan, OwnerCrash, told
<1>3. CASE Spawn(o) \/ PostDispatched(o) \/ Poll(o) \/ OwnerCrash(o)
  <2>1. slot' = slot
    BY <1>1, <1>3 DEF Spawn, PostDispatched, Poll, OwnerCrash, Store, KeepTable
  <2> QED
    BY <1>2, <2>1 DEF AllKept, Keeps
<1>4. CASE SpawnFails(o) \/ Record(o)
  <2> DEFINE j == window[o].slot
  <2>1. j \in Slots
    BY DEF IInv, TypeOK
  <2>2. \/ slot' = slot
        \/ slot' = [slot EXCEPT ![j] = Cleared(slot[j])]
        \/ slot' = [slot EXCEPT ![j] = [slot[j] EXCEPT !.aged = FALSE]]
    BY <1>4, <2>1 DEF SpawnFails, Record, Store, KeepTable
  <2>3. Keeps(slot[j], Cleared(slot[j]))
    BY DEF Keeps, Cleared, EmptySlot
  <2>4. Keeps(slot[j], [slot[j] EXCEPT !.aged = FALSE])
    BY <1>1, <2>1 DEF Keeps, SlotType
  <2>5. slot' = slot => AllKept
    BY <1>2 DEF AllKept, Keeps
  <2> QED
    BY <1>1, <1>2, <2>1, <2>2, <2>3, <2>4, <2>5, OneSlotKept
<1>5. CASE Scan(o)
  <2>1. ASSUME NEW i \in Slots PROVE Keeps(slot[i], slot'[i])
    <3>1. \/ slot'[i] = slot[i]
          \/ \E result \in Results \ {"none"} : slot'[i] = PublishCompletion(slot[i], result)
      BY <1>1, <1>5 DEF Scan, Store, Results
    <3>2. Keeps(slot[i], slot[i])
      BY DEF Keeps
    <3> QED
      BY <1>1, <3>1, <3>2, CompletionKeeps
  <2> QED
    BY <1>2, <2>1 DEF AllKept
<1> QED
  BY <1>3, <1>4, <1>5

LEMMA CancelKeeps ==
  ASSUME IInv, NEW s \in Sessions, Cancel(s)
  PROVE  AllKept
<1>1. Reclaimed = slot /\ slot \in [Slots -> SlotType]
  BY NothingToReclaim DEF IInv, TypeOK
<1>2. UNCHANGED <<nextSession, told>>
  BY DEF Cancel
<1>3. UNCHANGED <<nextSession, heard>>
  BY <1>2 DEF told
<1>4. CASE Store(slot)
  BY <1>3, <1>4 DEF Store, AllKept, Keeps
<1>5. ASSUME NEW i \in Slots, Store([slot EXCEPT ![i] = [@ EXCEPT !.cancel = TRUE, !.aged = FALSE]])
      PROVE  AllKept
  <2> DEFINE e == [slot[i] EXCEPT !.cancel = TRUE, !.aged = FALSE]
  <2>1. Keeps(slot[i], e)
    BY <1>1 DEF Keeps, SlotType
  <2>2. slot' = [slot EXCEPT ![i] = e]
    BY <1>5 DEF Store
  <2> HIDE DEF e
  <2> QED
    BY <1>1, <1>3, <2>1, <2>2, OneSlotKept
<1> QED
  BY <1>1, <1>4, <1>5 DEF Cancel

LEMMA WorkersKeep ==
  ASSUME IInv, NEW s \in Sessions,
         WorkerStep(s) \/ Finish(s) \/ WatchStep(s) \/ WorkerCrash(s)
  PROVE  AllKept
<1> DEFINE j == worker[s].slot
<1>1. /\ Reclaimed = slot /\ slot \in [Slots -> SlotType] /\ j \in Slots
      /\ worker[s].result \in Results \ {"none"}
  BY NothingToReclaim DEF IInv, TypeOK, Results, Outcomes
<1>2. UNCHANGED <<nextSession, heard>>
  <2>1. UNCHANGED <<nextSession, told>>
    BY DEF WorkerStep, WatchStep, Claim, PostClaimed, StartWatch, Publish, StoreResult,
       StoreEvent, StoreState, WatchWakes, WatchAsks, Finish, CheckMinimal, PostCompleted,
       WorkerCrash
  <2> QED
    BY <2>1 DEF told
<1>3. slot' = slot => AllKept
  BY <1>2 DEF AllKept, Keeps
<1>4. CASE Claim(s)
  <2>1. CASE KeepTable \/ Store(slot)
    BY <1>3, <2>1 DEF KeepTable, Store
  <2>2. ASSUME NEW i \in Slots,
               Store([slot EXCEPT ![i] = PublishStage([@ EXCEPT !.state = "Claimed"], 2)])
        PROVE  AllKept
    <3> DEFINE d == [slot[i] EXCEPT !.state = "Claimed"]
               e == PublishStage(d, 2)
    <3>1. slot' = [slot EXCEPT ![i] = e]
      BY <2>2 DEF Store
    <3>2. /\ d \in SlotType
          /\ d.session = slot[i].session /\ d.generation = slot[i].generation
          /\ d.launcher = slot[i].launcher /\ d.acknowledged = slot[i].acknowledged
          /\ d.cancel = slot[i].cancel
      BY <1>1 DEF SlotType, States
    <3> HIDE DEF d
    <3>3. Keeps(d, e)
      BY <3>2, StageKeeps
    <3> HIDE DEF e
    <3>4. Keeps(slot[i], e)
      BY <3>2, <3>3 DEF Keeps
    <3> QED
      BY <1>1, <1>2, <3>1, <3>4, OneSlotKept
  <2> QED
    BY <1>1, <1>4, <2>1, <2>2 DEF Claim
<1>5. CASE Publish(s)
  <2>1. \/ slot' = slot
        \/ slot' = [slot EXCEPT ![j] = PublishCompletion(slot[j], worker[s].result)]
    BY <1>5 DEF Publish, Store, KeepTable
  <2>2. Keeps(slot[j], PublishCompletion(slot[j], worker[s].result))
    BY <1>1, CompletionKeeps
  <2> QED
    BY <1>1, <1>2, <1>3, <2>1, <2>2, OneSlotKept
<1>6. CASE StoreResult(s) \/ StoreEvent(s) \/ StoreState(s)
  <2>1. \/ slot' = [slot EXCEPT ![j] = [slot[j] EXCEPT !.result = worker[s].result, !.aged = FALSE]]
        \/ slot' = [slot EXCEPT ![j] = [slot[j] EXCEPT !.published = 3]]
        \/ slot' = [slot EXCEPT ![j] = [slot[j] EXCEPT !.state = "Completed"]]
    BY <1>1, <1>6 DEF StoreResult, StoreEvent, StoreState, Store
  <2>2. /\ Keeps(slot[j], [slot[j] EXCEPT !.result = worker[s].result, !.aged = FALSE])
        /\ Keeps(slot[j], [slot[j] EXCEPT !.published = 3])
        /\ Keeps(slot[j], [slot[j] EXCEPT !.state = "Completed"])
    BY <1>1 DEF Keeps, SlotType
  <2> QED
    BY <1>1, <1>2, <2>1, <2>2, OneSlotKept
<1> QED
  BY <1>3, <1>4, <1>5, <1>6 DEF WorkerStep, WatchStep, PostClaimed, StartWatch, WatchWakes,
     WatchAsks, Finish, CheckMinimal, PostCompleted, WorkerCrash, KeepTable

LEMMA AgeKeeps ==
  ASSUME IInv, NEW i \in Slots, Age(i)
  PROVE  AllKept
<1>1. slot \in [Slots -> SlotType]
  BY DEF IInv, TypeOK
<1>2. Keeps(slot[i], [slot[i] EXCEPT !.aged = TRUE])
  BY <1>1 DEF Keeps, SlotType
<1> QED
  BY <1>1, <1>2, OneSlotKept DEF Age, told

\* Only a poll puts events into an inbox.
LEMMA WindowsCollectLess ==
  ASSUME IInv, NEW o \in Owners, NEW p \in Owners,
         \/ Reserve(o) \/ Spawn(o) \/ SpawnFails(o) \/ Record(o) \/ PostDispatched(o)
         \/ Scan(o) \/ OwnerCrash(o)
  PROVE  window'[p].inbox \subseteq window[p].inbox
<1>1. window \in [Owners -> WindowType] /\ Reclaimed = slot
  BY NothingToReclaim DEF IInv, TypeOK, WindowType
<1>2. CASE Reserve(o)
  <2>1. PICK i \in Slots :
          window' = [window EXCEPT ![o] = [@ EXCEPT !.at = "spawn", !.slot = i,
                       !.session = nextSession, !.generation = slot[i].generation]]
    BY <1>1, <1>2 DEF Reserve
  <2> QED
    BY <1>1, <2>1 DEF WindowType
<1>3. CASE OwnerCrash(o) \/ WindowTo(o, "idle")
  BY <1>1, <1>3 DEF OwnerCrash, WindowTo, IdleWindow
<1>4. CASE WindowTo(o, "record") \/ WindowTo(o, "post")
  BY <1>1, <1>4 DEF WindowTo, WindowType
<1>5. CASE Scan(o)
  BY <1>5 DEF Scan
<1> QED
  BY <1>2, <1>3, <1>4, <1>5 DEF Spawn, SpawnFails, Record, PostDispatched

\* Nobody but a window touches an inbox.
LEMMA OthersCollectNothing ==
  ASSUME NEW s \in Sessions,
         Cancel(s) \/ WorkerStep(s) \/ Finish(s) \/ WatchStep(s) \/ WorkerCrash(s)
  PROVE  UNCHANGED window
BY DEF Cancel, WorkerStep, Claim, PostClaimed, StartWatch, Publish, CheckMinimal, StoreResult,
   StoreEvent, StoreState, PostCompleted, Finish, WatchStep, WatchWakes, WatchAsks, WorkerCrash

\* Where nothing is heard, dispatched or collected the invariant stays.
LEMMA KeptOnce ==
  ASSUME IInv, Once, AllKept,
         \A p \in Owners : window'[p].inbox \subseteq window[p].inbox
  PROVE  Once'
<1>1. UnheardSlots'
  BY DEF Once, UnheardSlots, Unheard, AllKept, Keeps
<1>2. UnheardFuture'
  BY DEF Once, UnheardFuture, AllKept
<1>3. ASSUME NEW o \in Owners, NEW event \in window'[o].inbox PROVE FreshEvent(o, event)'
  <2>1. FreshEvent(o, event)
    BY <1>3 DEF Once, FreshInboxes
  <2>2. \A i \in Slots : slot'[i].session = event.session =>
          slot'[i].generation = event.generation /\ slot'[i].launcher = o
    <3>1. event.session # 0
      BY <2>1 DEF FreshEvent, Sessions
    <3> QED
      BY <2>1, <3>1 DEF FreshEvent, AllKept, Keeps
  <2> QED
    BY <2>1, <2>2 DEF FreshEvent, AllKept
<1> QED
  BY <1>1, <1>2, <1>3 DEF Once, FreshInboxes

\* A dispatch puts a task into a slot that nobody has heard of.
LEMMA ReserveKeepsOnce ==
  ASSUME IInv, Once, NEW o \in Owners, Reserve(o)
  PROVE  Once'
<1>1. /\ Reclaimed = slot /\ slot \in [Slots -> SlotType] /\ UNCHANGED heard
      /\ nextSession \in Sessions /\ nextSession \in Int /\ nextSession' = nextSession + 1
      /\ heard \in [Sessions -> 0..3] /\ Sessions \subseteq Int
  BY NothingToReclaim DEF Reserve, IInv, TypeOK, told, Sessions
<1>2. PICK i \in Slots : slot' = [slot EXCEPT ![i] = Dispatched(@, o)]
  BY <1>1 DEF Reserve, Store
<1>3. \A j \in Slots : j # i => slot'[j] = slot[j]
  BY <1>1, <1>2
<1>4. slot'[i].session = nextSession /\ slot'[i].acknowledged = 0
  BY <1>1, <1>2 DEF Dispatched, SlotType
<1>5. UnheardSlots'
  BY <1>1, <1>3, <1>4 DEF Once, UnheardSlots, UnheardFuture, Unheard
<1>6. UnheardFuture'
  BY <1>1 DEF Once, UnheardFuture
<1>7. ASSUME NEW p \in Owners, NEW event \in window'[p].inbox PROVE FreshEvent(p, event)'
  <2>1. \A q \in Owners : window'[q].inbox \subseteq window[q].inbox
    BY WindowsCollectLess
  <2>2. FreshEvent(p, event)
    BY <1>7, <2>1 DEF Once, FreshInboxes
  <2>3. event.session \in Int /\ event.session < nextSession
    BY <1>1, <2>2 DEF FreshEvent
  <2>4. event.session # nextSession /\ event.session < nextSession'
    BY <1>1, <2>3
  <2> QED
    BY <1>1, <1>3, <1>4, <2>1, <2>2, <2>4 DEF FreshEvent
<1> QED
  BY <1>5, <1>6, <1>7 DEF Once, FreshInboxes

\* A poll collects from its own slots what comes after the last acknowledged.
LEMMA PollKeepsOnce ==
  ASSUME IInv, Once, NEW o \in Owners, Poll(o) PROVE Once'
<1>1. /\ Reclaimed = slot /\ slot \in [Slots -> SlotType] /\ window \in [Owners -> WindowType]
      /\ UNCHANGED <<nextSession, heard>> /\ heard \in [Sessions -> 0..3] /\ slot' = slot
  BY NothingToReclaim DEF Poll, Store, KeepTable, told, IInv, TypeOK, WindowType
<1>2. UnheardSlots' /\ UnheardFuture'
  BY <1>1 DEF Once, UnheardSlots, UnheardFuture, Unheard
<1> DEFINE events == UNION {Pending(o, slot[i]) : i \in Slots}
<1>3. \/ UNCHANGED window
      \/ /\ \A p \in Owners \ {o} : window'[p] = window[p]
         /\ window'[o].inbox = events
  <2>1. \/ UNCHANGED window
        \/ window' = [window EXCEPT ![o] = [window[o] EXCEPT !.at = "handle", !.inbox = events]]
    BY <1>1 DEF Poll
  <2> HIDE DEF events
  <2>2. [window[o] EXCEPT !.at = "handle", !.inbox = events].inbox = events
    BY <1>1 DEF WindowType
  <2> QED
    BY <1>1, <2>1, <2>2
<1> HIDE DEF events
<1>4. ASSUME NEW event \in events
      PROVE  \E i \in Slots :
               /\ slot[i].session = event.session /\ event.session # 0
               /\ slot[i].launcher = o /\ slot[i].generation = event.generation
               /\ heard[event.session] < event.kind
               /\ event.session \in Sessions
  <2>1. PICK i \in Slots : event \in Pending(o, slot[i])
    BY DEF events
  <2> DEFINE d == slot[i]
  <2>2. PICK kind \in d.acknowledged + 1..d.published :
          /\ event = [session |-> d.session, generation |-> d.generation, kind |-> kind,
                      result |-> d.result]
          /\ d.launcher = o
    BY <2>1 DEF Pending
  <2>3. event.session = d.session /\ event.generation = d.generation /\ event.kind = kind
    BY <2>2
  <2>4. d.acknowledged \in 0..3 /\ d.published \in 0..3 /\ d.session \in Sessions \cup {0}
    BY <1>1 DEF SlotType
  <2>5. d.session # 0 /\ d.session \in Sessions
    BY <2>2, <2>4 DEF IInv, Table, GoodSlots, Shape
  <2>6. heard[d.session] <= d.acknowledged /\ heard[d.session] \in 0..3
    BY <1>1, <2>5 DEF Once, UnheardSlots, Unheard
  <2>7. heard[d.session] < kind
    BY <2>2, <2>4, <2>6
  <2> QED
    BY <2>2, <2>3, <2>5, <2>7
<1>5. ASSUME NEW p \in Owners, NEW event \in window'[p].inbox PROVE FreshEvent(p, event)'
  <2>1. CASE UNCHANGED window
    BY <1>1, <1>5, <2>1 DEF Once, FreshInboxes, FreshEvent
  <2>2. CASE window'[o].inbox = events /\ \A q \in Owners \ {o} : window'[q] = window[q]
    <3>1. ASSUME NEW q \in Owners, NEW other \in window'[q].inbox, q # o
          PROVE  FreshEvent(q, other)
      BY <2>2, <3>1 DEF Once, FreshInboxes
\* An event of another launcher is of another task: its slot would be theirs.
    <3>2. ASSUME NEW q \in Owners, NEW other \in window'[q].inbox, q # o, NEW mine \in events
          PROVE  other.session # mine.session
      BY <1>4, <3>1, <3>2 DEF FreshEvent
    <3>3. CASE p = o
      <4>1. PICK i \in Slots :
              /\ slot[i].session = event.session /\ event.session # 0
              /\ slot[i].launcher = o /\ slot[i].generation = event.generation
              /\ heard[event.session] < event.kind
              /\ event.session \in Sessions
        BY <1>4, <1>5, <2>2, <3>3
      <4>2. event.session < nextSession /\ \A j \in Slots : slot[j].session = event.session => j = i
        BY <4>1 DEF IInv, Table, GoodSlots, SessionsDiffer
      <4>3. \A q \in Owners : \A other \in window'[q].inbox : other.session = event.session => q = o
        BY <1>5, <2>2, <3>2, <3>3
      <4> QED
        BY <1>1, <3>3, <4>1, <4>2, <4>3 DEF FreshEvent
    <3>4. CASE p # o
      <4>1. FreshEvent(p, event) /\ event \in window[p].inbox
        BY <1>5, <2>2, <3>1, <3>4
      <4>2. \A q \in Owners : \A other \in window'[q].inbox : other.session = event.session => q = p
        <5>1. ASSUME NEW q \in Owners, NEW other \in window'[q].inbox, other.session = event.session
              PROVE  q = p
          <6>1. CASE q = o
            BY <1>5, <2>2, <3>2, <3>4, <5>1, <6>1
          <6>2. CASE q # o
            BY <2>2, <4>1, <5>1, <6>2 DEF FreshEvent
          <6> QED
            BY <6>1, <6>2
        <5> QED
          BY <5>1
      <4> QED
        BY <1>1, <4>1, <4>2 DEF FreshEvent
    <3> QED
      BY <3>3, <3>4
  <2> QED
    BY <1>3, <2>1, <2>2
<1> QED
  BY <1>2, <1>5 DEF Once, FreshInboxes

\* Where the acknowledgement gets its lock, the slot of the event notes it or is
\* cleared, and what else was collected of the task comes later.
LEMMA HandleKeepsOnce ==
  ASSUME IInv, Once, ~Contended, NEW o \in Owners, NEW event \in window[o].inbox, Handle(o, event)
  PROVE  Once'
<1> DEFINE s == event.session
           k == event.kind
           its == {i \in Slots : /\ Matches(slot[i], event.session, event.generation)
                                 /\ slot[i].launcher = o}
<1>1. /\ slot \in [Slots -> SlotType] /\ heard \in [Sessions -> 0..3]
      /\ \A p \in Owners : window[p].inbox \subseteq EventType
      /\ window \in [Owners -> WindowType]
  BY DEF IInv, TypeOK, WindowType
<1>2. FreshEvent(o, event) /\ s \in Sessions /\ s # 0 /\ k \in 1..3 /\ heard[s] < k
  BY <1>1 DEF Once, FreshInboxes, FreshEvent, EventType, Sessions
<1>3. /\ UNCHANGED nextSession
      /\ heard'[s] = k /\ \A t \in Sessions \ {s} : heard'[t] = heard[t]
      /\ \A other \in window[o].inbox \ {event} : other.session = s => k < other.kind
  BY <1>1, <1>2 DEF Handle
<1>4. /\ \A p \in Owners \ {o} : window'[p] = window[p]
      /\ window'[o].inbox = window[o].inbox \ {event}
  BY <1>1 DEF Handle, IdleWindow, WindowType
<1>5. \A i \in Slots : slot'[i] = IF i \in its THEN Acknowledge(slot[i], k) ELSE slot[i]
  BY DEF Handle, Store
<1>6. ASSUME NEW i \in Slots, slot[i].session = s
      PROVE  \/ slot'[i].session = 0
             \/ /\ slot'[i].session = s /\ k <= slot'[i].acknowledged
                /\ slot'[i].generation = slot[i].generation /\ slot'[i].launcher = slot[i].launcher
  <2>1. i \in its
    BY <1>2, <1>6 DEF FreshEvent, Matches
  <2>2. slot'[i] = Acknowledge(slot[i], k)
    BY <1>5, <2>1
  <2>3. slot[i] \in SlotType /\ slot[i].acknowledged \in 0..3 /\ k \in 1..3
    BY <1>1, <1>2 DEF SlotType
  <2> QED
    BY <1>6, <2>2, <2>3 DEF Acknowledge, Cleared, EmptySlot, SlotType
<1>7. ASSUME NEW i \in Slots, slot[i].session # s PROVE slot'[i] = slot[i]
  BY <1>5, <1>7 DEF Matches
<1>8. UnheardSlots'
  <2> SUFFICES ASSUME NEW i \in Slots, slot'[i].session # 0
               PROVE  heard'[slot'[i].session] <= slot'[i].acknowledged
    BY DEF UnheardSlots, Unheard
  <2>1. CASE slot[i].session = s
    BY <1>3, <1>6, <2>1
  <2>2. CASE slot[i].session # s
    <3>1. slot[i].session \in Sessions /\ slot'[i] = slot[i]
      BY <1>1, <1>7, <2>2 DEF SlotType
    <3> QED
      BY <1>3, <2>2, <3>1 DEF Once, UnheardSlots, Unheard
  <2> QED
    BY <2>1, <2>2
<1>9. UnheardFuture'
  <2>1. ~(s >= nextSession)
    BY <1>2 DEF FreshEvent, Sessions, IInv, TypeOK
  <2> QED
    BY <1>3, <2>1 DEF Once, UnheardFuture
<1>10. ASSUME NEW p \in Owners, NEW other \in window'[p].inbox PROVE FreshEvent(p, other)'
  <2>1. other \in window[p].inbox /\ FreshEvent(p, other)
    BY <1>4, <1>10 DEF Once, FreshInboxes
  <2>2. heard'[other.session] < other.kind
    <3>1. CASE other.session = s
      <4>1. p = o
        BY <1>2, <2>1, <3>1 DEF FreshEvent
      <4> QED
        BY <1>3, <1>4, <1>10, <3>1, <4>1
    <3>2. CASE other.session # s
      BY <1>3, <2>1, <3>2 DEF FreshEvent
    <3> QED
      BY <3>1, <3>2
  <2>3. \A i \in Slots : slot'[i].session = other.session =>
          slot'[i].generation = other.generation /\ slot'[i].launcher = p
    <3>1. other.session # 0
      BY <2>1 DEF FreshEvent, Sessions
    <3> QED
      BY <1>6, <1>7, <2>1, <3>1 DEF FreshEvent
  <2>4. \A q \in Owners : window'[q].inbox \subseteq window[q].inbox
    BY <1>4
  <2> QED
    BY <1>3, <2>1, <2>2, <2>3, <2>4 DEF FreshEvent
<1> QED
  BY <1>8, <1>9, <1>10 DEF Once, FreshInboxes

LEMMA StepKeepsOnce ==
  ASSUME ~Contended, IInv, Once, [Next]_vars PROVE Once'
<1>1. ASSUME NEW o \in Owners, Reserve(o) PROVE Once'
  BY <1>1, ReserveKeepsOnce
<1>2. ASSUME NEW o \in Owners, Poll(o) PROVE Once'
  BY <1>2, PollKeepsOnce
<1>3. ASSUME NEW o \in Owners, NEW event \in window[o].inbox, Handle(o, event) PROVE Once'
  BY <1>3, HandleKeepsOnce
<1>4. ASSUME NEW o \in Owners,
             \/ Spawn(o) \/ SpawnFails(o) \/ Record(o) \/ PostDispatched(o)
             \/ Scan(o) \/ OwnerCrash(o)
      PROVE  Once'
  BY <1>4, OwnersKeep, WindowsCollectLess, KeptOnce
<1>5. ASSUME NEW s \in Sessions,
             Cancel(s) \/ WorkerStep(s) \/ Finish(s) \/ WatchStep(s) \/ WorkerCrash(s)
      PROVE  Once'
  BY <1>5, CancelKeeps, WorkersKeep, OthersCollectNothing, KeptOnce
<1>6. ASSUME NEW i \in Slots, Age(i) PROVE Once'
  BY <1>6, AgeKeeps, KeptOnce DEF Age
<1>7. CASE UNCHANGED vars
  <2>1. AllKept
    BY <1>7 DEF vars, told, AllKept, Keeps
  <2> QED
    BY <1>7, <2>1, KeptOnce DEF vars
<1> QED
  BY <1>1, <1>2, <1>3, <1>4, <1>5, <1>6, <1>7 DEF Next, WindowStep

\* Where no lock is ever busy, no launcher handles an event of a task a second
\* time, for any number of slots, launchers and tasks: what it acknowledged is
\* not collected again.
THEOREM HandlesOnce ==
  ASSUME ~Contended PROVE Spec => HandledOnce
<1>1. Init => IInv /\ Once
  <2> SUFFICES ASSUME Init PROVE IInv /\ Once
    OBVIOUS
  <2>1. Once
    BY DEF Init, Once, UnheardSlots, Unheard, UnheardFuture, FreshInboxes, EmptySlot, IdleWindow
  <2> QED
    BY <2>1, InitHasInvariant
<1>2. IInv /\ Once /\ [Next]_vars => IInv' /\ Once'
  BY StepKeepsInvariant, StepKeepsOnce
<1>3. IInv /\ Once /\ [Next]_vars =>
        [\A o \in Owners : o \in living' => \A event \in window[o].inbox \ window'[o].inbox :
           heard[event.session] < event.kind]_vars
  BY DEF Once, FreshInboxes, FreshEvent
<1> QED
  BY <1>1, <1>2, <1>3, PTL DEF Spec, HandledOnce

-----------------------------------------------------------------------------
(* A stored cancel, until the worker hears of it.                          *)

Early == {"none", "starting", "claimed", "watching"}

\* The flag stays in the slot of its task, which was started; the worker waits
\* only once it runs the task, and is not left waiting without a post.
CancelStored == \A i \in Slots : slot[i].session \in asked => slot[i].cancel
AskedStarted == \A s \in asked : worker[s].at # "none"
WaitsLater == \A s \in Sessions : worker[s].at \in Early => watch[s] = "off"
PostWaits ==
  \A s \in asked : worker[s].at \in Running /\ watch[s] = "waiting" => cancels[s] > 0

Heeded == CancelStored /\ AskedStarted /\ WaitsLater /\ PostWaits

\* A process starts once, and goes on.
Onward(from, to) ==
  /\ from # "none" /\ to \notin {"none", "starting"}
  /\ to \in Early => from \in {"starting", "claimed"}
  /\ to \in Running => from \in Running \cup {"starting"}

LEMMA WorkerGoesOn ==
  ASSUME TypeOK, NEW s \in Sessions, WorkerStep(s) \/ Finish(s) \/ WorkerCrash(s)
  PROVE  /\ \A t \in Sessions \ {s} : worker'[t] = worker[t]
         /\ Onward(worker[s].at, worker'[s].at)
<1>1. worker \in [Sessions -> WorkerType]
  BY DEF TypeOK, WorkerType
<1>2. ASSUME NEW place, WorkerTo(s, place), Onward(worker[s].at, place)
      PROVE  /\ \A t \in Sessions \ {s} : worker'[t] = worker[t]
             /\ Onward(worker[s].at, worker'[s].at)
  BY <1>2, PlaceOfWorker
<1>3. ASSUME NEW result, Onward(worker[s].at, "publish"),
             worker' = [worker EXCEPT ![s] = [@ EXCEPT !.at = "publish", !.result = result]]
      PROVE  /\ \A t \in Sessions \ {s} : worker'[t] = worker[t]
             /\ Onward(worker[s].at, worker'[s].at)
  <2>1. worker'[s].at = "publish"
    BY <1>1, <1>3 DEF WorkerType
  <2> QED
    BY <1>1, <1>3, <2>1
<1>4. CASE Claim(s)
  <2>1. worker[s].at = "starting"
    BY <1>4 DEF Claim
  <2>2. Onward(worker[s].at, "gone") /\ Onward(worker[s].at, "claimed")
    BY <2>1 DEF Onward, Early, Running
  <2>3. ASSUME NEW i, NEW o,
               worker' = [worker EXCEPT ![s] = [@ EXCEPT !.at = "claimed", !.slot = i, !.owner = o]]
        PROVE  /\ \A t \in Sessions \ {s} : worker'[t] = worker[t]
               /\ Onward(worker[s].at, worker'[s].at)
    <3>1. worker'[s].at = "claimed"
      BY <1>1, <2>3 DEF WorkerType
    <3> QED
      BY <1>1, <2>2, <2>3, <3>1
  <2>4. \/ WorkerTo(s, "gone")
        \/ \E i, o : worker' = [worker EXCEPT ![s] = [@ EXCEPT !.at = "claimed", !.slot = i, !.owner = o]]
    BY <1>4 DEF Claim
  <2> QED
    BY <1>2, <2>2, <2>3, <2>4
<1>5. CASE PostClaimed(s)
  BY <1>2, <1>5 DEF PostClaimed, Onward, Early, Running
<1>6. CASE StartWatch(s) \/ Finish(s)
  <2>1. Onward(worker[s].at, "working") /\ Onward(worker[s].at, "publish")
    BY <1>6 DEF StartWatch, Finish, Onward, Early, Running
  <2>2. \/ WorkerTo(s, "working")
        \/ \E result : worker' = [worker EXCEPT ![s] = [@ EXCEPT !.at = "publish", !.result = result]]
    BY <1>6 DEF StartWatch, Finish
  <2> QED
    BY <1>2, <1>3, <2>1, <2>2
<1>7. CASE Publish(s) \/ CheckMinimal(s)
  <2>1. \A place \in {"gone", "post", "minimal", "store_result"} : Onward(worker[s].at, place)
    BY <1>7 DEF Publish, CheckMinimal, Onward, Early, Running
  <2>2. \E place \in {"gone", "post", "minimal", "store_result"} : WorkerTo(s, place)
    BY <1>7 DEF Publish, CheckMinimal
  <2> QED
    BY <1>2, <2>1, <2>2
<1>8. CASE StoreResult(s) \/ StoreEvent(s) \/ StoreState(s)
  <2>1. \E place : WorkerTo(s, place) /\ Onward(worker[s].at, place)
    BY <1>8 DEF StoreResult, StoreEvent, StoreState, Onward, Early, Running
  <2> QED
    BY <1>2, <2>1
<1>9. CASE PostCompleted(s) \/ WorkerCrash(s)
  <2>1. \A place \in {"gone", "mute"} : Onward(worker[s].at, place)
    BY <1>9 DEF PostCompleted, WorkerCrash, WorkerAlive, Onward, Early, Running
  <2>2. \E place \in {"gone", "mute"} : WorkerTo(s, place)
    BY <1>9 DEF PostCompleted, WorkerCrash
  <2> QED
    BY <1>2, <2>1, <2>2
<1> QED
  BY <1>4, <1>5, <1>6, <1>7, <1>8, <1>9 DEF WorkerStep

\* A flag goes with its slot only.
LEMMA FlagsStay ==
  ASSUME IInv, CancelStored, AllKept, UNCHANGED asked
  PROVE  CancelStored'
<1>1. 0 \notin asked
  BY DEF IInv, TypeOK, Sessions
<1> QED
  BY <1>1 DEF CancelStored, AllKept, Keeps

\* A new task takes no flag over, and none is asked for yet.
LEMMA ReserveKeepsHeeded ==
  ASSUME IInv, Heeded, NEW o \in Owners, Reserve(o)
  PROVE  Heeded'
<1>1. Reclaimed = slot /\ slot \in [Slots -> SlotType] /\ nextSession \in Sessions /\ nextSession \in Int
  BY NothingToReclaim DEF Reserve, IInv, TypeOK, Sessions
<1>2. PICK i \in Slots : slot' = [slot EXCEPT ![i] = Dispatched(@, o)]
  BY <1>1 DEF Reserve, Store
<1>3. slot'[i].session = nextSession /\ \A j \in Slots \ {i} : slot'[j] = slot[j]
  BY <1>1, <1>2 DEF Dispatched, SlotType
<1>4. UNCHANGED <<asked, cancels, worker, watch>>
  BY DEF Reserve, cancelling
<1>5. nextSession \notin asked
  BY <1>1 DEF Heeded, AskedStarted, IInv, Actors, FutureSessions
<1>6. CancelStored'
  BY <1>3, <1>4, <1>5 DEF Heeded, CancelStored
<1> QED
  BY <1>4, <1>6 DEF Heeded, AskedStarted, WaitsLater, PostWaits

LEMMA HandleKeepsHeeded ==
  ASSUME IInv, Heeded, NEW o \in Owners, NEW event \in window[o].inbox, Handle(o, event)
  PROVE  Heeded'
<1>1. slot \in [Slots -> SlotType] /\ 0 \notin asked
  BY DEF IInv, TypeOK, Sessions
<1>2. UNCHANGED <<asked, cancels, worker, watch>>
  BY DEF Handle, cancelling
<1>3. ASSUME NEW i \in Slots
      PROVE  slot'[i].session = 0 \/ (slot'[i].session = slot[i].session /\ slot'[i].cancel = slot[i].cancel)
  <2>1. slot'[i] = slot[i] \/ slot'[i] = Acknowledge(slot[i], event.kind)
    BY DEF Handle, Store, KeepTable
  <2> DEFINE e == IF slot[i].acknowledged < event.kind
                  THEN [slot[i] EXCEPT !.acknowledged = event.kind, !.aged = FALSE] ELSE slot[i]
  <2>2. e.session = slot[i].session /\ e.cancel = slot[i].cancel
    BY <1>1 DEF SlotType
  <2>3. Acknowledge(slot[i], event.kind) = IF e.acknowledged >= 3 THEN Cleared(e) ELSE e
    BY DEF Acknowledge
  <2> HIDE DEF e
  <2>4. Cleared(e).session = 0
    BY DEF Cleared, EmptySlot
  <2> QED
    BY <2>1, <2>2, <2>3, <2>4
<1>4. CancelStored'
  BY <1>1, <1>2, <1>3 DEF Heeded, CancelStored
<1> QED
  BY <1>2, <1>4 DEF Heeded, AskedStarted, WaitsLater, PostWaits

LEMMA SpawnKeepsHeeded ==
  ASSUME IInv, Heeded, NEW o \in Owners, Spawn(o)
  PROVE  Heeded'
<1>1. /\ worker \in [Sessions -> WorkerType] /\ asked \subseteq Sessions
      /\ window[o].session \in Sessions /\ worker[window[o].session].at = "none"
  BY DEF IInv, TypeOK, WorkerType, Actors, WaitingSpawns, Spawn
<1>2. PICK s \in Sessions : s = window[o].session
  BY <1>1
<1>3. worker'[s].at = "starting" /\ \A t \in Sessions \ {s} : worker'[t] = worker[t]
  BY <1>1, <1>2 DEF Spawn, WorkerType
<1>4. UNCHANGED <<asked, cancels, watch>>
  BY DEF Spawn, cancelling
<1>5. CancelStored'
  BY <1>4, OwnersKeep, FlagsStay DEF Heeded
<1>6. AskedStarted' /\ PostWaits'
  BY <1>1, <1>3, <1>4 DEF Heeded, AskedStarted, PostWaits, Running
<1>7. WaitsLater'
  BY <1>1, <1>2, <1>3, <1>4 DEF Heeded, WaitsLater, Early
<1> QED
  BY <1>5, <1>6, <1>7 DEF Heeded

\* The flag is stored and posted under the lock.
LEMMA CancelKeepsHeeded ==
  ASSUME IInv, Heeded, NEW s \in Sessions, Cancel(s)
  PROVE  Heeded'
<1>1. /\ Reclaimed = slot /\ slot \in [Slots -> SlotType] /\ cancels \in [Sessions -> Nat]
      /\ asked \subseteq Sessions
  BY NothingToReclaim DEF IInv, TypeOK
<1>2. UNCHANGED <<worker, watch>> /\ worker[s].at # "none"
  BY DEF Cancel
<1>3. WaitsLater'
  BY <1>2 DEF Heeded, WaitsLater
<1>4. CASE UNCHANGED cancelling
  <2>1. UNCHANGED <<asked, cancels>>
    BY <1>4 DEF cancelling
  <2>2. CancelStored'
    BY <2>1, CancelKeeps, FlagsStay DEF Heeded
  <2> QED
    BY <1>2, <1>3, <2>1, <2>2 DEF Heeded, AskedStarted, PostWaits
<1>5. ASSUME NEW i \in Slots, Matches(slot[i], s, worker[s].generation),
             Store([slot EXCEPT ![i] = [@ EXCEPT !.cancel = TRUE, !.aged = FALSE]]),
             asked' = asked \cup {s}, PostCancel(s)
      PROVE  Heeded'
  <2>1. slot'[i].cancel /\ slot'[i].session = s /\ \A j \in Slots \ {i} : slot'[j] = slot[j]
    BY <1>1, <1>5 DEF Store, SlotType, Matches
  <2>2. \A j \in Slots \ {i} : slot[j].session # s
    <3>1. slot[i].session = s /\ s # 0
      BY <1>5 DEF Matches, Sessions
    <3> QED
      BY <3>1 DEF IInv, Table, SessionsDiffer
  <2>3. CancelStored'
    BY <1>5, <2>1, <2>2 DEF Heeded, CancelStored
  <2>4. cancels'[s] > 0 /\ \A t \in Sessions \ {s} : cancels'[t] = cancels[t]
    BY <1>1, <1>5 DEF PostCancel
  <2>5. AskedStarted' /\ PostWaits'
    BY <1>1, <1>2, <1>5, <2>4 DEF Heeded, AskedStarted, PostWaits
  <2> QED
    BY <1>3, <2>3, <2>5 DEF Heeded
<1> QED
  BY <1>1, <1>4, <1>5 DEF Cancel

\* A worker that runs a task that a cancel was stored for finds the flag.
LEMMA RunningFindsFlag ==
  ASSUME IInv, Heeded, NEW s \in asked, worker[s].at \in Running
  PROVE  StillMine(s) /\ MySlot(s).cancel
<1>1. s \in Sessions /\ worker[s].slot \in Slots
  BY DEF IInv, TypeOK
<1>2. StillMine(s)
  BY <1>1 DEF IInv, Actors, RunningSlots
<1> QED
  BY <1>1, <1>2 DEF StillMine, MySlot, Matches, Heeded, CancelStored

LEMMA WorkersKeepHeeded ==
  ASSUME IInv, Heeded, NEW s \in Sessions,
         WorkerStep(s) \/ Finish(s) \/ WorkerCrash(s)
  PROVE  Heeded'
<1>1. UNCHANGED <<asked, cancels>>
  <2>1. UNCHANGED cancelling
    BY DEF WorkerStep, Claim, PostClaimed, StartWatch, Publish, CheckMinimal, StoreResult,
       StoreEvent, StoreState, PostCompleted, Finish, WorkerCrash
  <2> QED
    BY <2>1 DEF cancelling
<1>2. CancelStored'
  BY <1>1, WorkersKeep, FlagsStay DEF Heeded
<1>3. /\ \A t \in Sessions \ {s} : worker'[t] = worker[t]
      /\ Onward(worker[s].at, worker'[s].at)
  BY WorkerGoesOn DEF IInv
<1>4. asked \subseteq Sessions /\ watch \in [Sessions -> {"off", "waiting", "woken", "lost", "canceled"}]
  BY DEF IInv, TypeOK
<1>5. AskedStarted'
  BY <1>1, <1>3, <1>4 DEF Heeded, AskedStarted, Onward
<1>6. CASE StartWatch(s)
  <2>1. worker[s].at = "watching" /\ \A t \in Sessions \ {s} : watch'[t] = watch[t]
    BY <1>4, <1>6 DEF StartWatch
  <2>2. worker'[s].at \notin Early
    BY <1>3, <2>1 DEF Onward, Early
  <2>3. s \in asked => watch'[s] # "waiting"
    <3>1. s \in asked => StillMine(s) /\ MySlot(s).cancel
      BY <2>1, RunningFindsFlag DEF Running
    <3> QED
      BY <1>4, <1>6, <3>1 DEF StartWatch
  <2>4. WaitsLater'
    BY <1>3, <2>1, <2>2 DEF Heeded, WaitsLater
  <2>5. PostWaits'
    BY <1>1, <1>3, <1>4, <2>1, <2>3 DEF Heeded, PostWaits
  <2> QED
    BY <1>2, <1>5, <2>4, <2>5 DEF Heeded
<1>7. CASE UNCHANGED watch
  <2>1. WaitsLater'
    BY <1>3, <1>7 DEF Heeded, WaitsLater, Onward, Early
  <2>2. worker'[s].at \in Running => worker[s].at \in Running \/ watch[s] = "off"
    BY <1>3 DEF Heeded, WaitsLater, Onward, Early
  <2>3. PostWaits'
    BY <1>1, <1>3, <1>4, <1>7, <2>2 DEF Heeded, PostWaits
  <2> QED
    BY <1>2, <1>5, <2>1, <2>3 DEF Heeded
<1> QED
  BY <1>6, <1>7 DEF WorkerStep, Claim, PostClaimed, Publish, CheckMinimal, StoreResult,
     StoreEvent, StoreState, PostCompleted, Finish, WorkerCrash

\* A waiter that takes a post asks again, and waits on only if it found no flag.
LEMMA WatchKeepsHeeded ==
  ASSUME IInv, Heeded, NEW s \in Sessions, WatchStep(s)
  PROVE  Heeded'
<1>1. UNCHANGED <<asked, worker>>
  BY DEF WatchStep, WatchWakes, WatchAsks, cancelling
<1>2. CancelStored' /\ AskedStarted'
  BY <1>1, WorkersKeep, FlagsStay DEF Heeded, AskedStarted
<1>3. /\ asked \subseteq Sessions /\ watch \in [Sessions -> {"off", "waiting", "woken", "lost", "canceled"}]
      /\ cancels \in [Sessions -> Nat]
  BY DEF IInv, TypeOK
<1>4. /\ watch[s] \in {"waiting", "woken"}
      /\ \A t \in Sessions \ {s} : watch'[t] = watch[t] /\ cancels'[t] = cancels[t]
  BY <1>3 DEF WatchStep, WatchWakes, WatchAsks, cancelling
<1>5. WaitsLater'
  BY <1>1, <1>4 DEF Heeded, WaitsLater
<1>6. s \in asked /\ worker[s].at \in Running => watch'[s] # "waiting"
  <2>1. CASE WatchWakes(s)
    BY <1>3, <2>1 DEF WatchWakes
  <2>2. CASE WatchAsks(s)
    BY <1>3, <2>2, RunningFindsFlag DEF WatchAsks
  <2> QED
    BY <2>1, <2>2 DEF WatchStep
<1>7. PostWaits'
  BY <1>1, <1>3, <1>4, <1>6 DEF Heeded, PostWaits
<1> QED
  BY <1>2, <1>5, <1>7 DEF Heeded

LEMMA StepKeepsHeeded ==
  ASSUME IInv, Heeded, [Next]_vars PROVE Heeded'
<1>1. ASSUME NEW o \in Owners, Reserve(o) PROVE Heeded'
  BY <1>1, ReserveKeepsHeeded
<1>2. ASSUME NEW o \in Owners, NEW event \in window[o].inbox, Handle(o, event) PROVE Heeded'
  BY <1>2, HandleKeepsHeeded
<1>3. ASSUME NEW o \in Owners, Spawn(o) PROVE Heeded'
  BY <1>3, SpawnKeepsHeeded
<1>4. ASSUME AllKept, UNCHANGED <<asked, cancels, worker, watch>> PROVE Heeded'
  <2>1. CancelStored'
    BY <1>4, FlagsStay DEF Heeded
  <2> QED
    BY <1>4, <2>1 DEF Heeded, AskedStarted, WaitsLater, PostWaits
<1>5. ASSUME NEW o \in Owners,
             \/ SpawnFails(o) \/ Record(o) \/ PostDispatched(o)
             \/ Poll(o) \/ Scan(o) \/ OwnerCrash(o)
      PROVE  Heeded'
  <2>1. UNCHANGED <<cancelling, worker, watch>>
    BY <1>5 DEF SpawnFails, Record, PostDispatched, Poll, Scan, OwnerCrash
  <2> QED
    BY <1>4, <1>5, <2>1, OwnersKeep DEF cancelling
<1>6. ASSUME NEW s \in Sessions,
             Cancel(s) \/ WorkerStep(s) \/ Finish(s) \/ WatchStep(s) \/ WorkerCrash(s)
      PROVE  Heeded'
  BY <1>6, CancelKeepsHeeded, WorkersKeepHeeded, WatchKeepsHeeded
<1>7. ASSUME NEW i \in Slots, Age(i) PROVE Heeded'
  BY <1>4, <1>7, AgeKeeps DEF Age, cancelling
<1>8. CASE UNCHANGED vars
  <2>1. AllKept
    BY <1>8 DEF vars, told, AllKept, Keeps
  <2> QED
    BY <1>4, <1>8, <2>1 DEF vars, cancelling
<1> QED
  BY <1>1, <1>2, <1>3, <1>5, <1>6, <1>7, <1>8 DEF Next, WindowStep

\* While a worker runs a task that a cancel was stored for, the flag is in its
\* slot, and its cancel waiter does not wait without a post: whether locks are busy
\* or not, the cancel is never lost between the query and the wait
\* (start_task_ipc_cancel_notification_thread and request_task_ipc_cancel).
CancelStands ==
  \A s \in asked : worker[s].at \in Running =>
    /\ StillMine(s) /\ MySlot(s).cancel
    /\ watch[s] = "waiting" => cancels[s] > 0

\* No cancel is lost on its way to a worker, for any number of slots, launchers
\* and tasks: what the liveness of a cancel (CancelReachesWorker) rests on.
THEOREM CancelIsNotLost == Spec => []CancelStands
<1>1. Init => IInv /\ Heeded
  <2> SUFFICES ASSUME Init PROVE IInv /\ Heeded
    OBVIOUS
  <2>1. Heeded
    BY DEF Init, Heeded, CancelStored, AskedStarted, WaitsLater, PostWaits
  <2> QED
    BY <2>1, InitHasInvariant
<1>2. IInv /\ Heeded /\ [Next]_vars => IInv' /\ Heeded'
  BY StepKeepsInvariant, StepKeepsHeeded
<1>3. IInv /\ Heeded => CancelStands
  BY RunningFindsFlag DEF CancelStands, Heeded, PostWaits
<1> QED
  BY <1>1, <1>2, <1>3, PTL DEF Spec
=============================================================================
