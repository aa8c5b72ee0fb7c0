----------------------------- MODULE RobustLock -----------------------------
(***************************************************************************)
(* The crash-tolerant lock that guards every piece of task IPC shared      *)
(* memory (task_ipc_runtime/src/core/shared_memory.cpp).  The lock is one  *)
(* 32-bit word holding the pid of the process that owns it, or 0.  A       *)
(* thread takes it by compare-and-swap, evicts an owner whose process is   *)
(* dead with a second compare-and-swap, and competes again with a third.   *)
(*                                                                         *)
(* Beside the word there is a named semaphore.  Every process that has     *)
(* ever tried the lock runs one background thread (LockWaiterEntry) that   *)
(* acquires the semaphore and bumps a generation number; a thread in       *)
(* wait_for_shared_memory_lock sleeps until that number changes or its     *)
(* deadline passes.  A release of the lock releases the semaphore once.    *)
(*                                                                         *)
(* A process here is one incarnation of a pid: pids are not reused while   *)
(* the word still names them.  A crash takes all threads of the process.   *)
(***************************************************************************)
EXTENDS Naturals, FiniteSets

CONSTANTS Procs,       \* the processes attached to the shared memory
          Threads,     \* their threads that use the lock
          procOf,      \* the process a thread belongs to
          Free,        \* the value 0 of the word
          Pollers,     \* threads that try the lock again and again
          MaxPermits,  \* bound on the semaphore's count
          MaxCrashes   \* bound on the number of processes that crash

ASSUME ProcOfAssumption == procOf \in [Threads -> Procs]
ASSUME FreeAssumption == Free \notin Procs
ASSUME PollersAssumption == Pollers \subseteq Threads
ASSUME BoundsAssumption == MaxPermits \in Nat \ {0} /\ MaxCrashes \in Nat

VARIABLES word,       \* RobustLockRaw::locker_pid
          alive,      \* the processes that have not crashed
          pc,         \* where each thread is
          seen,       \* the owner a failed compare-and-swap returned
          patient,    \* the thread is inside wait_for_shared_memory_lock
          woken,      \* its process's generation changed since it looked
          permits,    \* the count of the wake-up semaphore
          listening   \* processes whose LockWaiterEntry thread runs

lockVars == <<word, alive, pc, seen, patient, woken, permits, listening>>

Places == {"idle", "cas", "probe", "steal", "retake", "wait",
           "holding", "unlock", "notify", "gone"}

\* The thread is between the compare-and-swap that gave it the lock and the
\* store that gives it back.
Inside(t) == pc[t] \in {"holding", "unlock"}

LockTypeOK ==
  /\ word \in Procs \cup {Free}
  /\ alive \subseteq Procs
  /\ pc \in [Threads -> Places]
  /\ seen \in [Threads -> Procs \cup {Free}]
  /\ patient \in [Threads -> BOOLEAN]
  /\ woken \in [Threads -> BOOLEAN]
  /\ permits \in 0..MaxPermits
  /\ listening \subseteq Procs

LockInit ==
  /\ word = Free
  /\ alive = Procs
  /\ pc = [t \in Threads |-> "idle"]
  /\ seen = [t \in Threads |-> Free]
  /\ patient = [t \in Threads |-> FALSE]
  /\ woken = [t \in Threads |-> FALSE]
  /\ permits = 0
  /\ listening = {}

Goto(t, place) == pc' = [pc EXCEPT ![t] = place]

-----------------------------------------------------------------------------
(* Faulty variants of the operators below, one plausible slip each.        *)

ProbeTrustsNobody(t) ==
  /\ pc[t] = "probe"
  /\ Goto(t, "steal")
  /\ UNCHANGED <<word, alive, seen, patient, woken, permits, listening>>

ProbeTrustsEverybody(t) ==
  /\ pc[t] = "probe"
  /\ Goto(t, IF patient[t] THEN "wait" ELSE "idle")
  /\ UNCHANGED <<word, alive, seen, patient, woken, permits, listening>>

StealWithoutCompare(t) ==
  /\ pc[t] = "steal"
  /\ word' = Free
  /\ Goto(t, "retake")
  /\ UNCHANGED <<alive, seen, patient, woken, permits, listening>>

-----------------------------------------------------------------------------
(* Taking the lock.                                                        *)

\* Both entry points first make sure the process's waiter thread runs.
Enter(t, waits) ==
  /\ pc[t] = "idle"
  /\ patient' = [patient EXCEPT ![t] = waits]
  /\ woken' = [woken EXCEPT ![t] = FALSE]
  /\ listening' = listening \cup {procOf[t]}
  /\ Goto(t, "cas")
  /\ UNCHANGED <<word, alive, seen, permits>>

\* SharedMemoryLock's constructor: one attempt.
TryLock(t) == Enter(t, FALSE)

\* wait_for_shared_memory_lock: attempts until the deadline.
WaitForLock(t) == Enter(t, TRUE)

\* An attempt that found the lock busy: a patient thread goes to sleep.
Busy(t) == Goto(t, IF patient[t] THEN "wait" ELSE "idle")

CasTakes(t) ==
  /\ pc[t] = "cas"
  /\ word = Free
  /\ word' = procOf[t]
  /\ Goto(t, "holding")
  /\ UNCHANGED <<alive, seen, patient, woken, permits, listening>>

\* "Task IPC lock is already held by current process": not busy but an
\* error, which ends a patient wait too.
CasSelfHeld(t) ==
  /\ pc[t] = "cas"
  /\ word = procOf[t]
  /\ Goto(t, "idle")
  /\ UNCHANGED <<word, alive, seen, patient, woken, permits, listening>>

CasFails(t) ==
  /\ pc[t] = "cas"
  /\ word \notin {Free, procOf[t]}
  /\ seen' = [seen EXCEPT ![t] = word]
  /\ Goto(t, "probe")
  /\ UNCHANGED <<word, alive, patient, woken, permits, listening>>

\* process_is_alive(current_owner), at a later moment than the swap.
Probe(t) ==
  /\ pc[t] = "probe"
  /\ IF seen[t] \in alive THEN Busy(t) ELSE Goto(t, "steal")
  /\ UNCHANGED <<word, alive, seen, patient, woken, permits, listening>>

Steal(t) ==
  /\ pc[t] = "steal"
  /\ \/ word = seen[t] /\ word' = Free /\ Goto(t, "retake")
     \/ word # seen[t] /\ word' = word /\ Busy(t)
  /\ UNCHANGED <<alive, seen, patient, woken, permits, listening>>

Retake(t) ==
  /\ pc[t] = "retake"
  /\ \/ word = Free /\ word' = procOf[t] /\ Goto(t, "holding")
     \/ word # Free /\ word' = word /\ Busy(t)
  /\ UNCHANGED <<alive, seen, patient, woken, permits, listening>>

-----------------------------------------------------------------------------
(* Waiting for a release.                                                  *)

WakeUp(t) ==
  /\ pc[t] = "wait"
  /\ woken[t]
  /\ woken' = [woken EXCEPT ![t] = FALSE]
  /\ Goto(t, "cas")
  /\ UNCHANGED <<word, alive, seen, patient, permits, listening>>

\* The deadline passed with the generation unchanged: the caller is told
\* that the lock remained busy.
Expire(t) ==
  /\ pc[t] = "wait"
  /\ ~woken[t]
  /\ Goto(t, "idle")
  /\ UNCHANGED <<word, alive, seen, patient, woken, permits, listening>>

\* LockWaiterEntry::wait_loop: one permit wakes all threads of one process.
Deliver(p) ==
  /\ p \in listening
  /\ permits > 0
  /\ permits' = permits - 1
  /\ woken' = [t \in Threads |-> woken[t] \/ procOf[t] = p]
  /\ UNCHANGED <<word, alive, pc, seen, patient, listening>>

-----------------------------------------------------------------------------
(* Giving the lock back: ~SharedMemoryLock.                                *)

ReleaseCheck(t) ==
  /\ pc[t] = "holding"
  /\ Goto(t, IF word = procOf[t] THEN "unlock" ELSE "idle")
  /\ UNCHANGED <<word, alive, seen, patient, woken, permits, listening>>

ReleaseStore(t) ==
  /\ pc[t] = "unlock"
  /\ word' = Free
  /\ Goto(t, "notify")
  /\ UNCHANGED <<alive, seen, patient, woken, permits, listening>>

Notify(t) ==
  /\ pc[t] = "notify"
  /\ permits < MaxPermits
  /\ permits' = permits + 1
  /\ Goto(t, "idle")
  /\ UNCHANGED <<word, alive, seen, patient, woken, listening>>

-----------------------------------------------------------------------------
\* The process dies wherever its threads are; the word keeps its pid.
Crash(p) ==
  /\ p \in alive
  /\ Cardinality(Procs \ alive) < MaxCrashes
  /\ alive' = alive \ {p}
  /\ listening' = listening \ {p}
  /\ pc' = [t \in Threads |-> IF procOf[t] = p THEN "gone" ELSE pc[t]]
  /\ UNCHANGED <<word, seen, patient, woken, permits>>

\* What a thread does once it has entered, until it is idle again.
Advance(t) ==
  \/ CasTakes(t) \/ CasSelfHeld(t) \/ CasFails(t)
  \/ Probe(t) \/ Steal(t) \/ Retake(t)
  \/ WakeUp(t) \/ Expire(t)
  \/ ReleaseCheck(t) \/ ReleaseStore(t) \/ Notify(t)

LockNext ==
  \/ \E t \in Threads : TryLock(t) \/ WaitForLock(t) \/ Advance(t)
  \/ \E p \in Procs : Deliver(p) \/ Crash(p)

LockSpec == LockInit /\ [][LockNext]_lockVars

\* Threads and waiter threads run; the owner monitor (core/notifiers.cpp,
\* monitor_loop) tries the lock every 100 ms for as long as it lives.
LockFairness ==
  /\ \A t \in Threads : WF_lockVars(Advance(t))
  /\ \A t \in Pollers : WF_lockVars(TryLock(t))
  /\ \A p \in Procs : WF_lockVars(Deliver(p))

LockFairSpec == LockSpec /\ LockFairness

-----------------------------------------------------------------------------
(* What the lock promises.                                                 *)

\* At most one thread, of any process, is inside a critical section, also
\* while several threads evict the same crashed owner (try_acquire_lock).
MutualExclusion ==
  \A t, u \in Threads : Inside(t) /\ Inside(u) => t = u

\* A live process loses the lock only by its own release: the eviction path
\* never takes it from an owner that took over after the stale one was seen.
LiveOwnerKeepsLock ==
  [][\A p \in alive : word = p /\ word' # p =>
        \E t \in Threads : procOf[t] = p /\ pc[t] = "unlock"]_lockVars

\* A crashed owner does not wedge the lock: while a polling thread lives,
\* the word stops naming the dead process.
DeadOwnerIsEvicted ==
  \A p \in Procs :
    (word = p /\ p \notin alive) ~>
      (word # p \/ \A t \in Pollers : procOf[t] \notin alive)

\* The inductive invariant: threads that run belong to live processes, a
\* thread inside has its process's pid in the word and is the only one
\* inside, and a thread about to steal has seen a process that is dead for
\* good (try_acquire_lock, shared_memory.cpp:238).
LockInv ==
  /\ \A t \in Threads : pc[t] # "gone" => procOf[t] \in alive
  /\ \A t \in Threads : Inside(t) => word = procOf[t]
  /\ \A t \in Threads : pc[t] = "steal" => seen[t] \notin alive
  /\ MutualExclusion
=============================================================================
