---------------------------- MODULE TaskLifecycle ----------------------------
(***************************************************************************)
(* What the task IPC runtime promises its two users, without slots, locks  *)
(* or semaphores (task_ipc_runtime.h: TaskIpcEventKind).  A task is        *)
(* offered by a launcher, taken at most once, by a worker, and over once a *)
(* verdict is published; a task that is over never runs.  Its launcher     *)
(* hears of the three stages one after the other, and the verdict it hears *)
(* is the one that ended the task.                                         *)
(***************************************************************************)
EXTENDS Naturals

CONSTANTS Tasks,     \* the tasks that may be dispatched
          Verdicts,  \* how a worker may end a task
          TimedOut, \* the verdict on a task no worker claimed in time
          Died,      \* the verdict on a task whose worker died
          NoVerdict

VARIABLES stage,     \* 0 not offered, 1 offered, 2 running, 3 over
          verdict,   \* how a task that is over ended
          heard,     \* the last stage its launcher was told of
          toldAs     \* the verdict its launcher was told

lifecycleVars == <<stage, verdict, heard, toldAs>>

Init ==
  /\ stage = [t \in Tasks |-> 0]
  /\ verdict = [t \in Tasks |-> NoVerdict]
  /\ heard = [t \in Tasks |-> 0]
  /\ toldAs = [t \in Tasks |-> NoVerdict]

Offer(t) ==
  /\ stage[t] = 0
  /\ stage' = [stage EXCEPT ![t] = 1]
  /\ UNCHANGED <<verdict, heard, toldAs>>

Take(t) ==
  /\ stage[t] = 1
  /\ stage' = [stage EXCEPT ![t] = 2]
  /\ UNCHANGED <<verdict, heard, toldAs>>

\* The worker of a task reports how it went.
Finish(t) ==
  /\ stage[t] = 2
  /\ stage' = [stage EXCEPT ![t] = 3]
  /\ \E v \in Verdicts : verdict' = [verdict EXCEPT ![t] = v]
  /\ UNCHANGED <<heard, toldAs>>

\* The launcher's side gives up on some tasks at once: a task on offer for
\* too long was not claimed, a running one lost its worker.
Lapse(lapsed) ==
  /\ lapsed # {}
  /\ \A t \in lapsed : stage[t] \in {1, 2}
  /\ stage' = [t \in Tasks |-> IF t \in lapsed THEN 3 ELSE stage[t]]
  /\ verdict' = [t \in Tasks |-> IF t \notin lapsed THEN verdict[t]
                                 ELSE IF stage[t] = 1 THEN TimedOut ELSE Died]
  /\ UNCHANGED <<heard, toldAs>>

\* No worker could be started: the offer is taken back without a verdict.
Withdraw(t) ==
  /\ stage[t] = 1
  /\ stage' = [stage EXCEPT ![t] = 3]
  /\ UNCHANGED <<verdict, heard, toldAs>>

Hear(t) ==
  /\ heard[t] < stage[t]
  /\ heard' = [heard EXCEPT ![t] = @ + 1]
  /\ toldAs' = IF heard[t] = 2 THEN [toldAs EXCEPT ![t] = verdict[t]] ELSE toldAs
  /\ stage[t] = 3 => verdict[t] # NoVerdict
  /\ UNCHANGED <<stage, verdict>>

Next ==
  \/ \E t \in Tasks : Offer(t) \/ Take(t) \/ Finish(t) \/ Withdraw(t) \/ Hear(t)
  \/ \E lapsed \in SUBSET Tasks : Lapse(lapsed)

Spec == Init /\ [][Next]_lifecycleVars
=============================================================================
