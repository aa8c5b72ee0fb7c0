------------------------ MODULE ArchiveSession_proofs ------------------------
(***************************************************************************)
(* The session's promises for any number of clients and calls.  The steps  *)
(* are grouped as ClientActs and WorkerActs: what a client can change, and *)
(* what the worker thread can.                                             *)
(***************************************************************************)
EXTENDS ArchiveSession, TLAPS

ClientActs(c) == Call(c) \/ ClientStep(c)

WorkerActs == WorkerStep \/ HandlerStep \/ Announce \/ WakeSpuriously

\* No client is the worker, and both are threads.
LEMMA WorkerIsNoClient ==
  ASSUME NEW c \in Clients PROVE c # Worker /\ c \in Threads /\ Worker \in Threads
BY SessionAssumption DEF Threads

\* Every reachable state has the declared types, and the worker has an
\* outcome before it reports one (archive_session_core.cpp, run_worker).
THEOREM TypeCorrect == Spec => []TypeOK
<1>1. Init => TypeOK
  <2> SUFFICES ASSUME Init PROVE TypeOK
    OBVIOUS
  <2> USE SessionAssumption DEF Init
  <2>1. setting \in [Threads -> Setting]
    BY DEF Setting, NoCall, States
  <2>2. /\ pc \in [Threads -> WorkerPlaces \cup ClientPlaces]
        /\ pc[Worker] \in WorkerPlaces
        /\ \A c \in Clients : pc[c] \in ClientPlaces
        /\ pc[Worker] \notin EndPlaces
    BY WorkerIsNoClient DEF WorkerPlaces, EndPlaces, ClientPlaces, Threads
  <2>3. calls \in [Clients -> 0..MaxCalls]
    OBVIOUS
  <2>4. QED
    BY <2>1, <2>2, <2>3 DEF TypeOK, States
<1>2. TypeOK /\ [Next]_vars => TypeOK'
  <2> SUFFICES ASSUME TypeOK, [Next]_vars PROVE TypeOK'
    OBVIOUS
  <2>1. ASSUME NEW t \in Threads, NEW s \in States, SetState(t, s)
        PROVE  setting' \in [Threads -> Setting]
    BY <2>1 DEF SetState, TypeOK, Setting
  <2>2. NoCall \in Setting
    BY DEF NoCall, Setting, States
  <2> DEFINE PlacesOK == /\ pc \in [Threads -> WorkerPlaces \cup ClientPlaces]
                         /\ pc[Worker] \in WorkerPlaces
                         /\ \A c \in Clients : pc[c] \in ClientPlaces
                         /\ pc[Worker] \in EndPlaces => outcome # "none"
  <2>w. ASSUME NEW place \in WorkerPlaces, Goto(Worker, place),
               place \in EndPlaces => outcome' # "none"
        PROVE  PlacesOK'
    BY <2>w, WorkerIsNoClient DEF Goto, TypeOK, Threads
  <2>3. ASSUME NEW t \in Threads, LoadState(t) \/ StoreState(t) PROVE TypeOK'
    <3>1. setting[t] \in Setting
      BY <2>3 DEF TypeOK
    <3>2. [setting[t] EXCEPT !.step = "store"] \in Setting /\ setting[t].to \in States
      BY <3>1 DEF Setting
    <3>3. QED
      BY <2>2, <2>3, <3>2 DEF LoadState, StoreState, TypeOK, flags, history
  <2>4. ASSUME NEW c \in Clients, Call(c) PROVE TypeOK'
    <3>1. calls' \in [Clients -> 0..MaxCalls]
      BY <2>4, SessionAssumption DEF Call, Cancel, Pause, Resume, MakeCall, TypeOK
    <3>2. setting' \in [Threads -> Setting]
      BY <2>1, <2>4, WorkerIsNoClient
      DEF Call, Cancel, Pause, Resume, TypeOK, States
    <3>3. \E place \in ClientPlaces : Goto(c, place)
      BY <2>4 DEF Call, Cancel, Pause, Resume, ClientPlaces
    <3>4. UNCHANGED <<state, flags, envelope, announced, outcome, history>>
      BY <2>4 DEF Call, Cancel, Pause, Resume, MakeCall
    <3>5. QED
      BY <3>1, <3>2, <3>3, <3>4, WorkerIsNoClient DEF Goto, TypeOK, flags, history
  <2>5. ASSUME NEW c \in Clients, ClientStep(c) PROVE TypeOK'
    <3>1. CASE StoreCancel(c) \/ CancelUnpauses(c) \/ ResumeUnpauses(c)
      BY <3>1, WorkerIsNoClient
      DEF StoreCancel, CancelUnpauses, ResumeUnpauses, Unpause, At, Goto,
        TypeOK, flags, history, ClientPlaces
    <3>2. CASE CancelNotifies(c) \/ ResumeNotifies(c)
      <4>1. NotifyAll(c, "idle")
        BY <3>2 DEF CancelNotifies, ResumeNotifies
      <4>2. PlacesOK' /\ missed' \in BOOLEAN
        BY <3>2, <4>1, WorkerIsNoClient
        DEF NotifyAll, CancelNotifies, ResumeNotifies, TypeOK, Threads,
          ClientPlaces, WorkerPlaces, EndPlaces
      <4>3. setting' \in [Threads -> Setting]
        BY <2>1, <3>2, WorkerIsNoClient
        DEF CancelNotifies, ResumeNotifies, TypeOK, States
      <4>4. QED
        BY <3>2, <4>2, <4>3 DEF CancelNotifies, ResumeNotifies, TypeOK, flags
    <3>3. CASE PauseAsksAgain(c) \/ StorePause(c)
      BY <2>1, <3>3, WorkerIsNoClient
      DEF PauseAsksAgain, StorePause, At, Goto, TypeOK, flags, history,
        ClientPlaces, States
    <3>4. QED
      BY <2>3, <2>5, <3>1, <3>2, <3>3, WorkerIsNoClient DEF ClientStep
  <2>6. CASE WorkerActs
    <3>1. CASE Start \/ Announce \/ Report
      <4>1. setting' \in [Threads -> Setting]
        <5> Worker \in Threads
          BY DEF Threads
        <5>1. CASE Start \/ Announce
          BY <2>1, <5>1 DEF Start, Announce, States
        <5>2. CASE Report
          <6>1. outcome \in Outcomes
            BY <5>2 DEF Report, At, TypeOK, EndPlaces
          <6>2. \E s \in States : SetState(Worker, s)
            BY <5>2, <6>1 DEF Report, States, FinalStates, Outcomes
          <6>3. QED
            BY <2>1, <6>2
        <5>3. QED
          BY <3>1, <5>1, <5>2
      <4>2. PlacesOK'
        <5>1. CASE Start
          BY <2>w, <5>1 DEF Start, WorkerPlaces, EndPlaces
        <5>2. CASE Announce
          BY <5>2 DEF Announce, TypeOK
        <5>3. CASE Report
          BY <2>w, <5>3 DEF Report, At, TypeOK, WorkerPlaces, EndPlaces
        <5>4. QED
          BY <3>1, <5>1, <5>2, <5>3
      <4>3. QED
        BY <3>1, <4>1, <4>2 DEF Start, Announce, Report, TypeOK, flags, history
    <3>2. CASE Blocked \/ Refused \/ Enter \/ Finish \/ HandlerEnds \/ PollCancel
      BY <3>2, WorkerIsNoClient, SessionAssumption
      DEF Blocked, Refused, Enter, Finish, HandlerEnds, PollCancel, Exit, At, Goto,
        TypeOK, flags, history, WorkerPlaces, EndPlaces, Outcomes
    <3>3. CASE ResetCancel \/ ResetPause \/ Activate
      <4>1. PlacesOK'
        BY <2>w, <3>3 DEF ResetCancel, ResetPause, Activate, FlagStep, WorkerPlaces, EndPlaces
      <4>2. QED
        BY <3>3, <4>1 DEF ResetCancel, ResetPause, Activate, FlagStep, TypeOK, flags, history
    <3>4. CASE Poll \/ PollPause \/ AskCancel \/ AskPause \/ FallAsleep \/ WakeSpuriously
      <4>1. PlacesOK'
        BY <2>w, <3>4
        DEF Poll, PollPause, AskCancel, AskPause, FallAsleep, WakeSpuriously,
          Asks, WorkerPlaces, EndPlaces
      <4>2. QED
        BY <3>4, <4>1
        DEF Poll, PollPause, AskCancel, AskPause, FallAsleep, WakeSpuriously,
          Asks, TypeOK, flags, history
    <3>5. CASE LeaveActive \/ LeavePause \/ LeaveCancel
      <4>1. PlacesOK'
        BY <2>w, <3>5
        DEF LeaveActive, LeavePause, LeaveCancel, FlagStep, At, TypeOK, WorkerPlaces, EndPlaces
      <4>2. QED
        BY <3>5, <4>1 DEF LeaveActive, LeavePause, LeaveCancel, FlagStep, TypeOK, flags, history
    <3>6. QED
      BY <2>3, <2>6, <3>1, <3>2, <3>3, <3>4, <3>5, WorkerIsNoClient
      DEF WorkerActs, WorkerStep, HandlerStep, Threads
  <2>7. CASE UNCHANGED vars
    BY <2>7 DEF vars, flags, history, TypeOK
  <2>8. QED
    BY <2>4, <2>5, <2>6, <2>7 DEF Next, WorkerActs
<1>3. QED
  BY <1>1, <1>2, PTL DEF Spec
-----------------------------------------------------------------------------
(***************************************************************************)
(* A final state is stored once, by the worker, which is done then: a call *)
(* of set_state that began too late and slips in behind a straggler finds  *)
(* the state overwritten, and no final state comes after it.               *)
(***************************************************************************)
FinalOnce ==
  /\ \A t \in Threads : setting[t].step # "none" /\ setting[t].to \in FinalStates =>
       t = Worker /\ pc[Worker] = "done"
  /\ state \in FinalStates => pc[Worker] = "done" /\ setting[Worker] = NoCall
  /\ \A t \in Threads : setting[t].late =>
       pc[Worker] = "done" /\ setting[Worker] = NoCall
  /\ \A t \in Threads : setting[t].step = "store" /\ setting[t].late =>
       state \notin FinalStates

(***************************************************************************)
(* Between the two resets of the flag, a cancel stays stored.              *)
(***************************************************************************)
CancelKept ==
  /\ pc[Worker] \in {"start", "invoke", "reset_cancel"} => "underway" \notin asked
  /\ Underway /\ "underway" \in asked => cancelRequested
  /\ warned \subseteq asked

\* No pause is accepted before the operation is active.
PauseGuarded ==
  /\ pc[Worker] \in {"start", "invoke", "reset_cancel", "reset_pause", "activate"}
       => ~active
  /\ PauseSurvivesEntry

\* WakeIsComing, traced back to the predicate of the wait.
WakeTraced ==
  /\ pc[Worker] \in {"drowsy", "asleep"} /\ (cancelRequested \/ ~pauseRequested) =>
       missed \/ \E c \in Clients : Waking(c)
  /\ pc[Worker] = "ask_pause" /\ cancelRequested =>
       missed \/ \E c \in Clients : Waking(c)

\* The invariant of the final state.
LEMMA FinalOnceInvariant == Spec => []FinalOnce
<1>1. Init => FinalOnce
  BY SessionAssumption DEF Init, FinalOnce, NoCall, FinalStates, Threads
<1>2. TypeOK /\ FinalOnce /\ [Next]_vars => FinalOnce'
  <2> SUFFICES ASSUME TypeOK, FinalOnce, [Next]_vars PROVE FinalOnce'
    OBVIOUS
  <2> Worker \in Threads /\ setting \in [Threads -> Setting]
    BY DEF Threads, TypeOK
  <2> pc \in [Threads -> WorkerPlaces \cup ClientPlaces]
    BY DEF TypeOK
  <2>1. ASSUME NEW t \in Threads, LoadState(t) PROVE FinalOnce'
    <3> DEFINE passed == [setting[t] EXCEPT !.step = "store"]
    <3>1. passed.step = "store" /\ passed.to = setting[t].to /\ passed.late = setting[t].late
      BY DEF Setting
    <3>2. setting[t] # NoCall /\ NoCall.step = "none" /\ ~NoCall.late
      BY <2>1 DEF LoadState, NoCall
    <3>3. UNCHANGED <<state, pc>>
      BY <2>1 DEF LoadState
    <3>4. CASE state \in FinalStates
      <4>1. setting' = [setting EXCEPT ![t] = NoCall]
        BY <2>1, <3>4 DEF LoadState
      <4>2. QED
        BY <3>2, <3>3, <4>1 DEF FinalOnce
    <3>5. CASE state \notin FinalStates
      <4>1. setting' = [setting EXCEPT ![t] = passed]
        BY <2>1, <3>5 DEF LoadState
      <4>2. \A u \in Threads : setting'[u].to = setting[u].to /\ setting'[u].late = setting[u].late
        BY <3>1, <4>1
      <4>3. \A u \in Threads : setting'[u].step # "none" => setting[u].step # "none"
        BY <2>1, <4>1 DEF LoadState
      <4>4. setting[Worker] = NoCall => setting'[Worker] = NoCall
        BY <3>2, <4>1
      <4>5. QED
        BY <3>3, <3>5, <4>2, <4>3, <4>4 DEF FinalOnce
    <3>6. QED
      BY <3>4, <3>5
  <2>2. ASSUME NEW t \in Threads, StoreState(t) PROVE FinalOnce'
    <3>1. /\ state' = setting[t].to
          /\ setting' = [setting EXCEPT ![t] = NoCall]
          /\ UNCHANGED pc
          /\ setting[t].step = "store"
      BY <2>2 DEF StoreState
    <3>2. setting[t] # NoCall /\ NoCall.step = "none" /\ ~NoCall.late
      BY <3>1 DEF NoCall
    <3>3. CASE state' \in FinalStates
      <4>1. t = Worker /\ pc[Worker] = "done"
        BY <3>1, <3>3 DEF FinalOnce
      <4>2. \A u \in Threads : ~setting[u].late
        BY <3>2, <4>1 DEF FinalOnce
      <4>3. QED
        BY <3>1, <3>2, <4>1, <4>2 DEF FinalOnce
    <3>4. CASE state' \notin FinalStates
      BY <3>1, <3>2, <3>4 DEF FinalOnce
    <3>5. QED
      BY <3>3, <3>4
  <2>3. ASSUME NEW c \in Clients, UNCHANGED <<state, setting>>,
               pc'[Worker] = pc[Worker] \/ pc[Worker] # "done"
        PROVE  FinalOnce'
    BY <2>3 DEF FinalOnce
  <2>4. ASSUME NEW c \in Clients, NEW s \in States \ FinalStates,
               SetState(c, s), UNCHANGED state,
               pc'[Worker] = pc[Worker] \/ pc[Worker] # "done"
        PROVE  FinalOnce'
    BY <2>4, WorkerIsNoClient DEF SetState, FinalOnce, Setting
  <2>5. ASSUME NEW c \in Clients, Call(c) \/ ClientStep(c) PROVE FinalOnce'
    <3>1. CASE Call(c)
      BY <2>3, <2>4, <3>1, WorkerIsNoClient
      DEF Call, Cancel, Pause, Resume, MakeCall, Goto, States, FinalStates
    <3>2. CASE StoreCancel(c) \/ CancelUnpauses(c) \/ ResumeUnpauses(c)
      BY <2>3, <3>2, WorkerIsNoClient
      DEF StoreCancel, CancelUnpauses, ResumeUnpauses, Unpause, Goto
    <3>3. CASE CancelNotifies(c) \/ ResumeNotifies(c)
      BY <2>3, <2>4, <3>3, WorkerIsNoClient
      DEF CancelNotifies, ResumeNotifies, NotifyAll, TypeOK, States, FinalStates
    <3>4. CASE PauseAsksAgain(c) \/ StorePause(c)
      BY <2>3, <2>4, <3>4, WorkerIsNoClient
      DEF PauseAsksAgain, StorePause, Goto, States, FinalStates
    <3>5. QED
      BY <2>1, <2>2, <2>5, <3>1, <3>2, <3>3, <3>4, WorkerIsNoClient DEF ClientStep
  <2>6. CASE WorkerActs
    <3>1. CASE Start \/ Announce
      BY <3>1
      DEF Start, Announce, At, Goto, SetState, FinalOnce, NoCall, FinalStates, Setting
    <3>2. CASE Report
      <4>1. pc[Worker] # "done" /\ state \notin FinalStates
        BY <3>2 DEF Report, At, FinalOnce
      <4>2. \E s \in States : SetState(Worker, s)
        BY <3>2 DEF Report, At, TypeOK, EndPlaces, Outcomes, States, FinalStates
      <4>3. pc'[Worker] = "done" /\ UNCHANGED state
        BY <3>2 DEF Report, Goto
      <4>4. QED
        BY <4>1, <4>2, <4>3 DEF SetState, FinalOnce, Setting
    <3>3. CASE Blocked \/ Refused \/ Enter \/ Finish \/ HandlerEnds \/ PollCancel
      BY <3>3 DEF Blocked, Refused, Enter, Finish, HandlerEnds, PollCancel, Exit, At,
        Goto, FinalOnce
    <3>4. CASE ResetCancel \/ ResetPause \/ Activate \/ LeaveActive \/ LeavePause \/ LeaveCancel
      BY <3>4 DEF ResetCancel, ResetPause, Activate, FlagStep, LeaveActive, LeavePause,
        LeaveCancel, At, Goto, FinalOnce
    <3>5. CASE Poll \/ PollPause \/ AskCancel \/ AskPause \/ FallAsleep \/ WakeSpuriously
      BY <3>5 DEF Poll, PollPause, AskCancel, AskPause, FallAsleep,
        WakeSpuriously, Asks, At, Goto, FinalOnce
    <3>6. QED
      BY <2>1, <2>2, <2>6, <3>1, <3>2, <3>3, <3>4, <3>5
      DEF WorkerActs, WorkerStep, HandlerStep
  <2>7. CASE UNCHANGED vars
    BY <2>7 DEF vars, FinalOnce
  <2>8. QED
    BY <2>5, <2>6, <2>7 DEF Next, WorkerActs
<1>3. QED
  BY <1>1, <1>2, TypeCorrect, PTL DEF Spec

\* Whatever clients do, a final state is overwritten only by a call of
\* set_state that had begun before (archive_session_core.cpp, set_state).
THEOREM FinalStatesStay == Spec => FinalStateStays
<1>1. FinalOnce /\ [Next]_vars =>
        [\A t \in Threads :
           (state \in FinalStates /\ setting[t].step = "store"
              /\ setting'[t] = NoCall) => ~setting[t].late]_vars
  BY DEF FinalOnce
<1>2. QED
  BY <1>1, FinalOnceInvariant, PTL DEF Spec, FinalStateStays
-----------------------------------------------------------------------------
\* A step of a client moves that client alone, and perhaps wakes the worker.
LEMMA ClientMoves ==
  ASSUME TypeOK, NEW c \in Clients, ClientActs(c)
  PROVE  /\ \A d \in Clients : d # c => pc'[d] = pc[d]
         /\ \/ pc'[Worker] = pc[Worker]
            \/ pc[Worker] = "asleep" /\ pc'[Worker] = "ask_cancel"
         /\ UNCHANGED <<active, warned, envelope>>
<1> pc \in [Threads -> WorkerPlaces \cup ClientPlaces]
  BY DEF TypeOK
<1>1. CASE LoadState(c) \/ StoreState(c)
  BY <1>1 DEF LoadState, StoreState, flags, history
<1>2. CASE Call(c)
  BY <1>2, WorkerIsNoClient
  DEF Call, Cancel, Pause, Resume, MakeCall, Goto, flags, history
<1>3. CASE StoreCancel(c) \/ CancelUnpauses(c) \/ ResumeUnpauses(c)
  BY <1>3, WorkerIsNoClient
  DEF StoreCancel, CancelUnpauses, ResumeUnpauses, Unpause, Goto, history
<1>4. CASE CancelNotifies(c) \/ ResumeNotifies(c)
  BY <1>4, WorkerIsNoClient DEF CancelNotifies, ResumeNotifies, NotifyAll, flags
<1>5. CASE PauseAsksAgain(c) \/ StorePause(c)
  BY <1>5, WorkerIsNoClient DEF PauseAsksAgain, StorePause, Goto, flags, history
<1>6. QED
  BY <1>1, <1>2, <1>3, <1>4, <1>5 DEF ClientActs, ClientStep

\* What the three invariants below read of a client's step: the flags it
\* stores and the place it goes to.
LEMMA ClientStores ==
  ASSUME TypeOK, NEW c \in Clients, ClientActs(c)
  PROVE  \/ /\ UNCHANGED <<cancelRequested, pauseRequested, asked, missed, pc>>
         \/ /\ UNCHANGED <<cancelRequested, pauseRequested, asked, missed>>
            /\ pc[c] = "idle" /\ pc'[c] \in {"cancel", "pause", "resume"}
            /\ pc'[c] = "pause" => active
         \/ /\ StoreCancel(c) /\ pc'[c] = "cancel_unpause"
         \/ /\ UNCHANGED <<cancelRequested, asked, missed>> /\ ~pauseRequested'
            /\ pc[c] \in {"cancel_unpause", "resume"}
            /\ pc'[c] \in {"cancel_notify", "resume_notify"}
         \/ /\ UNCHANGED <<cancelRequested, pauseRequested, asked>>
            /\ NotifyAll(c, "idle") /\ pc[c] \in {"cancel_notify", "resume_notify"}
            /\ pc'[c] = "idle"
         \/ /\ UNCHANGED <<cancelRequested, pauseRequested, asked, missed>>
            /\ pc[c] = "pause" /\ pc'[c] \in {"idle", "pause_store"}
            /\ pc'[c] = "pause_store" => active
         \/ /\ UNCHANGED <<cancelRequested, asked, missed>> /\ pauseRequested'
            /\ pc[c] = "pause_store" /\ pc'[c] = "idle"
<1> pc \in [Threads -> WorkerPlaces \cup ClientPlaces]
  BY DEF TypeOK
<1>1. CASE LoadState(c) \/ StoreState(c)
  BY <1>1 DEF LoadState, StoreState, flags, history
<1>2. CASE Call(c)
  BY <1>2, WorkerIsNoClient
  DEF Call, Cancel, Pause, Resume, MakeCall, At, Goto, flags, history
<1>3. CASE StoreCancel(c)
  BY <1>3, WorkerIsNoClient DEF StoreCancel, Goto
<1>4. CASE CancelUnpauses(c) \/ ResumeUnpauses(c)
  BY <1>4, WorkerIsNoClient
  DEF CancelUnpauses, ResumeUnpauses, Unpause, At, Goto, history
<1>5. CASE CancelNotifies(c) \/ ResumeNotifies(c)
  BY <1>5, WorkerIsNoClient DEF CancelNotifies, ResumeNotifies, NotifyAll, At, flags
<1>6. CASE PauseAsksAgain(c)
  BY <1>6, WorkerIsNoClient DEF PauseAsksAgain, At, Goto, flags, history
<1>7. CASE StorePause(c)
  BY <1>7, WorkerIsNoClient DEF StorePause, At, Goto, history
<1>8. QED
  BY <1>1, <1>2, <1>3, <1>4, <1>5, <1>6, <1>7 DEF ClientActs, ClientStep

\* A step of the worker moves no client.
LEMMA WorkerMoves ==
  ASSUME TypeOK, WorkerActs
  PROVE  \A c \in Clients : pc'[c] = pc[c]
<1> pc \in [Threads -> WorkerPlaces \cup ClientPlaces]
  BY DEF TypeOK
<1>1. (\E place : Goto(Worker, place)) \/ UNCHANGED pc
  BY DEF WorkerActs, WorkerStep, HandlerStep, LoadState, StoreState, Start,
    Blocked, Refused, Enter, ResetCancel, ResetPause, Activate, Announce,
    HandlerEnds, Poll, PollPause, AskCancel, AskPause, FallAsleep,
    WakeSpuriously, Asks, PollCancel, LeaveActive, LeavePause, LeaveCancel,
    FlagStep, Finish, Report
<1>2. QED
  BY <1>1, WorkerIsNoClient DEF Goto

-----------------------------------------------------------------------------
\* A cancel that is stored during the operation stays stored.
LEMMA CancelKeptInvariant == Spec => []CancelKept
<1>1. Init => CancelKept
  BY DEF Init, CancelKept, Underway, Threads
<1>2. TypeOK /\ CancelKept /\ [Next]_vars => CancelKept'
  <2> SUFFICES ASSUME TypeOK, CancelKept, [Next]_vars PROVE CancelKept'
    OBVIOUS
  <2> Worker \in Threads /\ pc \in [Threads -> WorkerPlaces \cup ClientPlaces]
    BY DEF Threads, TypeOK
  <2> envelope \in {"direct", "cancelable", "pauseable"}
    BY SessionAssumption DEF TypeOK
  <2>1. ASSUME NEW c \in Clients, ClientActs(c) PROVE CancelKept'
    <3>1. CASE StoreCancel(c)
      BY <3>1, <2>1, ClientMoves DEF StoreCancel, CancelKept, Underway
    <3>2. CASE UNCHANGED <<cancelRequested, asked>>
      BY <3>2, <2>1, ClientMoves DEF CancelKept, Underway
    <3>3. QED
      BY <2>1, <3>1, <3>2, ClientStores
  <2>2. CASE WorkerActs
    <3>1. CASE LoadState(Worker) \/ StoreState(Worker) \/ Announce
      BY <3>1 DEF LoadState, StoreState, Announce, flags, history, CancelKept, Underway
    <3>2. CASE Start \/ Blocked \/ Refused \/ Enter
      BY <3>2 DEF Start, Blocked, Refused, Enter, At, Goto, flags, history,
        CancelKept, Underway
    <3>3. CASE ResetCancel \/ ResetPause \/ Activate
      BY <3>3 DEF ResetCancel, ResetPause, Activate, FlagStep, At, Goto, history,
        CancelKept, Underway
    <3>4. CASE Poll
      BY <3>4 DEF Poll, At, Goto, flags, CancelKept, Underway
    <3>8. CASE HandlerEnds \/ PollCancel
      <4>1. UNCHANGED <<cancelRequested, asked, warned>> /\ Underway
        BY <3>8 DEF HandlerEnds, PollCancel, Exit, At, Underway, flags, history
      <4>2. pc'[Worker] \in {"run", "leave_active", "leave_cancel", "finish"}
        BY <3>8 DEF HandlerEnds, PollCancel, Exit, Goto
      <4>3. QED
        BY <4>1, <4>2 DEF CancelKept, Underway
    <3>5. CASE PollPause \/ AskCancel \/ AskPause \/ FallAsleep \/ WakeSpuriously
      BY <3>5 DEF PollPause, AskCancel, AskPause, FallAsleep, WakeSpuriously,
        Asks, At, Goto, flags, history, CancelKept, Underway
    <3>6. CASE LeaveActive \/ LeavePause \/ LeaveCancel
      BY <3>6 DEF LeaveActive, LeavePause, LeaveCancel, FlagStep, At, Goto, history,
        CancelKept, Underway
    <3>7. CASE Finish \/ Report
      BY <3>7 DEF Finish, Report, At, Goto, flags, history, CancelKept, Underway
    <3>9. QED
      BY <2>2, <3>1, <3>2, <3>3, <3>4, <3>5, <3>6, <3>7, <3>8
      DEF WorkerActs, WorkerStep, HandlerStep
  <2>3. CASE UNCHANGED vars
    BY <2>3 DEF vars, flags, history, CancelKept, Underway
  <2>4. QED
    BY <2>1, <2>2, <2>3 DEF Next, WorkerActs, ClientActs
<1>3. QED
  BY <1>1, <1>2, TypeCorrect, PTL DEF Spec

\* A callback that asks after a cancel was stored during the operation never
\* goes on (info_runtime.cpp, wait_while_paused; callback_base.h, should_abort).
THEOREM CancelStopsWork == Spec => NoWorkAfterCancel
<1>1. TypeOK /\ CancelKept /\ [Next]_vars =>
        [(pc[Worker] \in {"poll", "poll_cancel"} /\ pc'[Worker] = "run")
           => "underway" \notin warned]_vars
  <2> SUFFICES ASSUME TypeOK, CancelKept, Next,
                      pc[Worker] \in {"poll", "poll_cancel"}, pc'[Worker] = "run"
               PROVE  "underway" \notin warned
    OBVIOUS
  <2> Worker \in Threads /\ pc \in [Threads -> WorkerPlaces \cup ClientPlaces]
    BY DEF Threads, TypeOK
  <2> envelope \in {"direct", "cancelable", "pauseable"}
    BY SessionAssumption DEF TypeOK
  <2>1. ASSUME NEW c \in Clients, ClientActs(c) PROVE FALSE
    BY <2>1, ClientMoves
  <2>2. WorkerActs
    BY <2>1 DEF Next, WorkerActs, ClientActs
  <2>3. PollCancel \/ PollPause
    <3>1. ~(LoadState(Worker) \/ StoreState(Worker) \/ Announce)
      BY DEF LoadState, StoreState, Announce
    <3>2. ~(Start \/ Blocked \/ Refused \/ Enter \/ ResetCancel \/ ResetPause \/ Activate)
      BY DEF Start, Blocked, Refused, Enter, ResetCancel, ResetPause, Activate, FlagStep, At
    <3>3. ~(Poll \/ HandlerEnds \/ AskCancel \/ AskPause \/ FallAsleep \/ WakeSpuriously)
      BY DEF Poll, HandlerEnds, AskCancel, AskPause, FallAsleep, WakeSpuriously, Asks, At
    <3>4. ~(LeaveActive \/ LeavePause \/ LeaveCancel \/ Finish \/ Report)
      BY DEF LeaveActive, LeavePause, LeaveCancel, FlagStep, Finish, Report, At
    <3>5. QED
      BY <2>2, <3>1, <3>2, <3>3, <3>4 DEF WorkerActs, WorkerStep, HandlerStep
  <2>4. ~cancelRequested
    <3>1. ~PollPause
      BY DEF PollPause, Asks, Goto
    <3>2. QED
      BY <2>3, <3>1 DEF PollCancel, Exit, Goto
  <2>5. QED
    BY <2>4 DEF CancelKept, Underway
<1>2. QED
  BY <1>1, TypeCorrect, CancelKeptInvariant, PTL DEF Spec, NoWorkAfterCancel
-----------------------------------------------------------------------------
\* A pause is accepted by an active operation only, and the operation is
\* active after its resets only.
LEMMA PauseGuardedInvariant == Spec => []PauseGuarded
<1>1. Init => PauseGuarded
  BY SessionAssumption DEF Init, PauseGuarded, PauseSurvivesEntry, Threads
<1>2. TypeOK /\ PauseGuarded /\ [Next]_vars => PauseGuarded'
  <2> SUFFICES ASSUME TypeOK, PauseGuarded, [Next]_vars PROVE PauseGuarded'
    OBVIOUS
  <2> Worker \in Threads /\ pc \in [Threads -> WorkerPlaces \cup ClientPlaces]
    BY DEF Threads, TypeOK
  <2> envelope \in {"direct", "cancelable", "pauseable"}
    BY SessionAssumption DEF TypeOK
  <2>1. ASSUME NEW c \in Clients, ClientActs(c) PROVE PauseGuarded'
    <3>1. CASE pc[Worker] \in {"start", "invoke", "reset_cancel", "reset_pause"}
      <4>1. ~active /\ ~pauseRequested
        BY <3>1 DEF PauseGuarded, PauseSurvivesEntry
      <4>2. pc[c] \notin {"pause", "pause_store"}
        BY <3>1 DEF PauseGuarded, PauseSurvivesEntry
      <4>3. ~pauseRequested' /\ pc'[c] \notin {"pause", "pause_store"}
        <5>1. CASE StoreCancel(c) /\ pc'[c] = "cancel_unpause"
          BY <4>1, <5>1 DEF StoreCancel
        <5>2. QED
          BY <2>1, <4>1, <4>2, <5>1, ClientStores
      <4>4. QED
        BY <2>1, <3>1, <4>1, <4>3, ClientMoves DEF PauseGuarded, PauseSurvivesEntry
    <3>2. CASE pc[Worker] \notin {"start", "invoke", "reset_cancel", "reset_pause"}
      BY <2>1, <3>2, ClientMoves DEF PauseGuarded, PauseSurvivesEntry
    <3>3. QED
      BY <3>1, <3>2
  <2>2. CASE WorkerActs
    <3>1. \A c \in Clients : pc'[c] = pc[c]
      BY <2>2, WorkerMoves
    <3>2. CASE LoadState(Worker) \/ StoreState(Worker) \/ Announce
      BY <3>2 DEF LoadState, StoreState, Announce, flags, PauseGuarded, PauseSurvivesEntry
    <3>3. CASE Start \/ Blocked \/ Refused \/ Enter
      BY <3>1, <3>3 DEF Start, Blocked, Refused, Enter, At, Goto, flags,
        PauseGuarded, PauseSurvivesEntry
    <3>4. CASE ResetCancel \/ ResetPause \/ Activate
      BY <3>1, <3>4 DEF ResetCancel, ResetPause, Activate, FlagStep, At, Goto,
        PauseGuarded, PauseSurvivesEntry
    <3>5. CASE Poll \/ PollPause \/ AskCancel \/ AskPause \/ FallAsleep \/ WakeSpuriously
      BY <3>1, <3>5 DEF Poll, PollPause, AskCancel, AskPause, FallAsleep,
        WakeSpuriously, Asks, At, Goto, PauseGuarded, PauseSurvivesEntry
    <3>6. CASE HandlerEnds \/ PollCancel
      <4>1. pc'[Worker] \in {"run", "leave_active", "leave_cancel", "finish"}
        BY <3>6 DEF HandlerEnds, PollCancel, Exit, Goto
      <4>2. QED
        BY <4>1 DEF PauseGuarded, PauseSurvivesEntry
    <3>7. CASE LeaveActive \/ LeavePause \/ LeaveCancel \/ Finish \/ Report
      BY <3>7 DEF LeaveActive, LeavePause, LeaveCancel, FlagStep, Finish, Report, At,
        Goto, PauseGuarded, PauseSurvivesEntry
    <3>8. QED
      BY <2>2, <3>2, <3>3, <3>4, <3>5, <3>6, <3>7
      DEF WorkerActs, WorkerStep, HandlerStep
  <2>3. CASE UNCHANGED vars
    BY <2>3 DEF vars, flags, PauseGuarded, PauseSurvivesEntry
  <2>4. QED
    BY <2>1, <2>2, <2>3 DEF Next, WorkerActs, ClientActs
<1>3. QED
  BY <1>1, <1>2, TypeCorrect, PTL DEF Spec

\* The reset of pause_requested_ never meets a pause
\* (internal_backend.h, run_with_pauseable_operation).
THEOREM NoPauseIsErased == Spec => []PauseSurvivesEntry
<1>1. PauseGuarded => PauseSurvivesEntry
  BY DEF PauseGuarded
<1>2. QED
  BY <1>1, PauseGuardedInvariant, PTL

-----------------------------------------------------------------------------
\* Every store a sleeper has to hear of is made by a client that is waking.
LEMMA WakeTracedInvariant == Spec => []WakeTraced
<1>1. Init => WakeTraced
  BY DEF Init, WakeTraced, Threads
<1>2. TypeOK /\ WakeTraced /\ [Next]_vars => WakeTraced'
  <2> SUFFICES ASSUME TypeOK, WakeTraced, [Next]_vars PROVE WakeTraced'
    OBVIOUS
  <2> Worker \in Threads /\ pc \in [Threads -> WorkerPlaces \cup ClientPlaces]
    BY DEF Threads, TypeOK
  <2> envelope \in {"direct", "cancelable", "pauseable"}
    BY SessionAssumption DEF TypeOK
  <2>1. ASSUME NEW c \in Clients, ClientActs(c) PROVE WakeTraced'
    <3>1. CASE \E d \in Clients : Waking(d)'
      BY <3>1 DEF WakeTraced
    <3>2. CASE ~ \E d \in Clients : Waking(d)'
      <4>1. \A d \in Clients : d # c => ~Waking(d)
        BY <2>1, <3>2, ClientMoves DEF Waking
      <4>2. CASE pc[c] \in {"cancel_notify", "resume_notify"} /\ NotifyAll(c, "idle")
        <5>1. pc[Worker] \in {"ask_pause", "drowsy"} => missed'
          BY <4>2 DEF NotifyAll
        <5>2. pc'[Worker] \in {"ask_pause", "drowsy"} =>
                pc[Worker] \in {"ask_pause", "drowsy"}
          BY <2>1, ClientMoves
        <5>3. pc'[Worker] # "asleep"
          BY <4>2, WorkerIsNoClient DEF NotifyAll
        <5>4. QED
          BY <5>1, <5>2, <5>3 DEF WakeTraced
      <4>3. CASE /\ UNCHANGED <<cancelRequested, missed>>
                 /\ pauseRequested' = pauseRequested \/ pauseRequested'
                 /\ ~Waking(c)
        <5>1. ~ \E d \in Clients : Waking(d)
          BY <4>1, <4>3
        <5>2. QED
          BY <2>1, <4>3, <5>1, ClientMoves DEF WakeTraced
      <4>4. ~Waking(c)'
        BY <3>2
      <4>5. QED
        BY <2>1, <4>2, <4>3, <4>4, ClientStores DEF Waking
    <3>3. QED
      BY <3>1, <3>2
  <2>2. CASE WorkerActs
    <3>1. (\E d \in Clients : Waking(d)) => \E d \in Clients : Waking(d)'
      BY <2>2, WorkerMoves DEF Waking
    <3>2. CASE LoadState(Worker) \/ StoreState(Worker) \/ Announce
      BY <3>1, <3>2 DEF LoadState, StoreState, Announce, flags, history, WakeTraced
    <3>3. CASE Start \/ Blocked \/ Refused \/ Enter \/ Finish \/ Report
      BY <3>3 DEF Start, Blocked, Refused, Enter, Finish, Report, Goto, WakeTraced
    <3>4. CASE ResetCancel \/ ResetPause \/ Activate
      BY <3>4 DEF ResetCancel, ResetPause, Activate, FlagStep, Goto, WakeTraced
    <3>5. CASE Poll \/ PollPause
      BY <3>5 DEF Poll, PollPause, Asks, Goto, WakeTraced
    <3>6. CASE AskCancel \/ AskPause
      BY <3>1, <3>6 DEF AskCancel, AskPause, Asks, At, Goto, flags, WakeTraced
    <3>7. CASE FallAsleep \/ WakeSpuriously
      BY <3>1, <3>7 DEF FallAsleep, WakeSpuriously, Asks, At, Goto, flags, WakeTraced
    <3>8. CASE HandlerEnds \/ PollCancel
      <4>1. pc'[Worker] \in {"run", "leave_active", "leave_cancel", "finish"}
        BY <3>8 DEF HandlerEnds, PollCancel, Exit, Goto
      <4>2. QED
        BY <4>1 DEF WakeTraced
    <3>9. CASE LeaveActive \/ LeavePause \/ LeaveCancel
      BY <3>9 DEF LeaveActive, LeavePause, LeaveCancel, FlagStep, Goto, WakeTraced
    <3>10. QED
      BY <2>2, <3>2, <3>3, <3>4, <3>5, <3>6, <3>7, <3>8, <3>9
      DEF WorkerActs, WorkerStep, HandlerStep
  <2>3. CASE UNCHANGED vars
    BY <2>3 DEF vars, flags, history, WakeTraced, Waking
  <2>4. QED
    BY <2>1, <2>2, <2>3 DEF Next, WorkerActs, ClientActs
<1>3. QED
  BY <1>1, <1>2, TypeCorrect, PTL DEF Spec

\* A worker that sleeps without cause has a notification coming, or missed
\* one (info_runtime.cpp, wait_while_paused against cancel and resume).
THEOREM SleeperIsWoken == Spec => []WakeIsComing
<1>1. WakeTraced => WakeIsComing
  BY DEF WakeTraced, WakeIsComing
<1>2. QED
  BY <1>1, WakeTracedInvariant, PTL
=============================================================================
