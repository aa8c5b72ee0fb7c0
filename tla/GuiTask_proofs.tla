--------------------------- MODULE GuiTask_proofs ---------------------------
(***************************************************************************)
(* The safety of a task of 7zG, for any number of nested archives and      *)
(* clicks.                                                                 *)
(***************************************************************************)
EXTENDS GuiTask, TLAPS

\* A session is active from its start until its completion is handled, and a
\* question is on the screen only while its thread waits for the answer.
Places ==
  /\ (worker # "none") = (ui \in {"bind", "connect", "loop"})
  /\ (outcome # "none") = (worker = "posted")
  /\ prompting => worker = "asking"
  /\ request = "close" => worker # "asking"
  /\ ui = "check" => request # "close"
  /\ ui \in {"claimed", "setup"} => request = "open"
  /\ ui \in {"claimed", "setup"} \/ Ended => tokens = 0

\* The sequencer has a token of each session but the one that is being opened
\* or closed.
InClosing == request = "close" /\ worker # "posted" /\ ~Ended
JustOpened == request = "open" /\ outcome = "success"
Registry ==
  /\ opened = 1..(IF InClosing \/ JustOpened THEN tokens + 1 ELSE tokens)
  /\ request = "open" => tokens <= nested
  /\ request = "close" => tokens <= Depth

\* Whatever can cancel a session was wanted.
Wishes ==
  /\ canceled \/ cancelFlag \/ outcome = "canceled" \/ result = "canceled" =>
     wanted
  /\ emitting \/ queued => canceled

\* The work leaves its outcome behind as the result.
Outcome ==
  /\ worked = "none" \/ result = worked
       \/ (request = "work" /\ worker = "posted" /\ outcome = worked)
  /\ result = "success" => worked = "success"
  /\ request = "open" => worked = "none"
  /\ request = "work" /\ worker # "posted" /\ ~Ended => worked = "none"
  /\ request = "work" /\ worker = "posted" => worked = outcome

\* A pause is of a running work, behind a dialog that shows it.
Pauses ==
  /\ pauseFlag => paused /\ Pauseable
  /\ confirming # "no" => paused

\* Everything a proof by induction needs.
IInv ==
  /\ Words /\ Flags /\ Numbers
  /\ Places /\ Registry /\ Wishes /\ Outcome /\ Pauses
-----------------------------------------------------------------------------
\* The invariant holds before the worker has looked for a cancel.
LEMMA InitEstablishes == Init => IInv
<1> SUFFICES ASSUME Init PROVE IInv
  OBVIOUS
<1>1. Words /\ Numbers
  BY GuiAssumption DEF Init, Words, Numbers, Outcomes
<1>2. Flags
  BY Zenon DEF Init, Flags
<1>3. Places /\ Wishes /\ Outcome /\ Pauses
  BY DEF Init, Places, Wishes, Outcome, Pauses, Ended
<1>4. Registry
  BY GuiAssumption DEF Init, Registry, InClosing, JustOpened
<1> QED
  BY <1>1, <1>2, <1>3, <1>4 DEF IInv

\* No step of the main thread, the user, the launcher or a session breaks it.
LEMMA StepPreserves == IInv /\ [Next]_vars => IInv'
<1> SUFFICES ASSUME IInv, [Next]_vars PROVE IInv'
  OBVIOUS
<1> USE GuiAssumption DEF IInv, Outcomes, Ended, Active, Pauseable,
        InClosing, JustOpened, sequence, session, dialog, remote, history
<1>1. CASE LookAfterClaim
  <2>1. Words'
    BY <1>1, SMTT(20) DEF Words, Places, LookAfterClaim
  <2>2. Flags'
    BY <1>1, ZenonT(20) DEF Flags, LookAfterClaim
  <2>3. Numbers'
    BY <1>1, SMTT(20) DEF Numbers, LookAfterClaim
  <2>4. Places'
    BY <1>1, SMTT(20) DEF Words, Places, LookAfterClaim
  <2>5. Registry'
    <3>1. CASE canceled
      BY <1>1, <3>1, SMTT(20) DEF Words, Numbers, Places, Registry,
         LookAfterClaim
    <3>2. CASE ~canceled
      BY <1>1, <3>2, SMTT(20) DEF Words, Numbers, Places, Registry,
         LookAfterClaim
    <3> QED
      BY <1>1, <3>1, <3>2 DEF Words, LookAfterClaim
  <2>6. Wishes'
    BY <1>1, SMTT(20) DEF Words, Places, Wishes, LookAfterClaim
  <2>7. Outcome'
    <3>1. CASE canceled
      BY <1>1, <3>1, SMTT(20) DEF Words, Places, Outcome, LookAfterClaim
    <3>2. CASE ~canceled
      BY <1>1, <3>2, SMTT(20) DEF Words, Places, Outcome, LookAfterClaim
    <3> QED
      BY <1>1, <3>1, <3>2 DEF Words, LookAfterClaim
  <2>8. Pauses'
    BY <1>1, SMTT(20) DEF Words, Places, Pauses, LookAfterClaim
  <2> QED
    BY <2>1, <2>2, <2>3, <2>4, <2>5, <2>6, <2>7, <2>8
<1>2. CASE Check
  <2>1. Words'
    BY <1>2, SMTT(20) DEF Words, Places, Check, CloseTokens, Finalize
  <2>2. Flags'
    BY <1>2, ZenonT(20) DEF Flags, Check, CloseTokens, Finalize
  <2>3. Numbers'
    BY <1>2, SMTT(20) DEF Numbers, Check, CloseTokens, Finalize
  <2>4. Places'
    BY <1>2, SMTT(20) DEF Words, Places, Check, CloseTokens, Finalize
  <2>5. Registry'
    BY <1>2, SMTT(20) DEF Words, Numbers, Places, Registry, Check,
       CloseTokens, Finalize
  <2>6. Wishes'
    BY <1>2, SMTT(20) DEF Words, Places, Wishes, Check, CloseTokens, Finalize
  <2>7. Outcome'
    BY <1>2, SMTT(20) DEF Words, Places, Outcome, Check, CloseTokens, Finalize
  <2>8. Pauses'
    BY <1>2, SMTT(20) DEF Words, Places, Pauses, Check, CloseTokens, Finalize
  <2> QED
    BY <2>1, <2>2, <2>3, <2>4, <2>5, <2>6, <2>7, <2>8
<1>3. CASE Start
  <2>1. Words'
    BY <1>3, SMTT(20) DEF Words, Places, Start
  <2>2. Flags'
    BY <1>3, ZenonT(20) DEF Flags, Start
  <2>3. Numbers'
    BY <1>3, SMTT(20) DEF Numbers, Start
  <2>4. Places'
    BY <1>3, SMTT(20) DEF Words, Places, Start
  <2>5. Registry'
    BY <1>3, SMTT(20) DEF Words, Numbers, Places, Registry, Start
  <2>6. Wishes'
    BY <1>3, SMTT(20) DEF Words, Places, Wishes, Start
  <2>7. Outcome'
    BY <1>3, SMTT(20) DEF Words, Places, Outcome, Start
  <2>8. Pauses'
    BY <1>3, SMTT(20) DEF Words, Places, Pauses, Start
  <2> QED
    BY <2>1, <2>2, <2>3, <2>4, <2>5, <2>6, <2>7, <2>8
<1>4. CASE Bind
  <2>1. Words'
    BY <1>4, SMTT(20) DEF Words, Places, Bind, CancelSession
  <2>2. Flags'
    BY <1>4, ZenonT(20) DEF Flags, Bind, CancelSession
  <2>3. Numbers'
    BY <1>4, SMTT(20) DEF Numbers, Bind, CancelSession
  <2>4. Places'
    BY <1>4, SMTT(20) DEF Words, Places, Bind, CancelSession
  <2>5. Registry'
    BY <1>4, SMTT(20) DEF Words, Numbers, Places, Registry, Bind, CancelSession
  <2>6. Wishes'
    BY <1>4, SMTT(20) DEF Words, Places, Wishes, Bind, CancelSession
  <2>7. Outcome'
    BY <1>4, SMTT(20) DEF Words, Places, Outcome, Bind, CancelSession
  <2>8. Pauses'
    BY <1>4, SMTT(20) DEF Words, Places, Pauses, Bind, CancelSession
  <2> QED
    BY <2>1, <2>2, <2>3, <2>4, <2>5, <2>6, <2>7, <2>8
<1>5. CASE Connect
  <2>1. Words'
    BY <1>5, SMTT(20) DEF Words, Places, Connect
  <2>2. Flags'
    BY <1>5, ZenonT(20) DEF Flags, Connect
  <2>3. Numbers'
    BY <1>5, SMTT(20) DEF Numbers, Connect
  <2>4. Places'
    BY <1>5, SMTT(20) DEF Words, Places, Connect
  <2>5. Registry'
    BY <1>5, SMTT(20) DEF Words, Numbers, Places, Registry, Connect
  <2>6. Wishes'
    BY <1>5, SMTT(20) DEF Words, Places, Wishes, Connect
  <2>7. Outcome'
    BY <1>5, SMTT(20) DEF Words, Places, Outcome, Connect
  <2>8. Pauses'
    BY <1>5, SMTT(20) DEF Words, Places, Pauses, Connect
  <2> QED
    BY <2>1, <2>2, <2>3, <2>4, <2>5, <2>6, <2>7, <2>8
<1>6. CASE OpenCompleted
  <2>1. Words'
    BY <1>6, SMTT(20) DEF Words, Places, OpenCompleted, Completed
  <2>2. Flags'
    BY <1>6, ZenonT(20) DEF Flags, OpenCompleted, Completed
  <2>3. Numbers'
    BY <1>6, SMTT(20) DEF Words, Numbers, Registry, OpenCompleted, Completed
  <2>4. Places'
    BY <1>6, SMTT(20) DEF Words, Places, OpenCompleted, Completed
  <2>5. Registry'
    BY <1>6, SMTT(20) DEF Words, Numbers, Places, Registry, OpenCompleted,
       Completed
  <2>6. Wishes'
    BY <1>6, SMTT(20) DEF Words, Places, Wishes, OpenCompleted, Completed
  <2>7. Outcome'
    BY <1>6, SMTT(20) DEF Words, Places, Outcome, OpenCompleted, Completed
  <2>8. Pauses'
    BY <1>6, SMTT(20) DEF Words, Places, Pauses, OpenCompleted, Completed
  <2> QED
    BY <2>1, <2>2, <2>3, <2>4, <2>5, <2>6, <2>7, <2>8
<1>7. CASE OpenFailed
  <2>1. Words'
    BY <1>7, SMTT(20) DEF Words, Places, OpenFailed, Completed, CloseTokens,
       Finalize
  <2>2. Flags'
    BY <1>7, ZenonT(20) DEF Flags, OpenFailed, Completed, CloseTokens, Finalize
  <2>3. Numbers'
    BY <1>7, SMTT(20) DEF Numbers, OpenFailed, Completed, CloseTokens, Finalize
  <2>4. Places'
    BY <1>7, SMTT(20) DEF Words, Places, OpenFailed, Completed, CloseTokens,
       Finalize
  <2>5. Registry'
    BY <1>7, SMTT(20) DEF Words, Numbers, Places, Registry, OpenFailed,
       Completed, CloseTokens, Finalize
  <2>6. Wishes'
    BY <1>7, SMTT(20) DEF Words, Places, Wishes, OpenFailed, Completed,
       CloseTokens, Finalize
  <2>7. Outcome'
    BY <1>7, SMTT(20) DEF Words, Places, Outcome, OpenFailed, Completed,
       CloseTokens, Finalize
  <2>8. Pauses'
    BY <1>7, SMTT(20) DEF Words, Places, Pauses, OpenFailed, Completed,
       CloseTokens, Finalize
  <2> QED
    BY <2>1, <2>2, <2>3, <2>4, <2>5, <2>6, <2>7, <2>8
<1>8. CASE WorkCompleted
  <2>1. Words'
    BY <1>8, SMTT(20) DEF Words, Places, WorkCompleted, Completed,
       CloseTokens, Finalize
  <2>2. Flags'
    BY <1>8, ZenonT(20) DEF Flags, WorkCompleted, Completed, CloseTokens,
       Finalize
  <2>3. Numbers'
    BY <1>8, SMTT(20) DEF Numbers, WorkCompleted, Completed, CloseTokens,
       Finalize
  <2>4. Places'
    BY <1>8, SMTT(20) DEF Words, Places, WorkCompleted, Completed,
       CloseTokens, Finalize
  <2>5. Registry'
    BY <1>8, SMTT(20) DEF Words, Numbers, Places, Registry, WorkCompleted,
       Completed, CloseTokens, Finalize
  <2>6. Wishes'
    BY <1>8, SMTT(20) DEF Words, Places, Wishes, WorkCompleted, Completed,
       CloseTokens, Finalize
  <2>7. Outcome'
    BY <1>8, SMTT(20) DEF Words, Places, Outcome, WorkCompleted, Completed,
       CloseTokens, Finalize
  <2>8. Pauses'
    BY <1>8, SMTT(20) DEF Words, Places, Pauses, WorkCompleted, Completed,
       CloseTokens, Finalize
  <2> QED
    BY <2>1, <2>2, <2>3, <2>4, <2>5, <2>6, <2>7, <2>8
<1>9. CASE CloseCompleted
  <2>1. Words'
    BY <1>9, SMTT(20) DEF Words, Places, CloseCompleted, Completed,
       CloseTokens, Finalize
  <2>2. Flags'
    BY <1>9, ZenonT(20) DEF Flags, CloseCompleted, Completed, CloseTokens,
       Finalize
  <2>3. Numbers'
    BY <1>9, SMTT(20) DEF Numbers, CloseCompleted, Completed, CloseTokens,
       Finalize
  <2>4. Places'
    BY <1>9, SMTT(20) DEF Words, Places, CloseCompleted, Completed,
       CloseTokens, Finalize
  <2>5. Registry'
    BY <1>9, SMTT(20) DEF Words, Numbers, Places, Registry, CloseCompleted,
       Completed, CloseTokens, Finalize
  <2>6. Wishes'
    BY <1>9, SMTT(20) DEF Words, Places, Wishes, CloseCompleted, Completed,
       CloseTokens, Finalize
  <2>7. Outcome'
    BY <1>9, SMTT(20) DEF Words, Places, Outcome, CloseCompleted, Completed,
       CloseTokens, Finalize
  <2>8. Pauses'
    BY <1>9, SMTT(20) DEF Words, Places, Pauses, CloseCompleted, Completed,
       CloseTokens, Finalize
  <2> QED
    BY <2>1, <2>2, <2>3, <2>4, <2>5, <2>6, <2>7, <2>8
<1>10. CASE DeliverCancel
  <2>1. Words'
    BY <1>10, SMTT(20) DEF Words, Places, DeliverCancel, CancelSession
  <2>2. Flags'
    BY <1>10, ZenonT(20) DEF Flags, DeliverCancel, CancelSession
  <2>3. Numbers'
    BY <1>10, SMTT(20) DEF Numbers, DeliverCancel, CancelSession
  <2>4. Places'
    BY <1>10, SMTT(20) DEF Words, Places, DeliverCancel, CancelSession
  <2>5. Registry'
    BY <1>10, SMTT(20) DEF Words, Numbers, Places, Registry, DeliverCancel,
       CancelSession
  <2>6. Wishes'
    BY <1>10, SMTT(20) DEF Words, Places, Wishes, DeliverCancel, CancelSession
  <2>7. Outcome'
    BY <1>10, SMTT(20) DEF Words, Places, Outcome, DeliverCancel, CancelSession
  <2>8. Pauses'
    BY <1>10, SMTT(20) DEF Words, Places, Pauses, DeliverCancel, CancelSession
  <2> QED
    BY <2>1, <2>2, <2>3, <2>4, <2>5, <2>6, <2>7, <2>8
<1>11. CASE Prompt
  <2>1. Words'
    BY <1>11, SMTT(20) DEF Words, Places, Prompt
  <2>2. Flags'
    BY <1>11, ZenonT(20) DEF Flags, Prompt
  <2>3. Numbers'
    BY <1>11, SMTT(20) DEF Numbers, Prompt
  <2>4. Places'
    BY <1>11, SMTT(20) DEF Words, Places, Prompt
  <2>5. Registry'
    BY <1>11, SMTT(20) DEF Words, Numbers, Places, Registry, Prompt
  <2>6. Wishes'
    BY <1>11, SMTT(20) DEF Words, Places, Wishes, Prompt
  <2>7. Outcome'
    BY <1>11, SMTT(20) DEF Words, Places, Outcome, Prompt
  <2>8. Pauses'
    BY <1>11, SMTT(20) DEF Words, Places, Pauses, Prompt
  <2> QED
    BY <2>1, <2>2, <2>3, <2>4, <2>5, <2>6, <2>7, <2>8
<1>12. CASE Prepare
  <2>1. Words'
    BY <1>12, SMTT(20) DEF Words, Places, Prepare
  <2>2. Flags'
    BY <1>12, ZenonT(20) DEF Flags, Prepare
  <2>3. Numbers'
    BY <1>12, SMTT(20) DEF Numbers, Prepare
  <2>4. Places'
    BY <1>12, SMTT(20) DEF Words, Places, Prepare
  <2>5. Registry'
    <3>1. CASE ui' = "delivered"
      BY <1>12, <3>1, SMTT(20) DEF Words, Numbers, Places, Registry, Prepare
    <3>2. CASE ui' = "start"
      BY <1>12, <3>2, SMTT(20) DEF Words, Numbers, Places, Registry, Prepare
    <3>3. CASE ui' = "check"
      BY <1>12, <3>3, SMTT(20) DEF Words, Numbers, Places, Registry, Prepare
    <3> QED
      BY <1>12, <3>1, <3>2, <3>3 DEF Words, Prepare
  <2>6. Wishes'
    <3>1. CASE ui' = "delivered"
      <4>1. (wanted \/ result' = "canceled") => wanted'
        BY <1>12, <3>1, ZenonT(20) DEF Prepare
      <4>2. UNCHANGED <<canceled, cancelFlag, outcome, emitting, queued>>
        BY <1>12, SMTT(20) DEF Prepare
      <4> QED
        BY <4>1, <4>2, ZenonT(20) DEF Wishes
    <3>2. CASE ui' = "start"
      BY <1>12, <3>2, SMTT(20) DEF Words, Flags, Places, Wishes, Prepare
    <3>3. CASE ui' = "check"
      BY <1>12, <3>3, SMTT(20) DEF Words, Flags, Places, Wishes, Prepare
    <3> QED
      BY <1>12, <3>1, <3>2, <3>3 DEF Words, Prepare
  <2>7. Outcome'
    <3>1. CASE ui' = "delivered"
      BY <1>12, <3>1, SMTT(20) DEF Words, Places, Outcome, Prepare
    <3>2. CASE ui' = "start"
      BY <1>12, <3>2, SMTT(20) DEF Words, Places, Outcome, Prepare
    <3>3. CASE ui' = "check"
      BY <1>12, <3>3, SMTT(20) DEF Words, Places, Outcome, Prepare
    <3> QED
      BY <1>12, <3>1, <3>2, <3>3 DEF Words, Prepare
  <2>8. Pauses'
    BY <1>12, SMTT(20) DEF Words, Places, Pauses, Prepare
  <2> QED
    BY <2>1, <2>2, <2>3, <2>4, <2>5, <2>6, <2>7, <2>8
<1>13. CASE CloseMessage
  <2>1. Words'
    BY <1>13, SMTT(20) DEF Words, Places, CloseMessage
  <2>2. Flags'
    BY <1>13, ZenonT(20) DEF Flags, CloseMessage
  <2>3. Numbers'
    BY <1>13, SMTT(20) DEF Numbers, CloseMessage
  <2>4. Places'
    BY <1>13, SMTT(20) DEF Words, Places, CloseMessage
  <2>5. Registry'
    BY <1>13, SMTT(20) DEF Words, Numbers, Places, Registry, CloseMessage
  <2>6. Wishes'
    BY <1>13, SMTT(20) DEF Words, Places, Wishes, CloseMessage
  <2>7. Outcome'
    BY <1>13, SMTT(20) DEF Words, Places, Outcome, CloseMessage
  <2>8. Pauses'
    BY <1>13, SMTT(20) DEF Words, Places, Pauses, CloseMessage
  <2> QED
    BY <2>1, <2>2, <2>3, <2>4, <2>5, <2>6, <2>7, <2>8
<1>14. CASE ClickPause
  <2>1. Words'
    BY <1>14, SMTT(20) DEF Words, Places, ClickPause, Clicks, PauseSession,
       ResumeSession
  <2>2. Flags'
    BY <1>14, ZenonT(20) DEF Flags, ClickPause, Clicks, PauseSession,
       ResumeSession
  <2>3. Numbers'
    BY <1>14, SMTT(20) DEF Numbers, ClickPause, Clicks, PauseSession,
       ResumeSession
  <2>4. Places'
    BY <1>14, SMTT(20) DEF Words, Places, ClickPause, Clicks, PauseSession,
       ResumeSession
  <2>5. Registry'
    BY <1>14, SMTT(20) DEF Words, Numbers, Places, Registry, ClickPause,
       Clicks, PauseSession, ResumeSession
  <2>6. Wishes'
    BY <1>14, SMTT(20) DEF Words, Places, Wishes, ClickPause, Clicks,
       PauseSession, ResumeSession
  <2>7. Outcome'
    BY <1>14, SMTT(20) DEF Words, Places, Outcome, ClickPause, Clicks,
       PauseSession, ResumeSession
  <2>8. Pauses'
    BY <1>14, SMTT(20) DEF Words, Flags, Places, Pauses, ClickPause, Clicks,
       PauseSession, ResumeSession
  <2> QED
    BY <2>1, <2>2, <2>3, <2>4, <2>5, <2>6, <2>7, <2>8
<1>15. CASE ClickCancel
  <2>1. Words'
    BY <1>15, SMTT(20) DEF Words, Places, ClickCancel, Clicks, PauseSession
  <2>2. Flags'
    BY <1>15, ZenonT(20) DEF Flags, ClickCancel, Clicks, PauseSession
  <2>3. Numbers'
    BY <1>15, SMTT(20) DEF Numbers, ClickCancel, Clicks, PauseSession
  <2>4. Places'
    BY <1>15, SMTT(20) DEF Words, Places, ClickCancel, Clicks, PauseSession
  <2>5. Registry'
    BY <1>15, SMTT(20) DEF Words, Numbers, Places, Registry, ClickCancel,
       Clicks, PauseSession
  <2>6. Wishes'
    BY <1>15, SMTT(20) DEF Words, Places, Wishes, ClickCancel, Clicks,
       PauseSession
  <2>7. Outcome'
    BY <1>15, SMTT(20) DEF Words, Places, Outcome, ClickCancel, Clicks,
       PauseSession
  <2>8. Pauses'
    BY <1>15, SMTT(20) DEF Words, Flags, Places, Pauses, ClickCancel, Clicks,
       PauseSession
  <2> QED
    BY <2>1, <2>2, <2>3, <2>4, <2>5, <2>6, <2>7, <2>8
<1>16. ASSUME NEW yes \in BOOLEAN, Confirm(yes) PROVE IInv'
  <2>1. Words'
    BY <1>16, SMTT(20) DEF Words, Places, Confirm, CancelSession,
       ResumeSession
  <2>2. Flags'
    BY <1>16, ZenonT(20) DEF Flags, Confirm, CancelSession,
       ResumeSession
  <2>3. Numbers'
    BY <1>16, SMTT(20) DEF Numbers, Confirm, CancelSession,
       ResumeSession
  <2>4. Places'
    BY <1>16, SMTT(20) DEF Words, Places, Confirm, CancelSession,
       ResumeSession
  <2>5. Registry'
    BY <1>16, SMTT(20) DEF Words, Numbers, Places, Registry, Confirm, CancelSession, ResumeSession
  <2>6. Wishes'
    BY <1>16, SMTT(20) DEF Words, Flags, Places, Wishes, Confirm,
       CancelSession, ResumeSession
  <2>7. Outcome'
    BY <1>16, SMTT(20) DEF Words, Places, Outcome, Confirm,
       CancelSession, ResumeSession
  <2>8. Pauses'
    BY <1>16, SMTT(20) DEF Words, Flags, Places, Pauses, Confirm,
       CancelSession, ResumeSession
  <2> QED
    BY <2>1, <2>2, <2>3, <2>4, <2>5, <2>6, <2>7, <2>8
<1>17. CASE Answer
  <2>1. Words'
    BY <1>17, SMTT(20) DEF Words, Places, Answer
  <2>2. Flags'
    BY <1>17, ZenonT(20) DEF Flags, Answer
  <2>3. Numbers'
    BY <1>17, SMTT(20) DEF Numbers, Answer
  <2>4. Places'
    BY <1>17, SMTT(20) DEF Words, Places, Answer
  <2>5. Registry'
    BY <1>17, SMTT(20) DEF Words, Numbers, Places, Registry, Answer
  <2>6. Wishes'
    BY <1>17, SMTT(20) DEF Words, Places, Wishes, Answer
  <2>7. Outcome'
    BY <1>17, SMTT(20) DEF Words, Places, Outcome, Answer
  <2>8. Pauses'
    BY <1>17, SMTT(20) DEF Words, Places, Pauses, Answer
  <2> QED
    BY <2>1, <2>2, <2>3, <2>4, <2>5, <2>6, <2>7, <2>8
<1>18. CASE AnswerCancel
  <2>1. Words'
    BY <1>18, SMTT(20) DEF Words, Places, AnswerCancel, End
  <2>2. Flags'
    BY <1>18, ZenonT(20) DEF Flags, AnswerCancel, End
  <2>3. Numbers'
    BY <1>18, SMTT(20) DEF Numbers, AnswerCancel, End
  <2>4. Places'
    BY <1>18, SMTT(20) DEF Words, Places, AnswerCancel, End
  <2>5. Registry'
    BY <1>18, SMTT(20) DEF Words, Numbers, Places, Registry, AnswerCancel, End
  <2>6. Wishes'
    BY <1>18, SMTT(20) DEF Words, Places, Wishes, AnswerCancel, End
  <2>7. Outcome'
    BY <1>18, SMTT(20) DEF Words, Places, Outcome, AnswerCancel, End
  <2>8. Pauses'
    BY <1>18, SMTT(20) DEF Words, Places, Pauses, AnswerCancel, End
  <2> QED
    BY <2>1, <2>2, <2>3, <2>4, <2>5, <2>6, <2>7, <2>8
<1>19. CASE RequestCancel
  <2>1. Words'
    BY <1>19, SMTT(20) DEF Words, Places, RequestCancel
  <2>2. Flags'
    BY <1>19, ZenonT(20) DEF Flags, RequestCancel
  <2>3. Numbers'
    BY <1>19, SMTT(20) DEF Numbers, RequestCancel
  <2>4. Places'
    BY <1>19, SMTT(20) DEF Words, Places, RequestCancel
  <2>5. Registry'
    BY <1>19, SMTT(20) DEF Words, Numbers, Places, Registry, RequestCancel
  <2>6. Wishes'
    BY <1>19, SMTT(20) DEF Words, Places, Wishes, RequestCancel
  <2>7. Outcome'
    BY <1>19, SMTT(20) DEF Words, Places, Outcome, RequestCancel
  <2>8. Pauses'
    BY <1>19, SMTT(20) DEF Words, Places, Pauses, RequestCancel
  <2> QED
    BY <2>1, <2>2, <2>3, <2>4, <2>5, <2>6, <2>7, <2>8
<1>20. CASE Emit
  <2>1. Words'
    BY <1>20, SMTT(20) DEF Words, Places, Emit
  <2>2. Flags'
    BY <1>20, ZenonT(20) DEF Flags, Emit
  <2>3. Numbers'
    BY <1>20, SMTT(20) DEF Numbers, Emit
  <2>4. Places'
    BY <1>20, SMTT(20) DEF Words, Places, Emit
  <2>5. Registry'
    BY <1>20, SMTT(20) DEF Words, Numbers, Places, Registry, Emit
  <2>6. Wishes'
    BY <1>20, SMTT(20) DEF Words, Places, Wishes, Emit
  <2>7. Outcome'
    BY <1>20, SMTT(20) DEF Words, Places, Outcome, Emit
  <2>8. Pauses'
    BY <1>20, SMTT(20) DEF Words, Places, Pauses, Emit
  <2> QED
    BY <2>1, <2>2, <2>3, <2>4, <2>5, <2>6, <2>7, <2>8
<1>21. CASE Begin
  <2>1. Words'
    BY <1>21, SMTT(20) DEF Words, Places, Begin
  <2>2. Flags'
    BY <1>21, ZenonT(20) DEF Flags, Begin
  <2>3. Numbers'
    BY <1>21, SMTT(20) DEF Numbers, Begin
  <2>4. Places'
    BY <1>21, SMTT(20) DEF Words, Places, Begin
  <2>5. Registry'
    BY <1>21, SMTT(20) DEF Words, Numbers, Places, Registry, Begin
  <2>6. Wishes'
    BY <1>21, SMTT(20) DEF Words, Places, Wishes, Begin
  <2>7. Outcome'
    BY <1>21, SMTT(20) DEF Words, Places, Outcome, Begin
  <2>8. Pauses'
    BY <1>21, SMTT(20) DEF Words, Places, Pauses, Begin
  <2> QED
    BY <2>1, <2>2, <2>3, <2>4, <2>5, <2>6, <2>7, <2>8
<1>22. CASE Finish
  <2>1. Words'
    BY <1>22, SMTT(20) DEF Words, Places, Finish, End
  <2>2. Flags'
    BY <1>22, ZenonT(20) DEF Flags, Finish, End
  <2>3. Numbers'
    BY <1>22, SMTT(20) DEF Numbers, Finish, End
  <2>4. Places'
    BY <1>22, SMTT(20) DEF Words, Places, Finish, End
  <2>5. Registry'
    <3>1. CASE request = "open"
      <4>1. worker = "running" /\ ~Ended /\ opened = 1..tokens
        BY <1>22, <3>1, SMTT(20) DEF Words, Numbers, Places, Registry, Finish
      <4>2. PICK o \in {"success", "failed"} : End(o)
        BY <1>22, ZenonT(20) DEF Finish
      <4>3. CASE o = "success"
        BY <3>1, <4>1, <4>2, <4>3, SMTT(20) DEF Words, Numbers, Registry, End
      <4>4. CASE o = "failed"
        BY <3>1, <4>1, <4>2, <4>4, SMTT(20) DEF Words, Numbers, Registry, End
      <4> QED
        BY <4>3, <4>4
    <3>2. CASE request = "work"
      BY <1>22, <3>2, SMTT(20) DEF Words, Numbers, Places, Registry, Finish,
         End
    <3>3. CASE request = "close"
      BY <1>22, <3>3, SMTT(20) DEF Words, Numbers, Places, Registry, Finish,
         End
    <3> QED
      BY <1>22, <3>1, <3>2, <3>3 DEF Words, Finish, End
  <2>6. Wishes'
    BY <1>22, SMTT(20) DEF Words, Places, Wishes, Finish, End
  <2>7. Outcome'
    BY <1>22, SMTT(20) DEF Words, Places, Outcome, Finish, End
  <2>8. Pauses'
    BY <1>22, SMTT(20) DEF Words, Places, Pauses, Finish, End
  <2> QED
    BY <2>1, <2>2, <2>3, <2>4, <2>5, <2>6, <2>7, <2>8
<1>23. CASE PollCancel
  <2>1. Words'
    BY <1>23, SMTT(20) DEF Words, Places, PollCancel, End
  <2>2. Flags'
    BY <1>23, ZenonT(20) DEF Flags, PollCancel, End
  <2>3. Numbers'
    BY <1>23, SMTT(20) DEF Numbers, PollCancel, End
  <2>4. Places'
    BY <1>23, SMTT(20) DEF Words, Places, PollCancel, End
  <2>5. Registry'
    BY <1>23, SMTT(20) DEF Words, Numbers, Places, Registry, PollCancel, End
  <2>6. Wishes'
    BY <1>23, SMTT(20) DEF Words, Places, Wishes, PollCancel, End
  <2>7. Outcome'
    BY <1>23, SMTT(20) DEF Words, Places, Outcome, PollCancel, End
  <2>8. Pauses'
    BY <1>23, SMTT(20) DEF Words, Places, Pauses, PollCancel, End
  <2> QED
    BY <2>1, <2>2, <2>3, <2>4, <2>5, <2>6, <2>7, <2>8
<1>24. CASE Ask
  <2>1. Words'
    BY <1>24, SMTT(20) DEF Words, Places, Ask
  <2>2. Flags'
    BY <1>24, ZenonT(20) DEF Flags, Ask
  <2>3. Numbers'
    BY <1>24, SMTT(20) DEF Numbers, Ask
  <2>4. Places'
    BY <1>24, SMTT(20) DEF Words, Places, Ask
  <2>5. Registry'
    BY <1>24, SMTT(20) DEF Words, Numbers, Places, Registry, Ask
  <2>6. Wishes'
    BY <1>24, SMTT(20) DEF Words, Places, Wishes, Ask
  <2>7. Outcome'
    BY <1>24, SMTT(20) DEF Words, Places, Outcome, Ask
  <2>8. Pauses'
    BY <1>24, SMTT(20) DEF Words, Places, Pauses, Ask
  <2> QED
    BY <2>1, <2>2, <2>3, <2>4, <2>5, <2>6, <2>7, <2>8
<1>25. CASE UNCHANGED vars
  <2>1. Words' /\ Numbers' /\ Places' /\ Registry' /\ Wishes' /\ Outcome' /\
     Pauses'
    BY <1>25, SMTT(20) DEF Words, Numbers, Places, Registry, Wishes, Outcome,
       Pauses, vars
  <2>2. Flags'
    BY <1>25, ZenonT(20) DEF Flags, vars
  <2> QED
    BY <2>1, <2>2
<1> QED
  BY <1>1, <1>2, <1>3, <1>4, <1>5, <1>6, <1>7, <1>8, <1>9, <1>10, <1>11,
     <1>12, <1>13, <1>14, <1>15, <1>16, <1>17, <1>18, <1>19, <1>20, <1>21,
     <1>22, <1>23, <1>24, <1>25 DEF Next, MainThread, User, SessionThread

\* The invariant holds in every reachable state.
LEMMA Invariant == Spec => []IInv
<1>1. Init => IInv
  BY InitEstablishes
<1>2. IInv /\ [Next]_vars => IInv'
  BY StepPreserves
<1> QED
  BY <1>1, <1>2, PTL DEF Spec

\* Every variable keeps its type, tokens_ included, which the sequencer only
\* counts.
THEOREM TypeCorrect == Spec => []TypeOK
<1>1. IInv => TypeOK
  BY GuiAssumption, SMTT(20) DEF IInv, TypeOK, Numbers, Registry, InClosing,
     JustOpened
<1> QED
  BY <1>1, Invariant, PTL

\* Whatever fails or is canceled, and however deep the archives are nested,
\* no session is left in the registry when the task has its result.
THEOREM SessionsAreGivenBack == Spec => []SessionsGivenBack
<1>1. IInv => SessionsGivenBack
  <2> SUFFICES ASSUME IInv PROVE SessionsGivenBack
    OBVIOUS
  <2>1. \A l \in opened : l = 1 \/ l - 1 \in opened
    BY SMTT(20) DEF IInv, Numbers, Registry
  <2>2. Ended => opened = {}
    BY SMTT(20) DEF IInv, Words, Numbers, Places, Registry, InClosing,
       JustOpened, Ended
  <2> QED
    BY <2>1, <2>2 DEF SessionsGivenBack
<1> QED
  BY <1>1, Invariant, PTL

\* The launcher hears what became of the work, and the dialog shows that the
\* session is paused.
THEOREM TaskToldTrue == Spec => []ToldTheTruth
<1>1. IInv => ToldTheTruth
  <2> SUFFICES ASSUME IInv PROVE ToldTheTruth
    OBVIOUS
  <2>1. ResultIsTrue
    BY SMTT(20) DEF IInv, Words, Places, Outcome, Wishes, Ended, ResultIsTrue
  <2>2. PauseIsShown
    BY SMTT(20) DEF IInv, Pauses, PauseIsShown
  <2> QED
    BY <2>1, <2>2 DEF ToldTheTruth
<1> QED
  BY <1>1, Invariant, PTL
=============================================================================
