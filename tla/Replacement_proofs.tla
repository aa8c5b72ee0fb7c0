-------------------------- MODULE Replacement_proofs --------------------------
(***************************************************************************)
(* The proofs of AtomicReplace, one file replaced call by call, and of     *)
(* ExtractEntries, which replaces files in single steps and settles them   *)
(* together.                                                               *)
(*                                                                         *)
(* However many replacers compete for a destination, and whoever fails or  *)
(* dies: no step takes the last copy.  The step that could is the cleanup  *)
(* of a backup; SomebodyHolds says that while any replacer is about to     *)
(* clean up, the destination exists or somebody who is not cleaning up     *)
(* holds a copy.                                                           *)
(***************************************************************************)
EXTENDS AtomicReplace, ExtractEntries, TLAPS

SomebodyHolds ==
  (\E r \in Replacers : pc[r] = "cleanup") =>
    \/ Exists(Destination)
    \/ \E q \in Replacers : pc[q] # "cleanup" /\ Exists(backupOf[q])

\* A renamed or removed path leaves a file system.
LEMMA MovesKeepType ==
  ASSUME NEW fs \in [Paths -> Contents \cup {Absent}], NEW p \in Paths, NEW q \in Paths
  PROVE  /\ Renamed(fs, p, q) \in [Paths -> Contents \cup {Absent}]
         /\ Removed(fs, p) \in [Paths -> Contents \cup {Absent}]
BY DEF Renamed, Removed

\* A step of one replacer.
Step(r) ==
  \/ ProbeDestination(r) \/ Create(r) \/ ProbeSource(r) \/ AllocateBackup(r)
  \/ MoveAside(r) \/ Promote(r) \/ Cleanup(r) \/ Restore(r) \/ Crash(r)

\* Until its call is over a replacer has reported nothing.
Unreported == \A r \in Replacers : pc[r] # "done" => result[r] = NoResult

\* One replacer's report is replaced by another of the type.
LEMMA ReportKeepsType ==
  ASSUME NEW r \in Replacers, result \in [Replacers -> ResultType],
         result[r] = NoResult, NEW success \in BOOLEAN, NEW retained \in BOOLEAN,
         retained => success
  PROVE  /\ [result EXCEPT ![r].success = success] \in [Replacers -> ResultType]
         /\ [result EXCEPT ![r].restoreFailed = TRUE] \in [Replacers -> ResultType]
         /\ [result EXCEPT ![r] = [@ EXCEPT !.success = success, !.retained = retained]]
              \in [Replacers -> ResultType]
<1>1. [NoResult EXCEPT !.success = success] \in ResultType
  BY DEF NoResult, ResultType
<1>2. [NoResult EXCEPT !.restoreFailed = TRUE] \in ResultType
  BY DEF NoResult, ResultType
<1>3. [NoResult EXCEPT !.success = success, !.retained = retained] \in ResultType
  BY DEF NoResult, ResultType
<1>4. [result EXCEPT ![r].success = success] =
        [result EXCEPT ![r] = [NoResult EXCEPT !.success = success]]
  OBVIOUS
<1>5. [result EXCEPT ![r].restoreFailed = TRUE] =
        [result EXCEPT ![r] = [NoResult EXCEPT !.restoreFailed = TRUE]]
  OBVIOUS
<1> QED BY <1>1, <1>2, <1>3, <1>4, <1>5

\* The variables have their types (TypeOK).  That success and restoreFailed
\* exclude each other needs Unreported.
THEOREM TypeCorrect == Spec => [](TypeOK /\ Unreported)
<1>1. Init => TypeOK /\ Unreported
  <2> SUFFICES ASSUME Init PROVE TypeOK /\ Unreported
    OBVIOUS
  <2>1. PICK old \in {Original, Absent}, ready \in SUBSET Replacers :
          files = [p \in Paths |->
                     IF p = Destination THEN old
                     ELSE IF \E r \in ready : sourceOf[r] = p
                     THEN CHOOSE r \in ready : sourceOf[r] = p
                     ELSE Absent]
    BY DEF Init
  <2>2. ASSUME NEW p \in Paths PROVE files[p] \in Contents \cup {Absent}
    <3>1. CASE \E r \in ready : sourceOf[r] = p
      <4>1. (CHOOSE r \in ready : sourceOf[r] = p) \in ready
        BY <3>1
      <4> QED BY <2>1, <4>1 DEF Contents
    <3>2. CASE ~\E r \in ready : sourceOf[r] = p
      BY <2>1, <3>2 DEF Contents
    <3> QED BY <3>1, <3>2
  <2>3. files \in [Paths -> Contents \cup {Absent}]
    BY <2>1, <2>2
  <2>4. NoResult \in ResultType
    BY DEF NoResult, ResultType
  <2> QED BY <2>3, <2>4 DEF Init, TypeOK, Unreported
<1>2. TypeOK /\ Unreported /\ [Next]_vars => (TypeOK /\ Unreported)'
  <2> SUFFICES ASSUME TypeOK, Unreported, [Next]_vars PROVE (TypeOK /\ Unreported)'
    OBVIOUS
  <2> USE PathsAssumption DEF TypeOK
  <2>1. CASE UNCHANGED vars
    BY <2>1 DEF vars, Unreported
  <2>2. CASE Next
    <3>1. PICK r \in Replacers : Step(r)
      BY <2>2 DEF Next, Step
    <3>2. sourceOf[r] \in Paths /\ backupOf[r] \in Paths /\ Destination \in Paths
      OBVIOUS
    <3>3. files' \in [Paths -> Contents \cup {Absent}]
      <4>1. \/ files' = files
            \/ files' = Renamed(files, sourceOf[r], Destination)
            \/ files' = Renamed(files, Destination, backupOf[r])
            \/ files' = Renamed(files, backupOf[r], Destination)
            \/ files' = Removed(files, backupOf[r])
        <5>1. CASE ProbeDestination(r) \/ ProbeSource(r) \/ AllocateBackup(r) \/ Crash(r)
          BY <5>1 DEF ProbeDestination, ProbeSource, AllocateBackup, Crash
        <5>2. CASE Create(r) \/ Promote(r)
          BY <5>2 DEF Create, Promote, Move, MoveFails
        <5>3. CASE MoveAside(r)
          BY <5>3 DEF MoveAside, Move, MoveFails
        <5>4. CASE Cleanup(r)
          BY <5>4 DEF Cleanup
        <5>5. CASE Restore(r)
          BY <5>5 DEF Restore, Move, MoveFails
        <5> QED BY <3>1, <5>1, <5>2, <5>3, <5>4, <5>5 DEF Step
      <4>2. PICK Trees : Trees = [Paths -> Contents \cup {Absent}]
        OBVIOUS
      <4>3. \A p, q \in Paths : Renamed(files, p, q) \in Trees /\ Removed(files, p) \in Trees
        BY <4>2, MovesKeepType, Zenon
      <4>4. files \in Trees
        BY <4>2
      <4>5. /\ Renamed(files, sourceOf[r], Destination) \in Trees
            /\ Renamed(files, Destination, backupOf[r]) \in Trees
            /\ Renamed(files, backupOf[r], Destination) \in Trees
            /\ Removed(files, backupOf[r]) \in Trees
        BY <3>2, <4>3, Zenon
      <4>6. files' \in Trees
        BY <4>1, <4>4, <4>5, Zenon
      <4> QED BY <4>2, <4>6, Zenon
    <3>4. /\ pc' \in [Replacers -> {"probe", "create", "probe_source", "allocate",
                          "aside", "promote", "cleanup", "restore", "done", "dead"}]
          /\ keep' \in [Replacers -> BOOLEAN]
          /\ before' \in [Replacers -> [Paths -> Contents \cup {Absent}]]
      <4> DEFINE places == {"probe", "create", "probe_source", "allocate", "aside", "promote",
                            "cleanup", "restore", "done", "dead"}
      <4>1. /\ pc \in [Replacers -> places]
            /\ keep \in [Replacers -> BOOLEAN]
            /\ before \in [Replacers -> [Paths -> Contents \cup {Absent}]]
            /\ files \in [Paths -> Contents \cup {Absent}]
        OBVIOUS
      <4>2. \E place \in places : pc' = [pc EXCEPT ![r] = place]
        BY <3>1 DEF Step, ProbeDestination, Create, ProbeSource, AllocateBackup, MoveAside,
             Promote, Cleanup, Restore, Crash, Goto, Return
      <4>3. keep' = keep
        BY <3>1 DEF Step, ProbeDestination, Create, ProbeSource, AllocateBackup, MoveAside,
             Promote, Cleanup, Restore, Crash, Goto, Return
      <4>4. before' = before \/ before' = [before EXCEPT ![r] = files]
        BY <3>1 DEF Step, ProbeDestination, Create, ProbeSource, AllocateBackup, MoveAside,
             Promote, Cleanup, Restore, Crash, Goto, Return
      <4> HIDE DEF places, TypeOK
      <4>5. pc' \in [Replacers -> places]
        BY <4>1, <4>2
      <4>6. keep' \in [Replacers -> BOOLEAN]
        BY <4>1, <4>3
      <4>7. before' \in [Replacers -> [Paths -> Contents \cup {Absent}]]
        BY <4>1, <4>4
      <4> QED BY <4>5, <4>6, <4>7 DEF places
    <3>5. disturbed' \subseteq Replacers
      <4>1. \E place : Goto(r, place)
        BY <3>1 DEF Step, ProbeDestination, Create, ProbeSource, AllocateBackup, MoveAside,
             Promote, Cleanup, Restore, Crash, Return
      <4> QED BY <4>1 DEF Goto, Underway
    <3>6. \A q \in Replacers \ {r} : pc'[q] = pc[q] /\ result'[q] = result[q]
      BY <3>1 DEF Step, ProbeDestination, Create, ProbeSource, AllocateBackup, MoveAside,
           Promote, Cleanup, Restore, Crash, Goto, Return
    <3>7. /\ pc[r] # "done"
          /\ result' \in [Replacers -> ResultType]
          /\ pc'[r] # "done" => result' = result
      <4>1. pc[r] # "done" /\ result[r] = NoResult /\ keep[r] \in BOOLEAN
        BY <3>1 DEF Step, ProbeDestination, Create, ProbeSource, AllocateBackup, MoveAside,
             Promote, Cleanup, Restore, Crash, Unreported
      <4>2. \/ result' = result
            \/ \E success \in BOOLEAN : Return(r, success)
            \/ Goto(r, "done") /\ result' = [result EXCEPT ![r].restoreFailed = TRUE]
            \/ Goto(r, "done") /\ result' = [result EXCEPT ![r] =
                                    [@ EXCEPT !.success = TRUE, !.retained = keep[r]]]
        BY <3>1 DEF Step, ProbeDestination, Create, ProbeSource, AllocateBackup, MoveAside,
             Promote, Cleanup, Restore, Crash
      <4>3. result' = result \/ Goto(r, "done")
        BY <4>2 DEF Return
      <4>4. result' \in [Replacers -> ResultType]
        <5>1. CASE result' = result
          BY <5>1
        <5>2. CASE \E success \in BOOLEAN : Return(r, success)
          <6>1. PICK success \in BOOLEAN : result' = [result EXCEPT ![r].success = success]
            BY <5>2 DEF Return
          <6>2. FALSE => success
            OBVIOUS
          <6> QED BY <4>1, <6>1, <6>2, ReportKeepsType
        <5>3. CASE result' = [result EXCEPT ![r].restoreFailed = TRUE]
          BY <4>1, <5>3, ReportKeepsType
        <5>4. CASE result' = [result EXCEPT ![r] =
                                [@ EXCEPT !.success = TRUE, !.retained = keep[r]]]
          BY <4>1, <5>4, ReportKeepsType
        <5> QED BY <4>2, <5>1, <5>2, <5>3, <5>4
      <4>5. Goto(r, "done") => pc'[r] = "done"
        BY DEF Goto
      <4> HIDE DEF TypeOK
      <4> QED BY <4>1, <4>3, <4>4, <4>5
    <3>8. TypeOK'
      BY <3>3, <3>4, <3>5, <3>7
    <3>9. Unreported'
      BY <3>6, <3>7 DEF Unreported
    <3> QED BY <3>8, <3>9
  <2> QED BY <2>1, <2>2
<1> QED BY <1>1, <1>2, PTL DEF Spec

\* SomebodyHolds survives every step and gives CopySurvives.
LEMMA HoldingStep ==
  ASSUME TypeOK, SomebodyHolds, [Next]_vars
  PROVE  SomebodyHolds' /\ (Copies(files) # {} => Copies(files') # {})
<1> USE PathsAssumption DEF TypeOK
<1>1. CASE UNCHANGED vars
  BY <1>1 DEF vars, SomebodyHolds, Exists, Copies
<1>2. ASSUME NEW r \in Replacers, Step(r)
      PROVE  SomebodyHolds' /\ (Copies(files) # {} => Copies(files') # {})
  <2>1. /\ sourceOf[r] \in Paths /\ backupOf[r] \in Paths /\ Destination \in Paths
        /\ sourceOf[r] # Destination /\ backupOf[r] # Destination
        /\ \A q \in Replacers : backupOf[q] \in Paths /\ backupOf[q] # sourceOf[r]
        /\ \A q \in Replacers \ {r} : backupOf[q] # backupOf[r]
    OBVIOUS
  <2>2. CASE UNCHANGED files /\ pc[r] # "cleanup" /\ pc'[r] # "cleanup"
    <3>1. \A q \in Replacers \ {r} : pc'[q] = pc[q]
      BY <1>2 DEF Step, ProbeDestination, Create, ProbeSource, AllocateBackup, MoveAside,
           Promote, Cleanup, Restore, Crash, Goto, Return
    <3> QED BY <2>2, <3>1 DEF SomebodyHolds, Exists, Copies
  <2> DEFINE Filled == files'[Destination] # Absent
  <2>3. Filled => SomebodyHolds' /\ Copies(files') # {}
    BY <2>1 DEF SomebodyHolds, Exists, Copies
  <2>4. CASE Create(r)
    <3>1. CASE Move(sourceOf[r], Destination)
      BY <2>1, <2>3, <3>1 DEF Move, Exists, Renamed
    <3>2. CASE MoveFails(sourceOf[r])
      BY <2>2, <2>4, <3>2 DEF Create, MoveFails, Goto
    <3> QED BY <2>4, <3>1, <3>2 DEF Create
  <2>5. CASE Promote(r)
    <3>1. CASE Move(sourceOf[r], Destination)
      BY <2>1, <2>3, <3>1 DEF Move, Exists, Renamed
    <3>2. CASE MoveFails(sourceOf[r]) /\ Goto(r, "restore")
      BY <2>2, <2>5, <3>2 DEF Promote, MoveFails, Goto
    <3> QED BY <2>5, <3>1, <3>2 DEF Promote
  <2>6. CASE Restore(r)
    <3>1. CASE Move(backupOf[r], Destination)
      BY <2>1, <2>3, <3>1 DEF Move, Exists, Renamed
    <3>2. CASE MoveFails(backupOf[r]) /\ Goto(r, "done")
      BY <2>2, <2>6, <3>2 DEF Restore, MoveFails, Goto
    <3> QED BY <2>6, <3>1, <3>2 DEF Restore
  <2>8. CASE MoveAside(r)
    <3>1. CASE Move(Destination, backupOf[r]) /\ Goto(r, "promote")
      <4>1. files'[backupOf[r]] # Absent /\ pc'[r] = "promote"
        BY <2>1, <3>1 DEF Move, Exists, Renamed, Goto
      <4> QED BY <2>1, <4>1 DEF SomebodyHolds, Exists, Copies
    <3>2. CASE MoveFails(Destination) /\ Return(r, FALSE)
      BY <2>2, <2>8, <3>2 DEF MoveAside, MoveFails, Return, Goto
    <3> QED BY <2>8, <3>1, <3>2 DEF MoveAside
  <2>9. CASE Cleanup(r)
    <3>1. \A p \in Paths \ {backupOf[r]} : files'[p] = files[p]
      BY <2>1, <2>9 DEF Cleanup, Removed
    <3>2. \A q \in Replacers \ {r} : pc'[q] = pc[q]
      BY <2>9 DEF Cleanup, Goto
    <3>3. Exists(Destination) \/ \E q \in Replacers : pc[q] # "cleanup" /\ Exists(backupOf[q])
      BY <2>9 DEF Cleanup, SomebodyHolds
    <3>4. CASE Exists(Destination)
      BY <2>1, <2>3, <3>1, <3>4 DEF Exists
    <3>5. CASE \E q \in Replacers : pc[q] # "cleanup" /\ Exists(backupOf[q])
      <4>1. PICK q \in Replacers : pc[q] # "cleanup" /\ Exists(backupOf[q])
        BY <3>5
      <4>2. q # r
        BY <2>9, <4>1 DEF Cleanup
      <4>3. pc'[q] # "cleanup" /\ files'[backupOf[q]] # Absent
        BY <2>1, <3>1, <3>2, <4>1, <4>2 DEF Exists
      <4> QED BY <2>1, <4>3 DEF SomebodyHolds, Exists, Copies
    <3> QED BY <3>3, <3>4, <3>5
  <2>10. CASE Crash(r)
    <3>1. UNCHANGED files /\ pc'[r] = "dead" /\ \A q \in Replacers \ {r} : pc'[q] = pc[q]
      BY <2>10 DEF Crash, Goto
    <3> QED BY <3>1 DEF SomebodyHolds, Exists, Copies
  <2>7. CASE ProbeDestination(r) \/ ProbeSource(r) \/ AllocateBackup(r)
    BY <2>2, <2>7 DEF ProbeDestination, ProbeSource, AllocateBackup, Goto, Return
  <2> QED BY <1>2, <2>4, <2>5, <2>6, <2>7, <2>8, <2>9, <2>10 DEF Step
<1> QED BY <1>1, <1>2 DEF Next, Step

\* No step takes the last complete copy (CopySurvives).
THEOREM LastCopyStays == Spec => CopySurvives
<1>1. Init => SomebodyHolds
  BY DEF Init, SomebodyHolds
<1>2. TypeOK /\ SomebodyHolds /\ [Next]_vars => SomebodyHolds'
  BY HoldingStep
<1>3. TypeOK /\ SomebodyHolds /\ [Next]_vars =>
        [Copies(files) # {} => Copies(files') # {}]_vars
  BY HoldingStep
<1> QED BY <1>1, <1>2, <1>3, TypeCorrect, PTL DEF Spec, CopySurvives

-----------------------------------------------------------------------------
(* A call that nobody disturbs.                                            *)

\* What the call of r has done, when nobody acted since it found the file system b.
Aside(r, b) == Renamed(b, Destination, backupOf[r])
Course(r, b) ==
  /\ pc[r] = "create" => b[Destination] = Absent /\ files = b
  /\ pc[r] = "probe_source" =>
       /\ b[Destination] = Absent
       /\ \/ b[sourceOf[r]] # Absent /\ files = Renamed(b, sourceOf[r], Destination)
          \/ (b[sourceOf[r]] = Absent \/ Faults) /\ files = b
  /\ pc[r] \in {"allocate", "aside"} => b[Destination] # Absent /\ files = b
  /\ pc[r] \in {"promote", "restore"} => b[Destination] # Absent /\ files = Aside(r, b)
  /\ pc[r] = "restore" => b[sourceOf[r]] = Absent \/ Faults
  /\ pc[r] = "cleanup" =>
       /\ b[Destination] # Absent /\ b[sourceOf[r]] # Absent
       /\ files = Renamed(Aside(r, b), sourceOf[r], Destination)

\* Nothing is at a backup path before its call moves the destination there: only
\* then is moving it back the same as never having moved it.
BackupFree == \A r \in Replacers :
  /\ pc[r] \in {"probe", "create", "probe_source", "allocate", "aside"} =>
       files[backupOf[r]] = Absent
  /\ r \in Underway => before[r][backupOf[r]] = Absent

OnCourse == \A r \in Underway : r \notin disturbed => Course(r, before[r])

CallInv == TypeOK /\ Unreported /\ BackupFree /\ OnCourse

LEMMA MovedFile ==
  ASSUME NEW fs \in [Paths -> Contents \cup {Absent}],
         NEW from \in Paths, NEW to \in Paths, from # to
  PROVE  /\ Renamed(fs, from, to) \in [Paths -> Contents \cup {Absent}]
         /\ Renamed(fs, from, to)[to] = fs[from]
         /\ Renamed(fs, from, to)[from] = Absent
         /\ \A p \in Paths \ {from, to} : Renamed(fs, from, to)[p] = fs[p]
BY MovesKeepType DEF Renamed

LEMMA MovedBack ==
  ASSUME NEW fs \in [Paths -> Contents \cup {Absent}],
         NEW from \in Paths, NEW to \in Paths, from # to, fs[to] = Absent
  PROVE  Renamed(Renamed(fs, from, to), to, from) = fs
BY DEF Renamed

\* The paths of one call.
LEMMA PathsOf ==
  ASSUME NEW r \in Replacers
  PROVE  /\ sourceOf[r] \in Paths /\ backupOf[r] \in Paths /\ Destination \in Paths
         /\ sourceOf[r] # Destination /\ backupOf[r] # Destination
         /\ \A q \in Replacers : backupOf[q] \in Paths /\ backupOf[q] # Destination
                                 /\ backupOf[q] # sourceOf[r]
         /\ \A q \in Replacers \ {r} : backupOf[q] # backupOf[r]
BY PathsAssumption

\* The others notice, and stay where they are.
LEMMA OthersNotice ==
  ASSUME TypeOK, NEW r \in Replacers, Step(r)
  PROVE  /\ \A q \in Replacers \ {r} : pc'[q] = pc[q] /\ before'[q] = before[q]
         /\ disturbed' = disturbed \cup (Underway \ {r})
         /\ keep' = keep
BY DEF TypeOK, Step, ProbeDestination, Create, ProbeSource, AllocateBackup, MoveAside,
   Promote, Cleanup, Restore, Crash, Goto, Return

\* What one step does to the files.
LEMMA FilesChange ==
  ASSUME NEW r \in Replacers, Step(r)
  PROVE  \/ files' = files
         \/ files' = Renamed(files, sourceOf[r], Destination)
         \/ files' = Renamed(files, Destination, backupOf[r])
         \/ files' = Renamed(files, backupOf[r], Destination)
         \/ files' = Removed(files, backupOf[r])
<1>1. CASE ProbeDestination(r) \/ ProbeSource(r) \/ AllocateBackup(r) \/ Crash(r)
  BY <1>1 DEF ProbeDestination, ProbeSource, AllocateBackup, Crash
<1>2. CASE Create(r) \/ Promote(r) \/ MoveAside(r) \/ Restore(r)
  BY <1>2 DEF Create, Promote, MoveAside, Restore, Move, MoveFails
<1>3. CASE Cleanup(r)
  BY <1>3 DEF Cleanup
<1>4. QED
  BY <1>1, <1>2, <1>3 DEF Step

LEMMA BackupStaysFree ==
  ASSUME TypeOK, BackupFree, NEW r \in Replacers, Step(r)
  PROVE  BackupFree'
<1>1. files \in [Paths -> Contents \cup {Absent}] /\ DOMAIN pc = Replacers
  BY DEF TypeOK
<1> DEFINE early == {"probe", "create", "probe_source", "allocate", "aside"}
<1>2. ASSUME NEW q \in Replacers \ {r}
      PROVE  files'[backupOf[q]] = files[backupOf[q]]
  <2>1. /\ backupOf[q] \in Paths /\ backupOf[q] # backupOf[r] /\ backupOf[q] # sourceOf[r]
        /\ backupOf[q] # Destination
    BY PathsOf
  <2>2. QED
    BY <1>1, <2>1, PathsOf, MovedFile, FilesChange DEF Removed
<1>3. pc'[r] \in early => files'[backupOf[r]] = files[backupOf[r]] /\ pc[r] \in early
  BY <1>1, PathsOf, MovedFile DEF Step, ProbeDestination, Create, ProbeSource,
     AllocateBackup, MoveAside, Promote, Cleanup, Restore, Crash, Move, MoveFails, Goto, Return
<1>4. ASSUME r \in Underway'
      PROVE  before'[r][backupOf[r]] = Absent
  <2>1. CASE ProbeDestination(r)
    BY <2>1 DEF ProbeDestination, TypeOK, BackupFree
  <2>2. CASE ~ProbeDestination(r)
    <3>1. before' = before /\ r \in Underway
      BY <1>1, <1>4, <2>2 DEF Step, Create, ProbeSource, AllocateBackup, MoveAside,
         Promote, Cleanup, Restore, Crash, Underway, Goto, Return
    <3>2. QED
      BY <3>1 DEF BackupFree
  <2>3. QED
    BY <2>1, <2>2
<1>5. \A q \in Replacers \ {r} : pc'[q] = pc[q] /\ before'[q] = before[q]
  BY OthersNotice
<1>6. QED
  BY <1>2, <1>3, <1>4, <1>5 DEF BackupFree, Underway

LEMMA StaysOnCourse ==
  ASSUME CallInv, NEW r \in Replacers, Step(r)
  PROVE  OnCourse'
<1>1. /\ files \in [Paths -> Contents \cup {Absent}] /\ DOMAIN pc = Replacers
      /\ before \in [Replacers -> [Paths -> Contents \cup {Absent}]]
  BY DEF CallInv, TypeOK
<1>2. ASSUME NEW q \in Replacers \ {r}, q \in Underway'
      PROVE  q \in disturbed'
  BY <1>2, OthersNotice DEF CallInv, Underway
<1>3. ASSUME r \in Underway', r \notin disturbed'
      PROVE  Course(r, before[r])' 
  <2>1. r \notin disturbed
    BY <1>3, OthersNotice DEF CallInv
  <2>2. pc[r] # "probe" => Course(r, before[r])
    <3>1. pc[r] \notin {"done", "dead"}
      BY DEF Step, ProbeDestination, Create, ProbeSource, AllocateBackup, MoveAside,
         Promote, Cleanup, Restore, Crash
    <3>2. QED
      BY <2>1, <3>1 DEF CallInv, OnCourse, Underway
  <2>3. CASE ProbeDestination(r)
    <3>1. files' = files /\ before'[r] = files
      BY <1>1, <2>3 DEF ProbeDestination
    <3>2. pc'[r] = IF Exists(Destination) THEN "allocate" ELSE "create"
      BY <1>1, <1>3, <2>3 DEF ProbeDestination, Goto, Return, Underway
    <3>3. QED
      BY <3>1, <3>2 DEF Course, Exists
  <2>4. CASE Create(r)
    <3>1. pc[r] = "create" /\ pc'[r] = "probe_source" /\ before' = before
      BY <1>1, <2>4 DEF Create, Goto
    <3>2. before[r][Destination] = Absent /\ files = before[r]
      BY <2>2, <3>1 DEF Course
    <3>3. QED
      BY <2>4, <3>1, <3>2 DEF Create, Move, MoveFails, Exists, Course
  <2>5. CASE AllocateBackup(r)
    <3>1. pc[r] = "allocate" /\ pc'[r] = "aside" /\ before' = before /\ files' = files
      BY <1>1, <1>3, <2>5 DEF AllocateBackup, Goto, Return, Underway
    <3>2. QED
      BY <2>2, <3>1 DEF Course
  <2>6. CASE MoveAside(r)
    <3>1. /\ pc[r] = "aside" /\ pc'[r] = "promote" /\ before' = before
          /\ files' = Renamed(files, Destination, backupOf[r])
      BY <1>1, <1>3, <2>6 DEF MoveAside, Move, Goto, Return, Underway
    <3>2. QED
      BY <2>2, <3>1 DEF Course, Aside
  <2>7. CASE Promote(r)
    <3>1. /\ pc[r] = "promote" /\ before' = before
          /\ before[r][Destination] # Absent /\ files = Aside(r, before[r])
      BY <2>2, <2>7 DEF Promote, Course
    <3>2. files[sourceOf[r]] = before[r][sourceOf[r]]
      BY <1>1, <3>1, MovedFile, PathsOf DEF Aside
    <3>3. \/ /\ files[sourceOf[r]] # Absent /\ pc'[r] = "cleanup"
             /\ files' = Renamed(files, sourceOf[r], Destination)
          \/ /\ Faults \/ files[sourceOf[r]] = Absent
             /\ pc'[r] = "restore" /\ files' = files
      BY <1>1, <2>7 DEF Promote, Move, MoveFails, Exists, Goto
    <3>4. QED
      BY <3>1, <3>2, <3>3 DEF Course, Aside
  <2>8. CASE ProbeSource(r) \/ Cleanup(r) \/ Restore(r) \/ Crash(r)
    BY <1>1, <1>3, <2>8 DEF ProbeSource, Cleanup, Restore, Crash, Goto, Return, Underway
  <2>9. QED
    BY <2>3, <2>4, <2>5, <2>6, <2>7, <2>8 DEF Step
<1>4. \A q \in Underway' : q \in Replacers
  BY DEF Underway
<1>5. \A q \in Underway' : q \notin disturbed' => q = r
  BY <1>2, <1>4
<1>6. QED
  BY <1>3, <1>5 DEF OnCourse

LEMMA CallInvariant == Spec => []CallInv
<1>1. Init => BackupFree /\ OnCourse
  BY PathsAssumption DEF Init, BackupFree, OnCourse, Underway
<1>2. CallInv /\ TypeOK' /\ Unreported' /\ [Next]_vars => CallInv'
  <2> SUFFICES ASSUME CallInv, TypeOK', Unreported', [Next]_vars
               PROVE  CallInv'
    OBVIOUS
  <2>1. CASE UNCHANGED vars
    BY <2>1 DEF vars, CallInv, BackupFree, OnCourse, Course, Underway
  <2>2. CASE \E r \in Replacers : Step(r)
    BY <2>2, BackupStaysFree, StaysOnCourse DEF CallInv
  <2>3. QED
    BY <2>1, <2>2 DEF Next, Step
<1>3. QED
  BY <1>1, <1>2, TypeCorrect, PTL DEF Spec, CallInv

\* How an undisturbed call ends.
Ending(r) ==
  LET b == before'[r]
      said == result'[r]
  IN /\ Outcome(files', said.success, said.retained) \in
          ReplaceOutcomes(b, sourceOf[r], Destination, backupOf[r], keep[r], Faults)
     /\ ~said.success /\ b[Destination] # Absent =>
          \/ files'[Destination] = b[Destination]
          \/ said.restoreFailed /\ files'[backupOf[r]] = b[Destination]

LEMMA EndsWell ==
  ASSUME CallInv, NEW r \in Replacers, Step(r), EndsUndisturbed(r)
  PROVE  Ending(r)
<1>1. /\ files \in [Paths -> Contents \cup {Absent}] /\ DOMAIN pc = Replacers
      /\ before \in [Replacers -> [Paths -> Contents \cup {Absent}]]
      /\ DOMAIN result = Replacers /\ keep[r] \in BOOLEAN
  BY DEF CallInv, TypeOK
<1>2. pc[r] # "done" /\ pc'[r] = "done" /\ result[r] = NoResult /\ r \notin disturbed
  BY DEF CallInv, Unreported, EndsUndisturbed
<1>3. pc[r] \notin {"probe", "dead"} =>
        Course(r, before[r]) /\ before[r][backupOf[r]] = Absent
  BY <1>2 DEF CallInv, OnCourse, BackupFree, Underway
<1>4. ASSUME NEW success \in BOOLEAN, Return(r, success)
      PROVE  /\ result'[r].success = success /\ result'[r].retained = FALSE
             /\ result'[r].restoreFailed = FALSE
  BY <1>1, <1>2, <1>4 DEF Return, NoResult
<1>5. PICK b : b = before'[r]
  OBVIOUS
<1>6. CASE ProbeDestination(r)
  <2>1. files' = files /\ b = files /\ Faults /\ Return(r, FALSE)
    BY <1>1, <1>2, <1>5, <1>6 DEF ProbeDestination, Goto
  <2>2. QED
    BY <1>4, <1>5, <2>1 DEF Ending, ReplaceOutcomes, FreshOutcomes, SwapOutcomes
<1>7. CASE ProbeSource(r)
  <2>1. /\ files' = files /\ b = before[r] /\ pc[r] = "probe_source"
        /\ Return(r, TRUE) \/ (Faults /\ Return(r, FALSE))
    BY <1>5, <1>7 DEF ProbeSource
  <2>2. /\ b[Destination] = Absent
        /\ \/ b[sourceOf[r]] # Absent /\ files = Renamed(b, sourceOf[r], Destination)
           \/ (b[sourceOf[r]] = Absent \/ Faults) /\ files = b
    BY <1>3, <2>1 DEF Course
  <2>3. \/ result'[r].success = TRUE /\ result'[r].retained = FALSE
        \/ Faults /\ result'[r].success = FALSE /\ result'[r].retained = FALSE
    BY <1>4, <2>1
  <2>4. QED
    BY <1>5, <2>1, <2>2, <2>3 DEF Ending, ReplaceOutcomes, FreshOutcomes
<1>8. CASE AllocateBackup(r) \/ MoveAside(r)
  <2>1. /\ pc[r] \in {"allocate", "aside"} /\ files' = files /\ b = before[r] /\ Return(r, FALSE)
        /\ Faults \/ ~Exists(Destination)
    BY <1>1, <1>2, <1>5, <1>8 DEF AllocateBackup, MoveAside, MoveFails, Goto
  <2>2. files = b /\ b[Destination] # Absent
    BY <1>3, <2>1 DEF Course
  <2>3. QED
    BY <1>4, <1>5, <2>1, <2>2 DEF Ending, Exists, ReplaceOutcomes, SwapOutcomes
<1>9. CASE Cleanup(r)
  <2>1. /\ pc[r] = "cleanup" /\ b = before[r]
        /\ result'[r].success = TRUE /\ result'[r].retained = keep[r]
        /\ \/ ~keep[r] /\ files' = Removed(files, backupOf[r])
           \/ (keep[r] \/ Faults) /\ files' = files
    BY <1>1, <1>2, <1>5, <1>9 DEF Cleanup, NoResult
  <2>2. /\ b[Destination] # Absent /\ b[sourceOf[r]] # Absent
        /\ files = Renamed(Aside(r, b), sourceOf[r], Destination)
    BY <1>3, <2>1 DEF Course
  <2>3. QED
    BY <1>1, <1>5, <2>1, <2>2 DEF Ending, Aside, ReplaceOutcomes, SwapOutcomes
<1>10. CASE Restore(r)
  <2>1. /\ pc[r] = "restore" /\ b = before[r]
        /\ \/ files' = Renamed(files, backupOf[r], Destination) /\ Return(r, FALSE)
           \/ /\ Faults \/ ~Exists(backupOf[r])
              /\ files' = files /\ result' = [result EXCEPT ![r].restoreFailed = TRUE]
    BY <1>5, <1>10 DEF Restore, Move, MoveFails
  <2>2. /\ b[Destination] # Absent /\ files = Aside(r, b) /\ b[backupOf[r]] = Absent
        /\ b[sourceOf[r]] = Absent \/ Faults
        /\ b \in [Paths -> Contents \cup {Absent}]
    BY <1>1, <1>3, <2>1 DEF Course
  <2>3. files[backupOf[r]] = b[Destination]
    BY <2>2, MovedFile, PathsOf DEF Aside
  <2>4. CASE files' = Renamed(files, backupOf[r], Destination) /\ Return(r, FALSE)
    <3>1. files' = b
      BY <2>2, <2>4, MovedBack, PathsOf DEF Aside
    <3>2. QED
      BY <1>4, <1>5, <2>2, <2>4, <3>1 DEF Ending, ReplaceOutcomes, SwapOutcomes
  <2>5. CASE /\ Faults \/ ~Exists(backupOf[r])
             /\ files' = files /\ result' = [result EXCEPT ![r].restoreFailed = TRUE]
    <3>1. Faults
      BY <2>2, <2>3, <2>5 DEF Exists
    <3>2. /\ result'[r].success = FALSE /\ result'[r].retained = FALSE
          /\ result'[r].restoreFailed = TRUE
      BY <1>1, <1>2, <2>5 DEF NoResult
    <3>3. Outcome(Aside(r, b), FALSE, FALSE) \in
            ReplaceOutcomes(b, sourceOf[r], Destination, backupOf[r], keep[r], Faults)
      BY <2>2, <3>1 DEF Aside, ReplaceOutcomes, SwapOutcomes
    <3>4. files' = Aside(r, b) /\ files'[backupOf[r]] = b[Destination]
      BY <2>2, <2>3, <2>5
    <3>5. QED
      BY <1>5, <3>2, <3>3, <3>4 DEF Ending
  <2>6. QED
    BY <2>1, <2>4, <2>5
<1>11. ~Create(r) /\ ~Promote(r) /\ ~Crash(r)
  BY <1>1, <1>2 DEF Create, Promote, Crash, Goto
<1>12. QED
  BY <1>6, <1>7, <1>8, <1>9, <1>10, <1>11 DEF Step

LEMMA StepEndsWell ==
  ASSUME CallInv, [Next]_vars, NEW r \in Replacers, EndsUndisturbed(r)
  PROVE  Ending(r)
<1>1. ~UNCHANGED vars
  BY DEF EndsUndisturbed, vars
<1>2. PICK q \in Replacers : Step(q)
  BY <1>1 DEF Next, Step
<1>3. q = r
  BY <1>2, OthersNotice DEF CallInv, EndsUndisturbed
<1>4. QED
  BY <1>2, <1>3, EndsWell

\* A call that nobody disturbs and that fails has kept the original
\* (replace_file_atomically): for any number of calls before and after it.
THEOREM OriginalIsKept == Spec => FailureKeepsOriginal
<1>1. CallInv /\ [Next]_vars =>
        [\A r \in Replacers :
           EndsUndisturbed(r) /\ ~result'[r].success /\ before'[r][Destination] # Absent =>
             \/ files'[Destination] = before'[r][Destination]
             \/ /\ result'[r].restoreFailed
                /\ files'[backupOf[r]] = before'[r][Destination]]_vars
  BY StepEndsWell DEF Ending
<1>2. QED
  BY <1>1, CallInvariant, PTL DEF Spec, FailureKeepsOriginal

\* What its callers assume of one replacement (ReplaceFile) is what the calls of
\* replace_file_atomically amount to when nobody disturbs them.
THEOREM CallersSeeOneStep == Spec => OutcomeIsListed
<1>1. CallInv /\ [Next]_vars =>
        [\A r \in Replacers : EndsUndisturbed(r) =>
           Outcome(files', result'[r].success, result'[r].retained) \in
             ReplaceOutcomes(before'[r], sourceOf[r], Destination, backupOf[r],
                                keep[r], Faults)]_vars
  BY StepEndsWell DEF Ending
<1>2. QED
  BY <1>1, CallInvariant, PTL DEF Spec, OutcomeIsListed

-----------------------------------------------------------------------------
(* Extraction.  Fitting says how the pending and the committed entries fit *)
(* the directory.  On it rest, for the promises of a run: where the        *)
(* originals are (Homes, BackupOwners, Survive), what lies around (Clean)  *)
(* and what is reported (Reported), and that undoing the entries leads     *)
(* back through the directories the run came by (Retraces).                *)

LEMMA PathsDiffer ==
  /\ \A n \in Names : Final(n) \in FinalPaths
  /\ FinalPaths \subseteq Places
  /\ \A k \in Entries :
       /\ Partial(k) \in Places \ FinalPaths
       /\ Backup(k) \in Places \ FinalPaths
       /\ \A j \in Entries : /\ Partial(k) # Backup(j)
                             /\ Partial(k) = Partial(j) => k = j
                             /\ Backup(k) = Backup(j) => k = j
  /\ NoPath \notin Places
  /\ \A n, m \in Names : Final(n) = Final(m) => n = m
<1>1. /\ \A n : Final(n) = <<"final", n>>
      /\ \A k : Partial(k) = <<"partial", k>>
      /\ \A k : Backup(k) = <<"backup", k>>
  BY DEF Final, Partial, Backup
<1>2. "final" # "partial" /\ "final" # "backup" /\ "partial" # "backup"
      /\ "none" # "final" /\ "none" # "partial" /\ "none" # "backup"
  OBVIOUS
<1>3. \A n, m : Final(n) = Final(m) => n = m
  BY <1>1
<1>4. \A n, k : Final(n) # Partial(k) /\ Final(n) # Backup(k) /\ Partial(n) # Backup(k)
  BY <1>1, <1>2
<1>5. \A k, j : (Partial(k) = Partial(j) => k = j) /\ (Backup(k) = Backup(j) => k = j)
  BY <1>1
<1>6. \A n : NoPath # Final(n) /\ NoPath # Partial(n) /\ NoPath # Backup(n)
  BY <1>1, <1>2 DEF NoPath
<1>7. QED
  BY <1>3, <1>4, <1>5, <1>6 DEF Places, FinalPaths

\* What the file system calls do to a directory.
LEMMA Calls ==
  ASSUME NEW fs \in [Places -> FileData], NEW p \in Places, NEW q \in Places
  PROVE  /\ Removed(fs, p) \in [Places -> FileData]
         /\ \A r \in Places : Removed(fs, p)[r] = IF r = p THEN Absent ELSE fs[r]
         /\ Renamed(fs, p, q) \in [Places -> FileData]
         /\ \A r \in Places :
              Renamed(fs, p, q)[r] = IF r = p THEN Absent ELSE IF r = q THEN fs[p] ELSE fs[r]
BY DEF Removed, Renamed, FileData

\* make_unique_destination_path: a free name, if it finds one.
LEMMA FreeIsFree ==
  ASSUME ExtractTypeOK, NEW name \in Names, Free(name) # NoPath
  PROVE  /\ Free(name) \in FinalPaths
         /\ folder[Free(name)] = Absent
<1> DEFINE names == alternatives[name]
           first == {i \in DOMAIN names : /\ ~Present(Final(names[i]))
                                          /\ \A j \in 1..i - 1 : Present(Final(names[j]))}
<1>1. first # {} /\ Free(name) = Final(names[CHOOSE i \in first : TRUE])
  BY DEF Free
<1>2. names \in Seq(Names)
  BY NamesAssumption
<1>3. \A i \in first : names[i] \in Names /\ folder[Final(names[i])] = Absent
  BY <1>2 DEF Present
<1>4. PICK i \in first : Free(name) = Final(names[i])
  <2> HIDE DEF first
  <2> QED BY <1>1
<1>5. QED
  BY <1>3, <1>4, PathsDiffer

-----------------------------------------------------------------------------
(* The inductive invariant.                                                *)

\* The directory is still filled, or about to be settled.
Working == phase \in {"extracting", "returned"}

\* The output of p is there and is overwritten.
Replacing(p) == p.hadOriginal /\ p.backup = NoPath

PendingFits ==
  pending # Closed =>
    /\ pending.entry = next - 1
    /\ folder[Partial(pending.entry)] = pending.entry
    /\ pending.renamedOriginal = (pending.backup # NoPath)
    /\ pending.renamedOriginal =>
         /\ pending.hadOriginal /\ request.mode = "rename_existing"
         /\ pending.backup # pending.output /\ folder[pending.backup] # Absent
    /\ pending.retain = (request.policy = "rollback" /\ Replacing(pending))
    /\ IF Replacing(pending)
       THEN /\ folder[pending.output] # Absent
            /\ pending.output \in consented /\ request.mode # "rename_existing"
       ELSE folder[pending.output] = Absent

EntriesFit ==
  \A i \in DOMAIN entries :
    /\ entries[i].entry < next
    /\ pending # Closed => entries[i].entry < pending.entry
    /\ IF entries[i].renamedOriginal
       THEN entries[i].hadOriginal /\ entries[i].backup \in FinalPaths
       ELSE /\ entries[i].backup \in {NoPath, Backup(entries[i].entry)}
            /\ entries[i].hadOriginal =>
                 request.mode # "rename_existing" /\ entries[i].output \in consented

\* The partial file and the backup of an entry are its own.
OwnPaths ==
  \A k \in Entries :
    /\ folder[Partial(k)] \in {k, Absent}
    /\ k >= next => folder[Partial(k)] = Absent
    /\ k >= next \/ (pending # Closed /\ k = pending.entry) => folder[Backup(k)] = Absent

StartFits ==
  /\ \A n \in Names : start[Final(n)] \in {n, Absent}
  /\ \A p \in Places \ FinalPaths : start[p] = Absent

\* A budget that was exceeded ends the run with no entry open.
Ends ==
  /\ triggered => pending = Closed /\ phase # "extracting"
  /\ RollingBack => triggered /\ request.policy = "rollback"
  /\ outcome = "kept" => ~(triggered /\ request.policy = "rollback")

Fitting ==
  /\ ExtractTypeOK /\ StartFits /\ EntriesFit /\ Ends
  /\ Working => PendingFits /\ OwnPaths
\* What the steps have in common.
OpenFrom(output, backup, hadOriginal, fs) ==
  \/ backup = NoPath /\ ~hadOriginal /\ fs = folder /\ folder[output] = Absent
  \/ /\ backup = NoPath /\ hadOriginal /\ fs = folder /\ folder[output] # Absent
     /\ output \in consented' /\ request.mode # "rename_existing"
  \/ /\ backup \in FinalPaths /\ hadOriginal /\ fs = Renamed(folder, output, backup)
     /\ folder[output] # Absent /\ folder[backup] = Absent /\ request.mode = "rename_existing"

Opens == GetStreamNew \/ GetStreamOverwrites \/ GetStreamRenamesExisting \/ GetStreamRenamesExtracted

\* Entries are opened in one of three ways.
LEMMA OpensInOneOfThreeWays ==
  ASSUME ExtractTypeOK, Opens
  PROVE  /\ Admitted /\ next \in Entries
         /\ answered' \in {"open", "yes", "no"}
         /\ consented \subseteq consented' /\ consented' \subseteq FinalPaths
         /\ \E output \in FinalPaths, backup \in FinalPaths \cup {NoPath}, hadOriginal \in BOOLEAN :
            \E fs \in [Places -> FileData] :
              Open(output, backup, hadOriginal, fs) /\ OpenFrom(output, backup, hadOriginal, fs)
<1>1. Admitted
  BY DEF Opens, GetStreamNew, GetStreamOverwrites, GetStreamRenamesExisting, GetStreamRenamesExtracted
<1>2. next \in Entries /\ request.targets[next] \in Names
  BY <1>1, NamesAssumption, BoundsAssumption DEF Admitted, Called, ExtractTypeOK, Entries
<1>3. OutputPath \in FinalPaths /\ OutputPath \in Places /\ NoPath \notin FinalPaths
  BY <1>2, PathsDiffer DEF OutputPath
<1>4. folder \in [Places -> FileData] /\ consented \subseteq FinalPaths /\ answered \in {"open", "yes", "no"}
  BY DEF ExtractTypeOK
<1>5. CASE GetStreamNew
  <2>1. Open(OutputPath, NoPath, FALSE, folder) /\ OpenFrom(OutputPath, NoPath, FALSE, folder)
    BY <1>5 DEF GetStreamNew, OpenFrom, Present
  <2> QED BY <1>1, <1>2, <1>3, <1>4, <1>5, <2>1 DEF GetStreamNew
<1>6. CASE GetStreamOverwrites
  <2>1. request.mode # "rename_existing"
    BY <1>6 DEF GetStreamOverwrites
  <2>2. OutputPath \in consented' /\ consented \subseteq consented' /\ consented' \subseteq FinalPaths
    BY <1>3, <1>4, <1>6 DEF GetStreamOverwrites
  <2>3. Open(OutputPath, NoPath, TRUE, folder) /\ OpenFrom(OutputPath, NoPath, TRUE, folder)
    BY <1>6, <2>1, <2>2 DEF GetStreamOverwrites, OpenFrom, Present
  <2>4. answered' \in {"open", "yes", "no"}
    BY <1>4, <1>6 DEF GetStreamOverwrites
  <2> QED BY <1>1, <1>2, <1>3, <1>4, <2>2, <2>3, <2>4
<1>7. CASE GetStreamRenamesExisting
  <2>1. PICK aside : aside = Free(request.targets[next])
    OBVIOUS
  <2>2. aside \in FinalPaths /\ folder[aside] = Absent
    BY <1>2, <1>7, <2>1, FreeIsFree DEF GetStreamRenamesExisting
  <2>3. Open(OutputPath, aside, TRUE, Renamed(folder, OutputPath, aside))
    BY <1>7, <2>1 DEF GetStreamRenamesExisting
  <2>4. OpenFrom(OutputPath, aside, TRUE, Renamed(folder, OutputPath, aside))
    BY <1>7, <2>2 DEF GetStreamRenamesExisting, OpenFrom, Present
  <2>5. Renamed(folder, OutputPath, aside) \in [Places -> FileData]
    BY <1>3, <1>4, <2>2, PathsDiffer, Calls
  <2> QED BY <1>1, <1>2, <1>3, <1>4, <1>7, <2>2, <2>3, <2>4, <2>5 DEF GetStreamRenamesExisting
<1>8. CASE GetStreamRenamesExtracted
  <2>1. PICK output : output = Free(request.targets[next])
    OBVIOUS
  <2>2. output \in FinalPaths /\ folder[output] = Absent
    BY <1>2, <1>8, <2>1, FreeIsFree DEF GetStreamRenamesExtracted
  <2>3. Open(output, NoPath, FALSE, folder) /\ OpenFrom(output, NoPath, FALSE, folder)
    BY <1>8, <2>1, <2>2 DEF GetStreamRenamesExtracted, OpenFrom
  <2> QED BY <1>1, <1>2, <1>4, <1>8, <2>2, <2>3 DEF GetStreamRenamesExtracted
<1>9. QED
  BY <1>5, <1>6, <1>7, <1>8 DEF Opens

\* Dropping the pending entry: the partial file is removed, an original that
\* was renamed away gets its name back; on a faulty file system maybe not.
LEMMA DropDoes ==
  ASSUME NEW fs \in [Places -> FileData], pending \in PendingType, Drop(fs)
  PROVE  \E g \in [Places -> FileData] :
           /\ g = Removed(fs, Partial(pending.entry)) \/ (request.faults /\ g = fs)
           /\ \/ pending.renamedOriginal /\ folder' = Renamed(g, pending.backup, pending.output)
              \/ (~pending.renamedOriginal \/ request.faults) /\ folder' = g
<1>1. PICK g \in RemovedOrNot(fs, Partial(pending.entry)) :
        folder' \in IF pending.renamedOriginal
                    THEN {Renamed(g, pending.backup, pending.output)} \cup (IF request.faults THEN {g} ELSE {})
                    ELSE {g}
  BY DEF Drop, DroppedWith
<1>2. g = Removed(fs, Partial(pending.entry)) \/ (request.faults /\ g = fs)
  BY <1>1 DEF RemovedOrNot
<1>3. Partial(pending.entry) \in Places
  BY PathsDiffer DEF PendingType
<1>4. g \in [Places -> FileData]
  BY <1>2, <1>3, Calls
<1> QED BY <1>1, <1>2, <1>4

\* The outcomes of replacing a file, one by one.
LEMMA ReplaceDoes ==
  ASSUME NEW fs \in [Places -> FileData], NEW source \in Places, NEW destination \in Places,
         NEW backup \in Places, NEW retain \in BOOLEAN, NEW faulty \in BOOLEAN,
         NEW r \in ReplaceOutcomes(fs, source, destination, backup, retain, faulty)
  PROVE  /\ r.files \in [Places -> FileData] /\ r.success \in BOOLEAN /\ r.backup \in BOOLEAN
         /\ fs[destination] = Absent =>
              /\ ~r.backup
              /\ r.files = Renamed(fs, source, destination) \/ (r.files = fs /\ (faulty \/ fs[source] = Absent))
              /\ ~faulty => r.success
         /\ fs[destination] # Absent =>
              \E aside, promoted :
                /\ aside = Renamed(fs, destination, backup)
                /\ promoted = Renamed(aside, source, destination)
                /\ r.success => r.backup = retain
                /\ r.success => \/ retain /\ r.files = promoted
                                \/ ~retain /\ r.files = Removed(promoted, backup)
                                \/ ~retain /\ faulty /\ r.files = promoted
                /\ ~r.success => \/ r.files = fs /\ (faulty \/ fs[source] = Absent)
                                 \/ faulty /\ r.files = aside
<1>1. CASE fs[destination] = Absent
  <2>1. PICK moved : moved = Renamed(fs, source, destination)
    OBVIOUS
  <2>2. moved \in [Places -> FileData]
    BY <2>1, Calls
  <2>3. \/ r = Outcome(moved, TRUE, FALSE)
        \/ (fs[source] = Absent \/ faulty) /\ r = Outcome(fs, TRUE, FALSE)
        \/ faulty /\ r = Outcome(fs, FALSE, FALSE)
        \/ faulty /\ r = Outcome(moved, FALSE, FALSE)
    BY <1>1, <2>1 DEF ReplaceOutcomes, FreshOutcomes
  <2>4. \A g, success, b : r = Outcome(g, success, b) =>
          r.files = g /\ r.success = success /\ r.backup = b
    BY DEF Outcome
  <2>5. r.backup = FALSE /\ r.success \in BOOLEAN
    <3>1. r.backup = FALSE
      BY <2>3, <2>4
    <3>2. r.success = TRUE \/ r.success = FALSE
      BY <2>3, <2>4
    <3> QED BY <3>1, <3>2
  <2>6. r.files = moved \/ (r.files = fs /\ (faulty \/ fs[source] = Absent))
    BY <2>3, <2>4
  <2>7. ~faulty => r.success
    BY <2>3, <2>4
  <2> QED BY <1>1, <2>1, <2>2, <2>5, <2>6, <2>7
<1>2. CASE fs[destination] # Absent
  <2>1. PICK aside : aside = Renamed(fs, destination, backup)
    OBVIOUS
  <2>2. PICK promoted : promoted = Renamed(aside, source, destination)
    OBVIOUS
  <2>3. aside \in [Places -> FileData] /\ promoted \in [Places -> FileData]
    BY <2>1, <2>2, Calls
  <2>4. Removed(promoted, backup) \in [Places -> FileData]
    BY <2>3, Calls
  <2>5. \/ retain /\ r = Outcome(promoted, TRUE, TRUE)
        \/ ~retain /\ r = Outcome(Removed(promoted, backup), TRUE, FALSE)
        \/ (fs[source] = Absent \/ faulty) /\ r = Outcome(fs, FALSE, FALSE)
        \/ faulty /\ r = Outcome(aside, FALSE, FALSE)
        \/ faulty /\ ~retain /\ r = Outcome(promoted, TRUE, FALSE)
    BY <1>2, <2>1, <2>2 DEF ReplaceOutcomes, SwapOutcomes
  <2>6. \A g, success, b : r = Outcome(g, success, b) =>
          r.files = g /\ r.success = success /\ r.backup = b
    BY DEF Outcome
  <2>7. r.success \in BOOLEAN /\ r.backup \in BOOLEAN /\ (r.success => r.backup = retain)
    BY <2>5, <2>6
  <2>8. r.success => \/ retain /\ r.files = promoted
                     \/ ~retain /\ r.files = Removed(promoted, backup)
                     \/ ~retain /\ faulty /\ r.files = promoted
    BY <2>5, <2>6
  <2>9. ~r.success => \/ r.files = fs /\ (faulty \/ fs[source] = Absent)
                      \/ faulty /\ r.files = aside
    BY <2>5, <2>6
  <2>10. r.files \in [Places -> FileData]
    BY <2>3, <2>4, <2>7, <2>8, <2>9
  <2> QED BY <1>2, <2>1, <2>2, <2>7, <2>8, <2>9, <2>10
<1> QED BY <1>1, <1>2

\* The fields of a committed entry.
LEMMA EntryTypes ==
  ASSUME ExtractTypeOK, NEW i \in DOMAIN entries
  PROVE  /\ entries[i] \in CommittedType /\ entries[i].entry \in Entries /\ entries[i].entry \in Nat
         /\ entries[i].output \in FinalPaths /\ entries[i].output \in Places
         /\ entries[i].hadOriginal \in BOOLEAN /\ entries[i].renamedOriginal \in BOOLEAN
         /\ entries[i].backup \in Places \cup {NoPath}
         /\ i \in Nat \ {0} /\ i <= Len(entries) /\ DOMAIN entries = 1..Len(entries) /\ Len(entries) \in Nat
<1>1. entries \in Seq(CommittedType)
  BY DEF ExtractTypeOK
<1>2. entries[i] \in CommittedType
  BY <1>1
<1>3. Entries \subseteq Nat
  BY BoundsAssumption DEF Entries
<1>4. entries[i].output \in Places
  BY <1>2, PathsDiffer DEF CommittedType
<1>5. i \in Nat \ {0} /\ i <= Len(entries) /\ DOMAIN entries = 1..Len(entries) /\ Len(entries) \in Nat
  BY <1>1
<1> QED BY <1>2, <1>3, <1>4, <1>5 DEF CommittedType

Control ==
  \/ GetStreamAborts \/ GetStreamSkips \/ GetStreamFails
  \/ HandlerGivesUp \/ HandlerEnds \/ Cancel

\* The steps that leave the directory and the entries alone.
LEMMA ControlDoes ==
  ASSUME ExtractTypeOK, Ends, Control
  PROVE  /\ UNCHANGED <<request, folder, pending, entries, undo, outcome, start, consented>>
         /\ next' \in {next, next + 1} /\ next' \in 1..MaxEntries + 1
         /\ next' # next => pending = Closed
         /\ answered' \in {"open", "yes", "no"} /\ triggered' \in BOOLEAN /\ cancelled' \in BOOLEAN
         /\ phase' = phase \/ (phase = "extracting" /\ phase' = "returned")
         /\ triggered => triggered'
         /\ triggered' => pending = Closed /\ phase' # "extracting"
         /\ ~triggered /\ triggered' => phase = "extracting"
<1> USE DEF HandlerReturns
<1>1. next \in 1..MaxEntries + 1 /\ MaxEntries \in Nat \ {0} /\ next \in Nat
  BY BoundsAssumption DEF ExtractTypeOK
<1>2. answered \in {"open", "yes", "no"} /\ triggered \in BOOLEAN /\ cancelled \in BOOLEAN
  BY DEF ExtractTypeOK
<1>3. triggered => pending = Closed /\ phase # "extracting"
  BY DEF Ends
<1>4. CASE GetStreamAborts
  BY <1>1, <1>2, <1>3, <1>4 DEF GetStreamAborts, Called, Aborted
<1>5. CASE GetStreamSkips
  <2>1. next <= MaxEntries
    BY <1>1, <1>5 DEF GetStreamSkips, Admitted, Called, ExtractTypeOK, Entries
  <2>2. answered' \in {"open", "yes", "no"}
    BY <1>2, <1>5 DEF GetStreamSkips
  <2> QED BY <1>1, <1>2, <1>3, <1>5, <2>1, <2>2 DEF GetStreamSkips, Admitted, Called
<1>6. CASE GetStreamFails
  BY <1>1, <1>2, <1>3, <1>6 DEF GetStreamFails, Called
<1>7. CASE HandlerGivesUp
  BY <1>1, <1>2, <1>3, <1>7 DEF HandlerGivesUp
<1>8. CASE HandlerEnds
  BY <1>1, <1>2, <1>3, <1>8 DEF HandlerEnds
<1>9. CASE Cancel
  BY <1>1, <1>2, <1>3, <1>9 DEF Cancel
<1> QED BY <1>4, <1>5, <1>6, <1>7, <1>8, <1>9 DEF Control

Commits ==
  /\ \E r \in ReplaceOutcomes(folder, Partial(pending.entry), pending.output,
                              Backup(pending.entry), pending.retain, request.faults) :
       r.success /\ Committed(r)

\* What an entry is dropped from: the directory, or what a replacement that
\* failed has left of it.
DropsFrom(fs) ==
  /\ Drop(fs)
  /\ \/ fs = folder
     \/ /\ request.faults
        /\ fs = IF folder[pending.output] = Absent
                THEN Renamed(folder, Partial(pending.entry), pending.output)
                ELSE Renamed(folder, pending.output, Backup(pending.entry))
  /\ UNCHANGED <<entries, triggered>>

\* SetOperationResult commits the pending entry or drops it.
LEMMA ResultDoes ==
  ASSUME ExtractTypeOK, ResultOK \/ ResultBad
  PROVE  /\ pending # Closed /\ pending \in PendingType /\ phase = "extracting"
         /\ Partial(pending.entry) \in Places /\ Backup(pending.entry) \in Places
         /\ pending.output \in Places /\ pending.output \in FinalPaths
         /\ pending.retain \in BOOLEAN /\ request.faults \in BOOLEAN
         /\ pending' = Closed /\ phase' \in {"extracting", "returned"}
         /\ UNCHANGED <<request, next, answered, cancelled, undo, outcome, start, consented>>
         /\ Commits \/ \E fs \in [Places -> FileData] : DropsFrom(fs)
<1>1. pending # Closed /\ phase = "extracting" /\ pending' = Closed
  BY DEF ResultOK, ResultBad
<1>2. pending \in PendingType /\ pending.entry \in Entries /\ pending.output \in FinalPaths
      /\ pending.retain \in BOOLEAN /\ request.faults \in BOOLEAN
      /\ folder \in [Places -> FileData]
  BY <1>1 DEF ExtractTypeOK, PendingType
<1>3. Partial(pending.entry) \in Places /\ Backup(pending.entry) \in Places /\ pending.output \in Places
  BY <1>2, PathsDiffer
<1>4. UNCHANGED <<request, next, answered, cancelled, undo, outcome, start, consented>>
  BY DEF ResultOK, ResultBad
<1>5. CASE ResultBad
  <2>1. Drop(folder) /\ UNCHANGED <<entries, triggered>> /\ phase' \in {"extracting", "returned"}
    BY <1>5 DEF ResultBad, Continue
  <2> QED BY <1>1, <1>2, <1>3, <1>4, <2>1 DEF DropsFrom
<1>6. CASE ResultOK
  <2>1. PICK r \in ReplaceOutcomes(folder, Partial(pending.entry), pending.output,
                                   Backup(pending.entry), pending.retain, request.faults) :
          \/ r.success /\ Committed(r)
          \/ /\ request.faults
             /\ Drop(folder) \/ (~r.success /\ Drop(r.files))
             /\ HandlerReturns
             /\ UNCHANGED <<entries, triggered>>
    BY <1>6 DEF ResultOK
  <2>2. CASE r.success /\ Committed(r)
    <3>1. phase' \in {"extracting", "returned"}
      BY <1>1, <2>2 DEF Committed, Continue
    <3> QED BY <1>1, <1>2, <1>3, <1>4, <2>2, <3>1 DEF Commits
  <2>3. CASE /\ request.faults
             /\ Drop(folder) \/ (~r.success /\ Drop(r.files))
             /\ HandlerReturns
             /\ UNCHANGED <<entries, triggered>>
    <3>1. phase' \in {"extracting", "returned"}
      BY <2>3 DEF HandlerReturns
    <3>2. CASE Drop(folder)
      BY <1>1, <1>2, <1>3, <1>4, <2>3, <3>1, <3>2 DEF DropsFrom
    <3>3. CASE ~r.success /\ Drop(r.files)
      <4>1. /\ r.files \in [Places -> FileData]
            /\ folder[pending.output] = Absent =>
                 r.files = folder \/ r.files = Renamed(folder, Partial(pending.entry), pending.output)
            /\ folder[pending.output] # Absent =>
                 r.files = folder \/ r.files = Renamed(folder, pending.output, Backup(pending.entry))
        <5> DEFINE p == Partial(pending.entry)
                   d == pending.output
                   b == Backup(pending.entry)
        <5>1. /\ folder \in [Places -> FileData] /\ p \in Places /\ d \in Places /\ b \in Places
              /\ pending.retain \in BOOLEAN /\ request.faults \in BOOLEAN /\ ~r.success
              /\ r \in ReplaceOutcomes(folder, p, d, b, pending.retain, request.faults)
          BY <1>2, <1>3, <3>3
        <5> HIDE DEF p, d, b
        <5>2. r.files \in [Places -> FileData]
          BY <5>1, ReplaceDoes
        <5>3. folder[d] = Absent => r.files = folder \/ r.files = Renamed(folder, p, d)
          BY <5>1, ReplaceDoes
        <5>4. folder[d] # Absent => r.files = folder \/ r.files = Renamed(folder, d, b)
          BY <5>1, ReplaceDoes
        <5> QED BY <5>2, <5>3, <5>4 DEF p, d, b
      <4>2. DropsFrom(r.files)
        <5>1. \/ r.files = folder
              \/ /\ request.faults
                 /\ r.files = IF folder[pending.output] = Absent
                              THEN Renamed(folder, Partial(pending.entry), pending.output)
                              ELSE Renamed(folder, pending.output, Backup(pending.entry))
          BY <2>3, <4>1
        <5> QED BY <2>3, <3>3, <5>1 DEF DropsFrom
      <4>3. \E fs \in [Places -> FileData] : DropsFrom(fs)
        BY <4>1, <4>2
      <4> QED BY <1>1, <1>2, <1>3, <1>4, <3>1, <4>3
    <3> QED BY <2>3, <3>2, <3>3
  <2> QED BY <2>1, <2>2, <2>3
<1> QED BY <1>5, <1>6

\* The run begins with nothing open and everybody under his own name.
LEMMA InitFits == ExtractInit => Fitting
<1> SUFFICES ASSUME ExtractInit PROVE Fitting
  OBVIOUS
<1>1. PICK n \in Entries, mode \in Modes, policy \in Policies, faults \in BOOLEAN :
        \E targets \in [1..n -> Targets], mf \in Limits(policy), mb \in Limits(policy) :
          request = [targets |-> targets, mode |-> mode, policy |-> policy,
                     maxFiles |-> mf, maxBytes |-> mb, faults |-> faults]
  BY DEF ExtractInit
<1>2. PICK targets \in [1..n -> Targets], mf \in Limits(policy), mb \in Limits(policy) :
        request = [targets |-> targets, mode |-> mode, policy |-> policy,
                   maxFiles |-> mf, maxBytes |-> mb, faults |-> faults]
  BY <1>1
<1>3. n \in Nat /\ MaxEntries \in Nat \ {0} /\ mf \in Nat /\ mb \in Nat
  BY BoundsAssumption DEF Limits, Entries
<1>4. targets \in Seq(Targets) /\ Len(targets) = n
  BY <1>3
<1>5. /\ request \in [targets : Seq(Targets), mode : Modes, policy : Policies,
                      maxFiles : Nat, maxBytes : Nat, faults : BOOLEAN]
      /\ Len(request.targets) \in Entries
  BY <1>2, <1>3, <1>4
<1>6. PICK present \in SUBSET Names :
        folder = [p \in Places |-> IF \E m \in present : p = Final(m) THEN p[2] ELSE Absent]
  BY DEF ExtractInit
<1>7. \A p \in Places : folder[p] = Absent \/ \E m \in Names : p = Final(m) /\ folder[p] = m
  BY <1>6 DEF Final
<1>8. folder \in [Places -> FileData]
  BY <1>6, <1>7 DEF FileData
<1>9. start = folder /\ next = 1 /\ pending = Closed /\ entries = <<>> /\ answered = "open"
      /\ triggered = FALSE /\ cancelled = FALSE /\ phase = "extracting"
      /\ undo = [left |-> 0, ok |-> TRUE] /\ outcome = "none" /\ consented = {}
  BY DEF ExtractInit
<1>10. ExtractTypeOK
  <2>1. entries \in Seq(CommittedType) /\ Len(entries) = 0
    BY <1>9
  <2>2. undo \in [left : Nat, ok : BOOLEAN] /\ undo.left = 0
    BY <1>9
  <2>3. next \in 1..MaxEntries + 1
    BY <1>3, <1>9
  <2>4. (phase = "finished") = (outcome # "none")
    BY <1>9
  <2>5. folder \in [Places -> FileData] /\ start \in [Places -> FileData] /\ consented \subseteq FinalPaths
    BY <1>8, <1>9
  <2>6. pending \in PendingType \cup {Closed} /\ answered \in {"open", "yes", "no"}
        /\ triggered \in BOOLEAN /\ cancelled \in BOOLEAN
    BY <1>9
  <2>7. phase \in {"extracting", "returned", "rolling_back", "finished"}
        /\ outcome \in {"none", "kept", "rolled_back", "rollback_failed"}
        /\ undo.left <= Len(entries)
    BY <1>9, <2>1, <2>2
  <2> QED BY <1>5, <2>1, <2>2, <2>3, <2>4, <2>5, <2>6, <2>7 DEF ExtractTypeOK
<1>11. StartFits
  BY <1>7, <1>9, PathsDiffer DEF StartFits
<1>12. OwnPaths
  BY <1>7, PathsDiffer DEF OwnPaths
<1> QED BY <1>9, <1>10, <1>11, <1>12 DEF Fitting, EntriesFit, Ends, PendingFits, RollingBack

\* What leaves the directory alone leaves the fit alone.
LEMMA ControlFits ==
  ASSUME Fitting, Control
  PROVE  Fitting'
<1>1. ExtractTypeOK /\ Ends
  BY DEF Fitting
<1>2. /\ UNCHANGED <<request, folder, pending, entries, undo, outcome, start, consented>>
      /\ next' \in {next, next + 1} /\ next' \in 1..MaxEntries + 1
      /\ next' # next => pending = Closed
      /\ answered' \in {"open", "yes", "no"} /\ triggered' \in BOOLEAN /\ cancelled' \in BOOLEAN
      /\ phase' = phase \/ (phase = "extracting" /\ phase' = "returned")
      /\ triggered => triggered'
      /\ triggered' => pending = Closed /\ phase' # "extracting"
      /\ ~triggered /\ triggered' => phase = "extracting"
  BY <1>1, ControlDoes
<1>3. next \in Nat /\ next' \in Nat /\ next <= next' /\ triggered \in BOOLEAN
      /\ phase \in {"extracting", "returned", "rolling_back", "finished"}
      /\ (phase = "finished") = (outcome # "none")
  BY <1>1, <1>2, BoundsAssumption DEF ExtractTypeOK
<1>4. ExtractTypeOK'
  <2>1. phase' \in {"extracting", "returned", "rolling_back", "finished"}
        /\ (phase' = "finished") = (outcome' # "none")
    BY <1>2, <1>3
  <2> QED BY <1>1, <1>2, <2>1 DEF ExtractTypeOK
<1>5. StartFits'
  BY <1>2 DEF Fitting, StartFits
<1>6. EntriesFit'
  <2>1. \A i \in DOMAIN entries : entries[i].entry \in Nat
    BY <1>1, EntryTypes
  <2> QED BY <1>2, <1>3, <2>1 DEF Fitting, EntriesFit
<1>7. Ends'
  <2>1. (RollingBack => triggered /\ request.policy = "rollback")
        /\ (outcome = "kept" => ~(triggered /\ request.policy = "rollback"))
    BY DEF Fitting, Ends
  <2>2. RollingBack' = RollingBack
    BY <1>2 DEF RollingBack
  <2>3. outcome = "kept" => phase # "extracting"
    BY <1>3
  <2> QED BY <1>2, <2>1, <2>2, <2>3 DEF Ends
<1>8. ASSUME Working' PROVE PendingFits' /\ OwnPaths'
  <2>1. PendingFits /\ OwnPaths
    BY <1>2, <1>8 DEF Fitting, Working
  <2>2. PendingFits'
    <3>1. pending' # Closed => next' = next
      BY <1>2
    <3> QED BY <1>2, <2>1, <3>1 DEF PendingFits, Replacing
  <2>3. OwnPaths'
    <3>1. \A k \in Entries : k \in Nat /\ (k >= next' => k >= next)
      BY <1>3, BoundsAssumption DEF Entries
    <3> QED BY <1>2, <2>1, <3>1 DEF OwnPaths
  <2> QED BY <2>2, <2>3
<1> QED BY <1>4, <1>5, <1>6, <1>7, <1>8 DEF Fitting

\* What opening an entry does, where it works and where it does not.
Opened(output, backup, hadOriginal, fs) ==
  /\ pending' = [entry |-> next, output |-> output, backup |-> backup,
                 hadOriginal |-> hadOriginal, renamedOriginal |-> backup # NoPath,
                 retain |-> request.policy = "rollback" /\ hadOriginal /\ backup = NoPath]
  /\ folder' = [fs EXCEPT ![Partial(next)] = next]
  /\ phase' = phase

NotOpened(fs) == request.faults /\ folder' \in {folder, fs} /\ phase' = "returned" /\ pending' = pending

OpenStep(output, backup, hadOriginal, fs) ==
  /\ phase = "extracting" /\ pending = Closed /\ ~triggered
  /\ next \in Entries /\ next' = next + 1
  /\ Partial(next) \in Places \ FinalPaths
  /\ output \in Places /\ (backup # NoPath => backup \in FinalPaths /\ backup \in Places)
  /\ answered' \in {"open", "yes", "no"}
  /\ consented \subseteq consented' /\ consented' \subseteq FinalPaths
  /\ UNCHANGED <<request, entries, triggered, cancelled, undo, outcome, start>>
  /\ OpenFrom(output, backup, hadOriginal, fs)
  /\ \A p \in Places : \/ fs[p] = folder[p]
                       \/ backup # NoPath /\ p = output /\ fs[p] = Absent
                       \/ backup # NoPath /\ p = backup /\ fs[p] = folder[output]
  /\ backup # NoPath => fs[output] = Absent /\ fs[backup] = folder[output] /\ backup # output
  /\ Opened(output, backup, hadOriginal, fs) \/ NotOpened(fs)

\* GetStream opens an entry, or on a faulty file system fails to.
LEMMA OpensDoes ==
  ASSUME ExtractTypeOK, Opens
  PROVE  \E output \in FinalPaths, backup \in FinalPaths \cup {NoPath}, hadOriginal \in BOOLEAN :
         \E fs \in [Places -> FileData] :
           OpenStep(output, backup, hadOriginal, fs)
<1>1. PICK output \in FinalPaths, backup \in FinalPaths \cup {NoPath}, hadOriginal \in BOOLEAN :
        \E fs \in [Places -> FileData] :
          Open(output, backup, hadOriginal, fs) /\ OpenFrom(output, backup, hadOriginal, fs)
  BY OpensInOneOfThreeWays
<1>2. PICK fs \in [Places -> FileData] :
        Open(output, backup, hadOriginal, fs) /\ OpenFrom(output, backup, hadOriginal, fs)
  BY <1>1
<1>3. /\ Admitted /\ next \in Entries
      /\ answered' \in {"open", "yes", "no"}
      /\ consented \subseteq consented' /\ consented' \subseteq FinalPaths
  BY OpensInOneOfThreeWays
<1>4. phase = "extracting" /\ pending = Closed /\ ~triggered
  BY <1>3 DEF Admitted, Called, Aborted
<1>5. Opened(output, backup, hadOriginal, fs) \/ NotOpened(fs)
  BY <1>2 DEF Open, Opened, NotOpened, HandlerReturns
<1>6. next' = next + 1 /\ UNCHANGED <<request, entries, triggered, cancelled, undo, outcome, start>>
  BY <1>2 DEF Open
<1>7. Partial(next) \in Places \ FinalPaths /\ output \in Places
      /\ (backup # NoPath => backup \in FinalPaths /\ backup \in Places) /\ NoPath \notin FinalPaths
  BY <1>3, PathsDiffer
<1>8. /\ \A p \in Places : \/ fs[p] = folder[p]
                           \/ backup # NoPath /\ p = output /\ fs[p] = Absent
                           \/ backup # NoPath /\ p = backup /\ fs[p] = folder[output]
      /\ backup # NoPath => fs[output] = Absent /\ fs[backup] = folder[output] /\ backup # output
  <2>1. CASE backup = NoPath
    BY <1>2, <1>7, <2>1 DEF OpenFrom
  <2>2. CASE backup # NoPath
    <3>1. /\ fs = Renamed(folder, output, backup) /\ folder[output] # Absent /\ folder[backup] = Absent
      BY <1>2, <2>2 DEF OpenFrom
    <3>2. folder \in [Places -> FileData] /\ output # backup
      BY <3>1 DEF ExtractTypeOK
    <3>3. \A r \in Places : fs[r] = IF r = output THEN Absent ELSE IF r = backup THEN folder[output] ELSE folder[r]
      BY <1>7, <2>2, <3>1, <3>2, Calls
    <3> QED BY <1>7, <2>2, <3>2, <3>3
  <2> QED BY <2>1, <2>2
<1>9. OpenStep(output, backup, hadOriginal, fs)
  BY <1>2, <1>3, <1>4, <1>5, <1>6, <1>7, <1>8 DEF OpenStep
<1> QED BY <1>9

\* An entry that is opened fits its output, its partial file is its own.
LEMMA OpenFits ==
  ASSUME Fitting, Opens
  PROVE  Fitting'
<1>1. ExtractTypeOK /\ PendingFits /\ OwnPaths /\ StartFits /\ EntriesFit /\ Ends
  <2>1. ExtractTypeOK
    BY DEF Fitting
  <2>2. phase = "extracting"
    BY <2>1, OpensDoes DEF OpenStep
  <2> QED BY <2>2 DEF Fitting, Working
<1>2. PICK output \in FinalPaths, backup \in FinalPaths \cup {NoPath}, hadOriginal \in BOOLEAN :
        \E fs \in [Places -> FileData] : OpenStep(output, backup, hadOriginal, fs)
  BY <1>1, OpensDoes
<1>3. PICK fs \in [Places -> FileData] : OpenStep(output, backup, hadOriginal, fs)
  BY <1>2
<1> USE <1>3 DEF OpenStep
<1>4. MaxEntries \in Nat \ {0} /\ next \in Nat /\ next' \in Nat /\ next' \in 1..MaxEntries + 1
      /\ folder \in [Places -> FileData] /\ Entries \subseteq Nat
  BY <1>1, <1>3, BoundsAssumption DEF Entries, ExtractTypeOK
<1>5. StartFits'
  BY <1>1, <1>3 DEF StartFits
<1>6. Ends'
  BY <1>1, <1>3, <1>4 DEF Ends, ExtractTypeOK, RollingBack, Opened, NotOpened
<1>7. /\ request' \in [targets : Seq(Targets), mode : Modes, policy : Policies,
                  maxFiles : Nat, maxBytes : Nat, faults : BOOLEAN]
      /\ Len(request'.targets) \in Entries
      /\ entries' \in Seq(CommittedType) /\ triggered' \in BOOLEAN /\ cancelled' \in BOOLEAN
      /\ outcome' \in {"none", "kept", "rolled_back", "rollback_failed"}
      /\ undo' \in [left : Nat, ok : BOOLEAN] /\ undo'.left <= Len(entries')
      /\ start' \in [Places -> FileData]
      /\ outcome = "none"
  BY <1>1, <1>3 DEF ExtractTypeOK
<1>8. \A p \in Places \ FinalPaths : fs[p] = folder[p]
  BY <1>3
<1>9. CASE Opened(output, backup, hadOriginal, fs)
  <2>1. folder' \in [Places -> FileData]
    BY <1>3, <1>9 DEF Opened, FileData
  <2>2. pending' \in PendingType /\ pending' # Closed
    <3>1. pending' \in PendingType
      BY <1>2, <1>3, <1>9, PathsDiffer DEF Opened, PendingType
    <3>2. pending'.entry = next /\ next # 0
      BY <1>3, <1>9, BoundsAssumption DEF Opened, Entries
    <3> QED BY <3>1, <3>2 DEF Closed
  <2>3. ExtractTypeOK'
    BY <1>3, <1>4, <1>7, <1>9, <2>1, <2>2 DEF ExtractTypeOK, Opened
  <2>4. /\ folder'[Partial(next)] = next
        /\ \A p \in Places : p # Partial(next) => folder'[p] = fs[p]
    BY <1>3, <1>9 DEF Opened
  <2>5. /\ pending'.entry = next /\ pending'.output = output /\ pending'.backup = backup
        /\ pending'.hadOriginal = hadOriginal /\ pending'.renamedOriginal = (backup # NoPath)
        /\ pending'.retain = (request.policy = "rollback" /\ hadOriginal /\ backup = NoPath)
    BY <1>9 DEF Opened
  <2>6. PendingFits'
    <3>1. folder'[output] = fs[output] /\ (backup # NoPath => folder'[backup] = fs[backup])
      BY <1>3, <2>4
    <3>2. next = next' - 1
      BY <1>3, <1>4
    <3>3. folder'[Partial(next)] = next
      BY <2>4
    <3>4. backup # NoPath => /\ hadOriginal /\ request'.mode = "rename_existing"
                             /\ backup # output /\ folder'[backup] # Absent
      BY <1>3, <3>1 DEF OpenFrom
    <3>5. IF hadOriginal /\ backup = NoPath
          THEN folder'[output] # Absent /\ output \in consented' /\ request'.mode # "rename_existing"
          ELSE folder'[output] = Absent
      BY <1>3, <3>1, PathsDiffer DEF OpenFrom
    <3> QED BY <1>3, <2>2, <2>5, <3>2, <3>3, <3>4, <3>5 DEF PendingFits, Replacing
  <2>7. EntriesFit'
    <3>1. \A i \in DOMAIN entries : entries[i].entry < next /\ entries[i].entry \in Nat
      BY <1>1, EntryTypes DEF EntriesFit
    <3> QED BY <1>1, <1>3, <1>4, <2>5, <3>1 DEF EntriesFit
  <2>8. OwnPaths'
    <3> SUFFICES ASSUME NEW k \in Entries
                 PROVE  /\ folder'[Partial(k)] \in {k, Absent}
                        /\ k >= next' => folder'[Partial(k)] = Absent
                        /\ k >= next' \/ (pending' # Closed /\ k = pending'.entry) => folder'[Backup(k)] = Absent
      BY DEF OwnPaths
    <3>1. k \in Nat /\ (k >= next' => k # next /\ k >= next) /\ (k = next => k >= next)
      BY <1>3, <1>4
    <3>2. folder'[Backup(k)] = folder[Backup(k)]
      BY <1>3, <1>8, <2>4, PathsDiffer
    <3>3. k # next => folder'[Partial(k)] = folder[Partial(k)]
      BY <1>3, <1>8, <2>4, PathsDiffer
    <3> QED BY <1>1, <1>3, <2>4, <2>5, <3>1, <3>2, <3>3 DEF OwnPaths
  <2> QED BY <1>5, <1>6, <2>3, <2>6, <2>7, <2>8 DEF Fitting
<1>10. CASE NotOpened(fs)
  <2>1. folder' \in [Places -> FileData] /\ pending' = Closed /\ phase' = "returned"
    BY <1>3, <1>4, <1>10 DEF NotOpened
  <2>2. ExtractTypeOK'
    BY <1>3, <1>4, <1>7, <2>1 DEF ExtractTypeOK
  <2>3. PendingFits'
    BY <2>1 DEF PendingFits
  <2>4. EntriesFit'
    <3>1. \A i \in DOMAIN entries : entries[i].entry < next /\ entries[i].entry \in Nat
      BY <1>1, EntryTypes DEF EntriesFit
    <3> QED BY <1>1, <1>3, <1>4, <2>1, <3>1 DEF EntriesFit
  <2>5. OwnPaths'
    <3> SUFFICES ASSUME NEW k \in Entries
                 PROVE  /\ folder'[Partial(k)] \in {k, Absent}
                        /\ k >= next' => folder'[Partial(k)] = Absent
                        /\ k >= next' \/ (pending' # Closed /\ k = pending'.entry) => folder'[Backup(k)] = Absent
      BY DEF OwnPaths
    <3>1. k \in Nat /\ (k >= next' => k >= next)
      BY <1>3, <1>4
    <3>2. folder'[Backup(k)] = folder[Backup(k)] /\ folder'[Partial(k)] = folder[Partial(k)]
      BY <1>8, <1>10, PathsDiffer DEF NotOpened
    <3> QED BY <1>1, <2>1, <3>1, <3>2 DEF OwnPaths
  <2> QED BY <1>5, <1>6, <2>2, <2>3, <2>4, <2>5 DEF Fitting
<1> QED BY <1>3, <1>9, <1>10

\* Where the result of an entry is settled, path by path.
ResultStep ==
  /\ pending # Closed /\ pending \in PendingType /\ phase = "extracting"
  /\ pending.entry \in Entries /\ pending.entry = next - 1
  /\ Partial(pending.entry) \in Places \ FinalPaths /\ Backup(pending.entry) \in Places \ FinalPaths
  /\ Partial(pending.entry) # Backup(pending.entry)
  /\ pending.output \in FinalPaths /\ pending.output \in Places
  /\ pending.backup \in FinalPaths \cup {NoPath} /\ FinalPaths \subseteq Places /\ NoPath \notin Places
  /\ pending' = Closed /\ phase' \in {"extracting", "returned"} /\ ~triggered
  /\ UNCHANGED <<request, next, answered, cancelled, undo, outcome, start, consented>>
  /\ folder' \in [Places -> FileData]

CommitStep(backup) ==
  /\ ResultStep
  /\ entries' = Append(entries,
       [entry |-> pending.entry, output |-> pending.output,
        backup |-> IF backup THEN Backup(pending.entry) ELSE pending.backup,
        hadOriginal |-> pending.hadOriginal, renamedOriginal |-> pending.renamedOriginal])
  /\ triggered' \in BOOLEAN /\ (triggered' => phase' = "returned")
  /\ \A q \in Places \ {pending.output, Partial(pending.entry), Backup(pending.entry)} :
       folder'[q] = folder[q]
  /\ ~Replacing(pending) =>
       /\ ~backup /\ folder'[Backup(pending.entry)] = folder[Backup(pending.entry)]
       /\ \/ folder'[pending.output] = pending.entry /\ folder'[Partial(pending.entry)] = Absent
          \/ /\ request.faults
             /\ folder'[pending.output] = folder[pending.output]
             /\ folder'[Partial(pending.entry)] = folder[Partial(pending.entry)]
  /\ Replacing(pending) =>
       /\ backup = pending.retain
       /\ folder'[pending.output] = pending.entry /\ folder'[Partial(pending.entry)] = Absent
       /\ \/ folder'[Backup(pending.entry)] = folder[pending.output] /\ (pending.retain \/ request.faults)
          \/ folder'[Backup(pending.entry)] = Absent /\ ~pending.retain

DropStep ==
  /\ ResultStep
  /\ UNCHANGED <<entries, triggered>>
  /\ \A q \in Places \ {pending.output, pending.backup, Partial(pending.entry), Backup(pending.entry)} :
       folder'[q] = folder[q]
  /\ folder'[Partial(pending.entry)] \in {pending.entry, Absent}
  /\ ~request.faults => folder'[Partial(pending.entry)] = Absent
  /\ Replacing(pending) =>
       \/ /\ folder'[pending.output] = folder[pending.output]
          /\ folder'[Backup(pending.entry)] = folder[Backup(pending.entry)]
       \/ /\ request.faults /\ folder'[pending.output] = Absent
          /\ folder'[Backup(pending.entry)] = folder[pending.output]
  /\ ~Replacing(pending) =>
       folder'[Backup(pending.entry)] = folder[Backup(pending.entry)]
  /\ ~Replacing(pending) /\ ~pending.renamedOriginal =>
       folder'[pending.output] = Absent \/ (request.faults /\ folder'[pending.output] = pending.entry)
  /\ pending.renamedOriginal =>
       \/ folder'[pending.output] = folder[pending.backup] /\ folder'[pending.backup] = Absent
       \/ /\ request.faults /\ folder'[pending.backup] = folder[pending.backup]
          /\ folder'[pending.output] \in {Absent, pending.entry}

\* SetOperationResult, path by path.
LEMMA ResultSteps ==
  ASSUME Fitting, ResultOK \/ ResultBad
  PROVE  (\E backup \in BOOLEAN : CommitStep(backup)) \/ DropStep
<1>1. /\ pending # Closed /\ pending \in PendingType /\ phase = "extracting"
      /\ Partial(pending.entry) \in Places /\ Backup(pending.entry) \in Places
      /\ pending.output \in Places /\ pending.output \in FinalPaths
      /\ pending.retain \in BOOLEAN /\ request.faults \in BOOLEAN
      /\ pending' = Closed /\ phase' \in {"extracting", "returned"}
      /\ UNCHANGED <<request, next, answered, cancelled, undo, outcome, start, consented>>
      /\ Commits \/ \E fs \in [Places -> FileData] : DropsFrom(fs)
  BY ResultDoes DEF Fitting
<1>2. PendingFits /\ OwnPaths /\ ExtractTypeOK /\ folder \in [Places -> FileData]
  BY <1>1 DEF Fitting, Working, ExtractTypeOK
<1>3. ~triggered
  BY <1>1 DEF Fitting, Ends
<1>4. PICK k : k = pending.entry
  OBVIOUS
<1>5. PICK o : o = pending.output
  OBVIOUS
<1>6. PICK P, B : P = Partial(k) /\ B = Backup(k)
  OBVIOUS
<1>7. /\ k \in Entries /\ k = next - 1 /\ P \in Places \ FinalPaths /\ B \in Places \ FinalPaths
      /\ P # B /\ o \in FinalPaths /\ o \in Places /\ folder[P] = k /\ folder[B] = Absent /\ k # Absent
      /\ pending.backup \in FinalPaths \cup {NoPath} /\ FinalPaths \subseteq Places /\ NoPath \notin Places
      /\ pending.renamedOriginal = (pending.backup # NoPath) /\ pending.renamedOriginal \in BOOLEAN
      /\ pending.renamedOriginal => pending.hadOriginal /\ pending.backup # o
      /\ (folder[o] = Absent) = ~Replacing(pending) /\ Replacing(pending) \in BOOLEAN
  <2>1. k \in Entries /\ P \in Places \ FinalPaths /\ B \in Places \ FinalPaths /\ P # B
        /\ FinalPaths \subseteq Places /\ NoPath \notin Places /\ k # Absent
    BY <1>1, <1>4, <1>6, PathsDiffer, NamesAssumption DEF PendingType
  <2>2. pending.backup \in FinalPaths \cup {NoPath} /\ pending.renamedOriginal \in BOOLEAN
        /\ pending.hadOriginal \in BOOLEAN
    BY <1>1 DEF PendingType
  <2>3. /\ k = next - 1 /\ folder[P] = k /\ pending.renamedOriginal = (pending.backup # NoPath)
        /\ pending.renamedOriginal => pending.hadOriginal /\ pending.backup # o
        /\ (folder[o] = Absent) = ~Replacing(pending)
    BY <1>1, <1>2, <1>4, <1>5, <1>6 DEF PendingFits
  <2>4. folder[B] = Absent
    BY <1>1, <1>2, <1>4, <1>6, <2>1 DEF OwnPaths
  <2> QED BY <1>1, <1>5, <2>1, <2>2, <2>3, <2>4 DEF Replacing
<1>8. ASSUME folder' \in [Places -> FileData] PROVE ResultStep
  BY <1>1, <1>3, <1>4, <1>5, <1>6, <1>7, <1>8 DEF ResultStep
<1>9. CASE Commits
  <2>1. PICK r \in ReplaceOutcomes(folder, P, o, B, pending.retain, request.faults) :
          r.success /\ Committed(r)
    BY <1>4, <1>5, <1>6, <1>9 DEF Commits
  <2>2. folder' = r.files
    BY <2>1 DEF Committed
  <2>3. /\ r.files \in [Places -> FileData] /\ r.success \in BOOLEAN /\ r.backup \in BOOLEAN
        /\ folder[o] = Absent =>
             /\ ~r.backup
             /\ r.files = Renamed(folder, P, o) \/ (r.files = folder /\ request.faults)
        /\ folder[o] # Absent =>
             \E aside, promoted :
               /\ aside = Renamed(folder, o, B)
               /\ promoted = Renamed(aside, P, o)
               /\ r.backup = pending.retain
               /\ \/ pending.retain /\ r.files = promoted
                  \/ ~pending.retain /\ r.files = Removed(promoted, B)
                  \/ ~pending.retain /\ request.faults /\ r.files = promoted
    <3>1. P \in Places /\ B \in Places /\ o \in Places /\ pending.retain \in BOOLEAN
          /\ request.faults \in BOOLEAN
      BY <1>1, <1>7
    <3>2. PICK retain, faulty : retain = pending.retain /\ faulty = request.faults
      OBVIOUS
    <3>3. r \in ReplaceOutcomes(folder, P, o, B, retain, faulty) /\ r.success
      BY <2>1, <3>2
    <3>4. /\ r.files \in [Places -> FileData] /\ r.success \in BOOLEAN /\ r.backup \in BOOLEAN
          /\ folder[o] = Absent =>
               /\ ~r.backup
               /\ r.files = Renamed(folder, P, o) \/ (r.files = folder /\ (faulty \/ folder[P] = Absent))
          /\ folder[o] # Absent =>
               \E aside, promoted :
                 /\ aside = Renamed(folder, o, B)
                 /\ promoted = Renamed(aside, P, o)
                 /\ r.success => r.backup = retain
                 /\ r.success => \/ retain /\ r.files = promoted
                                 \/ ~retain /\ r.files = Removed(promoted, B)
                                 \/ ~retain /\ faulty /\ r.files = promoted
      BY <1>2, <3>1, <3>2, <3>3, ReplaceDoes
    <3> QED BY <1>7, <2>1, <3>2, <3>4
  <2>4. ResultStep
    BY <1>8, <2>2, <2>3
  <2>5. /\ triggered' \in BOOLEAN /\ (triggered' => phase' = "returned")
        /\ entries' = Append(entries,
             [entry |-> k, output |-> o, backup |-> IF r.backup THEN B ELSE pending.backup,
              hadOriginal |-> pending.hadOriginal, renamedOriginal |-> pending.renamedOriginal])
    <3>1. triggered' = (triggered \/ Len(entries') > request.maxBytes)
      BY <2>1 DEF Committed
    <3>2. triggered' => phase' = "returned"
      BY <2>1 DEF Committed, Continue
    <3> QED BY <1>3, <1>4, <1>5, <1>6, <2>1, <3>1, <3>2 DEF Committed
  <2>6. CASE ~Replacing(pending)
    <3>1. ~r.backup /\ (folder' = Renamed(folder, P, o) \/ (folder' = folder /\ request.faults))
      BY <1>7, <2>2, <2>3, <2>6
    <3>2. \A q \in Places : Renamed(folder, P, o)[q] = IF q = P THEN Absent ELSE IF q = o THEN folder[P] ELSE folder[q]
      BY <1>2, <1>7, Calls
    <3>3. CommitStep(r.backup)
      BY <1>4, <1>5, <1>6, <1>7, <2>4, <2>5, <2>6, <3>1, <3>2 DEF CommitStep
    <3> QED BY <2>3, <3>3
  <2>7. CASE Replacing(pending)
    <3>1. PICK a, b :
            /\ a = Renamed(folder, o, B) /\ b = Renamed(a, P, o)
            /\ r.backup = pending.retain
            /\ \/ pending.retain /\ folder' = b
               \/ ~pending.retain /\ folder' = Removed(b, B)
               \/ ~pending.retain /\ request.faults /\ folder' = b
      BY <1>7, <2>2, <2>3, <2>7
    <3>2. /\ a \in [Places -> FileData]
          /\ \A q \in Places : a[q] = IF q = o THEN Absent ELSE IF q = B THEN folder[o] ELSE folder[q]
      BY <1>2, <1>7, <3>1, Calls
    <3>3. /\ b \in [Places -> FileData]
          /\ \A q \in Places : b[q] = IF q = P THEN Absent ELSE IF q = o THEN a[P] ELSE a[q]
      BY <1>7, <3>1, <3>2, Calls
    <3>4. \A q \in Places : Removed(b, B)[q] = IF q = B THEN Absent ELSE b[q]
      BY <1>7, <3>3, Calls
    <3>5. /\ \A q \in Places \ {o, P, B} : b[q] = folder[q] /\ Removed(b, B)[q] = folder[q]
          /\ b[o] = k /\ b[P] = Absent /\ b[B] = folder[o]
          /\ Removed(b, B)[o] = k /\ Removed(b, B)[P] = Absent /\ Removed(b, B)[B] = Absent
      BY <1>7, <3>2, <3>3, <3>4
    <3>6. /\ \A q \in Places \ {o, P, B} : folder'[q] = folder[q]
          /\ folder'[o] = k /\ folder'[P] = Absent
          /\ \/ folder'[B] = folder[o] /\ (pending.retain \/ request.faults)
             \/ folder'[B] = Absent /\ ~pending.retain
      BY <3>1, <3>5
    <3>7. CommitStep(r.backup)
      BY <1>4, <1>5, <1>6, <2>4, <2>5, <2>7, <3>1, <3>6 DEF CommitStep
    <3> QED BY <2>3, <3>7
  <2> QED BY <2>6, <2>7
<1>10. CASE \E fs \in [Places -> FileData] : DropsFrom(fs)
  <2>1. PICK fs \in [Places -> FileData] : DropsFrom(fs)
    BY <1>10
  <2>2. PICK g \in [Places -> FileData] :
           /\ g = Removed(fs, P) \/ (request.faults /\ g = fs)
           /\ \/ pending.renamedOriginal /\ folder' = Renamed(g, pending.backup, o)
              \/ (~pending.renamedOriginal \/ request.faults) /\ folder' = g
    BY <1>1, <1>4, <1>5, <1>6, <2>1, DropDoes DEF DropsFrom
  <2>3. \A q \in Places : g[q] = IF q = P /\ g # fs THEN Absent ELSE fs[q]
    BY <1>7, <2>2, Calls
  <2>4. /\ g[P] = fs[P] \/ g[P] = Absent
        /\ ~request.faults => g[P] = Absent
        /\ \A q \in Places \ {P} : g[q] = fs[q]
    <3>1. Removed(fs, P)[P] = Absent
      BY <1>7, Calls
    <3> QED BY <1>7, <2>2, <2>3, <3>1
  <2>5. UNCHANGED <<entries, triggered>>
    BY <2>1 DEF DropsFrom
  <2>6. CASE Replacing(pending)
    <3>1. ~pending.renamedOriginal /\ pending.backup = NoPath /\ folder[o] # Absent
      BY <1>7, <2>6 DEF Replacing
    <3>2. folder' = g
      BY <2>2, <3>1
    <3>3. fs = folder \/ (request.faults /\ fs = Renamed(folder, o, B))
      BY <1>4, <1>5, <1>6, <2>1, <3>1 DEF DropsFrom
    <3>4. \A q \in Places : Renamed(folder, o, B)[q] = IF q = o THEN Absent ELSE IF q = B THEN folder[o] ELSE folder[q]
      BY <1>2, <1>7, Calls
    <3>5. ResultStep
      BY <1>8, <3>2
    <3> QED BY <1>4, <1>5, <1>6, <1>7, <2>4, <2>5, <2>6, <3>1, <3>2, <3>3, <3>4, <3>5 DEF DropStep
  <2>7. CASE ~Replacing(pending)
    <3>1. folder[o] = Absent
      BY <1>7, <2>7
    <3>2. fs = folder \/ (request.faults /\ fs = Renamed(folder, P, o))
      BY <1>4, <1>5, <1>6, <2>1, <3>1 DEF DropsFrom
    <3>3. \A q \in Places : Renamed(folder, P, o)[q] = IF q = P THEN Absent ELSE IF q = o THEN folder[P] ELSE folder[q]
      BY <1>2, <1>7, Calls
    <3>4. /\ \A q \in Places \ {P, o} : g[q] = folder[q]
          /\ g[o] = Absent \/ (request.faults /\ g[o] = k)
          /\ g[P] = k \/ g[P] = Absent
      BY <1>7, <2>4, <3>1, <3>2, <3>3
    <3>5. CASE folder' = g /\ (~pending.renamedOriginal \/ request.faults)
      <4>1. ResultStep
        BY <1>8, <3>5
      <4> QED BY <1>4, <1>5, <1>6, <1>7, <2>4, <2>5, <2>7, <3>4, <3>5, <4>1 DEF DropStep
    <3>6. CASE pending.renamedOriginal /\ folder' = Renamed(g, pending.backup, o)
      <4>1. pending.backup \in FinalPaths /\ pending.backup \in Places /\ pending.backup # o
            /\ pending.backup # P /\ pending.backup # B
        BY <1>7, <3>6
      <4>2. /\ folder' \in [Places -> FileData]
            /\ \A q \in Places : folder'[q] = IF q = pending.backup THEN Absent
                                              ELSE IF q = o THEN g[pending.backup] ELSE g[q]
        BY <1>7, <3>6, <4>1, Calls
      <4>3. ResultStep
        BY <1>8, <4>2
      <4> QED BY <1>4, <1>5, <1>6, <1>7, <2>4, <2>5, <2>7, <3>4, <3>6, <4>1, <4>2, <4>3 DEF DropStep
    <3> QED BY <2>2, <3>5, <3>6
  <2> QED BY <2>6, <2>7
<1> QED BY <1>1, <1>9, <1>10

\* An entry that is committed fits among the others, one that is dropped leaves them.
LEMMA ResultFits ==
  ASSUME Fitting, ResultOK \/ ResultBad
  PROVE  Fitting'
<1>1. (\E backup \in BOOLEAN : CommitStep(backup)) \/ DropStep
  BY ResultSteps
<1>2. ResultStep
  BY <1>1 DEF CommitStep, DropStep
<1>3. ExtractTypeOK /\ EntriesFit /\ StartFits /\ Ends /\ PendingFits /\ OwnPaths
  BY <1>2 DEF Fitting, ResultStep, Working
<1>4. PICK k, P, B : k = pending.entry /\ P = Partial(k) /\ B = Backup(k)
  OBVIOUS
<1>5. k \in Entries /\ k = next - 1 /\ P \in Places /\ B \in Places /\ P # B
      /\ next \in Nat /\ k \in Nat /\ k < next /\ folder[P] = k
  <2>1. next \in Nat /\ Entries \subseteq Nat
    BY <1>3, BoundsAssumption DEF ExtractTypeOK, Entries
  <2> QED BY <1>2, <1>3, <1>4, <2>1 DEF ResultStep, PendingFits
<1>6. StartFits'
  BY <1>2, <1>3 DEF ResultStep, StartFits
<1>7. PendingFits'
  BY <1>2 DEF ResultStep, PendingFits
<1>8. /\ triggered' \in BOOLEAN /\ (triggered' => phase' = "returned")
      /\ folder'[P] \in {k, Absent}
      /\ \A q \in Places \ FinalPaths : q # P /\ q # B => folder'[q] = folder[q]
  <2>1. CASE \E backup \in BOOLEAN : CommitStep(backup)
    <3>1. PICK backup \in BOOLEAN : CommitStep(backup)
      BY <2>1
    <3>2. triggered' \in BOOLEAN /\ (triggered' => phase' = "returned")
      BY <3>1 DEF CommitStep
    <3>3. folder'[P] \in {k, Absent}
      BY <1>4, <1>5, <3>1 DEF CommitStep
    <3>4. \A q \in Places \ FinalPaths : q # P /\ q # B => folder'[q] = folder[q]
      BY <1>2, <1>4, <3>1 DEF CommitStep, ResultStep
    <3> QED BY <3>2, <3>3, <3>4
  <2>2. CASE DropStep
    <3>1. triggered' = FALSE
      BY <1>2, <1>3, <2>2 DEF DropStep, ResultStep, ExtractTypeOK
    <3>2. folder'[P] \in {k, Absent}
      BY <1>4, <2>2 DEF DropStep
    <3>3. \A q \in Places \ FinalPaths : q # P /\ q # B => folder'[q] = folder[q]
      BY <1>2, <1>4, <2>2 DEF DropStep, ResultStep
    <3> QED BY <3>1, <3>2, <3>3
  <2> QED BY <1>1, <2>1, <2>2
<1>9. OwnPaths'
  <2> SUFFICES ASSUME NEW j \in Entries
               PROVE  /\ folder'[Partial(j)] \in {j, Absent}
                      /\ j >= next' => folder'[Partial(j)] = Absent
                      /\ j >= next' => folder'[Backup(j)] = Absent
    BY <1>2 DEF OwnPaths, ResultStep
  <2>1. next' = next /\ j \in Nat /\ (j >= next => j # k)
    BY <1>2, <1>5, BoundsAssumption DEF ResultStep, Entries
  <2>2. CASE j = k
    BY <1>4, <1>8, <2>1, <2>2
  <2>3. CASE j # k
    <3>1. folder'[Partial(j)] = folder[Partial(j)] /\ folder'[Backup(j)] = folder[Backup(j)]
      BY <1>4, <1>5, <1>8, <2>3, PathsDiffer
    <3> QED BY <1>3, <2>1, <3>1 DEF OwnPaths
  <2> QED BY <2>2, <2>3
<1>10. Ends'
  BY <1>2, <1>3, <1>8 DEF ResultStep, Ends, RollingBack, ExtractTypeOK
<1>11. /\ request' \in [targets : Seq(Targets), mode : Modes, policy : Policies,
                       maxFiles : Nat, maxBytes : Nat, faults : BOOLEAN]
       /\ Len(request'.targets) \in Entries
       /\ folder' \in [Places -> FileData] /\ next' \in 1..MaxEntries + 1
       /\ pending' \in PendingType \cup {Closed} /\ answered' \in {"open", "yes", "no"}
       /\ cancelled' \in BOOLEAN
       /\ phase' \in {"extracting", "returned", "rolling_back", "finished"}
       /\ (phase' = "finished") = (outcome' # "none")
       /\ undo' \in [left : Nat, ok : BOOLEAN]
       /\ outcome' \in {"none", "kept", "rolled_back", "rollback_failed"}
       /\ start' \in [Places -> FileData] /\ consented' \subseteq FinalPaths
  BY <1>2, <1>3 DEF ResultStep, ExtractTypeOK
<1>12. /\ entries' \in Seq(CommittedType) /\ Len(entries) <= Len(entries')
       /\ \A i \in DOMAIN entries' :
            \/ i \in DOMAIN entries /\ entries'[i] = entries[i]
            \/ /\ entries'[i].entry = k
               /\ IF entries'[i].renamedOriginal
                  THEN entries'[i].hadOriginal /\ entries'[i].backup \in FinalPaths
                  ELSE /\ entries'[i].backup \in {NoPath, Backup(k)}
                       /\ entries'[i].hadOriginal =>
                            request.mode # "rename_existing" /\ entries'[i].output \in consented
  <2>1. entries \in Seq(CommittedType)
    BY <1>3 DEF ExtractTypeOK
  <2>2. CASE DropStep
    BY <2>1, <2>2 DEF DropStep
  <2>3. CASE \E backup \in BOOLEAN : CommitStep(backup)
    <3>1. PICK backup \in BOOLEAN : CommitStep(backup)
      BY <2>3
    <3>2. PICK e : e = [entry |-> k, output |-> pending.output,
                        backup |-> IF backup THEN B ELSE pending.backup,
                        hadOriginal |-> pending.hadOriginal, renamedOriginal |-> pending.renamedOriginal]
      OBVIOUS
    <3>3. entries' = Append(entries, e)
      BY <1>4, <3>1, <3>2 DEF CommitStep
    <3>4. /\ pending.hadOriginal \in BOOLEAN /\ pending.renamedOriginal \in BOOLEAN
          /\ pending.backup \in FinalPaths \cup {NoPath} /\ pending.output \in FinalPaths
          /\ pending.renamedOriginal = (pending.backup # NoPath)
          /\ FinalPaths \subseteq Places /\ NoPath \notin FinalPaths
          /\ pending.renamedOriginal => pending.hadOriginal
          /\ Replacing(pending) => request.mode # "rename_existing" /\ pending.output \in consented
      BY <1>2, <1>3 DEF ResultStep, PendingType, PendingFits
    <3>5. backup => Replacing(pending)
      BY <3>1 DEF CommitStep
    <3>6. e \in CommittedType
      BY <1>5, <3>2, <3>4 DEF CommittedType
    <3>7. /\ e.entry = k
          /\ IF e.renamedOriginal THEN e.hadOriginal /\ e.backup \in FinalPaths
             ELSE /\ e.backup \in {NoPath, Backup(k)}
                  /\ e.hadOriginal => request.mode # "rename_existing" /\ e.output \in consented
      BY <1>4, <3>2, <3>4, <3>5 DEF Replacing
    <3>8. /\ entries' \in Seq(CommittedType) /\ Len(entries) <= Len(entries')
          /\ \A i \in DOMAIN entries' : (i \in DOMAIN entries /\ entries'[i] = entries[i]) \/ entries'[i] = e
      BY <2>1, <3>3, <3>6
    <3> QED BY <3>7, <3>8
  <2> QED BY <1>1, <2>2, <2>3
<1>13. EntriesFit'
  <2>1. \A i \in DOMAIN entries : entries[i].entry \in Nat
    BY <1>3, EntryTypes
  <2>2. next' = next /\ request' = request /\ consented' = consented /\ pending' = Closed
    BY <1>2 DEF ResultStep
  <2> QED BY <1>3, <1>5, <1>12, <2>1, <2>2 DEF EntriesFit
<1>14. ExtractTypeOK'
  <2>1. undo'.left <= Len(entries')
    <3>1. undo' = undo /\ undo.left <= Len(entries) /\ undo.left \in Nat
          /\ Len(entries) \in Nat /\ Len(entries') \in Nat
      BY <1>2, <1>3, <1>12 DEF ResultStep, ExtractTypeOK
    <3> QED BY <1>12, <3>1
  <2> QED BY <1>8, <1>11, <1>12, <2>1 DEF ExtractTypeOK
<1> QED BY <1>6, <1>7, <1>9, <1>10, <1>13, <1>14 DEF Fitting

Settles == SettleByRollback \/ UndoEntry \/ RollbackEnds \/ SettleByKeeping

\* An entry is undone, path by path.
LEMMA UndoDoes ==
  ASSUME ExtractTypeOK, NEW fs \in [Places -> FileData], NEW i \in DOMAIN entries,
         NEW removeFails \in BOOLEAN, NEW renameFails \in BOOLEAN
  PROVE  /\ Undone(fs, entries[i], removeFails, renameFails).folder \in [Places -> FileData]
         /\ Undone(fs, entries[i], removeFails, renameFails).ok \in BOOLEAN
<1>1. PICK e : e = entries[i]
  OBVIOUS
<1>2. e.output \in Places /\ (e.backup # NoPath => e.backup \in Places)
  BY <1>1, EntryTypes
<1>3. PICK g : g = IF removeFails THEN fs ELSE Removed(fs, e.output)
  OBVIOUS
<1>4. g \in [Places -> FileData]
  BY <1>2, <1>3, Calls
<1>5. e.backup # NoPath => Renamed(g, e.backup, e.output) \in [Places -> FileData]
  BY <1>2, <1>4, Calls
<1>6. PICK u : u = Undone(fs, e, removeFails, renameFails)
  OBVIOUS
<1>7. \/ u = [folder |-> g, ok |-> ~removeFails]
      \/ u = [folder |-> g, ok |-> FALSE]
      \/ e.backup # NoPath /\ u = [folder |-> Renamed(g, e.backup, e.output), ok |-> TRUE]
  BY <1>3, <1>6 DEF Undone
<1>8. u.folder \in [Places -> FileData]
  BY <1>4, <1>5, <1>7
<1>9. u.ok \in BOOLEAN
  <2>1. CASE u = [folder |-> g, ok |-> ~removeFails]
    BY <2>1
  <2>2. CASE u = [folder |-> g, ok |-> FALSE]
    BY <2>2
  <2>3. CASE u = [folder |-> Renamed(g, e.backup, e.output), ok |-> TRUE]
    BY <2>3
  <2> QED BY <1>7, <2>1, <2>2, <2>3
<1> QED BY <1>1, <1>6, <1>8, <1>9

\* Settling changes the directory, and nothing that is said of it after.
LEMMA SettleFits ==
  ASSUME Fitting, Settles
  PROVE  Fitting'
<1>1. ExtractTypeOK /\ EntriesFit /\ StartFits /\ Ends
  BY DEF Fitting
<1>2. /\ UNCHANGED <<request, next, pending, entries, answered, triggered, cancelled, start, consented>>
      /\ phase' \in {"rolling_back", "finished"}
      /\ phase # "extracting"
  BY DEF Settles, SettleByRollback, UndoEntry, RollbackEnds, SettleByKeeping, Settling
<1>3. StartFits' /\ EntriesFit' /\ ~Working'
  BY <1>1, <1>2 DEF StartFits, EntriesFit, Working
<1>4. folder \in [Places -> FileData] /\ undo \in [left : Nat, ok : BOOLEAN] /\ undo.left <= Len(entries)
      /\ Len(entries) \in Nat /\ DOMAIN entries = 1..Len(entries)
      /\ outcome \in {"none", "kept", "rolled_back", "rollback_failed"}
      /\ (phase = "finished") = (outcome # "none")
  BY <1>1 DEF ExtractTypeOK
<1>5. /\ folder' \in [Places -> FileData]
      /\ undo' \in [left : Nat, ok : BOOLEAN] /\ undo'.left <= Len(entries)
      /\ outcome' \in {"none", "kept", "rolled_back", "rollback_failed"}
      /\ (phase' = "finished") = (outcome' # "none")
      /\ RollingBack' => triggered /\ request.policy = "rollback"
      /\ outcome' = "kept" => ~(triggered /\ request.policy = "rollback")
  <2>1. CASE SettleByRollback
    BY <1>4, <2>1 DEF SettleByRollback, Settling, RollingBack
  <2>2. CASE UndoEntry
    <3>1. PICK removeFails \in BOOLEAN, renameFails \in BOOLEAN :
            LET undone == Undone(folder, NextUndone, removeFails, renameFails) IN
              /\ folder' = undone.folder
              /\ undo' = [left |-> undo.left - 1, ok |-> undo.ok /\ undone.ok]
      BY <2>2 DEF UndoEntry
    <3>2. undo.left \in DOMAIN entries /\ undo.left \in Nat \ {0} /\ undo.ok \in BOOLEAN
      BY <1>4, <2>2 DEF UndoEntry
    <3>3. folder' \in [Places -> FileData]
      BY <1>1, <1>4, <3>1, <3>2, UndoDoes DEF NextUndone
    <3>4. undo'.left = undo.left - 1 /\ undo' \in [left : Nat, ok : BOOLEAN]
      BY <3>1, <3>2
    <3>5. triggered /\ request.policy = "rollback" /\ phase' = "rolling_back" /\ outcome' = outcome
          /\ outcome = "none"
      BY <1>1, <1>4, <2>2 DEF UndoEntry, Ends, RollingBack, Settling
    <3> QED BY <1>4, <3>2, <3>3, <3>4, <3>5 DEF RollingBack
  <2>3. CASE RollbackEnds
    BY <1>1, <1>4, <2>3 DEF RollbackEnds, Settling, RollingBack, Ends
  <2>4. CASE SettleByKeeping
    <3>1. folder' \in [Places -> FileData]
      BY <1>4, <2>4 DEF SettleByKeeping, FileData
    <3> QED BY <1>4, <2>4, <3>1 DEF SettleByKeeping, Settling, RollingBack
  <2> QED BY <2>1, <2>2, <2>3, <2>4 DEF Settles
<1>6. ExtractTypeOK'
  BY <1>1, <1>2, <1>5 DEF ExtractTypeOK
<1>7. Ends'
  BY <1>1, <1>2, <1>5 DEF Ends
<1> QED BY <1>3, <1>6, <1>7 DEF Fitting

\* Fitting is inductive.
LEMMA NextFits == Fitting /\ [ExtractNext]_extractVars => Fitting'
<1> SUFFICES ASSUME Fitting, [ExtractNext]_extractVars PROVE Fitting'
  OBVIOUS
<1>1. CASE Control
  BY <1>1, ControlFits
<1>2. CASE Opens
  BY <1>2, OpenFits
<1>3. CASE ResultOK \/ ResultBad
  BY <1>3, ResultFits
<1>4. CASE Settles
  BY <1>4, SettleFits
<1>5. CASE UNCHANGED extractVars
  BY <1>5 DEF extractVars, Fitting, ExtractTypeOK, StartFits, EntriesFit, Ends, RollingBack, Working,
              PendingFits, Replacing, OwnPaths, Present
<1> QED BY <1>1, <1>2, <1>3, <1>4, <1>5 DEF ExtractNext, Control, Opens, Settles

-----------------------------------------------------------------------------
(* Where the originals are.                                                *)

\* What opening an entry does to the directory.
Stayed == \A p \in Places \ {Partial(next)} : folder'[p] = folder[p]
Moved(output, backup) ==
  /\ backup \in FinalPaths /\ backup # output /\ request.mode = "rename_existing"
  /\ folder'[output] = Absent /\ folder'[backup] = folder[output] /\ folder[backup] = Absent
  /\ \A p \in Places \ {Partial(next), output, backup} : folder'[p] = folder[p]

OpensPending(output, backup, hadOriginal) ==
  /\ pending' # Closed /\ pending'.entry = next /\ pending'.output = output
  /\ pending'.backup = backup /\ pending'.hadOriginal = hadOriginal
  /\ pending'.renamedOriginal = (backup # NoPath)
  /\ folder'[Partial(next)] = next
  /\ IF backup = NoPath THEN Stayed /\ hadOriginal = (folder[output] # Absent)
     ELSE Moved(output, backup)

\* GetStream moves one original at most, to a name that is free.
LEMMA OpenMoves ==
  ASSUME Fitting, Opens
  PROVE  /\ phase = "extracting" /\ pending = Closed /\ next \in Entries
         /\ Partial(next) \in Places \ FinalPaths /\ folder[Partial(next)] = Absent
         /\ folder'[Partial(next)] \in {next, Absent}
         /\ UNCHANGED <<request, entries, triggered, undo, outcome, start>> /\ consented \subseteq consented'
         /\ phase' \in {"extracting", "returned"}
         /\ \E output \in FinalPaths, backup \in FinalPaths \cup {NoPath}, hadOriginal \in BOOLEAN :
              /\ Stayed \/ Moved(output, backup)
              /\ ~request.faults => OpensPending(output, backup, hadOriginal)
<1>1. ExtractTypeOK
  BY DEF Fitting
<1>2. PICK output \in FinalPaths, backup \in FinalPaths \cup {NoPath}, hadOriginal \in BOOLEAN :
        \E fs \in [Places -> FileData] : OpenStep(output, backup, hadOriginal, fs)
  BY <1>1, OpensDoes
<1>3. PICK fs \in [Places -> FileData] : OpenStep(output, backup, hadOriginal, fs)
  BY <1>2
<1>4. PICK P : P = Partial(next)
  OBVIOUS
<1>5. phase = "extracting" /\ pending = Closed /\ next \in Entries /\ P \in Places \ FinalPaths
      /\ UNCHANGED <<request, entries, triggered, undo, outcome, start>> /\ consented \subseteq consented'
  BY <1>3, <1>4 DEF OpenStep
<1>6. folder[P] = Absent /\ next # 0
  <2>1. next \in Nat \ {0}
    BY <1>5, BoundsAssumption DEF Entries
  <2> QED BY <1>4, <1>5, <2>1 DEF Fitting, Working, OwnPaths
<1>7. /\ backup = NoPath => \A q \in Places : fs[q] = folder[q]
      /\ backup # NoPath =>
           /\ backup \in FinalPaths /\ backup # output /\ request.mode = "rename_existing"
           /\ fs[output] = Absent /\ fs[backup] = folder[output] /\ folder[backup] = Absent
           /\ \A q \in Places \ {output, backup} : fs[q] = folder[q]
  BY <1>3, PathsDiffer DEF OpenStep, OpenFrom
<1>8. fs[P] = Absent
  BY <1>5, <1>6, <1>7
<1>9. backup = NoPath => hadOriginal = (folder[output] # Absent)
  BY <1>3, PathsDiffer DEF OpenStep, OpenFrom
<1>10. CASE Opened(output, backup, hadOriginal, fs)
  <2>1. folder'[P] = next /\ \A q \in Places \ {P} : folder'[q] = fs[q]
    BY <1>4, <1>5, <1>10 DEF Opened
  <2>2. output \in Places \ {P} /\ (backup # NoPath => backup \in Places \ {P})
    BY <1>5, <1>7, PathsDiffer
  <2>3. IF backup = NoPath THEN Stayed ELSE Moved(output, backup)
    <3>1. CASE backup = NoPath
      BY <1>4, <1>7, <2>1, <3>1 DEF Stayed
    <3>2. CASE backup # NoPath
      BY <1>4, <1>7, <2>1, <2>2, <3>2 DEF Moved
    <3> QED BY <3>1, <3>2
  <2>4. /\ pending'.entry = next /\ pending'.output = output
        /\ pending'.backup = backup /\ pending'.hadOriginal = hadOriginal
        /\ pending'.renamedOriginal = (backup # NoPath)
    BY <1>10 DEF Opened
  <2>5. pending' # Closed
    BY <1>6, <2>4 DEF Closed
  <2>6. OpensPending(output, backup, hadOriginal)
    BY <1>4, <1>9, <2>1, <2>3, <2>4, <2>5 DEF OpensPending
  <2>7. phase' \in {"extracting", "returned"}
    BY <1>5, <1>10 DEF Opened
  <2> QED BY <1>4, <1>5, <1>6, <2>1, <2>3, <2>6, <2>7
<1>11. CASE NotOpened(fs)
  <2>1. request.faults /\ folder' \in {folder, fs} /\ phase' = "returned"
    BY <1>11 DEF NotOpened
  <2>2. folder'[P] = Absent
    BY <1>6, <1>8, <2>1
  <2>3. Stayed \/ Moved(output, backup)
    <3>1. CASE folder' = folder \/ backup = NoPath
      BY <1>4, <1>7, <2>1, <3>1 DEF Stayed
    <3>2. CASE folder' = fs /\ backup # NoPath
      BY <1>4, <1>7, <3>2 DEF Moved
    <3> QED BY <2>1, <3>1, <3>2
  <2> QED BY <1>4, <1>5, <1>6, <2>1, <2>2, <2>3
<1> QED BY <1>3, <1>10, <1>11 DEF OpenStep

\* Unless originals are renamed, a file that was there before is under its name.
Homes ==
  request.mode # "rename_existing" =>
    \A m \in Names : folder[Final(m)] \in Names => folder[Final(m)] = m

\* A backup is of what its entry has overwritten.
BackupOwners ==
  \A i \in DOMAIN entries :
    /\ ~entries[i].renamedOriginal /\ entries[i].backup # NoPath
    /\ folder[entries[i].backup] \in Names
    => Final(folder[entries[i].backup]) = entries[i].output

Overwritten(n) == Final(n) \in consented /\ \E i \in DOMAIN entries : entries[i].output = Final(n)
Survive ==
  \A n \in Names : start[Final(n)] = n => (\E p \in Places : folder[p] = n) \/ Overwritten(n)

\* Opening an entry: an original that is moved is still there.
LEMMA OpenKeepsOwners ==
  ASSUME Fitting, Homes, BackupOwners, Survive, Opens
  PROVE  Homes' /\ BackupOwners' /\ Survive'
<1>1. /\ next \in Entries /\ Partial(next) \in Places \ FinalPaths /\ folder[Partial(next)] = Absent
      /\ phase = "extracting" /\ UNCHANGED <<request, entries, start>> /\ consented \subseteq consented'
      /\ ExtractTypeOK /\ EntriesFit
  BY OpenMoves DEF Fitting
<1>2. PICK output \in FinalPaths, backup \in FinalPaths \cup {NoPath} : Stayed \/ Moved(output, backup)
  BY OpenMoves
<1>3. PICK P : P = Partial(next)
  OBVIOUS
<1>4. output \in Places \ {P} /\ (backup # NoPath => backup \in Places \ {P}) /\ NoPath \notin FinalPaths
      /\ FinalPaths \subseteq Places
  BY <1>1, <1>3, PathsDiffer
<1>5. Homes'
  <2> SUFFICES ASSUME request.mode # "rename_existing", NEW m \in Names, folder'[Final(m)] \in Names
               PROVE  folder'[Final(m)] = m
    BY <1>1 DEF Homes
  <2>1. Final(m) \in Places \ {P}
    BY <1>1, <1>3, PathsDiffer
  <2>2. folder'[Final(m)] = folder[Final(m)]
    BY <1>2, <1>3, <2>1 DEF Stayed, Moved
  <2> QED BY <2>2 DEF Homes
<1>6. BackupOwners'
  <2> SUFFICES ASSUME NEW i \in DOMAIN entries, ~entries[i].renamedOriginal, entries[i].backup # NoPath,
                      folder'[entries[i].backup] \in Names
               PROVE  Final(folder'[entries[i].backup]) = entries[i].output
    BY <1>1 DEF BackupOwners
  <2>1. entries[i].backup = Backup(entries[i].entry) /\ entries[i].entry \in Entries
    BY <1>1, EntryTypes DEF EntriesFit
  <2>2. entries[i].backup \in Places \ FinalPaths /\ entries[i].backup # P
    BY <1>1, <1>3, <2>1, PathsDiffer
  <2>3. folder'[entries[i].backup] = folder[entries[i].backup]
    BY <1>2, <1>3, <1>4, <2>2 DEF Stayed, Moved
  <2> QED BY <2>3 DEF BackupOwners
<1>7. Survive'
  <2> SUFFICES ASSUME NEW n \in Names, start[Final(n)] = n
               PROVE  (\E p \in Places : folder'[p] = n) \/ Overwritten(n)'
    BY <1>1 DEF Survive
  <2>1. CASE Overwritten(n)
    BY <1>1, <2>1 DEF Overwritten
  <2>2. CASE \E p \in Places : folder[p] = n
    <3>1. PICK p \in Places : folder[p] = n
      BY <2>2
    <3>2. p # P /\ n # Absent
      BY <1>1, <1>3, <3>1, NamesAssumption
    <3>3. CASE Stayed
      BY <1>3, <3>1, <3>2, <3>3 DEF Stayed
    <3>4. CASE Moved(output, backup)
      <4>1. backup \in Places /\ folder'[backup] = folder[output] /\ p # backup
        BY <1>4, <3>1, <3>2, <3>4 DEF Moved
      <4>2. p # output => folder'[p] = folder[p]
        BY <1>3, <3>2, <3>4, <4>1 DEF Moved
      <4> QED BY <3>1, <4>1, <4>2
    <3> QED BY <1>2, <3>3, <3>4
  <2> QED BY <2>1, <2>2 DEF Survive
<1> QED BY <1>5, <1>6, <1>7

\* What the paths of the pending entry hold.
LEMMA PendingPaths ==
  ASSUME Fitting, ResultStep
  PROVE  /\ ExtractTypeOK /\ PendingFits /\ OwnPaths /\ EntriesFit /\ StartFits
         /\ pending.entry \in Entries /\ pending.entry # Absent /\ pending.entry \notin Names
         /\ folder[Partial(pending.entry)] = pending.entry /\ folder[Backup(pending.entry)] = Absent
         /\ pending.renamedOriginal = (pending.backup # NoPath)
         /\ pending.renamedOriginal \in BOOLEAN /\ pending.hadOriginal \in BOOLEAN
         /\ Replacing(pending) \in BOOLEAN
         /\ Replacing(pending) => /\ folder[pending.output] # Absent /\ pending.output \in consented
                                  /\ request.mode # "rename_existing" /\ pending.backup = NoPath
                                  /\ ~pending.renamedOriginal /\ pending.hadOriginal
                                  /\ pending.retain = (request.policy = "rollback")
         /\ ~Replacing(pending) => folder[pending.output] = Absent
         /\ pending.renamedOriginal =>
              /\ pending.backup \in FinalPaths /\ pending.backup \in Places
              /\ pending.backup # pending.output /\ pending.backup # Partial(pending.entry)
              /\ pending.backup # Backup(pending.entry)
              /\ request.mode = "rename_existing" /\ pending.hadOriginal /\ folder[pending.backup] # Absent
<1>1. phase = "extracting" /\ pending # Closed /\ pending \in PendingType /\ pending.entry \in Entries
      /\ Partial(pending.entry) \in Places \ FinalPaths /\ Backup(pending.entry) \in Places \ FinalPaths
      /\ pending.backup \in FinalPaths \cup {NoPath} /\ FinalPaths \subseteq Places /\ NoPath \notin Places
  BY DEF ResultStep
<1>2. ExtractTypeOK /\ PendingFits /\ OwnPaths /\ EntriesFit /\ StartFits
  BY <1>1 DEF Fitting, Working
<1>3. pending.renamedOriginal \in BOOLEAN /\ pending.hadOriginal \in BOOLEAN
  BY <1>1 DEF PendingType
<1>4. pending.entry # Absent /\ pending.entry \notin Names
  BY <1>1, NamesAssumption
<1>5. folder[Backup(pending.entry)] = Absent
  BY <1>1, <1>2 DEF OwnPaths
<1>6. /\ folder[Partial(pending.entry)] = pending.entry
      /\ pending.renamedOriginal = (pending.backup # NoPath)
      /\ pending.retain = (request.policy = "rollback" /\ Replacing(pending))
      /\ pending.renamedOriginal =>
           /\ pending.hadOriginal /\ request.mode = "rename_existing"
           /\ pending.backup # pending.output /\ folder[pending.backup] # Absent
      /\ Replacing(pending) => /\ folder[pending.output] # Absent
                               /\ pending.output \in consented /\ request.mode # "rename_existing"
      /\ ~Replacing(pending) => folder[pending.output] = Absent
  BY <1>1, <1>2 DEF PendingFits
<1>7. Replacing(pending) \in BOOLEAN /\ (Replacing(pending) => pending.backup = NoPath /\ pending.hadOriginal)
  BY <1>3 DEF Replacing
<1>8. Replacing(pending) => pending.retain = (request.policy = "rollback")
  BY <1>6
<1>9. pending.renamedOriginal =>
        /\ pending.backup \in FinalPaths /\ pending.backup \in Places
        /\ pending.backup # Partial(pending.entry) /\ pending.backup # Backup(pending.entry)
  BY <1>1, <1>6
<1> QED BY <1>1, <1>2, <1>3, <1>4, <1>5, <1>6, <1>7, <1>8, <1>9

\* The entry that a commit adds.
Added(e, backup) ==
  /\ e.entry = pending.entry /\ e.output = pending.output /\ e.hadOriginal = pending.hadOriginal
  /\ e.renamedOriginal = pending.renamedOriginal
  /\ e.backup = IF backup THEN Backup(pending.entry) ELSE pending.backup
  /\ DOMAIN entries' = 1..Len(entries) + 1 /\ Len(entries') = Len(entries) + 1
  /\ DOMAIN entries = 1..Len(entries) /\ Len(entries) \in Nat
  /\ Len(entries) + 1 \in DOMAIN entries' /\ Len(entries) + 1 \notin DOMAIN entries
  /\ DOMAIN entries \subseteq DOMAIN entries'
  /\ entries'[Len(entries) + 1] = e
  /\ \A i \in DOMAIN entries : entries'[i] = entries[i]
  /\ \A i \in DOMAIN entries' : i \in DOMAIN entries \/ i = Len(entries) + 1

\* A commit appends its entry.
LEMMA CommitAdds ==
  ASSUME ExtractTypeOK, NEW backup, CommitStep(backup)
  PROVE  \E e : Added(e, backup)
<1>1. entries \in Seq(CommittedType)
  BY DEF ExtractTypeOK
<1>2. PICK e : e = [entry |-> pending.entry, output |-> pending.output,
                    backup |-> IF backup THEN Backup(pending.entry) ELSE pending.backup,
                    hadOriginal |-> pending.hadOriginal, renamedOriginal |-> pending.renamedOriginal]
  OBVIOUS
<1>3. entries' = Append(entries, e)
  BY <1>2 DEF CommitStep
<1>4. /\ e.entry = pending.entry /\ e.output = pending.output /\ e.hadOriginal = pending.hadOriginal
      /\ e.renamedOriginal = pending.renamedOriginal
      /\ e.backup = IF backup THEN Backup(pending.entry) ELSE pending.backup
  BY <1>2
<1>5. PICK len : len = Len(entries) /\ len \in Nat
  BY <1>1
<1>6. /\ DOMAIN entries' = 1..len + 1 /\ Len(entries') = len + 1
      /\ DOMAIN entries = 1..len
      /\ entries'[len + 1] = e
      /\ \A i \in DOMAIN entries : entries'[i] = entries[i]
  BY <1>1, <1>3, <1>5
<1>7. /\ len + 1 \in DOMAIN entries' /\ len + 1 \notin DOMAIN entries
      /\ DOMAIN entries \subseteq DOMAIN entries'
      /\ \A i \in DOMAIN entries' : i \in DOMAIN entries \/ i = len + 1
  BY <1>5, <1>6
<1> QED BY <1>4, <1>5, <1>6, <1>7 DEF Added

\* A commit: what it overwrites is in its backup, or the user let it go.
LEMMA CommitKeepsOwners ==
  ASSUME Fitting, Homes, BackupOwners, Survive, NEW backup \in BOOLEAN, CommitStep(backup)
  PROVE  Homes' /\ BackupOwners' /\ Survive'
<1>1. ResultStep
  BY DEF CommitStep
<1>2. PICK k, o, P, B : k = pending.entry /\ o = pending.output /\ P = Partial(k) /\ B = Backup(k)
  OBVIOUS
<1>3. /\ ExtractTypeOK /\ EntriesFit
      /\ k \in Entries /\ k # Absent /\ k \notin Names /\ folder[P] = k /\ folder[B] = Absent
      /\ pending.renamedOriginal = (pending.backup # NoPath)
      /\ Replacing(pending) \in BOOLEAN
      /\ Replacing(pending) => folder[o] # Absent /\ o \in consented /\ request.mode # "rename_existing"
                               /\ pending.backup = NoPath
      /\ ~Replacing(pending) => folder[o] = Absent
  BY <1>1, <1>2, PendingPaths
<1>4. /\ UNCHANGED <<request, consented, start>>
      /\ P \in Places \ FinalPaths /\ B \in Places \ FinalPaths /\ P # B /\ o \in FinalPaths /\ o \in Places
      /\ FinalPaths \subseteq Places /\ pending # Closed
  BY <1>1, <1>2 DEF ResultStep
<1>5. /\ \A q \in Places \ {o, P, B} : folder'[q] = folder[q]
      /\ folder'[o] \in {k, Absent}
      /\ ~Replacing(pending) => ~backup
      /\ Replacing(pending) => folder'[B] = folder[o] \/ folder'[B] = Absent
  <2>1. /\ \A q \in Places \ {o, P, B} : folder'[q] = folder[q]
        /\ ~Replacing(pending) => ~backup /\ (folder'[o] = k \/ folder'[o] = folder[o])
        /\ Replacing(pending) => /\ folder'[o] = k
                                 /\ folder'[B] = folder[o] \/ folder'[B] = Absent
    BY <1>2 DEF CommitStep
  <2> QED BY <1>3, <2>1
<1>6. PICK e : Added(e, backup)
  BY <1>3, CommitAdds
<1>7. Homes'
  <2> SUFFICES ASSUME request.mode # "rename_existing", NEW m \in Names, folder'[Final(m)] \in Names
               PROVE  folder'[Final(m)] = m
    BY <1>4 DEF Homes
  <2>1. Final(m) \in Places \ {P, B} /\ Final(m) # o
    BY <1>3, <1>4, <1>5, NamesAssumption, PathsDiffer
  <2> QED BY <1>5, <2>1 DEF Homes
<1>8. \A m \in Names : Replacing(pending) /\ folder[o] = m => o = Final(m)
  <2> SUFFICES ASSUME NEW m \in Names, Replacing(pending), folder[o] = m PROVE o = Final(m)
    OBVIOUS
  <2>1. PICK n \in Names : o = Final(n)
    BY <1>4 DEF FinalPaths
  <2> QED BY <1>3, <2>1 DEF Homes
<1>9. BackupOwners'
  <2> SUFFICES ASSUME NEW i \in DOMAIN entries', ~entries'[i].renamedOriginal, entries'[i].backup # NoPath,
                      folder'[entries'[i].backup] \in Names
               PROVE  Final(folder'[entries'[i].backup]) = entries'[i].output
    BY DEF BackupOwners
  <2>1. CASE i \in DOMAIN entries
    <3>1. entries'[i] = entries[i]
      BY <1>6, <2>1 DEF Added
    <3>2. /\ entries[i].backup = Backup(entries[i].entry)
          /\ entries[i].entry < k /\ entries[i].entry \in Nat /\ entries[i].entry \in Entries
      BY <1>2, <1>3, <1>4, <2>1, <3>1, EntryTypes DEF EntriesFit
    <3>3. entries[i].entry # k
      BY <1>3, <3>2, BoundsAssumption DEF Entries
    <3>4. entries[i].backup \in Places \ {o, P, B}
      BY <1>2, <1>3, <1>4, <3>2, <3>3, PathsDiffer
    <3> QED BY <1>5, <2>1, <3>1, <3>4 DEF BackupOwners
  <2>2. CASE i = Len(entries) + 1
    <3>1. entries'[i] = e /\ e.output = o /\ e.renamedOriginal = pending.renamedOriginal
          /\ e.backup = IF backup THEN B ELSE pending.backup
      BY <1>2, <1>6, <2>2 DEF Added
    <3>2. backup /\ e.backup = B
      BY <1>3, <3>1
    <3>3. Replacing(pending) /\ folder'[B] \in Names
      BY <1>5, <3>1, <3>2
    <3>4. folder'[B] = folder[o]
      BY <1>5, <3>3, NamesAssumption
    <3> QED BY <1>8, <3>1, <3>2, <3>3, <3>4
  <2> QED BY <1>6, <2>1, <2>2 DEF Added
<1>10. Survive'
  <2> SUFFICES ASSUME NEW n \in Names, start[Final(n)] = n
               PROVE  (\E p \in Places : folder'[p] = n) \/ Overwritten(n)'
    BY <1>4 DEF Survive
  <2>1. CASE Overwritten(n)
    <3>1. PICK i \in DOMAIN entries : entries[i].output = Final(n)
      BY <2>1 DEF Overwritten
    <3>2. i \in DOMAIN entries' /\ entries'[i].output = Final(n)
      BY <1>6, <3>1 DEF Added
    <3> QED BY <1>4, <2>1, <3>2 DEF Overwritten
  <2>2. CASE \E p \in Places : folder[p] = n
    <3>1. PICK p \in Places : folder[p] = n
      BY <2>2
    <3>2. n # Absent /\ p # P /\ p # B
      BY <1>3, <3>1, NamesAssumption
    <3>3. CASE p # o
      BY <1>5, <3>1, <3>2, <3>3
    <3>4. CASE p = o
      <4>1. Replacing(pending) /\ o = Final(n) /\ o \in consented'
        BY <1>3, <1>4, <1>8, <3>1, <3>2, <3>4
      <4>2. Len(entries) + 1 \in DOMAIN entries' /\ entries'[Len(entries) + 1].output = o
        BY <1>2, <1>6 DEF Added
      <4> QED BY <4>1, <4>2 DEF Overwritten
    <3> QED BY <3>3, <3>4
  <2> QED BY <2>1, <2>2 DEF Survive
<1> QED BY <1>7, <1>9, <1>10

\* A drop: the original gets its name back, or stays where it was put.
LEMMA DropKeepsOwners ==
  ASSUME Fitting, Homes, BackupOwners, Survive, DropStep
  PROVE  Homes' /\ BackupOwners' /\ Survive'
<1>1. ResultStep
  BY DEF DropStep
<1>2. PICK k, o, P, B, b : k = pending.entry /\ o = pending.output /\ P = Partial(k) /\ B = Backup(k)
                           /\ b = pending.backup
  OBVIOUS
<1>3. /\ ExtractTypeOK /\ EntriesFit
      /\ k \in Entries /\ k # Absent /\ k \notin Names /\ folder[P] = k /\ folder[B] = Absent
      /\ pending.renamedOriginal = (b # NoPath) /\ pending.renamedOriginal \in BOOLEAN
      /\ Replacing(pending) \in BOOLEAN
      /\ Replacing(pending) => folder[o] # Absent /\ ~pending.renamedOriginal
      /\ ~Replacing(pending) => folder[o] = Absent
      /\ pending.renamedOriginal => b \in FinalPaths /\ b # o /\ request.mode = "rename_existing"
  BY <1>1, <1>2, PendingPaths
<1>4. /\ UNCHANGED <<request, consented, start, entries>>
      /\ P \in Places \ FinalPaths /\ B \in Places \ FinalPaths /\ P # B /\ o \in FinalPaths /\ o \in Places
      /\ FinalPaths \subseteq Places /\ NoPath \notin Places /\ pending # Closed
  BY <1>1, <1>2 DEF ResultStep, DropStep
<1>5. /\ \A q \in Places \ {o, b, P, B} : folder'[q] = folder[q]
      /\ folder'[P] \in {k, Absent}
      /\ Replacing(pending) => \/ folder'[o] = folder[o] /\ folder'[B] = folder[B]
                               \/ folder'[o] = Absent /\ folder'[B] = folder[o]
      /\ ~Replacing(pending) => folder'[B] = folder[B]
      /\ ~Replacing(pending) /\ ~pending.renamedOriginal => folder'[o] \in {Absent, k}
      /\ pending.renamedOriginal =>
           \/ folder'[o] = folder[b] /\ folder'[b] = Absent
           \/ folder'[b] = folder[b] /\ folder'[o] \in {Absent, k}
  BY <1>2 DEF DropStep
<1>6. Homes'
  <2> SUFFICES ASSUME request.mode # "rename_existing", NEW m \in Names, folder'[Final(m)] \in Names
               PROVE  folder'[Final(m)] = m
    BY <1>4 DEF Homes
  <2>1. Final(m) \in Places \ {P, B, b} /\ ~pending.renamedOriginal
    <3>1. ~pending.renamedOriginal /\ b = NoPath
      BY <1>3
    <3>2. Final(m) \in FinalPaths
      BY PathsDiffer
    <3> QED BY <1>4, <3>1, <3>2
  <2>2. folder'[Final(m)] = folder[Final(m)]
    <3>1. CASE Final(m) # o
      BY <1>5, <2>1, <3>1
    <3>2. CASE Final(m) = o
      BY <1>3, <1>5, <2>1, <3>2, NamesAssumption
    <3> QED BY <3>1, <3>2
  <2> QED BY <2>2 DEF Homes
<1>7. BackupOwners'
  <2> SUFFICES ASSUME NEW i \in DOMAIN entries, ~entries[i].renamedOriginal, entries[i].backup # NoPath,
                      folder'[entries[i].backup] \in Names
               PROVE  Final(folder'[entries[i].backup]) = entries[i].output
    BY <1>4 DEF BackupOwners
  <2>1. /\ entries[i].backup = Backup(entries[i].entry)
        /\ entries[i].entry < k /\ entries[i].entry \in Nat /\ entries[i].entry \in Entries
    BY <1>2, <1>3, <1>4, EntryTypes DEF EntriesFit
  <2>2. entries[i].entry # k
    BY <1>3, <2>1, BoundsAssumption DEF Entries
  <2>3. entries[i].backup \in Places \ {o, P, B} /\ entries[i].backup \notin FinalPaths
    BY <1>2, <1>3, <1>4, <2>1, <2>2, PathsDiffer
  <2>4. entries[i].backup # b
    BY <1>3, <1>4, <2>3
  <2> QED BY <1>5, <2>3, <2>4 DEF BackupOwners
<1>8. Survive'
  <2> SUFFICES ASSUME NEW n \in Names, start[Final(n)] = n
               PROVE  (\E p \in Places : folder'[p] = n) \/ Overwritten(n)'
    BY <1>4 DEF Survive
  <2>1. CASE Overwritten(n)
    BY <1>4, <2>1 DEF Overwritten
  <2>2. CASE \E p \in Places : folder[p] = n
    <3>1. PICK p \in Places : folder[p] = n
      BY <2>2
    <3>2. n # Absent /\ p # P /\ p # B
      BY <1>3, <3>1, NamesAssumption
    <3>3. CASE p # o /\ p # b
      BY <1>5, <3>1, <3>2, <3>3
    <3>4. CASE p = o
      <4>1. Replacing(pending)
        BY <1>3, <3>1, <3>2, <3>4
      <4> QED BY <1>4, <1>5, <3>1, <3>4, <4>1
    <3>5. CASE p = b
      <4>1. pending.renamedOriginal
        BY <1>3, <1>4, <3>5
      <4> QED BY <1>4, <1>5, <3>1, <3>5, <4>1
    <3> QED BY <3>3, <3>4, <3>5
  <2> QED BY <2>1, <2>2 DEF Survive
<1> QED BY <1>6, <1>7, <1>8

-----------------------------------------------------------------------------
(* A rollback retraces the run.  trail[i] is the directory after the first *)
(* i of the entries; without faults undoing an entry leads from one to the *)
(* one before.                                                             *)

Keeps(fs) == \A n \in Names : start[Final(n)] = n => \E p \in Places : fs[p] = n
Tidy(fs) == \A p \in Places \ FinalPaths : fs[p] # Absent => p \in OverwriteBackups

\* The directory without the pending entry.
Without(fs) ==
  /\ pending = Closed => fs = folder
  /\ pending # Closed =>
       /\ \A q \in Places \ {pending.output, pending.backup, Partial(pending.entry)} : fs[q] = folder[q]
       /\ fs[Partial(pending.entry)] = Absent
       /\ IF pending.renamedOriginal
          THEN fs[pending.output] = folder[pending.backup] /\ fs[pending.backup] = Absent
          ELSE fs[pending.output] = folder[pending.output]

LeadsBack(trail) ==
  /\ trail \in [0..Len(entries) -> [Places -> FileData]]
  /\ trail[0] = start
  /\ \A i \in DOMAIN entries :
       Undone(trail[i], entries[i], FALSE, FALSE) = [folder |-> trail[i - 1], ok |-> TRUE]
  /\ \A i \in 0..Len(entries) : Keeps(trail[i]) /\ Tidy(trail[i])

OnTrail(trail) ==
  /\ LeadsBack(trail)
  /\ Working => Without(trail[Len(entries)])
  /\ phase = "rolling_back" => undo.ok /\ folder = trail[undo.left]

Retraces ==
  ~request.faults /\ request.policy = "rollback" /\ phase # "finished" => \E trail : OnTrail(trail)

\* Undoing the entry that was just committed leads back to where it began.
LEMMA CommitUndone ==
  ASSUME Fitting, ~request.faults, request.policy = "rollback",
         NEW backup \in BOOLEAN, CommitStep(backup), NEW e, Added(e, backup),
         NEW fs \in [Places -> FileData], Without(fs)
  PROVE  /\ Undone(folder', e, FALSE, FALSE) = [folder |-> fs, ok |-> TRUE]
         /\ Keeps(fs) => Keeps(folder')
<1>1. ResultStep
  BY DEF CommitStep
<1>2. PICK k, o, P, B, b : k = pending.entry /\ o = pending.output /\ P = Partial(k) /\ B = Backup(k)
                           /\ b = pending.backup
  OBVIOUS
<1>3. /\ k \in Entries /\ k # Absent /\ k \notin Names /\ folder[P] = k /\ folder[B] = Absent
      /\ pending.renamedOriginal = (b # NoPath) /\ pending.renamedOriginal \in BOOLEAN
      /\ pending.hadOriginal \in BOOLEAN /\ Replacing(pending) \in BOOLEAN
      /\ Replacing(pending) => folder[o] # Absent /\ b = NoPath /\ ~pending.renamedOriginal
                               /\ pending.hadOriginal /\ pending.retain
      /\ ~Replacing(pending) => folder[o] = Absent
      /\ pending.renamedOriginal => b \in FinalPaths /\ b \in Places /\ b # o /\ b # P /\ b # B
                                    /\ pending.hadOriginal /\ folder[b] # Absent
  BY <1>1, <1>2, PendingPaths
<1>4. /\ P \in Places \ FinalPaths /\ B \in Places \ FinalPaths /\ P # B /\ o \in FinalPaths /\ o \in Places
      /\ FinalPaths \subseteq Places /\ NoPath \notin Places /\ pending # Closed
      /\ folder' \in [Places -> FileData]
  BY <1>1, <1>2 DEF ResultStep
<1>5. e.output = o /\ e.hadOriginal = pending.hadOriginal /\ e.backup = IF backup THEN B ELSE b
  BY <1>2 DEF Added
<1>6. PICK g : g = Removed(folder', o)
  OBVIOUS
<1>7. g \in [Places -> FileData] /\ \A q \in Places : g[q] = IF q = o THEN Absent ELSE folder'[q]
  BY <1>4, <1>6, Calls
<1>8. /\ \A q \in Places \ {o, b, P} : fs[q] = folder[q]
      /\ fs[P] = Absent
      /\ pending.renamedOriginal => fs[o] = folder[b] /\ fs[b] = Absent
      /\ ~pending.renamedOriginal => fs[o] = folder[o]
  BY <1>2, <1>4 DEF Without
<1>9. \A q \in Places \ {o, P, B} : folder'[q] = folder[q]
  BY <1>2 DEF CommitStep
<1>10. CASE ~Replacing(pending)
  <2>1. ~backup /\ folder'[B] = Absent /\ folder'[o] = k /\ folder'[P] = Absent
    BY <1>2, <1>3, <1>10 DEF CommitStep
  <2>2. CASE ~pending.renamedOriginal
    <3>1. ~pending.hadOriginal /\ b = NoPath
      BY <1>2, <1>3, <1>10, <2>2 DEF Replacing
    <3>2. \A q \in Places : g[q] = fs[q]
      BY <1>3, <1>4, <1>7, <1>8, <1>9, <1>10, <2>1, <2>2, <3>1
    <3>3. g = fs
      BY <1>7, <3>2
    <3>4. Undone(folder', e, FALSE, FALSE) = [folder |-> g, ok |-> TRUE]
      BY <1>5, <1>6, <3>1 DEF Undone
    <3>5. Keeps(fs) => Keeps(folder')
      <4> SUFFICES ASSUME Keeps(fs), NEW n \in Names, start[Final(n)] = n PROVE \E p \in Places : folder'[p] = n
        BY DEF Keeps
      <4>1. PICK p \in Places : fs[p] = n
        BY DEF Keeps
      <4>2. p # o
        BY <1>3, <1>8, <1>10, <2>2, <4>1, NamesAssumption
      <4> QED BY <1>7, <3>3, <4>1, <4>2
    <3> QED BY <3>3, <3>4, <3>5
  <2>3. CASE pending.renamedOriginal
    <3>1. PICK h : h = Renamed(g, b, o)
      OBVIOUS
    <3>2. h \in [Places -> FileData]
          /\ \A q \in Places : h[q] = IF q = b THEN Absent ELSE IF q = o THEN g[b] ELSE g[q]
      BY <1>3, <1>4, <1>7, <2>3, <3>1, Calls
    <3>3. g[b] = folder[b] /\ folder'[b] = folder[b]
      BY <1>3, <1>7, <1>9, <2>3
    <3>4. \A q \in Places : h[q] = fs[q]
      <4> SUFFICES ASSUME NEW q \in Places PROVE h[q] = fs[q]
        OBVIOUS
      <4>1. CASE q = b \/ q = o
        BY <1>3, <1>8, <2>3, <3>2, <3>3, <4>1
      <4>2. CASE q # b /\ q # o
        BY <1>3, <1>7, <1>8, <1>9, <2>1, <3>2, <4>2
      <4> QED BY <4>1, <4>2
    <3>5. h = fs
      BY <3>2, <3>4
    <3>6. e.hadOriginal = TRUE /\ e.backup = b /\ b # NoPath /\ g[b] # Absent
      BY <1>3, <1>5, <2>1, <2>3, <3>3
    <3>7. Undone(folder', e, FALSE, FALSE) = [folder |-> h, ok |-> TRUE]
      BY <1>5, <1>6, <3>1, <3>6 DEF Undone
    <3>8. Keeps(fs) => Keeps(folder')
      <4> SUFFICES ASSUME Keeps(fs), NEW n \in Names, start[Final(n)] = n PROVE \E p \in Places : folder'[p] = n
        BY DEF Keeps
      <4>1. PICK p \in Places : fs[p] = n
        BY DEF Keeps
      <4>2. n # Absent
        BY NamesAssumption
      <4>3. CASE p = o
        BY <1>3, <1>8, <2>3, <3>3, <4>1, <4>3
      <4>4. CASE p # o
        BY <1>7, <3>2, <3>5, <4>1, <4>2, <4>4
      <4> QED BY <4>3, <4>4
    <3> QED BY <3>5, <3>7, <3>8
  <2> QED BY <1>3, <2>2, <2>3
<1>11. CASE Replacing(pending)
  <2>1. backup /\ folder'[o] = k /\ folder'[P] = Absent /\ folder'[B] = folder[o]
    BY <1>2, <1>3, <1>11 DEF CommitStep
  <2>2. PICK h : h = Renamed(g, B, o)
    OBVIOUS
  <2>3. h \in [Places -> FileData]
        /\ \A q \in Places : h[q] = IF q = B THEN Absent ELSE IF q = o THEN g[B] ELSE g[q]
    BY <1>4, <1>7, <2>2, Calls
  <2>4. g[B] = folder[o] /\ folder[o] # Absent
    BY <1>3, <1>4, <1>7, <1>11, <2>1
  <2>5. \A q \in Places : h[q] = fs[q]
    <3> SUFFICES ASSUME NEW q \in Places PROVE h[q] = fs[q]
      OBVIOUS
    <3>1. CASE q = B
      BY <1>3, <1>4, <1>8, <1>11, <2>3, <3>1
    <3>2. CASE q = o
      BY <1>3, <1>4, <1>8, <1>11, <2>3, <2>4, <3>2
    <3>3. CASE q # o /\ q # B
      BY <1>3, <1>4, <1>7, <1>8, <1>9, <1>11, <2>1, <2>3, <3>3
    <3> QED BY <3>1, <3>2, <3>3
  <2>6. h = fs
    BY <2>3, <2>5
  <2>7. e.hadOriginal = TRUE /\ e.backup = B /\ B # NoPath /\ g[B] # Absent
    BY <1>3, <1>4, <1>5, <1>11, <2>1, <2>4
  <2>8. Undone(folder', e, FALSE, FALSE) = [folder |-> h, ok |-> TRUE]
    BY <1>5, <1>6, <2>2, <2>7 DEF Undone
  <2>9. Keeps(fs) => Keeps(folder')
    <3> SUFFICES ASSUME Keeps(fs), NEW n \in Names, start[Final(n)] = n PROVE \E p \in Places : folder'[p] = n
      BY DEF Keeps
    <3>1. PICK p \in Places : fs[p] = n
      BY DEF Keeps
    <3>2. n # Absent
      BY NamesAssumption
    <3>3. CASE p = o
      BY <1>3, <1>4, <1>8, <1>11, <2>1, <3>1, <3>3
    <3>4. CASE p # o
      BY <1>7, <2>3, <2>6, <3>1, <3>2, <3>4
    <3> QED BY <3>3, <3>4
  <2> QED BY <2>6, <2>8, <2>9
<1> QED BY <1>3, <1>10, <1>11

\* The backups that are kept become more.
LEMMA BackupsGrow ==
  ASSUME Fitting, NEW backup \in BOOLEAN, CommitStep(backup)
  PROVE  /\ OverwriteBackups \subseteq OverwriteBackups'
         /\ backup => Backup(pending.entry) \in OverwriteBackups'
<1>1. ResultStep
  BY DEF CommitStep
<1>2. PICK e : Added(e, backup)
  BY CommitAdds DEF Fitting
<1>3. OverwriteBackups \subseteq OverwriteBackups'
  <2> SUFFICES ASSUME NEW p \in OverwriteBackups PROVE p \in OverwriteBackups'
    OBVIOUS
  <2>1. PICK i \in DOMAIN entries : entries[i].hadOriginal /\ ~entries[i].renamedOriginal
                                    /\ entries[i].backup # NoPath /\ p = entries[i].backup
    BY DEF OverwriteBackups
  <2>2. i \in DOMAIN entries' /\ entries'[i] = entries[i]
    BY <1>2, <2>1 DEF Added
  <2> QED BY <2>1, <2>2 DEF OverwriteBackups
<1>4. ASSUME backup PROVE Backup(pending.entry) \in OverwriteBackups'
  <2>1. PICK i : i = Len(entries) + 1
    OBVIOUS
  <2>2. i \in DOMAIN entries' /\ entries'[i] = e /\ e.backup = Backup(pending.entry)
        /\ e.hadOriginal = pending.hadOriginal /\ e.renamedOriginal = pending.renamedOriginal
    BY <1>2, <1>4, <2>1 DEF Added
  <2>3. Replacing(pending)
    BY <1>4 DEF CommitStep
  <2>4. pending.hadOriginal /\ ~pending.renamedOriginal
    BY <1>1, <2>3, PendingPaths
  <2>5. e.backup # NoPath
    BY <1>1, <2>2 DEF ResultStep
  <2> QED BY <2>2, <2>4, <2>5 DEF OverwriteBackups
<1> QED BY <1>3, <1>4

-----------------------------------------------------------------------------
(* What lies around and what is reported, on a file system that works.     *)

Clean ==
  \A p \in Places \ FinalPaths :
    folder[p] # Absent => p \in OverwriteBackups \/ (pending # Closed /\ p = Partial(pending.entry))

Replaced(i) ==
  \E j \in DOMAIN entries : i < j /\ entries[j].output = entries[i].output /\ ~entries[j].renamedOriginal
Reported ==
  \A i \in DOMAIN entries :
    IF request.mode = "rename_existing"
    THEN \E p \in FinalPaths : folder[p] = entries[i].entry
    ELSE folder[entries[i].output] = entries[i].entry \/ Replaced(i)

\* Opening an entry adds its own partial file, and moves what was reported with its name.
LEMMA OpenKeepsClean ==
  ASSUME Fitting, ~request.faults, Clean, Reported, Opens
  PROVE  Clean' /\ Reported'
<1>1. /\ pending = Closed /\ next \in Entries /\ Partial(next) \in Places \ FinalPaths
      /\ folder[Partial(next)] = Absent
      /\ UNCHANGED <<request, entries>> /\ ExtractTypeOK
  BY OpenMoves DEF Fitting
<1>2. PICK output \in FinalPaths, backup \in FinalPaths \cup {NoPath}, hadOriginal \in BOOLEAN :
        OpensPending(output, backup, hadOriginal)
  BY OpenMoves
<1>3. PICK P : P = Partial(next)
  OBVIOUS
<1>4. /\ pending' # Closed /\ Partial(pending'.entry) = P /\ OverwriteBackups' = OverwriteBackups
      /\ Stayed \/ Moved(output, backup)
  BY <1>1, <1>2, <1>3 DEF OpensPending, OverwriteBackups
<1>5. output \in Places \ {P} /\ FinalPaths \subseteq Places /\ P \notin FinalPaths
  BY <1>1, <1>3, PathsDiffer
<1>6. Clean'
  <2> SUFFICES ASSUME NEW p \in Places \ FinalPaths, folder'[p] # Absent, p # P
               PROVE  p \in OverwriteBackups
    BY <1>4 DEF Clean
  <2>1. folder'[p] = folder[p]
    BY <1>3, <1>4 DEF Stayed, Moved
  <2> QED BY <1>1, <2>1 DEF Clean
<1>7. Reported'
  <2> SUFFICES ASSUME NEW i \in DOMAIN entries
               PROVE  IF request.mode = "rename_existing"
                      THEN \E p \in FinalPaths : folder'[p] = entries[i].entry
                      ELSE folder'[entries[i].output] = entries[i].entry \/ Replaced(i)
    BY <1>1 DEF Reported, Replaced
  <2>1. entries[i].entry # Absent /\ entries[i].output \in FinalPaths
    BY <1>1, EntryTypes, NamesAssumption
  <2>2. CASE request.mode = "rename_existing"
    <3>1. PICK p \in FinalPaths : folder[p] = entries[i].entry
      BY <2>2 DEF Reported
    <3>2. p \in Places \ {P}
      BY <1>5, <3>1
    <3>3. CASE Stayed
      BY <1>3, <2>2, <3>1, <3>2, <3>3 DEF Stayed
    <3>4. CASE Moved(output, backup)
      <4>1. p # backup
        BY <2>1, <3>1, <3>4 DEF Moved
      <4>2. p # output => folder'[p] = folder[p]
        BY <1>3, <3>2, <3>4, <4>1 DEF Moved
      <4>3. backup \in FinalPaths /\ folder'[backup] = folder[output]
        BY <3>4 DEF Moved
      <4> QED BY <2>2, <3>1, <4>2, <4>3
    <3> QED BY <1>4, <3>3, <3>4
  <2>3. CASE request.mode # "rename_existing"
    <3>1. Stayed
      BY <1>4, <2>3 DEF Moved
    <3>2. folder'[entries[i].output] = folder[entries[i].output]
      BY <1>3, <1>5, <2>1, <3>1 DEF Stayed
    <3> QED BY <2>3, <3>2 DEF Reported
  <2> QED BY <2>2, <2>3
<1> QED BY <1>6, <1>7

\* A commit leaves the backup that a rollback needs, and covers what it overwrites.
LEMMA CommitKeepsClean ==
  ASSUME Fitting, ~request.faults, Clean, Reported, NEW backup \in BOOLEAN, CommitStep(backup)
  PROVE  Clean' /\ Reported'
<1>1. ResultStep
  BY DEF CommitStep
<1>2. PICK k, o, P, B : k = pending.entry /\ o = pending.output /\ P = Partial(k) /\ B = Backup(k)
  OBVIOUS
<1>3. /\ ExtractTypeOK /\ k \in Entries /\ k # Absent /\ folder[B] = Absent
      /\ Replacing(pending) \in BOOLEAN
      /\ Replacing(pending) => ~pending.renamedOriginal /\ request.mode # "rename_existing"
      /\ ~Replacing(pending) => folder[o] = Absent
  BY <1>1, <1>2, PendingPaths
<1>4. /\ P \in Places \ FinalPaths /\ B \in Places \ FinalPaths /\ P # B /\ o \in FinalPaths /\ o \in Places
      /\ FinalPaths \subseteq Places /\ pending' = Closed /\ UNCHANGED request
  BY <1>1, <1>2 DEF ResultStep
<1>5. /\ \A q \in Places \ {o, P, B} : folder'[q] = folder[q]
      /\ folder'[o] = k /\ folder'[P] = Absent
      /\ backup \/ folder'[B] = Absent
  <2>1. CASE Replacing(pending)
    BY <1>2, <2>1 DEF CommitStep
  <2>2. CASE ~Replacing(pending)
    BY <1>2, <1>3, <2>2 DEF CommitStep
  <2> QED BY <1>3, <2>1, <2>2
<1>6. PICK e : Added(e, backup)
  BY <1>3, CommitAdds
<1>7. OverwriteBackups \subseteq OverwriteBackups' /\ (backup => B \in OverwriteBackups')
  BY <1>2, BackupsGrow
<1>8. Clean'
  <2> SUFFICES ASSUME NEW p \in Places \ FinalPaths, folder'[p] # Absent
               PROVE  p \in OverwriteBackups'
    BY <1>4 DEF Clean
  <2>1. p # P /\ p # o
    BY <1>4, <1>5
  <2>2. CASE p = B
    BY <1>5, <1>7, <2>2
  <2>3. CASE p # B
    BY <1>2, <1>5, <1>7, <2>1, <2>3 DEF Clean
  <2> QED BY <2>2, <2>3
<1>9. Reported'
  <2> SUFFICES ASSUME NEW i \in DOMAIN entries'
               PROVE  IF request.mode = "rename_existing"
                      THEN \E p \in FinalPaths : folder'[p] = entries'[i].entry
                      ELSE folder'[entries'[i].output] = entries'[i].entry \/ Replaced(i)'
    BY <1>4 DEF Reported
  <2>1. CASE i = Len(entries) + 1
    BY <1>2, <1>4, <1>5, <1>6, <2>1 DEF Added
  <2>2. CASE i \in DOMAIN entries
    <3>1. entries'[i] = entries[i] /\ i < Len(entries) + 1
      BY <1>6, <2>2 DEF Added
    <3>2. entries[i].entry # Absent /\ entries[i].output \in FinalPaths
      BY <1>3, <2>2, EntryTypes, NamesAssumption
    <3>3. CASE request.mode = "rename_existing"
      <4>1. PICK p \in FinalPaths : folder[p] = entries[i].entry
        BY <2>2, <3>3 DEF Reported
      <4>2. p # o
        BY <1>3, <3>2, <3>3, <4>1
      <4> QED BY <1>4, <1>5, <3>1, <3>3, <4>1, <4>2
    <3>4. CASE request.mode # "rename_existing" /\ Replaced(i)
      <4>1. PICK j \in DOMAIN entries : i < j /\ entries[j].output = entries[i].output
                                        /\ ~entries[j].renamedOriginal
        BY <3>4 DEF Replaced
      <4>2. j \in DOMAIN entries' /\ entries'[j] = entries[j]
        BY <1>6, <4>1 DEF Added
      <4>3. Replaced(i)'
        BY <3>1, <4>1, <4>2 DEF Replaced
      <4> QED BY <3>4, <4>3
    <3>5. CASE request.mode # "rename_existing" /\ folder[entries[i].output] = entries[i].entry
      <4>1. CASE entries[i].output # o
        BY <1>4, <1>5, <3>1, <3>2, <3>5, <4>1
      <4>2. CASE entries[i].output = o
        <5>1. Replacing(pending)
          BY <1>3, <3>2, <3>5, <4>2
        <5>2. PICK j : j = Len(entries) + 1
          OBVIOUS
        <5>3. j \in DOMAIN entries' /\ i < j /\ entries'[j].output = o /\ ~entries'[j].renamedOriginal
          BY <1>2, <1>3, <1>6, <3>1, <5>1, <5>2 DEF Added
        <5>4. Replaced(i)'
          BY <3>1, <4>2, <5>3 DEF Replaced
        <5> QED BY <3>5, <5>4
      <4> QED BY <4>1, <4>2
    <3> QED BY <2>2, <3>3, <3>4, <3>5 DEF Reported
  <2> QED BY <1>6, <2>1, <2>2 DEF Added
<1> QED BY <1>8, <1>9

\* A drop leaves nothing.
LEMMA DropKeepsClean ==
  ASSUME Fitting, ~request.faults, Clean, Reported, DropStep
  PROVE  Clean' /\ Reported'
<1>1. ResultStep
  BY DEF DropStep
<1>2. PICK k, o, P, B, b : k = pending.entry /\ o = pending.output /\ P = Partial(k) /\ B = Backup(k)
                           /\ b = pending.backup
  OBVIOUS
<1>3. /\ ExtractTypeOK /\ k # Absent /\ folder[B] = Absent
      /\ pending.renamedOriginal = (b # NoPath) /\ pending.renamedOriginal \in BOOLEAN
      /\ Replacing(pending) \in BOOLEAN
      /\ Replacing(pending) => ~pending.renamedOriginal /\ b = NoPath
      /\ ~Replacing(pending) => folder[o] = Absent
      /\ pending.renamedOriginal => b \in FinalPaths /\ b # o /\ request.mode = "rename_existing"
  BY <1>1, <1>2, PendingPaths
<1>4. /\ UNCHANGED <<request, entries>> /\ pending' = Closed
      /\ P \in Places \ FinalPaths /\ B \in Places \ FinalPaths /\ P # B /\ o \in FinalPaths /\ o \in Places
      /\ FinalPaths \subseteq Places /\ NoPath \notin Places /\ OverwriteBackups' = OverwriteBackups
  BY <1>1, <1>2 DEF ResultStep, DropStep, OverwriteBackups
<1>5. /\ \A q \in Places \ {o, b, P, B} : folder'[q] = folder[q]
      /\ folder'[P] = Absent /\ folder'[B] = Absent
      /\ IF pending.renamedOriginal THEN folder'[o] = folder[b] /\ folder'[b] = Absent
         ELSE folder'[o] = folder[o]
  <2>1. /\ \A q \in Places \ {o, b, P, B} : folder'[q] = folder[q]
        /\ folder'[P] = Absent
    BY <1>2 DEF DropStep
  <2>2. CASE Replacing(pending)
    BY <1>2, <1>3, <2>1, <2>2 DEF DropStep
  <2>3. CASE ~Replacing(pending)
    BY <1>2, <1>3, <2>1, <2>3 DEF DropStep
  <2> QED BY <1>3, <2>2, <2>3
<1>6. Clean'
  <2> SUFFICES ASSUME NEW p \in Places \ FinalPaths, folder'[p] # Absent
               PROVE  p \in OverwriteBackups
    BY <1>4 DEF Clean
  <2>1. p # P /\ p # o /\ p # B /\ p # b
    BY <1>3, <1>4, <1>5
  <2> QED BY <1>2, <1>5, <2>1 DEF Clean
<1>7. Reported'
  <2> SUFFICES ASSUME NEW i \in DOMAIN entries
               PROVE  IF request.mode = "rename_existing"
                      THEN \E p \in FinalPaths : folder'[p] = entries[i].entry
                      ELSE folder'[entries[i].output] = entries[i].entry \/ Replaced(i)
    BY <1>4 DEF Reported, Replaced
  <2>1. entries[i].entry # Absent /\ entries[i].output \in FinalPaths
    BY <1>3, EntryTypes, NamesAssumption
  <2>2. CASE request.mode = "rename_existing"
    <3>1. PICK p \in FinalPaths : folder[p] = entries[i].entry
      BY <2>2 DEF Reported
    <3>2. p \in Places /\ p # P /\ p # B
      BY <1>4
    <3>3. CASE pending.renamedOriginal
      <4>1. p # o
        BY <1>3, <2>1, <3>1, <3>3
      <4> QED BY <1>4, <1>5, <2>2, <3>1, <3>2, <3>3, <4>1
    <3>4. CASE ~pending.renamedOriginal
      <4>1. p # b
        BY <1>3, <1>4, <3>2, <3>4
      <4> QED BY <1>5, <2>2, <3>1, <3>2, <3>4, <4>1
    <3> QED BY <1>3, <3>3, <3>4
  <2>3. CASE request.mode # "rename_existing"
    <3>1. ~pending.renamedOriginal /\ b = NoPath
      BY <1>3, <2>3
    <3>2. folder'[entries[i].output] = folder[entries[i].output]
      BY <1>4, <1>5, <2>1, <3>1
    <3> QED BY <2>3, <3>2 DEF Reported
  <2> QED BY <2>2, <2>3
<1> QED BY <1>6, <1>7

\* The trail depends on the entries and the start alone.
LEMMA SameTrail ==
  ASSUME NEW trail, LeadsBack(trail), UNCHANGED <<entries, start>>
  PROVE  LeadsBack(trail)'
<1>1. entries' = entries /\ start' = start
  OBVIOUS
<1>2. OverwriteBackups' = OverwriteBackups
  BY <1>1 DEF OverwriteBackups
<1>3. \A fs : Keeps(fs) => Keeps(fs)'
  BY <1>1 DEF Keeps
<1>4. \A fs : Tidy(fs) => Tidy(fs)'
  BY <1>2 DEF Tidy
<1>5. \A i \in 0..Len(entries) : Keeps(trail[i]) /\ Tidy(trail[i])
  BY DEF LeadsBack
<1>6. \A i \in 0..Len(entries') : Keeps(trail[i])' /\ Tidy(trail[i])'
  BY <1>1, <1>3, <1>4, <1>5
<1>7. /\ trail \in [0..Len(entries') -> [Places -> FileData]]
      /\ trail[0] = start'
      /\ \A i \in DOMAIN entries' :
           Undone(trail[i], entries'[i], FALSE, FALSE) = [folder |-> trail[i - 1], ok |-> TRUE]
  BY <1>1 DEF LeadsBack
<1> QED BY <1>6, <1>7 DEF LeadsBack

\* The trail ends where it did.
LEMMA ControlRetraces ==
  ASSUME Fitting, Retraces, Control
  PROVE  Retraces'
<1>1. /\ UNCHANGED <<request, folder, pending, entries, undo, start>>
      /\ phase' = phase \/ (phase = "extracting" /\ phase' = "returned")
  BY ControlDoes DEF Fitting
<1> SUFFICES ASSUME ~request.faults, request.policy = "rollback", phase' # "finished"
             PROVE  \E trail : OnTrail(trail)'
  BY <1>1 DEF Retraces
<1>2. PICK trail : OnTrail(trail)
  BY <1>1 DEF Retraces
<1>3. LeadsBack(trail)'
  BY <1>1, <1>2, SameTrail DEF OnTrail
<1>4. Working' => Without(trail[Len(entries)])'
  BY <1>1, <1>2 DEF OnTrail, Working, Without
<1>5. phase' = "rolling_back" => undo'.ok /\ folder' = trail[undo'.left]
  BY <1>1, <1>2 DEF OnTrail
<1> QED BY <1>3, <1>4, <1>5 DEF OnTrail

\* Without the pending entry the directory is as it was.
LEMMA OpenRetraces ==
  ASSUME Fitting, Retraces, Opens
  PROVE  Retraces'
<1>1. /\ phase = "extracting" /\ pending = Closed /\ Partial(next) \in Places \ FinalPaths
      /\ folder[Partial(next)] = Absent
      /\ UNCHANGED <<request, entries, start>> /\ phase' \in {"extracting", "returned"}
  BY OpenMoves
<1> SUFFICES ASSUME ~request.faults, request.policy = "rollback"
             PROVE  \E trail : OnTrail(trail)'
  BY <1>1 DEF Retraces
<1>2. PICK trail : OnTrail(trail)
  BY <1>1 DEF Retraces
<1>3. PICK output \in FinalPaths, backup \in FinalPaths \cup {NoPath}, hadOriginal \in BOOLEAN :
        OpensPending(output, backup, hadOriginal)
  BY OpenMoves
<1>4. PICK P : P = Partial(next)
  OBVIOUS
<1>5. trail[Len(entries)] = folder
  BY <1>1, <1>2 DEF OnTrail, Working, Without
<1>6. /\ Partial(pending'.entry) = P /\ pending'.output = output /\ pending'.backup = backup
      /\ pending'.renamedOriginal = (backup # NoPath)
      /\ IF backup = NoPath THEN Stayed ELSE Moved(output, backup)
  BY <1>3, <1>4 DEF OpensPending
<1>7. output \in Places \ {P} /\ FinalPaths \subseteq Places
  BY <1>1, <1>4, PathsDiffer
<1>8. /\ \A q \in Places \ {output, backup, P} : folder[q] = folder'[q]
      /\ folder[P] = Absent
      /\ IF backup # NoPath THEN folder[output] = folder'[backup] /\ folder[backup] = Absent
         ELSE folder[output] = folder'[output]
  <2>1. CASE backup = NoPath
    BY <1>1, <1>4, <1>6, <1>7, <2>1 DEF Stayed
  <2>2. CASE backup # NoPath
    BY <1>1, <1>4, <1>6, <1>7, <2>2 DEF Moved
  <2> QED BY <2>1, <2>2
<1>9. Without(trail[Len(entries)])'
  <2>1. pending' # Closed
    BY <1>3 DEF OpensPending
  <2>2. trail[Len(entries')] = folder
    BY <1>1, <1>5
  <2> QED BY <1>6, <1>8, <2>1, <2>2 DEF Without
<1>10. LeadsBack(trail)'
  BY <1>1, <1>2, SameTrail DEF OnTrail
<1> QED BY <1>1, <1>9, <1>10 DEF OnTrail

\* A commit prolongs the trail.
LEMMA CommitRetraces ==
  ASSUME Fitting, Retraces, Clean' \/ request.faults, NEW backup \in BOOLEAN, CommitStep(backup)
  PROVE  Retraces'
<1>1. ResultStep
  BY DEF CommitStep
<1>2. /\ phase = "extracting" /\ pending # Closed /\ pending' = Closed
      /\ UNCHANGED <<request, start>> /\ phase' \in {"extracting", "returned"}
      /\ folder' \in [Places -> FileData]
  BY <1>1 DEF ResultStep
<1> SUFFICES ASSUME ~request.faults, request.policy = "rollback"
             PROVE  \E trail : OnTrail(trail)'
  BY <1>2 DEF Retraces
<1>3. PICK old : OnTrail(old)
  BY <1>2 DEF Retraces
<1>4. PICK len : len = Len(entries)
  OBVIOUS
<1>5. PICK e : Added(e, backup)
  BY CommitAdds DEF Fitting
<1>6. PICK new : new = folder'
  OBVIOUS
<1>7. PICK trail : trail = [i \in 0..len + 1 |-> IF i = len + 1 THEN new ELSE old[i]]
  OBVIOUS
<1>8. /\ len \in Nat /\ Len(entries') = len + 1 /\ DOMAIN entries = 1..len /\ DOMAIN entries' = 1..len + 1
      /\ entries'[len + 1] = e /\ \A i \in 1..len : entries'[i] = entries[i]
  BY <1>4, <1>5 DEF Added
<1>9. /\ old \in [0..len -> [Places -> FileData]] /\ old[0] = start
      /\ \A i \in 1..len : Undone(old[i], entries[i], FALSE, FALSE) = [folder |-> old[i - 1], ok |-> TRUE]
      /\ \A i \in 0..len : Keeps(old[i]) /\ Tidy(old[i])
      /\ Without(old[len])
  BY <1>2, <1>3, <1>4, <1>8 DEF OnTrail, LeadsBack, Working
<1>10. /\ trail \in [0..len + 1 -> [Places -> FileData]]
       /\ trail[len + 1] = new /\ \A i \in 0..len : trail[i] = old[i]
  BY <1>2, <1>6, <1>7, <1>8, <1>9
<1>11. old[len] \in [Places -> FileData]
  BY <1>8, <1>9
<1>12. /\ Undone(new, e, FALSE, FALSE) = [folder |-> old[len], ok |-> TRUE]
       /\ Keeps(new)
  <2>1. Keeps(old[len])
    BY <1>8, <1>9
  <2> QED BY <1>5, <1>6, <1>9, <1>11, <2>1, CommitUndone
<1>13. \A i \in 1..len + 1 : Undone(trail[i], entries'[i], FALSE, FALSE) = [folder |-> trail[i - 1], ok |-> TRUE]
  <2> SUFFICES ASSUME NEW i \in 1..len + 1
               PROVE  Undone(trail[i], entries'[i], FALSE, FALSE) = [folder |-> trail[i - 1], ok |-> TRUE]
    OBVIOUS
  <2>1. CASE i = len + 1
    <3>1. trail[i] = new /\ trail[i - 1] = old[len] /\ entries'[i] = e
      BY <1>8, <1>10, <2>1
    <3> QED BY <1>12, <3>1
  <2>2. CASE i # len + 1
    <3>1. i \in 1..len /\ i \in 0..len /\ i - 1 \in 0..len
      BY <1>8, <2>2
    <3>2. trail[i] = old[i] /\ trail[i - 1] = old[i - 1] /\ entries'[i] = entries[i]
      BY <1>8, <1>10, <3>1
    <3> QED BY <1>9, <3>1, <3>2
  <2> QED BY <2>1, <2>2
<1>14. \A i \in 0..len + 1 : Keeps(trail[i])' /\ Tidy(trail[i])'
  <2> SUFFICES ASSUME NEW i \in 0..len + 1 PROVE Keeps(trail[i])' /\ Tidy(trail[i])'
    OBVIOUS
  <2>1. PICK fs : fs = trail[i]
    OBVIOUS
  <2>2. Keeps(fs)
    BY <1>8, <1>9, <1>10, <1>12, <2>1
  <2>3. Keeps(fs)'
    BY <1>2, <2>2 DEF Keeps
  <2>4. Tidy(fs)'
    <3>1. CASE i = len + 1
      <4>1. fs = folder'
        BY <1>6, <1>8, <1>10, <2>1, <3>1
      <4>2. Clean'
        OBVIOUS
      <4> QED BY <1>2, <4>1, <4>2 DEF Clean, Tidy
    <3>2. CASE i # len + 1
      <4>1. Tidy(fs)
        BY <1>8, <1>9, <1>10, <2>1, <3>2
      <4>2. OverwriteBackups \subseteq OverwriteBackups'
        BY BackupsGrow
      <4> QED BY <4>1, <4>2 DEF Tidy
    <3> QED BY <3>1, <3>2
  <2> QED BY <2>1, <2>3, <2>4
<1>15. trail[0] = start'
  BY <1>2, <1>8, <1>9, <1>10
<1>16. LeadsBack(trail)'
  BY <1>8, <1>10, <1>13, <1>14, <1>15 DEF LeadsBack
<1>17. Without(trail[Len(entries)])'
  <2>1. trail[Len(entries')] = folder'
    BY <1>6, <1>8, <1>10
  <2> QED BY <1>2, <2>1 DEF Without
<1> QED BY <1>2, <1>16, <1>17 DEF OnTrail

\* A drop leads back to the end of the trail.
LEMMA DropRetraces ==
  ASSUME Fitting, Retraces, DropStep
  PROVE  Retraces'
<1>1. ResultStep
  BY DEF DropStep
<1>2. /\ phase = "extracting" /\ pending # Closed /\ pending' = Closed
      /\ UNCHANGED <<request, entries, start>> /\ phase' \in {"extracting", "returned"}
      /\ folder' \in [Places -> FileData]
  BY <1>1 DEF ResultStep, DropStep
<1> SUFFICES ASSUME ~request.faults, request.policy = "rollback"
             PROVE  \E trail : OnTrail(trail)'
  BY <1>2 DEF Retraces
<1>3. PICK trail : OnTrail(trail)
  BY <1>2 DEF Retraces
<1>4. LeadsBack(trail)'
  BY <1>2, <1>3, SameTrail DEF OnTrail
<1>5. PICK fs : fs = trail[Len(entries)]
  OBVIOUS
<1>6. fs \in [Places -> FileData] /\ Without(fs)
  <2>1. Len(entries) \in Nat /\ Len(entries) \in 0..Len(entries)
    BY DEF Fitting, ExtractTypeOK
  <2> QED BY <1>2, <1>3, <1>5, <2>1 DEF OnTrail, LeadsBack, Working
<1>7. PICK k, o, P, B, b : k = pending.entry /\ o = pending.output /\ P = Partial(k) /\ B = Backup(k)
                           /\ b = pending.backup
  OBVIOUS
<1>8. /\ folder[B] = Absent
      /\ pending.renamedOriginal = (b # NoPath) /\ pending.renamedOriginal \in BOOLEAN
      /\ Replacing(pending) \in BOOLEAN
      /\ Replacing(pending) => ~pending.renamedOriginal /\ b = NoPath
      /\ ~Replacing(pending) => folder[o] = Absent
      /\ pending.renamedOriginal => b \in FinalPaths /\ b \in Places /\ b # o /\ b # P /\ b # B
  BY <1>1, <1>7, PendingPaths
<1>9. /\ P \in Places \ FinalPaths /\ B \in Places \ FinalPaths /\ P # B /\ o \in FinalPaths /\ o \in Places
      /\ FinalPaths \subseteq Places /\ NoPath \notin Places
  BY <1>1, <1>7 DEF ResultStep
<1>10. /\ \A q \in Places \ {o, b, P, B} : folder'[q] = folder[q]
       /\ folder'[P] = Absent /\ folder'[B] = Absent
       /\ IF pending.renamedOriginal THEN folder'[o] = folder[b] /\ folder'[b] = Absent
          ELSE folder'[o] = folder[o]
  <2>1. /\ \A q \in Places \ {o, b, P, B} : folder'[q] = folder[q]
        /\ folder'[P] = Absent
    BY <1>7 DEF DropStep
  <2>2. CASE Replacing(pending)
    BY <1>7, <1>8, <2>1, <2>2 DEF DropStep
  <2>3. CASE ~Replacing(pending)
    BY <1>7, <1>8, <2>1, <2>3 DEF DropStep
  <2> QED BY <1>8, <2>2, <2>3
<1>11. /\ \A q \in Places \ {o, b, P} : fs[q] = folder[q]
       /\ fs[P] = Absent
       /\ IF pending.renamedOriginal THEN fs[o] = folder[b] /\ fs[b] = Absent ELSE fs[o] = folder[o]
  BY <1>2, <1>6, <1>7 DEF Without
<1>12. folder' = fs
  <2>1. ASSUME NEW q \in Places PROVE folder'[q] = fs[q]
    <3>1. CASE q = o \/ q = P \/ q = B
      BY <1>8, <1>9, <1>10, <1>11, <3>1
    <3>2. CASE q = b
      BY <1>8, <1>9, <1>10, <1>11, <3>2
    <3>3. CASE q \notin {o, b, P, B}
      BY <1>10, <1>11, <3>3
    <3> QED BY <3>1, <3>2, <3>3
  <2> QED BY <1>2, <1>6, <2>1
<1>13. Without(trail[Len(entries)])'
  BY <1>2, <1>5, <1>12 DEF Without
<1> QED BY <1>2, <1>4, <1>13 DEF OnTrail

-----------------------------------------------------------------------------
(* The end of a run, and the theorems.                                     *)

Ended == phase = "finished" =>
  RollbackRestores /\ OriginalsSurvive /\ NoDebris /\ ReportedIsExtracted

\* The inductive invariant: while the run works, where the originals are and
\* what lies around; that a rollback retraces it; and in the end what is promised.
Extracting ==
  /\ Fitting
  /\ Working => Homes /\ BackupOwners /\ Survive
  /\ Working /\ ~request.faults => Clean /\ Reported
  /\ Retraces
  /\ Ended

\* The rollback begins at the end of the trail,
LEMMA RollbackBegins ==
  ASSUME Extracting, SettleByRollback
  PROVE  Extracting'
<1>1. Fitting /\ Fitting'
  BY SettleFits DEF Extracting, Settles
<1>2. /\ phase = "returned" /\ triggered /\ phase' = "rolling_back"
      /\ undo' = [left |-> Len(entries), ok |-> TRUE]
      /\ UNCHANGED <<request, entries, pending, start, folder>>
  BY DEF SettleByRollback, Settling
<1>3. pending = Closed
  BY <1>1, <1>2 DEF Fitting, Ends
<1>4. Retraces'
  <2> SUFFICES ASSUME ~request.faults, request.policy = "rollback" PROVE \E trail : OnTrail(trail)'
    BY <1>2 DEF Retraces
  <2>1. PICK trail : OnTrail(trail)
    BY <1>2 DEF Extracting, Retraces
  <2>2. LeadsBack(trail)'
    BY <1>2, <2>1, SameTrail DEF OnTrail
  <2>3. folder = trail[Len(entries)]
    BY <1>2, <1>3, <2>1 DEF OnTrail, Working, Without
  <2>4. undo'.ok /\ undo'.left = Len(entries)
    BY <1>2
  <2> QED BY <1>2, <2>2, <2>3, <2>4 DEF OnTrail, Working
<1>5. ~Working' /\ Ended'
  BY <1>2 DEF Working, Ended
<1> QED BY <1>1, <1>4, <1>5 DEF Extracting

\* goes back along it,
LEMMA UndoRetraces ==
  ASSUME Extracting, UndoEntry
  PROVE  Extracting'
<1>1. Fitting /\ Fitting' /\ ExtractTypeOK
  BY SettleFits DEF Extracting, Settles, Fitting
<1>2. /\ phase = "rolling_back" /\ undo.left > 0 /\ phase' = "rolling_back"
      /\ UNCHANGED <<request, entries, pending, start>>
  BY DEF UndoEntry, Settling
<1>3. undo.left \in Nat /\ undo.left <= Len(entries) /\ undo.ok \in BOOLEAN /\ Len(entries) \in Nat
      /\ undo.left \in DOMAIN entries
  BY <1>1, <1>2 DEF ExtractTypeOK
<1>4. Retraces'
  <2> SUFFICES ASSUME ~request.faults, request.policy = "rollback" PROVE \E trail : OnTrail(trail)'
    BY <1>2 DEF Retraces
  <2>1. PICK trail : OnTrail(trail)
    BY <1>2 DEF Extracting, Retraces
  <2>2. LeadsBack(trail)'
    BY <1>2, <2>1, SameTrail DEF OnTrail
  <2>3. undo.ok /\ folder = trail[undo.left]
    BY <1>2, <2>1 DEF OnTrail
  <2>4. PICK u : u = Undone(folder, NextUndone, FALSE, FALSE)
    OBVIOUS
  <2>5. folder' = u.folder /\ undo' = [left |-> undo.left - 1, ok |-> undo.ok /\ u.ok]
    BY <2>4 DEF UndoEntry
  <2>6. u = [folder |-> trail[undo.left - 1], ok |-> TRUE]
    BY <1>3, <2>1, <2>3, <2>4 DEF OnTrail, LeadsBack, NextUndone
  <2>7. folder' = trail[undo.left - 1] /\ u.ok = TRUE
    BY <2>5, <2>6
  <2>8. undo'.left = undo.left - 1 /\ undo'.ok = (undo.ok /\ u.ok)
    BY <2>5
  <2>9. undo'.ok /\ folder' = trail[undo'.left]
    BY <2>3, <2>7, <2>8
  <2> QED BY <1>2, <2>2, <2>9 DEF OnTrail, Working
<1>5. ~Working' /\ Ended'
  BY <1>2 DEF Working, Ended
<1> QED BY <1>1, <1>4, <1>5 DEF Extracting

\* and ends where the run began.
LEMMA RollbackEnded ==
  ASSUME Extracting, RollbackEnds
  PROVE  Extracting'
<1>1. Fitting /\ Fitting' /\ ExtractTypeOK /\ StartFits
  BY SettleFits DEF Extracting, Settles, Fitting
<1>2. /\ phase = "rolling_back" /\ undo.left = 0 /\ phase' = "finished"
      /\ outcome' = IF undo.ok THEN "rolled_back" ELSE "rollback_failed"
      /\ UNCHANGED <<request, entries, pending, start, folder>>
  BY DEF RollbackEnds, Settling
<1>3. RollingBack' /\ outcome' # "kept"
  BY <1>2 DEF RollingBack
<1>4. ASSUME ~request.faults PROVE outcome' = "rolled_back" /\ folder = start
  <2>1. request.policy = "rollback"
    BY <1>1, <1>2 DEF Fitting, Ends, RollingBack
  <2>2. PICK trail : OnTrail(trail)
    BY <1>2, <1>4, <2>1 DEF Extracting, Retraces
  <2>3. undo.ok /\ folder = trail[0] /\ trail[0] = start
    BY <1>2, <2>2 DEF OnTrail, LeadsBack
  <2> QED BY <1>2, <2>3
<1>5. RollbackRestores'
  BY <1>2, <1>4 DEF RollbackRestores
<1>6. OriginalsSurvive'
  <2>1. ASSUME ~request.faults, NEW n \in Names, start[Final(n)] = n PROVE \E p \in Places : folder[p] = n
    BY <1>4, <2>1, PathsDiffer
  <2> QED BY <1>2, <1>3, <2>1 DEF OriginalsSurvive
<1>7. NoDebris'
  <2>1. ~request.faults => Debris' = {}
    BY <1>1, <1>2, <1>4 DEF Debris, StartFits
  <2> QED BY <1>2, <2>1 DEF NoDebris
<1>8. ReportedIsExtracted'
  BY <1>3 DEF ReportedIsExtracted
<1>9. ~Working' /\ Retraces'
  BY <1>2 DEF Working, Retraces
<1> QED BY <1>1, <1>5, <1>6, <1>7, <1>8, <1>9 DEF Extracting, Ended

\* What the clean-up removes are backups of files that the user let be overwritten.
LEMMA KeptEnded ==
  ASSUME Extracting, SettleByKeeping
  PROVE  Extracting'
<1>1. Fitting /\ Fitting' /\ ExtractTypeOK /\ EntriesFit
  BY SettleFits DEF Extracting, Settles, Fitting
<1>2. /\ phase = "returned" /\ phase' = "finished" /\ outcome' = "kept"
      /\ UNCHANGED <<request, entries, pending, start, consented>>
  BY DEF SettleByKeeping, Settling
<1>3. /\ Homes /\ BackupOwners /\ Survive
      /\ ~request.faults => Clean /\ Reported
  BY <1>2 DEF Extracting, Working
<1>4. PICK removed \in IF request.faults THEN SUBSET OverwriteBackups ELSE {OverwriteBackups} :
        folder' = [p \in Places |-> IF p \in removed THEN Absent ELSE folder[p]]
  BY DEF SettleByKeeping
<1>5. /\ removed \subseteq OverwriteBackups /\ (~request.faults => removed = OverwriteBackups)
      /\ \A p \in Places : folder'[p] = IF p \in removed THEN Absent ELSE folder[p]
  BY <1>4
<1>6. \A p \in OverwriteBackups : \E i \in DOMAIN entries :
        /\ p = entries[i].backup /\ entries[i].hadOriginal /\ ~entries[i].renamedOriginal
        /\ entries[i].backup # NoPath /\ p \notin FinalPaths /\ entries[i].output \in consented
  <2> SUFFICES ASSUME NEW p \in OverwriteBackups
               PROVE  \E i \in DOMAIN entries :
                        /\ p = entries[i].backup /\ entries[i].hadOriginal /\ ~entries[i].renamedOriginal
                        /\ entries[i].backup # NoPath /\ p \notin FinalPaths /\ entries[i].output \in consented
    OBVIOUS
  <2>1. PICK i \in DOMAIN entries : /\ entries[i].hadOriginal /\ ~entries[i].renamedOriginal
                                    /\ entries[i].backup # NoPath /\ p = entries[i].backup
    BY DEF OverwriteBackups
  <2>2. entries[i].backup = Backup(entries[i].entry) /\ entries[i].output \in consented
    BY <1>1, <2>1 DEF EntriesFit
  <2>3. p \notin FinalPaths
    BY <1>1, <2>1, <2>2, EntryTypes, PathsDiffer
  <2> QED BY <2>1, <2>2, <2>3
<1>7. RollbackRestores'
  BY <1>2 DEF RollbackRestores
<1>8. OriginalsSurvive'
  <2> SUFFICES ASSUME NEW n \in Names, start[Final(n)] = n
               PROVE  (\E p \in Places : folder'[p] = n) \/ Overwritten(n)
    BY <1>2 DEF OriginalsSurvive, Overwritten
  <2>1. Overwritten(n) \/ \E p \in Places : folder[p] = n
    BY <1>3 DEF Survive
  <2>2. CASE \E p \in Places : folder[p] = n
    <3>1. PICK p \in Places : folder[p] = n
      BY <2>2
    <3>2. CASE p \in removed
      <4>1. PICK i \in DOMAIN entries :
              /\ p = entries[i].backup /\ entries[i].hadOriginal /\ ~entries[i].renamedOriginal
              /\ entries[i].backup # NoPath /\ entries[i].output \in consented
        BY <1>5, <1>6, <3>2
      <4>2. Final(n) = entries[i].output
        BY <1>3, <3>1, <4>1 DEF BackupOwners
      <4> QED BY <4>1, <4>2 DEF Overwritten
    <3>3. CASE p \notin removed
      BY <1>5, <3>1, <3>3
    <3> QED BY <3>2, <3>3
  <2> QED BY <2>1, <2>2
<1>9. NoDebris'
  <2>1. ASSUME ~request.faults, pending = Closed PROVE Debris' = {}
    <3>1. ASSUME NEW p \in Places \ FinalPaths, folder'[p] # Absent PROVE FALSE
      BY <1>3, <1>5, <2>1, <3>1 DEF Clean
    <3> QED BY <3>1 DEF Debris
  <2> QED BY <1>2, <2>1 DEF NoDebris
<1>10. ReportedIsExtracted'
  <2> SUFFICES ASSUME ~request.faults, NEW i \in DOMAIN entries
               PROVE  (\E p \in FinalPaths : folder'[p] = entries[i].entry) \/ Replaced(i)
    BY <1>2 DEF ReportedIsExtracted, Replaced
  <2>1. entries[i].output \in FinalPaths
    BY <1>1, EntryTypes
  <2>2. (\E p \in FinalPaths : folder[p] = entries[i].entry) \/ Replaced(i)
    BY <1>3, <2>1 DEF Reported
  <2>3. \A p \in FinalPaths : folder'[p] = folder[p]
    BY <1>5, <1>6, PathsDiffer
  <2> QED BY <2>2, <2>3
<1>11. ~Working' /\ Retraces'
  BY <1>2 DEF Working, Retraces
<1> QED BY <1>1, <1>7, <1>8, <1>9, <1>10, <1>11 DEF Extracting, Ended

\* The run begins with an empty trail.
LEMMA InitExtracting == ExtractInit => Extracting
<1> SUFFICES ASSUME ExtractInit PROVE Extracting
  OBVIOUS
<1>1. Fitting
  BY InitFits
<1>2. /\ start = folder /\ next = 1 /\ pending = Closed /\ entries = <<>> /\ phase = "extracting"
      /\ ExtractTypeOK /\ StartFits
  BY <1>1 DEF ExtractInit, Fitting
<1>3. DOMAIN entries = {} /\ Len(entries) = 0
  BY <1>2
<1>4. Homes
  BY <1>2, NamesAssumption DEF Homes, StartFits
<1>5. BackupOwners /\ Reported
  BY <1>3 DEF BackupOwners, Reported
<1>6. Survive /\ Keeps(start)
  BY <1>2, PathsDiffer DEF Survive, Keeps
<1>7. Clean /\ Tidy(start)
  BY <1>2 DEF Clean, Tidy, StartFits
<1>8. Retraces
  <2>1. PICK trail : trail = [i \in 0..0 |-> start]
    OBVIOUS
  <2>2. start \in [Places -> FileData]
    BY <1>2 DEF ExtractTypeOK
  <2>3. trail \in [0..0 -> [Places -> FileData]] /\ trail[0] = start /\ \A i \in 0..0 : trail[i] = start
    BY <2>1, <2>2
  <2>4. LeadsBack(trail)
    BY <1>3, <1>6, <1>7, <2>3 DEF LeadsBack
  <2>5. Without(trail[Len(entries)])
    BY <1>2, <1>3, <2>3 DEF Without
  <2> QED BY <1>2, <2>4, <2>5 DEF Retraces, OnTrail
<1>9. Ended
  BY <1>2 DEF Ended
<1> QED BY <1>1, <1>4, <1>5, <1>6, <1>7, <1>8, <1>9 DEF Extracting

\* The callbacks keep the invariant.
LEMMA WorkExtracting ==
  ASSUME Extracting, Control \/ Opens \/ ResultOK \/ ResultBad
  PROVE  Extracting'
<1>1. Fitting /\ Fitting' /\ ExtractTypeOK
  BY ControlFits, OpenFits, ResultFits DEF Extracting, Fitting
<1>2. CASE Control
  <2>1. /\ UNCHANGED <<request, folder, pending, entries, start, consented, outcome>>
        /\ phase' = phase \/ (phase = "extracting" /\ phase' = "returned")
    BY <1>1, <1>2, ControlDoes DEF Fitting
  <2>2. Working' = Working /\ (phase' = "finished" => phase = "finished")
    BY <2>1 DEF Working
  <2>3. Working' => Homes' /\ BackupOwners' /\ Survive'
    BY <2>1, <2>2 DEF Extracting, Homes, BackupOwners, Survive, Overwritten
  <2>4. Working' /\ ~request'.faults => Clean' /\ Reported'
    BY <2>1, <2>2 DEF Extracting, Clean, Reported, Replaced, OverwriteBackups
  <2>5. Retraces'
    BY <1>1, <1>2, ControlRetraces DEF Extracting
  <2>6. phase # "finished"
    BY <1>2 DEF Control, GetStreamAborts, GetStreamSkips, GetStreamFails, HandlerGivesUp, HandlerEnds,
                Cancel, Admitted, Called
  <2>7. Ended'
    BY <2>2, <2>6 DEF Ended
  <2> QED BY <1>1, <2>3, <2>4, <2>5, <2>7 DEF Extracting
<1>3. CASE Opens
  <2>1. phase = "extracting" /\ phase' \in {"extracting", "returned"} /\ UNCHANGED request
    BY <1>1, <1>3, OpenMoves
  <2>2. Homes' /\ BackupOwners' /\ Survive'
    BY <1>1, <1>3, <2>1, OpenKeepsOwners DEF Extracting, Working
  <2>3. ~request'.faults => Clean' /\ Reported'
    BY <1>1, <1>3, <2>1, OpenKeepsClean DEF Extracting, Working
  <2>4. Retraces'
    BY <1>1, <1>3, OpenRetraces DEF Extracting
  <2>5. Ended'
    BY <2>1 DEF Ended
  <2> QED BY <1>1, <2>2, <2>3, <2>4, <2>5 DEF Extracting
<1>4. CASE ResultOK \/ ResultBad
  <2>1. (\E backup \in BOOLEAN : CommitStep(backup)) \/ DropStep
    BY <1>1, <1>4, ResultSteps
  <2>2. phase = "extracting" /\ phase' \in {"extracting", "returned"} /\ UNCHANGED request
    BY <2>1 DEF CommitStep, DropStep, ResultStep
  <2>3. Homes /\ BackupOwners /\ Survive /\ (~request.faults => Clean /\ Reported) /\ Retraces
    BY <2>2 DEF Extracting, Working
  <2>4. Homes' /\ BackupOwners' /\ Survive'
    BY <1>1, <2>1, <2>3, CommitKeepsOwners, DropKeepsOwners
  <2>5. ~request.faults => Clean' /\ Reported'
    BY <1>1, <2>1, <2>3, CommitKeepsClean, DropKeepsClean
  <2>6. Retraces'
    <3>1. CASE DropStep
      BY <1>1, <2>3, <3>1, DropRetraces
    <3>2. CASE \E backup \in BOOLEAN : CommitStep(backup)
      <4>1. PICK backup \in BOOLEAN : CommitStep(backup)
        BY <3>2
      <4>2. Clean' \/ request.faults
        BY <2>5
      <4> QED BY <1>1, <2>3, <4>1, <4>2, CommitRetraces
    <3> QED BY <2>1, <3>1, <3>2
  <2>7. Ended'
    BY <2>2 DEF Ended
  <2> QED BY <1>1, <2>2, <2>4, <2>5, <2>6, <2>7 DEF Extracting
<1> QED BY <1>2, <1>3, <1>4

\* The invariant is inductive,
LEMMA NextExtracting == Extracting /\ [ExtractNext]_extractVars => Extracting'
<1> SUFFICES ASSUME Extracting, [ExtractNext]_extractVars PROVE Extracting'
  OBVIOUS
<1>1. CASE Control \/ Opens \/ ResultOK \/ ResultBad
  BY <1>1, WorkExtracting
<1>2. CASE Settles
  BY <1>2, RollbackBegins, UndoRetraces, RollbackEnded, KeptEnded DEF Settles
<1>3. CASE UNCHANGED extractVars
  <2>1. /\ UNCHANGED <<request, folder, next, pending, entries, triggered>>
        /\ UNCHANGED <<phase, undo, outcome, start, consented>>
    BY <1>3 DEF extractVars
  <2>2. Fitting'
    BY <1>3, NextFits DEF Extracting
  <2>3. /\ Working' = Working
        /\ Working' => Homes' /\ BackupOwners' /\ Survive'
    BY <2>1 DEF Extracting, Working, Homes, BackupOwners, Survive, Overwritten
  <2>4. OverwriteBackups' = OverwriteBackups
    BY <2>1 DEF OverwriteBackups
  <2>5. Working' /\ ~request'.faults => Clean' /\ Reported'
    BY <2>1, <2>3, <2>4 DEF Extracting, Clean, Reported, Replaced
  <2>6. Retraces'
    <3> SUFFICES ASSUME ~request.faults, request.policy = "rollback", phase # "finished"
                 PROVE  \E trail : OnTrail(trail)'
      BY <2>1 DEF Retraces
    <3>1. PICK trail : OnTrail(trail)
      BY DEF Extracting, Retraces
    <3>2. LeadsBack(trail)'
      BY <2>1, <3>1, SameTrail DEF OnTrail
    <3>3. Working' => Without(trail[Len(entries)])'
      BY <2>1, <2>3, <3>1 DEF OnTrail, Without
    <3>4. phase' = "rolling_back" => undo'.ok /\ folder' = trail[undo'.left]
      BY <2>1, <3>1 DEF OnTrail
    <3> QED BY <3>2, <3>3, <3>4 DEF OnTrail
  <2>7. Ended'
    BY <2>1, <2>4 DEF Extracting, Ended, RollbackRestores, OriginalsSurvive, RollingBack, NoDebris, Debris,
                      ReportedIsExtracted
  <2> QED BY <2>2, <2>3, <2>5, <2>6, <2>7 DEF Extracting
<1> QED BY <1>1, <1>2, <1>3 DEF ExtractNext, Control, Opens, Settles

\* and implies what a run promises.
LEMMA Promises ==
  ASSUME Extracting
  PROVE  RollbackRestores /\ OriginalsSurvive /\ NoDebris /\ ReportedIsExtracted
<1>1. /\ ExtractTypeOK /\ Ends
      /\ phase \in {"extracting", "returned", "rolling_back", "finished"}
      /\ (phase = "finished") = (outcome # "none")
  BY DEF Extracting, Fitting, ExtractTypeOK
<1>2. CASE phase = "finished"
  BY <1>2 DEF Extracting, Ended
<1>3. CASE phase # "finished"
  <2>1. RollbackRestores /\ ReportedIsExtracted
    BY <1>1, <1>3 DEF RollbackRestores, ReportedIsExtracted
  <2>2. CASE Working
    <3>1. OriginalsSurvive
      BY <2>2 DEF Extracting, Survive, Overwritten, OriginalsSurvive
    <3>2. NoDebris
      BY <1>3, <2>2 DEF Extracting, Clean, NoDebris, Debris
    <3> QED BY <2>1, <3>1, <3>2
  <2>3. CASE phase = "rolling_back"
    <3>1. CASE request.faults
      BY <2>1, <2>3, <3>1 DEF OriginalsSurvive, RollingBack, NoDebris
    <3>2. CASE ~request.faults
      <4>1. request.policy = "rollback"
        BY <1>1, <2>3 DEF Ends, RollingBack
      <4>2. PICK trail : OnTrail(trail)
        BY <1>3, <3>2, <4>1 DEF Extracting, Retraces
      <4>3. folder = trail[undo.left] /\ undo.left \in 0..Len(entries)
        <5>1. undo.left \in Nat /\ undo.left <= Len(entries) /\ Len(entries) \in Nat
          BY <1>1 DEF ExtractTypeOK
        <5> QED BY <2>3, <4>2, <5>1 DEF OnTrail
      <4>4. Keeps(folder) /\ Tidy(folder)
        BY <4>2, <4>3 DEF OnTrail, LeadsBack
      <4>5. OriginalsSurvive
        BY <4>4 DEF Keeps, OriginalsSurvive
      <4>6. NoDebris
        BY <1>3, <4>4 DEF Tidy, NoDebris, Debris
      <4> QED BY <2>1, <4>5, <4>6
    <3> QED BY <3>1, <3>2
  <2> QED BY <1>1, <1>3, <2>2, <2>3 DEF Working
<1> QED BY <1>2, <1>3

\* It holds in every reachable state.
LEMMA AlwaysExtracting == ExtractSpec => []Extracting
BY InitExtracting, NextExtracting, PTL DEF ExtractSpec

\* Every variable of an extraction keeps its type.
THEOREM ExtractTypeCorrect == ExtractSpec => []ExtractTypeOK
<1>1. Extracting => ExtractTypeOK
  BY DEF Extracting, Fitting
<1> QED BY <1>1, AlwaysExtracting, PTL

\* Whatever is overwritten, renamed or extracted twice to one name, a rollback
\* leaves the directory as it was, on a file system that works.
THEOREM RollbacksRestore == ExtractSpec => []RollbackRestores
BY Promises, AlwaysExtracting, PTL

\* No original is lost but one whose name the user let be overwritten.
THEOREM OriginalsAlwaysSurvive == ExtractSpec => []OriginalsSurvive
BY Promises, AlwaysExtracting, PTL

\* Neither partial files nor backups are left behind.
THEOREM NeverDebris == ExtractSpec => []NoDebris
BY Promises, AlwaysExtracting, PTL

\* What is reported as extracted is there.
THEOREM ReportsAreExtracted == ExtractSpec => []ReportedIsExtracted
BY Promises, AlwaysExtracting, PTL
===============================================================================
